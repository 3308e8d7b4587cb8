---- MODULE Ownership ----
\* Who owns the server: the local administrator's claim, the setup token
\* that gates it on first boot, the directory of invited users, the Google
\* configuration and the cleanup behind a removed user.
\* service/auth/{local_admin_authenticator,setup_token,google_authenticator}.go,
\* service/user/service.go, service/user_removal_cleanup.go and the stores
\* fileauth and fileusers.
\*
\* A call to a store is one step: it holds the store's mutex and renames a
\* complete file into place.  A handler is a chain of such calls, and only
\* a claim holds a mutex over its chain.  Any call may fail or be cut by a
\* restart; the setup-token command is another process over the same files.
EXTENDS Naturals, FiniteSets, SequencesExt

CONSTANTS
  Owners,          \* concurrent requests
  Emails,          \* normalised addresses
  HeldKinds,       \* which kinds of state the users come to hold here
  MaxTokens,       \* bound on setup tokens
  MaxOwnerCalls,   \* bound on requests
  MaxOwnerFaults,  \* bound on failing store calls
  MaxReboots,      \* bound on restarts
  NoEmail

\* Access to projects and push subscriptions: stores without a cache.  The records
\* of the second factor and of sessions have one: AccountSecurity.
ASSUME OwnershipAssumption == NoEmail \notin Emails /\ HeldKinds \subseteq {"access", "push"}

VARIABLES
  roster,          \* users.json: [email, role] in the order of AddedAt
  credentialFile,  \* local-admin.json: its email, or NoEmail
  adminCredential, \* LocalAdminAuthenticator.credential
  claimLock,       \* claimMu is held
  setupTokenFile,  \* setup-token.json: [id, used]; id 0 is no file
  tokensIssued,    \* tokens generated so far
  expiredTokens,   \* tokens past their ExpiresAt
  issuer,          \* where the setup-token command stands
  oauthFile,       \* oauth.json, as the number of its configuration; 0 is none
  oauthProvider,   \* GoogleAuthenticator.provider, likewise
  ownerCall,       \* request -> [op, email, phase, arg, flag]
  ownerCalls, ownerFaults, reboots,
  holdings,        \* <<kind, email>>: state kept under an email in other stores
  owner,           \* the email of the claim last answered with success
  tokenGrants,     \* the tokens such claims were granted for
  halfway,         \* a claim ended between its credential and its user row
  countsCrossed,   \* two requests counted the administrators before either wrote
  configsCrossed,  \* a configuration was saved while another was saved and not in use
  raced            \* emails that came to hold something while being removed

ownershipVars == <<roster, credentialFile, adminCredential, claimLock, setupTokenFile, tokensIssued,
                   expiredTokens, issuer, oauthFile, oauthProvider, ownerCall, ownerCalls, ownerFaults,
                   reboots, holdings, owner, tokenGrants, halfway, countsCrossed, configsCrossed, raced>>

ownerFiles == <<roster, credentialFile, setupTokenFile, tokensIssued, oauthFile, holdings>>
ownerMemory == <<adminCredential, oauthProvider>>
ownerBounds == <<expiredTokens, issuer, ownerCalls, reboots>>
ownerGhosts == <<owner, tokenGrants, halfway, countsCrossed, configsCrossed, raced>>

IdleOwner == [op |-> "none", email |-> NoEmail, phase |-> "idle", arg |-> 0, flag |-> FALSE]

----
\* The directory.

Row(e) == [email |-> e, role |-> "member"]
AdminRow(e) == [email |-> e, role |-> "admin"]
IsListed(e) == \E i \in DOMAIN roster : roster[i].email = e
IsListedAdmin(e) == AdminRow(e) \in ToSet(roster)
AdminCount == Cardinality({i \in DOMAIN roster : roster[i].role = "admin"})

\* FirstAdmin: the administrator who was added first.
IsFirstAdmin(i) == roster[i].role = "admin" /\ \A j \in 1..(i - 1) : roster[j].role # "admin"
FirstAdmin ==
  IF \E i \in DOMAIN roster : IsFirstAdmin(i)
  THEN roster[CHOOSE i \in DOMAIN roster : IsFirstAdmin(i)].email ELSE NoEmail

IsLocalAdmin(e) == adminCredential = e
IsAdminNow(e) == IsLocalAdmin(e) \/ IsListedAdmin(e)
IsRegisteredNow(e) == IsLocalAdmin(e) \/ IsListed(e)

\* CleanupRemovedUser: what it deletes, in this order; of the last two only that
\* they may fail matters here.
CleanupOrder == <<"access", "push", "twofactor", "session">>

----
\* A fresh server that has printed its first token, a directory of
\* administrators from before local credentials, or a claimed server.
OwnershipInit ==
  /\ \E e \in Emails :
       \/ roster = <<>> /\ credentialFile = NoEmail /\ oauthFile = 0
       \/ \E d \in Emails \ {e} :
            /\ roster = <<AdminRow(e), AdminRow(d)>> /\ credentialFile = NoEmail /\ oauthFile = 1
       \/ \E d \in Emails \ {e} :
            /\ roster = <<AdminRow(e), Row(d)>> /\ credentialFile = e /\ oauthFile = 1
  /\ tokensIssued = IF roster = <<>> THEN 1 ELSE 0
  /\ setupTokenFile = [id |-> tokensIssued, used |-> FALSE]
  /\ adminCredential = credentialFile /\ oauthProvider = oauthFile
  /\ claimLock = FALSE /\ expiredTokens = {} /\ issuer = "idle"
  /\ ownerCall = [c \in Owners |-> IdleOwner]
  /\ ownerCalls = 0 /\ ownerFaults = 0 /\ reboots = 0
  /\ holdings = {} /\ owner = NoEmail /\ tokenGrants = <<>> /\ halfway = FALSE
  /\ countsCrossed = FALSE /\ configsCrossed = FALSE /\ raced = {}

AsksOwner(c, op, e, phase, arg, flag) ==
  /\ ownerCall[c] = IdleOwner /\ ownerCalls < MaxOwnerCalls
  /\ ownerCall' = [ownerCall EXCEPT ![c] = [op |-> op, email |-> e, phase |-> phase, arg |-> arg, flag |-> flag]]
  /\ ownerCalls' = ownerCalls + 1
  /\ UNCHANGED <<ownerFiles, ownerMemory, expiredTokens, issuer, reboots, ownerGhosts, claimLock, ownerFaults>>

At(c, phase) == ownerCall[c].phase = phase
Moves(c, phase) == ownerCall' = [ownerCall EXCEPT ![c].phase = phase]
Answers(c) == ownerCall' = [ownerCall EXCEPT ![c] = IdleOwner]

\* A store call that fails.
OwnerFault == ownerFaults < MaxOwnerFaults /\ ownerFaults' = ownerFaults + 1

----
\* The claim.  arg is the token presented, flag a session of the same email.

ClaimAdmin(c) ==
  \E e \in Emails, t \in 0..tokensIssued, s \in BOOLEAN : AsksOwner(c, "claim", e, "claim", t, s)

\* The claim ends: its answer, and claimMu.
EndsClaim(c) == Answers(c) /\ claimLock' = FALSE

ClaimStarts(c) ==
  /\ At(c, "claim") /\ ~claimLock
  /\ IF adminCredential # NoEmail
       THEN Answers(c) /\ UNCHANGED claimLock
       ELSE Moves(c, "first") /\ claimLock' = TRUE
  /\ UNCHANGED <<ownerFiles, ownerMemory, ownerBounds, ownerGhosts, ownerFaults>>

\* Without an administrator the token gates the claim; otherwise the first one vouches for it.
ClaimGated(c) ==
  /\ At(c, "first")
  /\ IF FirstAdmin = NoEmail
       THEN Moves(c, "verify") /\ UNCHANGED claimLock
       ELSE IF ownerCall[c].flag /\ ownerCall[c].email = FirstAdmin
              THEN ownerCall' = [ownerCall EXCEPT ![c].phase = "vouch", ![c].arg = 0] /\ UNCHANGED claimLock
              ELSE EndsClaim(c)
  /\ UNCHANGED <<ownerFiles, ownerMemory, ownerBounds, ownerGhosts, ownerFaults>>

\* setupTokenGuard.verify
TokenValid(t) == t # 0 /\ setupTokenFile = [id |-> t, used |-> FALSE] /\ t \notin expiredTokens

ClaimVerified(c) ==
  /\ \/ At(c, "verify") /\ TokenValid(ownerCall[c].arg) /\ Moves(c, "create") /\ UNCHANGED claimLock
     \/ At(c, "verify") /\ ~TokenValid(ownerCall[c].arg) /\ EndsClaim(c)
     \/ At(c, "vouch") /\ IsListedAdmin(ownerCall[c].email) /\ Moves(c, "create") /\ UNCHANGED claimLock
     \/ At(c, "vouch") /\ ~IsListedAdmin(ownerCall[c].email) /\ EndsClaim(c)
  /\ UNCHANGED <<ownerFiles, ownerMemory, ownerBounds, ownerGhosts, ownerFaults>>

\* CreateLocalAdmin refuses a file that exists.
CreateLocalAdmin(c) ==
  /\ At(c, "create")
  /\ IF credentialFile = NoEmail
       THEN /\ credentialFile' = ownerCall[c].email /\ Moves(c, "registered") /\ UNCHANGED claimLock
       ELSE /\ EndsClaim(c) /\ UNCHANGED credentialFile
  /\ UNCHANGED <<roster, setupTokenFile, tokensIssued, oauthFile, holdings, ownerMemory, ownerBounds,
                 ownerGhosts, ownerFaults>>

\* Any call before the credential exists fails: the claim is refused as it stands.
ClaimFails(c) ==
  /\ ownerCall[c].phase \in {"first", "verify", "vouch", "create"} /\ OwnerFault
  /\ EndsClaim(c)
  /\ UNCHANGED <<ownerFiles, ownerMemory, ownerBounds, ownerGhosts>>

ClaimRegistered(c) ==
  /\ At(c, "registered")
  /\ Moves(c, IF IsListed(ownerCall[c].email) THEN "grant" ELSE "bootstrap")
  /\ UNCHANGED <<ownerFiles, ownerMemory, ownerBounds, ownerGhosts, ownerFaults, claimLock>>

AddBootstrapAdmin(c) ==
  /\ At(c, "bootstrap")
  /\ IF IsListed(ownerCall[c].email)
       THEN Moves(c, "rollback") /\ UNCHANGED roster
       ELSE Moves(c, "grant") /\ roster' = Append(roster, AdminRow(ownerCall[c].email))
  /\ UNCHANGED <<credentialFile, setupTokenFile, tokensIssued, oauthFile, holdings, ownerMemory,
                 ownerBounds, ownerGhosts, ownerFaults, claimLock>>

\* A call after the credential exists fails: the claim must be rolled back.
ClaimAborts(c) ==
  /\ ownerCall[c].phase \in {"registered", "bootstrap"} /\ OwnerFault
  /\ Moves(c, "rollback")
  /\ UNCHANGED <<ownerFiles, ownerMemory, ownerBounds, ownerGhosts, claimLock>>

\* A roll-back whose deletion fails and that leaves the server unclaimed in memory.
RollBackClaim_Slip(c) ==
  /\ At(c, "rollback") /\ EndsClaim(c)
  /\ \/ credentialFile' = NoEmail /\ UNCHANGED <<ownerFaults, halfway>>
     \/ OwnerFault /\ halfway' = TRUE /\ UNCHANGED credentialFile
  /\ UNCHANGED <<roster, setupTokenFile, tokensIssued, oauthFile, holdings, ownerMemory, ownerBounds,
                 owner, tokenGrants, countsCrossed, configsCrossed, raced>>

\* abortClaim: delete what was created; when that fails, take what is stored.
RollBackClaim(c) ==
  /\ At(c, "rollback")
  /\ \/ credentialFile' = NoEmail /\ EndsClaim(c) /\ UNCHANGED <<ownerFaults, halfway>>
     \/ OwnerFault /\ halfway' = TRUE /\ Moves(c, "reconcile") /\ UNCHANGED <<credentialFile, claimLock>>
  /\ UNCHANGED <<roster, setupTokenFile, tokensIssued, oauthFile, holdings, ownerMemory, ownerBounds,
                 owner, tokenGrants, countsCrossed, configsCrossed, raced>>

Reconcile(c) ==
  /\ At(c, "reconcile") /\ EndsClaim(c)
  /\ \/ adminCredential' = credentialFile /\ UNCHANGED ownerFaults
     \/ OwnerFault /\ adminCredential' = ownerCall[c].email
  /\ UNCHANGED <<ownerFiles, oauthProvider, ownerBounds, ownerGhosts>>

\* setCredential: the claim is irreversible, and a token that gated it is spent.
GrantClaim(c) ==
  /\ At(c, "grant")
  /\ adminCredential' = ownerCall[c].email /\ owner' = ownerCall[c].email
  /\ IF ownerCall[c].arg # 0
       THEN Moves(c, "consume") /\ tokenGrants' = Append(tokenGrants, ownerCall[c].arg) /\ UNCHANGED claimLock
       ELSE EndsClaim(c) /\ UNCHANGED tokenGrants
  /\ UNCHANGED <<ownerFiles, oauthProvider, ownerBounds, ownerFaults, halfway, countsCrossed,
                 configsCrossed, raced>>

\* setupTokenGuard.consume reads the record and writes it back as used; a failure is not fatal.
ReadToken(c) ==
  /\ At(c, "consume")
  /\ \/ setupTokenFile.id # 0 /\ UNCHANGED <<claimLock, ownerFaults>>
        /\ ownerCall' = [ownerCall EXCEPT ![c].phase = "spend", ![c].arg = setupTokenFile.id]
     \/ setupTokenFile.id = 0 /\ EndsClaim(c) /\ UNCHANGED ownerFaults
     \/ OwnerFault /\ EndsClaim(c)
  /\ UNCHANGED <<ownerFiles, ownerMemory, ownerBounds, ownerGhosts>>

SpendToken(c) ==
  /\ At(c, "spend") /\ EndsClaim(c)
  /\ \/ setupTokenFile' = [id |-> ownerCall[c].arg, used |-> TRUE] /\ UNCHANGED ownerFaults
     \/ OwnerFault /\ UNCHANGED setupTokenFile
  /\ UNCHANGED <<roster, credentialFile, tokensIssued, oauthFile, holdings, ownerMemory, ownerBounds, ownerGhosts>>

----
\* The setup token outside of a claim.

Issue == tokensIssued' = tokensIssued + 1 /\ setupTokenFile' = [id |-> tokensIssued + 1, used |-> FALSE]

\* remote setup-token: another process, which looks at the credential, then at
\* the directory, and then rotates the token.
NewSetupTokenIssuer ==
  /\ issuer = "idle" /\ tokensIssued < MaxTokens
  /\ credentialFile = NoEmail /\ issuer' = "unclaimed"
  /\ UNCHANGED <<ownerFiles, ownerMemory, claimLock, expiredTokens, ownerCall, ownerCalls,
                 ownerFaults, reboots, ownerGhosts>>

EnsureSetupToken ==
  /\ issuer = "unclaimed"
  /\ issuer' = IF FirstAdmin = NoEmail THEN "issue" ELSE "idle"
  /\ UNCHANGED <<ownerFiles, ownerMemory, claimLock, expiredTokens, ownerCall, ownerCalls,
                 ownerFaults, reboots, ownerGhosts>>

PrintToken ==
  /\ issuer = "issue" /\ tokensIssued < MaxTokens
  /\ issuer' = "idle" /\ Issue
  /\ UNCHANGED <<roster, credentialFile, oauthFile, holdings, ownerMemory, claimLock, expiredTokens,
                 ownerCall, ownerCalls, ownerFaults, reboots, ownerGhosts>>

TokenExpires ==
  /\ \E t \in (1..tokensIssued) \ expiredTokens : expiredTokens' = expiredTokens \cup {t}
  /\ UNCHANGED <<ownerFiles, ownerMemory, claimLock, issuer, ownerCall, ownerCalls, ownerFaults, reboots, ownerGhosts>>

\* The server restarts; with startOver the operator has removed local-admin.json
\* while it was down.  EnsureSetupToken rotates the token when nobody else can
\* authorise a claim; that it fails is a warning.
OwnerReboot(startOver) ==
  /\ reboots < MaxReboots /\ reboots' = reboots + 1
  /\ credentialFile' = IF startOver THEN NoEmail ELSE credentialFile
  /\ adminCredential' = credentialFile' /\ oauthProvider' = oauthFile
  /\ IF credentialFile' = NoEmail /\ FirstAdmin = NoEmail
       THEN \/ tokensIssued < MaxTokens /\ Issue /\ UNCHANGED ownerFaults
            \/ OwnerFault /\ UNCHANGED <<tokensIssued, setupTokenFile>>
       ELSE UNCHANGED <<tokensIssued, setupTokenFile, ownerFaults>>
  /\ claimLock' = FALSE /\ ownerCall' = [c \in Owners |-> IdleOwner]
  /\ halfway' = (halfway \/ \E c \in Owners : ownerCall[c].phase \in {"registered", "bootstrap", "rollback"})
  /\ owner' = IF startOver THEN NoEmail ELSE owner
  /\ UNCHANGED <<roster, oauthFile, holdings, expiredTokens, issuer, ownerCalls, tokenGrants,
                 countsCrossed, configsCrossed, raced>>

----
\* The directory's requests, each by somebody whom requireAdmin lets pass.

SomeAdmin == \E a \in Emails : IsAdminNow(a)

InviteUser(c) ==
  /\ SomeAdmin /\ oauthProvider # 0
  /\ \E e \in Emails, admin \in BOOLEAN : AsksOwner(c, "invite", e, "invite", 0, admin)

RemoveUser(c) ==
  /\ SomeAdmin
  /\ \E e \in Emails : ~IsLocalAdmin(e) /\ AsksOwner(c, "remove", e, "lookup", 1, FALSE)

ChangeRole(c) ==
  /\ SomeAdmin
  /\ \E e \in Emails, admin \in BOOLEAN : (IsLocalAdmin(e) => admin) /\ AsksOwner(c, "role", e, "lookup", 0, admin)

\* The store refuses a user it has.
AddRow(row) == IF IsListed(row.email) THEN roster ELSE Append(roster, row)

\* Service.Add
StoreUser(c) ==
  /\ At(c, "invite") /\ Answers(c)
  /\ roster' = AddRow(IF ownerCall[c].flag THEN AdminRow(ownerCall[c].email) ELSE Row(ownerCall[c].email))
  /\ UNCHANGED <<credentialFile, setupTokenFile, tokensIssued, oauthFile, holdings, ownerMemory,
                 ownerBounds, ownerGhosts, ownerFaults, claimLock>>

Losing(c) == ownerCall[c].op = "remove" \/ ~ownerCall[c].flag
NextPhase(c) == IF ownerCall[c].op = "remove" THEN "clean" ELSE "write"

\* Remove and SetRole: the record decides whether the administrators are counted.
LookUpUser(c) ==
  /\ At(c, "lookup")
  /\ LET e == ownerCall[c].email
     IN IF ~IsListed(e) THEN Answers(c)
        ELSE Moves(c, IF IsListedAdmin(e) /\ Losing(c) THEN "count" ELSE NextPhase(c))
  /\ UNCHANGED <<ownerFiles, ownerMemory, ownerBounds, ownerGhosts, ownerFaults, claimLock>>

\* A count that lets the last administrator go.
CountAdmins_Slip(c) ==
  /\ At(c, "count") /\ Moves(c, NextPhase(c))
  /\ countsCrossed' = (countsCrossed \/ \E d \in Owners \ {c} : Losing(d) /\ ownerCall[d].phase \in {"clean", "write"})
  /\ UNCHANGED <<ownerFiles, ownerMemory, ownerBounds, ownerFaults, claimLock, owner, tokenGrants,
                 halfway, configsCrossed, raced>>

CountAdmins(c) ==
  /\ At(c, "count")
  /\ IF AdminCount <= 1 THEN Answers(c) ELSE Moves(c, NextPhase(c))
  /\ countsCrossed' = (countsCrossed \/ \E d \in Owners \ {c} : Losing(d) /\ ownerCall[d].phase \in {"clean", "write"})
  /\ UNCHANGED <<ownerFiles, ownerMemory, ownerBounds, ownerFaults, claimLock, owner, tokenGrants,
                 halfway, configsCrossed, raced>>

\* A cleanup that goes on to the removal although a part of it failed.
CleanUp_Slip(c) ==
  /\ At(c, "clean")
  /\ LET i == ownerCall[c].arg
     IN /\ \/ holdings' = holdings \ {<<CleanupOrder[i], ownerCall[c].email>>} /\ UNCHANGED ownerFaults
           \/ OwnerFault /\ UNCHANGED holdings
        /\ IF i < Len(CleanupOrder) THEN ownerCall' = [ownerCall EXCEPT ![c].arg = i + 1]
           ELSE Moves(c, "write")
  /\ UNCHANGED <<roster, credentialFile, setupTokenFile, tokensIssued, oauthFile, ownerMemory,
                 ownerBounds, ownerGhosts, claimLock>>

\* CleanupRemovedUser tries everything; an error anywhere keeps the user.
CleanUp(c) ==
  /\ At(c, "clean")
  /\ \E fails \in BOOLEAN :
       LET i == ownerCall[c].arg
           failed == ownerCall[c].flag \/ fails
       IN /\ IF fails THEN OwnerFault /\ UNCHANGED holdings
             ELSE holdings' = holdings \ {<<CleanupOrder[i], ownerCall[c].email>>} /\ UNCHANGED ownerFaults
          /\ IF i < Len(CleanupOrder)
               THEN ownerCall' = [ownerCall EXCEPT ![c].arg = i + 1, ![c].flag = failed]
             ELSE IF failed THEN Answers(c) ELSE Moves(c, "write")
  /\ UNCHANGED <<roster, credentialFile, setupTokenFile, tokensIssued, oauthFile, ownerMemory,
                 ownerBounds, ownerGhosts, claimLock>>

\* repo.Remove, repo.SetRole: by now the user may be gone.
WriteUser(c) ==
  /\ At(c, "write") /\ Answers(c)
  /\ LET e == ownerCall[c].email
     IN roster' = IF ~IsListed(e) THEN roster
                  ELSE LET at == CHOOSE i \in DOMAIN roster : roster[i].email = e
                       IN IF ownerCall[c].op = "remove" THEN RemoveAt(roster, at)
                          ELSE [roster EXCEPT ![at] = IF ownerCall[c].flag THEN AdminRow(e) ELSE Row(e)]
  /\ UNCHANGED <<credentialFile, setupTokenFile, tokensIssued, oauthFile, holdings, ownerMemory,
                 ownerBounds, ownerGhosts, ownerFaults, claimLock>>

DirectoryFails(c) ==
  /\ ownerCall[c].phase \in {"invite", "lookup", "count", "write"} /\ OwnerFault
  /\ Answers(c)
  /\ UNCHANGED <<ownerFiles, ownerMemory, ownerBounds, ownerGhosts, claimLock>>

----
\* What a registered user comes to hold: a grant of access to a project, a
\* push subscription.  The check comes first.
Holds(c) ==
  \E e \in Emails, kind \in HeldKinds : IsRegisteredNow(e) /\ AsksOwner(c, "hold", e, kind, 0, FALSE)

BeingRemoved(e) ==
  ~IsListed(e) \/ \E d \in Owners : ownerCall[d].op = "remove" /\ ownerCall[d].email = e /\ ownerCall[d].phase \in {"clean", "write"}

StoreHolding(c) ==
  /\ ownerCall[c].op = "hold" /\ Answers(c)
  /\ holdings' = holdings \cup {<<ownerCall[c].phase, ownerCall[c].email>>}
  /\ raced' = IF BeingRemoved(ownerCall[c].email) THEN raced \cup {ownerCall[c].email} ELSE raced
  /\ UNCHANGED <<roster, credentialFile, setupTokenFile, tokensIssued, oauthFile, ownerMemory,
                 ownerBounds, ownerFaults, claimLock, owner, tokenGrants, halfway, countsCrossed, configsCrossed>>

----
\* ConfigureGoogleOAuth: the file, and then the provider in memory.

ConfigureGoogle(c) == SomeAdmin /\ \E n \in 1..2 : AsksOwner(c, "configure", NoEmail, "save", n, FALSE)

SaveOAuthConfig(c) ==
  /\ At(c, "save")
  /\ \/ /\ oauthFile' = ownerCall[c].arg /\ Moves(c, "use") /\ UNCHANGED ownerFaults
        /\ configsCrossed' = (configsCrossed \/ \E d \in Owners : At(d, "use"))
     \/ OwnerFault /\ Answers(c) /\ UNCHANGED <<oauthFile, configsCrossed>>
  /\ UNCHANGED <<roster, credentialFile, setupTokenFile, tokensIssued, holdings, ownerMemory,
                 ownerBounds, claimLock, owner, tokenGrants, halfway, countsCrossed, raced>>

UseOAuthConfig(c) ==
  /\ At(c, "use") /\ Answers(c)
  /\ oauthProvider' = ownerCall[c].arg
  /\ UNCHANGED <<ownerFiles, adminCredential, ownerBounds, ownerGhosts, ownerFaults, claimLock>>

----
OwnerStep(c) ==
  \/ ClaimStarts(c) \/ ClaimGated(c) \/ ClaimVerified(c) \/ CreateLocalAdmin(c) \/ ClaimFails(c)
  \/ ClaimRegistered(c) \/ AddBootstrapAdmin(c) \/ ClaimAborts(c) \/ RollBackClaim(c) \/ Reconcile(c)
  \/ GrantClaim(c) \/ ReadToken(c) \/ SpendToken(c)
  \/ StoreUser(c) \/ LookUpUser(c) \/ CountAdmins(c) \/ CleanUp(c) \/ WriteUser(c) \/ DirectoryFails(c)
  \/ StoreHolding(c) \/ SaveOAuthConfig(c) \/ UseOAuthConfig(c)

OwnershipNext ==
  \/ \E c \in Owners :
       \/ ClaimAdmin(c) \/ InviteUser(c) \/ RemoveUser(c) \/ ChangeRole(c)
       \/ Holds(c) \/ ConfigureGoogle(c) \/ OwnerStep(c)
  \/ NewSetupTokenIssuer \/ EnsureSetupToken \/ PrintToken \/ TokenExpires
  \/ \E startOver \in BOOLEAN : OwnerReboot(startOver)

----
\* claimMu is held by exactly the claim that is past its start.
ClaimPhases == {"first", "verify", "vouch", "create", "registered", "bootstrap", "grant", "rollback",
                "reconcile", "consume", "spend"}
ClaimIsAlone ==
  Cardinality({c \in Owners : ownerCall[c].phase \in ClaimPhases}) = IF claimLock THEN 1 ELSE 0

\* Between claims the process believes of the credential what a restart would
\* read: no roll-back, failed or not, lets it advertise an unclaimed server that
\* is claimed on disk (local_admin_authenticator.go:141-143).
MemoryIsStored == claimLock \/ adminCredential = credentialFile

\* A claim that was answered with success stands, in memory and on disk, until
\* the operator starts over; every other claim is refused.
ClaimStands == owner # NoEmail => adminCredential = owner /\ credentialFile = owner

\* No token opens two claims, even when it could not be marked as used and the
\* operator starts over (setup_token.go:166-167): the administrators left behind
\* vouch for the next claim.  A roll-back that failed may leave a server with users
\* and no administrator; there a token that was neither marked nor rotated, as
\* both may fail, opens the claim again.
TokenSpentOnce == \/ countsCrossed \/ halfway
                  \/ \A i, j \in DOMAIN tokenGrants : tokenGrants[i] = tokenGrants[j] => i = j

\* The server that had an administrator keeps one, unless two requests that
\* take administrators away overlap.
AdminRemains == (owner # NoEmail \/ roster # <<>>) /\ ~countsCrossed => SomeAdmin \/ halfway

\* No access to a project and no push subscription is left under the email of a
\* user who was removed, however often the cleanup failed and was retried, unless
\* the user was given it meanwhile (user_removal_cleanup.go:46-58; RemovalStands
\* of AccountSecurity speaks of the account's own records).
RemovalCleans == \A h \in holdings : IsRegisteredNow(h[2]) \/ h[2] \in raced

\* The Google configuration in use is the stored one, unless two changes of it overlap.
ConfigStored == oauthProvider = oauthFile \/ configsCrossed \/ \E c \in Owners : At(c, "use")

OwnershipInvariant ==
  /\ ClaimIsAlone /\ MemoryIsStored /\ ClaimStands /\ TokenSpentOnce /\ AdminRemains /\ RemovalCleans /\ ConfigStored

\* Not properties of the code: each of the overlaps above happens.
CountsNeverCross == SomeAdmin \/ (roster = <<>> /\ owner = NoEmail) \/ halfway
NothingHeldByStrangers == \A h \in holdings : IsRegisteredNow(h[2])
LocalAdminListed == adminCredential = NoEmail \/ claimLock \/ IsListedAdmin(adminCredential)
ConfigsNeverCross == oauthProvider = oauthFile \/ \E c \in Owners : At(c, "use")

====
