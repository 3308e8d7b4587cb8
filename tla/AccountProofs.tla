---- MODULE AccountProofs ----
\* What the proof system checks of accounts: the second factor, sessions
\* and preferences of a user (AccountSecurity), and who owns the server
\* (Ownership), as MCRecords composes them.
\*
\* The stores of AccountSecurity are locked, read, changed and written in
\* separate steps, and a removal deletes their files beneath the caches.
\* SecuritySound says, of a request in each of its phases, what it holds,
\* what the file and the cache of its store are, and that its decision was
\* made from the record in use; hence what it writes is a change of that.
\* RemovalSound says what a removal under way has deleted, and what can
\* still be on its way of a user who was removed.  OwnershipSound says which
\* part of a claim the one request in the mutex has done, that an
\* administrator whom nobody is taking away remains while no counts crossed,
\* and what a removal has cleaned so far.
EXTENDS MCRecords, TLAPS, FiniteSetTheorems, SequenceTheorems, WellFoundedInduction

----
\* The account's second factor and its sessions.

TotpCodes == {"totp"} \X Nat \X Nat
Codes == TotpCodes \cup RecoveryCodes
Flags == {"single", "history", "alertOn"}
Switches == [single : BOOLEAN, history : BOOLEAN, alertOn : BOOLEAN]

\* The steps of requests.
SetOps == [op : {"set"}, prefs : Switches]
PreferenceReasons ==
  [why : {"issue"}, recovery : BOOLEAN] \cup [why : {"update"}, flag : Flags, on : BOOLEAN]
    \cup [why : {"tracked", "alert"}]
EnabledReasons == [why : {"login", "enroll"}] \cup [why : {"alert"}, then : SetOps]
ApiOps ==
  SetOps \cup [op : {"preferences"}, for : PreferenceReasons] \cup [op : {"enabled"}, for : EnabledReasons]
    \cup [op : {"verify", "disable", "regenerate"}, code : Codes] \cup [op : {"confirm"}, secret : Nat]
    \cup [op : {"issue"}, recovery : BOOLEAN] \cup [op : {"revoke", "ack"}]
SecurityOps == ApiOps \cup [op : {"active"}, sid : Nat, then : ApiOps]

FactorFiles == FactorRecords \cup {NoRecord}
SessionFiles == SessionRecords \cup {NoRecord}

\* A record r of the store s.
InStore(s, r) == IF s = "twofactor" THEN r \in FactorFiles ELSE r \in SessionFiles

SecurityCalls ==
  [todo : Seq(SecurityOps), phase : {"idle", "read", "decided", "saved"}, work : FactorFiles \cup SessionFiles]

SecurityTyped ==
  /\ \A s \in SecurityStores : InStore(s, secFile[s]) /\ (secCache[s] = Unread \/ InStore(s, secCache[s]))
  /\ DOMAIN secFile = SecurityStores /\ secFile = [s \in SecurityStores |-> secFile[s]]
  /\ DOMAIN secCache = SecurityStores /\ secCache = [s \in SecurityStores |-> secCache[s]]
  /\ secLock \in [SecurityStores -> SecurityClients \cup {NoClient}]
  /\ secCall \in [SecurityClients -> SecurityCalls]
  /\ counter \in Nat \ {0} /\ generation \in Nat /\ sids \in Nat
  /\ (\A t \in enrollments : t.secret \in Nat) /\ cookies \subseteq Nat
  /\ orphaned \subseteq SecurityStores /\ (\A s \in orphaned : secFile[s] = NoRecord)
  /\ overtaken \in BOOLEAN /\ owed \in BOOLEAN
  /\ accepted \in [DOMAIN accepted -> Nat] /\ DOMAIN accepted \subseteq Codes

Ops(c) == Head(secCall[c].todo)

\* A request between two steps has one that it is at, and reads or writes accordingly.
PhaseSound(c) ==
  secCall[c].phase # "idle" =>
    /\ secCall[c].todo # <<>> /\ InStore(StoreOf(Ops(c)), secCall[c].work)
    /\ Ops(c).op \in ReadOps <=> secCall[c].phase = "read"
    /\ secCall[c].phase = "saved" => StoreOf(Ops(c)) \in orphaned \/ secCall[c].work = secFile[StoreOf(Ops(c))]
    /\ secCall[c].phase = "decided" /\ Ops(c).op # "confirm" => secCache[StoreOf(Ops(c))] # Unread

\* What a code set of the present or a spent enrollment is numbered by.
Generated(codes, g) == \A code \in codes : code \in RecoveryCodes => code[2] <= g

\* What a spent code is to the record in use.
Spent(r, codes) ==
  r # NoRecord => \A code \in codes : /\ code \notin r.codes
                                      /\ code \in TotpCodes /\ code[2] = r.secret => code[3] <= r.last

FactorSound ==
  /\ Generated(DOMAIN accepted, generation) /\ Spent(InUse("twofactor"), DOMAIN accepted) /\ CodesSpentOnce
  /\ InUse("twofactor") # NoRecord => Generated(InUse("twofactor").codes, generation)

\* A decision for the second factor, from the record f in use to w.
FactorDecided(o, f, w, spent, g) ==
  /\ w # NoRecord => Generated(w.codes, g)
  /\ o.op = "verify" =>
       /\ f # NoRecord /\ w # NoRecord /\ w.secret = f.secret
       /\ \/ /\ o.code \in TotpCodes /\ o.code[2] = f.secret /\ f.last < o.code[3]
             /\ w.last = o.code[3] /\ w.codes = f.codes
          \/ o.code \in f.codes /\ w.last = f.last /\ w.codes = f.codes \ {o.code}
  /\ o.op = "regenerate" =>
       /\ f # NoRecord /\ w # NoRecord /\ w.secret = f.secret /\ w.last = f.last
       /\ w.codes \cap spent = {}
  /\ o.op = "disable" => w = NoRecord

AtMost(n) == IF n > HistoryLimit THEN HistoryLimit ELSE n
NewestOf(seq) == SubSeq(seq, 1, AtMost(Len(seq)))

\* A decision for the sessions, from the record in use to w.
SessionDecided(o, f, w) ==
  LET p == OrUntracked(f) q == OrUntracked(w)
  IN IF o.op = "issue"
     THEN /\ w # NoRecord /\ q.history = p.history /\ q.alertOn = p.alertOn
          /\ q.alert = (p.alert \/ (p.alertOn /\ o.recovery))
          /\ IF q.history THEN q.entries # <<>> /\ q.entries = NewestOf(<<q.entries[1]>> \o p.entries)
             ELSE q.entries = p.entries
     ELSE q.entries = p.entries /\ q.alert = IF o.op = "ack" THEN FALSE ELSE p.alert

Decided(c) ==
  secCall[c].phase = "decided" =>
    LET o == Ops(c) f == InUse(StoreOf(o))
    IN IF StoreOf(o) = "twofactor" THEN FactorDecided(o, f, secCall[c].work, DOMAIN accepted, generation)
       ELSE SessionDecided(o, f, secCall[c].work)

SecretsSound ==
  /\ FactorSound /\ journal \in Seq(Nat) /\ HistoryExact /\ AlertKept
  /\ \A c \in SecurityClients : Decided(c)

SecuritySound ==
  /\ SecurityTyped /\ SecurityTypeOK /\ \A c \in SecurityClients : PhaseSound(c)
  /\ ~overtaken => SecretsSound

\* The removal under way has deleted the file of s.
Passed(s) == ~removal.failed /\ (removal.at = "row" \/ (removal.at = "sessions" /\ s = "twofactor"))

\* What it deleted stays deleted, or is in the cache again.
PassedSound(s) == Passed(s) => secFile[s] = NoRecord \/ secCache[s] \notin {Unread, NoRecord} \/ BeingPublished(s)

\* A store that the removed user left nothing of.
Clean(s) ==
  /\ secFile[s] = NoRecord /\ secCache[s] \in {Unread, NoRecord}
  /\ \A c \in SecurityClients : secCall[c].phase \in {"decided", "saved"} => StoreOf(Ops(c)) # s

\* What can be under way of the removed user where some store is clean.
Lingers(todo) ==
  \/ todo = <<>>
  \/ /\ Len(todo) = 1 /\ Head(todo).op \in {"verify", "active", "revoke", "preferences"}
     /\ Head(todo).op = "preferences" => Head(todo).for.why = "issue" /\ "sessions" \notin leftover

RemovalSound ==
  ~overtaken =>
    /\ \A s \in SecurityStores : PassedSound(s)
    /\ ~registered =>
         /\ \A s \in SecurityStores : s \in leftover \/ Clean(s)
         /\ SecurityStores \subseteq leftover \/ \A c \in SecurityClients : Lingers(secCall[c].todo)

LEMMA SecurityFacts ==
  /\ HistoryLimit \in Nat /\ HistoryLimit > 0 /\ RecoveryCodeCount \in Nat /\ NoClient \notin SecurityClients
  /\ Unread # NoRecord /\ NoRecord \notin FactorRecords /\ NoRecord \notin SessionRecords
  /\ Unread \notin FactorFiles /\ Unread \notin SessionFiles
  /\ Untracked \in SessionRecords /\ \A r \in SessionFiles : OrUntracked(r) \in SessionRecords
<1>1. /\ HistoryLimit \in Nat /\ HistoryLimit > 0 /\ RecoveryCodeCount \in Nat /\ NoClient \notin SecurityClients
      /\ Unread # NoRecord /\ NoRecord \notin FactorRecords /\ NoRecord \notin SessionRecords
      /\ Unread \notin FactorFiles /\ Unread \notin SessionFiles
 BY SecurityAssumption DEF FactorFiles, SessionFiles
<1>2. Untracked \in SessionRecords BY DEF Untracked, SessionRecords
<1> QED BY <1>1, <1>2 DEF OrUntracked, SessionFiles

LEMMA OpFacts ==
  ASSUME NEW o \in SecurityOps
  PROVE  /\ o.op \in {"set", "preferences", "enabled", "verify", "disable", "regenerate", "confirm", "issue", "revoke", "ack",
                      "active"}
         /\ o.op = "active" => o.then \in ApiOps /\ o.then \in SecurityOps
         /\ o.op = "set" => o \in SetOps /\ o.prefs \in Switches
         /\ o.op = "preferences" => o.for \in PreferenceReasons
         /\ o.op = "enabled" => o.for \in EnabledReasons
         /\ o.op \in {"verify", "disable", "regenerate"} => o.code \in Codes
         /\ o.op = "confirm" => o.secret \in Nat
         /\ o.op = "issue" => o.recovery \in BOOLEAN
BY DEF SecurityOps, ApiOps, SetOps

LEMMA CodeFacts ==
  ASSUME NEW code \in Codes
  PROVE  /\ code[2] \in Nat /\ code[3] \in Nat /\ code[1] \in {"totp", "recovery"}
         /\ code \in TotpCodes <=> code[1] = "totp"
         /\ code \in RecoveryCodes <=> code[1] = "recovery"
BY DEF Codes, TotpCodes, RecoveryCodes

\* Each step of a request is one the code knows.
LEMMA MadeOps ==
  /\ \A p \in Switches : [op |-> "set", prefs |-> p] \in SetOps
  /\ SetOps \subseteq SecurityOps
  /\ \A b \in BOOLEAN : [op |-> "issue", recovery |-> b] \in SecurityOps /\ IssueSession(b) \in SecurityOps
  /\ \A w \in {"tracked", "alert"} : Preferences([why |-> w]) \in SecurityOps
  /\ \A f \in Flags, b \in BOOLEAN : Preferences([why |-> "update", flag |-> f, on |-> b]) \in SecurityOps
  /\ \A w \in {"login", "enroll"} : Enabled([why |-> w]) \in SecurityOps
  /\ \A o \in SetOps : Enabled([why |-> "alert", then |-> o]) \in SecurityOps
  /\ \A w \in {"revoke", "ack"} : [op |-> w] \in SecurityOps
  /\ \A w \in {"verify", "disable", "regenerate"}, code \in Codes : [op |-> w, code |-> code] \in SecurityOps
  /\ \A n \in Nat : [op |-> "confirm", secret |-> n] \in SecurityOps
BY DEF SecurityOps, ApiOps, SetOps, IssueSession, Preferences, Enabled, PreferenceReasons, EnabledReasons

LEMMA AskedOps ==
  ASSUME NEW sid \in Nat
  PROVE  /\ \A o \in ApiOps : [op |-> "active", sid |-> sid, then |-> o] \in SecurityOps
         /\ Enabled([why |-> "enroll"]) \in ApiOps /\ \A w \in {"revoke", "ack"} : [op |-> w] \in ApiOps
         /\ \A f \in Flags, b \in BOOLEAN : Preferences([why |-> "update", flag |-> f, on |-> b]) \in ApiOps
         /\ \A w \in {"disable", "regenerate"}, code \in Codes : [op |-> w, code |-> code] \in ApiOps
         /\ \A n \in Nat : [op |-> "confirm", secret |-> n] \in ApiOps
BY DEF SecurityOps, ApiOps, Preferences, Enabled, PreferenceReasons, EnabledReasons

LEMMA IssueAlone == <<IssueSession(FALSE)>> \in Seq(SecurityOps) /\ <<>> \in Seq(SecurityOps)
<1> DEFINE i == IssueSession(FALSE)
<1>1. i \in SecurityOps BY MadeOps
<1> HIDE DEF i
<1>2. <<i>> \in Seq(SecurityOps) BY <1>1
<1>3. <<>> \in Seq(SecurityOps) OBVIOUS
<1> QED BY <1>2, <1>3, Zenon DEF i

LEMMA AfterPreferencesSound ==
  ASSUME NEW why \in PreferenceReasons, NEW r \in SessionFiles
  PROVE  AfterPreferences(why, r) \in Seq(SecurityOps)
<1> DEFINE p == OrUntracked(r)
            was == [single |-> p.single, history |-> p.history, alertOn |-> p.alertOn]
<1>1. p \in SessionRecords BY SecurityFacts
<1>2. was \in Switches BY <1>1 DEF SessionRecords, Switches
<1>3. CASE why.why = "issue"
 <2>1. why.recovery \in BOOLEAN BY <1>3 DEF PreferenceReasons
 <2>2. [op |-> "issue", recovery |-> why.recovery] \in SecurityOps BY <2>1, MadeOps
 <2> QED BY <1>3, <2>2 DEF AfterPreferences
<1>4. CASE why.why = "tracked"
 <2>2. <<IssueSession(FALSE)>> \in Seq(SecurityOps) /\ <<>> \in Seq(SecurityOps) BY IssueAlone
 <2>3. AfterPreferences(why, r) = IF Tracks(r) THEN <<IssueSession(FALSE)>> ELSE <<>> BY <1>4 DEF AfterPreferences
 <2> QED BY <2>2, <2>3
<1>5. CASE why.why = "alert"
 <2>1. [was EXCEPT !.alertOn = FALSE] \in Switches BY <1>2 DEF Switches
 <2>2. [op |-> "set", prefs |-> [was EXCEPT !.alertOn = FALSE]] \in SecurityOps BY <2>1, MadeOps
 <2> QED BY <1>5, <2>2 DEF AfterPreferences
<1>6. CASE why.why = "update"
 <2>1. why.flag \in Flags /\ why.on \in BOOLEAN BY <1>6 DEF PreferenceReasons
 <2> DEFINE set == [op |-> "set", prefs |-> [was EXCEPT ![why.flag] = why.on]]
             reissue == IF why.flag = "single" /\ why.on /\ ~p.single THEN <<IssueSession(FALSE)>> ELSE <<>>
 <2>2. [was EXCEPT ![why.flag] = why.on] \in Switches
  <3>1. CASE why.flag = "single" BY <1>2, <2>1, <3>1 DEF Switches
  <3>2. CASE why.flag = "history" BY <1>2, <2>1, <3>2 DEF Switches
  <3>3. CASE why.flag = "alertOn" BY <1>2, <2>1, <3>3 DEF Switches
  <3> QED BY <2>1, <3>1, <3>2, <3>3 DEF Flags
 <2>3. set \in SetOps /\ set \in SecurityOps /\ Enabled([why |-> "alert", then |-> set]) \in SecurityOps
       /\ IssueSession(FALSE) \in SecurityOps
  BY <2>2, MadeOps
 <2> HIDE DEF set
 <2>3a. <<IssueSession(FALSE)>> \in Seq(SecurityOps) /\ <<>> \in Seq(SecurityOps) BY IssueAlone
 <2>4. reissue \in Seq(SecurityOps) /\ <<set>> \in Seq(SecurityOps)
       /\ <<Enabled([why |-> "alert", then |-> set])>> \in Seq(SecurityOps)
  <3>1. reissue \in Seq(SecurityOps) BY <2>3a
  <3>2. <<set>> \in Seq(SecurityOps) /\ <<Enabled([why |-> "alert", then |-> set])>> \in Seq(SecurityOps) BY <2>3
  <3> QED BY <3>1, <3>2
 <2> HIDE DEF reissue
 <2>5. <<set>> \o reissue \in Seq(SecurityOps) BY <2>4, ConcatProperties
 <2>6. AfterPreferences(why, r) = IF why.flag = "alertOn" /\ why.on
                                  THEN <<Enabled([why |-> "alert", then |-> set])>> ELSE <<set>> \o reissue
  BY <1>6 DEF AfterPreferences, set, reissue
 <2> QED BY <2>4, <2>5, <2>6
<1> QED BY <1>3, <1>4, <1>5, <1>6 DEF PreferenceReasons

LEMMA AfterSound ==
  ASSUME NEW o \in SecurityOps, NEW r, NEW ok \in BOOLEAN, NEW rest \in Seq(SecurityOps), InStore(StoreOf(o), r)
  PROVE  After(o, r, ok, rest) \in Seq(SecurityOps)
<1>1. /\ o.op \in {"set", "preferences", "enabled", "verify", "disable", "regenerate", "confirm", "issue", "revoke", "ack", "active"}
      /\ <<>> \in Seq(SecurityOps)
 BY OpFacts
<1>2. CASE o.op = "preferences"
 <2>1. r \in SessionFiles /\ o.for \in PreferenceReasons BY <1>2, OpFacts DEF InStore, StoreOf, TwoFactorOps
 <2>2. AfterPreferences(o.for, r) \in Seq(SecurityOps) BY <2>1, AfterPreferencesSound
 <2> QED BY <1>2, <2>2, ConcatProperties DEF After
<1>3. CASE o.op = "enabled"
 <2>1. o.for \in EnabledReasons BY <1>3, OpFacts
 <2>2. o.for.why \in {"login", "alert", "enroll"} /\ (o.for.why = "alert" => o.for.then \in SecurityOps)
       /\ IssueSession(FALSE) \in SecurityOps
  BY <2>1, MadeOps DEF EnabledReasons
 <2>2a. /\ <<IssueSession(FALSE)>> \in Seq(SecurityOps) /\ <<>> \in Seq(SecurityOps)
        /\ o.for.why = "alert" => <<o.for.then>> \in Seq(SecurityOps)
  <3>1. o.for.why = "alert" => <<o.for.then>> \in Seq(SecurityOps) BY <2>2
  <3> QED BY <3>1, IssueAlone
 <2>3. AfterEnabled(o.for, r) \in Seq(SecurityOps)
  <3>1. CASE o.for.why = "login" BY <2>2a, <3>1 DEF AfterEnabled
  <3>2. CASE o.for.why = "alert" BY <2>2a, <3>2 DEF AfterEnabled
  <3>3. CASE o.for.why = "enroll" BY <2>2a, <3>3 DEF AfterEnabled
  <3> QED BY <2>2, <3>1, <3>2, <3>3
 <2> QED BY <1>3, <2>3, ConcatProperties DEF After
<1>4. CASE o.op \in {"confirm", "disable", "verify"}
 <2>1. /\ Preferences([why |-> "tracked"]) \in SecurityOps /\ Preferences([why |-> "alert"]) \in SecurityOps
       /\ [op |-> "ack"] \in SecurityOps /\ IssueSession(o.code[1] = "recovery") \in SecurityOps
  BY MadeOps
 <2> QED BY <1>1, <1>4, <2>1 DEF After, CompleteTwoFactorEnrollment, CompleteTwoFactorDisable
<1>5. CASE o.op \in {"set", "issue", "revoke", "ack", "regenerate"} BY <1>1, <1>5 DEF After
<1>6. CASE o.op = "active"
 <2>1. <<o.then>> \in Seq(SecurityOps) BY <1>6, OpFacts
 <2> QED BY <1>1, <1>6, <2>1 DEF After
<1> QED BY <1>1, <1>2, <1>3, <1>4, <1>5, <1>6

\* The newest of a journal, cut before or after an entry is put in front.
LEMMA NewestFacts ==
  ASSUME NEW J \in Seq(Nat)
  PROVE  /\ NewestOf(J) \in Seq(Nat) /\ Len(NewestOf(J)) = AtMost(Len(J)) /\ AtMost(Len(J)) \in 0..HistoryLimit
         /\ AtMost(Len(J)) <= Len(J)
         /\ \A i \in 1..AtMost(Len(J)) : NewestOf(J)[i] = J[i]
         /\ Len(J) <= HistoryLimit => NewestOf(J) = J
<1>1. HistoryLimit \in Nat /\ Len(J) \in Nat BY SecurityFacts, LenProperties
<1>2. AtMost(Len(J)) \in 0..HistoryLimit /\ AtMost(Len(J)) <= Len(J) /\ AtMost(Len(J)) \in Nat
      /\ (Len(J) <= HistoryLimit => AtMost(Len(J)) = Len(J))
 BY <1>1 DEF AtMost
<1>3. /\ NewestOf(J) \in Seq(Nat) /\ Len(NewestOf(J)) = AtMost(Len(J))
      /\ \A i \in 1..AtMost(Len(J)) : NewestOf(J)[i] = J[i]
 BY <1>1, <1>2, SubSeqProperties DEF NewestOf
<1>4. Len(J) <= HistoryLimit => NewestOf(J) = J BY <1>1, <1>2, <1>3, SeqEqual
<1> QED BY <1>2, <1>3, <1>4

LEMMA InFront ==
  ASSUME NEW J \in Seq(Nat), NEW n \in Nat
  PROVE  /\ <<n>> \o J \in Seq(Nat) /\ Len(<<n>> \o J) = Len(J) + 1 /\ (<<n>> \o J)[1] = n
         /\ \A i \in 2..Len(J) + 1 : (<<n>> \o J)[i] = J[i - 1]
<1>1. <<n>> \in Seq(Nat) /\ Len(<<n>>) = 1 /\ <<n>>[1] = n /\ Len(J) \in Nat BY LenProperties
<1> QED BY <1>1, ConcatProperties

LEMMA NewestInFront ==
  ASSUME NEW J \in Seq(Nat), NEW n \in Nat
  PROVE  NewestOf(<<n>> \o NewestOf(J)) = NewestOf(<<n>> \o J)
<1> DEFINE A == <<n>> \o NewestOf(J)
            B == <<n>> \o J
            a == AtMost(Len(J))
<1>0. HistoryLimit \in Nat /\ HistoryLimit > 0 /\ Len(J) \in Nat BY SecurityFacts, LenProperties
<1>1. /\ NewestOf(J) \in Seq(Nat) /\ Len(NewestOf(J)) = a /\ a \in 0..HistoryLimit /\ a <= Len(J)
      /\ \A i \in 1..a : NewestOf(J)[i] = J[i]
      /\ a = IF Len(J) > HistoryLimit THEN HistoryLimit ELSE Len(J)
 BY NewestFacts DEF AtMost
<1>2. /\ A \in Seq(Nat) /\ Len(A) = a + 1 /\ A[1] = n /\ \A i \in 2..a + 1 : A[i] = NewestOf(J)[i - 1] BY <1>1, InFront
<1>3. /\ B \in Seq(Nat) /\ Len(B) = Len(J) + 1 /\ B[1] = n /\ \A i \in 2..Len(J) + 1 : B[i] = J[i - 1] BY InFront
<1> HIDE DEF A, B, a
<1>4. AtMost(Len(A)) = AtMost(Len(B)) /\ AtMost(Len(A)) <= a + 1 /\ AtMost(Len(A)) \in Nat BY <1>0, <1>1, <1>2, <1>3 DEF AtMost
<1>5. /\ NewestOf(A) \in Seq(Nat) /\ Len(NewestOf(A)) = AtMost(Len(A))
      /\ \A i \in 1..AtMost(Len(A)) : NewestOf(A)[i] = A[i]
 BY <1>2, NewestFacts
<1>6. /\ NewestOf(B) \in Seq(Nat) /\ Len(NewestOf(B)) = AtMost(Len(B))
      /\ \A i \in 1..AtMost(Len(B)) : NewestOf(B)[i] = B[i]
 BY <1>3, NewestFacts
<1>7. ASSUME NEW i \in 1..AtMost(Len(A)) PROVE NewestOf(A)[i] = NewestOf(B)[i]
 <2>1. NewestOf(A)[i] = A[i] /\ NewestOf(B)[i] = B[i] BY <1>4, <1>5, <1>6
 <2>2. CASE i = 1 BY <1>2, <1>3, <2>1, <2>2
 <2>3. CASE i # 1
  <3>1. i \in 2..a + 1 /\ i - 1 \in 1..a /\ i \in 2..Len(J) + 1 BY <1>0, <1>1, <1>4, <2>3
  <3> QED BY <1>1, <1>2, <1>3, <2>1, <3>1
 <2> QED BY <2>2, <2>3
<1>8. NewestOf(A) = NewestOf(B) BY <1>4, <1>5, <1>6, <1>7, SeqEqual
<1> QED BY <1>8 DEF A, B

----
\* The decisions.

LEMMA NewCodeSetFacts ==
  ASSUME NEW n \in Nat
  PROVE  NewCodeSet(n) \subseteq RecoveryCodes /\ \A code \in NewCodeSet(n) : code[2] = n
BY SecurityFacts DEF NewCodeSet, RecoveryCodes

LEMMA TotpFacts ==
  ASSUME NEW code \in Codes, NEW secret, TotpMatches(secret, code)
  PROVE  code \in TotpCodes /\ code[2] = secret
BY CodeFacts DEF TotpMatches

LEMMA FactorOutcome ==
  ASSUME NEW o \in SecurityOps, NEW r \in FactorFiles, StoreOf(o) = "twofactor", o.op \notin ReadOps,
         generation \in Nat, NEW spent
  PROVE  /\ Outcome(o, r).ok \in BOOLEAN /\ Outcome(o, r).saves \in BOOLEAN /\ Outcome(o, r).record \in FactorFiles
         /\ ( /\ Outcome(o, r).saves /\ Generated(spent, generation)
              /\ (r # NoRecord => Generated(r.codes, generation)) ) =>
              FactorDecided(o, r, Outcome(o, r).record, spent,
                            IF o.op \in {"confirm", "regenerate"} THEN generation + 1 ELSE generation)
<1>1. o.op \in {"confirm", "verify", "disable", "regenerate"} BY OpFacts DEF StoreOf, TwoFactorOps, ReadOps
<1>2. r # NoRecord => r \in FactorRecords /\ r.secret \in Nat /\ r.last \in Nat /\ r.codes \subseteq RecoveryCodes
 BY DEF FactorFiles, FactorRecords
<1>3. CASE o.op = "confirm"
 <2> DEFINE w == [secret |-> o.secret, codes |-> NewCodeSet(generation + 1), last |-> 0]
 <2>1. Outcome(o, r) = Saves(w) BY <1>3 DEF Outcome, ConfirmEnrollment
 <2>2. w \in FactorRecords /\ \A code \in w.codes : code[2] = generation + 1 BY <1>3, OpFacts, NewCodeSetFacts DEF FactorRecords
 <2>3. Generated(w.codes, generation + 1) BY <2>2 DEF Generated
 <2> HIDE DEF w
 <2> QED BY <1>3, <2>1, <2>2, <2>3 DEF Saves, FactorFiles, FactorDecided
<1>4. CASE o.op = "verify"
 <2>0. Outcome(o, r) = VerifyChallenge(o, r) /\ o.code \in Codes BY <1>4, OpFacts DEF Outcome
 <2>1. CASE Outcome(o, r) = Refused(r) BY <2>1 DEF Refused
 <2>2. CASE /\ r # NoRecord /\ TotpMatches(r.secret, o.code) /\ ~(o.code[3] <= r.last)
            /\ Outcome(o, r) = Saves([r EXCEPT !.last = o.code[3]])
  <3> DEFINE w == [r EXCEPT !.last = o.code[3]]
  <3>1. o.code \in TotpCodes /\ o.code[2] = r.secret /\ o.code[3] \in Nat BY <2>0, <2>2, TotpFacts, CodeFacts
  <3>2. w \in FactorRecords /\ w.secret = r.secret /\ w.codes = r.codes /\ w.last = o.code[3]
   BY <1>2, <2>2, <3>1 DEF FactorRecords
  <3> HIDE DEF w
  <3>3. Outcome(o, r).record = w /\ w # NoRecord /\ Outcome(o, r).ok /\ Outcome(o, r).saves = TRUE
        /\ Outcome(o, r).ok = TRUE /\ w \in FactorFiles
   BY <2>2, <3>2, SecurityFacts DEF Saves, w, FactorFiles
  <3>4. r.last < o.code[3] BY <1>2, <2>2, <3>1
  <3> QED BY <1>4, <2>2, <3>1, <3>2, <3>3, <3>4 DEF FactorDecided
 <2>3. CASE /\ r # NoRecord /\ o.code \in r.codes
            /\ Outcome(o, r) = Saves([r EXCEPT !.codes = @ \ {o.code}])
  <3> DEFINE w == [r EXCEPT !.codes = @ \ {o.code}]
  <3>1. w \in FactorRecords /\ w.secret = r.secret /\ w.last = r.last /\ w.codes = r.codes \ {o.code}
   BY <1>2, <2>3 DEF FactorRecords
  <3> HIDE DEF w
  <3>2. Outcome(o, r).record = w /\ w # NoRecord /\ Outcome(o, r).saves = TRUE /\ Outcome(o, r).ok = TRUE
        /\ w \in FactorFiles
   BY <2>3, <3>1, SecurityFacts DEF Saves, w, FactorFiles
  <3>3. \A g : Generated(r.codes, g) => Generated(w.codes, g) BY <3>1 DEF Generated
  <3> QED BY <1>4, <2>3, <3>1, <3>2, <3>3 DEF FactorDecided
 <2> QED BY <2>0, <2>1, <2>2, <2>3 DEF VerifyChallenge
<1>5. CASE o.op = "disable"
 <2>1. Outcome(o, r) = Refused(r) \/ Outcome(o, r) = Saves(NoRecord) BY <1>5 DEF Outcome, Disable
 <2>2. CASE Outcome(o, r) = Refused(r) BY <2>2 DEF Refused
 <2>3. CASE Outcome(o, r) = Saves(NoRecord)
  <3>1. Outcome(o, r).record = NoRecord /\ Outcome(o, r).ok = TRUE /\ Outcome(o, r).saves = TRUE BY <2>3 DEF Saves
  <3> QED BY <1>5, <3>1 DEF FactorFiles, FactorDecided
 <2> QED BY <2>1, <2>2, <2>3
<1>6. CASE o.op = "regenerate"
 <2> DEFINE w == [r EXCEPT !.codes = NewCodeSet(generation + 1)]
 <2>1. Outcome(o, r) = Refused(r) \/ (r # NoRecord /\ Outcome(o, r) = Saves(w)) BY <1>6 DEF Outcome, RegenerateRecoveryCodes
 <2>2. CASE Outcome(o, r) = Refused(r) BY <2>2 DEF Refused
 <2>3. CASE r # NoRecord /\ Outcome(o, r) = Saves(w)
  <3>1. /\ w \in FactorRecords /\ w.secret = r.secret /\ w.last = r.last
        /\ w.codes \subseteq RecoveryCodes /\ \A code \in w.codes : code[2] = generation + 1
   BY <1>2, <2>3, NewCodeSetFacts DEF FactorRecords
  <3>2. Generated(w.codes, generation + 1) BY <3>1 DEF Generated
  <3> HIDE DEF w
  <3>3. ASSUME Generated(spent, generation) PROVE w.codes \cap spent = {}
   <4> SUFFICES ASSUME NEW code \in w.codes, code \in spent PROVE FALSE OBVIOUS
   <4>1. code[2] <= generation /\ code[2] = generation + 1 BY <3>1, <3>3 DEF Generated
   <4> QED BY <4>1
  <3>4. Outcome(o, r).record = w /\ w # NoRecord /\ Outcome(o, r).saves = TRUE /\ Outcome(o, r).ok = TRUE
        /\ w \in FactorFiles
   BY <2>3, <3>1, SecurityFacts DEF Saves, FactorFiles
  <3> QED BY <1>6, <2>3, <3>1, <3>2, <3>3, <3>4 DEF FactorDecided
 <2> QED BY <2>1, <2>2, <2>3
<1> QED BY <1>1, <1>3, <1>4, <1>5, <1>6

LEMMA SessionOutcome ==
  ASSUME NEW o \in SecurityOps, NEW r \in SessionFiles, StoreOf(o) = "sessions", o.op \notin ReadOps,
         sids \in Nat
  PROVE  /\ Outcome(o, r).ok \in BOOLEAN /\ Outcome(o, r).saves \in BOOLEAN /\ Outcome(o, r).record \in SessionFiles
         /\ Outcome(o, r).saves /\ Len(OrUntracked(r).entries) <= HistoryLimit =>
              SessionDecided(o, r, Outcome(o, r).record)
<1>0. o.op \in {"set", "issue", "revoke", "ack"} BY OpFacts DEF StoreOf, TwoFactorOps, ReadOps
<1> DEFINE p == OrUntracked(r)
<1>1. p \in SessionRecords /\ NoRecord \notin SessionRecords /\ HistoryLimit \in Nat /\ HistoryLimit > 0 BY SecurityFacts
<1>2. /\ p.single \in BOOLEAN /\ p.history \in BOOLEAN /\ p.alertOn \in BOOLEAN /\ p.active \in Nat
      /\ p.entries \in Seq(Nat) /\ p.alert \in BOOLEAN
      /\ p = [single |-> p.single, history |-> p.history, alertOn |-> p.alertOn, active |-> p.active,
              entries |-> p.entries, alert |-> p.alert]
 BY <1>1 DEF SessionRecords
<1>3. p = IF r = NoRecord THEN Untracked ELSE r BY DEF OrUntracked
<1>4. \A w \in SessionRecords : w # NoRecord /\ w \in SessionFiles /\ OrUntracked(w) = w BY <1>1 DEF OrUntracked, SessionFiles
<1>5. CASE o.op = "set"
 <2> DEFINE w == [p EXCEPT !.single = o.prefs.single, !.history = o.prefs.history, !.alertOn = o.prefs.alertOn]
 <2>1. Outcome(o, r) = Saves(w) BY <1>5 DEF Outcome, SetPreferences
 <2>2. o.prefs \in Switches BY <1>5, OpFacts
 <2>3. w \in SessionRecords /\ w.entries = p.entries /\ w.alert = p.alert BY <1>1, <1>2, <2>2 DEF SessionRecords, Switches
 <2> HIDE DEF w
 <2>4. Outcome(o, r).ok = TRUE /\ Outcome(o, r).saves = TRUE /\ Outcome(o, r).record = w BY <2>1 DEF Saves
 <2> QED BY <1>4, <1>5, <2>3, <2>4 DEF SessionDecided
<1>6. CASE o.op = "issue"
 <2> DEFINE sid == sids + 1
             all == IF p.history THEN <<sid>> \o p.entries ELSE p.entries
             w == [p EXCEPT !.active = IF p.single THEN sid ELSE @,
                            !.entries = SubSeq(all, 1, IF Len(all) > HistoryLimit THEN HistoryLimit ELSE Len(all)),
                            !.alert = @ \/ (p.alertOn /\ o.recovery)]
 <2>1. Outcome(o, r) = Saves(w) BY <1>6 DEF Outcome, IssueForAccount
 <2>2. o.recovery \in BOOLEAN /\ sid \in Nat BY <1>6, OpFacts
 <2>3. all \in Seq(Nat) BY <1>2, <2>2, InFront
 <2> DEFINE newest == NewestOf(all)
 <2>4. w = [p EXCEPT !.active = IF p.single THEN sid ELSE @, !.entries = newest,
                     !.alert = @ \/ (p.alertOn /\ o.recovery)]
  BY DEF NewestOf, AtMost
 <2>5. newest \in Seq(Nat) /\ Len(newest) = AtMost(Len(all)) /\ (\A i \in 1..AtMost(Len(all)) : newest[i] = all[i])
       /\ (Len(all) <= HistoryLimit => newest = all)
  BY <2>3, NewestFacts
 <2>6. p.history => newest # <<>> /\ newest = NewestOf(<<newest[1]>> \o p.entries)
  <3>1. SUFFICES ASSUME p.history PROVE newest # <<>> /\ newest[1] = sid /\ all = <<sid>> \o p.entries BY DEF newest
  <3>2. all = <<sid>> \o p.entries BY <3>1
  <3>3. Len(all) = Len(p.entries) + 1 /\ all[1] = sid /\ Len(p.entries) \in Nat BY <1>2, <2>2, <3>2, InFront
  <3>4. AtMost(Len(all)) \in Nat /\ 1 <= AtMost(Len(all)) BY <1>1, <3>3 DEF AtMost
  <3>5. newest[1] = sid /\ Len(newest) # 0 BY <2>5, <3>3, <3>4
  <3> QED BY <3>2, <3>5
 <2>7. ~p.history /\ Len(p.entries) <= HistoryLimit => newest = p.entries BY <2>5
 <2> HIDE DEF newest, all
 <2>8. /\ w \in SessionRecords /\ w.history = p.history /\ w.alertOn = p.alertOn /\ w.entries = newest
       /\ w.alert = (p.alert \/ (p.alertOn /\ o.recovery))
  BY <1>1, <1>2, <2>2, <2>4, <2>5 DEF SessionRecords
 <2> HIDE DEF w
 <2>9. Outcome(o, r).ok = TRUE /\ Outcome(o, r).saves = TRUE /\ Outcome(o, r).record = w BY <2>1 DEF Saves
 <2>10. w # NoRecord /\ w \in SessionFiles /\ OrUntracked(w) = w BY <1>4, <2>8
 <2> QED BY <1>6, <2>6, <2>7, <2>8, <2>9, <2>10 DEF SessionDecided
<1>7. CASE o.op = "revoke"
 <2> DEFINE w == [r EXCEPT !.active = IF r.single THEN sids + 1 ELSE 0]
 <2>1. Outcome(o, r) = Nothing(r) \/ (r # NoRecord /\ Outcome(o, r) = Saves(w)) BY <1>7 DEF Outcome, Revoke
 <2>2. CASE Outcome(o, r) = Nothing(r) BY <2>2 DEF Nothing
 <2>3. CASE r # NoRecord /\ Outcome(o, r) = Saves(w)
  <3>0. r \in SessionRecords /\ p = r BY <1>1, <1>3, <2>3
  <3>1. w \in SessionRecords /\ w.entries = p.entries /\ w.alert = p.alert BY <3>0 DEF SessionRecords
  <3> HIDE DEF w
  <3>2. Outcome(o, r).ok = TRUE /\ Outcome(o, r).saves = TRUE /\ Outcome(o, r).record = w BY <2>3 DEF Saves
  <3> QED BY <1>4, <1>7, <3>1, <3>2 DEF SessionDecided
 <2> QED BY <2>1, <2>2, <2>3
<1>8. CASE o.op = "ack"
 <2> DEFINE w == [r EXCEPT !.alert = FALSE]
 <2>1. Outcome(o, r) = Nothing(r) \/ (r # NoRecord /\ Outcome(o, r) = Saves(w)) BY <1>8 DEF Outcome, AckAlert
 <2>2. CASE Outcome(o, r) = Nothing(r) BY <2>2 DEF Nothing
 <2>3. CASE r # NoRecord /\ Outcome(o, r) = Saves(w)
  <3>0. r \in SessionRecords /\ p = r BY <1>1, <1>3, <2>3
  <3>1. w \in SessionRecords /\ w.entries = p.entries /\ w.alert = FALSE BY <3>0 DEF SessionRecords
  <3> HIDE DEF w
  <3>2. Outcome(o, r).ok = TRUE /\ Outcome(o, r).saves = TRUE /\ Outcome(o, r).record = w BY <2>3 DEF Saves
  <3> QED BY <1>4, <1>8, <3>1, <3>2 DEF SessionDecided
 <2> QED BY <2>1, <2>2, <2>3
<1> QED BY <1>0, <1>5, <1>6, <1>7, <1>8

----
\* The requests.

LEMMA OpAt ==
  ASSUME SecurityTyped, NEW c \in SecurityClients, secCall[c].todo # <<>>
  PROVE  /\ Ops(c) \in SecurityOps /\ Tail(secCall[c].todo) \in Seq(SecurityOps)
         /\ StoreOf(Ops(c)) \in SecurityStores
<1>1. secCall[c].todo \in Seq(SecurityOps) BY DEF SecurityTyped, SecurityCalls
<1> QED BY <1>1, HeadTailProperties DEF Ops, StoreOf, SecurityStores

LEMMA Grows ==
  ASSUME NEW codes, NEW g \in Nat, NEW h \in Nat, g <= h, Generated(codes, g),
         \A code \in codes : code \in RecoveryCodes => code[2] \in Nat
  PROVE  Generated(codes, h)
BY DEF Generated

LEMMA RecoveryNumbers == \A code \in RecoveryCodes : code[2] \in Nat
BY DEF RecoveryCodes

\* A decision stands when more secrets are generated.
LEMMA DecidedGrows ==
  ASSUME NEW o, NEW f, NEW w, NEW spent, NEW g \in Nat, NEW h \in Nat, g <= h, FactorDecided(o, f, w, spent, g)
  PROVE  FactorDecided(o, f, w, spent, h)
<1>1. w # NoRecord => Generated(w.codes, h) BY Grows, RecoveryNumbers DEF FactorDecided
<1> QED BY <1>1 DEF FactorDecided

LEMMA DecidedStays ==
  ASSUME SecurityTyped, NEW d \in SecurityClients, Decided(d), generation' \in Nat, generation <= generation',
         secCall'[d] = secCall[d], accepted' = accepted, \A s \in SecurityStores : InUse(s)' = InUse(s)
  PROVE  Decided(d)'
<1>0. generation \in Nat BY DEF SecurityTyped
<1> DEFINE f == InUse(StoreOf(Ops(d)))
<1>1. f' = f /\ Ops(d)' = Ops(d) BY DEF StoreOf, SecurityStores, Ops
<1> HIDE DEF f
<1>2. SUFFICES ASSUME secCall[d].phase = "decided"
               PROVE  IF StoreOf(Ops(d)) = "twofactor"
                      THEN FactorDecided(Ops(d), f, secCall[d].work, DOMAIN accepted, generation')
                      ELSE SessionDecided(Ops(d), f, secCall[d].work)
 BY <1>1 DEF Decided, f
<1>3. CASE StoreOf(Ops(d)) = "twofactor" BY <1>0, <1>2, <1>3, DecidedGrows DEF Decided, f
<1>4. CASE StoreOf(Ops(d)) # "twofactor" BY <1>2, <1>4 DEF Decided, f
<1> QED BY <1>3, <1>4

\* What the server goes by stays, and so does what it is for.
LEMMA SecretsStay ==
  ASSUME SecurityTyped, SecretsSound, ~overtaken, generation' \in Nat, generation <= generation',
         UNCHANGED <<accepted, journal, owed>>, \A s \in SecurityStores : InUse(s)' = InUse(s),
         \A d \in SecurityClients : secCall'[d] = secCall[d] \/ Decided(d)'
  PROVE  SecretsSound'
<1>0. generation \in Nat /\ InUse("twofactor")' = InUse("twofactor") /\ InUse("sessions")' = InUse("sessions")
 BY DEF SecurityTyped, SecurityStores
<1>1. Generated(DOMAIN accepted, generation') BY <1>0, Grows, RecoveryNumbers DEF SecretsSound, FactorSound
<1>2. InUse("twofactor") # NoRecord => Generated(InUse("twofactor").codes, generation')
 BY <1>0, Grows, RecoveryNumbers DEF SecretsSound, FactorSound
<1>3. FactorSound' /\ journal' \in Seq(Nat) BY <1>0, <1>1, <1>2 DEF SecretsSound, FactorSound, CodesSpentOnce
<1>4. HistoryExact' /\ AlertKept' BY <1>0 DEF SecretsSound, HistoryExact, AlertKept
<1>5. \A d \in SecurityClients : Decided(d)' BY DecidedStays DEF SecretsSound
<1> QED BY <1>3, <1>4, <1>5 DEF SecretsSound

LEMMA InUseStays ==
  ASSUME NEW s \in SecurityStores, secFile'[s] = secFile[s], secCache'[s] = secCache[s], secLock'[s] = secLock[s],
         \A d \in SecurityClients : secLock[s] = d => secCall'[d] = secCall[d]
  PROVE  InUse(s)' = InUse(s) /\ (BeingPublished(s)' <=> BeingPublished(s))
BY DEF InUse, BeingPublished, Loaded

\* A cache is filled with what a read, or a load, got.
Refills ==
  \/ UNCHANGED secCache
  \/ \E s \in SecurityStores : \E r :
       /\ InStore(s, r) /\ secCache' = [secCache EXCEPT ![s] = r]
       /\ overtaken' \/ BeingPublished(s) \/ r = Loaded(s)

LEMMA Refilled ==
  ASSUME SecurityTyped, Refills
  PROVE  /\ DOMAIN secCache' = SecurityStores /\ secCache' = [s \in SecurityStores |-> secCache'[s]]
         /\ \A s \in SecurityStores :
              \/ secCache'[s] = secCache[s]
              \/ /\ InStore(s, secCache'[s]) /\ secCache'[s] # Unread
                 /\ overtaken' \/ BeingPublished(s) \/ secCache'[s] = Loaded(s)
BY SecurityFacts DEF Refills, SecurityTyped, InStore

\* A request that holds no mutex takes a step.
LEMMA OutsideSound ==
  ASSUME SecuritySound, NEW c \in SecurityClients, NEW call \in SecurityCalls,
         secCall[c].phase \in {"idle", "read"}, call.phase \in {"idle", "read"},
         call.phase = "read" => /\ call.todo # <<>> /\ Head(call.todo).op \in ReadOps
                                /\ InStore(StoreOf(Head(call.todo)), call.work),
         secCall' = [secCall EXCEPT ![c] = call],
         UNCHANGED <<secFile, secLock, accepted, journal, owed, counter, cookies, orphaned>>,
         generation' \in Nat, generation <= generation', sids' \in Nat, \A t \in enrollments' : t.secret \in Nat,
         overtaken' \in BOOLEAN, overtaken => overtaken', Refills
  PROVE  SecuritySound'
<1>0. SecurityTyped /\ SecurityTypeOK /\ (\A d \in SecurityClients : PhaseSound(d)) /\ (~overtaken => SecretsSound)
 BY DEF SecuritySound
<1>1. secCall'[c] = call /\ \A d \in SecurityClients : d # c => secCall'[d] = secCall[d] BY <1>0 DEF SecurityTyped
<1>2. /\ DOMAIN secCache' = SecurityStores /\ secCache' = [s \in SecurityStores |-> secCache'[s]]
      /\ \A s \in SecurityStores :
           \/ secCache'[s] = secCache[s]
           \/ /\ InStore(s, secCache'[s]) /\ secCache'[s] # Unread
              /\ overtaken' \/ BeingPublished(s) \/ secCache'[s] = Loaded(s)
 BY <1>0, Refilled
<1>3. SecurityTyped'
 <2>1. \A s \in SecurityStores : InStore(s, secFile'[s]) /\ (secCache'[s] = Unread \/ InStore(s, secCache'[s]))
  BY <1>0, <1>2 DEF SecurityTyped
 <2> QED BY <1>0, <1>2, <2>1 DEF SecurityTyped, InStore
<1>4. ASSUME NEW s \in SecurityStores
      PROVE  (BeingPublished(s)' <=> BeingPublished(s)) /\ (overtaken' \/ InUse(s)' = InUse(s))
 <2>1. BeingPublished(s)' <=> BeingPublished(s) BY <1>1 DEF BeingPublished
 <2>2. CASE BeingPublished(s)
  <3>1. secLock[s] # c /\ secLock[s] \in SecurityClients BY <2>2 DEF BeingPublished
  <3> QED BY <1>1, <2>1, <2>2, <3>1 DEF InUse
 <2>3. CASE ~BeingPublished(s)
  <3>1. overtaken' \/ Loaded(s)' = Loaded(s) BY <1>2, <2>3 DEF Loaded
  <3> QED BY <2>1, <2>3, <3>1 DEF InUse
 <2> QED BY <2>1, <2>2, <2>3
<1>5. ASSUME NEW s \in SecurityStores, NEW d \in SecurityClients
      PROVE  secLock'[s] = d <=> /\ secCall'[d].phase \in {"decided", "saved"} /\ StoreOf(Head(secCall'[d].todo)) = s
 <2>1. secLock[s] = d <=> /\ secCall[d].phase \in {"decided", "saved"} /\ StoreOf(Head(secCall[d].todo)) = s
  BY <1>0 DEF SecurityTypeOK
 <2>2. CASE d = c BY <1>1, <2>1, <2>2
 <2>3. CASE d # c BY <1>1, <2>1, <2>3
 <2> QED BY <2>2, <2>3
<1>6. \A s \in SecurityStores : overtaken' \/ BeingPublished(s)' \/ s \in orphaned' \/ secCache'[s] \in {Unread, secFile'[s]}
 BY <1>0, <1>2, <1>4 DEF SecurityTypeOK, Loaded
<1>7. SecurityTypeOK' BY <1>5, <1>6 DEF SecurityTypeOK
<1>8. ASSUME NEW d \in SecurityClients PROVE PhaseSound(d)'
 <2>1. CASE d = c BY <1>1, <2>1 DEF PhaseSound, Ops
 <2>2. CASE d # c
  <3>1. SUFFICES ASSUME secCall[d].phase # "idle" PROVE PhaseSound(d)' BY <1>1, <2>2 DEF PhaseSound
  <3>2. PhaseSound(d) /\ secCache[StoreOf(Ops(d))] # Unread => secCache'[StoreOf(Ops(d))] # Unread
   BY <1>0, <1>2, <3>1, OpAt DEF PhaseSound
  <3>3. PhaseSound(d) /\ Ops(d)' = Ops(d) /\ secCall'[d] = secCall[d] BY <1>0, <1>1, <2>2 DEF Ops
  <3> QED BY <3>1, <3>2, <3>3 DEF PhaseSound, InStore
 <2> QED BY <2>1, <2>2
<1>9. ASSUME ~overtaken' PROVE SecretsSound'
 <2>1. SecretsSound /\ ~overtaken /\ \A s \in SecurityStores : InUse(s)' = InUse(s) BY <1>0, <1>4, <1>9
 <2>2. Decided(c)' BY <1>1 DEF Decided
 <2> QED BY <1>0, <1>1, <2>1, <2>2, SecretsStay
<1> QED BY <1>3, <1>7, <1>8, <1>9 DEF SecuritySound

LEMMA KnownCodesSound == SecurityTyped => KnownCodes \subseteq Codes
<1> SUFFICES ASSUME SecurityTyped PROVE KnownCodes \subseteq Codes OBVIOUS
<1>1. counter \in Nat \ {0} /\ generation \in Nat BY DEF SecurityTyped
<1>2. ASSUME NEW s \in 1..generation, NEW k \in (counter - 1)..(counter + 1) PROVE <<"totp", s, k>> \in Codes
 <2>1. k \in Nat /\ s \in Nat BY <1>1
 <2> QED BY <2>1 DEF Codes, TotpCodes
<1>3. ASSUME NEW s \in 1..generation PROVE NewCodeSet(s) \subseteq Codes
 <2>1. s \in Nat BY <1>1
 <2> QED BY <2>1, NewCodeSetFacts DEF Codes
<1> QED BY <1>2, <1>3 DEF KnownCodes

LEMMA AccountRequestSound ==
  ASSUME SecuritySound, NEW c \in SecurityClients, NEW o \in SecurityOps, Request(c, o)
  PROVE  SecuritySound'
<1>0. SecurityTyped /\ SecurityTypeOK /\ PhaseSound(c) BY DEF SecuritySound
<1> DEFINE one == <<o>>
<1>1. one \in Seq(SecurityOps) OBVIOUS
<1>2. secCall[c] \in SecurityCalls /\ secCall[c].phase = "idle" BY <1>0 DEF SecurityTyped, SecurityCalls, PhaseSound, Request
<1>3. secCall' = [secCall EXCEPT ![c] = [secCall[c] EXCEPT !.todo = one]] BY <1>0, <1>2 DEF SecurityTyped, Request
<1> HIDE DEF one
<1> DEFINE call == [secCall[c] EXCEPT !.todo = one]
<1>4. call \in SecurityCalls /\ call.phase = "idle" BY <1>1, <1>2 DEF SecurityCalls
<1>5. secCall' = [secCall EXCEPT ![c] = call] BY <1>3
<1> HIDE DEF call
<1>6. /\ UNCHANGED <<secFile, secLock, accepted, journal, owed, counter, generation, sids, enrollments, overtaken,
                    cookies, orphaned>>
      /\ Refills
 BY DEF Request, secTokens, secGhosts, Refills
<1>7. /\ generation \in Nat /\ generation <= generation /\ sids \in Nat /\ (\A t \in enrollments : t.secret \in Nat)
      /\ overtaken \in BOOLEAN
 BY <1>0 DEF SecurityTyped
<1> QED BY <1>2, <1>4, <1>5, <1>6, <1>7, OutsideSound

LEMMA AuthenticatedSound ==
  ASSUME SecuritySound, NEW c \in SecurityClients, NEW o \in ApiOps, Authenticated(c, o)
  PROVE  SecuritySound'
<1>1. PICK sid \in cookies : Request(c, [op |-> "active", sid |-> sid, then |-> o]) BY DEF Authenticated
<1>2. sid \in Nat BY DEF SecuritySound, SecurityTyped
<1> QED BY <1>1, <1>2, AskedOps, AccountRequestSound

LEMMA AccountRequestsSound ==
  ASSUME SecuritySound, NEW c \in SecurityClients, SecurityRequest(c)
  PROVE  SecuritySound'
<1>0. SecurityTyped BY DEF SecuritySound
<1>1. CASE SignIn(c) BY <1>1, AccountRequestSound, MadeOps DEF SignIn
<1>2. CASE AnswerChallenge(c) BY <1>0, <1>2, AccountRequestSound, KnownCodesSound, MadeOps DEF AnswerChallenge
<1>3. CASE BeginEnrollment(c) BY <1>3, AuthenticatedSound, AskedOps DEF BeginEnrollment
<1>4. CASE Confirm(c) BY <1>0, <1>4, AuthenticatedSound, AskedOps DEF Confirm, SecurityTyped
<1>5. CASE DisableTwoFactor(c) BY <1>0, <1>5, AuthenticatedSound, KnownCodesSound, AskedOps DEF DisableTwoFactor, PresentCodes
<1>6. CASE RegenerateCodes(c) BY <1>0, <1>6, AuthenticatedSound, KnownCodesSound, AskedOps DEF RegenerateCodes, PresentCodes
<1>7. CASE UpdateSecurityPreferences(c)
 <2>1. PICK flag \in Flags : \E on \in {OrUntracked(secFile["sessions"])[flag]} :
         Authenticated(c, Preferences([why |-> "update", flag |-> flag, on |-> ~on]))
  BY <1>7 DEF UpdateSecurityPreferences, Flags
 <2> DEFINE on == ~OrUntracked(secFile["sessions"])[flag]
 <2>2. on \in BOOLEAN OBVIOUS
 <2>3. Authenticated(c, Preferences([why |-> "update", flag |-> flag, on |-> on])) BY <2>1
 <2> HIDE DEF on
 <2> QED BY <2>2, <2>3, AuthenticatedSound, AskedOps
<1>8. CASE SignOut(c) BY <1>8, AuthenticatedSound, AskedOps DEF SignOut
<1>9. CASE Acknowledge(c) BY <1>9, AuthenticatedSound, AskedOps DEF Acknowledge
<1> QED BY <1>1, <1>2, <1>3, <1>4, <1>5, <1>6, <1>7, <1>8, <1>9 DEF SecurityRequest

LEMMA HandOutSound ==
  ASSUME SecurityTyped, NEW o, NEW r, HandOut(o, r)
  PROVE  generation' \in Nat /\ generation <= generation' /\ \A t \in enrollments' : t.secret \in Nat
BY DEF HandOut, SecurityTyped

LEMMA ContinueSound ==
  ASSUME SecurityTyped, NEW c \in SecurityClients, secCall[c].todo # <<>>, NEW r, NEW ok \in BOOLEAN,
         InStore(StoreOf(Ops(c)), r), Continue(c, r, ok)
  PROVE  \E call \in SecurityCalls : call.phase = "idle" /\ secCall' = [secCall EXCEPT ![c] = call]
<1> DEFINE next == After(Ops(c), r, ok, Tail(secCall[c].todo))
            call == [todo |-> next, phase |-> "idle", work |-> NoRecord]
<1>1. next \in Seq(SecurityOps) BY OpAt, AfterSound
<1> HIDE DEF next
<1>2. call \in SecurityCalls /\ call.phase = "idle" BY <1>1 DEF SecurityCalls, FactorFiles
<1>3. secCall' = [secCall EXCEPT ![c] = call] BY DEF Continue, Ops, next
<1> QED BY <1>2, <1>3

\* What every read, and a load that fails, does.
LEMMA ReadsMove ==
  ASSUME SecuritySound, NEW c \in SecurityClients, secCall[c].todo # <<>>,
         ReadCached(c) \/ ReadFails(c) \/ LoadFails(c) \/ FillCache(c)
  PROVE  \E r, ok : /\ ok \in BOOLEAN /\ InStore(StoreOf(Ops(c)), r) /\ Continue(c, r, ok) /\ Refills
                    /\ HandOut(Ops(c), r) \/ UNCHANGED secTokens
                    /\ UNCHANGED <<secFile, secLock, counter, sids, cookies, accepted, journal, owed, orphaned, secRemoval>>
                    /\ secCall[c].phase \in {"idle", "read"} /\ overtaken' \in BOOLEAN /\ (overtaken => overtaken')
                    /\ ok => /\ Ops(c).op \in ReadOps
                             /\ overtaken' \/ BeingPublished(StoreOf(Ops(c))) \/ r = Loaded(StoreOf(Ops(c)))
<1>0. SecurityTyped /\ PhaseSound(c) /\ overtaken \in BOOLEAN BY DEF SecuritySound, SecurityTyped
<1> DEFINE s == StoreOf(Ops(c))
<1>1. s \in SecurityStores /\ InStore(s, NoRecord) BY <1>0, OpAt DEF InStore, FactorFiles, SessionFiles
<1>2. CASE ReadCached(c)
 <2>1. /\ secCall[c].phase = "idle" /\ secCache[s] # Unread /\ Continue(c, secCache[s], TRUE) /\ HandOut(Ops(c), secCache[s])
       /\ Ops(c).op \in ReadOps /\ UNCHANGED secCache
       /\ UNCHANGED <<secFile, secLock, counter, sids, cookies, accepted, journal, owed, overtaken, orphaned, secRemoval>>
  BY <1>2 DEF ReadCached, Ops, secGhosts
 <2>2. InStore(s, secCache[s]) /\ Refills /\ secCache[s] = Loaded(s) BY <1>0, <1>1, <2>1 DEF SecurityTyped, Refills, Loaded
 <2> HIDE DEF s
 <2> QED BY <1>0, <2>1, <2>2 DEF s
<1>3. CASE ReadFails(c) \/ LoadFails(c)
 <2>1. /\ secCall[c].phase \in {"idle", "read"} /\ Continue(c, NoRecord, FALSE)
       /\ HandOut(Ops(c), NoRecord) \/ UNCHANGED secTokens
       /\ UNCHANGED <<secFile, secLock, counter, sids, cookies, accepted, journal, owed, overtaken, orphaned, secRemoval>>
       /\ Refills
  BY <1>3 DEF ReadFails, LoadFails, Ops, secGhosts, Refills
 <2> QED BY <1>0, <1>1, <2>1
<1>4. CASE FillCache(c)
 <2> DEFINE work == secCall[c].work
 <2>1. /\ secCall[c].phase = "read" /\ secCache' = [secCache EXCEPT ![s] = work]
       /\ overtaken' = (overtaken \/ (~BeingPublished(s) /\ work # Loaded(s)))
       /\ Continue(c, work, TRUE) /\ HandOut(Ops(c), work)
       /\ UNCHANGED <<secFile, secLock, counter, sids, cookies, accepted, journal, owed, orphaned, secRemoval>>
  BY <1>4 DEF FillCache, Ops, secGhosts
 <2>2. InStore(s, work) /\ Ops(c).op \in ReadOps BY <1>0, <2>1 DEF PhaseSound
 <2>3. overtaken' \in BOOLEAN /\ (overtaken => overtaken') /\ (overtaken' \/ BeingPublished(s) \/ work = Loaded(s)) /\ Refills
  BY <1>0, <1>1, <2>1, <2>2 DEF Refills
 <2> HIDE DEF s, work
 <2> QED BY <2>1, <2>2, <2>3 DEF s
<1> QED BY <1>2, <1>3, <1>4

LEMMA ReadsSound ==
  ASSUME SecuritySound, NEW c \in SecurityClients, secCall[c].todo # <<>>,
         ReadCached(c) \/ ReadFails(c) \/ LoadFails(c) \/ FillCache(c)
  PROVE  SecuritySound'
<1>0. SecurityTyped /\ sids \in Nat BY DEF SecuritySound, SecurityTyped
<1>1. PICK r, ok : /\ ok \in BOOLEAN /\ InStore(StoreOf(Ops(c)), r) /\ Continue(c, r, ok) /\ Refills
                   /\ HandOut(Ops(c), r) \/ UNCHANGED secTokens
                   /\ UNCHANGED <<secFile, secLock, counter, sids, cookies, accepted, journal, owed, orphaned>>
                   /\ secCall[c].phase \in {"idle", "read"} /\ overtaken' \in BOOLEAN /\ (overtaken => overtaken')
 BY ReadsMove
<1>2. PICK call \in SecurityCalls : call.phase = "idle" /\ secCall' = [secCall EXCEPT ![c] = call] BY <1>0, <1>1, ContinueSound
<1>3. generation' \in Nat /\ generation <= generation' /\ \A t \in enrollments' : t.secret \in Nat
 <2>1. CASE HandOut(Ops(c), r) BY <1>0, <2>1, HandOutSound
 <2>2. CASE UNCHANGED secTokens BY <1>0, <2>2 DEF SecurityTyped, secTokens
 <2> QED BY <1>1, <2>1, <2>2
<1> QED BY <1>0, <1>1, <1>2, <1>3, OutsideSound

LEMMA ReadFileSound ==
  ASSUME SecuritySound, NEW c \in SecurityClients, ReadFile(c)
  PROVE  SecuritySound'
<1>0. SecurityTyped /\ SecurityTypeOK BY DEF SecuritySound
<1> DEFINE s == StoreOf(Ops(c))
            call == [secCall[c] EXCEPT !.phase = "read", !.work = secFile[s]]
<1>1. /\ secCall[c].todo # <<>> /\ secCall[c].phase = "idle" /\ Ops(c).op \in ReadOps
      /\ secCall' = [secCall EXCEPT ![c].phase = "read", ![c].work = secFile[s]]
      /\ UNCHANGED <<secFile, secLock, counter, generation, sids, enrollments, accepted, journal, owed, overtaken,
                    cookies, orphaned>>
      /\ Refills
 BY DEF ReadFile, Ops, Refills, secTokens, secGhosts
<1>2. s \in SecurityStores BY <1>0, <1>1, OpAt
<1>3. InStore(s, secFile[s]) BY <1>0, <1>2 DEF SecurityTyped
<1>4. call \in SecurityCalls /\ call.phase = "read" /\ call.todo = secCall[c].todo /\ call.work = secFile[s]
 <2>1. secCall[c] \in SecurityCalls /\ secFile[s] \in FactorFiles \cup SessionFiles BY <1>0, <1>3 DEF SecurityTyped, InStore
 <2> QED BY <2>1 DEF SecurityCalls
<1>5. secCall' = [secCall EXCEPT ![c] = call] BY <1>0, <1>1 DEF SecurityTyped
<1> HIDE DEF call
<1>6. call.todo # <<>> /\ Head(call.todo).op \in ReadOps /\ InStore(StoreOf(Head(call.todo)), call.work)
 BY <1>1, <1>3, <1>4 DEF Ops
<1> HIDE DEF s
<1>7. /\ generation' \in Nat /\ generation <= generation' /\ sids' \in Nat /\ (\A t \in enrollments' : t.secret \in Nat)
      /\ overtaken' \in BOOLEAN /\ (overtaken => overtaken')
 BY <1>0, <1>1 DEF SecurityTyped
<1>8. UNCHANGED <<secFile, secLock, accepted, journal, owed, counter, cookies, orphaned>> /\ secCall[c].phase \in {"idle", "read"}
      /\ call.phase \in {"idle", "read"}
 BY <1>1, <1>4
<1> QED BY <1>1, <1>4, <1>5, <1>6, <1>7, <1>8, OutsideSound

\* The record in use is the file's, but where the file was deleted.
LEMMA InUseFacts ==
  ASSUME SecuritySound, NEW s \in SecurityStores
  PROVE  /\ InStore(s, InUse(s)) /\ InStore(s, secFile[s]) /\ InStore(s, NoRecord)
         /\ s \in orphaned => secFile[s] = NoRecord
         /\ overtaken \/ s \in orphaned \/ InUse(s) = secFile[s]
<1>0. SecurityTyped /\ SecurityTypeOK /\ \A d \in SecurityClients : PhaseSound(d) BY DEF SecuritySound
<1>1. InStore(s, secFile[s]) /\ InStore(s, NoRecord) /\ (s \in orphaned => secFile[s] = NoRecord)
 BY <1>0 DEF SecurityTyped, InStore, FactorFiles, SessionFiles
<1>2. CASE BeingPublished(s)
 <2>1. PICK d \in SecurityClients : secLock[s] = d /\ secCall[d].phase = "saved" BY <1>2 DEF BeingPublished
 <2>2. StoreOf(Ops(d)) = s /\ InUse(s) = secCall[d].work /\ PhaseSound(d) BY <1>0, <1>2, <2>1 DEF SecurityTypeOK, InUse, Ops
 <2> QED BY <1>1, <2>1, <2>2 DEF PhaseSound
<1>3. CASE ~BeingPublished(s) BY <1>0, <1>1, <1>3 DEF InUse, Loaded, SecurityTyped, SecurityTypeOK
<1> QED BY <1>1, <1>2, <1>3

\* A record is gone with all that it was for.
LEMMA SecretsGone ==
  ASSUME SecuritySound, ~overtaken, UNCHANGED <<accepted, generation, overtaken>>, NEW gone \in BOOLEAN, Forgotten(gone),
         InUse("twofactor")' = NoRecord \/ InUse("twofactor")' = InUse("twofactor"),
         IF gone THEN InUse("sessions")' = NoRecord ELSE InUse("sessions")' = InUse("sessions"),
         \A d \in SecurityClients : Decided(d)'
  PROVE  SecretsSound'
<1>0. SecretsSound /\ owed \in BOOLEAN BY DEF SecuritySound, SecurityTyped
<1>1. FactorSound' BY <1>0 DEF SecretsSound, FactorSound, CodesSpentOnce, Spent
<1>2. CASE gone
 <2>0. journal' = <<>> /\ owed' = FALSE BY <1>2 DEF Forgotten
 <2>1. journal' = <<>> /\ journal' \in Seq(Nat) /\ Len(journal') = 0 /\ owed' = FALSE BY <2>0
 <2>2. NewestOf(journal') = journal'
  <3>1. Len(journal') <= HistoryLimit BY <2>1, SecurityFacts
  <3> QED BY <2>1, <3>1, NewestFacts
 <2>3. OrUntracked(InUse("sessions"))' = Untracked /\ Untracked.entries = <<>> /\ Untracked.alert = FALSE
  BY <1>2 DEF OrUntracked, Untracked
 <2>4. HistoryExact' /\ AlertKept' BY <2>1, <2>2, <2>3 DEF HistoryExact, AlertKept, NewestOf, AtMost
 <2> QED BY <1>1, <2>1, <2>2, <2>4 DEF SecretsSound
<1>3. CASE ~gone
 <2>1. journal' = journal /\ owed' = owed BY <1>0, <1>3 DEF Forgotten
 <2> QED BY <1>0, <1>1, <1>3, <2>1 DEF SecretsSound, HistoryExact, AlertKept
<1> QED BY <1>2, <1>3

LEMMA AuthRestartSound ==
  ASSUME SecuritySound, AuthRestart
  PROVE  SecuritySound'
<1>0. SecurityTyped /\ SecurityTypeOK /\ (~overtaken => SecretsSound) BY DEF SecuritySound
<1> DEFINE call == [todo |-> <<>>, phase |-> "idle", work |-> NoRecord]
<1>1. call \in SecurityCalls /\ call.phase = "idle"
 <2>1. <<>> \in Seq(SecurityOps) OBVIOUS
 <2> QED BY <2>1 DEF SecurityCalls, FactorFiles
<1>2. /\ secCall' = [c \in SecurityClients |-> call] /\ secCache' = [s \in SecurityStores |-> Unread]
      /\ secLock' = [s \in SecurityStores |-> NoClient] /\ orphaned' = {} /\ Forgotten(secFile["sessions"] = NoRecord)
      /\ UNCHANGED <<secFile, counter, sids, cookies, generation, enrollments, accepted, overtaken>>
 BY DEF AuthRestart, secTokens
<1> HIDE DEF call
<1>3. owed' \in BOOLEAN BY <1>0, <1>2 DEF SecurityTyped, Forgotten
<1>4. SecurityTyped' BY <1>0, <1>1, <1>2, <1>3 DEF SecurityTyped, InStore
<1>5. SecurityTypeOK' BY <1>0, <1>1, <1>2, SecurityFacts DEF SecurityTypeOK
<1>6. \A c \in SecurityClients : PhaseSound(c)' /\ Decided(c)' BY <1>1, <1>2 DEF PhaseSound, Decided
<1>7. ASSUME NEW s \in SecurityStores PROVE InUse(s)' = secFile[s] BY <1>2, SecurityFacts DEF InUse, BeingPublished, Loaded
<1>8. ASSUME ~overtaken' PROVE SecretsSound'
 <2>1. SecretsSound /\ ~overtaken BY <1>0, <1>2, <1>8
 <2>2. \A s \in SecurityStores : InUse(s)' = NoRecord \/ (InUse(s)' = InUse(s) /\ secFile[s] # NoRecord) BY <1>7, <2>1, InUseFacts
 <2>3. "sessions" \in SecurityStores /\ "twofactor" \in SecurityStores BY DEF SecurityStores
 <2> QED BY <1>2, <1>6, <1>7, <2>1, <2>2, <2>3, SecretsGone
<1> QED BY <1>4, <1>5, <1>6, <1>8 DEF SecuritySound

LEMMA SecurityRests ==
  ASSUME SecuritySound, counter' \in Nat \ {0},
         UNCHANGED <<secFile, secCache, secLock, secCall, sids, cookies, generation, enrollments, accepted, journal, owed,
                     overtaken, orphaned>>
  PROVE  SecuritySound'
<1>1. /\ SecurityTyped /\ SecurityTypeOK /\ (\A d \in SecurityClients : PhaseSound(d)) /\ (~overtaken => SecretsSound)
      /\ generation \in Nat
 BY DEF SecuritySound, SecurityTyped
<1>2. \A s \in SecurityStores : InUse(s)' = InUse(s) /\ (BeingPublished(s)' <=> BeingPublished(s)) BY InUseStays
<1>3. SecurityTyped' /\ SecurityTypeOK' BY <1>1, <1>2 DEF SecurityTyped, SecurityTypeOK, InStore
<1>4. \A d \in SecurityClients : PhaseSound(d)' BY <1>1 DEF PhaseSound, Ops, InStore
<1>5. ~overtaken' => SecretsSound' BY <1>1, <1>2, SecretsStay
<1> QED BY <1>3, <1>4, <1>5 DEF SecuritySound

LEMMA PurgeSound ==
  ASSUME SecuritySound, Purge
  PROVE  SecuritySound'
<1>0. /\ SecurityTyped /\ SecurityTypeOK /\ (\A d \in SecurityClients : PhaseSound(d)) /\ (~overtaken => SecretsSound)
      /\ counter \in Nat \ {0}
 BY DEF SecuritySound, SecurityTyped
<1>1. CASE UNCHANGED <<secFile, orphaned, journal, owed>> BY <1>0, <1>1, SecurityRests DEF Purge, secRequests, secTokens
<1>2. CASE ~UNCHANGED <<secFile, orphaned, journal, owed>>
 <2> DEFINE s == removal.at
             live == BeingPublished(s) \/ secCache[s] \notin {Unread, NoRecord}
 <2>1. /\ s \in SecurityStores /\ secFile' = [secFile EXCEPT ![s] = NoRecord]
       /\ orphaned' = IF live THEN orphaned \cup {s} ELSE orphaned
       /\ Forgotten(s = "sessions" /\ ~live)
       /\ UNCHANGED <<secCache, secLock, secCall, counter, sids, cookies, generation, enrollments, accepted, overtaken>>
  BY <1>2 DEF Purge, secRequests, secTokens
 <2> HIDE DEF s
 <2>2. secFile'[s] = NoRecord /\ \A t \in SecurityStores : t # s => secFile'[t] = secFile[t] BY <1>0, <2>1 DEF SecurityTyped
 <2>3. owed' \in BOOLEAN BY <1>0, <2>1 DEF SecurityTyped, Forgotten
 <2>4. SecurityTyped'
  <3>1. \A t \in SecurityStores : InStore(t, secFile'[t]) /\ (t \in orphaned' => secFile'[t] = NoRecord)
   BY <1>0, <2>1, <2>2, InUseFacts
  <3>2. DOMAIN secFile' = SecurityStores /\ secFile' = [t \in SecurityStores |-> secFile'[t]] /\ orphaned' \subseteq SecurityStores
   BY <1>0, <2>1 DEF SecurityTyped
  <3> HIDE DEF live
  <3> QED BY <1>0, <2>1, <2>3, <3>1, <3>2 DEF SecurityTyped, InStore
 <2>5. ASSUME NEW t \in SecurityStores
       PROVE  /\ BeingPublished(t)' <=> BeingPublished(t)
              /\ InUse(t)' = IF t = s /\ ~live THEN NoRecord ELSE InUse(t)
              /\ secCache[t] # Unread => Loaded(t)' = Loaded(t)
  BY <2>1, <2>2 DEF BeingPublished, InUse, Loaded
 <2>6. SecurityTypeOK' BY <1>0, <2>1, <2>2, <2>5 DEF SecurityTypeOK
 <2>7. ASSUME NEW d \in SecurityClients, secCall[d].phase # "idle"
       PROVE  StoreOf(Ops(d)) \in SecurityStores /\ PhaseSound(d) /\ Ops(d)' = Ops(d) /\ Ops(d) \in SecurityOps
  BY <1>0, <2>1, <2>7, OpAt DEF PhaseSound, Ops
 <2>8. ASSUME NEW d \in SecurityClients PROVE PhaseSound(d)'
  <3>1. SUFFICES ASSUME secCall[d].phase # "idle" PROVE PhaseSound(d)' BY <2>1 DEF PhaseSound
  <3>2. secCall[d].phase = "saved" => BeingPublished(StoreOf(Ops(d))) BY <1>0, <2>7, <3>1 DEF SecurityTypeOK, BeingPublished, Ops
  <3>3. secCall[d].phase = "saved" => StoreOf(Ops(d)) \in orphaned' \/ secCall[d].work = secFile'[StoreOf(Ops(d))]
   BY <2>1, <2>2, <2>7, <3>1, <3>2 DEF PhaseSound
  <3> HIDE DEF live
  <3> QED BY <2>1, <2>7, <3>1, <3>3 DEF PhaseSound, InStore
 <2>9. ASSUME ~overtaken, NEW d \in SecurityClients PROVE Decided(d)'
  <3>1. SUFFICES ASSUME secCall[d].phase = "decided" PROVE Decided(d)' BY <2>1 DEF Decided
  <3>2. Decided(d) /\ ~BeingPublished(StoreOf(Ops(d)))
   BY <1>0, <2>7, <2>9, <3>1 DEF SecretsSound, SecurityTypeOK, BeingPublished, Ops
  <3>3. CASE Ops(d).op = "confirm" BY <2>1, <2>7, <3>1, <3>2, <3>3 DEF Decided, FactorDecided, StoreOf, TwoFactorOps
  <3>4. CASE Ops(d).op # "confirm"
   <4>1. InUse(StoreOf(Ops(d)))' = InUse(StoreOf(Ops(d))) BY <2>5, <2>7, <3>1, <3>2, <3>4 DEF PhaseSound, InUse
   <4> HIDE DEF live
   <4> QED BY <2>1, <2>7, <3>1, <3>2, <4>1 DEF Decided
  <3> QED BY <3>3, <3>4
 <2>10. ASSUME ~overtaken' PROVE SecretsSound'
  <3>1. ~overtaken /\ "sessions" \in SecurityStores /\ "twofactor" \in SecurityStores BY <2>1, <2>10 DEF SecurityStores
  <3> DEFINE gone == s = "sessions" /\ ~live
  <3>2. gone \in BOOLEAN /\ (InUse("twofactor")' = NoRecord \/ InUse("twofactor")' = InUse("twofactor"))
        /\ IF gone THEN InUse("sessions")' = NoRecord ELSE InUse("sessions")' = InUse("sessions")
   BY <2>5, <3>1
  <3> HIDE DEF gone
  <3> QED BY <2>1, <2>9, <3>1, <3>2, SecretsGone DEF gone
 <2> QED BY <2>4, <2>6, <2>8, <2>10 DEF SecuritySound
<1> QED BY <1>1, <1>2

----
\* The writes.

\* What a write decides on, from what is stored.
LEMMA OutcomeSound ==
  ASSUME SecurityTyped, NEW o \in SecurityOps, o.op \notin ReadOps, NEW r, InStore(StoreOf(o), r)
  PROVE  /\ Outcome(o, r).ok \in BOOLEAN /\ Outcome(o, r).saves \in BOOLEAN
         /\ InStore(StoreOf(o), Outcome(o, r).record)
BY FactorOutcome, SessionOutcome DEF SecurityTyped, InStore, StoreOf

LEMMA DecidesSound ==
  ASSUME SecuritySound, ~overtaken, NEW o \in SecurityOps, o.op \notin ReadOps, NEW r, r = InUse(StoreOf(o)), Outcome(o, r).saves
  PROVE  IF StoreOf(o) = "twofactor"
         THEN FactorDecided(o, r, Outcome(o, r).record, DOMAIN accepted,
                            IF o.op \in {"confirm", "regenerate"} THEN generation + 1 ELSE generation)
         ELSE SessionDecided(o, r, Outcome(o, r).record)
<1>0. SecretsSound /\ generation \in Nat /\ sids \in Nat /\ InStore(StoreOf(o), r)
 BY InUseFacts DEF SecuritySound, SecurityTyped, StoreOf, SecurityStores
<1>1. CASE StoreOf(o) = "twofactor"
 <2>1. r \in FactorFiles /\ Generated(DOMAIN accepted, generation) /\ (r # NoRecord => Generated(r.codes, generation))
  BY <1>0, <1>1 DEF SecretsSound, FactorSound, InStore
 <2> QED BY <1>0, <1>1, <2>1, FactorOutcome
<1>2. CASE StoreOf(o) = "sessions"
 <2>1. r \in SessionFiles BY <1>0, <1>2 DEF InStore
 <2>2. Len(OrUntracked(r).entries) <= HistoryLimit
  <3>1. OrUntracked(r).entries = NewestOf(journal) /\ journal \in Seq(Nat)
   BY <1>0, <1>2 DEF SecretsSound, HistoryExact, NewestOf, AtMost
  <3> QED BY <3>1, NewestFacts, SecurityFacts
 <2> QED BY <1>0, <1>2, <2>1, <2>2, SessionOutcome
<1> QED BY <1>1, <1>2 DEF StoreOf

LEMMA AcquireSound ==
  ASSUME SecuritySound, NEW c \in SecurityClients, Acquire(c)
  PROVE  SecuritySound'
<1>0. /\ SecurityTyped /\ SecurityTypeOK /\ (\A d \in SecurityClients : PhaseSound(d))
      /\ (~overtaken => SecretsSound) /\ (NoClient \notin SecurityClients)
 BY SecurityFacts DEF SecuritySound
<1> DEFINE o == Ops(c)
            s == StoreOf(o)
            r == Loaded(s)
            out == Outcome(o, r)
<1>1. /\ secCall[c].todo # <<>> /\ secCall[c].phase = "idle" /\ o.op \notin ReadOps /\ secLock[s] = NoClient
      /\ secCache' = (IF o.op = "confirm" THEN secCache ELSE [secCache EXCEPT ![s] = r])
      /\ generation' = (IF out.saves /\ o.op \in {"confirm", "regenerate"} THEN generation + 1 ELSE generation)
      /\ sids' = (IF out.saves /\ (o.op = "issue" \/ (o.op = "revoke" /\ out.record.single)) THEN sids + 1 ELSE sids)
      /\ UNCHANGED <<secFile, counter, enrollments, accepted, journal, owed, overtaken, cookies, orphaned>>
 BY DEF Acquire, Ops, secGhosts
<1>2. /\ out.saves => /\ secCall' = [secCall EXCEPT ![c].phase = "decided", ![c].work = out.record]
                      /\ secLock' = [secLock EXCEPT ![s] = c]
      /\ ~out.saves => Continue(c, out.record, out.ok) /\ UNCHANGED secLock
 BY DEF Acquire, Ops
<1>3. o \in SecurityOps /\ s \in SecurityStores BY <1>0, <1>1, OpAt
<1>4. InStore(s, r) /\ r # Unread BY <1>0, <1>3, SecurityFacts DEF SecurityTyped, Loaded, InStore
<1>5. out.ok \in BOOLEAN /\ out.saves \in BOOLEAN /\ InStore(s, out.record) BY <1>0, <1>1, <1>3, <1>4, OutcomeSound
<1>6. generation \in Nat /\ generation' \in Nat /\ generation <= generation' /\ sids' \in Nat /\ \A t \in enrollments : t.secret \in Nat
 BY <1>0, <1>1 DEF SecurityTyped
<1>7. ~BeingPublished(s) BY <1>0, <1>1 DEF BeingPublished
<1>8. r = InUse(s) BY <1>7 DEF InUse
<1>9. ~overtaken /\ out.saves =>
        IF s = "twofactor"
        THEN FactorDecided(o, r, out.record, DOMAIN accepted, generation')
        ELSE SessionDecided(o, r, out.record)
 BY <1>1, <1>3, <1>8, DecidesSound
<1>10. Refills BY <1>1, <1>3, <1>4 DEF Refills
<1>11. /\ DOMAIN secCache' = SecurityStores /\ secCache' = [t \in SecurityStores |-> secCache'[t]]
       /\ (o.op # "confirm" => secCache'[s] = r) /\ (\A t \in SecurityStores : secCache'[t] = secCache[t] \/ (t = s /\ secCache'[t] = r))
 BY <1>0, <1>1, <1>3 DEF SecurityTyped
<1>12. CASE ~out.saves
 <2>1. PICK call \in SecurityCalls : call.phase = "idle" /\ secCall' = [secCall EXCEPT ![c] = call]
  BY <1>0, <1>1, <1>2, <1>5, <1>12, ContinueSound
 <2>2. overtaken \in BOOLEAN BY <1>0 DEF SecurityTyped
 <2> HIDE DEF o, s, r, out
 <2> QED BY <1>1, <1>2, <1>6, <1>10, <1>12, <2>1, <2>2, OutsideSound
<1>13. CASE out.saves
 <2> DEFINE call == [secCall[c] EXCEPT !.phase = "decided", !.work = out.record]
 <2>1. call \in SecurityCalls /\ call.phase = "decided" /\ call.todo = secCall[c].todo /\ call.work = out.record
  <3>1. secCall[c] \in SecurityCalls /\ out.record \in FactorFiles \cup SessionFiles BY <1>0, <1>5 DEF SecurityTyped, InStore
  <3> HIDE DEF out
  <3> QED BY <3>1 DEF SecurityCalls
 <2>2. secCall' = [secCall EXCEPT ![c] = call] BY <1>0, <1>2, <1>13 DEF SecurityTyped
 <2> HIDE DEF call
 <2>3. secCall'[c] = call /\ \A d \in SecurityClients : d # c => secCall'[d] = secCall[d] BY <1>0, <2>2 DEF SecurityTyped
 <2>4. secLock' = [secLock EXCEPT ![s] = c] BY <1>2, <1>13
 <2>5. secLock'[s] = c /\ \A t \in SecurityStores : t # s => secLock'[t] = secLock[t] BY <1>0, <1>3, <2>4 DEF SecurityTyped
 <2>6. Head(secCall'[c].todo) = o /\ s = StoreOf(o) BY <2>1, <2>3 DEF Ops
 <2> HIDE DEF o, s, r, out
 <2>7. SecurityTyped'
  <3>1. \A t \in SecurityStores : InStore(t, secFile'[t]) /\ (secCache'[t] = Unread \/ InStore(t, secCache'[t]))
   BY <1>0, <1>1, <1>4, <1>11 DEF SecurityTyped
  <3> QED BY <1>0, <1>1, <1>3, <1>6, <1>11, <2>1, <2>2, <2>4, <3>1 DEF SecurityTyped, InStore
 <2>8. ASSUME NEW t \in SecurityStores, NEW d \in SecurityClients
       PROVE  secLock'[t] = d <=> /\ secCall'[d].phase \in {"decided", "saved"} /\ StoreOf(Head(secCall'[d].todo)) = t
  <3>1. secLock[t] = d <=> /\ secCall[d].phase \in {"decided", "saved"} /\ StoreOf(Head(secCall[d].todo)) = t
   BY <1>0 DEF SecurityTypeOK
  <3>2. CASE d = c BY <1>1, <2>1, <2>3, <2>5, <2>6, <3>1, <3>2
  <3>3. CASE d # c BY <1>0, <1>1, <2>3, <2>5, <3>1, <3>3
  <3> QED BY <3>2, <3>3
 <2>9. ASSUME NEW t \in SecurityStores
       PROVE  (BeingPublished(t)' <=> BeingPublished(t)) /\ Loaded(t)' = Loaded(t) /\ InUse(t)' = InUse(t)
  <3>1. Loaded(t)' = Loaded(t) BY <1>1, <1>4, <1>11 DEF Loaded, r
  <3>2. CASE t = s BY <1>7, <2>1, <2>3, <2>5, <3>1, <3>2 DEF BeingPublished, InUse
  <3>3. CASE t # s
   <4>1. secLock[t] # c BY <1>0, <1>1 DEF SecurityTypeOK
   <4> QED BY <2>3, <2>5, <3>1, <3>3, <4>1 DEF BeingPublished, InUse
  <3> QED BY <3>2, <3>3
 <2>10. SecurityTypeOK'
  <3>1. \A t \in SecurityStores : overtaken' \/ BeingPublished(t)' \/ t \in orphaned' \/ secCache'[t] \in {Unread, secFile'[t]}
   BY <1>0, <1>1, <1>11, <2>9 DEF SecurityTypeOK, Loaded, r
  <3> QED BY <2>8, <3>1 DEF SecurityTypeOK
 <2>11. ASSUME NEW d \in SecurityClients PROVE PhaseSound(d)'
  <3>1. CASE d = c BY <1>1, <1>4, <1>5, <1>11, <2>1, <2>3, <2>6, <3>1 DEF PhaseSound, Ops, InStore
  <3>2. CASE d # c
   <4>1. SUFFICES ASSUME secCall[d].phase # "idle" PROVE PhaseSound(d)' BY <2>3, <3>2 DEF PhaseSound
   <4>2. PhaseSound(d) /\ (secCache[StoreOf(Ops(d))] # Unread => secCache'[StoreOf(Ops(d))] # Unread)
    BY <1>0, <1>4, <1>11, <4>1, OpAt DEF PhaseSound
   <4> QED BY <1>1, <2>3, <3>2, <4>1, <4>2 DEF PhaseSound, Ops, InStore
  <3> QED BY <3>1, <3>2
 <2>12. ASSUME ~overtaken' PROVE SecretsSound'
  <3>1. SecretsSound /\ ~overtaken BY <1>0, <1>1, <2>12
  <3>2. Decided(c)'
   <4>1. PICK t \in SecurityStores : t = s BY <1>3
   <4>2. Ops(c)' = o /\ StoreOf(o) = t /\ secCall'[c].work = out.record /\ accepted' = accepted /\ InUse(t)' = r
    BY <1>1, <1>8, <2>1, <2>3, <2>6, <2>9, <4>1 DEF Ops
   <4> QED BY <1>9, <1>13, <3>1, <4>1, <4>2 DEF Decided
  <3> QED BY <1>0, <1>1, <1>6, <2>3, <2>9, <3>1, <3>2, SecretsStay
 <2> QED BY <2>7, <2>10, <2>11, <2>12 DEF SecuritySound
<1> QED BY <1>5, <1>12, <1>13

\* The request in the mutex of its store leaves it.
LEMMA ReleaseSound ==
  ASSUME SecuritySound, NEW c \in SecurityClients, NEW call \in SecurityCalls, call.phase = "idle",
         NEW s, s = StoreOf(Ops(c)), secCall[c].phase \in {"decided", "saved"},
         secCall' = [secCall EXCEPT ![c] = call], secLock' = [secLock EXCEPT ![s] = NoClient],
         \/ secCache' = [secCache EXCEPT ![s] = secCall[c].work] /\ secCall[c].phase = "saved"
         \/ secCache' = secCache /\ secCall[c].phase = "decided",
         cookies' \subseteq cookies \cup {sids},
         UNCHANGED <<secFile, counter, generation, sids, enrollments, accepted, journal, owed, overtaken, orphaned>>
  PROVE  SecuritySound'
<1>0. /\ SecurityTyped /\ SecurityTypeOK /\ (\A d \in SecurityClients : PhaseSound(d))
      /\ (~overtaken => SecretsSound) /\ (NoClient \notin SecurityClients)
 BY SecurityFacts DEF SecuritySound
<1>1. s \in SecurityStores /\ secLock[s] = c /\ Head(secCall[c].todo) = Ops(c) /\ InStore(s, secCall[c].work)
 <2>1. secCall[c].todo # <<>> BY <1>0 DEF PhaseSound
 <2>2. s \in SecurityStores BY <1>0, <2>1, OpAt
 <2> QED BY <1>0, <2>2 DEF SecurityTypeOK, Ops, PhaseSound
<1>2. secCall'[c] = call /\ \A d \in SecurityClients : d # c => secCall'[d] = secCall[d] BY <1>0 DEF SecurityTyped
<1>3. secLock'[s] = NoClient /\ \A t \in SecurityStores : t # s => secLock'[t] = secLock[t] BY <1>0, <1>1 DEF SecurityTyped
<1>4. /\ DOMAIN secCache' = SecurityStores /\ secCache' = [t \in SecurityStores |-> secCache'[t]]
      /\ (\A t \in SecurityStores : t # s => secCache'[t] = secCache[t])
      /\ (\A t \in SecurityStores : secCache'[t] = Unread \/ InStore(t, secCache'[t]))
      /\ \/ secCache'[s] = secCall[c].work /\ secCall[c].phase = "saved" /\ secCache'[s] # Unread
         \/ secCache'[s] = secCache[s] /\ secCall[c].phase = "decided"
 BY <1>0, <1>1, SecurityFacts DEF SecurityTyped, InStore
<1>5. SecurityTyped' BY <1>0, <1>4 DEF SecurityTyped, InStore
<1>6. ASSUME NEW t \in SecurityStores, NEW d \in SecurityClients
      PROVE  secLock'[t] = d <=> /\ secCall'[d].phase \in {"decided", "saved"} /\ StoreOf(Head(secCall'[d].todo)) = t
 <2>1. secLock[t] = d <=> /\ secCall[d].phase \in {"decided", "saved"} /\ StoreOf(Head(secCall[d].todo)) = t
  BY <1>0 DEF SecurityTypeOK
 <2>2. CASE d = c BY <1>0, <1>1, <1>2, <1>3, <2>1, <2>2
 <2>3. CASE d # c BY <1>0, <1>1, <1>2, <1>3, <2>1, <2>3
 <2> QED BY <2>2, <2>3
<1>7. ASSUME NEW t \in SecurityStores
      PROVE  /\ InUse(t)' = InUse(t)
             /\ overtaken \/ BeingPublished(t)' \/ t \in orphaned \/ secCache'[t] \in {Unread, secFile[t]}
 <2>1. CASE t # s
  <3>1. secLock[t] # c BY <1>0, <1>1, <2>1 DEF SecurityTypeOK, Ops
  <3>2. InUse(t)' = InUse(t) /\ (BeingPublished(t)' <=> BeingPublished(t)) BY <1>2, <1>3, <1>4, <2>1, <3>1, InUseStays
  <3> QED BY <1>0, <1>4, <2>1, <3>2 DEF SecurityTypeOK
 <2>2. CASE t = s
  <3>1. ~BeingPublished(t)' /\ (BeingPublished(t) <=> secCall[c].phase = "saved") BY <1>0, <1>1, <1>3, <2>2 DEF BeingPublished
  <3> QED BY <1>0, <1>1, <1>4, <2>2, <3>1 DEF InUse, Loaded, SecurityTypeOK, PhaseSound
 <2> QED BY <2>1, <2>2
<1>8. SecurityTypeOK' BY <1>6, <1>7 DEF SecurityTypeOK
<1>9. ASSUME NEW d \in SecurityClients PROVE PhaseSound(d)'
 <2>1. CASE d = c BY <1>2, <2>1 DEF PhaseSound
 <2>2. CASE d # c
  <3>1. SUFFICES ASSUME secCall[d].phase # "idle" PROVE PhaseSound(d)' BY <1>2, <2>2 DEF PhaseSound
  <3>2. PhaseSound(d) /\ (secCache[StoreOf(Ops(d))] # Unread => secCache'[StoreOf(Ops(d))] # Unread)
   BY <1>0, <1>4, <3>1, OpAt DEF PhaseSound
  <3> QED BY <1>2, <2>2, <3>1, <3>2 DEF PhaseSound, Ops, InStore
 <2> QED BY <2>1, <2>2
<1>10. ASSUME ~overtaken' PROVE SecretsSound'
 <2>1. SecretsSound /\ ~overtaken /\ generation \in Nat BY <1>0, <1>10 DEF SecurityTyped
 <2>2. Decided(c)' BY <1>2 DEF Decided
 <2> QED BY <1>0, <1>2, <1>7, <2>1, <2>2, SecretsStay
<1> QED BY <1>5, <1>8, <1>9, <1>10 DEF SecuritySound

LEMMA SaveFailsSound ==
  ASSUME SecuritySound, NEW c \in SecurityClients, SaveFails(c)
  PROVE  SecuritySound'
<1>0. SecurityTyped /\ PhaseSound(c) BY DEF SecuritySound
<1>1. /\ secCall[c].phase = "decided" /\ Continue(c, secCall[c].work, FALSE)
      /\ secLock' = [secLock EXCEPT ![StoreOf(Ops(c))] = NoClient]
      /\ UNCHANGED <<secFile, secCache, counter, generation, sids, enrollments, accepted, journal, owed, overtaken,
                    cookies, orphaned>>
 BY DEF SaveFails, Ops, secTokens, secGhosts
<1>2. PICK call \in SecurityCalls : call.phase = "idle" /\ secCall' = [secCall EXCEPT ![c] = call]
 BY <1>0, <1>1, ContinueSound DEF PhaseSound
<1> QED BY <1>1, <1>2, ReleaseSound

LEMMA PublishSound ==
  ASSUME SecuritySound, NEW c \in SecurityClients, Publish(c)
  PROVE  SecuritySound'
<1>0. SecurityTyped /\ PhaseSound(c) BY DEF SecuritySound
<1>1. /\ secCall[c].phase = "saved" /\ Continue(c, secCall[c].work, TRUE)
      /\ secLock' = [secLock EXCEPT ![StoreOf(Ops(c))] = NoClient]
      /\ secCache' = [secCache EXCEPT ![StoreOf(Ops(c))] = secCall[c].work]
      /\ cookies' \subseteq cookies \cup {sids}
      /\ UNCHANGED <<secFile, counter, generation, sids, enrollments, accepted, journal, owed, overtaken, orphaned>>
 BY DEF Publish, Ops, secTokens, secGhosts
<1>2. PICK call \in SecurityCalls : call.phase = "idle" /\ secCall' = [secCall EXCEPT ![c] = call]
 BY <1>0, <1>1, ContinueSound DEF PhaseSound
<1> QED BY <1>1, <1>2, ReleaseSound

----
\* What a save makes of the records.

LEMMA VerifySpends ==
  ASSUME SecurityTyped, ~overtaken, FactorSound, InUse("twofactor") \in FactorFiles, NEW o \in SecurityOps, o.op = "verify", NEW w \in FactorFiles,
         FactorDecided(o, InUse("twofactor"), w, DOMAIN accepted, generation),
         accepted' = [code \in DOMAIN accepted \cup {o.code} |->
                        (IF code \in DOMAIN accepted THEN accepted[code] ELSE 0) + (IF code = o.code THEN 1 ELSE 0)],
         InUse("twofactor")' = w, generation' = generation
  PROVE  FactorSound'
<1> DEFINE f == InUse("twofactor")
            spent == DOMAIN accepted
<1>0. /\ f \in FactorFiles /\ generation \in Nat /\ o.code \in Codes /\ spent \subseteq Codes
      /\ accepted \in [spent -> Nat]
 BY OpFacts DEF SecurityTyped
<1>1. /\ f # NoRecord /\ w # NoRecord /\ w.secret = f.secret /\ Generated(w.codes, generation)
      /\ \/ /\ o.code \in TotpCodes /\ o.code[2] = f.secret /\ f.last < o.code[3]
            /\ w.last = o.code[3] /\ w.codes = f.codes
         \/ o.code \in f.codes /\ w.last = f.last /\ w.codes = f.codes \ {o.code}
 BY DEF FactorDecided
<1>2. /\ f.last \in Nat /\ f.codes \subseteq RecoveryCodes /\ f.secret \in Nat
      /\ w.last \in Nat /\ w.codes \subseteq RecoveryCodes
 BY <1>0, <1>1 DEF FactorFiles, FactorRecords
<1>3. /\ Generated(spent, generation) /\ Generated(f.codes, generation)
      /\ \A code \in spent : /\ code \notin f.codes
                             /\ (code \in TotpCodes /\ code[2] = f.secret => code[3] <= f.last)
 BY <1>1 DEF FactorSound, Spent
<1>4. \A code \in spent : accepted[code] = 1 BY DEF FactorSound, CodesSpentOnce
<1>5. \A code \in Codes : code[3] \in Nat /\ (code \in TotpCodes <=> code \notin RecoveryCodes) BY CodeFacts
<1>6. o.code \notin spent
 <2>1. CASE o.code \in TotpCodes /\ o.code[2] = f.secret /\ f.last < o.code[3] BY <1>0, <1>2, <1>3, <1>5, <2>1
 <2>2. CASE o.code \in f.codes BY <1>3, <2>2
 <2> QED BY <1>1, <2>1, <2>2
<1>7. DOMAIN accepted' = spent \cup {o.code} OBVIOUS
<1>8. \A code \in spent \cup {o.code} : accepted'[code] = 1 BY <1>4, <1>6
<1> HIDE DEF f, spent
<1>9. Generated(spent \cup {o.code}, generation)
 <2>1. CASE o.code \in TotpCodes BY <1>0, <1>3, <1>5, <2>1 DEF Generated
 <2>2. CASE o.code \in f.codes BY <1>3, <2>2 DEF Generated
 <2> QED BY <1>1, <2>1, <2>2
<1>10. ASSUME NEW code \in spent \cup {o.code}
       PROVE  code \notin w.codes /\ (code \in TotpCodes /\ code[2] = w.secret => code[3] <= w.last)
 <2>0. code \in Codes /\ code[3] \in Nat BY <1>0, <1>5
 <2>1. CASE /\ o.code \in TotpCodes /\ o.code[2] = f.secret /\ f.last < o.code[3]
            /\ w.last = o.code[3] /\ w.codes = f.codes
  <3>1. CASE code = o.code BY <1>0, <1>2, <1>5, <2>0, <2>1, <3>1
  <3>2. CASE code \in spent BY <1>1, <1>2, <1>3, <2>0, <2>1, <3>2
  <3> QED BY <3>1, <3>2
 <2>2. CASE o.code \in f.codes /\ w.last = f.last /\ w.codes = f.codes \ {o.code}
  <3>1. CASE code = o.code BY <1>0, <1>2, <1>5, <2>0, <2>2, <3>1
  <3>2. CASE code \in spent BY <1>1, <1>2, <1>3, <2>0, <2>2, <3>2
  <3> QED BY <3>1, <3>2
 <2> QED BY <1>1, <2>1, <2>2
<1>11. Spent(w, spent \cup {o.code}) BY <1>10 DEF Spent
<1> QED BY <1>1, <1>7, <1>8, <1>9, <1>11 DEF FactorSound, CodesSpentOnce

LEMMA FactorSaved ==
  ASSUME SecurityTyped, ~overtaken, FactorSound, InUse("twofactor") \in FactorFiles, NEW o \in SecurityOps, o.op \notin ReadOps, StoreOf(o) = "twofactor",
         NEW w \in FactorFiles, FactorDecided(o, InUse("twofactor"), w, DOMAIN accepted, generation),
         accepted' = IF o.op \in {"confirm", "disable"} THEN [code \in {} |-> 0]
                     ELSE IF o.op = "verify"
                            THEN [code \in DOMAIN accepted \cup {o.code} |->
                                    (IF code \in DOMAIN accepted THEN accepted[code] ELSE 0)
                                      + (IF code = o.code THEN 1 ELSE 0)]
                     ELSE accepted,
         InUse("twofactor")' = w, generation' = generation
  PROVE  FactorSound'
<1>0. o.op \in {"confirm", "verify", "disable", "regenerate"} BY OpFacts DEF StoreOf, TwoFactorOps, ReadOps
<1>1. w # NoRecord => Generated(w.codes, generation) BY DEF FactorDecided
<1>2. CASE o.op \in {"confirm", "disable"}
 <2>1. DOMAIN accepted' = {} BY <1>2
 <2> QED BY <1>1, <2>1 DEF FactorSound, CodesSpentOnce, Generated, Spent
<1>3. CASE o.op = "verify" BY <1>3, VerifySpends
<1>4. CASE o.op = "regenerate"
 <2>1. accepted' = accepted BY <1>4
 <2>2. /\ InUse("twofactor") # NoRecord /\ w.secret = InUse("twofactor").secret
       /\ w.last = InUse("twofactor").last /\ w.codes \cap DOMAIN accepted = {}
  BY <1>4 DEF FactorDecided
 <2>3. Spent(w, DOMAIN accepted) BY <2>2 DEF FactorSound, Spent
 <2> QED BY <1>1, <2>1, <2>3 DEF FactorSound, CodesSpentOnce
<1> QED BY <1>0, <1>2, <1>3, <1>4

LEMMA SessionSaved ==
  ASSUME SecurityTyped, ~overtaken, journal \in Seq(Nat), HistoryExact, AlertKept, InUse("sessions") \in SessionFiles,
         NEW o \in SecurityOps, o.op \notin ReadOps, StoreOf(o) = "sessions",
         NEW w \in SessionFiles, SessionDecided(o, InUse("sessions"), w),
         journal' = IF o.op = "issue" /\ w.history THEN <<w.entries[1]>> \o journal ELSE journal,
         owed' = IF o.op = "ack" THEN FALSE ELSE owed \/ (o.op = "issue" /\ w.alertOn /\ o.recovery),
         InUse("sessions")' = w
  PROVE  journal' \in Seq(Nat) /\ HistoryExact' /\ AlertKept'
<1> DEFINE p == OrUntracked(InUse("sessions"))
            q == OrUntracked(w)
<1>0. p \in SessionRecords /\ q \in SessionRecords BY SecurityFacts
<1>1. p.entries = NewestOf(journal) /\ p.alert = owed BY DEF HistoryExact, AlertKept, NewestOf, AtMost
<1>2. CASE o.op = "issue"
 <2>1. /\ w # NoRecord /\ q.history = p.history /\ q.alertOn = p.alertOn
       /\ q.alert = (p.alert \/ (p.alertOn /\ o.recovery))
       /\ IF q.history THEN q.entries # <<>> /\ q.entries = NewestOf(<<q.entries[1]>> \o p.entries)
          ELSE q.entries = p.entries
  BY <1>2 DEF SessionDecided
 <2>2. q = w /\ w.entries \in Seq(Nat) BY <1>0, <2>1 DEF OrUntracked, SessionRecords
 <2> HIDE DEF p, q
 <2>3. owed' = q.alert BY <1>1, <1>2, <2>1, <2>2
 <2>4. journal' \in Seq(Nat) /\ q.entries = NewestOf(journal')
  <3>1. CASE w.history
   <4> DEFINE n == w.entries[1]
   <4>1. n \in Nat BY <2>1, <2>2, <3>1, EmptySeq, ElementOfSeq
   <4>2. journal' = <<n>> \o journal BY <1>2, <3>1
   <4>3. w.entries = NewestOf(<<n>> \o NewestOf(journal)) BY <1>1, <2>1, <2>2, <3>1
   <4> HIDE DEF n
   <4>4. <<n>> \o journal \in Seq(Nat) BY <4>1, InFront
   <4>5. NewestOf(<<n>> \o NewestOf(journal)) = NewestOf(<<n>> \o journal) BY <4>1, NewestInFront
   <4> QED BY <2>2, <4>2, <4>3, <4>4, <4>5
  <3>2. CASE ~w.history BY <1>1, <1>2, <2>1, <2>2, <3>2
  <3> QED BY <3>1, <3>2
 <2> QED BY <2>3, <2>4 DEF HistoryExact, AlertKept, NewestOf, AtMost, q
<1>3. CASE o.op # "issue"
 <2>1. q.entries = p.entries /\ q.alert = IF o.op = "ack" THEN FALSE ELSE p.alert BY <1>3 DEF SessionDecided
 <2>2. journal' = journal /\ owed' = IF o.op = "ack" THEN FALSE ELSE owed BY <1>1, <1>3 DEF SecurityTyped
 <2> QED BY <1>1, <2>1, <2>2 DEF HistoryExact, AlertKept, NewestOf, AtMost
<1> QED BY <1>2, <1>3

LEMMA SaveSound ==
  ASSUME SecuritySound, NEW c \in SecurityClients, Save(c)
  PROVE  SecuritySound'
<1>0. /\ SecurityTyped /\ SecurityTypeOK /\ (\A d \in SecurityClients : PhaseSound(d)) /\ (~overtaken => SecretsSound)
 BY DEF SecuritySound
<1> DEFINE o == Ops(c)
            s == StoreOf(o)
            w == secCall[c].work
<1>1. /\ secCall[c].phase = "decided" /\ secFile' = [secFile EXCEPT ![s] = w]
      /\ accepted' = (IF o.op \in {"confirm", "disable"} THEN [code \in {} |-> 0]
                      ELSE IF o.op = "verify"
                             THEN [code \in DOMAIN accepted \cup {o.code} |->
                                     (IF code \in DOMAIN accepted THEN accepted[code] ELSE 0)
                                       + (IF code = o.code THEN 1 ELSE 0)]
                      ELSE accepted)
      /\ journal' = (IF o.op = "issue" /\ w.history THEN <<w.entries[1]>> \o journal ELSE journal)
      /\ owed' = (IF o.op = "ack" THEN FALSE ELSE owed \/ (o.op = "issue" /\ w.alertOn /\ o.recovery))
      /\ secCall' = [secCall EXCEPT ![c].phase = "saved"]
      /\ orphaned' = orphaned \ {s}
      /\ UNCHANGED <<secCache, secLock, counter, generation, sids, enrollments, overtaken, cookies>>
 BY DEF Save, Ops, secTokens
<1>2. /\ secCall[c].todo # <<>> /\ o \in SecurityOps /\ s \in SecurityStores /\ InStore(s, w) /\ o.op \notin ReadOps
 BY <1>0, <1>1, OpAt DEF PhaseSound
<1>3. /\ secCall[c] \in SecurityCalls /\ secLock[s] = c BY <1>0, <1>1, <1>2 DEF SecurityTyped, SecurityTypeOK, Ops
<1> DEFINE call == [secCall[c] EXCEPT !.phase = "saved"]
<1>4. call \in SecurityCalls /\ call.phase = "saved" /\ call.todo = secCall[c].todo /\ call.work = w BY <1>3 DEF SecurityCalls
<1>5. secCall' = [secCall EXCEPT ![c] = call] BY <1>0, <1>1 DEF SecurityTyped
<1> HIDE DEF call
<1>6. secCall'[c] = call /\ \A d \in SecurityClients : d # c => secCall'[d] = secCall[d] BY <1>0, <1>5 DEF SecurityTyped
<1>7. secFile'[s] = w /\ \A t \in SecurityStores : t # s => secFile'[t] = secFile[t] BY <1>0, <1>1, <1>2 DEF SecurityTyped
<1>8. Head(secCall'[c].todo) = o /\ s = StoreOf(o) /\ Ops(c)' = o BY <1>4, <1>6 DEF Ops
<1>9. ASSUME NEW d \in SecurityClients, d # c, secCall[d].phase \in {"decided", "saved"}
      PROVE  StoreOf(Ops(d)) # s
 BY <1>0, <1>2, <1>3, <1>9 DEF SecurityTypeOK, Ops
<1>10. SecurityTyped'
 <2>1. o.op = "verify" => o.code \in Codes BY <1>2, OpFacts
 <2>2. /\ owed' \in BOOLEAN BY <1>0, <1>1 DEF SecurityTyped
 <2>3. accepted' \in [DOMAIN accepted' -> Nat] /\ DOMAIN accepted' \subseteq Codes
  <3>0. accepted \in [DOMAIN accepted -> Nat] /\ DOMAIN accepted \subseteq Codes BY <1>0 DEF SecurityTyped
  <3>1. CASE o.op \in {"confirm", "disable"} BY <1>1, <3>1
  <3>2. CASE o.op = "verify"
   <4> DEFINE spends == [code \in DOMAIN accepted \cup {o.code} |->
                            (IF code \in DOMAIN accepted THEN accepted[code] ELSE 0)
                              + (IF code = o.code THEN 1 ELSE 0)]
   <4>1. accepted' = spends BY <1>1, <3>2
   <4>2. spends \in [DOMAIN accepted \cup {o.code} -> Nat] BY <3>0
   <4> QED BY <2>1, <3>0, <3>2, <4>1, <4>2
  <3>3. CASE o.op \notin {"confirm", "disable", "verify"} BY <1>1, <3>0, <3>3
  <3> QED BY <3>1, <3>2, <3>3
 <2> HIDE DEF o, s, w
 <2>4. /\ DOMAIN secFile' = SecurityStores /\ secFile' = [t \in SecurityStores |-> secFile'[t]]
       /\ (\A t \in SecurityStores : InStore(t, secFile'[t]))
       /\ orphaned' \subseteq SecurityStores /\ \A t \in orphaned' : secFile'[t] = NoRecord
  BY <1>0, <1>1, <1>2, <1>7 DEF SecurityTyped
 <2>5. secCall' \in [SecurityClients -> SecurityCalls] /\ \A t \in SecurityStores : secCache'[t] = Unread \/ InStore(t, secCache'[t])
  BY <1>0, <1>1, <1>4, <1>5 DEF SecurityTyped
 <2> QED BY <1>0, <1>1, <2>2, <2>3, <2>4, <2>5 DEF SecurityTyped
<1> HIDE DEF o, s, w
<1>11. ASSUME NEW t \in SecurityStores, NEW d \in SecurityClients
       PROVE  secLock'[t] = d <=> /\ secCall'[d].phase \in {"decided", "saved"} /\ StoreOf(Head(secCall'[d].todo)) = t
 <2>1. secLock[t] = d <=> /\ secCall[d].phase \in {"decided", "saved"} /\ StoreOf(Head(secCall[d].todo)) = t
  BY <1>0 DEF SecurityTypeOK
 <2>2. CASE d = c BY <1>1, <1>4, <1>6, <2>1, <2>2
 <2>3. CASE d # c BY <1>1, <1>6, <2>1, <2>3
 <2> QED BY <2>2, <2>3
<1>12. ASSUME NEW t \in SecurityStores
       PROVE  /\ InUse(t)' = IF t = s THEN w ELSE InUse(t)
              /\ overtaken \/ BeingPublished(t)' \/ t \in orphaned' \/ secCache'[t] \in {Unread, secFile'[t]}
 <2>1. CASE t = s
  <3>1. secLock'[t] = c /\ secCall'[c].phase = "saved" /\ secCall'[c].work = w BY <1>1, <1>3, <1>4, <1>6, <2>1
  <3> QED BY <2>1, <3>1 DEF BeingPublished, InUse
 <2>2. CASE t # s
  <3>1. secLock[t] # c BY <1>0, <2>2 DEF SecurityTypeOK, Ops, s, o
  <3>2. InUse(t)' = InUse(t) /\ (BeingPublished(t)' <=> BeingPublished(t)) BY <1>1, <1>6, <1>7, <2>2, <3>1, InUseStays
  <3> QED BY <1>0, <1>1, <1>7, <2>2, <3>2 DEF SecurityTypeOK
 <2> QED BY <2>1, <2>2
<1>13. SecurityTypeOK' BY <1>1, <1>11, <1>12 DEF SecurityTypeOK
<1>14. ASSUME NEW d \in SecurityClients PROVE PhaseSound(d)'
 <2>1. CASE d = c
  <3>1. secCall'[d].todo # <<>> /\ secCall'[d].phase = "saved" /\ secCall'[d].work = w /\ Ops(d)' = o
   BY <1>2, <1>4, <1>6, <1>8, <2>1
  <3> QED BY <1>2, <1>7, <1>8, <3>1 DEF PhaseSound, InStore
 <2>2. CASE d # c
  <3>1. SUFFICES ASSUME secCall[d].phase # "idle" PROVE PhaseSound(d)' BY <1>6, <2>2 DEF PhaseSound
  <3>2. PhaseSound(d) /\ StoreOf(Ops(d)) \in SecurityStores /\ secCache' = secCache BY <1>0, <1>1, <3>1, OpAt DEF PhaseSound
  <3>3. Ops(d)' = Ops(d) /\ secCall'[d] = secCall[d] BY <1>6, <2>2 DEF Ops
  <3>4. secCall[d].phase = "saved" => /\ secFile'[StoreOf(Ops(d))] = secFile[StoreOf(Ops(d))]
                                      /\ StoreOf(Ops(d)) \in orphaned' <=> StoreOf(Ops(d)) \in orphaned
   BY <1>1, <1>7, <1>9, <2>2, <3>2
  <3> QED BY <3>1, <3>2, <3>3, <3>4 DEF PhaseSound, InStore
 <2> QED BY <2>1, <2>2
<1>15. ASSUME ~overtaken' PROVE SecretsSound'
 <2>1. SecretsSound /\ ~overtaken /\ generation' = generation BY <1>0, <1>1, <1>15
 <2>2. Decided(c) BY <2>1 DEF SecretsSound
 <2>3. ASSUME NEW d \in SecurityClients PROVE Decided(d)'
  <3>1. SUFFICES ASSUME d # c, secCall[d].phase = "decided"
                 PROVE  Decided(d)'
   BY <1>4, <1>6 DEF Decided
  <3>2. Decided(d) /\ StoreOf(Ops(d)) # s /\ StoreOf(Ops(d)) \in SecurityStores
   BY <1>0, <1>9, <2>1, <3>1, OpAt DEF SecretsSound, PhaseSound
  <3>3. Ops(d)' = Ops(d) /\ secCall'[d] = secCall[d] BY <1>6, <3>1 DEF Ops
  <3>3a. InUse(StoreOf(Ops(d)))' = InUse(StoreOf(Ops(d))) BY <1>12, <3>2, <3>3
  <3>4. StoreOf(Ops(d)) = "twofactor" => accepted' = accepted
   <4>1. s = "sessions" \/ StoreOf(Ops(d)) # "twofactor" BY <1>2, <3>2 DEF SecurityStores
   <4>2. s = "sessions" => o.op \notin {"confirm", "disable", "verify"} BY <1>8 DEF StoreOf, TwoFactorOps
   <4> QED BY <1>1, <4>1, <4>2
  <3> QED BY <2>1, <3>1, <3>2, <3>3, <3>3a, <3>4 DEF Decided
 <2>4. CASE s = "twofactor"
  <3>1. w \in FactorFiles /\ StoreOf(o) = "twofactor" /\ InUse("twofactor")' = w
        /\ InUse("twofactor") \in FactorFiles
   BY <1>2, <1>8, <1>12, <2>4, InUseFacts DEF InStore
  <3>2. FactorDecided(o, InUse("twofactor"), w, DOMAIN accepted, generation) BY <1>1, <2>2, <2>4 DEF Decided, o, s, w
  <3>3. FactorSound' BY <1>0, <1>1, <1>2, <2>1, <3>1, <3>2, FactorSaved DEF SecretsSound
  <3>4. o.op \notin {"issue", "ack"} /\ InUse("sessions")' = InUse("sessions")
   BY <1>12, <2>4, <3>1 DEF StoreOf, TwoFactorOps, SecurityStores
  <3>5. journal' = journal /\ owed' = owed BY <1>0, <1>1, <3>4 DEF SecurityTyped
  <3> QED BY <2>1, <2>3, <3>3, <3>4, <3>5 DEF SecretsSound, HistoryExact, AlertKept
 <2>5. CASE s = "sessions"
  <3>1. w \in SessionFiles /\ StoreOf(o) = "sessions" /\ InUse("sessions")' = w
        /\ InUse("sessions") \in SessionFiles
   BY <1>2, <1>8, <1>12, <2>5, InUseFacts DEF InStore
  <3>2. SessionDecided(o, InUse("sessions"), w) BY <1>1, <2>2, <2>5 DEF Decided, o, s, w
  <3>3. journal' \in Seq(Nat) /\ HistoryExact' /\ AlertKept' BY <1>0, <1>1, <1>2, <2>1, <3>1, <3>2, SessionSaved DEF SecretsSound
  <3>4. accepted' = accepted /\ InUse("twofactor")' = InUse("twofactor")
   BY <1>1, <1>12, <2>5, <3>1 DEF StoreOf, TwoFactorOps, SecurityStores
  <3>5. FactorSound' BY <2>1, <3>4 DEF SecretsSound, FactorSound, CodesSpentOnce
  <3> QED BY <2>3, <3>3, <3>5 DEF SecretsSound
 <2> QED BY <1>2, <2>4, <2>5 DEF SecurityStores
<1> QED BY <1>10, <1>13, <1>14, <1>15 DEF SecuritySound

LEMMA SecurityStepSound ==
  ASSUME SecuritySound, SecurityNext \/ UNCHANGED securityVars
  PROVE  SecuritySound'
<1>0. counter \in Nat \ {0} BY DEF SecuritySound, SecurityTyped
<1>1. CASE RemovalBegins \/ RemoveRow \/ InviteAgain \/ StepPasses \/ UNCHANGED securityVars
 BY <1>0, <1>1, SecurityRests DEF RemovalBegins, RemoveRow, InviteAgain, StepPasses, securityVars, secRequests, secTokens, secGhosts
<1>2. ASSUME NEW c \in SecurityClients, secCall[c].todo # <<>>, SecurityStep(c) PROVE SecuritySound'
 BY <1>2, ReadsSound, ReadFileSound, AcquireSound, SaveSound, SaveFailsSound, PublishSound DEF SecurityStep
<1> QED BY <1>1, <1>2, AccountRequestsSound, PurgeSound, AuthRestartSound DEF SecurityNext

----
\* The removal of the user.

LEMMA CleanFacts ==
  ASSUME SecuritySound, NEW s \in SecurityStores, Clean(s)
  PROVE  ~BeingPublished(s) /\ Loaded(s) = NoRecord
BY DEF SecuritySound, SecurityTypeOK, Clean, BeingPublished, Loaded, Ops

\* A request takes a step.
LEMMA RemovalStays ==
  ASSUME SecuritySound, RemovalSound, NEW c \in SecurityClients, UNCHANGED <<registered, removal, leftover>>,
         overtaken => overtaken', \A d \in SecurityClients : d # c => secCall'[d] = secCall[d],
         ~overtaken' => \A s \in SecurityStores :
           /\ PassedSound(s) => PassedSound(s)'
           /\ ~registered /\ s \notin leftover /\ Clean(s) =>
                /\ secFile'[s] = NoRecord /\ secCache'[s] \in {Unread, NoRecord}
                /\ secCall'[c].phase \in {"decided", "saved"} => StoreOf(Head(secCall'[c].todo)) # s,
         /\ ~overtaken' /\ ~registered /\ ~(SecurityStores \subseteq leftover) /\ Lingers(secCall[c].todo)
         /\ \A s \in SecurityStores : s \in leftover \/ Clean(s)
         => Lingers(secCall'[c].todo)
  PROVE  RemovalSound'
<1> SUFFICES ASSUME ~overtaken' PROVE RemovalSound' BY DEF RemovalSound
<1>1. /\ ~overtaken /\ \A s \in SecurityStores : PassedSound(s)
      /\ ~registered =>
           /\ \A s \in SecurityStores : s \in leftover \/ Clean(s)
           /\ SecurityStores \subseteq leftover \/ \A d \in SecurityClients : Lingers(secCall[d].todo)
 BY DEF RemovalSound
<1>2. \A s \in SecurityStores : PassedSound(s)' BY <1>1
<1>3. ASSUME ~registered, NEW s \in SecurityStores, s \notin leftover PROVE Clean(s)' BY <1>1, <1>3 DEF Clean, Ops
<1>4. ASSUME ~registered, ~(SecurityStores \subseteq leftover), NEW d \in SecurityClients PROVE Lingers(secCall[d].todo)'
 <2>1. Lingers(secCall'[d].todo) BY <1>1, <1>4
 <2> QED BY <2>1 DEF Lingers
<1> QED BY <1>2, <1>3, <1>4 DEF RemovalSound

\* What follows in the chain of a request of the removed user.
LEMMA LingersOn ==
  ASSUME SecuritySound, NEW c \in SecurityClients, secCall[c].todo # <<>>, Lingers(secCall[c].todo), ~registered,
         NEW r, NEW ok \in BOOLEAN, Continue(c, r, ok),
         Ops(c).op = "verify" /\ ok => "sessions" \notin leftover, Ops(c).op = "preferences" /\ ok => r = NoRecord
  PROVE  secCall'[c].phase = "idle" /\ Lingers(secCall'[c].todo) /\ \A d \in SecurityClients : d # c => secCall'[d] = secCall[d]
<1> DEFINE o == Ops(c)
            next == After(o, r, ok, Tail(secCall[c].todo))
<1>0. Tail(secCall[c].todo) = <<>> /\ Lingers(<<>>)
 <2>1. secCall[c].todo \in Seq(SecurityOps) /\ Len(secCall[c].todo) = 1
  BY DEF Lingers, SecuritySound, SecurityTyped, SecurityCalls
 <2>2. Tail(secCall[c].todo) \in Seq(SecurityOps) /\ Len(Tail(secCall[c].todo)) = 0 BY <2>1, HeadTailProperties
 <2> QED BY <2>2, EmptySeq DEF Lingers
<1>1. /\ o.op \in {"verify", "active", "revoke", "preferences"} /\ (o.op = "preferences" => o.for.why = "issue")
 BY DEF Lingers, Ops
<1>2. secCall'[c] = [todo |-> next, phase |-> "idle", work |-> NoRecord]
      /\ \A d \in SecurityClients : d # c => secCall'[d] = secCall[d]
 BY DEF Continue, Ops, SecuritySound, SecurityTyped
<1>3. Lingers(next)
 <2>1. CASE o.op = "verify"
  <3>1. ~ok => next = <<>> BY <2>1 DEF After
  <3>2. ASSUME ok PROVE Lingers(next)
   <4> DEFINE b == o.code[1] = "recovery"
   <4>1. next = <<IssueSession(b)>> /\ "sessions" \notin leftover BY <2>1, <3>2 DEF After
   <4> HIDE DEF b, next, o
   <4>2. IssueSession(b).op = "preferences" /\ IssueSession(b).for.why = "issue" BY DEF IssueSession, Preferences
   <4> QED BY <4>1, <4>2 DEF Lingers
  <3> QED BY <1>0, <3>1, <3>2
 <2>2. CASE o.op = "active"
  <3>1. next = <<>> \/ (next = <<o.then>> /\ o.then.op = "revoke") BY <2>2 DEF After, Admits
  <3> HIDE DEF next
  <3> QED BY <1>0, <3>1 DEF Lingers
 <2>3. CASE o.op = "revoke" BY <1>0, <2>3 DEF After
 <2>4. CASE o.op = "preferences"
  <3>1. ok => AfterPreferences(o.for, r) = <<>> BY <1>1, <2>4 DEF AfterPreferences, Tracks, OrUntracked, Untracked
  <3>2. next = <<>> BY <1>0, <1>1, <2>4, <3>1 DEF After
  <3> QED BY <1>0, <3>2
 <2> QED BY <1>1, <2>1, <2>2, <2>3, <2>4
<1> HIDE DEF next
<1> QED BY <1>2, <1>3

\* It holds no mutex.
LEMMA OutsideRemoval ==
  ASSUME SecuritySound, RemovalSound, NEW c \in SecurityClients, UNCHANGED <<secFile, secLock, registered, removal, leftover>>,
         secCall[c].phase \in {"idle", "read"}, secCall'[c].phase \in {"idle", "read"},
         \A d \in SecurityClients : d # c => secCall'[d] = secCall[d], overtaken => overtaken', Refills,
         /\ ~overtaken' /\ ~registered /\ ~(SecurityStores \subseteq leftover) /\ Lingers(secCall[c].todo)
         /\ \A s \in SecurityStores : s \in leftover \/ Clean(s)
         => Lingers(secCall'[c].todo)
  PROVE  RemovalSound'
<1>1. \A s \in SecurityStores :
        secCache'[s] = secCache[s] \/ overtaken' \/ BeingPublished(s) \/ secCache'[s] = Loaded(s)
 BY Refilled DEF SecuritySound
<1>2. ASSUME NEW s \in SecurityStores, ~overtaken', PassedSound(s) PROVE PassedSound(s)'
 <2>1. BeingPublished(s)' <=> BeingPublished(s) BY DEF BeingPublished
 <2> QED BY <1>1, <1>2, <2>1 DEF PassedSound, Passed, Loaded
<1>3. ASSUME NEW s \in SecurityStores, ~overtaken', Clean(s)
      PROVE  secFile'[s] = NoRecord /\ secCache'[s] \in {Unread, NoRecord}
 BY <1>1, <1>3, CleanFacts DEF Clean
<1> QED BY <1>2, <1>3, RemovalStays

LEMMA RequestRemoval ==
  ASSUME SecuritySound, RemovalSound, NEW c \in SecurityClients, SecurityRequest(c), secCall[c].todo = <<>>
  PROVE  RemovalSound'
<1>1. PICK o : Request(c, o) /\ (registered \/ o.op \in {"verify", "active"})
 <2>1. ASSUME NEW a, Authenticated(c, a) PROVE \E o : Request(c, o) /\ o.op = "active"
  <3>1. PICK sid \in cookies : Request(c, [op |-> "active", sid |-> sid, then |-> a]) BY <2>1 DEF Authenticated
  <3> QED BY <3>1
 <2>2. AnswerChallenge(c) => \E o : Request(c, o) /\ o.op = "verify" BY DEF AnswerChallenge
 <2>3. SignIn(c) => registered /\ \E o : Request(c, o) BY DEF SignIn
 <2> QED
  BY <2>1, <2>2, <2>3 DEF SecurityRequest, BeginEnrollment, Confirm, DisableTwoFactor, RegenerateCodes,
                          UpdateSecurityPreferences, SignOut, Acknowledge
<1> DEFINE one == <<o>>
<1>2. Len(one) = 1 /\ Head(one) = o OBVIOUS
<1> HIDE DEF one
<1>3. /\ secCall' = [secCall EXCEPT ![c].todo = one]
      /\ UNCHANGED <<secFile, secCache, secLock, overtaken, registered, removal, leftover>>
 BY <1>1 DEF Request, one, secRemoval
<1>4. secCall'[c].phase = secCall[c].phase /\ secCall'[c].todo = one /\ secCall[c].phase = "idle"
      /\ \A d \in SecurityClients : d # c => secCall'[d] = secCall[d]
 BY <1>3 DEF SecuritySound, SecurityTyped, SecurityCalls, PhaseSound
<1>5. registered \/ Lingers(one) BY <1>1, <1>2 DEF Lingers
<1> QED BY <1>3, <1>4, <1>5, OutsideRemoval DEF Refills

LEMMA ReadsRemoval ==
  ASSUME SecuritySound, RemovalSound, NEW c \in SecurityClients, secCall[c].todo # <<>>,
         ReadCached(c) \/ ReadFails(c) \/ LoadFails(c) \/ FillCache(c)
  PROVE  RemovalSound'
<1> DEFINE s == StoreOf(Ops(c))
<1>1. SecurityTyped /\ s \in SecurityStores BY OpAt DEF SecuritySound
<1>2. PICK r, ok : /\ ok \in BOOLEAN /\ Continue(c, r, ok) /\ Refills /\ UNCHANGED <<secFile, secLock, secRemoval>>
                   /\ secCall[c].phase \in {"idle", "read"} /\ (overtaken => overtaken')
                   /\ ok => Ops(c).op \in ReadOps /\ (overtaken' \/ BeingPublished(s) \/ r = Loaded(s))
 BY ReadsMove
<1>3. UNCHANGED <<registered, removal, leftover>> BY <1>2 DEF secRemoval
<1>4. secCall'[c].phase = "idle" /\ \A d \in SecurityClients : d # c => secCall'[d] = secCall[d]
 BY <1>1, <1>2 DEF Continue, SecurityTyped
<1>5. ASSUME ~overtaken', ~registered, ~(SecurityStores \subseteq leftover), Lingers(secCall[c].todo),
             \A t \in SecurityStores : t \in leftover \/ Clean(t)
      PROVE  Lingers(secCall'[c].todo)
 <2>1. ok => Ops(c).op # "verify" BY <1>2 DEF ReadOps
 <2>2. ASSUME ok, Ops(c).op = "preferences" PROVE r = NoRecord
  <3>1. s = "sessions" /\ "sessions" \notin leftover BY <1>5, <2>2 DEF Lingers, StoreOf, TwoFactorOps, Ops
  <3>2. ~BeingPublished(s) /\ Loaded(s) = NoRecord BY <1>1, <1>5, <3>1, CleanFacts
  <3> QED BY <1>2, <1>5, <2>2, <3>2
 <2> QED BY <1>2, <1>5, <2>1, <2>2, LingersOn
<1> QED BY <1>2, <1>3, <1>4, <1>5, OutsideRemoval

LEMMA AcquireRemoval ==
  ASSUME SecuritySound, RemovalSound, NEW c \in SecurityClients, Acquire(c)
  PROVE  RemovalSound'
<1> DEFINE o == Ops(c)
            s == StoreOf(o)
            out == Outcome(o, Loaded(s))
<1>0. /\ SecurityTyped /\ SecurityTypeOK /\ secCall[c].todo # <<>> /\ secCall[c].phase = "idle" /\ s \in SecurityStores
      /\ o \in SecurityOps /\ o.op \notin ReadOps /\ secLock[s] = NoClient
      /\ secCache' = (IF o.op = "confirm" THEN secCache ELSE [secCache EXCEPT ![s] = Loaded(s)])
      /\ UNCHANGED <<secFile, overtaken, registered, removal, leftover>>
 BY OpAt DEF SecuritySound, Acquire, Ops, secRemoval
<1>1. InStore(s, Loaded(s)) BY <1>0 DEF SecurityTyped, Loaded
<1>2. Refills BY <1>0, <1>1 DEF Refills
<1>3. CASE ~out.saves
 <2>1. Continue(c, out.record, out.ok) /\ UNCHANGED secLock /\ out.ok \in BOOLEAN
  BY <1>0, <1>1, <1>3, OutcomeSound DEF Acquire, Ops
 <2>2. secCall'[c].phase = "idle" /\ \A d \in SecurityClients : d # c => secCall'[d] = secCall[d]
  BY <1>0, <2>1 DEF SecurityTyped, Continue
 <2>3. o.op = "verify" => ~out.ok BY <1>3 DEF Outcome, VerifyChallenge, Refused, Saves
 <2>4. ~registered /\ Lingers(secCall[c].todo) => Lingers(secCall'[c].todo) BY <1>0, <2>1, <2>3, LingersOn DEF ReadOps
 <2> HIDE DEF out, s, o
 <2> QED BY <1>0, <1>2, <2>1, <2>2, <2>4, OutsideRemoval
<1>4. CASE out.saves
 <2>1. /\ secCall' = [secCall EXCEPT ![c].phase = "decided", ![c].work = out.record] /\ secLock' = [secLock EXCEPT ![s] = c]
  BY <1>4 DEF Acquire, Ops
 <2>2. secCall'[c].todo = secCall[c].todo /\ secCall'[c].phase = "decided"
       /\ \A d \in SecurityClients : d # c => secCall'[d] = secCall[d]
  <3>1. /\ secCall[c] \in SecurityCalls /\ c \in DOMAIN secCall
        /\ secCall' = [secCall EXCEPT ![c] = [secCall[c] EXCEPT !.phase = "decided", !.work = out.record]]
   BY <1>0, <2>1 DEF SecurityTyped
  <3> DEFINE call == [secCall[c] EXCEPT !.phase = "decided", !.work = out.record]
  <3>2. call.todo = secCall[c].todo /\ call.phase = "decided" BY <3>1 DEF SecurityCalls
  <3>3. DOMAIN secCall = SecurityClients /\ secCall' = [secCall EXCEPT ![c] = call] BY <1>0, <3>1 DEF SecurityTyped
  <3> HIDE DEF call
  <3> QED BY <3>2, <3>3
 <2>3. ASSUME NEW t \in SecurityStores PROVE BeingPublished(t) => BeingPublished(t)'
  <3> HIDE DEF out
  <3> QED BY <1>0, <2>1, <2>2, SecurityFacts DEF BeingPublished, SecurityTyped
 <2>4. ASSUME ~registered, ~(SecurityStores \subseteq leftover), Lingers(secCall[c].todo) PROVE ~Clean(s)
  <3>1. o.op \in {"verify", "revoke"} BY <1>0, <2>4 DEF Lingers, ReadOps, Ops
  <3>2. Loaded(s) # NoRecord BY <1>4, <3>1 DEF Outcome, VerifyChallenge, Revoke, Refused, Nothing
  <3> QED BY <1>0, <3>2, CleanFacts
 <2>5. secCache'[s] = secCache[s] \/ secCache'[s] = Loaded(s) BY <1>0 DEF SecurityTyped
 <2>6. \A t \in SecurityStores : t # s => secCache'[t] = secCache[t] BY <1>0 DEF SecurityTyped
 <2> HIDE DEF out
 <2>7. ASSUME NEW t \in SecurityStores, PassedSound(t) PROVE PassedSound(t)'
  BY <1>0, <2>3, <2>5, <2>6, <2>7 DEF PassedSound, Passed, Loaded
 <2>8. ASSUME NEW t \in SecurityStores, t \notin leftover, ~registered, ~overtaken', Clean(t)
       PROVE  secFile'[t] = NoRecord /\ secCache'[t] \in {Unread, NoRecord} /\ StoreOf(Head(secCall'[c].todo)) # t
  <3>1. Lingers(secCall[c].todo) BY <1>0, <2>8 DEF RemovalSound
  <3>2. t # s BY <2>4, <2>8, <3>1
  <3> QED BY <1>0, <2>2, <2>6, <2>8, <3>2 DEF Clean, Ops
 <2> QED BY <1>0, <2>2, <2>7, <2>8, RemovalStays
<1> QED BY <1>0, <1>1, <1>3, <1>4, OutcomeSound

\* It holds the mutex of its store.
LEMMA InsideRemoval ==
  ASSUME SecuritySound, RemovalSound, NEW c \in SecurityClients, Save(c) \/ SaveFails(c) \/ Publish(c)
  PROVE  RemovalSound'
<1>0. /\ SecurityTyped /\ SecurityTypeOK /\ PhaseSound(c) /\ NoClient \notin SecurityClients /\ secCall[c].todo # <<>>
      /\ secCall[c].phase \in {"decided", "saved"} /\ UNCHANGED <<registered, removal, leftover, overtaken>>
 BY SecurityFacts DEF SecuritySound, PhaseSound, Save, SaveFails, Publish, secRemoval
<1>1. PICK s \in SecurityStores : /\ s = StoreOf(Ops(c)) /\ secLock[s] = c /\ InStore(s, secCall[c].work) /\ ~Clean(s)
                                 /\ \A t \in SecurityStores : t # s => secLock[t] # c
 <2>1. StoreOf(Ops(c)) \in SecurityStores BY <1>0, OpAt
 <2> QED BY <1>0, <2>1 DEF SecurityTypeOK, Ops, PhaseSound, Clean
<1>2. \A d \in SecurityClients : d # c => secCall'[d] = secCall[d] BY <1>0 DEF Save, SaveFails, Publish, Continue, SecurityTyped
<1>3. ASSUME NEW t \in SecurityStores, t # s
      PROVE  /\ secFile'[t] = secFile[t] /\ secCache'[t] = secCache[t] /\ (BeingPublished(t)' <=> BeingPublished(t))
 <2>1. secFile'[t] = secFile[t] /\ secCache'[t] = secCache[t] /\ secLock'[t] = secLock[t]
  BY <1>0, <1>1, <1>3 DEF Save, SaveFails, Publish, SecurityTyped, Ops
 <2> QED BY <1>1, <1>2, <1>3, <2>1, InUseStays
<1>4. PassedSound(s) => PassedSound(s)'
 <2>1. CASE Save(c)
  <3>1. secLock' = secLock /\ secCall'[c].phase = "saved" BY <1>0, <2>1 DEF Save, SecurityTyped
  <3> QED BY <1>1, <3>1 DEF PassedSound, BeingPublished
 <2>2. CASE SaveFails(c) BY <1>0, <1>1, <2>2 DEF SaveFails, PassedSound, Passed, BeingPublished
 <2>3. CASE Publish(c)
  <3>1. secFile' = secFile /\ secCache'[s] = secCall[c].work /\ secCall[c].work # Unread /\ secCall[c].phase = "saved"
   BY <1>0, <1>1, <2>3, SecurityFacts DEF Publish, SecurityTyped, Ops, InStore
  <3>2. secFile[s] = NoRecord \/ secCall[c].work = secFile[s] BY <1>0, <1>1, <3>1 DEF PhaseSound, SecurityTyped
  <3> QED BY <3>1, <3>2 DEF PassedSound
 <2> QED BY <2>1, <2>2, <2>3
<1>5. ASSUME NEW t \in SecurityStores, PassedSound(t) PROVE PassedSound(t)' BY <1>0, <1>3, <1>4, <1>5 DEF PassedSound, Passed
<1>6. secCall'[c].phase = "idle" \/ (Save(c) /\ secCall'[c].todo = secCall[c].todo)
 <2>1. CASE Save(c) BY <1>0, <2>1 DEF Save, SecurityTyped, SecurityCalls
 <2>2. CASE SaveFails(c) BY <1>0, <2>2 DEF SaveFails, Continue, SecurityTyped
 <2>3. CASE Publish(c) BY <1>0, <2>3 DEF Publish, Continue, SecurityTyped
 <2> QED BY <2>1, <2>2, <2>3
<1>7. ASSUME ~registered, ~(SecurityStores \subseteq leftover), Lingers(secCall[c].todo), \A t \in SecurityStores : t \in leftover \/ Clean(t)
      PROVE  Lingers(secCall'[c].todo)
 <2>1. Ops(c).op \notin ReadOps BY <1>0 DEF PhaseSound
 <2>2. CASE Save(c)
  <3>1. secCall'[c].todo = secCall[c].todo BY <1>0, <2>2 DEF Save, SecurityTyped, SecurityCalls
  <3> QED BY <1>7, <3>1
 <2>3. CASE SaveFails(c) BY <1>0, <1>7, <2>1, <2>3, LingersOn DEF SaveFails, ReadOps
 <2>4. CASE Publish(c)
  <3>1. Ops(c).op = "verify" => "sessions" \notin leftover BY <1>1, <1>7 DEF StoreOf, TwoFactorOps, SecurityStores
  <3> QED BY <1>0, <1>7, <2>1, <2>4, <3>1, LingersOn DEF Publish, ReadOps
 <2> QED BY <2>2, <2>3, <2>4
<1>8. \A t \in SecurityStores : Clean(t) => t # s /\ secFile'[t] = NoRecord /\ secCache'[t] \in {Unread, NoRecord}
 BY <1>1, <1>3 DEF Clean
<1> QED BY <1>0, <1>1, <1>2, <1>5, <1>6, <1>7, <1>8, RemovalStays DEF Ops

LEMMA RemovalStepSound ==
  ASSUME SecuritySound, RemovalSound, SecurityNext \/ UNCHANGED securityVars
  PROVE  RemovalSound'
<1> USE DEF RemovalSound, PassedSound, Passed, Clean, Lingers, Ops, BeingPublished
<1>1. CASE InviteAgain \/ StepPasses \/ RemovalBegins \/ UNCHANGED securityVars
 BY <1>1 DEF InviteAgain, StepPasses, RemovalBegins, securityVars, secRequests, secRemoval
<1>2. CASE Purge
 <2>1. /\ removal.at \in SecurityStores
       /\ \/ secFile' = [secFile EXCEPT ![removal.at] = NoRecord]
             /\ removal'.failed = removal.failed /\ removal'.at = IF removal.at = "twofactor" THEN "sessions" ELSE "row"
          \/ secFile' = secFile /\ removal'.failed = TRUE
       /\ UNCHANGED <<secCache, secLock, secCall, overtaken, registered, leftover>>
  BY <1>2 DEF Purge, secRequests
 <2>2. \A s \in SecurityStores : secFile[s] = NoRecord => secFile'[s] = NoRecord BY <2>1 DEF SecuritySound, SecurityTyped
 <2>3. ASSUME NEW s \in SecurityStores, Passed(s)' PROVE Passed(s) \/ secFile'[s] = NoRecord
  BY <2>1, <2>3 DEF SecuritySound, SecurityTyped, SecurityStores
 <2> QED BY <2>1, <2>2, <2>3
<1>3. CASE RemoveRow
 <2>1. \A c \in SecurityClients : secCall[c].phase # "idle" => secCall[c].todo # <<>> BY DEF SecuritySound, PhaseSound
 <2>2. CASE registered' = registered /\ leftover' = leftover BY <1>3, <2>2 DEF RemoveRow, secRequests, NoRemoval
 <2>3. CASE ~removal.failed /\ registered' = FALSE /\ leftover' = Outliving
  BY <1>3, <2>1, <2>3 DEF RemoveRow, secRequests, NoRemoval, Outliving
 <2> QED BY <1>3, <2>2, <2>3 DEF RemoveRow
<1>4. CASE AuthRestart BY <1>4 DEF AuthRestart, NoRemoval
<1> USE DEF SecurityNext
<1>5. ASSUME NEW c \in SecurityClients, secCall[c].todo # <<>>, SecurityStep(c) PROVE RemovalSound'
 <2>1. CASE ReadFile(c)
  <3>1. secCall'[c].todo = secCall[c].todo /\ secCall'[c].phase = "read" /\ \A d \in SecurityClients : d # c => secCall'[d] = secCall[d]
   BY <2>1 DEF ReadFile, SecuritySound, SecurityTyped, SecurityCalls
  <3>2. UNCHANGED <<secFile, secCache, secLock, overtaken, registered, removal, leftover>> /\ secCall[c].phase = "idle"
   BY <2>1 DEF ReadFile, secRemoval
  <3> QED BY <3>1, <3>2, OutsideRemoval DEF Refills
 <2> QED BY <1>5, <2>1, ReadsRemoval, AcquireRemoval, InsideRemoval DEF SecurityStep
<1> QED BY <1>1, <1>2, <1>3, <1>4, <1>5, RequestRemoval

LEMMA SecuritySoundIsEnough == SecuritySound /\ RemovalSound => SecurityInvariant
BY DEF SecuritySound, SecretsSound, FactorSound, SecurityInvariant, CodesSpentOnce, HistoryExact, AlertKept, RemovalSound,
       Clean, RemovalStands

LEMMA InitRemovalSound == SecurityInit => RemovalSound
BY DEF SecurityInit, RemovalSound, PassedSound, Passed

LEMMA InitSecuritySound == SecurityInit => SecuritySound
<1> SUFFICES ASSUME SecurityInit PROVE SecuritySound OBVIOUS
<1> DEFINE first == [secret |-> 1, codes |-> NewCodeSet(1), last |-> 0]
            tracks == [Untracked EXCEPT !.single = TRUE, !.history = TRUE, !.alertOn = TRUE]
            idle == [todo |-> <<>>, phase |-> "idle", work |-> NoRecord]
<1>1. PICK enrolled \in {NoRecord, first}, tracked \in {NoRecord, tracks} :
        /\ secFile = [s \in SecurityStores |-> IF s = "twofactor" THEN enrolled ELSE tracked]
        /\ generation = IF enrolled = NoRecord THEN 0 ELSE 1
 BY DEF SecurityInit
<1>2. /\ cookies = {0} /\ orphaned = {} /\ secCache = [s \in SecurityStores |-> Unread] /\ secLock = [s \in SecurityStores |-> NoClient]
      /\ secCall = [c \in SecurityClients |-> idle]
      /\ counter = 1 /\ sids = 0 /\ enrollments = {} /\ accepted = [code \in {} |-> 0] /\ journal = <<>>
      /\ owed = FALSE /\ overtaken = FALSE
 BY DEF SecurityInit
<1>3. first \in FactorRecords /\ Generated(first.codes, 1) BY NewCodeSetFacts DEF FactorRecords, Generated
<1>4. tracks \in SessionRecords /\ tracks.entries = <<>> /\ tracks.alert = FALSE
      /\ Untracked.entries = <<>> /\ Untracked.alert = FALSE
 BY SecurityFacts DEF SessionRecords, Untracked
<1>5. idle \in SecurityCalls
 <2>1. <<>> \in Seq(SecurityOps) OBVIOUS
 <2> QED BY <2>1 DEF SecurityCalls, FactorFiles
<1> HIDE DEF first, tracks
<1>6. /\ enrolled \in FactorFiles /\ tracked \in SessionFiles /\ generation \in Nat
      /\ (enrolled # NoRecord => Generated(enrolled.codes, generation))
      /\ OrUntracked(tracked).entries = <<>> /\ OrUntracked(tracked).alert = FALSE
 BY <1>1, <1>3, <1>4, SecurityFacts DEF FactorFiles, SessionFiles, OrUntracked
<1>7. /\ secFile["twofactor"] = enrolled /\ secFile["sessions"] = tracked /\ DOMAIN secFile = SecurityStores
      /\ secFile = [s \in SecurityStores |-> secFile[s]]
 BY <1>1 DEF SecurityStores
<1>8. \A c \in SecurityClients : secCall[c].phase = "idle" BY <1>2
<1> HIDE DEF idle
<1>9. SecurityTyped
 <2>1. \A s \in SecurityStores : InStore(s, secFile[s]) /\ secCache[s] = Unread BY <1>2, <1>6, <1>7 DEF InStore, SecurityStores
 <2>2. accepted \in [DOMAIN accepted -> Nat] /\ DOMAIN accepted \subseteq Codes
  <3> DEFINE none == [code \in {} |-> 0]
  <3>1. DOMAIN none = {} /\ none \in [{} -> Nat] OBVIOUS
  <3>2. accepted = none BY <1>2
  <3> HIDE DEF none
  <3> QED BY <3>1, <3>2
 <2>3. DOMAIN secCache = SecurityStores /\ secCache = [s \in SecurityStores |-> secCache[s]]
  <3>1. secCache = [s \in SecurityStores |-> Unread] BY <1>2
  <3> QED BY <3>1
 <2>4. secCall \in [SecurityClients -> SecurityCalls] /\ secLock \in [SecurityStores -> SecurityClients \cup {NoClient}]
  BY <1>2, <1>5
 <2>5. counter \in Nat \ {0} /\ sids \in Nat /\ enrollments = {} /\ cookies \subseteq Nat /\ orphaned = {} /\ owed \in BOOLEAN /\ overtaken \in BOOLEAN
  <3>1. counter = 1 /\ sids = 0 /\ enrollments = {} /\ cookies = {0} /\ orphaned = {} BY <1>2
  <3>2. counter \in Nat \ {0} /\ sids \in Nat /\ cookies \subseteq Nat BY <3>1
  <3>3. owed \in BOOLEAN /\ overtaken \in BOOLEAN BY <1>2, Zenon
  <3> QED BY <3>1, <3>2, <3>3
 <2> QED BY <1>6, <1>7, <2>1, <2>2, <2>3, <2>4, <2>5 DEF SecurityTyped
<1>10. SecurityTypeOK BY <1>2, <1>8, SecurityFacts DEF SecurityTypeOK
<1>11. \A c \in SecurityClients : PhaseSound(c) /\ Decided(c) BY <1>8 DEF PhaseSound, Decided
<1>12. DOMAIN accepted = {} BY <1>2
<1>12a. InUse("twofactor") = enrolled /\ InUse("sessions") = tracked
 BY <1>2, <1>7, <1>8 DEF InUse, BeingPublished, Loaded, SecurityStores
<1>13. FactorSound BY <1>6, <1>12, <1>12a DEF FactorSound, Generated, Spent, CodesSpentOnce
<1>14. HistoryExact /\ AlertKept /\ journal \in Seq(Nat)
 <2>1. journal \in Seq(Nat) /\ Len(journal) = 0 BY <1>2
 <2>2. NewestOf(journal) = journal
  <3>1. Len(journal) <= HistoryLimit BY <2>1, SecurityFacts
  <3> QED BY <2>1, <3>1, NewestFacts
 <2> QED BY <1>2, <1>6, <1>12a, <2>1, <2>2 DEF HistoryExact, AlertKept, NewestOf, AtMost
<1> QED BY <1>9, <1>10, <1>11, <1>13, <1>14 DEF SecuritySound, SecretsSound

----
\* Who owns the server.

Kinds == {"access", "push", "twofactor", "session"}
OwnerPhases ==
  {"idle", "claim", "invite", "lookup", "count", "clean", "write", "save", "use"} \cup ClaimPhases \cup Kinds
OwnerOps == {"none", "claim", "invite", "remove", "role", "hold", "configure"}
OwnerCalls ==
  [op : OwnerOps, email : Emails \cup {NoEmail}, phase : OwnerPhases, arg : Nat, flag : BOOLEAN]
UserRows == [email : Emails, role : {"admin", "member"}]

OwnershipTyped ==
  /\ roster \in Seq(UserRows) /\ credentialFile \in Emails \cup {NoEmail} /\ adminCredential \in Emails \cup {NoEmail}
  /\ claimLock \in BOOLEAN /\ tokensIssued \in Nat /\ setupTokenFile \in [id : Nat, used : BOOLEAN]
  /\ oauthFile \in Nat /\ oauthProvider \in Nat
  /\ ownerCall \in [Owners -> OwnerCalls]
  /\ holdings \subseteq Kinds \X Emails /\ owner \in Emails \cup {NoEmail} /\ tokenGrants \in Seq(Nat)
  /\ halfway \in BOOLEAN /\ countsCrossed \in BOOLEAN /\ configsCrossed \in BOOLEAN

\* A user has one row.
RowsUnique == \A i, j \in DOMAIN roster : roster[i].email = roster[j].email => i = j

\* What a request is about.
SaneCall(call) ==
  /\ call.phase \in ClaimPhases \cup {"claim"} <=> call.op = "claim"
  /\ call.phase \in Kinds <=> call.op = "hold"
  /\ call.phase = "invite" <=> call.op = "invite"
  /\ call.phase \in {"lookup", "count", "clean", "write"} <=> call.op \in {"remove", "role"}
  /\ call.phase \in {"save", "use"} <=> call.op = "configure"
  /\ call.phase = "clean" => call.op = "remove"
  /\ call.op = "remove" => call.arg \in 1..4
  /\ call.op \notin {"none", "configure"} => call.email \in Emails

\* One claim at a time is past its start, and knows what is in the credential's file.
ClaimSound(c) ==
  /\ ownerCall[c].phase \in ClaimPhases => claimLock /\ \A d \in Owners : ownerCall[d].phase \in ClaimPhases => d = c
  /\ ownerCall[c].phase \in {"first", "verify", "vouch", "create"} => adminCredential = NoEmail /\ credentialFile = NoEmail
  /\ ownerCall[c].phase \in {"registered", "bootstrap", "grant", "rollback", "reconcile"} =>
       adminCredential = NoEmail /\ credentialFile = ownerCall[c].email
  /\ ownerCall[c].phase \in {"consume", "spend"} => adminCredential = credentialFile
  /\ ownerCall[c].phase = "reconcile" => halfway
  /\ ownerCall[c].phase = "vouch" => ownerCall[c].arg = 0

LocksSound ==
  /\ claimLock => \E c \in Owners : ownerCall[c].phase \in ClaimPhases
  /\ MemoryIsStored /\ ClaimStands

\* A request that is about to take an administrator away.
TakesAway(call) == call.phase \in {"clean", "write"} /\ (call.op = "remove" \/ ~call.flag)

\* An administrator whom none of them is about.
Safe(e) == IsListedAdmin(e) /\ \A c \in Owners : TakesAway(ownerCall[c]) => ownerCall[c].email # e
AdminKept == \E e \in Emails : Safe(e)

\* A request that has seen a user in the directory, or put one there.
SawUser(call) == call.phase \in {"invite", "grant", "consume", "spend", "count", "clean", "write"}
\* A claim whose user row is not written, and one that a token opens.
Early(call) == call.phase \in {"registered", "bootstrap", "rollback"}
Gated(call) ==
  \/ call.phase = "verify"
  \/ call.phase \in {"create", "registered", "bootstrap", "grant"} /\ call.arg # 0

Unexcused == ~countsCrossed /\ ~halfway
AdminsSound ==
  Unexcused =>
    /\ roster # <<>> => AdminKept
    /\ adminCredential # NoEmail => roster # <<>>
    /\ \A c \in Owners : SawUser(ownerCall[c]) => roster # <<>>
    /\ credentialFile # NoEmail => roster # <<>> \/ \E c \in Owners : Early(ownerCall[c])
    /\ \A c \in Owners : Gated(ownerCall[c]) => tokenGrants = <<>>
    /\ tokenGrants # <<>> => roster # <<>> /\ Len(tokenGrants) = 1

\* What a removal has cleaned so far.
CleanSound(c) ==
  ownerCall[c].op = "remove" =>
    LET e == ownerCall[c].email
    IN /\ ownerCall[c].phase \in {"lookup", "count"} => ownerCall[c].arg = 1
       /\ ownerCall[c].phase = "clean" /\ ~ownerCall[c].flag =>
            \A i \in 1..(ownerCall[c].arg - 1) : <<CleanupOrder[i], e>> \in holdings => e \in raced
       /\ ownerCall[c].phase = "write" => \A h \in holdings : h[2] = e => e \in raced

HoldingsSound == \A h \in holdings : IsListed(h[2]) \/ h[2] \in raced

ConfigSound ==
  ~configsCrossed =>
    \A c \in Owners : At(c, "use") => ownerCall[c].arg = oauthFile /\ \A d \in Owners : At(d, "use") => d = c

OwnershipSound ==
  /\ OwnershipTyped /\ RowsUnique /\ LocksSound /\ AdminsSound /\ HoldingsSound /\ ConfigSound /\ ConfigStored
  /\ \A c \in Owners : SaneCall(ownerCall[c]) /\ ClaimSound(c) /\ CleanSound(c)

LEMMA OwnerFacts ==
  /\ NoEmail \notin Emails /\ HeldKinds \subseteq Kinds /\ IdleOwner \in OwnerCalls /\ SaneCall(IdleOwner)
  /\ Len(CleanupOrder) = 4 /\ \A h \in Kinds : \E i \in 1..4 : CleanupOrder[i] = h
<1>1. Len(CleanupOrder) = 4 /\ CleanupOrder[1] = "access" /\ CleanupOrder[2] = "push"
      /\ CleanupOrder[3] = "twofactor" /\ CleanupOrder[4] = "session"
 BY DEF CleanupOrder
<1>2. 1 \in 1..4 /\ 2 \in 1..4 /\ 3 \in 1..4 /\ 4 \in 1..4 OBVIOUS
<1>3. IdleOwner \in OwnerCalls BY DEF IdleOwner, OwnerCalls, OwnerOps, OwnerPhases
<1>4. SaneCall(IdleOwner) BY DEF IdleOwner, SaneCall, ClaimPhases, Kinds
<1> QED BY <1>1, <1>2, <1>3, <1>4, OwnershipAssumption DEF Kinds

\* Request c becomes call.
Goes(c, call) == call \in OwnerCalls /\ SaneCall(call) /\ ownerCall' = [ownerCall EXCEPT ![c] = call]

LEMMA GoesFacts ==
  ASSUME OwnershipSound, NEW c \in Owners, NEW call, Goes(c, call)
  PROVE  /\ ownerCall' \in [Owners -> OwnerCalls] /\ ownerCall'[c] = call
         /\ \A d \in Owners : d # c => ownerCall'[d] = ownerCall[d]
         /\ \A d \in Owners : SaneCall(ownerCall'[d])
BY DEF Goes, OwnershipSound, OwnershipTyped

LEMMA AnswersFacts == ASSUME NEW c \in Owners, Answers(c) PROVE Goes(c, IdleOwner)
BY OwnerFacts DEF Answers, Goes

LEMMA MovesFacts ==
  ASSUME OwnershipSound, NEW c \in Owners, NEW phase \in OwnerPhases, Moves(c, phase),
         SaneCall([ownerCall[c] EXCEPT !.phase = phase])
  PROVE  Goes(c, [ownerCall[c] EXCEPT !.phase = phase])
BY DEF Moves, Goes, OwnershipSound, OwnershipTyped, OwnerCalls

\* A claim moves on within itself.
LEMMA ClaimMoves ==
  ASSUME OwnershipSound, NEW c \in Owners, NEW phase \in ClaimPhases, Moves(c, phase),
         ownerCall[c].phase \in ClaimPhases \cup {"claim"}
  PROVE  \E call : /\ Goes(c, call) /\ call.phase = phase /\ call.arg = ownerCall[c].arg
                   /\ call.email = ownerCall[c].email /\ call.email \in Emails
<1> DEFINE call == [ownerCall[c] EXCEPT !.phase = phase]
<1>1. ownerCall[c] \in OwnerCalls /\ SaneCall(ownerCall[c]) BY DEF OwnershipSound, OwnershipTyped
<1>2. ownerCall[c].op = "claim" /\ ownerCall[c].email \in Emails BY <1>1 DEF SaneCall
<1>3. /\ call.op = "claim" /\ call.phase = phase /\ call.arg = ownerCall[c].arg
      /\ call.email = ownerCall[c].email
 BY <1>1, <1>2 DEF OwnerCalls
<1>4. SaneCall(call) BY <1>2, <1>3 DEF SaneCall, ClaimPhases, Kinds
<1> QED BY <1>2, <1>3, <1>4, MovesFacts DEF OwnerPhases

----
\* What a step leaves alone.

LEMMA ConfigStays ==
  ASSUME OwnershipSound, NEW c \in Owners, NEW call, Goes(c, call), call.phase # "use", ownerCall[c].phase # "use",
         UNCHANGED <<oauthFile, oauthProvider, configsCrossed>>
  PROVE  ConfigSound' /\ ConfigStored'
<1>1. /\ ownerCall'[c] = call /\ \A d \in Owners : d # c => ownerCall'[d] = ownerCall[d] BY GoesFacts
<1>2. \A d \in Owners : (At(d, "use")' <=> At(d, "use")) /\ (At(d, "use") => ownerCall'[d] = ownerCall[d]) BY <1>1 DEF At
<1> QED BY <1>2 DEF OwnershipSound, ConfigSound, ConfigStored

LEMMA CleaningStays ==
  ASSUME OwnershipSound, NEW c \in Owners, NEW call, Goes(c, call), call.phase \notin {"lookup", "count", "clean", "write"} \/ CleanSound(c)',
         holdings' \subseteq holdings, raced \subseteq raced'
  PROVE  \A d \in Owners : CleanSound(d)'
<1>1. /\ ownerCall'[c] = call /\ \A d \in Owners : d # c => ownerCall'[d] = ownerCall[d] BY GoesFacts
<1> SUFFICES ASSUME NEW d \in Owners PROVE CleanSound(d)' OBVIOUS
<1>2. CASE d = c BY <1>1, <1>2 DEF CleanSound
<1>3. CASE d # c BY <1>1, <1>3 DEF CleanSound, OwnershipSound
<1> QED BY <1>2, <1>3

LEMMA HoldingsStay ==
  ASSUME OwnershipSound, holdings' \subseteq holdings, raced \subseteq raced', \A e \in Emails : IsListed(e) => IsListed(e)'
  PROVE  HoldingsSound'
<1>1. \A h \in holdings : h[2] \in Emails BY DEF OwnershipSound, OwnershipTyped
<1> QED BY <1>1 DEF OwnershipSound, HoldingsSound

LEMMA ClaimsStay ==
  ASSUME OwnershipSound, NEW c \in Owners, NEW call, Goes(c, call), call.phase \notin ClaimPhases,
         ownerCall[c].phase \notin ClaimPhases,
         UNCHANGED <<claimLock, adminCredential, credentialFile, owner, halfway>>
  PROVE  LocksSound' /\ \A d \in Owners : ClaimSound(d)'
<1>1. /\ ownerCall'[c] = call /\ \A d \in Owners : d # c => ownerCall'[d] = ownerCall[d] BY GoesFacts
<1>2. \A d \in Owners : ownerCall'[d].phase \in ClaimPhases <=> ownerCall[d].phase \in ClaimPhases BY <1>1
<1>3. LocksSound' BY <1>2 DEF OwnershipSound, LocksSound, MemoryIsStored, ClaimStands
<1>4. ASSUME NEW d \in Owners PROVE ClaimSound(d)'
 <2>1. CASE d = c BY <1>1, <2>1 DEF ClaimSound, ClaimPhases
 <2>2. CASE d # c BY <1>1, <1>2, <2>2 DEF OwnershipSound, ClaimSound
 <2> QED BY <2>1, <2>2
<1> QED BY <1>3, <1>4

\* The claim that holds the mutex takes a step: the others are not in one.
LEMMA ClaimsMove ==
  ASSUME OwnershipSound, NEW c \in Owners, NEW call, Goes(c, call), claimLock' \in BOOLEAN,
         claimLock' <=> call.phase \in ClaimPhases,
         \A d \in Owners : d # c => ownerCall[d].phase \notin ClaimPhases,
         call.phase \in {"first", "verify", "vouch", "create"} => adminCredential' = NoEmail /\ credentialFile' = NoEmail,
         call.phase \in {"registered", "bootstrap", "grant", "rollback", "reconcile"} =>
           adminCredential' = NoEmail /\ credentialFile' = call.email,
         call.phase \notin ClaimPhases \/ call.phase \in {"consume", "spend"} => adminCredential' = credentialFile',
         call.phase = "reconcile" => halfway',
         call.phase = "vouch" => call.arg = 0,
         ClaimStands'
  PROVE  LocksSound' /\ \A d \in Owners : ClaimSound(d)'
<1>1. /\ ownerCall'[c] = call /\ \A d \in Owners : d # c => ownerCall'[d] = ownerCall[d] BY GoesFacts
<1>2. LocksSound' BY <1>1 DEF LocksSound, MemoryIsStored
<1>3. ASSUME NEW d \in Owners PROVE ClaimSound(d)'
 <2>1. CASE d = c BY <1>1, <2>1 DEF ClaimSound
 <2>2. CASE d # c BY <1>1, <2>2 DEF ClaimSound, ClaimPhases
 <2> QED BY <2>1, <2>2
<1> QED BY <1>2, <1>3

\* What the request in the mutex knows.
LEMMA ClaimFacts ==
  ASSUME OwnershipSound, NEW c \in Owners, ownerCall[c].phase \in ClaimPhases
  PROVE  /\ claimLock = TRUE /\ \A d \in Owners : d # c => ownerCall[d].phase \notin ClaimPhases
         /\ ownerCall[c].email \in Emails /\ ownerCall[c].op = "claim"
         /\ ownerCall[c].phase \notin {"consume", "spend"} => adminCredential = NoEmail /\ owner = NoEmail
<1>1. SaneCall(ownerCall[c]) /\ ClaimSound(c) /\ ClaimStands /\ claimLock \in BOOLEAN
 BY DEF OwnershipSound, OwnershipTyped, LocksSound
<1>2. ownerCall[c].phase \notin {"consume", "spend"} => adminCredential = NoEmail BY <1>1 DEF ClaimSound, ClaimPhases
<1> QED BY <1>1, <1>2 DEF SaneCall, ClaimSound, ClaimStands

LEMMA RowFacts ==
  /\ \A e : IsListedAdmin(e) <=> \E i \in DOMAIN roster : roster[i] = AdminRow(e)
  /\ \A e : IsListedAdmin(e) => IsListed(e)
  /\ roster \in Seq(UserRows) /\ (\E e \in Emails : IsListed(e)) => roster # <<>>
  /\ roster \in Seq(UserRows) => \A i \in DOMAIN roster : roster[i].role = "admin" => roster[i] = AdminRow(roster[i].email)
<1>1. \A e : IsListedAdmin(e) <=> \E i \in DOMAIN roster : roster[i] = AdminRow(e) BY DEF IsListedAdmin, ToSet
<1>2. \A e : IsListedAdmin(e) => IsListed(e) BY <1>1 DEF IsListed, AdminRow
<1>3. roster \in Seq(UserRows) /\ (\E e \in Emails : IsListed(e)) => roster # <<>> BY DEF IsListed
<1>4. roster \in Seq(UserRows) => \A i \in DOMAIN roster : roster[i].role = "admin" => roster[i] = AdminRow(roster[i].email)
 <2>1. \A u \in UserRows : u.role = "admin" => u = AdminRow(u.email) BY DEF UserRows, AdminRow
 <2> QED BY <2>1
<1> QED BY <1>1, <1>2, <1>3, <1>4

\* The administrators, after a step that may change the directory.
LEMMA AdminsMove ==
  ASSUME OwnershipSound, NEW c \in Owners, NEW call, Goes(c, call), roster' \in Seq(UserRows),
         countsCrossed => countsCrossed', halfway => halfway',
         Unexcused' => /\ roster # <<>> /\ AdminKept => AdminKept'
                       /\ roster = <<>> /\ roster' # <<>> => AdminKept'
                       /\ SawUser(call) => SawUser(ownerCall[c]) \/ roster # <<>> \/ roster' # <<>>
                       /\ adminCredential' # NoEmail => adminCredential # NoEmail \/ roster' # <<>>
                       /\ credentialFile' # NoEmail =>
                            roster' # <<>> \/ Early(call) \/ (credentialFile # NoEmail /\ ~Early(ownerCall[c]))
                       /\ Gated(call) => Gated(ownerCall[c]) \/ tokenGrants = <<>>
                       /\ tokenGrants' = tokenGrants
  PROVE  AdminsSound'
<1>1. /\ ownerCall'[c] = call /\ \A d \in Owners : d # c => ownerCall'[d] = ownerCall[d] BY GoesFacts
<1> SUFFICES ASSUME Unexcused' PROVE
       /\ roster' # <<>> => AdminKept'
       /\ adminCredential' # NoEmail => roster' # <<>>
       /\ \A d \in Owners : SawUser(ownerCall'[d]) => roster' # <<>>
       /\ credentialFile' # NoEmail => roster' # <<>> \/ \E d \in Owners : Early(ownerCall'[d])
       /\ \A d \in Owners : Gated(ownerCall'[d]) => tokenGrants' = <<>>
       /\ tokenGrants' # <<>> => roster' # <<>> /\ Len(tokenGrants') = 1
 BY DEF AdminsSound, SawUser, Early, Gated
<1>2. /\ Unexcused /\ (roster # <<>> => AdminKept)
      /\ (adminCredential # NoEmail => roster # <<>>)
      /\ (\A d \in Owners : SawUser(ownerCall[d]) => roster # <<>>)
      /\ (credentialFile # NoEmail => roster # <<>> \/ \E d \in Owners : Early(ownerCall[d]))
      /\ (\A d \in Owners : Gated(ownerCall[d]) => tokenGrants = <<>>)
      /\ (tokenGrants # <<>> => roster # <<>> /\ Len(tokenGrants) = 1)
 BY DEF OwnershipSound, AdminsSound, Unexcused
<1>3. AdminKept' => roster' # <<>>
 <2>1. \A e : IsListedAdmin(e)' => \E i \in DOMAIN roster' : roster'[i] = AdminRow(e) BY DEF IsListedAdmin, ToSet, AdminRow
 <2> QED BY <2>1 DEF AdminKept, Safe
<1>4. roster # <<>> => roster' # <<>> BY <1>2, <1>3
<1>5. roster' # <<>> => AdminKept' BY <1>2
<1>6. ASSUME NEW d \in Owners PROVE (SawUser(ownerCall'[d]) => roster' # <<>>) /\ (Gated(ownerCall'[d]) => tokenGrants' = <<>>)
 <2>1. CASE d = c BY <1>1, <1>2, <1>4, <2>1
 <2>2. CASE d # c BY <1>1, <1>2, <1>4, <2>2
 <2> QED BY <2>1, <2>2
<1>7. credentialFile' # NoEmail => roster' # <<>> \/ \E d \in Owners : Early(ownerCall'[d]) BY <1>1, <1>2, <1>4
<1> QED BY <1>2, <1>4, <1>5, <1>6, <1>7

\* Without a change of the directory, nobody new may take an administrator away.
LEMMA AdminsStay ==
  ASSUME OwnershipSound, NEW c \in Owners, NEW call, Goes(c, call), roster' = roster,
         countsCrossed => countsCrossed', halfway => halfway',
         Unexcused' => /\ TakesAway(call) =>
                            \/ TakesAway(ownerCall[c]) /\ call.email = ownerCall[c].email
                            \/ ~IsListedAdmin(call.email)
                       /\ SawUser(call) => SawUser(ownerCall[c]) \/ roster # <<>>
                       /\ adminCredential' # NoEmail => adminCredential # NoEmail \/ roster # <<>>
                       /\ credentialFile' # NoEmail =>
                            roster # <<>> \/ Early(call) \/ (credentialFile # NoEmail /\ ~Early(ownerCall[c]))
                       /\ Gated(call) => Gated(ownerCall[c]) \/ tokenGrants = <<>>
                       /\ tokenGrants' = tokenGrants
  PROVE  AdminsSound'
<1>1. /\ ownerCall'[c] = call /\ \A d \in Owners : d # c => ownerCall'[d] = ownerCall[d] BY GoesFacts
<1>2. ASSUME Unexcused', NEW e \in Emails, Safe(e) PROVE Safe(e)'
 <2>1. IsListedAdmin(e)' BY <1>2 DEF Safe, IsListedAdmin
 <2>2. ASSUME NEW d \in Owners, TakesAway(ownerCall'[d]) PROVE ownerCall'[d].email # e BY <1>1, <1>2, <2>2 DEF Safe
 <2> QED BY <2>1, <2>2 DEF Safe, TakesAway
<1>3. Unexcused' /\ AdminKept => AdminKept' BY <1>2 DEF AdminKept
<1>4. roster' \in Seq(UserRows) BY DEF OwnershipSound, OwnershipTyped
<1> HIDE DEF AdminKept
<1> QED BY <1>3, <1>4, AdminsMove

----
\* The claim.

\* A step of a claim, which leaves everything else alone.
LEMMA ClaimStep ==
  ASSUME OwnershipSound, NEW c \in Owners, NEW call, Goes(c, call),
         ownerCall[c].phase \in ClaimPhases \cup {"claim"}, call.phase \in ClaimPhases \cup {"idle"},
         claimLock' \in BOOLEAN, claimLock' <=> call.phase \in ClaimPhases,
         \A d \in Owners : d # c => ownerCall[d].phase \notin ClaimPhases,
         UNCHANGED <<oauthFile, oauthProvider, holdings, raced, countsCrossed, configsCrossed, tokensIssued>>,
         roster' \in Seq(UserRows), RowsUnique', \A e \in Emails : IsListed(e) => IsListed(e)',
         credentialFile' \in Emails \cup {NoEmail}, adminCredential' \in Emails \cup {NoEmail},
         setupTokenFile' \in [id : Nat, used : BOOLEAN], owner' \in Emails \cup {NoEmail}, halfway' \in BOOLEAN,
         tokenGrants' \in Seq(Nat),
         call.phase \in {"first", "verify", "vouch", "create"} => adminCredential' = NoEmail /\ credentialFile' = NoEmail,
         call.phase \in {"registered", "bootstrap", "grant", "rollback", "reconcile"} =>
           adminCredential' = NoEmail /\ credentialFile' = call.email,
         call.phase \notin ClaimPhases \/ call.phase \in {"consume", "spend"} => adminCredential' = credentialFile',
         call.phase = "reconcile" => halfway',
         call.phase = "vouch" => call.arg = 0,
         ClaimStands', AdminsSound'
  PROVE  OwnershipSound'
<1>1. LocksSound' /\ \A d \in Owners : ClaimSound(d)' BY ClaimsMove
<1>2. call.phase \notin {"use", "lookup", "count", "clean", "write"} /\ ownerCall[c].phase # "use" BY DEF ClaimPhases
<1>3. ConfigSound' /\ ConfigStored' BY <1>2, ConfigStays
<1>4. \A d \in Owners : CleanSound(d)' BY <1>2, CleaningStays
<1>5. HoldingsSound' BY HoldingsStay
<1>6. ownerCall' \in [Owners -> OwnerCalls] /\ \A d \in Owners : SaneCall(ownerCall'[d]) BY GoesFacts
<1>7. OwnershipTyped' BY <1>6 DEF OwnershipSound, OwnershipTyped
<1> QED BY <1>1, <1>3, <1>4, <1>5, <1>6, <1>7 DEF OwnershipSound

\* A step of the claim that only moves it, or ends it.
LEMMA ClaimOnlyMoves ==
  ASSUME OwnershipSound, NEW c \in Owners, NEW call, Goes(c, call),
         ownerCall[c].phase \in ClaimPhases \cup {"claim"}, call.phase \in ClaimPhases \cup {"idle"},
         claimLock' \in BOOLEAN, claimLock' <=> call.phase \in ClaimPhases,
         \A d \in Owners : d # c => ownerCall[d].phase \notin ClaimPhases,
         UNCHANGED <<ownerFiles, ownerMemory, ownerGhosts>>,
         call.phase \in {"first", "verify", "vouch", "create"} => adminCredential = NoEmail /\ credentialFile = NoEmail,
         call.phase \in {"registered", "bootstrap", "grant", "rollback"} =>
           adminCredential = NoEmail /\ credentialFile = call.email,
         call.phase \notin ClaimPhases \/ call.phase \in {"consume", "spend"} => adminCredential = credentialFile,
         call.phase # "reconcile", call.phase = "vouch" => call.arg = 0,
         Unexcused => /\ SawUser(call) => SawUser(ownerCall[c]) \/ roster # <<>>
                      /\ Early(ownerCall[c]) => Early(call) \/ roster # <<>>
                      /\ Gated(call) => Gated(ownerCall[c]) \/ tokenGrants = <<>>
  PROVE  OwnershipSound'
<1>1. /\ OwnershipTyped /\ RowsUnique /\ ClaimStands BY DEF OwnershipSound, LocksSound
<1>2. UNCHANGED <<roster, credentialFile, setupTokenFile, tokensIssued, oauthFile, holdings, adminCredential, oauthProvider,
                  owner, tokenGrants, halfway, countsCrossed, configsCrossed, raced>>
 BY DEF ownerFiles, ownerMemory, ownerGhosts
<1>3. ~TakesAway(call) BY DEF TakesAway, ClaimPhases
<1>4. AdminsSound' BY <1>2, <1>3, AdminsStay DEF Unexcused
<1>5. RowsUnique' /\ ClaimStands' /\ \A e \in Emails : IsListed(e) => IsListed(e)'
 BY <1>1, <1>2 DEF RowsUnique, ClaimStands, IsListed
<1>6. /\ roster' \in Seq(UserRows) /\ credentialFile' \in Emails \cup {NoEmail} /\ adminCredential' \in Emails \cup {NoEmail}
      /\ setupTokenFile' \in [id : Nat, used : BOOLEAN] /\ owner' \in Emails \cup {NoEmail} /\ halfway' \in BOOLEAN
      /\ tokenGrants' \in Seq(Nat)
 BY <1>1, <1>2 DEF OwnershipTyped
<1> QED BY <1>2, <1>4, <1>5, <1>6, ClaimStep

LEMMA EndsClaimFacts ==
  ASSUME NEW c \in Owners, EndsClaim(c)
  PROVE  /\ Goes(c, IdleOwner) /\ IdleOwner.phase = "idle" /\ "idle" \notin ClaimPhases /\ claimLock' = FALSE
         /\ ~SawUser(IdleOwner) /\ ~Gated(IdleOwner) /\ ~Early(IdleOwner) /\ ~TakesAway(IdleOwner)
BY AnswersFacts DEF EndsClaim, IdleOwner, ClaimPhases, SawUser, Gated, Early, TakesAway

LEMMA ClaimStartsSound ==
  ASSUME OwnershipSound, NEW c \in Owners, ClaimStarts(c)
  PROVE  OwnershipSound'
<1>1. /\ ownerCall[c].phase = "claim" /\ claimLock = FALSE /\ UNCHANGED <<ownerFiles, ownerMemory, ownerGhosts>>
      /\ adminCredential = credentialFile /\ \A d \in Owners : ownerCall[d].phase \notin ClaimPhases
 BY DEF ClaimStarts, At, OwnershipSound, OwnershipTyped, LocksSound, MemoryIsStored, ClaimSound
<1>2. CASE adminCredential # NoEmail
 <2>1. EndsClaim(c) BY <1>1, <1>2 DEF ClaimStarts, EndsClaim
 <2> QED BY <1>1, <2>1, EndsClaimFacts, ClaimOnlyMoves DEF Early
<1>3. CASE adminCredential = NoEmail
 <2>1. Moves(c, "first") /\ claimLock' = TRUE BY <1>3 DEF ClaimStarts
 <2>2. PICK call : Goes(c, call) /\ call.phase = "first" BY <1>1, <2>1, ClaimMoves DEF ClaimPhases
 <2>3. "first" \in ClaimPhases /\ ~SawUser(call) /\ ~Gated(call) /\ ~Early(ownerCall[c])
  BY <1>1, <2>2 DEF ClaimPhases, SawUser, Gated, Early
 <2> QED BY <1>1, <1>3, <2>1, <2>2, <2>3, ClaimOnlyMoves
<1> QED BY <1>2, <1>3

\* What gates a claim: without an administrator, a token that no claim was granted for.
LEMMA FirstAdminFacts ==
  ASSUME OwnershipTyped, FirstAdmin = NoEmail
  PROVE  ~AdminKept
<1> SUFFICES ASSUME NEW e \in Emails, IsListedAdmin(e) PROVE FALSE BY DEF AdminKept, Safe
<1>1. roster \in Seq(UserRows) /\ DOMAIN roster = 1..Len(roster) /\ Len(roster) \in Nat BY DEF OwnershipTyped
<1> DEFINE S == {i \in 1..Len(roster) : roster[i].role = "admin"}
<1>2. PICK k \in DOMAIN roster : roster[k] = AdminRow(e) BY RowFacts
<1>3. k \in S /\ S \subseteq Nat BY <1>1, <1>2 DEF AdminRow
<1>4. PICK i \in S : \A j \in S : ~(<<j, i>> \in OpToRel(<, Nat)) BY <1>3, NatLessThanWellFounded, WFMin
<1>5. i \in Nat /\ \A j \in S : j \in Nat /\ ~(j < i) BY <1>3, <1>4 DEF OpToRel
<1>6. ASSUME NEW j \in 1..(i - 1) PROVE roster[j].role # "admin"
 <2>1. j \in 1..Len(roster) /\ j < i BY <1>1, <1>5
 <2> QED BY <1>5, <2>1
<1>7. i \in DOMAIN roster /\ IsFirstAdmin(i) BY <1>1, <1>6 DEF IsFirstAdmin
<1> DEFINE first == CHOOSE f \in DOMAIN roster : IsFirstAdmin(f)
<1>8. first \in DOMAIN roster /\ FirstAdmin = roster[first].email BY <1>7 DEF FirstAdmin
<1> HIDE DEF first
<1>9. roster[first] \in UserRows BY <1>1, <1>8
<1>10. roster[first].email \in Emails BY <1>9 DEF UserRows
<1> QED BY <1>8, <1>10, OwnerFacts

LEMMA ClaimGatedSound ==
  ASSUME OwnershipSound, NEW c \in Owners, ClaimGated(c)
  PROVE  OwnershipSound'
<1>1. /\ ownerCall[c].phase = "first" /\ UNCHANGED <<ownerFiles, ownerMemory, ownerGhosts>> /\ "first" \in ClaimPhases
      /\ adminCredential = NoEmail /\ credentialFile = NoEmail /\ ~Early(ownerCall[c]) /\ OwnershipTyped
      /\ ownerCall[c] \in OwnerCalls
 BY DEF ClaimGated, At, OwnershipSound, OwnershipTyped, ClaimSound, Early, ClaimPhases
<1>2. claimLock = TRUE /\ (\A d \in Owners : d # c => ownerCall[d].phase \notin ClaimPhases) /\ ownerCall[c].op = "claim"
 BY <1>1, ClaimFacts
<1>3. CASE EndsClaim(c) BY <1>1, <1>2, <1>3, EndsClaimFacts, ClaimOnlyMoves
<1>4. CASE FirstAdmin = NoEmail /\ Moves(c, "verify") /\ UNCHANGED claimLock
 <2>1. PICK call : Goes(c, call) /\ call.phase = "verify" BY <1>1, <1>4, ClaimMoves DEF ClaimPhases
 <2>2. Unexcused => tokenGrants = <<>> BY <1>1, <1>4, FirstAdminFacts DEF OwnershipSound, AdminsSound
 <2>3. "verify" \in ClaimPhases /\ ~SawUser(call) BY <2>1 DEF ClaimPhases, SawUser
 <2> QED BY <1>1, <1>2, <1>4, <2>1, <2>2, <2>3, ClaimOnlyMoves
<1>5. CASE ownerCall' = [ownerCall EXCEPT ![c].phase = "vouch", ![c].arg = 0] /\ UNCHANGED claimLock
 <2> DEFINE call == [ownerCall[c] EXCEPT !.phase = "vouch", !.arg = 0]
 <2>1. call \in OwnerCalls /\ call.phase = "vouch" /\ call.arg = 0 /\ call.op = "claim" /\ call.email = ownerCall[c].email
  BY <1>1, <1>2 DEF OwnerCalls, OwnerPhases, ClaimPhases
 <2>2. SaneCall(call) BY <1>2, <2>1 DEF SaneCall, OwnershipSound, ClaimPhases, Kinds
 <2>3. ownerCall' = [ownerCall EXCEPT ![c] = call] BY <1>1, <1>5 DEF OwnershipTyped
 <2> HIDE DEF call
 <2>4. Goes(c, call) /\ "vouch" \in ClaimPhases /\ ~SawUser(call) /\ ~Gated(call)
  BY <2>1, <2>2, <2>3 DEF Goes, ClaimPhases, SawUser, Gated
 <2> QED BY <1>1, <1>2, <1>5, <2>1, <2>4, ClaimOnlyMoves
<1> QED BY <1>3, <1>4, <1>5 DEF ClaimGated

LEMMA ClaimVerifiedSound ==
  ASSUME OwnershipSound, NEW c \in Owners, ClaimVerified(c)
  PROVE  OwnershipSound'
<1>1. /\ ownerCall[c].phase \in {"verify", "vouch"} /\ UNCHANGED <<ownerFiles, ownerMemory, ownerGhosts>>
      /\ ownerCall[c].phase \in ClaimPhases
      /\ adminCredential = NoEmail /\ credentialFile = NoEmail /\ ~Early(ownerCall[c])
      /\ ownerCall[c].phase = "vouch" => ownerCall[c].arg = 0
 BY DEF ClaimVerified, At, OwnershipSound, ClaimSound, Early, ClaimPhases
<1>2. claimLock = TRUE /\ \A d \in Owners : d # c => ownerCall[d].phase \notin ClaimPhases BY <1>1, ClaimFacts
<1>3. CASE EndsClaim(c) BY <1>1, <1>2, <1>3, EndsClaimFacts, ClaimOnlyMoves
<1>4. CASE Moves(c, "create") /\ UNCHANGED claimLock
 <2>1. PICK call : Goes(c, call) /\ call.phase = "create" /\ call.arg = ownerCall[c].arg BY <1>1, <1>4, ClaimMoves DEF ClaimPhases
 <2>2. "create" \in ClaimPhases /\ ~SawUser(call) BY <2>1 DEF ClaimPhases, SawUser
 <2>3. Unexcused /\ Gated(call) => Gated(ownerCall[c]) BY <1>1, <2>1 DEF Gated
 <2> QED BY <1>1, <1>2, <1>4, <2>1, <2>2, <2>3, ClaimOnlyMoves
<1> QED BY <1>3, <1>4 DEF ClaimVerified

LEMMA ClaimKnows ==
  ASSUME OwnershipSound, NEW c \in Owners, ownerCall[c].phase \in ClaimPhases
  PROVE  /\ OwnershipTyped /\ RowsUnique /\ ClaimSound(c) /\ ClaimStands /\ ownerCall[c] \in OwnerCalls
         /\ credentialFile = adminCredential \/ credentialFile = ownerCall[c].email
BY DEF OwnershipSound, LocksSound, OwnershipTyped, ClaimSound, ClaimPhases

LEMMA CreateLocalAdminSound ==
  ASSUME OwnershipSound, NEW c \in Owners, CreateLocalAdmin(c)
  PROVE  OwnershipSound'
<1>1. ownerCall[c].phase = "create" /\ "create" \in ClaimPhases /\ "registered" \in ClaimPhases
 BY DEF CreateLocalAdmin, At, ClaimPhases
<1>2. /\ OwnershipTyped /\ RowsUnique /\ adminCredential = NoEmail /\ credentialFile = NoEmail /\ owner = NoEmail
      /\ claimLock = TRUE /\ \A d \in Owners : d # c => ownerCall[d].phase \notin ClaimPhases
 BY <1>1, ClaimFacts, ClaimKnows DEF ClaimSound
<1>3. /\ credentialFile' = ownerCall[c].email /\ Moves(c, "registered") /\ claimLock' = claimLock
      /\ UNCHANGED <<roster, setupTokenFile, tokensIssued, oauthFile, holdings, adminCredential, oauthProvider,
                     owner, tokenGrants, halfway, countsCrossed, configsCrossed, raced>>
 BY <1>2 DEF CreateLocalAdmin, ownerMemory, ownerGhosts
<1>4. PICK call : /\ Goes(c, call) /\ call.phase = "registered" /\ call.arg = ownerCall[c].arg
                  /\ call.email = ownerCall[c].email /\ call.email \in Emails
 BY <1>1, <1>3, ClaimMoves
<1>5. ~TakesAway(call) /\ ~SawUser(call) /\ Early(call) /\ (Gated(call) => Gated(ownerCall[c]))
 BY <1>1, <1>4 DEF TakesAway, SawUser, Early, Gated
<1>6. AdminsSound' BY <1>2, <1>3, <1>4, <1>5, AdminsStay DEF Unexcused
<1>7. RowsUnique' /\ ClaimStands' /\ \A e \in Emails : IsListed(e) => IsListed(e)'
 BY <1>2, <1>3 DEF RowsUnique, ClaimStands, IsListed
<1>8. /\ roster' \in Seq(UserRows) /\ credentialFile' \in Emails \cup {NoEmail} /\ adminCredential' \in Emails \cup {NoEmail}
      /\ setupTokenFile' \in [id : Nat, used : BOOLEAN] /\ owner' \in Emails \cup {NoEmail} /\ halfway' \in BOOLEAN
      /\ tokenGrants' \in Seq(Nat)
 BY <1>2, <1>3, <1>4 DEF OwnershipTyped
<1> QED BY <1>1, <1>2, <1>3, <1>4, <1>6, <1>7, <1>8, ClaimStep

LEMMA ClaimFailsSound ==
  ASSUME OwnershipSound, NEW c \in Owners, ClaimFails(c)
  PROVE  OwnershipSound'
<1>1. /\ ownerCall[c].phase \in {"first", "verify", "vouch", "create"} /\ UNCHANGED <<ownerFiles, ownerMemory, ownerGhosts>>
      /\ ownerCall[c].phase \in ClaimPhases /\ EndsClaim(c) /\ ~Early(ownerCall[c])
 BY DEF ClaimFails, ClaimPhases, Early
<1>2. /\ adminCredential = credentialFile /\ \A d \in Owners : d # c => ownerCall[d].phase \notin ClaimPhases
 BY <1>1, ClaimFacts, ClaimKnows DEF ClaimSound
<1> QED BY <1>1, <1>2, EndsClaimFacts, ClaimOnlyMoves

LEMMA ClaimRegisteredSound ==
  ASSUME OwnershipSound, NEW c \in Owners, ClaimRegistered(c)
  PROVE  OwnershipSound'
<1>1. /\ ownerCall[c].phase = "registered" /\ "registered" \in ClaimPhases /\ UNCHANGED <<ownerFiles, ownerMemory, ownerGhosts>>
      /\ UNCHANGED claimLock
 BY DEF ClaimRegistered, At, ClaimPhases
<1>2. /\ OwnershipTyped /\ adminCredential = NoEmail /\ credentialFile = ownerCall[c].email /\ ownerCall[c].email \in Emails
      /\ claimLock = TRUE /\ \A d \in Owners : d # c => ownerCall[d].phase \notin ClaimPhases
 BY <1>1, ClaimFacts, ClaimKnows DEF ClaimSound
<1>3. PICK phase \in {"grant", "bootstrap"} : Moves(c, phase) /\ (phase = "grant" => IsListed(ownerCall[c].email))
 BY DEF ClaimRegistered
<1>4. phase \in ClaimPhases BY <1>3 DEF ClaimPhases
<1>5. PICK call : /\ Goes(c, call) /\ call.phase = phase /\ call.arg = ownerCall[c].arg
                  /\ call.email = ownerCall[c].email /\ call.email \in Emails
 BY <1>1, <1>3, <1>4, ClaimMoves
<1>6. phase = "grant" => roster # <<>> BY <1>2, <1>3, RowFacts DEF OwnershipTyped
<1>7. (SawUser(call) => roster # <<>>) /\ (Early(call) \/ roster # <<>>) /\ (Gated(call) => Gated(ownerCall[c]))
 BY <1>1, <1>3, <1>5, <1>6 DEF SawUser, Early, Gated
<1> QED BY <1>1, <1>2, <1>3, <1>4, <1>5, <1>7, ClaimOnlyMoves

LEMMA ClaimAbortsSound ==
  ASSUME OwnershipSound, NEW c \in Owners, ownerCall[c].phase \in {"registered", "bootstrap"}, Moves(c, "rollback"),
         UNCHANGED <<ownerFiles, ownerMemory, ownerGhosts, claimLock>>
  PROVE  OwnershipSound'
<1>1. ownerCall[c].phase \in ClaimPhases /\ "rollback" \in ClaimPhases BY DEF ClaimPhases
<1>2. /\ adminCredential = NoEmail /\ credentialFile = ownerCall[c].email
      /\ claimLock = TRUE /\ \A d \in Owners : d # c => ownerCall[d].phase \notin ClaimPhases
 BY <1>1, ClaimFacts, ClaimKnows DEF ClaimSound
<1>3. PICK call : /\ Goes(c, call) /\ call.phase = "rollback" /\ call.email = ownerCall[c].email BY <1>1, ClaimMoves
<1>4. Early(call) /\ ~SawUser(call) /\ ~Gated(call) BY <1>3 DEF SawUser, Early, Gated
<1> QED BY <1>1, <1>2, <1>3, <1>4, ClaimOnlyMoves

\* A row for a user who has none.
LEMMA AppendedRow ==
  ASSUME OwnershipSound, NEW row \in UserRows, ~IsListed(row.email), roster' = Append(roster, row)
  PROVE  /\ roster' \in Seq(UserRows) /\ roster' # <<>> /\ RowsUnique'
         /\ \A e : IsListed(e) => IsListed(e)'
         /\ \A e : IsListedAdmin(e) => IsListedAdmin(e)'
         /\ row.role = "admin" => IsListedAdmin(row.email)'
<1>1. /\ roster \in Seq(UserRows) /\ RowsUnique BY DEF OwnershipSound, OwnershipTyped
<1>2. /\ roster' \in Seq(UserRows) /\ DOMAIN roster' = 1..(Len(roster) + 1) /\ DOMAIN roster = 1..Len(roster)
      /\ Len(roster) \in Nat /\ roster'[Len(roster) + 1] = row
 BY <1>1
<1>3. \A i \in DOMAIN roster : i \in DOMAIN roster' /\ roster'[i] = roster[i] BY <1>1
<1>4. \A i \in DOMAIN roster' : i \in DOMAIN roster \/ i = Len(roster) + 1 BY <1>2
<1>5. \A i \in DOMAIN roster : roster[i].email # row.email BY DEF IsListed
<1>6. RowsUnique' BY <1>1, <1>2, <1>3, <1>4, <1>5 DEF RowsUnique
<1>7. \A e : IsListed(e) => IsListed(e)' BY <1>3 DEF IsListed
<1>8. \A e : IsListedAdmin(e)' <=> \E i \in DOMAIN roster' : roster'[i] = AdminRow(e) BY DEF IsListedAdmin, ToSet, AdminRow
<1>9. \A e : IsListedAdmin(e) => IsListedAdmin(e)' BY <1>3, <1>8, RowFacts
<1>10. row.role = "admin" => row = AdminRow(row.email) BY DEF UserRows, AdminRow
<1>11. Len(roster) + 1 \in DOMAIN roster' BY <1>2
<1>12. row.role = "admin" => IsListedAdmin(row.email)' BY <1>2, <1>8, <1>10, <1>11
<1> QED BY <1>2, <1>6, <1>7, <1>9, <1>11, <1>12

LEMMA AddBootstrapAdminSound ==
  ASSUME OwnershipSound, NEW c \in Owners, AddBootstrapAdmin(c)
  PROVE  OwnershipSound'
<1>1. /\ ownerCall[c].phase = "bootstrap" /\ "bootstrap" \in ClaimPhases /\ "grant" \in ClaimPhases /\ claimLock' = claimLock
      /\ UNCHANGED <<setupTokenFile, tokensIssued, oauthFile, holdings, adminCredential, oauthProvider, credentialFile,
                     owner, tokenGrants, halfway, countsCrossed, configsCrossed, raced>>
 BY DEF AddBootstrapAdmin, At, ClaimPhases, ownerMemory, ownerGhosts
<1>2. CASE IsListed(ownerCall[c].email)
 <2>1. Moves(c, "rollback") /\ roster' = roster BY <1>2 DEF AddBootstrapAdmin
 <2> QED BY <1>1, <2>1, ClaimAbortsSound DEF ownerFiles, ownerMemory, ownerGhosts
<1>3. CASE ~IsListed(ownerCall[c].email)
 <2> PICK e : e = ownerCall[c].email OBVIOUS
 <2> DEFINE row == AdminRow(e)
 <2>1. Moves(c, "grant") /\ roster' = Append(roster, row) BY <1>3 DEF AddBootstrapAdmin
 <2>2. /\ OwnershipTyped /\ adminCredential = NoEmail /\ credentialFile = ownerCall[c].email /\ owner = NoEmail
       /\ claimLock = TRUE /\ \A d \in Owners : d # c => ownerCall[d].phase \notin ClaimPhases
  BY <1>1, ClaimFacts, ClaimKnows DEF ClaimSound
 <2>3. PICK call : /\ Goes(c, call) /\ call.phase = "grant" /\ call.arg = ownerCall[c].arg
                   /\ call.email = ownerCall[c].email /\ call.email \in Emails
  BY <1>1, <2>1, ClaimMoves
 <2>4. row \in UserRows /\ row.email = e /\ row.role = "admin" /\ ~IsListed(row.email) BY <1>3, <2>3 DEF AdminRow, UserRows
 <2> HIDE DEF row
 <2>5. /\ roster' \in Seq(UserRows) /\ roster' # <<>> /\ RowsUnique' /\ (\A a : IsListed(a) => IsListed(a)')
       /\ (\A a : IsListedAdmin(a) => IsListedAdmin(a)') /\ IsListedAdmin(e)'
  BY <2>1, <2>4, AppendedRow
 <2>6. ownerCall'[c] = call /\ (\A d \in Owners : d # c => ownerCall'[d] = ownerCall[d]) /\ ~TakesAway(call)
  BY <2>3, GoesFacts DEF TakesAway
 <2>7. AdminKept => AdminKept' BY <2>5, <2>6 DEF AdminKept, Safe, TakesAway
 <2>8. Unexcused' /\ roster = <<>> => AdminKept'
  <3>1. Unexcused' /\ roster = <<>> => \A d \in Owners : ~TakesAway(ownerCall[d])
   BY <1>1 DEF OwnershipSound, AdminsSound, Unexcused, TakesAway, SawUser
  <3>2. Unexcused' /\ roster = <<>> => Safe(e)' BY <2>5, <2>6, <3>1 DEF Safe, TakesAway
  <3> QED BY <2>3, <2>4, <3>2 DEF AdminKept
 <2>9. Gated(call) => Gated(ownerCall[c]) BY <1>1, <2>3 DEF Gated
 <2>10. AdminsSound'
  <3> HIDE DEF AdminKept
  <3> QED BY <1>1, <2>2, <2>3, <2>5, <2>7, <2>8, <2>9, AdminsMove
 <2>11. ClaimStands' BY <1>1, <2>2 DEF ClaimStands
 <2>12. /\ credentialFile' \in Emails \cup {NoEmail} /\ adminCredential' \in Emails \cup {NoEmail}
        /\ setupTokenFile' \in [id : Nat, used : BOOLEAN] /\ owner' \in Emails \cup {NoEmail} /\ halfway' \in BOOLEAN
        /\ tokenGrants' \in Seq(Nat)
  BY <1>1, <2>2 DEF OwnershipTyped
 <2> QED BY <1>1, <2>2, <2>3, <2>5, <2>10, <2>11, <2>12, ClaimStep
<1> QED BY <1>2, <1>3

\* The claim steps on with the directory as it is.
LEMMA DirectoryStays ==
  ASSUME OwnershipSound, UNCHANGED roster
  PROVE  roster' \in Seq(UserRows) /\ RowsUnique' /\ \A e : IsListed(e) => IsListed(e)'
BY DEF OwnershipSound, OwnershipTyped, RowsUnique, IsListed

LEMMA RollBackClaimSound ==
  ASSUME OwnershipSound, NEW c \in Owners, RollBackClaim(c)
  PROVE  OwnershipSound'
<1>1. /\ ownerCall[c].phase = "rollback" /\ "rollback" \in ClaimPhases /\ "reconcile" \in ClaimPhases
      /\ UNCHANGED <<roster, setupTokenFile, tokensIssued, oauthFile, holdings, adminCredential, oauthProvider,
                     owner, tokenGrants, countsCrossed, configsCrossed, raced>>
 BY DEF RollBackClaim, At, ClaimPhases, ownerMemory
<1>2. /\ OwnershipTyped /\ adminCredential = NoEmail /\ credentialFile = ownerCall[c].email /\ owner = NoEmail
      /\ claimLock = TRUE /\ \A d \in Owners : d # c => ownerCall[d].phase \notin ClaimPhases
 BY <1>1, ClaimFacts, ClaimKnows DEF ClaimSound
<1>3. ClaimStands' BY <1>1, <1>2 DEF ClaimStands
<1>4. /\ adminCredential' \in Emails \cup {NoEmail} /\ tokenGrants' \in Seq(Nat)
      /\ setupTokenFile' \in [id : Nat, used : BOOLEAN] /\ owner' \in Emails \cup {NoEmail}
 BY <1>1, <1>2 DEF OwnershipTyped
<1>5. roster' \in Seq(UserRows) /\ RowsUnique' /\ \A e : IsListed(e) => IsListed(e)' BY <1>1, DirectoryStays
<1>6. CASE credentialFile' = NoEmail /\ EndsClaim(c) /\ UNCHANGED halfway
 <2>1. AdminsSound' BY <1>1, <1>2, <1>6, EndsClaimFacts, AdminsStay DEF Unexcused
 <2>2. halfway' \in BOOLEAN BY <1>2, <1>6 DEF OwnershipTyped
 <2> QED BY <1>1, <1>2, <1>3, <1>4, <1>5, <1>6, <2>1, <2>2, EndsClaimFacts, ClaimStep
<1>7. CASE halfway' = TRUE /\ Moves(c, "reconcile") /\ UNCHANGED <<credentialFile, claimLock>>
 <2>1. PICK call : Goes(c, call) /\ call.phase = "reconcile" /\ call.email = ownerCall[c].email BY <1>1, <1>7, ClaimMoves
 <2>2. AdminsSound' BY <1>7 DEF AdminsSound, Unexcused
 <2>3. credentialFile' \in Emails \cup {NoEmail} BY <1>2, <1>7 DEF OwnershipTyped
 <2> QED BY <1>1, <1>2, <1>3, <1>4, <1>5, <1>7, <2>1, <2>2, <2>3, ClaimStep
<1> QED BY <1>6, <1>7 DEF RollBackClaim

LEMMA ReconcileSound ==
  ASSUME OwnershipSound, NEW c \in Owners, Reconcile(c)
  PROVE  OwnershipSound'
<1>1. /\ ownerCall[c].phase = "reconcile" /\ "reconcile" \in ClaimPhases /\ EndsClaim(c)
      /\ UNCHANGED <<roster, setupTokenFile, tokensIssued, oauthFile, holdings, credentialFile, oauthProvider,
                     owner, tokenGrants, countsCrossed, configsCrossed, raced, halfway>>
 BY DEF Reconcile, At, ClaimPhases, ownerFiles, ownerGhosts
<1>2. /\ OwnershipTyped /\ credentialFile = ownerCall[c].email /\ owner = NoEmail /\ halfway
      /\ claimLock = TRUE /\ \A d \in Owners : d # c => ownerCall[d].phase \notin ClaimPhases
 BY <1>1, ClaimFacts, ClaimKnows DEF ClaimSound
<1>3. adminCredential' = credentialFile' BY <1>1, <1>2 DEF Reconcile
<1>4. ClaimStands' /\ AdminsSound' BY <1>1, <1>2 DEF ClaimStands, AdminsSound, Unexcused
<1>5. /\ credentialFile' \in Emails \cup {NoEmail} /\ adminCredential' \in Emails \cup {NoEmail}
      /\ setupTokenFile' \in [id : Nat, used : BOOLEAN] /\ owner' \in Emails \cup {NoEmail} /\ halfway' \in BOOLEAN
      /\ tokenGrants' \in Seq(Nat)
 BY <1>1, <1>2, <1>3 DEF OwnershipTyped
<1> QED BY <1>1, <1>2, <1>3, <1>4, <1>5, DirectoryStays, EndsClaimFacts, ClaimStep

\* A grant is the first of its token, and the last claim but for what the operator removes.
LEMMA GrantsSound ==
  ASSUME OwnershipSound, NEW c \in Owners, NEW call, Goes(c, call), ownerCall[c].phase = "grant",
         call.phase \in {"idle", "consume"}, UNCHANGED <<roster, credentialFile, countsCrossed, halfway>>,
         \/ tokenGrants' = tokenGrants
         \/ tokenGrants' = Append(tokenGrants, ownerCall[c].arg) /\ ownerCall[c].arg # 0
  PROVE  AdminsSound'
<1>1. /\ ownerCall'[c] = call /\ \A d \in Owners : d # c => ownerCall'[d] = ownerCall[d] BY GoesFacts
<1> SUFFICES ASSUME Unexcused' PROVE
       /\ roster # <<>> /\ AdminKept'
       /\ \A d \in Owners : Gated(ownerCall'[d]) => tokenGrants' = <<>>
       /\ tokenGrants' # <<>> => Len(tokenGrants') = 1
 BY DEF AdminsSound, SawUser, Early, Gated
<1>2. /\ Unexcused /\ roster # <<>> /\ AdminKept
      /\ (\A d \in Owners : Gated(ownerCall[d]) => tokenGrants = <<>>)
      /\ (tokenGrants # <<>> => Len(tokenGrants) = 1)
 BY DEF OwnershipSound, AdminsSound, Unexcused, SawUser
<1>3. /\ ~TakesAway(call) /\ ~Gated(call) /\ (ownerCall[c].arg # 0 => Gated(ownerCall[c])) BY DEF TakesAway, Gated
<1>4. ASSUME NEW e \in Emails, Safe(e) PROVE Safe(e)'
 <2>1. IsListedAdmin(e)' BY <1>4 DEF Safe, IsListedAdmin
 <2>2. ASSUME NEW d \in Owners, TakesAway(ownerCall'[d]) PROVE ownerCall'[d].email # e BY <1>1, <1>3, <1>4, <2>2 DEF Safe
 <2> QED BY <2>1, <2>2 DEF Safe, TakesAway
<1>5. AdminKept' BY <1>2, <1>4 DEF AdminKept
<1>6. \A d \in Owners : d # c => ~Gated(ownerCall[d]) BY ClaimFacts DEF ClaimPhases, Gated
<1>7. \A d \in Owners : ~Gated(ownerCall'[d]) BY <1>1, <1>3, <1>6
<1>8. tokenGrants' # <<>> => Len(tokenGrants') = 1
 <2>1. CASE tokenGrants' = tokenGrants BY <1>2, <2>1
 <2>2. CASE tokenGrants' = Append(tokenGrants, ownerCall[c].arg) /\ ownerCall[c].arg # 0 BY <1>2, <1>3, <2>2
 <2> QED BY <2>1, <2>2
<1> QED BY <1>2, <1>5, <1>7, <1>8

LEMMA GrantClaimSound ==
  ASSUME OwnershipSound, NEW c \in Owners, GrantClaim(c)
  PROVE  OwnershipSound'
<1>1. /\ ownerCall[c].phase = "grant" /\ "grant" \in ClaimPhases /\ "consume" \in ClaimPhases
      /\ adminCredential' = ownerCall[c].email /\ owner' = ownerCall[c].email
      /\ UNCHANGED <<roster, setupTokenFile, tokensIssued, oauthFile, holdings, credentialFile, oauthProvider,
                     countsCrossed, configsCrossed, raced, halfway>>
 BY DEF GrantClaim, At, ClaimPhases, ownerFiles
<1>2. /\ OwnershipTyped /\ credentialFile = ownerCall[c].email /\ ownerCall[c] \in OwnerCalls
      /\ claimLock = TRUE /\ \A d \in Owners : d # c => ownerCall[d].phase \notin ClaimPhases
 BY <1>1, ClaimFacts, ClaimKnows DEF ClaimSound
<1>3. adminCredential' = credentialFile' /\ ClaimStands' BY <1>1, <1>2 DEF ClaimStands
<1>4. /\ credentialFile' \in Emails \cup {NoEmail} /\ adminCredential' \in Emails \cup {NoEmail}
      /\ setupTokenFile' \in [id : Nat, used : BOOLEAN] /\ owner' \in Emails \cup {NoEmail} /\ halfway' \in BOOLEAN
 BY <1>1, <1>2 DEF OwnershipTyped
<1>5. /\ tokenGrants' = tokenGrants \/ (tokenGrants' = Append(tokenGrants, ownerCall[c].arg) /\ ownerCall[c].arg # 0)
 BY DEF GrantClaim
<1>6. tokenGrants' \in Seq(Nat)
 <2>1. ownerCall[c].arg \in Nat /\ tokenGrants \in Seq(Nat) BY <1>2 DEF OwnershipTyped, OwnerCalls
 <2> QED BY <1>5, <2>1
<1>7. CASE EndsClaim(c)
 <2>1. AdminsSound' BY <1>1, <1>5, <1>7, EndsClaimFacts, GrantsSound
 <2> QED BY <1>1, <1>2, <1>3, <1>4, <1>6, <1>7, <2>1, DirectoryStays, EndsClaimFacts, ClaimStep
<1>8. CASE Moves(c, "consume") /\ UNCHANGED claimLock
 <2>1. PICK call : Goes(c, call) /\ call.phase = "consume" BY <1>1, <1>8, ClaimMoves
 <2>2. AdminsSound' BY <1>1, <1>5, <2>1, GrantsSound
 <2> QED BY <1>1, <1>2, <1>3, <1>4, <1>6, <1>8, <2>1, <2>2, DirectoryStays, ClaimStep
<1> QED BY <1>7, <1>8 DEF GrantClaim

LEMMA ReadTokenSound ==
  ASSUME OwnershipSound, NEW c \in Owners, ReadToken(c)
  PROVE  OwnershipSound'
<1>1. /\ ownerCall[c].phase = "consume" /\ "consume" \in ClaimPhases /\ "spend" \in ClaimPhases
      /\ UNCHANGED <<ownerFiles, ownerMemory, ownerGhosts>> /\ ~Early(ownerCall[c]) /\ SawUser(ownerCall[c])
 BY DEF ReadToken, At, ClaimPhases, Early, SawUser
<1>2. /\ OwnershipTyped /\ adminCredential = credentialFile /\ ownerCall[c].op = "claim" /\ ownerCall[c] \in OwnerCalls
      /\ claimLock = TRUE /\ \A d \in Owners : d # c => ownerCall[d].phase \notin ClaimPhases
 BY <1>1, ClaimFacts, ClaimKnows DEF ClaimSound
<1>3. CASE EndsClaim(c) BY <1>1, <1>2, <1>3, EndsClaimFacts, ClaimOnlyMoves
<1>4. CASE UNCHANGED claimLock /\ ownerCall' = [ownerCall EXCEPT ![c].phase = "spend", ![c].arg = setupTokenFile.id]
 <2> DEFINE call == [ownerCall[c] EXCEPT !.phase = "spend", !.arg = setupTokenFile.id]
 <2>1. call \in OwnerCalls /\ call.phase = "spend" /\ call.op = "claim" /\ call.email = ownerCall[c].email
  BY <1>2 DEF OwnerCalls, OwnerPhases, ClaimPhases, OwnershipTyped
 <2>2. SaneCall(call) BY <1>2, <2>1 DEF SaneCall, OwnershipSound, ClaimPhases, Kinds
 <2>3. ownerCall' = [ownerCall EXCEPT ![c] = call] BY <1>2, <1>4 DEF OwnershipTyped
 <2> HIDE DEF call
 <2>4. Goes(c, call) /\ ~Gated(call) BY <2>1, <2>2, <2>3 DEF Goes, Gated
 <2> QED BY <1>1, <1>2, <1>4, <2>1, <2>4, ClaimOnlyMoves
<1> QED BY <1>3, <1>4 DEF ReadToken

LEMMA SpendTokenSound ==
  ASSUME OwnershipSound, NEW c \in Owners, SpendToken(c)
  PROVE  OwnershipSound'
<1>1. /\ ownerCall[c].phase = "spend" /\ "spend" \in ClaimPhases /\ EndsClaim(c) /\ ~Early(ownerCall[c])
      /\ UNCHANGED <<roster, credentialFile, tokensIssued, oauthFile, holdings, adminCredential, oauthProvider,
                     owner, tokenGrants, countsCrossed, configsCrossed, raced, halfway>>
 BY DEF SpendToken, At, ClaimPhases, ownerMemory, ownerGhosts, Early
<1>2. /\ OwnershipTyped /\ adminCredential = credentialFile /\ ownerCall[c] \in OwnerCalls /\ ClaimStands
      /\ \A d \in Owners : d # c => ownerCall[d].phase \notin ClaimPhases
 BY <1>1, ClaimFacts, ClaimKnows DEF ClaimSound
<1>3. setupTokenFile' \in [id : Nat, used : BOOLEAN]
 <2>1. ownerCall[c].arg \in Nat /\ setupTokenFile \in [id : Nat, used : BOOLEAN] BY <1>2 DEF OwnershipTyped, OwnerCalls
 <2>2. [id |-> ownerCall[c].arg, used |-> TRUE] \in [id : Nat, used : BOOLEAN] BY <2>1
 <2> QED BY <2>1, <2>2 DEF SpendToken
<1>4. ClaimStands' BY <1>1, <1>2 DEF ClaimStands
<1>5. /\ credentialFile' \in Emails \cup {NoEmail} /\ adminCredential' \in Emails \cup {NoEmail}
      /\ owner' \in Emails \cup {NoEmail} /\ halfway' \in BOOLEAN /\ tokenGrants' \in Seq(Nat)
 BY <1>1, <1>2 DEF OwnershipTyped
<1>6. AdminsSound' BY <1>1, EndsClaimFacts, AdminsStay DEF Unexcused
<1> QED BY <1>1, <1>2, <1>3, <1>4, <1>5, <1>6, DirectoryStays, EndsClaimFacts, ClaimStep

----
\* The requests that are not claims.

claimVars == <<claimLock, adminCredential, credentialFile, owner, halfway, setupTokenFile, tokensIssued, tokenGrants>>
quietVars == <<roster, oauthFile, oauthProvider, configsCrossed>>
keptVars == <<holdings, raced, countsCrossed>>

LEMMA OutsideStep ==
  ASSUME OwnershipSound, NEW c \in Owners, NEW call, Goes(c, call), call.phase \notin ClaimPhases,
         ownerCall[c].phase \notin ClaimPhases, UNCHANGED claimVars,
         roster' \in Seq(UserRows), RowsUnique', oauthFile' \in Nat, oauthProvider' \in Nat,
         holdings' \subseteq Kinds \X Emails, countsCrossed' \in BOOLEAN, configsCrossed' \in BOOLEAN,
         AdminsSound', ConfigSound', ConfigStored', HoldingsSound', \A d \in Owners : CleanSound(d)'
  PROVE  OwnershipSound'
<1>1. LocksSound' /\ \A d \in Owners : ClaimSound(d)' BY ClaimsStay DEF claimVars
<1>2. ownerCall' \in [Owners -> OwnerCalls] /\ \A d \in Owners : SaneCall(ownerCall'[d]) BY GoesFacts
<1>3. OwnershipTyped' BY <1>2 DEF OwnershipSound, OwnershipTyped, claimVars
<1> QED BY <1>1, <1>2, <1>3 DEF OwnershipSound

\* The directory and the configuration stay as they are.
LEMMA OutsideMoves ==
  ASSUME OwnershipSound, NEW c \in Owners, NEW call, Goes(c, call), call.phase \notin ClaimPhases \cup {"use"},
         ownerCall[c].phase \notin ClaimPhases \cup {"use"}, UNCHANGED claimVars, UNCHANGED quietVars,
         countsCrossed' \in BOOLEAN, AdminsSound', holdings' \subseteq holdings, raced \subseteq raced',
         call.phase \notin {"lookup", "count", "clean", "write"} \/ CleanSound(c)'
  PROVE  OwnershipSound'
<1>1. OwnershipTyped BY DEF OwnershipSound
<1>2. ConfigSound' /\ ConfigStored' BY ConfigStays DEF quietVars
<1>3. \A d \in Owners : CleanSound(d)' BY CleaningStays
<1>4. roster' \in Seq(UserRows) /\ RowsUnique' /\ \A e \in Emails : IsListed(e) => IsListed(e)' BY DirectoryStays DEF quietVars
<1>5. HoldingsSound' BY <1>4, HoldingsStay
<1>6. oauthFile' \in Nat /\ oauthProvider' \in Nat /\ holdings' \subseteq Kinds \X Emails /\ configsCrossed' \in BOOLEAN
 BY <1>1 DEF OwnershipTyped, quietVars
<1> QED BY <1>2, <1>3, <1>4, <1>5, <1>6, OutsideStep

\* A request that is answered has no part in anything.
LEMMA AnsweredSound ==
  ASSUME OwnershipSound, NEW c \in Owners, Answers(c), ownerCall[c].phase \notin ClaimPhases \cup {"use"},
         UNCHANGED claimVars, UNCHANGED quietVars, UNCHANGED raced, holdings' \subseteq holdings,
         countsCrossed => countsCrossed', countsCrossed' \in BOOLEAN
  PROVE  OwnershipSound'
<1>1. Goes(c, IdleOwner) /\ ~TakesAway(IdleOwner) /\ ~SawUser(IdleOwner) /\ ~Early(IdleOwner) /\ ~Gated(IdleOwner)
      /\ IdleOwner.phase \notin ClaimPhases \cup {"use", "lookup", "count", "clean", "write"}
 BY AnswersFacts DEF IdleOwner, TakesAway, SawUser, Early, Gated, ClaimPhases
<1>2. ~Early(ownerCall[c]) BY DEF Early, ClaimPhases
<1>3. AdminsSound' BY <1>1, <1>2, AdminsStay DEF claimVars, quietVars
<1> QED BY <1>1, <1>3, OutsideMoves

LEMMA AsksSound ==
  ASSUME OwnershipSound, NEW c \in Owners, NEW op, NEW e, NEW phase, NEW arg, NEW flag,
         AsksOwner(c, op, e, phase, arg, flag), op \in OwnerOps, e \in Emails \cup {NoEmail}, phase \in OwnerPhases,
         arg \in Nat, flag \in BOOLEAN, SaneCall([op |-> op, email |-> e, phase |-> phase, arg |-> arg, flag |-> flag]),
         phase \notin ClaimPhases \cup {"use", "count", "clean", "write"}, phase = "lookup" => arg = 1 \/ op = "role",
         phase = "invite" /\ Unexcused => roster # <<>>
  PROVE  OwnershipSound'
<1> DEFINE call == [op |-> op, email |-> e, phase |-> phase, arg |-> arg, flag |-> flag]
<1>1. /\ UNCHANGED claimVars /\ UNCHANGED quietVars /\ UNCHANGED keptVars /\ ownerCall[c] = IdleOwner
      /\ ownerCall' = [ownerCall EXCEPT ![c] = call]
 BY DEF AsksOwner, claimVars, quietVars, keptVars, ownerFiles, ownerMemory, ownerGhosts
<1>2. call \in OwnerCalls /\ call.phase = phase /\ call.arg = arg /\ call.op = op BY DEF OwnerCalls
<1> HIDE DEF call
<1>3. Goes(c, call) /\ ownerCall'[c] = call BY <1>1, <1>2, GoesFacts DEF Goes, call
<1>4. ~TakesAway(call) /\ ~Early(call) /\ ~Gated(call) /\ (SawUser(call) => phase = "invite")
 BY <1>2 DEF TakesAway, SawUser, Early, Gated, ClaimPhases
<1>5. ~Early(ownerCall[c]) /\ ownerCall[c].phase \notin ClaimPhases \cup {"use"} BY <1>1 DEF Early, ClaimPhases, IdleOwner
<1>6. AdminsSound' BY <1>1, <1>3, <1>4, <1>5, AdminsStay DEF claimVars, quietVars, keptVars, Unexcused
<1>7. countsCrossed' \in BOOLEAN BY <1>1 DEF OwnershipSound, OwnershipTyped, keptVars
<1>8. CASE phase # "lookup" BY <1>1, <1>2, <1>3, <1>5, <1>6, <1>7, <1>8, OutsideMoves DEF keptVars
<1>9. CASE phase = "lookup"
 <2>1. CleanSound(c)' BY <1>2, <1>3, <1>9 DEF CleanSound
 <2> QED BY <1>1, <1>2, <1>3, <1>5, <1>6, <1>7, <2>1, OutsideMoves DEF keptVars
<1> QED BY <1>8, <1>9

LEMMA SomeAdminFacts == OwnershipSound /\ SomeAdmin /\ Unexcused => roster # <<>>
<1> SUFFICES ASSUME OwnershipSound, SomeAdmin, Unexcused PROVE roster # <<>> OBVIOUS
<1>1. PICK a \in Emails : IsLocalAdmin(a) \/ IsListedAdmin(a) BY DEF SomeAdmin, IsAdminNow
<1>2. roster \in Seq(UserRows) /\ (adminCredential # NoEmail => roster # <<>>) BY DEF OwnershipSound, OwnershipTyped, AdminsSound
<1> QED BY <1>1, <1>2, RowFacts, OwnerFacts DEF IsLocalAdmin

LEMMA RequestsSound ==
  ASSUME OwnershipSound, NEW c \in Owners,
         \/ ClaimAdmin(c) \/ InviteUser(c) \/ RemoveUser(c) \/ ChangeRole(c)
         \/ Holds(c) \/ ConfigureGoogle(c)
  PROVE  OwnershipSound'
<1> USE DEF OwnerOps, OwnerPhases, Kinds, ClaimPhases, SaneCall
<1>1. ASSUME ClaimAdmin(c) PROVE OwnershipSound'
 <2>1. tokensIssued \in Nat BY DEF OwnershipSound, OwnershipTyped
 <2> QED BY <1>1, <2>1, AsksSound DEF ClaimAdmin
<1>2. ASSUME InviteUser(c) PROVE OwnershipSound' BY <1>2, SomeAdminFacts, AsksSound DEF InviteUser
<1>3. ASSUME RemoveUser(c) PROVE OwnershipSound'
 <2>1. PICK e \in Emails : AsksOwner(c, "remove", e, "lookup", 1, FALSE) BY <1>3 DEF RemoveUser
 <2>2. 1 \in 1..4 /\ 1 \in Nat OBVIOUS
 <2> QED BY <2>1, <2>2, AsksSound
<1>4. ASSUME ChangeRole(c) PROVE OwnershipSound' BY <1>4, AsksSound DEF ChangeRole
<1>6. ASSUME Holds(c) PROVE OwnershipSound'
 <2>1. PICK e \in Emails, kind \in HeldKinds : AsksOwner(c, "hold", e, kind, 0, FALSE) BY <1>6 DEF Holds
 <2>2. kind \in {"access", "push", "twofactor", "session"} BY OwnerFacts
 <2> QED BY <2>1, <2>2, AsksSound
<1>7. ASSUME ConfigureGoogle(c) PROVE OwnershipSound'
 <2>1. PICK n \in 1..2 : AsksOwner(c, "configure", NoEmail, "save", n, FALSE) BY <1>7 DEF ConfigureGoogle
 <2>2. n \in Nat OBVIOUS
 <2> QED BY <2>1, <2>2, AsksSound
<1> QED BY <1>1, <1>2, <1>3, <1>4, <1>6, <1>7

\* What a request of the directory is about.
LEMMA DirectoryCall ==
  ASSUME OwnershipSound, NEW c \in Owners, ownerCall[c].phase \in {"lookup", "count", "clean", "write"}
  PROVE  /\ ownerCall[c] \in OwnerCalls /\ ownerCall[c].op \in {"remove", "role"} /\ ownerCall[c].email \in Emails
         /\ ownerCall[c].op = "remove" => ownerCall[c].arg \in 1..4
         /\ ownerCall[c].phase = "clean" => ownerCall[c].op = "remove"
         /\ ownerCall[c].phase \notin ClaimPhases \cup {"use"} /\ ~Early(ownerCall[c]) /\ CleanSound(c)
BY DEF OwnershipSound, OwnershipTyped, SaneCall, ClaimPhases, Early

\* Such a request moves on.
LEMMA DirectoryMoves ==
  ASSUME OwnershipSound, NEW c \in Owners, ownerCall[c].phase \in {"lookup", "count", "clean", "write"},
         NEW phase \in {"count", "clean", "write"}, Moves(c, phase), phase = "clean" => ownerCall[c].op = "remove"
  PROVE  \E call : /\ Goes(c, call) /\ call.phase = phase /\ call.op = ownerCall[c].op /\ call.email = ownerCall[c].email
                   /\ call.arg = ownerCall[c].arg /\ call.flag = ownerCall[c].flag
                   /\ call.phase \notin ClaimPhases \cup {"use"} /\ ~Early(call) /\ ~Gated(call)
<1> DEFINE call == [ownerCall[c] EXCEPT !.phase = phase]
<1>1. /\ ownerCall[c] \in OwnerCalls /\ ownerCall[c].op \in {"remove", "role"} /\ ownerCall[c].email \in Emails
      /\ ownerCall[c].op = "remove" => ownerCall[c].arg \in 1..4
 BY DirectoryCall
<1>2. /\ call.phase = phase /\ call.op = ownerCall[c].op /\ call.email = ownerCall[c].email
      /\ call.arg = ownerCall[c].arg /\ call.flag = ownerCall[c].flag
 BY <1>1 DEF OwnerCalls
<1> HIDE DEF call
<1>3. SaneCall(call) BY <1>1, <1>2 DEF SaneCall, ClaimPhases, Kinds
<1>4. Goes(c, call) BY <1>3, MovesFacts DEF call, OwnerPhases
<1> QED BY <1>2, <1>4 DEF ClaimPhases, Early, Gated

LEMMA LookUpUserSound ==
  ASSUME OwnershipSound, NEW c \in Owners, LookUpUser(c)
  PROVE  OwnershipSound'
<1>1. /\ ownerCall[c].phase = "lookup" /\ UNCHANGED claimVars /\ UNCHANGED quietVars /\ UNCHANGED keptVars
 BY DEF LookUpUser, At, claimVars, quietVars, keptVars, ownerFiles, ownerMemory, ownerGhosts
<1>2. /\ ownerCall[c].op \in {"remove", "role"} /\ ownerCall[c].email \in Emails /\ CleanSound(c)
      /\ ownerCall[c].phase \notin ClaimPhases \cup {"use"} /\ ~Early(ownerCall[c])
 BY <1>1, DirectoryCall
<1>3. countsCrossed' \in BOOLEAN /\ roster \in Seq(UserRows) BY <1>1 DEF OwnershipSound, OwnershipTyped, keptVars
<1>4. CASE Answers(c) BY <1>1, <1>2, <1>3, <1>4, AnsweredSound DEF keptVars
<1>5. CASE ~Answers(c)
 <2> DEFINE phase == IF IsListedAdmin(ownerCall[c].email) /\ Losing(c) THEN "count" ELSE NextPhase(c)
 <2>1. IsListed(ownerCall[c].email) /\ Moves(c, phase) BY <1>5 DEF LookUpUser
 <2>2. phase \in {"count", "clean", "write"} /\ (phase = "clean" => ownerCall[c].op = "remove")
       /\ (phase = "write" => ownerCall[c].op # "remove")
  BY DEF NextPhase
 <2>3. phase \in {"clean", "write"} => ~IsListedAdmin(ownerCall[c].email) \/ ~Losing(c) BY DEF NextPhase
 <2> HIDE DEF phase
 <2>4. PICK call : /\ Goes(c, call) /\ call.phase = phase /\ call.op = ownerCall[c].op /\ call.email = ownerCall[c].email
                   /\ call.arg = ownerCall[c].arg /\ call.flag = ownerCall[c].flag
                   /\ call.phase \notin ClaimPhases \cup {"use"} /\ ~Early(call) /\ ~Gated(call)
  BY <1>1, <2>1, <2>2, DirectoryMoves
 <2>5. roster # <<>> BY <1>2, <1>3, <2>1, RowFacts
 <2>6. TakesAway(call) => ~IsListedAdmin(call.email) BY <2>3, <2>4 DEF TakesAway, Losing
 <2>7. AdminsSound' BY <1>1, <1>2, <2>4, <2>5, <2>6, AdminsStay DEF claimVars, quietVars, keptVars
 <2>8. CleanSound(c)'
  <3>1. ownerCall'[c] = call BY <2>4, GoesFacts
  <3> SUFFICES ASSUME call.op = "remove" PROVE call.phase # "write" /\ call.arg = 1 BY <3>1 DEF CleanSound
  <3> QED BY <1>1, <1>2, <2>2, <2>4 DEF CleanSound
 <2> QED BY <1>1, <1>2, <1>3, <2>4, <2>7, <2>8, OutsideMoves DEF keptVars
<1> QED BY <1>4, <1>5

\* Of two administrators one is somebody else.
LEMMA AnotherAdmin ==
  ASSUME OwnershipTyped, RowsUnique, AdminCount > 1, NEW e
  PROVE  \E a \in Emails : IsListedAdmin(a) /\ a # e
<1> DEFINE S == {i \in DOMAIN roster : roster[i].role = "admin"}
<1>1. roster \in Seq(UserRows) /\ DOMAIN roster = 1..Len(roster) /\ Len(roster) \in Nat BY DEF OwnershipTyped
<1> DEFINE rows == 1..Len(roster)
<1> SUFFICES ASSUME \A a \in Emails : IsListedAdmin(a) => a = e PROVE FALSE OBVIOUS
<1>2. \A i \in S : roster[i].email = e
 <2>1. ASSUME NEW i \in S PROVE roster[i].email = e
  <3>1. roster[i] = AdminRow(roster[i].email) /\ roster[i] \in UserRows BY <1>1, RowFacts
  <3>2. roster[i].email \in Emails /\ IsListedAdmin(roster[i].email) BY <3>1, RowFacts DEF UserRows
  <3> QED BY <3>2
 <2> QED BY <2>1
<1>3. \A i, j \in S : i = j BY <1>2 DEF RowsUnique
<1>4. S = {} \/ \E x : S = {x} BY <1>3
<1>5. Cardinality(S) \in {0, 1} BY <1>4, FS_EmptySet, FS_Singleton
<1> QED BY <1>5 DEF AdminCount

LEMMA CountAdminsSound ==
  ASSUME OwnershipSound, NEW c \in Owners, CountAdmins(c)
  PROVE  OwnershipSound'
<1>1. /\ ownerCall[c].phase = "count" /\ UNCHANGED claimVars /\ UNCHANGED quietVars /\ UNCHANGED holdings /\ UNCHANGED raced
 BY DEF CountAdmins, At, claimVars, quietVars, keptVars, ownerFiles, ownerMemory
<1>2. /\ ownerCall[c].op \in {"remove", "role"} /\ ownerCall[c].email \in Emails /\ CleanSound(c)
      /\ ownerCall[c].phase \notin ClaimPhases \cup {"use"} /\ ~Early(ownerCall[c])
 BY <1>1, DirectoryCall
<1>3. countsCrossed' \in BOOLEAN /\ (countsCrossed => countsCrossed') /\ OwnershipTyped /\ RowsUnique
 BY DEF OwnershipSound, OwnershipTyped, CountAdmins
<1>4. CASE Answers(c) BY <1>1, <1>2, <1>3, <1>4, AnsweredSound
<1>5. CASE ~Answers(c)
 <2>1. ~(AdminCount <= 1) /\ Moves(c, NextPhase(c)) BY <1>5 DEF CountAdmins
 <2>2. AdminCount > 1
  <3>1. IsFiniteSet(DOMAIN roster)
   <4>1. DOMAIN roster = 1..Len(roster) /\ Len(roster) \in Nat BY <1>3 DEF OwnershipTyped
   <4> QED BY <4>1, FS_Interval
  <3>2. AdminCount \in Nat BY <3>1, FS_Subset, FS_CardinalityType DEF AdminCount
  <3> QED BY <2>1, <3>2
 <2> DEFINE phase == NextPhase(c)
 <2>3. phase \in {"count", "clean", "write"} /\ (phase = "clean" => ownerCall[c].op = "remove")
       /\ (phase = "write" => ownerCall[c].op # "remove") /\ Moves(c, phase)
  BY <2>1 DEF NextPhase
 <2> HIDE DEF phase
 <2>4. PICK call : /\ Goes(c, call) /\ call.phase = phase /\ call.op = ownerCall[c].op /\ call.email = ownerCall[c].email
                   /\ call.arg = ownerCall[c].arg /\ call.flag = ownerCall[c].flag
                   /\ call.phase \notin ClaimPhases \cup {"use"} /\ ~Early(call) /\ ~Gated(call)
  BY <1>1, <2>3, DirectoryMoves
 <2>5. ownerCall'[c] = call /\ \A d \in Owners : d # c => ownerCall'[d] = ownerCall[d] BY <2>4, GoesFacts
 <2>6. PICK a \in Emails : IsListedAdmin(a) /\ a # ownerCall[c].email BY <1>3, <2>2, AnotherAdmin
 <2>7. IsListedAdmin(a)' BY <1>1, <2>6 DEF IsListedAdmin, quietVars
 <2>8. Unexcused' => \A d \in Owners : d # c => ~TakesAway(ownerCall[d]) BY DEF CountAdmins, Unexcused, TakesAway, Losing
 <2>9. Unexcused' => AdminKept' BY <2>4, <2>5, <2>6, <2>7, <2>8 DEF AdminKept, Safe, TakesAway
 <2>10. roster # <<>> /\ roster' \in Seq(UserRows) /\ roster' = roster
  <3>1. roster \in Seq(UserRows) BY <1>3 DEF OwnershipTyped
  <3> QED BY <1>1, <2>6, <3>1, RowFacts DEF quietVars
 <2>11. AdminsSound'
  <3> HIDE DEF AdminKept
  <3> QED BY <1>1, <1>2, <1>3, <2>4, <2>9, <2>10, AdminsMove DEF claimVars, quietVars
 <2>12. CleanSound(c)'
  <3> SUFFICES ASSUME call.op = "remove" PROVE call.phase # "write" /\ call.arg = 1 BY <2>5 DEF CleanSound
  <3> QED BY <1>1, <1>2, <2>3, <2>4 DEF CleanSound
 <2> QED BY <1>1, <1>2, <1>3, <2>4, <2>11, <2>12, OutsideMoves
<1> QED BY <1>4, <1>5

LEMMA DirectoryFailsSound ==
  ASSUME OwnershipSound, NEW c \in Owners, DirectoryFails(c)
  PROVE  OwnershipSound'
<1>1. /\ ownerCall[c].phase \notin ClaimPhases \cup {"use"} /\ Answers(c)
      /\ UNCHANGED claimVars /\ UNCHANGED quietVars /\ UNCHANGED keptVars
 BY DEF DirectoryFails, ClaimPhases, claimVars, quietVars, keptVars, ownerFiles, ownerMemory, ownerGhosts
<1>2. countsCrossed' \in BOOLEAN BY <1>1 DEF OwnershipSound, OwnershipTyped, keptVars
<1> QED BY <1>1, <1>2, AnsweredSound DEF keptVars

LEMMA CleanUpSound ==
  ASSUME OwnershipSound, NEW c \in Owners, CleanUp(c)
  PROVE  OwnershipSound'
<1>1. /\ ownerCall[c].phase = "clean" /\ UNCHANGED claimVars /\ UNCHANGED quietVars /\ UNCHANGED raced /\ UNCHANGED countsCrossed
 BY DEF CleanUp, At, claimVars, quietVars, ownerMemory, ownerGhosts
<1>2. /\ ownerCall[c].op = "remove" /\ ownerCall[c].email \in Emails /\ CleanSound(c) /\ ownerCall[c] \in OwnerCalls
      /\ ownerCall[c].arg \in 1..4
      /\ ownerCall[c].phase \notin ClaimPhases \cup {"use"} /\ ~Early(ownerCall[c])
 BY <1>1, DirectoryCall
<1>3. countsCrossed' \in BOOLEAN /\ holdings \subseteq Kinds \X Emails BY <1>1 DEF OwnershipSound, OwnershipTyped
<1> PICK i : i = ownerCall[c].arg OBVIOUS
<1> PICK e : e = ownerCall[c].email OBVIOUS
<1>4. PICK fails \in BOOLEAN :
       /\ IF fails THEN UNCHANGED holdings ELSE holdings' = holdings \ {<<CleanupOrder[i], e>>}
       /\ IF i < Len(CleanupOrder)
            THEN ownerCall' = [ownerCall EXCEPT ![c].arg = i + 1, ![c].flag = ownerCall[c].flag \/ fails]
          ELSE IF ownerCall[c].flag \/ fails THEN Answers(c) ELSE Moves(c, "write")
 BY DEF CleanUp
<1>5. holdings' \subseteq holdings BY <1>4
<1>6. CASE Answers(c) BY <1>1, <1>2, <1>3, <1>5, <1>6, AnsweredSound
<1>7. ASSUME ~ownerCall[c].flag, ~fails, NEW k \in 1..i, <<CleanupOrder[k], e>> \in holdings'
      PROVE  e \in raced'
 <2>1. <<CleanupOrder[k], e>> \in holdings /\ k # i BY <1>4, <1>7
 <2>2. k \in 1..(i - 1) BY <1>2, <1>7, <2>1
 <2> QED BY <1>1, <1>2, <1>7, <2>1, <2>2 DEF CleanSound
<1>8. TakesAway(ownerCall[c]) /\ SawUser(ownerCall[c]) BY <1>1, <1>2 DEF TakesAway, SawUser
<1>9. CASE i < Len(CleanupOrder)
 <2> DEFINE call == [ownerCall[c] EXCEPT !.arg = i + 1, !.flag = ownerCall[c].flag \/ fails]
 <2>1. i + 1 \in 1..4 /\ i + 1 \in Nat /\ (i + 1) - 1 = i BY <1>2, <1>9, OwnerFacts
 <2>2. (ownerCall[c].flag \/ fails) \in BOOLEAN BY <1>2 DEF OwnerCalls
 <2>3. /\ call \in OwnerCalls /\ call.phase = "clean" /\ call.op = "remove" /\ call.email = e /\ call.arg = i + 1
       /\ call.flag <=> ownerCall[c].flag \/ fails
  BY <1>1, <1>2, <2>1, <2>2 DEF OwnerCalls
 <2>4. ownerCall' = [ownerCall EXCEPT ![c] = call] BY <1>4, <1>9 DEF OwnershipSound, OwnershipTyped
 <2> HIDE DEF call
 <2>5. SaneCall(call) BY <1>2, <2>1, <2>3 DEF SaneCall, ClaimPhases, Kinds
 <2>6. Goes(c, call) /\ ownerCall'[c] = call BY <2>3, <2>4, <2>5, GoesFacts DEF Goes
 <2>7. ~Early(call) /\ ~Gated(call) /\ call.phase \notin ClaimPhases \cup {"use"} BY <2>3 DEF ClaimPhases, Early, Gated
 <2>8. CleanSound(c)' BY <1>7, <2>1, <2>3, <2>6 DEF CleanSound
 <2>9. AdminsSound' BY <1>1, <1>2, <1>8, <2>3, <2>6, <2>7, AdminsStay DEF claimVars, quietVars
 <2> QED BY <1>1, <1>2, <1>3, <1>5, <2>6, <2>7, <2>8, <2>9, OutsideMoves
<1>10. CASE ~(i < Len(CleanupOrder)) /\ ~ownerCall[c].flag /\ ~fails /\ Moves(c, "write")
 <2>1. PICK call : /\ Goes(c, call) /\ call.phase = "write" /\ call.op = ownerCall[c].op /\ call.email = ownerCall[c].email
                   /\ call.arg = ownerCall[c].arg /\ call.flag = ownerCall[c].flag
                   /\ call.phase \notin ClaimPhases \cup {"use"} /\ ~Early(call) /\ ~Gated(call)
  BY <1>1, <1>10, DirectoryMoves
 <2>2. ownerCall'[c] = call BY <2>1, GoesFacts
 <2>3. i = 4 BY <1>2, <1>10, OwnerFacts
 <2>4. ASSUME NEW h \in holdings', h[2] = e PROVE e \in raced'
  <3>1. h \in Kinds \X Emails BY <1>3, <1>5
  <3>2. h[1] \in Kinds /\ h = <<h[1], e>> BY <2>4, <3>1
  <3>3. PICK k \in 1..4 : CleanupOrder[k] = h[1] BY <3>2, OwnerFacts
  <3> QED BY <1>7, <1>10, <2>3, <2>4, <3>2, <3>3
 <2>5. CleanSound(c)' BY <2>1, <2>2, <2>4 DEF CleanSound
 <2>6. AdminsSound' BY <1>1, <1>2, <1>8, <2>1, AdminsStay DEF claimVars, quietVars
 <2> QED BY <1>1, <1>2, <1>3, <1>5, <2>1, <2>5, <2>6, OutsideMoves
<1> QED BY <1>4, <1>6, <1>9, <1>10

LEMMA IdleFacts ==
  /\ ~TakesAway(IdleOwner) /\ ~SawUser(IdleOwner) /\ ~Early(IdleOwner) /\ ~Gated(IdleOwner) /\ IdleOwner.op = "none"
  /\ IdleOwner.phase \notin ClaimPhases \cup {"use", "lookup", "count", "clean", "write"}
BY DEF IdleOwner, TakesAway, SawUser, Early, Gated, ClaimPhases

LEMMA StoreUserSound ==
  ASSUME OwnershipSound, NEW c \in Owners, StoreUser(c)
  PROVE  OwnershipSound'
<1>1. /\ ownerCall[c].phase = "invite" /\ Answers(c) /\ UNCHANGED claimVars /\ UNCHANGED keptVars
      /\ UNCHANGED <<oauthFile, oauthProvider, configsCrossed>>
 BY DEF StoreUser, At, claimVars, keptVars, ownerMemory, ownerGhosts
<1>2. /\ ownerCall[c].email \in Emails /\ OwnershipTyped /\ SawUser(ownerCall[c]) /\ ~Early(ownerCall[c])
      /\ ownerCall[c].phase \notin ClaimPhases \cup {"use"}
 BY <1>1 DEF OwnershipSound, SaneCall, SawUser, Early, ClaimPhases
<1>3. PICK row \in UserRows : roster' = AddRow(row) BY <1>2 DEF StoreUser, UserRows, Row, AdminRow
<1>4. CASE IsListed(row.email)
 <2>1. UNCHANGED quietVars BY <1>1, <1>3, <1>4 DEF AddRow, quietVars
 <2>2. countsCrossed' \in BOOLEAN BY <1>1, <1>2 DEF OwnershipTyped, keptVars
 <2> QED BY <1>1, <1>2, <2>1, <2>2, AnsweredSound DEF keptVars
<1>5. CASE ~IsListed(row.email)
 <2>1. /\ roster' \in Seq(UserRows) /\ roster' # <<>> /\ RowsUnique' /\ (\A e : IsListed(e) => IsListed(e)')
       /\ (\A e : IsListedAdmin(e) => IsListedAdmin(e)')
  BY <1>3, <1>5, AppendedRow DEF AddRow
 <2>2. Goes(c, IdleOwner) BY <1>1, AnswersFacts
 <2>3. ownerCall'[c] = IdleOwner /\ \A d \in Owners : d # c => ownerCall'[d] = ownerCall[d] BY <2>2, GoesFacts
 <2>4. AdminKept => AdminKept' BY <2>1, <2>3, IdleFacts DEF AdminKept, Safe, TakesAway
 <2>5. Unexcused' => roster # <<>> BY <1>1, <1>2 DEF OwnershipSound, AdminsSound, Unexcused, claimVars, keptVars
 <2>6. AdminsSound'
  <3> HIDE DEF AdminKept
  <3> QED BY <1>1, <1>2, <2>1, <2>2, <2>4, <2>5, IdleFacts, AdminsMove DEF claimVars, keptVars
 <2>7. ConfigSound' /\ ConfigStored' BY <1>1, <1>2, <2>2, IdleFacts, ConfigStays
 <2>8. \A d \in Owners : CleanSound(d)' BY <1>1, <2>2, IdleFacts, CleaningStays DEF keptVars
 <2>9. HoldingsSound' BY <1>1, <2>1, HoldingsStay DEF keptVars
 <2>10. /\ oauthFile' \in Nat /\ oauthProvider' \in Nat /\ holdings' \subseteq Kinds \X Emails
        /\ countsCrossed' \in BOOLEAN /\ configsCrossed' \in BOOLEAN
  BY <1>1, <1>2 DEF OwnershipTyped, keptVars
 <2> QED BY <1>1, <1>2, <2>1, <2>2, <2>6, <2>7, <2>8, <2>9, <2>10, IdleFacts, OutsideStep
<1> QED BY <1>4, <1>5

\* A row that is taken out of the directory, and one that is written anew.
LEMMA RemovedRow ==
  ASSUME OwnershipSound, NEW at \in DOMAIN roster, roster' = RemoveAt(roster, at)
  PROVE  /\ roster' \in Seq(UserRows) /\ RowsUnique'
         /\ \A i \in DOMAIN roster : i # at => \E k \in DOMAIN roster' : roster'[k] = roster[i]
<1> DEFINE n == Len(roster)
            left == SubSeq(roster, 1, at - 1)
            right == SubSeq(roster, at + 1, n)
<1>1. /\ roster \in Seq(UserRows) /\ RowsUnique /\ n \in Nat /\ DOMAIN roster = 1..n /\ at \in 1..n
      /\ \A i \in 1..n : roster[i] \in UserRows
 BY DEF OwnershipSound, OwnershipTyped
<1>2. /\ left \in Seq(UserRows) /\ Len(left) = at - 1 /\ \A i \in 1..(at - 1) : left[i] = roster[i]
 <2>1. \A i \in 1..(at - 1) : roster[i] \in UserRows BY <1>1
 <2>2. 1 \in Int /\ at - 1 \in Int /\ (at - 1) - 1 + 1 = at - 1 /\ (IF 1 <= at - 1 THEN (at - 1) - 1 + 1 ELSE 0) = at - 1
       /\ \A i \in 1..(at - 1) : 1 + i - 1 = i
  BY <1>1
 <2> HIDE DEF n
 <2> QED BY <2>1, <2>2, SubSeqProperties
<1>3. /\ right \in Seq(UserRows) /\ Len(right) = n - at /\ \A i \in 1..(n - at) : right[i] = roster[at + i]
 <2>1. \A i \in (at + 1)..n : roster[i] \in UserRows BY <1>1
 <2>2. at + 1 \in Int /\ n \in Int /\ n - (at + 1) + 1 = n - at /\ (IF at + 1 <= n THEN n - (at + 1) + 1 ELSE 0) = n - at
       /\ \A i \in 1..(n - at) : (at + 1) + i - 1 = at + i
  BY <1>1
 <2> HIDE DEF n
 <2> QED BY <2>1, <2>2, SubSeqProperties
<1>4. roster' = left \o right BY DEF RemoveAt
<1> HIDE DEF left, right
<1>5. /\ roster' \in Seq(UserRows) /\ Len(roster') = n - 1 /\ DOMAIN roster' = 1..(n - 1)
      /\ \A i \in 1..(n - 1) : roster'[i] = IF i < at THEN roster[i] ELSE roster[i + 1]
 <2>1. /\ left \o right \in Seq(UserRows) /\ Len(left \o right) = (at - 1) + (n - at)
       /\ \A i \in 1..((at - 1) + (n - at)) : (left \o right)[i] = IF i <= at - 1 THEN left[i] ELSE right[i - (at - 1)]
  <3>1. /\ left \o right \in Seq(UserRows) /\ Len(left \o right) = Len(left) + Len(right)
        /\ \A i \in 1..(Len(left) + Len(right)) :
             (left \o right)[i] = IF i <= Len(left) THEN left[i] ELSE right[i - Len(left)]
   BY <1>2, <1>3, ConcatProperties
  <3>2. Len(left) = at - 1 /\ Len(right) = n - at BY <1>2, <1>3
  <3> QED BY <3>1, <3>2
 <2>2. (at - 1) + (n - at) = n - 1 BY <1>1
 <2>3. ASSUME NEW i \in 1..(n - 1) PROVE (left \o right)[i] = IF i < at THEN roster[i] ELSE roster[i + 1]
  <3>1. CASE i < at
   <4>1. i <= at - 1 /\ i \in 1..(at - 1) BY <1>1, <3>1
   <4> QED BY <1>2, <2>1, <2>2, <3>1, <4>1
  <3>2. CASE ~(i < at)
   <4>1. ~(i <= at - 1) /\ i - (at - 1) \in 1..(n - at) /\ at + (i - (at - 1)) = i + 1 BY <1>1, <3>2
   <4> QED BY <1>3, <2>1, <2>2, <3>2, <4>1
  <3> QED BY <3>1, <3>2
 <2> QED BY <1>4, <2>1, <2>2, <2>3
<1>6. \A i \in DOMAIN roster : i # at => \E k \in DOMAIN roster' : roster'[k] = roster[i]
 <2>1. ASSUME NEW i \in DOMAIN roster, i # at PROVE \E k \in DOMAIN roster' : roster'[k] = roster[i]
  <3>1. CASE i < at
   <4>1. i \in 1..(n - 1) BY <1>1, <3>1
   <4> QED BY <1>5, <3>1, <4>1
  <3>2. CASE ~(i < at)
   <4>1. i - 1 \in 1..(n - 1) /\ ~(i - 1 < at) /\ (i - 1) + 1 = i BY <1>1, <2>1, <3>2
   <4> QED BY <1>5, <4>1
  <3> QED BY <3>1, <3>2
 <2> QED BY <2>1
<1>7. RowsUnique'
 <2> SUFFICES ASSUME NEW i \in 1..(n - 1), NEW j \in 1..(n - 1), roster'[i].email = roster'[j].email PROVE i = j
  BY <1>5 DEF RowsUnique
 <2> DEFINE of(k) == IF k < at THEN k ELSE k + 1
 <2>1. of(i) \in 1..n /\ of(j) \in 1..n /\ roster'[i] = roster[of(i)] /\ roster'[j] = roster[of(j)] BY <1>1, <1>5
 <2>2. of(i) = of(j)
  <3> HIDE DEF of
  <3> QED BY <1>1, <2>1 DEF RowsUnique
 <2> QED BY <1>1, <2>2
<1> QED BY <1>5, <1>6, <1>7

LEMMA WrittenRow ==
  ASSUME OwnershipSound, NEW at \in DOMAIN roster, NEW row \in UserRows, row.email = roster[at].email,
         roster' = [roster EXCEPT ![at] = row]
  PROVE  /\ roster' \in Seq(UserRows) /\ RowsUnique' /\ DOMAIN roster' = DOMAIN roster /\ roster'[at] = row
         /\ \A i \in DOMAIN roster : i # at => roster'[i] = roster[i]
<1>1. roster \in Seq(UserRows) /\ RowsUnique BY DEF OwnershipSound, OwnershipTyped
<1>2. /\ roster' \in Seq(UserRows) /\ DOMAIN roster' = DOMAIN roster /\ roster'[at] = row
      /\ \A i \in DOMAIN roster : i # at => roster'[i] = roster[i]
 BY <1>1
<1>3. \A i \in DOMAIN roster : roster'[i].email = roster[i].email BY <1>2
<1> QED BY <1>1, <1>2, <1>3 DEF RowsUnique

LEMMA WriteUserSound ==
  ASSUME OwnershipSound, NEW c \in Owners, WriteUser(c)
  PROVE  OwnershipSound'
<1>1. /\ ownerCall[c].phase = "write" /\ Answers(c) /\ UNCHANGED claimVars /\ UNCHANGED keptVars
      /\ UNCHANGED <<oauthFile, oauthProvider, configsCrossed>>
 BY DEF WriteUser, At, claimVars, keptVars, ownerMemory, ownerGhosts
<1>2. /\ ownerCall[c].email \in Emails /\ ~Early(ownerCall[c]) /\ ownerCall[c].op \in {"remove", "role"}
      /\ ownerCall[c].phase \notin ClaimPhases \cup {"use"} /\ CleanSound(c)
 BY <1>1, DirectoryCall
<1>3. OwnershipTyped /\ RowsUnique /\ HoldingsSound BY DEF OwnershipSound
<1> PICK e : e = ownerCall[c].email OBVIOUS
<1>4. CASE ~IsListed(e)
 <2>1. UNCHANGED quietVars BY <1>1, <1>4 DEF WriteUser, quietVars
 <2>2. countsCrossed' \in BOOLEAN BY <1>1, <1>3 DEF OwnershipTyped, keptVars
 <2> QED BY <1>1, <1>2, <2>1, <2>2, AnsweredSound DEF keptVars
<1>5. CASE IsListed(e)
 <2> DEFINE at == CHOOSE i \in DOMAIN roster : roster[i].email = e
 <2>1. at \in DOMAIN roster /\ roster[at].email = e BY <1>5 DEF IsListed
 <2>2. \/ ownerCall[c].op = "remove" /\ roster' = RemoveAt(roster, at)
       \/ ownerCall[c].op # "remove" /\ roster' = [roster EXCEPT ![at] = IF ownerCall[c].flag THEN AdminRow(e) ELSE Row(e)]
  BY <1>5 DEF WriteUser
 <2> HIDE DEF at
 <2> PICK k : k = at OBVIOUS
 <2>3. /\ roster' \in Seq(UserRows) /\ RowsUnique'
       /\ \A i \in DOMAIN roster : i # k => \E m \in DOMAIN roster' : roster'[m] = roster[i]
       /\ ownerCall[c].op # "remove" => \E m \in DOMAIN roster' : roster'[m].email = e
       /\ ~TakesAway(ownerCall[c]) => \E m \in DOMAIN roster' : roster'[m] = AdminRow(e)
  <3>1. CASE ownerCall[c].op = "remove" /\ roster' = RemoveAt(roster, at) BY <1>1, <2>1, <3>1, RemovedRow DEF TakesAway
  <3>2. CASE ownerCall[c].op # "remove" /\ roster' = [roster EXCEPT ![at] = IF ownerCall[c].flag THEN AdminRow(e) ELSE Row(e)]
   <4> DEFINE row == IF ownerCall[c].flag THEN AdminRow(e) ELSE Row(e)
   <4>1. row \in UserRows /\ row.email = e /\ (~TakesAway(ownerCall[c]) => row = AdminRow(e))
    BY <1>1, <1>2, <3>2 DEF Row, AdminRow, UserRows, TakesAway
   <4> HIDE DEF row
   <4>2. /\ roster' \in Seq(UserRows) /\ RowsUnique' /\ DOMAIN roster' = DOMAIN roster /\ roster'[at] = row
         /\ \A i \in DOMAIN roster : i # at => roster'[i] = roster[i]
    BY <2>1, <3>2, <4>1, WrittenRow DEF row
   <4> QED BY <2>1, <3>2, <4>1, <4>2
  <3> QED BY <2>2, <3>1, <3>2
 <2>4. \A a : IsListed(a) /\ a # e => IsListed(a)' BY <2>1, <2>3 DEF IsListed
 <2>5. ownerCall[c].op # "remove" => IsListed(e)' BY <2>3 DEF IsListed
 <2>6. \A a : IsListedAdmin(a)' <=> \E i \in DOMAIN roster' : roster'[i] = AdminRow(a) BY DEF IsListedAdmin, ToSet, AdminRow
 <2>7. \A a : IsListedAdmin(a) /\ a # e => IsListedAdmin(a)'
  <3>1. ASSUME NEW a, IsListedAdmin(a), a # e PROVE IsListedAdmin(a)'
   <4>1. PICK i \in DOMAIN roster : roster[i] = AdminRow(a) BY <3>1, RowFacts
   <4>2. i # k BY <2>1, <3>1, <4>1 DEF AdminRow
   <4> QED BY <2>3, <2>6, <4>1, <4>2
  <3> QED BY <3>1
 <2>8. ~TakesAway(ownerCall[c]) => IsListedAdmin(e)' BY <2>3, <2>6
 <2>9. Goes(c, IdleOwner) BY <1>1, AnswersFacts
 <2>10. ownerCall'[c] = IdleOwner /\ \A d \in Owners : d # c => ownerCall'[d] = ownerCall[d] BY <2>9, GoesFacts
 <2>11. AdminKept => AdminKept'
  <3>1. ASSUME NEW a \in Emails, Safe(a) PROVE Safe(a)'
   <4>1. IsListedAdmin(a)' BY <2>7, <2>8, <3>1 DEF Safe
   <4>2. ASSUME NEW d \in Owners, TakesAway(ownerCall'[d]) PROVE ownerCall'[d].email # a BY <2>10, <3>1, <4>2, IdleFacts DEF Safe
   <4> QED BY <4>1, <4>2 DEF Safe, TakesAway
  <3> QED BY <3>1 DEF AdminKept
 <2>12. Unexcused' => roster # <<>>
  <3>1. roster \in Seq(UserRows) BY <1>3 DEF OwnershipTyped
  <3> QED BY <1>2, <1>5, <3>1, RowFacts
 <2>13. AdminsSound'
  <3> HIDE DEF AdminKept
  <3> QED BY <1>1, <1>2, <2>3, <2>9, <2>11, <2>12, IdleFacts, AdminsMove DEF claimVars, keptVars
 <2>14. ConfigSound' /\ ConfigStored' BY <1>1, <1>2, <2>9, IdleFacts, ConfigStays
 <2>15. \A d \in Owners : CleanSound(d)' BY <1>1, <2>9, IdleFacts, CleaningStays DEF keptVars
 <2>16. HoldingsSound'
  <3>1. ASSUME NEW h \in holdings PROVE IsListed(h[2])' \/ h[2] \in raced
   <4>1. CASE h[2] = e /\ ownerCall[c].op = "remove" BY <1>1, <1>2, <4>1 DEF CleanSound
   <4>2. CASE h[2] = e /\ ownerCall[c].op # "remove" BY <2>5, <4>2
   <4>3. CASE h[2] # e BY <1>3, <2>4, <4>3 DEF HoldingsSound
   <4> QED BY <4>1, <4>2, <4>3
  <3> QED BY <1>1, <3>1 DEF HoldingsSound, keptVars
 <2>17. /\ oauthFile' \in Nat /\ oauthProvider' \in Nat /\ holdings' \subseteq Kinds \X Emails
        /\ countsCrossed' \in BOOLEAN /\ configsCrossed' \in BOOLEAN
  BY <1>1, <1>3 DEF OwnershipTyped, keptVars
 <2> QED BY <1>1, <1>2, <2>3, <2>9, <2>13, <2>14, <2>15, <2>16, <2>17, IdleFacts, OutsideStep
<1> QED BY <1>4, <1>5

LEMMA StoreHoldingSound ==
  ASSUME OwnershipSound, NEW c \in Owners, StoreHolding(c)
  PROVE  OwnershipSound'
<1>1. /\ ownerCall[c].op = "hold" /\ Answers(c) /\ UNCHANGED claimVars /\ UNCHANGED quietVars /\ UNCHANGED countsCrossed
      /\ holdings' = holdings \cup {<<ownerCall[c].phase, ownerCall[c].email>>}
      /\ raced' = IF BeingRemoved(ownerCall[c].email) THEN raced \cup {ownerCall[c].email} ELSE raced
 BY DEF StoreHolding, claimVars, quietVars, ownerMemory
<1> PICK e : e = ownerCall[c].email OBVIOUS
<1>2. /\ e \in Emails /\ ownerCall[c].phase \in Kinds /\ OwnershipTyped /\ RowsUnique /\ HoldingsSound
      /\ ownerCall[c].phase \notin ClaimPhases \cup {"use"} /\ ~Early(ownerCall[c])
 BY <1>1 DEF OwnershipSound, SaneCall, ClaimPhases, Kinds, Early
<1>3. Goes(c, IdleOwner) BY <1>1, AnswersFacts
<1>4. ownerCall'[c] = IdleOwner /\ \A d \in Owners : d # c => ownerCall'[d] = ownerCall[d] BY <1>3, GoesFacts
<1>5. AdminsSound' BY <1>1, <1>2, <1>3, IdleFacts, AdminsStay DEF claimVars, quietVars
<1>6. ConfigSound' /\ ConfigStored' BY <1>1, <1>2, <1>3, IdleFacts, ConfigStays DEF quietVars
<1>7. roster' \in Seq(UserRows) /\ RowsUnique' /\ \A a : IsListed(a) => IsListed(a)' BY <1>1, DirectoryStays DEF quietVars
<1>8. raced \subseteq raced' /\ (BeingRemoved(e) => e \in raced') BY <1>1
<1>9. HoldingsSound' BY <1>1, <1>2, <1>7, <1>8 DEF HoldingsSound, BeingRemoved
<1>10. ASSUME NEW d \in Owners PROVE CleanSound(d)'
 <2>1. CASE d = c BY <1>4, <2>1, IdleFacts DEF CleanSound
 <2>2. CASE d # c
  <3> SUFFICES ASSUME ownerCall[d].op = "remove"
       PROVE /\ ownerCall[d].phase \in {"lookup", "count"} => ownerCall[d].arg = 1
             /\ ownerCall[d].phase = "clean" /\ ~ownerCall[d].flag =>
                  \A i \in 1..(ownerCall[d].arg - 1) :
                    <<CleanupOrder[i], ownerCall[d].email>> \in holdings' => ownerCall[d].email \in raced'
             /\ ownerCall[d].phase = "write" =>
                  \A h \in holdings' : h[2] = ownerCall[d].email => ownerCall[d].email \in raced'
   BY <1>4, <2>2 DEF CleanSound
  <3>1. CleanSound(d) BY DEF OwnershipSound
  <3>2. ownerCall[d].phase \in {"clean", "write"} /\ ownerCall[d].email = e => e \in raced' BY <1>8 DEF BeingRemoved
  <3>3. \A h \in holdings' : h \in holdings \/ h[2] = e BY <1>1
  <3> QED BY <1>8, <3>1, <3>2, <3>3 DEF CleanSound
 <2> QED BY <2>1, <2>2
<1>11. /\ oauthFile' \in Nat /\ oauthProvider' \in Nat /\ holdings' \subseteq Kinds \X Emails
       /\ countsCrossed' \in BOOLEAN /\ configsCrossed' \in BOOLEAN
 BY <1>1, <1>2 DEF OwnershipTyped, quietVars
<1> QED BY <1>1, <1>2, <1>3, <1>5, <1>6, <1>7, <1>9, <1>10, <1>11, IdleFacts, OutsideStep

\* What changes the configuration leaves the directory alone.
LEMMA ConfigStep ==
  ASSUME OwnershipSound, NEW c \in Owners, NEW call, Goes(c, call), ownerCall[c].phase \in {"save", "use"},
         call.phase \in {"idle", "use"}, UNCHANGED claimVars, UNCHANGED keptVars, UNCHANGED roster,
         oauthFile' \in Nat, oauthProvider' \in Nat, configsCrossed' \in BOOLEAN, ConfigSound', ConfigStored'
  PROVE  OwnershipSound'
<1>1. /\ ownerCall[c].phase \notin ClaimPhases /\ ~Early(ownerCall[c])
      /\ call.phase \notin ClaimPhases \cup {"lookup", "count", "clean", "write"} /\ ~Early(call)
      /\ ~TakesAway(call) /\ ~SawUser(call) /\ ~Gated(call)
 BY DEF ClaimPhases, Early, TakesAway, SawUser, Gated
<1>2. AdminsSound' BY <1>1, AdminsStay DEF claimVars, keptVars
<1>3. \A d \in Owners : CleanSound(d)' BY <1>1, CleaningStays DEF keptVars
<1>4. roster' \in Seq(UserRows) /\ RowsUnique' /\ \A e \in Emails : IsListed(e) => IsListed(e)' BY DirectoryStays
<1>5. HoldingsSound' BY <1>4, HoldingsStay DEF keptVars
<1>6. holdings' \subseteq Kinds \X Emails /\ countsCrossed' \in BOOLEAN BY DEF OwnershipSound, OwnershipTyped, keptVars
<1> QED BY <1>1, <1>2, <1>3, <1>4, <1>5, <1>6, OutsideStep

LEMMA SaveOAuthConfigSound ==
  ASSUME OwnershipSound, NEW c \in Owners, SaveOAuthConfig(c)
  PROVE  OwnershipSound'
<1>1. /\ ownerCall[c].phase = "save" /\ UNCHANGED claimVars /\ UNCHANGED keptVars /\ UNCHANGED roster
      /\ UNCHANGED oauthProvider /\ OwnershipTyped /\ ownerCall[c] \in OwnerCalls /\ SaneCall(ownerCall[c])
 BY DEF SaveOAuthConfig, At, claimVars, keptVars, ownerMemory, OwnershipSound, OwnershipTyped
<1>2. CASE /\ oauthFile' = ownerCall[c].arg /\ Moves(c, "use")
           /\ configsCrossed' = (configsCrossed \/ \E d \in Owners : At(d, "use"))
 <2> DEFINE call == [ownerCall[c] EXCEPT !.phase = "use"]
 <2>1. call.phase = "use" /\ call.arg = ownerCall[c].arg /\ call.op = ownerCall[c].op /\ call.op = "configure"
  BY <1>1 DEF OwnerCalls, SaneCall
 <2>2. SaneCall(call) BY <2>1 DEF SaneCall, ClaimPhases, Kinds
 <2>3. Goes(c, call) BY <1>2, <2>2, MovesFacts DEF OwnerPhases
 <2> HIDE DEF call
 <2>4. ownerCall'[c] = call /\ \A d \in Owners : d # c => ownerCall'[d] = ownerCall[d] BY <2>3, GoesFacts
 <2>5. ConfigSound' /\ ConfigStored' BY <1>2, <2>1, <2>4 DEF ConfigSound, ConfigStored, At
 <2>6. oauthFile' \in Nat /\ oauthProvider' \in Nat /\ configsCrossed' \in BOOLEAN
  <3>1. ownerCall[c].arg \in Nat BY <1>1 DEF OwnerCalls
  <3> QED BY <1>1, <1>2, <3>1 DEF OwnershipTyped
 <2> QED BY <1>1, <2>1, <2>3, <2>5, <2>6, ConfigStep
<1>3. CASE Answers(c) /\ UNCHANGED <<oauthFile, configsCrossed>>
 <2>1. ownerCall[c].phase \notin ClaimPhases \cup {"use"} /\ UNCHANGED quietVars /\ countsCrossed' \in BOOLEAN
  BY <1>1, <1>3 DEF ClaimPhases, quietVars, keptVars, OwnershipTyped
 <2> QED BY <1>1, <1>3, <2>1, AnsweredSound DEF keptVars
<1> QED BY <1>2, <1>3 DEF SaveOAuthConfig

LEMMA UseOAuthConfigSound ==
  ASSUME OwnershipSound, NEW c \in Owners, UseOAuthConfig(c)
  PROVE  OwnershipSound'
<1>1. /\ ownerCall[c].phase = "use" /\ UNCHANGED claimVars /\ UNCHANGED keptVars /\ UNCHANGED roster /\ Answers(c)
      /\ UNCHANGED <<oauthFile, configsCrossed>> /\ oauthProvider' = ownerCall[c].arg
      /\ OwnershipTyped /\ ownerCall[c] \in OwnerCalls /\ ConfigSound
 BY DEF UseOAuthConfig, At, claimVars, keptVars, ownerFiles, ownerGhosts, OwnershipSound, OwnershipTyped
<1>2. Goes(c, IdleOwner) /\ IdleOwner.phase = "idle" BY <1>1, AnswersFacts DEF IdleOwner
<1>3. ownerCall'[c] = IdleOwner /\ \A d \in Owners : d # c => ownerCall'[d] = ownerCall[d] BY <1>2, GoesFacts
<1>4. ConfigSound' /\ ConfigStored' BY <1>1, <1>2, <1>3 DEF ConfigSound, ConfigStored, At
<1>5. oauthFile' \in Nat /\ oauthProvider' \in Nat /\ configsCrossed' \in BOOLEAN
 <2>1. ownerCall[c].arg \in Nat BY <1>1 DEF OwnerCalls
 <2> QED BY <1>1, <2>1 DEF OwnershipTyped
<1> QED BY <1>1, <1>2, <1>4, <1>5, ConfigStep

----
\* What happens to the setup token alone, or to nothing that a claim knows.
LEMMA TokensMove ==
  ASSUME OwnershipSound, setupTokenFile' \in [id : Nat, used : BOOLEAN], tokensIssued' \in Nat, UNCHANGED quietVars,
         UNCHANGED keptVars,
         UNCHANGED <<credentialFile, adminCredential, claimLock, ownerCall, owner, tokenGrants, halfway>>
  PROVE  OwnershipSound'
<1> USE DEF quietVars, keptVars
<1>1. OwnershipTyped' /\ RowsUnique' /\ LocksSound'
 BY DEF OwnershipSound, OwnershipTyped, RowsUnique, LocksSound, MemoryIsStored, ClaimStands
<1>2. AdminsSound' BY DEF OwnershipSound, AdminsSound, Unexcused, AdminKept, Safe, IsListedAdmin
<1>3. HoldingsSound' /\ ConfigSound' /\ ConfigStored'
 BY DEF OwnershipSound, HoldingsSound, IsListed, ConfigSound, ConfigStored, At
<1>4. \A c \in Owners : SaneCall(ownerCall'[c]) /\ ClaimSound(c)' /\ CleanSound(c)' BY DEF OwnershipSound, ClaimSound, CleanSound
<1> QED BY <1>1, <1>2, <1>3, <1>4 DEF OwnershipSound

LEMMA OwnershipRests == OwnershipSound /\ UNCHANGED ownershipVars => OwnershipSound'
<1> SUFFICES ASSUME OwnershipSound, UNCHANGED ownershipVars PROVE OwnershipSound' OBVIOUS
<1>1. setupTokenFile' \in [id : Nat, used : BOOLEAN] /\ tokensIssued' \in Nat BY DEF OwnershipSound, OwnershipTyped, ownershipVars
<1> QED BY <1>1, TokensMove DEF ownershipVars, quietVars, keptVars

LEMMA TokensSound ==
  ASSUME OwnershipSound, NewSetupTokenIssuer \/ EnsureSetupToken \/ PrintToken \/ TokenExpires
  PROVE  OwnershipSound'
<1>1. /\ UNCHANGED quietVars /\ UNCHANGED keptVars
      /\ UNCHANGED <<credentialFile, adminCredential, claimLock, ownerCall, owner, tokenGrants, halfway>>
      /\ UNCHANGED <<setupTokenFile, tokensIssued>> \/ Issue
 BY DEF NewSetupTokenIssuer, EnsureSetupToken, PrintToken, TokenExpires, ownerFiles, ownerMemory, ownerGhosts,
        quietVars, keptVars
<1>2. setupTokenFile \in [id : Nat, used : BOOLEAN] /\ tokensIssued \in Nat BY DEF OwnershipSound, OwnershipTyped
<1>3. [id |-> tokensIssued + 1, used |-> FALSE] \in [id : Nat, used : BOOLEAN] /\ tokensIssued + 1 \in Nat BY <1>2
<1>4. setupTokenFile' \in [id : Nat, used : BOOLEAN] /\ tokensIssued' \in Nat BY <1>1, <1>2, <1>3 DEF Issue
<1> QED BY <1>1, <1>4, TokensMove

\* After a restart no request stands, and the process knows what is stored.
LEMMA OwnerRebootSound ==
  ASSUME OwnershipSound, NEW startOver \in BOOLEAN, OwnerReboot(startOver)
  PROVE  OwnershipSound'
<1>1. /\ credentialFile' = (IF startOver THEN NoEmail ELSE credentialFile) /\ adminCredential' = credentialFile'
      /\ oauthProvider' = oauthFile /\ UNCHANGED <<roster, oauthFile, holdings, tokenGrants, countsCrossed, configsCrossed, raced>>
      /\ claimLock' = FALSE /\ ownerCall' = [c \in Owners |-> IdleOwner]
      /\ halfway' = (halfway \/ \E c \in Owners : ownerCall[c].phase \in {"registered", "bootstrap", "rollback"})
      /\ owner' = (IF startOver THEN NoEmail ELSE owner)
      /\ UNCHANGED <<setupTokenFile, tokensIssued>> \/ Issue
 BY DEF OwnerReboot
<1>2. OwnershipTyped /\ RowsUnique /\ HoldingsSound /\ ClaimStands BY DEF OwnershipSound, LocksSound
<1>3. \A c \in Owners : ownerCall'[c] = IdleOwner BY <1>1
<1>4. OwnershipTyped'
 <2>1. [id |-> tokensIssued + 1, used |-> FALSE] \in [id : Nat, used : BOOLEAN] /\ tokensIssued + 1 \in Nat
  BY <1>2 DEF OwnershipTyped
 <2>2. setupTokenFile' \in [id : Nat, used : BOOLEAN] /\ tokensIssued' \in Nat BY <1>1, <1>2, <2>1 DEF Issue, OwnershipTyped
 <2>3. ownerCall' \in [Owners -> OwnerCalls] BY <1>1, OwnerFacts
 <2> QED BY <1>1, <1>2, <2>2, <2>3 DEF OwnershipTyped
<1>5. RowsUnique' /\ \A e : IsListed(e) <=> IsListed(e)' BY <1>1, <1>2 DEF RowsUnique, IsListed
<1>6. LocksSound' BY <1>1, <1>2 DEF LocksSound, MemoryIsStored, ClaimStands
<1>7. HoldingsSound' /\ ConfigSound' /\ ConfigStored'
 BY <1>1, <1>2, <1>3, <1>5, IdleFacts DEF HoldingsSound, ConfigSound, ConfigStored, At
<1>8. \A c \in Owners : SaneCall(ownerCall'[c]) /\ ClaimSound(c)' /\ CleanSound(c)'
 BY <1>3, IdleFacts, OwnerFacts DEF ClaimSound, CleanSound, ClaimPhases
<1>9. AdminsSound'
 <2> SUFFICES ASSUME Unexcused' PROVE
      /\ roster' # <<>> => AdminKept'
      /\ credentialFile' # NoEmail => roster' # <<>>
      /\ \A d \in Owners : ~SawUser(ownerCall'[d]) /\ ~Gated(ownerCall'[d])
      /\ tokenGrants' # <<>> => roster' # <<>> /\ Len(tokenGrants') = 1
  BY <1>1 DEF AdminsSound, SawUser, Early, Gated
 <2>1. Unexcused /\ \A d \in Owners : ~Early(ownerCall[d]) BY <1>1 DEF Unexcused, Early
 <2>2. /\ roster # <<>> => AdminKept
       /\ credentialFile # NoEmail => roster # <<>>
       /\ tokenGrants # <<>> => roster # <<>> /\ Len(tokenGrants) = 1
  BY <2>1 DEF OwnershipSound, AdminsSound
 <2>3. AdminKept => AdminKept'
  <3>1. ASSUME NEW e \in Emails, Safe(e) PROVE Safe(e)'
   <4>1. IsListedAdmin(e)' BY <1>1, <3>1 DEF Safe, IsListedAdmin
   <4> QED BY <1>3, <4>1, IdleFacts DEF Safe, TakesAway
  <3> QED BY <3>1 DEF AdminKept
 <2> QED BY <1>1, <1>3, <2>2, <2>3, IdleFacts
<1> QED BY <1>4, <1>5, <1>6, <1>7, <1>8, <1>9 DEF OwnershipSound

LEMMA OwnershipStepSound == OwnershipSound /\ OwnershipNext => OwnershipSound'
<1> SUFFICES ASSUME OwnershipSound, OwnershipNext PROVE OwnershipSound' OBVIOUS
<1>1. ASSUME NEW c \in Owners,
             \/ ClaimAdmin(c) \/ InviteUser(c) \/ RemoveUser(c) \/ ChangeRole(c)
             \/ Holds(c) \/ ConfigureGoogle(c)
      PROVE  OwnershipSound'
 BY <1>1, RequestsSound
<1>2. ASSUME NEW c \in Owners, OwnerStep(c) PROVE OwnershipSound'
 <2>1. ASSUME ClaimAborts(c) PROVE OwnershipSound' BY <2>1, ClaimAbortsSound DEF ClaimAborts
 <2>2. ASSUME ClaimStarts(c) \/ ClaimGated(c) \/ ClaimVerified(c) \/ CreateLocalAdmin(c) \/ ClaimFails(c)
              \/ ClaimRegistered(c) \/ AddBootstrapAdmin(c) \/ RollBackClaim(c) \/ Reconcile(c)
              \/ GrantClaim(c) \/ ReadToken(c) \/ SpendToken(c)
       PROVE  OwnershipSound'
  BY <2>2, ClaimStartsSound, ClaimGatedSound, ClaimVerifiedSound, CreateLocalAdminSound, ClaimFailsSound,
     ClaimRegisteredSound, AddBootstrapAdminSound, RollBackClaimSound, ReconcileSound, GrantClaimSound,
     ReadTokenSound, SpendTokenSound
 <2>3. ASSUME StoreUser(c) \/ LookUpUser(c) \/ CountAdmins(c) \/ CleanUp(c) \/ WriteUser(c) \/ DirectoryFails(c)
              \/ StoreHolding(c) \/ SaveOAuthConfig(c) \/ UseOAuthConfig(c)
       PROVE  OwnershipSound'
  BY <2>3, StoreUserSound, LookUpUserSound, CountAdminsSound, CleanUpSound, WriteUserSound, DirectoryFailsSound,
     StoreHoldingSound, SaveOAuthConfigSound, UseOAuthConfigSound
 <2> QED BY <1>2, <2>1, <2>2, <2>3 DEF OwnerStep
<1> QED BY <1>1, <1>2, TokensSound, OwnerRebootSound DEF OwnershipNext

LEMMA InitOwnershipSound == OwnershipInit => OwnershipSound
<1> SUFFICES ASSUME OwnershipInit PROVE OwnershipSound OBVIOUS
<1>1. /\ setupTokenFile = [id |-> tokensIssued, used |-> FALSE] /\ tokensIssued \in {0, 1}
      /\ adminCredential = credentialFile /\ oauthProvider = oauthFile /\ oauthFile \in {0, 1}
      /\ claimLock = FALSE /\ ownerCall = [c \in Owners |-> IdleOwner] /\ holdings = {} /\ owner = NoEmail
      /\ tokenGrants = <<>> /\ halfway = FALSE /\ countsCrossed = FALSE /\ configsCrossed = FALSE
 BY DEF OwnershipInit
<1>2. \A c \in Owners : ownerCall[c] = IdleOwner BY <1>1
<1>3. \A a, b \in Emails : AdminRow(a) \in UserRows /\ Row(b) \in UserRows /\ AdminRow(a).email = a /\ Row(b).email = b
 BY DEF AdminRow, Row, UserRows
<1> DEFINE Begun ==
         /\ roster \in Seq(UserRows) /\ credentialFile \in Emails \cup {NoEmail} /\ RowsUnique
         /\ roster # <<>> => \E e \in Emails : roster[1] = AdminRow(e) /\ 1 \in DOMAIN roster
         /\ credentialFile # NoEmail => roster # <<>>
<1>4. Begun
 <2>1. ASSUME roster = <<>>, credentialFile = NoEmail PROVE Begun BY <2>1 DEF RowsUnique
 <2>2. ASSUME NEW e \in Emails, NEW d \in Emails \ {e}, NEW row \in {AdminRow(d), Row(d)}, roster = <<AdminRow(e), row>>,
              credentialFile \in {e, NoEmail}
       PROVE  Begun
  <3>1. AdminRow(e) \in UserRows /\ row \in UserRows BY <1>3
  <3>2. AdminRow(e).email # row.email BY <1>3
  <3>3. /\ roster \in Seq(UserRows) /\ Len(roster) = 2 /\ DOMAIN roster = 1..2
        /\ roster[1] = AdminRow(e) /\ roster[2] = row
   BY <2>2, <3>1
  <3>4. RowsUnique BY <3>2, <3>3 DEF RowsUnique
  <3>5. roster # <<>> /\ 1 \in DOMAIN roster BY <3>3
  <3> QED BY <2>2, <3>3, <3>4, <3>5
 <2> HIDE DEF Begun
 <2> QED BY <2>1, <2>2 DEF OwnershipInit
<1>5. OwnershipTyped
 <2>1. tokensIssued \in Nat /\ oauthFile \in Nat /\ [id |-> tokensIssued, used |-> FALSE] \in [id : Nat, used : BOOLEAN] BY <1>1
 <2>2. ownerCall \in [Owners -> OwnerCalls] /\ tokenGrants \in Seq(Nat) BY <1>1, OwnerFacts
 <2>3. claimLock \in BOOLEAN /\ halfway \in BOOLEAN /\ countsCrossed \in BOOLEAN /\ configsCrossed \in BOOLEAN BY <1>1, Zenon
 <2> QED BY <1>1, <1>4, <2>1, <2>2, <2>3 DEF OwnershipTyped
<1>6. LocksSound /\ HoldingsSound BY <1>1 DEF LocksSound, MemoryIsStored, ClaimStands, HoldingsSound
<1>7. ConfigSound /\ ConfigStored BY <1>1, <1>2, IdleFacts DEF ConfigSound, ConfigStored, At
<1>8. \A c \in Owners : SaneCall(ownerCall[c]) /\ ClaimSound(c) /\ CleanSound(c)
 BY <1>2, IdleFacts, OwnerFacts DEF ClaimSound, CleanSound, ClaimPhases
<1>9. roster # <<>> => AdminKept
 <2> SUFFICES ASSUME NEW e \in Emails, roster[1] = AdminRow(e), 1 \in DOMAIN roster PROVE AdminKept BY <1>4
 <2>1. IsListedAdmin(e) BY RowFacts
 <2>2. \A c \in Owners : ~TakesAway(ownerCall[c]) BY <1>2, IdleFacts
 <2> QED BY <2>1, <2>2 DEF AdminKept, Safe
<1>10. AdminsSound
 <2>1. \A c \in Owners : ~SawUser(ownerCall[c]) /\ ~Gated(ownerCall[c]) BY <1>2, IdleFacts
 <2> QED BY <1>1, <1>4, <1>9, <2>1 DEF AdminsSound
<1> QED BY <1>4, <1>5, <1>6, <1>7, <1>8, <1>10 DEF OwnershipSound

LEMMA OwnershipSoundIsEnough == OwnershipSound => OwnershipInvariant
<1> SUFFICES ASSUME OwnershipSound PROVE OwnershipInvariant OBVIOUS
<1>1. /\ OwnershipTyped /\ MemoryIsStored /\ ClaimStands /\ ConfigStored /\ AdminsSound /\ HoldingsSound
      /\ (claimLock => \E c \in Owners : ownerCall[c].phase \in ClaimPhases) /\ \A c \in Owners : ClaimSound(c)
 BY DEF OwnershipSound, LocksSound
<1>2. ClaimIsAlone
 <2> DEFINE S == {c \in Owners : ownerCall[c].phase \in ClaimPhases}
 <2>1. CASE claimLock
  <3>1. \E c : S = {c} BY <1>1, <2>1 DEF ClaimSound
  <3>2. Cardinality(S) = 1 BY <3>1, FS_Singleton
  <3> QED BY <2>1, <3>2 DEF ClaimIsAlone
 <2>2. CASE ~claimLock
  <3>1. S = {} BY <1>1, <2>2 DEF ClaimSound
  <3>2. Cardinality(S) = 0 BY <3>1, FS_EmptySet
  <3> QED BY <2>2, <3>2 DEF ClaimIsAlone
 <2> QED BY <2>1, <2>2
<1>3. TokenSpentOnce
 <2>1. Unexcused => tokenGrants = <<>> \/ Len(tokenGrants) = 1 BY <1>1 DEF AdminsSound
 <2>2. tokenGrants \in Seq(Nat) BY <1>1 DEF OwnershipTyped
 <2>3. Unexcused => \A i, j \in DOMAIN tokenGrants : i = j BY <2>1, <2>2
 <2> QED BY <2>3 DEF TokenSpentOnce, Unexcused
<1>4. AdminRemains
 <2> SUFFICES ASSUME owner # NoEmail \/ roster # <<>>, Unexcused PROVE SomeAdmin BY DEF AdminRemains, Unexcused
 <2>1. roster # <<>> BY <1>1 DEF ClaimStands, AdminsSound
 <2> QED BY <1>1, <2>1 DEF AdminsSound, AdminKept, Safe, SomeAdmin, IsAdminNow
<1>5. RemovalCleans BY <1>1 DEF HoldingsSound, RemovalCleans, IsRegisteredNow
<1> QED BY <1>1, <1>2, <1>3, <1>4, <1>5 DEF OwnershipInvariant

----
\* Theorem: an account is held by those who proved themselves.  No code, recovery code or
\* pending sign-in is accepted twice, what a user switched off stays off, and no write takes
\* another's back; what a removal of the user deleted stays deleted, but for the stores whose
\* record a cache or a request under way carried over it; a claim is made by one request at a
\* time and stands once it was answered, a server that had an administrator keeps one, no token
\* opens two claims, a user who was removed keeps no access and no subscription, and the
\* configuration in use is the stored one, but for what the histories of both modules excuse.
THEOREM AccountsKept == Spec => []AccountsInvariant
<1> DEFINE Sound == SecuritySound /\ RemovalSound /\ OwnershipSound
<1>1. Init => Sound BY InitSecuritySound, InitRemovalSound, InitOwnershipSound DEF Init
<1>2. Sound /\ [Next]_vars => Sound'
 <2> SUFFICES ASSUME Sound, [Next]_vars PROVE Sound' OBVIOUS
 <2>1. SecuritySound' /\ RemovalSound'
  <3>1. SecurityNext \/ UNCHANGED securityVars BY DEF Next, OffStage, vars
  <3> QED BY <3>1, SecurityStepSound, RemovalStepSound
 <2>2. OwnershipSound'
  <3>1. OwnershipNext \/ UNCHANGED ownershipVars BY DEF Next, OffStage, vars
  <3> QED BY <3>1, OwnershipStepSound, OwnershipRests
 <2> QED BY <2>1, <2>2
<1>3. Sound => AccountsInvariant BY SecuritySoundIsEnough, OwnershipSoundIsEnough DEF AccountsInvariant
<1> QED BY <1>1, <1>2, <1>3, PTL DEF Spec
====
