---- MODULE Preferences ----
\* A user's settings: service/usersettings behind
\* user_settings_handler.go, the file of stores/fileusersettings, and the
\* tabs that show a change before it is saved (UserSettingsContext.tsx).
\*
\* A request reads the file, applies its patch and replaces the file, with
\* no lock from the one to the other.  A model is named by the provider it
\* belongs to; effort stands for the preferences with a fixed range.
EXTENDS Naturals, FiniteSets

CONSTANTS
  PrefTabs,      \* the tabs of one user
  Providers, Default,
  NoProvider,    \* provider = "", and the model the provider chooses
  NoFile,        \* nothing was ever saved
  MaxPatches,    \* bound on the requests
  MaxAtOnce,     \* bound on the requests under way
  MaxPrefMoves,  \* bound on upgrades
  MaxPrefFaults  \* bound on failed writes and lost answers

ASSUME PrefAssumption == Default \in Providers /\ NoProvider \notin Providers /\ MaxAtOnce \in Nat \ {0}

Scopes == {"host", "project"}

VARIABLES
  prefFile,    \* the settings file
  offered,     \* offered[scope]: the providers with a module for it
  prefShown,   \* prefShown[t]: what a tab works with
  patches,     \* requests: [n, tab, patch, before, at, work]
  patchCount, prefMoves, prefFaults,
  \* What the properties compare with.
  chosen,      \* the settings as they follow from the saved patches, one by one
  crossed,     \* two requests, or one and an upgrade, were under way at once
  author       \* the tabs that have seen the last change answered

prefVars == <<prefFile, offered, prefShown, patches, patchCount, prefMoves, prefFaults, chosen, crossed, author>>

DefaultChat == [provider |-> Default, model |-> NoProvider, effort |-> FALSE]
DefaultPrefs == [theme |-> "system", host |-> DefaultChat, project |-> DefaultChat]
Unset == [provider |-> NoProvider, model |-> NoProvider, effort |-> FALSE]

----
\* The service.

ValidProvider(p, scope) == p \in offered[scope]

\* normalizeChat: an unknown provider is replaced, and the rest is kept.
NormalChat(chat, scope) ==
  IF ValidProvider(chat.provider, scope) THEN chat ELSE [chat EXCEPT !.provider = Default]

\* The project's settings start as the only settings there used to be.
Normal(s) ==
  LET old == s.project.provider = NoProvider /\ ValidProvider(s.host.provider, "project")
  IN [s EXCEPT !.host = NormalChat(@, "host"),
               !.project = NormalChat(IF old THEN s.host ELSE @, "project")]

\* Store.Get: what the file holds, or the defaults where there is none.
ReadFile == IF prefFile = NoFile THEN DefaultPrefs ELSE prefFile

Get == IF prefFile = NoFile THEN ReadFile ELSE Normal(ReadFile)

Patches ==
  [kind : {"theme"}, theme : {"dark", "light"}]
    \cup [kind : {"agent"}, scope : Scopes, provider : Providers]
    \cup [kind : {"effort"}, scope : Scopes]

\* applyChatUpdate: a provider without a module for the scope is refused.
Refuses(patch) == patch.kind = "agent" /\ ~ValidProvider(patch.provider, patch.scope)

Patched(s, patch) ==
  CASE patch.kind = "theme" -> [s EXCEPT !.theme = patch.theme]
    [] patch.kind = "effort" -> [s EXCEPT ![patch.scope].effort = ~@]
    [] patch.kind = "agent" ->
         [s EXCEPT ![patch.scope] = [provider |-> patch.provider, model |-> patch.provider, effort |-> FALSE]]

----
\* The tab.

Issue(t, patch) ==
  /\ patchCount < MaxPatches /\ Cardinality(patches) < MaxAtOnce
  /\ patchCount' = patchCount + 1
  /\ patches' = patches \cup
       {[n |-> patchCount + 1, tab |-> t, patch |-> patch, before |-> prefShown[t], at |-> "sent", work |-> DefaultPrefs]}
  /\ crossed' = (crossed \/ patches # {})
  /\ UNCHANGED <<prefFile, offered, prefMoves, prefFaults, chosen, author>>

\* setTheme and setChatSettings show the change at once.
Choose(t) ==
  \E patch \in Patches :
    /\ prefShown' = [prefShown EXCEPT ![t] = Patched(@, patch)]
    /\ Issue(t, patch)

Refresh(t) == Issue(t, [kind |-> "none"]) /\ UNCHANGED prefShown

\* What comes back is what is shown, and a failure brings back what was.
TakeAnswer(c) ==
  /\ c.at \in {"done", "failed"}
  /\ patches' = patches \ {c}
  /\ prefShown' = [prefShown EXCEPT ![c.tab] = IF c.at = "done" THEN c.work ELSE
                                                 IF c.patch.kind = "none" THEN @ ELSE c.before]
  /\ author' = IF c.at = "done" THEN author \cup {c.tab} ELSE author
  /\ UNCHANGED <<prefFile, offered, patchCount, prefMoves, prefFaults, chosen, crossed>>

----
\* The requests.

PatchGoes(c, at, work) == patches' = (patches \ {c}) \cup {[c EXCEPT !.at = at, !.work = work]}

\* The patch is applied to what the file holds.
ReadSettings_Slip(c) ==
  /\ c.at = "sent"
  /\ LET stored == ReadFile
     IN IF c.patch.kind = "none" THEN PatchGoes(c, "done", stored)
        ELSE IF Refuses(c.patch) THEN PatchGoes(c, "failed", DefaultPrefs)
        ELSE PatchGoes(c, "read", Patched(stored, c.patch))
  /\ UNCHANGED <<prefFile, offered, prefShown, patchCount, prefMoves, prefFaults, chosen, crossed, author>>

\* Get, which is all of a GET, and the patch.
ReadSettings(c) ==
  /\ c.at = "sent"
  /\ IF c.patch.kind = "none" THEN PatchGoes(c, "done", Get)
     ELSE IF Refuses(c.patch) THEN PatchGoes(c, "failed", DefaultPrefs)
     ELSE PatchGoes(c, "read", Patched(Get, c.patch))
  /\ UNCHANGED <<prefFile, offered, prefShown, patchCount, prefMoves, prefFaults, chosen, crossed, author>>

\* The file is replaced as a whole, or not at all.
SaveSettings(c) ==
  /\ c.at = "read"
  /\ \/ /\ prefFile' = c.work
        /\ PatchGoes(c, "done", c.work)
        /\ chosen' = Patched(Normal(chosen), c.patch)
        /\ author' = {}
        /\ UNCHANGED prefFaults
     \/ /\ prefFaults < MaxPrefFaults /\ prefFaults' = prefFaults + 1
        /\ PatchGoes(c, "failed", c.work)
        /\ UNCHANGED <<prefFile, chosen, author>>
  /\ UNCHANGED <<offered, prefShown, patchCount, prefMoves, crossed>>

\* The browser hears of a failure of a request that was served.
LoseAnswer(c) ==
  /\ c.at = "done"
  /\ prefFaults < MaxPrefFaults /\ prefFaults' = prefFaults + 1
  /\ PatchGoes(c, "failed", c.work)
  /\ UNCHANGED <<prefFile, offered, prefShown, patchCount, prefMoves, chosen, crossed, author>>

\* The server comes back with other modules; the tabs do not notice.
Upgrade ==
  /\ prefMoves < MaxPrefMoves /\ prefMoves' = prefMoves + 1
  /\ offered' \in [Scopes -> {set \in SUBSET Providers : Default \in set}]
  /\ patches' = {[c EXCEPT !.at = IF @ = "done" THEN @ ELSE "failed"] : c \in patches}
  /\ author' = {} /\ crossed' = (crossed \/ patches # {})
  /\ UNCHANGED <<prefFile, prefShown, patchCount, prefFaults, chosen>>

----
PrefInit ==
  /\ offered = [scope \in Scopes |-> Providers]
  /\ prefFile \in {NoFile} \cup
       {[theme |-> "dark", host |-> [provider |-> p, model |-> p, effort |-> TRUE], project |-> Unset] : p \in Providers}
  /\ prefShown = [t \in PrefTabs |-> DefaultPrefs]
  /\ patches = {} /\ patchCount = 0 /\ prefMoves = 0 /\ prefFaults = 0
  /\ chosen = (IF prefFile = NoFile THEN DefaultPrefs ELSE prefFile) /\ crossed = FALSE /\ author = {}

PrefNext ==
  \/ \E t \in PrefTabs : Choose(t) \/ Refresh(t)
  \/ \E c \in patches : ReadSettings(c) \/ SaveSettings(c) \/ LoseAnswer(c) \/ TakeAnswer(c)
  \/ Upgrade

PrefSpec == PrefInit /\ [][PrefNext]_prefVars

----
PrefTypeOK ==
  /\ offered \in [Scopes -> SUBSET Providers]
  /\ \A c \in patches : c.tab \in PrefTabs /\ c.at \in {"sent", "read", "done", "failed"}
  /\ patchCount <= MaxPatches

\* Whatever the patches, the failures and the upgrades between them, a request
\* reads the last choice made for each setting, as long as no two requests
\* overlapped (service.go:69-94): a patch of one part changes no other, and the
\* settings of the time before there were project settings stay the project's.
ChoicesKept == ~crossed => Get = Normal(chosen)

\* A tab that was answered after the last change shows what is saved.
ShownIsSaved ==
  ~crossed => \A t \in author : prefShown[t] = Get \/ \E c \in patches : c.tab = t

PrefInvariant == PrefTypeOK /\ ChoicesKept /\ ShownIsSaved
====
