---- MODULE FileBrowser ----
\* The browser's view of a workspace: the tree of folders and the search
\* by name (useWorkspaceFileBrowser.ts, workspaceFileBrowserState.ts).
\* The tree is reset whenever the drawer opens or the user asks for it;
\* answers to what was asked before carry the token of their time.
\*
\* What a folder holds is the number of times it has changed; queries are
\* numbers, 0 for one that is too short to search for.
EXTENDS Naturals, FiniteSets

CONSTANTS
  Folders, RootFolder,
  Queries,           \* queries a user types, besides 0
  MaxTreeEvents,     \* bound on clicks, typing, changes and failures
  NoListing

ASSUME FileBrowserAssumption ==
  RootFolder \in Folders /\ 0 \notin Queries /\ NoListing \notin Nat

VARIABLES
  tree,        \* the reducer: [expanded, loading, children, errors]
  seenTree,    \* stateRef.current: the tree of the last render
  token,       \* loadToken
  loads,       \* requests for a folder that are under way: [dir, token, value, n], n to tell them apart
  folder,      \* the server: what is in each folder
  find,        \* the reducer: [query, results, searching], results of q are {q}, {0} an error
  effect,      \* the query the search effect has run for
  searches,    \* queries asked for whose answers are not used up, the effect's or older
  treeEvents,
  atReset,     \* history: what the folders held at the last reset
  hasty        \* history: a click was answered from a tree that was not the last

treeVars == <<tree, seenTree, token, loads, folder, treeEvents, atReset, hasty>>
findVars == <<find, effect, searches>>
fileTreeVars == <<treeVars, findVars>>

EmptyTree == [expanded |-> {}, loading |-> {}, children |-> [d \in Folders |-> NoListing],
              errors |-> {}]
IdleFind == [query |-> 0, results |-> {}, searching |-> FALSE]

TreeEvent == treeEvents < MaxTreeEvents /\ treeEvents' = treeEvents + 1

TreeInit ==
  /\ tree = EmptyTree /\ seenTree = EmptyTree /\ token = 0 /\ loads = {}
  /\ folder = [d \in Folders |-> 0]
  /\ find = IdleFind /\ effect = 0 /\ searches = {}
  /\ treeEvents = 0 /\ atReset = folder /\ hasty = FALSE

----
\* The tree.

\* loadDirectory: the request carries the token of now.
TreeAsked(t, d, tok) ==
  /\ tree' = [t EXCEPT !.loading = @ \cup {d}]
  /\ loads' = loads \cup {[dir |-> d, token |-> tok, value |-> NoListing, n |-> treeEvents]}

\* reset: a new token, an empty state, and the root.  It clears the query, too.
ResetTree ==
  /\ TreeEvent /\ token' = token + 1
  /\ TreeAsked(EmptyTree, RootFolder, token + 1)
  /\ find' = IdleFind
  /\ atReset' = folder
  /\ UNCHANGED <<seenTree, folder, hasty, effect, searches>>

\* toggleDirectory decides on what was rendered; the reducer on what is.
\* (Slip: a folder that was asked for before the reset counts as asked for.)
Opens_Slip(d) ==
  /\ d \notin seenTree.expanded /\ seenTree.children[d] = NoListing
  /\ ~\E l \in loads : l.dir = d
Opens(d) == d \notin seenTree.expanded /\ seenTree.children[d] = NoListing /\ d \notin seenTree.loading

ToggleDirectory(d) ==
  LET toggled == [tree EXCEPT !.expanded = (@ \ {d}) \cup ({d} \ @)]
  IN  /\ TreeEvent /\ d # RootFolder /\ seenTree.children[RootFolder] # NoListing
      /\ IF Opens(d) THEN TreeAsked(toggled, d, token) ELSE tree' = toggled /\ UNCHANGED loads
      /\ hasty' = (hasty \/ tree # seenTree)
      /\ UNCHANGED <<seenTree, token, folder, atReset, findVars>>

Render ==
  /\ seenTree # tree /\ seenTree' = tree
  /\ UNCHANGED <<tree, token, loads, folder, treeEvents, atReset, hasty, findVars>>

\* The server lists the folder.
AnswerListing(l) ==
  /\ l \in loads /\ l.value = NoListing
  /\ loads' = (loads \ {l}) \cup {[l EXCEPT !.value = folder[l.dir]]}
  /\ UNCHANGED <<tree, seenTree, token, folder, treeEvents, atReset, hasty, findVars>>

\* An answer, unless the tree was reset since it was asked for.
\* (Slip: it is used all the same.)
Current_Slip(l) == TRUE
Current(l) == l.token = token

TreeLoaded(l) ==
  /\ l \in loads /\ l.value # NoListing
  /\ loads' = loads \ {l}
  /\ tree' = IF Current(l)
             THEN [tree EXCEPT !.children[l.dir] = l.value, !.errors = @ \ {l.dir}, !.loading = @ \ {l.dir}]
             ELSE tree
  /\ UNCHANGED <<seenTree, token, folder, treeEvents, atReset, hasty, findVars>>

LoadFailed(l) ==
  /\ l \in loads /\ TreeEvent
  /\ loads' = loads \ {l}
  /\ tree' = IF Current(l) THEN [tree EXCEPT !.errors = @ \cup {l.dir}, !.loading = @ \ {l.dir}] ELSE tree
  /\ UNCHANGED <<seenTree, token, folder, atReset, hasty, findVars>>

FolderChanges(d) ==
  /\ TreeEvent /\ folder' = [folder EXCEPT ![d] = @ + 1]
  /\ UNCHANGED <<tree, seenTree, token, loads, atReset, hasty, findVars>>

----
\* The search.

TypeQuery(q) ==
  /\ TreeEvent /\ q # find.query
  /\ find' = [find EXCEPT !.query = q]
  /\ UNCHANGED <<tree, seenTree, token, loads, folder, atReset, hasty, effect, searches>>

\* The effect of a query that changed: what was asked before is no longer used.
\* (Slip: answers to the last query still count.)
StillUsed_Slip == searches
StillUsed == {}

SearchEffect ==
  /\ effect # find.query /\ effect' = find.query
  /\ IF find.query = 0
     THEN find' = IdleFind /\ searches' = StillUsed
     ELSE find' = [find EXCEPT !.searching = TRUE] /\ searches' = StillUsed \cup {find.query}
  /\ UNCHANGED treeVars

\* The results of query q are q here.
SearchSucceeded(q) ==
  /\ q \in searches /\ searches' = searches \ {q}
  /\ find' = [find EXCEPT !.results = {q}, !.searching = FALSE]
  /\ UNCHANGED <<treeVars, effect>>

SearchFailed(q) ==
  /\ q \in searches /\ TreeEvent /\ searches' = searches \ {q}
  /\ find' = [find EXCEPT !.results = {0}, !.searching = FALSE]
  /\ UNCHANGED <<tree, seenTree, token, loads, folder, atReset, hasty, effect>>

TreeStep ==
  \/ Render \/ SearchEffect
  \/ \E l \in loads : AnswerListing(l) \/ TreeLoaded(l)
  \/ \E q \in searches : SearchSucceeded(q)

TreeNext ==
  \/ ResetTree \/ TreeStep
  \/ \E d \in Folders : ToggleDirectory(d) \/ FolderChanges(d)
  \/ \E l \in loads : LoadFailed(l)
  \/ \E q \in Queries \cup {0} : TypeQuery(q)
  \/ \E q \in searches : SearchFailed(q)

----
\* Properties.

TreeTypeOK ==
  /\ tree.expanded \cup tree.loading \cup tree.errors \subseteq Folders
  /\ \A l \in loads : l.dir \in Folders /\ l.token \in 0..token
  /\ find.searching \in BOOLEAN /\ searches \subseteq Queries

\* A folder that is shown as loading has a request of this tree under way, and
\* one that is expanded is loading, listed or failed: none stays empty for ever.
\* It can when it was clicked between a reset and the next render.
LoadingIsReal == \A d \in tree.loading : \E l \in loads : l.dir = d /\ l.token = token
ExpandedIsShown ==
  hasty \/ \A d \in tree.expanded : d \in tree.loading \cup tree.errors \/ tree.children[d] # NoListing

\* What the tree shows was asked for after the last reset: as old as the reset
\* at most, however late earlier answers arrive.
ListedSinceReset == \A d \in Folders : tree.children[d] # NoListing => tree.children[d] >= atReset[d]

\* When nothing is being searched for, the results are those of the query.
ResultsOfQuery ==
  ~find.searching /\ effect = find.query => find.results \subseteq {0, find.query}

TreeInvariant == TreeTypeOK /\ LoadingIsReal /\ ExpandedIsShown /\ ListedSinceReset /\ ResultsOfQuery
====
