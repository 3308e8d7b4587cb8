---- MODULE Transcript ----
\* What a chat promises the people who watch it: one transcript that only
\* grows, of which every open tab displays a gapless beginning.  A tab may
\* be reloaded and start over, and whatever happens to connections and to
\* the server, it ends up displaying all of it.
EXTENDS Naturals, Sequences

CONSTANTS Viewers, Entries

VARIABLES
  transcript,  \* the entries, in order; no two are alike
  display      \* the entries each viewer has on screen

tvars == <<transcript, display>>

Beginning(n) == {transcript[i] : i \in 1..n}

TInit ==
  /\ transcript = <<>>
  /\ display = [v \in Viewers |-> {}]

Write(e) ==
  /\ \A i \in 1..Len(transcript) : transcript[i] # e
  /\ transcript' = Append(transcript, e)
  /\ UNCHANGED display

\* A viewer never loses an entry it shows except by starting over.
Show(v) ==
  /\ \E n \in 1..Len(transcript) :
       /\ display[v] \subseteq Beginning(n) /\ display[v] # Beginning(n)
       /\ display' = [display EXCEPT ![v] = Beginning(n)]
  /\ UNCHANGED transcript

StartOver(v) ==
  /\ display' = [display EXCEPT ![v] = {}]
  /\ UNCHANGED transcript

TNext ==
  \/ \E e \in Entries : Write(e)
  \/ \E v \in Viewers : Show(v) \/ StartOver(v)

TSpec == TInit /\ [][TNext]_tvars /\ \A v \in Viewers : WF_tvars(Show(v))
====
