---- MODULE WorkspaceFiles ----
\* Reading a workspace while agents write to it
\* (integration/hostfs/workspace_files.go): the bounded listing of a
\* folder, the bounded search by name, and the download of a folder, an
\* archive written to a temporary file under one of a few slots
\* (workspace_archive_spool.go).
\*
\* A folder is a set of numbers, in the order of their names.  Contents
\* are sizes.
EXTENDS Naturals, FiniteSets, FiniteSetsExt

CONSTANTS
  EntryCount,       \* entries are 1..EntryCount
  DirEntries, LinkEntries, MatchingEntries,
  ListLimit,        \* maxDirEntries
  SearchLimit, VisitLimit,         \* maxSearchResults, maxSearchVisits
  ByteLimit, EntryLimit,           \* archiveLimits
  SpoolLimit, SpoolSlots,          \* archiveSpooler: maxBytes, slots
  Downloads,        \* requests for archives
  FileSizes,        \* sizes a file may have
  MaxFileEvents     \* bound on what agents do meanwhile and on cancellations

ASSUME WorkspaceFilesAssumption ==
  /\ {EntryCount, ListLimit, SearchLimit, VisitLimit, ByteLimit, EntryLimit, SpoolLimit} \subseteq Nat
  /\ SpoolSlots \in Nat \ {0} /\ FileSizes \subseteq Nat

FolderEntries == 1..EntryCount

VARIABLES
  present,     \* entries that exist
  dangling,    \* links that lead to nothing inside the workspace
  scan,        \* ListDir: [unread, seen, accepted, kept], accepted is history
  search,      \* Search: [next, visits, results, truncated, stayed]; stayed, here and
               \* in download, is history: what was there from the beginning
  download,    \* request -> where it stands
  slots,       \* archiveSpooler.slots: how many are taken
  temporaries, \* the temporary files on the disk
  fileEvents

fileVars == <<present, dangling, scan, search, download, slots, temporaries, fileEvents>>

NoScan == [open |-> FALSE, unread |-> {}, seen |-> {}, accepted |-> {}, kept |-> {}]
NoSearch == [next |-> 0, visits |-> 0, results |-> {}, truncated |-> FALSE, stayed |-> {}]
NoDownload == [at |-> "none", next |-> 0, bytes |-> 0, entries |-> 0, spool |-> 0, names |-> {}, stayed |-> {}]

\* Listings and searches only read: one at a time is enough here.
NobodyReads == ~scan.open /\ search.next = 0

----
\* Listing.

\* listCandidateBefore: folders first, then by name.
\* (Slip: by name alone.)
Before_Slip(e, g) == e < g
Before(e, g) == IF (e \in DirEntries) # (g \in DirEntries) THEN e \in DirEntries ELSE e < g

\* The heap's top.
Worst(kept) == CHOOSE e \in kept : \A g \in kept \ {e} : Before(g, e)

\* consider: a link that leads nowhere does not count.
Considered(kept, e) ==
  CASE Cardinality(kept) < ListLimit -> kept \cup {e}
    [] Cardinality(kept) >= ListLimit /\ ListLimit > 0 /\ Before(e, Worst(kept)) -> (kept \ {Worst(kept)}) \cup {e}
    [] OTHER -> kept

ListDir ==
  /\ NobodyReads
  /\ scan' = [NoScan EXCEPT !.open = TRUE, !.unread = present]
  /\ UNCHANGED <<present, dangling, search, download, slots, temporaries, fileEvents>>

\* The system returns the entries in an order of its own; one that was created
\* or deleted meanwhile may be among them.
Consider(e) ==
  /\ scan.open /\ e \in (scan.unread \cup present) \ scan.seen
  /\ scan' = IF e \in LinkEntries /\ e \in dangling
             THEN [scan EXCEPT !.seen = @ \cup {e}]
             ELSE [scan EXCEPT !.seen = @ \cup {e}, !.accepted = @ \cup {e}, !.kept = Considered(@, e)]
  /\ UNCHANGED <<present, dangling, search, download, slots, temporaries, fileEvents>>

ScanEnds ==
  /\ scan.open /\ scan.unread \cap present \subseteq scan.seen
  /\ scan' = NoScan
  /\ UNCHANGED <<present, dangling, search, download, slots, temporaries, fileEvents>>

----
\* Search.

StartSearch ==
  /\ NobodyReads /\ search' = [NoSearch EXCEPT !.next = 1, !.stayed = present]
  /\ UNCHANGED <<present, dangling, scan, download, slots, temporaries, fileEvents>>

\* A match that nodeFor can describe.
Matches(e) == e \in MatchingEntries /\ (e \in LinkEntries => e \notin dangling)

\* (Slip: the walk stops at its limit without saying so.)
Visited_Slip(s, e) ==
  IF s.visits + 1 > VisitLimit THEN [s EXCEPT !.next = EntryCount + 1]
  ELSE IF Matches(e) THEN [s EXCEPT !.next = e + 1, !.visits = @ + 1, !.results = @ \cup {e}]
  ELSE [s EXCEPT !.next = e + 1, !.visits = @ + 1]
Visited(s, e) ==
  LET found == s.results \cup {e}
  IN  CASE s.visits + 1 > VisitLimit -> [s EXCEPT !.truncated = TRUE, !.next = EntryCount + 1]
        [] s.visits + 1 <= VisitLimit /\ Matches(e) /\ Cardinality(found) >= SearchLimit ->
             [s EXCEPT !.results = found, !.truncated = TRUE, !.next = EntryCount + 1]
        [] OTHER -> [s EXCEPT !.visits = @ + 1, !.next = e + 1,
                              !.results = IF Matches(e) THEN found ELSE @]

SearchVisit ==
  /\ search.next \in FolderEntries
  /\ search' = IF search.next \in present THEN Visited(search, search.next)
               ELSE [search EXCEPT !.next = @ + 1]
  /\ UNCHANGED <<present, dangling, scan, download, slots, temporaries, fileEvents>>

SearchAnswers ==
  /\ search.next = EntryCount + 1 /\ search' = NoSearch
  /\ UNCHANGED <<present, dangling, scan, download, slots, temporaries, fileEvents>>

----
\* Download of a folder.

RequestArchive(d) ==
  /\ download[d] = NoDownload
  /\ download' = [download EXCEPT ![d].at = "waiting"]
  /\ UNCHANGED <<present, dangling, scan, search, slots, temporaries, fileEvents>>

\* acquire, then the temporary file.
AcquireSlot(d) ==
  /\ download[d].at = "waiting" /\ slots < SpoolSlots
  /\ slots' = slots + 1 /\ temporaries' = temporaries \cup {d}
  /\ download' = [download EXCEPT ![d] =
       [at |-> "writing", next |-> 1, bytes |-> ByteLimit, entries |-> EntryLimit, spool |-> SpoolLimit, names |-> {},
        stayed |-> present]]
  /\ UNCHANGED <<present, dangling, scan, search, fileEvents>>

\* The deferred clean-up of prepare, and spooledArchive.close.
\* (Slip: an archive that failed keeps its slot.)
SlotsAfter_Slip(d) == IF download[d].at = "serving" THEN slots - 1 ELSE slots
SlotsAfter(d) == IF download[d].at \in {"writing", "serving"} THEN slots - 1 ELSE slots

Leaves(d, at) ==
  /\ download' = [download EXCEPT ![d] = [NoDownload EXCEPT !.at = at]]
  /\ slots' = SlotsAfter(d) /\ temporaries' = temporaries \ {d}

\* copy, through the reader that is limited to one byte more than is left.
\* (Slip: the size that was looked up is what counts.)
Fits_Slip(d, size, read) == size <= download[d].bytes
Fits(d, size, read) == size <= download[d].bytes /\ read <= download[d].bytes

\* writeArchiveEntry of a file: its size is looked up, then it is read, and may
\* have grown; what is read takes up to as much of the temporary file.
CopyFile(d, e) ==
  \E size \in FileSizes, read \in FileSizes, packed \in FileSizes :
    /\ read >= size /\ packed <= read
    /\ IF Fits(d, size, read) /\ packed <= download[d].spool
       THEN /\ download' = [download EXCEPT ![d].next = e + 1, ![d].entries = @ - 1, ![d].bytes = @ - read,
                                            ![d].spool = @ - packed, ![d].names = @ \cup {e}]
            /\ UNCHANGED <<slots, temporaries>>
       ELSE Leaves(d, "refused")

\* A folder is counted; a link is followed while it leads somewhere; a file that
\* has gone since the folder was read ends the archive.
WalkEntry(d) ==
  LET e == download[d].next
      link == e \in LinkEntries
  IN  /\ download[d].at = "writing" /\ e \in FolderEntries
      /\ \/ e \in present /\ download[d].entries = 0 /\ Leaves(d, "refused")
         \/ /\ e \in present /\ download[d].entries > 0
            /\ IF e \in DirEntries \/ (link /\ e \in dangling)
               THEN /\ download' = [download EXCEPT ![d].next = e + 1, ![d].entries = @ - 1]
                    /\ UNCHANGED <<slots, temporaries>>
               ELSE CopyFile(d, e)
         \/ /\ e \notin present
            /\ \/ download' = [download EXCEPT ![d].next = e + 1] /\ UNCHANGED <<slots, temporaries>>
               \/ Leaves(d, "failed")
      /\ UNCHANGED <<present, dangling, scan, search, fileEvents>>

ServeArchive(d) ==
  /\ download[d].at = "writing" /\ download[d].next > EntryCount
  /\ download' = [download EXCEPT ![d].at = "serving"]
  /\ UNCHANGED <<present, dangling, scan, search, slots, temporaries, fileEvents>>

ArchiveServed(d) ==
  /\ download[d].at = "serving" /\ Leaves(d, "over")
  /\ UNCHANGED <<present, dangling, scan, search, fileEvents>>

\* The client goes away: while it waits for a slot, or between two writes.
CancelDownload(d) ==
  /\ download[d].at \in {"waiting", "writing"} /\ fileEvents < MaxFileEvents
  /\ fileEvents' = fileEvents + 1 /\ Leaves(d, "failed")
  /\ UNCHANGED <<present, dangling, scan, search>>

DownloadAgain(d) ==
  /\ download[d].at \in {"refused", "failed", "over"} /\ fileEvents < MaxFileEvents
  /\ fileEvents' = fileEvents + 1 /\ download' = [download EXCEPT ![d] = NoDownload]
  /\ UNCHANGED <<present, dangling, scan, search, slots, temporaries>>

----
\* An agent creates or deletes an entry, or breaks or mends a link.
AgentWritesFile(e) ==
  /\ fileEvents < MaxFileEvents /\ fileEvents' = fileEvents + 1
  /\ \/ present' = (present \ {e}) \cup ({e} \ present) /\ UNCHANGED dangling
     \/ e \in LinkEntries /\ dangling' = (dangling \ {e}) \cup ({e} \ dangling) /\ UNCHANGED present
  /\ search' = [search EXCEPT !.stayed = @ \ {e}]
  /\ download' = [d \in Downloads |-> [download[d] EXCEPT !.stayed = @ \ {e}]]
  /\ UNCHANGED <<scan, slots, temporaries>>

FilesInit ==
  /\ present = FolderEntries /\ dangling \in SUBSET LinkEntries
  /\ scan = NoScan /\ search = NoSearch
  /\ download = [d \in Downloads |-> NoDownload] /\ slots = 0 /\ temporaries = {}
  /\ fileEvents = 0

DownloadStep(d) == AcquireSlot(d) \/ WalkEntry(d) \/ ServeArchive(d) \/ ArchiveServed(d)

FilesNext ==
  \/ ListDir \/ ScanEnds \/ StartSearch \/ SearchVisit \/ SearchAnswers
  \/ \E e \in FolderEntries : Consider(e) \/ AgentWritesFile(e)
  \/ \E d \in Downloads : RequestArchive(d) \/ DownloadStep(d) \/ CancelDownload(d) \/ DownloadAgain(d)

----
\* Properties.

FilesTypeOK ==
  /\ present \subseteq FolderEntries /\ dangling \subseteq LinkEntries
  /\ slots \in 0..SpoolSlots /\ temporaries \subseteq Downloads
  /\ search.next \in 0..EntryCount + 1

\* What a listing keeps is the beginning of what it accepted, in the order it is
\* shown in, whatever order the entries came in.
Precedes(e, g) == (e \in DirEntries /\ g \notin DirEntries) \/ (((e \in DirEntries) = (g \in DirEntries)) /\ e < g)
ListingExact ==
  /\ scan.kept = {e \in scan.accepted : Cardinality({g \in scan.accepted : Precedes(g, e)}) < ListLimit}
  /\ Cardinality(scan.kept) <= ListLimit

\* A search that does not say it was cut short has found every match that was
\* there and is there.
SearchHonest ==
  search.next = EntryCount + 1 /\ ~search.truncated =>
    {e \in search.stayed : Matches(e)} \subseteq search.results

\* A slot and a temporary file belong to each archive that is written or served,
\* and to nothing else: none is lost and none is freed twice.
SlotsExact ==
  LET busy == {d \in Downloads : download[d].at \in {"writing", "serving"}}
  IN  slots = Cardinality(busy) /\ temporaries = busy

\* An archive that is served has every file that stayed, and no more than the
\* limits allow, however the files grew.
ArchiveWhole ==
  \A d \in Downloads : download[d].at = "serving" =>
    /\ download[d].bytes >= 0 /\ download[d].spool >= 0
    /\ download[d].stayed \ dangling \subseteq download[d].names \cup DirEntries

FilesInvariant == FilesTypeOK /\ ListingExact /\ SearchHonest /\ SlotsExact /\ ArchiveWhole

\* Not so: the walk also stops, and says it was cut short, on the last match
\* when it is the one that reaches the limit.
SearchExact ==
  search.next = EntryCount + 1 /\ search.truncated /\ search.visits < VisitLimit =>
    \E e \in present : Matches(e) /\ e \notin search.results
====
