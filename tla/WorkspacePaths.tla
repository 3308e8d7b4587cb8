---- MODULE WorkspacePaths ----
\* The paths of a chat's workspace: shared/workspacepath (what the
\* workspace of a directory is, which file a link of the chat names, how
\* the container calls a file of the host), the IDE link made of them
\* (service/workspaceide) and the repository paths of service/githistory.
\*
\* A path is the sequence of its components, so a name is one of a few; of
\* a name the model keeps which names are a prefix of which.
EXTENDS Integers, Sequences, FiniteSets, SequencesExt

CONSTANTS
  ProjectsRoot,     \* the directory that holds the projects, one component
  Names,            \* the names of directories and files, "workspace" one of them
  LongerName,       \* a name that begins with "workspace"
  SkippedName,      \* one of skippedDirectories
  MaxDepth,         \* maxRepositoryDepth
  MaxParts,         \* bound on the components of an input
  NoPath

ASSUME PathAssumption == "workspace" \in Names /\ LongerName # "workspace" /\ ProjectsRoot # "workspace"

VARIABLES
  asking,   \* the directory of the chat, and the path in a link of it
  target    \* what is made of it

pathVars == <<asking, target>>

----
\* path/filepath.

\* Clean, of an absolute path.
CleanPath(path) ==
  FoldLeft(LAMBDA done, name : IF name # ".." THEN Append(done, name)
                               ELSE IF done = <<>> THEN done ELSE Front(done), <<>>, path)

JoinPath(root, path) == CleanPath(root \o path)

\* Rel, of two clean absolute paths.
RelPath(root, path) ==
  LET common == Len(LongestCommonPrefix({root, path}))
  IN [i \in 1..(Len(root) - common) |-> ".."] \o SubSeq(path, common + 1, Len(path))

----
\* workspacepath.

\* The workspace a directory is in ends at the first "workspace" of its path; a
\* directory of that name is its own.
Root(cwd) ==
  LET path == CleanPath(cwd)
      marks == {i \in 1..(Len(path) - 1) : path[i] = "workspace"}
  IN IF marks = {} \/ Last(path) = "workspace" THEN path
     ELSE SubSeq(path, 1, CHOOSE i \in marks : \A j \in marks : i <= j)

\* HasPrefix of the two strings
ContainsPath_Slip(path, root) ==
  \/ IsPrefix(root, path)
  \/ /\ root # <<>> /\ Len(path) >= Len(root) /\ Last(root) = "workspace" /\ path[Len(root)] = LongerName
     /\ SubSeq(path, 1, Len(root) - 1) = Front(root)

\* Contains
ContainsPath(path, root) ==
  LET relative == RelPath(root, path)
  IN relative = <<>> \/ relative[1] # ".."

IsContainerPath(path) == path # <<>> /\ path[1] = "workspace"

\* How the container calls a path of the host.
ContainerPath(path) ==
  IF Len(path) >= 3 /\ path[1] = ProjectsRoot /\ path[3] = "workspace"
    THEN [slug |-> path[2], path |-> SubSeq(path, 3, Len(path))]
    ELSE [slug |-> NoPath, path |-> <<>>]

RefusedPath == [file |-> NoPath, root |-> NoPath]

\* ResolveFile
ResolveFile(raw, cwd) ==
  LET root == Root(cwd)
      path == CleanPath(raw.path)
      file == IF IsContainerPath(path) THEN JoinPath(root, Tail(path)) ELSE path
  IN IF raw.absolute /\ raw.path # <<>> /\ ContainsPath(file, root) THEN [file |-> file, root |-> root] ELSE RefusedPath

\* redirectURL: the server and folder the IDE opens, and the file in it.
IdeLink(at) ==
  LET folder == ContainerPath(at.root)
      file == ContainerPath(at.file)
  IN IF folder.slug = NoPath THEN [server |-> NoPath, folder |-> at.root, file |-> at.file]
     ELSE [server |-> folder.slug, folder |-> folder.path, file |-> IF file.slug = NoPath THEN at.file ELSE file.path]

----
\* githistory: repositories by path.

\* DiscoverRepositories, of a tree of which every directory is a repository.
Discovered(root) ==
  {root \o p : p \in {q \in UNION {[1..n -> Names \cup {SkippedName}] : n \in 0..(MaxDepth + 1)} :
                        Len(q) <= MaxDepth /\ SkippedName \notin ToSet(q)}}

\* repositoryID
RepositoryID(root, path) == RelPath(root, path)

\* resolveRepositoryPath: a path of the container, of the host, or below the root.
ResolveRepository(raw, root) ==
  LET path == CleanPath(raw.path)
      found == IF raw.path = <<>> THEN root
               ELSE IF raw.absolute THEN IF IsContainerPath(path) THEN JoinPath(root, Tail(path)) ELSE path
               ELSE JoinPath(root, raw.path)
  IN IF ContainsPath(found, root) THEN found ELSE NoPath

----
\* Line references.  What follows a file's name: numbers behind colons, a
\* query, and the numbers of a fragment.  0 is what is no positive number.

\* splitLineSuffix
SplitSuffix(colons) ==
  LET n == Len(colons)
  IN IF n = 0 \/ Last(colons) = 0 THEN [kept |-> colons, line |-> 0, column |-> 0]
     ELSE IF n > 1 /\ colons[n - 1] > 0
       THEN [kept |-> SubSeq(colons, 1, n - 2), line |-> colons[n - 1], column |-> colons[n]]
       ELSE [kept |-> Front(colons), line |-> colons[n], column |-> 0]

\* The two numbers are taken in the order they are found in.
LineReference_Slip(colons, fragment) ==
  LET r == SplitSuffix(colons) IN [r EXCEPT !.line = r.column, !.column = r.line]

\* parseLineReference and parseLineFragment: a fragment with a line wins, and then
\* the colons belong to the name.
LineReference(colons, fragment) ==
  IF fragment # <<>> /\ fragment[1] > 0
    THEN [kept |-> colons, line |-> fragment[1], column |-> IF Len(fragment) > 1 THEN fragment[2] ELSE 0]
    ELSE SplitSuffix(colons)

\* openFilePayload: the suffix a line and a column are written as.
Suffix(line, column) == IF line = 0 THEN <<>> ELSE IF column = 0 THEN <<line>> ELSE <<line, column>>

----
Paths == UNION {[1..n -> Names \cup {".."}] : n \in 0..MaxParts}
Raw(path, absolute) == [path |-> path, absolute |-> absolute]
Slugs == Names \ {"workspace"}
Directories ==
  {<<ProjectsRoot, slug, "workspace">> \o rest : slug \in Slugs, rest \in UNION {[1..n -> Names] : n \in 0..1}}
  \cup {<<"workspace">> \o rest : rest \in UNION {[1..n -> Names] : n \in 0..1}}

AskPath ==
  /\ target = RefusedPath
  /\ target' = ResolveFile(Raw(asking.path, asking.absolute), asking.cwd)
  /\ UNCHANGED asking

NextLink ==
  /\ target # RefusedPath
  /\ \E path \in Paths, under \in {<<>>, <<"workspace">>, <<ProjectsRoot>>} :
       asking' = [asking EXCEPT !.path = under \o path]
  /\ target' = RefusedPath

PathInit ==
  /\ asking \in [cwd : Directories, path : Paths, absolute : BOOLEAN]
  /\ target = RefusedPath

PathNext == AskPath \/ NextLink

PathSpec == PathInit /\ [][PathNext]_pathVars

----
PathTypeOK == target.root = NoPath <=> target.file = NoPath

\* The directory of a chat is in its workspace, and that is the project's, unless
\* the project or a directory below it is itself called "workspace".
RootOfProject ==
  /\ IsPrefix(Root(asking.cwd), CleanPath(asking.cwd))
  /\ \A slug \in Slugs, rest \in UNION {[1..n -> Names \ {"workspace"}] : n \in 0..2} :
       Root(<<ProjectsRoot, slug, "workspace">> \o rest) = <<ProjectsRoot, slug, "workspace">>

\* No link of a chat opens a file outside its workspace, however many ".." it has
\* and whichever way it names the file (workspacepath/path.go:48-77).
StaysInside ==
  target # RefusedPath => IsPrefix(Root(asking.cwd), target.file) /\ ".." \notin ToSet(target.file)

\* The container's name of a file and the host's open the same file, and the IDE
\* opens it in its own project under the name the container has for it.
OneFile ==
  (target # RefusedPath /\ ContainerPath(Root(asking.cwd)).slug # NoPath /\ ContainerPath(Root(asking.cwd)).path = <<"workspace">>)
  => LET link == IdeLink(target)
     IN /\ link.server = CleanPath(asking.cwd)[2] /\ link.folder = <<"workspace">> /\ IsContainerPath(link.file)
        /\ ResolveFile(Raw(link.file, TRUE), asking.cwd) = target
        /\ ResolveFile(Raw(target.file, TRUE), asking.cwd) = target

\* A repository is found again by the id it was listed with.
RepositoryFoundAgain ==
  \A path \in Discovered(Root(asking.cwd)) : ResolveRepository(Raw(RepositoryID(Root(asking.cwd), path), FALSE), Root(asking.cwd)) = path

\* The line and the column of a link are those it is written with.
LinesKept ==
  \A line \in 0..2, column \in 0..2 :
    (line = 0 => column = 0) =>
      /\ LineReference(Suffix(line, column), <<>>) = [kept |-> <<>>, line |-> line, column |-> column]
      /\ LineReference(<<>>, Suffix(line, column)) = [kept |-> <<>>, line |-> line, column |-> column]

PathInvariant == PathTypeOK /\ RootOfProject /\ StaysInside /\ OneFile /\ RepositoryFoundAgain /\ LinesKept
====
