------------------------------ MODULE OPCBasic ------------------------------
(***************************************************************************)
(* opc/OPCBasic and FindFiles of opc/FileHandler: how a request about      *)
(* files is handled, from its arrival to the response that the guard       *)
(* sends, while other programs change the directories.                     *)
(*                                                                         *)
(* A file system of the paths of Tree below Root; one kind of link, to     *)
(* Root.  A path that leads through links is an entry: its node and the    *)
(* number of links followed, of which the kernel allows MaxLinks.  A       *)
(* directory is listed as it was when it was opened, in any order.         *)
(***************************************************************************)
EXTENDS Integers, Sequences, SequencesExt, FiniteSets

CONSTANTS
  Root, Tree,  \* the directory, and the parent of every other path
  Matching,    \* the paths that the pattern of a request is found in
  MaxLinks,    \* how many links are followed before ELOOP, 40 on Linux
  Requests,    \* the requests: [op, path, before, after, compiles]
  Kinds,       \* what the paths are at first: functions to PathKind
  Contents,    \* the lines of files: whether each has a match
  MaxChanges   \* bound: how many paths other programs change, each at any time

VARIABLES
  kind,     \* what each path is now
  touched,  \* the paths that other programs have changed
  request, content,  \* the request, and the lines of any file
  socket,   \* mSocket was set: nothing in the repository sets it
  stage,    \* what the handler does next
  dir,      \* the directory that it opens next
  walk,     \* the directories it goes through: of each the entries still to come
  found,    \* FindFiles' out
  files,    \* the response's files
  grep,     \* GrepFile's locals and the lines it has selected
  results,  \* the results of GrepFiles, of each the selected lines
  error,    \* errCode # 0 in the response
  answers   \* how often the response was sent

opcVars == <<kind, touched, request, content, socket, stage, dir, walk, found, files, grep,
             results, error, answers>>

fileSystem == <<kind, touched, request, content, socket>>

Paths == {Root} \cup DOMAIN Tree
PathKind == {"none", "file", "dir", "link"}
Children(p) == {c \in DOMAIN Tree : Tree[c] = p}
Entry(p, n) == [node |-> p, links |-> n]

\* Everything but a directory is without children.
Consistent(k) == \A p \in DOMAIN Tree : k[p] # "none" => k[Tree[p]] = "dir"

\* Every path is below Root.
ASSUME FilesAssumption ==
  /\ Root \notin DOMAIN Tree /\ Tree \in [DOMAIN Tree -> Paths]
  /\ \A S \in SUBSET DOMAIN Tree : (\A p \in S : Tree[p] \in S) => S = {}
  /\ Matching \subseteq DOMAIN Tree /\ MaxLinks \in Nat /\ MaxChanges \in Nat
  /\ Requests \subseteq [op : {"list", "find", "cat", "grep", "grepfiles"}, path : Paths,
                         before : Int, after : Int, compiles : BOOLEAN]
  /\ Kinds \subseteq {k \in [Paths -> PathKind] : Consistent(k)}
  /\ Contents \subseteq Seq(BOOLEAN)

NoGrep == [rest |-> <<>>, line |-> 0, buffer |-> <<>>, after |-> 0, index |-> -1,
           selected |-> <<>>]

\* What the handler of each request does first.
FirstStage(op) ==
  CASE op = "list" -> "info" [] op = "find" -> "compile" [] op = "cat" -> "end"
    [] op \in {"grep", "grepfiles"} -> "check"

OPCInit ==
  /\ kind \in Kinds /\ touched = {}
  /\ request \in Requests /\ content \in Contents /\ socket \in BOOLEAN
  /\ stage = FirstStage(request.op)
  /\ dir = Entry(request.path, 0) /\ walk = <<>> /\ found = <<>> /\ files = <<>>
  /\ grep = NoGrep /\ results = <<>>
  /\ error = FALSE /\ answers = 0

\* Another program creates, removes or replaces a path.
Change(p) ==
  /\ stage # "done"
  /\ touched' = touched \cup {p} /\ Cardinality(touched') <= MaxChanges
  /\ \E new \in PathKind : kind' = [kind EXCEPT ![p] = new]
  /\ kind' # kind /\ Consistent(kind')
  /\ UNCHANGED <<request, content, socket, stage, dir, walk, found, files, grep, results,
                 error, answers>>
-----------------------------------------------------------------------------
\* Mutant: an exception leaves the handler before the guard has a response.
ThrowUnanswered == error' = TRUE /\ stage' = "done"

\* An exception, which CATCH_RESPONSE turns into an error code: what was put
\* into the response before stays there.
Throw == error' = TRUE /\ stage' = "end"

Goto(next) == stage' = next /\ UNCHANGED error

\* GetFileInfo: file_size throws for everything but a file, a directory too.
\* The info goes into the response, if there is one.
GetFileInfo(e) ==
  IF kind[e.node] = "file"
  THEN files' = Append(files, e) /\ UNCHANGED <<stage, error>>
  ELSE UNCHANGED files /\ Throw

\* is_directory of an entry: it throws when too many links are followed.
TooManyLinks(e) == e.links + (IF kind[e.node] = "link" THEN 1 ELSE 0) > MaxLinks
IsDirectory(e) ==
  \/ kind[e.node] = "dir"
  \/ kind[e.node] = "link" /\ kind[Root] = "dir"

\* The entries a directory_iterator will visit.
EntriesOf(e) ==
  IF kind[e.node] = "link"
  THEN {Entry(c, e.links + 1) : c \in {c \in Children(Root) : kind[c] # "none"}}
  ELSE {Entry(c, e.links) : c \in {c \in Children(e.node) : kind[c] # "none"}}

\* OnListFilesRequest: the path itself.
Info ==
  /\ stage = "info"
  /\ IF kind[dir.node] = "file"
     THEN files' = <<dir>> /\ Goto("isdir")
     ELSE UNCHANGED files /\ Throw
  /\ UNCHANGED <<fileSystem, dir, walk, found, grep, results, answers>>

IsDir ==
  /\ stage = "isdir"
  /\ Goto(IF IsDirectory(dir) THEN "open" ELSE "end")
  /\ UNCHANGED <<fileSystem, dir, walk, found, files, grep, results, answers>>

\* A directory_iterator is made: for the directory to be listed, or in FindFiles.
Open ==
  /\ stage = "open"
  /\ \/ /\ IsDirectory(dir) /\ ~TooManyLinks(dir)
        /\ walk' = Append(walk, EntriesOf(dir))
        /\ Goto(IF request.op = "list" THEN "entries" ELSE "walk")
     \/ /\ ~IsDirectory(dir) \/ TooManyLinks(dir)
        /\ Throw /\ UNCHANGED walk
  /\ UNCHANGED <<fileSystem, dir, found, files, grep, results, answers>>

\* OnListFilesRequest's loop over the entries.
Entries ==
  /\ stage = "entries"
  /\ \/ /\ Last(walk) = {} /\ Goto("end")
        /\ UNCHANGED <<walk, files>>
     \/ \E e \in Last(walk) :
          /\ walk' = <<Last(walk) \ {e}>>
          /\ GetFileInfo(e)
  /\ UNCHANGED <<fileSystem, dir, found, grep, results, answers>>

\* The request's pattern is compiled.
Compile ==
  /\ stage = "compile"
  /\ \/ request.compiles /\ Goto("open")
     \/ ~request.compiles /\ Throw
  /\ UNCHANGED <<fileSystem, dir, walk, found, files, grep, results, answers>>

\* Mutant: directories are not gone into.
WalkFlat ==
  /\ stage = "walk"
  /\ \/ /\ Last(walk) = {} /\ Goto(IF request.op = "find" THEN "infos" ELSE "greps")
        /\ UNCHANGED <<walk, found>>
     \/ \E e \in Last(walk) :
          /\ walk' = Front(walk) \o <<Last(walk) \ {e}>>
          /\ UNCHANGED <<stage, error>>
          /\ found' = IF e.node \in Matching /\ ~IsDirectory(e) THEN Append(found, e) ELSE found
  /\ UNCHANGED <<fileSystem, dir, files, grep, results, answers>>

\* FindFiles: each directory is taken and gone into, and of the rest what the
\* pattern is found in.
Walk ==
  /\ stage = "walk"
  /\ \/ /\ Last(walk) = {}
        /\ walk' = Front(walk)
        /\ Goto(IF Len(walk) > 1 THEN "walk" ELSE IF request.op = "find" THEN "infos" ELSE "greps")
        /\ UNCHANGED <<dir, found>>
     \/ \E e \in Last(walk) :
          /\ walk' = Front(walk) \o <<Last(walk) \ {e}>>
          /\ \/ TooManyLinks(e) /\ Throw /\ UNCHANGED <<dir, found>>
             \/ /\ ~TooManyLinks(e) /\ IsDirectory(e)
                /\ found' = Append(found, e)
                /\ dir' = e /\ Goto("open")
             \/ /\ ~TooManyLinks(e) /\ ~IsDirectory(e)
                /\ found' = IF e.node \in Matching THEN Append(found, e) ELSE found
                /\ UNCHANGED <<dir, stage, error>>
  /\ UNCHANGED <<fileSystem, files, grep, results, answers>>

\* Mutant: the loop ends, without an error, at a file that is gone.
InfosUntilGone ==
  /\ stage = "infos"
  /\ \/ Len(files) = Len(found) /\ Goto("end") /\ UNCHANGED files
     \/ /\ Len(files) < Len(found)
        /\ LET e == found[Len(files) + 1] IN
           IF kind[e.node] = "none" THEN Goto("end") /\ UNCHANGED files ELSE GetFileInfo(e)
  /\ UNCHANGED <<fileSystem, dir, walk, found, grep, results, answers>>

\* OnFindFilesRequest's loop over what was found.
Infos ==
  /\ stage = "infos"
  /\ \/ Len(files) = Len(found) /\ Goto("end") /\ UNCHANGED files
     \/ Len(files) < Len(found) /\ GetFileInfo(found[Len(files) + 1])
  /\ UNCHANGED <<fileSystem, dir, walk, found, grep, results, answers>>
-----------------------------------------------------------------------------
(***************************************************************************)
(* GrepFile, line by line.                                                 *)
(***************************************************************************)

\* The numbers of lines before and after a match must not be negative.
Check ==
  /\ stage = "check"
  /\ \/ /\ request.before < 0 \/ request.after < 0
        /\ Throw
     \/ /\ request.before >= 0 /\ request.after >= 0
        /\ Goto(IF request.op = "grep" THEN "greps" ELSE "compile")
  /\ UNCHANGED <<fileSystem, dir, walk, found, files, grep, results, answers>>

\* GrepFile's beginning: what cannot be opened or is a directory has no lines.
\* OnGrepFilesRequest calls it with the request's path for each file found.  The
\* pattern may not compile, or the buffer of before + 1 traces be too large.
GrepBegin ==
  /\ stage = "greps"
  /\ \/ /\ Len(results) = (IF request.op = "grep" THEN 1 ELSE Len(found))
        /\ Goto("end") /\ UNCHANGED <<grep, results>>
     \/ /\ Len(results) < (IF request.op = "grep" THEN 1 ELSE Len(found))
        /\ grep' = [NoGrep EXCEPT
             !.rest = IF kind[request.path] = "file" THEN content ELSE <<>>,
             !.after = request.after]
        /\ results' = Append(results, <<>>)
        /\ \/ request.compiles /\ Goto("lines")
           \/ Throw
  /\ UNCHANGED <<fileSystem, dir, walk, found, files, answers>>

\* Lines taken into the response, with the index of the match they belong to.
Select(lines, index) ==
  [i \in 1..Len(lines) |-> [line |-> lines[i], index |-> index]]

\* Mutant: the buffer holds one line more.
KeptMore(buffer) == IF Len(buffer) > request.before + 1 THEN Tail(buffer) ELSE buffer

\* What follows push_back on a circular buffer of before + 1 traces.
Kept(buffer) == IF Len(buffer) > request.before THEN Tail(buffer) ELSE buffer

GrepLine ==
  /\ stage = "lines" /\ grep.rest # <<>>
  /\ LET read == Append(grep.buffer, grep.line + 1)
         next == [grep EXCEPT !.rest = Tail(@), !.line = @ + 1]
     IN
     grep' =
       IF Head(grep.rest)
       THEN [next EXCEPT !.index = @ + 1, !.after = request.after, !.buffer = <<>>,
                         !.selected = @ \o Select(read, grep.index + 1)]
       ELSE IF grep.after > 0
       THEN [next EXCEPT !.after = @ - 1, !.buffer = Tail(read),
                         !.selected = @ \o Select(<<Head(read)>>, grep.index)]
       ELSE [next EXCEPT !.buffer = Kept(read)]
  /\ UNCHANGED <<fileSystem, stage, dir, walk, found, files, results, error, answers>>

GrepEnd ==
  /\ stage = "lines" /\ grep.rest = <<>>
  /\ results' = [results EXCEPT ![Len(results)] = grep.selected]
  /\ Goto("greps")
  /\ UNCHANGED <<fileSystem, dir, walk, found, files, grep, answers>>
-----------------------------------------------------------------------------
\* The guard goes out of scope: it sends the response, or ends the program where
\* there is no socket to call Send of.
Answer ==
  /\ stage = "end"
  /\ stage' = "done" /\ answers' = IF socket THEN answers + 1 ELSE answers
  /\ UNCHANGED <<fileSystem, dir, walk, found, files, grep, results, error>>

Handle ==
  \/ Info \/ IsDir \/ Open \/ Entries
  \/ Compile \/ Walk \/ Infos
  \/ Check \/ GrepBegin \/ GrepLine \/ GrepEnd
  \/ Answer

OPCNext == Handle \/ \E p \in Paths : Change(p)

\* The handler runs to its end.
OPCSpec == OPCInit /\ [][OPCNext]_opcVars /\ WF_opcVars(Handle)
-----------------------------------------------------------------------------
(***************************************************************************)
(* What must hold.                                                         *)
(***************************************************************************)

\* A request is answered once and for all, whatever is thrown, the directories
\* become or the links lead to (TRY_RESPONSE and CATCH_RESPONSE), if OPCBasic was
\* given a socket.  As the repository stands it never is, and no request is
\* answered: the guard's destructor dereferences the null pointer.
Answered == <>[](answers = IF socket THEN 1 ELSE 0)

Answers(op) == answers > 0 /\ ~error /\ request.op = op

\* The file p was there all the time.
Steady(p) == p \notin touched /\ kind[p] = "file"

\* Whatever other programs do meanwhile, an answer without an error has first the
\* path that was to be listed; or else, of a directory that was searched, the info
\* of everything that was found, nothing that does not match but what they put
\* there, and every file in it that matches and was there all the time (ListFiles
\* and FindFiles).
WholeWhileChanging ==
  /\ Answers("list") => files # <<>> /\ files[1] = Entry(request.path, 0)
  /\ Answers("find") =>
       /\ files = found
       /\ \A i \in 1..Len(files) : files[i].node \in Matching \cup touched
       /\ \A p \in Matching :
            Steady(p) /\ Tree[p] = request.path =>
              \E i \in 1..Len(files) : files[i] = Entry(p, 0)

\* While nothing changes such an answer has everything: of a file to be listed
\* that file alone, and of a directory to be searched all its matching files.
\* Nothing of it holds of a directory with a directory in it, whose file_size
\* GetFileInfo asks for: such answers, and each that lists a directory, are errors.
WholeUnchanged ==
  touched = {} =>
    /\ Answers("list") => kind[request.path] = "file" /\ files = <<Entry(request.path, 0)>>
    /\ Answers("find") =>
         /\ files = found
         /\ {files[i].node : i \in 1..Len(files)} =
              {p \in Matching : kind[p] # "none" /\ Tree[p] = request.path}
         /\ \A p \in Children(request.path) : kind[p] \in {"file", "none"}

\* An answer without an error is whole: it has what the directories have while
\* nothing changes, and what was there all the time while other programs change
\* them (ListFiles and FindFiles).
WholeOrError == WholeUnchanged /\ WholeWhileChanging

\* The last line up to i that has a match, or 0.
LastMatch(i) ==
  LET m == {j \in 1..i : content[j]} IN IF m = {} THEN 0 ELSE CHOOSE j \in m : \A k \in m : k <= j

Before(i) == \E j \in i..Len(content) : content[j] /\ j <= i + request.before
After(i) == i <= LastMatch(i) + request.after

IndexOf(i) == Cardinality({j \in 1..i : content[j]}) - IF After(i) THEN 1 ELSE 0

\* GrepFile selects the lines around every match, the first lines too, as if a
\* match with the index -1 came before them, each line once and in order, and
\* gives it the index of the match before it that it belongs to, or else of the
\* next one.  OnGrepFilesRequest, which searches its directory for what the
\* pattern is found in and opens the directory as a file, finds no line.  Nothing
\* is said of files that other programs change meanwhile.
GrepSelects ==
  touched = {} =>
    /\ Answers("grep") /\ kind[request.path] = "file" =>
         LET lines == results[1] IN
         /\ {lines[k].line : k \in 1..Len(lines)} =
              {i \in 1..Len(content) : Before(i) \/ After(i)}
         /\ \A j, k \in 1..Len(lines) : j < k => lines[j].line < lines[k].line
         /\ \A k \in 1..Len(lines) : lines[k].index = IndexOf(lines[k].line)
    /\ Answers("grepfiles") => \A k \in 1..Len(results) : results[k] = <<>>

\* The variables hold values of their types.
OPCTypeOK ==
  /\ kind \in [Paths -> PathKind] /\ Consistent(kind) /\ touched \subseteq Paths
  /\ request \in Requests /\ content \in Contents /\ socket \in BOOLEAN
  /\ \A i \in 1..Len(found) : found[i].node \in Paths /\ found[i].links \in 0..MaxLinks
  /\ request.op = "find" => Len(files) <= Len(found)
  /\ grep.index < Len(content) /\ Len(grep.buffer) <= Len(content)
  /\ error \in BOOLEAN /\ answers \in 0..1
=============================================================================
