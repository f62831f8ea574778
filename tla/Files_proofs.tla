---------------------------- MODULE Files_proofs ----------------------------
(***************************************************************************)
(* Proofs about the file service: OPCBasic's answers, for all directories, *)
(* requests and files; TraverseFile, for files of any number of lines and  *)
(* any number of calls and crashes; MD5::GenerateMD5, for messages of any  *)
(* length; and the behaviours of MCFiles, each of which runs one of them.  *)
(***************************************************************************)
EXTENDS MCFiles, TLAPS, FiniteSetTheorems, SequenceTheorems

(***************************************************************************)
(* OPCBasic: what a handler has in each of its steps.                      *)
(***************************************************************************)

EntrySet == [node : Paths, links : 0..MaxLinks]
Line == [line : Nat, index : Int]
GrepSet ==
  [rest : Seq(BOOLEAN), line : Nat, buffer : Seq(Nat), after : Int, index : Int,
   selected : Seq(Line)]

Stages ==
  {"info", "isdir", "open", "entries", "compile", "walk", "infos", "check", "greps",
   "lines", "end", "done"}

\* The types; a directory that is gone through is open.
Shape ==
  /\ kind \in [Paths -> PathKind] /\ Consistent(kind) /\ touched \subseteq Paths
  /\ request \in Requests /\ content \in Contents /\ socket \in BOOLEAN
  /\ error \in BOOLEAN /\ stage \in Stages
  /\ answers = IF stage = "done" /\ socket THEN 1 ELSE 0
  /\ dir \in EntrySet /\ walk \in Seq(SUBSET EntrySet)
  /\ found \in Seq(EntrySet) /\ files \in Seq(EntrySet)
  /\ grep \in GrepSet /\ results \in Seq(Seq(Line))
  /\ stage \in {"walk", "entries"} => walk # <<>>
  /\ stage = "lines" => results # <<>>

Start == Entry(request.path, 0)

\* A request whose answer is an error from here on, or that another program
\* has interfered with, is left out.
Undisturbed(op) == touched = {} /\ ~error /\ request.op = op

ListInv ==
  Undisturbed("list") =>
    /\ stage \in {"info", "isdir", "end", "done"}
    /\ stage \in {"info", "isdir"} => dir = Start
    /\ stage # "info" => kind[request.path] = "file" /\ files = <<Start>>

\* Something was found that has no file_size.
Spoilt == \E i \in 1..Len(found) : kind[found[i].node] # "file"

\* The directory was gone through but for some entries, none of them was a
\* directory, and those that match were found.
Walked(rest) ==
  /\ IsDirectory(Start) /\ rest \subseteq EntriesOf(Start)
  /\ {found[i] : i \in 1..Len(found)} = {e \in EntriesOf(Start) \ rest : e.node \in Matching}
  /\ \A e \in EntriesOf(Start) \ rest : ~IsDirectory(e)

FindInv ==
  Undisturbed("find") =>
    /\ stage \in {"compile", "open", "walk", "infos", "end", "done"}
    /\ stage = "compile" => found = <<>> /\ walk = <<>> /\ dir = Start
    /\ stage = "open" => Spoilt \/ (found = <<>> /\ walk = <<>> /\ dir = Start)
    /\ stage = "walk" => Spoilt \/ (Len(walk) = 1 /\ Walked(walk[1]))
    /\ stage \in {"infos", "end", "done"} => Spoilt \/ Walked({})
    /\ stage \in {"compile", "open", "walk"} => files = <<>>
    /\ Len(files) <= Len(found)
    /\ \A i \in 1..Len(files) : files[i] = found[i] /\ kind[files[i].node] = "file"
    /\ stage \in {"end", "done"} => Len(files) = Len(found)

\* The directory that is searched is not a file, so no line is.
GrepFilesInv ==
  Undisturbed("grepfiles") =>
    /\ stage \in {"check", "compile", "open", "walk", "greps", "lines", "end", "done"}
    /\ stage \in {"check", "compile"} => dir = Start
    /\ stage = "open" => dir = Start \/ kind[request.path] # "file"
    /\ stage \in {"walk", "greps", "lines", "end", "done"} => kind[request.path] # "file"
    /\ \A k \in 1..Len(results) : results[k] = <<>>
    /\ stage = "lines" => grep.rest = <<>> /\ grep.selected = <<>>
-----------------------------------------------------------------------------
BeforeUpTo(i, n) == \E j \in i..n : content[j] /\ j <= i + request.before

Chosen(n) == {i \in 1..n : BeforeUpTo(i, n) \/ After(i)}

\* The lines selected of the first n.
Selected(lines, n) ==
  /\ \A k \in 1..Len(lines) : lines[k].index = IndexOf(lines[k].line)
  /\ \A j, k \in 1..Len(lines) : j < k => lines[j].line < lines[k].line
  /\ {lines[k].line : k \in 1..Len(lines)} = Chosen(n)

Matches(n) == Cardinality({j \in 1..n : content[j]})

\* The lines still to be read; how many more to select; the buffer, which has
\* as many of the last lines as may be selected by the next match.
Reading(g) ==
  LET last == LastMatch(g.line)
      kept == g.line - Len(g.buffer)
  IN
  /\ g.line <= Len(content) /\ Len(g.rest) = Len(content) - g.line
  /\ \A k \in 1..Len(g.rest) : g.rest[k] = content[g.line + k]
  /\ last \in 0..g.line /\ (last > 0 => content[last])
  /\ \A j \in 1..g.line : content[j] => j <= last
  /\ Matches(g.line) \in Nat /\ g.index = Matches(g.line) - 1
  /\ g.after >= 0
  /\ g.after > 0 => g.buffer = <<>> /\ g.line + g.after = last + request.after
  /\ g.after = 0 => /\ kept >= last + request.after /\ Len(g.buffer) <= request.before
                    /\ Len(g.buffer) = request.before \/ kept = last + request.after
  /\ \A k \in 1..Len(g.buffer) : g.buffer[k] = kept + k
  /\ Selected(g.selected, g.line)

GrepInv ==
  Undisturbed("grep") =>
    /\ stage \in {"check", "greps", "lines", "end", "done"}
    /\ stage = "check" => results = <<>>
    /\ stage # "check" => request.before >= 0 /\ request.after >= 0 /\ Len(results) <= 1
    /\ stage \in {"end", "done"} => Len(results) = 1
    /\ stage = "lines" /\ kind[request.path] = "file" => Reading(grep)
    /\ stage # "lines" /\ kind[request.path] = "file" =>
         \A k \in 1..Len(results) : Selected(results[k], Len(content))

OPCInv == Shape /\ ListInv /\ FindInv /\ GrepFilesInv /\ GrepInv
-----------------------------------------------------------------------------
LEMMA Types ==
  ASSUME Shape
  PROVE  /\ request.op \in {"list", "find", "cat", "grep", "grepfiles"}
         /\ request.path \in Paths /\ request.before \in Int /\ request.after \in Int
         /\ request.compiles \in BOOLEAN /\ content \in Seq(BOOLEAN)
         /\ Start \in EntrySet
         /\ ~TooManyLinks(dir) => EntriesOf(dir) \subseteq EntrySet
<1>1. request \in [op : {"list", "find", "cat", "grep", "grepfiles"}, path : Paths,
                   before : Int, after : Int, compiles : BOOLEAN]
  BY FilesAssumption DEF Shape
<1>2. ~TooManyLinks(dir) => EntriesOf(dir) \subseteq EntrySet
  BY FilesAssumption DEF Shape, TooManyLinks, EntriesOf, EntrySet, Entry, Children, Paths
<1> QED
  BY <1>1, <1>2, FilesAssumption DEF Shape, Start, Entry, EntrySet

\* Nothing but another program touches the file system or takes an error back.
Quiet ==
  /\ UNCHANGED fileSystem
  /\ error' \in BOOLEAN /\ (error => error')

LEMMA Quietly ==
  ASSUME Shape, Quiet, NEW op, Undisturbed(op)'
  PROVE  Undisturbed(op)
BY DEF Shape, Quiet, Undisturbed, fileSystem

LEMMA InitKeeps == OPCInit => OPCInv
<1> SUFFICES ASSUME OPCInit PROVE OPCInv
  OBVIOUS
<1>1. /\ request \in [op : {"list", "find", "cat", "grep", "grepfiles"}, path : Paths,
                   before : Int, after : Int, compiles : BOOLEAN]
      /\ kind \in [Paths -> PathKind] /\ Consistent(kind)
  BY FilesAssumption DEF OPCInit
<1>2. grep \in GrepSet
  BY DEF OPCInit, GrepSet, NoGrep
<1>3. stage = CASE request.op = "list" -> "info" [] request.op = "find" -> "compile"
              [] request.op = "cat" -> "end"
              [] request.op \in {"grep", "grepfiles"} -> "check"
  BY DEF OPCInit, FirstStage
<1>4. /\ request.op = "list" => stage = "info"
      /\ request.op = "find" => stage = "compile"
      /\ request.op = "cat" => stage = "end"
      /\ request.op \in {"grep", "grepfiles"} => stage = "check"
  BY <1>1, <1>3
<1>5. Shape
  <2>1. dir \in EntrySet /\ stage \in Stages /\ stage \notin {"done", "walk", "entries", "lines"}
    BY <1>1, <1>4, FilesAssumption DEF OPCInit, EntrySet, Entry, Stages
  <2>2. /\ walk \in Seq(SUBSET EntrySet) /\ found \in Seq(EntrySet)
        /\ files \in Seq(EntrySet) /\ results \in Seq(Seq(Line))
    BY DEF OPCInit
  <2> QED
    BY <1>1, <1>2, <2>1, <2>2 DEF OPCInit, Shape
<1>6. ListInv /\ FindInv /\ GrepFilesInv /\ GrepInv
  BY <1>4 DEF OPCInit, ListInv, FindInv, GrepFilesInv, GrepInv, Undisturbed, Start
<1> QED
  BY <1>5, <1>6 DEF OPCInv

\* A handler's step that leaves what it found and where it is alone.
LEMMA Unmoved ==
  ASSUME Quiet
  PROVE  /\ \A e : IsDirectory(e)' = IsDirectory(e) /\ EntriesOf(e)' = EntriesOf(e)
         /\ Start' = Start /\ kind' = kind /\ request' = request /\ content' = content
  BY DEF Quiet, fileSystem, IsDirectory, EntriesOf, Start

LEMMA InfoKeeps == OPCInv /\ Info => OPCInv'
<1> SUFFICES ASSUME OPCInv, Info PROVE OPCInv'
  OBVIOUS
<1>1. stage = "info" /\ Quiet /\ UNCHANGED <<dir, walk, found, grep, results, answers>>
  BY DEF Info, Quiet, Throw, Goto, OPCInv, Shape, fileSystem
<1>2. \/ /\ kind[dir.node] = "file" /\ files' = <<dir>> /\ stage' = "isdir"
      \/ error' /\ files' = files /\ stage' = "end"
  BY DEF Info, Throw, Goto
<1> files' \in Seq(EntrySet)
  <2>1. <<dir>> \in Seq(EntrySet)
    BY DEF OPCInv, Shape
  <2> QED
    BY <1>2, <2>1 DEF OPCInv, Shape
<1>3. Shape'
  BY <1>1, <1>2 DEF OPCInv, Shape, Stages, Quiet, fileSystem
<1>4. ListInv'
  <2> SUFFICES ASSUME Undisturbed("list")'
               PROVE  dir = Start /\ kind[request.path] = "file" /\ files' = <<Start>>
                      /\ stage' = "isdir"
    BY <1>1 DEF ListInv, Quiet, fileSystem, Start
  <2>1. Undisturbed("list") /\ ~error'
    BY <1>1, Quietly DEF OPCInv, Undisturbed
  <2> QED
    BY <1>1, <1>2, <2>1 DEF OPCInv, ListInv, Start, Entry
<1>5. ASSUME NEW op \in {"find", "grep", "grepfiles"} PROVE ~Undisturbed(op)'
  BY <1>1, Quietly DEF OPCInv, FindInv, GrepInv, GrepFilesInv
<1> QED
  BY <1>3, <1>4, <1>5 DEF OPCInv, FindInv, GrepFilesInv, GrepInv

LEMMA IsDirKeeps == OPCInv /\ IsDir => OPCInv'
<1> SUFFICES ASSUME OPCInv, IsDir PROVE OPCInv'
  OBVIOUS
<1>1. /\ stage = "isdir" /\ Quiet
      /\ UNCHANGED <<dir, walk, found, files, grep, results, answers>>
      /\ stage' = IF IsDirectory(dir) THEN "open" ELSE "end"
  BY DEF IsDir, Quiet, Goto, OPCInv, Shape, fileSystem
<1>2. Shape'
  BY <1>1 DEF OPCInv, Shape, Stages, Quiet, fileSystem
<1>3. ListInv'
  <2> SUFFICES ASSUME Undisturbed("list")'
               PROVE  kind[request.path] = "file" /\ files = <<Start>> /\ stage' = "end"
    BY <1>1 DEF ListInv, Quiet, fileSystem, Start
  <2>1. dir = Start /\ kind[request.path] = "file" /\ files = <<Start>>
    BY <1>1, Quietly DEF OPCInv, ListInv
  <2> QED
    BY <1>1, <2>1 DEF IsDirectory, Start, Entry
<1>4. ASSUME NEW op \in {"find", "grep", "grepfiles"} PROVE ~Undisturbed(op)'
  BY <1>1, Quietly DEF OPCInv, FindInv, GrepInv, GrepFilesInv
<1> QED
  BY <1>2, <1>3, <1>4 DEF OPCInv, FindInv, GrepFilesInv, GrepInv

LEMMA EntriesKeeps == OPCInv /\ Entries => OPCInv'
<1> SUFFICES ASSUME OPCInv, Entries PROVE OPCInv'
  OBVIOUS
<1>1. stage = "entries" /\ Quiet /\ UNCHANGED <<dir, found, grep, results, answers>>
  BY DEF Entries, Quiet, Goto, Throw, GetFileInfo, OPCInv, Shape, fileSystem
<1>2. /\ stage' \in {"entries", "end"} /\ walk' \in Seq(SUBSET EntrySet)
      /\ files' \in Seq(EntrySet) /\ (stage' = "entries" => walk' # <<>>)
  <2>1. CASE stage' = "end" /\ UNCHANGED <<walk, files>>
    BY <2>1 DEF OPCInv, Shape
  <2>2. CASE \E e \in Last(walk) : walk' = <<Last(walk) \ {e}>> /\ GetFileInfo(e)
    <3> PICK e \in Last(walk) : walk' = <<Last(walk) \ {e}>> /\ GetFileInfo(e)
      BY <2>2
    <3>1. Last(walk) \in SUBSET EntrySet
      BY <1>1 DEF OPCInv, Shape, Last
    <3>2. walk' \in Seq(SUBSET EntrySet) /\ walk' # <<>>
      BY <2>2, <3>1
    <3>3. e \in EntrySet
      BY <3>1
    <3>4. Append(files, e) \in Seq(EntrySet) /\ files \in Seq(EntrySet)
      BY <3>3 DEF OPCInv, Shape
    <3>5. \/ files' = Append(files, e) /\ stage' = "entries"
          \/ files' = files /\ stage' = "end"
      BY <1>1 DEF GetFileInfo, Throw
    <3> QED
      BY <3>2, <3>4, <3>5
  <2> QED
    <3>1. Entries
      OBVIOUS
    <3> HIDE DEF GetFileInfo
    <3> QED
      BY <3>1, <2>1, <2>2 DEF Entries, Goto
<1>3. Shape'
  BY <1>1, <1>2 DEF OPCInv, Shape, Stages, Quiet, fileSystem
<1>4. ASSUME NEW op \in {"list", "find", "grep", "grepfiles"} PROVE ~Undisturbed(op)'
  BY <1>1, Quietly DEF OPCInv, ListInv, FindInv, GrepInv, GrepFilesInv
<1> QED
  BY <1>3, <1>4 DEF OPCInv, ListInv, FindInv, GrepFilesInv, GrepInv

LEMMA CompileKeeps == OPCInv /\ Compile => OPCInv'
<1> SUFFICES ASSUME OPCInv, Compile PROVE OPCInv'
  OBVIOUS
<1>1. /\ stage = "compile" /\ Quiet
      /\ UNCHANGED <<dir, walk, found, files, grep, results, answers>>
      /\ stage' = "open" \/ (error' /\ stage' = "end")
  BY DEF Compile, Quiet, Goto, Throw, OPCInv, Shape, fileSystem
<1>2. Shape'
  BY <1>1 DEF OPCInv, Shape, Stages, Quiet, fileSystem
<1>3. ASSUME NEW op \in {"list", "grep"} PROVE ~Undisturbed(op)'
  BY <1>1, Quietly DEF OPCInv, ListInv, GrepInv
<1>4. FindInv'
  <2> SUFFICES ASSUME Undisturbed("find")' PROVE FindInv'
    BY DEF FindInv
  <2>1. Undisturbed("find") /\ stage' = "open"
    BY <1>1, Quietly DEF OPCInv, Undisturbed
  <2> QED
    BY <1>1, <2>1, Unmoved DEF OPCInv, FindInv
<1>5. GrepFilesInv'
  <2> SUFFICES ASSUME Undisturbed("grepfiles")' PROVE GrepFilesInv'
    BY DEF GrepFilesInv
  <2>1. Undisturbed("grepfiles") /\ stage' = "open"
    BY <1>1, Quietly DEF OPCInv, Undisturbed
  <2> QED
    BY <1>1, <2>1, Unmoved DEF OPCInv, GrepFilesInv
<1> QED
  BY <1>2, <1>3, <1>4, <1>5 DEF OPCInv, ListInv, GrepInv

LEMMA OpenKeeps == OPCInv /\ Open => OPCInv'
<1> SUFFICES ASSUME OPCInv, Open PROVE OPCInv'
  OBVIOUS
<1>1. stage = "open" /\ Quiet /\ UNCHANGED <<dir, found, files, grep, results, answers>>
  BY DEF Open, Quiet, Goto, Throw, OPCInv, Shape, fileSystem
<1>2. \/ /\ IsDirectory(dir) /\ ~TooManyLinks(dir) /\ walk' = Append(walk, EntriesOf(dir))
         /\ stage' = IF request.op = "list" THEN "entries" ELSE "walk"
      \/ error' /\ stage' = "end" /\ walk' = walk
  BY DEF Open, Goto, Throw
<1>3. walk' \in Seq(SUBSET EntrySet) /\ (stage' \in {"entries", "walk"} => walk' # <<>>)
  <2>1. (~TooManyLinks(dir) => EntriesOf(dir) \in SUBSET EntrySet) /\ walk \in Seq(SUBSET EntrySet)
    BY Types DEF OPCInv, Shape
  <2> QED
    BY <1>2, <2>1
<1>4. Shape'
  BY <1>1, <1>2, <1>3 DEF OPCInv, Shape, Stages, Quiet, fileSystem
<1>5. ASSUME NEW op \in {"list", "grep"} PROVE ~Undisturbed(op)'
  BY <1>1, Quietly DEF OPCInv, ListInv, GrepInv
<1>6. FindInv'
  <2> SUFFICES ASSUME Undisturbed("find")' PROVE FindInv'
    BY DEF FindInv
  <2>1. /\ Undisturbed("find") /\ stage' = "walk" /\ IsDirectory(dir)
        /\ walk' = Append(walk, EntriesOf(dir))
    BY <1>1, <1>2, Quietly DEF OPCInv, Undisturbed
  <2>2. Spoilt \/ (found = <<>> /\ walk = <<>> /\ dir = Start)
    BY <1>1, <2>1 DEF OPCInv, FindInv
  <2>3. Spoilt' <=> Spoilt
    BY <1>1, Unmoved DEF Spoilt
  <2>4. CASE found = <<>> /\ walk = <<>> /\ dir = Start
    <3>1. walk' = <<EntriesOf(Start)>>
      BY <2>1, <2>4
    <3>2. Len(walk') = 1 /\ walk'[1] = EntriesOf(Start)
      BY <3>1
    <3>3. Walked(walk[1])'
      BY <1>1, <2>1, <2>4, <3>2, Unmoved DEF Walked
    <3> QED
      BY <1>1, <2>1, <3>2, <3>3, Unmoved DEF OPCInv, FindInv
  <2> QED
    BY <1>1, <2>1, <2>2, <2>3, <2>4, Unmoved DEF OPCInv, FindInv
<1>7. GrepFilesInv'
  <2> SUFFICES ASSUME Undisturbed("grepfiles")' PROVE GrepFilesInv'
    BY DEF GrepFilesInv
  <2>1. Undisturbed("grepfiles") /\ stage' = "walk" /\ IsDirectory(dir)
    BY <1>1, <1>2, Quietly DEF OPCInv, Undisturbed
  <2>2. kind[request.path] # "file"
    BY <1>1, <2>1 DEF OPCInv, GrepFilesInv, IsDirectory, Start, Entry
  <2> QED
    BY <1>1, <2>1, <2>2, Unmoved DEF OPCInv, GrepFilesInv
<1> QED
  BY <1>4, <1>5, <1>6, <1>7 DEF OPCInv, ListInv, GrepInv

\* What is found grows; what has no file_size stays.
LEMMA Finds ==
  ASSUME Shape, NEW e \in EntrySet, found' = Append(found, e), kind' = kind
  PROVE  /\ found' \in Seq(EntrySet) /\ Len(found') = Len(found) + 1
         /\ {found'[i] : i \in 1..Len(found')} = {found[i] : i \in 1..Len(found)} \cup {e}
         /\ Spoilt => Spoilt'
         /\ kind[e.node] # "file" => Spoilt'
<1>1. found \in Seq(EntrySet) /\ Len(found) \in Nat
  BY DEF Shape
<1>2. /\ found' \in Seq(EntrySet) /\ Len(found') = Len(found) + 1
      /\ \A i \in 1..Len(found) : found'[i] = found[i]
      /\ found'[Len(found) + 1] = e
  BY <1>1
<1>3. \A i : i \in 1..(Len(found) + 1) <=> i \in 1..Len(found) \/ i = Len(found) + 1
  BY <1>1
<1>4. {found'[i] : i \in 1..Len(found')} = {found[i] : i \in 1..Len(found)} \cup {e}
  BY <1>2, <1>3
<1> QED
  BY <1>2, <1>3, <1>4 DEF Spoilt

LEMMA FrontOf ==
  ASSUME NEW T, NEW s \in Seq(T), s # <<>>
  PROVE  Front(s) \in Seq(T) /\ Len(Front(s)) = Len(s) - 1
<1>1. Len(s) \in Nat \ {0} /\ \A i \in 1..Len(s) : s[i] \in T
  OBVIOUS
<1>2. PICK m \in Nat : m = Len(s) - 1
  BY <1>1
<1>3. \A i \in 1..m : s[i] \in T
  BY <1>1, <1>2
<1>4. /\ SubSeq(s, 1, m) \in Seq(T)
      /\ Len(SubSeq(s, 1, m)) = IF 1 <= m THEN m - 1 + 1 ELSE 0
  BY <1>2, <1>3, SubSeqProperties
<1> QED
  BY <1>2, <1>4 DEF Front

LEMMA WalkKeeps == OPCInv /\ Walk => OPCInv'
<1> SUFFICES ASSUME OPCInv, Walk PROVE OPCInv'
  OBVIOUS
<1>1. stage = "walk" /\ Quiet /\ UNCHANGED <<files, grep, results, answers>>
  BY DEF Walk, Quiet, Goto, Throw, OPCInv, Shape, fileSystem
<1> DEFINE top == Last(walk)
<1>2. /\ walk \in Seq(SUBSET EntrySet) /\ Len(walk) \in Nat \ {0}
      /\ top = walk[Len(walk)] /\ top \in SUBSET EntrySet
      /\ Front(walk) \in Seq(SUBSET EntrySet) /\ Len(Front(walk)) = Len(walk) - 1
  <2> DEFINE S == SUBSET EntrySet
  <2>1. walk \in Seq(S) /\ walk # <<>>
    BY <1>1 DEF OPCInv, Shape
  <2> HIDE DEF S
  <2>2. Len(walk) \in Nat \ {0} /\ walk[Len(walk)] \in S
    BY <2>1
  <2>3. Front(walk) \in Seq(S) /\ Len(Front(walk)) = Len(walk) - 1
    BY <2>1, FrontOf
  <2> QED
    BY <2>1, <2>2, <2>3 DEF Last, S
<1> HIDE DEF top
<1>3. ASSUME NEW op \in {"list", "grep"} PROVE ~Undisturbed(op)'
  BY <1>1, Quietly DEF OPCInv, ListInv, GrepInv
<1>4. ASSUME Undisturbed("find")'
      PROVE  /\ Undisturbed("find") /\ files = <<>>
             /\ Spoilt \/ (Len(walk) = 1 /\ Walked(walk[1]))
  BY <1>1, <1>4, Quietly DEF OPCInv, FindInv
<1>5. ASSUME Undisturbed("grepfiles")'
      PROVE  /\ Undisturbed("grepfiles") /\ kind[request.path] # "file"
             /\ \A k \in 1..Len(results) : results[k] = <<>>
  BY <1>1, <1>5, Quietly DEF OPCInv, GrepFilesInv
<1>6. ASSUME stage' \in {"walk", "greps", "open"} PROVE GrepFilesInv'
  BY <1>1, <1>5, <1>6, Unmoved DEF GrepFilesInv
<1>7. CASE /\ top = {} /\ walk' = Front(walk) /\ UNCHANGED <<dir, found>>
           /\ stage' = IF Len(walk) > 1 THEN "walk"
                       ELSE IF request.op = "find" THEN "infos" ELSE "greps"
  <2>1. Shape'
    BY <1>1, <1>2, <1>7 DEF OPCInv, Shape, Stages, Quiet, fileSystem
  <2>2. Undisturbed("grepfiles")' => stage' \in {"walk", "greps"}
    BY <1>7, <1>5 DEF Undisturbed
  <2>3. GrepFilesInv'
    BY <1>6, <2>2 DEF GrepFilesInv
  <2>4. FindInv'
    <3> SUFFICES ASSUME Undisturbed("find")' PROVE FindInv'
      BY DEF FindInv
    <3>1. /\ Undisturbed("find") /\ files = <<>>
          /\ Spoilt \/ (Len(walk) = 1 /\ Walked(walk[1]))
      BY <1>4
    <3>2. Spoilt' <=> Spoilt
      BY <1>1, <1>7, Unmoved DEF Spoilt
    <3>3. Len(walk) = 1 => stage' = "infos"
      BY <1>7, <3>1 DEF Undisturbed
    <3>4. stage' \in {"walk", "infos"}
      BY <1>7, <3>1 DEF Undisturbed
    <3>5. Len(walk) = 1 /\ Walked(walk[1]) => Walked({})'
      BY <1>1, <1>2, <1>7, Unmoved DEF Walked
    <3> QED
      BY <1>1, <1>7, <2>1, <3>1, <3>2, <3>3, <3>4, <3>5 DEF FindInv, Shape
  <2> QED
    BY <1>3, <2>1, <2>3, <2>4 DEF OPCInv, ListInv, GrepInv
<1>8. ASSUME NEW e \in top, walk' = Front(walk) \o <<top \ {e}>>,
             \/ error' /\ stage' = "end" /\ UNCHANGED <<dir, found>>
             \/ /\ ~TooManyLinks(e) /\ IsDirectory(e)
                /\ found' = Append(found, e) /\ dir' = e /\ stage' = "open"
             \/ /\ ~TooManyLinks(e) /\ ~IsDirectory(e) /\ dir' = dir /\ stage' = "walk"
                /\ found' = IF e.node \in Matching THEN Append(found, e) ELSE found
      PROVE  OPCInv'
  <2>1. e \in EntrySet
    BY <1>2
  <2>2. /\ walk' \in Seq(SUBSET EntrySet) /\ Len(walk') = Len(walk)
        /\ walk'[Len(walk)] = top \ {e} /\ walk' # <<>>
    <3>1. <<top \ {e}>> \in Seq(SUBSET EntrySet)
      BY <1>2
    <3> QED
      BY <1>2, <1>8, <3>1
  <2>3. found' = found \/ found' = Append(found, e)
    BY <1>8
  <2>4. found' \in Seq(EntrySet) /\ (Spoilt => Spoilt')
    <3>1. CASE found' = found
      BY <1>1, <3>1, Unmoved DEF Spoilt, OPCInv, Shape
    <3> QED
      BY <1>1, <2>1, <2>3, <3>1, Finds, Unmoved DEF OPCInv
  <2>5. Shape'
    BY <1>1, <1>8, <2>1, <2>2, <2>4 DEF OPCInv, Shape, Stages, Quiet, fileSystem
  <2>6. GrepFilesInv'
    <3>1. Undisturbed("grepfiles")' => stage' \in {"walk", "open"}
      BY <1>8 DEF Undisturbed
    <3> QED
      BY <1>6, <3>1 DEF GrepFilesInv
  <2>7. FindInv'
    <3> SUFFICES ASSUME Undisturbed("find")' PROVE FindInv'
      BY DEF FindInv
    <3>1. /\ Undisturbed("find") /\ files = <<>>
          /\ Spoilt \/ (Len(walk) = 1 /\ Walked(walk[1]))
      BY <1>4
    <3>2. CASE /\ IsDirectory(e) /\ found' = Append(found, e) /\ stage' = "open"
      <4>1. kind[e.node] # "file"
        BY <3>2 DEF IsDirectory
      <4>2. Spoilt'
        BY <1>1, <2>1, <3>2, <4>1, Finds, Unmoved DEF OPCInv
      <4> QED
        BY <1>1, <2>5, <3>1, <3>2, <4>2 DEF FindInv, Shape
    <3>3. CASE /\ ~IsDirectory(e) /\ stage' = "walk"
               /\ found' = IF e.node \in Matching THEN Append(found, e) ELSE found
      <4>1. CASE Len(walk) = 1 /\ Walked(walk[1])
        <5> DEFINE was == {found[i] : i \in 1..Len(found)}
                   is == {found'[i] : i \in 1..Len(found')}
                   all == EntriesOf(Start)
        <5>1. top = walk[1] /\ walk'[1] = top \ {e} /\ e \in all /\ Len(walk') = 1
          BY <1>2, <2>2, <4>1 DEF Walked
        <5>2. is = was \cup {x \in {e} : x.node \in Matching}
          <6>1. CASE e.node \in Matching
            BY <1>1, <2>1, <3>3, <6>1, Finds, Unmoved DEF OPCInv
          <6>2. CASE e.node \notin Matching
            BY <3>3, <6>2
          <6> QED
            BY <6>1, <6>2
        <5>3. was = {x \in all \ top : x.node \in Matching}
          BY <4>1, <5>1 DEF Walked
        <5> HIDE DEF was
        <5>4. is = {x \in all \ (top \ {e}) : x.node \in Matching}
          <6> HIDE DEF is, all
          <6> QED
            BY <5>1, <5>2, <5>3
        <5>5. \A x \in all \ (top \ {e}) : ~IsDirectory(x)
          BY <3>3, <4>1, <5>1 DEF Walked
        <5>6. IsDirectory(Start) /\ top \ {e} \subseteq all
          BY <4>1, <5>1 DEF Walked
        <5>7. Walked(walk[1])'
          BY <1>1, <5>1, <5>4, <5>5, <5>6, Unmoved DEF Walked
        <5> QED
          BY <1>1, <2>5, <3>1, <3>3, <5>1, <5>7 DEF FindInv, Shape
      <4> QED
        BY <1>1, <2>4, <2>5, <3>1, <3>3, <4>1 DEF FindInv, Shape
    <3> QED
      BY <1>8, <3>2, <3>3 DEF Undisturbed
  <2> QED
    BY <1>3, <2>5, <2>6, <2>7 DEF OPCInv, ListInv, GrepInv
<1>9. ASSUME NEW e \in top, walk' = Front(walk) \o <<top \ {e}>>,
             \/ TooManyLinks(e) /\ Throw /\ UNCHANGED <<dir, found>>
             \/ /\ ~TooManyLinks(e) /\ IsDirectory(e)
                /\ found' = Append(found, e) /\ dir' = e /\ Goto("open")
             \/ /\ ~TooManyLinks(e) /\ ~IsDirectory(e)
                /\ found' = IF e.node \in Matching THEN Append(found, e) ELSE found
                /\ UNCHANGED <<dir, stage, error>>
      PROVE  OPCInv'
  BY <1>1, <1>8, <1>9 DEF Goto, Throw
<1> QED
  <2>1. \/ /\ top = {} /\ walk' = Front(walk) /\ UNCHANGED <<dir, found>>
           /\ Goto(IF Len(walk) > 1 THEN "walk"
                   ELSE IF request.op = "find" THEN "infos" ELSE "greps")
        \/ \E e \in top :
             /\ walk' = Front(walk) \o <<top \ {e}>>
             /\ \/ TooManyLinks(e) /\ Throw /\ UNCHANGED <<dir, found>>
                \/ /\ ~TooManyLinks(e) /\ IsDirectory(e)
                   /\ found' = Append(found, e) /\ dir' = e /\ Goto("open")
                \/ /\ ~TooManyLinks(e) /\ ~IsDirectory(e)
                   /\ found' = IF e.node \in Matching THEN Append(found, e) ELSE found
                   /\ UNCHANGED <<dir, stage, error>>
    BY Zenon DEF Walk, top
  <2> QED
    BY <1>7, <1>9, <2>1 DEF Goto

LEMMA InfosKeeps == OPCInv /\ Infos => OPCInv'
<1> SUFFICES ASSUME OPCInv, Infos PROVE OPCInv'
  OBVIOUS
<1>1. stage = "infos" /\ Quiet /\ UNCHANGED <<dir, walk, found, grep, results, answers>>
  BY DEF Infos, Quiet, Goto, Throw, GetFileInfo, OPCInv, Shape, fileSystem
<1>2. \/ Len(files) = Len(found) /\ stage' = "end" /\ files' = files
      \/ /\ Len(files) < Len(found) /\ stage' = "infos"
         /\ kind[found[Len(files) + 1].node] = "file"
         /\ files' = Append(files, found[Len(files) + 1])
      \/ error' /\ stage' = "end" /\ files' = files
  BY <1>1 DEF Infos, Goto, Throw, GetFileInfo
<1>3. /\ files \in Seq(EntrySet) /\ found \in Seq(EntrySet)
      /\ Len(files) \in Nat /\ Len(found) \in Nat
  BY DEF OPCInv, Shape
<1>4. files' \in Seq(EntrySet)
  <2>1. CASE Len(files) < Len(found) /\ files' = Append(files, found[Len(files) + 1])
    <3>1. found[Len(files) + 1] \in EntrySet
      BY <1>3, <2>1
    <3> QED
      BY <1>3, <2>1, <3>1
  <2> QED
    BY <1>2, <1>3, <2>1
<1>5. Shape'
  BY <1>1, <1>2, <1>4 DEF OPCInv, Shape, Stages, Quiet, fileSystem
<1>6. ASSUME NEW op \in {"list", "grep", "grepfiles"} PROVE ~Undisturbed(op)'
  BY <1>1, Quietly DEF OPCInv, ListInv, GrepInv, GrepFilesInv
<1>7. FindInv'
  <2> SUFFICES ASSUME Undisturbed("find")' PROVE FindInv'
    BY DEF FindInv
  <2>1. Undisturbed("find") /\ ~error'
    BY <1>1, Quietly DEF OPCInv, Undisturbed
  <2>2. /\ Spoilt \/ Walked({})
        /\ Len(files) <= Len(found)
        /\ \A i \in 1..Len(files) : files[i] = found[i] /\ kind[files[i].node] = "file"
    BY <1>1, <2>1 DEF OPCInv, FindInv
  <2>3. (Spoilt \/ Walked({}))'
    BY <1>1, <2>2, Unmoved DEF Spoilt, Walked
  <2>4. /\ Len(files') <= Len(found')
        /\ \A i \in 1..Len(files') : files'[i] = found'[i] /\ kind'[files'[i].node] = "file"
    <3>1. CASE files' = files
      BY <1>1, <2>2, <3>1, Unmoved
    <3>2. CASE /\ Len(files) < Len(found) /\ kind[found[Len(files) + 1].node] = "file"
               /\ files' = Append(files, found[Len(files) + 1])
      <4>1. /\ Len(files') = Len(files) + 1
            /\ \A i \in 1..Len(files) : files'[i] = files[i]
            /\ files'[Len(files) + 1] = found[Len(files) + 1]
        BY <1>3, <3>2
      <4>2. \A i : i \in 1..(Len(files) + 1) <=> i \in 1..Len(files) \/ i = Len(files) + 1
        BY <1>3
      <4> QED
        BY <1>1, <1>3, <2>2, <3>2, <4>1, <4>2, Unmoved
    <3> QED
      BY <1>2, <2>1, <3>1, <3>2
  <2>5. /\ stage' \in {"infos", "end"}
        /\ stage' = "end" => Len(files') = Len(found')
    BY <1>1, <1>2, <2>1
  <2> QED
    BY <2>3, <2>4, <2>5 DEF FindInv
<1> QED
  BY <1>5, <1>6, <1>7 DEF OPCInv, ListInv, GrepInv, GrepFilesInv

LEMMA CheckKeeps == OPCInv /\ Check => OPCInv'
<1> SUFFICES ASSUME OPCInv, Check PROVE OPCInv'
  OBVIOUS
<1>1. /\ stage = "check" /\ Quiet
      /\ UNCHANGED <<dir, walk, found, files, grep, results, answers>>
      /\ \/ /\ request.before >= 0 /\ request.after >= 0
            /\ stage' = IF request.op = "grep" THEN "greps" ELSE "compile"
         \/ error' /\ stage' = "end"
  BY DEF Check, Quiet, Goto, Throw, OPCInv, Shape, fileSystem
<1>2. Shape'
  BY <1>1 DEF OPCInv, Shape, Stages, Quiet, fileSystem
<1>3. ASSUME NEW op \in {"list", "find"} PROVE ~Undisturbed(op)'
  BY <1>1, Quietly DEF OPCInv, ListInv, FindInv
<1>4. GrepInv'
  <2> SUFFICES ASSUME Undisturbed("grep")' PROVE GrepInv'
    BY DEF GrepInv
  <2>1. Undisturbed("grep") /\ stage' = "greps" /\ request.before >= 0 /\ request.after >= 0
    BY <1>1, Quietly DEF OPCInv, Undisturbed
  <2>2. results' = <<>>
    BY <1>1, <2>1 DEF OPCInv, GrepInv
  <2>3. Len(results') = 0
    BY <2>2
  <2> QED
    BY <2>1, <2>3, Unmoved, <1>1 DEF GrepInv
<1>5. GrepFilesInv'
  <2> SUFFICES ASSUME Undisturbed("grepfiles")' PROVE GrepFilesInv'
    BY DEF GrepFilesInv
  <2>1. Undisturbed("grepfiles") /\ stage' = "compile"
    BY <1>1, Quietly DEF OPCInv, Undisturbed
  <2> QED
    BY <1>1, <2>1, Unmoved DEF OPCInv, GrepFilesInv
<1> QED
  BY <1>2, <1>3, <1>4, <1>5 DEF OPCInv, ListInv, FindInv

\* How the lines are chosen depends only on the file and the request.
LEMMA Choosing ==
  ASSUME UNCHANGED <<content, request>>
  PROVE  /\ \A n : LastMatch(n)' = LastMatch(n) /\ Matches(n)' = Matches(n)
         /\ \A lines, n : Selected(lines, n)' <=> Selected(lines, n)
<1>1. \A n : LastMatch(n)' = LastMatch(n)
  BY DEF LastMatch
<1>2. \A n : Matches(n)' = Matches(n)
  BY DEF Matches
<1>3. \A i : After(i)' <=> After(i)
  BY <1>1 DEF After
<1>4. \A i, n : BeforeUpTo(i, n)' <=> BeforeUpTo(i, n)
  BY DEF BeforeUpTo
<1>5. \A n : Chosen(n)' = Chosen(n)
  BY <1>3, <1>4 DEF Chosen
<1>6. \A i : IndexOf(i)' = IndexOf(i)
  BY <1>3 DEF IndexOf
<1> QED
  BY <1>1, <1>2, <1>5, <1>6 DEF Selected

LEMMA AnswerKeeps == OPCInv /\ Answer => OPCInv'
<1> SUFFICES ASSUME OPCInv, Answer PROVE OPCInv'
  OBVIOUS
<1>1. /\ stage = "end" /\ stage' = "done" /\ Quiet
      /\ answers' = IF socket THEN answers + 1 ELSE answers
      /\ UNCHANGED <<dir, walk, found, files, grep, results>>
  BY DEF Answer, Quiet, OPCInv, Shape, fileSystem
<1>2. UNCHANGED <<content, request>>
  BY Unmoved, <1>1
<1>3. Shape'
  BY <1>1 DEF OPCInv, Shape, Stages, Quiet, fileSystem
<1>4. ListInv'
  <2> SUFFICES ASSUME Undisturbed("list")' PROVE ListInv'
    BY DEF ListInv
  <2> QED
    BY <1>1, Quietly, Unmoved DEF OPCInv, ListInv
<1>5. FindInv'
  <2> SUFFICES ASSUME Undisturbed("find")' PROVE FindInv'
    BY DEF FindInv
  <2>1. (Spoilt <=> Spoilt') /\ (Walked({}) <=> Walked({})')
    BY <1>1, Unmoved DEF Spoilt, Walked
  <2>2. Undisturbed("find")
    BY <1>1, Quietly DEF OPCInv
  <2> QED
    BY <1>1, <2>1, <2>2, Unmoved DEF OPCInv, FindInv
<1>6. GrepFilesInv'
  <2> SUFFICES ASSUME Undisturbed("grepfiles")' PROVE GrepFilesInv'
    BY DEF GrepFilesInv
  <2> QED
    BY <1>1, Quietly, Unmoved DEF OPCInv, GrepFilesInv
<1>7. GrepInv'
  <2> SUFFICES ASSUME Undisturbed("grep")' PROVE GrepInv'
    BY DEF GrepInv
  <2>1. Undisturbed("grep")
    BY <1>1, Quietly DEF OPCInv
  <2> QED
    BY <1>1, <1>2, <2>1, Unmoved, Choosing DEF OPCInv, GrepInv
<1> QED
  BY <1>3, <1>4, <1>5, <1>6, <1>7 DEF OPCInv

LEMMA ChangeKeeps == ASSUME OPCInv, NEW p \in Paths, Change(p) PROVE OPCInv'
<1>1. touched' # {} /\ \A op : ~Undisturbed(op)'
  BY DEF Change, OPCInv, Shape, Undisturbed
<1>2. kind' \in [Paths -> PathKind] /\ Consistent(kind')
  BY DEF Change, OPCInv, Shape
<1>3. Consistent(kind)'
  BY <1>2 DEF Consistent
<1>4. touched' \subseteq Paths
  BY DEF Change, OPCInv, Shape
<1>5. Shape'
  BY <1>2, <1>3, <1>4 DEF Change, OPCInv, Shape
<1> QED
  BY <1>1, <1>5 DEF OPCInv, ListInv, FindInv, GrepFilesInv, GrepInv
-----------------------------------------------------------------------------
\* A match is the last one, and one more.
LEMMA OneMore ==
  ASSUME NEW n \in Nat, content[n + 1], Matches(n) \in Nat
  PROVE  LastMatch(n + 1) = n + 1 /\ Matches(n + 1) = Matches(n) + 1
<1> DEFINE old == {j \in 1..n : content[j]}
           new == {j \in 1..(n + 1) : content[j]}
<1>1. new = old \cup {n + 1} /\ n + 1 \notin old
  OBVIOUS
<1>2. IsFiniteSet(old)
  <2>1. IsFiniteSet(1..n)
    BY FS_Interval
  <2> QED
    BY <2>1, FS_Subset
<1>3. Cardinality(new) = Cardinality(old) + 1
  BY <1>1, <1>2, FS_AddElement
<1>4. LastMatch(n + 1) = CHOOSE j \in new : \A k \in new : k <= j
  <2>1. new # {}
    BY <1>1
  <2> QED
    BY <2>1 DEF LastMatch
<1>5. n + 1 \in new /\ \A k \in new : k <= n + 1
  OBVIOUS
<1>6. \A j \in new : (\A k \in new : k <= j) => j = n + 1
  BY <1>5
<1> HIDE DEF new, old
<1>7. LastMatch(n + 1) = n + 1
  <2> DEFINE P(j) == \A k \in new : k <= j
  <2>1. LastMatch(n + 1) = CHOOSE j \in new : P(j)
    BY <1>4
  <2>2. n + 1 \in new /\ P(n + 1) /\ \A j \in new : P(j) => j = n + 1
    BY <1>5, <1>6
  <2> HIDE DEF P
  <2> QED
    BY <2>1, <2>2, Zenon
<1> QED
  BY <1>3, <1>7 DEF Matches, new, old

\* Lines without a match change neither.
LEMMA NoMore ==
  ASSUME NEW i \in Nat, NEW n \in Nat, i <= n, \A j \in (i + 1)..n : ~content[j]
  PROVE  LastMatch(i) = LastMatch(n) /\ Matches(i) = Matches(n)
<1> DEFINE a == {j \in 1..i : content[j]}
           b == {j \in 1..n : content[j]}
<1>1. a = b
  OBVIOUS
<1>2. /\ LastMatch(i) = IF a = {} THEN 0 ELSE CHOOSE j \in a : \A k \in a : k <= j
      /\ LastMatch(n) = IF b = {} THEN 0 ELSE CHOOSE j \in b : \A k \in b : k <= j
      /\ Matches(i) = Cardinality(a) /\ Matches(n) = Cardinality(b)
  <2>1. LastMatch(i) = IF a = {} THEN 0 ELSE CHOOSE j \in a : \A k \in a : k <= j
    BY DEF LastMatch
  <2>2. LastMatch(n) = IF b = {} THEN 0 ELSE CHOOSE j \in b : \A k \in b : k <= j
    BY DEF LastMatch
  <2>3. Matches(i) = Cardinality(a) /\ Matches(n) = Cardinality(b)
    BY DEF Matches
  <2> QED
    BY <2>1, <2>2, <2>3
<1> DEFINE F(s) == IF s = {} THEN 0 ELSE CHOOSE j \in s : \A k \in s : k <= j
<1>3. LastMatch(i) = F(a) /\ LastMatch(n) = F(b)
  BY <1>2
<1> HIDE DEF F, a, b
<1> QED
  BY <1>1, <1>2, <1>3

LEMMA NoneYet == LastMatch(0) = 0 /\ Matches(0) = 0 /\ Chosen(0) = {}
<1>1. 1..0 = {}
  OBVIOUS
<1>2. {j \in 1..0 : content[j]} = {}
  BY <1>1
<1> QED
  BY <1>1, <1>2, FS_EmptySet DEF LastMatch, Matches, Chosen

\* Lines in a row that follow those selected.
LEMMA MoreSelected ==
  ASSUME NEW lines \in Seq(Line), NEW new \in Seq(Line), NEW n \in Nat, NEW c \in Nat,
         Selected(lines, n), Chosen(n) \subseteq 1..c,
         \A k \in 1..Len(new) : new[k].line = c + k /\ new[k].index = IndexOf(c + k),
         Chosen(n + 1) = Chosen(n) \cup {c + k : k \in 1..Len(new)}
  PROVE  Selected(lines \o new, n + 1)
<1> DEFINE all == lines \o new
           l == Len(lines)
           m == Len(new)
<1>1. l \in Nat /\ m \in Nat /\ Len(all) = l + m
      /\ (\A k \in 1..l : all[k] = lines[k]) /\ (\A k \in 1..m : all[l + k] = new[k])
  OBVIOUS
<1>2. \A k \in 1..(l + m) : k \in 1..l \/ \E d \in 1..m : k = l + d
  <2> SUFFICES ASSUME NEW k \in 1..(l + m), k \notin 1..l PROVE \E d \in 1..m : k = l + d
    OBVIOUS
  <2>1. k - l \in 1..m /\ k = l + (k - l)
    BY <1>1
  <2> QED
    BY <2>1
<1>3. \A k \in 1..l : lines[k].line \in Chosen(n) /\ lines[k].index = IndexOf(lines[k].line)
  BY DEF Selected
<1>4. \A j, k \in 1..l : j < k => lines[j].line < lines[k].line
  BY DEF Selected
<1>5. \A k \in 1..m : all[l + k].line = c + k /\ all[l + k].index = IndexOf(c + k)
  BY <1>1
<1> HIDE DEF all, l, m
<1>6. \A k \in 1..Len(all) : all[k].index = IndexOf(all[k].line)
  <2>1. \A k \in 1..l : all[k].index = IndexOf(all[k].line)
    BY <1>1, <1>3
  <2>2. \A k \in 1..m : all[l + k].index = IndexOf(all[l + k].line)
    BY <1>5
  <2> QED
    <3> SUFFICES ASSUME NEW k \in 1..Len(all) PROVE all[k].index = IndexOf(all[k].line)
      OBVIOUS
    <3>1. k \in 1..l \/ \E d \in 1..m : k = l + d
      BY <1>1, <1>2
    <3> QED
      BY <2>1, <2>2, <3>1
<1>7. \A j, k \in 1..Len(all) : j < k => all[j].line < all[k].line
  <2> SUFFICES ASSUME NEW j \in 1..Len(all), NEW k \in 1..Len(all), j < k
               PROVE  all[j].line < all[k].line
    OBVIOUS
  <2>1. CASE k \in 1..l
    BY <1>1, <1>4, <2>1
  <2>2. ASSUME NEW d \in 1..m, k = l + d, j \in 1..l PROVE all[j].line < all[k].line
    <3>1. all[j].line \in 1..c /\ all[k].line = c + d
      BY <1>1, <1>3, <1>5, <2>2
    <3> QED
      BY <1>1, <3>1
  <2>3. ASSUME NEW d \in 1..m, k = l + d, NEW e \in 1..m, j = l + e
        PROVE  all[j].line < all[k].line
    <3>1. all[j].line = c + e /\ all[k].line = c + d
      BY <1>5, <2>3
    <3>2. e < d /\ e \in Nat /\ d \in Nat
      BY <1>1, <2>3
    <3>3. c + e < c + d
      BY <3>2
    <3> QED
      BY <3>1, <3>3
  <2> QED
    BY <1>1, <1>2, <2>1, <2>2, <2>3
<1>8. {all[k].line : k \in 1..Len(all)} = Chosen(n + 1)
  <2>1. ASSUME NEW x \in {all[k].line : k \in 1..Len(all)} PROVE x \in Chosen(n + 1)
    <3>1. PICK k \in 1..Len(all) : x = all[k].line
      BY <2>1
    <3>2. CASE k \in 1..l
      BY <1>1, <1>3, <3>1, <3>2
    <3>3. ASSUME NEW d \in 1..m, k = l + d PROVE x \in Chosen(n + 1)
      BY <1>5, <3>1, <3>3 DEF m
    <3> QED
      BY <1>1, <1>2, <3>2, <3>3
  <2>2. ASSUME NEW x \in Chosen(n) PROVE x \in {all[k].line : k \in 1..Len(all)}
    <3>1. PICK k \in 1..l : x = lines[k].line
      BY <2>2 DEF Selected, l
    <3> QED
      BY <1>1, <3>1
  <2>3. ASSUME NEW d \in 1..m PROVE c + d \in {all[k].line : k \in 1..Len(all)}
    <3>1. l + d \in 1..Len(all) /\ all[l + d].line = c + d
      BY <1>1, <1>5, <2>3
    <3> QED
      BY <3>1
  <2> QED
    BY <2>1, <2>2, <2>3 DEF m
<1> QED
  BY <1>6, <1>7, <1>8 DEF Selected, all
-----------------------------------------------------------------------------
LEMMA NoneSelected == Selected(<<>>, 0)
  BY NoneYet DEF Selected

\* GrepFile before the first line.
First(rest, after) == [NoGrep EXCEPT !.rest = rest, !.after = after]

LEMMA BeforeFirst ==
  ASSUME NEW rest \in Seq(BOOLEAN), NEW after \in Int
  PROVE  LET g == First(rest, after) IN
         /\ g \in GrepSet /\ g.rest = rest /\ g.line = 0 /\ g.buffer = <<>>
         /\ Len(g.buffer) = 0 /\ g.after = after /\ g.index = -1 /\ g.selected = <<>>
<1>1. <<>> \in Seq(BOOLEAN) /\ <<>> \in Seq(Nat) /\ <<>> \in Seq(Line) /\ -1 \in Int
  OBVIOUS
<1>2. NoGrep \in GrepSet
  BY <1>1 DEF NoGrep, GrepSet
<1>3. /\ NoGrep.line = 0 /\ NoGrep.buffer = <<>> /\ NoGrep.index = -1
      /\ NoGrep.selected = <<>>
  BY DEF NoGrep
<1> DEFINE g == First(rest, after)
<1>4. /\ g \in GrepSet /\ g.rest = rest /\ g.line = 0 /\ g.buffer = <<>>
      /\ g.after = after /\ g.index = -1 /\ g.selected = <<>>
  BY <1>2, <1>3 DEF GrepSet, First
<1> HIDE DEF g
<1>5. Len(g.buffer) = 0
  <2>1. g.buffer \in Seq(Nat)
    BY <1>4 DEF GrepSet
  <2> QED
    BY <1>4, <2>1
<1> QED
  BY <1>4, <1>5 DEF g

LEMMA GrepBeginKeeps == OPCInv /\ GrepBegin => OPCInv'
<1> SUFFICES ASSUME OPCInv, GrepBegin PROVE OPCInv'
  OBVIOUS
<1>1. stage = "greps" /\ Quiet /\ UNCHANGED <<dir, walk, found, files, answers>>
  BY DEF GrepBegin, Quiet, Goto, Throw, OPCInv, Shape, fileSystem
<1> DEFINE many == IF request.op = "grep" THEN 1 ELSE Len(found)
           rest == IF kind[request.path] = "file" THEN content ELSE <<>>
           first == First(rest, request.after)
<1>2. \/ Len(results) = many /\ stage' = "end" /\ UNCHANGED <<grep, results>>
      \/ /\ Len(results) < many /\ grep' = first /\ results' = Append(results, <<>>)
         /\ stage' = "lines" \/ (error' /\ stage' = "end")
  BY DEF GrepBegin, Goto, Throw, First
<1>3. /\ rest \in Seq(BOOLEAN) /\ request.after \in Int
      /\ first \in GrepSet /\ first.rest = rest /\ first.line = 0 /\ first.buffer = <<>>
      /\ Len(first.buffer) = 0 /\ first.after = request.after /\ first.index = -1
      /\ first.selected = <<>>
  <2>1. rest \in Seq(BOOLEAN) /\ request.after \in Int
    <3>1. content \in Seq(BOOLEAN) /\ <<>> \in Seq(BOOLEAN) /\ request.after \in Int
      BY Types DEF OPCInv
    <3> QED
      BY <3>1, Zenon
  <2> HIDE DEF rest
  <2> QED
    BY <2>1, BeforeFirst
<1>4. results \in Seq(Seq(Line)) /\ Len(results) \in Nat
  BY DEF OPCInv, Shape
<1>5. /\ Append(results, <<>>) \in Seq(Seq(Line)) /\ Len(Append(results, <<>>)) = Len(results) + 1
      /\ \A k \in 1..Len(results) : Append(results, <<>>)[k] = results[k]
      /\ Append(results, <<>>)[Len(results) + 1] = <<>>
  <2> DEFINE T == Seq(Line)
  <2>1. <<>> \in T /\ results \in Seq(T)
    BY <1>4
  <2> HIDE DEF T
  <2>2. /\ Append(results, <<>>) \in Seq(T) /\ Len(Append(results, <<>>)) = Len(results) + 1
        /\ \A k \in 1..Len(results) : Append(results, <<>>)[k] = results[k]
        /\ Append(results, <<>>)[Len(results) + 1] = <<>>
    BY <2>1
  <2> QED
    BY <2>2 DEF T
<1> HIDE DEF first, rest, many
<1>6. Shape'
  <2>1. grep' \in GrepSet
    BY <1>2, <1>3 DEF OPCInv, Shape
  <2>2. results' \in Seq(Seq(Line)) /\ (stage' = "lines" => results' # <<>>)
    <3>1. Append(results, <<>>) # <<>>
      BY <1>4, <1>5
    <3> QED
      BY <1>2, <1>4, <1>5, <3>1
  <2>3. stage' \in {"end", "lines"}
    BY <1>2
  <2> QED
    BY <1>1, <2>1, <2>2, <2>3 DEF OPCInv, Shape, Stages, Quiet, fileSystem
<1>7. ASSUME NEW op \in {"list", "find"} PROVE ~Undisturbed(op)'
  BY <1>1, Quietly DEF OPCInv, ListInv, FindInv
<1>8. GrepFilesInv'
  <2> SUFFICES ASSUME Undisturbed("grepfiles")' PROVE GrepFilesInv'
    BY DEF GrepFilesInv
  <2>1. Undisturbed("grepfiles") /\ ~error'
    BY <1>1, Quietly DEF OPCInv, Undisturbed
  <2>2. kind[request.path] # "file" /\ \A k \in 1..Len(results) : results[k] = <<>>
    BY <1>1, <2>1 DEF OPCInv, GrepFilesInv
  <2>3. CASE stage' = "end" /\ UNCHANGED <<grep, results>>
    BY <1>1, <2>2, <2>3, Unmoved DEF GrepFilesInv
  <2>4. CASE stage' = "lines" /\ grep' = first /\ results' = Append(results, <<>>)
    <3>1. rest = <<>>
      BY <2>2 DEF rest
    <3>2. \A k : k \in 1..(Len(results) + 1) <=> k \in 1..Len(results) \/ k = Len(results) + 1
      BY <1>4
    <3>3. \A k \in 1..Len(results') : results'[k] = <<>>
      BY <1>5, <2>2, <2>4, <3>2
    <3> QED
      BY <1>1, <1>3, <2>2, <2>4, <3>1, <3>3, Unmoved DEF GrepFilesInv
  <2> QED
    BY <1>2, <2>1, <2>3, <2>4
<1>9. GrepInv'
  <2> SUFFICES ASSUME Undisturbed("grep")' PROVE GrepInv'
    BY DEF GrepInv
  <2>1. Undisturbed("grep") /\ ~error' /\ many = 1
    BY <1>1, Quietly DEF OPCInv, Undisturbed, many
  <2>2. /\ request.before >= 0 /\ request.after >= 0 /\ Len(results) <= 1
        /\ kind[request.path] = "file" =>
             \A k \in 1..Len(results) : Selected(results[k], Len(content))
    BY <1>1, <2>1 DEF OPCInv, GrepInv
  <2>3. UNCHANGED <<content, request, kind>>
    BY Unmoved, <1>1
  <2>4. CASE stage' = "end" /\ UNCHANGED <<grep, results>> /\ Len(results) = 1
    BY <2>2, <2>3, <2>4, Choosing DEF GrepInv
  <2>5. CASE stage' = "lines" /\ Len(results) < 1 /\ grep' = first
             /\ results' = Append(results, <<>>)
    <3>1. Len(results') = 1
      BY <1>4, <1>5, <2>5
    <3>2. ASSUME kind[request.path] = "file" PROVE Reading(first)
      <4>1. rest = content /\ content \in Seq(BOOLEAN)
        <5>1. rest = content
          BY <3>2, Zenon DEF rest
        <5> QED
          BY <5>1, Types DEF OPCInv
      <4>2. request.before \in Int
        BY Types DEF OPCInv
      <4>3. Len(first.buffer) = 0 /\ first.line - Len(first.buffer) = 0
        <5>1. Len(first.buffer) = 0 /\ first.line = 0
          BY <1>3, Zenon
        <5>2. 0 - 0 = 0
          OBVIOUS
        <5> QED
          BY <5>1, <5>2, Zenon
      <4>4. \A j \in 1..first.line : FALSE
        BY <1>3
      <4>5. LastMatch(first.line) = 0 /\ Matches(first.line) = 0
        BY <1>3, NoneYet
      <4>6. Selected(first.selected, first.line)
        BY <1>3, NoneSelected
      <4>7. ~(0 > 0)
        OBVIOUS
      <4> QED
        BY <1>3, <2>2, <4>7, <4>1, <4>2, <4>3, <4>4, <4>5, <4>6 DEF Reading
    <3>3. kind[request.path] = "file" => Reading(grep)'
      BY <2>3, <2>5, <3>2, Choosing DEF Reading
    <3> QED
      BY <2>2, <2>3, <2>5, <3>1, <3>3 DEF GrepInv
  <2> QED
    BY <1>2, <2>1, <2>4, <2>5
<1> QED
  BY <1>6, <1>7, <1>8, <1>9 DEF OPCInv, ListInv, FindInv

LEMMA GrepEndKeeps == OPCInv /\ GrepEnd => OPCInv'
<1> SUFFICES ASSUME OPCInv, GrepEnd PROVE OPCInv'
  OBVIOUS
<1>1. /\ stage = "lines" /\ grep.rest = <<>> /\ stage' = "greps" /\ Quiet
      /\ results' = [results EXCEPT ![Len(results)] = grep.selected]
      /\ UNCHANGED <<dir, walk, found, files, grep, answers>>
  BY DEF GrepEnd, Quiet, Goto, OPCInv, Shape, fileSystem
<1>2. /\ results' \in Seq(Seq(Line)) /\ Len(results') = Len(results)
      /\ Len(results) \in Nat \ {0}
      /\ \A k \in 1..Len(results) :
           results'[k] = IF k = Len(results) THEN grep.selected ELSE results[k]
  <2> DEFINE T == Seq(Line)
  <2>1. results \in Seq(T) /\ grep.selected \in T /\ results # <<>>
    BY <1>1 DEF OPCInv, Shape, GrepSet
  <2> HIDE DEF T
  <2>2. /\ results' \in Seq(T) /\ Len(results') = Len(results)
        /\ Len(results) \in Nat \ {0}
        /\ \A k \in 1..Len(results) :
             results'[k] = IF k = Len(results) THEN grep.selected ELSE results[k]
    BY <1>1, <2>1
  <2> QED
    BY <2>2 DEF T
<1>3. Shape'
  BY <1>1, <1>2 DEF OPCInv, Shape, Stages, Quiet, fileSystem
<1>4. ASSUME NEW op \in {"list", "find"} PROVE ~Undisturbed(op)'
  BY <1>1, Quietly DEF OPCInv, ListInv, FindInv
<1>5. GrepFilesInv'
  <2> SUFFICES ASSUME Undisturbed("grepfiles")' PROVE GrepFilesInv'
    BY DEF GrepFilesInv
  <2>1. /\ kind[request.path] # "file" /\ \A k \in 1..Len(results) : results[k] = <<>>
        /\ grep.selected = <<>>
    BY <1>1, Quietly DEF OPCInv, GrepFilesInv
  <2>2. \A k \in 1..Len(results') : results'[k] = <<>>
    BY <1>2, <2>1
  <2> QED
    BY <1>1, <2>1, <2>2, Unmoved DEF GrepFilesInv
<1>6. GrepInv'
  <2> SUFFICES ASSUME Undisturbed("grep")' PROVE GrepInv'
    BY DEF GrepInv
  <2>1. /\ request.before >= 0 /\ request.after >= 0 /\ Len(results) <= 1
        /\ kind[request.path] = "file" => Reading(grep)
    BY <1>1, Quietly DEF OPCInv, GrepInv
  <2>2. UNCHANGED <<content, request, kind>>
    BY Unmoved, <1>1
  <2>3. Len(results) = 1 /\ results'[1] = grep.selected
    BY <1>2, <2>1
  <2>4. ASSUME kind[request.path] = "file" PROVE Selected(grep.selected, Len(content))
    <3>1. grep.line \in Nat /\ content \in Seq(BOOLEAN)
      BY Types DEF OPCInv, Shape, GrepSet
    <3>2. Len(grep.rest) = 0 /\ Len(grep.rest) = Len(content) - grep.line
          /\ Selected(grep.selected, grep.line)
      BY <1>1, <2>1, <2>4 DEF Reading
    <3>3. grep.line = Len(content)
      BY <3>1, <3>2
    <3> QED
      BY <3>2, <3>3
  <2>5. kind[request.path] = "file" =>
          \A k \in 1..Len(results') : Selected(results'[k], Len(content))
    BY <1>2, <2>3, <2>4
  <2> QED
    BY <1>1, <1>2, <2>1, <2>2, <2>3, <2>5, Choosing DEF GrepInv
<1> QED
  BY <1>3, <1>4, <1>5, <1>6 DEF OPCInv, ListInv, FindInv

LEMMA Selecting ==
  ASSUME NEW lines \in Seq(Nat), NEW i \in Int
  PROVE  /\ Select(lines, i) \in Seq(Line) /\ Len(Select(lines, i)) = Len(lines)
         /\ \A k \in 1..Len(lines) : /\ Select(lines, i)[k].line = lines[k]
                                     /\ Select(lines, i)[k].index = i
<1> DEFINE s == [k \in 1..Len(lines) |-> [line |-> lines[k], index |-> i]]
<1>1. Len(lines) \in Nat /\ \A k \in 1..Len(lines) : [line |-> lines[k], index |-> i] \in Line
  BY DEF Line
<1>2. s \in Seq(Line) /\ Len(s) = Len(lines)
  BY <1>1
<1>3. \A k \in 1..Len(lines) : s[k].line = lines[k] /\ s[k].index = i
  OBVIOUS
<1> QED
  BY <1>2, <1>3 DEF Select

\* What is in the buffer, with the next line.
Read == Append(grep.buffer, grep.line + 1)

LEMMA Reads ==
  ASSUME grep \in GrepSet
  PROVE  /\ grep.line \in Nat /\ grep.buffer \in Seq(Nat) /\ Len(grep.buffer) \in Nat
         /\ grep.index \in Int /\ grep.after \in Int /\ grep.selected \in Seq(Line)
         /\ Read \in Seq(Nat) /\ Len(Read) = Len(grep.buffer) + 1
         /\ \A k \in 1..Len(grep.buffer) : Read[k] = grep.buffer[k]
         /\ Read[Len(grep.buffer) + 1] = grep.line + 1
         /\ Tail(Read) \in Seq(Nat) /\ Len(Tail(Read)) = Len(grep.buffer)
         /\ \A k \in 1..Len(grep.buffer) : Tail(Read)[k] = Read[k + 1]
         /\ Head(Read) = Read[1] /\ Head(Read) \in Nat
<1>1. /\ grep.line \in Nat /\ grep.buffer \in Seq(Nat) /\ grep.index \in Int
      /\ grep.after \in Int /\ grep.selected \in Seq(Line)
  BY DEF GrepSet
<1>2. /\ Len(grep.buffer) \in Nat
      /\ Read \in Seq(Nat) /\ Len(Read) = Len(grep.buffer) + 1
      /\ \A k \in 1..Len(grep.buffer) : Read[k] = grep.buffer[k]
      /\ Read[Len(grep.buffer) + 1] = grep.line + 1
  BY <1>1 DEF Read
<1> HIDE DEF Read
<1>3. Read # <<>>
  BY <1>2
<1>4. /\ Tail(Read) \in Seq(Nat) /\ Len(Tail(Read)) = Len(Read) - 1
      /\ \A k \in 1..(Len(Read) - 1) : Tail(Read)[k] = Read[k + 1]
      /\ Head(Read) = Read[1] /\ Head(Read) \in Nat
  BY <1>2, <1>3
<1>5. Len(Read) - 1 = Len(grep.buffer)
  BY <1>2
<1> QED
  BY <1>1, <1>2, <1>4, <1>5

\* The three ways of GrepFile's loop.
Hit ==
  /\ grep'.index = grep.index + 1 /\ grep'.after = request.after /\ grep'.buffer = <<>>
  /\ grep'.selected = grep.selected \o Select(Read, grep.index + 1)

Follow ==
  /\ grep'.index = grep.index /\ grep'.after = grep.after - 1 /\ grep'.buffer = Tail(Read)
  /\ grep'.selected = grep.selected \o Select(<<Head(Read)>>, grep.index)

Keep ==
  /\ grep'.index = grep.index /\ grep'.after = grep.after /\ grep'.buffer = Kept(Read)
  /\ grep'.selected = grep.selected

LEMMA Popping ==
  ASSUME NEW T, NEW s \in Seq(T), s # <<>>
  PROVE  /\ Len(s) \in Nat \ {0} /\ s[1] \in T /\ Head(s) = s[1]
         /\ Tail(s) \in Seq(T) /\ Len(Tail(s)) = Len(s) - 1
         /\ \A k \in 1..(Len(s) - 1) : Tail(s)[k] = s[k + 1]
OBVIOUS

LEMMA LineRead ==
  ASSUME Shape, GrepLine
  PROVE  /\ grep' \in GrepSet
         /\ grep.rest \in Seq(BOOLEAN) /\ Len(grep.rest) \in Nat \ {0}
         /\ grep'.rest = Tail(grep.rest) /\ grep'.line = grep.line + 1
         /\ grep.rest[1] => Hit
         /\ ~grep.rest[1] => IF grep.after > 0 THEN Follow ELSE Keep
<1>1. grep \in GrepSet /\ grep.rest # <<>> /\ request.after \in Int /\ request.before \in Int
  BY Types DEF Shape, GrepLine
<1>2. grep.rest \in Seq(BOOLEAN)
  BY <1>1 DEF GrepSet
<1>3. /\ Len(grep.rest) \in Nat \ {0} /\ Head(grep.rest) = grep.rest[1]
      /\ Tail(grep.rest) \in Seq(BOOLEAN) /\ grep.rest[1] \in BOOLEAN
  BY <1>1, <1>2, Popping
<1> DEFINE next == [grep EXCEPT !.rest = Tail(@), !.line = @ + 1]
<1>4. grep' = IF Head(grep.rest)
              THEN [next EXCEPT !.index = @ + 1, !.after = request.after, !.buffer = <<>>,
                                !.selected = @ \o Select(Read, grep.index + 1)]
              ELSE IF grep.after > 0
              THEN [next EXCEPT !.after = @ - 1, !.buffer = Tail(Read),
                                !.selected = @ \o Select(<<Head(Read)>>, grep.index)]
              ELSE [next EXCEPT !.buffer = Kept(Read)]
  BY Zenon DEF GrepLine, Read
<1> DEFINE tail == Tail(grep.rest)
<1>5. tail \in Seq(BOOLEAN)
  BY <1>3
<1>6. next = [grep EXCEPT !.rest = tail, !.line = @ + 1]
  OBVIOUS
<1> HIDE DEF tail, next
<1>7. /\ next \in GrepSet /\ next.rest = tail /\ next.line = grep.line + 1
      /\ next.index = grep.index /\ next.after = grep.after /\ next.buffer = grep.buffer
      /\ next.selected = grep.selected
  <2>1. grep.line + 1 \in Nat
    BY <1>1 DEF GrepSet
  <2>2. /\ next \in GrepSet /\ next.rest = tail /\ next.line = grep.line + 1
    BY <1>1, <1>5, <1>6, <2>1 DEF GrepSet
  <2>3. /\ next.index = grep.index /\ next.after = grep.after /\ next.buffer = grep.buffer
        /\ next.selected = grep.selected
    BY <1>1, <1>6 DEF GrepSet
  <2> QED
    BY <2>2, <2>3
<1>8. CASE Head(grep.rest)
  <2> DEFINE more == next.selected \o Select(Read, grep.index + 1)
  <2>1. grep.index + 1 \in Int /\ Select(Read, grep.index + 1) \in Seq(Line)
    BY <1>1, Reads, Selecting
  <2>2. more \in Seq(Line) /\ <<>> \in Seq(Nat)
    BY <1>1, <1>7, <2>1, Reads
  <2> HIDE DEF more
  <2>3. grep' = [next EXCEPT !.index = @ + 1, !.after = request.after, !.buffer = <<>>,
                             !.selected = more]
    BY <1>4, <1>8, Zenon DEF more
  <2>4. /\ grep' \in GrepSet /\ grep'.rest = next.rest /\ grep'.line = next.line
        /\ grep'.index = next.index + 1 /\ grep'.after = request.after
        /\ grep'.buffer = <<>> /\ grep'.selected = more
    BY <1>1, <1>7, <2>1, <2>2, <2>3 DEF GrepSet
  <2> QED
    BY <1>2, <1>3, <1>7, <1>8, <2>4 DEF Hit, more, tail
<1>9. CASE ~Head(grep.rest) /\ grep.after > 0
  <2> DEFINE more == next.selected \o Select(<<Head(Read)>>, grep.index)
             rest == Tail(Read)
  <2>1. <<Head(Read)>> \in Seq(Nat) /\ grep.index \in Int
    BY <1>1, Reads
  <2>2. Select(<<Head(Read)>>, grep.index) \in Seq(Line) /\ rest \in Seq(Nat)
    BY <1>1, <2>1, Reads, Selecting
  <2>3. more \in Seq(Line)
    BY <1>1, <1>7, <2>2, Reads
  <2> HIDE DEF more, rest
  <2>4. grep' = [next EXCEPT !.after = @ - 1, !.buffer = rest, !.selected = more]
    BY <1>4, <1>9, Zenon DEF more, rest
  <2>5. /\ grep' \in GrepSet /\ grep'.rest = next.rest /\ grep'.line = next.line
        /\ grep'.index = next.index /\ grep'.after = next.after - 1
        /\ grep'.buffer = rest /\ grep'.selected = more
    <3>1. rest \in Seq(Nat) /\ more \in Seq(Line) /\ next.after - 1 \in Int
      BY <1>1, <1>7, <2>2, <2>3, Reads
    <3> QED
      BY <1>7, <2>4, <3>1 DEF GrepSet
  <2> QED
    BY <1>2, <1>3, <1>7, <1>9, <2>5 DEF Follow, more, rest, tail
<1>10. CASE ~Head(grep.rest) /\ ~(grep.after > 0)
  <2> DEFINE kept == Kept(Read)
  <2>1. kept \in Seq(Nat)
    BY <1>1, Reads DEF Kept
  <2> HIDE DEF kept
  <2>2. grep' = [next EXCEPT !.buffer = kept]
    BY <1>4, <1>10, Zenon DEF kept
  <2>3. /\ grep' \in GrepSet /\ grep'.rest = next.rest /\ grep'.line = next.line
        /\ grep'.index = next.index /\ grep'.after = next.after
        /\ grep'.buffer = kept /\ grep'.selected = next.selected
    BY <1>7, <2>1, <2>2 DEF GrepSet
  <2> QED
    BY <1>2, <1>3, <1>7, <1>10, <2>3 DEF Keep, kept, tail
<1> QED
  BY <1>8, <1>9, <1>10
-----------------------------------------------------------------------------
\* How many lines have left the buffer: no match to come selects them.
Passed == grep.line - Len(grep.buffer)

\* GrepFile is about to take the next line.
Grepping ==
  /\ Shape /\ GrepLine /\ Reading(grep)
  /\ request.before >= 0 /\ request.after >= 0

LEMMA Bounds ==
  ASSUME Grepping
  PROVE  /\ grep.line \in Nat /\ Len(grep.buffer) \in Nat /\ request.before \in Int
         /\ request.after \in Int /\ request.before >= 0 /\ request.after >= 0
         /\ grep.index \in Int /\ grep.after \in Int /\ grep.after >= 0
         /\ grep.selected \in Seq(Line) /\ Read \in Seq(Nat)
         /\ Len(Read) = Len(grep.buffer) + 1
<1>1. /\ Shape /\ grep \in GrepSet /\ request.before >= 0 /\ request.after >= 0
      /\ Reading(grep)
  BY DEF Grepping, Shape
<1>2. request.before \in Int /\ request.after \in Int
  BY <1>1, Types
<1>3. grep.after >= 0
  BY <1>1 DEF Reading
<1> QED
  BY <1>1, <1>2, <1>3, Reads

\* Where it stands: the buffer has the last lines, which are not selected yet,
\* and all that a match in the next line can select.
LEMMA Standing ==
  ASSUME Grepping
  PROVE  LET n == grep.line
             b == Len(grep.buffer)
             last == LastMatch(n)
         IN
         /\ n \in Nat /\ b \in Nat /\ Passed \in 0..n /\ Passed = n - b
         /\ last \in 0..Passed /\ (last > 0 => content[last])
         /\ \A j \in (Passed + 1)..n : ~content[j]
         /\ \A i \in (Passed + 1)..n : /\ LastMatch(i) = last /\ Matches(i) = Matches(n)
                                        /\ ~After(i)
         /\ Chosen(n) \subseteq 1..Passed
         /\ b <= request.before /\ (b = request.before \/ Passed <= last + request.after)
         /\ \A k \in 1..(b + 1) : Read[k] = Passed + k
<1> DEFINE n == grep.line
           b == Len(grep.buffer)
           last == LastMatch(n)
<1>1. /\ grep \in GrepSet /\ n \in Nat /\ b \in Nat /\ request.before \in Int
      /\ request.after \in Int /\ grep.after \in Int
  BY Bounds DEF Grepping, Shape
<1>2. /\ last \in 0..n /\ (\A j \in 1..n : content[j] => j <= last)
      /\ grep.after >= 0
      /\ grep.after > 0 => grep.buffer = <<>> /\ n + grep.after = last + request.after
      /\ grep.after = 0 => /\ n - b >= last + request.after /\ b <= request.before
                           /\ b = request.before \/ n - b = last + request.after
      /\ \A k \in 1..b : grep.buffer[k] = (n - b) + k
  BY DEF Grepping, Reading
<1>3. grep.buffer = <<>> => b = 0
  OBVIOUS
<1>4. /\ Passed = n - b /\ Passed \in 0..n /\ last <= Passed
      /\ b <= request.before /\ (b = request.before \/ Passed <= last + request.after)
      /\ Passed = n \/ Passed >= last + request.after
  <2>1. Passed = n - b
    BY DEF Passed
  <2> HIDE DEF n, b, last
  <2>2. request.before >= 0 /\ request.after >= 0
    BY DEF Grepping
  <2> QED
    BY <1>1, <1>2, <1>3, <2>1, <2>2
<1>5. last > 0 => content[last]
  BY DEF Grepping, Reading
<1>6. \A j \in (Passed + 1)..n : ~content[j]
  <2> HIDE DEF n, b, last
  <2> QED
    BY <1>1, <1>2, <1>4
<1>7. ASSUME NEW i \in (Passed + 1)..n
      PROVE  LastMatch(i) = last /\ Matches(i) = Matches(n) /\ ~After(i)
  <2>1. i \in Nat /\ i <= n /\ \A j \in (i + 1)..n : ~content[j]
    <3> HIDE DEF n
    <3> QED
      BY <1>1, <1>4, <1>6
  <2>2. LastMatch(i) = last /\ Matches(i) = Matches(n)
    BY <1>1, <2>1, NoMore
  <2>3. ~(i <= last + request.after)
    <3> HIDE DEF n, b, last
    <3> QED
      BY <1>1, <1>2, <1>4
  <2> QED
    BY <2>2, <2>3 DEF After
<1>8. Chosen(n) \subseteq 1..Passed
  <2> SUFFICES ASSUME NEW i \in Chosen(n), ~(i <= Passed) PROVE FALSE
    <3>1. Chosen(n) \subseteq 1..n
      BY DEF Chosen
    <3> QED
      BY <1>1, <1>4, <3>1
  <2>1. i \in (Passed + 1)..n /\ (BeforeUpTo(i, n) \/ After(i))
    <3>1. i \in 1..n /\ (BeforeUpTo(i, n) \/ After(i))
      BY DEF Chosen
    <3> HIDE DEF n
    <3> QED
      BY <1>1, <1>4, <3>1
  <2>2. BeforeUpTo(i, n)
    BY <1>7, <2>1
  <2>3. PICK j \in i..n : content[j]
    BY <2>2 DEF BeforeUpTo
  <2> HIDE DEF n
  <2> QED
    BY <1>1, <1>4, <1>6, <2>1, <2>3
<1>9. \A k \in 1..(b + 1) : Read[k] = Passed + k
  <2> SUFFICES ASSUME NEW k \in 1..(b + 1) PROVE Read[k] = Passed + k
    OBVIOUS
  <2>1. (\A i \in 1..b : Read[i] = grep.buffer[i]) /\ Read[b + 1] = n + 1
    BY <1>1, Reads
  <2>2. \A i \in 1..b : grep.buffer[i] = (n - b) + i
    BY <1>2
  <2>3. Passed = n - b
    BY <1>4
  <2> HIDE DEF b, n
  <2>4. CASE k \in 1..b
    BY <2>1, <2>2, <2>3, <2>4
  <2>5. CASE k = b + 1
    <3>1. (n - b) + (b + 1) = n + 1
      BY <1>1
    <3> QED
      BY <2>1, <2>3, <2>5, <3>1
  <2> QED
    BY <1>1, <2>4, <2>5
<1> QED
  BY <1>1, <1>2, <1>4, <1>5, <1>6, <1>7, <1>8, <1>9

\* The next line is the one it takes.
LEMMA RestRead ==
  ASSUME Grepping
  PROVE  LET n == grep.line IN
         /\ grep'.line = n + 1 /\ n + 1 <= Len(content) /\ content[n + 1] = grep.rest[1]
         /\ Len(grep'.rest) = Len(content) - (n + 1)
         /\ \A k \in 1..Len(grep'.rest) : grep'.rest[k] = content[(n + 1) + k]
<1> DEFINE n == grep.line
           r == Len(grep.rest)
<1>1. /\ n \in Nat /\ grep.rest \in Seq(BOOLEAN) /\ grep.rest # <<>> /\ r \in Nat \ {0}
      /\ grep'.rest = Tail(grep.rest) /\ grep'.line = n + 1
  <2>1. Shape /\ GrepLine /\ grep \in GrepSet /\ grep.rest # <<>>
    BY DEF Grepping, Shape, GrepLine
  <2> QED
    BY <2>1, LineRead, Reads
<1>2. Len(grep'.rest) = r - 1 /\ \A k \in 1..(r - 1) : grep'.rest[k] = grep.rest[k + 1]
  BY <1>1, Popping
<1>3. /\ r = Len(content) - n /\ (\A k \in 1..r : grep.rest[k] = content[n + k])
      /\ Len(content) \in Nat
  <2>1. content \in Seq(BOOLEAN)
    BY Types DEF Grepping
  <2> QED
    BY <2>1 DEF Grepping, Reading
<1> HIDE DEF n, r
<1>4. n + 1 <= Len(content) /\ content[n + 1] = grep.rest[1] /\ r - 1 = Len(content) - (n + 1)
  BY <1>1, <1>3
<1>5. ASSUME NEW k \in 1..(r - 1) PROVE grep'.rest[k] = content[(n + 1) + k]
  <2>1. k + 1 \in 1..r /\ n + (k + 1) = (n + 1) + k
    BY <1>1
  <2> QED
    BY <1>2, <1>3, <2>1
<1> QED
  BY <1>1, <1>2, <1>4, <1>5 DEF n

\* Without a match in the next line, the lines chosen so far are the same.
LEMMA StillChosen ==
  ASSUME NEW n \in Nat, ~content[n + 1]
  PROVE  \A i \in 1..n : i \in Chosen(n + 1) <=> i \in Chosen(n)
<1> SUFFICES ASSUME NEW i \in 1..n PROVE BeforeUpTo(i, n + 1) <=> BeforeUpTo(i, n)
  BY DEF Chosen
<1>1. \A j : j \in i..(n + 1) <=> j \in i..n \/ j = n + 1
  OBVIOUS
<1> QED
  BY <1>1 DEF BeforeUpTo

LEMMA HitKeeps == ASSUME Grepping, Hit, grep.rest[1] PROVE Reading(grep')
<1> DEFINE n == grep.line
           b == Len(grep.buffer)
           last == LastMatch(n)
           new == Select(Read, grep.index + 1)
<1>1. /\ n \in Nat /\ b \in Nat /\ request.before \in Int /\ request.after \in Int
      /\ request.before >= 0 /\ request.after >= 0 /\ grep.index \in Int
      /\ Read \in Seq(Nat) /\ Len(Read) = b + 1 /\ grep.selected \in Seq(Line)
  BY Bounds
<1>2. /\ Passed \in 0..n /\ Passed = n - b /\ last \in 0..Passed /\ (last > 0 => content[last])
      /\ \A j \in (Passed + 1)..n : ~content[j]
      /\ \A i \in (Passed + 1)..n : LastMatch(i) = last /\ Matches(i) = Matches(n) /\ ~After(i)
      /\ Chosen(n) \subseteq 1..Passed
      /\ b <= request.before /\ (b = request.before \/ Passed <= last + request.after)
      /\ \A k \in 1..(b + 1) : Read[k] = Passed + k
  BY Standing
<1>3. /\ Matches(n) \in Nat /\ grep.index = Matches(n) - 1 /\ Selected(grep.selected, n)
      /\ \A j \in 1..n : content[j] => j <= last
  BY DEF Grepping, Reading
<1>4. /\ grep'.line = n + 1 /\ n + 1 <= Len(content) /\ content[n + 1]
      /\ Len(grep'.rest) = Len(content) - (n + 1)
      /\ \A k \in 1..Len(grep'.rest) : grep'.rest[k] = content[(n + 1) + k]
  BY RestRead
<1>5. LastMatch(n + 1) = n + 1 /\ Matches(n + 1) = Matches(n) + 1
  BY <1>1, <1>3, <1>4, OneMore
<1>6. /\ new \in Seq(Line) /\ Len(new) = b + 1
      /\ \A k \in 1..(b + 1) : new[k].line = Read[k] /\ new[k].index = grep.index + 1
  <2>1. grep.index + 1 \in Int
    BY <1>1
  <2>2. /\ new \in Seq(Line) /\ Len(new) = Len(Read)
        /\ \A k \in 1..Len(Read) : new[k].line = Read[k] /\ new[k].index = grep.index + 1
    BY <1>1, <2>1, Selecting
  <2> QED
    BY <1>1, <2>2
<1> HIDE DEF n, b, last, new
<1>7. \A k \in 1..(b + 1) : IndexOf(Passed + k) = Matches(n)
  <2> SUFFICES ASSUME NEW k \in 1..(b + 1) PROVE IndexOf(Passed + k) = Matches(n)
    OBVIOUS
  <2>1. IndexOf(Passed + k) = Matches(Passed + k) - IF After(Passed + k) THEN 1 ELSE 0
    BY DEF IndexOf, Matches
  <2>2. CASE k \in 1..b
    <3>1. Passed \in Int /\ Passed = n - b
      BY <1>1, <1>2
    <3>2. Passed + k \in (Passed + 1)..n
      BY <1>1, <2>2, <3>1
    <3>3. Matches(Passed + k) = Matches(n) /\ ~After(Passed + k)
      BY <1>2, <3>2
    <3> QED
      BY <1>3, <2>1, <3>3
  <2>3. CASE k = b + 1
    <3>1. Passed + k = n + 1
      BY <1>1, <1>2, <2>3
    <3>2. After(n + 1)
      BY <1>1, <1>5 DEF After
    <3> QED
      BY <1>3, <1>5, <2>1, <3>1, <3>2
  <2> QED
    BY <1>1, <2>2, <2>3
<1>8. Chosen(n + 1) = Chosen(n) \cup {Passed + k : k \in 1..(b + 1)}
  <2>1. ASSUME NEW i \in Chosen(n) PROVE i \in Chosen(n + 1)
    <3>1. i \in 1..n /\ (BeforeUpTo(i, n) \/ After(i))
      BY <2>1 DEF Chosen
    <3>2. BeforeUpTo(i, n) => BeforeUpTo(i, n + 1)
      BY <1>1, <3>1 DEF BeforeUpTo
    <3> QED
      BY <1>1, <3>1, <3>2 DEF Chosen
  <2>2. ASSUME NEW k \in 1..(b + 1) PROVE Passed + k \in Chosen(n + 1)
    <3>1. /\ Passed + k \in 1..(n + 1) /\ n + 1 \in (Passed + k)..(n + 1)
          /\ n + 1 <= (Passed + k) + request.before
      BY <1>1, <1>2
    <3> QED
      BY <1>4, <3>1 DEF Chosen, BeforeUpTo
  <2>3. ASSUME NEW i \in Chosen(n + 1), i <= Passed PROVE i \in Chosen(n)
    <3>1. i \in 1..(n + 1) /\ (BeforeUpTo(i, n + 1) \/ After(i))
      BY <2>3 DEF Chosen
    <3>2. i \in 1..n
      BY <1>1, <1>2, <2>3, <3>1
    <3>3. CASE After(i)
      BY <3>2, <3>3 DEF Chosen
    <3>4. CASE BeforeUpTo(i, n + 1) /\ ~BeforeUpTo(i, n)
      <4>1. PICK j \in i..(n + 1) : content[j] /\ j <= i + request.before
        BY <3>4 DEF BeforeUpTo
      <4>2. j = n + 1
        <5>1. j \in i..n => BeforeUpTo(i, n)
          BY <4>1 DEF BeforeUpTo
        <5>2. j \notin i..n
          BY <3>4, <5>1
        <5> QED
          BY <1>1, <3>2, <5>2
      <4>3. i <= last + request.after
        <5>1. /\ Passed = n - b /\ b <= request.before
              /\ b = request.before \/ Passed <= last + request.after
              /\ last \in Nat /\ Passed \in Nat /\ i \in Nat /\ n + 1 <= i + request.before
              /\ i <= Passed
          BY <1>1, <1>2, <2>3, <3>2, <4>1, <4>2
        <5>2. b # request.before
          BY <1>1, <5>1
        <5>3. Passed <= last + request.after
          BY <5>1, <5>2
        <5>4. last + request.after \in Int /\ Passed \in Int /\ i \in Int /\ i <= Passed
          BY <1>1, <5>1
        <5> QED
          BY <5>3, <5>4
      <4>4. ~(i <= last)
        <5> SUFFICES ASSUME i <= last PROVE FALSE
          OBVIOUS
        <5>1. last \in Nat /\ last <= n /\ i \in Nat /\ i > 0 /\ n + 1 <= i + request.before
          BY <1>1, <1>2, <3>2, <4>1, <4>2
        <5>2. last > 0 /\ last \in i..n /\ last <= i + request.before
          BY <1>1, <5>1
        <5>3. content[last]
          BY <1>2, <5>2
        <5> QED
          BY <3>4, <5>2, <5>3 DEF BeforeUpTo
      <4>5. \A l \in (i + 1)..n : ~content[l]
        BY <1>1, <1>2, <1>3, <3>2, <4>4
      <4>6. LastMatch(i) = last
        <5>1. i \in Nat /\ n \in Nat /\ i <= n
          BY <1>1, <3>2
        <5>2. LastMatch(i) = LastMatch(n)
          BY <4>5, <5>1, NoMore
        <5> QED
          BY <5>2 DEF last
      <4>7. After(i)
        BY <4>3, <4>6 DEF After
      <4> QED
        BY <3>2, <4>7 DEF Chosen
    <3>5. CASE BeforeUpTo(i, n)
      BY <3>2, <3>5 DEF Chosen
    <3> QED
      BY <3>1, <3>3, <3>4, <3>5
  <2>4. ASSUME NEW i \in Chosen(n + 1), ~(i <= Passed)
        PROVE  i \in {Passed + k : k \in 1..(b + 1)}
    <3>1. i \in 1..(n + 1)
      BY <2>4 DEF Chosen
    <3>2. i - Passed \in 1..(b + 1) /\ i = Passed + (i - Passed)
      BY <1>1, <1>2, <2>4, <3>1
    <3> QED
      BY <3>2
  <2> QED
    BY <2>1, <2>2, <2>3, <2>4
<1>9. Selected(grep'.selected, n + 1)
  <2>1. grep'.selected = grep.selected \o new
    BY DEF Hit, new
  <2>2. Passed \in Nat
    BY <1>1, <1>2
  <2>3. \A k \in 1..Len(new) : new[k].line = Passed + k /\ new[k].index = IndexOf(Passed + k)
    <3> SUFFICES ASSUME NEW k \in 1..(b + 1)
                 PROVE  new[k].line = Passed + k /\ new[k].index = IndexOf(Passed + k)
      BY <1>6
    <3>1. grep.index + 1 = Matches(n)
      BY <1>3
    <3> QED
      BY <1>2, <1>6, <1>7, <3>1
  <2>4. Chosen(n + 1) = Chosen(n) \cup {Passed + k : k \in 1..Len(new)}
    BY <1>6, <1>8
  <2>5. Chosen(n) \subseteq 1..Passed /\ Selected(grep.selected, n)
    BY <1>2, <1>3
  <2> QED
    BY <1>1, <1>6, <2>1, <2>2, <2>3, <2>4, <2>5, MoreSelected
<1>10. /\ grep'.index = Matches(n + 1) - 1 /\ grep'.after = request.after
       /\ grep'.buffer = <<>> /\ Len(grep'.buffer) = 0
  BY <1>3, <1>5 DEF Hit
<1> QED
  BY <1>1, <1>3, <1>4, <1>5, <1>9, <1>10 DEF Reading

LEMMA FollowKeeps ==
  ASSUME Grepping, Follow, grep.after > 0, ~grep.rest[1]
  PROVE  Reading(grep')
<1> DEFINE n == grep.line
           last == LastMatch(n)
           new == Select(<<Head(Read)>>, grep.index)
<1>1. /\ n \in Nat /\ request.before \in Int /\ request.after \in Int
      /\ request.before >= 0 /\ request.after >= 0 /\ grep.index \in Int
      /\ grep.after \in Int /\ grep.selected \in Seq(Line)
  BY Bounds
<1>2. /\ last \in 0..n /\ (last > 0 => content[last])
      /\ Chosen(n) \subseteq 1..n
  <2>1. Passed \in 0..n /\ last \in 0..Passed /\ (last > 0 => content[last])
    BY Standing
  <2> HIDE DEF last, n
  <2>2. last \in 0..n
    BY <1>1, <2>1
  <2> QED
    BY <2>1, <2>2 DEF Chosen
<1>3. /\ Matches(n) \in Nat /\ grep.index = Matches(n) - 1 /\ Selected(grep.selected, n)
      /\ \A j \in 1..n : content[j] => j <= last
      /\ grep.buffer = <<>> /\ n + grep.after = last + request.after
  BY DEF Grepping, Reading
<1>4. /\ grep'.line = n + 1 /\ n + 1 <= Len(content) /\ ~content[n + 1]
      /\ Len(grep'.rest) = Len(content) - (n + 1)
      /\ \A k \in 1..Len(grep'.rest) : grep'.rest[k] = content[(n + 1) + k]
  BY RestRead
<1>5. LastMatch(n + 1) = last /\ Matches(n + 1) = Matches(n)
  <2>1. n + 1 \in Nat /\ n <= n + 1 /\ \A j \in (n + 1)..(n + 1) : ~content[j]
    BY <1>1, <1>4
  <2> QED
    BY <1>1, <2>1, NoMore
<1>6. /\ new \in Seq(Line) /\ Len(new) = 1 /\ new[1].line = n + 1 /\ new[1].index = grep.index
      /\ grep'.buffer = <<>> /\ Len(grep'.buffer) = 0
  <2>1. Len(grep.buffer) = 0
    BY <1>3
  <2>2. /\ Head(Read) = n + 1 /\ Head(Read) \in Nat /\ Tail(Read) \in Seq(Nat)
        /\ Len(Tail(Read)) = 0
    <3>1. grep \in GrepSet
      BY DEF Grepping, Shape
    <3>2. /\ Head(Read) = Read[1] /\ Head(Read) \in Nat /\ Tail(Read) \in Seq(Nat)
          /\ Len(Tail(Read)) = Len(grep.buffer) /\ Read[Len(grep.buffer) + 1] = n + 1
      BY <3>1, Reads
    <3> QED
      BY <2>1, <3>2
  <2>3. Tail(Read) = <<>>
    <3> DEFINE s == Tail(Read)
    <3>1. s \in Seq(Nat) /\ Len(s) = 0
      BY <2>2
    <3> HIDE DEF s
    <3>2. s = <<>>
      BY <3>1
    <3> QED
      BY <3>2 DEF s
  <2>4. <<Head(Read)>> \in Seq(Nat) /\ Len(<<Head(Read)>>) = 1 /\ <<Head(Read)>>[1] = n + 1
    BY <2>2
  <2>5. 1 \in 1..1
    OBVIOUS
  <2>6. /\ new \in Seq(Line) /\ Len(new) = 1 /\ new[1].line = n + 1 /\ new[1].index = grep.index
    <3> DEFINE s == <<Head(Read)>>
    <3>1. s \in Seq(Nat) /\ Len(s) = 1 /\ s[1] = n + 1
      BY <2>4
    <3> HIDE DEF s
    <3>2. /\ Select(s, grep.index) \in Seq(Line) /\ Len(Select(s, grep.index)) = Len(s)
          /\ \A k \in 1..Len(s) : /\ Select(s, grep.index)[k].line = s[k]
                                /\ Select(s, grep.index)[k].index = grep.index
      BY <1>1, <3>1, Selecting
    <3>3. new = Select(s, grep.index)
      BY DEF s
    <3> HIDE DEF new
    <3> QED
      BY <2>5, <3>1, <3>2, <3>3
  <2> QED
    BY <2>2, <2>3, <2>6 DEF Follow
<1> HIDE DEF n, last, new
<1>7. After(n + 1)
  BY <1>1, <1>2, <1>3, <1>5 DEF After
<1>8. IndexOf(n + 1) = grep.index
  <2>1. IndexOf(n + 1) = Matches(n + 1) - IF After(n + 1) THEN 1 ELSE 0
    BY DEF IndexOf, Matches
  <2> QED
    BY <1>3, <1>5, <1>7, <2>1
<1>9. Chosen(n + 1) = Chosen(n) \cup {n + 1}
  <2>1. n + 1 \in Chosen(n + 1) /\ Chosen(n + 1) \subseteq 1..(n + 1)
    BY <1>1, <1>7 DEF Chosen
  <2>2. \A i \in 1..n : i \in Chosen(n + 1) <=> i \in Chosen(n)
    BY <1>1, <1>4, StillChosen
  <2>3. \A i \in 1..(n + 1) : i \in 1..n \/ i = n + 1
    BY <1>1
  <2> QED
    BY <1>2, <2>1, <2>2, <2>3
<1>10. Selected(grep'.selected, n + 1)
  <2>1. grep'.selected = grep.selected \o new
    BY DEF Follow, new
  <2>2. \A k \in 1..Len(new) : new[k].line = n + k /\ new[k].index = IndexOf(n + k)
    <3>1. \A k \in 1..Len(new) : k = 1
      BY <1>6
    <3> QED
      BY <1>6, <1>8, <3>1
  <2>3. Chosen(n + 1) = Chosen(n) \cup {n + k : k \in 1..Len(new)}
    <3>1. {n + k : k \in 1..1} = {n + 1}
      OBVIOUS
    <3> QED
      BY <1>6, <1>9, <3>1
  <2> QED
    BY <1>1, <1>2, <1>3, <1>6, <2>1, <2>2, <2>3, MoreSelected
<1>11. /\ grep'.index = Matches(n + 1) - 1 /\ grep'.after = grep.after - 1
       /\ grep'.after >= 0 /\ (n + 1) + grep'.after = last + request.after
  <2>1. grep'.index = grep.index /\ grep'.after = grep.after - 1 /\ last \in Int
    BY <1>2 DEF Follow
  <2>2. grep.after - 1 >= 0 /\ (n + 1) + (grep.after - 1) = last + request.after
    BY <1>1, <1>3, <2>1
  <2> QED
    BY <1>3, <1>5, <2>1, <2>2
<1>12. /\ last \in 0..(n + 1) /\ \A j \in 1..(n + 1) : content[j] => j <= last
  <2>1. \A j \in 1..(n + 1) : j \in 1..n \/ j = n + 1
    BY <1>1
  <2>2. last \in 0..(n + 1)
    BY <1>1, <1>2
  <2> QED
    BY <1>3, <1>4, <2>1, <2>2
<1>13. (n + 1) - 0 = n + 1 /\ (grep'.after = 0 => n + 1 = last + request.after)
  BY <1>1, <1>11
<1>14. (n + 1) - Len(grep'.buffer) = n + 1
  BY <1>6, <1>13
<1>15. /\ grep'.after = 0 => /\ (n + 1) - Len(grep'.buffer) >= last + request.after
                           /\ Len(grep'.buffer) <= request.before
                           /\ (n + 1) - Len(grep'.buffer) = last + request.after
  BY <1>1, <1>2, <1>6, <1>13, <1>14
<1>16. Matches(n + 1) \in Nat
  BY <1>3, <1>5
<1>17. \A k \in 1..Len(grep'.buffer) : FALSE
  BY <1>6
<1> QED
  BY <1>2, <1>4, <1>5, <1>6, <1>10, <1>11, <1>12, <1>15, <1>16, <1>17 DEF Reading

LEMMA KeepKeeps ==
  ASSUME Grepping, Keep, ~(grep.after > 0), ~grep.rest[1]
  PROVE  Reading(grep')
<1> DEFINE n == grep.line
           b == Len(grep.buffer)
           last == LastMatch(n)
           c == (n + 1) - Len(grep'.buffer)
<1>1. /\ n \in Nat /\ b \in Nat /\ request.before \in Int /\ request.after \in Int
      /\ request.before >= 0 /\ request.after >= 0 /\ grep.index \in Int
      /\ grep.after = 0 /\ grep.selected \in Seq(Line)
  BY Bounds
<1>2. /\ Passed \in 0..n /\ Passed = n - b /\ last \in 0..Passed /\ (last > 0 => content[last])
      /\ b <= request.before /\ (b = request.before \/ Passed <= last + request.after)
      /\ \A k \in 1..(b + 1) : Read[k] = Passed + k
  BY Standing
<1>3. /\ Matches(n) \in Nat /\ grep.index = Matches(n) - 1 /\ Selected(grep.selected, n)
      /\ \A j \in 1..n : content[j] => j <= last
      /\ n - b >= last + request.after
  BY <1>1 DEF Grepping, Reading
<1>4. /\ grep'.line = n + 1 /\ n + 1 <= Len(content) /\ ~content[n + 1]
      /\ Len(grep'.rest) = Len(content) - (n + 1)
      /\ \A k \in 1..Len(grep'.rest) : grep'.rest[k] = content[(n + 1) + k]
  BY RestRead
<1>5. LastMatch(n + 1) = last /\ Matches(n + 1) = Matches(n)
  <2>1. n + 1 \in Nat /\ n <= n + 1 /\ \A j \in (n + 1)..(n + 1) : ~content[j]
    BY <1>1, <1>4
  <2> QED
    BY <1>1, <2>1, NoMore
<1>6. \/ /\ Len(grep'.buffer) = b /\ b = request.before
         /\ \A k \in 1..b : grep'.buffer[k] = Read[k + 1]
      \/ Len(grep'.buffer) = b + 1 /\ b + 1 <= request.before /\ grep'.buffer = Read
  <2>1. /\ Len(Read) = b + 1 /\ Len(Tail(Read)) = b
        /\ \A k \in 1..b : Tail(Read)[k] = Read[k + 1]
    <3>1. grep \in GrepSet
      BY DEF Grepping, Shape
    <3> QED
      BY <3>1, Reads
  <2>2. grep'.buffer = IF b + 1 > request.before THEN Tail(Read) ELSE Read
    BY <2>1 DEF Keep, Kept
  <2> HIDE DEF b
  <2> QED
    BY <1>1, <1>2, <2>1, <2>2
<1> HIDE DEF n, last, b
<1>7. /\ c >= last + request.after /\ Len(grep'.buffer) <= request.before
      /\ Len(grep'.buffer) = request.before \/ c = last + request.after
  <2>1. last \in Int /\ Passed \in Int
    BY <1>2
  <2>2. CASE Len(grep'.buffer) = b /\ b = request.before
    BY <1>1, <1>3, <2>1, <2>2
  <2>3. CASE Len(grep'.buffer) = b + 1 /\ b + 1 <= request.before
    <3>1. Passed = n - b /\ Passed = last + request.after
      <4>1. b # request.before
        BY <1>1, <2>3
      <4>2. Passed = n - b /\ Passed <= last + request.after
        BY <1>2, <4>1
      <4>3. n - b >= last + request.after
        BY <1>3
      <4> QED
        BY <1>1, <2>1, <4>2, <4>3
    <3> QED
      BY <1>1, <2>1, <2>3, <3>1
  <2> QED
    BY <1>6, <2>2, <2>3
<1>8. \A k \in 1..Len(grep'.buffer) : grep'.buffer[k] = c + k
  <2>1. CASE Len(grep'.buffer) = b /\ \A k \in 1..b : grep'.buffer[k] = Read[k + 1]
    <3> SUFFICES ASSUME NEW k \in 1..b PROVE grep'.buffer[k] = c + k
      BY <2>1
    <3>1. k + 1 \in 1..(b + 1) /\ Passed + (k + 1) = c + k
      BY <1>1, <1>2, <2>1
    <3> QED
      BY <1>2, <2>1, <3>1
  <2>2. CASE Len(grep'.buffer) = b + 1 /\ grep'.buffer = Read
    <3>1. c = Passed
      BY <1>1, <1>2, <2>2
    <3> QED
      BY <1>2, <2>2, <3>1
  <2> QED
    BY <1>6, <2>1, <2>2
<1>9. Chosen(n + 1) = Chosen(n)
  <2>1. n + 1 \notin Chosen(n + 1) /\ Chosen(n + 1) \subseteq 1..(n + 1) /\ Chosen(n) \subseteq 1..n
    <3>1. ~After(n + 1)
      BY <1>1, <1>2, <1>3, <1>5 DEF After
    <3>2. ~BeforeUpTo(n + 1, n + 1)
      BY <1>1, <1>4 DEF BeforeUpTo
    <3> QED
      BY <3>1, <3>2 DEF Chosen
  <2>2. \A i \in 1..n : i \in Chosen(n + 1) <=> i \in Chosen(n)
    BY <1>1, <1>4, StillChosen
  <2>3. \A i \in 1..(n + 1) : i \in 1..n \/ i = n + 1
    BY <1>1
  <2> QED
    BY <2>1, <2>2, <2>3
<1>10. Selected(grep'.selected, n + 1)
  BY <1>3, <1>9 DEF Selected, Keep
<1>11. /\ grep'.index = Matches(n + 1) - 1 /\ grep'.after = 0
  BY <1>1, <1>3, <1>5 DEF Keep
<1>12. /\ last \in 0..(n + 1) /\ \A j \in 1..(n + 1) : content[j] => j <= last
  <2>1. \A j \in 1..(n + 1) : j \in 1..n \/ j = n + 1
    BY <1>1
  <2>2. last \in 0..(n + 1)
    BY <1>1, <1>2
  <2> QED
    BY <1>3, <1>4, <2>1, <2>2
<1>13. Matches(n + 1) \in Nat /\ ~(0 > 0) /\ LastMatch(n + 1) \in 0..(n + 1)
  BY <1>3, <1>5, <1>12
<1> QED
  BY <1>2, <1>4, <1>5, <1>7, <1>8, <1>10, <1>11, <1>12, <1>13 DEF Reading

LEMMA GrepLineKeeps == OPCInv /\ GrepLine => OPCInv'
<1> SUFFICES ASSUME OPCInv, GrepLine PROVE OPCInv'
  OBVIOUS
<1>1. /\ stage = "lines" /\ grep.rest # <<>> /\ Quiet
      /\ UNCHANGED <<stage, error, dir, walk, found, files, results, answers>>
  BY DEF GrepLine, Quiet, OPCInv, Shape, fileSystem
<1>2. /\ grep' \in GrepSet /\ grep.rest[1] \in BOOLEAN
      /\ grep.rest[1] => Hit
      /\ ~grep.rest[1] => IF grep.after > 0 THEN Follow ELSE Keep
  <2>1. Shape /\ grep.rest \in Seq(BOOLEAN) /\ grep.rest # <<>>
    BY <1>1, LineRead DEF OPCInv
  <2> QED
    BY <2>1, LineRead, Popping
<1>3. Shape'
  BY <1>1, <1>2 DEF OPCInv, Shape, Quiet, fileSystem
<1>4. ASSUME NEW op \in {"list", "find", "grepfiles"} PROVE ~Undisturbed(op)'
  BY <1>1, Quietly DEF OPCInv, ListInv, FindInv, GrepFilesInv
<1>5. GrepInv'
  <2> SUFFICES ASSUME Undisturbed("grep")' PROVE GrepInv'
    BY DEF GrepInv
  <2>1. /\ request.before >= 0 /\ request.after >= 0 /\ Len(results) <= 1
        /\ kind[request.path] = "file" => Reading(grep)
    BY <1>1, Quietly DEF OPCInv, GrepInv
  <2>2. UNCHANGED <<content, request, kind>>
    BY Unmoved, <1>1
  <2>3. ASSUME kind[request.path] = "file" PROVE Reading(grep')
    <3>1. Grepping
      BY <2>1, <2>3 DEF Grepping, OPCInv
    <3> QED
      BY <1>2, <3>1, HitKeeps, FollowKeeps, KeepKeeps
  <2>4. kind[request.path] = "file" => Reading(grep)'
    BY <2>2, <2>3, Choosing DEF Reading
  <2> QED
    BY <1>1, <2>1, <2>2, <2>4 DEF GrepInv
<1> QED
  BY <1>3, <1>4, <1>5 DEF OPCInv, ListInv, FindInv, GrepFilesInv
-----------------------------------------------------------------------------
LEMMA NextKeeps == OPCInv /\ [OPCNext]_opcVars => OPCInv'
<1> SUFFICES ASSUME OPCInv, [OPCNext]_opcVars PROVE OPCInv'
  OBVIOUS
<1>1. CASE Handle
  BY <1>1, InfoKeeps, IsDirKeeps, OpenKeeps, EntriesKeeps, CompileKeeps, WalkKeeps, InfosKeeps,
     CheckKeeps, GrepBeginKeeps, GrepLineKeeps, GrepEndKeeps, AnswerKeeps DEF Handle
<1>2. ASSUME NEW p \in Paths, Change(p) PROVE OPCInv'
  BY <1>2, ChangeKeeps
<1>3. CASE UNCHANGED opcVars
  <2>1. UNCHANGED <<kind, touched, request, content, socket, stage, dir, walk, found, files,
                    grep, results, error, answers>>
    BY <1>3 DEF opcVars
  <2>2. Shape' /\ ListInv'
    BY <2>1 DEF OPCInv, Shape, Consistent, ListInv, Undisturbed, Start
  <2>3. FindInv' /\ GrepFilesInv'
    BY <2>1 DEF OPCInv, FindInv, GrepFilesInv, Undisturbed, Start, Spoilt, Walked,
                IsDirectory, EntriesOf
  <2>4. GrepInv'
    BY <2>1, Choosing DEF OPCInv, GrepInv, Undisturbed, Reading
  <2> QED
    BY <2>2, <2>3, <2>4 DEF OPCInv
<1> QED
  BY <1>1, <1>2, <1>3 DEF OPCNext

\* In every state a handler can be in, what its response holds so far is
\* right, as long as nothing else changes the directories and no error is set.
THEOREM OPCInvariance == OPCSpec => []OPCInv
<1> QED
  BY InitKeeps, NextKeeps, PTL DEF OPCSpec
-----------------------------------------------------------------------------
\* Where anything is, the way up leads to the root.
LEMMA WayUp ==
  ASSUME Shape, NEW K \in SUBSET PathKind, "dir" \in K, "none" \notin K,
         NEW p \in DOMAIN Tree, kind[p] \in K
  PROVE  kind[Root] = "dir" /\ \E c \in Children(Root) : kind[c] \in K
<1> DEFINE S == {q \in DOMAIN Tree : kind[q] \in K}
<1>1. S \in SUBSET DOMAIN Tree /\ S # {}
  OBVIOUS
<1>2. PICK q \in S : Tree[q] \notin S
  BY <1>1, FilesAssumption
<1>3. kind[q] # "none" /\ Tree[q] \in Paths /\ Root \notin DOMAIN Tree
  BY FilesAssumption
<1>4. kind[Tree[q]] = "dir"
  BY <1>3 DEF Shape, Consistent
<1>5. Tree[q] = Root
  BY <1>2, <1>3, <1>4 DEF Paths
<1> QED
  BY <1>4, <1>5 DEF Children

LEMMA FoundWhole ==
  ASSUME OPCInv, touched = {}, Answers("find")
  PROVE  /\ files = found
         /\ {files[i].node : i \in 1..Len(files)} =
              {p \in Matching : kind[p] # "none" /\ Tree[p] = request.path}
         /\ \A p \in Children(request.path) : kind[p] \in {"file", "none"}
<1> DEFINE path == request.path
<1>1. /\ Undisturbed("find") /\ stage = "done" /\ path \in Paths
      /\ kind \in [Paths -> PathKind] /\ DOMAIN Tree \subseteq Paths
      /\ files \in Seq(EntrySet) /\ found \in Seq(EntrySet)
  <2>1. path \in Paths
    BY Types DEF OPCInv
  <2> QED
    BY <2>1 DEF OPCInv, Shape, Answers, Undisturbed, Paths
<1>2. /\ (Spoilt \/ Walked({})) /\ Len(files) = Len(found)
      /\ \A i \in 1..Len(files) : files[i] = found[i] /\ kind[files[i].node] = "file"
  BY <1>1 DEF OPCInv, FindInv
<1>3. files = found
  BY <1>1, <1>2
<1>4. Walked({})
  BY <1>2 DEF Spoilt
<1>5. /\ IsDirectory(Start) /\ Start.node = path /\ Start.links = 0
      /\ {found[i] : i \in 1..Len(found)} = {e \in EntriesOf(Start) : e.node \in Matching}
      /\ \A e \in EntriesOf(Start) : ~IsDirectory(e)
  BY <1>4 DEF Walked, Start, Entry
<1>6. kind[path] = "dir"
  <2> SUFFICES ASSUME kind[path] # "dir" PROVE FALSE
    OBVIOUS
  <2>1. kind[path] = "link" /\ kind[Root] = "dir"
    BY <1>5 DEF IsDirectory
  <2>2. path \in DOMAIN Tree
    BY <1>1, <2>1 DEF Paths
  <2>3. PICK c \in Children(Root) : kind[c] \in {"dir", "link"}
    BY <2>1, <2>2, WayUp DEF PathKind, OPCInv
  <2>4. Entry(c, 1) \in EntriesOf(Start)
    BY <1>5, <2>1, <2>3 DEF EntriesOf
  <2>5. IsDirectory(Entry(c, 1))
    BY <2>1, <2>3 DEF IsDirectory, Entry
  <2> QED
    BY <1>5, <2>4, <2>5
<1>7. kind[Root] = "dir"
  <2>1. CASE path \in DOMAIN Tree
    BY <1>6, <2>1, WayUp DEF PathKind, OPCInv
  <2> QED
    BY <1>1, <1>6, <2>1 DEF Paths
<1>8. EntriesOf(Start) = {Entry(c, 0) : c \in {c \in Children(path) : kind[c] # "none"}}
  BY <1>5, <1>6 DEF EntriesOf
<1>9. \A p \in Children(path) : kind[p] \in {"file", "none"}
  <2> SUFFICES ASSUME NEW p \in Children(path), kind[p] \notin {"file", "none"} PROVE FALSE
    OBVIOUS
  <2>1. kind[p] \in {"dir", "link"}
    BY <1>1 DEF Children, PathKind
  <2>2. Entry(p, 0) \in EntriesOf(Start)
    BY <1>8, <2>1
  <2>3. IsDirectory(Entry(p, 0))
    BY <1>7, <2>1 DEF IsDirectory, Entry
  <2> QED
    BY <1>5, <2>2, <2>3
<1>10. {found[i].node : i \in 1..Len(found)} =
         {p \in Matching : kind[p] # "none" /\ Tree[p] = path}
  <2>1. ASSUME NEW i \in 1..Len(found)
        PROVE  found[i].node \in {p \in Matching : kind[p] # "none" /\ Tree[p] = path}
    <3>1. found[i] \in EntriesOf(Start) /\ found[i].node \in Matching
      BY <1>5
    <3> QED
      BY <1>8, <3>1 DEF Entry, Children
  <2>2. ASSUME NEW p \in Matching, kind[p] # "none", Tree[p] = path
        PROVE  p \in {found[i].node : i \in 1..Len(found)}
    <3>1. p \in Children(path)
      BY <2>2, FilesAssumption DEF Children
    <3>2. Entry(p, 0) \in EntriesOf(Start) /\ Entry(p, 0).node = p
      BY <1>8, <2>2, <3>1 DEF Entry
    <3>3. Entry(p, 0) \in {found[i] : i \in 1..Len(found)}
      BY <1>5, <3>2
    <3> QED
      BY <3>2, <3>3
  <2> QED
    BY <2>1, <2>2
<1> QED
  BY <1>3, <1>9, <1>10

LEMMA AnswersWhole == OPCInv => WholeUnchanged
<1> SUFFICES ASSUME OPCInv, touched = {}, NEW op \in {"list", "find"}, Answers(op)
             PROVE  /\ op = "list" => kind[request.path] = "file"
                                      /\ files = <<Entry(request.path, 0)>>
                    /\ op = "find" =>
                         /\ files = found
                         /\ {files[i].node : i \in 1..Len(files)} =
                              {p \in Matching : kind[p] # "none" /\ Tree[p] = request.path}
                         /\ \A p \in Children(request.path) : kind[p] \in {"file", "none"}
  BY DEF WholeUnchanged
<1>1. CASE op = "list"
  <2>1. Undisturbed("list") /\ stage = "done"
    BY <1>1 DEF OPCInv, Shape, Answers, Undisturbed
  <2> QED
    BY <1>1, <2>1 DEF OPCInv, ListInv, Start
<1>2. CASE op = "find"
  BY <1>2, FoundWhole
<1> QED
  BY <1>1, <1>2

\* A file is listed by itself, and what is found in a directory is everything
\* in it that matches; directories with a directory in them are errors.
THEOREM ListsWhole == OPCSpec => []WholeUnchanged
  BY AnswersWhole, OPCInvariance, PTL

LEMMA AnswersSelected == OPCInv => GrepSelects
<1> SUFFICES ASSUME OPCInv, touched = {}, NEW op \in {"grep", "grepfiles"}, Answers(op)
             PROVE  /\ op = "grep" /\ kind[request.path] = "file" =>
                         Selected(results[1], Len(content))
                    /\ op = "grepfiles" => \A k \in 1..Len(results) : results[k] = <<>>
  <2>1. Chosen(Len(content)) = {i \in 1..Len(content) : Before(i) \/ After(i)}
    BY DEF Chosen, Before, BeforeUpTo
  <2> QED
    BY <2>1 DEF GrepSelects, Selected
<1>1. Undisturbed(op) /\ stage = "done"
  BY DEF OPCInv, Shape, Answers, Undisturbed
<1>2. CASE op = "grep"
  <2>1. 1 \in 1..1
    OBVIOUS
  <2> QED
    BY <1>1, <1>2, <2>1 DEF OPCInv, GrepInv
<1>3. CASE op = "grepfiles"
  BY <1>1, <1>3 DEF OPCInv, GrepFilesInv
<1> QED
  BY <1>2, <1>3

\* GrepFile selects the lines around each match, each once, in order and with
\* the index of its match; OnGrepFilesRequest finds nothing in a directory.
THEOREM Greps == OPCSpec => []GrepSelects
  BY AnswersSelected, OPCInvariance, PTL
-----------------------------------------------------------------------------
(***************************************************************************)
(* OPCBasic: how much is in a response and in GrepFile's buffer.           *)
(***************************************************************************)

\* Of what was found each has its info at most once.
InfosInv ==
  /\ stage \in {"info", "isdir", "entries"} => request.op = "list"
  /\ request.op = "find" => Len(files) <= Len(found)

\* The lines read, those in the buffer, and the matches.
LinesInv ==
  /\ grep.line + Len(grep.rest) <= Len(content)
  /\ Len(grep.buffer) <= grep.line /\ grep.index < grep.line

BoundsInv == InfosInv /\ LinesInv

LEMMA BoundsAtFirst == OPCInit => BoundsInv
<1> SUFFICES ASSUME OPCInit PROVE BoundsInv
  OBVIOUS
<1>1. request \in Requests /\ content \in Contents
  BY DEF OPCInit
<1>2. request.op \in {"list", "find", "cat", "grep", "grepfiles"} /\ content \in Seq(BOOLEAN)
  BY <1>1, FilesAssumption
<1>3. InfosInv
  BY <1>2 DEF OPCInit, FirstStage, InfosInv
<1>4. /\ grep.line = 0 /\ grep.index = -1 /\ Len(grep.rest) = 0 /\ Len(grep.buffer) = 0
      /\ Len(content) \in Nat
  BY <1>2 DEF OPCInit, NoGrep
<1>5. LinesInv
  BY <1>4 DEF LinesInv
<1> QED
  BY <1>3, <1>5 DEF BoundsInv

LEMMA InfosBound == OPCInv /\ InfosInv /\ [OPCNext]_opcVars => InfosInv'
<1> SUFFICES ASSUME OPCInv, InfosInv, [OPCNext]_opcVars PROVE InfosInv'
  OBVIOUS
<1>1. /\ files \in Seq(EntrySet) /\ Len(files) \in Nat
      /\ found \in Seq(EntrySet) /\ Len(found) \in Nat
  BY DEF OPCInv, Shape
<1>2. CASE Info \/ IsDir
  BY <1>2 DEF Info, IsDir, Goto, Throw, InfosInv, fileSystem
<1>3. CASE Open
  BY <1>3 DEF Open, Goto, Throw, InfosInv, fileSystem
<1>4. CASE Entries
  BY <1>4 DEF Entries, Goto, Throw, GetFileInfo, InfosInv, fileSystem
<1>5. CASE Walk
  <2>1. /\ stage' \in {"walk", "infos", "greps", "end", "open"} /\ UNCHANGED <<request, files>>
        /\ found' = found \/ \E e : found' = Append(found, e)
    BY <1>5 DEF Walk, Goto, Throw, fileSystem
  <2>2. ASSUME NEW e, found' = Append(found, e) PROVE Len(found') = Len(found) + 1
    BY <1>1, <2>2
  <2> QED
    BY <1>1, <2>1, <2>2 DEF InfosInv
<1>6. CASE Infos
  <2>1. /\ stage' \in {"infos", "end"} /\ UNCHANGED <<request, found>>
        /\ files' = files \/ (Len(files) < Len(found) /\ \E e : files' = Append(files, e))
    BY <1>6 DEF Infos, Goto, Throw, GetFileInfo, fileSystem
  <2>2. ASSUME NEW e, files' = Append(files, e) PROVE Len(files') = Len(files) + 1
    BY <1>1, <2>2
  <2> QED
    BY <1>1, <2>1, <2>2 DEF InfosInv
<1>7. CASE Compile \/ Check \/ GrepBegin \/ GrepLine \/ GrepEnd \/ Answer
  BY <1>7 DEF Compile, Check, GrepBegin, GrepLine, GrepEnd, Answer, Goto, Throw, InfosInv,
              fileSystem
<1>8. ASSUME NEW p \in Paths, Change(p) PROVE InfosInv'
  BY <1>8 DEF Change, InfosInv
<1>9. CASE UNCHANGED opcVars
  BY <1>9 DEF opcVars, InfosInv
<1> QED
  BY <1>2, <1>3, <1>4, <1>5, <1>6, <1>7, <1>8, <1>9 DEF OPCNext, Handle

LEMMA LinesBound == OPCInv /\ LinesInv /\ [OPCNext]_opcVars => LinesInv'
<1> SUFFICES ASSUME OPCInv, LinesInv, [OPCNext]_opcVars PROVE LinesInv'
  OBVIOUS
<1>1. grep \in GrepSet /\ content \in Seq(BOOLEAN) /\ Len(content) \in Nat
  BY Types DEF OPCInv, Shape
<1>2. CASE UNCHANGED <<grep, content>>
  BY <1>2 DEF LinesInv
<1>3. CASE GrepBegin
  <2>1. UNCHANGED content
    BY <1>3 DEF GrepBegin, fileSystem
  <2>2. CASE UNCHANGED grep
    BY <1>2, <2>1, <2>2
  <2>3. CASE ~UNCHANGED grep
    <3>1. PICK rest \in {content, <<>>} : grep' = First(rest, request.after)
      BY <1>3, <2>3 DEF GrepBegin, First
    <3>2. /\ grep'.rest = rest /\ grep'.line = 0 /\ grep'.buffer = <<>> /\ grep'.index = -1
          /\ Len(<<>>) = 0
      BY <3>1 DEF First, NoGrep
    <3>3. Len(rest) <= Len(content)
      BY <1>1, <3>1, <3>2
    <3> QED
      BY <1>1, <2>1, <3>1, <3>2, <3>3 DEF LinesInv
  <2> QED
    BY <2>2, <2>3
<1>4. CASE GrepLine
  <2>1. UNCHANGED content /\ grep.rest \in Seq(BOOLEAN) /\ grep.rest # <<>>
    BY <1>1, <1>4 DEF GrepLine, fileSystem, GrepSet
  <2>2. Len(Tail(grep.rest)) = Len(grep.rest) - 1 /\ Len(grep.rest) \in Nat
    BY <2>1, Popping
  <2>3. grep'.rest = Tail(grep.rest) /\ grep'.line = grep.line + 1 /\ (Hit \/ Follow \/ Keep)
    BY <1>1, <1>4 DEF GrepLine, GrepSet, Hit, Follow, Keep, Read
  <2>4. /\ grep.line \in Nat /\ grep.index \in Int /\ Len(grep.buffer) \in Nat
        /\ Read \in Seq(Nat) /\ Len(Read) = Len(grep.buffer) + 1
        /\ Len(Tail(Read)) = Len(grep.buffer)
    BY <1>1, Reads
  <2>5. Len(Kept(Read)) <= Len(Read)
    BY <2>4 DEF Kept
  <2>6. Len(grep'.buffer) <= grep.line + 1 /\ grep'.index < grep.line + 1
    <3>1. CASE Hit
      <4>1. grep'.buffer = <<>> /\ Len(<<>>) = 0 /\ grep'.index = grep.index + 1
        BY <3>1 DEF Hit
      <4> QED
        BY <2>4, <4>1 DEF LinesInv
    <3>2. CASE Follow
      BY <2>4, <3>2 DEF Follow, LinesInv
    <3>3. CASE Keep
      <4>1. grep'.buffer = Kept(Read) /\ grep'.index = grep.index /\ Len(Kept(Read)) \in Nat
        <5>1. Kept(Read) \in Seq(Nat)
          BY <2>4 DEF Kept
        <5> QED
          BY <3>3, <5>1 DEF Keep
      <4> QED
        BY <2>4, <2>5, <4>1 DEF LinesInv
    <3> QED
      BY <2>3, <3>1, <3>2, <3>3
  <2> QED
    BY <1>1, <2>1, <2>2, <2>3, <2>4, <2>6 DEF LinesInv
<1>5. CASE Handle /\ ~GrepBegin /\ ~GrepLine
  <2>1. UNCHANGED <<grep, content>>
    BY <1>5 DEF Handle, Info, IsDir, Open, Entries, Compile, Walk, Infos, Check, GrepEnd, Answer,
                fileSystem
  <2> QED
    BY <1>2, <2>1
<1>6. ASSUME NEW p \in Paths, Change(p) PROVE LinesInv'
  BY <1>2, <1>6 DEF Change
<1>7. CASE UNCHANGED opcVars
  BY <1>2, <1>7 DEF opcVars
<1> QED
  BY <1>3, <1>4, <1>5, <1>6, <1>7 DEF OPCNext

LEMMA BoundsKept == OPCInv /\ BoundsInv /\ [OPCNext]_opcVars => BoundsInv'
  BY InfosBound, LinesBound DEF BoundsInv

LEMMA OPCTypes == OPCInv /\ BoundsInv => OPCTypeOK
<1> SUFFICES ASSUME OPCInv, BoundsInv PROVE OPCTypeOK
  OBVIOUS
<1>1. \A i \in 1..Len(found) : found[i].node \in Paths /\ found[i].links \in 0..MaxLinks
  <2>1. \A i \in 1..Len(found) : found[i] \in EntrySet
    BY DEF OPCInv, Shape
  <2> QED
    BY <2>1 DEF EntrySet
<1>2. grep.index < Len(content) /\ Len(grep.buffer) <= Len(content)
  <2>1. /\ grep.line \in Nat /\ Len(grep.rest) \in Nat /\ grep.index \in Int
        /\ Len(grep.buffer) \in Nat /\ Len(content) \in Nat
    <3>1. grep.rest \in Seq(BOOLEAN) /\ content \in Seq(BOOLEAN)
      BY Types DEF OPCInv, Shape, GrepSet
    <3>2. Len(grep.rest) \in Nat /\ Len(content) \in Nat
      BY <3>1
    <3> QED
      BY <3>2, Reads DEF OPCInv, Shape
  <2> QED
    BY <2>1 DEF BoundsInv, LinesInv
<1>3. /\ kind \in [Paths -> PathKind] /\ Consistent(kind) /\ touched \subseteq Paths
      /\ request \in Requests /\ content \in Contents /\ socket \in BOOLEAN
      /\ error \in BOOLEAN /\ answers \in 0..1
  BY DEF OPCInv, Shape
<1>4. request.op = "find" => Len(files) <= Len(found)
  BY DEF BoundsInv, InfosInv
<1> QED
  BY <1>1, <1>2, <1>3, <1>4 DEF OPCTypeOK
-----------------------------------------------------------------------------
(***************************************************************************)
(* OPCBasic: what a response has while other programs change the           *)
(* directories.                                                            *)
(***************************************************************************)

\* The path that is listed comes first.
ListSoFar ==
  ~error /\ request.op = "list" =>
    /\ stage \in {"info", "isdir", "open", "entries", "end", "done"}
    /\ stage = "info" => dir = Start
    /\ stage # "info" => files # <<>> /\ files[1] = Start

\* The infos are those of what was found, in its order.
InfosSoFar ==
  ~error /\ request.op = "find" =>
    /\ stage \in {"compile", "open", "walk", "infos", "end", "done"}
    /\ stage \in {"compile", "open", "walk"} => files = <<>>
    /\ Len(files) <= Len(found) /\ \A i \in 1..Len(files) : files[i] = found[i]
    /\ stage \in {"end", "done"} => Len(files) = Len(found)

Known(p) == p \in Matching \cup touched

\* What was found matches, has been changed, or was a directory and still is.
FoundKnown ==
  \A i \in 1..Len(found) : Known(found[i].node) \/ kind[found[i].node] \in {"dir", "link"}
InfosKnown == \A i \in 1..Len(files) : Known(files[i].node)

KnownSoFar == ~error /\ request.op = "find" => FoundKnown /\ InfosKnown

\* A file of the directory is found, or will be: the directory is still to be
\* opened, or the file is still among its entries.
Awaited(p) ==
  \/ stage \in {"compile", "open"} /\ walk = <<>> /\ dir = Start
  \/ walk # <<>> /\ Entry(p, 0) \in walk[1]
  \/ \E i \in 1..Len(found) : found[i] = Entry(p, 0)

SteadySoFar ==
  ~error /\ request.op = "find" =>
    /\ stage \in {"infos", "end", "done"} => walk = <<>>
    /\ \A p \in Matching : Steady(p) /\ Tree[p] = request.path => Awaited(p)

\* The inductive invariant, beside OPCInv.
SoFarInv == ListSoFar /\ InfosSoFar /\ KnownSoFar /\ SteadySoFar

LEMMA HandleQuiet == OPCInv /\ Handle => Quiet
<1> SUFFICES ASSUME OPCInv, Handle PROVE Quiet
  OBVIOUS
<1>1. error \in BOOLEAN
  BY DEF OPCInv, Shape
<1>2. CASE Info \/ IsDir \/ Open \/ Compile \/ Check
  BY <1>1, <1>2 DEF Info, IsDir, Open, Compile, Check, Goto, Throw, Quiet
<1>3. CASE Entries \/ Walk \/ Infos
  BY <1>1, <1>3 DEF Entries, Walk, Infos, GetFileInfo, Goto, Throw, Quiet
<1>4. CASE GrepBegin
  BY <1>1, <1>4 DEF GrepBegin, Goto, Throw, Quiet
<1>5. CASE GrepLine
  <2>1. UNCHANGED <<fileSystem, error>>
    BY <1>5, Zenon DEF GrepLine
  <2> QED
    BY <1>1, <2>1 DEF Quiet
<1>6. CASE GrepEnd \/ Answer
  BY <1>1, <1>6 DEF GrepEnd, Answer, Goto, Quiet
<1> QED
  BY <1>2, <1>3, <1>4, <1>5, <1>6 DEF Handle

LEMMA SoFarAtFirst == OPCInit => SoFarInv
<1> SUFFICES ASSUME OPCInit PROVE SoFarInv
  OBVIOUS
<1>1. request.op = "list" => stage = "info"
  BY DEF OPCInit, FirstStage
<1>2. request.op = "find" => stage = "compile"
  BY DEF OPCInit, FirstStage
<1>3. dir = Start /\ walk = <<>> /\ Len(files) = 0 /\ Len(found) = 0 /\ files = <<>>
  BY DEF OPCInit, Start
<1> QED
  BY <1>1, <1>2, <1>3 DEF SoFarInv, ListSoFar, InfosSoFar, KnownSoFar, FoundKnown, InfosKnown,
                              SteadySoFar, Awaited

\* One more element at the end of a sequence.
LEMMA Appending ==
  ASSUME NEW S, NEW s \in Seq(S), NEW e \in S
  PROVE  /\ Append(s, e) \in Seq(S) /\ Append(s, e) # <<>> /\ Len(s) \in Nat
         /\ Len(Append(s, e)) = Len(s) + 1
         /\ \A i \in 1..Len(s) : Append(s, e)[i] = s[i]
         /\ Append(s, e)[Len(s) + 1] = e
         /\ \A i : i \in 1..(Len(s) + 1) <=> i \in 1..Len(s) \/ i = Len(s) + 1
<1>1. Len(s) \in Nat
  OBVIOUS
<1>2. \A i : i \in 1..(Len(s) + 1) <=> i \in 1..Len(s) \/ i = Len(s) + 1
  BY <1>1
<1>3. /\ Append(s, e) \in Seq(S) /\ Len(Append(s, e)) = Len(s) + 1
      /\ \A i \in 1..Len(s) : Append(s, e)[i] = s[i]
      /\ Append(s, e)[Len(s) + 1] = e
  OBVIOUS
<1>4. Append(s, e) # <<>>
  BY <1>1, <1>3
<1> QED
  BY <1>1, <1>2, <1>3, <1>4

LEMMA ListSoFarKept == OPCInv /\ ListSoFar /\ [OPCNext]_opcVars => ListSoFar'
<1> SUFFICES ASSUME OPCInv, ListSoFar, [OPCNext]_opcVars PROVE ListSoFar'
  OBVIOUS
<1>1. files \in Seq(EntrySet) /\ walk \in Seq(SUBSET EntrySet)
  BY DEF OPCInv, Shape
<1>2. CASE Handle
  <2> SUFFICES ASSUME ~error', request'.op = "list"
               PROVE  /\ stage' \in {"info", "isdir", "open", "entries", "end", "done"}
                      /\ stage' = "info" => dir' = Start
                      /\ stage' # "info" => files' # <<>> /\ files'[1] = Start
    BY <1>2, HandleQuiet, Unmoved DEF ListSoFar
  <2>1. /\ ~error /\ request.op = "list" /\ request' = request
        /\ stage \in {"info", "isdir", "open", "entries", "end", "done"}
        /\ stage = "info" => dir = Start
        /\ stage # "info" => files # <<>> /\ files[1] = Start
    BY <1>2, HandleQuiet, Unmoved DEF Quiet, ListSoFar, OPCInv, Shape
  <2>2. CASE Info
    BY <2>1, <2>2 DEF Info, Goto, Throw
  <2>3. CASE IsDir \/ Open \/ Answer
    BY <2>1, <2>3 DEF IsDir, Open, Answer, Goto, Throw
  <2>4. CASE Entries
    <3>1. stage = "entries" /\ stage' \in {"entries", "end"}
      BY <2>1, <2>4 DEF Entries, GetFileInfo, Goto, Throw
    <3>2. files' = files \/ \E e \in Last(walk) : files' = Append(files, e)
      BY <2>4 DEF Entries, GetFileInfo
    <3>3. ASSUME NEW e \in Last(walk), files' = Append(files, e)
          PROVE  files' # <<>> /\ files'[1] = files[1]
      <4>1. walk # <<>>
        BY <3>1 DEF OPCInv, Shape
      <4>2. Last(walk) \in SUBSET EntrySet
        BY <1>1, <4>1 DEF Last
      <4>3. 1 \in 1..Len(files)
        BY <1>1, <2>1, <3>1
      <4> QED
        BY <1>1, <3>3, <4>2, <4>3, Appending
    <3> QED
      BY <2>1, <3>1, <3>2, <3>3
  <2>5. CASE Compile \/ Walk \/ Infos \/ Check \/ GrepBegin \/ GrepLine \/ GrepEnd
    <3>1. stage \in {"compile", "walk", "infos", "check", "greps", "lines"}
      BY <2>5, Zenon DEF Compile, Walk, Infos, Check, GrepBegin, GrepLine, GrepEnd
    <3> QED
      BY <2>1, <3>1
  <2> QED
    BY <1>2, <2>2, <2>3, <2>4, <2>5 DEF Handle
<1>3. ASSUME NEW p \in Paths, Change(p) PROVE ListSoFar'
  BY <1>3 DEF Change, ListSoFar, Start
<1>4. CASE UNCHANGED opcVars
  BY <1>4 DEF opcVars, ListSoFar, Start
<1> QED
  BY <1>2, <1>3, <1>4 DEF OPCNext

\* The handler's steps of a request to find: the directory is opened, gone into,
\* or one more of what was found gets its info.
LEMMA FindSteps ==
  ASSUME OPCInv, InfosSoFar, [OPCNext]_opcVars, ~error', request'.op = "find"
  PROVE  /\ ~error /\ request' = request /\ request.op = "find" /\ Start' = Start
         /\ \/ \E p \in Paths : Change(p)
            \/ /\ kind' = kind /\ touched' = touched
               /\ \/ UNCHANGED opcVars
                  \/ Compile /\ stage' = "open"
                  \/ Open /\ stage' = "walk" /\ walk' = Append(walk, EntriesOf(dir))
                  \/ Walk
                  \/ /\ Infos /\ stage' = "end" /\ Len(files) = Len(found) /\ files' = files
                  \/ /\ Infos /\ stage' = "infos" /\ Len(files) < Len(found)
                     /\ kind[found[Len(files) + 1].node] = "file"
                     /\ files' = Append(files, found[Len(files) + 1])
                  \/ Answer
<1>1. CASE Handle
  <2>1. ~error /\ request' = request /\ kind' = kind /\ touched' = touched /\ Start' = Start
    BY <1>1, HandleQuiet, Unmoved DEF Quiet, OPCInv, Shape, fileSystem
  <2>2. stage \in {"compile", "open", "walk", "infos", "end", "done"}
    BY <2>1 DEF InfosSoFar
  <2>3. ~(Info \/ IsDir \/ Entries \/ Check \/ GrepBegin \/ GrepLine \/ GrepEnd)
    <3>1. Info \/ IsDir \/ Entries \/ Check \/ GrepBegin \/ GrepLine \/ GrepEnd =>
            stage \in {"info", "isdir", "entries", "check", "greps", "lines"}
      BY Zenon DEF Info, IsDir, Entries, Check, GrepBegin, GrepLine, GrepEnd
    <3> QED
      BY <2>2, <3>1
  <2>4. CASE Compile
    BY <2>1, <2>4 DEF Compile, Goto, Throw
  <2>5. CASE Open
    BY <2>1, <2>5 DEF Open, Goto, Throw
  <2>6. CASE Infos
    BY <2>1, <2>6 DEF Infos, Goto, Throw, GetFileInfo
  <2> QED
    BY <1>1, <2>1, <2>3, <2>4, <2>5, <2>6 DEF Handle
<1>2. ASSUME NEW p \in Paths, Change(p)
      PROVE  ~error /\ request' = request /\ request.op = "find" /\ Start' = Start
  BY <1>2 DEF Change, Start
<1>3. CASE UNCHANGED opcVars
  <2>1. UNCHANGED <<kind, touched, request, error>>
    BY <1>3 DEF opcVars
  <2> QED
    BY <1>3, <2>1 DEF Start
<1> QED
  BY <1>1, <1>2, <1>3 DEF OPCNext

\* What Walk does when nothing is thrown.
LEMMA WalkSteps ==
  ASSUME OPCInv, Walk, ~error', request.op = "find"
  PROVE  /\ stage = "walk" /\ UNCHANGED <<files, kind, touched>>
         /\ walk \in Seq(SUBSET EntrySet) /\ Len(walk) \in Nat \ {0}
         /\ \/ /\ walk[Len(walk)] = {} /\ walk' = Front(walk) /\ UNCHANGED <<dir, found>>
               /\ stage' = IF Len(walk) > 1 THEN "walk" ELSE "infos"
            \/ \E e \in walk[Len(walk)] :
                 /\ e \in EntrySet /\ walk' = Front(walk) \o <<walk[Len(walk)] \ {e}>>
                 /\ \/ /\ IsDirectory(e) /\ found' = Append(found, e) /\ stage' = "open"
                    \/ /\ ~TooManyLinks(e) /\ ~IsDirectory(e) /\ stage' = "walk"
                       /\ found' = IF e.node \in Matching THEN Append(found, e) ELSE found
<1>1. stage = "walk" /\ UNCHANGED <<files, kind, touched>>
  BY DEF Walk, fileSystem
<1>2. walk \in Seq(SUBSET EntrySet) /\ walk # <<>>
  BY <1>1 DEF OPCInv, Shape
<1>3. Len(walk) \in Nat \ {0} /\ Last(walk) = walk[Len(walk)] /\ Last(walk) \in SUBSET EntrySet
  <2> DEFINE S == SUBSET EntrySet
  <2>1. walk \in Seq(S)
    BY <1>2
  <2> HIDE DEF S
  <2>2. Len(walk) \in Nat \ {0} /\ walk[Len(walk)] \in S
    BY <1>2, <2>1
  <2> QED
    BY <2>2 DEF Last, S
<1>4. CASE /\ Last(walk) = {} /\ walk' = Front(walk)
           /\ Goto(IF Len(walk) > 1 THEN "walk" ELSE IF request.op = "find" THEN "infos" ELSE "greps")
           /\ UNCHANGED <<dir, found>>
  BY <1>1, <1>2, <1>3, <1>4 DEF Goto
<1>5. ASSUME NEW e \in Last(walk), walk' = Front(walk) \o <<Last(walk) \ {e}>>,
             \/ TooManyLinks(e) /\ Throw /\ UNCHANGED <<dir, found>>
             \/ /\ ~TooManyLinks(e) /\ IsDirectory(e)
                /\ found' = Append(found, e)
                /\ dir' = e /\ Goto("open")
             \/ /\ ~TooManyLinks(e) /\ ~IsDirectory(e)
                /\ found' = IF e.node \in Matching THEN Append(found, e) ELSE found
                /\ UNCHANGED <<dir, stage, error>>
      PROVE  \E d \in walk[Len(walk)] :
               /\ d \in EntrySet /\ walk' = Front(walk) \o <<walk[Len(walk)] \ {d}>>
               /\ \/ IsDirectory(d) /\ found' = Append(found, d) /\ stage' = "open"
                  \/ /\ ~TooManyLinks(d) /\ ~IsDirectory(d) /\ stage' = "walk"
                     /\ found' = IF d.node \in Matching THEN Append(found, d) ELSE found
  BY <1>1, <1>3, <1>5 DEF Goto, Throw
<1> QED
  BY <1>1, <1>2, <1>3, <1>4, <1>5 DEF Walk

LEMMA InfosSoFarKept == OPCInv /\ InfosSoFar /\ [OPCNext]_opcVars => InfosSoFar'
<1> SUFFICES ASSUME OPCInv, InfosSoFar, [OPCNext]_opcVars, ~error', request'.op = "find"
             PROVE  InfosSoFar'
  BY DEF InfosSoFar
<1>1. /\ files \in Seq(EntrySet) /\ found \in Seq(EntrySet)
      /\ Len(files) \in Nat /\ Len(found) \in Nat
  BY DEF OPCInv, Shape
<1>2. ~error /\ request' = request /\ request.op = "find"
  BY FindSteps
<1>3. /\ stage \in {"compile", "open", "walk", "infos", "end", "done"}
      /\ stage \in {"compile", "open", "walk"} => files = <<>>
      /\ Len(files) <= Len(found) /\ \A i \in 1..Len(files) : files[i] = found[i]
      /\ stage \in {"end", "done"} => Len(files) = Len(found)
  BY <1>2 DEF InfosSoFar
<1>4. CASE UNCHANGED <<files, found>> /\ UNCHANGED stage
  BY <1>3, <1>4 DEF InfosSoFar
<1>5. CASE (Compile /\ stage' = "open") \/ (Open /\ stage' = "walk")
  BY <1>3, <1>5 DEF Compile, Open, InfosSoFar
<1>6. CASE Walk
  <2>1. /\ stage = "walk" /\ files' = files /\ stage' \in {"walk", "infos", "open"}
        /\ found' = found \/ \E e \in EntrySet : found' = Append(found, e)
    BY <1>2, <1>6, WalkSteps
  <2>2. files = <<>> /\ Len(files) = 0
    BY <1>3, <2>1
  <2>3. Len(found') \in Nat
    <3>1. ASSUME NEW e \in EntrySet, found' = Append(found, e) PROVE Len(found') \in Nat
      BY <1>1, <3>1, Appending
    <3> QED
      BY <1>1, <2>1, <3>1
  <2> QED
    BY <2>1, <2>2, <2>3 DEF InfosSoFar
<1>7. CASE /\ Infos /\ stage' = "end" /\ Len(files) = Len(found) /\ files' = files
  BY <1>3, <1>7 DEF Infos, InfosSoFar
<1>8. CASE /\ Infos /\ stage' = "infos" /\ Len(files) < Len(found)
           /\ files' = Append(files, found[Len(files) + 1])
  <2>1. found' = found /\ found[Len(files) + 1] \in EntrySet
    BY <1>1, <1>8 DEF Infos
  <2>2. /\ Len(files') = Len(files) + 1
        /\ \A i \in 1..Len(files') : files'[i] = found'[i]
    BY <1>1, <1>3, <1>8, <2>1, Appending
  <2> QED
    BY <1>1, <1>8, <2>1, <2>2 DEF InfosSoFar
<1>9. CASE Answer
  BY <1>3, <1>9 DEF Answer, InfosSoFar
<1>10. ASSUME NEW p \in Paths, Change(p) PROVE UNCHANGED <<files, found>> /\ UNCHANGED stage
  BY <1>10 DEF Change
<1>11. UNCHANGED opcVars => UNCHANGED <<files, found>> /\ UNCHANGED stage
  BY DEF opcVars
<1>12. \/ \E p \in Paths : Change(p)
       \/ UNCHANGED opcVars \/ (Compile /\ stage' = "open") \/ (Open /\ stage' = "walk")
       \/ Walk
       \/ Infos /\ stage' = "end" /\ Len(files) = Len(found) /\ files' = files
       \/ Infos /\ stage' = "infos" /\ Len(files) < Len(found)
          /\ files' = Append(files, found[Len(files) + 1])
       \/ Answer
  BY FindSteps
<1> QED
  BY <1>4, <1>5, <1>6, <1>7, <1>8, <1>9, <1>10, <1>11, <1>12

LEMMA KnownSoFarKept == OPCInv /\ InfosSoFar /\ KnownSoFar /\ [OPCNext]_opcVars => KnownSoFar'
<1> SUFFICES ASSUME OPCInv, InfosSoFar, KnownSoFar, [OPCNext]_opcVars,
                    ~error', request'.op = "find"
             PROVE  FoundKnown' /\ InfosKnown'
  BY DEF KnownSoFar
<1>1. /\ files \in Seq(EntrySet) /\ found \in Seq(EntrySet)
      /\ Len(files) \in Nat /\ Len(found) \in Nat /\ kind \in [Paths -> PathKind]
  BY DEF OPCInv, Shape
<1>2. ~error /\ request' = request /\ request.op = "find"
  BY FindSteps
<1>3. FoundKnown /\ InfosKnown
  BY <1>2 DEF KnownSoFar
<1> USE DEF FoundKnown, InfosKnown
<1>4. CASE UNCHANGED <<files, found, kind, touched>>
  BY <1>3, <1>4 DEF Known
<1>5. CASE (Compile /\ stage' = "open") \/ (Open /\ stage' = "walk") \/ Answer
           \/ (Infos /\ files' = files)
  BY <1>4, <1>5 DEF Compile, Open, Answer, Infos, fileSystem
<1>6. CASE Walk
  <2>1. UNCHANGED <<files, kind, touched>>
    BY <1>2, <1>6, WalkSteps
  <2>2. CASE found' = found
    BY <1>4, <2>1, <2>2
  <2>3. ASSUME NEW e \in EntrySet, found' = Append(found, e),
               e.node \in Matching \/ IsDirectory(e)
        PROVE  FoundKnown'
    <3>1. Known(e.node) \/ kind[e.node] \in {"dir", "link"}
      BY <2>3 DEF Known, IsDirectory
    <3>2. /\ Len(found') = Len(found) + 1 /\ found'[Len(found) + 1] = e
          /\ \A i \in 1..Len(found) : found'[i] = found[i]
          /\ \A i : i \in 1..(Len(found) + 1) <=> i \in 1..Len(found) \/ i = Len(found) + 1
      BY <1>1, <2>3, Appending
    <3> QED
      BY <1>3, <2>1, <3>1, <3>2 DEF Known
  <2>4. \/ found' = found
        \/ \E e \in EntrySet : found' = Append(found, e) /\ (e.node \in Matching \/ IsDirectory(e))
    BY <1>2, <1>6, WalkSteps
  <2> QED
    BY <1>3, <2>1, <2>2, <2>3, <2>4 DEF Known
<1>7. CASE /\ Infos /\ Len(files) < Len(found)
           /\ kind[found[Len(files) + 1].node] = "file"
           /\ files' = Append(files, found[Len(files) + 1])
  <2>1. UNCHANGED <<found, kind, touched>>
    BY <1>7 DEF Infos, fileSystem
  <2>2. Len(files) + 1 \in 1..Len(found) /\ found[Len(files) + 1] \in EntrySet
    BY <1>1, <1>7
  <2>3. Known(found[Len(files) + 1].node)
    BY <1>3, <1>7, <2>2
  <2>4. /\ Len(files') = Len(files) + 1 /\ files'[Len(files) + 1] = found[Len(files) + 1]
        /\ \A i \in 1..Len(files) : files'[i] = files[i]
        /\ \A i : i \in 1..(Len(files) + 1) <=> i \in 1..Len(files) \/ i = Len(files) + 1
    BY <1>1, <1>7, <2>2, Appending
  <2> QED
    BY <1>3, <2>1, <2>3, <2>4 DEF Known
<1>8. ASSUME NEW p \in Paths, Change(p)
      PROVE  FoundKnown' /\ InfosKnown'
  <2>1. /\ UNCHANGED <<files, found>> /\ touched' = touched \cup {p}
        /\ \A q \in Paths : q # p => kind'[q] = kind[q]
    BY <1>1, <1>8 DEF Change
  <2>2. \A i \in 1..Len(found) : found[i].node \in Paths
    <3>1. \A i \in 1..Len(found) : found[i] \in EntrySet
      BY <1>1
    <3> QED
      BY <3>1 DEF EntrySet
  <2> QED
    BY <1>3, <2>1, <2>2 DEF Known
<1>9. UNCHANGED opcVars => UNCHANGED <<files, found, kind, touched>>
  BY DEF opcVars
<1>10. \/ \E p \in Paths : Change(p)
       \/ UNCHANGED opcVars \/ (Compile /\ stage' = "open") \/ (Open /\ stage' = "walk")
       \/ Walk
       \/ Infos /\ files' = files
       \/ Infos /\ Len(files) < Len(found) /\ kind[found[Len(files) + 1].node] = "file"
          /\ files' = Append(files, found[Len(files) + 1])
       \/ Answer
  BY FindSteps
<1> QED
  BY <1>4, <1>5, <1>6, <1>7, <1>8, <1>9, <1>10

\* A walk that has a directory on its stack has one or more than one.
LEMMA OneOrMore == \A n \in Nat \ {0} : n > 1 \/ n = 1
  OBVIOUS

\* A file of the directory that nobody else touches stays awaited.
LEMMA StillAwaited ==
  ASSUME OPCInv, InfosSoFar, SteadySoFar, [OPCNext]_opcVars, ~error', request'.op = "find",
         NEW p \in Matching, Steady(p)', Tree[p] = request'.path
  PROVE  Awaited(p)'
<1>1. /\ found \in Seq(EntrySet) /\ Len(found) \in Nat /\ kind \in [Paths -> PathKind]
      /\ walk \in Seq(SUBSET EntrySet)
  BY DEF OPCInv, Shape
<1>2. ~error /\ request' = request /\ request.op = "find" /\ Start' = Start
  BY FindSteps
<1>3. p \in DOMAIN Tree /\ p \in Paths /\ Tree[p] = request.path
  BY <1>2, FilesAssumption DEF Paths
<1>4. Steady(p)
  <2>1. ASSUME NEW q \in Paths, Change(q) PROVE Steady(p)
    <3>1. touched' = touched \cup {q} /\ (p # q => kind'[p] = kind[p])
      BY <1>1, <1>3, <2>1 DEF Change
    <3> QED
      BY <3>1 DEF Steady
  <2>2. CASE UNCHANGED <<kind, touched>>
    BY <2>2 DEF Steady
  <2> QED
    BY <2>1, <2>2, FindSteps
<1>5. Awaited(p) /\ (stage \in {"infos", "end", "done"} => walk = <<>>)
  BY <1>2, <1>3, <1>4 DEF SteadySoFar
<1>6. CASE UNCHANGED <<walk, found, dir>> /\ UNCHANGED stage
  BY <1>2, <1>5, <1>6 DEF Awaited
<1>7. CASE Compile /\ stage' = "open"
  BY <1>2, <1>5, <1>7 DEF Awaited, Compile
<1>8. CASE Open /\ stage' = "walk" /\ walk' = Append(walk, EntriesOf(dir))
  <2>1. UNCHANGED found /\ ~TooManyLinks(dir) /\ EntriesOf(dir) \in SUBSET EntrySet
    BY <1>8, Types DEF Open, OPCInv, Throw
  <2>2. walk' # <<>> /\ walk'[1] = IF walk = <<>> THEN EntriesOf(dir) ELSE walk[1]
    <3> DEFINE S == SUBSET EntrySet
               d == EntriesOf(dir)
    <3>1. walk \in Seq(S) /\ d \in S /\ walk' = Append(walk, d)
      BY <1>1, <1>8, <2>1
    <3> HIDE DEF S, d
    <3>2. walk' # <<>> /\ walk'[1] = IF walk = <<>> THEN d ELSE walk[1]
      BY <3>1
    <3> QED
      BY <3>2 DEF d
  <2>3. CASE walk = <<>> /\ dir = Start
    <3>1. kind[request.path] = "dir" /\ p \in Children(request.path) /\ kind[p] # "none"
      BY <1>3, <1>4 DEF OPCInv, Shape, Consistent, Steady, Children
    <3>2. Entry(p, 0) \in EntriesOf(dir)
      BY <2>3, <3>1 DEF EntriesOf, Start, Entry
    <3> QED
      BY <2>2, <2>3, <3>2 DEF Awaited
  <2> QED
    BY <1>5, <2>1, <2>2, <2>3 DEF Awaited
<1>9. CASE Walk
  <2>1. /\ stage = "walk" /\ Len(walk) \in Nat \ {0}
        /\ \/ /\ walk[Len(walk)] = {} /\ walk' = Front(walk) /\ UNCHANGED <<dir, found>>
           \/ \E e \in walk[Len(walk)] :
                /\ e \in EntrySet /\ walk' = Front(walk) \o <<walk[Len(walk)] \ {e}>>
                /\ \/ IsDirectory(e) /\ found' = Append(found, e)
                   \/ /\ ~TooManyLinks(e) /\ ~IsDirectory(e)
                      /\ found' = IF e.node \in Matching THEN Append(found, e) ELSE found
    BY <1>2, <1>9, WalkSteps
  <2>9. Len(walk) > 1 \/ Len(walk) = 1
    BY <2>1, OneOrMore, Zenon
  <2>2. /\ Front(walk) \in Seq(SUBSET EntrySet) /\ Len(Front(walk)) = Len(walk) - 1
        /\ Len(walk) > 1 => Front(walk)[1] = walk[1]
    <3> DEFINE S == SUBSET EntrySet
    <3>1. walk \in Seq(S) /\ walk # <<>>
      BY <1>1, <2>1
    <3> HIDE DEF S
    <3>2. Front(walk) \in Seq(S) /\ Len(Front(walk)) = Len(walk) - 1
      BY <3>1, FrontOf
    <3>3. Len(walk) > 1 => Front(walk)[1] = walk[1]
      BY <2>1, <3>1 DEF Front
    <3> QED
      BY <3>2, <3>3 DEF S
  <2>3. ASSUME NEW e \in EntrySet, found' = Append(found, e)
        PROVE  /\ \A i \in 1..Len(found) : i \in 1..Len(found') /\ found'[i] = found[i]
               /\ Len(found) + 1 \in 1..Len(found') /\ found'[Len(found) + 1] = e
    BY <1>1, <2>3, Appending
  <2>4. CASE \E i \in 1..Len(found) : found[i] = Entry(p, 0)
    <3>1. \E i \in 1..Len(found') : found'[i] = Entry(p, 0)
      BY <2>1, <2>3, <2>4
    <3> QED
      BY <3>1 DEF Awaited
  <2>5. CASE Entry(p, 0) \in walk[1]
    <3>1. CASE walk[Len(walk)] = {} /\ walk' = Front(walk)
      BY <2>1, <2>2, <2>5, <3>1 DEF Awaited
    <3>2. ASSUME NEW e \in walk[Len(walk)],
                 e \in EntrySet, walk' = Front(walk) \o <<walk[Len(walk)] \ {e}>>,
                 \/ IsDirectory(e) /\ found' = Append(found, e)
                 \/ /\ ~TooManyLinks(e) /\ ~IsDirectory(e)
                    /\ found' = IF e.node \in Matching THEN Append(found, e) ELSE found
          PROVE  Awaited(p)'
      <4>1. walk' # <<>> /\ (walk'[1] = walk[1] \/ walk'[1] = walk[1] \ {e})
        <5> DEFINE S == SUBSET EntrySet
                   rest == walk[Len(walk)] \ {e}
        <5>1. Front(walk) \in Seq(S) /\ rest \in S /\ walk' = Front(walk) \o <<rest>>
          BY <1>1, <2>1, <2>2, <3>2
        <5> HIDE DEF S
        <5>2. Len(walk) > 1 => walk' # <<>> /\ walk'[1] = walk[1]
          <6> HIDE DEF rest
          <6> QED
            BY <2>1, <2>2, <5>1
        <5>3. Len(walk) = 1 => walk' # <<>> /\ walk'[1] = walk[1] \ {e}
          <6>1. Len(walk) = 1 => walk' # <<>> /\ walk'[1] = rest
            <7> HIDE DEF rest
            <7> QED
              BY <2>1, <2>2, <5>1
          <6> QED
            BY <6>1
        <5> QED
          BY <2>9, <5>2, <5>3
      <4>2. CASE e = Entry(p, 0)
        <5>1. e.node = p /\ ~IsDirectory(e)
          BY <1>4, <4>2 DEF Entry, IsDirectory, Steady
        <5>2. found' = Append(found, e)
          BY <3>2, <5>1
        <5> QED
          BY <2>3, <4>2, <5>2 DEF Awaited
      <4> QED
        BY <2>5, <4>1, <4>2 DEF Awaited
    <3> QED
      BY <2>1, <3>1, <3>2
  <2> QED
    BY <1>5, <2>1, <2>4, <2>5 DEF Awaited
<1>10. CASE Infos \/ Answer
  <2>1. \E i \in 1..Len(found) : found[i] = Entry(p, 0)
    BY <1>5, <1>10 DEF Infos, Answer, Awaited
  <2>2. found' = found
    BY <1>10 DEF Infos, Answer
  <2> QED
    BY <2>1, <2>2 DEF Awaited
<1>11. (\E q \in Paths : Change(q)) \/ UNCHANGED opcVars =>
         UNCHANGED <<walk, found, dir>> /\ UNCHANGED stage
  BY DEF Change, opcVars
<1> QED
  BY <1>6, <1>7, <1>8, <1>9, <1>10, <1>11, FindSteps

LEMMA SoFarKept == OPCInv /\ SoFarInv /\ [OPCNext]_opcVars => SoFarInv'
<1> SUFFICES ASSUME OPCInv, SoFarInv, [OPCNext]_opcVars PROVE SoFarInv'
  OBVIOUS
<1>1. ListSoFar' /\ InfosSoFar' /\ KnownSoFar'
  BY ListSoFarKept, InfosSoFarKept, KnownSoFarKept DEF SoFarInv
<1>2. SteadySoFar'
  <2> SUFFICES ASSUME ~error', request'.op = "find"
               PROVE  /\ stage' \in {"infos", "end", "done"} => walk' = <<>>
                      /\ \A p \in Matching : Steady(p)' /\ Tree[p] = request'.path => Awaited(p)'
    BY DEF SteadySoFar
  <2>1. \A p \in Matching : Steady(p)' /\ Tree[p] = request'.path => Awaited(p)'
    BY StillAwaited DEF SoFarInv
  <2>2. /\ stage \in {"infos", "end", "done"} => walk = <<>>
        /\ walk \in Seq(SUBSET EntrySet)
    BY FindSteps DEF SoFarInv, SteadySoFar, OPCInv, Shape
  <2>3. CASE UNCHANGED <<stage, walk>>
    BY <2>1, <2>2, <2>3
  <2>4. CASE stage' \in {"open", "walk"}
    BY <2>1, <2>4
  <2>5. CASE Walk
    <3>1. /\ Len(walk) \in Nat \ {0}
          /\ \/ walk' = Front(walk) /\ stage' = IF Len(walk) > 1 THEN "walk" ELSE "infos"
             \/ stage' \in {"open", "walk"}
      BY <2>5, FindSteps, WalkSteps DEF SoFarInv
    <3>2. Len(walk) = 1 => Front(walk) = <<>>
      <4> DEFINE S == SUBSET EntrySet
      <4>1. walk \in Seq(S) /\ walk # <<>>
        BY <2>2, <3>1
      <4> HIDE DEF S
      <4>2. Front(walk) \in Seq(S) /\ Len(Front(walk)) = Len(walk) - 1
        BY <4>1, FrontOf
      <4> QED
        BY <4>2
    <3>3. Len(walk) > 1 \/ Len(walk) = 1
      BY <3>1, OneOrMore, Zenon
    <3>4. CASE stage' \in {"open", "walk"}
      BY <2>1, <3>4
    <3>5. CASE walk' = Front(walk) /\ Len(walk) > 1 /\ stage' = "walk"
      BY <2>1, <3>5
    <3>6. CASE walk' = Front(walk) /\ Len(walk) = 1
      BY <2>1, <3>2, <3>6
    <3> QED
      BY <3>1, <3>3, <3>4, <3>5, <3>6, Zenon
  <2>6. CASE Infos \/ Answer
    BY <2>1, <2>2, <2>6 DEF Infos, Answer
  <2>7. (\E p \in Paths : Change(p)) \/ UNCHANGED opcVars => UNCHANGED <<stage, walk>>
    BY DEF Change, opcVars
  <2>8. \/ (\E p \in Paths : Change(p)) \/ UNCHANGED opcVars
        \/ stage' \in {"open", "walk"} \/ Walk \/ Infos \/ Answer
    BY FindSteps DEF SoFarInv
  <2> QED
    BY <2>1, <2>3, <2>4, <2>5, <2>6, <2>7, <2>8
<1> QED
  BY <1>1, <1>2 DEF SoFarInv

\* What holds of a response so far is what WholeWhileChanging says at its end.
LEMMA AnswersWhileChanging == OPCInv /\ SoFarInv => WholeWhileChanging
<1> SUFFICES ASSUME OPCInv, SoFarInv PROVE WholeWhileChanging
  OBVIOUS
<1>1. ASSUME answers > 0 PROVE stage = "done"
  BY <1>1 DEF OPCInv, Shape
<1>2. ASSUME Answers("list") PROVE files # <<>> /\ files[1] = Entry(request.path, 0)
  BY <1>1, <1>2 DEF Answers, SoFarInv, ListSoFar, Start
<1>3. ASSUME Answers("find")
      PROVE  /\ files = found
             /\ \A i \in 1..Len(files) : files[i].node \in Matching \cup touched
             /\ \A p \in Matching :
                  Steady(p) /\ Tree[p] = request.path =>
                    \E i \in 1..Len(files) : files[i] = Entry(p, 0)
  <2>1. ~error /\ request.op = "find" /\ stage = "done"
    BY <1>1, <1>3 DEF Answers
  <2>2. files = found
    <3>1. files \in Seq(EntrySet) /\ found \in Seq(EntrySet)
      BY DEF OPCInv, Shape
    <3>2. Len(files) = Len(found) /\ \A i \in 1..Len(files) : files[i] = found[i]
      BY <2>1 DEF SoFarInv, InfosSoFar
    <3> QED
      BY <3>1, <3>2
  <2>3. \A i \in 1..Len(files) : files[i].node \in Matching \cup touched
    BY <2>1 DEF SoFarInv, KnownSoFar, InfosKnown, Known
  <2>4. walk = <<>> /\ \A p \in Matching : Steady(p) /\ Tree[p] = request.path => Awaited(p)
    BY <2>1 DEF SoFarInv, SteadySoFar
  <2> QED
    BY <2>1, <2>2, <2>3, <2>4 DEF Awaited
<1> QED
  BY <1>2, <1>3 DEF WholeWhileChanging

\* An answer to a search is whole while nothing changes; while other programs
\* change any of the directories it has the info of everything found, nothing that
\* does not match but what they changed, and every matching file that was there
\* all the time; a listing has first the path that was asked for.
THEOREM WholeThoughChanging == OPCSpec => []WholeOrError
<1>1. OPCSpec => [](OPCInv /\ SoFarInv)
  BY InitKeeps, NextKeeps, SoFarAtFirst, SoFarKept, PTL DEF OPCSpec
<1> QED
  BY <1>1, AnswersWhole, AnswersWhileChanging, PTL DEF WholeOrError
-----------------------------------------------------------------------------
(***************************************************************************)
(* TraverseFile.                                                           *)
(***************************************************************************)

FileStates == [visits : 0..MaxRuns, lines : 0..Lines, there : BOOLEAN]

\* The types, and what bounds them: a call adds at most one visit, and a copy
\* in a good state has the lines that were read.
TraverseTypes ==
  /\ disk \in [path : FileStates, temp : FileStates]
  /\ step \in {"out", "copy", "remove", "rename"} /\ copied \in 0..Lines
  /\ runs \in 0..MaxRuns /\ disk.path.visits <= runs /\ disk.temp.visits <= runs
  /\ step = "copy" => disk.path.visits < runs /\ copied <= disk.path.lines
  /\ step = "copy" /\ good => disk.temp.lines = copied

\* The file is there, whole.
PathWhole == disk.path.there /\ disk.path.lines = Lines

\* The copy is there, whole.
TempWhole == disk.temp.there /\ disk.temp.lines = Lines

\* Unless a line could not be read or written: while lines are copied the file is
\* whole and its copy has those read; before remove both are whole, between remove
\* and rename the copy alone is; and after a return or a crash one of the two is.
NoneLost ==
  ~spoilt =>
    /\ step = "copy" => PathWhole /\ good /\ disk.temp.there
    /\ step = "remove" => PathWhole /\ TempWhole
    /\ step = "rename" => ~disk.path.there /\ TempWhole
    /\ step = "out" => PathWhole \/ (~disk.path.there /\ TempWhole)

\* The inductive invariant.
TraverseInv == TraverseTypes /\ NoneLost

StreamFlags == good \in BOOLEAN /\ spoilt \in BOOLEAN

LEMMA TraverseInitKeeps == TraverseInit => TraverseInv
  BY TraverseAssumption DEF TraverseInit, File, NoFile, TraverseInv, TraverseTypes, NoneLost,
                            FileStates, PathWhole, TempWhole

LEMMA TraverseKeeps == TraverseInv /\ Traverse => TraverseInv'
<1> SUFFICES ASSUME TraverseInv, Traverse PROVE TraverseInv'
  OBVIOUS
<1> USE DEF TraverseInv, TraverseTypes, NoneLost, PathWhole, TempWhole, FileStates
<1>1. step = "out" /\ runs \in 0..MaxRuns - 1 /\ runs' = runs + 1 /\ copied' = 0
  BY TraverseAssumption DEF Traverse
<1>2. CASE UNCHANGED <<disk, step, good, spoilt>>
  BY <1>1, <1>2, TraverseAssumption
<1>3. CASE /\ disk.path.there
           /\ disk' = [disk EXCEPT !.temp = File(disk.path.visits + 1, 0)]
           /\ step' = "copy" /\ good' = TRUE /\ UNCHANGED spoilt
  <2> DEFINE copy == File(disk.path.visits + 1, 0)
  <2>1. disk.path \in FileStates /\ disk.path.visits <= runs
    BY <1>1, <1>3, TraverseAssumption
  <2>2. copy \in FileStates /\ copy.there /\ copy.lines = 0 /\ copy.visits <= runs'
    BY <1>1, <2>1, TraverseAssumption DEF File
  <2>3. /\ disk' \in [path : FileStates, temp : FileStates]
        /\ disk'.path = disk.path /\ disk'.temp = copy
    BY <1>3, <2>2
  <2> QED
    BY <1>1, <1>3, <2>1, <2>2, <2>3, TraverseAssumption
<1>4. CASE disk.path.there /\ step' = "copy" /\ good' = FALSE /\ spoilt' = TRUE /\ UNCHANGED disk
  BY <1>1, <1>4, TraverseAssumption
<1> QED
  BY <1>2, <1>3, <1>4 DEF Traverse

LEMMA CopyLineKeeps == TraverseInv /\ CopyLine => TraverseInv'
<1> SUFFICES ASSUME TraverseInv, CopyLine PROVE TraverseInv'
  OBVIOUS
<1> USE DEF TraverseInv, TraverseTypes, NoneLost, PathWhole, TempWhole, FileStates
<1>1. CASE good /\ disk' = [disk EXCEPT !.temp.lines = @ + 1] /\ UNCHANGED <<good, spoilt>>
  BY <1>1, TraverseAssumption DEF CopyLine
<1>2. CASE good' = FALSE /\ spoilt' = TRUE /\ UNCHANGED disk
  BY <1>2, TraverseAssumption DEF CopyLine
<1> QED
  BY <1>1, <1>2 DEF CopyLine

\* When the loop ends without an error the copy has every line.
LEMMA ReadEndsKeeps == TraverseInv /\ ReadEnds => TraverseInv'
<1> SUFFICES ASSUME TraverseInv, ReadEnds PROVE TraverseInv'
  OBVIOUS
<1> USE DEF TraverseInv, TraverseTypes, NoneLost, PathWhole, TempWhole, FileStates
<1>1. CASE copied = disk.path.lines /\ UNCHANGED spoilt
  BY <1>1, TraverseAssumption DEF ReadEnds
<1>2. CASE spoilt' = TRUE
  BY <1>2, TraverseAssumption DEF ReadEnds
<1> QED
  BY <1>1, <1>2 DEF ReadEnds

\* What is removed has a whole copy, unless a line could not be read or written.
LEMMA RemoveOldKeeps == TraverseInv /\ RemoveOld => TraverseInv'
<1> SUFFICES ASSUME TraverseInv, RemoveOld PROVE TraverseInv'
  OBVIOUS
<1> USE DEF TraverseInv, TraverseTypes, NoneLost, PathWhole, TempWhole, FileStates, NoFile
<1>1. CASE disk' = [disk EXCEPT !.path = NoFile] /\ step' = "rename"
  <2>1. NoFile \in FileStates /\ ~NoFile.there
    BY TraverseAssumption
  <2>2. /\ disk' \in [path : FileStates, temp : FileStates]
        /\ disk'.path = NoFile /\ disk'.temp = disk.temp
    BY <1>1, <2>1
  <2>3. ~spoilt => TempWhole
    BY DEF RemoveOld
  <2> QED
    BY <1>1, <2>1, <2>2, <2>3 DEF RemoveOld
<1>2. CASE UNCHANGED disk /\ step' = "out"
  BY <1>2, TraverseAssumption DEF RemoveOld
<1> QED
  BY <1>1, <1>2 DEF RemoveOld

LEMMA RenameKeeps == TraverseInv /\ Rename => TraverseInv'
  BY TraverseAssumption DEF Rename, TraverseInv, TraverseTypes, NoneLost, PathWhole,
                            TempWhole, FileStates, NoFile

LEMMA CrashKeeps == TraverseInv /\ Crash => TraverseInv'
  BY TraverseAssumption DEF Crash, TraverseInv, TraverseTypes, NoneLost, PathWhole, TempWhole

LEMMA TraverseNextKeeps == TraverseInv /\ [TraverseNext]_traverseVars => TraverseInv'
<1> SUFFICES ASSUME TraverseInv, [TraverseNext]_traverseVars PROVE TraverseInv'
  OBVIOUS
<1>1. CASE UNCHANGED traverseVars
  BY <1>1 DEF traverseVars, TraverseInv, TraverseTypes, NoneLost, PathWhole, TempWhole
<1> QED
  BY <1>1, TraverseKeeps, CopyLineKeeps, ReadEndsKeeps, RemoveOldKeeps, RenameKeeps, CrashKeeps
     DEF TraverseNext

\* The inductive invariant holds in every behaviour.
THEOREM TraverseInvariance == TraverseSpec => []TraverseInv
  BY TraverseInitKeeps, TraverseNextKeeps, PTL DEF TraverseSpec

\* The stream is good or bad.
LEMMA FlagsAtFirst == TraverseInit => StreamFlags
  BY Zenon DEF TraverseInit, StreamFlags

LEMMA FlagsKept == StreamFlags /\ [TraverseNext]_traverseVars => StreamFlags'
  BY Zenon DEF StreamFlags, TraverseNext, traverseVars, Traverse, CopyLine, ReadEnds, RemoveOld,
               Rename, Crash

LEMMA TraverseTyped == TraverseInv /\ StreamFlags => TraverseTypeOK
  BY TraverseAssumption DEF TraverseInv, TraverseTypes, StreamFlags, FileStates, TraverseTypeOK

LEMMA LosesNothing == TraverseInv => NothingLost
  BY TraverseAssumption DEF TraverseInv, TraverseTypes, NoneLost, PathWhole, TempWhole, NothingLost

\* A file is visited at most once by each call of TraverseFile, and no copy of
\* it ever has more lines than it, whatever fails.
THEOREM TraverseTypeCorrect == TraverseSpec => []TraverseTypeOK
<1>1. TraverseSpec => []StreamFlags
  BY FlagsAtFirst, FlagsKept, PTL DEF TraverseSpec
<1> QED
  BY <1>1, TraverseTyped, TraverseInvariance, PTL

\* As long as every line can be read and written, the file or its copy has all the
\* lines, at every step and after every crash, for a file of any length.
THEOREM FileSurvives == TraverseSpec => []NothingLost
  BY LosesNothing, TraverseInvariance, PTL
-----------------------------------------------------------------------------
(***************************************************************************)
(* Md5: division.                                                          *)
(***************************************************************************)

LEMMA Times ==
  ASSUME NEW a \in Nat, NEW b \in Nat, NEW c \in Nat, b <= c
  PROVE  a * b \in Nat /\ a * b <= a * c
<1>1. PICK d \in Nat : c = b + d
  BY c - b \in Nat
<1>2. a * c = a * b + a * d
  BY <1>1
<1>3. a * b \in Nat /\ a * d \in Nat
  OBVIOUS
<1> QED
  BY <1>2, <1>3

\* Division with remainder.
LEMMA Divided ==
  ASSUME NEW n \in Nat, NEW b \in Nat \ {0}
  PROVE  /\ n \div b \in Nat /\ n % b \in Nat /\ n % b < b
         /\ n = b * (n \div b) + (n % b)
<1>1. n \div b \in Int /\ n = b * (n \div b) + (n % b)
  OBVIOUS
<1>2. n % b \in 0..(b - 1)
  OBVIOUS
<1>3. PICK q \in Int, r \in Nat : q = n \div b /\ r = n % b /\ n = b * q + r /\ r < b
  BY <1>1, <1>2
<1>4. q \in Nat
  <2> SUFFICES ASSUME q <= -1 PROVE FALSE
    OBVIOUS
  <2>1. PICK p \in Nat : p = -q - 1
    OBVIOUS
  <2>2. b * q = -(b * p) - b
    BY <2>1
  <2>3. PICK u \in Nat : u = b * p
    OBVIOUS
  <2> QED
    BY <1>3, <2>2, <2>3
<1>5. r = n % b /\ q = n \div b
  BY <1>3
<1>6. n \div b \in Nat /\ n % b \in Nat /\ n % b < b
  BY <1>3, <1>4, <1>5
<1> QED
  BY <1>1, <1>6

\* A quotient and a remainder are the only ones.
LEMMA Remainder ==
  ASSUME NEW b \in Nat \ {0}, NEW q \in Nat, NEW r \in Nat, r < b
  PROVE  (b * q + r) % b = r /\ (b * q + r) \div b = q
<1>1. PICK n \in Nat, k \in Nat, m \in Nat :
        n = b * q + r /\ k = n \div b /\ m = n % b /\ n = b * k + m /\ m < b
  <2>1. PICK n \in Nat : n = b * q + r
    OBVIOUS
  <2>2. n \div b \in Nat /\ n % b \in Nat /\ n % b < b /\ n = b * (n \div b) + (n % b)
    BY Divided
  <2> QED
    BY <2>1, <2>2
<1>2. ~(k < q)
  <2> SUFFICES ASSUME k + 1 <= q PROVE FALSE
    OBVIOUS
  <2>1. b * (k + 1) <= b * q
    BY Times
  <2>2. b * (k + 1) = b * k + b
    OBVIOUS
  <2> QED
    BY <1>1, <2>1, <2>2
<1>3. ~(q < k)
  <2> SUFFICES ASSUME q + 1 <= k PROVE FALSE
    OBVIOUS
  <2>1. b * (q + 1) <= b * k
    BY Times
  <2>2. b * (q + 1) = b * q + b
    OBVIOUS
  <2> QED
    BY <1>1, <2>1, <2>2
<1> QED
  BY <1>1, <1>2, <1>3

\* A multiple of b more changes no remainder.
LEMMA Shifted ==
  ASSUME NEW b \in Nat \ {0}, NEW q \in Nat, NEW n \in Nat
  PROVE  (b * q + n) % b = n % b
<1>1. PICK k \in Nat, r \in Nat : k = n \div b /\ r = n % b
  BY Divided
<1>2. n = b * k + r /\ r < b
  BY <1>1, Divided
<1>3. b * q + n = b * (q + k) + r
  <2>1. b * (q + k) = b * q + b * k
    OBVIOUS
  <2>2. PICK u \in Nat, v \in Nat : u = b * q /\ v = b * k
    OBVIOUS
  <2>3. b * (q + k) = u + v
    BY <2>1, <2>2
  <2>4. n = v + r
    BY <1>2, <2>2
  <2> QED
    BY <2>2, <2>3, <2>4
<1>4. PICK p \in Nat : p = q + k
  OBVIOUS
<1>5. (b * p + r) % b = r
  BY <1>2, Remainder
<1> QED
  BY <1>1, <1>3, <1>4, <1>5

LEMMA Sizes1 ==
  /\ LengthSize \in Nat /\ Block \in Nat \ {0} /\ LengthSize < Block
  /\ Byte \in Nat \ {0} /\ Units \in Nat \ {0} /\ Word \in Nat \ {0}
  BY BlockAssumption DEF Word

\* The bytes counted in a word tell how much of a block there is.
LEMMA RestOfBlock ==
  ASSUME NEW n \in Nat
  PROVE  ((Byte * (n % Units)) \div Byte) % Block = n % Block
<1>1. PICK r \in Nat, q \in Nat : r = n % Units /\ r < Units /\ n = Units * q + r
  BY Divided, Sizes1
<1>2. (Byte * r) \div Byte = r
  <2>1. Byte * r + 0 = Byte * r
    BY Sizes1
  <2> QED
    BY <2>1, Remainder, Sizes1
<1>3. PICK k \in Nat : Units = Block * k
  <2>1. PICK k \in Nat, z \in Nat : k = Units \div Block /\ z = Units % Block
    BY Divided, Sizes1
  <2>2. Units = Block * k + z /\ z = 0
    BY <2>1, Divided, Sizes1, BlockAssumption
  <2>3. PICK u \in Nat : u = Block * k
    BY Sizes1
  <2>4. u + 0 = u
    OBVIOUS
  <2> QED
    BY <2>1, <2>2, <2>3, <2>4
<1>4. Units * q = Block * (k * q)
  BY <1>3, Sizes1
<1>5. k * q \in Nat
  OBVIOUS
<1>6. (Block * (k * q) + r) % Block = r % Block
  BY <1>5, Shifted, Sizes1
<1> QED
  BY <1>1, <1>2, <1>4, <1>6

\* The low word counts on.
LEMMA CountsOn ==
  ASSUME NEW n \in Nat, NEW m \in Nat
  PROVE  (Byte * (n % Units) + m * Byte) % Word = Byte * ((n + m) % Units)
<1>1. PICK x \in Nat, q \in Nat : x = n % Units /\ n = Units * q + x
  BY Divided, Sizes1
<1>2. PICK r \in Nat, k \in Nat : r = (x + m) % Units /\ r < Units /\ x + m = Units * k + r
  <2>1. PICK y \in Nat : y = x + m
    OBVIOUS
  <2> QED
    BY <2>1, Divided, Sizes1
<1>3. (n + m) % Units = r
  <2>1. n + m = Units * q + (x + m)
    <3>1. Units * q \in Nat
      BY Sizes1
    <3> QED
      BY <1>1, <3>1
  <2>2. (Units * q + (x + m)) % Units = (x + m) % Units
    <3>1. x + m \in Nat
      OBVIOUS
    <3> QED
      BY <3>1, Shifted, Sizes1
  <2> QED
    BY <1>2, <2>1, <2>2
<1>4. Byte * x + m * Byte = Word * k + Byte * r
  <2>1. Byte * x + m * Byte = Byte * (x + m)
    BY Sizes1
  <2>2. Byte * (Units * k + r) = Byte * (Units * k) + Byte * r
    BY Sizes1
  <2>3. Byte * (Units * k) = Word * k
    BY Sizes1 DEF Word
  <2> QED
    BY <1>2, <2>1, <2>2, <2>3
<1>5. Byte * r \in Nat /\ Byte * r < Word
  <2>1. Byte * (r + 1) <= Byte * Units
    BY <1>2, Times, Sizes1
  <2>2. Byte * (r + 1) = Byte * r + Byte
    BY Sizes1
  <2>3. Byte * r \in Nat
    BY Sizes1
  <2> QED
    BY <2>1, <2>2, <2>3, Sizes1 DEF Word
<1>6. (Word * k + Byte * r) % Word = Byte * r
  BY <1>5, Remainder, Sizes1
<1> QED
  BY <1>1, <1>3, <1>4, <1>6

-----------------------------------------------------------------------------
(***************************************************************************)
(* Md5: the bytes.                                                         *)
(***************************************************************************)

\* The padding of a message of n bytes.
PadOf(n) ==
  LET room == Block - LengthSize
  IN IF n % Block < room THEN room - (n % Block) ELSE Block + room - (n % Block)

\* Where the length begins, and where it ends.
LengthAt == size + PadOf(size)
MessageEnd == LengthAt + LengthSize

\* The i-th byte of a message of n bytes with its padding and length.
ByteOf(n, i) ==
  IF i <= n THEN i
  ELSE IF i = n + 1 THEN One
  ELSE IF i <= n + PadOf(n) THEN Zero
  ELSE LengthByte(i - (n + PadOf(n)))

PadBytes == [i \in 1..PadOf(size) |-> IF i = 1 THEN One ELSE Zero]
LengthBytes == [i \in 1..LengthSize |-> LengthByte(i)]

\* The bytes of the updates that have begun.
Counted ==
  IF ~finished THEN IF calls = <<>> THEN size ELSE 0
  ELSE CASE Len(calls) = 2 -> size [] Len(calls) = 1 -> LengthAt [] OTHER -> MessageEnd

\* The bytes digested, and those that were taken from the inputs.
InBlocks == Len(blocks) * Block
Taken == Counted - Len(input)

BlockSet == [1..Block -> Int]

Md5Types ==
  /\ size \in Sizes /\ left \in 0..Block - 1 /\ buffer \in BlockSet
  /\ input \in Seq(Int) /\ blocks \in Seq(BlockSet)
  /\ finished \in BOOLEAN

CallsInv ==
  /\ ~finished => (calls = <<[i \in 1..size |-> i]>> /\ input = <<>>) \/ calls = <<>>
  /\ finished => calls \in {<<PadBytes, LengthBytes>>, <<LengthBytes>>, <<>>}

\* The length so far is the number of bits; what it was after the message is
\* the length that is digested.
CountInv ==
  /\ total[1] = Byte * (Counted % Units) /\ total[2] \in Nat
  /\ ~finished /\ calls # <<>> => total = <<0, 0>>
  /\ size < Units /\ ~finished /\ calls = <<>> => total = BitLength
  /\ size < Units /\ finished => length = BitLength

\* Every byte that was taken is at its place in a block or in the buffer, and
\* those in the input are the next ones.
BytesInv ==
  /\ InBlocks <= Taken /\ Taken < InBlocks + Block
  /\ \A k \in 1..Len(blocks), j \in 1..Block : blocks[k][j] = ByteOf(size, (k - 1) * Block + j)
  /\ \A j \in 1..Taken - InBlocks : buffer[j] = ByteOf(size, InBlocks + j)
  /\ \A j \in 1..Len(input) : input[j] = ByteOf(size, Taken + j)
  /\ input # <<>> => left = Taken - InBlocks

Md5Inv == Md5Types /\ CallsInv /\ CountInv /\ BytesInv

LEMMA PadIs ==
  ASSUME NEW n \in Nat
  PROVE  /\ PadOf(n) \in 1..Block
         /\ (n + PadOf(n) + LengthSize) % Block = 0
<1>0. PICK r \in Nat : r = n % Block
  BY Divided, Sizes1
<1>1. r < Block /\ \E q \in Nat : n = Block * q + r
  BY <1>0, Divided, Sizes1
<1>2. \/ PadOf(n) = Block - LengthSize - r /\ r < Block - LengthSize
      \/ PadOf(n) = Block + (Block - LengthSize) - r /\ ~(r < Block - LengthSize)
  BY <1>0 DEF PadOf
<1>3. PadOf(n) \in 1..Block
  BY <1>1, <1>2, Sizes1
<1>4. PICK e \in Nat : n + PadOf(n) + LengthSize = Block * e
  <2>0. PICK q \in Nat : n = Block * q + r
    BY <1>1
  <2>1. PICK u \in Nat : u = Block * q
    BY Sizes1
  <2>2. Block * (q + 1) = u + Block /\ Block * (q + 2) = u + 2 * Block
    BY <2>1, Sizes1
  <2>3. n + PadOf(n) + LengthSize \in {u + Block, u + 2 * Block}
    BY <1>2, <2>0, <2>1, Sizes1
  <2> QED
    BY <2>2, <2>3
<1>5. (Block * e + 0) % Block = 0
  BY Remainder, Sizes1
<1>6. PICK v \in Nat : v = Block * e
  BY Sizes1
<1> QED
  BY <1>3, <1>4, <1>5, <1>6

\* The shapes of what the invariant is about.
LEMMA Md5Are ==
  ASSUME Md5Inv
  PROVE  /\ size \in Nat /\ PadOf(size) \in 1..Block /\ LengthAt \in Nat /\ MessageEnd \in Nat
         /\ Len(input) \in Nat /\ Len(blocks) \in Nat /\ InBlocks \in Nat
         /\ Counted \in Nat /\ Taken \in Nat
<1>1. size \in Nat /\ PadOf(size) \in 1..Block
  BY PadIs, BlockAssumption DEF Md5Inv, Md5Types
<1>2. LengthAt \in Nat /\ MessageEnd \in Nat
  BY <1>1, Sizes1 DEF LengthAt, MessageEnd
<1>3. Counted \in Nat
  BY <1>1, <1>2 DEF Counted
<1>4. Len(input) \in Nat /\ Len(blocks) \in Nat
  BY DEF Md5Inv, Md5Types
<1>5. InBlocks \in Nat
  BY <1>4, Sizes1 DEF InBlocks
<1>6. Taken \in Nat
  BY <1>3, <1>4, <1>5, Sizes1 DEF Taken, Md5Inv, BytesInv
<1> QED
  BY <1>1, <1>2, <1>3, <1>4, <1>5, <1>6

LEMMA Md5InitInv == Md5Init => Md5Inv
<1> SUFFICES ASSUME Md5Init PROVE Md5Inv
  OBVIOUS
<1>1. size \in Nat /\ calls = <<[i \in 1..size |-> i]>> /\ calls # <<>> /\ ~finished
  BY BlockAssumption DEF Md5Init
<1>2. /\ size \in Sizes /\ total = <<0, 0>> /\ left = 0 /\ buffer \in BlockSet
      /\ input = <<>> /\ blocks = <<>> /\ finished = FALSE
  BY Sizes1 DEF Md5Init, BlockSet, Zero
<1>3. Counted = 0 /\ Taken = 0 /\ InBlocks = 0
  BY <1>1, <1>2, Sizes1 DEF Counted, Taken, InBlocks
<1>4. Md5Types
  <2>1. 0 \in 0..Block - 1 /\ <<>> \in Seq(Int) /\ <<>> \in Seq(BlockSet)
    BY Sizes1
  <2> QED
    BY <1>2, <2>1 DEF Md5Types
<1>5. CallsInv
  BY <1>1, <1>2 DEF CallsInv
<1>6. CountInv
  <2>1. 0 % Units = 0 /\ Byte * 0 = 0
    BY Sizes1
  <2> QED
    BY <1>1, <1>2, <1>3, <2>1 DEF CountInv
<1>7. BytesInv
  BY <1>2, <1>3, Sizes1 DEF BytesInv
<1> QED
  BY <1>4, <1>5, <1>6, <1>7 DEF Md5Inv

\* Much is a matter of the size alone.
LEMMA BytesStay ==
  ASSUME size' = size
  PROVE  /\ LengthAt' = LengthAt /\ MessageEnd' = MessageEnd
         /\ PadBytes' = PadBytes /\ BitLength' = BitLength
BY DEF LengthAt, MessageEnd, PadBytes, BitLength, PadOf

\* What an update is given: the next bytes.
LEMMA Given ==
  ASSUME Md5Inv, input = <<>>, calls # <<>>
  PROVE  /\ Head(calls) \in Seq(Int)
         /\ \A j \in 1..Len(Head(calls)) : Head(calls)[j] = ByteOf(size, Counted + j)
         /\ ~finished => /\ Len(Head(calls)) = size /\ Tail(calls) = <<>>
                         /\ Counted = 0 /\ Counted + Len(Head(calls)) = size
         /\ finished => \/ Tail(calls) = <<LengthBytes>> /\ Counted + Len(Head(calls)) = LengthAt
                        \/ Tail(calls) = <<>> /\ Counted + Len(Head(calls)) = MessageEnd
<1>1. /\ size \in Nat /\ PadOf(size) \in Nat \ {0} /\ LengthAt = size + PadOf(size)
      /\ LengthSize \in Nat /\ MessageEnd = LengthAt + LengthSize
  BY Md5Are, Sizes1 DEF LengthAt, MessageEnd
<1>2. CASE ~finished
  <2>1. PICK message : message = [i \in 1..size |-> i]
    OBVIOUS
  <2>2. message \in Seq(Int) /\ Len(message) = size /\ \A i \in 1..size : message[i] = i
    BY <1>1, <2>1
  <2>3. calls = <<message>>
    BY <1>2, <2>1 DEF Md5Inv, CallsInv
  <2>4. Head(calls) = message /\ Tail(calls) = <<>>
    BY <2>3
  <2>5. Counted = 0
    BY <1>2 DEF Counted
  <2>6. \A j \in 1..size : ByteOf(size, 0 + j) = j
    BY <1>1 DEF ByteOf
  <2> QED
    BY <1>1, <1>2, <2>2, <2>4, <2>5, <2>6
<1>3. CASE finished /\ calls = <<PadBytes, LengthBytes>>
  <2>1. PICK pad : pad = PadBytes
    OBVIOUS
  <2>2. /\ pad \in Seq(Int) /\ Len(pad) = PadOf(size)
        /\ \A i \in 1..PadOf(size) : pad[i] = IF i = 1 THEN One ELSE Zero
    BY <1>1, <2>1 DEF PadBytes, One, Zero
  <2>3. Head(calls) = pad /\ Tail(calls) = <<LengthBytes>> /\ Len(calls) = 2
    BY <1>3, <2>1
  <2>4. Counted = size
    BY <1>3, <2>3 DEF Counted
  <2>5. \A j \in 1..PadOf(size) : ByteOf(size, size + j) = IF j = 1 THEN One ELSE Zero
    BY <1>1 DEF ByteOf
  <2> QED
    BY <1>1, <1>3, <2>2, <2>3, <2>4, <2>5
<1>4. CASE finished /\ calls = <<LengthBytes>>
  <2>1. PICK rest : rest = LengthBytes
    OBVIOUS
  <2>2. /\ rest \in Seq(Int) /\ Len(rest) = LengthSize
        /\ \A i \in 1..LengthSize : rest[i] = LengthByte(i)
    BY <1>1, <2>1 DEF LengthBytes, LengthByte
  <2>3. Head(calls) = rest /\ Tail(calls) = <<>> /\ Len(calls) = 1
    BY <1>4, <2>1
  <2>4. Counted = LengthAt
    BY <1>4, <2>3 DEF Counted
  <2>5. \A j \in 1..LengthSize : ByteOf(size, LengthAt + j) = LengthByte(j)
    <3> SUFFICES ASSUME NEW j \in 1..LengthSize PROVE ByteOf(size, LengthAt + j) = LengthByte(j)
      OBVIOUS
    <3>1. PICK at \in Nat, pad \in Nat, i \in Nat :
            at = LengthAt /\ pad = PadOf(size) /\ pad # 0 /\ at = size + pad /\ i = at + j /\ j \in Nat /\ j >= 1
      BY <1>1
    <3>2. ~(i <= size) /\ i # size + 1 /\ ~(i <= at) /\ i - at = j
      <4>1. PICK n \in Nat : n = size
        BY <1>1
      <4>2. j \in Nat /\ j >= 1 /\ pad >= 1 /\ i = n + pad + j /\ at = n + pad
        BY <3>1, <4>1
      <4>3. i > n + 1 /\ i > at /\ i - at = j
        BY <4>2
      <4> QED
        BY <4>1, <4>3
    <3>3. ByteOf(size, i) = LengthByte(j)
      BY <3>1, <3>2 DEF ByteOf
    <3> QED
      BY <3>1, <3>2, <3>3
  <2> QED
    BY <1>1, <1>4, <2>2, <2>3, <2>4, <2>5
<1> QED
  BY <1>2, <1>3, <1>4 DEF Md5Inv, CallsInv, Md5Types

\* The length so far tells how much the buffer holds.
LEMMA InBufferIs ==
  ASSUME Md5Inv, input = <<>>
  PROVE  InBuffer = Taken - InBlocks /\ Taken = Counted
<1>1. Taken = Counted /\ InBlocks <= Counted /\ Counted < InBlocks + Block
  BY Md5Are DEF Md5Inv, BytesInv, Taken
<1>2. InBuffer = Counted % Block
  BY RestOfBlock, Md5Are DEF Md5Inv, CountInv, InBuffer
<1>3. PICK held \in Nat : held = Counted - InBlocks /\ held < Block
  BY <1>1, Md5Are, Sizes1
<1>4. Counted = Block * Len(blocks) + held
  <2>1. InBlocks = Block * Len(blocks)
    BY Md5Are, Sizes1 DEF InBlocks
  <2> QED
    BY <1>3, <2>1, Md5Are
<1>5. Counted % Block = held
  <2>1. (Block * Len(blocks) + held) % Block = held
    BY <1>3, Remainder, Md5Are, Sizes1
  <2> QED
    BY <1>4, <2>1
<1> QED
  BY <1>1, <1>2, <1>3, <1>5

\* A block more.
LEMMA BlockAdded ==
  ASSUME Md5Inv, size' = size, NEW block \in BlockSet, blocks' = Append(blocks, block),
         \A j \in 1..Block : block[j] = ByteOf(size, InBlocks + j)
  PROVE  /\ blocks' \in Seq(BlockSet) /\ InBlocks' = InBlocks + Block
         /\ \A k \in 1..Len(blocks'), j \in 1..Block :
              blocks'[k][j] = ByteOf(size, (k - 1) * Block + j)'
<1>1. /\ blocks' \in Seq(BlockSet) /\ Len(blocks') = Len(blocks) + 1
      /\ \A k \in 1..Len(blocks) + 1 : blocks'[k] = IF k <= Len(blocks) THEN blocks[k] ELSE block
  BY DEF Md5Inv, Md5Types
<1>2. InBlocks' = InBlocks + Block
  BY <1>1, Md5Are, Sizes1 DEF InBlocks
<1>3. ASSUME NEW k \in 1..Len(blocks'), NEW j \in 1..Block
      PROVE  blocks'[k][j] = ByteOf(size, (k - 1) * Block + j)
  <2>1. CASE k <= Len(blocks)
    <3>1. k \in 1..Len(blocks) /\ blocks'[k] = blocks[k]
      BY <1>1, <2>1, Md5Are
    <3> QED
      BY <3>1 DEF Md5Inv, BytesInv
  <2>2. CASE k = Len(blocks) + 1
    <3>1. blocks'[k] = block
      BY <1>1, <2>2, Md5Are
    <3>2. k - 1 = Len(blocks)
      BY <2>2, Md5Are
    <3>3. (k - 1) * Block = InBlocks
      BY <3>2 DEF InBlocks
    <3> QED
      BY <3>1, <3>3
  <2> QED
    BY <1>1, <2>1, <2>2, Md5Are
<1> QED
  BY <1>1, <1>2, <1>3, BytesStay

\* A sequence of the numbers of a part of another, and one as a block.
LEMMA PartOf ==
  ASSUME NEW s \in Seq(Int), NEW m \in 1..Len(s) + 1, NEW n \in 0..Len(s), m <= n + 1
  PROVE  /\ SubSeq(s, m, n) \in Seq(Int) /\ Len(SubSeq(s, m, n)) = n - m + 1
         /\ \A i \in 1..n - m + 1 : SubSeq(s, m, n)[i] = s[m + i - 1]
<1>1. \A i \in m..n : s[i] \in Int
  OBVIOUS
<1>2. /\ SubSeq(s, m, n) \in Seq(Int)
      /\ Len(SubSeq(s, m, n)) = IF m <= n THEN n - m + 1 ELSE 0
      /\ \A i \in 1..n - m + 1 : SubSeq(s, m, n)[i] = s[m + i - 1]
  BY <1>1, SubSeqProperties
<1> QED
  BY <1>2

\* Two sequences of numbers one after the other.
LEMMA Joined ==
  ASSUME NEW s \in Seq(Int), NEW t \in Seq(Int)
  PROVE  /\ s \o t \in Seq(Int) /\ Len(s \o t) = Len(s) + Len(t)
         /\ \A i \in 1..Len(s) : (s \o t)[i] = s[i]
         /\ \A i \in 1..Len(s) + Len(t) : i > Len(s) => (s \o t)[i] = t[i - Len(s)]
BY ConcatProperties

LEMMA BlocksAreSequences ==
  /\ \A b \in BlockSet : b \in Seq(Int) /\ Len(b) = Block
  /\ \A s \in Seq(Int) : Len(s) = Block => s \in BlockSet
BY Sizes1 DEF BlockSet

LEMMA UpdateKeeps ==
  ASSUME Md5Inv, Update
  PROVE  Md5Inv'
<1>1. /\ input = <<>> /\ calls # <<>> /\ input' = Head(calls) /\ calls' = Tail(calls)
      /\ left' = InBuffer /\ total' = Count(Len(Head(calls)))
      /\ UNCHANGED <<size, buffer, blocks, finished, length>>
  BY DEF Update
<1>2. /\ input' \in Seq(Int) /\ \A j \in 1..Len(input') : input'[j] = ByteOf(size, Counted + j)
      /\ ~finished => /\ Len(input') = size /\ calls' = <<>>
                      /\ Counted = 0 /\ Counted + Len(input') = size
      /\ finished => \/ calls' = <<LengthBytes>> /\ Counted + Len(input') = LengthAt
                     \/ calls' = <<>> /\ Counted + Len(input') = MessageEnd
  BY <1>1, Given
<1>3. InBuffer = Taken - InBlocks /\ Taken = Counted
  BY <1>1, InBufferIs
<1>4. Len(input') \in Nat /\ Counted \in Nat /\ Taken \in Nat /\ InBlocks \in Nat
  BY <1>2, Md5Are
<1>5. Counted' = Counted + Len(input')
  <2>1. Len(<<LengthBytes>>) = 1 /\ Len(<<>>) = 0
    OBVIOUS
  <2>2. LengthAt' = LengthAt /\ MessageEnd' = MessageEnd
    BY <1>1, BytesStay
  <2>3. CASE ~finished
    BY <1>1, <1>2, <2>3 DEF Counted
  <2>4. CASE finished /\ calls' = <<LengthBytes>> /\ Counted + Len(input') = LengthAt
    <3>1. finished' /\ Len(calls') = 1
      BY <1>1, <2>1, <2>4
    <3>2. Counted' = LengthAt
      BY <2>2, <3>1 DEF Counted
    <3> QED
      BY <2>4, <3>2
  <2>5. CASE finished /\ calls' = <<>> /\ Counted + Len(input') = MessageEnd
    <3>1. finished' /\ Len(calls') = 0
      BY <1>1, <2>1, <2>5
    <3>2. Counted' = MessageEnd
      BY <2>2, <3>1 DEF Counted
    <3> QED
      BY <2>5, <3>2
  <2> QED
    BY <1>2, <2>3, <2>4, <2>5
<1>6. Taken' = Taken /\ InBlocks' = InBlocks
  BY <1>1, <1>3, <1>4, <1>5 DEF Taken, InBlocks
<1>7. Md5Types'
  <2>1. left' \in 0..Block - 1
    BY <1>1, <1>3, <1>4, Sizes1 DEF Md5Inv, BytesInv
  <2> QED
    BY <1>1, <1>2, <2>1 DEF Md5Inv, Md5Types, BlockSet
<1>8. CallsInv'
  BY <1>1, <1>2 DEF CallsInv, LengthBytes
<1>9. CountInv'
  <2>1. PICK n \in Nat, m \in Nat : n = Counted /\ m = Len(input')
    BY <1>4
  <2>2. total' = Count(m)
    BY <1>1, <2>1
  <2>3. total[1] = Byte * (n % Units) /\ total[2] \in Nat
    BY <2>1 DEF Md5Inv, CountInv
  <2>4. total'[1] = Byte * ((n + m) % Units)
    BY <2>2, <2>3, CountsOn DEF Count
  <2>5. total'[2] \in Nat
    <3>1. m \div Units \in Nat
      BY Divided, Sizes1
    <3>2. PICK d, low : d \in Nat /\ d = m \div Units /\ low = (total[1] + m * Byte) % Word
      BY <3>1
    <3>3. total'[2] = total[2] + d + IF low < m * Byte THEN 1 ELSE 0
      BY <2>2, <3>2 DEF Count
    <3>4. PICK old \in Nat, carry \in {0, 1} :
            old = total[2] /\ carry = IF low < m * Byte THEN 1 ELSE 0
      BY <2>3
    <3>5. old + d + carry \in Nat
      BY <3>2, <3>4
    <3> QED
      BY <3>3, <3>4, <3>5
  <2>6. ASSUME ~finished, size < Units PROVE total' = BitLength
    <3>1. m = size /\ total = <<0, 0>>
      BY <1>1, <1>2, <2>1, <2>6 DEF Md5Inv, CountInv
    <3>2. PICK u \in Nat : u = m * Byte
      BY Sizes1
    <3>3. u < Word
      <4>1. Byte * (m + 1) <= Byte * Units
        BY <2>6, <3>1, Times, Sizes1
      <4>2. Byte * (m + 1) = u + Byte
        BY <3>2, Sizes1
      <4> QED
        BY <4>1, <4>2, Sizes1 DEF Word
    <3>4. u % Word = u /\ u \div Word = 0
      <4>1. Word * 0 + u = u
        BY Sizes1
      <4> QED
        BY <3>3, <4>1, Remainder, Sizes1
    <3>5. m \div Units = 0
      <4>1. Units * 0 + m = m
        BY Sizes1
      <4> QED
        BY <2>6, <3>1, <4>1, Remainder, Sizes1
    <3>6. total[1] = 0 /\ total[2] = 0 /\ 0 + u = u /\ ~(u < u) /\ 0 + 0 + 0 = 0
      BY <3>1
    <3>7. Count(m) = <<u, 0>>
      BY <3>2, <3>4, <3>5, <3>6 DEF Count
    <3>8. BitLength = <<u, 0>>
      BY <3>1, <3>2, <3>4 DEF BitLength
    <3> QED
      BY <2>2, <3>7, <3>8
  <2>7. BitLength' = BitLength
    BY <1>1, BytesStay
  <2>8. ~finished => calls' = <<>>
    BY <1>2
  <2> QED
    BY <1>1, <1>5, <2>1, <2>4, <2>5, <2>6, <2>7, <2>8 DEF Md5Inv, CountInv
<1>10. BytesInv'
  <2>1. /\ \A k \in 1..Len(blocks'), j \in 1..Block : blocks'[k][j] = ByteOf(size', (k - 1) * Block + j)
        /\ \A j \in 1..Taken - InBlocks : buffer'[j] = ByteOf(size', InBlocks + j)
        /\ InBlocks <= Taken /\ Taken < InBlocks + Block
    BY <1>1 DEF Md5Inv, BytesInv
  <2>2. \A j \in 1..Len(input') : input'[j] = ByteOf(size', Taken + j)
    BY <1>1, <1>2, <1>3
  <2>3. left' = Taken - InBlocks
    BY <1>1, <1>3
  <2> QED
    BY <1>6, <2>1, <2>2, <2>3 DEF BytesInv
<1> QED
  BY <1>7, <1>8, <1>9, <1>10 DEF Md5Inv

\* What the steps that take bytes leave alone.
LEMMA CountStays ==
  ASSUME Md5Inv, input # <<>>, UNCHANGED <<size, total, calls, finished, length>>
  PROVE  CallsInv' /\ CountInv' /\ Counted' = Counted
<1>1. Counted' = Counted
  BY BytesStay DEF Counted
<1>2. CallsInv'
  BY BytesStay DEF Md5Inv, CallsInv, LengthBytes
<1>3. CountInv'
  BY <1>1, BytesStay DEF Md5Inv, CountInv
<1> QED
  BY <1>1, <1>2, <1>3

LEMMA FillKeeps ==
  ASSUME Md5Inv, Fill
  PROVE  Md5Inv'
<1>0. PICK fill : fill = Block - left
  OBVIOUS
<1>1. /\ left > 0 /\ Len(input) >= fill
      /\ buffer' = SubSeq(buffer, 1, left) \o SubSeq(input, 1, fill)
      /\ blocks' = Append(blocks, buffer') /\ left' = 0
      /\ input' = SubSeq(input, fill + 1, Len(input))
      /\ UNCHANGED <<size, total, calls, finished, length>>
  BY <1>0 DEF Fill, Process
<1>2. left \in 1..Block - 1 /\ fill \in 1..Block - 1 /\ left + fill = Block /\ Len(input) \in Nat
  BY <1>0, <1>1, Md5Are, Sizes1 DEF Md5Inv, Md5Types
<1>3. buffer \in Seq(Int) /\ Len(buffer) = Block /\ input \in Seq(Int) /\ input # <<>>
  BY <1>1, <1>2, BlocksAreSequences DEF Md5Inv, Md5Types
<1>4. PICK held \in Nat, t \in Nat, b \in Nat : held = left /\ t = Taken /\ b = InBlocks /\ held = t - b
  <2>1. left \in Nat
    BY <1>2
  <2>2. Taken \in Nat /\ InBlocks \in Nat
    BY Md5Are
  <2>3. left = Taken - InBlocks
    BY <1>3 DEF Md5Inv, BytesInv
  <2> QED
    BY <2>1, <2>2, <2>3
<1>5. /\ SubSeq(buffer, 1, left) \in Seq(Int) /\ Len(SubSeq(buffer, 1, left)) = left
      /\ \A i \in 1..left : SubSeq(buffer, 1, left)[i] = buffer[i]
  BY <1>2, <1>3, PartOf, Sizes1
<1>6. /\ SubSeq(input, 1, fill) \in Seq(Int) /\ Len(SubSeq(input, 1, fill)) = fill
      /\ \A i \in 1..fill : SubSeq(input, 1, fill)[i] = input[i]
  BY <1>1, <1>2, <1>3, PartOf, Sizes1
<1>7. /\ input' \in Seq(Int) /\ Len(input') = Len(input) - fill
      /\ \A i \in 1..Len(input) - fill : input'[i] = input[fill + i]
  <2>1. /\ fill + 1 \in 1..Len(input) + 1 /\ Len(input) \in 0..Len(input)
        /\ Len(input) - (fill + 1) + 1 = Len(input) - fill /\ fill + 1 <= Len(input) + 1
    BY <1>1, <1>2
  <2>2. \A i \in 1..Len(input) - fill : fill + 1 + i - 1 = fill + i
    BY <1>2
  <2>3. \A i \in 1..Len(input) - fill : input'[i] = input[fill + 1 + i - 1]
    BY <1>1, <1>3, <2>1, PartOf
  <2>4. input' \in Seq(Int) /\ Len(input') = Len(input) - fill
    BY <1>1, <1>3, <2>1, PartOf
  <2> QED
    BY <2>2, <2>3, <2>4
<1>8. /\ buffer' \in Seq(Int) /\ Len(buffer') = Block
      /\ \A j \in 1..left : buffer'[j] = buffer[j]
      /\ \A j \in 1..Block : j > left => buffer'[j] = input[j - left]
  BY <1>1, <1>2, <1>5, <1>6, Sizes1
<1>9. buffer' \in BlockSet
  BY <1>8, BlocksAreSequences
<1>10. \A j \in 1..Block : buffer'[j] = ByteOf(size, InBlocks + j)
  <2> SUFFICES ASSUME NEW j \in 1..Block PROVE buffer'[j] = ByteOf(size, InBlocks + j)
    OBVIOUS
  <2>1. CASE j <= left
    <3>1. j \in 1..Taken - InBlocks /\ j \in 1..left
      BY <1>2, <1>4, <2>1, Sizes1
    <3> QED
      BY <1>8, <3>1 DEF Md5Inv, BytesInv
  <2>2. CASE j > left
    <3>1. PICK i \in Nat : i = j - left /\ i \in 1..Len(input) /\ t + i = InBlocks + j
      <4>1. PICK i \in Nat : i = j - held /\ i >= 1 /\ i <= fill /\ t + i = b + j
        BY <1>2, <1>4, <2>2, Sizes1
      <4>2. i \in 1..Len(input)
        BY <1>1, <1>2, <4>1
      <4> QED
        BY <1>4, <4>1, <4>2
    <3>2. input[i] = ByteOf(size, t + i)
      BY <1>4, <3>1 DEF Md5Inv, BytesInv
    <3> QED
      BY <1>8, <2>2, <3>1, <3>2
  <2> QED
    BY <1>2, <2>1, <2>2, Sizes1
<1>11. /\ blocks' \in Seq(BlockSet) /\ InBlocks' = InBlocks + Block
       /\ \A k \in 1..Len(blocks'), j \in 1..Block :
            blocks'[k][j] = ByteOf(size, (k - 1) * Block + j)'
  BY <1>1, <1>9, <1>10, BlockAdded
<1>12. CallsInv' /\ CountInv' /\ Counted' = Counted
  BY <1>1, <1>3, CountStays
<1>13. Taken' = Taken + fill /\ Taken' = InBlocks'
  <2>1. Taken' = Counted - (Len(input) - fill)
    BY <1>7, <1>12 DEF Taken
  <2>2. Taken' = Taken + fill
    BY <1>2, <2>1, Md5Are DEF Taken
  <2> QED
    <3>1. t + fill = b + Block
      BY <1>2, <1>4, Sizes1
    <3> QED
      BY <1>4, <1>11, <2>2, <3>1
<1>14. Md5Types'
  <2>1. 0 \in 0..Block - 1
    BY Sizes1
  <2> QED
    BY <1>1, <1>7, <1>9, <1>11, <2>1 DEF Md5Inv, Md5Types, BlockSet
<1>15. BytesInv'
  <2>1. PICK c \in Nat : c = Taken' /\ c = t + fill /\ c = InBlocks'
    <3>1. t + fill \in Nat
      BY <1>2
    <3> QED
      BY <1>4, <1>13, <3>1
  <2>2. \A j \in 1..Len(input') : input'[j] = ByteOf(size', c + j)
    <3> SUFFICES ASSUME NEW j \in 1..Len(input') PROVE input'[j] = ByteOf(size, c + j)
      BY <1>1
    <3>1. PICK i \in Nat : i = fill + j /\ i \in 1..Len(input) /\ t + i = c + j /\ input'[j] = input[i]
      <4>1. PICK n \in Nat : n = Len(input) /\ j \in 1..n - fill
        BY <1>2, <1>7
      <4>2. fill \in Nat /\ j \in Nat /\ fill + j \in 1..n /\ t + (fill + j) = c + j
        BY <1>2, <1>4, <2>1, <4>1
      <4>3. input'[j] = input[fill + j]
        BY <1>7, <4>1
      <4> QED
        BY <4>1, <4>2, <4>3
    <3>2. input[i] = ByteOf(size, t + i)
      BY <1>4, <3>1 DEF Md5Inv, BytesInv
    <3> QED
      BY <3>1, <3>2
  <2>3. c <= c /\ c < c + Block /\ 1..(c - c) = {} /\ 0 = c - c
    BY <2>1, Sizes1
  <2> QED
    BY <1>1, <1>11, <2>1, <2>2, <2>3 DEF BytesInv
<1> QED
  BY <1>12, <1>14, <1>15 DEF Md5Inv

LEMMA WholeKeeps ==
  ASSUME Md5Inv, Whole
  PROVE  Md5Inv'
<1>0. PICK block : block = SubSeq(input, 1, Block)
  OBVIOUS
<1>1. /\ left = 0 /\ Len(input) >= Block /\ blocks' = Append(blocks, block)
      /\ input' = SubSeq(input, Block + 1, Len(input))
      /\ UNCHANGED <<size, total, buffer, left, calls, finished, length>>
  BY <1>0 DEF Whole, Process
<1>2. Len(input) \in Nat /\ input \in Seq(Int) /\ input # <<>> /\ Block \in 1..Len(input)
  BY <1>1, Md5Are, Sizes1 DEF Md5Inv, Md5Types
<1>3. Taken = InBlocks
  <2>1. left = Taken - InBlocks
    BY <1>2 DEF Md5Inv, BytesInv
  <2>2. PICK t \in Nat, b \in Nat : t = Taken /\ b = InBlocks
    BY Md5Are
  <2> QED
    BY <1>1, <2>1, <2>2
<1>4. /\ block \in Seq(Int) /\ Len(block) = Block /\ \A i \in 1..Block : block[i] = input[i]
  BY <1>0, <1>2, PartOf, Sizes1
<1>5. /\ input' \in Seq(Int) /\ Len(input') = Len(input) - Block
      /\ \A i \in 1..Len(input) - Block : input'[i] = input[Block + i]
  <2>1. /\ Block + 1 \in 1..Len(input) + 1 /\ Len(input) \in 0..Len(input)
        /\ Len(input) - (Block + 1) + 1 = Len(input) - Block /\ Block + 1 <= Len(input) + 1
    BY <1>1, <1>2
  <2>2. \A i \in 1..Len(input) - Block : Block + 1 + i - 1 = Block + i
    BY <1>2
  <2>3. \A i \in 1..Len(input) - Block : input'[i] = input[Block + 1 + i - 1]
    BY <1>1, <1>2, <2>1, PartOf
  <2>4. input' \in Seq(Int) /\ Len(input') = Len(input) - Block
    BY <1>1, <1>2, <2>1, PartOf
  <2> QED
    BY <2>2, <2>3, <2>4
<1>6. block \in BlockSet
  BY <1>4, BlocksAreSequences
<1>7. \A j \in 1..Block : block[j] = ByteOf(size, InBlocks + j)
  <2>1. \A j \in 1..Len(input) : input[j] = ByteOf(size, InBlocks + j)
    BY <1>3 DEF Md5Inv, BytesInv
  <2> QED
    BY <1>2, <1>4, <2>1, Sizes1
<1>8. /\ blocks' \in Seq(BlockSet) /\ InBlocks' = InBlocks + Block
      /\ \A k \in 1..Len(blocks'), j \in 1..Block :
           blocks'[k][j] = ByteOf(size, (k - 1) * Block + j)'
  BY <1>1, <1>6, <1>7, BlockAdded
<1>9. CallsInv' /\ CountInv' /\ Counted' = Counted
  BY <1>1, <1>2, CountStays
<1>10. Taken' = Taken + Block /\ Taken' = InBlocks'
  <2>1. Taken' = Counted - (Len(input) - Block)
    BY <1>5, <1>9 DEF Taken
  <2>2. Taken' = Taken + Block
    BY <1>2, <2>1, Md5Are, Sizes1 DEF Taken
  <2> QED
    BY <1>3, <1>8, <2>2
<1>11. Md5Types'
  BY <1>1, <1>5, <1>8 DEF Md5Inv, Md5Types, BlockSet
<1>12. BytesInv'
  <2>1. PICK t \in Nat, b \in Nat : t = Taken /\ b = Taken' /\ b = t + Block /\ b = InBlocks'
    BY <1>10, Md5Are, Sizes1
  <2>2. \A j \in 1..Len(input') : input'[j] = ByteOf(size', b + j)
    <3> SUFFICES ASSUME NEW j \in 1..Len(input') PROVE input'[j] = ByteOf(size, b + j)
      BY <1>1
    <3>1. PICK i \in Nat : i = Block + j /\ i \in 1..Len(input) /\ t + i = b + j /\ input'[j] = input[i]
      BY <1>2, <1>5, <2>1, Sizes1
    <3>2. input[i] = ByteOf(size, t + i)
      BY <2>1, <3>1 DEF Md5Inv, BytesInv
    <3> QED
      BY <3>1, <3>2
  <2>3. b <= b /\ b < b + Block /\ 1..(b - b) = {} /\ 0 = b - b
    BY <2>1, Sizes1
  <2> QED
    BY <1>1, <1>8, <2>1, <2>2, <2>3 DEF BytesInv
<1> QED
  BY <1>9, <1>11, <1>12 DEF Md5Inv

LEMMA RestKeeps ==
  ASSUME Md5Inv, Rest
  PROVE  Md5Inv'
<1>1. /\ input # <<>> /\ Len(input) < Block - left /\ input' = <<>>
      /\ buffer' = SubSeq(buffer, 1, left) \o input \o SubSeq(buffer, left + Len(input) + 1, Block)
      /\ UNCHANGED <<size, total, left, calls, blocks, finished, length>>
  BY DEF Rest
<1>2. left \in 0..Block - 1 /\ Len(input) \in Nat /\ left = Taken - InBlocks
  BY <1>1, Md5Are DEF Md5Inv, Md5Types, BytesInv
<1>3. PICK n \in Nat, p \in Nat : n = left + Len(input) /\ n < Block /\ p = left /\ p <= n /\ n - p = Len(input)
  BY <1>1, <1>2, Sizes1
<1>4. buffer \in Seq(Int) /\ Len(buffer) = Block /\ input \in Seq(Int)
  BY BlocksAreSequences DEF Md5Inv, Md5Types
<1>5. /\ SubSeq(buffer, 1, p) \in Seq(Int) /\ Len(SubSeq(buffer, 1, p)) = p
      /\ \A i \in 1..p : SubSeq(buffer, 1, p)[i] = buffer[i]
  BY <1>3, <1>4, PartOf, Sizes1
<1>6. /\ SubSeq(buffer, n + 1, Block) \in Seq(Int) /\ Len(SubSeq(buffer, n + 1, Block)) = Block - n
  <2>1. n + 1 \in 1..Block + 1 /\ Block \in 0..Block /\ n + 1 <= Block + 1 /\ Block - (n + 1) + 1 = Block - n
    BY <1>3, Sizes1
  <2> QED
    BY <1>4, <2>1, PartOf
<1>7. /\ SubSeq(buffer, 1, p) \o input \in Seq(Int) /\ Len(SubSeq(buffer, 1, p) \o input) = n
      /\ \A j \in 1..p : (SubSeq(buffer, 1, p) \o input)[j] = buffer[j]
      /\ \A j \in 1..n : j > p => (SubSeq(buffer, 1, p) \o input)[j] = input[j - p]
  <2>1. p + Len(input) = n
    BY <1>2, <1>3
  <2> QED
    BY <1>4, <1>5, <2>1, Joined
<1>8. PICK taken \in Seq(Int), tail \in Seq(Int) :
        /\ taken = SubSeq(buffer, 1, p) \o input /\ tail = SubSeq(buffer, n + 1, Block)
        /\ Len(taken) = n /\ Len(tail) = Block - n /\ buffer' = taken \o tail
        /\ \A j \in 1..p : taken[j] = buffer[j]
        /\ \A j \in 1..n : j > p => taken[j] = input[j - p]
  BY <1>1, <1>3, <1>6, <1>7
<1>9. /\ buffer' \in Seq(Int) /\ Len(buffer') = Block
      /\ \A j \in 1..n : buffer'[j] = taken[j]
  <2>1. n + (Block - n) = Block /\ 1..n = 1..Len(taken)
    BY <1>3, <1>8, Sizes1
  <2> QED
    <3>1. /\ taken \o tail \in Seq(Int) /\ Len(taken \o tail) = Len(taken) + Len(tail)
          /\ \A i \in 1..Len(taken) : (taken \o tail)[i] = taken[i]
      BY Joined
    <3> QED
      BY <1>8, <2>1, <3>1
<1>10. PICK t \in Nat, b \in Nat : t = Taken /\ b = InBlocks /\ p = t - b
  BY <1>2, <1>3, Md5Are
<1>11. \A j \in 1..n : buffer'[j] = ByteOf(size, b + j)
  <2> SUFFICES ASSUME NEW j \in 1..n PROVE taken[j] = ByteOf(size, b + j)
    BY <1>9
  <2>1. CASE j <= p
    <3>1. j \in 1..p /\ j \in 1..t - b
      BY <1>10, <2>1
    <3> QED
      BY <1>8, <1>10, <3>1 DEF Md5Inv, BytesInv
  <2>2. CASE j > p
    <3>1. PICK i \in Nat : i = j - p /\ i \in 1..Len(input) /\ t + i = b + j
      BY <1>2, <1>3, <1>10, <2>2
    <3>2. input[i] = ByteOf(size, t + i)
      BY <1>10, <3>1 DEF Md5Inv, BytesInv
    <3> QED
      BY <1>8, <2>2, <3>1, <3>2
  <2> QED
    BY <2>1, <2>2
<1>12. CallsInv' /\ CountInv' /\ Counted' = Counted
  BY <1>1, CountStays
<1>13. InBlocks' = b /\ Taken' = b + n
  <2>1. Taken' = Counted
    BY <1>1, <1>12, Md5Are DEF Taken
  <2>2. Counted = t + Len(input)
    BY <1>2, <1>10, Md5Are DEF Taken
  <2> QED
    <3>1. InBlocks' = InBlocks
      BY <1>1 DEF InBlocks
    <3>2. t + Len(input) = b + n
      BY <1>2, <1>3, <1>10
    <3> QED
      BY <1>10, <2>1, <2>2, <3>1, <3>2
<1>14. Md5Types'
  <2>1. buffer' \in BlockSet
    BY <1>9, BlocksAreSequences
  <2> QED
    <3>1. <<>> \in Seq(Int)
      OBVIOUS
    <3> QED
      BY <1>1, <2>1, <3>1 DEF Md5Inv, Md5Types, BlockSet
<1>15. BytesInv'
  <2>1. b <= b + n /\ b + n < b + Block /\ b + n - b = n
    BY <1>3, <1>10, Sizes1
  <2>2. \A k \in 1..Len(blocks'), j \in 1..Block : blocks'[k][j] = ByteOf(size', (k - 1) * Block + j)
    BY <1>1 DEF Md5Inv, BytesInv
  <2>3. Len(input') = 0 /\ 1..0 = {}
    BY <1>1
  <2> QED
    <3>1. \A j \in 1..Taken' - InBlocks' : buffer'[j] = ByteOf(size', InBlocks' + j)
      <4>1. Taken' - InBlocks' = n
        BY <1>13, <2>1
      <4>2. \A j \in 1..n : buffer'[j] = ByteOf(size', b + j)
        BY <1>1, <1>11
      <4> QED
        BY <1>13, <4>1, <4>2
    <3>2. InBlocks' <= Taken' /\ Taken' < InBlocks' + Block
      BY <1>13, <2>1
    <3>3. ~(input' # <<>>) /\ \A j \in 1..Len(input') : FALSE
      BY <1>1, <2>3
    <3> QED
      BY <2>2, <3>1, <3>2, <3>3 DEF BytesInv
<1> QED
  BY <1>12, <1>14, <1>15 DEF Md5Inv

LEMMA FinishKeeps ==
  ASSUME Md5Inv, Finish
  PROVE  Md5Inv'
<1>1. /\ input = <<>> /\ calls = <<>> /\ ~finished /\ finished' = TRUE /\ length' = total
      /\ calls' = << [i \in 1..Padding |-> IF i = 1 THEN One ELSE Zero], LengthBytes >>
      /\ UNCHANGED <<size, total, buffer, left, input, blocks>>
  BY DEF Finish, LengthBytes
<1>2. Counted = size
  BY <1>1 DEF Counted
<1>3. InBuffer = size % Block
  BY <1>2, RestOfBlock, Md5Are DEF Md5Inv, CountInv, InBuffer
<1>4. Padding = PadOf(size)
  BY <1>3 DEF Padding, PadOf
<1>5. calls' = <<PadBytes, LengthBytes>> /\ Len(calls') = 2
  BY <1>1, <1>4 DEF PadBytes
<1>6. Counted' = Counted
  BY <1>1, <1>2, <1>5 DEF Counted
<1>7. Taken' = Taken /\ InBlocks' = InBlocks
  BY <1>1, <1>6 DEF Taken, InBlocks
<1>8. Md5Types'
  BY <1>1 DEF Md5Inv, Md5Types, BlockSet
<1>9. CallsInv'
  <2>1. PadBytes' = PadBytes /\ LengthBytes' = LengthBytes
    BY <1>1, BytesStay DEF LengthBytes
  <2> QED
    BY <1>1, <1>5, <2>1 DEF CallsInv
<1>10. CountInv'
  <2>1. size < Units => total = BitLength
    BY <1>1 DEF Md5Inv, CountInv
  <2>2. BitLength' = BitLength
    BY <1>1, BytesStay
  <2> QED
    BY <1>1, <1>6, <2>1, <2>2 DEF Md5Inv, CountInv
<1>11. BytesInv'
  BY <1>1, <1>7 DEF Md5Inv, BytesInv
<1> QED
  BY <1>8, <1>9, <1>10, <1>11 DEF Md5Inv

LEMMA Md5NextInv == Md5Inv /\ [Md5Next]_md5Vars => Md5Inv'
<1> SUFFICES ASSUME Md5Inv, [Md5Next]_md5Vars PROVE Md5Inv'
  OBVIOUS
<1>1. CASE UNCHANGED md5Vars
  <2>1. UNCHANGED <<size, total, buffer, left, input, calls, blocks, finished, length>>
    BY <1>1 DEF md5Vars
  <2>2. Counted' = Counted
    BY <2>1, BytesStay DEF Counted
  <2>3. Taken' = Taken /\ InBlocks' = InBlocks
    BY <2>1, <2>2 DEF Taken, InBlocks
  <2>4. Md5Types'
    BY <2>1 DEF Md5Inv, Md5Types, BlockSet
  <2>5. CallsInv'
    BY <2>1, BytesStay DEF Md5Inv, CallsInv, LengthBytes
  <2>6. CountInv'
    BY <2>1, <2>2, BytesStay DEF Md5Inv, CountInv
  <2>7. BytesInv'
    BY <2>1, <2>3 DEF Md5Inv, BytesInv
  <2> QED
    BY <2>4, <2>5, <2>6, <2>7 DEF Md5Inv
<1> QED
  BY <1>1, UpdateKeeps, FillKeeps, WholeKeeps, RestKeeps, FinishKeeps DEF Md5Next

\* When all is digested the blocks end where the length does.
LEMMA WholeBlocks ==
  ASSUME Md5Inv, Digested
  PROVE  InBlocks = MessageEnd
<1>1. finished /\ calls = <<>> /\ input = <<>>
  BY DEF Digested
<1>2. Taken = MessageEnd
  BY <1>1, Md5Are DEF Taken, Counted
<1>3. PICK held \in Nat, e \in Nat, k \in Nat :
        /\ e = MessageEnd /\ k = Len(blocks) /\ held = e - InBlocks
        /\ held < Block /\ e % Block = 0
  <2>1. MessageEnd % Block = 0
    BY PadIs, Md5Are DEF MessageEnd, LengthAt
  <2>2. InBlocks <= MessageEnd /\ MessageEnd - InBlocks < Block
    BY <1>2, Md5Are, Sizes1 DEF Md5Inv, BytesInv
  <2> QED
    BY <2>1, <2>2, Md5Are
<1>4. e = Block * k + held
  <2>1. PICK b \in Nat : b = InBlocks /\ b = Block * k
    BY <1>3, Md5Are, Sizes1 DEF InBlocks
  <2> QED
    BY <1>3, <2>1
<1>5. e % Block = held
  <2>1. (Block * k + held) % Block = held
    BY <1>3, Remainder, Sizes1
  <2> QED
    BY <1>4, <2>1
<1>6. PICK b \in Nat : b = InBlocks
  BY Md5Are
<1> QED
  BY <1>3, <1>5, <1>6

LEMMA Md5InvPads == Md5Inv => Padded
<1> DEFINE end == Len(blocks) * Block - LengthSize
           At(i) == CASE i \in 1..size -> i
                       [] i = size + 1 -> One
                       [] i \in size + 2..end -> Zero
                       [] i > end -> LengthByte(i - end)
<1> SUFFICES ASSUME Md5Inv, Digested
             PROVE  /\ end - size \in 1..Block
                    /\ \A k \in 1..Len(blocks) : blocks[k] = [j \in 1..Block |-> At((k - 1) * Block + j)]
                    /\ size < Units => length = BitLength
  BY DEF Padded
<1>1. /\ size \in Nat /\ PadOf(size) \in 1..Block /\ end = size + PadOf(size)
  <2>1. PICK b \in Nat, l \in Nat, s \in Nat : b = InBlocks /\ l = LengthSize /\ s = size /\ PadOf(size) \in 1..Block
    BY Md5Are, Sizes1
  <2>2. b = s + PadOf(s) + l
    BY <2>1, WholeBlocks DEF MessageEnd, LengthAt
  <2>3. end = b - l
    BY <2>1 DEF InBlocks
  <2> QED
    BY <2>1, <2>2, <2>3, Sizes1
<1>2. end - size \in 1..Block
  <2> HIDE DEF end
  <2> QED
    BY <1>1, Sizes1
<1>3. \A i \in Nat \ {0} : At(i) = ByteOf(size, i)
  <2> HIDE DEF end
  <2> SUFFICES ASSUME NEW i \in Nat \ {0} PROVE At(i) = ByteOf(size, i)
    OBVIOUS
  <2>1. PICK s \in Nat, e \in Nat : s = size /\ e = end /\ e >= s + 1 /\ e = s + PadOf(s)
    BY <1>1, Sizes1
  <2>2. CASE i <= s
    BY <2>1, <2>2 DEF ByteOf
  <2>3. CASE i = s + 1
    BY <2>1, <2>3 DEF ByteOf
  <2>4. CASE i > s + 1 /\ i <= e
    <3>1. ~(i \in 1..s) /\ i # s + 1 /\ i \in s + 2..e /\ ~(i > e) /\ ~(i <= s)
      BY <2>1, <2>4
    <3> QED
      BY <2>1, <2>4, <3>1 DEF ByteOf
  <2>5. CASE i > e
    <3>1. ~(i \in 1..s) /\ i # s + 1 /\ ~(i \in s + 2..e) /\ ~(i <= e) /\ ~(i <= s)
      BY <2>1, <2>5
    <3> QED
      BY <2>1, <2>5, <3>1 DEF ByteOf
  <2> QED
    BY <2>1, <2>2, <2>3, <2>4, <2>5
<1>4. ASSUME NEW k \in 1..Len(blocks)
      PROVE  blocks[k] = [j \in 1..Block |-> At((k - 1) * Block + j)]
  <2> HIDE DEF At, end
  <2>1. blocks[k] \in BlockSet
    BY Md5Are DEF Md5Inv, Md5Types
  <2>2. \A j \in 1..Block : blocks[k][j] = At((k - 1) * Block + j)
    <3> SUFFICES ASSUME NEW j \in 1..Block PROVE blocks[k][j] = At((k - 1) * Block + j)
      OBVIOUS
    <3>1. k - 1 \in Nat /\ j \in Nat /\ j >= 1
      BY Md5Are, Sizes1
    <3>2. PICK u \in Nat : u = (k - 1) * Block
      BY <3>1, Sizes1
    <3>3. blocks[k][j] = ByteOf(size, u + j)
      BY <3>2 DEF Md5Inv, BytesInv
    <3>4. u + j \in Nat \ {0}
      BY <3>1, <3>2
    <3> QED
      BY <1>3, <3>2, <3>3, <3>4
  <2> QED
    BY <2>1, <2>2 DEF BlockSet
<1>5. size < Units => length = BitLength
  BY DEF Md5Inv, CountInv, Digested
<1> QED
  BY <1>2, <1>4, <1>5

LEMMA Md5InvTypes == Md5Inv => Md5TypeOK
<1> SUFFICES ASSUME Md5Inv PROVE Md5TypeOK
  OBVIOUS
<1>1. total[1] \in 0..(Word - 1)
  <2>1. PICK r \in Nat : r = Counted % Units /\ r < Units
    BY Divided, Md5Are, Sizes1
  <2>2. PICK u \in Nat : u = Byte * r /\ u < Word
    <3>1. Byte * (r + 1) <= Byte * Units
      BY <2>1, Times, Sizes1
    <3>2. Byte * (r + 1) = Byte * r + Byte /\ Byte * r \in Nat
      BY Sizes1
    <3> QED
      BY <3>1, <3>2, Sizes1 DEF Word
  <2>3. total[1] = u
    BY <2>1, <2>2 DEF Md5Inv, CountInv
  <2> QED
    BY <2>2, <2>3, Sizes1
<1>2. Len(buffer) = Block
  BY BlocksAreSequences DEF Md5Inv, Md5Types
<1> QED
  BY <1>1, <1>2 DEF Md5TypeOK, Md5Inv, Md5Types, CountInv

\* GenerateMD5 digests what the algorithm says: for every size of message and
\* of block the padding ends the message at the end of a block, and the length
\* is right as long as half of it can hold the bits.
THEOREM DigestsPadded == Md5Spec => []Padded
  BY Md5InitInv, Md5NextInv, Md5InvPads, PTL DEF Md5Spec
-----------------------------------------------------------------------------
(***************************************************************************)
(* MCFiles: the behaviours that TLC checks.                                *)
(***************************************************************************)

FilesInv == OPCInv /\ SoFarInv /\ BoundsInv /\ TraverseInv /\ StreamFlags /\ Md5Inv

\* While another part runs, the handler is as if it had answered.
Idling ==
  /\ kind = [p \in Paths |-> "none"] /\ touched = {}
  /\ request = Idle /\ content = <<TRUE>> /\ socket = TRUE
  /\ stage = "done" /\ dir = Entry("d", 0) /\ walk = <<>> /\ found = <<>>
  /\ files = <<>> /\ grep = NoGrep /\ results = <<>> /\ error = FALSE /\ answers = 1

LEMMA IdlingIs == Idling => OPCInv /\ SoFarInv /\ BoundsInv
<1> SUFFICES ASSUME Idling PROVE OPCInv /\ SoFarInv /\ BoundsInv
  OBVIOUS
<1>1. request \in Requests /\ request.op = "cat" /\ request.path = "d" /\ content \in Contents
  BY IdleAssumption DEF Idling, Idle, Request
<1>2. "d" \in Paths
  BY <1>1, FilesAssumption
<1>3. Shape
  <2>1. kind \in [Paths -> PathKind] /\ Consistent(kind) /\ touched \subseteq Paths
        /\ socket \in BOOLEAN
    BY FilesAssumption DEF Idling, PathKind, Consistent, Paths
  <2>2. dir \in EntrySet
    BY <1>2, FilesAssumption DEF Idling, Entry, EntrySet
  <2>3. /\ walk \in Seq(SUBSET EntrySet) /\ found \in Seq(EntrySet)
        /\ files \in Seq(EntrySet) /\ results \in Seq(Seq(Line))
    BY DEF Idling
  <2>4. grep \in GrepSet
    <3>1. <<>> \in Seq(BOOLEAN) /\ <<>> \in Seq(Nat) /\ <<>> \in Seq(Line)
      OBVIOUS
    <3> QED
      BY <3>1 DEF Idling, NoGrep, GrepSet
  <2>5. /\ error \in BOOLEAN /\ stage = "done" /\ stage \in Stages
        /\ answers = IF stage = "done" /\ socket THEN 1 ELSE 0
    BY DEF Idling, Stages
  <2> QED
    BY <1>1, <2>1, <2>2, <2>3, <2>4, <2>5 DEF Shape
<1>4. ListInv /\ FindInv /\ GrepFilesInv /\ GrepInv
  BY <1>1 DEF ListInv, FindInv, GrepFilesInv, GrepInv, Undisturbed
<1>5. InfosInv
  BY <1>1 DEF Idling, InfosInv
<1>6. LinesInv
  <2>1. /\ grep.line = 0 /\ grep.index = -1 /\ Len(grep.rest) = 0 /\ Len(grep.buffer) = 0
        /\ Len(content) = 1
    BY DEF Idling, NoGrep
  <2> QED
    BY <2>1 DEF LinesInv
<1>7. SoFarInv
  BY <1>1 DEF SoFarInv, ListSoFar, InfosSoFar, KnownSoFar, SteadySoFar
<1> QED
  BY <1>3, <1>4, <1>5, <1>6, <1>7 DEF OPCInv, BoundsInv

LEMMA FilesAtFirst == Init => FilesInv
<1> SUFFICES ASSUME Init PROVE FilesInv
  OBVIOUS
<1>1. (OPCInit \/ Idling) /\ TraverseInit /\ Md5Init
  BY DEF Init, Idling
<1> QED
  BY <1>1, InitKeeps, SoFarAtFirst, BoundsAtFirst, IdlingIs, TraverseInitKeeps, FlagsAtFirst,
     Md5InitInv DEF FilesInv

LEMMA FilesKept == FilesInv /\ [Next]_filesVars => FilesInv'
<1> SUFFICES ASSUME FilesInv, [Next]_filesVars PROVE FilesInv'
  OBVIOUS
<1>1. [OPCNext]_opcVars /\ [TraverseNext]_traverseVars /\ [Md5Next]_md5Vars
  BY DEF Next, filesVars
<1> QED
  BY <1>1, NextKeeps, SoFarKept, BoundsKept, TraverseNextKeeps, FlagsKept, Md5NextInv DEF FilesInv

\* The inductive invariant holds in every behaviour, whichever part runs.
THEOREM FilesInvariance == Spec => []FilesInv
  BY FilesAtFirst, FilesKept, PTL DEF Spec

\* The variables of the file service hold values of their types: entries lead
\* through as many links as are followed and no more, each file found has its
\* info at most once, GrepFile's buffer holds lines that were read, and the
\* index of a match is less than the number of lines; the digest's lengths fit.
THEOREM FilesTypes == Spec => []TypeOK
<1>1. FilesInv => TypeOK
  BY OPCTypes, TraverseTyped, Md5InvTypes DEF FilesInv, TypeOK
<1> QED
  BY <1>1, FilesInvariance, PTL

\* In every behaviour of the composition, for any values of the constants: answers
\* without an error are whole while nothing changes, and as whole as they can be
\* while something does; the lines around matches are selected while nothing
\* changes; no file is lost while its lines can be read and written; and messages
\* are padded.
THEOREM FilesCorrect ==
  Spec => [](WholeOrError /\ GrepSelects /\ NothingLost /\ Padded)
<1>1. FilesInv => WholeOrError /\ GrepSelects /\ NothingLost /\ Padded
  BY AnswersWhole, AnswersWhileChanging, AnswersSelected, LosesNothing, Md5InvPads
     DEF FilesInv, WholeOrError
<1> QED
  BY <1>1, FilesInvariance, PTL
=============================================================================
