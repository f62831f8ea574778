------------------------- MODULE PosixStart_proofs --------------------------
(***************************************************************************)
(* Proofs about how the vendored process library starts children: for any  *)
(* jobs, any number of children and streams, and any size of the table of  *)
(* descriptors, which may run out at every pipe.                           *)
(*                                                                         *)
(* The inductive invariant StartInv is about the parent's table, in which  *)
(* an end of a pipe is open just when one of its objects owns it, and about*)
(* the tables of the children, in which the streams that are set up lead   *)
(* to where they shall, the others are as they were in the parent, and the *)
(* handles of the pipes yet to be used still lead to them.                 *)
(***************************************************************************)
EXTENDS PosixStart, FiniteSetTheorems, WellFoundedInduction, TLAPS

-----------------------------------------------------------------------------
(***************************************************************************)
(* The inductive invariant.                                                *)
(***************************************************************************)

File == <<"file", 0>>

EndNames == {"read", "write"}

\* What a descriptor may lead to, and the tables.
Things == {Free, File} \cup {Own(d) : d \in Desc} \cup (EndNames \X Nat)
Tables == [Desc -> Things]

StreamBehaviors == {"inherit", "silence", "capture", "redirect", "pipein", "pipeout"}
Types == {"inherit", "file", "pipe", "redirect", "handle"}

StreamSet == [out : BOOLEAN, d : Nat, behavior : StreamBehaviors, to : Nat]
InfoSet ==
  [d : Nat, out : BOOLEAN, to : Nat, type : Types, pipe : Nat,
   rend : Desc \cup {-1}, wend : Desc \cup {-1}, handle : Desc \cup {-1}]

ParentSteps == {"begin", "streams", "close", "returned", "thrown"}
ChildSteps == {"none", "setup", "exec", "running", "exited"}

Children == 1..NumChildren
Processes == 0..NumChildren

StartTypes ==
  /\ job \in Jobs
  /\ fds \in [Processes -> Tables]
  /\ pipes \in Nat
  /\ info \in [Processes -> Seq(InfoSet)]
  /\ done \in [Processes -> Nat]
  /\ at \in [Processes -> ParentSteps \cup ChildSteps]
  /\ at[Parent] \in ParentSteps /\ \A p \in Children : at[p] \in ChildSteps
  /\ current \in Children

\* The child whose stream_infos the process p has.
Whose(p) == IF p = Parent THEN current ELSE p

\* The type of the stream_info of a stream.
TypeFor(behavior) ==
  CASE behavior \in {"pipein", "pipeout"} -> "handle"
    [] behavior = "capture" -> "pipe"
    [] behavior = "silence" -> "file"
    [] OTHER -> behavior

\* The descriptors that the contexts cannot have named: of pipes.
Beyond == Desc \ job.open

\* The stream_info si is one for the stream s.
MadeFor(si, s) ==
  /\ si.d = s.d /\ si.out = s.out /\ si.to = s.to /\ si.type = TypeFor(s.behavior)
  /\ IF si.type = "handle" THEN si.handle \in Beyond /\ si.pipe = s.to ELSE si.handle = -1
  /\ IF si.type = "pipe"
       THEN si.rend \in Beyond /\ si.wend \in Beyond /\ si.pipe \in NumChildren..pipes
       ELSE si.rend = -1 /\ si.wend = -1

\* The stream_infos that have a pipe.
Captured(p) == {k \in DOMAIN info[p] : info[p][k].type = "pipe"}

\* The stream_infos of a process are those of its child's streams, as many as
\* were made; a child that was started has them all, and goes through them twice.
InfosInv ==
  /\ \A p \in Processes :
       /\ Len(info[p]) <= Len(Streams(Whose(p)))
       /\ \A k \in DOMAIN info[p] : MadeFor(info[p][k], Streams(Whose(p))[k])
  /\ \A p \in Children :
       IF at[p] = "none" THEN info[p] = <<>> ELSE Len(info[p]) = Len(Streams(p))
  /\ at[Parent] \in {"begin", "returned"} => info[Parent] = <<>>
  /\ at[Parent] = "begin" => current = 1 /\ pipes < NumChildren
  /\ at[Parent] \in {"streams", "close"} => NumChildren <= pipes + 1
  /\ at[Parent] = "close" => info[Parent] = info[current] /\ at[current] # "none"
  /\ \A p \in Children :
       p > current \/ (p = current /\ at[Parent] \in {"begin", "streams"}) => at[p] = "none"
  /\ \A p \in Children : done[p] <= 2 * Len(info[p])

\* No two stream_infos, of one child or of two, have one pipe.
Numbered ==
  /\ \A p, q \in Children : \A k \in Captured(p), l \in Captured(q) :
       info[p][k].pipe = info[q][l].pipe => p = q /\ k = l
  /\ \A k, l \in Captured(Parent) : info[Parent][k].pipe = info[Parent][l].pipe => k = l
  /\ at[Parent] = "streams" =>
       \A q \in Children : \A k \in Captured(Parent), l \in Captured(q) :
         info[Parent][k].pipe # info[q][l].pipe

\* The end of si's pipe that is not the child's.
OtherEnd(si) == PipeEnd(IF si.out THEN "read" ELSE "write", si.pipe)
ChildEnd(si) == PipeEnd(IF si.out THEN "write" ELSE "read", si.pipe)

\* The end e of the k-th pipe is open in the parent.
DueToPipeline(e, k) ==
  \/ at[Parent] = "begin" /\ k \in 1..pipes
  \/ /\ at[Parent] \in {"streams", "close"} /\ k \in 1..NumChildren - 1
     /\ k >= IF e = "read" THEN current - 1 ELSE current
\* It belongs to a stream_info that is not yet the child's.
DueToInfo(k) == \E i \in Captured(Parent) : info[Parent][i].pipe = k
\* It is one of those that are returned.
DueToReturn(e, k) ==
  \E p \in Children : \E i \in DOMAIN info[p] :
    Returned(p, info[p][i]) /\ OtherEnd(info[p][i]) = PipeEnd(e, k)
Due(e, k) == DueToPipeline(e, k) \/ DueToInfo(k) \/ DueToReturn(e, k)

IsIn(table, x) == \E d \in Desc : table[d] = x

\* In the parent's table all that was open still is, and the rest leads to
\* ends of the first n pipes, each of which is there once.
Holds(table, n) ==
  /\ \A d \in job.open : table[d] = Own(d)
  /\ \A d \in Beyond : table[d] = Free \/ \E e \in EndNames, k \in 1..n : table[d] = PipeEnd(e, k)
  /\ \A d, d2 \in Desc : table[d] = table[d2] /\ table[d] # Free => d = d2

\* The parent has an end of a pipe open just when there is a reason to: none is
\* left behind and none is missing.
EndsInv ==
  /\ Holds(fds[Parent], pipes)
  /\ \A e \in EndNames, k \in 1..pipes : IsIn(fds[Parent], PipeEnd(e, k)) <=> Due(e, k)

\* The handles in si lead to where they shall in a table.
Leads(table, si) ==
  /\ si.type = "handle" => table[si.handle] = ChildEnd(si)
  /\ si.type = "pipe" => /\ table[si.rend] = PipeEnd("read", si.pipe)
                         /\ table[si.wend] = PipeEnd("write", si.pipe)

\* The parent's table, unless it was closed as an exception left.
ParentInv ==
  IF at[Parent] = "thrown"
    THEN fds[Parent] = Table(job.open)
    ELSE EndsInv /\ \A k \in DOMAIN info[Parent] : Leads(fds[Parent], info[Parent][k])

\* The i-th stream of p leads to where it is asked to.
Final(p, i) ==
  LET si == info[p][i]
  IN fds[p][si.d] = IF si.type = "redirect" THEN MeantAt(p, si.to) ELSE Meant(si)

\* The i-th stream of p was set up: the redirected ones are set up in the
\* second round.
IsSetUp(p, i) ==
  IF info[p][i].type = "redirect" THEN Len(info[p]) + i <= done[p] ELSE i <= done[p]

\* While the streams are set up, one after the other, the parent's descriptors
\* that are not named and those of the streams to come are untouched.
SettingUp(p) ==
  /\ \A d \in job.open \ Named(p) : fds[p][d] = Own(d)
  /\ \A i \in DOMAIN info[p] :
       IF IsSetUp(p, i) THEN Final(p, i) ELSE fds[p][info[p][i].d] = Own(info[p][i].d)
  /\ \A i \in DOMAIN info[p] : i > done[p] => Leads(fds[p], info[p][i])

\* All of them are set up, and nothing else is open.
AllSetUp(p) ==
  /\ \A i \in DOMAIN info[p] : Final(p, i)
  /\ \A d \in Desc \ Named(p) : fds[p][d] = Free

\* The children, if the descriptors that are named were open in the parent.
ChildrenInv ==
  NamedOpen =>
    \A p \in Children :
      /\ at[p] = "setup" => SettingUp(p)
      /\ at[p] \in {"exec", "running"} => AllSetUp(p)

\* The inductive invariant.
StartInv == StartTypes /\ InfosInv /\ Numbered /\ ParentInv /\ ChildrenInv

-----------------------------------------------------------------------------
(***************************************************************************)
(* Descriptors and tables.                                                 *)
(***************************************************************************)

\* A set of naturals has a least element.
LEMMA Least ==
  ASSUME NEW S \in SUBSET Nat, S # {}
  PROVE  \E m \in S : \A k \in S : m <= k
<1> DEFINE Below(n) == 0..n - 1
           T == {Below(n) : n \in S}
<1>1. T \subseteq FiniteSubsetsOf(Nat) /\ T # {}
  <2> SUFFICES ASSUME NEW n \in S PROVE Below(n) \in FiniteSubsetsOf(Nat)
    OBVIOUS
  <2>1. n - 1 \in Int /\ Below(n) \in SUBSET Nat
    OBVIOUS
  <2>2. IsFiniteSet(Below(n))
    BY <2>1, FS_Interval
  <2> QED
    BY <2>1, <2>2 DEF FiniteSubsetsOf
<1>2. PICK b \in T : \A c \in T : ~(<<c, b>> \in StrictSubsetOrdering(Nat))
  BY <1>1, WFMin, FS_StrictSubsetOrderingWellFounded
<1>3. PICK m \in S : b = Below(m)
  OBVIOUS
<1>4. ASSUME NEW k \in S, k < m PROVE FALSE
  <2>1. Below(k) \subseteq Below(m) /\ k \in Below(m) /\ k \notin Below(k)
    BY <1>4
  <2>2. Below(k) \in SUBSET Nat /\ Below(m) \in SUBSET Nat /\ Below(k) \in T
    OBVIOUS
  <2> HIDE DEF Below, T
  <2>3. <<Below(k), b>> \in StrictSubsetOrdering(Nat)
    BY <1>3, <2>1, <2>2 DEF StrictSubsetOrdering
  <2> QED
    BY <1>2, <2>2, <2>3
<1> QED
  BY <1>4

\* The least of the numbers in a set.
LEMMA Minimum ==
  ASSUME NEW S \in SUBSET Nat, S # {}
  PROVE  Min(S) \in S /\ \A k \in S : Min(S) <= k
BY Least DEF Min

\* Descriptors are numbers.
LEMMA DescIsNat == Desc \in SUBSET Nat
  BY MaxDescAssumption DEF Desc

\* A free descriptor is found as long as there is one, the lowest of them.
LEMMA LowestIsFree ==
  ASSUME NEW table, ~IsFull(table)
  PROVE  /\ Lowest(table) \in Desc /\ table[Lowest(table)] = Free
         /\ \A d \in Desc : table[d] = Free => Lowest(table) <= d
<1> DEFINE S == {d \in Desc : table[d] = Free}
<1>1. S \in SUBSET Nat /\ S # {}
  BY DescIsNat DEF IsFull, OpenDescs
<1> QED
  BY <1>1, Minimum DEF Lowest

\* What descriptors lead to is told apart by kind and number.
LEMMA Apart ==
  /\ \A d, d2 : Own(d) = Own(d2) => d = d2
  /\ \A d, e, k : Own(d) # Free /\ Own(d) # File /\ (e \in EndNames => Own(d) # PipeEnd(e, k))
  /\ \A e \in EndNames : \A k : PipeEnd(e, k) # Free /\ PipeEnd(e, k) # File
  /\ \A e, e2, k, k2 : PipeEnd(e, k) = PipeEnd(e2, k2) => e = e2 /\ k = k2
  /\ File # Free
  BY DEF Own, Free, File, PipeEnd, EndNames

\* What descriptors lead to.
LEMMA ThingsAre ==
  /\ Free \in Things /\ File \in Things /\ \A d \in Desc : Own(d) \in Things
  /\ \A e \in EndNames, k \in Nat : PipeEnd(e, k) \in Things
  BY DEF Things, PipeEnd

\* A table stays one when a descriptor is opened, closed or duplicated.
LEMMA TableKeeps ==
  ASSUME NEW table \in Tables, NEW what \in Things, NEW d
  PROVE  /\ [table EXCEPT ![d] = what] \in Tables
         /\ \A x \in Desc : [table EXCEPT ![d] = what][x] = IF x = d THEN what ELSE table[x]
  BY DEF Tables

\* Two descriptors are free if a pipe can be made, and are its ends then.
LEMMA PipeIsMade ==
  ASSUME NEW table \in Tables, NEW k \in Nat, CanPipe(table, k)
  PROVE  /\ PipeMade(table, k) \in Tables
         /\ \E r, w \in Desc :
              /\ r # w /\ table[r] = Free /\ table[w] = Free
              /\ \A x \in Desc : PipeMade(table, k)[x] = IF x = r THEN PipeEnd("read", k)
                                                         ELSE IF x = w THEN PipeEnd("write", k)
                                                         ELSE table[x]
<1> DEFINE r == Lowest(table)
           first == Opened(table, PipeEnd("read", k))
           w == Lowest(first)
<1>1. PipeEnd("read", k) \in Things /\ PipeEnd("write", k) \in Things
  BY ThingsAre DEF EndNames
<1>2. r \in Desc /\ table[r] = Free /\ w \in Desc /\ first[w] = Free
  BY LowestIsFree DEF CanPipe
<1>3. first \in Tables /\ \A x \in Desc : first[x] = IF x = r THEN PipeEnd("read", k) ELSE table[x]
  BY <1>1, TableKeeps DEF Opened
<1>4. PipeMade(table, k) = [first EXCEPT ![w] = PipeEnd("write", k)]
  BY DEF PipeMade, Opened
<1> HIDE DEF r, first, w
<1>5. /\ PipeMade(table, k) \in Tables
      /\ \A x \in Desc : PipeMade(table, k)[x] = IF x = w THEN PipeEnd("write", k) ELSE first[x]
  <2>1. \A what \in Things : /\ [first EXCEPT ![w] = what] \in Tables
                             /\ \A x \in Desc : [first EXCEPT ![w] = what][x]
                                                  = IF x = w THEN what ELSE first[x]
    BY <1>3, TableKeeps
  <2> QED
    BY <1>1, <1>4, <2>1
<1>6. r # w /\ table[w] = Free
  BY <1>2, <1>3, Apart DEF EndNames
<1> QED
  BY <1>2, <1>3, <1>5, <1>6

\* The handle of what is somewhere in a table leads to it.
LEMMA HandleLeads ==
  ASSUME NEW table, NEW what, IsIn(table, what)
  PROVE  HandleOf(table, what) \in Desc /\ table[HandleOf(table, what)] = what
  BY DEF IsIn, HandleOf

-----------------------------------------------------------------------------
(***************************************************************************)
(* The streams of a child.                                                 *)
(***************************************************************************)

\* The elements of a sequence, and a sequence of one.
LEMMA Elements ==
  ASSUME NEW S, NEW seq \in Seq(S)
  PROVE  Len(seq) \in Nat /\ DOMAIN seq = 1..Len(seq) /\ \A k \in 1..Len(seq) : seq[k] \in S
  OBVIOUS

\* A sequence of one.
LEMMA One ==
  ASSUME NEW S, NEW x \in S
  PROVE  <<x>> \in Seq(S) /\ Len(<<x>>) = 1 /\ <<x>>[1] = x
  OBVIOUS

\* A concatenation, by its elements.
LEMMA Concatenated ==
  ASSUME NEW S, NEW a \in Seq(S), NEW b \in Seq(S)
  PROVE  /\ a \o b \in Seq(S) /\ Len(a \o b) = Len(a) + Len(b)
         /\ \A k \in 1..Len(a) + Len(b) : (a \o b)[k] = IF k <= Len(a) THEN a[k] ELSE b[k - Len(a)]
  OBVIOUS

\* A sequence of streams has the elements of four, all those of a and c.
Consists(abcd, a, b, c, d) ==
  /\ abcd \in Seq(StreamSet)
  /\ \A k \in 1..Len(abcd) :
       \/ \E l \in 1..Len(a) : abcd[k] = a[l]
       \/ \E l \in 1..Len(b) : abcd[k] = b[l]
       \/ \E l \in 1..Len(c) : abcd[k] = c[l]
       \/ \E l \in 1..Len(d) : abcd[k] = d[l]
  /\ \A l \in 1..Len(a) : \E k \in 1..Len(abcd) : abcd[k] = a[l]
  /\ \A l \in 1..Len(c) : \E k \in 1..Len(abcd) : abcd[k] = c[l]

\* The four parts of a child's streams, by their elements.
LEMMA FourParts ==
  ASSUME NEW a \in Seq(StreamSet), NEW b \in Seq(StreamSet), NEW c \in Seq(StreamSet),
         NEW d \in Seq(StreamSet)
  PROVE  Consists(a \o b \o c \o d, a, b, c, d)
<1> DEFINE ab == a \o b
           abc == ab \o c
           abcd == abc \o d
<1>1. /\ ab \in Seq(StreamSet) /\ Len(ab) = Len(a) + Len(b)
      /\ \A k \in 1..Len(ab) : ab[k] = IF k <= Len(a) THEN a[k] ELSE b[k - Len(a)]
  BY Concatenated
<1> HIDE DEF ab
<1>2. /\ abc \in Seq(StreamSet) /\ Len(abc) = Len(ab) + Len(c)
      /\ \A k \in 1..Len(abc) : abc[k] = IF k <= Len(ab) THEN ab[k] ELSE c[k - Len(ab)]
  <2>1. ab \in Seq(StreamSet)
    BY <1>1
  <2>2. /\ abc \in Seq(StreamSet) /\ Len(abc) = Len(ab) + Len(c)
        /\ \A k \in 1..Len(ab) + Len(c) : abc[k] = IF k <= Len(ab) THEN ab[k] ELSE c[k - Len(ab)]
    BY <2>1, Concatenated
  <2> QED
    BY <2>2
<1> HIDE DEF abc
<1>3. /\ abcd \in Seq(StreamSet) /\ Len(abcd) = Len(abc) + Len(d)
      /\ \A k \in 1..Len(abcd) : abcd[k] = IF k <= Len(abc) THEN abc[k] ELSE d[k - Len(abc)]
  <2>1. abc \in Seq(StreamSet)
    BY <1>2
  <2>2. /\ abcd \in Seq(StreamSet) /\ Len(abcd) = Len(abc) + Len(d)
        /\ \A k \in 1..Len(abc) + Len(d) : abcd[k] = IF k <= Len(abc) THEN abc[k] ELSE d[k - Len(abc)]
    BY <2>1, Concatenated
  <2> QED
    BY <2>2
<1> HIDE DEF abcd
<1>4. Len(a) \in Nat /\ Len(b) \in Nat /\ Len(c) \in Nat /\ Len(d) \in Nat
  OBVIOUS
<1>5. ASSUME NEW k \in 1..Len(abcd)
      PROVE  \/ \E l \in 1..Len(a) : abcd[k] = a[l]
             \/ \E l \in 1..Len(b) : abcd[k] = b[l]
             \/ \E l \in 1..Len(c) : abcd[k] = c[l]
             \/ \E l \in 1..Len(d) : abcd[k] = d[l]
  <2>1. CASE k <= Len(a)
    <3>1. k \in 1..Len(a) /\ abcd[k] = a[k]
      BY <1>1, <1>2, <1>3, <1>4, <2>1
    <3> QED
      BY <3>1
  <2>2. CASE k > Len(a) /\ k <= Len(ab)
    <3>1. k - Len(a) \in 1..Len(b) /\ abcd[k] = b[k - Len(a)]
      BY <1>1, <1>2, <1>3, <1>4, <2>2
    <3> QED
      BY <3>1
  <2>3. CASE k > Len(ab) /\ k <= Len(abc)
    <3>1. k - Len(ab) \in 1..Len(c) /\ abcd[k] = c[k - Len(ab)]
      BY <1>1, <1>2, <1>3, <1>4, <2>3
    <3> QED
      BY <3>1
  <2>4. CASE k > Len(abc)
    <3>1. k - Len(abc) \in 1..Len(d) /\ abcd[k] = d[k - Len(abc)]
      BY <1>1, <1>2, <1>3, <1>4, <2>4
    <3> QED
      BY <3>1
  <2>5. k \in Nat /\ Len(a) \in Nat /\ Len(ab) \in Nat /\ Len(abc) \in Nat
    BY <1>1, <1>2, <1>3, <1>4
  <2>6. k <= Len(a) \/ (k > Len(a) /\ k <= Len(ab)) \/ (k > Len(ab) /\ k <= Len(abc)) \/ k > Len(abc)
    BY <2>5
  <2> QED
    BY <2>1, <2>2, <2>3, <2>4, <2>6
<1>6. ASSUME NEW l \in 1..Len(a) PROVE \E k \in 1..Len(abcd) : abcd[k] = a[l]
  <2>1. l \in 1..Len(ab) /\ ab[l] = a[l]
    BY <1>1, <1>4
  <2>2. l \in 1..Len(abc) /\ abc[l] = ab[l]
    BY <1>1, <1>2, <1>4, <2>1
  <2>3. l \in 1..Len(abcd) /\ abcd[l] = abc[l]
    BY <1>1, <1>2, <1>3, <1>4, <2>2
  <2> QED
    BY <2>1, <2>2, <2>3
<1>7. ASSUME NEW l \in 1..Len(c) PROVE \E k \in 1..Len(abcd) : abcd[k] = c[l]
  <2>1. Len(ab) \in Nat /\ l \in Nat /\ l >= 1 /\ l <= Len(c)
    BY <1>1, <1>4
  <2> DEFINE k == Len(ab) + l
  <2>2. k \in 1..Len(abc) /\ ~(k <= Len(ab)) /\ k - Len(ab) = l
    BY <1>2, <1>4, <2>1
  <2>3. abc[k] = c[l]
    <3> HIDE DEF k
    <3> QED
      BY <1>2, <2>2
  <2>4. Len(ab) + l \in 1..Len(abcd) /\ abcd[Len(ab) + l] = abc[Len(ab) + l]
    BY <1>2, <1>3, <1>4, <2>1
  <2> QED
    BY <2>2, <2>3, <2>4
<1>8. Consists(abcd, a, b, c, d)
  <2> HIDE DEF abcd
  <2> QED
    BY <1>3, <1>5, <1>6, <1>7 DEF Consists
<1> QED
  BY <1>8 DEF ab, abc, abcd

\* There is a child.
LEMMA NumChildrenIs ==
  ASSUME job \in Jobs
  PROVE  /\ NumChildren \in Nat \ {0}
         /\ \A i \in Children : /\ job.children[i].ins \in Seq(InStreams)
                                /\ job.children[i].outs \in Seq(OutStreams)
         /\ job.open \subseteq Desc
<1> DEFINE Contexts == [ins : Seq(InStreams), outs : Seq(OutStreams)]
<1>1. job.children \in Seq(Contexts) /\ job.children # <<>> /\ job.open \subseteq Desc
  BY JobsAssumption
<1>2. \A context \in Contexts : context.ins \in Seq(InStreams) /\ context.outs \in Seq(OutStreams)
  OBVIOUS
<1> HIDE DEF Contexts
<1>3. \A i \in Children : job.children[i] \in Contexts
  BY <1>1, Elements DEF Children, NumChildren
<1>4. NumChildren \in Nat \ {0}
  BY <1>1 DEF NumChildren
<1> QED
  BY <1>1, <1>2, <1>3, <1>4

\* A child has each descriptor once; with a pipeline, its input is the pipe
\* before it and its output the pipe after it.
LEMMA StreamsAre ==
  ASSUME job \in Jobs, NEW i \in Children
  PROVE  /\ Streams(i) \in Seq(StreamSet)
         /\ \A k, l \in 1..Len(Streams(i)) : Streams(i)[k].d = Streams(i)[l].d => k = l
         /\ \A k \in 1..Len(Streams(i)) :
              LET s == Streams(i)[k]
              IN /\ s.behavior = "pipein" => i > 1 /\ ~s.out /\ s.d = 0 /\ s.to = i - 1
                 /\ s.behavior = "pipeout" => i < NumChildren /\ s.out /\ s.d = 1 /\ s.to = i
                 /\ s.behavior = "redirect" => s.out /\ s.to \in Desc
         /\ i > 1 => \E k \in 1..Len(Streams(i)) : Streams(i)[k].behavior = "pipein"
         /\ i < NumChildren => \E k \in 1..Len(Streams(i)) : Streams(i)[k].behavior = "pipeout"
<1> DEFINE pre == PipeIn(i)
           ins == job.children[i].ins
           mid == PipeOut(i, NumChildren)
           outs == job.children[i].outs
           Good(s) == /\ s \in StreamSet
                      /\ s.behavior = "pipein" => i > 1 /\ ~s.out /\ s.d = 0 /\ s.to = i - 1
                      /\ s.behavior = "pipeout" => i < NumChildren /\ s.out /\ s.d = 1 /\ s.to = i
                      /\ s.behavior = "redirect" => s.out /\ s.to \in Desc
<1>1. i \in Nat \ {0} /\ NumChildren \in Nat
  BY NumChildrenIs DEF Children
<1>2. Streams(i) = pre \o ins \o mid \o outs
  BY DEF Streams, StreamsOf, NumChildren
<1>3. /\ pre \in Seq(StreamSet) /\ (\A l \in 1..Len(pre) : Good(pre[l]))
      /\ i > 1 => 1 \in 1..Len(pre) /\ pre[1].behavior = "pipein"
  <2> DEFINE s == Stream(FALSE, 0, "pipein", i - 1)
  <2>1. CASE i > 1
    <3>1. Good(s) /\ s.behavior = "pipein"
      BY <1>1, <2>1 DEF Stream, StreamSet, StreamBehaviors
    <3>2. pre = <<s>>
      BY <2>1 DEF PipeIn
    <3> HIDE DEF s, Good, pre
    <3>3. s \in StreamSet
      BY <3>1 DEF Good
    <3>4. pre \in Seq(StreamSet) /\ Len(pre) = 1 /\ pre[1] = s
      BY <3>2, <3>3, One
    <3> QED
      BY <3>1, <3>4
  <2>2. CASE ~(i > 1)
    BY <2>2 DEF PipeIn
  <2> QED
    BY <2>1, <2>2
<1>4. /\ mid \in Seq(StreamSet) /\ (\A l \in 1..Len(mid) : Good(mid[l]))
      /\ i < NumChildren => 1 \in 1..Len(mid) /\ mid[1].behavior = "pipeout"
  <2> DEFINE s == Stream(TRUE, 1, "pipeout", i)
  <2>1. CASE i < NumChildren
    <3>1. Good(s) /\ s.behavior = "pipeout"
      BY <1>1, <2>1 DEF Stream, StreamSet, StreamBehaviors
    <3>2. mid = <<s>>
      BY <2>1 DEF PipeOut
    <3> HIDE DEF s, Good, mid
    <3>3. s \in StreamSet
      BY <3>1 DEF Good
    <3>4. mid \in Seq(StreamSet) /\ Len(mid) = 1 /\ mid[1] = s
      BY <3>2, <3>3, One
    <3> QED
      BY <3>1, <3>4
  <2>2. CASE ~(i < NumChildren)
    BY <2>2 DEF PipeOut
  <2> QED
    BY <2>1, <2>2
<1>5. ins \in Seq(StreamSet) /\ \A l \in 1..Len(ins) : Good(ins[l])
  <2>1. InStreams \subseteq StreamSet /\ \A s \in InStreams : Good(s)
    BY DescIsNat DEF InStreams, StreamSet, StreamBehaviors
  <2>2. ins \in Seq(InStreams)
    BY NumChildrenIs
  <2> HIDE DEF Good, ins
  <2> QED
    BY <2>1, <2>2
<1>6. outs \in Seq(StreamSet) /\ \A l \in 1..Len(outs) : Good(outs[l])
  <2>1. OutStreams \subseteq StreamSet /\ \A s \in OutStreams : Good(s)
    BY DescIsNat DEF OutStreams, StreamSet, StreamBehaviors
  <2>2. outs \in Seq(OutStreams)
    BY NumChildrenIs
  <2> HIDE DEF Good, outs
  <2> QED
    BY <2>1, <2>2
<1>7. \A k, l \in 1..Len(Streams(i)) : Streams(i)[k].d = Streams(i)[l].d => k = l
  BY JobsAssumption DEF Streams, Children, NumChildren
<1> HIDE DEF pre, ins, mid, outs
<1>8. /\ Streams(i) \in Seq(StreamSet)
      /\ \A k \in 1..Len(Streams(i)) :
              \/ \E l \in 1..Len(pre) : Streams(i)[k] = pre[l]
              \/ \E l \in 1..Len(ins) : Streams(i)[k] = ins[l]
              \/ \E l \in 1..Len(mid) : Streams(i)[k] = mid[l]
              \/ \E l \in 1..Len(outs) : Streams(i)[k] = outs[l]
      /\ \A l \in 1..Len(pre) : \E k \in 1..Len(Streams(i)) : Streams(i)[k] = pre[l]
      /\ \A l \in 1..Len(mid) : \E k \in 1..Len(Streams(i)) : Streams(i)[k] = mid[l]
  <2>1. pre \in Seq(StreamSet) /\ ins \in Seq(StreamSet) /\ mid \in Seq(StreamSet) /\ outs \in Seq(StreamSet)
    BY <1>3, <1>4, <1>5, <1>6
  <2>2. Consists(pre \o ins \o mid \o outs, pre, ins, mid, outs)
    BY <2>1, FourParts
  <2>3. Consists(Streams(i), pre, ins, mid, outs)
    BY <1>2, <2>2
  <2> QED
    BY <2>3 DEF Consists
<1>9. \A k \in 1..Len(Streams(i)) : Good(Streams(i)[k])
  <2> HIDE DEF Good
  <2> QED
    BY <1>3, <1>4, <1>5, <1>6, <1>8
<1>10. /\ i > 1 => \E k \in 1..Len(Streams(i)) : Streams(i)[k].behavior = "pipein"
       /\ i < NumChildren => \E k \in 1..Len(Streams(i)) : Streams(i)[k].behavior = "pipeout"
  BY <1>3, <1>4, <1>8
<1> QED
  BY <1>7, <1>8, <1>9, <1>10

-----------------------------------------------------------------------------
(***************************************************************************)
(* What does not change.                                                   *)
(***************************************************************************)

\* What is a matter of the job alone stays as it is.
LEMMA JobStays ==
  ASSUME job' = job
  PROVE  /\ NumChildren' = NumChildren /\ Children' = Children /\ Processes' = Processes
         /\ Beyond' = Beyond /\ NamedOpen' = NamedOpen
         /\ \A i : Streams(i)' = Streams(i)
BY DEF NumChildren, Children, Processes, Beyond, NamedOpen, Streams, StreamsOf

\* Another pipe leaves what a stream_info was made for.
LEMMA MadeForStays ==
  ASSUME job \in Jobs, job' = job, pipes \in Nat, pipes' \in Nat, pipes <= pipes',
         NEW si, NEW s, MadeFor(si, s)
  PROVE  MadeFor(si, s)'
<1>1. NumChildren \in Nat /\ NumChildren' = NumChildren /\ Beyond' = Beyond
  BY NumChildrenIs, JobStays
<1>2. (NumChildren..pipes) \subseteq NumChildren..pipes'
  BY <1>1
<1> QED
  BY <1>1, <1>2 DEF MadeFor

\* What was asked of a child holds as long as nothing of it changes.
LEMMA ChildStays ==
  ASSUME job' = job, NEW p, fds'[p] = fds[p], info'[p] = info[p], done'[p] = done[p]
  PROVE  SettingUp(p)' = SettingUp(p) /\ AllSetUp(p)' = AllSetUp(p)
<1>1. Named(p)' = Named(p)
  BY DEF Named
<1>2. \A d : MeantAt(p, d)' = MeantAt(p, d)
  BY DEF MeantAt, Meant, Before
<1>3. \A i : Final(p, i)' = Final(p, i)
  BY <1>2 DEF Final, Meant, Before
<1>4. \A i : IsSetUp(p, i)' = IsSetUp(p, i)
  BY DEF IsSetUp
<1>5. \A i : Leads(fds[p], info[p][i])' = Leads(fds[p], info[p][i])
  BY DEF Leads, ChildEnd
<1> QED
  BY <1>1, <1>3, <1>4, <1>5 DEF SettingUp, AllSetUp

\* The parent's ends are due for the same reasons as long as nothing of it
\* changes, nor the children's stream_infos.
LEMMA ParentStays ==
  ASSUME UNCHANGED <<job, pipes, info, current>>, fds'[Parent] = fds[Parent],
         at'[Parent] = at[Parent]
  PROVE  ParentInv' = ParentInv /\ Numbered' = Numbered
<1>1. \A p : Captured(p)' = Captured(p)
  BY DEF Captured
<1>2. NumChildren' = NumChildren /\ Children' = Children /\ Beyond' = Beyond
  BY JobStays
<1>3. \A e, k : Due(e, k)' = Due(e, k)
  <2>1. \A e, k : DueToPipeline(e, k)' = DueToPipeline(e, k)
    BY <1>2 DEF DueToPipeline
  <2>2. \A k : DueToInfo(k)' = DueToInfo(k)
    BY <1>1 DEF DueToInfo
  <2>3. \A e, k : DueToReturn(e, k)' = DueToReturn(e, k)
    BY <1>2 DEF DueToReturn, Returned, OtherEnd
  <2> QED
    BY <2>1, <2>2, <2>3 DEF Due
<1>4. Holds(fds[Parent], pipes)' = Holds(fds[Parent], pipes)
  BY <1>2 DEF Holds
<1>5. EndsInv' = EndsInv
  BY <1>3, <1>4 DEF EndsInv
<1>6. \A k : Leads(fds[Parent], info[Parent][k])' = Leads(fds[Parent], info[Parent][k])
  BY DEF Leads, ChildEnd
<1>7. ParentInv' = ParentInv
  BY <1>5, <1>6 DEF ParentInv
<1>8. Numbered' = Numbered
  BY <1>1, <1>2 DEF Numbered
<1> QED
  BY <1>7, <1>8

\* The processes are the parent and its children.
LEMMA ProcessesAre ==
  ASSUME job \in Jobs
  PROVE  /\ NumChildren \in Nat \ {0} /\ Parent \in Processes /\ Parent \notin Children
         /\ \A p : p \in Processes <=> p = Parent \/ p \in Children
         /\ \A p \in Children : p \in Nat /\ p >= 1 /\ p <= NumChildren
BY NumChildrenIs DEF Parent, Processes, Children

\* A step of one child keeps the invariant if what was asked of it holds.
LEMMA ChildStep ==
  ASSUME StartInv, UNCHANGED <<job, pipes, info, current>>,
         NEW p \in Children, at[p] # "none",
         NEW t \in Tables, fds' = [fds EXCEPT ![p] = t],
         NEW s \in ChildSteps \ {"none"}, at' = [at EXCEPT ![p] = s],
         NEW n \in Nat, n <= 2 * Len(info[p]), done' = [done EXCEPT ![p] = n],
         NamedOpen => /\ s = "setup" => SettingUp(p)'
                      /\ s \in {"exec", "running"} => AllSetUp(p)'
  PROVE  StartInv'
<1>1. job \in Jobs /\ StartTypes
  BY DEF StartInv, StartTypes
<1>2. /\ NumChildren' = NumChildren /\ Children' = Children /\ Processes' = Processes
      /\ Beyond' = Beyond /\ NamedOpen' = NamedOpen
  BY JobStays
<1>3. \A q : Streams(q)' = Streams(q) /\ Whose(q)' = Whose(q)
  BY JobStays DEF Whose
<1>4. p \in Processes /\ p # Parent /\ Parent \in Processes
  BY <1>1, ProcessesAre
<1>5. /\ fds'[p] = t /\ at'[p] = s /\ done'[p] = n
      /\ \A q \in Processes \ {p} : fds'[q] = fds[q] /\ at'[q] = at[q] /\ done'[q] = done[q]
  BY <1>1, <1>4 DEF StartTypes
<1>6. StartTypes'
  <2>1. /\ fds' \in [Processes -> Tables] /\ done' \in [Processes -> Nat]
        /\ at' \in [Processes -> ParentSteps \cup ChildSteps]
    BY <1>1, <1>4 DEF StartTypes
  <2>2. at'[Parent] \in ParentSteps /\ \A q \in Children : at'[q] \in ChildSteps
    BY <1>1, <1>4, <1>5, ProcessesAre DEF StartTypes
  <2> QED
    BY <1>1, <1>2, <2>1, <2>2 DEF StartTypes, Tables, Things
<1>7. InfosInv'
  <2>1. InfosInv
    BY DEF StartInv
  <2>2. \A si, z : MadeFor(si, z)' = MadeFor(si, z)
    BY <1>2 DEF MadeFor
  <2>3. \A q \in Children : at'[q] = "none" <=> at[q] = "none"
    BY <1>1, <1>4, <1>5, ProcessesAre
  <2>4. at'[Parent] = at[Parent]
    BY <1>4, <1>5
  <2>6. \A q \in Children : done'[q] <= 2 * Len(info'[q])
    BY <1>1, <1>4, <1>5, <2>1, ProcessesAre DEF InfosInv
  <2>7. \A q : Streams(Whose(q))' = Streams(Whose(q))
    BY <1>3
  <2> QED
    BY <1>2, <1>3, <2>1, <2>2, <2>3, <2>4, <2>6, <2>7 DEF InfosInv
<1>8. Numbered' /\ ParentInv'
  BY <1>4, <1>5, ParentStays DEF StartInv
<1>9. ChildrenInv'
  <2>1. ASSUME NEW q \in Children, q # p, NamedOpen
        PROVE  /\ at'[q] = "setup" => SettingUp(q)'
               /\ at'[q] \in {"exec", "running"} => AllSetUp(q)'
    <3>1. fds'[q] = fds[q] /\ done'[q] = done[q] /\ at'[q] = at[q]
      BY <1>1, <1>5, <2>1, ProcessesAre
    <3>2. SettingUp(q)' = SettingUp(q) /\ AllSetUp(q)' = AllSetUp(q)
      BY <3>1, ChildStays
    <3> QED
      BY <2>1, <3>1, <3>2 DEF StartInv, ChildrenInv
  <2> QED
    BY <1>2, <1>5, <2>1 DEF ChildrenInv
<1> QED
  BY <1>6, <1>7, <1>8, <1>9 DEF StartInv

\* A step of the parent leaves the children what was asked of them.
LEMMA ChildrenStay ==
  ASSUME ChildrenInv, job' = job,
         \A p \in Children : /\ fds'[p] = fds[p] /\ info'[p] = info[p]
                             /\ done'[p] = done[p] /\ at'[p] = at[p]
  PROVE  ChildrenInv'
<1>1. Children' = Children /\ NamedOpen' = NamedOpen
  BY JobStays
<1>2. ASSUME NEW p \in Children, NamedOpen
      PROVE  /\ at'[p] = "setup" => SettingUp(p)'
             /\ at'[p] \in {"exec", "running"} => AllSetUp(p)'
  <2>1. SettingUp(p)' = SettingUp(p) /\ AllSetUp(p)' = AllSetUp(p) /\ at'[p] = at[p]
    BY ChildStays
  <2> QED
    BY <1>2, <2>1 DEF ChildrenInv
<1> QED
  BY <1>1, <1>2 DEF ChildrenInv

-----------------------------------------------------------------------------
(***************************************************************************)
(* The parent's steps.                                                     *)
(***************************************************************************)

\* The parent has what it had at first, and no ends of pipes.
LEMMA TableHolds ==
  ASSUME job \in Jobs
  PROVE  Table(job.open) \in Tables /\ Holds(Table(job.open), 0)
<1>1. job.open \subseteq Desc
  BY NumChildrenIs
<1>2. \A d \in Desc : Table(job.open)[d] = IF d \in job.open THEN Own(d) ELSE Free
  BY DEF Table
<1>3. Table(job.open) \in Tables
  BY ThingsAre DEF Table, Tables
<1> QED
  BY <1>1, <1>2, <1>3, Apart DEF Holds, Beyond

\* A pipe more, at two descriptors that were free.
LEMMA PipeAdded ==
  ASSUME job \in Jobs, NEW table \in Tables, NEW n \in Nat, Holds(table, n), CanPipe(table, n + 1),
         NEW made, made = PipeMade(table, n + 1)
  PROVE  /\ made \in Tables /\ Holds(made, n + 1)
         /\ \A d \in Desc : table[d] # Free => made[d] = table[d]
         /\ \A e \in EndNames, k \in 1..n : IsIn(made, PipeEnd(e, k)) <=> IsIn(table, PipeEnd(e, k))
         /\ \A e \in EndNames : IsIn(made, PipeEnd(e, n + 1))
<1>1. n + 1 \in Nat /\ (\A k \in 1..n : k # n + 1 /\ k \in 1..n + 1) /\ n + 1 \in 1..n + 1
  OBVIOUS
<1> DEFINE n1 == n + 1
<1>2. PICK r, w \in Desc :
        /\ made \in Tables
        /\ r # w /\ table[r] = Free /\ table[w] = Free
        /\ \A x \in Desc : made[x] = IF x = r THEN PipeEnd("read", n1)
                                     ELSE IF x = w THEN PipeEnd("write", n1) ELSE table[x]
  BY <1>1, PipeIsMade
<1>3. n1 \in 1..n1 /\ \A k \in 1..n : k # n1 /\ k \in 1..n1
  BY <1>1
<1>4. job.open \subseteq Desc
  BY NumChildrenIs
<1> HIDE DEF n1
<1>5. \A e \in EndNames : \A d \in Desc : table[d] # PipeEnd(e, n1)
  BY <1>3, <1>4, Apart DEF Holds, Beyond
<1>6. \A d \in job.open : made[d] = Own(d)
  BY <1>2, <1>4, Apart DEF Holds
<1>7. \A d \in Beyond : made[d] = Free \/ \E e \in EndNames, k \in 1..n1 : made[d] = PipeEnd(e, k)
  <2> SUFFICES ASSUME NEW d \in Beyond, made[d] # Free
               PROVE  \E e \in EndNames, k \in 1..n1 : made[d] = PipeEnd(e, k)
    OBVIOUS
  <2>1. d \in Desc
    BY DEF Beyond
  <2>2. CASE d = r \/ d = w
    BY <1>2, <1>3, <2>1, <2>2 DEF EndNames
  <2>3. CASE d # r /\ d # w
    <3>1. made[d] = table[d]
      BY <1>2, <2>1, <2>3
    <3> QED
      BY <1>3, <3>1 DEF Holds
  <2> QED
    BY <2>2, <2>3
<1>8. \A d, d2 \in Desc : made[d] = made[d2] /\ made[d] # Free => d = d2
  <2> SUFFICES ASSUME NEW d \in Desc, NEW d2 \in Desc, made[d] = made[d2], made[d] # Free
               PROVE  d = d2
    OBVIOUS
  <2>1. "read" \in EndNames /\ "write" \in EndNames /\ "read" # "write"
    BY DEF EndNames
  <2>2. PipeEnd("read", n1) # PipeEnd("write", n1)
    BY <2>1, Apart
  <2> QED
    BY <1>2, <1>5, <2>1, <2>2 DEF Holds
<1>9. \A d \in Desc : table[d] # Free => made[d] = table[d]
  BY <1>2
<1>10. \A e \in EndNames, k \in 1..n : IsIn(made, PipeEnd(e, k)) <=> IsIn(table, PipeEnd(e, k))
  <2> SUFFICES ASSUME NEW e \in EndNames, NEW k \in 1..n
               PROVE  IsIn(made, PipeEnd(e, k)) <=> IsIn(table, PipeEnd(e, k))
    OBVIOUS
  <2>1. PipeEnd(e, k) # PipeEnd("read", n1) /\ PipeEnd(e, k) # PipeEnd("write", n1)
    BY <1>3, Apart DEF EndNames
  <2>2. PipeEnd(e, k) # Free
    BY Apart
  <2> QED
    BY <1>2, <2>1, <2>2 DEF IsIn
<1>11. \A e \in EndNames : IsIn(made, PipeEnd(e, n1))
  BY <1>2 DEF IsIn, EndNames
<1> QED
  BY <1>2, <1>6, <1>7, <1>8, <1>9, <1>10, <1>11 DEF Holds, n1

\* The first state: nothing is open but what the job says.
LEMMA StartInitInv ==
  ASSUME StartInit
  PROVE  StartInv
<1>1. /\ job \in Jobs /\ NumChildren \in Nat \ {0}
      /\ pipes = 0 /\ current = 1 /\ current \in Children
  BY NumChildrenIs DEF StartInit, Children
<1>2. Table({}) \in Tables /\ Table(job.open) \in Tables /\ Holds(Table(job.open), 0)
  <2>1. Table({}) \in Tables
    BY ThingsAre DEF Table, Tables
  <2> QED
    BY <1>1, <2>1, TableHolds
<1>3. /\ Parent \in Processes /\ fds[Parent] = Table(job.open) /\ at[Parent] = "begin"
      /\ \A p \in Children : at[p] = "none"
      /\ \A p \in Processes : info[p] = <<>> /\ done[p] = 0
  BY <1>1, ProcessesAre DEF StartInit, Processes, Children
<1>4. StartTypes
  <2>1. fds \in [Processes -> Tables]
    BY <1>2 DEF StartInit, Processes
  <2>2. info \in [Processes -> Seq(InfoSet)] /\ done \in [Processes -> Nat]
    BY DEF StartInit, Processes
  <2>3. at \in [Processes -> ParentSteps \cup ChildSteps]
    BY DEF StartInit, Processes, ParentSteps, ChildSteps
  <2> QED
    BY <1>1, <1>3, <2>1, <2>2, <2>3 DEF StartTypes, ParentSteps, ChildSteps
<1>5. \A p \in Processes : Len(info[p]) = 0 /\ DOMAIN info[p] = {} /\ Captured(p) = {}
  BY <1>3 DEF Captured
<1>6. InfosInv
  <2>1. \A p \in Processes : Whose(p) \in Children
    BY <1>1, ProcessesAre DEF Whose
  <2>2. \A p \in Processes : Len(info[p]) <= Len(Streams(Whose(p)))
    BY <1>1, <1>5, <2>1, StreamsAre, Elements
  <2> QED
    BY <1>1, <1>3, <1>5, <2>2, ProcessesAre DEF InfosInv
<1>7. Numbered
  BY <1>1, <1>3, <1>5, ProcessesAre DEF Numbered
<1>8. ParentInv
  BY <1>1, <1>2, <1>3, <1>5 DEF ParentInv, EndsInv
<1>9. ChildrenInv
  BY <1>3 DEF ChildrenInv
<1> QED
  BY <1>4, <1>6, <1>7, <1>8, <1>9 DEF StartInv

\* A pipe of the pipeline is opened, or all of them are.
LEMMA BeginInv ==
  ASSUME StartInv, Begin
  PROVE  StartInv'
<1>1. /\ StartTypes /\ InfosInv /\ Numbered /\ ParentInv /\ ChildrenInv
      /\ job \in Jobs /\ job' = job /\ info' = info /\ done' = done /\ current' = current
      /\ at[Parent] = "begin"
  BY DEF StartInv, StartTypes, Begin
<1>2. /\ NumChildren' = NumChildren /\ Children' = Children /\ Processes' = Processes
      /\ Beyond' = Beyond
  BY <1>1, JobStays
<1>3. /\ NumChildren \in Nat \ {0} /\ Parent \in Processes /\ pipes \in Nat
      /\ fds[Parent] \in Tables /\ pipes < NumChildren /\ current = 1 /\ info[Parent] = <<>>
  BY <1>1, ProcessesAre DEF StartTypes, InfosInv
<1>4. /\ \A p : Streams(p)' = Streams(p) /\ Whose(p)' = Whose(p) /\ Captured(p)' = Captured(p)
      /\ \A p : Streams(Whose(p))' = Streams(Whose(p))
  BY <1>1, JobStays DEF Whose, Captured
<1>5. Captured(Parent) = {}
  BY <1>3 DEF Captured
<1>6. \A e, k : ~DueToReturn(e, k)
  <2>1. \A p \in Children : info[p] = <<>>
    BY <1>1, <1>3, ProcessesAre DEF InfosInv
  <2> QED
    BY <2>1 DEF DueToReturn
<1>7. CASE /\ pipes < NumChildren - 1 /\ CanPipe(fds[Parent], pipes + 1)
           /\ pipes' = pipes + 1
           /\ fds' = [fds EXCEPT ![Parent] = PipeMade(@, pipes + 1)]
           /\ at' = at
  <2>1. pipes' = pipes + 1 /\ pipes' \in Nat /\ pipes <= pipes'
    BY <1>3, <1>7
  <2>2. /\ fds'[Parent] = PipeMade(fds[Parent], pipes + 1)
        /\ \A p \in Processes \ {Parent} : fds'[p] = fds[p]
    BY <1>1, <1>3, <1>7 DEF StartTypes
  <2>3. Holds(fds[Parent], pipes)
    BY <1>1 DEF ParentInv, EndsInv
  <2>4. /\ fds'[Parent] \in Tables /\ Holds(fds'[Parent], pipes + 1)
        /\ \A e \in EndNames, k \in 1..pipes :
             IsIn(fds'[Parent], PipeEnd(e, k)) <=> IsIn(fds[Parent], PipeEnd(e, k))
        /\ \A e \in EndNames : IsIn(fds'[Parent], PipeEnd(e, pipes + 1))
    BY <1>1, <1>3, <1>7, <2>2, <2>3, PipeAdded
  <2>5. StartTypes'
    <3>1. fds' \in [Processes -> Tables]
      BY <1>1, <1>3, <1>7, <2>2, <2>4 DEF StartTypes
    <3> QED
      BY <1>1, <1>2, <1>7, <2>1, <3>1 DEF StartTypes, Tables, Things
  <2>6. InfosInv'
    <3>1. \A si, s : MadeFor(si, s) => MadeFor(si, s)'
      BY <1>1, <1>3, <2>1, MadeForStays
    <3>2. pipes' < NumChildren
      BY <1>3, <1>7
    <3> QED
      BY <1>1, <1>2, <1>3, <1>4, <1>7, <3>1, <3>2 DEF InfosInv
  <2>7. Numbered'
    BY <1>1, <1>2, <1>4, <1>7 DEF Numbered
  <2>8. ParentInv'
    <3>1. \A e, k : Due(e, k)' <=> k \in 1..pipes'
      <4>1. \A e, k : ~DueToReturn(e, k)' /\ ~DueToInfo(k)'
        BY <1>1, <1>2, <1>4, <1>5, <1>6 DEF DueToReturn, Returned, OtherEnd, DueToInfo
      <4>2. \A e, k : DueToPipeline(e, k)' <=> k \in 1..pipes'
        BY <1>1, <1>7 DEF DueToPipeline
      <4> QED
        BY <4>1, <4>2 DEF Due
    <3>2. \A e \in EndNames, k \in 1..pipes : IsIn(fds[Parent], PipeEnd(e, k))
      BY <1>1 DEF ParentInv, EndsInv, Due, DueToPipeline
    <3>3. \A k \in 1..pipes' : k \in 1..pipes \/ k = pipes + 1
      BY <1>3, <2>1
    <3>4. \A e \in EndNames, k \in 1..pipes' : IsIn(fds'[Parent], PipeEnd(e, k))
      BY <2>4, <3>2, <3>3
    <3>5. Holds(fds[Parent], pipes)'
      BY <1>1, <1>2, <2>1, <2>4 DEF Holds
    <3>6. EndsInv'
      BY <3>1, <3>4, <3>5 DEF EndsInv, IsIn, PipeEnd
    <3> QED
      BY <1>1, <1>3, <1>7, <3>6 DEF ParentInv
  <2>9. ChildrenInv'
    <3>1. \A p \in Children : fds'[p] = fds[p] /\ info'[p] = info[p] /\ done'[p] = done[p] /\ at'[p] = at[p]
      BY <1>1, <1>7, <2>2, ProcessesAre
    <3> QED
      BY <1>1, <3>1, ChildrenStay
  <2> QED
    BY <2>5, <2>6, <2>7, <2>8, <2>9 DEF StartInv
<1>8. CASE pipes = NumChildren - 1 /\ at' = [at EXCEPT ![Parent] = "streams"] /\ UNCHANGED <<fds, pipes>>
  <2>1. /\ at'[Parent] = "streams" /\ fds' = fds /\ pipes' = pipes
        /\ \A p \in Children : at'[p] = at[p]
    BY <1>1, <1>3, <1>8, ProcessesAre DEF StartTypes
  <2>2. StartTypes'
    <3>1. at' \in [Processes -> ParentSteps \cup ChildSteps]
      BY <1>1, <1>3, <1>8 DEF StartTypes, ParentSteps
    <3> QED
      BY <1>1, <1>2, <2>1, <3>1 DEF StartTypes, Tables, Things, ParentSteps
  <2>3. InfosInv'
    <3>1. \A si, s : MadeFor(si, s)' = MadeFor(si, s)
      BY <1>2, <2>1 DEF MadeFor
    <3>2. NumChildren <= pipes + 1
      BY <1>3, <1>8
    <3> QED
      BY <1>1, <1>2, <1>3, <1>4, <2>1, <3>1, <3>2 DEF InfosInv
  <2>4. Numbered'
    <3>1. Captured(Parent)' = {}
      BY <1>4, <1>5
    <3> QED
      BY <1>1, <1>2, <1>4, <2>1, <3>1 DEF Numbered
  <2>5. ParentInv'
    <3>1. \A e, k : k \in 1..pipes => (Due(e, k)' <=> Due(e, k))
      <4>1. \A e, k : ~DueToReturn(e, k)' /\ ~DueToInfo(k)'
        BY <1>1, <1>2, <1>4, <1>5, <1>6 DEF DueToReturn, Returned, OtherEnd, DueToInfo
      <4>2. \A k \in 1..pipes : k \in 1..NumChildren - 1 /\ k >= 1 /\ k >= 1 - 1
        BY <1>3, <1>8
      <4>3. \A e, k : k \in 1..pipes => DueToPipeline(e, k) /\ DueToPipeline(e, k)'
        BY <1>1, <1>2, <1>3, <2>1, <4>2 DEF DueToPipeline
      <4> QED
        BY <4>1, <4>3 DEF Due
    <3>2. Holds(fds[Parent], pipes)'
      BY <1>1, <1>2, <2>1 DEF ParentInv, EndsInv, Holds
    <3>3. EndsInv'
      BY <1>1, <2>1, <3>1, <3>2 DEF ParentInv, EndsInv, IsIn
    <3> QED
      BY <1>1, <1>3, <2>1, <3>3 DEF ParentInv
  <2>6. ChildrenInv'
    <3>1. \A p \in Children : fds'[p] = fds[p] /\ info'[p] = info[p] /\ done'[p] = done[p] /\ at'[p] = at[p]
      BY <1>1, <2>1
    <3> QED
      BY <1>1, <3>1, ChildrenStay
  <2> QED
    BY <2>2, <2>3, <2>4, <2>5, <2>6 DEF StartInv
<1> QED
  BY <1>7, <1>8 DEF Begin

\* An exception leaves the parent with the descriptors it had.
LEMMA ThrowInv ==
  ASSUME StartInv, Throw
  PROVE  StartInv'
<1>1. /\ StartTypes /\ InfosInv /\ Numbered /\ ParentInv /\ ChildrenInv
      /\ job \in Jobs /\ UNCHANGED <<job, pipes, done, current>>
      /\ at[Parent] \in {"begin", "streams"}
  BY DEF StartInv, StartTypes, Throw
<1>2. /\ NumChildren' = NumChildren /\ Children' = Children /\ Processes' = Processes
      /\ Beyond' = Beyond /\ NumChildren \in Nat \ {0} /\ Parent \in Processes
  BY <1>1, JobStays, ProcessesAre
<1>3. /\ fds'[Parent] = Table(job.open) /\ info'[Parent] = <<>> /\ at'[Parent] = "thrown"
      /\ \A p \in Children : fds'[p] = fds[p] /\ info'[p] = info[p] /\ done'[p] = done[p] /\ at'[p] = at[p]
  BY <1>1, <1>2, ProcessesAre DEF Throw, StartTypes
<1>4. StartTypes'
  <2>1. fds' \in [Processes -> Tables]
    BY <1>1, TableHolds DEF Throw, StartTypes
  <2>2. info' \in [Processes -> Seq(InfoSet)]
    <3>1. <<>> \in Seq(InfoSet)
      OBVIOUS
    <3> QED
      BY <1>1, <3>1 DEF Throw, StartTypes
  <2>3. at' \in [Processes -> ParentSteps \cup ChildSteps]
    BY <1>1 DEF Throw, StartTypes, ParentSteps
  <2> QED
    BY <1>1, <1>2, <1>3, <2>1, <2>2, <2>3 DEF StartTypes, Tables, Things, ParentSteps
<1>5. InfosInv'
  <2>1. \A si, s : MadeFor(si, s)' = MadeFor(si, s)
    BY <1>1, <1>2 DEF MadeFor
  <2>2. \A p : Streams(p)' = Streams(p) /\ Whose(p)' = Whose(p) /\ Streams(Whose(p))' = Streams(Whose(p))
    BY <1>1, JobStays DEF Whose
  <2>3. Len(info'[Parent]) = 0 /\ DOMAIN info'[Parent] = {}
    BY <1>3
  <2>4. Streams(current) \in Seq(StreamSet) /\ Whose(Parent) = current
    BY <1>1, StreamsAre DEF StartTypes, Whose
  <2>5. Len(Streams(Whose(Parent))) >= 0
    BY <2>4, Elements
  <2>6. \A p \in Processes :
          /\ Len(info'[p]) <= Len(Streams(Whose(p)))
          /\ \A k \in DOMAIN info'[p] : MadeFor(info'[p][k], Streams(Whose(p))[k])
    BY <1>1, <1>3, <2>3, <2>5, ProcessesAre DEF InfosInv
  <2>7. \A p \in Children : /\ IF at'[p] = "none" THEN info'[p] = <<>> ELSE Len(info'[p]) = Len(Streams(p))
                            /\ done'[p] <= 2 * Len(info'[p])
                            /\ p > current => at'[p] = "none"
    BY <1>1, <1>3 DEF InfosInv
  <2> QED
    BY <1>1, <1>2, <1>3, <2>1, <2>2, <2>6, <2>7 DEF InfosInv
<1>6. Numbered'
  <2>1. Captured(Parent)' = {} /\ \A p \in Children : Captured(p)' = Captured(p)
    BY <1>3 DEF Captured
  <2> QED
    BY <1>1, <1>2, <1>3, <2>1 DEF Numbered
<1>7. ParentInv'
  BY <1>1, <1>3 DEF ParentInv, Table
<1>8. ChildrenInv'
  BY <1>1, <1>3, ChildrenStay
<1> QED
  BY <1>4, <1>5, <1>6, <1>7, <1>8 DEF StartInv

\* The child's table and stream_infos are copies of the parent's.
LEMMA ForkInv ==
  ASSUME StartInv, Fork
  PROVE  StartInv'
<1>1. /\ StartTypes /\ InfosInv /\ Numbered /\ ParentInv /\ ChildrenInv
      /\ job \in Jobs /\ UNCHANGED <<job, pipes, done, current>>
      /\ at[Parent] = "streams" /\ Len(info[Parent]) = Len(Streams(current))
  BY DEF StartInv, StartTypes, Fork
<1>2. /\ NumChildren' = NumChildren /\ Children' = Children /\ Processes' = Processes
      /\ Beyond' = Beyond /\ NumChildren \in Nat \ {0} /\ Parent \in Processes
      /\ current \in Children /\ current # Parent /\ current \in Processes /\ NamedOpen' = NamedOpen
  BY <1>1, JobStays, ProcessesAre DEF StartTypes
<1>3. /\ fds'[current] = fds[Parent] /\ info'[current] = info[Parent] /\ at'[current] = "setup"
      /\ fds'[Parent] = fds[Parent] /\ info'[Parent] = info[Parent] /\ at'[Parent] = "close"
      /\ \A p \in Children \ {current} : fds'[p] = fds[p] /\ info'[p] = info[p] /\ at'[p] = at[p]
  BY <1>1, <1>2, ProcessesAre DEF Fork, StartTypes
<1>4. at[current] = "none" /\ info[current] = <<>> /\ done[current] = 0
  BY <1>1, <1>2 DEF InfosInv, StartTypes
<1>5. StartTypes'
  <2>1. /\ fds' \in [Processes -> Tables] /\ info' \in [Processes -> Seq(InfoSet)]
        /\ at' \in [Processes -> ParentSteps \cup ChildSteps]
    BY <1>1, <1>2 DEF Fork, StartTypes, ParentSteps, ChildSteps
  <2>2. at'[Parent] \in ParentSteps /\ \A p \in Children : at'[p] \in ChildSteps
    BY <1>1, <1>3 DEF StartTypes, ParentSteps, ChildSteps
  <2> QED
    BY <1>1, <1>2, <2>1, <2>2 DEF StartTypes, Tables, Things
<1>6. /\ \A p : Streams(p)' = Streams(p) /\ Whose(p)' = Whose(p) /\ Streams(Whose(p))' = Streams(Whose(p))
      /\ Whose(Parent) = current /\ Whose(current) = current
  BY <1>1, <1>2, JobStays DEF Whose
<1>7. Len(info[Parent]) \in Nat
  BY <1>1, <1>2 DEF StartTypes
<1>8. InfosInv'
  <2>1. \A si, s : MadeFor(si, s)' = MadeFor(si, s)
    BY <1>1, <1>2 DEF MadeFor
  <2>2. \A p \in Processes :
          /\ Len(info'[p]) <= Len(Streams(Whose(p)))
          /\ \A k \in DOMAIN info'[p] : MadeFor(info'[p][k], Streams(Whose(p))[k])
    BY <1>1, <1>2, <1>3, <1>6, ProcessesAre DEF InfosInv
  <2>3. \A p \in Children :
          IF at'[p] = "none" THEN info'[p] = <<>> ELSE Len(info'[p]) = Len(Streams(p))
    BY <1>1, <1>2, <1>3 DEF InfosInv
  <2>4. \A p \in Children : p > current => at'[p] = "none"
    BY <1>1, <1>2, <1>3, ProcessesAre DEF InfosInv
  <2>5. \A p \in Children : done'[p] <= 2 * Len(info'[p])
    <3>1. done'[current] <= 2 * Len(info'[current])
      BY <1>1, <1>3, <1>4, <1>7
    <3>2. \A p \in Children \ {current} : done'[p] <= 2 * Len(info'[p])
      BY <1>1, <1>3 DEF InfosInv
    <3> QED
      BY <3>1, <3>2
  <2> QED
    BY <1>1, <1>2, <1>3, <1>6, <2>1, <2>2, <2>3, <2>4, <2>5 DEF InfosInv
<1>9. /\ Captured(Parent)' = Captured(Parent) /\ Captured(current)' = Captured(Parent)
      /\ \A p \in Children \ {current} : Captured(p)' = Captured(p)
      /\ Captured(current) = {}
  <2>1. Captured(Parent)' = Captured(Parent) /\ Captured(current)' = Captured(Parent)
    BY <1>1, <1>3 DEF Captured
  <2>2. \A p \in Children \ {current} : Captured(p)' = Captured(p)
    BY <1>3 DEF Captured
  <2>3. DOMAIN info[current] = {}
    BY <1>4
  <2> QED
    BY <2>1, <2>2, <2>3 DEF Captured
<1>10. Numbered'
  <2>1. ASSUME NEW p \in Children, NEW q \in Children, NEW k \in Captured(p)', NEW l \in Captured(q)',
               info'[p][k].pipe = info'[q][l].pipe
        PROVE  p = q /\ k = l
    <3>1. CASE p = current /\ q = current
      BY <1>1, <1>3, <1>9, <2>1, <3>1 DEF Numbered
    <3>2. CASE p = current /\ q # current
      BY <1>1, <1>3, <1>9, <2>1, <3>2 DEF Numbered
    <3>3. CASE p # current /\ q = current
      BY <1>1, <1>3, <1>9, <2>1, <3>3 DEF Numbered
    <3>4. CASE p # current /\ q # current
      BY <1>1, <1>3, <1>9, <2>1, <3>4 DEF Numbered
    <3> QED
      BY <3>1, <3>2, <3>3, <3>4
  <2>2. \A k, l \in Captured(Parent)' : info'[Parent][k].pipe = info'[Parent][l].pipe => k = l
    BY <1>1, <1>3, <1>9 DEF Numbered
  <2> QED
    BY <1>2, <1>3, <2>1, <2>2 DEF Numbered
<1>11. ParentInv'
  <2>1. \A e \in EndNames : \A k : Due(e, k)' <=> Due(e, k)
    <3>1. \A e, k : DueToPipeline(e, k)' <=> DueToPipeline(e, k)
      BY <1>1, <1>2, <1>3 DEF DueToPipeline
    <3>2. \A k : DueToInfo(k)' <=> DueToInfo(k)
      BY <1>3, <1>9 DEF DueToInfo
    <3>3. \A e, k : DueToReturn(e, k) => DueToReturn(e, k)'
      <4> SUFFICES ASSUME NEW e, NEW k, DueToReturn(e, k) PROVE DueToReturn(e, k)'
        OBVIOUS
      <4>1. PICK p \in Children : \E i \in DOMAIN info[p] :
              Returned(p, info[p][i]) /\ OtherEnd(info[p][i]) = PipeEnd(e, k)
        BY DEF DueToReturn
      <4>2. p # current
        BY <1>4, <4>1
      <4> QED
        BY <1>2, <1>3, <4>1, <4>2 DEF DueToReturn, Returned, OtherEnd
    <3>4. \A e \in EndNames : \A k : DueToReturn(e, k)' => DueToReturn(e, k) \/ DueToInfo(k)
      <4> SUFFICES ASSUME NEW e \in EndNames, NEW k, DueToReturn(e, k)'
                   PROVE  DueToReturn(e, k) \/ DueToInfo(k)
        OBVIOUS
      <4>1. PICK p \in Children : \E i \in DOMAIN info'[p] :
              Returned(p, info'[p][i]) /\ OtherEnd(info'[p][i]) = PipeEnd(e, k)
        BY <1>2 DEF DueToReturn, Returned, OtherEnd, PipeEnd
      <4>2. CASE p = current
        <5>1. PICK i \in DOMAIN info[Parent] :
                Returned(p, info[Parent][i]) /\ OtherEnd(info[Parent][i]) = PipeEnd(e, k)
          BY <1>3, <4>1, <4>2
        <5>2. i \in Captured(Parent)
          BY <5>1 DEF Returned, Captured
        <5>3. info[Parent][i].pipe = k
          BY <5>1, Apart DEF OtherEnd, EndNames
        <5> QED
          BY <5>2, <5>3 DEF DueToInfo
      <4>3. CASE p # current
        BY <1>3, <4>1, <4>3 DEF DueToReturn
      <4> QED
        BY <4>2, <4>3
    <3> QED
      BY <3>1, <3>2, <3>3, <3>4 DEF Due
  <2>2. EndsInv'
    BY <1>1, <1>2, <1>3, <2>1 DEF ParentInv, EndsInv, Holds, IsIn
  <2> QED
    BY <1>1, <1>3, <2>2 DEF ParentInv, Leads, ChildEnd
<1>12. ChildrenInv'
  <2>1. ASSUME NamedOpen PROVE SettingUp(current)'
    <3>1. Holds(fds[Parent], pipes) /\ \A k \in DOMAIN info[Parent] : Leads(fds[Parent], info[Parent][k])
      BY <1>1 DEF ParentInv, EndsInv
    <3>2. \A k \in DOMAIN info[Parent] : info[Parent][k].d \in job.open
      <4>1. \A k \in DOMAIN info[Parent] : info[Parent][k].d = Streams(current)[k].d
        BY <1>1, <1>2, <1>6 DEF InfosInv, MadeFor
      <4>2. \A k \in DOMAIN Streams(current) : Streams(current)[k].d \in job.open
        BY <1>2, <2>1 DEF NamedOpen, Children
      <4>3. DOMAIN info[Parent] = DOMAIN Streams(current)
        BY <1>1, <1>2, Elements, StreamsAre DEF StartTypes
      <4> QED
        BY <4>1, <4>2, <4>3
    <3>3. \A i \in DOMAIN info[Parent] : i > done'[current] /\ ~IsSetUp(current, i)'
      <4>1. \A i \in DOMAIN info[Parent] : i \in Nat /\ i >= 1
        BY <1>1, <1>2, Elements DEF StartTypes
      <4>2. done'[current] = 0
        BY <1>1, <1>4
      <4>3. \A i : IsSetUp(current, i)' => Len(info'[current]) + i <= 0 \/ i <= 0
        BY <1>1, <4>2 DEF IsSetUp
      <4>4. Len(info'[current]) \in Nat
        BY <1>3, <1>7
      <4> QED
        BY <4>1, <4>2, <4>3, <4>4
    <3>4. \A d \in job.open : fds'[current][d] = Own(d)
      BY <1>3, <3>1 DEF Holds
    <3>5. \A i \in DOMAIN info'[current] : i > done'[current] => Leads(fds[current], info[current][i])'
      <4>1. \A i : Leads(fds[current], info[current][i])' = Leads(fds[Parent], info[Parent][i])
        BY <1>1, <1>3 DEF Leads, ChildEnd
      <4> QED
        BY <1>3, <3>1, <4>1
    <3> QED
      BY <1>1, <1>3, <3>2, <3>3, <3>4, <3>5 DEF SettingUp
  <2>2. ASSUME NamedOpen, NEW p \in Children, p # current
        PROVE  /\ at'[p] = "setup" => SettingUp(p)'
               /\ at'[p] \in {"exec", "running"} => AllSetUp(p)'
    <3>1. fds'[p] = fds[p] /\ info'[p] = info[p] /\ done'[p] = done[p] /\ at'[p] = at[p]
      BY <1>1, <1>3, <2>2
    <3>2. SettingUp(p)' = SettingUp(p) /\ AllSetUp(p)' = AllSetUp(p)
      BY <1>1, <3>1, ChildStays
    <3> QED
      BY <1>1, <2>2, <3>1, <3>2 DEF ChildrenInv
  <2>3. "setup" \notin {"exec", "running"}
    OBVIOUS
  <2>4. ASSUME NamedOpen, NEW p \in Children
        PROVE  /\ at'[p] = "setup" => SettingUp(p)'
               /\ at'[p] \in {"exec", "running"} => AllSetUp(p)'
    <3>1. CASE p = current
      BY <1>1, <1>3, <2>1, <2>3, <2>4, <3>1
    <3>2. CASE p # current
      BY <2>2, <2>4, <3>2
    <3> QED
      BY <3>1, <3>2
  <2> QED
    BY <1>2, <2>4 DEF ChildrenInv
<1> QED
  BY <1>5, <1>8, <1>10, <1>11, <1>12 DEF StartInv

\* A sequence with one element more.
LEMMA Appended ==
  ASSUME NEW S, NEW seq \in Seq(S), NEW x \in S
  PROVE  /\ Append(seq, x) \in Seq(S) /\ Len(Append(seq, x)) = Len(seq) + 1
         /\ \A k \in 1..Len(seq) : Append(seq, x)[k] = seq[k]
         /\ Append(seq, x)[Len(seq) + 1] = x
OBVIOUS

\* An end that is in the parent's table is at a descriptor that no context
\* names.
LEMMA EndIsBeyond ==
  ASSUME NEW table, NEW n, Holds(table, n), NEW d \in Desc, NEW e \in EndNames, NEW k,
         table[d] = PipeEnd(e, k)
  PROVE  d \in Beyond
BY Apart DEF Holds, Beyond

\* The new stream_info is one for its stream, and its handles lead to the ends
\* that it needs.
LEMMA InfoIsMade ==
  ASSUME job \in Jobs, NEW s \in StreamSet, NEW n \in Nat, NEW table, Holds(table, n),
         NEW k \in Nat, s.behavior = "capture" => k \in NumChildren..n,
         s.behavior = "pipein" => ~s.out /\ IsIn(table, PipeEnd("read", s.to)),
         s.behavior = "pipeout" => s.out /\ IsIn(table, PipeEnd("write", s.to)),
         s.behavior = "capture" => \A e \in EndNames : IsIn(table, PipeEnd(e, k)),
         NEW si, si = Info(s, table, k)
  PROVE  /\ si \in InfoSet /\ Leads(table, si)
         /\ si.d = s.d /\ si.out = s.out /\ si.to = s.to /\ si.type = TypeFor(s.behavior)
         /\ IF si.type = "handle" THEN si.handle \in Beyond /\ si.pipe = s.to ELSE si.handle = -1
         /\ IF si.type = "pipe"
              THEN si.rend \in Beyond /\ si.wend \in Beyond /\ si.pipe = k
              ELSE si.rend = -1 /\ si.wend = -1
<1>1. "read" \in EndNames /\ "write" \in EndNames
  BY DEF EndNames
<1>2. ASSUME NEW e \in EndNames, NEW m, IsIn(table, PipeEnd(e, m))
      PROVE  /\ HandleOf(table, PipeEnd(e, m)) \in Desc /\ HandleOf(table, PipeEnd(e, m)) \in Beyond
             /\ table[HandleOf(table, PipeEnd(e, m))] = PipeEnd(e, m)
  BY <1>2, HandleLeads, EndIsBeyond
<1>3. /\ s.out \in BOOLEAN /\ s.d \in Nat /\ s.to \in Nat /\ s.behavior \in StreamBehaviors
  BY DEF StreamSet
<1>4. /\ si.d = s.d /\ si.out = s.out /\ si.to = s.to
      /\ si.pipe = IF s.behavior \in {"pipein", "pipeout"} THEN s.to ELSE k
  BY DEF Info
<1>5. si.type = TypeFor(s.behavior)
  BY DEF Info, TypeFor
<1>6. CASE s.behavior = "pipein"
  <2>1. /\ si.type = "handle" /\ si.handle = HandleOf(table, PipeEnd("read", s.to))
        /\ si.rend = -1 /\ si.wend = -1 /\ si.pipe = s.to
    BY <1>6 DEF Info
  <2>2. si \in InfoSet
    BY <1>1, <1>2, <1>3, <1>6, <2>1 DEF Info, InfoSet, Types
  <2>3. Leads(table, si)
    BY <1>1, <1>2, <1>4, <1>6, <2>1 DEF Leads, ChildEnd
  <2> QED
    BY <1>1, <1>2, <1>4, <1>5, <1>6, <2>1, <2>2, <2>3
<1>7. CASE s.behavior = "pipeout"
  <2>1. /\ si.type = "handle" /\ si.handle = HandleOf(table, PipeEnd("write", s.to))
        /\ si.rend = -1 /\ si.wend = -1 /\ si.pipe = s.to
    BY <1>7 DEF Info
  <2>2. si \in InfoSet
    BY <1>1, <1>2, <1>3, <1>7, <2>1 DEF Info, InfoSet, Types
  <2>3. Leads(table, si)
    BY <1>1, <1>2, <1>4, <1>7, <2>1 DEF Leads, ChildEnd
  <2> QED
    BY <1>1, <1>2, <1>4, <1>5, <1>7, <2>1, <2>2, <2>3
<1>8. CASE s.behavior = "capture"
  <2>1. /\ si.type = "pipe" /\ si.handle = -1 /\ si.pipe = k
        /\ si.rend = HandleOf(table, PipeEnd("read", k))
        /\ si.wend = HandleOf(table, PipeEnd("write", k))
    BY <1>8 DEF Info
  <2>2. si \in InfoSet
    BY <1>1, <1>2, <1>3, <1>8, <2>1 DEF Info, InfoSet, Types
  <2>3. Leads(table, si)
    BY <1>1, <1>2, <1>4, <1>8, <2>1 DEF Leads, ChildEnd
  <2> QED
    BY <1>1, <1>2, <1>4, <1>5, <1>8, <2>1, <2>2, <2>3
<1>9. CASE s.behavior \in {"inherit", "silence", "redirect"}
  <2>1. /\ si.type \in {"inherit", "file", "redirect"}
        /\ si.handle = -1 /\ si.pipe = k /\ si.rend = -1 /\ si.wend = -1
    BY <1>9 DEF Info
  <2>2. si \in InfoSet
    BY <1>3, <1>9, <2>1 DEF Info, InfoSet, Types
  <2>3. Leads(table, si)
    BY <2>1 DEF Leads
  <2> QED
    BY <1>4, <1>5, <2>1, <2>2, <2>3
<1> QED
  BY <1>3, <1>6, <1>7, <1>8, <1>9 DEF StreamBehaviors

\* The next stream_info is made, with two ends of a new pipe if it captures.
LEMMA StreamInfoInv ==
  ASSUME StartInv, StreamInfo
  PROVE  StartInv'
<1> DEFINE len == Len(info[Parent])
<1>1. /\ StartTypes /\ InfosInv /\ Numbered /\ ParentInv /\ ChildrenInv
      /\ job \in Jobs /\ UNCHANGED <<job, done, at, current>>
      /\ at[Parent] = "streams" /\ len < Len(Streams(current))
  BY DEF StartInv, StartTypes, StreamInfo
<1>2. /\ NumChildren' = NumChildren /\ Children' = Children /\ Processes' = Processes
      /\ Beyond' = Beyond /\ NumChildren \in Nat \ {0} /\ Parent \in Processes
      /\ current \in Children /\ current \in Nat /\ pipes \in Nat
      /\ fds[Parent] \in Tables /\ info[Parent] \in Seq(InfoSet) /\ len \in Nat
  BY <1>1, JobStays, ProcessesAre, NumChildrenIs DEF StartTypes, Children
<1>3. /\ \A p : Streams(p)' = Streams(p) /\ Whose(p)' = Whose(p) /\ Streams(Whose(p))' = Streams(Whose(p))
      /\ Whose(Parent) = current
  BY <1>1, JobStays DEF Whose
<1>4. Holds(fds[Parent], pipes) /\ NumChildren <= pipes + 1
  BY <1>1 DEF ParentInv, EndsInv, InfosInv
<1>5. PICK s : s = Streams(current)[len + 1]
  OBVIOUS
<1>6. PICK captured \in BOOLEAN : captured <=> s.behavior = "capture"
  OBVIOUS
<1>7. PICK table : table = IF captured THEN PipeMade(fds[Parent], pipes + 1) ELSE fds[Parent]
  OBVIOUS
<1>8. PICK n : n = IF captured THEN pipes + 1 ELSE pipes
  OBVIOUS
<1>9. PICK si : si = Info(s, table, IF captured THEN n ELSE 0)
  OBVIOUS
<1>10. /\ captured => CanPipe(fds[Parent], pipes + 1)
       /\ fds' = [fds EXCEPT ![Parent] = table] /\ pipes' = n
       /\ info' = [info EXCEPT ![Parent] = Append(@, si)]
  BY <1>5, <1>6, <1>7, <1>8, <1>9 DEF StreamInfo
<1>11. n \in Nat /\ pipes <= n /\ (captured => n = pipes + 1) /\ (~captured => n = pipes)
  BY <1>2, <1>8
<1>12. /\ table \in Tables /\ Holds(table, n)
       /\ \A d \in Desc : fds[Parent][d] # Free => table[d] = fds[Parent][d]
       /\ \A e \in EndNames, k \in 1..pipes :
            IsIn(table, PipeEnd(e, k)) <=> IsIn(fds[Parent], PipeEnd(e, k))
       /\ captured => \A e \in EndNames : IsIn(table, PipeEnd(e, n))
  <2>1. CASE captured
    BY <1>1, <1>2, <1>4, <1>7, <1>10, <1>11, <2>1, PipeAdded
  <2>2. CASE ~captured
    BY <1>2, <1>4, <1>7, <1>8, <2>2
  <2> QED
    BY <2>1, <2>2
<1>13. /\ len + 1 \in 1..Len(Streams(current)) /\ s \in StreamSet
       /\ s.behavior = "pipein" => current > 1 /\ ~s.out /\ s.to = current - 1
       /\ s.behavior = "pipeout" => current < NumChildren /\ s.out /\ s.to = current
  <2>1. Streams(current) \in Seq(StreamSet)
    BY <1>1, <1>2, StreamsAre
  <2>2. len + 1 \in 1..Len(Streams(current))
    BY <1>1, <1>2, <2>1, Elements
  <2>3. s \in StreamSet
    BY <1>5, <2>1, <2>2, Elements
  <2>4. /\ s.behavior = "pipein" => current > 1 /\ ~s.out /\ s.to = current - 1
        /\ s.behavior = "pipeout" => current < NumChildren /\ s.out /\ s.to = current
    <3> HIDE DEF len
    <3> QED
      BY <1>1, <1>2, <1>5, <2>2, StreamsAre
  <2> QED
    BY <2>2, <2>3, <2>4
<1>14. /\ s.behavior = "pipein" => IsIn(table, PipeEnd("read", s.to))
       /\ s.behavior = "pipeout" => IsIn(table, PipeEnd("write", s.to))
  <2>1. ASSUME s.behavior = "pipein" PROVE IsIn(table, PipeEnd("read", s.to))
    <3>1. s.to \in 1..NumChildren - 1 /\ s.to \in 1..pipes /\ s.to >= current - 1
      BY <1>1, <1>2, <1>4, <1>13, <2>1, ProcessesAre
    <3>2. Due("read", s.to)
      BY <1>1, <3>1 DEF Due, DueToPipeline
    <3>3. IsIn(fds[Parent], PipeEnd("read", s.to))
      BY <1>1, <3>1, <3>2 DEF ParentInv, EndsInv, EndNames
    <3> QED
      BY <1>12, <3>1, <3>3 DEF EndNames
  <2>2. ASSUME s.behavior = "pipeout" PROVE IsIn(table, PipeEnd("write", s.to))
    <3>1. s.to \in 1..NumChildren - 1 /\ s.to \in 1..pipes /\ s.to >= current
      BY <1>1, <1>2, <1>4, <1>13, <2>2, ProcessesAre
    <3>2. Due("write", s.to)
      BY <1>1, <3>1 DEF Due, DueToPipeline
    <3>3. IsIn(fds[Parent], PipeEnd("write", s.to))
      BY <1>1, <3>1, <3>2 DEF ParentInv, EndsInv, EndNames
    <3> QED
      BY <1>12, <3>1, <3>3 DEF EndNames
  <2> QED
    BY <2>1, <2>2
<1>15. /\ si \in InfoSet /\ Leads(table, si) /\ MadeFor(si, s)'
       /\ (si.type = "pipe" <=> captured) /\ (captured => si.pipe = n)
  <2>1. PICK k : k = IF captured THEN n ELSE 0
    OBVIOUS
  <2>2. k \in Nat /\ (captured => k = n /\ k \in NumChildren..n)
    BY <1>2, <1>4, <1>11, <2>1
  <2>3. /\ s.behavior = "capture" => k \in NumChildren..n
        /\ s.behavior = "pipein" => ~s.out /\ IsIn(table, PipeEnd("read", s.to))
        /\ s.behavior = "pipeout" => s.out /\ IsIn(table, PipeEnd("write", s.to))
        /\ s.behavior = "capture" => \A e \in EndNames : IsIn(table, PipeEnd(e, k))
        /\ si = Info(s, table, k)
    BY <1>6, <1>9, <1>12, <1>13, <1>14, <2>1, <2>2
  <2>4. /\ si \in InfoSet /\ Leads(table, si)
        /\ si.d = s.d /\ si.out = s.out /\ si.to = s.to /\ si.type = TypeFor(s.behavior)
        /\ IF si.type = "handle" THEN si.handle \in Beyond /\ si.pipe = s.to ELSE si.handle = -1
        /\ IF si.type = "pipe"
             THEN si.rend \in Beyond /\ si.wend \in Beyond /\ si.pipe = k
             ELSE si.rend = -1 /\ si.wend = -1
    BY <1>1, <1>11, <1>12, <1>13, <2>2, <2>3, InfoIsMade
  <2>5. si.type = "pipe" <=> captured
    BY <1>6, <1>13, <2>4 DEF TypeFor, StreamSet, StreamBehaviors
  <2>6. MadeFor(si, s)'
    BY <1>2, <1>10, <2>2, <2>4, <2>5 DEF MadeFor
  <2> QED
    BY <2>2, <2>4, <2>5, <2>6
<1>16. /\ fds'[Parent] = table /\ info'[Parent] = Append(info[Parent], si)
       /\ \A p \in Children : fds'[p] = fds[p] /\ info'[p] = info[p]
  BY <1>1, <1>2, <1>10, ProcessesAre DEF StartTypes
<1>17. /\ info'[Parent] \in Seq(InfoSet) /\ Len(info'[Parent]) = len + 1
       /\ \A k \in 1..len : info'[Parent][k] = info[Parent][k]
       /\ info'[Parent][len + 1] = si
  BY <1>2, <1>15, <1>16, Appended
<1>18. DOMAIN info[Parent] = 1..len /\ DOMAIN info'[Parent] = 1..len + 1 /\ len + 1 \notin 1..len
  BY <1>2, <1>17, Elements
<1>19. StartTypes'
  <2>1. fds' \in [Processes -> Tables] /\ info' \in [Processes -> Seq(InfoSet)]
    BY <1>1, <1>2, <1>10, <1>12, <1>16, <1>17 DEF StartTypes
  <2> QED
    BY <1>1, <1>2, <1>10, <1>11, <2>1 DEF StartTypes, Tables, Things
<1>20. \A x, z : MadeFor(x, z) => MadeFor(x, z)'
  BY <1>1, <1>2, <1>10, <1>11, MadeForStays
<1>21. InfosInv'
  <2>1. len + 1 <= Len(Streams(current))
    BY <1>2, <1>13
  <2>2. ASSUME NEW k \in DOMAIN info'[Parent]
        PROVE  MadeFor(info[Parent][k], Streams(Whose(Parent))[k])'
    <3>1. CASE k = len + 1
      BY <1>3, <1>5, <1>15, <1>17, <3>1
    <3>2. CASE k # len + 1
      <4>1. k \in 1..len
        BY <1>2, <1>18, <3>2
      <4>2. MadeFor(info[Parent][k], Streams(Whose(Parent))[k])
        BY <1>1, <1>2, <1>18, <4>1 DEF InfosInv
      <4>3. /\ MadeFor(info[Parent][k], Streams(Whose(Parent))[k])
            /\ info'[Parent][k] = info[Parent][k] /\ Streams(Whose(Parent))' = Streams(Whose(Parent))
        BY <1>3, <1>17, <4>1, <4>2
      <4>4. PICK x, z : x = info[Parent][k] /\ z = Streams(Whose(Parent))[k]
        OBVIOUS
      <4>5. MadeFor(x, z)'
        BY <1>20, <4>3, <4>4
      <4> QED
        BY <4>3, <4>4, <4>5
    <3> QED
      BY <3>1, <3>2
  <2>3. ASSUME NEW p \in Children, NEW k \in DOMAIN info[p]
        PROVE  MadeFor(info[p][k], Streams(Whose(p))[k])'
    <3>1. PICK x, z : x = info[p][k] /\ z = Streams(Whose(p))[k]
      OBVIOUS
    <3>2. MadeFor(x, z)
      BY <1>1, <3>1, ProcessesAre DEF InfosInv
    <3>3. MadeFor(x, z)'
      BY <1>20, <3>2
    <3> QED
      BY <1>3, <1>16, <3>1, <3>3
  <2>4. \A p \in Processes : Len(info'[p]) <= Len(Streams(Whose(p)))
    BY <1>1, <1>3, <1>16, <1>17, <2>1, ProcessesAre DEF InfosInv
  <2>5. \A p \in Processes : \A k \in DOMAIN info'[p] : MadeFor(info[p][k], Streams(Whose(p))[k])'
    BY <1>1, <1>16, <2>2, <2>3, ProcessesAre
  <2>6. \A p \in Children :
          /\ IF at[p] = "none" THEN info'[p] = <<>> ELSE Len(info'[p]) = Len(Streams(p))
          /\ p > current => at[p] = "none"
          /\ p = current => at[p] = "none"
          /\ done[p] <= 2 * Len(info'[p])
    BY <1>1, <1>16 DEF InfosInv
  <2>7. NumChildren <= n + 1
    BY <1>2, <1>4, <1>11
  <2> HIDE DEF len
  <2> QED
    BY <1>1, <1>2, <1>3, <1>10, <2>4, <2>5, <2>6, <2>7 DEF InfosInv
<1>22. /\ Captured(Parent)' = IF captured THEN Captured(Parent) \cup {len + 1} ELSE Captured(Parent)
       /\ \A p \in Children : Captured(p)' = Captured(p)
       /\ Captured(Parent) \subseteq 1..len
  <2>1. \A p \in Children : Captured(p)' = Captured(p)
    BY <1>16 DEF Captured
  <2>2. Captured(Parent) \subseteq 1..len
    BY <1>18 DEF Captured
  <2>3. \A k : k \in 1..len + 1 <=> k \in 1..len \/ k = len + 1
    BY <1>2
  <2> HIDE DEF len
  <2>4. \A k : k \in Captured(Parent)' <=> k \in Captured(Parent) \/ (captured /\ k = len + 1)
    BY <1>15, <1>17, <1>18, <2>3 DEF Captured
  <2>5. Captured(Parent)' = IF captured THEN Captured(Parent) \cup {len + 1} ELSE Captured(Parent)
    BY <2>4
  <2> QED
    BY <2>1, <2>2, <2>5
<1>23. /\ \A k \in Captured(Parent) : info'[Parent][k] = info[Parent][k] /\ info[Parent][k].pipe <= pipes
       /\ \A p \in Children : \A k \in Captured(p) : info[p][k].pipe <= pipes
       /\ captured => info'[Parent][len + 1].pipe = n
  <2>1. \A p \in Processes : \A k \in Captured(p) : info[p][k].pipe \in NumChildren..pipes
    BY <1>1 DEF InfosInv, Captured, MadeFor
  <2>2. \A k \in NumChildren..pipes : k <= pipes
    BY <1>2
  <2> HIDE DEF len
  <2> QED
    BY <1>1, <1>2, <1>15, <1>17, <1>22, <2>1, <2>2, ProcessesAre
<1>24. Numbered'
  <2> HIDE DEF len
  <2>1. \A p, q \in Children : \A k \in Captured(p)', l \in Captured(q)' :
          info'[p][k].pipe = info'[q][l].pipe => p = q /\ k = l
    BY <1>1, <1>16, <1>22 DEF Numbered
  <2>2. captured => /\ \A k \in Captured(Parent) : info[Parent][k].pipe # n
                    /\ \A p \in Children : \A k \in Captured(p) : info[p][k].pipe # n
    BY <1>2, <1>11, <1>23
  <2>3. \A k, l \in Captured(Parent)' : info'[Parent][k].pipe = info'[Parent][l].pipe => k = l
    BY <1>1, <1>22, <1>23, <2>2 DEF Numbered
  <2>4. \A q \in Children : \A k \in Captured(Parent)', l \in Captured(q)' :
          info'[Parent][k].pipe # info'[q][l].pipe
    <3> SUFFICES ASSUME NEW q \in Children, NEW k \in Captured(Parent)', NEW l \in Captured(q)'
                 PROVE  info'[Parent][k].pipe # info'[q][l].pipe
      OBVIOUS
    <3>0. l \in Captured(q) /\ info'[q][l].pipe = info[q][l].pipe
      BY <1>16, <1>22
    <3>1. CASE k \in Captured(Parent)
      BY <1>1, <1>23, <3>0, <3>1 DEF Numbered
    <3>2. CASE k \notin Captured(Parent)
      <4>1. captured /\ k = len + 1
        BY <1>22, <3>2
      <4> QED
        BY <1>23, <2>2, <3>0, <4>1
    <3> QED
      BY <3>1, <3>2
  <2> QED
    BY <1>2, <2>1, <2>3, <2>4 DEF Numbered
<1>25. ParentInv'
  <2> HIDE DEF len
  <2>1. \A e, k : DueToPipeline(e, k)' <=> DueToPipeline(e, k)
    BY <1>1, <1>2 DEF DueToPipeline
  <2>2. \A e, k : DueToReturn(e, k)' <=> DueToReturn(e, k)
    BY <1>1, <1>2, <1>16 DEF DueToReturn, Returned, OtherEnd
  <2>3. \A k : DueToInfo(k)' <=> DueToInfo(k) \/ (captured /\ k = n)
    BY <1>22, <1>23 DEF DueToInfo
  <2>4. \A e \in EndNames, k \in 1..n : IsIn(table, PipeEnd(e, k)) <=> Due(e, k)'
    <3> SUFFICES ASSUME NEW e \in EndNames, NEW k \in 1..n
                 PROVE  IsIn(table, PipeEnd(e, k)) <=> Due(e, k)'
      OBVIOUS
    <3>1. CASE captured /\ k = n
      BY <1>12, <2>3, <3>1 DEF Due
    <3>2. CASE ~(captured /\ k = n)
      <4>1. k \in 1..pipes
        BY <1>2, <1>11, <3>2
      <4>2. IsIn(fds[Parent], PipeEnd(e, k)) <=> Due(e, k)
        BY <1>1, <4>1 DEF ParentInv, EndsInv
      <4> QED
        BY <1>12, <2>1, <2>2, <2>3, <3>2, <4>1, <4>2 DEF Due
    <3> QED
      BY <3>1, <3>2
  <2>5. Holds(fds[Parent], pipes)'
    BY <1>1, <1>2, <1>10, <1>12, <1>16 DEF Holds
  <2>6. EndsInv'
    BY <1>10, <1>16, <2>4, <2>5 DEF EndsInv, IsIn, PipeEnd
  <2>7. ASSUME NEW k \in DOMAIN info'[Parent] PROVE Leads(table, info'[Parent][k])
    <3>1. CASE k = len + 1
      BY <1>15, <1>17, <3>1
    <3>2. CASE k # len + 1
      <4>1. k \in 1..len
        BY <1>2, <1>18, <3>2
      <4>2. Leads(fds[Parent], info[Parent][k]) /\ info'[Parent][k] = info[Parent][k]
        BY <1>1, <1>17, <1>18, <4>1 DEF ParentInv
      <4>3. MadeFor(info[Parent][k], Streams(Whose(Parent))[k])
        BY <1>1, <1>2, <1>18, <4>1 DEF InfosInv
      <4>4. PICK x : x = info[Parent][k]
        OBVIOUS
      <4>5. /\ x.type = "handle" => x.handle \in Desc
            /\ x.type = "pipe" => x.rend \in Desc /\ x.wend \in Desc
        BY <4>3, <4>4 DEF MadeFor, Beyond
      <4>6. Leads(table, x)
        <5>1. Leads(fds[Parent], x)
          BY <4>2, <4>4
        <5>2. ChildEnd(x) # Free /\ \A m : PipeEnd("read", m) # Free /\ PipeEnd("write", m) # Free
          BY Apart DEF EndNames, ChildEnd
        <5> QED
          BY <1>12, <4>5, <5>1, <5>2 DEF Leads
      <4> QED
        BY <4>2, <4>4, <4>6
    <3> QED
      BY <3>1, <3>2
  <2>8. \A k : Leads(fds[Parent], info[Parent][k])' <=> Leads(table, info'[Parent][k])
    BY <1>16 DEF Leads, ChildEnd
  <2> QED
    BY <1>1, <2>6, <2>7, <2>8 DEF ParentInv
<1>26. ChildrenInv'
  BY <1>1, <1>16, ChildrenStay
<1> QED
  BY <1>19, <1>21, <1>24, <1>25, <1>26 DEF StartInv

\* The ends of pipes that the parent closes, of those of the child that it has
\* started.
EndIsGone(e, k) ==
  \/ e = "read" /\ k = current - 1 /\ current > 1
  \/ e = "write" /\ k = current /\ current < NumChildren
  \/ \E j \in Captured(Parent) :
       LET si == info[Parent][j]
       IN si.pipe = k /\ (ChildEnd(si) = PipeEnd(e, k) \/ ~Returned(current, si))

\* The handles of a pipeline's child are the ends of the pipes next to it.
LEMMA HandlesAre ==
  ASSUME StartInv, at[Parent] = "close"
  PROVE  /\ \A j \in DOMAIN info[Parent] :
              LET si == info[Parent][j]
              IN si.type = "handle" =>
                   \/ ~si.out /\ si.pipe = current - 1 /\ current > 1
                   \/ si.out /\ si.pipe = current /\ current < NumChildren
         /\ current > 1 => \E j \in DOMAIN info[Parent] :
              LET si == info[Parent][j] IN si.type = "handle" /\ ~si.out /\ si.pipe = current - 1
         /\ current < NumChildren => \E j \in DOMAIN info[Parent] :
              LET si == info[Parent][j] IN si.type = "handle" /\ si.out /\ si.pipe = current
<1>1. /\ job \in Jobs /\ current \in Children /\ info[Parent] \in Seq(InfoSet) /\ Parent \in Processes
      /\ Len(info[Parent]) = Len(Streams(current)) /\ Whose(Parent) = current
  BY ProcessesAre DEF StartInv, StartTypes, InfosInv, Whose
<1>2. DOMAIN info[Parent] = 1..Len(Streams(current))
  BY <1>1, Elements
<1>3. \A j \in 1..Len(Streams(current)) : MadeFor(info[Parent][j], Streams(current)[j])
  BY <1>1, <1>2 DEF StartInv, InfosInv
<1>4. /\ Streams(current) \in Seq(StreamSet)
      /\ \A k \in 1..Len(Streams(current)) :
           LET s == Streams(current)[k]
           IN /\ s \in StreamSet
              /\ s.behavior = "pipein" => current > 1 /\ ~s.out /\ s.to = current - 1
              /\ s.behavior = "pipeout" => current < NumChildren /\ s.out /\ s.to = current
      /\ current > 1 => \E k \in 1..Len(Streams(current)) : Streams(current)[k].behavior = "pipein"
      /\ current < NumChildren =>
           \E k \in 1..Len(Streams(current)) : Streams(current)[k].behavior = "pipeout"
  BY <1>1, StreamsAre, Elements
<1>5. \A b \in StreamBehaviors : TypeFor(b) = "handle" <=> b \in {"pipein", "pipeout"}
  BY DEF TypeFor, StreamBehaviors
<1>6. \A s \in StreamSet : s.behavior \in StreamBehaviors
  BY DEF StreamSet
<1>7. ASSUME NEW j \in 1..Len(Streams(current))
      PROVE  LET si == info[Parent][j]
                 s == Streams(current)[j]
             IN /\ si.type = "handle" <=> s.behavior \in {"pipein", "pipeout"}
                /\ si.type = "handle" => si.pipe = s.to
                /\ si.out = s.out
  BY <1>3, <1>4, <1>5, <1>6 DEF MadeFor
<1> QED
  BY <1>2, <1>4, <1>7

\* Which ends the descriptors lead to that the parent closes.
LEMMA EndsAreGone ==
  ASSUME StartInv, at[Parent] = "close",
         NEW gone, gone = UNION {Ends(current, info[Parent][i]) : i \in DOMAIN info[Parent]}
  PROVE  /\ gone \subseteq Beyond
         /\ \A e \in EndNames : \A k :
              (\E d \in gone : fds[Parent][d] = PipeEnd(e, k)) <=> EndIsGone(e, k)
<1> DEFINE infos == info[Parent]
           table == fds[Parent]
<1>1. /\ Parent \in Processes /\ Parent \notin Children /\ Whose(Parent) = current
      /\ \A j \in DOMAIN infos : Leads(table, infos[j])
  BY ProcessesAre DEF StartInv, StartTypes, ParentInv, Whose
<1>2. \A j \in DOMAIN infos : \E s : MadeFor(infos[j], s)
  BY <1>1 DEF StartInv, InfosInv
<1>3. -1 \notin Desc
  BY DescIsNat
<1>4. \A j \in DOMAIN infos :
        LET si == infos[j]
        IN /\ IF si.type = "handle" THEN si.handle \in Beyond ELSE si.handle = -1
           /\ IF si.type = "pipe" THEN si.rend \in Beyond /\ si.wend \in Beyond
                                  ELSE si.rend = -1 /\ si.wend = -1
  BY <1>2 DEF MadeFor
<1>5. Beyond \subseteq Desc
  BY DEF Beyond
<1>6. gone \subseteq Beyond
  BY <1>3, <1>4 DEF Ends
<1>7. "read" \in EndNames /\ "write" \in EndNames /\ \A e \in EndNames : e = "read" \/ e = "write"
  BY DEF EndNames
<1>8. ASSUME NEW e \in EndNames, NEW k, NEW d \in gone, table[d] = PipeEnd(e, k)
      PROVE  EndIsGone(e, k)
  <2>1. PICK j \in DOMAIN infos : d \in Ends(current, infos[j])
    OBVIOUS
  <2>2. PICK si : si = infos[j]
    OBVIOUS
  <2>3. d \in Desc
    BY <1>5, <1>6
  <2>4. CASE si.type = "handle"
    <3>1. d = si.handle
      BY <1>3, <1>4, <2>1, <2>2, <2>3, <2>4 DEF Ends
    <3>2. ChildEnd(si) = PipeEnd(e, k)
      BY <1>1, <1>8, <2>2, <2>4, <3>1 DEF Leads
    <3>3. si.pipe = k /\ e = IF si.out THEN "write" ELSE "read"
      BY <1>7, <3>2, Apart DEF ChildEnd
    <3>4. \/ ~si.out /\ si.pipe = current - 1 /\ current > 1
          \/ si.out /\ si.pipe = current /\ current < NumChildren
      BY <2>2, <2>4, HandlesAre
    <3> QED
      BY <3>3, <3>4 DEF EndIsGone
  <2>5. CASE si.type = "pipe"
    <3>1. j \in Captured(Parent)
      BY <2>2, <2>5 DEF Captured
    <3>2. table[si.rend] = PipeEnd("read", si.pipe) /\ table[si.wend] = PipeEnd("write", si.pipe)
      BY <1>1, <2>2, <2>5 DEF Leads
    <3>3. CASE d = IF si.out THEN si.wend ELSE si.rend
      <4>1. ChildEnd(si) = PipeEnd(e, k)
        BY <1>8, <3>2, <3>3 DEF ChildEnd
      <4>2. si.pipe = k
        BY <1>7, <4>1, Apart DEF ChildEnd
      <4> QED
        BY <2>2, <3>1, <4>1, <4>2 DEF EndIsGone
    <3>4. CASE d # IF si.out THEN si.wend ELSE si.rend
      <4>1. ~Returned(current, si) /\ d \in {si.rend, si.wend}
        BY <1>3, <1>4, <2>1, <2>2, <2>3, <2>5, <3>4 DEF Ends
      <4>2. si.pipe = k
        BY <1>7, <1>8, <3>2, <4>1, Apart
      <4> QED
        BY <2>2, <3>1, <4>1, <4>2 DEF EndIsGone
    <3> QED
      BY <3>3, <3>4
  <2>6. CASE si.type \notin {"handle", "pipe"}
    BY <1>3, <1>4, <2>1, <2>2, <2>3, <2>6 DEF Ends
  <2> QED
    BY <2>4, <2>5, <2>6
<1>9. ASSUME NEW e \in EndNames, NEW k, EndIsGone(e, k)
      PROVE  \E d \in gone : table[d] = PipeEnd(e, k)
  <2>1. \A j \in DOMAIN infos : infos[j].type = "handle" =>
          infos[j].handle \in gone /\ table[infos[j].handle] = ChildEnd(infos[j])
    BY <1>1, <1>4, <1>5 DEF Ends, Leads
  <2>2. CASE e = "read" /\ k = current - 1 /\ current > 1
    <3>1. PICK j \in DOMAIN infos :
            infos[j].type = "handle" /\ ~infos[j].out /\ infos[j].pipe = current - 1
      BY <2>2, HandlesAre
    <3> QED
      BY <2>1, <2>2, <3>1 DEF ChildEnd
  <2>3. CASE e = "write" /\ k = current /\ current < NumChildren
    <3>1. PICK j \in DOMAIN infos :
            infos[j].type = "handle" /\ infos[j].out /\ infos[j].pipe = current
      BY <2>3, HandlesAre
    <3> QED
      BY <2>1, <2>3, <3>1 DEF ChildEnd
  <2>4. ASSUME NEW j \in Captured(Parent), infos[j].pipe = k,
               ChildEnd(infos[j]) = PipeEnd(e, k) \/ ~Returned(current, infos[j])
        PROVE  \E d \in gone : table[d] = PipeEnd(e, k)
    <3>1. PICK si : si = infos[j] /\ j \in DOMAIN infos /\ si.type = "pipe"
      BY DEF Captured
    <3>2. /\ table[si.rend] = PipeEnd("read", k) /\ table[si.wend] = PipeEnd("write", k)
          /\ si.rend \in Desc /\ si.wend \in Desc
      BY <1>1, <1>4, <1>5, <2>4, <3>1 DEF Leads
    <3>3. CASE ~Returned(current, si)
      <4>1. si.rend \in gone /\ si.wend \in gone
        BY <3>1, <3>2, <3>3 DEF Ends
      <4> QED
        BY <1>7, <3>2, <4>1
    <3>4. CASE ChildEnd(si) = PipeEnd(e, k)
      <4>1. PICK d : d = IF si.out THEN si.wend ELSE si.rend
        OBVIOUS
      <4>2. d \in gone
        BY <3>1, <3>2, <4>1 DEF Ends
      <4>3. table[d] = ChildEnd(si)
        BY <2>4, <3>1, <3>2, <4>1 DEF ChildEnd
      <4> QED
        BY <3>4, <4>2, <4>3
    <3> QED
      BY <2>4, <3>1, <3>3, <3>4
  <2> QED
    BY <1>9, <2>2, <2>3, <2>4 DEF EndIsGone
<1> QED
  BY <1>6, <1>8, <1>9

\* What is due afterwards is what was due before and is not closed.
LEMMA DueAfterwards ==
  ASSUME StartInv, CloseEnds, NEW e \in EndNames, NEW k \in 1..pipes
  PROVE  Due(e, k)' <=> Due(e, k) /\ ~EndIsGone(e, k)
<1>1. /\ StartTypes /\ InfosInv /\ Numbered
      /\ job \in Jobs /\ UNCHANGED <<job, pipes>> /\ at[Parent] = "close"
      /\ at'[Parent] = IF current = NumChildren THEN "returned" ELSE "streams"
      /\ current' = IF current = NumChildren THEN current ELSE current + 1
      /\ info'[Parent] = <<>> /\ \A p \in Children : info'[p] = info[p]
  BY ProcessesAre DEF StartInv, StartTypes, CloseEnds
<1>2. /\ NumChildren' = NumChildren /\ Children' = Children /\ NumChildren \in Nat \ {0}
      /\ Parent \in Processes /\ current \in Children
      /\ current \in Nat /\ current >= 1 /\ current <= NumChildren /\ pipes \in Nat /\ k \in Nat /\ k >= 1
  BY <1>1, JobStays, ProcessesAre DEF StartTypes
<1>3. \A p \in Processes : \A i \in Captured(p) : info[p][i].pipe >= NumChildren
  <2>1. \A p \in Processes : \A i \in Captured(p) : info[p][i].pipe \in NumChildren..pipes
    BY <1>1 DEF InfosInv, Captured, MadeFor
  <2> QED
    BY <1>2, <2>1
<1>4. ~DueToInfo(k)'
  <2>1. Captured(Parent)' = {}
    BY <1>1 DEF Captured
  <2> QED
    BY <2>1 DEF DueToInfo
<1>5. DueToReturn(e, k)' <=> DueToReturn(e, k)
  BY <1>1, <1>2 DEF DueToReturn, Returned, OtherEnd, PipeEnd
<1>6. DueToPipeline(e, k)' <=> /\ current # NumChildren /\ k \in 1..NumChildren - 1
                               /\ k >= IF e = "read" THEN current ELSE current + 1
  <2>1. CASE current = NumChildren
    BY <1>1, <2>1 DEF DueToPipeline
  <2>2. CASE current # NumChildren
    <3>1. at'[Parent] = "streams" /\ current' = current + 1 /\ current + 1 - 1 = current
      BY <1>1, <1>2, <2>2
    <3> QED
      BY <1>2, <2>2, <3>1 DEF DueToPipeline
  <2> QED
    BY <2>1, <2>2
<1>7. DueToPipeline(e, k) <=> /\ k \in 1..NumChildren - 1
                              /\ k >= IF e = "read" THEN current - 1 ELSE current
  BY <1>1 DEF DueToPipeline
<1>8. CASE k < NumChildren
  <2>1. ~DueToInfo(k)
    BY <1>2, <1>3, <1>8 DEF DueToInfo
  <2>2. ~DueToReturn(e, k)
    <3> SUFFICES ASSUME NEW p \in Children, NEW i \in DOMAIN info[p], Returned(p, info[p][i]),
                        OtherEnd(info[p][i]) = PipeEnd(e, k)
                 PROVE  FALSE
      BY DEF DueToReturn
    <3>1. i \in Captured(p) /\ info[p][i].pipe = k /\ p \in Processes
      BY <1>1, Apart, ProcessesAre DEF Returned, Captured, OtherEnd, EndNames
    <3> QED
      BY <1>2, <1>3, <1>8, <3>1
  <2>3. EndIsGone(e, k) <=> \/ e = "read" /\ k = current - 1 /\ current > 1
                            \/ e = "write" /\ k = current /\ current < NumChildren
    BY <2>1 DEF EndIsGone, DueToInfo
  <2>4. k \in 1..NumChildren - 1
    BY <1>2, <1>8
  <2>5. CASE e = "read"
    BY <1>2, <1>4, <1>5, <1>6, <1>7, <1>8, <2>1, <2>2, <2>3, <2>4, <2>5 DEF Due
  <2>6. CASE e = "write"
    BY <1>2, <1>4, <1>5, <1>6, <1>7, <1>8, <2>1, <2>2, <2>3, <2>4, <2>6 DEF Due
  <2> QED
    BY <2>5, <2>6 DEF EndNames
<1>9. CASE k >= NumChildren
  <2>1. ~DueToPipeline(e, k) /\ ~DueToPipeline(e, k)'
    BY <1>2, <1>6, <1>7, <1>9
  <2>2. EndIsGone(e, k) <=> \E j \in Captured(Parent) :
          LET si == info[Parent][j]
          IN si.pipe = k /\ (ChildEnd(si) = PipeEnd(e, k) \/ ~Returned(current, si))
    BY <1>2, <1>9 DEF EndIsGone
  <2>3. CASE ~DueToInfo(k)
    BY <1>4, <1>5, <2>1, <2>2, <2>3 DEF Due, DueToInfo
  <2>4. CASE DueToInfo(k)
    <3>1. PICK j \in Captured(Parent) : info[Parent][j].pipe = k
      BY <2>4 DEF DueToInfo
    <3>2. PICK si : si = info[Parent][j]
      OBVIOUS
    <3>3. /\ info[Parent] = info[current] /\ Captured(Parent) = Captured(current)
      BY <1>1, <1>2 DEF InfosInv, Captured
    <3>4. EndIsGone(e, k) <=> ChildEnd(si) = PipeEnd(e, k) \/ ~Returned(current, si)
      <4>1. \A j2 \in Captured(Parent) : info[Parent][j2].pipe = k => j2 = j
        BY <1>1, <3>1 DEF Numbered
      <4> QED
        BY <2>2, <3>1, <3>2, <4>1
    <3>5. DueToReturn(e, k) <=> Returned(current, si) /\ OtherEnd(si) = PipeEnd(e, k)
      <4>1. ASSUME NEW p \in Children, NEW i \in DOMAIN info[p], Returned(p, info[p][i]),
                   OtherEnd(info[p][i]) = PipeEnd(e, k)
            PROVE  p = current /\ info[p][i] = si
        <5>1. i \in Captured(p) /\ info[p][i].pipe = k
          BY <4>1, Apart DEF Returned, Captured, OtherEnd, EndNames
        <5>2. j \in Captured(current) /\ info[current][j].pipe = k
          BY <3>1, <3>3
        <5>3. p = current /\ i = j
          BY <1>1, <1>2, <5>1, <5>2 DEF Numbered
        <5> QED
          BY <3>2, <3>3, <5>3
      <4>2. j \in DOMAIN info[current] /\ info[current][j] = si
        BY <3>2, <3>3 DEF Captured
      <4> QED
        BY <1>2, <4>1, <4>2 DEF DueToReturn
    <3>6. ChildEnd(si) = PipeEnd(e, k) <=> OtherEnd(si) # PipeEnd(e, k)
      <4>1. si.pipe = k /\ "read" \in EndNames /\ "write" \in EndNames /\ (e = "read" \/ e = "write")
        BY <3>1, <3>2 DEF EndNames
      <4> QED
        BY <4>1, Apart DEF ChildEnd, OtherEnd
    <3> QED
      BY <1>4, <1>5, <2>1, <2>4, <3>4, <3>5, <3>6 DEF Due
  <2> QED
    BY <2>3, <2>4
<1> QED
  BY <1>2, <1>8, <1>9

\* The parent closes the child's ends and keeps those that it returns.
LEMMA CloseEndsInv ==
  ASSUME StartInv, CloseEnds
  PROVE  StartInv'
<1>1. /\ StartTypes /\ InfosInv /\ Numbered /\ ParentInv /\ ChildrenInv
      /\ job \in Jobs /\ UNCHANGED <<job, pipes, done>> /\ at[Parent] = "close"
  BY DEF StartInv, StartTypes, CloseEnds
<1>2. /\ NumChildren' = NumChildren /\ Children' = Children /\ Processes' = Processes
      /\ Beyond' = Beyond /\ NumChildren \in Nat \ {0} /\ Parent \in Processes /\ current \in Children
      /\ current \in Nat /\ current >= 1 /\ current <= NumChildren /\ pipes \in Nat
      /\ fds[Parent] \in Tables
  BY <1>1, JobStays, ProcessesAre DEF StartTypes
<1>3. PICK gone : gone = UNION {Ends(current, info[Parent][i]) : i \in DOMAIN info[Parent]}
  OBVIOUS
<1>4. PICK table : table = [d \in Desc |-> IF d \in gone THEN Free ELSE fds[Parent][d]]
  OBVIOUS
<1>5. /\ fds' = [fds EXCEPT ![Parent] = table] /\ info' = [info EXCEPT ![Parent] = <<>>]
      /\ at' = [at EXCEPT ![Parent] = IF current = NumChildren THEN "returned" ELSE "streams"]
      /\ current' = IF current = NumChildren THEN current ELSE current + 1
  BY <1>3, <1>4 DEF CloseEnds
<1>6. /\ fds'[Parent] = table /\ info'[Parent] = <<>>
      /\ at'[Parent] = IF current = NumChildren THEN "returned" ELSE "streams"
      /\ \A p \in Children : fds'[p] = fds[p] /\ info'[p] = info[p] /\ done'[p] = done[p] /\ at'[p] = at[p]
  BY <1>1, <1>2, <1>5, ProcessesAre DEF StartTypes
<1>7. current' \in Children
  BY <1>2, <1>5 DEF Children
<1>8. gone \subseteq Beyond
  BY <1>1, <1>3, EndsAreGone
<1>9. table \in Tables /\ \A d \in Desc : table[d] = IF d \in gone THEN Free ELSE fds[Parent][d]
  BY <1>2, <1>4, ThingsAre DEF Tables
<1>10. Holds(table, pipes)
  <2>1. Holds(fds[Parent], pipes) /\ job.open \subseteq Desc
    BY <1>1, NumChildrenIs DEF ParentInv, EndsInv
  <2> QED
    BY <1>8, <1>9, <2>1 DEF Holds, Beyond
<1>11. StartTypes'
  <2>1. fds' \in [Processes -> Tables]
    BY <1>1, <1>5, <1>9 DEF StartTypes
  <2>2. info' \in [Processes -> Seq(InfoSet)]
    <3>1. <<>> \in Seq(InfoSet)
      OBVIOUS
    <3> QED
      BY <1>1, <1>5, <3>1 DEF StartTypes
  <2>3. at' \in [Processes -> ParentSteps \cup ChildSteps]
    BY <1>1, <1>5 DEF StartTypes, ParentSteps
  <2>4. at'[Parent] \in ParentSteps
    BY <1>6 DEF ParentSteps
  <2> QED
    BY <1>1, <1>2, <1>6, <1>7, <2>1, <2>2, <2>3, <2>4 DEF StartTypes, Tables, Things
<1>12. InfosInv'
  <2>1. \A si, s : MadeFor(si, s)' = MadeFor(si, s)
    BY <1>1, <1>2 DEF MadeFor
  <2>2. \A p : Streams(p)' = Streams(p)
    BY <1>1, JobStays
  <2>3. \A p \in Children : Whose(p)' = p /\ Whose(p) = p
    BY <1>1, ProcessesAre DEF Whose
  <2>4. Len(info'[Parent]) = 0 /\ DOMAIN info'[Parent] = {} /\ Whose(Parent)' = current'
    BY <1>6 DEF Whose
  <2>5. \A p \in Children : Len(Streams(p)) >= 0
    <3>1. \A p \in Children : Streams(p) \in Seq(StreamSet)
      BY <1>1, StreamsAre
    <3> QED
      BY <3>1, Elements
  <2>6. \A p \in Children : /\ Len(info[p]) <= Len(Streams(p))
                            /\ \A k \in DOMAIN info[p] : MadeFor(info[p][k], Streams(p)[k])
    BY <1>1, <2>3, ProcessesAre DEF InfosInv
  <2>7. ASSUME NEW p \in Processes
        PROVE  /\ Len(info'[p]) <= Len(Streams(Whose(p))')
               /\ \A k \in DOMAIN info'[p] : MadeFor(info[p][k], Streams(Whose(p))[k])'
    <3>1. CASE p = Parent
      <4>1. Streams(Whose(p))' = Streams(current')
        BY <1>1, <2>4, <3>1 DEF Streams, StreamsOf, PipeIn, PipeOut
      <4> QED
        BY <1>7, <2>4, <2>5, <3>1, <4>1
    <3>2. CASE p # Parent
      <4>1. p \in Children
        BY <1>1, <3>2, ProcessesAre
      <4>2. Streams(Whose(p))' = Streams(p) /\ info'[p] = info[p]
        BY <1>1, <1>6, <2>3, <4>1 DEF Streams, StreamsOf, PipeIn, PipeOut
      <4> QED
        BY <2>1, <2>6, <4>1, <4>2
    <3> QED
      BY <3>1, <3>2
  <2>8. \A p \in Children :
          /\ IF at'[p] = "none" THEN info'[p] = <<>> ELSE Len(info'[p]) = Len(Streams(p))
          /\ done'[p] <= 2 * Len(info'[p])
    BY <1>1, <1>6 DEF InfosInv
  <2>9. \A p \in Children :
          p > current' \/ (p = current' /\ at'[Parent] \in {"begin", "streams"}) => at'[p] = "none"
    <3> SUFFICES ASSUME NEW p \in Children,
                        p > current' \/ (p = current' /\ at'[Parent] \in {"begin", "streams"})
                 PROVE  at'[p] = "none"
      OBVIOUS
    <3>1. p \in Nat /\ p <= NumChildren
      BY <1>1, ProcessesAre
    <3>2. p > current
      BY <1>2, <1>5, <1>6, <3>1
    <3> QED
      BY <1>1, <1>6, <3>2 DEF InfosInv
  <2>10. NumChildren <= pipes + 1
    BY <1>1 DEF InfosInv
  <2> QED
    BY <1>1, <1>2, <1>6, <2>2, <2>7, <2>8, <2>9, <2>10 DEF InfosInv
<1>13. Numbered'
  <2>1. Captured(Parent)' = {} /\ \A p \in Children : Captured(p)' = Captured(p)
    BY <1>6 DEF Captured
  <2> QED
    BY <1>1, <1>2, <1>6, <2>1 DEF Numbered
<1>14. ParentInv'
  <2>1. \A e \in EndNames, k \in 1..pipes : IsIn(table, PipeEnd(e, k)) <=> Due(e, k)'
    <3> SUFFICES ASSUME NEW e \in EndNames, NEW k \in 1..pipes
                 PROVE  IsIn(table, PipeEnd(e, k)) <=> Due(e, k)'
      OBVIOUS
    <3>1. Due(e, k)' <=> Due(e, k) /\ ~EndIsGone(e, k)
      BY DueAfterwards
    <3>2. IsIn(fds[Parent], PipeEnd(e, k)) <=> Due(e, k)
      BY <1>1 DEF ParentInv, EndsInv
    <3>3. (\E d \in gone : fds[Parent][d] = PipeEnd(e, k)) <=> EndIsGone(e, k)
      BY <1>1, <1>3, EndsAreGone
    <3>4. \A d, d2 \in Desc : fds[Parent][d] = fds[Parent][d2] /\ fds[Parent][d] # Free => d = d2
      BY <1>1 DEF ParentInv, EndsInv, Holds
    <3>5. PipeEnd(e, k) # Free /\ Beyond \subseteq Desc
      BY Apart DEF Beyond
    <3>6. IsIn(table, PipeEnd(e, k)) <=> /\ IsIn(fds[Parent], PipeEnd(e, k))
                                         /\ ~\E d \in gone : fds[Parent][d] = PipeEnd(e, k)
      BY <1>8, <1>9, <3>4, <3>5 DEF IsIn
    <3> QED
      BY <3>1, <3>2, <3>3, <3>6
  <2>2. Holds(fds[Parent], pipes)'
    BY <1>1, <1>2, <1>6, <1>10 DEF Holds
  <2>3. EndsInv'
    BY <1>1, <1>6, <2>1, <2>2 DEF EndsInv, IsIn
  <2>4. DOMAIN info'[Parent] = {} /\ at'[Parent] # "thrown"
    BY <1>6
  <2> QED
    BY <2>3, <2>4 DEF ParentInv
<1>15. ChildrenInv'
  BY <1>1, <1>6, ChildrenStay
<1> QED
  BY <1>11, <1>12, <1>13, <1>14, <1>15 DEF StartInv

-----------------------------------------------------------------------------
(***************************************************************************)
(* The steps of a child.                                                   *)
(***************************************************************************)

\* A child that exits is asked for nothing.
LEMMA ExitInv ==
  ASSUME StartInv, NEW p \in Children, at[p] # "none", Exit(p)
  PROVE  StartInv'
<1>1. Table({}) \in Tables
  BY ThingsAre DEF Table, Tables
<1>2. done' = [done EXCEPT ![p] = done[p]] /\ done[p] \in Nat /\ done[p] <= 2 * Len(info[p])
  BY ProcessesAre DEF StartInv, StartTypes, InfosInv, Exit
<1>3. /\ UNCHANGED <<job, pipes, info, current>>
      /\ fds' = [fds EXCEPT ![p] = Table({})] /\ at' = [at EXCEPT ![p] = "exited"]
  BY DEF Exit
<1>4. "exited" \in ChildSteps \ {"none"} /\ "exited" # "setup" /\ "exited" \notin {"exec", "running"}
  BY DEF ChildSteps
<1> QED
  BY <1>1, <1>2, <1>3, <1>4, ChildStep

\* The stream_infos of a child are those of its streams, with a descriptor
\* each; its handles are all for different ends.
LEMMA ChildInfos ==
  ASSUME StartInv, NEW p \in Children, at[p] # "none"
  PROVE  /\ info[p] \in Seq(InfoSet) /\ Len(info[p]) \in Nat /\ DOMAIN info[p] = 1..Len(info[p])
         /\ fds[p] \in Tables /\ done[p] \in Nat /\ done[p] <= 2 * Len(info[p])
         /\ \A k \in DOMAIN info[p] : info[p][k] \in InfoSet /\ MadeFor(info[p][k], Streams(p)[k])
         /\ \A k \in DOMAIN info[p] : info[p][k].type = "redirect" => info[p][k].to \in Desc
         /\ \A k, l \in DOMAIN info[p] : info[p][k].d = info[p][l].d => k = l
         /\ \A k, l \in DOMAIN info[p] :
              /\ info[p][k].type \in {"handle", "pipe"} /\ info[p][l].type \in {"handle", "pipe"}
              /\ info[p][k].pipe = info[p][l].pipe
              /\ info[p][k].type = "pipe" \/ info[p][l].type = "pipe" \/ info[p][k].out = info[p][l].out
              => k = l
         /\ NamedOpen => \A k \in DOMAIN info[p] :
              /\ info[p][k].d \in job.open
              /\ info[p][k].type = "redirect" =>
                   /\ info[p][k].to \in job.open
                   /\ \A l \in DOMAIN info[p] : info[p][l].d = info[p][k].to => info[p][l].type # "redirect"
<1> DEFINE infos == info[p]
           streams == Streams(p)
<1>1. /\ job \in Jobs /\ p \in Processes /\ infos \in Seq(InfoSet) /\ Whose(p) = p
      /\ Len(infos) = Len(streams) /\ fds[p] \in Tables /\ done[p] \in Nat /\ done[p] <= 2 * Len(infos)
  BY ProcessesAre DEF StartInv, StartTypes, InfosInv, Whose
<1>2. /\ streams \in Seq(StreamSet)
      /\ \A k, l \in 1..Len(streams) : streams[k].d = streams[l].d => k = l
      /\ \A k \in 1..Len(streams) :
           LET s == streams[k]
           IN /\ s \in StreamSet
              /\ s.behavior = "pipein" => p > 1 /\ ~s.out /\ s.d = 0 /\ s.to = p - 1
              /\ s.behavior = "pipeout" => p < NumChildren /\ s.out /\ s.d = 1 /\ s.to = p
              /\ s.behavior = "redirect" => s.out /\ s.to \in Desc
  BY <1>1, StreamsAre, Elements
<1>3. /\ DOMAIN infos = 1..Len(infos) /\ DOMAIN streams = 1..Len(infos) /\ Len(infos) \in Nat
      /\ \A k \in 1..Len(infos) : infos[k] \in InfoSet
  BY <1>1, <1>2, Elements
<1>4. \A k \in 1..Len(infos) : MadeFor(infos[k], streams[k])
  BY <1>1, <1>3 DEF StartInv, InfosInv
<1>5. \A b \in StreamBehaviors : /\ TypeFor(b) = "handle" <=> b \in {"pipein", "pipeout"}
                                 /\ TypeFor(b) = "redirect" <=> b = "redirect"
  BY DEF TypeFor, StreamBehaviors
<1>6. \A s \in StreamSet : s.behavior \in StreamBehaviors
  BY DEF StreamSet
<1>7. ASSUME NEW k \in 1..Len(infos)
      PROVE  /\ infos[k].d = streams[k].d
             /\ infos[k].to = streams[k].to
             /\ infos[k].type = "redirect" <=> streams[k].behavior = "redirect"
             /\ infos[k].type = "handle" =>
                  \/ ~infos[k].out /\ infos[k].d = 0 /\ infos[k].pipe = p - 1 /\ p > 1
                  \/ infos[k].out /\ infos[k].d = 1 /\ infos[k].pipe = p /\ p < NumChildren
             /\ infos[k].type = "pipe" => infos[k].pipe \in NumChildren..pipes
  <2>1. PICK si, s : si = infos[k] /\ s = streams[k]
    OBVIOUS
  <2>2. MadeFor(si, s) /\ s \in StreamSet /\ k \in 1..Len(streams)
    BY <1>1, <1>2, <1>4, <2>1
  <2>3. si.type = "handle" <=> s.behavior \in {"pipein", "pipeout"}
    BY <1>5, <1>6, <2>2 DEF MadeFor
  <2>4. si.type = "redirect" <=> s.behavior = "redirect"
    BY <1>5, <1>6, <2>2 DEF MadeFor
  <2>5. /\ s.behavior = "pipein" => p > 1 /\ ~s.out /\ s.d = 0 /\ s.to = p - 1
        /\ s.behavior = "pipeout" => p < NumChildren /\ s.out /\ s.d = 1 /\ s.to = p
    BY <1>2, <2>1, <2>2
  <2>6. si.type = "handle" => \/ ~si.out /\ si.d = 0 /\ si.pipe = p - 1 /\ p > 1
                              \/ si.out /\ si.d = 1 /\ si.pipe = p /\ p < NumChildren
    BY <2>2, <2>3, <2>5 DEF MadeFor
  <2>7. si.type = "pipe" => si.pipe \in NumChildren..pipes
    BY <2>2 DEF MadeFor
  <2>8. si.d = s.d /\ si.to = s.to
    BY <2>2 DEF MadeFor
  <2> QED
    BY <2>1, <2>4, <2>6, <2>7, <2>8
<1>8. \A k \in 1..Len(infos) : infos[k].type = "redirect" => infos[k].to \in Desc
  BY <1>1, <1>2, <1>7
<1>9. \A k, l \in 1..Len(infos) : infos[k].d = infos[l].d => k = l
  BY <1>1, <1>2, <1>7
<1>10. ASSUME NEW k \in 1..Len(infos), NEW l \in 1..Len(infos),
              infos[k].type \in {"handle", "pipe"}, infos[l].type \in {"handle", "pipe"},
              infos[k].pipe = infos[l].pipe,
              infos[k].type = "pipe" \/ infos[l].type = "pipe" \/ infos[k].out = infos[l].out
       PROVE  k = l
  <2>1. p \in Nat /\ p <= NumChildren /\ NumChildren \in Nat /\ pipes \in Nat
    BY <1>1, ProcessesAre DEF StartInv, StartTypes
  <2>2. \A m \in 1..Len(infos) : /\ infos[m].type = "handle" => infos[m].pipe < NumChildren
                                 /\ infos[m].type = "pipe" => ~(infos[m].pipe < NumChildren)
    BY <1>7, <2>1
  <2>3. infos[k].type = infos[l].type
    BY <1>10, <2>2
  <2>4. CASE infos[k].type = "pipe" /\ infos[l].type = "pipe"
    BY <1>3, <1>10, <2>4 DEF StartInv, Numbered, Captured
  <2>5. CASE infos[k].type = "handle" /\ infos[l].type = "handle"
    BY <1>7, <1>9, <1>10, <2>5
  <2> QED
    BY <1>10, <2>3, <2>4, <2>5
<1>11. ASSUME NamedOpen, NEW k \in 1..Len(infos)
       PROVE  /\ infos[k].d \in job.open
              /\ infos[k].type = "redirect" =>
                   /\ infos[k].to \in job.open
                   /\ \A l \in 1..Len(infos) : infos[l].d = infos[k].to => infos[l].type # "redirect"
  <2>1. \A m \in 1..Len(infos) :
          /\ streams[m].d \in job.open
          /\ streams[m].behavior = "redirect" =>
               /\ streams[m].to \in job.open
               /\ \A l \in 1..Len(infos) : streams[l].d = streams[m].to => streams[l].behavior # "redirect"
    BY <1>3, <1>11 DEF NamedOpen, Children
  <2> QED
    BY <1>7, <2>1
<1> HIDE DEF infos, streams
<1>12. \A k \in DOMAIN infos : infos[k] \in InfoSet /\ MadeFor(infos[k], streams[k])
  BY <1>3, <1>4
<1>13. NamedOpen => \A k \in DOMAIN infos :
              /\ infos[k].d \in job.open
              /\ infos[k].type = "redirect" =>
                   /\ infos[k].to \in job.open
                   /\ \A l \in DOMAIN infos : infos[l].d = infos[k].to => infos[l].type # "redirect"
  BY <1>3, <1>11
<1> QED
  BY <1>1, <1>3, <1>8, <1>9, <1>10, <1>12, <1>13 DEF infos, streams

\* The descriptors at which a stream_info has its handles.
HandlesOf(si) == {d \in {si.handle, si.rend, si.wend} : d \in Desc}

\* The table after a stream was set up.
Moved(table, si) == Remap(Prepared(table, si), Given(table, si), si.d)

\* A descriptor is moved to another number.
LEMMA RemapKeeps ==
  ASSUME NEW table \in Tables, NEW from \in Desc, NEW d
  PROVE  /\ Remap(table, from, d) \in Tables
         /\ from # d => \A x \in Desc : Remap(table, from, d)[x] =
                          IF x = from THEN Free ELSE IF x = d THEN table[from] ELSE table[x]
<1>1. table[from] \in Things /\ Free \in Things
  BY ThingsAre DEF Tables
<1>2. /\ Dup2(table, from, d) \in Tables
      /\ \A x \in Desc : Dup2(table, from, d)[x] = IF x = d THEN table[from] ELSE table[x]
  BY <1>1, TableKeeps DEF Dup2
<1>3. PICK two : two = Dup2(table, from, d)
  OBVIOUS
<1>4. /\ Closed(two, from) \in Tables
      /\ \A x \in Desc : Closed(two, from)[x] = IF x = from THEN Free ELSE two[x]
  <2>1. two \in Tables
    BY <1>2, <1>3
  <2> QED
    BY <1>1, <2>1, TableKeeps DEF Closed
<1>5. Remap(table, from, d) = IF from = d THEN table ELSE Closed(two, from)
  BY <1>3 DEF Remap
<1> QED
  BY <1>2, <1>3, <1>4, <1>5

\* Setting a stream up moves what it is given to its descriptor.
LEMMA SetUpMoves ==
  ASSUME NEW table \in Tables, NEW si \in InfoSet, NEW s, MadeFor(si, s),
         si.type = "file" => ~IsFull(table)
  PROVE  /\ Moved(table, si) \in Tables
         /\ /\ si.d \in job.open /\ job.open \subseteq Desc
            /\ table[si.d] = Own(si.d) /\ Leads(table, si)
            => \A x \in Desc : Moved(table, si)[x] =
                 IF x = si.d THEN IF si.type = "redirect" THEN table[x] ELSE Meant(si)
                 ELSE IF x \in HandlesOf(si) THEN Free ELSE table[x]
<1>1. /\ si.type \in Types /\ Beyond \subseteq Desc /\ -1 \notin Desc
      /\ IF si.type = "handle" THEN si.handle \in Beyond ELSE si.handle = -1
      /\ IF si.type = "pipe" THEN si.rend \in Beyond /\ si.wend \in Beyond
                             ELSE si.rend = -1 /\ si.wend = -1
  BY DescIsNat DEF InfoSet, MadeFor, Beyond
<1>2. PICK given : given = Given(table, si)
  OBVIOUS
<1>3. PICK prepared : prepared = Prepared(table, si)
  OBVIOUS
<1>4. Moved(table, si) = Remap(prepared, given, si.d)
  BY <1>2, <1>3 DEF Moved
<1>5. CASE si.type \in {"inherit", "redirect"}
  <2>1. given = si.d /\ prepared = table
    BY <1>2, <1>3, <1>5 DEF Given, Prepared
  <2>2. Moved(table, si) = table
    BY <1>4, <2>1 DEF Remap
  <2>3. HandlesOf(si) = {}
    BY <1>1, <1>5 DEF HandlesOf
  <2>4. si.type = "inherit" /\ si.d \in job.open => Meant(si) = Own(si.d)
    BY DEF Meant, Before
  <2> QED
    BY <1>5, <2>2, <2>3, <2>4
<1>6. CASE si.type = "file"
  <2>1. given = Lowest(table) /\ prepared = Opened(table, File)
    BY <1>2, <1>3, <1>6 DEF Given, Prepared, File
  <2>2. given \in Desc /\ table[given] = Free
    BY <1>6, <2>1, LowestIsFree
  <2>3. /\ prepared \in Tables
        /\ \A x \in Desc : prepared[x] = IF x = given THEN File ELSE table[x]
    <3>1. prepared = [table EXCEPT ![given] = File] /\ File \in Things
      BY <2>1, ThingsAre DEF Opened
    <3>2. /\ [table EXCEPT ![given] = File] \in Tables
          /\ \A x \in Desc : [table EXCEPT ![given] = File][x] = IF x = given THEN File ELSE table[x]
      BY <3>1 DEF Tables
    <3> QED
      BY <3>1, <3>2
  <2>4. Moved(table, si) \in Tables
    BY <1>4, <2>2, <2>3, RemapKeeps
  <2>5. ASSUME si.d \in job.open, job.open \subseteq Desc, table[si.d] = Own(si.d), NEW x \in Desc
        PROVE  Moved(table, si)[x] = IF x = si.d THEN File ELSE table[x]
    <3>1. given # si.d
      BY <2>2, <2>5, Apart
    <3>2. Moved(table, si)[x] = IF x = given THEN Free ELSE IF x = si.d THEN prepared[given] ELSE prepared[x]
      BY <1>4, <2>2, <2>3, <3>1, RemapKeeps
    <3> QED
      BY <2>2, <2>3, <3>1, <3>2
  <2>6. HandlesOf(si) = {} /\ Meant(si) = File
    BY <1>1, <1>6 DEF HandlesOf, Meant, File
  <2> QED
    BY <1>6, <2>4, <2>5, <2>6
<1>7. CASE si.type = "handle"
  <2>1. given = si.handle /\ prepared = table /\ given \in Desc
    BY <1>1, <1>2, <1>3, <1>7 DEF Given, Prepared
  <2>2. Moved(table, si) \in Tables
    BY <1>4, <2>1, RemapKeeps
  <2>3. HandlesOf(si) = {given} /\ Meant(si) = ChildEnd(si)
    BY <1>1, <1>7, <2>1 DEF HandlesOf, Meant, ChildEnd
  <2>4. ASSUME si.d \in job.open, Leads(table, si), NEW x \in Desc
        PROVE  Moved(table, si)[x] = IF x = si.d THEN ChildEnd(si)
                                     ELSE IF x = given THEN Free ELSE table[x]
    <3>1. given # si.d
      BY <1>1, <1>7, <2>1, <2>4 DEF Beyond
    <3>2. table[given] = ChildEnd(si)
      BY <1>7, <2>1, <2>4 DEF Leads
    <3> QED
      BY <1>4, <2>1, <3>1, <3>2, RemapKeeps
  <2> QED
    BY <1>7, <2>2, <2>3, <2>4
<1>8. CASE si.type = "pipe"
  <2>1. PICK other : other = IF si.out THEN si.rend ELSE si.wend
    OBVIOUS
  <2>2. /\ given = IF si.out THEN si.wend ELSE si.rend
        /\ prepared = Closed(table, other) /\ given \in Desc /\ other \in Desc
    BY <1>1, <1>2, <1>3, <1>8, <2>1 DEF Given, Prepared
  <2>3. /\ prepared \in Tables
        /\ \A x \in Desc : prepared[x] = IF x = other THEN Free ELSE table[x]
    <3>1. prepared = [table EXCEPT ![other] = Free] /\ Free \in Things
      BY <2>2, ThingsAre DEF Closed
    <3>2. /\ [table EXCEPT ![other] = Free] \in Tables
          /\ \A x \in Desc : [table EXCEPT ![other] = Free][x] = IF x = other THEN Free ELSE table[x]
      BY <3>1 DEF Tables
    <3> QED
      BY <3>1, <3>2
  <2>4. Moved(table, si) \in Tables
    BY <1>4, <2>2, <2>3, RemapKeeps
  <2>5. HandlesOf(si) = {given, other} /\ Meant(si) = ChildEnd(si)
    <3>1. HandlesOf(si) = {si.rend, si.wend}
      BY <1>1, <1>8 DEF HandlesOf
    <3> QED
      BY <1>8, <2>1, <2>2, <3>1 DEF Meant, ChildEnd
  <2>6. ASSUME si.d \in job.open, Leads(table, si), NEW x \in Desc
        PROVE  Moved(table, si)[x] = IF x = si.d THEN ChildEnd(si)
                                     ELSE IF x \in {given, other} THEN Free ELSE table[x]
    <3>1. given # si.d /\ other # si.d
      BY <1>1, <1>8, <2>1, <2>2, <2>6 DEF Beyond
    <3>2. table[given] = ChildEnd(si) /\ table[other] = OtherEnd(si)
      BY <1>8, <2>1, <2>2, <2>6 DEF Leads, ChildEnd, OtherEnd
    <3>3. given # other
      <4>1. ChildEnd(si) # OtherEnd(si)
        <5>1. "read" \in EndNames /\ "write" \in EndNames /\ "read" # "write"
          BY DEF EndNames
        <5> QED
          BY <5>1, Apart DEF ChildEnd, OtherEnd
      <4> QED
        BY <3>2, <4>1
    <3>4. Moved(table, si)[x] = IF x = given THEN Free ELSE IF x = si.d THEN prepared[given] ELSE prepared[x]
      BY <1>4, <2>2, <2>3, <3>1, RemapKeeps
    <3> QED
      BY <2>2, <2>3, <3>1, <3>2, <3>3, <3>4
  <2> QED
    BY <1>8, <2>4, <2>5, <2>6
<1> QED
  BY <1>1, <1>5, <1>6, <1>7, <1>8 DEF Types

\* The handles of two stream_infos that lead to different ends are apart.
LEMMA HandlesApart ==
  ASSUME NEW table, NEW si \in InfoSet, NEW si2 \in InfoSet, Leads(table, si), Leads(table, si2),
         NEW s, NEW s2, MadeFor(si, s), MadeFor(si2, s2),
         ~(/\ si.type \in {"handle", "pipe"} /\ si2.type \in {"handle", "pipe"}
           /\ si.pipe = si2.pipe
           /\ si.type = "pipe" \/ si2.type = "pipe" \/ si.out = si2.out)
  PROVE  HandlesOf(si) \cap HandlesOf(si2) = {}
<1>1. -1 \notin Desc /\ Beyond \subseteq Desc
  BY DescIsNat DEF Beyond
<1>2. \A x, z : MadeFor(x, z) =>
        HandlesOf(x) \subseteq CASE x.type = "handle" -> {x.handle}
                                 [] x.type = "pipe" -> {x.rend, x.wend}
                                 [] OTHER -> {}
  BY <1>1 DEF MadeFor, HandlesOf
<1>3. ASSUME NEW x \in InfoSet, NEW z, MadeFor(x, z), Leads(table, x), NEW d \in HandlesOf(x)
      PROVE  /\ x.type \in {"handle", "pipe"}
             /\ x.type = "handle" => table[d] = ChildEnd(x)
             /\ \E e \in EndNames : table[d] = PipeEnd(e, x.pipe)
  <2>1. x.type = "handle" \/ x.type = "pipe"
    BY <1>2, <1>3
  <2>2. "read" \in EndNames /\ "write" \in EndNames
    BY DEF EndNames
  <2>3. CASE x.type = "handle"
    <3>1. d = x.handle
      BY <1>2, <1>3, <2>3
    <3> QED
      BY <1>3, <2>2, <2>3, <3>1 DEF Leads, ChildEnd
  <2>4. CASE x.type = "pipe"
    <3>1. d = x.rend \/ d = x.wend
      BY <1>2, <1>3, <2>4
    <3> QED
      BY <1>3, <2>2, <2>4, <3>1 DEF Leads
  <2> QED
    BY <2>1, <2>3, <2>4
<1>4. ASSUME NEW d \in HandlesOf(si), d \in HandlesOf(si2) PROVE FALSE
  <2>1. /\ si.type \in {"handle", "pipe"} /\ si2.type \in {"handle", "pipe"}
        /\ si.type = "handle" => table[d] = ChildEnd(si)
        /\ si2.type = "handle" => table[d] = ChildEnd(si2)
    BY <1>3, <1>4
  <2>2. si.pipe = si2.pipe
    <3>1. PICK e \in EndNames : table[d] = PipeEnd(e, si.pipe)
      BY <1>3
    <3>2. PICK e2 \in EndNames : table[d] = PipeEnd(e2, si2.pipe)
      BY <1>3, <1>4
    <3>3. PipeEnd(e, si.pipe) = PipeEnd(e2, si2.pipe)
      BY <3>1, <3>2
    <3> QED
      BY <3>3 DEF PipeEnd
  <2>3. si.out \in BOOLEAN /\ si2.out \in BOOLEAN
    BY DEF InfoSet
  <2>4. si.type = "handle" /\ si2.type = "handle" => si.out = si2.out
    <3> SUFFICES ASSUME si.type = "handle", si2.type = "handle" PROVE si.out = si2.out
      OBVIOUS
    <3>1. ChildEnd(si) = ChildEnd(si2) /\ "read" \in EndNames /\ "write" \in EndNames /\ "read" # "write"
      BY <2>1 DEF EndNames
    <3> QED
      BY <2>3, <3>1, Apart DEF ChildEnd
  <2> QED
    BY <2>1, <2>2, <2>4
<1> QED
  BY <1>4

\* A stream is set up: those set up before it and those to come are kept.
LEMMA SetUpInv ==
  ASSUME StartInv, NEW p \in Children, SetUp(p)
  PROVE  StartInv'
<1>1. at[p] = "setup" /\ done[p] < Len(info[p])
  BY DEF SetUp, IsStarting
<1>2. /\ info[p] \in Seq(InfoSet) /\ Len(info[p]) \in Nat /\ DOMAIN info[p] = 1..Len(info[p])
      /\ fds[p] \in Tables /\ done[p] \in Nat
      /\ \A k \in DOMAIN info[p] : info[p][k] \in InfoSet /\ MadeFor(info[p][k], Streams(p)[k])
  BY <1>1, ChildInfos
<1>3. PICK i : i = done[p] + 1
  OBVIOUS
<1>4. i \in DOMAIN info[p] /\ i \in Nat /\ i <= Len(info[p])
  BY <1>1, <1>2, <1>3
<1>5. PICK si : si = info[p][i]
  OBVIOUS
<1>6. PICK table : table = Moved(fds[p], si)
  OBVIOUS
<1>7. CASE Exit(p)
  BY <1>1, <1>7, ExitInv
<1>8. CASE /\ si.type = "file" => ~IsFull(fds[p])
           /\ fds' = [fds EXCEPT ![p] = table]
           /\ done' = [done EXCEPT ![p] = @ + 1]
           /\ UNCHANGED <<job, pipes, info, at, current>>
  <2>1. MadeFor(si, Streams(p)[i]) /\ si \in InfoSet /\ job \in Jobs /\ p \in Processes
    BY <1>2, <1>4, <1>5, ProcessesAre DEF StartInv, StartTypes
  <2>2. PICK s : s = Streams(p)[i]
    OBVIOUS
  <2>3. /\ table \in Tables
        /\ /\ si.d \in job.open /\ job.open \subseteq Desc
           /\ fds[p][si.d] = Own(si.d) /\ Leads(fds[p], si)
           => \A x \in Desc : table[x] =
                IF x = si.d THEN IF si.type = "redirect" THEN fds[p][x] ELSE Meant(si)
                ELSE IF x \in HandlesOf(si) THEN Free ELSE fds[p][x]
    BY <1>2, <1>6, <1>8, <2>1, <2>2, SetUpMoves
  <2>4. /\ at' = [at EXCEPT ![p] = "setup"] /\ i <= 2 * Len(info[p])
        /\ done' = [done EXCEPT ![p] = i] /\ "setup" \in ChildSteps \ {"none"}
    <3>1. at \in [Processes -> ParentSteps \cup ChildSteps]
      BY DEF StartInv, StartTypes
    <3>2. i <= 2 * Len(info[p])
      BY <1>2, <1>4
    <3> QED
      BY <1>1, <1>3, <1>8, <3>1, <3>2 DEF ChildSteps
  <2>5. /\ fds'[p] = table /\ info'[p] = info[p] /\ done'[p] = i /\ job' = job
    BY <1>8, <2>1, <2>4 DEF StartInv, StartTypes
  <2>6. ASSUME NamedOpen PROVE SettingUp(p)'
    <3>1. SettingUp(p)
      BY <1>1, <2>6 DEF StartInv, ChildrenInv
    <3>2. /\ \A k \in DOMAIN info[p] : info[p][k].d \in job.open
          /\ \A k, l \in DOMAIN info[p] : info[p][k].d = info[p][l].d => k = l
          /\ job.open \subseteq Desc
      BY <1>1, <2>1, <2>6, ChildInfos, NumChildrenIs
    <3>3. ASSUME NEW k \in DOMAIN info[p]
          PROVE  /\ IsSetUp(p, k)' <=> IsSetUp(p, k) \/ (k = i /\ si.type # "redirect")
                 /\ k = i => ~IsSetUp(p, k)
                 /\ k > i => k > done[p] /\ k # i
      <4>1. k \in Nat /\ k >= 1
        BY <1>2
      <4>2. IsSetUp(p, k)' <=> IF info[p][k].type = "redirect" THEN Len(info[p]) + k <= i ELSE k <= i
        BY <2>5 DEF IsSetUp
      <4> QED
        BY <1>2, <1>3, <1>4, <1>5, <4>1, <4>2 DEF IsSetUp
    <3>4. i > done[p]
      BY <1>2, <1>3
    <3>5. fds[p][si.d] = Own(si.d) /\ Leads(fds[p], si) /\ si.d \in job.open
      BY <1>4, <1>5, <3>1, <3>2, <3>3, <3>4 DEF SettingUp
    <3>6. \A x \in Desc : table[x] =
            IF x = si.d THEN IF si.type = "redirect" THEN fds[p][x] ELSE Meant(si)
            ELSE IF x \in HandlesOf(si) THEN Free ELSE fds[p][x]
      BY <2>3, <3>2, <3>5
    <3>7. HandlesOf(si) \subseteq Beyond
      <4>1. -1 \notin Desc
        BY DescIsNat
      <4> QED
        BY <2>1, <4>1 DEF MadeFor, HandlesOf
    <3>8. \A x \in job.open : x # si.d => table[x] = fds[p][x]
      BY <3>2, <3>6, <3>7 DEF Beyond
    <3>9. \A d \in job.open \ Named(p) : table[d] = Own(d)
      BY <1>4, <1>5, <3>1, <3>8 DEF SettingUp, Named
    <3>10. \A k \in DOMAIN info[p] : Final(p, k)' <=> table[info[p][k].d] =
             IF info[p][k].type = "redirect" THEN MeantAt(p, info[p][k].to) ELSE Meant(info[p][k])
      BY <2>5 DEF Final, MeantAt, Meant, Before
    <3>11. ASSUME NEW k \in DOMAIN info[p]
           PROVE  IF IsSetUp(p, k)' THEN Final(p, k)' ELSE table[info[p][k].d] = Own(info[p][k].d)
      <4>1. CASE k = i
        <5>1. CASE si.type = "redirect"
          BY <1>5, <3>2, <3>3, <3>5, <3>6, <4>1, <5>1
        <5>2. CASE si.type # "redirect"
          <6>1. table[si.d] = Meant(si)
            BY <3>2, <3>5, <3>6, <5>2
          <6> QED
            BY <1>5, <3>3, <3>10, <4>1, <5>2, <6>1
        <5> QED
          BY <5>1, <5>2
      <4>2. CASE k # i
        <5>1. table[info[p][k].d] = fds[p][info[p][k].d]
          BY <1>4, <1>5, <3>2, <3>8, <4>2
        <5>2. IsSetUp(p, k)' <=> IsSetUp(p, k)
          BY <3>3, <4>2
        <5>3. IF IsSetUp(p, k) THEN Final(p, k) ELSE fds[p][info[p][k].d] = Own(info[p][k].d)
          BY <3>1 DEF SettingUp
        <5>4. Final(p, k) => Final(p, k)'
          BY <3>10, <5>1 DEF Final
        <5> QED
          BY <5>1, <5>2, <5>3, <5>4
      <4> QED
        BY <4>1, <4>2
    <3>12. ASSUME NEW k \in DOMAIN info[p], k > i PROVE Leads(table, info[p][k])
      <4>1. PICK sk : sk = info[p][k]
        OBVIOUS
      <4>2. Leads(fds[p], sk) /\ MadeFor(sk, Streams(p)[k]) /\ sk \in InfoSet /\ k # i
        BY <1>2, <3>1, <3>3, <3>12, <4>1 DEF SettingUp
      <4>3. ~(/\ si.type \in {"handle", "pipe"} /\ sk.type \in {"handle", "pipe"}
              /\ si.pipe = sk.pipe
              /\ si.type = "pipe" \/ sk.type = "pipe" \/ si.out = sk.out)
        BY <1>1, <1>4, <1>5, <4>1, <4>2, ChildInfos
      <4>4. HandlesOf(si) \cap HandlesOf(sk) = {}
        BY <2>1, <3>5, <4>2, <4>3, HandlesApart
      <4>5. \A x \in Beyond \cap HandlesOf(sk) : table[x] = fds[p][x]
        BY <3>5, <3>6, <4>4 DEF Beyond
      <4>6. /\ sk.type = "handle" => sk.handle \in Beyond \cap HandlesOf(sk)
            /\ sk.type = "pipe" => sk.rend \in Beyond \cap HandlesOf(sk) /\ sk.wend \in Beyond \cap HandlesOf(sk)
        BY <4>2 DEF MadeFor, Beyond, HandlesOf
      <4>7. Leads(table, sk)
        BY <4>2, <4>5, <4>6 DEF Leads
      <4> QED
        BY <4>1, <4>7
    <3>13. \A k : Leads(fds[p], info[p][k])' <=> Leads(table, info[p][k])
      BY <2>5 DEF Leads, ChildEnd
    <3>14. Named(p)' = Named(p)
      BY <2>5 DEF Named
    <3> QED
      BY <2>5, <3>9, <3>11, <3>12, <3>13, <3>14 DEF SettingUp
  <2> QED
    BY <1>1, <1>4, <1>8, <2>3, <2>4, <2>6, ChildStep
<1> QED
  <2>1. Moved(fds[p], si) = Remap(Prepared(fds[p], si), Given(fds[p], si), si.d)
    BY DEF Moved
  <2> QED
    BY <1>3, <1>5, <1>6, <1>7, <1>8, <2>1 DEF SetUp

\* A stream is redirected, to one that was set up in the first round.
LEMMA RedirectInv ==
  ASSUME StartInv, NEW p \in Children, Redirect(p)
  PROVE  StartInv'
<1>1. at[p] = "setup" /\ done[p] >= Len(info[p]) /\ Redirects(p) # {}
  BY DEF Redirect, IsStarting
<1>2. /\ info[p] \in Seq(InfoSet) /\ Len(info[p]) \in Nat /\ DOMAIN info[p] = 1..Len(info[p])
      /\ fds[p] \in Tables /\ done[p] \in Nat
      /\ \A k \in DOMAIN info[p] : info[p][k].type = "redirect" => info[p][k].to \in Desc
      /\ \A k, l \in DOMAIN info[p] : info[p][k].d = info[p][l].d => k = l
  BY <1>1, ChildInfos
<1>3. PICK i : i = Min(Redirects(p))
  OBVIOUS
<1>4. /\ i \in DOMAIN info[p] /\ info[p][i].type = "redirect" /\ Len(info[p]) + i > done[p]
      /\ \A k \in Redirects(p) : i <= k
  <2>1. Redirects(p) \in SUBSET Nat
    BY <1>2 DEF Redirects
  <2>2. i \in Redirects(p) /\ \A k \in Redirects(p) : i <= k
    BY <1>1, <1>3, <2>1, Minimum
  <2> QED
    BY <2>2 DEF Redirects
<1>5. i \in Nat /\ i >= 1 /\ i <= Len(info[p])
  BY <1>2, <1>4
<1>6. PICK si : si = info[p][i]
  OBVIOUS
<1>7. PICK table : table = Dup2(fds[p], si.to, si.d)
  OBVIOUS
<1>8. CASE Exit(p)
  BY <1>1, <1>8, ExitInv
<1>9. CASE /\ fds' = [fds EXCEPT ![p] = table]
           /\ done' = [done EXCEPT ![p] = Len(info[p]) + i]
           /\ UNCHANGED <<job, pipes, info, at, current>>
  <2>1. p \in Processes /\ job \in Jobs
    BY ProcessesAre DEF StartInv, StartTypes
  <2>2. table \in Tables /\ \A x \in Desc : table[x] = IF x = si.d THEN fds[p][si.to] ELSE fds[p][x]
    <3>1. table = [fds[p] EXCEPT ![si.d] = fds[p][si.to]] /\ fds[p][si.to] \in Things
      BY <1>2, <1>4, <1>6, <1>7 DEF Dup2, Tables
    <3> QED
      BY <1>2, <3>1 DEF Tables
  <2>3. /\ at' = [at EXCEPT ![p] = "setup"] /\ "setup" \in ChildSteps \ {"none"}
        /\ Len(info[p]) + i \in Nat /\ Len(info[p]) + i <= 2 * Len(info[p])
    <3>1. at \in [Processes -> ParentSteps \cup ChildSteps]
      BY DEF StartInv, StartTypes
    <3>2. Len(info[p]) + i \in Nat /\ Len(info[p]) + i <= 2 * Len(info[p])
      BY <1>2, <1>5
    <3> QED
      BY <1>1, <1>9, <3>1, <3>2 DEF ChildSteps
  <2>4. /\ fds'[p] = table /\ info'[p] = info[p] /\ done'[p] = Len(info[p]) + i /\ job' = job
    BY <1>9, <2>1 DEF StartInv, StartTypes
  <2>5. ASSUME NamedOpen PROVE SettingUp(p)'
    <3>1. SettingUp(p)
      BY <1>1, <2>5 DEF StartInv, ChildrenInv
    <3>2. /\ \A k \in DOMAIN info[p] : info[p][k].d \in job.open
          /\ si.to \in job.open /\ job.open \subseteq Desc
          /\ \A l \in DOMAIN info[p] : info[p][l].d = si.to => info[p][l].type # "redirect"
      BY <1>1, <1>4, <1>6, <2>1, <2>5, ChildInfos, NumChildrenIs
    <3>3. ASSUME NEW k \in DOMAIN info[p]
          PROVE  /\ IsSetUp(p, k)' <=> IsSetUp(p, k) \/ k = i
                 /\ info[p][k].type # "redirect" => IsSetUp(p, k)
                 /\ ~(k > done'[p])
      <4>1. k \in Nat /\ k >= 1 /\ k <= Len(info[p])
        BY <1>2
      <4>2. IsSetUp(p, k)' <=> IF info[p][k].type = "redirect" THEN Len(info[p]) + k <= Len(info[p]) + i
                                                               ELSE k <= Len(info[p]) + i
        BY <2>4 DEF IsSetUp
      <4>3. info[p][k].type # "redirect" => IsSetUp(p, k) /\ IsSetUp(p, k)'
        BY <1>1, <1>2, <1>5, <4>1, <4>2 DEF IsSetUp
      <4>4. info[p][k].type = "redirect" => (IsSetUp(p, k)' <=> IsSetUp(p, k) \/ k = i)
        <5> SUFFICES ASSUME info[p][k].type = "redirect"
                     PROVE  Len(info[p]) + k <= Len(info[p]) + i <=> Len(info[p]) + k <= done[p] \/ k = i
          BY <4>2 DEF IsSetUp
        <5>1. Len(info[p]) + k > done[p] => i <= k
          BY <1>4 DEF Redirects
        <5> QED
          BY <1>2, <1>4, <1>5, <4>1, <5>1
      <4>5. ~(k > done'[p])
        BY <1>2, <1>5, <2>4, <4>1
      <4> QED
        BY <1>4, <4>3, <4>4, <4>5
    <3>4. fds[p][si.to] = MeantAt(p, si.to)
      <4>1. CASE si.to \in Named(p)
        <5>1. PICK l \in DOMAIN info[p] : info[p][l].d = si.to
          BY <4>1 DEF Named
        <5>2. IsSetUp(p, l) /\ info[p][l].type # "redirect"
          BY <3>2, <3>3, <5>1
        <5>3. fds[p][si.to] = Meant(info[p][l])
          BY <3>1, <5>1, <5>2 DEF SettingUp, Final
        <5>4. {k \in DOMAIN info[p] : info[p][k].d = si.to} = {l}
          BY <1>2, <5>1
        <5>5. MeantAt(p, si.to) = Meant(info[p][CHOOSE k \in {l} : TRUE])
          BY <5>4 DEF MeantAt
        <5>6. (CHOOSE k \in {l} : TRUE) = l
          OBVIOUS
        <5> QED
          BY <5>3, <5>5, <5>6
      <4>2. CASE si.to \notin Named(p)
        <5>1. {k \in DOMAIN info[p] : info[p][k].d = si.to} = {}
          BY <4>2 DEF Named
        <5>2. MeantAt(p, si.to) = Own(si.to)
          BY <3>2, <5>1 DEF MeantAt, Before
        <5> QED
          BY <3>1, <3>2, <4>2, <5>2 DEF SettingUp
      <4> QED
        BY <4>1, <4>2
    <3>5. \A k \in DOMAIN info[p] : Final(p, k)' <=> table[info[p][k].d] =
             IF info[p][k].type = "redirect" THEN MeantAt(p, info[p][k].to) ELSE Meant(info[p][k])
      BY <2>4 DEF Final, MeantAt, Meant, Before
    <3>6. \A d \in job.open \ Named(p) : table[d] = Own(d)
      <4>1. si.d \in Named(p)
        BY <1>4, <1>6 DEF Named
      <4> QED
        BY <2>2, <3>1, <3>2, <4>1 DEF SettingUp
    <3>7. ASSUME NEW k \in DOMAIN info[p]
          PROVE  IF IsSetUp(p, k)' THEN Final(p, k)' ELSE table[info[p][k].d] = Own(info[p][k].d)
      <4>1. CASE k = i
        <5>1. table[si.d] = MeantAt(p, si.to)
          BY <1>4, <1>6, <2>2, <3>2, <3>4
        <5> QED
          BY <1>4, <1>6, <3>3, <3>5, <4>1, <5>1
      <4>2. CASE k # i
        <5>1. table[info[p][k].d] = fds[p][info[p][k].d]
          BY <1>2, <1>4, <1>6, <2>2, <3>2, <4>2
        <5>2. IsSetUp(p, k)' <=> IsSetUp(p, k)
          BY <3>3, <4>2
        <5>3. IF IsSetUp(p, k) THEN Final(p, k) ELSE fds[p][info[p][k].d] = Own(info[p][k].d)
          BY <3>1 DEF SettingUp
        <5>4. Final(p, k) => Final(p, k)'
          BY <3>5, <5>1 DEF Final
        <5> QED
          BY <5>1, <5>2, <5>3, <5>4
      <4> QED
        BY <4>1, <4>2
    <3>8. Named(p)' = Named(p)
      BY <2>4 DEF Named
    <3> QED
      BY <2>4, <3>3, <3>6, <3>7, <3>8 DEF SettingUp
  <2> QED
    BY <1>1, <1>9, <2>2, <2>3, <2>5, ChildStep
<1> QED
  BY <1>3, <1>6, <1>7, <1>8, <1>9 DEF Redirect

\* Every descriptor that is not named is closed.
LEMMA CloseFlaggedInv ==
  ASSUME StartInv, NEW p \in Children, CloseFlagged(p)
  PROVE  StartInv'
<1>1. at[p] = "setup" /\ done[p] >= Len(info[p]) /\ Redirects(p) = {}
  BY DEF CloseFlagged, IsStarting
<1>2. /\ info[p] \in Seq(InfoSet) /\ Len(info[p]) \in Nat /\ DOMAIN info[p] = 1..Len(info[p])
      /\ fds[p] \in Tables /\ done[p] \in Nat /\ done[p] <= 2 * Len(info[p])
  BY <1>1, ChildInfos
<1>3. p \in Processes /\ job \in Jobs
  BY ProcessesAre DEF StartInv, StartTypes
<1>4. PICK table : table = [d \in Desc |-> IF d \in Flagged(p) THEN Free ELSE fds[p][d]]
  OBVIOUS
<1>5. /\ fds' = [fds EXCEPT ![p] = table] /\ at' = [at EXCEPT ![p] = "exec"]
      /\ UNCHANGED <<job, pipes, info, done, current>>
  BY <1>4 DEF CloseFlagged
<1>6. table \in Tables /\ \A d \in Desc : table[d] = IF d \in Named(p) THEN fds[p][d] ELSE Free
  BY <1>2, <1>4, ThingsAre DEF Tables, Flagged
<1>7. done' = [done EXCEPT ![p] = done[p]] /\ "exec" \in ChildSteps \ {"none"} /\ "exec" # "setup"
  BY <1>5 DEF StartInv, StartTypes, ChildSteps
<1>8. fds'[p] = table /\ info'[p] = info[p]
  BY <1>3, <1>5 DEF StartInv, StartTypes
<1>9. ASSUME NamedOpen PROVE AllSetUp(p)'
  <2>1. SettingUp(p)
    BY <1>1, <1>9 DEF StartInv, ChildrenInv
  <2>2. job.open \subseteq Desc /\ \A k \in DOMAIN info[p] : info[p][k].d \in job.open
    BY <1>1, <1>3, <1>9, ChildInfos, NumChildrenIs
  <2>3. ASSUME NEW k \in DOMAIN info[p] PROVE Final(p, k)'
    <3>1. k \in Nat /\ k >= 1 /\ k <= Len(info[p])
      BY <1>2
    <3>2. info[p][k].type = "redirect" => ~(Len(info[p]) + k > done[p])
      BY <1>1 DEF Redirects
    <3>3. IsSetUp(p, k)
      BY <1>1, <1>2, <3>1, <3>2 DEF IsSetUp
    <3>4. Final(p, k)
      BY <2>1, <3>3 DEF SettingUp
    <3>5. table[info[p][k].d] = fds[p][info[p][k].d]
      BY <1>6, <2>2 DEF Named
    <3>6. Final(p, k)' <=> table[info[p][k].d] =
            IF info[p][k].type = "redirect" THEN MeantAt(p, info[p][k].to) ELSE Meant(info[p][k])
      BY <1>5, <1>8 DEF Final, MeantAt, Meant, Before
    <3> QED
      BY <3>4, <3>5, <3>6 DEF Final
  <2>4. Named(p)' = Named(p)
    BY <1>8 DEF Named
  <2> QED
    BY <1>6, <1>8, <2>3, <2>4 DEF AllSetUp
<1> QED
  BY <1>1, <1>2, <1>5, <1>6, <1>7, <1>9, ChildStep

\* The program runs, or execve fails and the child exits.
LEMMA ExecInv ==
  ASSUME StartInv, NEW p \in Children, Exec(p)
  PROVE  StartInv'
<1>1. at[p] = "exec"
  BY DEF Exec, IsStarting
<1>2. CASE Exit(p)
  BY <1>1, <1>2, ExitInv
<1>3. CASE at' = [at EXCEPT ![p] = "running"] /\ UNCHANGED <<job, fds, pipes, info, done, current>>
  <2>1. fds[p] \in Tables /\ done[p] \in Nat /\ done[p] <= 2 * Len(info[p])
    BY <1>1, ChildInfos
  <2>2. fds' = [fds EXCEPT ![p] = fds[p]] /\ done' = [done EXCEPT ![p] = done[p]]
    BY <1>3 DEF StartInv, StartTypes
  <2>3. NamedOpen => AllSetUp(p)'
    <3>1. AllSetUp(p)' = AllSetUp(p)
      BY <1>3, ChildStays
    <3> QED
      BY <1>1, <3>1 DEF StartInv, ChildrenInv
  <2>4. "running" \in ChildSteps \ {"none"} /\ "running" # "setup"
    BY DEF ChildSteps
  <2> QED
    BY <1>1, <1>3, <2>1, <2>2, <2>3, <2>4, ChildStep
<1> QED
  BY <1>2, <1>3 DEF Exec

\* Every step keeps the invariant.
LEMMA StartStepInv ==
  ASSUME StartInv, StartNext
  PROVE  StartInv'
<1>1. CASE Child
  BY <1>1, SetUpInv, RedirectInv, CloseFlaggedInv, ExecInv DEF Child, Children
<1> QED
  BY <1>1, BeginInv, StreamInfoInv, ForkInv, ThrowInv, CloseEndsInv DEF StartNext

\* It is kept when nothing changes.
LEMMA StartStutterInv ==
  ASSUME StartInv, UNCHANGED startVars
  PROVE  StartInv'
<1>1. UNCHANGED <<job, fds, pipes, info, done, at, current>>
  BY DEF startVars
<1>2. ParentInv' = ParentInv /\ Numbered' = Numbered
  BY <1>1, ParentStays
<1>3. ChildrenInv'
  BY <1>1, ChildrenStay DEF StartInv
<1>4. /\ NumChildren' = NumChildren /\ Children' = Children /\ Processes' = Processes
      /\ Beyond' = Beyond
  BY <1>1, JobStays
<1>5. \A p : Streams(p)' = Streams(p) /\ Whose(p)' = Whose(p) /\ Streams(Whose(p))' = Streams(Whose(p))
  BY <1>1, JobStays DEF Whose
<1>6. \A si, s : MadeFor(si, s)' = MadeFor(si, s)
  BY <1>1, <1>4 DEF MadeFor
<1>7. InfosInv'
  BY <1>1, <1>4, <1>5, <1>6 DEF StartInv, InfosInv
<1>8. StartTypes'
  BY <1>1, <1>4 DEF StartInv, StartTypes, Tables, Things
<1> QED
  BY <1>2, <1>3, <1>7, <1>8 DEF StartInv

-----------------------------------------------------------------------------
(***************************************************************************)
(* What the descriptors lead to in the children, NamedOpen or not.         *)
(***************************************************************************)

\* What descriptors may lead to when n pipes were opened.
Made(n) == {Free} \cup {Own(d) : d \in Desc} \cup {File} \cup (EndNames \X (1..n))

\* A child's descriptors lead to what the parent had, a file or a pipe's end,
\* whatever was open in the parent.
MadeInv ==
  /\ \A p \in Children : fds[p] \in [Desc -> Made(pipes)]
  /\ done[Parent] = 0

\* More pipes, more ends.
LEMMA MadeGrows ==
  ASSUME NEW n \in Nat, NEW m \in Nat, n <= m
  PROVE  Made(n) \subseteq Made(m)
<1>1. (1..n) \subseteq 1..m
  OBVIOUS
<1> QED
  BY <1>1 DEF Made

\* What was made is all that the parent's table leads to.
LEMMA HeldIsMade ==
  ASSUME StartInv
  PROVE  fds[Parent] \in [Desc -> Made(pipes)]
<1>1. fds[Parent] \in Tables /\ job \in Jobs
  BY ProcessesAre DEF StartInv, StartTypes
<1>2. job.open \subseteq Desc
  BY <1>1, NumChildrenIs
<1>3. CASE at[Parent] = "thrown"
  BY <1>2, <1>3 DEF StartInv, ParentInv, Table, Made
<1>4. CASE at[Parent] # "thrown"
  <2>1. Holds(fds[Parent], pipes)
    BY <1>4 DEF StartInv, ParentInv, EndsInv
  <2>2. ASSUME NEW d \in Desc PROVE fds[Parent][d] \in Made(pipes)
    <3>1. CASE d \in job.open
      BY <2>1, <3>1 DEF Holds, Made
    <3>2. CASE d \notin job.open
      BY <2>1, <3>2 DEF Holds, Beyond, Made, PipeEnd
    <3> QED
      BY <3>1, <3>2
  <2> QED
    BY <1>1, <2>2 DEF Tables
<1> QED
  BY <1>3, <1>4

\* Setting a stream up makes nothing but a file.
LEMMA MovedIsMade ==
  ASSUME NEW M, Free \in M, File \in M, NEW table \in [Desc -> M],
         NEW si \in InfoSet, NEW s, MadeFor(si, s), si.type = "file" => ~IsFull(table)
  PROVE  Moved(table, si) \in [Desc -> M]
<1>1. /\ si.type \in Types /\ Beyond \subseteq Desc
      /\ si.type = "handle" => si.handle \in Beyond
      /\ si.type = "pipe" => si.rend \in Beyond /\ si.wend \in Beyond
  BY DEF InfoSet, MadeFor, Beyond
<1>2. PICK given : given = Given(table, si)
  OBVIOUS
<1>3. PICK prepared : prepared = Prepared(table, si)
  OBVIOUS
<1>4. prepared \in [Desc -> M]
  BY <1>3 DEF Prepared, Opened, Closed, File
<1>5. given = si.d \/ given \in Desc
  BY <1>1, <1>2, LowestIsFree DEF Given, Types
<1>6. Moved(table, si) = Remap(prepared, given, si.d)
  BY <1>2, <1>3 DEF Moved
<1>7. CASE given = si.d
  BY <1>4, <1>6, <1>7 DEF Remap
<1>8. CASE given # si.d
  <2>1. prepared[given] \in M
    BY <1>4, <1>5, <1>8
  <2>2. [prepared EXCEPT ![si.d] = prepared[given]] \in [Desc -> M]
    BY <1>4, <2>1
  <2> QED
    BY <1>6, <1>8, <2>2 DEF Remap, Dup2, Closed
<1> QED
  BY <1>7, <1>8

\* A step of one child.
LEMMA MadeChild ==
  ASSUME StartInv, MadeInv, NEW p \in Children, job' = job, pipes' = pipes,
         NEW t \in [Desc -> Made(pipes)], fds' = [fds EXCEPT ![p] = t],
         NEW n, done' = [done EXCEPT ![p] = n]
  PROVE  MadeInv'
<1>1. job \in Jobs /\ Children' = Children /\ Made(pipes)' = Made(pipes) /\ Parent # p
  BY JobStays, ProcessesAre DEF StartInv, StartTypes, Made
<1>2. \A q \in Children : fds'[q] = IF q = p THEN t ELSE fds[q]
  BY <1>1, ProcessesAre DEF StartInv, StartTypes
<1>3. done'[Parent] = 0
  BY <1>1, ProcessesAre DEF StartInv, StartTypes, MadeInv
<1> QED
  BY <1>1, <1>2, <1>3 DEF MadeInv

\* A step of the parent: pipes are opened, or a child is given its table.
LEMMA MadeStays ==
  ASSUME StartInv, MadeInv, job' = job, pipes' \in Nat, pipes <= pipes', done' = done,
         \A p \in Children : fds'[p] = fds[p] \/ fds'[p] = fds[Parent]
  PROVE  MadeInv'
<1>1. Children' = Children /\ pipes \in Nat
  BY JobStays DEF StartInv, StartTypes
<1>2. Made(pipes) \subseteq Made(pipes')
  BY <1>1, MadeGrows
<1>3. \A t : t \in [Desc -> Made(pipes)] => t \in [Desc -> Made(pipes')]
  BY <1>2
<1>4. \A p \in Children : fds'[p] \in [Desc -> Made(pipes)]
  BY HeldIsMade DEF MadeInv
<1>5. \A p \in Children : fds'[p] \in [Desc -> Made(pipes')]
  BY <1>3, <1>4
<1> QED
  BY <1>1, <1>5 DEF MadeInv, Made

\* MadeInv holds at first,
LEMMA MadeInitInv ==
  ASSUME StartInit
  PROVE  MadeInv
<1>1. Parent \in Processes /\ \A p \in Children : p \in Processes /\ p # Parent
  BY ProcessesAre DEF StartInit
<1>2. done[Parent] = 0 /\ \A p \in Children : fds[p] = Table({})
  BY <1>1 DEF StartInit, Processes
<1> QED
  BY <1>2 DEF MadeInv, Table, Made

\* and every step keeps it.
LEMMA MadeNextInv ==
  ASSUME StartInv, MadeInv, StartNext
  PROVE  MadeInv'
<1>1. /\ job \in Jobs /\ pipes \in Nat /\ Parent \in Processes
      /\ \A p \in Children : p \in Processes /\ p # Parent
      /\ fds \in [Processes -> Tables] /\ done \in [Processes -> Nat]
  BY ProcessesAre DEF StartInv, StartTypes
<1>2. Free \in Made(pipes) /\ File \in Made(pipes) /\ Table({}) \in [Desc -> Made(pipes)]
  BY DEF Made, Table
<1>3. CASE Begin
  BY <1>1, <1>3, MadeStays DEF Begin
<1>4. CASE StreamInfo
  BY <1>1, <1>4, MadeStays DEF StreamInfo
<1>5. CASE Fork
  <2>1. \A p \in Children : fds'[p] = fds[p] \/ fds'[p] = fds[Parent]
    BY <1>1, <1>5 DEF Fork
  <2> QED
    BY <1>1, <1>5, <2>1, MadeStays DEF Fork
<1>6. CASE Throw
  BY <1>1, <1>6, MadeStays DEF Throw
<1>7. CASE CloseEnds
  BY <1>1, <1>7, MadeStays DEF CloseEnds
<1>8. ASSUME NEW p \in Children, Exit(p) PROVE MadeInv'
  <2>1. done' = [done EXCEPT ![p] = done[p]]
    BY <1>1, <1>8 DEF Exit
  <2> QED
    BY <1>2, <1>8, <2>1, MadeChild DEF Exit
<1>9. ASSUME NEW p \in Children, SetUp(p) PROVE MadeInv'
  <2>1. at[p] = "setup" /\ done[p] < Len(info[p])
    BY <1>9 DEF SetUp, IsStarting
  <2>2. PICK i : i = done[p] + 1
    OBVIOUS
  <2>3. PICK si : si = info[p][i]
    OBVIOUS
  <2>4. i \in DOMAIN info[p] /\ si \in InfoSet /\ MadeFor(si, Streams(p)[i])
    <3>1. i \in DOMAIN info[p]
      BY <2>1, <2>2, ChildInfos
    <3> QED
      BY <2>1, <2>3, <3>1, ChildInfos
  <2>5. PICK table : table = Moved(fds[p], si)
    OBVIOUS
  <2>6. CASE /\ si.type = "file" => ~IsFull(fds[p])
             /\ fds' = [fds EXCEPT ![p] = table]
             /\ done' = [done EXCEPT ![p] = @ + 1]
             /\ UNCHANGED <<job, pipes, info, at, current>>
    <3>1. fds[p] \in [Desc -> Made(pipes)]
      BY DEF MadeInv
    <3>2. table \in [Desc -> Made(pipes)]
      BY <1>2, <2>4, <2>5, <2>6, <3>1, MovedIsMade
    <3> QED
      BY <2>6, <3>2, MadeChild
  <2>7. Moved(fds[p], si) = Remap(Prepared(fds[p], si), Given(fds[p], si), si.d)
    BY DEF Moved
  <2> QED
    BY <1>8, <1>9, <2>2, <2>3, <2>5, <2>6, <2>7 DEF SetUp
<1>10. ASSUME NEW p \in Children, Redirect(p) PROVE MadeInv'
  <2>1. at[p] = "setup" /\ Redirects(p) # {}
    BY <1>10 DEF Redirect, IsStarting
  <2>2. PICK i : i = Min(Redirects(p))
    OBVIOUS
  <2>3. i \in DOMAIN info[p] /\ info[p][i].type = "redirect"
    <3>1. Redirects(p) \in SUBSET Nat
      <4>1. DOMAIN info[p] = 1..Len(info[p]) /\ Len(info[p]) \in Nat
        BY <2>1, ChildInfos
      <4> QED
        BY <4>1 DEF Redirects
    <3>2. i \in Redirects(p)
      BY <2>1, <2>2, <3>1, Minimum
    <3> QED
      BY <3>2 DEF Redirects
  <2>4. PICK si : si = info[p][i]
    OBVIOUS
  <2>5. si.to \in Desc
    BY <2>1, <2>3, <2>4, ChildInfos
  <2>6. CASE /\ fds' = [fds EXCEPT ![p] = Dup2(@, si.to, si.d)]
             /\ done' = [done EXCEPT ![p] = Len(info[p]) + i]
             /\ UNCHANGED <<job, pipes, info, at, current>>
    <3>1. fds[p] \in [Desc -> Made(pipes)]
      BY DEF MadeInv
    <3>2. fds[p][si.to] \in Made(pipes)
      BY <2>5, <3>1
    <3>3. Dup2(fds[p], si.to, si.d) \in [Desc -> Made(pipes)]
      BY <3>1, <3>2 DEF Dup2
    <3> QED
      BY <1>1, <2>6, <3>3, MadeChild
  <2> QED
    BY <1>8, <1>10, <2>2, <2>4, <2>6 DEF Redirect
<1>11. ASSUME NEW p \in Children, CloseFlagged(p) PROVE MadeInv'
  <2>1. PICK table : table = [d \in Desc |-> IF d \in Flagged(p) THEN Free ELSE fds[p][d]]
    OBVIOUS
  <2>2. fds' = [fds EXCEPT ![p] = table] /\ job' = job /\ pipes' = pipes /\ done' = done
    BY <1>11, <2>1 DEF CloseFlagged
  <2>3. fds[p] \in [Desc -> Made(pipes)]
    BY DEF MadeInv
  <2>4. table \in [Desc -> Made(pipes)]
    BY <1>2, <2>1, <2>3
  <2>5. done' = [done EXCEPT ![p] = done[p]]
    BY <1>1, <2>2
  <2> QED
    BY <2>2, <2>4, <2>5, MadeChild
<1>12. ASSUME NEW p \in Children, Exec(p) PROVE MadeInv'
  <2>1. CASE UNCHANGED <<job, fds, pipes, info, done, current>>
    BY <1>1, <2>1, MadeStays
  <2> QED
    BY <1>8, <1>12, <2>1 DEF Exec
<1> QED
  BY <1>3, <1>4, <1>5, <1>6, <1>7, <1>9, <1>10, <1>11, <1>12 DEF StartNext, Child, Children

-----------------------------------------------------------------------------
(***************************************************************************)
(* What follows.                                                           *)
(***************************************************************************)

\* Where the streams of a running child lead.
LEMMA InvChildStreams ==
  ASSUME StartInv
  PROVE  ChildStreams
<1> SUFFICES ASSUME NamedOpen, NEW p \in Children, at[p] = "running"
             PROVE  /\ \A d \in Desc \ Named(p) : fds[p][d] = Free
                    /\ \A i \in DOMAIN info[p] : fds[p][info[p][i].d] =
                         MeantAt(p, IF info[p][i].type = "redirect" THEN info[p][i].to ELSE info[p][i].d)
  BY DEF ChildStreams, StreamsAsAsked, Children
<1>1. AllSetUp(p)
  BY DEF StartInv, ChildrenInv
<1>2. ASSUME NEW i \in DOMAIN info[p], info[p][i].type # "redirect"
      PROVE  MeantAt(p, info[p][i].d) = Meant(info[p][i])
  <2>1. {k \in DOMAIN info[p] : info[p][k].d = info[p][i].d} = {i}
    BY ChildInfos
  <2>2. MeantAt(p, info[p][i].d) = Meant(info[p][CHOOSE k \in {i} : TRUE])
    BY <2>1 DEF MeantAt
  <2>3. (CHOOSE k \in {i} : TRUE) = i
    OBVIOUS
  <2> QED
    BY <2>2, <2>3
<1> QED
  BY <1>1, <1>2 DEF AllSetUp, Final

\* What the parent is left with, as the set of what it holds.
LEMMA InvParentEnds ==
  ASSUME StartInv
  PROVE  ParentEnds
<1> DEFINE own == {Own(d) : d \in job.open}
           held == {fds[Parent][d] : d \in OpenDescs(fds[Parent])}
           end(si) == PipeEnd(IF si.out THEN "read" ELSE "write", si.pipe)
           ends == UNION {{end(info[p][i]) : i \in {j \in DOMAIN info[p] : Returned(p, info[p][j])}} :
                            p \in 1..NumChildren}
<1>1. /\ job \in Jobs /\ job.open \subseteq Desc /\ Parent \in Processes /\ pipes \in Nat
      /\ NumChildren \in Nat \ {0}
  BY NumChildrenIs, ProcessesAre DEF StartInv, StartTypes
<1>2. ASSUME at[Parent] = "thrown" PROVE held = own
  <2>1. \A d \in Desc : fds[Parent][d] = IF d \in job.open THEN Own(d) ELSE Free
    BY <1>2 DEF StartInv, ParentInv, Table
  <2>2. \A d \in Desc : d \in OpenDescs(fds[Parent]) <=> d \in job.open
    BY <2>1, Apart DEF OpenDescs
  <2> QED
    BY <1>1, <2>1, <2>2 DEF OpenDescs
<1>3. \A x : x \in ends <=> \E p \in Children : \E i \in DOMAIN info[p] :
                              Returned(p, info[p][i]) /\ x = OtherEnd(info[p][i])
  BY DEF Children, OtherEnd
<1>4. ASSUME at[Parent] = "returned" PROVE held = own \cup ends
  <2>1. EndsInv /\ Holds(fds[Parent], pipes)
    BY <1>4 DEF StartInv, ParentInv, EndsInv
  <2>2. \A e, k : Due(e, k) <=> DueToReturn(e, k)
    <3>1. info[Parent] = <<>>
      BY <1>4 DEF StartInv, InfosInv
    <3>2. Captured(Parent) = {}
      BY <3>1 DEF Captured
    <3> QED
      BY <1>4, <3>2 DEF Due, DueToPipeline, DueToInfo
  <2> HIDE DEF ends, end
  <2>3. ASSUME NEW x \in held PROVE x \in own \cup ends
    <3>1. PICK d \in Desc : x = fds[Parent][d] /\ x # Free
      BY DEF OpenDescs
    <3>2. CASE d \in job.open
      BY <2>1, <3>1, <3>2 DEF Holds
    <3>3. CASE d \notin job.open
      <4>1. PICK e \in EndNames, k \in 1..pipes : x = PipeEnd(e, k)
        BY <2>1, <3>1, <3>3 DEF Holds, Beyond
      <4>2. IsIn(fds[Parent], PipeEnd(e, k))
        BY <3>1, <4>1 DEF IsIn
      <4>3. DueToReturn(e, k)
        BY <2>1, <2>2, <4>2 DEF EndsInv
      <4> QED
        BY <1>3, <4>1, <4>3 DEF DueToReturn
    <3> QED
      BY <3>2, <3>3
  <2>4. ASSUME NEW d \in job.open PROVE Own(d) \in held
    BY <1>1, <2>1, Apart DEF Holds, OpenDescs
  <2>5. ASSUME NEW x \in ends PROVE x \in held
    <3>1. PICK p \in Children : \E i \in DOMAIN info[p] :
            Returned(p, info[p][i]) /\ x = OtherEnd(info[p][i])
      BY <1>3
    <3>2. PICK i \in DOMAIN info[p] : Returned(p, info[p][i]) /\ x = OtherEnd(info[p][i])
      BY <3>1
    <3>3. PICK k : k = info[p][i].pipe
      OBVIOUS
    <3>4. k \in 1..pipes
      <4>1. k \in NumChildren..pipes
        BY <1>1, <3>2, <3>3, ProcessesAre DEF StartInv, InfosInv, MadeFor, Returned
      <4> QED
        BY <1>1, <4>1
    <3>5. PICK e \in EndNames : x = PipeEnd(e, k)
      <4>1. x = PipeEnd("read", k) \/ x = PipeEnd("write", k)
        BY <3>2, <3>3 DEF OtherEnd
      <4> QED
        BY <4>1 DEF EndNames
    <3>6. DueToReturn(e, k)
      BY <3>2, <3>5 DEF DueToReturn
    <3>7. IsIn(fds[Parent], x)
      BY <2>1, <2>2, <3>4, <3>5, <3>6 DEF EndsInv
    <3>8. x # Free
      BY <3>5, Apart
    <3> QED
      BY <3>7, <3>8 DEF IsIn, OpenDescs
  <2> QED
    BY <2>3, <2>4, <2>5
<1> QED
  BY <1>2, <1>4 DEF ParentEnds

\* The types of the variables.
LEMMA InvStartTypeOK ==
  ASSUME StartInv, MadeInv
  PROVE  StartTypeOK
<1>1. /\ job \in Jobs /\ fds \in [Processes -> Tables] /\ info \in [Processes -> Seq(InfoSet)]
      /\ at \in [Processes -> ParentSteps \cup ChildSteps] /\ current \in Children
  BY DEF StartInv, StartTypes
<1>2. \A p \in Processes : \A d \in Desc :
        fds[p][d] \in {Free} \cup {Own(x) : x \in Desc} \cup {<<"file", 0>>}
                      \cup ({"read", "write"} \X (1..pipes))
  <2>1. \A p \in Processes : fds[p] \in [Desc -> Made(pipes)]
    BY <1>1, HeldIsMade, ProcessesAre DEF MadeInv
  <2>2. \A p \in Processes : \A d \in Desc : fds[p][d] \in Made(pipes)
    BY <2>1
  <2> QED
    BY <2>2 DEF Made, File, EndNames
<1>3. \A p \in Processes : /\ Len(info[p]) <= Len(Streams(IF p = Parent THEN current ELSE p))
                           /\ done[p] <= 2 * Len(info[p])
  <2>1. \A p \in Processes : Len(info[p]) <= Len(Streams(IF p = Parent THEN current ELSE p))
    BY DEF StartInv, InfosInv, Whose
  <2>2. Len(info[Parent]) \in Nat
    BY <1>1, ProcessesAre
  <2>3. done[Parent] <= 2 * Len(info[Parent])
    BY <2>2 DEF MadeInv
  <2>4. \A p \in Children : done[p] <= 2 * Len(info[p])
    BY DEF StartInv, InfosInv
  <2> QED
    BY <1>1, <2>1, <2>3, <2>4, ProcessesAre
<1>4. \A p \in Processes : at[p] \in {"none", "begin", "streams", "close", "returned", "thrown",
                                      "setup", "exec", "running", "exited"}
  BY <1>1 DEF ParentSteps, ChildSteps
<1> QED
  BY <1>1, <1>2, <1>3, <1>4 DEF StartTypeOK, Children

\* The two invariants are inductive.
LEMMA StartInductive ==
  /\ StartInit => StartInv /\ MadeInv
  /\ StartInv /\ MadeInv /\ [StartNext]_startVars => StartInv' /\ MadeInv'
<1>1. ASSUME StartInv, MadeInv, UNCHANGED startVars PROVE StartInv' /\ MadeInv'
  <2>1. MadeInv'
    BY <1>1, MadeStays DEF startVars, StartInv, StartTypes
  <2> QED
    BY <1>1, <2>1, StartStutterInv
<1> QED
  BY <1>1, StartInitInv, MadeInitInv, StartStepInv, MadeNextInv

\* The invariant holds in every behaviour.
LEMMA StartAlways == StartSpec => [](StartInv /\ MadeInv)
<1>1. StartInit => StartInv /\ MadeInv
  BY StartInductive
<1>2. (StartInv /\ MadeInv) /\ [StartNext]_startVars => (StartInv /\ MadeInv)'
  BY StartInductive
<1> QED
  BY <1>1, <1>2, PTL DEF StartSpec

\* For any job whose contexts name only descriptors that are open in the parent
\* (NamedOpen), whatever else it has open and whatever is captured, or redirected
\* to a stream that is not: in every child whose program runs each stream leads
\* where its context says, and nothing else is open.  posix_start's remapping of
\* descriptors that are known by number only then never takes one that is still
\* needed; without the hypothesis it does, and StreamsAsAsked is not true.
THEOREM ChildrenHaveStreams == StartSpec => []ChildStreams
<1>1. StartInv /\ MadeInv => ChildStreams
  BY InvChildStreams
<1> QED
  BY <1>1, StartAlways, PTL

\* The parent is left with what it had and the ends it returns, and after an
\* exception with what it had: no end of a pipe is lost, or closed twice.
THEOREM ParentKeepsEnds == StartSpec => []ParentEnds
<1>1. StartInv /\ MadeInv => ParentEnds
  BY InvParentEnds
<1> QED
  BY <1>1, StartAlways, PTL
=============================================================================
