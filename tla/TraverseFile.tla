---------------------------- MODULE TraverseFile ----------------------------
(***************************************************************************)
(* opc/FileHandler.hpp: TraverseFile, which FindAndReplace uses to change  *)
(* the lines of a file: they are copied to a second file, which then       *)
(* replaces the first.  The program may crash between any two steps, and   *)
(* be run again on what it left.  Nothing looks at the state of fileOut,   *)
(* and a line that cannot be read ends the loop like the end of the file.  *)
(***************************************************************************)
EXTENDS Naturals

CONSTANTS
  Lines,   \* the lines of the file
  MaxRuns  \* bound: how often TraverseFile is called

ASSUME TraverseAssumption == Lines \in Nat /\ MaxRuns \in Nat

VARIABLES
  disk,    \* filePath and pathTemp -> what is there
  step,    \* what TraverseFile does next, or "out": it returned, threw or crashed
  copied,  \* the lines read from fileIn
  good,    \* fileOut is in a good state
  runs,    \* the calls so far
  spoilt   \* a line of some copy could not be read or not be written

traverseVars == <<disk, step, copied, good, runs, spoilt>>

\* A file: how often its lines were visited, and how many it has.
NoFile == [visits |-> 0, lines |-> 0, there |-> FALSE]
File(v, n) == [visits |-> v, lines |-> n, there |-> TRUE]

TraverseInit ==
  /\ disk = [path |-> File(0, Lines), temp |-> NoFile]
  /\ step = "out" /\ copied = 0 /\ good = TRUE /\ runs = 0 /\ spoilt = FALSE

\* fileIn is opened, or else an exception thrown, and fileOut.
Traverse ==
  /\ step = "out" /\ runs < MaxRuns
  /\ runs' = runs + 1 /\ copied' = 0
  /\ \/ UNCHANGED <<disk, step, good, spoilt>>
     \/ /\ disk.path.there
        /\ disk' = [disk EXCEPT !.temp = File(disk.path.visits + 1, 0)]
        /\ step' = "copy" /\ good' = TRUE /\ UNCHANGED spoilt
     \/ /\ disk.path.there
        /\ step' = "copy" /\ good' = FALSE /\ spoilt' = TRUE /\ UNCHANGED disk

\* A line is read, visited and written, unless the stream is or becomes bad.
CopyLine ==
  /\ step = "copy" /\ copied < disk.path.lines
  /\ copied' = copied + 1
  /\ \/ /\ good /\ disk' = [disk EXCEPT !.temp.lines = @ + 1]
        /\ UNCHANGED <<good, spoilt>>
     \/ good' = FALSE /\ spoilt' = TRUE /\ UNCHANGED disk
  /\ UNCHANGED <<step, runs>>

\* Mutant: the file is removed while its lines are copied.
RemoveEarly ==
  /\ step = "copy"
  /\ disk' = [disk EXCEPT !.path.there = FALSE] /\ step' = "rename"
  /\ UNCHANGED <<copied, good, runs, spoilt>>

\* No line is read any more: there is none, or fileIn is bad.  Both streams are
\* closed.
ReadEnds ==
  /\ step = "copy" /\ step' = "remove"
  /\ \/ copied = disk.path.lines /\ UNCHANGED spoilt
     \/ copied < disk.path.lines /\ spoilt' = TRUE
  /\ UNCHANGED <<disk, copied, good, runs>>

\* The file is removed, or cannot be, and an exception is thrown.
RemoveOld ==
  /\ step = "remove"
  /\ \/ disk' = [disk EXCEPT !.path = NoFile] /\ step' = "rename"
     \/ UNCHANGED disk /\ step' = "out"
  /\ UNCHANGED <<copied, good, runs, spoilt>>

\* The copy takes its place, if there is one.
Rename ==
  /\ step = "rename"
  /\ disk' = IF disk.temp.there THEN [path |-> disk.temp, temp |-> NoFile] ELSE disk
  /\ step' = "out"
  /\ UNCHANGED <<copied, good, runs, spoilt>>

\* The program crashes, or an exception leaves TraverseFile, of visit too.
Crash ==
  /\ step # "out"
  /\ step' = "out"
  /\ UNCHANGED <<disk, copied, good, runs, spoilt>>

TraverseNext == Traverse \/ CopyLine \/ ReadEnds \/ RemoveOld \/ Rename \/ Crash

TraverseSpec == TraverseInit /\ [][TraverseNext]_traverseVars
-----------------------------------------------------------------------------
(***************************************************************************)
(* What must hold.                                                         *)
(***************************************************************************)

\* As long as every line could be read and be written, the file has all its lines
\* at its place, whatever crashes and however often it is traversed, or else it is
\* missing there and its copy has them all; no line of it was visited more often
\* than TraverseFile was called.  Once one line could not be read nothing holds:
\* the copy that ends before it takes the file's place.
NothingLost ==
  ~spoilt =>
    \E name \in {"path", "temp"} :
      /\ disk[name].there /\ disk[name].lines = Lines /\ disk[name].visits <= runs
      /\ name = "temp" => ~disk.path.there

\* The variables hold values of their types.
TraverseTypeOK ==
  /\ \A name \in {"path", "temp"} :
       disk[name].visits \in 0..MaxRuns /\ disk[name].lines \in 0..Lines
  /\ step \in {"out", "copy", "remove", "rename"} /\ copied \in 0..Lines
  /\ good \in BOOLEAN /\ runs \in 0..MaxRuns /\ spoilt \in BOOLEAN
=============================================================================
