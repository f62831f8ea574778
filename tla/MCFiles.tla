------------------------------ MODULE MCFiles ------------------------------
(***************************************************************************)
(* The three parts of the file service, of which a behaviour runs one: a   *)
(* request to OPCBasic, calls of TraverseFile, or the digest of a message. *)
(*   - requests about a directory d with the paths a, s and s/c, each in   *)
(*     every kind that can be (at most one a link), or about the file a;   *)
(*   - GrepFile with every choice of up to five lines;                     *)
(*   - a file of two lines that is traversed three times;                  *)
(*   - messages up to and beyond the length where the carry goes wrong.    *)
(***************************************************************************)
EXTENDS OPCBasic, TraverseFile, Md5, TLC

VARIABLE part  \* which of them runs

filesVars == <<part, opcVars, traverseVars, md5Vars>>

MCTree == ("a" :> "d") @@ ("s" :> "d") @@ ("c" :> "s")

MCKinds ==
  {k \in [Paths -> PathKind] :
     /\ Consistent(k) /\ k[Root] # "link"
     /\ Cardinality({p \in Paths : k[p] = "link"}) <= 1}

Request(op, path, before, after, compiles) ==
  [op |-> op, path |-> path, before |-> before, after |-> after, compiles |-> compiles]

MCRequests ==
  {Request(op, p, 0, 0, ok) :
     op \in {"list", "find", "cat", "grepfiles"}, p \in {"d", "a"}, ok \in BOOLEAN}
  \cup {Request("grep", "a", b, a, ok) : b \in -1..2, a \in -1..2, ok \in BOOLEAN}

MCContents == UNION {[1..n -> BOOLEAN] : n \in 0..5}

\* Only GrepFile depends on the lines, and only on what the request's path is; the
\* socket is used when all of them are handled.
Relevant ==
  /\ ~socket => request.op \in {"list", "cat"}
  /\ request.op # "grep" => content = <<TRUE>>
  /\ request.op = "grep" => kind["s"] = "none" /\ kind["d"] = "dir"

\* What a request is while another part runs.
Idle == Request("cat", "d", 0, 0, TRUE)

ASSUME IdleAssumption == Idle \in Requests /\ <<TRUE>> \in Contents

Init ==
  /\ part \in {"request", "traverse", "digest"}
  /\ IF part = "request"
     THEN OPCInit /\ Relevant
     ELSE /\ kind = [p \in Paths |-> "none"] /\ touched = {}
          /\ request = Idle /\ content = <<TRUE>> /\ socket = TRUE
          /\ stage = "done" /\ dir = Entry("d", 0) /\ walk = <<>> /\ found = <<>>
          /\ files = <<>> /\ grep = NoGrep /\ results = <<>> /\ error = FALSE /\ answers = 1
  /\ TraverseInit
  /\ Md5Init /\ (part # "digest" => size = 0)

Next ==
  \/ part = "request" /\ OPCNext /\ UNCHANGED <<part, traverseVars, md5Vars>>
  \/ part = "traverse" /\ TraverseNext /\ UNCHANGED <<part, opcVars, md5Vars>>
  \/ part = "digest" /\ Md5Next /\ UNCHANGED <<part, opcVars, traverseVars>>

Spec ==
  /\ Init /\ [][Next]_filesVars
  /\ WF_filesVars(part = "request" /\ Handle /\ UNCHANGED <<part, traverseVars, md5Vars>>)

\* The variables of the three parts hold values of their types.
TypeOK == OPCTypeOK /\ TraverseTypeOK /\ Md5TypeOK
=============================================================================
