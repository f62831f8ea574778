---------------------------- MODULE MCOSerializer ----------------------------
(***************************************************************************)
(* Write and Read with the small objects of MCOProtoBase, coupled directly *)
(* as in OProtoBase or through the messages of OSerializer, with every     *)
(* combination of compression and encryption.                              *)
(***************************************************************************)
EXTENDS OSerializer, MCOProtoBase

CONSTANTS
  Couplings,  \* what is tried of "direct" and "messages"
  MaxFields   \* the fields of objects that go through messages, at most MaxItems

AllMethods == SUBSET {"Compress", "Encrypt"}
JustCompress == {{"Compress"}}

Small == {Layout(o) : o \in UNION {[1..n -> Items] : n \in 1..MaxFields}}

VARIABLE coupling

stages == <<serializeVars, deserializeVars>>
bothVars == <<coupling, serVars>>

BothInit ==
  /\ coupling \in Couplings /\ SerInit
  /\ coupling = "direct" => method = {}
  /\ coupling = "messages" => layout \in Small

Direct(A) == coupling = "direct" /\ A /\ UNCHANGED <<coupling, stages>>
InMessages(A) == coupling = "messages" /\ A /\ UNCHANGED coupling

BothNext == Direct(Next) \/ InMessages(SerNext)

BothSpec == BothInit /\ [][BothNext]_bothVars

\* FairSpec and SerFairSpec, each of its coupling.
BothFairSpec ==
  /\ BothSpec
  /\ WF_bothVars(Write /\ UNCHANGED <<coupling, stages>>)
  /\ WF_bothVars(Read /\ UNCHANGED <<coupling, stages>>)
  /\ WF_bothVars(Direct(SinkNext))
  /\ WF_bothVars(InMessages(Serialize)) /\ WF_bothVars(InMessages(Deserialize))

\* The variables hold values of their types, those of OProtoBase as their chunks
\* are the writer's buffers.
BothTypeOK == SerTypeOK /\ (coupling = "direct" => TypeOK)

\* Both sides come to their ends, coupled directly; through messages, whose source
\* may end before them, Deserialize does.
Returns ==
  /\ coupling = "direct" => ObjectArrives
  /\ coupling = "messages" => DeserializeReturns
=============================================================================
