----------------------------- MODULE MCOProtoBase -----------------------------
(***************************************************************************)
(* Small objects for OProtoBase: every sequence of at most MaxItems fields *)
(* from Items.  The int32_t that precedes a string or a vector takes two   *)
(* bytes instead of four, and a buffer four instead of 2^21, so that every *)
(* split of a field over buffers happens.                                  *)
(***************************************************************************)
EXTENDS OProtoBase

CONSTANT MaxItems

Pod(size) == <<[kind |-> "pod", size |-> size]>>
Str(size) == Pod(2) \o <<[kind |-> "bytes", size |-> size]>>
Vec(elemSize, elems) == <<[kind |-> "reserve", size |-> elemSize]>> \o Pod(2) \o elems

Items == {Pod(1), Pod(3), Str(0), Str(1), Str(6),
          Vec(3, Pod(3)), Vec(9, Str(1) \o Pod(3))}

Objects == UNION {[1..n -> Items] : n \in 1..MaxItems}

\* The fields' operations one after the other, each with the position where
\* its bytes start.
Place(l, ops) ==
  LET end(m) == IF m = <<>> THEN 0 ELSE m[Len(m)].at + Extent(m[Len(m)])
      placed[n \in 0..Len(ops)] ==
        IF n = 0 THEN l
        ELSE Append(placed[n - 1], [kind |-> ops[n].kind, size |-> ops[n].size,
                                    at |-> end(placed[n - 1])])
  IN placed[Len(ops)]

Layout(o) ==
  LET upTo[n \in 0..Len(o)] == IF n = 0 THEN <<>> ELSE Place(upTo[n - 1], o[n])
  IN Place(upTo[Len(o)], <<[kind |-> "end", size |-> 0]>>)

MCLayouts == {Layout(o) : o \in Objects}
=============================================================================
