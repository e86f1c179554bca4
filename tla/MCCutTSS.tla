------------------------------ MODULE MCCutTSS ------------------------------
(***************************************************************************)
(* A small instance of CutTSS: addresses of five bits, of which a tree     *)
(* over one field cuts two per level and one over both cuts one of each,   *)
(* and a port.  r1, r2 and r4 lie in different slots of the second level   *)
(* of one slot of the first; r3 is that slot: built with others, it keeps  *)
(* them in one leaf, inserted after them it goes to the leaf of r4 only,   *)
(* or to none.  r1 and r3 share a priority.                                *)
(***************************************************************************)
EXTENDS CutTSS

CONSTANT MCNames

MCRecord(i, pri, lsa, lda, sa, da, port) ==
  [id |-> i, priority |-> pri, prefix_length |-> <<lsa, lda>>,
   range |-> <<<<sa, sa + 2^(5 - lsa) - 1>>, <<da, da + 2^(5 - lda) - 1>>, port>>]

MCAll == {
  MCRecord(1, 5, 4, 0, 20, 0, <<0, 1>>),
  MCRecord(2, 3, 4, 0, 18, 0, <<0, 1>>),
  MCRecord(3, 5, 2, 0, 16, 0, <<0, 0>>),
  MCRecord(4, 4, 5, 1, 16, 0, <<0, 1>>),
  MCRecord(5, 7, 3, 4, 8, 6, <<0, 1>>),
  MCRecord(6, 2, 2, 2, 16, 0, <<0, 1>>),
  MCRecord(7, 1, 0, 1, 0, 0, <<0, 1>>)}

MCRule == {r \in MCAll : r.id \in MCNames}

MCPacket == {<<20, 3, 0>>, <<20, 3, 1>>, <<18, 9, 0>>, <<16, 6, 1>>, <<16, 6, 0>>,
             <<9, 6, 1>>, <<21, 17, 1>>}

MCCutBits == <<2, 1>>
=============================================================================
