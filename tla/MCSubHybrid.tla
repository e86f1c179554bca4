---------------------------- MODULE MCSubHybrid ----------------------------
(***************************************************************************)
(* A small instance of SubHybrid: two address fields of four bits and a    *)
(* port that is never hashed.  A node looks at two to four bits.  r1 and   *)
(* r2 share the prefix lengths, and with four bits of the source and three *)
(* bits of hash their keys collide; so do r5 and r6, on the destination;   *)
(* r4 matches all packets.  Greatest priorities are shared by r2 and r5.   *)
(***************************************************************************)
EXTENDS SubHybrid

CONSTANT MCNames

MCRecord(i, pri, lsa, lda, sa, da, port) ==
  [id |-> i, priority |-> pri, prefix_length |-> <<lsa, lda>>,
   range |-> <<<<sa, sa + 2^(4 - lsa) - 1>>, <<da, da + 2^(4 - lda) - 1>>, port>>]

MCAll == {
  MCRecord(1, 5, 4, 0, 5, 0, <<0, 0>>),
  MCRecord(2, 4, 4, 0, 15, 0, <<0, 1>>),
  MCRecord(3, 3, 2, 3, 4, 2, <<0, 1>>),
  MCRecord(4, 1, 0, 0, 0, 0, <<0, 1>>),
  MCRecord(5, 4, 0, 4, 0, 5, <<0, 1>>),
  MCRecord(6, 6, 1, 4, 0, 3, <<0, 1>>)}

MCRule == {r \in MCAll : r.id \in MCNames}

MCPacket == {<<5, 3, 0>>, <<5, 3, 1>>, <<5, 5, 1>>, <<15, 5, 0>>, <<15, 0, 1>>, <<7, 2, 0>>}

MCTwo == <<4, 4>>
MCLeastBit == <<2, 2>>
MCOp == <<{0, 2}, {1, 2}>>
MCLeaf == <<1, 1>>
=============================================================================
