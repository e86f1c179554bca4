---------------------------- MODULE MCTupleMerge ----------------------------
(***************************************************************************)
(* A small instance of TupleMerge: addresses of 12 bits and the five       *)
(* fields of the code.  r1 and r2 differ in the last bit of the source, so *)
(* that the relaxed mask they share splits on the source; r3 matches all   *)
(* packets, so that its table takes every rule while it is first; r4 fixes *)
(* the protocol and r5 a port, so that splits aim at those fields too; r6  *)
(* needs both addresses and has the priority of r1.                        *)
(***************************************************************************)
EXTENDS TupleMerge

CONSTANT MCNames

MCAddress(a, len) == <<a, a + 2^(W - len) - 1>>
MCAny == <<<<0, 4095>>, <<0, 4095>>, <<0, 65535>>, <<0, 65535>>, <<0, 255>>>>

MCRecord(i, pri, lengths, range) ==
  [id |-> i, priority |-> pri, prefix_length |-> lengths, range |-> range]

MCAll == {
  MCRecord(1, 4, <<12, 0, 0, 0, 0>>, [MCAny EXCEPT ![1] = MCAddress(8, 12)]),
  MCRecord(2, 3, <<12, 0, 0, 0, 0>>, [MCAny EXCEPT ![1] = MCAddress(9, 12)]),
  MCRecord(3, 2, <<0, 0, 0, 0, 0>>, MCAny),
  MCRecord(4, 5, <<12, 0, 0, 0, 255>>, [MCAny EXCEPT ![1] = MCAddress(8, 12), ![5] = <<6, 6>>]),
  MCRecord(5, 1, <<0, 0, 0, 16, 0>>, [MCAny EXCEPT ![4] = <<80, 80>>]),
  MCRecord(6, 4, <<10, 12, 0, 0, 0>>, [MCAny EXCEPT ![1] = MCAddress(8, 10), ![2] = MCAddress(5, 12)])}

MCRule == {r \in MCAll : r.id \in MCNames}

MCPacket == {<<8, 5, 1, 80, 6>>, <<9, 5, 1, 1, 7>>, <<11, 5, 1, 80, 7>>, <<100, 0, 1, 1, 6>>}

\* The Bernstein hash, cut to three values: points of different fields collide.
MCHash(s) == (s[1] \div 4 + s[1] + s[2] + s[5]) % 3
=============================================================================
