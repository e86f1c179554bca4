------------------------------ MODULE MCPSTSS ------------------------------
(***************************************************************************)
(* A small instance of PSTSS: addresses of two bits, one more field, and   *)
(* six rules over three tuples.  r1, r2 and r3 share the tuple (1, 0); r1  *)
(* and r3 share the low ends and so the chain; r2 collides with them by    *)
(* its hash; r4, with the priority of r3, is in that chain too.            *)
(***************************************************************************)
EXTENDS PSTSS

MCRuleRecord(i, pri, lsa, lda, sa, da, port) ==
  [id |-> i, priority |-> pri, prefix_length |-> <<lsa, lda>>,
   range |-> <<<<sa, sa + 2^(W - lsa) - 1>>, <<da, da + 2^(W - lda) - 1>>, port>>]

MCRule == {
  MCRuleRecord(1, 3, 1, 0, 0, 0, <<1, 1>>),
  MCRuleRecord(2, 2, 1, 0, 2, 0, <<0, 1>>),
  MCRuleRecord(3, 1, 1, 0, 0, 0, <<0, 0>>),
  MCRuleRecord(4, 1, 1, 0, 0, 0, <<1, 1>>),
  MCRuleRecord(5, 2, 0, 0, 0, 0, <<0, 1>>),
  MCRuleRecord(6, 4, 2, 1, 1, 2, <<0, 0>>)}

MCPacket == {<<0, 0, 0>>, <<1, 2, 0>>, <<1, 1, 1>>, <<3, 3, 0>>}

MCPoint == 0 .. 3
MCHash == [x \in MCPoint \X MCPoint |-> (x[1] + x[2]) % 2]
=============================================================================
