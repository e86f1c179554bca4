--------------------------- MODULE MCCmapReaders ---------------------------
(***************************************************************************)
(* A small instance of CmapReaders: two slots per bucket.  Nodes 2 and 3   *)
(* share a hash, and node 1 has hash zero.  In the first two maps there is *)
(* no room for node 1, whose insertion moves the list of 3 and 2, or two   *)
(* slots one after the other; in the last node 2 is in its second bucket,  *)
(* and node 6 moves it back to its first.  Under the second basis three    *)
(* hashes have room in one bucket only, so that an insertion may fail and  *)
(* call for a rehash of the same size.                                     *)
(***************************************************************************)
EXTENDS CmapReaders

CONSTANTS MCNodes

MCFilled == {<<2, 4, 5, 3>>, <<2, 4, 5, 6>>, <<2, 4, 1, 4, 1, 5>>}

MCHashes == <<<<0, 0>>, <<1, 2>>, <<1, 2>>, <<3, 1>>, <<2, 2>>, <<0, 3>>>>
MCHashOf == [x \in MCNodes |-> MCHashes[x]]

\* The two candidate buckets among four, per basis and hash.
MCCandidates == <<
  (<<0, 0>> :> <<0, 0>>) @@ (<<1, 2>> :> <<0, 1>>) @@ (<<3, 1>> :> <<0, 1>>)
    @@ (<<2, 2>> :> <<1, 2>>) @@ (<<0, 3>> :> <<1, 1>>),
  (<<0, 0>> :> <<0, 0>>) @@ (<<1, 2>> :> <<0, 0>>) @@ (<<3, 1>> :> <<0, 0>>)
    @@ (<<2, 2>> :> <<1, 1>>) @@ (<<0, 3>> :> <<1, 3>>)>>

MCFinish(basis, h) == <<MCCandidates[basis][h][2], MCCandidates[basis][h][1]>>
=============================================================================
