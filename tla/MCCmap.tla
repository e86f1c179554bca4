------------------------------- MODULE MCCmap -------------------------------
(***************************************************************************)
(* A small instance of Cmap: two slots per bucket, so that four buckets    *)
(* are reached with four nodes and candidates are often full.  Nodes 2 and *)
(* 3 share a hash, and node 1 has hash zero.  Under the first basis three  *)
(* hashes have room in the first bucket only, so that insertions and       *)
(* rehashes fail; under the second the same bucket can be relieved by one  *)
(* hop, or by two when the next bucket is full as well.                    *)
(***************************************************************************)
EXTENDS Cmap

CONSTANT MCNodes

MCHashes == <<<<0, 0>>, <<1, 2>>, <<1, 2>>, <<3, 1>>, <<2, 2>>, <<0, 3>>>>
MCHashOf == [x \in MCNodes |-> MCHashes[x]]

\* The two candidate buckets among four, per basis and hash.
MCCandidates == <<
  (<<0, 0>> :> <<0, 0>>) @@ (<<1, 2>> :> <<0, 0>>) @@ (<<3, 1>> :> <<0, 0>>)
    @@ (<<2, 2>> :> <<1, 1>>) @@ (<<0, 3>> :> <<1, 3>>),
  (<<0, 0>> :> <<0, 0>>) @@ (<<1, 2>> :> <<0, 1>>) @@ (<<3, 1>> :> <<0, 1>>)
    @@ (<<2, 2>> :> <<1, 2>>) @@ (<<0, 3>> :> <<1, 2>>)>>

MCFinish(basis, h) == other_hash(MCCandidates[basis][h])
=============================================================================
