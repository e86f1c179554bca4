------------------------------ MODULE NodeMap ------------------------------
(***************************************************************************)
(* What a cmap promises its one writer (OVS/cmap.h): nodes are kept in a   *)
(* chain per hash, a node inserted goes to the front of its chain, and a   *)
(* search for a hash finds that chain.                                     *)
(***************************************************************************)
EXTENDS Integers, Sequences, SequencesExt

CONSTANTS
  Node,    (* The nodes a client owns.                                     *)
  hashOf   (* The hash it inserts each of them with.                       *)

VARIABLES
  chains,  (* Per hash, the chain a search finds.                          *)
  count    (* What cmap_count returns.                                     *)

Hash == {hashOf[x] : x \in Node}
In(x) == x \in Range(chains[hashOf[x]])

Init == chains = [h \in Hash |-> << >>] /\ count = 0

\* A client inserts a node that is in no map.
cmap_insert(x) ==
  /\ ~In(x)
  /\ chains' = [chains EXCEPT ![hashOf[x]] = <<x>> \o @]
  /\ count' = count + 1

cmap_remove(x) ==
  /\ In(x)
  /\ chains' = [chains EXCEPT ![hashOf[x]] = RemoveAt(@, CHOOSE i \in DOMAIN @ : @[i] = x)]
  /\ count' = count - 1

\* y takes the place of x.
cmap_replace(x, y) ==
  /\ In(x) /\ ~In(y) /\ hashOf[x] = hashOf[y]
  /\ chains' = [chains EXCEPT ![hashOf[x]] = ReplaceAll(@, x, y)]
  /\ UNCHANGED count

Next == \E x \in Node : cmap_insert(x) \/ cmap_remove(x) \/ \E y \in Node : cmap_replace(x, y)

Spec == Init /\ [][Next]_<<chains, count>>

=============================================================================
