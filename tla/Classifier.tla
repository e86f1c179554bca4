----------------------------- MODULE Classifier -----------------------------
(***************************************************************************)
(* What every PacketClassifier promises (ElementaryClasses.h): rules are   *)
(* inserted and deleted one at a time, and a lookup answers the greatest   *)
(* priority of the rules that are in it and match, as a linear scan would. *)
(***************************************************************************)
EXTENDS Rules

CONSTANTS
  MaxCopies,  (* Bound: how many copies of a rule a client keeps inserted. *)
  Void        (* What an update returns.                                   *)

VARIABLES
  live,       (* How many copies of each rule the client has inserted.     *)
  ret         (* What the last call returned: Void or <<packet, priority>>.*)

LiveRules == {r \in Rule : live[r] > 0}

Init ==
  /\ live = [r \in Rule |-> 0]
  /\ ret = Void

InsertRule(r) ==
  /\ live[r] < MaxCopies
  /\ live' = [live EXCEPT ![r] = @ + 1]
  /\ ret' = Void

\* A client deletes only what it has inserted.
DeleteRule(r) ==
  /\ live[r] > 0
  /\ live' = [live EXCEPT ![r] = @ - 1]
  /\ ret' = Void

ClassifyAPacket(p) ==
  /\ ret' = <<p, LinearScanPriority(LiveRules, p)>>
  /\ UNCHANGED live

Next ==
  \/ \E r \in Rule : InsertRule(r) \/ DeleteRule(r)
  \/ \E p \in Packet : ClassifyAPacket(p)

Spec == Init /\ [][Next]_<<live, ret>>

=============================================================================
