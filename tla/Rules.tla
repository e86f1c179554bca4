------------------------------- MODULE Rules -------------------------------
(***************************************************************************)
(* The data every classifier of the repository shares: rules, packets and  *)
(* the match relation (ElementaryClasses.h).                               *)
(*                                                                         *)
(* A rule is a record with an id, a priority, a prefix length and a range  *)
(* <<low, high>> per field.  Fields are numbered from 1; the first two are *)
(* the addresses, which are W bits wide here and 32 bits wide in the code. *)
(***************************************************************************)
EXTENDS Integers, FiniteSets

CONSTANTS
  W,       (* Width of an address in bits.                                 *)
  Rule,    (* The rules a client may hand to a classifier.                 *)
  Packet   (* The packets it may ask about: one point per field.           *)

FieldSA    == 1
FieldDA    == 2
FieldSP    == 3
FieldDP    == 4
FieldProto == 5

MatchesPacket(r, p) ==
  \A d \in DOMAIN r.range : r.range[d][1] <= p[d] /\ p[d] <= r.range[d][2]

\* A slip to check the properties against: "no match" is answered as 0.
HighestFromZero(S) == CHOOSE x \in S \cup {0} : \A y \in S \cup {0} : y <= x

(***************************************************************************)
(* The greatest priority in S, or -1, what every ClassifyAPacket starts    *)
(* from and returns when no rule matches.                                  *)
(***************************************************************************)
Highest(S) == CHOOSE x \in S \cup {-1} : \A y \in S \cup {-1} : y <= x

(***************************************************************************)
(* The answer the tests compare every classifier with: a scan of a list of *)
(* rules that keeps the greatest priority of those that match.             *)
(***************************************************************************)
LinearScanPriority(S, p) ==
  Highest({r.priority : r \in {x \in S : MatchesPacket(x, p)}})

\* The point x with all but its first len bits cleared.
Masked(x, len) == x - (x % 2^(W - len))

Priority == {r.priority : r \in Rule}

(***************************************************************************)
(* Priorities are not negative: loadrule numbers them from the size of the *)
(* file down, and -1 means that no rule matches.                           *)
(***************************************************************************)
ASSUME RuleAssumption == IsFiniteSet(Rule) /\ \A r \in Rule : r.priority \in Nat

=============================================================================
