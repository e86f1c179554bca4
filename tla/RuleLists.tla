----------------------------- MODULE RuleLists -----------------------------
(***************************************************************************)
(* Lists of rules by descending priority, as the leaves of the HybridTSS   *)
(* tree (SubHybridTSS.cpp) and the subsets and leaves of CutTSS            *)
(* (CutTSS.cpp) keep them.                                                 *)
(***************************************************************************)
EXTENDS Rules, Sequences, FiniteSetsExt, SequencesExt

\* The members of a list that are in S, in their order.
Only(list, S) ==
  FoldLeft(LAMBDA kept, x : IF x \in S THEN Append(kept, x) ELSE kept, << >>, list)

\* The members of a list that are in S, each as often as it is there.
Count(list, S) == Cardinality({i \in DOMAIN list : list[i] \in S})

InDescendingOrder(list) ==
  \A i, j \in DOMAIN list : i < j => list[j].priority <= list[i].priority

\* A slip: inserted at the end of the list.
InsertAtEnd(list, r) == Append(list, r)

\* In front of the first rule whose priority is not greater (lower_bound).
InsertSortedByPriority(list, r) ==
  InsertAt(list,
           Min({i \in 1 .. Len(list) + 1 : i > Len(list) \/ list[i].priority <= r.priority}), r)

\* The list without its first member that is in S (find_if and erase).
RemoveFirstOf(list, S) ==
  LET hits == {i \in DOMAIN list : list[i] \in S}
  IN  IF hits = {} THEN list ELSE RemoveAt(list, Min(hits))

FirstMatch(list, p) ==
  LET hits == {i \in DOMAIN list : MatchesPacket(list[i], p)}
  IN  IF hits = {} THEN -1 ELSE list[Min(hits)].priority

=============================================================================
