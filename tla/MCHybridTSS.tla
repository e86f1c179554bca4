---------------------------- MODULE MCHybridTSS ----------------------------
(***************************************************************************)
(* A small instance of HybridTSS: tables of two rows and two columns, two  *)
(* threads and three episodes.  Values are multiples of 12, so that means  *)
(* of up to four of them are integers.  Two objects share a file: one      *)
(* trains and saves, the other loads, or trains for other bits; or both    *)
(* have options that are refused.                                          *)
(***************************************************************************)
EXTENDS HybridTSS

CONSTANTS a, b, f

MCLesson1 == (0 :> <<<<<<0, 0>>, 12>>, <<<<0, 1>>, 24>>>>) @@ (1 :> <<<<<<0, 0>>, 36>>>>)
               @@ (2 :> <<<<<<0, 0>>, 0>>, <<<<1, 0>>, 12>>>>)
MCLesson2 == (0 :> <<<<<<1, 1>>, 24>>>>) @@ (1 :> << >>)
               @@ (2 :> <<<<<<1, 1>>, 12>>, <<<<1, 1>>, 48>>>>)
MCLessons == {MCLesson1, MCLesson2}

MCTrainer(n) == [bits |-> n, train_online |-> TRUE, in |-> NoPath, out |-> f]
MCUser(path) == [bits |-> 20, train_online |-> FALSE, in |-> path, out |-> NoPath]

MCOptions == {
  a :> MCTrainer(20) @@ b :> MCUser(f),
  a :> MCTrainer(20) @@ b :> MCTrainer(21),
  a :> MCTrainer(31) @@ b :> MCUser(NoPath)}
=============================================================================
