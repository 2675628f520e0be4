----------------------------- MODULE MCMetrics -----------------------------
(* An instance of Metrics: recorders against a flusher, over two readings  *)
(* of the clock that are not a whole number of microseconds apart.         *)
EXTENDS Metrics, TLC

MCTimes == {2, 12}

RecorderSymmetry == Permutations(Recorders)
=============================================================================
