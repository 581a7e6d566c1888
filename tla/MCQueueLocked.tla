---------------------------- MODULE MCQueueLocked ----------------------------
(* The programs with one reader, one writer and the monitor.               *)
EXTENDS QueueLocked, TLC

CellSymmetry == Permutations(Cells)
=============================================================================
