----------------------- MODULE MCExecutionController -----------------------
(* Small instances of ExecutionController for TLC.                         *)
EXTENDS ExecutionController, TLC

\* Controllers are interchangeable where no fairness is assumed.
WorkerSymmetry == Permutations(Worker)
=============================================================================
