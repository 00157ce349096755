-------------------------- MODULE MCExecutionQueue --------------------------
(* The execution queue on small sets of model values. *)
EXTENDS ExecutionQueueInvariant, TLC

\* The operations of a request are interchangeable.
Symmetry == Permutations(Ops)

\* Workers that all observe the grace period are interchangeable.
WorkerSymmetry == Permutations(Handlers)
=============================================================================
