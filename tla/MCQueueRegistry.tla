--------------------------- MODULE MCQueueRegistry ---------------------------
(***************************************************************************)
(* Small instances of QueueRegistry.  Three threads on one queue let a     *)
(* third thread write between the read and the write of each of two        *)
(* others; five calls are enough to create, share twice, leave and remove. *)
(***************************************************************************)
EXTENDS QueueRegistry, TLC

Symmetry == Permutations(Threads)
=============================================================================
