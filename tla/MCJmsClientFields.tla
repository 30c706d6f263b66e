-------------------------- MODULE MCJmsClientFields --------------------------
(***************************************************************************)
(* Small instances of JmsClientFields: calls, queues and users are         *)
(* interchangeable.                                                        *)
(***************************************************************************)
EXTENDS JmsClientFields, TLC

Symmetry == Permutations(Calls) \union Permutations(Queues) \union Permutations(Users)
=============================================================================
