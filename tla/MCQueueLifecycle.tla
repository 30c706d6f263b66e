--------------------------- MODULE MCQueueLifecycle ---------------------------
(***************************************************************************)
(* Small instances of QueueLifecycle.  Two users with one role each and    *)
(* the role everyone between them; user u1 is an admin.                    *)
(***************************************************************************)
EXTENDS QueueLifecycle, TLC

CONSTANTS u1, u2, r1, r2, q1

MCMemberOf == (u1 :> {r1, Everyone}) @@ (u2 :> {r2, Everyone})

MCOneUser == (u1 :> {r1, Everyone})

(* One table opens r2 up and shuts r1 out, the other does the opposite.    *)
MCTables == { (r1 :> {}) @@ (r2 :> {"consume", "publish"}),
              (r1 :> {"consume"}) @@ (r2 :> {"publish"}) }

Symmetry == Permutations(Threads)
=============================================================================
