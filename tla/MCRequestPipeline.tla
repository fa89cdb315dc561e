-------------------------- MODULE MCRequestPipeline --------------------------
(***************************************************************************)
(* Constant values for TLC: one user of each of two roles.                 *)
(***************************************************************************)
EXTENDS RequestPipeline, TLC

CONSTANTS adm, wkr   \* an administrator and a worker

Roles == adm :> "admin" @@ wkr :> "worker"

Symmetry == Permutations(Slots)

==============================================================================
