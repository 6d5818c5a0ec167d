------------------------------- MODULE MCPools ------------------------------
(***************************************************************************)
(* Three workers and two pools: requests for one pool, for both, for none, *)
(* for zero units, for more than there is and for a pool not configured.   *)
(***************************************************************************)
EXTENDS Pools, TLC

CONSTANTS cores, mem, gpu

MCCapacity == (cores :> 2) @@ (mem :> 1)
MCRequests ==
  { Nothing, cores :> 0, cores :> 1, cores :> 2, mem :> 1,
    (cores :> 1) @@ (mem :> 1), (cores :> 2) @@ (mem :> 1),
    cores :> 3, gpu :> 1 }
=============================================================================
