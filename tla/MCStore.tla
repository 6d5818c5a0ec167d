------------------------------- MODULE MCStore ------------------------------
(***************************************************************************)
(* Small stores: two keys, the second deterministic, and two contents, so  *)
(* that keys can share an entry and a key can have two.                    *)
(***************************************************************************)
EXTENDS Store, TLC

CONSTANTS k1, k2, o1, o2, w1, w2, r1, r2

MCSoloOf      == w1 :> r1
MCTwoRunsOf   == (w1 :> r1) @@ (w2 :> r2)

MCYields == (k1 :> {o1, o2}) @@ (k2 :> {o1})
MCRetain == (k1 :> "evict") @@ (k2 :> "pin")

MCOneYields    == k1 :> {o1}
MCEitherYields == k1 :> {o1, o2}
MCOneDefault   == k1 :> "default"
MCOneEvict     == k1 :> "evict"
=============================================================================
