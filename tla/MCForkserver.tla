---------------------------- MODULE MCForkserver ----------------------------
(***************************************************************************)
(* Small sessions: two workers and a shim job, so that both of them want   *)
(* the same template.                                                      *)
(***************************************************************************)
EXTENDS Forkserver, TLC

CONSTANTS w1, w2, j1, k

MCKeyOf == j1 :> k

Setting(sandbox, forkserver, available) ==
  [sandbox |-> sandbox, forkserver |-> forkserver, available |-> available]

\* The default settings without a sandbox on the host; and with them a graph
\* without templates, enforced or not, and one that is refused.
MCDefault  == { Setting("auto", TRUE, FALSE) }
MCSandbox  == { Setting("auto", TRUE, TRUE) }
MCSettings == MCDefault \cup { Setting("off", FALSE, FALSE), Setting("auto", FALSE, TRUE),
                               Setting("require", TRUE, FALSE) }
=============================================================================
