------------------------------ MODULE MCViews -------------------------------
(***************************************************************************)
(* A project with a store of its own and a mirror it reads: one script and *)
(* one shell.                                                              *)
(***************************************************************************)
EXTENDS Views

CONSTANTS own, mirror, oh

MCOffers == { <<{<<own, oh>>, <<mirror, oh>>}, FALSE, FALSE>>,
              <<{<<own, oh>>}, TRUE, FALSE>>,
              <<{<<mirror, oh>>}, FALSE, TRUE>> }
MCBudgets == {<<1, 0>>}
=============================================================================
