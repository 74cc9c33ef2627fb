-------------------------------- MODULE MCDashboard --------------------------------
(***************************************************************************)
(* Dashboard for TLC: the handlers are interchangeable.                    *)
(***************************************************************************)
EXTENDS Dashboard, TLC

HandlerSymmetry == Permutations(Handler)
================================================================================
