------------------------------ MODULE PortfolioMC ------------------------------
(* One client suffices: the response to a PATCH may be lost, after which its  *)
(* view is as old as another tab's would be.                                   *)
EXTENDS Portfolio
=============================================================================
