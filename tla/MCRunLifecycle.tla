--------------------------- MODULE MCRunLifecycle ---------------------------
(* RunLifecycle for TLC: the bound of the run in which runs may overlap. *)
EXTENDS RunLifecycle

(* Explore up to and including the first undefined behaviour, not beyond. *)
UpToFirstFault == ub = {}
=============================================================================
