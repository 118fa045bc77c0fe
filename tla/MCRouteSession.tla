--------------------------- MODULE MCRouteSession ---------------------------
(* RouteSession with two routes, the first of them begun while the radio is  *)
(* off, and one discovery waiting while another is handled. The distances:   *)
(* none, whose fifth is zero, and one from which the level nine is reached.  *)
EXTENDS RouteSession

MCMaxRoutes == 2
MCMaxPending == 1
MCMaxDescriptors == 4
MCDistances == {0, 9}
MCDelayed == {1}
=============================================================================
