--------------------------- MODULE MCNav2Navigation ---------------------------
(***************************************************************************)
(* Two navigations and one robot.stop: every pair of a navigation with     *)
(* another one and with a stop.                                            *)
(***************************************************************************)
EXTENDS Nav2Navigation

CONSTANTS n1, n2

\* The navigations differ in nothing but their names, and nothing obliges one
\* to begin: let n1 be the first one to be dispatched.
InOrder ==
  pc[n1] = "off" /\ result[n1] = "none" => pc[n2] = "off" /\ result[n2] = "none"
===============================================================================
