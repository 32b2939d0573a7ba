---------------------------- MODULE MCCmdVelMotion ----------------------------
(***************************************************************************)
(* Instances of CmdVelMotion for TLC: speeds of two units, one unit of     *)
(* acceleration per tick, errors on both sides of every limit.             *)
(***************************************************************************)
EXTENDS CmdVelMotion

MCHeadingErrors == -3 .. 3
MCDistances == -1 .. 3
=============================================================================
