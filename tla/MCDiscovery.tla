----------------------------- MODULE MCDiscovery -------------------------------
(***************************************************************************)
(* Instances of Discovery for TLC: configured topics and strangers of the  *)
(* same kind.                                                              *)
(***************************************************************************)
EXTENDS Discovery

CONSTANTS cmdVel, otherVel, odom, otherOdom, scan, otherScan, image, amcl, nav, otherNav

MCKind == [i \in Interfaces |-> CASE i \in {cmdVel, otherVel} -> "twist"
                                  [] i \in {odom, otherOdom} -> "odom"
                                  [] i \in {scan, otherScan} -> "scan"
                                  [] i = image -> "image"
                                  [] i = amcl -> "amcl"
                                  [] OTHER -> "navigate"]
MCConfigured == {cmdVel, odom, scan, image, nav} \cap Interfaces
MCEnabled == {"differential_drive_motion", "autonomous_navigation"}
=============================================================================
