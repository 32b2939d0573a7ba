------------------------------- MODULE MCReading -------------------------------
(***************************************************************************)
(* An instance of Reading for TLC: a scanner with 24 beams over a full     *)
(* turn that starts ahead, as the reference robot's, and an image four     *)
(* pixels wide.                                                            *)
(***************************************************************************)
EXTENDS Reading, TLC

Sees(obstacles) == [i \in 0 .. Beams - 1 |-> IF i \in DOMAIN obstacles THEN obstacles[i] ELSE Inf]

\* Ahead to the left, and nearer behind; and straight ahead, next to beams that
\* are invalid or see another obstacle as near.
MCScans == {Sees(1 :> 4 @@ 12 :> 2),
            Sees(0 :> 2 @@ 1 :> 0 @@ 2 :> NaN @@ 6 :> 2 @@ 23 :> 6)}

\* An object on the left, and one that fills an image of a format the server
\* does not encode.
MCImages == {[width |-> 4, sides |-> <<0, 1>>, supported |-> TRUE],
             [width |-> 4, sides |-> <<0, 4>>, supported |-> FALSE]}

Resolved(odom, scan, image) == ("odom" :> odom) @@ ("scan" :> scan) @@ ("image" :> image)
MCRegistries ==
  {[topic |-> Resolved("own", "own", "own"), localized |-> FALSE],
   [topic |-> Resolved("own", "own", "own"), localized |-> TRUE],
   [topic |-> Resolved("other", "other", None), localized |-> TRUE]}

\* Zero and less are what the tool's schema lets through.
MCWidths == {-1, 2, 8}
================================================================================
