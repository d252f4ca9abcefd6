------------------------------- MODULE MCDemo -------------------------------
(* The values TLC gives the constants of Demo: the ends of the 14-bit range,   *)
(* small values whose quotients are the ends of the tables, and a few between. *)
EXTENDS Demo

MCCoordinates == {-8192, -4096, -1000, -7, -1, 0, 1, 3, 700, 2900, 8191}

\* Two that shift to opposite levels, so that their sum is 0 and not.
MCTouches == {-12, 0, 9}
=============================================================================
