------------------------------ MODULE MCUsage ------------------------------
(* Usage with two requests of two keys of one API, one answered with a      *)
(* status beyond 599, the other one later in its day, whose bodies do not   *)
(* fit together in a day's sum.                                             *)
EXTENDS Usage

CONSTANTS k1, k2, a1

MCKeyOf == [r \in Requests |-> IF r = 1 THEN k1 ELSE k2]
MCStatusOf == [r \in Requests |-> IF r = 1 THEN 600 ELSE 404]
MCClockOf == [r \in Requests |-> r - 1]
MCOneApi == [k \in Keys |-> a1]
MCBytesOf == [r \in Requests |-> r]
=============================================================================
