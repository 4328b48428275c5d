----------------------------- MODULE MCGateway -----------------------------
(* Gateway with two requests around the end of a day that ends a month.     *)
EXTENDS Gateway

(* Both quotas are configured, and the daily one binds first. *)
MCLimit == [daily |-> 1, monthly |-> 2]
=============================================================================
