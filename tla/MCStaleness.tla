---------------------------- MODULE MCStaleness ----------------------------
(* Both policies the library offers, all kinds with their real lifetimes,  *)
(* and percentages that fire each signal or none.                          *)
EXTENDS Staleness

MCPolicies == {DefaultPolicy, AgeOnly}
MCPercentages == {0, 50, 100}
=============================================================================
