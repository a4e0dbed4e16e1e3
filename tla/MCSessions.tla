----------------------------- MODULE MCSessions -----------------------------
(* An instance of Sessions: one tab with two requests in flight.           *)
EXTENDS Sessions

OneTab == [c \in Caller |-> "first"]
=============================================================================
