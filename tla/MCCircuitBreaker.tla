--------------------------- MODULE MCCircuitBreaker ----------------------------
(* TLC instance of CircuitBreaker: model values come from the cfg files. *)
EXTENDS CircuitBreaker, TLC

CONSTANTS u1, u2, u3

MCUsers == {u1, u2, u3}
MCUsers2 == {u1, u2}
Plain == {[guard |-> "breaker", excludes |-> FALSE]}
AsyncDecorator == {[guard |-> "async_decorator", excludes |-> FALSE]}
================================================================================
