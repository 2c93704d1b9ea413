--------------------------- MODULE MCLoadBalancer ---------------------------
(* TLC instances of LoadBalancer.                                          *)
EXTENDS LoadBalancer
=============================================================================
