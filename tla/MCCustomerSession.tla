--------------------------- MODULE MCCustomerSession ---------------------------
(* Instances of CustomerSession for TLC.  Requests are interchangeable, but   *)
(* name the keys they make; sessions and customers are interchangeable too.   *)
EXTENDS CustomerSession, TLC

CONSTANTS a1, u1, u2, s1, s2, r1, r2

Interchangeable ==
    Permutations({u1, u2}) \cup Permutations({s1, s2}) \cup Permutations({r1, r2})
=============================================================================
