---------------------------- MODULE MCCartPayment ----------------------------
(* Instances of CartPayment for TLC.  Orders share nothing but the server   *)
(* and the payments a redirect may name, so one order stands for all, with  *)
(* one payment beside its own; the systems, whether the amounts agree and   *)
(* whether the requests overlap are chosen at the start.                    *)
EXTENDS CartPayment, TLC

CONSTANTS c1, p1, r1, r2

Interchangeable == Permutations(Requests)
=============================================================================
