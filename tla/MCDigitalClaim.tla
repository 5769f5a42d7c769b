---------------------------- MODULE MCDigitalClaim ----------------------------
(* Instances of DigitalClaim for TLC.                                      *)
EXTENDS DigitalClaim

CONSTANTS c1, c2, p, q, f

\* Two carts that want the two key products in opposite orders, the classic
\* way for two transactions to wait for each other; one also buys a download.
MCCarts == {c1, c2}
MCProducts == {p, q, f}
MCKind == [x \in MCProducts |-> IF x = f THEN "file" ELSE "data"]
MCLines == [c \in MCCarts |-> IF c = c1 THEN <<p, q>>
                                         ELSE <<q, f, p>>]

\* Key 1 of p is inserted while letters run; 2 (of p), 3 and 4 (of q) are in
\* stock, so that only one of the two carts can be served at first.
MCKeys == 1..4
MCProductOf == [k \in MCKeys |-> IF k > 2 THEN q ELSE p]
MCStocked == {2, 3, 4}

\* One cart that orders a single key.  Two keys in stock.
TwoOfPProductOf == [k \in {1, 2} |-> p]
OneLine == [c \in {c1} |-> <<p>>]
\* One key of each product, which both carts want.
TwoKeysProductOf == [k \in {2, 3} |-> IF k = 2 THEN p ELSE q]
=============================================================================
