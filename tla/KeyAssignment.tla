---------------------------- MODULE KeyAssignment ----------------------------
(***************************************************************************)
(* What the shop promises about licence keys, with no database in sight:   *)
(* a key belongs to nobody until one cart takes it, and it stays with that *)
(* cart for good.  A cart takes all the keys of one purchase letter at     *)
(* once.  DigitalClaim is shown to implement this.                         *)
(***************************************************************************)
CONSTANTS Carts, Keys, NoCart

VARIABLE assigned      \* assigned[k] is the cart that holds key k, or NoCart

Init == assigned = [k \in Keys |-> NoCart]

\* Cart c takes every key of S, all of them free until now.
Assign(c, S) ==
    /\ S # {}
    /\ \A k \in S : assigned[k] = NoCart
    /\ assigned' = [k \in Keys |-> IF k \in S THEN c ELSE assigned[k]]

Next == \E c \in Carts : \E S \in SUBSET Keys : Assign(c, S)

Spec == Init /\ [][Next]_assigned
=============================================================================
