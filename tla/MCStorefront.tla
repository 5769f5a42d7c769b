---------------------------- MODULE MCStorefront ----------------------------
EXTENDS Storefront
\* One product sold by variant, with a base line from before it was split, and
\* a download that is free at first.
Base == "base"
Variant == "variant"
Guide == "guide"
MCItems == {Base, Variant, Guide}
MCProducts == {"game", "guides"}
MCProductOf == [i \in MCItems |-> IF i = Guide THEN "guides" ELSE "game"]
MCPrice == [i \in MCItems |-> IF i = Guide THEN 0 ELSE 1]
MCStock == [i \in MCItems |-> IF i = Guide THEN 0 ELSE 1]
=============================================================================
