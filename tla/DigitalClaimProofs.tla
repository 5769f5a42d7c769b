-------------------------- MODULE DigitalClaimProofs --------------------------
(***************************************************************************)
(* DigitalClaim for every set of carts, products, keys and tasks and for   *)
(* either engine: type correctness, the safety of the key allocation, and  *)
(* the refinement of KeyAssignment.                                        *)
(*                                                                         *)
(* KeySoldOnce is not inductive: a key may be mailed only after a commit,  *)
(* and what a commit may do depends on which rows the open transactions    *)
(* hold.  The parts below relate the three places that know about a key:   *)
(* the table (owner), the open transactions (claim) and the letters that   *)
(* are being put together (got).                                           *)
(***************************************************************************)
EXTENDS DigitalClaim, TLAPS

\* An open transaction holds only rows that nobody owns, no two of them the
\* same row, and a task outside its transaction holds none.
ClaimsAreFree == \A t \in Tasks : \A k \in claim[t] : owner[k] = NoCart
ClaimsDisjoint ==
    \A t, u \in Tasks : \A k \in Keys : k \in claim[t] /\ k \in claim[u] => t = u
ClaimsInTx == \A t \in Tasks : pc[t] \notin InTx => claim[t] = {}

\* A letter is made of its cart's own keys, committed or about to be.
GotIsMine ==
    \A t \in Tasks : \A k \in got[t] : owner[k] = at[t] \/ k \in claim[t]
FreshIsEmpty ==
    \A t \in Tasks : pc[t] \in {"idle", "begin"} => got[t] = {} /\ line[t] = 1

\* What was mailed is in the table.
MailedIsOwned == \A c \in Carts, k \in Keys : <<c, k>> \in mailed => owner[k] = c

\* A letter is only written for a cart that was paid at some time.
LettersArePaid == \A t \in Tasks : pc[t] # "idle" => cart[at[t]] # "open"

\* The lines behind a task are served; the candidate fits the current line.
Served(t, i) == \E k \in got[t] : ProductOf[k] = Lines[at[t]][i]
LinesAreServed ==
    \A t \in Tasks : pc[t] # "idle" =>
        \A i \in KeyLines(at[t]) : i < line[t] => Served(t, i)
CandOfLine ==
    \A t \in Tasks : pc[t] = "take" => ProductOf[cand[t]] = Wanted(t)

OwnInv ==
    /\ ClaimsAreFree
    /\ ClaimsDisjoint
    /\ ClaimsInTx
    /\ GotIsMine
    /\ FreshIsEmpty
    /\ MailedIsOwned

PaidInv == LettersArePaid /\ OnlyPaidCartsClaim

ServedInv == LinesAreServed /\ CandOfLine /\ AllOrNothing

-----------------------------------------------------------------------------
(* Type correctness, which needs no other part.                            *)

LEMMA TypeInit == Init => TypeOK
  BY EngineAssumption, StockAssumption, AttemptsAssumption
  DEF Init, TypeOK, InTx

\* The two ways out of a statement, which several actions share.
LEMMA LeaveTypes ==
  ASSUME TypeOK, NEW t \in Tasks, Leave(t), UNCHANGED <<shop, owner, mailed>>
  PROVE  TypeOK'
  BY AttemptsAssumption DEF TypeOK, InTx, Leave, shop

LEMMA NextLineTypes ==
  ASSUME TypeOK, NEW t \in Tasks, pc[t] # "idle",
         NEW S \in SUBSET Keys, NextLine(t, S),
         claim' \in [Tasks -> SUBSET Keys], UNCHANGED <<shop, owner, mailed>>
  PROVE  TypeOK'
<1>1. /\ pc' \in [Tasks -> {"idle", "begin", "mail"} \cup InTx]
      /\ \A u \in Tasks : pc'[u] \in InTx \ {"line"} => u # t /\ pc'[u] = pc[u]
      /\ \A u \in Tasks : pc'[u] # "idle" => pc[u] # "idle"
  BY DEF TypeOK, InTx, NextLine, GoTo
<1>2. line' \in [Tasks -> Nat \ {0}] /\ \A u \in Tasks \ {t} : line'[u] = line[u]
  BY DEF TypeOK, NextLine
<1>3. got' \in [Tasks -> SUBSET Keys]
  BY DEF TypeOK, NextLine
<1>4. /\ cand' \in [Tasks -> Keys \cup {NoKey}]
      /\ \A u \in Tasks \ {t} : cand'[u] = cand[u]
  BY DEF TypeOK, NextLine
<1>5. tries' \in [Tasks -> 0..(MaxAttempts - 1)]
  BY AttemptsAssumption DEF TypeOK, NextLine
<1> QED
  BY <1>1, <1>2, <1>3, <1>4, <1>5 DEF TypeOK, NextLine, shop, InTx

\* One step per action: each puts back values of the variables' types.
LEMMA TypeStep == TypeOK /\ [Next]_vars => TypeOK'
<1> SUFFICES ASSUME TypeOK, [Next]_vars PROVE TypeOK'
  OBVIOUS
<1> USE DEF TypeOK, InTx
<1>1. ASSUME NEW t \in Tasks, NEW c \in Carts, StartLetter(t, c) PROVE TypeOK'
  BY <1>1 DEF StartLetter, GoTo, shop
<1>2. ASSUME NEW t \in Tasks, BeginTx(t) PROVE TypeOK'
  BY <1>2 DEF BeginTx, GoTo, shop
<1>3. ASSUME NEW t \in Tasks, ReadProduct(t) PROVE TypeOK'
  <2>1. CASE Leave(t)
    BY <1>3, <2>1, LeaveTypes DEF ReadProduct
  <2>2. CASE GoTo(t, "own") /\ UNCHANGED <<at, line, tries, cand, claim, got>>
    <3>1. Lines[at[t]] \in Seq(Products)
      BY <1>3, LinesAssumption DEF ReadProduct
    <3>2. line[t] \in 1..Len(Lines[at[t]])
      BY <1>3, <3>1 DEF ReadProduct
    <3> QED
      BY <1>3, <2>2, <3>2 DEF ReadProduct, GoTo, shop
  <2>3. CASE NextLine(t, {}) /\ UNCHANGED claim
    BY <1>3, <2>3, NextLineTypes DEF ReadProduct
  <2> QED
    BY <1>3, <2>1, <2>2, <2>3 DEF ReadProduct
<1>4. ASSUME NEW t \in Tasks, FindOwnKey(t) PROVE TypeOK'
  <2>1. CASE \E k \in OwnRows(t) : NextLine(t, {k})
    BY <1>4, <2>1, NextLineTypes DEF FindOwnKey, OwnRows
  <2>2. CASE GoTo(t, "free") /\ UNCHANGED <<at, line, tries, cand, got>>
    BY <1>4, <2>2 DEF FindOwnKey, GoTo, shop
  <2> QED
    BY <1>4, <2>1, <2>2 DEF FindOwnKey
<1>5. ASSUME NEW t \in Tasks, ReadCandidate(t) PROVE TypeOK'
  <2>1. CASE Leave(t)
    BY <1>5, <2>1, LeaveTypes DEF ReadCandidate
  <2>2. ASSUME NEW k \in Keys, cand' = [cand EXCEPT ![t] = k], GoTo(t, "take"),
               UNCHANGED <<at, line, tries, claim, got>>
        PROVE  TypeOK'
    BY <1>5, <2>2 DEF ReadCandidate, GoTo, shop
  <2> QED
    BY <1>5, <2>1, <2>2 DEF ReadCandidate, FreeRows
<1>6. ASSUME NEW t \in Tasks, TakeKey(t) PROVE TypeOK'
  <2>1. CASE Leave(t)
    BY <1>6, <2>1, LeaveTypes DEF TakeKey
  <2>2. CASE claim' = [claim EXCEPT ![t] = @ \cup {cand[t]}] /\ NextLine(t, {cand[t]})
    <3>1. cand[t] \in Keys
      BY <1>6 DEF TakeKey
    <3>2. claim' \in [Tasks -> SUBSET Keys]
      BY <2>2, <3>1
    <3> QED
      BY <1>6, <2>2, <3>1, <3>2, NextLineTypes DEF TakeKey
  <2>3. CASE /\ ~OutOfAttempts(t) /\ GoTo(t, "own")
             /\ tries' = [tries EXCEPT ![t] = @ + 1]
             /\ cand' = [cand EXCEPT ![t] = NoKey]
             /\ UNCHANGED <<at, line, claim, got>>
    BY <1>6, <2>3, AttemptsAssumption DEF TakeKey, OutOfAttempts, GoTo, shop
  <2> QED
    BY <1>6, <2>1, <2>2, <2>3 DEF TakeKey
<1>7. ASSUME NEW t \in Tasks, Commit(t) PROVE TypeOK'
  BY <1>7 DEF Commit, GoTo, shop
<1>8. ASSUME NEW t \in Tasks, SendMail(t) PROVE TypeOK'
  BY <1>8, AttemptsAssumption DEF SendMail, Leave, shop
<1>9. ASSUME NEW t \in Tasks, Fail(t) PROVE TypeOK'
  BY <1>9, AttemptsAssumption DEF Fail, Leave, RolledBack, shop
<1>10. ASSUME ShopStep PROVE TypeOK'
  BY <1>10 DEF ShopStep, MarkPaid, MarkUnpaid, AddDigitalData, DeleteDigital,
               CheckProductSold, DropProduct, shop, task
<1>11. CASE UNCHANGED vars
  BY <1>11 DEF vars, shop, task
<1> QED
  BY <1>1, <1>2, <1>3, <1>4, <1>5, <1>6, <1>7, <1>8, <1>9, <1>10, <1>11
  DEF Next, LetterStep

\* Every variable stays in its type for every value of the constants.
THEOREM TypeCorrect == Spec => []TypeOK
  BY TypeInit, TypeStep, PTL DEF Spec

-----------------------------------------------------------------------------
(* Who holds a key: the table, the open transactions and the letters.      *)

LEMMA OwnInit == Init => OwnInv
  BY DEF Init, OwnInv, ClaimsAreFree, ClaimsDisjoint, ClaimsInTx, GotIsMine,
         FreshIsEmpty, MailedIsOwned

LEMMA OwnStep == TypeOK /\ OwnInv /\ [Next]_vars => OwnInv'
<1> SUFFICES ASSUME TypeOK, OwnInv, [Next]_vars PROVE OwnInv'
  OBVIOUS
<1> USE DEF TypeOK, InTx, OwnInv, ClaimsAreFree, ClaimsDisjoint, ClaimsInTx,
            GotIsMine, FreshIsEmpty, MailedIsOwned
<1>1. ASSUME NEW t \in Tasks, NEW c \in Carts, StartLetter(t, c) PROVE OwnInv'
  BY <1>1 DEF StartLetter, GoTo, shop
<1>2. ASSUME NEW t \in Tasks, BeginTx(t) PROVE OwnInv'
  BY <1>2 DEF BeginTx, GoTo, shop
<1>L. ASSUME NEW t \in Tasks, Leave(t), UNCHANGED <<owner, mailed>> PROVE OwnInv'
  BY <1>L DEF Leave
<1>N. ASSUME NEW t \in Tasks, pc[t] \in InTx, NEW S, NextLine(t, S),
             \A k \in S : owner[k] = at[t] \/ k \in claim[t],
             UNCHANGED <<owner, claim, mailed>>
      PROVE  OwnInv'
  BY <1>N DEF NextLine, GoTo
<1>3. ASSUME NEW t \in Tasks, ReadProduct(t) PROVE OwnInv'
  <2>1. CASE Leave(t)
    BY <1>3, <2>1, <1>L DEF ReadProduct
  <2>2. CASE GoTo(t, "own") /\ UNCHANGED <<at, line, tries, cand, claim, got>>
    BY <1>3, <2>2 DEF ReadProduct, GoTo
  <2>3. CASE NextLine(t, {}) /\ UNCHANGED claim
    BY <1>3, <2>3, <1>N DEF ReadProduct
  <2> QED
    BY <1>3, <2>1, <2>2, <2>3 DEF ReadProduct
<1>4. ASSUME NEW t \in Tasks, FindOwnKey(t) PROVE OwnInv'
  <2>1. ASSUME NEW k \in OwnRows(t), NextLine(t, {k}) PROVE OwnInv'
    BY <1>4, <2>1, <1>N DEF FindOwnKey, OwnRows
  <2>2. CASE GoTo(t, "free") /\ UNCHANGED <<at, line, tries, cand, got>>
    BY <1>4, <2>2 DEF FindOwnKey, GoTo
  <2> QED
    BY <1>4, <2>1, <2>2 DEF FindOwnKey
<1>5. ASSUME NEW t \in Tasks, ReadCandidate(t) PROVE OwnInv'
  <2>1. CASE Leave(t)
    BY <1>5, <2>1, <1>L DEF ReadCandidate
  <2>2. CASE GoTo(t, "take") /\ UNCHANGED <<at, line, tries, claim, got>>
    BY <1>5, <2>2 DEF ReadCandidate, GoTo
  <2> QED
    BY <1>5, <2>1, <2>2 DEF ReadCandidate
<1>6. ASSUME NEW t \in Tasks, TakeKey(t) PROVE OwnInv'
  <2>1. CASE Leave(t)
    BY <1>6, <2>1, <1>L DEF TakeKey
  <2>2. CASE /\ GuardedUpdate(t, cand[t])
             /\ claim' = [claim EXCEPT ![t] = @ \cup {cand[t]}]
             /\ NextLine(t, {cand[t]})
    BY <1>6, <2>2 DEF TakeKey, RowLockFree, GuardedUpdate, NextLine, GoTo
  <2>3. CASE GoTo(t, "own") /\ UNCHANGED <<at, line, claim, got>>
    BY <1>6, <2>3 DEF TakeKey, GoTo
  <2> QED
    BY <1>6, <2>1, <2>2, <2>3 DEF TakeKey
<1>7. ASSUME NEW t \in Tasks, Commit(t) PROVE OwnInv'
  <2>1. ClaimsAreFree'
    BY <1>7 DEF Commit, GoTo
  <2>2. ClaimsDisjoint' /\ ClaimsInTx' /\ FreshIsEmpty'
    BY <1>7 DEF Commit, GoTo
  <2>3. GotIsMine'
    <3> SUFFICES ASSUME NEW u \in Tasks, NEW k \in got[u]
                 PROVE  owner'[k] = at[u] \/ k \in claim'[u]
      BY <1>7 DEF Commit
    <3>1. k \in Keys /\ at[u] # NoCart
      BY CartsAssumption
    <3>2. k \in claim[t] => owner'[k] = at[t] /\ owner[k] = NoCart
      BY <1>7 DEF Commit
    <3>3. k \notin claim[t] => owner'[k] = owner[k]
      BY <1>7, <3>1 DEF Commit
    <3>4. u # t => claim'[u] = claim[u]
      BY <1>7 DEF Commit
    <3> QED
      BY <3>1, <3>2, <3>3, <3>4
  <2>4. MailedIsOwned'
    BY <1>7, CartsAssumption DEF Commit, GoTo
  <2> QED
    BY <2>1, <2>2, <2>3, <2>4
<1>8. ASSUME NEW t \in Tasks, SendMail(t) PROVE OwnInv'
  <2>1. \A k \in got[t] : owner[k] = at[t]
    BY <1>8 DEF SendMail
  <2>2. MailedIsOwned'
    BY <1>8, <2>1 DEF SendMail
  <2>3. (ClaimsAreFree /\ ClaimsDisjoint /\ ClaimsInTx /\ GotIsMine /\ FreshIsEmpty)'
    BY <1>8 DEF SendMail, Leave
  <2> QED
    BY <2>2, <2>3
<1>9. ASSUME NEW t \in Tasks, Fail(t) PROVE OwnInv'
  BY <1>9, <1>L DEF Fail, RolledBack
<1>10. ASSUME ShopStep PROVE OwnInv'
  BY <1>10 DEF ShopStep, MarkPaid, MarkUnpaid, AddDigitalData, DeleteDigital,
               CheckProductSold, DropProduct, task
<1>11. CASE UNCHANGED vars
  BY <1>11 DEF vars, shop, task
<1> QED
  BY <1>1, <1>2, <1>3, <1>4, <1>5, <1>6, <1>7, <1>8, <1>9, <1>10, <1>11
  DEF Next, LetterStep

-----------------------------------------------------------------------------
(* Only paid carts have letters written and keys claimed.                  *)

LEMMA PaidInit == Init => PaidInv
  BY CartsAssumption DEF Init, PaidInv, LettersArePaid, OnlyPaidCartsClaim

LEMMA PaidStep == TypeOK /\ OwnInv /\ PaidInv /\ [Next]_vars => PaidInv'
<1> SUFFICES ASSUME TypeOK, OwnInv, PaidInv, [Next]_vars PROVE PaidInv'
  OBVIOUS
<1> USE DEF TypeOK, InTx, PaidInv, LettersArePaid, OnlyPaidCartsClaim
<1>1. ASSUME NEW t \in Tasks, NEW c \in Carts, StartLetter(t, c) PROVE PaidInv'
  BY <1>1 DEF StartLetter, MayHaveLetter, GoTo, shop
<1>2. ASSUME NEW t \in Tasks,
             UNCHANGED <<cart, owner>>,
             \A u \in Tasks \ {t} : pc'[u] = pc[u] /\ at'[u] = at[u],
             pc'[t] # "idle" => pc[t] # "idle" /\ at'[t] = at[t]
      PROVE  PaidInv'
  BY <1>2
<1>3. ASSUME NEW t \in Tasks, BeginTx(t) \/ ReadProduct(t) PROVE PaidInv'
  BY <1>2, <1>3 DEF BeginTx, ReadProduct, NextLine, Leave, GoTo, shop
<1>4. ASSUME NEW t \in Tasks, FindOwnKey(t) \/ ReadCandidate(t) PROVE PaidInv'
  BY <1>2, <1>4 DEF FindOwnKey, ReadCandidate, NextLine, Leave, GoTo, shop
<1>5. ASSUME NEW t \in Tasks, TakeKey(t) PROVE PaidInv'
  BY <1>2, <1>5 DEF TakeKey, NextLine, Leave, GoTo, shop
<1>6. ASSUME NEW t \in Tasks, SendMail(t) \/ Fail(t) PROVE PaidInv'
  BY <1>2, <1>6 DEF SendMail, Fail, Leave, RolledBack, shop
<1>7. ASSUME NEW t \in Tasks, Commit(t) PROVE PaidInv'
  BY <1>7 DEF Commit, GoTo, shop
<1>8. ASSUME ShopStep PROVE PaidInv'
  BY <1>8 DEF ShopStep, MarkPaid, MarkUnpaid, AddDigitalData, DeleteDigital,
              CheckProductSold, DropProduct, task
<1>9. CASE UNCHANGED vars
  BY <1>9 DEF vars, shop, task
<1> QED
  BY <1>1, <1>3, <1>4, <1>5, <1>6, <1>7, <1>8, <1>9 DEF Next, LetterStep

-----------------------------------------------------------------------------
(* A letter serves every line, or the table does not change.               *)

LEMMA ServedInit == Init => ServedInv
  BY CartsAssumption DEF Init, ServedInv, LinesAreServed, CandOfLine, AllOrNothing

LEMMA ServedStep ==
    TypeOK /\ OwnInv /\ ServedInv /\ [Next]_vars => ServedInv'
<1> SUFFICES ASSUME TypeOK, OwnInv, ServedInv, [Next]_vars PROVE ServedInv'
  OBVIOUS
<1> USE DEF TypeOK, InTx, ServedInv
<1>S. ASSUME UNCHANGED <<pc, at, line, cand, got>>
      PROVE  (LinesAreServed /\ CandOfLine)'
  BY <1>S DEF LinesAreServed, CandOfLine, Served, Wanted
<1>O. ASSUME UNCHANGED owner PROVE AllOrNothing'
  BY <1>O DEF AllOrNothing
<1>G. ASSUME NEW t \in Tasks, UNCHANGED <<at, line, got>>,
             \A u \in Tasks \ {t} : pc'[u] = pc[u] /\ cand'[u] = cand[u],
             pc[t] # "idle",
             pc'[t] = "take" => ProductOf[cand'[t]] = Wanted(t)
      PROVE  (LinesAreServed /\ CandOfLine)'
  <2>1. \A u \in Tasks : pc'[u] # "idle" => pc[u] # "idle"
    BY <1>G
  <2>3. LinesAreServed'
    BY <1>G, <2>1 DEF LinesAreServed, Served
  <2>2. CandOfLine'
    BY <1>G DEF CandOfLine, Wanted
  <2> QED
    BY <2>2, <2>3
<1>L. ASSUME NEW t \in Tasks, Leave(t) PROVE (LinesAreServed /\ CandOfLine)'
  <2>1. LinesAreServed'
    BY <1>L DEF Leave, LinesAreServed, Served
  <2>2. CandOfLine'
    BY <1>L DEF Leave, CandOfLine, Wanted
  <2> QED
    BY <2>1, <2>2
<1>N. ASSUME NEW t \in Tasks, pc[t] \in InTx, NEW S, NextLine(t, S),
             Kind[Wanted(t)] = "data" => \E k \in S : ProductOf[k] = Wanted(t)
      PROVE  (LinesAreServed /\ CandOfLine)'
  <2>1. LinesAreServed'
    <3> SUFFICES ASSUME NEW u \in Tasks, pc'[u] # "idle",
                        NEW i \in KeyLines(at[u]), i < line'[u]
                 PROVE  Served(u, i)'
      BY <1>N DEF LinesAreServed, NextLine
    <3>1. at' = at /\ got[u] \subseteq got'[u]
      BY <1>N DEF NextLine
    <3>2. ASSUME Served(u, i) PROVE Served(u, i)'
      BY <3>1, <3>2 DEF Served
    <3>3. CASE u # t
      <4>1. pc'[u] = pc[u] /\ line'[u] = line[u]
        BY <3>3, <1>N DEF NextLine, GoTo
      <4> QED
        BY <4>1, <3>1, <3>2 DEF LinesAreServed
    <3>4. CASE u = t /\ i < line[t]
      <4>1. pc[u] # "idle"
        BY <3>4, <1>N
      <4> QED
        BY <3>4, <4>1, <3>1, <3>2 DEF LinesAreServed
    <3>5. CASE u = t /\ i = line[t]
      BY <3>5, <1>N DEF NextLine, Served, Wanted, KeyLines
    <3>6. u = t => line'[u] = line[t] + 1 /\ line[t] \in Nat /\ i \in Nat
      BY <1>N DEF NextLine, KeyLines
    <3> QED
      BY <3>3, <3>4, <3>5, <3>6
  <2>2. CandOfLine'
    BY <1>N DEF NextLine, GoTo, CandOfLine, Wanted
  <2> QED
    BY <2>1, <2>2
<1>1. ASSUME NEW t \in Tasks, NEW c \in Carts, StartLetter(t, c) PROVE ServedInv'
  <2>1. LinesAreServed'
    <3>1. line'[t] = 1 /\ \A i \in KeyLines(c) : i \in 1..Len(Lines[c])
      BY <1>1 DEF StartLetter, OwnInv, FreshIsEmpty, KeyLines
    <3>2. \A i \in KeyLines(at'[t]) : ~(i < line'[t])
      BY <1>1, <3>1 DEF StartLetter
    <3>3. ASSUME NEW u \in Tasks \ {t}, pc'[u] # "idle",
                 NEW i \in KeyLines(at'[u]), i < line'[u]
          PROVE  Served(u, i)'
      BY <1>1, <3>3 DEF StartLetter, GoTo, LinesAreServed, Served
    <3> QED
      BY <3>2, <3>3 DEF LinesAreServed
  <2>2. CandOfLine'
    BY <1>1 DEF StartLetter, GoTo, CandOfLine, Wanted
  <2> QED
    BY <1>1, <2>1, <2>2, <1>O DEF StartLetter
<1>2. ASSUME NEW t \in Tasks, BeginTx(t) PROVE ServedInv'
  BY <1>2, <1>G, <1>O DEF BeginTx, GoTo
<1>3. ASSUME NEW t \in Tasks, ReadProduct(t) PROVE ServedInv'
  <2>1. CASE Leave(t)
    BY <1>3, <2>1, <1>L, <1>O DEF ReadProduct
  <2>2. CASE GoTo(t, "own") /\ UNCHANGED <<at, line, tries, cand, claim, got>>
    BY <1>3, <2>2, <1>G, <1>O DEF ReadProduct, GoTo
  <2>3. CASE NextLine(t, {}) /\ Kind[Wanted(t)] # "data"
    BY <1>3, <2>3, <1>N, <1>O DEF ReadProduct
  <2> QED
    BY <1>3, <2>1, <2>2, <2>3 DEF ReadProduct
<1>4. ASSUME NEW t \in Tasks, FindOwnKey(t) PROVE ServedInv'
  <2>1. ASSUME NEW k \in OwnRows(t), NextLine(t, {k}) PROVE ServedInv'
    BY <1>4, <2>1, <1>N, <1>O DEF FindOwnKey, OwnRows
  <2>2. CASE GoTo(t, "free") /\ UNCHANGED <<at, line, tries, cand, got>>
    BY <1>4, <2>2, <1>G, <1>O DEF FindOwnKey, GoTo
  <2> QED
    BY <1>4, <2>1, <2>2 DEF FindOwnKey
<1>5. ASSUME NEW t \in Tasks, ReadCandidate(t) PROVE ServedInv'
  <2>1. CASE Leave(t)
    BY <1>5, <2>1, <1>L, <1>O DEF ReadCandidate
  <2>2. ASSUME NEW k \in FreeRows(t), cand' = [cand EXCEPT ![t] = k],
               GoTo(t, "take"), UNCHANGED <<at, line, tries, claim, got>>
        PROVE  ServedInv'
    BY <1>5, <2>2, <1>G, <1>O DEF ReadCandidate, FreeRows, GoTo
  <2> QED
    BY <1>5, <2>1, <2>2 DEF ReadCandidate
<1>6. ASSUME NEW t \in Tasks, TakeKey(t) PROVE ServedInv'
  <2>1. CASE Leave(t)
    BY <1>6, <2>1, <1>L, <1>O DEF TakeKey
  <2>2. CASE NextLine(t, {cand[t]})
    BY <1>6, <2>2, <1>N, <1>O DEF TakeKey, CandOfLine
  <2>3. CASE /\ GoTo(t, "own")
             /\ cand' = [cand EXCEPT ![t] = NoKey]
             /\ UNCHANGED <<at, line, claim, got>>
    BY <1>6, <2>3, <1>G, <1>O DEF TakeKey, GoTo
  <2> QED
    BY <1>6, <2>1, <2>2, <2>3 DEF TakeKey
<1>7. ASSUME NEW t \in Tasks, Commit(t) PROVE ServedInv'
  <2>1. (LinesAreServed /\ CandOfLine)'
    BY <1>7, <1>G DEF Commit, GoTo
  <2>2. AllOrNothing'
    <3> SUFFICES ASSUME NEW c \in Carts, NEW j \in Keys, owner'[j] = c,
                        NEW i \in KeyLines(c)
                 PROVE  \E k \in Keys : /\ owner'[k] = c
                                        /\ ProductOf[k] = Lines[c][i]
      BY DEF AllOrNothing
    <3>1. \A k \in Keys : owner[k] # NoCart => owner'[k] = owner[k]
      BY <1>7 DEF Commit, OwnInv, ClaimsAreFree
    <3>2. CASE c = at[t]
      <4>1. Len(Lines[c]) \in Nat /\ line[t] \in Nat /\ i < line[t]
        BY <1>7, <3>2, LinesAssumption DEF Commit, KeyLines
      <4>2. pc[t] # "idle" /\ i \in KeyLines(at[t]) /\ i < line[t]
        BY <1>7, <3>2, <4>1 DEF Commit
      <4>3. Served(t, i)
        BY <4>2 DEF LinesAreServed
      <4>4. PICK k \in got[t] : ProductOf[k] = Lines[c][i]
        BY <3>2, <4>3 DEF Served
      <4>5. owner'[k] = c
        BY <1>7, <3>2 DEF Commit, OwnInv, GotIsMine, ClaimsAreFree
      <4> QED
        BY <4>4, <4>5
    <3>3. CASE c # at[t]
      <4>1. owner[j] = c
        BY <1>7, <3>3 DEF Commit
      <4>2. PICK k \in Keys : owner[k] = c /\ ProductOf[k] = Lines[c][i]
        BY <4>1 DEF AllOrNothing
      <4> QED
        BY <3>1, <4>2, CartsAssumption
    <3> QED
      BY <3>2, <3>3
  <2> QED
    BY <2>1, <2>2
<1>8. ASSUME NEW t \in Tasks, SendMail(t) \/ Fail(t) PROVE ServedInv'
  BY <1>8, <1>L, <1>O DEF SendMail, Fail, RolledBack
<1>9. ASSUME ShopStep PROVE ServedInv'
  BY <1>9, <1>S, <1>O DEF ShopStep, MarkPaid, MarkUnpaid, AddDigitalData,
                          DeleteDigital, CheckProductSold, DropProduct, task
<1>10. CASE UNCHANGED vars
  BY <1>10, <1>S, <1>O DEF vars, shop, task
<1> QED
  BY <1>1, <1>2, <1>3, <1>4, <1>5, <1>6, <1>7, <1>8, <1>9, <1>10
  DEF Next, LetterStep

-----------------------------------------------------------------------------
(* SQLite: with one writer, the letters of a cart agree on its keys.       *)

\* A row not inserted yet is nobody's.
NewIsNobodys ==
    \A k \in Keys : row[k] = "new" =>
        owner[k] = NoCart /\ \A t \in Tasks : k \notin claim[t]

\* What the transaction of t sees as its cart's, whatever the product.
Mine(t, k) == owner[k] = at[t] \/ k \in claim[t]

\* The write lock is held by one transaction at a time.
OneWriter == \A t, u \in Tasks : pc[t] \in InTx /\ pc[u] \in InTx => t = u

\* An open transaction sees one key per product as its cart's, and none of the
\* current product once it looks for a free one.
TxAgrees ==
    \A t \in Tasks : pc[t] \in InTx =>
        \A j, k \in Keys :
            /\ row[j] = "live" /\ row[k] = "live"
            /\ Mine(t, j) /\ Mine(t, k)
            /\ ProductOf[j] = ProductOf[k]
            => j = k
NoneFound == \A t \in Tasks : pc[t] \in {"free", "take"} => OwnRows(t) = {}

SqliteInv ==
    /\ NewIsNobodys
    /\ engine = "sqlite" => OneWriter /\ TxAgrees /\ NoneFound /\ LettersAgree

LEMMA SqliteInit == Init => SqliteInv
  BY DEF Init, SqliteInv, NewIsNobodys, OneWriter, TxAgrees, NoneFound,
         LettersAgree, InTx

LEMMA SqliteStep ==
    TypeOK /\ OwnInv /\ ServedInv /\ SqliteInv /\ [Next]_vars => SqliteInv'
<1> SUFFICES ASSUME TypeOK, OwnInv, ServedInv, SqliteInv, [Next]_vars
             PROVE  SqliteInv'
  OBVIOUS
<1> USE DEF TypeOK, InTx, SqliteInv, NewIsNobodys
<1>S. ASSUME NEW t \in Tasks, pc[t] \in InTx, UNCHANGED <<shop, owner, at, claim>>,
             \A u \in Tasks \ {t} : pc'[u] = pc[u] /\ line'[u] = line[u],
             pc'[t] \in InTx,
             pc'[t] \in {"free", "take"} => line'[t] = line[t] /\ OwnRows(t) = {}
      PROVE  SqliteInv'
  <2>1. NewIsNobodys' /\ engine' = engine
    BY <1>S DEF shop
  <2>2. engine = "sqlite" => (OneWriter /\ LettersAgree)'
    BY <1>S DEF OneWriter, LettersAgree, shop
  <2>3. engine = "sqlite" => TxAgrees'
    <3>1. \A u \in Tasks : pc'[u] \in InTx => pc[u] \in InTx
      BY <1>S
    <3>2. \A u \in Tasks, k \in Keys : Mine(u, k)' => Mine(u, k)
      BY <1>S DEF Mine
    <3>3. row' = row /\ (TxAgrees => TxAgrees')
      <4>1. row' = row
        BY <1>S DEF shop
      <4> QED
        BY <3>1, <3>2, <4>1 DEF TxAgrees
    <3> QED
      BY <3>3
  <2>4. engine = "sqlite" => NoneFound'
    <3>1. UNCHANGED <<row, owner, at, claim>>
      BY <1>S DEF shop
    <3>2. \A u \in Tasks : pc'[u] \in {"free", "take"} =>
              line'[u] = line[u] /\ (pc[u] \in {"free", "take"} \/ OwnRows(u) = {})
      BY <1>S
    <3>3. \A u \in Tasks : line'[u] = line[u] => OwnRows(u)' = OwnRows(u)
      BY <3>1 DEF OwnRows, Wanted
    <3> QED
      BY <3>2, <3>3 DEF NoneFound
  <2> QED
    BY <2>1, <2>2, <2>3, <2>4
<1>L. ASSUME NEW t \in Tasks, Leave(t), UNCHANGED <<shop, owner>> PROVE SqliteInv'
  <2>1. NewIsNobodys' /\ engine' = engine
    BY <1>L DEF Leave, shop
  <2>2. \A u \in Tasks : pc'[u] # "idle" =>
            u # t /\ pc'[u] = pc[u] /\ at'[u] = at[u] /\ line'[u] = line[u]
                  /\ claim'[u] = claim[u]
    BY <1>L DEF Leave
  <2>3. engine = "sqlite" => (OneWriter /\ LettersAgree)'
    BY <1>L, <2>2 DEF OneWriter, LettersAgree, shop
  <2>4. engine = "sqlite" => TxAgrees'
    <3>1. \A u \in Tasks, k \in Keys :
              pc'[u] \in InTx /\ Mine(u, k)' => pc[u] \in InTx /\ Mine(u, k)
      BY <1>L, <2>2 DEF Mine
    <3> QED
      BY <1>L, <3>1 DEF TxAgrees, shop
  <2>5. engine = "sqlite" => NoneFound'
    BY <1>L, <2>2 DEF NoneFound, OwnRows, Wanted, shop
  <2> QED
    BY <2>1, <2>3, <2>4, <2>5
<1>1. ASSUME NEW t \in Tasks, NEW c \in Carts, StartLetter(t, c) PROVE SqliteInv'
  <2>1. NewIsNobodys' /\ engine' = engine
    BY <1>1 DEF StartLetter, shop
  <2>2. \A u \in Tasks : pc'[u] \in InTx =>
            u # t /\ pc'[u] = pc[u] /\ at'[u] = at[u]
    BY <1>1 DEF StartLetter, GoTo
  <2>3. engine = "sqlite" => (OneWriter /\ LettersAgree)'
    BY <1>1, <2>2 DEF StartLetter, OneWriter, LettersAgree, shop
  <2>4. engine = "sqlite" => TxAgrees'
    BY <1>1, <2>2 DEF StartLetter, TxAgrees, Mine, shop
  <2>5. engine = "sqlite" => NoneFound'
    BY <1>1, <2>2 DEF StartLetter, NoneFound, OwnRows, Wanted, shop
  <2> QED
    BY <2>1, <2>3, <2>4, <2>5
<1>2. ASSUME NEW t \in Tasks, BeginTx(t) PROVE SqliteInv'
  <2>1. NewIsNobodys' /\ engine' = engine
    BY <1>2 DEF BeginTx, shop
  <2>2. claim[t] = {} /\ at[t] # NoCart
    BY <1>2, CartsAssumption DEF BeginTx, OwnInv, ClaimsInTx
  <2>3. engine = "sqlite" => \A u \in Tasks : pc'[u] \in InTx => u = t /\ pc'[u] = "line"
    BY <1>2 DEF BeginTx, WriteLockFree, GoTo
  <2>4. engine = "sqlite" => (OneWriter /\ LettersAgree /\ NoneFound)'
    BY <1>2, <2>3 DEF BeginTx, OneWriter, LettersAgree, NoneFound, shop
  <2>5. engine = "sqlite" => TxAgrees'
    BY <1>2, <2>2, <2>3 DEF BeginTx, TxAgrees, Mine, LettersAgree, shop
  <2> QED
    BY <2>1, <2>4, <2>5
<1>3. ASSUME NEW t \in Tasks, ReadProduct(t) PROVE SqliteInv'
  BY <1>3, <1>L, <1>S DEF ReadProduct, NextLine, GoTo
<1>4. ASSUME NEW t \in Tasks, FindOwnKey(t) PROVE SqliteInv'
  BY <1>4, <1>S DEF FindOwnKey, NextLine, GoTo
<1>5. ASSUME NEW t \in Tasks, ReadCandidate(t) PROVE SqliteInv'
  <2>1. CASE Leave(t)
    BY <1>5, <2>1, <1>L DEF ReadCandidate
  <2>2. CASE GoTo(t, "take") /\ UNCHANGED <<at, line, claim>>
    <3>1. engine = "sqlite" => OwnRows(t) = {}
      BY <1>5 DEF ReadCandidate, NoneFound
    <3>2. CASE engine = "sqlite"
      BY <1>5, <2>2, <3>1, <3>2, <1>S DEF ReadCandidate, GoTo
    <3>3. CASE engine # "sqlite"
      BY <1>5, <2>2, <3>3 DEF ReadCandidate, GoTo, shop
    <3> QED
      BY <3>2, <3>3
  <2> QED
    BY <1>5, <2>1, <2>2 DEF ReadCandidate
<1>6. ASSUME NEW t \in Tasks, TakeKey(t) PROVE SqliteInv'
  <2>1. CASE Leave(t)
    BY <1>6, <2>1, <1>L DEF TakeKey
  <2>2. CASE /\ GuardedUpdate(t, cand[t])
             /\ claim' = [claim EXCEPT ![t] = @ \cup {cand[t]}]
             /\ NextLine(t, {cand[t]})
    <3>1. NewIsNobodys' /\ engine' = engine
      BY <1>6, <2>2 DEF TakeKey, GuardedUpdate, shop
    <3>2. \A u \in Tasks : pc'[u] \in InTx => pc[u] \in InTx
      BY <1>6, <2>2 DEF TakeKey, NextLine, GoTo
    <3>3. engine = "sqlite" => \A u \in Tasks : pc'[u] \in InTx => u = t /\ pc'[u] = "line"
      BY <1>6, <2>2, <3>2 DEF TakeKey, NextLine, GoTo, OneWriter
    <3>4. engine = "sqlite" => (OneWriter /\ LettersAgree /\ NoneFound)'
      BY <1>6, <3>3 DEF TakeKey, OneWriter, LettersAgree, NoneFound, shop
    <3>5. engine = "sqlite" => TxAgrees'
      <4> SUFFICES ASSUME engine = "sqlite", NEW j \in Keys, NEW k \in Keys,
                          row[j] = "live", row[k] = "live", ProductOf[j] = ProductOf[k],
                          Mine(t, j)', Mine(t, k)'
                   PROVE  j = k
        BY <1>6, <3>3 DEF TakeKey, TxAgrees, shop
      <4>1. \A i \in Keys : Mine(t, i)' => Mine(t, i) \/ i = cand[t]
        BY <1>6, <2>2 DEF TakeKey, Mine, NextLine
      <4>2. \A i \in Keys : row[i] = "live" /\ Mine(t, i) => ProductOf[i] # Wanted(t)
        BY <1>6 DEF TakeKey, NoneFound, OwnRows, Mine
      <4>3. ProductOf[cand[t]] = Wanted(t)
        BY <1>6 DEF TakeKey, ServedInv, CandOfLine
      <4> QED
        BY <1>6, <4>1, <4>2, <4>3 DEF TxAgrees, TakeKey
    <3> QED
      BY <3>1, <3>4, <3>5
  <2>3. CASE GoTo(t, "own") /\ UNCHANGED <<at, line, claim, got>>
    BY <1>6, <2>3, <1>S DEF TakeKey, GoTo
  <2> QED
    BY <1>6, <2>1, <2>2, <2>3 DEF TakeKey
<1>7. ASSUME NEW t \in Tasks, Commit(t) PROVE SqliteInv'
  <2>1. NewIsNobodys' /\ engine' = engine
    BY <1>7 DEF Commit, shop
  <2>2. engine = "sqlite" => \A u \in Tasks : pc'[u] \notin InTx
    BY <1>7 DEF Commit, GoTo, OneWriter
  <2>3. engine = "sqlite" => (OneWriter /\ TxAgrees /\ NoneFound)'
    BY <2>2 DEF OneWriter, TxAgrees, NoneFound
  <2>4. engine = "sqlite" => LettersAgree'
    <3> SUFFICES ASSUME engine = "sqlite", NEW j \in Keys, NEW k \in Keys,
                        row[j] = "live", row[k] = "live",
                        owner'[j] # NoCart, owner'[j] = owner'[k],
                        ProductOf[j] = ProductOf[k]
                 PROVE  j = k
      BY <1>7 DEF Commit, LettersAgree, shop
    <3>1. CASE owner'[j] = at[t]
      <4>1. Mine(t, j) /\ Mine(t, k)
        BY <1>7, <3>1 DEF Commit, Mine
      <4> QED
        BY <1>7, <4>1 DEF Commit, TxAgrees
    <3>2. CASE owner'[j] # at[t]
      <4>1. owner[j] = owner'[j] /\ owner[k] = owner'[k]
        BY <1>7, <3>2 DEF Commit
      <4> QED
        BY <4>1 DEF LettersAgree
    <3> QED
      BY <3>1, <3>2
  <2> QED
    BY <2>1, <2>3, <2>4
<1>8. ASSUME NEW t \in Tasks, SendMail(t) \/ Fail(t) PROVE SqliteInv'
  BY <1>8, <1>L DEF SendMail, Fail, RolledBack
<1>9. ASSUME UNCHANGED <<engine, owner, task, claim>>,
             \A k \in Keys : row'[k] = "new" => row[k] = "new",
             \A k \in Keys : row'[k] = "live" => row[k] = "live"
      PROVE  SqliteInv'
  <2>1. NewIsNobodys'
    BY <1>9
  <2>2. engine = "sqlite" => (OneWriter /\ TxAgrees /\ LettersAgree)'
    BY <1>9 DEF OneWriter, TxAgrees, LettersAgree, Mine, task
  <2>3. engine = "sqlite" => NoneFound'
    BY <1>9 DEF NoneFound, OwnRows, Wanted, task
  <2> QED
    BY <1>9, <2>1, <2>2, <2>3
<1>10. ASSUME NEW k \in Keys, AddDigitalData(k) PROVE SqliteInv'
  <2>1. NewIsNobodys' /\ engine' = engine
    BY <1>10 DEF AddDigitalData, task
  <2>2. engine = "sqlite" => (OneWriter /\ TxAgrees /\ NoneFound)'
    BY <1>10 DEF AddDigitalData, WriteLockFree, OneWriter, TxAgrees, NoneFound, task
  <2>3. engine = "sqlite" => LettersAgree'
    BY <1>10 DEF AddDigitalData, LettersAgree
  <2> QED
    BY <2>1, <2>2, <2>3
<1>11. ASSUME ShopStep PROVE SqliteInv'
  BY <1>9, <1>10, <1>11
  DEF ShopStep, MarkPaid, MarkUnpaid, DeleteDigital, CheckProductSold, DropProduct
<1>12. CASE UNCHANGED vars
  BY <1>9, <1>12 DEF vars, shop
<1> QED
  BY <1>1, <1>2, <1>3, <1>4, <1>5, <1>6, <1>7, <1>8, <1>11, <1>12
  DEF Next, LetterStep

-----------------------------------------------------------------------------
(* The theorems.                                                           *)

IInv == TypeOK /\ OwnInv /\ PaidInv /\ ServedInv /\ SqliteInv

\* The inductive invariant: its parts lean on type correctness, all but the first
\* of them on OwnInv, and the last on ServedInv too.
THEOREM Inductive == Spec => []IInv
<1>1. Init => IInv
  BY TypeInit, OwnInit, PaidInit, ServedInit, SqliteInit DEF IInv
<1>2. IInv /\ [Next]_vars => IInv'
  BY TypeStep, OwnStep, PaidStep, ServedStep, SqliteStep DEF IInv
<1> QED
  BY <1>1, <1>2, PTL DEF Spec

\* Purchases that overlap in any way never mail one key to two buyers
\* (claimDigitalData's guarded UPDATE).
THEOREM NoKeyTwice == Spec => []KeySoldOnce
<1>1. IInv => KeySoldOnce
  <2> SUFFICES ASSUME IInv, NEW m \in mailed, NEW n \in mailed, m[2] = n[2]
               PROVE  m[1] = n[1]
    BY DEF KeySoldOnce
  <2>1. /\ m \in Carts \X Keys /\ m = <<m[1], m[2]>>
        /\ n \in Carts \X Keys /\ n = <<n[1], n[2]>>
    BY DEF IInv, TypeOK
  <2>2. owner[m[2]] = m[1] /\ owner[n[2]] = n[1]
    BY <2>1 DEF IInv, OwnInv, MailedIsOwned
  <2> QED
    BY <2>2
<1> QED
  BY <1>1, Inductive, PTL

\* A letter about to go out lists only keys committed to its own cart
\* (CartLetterPurchase commits before it returns the message).
THEOREM OwnKeysOnly == Spec => []LetterHoldsOwnKeys
<1>1. IInv => LetterHoldsOwnKeys
  BY DEF IInv, OwnInv, LetterHoldsOwnKeys, GotIsMine, ClaimsInTx, InTx
<1> QED
  BY <1>1, Inductive, PTL

\* A cart that holds a key holds one for each key product it ordered, and it
\* was paid: a letter that fails half-way gives back what it took.
THEOREM WholeOrders == Spec => [](AllOrNothing /\ OnlyPaidCartsClaim)
<1>1. IInv => AllOrNothing /\ OnlyPaidCartsClaim
  BY DEF IInv, ServedInv, PaidInv
<1> QED
  BY <1>1, Inductive, PTL

\* On SQLite a retried purchase letter keeps its keys: a cart never holds two live
\* keys of one product (claimDigitalData's first query, under one write lock).
THEOREM RetriesAgree == Spec => []RetryKeepsKey
<1>1. IInv => RetryKeepsKey
  BY DEF IInv, SqliteInv, RetryKeepsKey
<1> QED
  BY <1>1, Inductive, PTL

\* The table changes by a commit only, and a commit only takes free rows.
LEMMA OwnerStep ==
  ASSUME IInv, [Next]_vars
  PROVE  \/ UNCHANGED owner
         \/ \E t \in Tasks :
              /\ at[t] \in Carts
              /\ claim[t] # {}
              /\ claim[t] \in SUBSET Keys
              /\ \A k \in claim[t] : owner[k] = NoCart
              /\ owner' = [k \in Keys |-> IF k \in claim[t] THEN at[t] ELSE owner[k]]
<1> USE DEF IInv, TypeOK, OwnInv, ClaimsAreFree
<1>1. ASSUME NEW t \in Tasks, Commit(t), claim[t] = {} PROVE UNCHANGED owner
  BY <1>1 DEF Commit
<1>2. CASE \E t \in Tasks : Commit(t)
  BY <1>1, <1>2 DEF Commit
<1>3. CASE \E t \in Tasks : BeginTx(t) \/ ReadProduct(t) \/ FindOwnKey(t)
                          \/ ReadCandidate(t) \/ TakeKey(t) \/ SendMail(t)
  BY <1>3 DEF BeginTx, ReadProduct, FindOwnKey, ReadCandidate, TakeKey, SendMail
<1>4. CASE \E t \in Tasks : Fail(t) \/ \E c \in Carts : StartLetter(t, c)
  BY <1>4 DEF Fail, RolledBack, StartLetter
<1>5. CASE ShopStep
  BY <1>5 DEF ShopStep, MarkPaid, MarkUnpaid, AddDigitalData, DeleteDigital,
              CheckProductSold, DropProduct
<1>6. CASE UNCHANGED vars
  BY <1>6 DEF vars
<1> QED
  BY <1>2, <1>3, <1>4, <1>5, <1>6 DEF Next, LetterStep

\* No retry, rollback or later purchase takes a committed key from its cart.
THEOREM OwnersAreFinal == Spec => OwnerIsFinal
<1>1. IInv /\ [Next]_vars
        => [\A k \in Keys : owner[k] # NoCart => owner'[k] = owner[k]]_owner
  BY OwnerStep
<1> QED
  BY <1>1, Inductive, PTL DEF Spec, OwnerIsFinal

\* DigitalClaim implements KeyAssignment: the initial table is all free, and
\* each step either leaves the table alone or is one Assign.
THEOREM Refinement == Spec => KeysAsPromised
<1>1. Init => Promise!Init
  BY DEF Init, Promise!Init
<1>2. IInv /\ [Next]_vars => [Promise!Next]_owner
  BY OwnerStep DEF Promise!Next, Promise!Assign
<1> QED
  BY <1>1, <1>2, Inductive, PTL DEF Spec, KeysAsPromised, Promise!Spec

=============================================================================
