-------------------------- MODULE CartPaymentProofs --------------------------
(***************************************************************************)
(* CartPayment for every set of orders and requests and every number of    *)
(* faults: type correctness, and that orders are recorded as paid, and     *)
(* letters sent, only for payments that are backed.                        *)
(*                                                                         *)
(* PaidIsBacked is not inductive: UpdateCart writes what the request has   *)
(* carried since it asked, while the order and the provider moved on.      *)
(* InHand says what a request may carry, OutboxIsTrue what a notification  *)
(* may claim, and BackedStays that neither goes stale.  An order that is   *)
(* paid by a session has named it since it was placed (RowNames), and the  *)
(* requests about it are about that session (AsksItsOwn); the others may   *)
(* be paid by any session of their amount.                                 *)
(*                                                                         *)
(* LetterOnce and PaidStays are about calm carts, which have one request   *)
(* at a time.  OneAtATime says so of the whole run of a request, hence     *)
(* what it read when it started is still true when it writes (LoadIsFresh) *)
(* and when it mails (LetterIsFirst).                                      *)
(***************************************************************************)
EXTENDS CartPayment, TLAPS

\* A provider knows nothing of an order before it is placed.
NewToProvider == \A c \in Carts : status[c] = "none" => prov[c] = "none"

\* A notification that says "paid" is about a payment that was made.
OutboxIsTrue == \A c \in Carts : <<c, "paid">> \in outbox => prov[c] = "paid"

\* A request about to write "paid", or to send a letter, has good reason.  Only
\* a PortOne order runs the handlers that write "paid" with nothing in hand.
InHand ==
    \A r \in Requests :
        /\ (/\ pc[r] = "update"
            /\ got[r] = "paid" \/ op[r] \in {"complete", "notify"}) => Backed(on[r])
        /\ pc[r] = "mail" => Backed(on[r])
        /\ op[r] \in {"complete", "notify"} => system[on[r]] = "portone"

\* Links, notifications and requests are about orders that have been placed.
Placed ==
    /\ \A c \in Carts : c \in linked => status[c] # "none"
    /\ \A c \in Carts, s \in Statuses : <<c, s>> \in outbox => status[c] # "none"
    /\ \A r \in Requests : pc[r] # "idle" => status[on[r]] # "none"

\* The row of an order paid by a session names that session or what replaced it.
RowNames ==
    \A c \in Carts : system[c] \in Sessions /\ status[c] # "none" => ref[c] \in {c, Other}

\* So a redirect for such an order is about the order's own payment.
AsksItsOwn ==
    \A r \in Requests :
        op[r] = "success" /\ pc[r] # "idle" /\ system[on[r]] \in Sessions => by[r] = on[r]

BackedInv ==
    /\ Placed
    /\ RowNames
    /\ AsksItsOwn
    /\ NewToProvider
    /\ OutboxIsTrue
    /\ InHand
    /\ PaidIsBacked
    /\ LettersFollowPayment

IInv == TypeOK /\ BackedInv

IdleIsNowhere == \A r \in Requests : pc[r] = "idle" => on[r] = None

OneAtATime == \A q, r \in Requests : on[r] \in calm /\ on[q] = on[r] => q = r

\* A redirect or callback of a calm cart that has not written yet finds the
\* order as it loaded it: not paid.
LoadIsFresh ==
    \A r \in Requests :
        /\ pc[r] \in {"ask", "update"}
        /\ op[r] \in {"success", "callback"}
        /\ on[r] \in calm
        => status[on[r]] # "paid"

CancelCancels == \A r \in Requests : op[r] = "cancel" => got[r] # "paid"

\* A redirect or callback about to send its letter sends the first one.
LetterIsFirst ==
    \A r \in Requests :
        /\ pc[r] \in {"letter", "mail"}
        /\ op[r] # "resend"
        /\ on[r] \in calm \ undone
        => status[on[r]] = "paid" /\ letters[on[r]] = 0

LetterMeansPaid == \A c \in calm \ undone : letters[c] > 0 => status[c] = "paid"

CalmInv ==
    /\ IdleIsNowhere
    /\ OneAtATime
    /\ LoadIsFresh
    /\ CancelCancels
    /\ LetterIsFirst
    /\ LetterMeansPaid
    /\ LetterOnce
-----------------------------------------------------------------------------
(* Type correctness.                                                       *)

LEMMA TypeInit == Init => TypeOK
  BY BoundsAssumption, NamesAssumption DEF Init, TypeOK, Handlers

LEMMA TypeStep == TypeOK /\ [Next]_vars => TypeOK'
<1> SUFFICES ASSUME TypeOK, [Next]_vars PROVE TypeOK'
  OBVIOUS
<1> USE BoundsAssumption, NamesAssumption DEF TypeOK, Handlers, Statuses, order, request, GoTo, End
<1>1. ASSUME NEW r \in Requests, SendPrepayment(r) PROVE TypeOK'
  BY <1>1 DEF SendPrepayment
<1>2. ASSUME NEW r \in Requests, AskProvider(r) PROVE TypeOK'
  BY <1>2 DEF AskProvider, Reported
<1>3. ASSUME NEW r \in Requests, CapturePaypal(r) PROVE TypeOK'
  BY <1>3 DEF CapturePaypal
<1>4. ASSUME NEW r \in Requests, AskPortone(r) PROVE TypeOK'
  BY <1>4 DEF AskPortone, Answered
<1>5. ASSUME NEW r \in Requests, UpdateCart(r) PROVE TypeOK'
  <2>1. WritesId(r) \in Payments \cup {None, Other}
    BY <1>5 DEF UpdateCart, WritesId
  <2> QED
    BY <1>5, <2>1 DEF UpdateCart
<1>6. ASSUME NEW r \in Requests, UpdateCartPortone(r) PROVE TypeOK'
  BY <1>6 DEF UpdateCartPortone, Answered
<1>7. ASSUME NEW r \in Requests, ReadLetter(r) PROVE TypeOK'
  BY <1>7 DEF ReadLetter, LetterFailed
<1>8. ASSUME NEW r \in Requests, SendLetter(r) PROVE TypeOK'
  BY <1>8 DEF SendLetter
<1>9. ASSUME NEW r \in Requests, SendHook(r) PROVE TypeOK'
  BY <1>9 DEF SendHook, Answered
<1>10. ASSUME NEW r \in Requests, NEW c \in Carts, Arrive(r, c) PROVE TypeOK'
  <2>1. CASE Payment(r, c)
    BY <2>1 DEF Payment, Begin
  <2>2. CASE CreateCart(r, c)
    BY <2>2 DEF CreateCart, Begin
  <2>3. CASE \E p \in Payments : PaymentSuccess(r, c, p)
    BY <2>3 DEF PaymentSuccess, Begin
  <2>4. CASE SuccessWithoutSession(r, c) \/ PaymentCancel(r, c) \/ CompletePortone(r, c)
              \/ CartSendMail(r, c)
    BY <2>4 DEF SuccessWithoutSession, PaymentCancel, CompletePortone, CartSendMail, Begin
  <2> QED
    BY <1>10, <2>1, <2>2, <2>3, <2>4 DEF Arrive
<1>11. ASSUME NEW c \in Carts, NEW s \in Statuses, Notify(c, s) PROVE TypeOK'
  BY <1>11 DEF Notify, RepeatedCallback, PaymentCallback, PortoneWebhook, Begin
<1>12. ASSUME NEW p \in Payments, Provider(p) PROVE TypeOK'
  BY <1>12 DEF Provider, Reported, Notifies
<1>13. ASSUME NEW s \in Offered, Switch(s) PROVE TypeOK'
  BY <1>13 DEF Switch
<1>14. ASSUME NEW r \in Requests, Fail(r) PROVE TypeOK'
  BY <1>14 DEF Fail, Fault, LetterFailed, Answered
<1>15. ASSUME Crash PROVE TypeOK'
  BY <1>15 DEF Crash, Fault
<1>16. CASE UNCHANGED vars
  BY <1>16 DEF vars
<1> QED
  BY <1>1, <1>2, <1>3, <1>4, <1>5, <1>6, <1>7, <1>8, <1>9, <1>10, <1>11, <1>12,
     <1>13, <1>14, <1>15, <1>16 DEF Next, Step

\* Every variable stays in its type, for any number of orders and requests.
THEOREM TypeCorrect == Spec => []TypeOK
  BY TypeInit, TypeStep, PTL DEF Spec

-----------------------------------------------------------------------------
(* Payments that are backed.                                               *)

\* The provider's view changes in five places, and never takes a payment back.
LEMMA ProvStep ==
  ASSUME TypeOK, NewToProvider, [Next]_vars
  PROVE  /\ UNCHANGED <<system, exact>>
         /\ \A p \in Payments :
              /\ prov[p] = "paid" => prov'[p] = "paid"
              /\ system[p] = "portone" /\ prov[p] \in {"pending", "expired"}
                    => prov'[p] \in {"pending", "expired", "paid"}
<1> USE NamesAssumption DEF TypeOK, order
<1>1. CASE \E r \in Requests, c \in Carts : Payment(r, c) \/ CreateCart(r, c)
  BY <1>1 DEF Payment, CreateCart, NewToProvider
<1>2. CASE \E p \in Payments : Provider(p)
  BY <1>2 DEF Provider, Moves
<1>3. CASE \E r \in Requests : CapturePaypal(r)
  BY <1>3 DEF CapturePaypal
<1>4. CASE \E r \in Requests : Fail(r)
  BY <1>4 DEF Fail
<1>5. CASE UNCHANGED <<order, prov>>
  BY <1>5
<1>6. ASSUME NEW r \in Requests, Step(r) PROVE CapturePaypal(r) \/ UNCHANGED <<order, prov>>
  BY <1>6 DEF Step, SendPrepayment, AskProvider, AskPortone, UpdateCart,
              UpdateCartPortone, ReadLetter, SendLetter, SendHook
<1>7. ASSUME NEW r \in Requests, NEW c \in Carts, Arrive(r, c)
      PROVE  Payment(r, c) \/ CreateCart(r, c) \/ UNCHANGED <<order, prov>>
  BY <1>7 DEF Arrive, PaymentSuccess, SuccessWithoutSession, PaymentCancel, CompletePortone,
              CartSendMail
<1>8. ASSUME NEW c \in Carts, NEW s \in Statuses, Notify(c, s)
      PROVE  UNCHANGED <<order, prov>>
  BY <1>8 DEF Notify, RepeatedCallback, PaymentCallback, PortoneWebhook
<1>9. (\E s \in Offered : Switch(s)) \/ Crash \/ UNCHANGED vars
        => UNCHANGED <<order, prov>>
  BY DEF Switch, Crash, vars
<1> QED
  BY <1>1, <1>2, <1>3, <1>4, <1>5, <1>6, <1>7, <1>8, <1>9 DEF Next

LEMMA BackedStays ==
  ASSUME TypeOK, NewToProvider, [Next]_vars, NEW c \in Carts, Backed(c)
  PROVE  Backed(c)'
<1>1. Carts \subseteq Payments
  BY NamesAssumption
<1> QED
  BY <1>1, ProvStep DEF Backed, PaidItself, PaidByAnother

\* A session that is paid with the right amount backs the order it is asked about.
LEMMA SessionBacks ==
  ASSUME AsksItsOwn, NEW r \in Requests, op[r] = "success", pc[r] # "idle",
         on[r] \in Carts, by[r] \in Payments, system[by[r]] \in Sessions,
         prov[by[r]] = "paid", <<by[r], on[r]>> \in exact
  PROVE  Backed(on[r])
<1>1. CASE system[on[r]] \in Sessions
  BY <1>1 DEF AsksItsOwn, Backed, PaidItself
<1>2. CASE system[on[r]] \notin Sessions
  BY <1>2 DEF Backed, PaidByAnother
<1> QED
  BY <1>1, <1>2

LEMMA BackedInit == Init => BackedInv
  BY NamesAssumption
  DEF Init, BackedInv, Placed, RowNames, AsksItsOwn, NewToProvider, OutboxIsTrue, InHand, PaidIsBacked, LettersFollowPayment

LEMMA BackedStep == IInv /\ [Next]_vars => BackedInv'
<1> SUFFICES ASSUME IInv, [Next]_vars PROVE BackedInv'
  OBVIOUS
<1>1. TypeOK /\ TypeOK' /\ BackedInv
  BY TypeStep DEF IInv
<1>2. /\ UNCHANGED <<system, exact>>
      /\ \A p \in Payments : prov[p] = "paid" => prov'[p] = "paid"
  BY <1>1, ProvStep DEF BackedInv
<1>3. \A c \in Carts : Backed(c) => Backed(c)'
  BY <1>1, BackedStays DEF BackedInv
<1> USE <1>1, <1>2, <1>3, NamesAssumption
        DEF TypeOK, BackedInv, Placed, RowNames, AsksItsOwn, NewToProvider, OutboxIsTrue,
            InHand, PaidIsBacked, LettersFollowPayment, order, request, GoTo, End
<1>4. ASSUME NEW r \in Requests, SendPrepayment(r) PROVE BackedInv'
  BY <1>4 DEF SendPrepayment
<1>5. ASSUME NEW r \in Requests, AskProvider(r) PROVE BackedInv'
  <2>1. ASSUME got'[r] = "paid" PROVE Backed(on[r])
    <3>1. on[r] \in Carts /\ by[r] \in Payments
      BY <1>5 DEF AskProvider
    <3>2. <<by[r], on[r]>> \in exact /\ got'[r] = Reported(by[r], prov[by[r]])
      BY <1>5, <2>1 DEF AskProvider, AmountMatches
    <3>3. prov[by[r]] = "paid"
      BY <2>1, <3>1, <3>2 DEF Reported
    <3>4. op[r] = "success" /\ pc[r] # "idle" /\ system[by[r]] \in Sessions
      BY <1>5 DEF AskProvider, Sessions
    <3> QED
      BY <3>1, <3>2, <3>3, <3>4, SessionBacks
  <2>2. InHand'
    BY <1>5, <2>1 DEF AskProvider
  <2> QED
    BY <1>5, <2>2 DEF AskProvider
<1>6. ASSUME NEW r \in Requests, CapturePaypal(r) PROVE BackedInv'
  <2>1. ASSUME got'[r] = "paid" PROVE Backed(on[r])'
    <3>1. on[r] \in Carts /\ by[r] \in Payments
      BY <1>6 DEF CapturePaypal
    <3>2. /\ <<by[r], on[r]>> \in exact /\ prov'[by[r]] = "paid"
          /\ on'[r] = on[r] /\ by'[r] = by[r] /\ op'[r] = op[r] /\ pc'[r] # "idle"
      BY <1>6, <2>1, <3>1 DEF CapturePaypal, AmountMatches
    <3>3. op[r] = "success" /\ pc[r] # "idle" /\ system[by[r]] \in Sessions
      BY <1>6 DEF CapturePaypal, Sessions
    <3>4. CASE system[on[r]] \in Sessions
      BY <3>1, <3>2, <3>3, <3>4 DEF Backed, PaidItself
    <3>5. CASE system[on[r]] \notin Sessions
      BY <3>1, <3>2, <3>3, <3>5 DEF Backed, PaidByAnother
    <3> QED
      BY <3>4, <3>5
  <2>2. InHand'
    BY <1>6, <2>1 DEF CapturePaypal
  <2> QED
    BY <1>6, <2>2 DEF CapturePaypal
<1>7. ASSUME NEW r \in Requests, AskPortone(r) PROVE BackedInv'
  <2>1. pc'[r] = "update" => Backed(on[r])
    BY <1>7 DEF AskPortone, PortoneAccepts, AmountMatches, Backed, PaidItself
  <2>2. InHand'
    BY <1>7, <2>1 DEF AskPortone
  <2> QED
    BY <1>7, <2>2 DEF AskPortone, Answered
<1>8. ASSUME NEW r \in Requests, UpdateCart(r) PROVE BackedInv'
  <2>1. RowNames'
    BY <1>8 DEF UpdateCart, WritesId
  <2>2. \A c \in Carts : status'[c] = "none" <=> status[c] = "none"
    <3>1. on[r] \in Carts /\ status[on[r]] # "none"
      BY <1>8 DEF UpdateCart
    <3>2. "none" \notin Statuses
      BY DEF Statuses
    <3>3. CASE got[r] = "none"
      BY <1>8, <3>3 DEF UpdateCart
    <3>4. CASE got[r] # "none"
      BY <1>8, <3>1, <3>2, <3>4 DEF UpdateCart
    <3> QED
      BY <3>3, <3>4
  <2>3. Placed' /\ NewToProvider'
    BY <1>8, <2>2 DEF UpdateCart
  <2> QED
    BY <1>8, <2>1, <2>3 DEF UpdateCart
<1>9. ASSUME NEW r \in Requests, UpdateCartPortone(r) PROVE BackedInv'
  <2>1. /\ on[r] \in Carts /\ status[on[r]] # "none" /\ Backed(on[r])
        /\ UNCHANGED <<prov, linked, letters, resent>> /\ outbox' \subseteq outbox
    BY <1>9 DEF UpdateCartPortone, Answered
  <2>2. \A c \in Carts : status'[c] = "none" <=> status[c] = "none"
    BY <1>9, <2>1 DEF UpdateCartPortone
  <2>3. Placed' /\ NewToProvider' /\ OutboxIsTrue'
    BY <1>9, <2>1, <2>2 DEF UpdateCartPortone
  <2>4. RowNames' /\ AsksItsOwn'
    BY <1>9, <2>2 DEF UpdateCartPortone
  <2>5. InHand'
    BY <1>9 DEF UpdateCartPortone
  <2>6. PaidIsBacked' /\ LettersFollowPayment'
    BY <1>9, <2>1 DEF UpdateCartPortone
  <2> QED
    BY <2>3, <2>4, <2>5, <2>6
<1>10. ASSUME NEW r \in Requests, ReadLetter(r) PROVE BackedInv'
  BY <1>10 DEF ReadLetter, LetterFailed, MayHaveLetter
<1>11. ASSUME NEW r \in Requests, SendLetter(r) PROVE BackedInv'
  BY <1>11 DEF SendLetter
<1>12. ASSUME NEW r \in Requests, SendHook(r) PROVE BackedInv'
  <2>1. outbox' \subseteq outbox
    BY <1>12 DEF SendHook, Answered
  <2>2. Placed'
    BY <1>12, <2>1 DEF SendHook
  <2> QED
    BY <1>12, <2>1, <2>2 DEF SendHook
<1>13. ASSUME NEW r \in Requests, NEW c \in Carts, Arrive(r, c) PROVE BackedInv'
  <2>1. CASE Payment(r, c)
    BY <2>1 DEF Payment, Begin
  <2>2. CASE CreateCart(r, c)
    BY <2>2 DEF CreateCart, Begin, Sessions
  <2>3. ASSUME NEW p \in Payments, PaymentSuccess(r, c, p) PROVE BackedInv'
    <3>1. system[c] \in Sessions => p = c
      BY <2>3 DEF PaymentSuccess, Redirected, OwnSession, Sessions
    <3>2. pc'[r] = "update" => Backed(c)
      BY <2>3 DEF PaymentSuccess, Begin, Backed, PaidItself
    <3>3. status[c] # "none"
      BY <2>3 DEF PaymentSuccess, Redirected
    <3> QED
      BY <2>3, <3>1, <3>2, <3>3 DEF PaymentSuccess, Begin
  <2>4. CASE SuccessWithoutSession(r, c) \/ PaymentCancel(r, c) \/ CompletePortone(r, c)
              \/ CartSendMail(r, c)
    BY <2>4 DEF SuccessWithoutSession, PaymentCancel, CompletePortone, CartSendMail, Begin
  <2> QED
    BY <1>13, <2>1, <2>2, <2>3, <2>4 DEF Arrive
<1>14. ASSUME NEW c \in Carts, NEW s \in Statuses, Notify(c, s) PROVE BackedInv'
  <2>1. CASE RepeatedCallback(c, s)
    BY <2>1 DEF RepeatedCallback
  <2>2. CASE \E r \in Requests : PaymentCallback(r, c, s)
    BY <2>2 DEF PaymentCallback, Begin, AmountMatches, Backed, PaidItself
  <2>3. CASE \E r \in Requests : PortoneWebhook(r, c, s)
    BY <2>3 DEF PortoneWebhook, Begin
  <2> QED
    BY <1>14, <2>1, <2>2, <2>3 DEF Notify
<1>15. ASSUME NEW p \in Payments, Provider(p) PROVE BackedInv'
  <2>1. p \in Carts => status[p] # "none"
    BY <1>15 DEF Provider
  <2>2. <<p, "paid">> \in outbox' \ outbox => prov'[p] = "paid"
    BY <1>15 DEF Provider, Reported
  <2>3. \A c \in Carts, s \in Statuses :
           <<c, s>> \in outbox' => <<c, s>> \in outbox \/ c = p
    BY <1>15 DEF Provider
  <2>4. NewToProvider'
    BY <1>15, <2>1 DEF Provider
  <2>5. OutboxIsTrue'
    BY <1>15, <2>2, <2>3 DEF Provider, Statuses
  <2>6. Placed'
    BY <1>15, <2>1, <2>3 DEF Provider
  <2> QED
    BY <1>15, <2>4, <2>5, <2>6 DEF Provider
<1>16. ASSUME NEW r \in Requests, Fail(r) PROVE BackedInv'
  <2>1. NewToProvider' /\ OutboxIsTrue' /\ Placed'
    BY <1>16 DEF Fail, LetterFailed, Answered
  <2> QED
    BY <1>16, <2>1 DEF Fail, LetterFailed, Answered
<1>17. CASE Crash \/ (\E s \in Offered : Switch(s)) \/ UNCHANGED vars
  BY <1>17 DEF Crash, Switch, vars
<1> QED
  BY <1>4, <1>5, <1>6, <1>7, <1>8, <1>9, <1>10, <1>11, <1>12, <1>13, <1>14, <1>15,
     <1>16, <1>17 DEF Next, Step

\* The inductive invariant holds in every reachable state.
THEOREM Inductive == Spec => []IInv
<1>1. Init => IInv
  BY TypeInit, BackedInit DEF IInv
<1>2. IInv /\ [Next]_vars => IInv'
  BY TypeStep, BackedStep DEF IInv
<1> QED
  BY <1>1, <1>2, PTL DEF Spec

\* An order is recorded as paid only for a payment that is backed, for any
\* number of requests that overlap in any way and any number of faults.
THEOREM PaidOrdersAreBacked == Spec => []PaidIsBacked
<1>1. IInv => PaidIsBacked
  BY DEF IInv, BackedInv
<1> QED
  BY <1>1, Inductive, PTL

\* Nor is a purchase letter sent for a payment that is not.
THEOREM LettersAreBacked == Spec => []LettersFollowPayment
<1>1. IInv => LettersFollowPayment
  BY DEF IInv, BackedInv
<1> QED
  BY <1>1, Inductive, PTL

-----------------------------------------------------------------------------
(* Carts with one request at a time.                                       *)

LEMMA CalmInit == Init => CalmInv
  BY NamesAssumption
  DEF Init, CalmInv, IdleIsNowhere, OneAtATime, LoadIsFresh, CancelCancels, LetterIsFirst,
      LetterMeansPaid, LetterOnce

\* A handler that ends, or goes on to its mail or its hook, without a write.
LEMMA CalmMoves ==
  ASSUME TypeOK, CalmInv, NEW r \in Requests, pc[r] # "idle",
         UNCHANGED <<calm, status, letters, undone>>,
         End(r) \/ GoTo(r, "hook") \/ (pc[r] = "letter" /\ GoTo(r, "mail"))
  PROVE  CalmInv'
<1> USE DEF TypeOK
<1>1. /\ UNCHANGED <<calm, status, letters, undone>>
      /\ \A q \in Requests \ {r} : /\ op'[q] = op[q] /\ pc'[q] = pc[q]
                                  /\ on'[q] = on[q] /\ got'[q] = got[q]
      /\ \/ pc'[r] = "idle" /\ on'[r] = None /\ op'[r] = "none" /\ got'[r] = "none"
         \/ /\ op'[r] = op[r] /\ on'[r] = on[r] /\ got'[r] = got[r]
            /\ pc'[r] = "hook" \/ (pc[r] = "letter" /\ pc'[r] = "mail")
  BY DEF End, GoTo
<1>2. IdleIsNowhere' /\ OneAtATime'
  BY <1>1, NamesAssumption DEF CalmInv, IdleIsNowhere, OneAtATime
<1>3. LoadIsFresh' /\ CancelCancels'
  BY <1>1 DEF CalmInv, LoadIsFresh, CancelCancels
<1>4. LetterIsFirst'
  BY <1>1 DEF CalmInv, LetterIsFirst
<1>5. LetterMeansPaid' /\ LetterOnce'
  BY <1>1 DEF CalmInv, LetterMeansPaid, LetterOnce
<1> QED
  BY <1>2, <1>3, <1>4, <1>5 DEF CalmInv

\* A handler that has its answer, and writes next.
LEMMA CalmAnswered ==
  ASSUME TypeOK, CalmInv, NEW r \in Requests, pc[r] = "ask", op[r] # "cancel",
         UNCHANGED <<calm, status, letters, undone, op, on>>,
         pc' = [pc EXCEPT ![r] = "update"],
         got' = got \/ \E s \in Statuses : got' = [got EXCEPT ![r] = s]
  PROVE  CalmInv'
<1> USE DEF TypeOK
<1>1. /\ pc'[r] = "update"
      /\ \A q \in Requests \ {r} : pc'[q] = pc[q] /\ got'[q] = got[q]
  OBVIOUS
<1>2. IdleIsNowhere' /\ OneAtATime'
  BY <1>1 DEF CalmInv, IdleIsNowhere, OneAtATime
<1>3. LoadIsFresh' /\ CancelCancels'
  BY <1>1 DEF CalmInv, LoadIsFresh, CancelCancels
<1>4. LetterIsFirst'
  BY <1>1 DEF CalmInv, LetterIsFirst
<1>5. LetterMeansPaid' /\ LetterOnce'
  BY DEF CalmInv, LetterMeansPaid, LetterOnce
<1> QED
  BY <1>2, <1>3, <1>4, <1>5 DEF CalmInv

LEMMA CalmStep == TypeOK /\ CalmInv /\ [Next]_vars => CalmInv'
<1> SUFFICES ASSUME TypeOK, CalmInv, [Next]_vars PROVE CalmInv'
  OBVIOUS
<1> USE BoundsAssumption, NamesAssumption
        DEF TypeOK, CalmInv, IdleIsNowhere, OneAtATime, LoadIsFresh, CancelCancels,
            LetterIsFirst, LetterMeansPaid, LetterOnce, order, request
<1>1. ASSUME NEW r \in Requests, SendPrepayment(r) PROVE CalmInv'
  BY <1>1, CalmMoves DEF SendPrepayment
<1>2. ASSUME NEW r \in Requests, AskProvider(r) PROVE CalmInv'
  <2>1. CASE End(r)
    BY <1>2, <2>1, CalmMoves DEF AskProvider
  <2>2. CASE ~End(r)
    <3>1. Reported(by[r], prov[by[r]]) \in Statuses
      BY <1>2 DEF AskProvider, Reported, Statuses
    <3> QED
      BY <1>2, <2>2, <3>1, CalmAnswered DEF AskProvider
  <2> QED
    BY <2>1, <2>2
<1>3. ASSUME NEW r \in Requests, CapturePaypal(r) PROVE CalmInv'
  <2>1. CASE End(r)
    BY <1>3, <2>1, CalmMoves DEF CapturePaypal
  <2>2. CASE ~End(r)
    BY <1>3, <2>2, CalmAnswered DEF CapturePaypal, Statuses
  <2> QED
    BY <2>1, <2>2
<1>4. ASSUME NEW r \in Requests, AskPortone(r) PROVE CalmInv'
  <2>1. CASE GoTo(r, "update")
    BY <1>4, <2>1, CalmAnswered DEF AskPortone, GoTo
  <2>2. CASE End(r)
    BY <1>4, <2>2, CalmMoves DEF AskPortone
  <2> QED
    BY <1>4, <2>1, <2>2 DEF AskPortone
<1>5. ASSUME NEW r \in Requests, UpdateCart(r) PROVE CalmInv'
  BY <1>5 DEF UpdateCart, GoTo
<1>6. ASSUME NEW r \in Requests, UpdateCartPortone(r) PROVE CalmInv'
  BY <1>6 DEF UpdateCartPortone, End
<1>7. ASSUME NEW r \in Requests, ReadLetter(r) PROVE CalmInv'
  <2>1. /\ pc[r] = "letter" /\ UNCHANGED <<calm, status, letters, undone>>
        /\ End(r) \/ GoTo(r, "hook") \/ GoTo(r, "mail")
    BY <1>7 DEF ReadLetter, LetterFailed
  <2> QED
    BY <2>1, CalmMoves
<1>8. ASSUME NEW r \in Requests, SendLetter(r) PROVE CalmInv'
  <2>1. CASE op[r] = "resend"
    BY <1>8, <2>1, CalmMoves DEF SendLetter
  <2>2. CASE op[r] # "resend"
    <3> DEFINE c == on[r]
    <3>1. /\ pc[r] = "mail" /\ pc' = [pc EXCEPT ![r] = "hook"]
          /\ letters' = [letters EXCEPT ![c] = IF @ = LetterCap THEN @ ELSE @ + 1]
          /\ UNCHANGED <<calm, undone, status, op, on, got>>
      BY <1>8, <2>2 DEF SendLetter, GoTo
    <3>2. c \in calm \ undone => status[c] = "paid" /\ letters[c] = 0
      BY <2>2, <3>1
    <3>3. \A q \in Requests : q # r /\ on[q] = c => c \notin calm
      BY <3>1
    <3>4. \A d \in calm \ undone : letters'[d] <= 1 /\ (letters'[d] > 0 => status[d] = "paid")
      BY <3>1, <3>2
    <3>5. LetterIsFirst'
      BY <3>1, <3>3
    <3> QED
      BY <3>1, <3>4, <3>5
  <2> QED
    BY <2>1, <2>2
<1>9. ASSUME NEW r \in Requests, SendHook(r) PROVE CalmInv'
  BY <1>9, CalmMoves DEF SendHook
<1>10. ASSUME NEW r \in Requests, NEW c \in Carts, Arrive(r, c) PROVE CalmInv'
  <2>1. CASE Payment(r, c)
    BY <2>1 DEF Payment, Begin, MayArrive
  <2>2. CASE CreateCart(r, c)
    BY <2>2 DEF CreateCart, Begin, MayArrive
  <2>3. CASE \E p \in Payments : PaymentSuccess(r, c, p)
    BY <2>3 DEF PaymentSuccess, Begin, MayArrive, NotYetPaid
  <2>4. CASE PaymentCancel(r, c)
    BY <2>4 DEF PaymentCancel, Begin, MayArrive
  <2>5. CASE CompletePortone(r, c)
    BY <2>5 DEF CompletePortone, Begin, MayArrive
  <2>6. CASE CartSendMail(r, c)
    BY <2>6 DEF CartSendMail, Begin, MayArrive
  <2>7. CASE SuccessWithoutSession(r, c)
    BY <2>7 DEF SuccessWithoutSession, Begin, MayArrive, NotYetPaid
  <2> QED
    BY <1>10, <2>1, <2>2, <2>3, <2>4, <2>5, <2>6, <2>7 DEF Arrive
<1>11. ASSUME NEW c \in Carts, NEW s \in Statuses, Notify(c, s) PROVE CalmInv'
  <2>1. CASE RepeatedCallback(c, s)
    BY <2>1 DEF RepeatedCallback
  <2>2. CASE \E r \in Requests : PaymentCallback(r, c, s)
    BY <2>2 DEF PaymentCallback, Begin, MayArrive, NotYetPaid
  <2>3. CASE \E r \in Requests : PortoneWebhook(r, c, s)
    BY <2>3 DEF PortoneWebhook, Begin, MayArrive
  <2> QED
    BY <1>11, <2>1, <2>2, <2>3 DEF Notify
<1>12. ASSUME NEW r \in Requests, Fail(r) PROVE CalmInv'
  <2>1. /\ pc[r] # "idle" /\ UNCHANGED <<calm, status, letters, undone>>
        /\ End(r) \/ GoTo(r, "hook")
    BY <1>12 DEF Fail, LetterFailed
  <2> QED
    BY <2>1, CalmMoves
<1>13. CASE Crash
  BY <1>13 DEF Crash
<1>14. CASE (\E p \in Payments : Provider(p)) \/ (\E s \in Offered : Switch(s)) \/ UNCHANGED vars
  BY <1>14 DEF Provider, Switch, vars
<1> QED
  BY <1>1, <1>2, <1>3, <1>4, <1>5, <1>6, <1>7, <1>8, <1>9, <1>10, <1>11, <1>12,
     <1>13, <1>14 DEF Next, Step

LEMMA CalmCorrect == Spec => []CalmInv
<1>1. Init => CalmInv
  BY CalmInit
<1>2. TypeOK /\ CalmInv /\ [Next]_vars => CalmInv'
  BY CalmStep
<1> QED
  BY <1>1, <1>2, TypeCorrect, PTL DEF Spec

\* Requests that come one at a time send one purchase letter at most, whatever
\* the provider repeats, the buyer reloads and the server loses, as long as no
\* cancel link takes the paid order back.
THEOREM OneLetter == Spec => []LetterOnce
<1>1. CalmInv => LetterOnce
  BY DEF CalmInv
<1> QED
  BY <1>1, CalmCorrect, PTL

\* Of such a cart's paid order only a cancel link makes anything else.
THEOREM PaidOrdersStay == Spec => PaidStays
<1>1. TypeOK /\ CalmInv /\ [Next]_vars
        => [\A c \in calm : status[c] = "paid" /\ status'[c] # "paid"
                => \E r \in Requests : TakesBack(r, c)]_vars
  <2> SUFFICES ASSUME TypeOK, CalmInv, Next, NEW c \in calm, status[c] = "paid",
                      status'[c] # "paid"
               PROVE  \E r \in Requests : TakesBack(r, c)
    OBVIOUS
  <2> USE DEF TypeOK, CalmInv, LoadIsFresh
  <2>1. ASSUME NEW r \in Requests, Step(r) PROVE TakesBack(r, c)
    <3>1. CASE UpdateCart(r)
      BY <3>1 DEF UpdateCart, TakesBack
    <3>2. CASE UpdateCartPortone(r)
      BY <3>2 DEF UpdateCartPortone
    <3> QED
      BY <2>1, <3>1, <3>2
      DEF Step, SendPrepayment, AskProvider, CapturePaypal, AskPortone, ReadLetter,
          SendLetter, SendHook
  <2>2. ASSUME NEW r \in Requests, NEW d \in Carts, Arrive(r, d)
        PROVE  FALSE
    BY <2>2 DEF Arrive, Payment, CreateCart, PaymentSuccess, SuccessWithoutSession,
                PaymentCancel, CompletePortone, CartSendMail
  <2>3. ASSUME NEW d \in Carts, NEW s \in Statuses, Notify(d, s)
        PROVE  FALSE
    BY <2>3 DEF Notify, RepeatedCallback, PaymentCallback, PortoneWebhook
  <2> QED
    BY <2>1, <2>2, <2>3 DEF Next, Provider, Switch, Fail, Crash
<1> QED
  BY <1>1, TypeCorrect, CalmCorrect, PTL DEF Spec, PaidStays
=============================================================================
