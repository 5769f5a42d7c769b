------------------------------ MODULE CartPayment ------------------------------
(***************************************************************************)
(* The life of an order: Payment and CreateCart insert it, the redirects   *)
(* PaymentSuccess and PaymentCancel, the callback PaymentCallback and      *)
(* PortOne's CompletePortonePayment and PortoneWebhook change its payment  *)
(* status (internal/handlers/public/cart.go and payment_portone.go), and   *)
(* the panel's CartSendMail sends its letter again.                        *)
(*                                                                         *)
(* A request is one running handler.  It loads the order, asks the         *)
(* provider, writes with UpdateCart, sends the letter and fires the hook,  *)
(* each in a step of its own, so that two requests for one order overlap   *)
(* in every way the server allows.  The provider is external: it moves on  *)
(* its own, and repeats a notification until a handler answers it with     *)
(* 200.  DigitalClaim has the inside of the letter; here it is a read of   *)
(* the status and a send.                                                  *)
(*                                                                         *)
(* The success redirect's query names the payment it is about, and with it *)
(* the payment system; neither is compared with the order but where the    *)
(* row holds a payment id.  So the payments are a set of their own: one    *)
(* for each order, under the order's name, and sessions that were opened   *)
(* for orders outside the model.                                           *)
(***************************************************************************)
EXTENDS Naturals

CONSTANTS
    Carts,       \* cart ids, and the payments opened for them
    Payments,    \* all the payments the shop's providers know, Carts included
    Requests,    \* the requests that may run at once
    Offered,     \* the payment systems the shop offers
    Elsewhere,   \* bound: the systems of the payments for orders outside the model
    MaxFaults,   \* bound: faults (crashes, failed statements or SMTP dialogues)
    LetterCap,   \* bound: letters are counted up to this number
    None,        \* no order, or no payment
    Other        \* a payment id that is none of Payments

Systems == {"stripe", "paypal", "coinbase", "spectrocoin", "portone", "dummy"}
Statuses == {"new", "unpaid", "processed", "paid", "canceled", "failed"}

\* The systems whose Pay returns an id for the row, which the redirect brings back.
Sessions == {"stripe", "paypal", "coinbase"}

\* The systems whose switch the handlers look at.
Switched == Sessions \cup {"spectrocoin"}

ASSUME OfferedAssumption == Offered \subseteq Systems /\ Elsewhere \subseteq Sessions
ASSUME NamesAssumption ==
    Carts \subseteq Payments /\ None \notin Payments /\ Other \notin Payments /\ None # Other
ASSUME BoundsAssumption == MaxFaults \in Nat /\ LetterCap \in Nat \ {0}

VARIABLES
    system,   \* system[p]: the payment system p was opened with
    exact,    \* the pairs <<p, c>> where the amount of p passes the check for c
    calm,     \* the carts with one request at a time
    active,   \* the systems that are switched on
    status,   \* status[c]: cart.payment_status, "none" before the row exists
    ref,      \* ref[c]: cart.payment_id, a payment, Other or None
    prov,     \* prov[p]: the payment as the provider sees it
    linked,   \* the payments whose link somebody has got
    outbox,   \* notifications <<c, status>> the provider has not seen answered
    op,       \* op[r]: the handler request r runs
    pc,       \* pc[r]: the step it is about to run
    on,       \* on[r]: its cart
    by,       \* by[r]: the payment it is about
    got,      \* got[r]: the status it will write, or was notified of
    letters,  \* history: letters[c] sent by a redirect or a callback
    resent,   \* history: the carts whose letter the panel sent again
    undone,   \* history: the paid carts a cancel link took back
    faults    \* faults so far

order == <<system, exact, calm>>
request == <<op, pc, on, by, got>>
vars == <<order, active, status, ref, prov, linked, outbox, request, letters, resent,
          undone, faults>>

Handlers == {"none", "pay", "create", "success", "cancel", "callback",
             "complete", "notify", "resend"}

TypeOK ==
    /\ system \in [Payments -> Offered]
    /\ exact \subseteq Payments \X Carts
    /\ calm \subseteq Carts
    /\ active \subseteq Offered
    /\ status \in [Carts -> Statuses \cup {"none"}]
    /\ ref \in [Carts -> Payments \cup {None, Other}]
    /\ prov \in [Payments -> {"none", "open", "pending", "paid", "dead", "expired"}]
    /\ linked \subseteq Payments
    /\ outbox \subseteq Carts \X Statuses
    /\ op \in [Requests -> Handlers]
    /\ pc \in [Requests -> {"idle", "prepay", "ask", "update", "letter", "mail", "hook"}]
    /\ on \in [Requests -> Carts \cup {None}]
    /\ by \in [Requests -> Payments \cup {None}]
    /\ \A r \in Requests : pc[r] # "idle" => on[r] \in Carts /\ by[r] \in Payments
    /\ got \in [Requests -> Statuses \cup {"none"}]
    /\ letters \in [Carts -> 0..LetterCap]
    /\ resent \subseteq Carts
    /\ undone \subseteq Carts
    /\ faults \in 0..MaxFaults

Init ==
    /\ system \in [Payments -> Offered]
    /\ \A p \in Payments \ Carts : system[p] \in Elsewhere
    /\ exact \in SUBSET (Payments \X Carts)
    /\ calm \in SUBSET Carts
    /\ active = Offered
    /\ status = [c \in Carts |-> "none"]
    /\ ref = [c \in Carts |-> None]
    /\ prov \in [Payments -> {"none", "pending", "paid"}]
    /\ \A p \in Payments : prov[p] = "none" <=> p \in Carts
    /\ linked = Payments \ Carts
    /\ outbox = {}
    /\ op = [r \in Requests |-> "none"]
    /\ pc = [r \in Requests |-> "idle"]
    /\ on = [r \in Requests |-> None]
    /\ by = [r \in Requests |-> None]
    /\ got = [r \in Requests |-> "none"]
    /\ letters = [c \in Carts |-> 0]
    /\ resent = {}
    /\ undone = {}
    /\ faults = 0

-----------------------------------------------------------------------------
(* Requests.                                                               *)

\* The requests of a calm cart come one at a time.
MayArrive(c) == c \in calm => \A q \in Requests : on[q] # c

\* Request r takes up handler h for cart c and payment p, at step l, with
\* status s in hand.
Begin(r, h, c, p, l, s) ==
    /\ pc[r] = "idle"
    /\ MayArrive(c)
    /\ op' = [op EXCEPT ![r] = h]
    /\ pc' = [pc EXCEPT ![r] = l]
    /\ on' = [on EXCEPT ![r] = c]
    /\ by' = [by EXCEPT ![r] = p]
    /\ got' = [got EXCEPT ![r] = s]

GoTo(r, l) == pc' = [pc EXCEPT ![r] = l] /\ UNCHANGED <<op, on, by, got>>

End(r) ==
    /\ op' = [op EXCEPT ![r] = "none"]
    /\ pc' = [pc EXCEPT ![r] = "idle"]
    /\ on' = [on EXCEPT ![r] = None]
    /\ by' = [by EXCEPT ![r] = None]
    /\ got' = [got EXCEPT ![r] = "none"]

\* Answering 200 ends the provider's retries of this notification.
Answered(r) == outbox' = outbox \ {<<on[r], got[r]>>}

-----------------------------------------------------------------------------
(* The order is placed.                                                    *)

\* Payment, up to AddCart: Pay opened a session with the provider first.  It
\* answers without an order when the system is switched off.
Payment(r, c) ==
    /\ system[c] # "portone"
    /\ system[c] \in active
    /\ status[c] = "none"
    /\ Begin(r, "pay", c, c, "prepay", "none")
    /\ status' = [status EXCEPT ![c] = "new"]
    /\ ref' = [ref EXCEPT ![c] = IF system[c] \in Sessions THEN c ELSE None]
    /\ prov' = [prov EXCEPT ![c] = "open"]
    /\ UNCHANGED <<order, active, linked, outbox, letters, resent, undone,
                   faults>>

\* SendPrepaymentLetter: its mail holds the payment link.
SendPrepayment(r) ==
    /\ pc[r] = "prepay"
    /\ GoTo(r, "hook")
    /\ linked' = linked \cup {on[r]}
    /\ UNCHANGED <<order, active, status, ref, prov, outbox, letters, resent, undone, faults>>

\* CreateCart: PortOne's browser SDK opens the payment later.
CreateCart(r, c) ==
    /\ system[c] = "portone"
    /\ status[c] = "none"
    /\ Begin(r, "create", c, c, "hook", "none")
    /\ status' = [status EXCEPT ![c] = "new"]
    /\ prov' = [prov EXCEPT ![c] = "open"]
    /\ UNCHANGED <<order, active, ref, linked, outbox, letters, resent, undone,
                   faults>>

-----------------------------------------------------------------------------
(* The providers (external), and the operator's switches.                  *)

\* What a provider in state s reports, in its own and in the shop's words
\* (StatusPayment).
Unmapped(p, s) == s
Reported(p, s) ==
    CASE s = "paid" -> "paid"
      [] s = "pending" /\ system[p] \in {"coinbase", "spectrocoin"} -> "processed"
      [] s = "dead" /\ system[p] = "spectrocoin" -> "failed"
      [] s = "dead" /\ system[p] = "coinbase" -> "canceled"
      [] OTHER -> "unpaid"

\* PortOne says "paid" of an issued virtual account, in the shop's words.
PortoneAccepts(c) == prov[c] \in {"paid", "pending"}

\* What is notified of other orders' payments concerns other orders.
Notifies(p) == p \in Carts /\ system[p] \in {"spectrocoin", "portone"}

\* Nobody moves a free order; PayPal takes the money only when it is captured.
Moves(p, s) ==
    \/ prov[p] = "open" /\ s \in {"pending", "dead"}
    \/ prov[p] \in {"open", "pending"} /\ s = "paid" /\ system[p] # "paypal"
    \/ prov[p] = "pending" /\ s = (IF system[p] = "portone" THEN "expired" ELSE "dead")

Provider(p) ==
    /\ p \in linked
    /\ system[p] # "dummy"
    /\ \E s \in {"pending", "paid", "dead", "expired"} :
          /\ Moves(p, s)
          /\ prov' = [prov EXCEPT ![p] = s]
          /\ outbox' = IF Notifies(p) THEN outbox \cup {<<p, Reported(p, s)>>} ELSE outbox
    /\ UNCHANGED <<order, active, status, ref, linked, request, letters, resent, undone, faults>>

\* SetPaymentActive.  Only a system somebody pays with is worth switching.
Switch(s) ==
    /\ s \in Switched
    /\ \E p \in Payments : system[p] = s
    /\ active' = IF s \in active THEN active \ {s} ELSE active \cup {s}
    /\ UNCHANGED <<order, status, ref, prov, linked, outbox, request, letters, resent,
                   undone, faults>>

-----------------------------------------------------------------------------
(* The redirects.                                                          *)

\* The session, token or charge of the query is the one the row names, where
\* the row names one.
AnySession(c, p) == TRUE
OwnSession(c, p) == ref[c] \in {None, p}

\* The redirect's "if already paid" and the callback's idempotency guard.
AnyOrder(c) == TRUE
NotYetPaid(c) == status[c] # "paid"

\* A provider sends the buyer back once the payment has begun (external); the
\* dummy's payment link is the success page itself.
Redirected(c, p) ==
    /\ {c, p} \subseteq linked
    /\ prov[p] # "open" \/ system[p] = "dummy"

\* PaymentSuccess loads the order, and the settings of the system the query names.
\* The dummy provider says "paid" by itself, of a free order only.
PaymentSuccess(r, c, p) ==
    /\ Redirected(c, p)
    /\ NotYetPaid(c)
    /\ \/ /\ system[p] = "dummy" /\ system[c] = "dummy"
          /\ Begin(r, "success", c, p, "update", "paid")
       \/ /\ system[p] \in Sessions \cap active
          /\ OwnSession(c, p)
          /\ Begin(r, "success", c, p, "ask", "none")
    /\ UNCHANGED <<order, active, status, ref, prov, linked, outbox, letters, resent,
                   undone, faults>>

\* SpectroCoin and PortOne are left to their callbacks: the status is empty, and
\* UpdateCart writes nothing.
SuccessWithoutSession(r, c) ==
    /\ c \in linked
    /\ NotYetPaid(c)
    /\ Begin(r, "success", c, c, "update", "none")
    /\ UNCHANGED <<order, active, status, ref, prov, linked, outbox, letters, resent,
                   undone, faults>>

\* The systems whose cancel link keeps its token: PayPal's and Coinbase's is
\* built with a second "?", which becomes part of the token and spoils it.
CancelLinks == {"stripe", "spectrocoin"}

\* PaymentCancel does not look at the order before it writes.
PaymentCancel(r, c) ==
    /\ c \in linked
    /\ system[c] \in CancelLinks
    /\ Begin(r, "cancel", c, c, "update", "canceled")
    /\ UNCHANGED <<order, active, status, ref, prov, linked, outbox, letters, resent,
                   undone, faults>>

\* Checkout and verifyCartAmount: nothing is written when the amounts differ.
AnyAmount(c, p) == TRUE
AmountMatches(c, p) == <<p, c>> \in exact

AskProvider(r) ==
    LET p == by[r] IN
    /\ pc[r] = "ask" /\ op[r] = "success"
    /\ system[p] \in {"stripe", "coinbase"}
    /\ \/ AmountMatches(on[r], p) /\ got' = [got EXCEPT ![r] = Reported(p, prov[p])]
                                 /\ pc' = [pc EXCEPT ![r] = "update"]
                                 /\ UNCHANGED <<op, on, by>>
       \/ ~AmountMatches(on[r], p) /\ End(r)
    /\ UNCHANGED <<order, active, status, ref, prov, linked, outbox, letters, resent,
                   undone, faults>>

\* PayPal's Checkout is the capture: it succeeds once, on an approved order,
\* and a second one is an error.
CapturePaypal(r) ==
    LET p == by[r] IN
    /\ pc[r] = "ask" /\ op[r] = "success"
    /\ system[p] = "paypal"
    /\ \/ /\ prov[p] = "pending"
          /\ prov' = [prov EXCEPT ![p] = "paid"]
          /\ \/ AmountMatches(on[r], p) /\ got' = [got EXCEPT ![r] = "paid"]
                                       /\ pc' = [pc EXCEPT ![r] = "update"]
                                       /\ UNCHANGED <<op, on, by>>
             \/ ~AmountMatches(on[r], p) /\ End(r)
       \/ prov[p] # "pending" /\ End(r) /\ UNCHANGED prov
    /\ UNCHANGED <<order, active, status, ref, linked, outbox, letters, resent, undone,
                   faults>>

-----------------------------------------------------------------------------
(* Notifications.                                                          *)

\* PaymentCallback loads the order; "repeated PAID callbacks must not re-send
\* the purchase letter".  Refused, and left in the outbox: everything while the
\* system is switched off, and a paid status with another amount.
PaymentCallback(r, c, s) ==
    /\ <<c, s>> \in outbox
    /\ system[c] = "spectrocoin"
    /\ system[c] \in active
    /\ NotYetPaid(c)
    /\ s = "paid" => AmountMatches(c, c)
    /\ Begin(r, "callback", c, c, "update", s)
    /\ UNCHANGED <<order, active, status, ref, prov, linked, outbox, letters, resent,
                   undone, faults>>

RepeatedCallback(c, s) ==
    /\ <<c, s>> \in outbox
    /\ system[c] = "spectrocoin"
    /\ system[c] \in active
    /\ MayArrive(c)
    /\ ~NotYetPaid(c)
    /\ outbox' = outbox \ {<<c, s>>}
    /\ UNCHANGED <<order, active, status, ref, prov, linked, request, letters, resent,
                   undone, faults>>

\* CompletePortonePayment, called by the browser, and PortoneWebhook load the
\* order and then ask PortOne for the payment, whose custom data names the order.
\* Neither looks at the system's switch.
CompletePortone(r, c) ==
    /\ c \in linked
    /\ system[c] = "portone"
    /\ Begin(r, "complete", c, c, "ask", "none")
    /\ UNCHANGED <<order, active, status, ref, prov, linked, outbox, letters, resent,
                   undone, faults>>

PortoneWebhook(r, c, s) ==
    /\ <<c, s>> \in outbox
    /\ system[c] = "portone"
    /\ Begin(r, "notify", c, c, "ask", s)
    /\ UNCHANGED <<order, active, status, ref, prov, linked, outbox, letters, resent,
                   undone, faults>>

\* A webhook that finds nothing to write answers 200 all the same.
AskPortone(r) ==
    LET c == on[r] IN
    /\ pc[r] = "ask" /\ op[r] \in {"complete", "notify"}
    /\ \/ /\ PortoneAccepts(c) /\ AmountMatches(c, c)
          /\ GoTo(r, "update")
          /\ UNCHANGED outbox
       \/ /\ ~(PortoneAccepts(c) /\ AmountMatches(c, c))
          /\ End(r)
          /\ IF op[r] = "notify" THEN Answered(r) ELSE UNCHANGED outbox
    /\ UNCHANGED <<order, active, status, ref, prov, linked, letters, resent, undone, faults>>

-----------------------------------------------------------------------------
(* The rest of every handler.                                              *)

\* The payment id the handler writes: Stripe's Checkout, the dummy's and the
\* callback bring one of their own, PayPal's the one it was asked for, and the
\* others none.
WritesId(r) ==
    CASE got[r] = "none" \/ op[r] = "cancel" -> ref[on[r]]
      [] op[r] = "success" /\ system[by[r]] = "paypal" -> by[r]
      [] op[r] = "success" /\ system[by[r]] = "coinbase" -> ref[on[r]]
      [] OTHER -> Other

\* UpdateCart writes the status it was given, whatever the row holds by now.
UpdateCart(r) ==
    LET c == on[r] IN
    /\ pc[r] = "update"
    /\ op[r] \in {"success", "cancel", "callback"}
    /\ status' = IF got[r] = "none" THEN status ELSE [status EXCEPT ![c] = got[r]]
    /\ ref' = [ref EXCEPT ![c] = WritesId(r)]
    /\ undone' = IF op[r] = "cancel" /\ status[c] = "paid" THEN undone \cup {c} ELSE undone
    /\ GoTo(r, IF got[r] = "paid" THEN "letter" ELSE "hook")
    /\ UNCHANGED <<order, active, prov, linked, outbox, letters, resent, faults>>

\* PortOne's two handlers write "paid" and answer: no letter and no hook.
UpdateCartPortone(r) ==
    /\ pc[r] = "update"
    /\ op[r] \in {"complete", "notify"}
    /\ status' = [status EXCEPT ![on[r]] = "paid"]
    /\ ref' = [ref EXCEPT ![on[r]] = Other]
    /\ End(r)
    /\ IF op[r] = "notify" THEN Answered(r) ELSE UNCHANGED outbox
    /\ UNCHANGED <<order, active, prov, linked, letters, resent, undone,
                   faults>>

\* CartSendMail, the panel's resend.
CartSendMail(r, c) ==
    /\ status[c] # "none"
    /\ Begin(r, "resend", c, c, "letter", "none")
    /\ UNCHANGED <<order, active, status, ref, prov, linked, outbox, letters, resent,
                   undone, faults>>

\* The callback answers 500 to a letter that failed, to be called again; the
\* success redirect only logs it.
LetterFailed(r) == IF op[r] = "success" THEN GoTo(r, "hook") ELSE End(r)

\* SendCartLetter reads the order: WHERE payment_status = 'paid'.
AnyStatus(c) == TRUE
MayHaveLetter(c) == status[c] = "paid"

ReadLetter(r) ==
    /\ pc[r] = "letter"
    /\ IF MayHaveLetter(on[r]) THEN GoTo(r, "mail") ELSE LetterFailed(r)
    /\ UNCHANGED <<order, active, status, ref, prov, linked, outbox, letters, resent,
                   undone, faults>>

SendLetter(r) ==
    LET c == on[r] IN
    /\ pc[r] = "mail"
    /\ \/ /\ op[r] = "resend"
          /\ End(r)
          /\ resent' = resent \cup {c}
          /\ UNCHANGED letters
       \/ /\ op[r] # "resend"
          /\ GoTo(r, "hook")
          /\ letters' = [letters EXCEPT ![c] = IF @ = LetterCap THEN @ ELSE @ + 1]
          /\ UNCHANGED resent
    /\ UNCHANGED <<order, active, status, ref, prov, linked, outbox, undone,
                   faults>>

\* SendPaymentHook, and the answer.
SendHook(r) ==
    /\ pc[r] = "hook"
    /\ End(r)
    /\ IF op[r] = "callback" THEN Answered(r) ELSE UNCHANGED outbox
    /\ linked' = IF op[r] \in {"pay", "create"} THEN linked \cup {on[r]} ELSE linked
    /\ UNCHANGED <<order, active, status, ref, prov, letters, resent, undone,
                   faults>>

-----------------------------------------------------------------------------
(* Faults.                                                                 *)

Fault == faults < MaxFaults /\ faults' = faults + 1

\* The handlers that answer 200 to a failure.
AllHandlers == Handlers
QuietHandlers == {"notify"}

\* A failing statement, SMTP dialogue or provider call ends the handler with
\* an error, but the letter of the success redirect.  PortoneWebhook answers
\* 200 even so, "to prevent retry storms", once it has read its settings.  A
\* capture may fail before or after PayPal has done it.
Fail(r) ==
    /\ Fault
    /\ pc[r] # "idle"
    /\ IF pc[r] \in {"letter", "mail"} THEN LetterFailed(r) ELSE End(r)
    /\ \/ op[r] \in QuietHandlers /\ Answered(r)
       \/ op[r] \notin QuietHandlers /\ UNCHANGED outbox
       \/ pc[r] = "ask" /\ UNCHANGED outbox
    /\ \/ UNCHANGED prov
       \/ /\ pc[r] = "ask" /\ op[r] = "success"
          /\ system[by[r]] = "paypal" /\ prov[by[r]] = "pending"
          /\ prov' = [prov EXCEPT ![by[r]] = "paid"]
    /\ UNCHANGED <<order, active, status, ref, linked, letters, resent, undone>>

\* The process dies and comes back: running requests are gone.
Crash ==
    /\ Fault
    /\ op' = [r \in Requests |-> "none"]
    /\ pc' = [r \in Requests |-> "idle"]
    /\ on' = [r \in Requests |-> None]
    /\ by' = [r \in Requests |-> None]
    /\ got' = [r \in Requests |-> "none"]
    /\ UNCHANGED <<order, active, status, ref, prov, linked, outbox, letters, resent,
                   undone>>

-----------------------------------------------------------------------------
Step(r) ==
    \/ SendPrepayment(r)
    \/ AskProvider(r)
    \/ CapturePaypal(r)
    \/ AskPortone(r)
    \/ UpdateCart(r)
    \/ UpdateCartPortone(r)
    \/ ReadLetter(r)
    \/ SendLetter(r)
    \/ SendHook(r)

Notify(c, s) ==
    \/ RepeatedCallback(c, s)
    \/ \E r \in Requests : PaymentCallback(r, c, s)
    \/ \E r \in Requests : PortoneWebhook(r, c, s)

Arrive(r, c) ==
    \/ Payment(r, c)
    \/ CreateCart(r, c)
    \/ \E p \in Payments : PaymentSuccess(r, c, p)
    \/ SuccessWithoutSession(r, c)
    \/ PaymentCancel(r, c)
    \/ CompletePortone(r, c)
    \/ CartSendMail(r, c)

Next ==
    \/ \E r \in Requests : Step(r)
    \/ \E r \in Requests, c \in Carts : Arrive(r, c)
    \/ \E c \in Carts, s \in Statuses : Notify(c, s)
    \/ \E p \in Payments : Provider(p)
    \/ \E s \in Offered : Switch(s)
    \/ \E r \in Requests : Fail(r)
    \/ Crash

Spec == Init /\ [][Next]_vars

\* A running handler goes on, and the provider repeats an unanswered notification
\* until it gets through.  Buyers, operators and faults are under no obligation.
FairSpec ==
    /\ Spec
    /\ \A r \in Requests : WF_vars(Step(r))
    /\ \A c \in Carts, s \in Statuses : SF_vars(Notify(c, s))

-----------------------------------------------------------------------------
(* Properties.                                                             *)

\* What justifies calling an order paid: it is free, or its provider has the
\* money and reported the right amount; PortOne's issued virtual accounts count
\* as well, paid in or not.
PaidItself(c) ==
    \/ system[c] = "dummy"
    \/ prov[c] = "paid" /\ <<c, c>> \in exact
    \/ system[c] = "portone" /\ prov[c] \in {"pending", "expired"} /\ <<c, c>> \in exact

\* An order whose row was inserted without a payment id takes any payment of
\* the right amount that a redirect may name.
PaidByAnother(c) ==
    /\ system[c] \notin Sessions
    /\ \E p \in Payments : system[p] \in Sessions /\ prov[p] = "paid" /\ <<p, c>> \in exact

Backed(c) == PaidItself(c) \/ PaidByAnother(c)

\* An order is recorded as paid only if its payment is backed, however stale
\* the provider's answer or the loaded row was when UpdateCart ran, and whatever
\* payment the redirect named: of an order that names its own no other will do.
PaidIsBacked == \A c \in Carts : status[c] = "paid" => Backed(c)

\* Nobody gets a purchase letter, from a handler or from the panel, for an
\* order whose payment is not backed.
LettersFollowPayment ==
    \A c \in Carts : letters[c] > 0 \/ c \in resent => Backed(c)

\* Requests that come one at a time send one purchase letter at most, with
\* every retry of the provider, every reload of the page and every crash, as
\* long as no cancel link takes the paid order back.
LetterOnce == \A c \in calm \ undone : letters[c] <= 1

\* PaymentCancel's write, which no status stops.
TakesBack(r, c) == op[r] = "cancel" /\ pc[r] = "update" /\ on[r] = c

\* Requests that come one at a time take a paid order back by the buyer's cancel
\* link and by nothing else, whatever order the provider's notifications arrive in
\* and whatever payment a redirect names.
PaidStays ==
    [][\A c \in calm : status[c] = "paid" /\ status'[c] # "paid"
            => \E r \in Requests : TakesBack(r, c)]_vars

\* SpectroCoin's notification that a payment of the right amount was made is
\* recorded in the end, though requests crash, statements fail and the system
\* is switched off for a while: the provider calls again.
Charged(c) ==
    c \in calm /\ system[c] = "spectrocoin" /\ <<c, c>> \in exact /\ <<c, "paid">> \in outbox
ChargedIsRecorded ==
    \A c \in Carts : <>[](system[c] \in active) => (Charged(c) ~> status[c] = "paid")

\* "Payment session does not match cart": an order is paid by its own payment.  The
\* code breaks this for the orders whose row names no payment.
PaidByItsOwn == \A c \in Carts : status[c] = "paid" => PaidItself(c)

\* litepay.PAID is "final": no step takes an order out of it.  The code breaks
\* this: a cancel link or a request that loaded the order before writes over it.
PaidIsFinal == [][\A c \in Carts : status[c] = "paid" => status'[c] = "paid"]_vars

\* "Repeated PAID callbacks must not re-send the purchase letter."  The code breaks
\* this when they overlap.
NoSecondLetter == \A c \in Carts : letters[c] <= 1

\* "A provider that is told the callback failed sends it again - which is the
\* retry that gets the buyer their file."  The code breaks this: the retry finds
\* the order paid and answers before the letter.
RetryDeliversLetter ==
    \A c \in Carts : <>[](system[c] \in active)
        => (Charged(c) ~> letters[c] > 0 \/ c \in resent)

\* "Handle successful payment redirect, verify with provider, and update
\* cart": a buyer who paid is not turned away on coming back.  The code breaks
\* this for a Stripe payment that clears later, for a PayPal payment that was
\* captured but not recorded, and once the system is switched off.
PaidBuyerIsServed ==
    \A c \in Carts :
        /\ system[c] \in Sessions /\ prov[c] = "paid" /\ <<c, c>> \in exact
        /\ NotYetPaid(c) /\ \A r \in Requests : on[r] # c
        => OwnSession(c, c) /\ system[c] \in active /\ system[c] # "paypal"
=============================================================================
