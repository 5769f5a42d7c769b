--------------------------- MODULE ShopPagesProofs ---------------------------
(***************************************************************************)
(* ShopPages for every set of products, customers and pages, and any       *)
(* number of moves of the buyer, the operator and other tabs: what a page  *)
(* says of the cabinet was true since it was opened, and the product page  *)
(* shows the product of its address.                                       *)
(*                                                                         *)
(* Neither is inductive: an answer is shown steps after the server wrote   *)
(* it, so the parts below say what an answer on its way may hold.          *)
(***************************************************************************)
EXTENDS ShopPages, TLAPS

\* What a request asks for, and what its answer says, fit its kind.
Typed(r) ==
  /\ r.kind = "home" => r.of \in ListPages
  /\ r.kind \in Named => r.of \in Names
  /\ r.kind = "signin" => r.of \in Customers
  /\ r.kind = "settings" /\ r.answer = "ok" => r.says \in {"on", "off"}
  /\ r.kind \in {"me", "purchases"} /\ r.answer = "ok"
       => r.says \in Customers \cup {Nobody}
FlightTyped == \A r \in flight : Typed(r)

\* The histories know the switch as it is, and every word of it on its way.
SwitchKnown == (cabinet => wasOn) /\ (~cabinet => wasOff)
CacheIsSilent == cache \in {"none", "unsaid"}
LiveCopies ==
  \A r \in flight :
    r.kind = "settings" /\ r.answer = "ok" /\ r.says = "on" => wasOn
NoticesHeard ==
  \A r \in flight :
    r.heard /\ r.kind \in {"probe", "me"} /\ r.answer = "no cabinet" => wasOff
SaidInv == SwitchKnown /\ CacheIsSilent /\ LiveCopies /\ NoticesHeard /\ CabinetIsSaid

\* The product page hears answers about products only, and the settings.
ProductHears ==
  at.kind = "product" =>
    \A r \in flight : r.heard => r.kind \in {"product", "settings"}
ProductInv == ProductHears /\ ProductIsOfTheAddress

-----------------------------------------------------------------------------
(* What the operators on requests and pages give.                          *)

Kinds == {"settings", "home", "product", "content", "probe", "me",
          "purchases", "signin", "signup", "signout"}

LEMMA RequestType ==
  ASSUME NEW k \in Kinds, NEW x \in Names \cup ListPages \cup Customers \cup {"-"}
  PROVE  /\ Request(k, x) \in Requests
         /\ Request(k, x).kind = k /\ Request(k, x).of = x
         /\ Request(k, x).heard /\ Request(k, x).answer = "sent"
         /\ (k = "home" => x \in ListPages) /\ (k \in Named => x \in Names)
              /\ (k = "signin" => x \in Customers)
            => Typed(Request(k, x))
<1>1. /\ Request(k, x) \in Requests
      /\ Request(k, x).kind = k /\ Request(k, x).of = x
      /\ Request(k, x).heard /\ Request(k, x).answer = "sent"
  BY DEF Request, Requests, Kinds, Answers
<1> QED
  BY <1>1 DEF Typed

LEMMA AsksTypes ==
  ASSUME NEW p \in Pages
  PROVE  /\ Asks(p) \subseteq Requests
         /\ \A r \in Asks(p) : Typed(r) /\ r.heard /\ r.answer = "sent"
         /\ p.kind = "product" => \A r \in Asks(p) : r.kind = "product"
<1>1. CASE p.kind \in Named
  <2>1. p.name \in Names /\ p.kind \in Kinds
    BY <1>1 DEF Pages, Named, Kinds
  <2>2. Asks(p) = {Request(p.kind, p.name)}
    BY <1>1 DEF Asks, Named
  <2> QED
    BY <1>1, <2>1, <2>2, RequestType DEF Named
<1>2. CASE p.kind = "home"
  <2>1. Asks(p) = {Request("home", FirstPage)}
    BY <1>2 DEF Asks, Named
  <2> QED
    BY <1>2, <2>1, RequestType, ShopPagesAssumption DEF Named, Kinds
<1>3. CASE p.kind \notin Named /\ p.kind # "home"
  <2>1. PICK k \in {"me", "probe"} : Asks(p) = {Request(k, "-")}
    BY <1>3 DEF Asks
  <2> QED
    BY <1>3, <2>1, RequestType DEF Named, Kinds
<1> QED
  BY <1>1, <1>2, <1>3

LEMMA BlankType == Blank \in Body
  BY ShopPagesAssumption DEF Blank, Body

\* The address of a page that has no name is its kind.
LEMMA UnnamedPages ==
  ASSUME NEW p \in Pages
  PROVE  p.kind \notin Named => p = PageAt(p.kind)
  BY DEF Pages, PageAt, Named

LEMMA ServedTypes ==
  ASSUME TypeOK, NEW r \in flight, Typed(r), NEW a \in Result(r) \cup {"failed"}
  PROVE  /\ Served(r, a) \in Requests /\ Typed(Served(r, a))
         /\ Served(r, a).kind = r.kind /\ Served(r, a).heard = r.heard
         /\ Served(r, a).answer = a
         /\ a = "no cabinet" => ~cabinet
         /\ r.kind = "settings" /\ a = "ok" /\ Served(r, a).says = "on" => cabinet
<1>1. r \in Requests
  BY DEF TypeOK
<1>2. a \in Answers
  BY DEF Result, Answers
<1>3. session \in Customers \cup {Nobody}
  BY DEF TypeOK
<1> DEFINE s == IF a # "ok" THEN r.says
                ELSE IF r.kind = "settings" THEN IF cabinet THEN "on" ELSE "off"
                ELSE IF r.kind \in Guarded THEN session ELSE r.says
<1>4. s \in Customers \cup {Nobody} \cup Copies
  BY <1>1, <1>3 DEF Requests, Copies
<1>5. a = "ok" => /\ r.kind = "settings" => s \in {"on", "off"}
                  /\ r.kind \in {"me", "purchases"} => s \in Customers \cup {Nobody}
  BY <1>3 DEF Guarded
<1>9. a = "no cabinet" => ~cabinet
  BY DEF Result
<1>10. r.kind = "settings" /\ a = "ok" /\ s = "on" => cabinet
  OBVIOUS
<1>6. Served(r, a) = [r EXCEPT !.answer = a, !.says = s]
  BY DEF Served
<1> HIDE DEF s
<1>7. Served(r, a) = [kind |-> r.kind, of |-> r.of, heard |-> r.heard,
                      answer |-> a, says |-> s]
  BY <1>1, <1>6 DEF Requests
<1>8. Typed(Served(r, a))
  BY <1>5, <1>7 DEF Typed
<1>11. /\ Served(r, a) \in Requests
       /\ Served(r, a).kind = r.kind /\ Served(r, a).heard = r.heard
       /\ Served(r, a).answer = a /\ Served(r, a).says = s
  BY <1>1, <1>2, <1>4, <1>7 DEF Requests
<1> QED
  BY <1>8, <1>9, <1>10, <1>11

\* What is in flight after the tab has moved.
LEMMA GotoFlight ==
  ASSUME TypeOK, NEW p, NEW others \in SUBSET flight, Goto(p, others)
  PROVE  \A q \in flight' :
           \/ q \in others /\ Stays(q, p)
           \/ \E o \in others : /\ q \in Requests /\ ~q.heard
                                /\ q.kind = o.kind /\ q.of = o.of
                                /\ q.answer = o.answer /\ q.says = o.says
           \/ q \in Asks(p)
<1>1. \A o \in others :
        /\ [o EXCEPT !.heard = FALSE] \in Requests
        /\ ~[o EXCEPT !.heard = FALSE].heard
        /\ [o EXCEPT !.heard = FALSE].kind = o.kind
        /\ [o EXCEPT !.heard = FALSE].of = o.of
        /\ [o EXCEPT !.heard = FALSE].answer = o.answer
        /\ [o EXCEPT !.heard = FALSE].says = o.says
  BY DEF TypeOK, Requests
<1>2. ASSUME NEW q \in {[o EXCEPT !.heard = FALSE] :
                           o \in {x \in others : Matters(x) /\ ~Stays(x, p)}}
      PROVE  \E o \in others : q = [o EXCEPT !.heard = FALSE]
  OBVIOUS
<1>3. \A q \in flight' :
        \/ q \in {o \in others : Stays(o, p)}
        \/ q \in {[o EXCEPT !.heard = FALSE] :
                   o \in {x \in others : Matters(x) /\ ~Stays(x, p)}}
        \/ q \in Asks(p)
  BY DEF Goto
<1> TAKE q \in flight'
<1>4. CASE q \in {o \in others : Stays(o, p)}
  BY <1>4
<1>5. CASE \E o \in others : q = [o EXCEPT !.heard = FALSE]
  BY <1>1, <1>5
<1> QED
  BY <1>2, <1>3, <1>4, <1>5

-----------------------------------------------------------------------------
(* Type correctness.                                                       *)

TypeInv == TypeOK /\ FlightTyped

LEMMA TypeInit == Init => TypeInv
<1> SUFFICES ASSUME Init PROVE TypeInv
  OBVIOUS
<1>1. at \in Pages
  BY DEF Init, PageAt, Pages
<1>2. flight \subseteq Requests /\ \A r \in flight : Typed(r)
  BY <1>1, AsksTypes, RequestType DEF Init, Kinds, Named
<1> QED
  BY <1>1, <1>2, BlankType, ShopPagesAssumption
  DEF Init, TypeInv, TypeOK, FlightTyped, Copies

LEMMA GotoTypes ==
  ASSUME TypeInv, NEW p \in Pages, NEW others \in SUBSET flight, Goto(p, others)
  PROVE  /\ at' \in Pages /\ body' \in Body /\ wasOff' \in BOOLEAN
         /\ flight' \subseteq Requests /\ FlightTyped'
<1>1. \A q \in flight' : q \in Requests /\ Typed(q)
  BY GotoFlight, AsksTypes DEF TypeInv, TypeOK, FlightTyped, Typed
<1> QED
  BY <1>1, BlankType DEF Goto, TypeInv, TypeOK, FlightTyped

\* An answer that a page takes in.
LEMMA BecomesTypes ==
  ASSUME TypeInv, NEW r \in flight, NEW b, NEW more,
         r.heard => b \in Body,
         more \subseteq Requests, \A q \in more : Typed(q),
         Becomes(r, b, more)
  PROVE  TypeInv'
  BY DEF TypeInv, TypeOK, FlightTyped, Becomes, Rest, server, layout

LEMMA ServeTypes ==
  ASSUME TypeInv, NEW r \in flight, Serve(r)
  PROVE  TypeInv'
<1>1. Typed(r)
  BY DEF TypeInv, FlightTyped
<1>2. session' \in Customers \cup {Nobody}
  BY <1>1 DEF TypeInv, TypeOK, Serve, Typed
<1>3. \E a \in Result(r) \cup {"failed"} : flight' = (flight \ {r}) \cup {Served(r, a)}
  BY DEF Serve
<1>4. flight' \subseteq Requests /\ \A q \in flight' : Typed(q)
  BY <1>1, <1>3, ServedTypes DEF TypeInv, TypeOK, FlightTyped
<1> QED
  BY <1>2, <1>4 DEF TypeInv, TypeOK, FlightTyped, Serve, server, layout

\* The page of an answer that is shown.
LEMMA ArrivedTypes ==
  ASSUME TypeInv, NEW r \in flight, r.kind \in {"home", "product", "content"}
  PROVE  Arrived(r) \in Body
<1>1. body \in Body /\ r.of \in Names \cup ListPages \cup {"-"}
  BY DEF TypeInv, TypeOK, FlightTyped, Typed, Named
<1> QED
  BY <1>1 DEF Arrived, Body

LEMMA ArriveTypes ==
  ASSUME TypeInv, NEW r \in flight, Arrive(r)
  PROVE  TypeInv'
<1>0. r \in Requests /\ Typed(r) /\ body \in Body
  BY DEF TypeInv, TypeOK, FlightTyped
<1>M. ASSUME NEW p \in Pages, MovesTo(r, p) PROVE TypeInv'
  <2>1. Rest(r) \in SUBSET flight
    BY DEF Rest
  <2>2. CASE p # at /\ Goto(p, Rest(r))
    BY <1>M, <2>1, <2>2, GotoTypes
    DEF MovesTo, TypeInv, TypeOK, server, layout
  <2>3. CASE UNCHANGED <<at, body, wasOff>> /\ flight' = Rest(r)
    BY <1>M, <2>1, <2>3 DEF MovesTo, TypeInv, TypeOK, FlightTyped, server, layout
  <2> QED
    BY <1>M, <2>2, <2>3 DEF MovesTo
<1>1. CASE SettingsArrive(r)
  BY <1>0, <1>1 DEF SettingsArrive, Answered, Rest, WithoutCabinet, TypeInv, TypeOK,
                    FlightTyped, Typed, Copies, server
<1>2. CASE LoadProducts(r) \/ LoadProduct(r)
  BY <1>0, <1>2, ArrivedTypes, BecomesTypes DEF LoadProducts, LoadProduct, Answered
<1>3. CASE LoadPage(r)
  BY <1>0, <1>3, ArrivedTypes, BecomesTypes DEF LoadPage, Answered
<1>4. CASE CabinetAvailable(r)
  <2>1. [body EXCEPT !.available = IF SaysNoCabinet(r) THEN "no" ELSE "yes",
                     !.loading = FALSE] \in Body
    BY <1>0 DEF Body
  <2> QED
    BY <1>4, <2>1, BecomesTypes DEF CabinetAvailable
<1>5. CASE Me(r)
  <2>1. PageAt("signin") \in Pages
    BY DEF PageAt, Pages
  <2>2. r.answer = "ok" => [body EXCEPT !.who = r.says] \in Body
    BY <1>0, <1>5 DEF Me, Answered, Typed, Body
  <2> DEFINE b == [body EXCEPT !.loading = FALSE,
                               !.available = IF SaysNoCabinet(r) THEN "no" ELSE @,
                               !.missing = ~SaysNoCabinet(r)]
  <2>3. b \in Body
    BY <1>0 DEF Body, SaysNoCabinet
  <2>4. {Request("purchases", "-")} \subseteq Requests /\ Typed(Request("purchases", "-"))
    BY RequestType DEF Kinds, Named
  <2>5. CASE r.answer = "unknown customer"
    BY <1>5, <1>M, <2>1, <2>5 DEF Me
  <2>6. CASE r.answer = "ok"
    BY <1>5, <2>2, <2>4, <2>6, BecomesTypes DEF Me
  <2>7. CASE r.answer \notin {"unknown customer", "ok"}
    <3>1. Becomes(r, b, {})
      BY <1>5, <2>7 DEF Me
    <3> HIDE DEF b
    <3> QED
      BY <2>3, <3>1, BecomesTypes
  <2> QED
    BY <2>5, <2>6, <2>7
<1>6. CASE Purchases(r)
  <2>1. r.answer = "ok" => [body EXCEPT !.loading = FALSE, !.orders = r.says] \in Body
    BY <1>0, <1>6 DEF Purchases, Answered, Typed, Body
  <2>2. [body EXCEPT !.loading = FALSE, !.missing = TRUE] \in Body
    BY <1>0 DEF Body
  <2> QED
    BY <1>6, <2>1, <2>2, BecomesTypes DEF Purchases
<1>7. CASE FormAnswer(r)
  <2>1. NextPage(r) \in Pages
    BY DEF NextPage, PageAt, Pages
  <2>2. FormFails(r) \in Body
    BY <1>0 DEF FormFails, Body
  <2> QED
    BY <1>7, <1>M, <2>1, <2>2, BecomesTypes DEF FormAnswer
<1> QED
  BY <1>1, <1>2, <1>3, <1>4, <1>5, <1>6, <1>7 DEF Arrive

\* A form or a button sends a request of its own.
LEMMA SendTypes ==
  ASSUME TypeInv, NEW q \in Requests, Typed(q), Send(q)
  PROVE  TypeInv'
<1>1. [body EXCEPT !.busy = TRUE, !.error = FALSE] \in Body
  BY DEF TypeInv, TypeOK, Body
<1>2. moves' \in 0..MaxMoves
  BY ShopPagesAssumption DEF TypeInv, TypeOK, Send
<1> QED
  BY <1>1, <1>2 DEF Send, TypeInv, TypeOK, FlightTyped, server, layout

LEMMA BuyerTypes == ASSUME TypeInv, Buyer PROVE TypeInv'
<1>0. moves < MaxMoves => moves + 1 \in 0..MaxMoves
  BY ShopPagesAssumption DEF TypeInv, TypeOK
<1>1. ASSUME NEW p \in Pages, Visit(p) PROVE TypeInv'
  BY <1>0, <1>1, GotoTypes DEF Visit, TypeInv, TypeOK, server, layout
<1>2. ASSUME NEW p \in Pages, Load(p) PROVE TypeInv'
  <2>1. settings' \in Copies /\ covered' \in BOOLEAN
    BY <1>2 DEF Load, LoadFromCache, TypeInv, TypeOK, Copies
  <2>2. flight' = {Request("settings", "-")} \cup Asks(p)
    BY <1>2 DEF Load
  <2>3. flight' \subseteq Requests /\ \A r \in flight' : Typed(r)
    BY <2>2, AsksTypes, RequestType DEF Kinds, Named
  <2> QED
    BY <1>0, <1>2, <2>1, <2>3, BlankType
    DEF Load, TypeInv, TypeOK, FlightTyped, server
<1>3. ASSUME NEW n \in ListPages, HandlePageChange(n) PROVE TypeInv'
  <2>1. [body EXCEPT !.loading = TRUE, !.number = n] \in Body
    BY <1>3 DEF TypeInv, TypeOK, Body
  <2>2. Request("home", n) \in Requests /\ Typed(Request("home", n))
    BY RequestType DEF Kinds, Named
  <2> QED
    BY <1>0, <1>3, <2>1, <2>2
    DEF HandlePageChange, TypeInv, TypeOK, FlightTyped, server, layout
<1>4. ASSUME NEW c \in Customers, SignIn(c) PROVE TypeInv'
  <2>1. Request("signin", c) \in Requests /\ Typed(Request("signin", c))
    BY RequestType DEF Kinds, Named
  <2> QED
    BY <1>4, <2>1, SendTypes DEF SignIn
<1>5. CASE SignUp
  <2>1. Request("signup", "-") \in Requests /\ Typed(Request("signup", "-"))
    BY RequestType DEF Kinds, Named
  <2>2. [body EXCEPT !.error = TRUE] \in Body
    BY DEF TypeInv, TypeOK, Body
  <2> QED
    BY <1>5, <2>1, <2>2, SendTypes
    DEF SignUp, TypeInv, TypeOK, FlightTyped, server, layout
<1>6. CASE SignOut
  <2>1. Request("signout", "-") \in Requests /\ Typed(Request("signout", "-"))
    BY RequestType DEF Kinds, Named
  <2> QED
    BY <1>6, <2>1, SendTypes DEF SignOut
<1> QED
  BY <1>1, <1>2, <1>3, <1>4, <1>5, <1>6 DEF Buyer

LEMMA TypeStep == TypeInv /\ [Next]_vars => TypeInv'
<1> SUFFICES ASSUME TypeInv, [Next]_vars PROVE TypeInv'
  OBVIOUS
<1>1. CASE Switch
  BY <1>1, ShopPagesAssumption DEF Switch, TypeInv, TypeOK, FlightTyped, layout
<1>2. CASE Elsewhere
  BY <1>2, ShopPagesAssumption
  DEF Elsewhere, TypeInv, TypeOK, FlightTyped, server, layout
<1>3. CASE Buyer
  BY <1>3, BuyerTypes
<1>4. CASE Network
  BY <1>4, ServeTypes, ArriveTypes DEF Network
<1>5. CASE UNCHANGED vars
  BY <1>5 DEF vars, server, layout, TypeInv, TypeOK, FlightTyped
<1> QED
  BY <1>1, <1>2, <1>3, <1>4, <1>5 DEF Next

\* Every variable stays in its type, and every request and answer in flight
\* fits its kind.
THEOREM TypeCorrect == Spec => [](TypeOK /\ FlightTyped)
  BY TypeInit, TypeStep, PTL DEF Spec, TypeInv

-----------------------------------------------------------------------------
(* What the shop says of the cabinet.                                      *)

LEMMA SaidInit == Init => SaidInv
<1> SUFFICES ASSUME Init PROVE SaidInv
  OBVIOUS
<1>1. at \in Pages
  BY DEF Init, PageAt, Pages
<1>2. \A r \in flight : r.answer = "sent"
  BY <1>1, AsksTypes, RequestType DEF Init, Kinds
<1> QED
  BY <1>2 DEF Init, Blank, SaidInv, SwitchKnown, CacheIsSilent, LiveCopies,
              NoticesHeard, CabinetIsSaid

\* A page that is opened has said nothing yet, and hears no notice meant for
\* another: none of the two requests that bring one has the kind of a page.
LEMMA GotoSaid ==
  ASSUME TypeInv, SaidInv, NEW p \in Pages, NEW others \in SUBSET flight,
         Goto(p, others), UNCHANGED <<cabinet, cache, settings, wasOn>>
  PROVE  SaidInv'
<1> USE DEF SaidInv
<1>1. p.kind \notin {"probe", "me"}
  BY DEF Pages, Named
<1>2. NoticesHeard'
  BY <1>1, GotoFlight, AsksTypes DEF TypeInv, NoticesHeard, Stays
<1>3. LiveCopies'
  BY GotoFlight, AsksTypes DEF TypeInv, LiveCopies
<1> QED
  BY <1>2, <1>3 DEF Goto, Blank, SwitchKnown, CacheIsSilent, CabinetIsSaid

LEMMA BecomesSaid ==
  ASSUME SaidInv, NEW r \in flight, NEW b, NEW more, Becomes(r, b, more),
         \A q \in more : q.answer = "sent",
         r.heard /\ b.available = "no" => wasOff
  PROVE  SaidInv'
  BY DEF SaidInv, SwitchKnown, CacheIsSilent, LiveCopies, NoticesHeard,
         CabinetIsSaid, Becomes, Rest, server, layout

\* A request that is sent has no answer yet.
LEMMA SendSaid ==
  ASSUME SaidInv, NEW q, q.answer = "sent", flight' = flight \cup {q},
         body'.available = body.available,
         UNCHANGED <<cabinet, cache, settings, wasOn, wasOff>>
  PROVE  SaidInv'
  BY DEF SaidInv, SwitchKnown, CacheIsSilent, LiveCopies, NoticesHeard, CabinetIsSaid

LEMMA ArriveSaid ==
  ASSUME TypeInv, SaidInv, NEW r \in flight, Arrive(r)
  PROVE  SaidInv'
<1>0. body \in Body
  BY DEF TypeInv, TypeOK
<1>B. body.available = "no" => wasOff
  BY DEF SaidInv, CabinetIsSaid
<1>N. r.heard /\ r.kind \in {"probe", "me"} /\ SaysNoCabinet(r) => wasOff
  BY DEF SaidInv, NoticesHeard, SaysNoCabinet
<1>M. ASSUME NEW p \in Pages, MovesTo(r, p) PROVE SaidInv'
  <2>1. Rest(r) \in SUBSET flight
    BY DEF Rest
  <2>2. CASE Goto(p, Rest(r))
    BY <1>M, <2>1, <2>2, GotoSaid DEF MovesTo, server, layout
  <2>3. CASE UNCHANGED <<at, body, wasOff>> /\ flight' = Rest(r)
    BY <1>M, <2>1, <2>3
    DEF MovesTo, SaidInv, SwitchKnown, CacheIsSilent, LiveCopies, NoticesHeard,
        CabinetIsSaid, server, layout
  <2> QED
    BY <1>M, <2>2, <2>3 DEF MovesTo
<1>1. CASE SettingsArrive(r)
  BY <1>1 DEF SettingsArrive, Answered, Rest, WithoutCabinet, SaidInv, SwitchKnown,
              CacheIsSilent, LiveCopies, NoticesHeard, CabinetIsSaid, server
<1>2. CASE LoadProducts(r) \/ LoadProduct(r) \/ LoadPage(r)
  <2>1. Arrived(r).available = body.available
    BY <1>0 DEF Arrived, Body
  <2> QED
    BY <1>2, <1>B, <2>1, BecomesSaid DEF LoadProducts, LoadProduct, LoadPage
<1>3. CASE CabinetAvailable(r)
  <2> DEFINE b == [body EXCEPT !.available = IF SaysNoCabinet(r) THEN "no" ELSE "yes",
                               !.loading = FALSE]
  <2>1. b.available = "no" => SaysNoCabinet(r)
    BY <1>0 DEF Body
  <2>2. Becomes(r, b, {}) /\ r.kind = "probe"
    BY <1>3 DEF CabinetAvailable, Answered
  <2> HIDE DEF b
  <2> QED
    BY <1>N, <2>1, <2>2, BecomesSaid
<1>4. CASE Me(r)
  <2>1. PageAt("signin") \in Pages
    BY DEF PageAt, Pages
  <2>2. CASE r.answer = "unknown customer"
    BY <1>4, <1>M, <2>1, <2>2 DEF Me
  <2>3. CASE r.answer = "ok"
    <3>1. [body EXCEPT !.who = r.says].available = body.available
      BY <1>0 DEF Body
    <3>2. Becomes(r, [body EXCEPT !.who = r.says], {Request("purchases", "-")})
      BY <1>4, <2>3 DEF Me
    <3>3. \A q \in {Request("purchases", "-")} : q.answer = "sent"
      BY RequestType DEF Kinds
    <3> QED
      BY <1>B, <3>1, <3>2, <3>3, BecomesSaid
  <2>4. CASE r.answer \notin {"unknown customer", "ok"}
    <3> DEFINE b == [body EXCEPT !.loading = FALSE,
                                 !.available = IF SaysNoCabinet(r) THEN "no" ELSE @,
                                 !.missing = ~SaysNoCabinet(r)]
    <3>1. b.available = "no" => SaysNoCabinet(r) \/ body.available = "no"
      BY <1>0 DEF Body
    <3>2. Becomes(r, b, {}) /\ r.kind = "me"
      BY <1>4, <2>4 DEF Me, Answered
    <3> HIDE DEF b
    <3> QED
      BY <1>B, <1>N, <3>1, <3>2, BecomesSaid
  <2> QED
    BY <2>2, <2>3, <2>4
<1>5. CASE Purchases(r)
  <2> DEFINE b == IF r.answer = "ok"
                  THEN [body EXCEPT !.loading = FALSE, !.orders = r.says]
                  ELSE [body EXCEPT !.loading = FALSE, !.missing = TRUE]
  <2>1. b.available = body.available
    BY <1>0 DEF Body
  <2>2. Becomes(r, b, {})
    BY <1>5 DEF Purchases
  <2> HIDE DEF b
  <2> QED
    BY <1>B, <2>1, <2>2, BecomesSaid
<1>6. CASE FormAnswer(r)
  <2>1. NextPage(r) \in Pages
    BY DEF NextPage, PageAt, Pages
  <2>2. FormFails(r).available = body.available
    BY <1>0 DEF FormFails, Body
  <2> QED
    BY <1>6, <1>B, <1>M, <2>1, <2>2, BecomesSaid DEF FormAnswer
<1> QED
  BY <1>1, <1>2, <1>3, <1>4, <1>5, <1>6 DEF Arrive

LEMMA SaidStep == TypeInv /\ SaidInv /\ [Next]_vars => SaidInv'
<1> SUFFICES ASSUME TypeInv, SaidInv, [Next]_vars PROVE SaidInv'
  OBVIOUS
<1>0. body \in Body
  BY DEF TypeInv, TypeOK
<1>1. CASE Switch
  BY <1>1 DEF Switch, SaidInv, SwitchKnown, CacheIsSilent, LiveCopies, NoticesHeard,
              CabinetIsSaid, layout
<1>2. CASE Elsewhere
  BY <1>2 DEF Elsewhere, SaidInv, SwitchKnown, CacheIsSilent, LiveCopies,
              NoticesHeard, CabinetIsSaid, server, layout
<1>3. ASSUME NEW p \in Pages, Visit(p) PROVE SaidInv'
  BY <1>3, GotoSaid DEF Visit, server, layout
<1>4. ASSUME NEW p \in Pages, Load(p) PROVE SaidInv'
  <2>1. \A q \in flight' : q.answer = "sent"
    BY <1>4, AsksTypes, RequestType DEF Load, Kinds
  <2>2. settings' # "on"
    BY <1>4 DEF Load, LoadFromCache, SaidInv, CacheIsSilent
  <2> QED
    BY <1>4, <2>1, <2>2
    DEF Load, Blank, SaidInv, SwitchKnown, CacheIsSilent, LiveCopies, NoticesHeard,
        CabinetIsSaid, server
<1>5. ASSUME NEW n \in ListPages, HandlePageChange(n) PROVE SaidInv'
  <2>1. [body EXCEPT !.loading = TRUE, !.number = n].available = body.available
    BY <1>0 DEF Body
  <2> QED
    BY <1>5, <2>1, SendSaid, RequestType DEF HandlePageChange, Kinds, server, layout
<1>6. ASSUME NEW q, q.answer = "sent", Send(q) PROVE SaidInv'
  <2>1. [body EXCEPT !.busy = TRUE, !.error = FALSE].available = body.available
    BY <1>0 DEF Body
  <2> QED
    BY <1>6, <2>1, SendSaid DEF Send, server, layout
<1>7. CASE (\E c \in Customers : SignIn(c)) \/ SignUp \/ SignOut
  <2>1. [body EXCEPT !.error = TRUE].available = body.available
    BY <1>0 DEF Body
  <2>2. CASE \E q : q.answer = "sent" /\ Send(q)
    BY <1>6, <2>2
  <2>3. CASE body' = [body EXCEPT !.error = TRUE]
             /\ UNCHANGED <<server, layout, flight, wasOn, wasOff>>
    BY <2>1, <2>3 DEF SaidInv, SwitchKnown, CacheIsSilent, LiveCopies, NoticesHeard,
                      CabinetIsSaid, server, layout
  <2> QED
    BY <1>7, <2>2, <2>3, RequestType DEF SignIn, SignUp, SignOut, Kinds
<1>8. ASSUME NEW r \in flight, Serve(r) PROVE SaidInv'
  <2>1. PICK a \in Result(r) \cup {"failed"} :
          flight' = (flight \ {r}) \cup {Served(r, a)}
    BY <1>8 DEF Serve
  <2>2. Typed(r)
    BY DEF TypeInv, FlightTyped
  <2>3. /\ Served(r, a).answer = "no cabinet" => wasOff
        /\ Served(r, a).kind = "settings" /\ Served(r, a).answer = "ok"
             /\ Served(r, a).says = "on" => wasOn
    BY <2>2, ServedTypes DEF TypeInv, SaidInv, SwitchKnown
  <2>4. LiveCopies' /\ NoticesHeard'
    BY <1>8, <2>1, <2>3 DEF Serve, SaidInv, LiveCopies, NoticesHeard
  <2> QED
    BY <1>8, <2>4 DEF Serve, SaidInv, SwitchKnown, CacheIsSilent, CabinetIsSaid,
                      server, layout
<1>9. ASSUME NEW r \in flight, Arrive(r) PROVE SaidInv'
  BY <1>9, ArriveSaid
<1>10. CASE UNCHANGED vars
  BY <1>10 DEF vars, SaidInv, SwitchKnown, CacheIsSilent, LiveCopies, NoticesHeard,
               CabinetIsSaid, server, layout
<1> QED
  BY <1>1, <1>2, <1>3, <1>4, <1>5, <1>7, <1>8, <1>9, <1>10 DEF Next, Buyer, Network

\* The header never offers a cabinet the shop has not had since the document
\* was loaded, however old the cached settings are, and a buyer is told there
\* is none only by a 404 of this page's own request (cabinetAvailable).
THEOREM CabinetNoticeIsTrue == Spec => []CabinetIsSaid
<1>1. Init => TypeInv /\ SaidInv
  BY TypeInit, SaidInit
<1>2. TypeInv /\ SaidInv /\ [Next]_vars => (TypeInv /\ SaidInv)'
  BY TypeStep, SaidStep
<1>3. SaidInv => CabinetIsSaid
  BY DEF SaidInv
<1> QED
  BY <1>1, <1>2, <1>3, PTL DEF Spec

-----------------------------------------------------------------------------
(* The product page.                                                       *)

LEMMA GotoProduct ==
  ASSUME TypeInv, NEW p \in Pages, NEW others \in SUBSET flight, Goto(p, others)
  PROVE  ProductInv'
<1>1. ProductHears'
  BY GotoFlight, AsksTypes DEF TypeInv, Goto, ProductHears, Stays
<1> QED
  BY <1>1 DEF Goto, Blank, ProductInv, ProductIsOfTheAddress

\* A product page takes in an answer only if it is about its own product.
LEMMA BecomesProduct ==
  ASSUME ProductInv, NEW r \in flight, NEW b, NEW more, Becomes(r, b, more),
         r.kind # "settings",
         r.heard /\ r.kind = "product" /\ at.kind = "product"
           => more = {} /\ (~b.loading /\ ~b.missing => b.shown = at.name)
  PROVE  ProductInv'
  BY DEF ProductInv, ProductHears, ProductIsOfTheAddress, Becomes, Rest

LEMMA ArriveProduct ==
  ASSUME TypeInv, ProductInv, NEW r \in flight, Arrive(r)
  PROVE  ProductInv'
<1>0. body \in Body
  BY DEF TypeInv, TypeOK
<1>M. ASSUME NEW p \in Pages, MovesTo(r, p) PROVE ProductInv'
  <2>1. Rest(r) \in SUBSET flight
    BY DEF Rest
  <2>2. CASE Goto(p, Rest(r))
    BY <2>1, <2>2, GotoProduct
  <2>3. CASE UNCHANGED <<at, body, wasOff>> /\ flight' = Rest(r)
    BY <2>1, <2>3 DEF ProductInv, ProductHears, ProductIsOfTheAddress
  <2> QED
    BY <1>M, <2>2, <2>3 DEF MovesTo
<1>1. CASE SettingsArrive(r)
  BY <1>1 DEF SettingsArrive, Rest, ProductInv, ProductHears, ProductIsOfTheAddress
<1>2. CASE LoadProduct(r)
  <2>1. Newest(r) /\ r.kind = "product" /\ ~Arrived(r).missing => Arrived(r).shown = at.name
    BY <1>0 DEF Newest, Arrived, Body
  <2>2. ~body.loading /\ ~body.missing /\ at.kind = "product" => body.shown = at.name
    BY DEF ProductInv, ProductIsOfTheAddress
  <2> DEFINE b == IF Newest(r) THEN Arrived(r) ELSE body
  <2>3. Becomes(r, b, {}) /\ r.kind = "product"
    BY <1>2 DEF LoadProduct, Answered
  <2>4. at.kind = "product" /\ ~b.loading /\ ~b.missing => b.shown = at.name
    BY <2>1, <2>2, <2>3
  <2> HIDE DEF b
  <2> QED
    BY <2>3, <2>4, BecomesProduct
<1>3. ASSUME NEW b, NEW more, Becomes(r, b, more), r.kind \notin {"settings", "product"}
      PROVE  ProductInv'
  BY <1>3, BecomesProduct
<1>4. CASE LoadProducts(r) \/ LoadPage(r) \/ CabinetAvailable(r) \/ Purchases(r)
  BY <1>3, <1>4 DEF LoadProducts, LoadPage, CabinetAvailable, Purchases, Answered
<1>5. CASE Me(r)
  <2>1. PageAt("signin") \in Pages
    BY DEF PageAt, Pages
  <2> QED
    BY <1>3, <1>5, <1>M, <2>1 DEF Me, Answered
<1>6. CASE FormAnswer(r)
  <2>1. NextPage(r) \in Pages
    BY DEF NextPage, PageAt, Pages
  <2> QED
    BY <1>3, <1>6, <1>M, <2>1 DEF FormAnswer, Answered
<1> QED
  BY <1>1, <1>2, <1>4, <1>5, <1>6 DEF Arrive

LEMMA ProductStep == TypeInv /\ ProductInv /\ [Next]_vars => ProductInv'
<1> SUFFICES ASSUME TypeInv, ProductInv, [Next]_vars PROVE ProductInv'
  OBVIOUS
<1>1. CASE Switch \/ Elsewhere
  BY <1>1 DEF Switch, Elsewhere, ProductInv, ProductHears, ProductIsOfTheAddress
<1>2. ASSUME NEW p \in Pages, Visit(p) PROVE ProductInv'
  BY <1>2, GotoProduct DEF Visit
<1>3. ASSUME NEW p \in Pages, Load(p) PROVE ProductInv'
  <2>1. ProductHears'
    BY <1>3, AsksTypes, RequestType DEF Load, ProductHears, Kinds
  <2> QED
    BY <1>3, <2>1 DEF Load, Blank, ProductInv, ProductIsOfTheAddress
<1>4. CASE \/ \E n \in ListPages : HandlePageChange(n)
           \/ \E c \in Customers : SignIn(c)
           \/ SignUp \/ SignOut
  <2>1. at.kind # "product" /\ at' = at
    BY <1>4 DEF HandlePageChange, SignIn, SignUp, SignOut, Send
  <2> QED
    BY <2>1 DEF ProductInv, ProductHears, ProductIsOfTheAddress
<1>5. ASSUME NEW r \in flight, Serve(r) PROVE ProductInv'
  <2>1. PICK a \in Result(r) \cup {"failed"} :
          flight' = (flight \ {r}) \cup {Served(r, a)}
    BY <1>5 DEF Serve
  <2>2. Served(r, a).kind = r.kind /\ Served(r, a).heard = r.heard
    BY ServedTypes DEF TypeInv, FlightTyped
  <2> QED
    BY <1>5, <2>1, <2>2 DEF Serve, ProductInv, ProductHears, ProductIsOfTheAddress
<1>6. ASSUME NEW r \in flight, Arrive(r) PROVE ProductInv'
  BY <1>6, ArriveProduct
<1>7. CASE UNCHANGED vars
  BY <1>7 DEF vars, ProductInv, ProductHears, ProductIsOfTheAddress
<1> QED
  BY <1>1, <1>2, <1>3, <1>4, <1>5, <1>6, <1>7 DEF Next, Buyer, Network

\* However many products the buyer leafs through, and in whatever order the
\* answers come, the page shows the product of its address (loadProduct's
\* check of the slug it asked for).
THEOREM ProductOfTheAddress == Spec => []ProductIsOfTheAddress
<1>1. Init => TypeInv /\ ProductInv
  <2>1. Init => ProductInv
    BY DEF Init, PageAt, Blank, ProductInv, ProductHears, ProductIsOfTheAddress
  <2> QED
    BY <2>1, TypeInit
<1>2. TypeInv /\ ProductInv /\ [Next]_vars => (TypeInv /\ ProductInv)'
  BY TypeStep, ProductStep
<1>3. ProductInv => ProductIsOfTheAddress
  BY DEF ProductInv
<1> QED
  BY <1>1, <1>2, <1>3, PTL DEF Spec

=============================================================================
