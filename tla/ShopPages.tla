----------------------------- MODULE ShopPages ------------------------------
(***************************************************************************)
(* One tab of the storefront outside the cart: the settings every page is  *)
(* painted from, the pages that load something by their address, and the   *)
(* cabinet's sign-in, sign-up and account pages.                           *)
(*                                                                         *)
(* A request is answered in two steps, Serve at the server and Arrive in   *)
(* the tab, and requests overlap.  A component that is left hears nothing  *)
(* any more, but a goto in its code still moves the tab.  What other tabs  *)
(* of the browser and the operator do to the session is Elsewhere.         *)
(***************************************************************************)
EXTENDS Naturals, FiniteSets

CONSTANTS Names,       \* slugs of products, and of pages
          Customers, Nobody,
          ListPages, FirstPage,  \* pages of the product list
          MaxMoves, MaxSwitches, MaxElsewhere

ASSUME ShopPagesAssumption ==
  /\ Names # {} /\ Nobody \notin Customers
  /\ FirstPage \in ListPages
  /\ MaxMoves \in Nat /\ MaxSwitches \in Nat /\ MaxElsewhere \in Nat

VARIABLES
  cabinet,   \* the operator's switch
  session,   \* whose session the browser's cookie is of
  cache,     \* the copy of the settings in sessionStorage
  settings,  \* the settings the tab is painted from
  covered,   \* the layout's overlay
  at, body,  \* the address, and the state of its page
  flight,    \* requests not yet answered, or answered and on their way
  moves, switches, elsewhere,  \* bounds
  wasOn, wasOff  \* history: the switch since the document, the page, was opened

server == <<cabinet, switches>>
layout == <<cache, settings, covered>>
vars == <<server, session, elsewhere, layout, at, body, flight, moves, wasOn, wasOff>>
-----------------------------------------------------------------------------
\* A copy of the settings: what it says of the cabinet.
Copies == {"none", "unsaid", "on", "off"}
WithCabinet(s) == s        \* mutant: the switch is cached with the rest
WithoutCabinet(s) == "unsaid"

Named == {"product", "content"}
Pages == [kind: Named, name: Names]
         \cup [kind: {"home", "signin", "signup", "account"}, name: {"-"}]
PageAt(k) == [kind |-> k, name |-> "-"]

Body == [loading: BOOLEAN,     \* the page waits for what it shows
         number: ListPages,  \* home: the page of the list
         shown: Names \cup ListPages \cup {"-"},
         missing: BOOLEAN,     \* nothing is there, or it failed to load
         available: {"unknown", "yes", "no"},  \* is there a cabinet
         busy: BOOLEAN,        \* a form or the sign-out button is waiting
         error: BOOLEAN,
         who: Customers \cup {Nobody},    \* account: the customer, and
         orders: Customers \cup {Nobody}] \* whose purchases are listed
Blank == [loading |-> TRUE, number |-> FirstPage, shown |-> "-", missing |-> FALSE,
          available |-> "unknown", busy |-> FALSE, error |-> FALSE,
          who |-> Nobody, orders |-> Nobody]

Answers == {"sent", "ok", "refused", "unknown customer", "no cabinet", "failed"}
Requests == [kind: {"settings", "home", "product", "content", "probe", "me",
                    "purchases", "signin", "signup", "signout"},
             of: Names \cup ListPages \cup Customers \cup {"-"},
             heard: BOOLEAN,   \* its component is still there
             answer: Answers,
             says: Customers \cup {Nobody} \cup Copies]
Request(k, x) == [kind |-> k, of |-> x, heard |-> TRUE, answer |-> "sent", says |-> Nobody]

TypeOK ==
  /\ cabinet \in BOOLEAN /\ session \in Customers \cup {Nobody}
  /\ cache \in Copies /\ settings \in Copies /\ covered \in BOOLEAN
  /\ at \in Pages /\ body \in Body /\ flight \subseteq Requests
  /\ moves \in 0..MaxMoves /\ switches \in 0..MaxSwitches
  /\ elsewhere \in 0..MaxElsewhere
  /\ wasOn \in BOOLEAN /\ wasOff \in BOOLEAN

\* What a page asks for when it is shown.
Asks(p) ==
  CASE p.kind \in Named   -> {Request(p.kind, p.name)}
    [] p.kind = "home"    -> {Request("home", FirstPage)}
    [] p.kind = "account" -> {Request("me", "-")}
    [] OTHER              -> {Request("probe", "-")}

Init ==
  /\ cabinet \in BOOLEAN /\ session = Nobody
  /\ cache = "none" /\ settings = "none" /\ covered = TRUE
  /\ at = PageAt("home") /\ body = Blank
  /\ flight = {Request("settings", "-")} \cup Asks(at)
  /\ moves = 0 /\ switches = 0 /\ elsewhere = 0
  /\ wasOn = cabinet /\ wasOff = ~cabinet
-----------------------------------------------------------------------------
(* The operator's switch; another tab of the browser signs in or out, or   *)
(* the session is revoked.                                                 *)
Switch ==
  /\ switches < MaxSwitches /\ switches' = switches + 1
  /\ cabinet' = ~cabinet
  /\ wasOn' = TRUE /\ wasOff' = TRUE
  /\ UNCHANGED <<session, elsewhere, layout, at, body, flight, moves>>
Elsewhere ==
  /\ elsewhere < MaxElsewhere /\ elsewhere' = elsewhere + 1
  /\ session' \in (Customers \cup {Nobody}) \ {session}
  /\ UNCHANGED <<server, layout, at, body, flight, moves, wasOn, wasOff>>
-----------------------------------------------------------------------------
(* Moving about.  A page of the same kind is the same component with       *)
(* another address: its effect starts over, and it still hears the answers *)
(* of the address before.                                                  *)
Stays(r, p) == r.kind = "settings" \/ (r.heard /\ r.kind = p.kind /\ at.kind = p.kind)
Matters(r) == r.kind \in {"me", "signin", "signup", "signout"}
Goto(p, others) ==
  /\ at' = p
  /\ body' = Blank
  /\ flight' = {r \in others : Stays(r, p)}
               \cup {[r EXCEPT !.heard = FALSE] : r \in {o \in others : Matters(o) /\ ~Stays(o, p)}}
               \cup Asks(p)
  /\ wasOff' = ~cabinet

\* The links, and the back and forward buttons, which no overlay covers.
Visit(p) ==
  /\ moves < MaxMoves /\ moves' = moves + 1
  /\ p # at
  /\ Goto(p, flight)
  /\ UNCHANGED <<server, session, elsewhere, layout, wasOn>>

\* A document is loaded: the layout paints the cached copy, if it has one
\* that has not expired, and asks for the settings all the same.
LoadFromCache == IF cache = "none" THEN {"none"} ELSE {cache, "none"}
Load(p) ==
  /\ moves < MaxMoves /\ moves' = moves + 1
  /\ at' = p /\ body' = Blank
  /\ \E copy \in LoadFromCache :
       /\ settings' = copy
       /\ covered' = (copy = "none")
       /\ flight' = {Request("settings", "-")} \cup Asks(p)
  /\ wasOn' = cabinet /\ wasOff' = ~cabinet
  /\ UNCHANGED <<server, session, elsewhere, cache>>

\* The list of products is paged by buttons it shows only once it is loaded.
HandlePageChange(n) ==
  /\ at.kind = "home" /\ ~body.loading /\ ~body.missing
  /\ n # body.number
  /\ moves < MaxMoves /\ moves' = moves + 1
  /\ body' = [body EXCEPT !.loading = TRUE, !.number = n]
  /\ flight' = flight \cup {Request("home", n)}
  /\ UNCHANGED <<server, session, elsewhere, layout, at, wasOn, wasOff>>
-----------------------------------------------------------------------------
(* The cabinet's forms.                                                    *)
Send(r) ==
  /\ moves < MaxMoves /\ moves' = moves + 1
  /\ body' = [body EXCEPT !.busy = TRUE, !.error = FALSE]
  /\ flight' = flight \cup {r}
  /\ UNCHANGED <<server, session, elsewhere, layout, at, wasOn, wasOff>>

SignIn(c) ==
  /\ at.kind = "signin" /\ body.available = "yes" /\ ~body.busy
  /\ Send(Request("signin", c))
SignUp ==
  /\ at.kind = "signup" /\ body.available = "yes" /\ ~body.busy
  /\ \/ Send(Request("signup", "-"))
     \/ \* an address or password the form refuses by itself
        /\ ~body.error /\ body' = [body EXCEPT !.error = TRUE]
        /\ UNCHANGED <<server, session, elsewhere, layout, at, flight, moves, wasOn, wasOff>>
SignOut ==
  /\ at.kind = "account" /\ ~body.loading /\ body.who # Nobody /\ ~body.missing
  /\ ~body.busy
  /\ Send(Request("signout", "-"))
-----------------------------------------------------------------------------
(* The server, or the network.  While the cabinet is off its endpoints     *)
(* answer 404; a request without a session is answered 401.                *)
Guarded == {"probe", "me", "purchases", "signout"}
Result(r) ==
  CASE r.kind \in {"probe", "me", "purchases", "signin", "signup", "signout"} /\ ~cabinet
              -> {"no cabinet"}
    [] r.kind \in Guarded /\ session = Nobody -> {"unknown customer"}
    [] r.kind \in {"signin", "signup", "product", "content"} -> {"ok", "refused"}
    [] OTHER -> {"ok"}

Served(r, a) ==
  [r EXCEPT !.answer = a,
            !.says = IF a # "ok" THEN @
                     ELSE IF r.kind = "settings" THEN IF cabinet THEN "on" ELSE "off"
                     ELSE IF r.kind \in Guarded THEN session ELSE @]
Serve(r) ==
  /\ r \in flight /\ r.answer = "sent"
  /\ \/ \E a \in Result(r) :
          /\ flight' = (flight \ {r}) \cup {Served(r, a)}
          /\ session' = IF a = "ok" /\ r.kind = "signin" THEN r.of
                        ELSE IF a = "ok" /\ r.kind = "signout" THEN Nobody
                        ELSE session
     \/ \* the request fails, or its answer is lost after it was served
        /\ flight' = (flight \ {r}) \cup {Served(r, "failed")}
        /\ session' \in IF r.kind = "signout" /\ cabinet THEN {session, Nobody} ELSE {session}
  /\ UNCHANGED <<server, elsewhere, layout, at, body, moves, wasOn, wasOff>>
-----------------------------------------------------------------------------
(* The answers.                                                            *)
Answered(r, kinds) == r \in flight /\ r.answer # "sent" /\ r.kind \in kinds
Rest(r) == flight \ {r}
\* The page goes on with what an answer changes of it, and asks for more.
Becomes(r, b, more) ==
  /\ body' = IF r.heard THEN b ELSE body
  /\ flight' = Rest(r) \cup (IF r.heard THEN more ELSE {})
  /\ UNCHANGED <<server, session, elsewhere, layout, at, moves, wasOn, wasOff>>
\* A goto to the address the tab is at keeps the component as it is.
MovesTo(r, p) ==
  /\ \/ p # at /\ Goto(p, Rest(r))
     \/ p = at /\ flight' = Rest(r) /\ UNCHANGED <<at, body, wasOff>>
  /\ UNCHANGED <<server, session, elsewhere, layout, moves, wasOn>>

\* The live copy replaces the cached one; a failure leaves it.
SettingsArrive(r) ==
  /\ Answered(r, {"settings"})
  /\ flight' = Rest(r) /\ covered' = FALSE
  /\ IF r.answer = "ok"
     THEN settings' = r.says /\ cache' = WithoutCabinet(r.says)
     ELSE UNCHANGED <<settings, cache>>
  /\ UNCHANGED <<server, session, elsewhere, at, body, moves, wasOn, wasOff>>

\* Of the list and the product page, the newest request is heard alone.
AnyAnswer(r) == TRUE          \* mutant: the guard is gone
Newest(r) == r.of = IF r.kind = "home" THEN body.number ELSE at.name
Arrived(r) ==
  LET b == [body EXCEPT !.loading = FALSE] IN
  IF r.answer = "ok" THEN [b EXCEPT !.shown = r.of] ELSE [b EXCEPT !.missing = TRUE]
LoadProducts(r) ==
  Answered(r, {"home"}) /\ Becomes(r, IF Newest(r) THEN Arrived(r) ELSE body, {})
LoadProduct(r) ==
  Answered(r, {"product"}) /\ Becomes(r, IF Newest(r) THEN Arrived(r) ELSE body, {})
\* A content page takes any answer.
LoadPage(r) == Answered(r, {"content"}) /\ Becomes(r, Arrived(r), {})

SaysNoCabinet(r) == r.answer = "no cabinet"
CabinetAvailable(r) ==
  /\ Answered(r, {"probe"})
  /\ Becomes(r, [body EXCEPT !.available = IF SaysNoCabinet(r) THEN "no" ELSE "yes",
                             !.loading = FALSE], {})

\* The account page: who is asking, then what they have bought.
Me(r) ==
  /\ Answered(r, {"me"})
  /\ IF r.answer = "unknown customer" THEN MovesTo(r, PageAt("signin"))
     ELSE IF r.answer = "ok"
     THEN Becomes(r, [body EXCEPT !.who = r.says], {Request("purchases", "-")})
     ELSE Becomes(r, [body EXCEPT !.loading = FALSE,
                                  !.available = IF SaysNoCabinet(r) THEN "no" ELSE @,
                                  !.missing = ~SaysNoCabinet(r)], {})
Purchases(r) ==
  /\ Answered(r, {"purchases"})
  /\ Becomes(r, IF r.answer = "ok"
                THEN [body EXCEPT !.loading = FALSE, !.orders = r.says]
                ELSE [body EXCEPT !.loading = FALSE, !.missing = TRUE], {})

\* Mutant: the address is taken relative to the one the tab is at.
RelativePage(r) == [at EXCEPT !.kind = IF r.kind = "signin" THEN "account" ELSE "signin"]
NextPage(r) == PageAt(CASE r.kind = "signin" -> "account" [] r.kind = "signup" -> "signin"
                        [] OTHER -> "home")
StaysBusy(r) == [body EXCEPT !.error = TRUE]  \* mutant
FormFails(r) == [body EXCEPT !.busy = FALSE, !.error = TRUE]
FormAnswer(r) ==
  /\ Answered(r, {"signin", "signup", "signout"})
  /\ IF r.answer = "ok" THEN MovesTo(r, NextPage(r)) ELSE Becomes(r, FormFails(r), {})
-----------------------------------------------------------------------------
Arrive(r) ==
  \/ SettingsArrive(r) \/ LoadProducts(r) \/ LoadProduct(r) \/ LoadPage(r)
  \/ CabinetAvailable(r) \/ Me(r) \/ Purchases(r) \/ FormAnswer(r)
Buyer == \/ \E p \in Pages : Visit(p) \/ Load(p)
         \/ \E n \in ListPages : HandlePageChange(n)
         \/ \E c \in Customers : SignIn(c)
         \/ SignUp \/ SignOut
Network == \E r \in flight : Serve(r) \/ Arrive(r)
Next == Switch \/ Elsewhere \/ Buyer \/ Network
Spec == Init /\ [][Next]_vars /\ WF_vars(Network)
-----------------------------------------------------------------------------
(* The header offers the cabinet only if there was one at some moment      *)
(* since this document was loaded: a cached copy never answers for it.  A  *)
(* buyer is told that there is none only if there was none at some moment  *)
(* since the page was opened: a failed request is no such word.            *)
CabinetIsSaid ==
  /\ settings = "on" => wasOn
  /\ body.available = "no" => wasOff

(* The product page shows the product of its address, whatever order the   *)
(* answers come in.                                                        *)
ProductIsOfTheAddress ==
  at.kind = "product" /\ ~body.loading /\ ~body.missing => body.shown = at.name

(* Every page that loads shows something in the end, and a form that was   *)
(* sent, or the button to sign out, can be used again or is left.          *)
PagesSettle == []<>(~body.loading /\ ~body.busy /\ ~covered)

(* A content page shows the page of its address.  The page breaks this: it *)
(* does not guard against a late answer, as the product page does.         *)
ContentIsOfTheAddress ==
  at.kind = "content" /\ ~body.loading /\ ~body.missing => body.shown = at.name

(* "A buyer whose sign-out failed is still signed in."  The page breaks    *)
(* this when the answer to a sign-out is lost.                             *)
FailedSignOutIsIn ==
  at.kind = "account" /\ body.error => session # Nobody
=============================================================================
