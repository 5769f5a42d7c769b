----------------------------- MODULE Storefront -----------------------------
(***************************************************************************)
(* The buyer's side of a sale: product pages, the cart kept in the browser *)
(* and the cart page, together with the two handlers of the server that    *)
(* turn a cart into an order.  Several tabs of one browser run at once:    *)
(* each has a cart in memory, all share one copy in localStorage.          *)
(*                                                                         *)
(* A cart is a line per item and the order of the lines: before holds the  *)
(* pairs of items whose first stands above the second.  A line of no units *)
(* is not in the cart.  An item is a product, or a variant of one.         *)
(***************************************************************************)
EXTENDS Naturals, FiniteSets

CONSTANTS Tabs, Products,
          Items,        \* what a line can be of
          ProductOf,    \* the product an item belongs to
          Variants,     \* the items that are variants
          Files,        \* the items that are downloads of one file
          Methods,      \* the payment systems the shop has switched on
          Portone,      \* the one of them that is paid in a window of the page
          NoMethod,     \* no system chosen
          Calls,        \* checkouts, each used once
          FirstPrice, FirstStock, \* the catalogue at the start
          MaxPrice, MaxQuantity, MaxEdits, MaxWrites

ASSUME StorefrontAssumption ==
  /\ Tabs # {} /\ Items # {} /\ IsFiniteSet(Items)
  /\ ProductOf \in [Items -> Products]
  /\ Variants \subseteq Items /\ Files \subseteq Items
  /\ NoMethod \notin Methods /\ Portone # NoMethod
  /\ FirstPrice \in [Items -> 0..MaxPrice] /\ FirstStock \in [Items -> 0..MaxQuantity]
  /\ MaxPrice \in Nat /\ MaxQuantity \in Nat \ {0}
  /\ MaxEdits \in Nat /\ MaxWrites \in Nat

VARIABLES
  price, stock,     \* of each item, as the catalogue has it
  state, selling,   \* of each product; the variants on sale
  split,            \* the products sold by variant
  edits,            \* bound on the operator's edits
  stored,           \* the cart in localStorage
  cart,             \* the cart in each tab's memory
  page, view,       \* where a tab is; the item and price its product page holds
  writes,           \* bound on the buyer's changes of the cart
  form,             \* the state of a tab's cart page
  call, ordered, unit, charged, \* checkouts: the request, the orders made of
                                \* them, their prices, the lines charged for
  refused, strayed  \* history: items refused so far; an answer met another list

catalogue == <<price, stock, state, selling, split, edits>>
server == <<ordered, unit, charged>>
history == <<refused, strayed>>
vars == <<catalogue, server, history, writes, stored, cart, page, view, form, call>>
-----------------------------------------------------------------------------
Prices == 0..MaxPrice
Line == [amount: Prices, qty: 0..MaxQuantity, gone: BOOLEAN]
Cart == [line: [Items -> Line], before: SUBSET (Items \X Items)]
NoLine == [amount |-> 0, qty |-> 0, gone |-> FALSE]
EmptyCart == [line |-> [i \in Items |-> NoLine], before |-> {}]

InCart(c) == {i \in Items : c.line[i].qty > 0}
Above(c, i) == {j \in Items : <<j, i>> \in c.before}
Free(c) == \A i \in InCart(c) : c.line[i].amount = 0
Without(c, gone) ==
  [line |-> [i \in Items |-> IF i \in gone THEN NoLine ELSE c.line[i]],
   before |-> {r \in c.before : r[1] \notin gone /\ r[2] \notin gone}]
ChargesStock(i) == i \notin Files
OrderableQuantity(i, q) == IF ChargesStock(i) THEN q ELSE 1
SetQty(c, i, q) == [c EXCEPT !.line[i].qty = OrderableQuantity(i, q)]

\* Mutant: the line grows past every bound.
AddPastTheBound(c, i, amount, q) ==
  [line |-> [c.line EXCEPT ![i] = [amount |-> amount, qty |-> c.line[i].qty + q + 1,
                                    gone |-> FALSE]],
   before |-> c.before \cup (InCart(c) \X {i})]
\* cartStore.add: a line that is there grows, any other is appended.
Add(c, i, amount, q) ==
  IF i \in InCart(c)
  THEN SetQty(c, i, IF c.line[i].qty + q > MaxQuantity THEN MaxQuantity
                                                       ELSE c.line[i].qty + q)
  ELSE [line |-> [c.line EXCEPT ![i] =
                    [amount |-> amount, qty |-> OrderableQuantity(i, q), gone |-> FALSE]],
        before |-> c.before \cup (InCart(c) \X {i})]

\* cartStore.remove takes a product's id, and every line of that product.
Remove(c, i) ==
  IF i \in Variants THEN Without(c, {i})
  ELSE Without(c, {j \in Items : ProductOf[j] = ProductOf[i]})
-----------------------------------------------------------------------------
Form == [provider: Methods \cup {NoMethod}, offered: SUBSET Methods,
         loading: {"no", "methods", "config"}, attempted: BOOLEAN,
         configured: BOOLEAN, overlay: {"none", "busy", "error"}, modal: BOOLEAN]
BlankForm == [provider |-> NoMethod, offered |-> {}, loading |-> "no",
              attempted |-> FALSE, configured |-> FALSE,
              overlay |-> "none", modal |-> FALSE]

\* Mutant: a cart that has become free keeps the payment system chosen.
SettleKeepsProvider(c, f) ==
  IF ~Free(c) /\ ~f.attempted /\ f.loading = "no"
  THEN [f EXCEPT !.attempted = TRUE, !.loading = "methods"] ELSE f
\* The page's effect, which runs whenever the cart or the flags have changed.
Settle(c, f) ==
  IF Free(c) THEN [f EXCEPT !.provider = NoMethod, !.attempted = FALSE]
  ELSE IF ~f.attempted /\ f.loading = "no"
  THEN [f EXCEPT !.attempted = TRUE, !.loading = "methods"]
  ELSE f

Covered(t) == page[t] = "cart" /\ (form[t].overlay # "none" \/ form[t].modal)
Clickable(t) == page[t] \in {"product", "cart"} /\ ~Covered(t)

\* A write of the cart reaches the memory of the tab, localStorage, and the
\* effect of its cart page, if it shows one.
Write(t, c) ==
  /\ writes < MaxWrites /\ writes' = writes + 1
  /\ cart' = [cart EXCEPT ![t] = c]
  /\ stored' = c
  /\ form' = [form EXCEPT ![t] = IF page[t] = "cart" THEN Settle(c, @) ELSE @]

CallSteps == {"new", "posted", "listed", "refused", "failed", "ordered",
              "charged", "over"}
Call == [tab: Tabs, via: Methods \cup {NoMethod}, sent: Cart, step: CallSteps, deaf: BOOLEAN,
         public: SUBSET Products, unfit: SUBSET Items, dearer: SUBSET Items]
BlankCall == [tab |-> CHOOSE t \in Tabs : TRUE, via |-> NoMethod,
              sent |-> EmptyCart, step |-> "new", deaf |-> FALSE, public |-> {}, unfit |-> {},
              dearer |-> {}]

TypeOK ==
  /\ price \in [Items -> Prices] /\ stock \in [Items -> 0..MaxQuantity]
  /\ state \in [Products -> {"active", "inactive", "deleted"}]
  /\ selling \subseteq Variants /\ split \subseteq Products
  /\ edits \in 0..MaxEdits /\ writes \in 0..MaxWrites
  /\ stored \in Cart /\ cart \in [Tabs -> Cart]
  /\ page \in [Tabs -> {"product", "cart", "provider", "success", "cancel"}]
  /\ view \in [Tabs -> [item: Items, amount: Prices, stock: 0..MaxQuantity]]
  /\ form \in [Tabs -> Form]
  /\ call \in [Calls -> Call] /\ ordered \subseteq Calls
  /\ unit \in [Calls -> [Items -> Prices]] /\ charged \in [Calls -> SUBSET Items]
  /\ refused \subseteq Items /\ strayed \in BOOLEAN

Listed(i) == state[ProductOf[i]] = "active"
             /\ (i \in Variants <=> ProductOf[i] \in split)
             /\ (i \in Variants => i \in selling)
NoPage == [item |-> CHOOSE i \in Items : TRUE, amount |-> 0, stock |-> 0]
Page(i) == [item |-> i, amount |-> price[i], stock |-> stock[i]]

Init ==
  /\ price = FirstPrice /\ stock = FirstStock
  /\ state = [p \in Products |-> "active"]
  /\ selling = Variants
  /\ split \in SUBSET {ProductOf[i] : i \in Variants}
  /\ edits = 0 /\ writes = 0
  /\ stored = EmptyCart /\ cart = [t \in Tabs |-> EmptyCart]
  /\ page = [t \in Tabs |-> "product"]
  /\ \E i \in Items : Listed(i) /\ view = [t \in Tabs |-> Page(i)]
  /\ form = [t \in Tabs |-> BlankForm]
  /\ call = [c \in Calls |-> BlankCall] /\ ordered = {}
  /\ unit = [c \in Calls |-> [i \in Items |-> 0]] /\ charged = [c \in Calls |-> {}]
  /\ refused = {} /\ strayed = FALSE
-----------------------------------------------------------------------------
(* The operator edits the catalogue.  A save writes a product's variants    *)
(* anew, under new ids: to a cart, a variant so lost is one off sale.  That *)
(* it may also stay, or return under its id, is more than the code allows. *)
Edit == edits < MaxEdits /\ edits' = edits + 1
Shop == <<server, history, writes, stored, cart, page, view, form, call>>

Reprice(i, x) ==
  /\ Edit /\ x # price[i] /\ price' = [price EXCEPT ![i] = x]
  /\ UNCHANGED <<stock, state, selling, split, Shop>>
Restock(i, n) ==
  /\ Edit /\ n # stock[i] /\ stock' = [stock EXCEPT ![i] = n]
  /\ UNCHANGED <<price, state, selling, split, Shop>>
SwitchProduct(p) ==
  /\ Edit /\ state[p] # "deleted"
  /\ \E s \in {"active", "inactive", "deleted"} \ {state[p]} :
       state' = [state EXCEPT ![p] = s]
  /\ UNCHANGED <<price, stock, selling, split, Shop>>
SwitchVariant(i) ==
  /\ Edit /\ i \in Variants
  /\ selling' = IF i \in selling THEN selling \ {i} ELSE selling \cup {i}
  /\ UNCHANGED <<price, stock, state, split, Shop>>
SplitProduct(p) ==
  /\ Edit /\ split' = IF p \in split THEN split \ {p} ELSE split \cup {p}
  /\ \E i \in Variants : ProductOf[i] = p
  /\ UNCHANGED <<price, stock, state, selling, Shop>>
-----------------------------------------------------------------------------
(* Product pages.  A page keeps the product as it was fetched.             *)
OpenProduct(t, i) ==
  /\ Clickable(t) \/ page[t] \in {"success", "cancel"}
  /\ Listed(i)
  /\ page' = [page EXCEPT ![t] = "product"]
  /\ view' = [view EXCEPT ![t] = Page(i)]
  /\ form' = [form EXCEPT ![t] = BlankForm]
  /\ UNCHANGED <<writes, catalogue, server, history, stored, cart, call>>

CanAddToCart(v) == v.item \in Variants => ~ChargesStock(v.item) \/ v.stock > 0

ToggleCartItem(t, q) ==
  LET v == view[t] IN
  /\ page[t] = "product" /\ CanAddToCart(v)
  /\ Write(t, IF v.item \in InCart(cart[t]) THEN Remove(cart[t], v.item)
              ELSE Add(cart[t], v.item, v.amount, q))
  /\ UNCHANGED <<catalogue, server, history, page, view, call>>

\* The lines drawn: all of them, or those of the product shown.
OnPage(t, i) == page[t] = "cart" \/ ProductOf[view[t].item] = ProductOf[i]

\* The product page has a stepper of its own.
OfThePage(t, i) == page[t] = "product" /\ view[t].item = i

\* The steppers of the product page and of the cart's lines.
SetQuantity(t, i, q) ==
  /\ Clickable(t) /\ i \in InCart(cart[t]) /\ ChargesStock(i)
  /\ q # cart[t].line[i].qty
  /\ (OnPage(t, i) /\ ~cart[t].line[i].gone) \/ OfThePage(t, i)
  /\ Write(t, SetQty(cart[t], i, q))
  /\ UNCHANGED <<catalogue, server, history, page, view, call>>

\* The lines of the cart page, and those a product page lists of its product.
RemoveLine(t, i) ==
  /\ Clickable(t) /\ i \in InCart(cart[t])
  /\ OnPage(t, i)
  /\ Write(t, Remove(cart[t], i))
  /\ UNCHANGED <<catalogue, server, history, page, view, call>>
-----------------------------------------------------------------------------
(* The cart page.                                                          *)
OpenCart(t) ==
  /\ page[t] \in {"product", "success", "cancel"}
  /\ page' = [page EXCEPT ![t] = "cart"]
  /\ cart' = [cart EXCEPT ![t] = stored]
  /\ form' = [form EXCEPT ![t] = Settle(stored, BlankForm)]
  /\ view' = [view EXCEPT ![t] = NoPage]
  /\ UNCHANGED <<writes, catalogue, server, history, stored, call>>

\* loadPaymentMethods: the systems, then the keys of PortOne's window.
MethodsListed(f) ==
  [f EXCEPT !.loading = IF Portone \in Methods THEN "config" ELSE "no",
            !.offered = Methods, !.provider = NoMethod]
MethodsMissing(f) == [f EXCEPT !.loading = "no", !.overlay = "error"]
MethodsAnswer(t, ok) ==
  /\ page[t] = "cart" /\ form[t].loading = "methods"
  /\ form' = [form EXCEPT ![t] =
       Settle(cart[t], IF ok THEN MethodsListed(@) ELSE MethodsMissing(@))]
  /\ UNCHANGED <<writes, catalogue, server, history, stored, cart, page, view, call>>
ConfigKnown(f, ok) == [f EXCEPT !.loading = "no", !.configured = f.configured \/ ok]
ConfigAnswer(t, ok) ==
  /\ page[t] = "cart" /\ form[t].loading = "config"
  /\ form' = [form EXCEPT ![t] = Settle(cart[t], ConfigKnown(@, ok))]
  /\ UNCHANGED <<writes, catalogue, server, history, stored, cart, page, view, call>>

ChooseProvider(t, m) ==
  /\ page[t] = "cart" /\ Clickable(t) /\ ~Free(cart[t])
  /\ m \in form[t].offered \ {form[t].provider}
  /\ form' = [form EXCEPT ![t].provider = m]
  /\ UNCHANGED <<writes, catalogue, server, history, stored, cart, page, view, call>>

CloseOverlay(t) ==
  /\ page[t] = "cart" /\ (form[t].overlay = "error" \/ form[t].modal)
  /\ form' = [form EXCEPT ![t].overlay = IF @ = "error" THEN "none" ELSE @,
                          ![t].modal = FALSE]
  /\ UNCHANGED <<writes, catalogue, server, history, stored, cart, page, view, call>>

\* checkOut.  Nothing but the overlay, which only PortOne shows, keeps the
\* buyer from a second click.  A free cart goes to the dummy provider, here
\* NoMethod.  PortOne without its keys fails before anything is sent.
CheckOut(t, c) ==
  LET via == form[t].provider IN
  /\ page[t] = "cart" /\ Clickable(t) /\ InCart(cart[t]) # {}
  /\ Free(cart[t]) \/ via # NoMethod
  /\ call[c].step = "new"
  /\ IF via = Portone /\ ~form[t].configured
     THEN /\ form' = [form EXCEPT ![t].overlay = "error"]
          /\ UNCHANGED call
     ELSE /\ form' = [form EXCEPT ![t].overlay = IF via = Portone THEN "busy" ELSE @]
          /\ call' = [call EXCEPT ![c] = [BlankCall EXCEPT !.tab = t, !.via = via,
                                          !.sent = cart[t], !.step = "posted"]]
  /\ UNCHANGED <<writes, catalogue, server, history, stored, cart, page, view>>
-----------------------------------------------------------------------------
(* The server.  Payment reads the products on sale, then validates with a  *)
(* read of its own; CreateCart, which PortOne's checkout calls, only       *)
(* validates.  The prices an order is made at are those of the validation. *)
ListPublic(c) ==
  /\ call[c].step = "posted" /\ call[c].via # Portone
  /\ call' = [call EXCEPT ![c].step = "listed",
                          ![c].public = {p \in Products : state[p] = "active"}]
  /\ UNCHANGED <<writes, catalogue, server, history, stored, cart, page, view, form>>

Orderable(i) == IF ChargesStock(i) THEN stock[i] ELSE 1
Sellable(i) ==
  /\ state[ProductOf[i]] # "deleted"
  /\ IF i \in Variants THEN i \in selling
     ELSE ProductOf[i] \notin split /\ state[ProductOf[i]] = "active"
NeverDearer(k) == {}     \* mutant: the price is not compared
\* A price is compared where one was sent: the standard checkout sends none,
\* and a price of zero is left out of the request.
Dearer(k) == {i \in InCart(k.sent) : Sellable(i) /\ k.via = Portone
                /\ k.sent.line[i].amount > 0 /\ k.sent.line[i].amount # price[i]}
Unfit(k) == {i \in InCart(k.sent) : ~Sellable(i)
               \/ (i \notin Dearer(k) /\ k.sent.line[i].qty > Orderable(i))}

\* The lines the order is charged for.
Charged(k) == IF k.via = Portone THEN InCart(k.sent)
              ELSE {i \in InCart(k.sent) : ProductOf[i] \in k.public}

Validate(c) ==
  LET k == call[c] IN
  /\ k.step = IF k.via = Portone THEN "posted" ELSE "listed"
  /\ IF Unfit(k) \cup Dearer(k) # {}
     THEN /\ call' = [call EXCEPT ![c].step = "refused", ![c].unfit = Unfit(k),
                                  ![c].dearer = Dearer(k)]
          /\ refused' = refused \cup Unfit(k)
          /\ unit' = [unit EXCEPT ![c] = price]
          /\ UNCHANGED <<ordered, charged>>
     ELSE \/ /\ call' = [call EXCEPT ![c].step = "failed"]
             /\ UNCHANGED <<server, refused>>
          \/ \* the cart is stored; what follows it, or the answer, may fail
             /\ k.via = NoMethod => \A i \in Charged(k) : price[i] = 0
             /\ \E s \in {"ordered", "failed"} : call' = [call EXCEPT ![c].step = s]
             /\ ordered' = ordered \cup {c}
             /\ unit' = [unit EXCEPT ![c] = price]
             /\ charged' = [charged EXCEPT ![c] = Charged(k)]
             /\ UNCHANGED refused
  /\ UNCHANGED <<writes, catalogue, strayed, stored, cart, page, view, form>>
-----------------------------------------------------------------------------
(* The answers.  The server names lines by their place in the cart it was  *)
(* sent; the page looks the places up in the cart it has now.  A tab that  *)
(* has left for the provider hears no answer.                              *)
Hears(c) == ~call[c].deaf
\* Mutant: places counted from one on one side.
NextPlace(now, i, sent, j) ==
  j \in InCart(sent) /\ Cardinality(Above(sent, j)) = Cardinality(Above(now, i)) + 1
SamePlace(now, i, sent, j) ==
  j \in InCart(sent) /\ Cardinality(Above(sent, j)) = Cardinality(Above(now, i))
Corrected(now, c, i) ==
  LET k == call[c]
      At(s) == \E j \in s : SamePlace(now, i, k.sent, j) IN
  IF now.line[i].qty = 0 THEN now.line[i]
  ELSE IF At(k.unfit) THEN [now.line[i] EXCEPT !.gone = TRUE]
  ELSE IF At(k.dearer)
  THEN [now.line[i] EXCEPT !.amount =
          unit[c][CHOOSE j \in k.dearer : SamePlace(now, i, k.sent, j)]]
  ELSE now.line[i]
OnCart(t, f) == IF page[t] = "cart" THEN f ELSE form[t]
\* The modal that lists the lines refused; PortOne's overlay gives way to it.
ShowRefusal(f, via) ==
  [f EXCEPT !.modal = TRUE, !.overlay = IF via = Portone THEN "none" ELSE f.overlay]
ShowError(f) == [f EXCEPT !.overlay = "error"]

HandleValidationErrors(c) ==
  LET t == call[c].tab
      now == cart[t]
      new == [now EXCEPT !.line = [i \in Items |-> Corrected(now, c, i)]] IN
  /\ call[c].step = "refused" /\ Hears(c)
  /\ cart' = [cart EXCEPT ![t] = new] /\ stored' = new
  /\ form' = [form EXCEPT ![t] = OnCart(t, Settle(new, ShowRefusal(@, call[c].via)))]
  /\ strayed' = (strayed \/ InCart(now) # InCart(call[c].sent)
                         \/ now.before # call[c].sent.before)
  /\ call' = [call EXCEPT ![c] = [BlankCall EXCEPT !.step = "over"]]
  /\ UNCHANGED <<writes, catalogue, server, refused, page, view>>

CheckoutFailed(c) ==
  /\ call[c].step = "failed" /\ Hears(c)
  /\ form' = [form EXCEPT ![call[c].tab] = OnCart(call[c].tab, ShowError(@))]
  /\ call' = [call EXCEPT ![c].step = "over"]
  /\ UNCHANGED <<writes, catalogue, server, history, stored, cart, page, view>>

\* The standard checkout leaves for the address the server answered with.
Redirect(c) ==
  /\ call[c].step = "ordered" /\ call[c].via # Portone /\ Hears(c)
  /\ page' = [page EXCEPT ![call[c].tab] = "provider"]
  /\ call' = [d \in Calls |->
       IF d = c THEN [call[c] EXCEPT !.step = "over"]
       ELSE [call[d] EXCEPT !.deaf = @ \/ (call[d].tab = call[c].tab /\ call[d].step # "new")]]
  /\ UNCHANGED <<writes, catalogue, server, history, stored, cart, view, form>>

\* The provider sends the buyer back: both pages of return empty the cart.
Emptied(t, p) ==
  /\ page' = [page EXCEPT ![t] = p]
  /\ cart' = [cart EXCEPT ![t] = EmptyCart] /\ stored' = EmptyCart
  /\ form' = [form EXCEPT ![t] = BlankForm]
  /\ UNCHANGED <<writes, catalogue, server, history, view, call>>
Success(t) == page[t] = "provider" /\ Emptied(t, "success")
Cancel(t) == page[t] = "provider" /\ Emptied(t, "cancel")
\* Or the buyer goes back alone, to a cart page restored or loaded anew.
PageShow(t) ==
  /\ page[t] = "provider"
  /\ page' = [page EXCEPT ![t] = "cart"]
  /\ cart' = [cart EXCEPT ![t] = stored]
  /\ \E f \in {BlankForm, form[t]} : form' = [form EXCEPT ![t] = Settle(stored, f)]
  /\ UNCHANGED <<writes, catalogue, server, history, stored, view, call>>

\* PortOne's window charges the total the page had when the button was clicked.
RequestPayment(c, ok) ==
  /\ call[c].step = "ordered" /\ call[c].via = Portone /\ Hears(c)
  /\ call' = [call EXCEPT ![c].step = IF ok THEN "charged" ELSE "failed"]
  /\ UNCHANGED <<writes, catalogue, server, history, stored, cart, page, view, form>>

\* The server agrees, and the page empties the cart and goes to the success page.
VerifyPayment(c, ok) ==
  LET t == call[c].tab IN
  /\ call[c].step = "charged" /\ Hears(c)
  /\ IF ok
     THEN /\ cart' = [cart EXCEPT ![t] = EmptyCart] /\ stored' = EmptyCart
          /\ page' = [page EXCEPT ![t] = "success"]
          /\ form' = [form EXCEPT ![t] = BlankForm]
     ELSE /\ form' = [form EXCEPT ![t] = OnCart(t, ShowError(@))]
          /\ UNCHANGED <<cart, stored, page>>
  /\ call' = [call EXCEPT ![c].step = "over"]
  /\ UNCHANGED <<writes, catalogue, server, history, view>>
-----------------------------------------------------------------------------
Operator ==
  \/ \E i \in Items : \/ \E x \in Prices : Reprice(i, x)
                      \/ \E n \in 0..MaxQuantity : Restock(i, n)
                      \/ SwitchVariant(i)
  \/ \E p \in Products : SwitchProduct(p) \/ SplitProduct(p)
Buyer(t) ==
  \/ \E i \in Items : \/ OpenProduct(t, i) \/ RemoveLine(t, i)
                      \/ \E q \in 1..MaxQuantity : SetQuantity(t, i, q)
  \/ \E q \in 1..MaxQuantity : ToggleCartItem(t, q)
  \/ OpenCart(t) \/ CloseOverlay(t) \/ Success(t) \/ Cancel(t) \/ PageShow(t)
  \/ \E m \in Methods : ChooseProvider(t, m)
  \/ \E c \in Calls : CheckOut(t, c)
Answer ==
  \/ \E t \in Tabs, ok \in BOOLEAN : MethodsAnswer(t, ok) \/ ConfigAnswer(t, ok)
  \/ \E c \in Calls :
       \/ ListPublic(c) \/ Validate(c) \/ HandleValidationErrors(c)
       \/ CheckoutFailed(c) \/ Redirect(c)
       \/ \E ok \in BOOLEAN : RequestPayment(c, ok) \/ VerifyPayment(c, ok)
Next == Operator \/ (\E t \in Tabs : Buyer(t)) \/ Answer
Spec == Init /\ [][Next]_vars
-----------------------------------------------------------------------------
(* A cart page never holds a payment system the shop does not offer, nor   *)
(* any for a cart that costs nothing (the radio buttons are then gone).    *)
ProviderIsOffered ==
  \A t \in Tabs : page[t] = "cart" /\ form[t].provider # NoMethod
                    => form[t].provider \in form[t].offered /\ ~Free(cart[t])

(* What PortOne's window takes is what the order was made at: the page     *)
(* sends its prices and the server refuses others.  A line shown as free   *)
(* is the exception, for its price is left out of the request.             *)
PortoneChargesTheOrder ==
  \A c \in Calls : call[c].step = "charged" =>
    /\ c \in ordered
    /\ \A i \in InCart(call[c].sent) :
         call[c].sent.line[i].amount \in {0, unit[c][i]}

(* A line is marked for deletion only if the server has refused its item,  *)
(* as long as no answer has met another list than the one that was sent.   *)
MarkedWereRefused ==
  \/ strayed
  \/ \A t \in Tabs : \A i \in Items : cart[t].line[i].gone => i \in refused

(* An order is charged for every line it holds.                            *)
EveryLineCharged == \A c \in ordered : charged[c] = InCart(call[c].sent)
=============================================================================
