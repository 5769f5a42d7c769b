-------------------------- MODULE StorefrontProofs --------------------------
(***************************************************************************)
(* Storefront for every catalogue, any number of tabs, checkouts, edits of *)
(* the operator and changes of the cart: the payment system of a cart page *)
(* is one the shop offers, PortOne's window takes what the order was made  *)
(* at, and a line is marked for deletion only if the server refused it.    *)
(*                                                                         *)
(* The last one rests on the places of lines: the server names a line by   *)
(* its place in the cart it was sent, so the lines of every cart must be   *)
(* ranked, and two lines of one rank must be one line.                     *)
(***************************************************************************)
EXTENDS Storefront, FiniteSetTheorems, TLAPS

\* The order of a cart's lines: it ranks the items in the cart and no others.
Ranked(c) ==
  /\ c.before \subseteq InCart(c) \X InCart(c)
  /\ \A i \in Items : <<i, i>> \notin c.before
  /\ \A i, j \in InCart(c) : i # j => <<i, j>> \in c.before \/ <<j, i>> \in c.before
  /\ \A i, j, k \in Items :
       <<i, j>> \in c.before /\ <<j, k>> \in c.before => <<i, k>> \in c.before

Good(c) == c \in Cart /\ Ranked(c)
Marked(c) == {i \in Items : c.line[i].gone}
-----------------------------------------------------------------------------
(* The operations on a cart keep it ranked, and none of them marks a line. *)

LEMMA EmptyGood == Good(EmptyCart) /\ Marked(EmptyCart) = {} /\ InCart(EmptyCart) = {}
<1>1. NoLine \in Line
  BY StorefrontAssumption DEF NoLine, Line, Prices
<1>2. EmptyCart \in Cart
  BY <1>1 DEF EmptyCart, Cart
<1>3. InCart(EmptyCart) = {} /\ Marked(EmptyCart) = {}
  BY DEF InCart, EmptyCart, NoLine, Marked
<1>4. Ranked(EmptyCart)
  BY <1>3 DEF Ranked, EmptyCart
<1> QED
  BY <1>2, <1>3, <1>4 DEF Good

LEMMA WithoutGood ==
  ASSUME NEW c, Good(c), NEW gone \in SUBSET Items
  PROVE  Good(Without(c, gone)) /\ Marked(Without(c, gone)) \subseteq Marked(c)
<1> DEFINE d == Without(c, gone)
<1>0. c \in Cart /\ Ranked(c)
  BY DEF Good
<1>1. NoLine \in Line
  BY StorefrontAssumption DEF NoLine, Line, Prices
<1>2. d \in Cart
  BY <1>0, <1>1 DEF Without, Cart
<1>3. /\ \A i \in Items : d.line[i] = IF i \in gone THEN NoLine ELSE c.line[i]
      /\ d.before = {r \in c.before : r[1] \notin gone /\ r[2] \notin gone}
  BY DEF Without
<1>4. InCart(d) = InCart(c) \ gone
  BY <1>3 DEF InCart, NoLine
<1>5. Marked(d) \subseteq Marked(c)
  BY <1>3 DEF Marked, NoLine
<1>6. Ranked(d)
  <2>1. d.before \subseteq InCart(d) \X InCart(d)
    BY <1>0, <1>3, <1>4 DEF Ranked
  <2>2. \A i, j \in Items :
          <<i, j>> \in d.before <=> <<i, j>> \in c.before /\ i \notin gone /\ j \notin gone
    BY <1>3
  <2>3. InCart(d) \subseteq Items
    BY DEF InCart
  <2> HIDE DEF d
  <2> QED
    BY <1>0, <1>4, <2>1, <2>2, <2>3 DEF Ranked
<1> QED
  BY <1>2, <1>5, <1>6 DEF Good

LEMMA SetQtyGood ==
  ASSUME NEW c, Good(c), NEW i \in InCart(c), NEW q \in 1..MaxQuantity
  PROVE  Good(SetQty(c, i, q)) /\ Marked(SetQty(c, i, q)) = Marked(c)
<1> DEFINE d == SetQty(c, i, q)
<1>0. c \in Cart /\ Ranked(c) /\ i \in Items
  BY DEF Good, InCart
<1>1. OrderableQuantity(i, q) \in 1..MaxQuantity
  BY StorefrontAssumption DEF OrderableQuantity
<1>2. /\ d = [line |-> [c.line EXCEPT ![i].qty = OrderableQuantity(i, q)],
              before |-> c.before]
      /\ c.line \in [Items -> Line]
  BY <1>0 DEF SetQty, Cart
<1>3. /\ [c.line EXCEPT ![i].qty = OrderableQuantity(i, q)] \in [Items -> Line]
      /\ \A j \in Items : j # i => d.line[j] = c.line[j]
      /\ d.line[i].qty = OrderableQuantity(i, q) /\ d.line[i].gone = c.line[i].gone
  BY <1>0, <1>1, <1>2 DEF Line
<1>4. d \in Cart /\ d.before = c.before
  BY <1>0, <1>2, <1>3 DEF Cart
<1>5. InCart(d) = InCart(c)
  BY <1>0, <1>1, <1>3 DEF InCart
<1>6. Marked(d) = Marked(c)
  BY <1>0, <1>3 DEF Marked
<1> QED
  BY <1>0, <1>4, <1>5, <1>6 DEF Good, Ranked

LEMMA AddGood ==
  ASSUME NEW c, Good(c), NEW i \in Items, NEW amount \in Prices,
         NEW q \in 1..MaxQuantity
  PROVE  Good(Add(c, i, amount, q)) /\ Marked(Add(c, i, amount, q)) \subseteq Marked(c)
<1>0. c \in Cart /\ Ranked(c)
  BY DEF Good
<1>1. CASE i \in InCart(c)
  <2> DEFINE n == IF c.line[i].qty + q > MaxQuantity THEN MaxQuantity
                                                     ELSE c.line[i].qty + q
  <2>1. c.line[i].qty \in 0..MaxQuantity
    BY <1>0 DEF Cart, Line
  <2>2. n \in 1..MaxQuantity
    BY <2>1, StorefrontAssumption
  <2>3. Add(c, i, amount, q) = SetQty(c, i, n)
    BY <1>1 DEF Add
  <2> QED
    BY <1>1, <2>2, <2>3, SetQtyGood
<1>2. CASE i \notin InCart(c)
  <2> DEFINE d == Add(c, i, amount, q)
             l == [amount |-> amount, qty |-> OrderableQuantity(i, q), gone |-> FALSE]
  <2>1. OrderableQuantity(i, q) \in 1..MaxQuantity
    BY StorefrontAssumption DEF OrderableQuantity
  <2>2. l \in Line
    BY <2>1 DEF Line
  <2>3. d = [line |-> [c.line EXCEPT ![i] = l], before |-> c.before \cup (InCart(c) \X {i})]
    BY <1>2 DEF Add
  <2>4. InCart(c) \subseteq Items
    BY DEF InCart
  <2>5. d \in Cart
    BY <1>0, <2>2, <2>3, <2>4 DEF Cart
  <2>6. /\ \A j \in Items : d.line[j] = IF j = i THEN l ELSE c.line[j]
        /\ d.before = c.before \cup (InCart(c) \X {i})
    BY <1>0, <2>3 DEF Cart
  <2>7. InCart(d) = InCart(c) \cup {i}
    BY <2>1, <2>6 DEF InCart
  <2>8. Marked(d) \subseteq Marked(c)
    BY <2>6 DEF Marked
  <2>9. Ranked(d)
    <3> HIDE DEF d, l
    <3>1. d.before \subseteq InCart(d) \X InCart(d)
      BY <1>0, <2>6, <2>7 DEF Ranked
    <3>2. \A j, k \in Items : <<j, k>> \in d.before <=>
             <<j, k>> \in c.before \/ (j \in InCart(c) /\ k = i)
      BY <2>6
    <3>3. \A j, k \in Items : <<j, k>> \in c.before => j \in InCart(c) /\ k \in InCart(c)
      BY <1>0 DEF Ranked
    <3>4. \A j \in Items : <<j, j>> \notin d.before
      BY <1>0, <1>2, <3>2 DEF Ranked
    <3>5. \A j, k \in InCart(d) : j # k => <<j, k>> \in d.before \/ <<k, j>> \in d.before
      BY <1>0, <2>4, <2>7, <3>2 DEF Ranked
    <3>6. \A j, k, m \in Items :
            <<j, k>> \in d.before /\ <<k, m>> \in d.before => <<j, m>> \in d.before
      BY <1>0, <1>2, <3>2, <3>3 DEF Ranked
    <3> QED
      BY <3>1, <3>4, <3>5, <3>6 DEF Ranked
  <2> QED
    BY <2>5, <2>8, <2>9 DEF Good
<1> QED
  BY <1>1, <1>2

LEMMA RemoveGood ==
  ASSUME NEW c, Good(c), NEW i \in Items
  PROVE  Good(Remove(c, i)) /\ Marked(Remove(c, i)) \subseteq Marked(c)
  BY WithoutGood DEF Remove

\* Two lines at one place of a ranked cart are one line.
LEMMA OnePlace ==
  ASSUME NEW c, Good(c), NEW i \in InCart(c), NEW j \in InCart(c),
         Cardinality(Above(c, i)) = Cardinality(Above(c, j))
  PROVE  i = j
<1>0. Ranked(c) /\ i \in Items /\ j \in Items
  BY DEF Good, InCart
<1>1. ASSUME NEW a \in Items, NEW b \in Items, <<a, b>> \in c.before,
             Cardinality(Above(c, a)) = Cardinality(Above(c, b))
      PROVE  FALSE
  <2>1. Above(c, a) \subseteq Above(c, b)
    BY <1>0, <1>1 DEF Above, Ranked
  <2>2. a \in Above(c, b) /\ a \notin Above(c, a)
    BY <1>0, <1>1 DEF Above, Ranked
  <2>3. IsFiniteSet(Above(c, b))
    BY StorefrontAssumption, FS_Subset DEF Above
  <2> QED
    BY <1>1, <2>1, <2>2, <2>3, FS_Subset
<1> QED
  BY <1>0, <1>1 DEF Ranked

-----------------------------------------------------------------------------
(* Type correctness, and the order of every cart there is.                 *)

CartsRanked ==
  /\ Ranked(stored)
  /\ \A t \in Tabs : Ranked(cart[t])
  /\ \A c \in Calls : Ranked(call[c].sent)
TypeInv == TypeOK /\ CartsRanked

LEMMA CartsAreGood ==
  ASSUME TypeInv
  PROVE  /\ Good(stored)
         /\ \A t \in Tabs : Good(cart[t])
         /\ \A c \in Calls : Good(call[c].sent)
  BY DEF TypeInv, TypeOK, CartsRanked, Good, Call

LEMMA FormTypes ==
  /\ BlankForm \in Form
  /\ \A f \in Form :
       /\ \A c : Settle(c, f) \in Form
       /\ MethodsListed(f) \in Form /\ MethodsMissing(f) \in Form
       /\ ShowError(f) \in Form
       /\ \A ok \in BOOLEAN : ConfigKnown(f, ok) \in Form
       /\ \A via : ShowRefusal(f, via) \in Form
<1>1. BlankForm \in Form
  BY DEF BlankForm, Form
<1>2. ASSUME NEW f \in Form, NEW c PROVE Settle(c, f) \in Form
  BY DEF Settle, Form
<1>3. ASSUME NEW f \in Form
      PROVE  MethodsListed(f) \in Form /\ MethodsMissing(f) \in Form
             /\ ShowError(f) \in Form
  BY <1>3 DEF MethodsListed, MethodsMissing, ShowError, Form
<1>4. ASSUME NEW f \in Form, NEW ok \in BOOLEAN PROVE ConfigKnown(f, ok) \in Form
  <2>1. f.configured \/ ok \in BOOLEAN
    BY <1>4 DEF Form
  <2> QED
    BY <1>4, <2>1 DEF ConfigKnown, Form
<1>5. ASSUME NEW f \in Form, NEW via PROVE ShowRefusal(f, via) \in Form
  BY <1>5 DEF ShowRefusal, Form
<1> QED
  BY <1>1, <1>2, <1>3, <1>4, <1>5

LEMMA BlankCallType == BlankCall \in Call /\ Ranked(BlankCall.sent)
<1>1. (CHOOSE t \in Tabs : TRUE) \in Tabs
  BY StorefrontAssumption
<1> QED
  BY <1>1, EmptyGood DEF BlankCall, Call, CallSteps, Good

\* A checkout that goes on to another step keeps the rest of its record.
LEMMA StepTypes ==
  ASSUME TypeInv, NEW c \in Calls, NEW s \in CallSteps,
         call' = [call EXCEPT ![c].step = s]
  PROVE  /\ call' \in [Calls -> Call]
         /\ \A d \in Calls :
              /\ call'[d].step = IF d = c THEN s ELSE call[d].step
              /\ call'[d].sent = call[d].sent /\ call'[d].via = call[d].via
              /\ call'[d].unfit = call[d].unfit
<1>1. call \in [Calls -> Call]
  BY DEF TypeInv, TypeOK
<1>2. /\ [call[c] EXCEPT !.step = s] \in Call
      /\ [call[c] EXCEPT !.step = s].step = s
      /\ [call[c] EXCEPT !.step = s].sent = call[c].sent
      /\ [call[c] EXCEPT !.step = s].via = call[c].via
      /\ [call[c] EXCEPT !.step = s].unfit = call[c].unfit
  BY <1>1 DEF Call
<1>3. call' = [call EXCEPT ![c] = [call[c] EXCEPT !.step = s]]
  BY <1>1
<1> QED
  BY <1>1, <1>2, <1>3

\* The same of the checkout that takes the step.
LEMMA StepOf ==
  ASSUME TypeInv, NEW c \in Calls, NEW s \in CallSteps,
         call' = [call EXCEPT ![c].step = s]
  PROVE  /\ call'[c].step = s
         /\ call'[c].sent = call[c].sent /\ call'[c].via = call[c].via
<1>1. \A d \in Calls :
        /\ call'[d].step = IF d = c THEN s ELSE call[d].step
        /\ call'[d].sent = call[d].sent /\ call'[d].via = call[d].via
  BY StepTypes
<1> QED
  BY <1>1

LEMMA TypeInit == Init => TypeInv
<1> SUFFICES ASSUME Init PROVE TypeInv
  OBVIOUS
<1>1. \A i \in Items : Page(i) \in [item: Items, amount: Prices, stock: 0..MaxQuantity]
  BY StorefrontAssumption DEF Init, Page, Prices
<1>2. view \in [Tabs -> [item: Items, amount: Prices, stock: 0..MaxQuantity]]
  BY <1>1 DEF Init
<1>3. EmptyCart \in Cart /\ Ranked(EmptyCart)
  BY EmptyGood DEF Good
<1>4. /\ unit \in [Calls -> [Items -> Prices]] /\ price \in [Items -> Prices]
      /\ stock \in [Items -> 0..MaxQuantity]
  BY StorefrontAssumption DEF Init, Prices
<1>5. split \subseteq Products
  BY StorefrontAssumption DEF Init
<1>6. CartsRanked
  BY <1>3, BlankCallType DEF Init, CartsRanked
<1>7. form \in [Tabs -> Form] /\ call \in [Calls -> Call]
  BY FormTypes, BlankCallType DEF Init
<1>8. stored \in Cart /\ cart \in [Tabs -> Cart]
  BY <1>3 DEF Init
<1>9. /\ state \in [Products -> {"active", "inactive", "deleted"}]
      /\ page \in [Tabs -> {"product", "cart", "provider", "success", "cancel"}]
      /\ charged \in [Calls -> SUBSET Items]
      /\ edits \in 0..MaxEdits /\ writes \in 0..MaxWrites
  BY StorefrontAssumption DEF Init
<1>10. /\ selling \subseteq Variants /\ ordered \subseteq Calls
       /\ refused \subseteq Items /\ strayed \in BOOLEAN
  BY DEF Init
<1> QED
  BY <1>2, <1>4, <1>5, <1>6, <1>7, <1>8, <1>9, <1>10 DEF TypeInv, TypeOK

LEMMA OperatorTypes == ASSUME TypeInv, Operator PROVE TypeInv'
<1>0. CartsRanked'
  BY DEF Operator, Reprice, Restock, SwitchVariant, SwitchProduct, SplitProduct, Shop,
         TypeInv, CartsRanked
<1>1. Edit => edits' \in 0..MaxEdits
  BY StorefrontAssumption DEF Edit, TypeInv, TypeOK
<1>2. ASSUME NEW i \in Items, NEW x \in Prices, Reprice(i, x) PROVE TypeOK'
  BY <1>1, <1>2 DEF Reprice, Shop, TypeInv, TypeOK, server, history
<1>3. ASSUME NEW i \in Items, NEW n \in 0..MaxQuantity, Restock(i, n) PROVE TypeOK'
  BY <1>1, <1>3 DEF Restock, Shop, TypeInv, TypeOK, server, history
<1>4. ASSUME NEW i \in Items, SwitchVariant(i) PROVE TypeOK'
  BY <1>1, <1>4 DEF SwitchVariant, Shop, TypeInv, TypeOK, server, history
<1>5. ASSUME NEW p \in Products, SwitchProduct(p) PROVE TypeOK'
  BY <1>1, <1>5 DEF SwitchProduct, Shop, TypeInv, TypeOK, server, history
<1>6. ASSUME NEW p \in Products, SplitProduct(p) PROVE TypeOK'
  BY <1>1, <1>6 DEF SplitProduct, Shop, TypeInv, TypeOK, server, history
<1> QED
  BY <1>0, <1>2, <1>3, <1>4, <1>5, <1>6 DEF Operator, TypeInv

\* What a write of the cart leaves behind.
LEMMA WriteTypes ==
  ASSUME TypeInv, NEW t \in Tabs, NEW c, Good(c), Write(t, c),
         UNCHANGED <<catalogue, server, history, page, view, call>>
  PROVE  TypeInv'
<1>1. writes' \in 0..MaxWrites
  BY StorefrontAssumption DEF Write, TypeInv, TypeOK
<1>2. cart' \in [Tabs -> Cart] /\ stored' \in Cart
  BY DEF Write, Good, TypeInv, TypeOK
<1>3. form' \in [Tabs -> Form]
  BY FormTypes DEF Write, TypeInv, TypeOK
<1>4. CartsRanked'
  BY DEF Write, Good, TypeInv, TypeOK, CartsRanked
<1> QED
  BY <1>1, <1>2, <1>3, <1>4 DEF TypeInv, TypeOK, catalogue, server, history

\* The steps that touch no more than the pages of a tab and its copy of the cart.
LEMMA PageTypes ==
  ASSUME TypeInv, page' \in [Tabs -> {"product", "cart", "provider", "success", "cancel"}],
         form' \in [Tabs -> Form], cart' \in [Tabs -> Cart], stored' \in Cart,
         Ranked(stored'), \A t \in Tabs : Ranked(cart'[t]),
         UNCHANGED <<writes, catalogue, server, history, view, call>>
  PROVE  TypeInv'
  BY DEF TypeInv, TypeOK, CartsRanked, catalogue, server, history

LEMMA BuyerTypes == ASSUME TypeInv, NEW t \in Tabs, Buyer(t) PROVE TypeInv'
<1>0. /\ Good(stored) /\ \A u \in Tabs : Good(cart[u])
      /\ stored \in Cart /\ \A u \in Tabs : cart[u] \in Cart
      /\ Ranked(stored) /\ \A u \in Tabs : Ranked(cart[u])
      /\ cart \in [Tabs -> Cart] /\ form \in [Tabs -> Form]
      /\ page \in [Tabs -> {"product", "cart", "provider", "success", "cancel"}]
  BY CartsAreGood DEF TypeInv, TypeOK, CartsRanked
<1>1. ASSUME NEW i \in Items, OpenProduct(t, i) PROVE TypeInv'
  <2>1. view' \in [Tabs -> [item: Items, amount: Prices, stock: 0..MaxQuantity]]
    BY <1>1 DEF OpenProduct, Page, TypeInv, TypeOK
  <2>2. form' \in [Tabs -> Form] /\ CartsRanked'
    BY <1>1, FormTypes DEF OpenProduct, TypeInv, TypeOK, CartsRanked
  <2> QED
    BY <1>1, <2>1, <2>2 DEF OpenProduct, TypeInv, TypeOK, catalogue, server, history
<1>2. ASSUME NEW i \in Items, RemoveLine(t, i) PROVE TypeInv'
  BY <1>0, <1>2, RemoveGood, WriteTypes DEF RemoveLine
<1>3. ASSUME NEW i \in Items, NEW q \in 1..MaxQuantity, SetQuantity(t, i, q) PROVE TypeInv'
  BY <1>0, <1>3, SetQtyGood, WriteTypes DEF SetQuantity
<1>4. ASSUME NEW q \in 1..MaxQuantity, ToggleCartItem(t, q) PROVE TypeInv'
  <2>1. view[t].item \in Items /\ view[t].amount \in Prices
    BY DEF TypeInv, TypeOK
  <2> QED
    BY <1>0, <1>4, <2>1, RemoveGood, AddGood, WriteTypes DEF ToggleCartItem
<1>5. CASE OpenCart(t)
  <2>1. NoPage \in [item: Items, amount: Prices, stock: 0..MaxQuantity]
    BY StorefrontAssumption DEF NoPage, Prices
  <2>2. form' \in [Tabs -> Form]
    BY <1>0, <1>5, FormTypes DEF OpenCart
  <2>3. cart' \in [Tabs -> Cart] /\ CartsRanked'
    BY <1>0, <1>5 DEF OpenCart, TypeInv, CartsRanked
  <2> QED
    BY <1>5, <2>1, <2>2, <2>3 DEF OpenCart, TypeInv, TypeOK, catalogue, server, history
<1>6. CASE CloseOverlay(t)
  <2> DEFINE f == [form[t] EXCEPT !.overlay = IF @ = "error" THEN "none" ELSE @,
                                  !.modal = FALSE]
  <2>1. form' \in [Tabs -> Form]
    <3>1. f \in Form
      BY <1>0 DEF Form
    <3>2. form' = [form EXCEPT ![t] = f]
      BY <1>0, <1>6 DEF CloseOverlay
    <3> QED
      BY <1>0, <3>1, <3>2
  <2> QED
    BY <1>0, <1>6, <2>1, PageTypes DEF CloseOverlay
<1>7. CASE Success(t) \/ Cancel(t)
  <2>1. form' \in [Tabs -> Form]
    BY <1>0, <1>7, FormTypes DEF Success, Cancel, Emptied
  <2>2. EmptyCart \in Cart /\ Ranked(EmptyCart)
    BY EmptyGood DEF Good
  <2> QED
    BY <1>0, <1>7, <2>1, <2>2, PageTypes DEF Success, Cancel, Emptied
<1>8. CASE PageShow(t)
  <2>1. form' \in [Tabs -> Form]
    <3>1. PICK f \in {BlankForm, form[t]} :
            form' = [form EXCEPT ![t] = Settle(stored, f)]
      BY <1>8 DEF PageShow
    <3>2. f \in Form
      BY <1>0, FormTypes
    <3> QED
      BY <1>0, <3>1, <3>2, FormTypes
  <2> QED
    BY <1>0, <1>8, <2>1, PageTypes DEF PageShow
<1>9. ASSUME NEW m \in Methods, ChooseProvider(t, m) PROVE TypeInv'
  <2>1. form' \in [Tabs -> Form]
    BY <1>0, <1>9 DEF ChooseProvider, Form
  <2> QED
    BY <1>0, <1>9, <2>1, PageTypes DEF ChooseProvider
<1>10. ASSUME NEW c \in Calls, CheckOut(t, c) PROVE TypeInv'
  <2>1. form' \in [Tabs -> Form]
    BY <1>0, <1>10 DEF CheckOut, Form
  <2>2. form[t].provider \in Methods \cup {NoMethod}
    BY <1>0 DEF Form
  <2>3. [BlankCall EXCEPT !.tab = t, !.via = form[t].provider,
                          !.sent = cart[t], !.step = "posted"] \in Call
    BY <1>0, <2>2, BlankCallType DEF Call, CallSteps
  <2>4. [BlankCall EXCEPT !.tab = t, !.via = form[t].provider,
                          !.sent = cart[t], !.step = "posted"].sent = cart[t]
    BY BlankCallType DEF Call
  <2>5. call' \in [Calls -> Call] /\ \A d \in Calls : Ranked(call'[d].sent)
    BY <1>0, <1>10, <2>3, <2>4 DEF CheckOut, TypeInv, TypeOK, CartsRanked
  <2> QED
    BY <1>10, <2>1, <2>5
    DEF CheckOut, TypeInv, TypeOK, CartsRanked, catalogue, server, history
<1> QED
  BY <1>1, <1>2, <1>3, <1>4, <1>5, <1>6, <1>7, <1>8, <1>9, <1>10 DEF Buyer

LEMMA OverCall ==
  LET n == [BlankCall EXCEPT !.step = "over"] IN
  n \in Call /\ n.step = "over" /\ Ranked(n.sent)
<1>1. BlankCall \in Call /\ Ranked(BlankCall.sent)
  BY BlankCallType
<1> QED
  BY <1>1 DEF Call, CallSteps

\* What a refusal makes of the cart a tab has now.
NowCorrected(c) ==
  [cart[call[c].tab] EXCEPT
     !.line = [i \in Items |-> Corrected(cart[call[c].tab], c, i)]]

LEMMA CorrectedGood ==
  ASSUME TypeInv, NEW c \in Calls
  PROVE  /\ Good(NowCorrected(c))
         /\ NowCorrected(c).line = [i \in Items |-> Corrected(cart[call[c].tab], c, i)]
<1> DEFINE now == cart[call[c].tab]
           new == NowCorrected(c)
<1>1. call[c] \in Call /\ call[c].tab \in Tabs
  BY DEF TypeInv, TypeOK, Call
<1>2. now \in Cart /\ Ranked(now)
  BY <1>1 DEF TypeInv, TypeOK, CartsRanked
<1>3. unit[c] \in [Items -> Prices] /\ call[c].dearer \subseteq Items
  BY <1>1 DEF TypeInv, TypeOK, Call
<1>4. ASSUME NEW i \in Items
      PROVE  Corrected(now, c, i) \in Line /\ Corrected(now, c, i).qty = now.line[i].qty
  <2>1. now.line[i] \in Line
    BY <1>2 DEF Cart
  <2>2. [now.line[i] EXCEPT !.gone = TRUE] \in Line
        /\ [now.line[i] EXCEPT !.gone = TRUE].qty = now.line[i].qty
    BY <2>1 DEF Line
  <2> DEFINE x == unit[c][CHOOSE j \in call[c].dearer : SamePlace(now, i, call[c].sent, j)]
  <2>3. (\E j \in call[c].dearer : SamePlace(now, i, call[c].sent, j)) => x \in Prices
    BY <1>3
  <2>4. x \in Prices => /\ [now.line[i] EXCEPT !.amount = x] \in Line
                        /\ [now.line[i] EXCEPT !.amount = x].qty = now.line[i].qty
    BY <2>1 DEF Line
  <2> QED
    BY <2>1, <2>2, <2>3, <2>4 DEF Corrected
<1>5. new = [line |-> [i \in Items |-> Corrected(now, c, i)], before |-> now.before]
  BY <1>2 DEF NowCorrected, Cart
<1>6. new \in Cart
  BY <1>2, <1>4, <1>5 DEF Cart
<1>7. InCart(new) = InCart(now)
  BY <1>4, <1>5 DEF InCart
<1>8. Ranked(new)
  BY <1>2, <1>5, <1>7 DEF Ranked
<1> QED
  BY <1>5, <1>6, <1>8 DEF Good

LEMMA CorrectedStep ==
  ASSUME NEW c, HandleValidationErrors(c)
  PROVE  /\ cart' = [cart EXCEPT ![call[c].tab] = NowCorrected(c)]
         /\ stored' = NowCorrected(c)
         /\ form' = [form EXCEPT ![call[c].tab] = OnCart(call[c].tab,
              Settle(NowCorrected(c), ShowRefusal(@, call[c].via)))]
         /\ strayed' = (strayed \/ InCart(cart[call[c].tab]) # InCart(call[c].sent)
                                \/ cart[call[c].tab].before # call[c].sent.before)
  BY DEF HandleValidationErrors, NowCorrected

LEMMA ValidateSets ==
  ASSUME TypeInv, NEW c \in Calls
  PROVE  Unfit(call[c]) \subseteq Items /\ Dearer(call[c]) \subseteq Items
         /\ Charged(call[c]) \subseteq Items
  BY DEF Unfit, Dearer, Charged, InCart

LEMMA AnswerTypes == ASSUME TypeInv, Answer PROVE TypeInv'
<1>0. /\ \A u \in Tabs : cart[u] \in Cart /\ Ranked(cart[u])
      /\ stored \in Cart /\ Ranked(stored)
      /\ cart \in [Tabs -> Cart] /\ form \in [Tabs -> Form] /\ call \in [Calls -> Call]
      /\ page \in [Tabs -> {"product", "cart", "provider", "success", "cancel"}]
      /\ \A c \in Calls : call[c].tab \in Tabs /\ Ranked(call[c].sent)
  BY DEF TypeInv, TypeOK, CartsRanked, Call
<1>1. ASSUME NEW t \in Tabs, NEW ok \in BOOLEAN, MethodsAnswer(t, ok) PROVE TypeInv'
  <2>1. form' \in [Tabs -> Form]
    BY <1>0, <1>1, FormTypes DEF MethodsAnswer
  <2> QED
    BY <1>0, <1>1, <2>1, PageTypes DEF MethodsAnswer
<1>2. ASSUME NEW t \in Tabs, NEW ok \in BOOLEAN, ConfigAnswer(t, ok) PROVE TypeInv'
  <2>1. form' \in [Tabs -> Form]
    BY <1>0, <1>2, FormTypes DEF ConfigAnswer
  <2> QED
    BY <1>0, <1>2, <2>1, PageTypes DEF ConfigAnswer
<1>3. ASSUME NEW c \in Calls, ListPublic(c) PROVE TypeInv'
  <2> DEFINE S == {p \in Products : state[p] = "active"}
             k == [call[c] EXCEPT !.step = "listed", !.public = S]
  <2>0. S \in SUBSET Products /\ "listed" \in CallSteps /\ call[c] \in Call
    BY <1>0 DEF CallSteps
  <2>1. k \in Call /\ k.sent = call[c].sent
    <3> HIDE DEF S
    <3> QED
      BY <2>0 DEF Call
  <2>2. call' = [call EXCEPT ![c] = k]
    BY <1>0, <1>3 DEF ListPublic
  <2> HIDE DEF k
  <2>3. call' \in [Calls -> Call] /\ CartsRanked'
    BY <1>0, <1>3, <2>1, <2>2 DEF ListPublic, CartsRanked
  <2> QED
    BY <1>3, <2>3 DEF ListPublic, TypeInv, TypeOK, catalogue, server, history
<1>4. ASSUME NEW c \in Calls, Validate(c) PROVE TypeInv'
  <2>1. /\ call' \in [Calls -> Call]
        /\ \A d \in Calls : call'[d].sent = call[d].sent
    <3>1. CASE \E s \in {"ordered", "failed"} : call' = [call EXCEPT ![c].step = s]
      BY <3>1, StepTypes DEF CallSteps
    <3>2. CASE call' = [call EXCEPT ![c].step = "refused", ![c].unfit = Unfit(call[c]),
                                    ![c].dearer = Dearer(call[c])]
      <4> DEFINE k == [call[c] EXCEPT !.step = "refused", !.unfit = Unfit(call[c]),
                                      !.dearer = Dearer(call[c])]
      <4>0. "refused" \in CallSteps /\ call[c] \in Call
        BY <1>0 DEF CallSteps
      <4>1. k \in Call /\ k.sent = call[c].sent
        BY <4>0, ValidateSets DEF Call
      <4>2. call' = [call EXCEPT ![c] = k]
        BY <1>0, <3>2
      <4> HIDE DEF k
      <4> QED
        BY <1>0, <4>1, <4>2
    <3> QED
      BY <1>4, <3>1, <3>2 DEF Validate
  <2>2. CartsRanked'
    BY <1>0, <1>4, <2>1 DEF Validate, CartsRanked
  <2>3. /\ unit' \in [Calls -> [Items -> Prices]] /\ charged' \in [Calls -> SUBSET Items]
        /\ refused' \subseteq Items /\ ordered' \subseteq Calls
    BY <1>4, ValidateSets DEF Validate, TypeInv, TypeOK, server
  <2> QED
    BY <1>4, <2>1, <2>2, <2>3 DEF Validate, TypeInv, TypeOK, catalogue
<1>5. ASSUME NEW c \in Calls, HandleValidationErrors(c) PROVE TypeInv'
  <2>1. NowCorrected(c) \in Cart /\ Ranked(NowCorrected(c))
    BY CorrectedGood DEF Good
  <2>2. cart' \in [Tabs -> Cart] /\ stored' \in Cart
    BY <1>0, <1>5, <2>1, CorrectedStep
  <2>3. call' \in [Calls -> Call] /\ \A d \in Calls : Ranked(call'[d].sent)
    BY <1>0, <1>5, OverCall DEF HandleValidationErrors
  <2>4. form' \in [Tabs -> Form]
    <3>1. form[call[c].tab] \in Form /\ call[c].tab \in Tabs
      BY <1>0
    <3>2. ShowRefusal(form[call[c].tab], call[c].via) \in Form
      BY <3>1, FormTypes
    <3>3. Settle(NowCorrected(c), ShowRefusal(form[call[c].tab], call[c].via)) \in Form
      BY <3>2, FormTypes
    <3> QED
      BY <1>0, <1>5, <3>1, <3>3, CorrectedStep DEF OnCart
  <2>5. CartsRanked'
    BY <1>0, <1>5, <2>1, <2>3, CorrectedStep DEF CartsRanked
  <2>6. strayed' \in BOOLEAN
    BY <1>5, CorrectedStep DEF TypeInv, TypeOK
  <2> QED
    BY <1>5, <2>2, <2>3, <2>4, <2>5, <2>6
    DEF HandleValidationErrors, TypeInv, TypeOK, catalogue, server
<1>6. ASSUME NEW c \in Calls, CheckoutFailed(c) PROVE TypeInv'
  <2>1. call' \in [Calls -> Call] /\ \A d \in Calls : call'[d].sent = call[d].sent
    BY <1>6, StepTypes DEF CheckoutFailed, CallSteps
  <2>2. form' \in [Tabs -> Form]
    BY <1>0, <1>6, FormTypes DEF CheckoutFailed, OnCart
  <2> QED
    BY <1>0, <1>6, <2>1, <2>2
    DEF CheckoutFailed, TypeInv, TypeOK, CartsRanked, catalogue, server, history
<1>7. ASSUME NEW c \in Calls, Redirect(c) PROVE TypeInv'
  <2>1. ASSUME NEW d \in Calls PROVE call'[d] \in Call /\ call'[d].sent = call[d].sent
    <3>1. CASE d = c
      <4>1. call'[d] = [call[c] EXCEPT !.step = "over"]
        BY <1>7, <3>1 DEF Redirect
      <4> QED
        BY <1>0, <3>1, <4>1 DEF Call, CallSteps
    <3>2. CASE d # c
      <4>1. PICK b \in BOOLEAN : call'[d] = [call[d] EXCEPT !.deaf = b]
        <5> DEFINE b == call[d].deaf \/ (call[d].tab = call[c].tab /\ call[d].step # "new")
        <5>1. call'[d] = [call[d] EXCEPT !.deaf = b]
          BY <1>7, <3>2 DEF Redirect
        <5>2. b \in BOOLEAN
          BY <1>0 DEF Call
        <5> HIDE DEF b
        <5> QED
          BY <5>1, <5>2
      <4> QED
        BY <1>0, <4>1 DEF Call
    <3> QED
      BY <3>1, <3>2
  <2>2. call' \in [Calls -> Call]
    BY <1>7, <2>1 DEF Redirect
  <2> QED
    BY <1>0, <1>7, <2>1, <2>2
    DEF Redirect, TypeInv, TypeOK, CartsRanked, catalogue, server, history
<1>8. ASSUME NEW c \in Calls, NEW ok \in BOOLEAN, RequestPayment(c, ok) PROVE TypeInv'
  <2>1. call' \in [Calls -> Call] /\ \A d \in Calls : call'[d].sent = call[d].sent
    BY <1>8, StepTypes DEF RequestPayment, CallSteps
  <2> QED
    BY <1>0, <1>8, <2>1
    DEF RequestPayment, TypeInv, TypeOK, CartsRanked, catalogue, server, history
<1>9. ASSUME NEW c \in Calls, NEW ok \in BOOLEAN, VerifyPayment(c, ok) PROVE TypeInv'
  <2>1. call' \in [Calls -> Call] /\ \A d \in Calls : call'[d].sent = call[d].sent
    BY <1>9, StepTypes DEF VerifyPayment, CallSteps
  <2>2. form' \in [Tabs -> Form]
    BY <1>0, <1>9, FormTypes DEF VerifyPayment, OnCart
  <2>3. cart' \in [Tabs -> Cart] /\ stored' \in Cart /\ CartsRanked'
    BY <1>0, <1>9, <2>1, EmptyGood DEF VerifyPayment, CartsRanked, Good
  <2>4. page' \in [Tabs -> {"product", "cart", "provider", "success", "cancel"}]
    BY <1>0, <1>9 DEF VerifyPayment
  <2> QED
    BY <1>9, <2>1, <2>2, <2>3, <2>4
    DEF VerifyPayment, TypeInv, TypeOK, catalogue, server, history
<1> QED
  BY <1>1, <1>2, <1>3, <1>4, <1>5, <1>6, <1>7, <1>8, <1>9 DEF Answer

LEMMA TypeStep == TypeInv /\ [Next]_vars => TypeInv'
<1> SUFFICES ASSUME TypeInv, [Next]_vars PROVE TypeInv'
  OBVIOUS
<1>1. CASE UNCHANGED vars
  BY <1>1 DEF vars, catalogue, server, history, TypeInv, TypeOK, CartsRanked
<1> QED
  BY <1>1, OperatorTypes, BuyerTypes, AnswerTypes DEF Next

\* Every variable stays in its type, and the lines of every cart, stored, in a
\* tab or in a request, stay in one order.
THEOREM TypeCorrect == Spec => [](TypeOK /\ CartsRanked)
  BY TypeInit, TypeStep, PTL DEF Spec, TypeInv

-----------------------------------------------------------------------------
(* The payment system of a cart page.                                      *)

Fits(f) == f.provider # NoMethod => f.provider \in f.offered
ChosenIsOffered == \A t \in Tabs : Fits(form[t])
FreeHasNone ==
  \A t \in Tabs : page[t] = "cart" /\ Free(cart[t]) => form[t].provider = NoMethod
ProviderInv == ChosenIsOffered /\ FreeHasNone

\* Settle takes the system from a cart that costs nothing, and no step of the
\* form chooses one.
LEMMA FormFits ==
  /\ Fits(BlankForm) /\ BlankForm.provider = NoMethod
  /\ \A f \in Form : Fits(f) =>
       /\ \A c : Fits(Settle(c, f)) /\ (Free(c) => Settle(c, f).provider = NoMethod)
       /\ Fits(MethodsListed(f)) /\ Fits(MethodsMissing(f))
       /\ Fits(ShowError(f)) /\ ShowError(f).provider = f.provider
       /\ \A ok : Fits(ConfigKnown(f, ok))
       /\ \A via : Fits(ShowRefusal(f, via))
<1>1. Fits(BlankForm) /\ BlankForm.provider = NoMethod
  BY DEF Fits, BlankForm
<1>2. ASSUME NEW f \in Form, Fits(f), NEW c
      PROVE  Fits(Settle(c, f)) /\ (Free(c) => Settle(c, f).provider = NoMethod)
  BY <1>2 DEF Fits, Settle, Form
<1>3. ASSUME NEW f \in Form, Fits(f)
      PROVE  /\ Fits(MethodsListed(f)) /\ Fits(MethodsMissing(f))
             /\ Fits(ShowError(f)) /\ ShowError(f).provider = f.provider
  BY <1>3 DEF Fits, MethodsListed, MethodsMissing, ShowError, Form
<1>4. ASSUME NEW f \in Form, Fits(f), NEW x
      PROVE  Fits(ConfigKnown(f, x)) /\ Fits(ShowRefusal(f, x))
  BY <1>4 DEF Fits, ConfigKnown, ShowRefusal, Form
<1> QED
  BY <1>1, <1>2, <1>3, <1>4

LEMMA ProviderInit == Init => ProviderInv
  BY FormFits DEF Init, ProviderInv, ChosenIsOffered, FreeHasNone

\* One tab's form changes, and with it what is shown in that tab.
LEMMA FormChange ==
  ASSUME TypeInv, ProviderInv, NEW t \in Tabs, NEW f,
         form' = [form EXCEPT ![t] = f], Fits(f),
         page'[t] = "cart" /\ Free(cart'[t]) => f.provider = NoMethod,
         \A u \in Tabs \ {t} : page'[u] = page[u] /\ cart'[u] = cart[u]
  PROVE  ProviderInv'
<1>1. form'[t] = f /\ \A u \in Tabs \ {t} : form'[u] = form[u]
  BY DEF TypeInv, TypeOK
<1> QED
  BY <1>1 DEF ProviderInv, ChosenIsOffered, FreeHasNone, Free, InCart

LEMMA WriteProvider ==
  ASSUME TypeInv, ProviderInv, NEW t \in Tabs, NEW c, Write(t, c), UNCHANGED page
  PROVE  ProviderInv'
<1> DEFINE f == IF page[t] = "cart" THEN Settle(c, form[t]) ELSE form[t]
<1>1. form[t] \in Form /\ Fits(form[t])
  BY DEF TypeInv, TypeOK, ProviderInv, ChosenIsOffered
<1>2. Fits(f) /\ (page[t] = "cart" /\ Free(c) => f.provider = NoMethod)
  BY <1>1, FormFits
<1>3. form' = [form EXCEPT ![t] = f] /\ cart' = [cart EXCEPT ![t] = c]
  BY DEF Write
<1>4. cart'[t] = c /\ \A u \in Tabs \ {t} : cart'[u] = cart[u]
  BY <1>3 DEF TypeInv, TypeOK
<1> HIDE DEF f
<1> QED
  BY <1>2, <1>3, <1>4, FormChange

LEMMA BuyerProvider ==
  ASSUME TypeInv, ProviderInv, NEW t \in Tabs, Buyer(t)
  PROVE  ProviderInv'
<1>0. /\ form[t] \in Form /\ Fits(form[t])
      /\ cart \in [Tabs -> Cart]
      /\ page \in [Tabs -> {"product", "cart", "provider", "success", "cancel"}]
  BY DEF TypeInv, TypeOK, ProviderInv, ChosenIsOffered
<1>1. ASSUME NEW i \in Items, OpenProduct(t, i) PROVE ProviderInv'
  BY <1>0, <1>1, FormFits, FormChange DEF OpenProduct
<1>2. CASE \/ \E i \in Items : \/ RemoveLine(t, i)
                               \/ \E q \in 1..MaxQuantity : SetQuantity(t, i, q)
           \/ \E q \in 1..MaxQuantity : ToggleCartItem(t, q)
  BY <1>2, WriteProvider DEF RemoveLine, SetQuantity, ToggleCartItem
<1>3. CASE OpenCart(t)
  <2>1. BlankForm \in Form /\ Fits(BlankForm)
    BY FormTypes, FormFits
  <2>2. Fits(Settle(stored, BlankForm))
        /\ (Free(stored) => Settle(stored, BlankForm).provider = NoMethod)
    BY <2>1, FormFits
  <2> QED
    BY <1>0, <1>3, <2>2, FormChange DEF OpenCart
<1>4. CASE CloseOverlay(t)
  <2> DEFINE f == [form[t] EXCEPT !.overlay = IF @ = "error" THEN "none" ELSE @,
                                  !.modal = FALSE]
  <2>1. f.provider = form[t].provider /\ f.offered = form[t].offered
    BY <1>0 DEF Form
  <2>2. form' = [form EXCEPT ![t] = f]
    BY <1>0, <1>4 DEF CloseOverlay
  <2>3. UNCHANGED <<page, cart>>
    BY <1>4 DEF CloseOverlay
  <2> HIDE DEF f
  <2>4. Fits(f) /\ (page[t] = "cart" /\ Free(cart[t]) => f.provider = NoMethod)
    BY <1>0, <2>1 DEF Fits, ProviderInv, FreeHasNone
  <2> QED
    BY <2>2, <2>3, <2>4, FormChange
<1>5. CASE Success(t) \/ Cancel(t)
  BY <1>0, <1>5, FormFits, FormChange DEF Success, Cancel, Emptied
<1>6. CASE PageShow(t)
  <2>1. PICK f \in {BlankForm, form[t]} :
          form' = [form EXCEPT ![t] = Settle(stored, f)]
    BY <1>6 DEF PageShow
  <2>2. f \in Form /\ Fits(f)
    BY <1>0, FormTypes, FormFits
  <2>3. Fits(Settle(stored, f)) /\ (Free(stored) => Settle(stored, f).provider = NoMethod)
    BY <2>2, FormFits
  <2> QED
    BY <1>0, <1>6, <2>1, <2>3, FormChange DEF PageShow
<1>7. ASSUME NEW m \in Methods, ChooseProvider(t, m) PROVE ProviderInv'
  <2> DEFINE f == [form[t] EXCEPT !.provider = m]
  <2>1. f.provider = m /\ f.offered = form[t].offered
    BY <1>0 DEF Form
  <2>2. form' = [form EXCEPT ![t] = f]
    BY <1>0, <1>7 DEF ChooseProvider
  <2> HIDE DEF f
  <2>3. Fits(f) /\ ~Free(cart[t]) /\ UNCHANGED <<page, cart>>
    BY <1>7, <2>1 DEF ChooseProvider, Fits
  <2> QED
    BY <2>2, <2>3, FormChange
<1>8. ASSUME NEW c \in Calls, CheckOut(t, c) PROVE ProviderInv'
  <2>1. PICK o \in {"error", "busy", form[t].overlay} :
          form' = [form EXCEPT ![t].overlay = o]
    BY <1>0, <1>8 DEF CheckOut
  <2> DEFINE f == [form[t] EXCEPT !.overlay = o]
  <2>2. f.provider = form[t].provider /\ f.offered = form[t].offered
    BY <1>0 DEF Form
  <2>3. form' = [form EXCEPT ![t] = f] /\ UNCHANGED <<page, cart>>
    BY <1>8, <2>1 DEF CheckOut
  <2> HIDE DEF f
  <2>4. Fits(f) /\ (page[t] = "cart" /\ Free(cart[t]) => f.provider = NoMethod)
    BY <1>0, <2>2 DEF Fits, ProviderInv, FreeHasNone
  <2> QED
    BY <2>3, <2>4, FormChange
<1> QED
  BY <1>1, <1>2, <1>3, <1>4, <1>5, <1>6, <1>7, <1>8 DEF Buyer

LEMMA AnswerProvider ==
  ASSUME TypeInv, ProviderInv, Answer
  PROVE  ProviderInv'
<1>0. /\ \A t \in Tabs : form[t] \in Form /\ Fits(form[t])
      /\ \A c \in Calls : call[c].tab \in Tabs
      /\ cart \in [Tabs -> Cart] /\ form \in [Tabs -> Form]
      /\ page \in [Tabs -> {"product", "cart", "provider", "success", "cancel"}]
  BY DEF TypeInv, TypeOK, Call, ProviderInv, ChosenIsOffered
<1>1. ASSUME NEW t \in Tabs, NEW f \in Form, Fits(f), UNCHANGED <<page, cart>>,
             form' = [form EXCEPT ![t] = Settle(cart[t], f)]
      PROVE  ProviderInv'
  <2>1. Fits(Settle(cart[t], f)) /\ (Free(cart[t]) => Settle(cart[t], f).provider = NoMethod)
    BY <1>1, FormFits
  <2> QED
    BY <1>1, <2>1, FormChange
<1>2. ASSUME NEW t \in Tabs, NEW ok \in BOOLEAN, MethodsAnswer(t, ok) PROVE ProviderInv'
  <2>1. PICK f \in {MethodsListed(form[t]), MethodsMissing(form[t])} :
          form' = [form EXCEPT ![t] = Settle(cart[t], f)]
    BY <1>2 DEF MethodsAnswer
  <2>2. f \in Form /\ Fits(f)
    BY <1>0, FormTypes, FormFits
  <2> QED
    BY <1>1, <1>2, <2>1, <2>2 DEF MethodsAnswer
<1>3. ASSUME NEW t \in Tabs, NEW ok \in BOOLEAN, ConfigAnswer(t, ok) PROVE ProviderInv'
  <2>1. ConfigKnown(form[t], ok) \in Form /\ Fits(ConfigKnown(form[t], ok))
    BY <1>0, FormTypes, FormFits
  <2> QED
    BY <1>1, <1>3, <2>1 DEF ConfigAnswer
<1>4. ASSUME NEW c \in Calls,
             ListPublic(c) \/ Validate(c) \/ \E ok \in BOOLEAN : RequestPayment(c, ok)
      PROVE  ProviderInv'
  BY <1>4 DEF ListPublic, Validate, RequestPayment, ProviderInv, ChosenIsOffered, FreeHasNone
<1>5. ASSUME NEW c \in Calls, HandleValidationErrors(c) PROVE ProviderInv'
  <2> DEFINE t == call[c].tab
             f == Settle(NowCorrected(c), ShowRefusal(form[t], call[c].via))
             g == OnCart(t, f)
  <2>1. t \in Tabs /\ form[t] \in Form /\ Fits(form[t])
    BY <1>0
  <2>2. ShowRefusal(form[t], call[c].via) \in Form /\ Fits(ShowRefusal(form[t], call[c].via))
    BY <2>1, FormTypes, FormFits
  <2>3. Fits(f) /\ (Free(NowCorrected(c)) => f.provider = NoMethod)
    BY <2>2, FormFits
  <2>4. /\ form' = [form EXCEPT ![t] = g] /\ cart' = [cart EXCEPT ![t] = NowCorrected(c)]
        /\ page' = page
    BY <1>5, CorrectedStep DEF HandleValidationErrors
  <2>5. cart'[t] = NowCorrected(c) /\ \A u \in Tabs \ {t} : cart'[u] = cart[u]
    BY <1>0, <2>1, <2>4
  <2> HIDE DEF f, t
  <2>6. Fits(g) /\ (page[t] = "cart" => g = f)
    BY <2>1, <2>3 DEF OnCart
  <2> HIDE DEF g
  <2> QED
    BY <2>1, <2>3, <2>4, <2>5, <2>6, FormChange
<1>6. ASSUME NEW t \in Tabs, UNCHANGED <<page, cart>>,
             form' = [form EXCEPT ![t] = OnCart(t, ShowError(form[t]))]
      PROVE  ProviderInv'
  <2>1. Fits(ShowError(form[t])) /\ ShowError(form[t]).provider = form[t].provider
    BY <1>0, FormFits
  <2>2. /\ Fits(OnCart(t, ShowError(form[t])))
        /\ OnCart(t, ShowError(form[t])).provider = form[t].provider
    BY <1>0, <2>1 DEF OnCart
  <2>3. page[t] = "cart" /\ Free(cart[t]) => form[t].provider = NoMethod
    BY DEF ProviderInv, FreeHasNone
  <2> QED
    BY <1>6, <2>2, <2>3, FormChange
<1>7. ASSUME NEW c \in Calls, CheckoutFailed(c) PROVE ProviderInv'
  BY <1>0, <1>6, <1>7 DEF CheckoutFailed
<1>8. ASSUME NEW c \in Calls, Redirect(c) PROVE ProviderInv'
  <2>1. \A u \in Tabs : page'[u] = "cart" => page[u] = "cart"
    BY <1>0, <1>8 DEF Redirect
  <2> QED
    BY <1>8, <2>1 DEF Redirect, ProviderInv, ChosenIsOffered, FreeHasNone
<1>9. ASSUME NEW c \in Calls, NEW ok \in BOOLEAN, VerifyPayment(c, ok) PROVE ProviderInv'
  <2>1. CASE ok
    BY <1>0, <1>9, <2>1, FormFits, FormChange DEF VerifyPayment
  <2>2. CASE ~ok
    BY <1>0, <1>6, <1>9, <2>2 DEF VerifyPayment
  <2> QED
    BY <2>1, <2>2
<1> QED
  BY <1>2, <1>3, <1>4, <1>5, <1>7, <1>8, <1>9 DEF Answer

LEMMA ProviderStep == TypeInv /\ ProviderInv /\ [Next]_vars => ProviderInv'
<1> SUFFICES ASSUME TypeInv, ProviderInv, [Next]_vars PROVE ProviderInv'
  OBVIOUS
<1>1. CASE Operator
  BY <1>1 DEF Operator, Reprice, Restock, SwitchVariant, SwitchProduct, SplitProduct,
              Shop, ProviderInv, ChosenIsOffered, FreeHasNone
<1>2. CASE UNCHANGED vars
  BY <1>2 DEF vars, ProviderInv, ChosenIsOffered, FreeHasNone
<1> QED
  BY <1>1, <1>2, BuyerProvider, AnswerProvider DEF Next

\* However the answers about payment systems, the buyer's edits and the server's
\* refusals come, a cart page holds no system the shop has not offered it, and
\* none for a cart that costs nothing (the page's effect, and loadPaymentMethods).
THEOREM ProvidersAreOffered == Spec => []ProviderIsOffered
<1>1. Init => TypeInv /\ ProviderInv
  BY TypeInit, ProviderInit
<1>2. TypeInv /\ ProviderInv /\ [Next]_vars => (TypeInv /\ ProviderInv)'
  BY TypeStep, ProviderStep
<1>3. ProviderInv => ProviderIsOffered
  BY DEF ProviderInv, ChosenIsOffered, FreeHasNone, Fits, ProviderIsOffered
<1> QED
  BY <1>1, <1>2, <1>3, PTL DEF Spec

-----------------------------------------------------------------------------
(* The life of a checkout.                                                 *)

Same(d) ==
  /\ call'[d].step = call[d].step /\ call'[d].via = call[d].via
  /\ call'[d].sent = call[d].sent /\ call'[d].unfit = call[d].unfit
  /\ unit'[d] = unit[d]

\* A step leaves a checkout as it was, or takes it to a stage of no consequence,
\* or validates it, or has its window take the money.
LEMMA BuyerCalls ==
  ASSUME TypeInv, NEW t \in Tabs, Buyer(t), NEW d \in Calls
  PROVE  /\ ordered' = ordered /\ unit' = unit
         /\ Same(d) \/ call'[d].step = "posted"
<1>0. call \in [Calls -> Call]
  BY DEF TypeInv, TypeOK
<1>1. ASSUME NEW c \in Calls, CheckOut(t, c)
      PROVE  Same(d) \/ call'[d].step = "posted"
  <2> DEFINE k == [BlankCall EXCEPT !.tab = t, !.via = form[t].provider,
                                    !.sent = cart[t], !.step = "posted"]
  <2>1. call' = call \/ call' = [call EXCEPT ![c] = k]
    BY <1>1 DEF CheckOut
  <2>2. k.step = "posted"
    BY BlankCallType DEF Call
  <2> HIDE DEF k
  <2> QED
    BY <1>0, <1>1, <2>1, <2>2 DEF CheckOut, Same, server
<1> QED
  BY <1>1 DEF Buyer, OpenProduct, RemoveLine, SetQuantity, ToggleCartItem, OpenCart,
              CloseOverlay, Success, Cancel, Emptied, PageShow, ChooseProvider, CheckOut,
              Same, server

LEMMA AnswerCalls ==
  ASSUME TypeInv, Answer, NEW d \in Calls
  PROVE  /\ ordered \subseteq ordered'
         /\ \/ Same(d) \/ call'[d].step \in {"listed", "failed", "over"}
            \/ Validate(d) \/ RequestPayment(d, TRUE)
<1> DEFINE Moved == \/ Same(d) \/ call'[d].step \in {"listed", "failed", "over"}
                    \/ Validate(d) \/ RequestPayment(d, TRUE)
<1>0. call \in [Calls -> Call] /\ unit \in [Calls -> [Items -> Prices]]
  BY DEF TypeInv, TypeOK
<1>1. ASSUME NEW t \in Tabs, NEW ok \in BOOLEAN, MethodsAnswer(t, ok) \/ ConfigAnswer(t, ok)
      PROVE  Moved
  BY <1>1 DEF MethodsAnswer, ConfigAnswer, Same, server
<1>2. ASSUME NEW c \in Calls, ListPublic(c) PROVE Moved
  <2> DEFINE k == [call[c] EXCEPT !.step = "listed",
                                  !.public = {p \in Products : state[p] = "active"}]
  <2>1. k.step = "listed"
    BY <1>0 DEF Call
  <2>2. call' = [call EXCEPT ![c] = k] /\ unit' = unit
    BY <1>0, <1>2 DEF ListPublic, server
  <2> HIDE DEF k
  <2> QED
    BY <1>0, <2>1, <2>2 DEF Same
<1>3. ASSUME NEW c \in Calls, d # c, Validate(c) PROVE Same(d)
  BY <1>0, <1>3 DEF Validate, Same, server
<1>4. ASSUME NEW c \in Calls, HandleValidationErrors(c) PROVE Moved
  BY <1>0, <1>4, OverCall DEF HandleValidationErrors, Same, server
<1>5. ASSUME NEW c \in Calls, NEW s \in CallSteps, call' = [call EXCEPT ![c].step = s],
             unit' = unit
      PROVE  Same(d) \/ (d = c /\ call'[d].step = s)
  BY <1>5, StepTypes DEF Same
<1>6. ASSUME NEW c \in Calls, NEW ok \in BOOLEAN,
             CheckoutFailed(c) \/ RequestPayment(c, ok) \/ VerifyPayment(c, ok)
      PROVE  Moved
  <2>1. unit' = unit
    BY <1>6 DEF CheckoutFailed, RequestPayment, VerifyPayment, server
  <2>2. CASE CheckoutFailed(c)
    BY <1>5, <2>1, <2>2 DEF CheckoutFailed, CallSteps
  <2>3. CASE RequestPayment(c, ok)
    <3>1. CASE ok
      <4>1. call' = [call EXCEPT ![c].step = "charged"]
        BY <2>3, <3>1 DEF RequestPayment
      <4>2. Same(d) \/ d = c
        BY <1>5, <2>1, <4>1 DEF CallSteps
      <4>3. RequestPayment(c, TRUE)
        BY <2>3, <3>1 DEF RequestPayment
      <4> QED
        BY <4>2, <4>3
    <3>2. CASE ~ok
      <4>1. call' = [call EXCEPT ![c].step = "failed"]
        BY <2>3, <3>2 DEF RequestPayment
      <4> QED
        BY <1>5, <2>1, <4>1 DEF CallSteps
    <3> QED
      BY <3>1, <3>2
  <2>4. CASE VerifyPayment(c, ok)
    BY <1>5, <2>1, <2>4 DEF VerifyPayment, CallSteps
  <2> QED
    BY <1>6, <2>2, <2>3, <2>4
<1>7. ASSUME NEW c \in Calls, Redirect(c) PROVE Moved
  <2>0. unit' = unit
    BY <1>7 DEF Redirect, server
  <2>1. CASE d = c
    <3>1. call'[d] = [call[c] EXCEPT !.step = "over"]
      BY <1>7, <2>1 DEF Redirect
    <3> QED
      BY <1>0, <2>1, <3>1 DEF Call
  <2>2. CASE d # c
    <3> DEFINE b == call[d].deaf \/ (call[d].tab = call[c].tab /\ call[d].step # "new")
    <3>1. call'[d] = [call[d] EXCEPT !.deaf = b]
      BY <1>7, <2>2 DEF Redirect
    <3> HIDE DEF b
    <3> QED
      BY <1>0, <2>0, <3>1 DEF Call, Same
  <2> QED
    BY <2>1, <2>2
<1>8. ordered \subseteq ordered'
  BY DEF Answer, MethodsAnswer, ConfigAnswer, ListPublic, Validate, HandleValidationErrors,
         CheckoutFailed, Redirect, RequestPayment, VerifyPayment, server
<1>9. Moved
  BY <1>1, <1>2, <1>3, <1>4, <1>6, <1>7 DEF Answer
<1> QED
  BY <1>8, <1>9

-----------------------------------------------------------------------------
(* What PortOne's window takes.                                            *)

\* The order of a checkout that has one, and its prices if the window takes them.
Agreed(c) ==
  /\ call[c].step \in {"ordered", "charged"} => c \in ordered
  /\ call[c].step = "charged" => call[c].via = Portone
  /\ call[c].step \in {"ordered", "charged"} /\ call[c].via = Portone
       => \A i \in InCart(call[c].sent) :
            call[c].sent.line[i].amount \in {0, unit[c][i]}
PortoneInv == \A c \in Calls : Agreed(c)

\* The order is made at the prices of the validation, which has compared them.
LEMMA ValidateAgrees ==
  ASSUME TypeInv, NEW c \in Calls, Validate(c)
  PROVE  Agreed(c)'
<1> DEFINE k == call[c]
<1>0. call \in [Calls -> Call] /\ unit \in [Calls -> [Items -> Prices]]
  BY DEF TypeInv, TypeOK
<1>1. CASE call' = [call EXCEPT ![c].step = "refused", ![c].unfit = Unfit(k),
                                ![c].dearer = Dearer(k)]
  <2> DEFINE n == [call[c] EXCEPT !.step = "refused", !.unfit = Unfit(call[c]),
                                  !.dearer = Dearer(call[c])]
  <2>1. n.step = "refused"
    BY <1>0 DEF Call
  <2>2. call' = [call EXCEPT ![c] = n]
    BY <1>0, <1>1
  <2> HIDE DEF n
  <2> QED
    BY <1>0, <2>1, <2>2 DEF Agreed
<1>2. CASE call' = [call EXCEPT ![c].step = "failed"]
  <2>1. "failed" \in CallSteps
    BY DEF CallSteps
  <2>2. call'[c].step = "failed"
    BY <1>2, <2>1, StepOf
  <2> QED
    BY <2>2 DEF Agreed
<1>3. CASE /\ call' = [call EXCEPT ![c].step = "ordered"]
           /\ Unfit(k) \cup Dearer(k) = {}
           /\ ordered' = ordered \cup {c} /\ unit' = [unit EXCEPT ![c] = price]
  <2>1. call'[c].step = "ordered" /\ call'[c].sent = k.sent /\ call'[c].via = k.via
    <3>1. "ordered" \in CallSteps
      BY DEF CallSteps
    <3> QED
      BY <1>3, <3>1, StepOf
  <2>2. c \in ordered' /\ unit'[c] = price
    BY <1>0, <1>3
  <2>3. ASSUME k.via = Portone, NEW i \in InCart(k.sent)
        PROVE  k.sent.line[i].amount \in {0, price[i]}
    <3>1. Sellable(i)
      BY <1>3, <2>3 DEF Unfit
    <3>2. ~(k.sent.line[i].amount > 0 /\ k.sent.line[i].amount # price[i])
      BY <1>3, <2>3, <3>1 DEF Dearer
    <3>3. k.sent.line[i].amount \in Nat
      BY <1>0, StorefrontAssumption DEF Call, Cart, Line, Prices, InCart
    <3> QED
      BY <3>2, <3>3
  <2> QED
    BY <2>1, <2>2, <2>3 DEF Agreed
<1> QED
  BY <1>1, <1>2, <1>3 DEF Validate

LEMMA PortoneStep == TypeInv /\ PortoneInv /\ [Next]_vars => PortoneInv'
<1> SUFFICES ASSUME TypeInv, PortoneInv, [Next]_vars, NEW d \in Calls PROVE Agreed(d)'
  BY DEF PortoneInv
<1>0. Agreed(d)
  BY DEF PortoneInv
<1>1. ASSUME Same(d), ordered \subseteq ordered' PROVE Agreed(d)'
  BY <1>0, <1>1 DEF Agreed, Same
<1>2. ASSUME call'[d].step \in {"posted", "listed", "failed", "over"} PROVE Agreed(d)'
  BY <1>2 DEF Agreed
<1>3. CASE UNCHANGED vars \/ Operator
  <2>1. Same(d) /\ ordered' = ordered
    BY <1>3 DEF vars, Operator, Reprice, Restock, SwitchVariant, SwitchProduct,
                SplitProduct, Shop, Same, server
  <2> QED
    BY <1>1, <2>1
<1>4. ASSUME NEW t \in Tabs, Buyer(t) PROVE Agreed(d)'
  BY <1>1, <1>2, <1>4, BuyerCalls
<1>5. CASE RequestPayment(d, TRUE)
  <2>1. call' = [call EXCEPT ![d].step = "charged"] /\ UNCHANGED <<ordered, unit>>
    BY <1>5 DEF RequestPayment, server
  <2>2. call'[d].step = "charged" /\ call'[d].sent = call[d].sent
        /\ call'[d].via = call[d].via
    <3>1. "charged" \in CallSteps
      BY DEF CallSteps
    <3> QED
      BY <2>1, <3>1, StepOf
  <2> QED
    BY <1>0, <1>5, <2>1, <2>2 DEF RequestPayment, Agreed
<1>6. CASE Answer
  BY <1>1, <1>2, <1>5, <1>6, AnswerCalls, ValidateAgrees
<1> QED
  BY <1>3, <1>4, <1>6 DEF Next

\* What PortOne's window takes is what the order was made at, whatever the
\* operator reprices between the page, the validation and the window (the total
\* the page hands the window; the prices CreateCart stores).
THEOREM WindowTakesTheOrder == Spec => []PortoneChargesTheOrder
<1>1. Init => TypeInv /\ PortoneInv
  BY TypeInit DEF Init, BlankCall, PortoneInv, Agreed
<1>2. TypeInv /\ PortoneInv /\ [Next]_vars => (TypeInv /\ PortoneInv)'
  BY TypeStep, PortoneStep
<1>3. PortoneInv => PortoneChargesTheOrder
  BY DEF PortoneInv, Agreed, PortoneChargesTheOrder
<1> QED
  BY <1>1, <1>2, <1>3, PTL DEF Spec

-----------------------------------------------------------------------------
(* The lines marked for deletion.                                          *)

\* The items a refusal names: refused, and in the cart that was sent.
Names(c) ==
  call[c].step = "refused" =>
    call[c].unfit \subseteq refused /\ call[c].unfit \subseteq InCart(call[c].sent)
MarksAreTrue ==
  strayed \/ (Marked(stored) \subseteq refused
              /\ \A t \in Tabs : Marked(cart[t]) \subseteq refused)
MarkInv == (\A c \in Calls : Names(c)) /\ MarksAreTrue

LEMMA MarkInit == Init => MarkInv
<1> SUFFICES ASSUME Init PROVE MarkInv
  OBVIOUS
<1>1. \A c \in Calls : Names(c)
  BY DEF Init, BlankCall, Names
<1>2. MarksAreTrue
  BY EmptyGood DEF Init, MarksAreTrue
<1> QED
  BY <1>1, <1>2 DEF MarkInv

LEMMA RefusalNames ==
  ASSUME TypeInv, NEW c \in Calls, Validate(c)
  PROVE  Names(c)' /\ refused \subseteq refused'
<1> DEFINE k == call[c]
<1>0. call \in [Calls -> Call]
  BY DEF TypeInv, TypeOK
<1>1. CASE /\ call' = [call EXCEPT ![c].step = "refused", ![c].unfit = Unfit(k),
                                   ![c].dearer = Dearer(k)]
           /\ refused' = refused \cup Unfit(k)
  <2> DEFINE n == [call[c] EXCEPT !.step = "refused", !.unfit = Unfit(call[c]),
                                  !.dearer = Dearer(call[c])]
  <2>1. n.unfit = Unfit(k) /\ n.sent = k.sent
    BY <1>0 DEF Call
  <2>2. call' = [call EXCEPT ![c] = n]
    BY <1>0, <1>1
  <2> HIDE DEF n
  <2>3. call'[c].unfit = Unfit(k) /\ call'[c].sent = k.sent
    BY <1>0, <2>1, <2>2
  <2>4. Unfit(k) \subseteq InCart(k.sent)
    BY DEF Unfit
  <2> QED
    BY <1>1, <2>3, <2>4 DEF Names
<1>2. ASSUME NEW s \in {"failed", "ordered"}, call' = [call EXCEPT ![c].step = s],
             refused' = refused
      PROVE  Names(c)' /\ refused \subseteq refused'
  <2>1. s \in CallSteps
    BY DEF CallSteps
  <2>2. call'[c].step = s
    BY <1>2, <2>1, StepOf
  <2> QED
    BY <1>2, <2>2 DEF Names
<1> QED
  BY <1>1, <1>2 DEF Validate

\* While no answer has met another list, the place of a line is its own: what the
\* page marks is what the server named.
LEMMA CorrectedMarks ==
  ASSUME TypeInv, MarkInv, NEW c \in Calls, HandleValidationErrors(c), ~strayed'
  PROVE  Marked(NowCorrected(c)) \subseteq refused
<1> DEFINE now == cart[call[c].tab]
           sent == call[c].sent
<1>0. call[c].tab \in Tabs
  BY DEF TypeInv, TypeOK, Call
<1>1. ~strayed /\ InCart(now) = InCart(sent) /\ now.before = sent.before
  BY CorrectedStep
<1>2. Marked(now) \subseteq refused
  BY <1>0, <1>1 DEF MarkInv, MarksAreTrue
<1>3. call[c].unfit \subseteq refused /\ call[c].unfit \subseteq InCart(sent)
  BY DEF HandleValidationErrors, MarkInv, Names
<1>4. ASSUME NEW i \in Items, Corrected(now, c, i).gone PROVE i \in refused
  <2>1. CASE now.line[i].gone
    BY <1>2, <2>1 DEF Marked
  <2>2. CASE now.line[i].qty # 0 /\ \E j \in call[c].unfit : SamePlace(now, i, sent, j)
    <3>1. PICK j \in call[c].unfit : SamePlace(now, i, sent, j)
      BY <2>2
    <3>2. now.line[i].qty > 0
      BY <1>0, <2>2 DEF TypeInv, TypeOK, Cart, Line
    <3>3. i \in InCart(sent) /\ j \in InCart(sent)
      BY <1>1, <1>3, <3>2 DEF InCart
    <3>4. Above(now, i) = Above(sent, i)
      BY <1>1 DEF Above
    <3>5. Cardinality(Above(sent, i)) = Cardinality(Above(sent, j))
      BY <3>1, <3>4 DEF SamePlace
    <3>6. i = j
      BY <3>3, <3>5, CartsAreGood, OnePlace
    <3> QED
      BY <1>3, <3>6
  <2>3. ASSUME NEW x PROVE [now.line[i] EXCEPT !.amount = x].gone = now.line[i].gone
    <3>1. now.line[i] \in Line
      BY <1>0 DEF TypeInv, TypeOK, Cart
    <3> QED
      BY <3>1 DEF Line
  <2> QED
    BY <1>4, <2>1, <2>2, <2>3 DEF Corrected
<1>5. \A i \in Items : NowCorrected(c).line[i] = Corrected(now, c, i)
  BY CorrectedGood
<1> QED
  BY <1>4, <1>5 DEF Marked

\* A write of the buyer marks nothing.
LEMMA WriteMarks ==
  ASSUME TypeInv, MarkInv, NEW t \in Tabs, NEW d, Marked(d) \subseteq Marked(cart[t]),
         Write(t, d), UNCHANGED history
  PROVE  MarksAreTrue'
<1>1. stored' = d /\ cart'[t] = d /\ \A u \in Tabs \ {t} : cart'[u] = cart[u]
  BY DEF Write, TypeInv, TypeOK
<1> QED
  BY <1>1 DEF MarkInv, MarksAreTrue, history

LEMMA BuyerMarks ==
  ASSUME TypeInv, MarkInv, NEW t \in Tabs, Buyer(t)
  PROVE  MarksAreTrue' /\ refused' = refused
<1>0. /\ Good(cart[t]) /\ cart \in [Tabs -> Cart]
      /\ view[t].item \in Items /\ view[t].amount \in Prices
  BY CartsAreGood DEF TypeInv, TypeOK
<1>1. ASSUME NEW i \in Items, RemoveLine(t, i) PROVE MarksAreTrue'
  BY <1>0, <1>1, RemoveGood, WriteMarks DEF RemoveLine, server
<1>2. ASSUME NEW i \in Items, NEW q \in 1..MaxQuantity, SetQuantity(t, i, q)
      PROVE  MarksAreTrue'
  BY <1>0, <1>2, SetQtyGood, WriteMarks DEF SetQuantity
<1>3. ASSUME NEW q \in 1..MaxQuantity, ToggleCartItem(t, q) PROVE MarksAreTrue'
  BY <1>0, <1>3, RemoveGood, AddGood, WriteMarks DEF ToggleCartItem
<1>4. CASE OpenCart(t) \/ PageShow(t)
  BY <1>0, <1>4 DEF OpenCart, PageShow, MarkInv, MarksAreTrue, history
<1>5. CASE Success(t) \/ Cancel(t)
  BY <1>0, <1>5, EmptyGood DEF Success, Cancel, Emptied, MarkInv, MarksAreTrue, history
<1>6. ASSUME UNCHANGED <<stored, cart, history>> PROVE MarksAreTrue'
  BY <1>6 DEF MarkInv, MarksAreTrue, history
<1>7. MarksAreTrue'
  BY <1>1, <1>2, <1>3, <1>4, <1>5, <1>6
  DEF Buyer, OpenProduct, CloseOverlay, ChooseProvider, CheckOut
<1>8. refused' = refused
  BY DEF Buyer, OpenProduct, RemoveLine, SetQuantity, ToggleCartItem, OpenCart,
         CloseOverlay, Success, Cancel, Emptied, PageShow, ChooseProvider, CheckOut, history
<1> QED
  BY <1>7, <1>8

LEMMA AnswerMarks ==
  ASSUME TypeInv, MarkInv, Answer
  PROVE  MarksAreTrue' /\ refused \subseteq refused'
<1>0. cart \in [Tabs -> Cart] /\ \A c \in Calls : call[c].tab \in Tabs
  BY DEF TypeInv, TypeOK, Call
<1>1. ASSUME UNCHANGED <<stored, cart, strayed>>, refused \subseteq refused'
      PROVE  MarksAreTrue'
  BY <1>1 DEF MarkInv, MarksAreTrue
<1>2. ASSUME NEW c \in Calls, Validate(c)
      PROVE  MarksAreTrue' /\ refused \subseteq refused'
  BY <1>1, <1>2, RefusalNames DEF Validate
<1>3. ASSUME NEW c \in Calls, HandleValidationErrors(c)
      PROVE  MarksAreTrue' /\ refused' = refused
  <2>1. refused' = refused /\ (~strayed' => ~strayed)
    BY <1>3 DEF HandleValidationErrors
  <2>2. /\ stored' = NowCorrected(c) /\ cart'[call[c].tab] = NowCorrected(c)
        /\ \A u \in Tabs \ {call[c].tab} : cart'[u] = cart[u]
    BY <1>0, <1>3, CorrectedStep
  <2>3. ~strayed' => Marked(NowCorrected(c)) \subseteq refused
    BY <1>3, CorrectedMarks
  <2> QED
    BY <2>1, <2>2, <2>3 DEF MarkInv, MarksAreTrue
<1>4. ASSUME NEW c \in Calls, NEW ok \in BOOLEAN, VerifyPayment(c, ok)
      PROVE  MarksAreTrue' /\ refused' = refused
  <2>1. UNCHANGED <<refused, strayed>>
    BY <1>4 DEF VerifyPayment, history
  <2>2. CASE ok
    <3>1. /\ stored' = EmptyCart /\ cart'[call[c].tab] = EmptyCart
          /\ \A u \in Tabs \ {call[c].tab} : cart'[u] = cart[u]
      BY <1>0, <1>4, <2>2 DEF VerifyPayment
    <3> QED
      BY <2>1, <3>1, EmptyGood DEF MarkInv, MarksAreTrue
  <2>3. CASE ~ok
    BY <1>1, <1>4, <2>1, <2>3 DEF VerifyPayment
  <2> QED
    BY <2>1, <2>2, <2>3
<1>5. ASSUME UNCHANGED <<stored, cart, history>>
      PROVE  MarksAreTrue' /\ refused' = refused
  BY <1>1, <1>5 DEF history
<1> QED
  BY <1>2, <1>3, <1>4, <1>5
  DEF Answer, MethodsAnswer, ConfigAnswer, ListPublic, CheckoutFailed, Redirect,
      RequestPayment

LEMMA MarkStep == TypeInv /\ MarkInv /\ [Next]_vars => MarkInv'
<1> SUFFICES ASSUME TypeInv, MarkInv, [Next]_vars PROVE MarkInv'
  OBVIOUS
<1>1. ASSUME NEW d \in Calls, Same(d), refused \subseteq refused' PROVE Names(d)'
  BY <1>1 DEF MarkInv, Names, Same
<1>2. CASE UNCHANGED vars \/ Operator
  <2>1. UNCHANGED <<stored, cart, history, call, unit>>
    BY <1>2 DEF vars, Operator, Reprice, Restock, SwitchVariant, SwitchProduct,
                SplitProduct, Shop, server
  <2> QED
    BY <1>1, <2>1 DEF MarkInv, MarksAreTrue, Same, history
<1>3. ASSUME NEW t \in Tabs, Buyer(t) PROVE MarkInv'
  <2>1. ASSUME NEW d \in Calls, call'[d].step = "posted" PROVE Names(d)'
    BY <2>1 DEF Names
  <2> QED
    BY <1>1, <1>3, <2>1, BuyerCalls, BuyerMarks DEF MarkInv
<1>4. CASE Answer
  <2>1. ASSUME NEW d \in Calls, call'[d].step \in {"listed", "failed", "over", "charged"}
        PROVE  Names(d)'
    BY <2>1 DEF Names
  <2>2. ASSUME NEW d \in Calls, RequestPayment(d, TRUE) PROVE call'[d].step = "charged"
    <3>1. call' = [call EXCEPT ![d].step = "charged"] /\ "charged" \in CallSteps
      BY <2>2 DEF RequestPayment, CallSteps
    <3> QED
      BY <3>1, StepOf
  <2>3. \A d \in Calls : Names(d)'
    BY <1>1, <1>4, <2>1, <2>2, AnswerCalls, AnswerMarks, RefusalNames
  <2> QED
    BY <1>4, <2>3, AnswerMarks DEF MarkInv
<1> QED
  BY <1>2, <1>3, <1>4 DEF Next

\* A line is marked for deletion in no tab unless the server has refused its
\* item, as long as no answer has met another list than was sent: the places the
\* server and the page count lines by are the same (handleValidationErrors).
THEOREM MarksAreRefusals == Spec => []MarkedWereRefused
<1>1. Init => TypeInv /\ MarkInv
  BY TypeInit, MarkInit
<1>2. TypeInv /\ MarkInv /\ [Next]_vars => (TypeInv /\ MarkInv)'
  BY TypeStep, MarkStep
<1>3. MarkInv => MarkedWereRefused
  BY DEF MarkInv, MarksAreTrue, Marked, MarkedWereRefused
<1> QED
  BY <1>1, <1>2, <1>3, PTL DEF Spec

=============================================================================
