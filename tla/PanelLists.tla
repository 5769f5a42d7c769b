----------------------------- MODULE PanelLists -----------------------------
(***************************************************************************)
(* The panel's two plain lists, of content pages and of orders: a paged    *)
(* table, and a drawer over it.  Which of the two is open is chosen at the *)
(* start.  Orders are only looked at, and their letter is sent again;      *)
(* pages are added, edited, switched on and off, and deleted.              *)
(*                                                                         *)
(* Requests overlap and are answered in any order; a patient operator      *)
(* waits for each answer, and for the closed drawer to be gone.            *)
(***************************************************************************)
EXTENDS Naturals, Sequences, FiniteSets, SequencesExt

CONSTANTS Items,      \* the pages, or the orders, there may be
          None, New,  \* New: the text of a page not yet created
          PageSize, MaxMoves, MaxFlight

VARIABLES
  which,     \* the list that is open
  catalog, active,       \* the server's items; a page is active, an order is paid
  page, rows, loading,
  order,     \* history: the server's items as the last list was read
  drawerOpen, drawerMode, drawerItem, resetting,
  formData,  \* whose text the form holds
  cart,      \* the order the drawer has loaded
  flight, moves, patient, strayed

server == <<catalog, active>>
list == <<page, rows, loading>>
drawer == <<drawerOpen, drawerMode, drawerItem, resetting>>
vars == <<which, server, order, list, drawer, formData, cart, flight, moves, patient, strayed>>
-----------------------------------------------------------------------------
ConstantsTyped ==
  /\ Items # {} /\ IsFiniteSet(Items) /\ None \notin Items /\ New \notin Items
  /\ PageSize \in Nat \ {0} /\ MaxMoves \in Nat

Rows == [id: Items \cup {None}, active: BOOLEAN]
Row(x) == [id |-> x, active |-> active[x]]
Listed == {catalog[i] : i \in DOMAIN catalog}
Pages == 1..Cardinality(Items)
PageOf(s, n) ==
  [i \in 1..Cardinality({j \in 1..PageSize : (n - 1) * PageSize + j <= Len(s)})
     |-> Row(s[(n - 1) * PageSize + i])]

Kinds == {"list", "cart", "edit", "mail", "create", "save", "seo", "delete", "toggle"}
Writes == {"mail", "create", "save", "seo", "delete", "toggle"}
Requests == [kind: Kinds, of: Items \cup {None}, text: Items \cup {New},
             n: Nat,          \* the page of a list, the row of a toggle
             was: BOOLEAN, closes: BOOLEAN,  \* the drawer closes after this list
             answer: {"sent", "ok", "failed", "lost"}, says: Seq(Rows)]
Request(k, x) == [kind |-> k, of |-> x, text |-> New, n |-> 0, was |-> FALSE,
                  closes |-> FALSE, answer |-> "sent", says |-> <<>>]
ListRequest(n, closes) == [Request("list", None) EXCEPT !.n = n, !.closes = closes]

TypeOK ==
  /\ which \in {"pages", "carts"}
  /\ catalog \in Seq(Items) /\ IsInjective(catalog) /\ active \in [Items -> BOOLEAN]
  /\ order \in Seq(Items) /\ IsInjective(order)
  /\ page \in Pages /\ rows \in Seq(Rows) /\ loading \in BOOLEAN
  /\ drawerOpen \in BOOLEAN /\ drawerMode \in {"add", "edit", "seo", "view"}
  /\ drawerItem \in Items \cup {None} /\ resetting \in BOOLEAN
  /\ formData \in Items \cup {New} /\ cart \in Items \cup {None}
  /\ flight \subseteq Requests /\ moves \in 0..MaxMoves
  /\ patient \in BOOLEAN /\ strayed \in BOOLEAN

Init ==
  /\ which \in {"pages", "carts"}
  /\ catalog \in SetToAllKPermutations(Items) /\ active \in [Items -> BOOLEAN]
  /\ order = catalog
  /\ page = 1 /\ rows = <<>> /\ loading = TRUE
  /\ drawerOpen = FALSE /\ drawerMode = "add" /\ drawerItem = None /\ resetting = FALSE
  /\ formData = New /\ cart = None
  /\ flight = {ListRequest(1, FALSE)} /\ moves = 0
  /\ patient \in BOOLEAN /\ strayed = FALSE
-----------------------------------------------------------------------------
(* The operator.  The list is hidden while it loads, and covered while a   *)
(* drawer is open.                                                         *)
Acts ==
  /\ moves < MaxMoves /\ moves' = moves + 1
  /\ Cardinality(flight) < MaxFlight
  /\ patient => flight = {} /\ ~resetting
  /\ UNCHANGED <<which, server, order, patient, strayed>>
Ask(r) == flight' = flight \cup {r}
OnRow(i) == ~loading /\ ~drawerOpen /\ i \in DOMAIN rows /\ rows[i].id # None
OnPages == which = "pages"

HandlePageChange(n) ==
  /\ Acts /\ ~loading /\ ~drawerOpen /\ n # page /\ (n - 1) * PageSize < Len(catalog)
  /\ loading' = TRUE /\ page' = n /\ Ask(ListRequest(n, FALSE))
  /\ UNCHANGED <<rows, drawer, formData, cart>>
OpenView(i) ==
  /\ which = "carts" /\ OnRow(i) /\ Acts
  /\ drawerItem' = rows[i].id /\ drawerOpen' = TRUE
  /\ cart' = None /\ Ask(Request("cart", rows[i].id))
  /\ UNCHANGED <<list, drawerMode, resetting, formData>>
\* Only a paid order has a letter to send.
SendMail(i) ==
  /\ which = "carts" /\ OnRow(i) /\ rows[i].active /\ Acts
  /\ Ask(Request("mail", rows[i].id))
  /\ UNCHANGED <<list, drawer, formData, cart>>

OpenAdd ==
  /\ OnPages /\ ~drawerOpen /\ Acts
  /\ formData' = New /\ drawerItem' = None
  /\ drawerMode' = "add" /\ drawerOpen' = TRUE
  /\ UNCHANGED <<list, resetting, cart, flight>>
\* Nothing changes before the page is loaded.
OpenEdit(i) ==
  /\ OnPages /\ OnRow(i) /\ Acts /\ Ask(Request("edit", rows[i].id))
  /\ UNCHANGED <<list, drawer, formData, cart>>
OpenSeo(i) ==
  /\ OnPages /\ OnRow(i) /\ Acts
  /\ drawerItem' = rows[i].id /\ drawerMode' = "seo" /\ drawerOpen' = TRUE
  /\ UNCHANGED <<list, resetting, formData, cart, flight>>
\* The order's component leaves with its drawer.
CloseDrawer(f) ==
  IF drawerOpen
  THEN /\ drawerOpen' = FALSE /\ resetting' = TRUE
       /\ flight' = {r \in f : r.kind # "cart"}
       /\ UNCHANGED <<drawerMode, drawerItem>>
  ELSE flight' = f /\ UNCHANGED drawer
Close ==
  /\ drawerOpen /\ CloseDrawer(flight)
  /\ UNCHANGED <<which, server, order, list, formData, cart, moves, patient, strayed>>
Reset ==
  /\ resetting /\ resetting' = FALSE /\ drawerItem' = None /\ drawerMode' = "add"
  /\ flight' = {r \in flight : r.kind # "cart"}
  /\ UNCHANGED <<which, server, order, list, drawerOpen, formData, cart, moves, patient, strayed>>

ShowsSeo == drawerOpen /\ drawerMode = "seo" /\ drawerItem # None
ShowsForm == OnPages /\ drawerOpen /\ ~ShowsSeo
HandleSubmit ==
  /\ ShowsForm /\ Acts
  /\ LET update == drawerMode = "edit" /\ drawerItem # None IN
     Ask([Request(IF update THEN "save" ELSE "create", IF update THEN drawerItem ELSE None)
            EXCEPT !.text = formData])
  /\ UNCHANGED <<list, drawer, formData, cart>>
SaveSeo ==
  /\ OnPages /\ ShowsSeo /\ Acts /\ Ask(Request("seo", drawerItem))
  /\ UNCHANGED <<list, drawer, formData, cart>>
DeleteFromFooter ==
  /\ ShowsForm /\ drawerMode = "edit" /\ drawerItem # None /\ Acts
  /\ Ask(Request("delete", drawerItem))
  /\ UNCHANGED <<list, drawer, formData, cart>>
ToggleActive(i) ==
  /\ OnPages /\ OnRow(i) /\ Acts
  /\ rows' = [rows EXCEPT ![i].active = ~@]
  /\ Ask([Request("toggle", rows[i].id) EXCEPT !.n = i, !.was = rows[i].active])
  /\ UNCHANGED <<page, loading, drawer, formData, cart>>
-----------------------------------------------------------------------------
(* The server.  It lists the pages by position, header or footer, and then *)
(* by an identity drawn at random: a new page may come anywhere, and a     *)
(* save, whose form has the position, may move the page it is for.  A new  *)
(* page is not active.                                                     *)
TakenIds == Items             \* mutant: an identity that is taken
NewIds == Items \ Listed
Without(x) == {RemoveAt(catalog, i) : i \in {j \in DOMAIN catalog : catalog[j] = x}}
Effect(r) ==
  CASE r.kind = "create" ->
         \E x \in NewIds, i \in 1..(Len(catalog) + 1) :
           /\ catalog' = InsertAt(catalog, i, x)
           /\ active' = [active EXCEPT ![x] = FALSE]
    [] r.kind = "save" ->
         \E s \in Without(r.of) : \E i \in 1..(Len(s) + 1) :
           catalog' = InsertAt(s, i, r.of) /\ UNCHANGED active
    [] r.kind = "delete" ->
         (IF r.of \in Listed THEN catalog' \in Without(r.of) ELSE UNCHANGED catalog)
           /\ UNCHANGED active
    [] r.kind = "toggle" -> active' = [active EXCEPT ![r.of] = ~@] /\ UNCHANGED catalog
    [] OTHER -> UNCHANGED server
\* Deleting what is not there is no error; anything else is.
Finds(r) == r.kind # "delete" /\ r.of # None => r.of \in Listed
Says(r) == IF r.kind = "list" THEN PageOf(catalog, r.n)
           ELSE IF r.kind \in {"toggle", "edit", "cart"} THEN <<Row(r.of)>> ELSE <<>>
Answer(r, a, says) ==
  flight' = (flight \ {r}) \cup {[r EXCEPT !.answer = a, !.says = says]}
Serve(r) ==
  /\ r \in flight /\ r.answer = "sent"
  /\ \/ /\ Finds(r) /\ Effect(r) /\ Answer(r, "ok", Says(r)')
        /\ order' = IF r.kind = "list" THEN catalog ELSE order
     \/ Answer(r, "failed", <<>>) /\ UNCHANGED <<server, order>>
     \/ /\ r.kind \in Writes /\ Finds(r) /\ UNCHANGED order
        /\ Effect(r) /\ Answer(r, "lost", <<>>)
  /\ UNCHANGED <<which, list, drawer, formData, cart, moves, patient, strayed>>
-----------------------------------------------------------------------------
(* The answers.                                                            *)
Hears(r, kinds) ==
  /\ r \in flight /\ r.answer # "sent" /\ r.kind \in kinds
  /\ strayed' = (strayed \/ r.answer = "lost" \/ (r.kind = "list" /\ r.answer = "failed"))
  /\ UNCHANGED <<which, server, order, moves, patient>>
Rest(r) == flight \ {r}
ListArrives(r) ==
  /\ Hears(r, {"list"}) /\ loading' = FALSE
  /\ rows' = IF r.answer = "ok" THEN r.says ELSE rows
  /\ IF r.closes THEN CloseDrawer(Rest(r)) ELSE flight' = Rest(r) /\ UNCHANGED drawer
  /\ UNCHANGED <<page, formData, cart>>
CartArrives(r) ==
  /\ Hears(r, {"cart"}) /\ flight' = Rest(r)
  /\ cart' = IF r.answer = "ok" THEN r.of ELSE cart
  /\ UNCHANGED <<list, drawer, formData>>
\* Mutant: the form is filled, the drawer stays on the page it was on.
EditOverPage(r) == drawerItem
EditedPage(r) == r.of
EditArrives(r) ==
  /\ Hears(r, {"edit"}) /\ flight' = Rest(r)
  /\ IF r.answer = "ok"
     THEN /\ formData' = r.of /\ drawerItem' = EditedPage(r)
          /\ drawerMode' = "edit" /\ drawerOpen' = TRUE
     ELSE UNCHANGED <<formData, drawerItem, drawerMode, drawerOpen>>
  /\ UNCHANGED <<list, resetting, cart>>
\* A new page and a deleted one are followed by a new list, and the first by
\* a closed drawer.  The answer to a save names no page and changes nothing.
ChangeArrives(r) ==
  /\ Hears(r, {"create", "delete"})
  /\ IF r.answer = "ok"
     THEN loading' = TRUE /\ flight' = Rest(r) \cup {ListRequest(page, r.kind = "create")}
     ELSE flight' = Rest(r) /\ UNCHANGED loading
  /\ UNCHANGED <<page, rows, drawer, formData, cart>>
MessageArrives(r) ==
  /\ Hears(r, {"save", "seo", "mail"}) /\ flight' = Rest(r)
  /\ UNCHANGED <<list, drawer, formData, cart>>
\* A row beyond the end of a list that has got shorter comes back.
KeptRow(r) == [id |-> rows[r.n].id, active |-> ~r.was]  \* mutant: no way back
OldRow(r) == [id |-> IF r.n \in DOMAIN rows THEN rows[r.n].id ELSE None, active |-> r.was]
ToggleArrives(r) ==
  /\ Hears(r, {"toggle"}) /\ flight' = Rest(r)
  /\ LET row == IF r.answer = "ok" THEN r.says[1] ELSE OldRow(r)
         none == [id |-> None, active |-> FALSE] IN
     rows' = [j \in 1..(IF r.n > Len(rows) THEN r.n ELSE Len(rows)) |->
                IF j = r.n THEN row ELSE IF j \in DOMAIN rows THEN rows[j] ELSE none]
  /\ UNCHANGED <<page, loading, drawer, formData, cart>>
-----------------------------------------------------------------------------
Operator ==
  \/ \E n \in Pages : HandlePageChange(n)
  \/ \E i \in DOMAIN rows : OpenView(i) \/ SendMail(i) \/ OpenEdit(i) \/ OpenSeo(i)
                            \/ ToggleActive(i)
  \/ OpenAdd \/ Close \/ HandleSubmit \/ SaveSeo \/ DeleteFromFooter
Arrive(r) == ListArrives(r) \/ CartArrives(r) \/ EditArrives(r) \/ ChangeArrives(r)
             \/ MessageArrives(r) \/ ToggleArrives(r)
Network == \E r \in flight : Serve(r) \/ Arrive(r)
Next == Operator \/ Reset \/ Network
Spec == Init /\ [][Next]_vars
-----------------------------------------------------------------------------
(* However the operator hurries, what is saved for a page was loaded from  *)
(* it: the form and the page it is for are set together.                   *)
SavedToItsOwnPage ==
  \A r \in flight : r.kind = "save" => r.text = r.of

(* However the operator hurries, the order the drawer shows is the one the *)
(* drawer is open on.                                                      *)
CartIsTheDrawers ==
  which = "carts" /\ drawerOpen /\ {drawerItem, cart} \cap {None} = {} => cart = drawerItem

(* For an operator who waits, the table shows the items and the status the *)
(* server has, unless an answer was lost or the table could not be loaded. *)
(* Their order is that of the last list: the page is not loaded again when *)
(* a save has moved one, and only a save makes order and catalog differ.   *)
TableAgreesWithServer ==
  patient /\ flight = {} /\ ~strayed =>
    rows = PageOf(order, page) /\ {order[i] : i \in DOMAIN order} = Listed

(* The table is the server's page also after a save.  The page breaks      *)
(* this: the answer to a save holds no page, so nothing is put in its      *)
(* place, and a page whose position was edited stays where it was.         *)
SavedPageIsInItsPlace ==
  patient /\ flight = {} /\ ~strayed => rows = PageOf(catalog, page)

(* A page that was deleted is not offered for saving any more.  The page   *)
(* breaks this: deleteFromFooter leaves its drawer open.                   *)
DeletedPageIsGone ==
  patient /\ flight = {} /\ ShowsForm /\ drawerMode = "edit" => drawerItem \in Listed
=============================================================================
