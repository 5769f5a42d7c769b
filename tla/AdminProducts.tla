---------------------------- MODULE AdminProducts ---------------------------
(***************************************************************************)
(* The products page of the panel: the paged list, the one drawer it opens *)
(* in six modes, the edit form, the two switches of a product's status,    *)
(* and the requests behind them.  Requests overlap; each is answered at    *)
(* the server (Serve) and heard later (Arrive), unless the component that  *)
(* asked has left with its drawer.                                         *)
(*                                                                         *)
(* The operator is of one of three kinds, chosen at the start: one who     *)
(* waits for every answer, one who waits only before opening a drawer, and *)
(* one who does not wait at all.                                           *)
(***************************************************************************)
EXTENDS Naturals, Sequences, FiniteSets, SequencesExt

CONSTANTS Products, None, New,  \* New: the text of a product not yet created
          Blank,                \* the text of a product saved without its fields
          PageSize, MaxMoves, MaxFlight, Patience

ASSUME AdminProductsAssumption ==
  /\ Products # {} /\ IsFiniteSet(Products)
  /\ {None, New, Blank} \cap Products = {}
  /\ None # New /\ New # Blank /\ None # Blank
  /\ PageSize \in Nat \ {0} /\ MaxMoves \in Nat /\ MaxFlight \in Nat
  /\ Patience \subseteq {"waits", "waitsToOpen", "hurries"}

VARIABLES
  catalog,   \* the server's products, newest first
  store,     \* what it keeps of each
  page, rows, loading,   \* the list
  drawerOpen, drawerMode, drawerProduct,
  resetting, \* createDelayedReset's timer is running
  form, full,            \* formData, fullProductData
  view,      \* ProductView's own copy
  csv,       \* the state of the CSV drawer
  flight, moves,
  patience,
  strayed    \* history: something has happened that the page does not follow

server == <<catalog, store>>
list == <<page, rows, loading>>
drawer == <<drawerOpen, drawerMode, drawerProduct, resetting>>
parts == <<form, full, view, csv>>
vars == <<server, list, drawer, parts, flight, moves, patience, strayed>>
-----------------------------------------------------------------------------
Texts == Products \cup {New, Blank}
Rows == [id: Products \cup {None}, text: Texts, active: BOOLEAN]
NoRow == [id |-> None, text |-> New, active |-> FALSE]
Row(p) == [id |-> p, text |-> store[p].text, active |-> store[p].active]

Pages == 1..Cardinality(Products)
ServerPage(n) == [i \in 1..Cardinality({j \in 1..PageSize : (n - 1) * PageSize + j <= Len(catalog)})
                    |-> Row(catalog[(n - 1) * PageSize + i])]

Forms == [text: Texts, named: BOOLEAN, slugged: BOOLEAN]
EmptyForm == [text |-> New, named |-> FALSE, slugged |-> FALSE]
FormOf(row) == [text |-> row.text, named |-> row.text # Blank, slugged |-> row.text # Blank]

Reads == {"list", "listThenClose", "edit", "view", "reread", "slug", "preview"}
Writes == {"create", "save", "saveSeo", "delete", "toggle", "toggleInView",
           "toggleInEdit", "import", "importUnheard"}
Requests == [kind: Reads \cup Writes, of: Products \cup {None},
             n: 0..Cardinality(Products),  \* the page asked for, or the row it is about
             was: BOOLEAN, text: Texts,    \* a toggle's original status; the data sent
             answer: {"sent", "ok", "refused", "lost"}, says: Seq(Rows)]
Request(k, p) == [kind |-> k, of |-> p, n |-> 0, was |-> FALSE, text |-> New,
                  answer |-> "sent", says |-> <<>>]
ListRequest(k, n) == [Request(k, None) EXCEPT !.n = n]

TypeOK ==
  /\ catalog \in Seq(Products) /\ IsInjective(catalog)
  /\ store \in [Products -> [text: Texts, seo: BOOLEAN, active: BOOLEAN]]
  /\ page \in Pages /\ rows \in Seq(Rows) /\ loading \in BOOLEAN
  /\ drawerOpen \in BOOLEAN /\ resetting \in BOOLEAN
  /\ drawerMode \in {"view", "add", "edit", "seo", "digital", "csv"}
  /\ drawerProduct \in [id: Products \cup {None}, index: 0..Cardinality(Products)]
  /\ form \in Forms /\ full \in Rows /\ view \in Rows
  /\ csv \in {"empty", "chosen", "previewed"}
  /\ flight \subseteq Requests /\ moves \in 0..MaxMoves
  /\ patience \in Patience /\ strayed \in BOOLEAN

Nothing == [id |-> None, index |-> 0]
Init ==
  /\ catalog \in SetToAllKPermutations(Products)
  /\ store = [p \in Products |-> [text |-> p, seo |-> TRUE, active |-> TRUE]]
  /\ page = 1 /\ rows = <<>> /\ loading = TRUE
  /\ drawerOpen = FALSE /\ drawerMode = "view" /\ drawerProduct = Nothing
  /\ resetting = FALSE
  /\ form = EmptyForm /\ full = NoRow /\ view = NoRow /\ csv = "empty"
  /\ flight = {ListRequest("list", 1)} /\ moves = 0
  /\ patience \in Patience /\ strayed = FALSE
-----------------------------------------------------------------------------
(* The operator.                                                           *)
Acts ==
  /\ moves < MaxMoves /\ moves' = moves + 1
  /\ Cardinality(flight) < MaxFlight
  /\ patience = "waits" => flight = {} /\ ~resetting
  /\ UNCHANGED <<server, patience, strayed>>
\* A patient operator opens nothing while a drawer is closing, or while an
\* answer is awaited that fills the form.
MayOpen ==
  patience # "hurries" => ~resetting /\ \A r \in flight : r.kind \notin {"edit", "slug"}
\* The list is hidden while it loads, and covered while a drawer is open.
OnPage == ~loading /\ ~drawerOpen
OnRow(i) == OnPage /\ i \in DOMAIN rows /\ rows[i].id # None
Ask(r) == flight' = flight \cup {r}
Subject(i) == [id |-> rows[i].id, index |-> i]

HandlePageChange(n) ==
  /\ Acts /\ OnPage /\ n # page /\ (n - 1) * PageSize < Len(catalog)
  /\ loading' = TRUE /\ page' = n /\ Ask(ListRequest("list", n))
  /\ UNCHANGED <<rows, drawer, parts>>

\* View loads its own copy, the others show the row's product.
OpenDrawer(i, mode) ==
  /\ Acts /\ MayOpen /\ OnRow(i)
  /\ drawerProduct' = Subject(i) /\ drawerMode' = mode /\ drawerOpen' = TRUE
  /\ view' = NoRow
  /\ IF mode = "view" THEN Ask(Request("view", rows[i].id)) ELSE UNCHANGED flight
  /\ UNCHANGED <<list, resetting, form, full, csv>>
OpenAdd ==
  /\ Acts /\ MayOpen /\ ~drawerOpen
  /\ form' = EmptyForm /\ full' = NoRow /\ drawerMode' = "add" /\ drawerOpen' = TRUE
  /\ UNCHANGED <<list, drawerProduct, resetting, view, csv, flight>>
\* The edit form opens only when its product has been loaded.
Edits(i, now) ==
  /\ Acts /\ MayOpen /\ OnRow(i)
  /\ drawerProduct' = Subject(i) /\ drawerMode' = "edit" /\ drawerOpen' = now
  /\ Ask(Request("edit", rows[i].id))
  /\ UNCHANGED <<list, resetting, parts>>
OpenEditAtOnce(i) == Edits(i, TRUE)  \* mutant: over the form of the last product
OpenEdit(i) == Edits(i, FALSE)
OpenCsv ==
  /\ Acts /\ MayOpen /\ ~drawerOpen
  /\ drawerMode' = "csv" /\ drawerOpen' = TRUE /\ csv' = "empty"
  /\ UNCHANGED <<list, drawerProduct, resetting, form, full, view, flight>>

\* What the drawer shows: the form is what is left when no other mode fits.
Shows(mode) == drawerOpen /\ drawerMode = mode /\ drawerProduct.id # None
ShowsForm == drawerOpen /\ drawerMode # "csv"
             /\ ~\E m \in {"view", "seo", "digital"} : Shows(m)

\* The components of a drawer that closes hear nothing any more.
Unheard(f) == {IF r.kind = "toggleInView" THEN [r EXCEPT !.kind = "toggle"]
               ELSE IF r.kind = "import" THEN [r EXCEPT !.kind = "importUnheard"]
               ELSE r : r \in {q \in f : q.kind \notin {"view", "preview"}}}
CloseAnyway(f) ==             \* mutant: without its guard
  /\ drawerOpen' = FALSE /\ resetting' = TRUE /\ flight' = Unheard(f)
  /\ UNCHANGED <<drawerMode, drawerProduct>>
CloseDrawer(f) ==
  IF drawerOpen
  THEN /\ drawerOpen' = FALSE /\ resetting' = TRUE /\ flight' = Unheard(f)
       /\ UNCHANGED <<drawerMode, drawerProduct>>
  ELSE flight' = f /\ UNCHANGED drawer
Close ==
  /\ drawerOpen /\ CloseDrawer(flight)
  /\ UNCHANGED <<server, list, parts, moves, patience, strayed>>
Reset ==
  /\ resetting /\ resetting' = FALSE
  /\ drawerProduct' = Nothing /\ drawerMode' = "view"
  /\ UNCHANGED <<server, list, drawerOpen, parts, flight, moves, patience, strayed>>
-----------------------------------------------------------------------------
(* The form.                                                               *)
Type ==
  /\ ShowsForm /\ Acts
  /\ \/ form' = [form EXCEPT !.named = TRUE]
     \/ form' = [form EXCEPT !.slugged = TRUE]
  /\ form' # form
  /\ UNCHANGED <<list, drawer, full, view, csv, flight>>
HandleNameBlur ==
  /\ ShowsForm /\ Acts /\ form.named /\ ~form.slugged
  /\ Ask(Request("slug", None))
  /\ UNCHANGED <<list, drawer, parts>>
\* A form that does not validate is not sent.
HandleSubmit ==
  /\ ShowsForm /\ Acts /\ form.named /\ form.slugged
  /\ LET update == drawerMode = "edit" /\ drawerProduct.id # None IN
     Ask([Request(IF update THEN "save" ELSE "create", IF update THEN drawerProduct.id ELSE None)
            EXCEPT !.text = form.text])
  /\ UNCHANGED <<list, drawer, parts>>
InEdit == ShowsForm /\ drawerMode = "edit" /\ full.id # None
HandleDeleteProduct ==
  /\ InEdit /\ Acts /\ Ask(Request("delete", full.id))
  /\ UNCHANGED <<list, drawer, parts>>
\* A product that was changed replaces the list's copy and the form's.
InList(row) == [i \in DOMAIN rows |-> IF rows[i].id = row.id THEN row ELSE rows[i]]
UpdateProductInList(row) ==
  /\ rows' = InList(row)
  /\ full' = IF full.id = row.id THEN row ELSE full
  /\ UNCHANGED <<page, loading, form, view, csv>>
Flip(row) == [row EXCEPT !.active = ~row.active]
ToggleActiveInEdit ==
  /\ InEdit /\ Acts
  /\ UpdateProductInList(Flip(full))
  /\ Ask(Request("toggleInEdit", full.id))
  /\ UNCHANGED drawer
\* An image was uploaded, or the content of a digital product has changed.
ContentAdded ==
  /\ InEdit \/ Shows("digital")
  /\ Acts /\ loading' = TRUE /\ Ask(ListRequest("list", page))
  /\ UNCHANGED <<page, rows, drawer, parts>>
SaveSeo ==
  /\ Shows("seo") /\ Acts /\ Ask([Request("saveSeo", drawerProduct.id) EXCEPT !.text = Blank])
  /\ UNCHANGED <<list, drawer, parts>>
-----------------------------------------------------------------------------
(* The status, from the row and from the view: the row changes at once.    *)
ToggleActive(i, k) ==
  /\ Acts /\ i \in DOMAIN rows
  /\ rows' = [rows EXCEPT ![i] = Flip(@)]
  /\ Ask([Request(k, rows[i].id) EXCEPT !.n = i, !.was = rows[i].active])
  /\ UNCHANGED <<page, loading, drawer, parts>>
ToggleRow(i) == OnRow(i) /\ ToggleActive(i, "toggle")
ToggleInView ==
  /\ Shows("view") /\ view.id # None
  /\ ToggleActive(drawerProduct.index, "toggleInView")
\* An import has to be chosen and previewed first.
ChooseFile ==
  /\ drawerOpen /\ drawerMode = "csv" /\ Acts /\ csv' = "chosen"
  /\ UNCHANGED <<list, drawer, form, full, view, flight>>
Importing == \E r \in flight : r.kind \in {"preview", "import"}
CsvRequest(k) ==
  /\ drawerOpen /\ drawerMode = "csv" /\ ~Importing
  /\ csv # "empty" /\ (k = "import" => csv = "previewed")
  /\ Acts /\ Ask(Request(k, None))
  /\ UNCHANGED <<list, drawer, parts>>
-----------------------------------------------------------------------------
(* The server.  Saving a product writes every field it knows, the ones     *)
(* the request does not carry included; two blank slugs are refused.       *)
Listed == {catalog[i] : i \in DOMAIN catalog}
Stored(p, text, seo) ==
  store' = [store EXCEPT ![p].text = text, ![p].seo = seo]
CreatedAgain ==               \* mutant: an identity that is taken
  \E p \in Products :
    /\ catalog' = <<p>> \o catalog
    /\ store' = [store EXCEPT ![p] = [text |-> p, seo |-> FALSE, active |-> TRUE]]
Created ==
  \E p \in Products \ Listed :
    /\ catalog' = <<p>> \o catalog
    /\ store' = [store EXCEPT ![p] = [text |-> p, seo |-> FALSE, active |-> TRUE]]
Effect(r) ==
  CASE r.kind = "save"     -> Stored(r.of, r.text, FALSE) /\ UNCHANGED catalog
    [] r.kind = "saveSeo"  -> /\ \A p \in Listed \ {r.of} : store[p].text # Blank
                              /\ Stored(r.of, Blank, TRUE) /\ UNCHANGED catalog
    [] r.kind = "delete"   -> /\ \E i \in DOMAIN catalog : catalog[i] = r.of
                                                       /\ catalog' = RemoveAt(catalog, i)
                              /\ UNCHANGED store
    [] r.kind \in {"create", "import", "importUnheard"} -> Created
    [] r.kind \in {"toggle", "toggleInView", "toggleInEdit"} ->
         store' = [store EXCEPT ![r.of].active = ~@] /\ UNCHANGED catalog
    [] OTHER -> UNCHANGED server
\* What a read, or the save that ends with one, answers.
Says(r) == IF r.kind \in {"list", "listThenClose"} THEN ServerPage(r.n)
           ELSE IF r.of # None THEN <<Row(r.of)>> ELSE <<>>
Answer(r, a, says) ==
  flight' = (flight \ {r}) \cup {[r EXCEPT !.answer = a, !.says = says]}
Serve(r) ==
  /\ r \in flight /\ r.answer = "sent"
  /\ \/ /\ r.of # None => r.of \in Listed
        /\ Effect(r) /\ Answer(r, "ok", Says(r)')
     \/ Answer(r, "refused", <<>>) /\ UNCHANGED server
     \/ /\ r.kind \in Writes /\ (r.of # None => r.of \in Listed)
        /\ Effect(r) /\ Answer(r, "lost", <<>>)
  /\ UNCHANGED <<list, drawer, parts, moves, patience, strayed>>
-----------------------------------------------------------------------------
(* The answers.                                                            *)
Hears(r, kinds) ==
  /\ r \in flight /\ r.answer # "sent" /\ r.kind \in kinds
  /\ UNCHANGED <<server, moves, patience>>
Rest(r) == flight \ {r}
\* The page follows neither a lost answer, except to a save, nor a failure
\* of these, nor what saving the search texts did to the product.
Unrepaired == {"list", "listThenClose", "reread", "toggleInView", "toggleInEdit"}
Failure(r) ==
  strayed' = (strayed \/ (r.answer = "lost" /\ r.kind # "save") \/ r.kind = "saveSeo"
                    \/ (r.answer = "refused" /\ r.kind \in Unrepaired))

ListArrives(r) ==
  /\ Hears(r, {"list", "listThenClose"}) /\ Failure(r)
  /\ loading' = FALSE
  /\ rows' = IF r.answer = "ok" THEN r.says ELSE rows
  /\ IF r.kind = "list" THEN flight' = Rest(r) /\ UNCHANGED drawer ELSE CloseDrawer(Rest(r))
  /\ UNCHANGED <<page, parts>>
EditArrives(r) ==
  /\ Hears(r, {"edit"}) /\ Failure(r)
  /\ flight' = Rest(r)
  /\ IF r.answer = "ok"
     THEN full' = r.says[1] /\ form' = FormOf(r.says[1]) /\ drawerOpen' = TRUE
     ELSE UNCHANGED <<full, form, drawerOpen>>
  /\ UNCHANGED <<list, drawerMode, drawerProduct, resetting, view, csv>>
ViewArrives(r) ==
  /\ Hears(r, {"view"}) /\ Failure(r)
  /\ flight' = Rest(r) /\ view' = IF r.answer = "ok" THEN r.says[1] ELSE view
  /\ UNCHANGED <<list, drawer, form, full, csv>>
\* The slug of a new product: the server's, or one made from the name.
SlugArrives(r) ==
  /\ Hears(r, {"slug"}) /\ flight' = Rest(r)
  /\ form' = [form EXCEPT !.slugged = TRUE]
  /\ UNCHANGED <<list, drawer, full, view, csv, strayed>>
\* A save that fails, or whose answer is lost, asks what the server has now.
Reread(r) == IF drawerProduct.id = None THEN {} ELSE {Request("reread", drawerProduct.id)}
SaveArrives(r) ==
  /\ Hears(r, {"save"}) /\ Failure(r)
  /\ IF r.answer = "ok"
     THEN UpdateProductInList(r.says[1]) /\ CloseDrawer(Rest(r))
     ELSE flight' = Rest(r) \cup Reread(r) /\ UNCHANGED <<list, drawer, parts>>
RereadArrives(r) ==
  /\ Hears(r, {"reread"}) /\ Failure(r) /\ flight' = Rest(r)
  /\ IF r.answer = "ok" THEN UpdateProductInList(r.says[1]) ELSE UNCHANGED <<list, parts>>
  /\ UNCHANGED drawer
\* What changes the list is followed by a new list, and then by a closed drawer.
ChangeArrives(r) ==
  /\ Hears(r, {"create", "delete", "import", "importUnheard"}) /\ Failure(r)
  /\ IF r.answer = "ok"
     THEN /\ loading' = TRUE
          /\ flight' = Rest(r) \cup {ListRequest("listThenClose", page)}
     ELSE flight' = Rest(r) /\ UNCHANGED loading
  /\ csv' = IF r.kind = "import" /\ r.answer = "ok" THEN "empty" ELSE csv
  /\ UNCHANGED <<page, rows, drawer, form, full, view>>
PreviewArrives(r) ==
  /\ Hears(r, {"preview", "saveSeo"}) /\ Failure(r) /\ flight' = Rest(r)
  /\ csv' = IF r.kind = "preview" /\ r.answer = "ok" THEN "previewed" ELSE csv
  /\ UNCHANGED <<list, drawer, form, full, view>>
\* A refused switch is undone in the row the click was on; the view's copy
\* changes whatever the answer was.
KeepsTheRow(r) == rows        \* mutant: nothing is undone
Reverted(r) ==
  [j \in 1..(IF r.n > Len(rows) THEN r.n ELSE Len(rows)) |->
     LET row == IF j \in DOMAIN rows THEN rows[j] ELSE NoRow IN
     IF j = r.n THEN [row EXCEPT !.active = r.was] ELSE row]
ToggleArrives(r) ==
  /\ Hears(r, {"toggle", "toggleInView"}) /\ Failure(r) /\ flight' = Rest(r)
  /\ rows' = IF r.answer = "ok" THEN rows ELSE Reverted(r)
  /\ view' = IF r.kind = "toggleInView" /\ view.id # None THEN Flip(view) ELSE view
  /\ UNCHANGED <<page, loading, drawer, form, full, csv>>
\* The server answers no product, so the form's switch always takes the
\* branch of a failure: it puts back the copy it has already changed.
ToggleInEditArrives(r) ==
  /\ Hears(r, {"toggleInEdit"}) /\ Failure(r) /\ flight' = Rest(r)
  /\ IF full.id # None THEN UpdateProductInList(full) ELSE UNCHANGED <<list, parts>>
  /\ UNCHANGED drawer
-----------------------------------------------------------------------------
Operator ==
  \/ \E n \in Pages : HandlePageChange(n)
  \/ \E i \in DOMAIN rows : \/ \E m \in {"view", "seo", "digital"} : OpenDrawer(i, m)
                            \/ OpenEdit(i) \/ ToggleRow(i)
  \/ OpenAdd \/ OpenCsv \/ Close
  \/ Type \/ HandleNameBlur \/ HandleSubmit \/ HandleDeleteProduct
  \/ ToggleActiveInEdit \/ ContentAdded \/ SaveSeo \/ ToggleInView
  \/ ChooseFile \/ CsvRequest("preview") \/ CsvRequest("import")
Arrive(r) ==
  \/ ListArrives(r) \/ EditArrives(r) \/ ViewArrives(r) \/ SlugArrives(r)
  \/ SaveArrives(r) \/ RereadArrives(r) \/ ChangeArrives(r) \/ PreviewArrives(r)
  \/ ToggleArrives(r) \/ ToggleInEditArrives(r)
Network == \E r \in flight : Serve(r) \/ Arrive(r)
Next == Operator \/ Reset \/ Network
Spec == Init /\ [][Next]_vars
-----------------------------------------------------------------------------
(* Unless the operator hurries: what is sent for a product is that         *)
(* product's own data, never what the form was filled with for another.    *)
SavedToItsOwnProduct ==
  patience # "hurries" =>
    \A r \in flight : r.kind = "save" => r.text \in {r.of, Blank}

(* Unless the operator hurries: a drawer that is open on a product never   *)
(* loses it to the timer of a drawer closed before.                        *)
DrawerKeepsItsProduct ==
  patience # "hurries" /\ drawerOpen =>
    drawerMode \in {"add", "csv"} \/ drawerProduct.id # None

(* When the operator waits, every answer has been heard and none was a     *)
(* failure the page has no way back from, the list and the open copies of  *)
(* a product are what the server has.                                      *)
PageAgreesWithServer ==
  patience = "waits" /\ flight = {} /\ ~strayed =>
    /\ ~loading /\ rows = [i \in DOMAIN ServerPage(page) |-> ServerPage(page)[i]]
    /\ InEdit => full = Row(full.id)
    /\ Shows("view") /\ view.id # None => view = Row(view.id)

(* What a form does not show, its save leaves as it was: the product whose *)
(* search texts are saved keeps its name.  The code breaks this: Seo sends *)
(* the search texts alone to an endpoint that writes every column.         *)
SavesOnlyWhatItShows ==
  \A p \in Listed : store[p].text # Blank
=============================================================================
