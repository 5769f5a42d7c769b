---------------------------- MODULE DigitalContent ----------------------------
(***************************************************************************)
(* The digital content of a product, in the panel's drawer: licence keys   *)
(* that the operator adds, types in and deletes while buyers claim them,   *)
(* or files that are uploaded and deleted.                                 *)
(*                                                                         *)
(* Requests overlap and are answered in any order; a patient operator      *)
(* waits for each answer.  Typing a key and leaving its field is one act.  *)
(***************************************************************************)
EXTENDS Naturals, Sequences, FiniteSets, SequencesExt

CONSTANTS Items,     \* the keys, or the files, there may be
          Texts, Empty,
          MaxMoves, MaxFlight

VARIABLES
  type,                     \* "data": keys, "file": files
  stored, content, sold,    \* the server's
  delivered,                \* the text that went to the buyer
  drawerOpen, loading, shown,
  flight, moves, patient,
  strayed                   \* an answer failed or was lost since the list was loaded

server == <<type, stored, content, sold, delivered>>
list == <<drawerOpen, loading, shown>>
vars == <<server, list, flight, moves, patient, strayed>>

ConstantsTyped == MaxMoves \in Nat
-----------------------------------------------------------------------------
Contents == Texts \cup {Empty}
Row == [id: Items, content: Contents, sold: BOOLEAN]
Rows(order) == [k \in DOMAIN order |->
  [id |-> order[k], content |-> content[order[k]], sold |-> sold[order[k]]]]

Requests == [kind: {"load", "add", "save", "delete"}, item: SUBSET Items, text: Contents,
             index: Nat, heard: BOOLEAN,
             answer: {"sent", "ok", "failed", "lost"}, says: Seq(Row)]
Request(k) == [kind |-> k, item |-> {}, text |-> Empty, index |-> 0, heard |-> TRUE,
               answer |-> "sent", says |-> <<>>]

TypeOK ==
  /\ type \in {"data", "file"}
  /\ stored \subseteq Items /\ IsFiniteSet(stored)
  /\ content \in [Items -> Contents] /\ delivered \in [Items -> Contents]
  /\ sold \in [Items -> BOOLEAN]
  /\ drawerOpen \in BOOLEAN /\ loading \in BOOLEAN /\ shown \in Seq(Row)
  /\ flight \subseteq Requests /\ moves \in 0..MaxMoves
  /\ patient \in BOOLEAN /\ strayed \in BOOLEAN

Init ==
  /\ type \in {"data", "file"}
  /\ stored \in {{}} \cup {{x} : x \in Items}
  /\ \E t \in Texts : content = [x \in Items |-> IF x \in stored THEN t ELSE Empty]
  /\ sold = [x \in Items |-> FALSE] /\ delivered = [x \in Items |-> Empty]
  /\ drawerOpen = FALSE /\ loading = FALSE /\ shown = <<>>
  /\ flight = {} /\ moves = 0 /\ patient \in BOOLEAN /\ strayed = FALSE
-----------------------------------------------------------------------------
Acts ==
  /\ moves < MaxMoves /\ moves' = moves + 1
  /\ patient => flight = {}
  /\ UNCHANGED <<server, patient>>
Asks(r) == Cardinality(flight) < MaxFlight /\ flight' = flight \cup {r}

\* The component loads its list once, when the drawer opens.
OpenDigital ==
  /\ ~drawerOpen /\ Acts /\ Asks(Request("load"))
  /\ drawerOpen' = TRUE /\ loading' = TRUE /\ shown' = <<>>
  /\ strayed' = FALSE
\* It leaves with the drawer: an answer still to come is not heard.
CloseDrawer ==
  /\ drawerOpen /\ drawerOpen' = FALSE
  /\ loading' = FALSE /\ shown' = <<>>
  /\ flight' = {[r EXCEPT !.heard = FALSE] : r \in flight}
  /\ UNCHANGED <<server, moves, patient, strayed>>

AddDigital ==
  /\ drawerOpen /\ ~loading /\ Acts /\ Asks(Request("add"))
  /\ UNCHANGED <<list, strayed>>
\* A key shown as sold has no field and no button.
NeverSold(row) == FALSE       \* mutant: the badge only is drawn
IsCodeSold(row) == row.sold
Editable(k) == drawerOpen /\ ~loading /\ k \in DOMAIN shown /\ ~IsCodeSold(shown[k])
SaveData(k, t) ==
  /\ type = "data" /\ Editable(k) /\ Acts
  /\ shown' = [shown EXCEPT ![k].content = t]
  /\ Asks([Request("save") EXCEPT !.item = {shown[k].id}, !.text = t])
  /\ UNCHANGED <<drawerOpen, loading, strayed>>
DeleteDigital(k) ==
  /\ Editable(k) /\ Acts
  /\ Asks([Request("delete") EXCEPT !.item = {shown[k].id}, !.index = k])
  /\ UNCHANGED <<list, strayed>>
-----------------------------------------------------------------------------
(* The server, and the buyers.                                             *)
Answered(r, a) == flight' = (flight \ {r}) \cup {[r EXCEPT !.answer = a]}
Arrives(r) == r.answer = "sent" /\ UNCHANGED <<type, list, moves, patient>>
Reaches(r) ==
  \/ Answered(r, "ok") /\ UNCHANGED strayed
  \/ Answered(r, "lost") /\ strayed' = TRUE
Fails(r) ==
  /\ \E a \in {"failed", "lost"} : Answered(r, a)
  /\ strayed' = TRUE /\ UNCHANGED server

\* The rows are asked for in no order.
ProductDigital(r) ==
  /\ r.kind = "load" /\ Arrives(r)
  /\ \/ Fails(r)
     \/ /\ \E order \in SetToSeqs(stored) : flight' =
             (flight \ {r}) \cup {[r EXCEPT !.answer = "ok", !.says = Rows(order)]}
        /\ UNCHANGED <<server, strayed>>
\* A new key is stored before it is typed in.
AddProductDigital(r) ==
  /\ r.kind = "add" /\ Arrives(r)
  /\ \/ Fails(r)
     \/ \E x \in {y \in Items \ stored : ~sold[y]} :
          /\ stored' = stored \cup {x} /\ content' = [content EXCEPT ![x] = Empty]
          /\ UNCHANGED <<sold, delivered>>
          /\ \/ /\ flight' = (flight \ {r}) \cup {[r EXCEPT !.answer = "ok", !.item = {x}]}
                /\ UNCHANGED strayed
             \/ Answered(r, "lost") /\ strayed' = TRUE
\* Neither asks whether the key is sold, or still there.
UpdateProductDigital(r) ==
  /\ r.kind = "save" /\ Arrives(r)
  /\ \/ Fails(r)
     \/ /\ content' = [x \in Items |->
             IF x \in r.item \cap stored THEN r.text ELSE content[x]]
        /\ Reaches(r) /\ UNCHANGED <<stored, sold, delivered>>
DeleteProductDigital(r) ==
  /\ r.kind = "delete" /\ Arrives(r)
  /\ \/ Fails(r)
     \/ /\ stored' = stored \ r.item
        /\ UNCHANGED <<content, sold, delivered>>
        /\ \/ Reaches(r)
           \* The record is gone and its file could not be removed.
           \/ type = "file" /\ Answered(r, "failed") /\ strayed' = TRUE
\* A paid order takes a key that no other has.
Claim(x) ==
  /\ type = "data" /\ x \in stored /\ ~sold[x]
  /\ sold' = [sold EXCEPT ![x] = TRUE]
  /\ delivered' = [delivered EXCEPT ![x] = content[x]]
  /\ UNCHANGED <<type, stored, content, list, flight, moves, patient, strayed>>
-----------------------------------------------------------------------------
(* The answers.                                                            *)
Hears(r, a) ==
  /\ r \in flight /\ r.answer \in a /\ flight' = flight \ {r}
  /\ UNCHANGED <<server, drawerOpen, moves, patient, strayed>>
Ignored(r) ==
  /\ r.answer # "sent" /\ (~r.heard \/ r.answer # "ok") /\ r.kind # "load"
  /\ Hears(r, {"ok", "failed", "lost"}) /\ UNCHANGED <<loading, shown>>
LoadDigital(r) ==
  /\ r.kind = "load" /\ Hears(r, {"ok", "failed", "lost"})
  /\ IF ~r.heard THEN UNCHANGED <<loading, shown>>
     ELSE /\ loading' = FALSE
          /\ shown' = IF r.answer = "ok" THEN r.says ELSE shown
\* An uploaded file comes back in a form its handler does not read: the list
\* does not show it.
AddHeard(r) ==
  /\ r.kind = "add" /\ r.heard /\ Hears(r, {"ok"}) /\ UNCHANGED loading
  /\ \/ type = "file" /\ UNCHANGED shown
     \/ /\ type = "data"
        /\ \E x \in r.item :
             shown' = Append(shown, [id |-> x, content |-> Empty, sold |-> FALSE])
SaveHeard(r) ==
  /\ r.kind = "save" /\ r.heard /\ Hears(r, {"ok"}) /\ UNCHANGED <<loading, shown>>
\* The row that leaves the list is the one at the place the button had.
WithoutRow(s, k) == IF k \in DOMAIN s THEN RemoveAt(s, k) ELSE s
DeleteHeard(r) ==
  /\ r.kind = "delete" /\ r.heard /\ Hears(r, {"ok"}) /\ UNCHANGED loading
  /\ shown' = WithoutRow(shown, r.index)

Next ==
  \/ OpenDigital \/ CloseDrawer \/ AddDigital
  \/ \E k \in DOMAIN shown :
       DeleteDigital(k) \/ \E t \in Contents : SaveData(k, t)
  \/ \E r \in flight :
       \/ ProductDigital(r) \/ AddProductDigital(r) \/ UpdateProductDigital(r)
       \/ DeleteProductDigital(r)
       \/ LoadDigital(r) \/ AddHeard(r) \/ SaveHeard(r) \/ DeleteHeard(r) \/ Ignored(r)
  \/ \E x \in Items : Claim(x)

Spec == Init /\ [][Next]_vars
-----------------------------------------------------------------------------
Quiet == patient /\ flight = {} /\ ~strayed /\ drawerOpen /\ ~loading

\* Once all is answered and nothing failed, a patient operator sees the keys
\* that there are, each once and with its text.
ShownIds == [k \in DOMAIN shown |-> shown[k].id]
ListAgrees ==
  Quiet /\ type = "data" =>
    /\ IsInjective(ShownIds) /\ Range(ShownIds) = stored
    /\ \A k \in DOMAIN shown : shown[k].content = content[shown[k].id]

\* A key that was sold before the list was loaded is left to its buyer as the
\* list shows it: a patient operator neither rewrites nor deletes it.
SoldKeysAreSafe ==
  patient => \A k \in DOMAIN shown : shown[k].sold =>
    shown[k].id \in stored /\ content[shown[k].id] = shown[k].content

\* "Don't allow saving if code is sold" (Digital.svelte:104): the text of a key
\* is what its buyer got.  The code breaks this: the check is the page's alone, on
\* the rows it loaded, and a key may be sold since.
SoldKeysStay == \A x \in stored : sold[x] => content[x] = delivered[x]
\* No buyer gets a key that is not typed in yet.  The code breaks this: a key is
\* stored empty, for sale, before its text is.
NoEmptyKey == \A x \in Items : sold[x] => delivered[x] # Empty
\* Once all is answered, the files shown are those that there are.  The page
\* breaks this: it looks for an uploaded file where the answer does not have it.
FilesAgree == Quiet /\ type = "file" => Range(ShownIds) = stored
=============================================================================
