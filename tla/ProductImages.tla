---------------------------- MODULE ProductImages ----------------------------
(***************************************************************************)
(* The images of a product in the panel's form: files are uploaded one     *)
(* after the other, an image is dragged to another place, and one is made  *)
(* the main image.  The form works on a copy, which it reads again after   *)
(* some changes and patches after others.                                  *)
(*                                                                         *)
(* Requests overlap and are answered in any order.  A patient operator     *)
(* waits for each answer before the next act.                              *)
(***************************************************************************)
EXTENDS Naturals, Sequences, FiniteSets, SequencesExt

CONSTANTS Products, Images,   \* Images: a set of numbers, the order of their ids
          None, MaxFiles, MaxMoves, MaxFlight

VARIABLES
  owner, position, main,   \* the server's images
  placed,                  \* those that a reordering has given a position
  drawerOpen, product,     \* product: the one whose data the form holds
  productImages,           \* the form's copy
  dragged,                 \* the place an image was picked up from, or 0
  flight, moves, patient,
  strayed                  \* an answer was lost, or another client deleted an image

server == <<owner, position, main, placed>>
form == <<drawerOpen, product, productImages, dragged>>
vars == <<server, form, flight, moves, patient, strayed>>

ConstantsTyped ==
  /\ Images \subseteq Nat \ {0} /\ IsFiniteSet(Images) /\ None \notin Products
  /\ MaxFiles \in Nat /\ MaxMoves \in Nat
-----------------------------------------------------------------------------
Picture == [id: Images, position: Nat, main: BOOLEAN]
Stored(x) == [id |-> x, position |-> position[x], main |-> main[x]]
Of(p) == {x \in Images : owner[x] = p}
\* The k-th of a set, by what is before what in it.
Nth(S, Before(_, _), k) == CHOOSE x \in S : Cardinality({y \in S : Before(y, x)}) = k - 1
\* ORDER BY position, id
ListedBefore(x, y) == position[x] < position[y] \/ (position[x] = position[y] /\ x < y)
ServerImages(p) ==
  [k \in 1..Cardinality(Of(p)) |-> Stored(Nth(Of(p), ListedBefore, k))]
\* The browser's sort keeps the order of equals.
ShownBefore(i, j) ==
  \/ productImages[i].position < productImages[j].position
  \/ productImages[i].position = productImages[j].position /\ i < j
SortedImages ==
  [k \in DOMAIN productImages |-> productImages[Nth(DOMAIN productImages, ShownBefore, k)]]

Kinds == {"upload", "reorder", "main", "reread"}
Requests == [kind: Kinds, of: Products, image: Images \cup {0},
             order: Seq(Images), files: 0..MaxFiles,
             answer: {"sent", "ok", "failed", "lost"}, says: Seq(Picture)]
Request(k, p) == [kind |-> k, of |-> p, image |-> 0, order |-> <<>>, files |-> 0,
                  answer |-> "sent", says |-> <<>>]

TypeOK ==
  /\ owner \in [Images -> Products \cup {None}]
  /\ position \in [Images -> Nat] /\ main \in [Images -> BOOLEAN]
  /\ placed \subseteq Images
  /\ drawerOpen \in BOOLEAN /\ product \in Products \cup {None}
  /\ productImages \in Seq(Picture) /\ dragged \in Nat
  /\ flight \subseteq Requests /\ moves \in 0..MaxMoves
  /\ patient \in BOOLEAN /\ strayed \in BOOLEAN

Init ==
  /\ \E p \in Products, new \in Images :
       owner = [x \in Images |-> IF x = new THEN None ELSE p]
  /\ position = [x \in Images |-> 0] /\ main = [x \in Images |-> FALSE] /\ placed = {}
  /\ drawerOpen = FALSE /\ product = None /\ productImages = <<>> /\ dragged = 0
  /\ flight = {} /\ moves = 0 /\ patient \in BOOLEAN /\ strayed = FALSE
-----------------------------------------------------------------------------
Acts ==
  /\ moves < MaxMoves /\ moves' = moves + 1
  /\ patient => flight = {}
  /\ UNCHANGED <<server, patient, strayed>>
Asks(r) == Cardinality(flight) < MaxFlight /\ flight' = flight \cup {r}

\* The form of another product takes the drawer with that product's data.
OpenEdit(p) ==
  /\ Acts /\ ~drawerOpen /\ drawerOpen' = TRUE
  /\ product' = p /\ productImages' = ServerImages(p) /\ dragged' = 0
  /\ UNCHANGED flight
\* Closing leaves the data behind, until the next product replaces it.
CloseDrawer ==
  /\ drawerOpen /\ drawerOpen' = FALSE /\ dragged' = 0
  /\ UNCHANGED <<server, product, productImages, flight, moves, patient, strayed>>

Upload(n) ==
  /\ drawerOpen /\ Acts /\ n \in 1..MaxFiles
  /\ Asks([Request("upload", product) EXCEPT !.files = n])
  /\ UNCHANGED form
HandleDragStart(i) ==
  /\ drawerOpen /\ dragged = 0 /\ i \in DOMAIN productImages
  /\ patient => flight = {}
  /\ dragged' = i
  /\ UNCHANGED <<server, drawerOpen, product, productImages, flight, moves, patient, strayed>>
\* The new order is sent whole; the form keeps the old one until it is read again.
Moved(s, i, j) == InsertAt(RemoveAt(s, i), j, s[i])
HandleDrop(j) ==
  /\ drawerOpen /\ dragged \in DOMAIN productImages /\ j \in DOMAIN productImages
  /\ dragged' = 0
  /\ UNCHANGED <<drawerOpen, product, productImages>>
  /\ \/ dragged = j /\ UNCHANGED <<server, flight, moves, patient, strayed>>
     \/ /\ dragged # j /\ Acts
        /\ LET order == Moved(SortedImages, dragged, j)
           IN  Asks([Request("reorder", product) EXCEPT
                       !.order = [k \in DOMAIN order |-> order[k].id]])
HandleDragEnd ==
  /\ dragged # 0 /\ dragged' = 0
  /\ UNCHANGED <<server, drawerOpen, product, productImages, flight, moves, patient, strayed>>
HandleSetRepresentative(i) ==
  /\ drawerOpen /\ Acts /\ i \in DOMAIN productImages
  /\ Asks([Request("main", product) EXCEPT !.image = productImages[i].id])
  /\ UNCHANGED form
-----------------------------------------------------------------------------
(* The server.  A write may be applied and its answer be lost.             *)
Answered(r, a) == flight' = (flight \ {r}) \cup {[r EXCEPT !.answer = a]}
Arrives(r) ==
  /\ r.answer = "sent" /\ UNCHANGED <<form, moves, patient>>
Reaches(r) ==
  \/ Answered(r, "ok") /\ UNCHANGED strayed
  \/ Answered(r, "lost") /\ strayed' = TRUE
Refused(r) ==
  \/ Answered(r, "failed") /\ UNCHANGED <<server, strayed>>
  \/ Answered(r, "lost") /\ UNCHANGED server /\ strayed' = TRUE

\* A new image has no position of its own.
AddImage(r) ==
  /\ r.kind = "upload" /\ Arrives(r)
  /\ \/ Refused(r)
     \/ \E x \in {y \in Images : owner[y] = None} :
          /\ owner' = [owner EXCEPT ![x] = r.of] /\ position' = [position EXCEPT ![x] = 0]
          /\ main' = [main EXCEPT ![x] = FALSE] /\ UNCHANGED placed
          /\ \/ /\ flight' = (flight \ {r}) \cup {[r EXCEPT !.answer = "ok", !.image = x]}
                /\ UNCHANGED strayed
             \/ Answered(r, "lost") /\ strayed' = TRUE
\* All positions are written, or none: an image that is gone fails the whole.
LastPlace(order, x) == SelectLastInSeq(order, LAMBDA y : y = x)
UpdateProductImagePositions(r) ==
  /\ r.kind = "reorder" /\ Arrives(r)
  /\ \/ Refused(r)
     \/ /\ \A k \in DOMAIN r.order : owner[r.order[k]] # None
        /\ position' = [x \in Images |->
             IF x \in Range(r.order) THEN LastPlace(r.order, x) - 1 ELSE position[x]]
        /\ placed' = placed \cup Range(r.order)
        /\ Reaches(r) /\ UNCHANGED <<owner, main>>
MainToo(r) ==                 \* mutant: the others stay marked
  main' = [main EXCEPT ![r.image] = TRUE]
OnlyMain(r) ==
  main' = [x \in Images |-> IF owner[x] = r.of THEN x = r.image ELSE main[x]]
SetRepresentativeImage(r) ==
  /\ r.kind = "main" /\ Arrives(r)
  /\ \/ Refused(r)
     \/ /\ owner[r.image] = r.of /\ OnlyMain(r)
        /\ Reaches(r) /\ UNCHANGED <<owner, position, placed>>
Product(r) ==
  /\ r.kind = "reread" /\ Arrives(r) /\ UNCHANGED server
  /\ \/ /\ flight' = (flight \ {r}) \cup
             {[r EXCEPT !.answer = "ok", !.says = ServerImages(r.of)]}
        /\ UNCHANGED strayed
     \/ Answered(r, "lost") /\ strayed' = TRUE
\* Another client of the API deletes an image.
DeleteImage(x) ==
  /\ moves < MaxMoves /\ moves' = moves + 1 /\ owner[x] # None
  /\ owner' = [owner EXCEPT ![x] = None] /\ placed' = placed \ {x}
  /\ main' = [main EXCEPT ![x] = FALSE] /\ position' = [position EXCEPT ![x] = 0]
  /\ strayed' = TRUE /\ UNCHANGED <<form, flight, patient>>
-----------------------------------------------------------------------------
(* The answers.  What the form then changes is what it holds by then.      *)
Hears(r, a) == r \in flight /\ r.answer \in a /\ UNCHANGED <<server, moves, patient, strayed>>

\* The next file is posted after each answer, whatever it was.  The loop goes on
\* when the upload's component is gone; which product its endpoint then names,
\* the framework decides.
NextFile(r) ==
  \/ r.files = 1 /\ flight' = flight \ {r}
  \/ /\ r.files > 1
     /\ \E p \in {r.of} \cup ({product} \ {None}) :
          flight' = (flight \ {r}) \cup {[Request("upload", p) EXCEPT !.files = r.files - 1]}
HandleUpload(r) ==
  /\ r.kind = "upload" /\ Hears(r, {"ok", "failed", "lost"}) /\ NextFile(r)
  /\ IF r.answer = "ok" /\ product # None
     THEN productImages' = Append(productImages,
                             [id |-> r.image, position |-> 0, main |-> FALSE])
     ELSE UNCHANGED productImages
  /\ UNCHANGED <<drawerOpen, product, dragged>>
Reread(r) ==
  IF r.answer = "ok"
  THEN flight' = (flight \ {r}) \cup {Request("reread", product)}
  ELSE flight' = flight \ {r}
Changed(r) ==
  /\ r.kind \in {"reorder", "main"} /\ Hears(r, {"ok", "failed", "lost"})
  /\ Reread(r) /\ UNCHANGED form
Reloaded(r) ==
  /\ r.kind = "reread" /\ Hears(r, {"ok", "lost"}) /\ flight' = flight \ {r}
  /\ productImages' = IF r.answer = "ok" THEN r.says ELSE productImages
  /\ UNCHANGED <<drawerOpen, product, dragged>>

Next ==
  \/ \E p \in Products : OpenEdit(p)
  \/ CloseDrawer \/ HandleDragEnd
  \/ \E n \in 1..MaxFiles : Upload(n)
  \/ \E i \in DOMAIN productImages :
       HandleDragStart(i) \/ HandleDrop(i) \/ HandleSetRepresentative(i)
  \/ \E r \in flight :
       \/ AddImage(r) \/ UpdateProductImagePositions(r) \/ SetRepresentativeImage(r)
       \/ Product(r)
       \/ HandleUpload(r) \/ Changed(r) \/ Reloaded(r)
  \/ \E x \in Images : DeleteImage(x)

Spec == Init /\ [][Next]_vars
-----------------------------------------------------------------------------
\* A product has one main image at most, however the requests overlap.
OneMain == \A x, y \in Images :
  main[x] /\ main[y] /\ owner[x] = owner[y] => x = y

\* Where the operator waits for the answers, two images that were ever put in
\* order have no place in common.
PlacedApart == patient => \A x, y \in placed :
  x # y /\ owner[x] = owner[y] => position[x] # position[y]

\* Once all is answered and no answer was lost, the form of a patient operator
\* has the product's images, their positions and the main one as the server has.
ImagesAgree ==
  patient /\ flight = {} /\ ~strayed /\ drawerOpen
    => Range(productImages) = Range(ServerImages(product))

\* "First image is shown in product listings" (SortableImage.svelte:98): the
\* image in the first place is the one the server lists first.  The code breaks
\* this: a new image is stored at the position of the first, and ids decide.
FirstImageIsListed ==
  patient /\ flight = {} /\ ~strayed /\ drawerOpen /\ productImages # <<>>
    => SortedImages[1] = ServerImages(product)[1]
=============================================================================
