------------------------- MODULE AdminProductsProofs ------------------------
(***************************************************************************)
(* The products page for any number of products, pages, requests in        *)
(* flight and clicks: it stays in its types; a form saves the product it   *)
(* was filled with, and the timer of a drawer that was closed takes no     *)
(* product from the next one, unless the operator hurries; and what the    *)
(* page shows an operator who waits is what the server has.                *)
(***************************************************************************)
EXTENDS AdminProducts, FiniteSetTheorems, SequenceTheorems, TLAPS

Count == Cardinality(Products)
Ids == Products \cup {None}
Kinds == Reads \cup Writes

\* What the answers that the page reads without looking must be.
Shaped(r) ==
  /\ Len(r.says) <= Count
  /\ r.kind \in {"list", "listThenClose"} => r.n \in Pages
  /\ r.kind \in {"edit", "view", "save", "reread"} =>
       r.of # None /\ (r.answer = "ok" => Len(r.says) = 1)
FlightOK(f) == f \subseteq Requests /\ \A r \in f : Shaped(r)
RowsOK(s) == s \in Seq(Rows) /\ Len(s) <= Count
ShapeInv == Len(rows) <= Count /\ \A r \in flight : Shaped(r)
TypeInv == TypeOK /\ ShapeInv
-----------------------------------------------------------------------------
(* Rows, requests and the sequences of them.                               *)

LEMMA SomeProducts == Count \in Nat \ {0} /\ Pages = 1..Count /\ 1 \in Pages
<1>1. Count \in Nat
  BY AdminProductsAssumption, FS_CardinalityType DEF Count
<1>2. Count # 0
  BY AdminProductsAssumption, FS_EmptySet DEF Count
<1> QED
  BY <1>1, <1>2 DEF Count, Pages

LEMMA AsSequence ==
  ASSUME NEW S, NEW n \in Nat, NEW f \in [1..n -> S]
  PROVE  f \in Seq(S) /\ Len(f) = n /\ DOMAIN f = 1..n
  OBVIOUS

LEMMA OneRow ==
  ASSUME NEW x \in Rows
  PROVE  <<x>> \in Seq(Rows) /\ Len(<<x>>) = 1 /\ <<x>>[1] = x /\ RowsOK(<<x>>)
  BY SomeProducts DEF RowsOK

LEMMA NoRows == <<>> \in Seq(Rows) /\ Len(<<>>) = 0 /\ RowsOK(<<>>)
  BY SomeProducts DEF RowsOK

LEMMA RowFields ==
  /\ NoRow \in Rows
  /\ \A x \in Rows : Flip(x) \in Rows /\ Flip(x).id = x.id
  /\ \A x \in Rows, b \in BOOLEAN : [x EXCEPT !.active = b] \in Rows
<1>1. NoRow \in Rows
  BY DEF NoRow, Rows, Texts
<1>2. ASSUME NEW x \in Rows, NEW b \in BOOLEAN PROVE [x EXCEPT !.active = b] \in Rows
  BY <1>2 DEF Rows
<1>3. ASSUME NEW x \in Rows PROVE Flip(x) \in Rows /\ Flip(x).id = x.id
  BY <1>3 DEF Flip, Rows
<1> QED
  BY <1>1, <1>2, <1>3

\* A request as it is made.
LEMMA RequestTypes ==
  ASSUME NEW k \in Kinds, NEW p \in Ids
  PROVE  /\ Request(k, p) \in Requests
         /\ Request(k, p).kind = k /\ Request(k, p).of = p
         /\ Request(k, p).answer = "sent" /\ Len(Request(k, p).says) = 0
<1>1. New \in Texts /\ 0 \in 0..Cardinality(Products) /\ FALSE \in BOOLEAN
  BY SomeProducts DEF Texts, Count
<1>2. k \in Reads \cup Writes /\ p \in Products \cup {None}
  BY DEF Kinds, Ids
<1> QED
  BY <1>1, <1>2, NoRows DEF Request, Requests

\* One that carries more keeps the rest of it.
LEMMA RequestWith ==
  ASSUME NEW r \in Requests
  PROVE  /\ \A x \in Texts : LET q == [r EXCEPT !.text = x] IN
              /\ q \in Requests /\ q.text = x
              /\ q.kind = r.kind /\ q.of = r.of /\ q.answer = r.answer /\ q.says = r.says
         /\ \A n \in 0..Count : LET q == [r EXCEPT !.n = n] IN
              /\ q \in Requests /\ q.n = n
              /\ q.kind = r.kind /\ q.of = r.of /\ q.answer = r.answer /\ q.says = r.says
<1>1. ASSUME NEW x \in Texts PROVE LET q == [r EXCEPT !.text = x] IN
              /\ q \in Requests /\ q.text = x
              /\ q.kind = r.kind /\ q.of = r.of /\ q.answer = r.answer /\ q.says = r.says
  BY <1>1 DEF Requests
<1>2. ASSUME NEW n \in 0..Count PROVE LET q == [r EXCEPT !.n = n] IN
              /\ q \in Requests /\ q.n = n
              /\ q.kind = r.kind /\ q.of = r.of /\ q.answer = r.answer /\ q.says = r.says
  BY <1>2 DEF Requests, Count
<1> QED
  BY <1>1, <1>2

LEMMA RequestShape ==
  ASSUME NEW k \in Kinds, NEW p \in Ids,
         k \in {"edit", "view", "save", "reread"} => p # None,
         k \notin {"list", "listThenClose"},
         NEW r, r.kind = k, r.of = p, r.answer = "sent", Len(r.says) = 0
  PROVE  Shaped(r)
<1>1. Len(r.says) <= Count
  BY SomeProducts
<1> QED
  BY <1>1 DEF Shaped

LEMMA ListRequests ==
  ASSUME NEW k \in {"list", "listThenClose"}, NEW n \in Pages
  PROVE  ListRequest(k, n) \in Requests /\ Shaped(ListRequest(k, n))
<1>0. Count \in Nat /\ n \in 1..Count
  BY SomeProducts
<1>1. k \in Kinds /\ None \in Ids /\ n \in 0..Count
  <2>1. k \in Kinds
    BY DEF Kinds, Reads
  <2>2. None \in Ids
    BY DEF Ids
  <2> QED
    BY <1>0, <2>1, <2>2
<1>2. Request(k, None) \in Requests /\ Len(Request(k, None).says) = 0
      /\ Request(k, None).kind = k
  BY <1>1, RequestTypes
<1> DEFINE q == [Request(k, None) EXCEPT !.n = n]
<1>3. q \in Requests /\ q.n = n /\ q.kind = k /\ Len(q.says) = 0
  BY <1>1, <1>2, RequestWith
<1>4. ListRequest(k, n) = q
  BY DEF ListRequest
<1> HIDE DEF q
<1>5. Shaped(q)
  <2>1. Len(q.says) <= Count
    BY <1>0, <1>3
  <2>2. q.kind \notin {"edit", "view", "save", "reread"}
    BY <1>3
  <2> QED
    BY <1>3, <2>1, <2>2 DEF Shaped
<1> QED
  BY <1>3, <1>4, <1>5

\* What a drawer that closes leaves in flight: what was there, or an answer that
\* only the list hears.
LEMMA UnheardFlight ==
  ASSUME NEW f, FlightOK(f)
  PROVE  /\ FlightOK(Unheard(f))
         /\ \A r \in Unheard(f) : r \in f \/ r.kind \in {"toggle", "importUnheard"}
<1>1. ASSUME NEW q \in f, NEW k \in {"toggle", "importUnheard"}
      PROVE  /\ [q EXCEPT !.kind = k] \in Requests /\ Shaped([q EXCEPT !.kind = k])
             /\ [q EXCEPT !.kind = k].kind = k
  <2>1. q \in Requests /\ Len(q.says) <= Count
    BY DEF FlightOK, Shaped
  <2>2. k \in Reads \cup Writes
    BY DEF Writes
  <2> QED
    BY <2>1, <2>2 DEF Requests, Shaped
<1>2. ASSUME NEW r \in Unheard(f)
      PROVE  r \in f \/ \E q \in f, k \in {"toggle", "importUnheard"} : r = [q EXCEPT !.kind = k]
  BY <1>2 DEF Unheard
<1>3. \A r \in f : r \in Requests /\ Shaped(r)
  BY DEF FlightOK
<1>4. ASSUME NEW r \in Unheard(f)
      PROVE  /\ r \in Requests /\ Shaped(r)
             /\ r \in f \/ r.kind \in {"toggle", "importUnheard"}
  <2>1. CASE r \in f
    BY <1>3, <2>1
  <2>2. CASE r \notin f
    <3>1. PICK q \in f, k \in {"toggle", "importUnheard"} : r = [q EXCEPT !.kind = k]
      BY <1>2, <2>2
    <3> QED
      BY <1>1, <3>1
  <2> QED
    BY <2>1, <2>2
<1> QED
  BY <1>4 DEF FlightOK

LEMMA AskTypes ==
  ASSUME FlightOK(flight), NEW r \in Requests, Shaped(r), Ask(r)
  PROVE  FlightOK(flight')
  BY DEF Ask, FlightOK

LEMMA CloseTypes ==
  ASSUME TypeInv, NEW f, FlightOK(f), CloseDrawer(f)
  PROVE  /\ FlightOK(flight') /\ drawerOpen' \in BOOLEAN /\ resetting' \in BOOLEAN
         /\ UNCHANGED <<drawerMode, drawerProduct>>
  BY UnheardFlight DEF CloseDrawer, drawer, TypeInv, TypeOK

-----------------------------------------------------------------------------
(* The server's pages.                                                     *)

LEMMA CatalogFits ==
  ASSUME NEW s \in Seq(Products), IsInjective(s)
  PROVE  Len(s) \in 0..Count
<1>1. s \in Injection(1..Len(s), Products)
  BY DEF Injection
<1>2. Cardinality(1..Len(s)) <= Count
  BY <1>1, AdminProductsAssumption, FS_Injection DEF Count
<1>3. Len(s) \in Nat
  OBVIOUS
<1>4. Cardinality(1..Len(s)) = Len(s)
  <2>1. Cardinality(1..Len(s)) = IF 1 > Len(s) THEN 0 ELSE Len(s) - 1 + 1
    BY <1>3, FS_Interval
  <2> QED
    BY <1>3, <2>1
<1> QED
  BY <1>2, <1>3, <1>4, SomeProducts

LEMMA RowTypes == ASSUME TypeOK PROVE \A p \in Products : Row(p) \in Rows /\ Row(p).id = p
<1>1. ASSUME NEW p \in Products PROVE Row(p) \in Rows /\ Row(p).id = p
  <2>1. store[p].text \in Texts /\ store[p].active \in BOOLEAN
    BY <1>1 DEF TypeOK
  <2>2. p \in Products \cup {None}
    BY <1>1
  <2> QED
    BY <2>1, <2>2 DEF Row, Rows
<1> QED
  BY <1>1

\* How many products a page shows.
Shown(n) == Cardinality({j \in 1..PageSize : (n - 1) * PageSize + j <= Len(catalog)})

LEMMA PageLength ==
  ASSUME TypeOK, NEW n \in Pages
  PROVE  /\ Shown(n) \in 0..Count
         /\ \A i \in 1..Shown(n) : (n - 1) * PageSize + i \in DOMAIN catalog
<1> DEFINE m == (n - 1) * PageSize
           L == Len(catalog)
           k == IF L - m < 0 THEN 0 ELSE IF L - m > PageSize THEN PageSize ELSE L - m
           S == {j \in 1..PageSize : m + j <= L}
<1>1. n - 1 \in Nat /\ PageSize \in Nat \ {0}
  BY SomeProducts, AdminProductsAssumption
<1>2. m \in Nat
  BY <1>1
<1>3. L \in 0..Count /\ catalog \in Seq(Products)
  BY CatalogFits DEF TypeOK
<1>4. Shown(n) = Cardinality(S)
  BY DEF Shown
<1> HIDE DEF m, L
<1>5. k \in Nat /\ S = 1..k
  <2>1. k \in Nat
    BY <1>1, <1>2, <1>3, SomeProducts
  <2>2. \A j \in 1..PageSize : m + j <= L <=> j <= k
    BY <1>1, <1>2, <1>3, SomeProducts
  <2>3. k <= PageSize
    BY <1>1, <1>2, <1>3, SomeProducts
  <2> QED
    BY <1>1, <2>1, <2>2, <2>3
<1>6. k <= L /\ \A i \in 1..k : m + i \in 1..L
  BY <1>1, <1>2, <1>3, SomeProducts
<1> HIDE DEF k, S
<1>7. Cardinality(S) = k
  BY <1>5, FS_Interval
<1>8. DOMAIN catalog = 1..L
  BY <1>3 DEF L
<1>9. k \in 0..Count
  BY <1>3, <1>5, <1>6, SomeProducts
<1> QED
  BY <1>4, <1>6, <1>7, <1>8, <1>9 DEF m

LEMMA PageTypes == ASSUME TypeOK, NEW n \in Pages PROVE RowsOK(ServerPage(n))
<1>1. Shown(n) \in 0..Count
  BY PageLength
<1>2. ServerPage(n) = [i \in 1..Shown(n) |-> Row(catalog[(n - 1) * PageSize + i])]
  BY DEF ServerPage, Shown
<1>3. ASSUME NEW i \in 1..Shown(n) PROVE Row(catalog[(n - 1) * PageSize + i]) \in Rows
  <2>1. catalog[(n - 1) * PageSize + i] \in Products
    BY <1>3, PageLength DEF TypeOK
  <2> QED
    BY <2>1, RowTypes
<1>4. ServerPage(n) \in [1..Shown(n) -> Rows]
  BY <1>2, <1>3
<1>5. Shown(n) \in Nat /\ Shown(n) <= Count
  BY <1>1, SomeProducts
<1> QED
  BY <1>4, <1>5, AsSequence DEF RowsOK

\* A row replaced, and a switch undone, keep the list a list.
LEMMA InListTypes ==
  ASSUME RowsOK(rows), NEW x \in Rows
  PROVE  RowsOK(InList(x)) /\ DOMAIN InList(x) = DOMAIN rows
<1>1. Len(rows) \in Nat /\ DOMAIN rows = 1..Len(rows) /\ Len(rows) <= Count
      /\ rows \in [1..Len(rows) -> Rows]
  BY DEF RowsOK
<1>2. InList(x) \in [1..Len(rows) -> Rows]
  BY <1>1 DEF InList
<1> QED
  BY <1>1, <1>2, AsSequence DEF RowsOK

LEMMA RevertedTypes ==
  ASSUME RowsOK(rows), NEW r \in Requests
  PROVE  RowsOK(Reverted(r))
<1> DEFINE n == IF r.n > Len(rows) THEN r.n ELSE Len(rows)
<1>1. Len(rows) \in Nat /\ DOMAIN rows = 1..Len(rows) /\ Len(rows) <= Count
      /\ rows \in [1..Len(rows) -> Rows]
  BY DEF RowsOK
<1>2. r.n \in 0..Count /\ r.was \in BOOLEAN
  BY DEF Requests, Count
<1>3. n \in Nat /\ n <= Count
  BY <1>1, <1>2, SomeProducts
<1> HIDE DEF n
<1>4. ASSUME NEW j \in 1..n
      PROVE  LET row == IF j \in DOMAIN rows THEN rows[j] ELSE NoRow IN
             (IF j = r.n THEN [row EXCEPT !.active = r.was] ELSE row) \in Rows
  <2>1. (IF j \in DOMAIN rows THEN rows[j] ELSE NoRow) \in Rows
    BY <1>1, RowFields
  <2> QED
    BY <1>2, <2>1, RowFields
<1>5. Reverted(r) \in [1..n -> Rows]
  BY <1>4 DEF Reverted, n
<1> QED
  BY <1>3, <1>5, AsSequence DEF RowsOK

\* A product deleted leaves the others in their order.
LEMMA RemoveTypes ==
  ASSUME NEW s \in Seq(Products), IsInjective(s), NEW i \in DOMAIN s
  PROVE  RemoveAt(s, i) \in Seq(Products) /\ IsInjective(RemoveAt(s, i))
<1> DEFINE d == RemoveAt(s, i)
<1>1. Len(s) \in Nat /\ i \in 1..Len(s) /\ DOMAIN s = 1..Len(s)
  OBVIOUS
<1>2. /\ SubSeq(s, 1, i - 1) \in Seq(Products) /\ Len(SubSeq(s, 1, i - 1)) = i - 1
      /\ \A j \in 1..(i - 1) : SubSeq(s, 1, i - 1)[j] = s[j]
  BY <1>1
<1>3. /\ SubSeq(s, i + 1, Len(s)) \in Seq(Products)
      /\ Len(SubSeq(s, i + 1, Len(s))) = Len(s) - i
      /\ \A j \in 1..(Len(s) - i) : SubSeq(s, i + 1, Len(s))[j] = s[i + j]
  BY <1>1
<1>4. /\ d \in Seq(Products) /\ Len(d) = Len(s) - 1
      /\ \A j \in 1..(Len(s) - 1) : d[j] = IF j < i THEN s[j] ELSE s[j + 1]
  <2> DEFINE a == SubSeq(s, 1, i - 1)
             b == SubSeq(s, i + 1, Len(s))
  <2> HIDE DEF a, b
  <2>1. d = a \o b
    BY DEF RemoveAt, a, b
  <2>2. /\ a \in Seq(Products) /\ b \in Seq(Products)
        /\ Len(a) = i - 1 /\ Len(b) = Len(s) - i
        /\ \A j \in 1..(i - 1) : a[j] = s[j]
        /\ \A j \in 1..(Len(s) - i) : b[j] = s[i + j]
    BY <1>2, <1>3 DEF a, b
  <2> HIDE DEF d
  <2>3. d \in Seq(Products) /\ Len(d) = Len(s) - 1
    <3>1. Len(d) = Len(a) + Len(b) /\ d \in Seq(Products)
      BY <2>1, <2>2, ConcatProperties
    <3> QED
      BY <1>1, <2>2, <3>1
  <2>4. ASSUME NEW j \in 1..(Len(s) - 1) PROVE d[j] = IF j < i THEN s[j] ELSE s[j + 1]
    <3>1. CASE j < i
      <4>1. d[j] = a[j]
        BY <1>1, <2>1, <2>2, <3>1
      <4> QED
        BY <1>1, <2>2, <3>1, <4>1
    <3>2. CASE ~(j < i)
      <4>1. j - (i - 1) \in 1..(Len(s) - i) /\ i + (j - (i - 1)) = j + 1
            /\ j \in 1..(Len(a) + Len(b)) /\ ~(j <= Len(a)) /\ j - Len(a) = j - (i - 1)
        BY <1>1, <2>2, <3>2
      <4>2. d[j] = b[j - Len(a)]
        BY <2>1, <2>2, <4>1, ConcatProperties
      <4> QED
        BY <2>2, <3>2, <4>1, <4>2
    <3> QED
      BY <3>1, <3>2
  <2> QED
    BY <2>3, <2>4
<1> HIDE DEF d
<1>5. IsInjective(d)
  <2>1. DOMAIN d = 1..(Len(s) - 1)
    BY <1>1, <1>4
  <2>2. ASSUME NEW j \in 1..(Len(s) - 1), NEW k \in 1..(Len(s) - 1), d[j] = d[k]
        PROVE  j = k
    <3> DEFINE f(x) == IF x < i THEN x ELSE x + 1
    <3>1. d[j] = s[f(j)] /\ d[k] = s[f(k)]
      BY <1>4
    <3>2. f(j) \in 1..Len(s) /\ f(k) \in 1..Len(s)
      BY <1>1
    <3>3. f(j) = f(k)
      BY <1>1, <2>2, <3>1, <3>2 DEF IsInjective
    <3> QED
      BY <1>1, <3>3
  <2> QED
    BY <2>1, <2>2 DEF IsInjective
<1> QED
  BY <1>4, <1>5 DEF d

-----------------------------------------------------------------------------
(* Type correctness.                                                       *)

Modes == {"view", "add", "edit", "seo", "digital", "csv"}
Subjects == [id: Ids, index: 0..Count]

\* The parts of TypeInv that the steps of the page touch.
PageOK ==
  /\ RowsOK(rows) /\ page \in Pages /\ loading \in BOOLEAN
  /\ drawerOpen \in BOOLEAN /\ resetting \in BOOLEAN
  /\ drawerMode \in Modes /\ drawerProduct \in Subjects
  /\ form \in Forms /\ full \in Rows /\ view \in Rows
  /\ csv \in {"empty", "chosen", "previewed"}
  /\ FlightOK(flight) /\ moves \in 0..MaxMoves /\ strayed \in BOOLEAN
ServerOK ==
  /\ catalog \in Seq(Products) /\ IsInjective(catalog)
  /\ store \in [Products -> [text: Texts, seo: BOOLEAN, active: BOOLEAN]]

LEMMA TypeParts == TypeInv <=> PageOK /\ ServerOK /\ patience \in Patience
  BY DEF TypeInv, TypeOK, ShapeInv, PageOK, ServerOK, RowsOK, FlightOK, Modes, Subjects,
         Ids, Count

LEMMA NextParts == PageOK' /\ ServerOK' /\ patience' \in Patience => TypeInv'
  BY DEF TypeInv, TypeOK, ShapeInv, PageOK, ServerOK, RowsOK, FlightOK, Modes, Subjects,
         Ids, Count

LEMMA Blanks ==
  /\ EmptyForm \in Forms /\ NoRow \in Rows /\ Nothing \in Subjects
  /\ \A x \in Rows : FormOf(x) \in Forms /\ FormOf(x).text = x.text
<1>1. EmptyForm \in Forms
  BY DEF EmptyForm, Forms, Texts
<1>2. Nothing \in Subjects
  BY SomeProducts DEF Nothing, Subjects, Ids
<1>3. ASSUME NEW x \in Rows PROVE FormOf(x) \in Forms /\ FormOf(x).text = x.text
  BY <1>3 DEF FormOf, Forms, Rows
<1> QED
  BY <1>1, <1>2, <1>3, RowFields

LEMMA TypeInit == Init => TypeInv
<1> SUFFICES ASSUME Init PROVE TypeInv
  OBVIOUS
<1>1. catalog \in Seq(Products) /\ IsInjective(catalog)
  <2>1. PICK s \in SUBSET Products : catalog \in SetToSeqs(s)
    BY DEF Init, SetToAllKPermutations
  <2>2. Cardinality(s) \in Nat
    BY <2>1, AdminProductsAssumption, FS_Subset, FS_CardinalityType
  <2>3. /\ catalog \in [1..Cardinality(s) -> Products]
        /\ \A i, j \in 1..Cardinality(s) : i # j => catalog[i] # catalog[j]
    BY <2>1 DEF SetToSeqs
  <2> QED
    BY <2>2, <2>3, AsSequence DEF IsInjective
<1>2. store \in [Products -> [text: Texts, seo: BOOLEAN, active: BOOLEAN]]
  BY DEF Init, Texts
<1>3. FlightOK(flight)
  BY ListRequests, SomeProducts DEF Init, FlightOK
<1>4. RowsOK(rows)
  BY NoRows DEF Init
<1>5. page \in Pages
  BY SomeProducts DEF Init
<1>6. drawerProduct \in Subjects /\ form \in Forms /\ full \in Rows /\ view \in Rows
  BY Blanks DEF Init
<1>7. /\ loading \in BOOLEAN /\ drawerOpen \in BOOLEAN /\ resetting \in BOOLEAN
      /\ drawerMode \in Modes /\ csv \in {"empty", "chosen", "previewed"}
      /\ patience \in Patience /\ strayed \in BOOLEAN
  BY DEF Init, Modes
<1>8. moves \in 0..MaxMoves
  BY AdminProductsAssumption DEF Init
<1> QED
  BY <1>1, <1>2, <1>3, <1>4, <1>5, <1>6, <1>7, <1>8, TypeParts DEF PageOK, ServerOK

\* A click leaves the server alone.
LEMMA ActTypes ==
  ASSUME TypeInv, Acts
  PROVE  /\ ServerOK' /\ patience' \in Patience
         /\ moves' \in 0..MaxMoves /\ strayed' \in BOOLEAN
<1>1. moves' \in 0..MaxMoves
  BY AdminProductsAssumption DEF Acts, TypeInv, TypeOK
<1>2. UNCHANGED <<catalog, store, patience, strayed>>
  BY DEF Acts, server
<1> QED
  BY <1>1, <1>2, TypeParts DEF ServerOK, PageOK

\* A click that asks for something and does no more.
LEMMA AskOnly ==
  ASSUME TypeInv, Acts, NEW r \in Requests, Shaped(r), Ask(r),
         UNCHANGED <<list, drawer, parts>>
  PROVE  TypeInv'
<1>1. PageOK
  BY TypeParts
<1>2. FlightOK(flight')
  BY <1>1, AskTypes DEF PageOK
<1>3. PageOK'
  BY <1>1, <1>2, ActTypes DEF PageOK, list, drawer, parts, RowsOK
<1> QED
  BY <1>3, ActTypes, NextParts

LEMMA RowOf ==
  ASSUME RowsOK(rows), NEW i \in DOMAIN rows
  PROVE  rows[i] \in Rows /\ rows[i].id \in Ids /\ i \in 0..Count /\ Subject(i) \in Subjects
         /\ Subject(i).id = rows[i].id
<1>1. rows[i] \in Rows /\ i \in 1..Len(rows) /\ Len(rows) \in Nat /\ Len(rows) <= Count
  BY DEF RowsOK
<1>2. i \in 0..Count
  BY <1>1, SomeProducts
<1>3. rows[i].id \in Ids
  BY <1>1 DEF Rows, Ids
<1> QED
  BY <1>1, <1>2, <1>3 DEF Subject, Subjects

LEMMA OperatorTypes == ASSUME TypeInv, Operator PROVE TypeInv'
<1>0. PageOK /\ RowsOK(rows) /\ FlightOK(flight)
  BY TypeParts DEF PageOK
<1>1. ASSUME Acts, PageOK' PROVE TypeInv'
  BY <1>1, ActTypes, NextParts
<1>k. {"view", "edit", "slug", "save", "create", "delete", "toggleInEdit", "saveSeo",
       "toggle", "toggleInView", "preview", "import"} \subseteq Kinds
  BY DEF Kinds, Reads, Writes
<1>r. ASSUME NEW k \in Kinds, NEW p \in Ids, k \notin {"list", "listThenClose"},
             k \in {"edit", "view", "save", "reread"} => p # None
      PROVE  Request(k, p) \in Requests /\ Shaped(Request(k, p))
  BY <1>r, RequestTypes, RequestShape
<1>n. None \in Ids
  BY DEF Ids
<1>2. ASSUME NEW n \in Pages, HandlePageChange(n) PROVE TypeInv'
  <2>1. ListRequest("list", n) \in Requests /\ Shaped(ListRequest("list", n))
    BY ListRequests
  <2>2. FlightOK(flight')
    BY <1>0, <1>2, <2>1, AskTypes DEF HandlePageChange
  <2>3. Acts /\ UNCHANGED <<rows, drawer, parts>> /\ loading' = TRUE /\ page' = n
    BY <1>2 DEF HandlePageChange
  <2>4. PageOK'
    BY <1>0, <2>2, <2>3, ActTypes DEF PageOK, drawer, parts, RowsOK
  <2> QED
    BY <1>1, <2>3, <2>4
<1>3. ASSUME NEW i \in DOMAIN rows, NEW m \in {"view", "seo", "digital"}, OpenDrawer(i, m)
      PROVE  TypeInv'
  <2>1. rows[i].id \in Ids /\ rows[i].id # None /\ Subject(i) \in Subjects
    BY <1>0, <1>3, RowOf DEF OpenDrawer, OnRow
  <2>2. Request("view", rows[i].id) \in Requests /\ Shaped(Request("view", rows[i].id))
    BY <1>k, <1>r, <2>1
  <2>3. FlightOK(flight')
    BY <1>0, <1>3, <2>2, AskTypes DEF OpenDrawer
  <2>4. /\ Acts /\ UNCHANGED <<list, resetting, form, full, csv>>
        /\ drawerProduct' = Subject(i) /\ drawerMode' = m /\ drawerOpen' = TRUE
        /\ view' = NoRow
    BY <1>3 DEF OpenDrawer
  <2>5. PageOK'
    BY <1>0, <2>1, <2>3, <2>4, ActTypes, Blanks DEF PageOK, list, RowsOK, Modes
  <2> QED
    BY <1>1, <2>4, <2>5
<1>4. ASSUME NEW i \in DOMAIN rows, OpenEdit(i) PROVE TypeInv'
  <2>1. rows[i].id \in Ids /\ rows[i].id # None /\ Subject(i) \in Subjects
    BY <1>0, <1>4, RowOf DEF OpenEdit, Edits, OnRow
  <2>2. Request("edit", rows[i].id) \in Requests /\ Shaped(Request("edit", rows[i].id))
    BY <1>k, <1>r, <2>1
  <2>3. FlightOK(flight')
    BY <1>0, <1>4, <2>2, AskTypes DEF OpenEdit, Edits
  <2>4. /\ Acts /\ UNCHANGED <<list, resetting, parts>>
        /\ drawerProduct' = Subject(i) /\ drawerMode' = "edit" /\ drawerOpen' = FALSE
    BY <1>4 DEF OpenEdit, Edits
  <2>5. PageOK'
    BY <1>0, <2>1, <2>3, <2>4, ActTypes DEF PageOK, list, parts, RowsOK, Modes
  <2> QED
    BY <1>1, <2>4, <2>5
<1>5. CASE OpenAdd \/ OpenCsv \/ Type \/ ChooseFile
  <2>1. Acts
    BY <1>5 DEF OpenAdd, OpenCsv, Type, ChooseFile
  <2>2. form' \in Forms
    <3>1. form \in Forms
      BY <1>0 DEF PageOK
    <3> QED
      BY <1>5, <3>1, Blanks DEF OpenAdd, OpenCsv, Type, ChooseFile, Forms
  <2>3. /\ full' \in Rows /\ drawerMode' \in Modes /\ drawerOpen' \in BOOLEAN
        /\ csv' \in {"empty", "chosen", "previewed"} /\ drawerProduct' = drawerProduct
        /\ resetting' = resetting /\ view' = view
    BY <1>0, <1>5, Blanks DEF OpenAdd, OpenCsv, Type, ChooseFile, PageOK, Modes, drawer
  <2>4. UNCHANGED <<rows, page, loading, flight>>
    BY <1>5 DEF OpenAdd, OpenCsv, Type, ChooseFile, list
  <2> QED
    BY <1>0, <1>1, <2>1, <2>2, <2>3, <2>4, ActTypes DEF PageOK, RowsOK, FlightOK
<1>6. CASE Close
  <2>1. /\ FlightOK(flight') /\ drawerOpen' \in BOOLEAN /\ resetting' \in BOOLEAN
        /\ UNCHANGED <<drawerMode, drawerProduct>>
    BY <1>0, <1>6, CloseTypes DEF Close
  <2>2. PageOK'
    BY <1>0, <1>6, <2>1 DEF Close, PageOK, list, parts, RowsOK
  <2>3. ServerOK' /\ patience' \in Patience
    BY <1>6, TypeParts DEF Close, ServerOK, server
  <2> QED
    BY <2>2, <2>3, NextParts
<1>7. CASE HandleNameBlur
  BY <1>7, <1>k, <1>n, <1>r, AskOnly DEF HandleNameBlur
<1>8. CASE HandleSubmit
  <2> DEFINE update == drawerMode = "edit" /\ drawerProduct.id # None
             k == IF update THEN "save" ELSE "create"
             p == IF update THEN drawerProduct.id ELSE None
             q == Request(k, p)
             r == [q EXCEPT !.text = form.text]
  <2>1. drawerProduct.id \in Ids /\ form.text \in Texts
    BY <1>0 DEF PageOK, Subjects, Forms
  <2>2. k \in Kinds /\ k \in {"save", "create"} /\ p \in Ids /\ (k = "save" => p # None)
    BY <1>k, <1>n, <2>1
  <2>3. Ask(r) /\ Acts /\ UNCHANGED <<list, drawer, parts>>
    BY <1>8 DEF HandleSubmit
  <2> HIDE DEF k, p
  <2>4. q \in Requests /\ q.kind = k /\ q.of = p /\ q.answer = "sent" /\ Len(q.says) = 0
    BY <2>2, RequestTypes
  <2> HIDE DEF q
  <2>5. r \in Requests /\ r.kind = k /\ r.of = p /\ r.answer = "sent" /\ Len(r.says) = 0
    BY <2>1, <2>4, RequestWith
  <2> HIDE DEF r
  <2>6. Shaped(r)
    BY <2>2, <2>5, RequestShape
  <2> QED
    BY <2>3, <2>5, <2>6, AskOnly
<1>9. CASE HandleDeleteProduct
  <2>1. full.id \in Ids
    BY <1>0 DEF PageOK, Rows, Ids
  <2> QED
    BY <1>9, <1>k, <1>r, <2>1, AskOnly DEF HandleDeleteProduct
<1>10. CASE ToggleActiveInEdit
  <2>1. full \in Rows /\ full.id \in Ids /\ Flip(full) \in Rows
    BY <1>0, RowFields DEF PageOK, Rows, Ids
  <2>2. FlightOK(flight')
    BY <1>0, <1>10, <1>k, <1>r, <2>1, AskTypes DEF ToggleActiveInEdit
  <2>3. RowsOK(rows') /\ full' \in Rows /\ UNCHANGED <<page, loading, form, view, csv>>
    BY <1>0, <1>10, <2>1, InListTypes DEF ToggleActiveInEdit, UpdateProductInList
  <2>4. Acts /\ UNCHANGED drawer
    BY <1>10 DEF ToggleActiveInEdit
  <2> QED
    BY <1>0, <1>1, <2>2, <2>3, <2>4, ActTypes DEF PageOK, drawer, RowsOK
<1>11. CASE ContentAdded
  <2>1. FlightOK(flight')
    BY <1>0, <1>11, ListRequests, AskTypes DEF ContentAdded, PageOK
  <2>2. Acts /\ loading' = TRUE /\ UNCHANGED <<page, rows, drawer, parts>>
    BY <1>11 DEF ContentAdded
  <2> QED
    BY <1>0, <1>1, <2>1, <2>2, ActTypes DEF PageOK, drawer, parts, RowsOK
<1>12. CASE SaveSeo
  <2> DEFINE q == Request("saveSeo", drawerProduct.id)
             r == [q EXCEPT !.text = Blank]
  <2>1. drawerProduct.id \in Ids /\ Blank \in Texts
    BY <1>0 DEF PageOK, Subjects, Texts
  <2>2. q \in Requests /\ q.kind = "saveSeo" /\ q.answer = "sent" /\ Len(q.says) = 0
        /\ q.of = drawerProduct.id
    BY <1>k, <2>1, RequestTypes
  <2>3. Ask(r) /\ Acts /\ UNCHANGED <<list, drawer, parts>>
    BY <1>12 DEF SaveSeo
  <2> HIDE DEF q
  <2>4. r \in Requests /\ r.kind = "saveSeo" /\ r.answer = "sent" /\ Len(r.says) = 0
        /\ r.of = drawerProduct.id
    BY <2>1, <2>2, RequestWith
  <2> HIDE DEF r
  <2>5. Shaped(r)
    BY <1>k, <2>1, <2>4, RequestShape
  <2> QED
    BY <2>3, <2>4, <2>5, AskOnly
<1>13. ASSUME NEW i \in DOMAIN rows, NEW k \in {"toggle", "toggleInView"}, ToggleActive(i, k)
       PROVE  TypeInv'
  <2> DEFINE q == Request(k, rows[i].id)
             b == rows[i].active
             r == [q EXCEPT !.n = i, !.was = b]
  <2>1. rows[i] \in Rows /\ rows[i].id \in Ids /\ i \in 0..Count
    BY <1>0, RowOf
  <2>2. rows[i].active \in BOOLEAN /\ Flip(rows[i]) \in Rows
    BY <2>1, RowFields DEF Rows
  <2>3. q \in Requests /\ q.kind = k /\ q.answer = "sent" /\ Len(q.says) = 0
        /\ q.of = rows[i].id
    BY <1>k, <2>1, RequestTypes
  <2>4. /\ Ask(r) /\ Acts /\ UNCHANGED <<page, loading, drawer, parts>>
        /\ rows' = [rows EXCEPT ![i] = Flip(rows[i])]
    BY <1>13 DEF ToggleActive
  <2>5. RowsOK(rows')
    <3>1. rows \in [1..Len(rows) -> Rows] /\ Len(rows) \in Nat /\ Len(rows) <= Count
      BY <1>0 DEF RowsOK
    <3>2. rows' \in [1..Len(rows) -> Rows]
      BY <2>2, <2>4, <3>1
    <3> QED
      BY <3>1, <3>2, AsSequence DEF RowsOK
  <2>b. b \in BOOLEAN
    BY <2>2
  <2> HIDE DEF q, b
  <2>6. r \in Requests /\ r.kind = k /\ r.answer = "sent" /\ Len(r.says) = 0
        /\ r.of = rows[i].id
    <3>1. /\ r \in Requests /\ r.kind = q.kind /\ r.of = q.of
          /\ r.answer = q.answer /\ r.says = q.says
      BY <2>1, <2>3, <2>b DEF Requests, Count
    <3> QED
      BY <2>3, <3>1
  <2> HIDE DEF r
  <2>7. Shaped(r)
    <3>1. k \in Kinds /\ k \notin {"edit", "view", "save", "reread", "list", "listThenClose"}
      BY <1>k
    <3> QED
      BY <2>1, <2>6, <3>1, RequestShape
  <2>8. FlightOK(flight')
    BY <1>0, <2>4, <2>6, <2>7, AskTypes
  <2> QED
    BY <1>0, <1>1, <2>4, <2>5, <2>8, ActTypes DEF PageOK, drawer, parts
<1>14. CASE ToggleInView
  BY <1>13, <1>14 DEF ToggleInView, ToggleActive
<1>15. ASSUME NEW i \in DOMAIN rows, ToggleRow(i) PROVE TypeInv'
  BY <1>13, <1>15 DEF ToggleRow
<1>16. CASE CsvRequest("preview") \/ CsvRequest("import")
  BY <1>16, <1>k, <1>n, <1>r, AskOnly DEF CsvRequest
<1> QED
  BY <1>2, <1>3, <1>4, <1>5, <1>6, <1>7, <1>8, <1>9, <1>10, <1>11, <1>12, <1>14, <1>15,
     <1>16 DEF Operator

\* What a request does at the server, once it is known to be about a product.
LEMMA EffectTypes ==
  ASSUME TypeInv, NEW r \in Requests, r.of # None => r.of \in Listed, Effect(r)
  PROVE  ServerOK' /\ (r.kind \in {"list", "listThenClose"} => UNCHANGED server)
<1>0. ServerOK /\ r.text \in Texts /\ r.of \in Ids
  BY TypeParts DEF Requests, Ids
<1>1. /\ New \in Texts /\ Blank \in Texts /\ \A p \in Products : p \in Texts
      /\ catalog \in Seq(Products) /\ IsInjective(catalog)
      /\ store \in [Products -> [text: Texts, seo: BOOLEAN, active: BOOLEAN]]
  BY <1>0 DEF Texts, ServerOK
<1>2. ASSUME NEW x \in Texts, NEW b \in BOOLEAN, Stored(r.of, x, b), UNCHANGED catalog
      PROVE  ServerOK'
  <2> DEFINE R == [text: Texts, seo: BOOLEAN, active: BOOLEAN]
  <2>1. CASE r.of \in Products
    <3> DEFINE w == [store[r.of] EXCEPT !.text = x, !.seo = b]
    <3>1. w \in R
      BY <1>1, <1>2, <2>1
    <3>2. store' = [store EXCEPT ![r.of] = w]
      BY <1>1, <1>2, <2>1 DEF Stored
    <3> HIDE DEF w
    <3> QED
      BY <1>1, <1>2, <3>1, <3>2 DEF ServerOK
  <2>2. CASE r.of \notin Products
    <3>1. store' = store
      BY <1>1, <1>2, <2>2 DEF Stored
    <3> QED
      BY <1>1, <1>2, <3>1 DEF ServerOK
  <2> QED
    BY <2>1, <2>2
<1>3. ASSUME Created PROVE ServerOK'
  <2>1. PICK p \in Products \ Listed :
          /\ catalog' = <<p>> \o catalog
          /\ store' = [store EXCEPT ![p] = [text |-> p, seo |-> FALSE, active |-> TRUE]]
    BY <1>3 DEF Created
  <2>2. store' \in [Products -> [text: Texts, seo: BOOLEAN, active: BOOLEAN]]
    BY <1>1, <2>1
  <2>3. <<p>> \in Seq(Products) /\ Len(<<p>>) = 1 /\ <<p>>[1] = p
    BY <2>1
  <2>4. /\ catalog' \in Seq(Products) /\ Len(catalog') = 1 + Len(catalog)
        /\ \A i \in 1..(1 + Len(catalog)) :
             catalog'[i] = IF i <= 1 THEN <<p>>[i] ELSE catalog[i - 1]
    BY <1>1, <2>1, <2>3, ConcatProperties
  <2>5. Len(catalog) \in Nat /\ DOMAIN catalog = 1..Len(catalog)
        /\ DOMAIN catalog' = 1..(1 + Len(catalog))
    BY <1>1, <2>4
  <2>6. \A i \in 1..Len(catalog) : catalog[i] # p
    BY <2>1, <2>5 DEF Listed
  <2>7. ASSUME NEW i \in 1..(1 + Len(catalog)), NEW j \in 1..(1 + Len(catalog)),
               catalog'[i] = catalog'[j]
        PROVE  i = j
    <3>1. \A k \in 1..(1 + Len(catalog)) :
            \/ k = 1 /\ catalog'[k] = p
            \/ k - 1 \in 1..Len(catalog) /\ catalog'[k] = catalog[k - 1]
      BY <2>3, <2>4, <2>5
    <3>2. CASE i = 1 /\ catalog'[i] = p
      <4>1. catalog'[j] = p
        BY <2>7, <3>2
      <4> QED
        BY <2>6, <3>1, <3>2, <4>1
    <3>3. CASE i - 1 \in 1..Len(catalog) /\ catalog'[i] = catalog[i - 1]
      <4>1. j - 1 \in 1..Len(catalog) /\ catalog'[j] = catalog[j - 1]
        BY <2>6, <2>7, <3>1, <3>3
      <4>2. i - 1 = j - 1
        BY <1>1, <2>5, <2>7, <3>3, <4>1 DEF IsInjective
      <4> QED
        BY <2>5, <4>2
    <3> QED
      BY <3>1, <3>2, <3>3
  <2>8. IsInjective(catalog')
    BY <2>5, <2>7 DEF IsInjective
  <2> QED
    BY <2>2, <2>4, <2>8 DEF ServerOK
<1>4. CASE r.kind = "save"
  <2>1. Stored(r.of, r.text, FALSE) /\ UNCHANGED catalog
    BY <1>4 DEF Effect
  <2> QED
    BY <1>0, <1>2, <1>4, <2>1
<1>5. CASE r.kind = "saveSeo"
  <2>1. Stored(r.of, Blank, TRUE) /\ UNCHANGED catalog
    BY <1>5 DEF Effect
  <2> QED
    BY <1>1, <1>2, <1>5, <2>1
<1>6. CASE r.kind = "delete"
  <2>1. PICK i \in DOMAIN catalog : catalog' = RemoveAt(catalog, i)
    BY <1>6 DEF Effect
  <2>2. UNCHANGED store
    BY <1>6 DEF Effect
  <2>3. RemoveAt(catalog, i) \in Seq(Products) /\ IsInjective(RemoveAt(catalog, i))
    BY <1>1, <2>1, RemoveTypes
  <2>4. catalog' \in Seq(Products) /\ IsInjective(catalog')
    BY <2>1, <2>3
  <2> QED
    BY <1>1, <1>6, <2>2, <2>4 DEF ServerOK
<1>7. CASE r.kind \in {"create", "import", "importUnheard"}
  <2>1. Created
    BY <1>7 DEF Effect
  <2> QED
    BY <1>3, <1>7, <2>1
<1>8. CASE r.kind \in {"toggle", "toggleInView", "toggleInEdit"}
  <2>1. store' = [store EXCEPT ![r.of].active = ~@] /\ UNCHANGED catalog
    BY <1>8 DEF Effect
  <2>2. store' \in [Products -> [text: Texts, seo: BOOLEAN, active: BOOLEAN]]
    <3>1. CASE r.of \in Products
      <4> DEFINE w == [store[r.of] EXCEPT !.active = ~store[r.of].active]
      <4>1. w \in [text: Texts, seo: BOOLEAN, active: BOOLEAN]
        BY <1>1, <3>1
      <4>2. store' = [store EXCEPT ![r.of] = w]
        BY <1>1, <2>1, <3>1
      <4> HIDE DEF w
      <4> QED
        BY <1>1, <4>1, <4>2
    <3>2. CASE r.of \notin Products
      BY <1>1, <2>1, <3>2
    <3> QED
      BY <3>1, <3>2
  <2> QED
    BY <1>1, <1>8, <2>1, <2>2 DEF ServerOK
<1>9. CASE r.kind \notin {"save", "saveSeo", "delete", "create", "import", "importUnheard",
                          "toggle", "toggleInView", "toggleInEdit"}
  <2>1. UNCHANGED server
    BY <1>9 DEF Effect
  <2>2. UNCHANGED <<catalog, store>>
    BY <2>1 DEF server
  <2> QED
    BY <1>1, <2>1, <2>2 DEF ServerOK
<1> QED
  BY <1>4, <1>5, <1>6, <1>7, <1>8, <1>9

LEMMA RowTypesNext ==
  ASSUME ServerOK' PROVE \A p \in Products : Row(p)' \in Rows /\ Row(p)'.id = p
<1>1. ASSUME NEW p \in Products PROVE Row(p)' \in Rows /\ Row(p)'.id = p
  <2>1. store'[p].text \in Texts /\ store'[p].active \in BOOLEAN
    BY <1>1 DEF ServerOK
  <2>2. p \in Products \cup {None}
    BY <1>1
  <2> QED
    BY <2>1, <2>2 DEF Row, Rows
<1> QED
  BY <1>1

\* What the server says is what the page expects of it.
LEMMA SaysTypes ==
  ASSUME TypeInv, NEW r \in Requests, Shaped(r), r.of # None => r.of \in Listed, Effect(r)
  PROVE  /\ RowsOK(Says(r)')
         /\ r.kind \in {"edit", "view", "save", "reread"} => Says(r)' = <<Row(r.of)'>>
         /\ r.of # None => r.of \in Products
<1>1. r.of # None => r.of \in Products
  BY TypeParts DEF Listed, ServerOK
<1>2. CASE r.kind \in {"list", "listThenClose"}
  <2>1. UNCHANGED <<catalog, store>>
    BY <1>2, EffectTypes DEF server
  <2>2. Says(r)' = ServerPage(r.n)
    BY <1>2, <2>1 DEF Says, ServerPage, Row
  <2>3. r.n \in Pages
    BY <1>2 DEF Shaped
  <2> QED
    BY <1>1, <1>2, <2>2, <2>3, PageTypes DEF TypeInv
<1>3. CASE r.kind \notin {"list", "listThenClose"}
  <2>1. Says(r)' = IF r.of # None THEN <<Row(r.of)'>> ELSE <<>>
    BY <1>3 DEF Says
  <2>2. r.of # None => Row(r.of)' \in Rows
    BY <1>1, EffectTypes, RowTypesNext
  <2>3. r.kind \in {"edit", "view", "save", "reread"} => r.of # None
    BY DEF Shaped
  <2> QED
    BY <1>1, <2>1, <2>2, <2>3, OneRow, NoRows
<1> QED
  BY <1>2, <1>3

LEMMA AnswerTypes ==
  ASSUME FlightOK(flight), NEW r \in flight, NEW a \in {"ok", "refused", "lost"}, NEW s,
         RowsOK(s), Answer(r, a, s),
         a = "ok" /\ r.kind \in {"edit", "view", "save", "reread"} => Len(s) = 1
  PROVE  FlightOK(flight')
<1> DEFINE q == [r EXCEPT !.answer = a, !.says = s]
<1>1. r \in Requests /\ Shaped(r)
  BY DEF FlightOK
<1>2. /\ q \in Requests /\ q.kind = r.kind /\ q.of = r.of /\ q.n = r.n
      /\ q.answer = a /\ q.says = s
  BY <1>1 DEF Requests, RowsOK
<1>3. flight' = (flight \ {r}) \cup {q}
  BY DEF Answer
<1> HIDE DEF q
<1>4. Shaped(q)
  BY <1>1, <1>2 DEF Shaped, RowsOK
<1> QED
  BY <1>2, <1>3, <1>4 DEF FlightOK

LEMMA ServeTypes == ASSUME TypeInv, NEW r \in flight, Serve(r) PROVE TypeInv'
<1>0. PageOK /\ ServerOK /\ FlightOK(flight) /\ r \in Requests /\ Shaped(r)
  BY TypeParts DEF PageOK, FlightOK
<1>1. FlightOK(flight') /\ ServerOK'
  <2>1. CASE /\ r.of # None => r.of \in Listed
             /\ Effect(r) /\ Answer(r, "ok", Says(r)')
    <3>1. RowsOK(Says(r)')
      BY <1>0, <2>1, SaysTypes
    <3>2. r.kind \in {"edit", "view", "save", "reread"} => Len(Says(r)') = 1
      <4>1. r.kind \in {"edit", "view", "save", "reread"} =>
              Says(r)' = <<Row(r.of)'>> /\ r.of # None /\ Row(r.of)' \in Rows
        BY <1>0, <2>1, SaysTypes, EffectTypes, RowTypesNext DEF Shaped
      <4> QED
        BY <4>1, OneRow
    <3> QED
      BY <1>0, <2>1, <3>1, <3>2, AnswerTypes, EffectTypes
  <2>2. CASE Answer(r, "refused", <<>>) /\ UNCHANGED server
    <3>1. FlightOK(flight')
      BY <1>0, <2>2, NoRows, AnswerTypes
    <3> QED
      BY <1>0, <2>2, <3>1 DEF server, ServerOK
  <2>3. CASE /\ r.of # None => r.of \in Listed
             /\ Effect(r) /\ Answer(r, "lost", <<>>)
    BY <1>0, <2>3, NoRows, AnswerTypes, EffectTypes
  <2> QED
    BY <2>1, <2>2, <2>3 DEF Serve
<1>2. UNCHANGED <<list, drawer, parts, moves, patience, strayed>>
  BY DEF Serve
<1>3. PageOK'
  BY <1>0, <1>1, <1>2 DEF PageOK, list, drawer, parts, RowsOK
<1>4. patience' \in Patience
  BY <1>2, TypeParts
<1> QED
  BY <1>1, <1>3, <1>4, NextParts

\* An answer that is heard leaves the server alone.
LEMMA HearsTypes ==
  ASSUME TypeInv, NEW r \in flight, NEW K, Hears(r, K)
  PROVE  /\ ServerOK' /\ patience' \in Patience /\ moves' \in 0..MaxMoves
         /\ r \in Requests /\ Shaped(r) /\ r.kind \in K /\ r.answer # "sent"
         /\ FlightOK(Rest(r)) /\ PageOK /\ RowsOK(rows)
<1>1. PageOK /\ ServerOK /\ patience \in Patience
  BY TypeParts
<1>2. UNCHANGED <<catalog, store, moves, patience>>
  BY DEF Hears, server
<1>3. FlightOK(flight) /\ RowsOK(rows) /\ moves \in 0..MaxMoves
  BY <1>1 DEF PageOK
<1> QED
  BY <1>1, <1>2, <1>3 DEF Hears, ServerOK, FlightOK, Rest

LEMMA StrayTypes == ASSUME TypeInv, NEW r, Failure(r) PROVE strayed' \in BOOLEAN
  BY DEF Failure

\* The one row of an answer about a product.
LEMMA SaidRow ==
  ASSUME NEW r \in Requests, Shaped(r), r.answer = "ok",
         r.kind \in {"edit", "view", "save", "reread"}
  PROVE  r.says[1] \in Rows
<1>1. Len(r.says) = 1 /\ r.says \in Seq(Rows)
  BY DEF Shaped, Requests
<1> QED
  BY <1>1

LEMMA UpdateTypes ==
  ASSUME PageOK, NEW x \in Rows, UpdateProductInList(x)
  PROVE  /\ RowsOK(rows') /\ page' \in Pages /\ loading' \in BOOLEAN
         /\ form' \in Forms /\ full' \in Rows /\ view' \in Rows
         /\ csv' \in {"empty", "chosen", "previewed"}
<1>1. RowsOK(rows')
  BY InListTypes DEF UpdateProductInList, PageOK
<1> QED
  BY <1>1 DEF UpdateProductInList, PageOK

LEMMA ArriveTypes == ASSUME TypeInv, NEW r \in flight, Arrive(r) PROVE TypeInv'
<1>0. PageOK /\ RowsOK(rows) /\ FlightOK(flight)
  BY TypeParts DEF PageOK
<1>1. ASSUME NEW K, Hears(r, K), PageOK' PROVE TypeInv'
  BY <1>1, HearsTypes, NextParts
<1>2. CASE ListArrives(r)
  <2> DEFINE K == {"list", "listThenClose"}
  <2>1. Hears(r, K) /\ Failure(r)
    BY <1>2 DEF ListArrives
  <2>2. r \in Requests /\ Shaped(r) /\ FlightOK(Rest(r))
    BY <2>1, HearsTypes
  <2>3. RowsOK(rows')
    BY <1>0, <1>2, <2>2 DEF ListArrives, RowsOK, Requests, Shaped
  <2>4. /\ FlightOK(flight') /\ drawerOpen' \in BOOLEAN /\ resetting' \in BOOLEAN
        /\ UNCHANGED <<drawerMode, drawerProduct>>
    BY <1>0, <1>2, <2>2, CloseTypes DEF ListArrives, drawer, PageOK
  <2>5. loading' = FALSE /\ UNCHANGED <<page, parts>>
    BY <1>2 DEF ListArrives
  <2>6. PageOK'
    BY <1>0, <2>1, <2>3, <2>4, <2>5, HearsTypes, StrayTypes DEF PageOK, parts
  <2> QED
    BY <1>1, <2>1, <2>6
<1>3. CASE EditArrives(r)
  <2>1. Hears(r, {"edit"}) /\ Failure(r) /\ flight' = Rest(r)
    BY <1>3 DEF EditArrives
  <2>2. r \in Requests /\ Shaped(r) /\ FlightOK(Rest(r)) /\ r.kind = "edit"
    BY <2>1, HearsTypes
  <2>3. r.answer = "ok" => r.says[1] \in Rows /\ FormOf(r.says[1]) \in Forms
    BY <2>2, SaidRow, Blanks
  <2>4. full' \in Rows /\ form' \in Forms /\ drawerOpen' \in BOOLEAN
    BY <1>0, <1>3, <2>3 DEF EditArrives, PageOK
  <2>5. UNCHANGED <<list, drawerMode, drawerProduct, resetting, view, csv>>
    BY <1>3 DEF EditArrives
  <2>6. PageOK'
    BY <1>0, <2>1, <2>2, <2>4, <2>5, HearsTypes, StrayTypes DEF PageOK, list, RowsOK
  <2> QED
    BY <1>1, <2>1, <2>6
<1>4. CASE ViewArrives(r)
  <2>1. Hears(r, {"view"}) /\ Failure(r) /\ flight' = Rest(r)
    BY <1>4 DEF ViewArrives
  <2>2. r \in Requests /\ Shaped(r) /\ FlightOK(Rest(r)) /\ r.kind = "view"
    BY <2>1, HearsTypes
  <2>3. view' \in Rows
    BY <1>0, <1>4, <2>2, SaidRow DEF ViewArrives, PageOK
  <2>4. UNCHANGED <<list, drawer, form, full, csv>>
    BY <1>4 DEF ViewArrives
  <2>5. PageOK'
    BY <1>0, <2>1, <2>2, <2>3, <2>4, HearsTypes, StrayTypes DEF PageOK, list, drawer, RowsOK
  <2> QED
    BY <1>1, <2>1, <2>5
<1>5. CASE SlugArrives(r)
  <2>1. Hears(r, {"slug"}) /\ flight' = Rest(r)
    BY <1>5 DEF SlugArrives
  <2>2. form' \in Forms
    BY <1>0, <1>5 DEF SlugArrives, PageOK, Forms
  <2>3. UNCHANGED <<list, drawer, full, view, csv, strayed>>
    BY <1>5 DEF SlugArrives
  <2>4. PageOK'
    BY <1>0, <2>1, <2>2, <2>3, HearsTypes DEF PageOK, list, drawer, RowsOK
  <2> QED
    BY <1>1, <2>1, <2>4
<1>6. CASE SaveArrives(r)
  <2>1. Hears(r, {"save"}) /\ Failure(r)
    BY <1>6 DEF SaveArrives
  <2>2. r \in Requests /\ Shaped(r) /\ FlightOK(Rest(r)) /\ r.kind = "save"
    BY <2>1, HearsTypes
  <2>3. CASE r.answer = "ok"
    <3>1. r.says[1] \in Rows
      BY <2>2, <2>3, SaidRow
    <3>2. UpdateProductInList(r.says[1]) /\ CloseDrawer(Rest(r))
      BY <1>6, <2>3 DEF SaveArrives
    <3>3. PageOK'
      BY <1>0, <2>1, <2>2, <3>1, <3>2, UpdateTypes, CloseTypes, HearsTypes, StrayTypes
      DEF PageOK
    <3> QED
      BY <1>1, <2>1, <3>3
  <2>4. CASE r.answer # "ok"
    <3>1. flight' = Rest(r) \cup Reread(r) /\ UNCHANGED <<list, drawer, parts>>
      BY <1>6, <2>4 DEF SaveArrives
    <3>2. \A q \in Reread(r) : q \in Requests /\ Shaped(q)
      <4>1. drawerProduct.id \in Ids /\ "reread" \in Kinds
        BY <1>0 DEF PageOK, Subjects, Kinds, Reads
      <4> QED
        BY <4>1, RequestTypes, RequestShape DEF Reread
    <3>3. FlightOK(flight')
      BY <2>2, <3>1, <3>2 DEF FlightOK
    <3>4. PageOK'
      BY <1>0, <2>1, <3>1, <3>3, HearsTypes, StrayTypes DEF PageOK, list, drawer, parts, RowsOK
    <3> QED
      BY <1>1, <2>1, <3>4
  <2> QED
    BY <2>3, <2>4
<1>7. CASE RereadArrives(r)
  <2>1. Hears(r, {"reread"}) /\ Failure(r) /\ flight' = Rest(r) /\ UNCHANGED drawer
    BY <1>7 DEF RereadArrives
  <2>2. r \in Requests /\ Shaped(r) /\ FlightOK(Rest(r)) /\ r.kind = "reread"
    BY <2>1, HearsTypes
  <2>3. /\ RowsOK(rows') /\ page' \in Pages /\ loading' \in BOOLEAN
        /\ form' \in Forms /\ full' \in Rows /\ view' \in Rows
        /\ csv' \in {"empty", "chosen", "previewed"}
    <3>1. CASE r.answer = "ok"
      <4>1. r.says[1] \in Rows /\ UpdateProductInList(r.says[1])
        BY <1>7, <2>2, <3>1, SaidRow DEF RereadArrives
      <4> QED
        BY <1>0, <4>1, UpdateTypes
    <3>2. CASE r.answer # "ok"
      <4>1. UNCHANGED <<list, parts>>
        BY <1>7, <3>2 DEF RereadArrives
      <4> QED
        BY <1>0, <4>1 DEF PageOK, list, parts, RowsOK
    <3> QED
      BY <3>1, <3>2
  <2>4. PageOK'
    BY <1>0, <2>1, <2>2, <2>3, HearsTypes, StrayTypes DEF PageOK, drawer
  <2> QED
    BY <1>1, <2>1, <2>4
<1>8. CASE ChangeArrives(r)
  <2> DEFINE K == {"create", "delete", "import", "importUnheard"}
  <2>1. Hears(r, K) /\ Failure(r) /\ UNCHANGED <<page, rows, drawer, form, full, view>>
    BY <1>8 DEF ChangeArrives
  <2>2. FlightOK(Rest(r))
    BY <2>1, HearsTypes
  <2>3. ListRequest("listThenClose", page) \in Requests
        /\ Shaped(ListRequest("listThenClose", page))
    BY <1>0, ListRequests DEF PageOK
  <2>4. FlightOK(flight')
    BY <1>8, <2>2, <2>3 DEF ChangeArrives, FlightOK
  <2>5. loading' \in BOOLEAN /\ csv' \in {"empty", "chosen", "previewed"}
    BY <1>0, <1>8 DEF ChangeArrives, PageOK
  <2>6. PageOK'
    BY <1>0, <2>1, <2>4, <2>5, HearsTypes, StrayTypes DEF PageOK, drawer, RowsOK
  <2> QED
    BY <1>1, <2>1, <2>6
<1>9. CASE PreviewArrives(r)
  <2>1. Hears(r, {"preview", "saveSeo"}) /\ Failure(r) /\ flight' = Rest(r)
        /\ UNCHANGED <<list, drawer, form, full, view>>
    BY <1>9 DEF PreviewArrives
  <2>2. csv' \in {"empty", "chosen", "previewed"}
    BY <1>0, <1>9 DEF PreviewArrives, PageOK
  <2>3. PageOK'
    BY <1>0, <2>1, <2>2, HearsTypes, StrayTypes DEF PageOK, list, drawer, RowsOK
  <2> QED
    BY <1>1, <2>1, <2>3
<1>10. CASE ToggleArrives(r)
  <2>1. Hears(r, {"toggle", "toggleInView"}) /\ Failure(r) /\ flight' = Rest(r)
        /\ UNCHANGED <<page, loading, drawer, form, full, csv>>
    BY <1>10 DEF ToggleArrives
  <2>2. RowsOK(rows') /\ view' \in Rows
    <3>1. RowsOK(Reverted(r)) /\ Flip(view) \in Rows /\ view \in Rows
      BY <1>0, <2>1, HearsTypes, RevertedTypes, RowFields DEF PageOK
    <3> QED
      BY <1>0, <1>10, <3>1 DEF ToggleArrives
  <2>3. PageOK'
    BY <1>0, <2>1, <2>2, HearsTypes, StrayTypes DEF PageOK, drawer
  <2> QED
    BY <1>1, <2>1, <2>3
<1>11. CASE ToggleInEditArrives(r)
  <2>1. Hears(r, {"toggleInEdit"}) /\ Failure(r) /\ flight' = Rest(r) /\ UNCHANGED drawer
    BY <1>11 DEF ToggleInEditArrives
  <2>2. /\ RowsOK(rows') /\ page' \in Pages /\ loading' \in BOOLEAN
        /\ form' \in Forms /\ full' \in Rows /\ view' \in Rows
        /\ csv' \in {"empty", "chosen", "previewed"}
    <3>1. CASE full.id # None
      <4>1. full \in Rows /\ UpdateProductInList(full)
        BY <1>0, <1>11, <3>1 DEF ToggleInEditArrives, PageOK
      <4> QED
        BY <1>0, <4>1, UpdateTypes
    <3>2. CASE full.id = None
      <4>1. UNCHANGED <<list, parts>>
        BY <1>11, <3>2 DEF ToggleInEditArrives
      <4> QED
        BY <1>0, <4>1 DEF PageOK, list, parts, RowsOK
    <3> QED
      BY <3>1, <3>2
  <2>3. PageOK'
    BY <1>0, <2>1, <2>2, HearsTypes, StrayTypes DEF PageOK, drawer
  <2> QED
    BY <1>1, <2>1, <2>3
<1> QED
  BY <1>2, <1>3, <1>4, <1>5, <1>6, <1>7, <1>8, <1>9, <1>10, <1>11 DEF Arrive

LEMMA ResetTypes == ASSUME TypeInv, Reset PROVE TypeInv'
<1>1. PageOK /\ ServerOK /\ patience \in Patience
  BY TypeParts
<1>2. /\ UNCHANGED <<server, list, drawerOpen, parts, flight, moves, patience, strayed>>
      /\ resetting' = FALSE /\ drawerProduct' = Nothing /\ drawerMode' = "view"
  BY DEF Reset
<1>3. PageOK' /\ ServerOK'
  BY <1>1, <1>2, Blanks DEF PageOK, ServerOK, server, list, parts, Modes, RowsOK, FlightOK
<1> QED
  BY <1>1, <1>2, <1>3, NextParts

LEMMA TypeStep == TypeInv /\ [Next]_vars => TypeInv'
<1> SUFFICES ASSUME TypeInv, [Next]_vars PROVE TypeInv'
  OBVIOUS
<1>1. CASE UNCHANGED vars
  <2>1. PageOK /\ ServerOK /\ patience \in Patience
    BY TypeParts
  <2>2. UNCHANGED <<catalog, store, page, rows, loading, drawerOpen, drawerMode,
                    drawerProduct, resetting, form, full, view, csv, flight, moves,
                    patience, strayed>>
    BY <1>1 DEF vars, server, list, drawer, parts
  <2>3. PageOK' /\ ServerOK' /\ patience' \in Patience
    BY <2>1, <2>2 DEF PageOK, ServerOK, RowsOK, FlightOK
  <2> QED
    BY <2>3, NextParts
<1> QED
  BY <1>1, OperatorTypes, ResetTypes, ServeTypes, ArriveTypes DEF Next, Network

\* Every variable stays in its type, the list never outgrows the catalogue, and
\* the answers the page reads its rows from are as long as it takes them to be.
THEOREM TypeCorrect == Spec => [](TypeOK /\ ShapeInv)
  BY TypeInit, TypeStep, PTL DEF Spec, TypeInv

-----------------------------------------------------------------------------
(* A product's own drawer, and its own data, unless the operator hurries.  *)

\* The requests that fill the form, and those that save it.
FormRequests(f) == {r \in f : r.kind \in {"edit", "save"}}
OwnText(p) == {p, Blank}

\* The timer runs only while the drawer is closed, and not while an answer is
\* awaited that will open it; there is one such answer at most.
DrawerInv ==
  /\ resetting => ~drawerOpen
  /\ drawerOpen /\ drawerMode \notin {"add", "csv"} => drawerProduct.id # None
  /\ \A r \in flight : r.kind = "edit" =>
       /\ ~drawerOpen /\ ~resetting /\ drawerMode = "edit" /\ drawerProduct.id = r.of
       /\ \A q \in flight : q.kind = "edit" => q = r
\* What is kept, awaited, shown and sent of a product is its own.
OwnInv ==
  /\ \A p \in Products : store[p].text \in OwnText(p)
  /\ drawerOpen /\ drawerMode = "edit" => form.text \in OwnText(drawerProduct.id)
  /\ \A r \in flight :
       /\ r.kind = "edit" /\ r.answer = "ok" => r.says[1].text \in OwnText(r.of)
       /\ r.kind = "save" => r.text \in OwnText(r.of)
KeepInv == DrawerInv /\ OwnInv
KeepUnlessHurried == patience # "hurries" => KeepInv

LEMMA KeepInit == Init => KeepInv
<1> SUFFICES ASSUME Init PROVE KeepInv
  OBVIOUS
<1>1. flight = {ListRequest("list", 1)} /\ ListRequest("list", 1).kind = "list"
  <2>1. "list" \in Kinds /\ None \in Ids /\ 1 \in 0..Count
    BY SomeProducts DEF Kinds, Reads, Ids
  <2>2. Request("list", None) \in Requests /\ Request("list", None).kind = "list"
    BY <2>1, RequestTypes
  <2> QED
    BY <2>1, <2>2, RequestWith DEF Init, ListRequest
<1>2. ~drawerOpen /\ ~resetting /\ \A p \in Products : store[p].text = p
  BY DEF Init
<1> QED
  BY <1>1, <1>2 DEF KeepInv, DrawerInv, OwnInv, OwnText

\* A step that leaves the drawer, the form's text and their requests alone.
LEMMA Quiet ==
  ASSUME KeepInv, FormRequests(flight') \subseteq FormRequests(flight),
         UNCHANGED <<store, drawer>>, form'.text = form.text
  PROVE  KeepInv'
<1>1. \A r \in flight' : r.kind \in {"edit", "save"} => r \in flight
  BY DEF FormRequests
<1>2. UNCHANGED <<store, drawerOpen, drawerMode, drawerProduct, resetting>>
  BY DEF drawer
<1>3. DrawerInv'
  BY <1>1, <1>2 DEF KeepInv, DrawerInv
<1>4. OwnInv'
  BY <1>1, <1>2 DEF KeepInv, OwnInv
<1> QED
  BY <1>3, <1>4 DEF KeepInv

\* A drawer that closes starts the timer, and no form is awaited then.
LEMMA Closing ==
  ASSUME KeepInv, NEW f, FlightOK(f), FormRequests(f) \subseteq FormRequests(flight),
         CloseDrawer(f), UNCHANGED store, form'.text = form.text
  PROVE  KeepInv'
<1>1. CASE ~drawerOpen
  <2>1. flight' = f /\ UNCHANGED drawer
    BY <1>1 DEF CloseDrawer
  <2> QED
    BY <2>1, Quiet
<1>2. CASE drawerOpen
  <2>1. /\ drawerOpen' = FALSE /\ UNCHANGED <<drawerMode, drawerProduct>>
        /\ flight' = Unheard(f)
    BY <1>2 DEF CloseDrawer
  <2>2. \A r \in flight' : r.kind \in {"edit", "save"} => r \in flight
    BY <2>1, UnheardFlight DEF FormRequests
  <2>3. \A r \in flight : r.kind # "edit"
    BY <1>2 DEF KeepInv, DrawerInv
  <2>4. DrawerInv'
    BY <2>1, <2>2, <2>3 DEF DrawerInv
  <2>5. OwnInv'
    BY <2>1, <2>2 DEF KeepInv, OwnInv
  <2> QED
    BY <2>4, <2>5 DEF KeepInv
<1> QED
  BY <1>1, <1>2

LEMMA AskQuiet ==
  ASSUME NEW r, Ask(r), r.kind \notin {"edit", "save"}
  PROVE  FormRequests(flight') \subseteq FormRequests(flight)
  BY DEF Ask, FormRequests

LEMMA KindOf ==
  ASSUME NEW k \in Kinds, NEW p \in Ids
  PROVE  /\ Request(k, p).kind = k
         /\ \A x \in Texts : [Request(k, p) EXCEPT !.text = x].kind = k
         /\ \A n \in 0..Count : ListRequest(k, n).kind = k
<1>1. None \in Ids
  BY DEF Ids
<1>2. /\ Request(k, p) \in Requests /\ Request(k, p).kind = k
      /\ Request(k, None) \in Requests /\ Request(k, None).kind = k
  BY <1>1, RequestTypes
<1> QED
  BY <1>2, RequestWith DEF ListRequest

LEMMA OperatorKeeps ==
  ASSUME TypeInv, KeepInv, patience # "hurries", Operator
  PROVE  KeepInv'
<1>0. PageOK /\ RowsOK(rows) /\ FlightOK(flight) /\ form \in Forms
  BY TypeParts DEF PageOK
<1>k. {"list", "view", "edit", "slug", "save", "create", "delete", "toggleInEdit",
       "saveSeo", "toggle", "toggleInView", "preview", "import"} \subseteq Kinds
  BY DEF Kinds, Reads, Writes
<1>i. None \in Ids /\ drawerProduct.id \in Ids /\ full.id \in Ids /\ Blank \in Texts
      /\ form.text \in Texts /\ page \in 0..Count
  BY <1>0, SomeProducts DEF Ids, PageOK, Subjects, Rows, Forms, Texts
<1>a. ASSUME Acts PROVE UNCHANGED <<store, patience>>
  BY <1>a DEF Acts, server
<1>o. ASSUME MayOpen PROVE ~resetting /\ \A r \in flight : r.kind # "edit"
  BY <1>o DEF MayOpen
<1>1. ASSUME NEW r, Ask(r), r.kind \notin {"edit", "save"}, Acts, UNCHANGED <<drawer, form>>
      PROVE  KeepInv'
  BY <1>1, <1>a, AskQuiet, Quiet
<1>2. ASSUME NEW n \in Pages, HandlePageChange(n) PROVE KeepInv'
  <2>1. n \in 0..Count
    BY SomeProducts
  <2>2. ListRequest("list", n).kind = "list"
    BY <1>i, <1>k, <2>1, KindOf
  <2> QED
    BY <1>1, <1>2, <2>2 DEF HandlePageChange, parts
<1>3. ASSUME NEW i \in DOMAIN rows, NEW m \in {"view", "seo", "digital"}, OpenDrawer(i, m)
      PROVE  KeepInv'
  <2>1. rows[i].id \in Ids /\ rows[i].id # None /\ Subject(i).id = rows[i].id
    BY <1>0, <1>3, RowOf DEF OpenDrawer, OnRow
  <2>2. /\ Acts /\ MayOpen /\ resetting' = resetting /\ form' = form
        /\ drawerProduct' = Subject(i) /\ drawerMode' = m
    BY <1>3 DEF OpenDrawer
  <2>3. Request("view", rows[i].id).kind = "view"
    BY <1>k, <2>1, KindOf
  <2>4. \A r \in flight' : r.kind \in {"edit", "save"} => r \in flight
    BY <1>3, <2>3 DEF OpenDrawer, Ask
  <2>5. DrawerInv'
    BY <1>o, <2>1, <2>2, <2>4 DEF DrawerInv
  <2>6. OwnInv'
    BY <1>a, <2>2, <2>4 DEF KeepInv, OwnInv
  <2> QED
    BY <2>5, <2>6 DEF KeepInv
<1>4. ASSUME NEW i \in DOMAIN rows, OpenEdit(i) PROVE KeepInv'
  <2> DEFINE q == Request("edit", rows[i].id)
  <2>1. rows[i].id \in Ids /\ rows[i].id # None /\ Subject(i).id = rows[i].id
    BY <1>0, <1>4, RowOf DEF OpenEdit, Edits, OnRow
  <2>2. /\ Acts /\ MayOpen /\ resetting' = resetting /\ form' = form
        /\ drawerProduct' = Subject(i) /\ drawerMode' = "edit" /\ drawerOpen' = FALSE
        /\ flight' = flight \cup {q}
    BY <1>4 DEF OpenEdit, Edits, parts, Ask
  <2>3. q.kind = "edit" /\ q.of = rows[i].id /\ q.answer = "sent"
    BY <1>k, <2>1, RequestTypes
  <2> HIDE DEF q
  <2>4. DrawerInv'
    BY <1>o, <2>1, <2>2, <2>3 DEF DrawerInv
  <2>5. OwnInv'
    BY <1>a, <2>2, <2>3 DEF KeepInv, OwnInv
  <2> QED
    BY <2>4, <2>5 DEF KeepInv
<1>5. CASE OpenAdd \/ OpenCsv
  <2>1. /\ Acts /\ MayOpen /\ drawerMode' \in {"add", "csv"}
        /\ UNCHANGED <<resetting, flight>>
    BY <1>5 DEF OpenAdd, OpenCsv
  <2>2. DrawerInv'
    BY <1>o, <2>1 DEF DrawerInv
  <2>3. OwnInv'
    BY <1>a, <2>1 DEF KeepInv, OwnInv
  <2> QED
    BY <2>2, <2>3 DEF KeepInv
<1>6. CASE Type \/ ChooseFile
  <2>1. form'.text = form.text
    BY <1>0, <1>6 DEF Type, ChooseFile, Forms
  <2>2. Acts /\ UNCHANGED <<drawer, flight>>
    BY <1>6 DEF Type, ChooseFile
  <2> QED
    BY <1>a, <2>1, <2>2, Quiet
<1>7. CASE Close
  BY <1>0, <1>7, Closing DEF Close, parts, server
<1>8. CASE HandleNameBlur \/ HandleDeleteProduct
  <2>1. Request("slug", None).kind = "slug" /\ Request("delete", full.id).kind = "delete"
    BY <1>i, <1>k, KindOf
  <2> QED
    BY <1>1, <1>8, <2>1 DEF HandleNameBlur, HandleDeleteProduct, parts
<1>9. CASE HandleSubmit
  <2> DEFINE update == drawerMode = "edit" /\ drawerProduct.id # None
             k == IF update THEN "save" ELSE "create"
             p == IF update THEN drawerProduct.id ELSE None
             q == Request(k, p)
             r == [q EXCEPT !.text = form.text]
  <2>1. k \in Kinds /\ p \in Ids
    BY <1>i, <1>k
  <2>2. Ask(r) /\ Acts /\ UNCHANGED <<list, drawer, parts>> /\ ShowsForm
    BY <1>9 DEF HandleSubmit
  <2>3. q \in Requests /\ q.kind = k /\ q.of = p
    BY <2>1, RequestTypes
  <2> HIDE DEF q
  <2>4. r.kind = k /\ r.of = p /\ r.text = form.text
    BY <1>i, <2>3, RequestWith
  <2> HIDE DEF r
  <2>5. CASE update
    <3>1. form.text \in OwnText(drawerProduct.id)
      BY <2>2, <2>5 DEF ShowsForm, KeepInv, OwnInv
    <3>2. r.kind = "save" /\ r.text \in OwnText(r.of)
      BY <2>4, <2>5, <3>1
    <3>3. /\ flight' = flight \cup {r} /\ form' = form
          /\ UNCHANGED <<store, drawerOpen, drawerMode, drawerProduct, resetting>>
      BY <1>a, <2>2 DEF Ask, drawer, parts
    <3>4. DrawerInv'
      BY <3>2, <3>3 DEF KeepInv, DrawerInv
    <3>5. OwnInv'
      BY <3>2, <3>3 DEF KeepInv, OwnInv
    <3> QED
      BY <3>4, <3>5 DEF KeepInv
  <2>6. CASE ~update
    BY <1>1, <2>2, <2>4, <2>6 DEF parts
  <2> QED
    BY <2>5, <2>6
<1>10. CASE ToggleActiveInEdit \/ ContentAdded
  <2>1. /\ Request("toggleInEdit", full.id).kind = "toggleInEdit"
        /\ ListRequest("list", page).kind = "list"
    BY <1>i, <1>k, KindOf
  <2> QED
    BY <1>1, <1>10, <2>1 DEF ToggleActiveInEdit, UpdateProductInList, ContentAdded, parts
<1>11. CASE SaveSeo
  <2>1. [Request("saveSeo", drawerProduct.id) EXCEPT !.text = Blank].kind = "saveSeo"
    BY <1>i, <1>k, KindOf
  <2> QED
    BY <1>1, <1>11, <2>1 DEF SaveSeo, parts
<1>12. ASSUME NEW i \in DOMAIN rows, NEW k \in {"toggle", "toggleInView"}, ToggleActive(i, k)
       PROVE  KeepInv'
  <2> DEFINE q == Request(k, rows[i].id)
             b == rows[i].active
             r == [q EXCEPT !.n = i, !.was = b]
  <2>1. rows[i].id \in Ids
    BY <1>0, RowOf
  <2>2. q \in Requests /\ q.kind = k
    BY <1>k, <2>1, RequestTypes
  <2>3. Ask(r) /\ Acts /\ UNCHANGED <<drawer, parts>>
    BY <1>12 DEF ToggleActive
  <2> HIDE DEF q, b
  <2>4. r.kind = k
    BY <2>2 DEF Requests
  <2> HIDE DEF r
  <2> QED
    BY <1>1, <2>3, <2>4 DEF parts
<1>13. CASE ToggleInView
  BY <1>12, <1>13 DEF ToggleInView, ToggleActive
<1>14. ASSUME NEW i \in DOMAIN rows, ToggleRow(i) PROVE KeepInv'
  BY <1>12, <1>14 DEF ToggleRow
<1>15. CASE CsvRequest("preview") \/ CsvRequest("import")
  <2>1. Request("preview", None).kind = "preview" /\ Request("import", None).kind = "import"
    BY <1>i, <1>k, KindOf
  <2> QED
    BY <1>1, <1>15, <2>1 DEF CsvRequest, parts
<1> QED
  BY <1>2, <1>3, <1>4, <1>5, <1>6, <1>7, <1>8, <1>9, <1>10, <1>11, <1>13, <1>14, <1>15
  DEF Operator

\* The server keeps of a product its own text, or none.
LEMMA EffectKeeps ==
  ASSUME TypeInv, KeepInv, NEW r \in flight, r.of # None => r.of \in Listed, Effect(r)
  PROVE  \A p \in Products : store'[p].text \in OwnText(p)
<1>0. /\ store \in [Products -> [text: Texts, seo: BOOLEAN, active: BOOLEAN]]
      /\ \A p \in Products : store[p].text \in OwnText(p)
      /\ r.kind = "save" => r.text \in OwnText(r.of)
  BY TypeParts DEF ServerOK, KeepInv, OwnInv
<1>1. ASSUME NEW x, NEW b, Stored(r.of, x, b), x \in OwnText(r.of)
      PROVE  \A p \in Products : store'[p].text \in OwnText(p)
  <2>1. ASSUME NEW p \in Products PROVE store'[p].text \in OwnText(p)
    <3>1. store'[p].text = IF p = r.of THEN x ELSE store[p].text
      BY <1>0, <1>1, <2>1 DEF Stored
    <3> QED
      BY <1>0, <1>1, <2>1, <3>1
  <2> QED
    BY <2>1
<1>2. CASE r.kind = "save"
  <2>1. Stored(r.of, r.text, FALSE)
    BY <1>2 DEF Effect
  <2> QED
    BY <1>0, <1>1, <1>2, <2>1
<1>3. CASE r.kind = "saveSeo"
  <2>1. Stored(r.of, Blank, TRUE) /\ Blank \in OwnText(r.of)
    BY <1>3 DEF Effect, OwnText
  <2> QED
    BY <1>1, <2>1
<1>4. CASE r.kind = "delete"
  <2>1. UNCHANGED store
    BY <1>4 DEF Effect
  <2> QED
    BY <1>0, <2>1
<1>5. CASE r.kind \in {"create", "import", "importUnheard"}
  <2>1. Created
    BY <1>5 DEF Effect
  <2>2. PICK q \in Products \ Listed :
          store' = [store EXCEPT ![q] = [text |-> q, seo |-> FALSE, active |-> TRUE]]
    BY <2>1 DEF Created
  <2>3. ASSUME NEW p \in Products PROVE store'[p].text \in OwnText(p)
    <3>1. store'[p].text = IF p = q THEN q ELSE store[p].text
      BY <1>0, <2>2, <2>3
    <3> QED
      BY <1>0, <2>3, <3>1 DEF OwnText
  <2> QED
    BY <2>3
<1>6. CASE r.kind \in {"toggle", "toggleInView", "toggleInEdit"}
  <2>1. store' = [store EXCEPT ![r.of].active = ~@]
    BY <1>6 DEF Effect
  <2>2. \A p \in Products : store'[p].text = store[p].text
    BY <1>0, <2>1
  <2> QED
    BY <1>0, <2>2
<1>7. CASE r.kind \notin {"save", "saveSeo", "delete", "create", "import", "importUnheard",
                          "toggle", "toggleInView", "toggleInEdit"}
  <2>1. UNCHANGED server
    BY <1>7 DEF Effect
  <2>2. UNCHANGED store
    BY <2>1 DEF server
  <2> QED
    BY <1>0, <2>2
<1> QED
  BY <1>2, <1>3, <1>4, <1>5, <1>6, <1>7

\* An answer changes what a request hears, not what it asked.
LEMMA AnswerKeeps ==
  ASSUME FlightOK(flight), KeepInv, NEW r \in flight, NEW a \in {"ok", "refused", "lost"},
         NEW s, RowsOK(s), Answer(r, a, s),
         r.kind = "edit" /\ a = "ok" => s[1].text \in OwnText(r.of),
         \A p \in Products : store'[p].text \in OwnText(p),
         UNCHANGED <<drawer, form>>
  PROVE  KeepInv'
<1> DEFINE q == [r EXCEPT !.answer = a, !.says = s]
<1>1. r \in Requests
  BY DEF FlightOK
<1>2. q.kind = r.kind /\ q.of = r.of /\ q.text = r.text /\ q.answer = a /\ q.says = s
  BY <1>1 DEF Requests, RowsOK
<1>3. flight' = (flight \ {r}) \cup {q}
  BY DEF Answer
<1> HIDE DEF q
<1>4. UNCHANGED <<drawerOpen, drawerMode, drawerProduct, resetting, form>>
  BY DEF drawer
<1>5. DrawerInv'
  <2>1. resetting' => ~drawerOpen'
    BY <1>4 DEF KeepInv, DrawerInv
  <2>2. drawerOpen' /\ drawerMode' \notin {"add", "csv"} => drawerProduct'.id # None
    BY <1>4 DEF KeepInv, DrawerInv
  <2>3. ASSUME NEW x \in flight', x.kind = "edit"
        PROVE  /\ ~drawerOpen /\ ~resetting /\ drawerMode = "edit" /\ drawerProduct.id = x.of
               /\ \A y \in flight' : y.kind = "edit" => y = x
    <3>1. CASE x = q
      <4>1. r.kind = "edit"
        BY <1>2, <2>3, <3>1
      <4>2. \A y \in flight : y.kind = "edit" => y = r
        BY <4>1 DEF KeepInv, DrawerInv
      <4>3. ~drawerOpen /\ ~resetting /\ drawerMode = "edit" /\ drawerProduct.id = r.of
        BY <4>1 DEF KeepInv, DrawerInv
      <4> QED
        BY <1>2, <1>3, <3>1, <4>2, <4>3
    <3>2. CASE x # q
      <4>1. x \in flight /\ x # r
        BY <1>3, <2>3, <3>2
      <4>2. \A y \in flight : y.kind = "edit" => y = x
        BY <2>3, <4>1 DEF KeepInv, DrawerInv
      <4>3. r.kind # "edit"
        BY <4>1, <4>2
      <4>4. ~drawerOpen /\ ~resetting /\ drawerMode = "edit" /\ drawerProduct.id = x.of
        BY <2>3, <4>1 DEF KeepInv, DrawerInv
      <4> QED
        BY <1>2, <1>3, <4>2, <4>3, <4>4
    <3> QED
      BY <3>1, <3>2
  <2> QED
    BY <1>4, <2>1, <2>2, <2>3 DEF DrawerInv
<1>6. OwnInv'
  <2>1. drawerOpen' /\ drawerMode' = "edit" => form'.text \in OwnText(drawerProduct'.id)
    BY <1>4 DEF KeepInv, OwnInv
  <2>2. ASSUME NEW x \in flight'
        PROVE  /\ x.kind = "edit" /\ x.answer = "ok" => x.says[1].text \in OwnText(x.of)
               /\ x.kind = "save" => x.text \in OwnText(x.of)
    <3>1. CASE x = q
      BY <1>2, <3>1 DEF KeepInv, OwnInv
    <3>2. CASE x \in flight
      BY <3>2 DEF KeepInv, OwnInv
    <3> QED
      BY <1>3, <2>2, <3>1, <3>2
  <2> QED
    BY <2>1, <2>2 DEF OwnInv, OwnText
<1> QED
  BY <1>5, <1>6 DEF KeepInv

LEMMA ServeKeeps == ASSUME TypeInv, KeepInv, NEW r \in flight, Serve(r) PROVE KeepInv'
<1>0. FlightOK(flight) /\ r \in Requests /\ Shaped(r)
  BY TypeParts DEF PageOK, FlightOK
<1>1. UNCHANGED <<drawer, form>>
  BY DEF Serve, parts
<1>2. CASE /\ r.of # None => r.of \in Listed
           /\ Effect(r) /\ Answer(r, "ok", Says(r)')
  <2>1. \A p \in Products : store'[p].text \in OwnText(p)
    BY <1>2, EffectKeeps
  <2>2. RowsOK(Says(r)')
    BY <1>0, <1>2, SaysTypes
  <2>3. ASSUME r.kind = "edit" PROVE Says(r)'[1].text \in OwnText(r.of)
    <3>1. Says(r)' = <<Row(r.of)'>> /\ r.of \in Products
      BY <1>0, <1>2, <2>3, SaysTypes DEF Shaped
    <3>2. Row(r.of)'.text = store'[r.of].text
      BY DEF Row
    <3> QED
      BY <2>1, <3>1, <3>2
  <2> QED
    BY <1>0, <1>1, <1>2, <2>1, <2>2, <2>3, AnswerKeeps
<1>3. CASE Answer(r, "refused", <<>>) /\ UNCHANGED server
  <2>1. \A p \in Products : store'[p].text \in OwnText(p)
    BY <1>3 DEF server, KeepInv, OwnInv
  <2> QED
    BY <1>0, <1>1, <1>3, <2>1, NoRows, AnswerKeeps
<1>4. CASE /\ r.of # None => r.of \in Listed
           /\ Effect(r) /\ Answer(r, "lost", <<>>)
  <2>1. \A p \in Products : store'[p].text \in OwnText(p)
    BY <1>4, EffectKeeps
  <2> QED
    BY <1>0, <1>1, <1>4, <2>1, NoRows, AnswerKeeps
<1> QED
  BY <1>2, <1>3, <1>4 DEF Serve

LEMMA ArriveKeeps == ASSUME TypeInv, KeepInv, NEW r \in flight, Arrive(r) PROVE KeepInv'
<1>0. PageOK /\ RowsOK(rows) /\ FlightOK(flight) /\ form \in Forms
      /\ r \in Requests /\ Shaped(r)
  BY TypeParts DEF PageOK, FlightOK
<1>r. FlightOK(Rest(r)) /\ FormRequests(Rest(r)) \subseteq FormRequests(flight)
  BY <1>0 DEF FlightOK, Rest, FormRequests
<1>h. ASSUME NEW K, Hears(r, K) PROVE UNCHANGED store /\ r.kind \in K
  BY <1>h DEF Hears, server
<1>1. ASSUME NEW K, Hears(r, K), UNCHANGED <<drawer, form>>,
             FormRequests(flight') \subseteq FormRequests(flight)
      PROVE  KeepInv'
  BY <1>1, <1>h, Quiet
<1>2. CASE ListArrives(r)
  <2>1. Hears(r, {"list", "listThenClose"}) /\ form' = form
    BY <1>2 DEF ListArrives, parts
  <2>2. CASE r.kind = "list"
    <3>1. flight' = Rest(r) /\ UNCHANGED drawer
      BY <1>2, <2>2 DEF ListArrives
    <3> QED
      BY <1>1, <1>r, <2>1, <3>1
  <2>3. CASE r.kind # "list"
    <3>1. CloseDrawer(Rest(r))
      BY <1>2, <2>3 DEF ListArrives
    <3> QED
      BY <1>h, <1>r, <2>1, <3>1, Closing
  <2> QED
    BY <2>2, <2>3
<1>3. CASE EditArrives(r)
  <2>1. /\ Hears(r, {"edit"}) /\ r.kind = "edit" /\ flight' = Rest(r) /\ store' = store
        /\ UNCHANGED <<drawerMode, drawerProduct, resetting>>
    BY <1>3, <1>h DEF EditArrives
  <2>2. CASE r.answer # "ok"
    <3>1. UNCHANGED <<form, drawerOpen>>
      BY <1>3, <2>2 DEF EditArrives
    <3> QED
      BY <1>1, <1>r, <2>1, <3>1 DEF drawer
  <2>3. CASE r.answer = "ok"
    <3>1. form' = FormOf(r.says[1]) /\ drawerOpen' = TRUE
      BY <1>3, <2>3 DEF EditArrives
    <3>2. r.says[1] \in Rows
      BY <1>0, <2>1, <2>3, SaidRow
    <3>3. form'.text = r.says[1].text
      BY <3>1, <3>2, Blanks
    <3>4. ~resetting /\ drawerProduct.id = r.of /\ r.of # None
          /\ r.says[1].text \in OwnText(r.of)
      BY <1>0, <2>1, <2>3 DEF KeepInv, DrawerInv, OwnInv, Shaped
    <3>5. \A q \in flight' : q \in flight /\ q.kind # "edit"
      BY <2>1 DEF KeepInv, DrawerInv, Rest
    <3>6. DrawerInv'
      BY <2>1, <3>4, <3>5 DEF DrawerInv
    <3>7. OwnInv'
      BY <2>1, <3>3, <3>4, <3>5 DEF KeepInv, OwnInv
    <3> QED
      BY <3>6, <3>7 DEF KeepInv
  <2> QED
    BY <2>2, <2>3
<1>4. CASE ViewArrives(r)
  BY <1>1, <1>4, <1>r DEF ViewArrives
<1>5. CASE SlugArrives(r)
  <2>1. form'.text = form.text
    BY <1>0, <1>5 DEF SlugArrives, Forms
  <2>2. UNCHANGED <<store, drawer>> /\ flight' = Rest(r)
    BY <1>5, <1>h DEF SlugArrives
  <2> QED
    BY <1>r, <2>1, <2>2, Quiet
<1>6. CASE SaveArrives(r)
  <2>1. Hears(r, {"save"}) /\ store' = store
    BY <1>6, <1>h DEF SaveArrives
  <2>2. CASE r.answer = "ok"
    <3>1. UpdateProductInList(r.says[1]) /\ CloseDrawer(Rest(r))
      BY <1>6, <2>2 DEF SaveArrives
    <3> QED
      BY <1>r, <2>1, <3>1, Closing DEF UpdateProductInList
  <2>3. CASE r.answer # "ok"
    <3>1. flight' = Rest(r) \cup Reread(r) /\ UNCHANGED <<drawer, form>>
      BY <1>6, <2>3 DEF SaveArrives, parts
    <3>2. drawerProduct.id \in Ids /\ "reread" \in Kinds
      BY <1>0 DEF PageOK, Subjects, Kinds, Reads
    <3>3. Request("reread", drawerProduct.id).kind = "reread"
      BY <3>2, KindOf
    <3>4. FormRequests(flight') \subseteq FormRequests(flight)
      BY <1>r, <3>1, <3>3 DEF Reread, FormRequests
    <3> QED
      BY <1>1, <2>1, <3>1, <3>4
  <2> QED
    BY <2>2, <2>3
<1>7. CASE RereadArrives(r)
  BY <1>1, <1>7, <1>r DEF RereadArrives, UpdateProductInList, parts
<1>8. CASE ChangeArrives(r)
  <2>1. /\ Hears(r, {"create", "delete", "import", "importUnheard"})
        /\ UNCHANGED <<drawer, form>>
    BY <1>8 DEF ChangeArrives
  <2>2. ListRequest("listThenClose", page).kind = "listThenClose"
    <3>1. "listThenClose" \in Kinds /\ None \in Ids /\ page \in 0..Count
      BY <1>0, SomeProducts DEF Kinds, Reads, Ids, PageOK
    <3> QED
      BY <3>1, KindOf
  <2>3. FormRequests(flight') \subseteq FormRequests(flight)
    BY <1>8, <1>r, <2>2 DEF ChangeArrives, FormRequests
  <2> QED
    BY <1>1, <2>1, <2>3
<1>9. CASE PreviewArrives(r)
  BY <1>1, <1>9, <1>r DEF PreviewArrives
<1>10. CASE ToggleArrives(r)
  BY <1>1, <1>10, <1>r DEF ToggleArrives
<1>11. CASE ToggleInEditArrives(r)
  BY <1>1, <1>11, <1>r DEF ToggleInEditArrives, UpdateProductInList, parts
<1> QED
  BY <1>2, <1>3, <1>4, <1>5, <1>6, <1>7, <1>8, <1>9, <1>10, <1>11 DEF Arrive

LEMMA ResetKeeps == ASSUME KeepInv, Reset PROVE KeepInv'
<1>1. /\ resetting /\ resetting' = FALSE
      /\ UNCHANGED <<store, drawerOpen, form, flight>>
  BY DEF Reset, server, parts
<1>2. ~drawerOpen /\ \A r \in flight : r.kind # "edit"
  BY <1>1 DEF KeepInv, DrawerInv
<1>3. DrawerInv'
  BY <1>1, <1>2 DEF DrawerInv
<1>4. OwnInv'
  BY <1>1, <1>2 DEF KeepInv, OwnInv
<1> QED
  BY <1>3, <1>4 DEF KeepInv

\* Nobody changes from one kind of operator to another.
LEMMA SamePatience == [Next]_vars => patience' = patience
<1> SUFFICES ASSUME [Next]_vars PROVE patience' = patience
  OBVIOUS
<1>1. CASE Operator
  BY <1>1 DEF Operator, Acts, HandlePageChange, OpenDrawer, OpenEdit, Edits, ToggleRow,
     ToggleActive, OpenAdd, OpenCsv, Close, Type, HandleNameBlur, HandleSubmit,
     HandleDeleteProduct, ToggleActiveInEdit, ContentAdded, SaveSeo, ToggleInView,
     ChooseFile, CsvRequest
<1>2. CASE Reset
  BY <1>2 DEF Reset
<1>3. ASSUME NEW r, Arrive(r) PROVE patience' = patience
  BY <1>3 DEF Arrive, ListArrives, EditArrives, ViewArrives, SlugArrives, SaveArrives,
     RereadArrives, ChangeArrives, PreviewArrives, ToggleArrives, ToggleInEditArrives, Hears
<1>4. CASE Network
  BY <1>3, <1>4 DEF Network, Serve
<1>5. CASE UNCHANGED vars
  BY <1>5 DEF vars
<1> QED
  BY <1>1, <1>2, <1>4, <1>5 DEF Next

LEMMA KeepStep ==
  TypeInv /\ KeepUnlessHurried /\ [Next]_vars => KeepUnlessHurried'
<1> SUFFICES ASSUME TypeInv, KeepInv, patience # "hurries", [Next]_vars PROVE KeepInv'
  BY SamePatience DEF KeepUnlessHurried
<1>1. CASE UNCHANGED vars
  <2>1. UNCHANGED <<store, drawer, form, flight>>
    BY <1>1 DEF vars, server, parts
  <2> QED
    BY <2>1, Quiet
<1> QED
  BY <1>1, OperatorKeeps, ResetKeeps, ServeKeeps, ArriveKeeps DEF Next, Network

LEMMA KeepAlways == Spec => []KeepUnlessHurried
<1>1. Init => KeepUnlessHurried
  BY KeepInit DEF KeepUnlessHurried
<1>2. /\ Init => TypeInv
      /\ TypeInv /\ [Next]_vars => TypeInv'
  BY TypeInit, TypeStep
<1> QED
  BY <1>1, <1>2, KeepStep, PTL DEF Spec

\* Unless the operator hurries, no timer of a drawer that was closed takes the
\* product from the one that is open now (createDelayedReset's 300 ms).
THEOREM OpenDrawerHasItsProduct == Spec => []DrawerKeepsItsProduct
<1>1. KeepUnlessHurried => DrawerKeepsItsProduct
  BY DEF KeepUnlessHurried, KeepInv, DrawerInv, DrawerKeepsItsProduct
<1> QED
  BY <1>1, KeepAlways, PTL

\* Unless the operator hurries, what handleSubmit sends for a product is what the
\* form was filled with for that product, or the blank text it was saved with.
THEOREM FormSavesItsOwnProduct == Spec => []SavedToItsOwnProduct
<1>1. KeepUnlessHurried => SavedToItsOwnProduct
  BY DEF KeepUnlessHurried, KeepInv, OwnInv, OwnText, SavedToItsOwnProduct
<1> QED
  BY <1>1, KeepAlways, PTL

-----------------------------------------------------------------------------
(* The page and the server, when the operator waits for every answer.      *)

\* The page the list is on, as the server has it, and with one product's switch
\* turned.
Now == ServerPage(page)
Turned(p, row) == IF row.id = p THEN Flip(row) ELSE row
Switched(p) == [i \in DOMAIN Now |-> Turned(p, Now[i])]

\* A page's rows are of different products, each as the server keeps it.
LEMMA NowRows ==
  ASSUME TypeInv
  PROVE  /\ RowsOK(Now) /\ DOMAIN Now = 1..Shown(page) /\ Shown(page) \in Nat
         /\ \A i \in DOMAIN Now :
              /\ (page - 1) * PageSize + i \in DOMAIN catalog
              /\ Now[i] = Row(catalog[(page - 1) * PageSize + i])
              /\ catalog[(page - 1) * PageSize + i] \in Products
         /\ \A i \in DOMAIN Now :
              /\ Now[i] \in Rows /\ Now[i].id \in Products /\ Now[i].id \in Listed
              /\ Now[i] = Row(Now[i].id)
         /\ \A i, j \in DOMAIN Now : Now[i].id = Now[j].id => i = j
<1>0. TypeOK /\ page \in Pages /\ catalog \in Seq(Products) /\ IsInjective(catalog)
  BY DEF TypeInv, TypeOK
<1>1. /\ Shown(page) \in 0..Count
      /\ \A i \in 1..Shown(page) : (page - 1) * PageSize + i \in DOMAIN catalog
  BY <1>0, PageLength
<1>2. Now = [i \in 1..Shown(page) |-> Row(catalog[(page - 1) * PageSize + i])]
  BY DEF Now, ServerPage, Shown
<1>3. RowsOK(Now) /\ Shown(page) \in Nat
  BY <1>0, <1>1, SomeProducts, PageTypes DEF Now
<1>4. ASSUME NEW i \in 1..Shown(page)
      PROVE  LET p == catalog[(page - 1) * PageSize + i] IN
             /\ p \in Products /\ p \in Listed /\ Now[i] = Row(p)
             /\ Now[i] \in Rows /\ Now[i].id = p
  <2>1. catalog[(page - 1) * PageSize + i] \in Products
    BY <1>0, <1>1
  <2>2. catalog[(page - 1) * PageSize + i] \in Listed
    BY <1>1 DEF Listed
  <2> QED
    BY <1>0, <1>2, <2>1, <2>2, RowTypes
<1>5. DOMAIN Now = 1..Shown(page)
  BY <1>2
<1>6. ASSUME NEW i \in 1..Shown(page), NEW j \in 1..Shown(page), Now[i].id = Now[j].id
      PROVE  i = j
  <2> DEFINE m == (page - 1) * PageSize
  <2>1. m + i \in DOMAIN catalog /\ m + j \in DOMAIN catalog /\ catalog[m + i] = catalog[m + j]
    BY <1>1, <1>4, <1>6
  <2>2. m + i = m + j
    BY <1>0, <2>1 DEF IsInjective
  <2>3. m \in Int /\ i \in Int /\ j \in Int
    BY <1>3, SomeProducts, <1>0, AdminProductsAssumption
  <2> HIDE DEF m
  <2> QED
    BY <2>2, <2>3
<1> QED
  BY <1>1, <1>3, <1>4, <1>5, <1>6

\* As long as the server keeps what it has, so does the page it would send.
LEMMA SameNow ==
  ASSUME UNCHANGED <<catalog, store, page>>
  PROVE  /\ Now' = Now
         /\ \A p : Switched(p)' = Switched(p) /\ Row(p)' = Row(p)
<1>1. Now' = Now
  BY DEF Now, ServerPage, Row
<1> QED
  BY <1>1 DEF Switched, Turned, Flip, Row

\* A product saved with the text it has is the product it was.
LEMMA SavedNow ==
  ASSUME TypeInv, UNCHANGED <<catalog, page>>, \A p \in Products : Row(p)' = Row(p)
  PROVE  Now' = Now
<1>1. /\ Now = [i \in 1..Shown(page) |-> Row(catalog[(page - 1) * PageSize + i])]
      /\ Now' = [i \in 1..Shown(page) |-> Row(catalog[(page - 1) * PageSize + i])']
  BY DEF Now, ServerPage, Shown
<1>2. ASSUME NEW i \in 1..Shown(page)
      PROVE  Row(catalog[(page - 1) * PageSize + i])' = Row(catalog[(page - 1) * PageSize + i])
  <2>1. catalog[(page - 1) * PageSize + i] \in Products
    BY NowRows
  <2> DEFINE p == catalog[(page - 1) * PageSize + i]
  <2>2. Row(p)' = Row(p)
    BY <2>1 DEF Row
  <2> QED
    BY <2>2
<1> QED
  BY <1>1, <1>2

\* A switch the server has turned shows in that product's row and in no other.
LEMMA TurnedRows ==
  ASSUME TypeInv, NEW p \in Products, UNCHANGED <<catalog, page>>,
         store' = [store EXCEPT ![p].active = ~@]
  PROVE  /\ Row(p)' = Flip(Row(p)) /\ \A x \in Products \ {p} : Row(x)' = Row(x)
         /\ Now' = Switched(p) /\ \A x \in Products : store'[x].text = store[x].text
<1>0. store \in [Products -> [text: Texts, seo: BOOLEAN, active: BOOLEAN]]
  BY TypeParts DEF ServerOK
<1>1. /\ store'[p].active = ~store[p].active /\ store'[p].text = store[p].text
      /\ \A x \in Products \ {p} : store'[x] = store[x]
  BY <1>0
<1>2. Row(p)' = Flip(Row(p)) /\ \A x \in Products \ {p} : Row(x)' = Row(x)
  BY <1>1 DEF Row, Flip
<1>3. Now' = [i \in 1..Shown(page) |-> Row(catalog[(page - 1) * PageSize + i])']
  BY DEF Now, ServerPage, Shown
<1>4. ASSUME NEW i \in 1..Shown(page)
      PROVE  Row(catalog[(page - 1) * PageSize + i])' = Turned(p, Now[i])
  <2>1. PICK x \in Products : x = catalog[(page - 1) * PageSize + i]
    BY NowRows
  <2>2. Row(catalog[(page - 1) * PageSize + i])' = Row(x)'
    BY <2>1 DEF Row
  <2>3. Now[i] = Row(x) /\ Now[i].id = x
    BY <2>1, NowRows, RowTypes DEF TypeInv
  <2> QED
    BY <1>2, <2>2, <2>3 DEF Turned
<1>5. Switched(p) = [i \in 1..Shown(page) |-> Turned(p, Now[i])]
  BY NowRows DEF Switched
<1> QED
  BY <1>1, <1>2, <1>3, <1>4, <1>5

\* What the page does to its rows, when they are the server's.
LEMMA RowsTurn ==
  ASSUME TypeInv, rows = Now
  PROVE  /\ \A i \in DOMAIN rows :
              LET s == [rows EXCEPT ![i] = Flip(@)] IN
              /\ s = Switched(rows[i].id) /\ DOMAIN s = DOMAIN rows
              /\ s[i].id = rows[i].id /\ rows[i].active = ~s[i].active
              /\ \A j \in DOMAIN rows : s[j].id = rows[j].id
         /\ \A p \in Products : InList(Row(p)) = Now /\ InList(Flip(Row(p))) = Switched(p)
<1>1. \A i \in DOMAIN rows : rows[i] \in Rows /\ rows[i] = Row(rows[i].id)
  BY NowRows
<1>2. \A i, j \in DOMAIN rows : rows[i].id = rows[j].id => i = j
  BY NowRows
<1>3. ASSUME NEW i \in DOMAIN rows
      PROVE  LET s == [rows EXCEPT ![i] = Flip(@)] IN
              /\ s = Switched(rows[i].id) /\ DOMAIN s = DOMAIN rows
              /\ s[i].id = rows[i].id /\ rows[i].active = ~s[i].active
              /\ \A j \in DOMAIN rows : s[j].id = rows[j].id
  <2> DEFINE s == [rows EXCEPT ![i] = Flip(@)]
             w == [j \in DOMAIN rows |-> Turned(rows[i].id, rows[j])]
  <2>1. rows = [j \in DOMAIN rows |-> rows[j]]
    BY NowRows DEF RowsOK
  <2>2. s = [j \in DOMAIN rows |-> IF j = i THEN Flip(rows[i]) ELSE rows[j]]
    BY <2>1
  <2>3. \A j \in DOMAIN rows :
          (IF j = i THEN Flip(rows[i]) ELSE rows[j]) = Turned(rows[i].id, rows[j])
    BY <1>2 DEF Turned
  <2>4. s = w
    BY <2>2, <2>3
  <2>5. w = Switched(rows[i].id)
    BY DEF Switched
  <2>6. s[i] = Flip(rows[i]) /\ \A j \in DOMAIN rows : j # i => s[j] = rows[j]
    BY <2>2
  <2>7. Flip(rows[i]).id = rows[i].id
    BY <1>1, RowFields
  <2>8. rows[i].active \in BOOLEAN
    BY <1>1 DEF Rows
  <2>9. rows[i].active = ~Flip(rows[i]).active
    BY <1>1, <2>8 DEF Flip, Rows
  <2> HIDE DEF s, w
  <2>10. DOMAIN s = DOMAIN rows
    BY <2>4 DEF w
  <2> QED
    BY <2>4, <2>5, <2>6, <2>7, <2>9, <2>10 DEF s
<1>4. ASSUME NEW p \in Products
      PROVE  InList(Row(p)) = Now /\ InList(Flip(Row(p))) = Switched(p)
  <2>1. Row(p).id = p /\ Flip(Row(p)).id = p
    BY RowTypes, RowFields DEF TypeInv
  <2>2. InList(Row(p)) = [i \in DOMAIN rows |-> IF rows[i].id = p THEN Row(p) ELSE rows[i]]
    BY <2>1 DEF InList
  <2>3. InList(Flip(Row(p)))
          = [i \in DOMAIN rows |-> IF rows[i].id = p THEN Flip(Row(p)) ELSE rows[i]]
    BY <2>1 DEF InList
  <2>4. rows = [i \in DOMAIN rows |-> rows[i]]
    BY NowRows DEF RowsOK
  <2>5. \A i \in DOMAIN rows : (IF rows[i].id = p THEN Row(p) ELSE rows[i]) = rows[i]
    BY <1>1
  <2>6. InList(Row(p)) = rows
    BY <2>2, <2>4, <2>5
  <2>7. \A i \in DOMAIN rows :
          (IF rows[i].id = p THEN Flip(Row(p)) ELSE rows[i]) = Turned(p, rows[i])
    BY <1>1 DEF Turned
  <2>8. InList(Flip(Row(p))) = Switched(p)
    BY <2>3, <2>7 DEF Switched
  <2> QED
    BY <2>6, <2>8
<1> QED
  BY <1>3, <1>4

\* A switch turned back leaves the server's rows.
LEMMA TurnedBack ==
  ASSUME TypeInv, NEW r, rows = Switched(r.of), r.n \in DOMAIN rows, rows[r.n].id = r.of,
         r.was = ~rows[r.n].active
  PROVE  Reverted(r) = Now
<1>0. /\ DOMAIN rows = 1..Shown(page) /\ DOMAIN Now = 1..Shown(page)
      /\ Shown(page) \in Nat /\ Len(rows) = Shown(page)
  <2>1. DOMAIN rows = 1..Shown(page) /\ DOMAIN Now = 1..Shown(page) /\ Shown(page) \in Nat
    BY NowRows DEF Switched
  <2>2. rows \in Seq(Rows)
    BY TypeParts DEF PageOK, RowsOK
  <2> QED
    BY <2>1, <2>2
<1>1. ASSUME NEW j \in DOMAIN Now
      PROVE  /\ rows[j] = Turned(r.of, Now[j]) /\ rows[j].id = Now[j].id
             /\ Now[j] \in Rows /\ rows[j] \in Rows
             /\ Now[j].id = r.of => j = r.n
  <2>1. Now[j] \in Rows /\ rows[j] = Turned(r.of, Now[j])
    BY NowRows DEF Switched
  <2>2. rows[j] \in Rows /\ rows[j].id = Now[j].id
    BY <2>1, RowFields DEF Turned
  <2>3. Now[r.n] \in Rows /\ rows[r.n] = Turned(r.of, Now[r.n]) /\ r.n \in DOMAIN Now
    BY <1>0, NowRows DEF Switched
  <2>4. Now[r.n].id = r.of
    BY <2>3, RowFields DEF Turned
  <2> QED
    BY <2>1, <2>2, <2>3, <2>4, NowRows
<1>2. Reverted(r) = [j \in 1..Shown(page) |->
                       IF j = r.n THEN [rows[j] EXCEPT !.active = r.was] ELSE rows[j]]
  <2>1. ~(r.n > Len(rows))
    BY <1>0
  <2> QED
    BY <1>0, <2>1 DEF Reverted
<1>3. ASSUME NEW j \in 1..Shown(page)
      PROVE  (IF j = r.n THEN [rows[j] EXCEPT !.active = r.was] ELSE rows[j]) = Now[j]
  <2>1. CASE j = r.n
    <3>1. rows[j] = Flip(Now[j]) /\ Now[j] \in Rows
      BY <1>0, <1>1, <2>1 DEF Turned
    <3>2. Now[j].active \in BOOLEAN /\ Flip(Now[j]).active = ~Now[j].active
      BY <3>1 DEF Flip, Rows
    <3>3. r.was = Now[j].active
      BY <2>1, <3>1, <3>2
    <3>4. [Flip(Now[j]) EXCEPT !.active = Now[j].active] = Now[j]
      BY <3>1 DEF Flip, Rows
    <3> QED
      BY <2>1, <3>1, <3>3, <3>4
  <2>2. CASE j # r.n
    BY <1>0, <1>1, <2>2 DEF Turned
  <2> QED
    BY <2>1, <2>2
<1>4. Now = [j \in 1..Shown(page) |-> Now[j]]
  BY <1>0, NowRows DEF RowsOK
<1> QED
  BY <1>2, <1>3, <1>4

\* Whether a request has been given an answer that the page never follows.
Doomed(r) ==
  \/ r.kind = "saveSeo"
  \/ r.answer = "lost" /\ r.kind \in Writes \ {"save"}
  \/ r.answer = "refused" /\ r.kind \in Unrepaired \ {"toggleInView"}

\* The list is what the server has, or one switch ahead of it; and so are the
\* copies of a product that are open.
Settled == ~loading /\ rows = Now
Ahead(p) == ~loading /\ rows = Switched(p)
Copies ==
  /\ InEdit => full = Row(full.id)
  /\ Shows("view") /\ view.id # None => view = Row(view.id)

Lists == {"list", "listThenClose"}
Copying == {"edit", "view", "save", "reread"}
Looking == {"slug", "preview"}
Adding == {"create", "import", "importUnheard"}
RowSwitches == {"toggle", "toggleInView"}

\* What holds while a request of each kind is on its way or waits to be heard.
AwaitsList(r) ==
  r.kind \in Lists =>
    /\ loading /\ Copies /\ ~Shows("view") /\ r.n = page
    /\ r.answer = "ok" => r.says = Now
AwaitsCopy(r) ==
  /\ r.kind \in Copying \cup Looking => Settled /\ Copies
  /\ r.kind \in Copying /\ r.answer = "ok" => r.says = <<Row(r.of)>>
  /\ r.kind = "save" => r.text = r.of
  /\ r.kind = "view" => Shows("view") /\ r.of = drawerProduct.id
AwaitsChange(r) ==
  /\ r.kind \in Adding \cup {"delete"} =>
       /\ ~loading /\ Copies /\ ~Shows("view")
       /\ r.answer # "ok" => Settled
  /\ r.kind \in Adding => ~InEdit
AwaitsSwitch(r) ==
  /\ r.kind \in RowSwitches \cup {"toggleInEdit"} =>
       IF r.answer = "ok" THEN Settled ELSE Ahead(r.of)
  /\ r.kind \in RowSwitches =>
       /\ r.n \in DOMAIN rows /\ rows[r.n].id = r.of
       /\ r.answer # "ok" => r.was = ~rows[r.n].active
  /\ r.kind = "toggle" => ~drawerOpen
  /\ r.kind = "toggleInView" =>
       /\ Shows("view") /\ view.id = r.of
       /\ view = IF r.answer = "ok" THEN Flip(Row(r.of)) ELSE Row(r.of)
  /\ r.kind = "toggleInEdit" =>
       /\ ~Shows("view") /\ full.id = r.of /\ r.of # None
       /\ full = IF r.answer = "ok" THEN Row(r.of) ELSE Flip(Row(r.of))
Awaits(r) == AwaitsList(r) /\ AwaitsCopy(r) /\ AwaitsChange(r) /\ AwaitsSwitch(r)

\* The texts are the products' own, and the view is of the row it was opened on.
TextsKnown == form.text # Blank /\ \A p \in Products : store[p].text = p
ViewKnown ==
  Shows("view") =>
    /\ drawerProduct.index \in DOMAIN rows
    /\ rows[drawerProduct.index].id = drawerProduct.id
    /\ view.id \in {None, drawerProduct.id}
OneAtATime == \A q, r \in flight : q = r
Agreed ==
  /\ TextsKnown /\ ViewKnown
  /\ flight = {} => Settled /\ Copies
  /\ \A r \in flight : Awaits(r)
AgreeInv == OneAtATime /\ (~strayed /\ (\A r \in flight : ~Doomed(r)) => Agreed)
AgreeIfWaits == patience = "waits" => AgreeInv

\* A step that leaves no request, or one.
LEMMA NoneLeft ==
  ASSUME flight' = {}, TextsKnown', ViewKnown', Settled', Copies'
  PROVE  AgreeInv'
  BY DEF AgreeInv, Agreed, OneAtATime
LEMMA OneLeft ==
  ASSUME NEW q, flight' = {q}, TextsKnown', ViewKnown', Awaits(q)'
  PROVE  AgreeInv'
<1>1. ASSUME NEW r \in flight' PROVE Awaits(r)'
  <2>1. r = q
    BY <1>1
  <2> QED
    BY <2>1 DEF Awaits, AwaitsList, AwaitsCopy, AwaitsChange, AwaitsSwitch, Ahead, Switched, Row
<1> QED
  BY <1>1 DEF AgreeInv, Agreed, OneAtATime
LEMMA OneDoomed ==
  ASSUME NEW q, flight' = {q}, strayed' \/ Doomed(q)
  PROVE  AgreeInv'
  BY DEF AgreeInv, OneAtATime, Doomed
\* Of what may await an answer, the kinds of it that a request is not.
LEMMA AwaitsNone ==
  ASSUME NEW q
  PROVE  /\ q.kind \notin Lists => AwaitsList(q)'
         /\ q.kind \notin Copying \cup Looking => AwaitsCopy(q)'
         /\ q.kind \notin Adding \cup {"delete"} => AwaitsChange(q)'
         /\ q.kind \notin RowSwitches \cup {"toggleInEdit"} => AwaitsSwitch(q)'
  BY DEF AwaitsList, AwaitsCopy, AwaitsChange, AwaitsSwitch, Lists, Copying, Looking,
         Adding, RowSwitches

\* A step that leaves the server, the list and the drawer alone.
LEMMA StillAgrees ==
  ASSUME UNCHANGED <<catalog, store, list, drawer, full, view>>
  PROVE  /\ Settled => Settled'
         /\ Copies => Copies'
         /\ ViewKnown => ViewKnown'
         /\ TextsKnown /\ form'.text = form.text => TextsKnown'
         /\ Shows("view")' = Shows("view") /\ InEdit' = InEdit
<1>1. UNCHANGED <<page, rows, loading, drawerOpen, drawerMode, drawerProduct>>
  BY DEF list, drawer
<1>2. Now' = Now
  BY <1>1, SameNow
<1>3. Shows("view")' = Shows("view") /\ InEdit' = InEdit
  BY <1>1 DEF Shows, InEdit, ShowsForm
<1>4. Settled => Settled'
  BY <1>1, <1>2 DEF Settled
<1>5. Copies => Copies'
  BY <1>3 DEF Copies, Row
<1>6. ViewKnown => ViewKnown'
  BY <1>1, <1>3 DEF ViewKnown
<1>7. TextsKnown /\ form'.text = form.text => TextsKnown'
  BY DEF TextsKnown
<1> QED
  BY <1>3, <1>4, <1>5, <1>6, <1>7

LEMMA AgreeInit == Init => AgreeInv
<1> SUFFICES ASSUME Init PROVE AgreeInv
  OBVIOUS
<1>1. PICK q : q = ListRequest("list", 1)
  OBVIOUS
<1>2. flight = {q} /\ loading /\ ~drawerOpen /\ page = 1
  BY <1>1 DEF Init
<1>3. q.kind = "list" /\ q.n = 1 /\ q.answer = "sent"
  <2>1. "list" \in Kinds /\ None \in Ids /\ 1 \in 0..Count
    BY SomeProducts DEF Kinds, Reads, Ids
  <2>2. Request("list", None) \in Requests /\ Request("list", None).kind = "list"
        /\ Request("list", None).answer = "sent"
    BY <2>1, RequestTypes
  <2> QED
    BY <1>1, <2>1, <2>2, RequestWith DEF ListRequest
<1>4. ~Shows("view") /\ ~InEdit
  BY <1>2 DEF Shows, InEdit, ShowsForm
<1>5. TextsKnown
  BY AdminProductsAssumption DEF Init, TextsKnown, EmptyForm
<1>6. AwaitsList(q)
  BY <1>2, <1>3, <1>4 DEF AwaitsList, Copies
<1>7. AwaitsCopy(q) /\ AwaitsChange(q) /\ AwaitsSwitch(q)
  BY <1>3 DEF AwaitsCopy, AwaitsChange, AwaitsSwitch, Copying, Looking, Adding, RowSwitches
<1> QED
  BY <1>2, <1>4, <1>5, <1>6, <1>7 DEF AgreeInv, Agreed, OneAtATime, Awaits, ViewKnown

\* What a click starts from.
LEMMA BeforeAct ==
  ASSUME AgreeInv, patience = "waits", ~strayed, Acts
  PROVE  /\ flight = {} /\ TextsKnown /\ ViewKnown /\ Settled /\ Copies
         /\ UNCHANGED <<catalog, store, strayed>>
  BY DEF AgreeInv, Agreed, Acts, server
\* A click that asks for one thing and does no more.
LEMMA AskAgrees ==
  ASSUME AgreeInv, patience = "waits", ~strayed, Acts, NEW q, Ask(q),
         UNCHANGED <<list, drawer, parts>>
  PROVE  /\ flight' = {q} /\ TextsKnown' /\ ViewKnown' /\ Settled' /\ Copies'
         /\ Shows("view")' = Shows("view") /\ InEdit' = InEdit
<1>1. /\ flight = {} /\ TextsKnown /\ ViewKnown /\ Settled /\ Copies
      /\ UNCHANGED <<catalog, store, strayed>>
  BY BeforeAct
<1>2. UNCHANGED <<form, full, view>>
  BY DEF parts
<1> QED
  BY <1>1, <1>2, StillAgrees DEF Ask

\* The clicks that ask the server to look something up, or to change the list.
LEMMA AsksAgree ==
  ASSUME TypeInv, KeepInv, AgreeInv, patience = "waits", ~strayed,
         HandleNameBlur \/ HandleSubmit \/ HandleDeleteProduct \/ SaveSeo
           \/ CsvRequest("preview") \/ CsvRequest("import")
  PROVE  AgreeInv'
<1>0. PageOK /\ form.text \in Texts /\ drawerProduct.id \in Ids /\ full.id \in Ids
      /\ None \in Ids /\ Blank \in Texts
  BY TypeParts DEF PageOK, Forms, Subjects, Rows, Ids, Texts
<1>k. {"slug", "save", "create", "delete", "saveSeo", "preview", "import"} \subseteq Kinds
  BY DEF Kinds, Reads, Writes
<1>1. ASSUME NEW q, q.kind \in {"slug", "preview"}, Ask(q), Acts, UNCHANGED <<list, drawer, parts>>
      PROVE  AgreeInv'
  <2>1. /\ flight' = {q} /\ TextsKnown' /\ ViewKnown' /\ Settled' /\ Copies'
    BY <1>1, AskAgrees
  <2>2. AwaitsCopy(q)'
    BY <1>1, <2>1 DEF AwaitsCopy, Copying, Looking
  <2>3. AwaitsList(q)' /\ AwaitsChange(q)' /\ AwaitsSwitch(q)'
    BY <1>1, AwaitsNone DEF Lists, Adding, RowSwitches
  <2> QED
    BY <2>1, <2>2, <2>3, OneLeft DEF Awaits
<1>2. ASSUME NEW q, q.kind \in {"create", "import", "delete"}, Ask(q), Acts,
             UNCHANGED <<list, drawer, parts>>, ~Shows("view"), InEdit => q.kind = "delete"
      PROVE  AgreeInv'
  <2>1. /\ flight' = {q} /\ TextsKnown' /\ ViewKnown' /\ Settled' /\ Copies'
        /\ Shows("view")' = Shows("view") /\ InEdit' = InEdit
    BY <1>2, AskAgrees
  <2>2. AwaitsChange(q)'
    BY <1>2, <2>1 DEF AwaitsChange, Adding, Settled
  <2>3. AwaitsList(q)' /\ AwaitsCopy(q)' /\ AwaitsSwitch(q)'
    BY <1>2, AwaitsNone DEF Lists, Copying, Looking, RowSwitches
  <2> QED
    BY <2>1, <2>2, <2>3, OneLeft DEF Awaits
<1>3. CASE HandleNameBlur
  <2>1. PICK q : q = Request("slug", None)
    OBVIOUS
  <2>2. q.kind = "slug"
    BY <1>0, <1>k, <2>1, KindOf
  <2> QED
    BY <1>1, <1>3, <2>1, <2>2 DEF HandleNameBlur
<1>4. ASSUME NEW k \in {"preview", "import"}, CsvRequest(k) PROVE AgreeInv'
  <2>1. PICK q : q = Request(k, None)
    OBVIOUS
  <2>2. q.kind = k
    BY <1>0, <1>k, <2>1, KindOf
  <2>3. /\ Ask(q) /\ Acts /\ UNCHANGED <<list, drawer, parts>> /\ drawerMode = "csv"
    BY <1>4, <2>1 DEF CsvRequest
  <2>4. ~Shows("view") /\ ~InEdit
    BY <2>3 DEF Shows, InEdit
  <2> QED
    BY <1>1, <1>2, <2>2, <2>3, <2>4
<1>5. CASE HandleDeleteProduct
  <2>1. PICK q : q = Request("delete", full.id)
    OBVIOUS
  <2>2. q.kind = "delete"
    BY <1>0, <1>k, <2>1, KindOf
  <2>3. /\ Ask(q) /\ Acts /\ UNCHANGED <<list, drawer, parts>> /\ InEdit
    BY <1>5, <2>1 DEF HandleDeleteProduct
  <2>4. ~Shows("view")
    BY <2>3 DEF Shows, InEdit
  <2> QED
    BY <1>2, <2>2, <2>3, <2>4
<1>6. CASE SaveSeo
  <2>1. PICK q : q = [Request("saveSeo", drawerProduct.id) EXCEPT !.text = Blank]
    OBVIOUS
  <2>2. q.kind = "saveSeo"
    BY <1>0, <1>k, <2>1, KindOf
  <2>3. flight' = {q}
    BY <1>6, <2>1, BeforeAct DEF SaveSeo, Ask
  <2> QED
    BY <2>2, <2>3, OneDoomed DEF Doomed
<1>7. CASE HandleSubmit
  <2> DEFINE update == drawerMode = "edit" /\ drawerProduct.id # None
             k == IF update THEN "save" ELSE "create"
             p == IF update THEN drawerProduct.id ELSE None
             b == Request(k, p)
  <2>1. k \in Kinds /\ p \in Ids
    BY <1>0, <1>k
  <2>2. b \in Requests /\ b.kind = k /\ b.of = p /\ b.answer = "sent"
    BY <2>1, RequestTypes
  <2>3. PICK q : q = [b EXCEPT !.text = form.text]
    OBVIOUS
  <2>4. Ask(q) /\ Acts /\ UNCHANGED <<list, drawer, parts>> /\ ShowsForm
    BY <1>7, <2>3 DEF HandleSubmit
  <2> HIDE DEF b
  <2>5. q.kind = k /\ q.of = p /\ q.text = form.text /\ q.answer = "sent"
    BY <1>0, <2>2, <2>3, RequestWith
  <2>6. ~Shows("view")
    BY <2>4 DEF ShowsForm
  <2>7. CASE update
    <3>1. /\ flight' = {q} /\ TextsKnown' /\ ViewKnown' /\ Settled' /\ Copies' /\ TextsKnown
      BY <2>4, AskAgrees, BeforeAct
    <3>2. form.text \in OwnText(drawerProduct.id)
      BY <2>4, <2>7 DEF ShowsForm, KeepInv, OwnInv
    <3>3. q.text = q.of
      BY <2>5, <2>7, <3>1, <3>2 DEF OwnText, TextsKnown
    <3>4. q.kind = "save"
      BY <2>5, <2>7
    <3>5. AwaitsCopy(q)'
      BY <2>5, <3>1, <3>3, <3>4 DEF AwaitsCopy, Copying, Looking
    <3>6. AwaitsList(q)' /\ AwaitsChange(q)' /\ AwaitsSwitch(q)'
      BY <3>4, AwaitsNone DEF Lists, Adding, RowSwitches
    <3> QED
      BY <3>1, <3>5, <3>6, OneLeft DEF Awaits
  <2>8. CASE ~update
    <3>1. q.kind = "create"
      BY <2>5, <2>8
    <3>2. drawerMode # "edit"
      BY <2>4, <2>8 DEF ShowsForm, KeepInv, DrawerInv
    <3>3. ~InEdit
      BY <3>2 DEF InEdit
    <3> QED
      BY <1>2, <2>4, <2>6, <3>1, <3>3
  <2> QED
    BY <2>7, <2>8
<1> QED
  BY <1>3, <1>4, <1>5, <1>6, <1>7

\* The clicks that load a page, or open a drawer.
LEMMA OpensAgree ==
  ASSUME TypeInv, KeepInv, AgreeInv, patience = "waits", ~strayed,
         \/ \E n \in Pages : HandlePageChange(n)
         \/ \E i \in DOMAIN rows :
              OpenEdit(i) \/ \E m \in {"view", "seo", "digital"} : OpenDrawer(i, m)
         \/ OpenAdd \/ OpenCsv \/ ContentAdded \/ Type \/ ChooseFile
  PROVE  AgreeInv'
<1>0. PageOK /\ RowsOK(rows) /\ form \in Forms /\ None \in Ids /\ page \in 0..Count
  BY TypeParts, SomeProducts DEF PageOK, Ids
<1>k. {"list", "view", "edit"} \subseteq Kinds
  BY DEF Kinds, Reads
<1>a. ASSUME Acts
      PROVE  /\ flight = {} /\ TextsKnown /\ ViewKnown /\ Settled /\ Copies
             /\ UNCHANGED <<catalog, store, strayed>>
  BY <1>a, BeforeAct
<1>1. ASSUME NEW n \in 0..Count
      PROVE  LET q == ListRequest("list", n) IN
             q.kind = "list" /\ q.n = n /\ q.answer = "sent"
  <2>1. Request("list", None) \in Requests /\ Request("list", None).kind = "list"
        /\ Request("list", None).answer = "sent"
    BY <1>0, <1>k, RequestTypes
  <2> QED
    BY <1>1, <2>1, RequestWith DEF ListRequest
<1>2. ASSUME NEW q, q.kind = "list", q.answer = "sent", flight' = {q}, q.n = page', loading',
             TextsKnown', Copies', ~Shows("view")'
      PROVE  AgreeInv'
  <2>1. AwaitsList(q)'
    BY <1>2 DEF AwaitsList, Lists
  <2>2. AwaitsCopy(q)' /\ AwaitsChange(q)' /\ AwaitsSwitch(q)'
    BY <1>2, AwaitsNone DEF Copying, Looking, Adding, RowSwitches
  <2>3. ViewKnown'
    BY <1>2 DEF ViewKnown
  <2> QED
    BY <1>2, <2>1, <2>2, <2>3, OneLeft DEF Awaits
<1>3. ASSUME NEW n \in Pages, HandlePageChange(n) PROVE AgreeInv'
  <2>1. PICK q : q = ListRequest("list", n)
    OBVIOUS
  <2>2. n \in 0..Count
    BY SomeProducts
  <2>3. /\ Acts /\ ~drawerOpen' /\ loading' /\ page' = n /\ Ask(q)
        /\ UNCHANGED <<form, drawerOpen>>
    BY <1>3, <2>1 DEF HandlePageChange, OnPage, drawer, parts
  <2>4. ~Shows("view")' /\ ~InEdit'
    BY <2>3 DEF Shows, InEdit, ShowsForm
  <2>5. Copies' /\ TextsKnown' /\ flight' = {q}
    BY <1>a, <2>3, <2>4 DEF Copies, TextsKnown, Ask
  <2> QED
    BY <1>1, <1>2, <2>1, <2>2, <2>3, <2>4, <2>5
<1>4. CASE ContentAdded
  <2>1. PICK q : q = ListRequest("list", page)
    OBVIOUS
  <2>2. /\ Acts /\ loading' /\ Ask(q) /\ UNCHANGED <<page, drawer, parts>>
        /\ InEdit \/ Shows("digital")
    BY <1>4, <2>1 DEF ContentAdded
  <2>3. UNCHANGED <<drawerOpen, drawerMode, drawerProduct, form, full, view>>
    BY <2>2 DEF drawer, parts
  <2>4. ~Shows("view")' /\ InEdit' = InEdit
    BY <2>2, <2>3 DEF Shows, InEdit, ShowsForm
  <2>5. Copies' /\ TextsKnown' /\ flight' = {q}
    BY <1>a, <2>2, <2>3, <2>4 DEF Copies, TextsKnown, Ask, Row
  <2> QED
    BY <1>0, <1>1, <1>2, <2>1, <2>2, <2>4, <2>5
<1>5. ASSUME Acts, UNCHANGED list PROVE Settled'
  <2>1. UNCHANGED <<page, rows, loading>>
    BY <1>5 DEF list
  <2>2. Now' = Now
    BY <1>a, <1>5, <2>1, SameNow
  <2> QED
    BY <1>a, <1>5, <2>1, <2>2 DEF Settled
<1>6. ASSUME NEW i \in DOMAIN rows, NEW m \in {"view", "seo", "digital"}, OpenDrawer(i, m)
      PROVE  AgreeInv'
  <2>1. /\ Acts /\ UNCHANGED <<list, form>> /\ drawerOpen' = TRUE /\ drawerMode' = m
        /\ drawerProduct' = Subject(i) /\ view' = NoRow /\ rows[i].id # None
    BY <1>6 DEF OpenDrawer, OnRow
  <2>2. drawerProduct'.id = rows[i].id /\ drawerProduct'.index = i /\ rows[i].id \in Ids
    BY <1>0, <2>1, RowOf DEF Subject
  <2>3. Settled' /\ TextsKnown' /\ ~InEdit'
    BY <1>5, <1>a, <2>1 DEF TextsKnown, InEdit
  <2>4. view'.id = None
    BY <2>1 DEF NoRow
  <2>5. Copies'
    BY <2>3, <2>4 DEF Copies
  <2>6. ViewKnown'
    BY <2>1, <2>2, <2>4 DEF ViewKnown, list
  <2>7. CASE m = "view"
    <3>1. PICK q : q = Request("view", rows[i].id)
      OBVIOUS
    <3>2. q.kind = "view" /\ q.of = rows[i].id /\ q.answer = "sent"
      BY <1>k, <2>2, <3>1, RequestTypes
    <3>3. flight' = {q}
      BY <1>6, <1>a, <2>1, <2>7, <3>1 DEF OpenDrawer, Ask
    <3>4. AwaitsCopy(q)'
      BY <2>1, <2>2, <2>3, <2>5, <2>7, <3>2 DEF AwaitsCopy, Copying, Looking, Shows
    <3>5. AwaitsList(q)' /\ AwaitsChange(q)' /\ AwaitsSwitch(q)'
      BY <3>2, AwaitsNone DEF Lists, Adding, RowSwitches
    <3> QED
      BY <2>3, <2>6, <3>3, <3>4, <3>5, OneLeft DEF Awaits
  <2>8. CASE m # "view"
    <3>1. flight' = {}
      BY <1>6, <1>a, <2>1, <2>8 DEF OpenDrawer
    <3> QED
      BY <2>3, <2>5, <2>6, <3>1, NoneLeft
  <2> QED
    BY <2>7, <2>8
<1>7. ASSUME NEW i \in DOMAIN rows, OpenEdit(i) PROVE AgreeInv'
  <2>1. PICK q : q = Request("edit", rows[i].id)
    OBVIOUS
  <2>2. /\ Acts /\ UNCHANGED <<list, form>> /\ drawerOpen' = FALSE /\ Ask(q)
    BY <1>7, <2>1 DEF OpenEdit, Edits, parts
  <2>3. rows[i].id \in Ids
    BY <1>0, RowOf
  <2>4. q.kind = "edit" /\ q.answer = "sent"
    BY <1>k, <2>1, <2>3, RequestTypes
  <2>5. Settled' /\ TextsKnown' /\ ~InEdit' /\ ~Shows("view")' /\ flight' = {q}
    BY <1>5, <1>a, <2>2 DEF TextsKnown, InEdit, ShowsForm, Shows, Ask
  <2>6. Copies' /\ ViewKnown'
    BY <2>5 DEF Copies, ViewKnown
  <2>7. AwaitsCopy(q)'
    BY <2>4, <2>5, <2>6 DEF AwaitsCopy, Copying, Looking
  <2>8. AwaitsList(q)' /\ AwaitsChange(q)' /\ AwaitsSwitch(q)'
    BY <2>4, AwaitsNone DEF Lists, Adding, RowSwitches
  <2> QED
    BY <2>5, <2>6, <2>7, <2>8, OneLeft DEF Awaits
<1>8. CASE OpenAdd \/ OpenCsv
  <2>1. /\ Acts /\ UNCHANGED <<list, flight>> /\ drawerMode' \in {"add", "csv"}
        /\ form' = form \/ form' = EmptyForm
    BY <1>8 DEF OpenAdd, OpenCsv
  <2>2. ~InEdit' /\ ~Shows("view")'
    BY <2>1 DEF InEdit, Shows
  <2>3. Copies' /\ ViewKnown'
    BY <2>2 DEF Copies, ViewKnown
  <2>4. TextsKnown'
    <3>1. EmptyForm.text # Blank
      BY AdminProductsAssumption DEF EmptyForm
    <3> QED
      BY <1>a, <2>1, <3>1 DEF TextsKnown
  <2>5. Settled' /\ flight' = {}
    BY <1>5, <1>a, <2>1
  <2> QED
    BY <2>3, <2>4, <2>5, NoneLeft
<1>9. CASE Type \/ ChooseFile
  <2>1. Acts /\ UNCHANGED <<list, drawer, full, view, flight>>
    BY <1>9 DEF Type, ChooseFile
  <2>2. form'.text = form.text
    BY <1>0, <1>9 DEF Type, ChooseFile, Forms
  <2> QED
    BY <1>a, <2>1, <2>2, StillAgrees, NoneLeft
<1> QED
  BY <1>3, <1>4, <1>6, <1>7, <1>8, <1>9

\* The switches, in the row, in the view and in the form: the page is ahead of the
\* server by the one that was clicked.
LEMMA SwitchesAgree ==
  ASSUME TypeInv, KeepInv, AgreeInv, patience = "waits", ~strayed,
         \/ \E i \in DOMAIN rows : ToggleRow(i)
         \/ ToggleInView \/ ToggleActiveInEdit
  PROVE  AgreeInv'
<1>0. PageOK /\ RowsOK(rows) /\ full \in Rows /\ full.id \in Ids /\ view \in Rows
  BY TypeParts DEF PageOK, Rows, Ids
<1>k. {"toggle", "toggleInView", "toggleInEdit"} \subseteq Kinds
  BY DEF Kinds, Writes
<1>a. ASSUME Acts
      PROVE  /\ flight = {} /\ TextsKnown /\ ViewKnown /\ Settled /\ Copies
             /\ UNCHANGED <<catalog, store, strayed>>
  BY <1>a, BeforeAct
<1>1. ASSUME NEW i \in DOMAIN rows, NEW k \in RowSwitches, ToggleActive(i, k),
             k = "toggle" => ~drawerOpen,
             k = "toggleInView" => Shows("view") /\ view.id = rows[i].id
      PROVE  AgreeInv'
  <2> DEFINE b == Request(k, rows[i].id)
  <2>1. rows[i].id \in Ids /\ k \in Kinds /\ i \in 0..Count /\ rows[i] \in Rows
    BY <1>0, <1>k, RowOf DEF RowSwitches
  <2>2. b \in Requests /\ b.kind = k /\ b.of = rows[i].id /\ b.answer = "sent"
    BY <2>1, RequestTypes
  <2>3. PICK q : q = [b EXCEPT !.n = i, !.was = rows[i].active]
    OBVIOUS
  <2>4. /\ Acts /\ Ask(q) /\ UNCHANGED <<page, loading, drawer, parts>>
        /\ rows' = [rows EXCEPT ![i] = Flip(@)]
    BY <1>1, <2>3 DEF ToggleActive
  <2> HIDE DEF b
  <2>5. /\ q.kind = k /\ q.of = rows[i].id /\ q.n = i /\ q.was = rows[i].active
        /\ q.answer = "sent"
    BY <2>2, <2>3 DEF Requests
  <2>6. PICK p : p = rows[i].id
    OBVIOUS
  <2>a. flight = {} /\ TextsKnown /\ ViewKnown /\ Settled /\ Copies
    BY <1>a, <2>4
  <2>7. /\ rows' = Switched(p) /\ DOMAIN rows' = DOMAIN rows
        /\ rows'[i].id = p /\ rows[i].active = ~rows'[i].active
        /\ \A j \in DOMAIN rows : rows'[j].id = rows[j].id
    BY <2>a, <2>4, <2>6, RowsTurn DEF Settled
  <2>8. UNCHANGED <<catalog, store, page, loading, drawerOpen, drawerMode, drawerProduct,
                    form, full, view>>
    BY <1>a, <2>4 DEF drawer, parts
  <2>9. Switched(p)' = Switched(p) /\ Row(p)' = Row(p)
    BY <2>8, SameNow
  <2>10. Ahead(q.of)'
    <3>1. Ahead(p)'
      <4>1. ~loading' /\ rows' = Switched(p)'
        BY <2>a, <2>7, <2>8, <2>9 DEF Settled
      <4> QED
        BY <4>1 DEF Ahead
    <3>2. q.of = p
      BY <2>5, <2>6
    <3> QED
      BY <3>1, <3>2
  <2>11. Shows("view")' = Shows("view")
    BY <2>8 DEF Shows
  <2>12. ViewKnown' /\ TextsKnown' /\ flight' = {q}
    BY <2>a, <2>4, <2>7, <2>8, <2>11 DEF ViewKnown, TextsKnown, Ask
  <2>13. k = "toggleInView" => view = Row(p) /\ view.id # None
    <3> SUFFICES ASSUME k = "toggleInView" PROVE view = Row(p) /\ view.id # None
      OBVIOUS
    <3>1. view.id = p /\ Shows("view")
      BY <1>1, <2>6
    <3>2. p \in Products
      BY <2>a, <2>6, NowRows DEF Settled
    <3>3. view.id # None
      BY <3>1, <3>2, AdminProductsAssumption
    <3> QED
      BY <2>a, <3>1, <3>3 DEF Copies
  <2>14. AwaitsSwitch(q)'
    <3>1. k = "toggleInView" => view' = Row(q.of)' /\ view'.id = q.of /\ Shows("view")'
      BY <1>1, <2>5, <2>6, <2>8, <2>9, <2>11, <2>13
    <3>2. k = "toggle" => ~drawerOpen'
      BY <1>1, <2>8
    <3>3. q.n \in DOMAIN rows' /\ rows'[q.n].id = q.of /\ q.was = ~rows'[q.n].active
      BY <2>1, <2>5, <2>6, <2>7 DEF Rows
    <3> QED
      BY <2>5, <2>10, <3>1, <3>2, <3>3 DEF AwaitsSwitch, RowSwitches
  <2>15. AwaitsList(q)' /\ AwaitsCopy(q)' /\ AwaitsChange(q)'
    BY <2>5, AwaitsNone DEF RowSwitches, Lists, Copying, Looking, Adding
  <2> QED
    BY <2>12, <2>14, <2>15, OneLeft DEF Awaits
<1>2. ASSUME NEW i \in DOMAIN rows, ToggleRow(i) PROVE AgreeInv'
  BY <1>1, <1>2 DEF ToggleRow, OnRow, OnPage, RowSwitches
<1>3. CASE ToggleInView
  <2>1. Acts /\ Shows("view") /\ view.id # None /\ ToggleActive(drawerProduct.index, "toggleInView")
    BY <1>3 DEF ToggleInView, ToggleActive
  <2>2. /\ drawerProduct.index \in DOMAIN rows
        /\ rows[drawerProduct.index].id = view.id
    BY <1>a, <2>1 DEF ViewKnown
  <2> QED
    BY <1>1, <2>1, <2>2 DEF RowSwitches
<1>4. CASE ToggleActiveInEdit
  <2>1. Acts /\ InEdit /\ UNCHANGED drawer /\ UpdateProductInList(Flip(full))
    BY <1>4 DEF ToggleActiveInEdit
  <2>a. flight = {} /\ TextsKnown /\ ViewKnown /\ Settled /\ Copies /\ UNCHANGED <<catalog, store>>
    BY <1>a, <2>1
  <2>2. PICK q : q = Request("toggleInEdit", full.id)
    OBVIOUS
  <2>3. q.kind = "toggleInEdit" /\ q.of = full.id /\ q.answer = "sent"
    BY <1>0, <1>k, <2>2, RequestTypes
  <2>4. flight' = {q}
    BY <1>4, <2>a, <2>1, <2>2 DEF ToggleActiveInEdit, Ask
  <2>5. full.id # None /\ full.id \in Products /\ full = Row(full.id)
    BY <1>0, <2>a, <2>1 DEF Copies, InEdit, Ids
  <2>6. PICK p \in Products : p = full.id
    BY <2>5
  <2>7. Flip(full).id = p /\ Flip(full) = Flip(Row(p))
    BY <1>0, <2>5, <2>6, RowFields
  <2>8. /\ rows' = InList(Flip(full)) /\ full' = Flip(full)
        /\ UNCHANGED <<page, loading, form, view, catalog, store>>
    BY <2>a, <2>1, <2>6, <2>7 DEF UpdateProductInList
  <2>9. rows' = Switched(p)
    BY <2>a, <2>7, <2>8, RowsTurn DEF Settled
  <2>10. Switched(p)' = Switched(p) /\ Row(p)' = Row(p)
    BY <2>8, SameNow
  <2>11. UNCHANGED <<drawerOpen, drawerMode, drawerProduct>>
    BY <2>1 DEF drawer
  <2>12. ~Shows("view")'
    BY <2>1, <2>11 DEF Shows, InEdit
  <2>13. Ahead(q.of)'
    <3>1. Ahead(p)'
      <4>1. ~loading' /\ rows' = Switched(p)'
        BY <2>a, <2>8, <2>9, <2>10 DEF Settled
      <4> QED
        BY <4>1 DEF Ahead
    <3>2. q.of = p
      BY <2>3, <2>6
    <3> QED
      BY <3>1, <3>2
  <2>14. full'.id = q.of /\ q.of # None /\ full' = Flip(Row(q.of))'
    BY <2>3, <2>5, <2>6, <2>7, <2>8, <2>10 DEF Flip
  <2>15. AwaitsSwitch(q)'
    BY <2>3, <2>12, <2>13, <2>14 DEF AwaitsSwitch, RowSwitches
  <2>16. AwaitsList(q)' /\ AwaitsCopy(q)' /\ AwaitsChange(q)'
    BY <2>3, AwaitsNone DEF Lists, Copying, Looking, Adding
  <2>17. ViewKnown' /\ TextsKnown'
    BY <2>a, <2>8, <2>12 DEF ViewKnown, TextsKnown
  <2> QED
    BY <2>4, <2>15, <2>16, <2>17, OneLeft DEF Awaits
<1> QED
  BY <1>2, <1>3, <1>4

\* What a drawer that closes leaves of the one request in flight.
LEMMA UnheardOne ==
  /\ Unheard({}) = {}
  /\ \A r : Unheard({r}) =
       IF r.kind \in {"view", "preview"} THEN {}
       ELSE IF r.kind = "toggleInView" THEN {[r EXCEPT !.kind = "toggle"]}
       ELSE IF r.kind = "import" THEN {[r EXCEPT !.kind = "importUnheard"]} ELSE {r}
<1>1. Unheard({}) = {}
  BY DEF Unheard
<1>2. ASSUME NEW r
      PROVE  Unheard({r}) =
       IF r.kind \in {"view", "preview"} THEN {}
       ELSE IF r.kind = "toggleInView" THEN {[r EXCEPT !.kind = "toggle"]}
       ELSE IF r.kind = "import" THEN {[r EXCEPT !.kind = "importUnheard"]} ELSE {r}
  <2> DEFINE f(x) == IF x.kind = "toggleInView" THEN [x EXCEPT !.kind = "toggle"]
                     ELSE IF x.kind = "import" THEN [x EXCEPT !.kind = "importUnheard"] ELSE x
             S == {q \in {r} : q.kind \notin {"view", "preview"}}
  <2>1. Unheard({r}) = {f(x) : x \in S}
    BY DEF Unheard
  <2>2. CASE r.kind \in {"view", "preview"}
    <3>1. S = {}
      BY <2>2
    <3> QED
      BY <2>1, <2>2, <3>1
  <2>3. CASE r.kind \notin {"view", "preview"}
    <3>1. S = {r}
      BY <2>3
    <3> HIDE DEF S
    <3>2. {f(x) : x \in S} = {f(r)}
      BY <3>1
    <3> QED
      BY <2>1, <2>3, <3>2
  <2> QED
    BY <2>2, <2>3
<1> QED
  BY <1>1, <1>2

\* The operator closes the drawer, whatever is awaited.
LEMMA CloseAgrees ==
  ASSUME TypeInv, AgreeInv, Close
  PROVE  AgreeInv'
<1>1. /\ drawerOpen /\ drawerOpen' = FALSE /\ flight' = Unheard(flight)
      /\ UNCHANGED <<drawerMode, drawerProduct>>
      /\ UNCHANGED <<catalog, store, page, rows, loading, form, full, view, strayed>>
  BY DEF Close, CloseDrawer, server, list, parts
<1>2. ~Shows("view")' /\ ~InEdit'
  BY <1>1 DEF Shows, InEdit, ShowsForm
<1>3. Copies' /\ ViewKnown' /\ Now' = Now /\ \A p : Switched(p)' = Switched(p) /\ Row(p)' = Row(p)
  BY <1>1, <1>2, SameNow DEF Copies, ViewKnown
<1>4. (Settled => Settled') /\ (TextsKnown => TextsKnown') /\ \A p : Ahead(p) => Ahead(p)'
  BY <1>1, <1>3 DEF Settled, TextsKnown, Ahead
<1>5. CASE flight = {}
  <2>1. flight' = {}
    BY <1>1, <1>5, UnheardOne
  <2> QED
    BY <1>1, <1>3, <1>4, <1>5, <2>1, NoneLeft DEF AgreeInv, Agreed, OneAtATime
<1>6. CASE flight # {}
  <2>1. PICK r \in flight : flight = {r}
    BY <1>6 DEF AgreeInv, OneAtATime
  <2>2. r \in Requests
    BY <2>1, TypeParts DEF PageOK, FlightOK
  <2>3. CASE r.kind \in {"view", "preview"}
    <3>1. flight' = {}
      BY <1>1, <2>1, <2>3, UnheardOne
    <3>2. ~Doomed(r)
      BY <2>3 DEF Doomed, Unrepaired, Writes
    <3>3. ~strayed => TextsKnown /\ Settled
      BY <2>1, <2>3, <3>2 DEF AgreeInv, Agreed, Awaits, AwaitsCopy, Copying, Looking
    <3> QED
      BY <1>1, <1>3, <1>4, <3>1, <3>3, NoneLeft DEF AgreeInv, OneAtATime
  <2>4. CASE r.kind \notin {"view", "preview"}
    <3> DEFINE k == IF r.kind = "toggleInView" THEN "toggle"
                    ELSE IF r.kind = "import" THEN "importUnheard" ELSE r.kind
    <3>1. PICK q : q = IF k # r.kind THEN [r EXCEPT !.kind = k] ELSE r
      OBVIOUS
    <3>2. flight' = {q}
      BY <1>1, <2>1, <2>4, <3>1, UnheardOne
    <3>3. /\ q.kind = k /\ q.of = r.of /\ q.n = r.n /\ q.was = r.was /\ q.text = r.text
          /\ q.answer = r.answer /\ q.says = r.says
      BY <2>2, <3>1 DEF Requests
    <3>4. CASE strayed \/ Doomed(r)
      <4>1. strayed' \/ Doomed(q)
        BY <1>1, <3>3, <3>4 DEF Doomed, Writes, Unrepaired
      <4> QED
        BY <3>2, <4>1, OneDoomed
    <3>5. CASE ~strayed /\ ~Doomed(r)
      <4>1. TextsKnown /\ ViewKnown /\ Awaits(r)
        BY <2>1, <3>5 DEF AgreeInv, Agreed
      <4>2. AwaitsList(q)'
        BY <1>1, <1>2, <1>3, <3>3, <4>1 DEF Awaits, AwaitsList, Lists
      <4>3. AwaitsCopy(q)'
        BY <1>1, <1>2, <1>3, <1>4, <2>4, <3>3, <4>1 DEF Awaits, AwaitsCopy, Copying, Looking, Row
      <4>4. AwaitsChange(q)'
        BY <1>1, <1>2, <1>3, <1>4, <3>3, <4>1 DEF Awaits, AwaitsChange, Adding
      <4>5. AwaitsSwitch(q)'
        <5>1. CASE q.kind \in RowSwitches
          <6>1. r.kind \in RowSwitches /\ q.kind = "toggle"
            BY <3>3, <5>1 DEF RowSwitches
          <6>2. IF q.answer = "ok" THEN Settled' ELSE Ahead(q.of)'
            BY <1>4, <3>3, <4>1, <6>1 DEF Awaits, AwaitsSwitch
          <6> QED
            BY <1>1, <3>3, <4>1, <6>1, <6>2 DEF Awaits, AwaitsSwitch, RowSwitches
        <5>2. CASE q.kind = "toggleInEdit"
          <6>1. r.kind = "toggleInEdit"
            BY <3>3, <5>2
          <6>2. IF q.answer = "ok" THEN Settled' ELSE Ahead(q.of)'
            BY <1>4, <3>3, <4>1, <6>1 DEF Awaits, AwaitsSwitch
          <6>3. full'.id = q.of /\ q.of # None
            BY <1>1, <3>3, <4>1, <6>1 DEF Awaits, AwaitsSwitch
          <6>4. full' = IF q.answer = "ok" THEN Row(q.of)' ELSE Flip(Row(q.of))'
            BY <1>1, <1>3, <3>3, <4>1, <6>1 DEF Awaits, AwaitsSwitch, Flip
          <6> QED
            BY <1>2, <5>2, <6>2, <6>3, <6>4 DEF AwaitsSwitch, RowSwitches
        <5>3. CASE q.kind \notin RowSwitches \cup {"toggleInEdit"}
          BY <5>3, AwaitsNone
        <5> QED
          BY <5>1, <5>2, <5>3
      <4> QED
        BY <1>3, <1>4, <3>2, <4>1, <4>2, <4>3, <4>4, <4>5, OneLeft DEF Awaits
    <3> QED
      BY <3>4, <3>5
  <2> QED
    BY <2>3, <2>4
<1> QED
  BY <1>5, <1>6

\* The timer finds the drawer closed.
LEMMA ResetAgrees ==
  ASSUME TypeInv, KeepInv, AgreeInv, Reset
  PROVE  AgreeInv'
<1>1. /\ UNCHANGED <<catalog, store, page, rows, loading, form, full, view, strayed, flight>>
      /\ drawerOpen' = drawerOpen /\ ~drawerOpen
  BY DEF Reset, server, list, parts, KeepInv, DrawerInv
<1>2. ~Shows("view")' /\ ~InEdit' /\ ~Shows("view")
  BY <1>1 DEF Shows, InEdit, ShowsForm
<1>3. Copies' /\ ViewKnown' /\ Now' = Now /\ \A p : Switched(p)' = Switched(p) /\ Row(p)' = Row(p)
  BY <1>1, <1>2, SameNow DEF Copies, ViewKnown
<1>4. (Settled => Settled') /\ (TextsKnown => TextsKnown') /\ \A p : Ahead(p) => Ahead(p)'
  BY <1>1, <1>3 DEF Settled, TextsKnown, Ahead
<1>5. CASE flight = {}
  BY <1>1, <1>3, <1>4, <1>5, NoneLeft DEF AgreeInv, Agreed, OneAtATime
<1>6. CASE flight # {}
  <2>1. PICK r \in flight : flight = {r}
    BY <1>6 DEF AgreeInv, OneAtATime
  <2>2. flight' = {r}
    BY <1>1, <2>1
  <2>3. CASE strayed \/ Doomed(r)
    BY <1>1, <2>2, <2>3, OneDoomed
  <2>4. CASE ~strayed /\ ~Doomed(r)
    <3>1. TextsKnown /\ ViewKnown /\ Awaits(r)
      BY <2>1, <2>4 DEF AgreeInv, Agreed
    <3>2. AwaitsList(r)'
      BY <1>1, <1>2, <1>3, <3>1 DEF Awaits, AwaitsList, Lists
    <3>3. r.kind # "view" /\ r.kind # "toggleInView"
      BY <1>2, <3>1 DEF Awaits, AwaitsCopy, AwaitsSwitch
    <3>4. AwaitsCopy(r)'
      BY <1>1, <1>3, <1>4, <3>1, <3>3 DEF Awaits, AwaitsCopy, Copying, Looking, Row
    <3>5. AwaitsChange(r)'
      BY <1>1, <1>2, <1>3, <1>4, <3>1 DEF Awaits, AwaitsChange, Adding
    <3>6. AwaitsSwitch(r)'
      <4>1. r.kind \in RowSwitches \cup {"toggleInEdit"} =>
              IF r.answer = "ok" THEN Settled' ELSE Ahead(r.of)'
        BY <1>4, <3>1 DEF Awaits, AwaitsSwitch
      <4>2. r.kind = "toggleInEdit" =>
              /\ full'.id = r.of /\ r.of # None
              /\ full' = IF r.answer = "ok" THEN Row(r.of)' ELSE Flip(Row(r.of))'
        BY <1>1, <1>3, <3>1 DEF Awaits, AwaitsSwitch, Flip
      <4> QED
        BY <1>1, <1>2, <3>1, <3>3, <4>1, <4>2 DEF Awaits, AwaitsSwitch, RowSwitches
    <3> QED
      BY <1>3, <1>4, <2>2, <3>1, <3>2, <3>4, <3>5, <3>6, OneLeft DEF Awaits
  <2> QED
    BY <2>3, <2>4
<1> QED
  BY <1>5, <1>6

\* An answer, whatever it is, leaves the page as it was.
LEMMA AnsweredRequest ==
  ASSUME TypeInv, NEW r \in flight, flight = {r}, NEW a \in {"ok", "refused", "lost"},
         NEW s \in Seq(Rows), Answer(r, a, s)
  PROVE  \E q : /\ flight' = {q} /\ q.kind = r.kind /\ q.of = r.of /\ q.n = r.n
                /\ q.was = r.was /\ q.text = r.text /\ q.answer = a /\ q.says = s
<1>1. r \in Requests
  BY TypeParts DEF PageOK, FlightOK
<1>2. PICK q : q = [r EXCEPT !.answer = a, !.says = s]
  OBVIOUS
<1>3. /\ q.kind = r.kind /\ q.of = r.of /\ q.n = r.n
      /\ q.was = r.was /\ q.text = r.text /\ q.answer = a /\ q.says = s
  BY <1>1, <1>2 DEF Requests
<1>4. flight' = {q}
  BY <1>2 DEF Answer
<1> QED
  BY <1>3, <1>4

\* A refusal changes nothing at the server.
LEMMA RefusalAgrees ==
  ASSUME TypeInv, AgreeInv, ~strayed, NEW r \in flight, flight = {r}, r.answer = "sent",
         Answer(r, "refused", <<>>), UNCHANGED <<server, list, drawer, parts, strayed>>
  PROVE  AgreeInv'
<1>1. PICK q : /\ flight' = {q} /\ q.kind = r.kind /\ q.of = r.of /\ q.n = r.n
               /\ q.was = r.was /\ q.text = r.text /\ q.answer = "refused" /\ q.says = <<>>
  BY AnsweredRequest, NoRows
<1>2. UNCHANGED <<catalog, store, page, rows, loading, drawerOpen, drawerMode, drawerProduct,
                  form, full, view, strayed>>
  BY DEF server, list, drawer, parts
<1>3. CASE Doomed(q)
  BY <1>1, <1>3, OneDoomed
<1>4. CASE ~Doomed(q)
  <2>1. ~Doomed(r)
    BY <1>1, <1>4 DEF Doomed
  <2>2. TextsKnown /\ ViewKnown /\ Awaits(r)
    BY <2>1 DEF AgreeInv, Agreed
  <2>3. /\ Settled => Settled'
        /\ Copies => Copies'
        /\ TextsKnown' /\ ViewKnown'
        /\ Shows("view")' = Shows("view") /\ InEdit' = InEdit
    BY <1>2, <2>2, StillAgrees
  <2>4. \A p : Switched(p)' = Switched(p) /\ Row(p)' = Row(p)
    BY <1>2, SameNow
  <2>5. \A p : Ahead(p) => Ahead(p)'
    BY <1>2, <2>4 DEF Ahead
  <2>6. AwaitsList(q)'
    BY <1>1, <1>2, <2>2, <2>3 DEF Awaits, AwaitsList
  <2>7. AwaitsCopy(q)'
    BY <1>1, <1>2, <2>2, <2>3 DEF Awaits, AwaitsCopy
  <2>8. AwaitsChange(q)'
    BY <1>1, <1>2, <2>2, <2>3 DEF Awaits, AwaitsChange
  <2>9. AwaitsSwitch(q)'
    <3>1. q.kind \in RowSwitches \cup {"toggleInEdit"} => Ahead(q.of)'
      BY <1>1, <2>2, <2>5 DEF Awaits, AwaitsSwitch
    <3>2. q.kind = "toggleInEdit" =>
            /\ ~Shows("view")' /\ full'.id = q.of /\ q.of # None
            /\ full' = Flip(Row(q.of))'
      BY <1>1, <1>2, <2>2, <2>3, <2>4 DEF Awaits, AwaitsSwitch, Flip
    <3>3. q.kind = "toggleInView" =>
            /\ Shows("view")' /\ view'.id = q.of /\ view' = Row(q.of)'
      BY <1>1, <1>2, <2>2, <2>3, <2>4 DEF Awaits, AwaitsSwitch
    <3>4. q.kind \in RowSwitches =>
            q.n \in DOMAIN rows' /\ rows'[q.n].id = q.of /\ q.was = ~rows'[q.n].active
      BY <1>1, <1>2, <2>2 DEF Awaits, AwaitsSwitch
    <3>5. q.kind = "toggle" => ~drawerOpen'
      BY <1>1, <1>2, <2>2 DEF Awaits, AwaitsSwitch
    <3> QED
      BY <1>1, <3>1, <3>2, <3>3, <3>4, <3>5 DEF AwaitsSwitch
  <2> QED
    BY <1>1, <2>3, <2>6, <2>7, <2>8, <2>9, OneLeft DEF Awaits
<1> QED
  BY <1>3, <1>4

\* What is done at the server is what the answer says of it; a lost answer is one
\* the page never follows, except to a save, which changes nothing that it shows.
LEMMA EffectAgrees ==
  ASSUME TypeInv, AgreeInv, ~strayed, NEW r \in flight, flight = {r}, r.answer = "sent",
         r.of # None => r.of \in Listed, Effect(r),
         \/ Answer(r, "ok", Says(r)')
         \/ r.kind \in Writes /\ Answer(r, "lost", <<>>),
         UNCHANGED <<list, drawer, parts, strayed>>
  PROVE  AgreeInv'
<1>0. /\ r \in Requests /\ Shaped(r) /\ r.of \in Ids /\ r.kind \in Kinds
      /\ store \in [Products -> [text: Texts, seo: BOOLEAN, active: BOOLEAN]]
  BY TypeParts DEF PageOK, ServerOK, FlightOK, Requests, Ids, Kinds
<1>1. /\ RowsOK(Says(r)')
      /\ r.of # None => r.of \in Products
      /\ r.kind \in Copying => Says(r)' = <<Row(r.of)'>>
  BY <1>0, SaysTypes DEF Copying
<1>2. \E a \in {"ok", "lost"}, s \in Seq(Rows) :
        /\ Answer(r, a, s) /\ (a = "ok" => s = Says(r)')
        /\ a = "lost" => r.kind \in Writes
  <2>1. CASE Answer(r, "ok", Says(r)')
    <3>1. Says(r)' \in Seq(Rows)
      BY <1>1 DEF RowsOK
    <3> QED
      BY <2>1, <3>1
  <2>2. CASE r.kind \in Writes /\ Answer(r, "lost", <<>>)
    BY <2>2, NoRows
  <2> QED
    BY <2>1, <2>2
<1>3. PICK a \in {"ok", "lost"}, s \in Seq(Rows) :
        /\ Answer(r, a, s) /\ (a = "ok" => s = Says(r)')
        /\ a = "lost" => r.kind \in Writes
  BY <1>2
<1>4. PICK q : /\ flight' = {q} /\ q.kind = r.kind /\ q.of = r.of /\ q.n = r.n
               /\ q.was = r.was /\ q.text = r.text /\ q.answer = a /\ q.says = s
  BY <1>3, AnsweredRequest
<1>5. /\ UNCHANGED <<page, rows, loading, drawerOpen, drawerMode, drawerProduct,
                     form, full, view, strayed>>
      /\ Shows("view")' = Shows("view") /\ InEdit' = InEdit
  <2>1. UNCHANGED <<page, rows, loading, drawerOpen, drawerMode, drawerProduct,
                    form, full, view, strayed>>
    BY DEF list, drawer, parts
  <2> QED
    BY <2>1 DEF Shows, InEdit, ShowsForm
<1>6. CASE Doomed(r) \/ Doomed(q)
  BY <1>4, <1>6, OneDoomed DEF Doomed
<1>7. CASE ~Doomed(r) /\ ~Doomed(q)
  <2>1. TextsKnown /\ ViewKnown /\ Awaits(r)
    BY <1>7 DEF AgreeInv, Agreed
  <2>2. ViewKnown'
    BY <1>5, <2>1 DEF ViewKnown
  <2>3. a = "lost" => r.kind = "save"
    BY <1>3, <1>4, <1>7 DEF Doomed
  <2>4. CASE r.kind \in Lists \cup Looking \cup (Copying \ {"save"})
    <3>1. UNCHANGED server
      BY <2>4 DEF Effect, Lists, Looking, Copying
    <3>2. UNCHANGED <<catalog, store>>
      BY <3>1 DEF server
    <3>3. /\ Settled => Settled'
          /\ Copies => Copies'
          /\ TextsKnown'
      BY <1>5, <2>1, <3>2, StillAgrees
    <3>4. a = "ok"
      BY <2>3, <2>4 DEF Lists, Looking, Copying
    <3>5. AwaitsList(q)'
      <4> SUFFICES ASSUME r.kind \in Lists PROVE AwaitsList(q)'
        BY <1>4, AwaitsNone
      <4>1. /\ loading' /\ Copies' /\ ~Shows("view")' /\ q.n = page'
        BY <1>4, <1>5, <2>1, <3>3 DEF Awaits, AwaitsList
      <4>2. q.says = ServerPage(r.n)'
        BY <1>3, <1>4, <3>4 DEF Says, Lists
      <4>3. ServerPage(r.n)' = ServerPage(page)' /\ r.n = page
        BY <1>4, <4>1, <1>5 DEF ServerPage
      <4> QED
        BY <4>1, <4>2, <4>3 DEF AwaitsList, Now
    <3>6. AwaitsCopy(q)'
      BY <1>1, <1>3, <1>4, <1>5, <2>1, <2>4, <3>3, <3>4
      DEF Awaits, AwaitsCopy, Lists, Looking, Copying
    <3>7. AwaitsChange(q)' /\ AwaitsSwitch(q)'
      BY <1>4, <2>4, AwaitsNone DEF Lists, Looking, Copying, Adding, RowSwitches
    <3> QED
      BY <1>4, <2>2, <3>3, <3>5, <3>6, <3>7, OneLeft DEF Awaits
  <2>5. CASE r.kind = "save"
    <3>1. Stored(r.of, r.of, FALSE) /\ UNCHANGED catalog
      BY <2>1, <2>5 DEF Effect, Awaits, AwaitsCopy
    <3>2. r.of \in Products
      BY <1>0, <1>1, <2>5 DEF Shaped
    <3>3. \A p \in Products : store'[p].text = p /\ store'[p].active = store[p].active
      <4>1. ASSUME NEW p \in Products
            PROVE  store'[p].text = p /\ store'[p].active = store[p].active
        <5>1. CASE p = r.of
          BY <1>0, <3>1, <3>2, <4>1, <5>1 DEF Stored
        <5>2. CASE p # r.of
          <6>1. store'[p] = store[p]
            BY <1>0, <3>1, <3>2, <4>1, <5>2 DEF Stored
          <6> QED
            BY <2>1, <4>1, <6>1 DEF TextsKnown
        <5> QED
          BY <5>1, <5>2
      <4> QED
        BY <4>1
    <3>4. \A p \in Products : Row(p)' = Row(p)
      BY <2>1, <3>3 DEF Row, TextsKnown
    <3>5. Now' = Now
      BY <1>5, <3>1, <3>4, SavedNow
    <3>6. Settled /\ Copies /\ Settled'
      BY <1>5, <2>1, <2>5, <3>5 DEF Awaits, AwaitsCopy, Copying, Settled
    <3>7. Copies'
      <4>1. InEdit' => full' = Row(full.id)'
        <5> SUFFICES ASSUME InEdit PROVE full' = Row(full.id)'
          BY <1>5
        <5>1. PICK p : p = full.id
          OBVIOUS
        <5>2. p \in Products
          BY <5>1, TypeParts DEF InEdit, PageOK, Rows
        <5>3. full = Row(p) /\ Row(p)' = Row(p)
          BY <3>4, <3>6, <5>1, <5>2 DEF Copies
        <5>4. Row(full.id)' = Row(p)'
          BY <1>5, <5>1 DEF Row
        <5> QED
          BY <1>5, <5>3, <5>4
      <4>2. Shows("view")' /\ view'.id # None => view' = Row(view.id)'
        <5> SUFFICES ASSUME Shows("view"), view.id # None PROVE view' = Row(view.id)'
          BY <1>5
        <5>1. PICK p : p = view.id
          OBVIOUS
        <5>2. p \in Products
          BY <5>1, TypeParts DEF PageOK, Rows
        <5>3. view = Row(p) /\ Row(p)' = Row(p)
          BY <3>4, <3>6, <5>1, <5>2 DEF Copies
        <5>4. Row(view.id)' = Row(p)'
          BY <1>5, <5>1 DEF Row
        <5> QED
          BY <1>5, <5>3, <5>4
      <4> QED
        BY <4>1, <4>2 DEF Copies
    <3>8. TextsKnown'
      BY <1>5, <2>1, <3>3 DEF TextsKnown
    <3>9. AwaitsCopy(q)'
      BY <1>1, <1>3, <1>4, <2>1, <2>5, <3>6, <3>7 DEF Awaits, AwaitsCopy, Copying, Looking
    <3>10. AwaitsList(q)' /\ AwaitsChange(q)' /\ AwaitsSwitch(q)'
      BY <1>4, <2>5, AwaitsNone DEF Lists, Adding, RowSwitches
    <3> QED
      BY <1>4, <2>2, <3>8, <3>9, <3>10, OneLeft DEF Awaits
  <2>6. CASE r.kind = "delete"
    <3>1. UNCHANGED store
      BY <2>6 DEF Effect
    <3>2. ~loading /\ Copies /\ ~Shows("view")
      BY <2>1, <2>6 DEF Awaits, AwaitsChange
    <3>3. Copies' /\ TextsKnown'
      BY <1>5, <2>1, <3>1, <3>2 DEF Copies, TextsKnown, Row
    <3>4. q.answer = "ok"
      BY <1>4, <2>3, <2>6
    <3>5. AwaitsChange(q)'
      BY <1>4, <1>5, <2>6, <3>2, <3>3, <3>4 DEF AwaitsChange, Adding
    <3>6. AwaitsList(q)' /\ AwaitsCopy(q)' /\ AwaitsSwitch(q)'
      BY <1>4, <2>6, AwaitsNone DEF Lists, Copying, Looking, RowSwitches
    <3> QED
      BY <1>4, <2>2, <3>3, <3>5, <3>6, OneLeft DEF Awaits
  <2>7. CASE r.kind \in Adding
    <3>1. PICK c \in Products \ Listed :
            store' = [store EXCEPT ![c] = [text |-> c, seo |-> FALSE, active |-> TRUE]]
      BY <2>7 DEF Effect, Adding, Created
    <3>2. \A p \in Products : store'[p].text = p
      BY <1>0, <2>1, <3>1 DEF TextsKnown
    <3>3. ~loading /\ ~Shows("view") /\ ~InEdit
      BY <2>1, <2>7 DEF Awaits, AwaitsChange
    <3>4. Copies' /\ TextsKnown'
      BY <1>5, <2>1, <3>2, <3>3 DEF Copies, TextsKnown
    <3>5. q.answer = "ok"
      BY <1>4, <2>3, <2>7 DEF Adding
    <3>6. AwaitsChange(q)'
      BY <1>4, <1>5, <2>7, <3>3, <3>4, <3>5 DEF AwaitsChange
    <3>7. AwaitsList(q)' /\ AwaitsCopy(q)' /\ AwaitsSwitch(q)'
      BY <1>4, <2>7, AwaitsNone DEF Adding, Lists, Copying, Looking, RowSwitches
    <3> QED
      BY <1>4, <2>2, <3>4, <3>6, <3>7, OneLeft DEF Awaits
  <2>8. CASE r.kind \in RowSwitches \cup {"toggleInEdit"}
    <3>0. q.answer = "ok" /\ q.kind = r.kind /\ q.of = r.of
      BY <1>4, <2>3, <2>8 DEF RowSwitches
    <3>1. r.of \in Products
      <4>1. CASE r.kind = "toggleInEdit"
        BY <1>1, <2>1, <4>1 DEF Awaits, AwaitsSwitch
      <4>2. CASE r.kind \in RowSwitches
        <5>1. rows = Switched(r.of) /\ r.n \in DOMAIN rows /\ rows[r.n].id = r.of
          BY <2>1, <4>2 DEF Awaits, AwaitsSwitch, Ahead
        <5>2. r.n \in DOMAIN Now /\ rows[r.n] = Turned(r.of, Now[r.n])
          BY <5>1 DEF Switched
        <5>3. Now[r.n] \in Rows /\ Now[r.n].id \in Products
          BY <5>2, NowRows
        <5>4. rows[r.n].id = Now[r.n].id
          BY <5>2, <5>3, RowFields DEF Turned
        <5> QED
          BY <5>1, <5>3, <5>4
      <4> QED
        BY <2>8, <4>1, <4>2
    <3>2. store' = [store EXCEPT ![r.of].active = ~@] /\ UNCHANGED catalog
      BY <2>8 DEF Effect, RowSwitches
    <3>3. /\ Row(r.of)' = Flip(Row(r.of)) /\ Now' = Switched(r.of)
          /\ \A x \in Products : store'[x].text = store[x].text
      BY <1>5, <3>1, <3>2, TurnedRows
    <3>4. Settled' /\ TextsKnown'
      BY <1>5, <2>1, <2>8, <3>3 DEF Awaits, AwaitsSwitch, Ahead, Settled, TextsKnown
    <3>5. q.kind \in RowSwitches => q.n \in DOMAIN rows' /\ rows'[q.n].id = q.of
      BY <1>4, <1>5, <2>1 DEF Awaits, AwaitsSwitch
    <3>6. Flip(Flip(Row(r.of))) = Row(r.of)
      <4>1. Row(r.of) \in Rows
        BY <3>1, RowTypes DEF TypeInv
      <4> QED
        BY <4>1 DEF Flip, Rows
    <3>7. q.kind = "toggleInView" =>
            /\ Shows("view")' /\ view'.id = q.of /\ view' = Flip(Row(q.of))'
      <4> SUFFICES ASSUME q.kind = "toggleInView"
                   PROVE  /\ Shows("view")' /\ view'.id = q.of /\ view' = Flip(Row(q.of))'
        OBVIOUS
      <4>1. Shows("view") /\ view.id = r.of /\ view = Row(r.of)
        BY <2>1, <3>0 DEF Awaits, AwaitsSwitch
      <4>2. Flip(Row(q.of))' = Flip(Row(q.of)')
        BY DEF Flip
      <4>3. Row(q.of)' = Flip(Row(r.of))
        BY <3>0, <3>3
      <4> QED
        BY <1>5, <3>0, <3>6, <4>1, <4>2, <4>3
    <3>8. q.kind = "toggleInEdit" =>
            /\ ~Shows("view")' /\ full'.id = q.of /\ q.of # None /\ full' = Row(q.of)'
      <4> SUFFICES ASSUME q.kind = "toggleInEdit"
                   PROVE  /\ ~Shows("view")' /\ full'.id = q.of /\ q.of # None
                          /\ full' = Row(q.of)'
        OBVIOUS
      <4>1. ~Shows("view") /\ full.id = r.of /\ r.of # None /\ full = Flip(Row(r.of))
        BY <2>1, <3>0 DEF Awaits, AwaitsSwitch
      <4> QED
        BY <1>5, <3>0, <3>3, <4>1
    <3>9. q.kind = "toggle" => ~drawerOpen'
      BY <1>5, <2>1, <3>0 DEF Awaits, AwaitsSwitch
    <3>10. AwaitsSwitch(q)'
      BY <3>0, <3>4, <3>5, <3>7, <3>8, <3>9 DEF AwaitsSwitch
    <3>11. AwaitsList(q)' /\ AwaitsCopy(q)' /\ AwaitsChange(q)'
      BY <2>8, <3>0, AwaitsNone DEF RowSwitches, Lists, Copying, Looking, Adding
    <3> QED
      BY <1>4, <2>2, <3>4, <3>10, <3>11, OneLeft DEF Awaits
  <2>9. r.kind \in Lists \cup Looking \cup Copying \cup {"delete"} \cup Adding
                     \cup RowSwitches \cup {"toggleInEdit"}
    BY <1>0, <1>7 DEF Kinds, Reads, Writes, Lists, Looking, Copying, Adding, RowSwitches, Doomed
  <2> QED
    BY <2>4, <2>5, <2>6, <2>7, <2>8, <2>9
<1> QED
  BY <1>6, <1>7

LEMMA ServeAgrees == ASSUME TypeInv, AgreeInv, NEW r \in flight, Serve(r) PROVE AgreeInv'
<1>1. flight = {r}
  BY DEF AgreeInv, OneAtATime
<1>2. r.answer = "sent" /\ UNCHANGED <<list, drawer, parts, strayed>>
  BY DEF Serve
<1>3. CASE ~strayed
  <2>1. CASE Answer(r, "refused", <<>>) /\ UNCHANGED server
    BY <1>1, <1>2, <1>3, <2>1, RefusalAgrees
  <2>2. CASE ~(Answer(r, "refused", <<>>) /\ UNCHANGED server)
    <3>1. /\ r.of # None => r.of \in Listed
          /\ Effect(r)
          /\ \/ Answer(r, "ok", Says(r)')
             \/ r.kind \in Writes /\ Answer(r, "lost", <<>>)
      BY <2>2 DEF Serve
    <3> QED
      BY <1>1, <1>2, <1>3, <3>1, EffectAgrees
  <2> QED
    BY <2>1, <2>2
<1>4. CASE strayed
  <2>1. \E x : flight' = {x}
    BY <1>1 DEF Serve, Answer
  <2> QED
    BY <1>2, <1>4, <2>1, OneDoomed
<1> QED
  BY <1>3, <1>4

\* An answer that is heard was the only one awaited.
LEMMA HeardAlone ==
  ASSUME TypeInv, AgreeInv, NEW r \in flight, NEW K, Hears(r, K)
  PROVE  /\ flight = {r} /\ Rest(r) = {} /\ r.kind \in K /\ r.answer # "sent"
         /\ UNCHANGED <<catalog, store>> /\ PageOK /\ r \in Requests /\ Shaped(r)
<1>1. flight = {r}
  BY DEF AgreeInv, OneAtATime
<1>2. Rest(r) = {}
  BY <1>1 DEF Rest
<1>3. r.kind \in K /\ r.answer # "sent" /\ UNCHANGED <<catalog, store>>
  BY DEF Hears, server
<1> QED
  BY <1>1, <1>2, <1>3, HearsTypes

\* A drawer that closes when nothing is awaited.
LEMMA ClosedAlone ==
  ASSUME CloseDrawer({})
  PROVE  /\ flight' = {} /\ UNCHANGED <<drawerMode, drawerProduct>>
         /\ drawerOpen' = FALSE \/ drawerOpen' = drawerOpen
<1>1. Unheard({}) = {}
  BY UnheardOne
<1> QED
  BY <1>1 DEF CloseDrawer, drawer
\* Nothing shows in a drawer that has closed that did not show before.
LEMMA ShownStill ==
  ASSUME drawerOpen' = FALSE \/ drawerOpen' = drawerOpen,
         UNCHANGED <<drawerMode, drawerProduct>>, full'.id = full.id
  PROVE  (Shows("view")' => Shows("view")) /\ (InEdit' => InEdit)
  BY DEF Shows, InEdit, ShowsForm

\* A list, or a copy of a product, that arrives is the server's.
LEMMA ReadsAgree ==
  ASSUME TypeInv, KeepInv, AgreeInv, ~strayed, NEW r \in flight, ~Doomed(r),
         \/ ListArrives(r) \/ EditArrives(r) \/ ViewArrives(r) \/ SlugArrives(r)
         \/ PreviewArrives(r)
  PROVE  strayed' \/ AgreeInv'
<1>0. TextsKnown /\ ViewKnown /\ Awaits(r) /\ flight = {r}
  BY DEF AgreeInv, Agreed, OneAtATime
<1>1. CASE ListArrives(r)
  <2>1. /\ Rest(r) = {} /\ r.kind \in Lists /\ UNCHANGED <<catalog, store>>
    BY <1>1, HeardAlone DEF ListArrives, Lists
  <2>2. Copies /\ ~Shows("view") /\ r.n = page /\ (r.answer = "ok" => r.says = Now)
    BY <1>0, <2>1 DEF Awaits, AwaitsList
  <2>3. CASE r.answer # "ok"
    <3>1. r.answer \in {"refused", "lost"}
      BY <1>1, <2>3, HeardAlone DEF ListArrives, Requests
    <3> QED
      BY <1>1, <2>1, <3>1 DEF ListArrives, Failure, Unrepaired, Lists
  <2>4. CASE r.answer = "ok"
    <3>1. /\ loading' = FALSE /\ rows' = Now /\ UNCHANGED <<page, form, full, view>>
      BY <1>1, <2>2, <2>4 DEF ListArrives, parts
    <3>2. /\ flight' = {} /\ UNCHANGED <<drawerMode, drawerProduct>>
          /\ drawerOpen' = FALSE \/ drawerOpen' = drawerOpen
      BY <1>1, <2>1, ClosedAlone DEF ListArrives, drawer
    <3>3. Now' = Now
      BY <2>1, <3>1, SameNow
    <3>4. ~Shows("view")' /\ (InEdit' => InEdit)
      BY <2>2, <3>1, <3>2, ShownStill
    <3>5. Settled' /\ TextsKnown' /\ ViewKnown'
      BY <1>0, <2>1, <3>1, <3>3, <3>4 DEF Settled, TextsKnown, ViewKnown
    <3>6. Copies'
      BY <2>1, <2>2, <3>1, <3>4 DEF Copies, Row
    <3> QED
      BY <3>2, <3>5, <3>6, NoneLeft
  <2> QED
    BY <2>3, <2>4
<1>2. ASSUME r.kind \in Copying \cup Looking, UNCHANGED <<catalog, store, list>>
      PROVE  Settled' /\ Settled /\ Copies
  <2>1. Settled /\ Copies
    BY <1>0, <1>2 DEF Awaits, AwaitsCopy
  <2>2. UNCHANGED <<page, rows, loading>>
    BY <1>2 DEF list
  <2>3. Now' = Now
    BY <1>2, <2>2, SameNow
  <2> QED
    BY <2>1, <2>2, <2>3 DEF Settled
<1>3. CASE EditArrives(r)
  <2>1. /\ Rest(r) = {} /\ r.kind = "edit" /\ UNCHANGED <<catalog, store>>
        /\ r \in Requests /\ Shaped(r)
    BY <1>3, HeardAlone DEF EditArrives
  <2>2. /\ flight' = {} /\ UNCHANGED <<list, drawerMode, drawerProduct, view>>
    BY <1>3, <2>1 DEF EditArrives
  <2>3. Settled' /\ ~drawerOpen /\ drawerMode = "edit"
    BY <1>2, <2>1, <2>2 DEF Copying, KeepInv, DrawerInv
  <2>4. ~Shows("view")'
    BY <2>2, <2>3 DEF Shows
  <2>5. CASE r.answer # "ok"
    <3>1. UNCHANGED <<form, drawerOpen>>
      BY <1>3, <2>5 DEF EditArrives
    <3>2. ~InEdit'
      BY <2>3, <3>1 DEF InEdit, ShowsForm
    <3>3. Copies' /\ ViewKnown' /\ TextsKnown'
      BY <1>0, <2>1, <2>4, <3>1, <3>2 DEF Copies, ViewKnown, TextsKnown
    <3> QED
      BY <2>2, <2>3, <3>3, NoneLeft
  <2>6. CASE r.answer = "ok"
    <3>1. r.says = <<Row(r.of)>> /\ r.of \in Products
      <4>1. r.says = <<Row(r.of)>>
        BY <1>0, <2>1, <2>6 DEF Awaits, AwaitsCopy, Copying
      <4> QED
        BY <2>1, <4>1 DEF Shaped, Requests
    <3>2. PICK p \in Products : p = r.of
      BY <3>1
    <3>3. Row(p) \in Rows /\ Row(p).id = p /\ Row(p)' = Row(p) /\ Row(p).text = p
      BY <1>0, <2>1, RowTypes DEF TypeInv, Row, TextsKnown
    <3>4. full' = Row(p) /\ form' = FormOf(Row(p))
      BY <1>3, <2>6, <3>1, <3>2 DEF EditArrives
    <3>5. form'.text = p
      BY <3>3, <3>4, Blanks
    <3>6. TextsKnown'
      BY <1>0, <2>1, <3>5, AdminProductsAssumption DEF TextsKnown
    <3>7. full' = Row(full.id)'
      BY <2>1, <3>3, <3>4 DEF Row
    <3>8. Copies' /\ ViewKnown'
      BY <2>4, <3>7 DEF Copies, ViewKnown
    <3> QED
      BY <2>2, <2>3, <3>6, <3>8, NoneLeft
  <2> QED
    BY <2>5, <2>6
<1>4. CASE ViewArrives(r)
  <2>1. /\ Rest(r) = {} /\ r.kind = "view" /\ UNCHANGED <<catalog, store>>
        /\ r \in Requests /\ Shaped(r)
    BY <1>4, HeardAlone DEF ViewArrives
  <2>2. /\ flight' = {} /\ UNCHANGED <<list, drawer, form, full>>
        /\ view' = IF r.answer = "ok" THEN r.says[1] ELSE view
    BY <1>4, <2>1 DEF ViewArrives
  <2>3. Settled' /\ Copies /\ r.of = drawerProduct.id
    BY <1>0, <1>2, <2>1, <2>2 DEF Awaits, AwaitsCopy, Copying
  <2>4. r.answer = "ok" => view' = Row(r.of) /\ r.of \in Products
    BY <1>0, <2>1, <2>2 DEF Awaits, AwaitsCopy, Copying, Shaped, Requests
  <2>5. UNCHANGED <<rows, drawerOpen, drawerMode, drawerProduct>>
    BY <2>2 DEF list, drawer
  <2>6. Shows("view")' = Shows("view") /\ InEdit' = InEdit
    BY <2>2, <2>5 DEF Shows, InEdit, ShowsForm
  <2>7. r.answer = "ok" => view'.id = r.of
    BY <2>4, RowTypes DEF TypeInv
  <2>8. TextsKnown' /\ ViewKnown'
    BY <1>0, <2>1, <2>2, <2>3, <2>5, <2>6, <2>7 DEF TextsKnown, ViewKnown
  <2>9. Copies'
    BY <2>1, <2>2, <2>3, <2>4, <2>6, <2>7 DEF Copies, Row
  <2> QED
    BY <2>2, <2>3, <2>8, <2>9, NoneLeft
<1>5. CASE SlugArrives(r) \/ PreviewArrives(r)
  <2>1. CASE r.kind = "saveSeo"
    BY <2>1 DEF Doomed
  <2>2. CASE r.kind # "saveSeo"
    <3>1. /\ Rest(r) = {} /\ r.kind \in Looking /\ UNCHANGED <<catalog, store>>
      BY <1>5, <2>2, HeardAlone DEF SlugArrives, PreviewArrives, Looking
    <3>2. /\ flight' = {} /\ UNCHANGED <<list, drawer, full, view>>
          /\ form' = [form EXCEPT !.slugged = TRUE] \/ form' = form
      BY <1>5, <3>1 DEF SlugArrives, PreviewArrives
    <3>3. form'.text = form.text
      BY <3>2, TypeParts DEF PageOK, Forms
    <3>4. Settled /\ Copies
      BY <1>2, <3>1, <3>2
    <3> QED
      BY <1>0, <3>1, <3>2, <3>3, <3>4, StillAgrees, NoneLeft
  <2> QED
    BY <2>1, <2>2
<1> QED
  BY <1>1, <1>3, <1>4, <1>5

\* A change that arrives is followed by what shows it.
LEMMA ChangesAgree ==
  ASSUME TypeInv, KeepInv, AgreeInv, ~strayed, NEW r \in flight, ~Doomed(r),
         SaveArrives(r) \/ RereadArrives(r) \/ ChangeArrives(r)
  PROVE  strayed' \/ AgreeInv'
<1>0. TextsKnown /\ ViewKnown /\ Awaits(r) /\ flight = {r}
  BY DEF AgreeInv, Agreed, OneAtATime
\* The product replaced in the list, and in the form, is the one they have.
<1>1. ASSUME r.kind \in {"save", "reread"}, r.answer = "ok", UNCHANGED <<catalog, store>>,
             r \in Requests, Shaped(r), UpdateProductInList(r.says[1])
      PROVE  /\ Settled' /\ UNCHANGED <<page, rows, loading, form, view>>
             /\ full'.id = full.id /\ (InEdit => full' = full)
  <2>1. Settled /\ Copies /\ r.says = <<Row(r.of)>>
    BY <1>0, <1>1 DEF Awaits, AwaitsCopy, Copying
  <2>2. PICK p \in Products : p = r.of
    BY <1>1 DEF Shaped, Requests
  <2>3. Row(p).id = p /\ r.says[1] = Row(p)
    BY <2>1, <2>2, RowTypes DEF TypeInv
  <2>4. rows' = InList(Row(p)) /\ UNCHANGED <<page, loading, form, view>>
        /\ full' = IF full.id = p THEN Row(p) ELSE full
    BY <1>1, <2>3 DEF UpdateProductInList
  <2>5. rows' = rows
    BY <2>1, <2>4, RowsTurn DEF Settled
  <2>6. Now' = Now
    BY <1>1, <2>4, SameNow
  <2>7. Settled'
    BY <2>1, <2>4, <2>5, <2>6 DEF Settled
  <2>8. full'.id = full.id /\ (InEdit => full' = full)
    BY <2>1, <2>3, <2>4 DEF Copies
  <2> QED
    BY <2>4, <2>5, <2>7, <2>8
<1>2. ASSUME UNCHANGED <<catalog, store, rows, form, view>>, flight' = {}, Settled', Copies,
             full'.id = full.id, InEdit => full' = full,
             drawerOpen' = FALSE \/ drawerOpen' = drawerOpen,
             UNCHANGED <<drawerMode, drawerProduct>>
      PROVE  AgreeInv'
  <2>1. (Shows("view")' => Shows("view")) /\ (InEdit' => InEdit)
    BY <1>2, ShownStill
  <2>2. Copies' /\ ViewKnown' /\ TextsKnown'
    BY <1>0, <1>2, <2>1 DEF Copies, ViewKnown, TextsKnown, Row
  <2> QED
    BY <1>2, <2>2, NoneLeft
<1>3. CASE SaveArrives(r)
  <2>1. /\ Rest(r) = {} /\ r.kind = "save" /\ UNCHANGED <<catalog, store>>
        /\ r \in Requests /\ Shaped(r) /\ PageOK
    BY <1>3, HeardAlone DEF SaveArrives
  <2>2. Settled /\ Copies
    BY <1>0, <2>1 DEF Awaits, AwaitsCopy, Copying
  <2>3. CASE r.answer = "ok"
    <3>1. UpdateProductInList(r.says[1]) /\ CloseDrawer({})
      BY <1>3, <2>1, <2>3 DEF SaveArrives
    <3>2. /\ flight' = {} /\ UNCHANGED <<drawerMode, drawerProduct>>
          /\ drawerOpen' = FALSE \/ drawerOpen' = drawerOpen
      BY <3>1, ClosedAlone
    <3> QED
      BY <1>1, <1>2, <2>1, <2>2, <2>3, <3>1, <3>2
  <2>4. CASE r.answer # "ok"
    <3>1. /\ flight' = Reread(r) /\ UNCHANGED <<list, drawer, form, full, view>>
      BY <1>3, <2>1, <2>4 DEF SaveArrives, parts
    <3>2. Settled' /\ Copies' /\ ViewKnown' /\ TextsKnown'
      BY <1>0, <2>1, <2>2, <3>1, StillAgrees
    <3>3. CASE drawerProduct.id = None
      <4>1. flight' = {}
        BY <3>1, <3>3 DEF Reread
      <4> QED
        BY <3>2, <4>1, NoneLeft
    <3>4. CASE drawerProduct.id # None
      <4>1. PICK q : q = Request("reread", drawerProduct.id)
        OBVIOUS
      <4>2. "reread" \in Kinds /\ drawerProduct.id \in Ids
        BY <2>1 DEF PageOK, Subjects, Kinds, Reads
      <4>3. q.kind = "reread" /\ q.answer = "sent"
        BY <4>1, <4>2, RequestTypes
      <4>4. flight' = {q}
        BY <3>1, <3>4, <4>1 DEF Reread
      <4>5. AwaitsCopy(q)'
        BY <3>2, <4>3 DEF AwaitsCopy, Copying, Looking
      <4>6. AwaitsList(q)' /\ AwaitsChange(q)' /\ AwaitsSwitch(q)'
        BY <4>3, AwaitsNone DEF Lists, Adding, RowSwitches
      <4> QED
        BY <3>2, <4>4, <4>5, <4>6, OneLeft DEF Awaits
    <3> QED
      BY <3>3, <3>4
  <2> QED
    BY <2>3, <2>4
<1>4. CASE RereadArrives(r)
  <2>1. /\ Rest(r) = {} /\ r.kind = "reread" /\ UNCHANGED <<catalog, store>>
        /\ r \in Requests /\ Shaped(r)
    BY <1>4, HeardAlone DEF RereadArrives
  <2>2. Settled /\ Copies
    BY <1>0, <2>1 DEF Awaits, AwaitsCopy, Copying
  <2>3. flight' = {} /\ UNCHANGED drawer
    BY <1>4, <2>1 DEF RereadArrives
  <2>4. CASE r.answer = "ok"
    <3>1. UpdateProductInList(r.says[1])
      BY <1>4, <2>4 DEF RereadArrives
    <3>2. UNCHANGED <<drawerOpen, drawerMode, drawerProduct>>
      BY <2>3 DEF drawer
    <3> QED
      BY <1>1, <1>2, <2>1, <2>2, <2>3, <2>4, <3>1, <3>2
  <2>5. CASE r.answer # "ok"
    <3>1. UNCHANGED <<list, form, full, view>>
      BY <1>4, <2>5 DEF RereadArrives, parts
    <3> QED
      BY <1>0, <2>1, <2>2, <2>3, <3>1, StillAgrees, NoneLeft
  <2> QED
    BY <2>4, <2>5
<1>5. CASE ChangeArrives(r)
  <2>1. /\ Rest(r) = {} /\ r.kind \in Adding \cup {"delete"} /\ UNCHANGED <<catalog, store>>
        /\ PageOK
    BY <1>5, HeardAlone DEF ChangeArrives, Adding
  <2>2. /\ ~loading /\ Copies /\ ~Shows("view") /\ (r.answer # "ok" => Settled)
    BY <1>0, <2>1 DEF Awaits, AwaitsChange
  <2>3. UNCHANGED <<page, rows, drawer, form, full, view>>
    BY <1>5 DEF ChangeArrives
  <2>4. UNCHANGED <<drawerOpen, drawerMode, drawerProduct>>
    BY <2>3 DEF drawer
  <2>5. ~Shows("view")' /\ InEdit' = InEdit
    BY <2>2, <2>3, <2>4 DEF Shows, InEdit, ShowsForm
  <2>6. Copies' /\ ViewKnown' /\ TextsKnown'
    BY <1>0, <2>1, <2>2, <2>3, <2>5 DEF Copies, ViewKnown, TextsKnown, Row
  <2>7. CASE r.answer = "ok"
    <3>1. PICK q : q = ListRequest("listThenClose", page)
      OBVIOUS
    <3>2. q.kind = "listThenClose" /\ q.n = page /\ q.answer = "sent"
      <4>1. "listThenClose" \in Kinds /\ None \in Ids /\ page \in 0..Count
        BY <2>1, SomeProducts DEF Kinds, Reads, Ids, PageOK
      <4>2. /\ Request("listThenClose", None) \in Requests
            /\ Request("listThenClose", None).kind = "listThenClose"
            /\ Request("listThenClose", None).answer = "sent"
        BY <4>1, RequestTypes
      <4> QED
        BY <3>1, <4>1, <4>2, RequestWith DEF ListRequest
    <3>3. flight' = {q} /\ loading' = TRUE
      BY <1>5, <2>1, <2>7, <3>1 DEF ChangeArrives
    <3>4. AwaitsList(q)'
      BY <2>3, <2>5, <2>6, <3>2, <3>3 DEF AwaitsList
    <3>5. AwaitsCopy(q)' /\ AwaitsChange(q)' /\ AwaitsSwitch(q)'
      BY <3>2, AwaitsNone DEF Copying, Looking, Adding, RowSwitches
    <3> QED
      BY <2>6, <3>3, <3>4, <3>5, OneLeft DEF Awaits
  <2>8. CASE r.answer # "ok"
    <3>1. flight' = {} /\ loading' = loading
      BY <1>5, <2>1, <2>8 DEF ChangeArrives
    <3>2. Now' = Now
      BY <2>1, <2>3, SameNow
    <3>3. Settled'
      BY <2>2, <2>3, <2>8, <3>1, <3>2 DEF Settled
    <3> QED
      BY <2>6, <3>1, <3>3, NoneLeft
  <2> QED
    BY <2>7, <2>8
<1> QED
  BY <1>3, <1>4, <1>5

\* A switch that arrives agrees with the server, or is turned back.
LEMMA SwitchesArrive ==
  ASSUME TypeInv, KeepInv, AgreeInv, ~strayed, NEW r \in flight, ~Doomed(r),
         ToggleArrives(r) \/ ToggleInEditArrives(r)
  PROVE  strayed' \/ AgreeInv'
<1>0. TextsKnown /\ ViewKnown /\ Awaits(r) /\ flight = {r}
  BY DEF AgreeInv, Agreed, OneAtATime
<1>1. CASE ToggleArrives(r)
  <2>1. /\ Rest(r) = {} /\ r.kind \in RowSwitches /\ UNCHANGED <<catalog, store>>
        /\ r \in Requests /\ r.answer # "sent"
    BY <1>1, HeardAlone DEF ToggleArrives, RowSwitches
  <2>2. /\ UNCHANGED <<page, loading, drawer, form, full>> /\ flight' = {}
        /\ rows' = IF r.answer = "ok" THEN rows ELSE Reverted(r)
        /\ view' = IF r.kind = "toggleInView" /\ view.id # None THEN Flip(view) ELSE view
        /\ Failure(r)
    BY <1>1, <2>1 DEF ToggleArrives
  <2>3. Now' = Now
    BY <2>1, <2>2, SameNow
  <2>4. rows' = Now /\ ~loading
    <3>1. CASE r.answer = "ok"
      BY <1>0, <2>1, <2>2, <3>1 DEF Awaits, AwaitsSwitch, Settled
    <3>2. CASE r.answer # "ok"
      <4>1. /\ rows = Switched(r.of) /\ r.n \in DOMAIN rows /\ rows[r.n].id = r.of
            /\ r.was = ~rows[r.n].active /\ ~loading
        BY <1>0, <2>1, <3>2 DEF Awaits, AwaitsSwitch, Ahead
      <4> QED
        BY <2>2, <3>2, <4>1, TurnedBack
    <3> QED
      BY <3>1, <3>2
  <2>5. Settled' /\ TextsKnown'
    BY <1>0, <2>1, <2>2, <2>3, <2>4 DEF Settled, TextsKnown
  <2>6. UNCHANGED <<drawerOpen, drawerMode, drawerProduct>>
    BY <2>2 DEF drawer
  <2>7. CASE r.kind = "toggle"
    <3>1. ~drawerOpen'
      BY <1>0, <2>6, <2>7 DEF Awaits, AwaitsSwitch
    <3>2. Copies' /\ ViewKnown'
      BY <3>1 DEF Copies, ViewKnown, InEdit, ShowsForm, Shows
    <3> QED
      BY <2>2, <2>5, <3>2, NoneLeft
  <2>8. CASE r.kind = "toggleInView"
    <3>1. CASE r.answer # "ok"
      <4>1. r.answer \in {"refused", "lost"}
        BY <2>1, <3>1 DEF Requests
      <4> QED
        BY <2>2, <2>8, <4>1 DEF Failure, Unrepaired
    <3>2. CASE r.answer = "ok"
      <4>1. Shows("view") /\ view.id = r.of /\ view = Flip(Row(r.of)) /\ rows' = rows
        BY <1>0, <2>2, <2>8, <3>2 DEF Awaits, AwaitsSwitch
      <4>2. r.of \in Products
        <5>1. rows = Now /\ r.n \in DOMAIN rows /\ rows[r.n].id = r.of
          BY <1>0, <2>8, <3>2 DEF Awaits, AwaitsSwitch, Settled, RowSwitches
        <5> QED
          BY <5>1, NowRows
      <4>3. view.id # None
        BY <4>1, <4>2, AdminProductsAssumption
      <4>4. PICK p \in Products : p = r.of
        BY <4>2
      <4>5. Row(p) \in Rows /\ Row(p).id = p
        BY RowTypes DEF TypeInv
      <4>6. Flip(Flip(Row(p))) = Row(p)
        BY <4>5 DEF Flip, Rows
      <4>7. view' = Row(p) /\ view'.id = p
        BY <2>2, <2>8, <4>1, <4>3, <4>4, <4>5, <4>6
      <4>8. view' = Row(view.id)'
        BY <2>1, <4>7 DEF Row
      <4>9. ~InEdit' /\ Shows("view")' = Shows("view")
        BY <2>6, <4>1 DEF InEdit, Shows
      <4>10. Copies' /\ ViewKnown'
        BY <1>0, <2>6, <4>1, <4>4, <4>7, <4>8, <4>9 DEF Copies, ViewKnown
      <4> QED
        BY <2>2, <2>5, <4>10, NoneLeft
    <3> QED
      BY <3>1, <3>2
  <2> QED
    BY <2>1, <2>7, <2>8 DEF RowSwitches
<1>2. CASE ToggleInEditArrives(r)
  <2>1. /\ Rest(r) = {} /\ r.kind = "toggleInEdit" /\ UNCHANGED <<catalog, store>>
        /\ r \in Requests /\ r.answer # "sent"
    BY <1>2, HeardAlone DEF ToggleInEditArrives
  <2>2. CASE r.answer # "ok"
    <3>1. r.answer \in {"refused", "lost"} /\ Failure(r)
      BY <1>2, <2>1, <2>2 DEF ToggleInEditArrives, Requests
    <3> QED
      BY <2>1, <3>1 DEF Failure, Unrepaired
  <2>3. CASE r.answer = "ok"
    <3>1. /\ Settled /\ ~Shows("view") /\ full.id = r.of /\ r.of # None /\ full = Row(r.of)
      BY <1>0, <2>1, <2>3 DEF Awaits, AwaitsSwitch
    <3>2. PICK p \in Products : p = r.of
      BY <2>1, <3>1 DEF Requests
    <3>3. UpdateProductInList(full) /\ UNCHANGED drawer /\ flight' = {}
      BY <1>2, <2>1, <3>1 DEF ToggleInEditArrives
    <3>4. rows' = InList(Row(p)) /\ full' = full /\ UNCHANGED <<page, loading, form, view>>
      BY <3>1, <3>2, <3>3 DEF UpdateProductInList
    <3>5. rows' = rows
      BY <3>1, <3>4, RowsTurn DEF Settled
    <3>6. UNCHANGED list
      BY <3>4, <3>5 DEF list
    <3>7. Copies
      BY <3>1 DEF Copies
    <3> QED
      BY <1>0, <2>1, <3>1, <3>3, <3>4, <3>6, <3>7, StillAgrees, NoneLeft
  <2> QED
    BY <2>2, <2>3
<1> QED
  BY <1>1, <1>2

\* What is heard leaves no request, or the one it is followed by.
LEMMA OneStillLeft ==
  ASSUME TypeInv, AgreeInv, NEW r \in flight, Arrive(r)
  PROVE  OneAtATime' /\ (strayed => strayed') /\ (Doomed(r) => strayed')
<1>1. \E K : Hears(r, K)
  BY DEF Arrive, ListArrives, EditArrives, ViewArrives, SlugArrives, SaveArrives,
     RereadArrives, ChangeArrives, PreviewArrives, ToggleArrives, ToggleInEditArrives
<1>2. Rest(r) = {}
  BY <1>1, HeardAlone
<1>3. OneAtATime'
  <2>1. CASE ListArrives(r)
    BY <1>2, <2>1, ClosedAlone DEF ListArrives, OneAtATime
  <2>2. CASE SaveArrives(r)
    BY <1>2, <2>2, ClosedAlone DEF SaveArrives, Reread, OneAtATime
  <2>3. CASE ChangeArrives(r)
    BY <1>2, <2>3 DEF ChangeArrives, OneAtATime
  <2>4. CASE ~(ListArrives(r) \/ SaveArrives(r) \/ ChangeArrives(r))
    <3>1. flight' = Rest(r)
      BY <2>4 DEF Arrive, EditArrives, ViewArrives, SlugArrives, RereadArrives,
         PreviewArrives, ToggleArrives, ToggleInEditArrives
    <3> QED
      BY <1>2, <3>1 DEF OneAtATime
  <2> QED
    BY <2>1, <2>2, <2>3, <2>4
<1>4. (strayed => strayed') /\ (Doomed(r) => strayed')
  <2>1. CASE SlugArrives(r)
    <3>1. r.kind = "slug" /\ strayed' = strayed
      BY <2>1 DEF SlugArrives, Hears
    <3> QED
      BY <3>1 DEF Doomed, Writes, Unrepaired
  <2>2. CASE ~SlugArrives(r)
    <3>1. Failure(r)
      BY <2>2 DEF Arrive, ListArrives, EditArrives, ViewArrives, SaveArrives, RereadArrives,
         ChangeArrives, PreviewArrives, ToggleArrives, ToggleInEditArrives
    <3> QED
      BY <3>1 DEF Failure, Doomed
  <2> QED
    BY <2>1, <2>2
<1> QED
  BY <1>3, <1>4

LEMMA ArriveAgrees ==
  ASSUME TypeInv, KeepInv, AgreeInv, NEW r \in flight, Arrive(r)
  PROVE  AgreeInv'
<1>1. OneAtATime' /\ (strayed => strayed') /\ (Doomed(r) => strayed')
  BY OneStillLeft
<1>2. CASE strayed'
  BY <1>1, <1>2 DEF AgreeInv
<1>3. CASE ~strayed'
  <2>1. ~strayed /\ ~Doomed(r)
    BY <1>1, <1>3
  <2> QED
    BY <1>3, <2>1, ReadsAgree, ChangesAgree, SwitchesArrive DEF Arrive
<1> QED
  BY <1>2, <1>3

\* Once the page has strayed, only the number of requests matters.
LEMMA StrayedActs ==
  ASSUME AgreeInv, patience = "waits", strayed, Operator, ~Close
  PROVE  AgreeInv'
<1> DEFINE Clicks == Acts /\ (flight' = flight \/ \E q : Ask(q))
<1>a. ASSUME NEW n, HandlePageChange(n) PROVE Clicks
  BY <1>a DEF HandlePageChange
<1>b. ASSUME NEW i, NEW m, OpenDrawer(i, m) PROVE Clicks
  BY <1>b DEF OpenDrawer
<1>c. ASSUME NEW i, OpenEdit(i) \/ ToggleRow(i) PROVE Clicks
  BY <1>c DEF OpenEdit, Edits, ToggleRow, ToggleActive
<1>d. ASSUME OpenAdd \/ OpenCsv \/ Type \/ ChooseFile PROVE Clicks
  BY <1>d DEF OpenAdd, OpenCsv, Type, ChooseFile
<1>e. ASSUME HandleNameBlur \/ HandleSubmit \/ HandleDeleteProduct PROVE Clicks
  BY <1>e DEF HandleNameBlur, HandleSubmit, HandleDeleteProduct
<1>f. ASSUME ToggleActiveInEdit \/ ContentAdded \/ SaveSeo \/ ToggleInView PROVE Clicks
  BY <1>f DEF ToggleActiveInEdit, ContentAdded, SaveSeo, ToggleInView, ToggleActive
<1>g. ASSUME NEW k, CsvRequest(k) PROVE Clicks
  BY <1>g DEF CsvRequest
<1>1. Clicks
  <2> HIDE DEF Clicks
  <2> QED
    BY <1>a, <1>b, <1>c, <1>d, <1>e, <1>f, <1>g DEF Operator
<1>2. flight = {} /\ strayed' = strayed
  BY <1>1 DEF Acts
<1>3. flight' = flight \/ \E q : Ask(q)
  BY <1>1
<1>4. OneAtATime'
  BY <1>2, <1>3 DEF Ask, OneAtATime
<1> QED
  BY <1>2, <1>4 DEF AgreeInv

LEMMA AgreeStep ==
  TypeInv /\ KeepUnlessHurried /\ AgreeIfWaits /\ [Next]_vars => AgreeIfWaits'
<1> SUFFICES ASSUME TypeInv, KeepInv, AgreeInv, patience = "waits", [Next]_vars
             PROVE  AgreeInv'
  BY SamePatience DEF KeepUnlessHurried, AgreeIfWaits
<1>1. CASE UNCHANGED vars
  <2>1. UNCHANGED <<catalog, store, page, rows, loading, drawerOpen, drawerMode,
                    drawerProduct, resetting, form, full, view, csv, flight, strayed>>
    BY <1>1 DEF vars, server, list, drawer, parts
  <2>2. UNCHANGED <<list, drawer>>
    BY <2>1 DEF list, drawer
  <2>3. CASE flight = {}
    BY <2>1, <2>2, <2>3, StillAgrees, NoneLeft DEF AgreeInv, Agreed, OneAtATime
  <2>4. CASE flight # {}
    <3>1. PICK r \in flight : flight = {r}
      BY <2>4 DEF AgreeInv, OneAtATime
    <3>2. CASE strayed \/ Doomed(r)
      BY <2>1, <3>1, <3>2, OneDoomed
    <3>3. CASE ~strayed /\ ~Doomed(r)
      <4>1. TextsKnown /\ ViewKnown /\ Awaits(r)
        BY <3>1, <3>3 DEF AgreeInv, Agreed
      <4>2. /\ Settled => Settled'
            /\ Copies => Copies'
            /\ TextsKnown' /\ ViewKnown'
            /\ Shows("view")' = Shows("view") /\ InEdit' = InEdit
        BY <2>1, <2>2, <4>1, StillAgrees
      <4>3. Now' = Now /\ \A p : Switched(p)' = Switched(p) /\ Row(p)' = Row(p)
        BY <2>1, SameNow
      <4>4. AwaitsList(r)' /\ AwaitsCopy(r)' /\ AwaitsChange(r)'
        BY <2>1, <4>1, <4>2, <4>3 DEF Awaits, AwaitsList, AwaitsCopy, AwaitsChange
      <4>5. \A p : Ahead(p) => Ahead(p)'
        BY <2>1, <4>3 DEF Ahead
      <4>6. Flip(Row(r.of))' = Flip(Row(r.of))
        BY <2>1 DEF Flip, Row
      <4>7. AwaitsSwitch(r)'
        BY <2>1, <4>1, <4>2, <4>3, <4>5, <4>6 DEF Awaits, AwaitsSwitch
      <4> QED
        BY <2>1, <3>1, <4>2, <4>4, <4>7, OneLeft DEF Awaits
    <3> QED
      BY <3>2, <3>3
  <2> QED
    BY <2>3, <2>4
<1>2. CASE Operator
  <2>1. CASE Close
    BY <2>1, CloseAgrees
  <2>2. CASE strayed /\ ~Close
    BY <1>2, <2>2, StrayedActs
  <2>3. CASE ~strayed /\ ~Close
    BY <1>2, <2>3, AsksAgree, OpensAgree, SwitchesAgree DEF Operator
  <2> QED
    BY <2>1, <2>2, <2>3
<1> QED
  BY <1>1, <1>2, ResetAgrees, ServeAgrees, ArriveAgrees DEF Next, Network

\* When the operator waits for every answer, has heard them all and none was a
\* failure the page has no way back from, the list and the open copies of a product
\* are what the server has (updateProductInList, loadProducts, revertProductStatus).
THEOREM WaitingAgrees == Spec => []PageAgreesWithServer
<1>1. Init => AgreeIfWaits
  BY AgreeInit DEF AgreeIfWaits
<1>2. AgreeIfWaits => PageAgreesWithServer
  <2> SUFFICES ASSUME AgreeInv, patience = "waits", flight = {}, ~strayed
               PROVE  /\ ~loading
                      /\ rows = [i \in DOMAIN ServerPage(page) |-> ServerPage(page)[i]]
                      /\ InEdit => full = Row(full.id)
                      /\ Shows("view") /\ view.id # None => view = Row(view.id)
    BY DEF AgreeIfWaits, PageAgreesWithServer
  <2>1. Settled /\ Copies
    BY DEF AgreeInv, Agreed
  <2>2. ServerPage(page) = [i \in DOMAIN ServerPage(page) |-> ServerPage(page)[i]]
    BY DEF ServerPage
  <2> QED
    BY <2>1, <2>2 DEF Settled, Copies, Now
<1>3. /\ Init => TypeInv
      /\ TypeInv /\ [Next]_vars => TypeInv'
  BY TypeInit, TypeStep
<1> QED
  BY <1>1, <1>2, <1>3, AgreeStep, KeepAlways, PTL DEF Spec

=============================================================================
