---------------------------- MODULE CustomersPage ---------------------------
(***************************************************************************)
(* The panel's customers: the list with its search and filter, and the     *)
(* drawer of one customer with its three changes to the account.           *)
(*                                                                         *)
(* Requests overlap and are answered in any order.  Of the lists only the  *)
(* newest is heard.  A change that is answered after its drawer has left   *)
(* still reloads the list, and a deletion still closes the drawer.         *)
(***************************************************************************)
EXTENDS Naturals, Sequences, FiniteSets, SequencesExt

CONSTANTS MaxCustomer,  \* customers are numbered in the order the server lists them
          Buyers,       \* those of them with an order, listed without an account too
          None, PageSize, MaxMoves, MaxFlight

VARIABLES
  accounts,  \* the server's accounts
  customers, currentPage, search, registeredOnly, searchTimer,
  drawerOpen, drawerCustomer, resetting,
  busy, issuedPassword,  \* CustomerView, for as long as the drawer is open
  flight, moves,
  strayed,   \* history: an answer was lost, or the newest list failed
  overlapped \* history: a password was asked for while another one was awaited

list == <<customers, currentPage, search, registeredOnly, searchTimer>>
drawer == <<drawerOpen, drawerCustomer, resetting, busy, issuedPassword>>
history == <<strayed, overlapped>>
vars == <<accounts, list, drawer, flight, moves, history>>
-----------------------------------------------------------------------------
Emails == 1..MaxCustomer
ConstantsTyped ==
  /\ MaxCustomer \in Nat \ {0} /\ Buyers \subseteq Emails /\ None \notin Emails
  /\ PageSize \in Nat \ {0} /\ MaxMoves \in Nat

\* What the server lists of a customer.  A password is named for the click that
\* asks for it: the server makes a new one for each.
Rows == [email: Emails, registered: BOOLEAN, active: BOOLEAN]
NoRow == [email |-> None, registered |-> FALSE, active |-> FALSE]
Row(e) == [email |-> e, registered |-> accounts[e].registered, active |-> accounts[e].active]

\* A search finds one customer, the empty search, None, finds them all.
Found(q) ==
  {e \in Emails : /\ q.search \in {None, e}
                  /\ accounts[e].registered \/ (e \in Buyers /\ ~q.registered)}
Place(e, found) == Cardinality({o \in found : o <= e})
ListOf(q) ==
  LET found == Found(q)
      first == (q.page - 1) * PageSize IN
  [i \in 1..Cardinality({j \in 1..PageSize : first + j <= Cardinality(found)})
     |-> Row(CHOOSE e \in found : Place(e, found) = first + i)]

Query == [search |-> search, registered |-> registeredOnly, page |-> currentPage]
Queries == [search: Emails \cup {None}, registered: BOOLEAN, page: 1..MaxCustomer]

Changes == {"active", "password", "delete"}
Requests == [kind: {"list", "carts"} \cup Changes, of: Emails \cup {None}, query: Queries,
             heard: BOOLEAN,  \* it is the newest list, or its drawer is still there
             answer: {"sent", "ok", "failed"}, rows: Seq(Rows),
             password: 0..MaxMoves]  \* the one that is set, if it is asked for
Request(k, e) == [kind |-> k, of |-> e, query |-> Query, heard |-> TRUE,
                  answer |-> "sent", rows |-> <<>>, password |-> 0]

TypeOK ==
  /\ accounts \in [Emails -> [registered: BOOLEAN, active: BOOLEAN, password: 0..MaxMoves]]
  /\ customers \in Seq(Rows) /\ IsInjective(customers)
  /\ Query \in Queries /\ searchTimer \in BOOLEAN
  /\ drawerOpen \in BOOLEAN /\ drawerCustomer \in Rows \cup {NoRow}
  /\ resetting \in BOOLEAN /\ busy \in BOOLEAN /\ issuedPassword \in 0..MaxMoves
  /\ flight \subseteq Requests /\ moves \in 0..MaxMoves
  /\ strayed \in BOOLEAN /\ overlapped \in BOOLEAN

Init ==
  /\ accounts = [e \in Emails |-> [registered |-> TRUE, active |-> TRUE, password |-> 0]]
  /\ customers = <<>> /\ currentPage = 1
  /\ search = None /\ registeredOnly = FALSE /\ searchTimer = FALSE
  /\ drawerOpen = FALSE /\ drawerCustomer = NoRow /\ resetting = FALSE
  /\ busy = FALSE /\ issuedPassword = 0
  /\ flight = {Request("list", None)} /\ moves = 0
  /\ strayed = FALSE /\ overlapped = FALSE
-----------------------------------------------------------------------------
(* Asking for the list, which makes every list asked for before stale.     *)
Outdated(f) == {IF r.kind = "list" THEN [r EXCEPT !.heard = FALSE] ELSE r : r \in f}
LoadCustomers(n, f) ==
  /\ currentPage' = n
  /\ flight' = Outdated(f) \cup {Request("list", None)'}
Acts ==
  /\ moves < MaxMoves /\ moves' = moves + 1
  /\ Cardinality(flight) < MaxFlight
  /\ UNCHANGED <<accounts, strayed>>

\* A keystroke starts the timer over; a filter and a page are asked for at once.
OnSearchInput(s) ==
  /\ Acts /\ ~drawerOpen /\ s # search
  /\ search' = s /\ searchTimer' = TRUE
  /\ UNCHANGED <<customers, currentPage, registeredOnly, drawer, flight, overlapped>>
SearchTimer ==
  /\ searchTimer /\ searchTimer' = FALSE
  /\ UNCHANGED <<customers, search, registeredOnly>>
  /\ LoadCustomers(1, flight)
  /\ UNCHANGED <<accounts, drawer, moves, history>>
SetRegisteredOnly(b) ==
  /\ Acts /\ ~drawerOpen /\ registeredOnly # b
  /\ registeredOnly' = b /\ UNCHANGED <<customers, search, searchTimer>>
  /\ LoadCustomers(1, flight)
  /\ UNCHANGED <<drawer, overlapped>>
GoToPage(n) ==
  /\ Acts /\ ~drawerOpen /\ customers # <<>> /\ n # currentPage
  /\ (n - 1) * PageSize < Cardinality(Found(Query))
  /\ UNCHANGED <<customers, search, registeredOnly, searchTimer>>
  /\ LoadCustomers(n, flight)
  /\ UNCHANGED <<drawer, overlapped>>
-----------------------------------------------------------------------------
(* The drawer.  Its component comes and goes with it.                      *)
Left(f) == {[r EXCEPT !.heard = r.kind = "list" /\ @] : r \in {q \in f : q.kind # "carts"}}
OpenCustomer(i) ==
  /\ Acts /\ ~drawerOpen /\ i \in DOMAIN customers
  /\ drawerCustomer' = customers[i] /\ drawerOpen' = TRUE
  /\ flight' = flight \cup {Request("carts", customers[i].email)}
  /\ UNCHANGED <<list, resetting, busy, issuedPassword, overlapped>>
DropComponent == busy' = FALSE /\ issuedPassword' = 0
CloseDrawer(f) ==
  IF drawerOpen
  THEN /\ drawerOpen' = FALSE /\ resetting' = TRUE
       /\ DropComponent /\ flight' = Left(f)
       /\ UNCHANGED drawerCustomer
  ELSE flight' = f /\ UNCHANGED drawer
Close ==
  /\ drawerOpen /\ CloseDrawer(flight)
  /\ UNCHANGED <<accounts, list, moves, history>>
\* The timer takes the customer, and with it the component of a drawer
\* that was opened again before it ran out.
Reset ==
  /\ resetting /\ resetting' = FALSE
  /\ drawerCustomer' = NoRow /\ DropComponent /\ flight' = Left(flight)
  /\ UNCHANGED <<accounts, list, drawerOpen, moves, history>>

\* The header's buttons wait for one another, deleting does not wait for them.
Change(k) ==
  /\ Acts /\ drawerOpen /\ drawerCustomer.registered
  /\ k # "delete" => ~busy
  /\ busy' = TRUE
  /\ overlapped' = (overlapped \/ (k = "password" /\ \E r \in flight : r.kind = k))
  /\ flight' = flight \cup {[Request(k, drawerCustomer.email) EXCEPT
                             !.password = IF k = "password" THEN moves' ELSE 0]}
  /\ UNCHANGED <<list, drawerOpen, drawerCustomer, resetting, issuedPassword>>
-----------------------------------------------------------------------------
(* The server.                                                             *)
Changed(r) ==
  CASE r.kind = "active"   -> [accounts EXCEPT ![r.of].active = ~@]
    [] r.kind = "password" -> [accounts EXCEPT ![r.of].password = r.password]
    [] r.kind = "delete"   -> [accounts EXCEPT ![r.of].registered = FALSE]
    [] OTHER               -> accounts
Serve(r) ==
  /\ r \in flight /\ r.answer = "sent"
  /\ \/ /\ r.kind \in Changes => accounts[r.of].registered
        /\ accounts' = Changed(r)
        /\ flight' = (flight \ {r}) \cup
             {[r EXCEPT !.answer = "ok",
                        !.rows = IF r.kind = "list" THEN ListOf(r.query) ELSE <<>>]}
        /\ UNCHANGED strayed
     \/ /\ flight' = (flight \ {r}) \cup {[r EXCEPT !.answer = "failed"]}
        /\ \/ UNCHANGED <<accounts, strayed>>
           \/ \* it was served and the answer is lost
              /\ r.kind \in Changes /\ accounts[r.of].registered
              /\ accounts' = Changed(r) /\ strayed' = TRUE
  /\ UNCHANGED <<list, drawer, moves, overlapped>>
-----------------------------------------------------------------------------
(* The answers.                                                            *)
Hears(r, kinds) == r \in flight /\ r.answer # "sent" /\ r.kind \in kinds
Rest(r) == flight \ {r}

\* The drawer shows a row of the list, so it is handed the new one; a
\* customer who is no longer listed keeps the last one.
NewRow(rows) ==
  IF \E i \in DOMAIN rows : rows[i].email = drawerCustomer.email
  THEN rows[CHOOSE i \in DOMAIN rows : rows[i].email = drawerCustomer.email]
  ELSE drawerCustomer
ListArrives(r) ==
  /\ Hears(r, {"list"}) /\ flight' = Rest(r)
  /\ IF r.heard /\ r.answer = "ok"
     THEN customers' = r.rows /\ drawerCustomer' = NewRow(r.rows)
     ELSE UNCHANGED <<customers, drawerCustomer>>
  /\ strayed' = (strayed \/ (r.heard /\ r.answer = "failed"))
  /\ UNCHANGED <<accounts, currentPage, search, registeredOnly, searchTimer, drawerOpen,
                 resetting, busy, issuedPassword, moves, overlapped>>
CartsArrive(r) ==
  /\ Hears(r, {"carts"}) /\ flight' = Rest(r)
  /\ UNCHANGED <<accounts, list, drawer, moves, history>>

\* Whatever the answer, the buttons are free again; a change that was made
\* is followed by a new list, and a deletion by a closed drawer.
Frees(r) == busy' = IF r.heard THEN FALSE ELSE busy
ChangeFails(r) ==
  /\ Hears(r, Changes) /\ r.answer = "failed"
  /\ Frees(r) /\ flight' = Rest(r)
  /\ UNCHANGED <<accounts, list, drawerOpen, drawerCustomer, resetting, issuedPassword,
                 moves, history>>
Reload(f) == LoadCustomers(currentPage, f)
AccountChanged(r) ==
  /\ Hears(r, {"active", "password"}) /\ r.answer = "ok"
  /\ Frees(r)
  /\ issuedPassword' = IF r.heard /\ r.kind = "password" THEN r.password ELSE issuedPassword
  /\ UNCHANGED <<customers, search, registeredOnly, searchTimer>>
  /\ Reload(Rest(r))
  /\ UNCHANGED <<accounts, drawerOpen, drawerCustomer, resetting, moves, history>>
AccountDeleted(r) ==
  /\ Hears(r, {"delete"}) /\ r.answer = "ok"
  /\ UNCHANGED list
  /\ CloseDrawer(Outdated(Rest(r)) \cup {Request("list", None)})
  /\ UNCHANGED <<accounts, moves, history>>
-----------------------------------------------------------------------------
Operator ==
  \/ \E s \in Emails \cup {None} : OnSearchInput(s)
  \/ \E b \in BOOLEAN : SetRegisteredOnly(b)
  \/ \E n \in 1..MaxCustomer : GoToPage(n)
  \/ \E i \in DOMAIN customers : OpenCustomer(i)
  \/ Close \/ \E k \in Changes : Change(k)
Arrive(r) == ListArrives(r) \/ CartsArrive(r) \/ ChangeFails(r) \/ AccountChanged(r)
             \/ AccountDeleted(r)
Network == \E r \in flight : Serve(r) \/ Arrive(r)
Next == Operator \/ SearchTimer \/ Reset \/ Network
Spec == Init /\ [][Next]_vars
-----------------------------------------------------------------------------
(* Whatever overlapped, once every answer has been heard the table is what *)
(* the server has for the search, the filter and the page on screen.       *)
TableAgreesWithServer ==
  flight = {} /\ ~searchTimer /\ ~strayed => customers = ListOf(Query)

(* The drawer and the table never say different things of a customer.      *)
DrawerShowsTheRow ==
  \A i \in DOMAIN customers :
    customers[i].email = drawerCustomer.email => customers[i] = drawerCustomer

(* A password the operator can read is the one the customer signs in with, *)
(* unless two were asked for at once.                                      *)
IssuedPasswordWorks ==
  /\ drawerOpen /\ drawerCustomer # NoRow /\ issuedPassword # 0 /\ ~strayed /\ ~overlapped
  /\ \A r \in flight : r.kind # "password"
  => LET a == accounts[drawerCustomer.email] IN a.registered => a.password = issuedPassword

(* A drawer that is open is open on a customer.  The page breaks this: a   *)
(* drawer opened within 200 ms of closing another is emptied by its timer. *)
DrawerHasACustomer == drawerOpen => drawerCustomer # NoRow
=============================================================================
