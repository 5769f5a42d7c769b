------------------------------- MODULE Providers -------------------------------
(***************************************************************************)
(* The payment providers of the panel's payment page.  A provider has a    *)
(* group of settings on the server: whether it is offered (active) and its *)
(* keys.  The page draws a chip for each from a store that every page of   *)
(* the panel shares, and a drawer edits one of them: a toggle saves active *)
(* alone, and the form saves the whole group, active with it.              *)
(***************************************************************************)
EXTENDS Naturals, Sequences, SequencesExt

CONSTANTS MaxMoves, MaxFlight

VARIABLES
  active, keys,      \* the server's groups
  store,             \* the shared store; nothing until a page loads it
  drawer,            \* the open drawer, "none" if it is shut
  phase,             \* of the drawer: "loading", "loaded", "subscribed"
  form, errors,      \* its copy of the group; did its last check fail
  flight,            \* requests on their way, and their answers
  wish, heard,       \* what the operator toggled; was every request heard of
  patient, moves

page == <<store, drawer, phase, form, errors, wish, heard, patient, moves>>
vars == <<active, keys, flight, page>>

ConstantsTyped == MaxMoves \in Nat /\ MaxFlight \in Nat
-----------------------------------------------------------------------------
Offered == {"stripe", "paypal", "portone", "spectrocoin", "coinbase"}
Unknown == [p \in {} |-> FALSE]
Copies == [active: BOOLEAN, keys: {"none", "old", "new"}]
Blank == [active |-> FALSE, keys |-> "none"]
Requests == [p: Offered, kind: {"toggle", "save"}, body: Copies, ok: BOOLEAN, done: BOOLEAN]

TypeOK ==
  /\ active \in [Offered -> BOOLEAN] /\ keys \in [Offered -> {"old", "new"}]
  /\ DOMAIN store \subseteq Offered /\ \A p \in DOMAIN store : store[p] \in BOOLEAN
  /\ drawer \in Offered \cup {"none"} /\ phase \in {"loading", "loaded", "subscribed"}
  /\ form \in Copies /\ errors \in BOOLEAN
  /\ flight \in Seq(Requests) /\ Len(flight) <= MaxFlight
  /\ wish \in [Offered -> BOOLEAN] /\ heard \in BOOLEAN /\ patient \in BOOLEAN
  /\ moves \in 0..MaxMoves

Init ==
  /\ active = [p \in Offered |-> p = "stripe"] /\ keys = [p \in Offered |-> "old"]
  /\ store = Unknown /\ drawer = "none" /\ phase = "loading" /\ form = Blank
  /\ errors = FALSE /\ flight = <<>>
  /\ wish = active /\ heard = TRUE /\ patient \in BOOLEAN /\ moves = 0

Acts == moves < MaxMoves /\ moves' = moves + 1
Clicks == Acts /\ (patient => flight = <<>> /\ (drawer # "none" => phase = "subscribed"))
-----------------------------------------------------------------------------
\* The page loads the list of providers, in and out of which the store lives on.
LoadPaymentSettings(ok) ==
  /\ drawer = "none" /\ store' = (IF ok THEN active ELSE store) /\ heard' = (heard /\ ok)
  /\ Clicks /\ UNCHANGED <<active, keys, drawer, phase, form, errors, flight, wish, patient>>

OpenDrawer(p) ==
  /\ drawer = "none" /\ drawer' = p /\ phase' = "loading" /\ form' = Blank /\ errors' = FALSE
  /\ Clicks /\ UNCHANGED <<active, keys, store, flight, wish, heard, patient>>
CloseDrawer ==
  /\ drawer # "none" /\ drawer' = "none" /\ phase' = "loading" /\ form' = Blank /\ errors' = FALSE
  /\ Acts /\ UNCHANGED <<active, keys, store, flight, wish, heard, patient>>

\* A group that cannot be loaded leaves the drawer with its defaults: not active.
LoadDrawer(ok) ==
  /\ drawer # "none" /\ phase = "loading" /\ phase' = "loaded"
  /\ form' = IF ok THEN [active |-> active[drawer], keys |-> keys[drawer]] ELSE form
  /\ heard' = (heard /\ (ok \/ drawer \in DOMAIN store))
  /\ UNCHANGED <<active, keys, store, drawer, errors, flight, wish, patient, moves>>
\* The store has the last word on active, at once and whenever it changes.
FromStore(f, s) == IF drawer \in DOMAIN s THEN [f EXCEPT !.active = s[drawer]] ELSE f
Heeded(f, s) == FromStore(f, s)
Subscribe ==
  /\ drawer # "none" /\ phase = "loaded" /\ phase' = "subscribed"
  /\ form' = Heeded(form, store)
  /\ UNCHANGED <<active, keys, store, drawer, errors, flight, wish, heard, patient, moves>>
\* The layout puts the shop's version into the same store when it hears of it.
LoadVersionInfo ==
  /\ phase = "subscribed" /\ form' = Heeded(form, store)
  /\ UNCHANGED <<active, keys, store, drawer, phase, errors, flight, wish, heard, patient, moves>>

Send(k, f) ==
  /\ Len(flight) < MaxFlight
  /\ flight' = Append(flight, [p |-> drawer, kind |-> k, body |-> f, ok |-> FALSE,
                               done |-> FALSE])
TypeKeys ==
  /\ Acts /\ form.keys # "new" /\ form' = [form EXCEPT !.keys = "new"]
  /\ UNCHANGED <<active, keys, store, drawer, phase, errors, flight, wish, heard, patient>>
\* Keys that are too short are refused, and the toggle with them until they are not.
SavePaymentSettings ==
  /\ Clicks /\ errors' = (form.keys = "none")
  /\ IF form.keys = "none" THEN UNCHANGED flight ELSE Send("save", form)
  /\ UNCHANGED <<active, keys, store, drawer, phase, form, wish, heard, patient>>
\* The switch has flipped the drawer's copy before its handler reads it.
TogglePaymentActive ==
  LET f == [form EXCEPT !.active = ~form.active] IN
  /\ Clicks /\ ~errors /\ form' = f /\ Send("toggle", f)
  /\ wish' = [wish EXCEPT ![drawer] = f.active]
  /\ UNCHANGED <<active, keys, store, drawer, phase, errors, heard, patient>>

Drawer(p) ==
  /\ drawer = p
  /\ \E ok \in BOOLEAN : LoadDrawer(ok)
     \/ Subscribe \/ TypeKeys \/ SavePaymentSettings \/ TogglePaymentActive \/ CloseDrawer
StripeDrawer == Drawer("stripe")
PaypalDrawer == Drawer("paypal")
PortoneDrawer == Drawer("portone")
SpectrocoinDrawer == Drawer("spectrocoin")
CoinbaseDrawer == Drawer("coinbase")
-----------------------------------------------------------------------------
\* The server: a toggle writes active alone, a save the whole group.
Serve(i, ok) ==
  LET r == flight[i] IN
  /\ ~r.done /\ flight' = [flight EXCEPT ![i].done = TRUE, ![i].ok = ok]
  /\ active' = IF ok THEN [active EXCEPT ![r.p] = r.body.active] ELSE active
  /\ keys' = IF ok /\ r.kind = "save" THEN [keys EXCEPT ![r.p] = r.body.keys] ELSE keys
  /\ UNCHANGED page
\* A toggle that was done is put into the store.  One that was not leaves the
\* switch as the operator set it: the value it is put back to was read too late.
Answer(i, got) ==
  LET r == flight[i]
      done == r.ok /\ got /\ r.kind = "toggle" IN
  /\ r.done /\ flight' = RemoveAt(flight, i)
  /\ heard' = (heard /\ r.ok /\ got)
  /\ store' = IF done THEN [p \in {r.p} \cup DOMAIN store |->
                              IF p = r.p THEN r.body.active ELSE store[p]] ELSE store
  /\ form' = IF done /\ phase = "subscribed" THEN Heeded(form, store') ELSE form
  /\ UNCHANGED <<active, keys, drawer, phase, errors, wish, patient, moves>>

Next ==
  \/ \E ok \in BOOLEAN : LoadPaymentSettings(ok)
  \/ LoadVersionInfo \/ \E p \in Offered : OpenDrawer(p)
  \/ StripeDrawer \/ PaypalDrawer \/ PortoneDrawer \/ SpectrocoinDrawer \/ CoinbaseDrawer
  \/ \E i \in DOMAIN flight, ok \in BOOLEAN : Serve(i, ok) \/ Answer(i, ok)

Spec == Init /\ [][Next]_vars
-----------------------------------------------------------------------------
\* A provider is offered at the checkout when its operator last switched it on,
\* and not otherwise: saving its keys sends active along, and sends what the store
\* knows even if the drawer could not load the group.
ActiveIsToggled == patient /\ heard /\ flight = <<>> => active = wish

\* A switch whose toggle was refused goes back (settings.active = previousValue).
\* The drawers break this: the value they call previous is the new one.
SwitchGoesBack == patient /\ flight = <<>> /\ phase = "subscribed" /\ drawer # "none"
  /\ drawer \in DOMAIN store => form.active = store[drawer]
=============================================================================
