------------------------------- MODULE Settings --------------------------------
(***************************************************************************)
(* The settings pages of the panel.  Each loads one group of settings into *)
(* a form and saves the whole group, whatever part of it was edited: a     *)
(* field the form has wrong is overwritten.  A group is abstracted to what *)
(* is typed into it (words), what is picked or uploaded (choice: a format, *)
(* a password, a mark; 0 for none), and what its page never shows (rest).  *)
(*                                                                         *)
(* A request is served and answered separately.  An upload of a mark reads *)
(* the group and writes it back in two steps of the server.                *)
(***************************************************************************)
EXTENDS Naturals, Sequences, SequencesExt

CONSTANTS MaxChoice, MaxMoves, MaxFlight

VARIABLES
  page,            \* the page that is open
  stored, files,   \* the server's group, and the uploaded marks it has on file
  form, loading,   \* the page's copy
  drawer,          \* which drawer of the payment page is open
  local, closing,  \* what the number format drawer has picked; its delayed reset
  flight,          \* requests on their way, and their answers
  typed, wanted,   \* what the operator has put in, and what was saved of it
  cleared,         \* history: a password typed for the responder was emptied again
  heard,           \* every request was answered, and the page heard it
  patient,         \* this operator waits for an answer before the next click
  fresh, moves

screen == <<page, form, loading, drawer, local, closing, typed, heard, patient, moves>>
server == <<stored, files, fresh, wanted, cleared>>
vars == <<screen, server, flight>>

ConstantsTyped ==
  /\ MaxChoice \in Nat /\ 3 <= MaxChoice      \* what the pages offer to pick
  /\ MaxMoves \in Nat /\ MaxFlight \in Nat
-----------------------------------------------------------------------------
Pages == {"main", "branding", "payment", "mail", "letter", "account", "auth",
          "sellerinfo", "social", "webhook", "responder"}
Drawers == {"none", "format", "truncation"}
Words == {"none", "old", "new"}
Group == [words: Words, choice: 0..MaxChoice, rest: {"none", "old"}]
\* A session's lifetime is stored in hours and edited in whole days: 3 stands for
\* hours that are no whole number of days, and 2 for the nearest one.
InDays(c) == IF c = 3 THEN 2 ELSE c
Seen(g) == IF page = "account" THEN [g EXCEPT !.choice = InDays(@)] ELSE g
Blank == [words |-> "none", choice |-> 0, rest |-> "none"]   \* the page's own defaults
\* put: what the operator had typed when the request left; alive: the page that
\* sent it is still open.
Requests == [kind: {"save", "password", "upload", "remove"}, body: Group, put: Group,
             step: {"sent", "read", "answered"}, alive: BOOLEAN]

TypeOK ==
  /\ page \in Pages
  /\ stored \in Group /\ files \subseteq 1..MaxChoice
  /\ form \in Group /\ loading \in BOOLEAN
  /\ drawer \in Drawers /\ local \in 0..MaxChoice /\ closing \in BOOLEAN
  /\ flight \in Seq(Requests) /\ Len(flight) <= MaxFlight
  /\ typed \in Group /\ wanted \in Group
  /\ heard \in BOOLEAN /\ patient \in BOOLEAN /\ cleared \in BOOLEAN
  /\ fresh \in 2..MaxChoice + 1 /\ moves \in 0..MaxMoves

Init ==
  /\ page \in Pages
  /\ \E c \in IF page = "account" THEN {1, 3} ELSE {1} :
       stored = [words |-> "old", choice |-> c, rest |-> "old"]
  /\ files = {1} /\ fresh = 2
  /\ form = Blank /\ loading = TRUE
  /\ drawer = "none" /\ local = 0 /\ closing = FALSE
  /\ flight = <<>> /\ heard = TRUE /\ patient \in BOOLEAN
  /\ typed = stored /\ wanted = stored /\ cleared = FALSE /\ moves = 0

\* Every page draws its form once the group is there; the responder's does not wait.
Shown == ~loading \/ (page = "responder" /\ ~patient)
Acts == Shown /\ moves < MaxMoves /\ moves' = moves + 1
Clicks == Acts /\ (patient => flight = <<>>)
Edits == Acts /\ UNCHANGED <<server, page, loading, closing, flight, heard, patient>>
Secret == page \in {"responder", "auth"}   \* its choice is a password, never shown
-----------------------------------------------------------------------------
(* Loading and saving.                                                     *)

\* A load that fails leaves the page with its defaults.
LoadSettings(ok) ==
  LET Loaded(f) == IF Secret THEN [stored EXCEPT !.choice = f.choice] ELSE stored IN
  /\ loading /\ loading' = FALSE
  /\ form' = IF ok THEN Seen(Loaded(form)) ELSE form
  /\ typed' = Loaded(form) /\ local' = form'.choice
  /\ heard' = (heard /\ ok)
  /\ UNCHANGED <<server, page, drawer, closing, flight, patient, moves>>
Leave ==
  /\ ~loading /\ Clicks
  /\ loading' = TRUE /\ form' = Blank
  /\ drawer' = "none" /\ local' = 0 /\ closing' = FALSE
  /\ flight' = [i \in DOMAIN flight |-> [flight[i] EXCEPT !.alive = FALSE]]
  /\ UNCHANGED <<server, page, typed, heard, patient>>

Send(k, body, put) ==
  /\ Len(flight) < MaxFlight
  /\ flight' = Append(flight, [kind |-> k, body |-> body, put |-> put,
                               step |-> "sent", alive |-> TRUE])
Saves(f, t) ==
  /\ Clicks /\ Send("save", f, t) /\ form' = f /\ typed' = t
  /\ UNCHANGED <<server, page, loading, drawer, local, closing, heard, patient>>
Submit(valid) == valid /\ Saves(form, typed)
TypeWords ==
  /\ Edits /\ form.words # "new"
  /\ form' = [form EXCEPT !.words = "new"] /\ typed' = [typed EXCEPT !.words = "new"]
  /\ UNCHANGED <<drawer, local>>
Pick(c) ==
  /\ Edits /\ (form.choice # c \/ typed.choice # c)
  /\ form' = [form EXCEPT !.choice = c] /\ typed' = [typed EXCEPT !.choice = c]
  /\ UNCHANGED <<drawer, local>>
-----------------------------------------------------------------------------
(* The pages.                                                              *)

\* A date format is saved as soon as it is picked, with the rest of the form, and
\* without the form's checks.
SwitchDateFormat(c) ==
  Saves([form EXCEPT !.choice = c], [typed EXCEPT !.choice = c])
MainPage ==
  /\ page = "main"
  /\ TypeWords \/ Submit(form.words # "none") \/ \E c \in {1, 2} : SwitchDateFormat(c)

BrandingPage ==
  /\ page = "branding"
  /\ \/ TypeWords \/ Submit(TRUE)
     \/ /\ Clicks /\ \E k \in {"upload", "remove"} : Send(k, form, typed)
        /\ UNCHANGED <<server, page, form, typed, loading, drawer, local, closing,
                       heard, patient>>

\* Four forms of the payment page save one copy of one group.  The price display
\* drawer edits that copy itself, so that an edit it is closed on goes out with
\* the next save of any of them; the number format drawer edits a copy of its own.
OpenDrawer(d) ==
  /\ Acts /\ drawer # d /\ drawer' = d
  /\ UNCHANGED <<server, page, form, loading, local, closing, flight, typed, heard, patient>>
CloseDrawer ==
  /\ Acts /\ drawer # "none" /\ drawer' = "none" /\ closing' = TRUE
  /\ UNCHANGED <<server, page, form, loading, local, flight, typed, heard, patient>>
\* The reset of a closed drawer also empties one that was opened since.
ResetDrawer ==
  /\ closing /\ closing' = FALSE /\ drawer' = "none"
  /\ UNCHANGED <<server, page, form, loading, local, flight, typed, heard, patient, moves>>
PickFormat(c) ==
  /\ Edits /\ local # c /\ local' = c /\ UNCHANGED <<form, typed, drawer>>
SubmitFormat == Saves([form EXCEPT !.choice = local], [typed EXCEPT !.choice = local])
CurrencyForm == TypeWords \/ Submit(form.words # "none")
PaymentPage ==
  /\ page = "payment"
  /\ \/ CurrencyForm \/ CloseDrawer
     \/ \E d \in Drawers \ {"none"} : OpenDrawer(d)
     \/ drawer = "truncation" /\ (Submit(TRUE) \/ \E c \in {2, 3} : Pick(c))
     \/ drawer = "format" /\ (SubmitFormat \/ \E c \in {2, 3} : PickFormat(c))

MailPage == page = "mail" /\ (TypeWords \/ Submit(form.words # "none"))
\* A letter is saved whenever a field of it loses the focus.
LetterDrawer == page = "letter" /\ (TypeWords \/ Submit(TRUE))
AccountPage ==
  page = "account" /\ (TypeWords \/ Submit(TRUE) \/ \E c \in {1, 2} : Pick(c))
\* The password has a form and a request of its own; the operator knows the old one.
AuthPage ==
  /\ page = "auth"
  /\ \/ TypeWords \/ Submit(form.words # "none") \/ \E c \in {0, 2, 3} : Pick(c)
     \/ /\ Clicks /\ form.choice # 0
        /\ \E old \in {1, 2} : Send("password", form, [typed EXCEPT !.choice = old])
        /\ UNCHANGED <<server, page, form, typed, loading, drawer, local, closing,
                       heard, patient>>
SellerInfoPage ==
  page = "sellerinfo" /\ (TypeWords \/ Submit(TRUE) \/ \E c \in {0, 2} : Pick(c))
SocialPage == page = "social" /\ (TypeWords \/ Submit(TRUE))
WebhookPage == page = "webhook" /\ (TypeWords \/ Submit(TRUE))
\* Emptying the password's field is not noticed: the form keeps what was typed.
ClearPassword ==
  /\ Acts /\ typed.choice # 0 /\ typed' = [typed EXCEPT !.choice = 0] /\ cleared' = TRUE
  /\ UNCHANGED <<stored, files, fresh, wanted, page, form, loading, drawer, local, closing,
                 flight, heard, patient>>
ResponderPage ==
  /\ page = "responder"
  /\ TypeWords \/ Submit(TRUE) \/ ClearPassword \/ \E c \in {2, 3} : Pick(c)
-----------------------------------------------------------------------------
(* The server, and its answers.                                            *)
With(i, r) == flight' = [flight EXCEPT ![i] = r]
At(i, k, s) == flight[i].kind \in k /\ flight[i].step = s

\* A masked password is the one on file, and the address form carries none.
Kept(b) == [b EXCEPT !.choice = stored.choice]
Chosen(g) == page = "responder" /\ g.choice # 0
Unmasked(b) == IF Secret /\ ~Chosen(b) THEN Kept(b) ELSE b
\* The mail page sends its own part of the group, and the rest is stored blank.
Rest(b) == IF page = "mail" THEN [b EXCEPT !.rest = "none"] ELSE b
UpdateSetting(i) ==
  /\ At(i, {"save"}, "sent")
  /\ stored' = Rest(Unmasked(flight[i].body))
  /\ wanted' = [flight[i].put EXCEPT !.rest = "old",
                 !.choice = IF Secret /\ ~Chosen(flight[i].put) THEN wanted.choice ELSE @]
  /\ With(i, [flight[i] EXCEPT !.step = "answered"])
  /\ UNCHANGED <<screen, files, fresh, cleared>>
UpdatePassword(i) ==
  /\ At(i, {"password"}, "sent") /\ flight[i].put.choice = stored.choice
  /\ stored' = [stored EXCEPT !.choice = flight[i].body.choice]
  /\ wanted' = [wanted EXCEPT !.choice = flight[i].body.choice]
  /\ With(i, [flight[i] EXCEPT !.step = "answered"])
  /\ UNCHANGED <<screen, files, fresh, cleared>>

\* A mark: its file is stored and the group is read; then the group is written
\* with the new name, and the file that it named before is removed.
ReadBranding(i) ==
  /\ At(i, {"upload", "remove"}, "sent")
  /\ With(i, [flight[i] EXCEPT !.step = "read", !.body = stored])
  /\ UNCHANGED <<screen, server>>
WriteBranding(i) ==
  LET r == flight[i]
      name == IF r.kind = "upload" THEN fresh ELSE 0 IN
  /\ At(i, {"upload", "remove"}, "read") /\ name <= MaxChoice
  /\ stored' = [r.body EXCEPT !.choice = name]
  /\ files' = ((files \ {r.body.choice}) \cup {name}) \ {0}
  /\ fresh' = fresh + (IF r.kind = "upload" THEN 1 ELSE 0)
  /\ wanted' = [wanted EXCEPT !.choice = name]
  /\ With(i, [r EXCEPT !.step = "answered", !.put = stored'])
  /\ UNCHANGED <<screen, cleared>>
\* Only the mark is taken from the answer: a tagline being typed stays.
MarkOf(g) == [form EXCEPT !.choice = g.choice]
Merged(g) == g                \* mutant: the whole answer is merged in
ApplyMark(g) == MarkOf(g)
\* The responder's form forgets the password typed into it, saved or not.
Forgotten(f, r) == IF page = "responder" /\ r.alive THEN [f EXCEPT !.choice = 0] ELSE f
Refuse(i) ==
  /\ flight[i].step \in {"sent", "read"} /\ flight' = RemoveAt(flight, i) /\ heard' = FALSE
  /\ form' = Forgotten(form, flight[i]) /\ typed' = Forgotten(typed, flight[i])
  /\ UNCHANGED <<server, page, loading, drawer, local, closing, patient, moves>>
Answer(i, ok) ==
  LET r == flight[i]
      mark == r.kind \in {"upload", "remove"} IN
  /\ r.step = "answered" /\ flight' = RemoveAt(flight, i)
  /\ heard' = (heard /\ ok)
  /\ form' = IF mark /\ r.alive /\ ok THEN ApplyMark(r.put) ELSE Forgotten(form, r)
  /\ typed' = IF mark /\ r.alive THEN [typed EXCEPT !.choice = r.put.choice]
              ELSE Forgotten(typed, r)
  /\ UNCHANGED <<server, page, loading, drawer, local, closing, patient, moves>>

Next ==
  \/ \E ok \in BOOLEAN : LoadSettings(ok)
  \/ Leave \/ ResetDrawer
  \/ MainPage \/ BrandingPage \/ PaymentPage \/ MailPage \/ LetterDrawer
  \/ AccountPage \/ AuthPage \/ SellerInfoPage \/ SocialPage \/ WebhookPage
  \/ ResponderPage
  \/ \E i \in DOMAIN flight :
       \/ UpdateSetting(i) \/ UpdatePassword(i) \/ ReadBranding(i) \/ WriteBranding(i)
       \/ Refuse(i) \/ \E ok \in BOOLEAN : Answer(i, ok)

Spec == Init /\ [][Next]_vars
-----------------------------------------------------------------------------
\* A settings page that has loaded and hears its answers saves what its operator
\* put there and nothing else, though every save writes the whole group: a tagline
\* typed during an upload is not lost to it, an upload does not undo a saved
\* tagline, and a password nobody retyped stays.  Two things are excepted: the
\* lifetime of sessions comes back in whole days, and a password that was typed
\* for the responder and emptied again is saved all the same.
SettingsAsTyped == patient /\ heard /\ ~cleared =>
  /\ stored.words = wanted.words
  /\ \/ stored.choice = wanted.choice
     \/ page = "account" /\ stored.choice = InDays(wanted.choice)

\* The mark that the shop's pages draw is a file that is there, for as long as
\* the form knows the name the server chose (applyMark).
MarkIsOnFile == patient /\ heard /\ page = "branding" =>
  stored.choice \in files \cup {0}

\* "The marks ride along unchanged."  The page breaks this when it saves while an
\* upload's answer is awaited or was lost.
MarksRideAlong == page = "branding" => stored.choice \in files \cup {0}
\* "Only send password if user changed it" (responder/+page.svelte:62).  The page
\* breaks this: a password emptied before the save is sent.
EmptiedIsNotSent == page = "responder" /\ patient /\ heard => stored.choice = wanted.choice
\* A save leaves alone the lifetime nobody edited.  The account page breaks this:
\* hours that are no whole days, which the server accepts, are rounded.
LifetimeIsKept == page = "account" /\ patient /\ heard => stored.choice = wanted.choice
\* A save leaves alone what its page does not show.  The mail page breaks this.
HiddenIsKept == stored.rest = "old"
\* A page whose load failed does not blank what is stored.  The responder's page
\* breaks this: its form can be saved before it is loaded.
NothingIsBlanked == stored.words # "none"
=============================================================================
