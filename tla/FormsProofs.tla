------------------------------ MODULE FormsProofs ------------------------------
(***************************************************************************)
(* The panel's forms for every set of images, keys, files and choices, any *)
(* number of moves, and an operator who waits: each form but the variants' *)
(* has its type, a list of digital content is the server's but for what is *)
(* under way, a save stores what was typed (a lifetime in whole days, and  *)
(* an emptied password all the same), and no key listed as sold is touched.*)
(*                                                                         *)
(* None of these is inductive.  SettingsInv and ProvidersInv add what the  *)
(* request on its way holds of what was typed and known when it was sent,  *)
(* ContentInv what its answer will bring to the list, and ImagesInv that   *)
(* every image, stored, shown or on its way, has a place of its own.       *)
(*                                                                         *)
(* The variants' form folds over the combinations of its options; what     *)
(* such a fold gives for every input takes induction over data, and stays  *)
(* with TLC.                                                               *)
(***************************************************************************)
EXTENDS MCForms, FiniteSets, Sequences, FiniteSetTheorems,
        SequenceTheorems, TLAPS

-----------------------------------------------------------------------------
(* Sequences: one with a member less, with one more, with one changed.     *)

LEMMA Concatenated ==
  ASSUME NEW S, NEW s \in Seq(S), NEW t \in Seq(S), NEW j \in 1..(Len(s) + Len(t))
  PROVE  (s \o t)[j] = IF j <= Len(s) THEN s[j] ELSE t[j - Len(s)]
  OBVIOUS

Cut(s, i) == SubSeq(s, 1, i - 1) \o SubSeq(s, i + 1, Len(s))

\* A list without one of its members, with a member more, or with one changed.
LEMMA CutFrom ==
  ASSUME NEW S, NEW s \in Seq(S), NEW i \in DOMAIN s
  PROVE  /\ Cut(s, i) \in Seq(S) /\ Len(Cut(s, i)) = Len(s) - 1
         /\ \A j \in 1..(Len(s) - 1) : Cut(s, i)[j] = IF j < i THEN s[j] ELSE s[j + 1]
<1> DEFINE a == SubSeq(s, 1, i - 1)
           b == SubSeq(s, i + 1, Len(s))
<1>1. Len(s) \in Nat /\ i \in 1..Len(s) /\ DOMAIN s = 1..Len(s)
  OBVIOUS
<1>2. a \in Seq(S) /\ Len(a) = i - 1 /\ \A j \in 1..(i - 1) : a[j] = s[j]
  BY <1>1
<1>3. b \in Seq(S) /\ Len(b) = Len(s) - i /\ \A j \in 1..(Len(s) - i) : b[j] = s[i + j]
  BY <1>1
<1>4. Cut(s, i) = a \o b
  BY DEF Cut
<1> HIDE DEF a, b
<1>5. Cut(s, i) \in Seq(S) /\ Len(Cut(s, i)) = Len(a) + Len(b)
  BY <1>2, <1>3, <1>4, ConcatProperties
<1>6. ASSUME NEW j \in 1..(Len(s) - 1)
      PROVE  Cut(s, i)[j] = IF j < i THEN s[j] ELSE s[j + 1]
  <2>1. CASE j < i
    BY <1>1, <1>2, <1>3, <1>4, <2>1
  <2>2. CASE ~(j < i)
    <3>1. /\ j - (i - 1) \in 1..(Len(s) - i) /\ i + (j - (i - 1)) = j + 1
          /\ j \in 1..(Len(a) + Len(b)) /\ ~(j <= Len(a)) /\ j - Len(a) = j - (i - 1)
      BY <1>1, <1>2, <1>3, <2>2, SMTT(30)
    <3>2. Cut(s, i)[j] = b[j - Len(a)]
      <4>1. (a \o b)[j] = b[j - Len(a)]
        BY <1>2, <1>3, <3>1, Concatenated
      <4> QED
        BY <1>4, <4>1
    <3> QED
      BY <1>3, <2>2, <3>1, <3>2
  <2> QED
    BY <2>1, <2>2
<1> QED
  BY <1>1, <1>2, <1>3, <1>5, <1>6

LEMMA CutKeeps ==
  ASSUME NEW S, NEW s \in Seq(S), NEW i \in DOMAIN s
  PROVE  \A j \in DOMAIN Cut(s, i) : \E k \in DOMAIN s : Cut(s, i)[j] = s[k]
<1>1. ASSUME NEW j \in DOMAIN Cut(s, i) PROVE \E k \in DOMAIN s : Cut(s, i)[j] = s[k]
  <2>1. j \in 1..(Len(s) - 1) /\ DOMAIN s = 1..Len(s) /\ Len(s) \in Nat /\ i \in 1..Len(s)
    BY CutFrom
  <2>2. Cut(s, i)[j] = IF j < i THEN s[j] ELSE s[j + 1]
    BY <2>1, CutFrom
  <2>3. j \in DOMAIN s /\ j + 1 \in DOMAIN s
    BY <2>1
  <2> QED
    BY <2>2, <2>3
<1> QED
  BY <1>1

LEMMA ChangedAt ==
  ASSUME NEW S, NEW s \in Seq(S), NEW i \in DOMAIN s, NEW x \in S
  PROVE  /\ [s EXCEPT ![i] = x] \in Seq(S) /\ Len([s EXCEPT ![i] = x]) = Len(s)
         /\ DOMAIN [s EXCEPT ![i] = x] = DOMAIN s /\ [s EXCEPT ![i] = x][i] = x
         /\ \A j \in DOMAIN s \ {i} : [s EXCEPT ![i] = x][j] = s[j]
<1> DEFINE t == [s EXCEPT ![i] = x]
<1>1. Len(s) \in Nat /\ s \in [1..Len(s) -> S] /\ DOMAIN s = 1..Len(s)
  OBVIOUS
<1>2. t \in [1..Len(s) -> S]
  BY <1>1
<1>3. t \in Seq(S) /\ Len(t) = Len(s)
  BY <1>1, <1>2
<1>4. DOMAIN t = DOMAIN s /\ t[i] = x /\ \A j \in DOMAIN s \ {i} : t[j] = s[j]
  BY <1>1
<1> QED
  BY <1>3, <1>4

LEMMA AddedTo ==
  ASSUME NEW S, NEW s \in Seq(S), NEW x \in S
  PROVE  /\ Append(s, x) \in Seq(S) /\ Len(Append(s, x)) = Len(s) + 1
         /\ DOMAIN Append(s, x) = 1..(Len(s) + 1) /\ Append(s, x)[Len(s) + 1] = x
         /\ \A j \in DOMAIN s : Append(s, x)[j] = s[j]
  OBVIOUS

LEMMA MadeBySteps ==
  ASSUME NEW S, NEW n \in Nat, NEW f \in [1..n -> S]
  PROVE  f \in Seq(S) /\ Len(f) = n /\ DOMAIN f = 1..n
  OBVIOUS

LEMMA CutHas ==
  ASSUME NEW S, NEW s \in Seq(S), NEW i \in DOMAIN s, NEW j \in DOMAIN s, j # i
  PROVE  \E m \in DOMAIN Cut(s, i) : Cut(s, i)[m] = s[j]
<1>1. Len(s) \in Nat /\ DOMAIN s = 1..Len(s) /\ DOMAIN Cut(s, i) = 1..(Len(s) - 1)
      /\ \A m \in 1..(Len(s) - 1) : Cut(s, i)[m] = IF m < i THEN s[m] ELSE s[m + 1]
  BY CutFrom
<1>2. CASE j < i
  <2>1. j \in 1..(Len(s) - 1)
    BY <1>1, <1>2
  <2> QED
    BY <1>1, <1>2, <2>1
<1>3. CASE j > i
  <2>1. j - 1 \in 1..(Len(s) - 1) /\ ~(j - 1 < i) /\ (j - 1) + 1 = j
    BY <1>1, <1>3
  <2> QED
    BY <1>1, <2>1
<1> QED
  BY <1>1, <1>2, <1>3

-----------------------------------------------------------------------------
(* The settings pages.                                                     *)

\* An operator who waits for every answer has one request on its way, from a form
\* that shows what was typed.
Shows == fields = Settings!Seen(typed)
SettingsWait ==
  /\ Len(flight) <= 1 /\ (loading => flight = <<>>) /\ (~loading => Shows)
SettingsSent(r) ==
  /\ r.alive /\ (r.kind = "password" => page = "auth")
  /\ r.kind \in {"upload", "remove"} => page = "branding"
  /\ r.kind = "save" /\ r.step = "sent" => r.body = Settings!Seen(r.put)
  /\ r.step = "read" => r.body = stored
\* The form's mark is the server's, but while an upload or a removal is on its way;
\* then its answer has it.
MarkSent(r) ==
  /\ r.kind = "save" =>
       fields.choice = stored.choice /\ (r.step = "sent" => r.body.choice = stored.choice)
  /\ r.kind # "save" /\ r.step = "answered" => r.put.choice = stored.choice
MarkIsKnown ==
  /\ stored.choice \in files \cup {0}
  /\ ~loading /\ flight = <<>> => fields.choice = stored.choice
  /\ \A i \in DOMAIN flight : MarkSent(flight[i])
\* What is stored is what was saved, a lifetime in whole days.
Saved ==
  /\ stored.words = wanted.words
  /\ \/ stored.choice = wanted.choice
     \/ page = "account" /\ stored.choice = Settings!InDays(wanted.choice)
SettingsKept ==
  patient /\ heard /\ ~cleared =>
    /\ Saved /\ SettingsWait /\ \A i \in DOMAIN flight : SettingsSent(flight[i])
    /\ page = "branding" => MarkIsKnown
ClearedThere == cleared => page = "responder"
SettingsInv == Settings!TypeOK /\ ClearedThere /\ SettingsKept

\* A group with another text, another choice, or its rest blanked.
LEMMA GroupEdited ==
  ASSUME Settings!ConstantsTyped, NEW g \in Settings!Group
  PROVE  /\ \A w \in Settings!Words :
              /\ [g EXCEPT !.words = w] \in Settings!Group
              /\ [g EXCEPT !.words = w].words = w
              /\ [g EXCEPT !.words = w].choice = g.choice
         /\ \A c \in 0..MaxChoice :
              /\ [g EXCEPT !.choice = c] \in Settings!Group
              /\ [g EXCEPT !.choice = c].choice = c
              /\ [g EXCEPT !.choice = c].words = g.words
         /\ \A x \in {"none", "old"} :
              /\ [g EXCEPT !.rest = x] \in Settings!Group
              /\ [g EXCEPT !.rest = x].choice = g.choice
              /\ [g EXCEPT !.rest = x].words = g.words
  BY DEF Settings!Group

\* What a page shows of a group, and of one with another text or another choice.
LEMMA SeenGroup ==
  ASSUME Settings!ConstantsTyped, NEW g \in Settings!Group
  PROVE  /\ Settings!Seen(g) \in Settings!Group /\ Settings!Seen(g).words = g.words
         /\ \/ Settings!Seen(g).choice = g.choice
            \/ page = "account" /\ Settings!Seen(g).choice = Settings!InDays(g.choice)
         /\ page # "account" => Settings!Seen(g) = g
<1>1. Settings!InDays(g.choice) \in 0..MaxChoice
  BY DEF Settings!ConstantsTyped, Settings!Group, Settings!InDays
<1> DEFINE h == [g EXCEPT !.choice = Settings!InDays(g.choice)]
<1>2. h \in Settings!Group /\ h.words = g.words /\ h.choice = Settings!InDays(g.choice)
  BY <1>1, GroupEdited
<1>3. (page = "account" => Settings!Seen(g) = h) /\ (page # "account" => Settings!Seen(g) = g)
  BY DEF Settings!Seen, Settings!Group
<1> HIDE DEF h
<1>4. CASE page = "account"
  BY <1>2, <1>3, <1>4
<1>5. CASE page # "account"
  BY <1>3, <1>5
<1> QED
  BY <1>4, <1>5
LEMMA SeenEdited ==
  ASSUME NEW g \in Settings!Group
  PROVE  /\ \A w : Settings!Seen([g EXCEPT !.words = w]) = [Settings!Seen(g) EXCEPT !.words = w]
         /\ \A c : page # "account" \/ c # 3 =>
              Settings!Seen([g EXCEPT !.choice = c]) = [Settings!Seen(g) EXCEPT !.choice = c]
  BY DEF Settings!Seen, Settings!InDays, Settings!Group

\* What the pages do: an act on the screen, or a request.
Typing ==
  /\ fields' \in Settings!Group /\ typed' \in Settings!Group /\ local' \in 0..MaxChoice
  /\ drawer' \in Settings!Drawers /\ closing' \in BOOLEAN /\ moves' \in 0..SettingMoves
  /\ cleared' \in BOOLEAN /\ (cleared => cleared')
  /\ cleared' => cleared \/ page = "responder"
  /\ ~cleared' /\ Shows => Shows'
  /\ page = "branding" => fields'.choice = fields.choice
  /\ UNCHANGED <<stored, files, fresh, wanted, page, loading, flight, heard, patient>>
Sending(k, b, p) ==
  /\ k \in {"save", "password", "upload", "remove"}
  /\ b \in Settings!Group /\ p \in Settings!Group
  /\ Len(flight) < MaxFlight /\ (patient => flight = <<>> /\ ~loading)
  /\ flight' = Append(flight, [kind |-> k, body |-> b, put |-> p, step |-> "sent",
                               alive |-> TRUE])
  /\ fields' \in Settings!Group /\ typed' \in Settings!Group /\ moves' \in 0..SettingMoves
  /\ Shows => Shows' /\ (k = "save" => b = Settings!Seen(p))
  /\ k = "password" => page = "auth"
  /\ k \in {"upload", "remove"} => page = "branding"
  /\ page = "branding" =>
       fields'.choice = fields.choice /\ (k = "save" => b.choice = fields.choice)
  /\ UNCHANGED <<stored, files, fresh, wanted, cleared, page, loading, drawer, local, closing,
                 heard, patient>>
PagesDo == Typing \/ \E k, b, p : Sending(k, b, p)

LEMMA WordsTyped ==
  ASSUME Settings!ConstantsTyped, Settings!TypeOK, Settings!TypeWords
  PROVE  PagesDo
<1>1. /\ fields \in Settings!Group /\ typed \in Settings!Group /\ moves \in Nat
      /\ local \in 0..MaxChoice /\ drawer \in Settings!Drawers /\ closing \in BOOLEAN
  BY DEF Settings!TypeOK
<1>2. /\ fields' = [fields EXCEPT !.words = "new"] /\ typed' = [typed EXCEPT !.words = "new"]
      /\ moves < SettingMoves /\ moves' = moves + 1 /\ "new" \in Settings!Words
      /\ local' = local /\ drawer' = drawer /\ closing' = closing
      /\ UNCHANGED <<stored, files, fresh, wanted, cleared, page, loading, flight, heard, patient>>
  BY DEF Settings!TypeWords, Settings!Edits, Settings!Acts, Settings!server, Settings!Words
<1>3. /\ fields' \in Settings!Group /\ typed' \in Settings!Group
      /\ fields'.choice = fields.choice
  BY <1>1, <1>2, GroupEdited
<1>4. moves' \in 0..SettingMoves
  BY <1>1, <1>2 DEF Settings!ConstantsTyped
<1>5. Shows => Shows'
  <2>1. Settings!Seen(typed') = [Settings!Seen(typed) EXCEPT !.words = "new"]
    BY <1>1, <1>2, SeenEdited
  <2> QED
    BY <1>2, <2>1 DEF Shows, Settings!Seen
<1>6. cleared \in BOOLEAN
  BY DEF Settings!TypeOK
<1> QED
  BY <1>1, <1>2, <1>3, <1>4, <1>5, <1>6 DEF PagesDo, Typing

LEMMA ChoicePicked ==
  ASSUME Settings!ConstantsTyped, Settings!TypeOK, NEW c \in 0..MaxChoice, Settings!Pick(c),
         page # "branding", page # "account" \/ c # 3
  PROVE  PagesDo
<1>1. /\ fields \in Settings!Group /\ typed \in Settings!Group /\ moves \in Nat
      /\ local \in 0..MaxChoice /\ drawer \in Settings!Drawers /\ closing \in BOOLEAN
  BY DEF Settings!TypeOK
<1>2. /\ fields' = [fields EXCEPT !.choice = c] /\ typed' = [typed EXCEPT !.choice = c]
      /\ moves < SettingMoves /\ moves' = moves + 1
      /\ local' = local /\ drawer' = drawer /\ closing' = closing
      /\ UNCHANGED <<stored, files, fresh, wanted, cleared, page, loading, flight, heard, patient>>
  BY DEF Settings!Pick, Settings!Edits, Settings!Acts, Settings!server
<1>3. fields' \in Settings!Group /\ typed' \in Settings!Group
  BY <1>1, <1>2, GroupEdited
<1>4. moves' \in 0..SettingMoves
  BY <1>1, <1>2 DEF Settings!ConstantsTyped
<1>5. Shows => Shows'
  <2>1. Settings!Seen(typed') = [Settings!Seen(typed) EXCEPT !.choice = c]
    BY <1>1, <1>2, SeenEdited
  <2> QED
    BY <1>2, <2>1 DEF Shows, Settings!Seen
<1>6. cleared \in BOOLEAN
  BY DEF Settings!TypeOK
<1> QED
  BY <1>1, <1>2, <1>3, <1>4, <1>5, <1>6 DEF PagesDo, Typing

\* A password that is emptied again.
LEMMA PasswordCleared ==
  ASSUME Settings!ConstantsTyped, Settings!TypeOK, Settings!ClearPassword,
         page = "responder"
  PROVE  PagesDo
<1>1. /\ fields \in Settings!Group /\ typed \in Settings!Group /\ moves \in Nat
      /\ local \in 0..MaxChoice /\ drawer \in Settings!Drawers /\ closing \in BOOLEAN
      /\ 0 \in 0..MaxChoice
  BY DEF Settings!TypeOK, Settings!ConstantsTyped
<1>2. /\ fields' = fields /\ typed' = [typed EXCEPT !.choice = 0] /\ cleared' = TRUE
      /\ moves < SettingMoves /\ moves' = moves + 1
      /\ local' = local /\ drawer' = drawer /\ closing' = closing
      /\ UNCHANGED <<stored, files, fresh, wanted, page, loading, flight, heard, patient>>
  BY DEF Settings!ClearPassword, Settings!Acts
<1>3. typed' \in Settings!Group
  BY <1>1, <1>2, GroupEdited
<1>4. moves' \in 0..SettingMoves
  BY <1>1, <1>2 DEF Settings!ConstantsTyped
<1> QED
  BY <1>1, <1>2, <1>3, <1>4 DEF PagesDo, Typing

LEMMA GroupSent ==
  ASSUME Settings!ConstantsTyped, Settings!TypeOK,
         NEW f \in Settings!Group, NEW t \in Settings!Group, Settings!Saves(f, t),
         Shows => f = Settings!Seen(t), page = "branding" => f = fields
  PROVE  PagesDo
<1>1. moves \in Nat
  BY DEF Settings!TypeOK
<1>2. /\ Len(flight) < MaxFlight /\ (patient => flight = <<>> /\ ~loading)
      /\ flight' = Append(flight, [kind |-> "save", body |-> f, put |-> t, step |-> "sent",
                                   alive |-> TRUE])
      /\ fields' = f /\ typed' = t /\ moves < SettingMoves /\ moves' = moves + 1
      /\ UNCHANGED <<stored, files, fresh, wanted, cleared, page, loading, drawer, local, closing,
                     heard, patient>>
  BY DEF Settings!Saves, Settings!Clicks, Settings!Acts, Settings!Shown, Settings!Send,
         Settings!server
<1>3. moves' \in 0..SettingMoves
  BY <1>1, <1>2 DEF Settings!ConstantsTyped
<1>4. Shows => Shows'
  BY <1>2 DEF Shows, Settings!Seen
<1>5. Sending("save", f, t)
  BY <1>2, <1>3, <1>4 DEF Sending
<1> QED
  BY <1>5 DEF PagesDo

LEMMA Submitted ==
  ASSUME Settings!ConstantsTyped, Settings!TypeOK, NEW v, Settings!Submit(v)
  PROVE  PagesDo
<1>1. fields \in Settings!Group /\ typed \in Settings!Group
  BY DEF Settings!TypeOK
<1>2. Settings!Saves(fields, typed)
  BY DEF Settings!Submit
<1>3. Shows => fields = Settings!Seen(typed)
  BY DEF Shows
<1> QED
  BY <1>1, <1>2, <1>3, GroupSent

LEMMA PickSubmitted ==
  ASSUME Settings!ConstantsTyped, Settings!TypeOK, NEW c \in 0..MaxChoice,
         page \notin {"branding", "account"},
         Settings!Saves([fields EXCEPT !.choice = c], [typed EXCEPT !.choice = c])
  PROVE  PagesDo
<1>1. fields \in Settings!Group /\ typed \in Settings!Group
  BY DEF Settings!TypeOK
<1>2. [fields EXCEPT !.choice = c] \in Settings!Group
  BY <1>1, GroupEdited
<1>3. [typed EXCEPT !.choice = c] \in Settings!Group
  BY <1>1, GroupEdited
<1>4. Shows => [fields EXCEPT !.choice = c] = Settings!Seen([typed EXCEPT !.choice = c])
  BY <1>1, SeenEdited DEF Shows
<1> QED
  BY <1>2, <1>3, <1>4, GroupSent

LEMMA OtherSent ==
  ASSUME Settings!ConstantsTyped, Settings!TypeOK, Settings!Clicks,
         NEW k \in {"password", "upload", "remove"}, NEW p \in Settings!Group,
         Settings!Send(k, fields, p), page = IF k = "password" THEN "auth" ELSE "branding",
         UNCHANGED <<stored, files, fresh, wanted, cleared, page, fields, typed, loading, drawer,
                     local, closing, heard, patient>>
  PROVE  PagesDo
<1>1. moves \in Nat /\ fields \in Settings!Group /\ typed \in Settings!Group
  BY DEF Settings!TypeOK
<1>2. /\ Len(flight) < MaxFlight /\ (patient => flight = <<>> /\ ~loading)
      /\ flight' = Append(flight, [kind |-> k, body |-> fields, put |-> p, step |-> "sent",
                                   alive |-> TRUE])
      /\ moves < SettingMoves /\ moves' = moves + 1
  BY DEF Settings!Clicks, Settings!Acts, Settings!Shown, Settings!Send
<1>3. moves' \in 0..SettingMoves
  BY <1>1, <1>2 DEF Settings!ConstantsTyped
<1>4. Sending(k, fields, p)
  BY <1>1, <1>2, <1>3 DEF Sending, Shows, Settings!Seen
<1> QED
  BY <1>4 DEF PagesDo

LEMMA DrawerMoved ==
  ASSUME Settings!ConstantsTyped, Settings!TypeOK,
         \/ \E d \in Settings!Drawers : Settings!OpenDrawer(d)
         \/ Settings!CloseDrawer \/ Settings!ResetDrawer
         \/ \E c \in 0..MaxChoice : Settings!PickFormat(c)
  PROVE  PagesDo
<1>1. /\ fields \in Settings!Group /\ typed \in Settings!Group /\ moves \in 0..SettingMoves
      /\ local \in 0..MaxChoice /\ drawer \in Settings!Drawers /\ closing \in BOOLEAN
      /\ SettingMoves \in Nat /\ moves \in Nat
  BY DEF Settings!TypeOK, Settings!ConstantsTyped
<1> DEFINE
      Done == /\ UNCHANGED <<stored, files, fresh, wanted, cleared, page, loading, flight, heard,
                             patient, fields, typed>>
              /\ (moves < SettingMoves /\ moves' = moves + 1) \/ moves' = moves
              /\ local' \in 0..MaxChoice /\ drawer' \in Settings!Drawers
              /\ closing' \in BOOLEAN
<1>2. Done
  <2>1. ASSUME NEW d \in Settings!Drawers, Settings!OpenDrawer(d) PROVE Done
    BY <1>1, <2>1 DEF Settings!OpenDrawer, Settings!Acts, Settings!server
  <2>2. CASE Settings!CloseDrawer
    BY <1>1, <2>2 DEF Settings!CloseDrawer, Settings!Acts, Settings!server, Settings!Drawers
  <2>3. CASE Settings!ResetDrawer
    BY <1>1, <2>3 DEF Settings!ResetDrawer, Settings!server, Settings!Drawers
  <2>4. ASSUME NEW c \in 0..MaxChoice, Settings!PickFormat(c) PROVE Done
    BY <1>1, <2>4 DEF Settings!PickFormat, Settings!Edits, Settings!Acts, Settings!server
  <2> QED
    BY <2>1, <2>2, <2>3, <2>4
<1>3. moves' \in 0..SettingMoves
  BY <1>1, <1>2
<1>4. (Shows => Shows') /\ cleared \in BOOLEAN
  BY <1>2 DEF Shows, Settings!Seen, Settings!TypeOK
<1> QED
  BY <1>1, <1>2, <1>3, <1>4 DEF PagesDo, Typing

Page ==
  \/ Settings!MainPage \/ Settings!BrandingPage \/ Settings!PaymentPage
  \/ Settings!MailPage \/ Settings!LetterDrawer \/ Settings!AccountPage
  \/ Settings!AuthPage \/ Settings!SellerInfoPage \/ Settings!SocialPage
  \/ Settings!WebhookPage \/ Settings!ResponderPage

LEMMA PagesStep ==
  ASSUME Settings!ConstantsTyped, Settings!TypeOK, Page \/ Settings!ResetDrawer
  PROVE  PagesDo
<1>1. /\ fields \in Settings!Group /\ typed \in Settings!Group /\ local \in 0..MaxChoice
      /\ MaxChoice \in Nat /\ 3 <= MaxChoice
      /\ \A c \in {0, 1, 2, 3} : c \in 0..MaxChoice
  BY DEF Settings!TypeOK, Settings!ConstantsTyped
<1>2. CASE Settings!ResetDrawer
  BY <1>2, DrawerMoved
<1>3. CASE Settings!TypeWords \/ \E v : Settings!Submit(v)
  BY <1>3, WordsTyped, Submitted
<1>4. ASSUME page # "branding", NEW c \in {0, 1, 2, 3}, page # "account" \/ c # 3,
             Settings!Pick(c)
      PROVE  PagesDo
  BY <1>1, <1>4, ChoicePicked
<1>5. CASE Settings!MainPage
  <2>1. ASSUME NEW c \in {1, 2}, Settings!SwitchDateFormat(c) PROVE PagesDo
    BY <1>1, <1>5, <2>1, PickSubmitted DEF Settings!MainPage, Settings!SwitchDateFormat
  <2> QED
    BY <1>3, <1>5, <2>1 DEF Settings!MainPage
<1>6. CASE Settings!BrandingPage
  <2>1. ASSUME NEW k \in {"upload", "remove"}, Settings!Clicks,
               Settings!Send(k, fields, typed),
               UNCHANGED <<stored, files, fresh, wanted, cleared, page, fields, typed, loading,
                           drawer, local, closing, heard, patient>>
        PROVE  PagesDo
    BY <1>1, <1>6, <2>1, OtherSent DEF Settings!BrandingPage
  <2> QED
    BY <1>3, <1>6, <2>1 DEF Settings!BrandingPage, Settings!server
<1>7. CASE Settings!PaymentPage
  <2>1. ASSUME Settings!SubmitFormat PROVE PagesDo
    BY <1>1, <1>7, <2>1, PickSubmitted DEF Settings!PaymentPage, Settings!SubmitFormat
  <2>2. CASE Settings!CurrencyForm
    BY <1>3, <2>2 DEF Settings!CurrencyForm
  <2>3. CASE Settings!CloseDrawer \/ \E d \in Settings!Drawers \ {"none"} : Settings!OpenDrawer(d)
    BY <2>3, DrawerMoved
  <2>4. CASE Settings!Submit(TRUE) \/ \E c \in {2, 3} : Settings!Pick(c)
    BY <1>3, <1>4, <1>7, <2>4 DEF Settings!PaymentPage
  <2>5. ASSUME NEW c \in {2, 3}, Settings!PickFormat(c) PROVE PagesDo
    BY <1>1, <2>5, DrawerMoved
  <2> QED
    BY <1>7, <2>1, <2>2, <2>3, <2>4, <2>5 DEF Settings!PaymentPage
<1>8. CASE Settings!MailPage \/ Settings!LetterDrawer \/ Settings!SocialPage
           \/ Settings!WebhookPage
  BY <1>3, <1>8 DEF Settings!MailPage, Settings!LetterDrawer, Settings!SocialPage,
     Settings!WebhookPage
<1>9. CASE Settings!AccountPage
  <2>1. ASSUME NEW c \in {1, 2}, Settings!Pick(c) PROVE PagesDo
    <3>1. page # "branding" /\ c \in {0, 1, 2, 3} /\ c # 3
      BY <1>9 DEF Settings!AccountPage
    <3> QED
      BY <1>4, <2>1, <3>1
  <2> QED
    BY <1>3, <1>9, <2>1 DEF Settings!AccountPage
<1>10. CASE Settings!AuthPage
  <2>1. ASSUME NEW old \in {1, 2}, Settings!Clicks,
               Settings!Send("password", fields, [typed EXCEPT !.choice = old]),
               UNCHANGED <<stored, files, fresh, wanted, cleared, page, fields, typed, loading,
                           drawer, local, closing, heard, patient>>
        PROVE  PagesDo
    <3>1. [typed EXCEPT !.choice = old] \in Settings!Group
      BY <1>1, GroupEdited
    <3> QED
      BY <1>1, <1>10, <2>1, <3>1, OtherSent DEF Settings!AuthPage
  <2> QED
    BY <1>3, <1>4, <1>10, <2>1 DEF Settings!AuthPage, Settings!server
<1>11. CASE Settings!SellerInfoPage
  BY <1>3, <1>4, <1>11 DEF Settings!SellerInfoPage
<1>12. CASE Settings!ResponderPage
  BY <1>3, <1>4, <1>12, PasswordCleared DEF Settings!ResponderPage
<1> QED
  BY <1>2, <1>5, <1>6, <1>7, <1>8, <1>9, <1>10, <1>11, <1>12 DEF Page

\* The requests on their way, with one of them changed or gone.
LEMMA RequestKept ==
  ASSUME Settings!TypeOK, Settings!ConstantsTyped, NEW i \in DOMAIN flight
  PROVE  /\ flight[i] \in Settings!Requests /\ Len(flight) \in Nat
         /\ Len(flight) <= MaxFlight
         /\ \A x \in Settings!Requests : Settings!With(i, x) =>
              /\ flight' \in Seq(Settings!Requests) /\ Len(flight') = Len(flight)
              /\ DOMAIN flight' = DOMAIN flight /\ flight'[i] = x
              /\ \A j \in DOMAIN flight \ {i} : flight'[j] = flight[j]
         /\ flight' = Settings!RemoveAt(flight, i) =>
              flight' \in Seq(Settings!Requests) /\ Len(flight') = Len(flight) - 1
<1>1. flight \in Seq(Settings!Requests) /\ Len(flight) <= MaxFlight
  BY DEF Settings!TypeOK
<1>2. flight[i] \in Settings!Requests /\ Len(flight) \in Nat
  BY <1>1
<1>3. ASSUME NEW x \in Settings!Requests, Settings!With(i, x)
      PROVE  /\ flight' \in Seq(Settings!Requests) /\ Len(flight') = Len(flight)
             /\ DOMAIN flight' = DOMAIN flight /\ flight'[i] = x
             /\ \A j \in DOMAIN flight \ {i} : flight'[j] = flight[j]
  BY <1>1, <1>3, ChangedAt DEF Settings!With
<1>4. ASSUME flight' = Settings!RemoveAt(flight, i)
      PROVE  flight' \in Seq(Settings!Requests) /\ Len(flight') = Len(flight) - 1
  BY <1>1, <1>4, CutFrom DEF Settings!RemoveAt, Cut
<1> QED
  BY <1>1, <1>2, <1>3, <1>4

LEMMA RequestEdited ==
  ASSUME NEW r \in Settings!Requests
  PROVE  /\ [r EXCEPT !.step = "answered"] \in Settings!Requests
         /\ \A b \in Settings!Group :
              /\ [r EXCEPT !.step = "read", !.body = b] \in Settings!Requests
              /\ [r EXCEPT !.step = "answered", !.put = b] \in Settings!Requests
         /\ [r EXCEPT !.alive = FALSE] \in Settings!Requests
         /\ r.body \in Settings!Group /\ r.put \in Settings!Group
         /\ r.kind \in {"save", "password", "upload", "remove"} /\ r.alive \in BOOLEAN
         /\ r.step \in {"sent", "read", "answered"}
  BY DEF Settings!Requests

\* What the server has after a save, a new password or a new mark.
LEMMA GroupStored ==
  ASSUME Settings!ConstantsTyped, Settings!TypeOK, NEW i \in DOMAIN flight,
         Settings!UpdateSetting(i)
  PROVE  /\ stored' \in Settings!Group /\ wanted' \in Settings!Group
         /\ stored'.words = flight[i].body.words /\ wanted'.words = flight[i].put.words
         /\ ~Settings!Secret =>
              stored'.choice = flight[i].body.choice /\ wanted'.choice = flight[i].put.choice
         /\ flight[i].body = Settings!Seen(flight[i].put) /\ Saved => Saved'
<1> DEFINE b == flight[i].body
           p == flight[i].put
           hidden(g) == Settings!Secret /\ ~Settings!Chosen(g)
           w1 == [p EXCEPT !.rest = "old"]
<1>1. b \in Settings!Group /\ p \in Settings!Group /\ stored \in Settings!Group
      /\ wanted \in Settings!Group
  BY RequestKept, RequestEdited DEF Settings!TypeOK
<1>2. stored.choice \in 0..MaxChoice /\ p.choice \in 0..MaxChoice
      /\ wanted.choice \in 0..MaxChoice
  BY <1>1 DEF Settings!Group
<1>3. /\ Settings!Unmasked(b) \in Settings!Group /\ Settings!Unmasked(b).words = b.words
      /\ Settings!Unmasked(b).choice = IF hidden(b) THEN stored.choice ELSE b.choice
  <2>1. CASE hidden(b)
    BY <1>1, <1>2, <2>1, GroupEdited DEF Settings!Unmasked, Settings!Kept
  <2>2. CASE ~hidden(b)
    BY <1>1, <2>2 DEF Settings!Unmasked
  <2> QED
    BY <2>1, <2>2
<1>4. /\ stored' \in Settings!Group /\ stored'.words = b.words
      /\ stored'.choice = IF hidden(b) THEN stored.choice ELSE b.choice
  <2>1. stored' = Settings!Rest(Settings!Unmasked(b))
    BY DEF Settings!UpdateSetting
  <2> HIDE DEF hidden
  <2>2. CASE page = "mail"
    <3> DEFINE u == Settings!Unmasked(b)
    <3>1. stored' = [u EXCEPT !.rest = "none"]
      BY <2>1, <2>2 DEF Settings!Rest
    <3>2. u \in Settings!Group /\ u.words = b.words
          /\ u.choice = IF hidden(b) THEN stored.choice ELSE b.choice
      BY <1>3
    <3> HIDE DEF u
    <3> QED
      BY <3>1, <3>2, GroupEdited
  <2>3. CASE page # "mail"
    BY <1>3, <2>1, <2>3 DEF Settings!Rest
  <2> QED
    BY <2>2, <2>3
<1>5. w1 \in Settings!Group /\ w1.words = p.words /\ w1.choice = p.choice
  BY <1>1, GroupEdited
<1>6. wanted' = [w1 EXCEPT !.choice = IF hidden(p) THEN wanted.choice ELSE w1.choice]
  BY <1>1 DEF Settings!UpdateSetting, Settings!Group
<1>7. /\ wanted' \in Settings!Group /\ wanted'.words = p.words
      /\ wanted'.choice = IF hidden(p) THEN wanted.choice ELSE p.choice
  <2> DEFINE c == IF hidden(p) THEN wanted.choice ELSE w1.choice
  <2>1. c \in 0..MaxChoice /\ c = IF hidden(p) THEN wanted.choice ELSE p.choice
    BY <1>2, <1>5
  <2> HIDE DEF c, w1
  <2>2. wanted' = [w1 EXCEPT !.choice = c]
    BY <1>6 DEF c
  <2> QED
    BY <1>5, <2>1, <2>2, GroupEdited
<1>8. page' = page
  BY DEF Settings!UpdateSetting, Settings!screen
<1>9. ASSUME b = Settings!Seen(p), Saved PROVE Saved'
  <2>1. /\ b.words = p.words /\ (page # "account" => b = p)
        /\ \/ b.choice = p.choice
           \/ page = "account" /\ b.choice = Settings!InDays(p.choice)
    BY <1>1, <1>9, SeenGroup
  <2> HIDE DEF b, p
  <2>2. CASE page = "account"
    <3>1. ~hidden(b) /\ ~hidden(p)
      BY <2>2 DEF Settings!Secret
    <3> HIDE DEF hidden
    <3> QED
      BY <1>4, <1>7, <1>8, <2>1, <2>2, <3>1 DEF Saved, Settings!InDays
  <2>3. CASE page # "account"
    <3>1. hidden(b) <=> hidden(p)
      BY <2>1, <2>3
    <3> HIDE DEF hidden
    <3> QED
      BY <1>4, <1>7, <1>8, <1>9, <2>1, <2>3, <3>1 DEF Saved
  <2> QED
    BY <2>2, <2>3
<1> HIDE DEF b, p
<1> QED
  BY <1>4, <1>7, <1>9, SMTT(30) DEF b, p

\* A form that is left or forgets its password, and its mark.
LEMMA FormForgotten ==
  ASSUME Settings!ConstantsTyped, NEW f \in Settings!Group, NEW r
  PROVE  /\ Settings!Forgotten(f, r) \in Settings!Group
         /\ page = "branding" => Settings!Forgotten(f, r) = f
<1>1. 0 \in 0..MaxChoice
  BY DEF Settings!ConstantsTyped
<1>2. [f EXCEPT !.choice = 0] \in Settings!Group
  BY <1>1, GroupEdited
<1> QED
  BY <1>2 DEF Settings!Forgotten

LEMMA SettingsTypeInit ==
  ASSUME Settings!ConstantsTyped, Settings!Init
  PROVE  Settings!TypeOK
<1>1. MaxChoice \in Nat /\ 3 <= MaxChoice /\ SettingMoves \in Nat /\ MaxFlight \in Nat
  BY DEF Settings!ConstantsTyped
<1>2. 0 \in 0..MaxChoice /\ 1 \in 0..MaxChoice /\ 2 \in 2..MaxChoice + 1 /\ 0 \in 0..SettingMoves
      /\ {1} \subseteq 1..MaxChoice
  BY <1>1
<1>3. stored \in Settings!Group /\ fields \in Settings!Group
  <2>1. PICK c \in {1, 3} : stored = [words |-> "old", choice |-> c, rest |-> "old"]
    BY DEF Settings!Init
  <2>2. c \in 0..MaxChoice
    BY <1>1
  <2> QED
    BY <1>2, <2>1, <2>2 DEF Settings!Init, Settings!Group, Settings!Words, Settings!Blank
<1>4. flight \in Seq(Settings!Requests) /\ Len(flight) <= MaxFlight
  BY <1>1 DEF Settings!Init
<1> QED
  BY <1>2, <1>3, <1>4 DEF Settings!Init, Settings!TypeOK, Settings!Drawers

\* What every step of the pages keeps the type of.
ScreenTyped ==
  /\ page \in Settings!Pages
  /\ fields \in Settings!Group /\ typed \in Settings!Group /\ loading \in BOOLEAN
  /\ drawer \in Settings!Drawers /\ local \in 0..MaxChoice /\ closing \in BOOLEAN
  /\ heard \in BOOLEAN /\ patient \in BOOLEAN /\ moves \in 0..SettingMoves
ServerTyped ==
  /\ stored \in Settings!Group /\ files \subseteq 1..MaxChoice
  /\ wanted \in Settings!Group /\ fresh \in 2..MaxChoice + 1 /\ cleared \in BOOLEAN
FlightTyped == flight \in Seq(Settings!Requests) /\ Len(flight) <= MaxFlight
LEMMA SettingsTypes == Settings!TypeOK <=> ScreenTyped /\ ServerTyped /\ FlightTyped
  BY DEF Settings!TypeOK, ScreenTyped, ServerTyped, FlightTyped
LEMMA SettingsTypesNext == Settings!TypeOK' <=> ScreenTyped' /\ ServerTyped' /\ FlightTyped'
  BY DEF Settings!TypeOK, ScreenTyped, ServerTyped, FlightTyped

LEMMA LoadTyped ==
  ASSUME Settings!ConstantsTyped, Settings!TypeOK, NEW ok \in BOOLEAN,
         Settings!LoadSettings(ok)
  PROVE  /\ Settings!TypeOK'
         /\ page # "branding" \/ ~ok \/ fields'.choice = stored.choice
         /\ ok => Shows'
<1> DEFINE g == IF Settings!Secret THEN [stored EXCEPT !.choice = fields.choice] ELSE stored
<1>1. stored \in Settings!Group /\ fields \in Settings!Group
  BY DEF Settings!TypeOK
<1>2. g \in Settings!Group
  <2>1. fields.choice \in 0..MaxChoice
    BY <1>1 DEF Settings!Group
  <2>2. [stored EXCEPT !.choice = fields.choice] \in Settings!Group
    BY <1>1, <2>1, GroupEdited
  <2> QED
    BY <1>1, <2>2
<1>3. page = "branding" => g = stored
  BY DEF Settings!Secret
<1>4. /\ fields' = (IF ok THEN Settings!Seen(g) ELSE fields) /\ typed' = g
      /\ local' = fields'.choice
      /\ loading' = FALSE /\ heard' = (heard /\ ok)
      /\ UNCHANGED <<stored, files, fresh, wanted, cleared, page, drawer, closing, flight, patient,
                     moves>>
  BY DEF Settings!LoadSettings, Settings!server
<1> HIDE DEF g
<1>5. fields' \in Settings!Group /\ typed' \in Settings!Group
  BY <1>1, <1>2, <1>4, SeenGroup
<1>6. local' \in 0..MaxChoice /\ heard' \in BOOLEAN
  BY <1>4, <1>5 DEF Settings!Group, Settings!TypeOK
<1>7. ScreenTyped'
  BY <1>4, <1>5, <1>6, SettingsTypes DEF ScreenTyped
<1>8. ServerTyped' /\ FlightTyped'
  BY <1>4, SettingsTypes DEF ServerTyped, FlightTyped
<1>9. Settings!TypeOK'
  BY <1>7, <1>8, SettingsTypesNext
<1>10. ok => Shows'
  BY <1>4 DEF Shows, Settings!Seen
<1>11. page = "branding" => Settings!Seen(g) = stored
  BY <1>2, <1>3, SeenGroup
<1> QED
  BY <1>4, <1>9, <1>10, <1>11

LEMMA LeaveTyped ==
  ASSUME Settings!ConstantsTyped, Settings!TypeOK, Settings!Leave
  PROVE  Settings!TypeOK' /\ (flight = <<>> => flight' = <<>>)
<1>1. /\ moves < SettingMoves /\ moves' = moves + 1 /\ loading' = TRUE
      /\ fields' = Settings!Blank /\ drawer' = "none" /\ local' = 0 /\ closing' = FALSE
      /\ flight' = [i \in DOMAIN flight |-> [flight[i] EXCEPT !.alive = FALSE]]
      /\ UNCHANGED <<stored, files, fresh, wanted, cleared, page, typed, heard, patient>>
  BY DEF Settings!Leave, Settings!Clicks, Settings!Acts, Settings!server
<1>2. moves \in Nat /\ SettingMoves \in Nat /\ MaxChoice \in Nat
  BY DEF Settings!TypeOK, Settings!ConstantsTyped
<1>3. moves' \in 0..SettingMoves /\ 0 \in 0..MaxChoice
  BY <1>1, <1>2
<1>4. Settings!Blank \in Settings!Group /\ "none" \in Settings!Drawers
  BY <1>3 DEF Settings!Blank, Settings!Group, Settings!Words, Settings!Drawers
<1>5. ScreenTyped'
  BY <1>1, <1>3, <1>4, SettingsTypes DEF ScreenTyped
<1>6. ServerTyped'
  BY <1>1, SettingsTypes DEF ServerTyped
<1>7. flight' \in Seq(Settings!Requests) /\ Len(flight') = Len(flight)
  <2>1. Len(flight) \in Nat /\ DOMAIN flight = 1..Len(flight)
    BY SMTT(30) DEF Settings!TypeOK
  <2>2. \A i \in DOMAIN flight : [flight[i] EXCEPT !.alive = FALSE] \in Settings!Requests
    BY RequestKept, RequestEdited
  <2>3. flight' \in [1..Len(flight) -> Settings!Requests]
    BY <1>1, <2>1, <2>2
  <2> QED
    BY <2>1, <2>3, MadeBySteps
<1>8. FlightTyped'
  BY <1>7, SettingsTypes DEF FlightTyped
<1>9. flight = <<>> => flight' = <<>>
  <2>1. ASSUME flight = <<>> PROVE flight' = <<>>
    <3>1. Len(flight') = 0
      BY <1>7, <2>1
    <3> QED
      BY <1>7, <3>1
  <2> QED
    BY <2>1
<1> QED
  BY <1>5, <1>6, <1>8, <1>9, SettingsTypesNext

LEMMA PagesTyped ==
  ASSUME Settings!ConstantsTyped, Settings!TypeOK, PagesDo
  PROVE  Settings!TypeOK'
<1>1. CASE Typing
  <2>1. ScreenTyped' /\ ServerTyped' /\ FlightTyped'
    BY <1>1, SettingsTypes DEF Typing, ScreenTyped, ServerTyped, FlightTyped
  <2> QED
    BY <2>1, SettingsTypesNext
<1>2. ASSUME NEW k, NEW b, NEW p, Sending(k, b, p) PROVE Settings!TypeOK'
  <2>1. ScreenTyped' /\ ServerTyped'
    BY <1>2, SettingsTypes DEF Sending, ScreenTyped, ServerTyped
  <2> DEFINE r == [kind |-> k, body |-> b, put |-> p, step |-> "sent", alive |-> TRUE]
  <2>2. r \in Settings!Requests /\ flight' = Append(flight, r) /\ Len(flight) < MaxFlight
    BY <1>2 DEF Sending, Settings!Requests
  <2>3. flight \in Seq(Settings!Requests) /\ MaxFlight \in Nat
    BY DEF Settings!TypeOK, Settings!ConstantsTyped
  <2> HIDE DEF r
  <2>4. flight' \in Seq(Settings!Requests) /\ Len(flight') = Len(flight) + 1
        /\ Len(flight) \in Nat
    BY <2>2, <2>3, AddedTo
  <2>5. FlightTyped'
    BY <2>2, <2>3, <2>4 DEF FlightTyped
  <2> QED
    BY <2>1, <2>5, SettingsTypesNext
<1> QED
  BY <1>1, <1>2 DEF PagesDo

\* A mark is written: what the group, the files and the request are then.
LEMMA MarkWritten ==
  ASSUME Settings!ConstantsTyped, Settings!TypeOK, NEW i \in DOMAIN flight,
         Settings!WriteBranding(i)
  PROVE  /\ ServerTyped' /\ stored'.words = flight[i].body.words
         /\ wanted'.words = wanted.words /\ stored'.choice = wanted'.choice
         /\ stored'.choice \in files' \cup {0} /\ UNCHANGED <<Settings!screen, cleared>>
         /\ flight[i].kind \in {"upload", "remove"} /\ flight[i].step = "read"
         /\ Settings!With(i, [flight[i] EXCEPT !.step = "answered", !.put = stored'])
<1> DEFINE name == IF flight[i].kind = "upload" THEN fresh ELSE 0
           b == flight[i].body
<1>1. /\ b \in Settings!Group /\ wanted \in Settings!Group /\ files \subseteq 1..MaxChoice
      /\ fresh \in 2..MaxChoice + 1 /\ MaxChoice \in Nat
  BY RequestKept, RequestEdited DEF Settings!TypeOK, Settings!ConstantsTyped
<1>2. /\ name <= MaxChoice
      /\ stored' = [b EXCEPT !.choice = name]
      /\ files' = ((files \ {b.choice}) \cup {name}) \ {0}
      /\ fresh' = fresh + (IF flight[i].kind = "upload" THEN 1 ELSE 0)
      /\ wanted' = [wanted EXCEPT !.choice = name]
      /\ flight[i].kind \in {"upload", "remove"} /\ flight[i].step = "read"
      /\ Settings!With(i, [flight[i] EXCEPT !.step = "answered", !.put = stored'])
      /\ UNCHANGED Settings!screen /\ cleared' = cleared
  BY DEF Settings!WriteBranding, Settings!At
<1>3. name \in 0..MaxChoice
  BY <1>1, <1>2
<1>4. fresh' \in 2..MaxChoice + 1
  <2>1. CASE flight[i].kind = "upload"
    BY <1>1, <1>2, <2>1
  <2>2. CASE flight[i].kind # "upload"
    BY <1>1, <1>2, <2>2
  <2> QED
    BY <2>1, <2>2
<1> HIDE DEF name, b
<1>5. files' \subseteq 1..MaxChoice /\ name \in files' \cup {0}
  BY <1>1, <1>2, <1>3
<1>6. /\ stored' \in Settings!Group /\ stored'.choice = name /\ stored'.words = b.words
      /\ wanted' \in Settings!Group /\ wanted'.choice = name
      /\ wanted'.words = wanted.words
  BY <1>1, <1>2, <1>3, GroupEdited
<1> QED
  BY <1>2, <1>4, <1>5, <1>6, SMTT(30) DEF ServerTyped, b, Settings!TypeOK

LEMMA PasswordWritten ==
  ASSUME Settings!ConstantsTyped, Settings!TypeOK, NEW i \in DOMAIN flight,
         Settings!UpdatePassword(i)
  PROVE  /\ ServerTyped' /\ stored'.words = stored.words /\ wanted'.words = wanted.words
         /\ stored'.choice = wanted'.choice /\ flight[i].kind = "password"
         /\ Settings!With(i, [flight[i] EXCEPT !.step = "answered"])
         /\ UNCHANGED <<Settings!screen, cleared>>
<1> DEFINE c == flight[i].body.choice
<1>1. /\ stored \in Settings!Group /\ wanted \in Settings!Group /\ ServerTyped
      /\ c \in 0..MaxChoice
  BY RequestKept, RequestEdited, SettingsTypes DEF Settings!TypeOK, Settings!Group
<1>2. /\ stored' = [stored EXCEPT !.choice = c] /\ wanted' = [wanted EXCEPT !.choice = c]
      /\ flight[i].kind = "password" /\ UNCHANGED <<files, fresh, cleared>>
      /\ Settings!With(i, [flight[i] EXCEPT !.step = "answered"])
      /\ UNCHANGED Settings!screen
  BY DEF Settings!UpdatePassword, Settings!At
<1> HIDE DEF c
<1>3. /\ stored' \in Settings!Group /\ stored'.choice = c /\ stored'.words = stored.words
      /\ wanted' \in Settings!Group /\ wanted'.choice = c /\ wanted'.words = wanted.words
  BY <1>1, <1>2, GroupEdited
<1> QED
  BY <1>1, <1>2, <1>3 DEF ServerTyped

LEMMA ScreenStays ==
  ASSUME ScreenTyped, UNCHANGED Settings!screen
  PROVE  ScreenTyped'
  BY DEF ScreenTyped, Settings!screen

LEMMA ServedTyped ==
  ASSUME Settings!ConstantsTyped, Settings!TypeOK, NEW i \in DOMAIN flight,
         \/ Settings!UpdateSetting(i) \/ Settings!UpdatePassword(i)
         \/ Settings!ReadBranding(i) \/ Settings!WriteBranding(i)
  PROVE  Settings!TypeOK'
<1>1. ScreenTyped /\ ServerTyped /\ FlightTyped /\ flight[i] \in Settings!Requests
  BY SettingsTypes, RequestKept
<1>2. ASSUME NEW x \in Settings!Requests, Settings!With(i, x) PROVE FlightTyped'
  <2>1. flight' \in Seq(Settings!Requests) /\ Len(flight') = Len(flight)
    BY <1>2, RequestKept, SMTT(30)
  <2> QED
    BY <1>1, <2>1 DEF FlightTyped
<1>3. CASE Settings!UpdateSetting(i)
  <2>1. /\ Settings!With(i, [flight[i] EXCEPT !.step = "answered"])
        /\ UNCHANGED Settings!screen /\ UNCHANGED <<files, fresh, cleared>>
    BY <1>3 DEF Settings!UpdateSetting
  <2>2. ServerTyped'
    BY <1>1, <1>3, <2>1, GroupStored, SMTT(30) DEF ServerTyped
  <2> QED
    BY <1>1, <1>2, <2>1, <2>2, RequestEdited, ScreenStays, SettingsTypesNext
<1>4. CASE Settings!UpdatePassword(i)
  BY <1>1, <1>2, <1>4, PasswordWritten, RequestEdited, ScreenStays, SettingsTypesNext
<1>5. CASE Settings!ReadBranding(i)
  <2>1. /\ Settings!With(i, [flight[i] EXCEPT !.step = "read", !.body = stored])
        /\ UNCHANGED Settings!screen /\ UNCHANGED <<stored, files, fresh, wanted, cleared>>
    BY <1>5 DEF Settings!ReadBranding, Settings!server
  <2>2. ServerTyped' /\ stored \in Settings!Group
    BY <1>1, <2>1, SMTT(30) DEF ServerTyped
  <2> QED
    BY <1>1, <1>2, <2>1, <2>2, RequestEdited, ScreenStays, SettingsTypesNext
<1>6. CASE Settings!WriteBranding(i)
  <2>1. stored' \in Settings!Group
    BY <1>6, MarkWritten DEF ServerTyped
  <2> QED
    BY <1>1, <1>2, <1>6, <2>1, MarkWritten, RequestEdited, ScreenStays, SettingsTypesNext
<1> QED
  BY <1>3, <1>4, <1>5, <1>6

\* An answer: what the form and the operator's copy are then.
LEMMA AnswerHeard ==
  ASSUME Settings!ConstantsTyped, Settings!TypeOK, NEW i \in DOMAIN flight,
         \/ Settings!Refuse(i) /\ heard' = FALSE
         \/ \E ok \in BOOLEAN : Settings!Answer(i, ok) /\ (heard' => ok)
  PROVE  /\ Settings!TypeOK' /\ flight' = Settings!RemoveAt(flight, i)
         /\ UNCHANGED <<stored, files, fresh, wanted, cleared, page, loading, patient>>
         /\ heard' =>
              /\ heard /\ flight[i].step = "answered"
              /\ flight[i].alive /\ Shows
                   /\ (flight[i].kind \in {"upload", "remove"} => page # "account") => Shows'
              /\ page = "branding" /\ flight[i].alive => fields'.choice =
                   IF flight[i].kind \in {"upload", "remove"} THEN flight[i].put.choice
                   ELSE fields.choice
<1> DEFINE r == flight[i]
           mark == r.kind \in {"upload", "remove"}
<1>1. /\ ScreenTyped /\ ServerTyped /\ FlightTyped /\ r \in Settings!Requests
      /\ fields \in Settings!Group /\ typed \in Settings!Group
  BY SettingsTypes, RequestKept DEF ScreenTyped
<1>2. r.put \in Settings!Group /\ r.put.choice \in 0..MaxChoice
  BY <1>1, RequestEdited DEF Settings!Group
<1> HIDE DEF r
<1>3. /\ flight' = Settings!RemoveAt(flight, i)
      /\ UNCHANGED <<stored, files, fresh, wanted, cleared, page, loading, drawer, local, closing,
                     patient, moves>>
  BY DEF Settings!Refuse, Settings!Answer, Settings!server
<1>4. FlightTyped'
  <2>1. flight' \in Seq(Settings!Requests) /\ Len(flight') = Len(flight) - 1
    BY <1>3, RequestKept
  <2>2. Len(flight) \in Nat /\ Len(flight) <= MaxFlight /\ MaxFlight \in Nat
    BY RequestKept DEF Settings!ConstantsTyped
  <2> QED
    BY <2>1, <2>2 DEF FlightTyped
<1> DEFINE f == [fields EXCEPT !.choice = r.put.choice]
           t == [typed EXCEPT !.choice = r.put.choice]
<1>5. /\ f \in Settings!Group /\ f.choice = r.put.choice /\ t \in Settings!Group
      /\ page # "account" /\ Shows => f = Settings!Seen(t)
  <2>1. /\ f \in Settings!Group /\ f.choice = r.put.choice /\ t \in Settings!Group
    BY <1>1, <1>2, GroupEdited
  <2>2. page # "account" /\ Shows => f = Settings!Seen(t)
    BY <1>1, SeenEdited DEF Shows
  <2> QED
    BY <2>1, <2>2
<1>6. /\ Settings!Forgotten(fields, r) \in Settings!Group
      /\ Settings!Forgotten(typed, r) \in Settings!Group
      /\ page = "branding" => Settings!Forgotten(fields, r) = fields
      /\ Shows => Settings!Forgotten(fields, r) = Settings!Seen(Settings!Forgotten(typed, r))
  <2>1. /\ Settings!Forgotten(fields, r) \in Settings!Group
        /\ Settings!Forgotten(typed, r) \in Settings!Group
        /\ page = "branding" => Settings!Forgotten(fields, r) = fields
    BY <1>1, FormForgotten
  <2>2. CASE page = "responder" /\ r.alive
    <3>1. Settings!Seen(typed) = typed
          /\ Settings!Seen(Settings!Forgotten(typed, r)) = Settings!Forgotten(typed, r)
      BY <1>1, <2>1, <2>2, SeenGroup
    <3> QED
      BY <2>1, <3>1 DEF Shows
  <2>3. CASE ~(page = "responder" /\ r.alive)
    BY <2>1, <2>3 DEF Shows, Settings!Forgotten
  <2> QED
    BY <2>1, <2>2, <2>3
<1> DEFINE
      Told == /\ fields' \in Settings!Group /\ typed' \in Settings!Group
              /\ heard' \in BOOLEAN
              /\ heard' =>
                   /\ heard /\ r.step = "answered"
                   /\ r.alive /\ Shows /\ (mark => page # "account") => Shows'
                   /\ page = "branding" /\ r.alive =>
                        fields'.choice = IF mark THEN r.put.choice ELSE fields.choice
<1>7. Told
  <2>1. ASSUME Settings!Refuse(i), heard' = FALSE PROVE Told
    BY <1>6, <2>1 DEF Settings!Refuse, r
  <2>2. ASSUME NEW ok \in BOOLEAN, Settings!Answer(i, ok), heard' => ok PROVE Told
    <3>1. /\ r.step = "answered" /\ heard' = (heard /\ ok)
          /\ fields' = (IF mark /\ r.alive /\ ok THEN f ELSE Settings!Forgotten(fields, r))
          /\ typed' = (IF mark /\ r.alive THEN t ELSE Settings!Forgotten(typed, r))
      BY <2>2 DEF Settings!Answer, Settings!ApplyMark, Settings!MarkOf, r
    <3>2. heard' \in BOOLEAN /\ (heard' => heard /\ ok)
      BY <3>1
    <3>3. fields' \in Settings!Group /\ typed' \in Settings!Group
      BY <1>5, <1>6, <3>1
    <3>4. ASSUME heard', r.alive, Shows, mark => page # "account" PROVE Shows'
      <4>1. fields' = Settings!Seen(typed')
        BY <1>5, <1>6, <3>1, <3>2, <3>4
      <4> QED
        BY <1>3, <4>1 DEF Shows, Settings!Seen
    <3>5. ASSUME heard', r.alive, page = "branding"
          PROVE  fields'.choice = IF mark THEN r.put.choice ELSE fields.choice
      BY <1>5, <1>6, <3>1, <3>2, <3>5
    <3> QED
      BY <3>1, <3>2, <3>3, <3>4, <3>5
  <2> QED
    BY <2>1, <2>2
<1>8. ScreenTyped'
  BY <1>1, <1>3, <1>7 DEF ScreenTyped
<1>9. ServerTyped'
  BY <1>1, <1>3 DEF ServerTyped
<1> QED
  BY <1>3, <1>4, <1>7, <1>8, <1>9, SettingsTypesNext DEF r

\* Every step of the settings pages.
SettingsMove ==
  \/ UNCHANGED Settings!vars
  \/ \E ok \in BOOLEAN : Settings!LoadSettings(ok)
  \/ Settings!Leave \/ PagesDo
  \/ \E i \in DOMAIN flight :
       \/ Settings!UpdateSetting(i) \/ Settings!UpdatePassword(i)
       \/ Settings!ReadBranding(i) \/ Settings!WriteBranding(i)
       \/ Settings!Refuse(i) \/ \E ok \in BOOLEAN : Settings!Answer(i, ok)

LEMMA SettingsMoves ==
  ASSUME Settings!ConstantsTyped, Settings!TypeOK, [Settings!Next]_(Settings!vars)
  PROVE  SettingsMove
<1>1. CASE Page \/ Settings!ResetDrawer
  BY <1>1, PagesStep DEF SettingsMove
<1>2. CASE UNCHANGED Settings!vars
  BY <1>2 DEF SettingsMove
<1>3. CASE Settings!Next
  BY <1>1, <1>3 DEF Settings!Next, Page, SettingsMove
<1> QED
  BY <1>2, <1>3

LEMMA SettingsTypeStep ==
  ASSUME Settings!ConstantsTyped, Settings!TypeOK, SettingsMove
  PROVE  Settings!TypeOK'
<1>1. CASE UNCHANGED Settings!vars
  BY <1>1 DEF Settings!TypeOK, Settings!vars, Settings!screen, Settings!server
<1>2. ASSUME NEW i \in DOMAIN flight,
             Settings!Refuse(i) \/ \E ok \in BOOLEAN : Settings!Answer(i, ok)
      PROVE  Settings!TypeOK'
  <2>1. Settings!Refuse(i) => heard' = FALSE
    BY DEF Settings!Refuse
  <2>2. \A ok \in BOOLEAN : Settings!Answer(i, ok) => (heard' => ok)
    BY DEF Settings!Answer
  <2> QED
    BY <1>2, <2>1, <2>2, AnswerHeard
<1> QED
  BY <1>1, <1>2, LoadTyped, LeaveTyped, PagesTyped, ServedTyped DEF SettingsMove

\* A patient operator's one request.
LEMMA OnlyRequest ==
  ASSUME Settings!ConstantsTyped, Settings!TypeOK, NEW i \in DOMAIN flight, Len(flight) <= 1
  PROVE  DOMAIN flight = {i} /\ flight # <<>> /\ i = 1
<1>1. Len(flight) \in Nat /\ DOMAIN flight = 1..Len(flight)
  BY DEF Settings!TypeOK
<1> QED
  BY <1>1

LEMMA SettingsKeptServed ==
  ASSUME Settings!ConstantsTyped, SettingsInv, NEW i \in DOMAIN flight,
         \/ Settings!UpdateSetting(i) \/ Settings!UpdatePassword(i)
         \/ Settings!ReadBranding(i) \/ Settings!WriteBranding(i)
  PROVE  SettingsKept'
<1> DEFINE r == flight[i]
<1>1. Settings!TypeOK /\ r \in Settings!Requests
  BY RequestKept DEF SettingsInv
<1>2. UNCHANGED <<Settings!screen, cleared>>
  BY <1>1, MarkWritten, PasswordWritten DEF Settings!UpdateSetting, Settings!ReadBranding,
     Settings!server
<1>3. UNCHANGED <<page, fields, loading, typed, heard, patient, cleared>> /\ (Shows => Shows')
  BY <1>2 DEF Settings!screen, Shows, Settings!Seen
<1> SUFFICES ASSUME patient, heard, ~cleared PROVE SettingsKept'
  BY <1>3 DEF SettingsKept
<1>4. /\ Saved /\ SettingsWait /\ SettingsSent(r)
      /\ page = "branding" => MarkIsKnown /\ MarkSent(r)
  BY DEF SettingsInv, SettingsKept, MarkIsKnown
<1>5. DOMAIN flight = {i} /\ flight # <<>> /\ ~loading /\ Shows
  BY <1>1, <1>4, OnlyRequest DEF SettingsWait
<1>6. ASSUME NEW x \in Settings!Requests, Settings!With(i, x), x.alive,
             x.kind = "password" => page = "auth",
             x.kind \in {"upload", "remove"} => page = "branding", x.step # "sent",
             x.step = "read" => x.body = stored', Saved',
             page = "branding" =>
               /\ stored'.choice \in files' \cup {0}
               /\ x.kind = "save" => fields.choice = stored'.choice
               /\ x.kind # "save" /\ x.step = "answered" => x.put.choice = stored'.choice
      PROVE  SettingsKept'
  <2>1. Len(flight') <= 1 /\ DOMAIN flight' = {i} /\ flight'[i] = x /\ flight' # <<>>
    <3>1. /\ Len(flight') = Len(flight) /\ DOMAIN flight' = DOMAIN flight
          /\ flight'[i] = x
      BY <1>1, <1>6, RequestKept
    <3>2. flight' # <<>>
      BY <1>5, <3>1
    <3> QED
      BY <1>4, <1>5, <3>1, <3>2 DEF SettingsWait
  <2>2. SettingsWait'
    BY <1>3, <1>5, <2>1 DEF SettingsWait
  <2>3. (\A j \in DOMAIN flight : SettingsSent(flight[j]))'
    BY <1>3, <1>6, <2>1 DEF SettingsSent
  <2>4. page' = "branding" => MarkIsKnown'
    BY <1>3, <1>6, <2>1 DEF MarkIsKnown, MarkSent
  <2> QED
    BY <1>6, <2>2, <2>3, <2>4 DEF SettingsKept
<1>7. CASE Settings!UpdateSetting(i)
  <2> DEFINE x == [r EXCEPT !.step = "answered"]
  <2>1. /\ r.kind = "save" /\ r.step = "sent" /\ Settings!With(i, x)
        /\ UNCHANGED files
    BY <1>7 DEF Settings!UpdateSetting, Settings!At
  <2>2. /\ x \in Settings!Requests /\ x.alive = r.alive /\ x.kind = r.kind
        /\ x.step = "answered"
    BY <1>1 DEF Settings!Requests
  <2>3. r.body = Settings!Seen(r.put) /\ r.alive
    BY <1>4, <2>1 DEF SettingsSent
  <2>4. Saved'
    BY <1>1, <1>4, <1>7, <2>3, GroupStored
  <2>5. page = "branding" => stored'.choice = stored.choice /\ fields.choice = stored.choice
                             /\ stored.choice \in files \cup {0}
    BY <1>1, <1>4, <1>7, <2>1, GroupStored DEF MarkSent, MarkIsKnown, Settings!Secret
  <2> HIDE DEF x
  <2> QED
    BY <1>6, <2>1, <2>2, <2>3, <2>4, <2>5
<1>8. CASE Settings!UpdatePassword(i)
  <2> DEFINE x == [r EXCEPT !.step = "answered"]
  <2>1. /\ x \in Settings!Requests /\ x.alive = r.alive /\ x.kind = r.kind
        /\ x.step = "answered"
    BY <1>1 DEF Settings!Requests
  <2>2. /\ r.kind = "password" /\ page = "auth" /\ r.alive /\ Settings!With(i, x)
        /\ Saved'
    BY <1>1, <1>4, <1>8, PasswordWritten DEF SettingsSent, Saved
  <2> HIDE DEF x
  <2> QED
    BY <1>6, <2>1, <2>2
<1>9. CASE Settings!ReadBranding(i)
  <2> DEFINE x == [r EXCEPT !.step = "read", !.body = stored]
  <2>1. /\ r.kind \in {"upload", "remove"} /\ Settings!With(i, x)
        /\ UNCHANGED <<stored, files, fresh, wanted, cleared>>
    BY <1>9 DEF Settings!ReadBranding, Settings!At, Settings!server
  <2>2. /\ x \in Settings!Requests /\ x.alive = r.alive /\ x.kind = r.kind
        /\ x.step = "read" /\ x.body = stored
    BY <1>1 DEF Settings!Requests, Settings!TypeOK
  <2>3. /\ r.alive /\ page = "branding" /\ stored.choice \in files \cup {0}
    BY <1>4, <2>1 DEF SettingsSent, MarkIsKnown
  <2>4. Saved'
    BY <1>3, <1>4, <2>1 DEF Saved, Settings!InDays
  <2> HIDE DEF x
  <2> QED
    BY <1>4, <1>6, <2>1, <2>2, <2>3, <2>4
<1>10. CASE Settings!WriteBranding(i)
  <2> DEFINE x == [r EXCEPT !.step = "answered", !.put = stored']
  <2>1. /\ stored' \in Settings!Group /\ r.kind \in {"upload", "remove"} /\ r.step = "read"
        /\ Settings!With(i, x) /\ stored'.words = r.body.words
        /\ wanted'.words = wanted.words /\ stored'.choice = wanted'.choice
        /\ stored'.choice \in files' \cup {0}
    BY <1>1, <1>10, MarkWritten DEF ServerTyped
  <2>2. /\ x \in Settings!Requests /\ x.alive = r.alive /\ x.kind = r.kind
        /\ x.step = "answered" /\ x.put = stored'
    BY <1>1, <2>1 DEF Settings!Requests
  <2>3. r.alive /\ r.body = stored /\ page = "branding"
    BY <1>4, <2>1 DEF SettingsSent
  <2>4. Saved'
    BY <1>4, <2>1, <2>3 DEF Saved
  <2> HIDE DEF x
  <2> QED
    BY <1>6, <2>1, <2>2, <2>3, <2>4
<1> QED
  BY <1>7, <1>8, <1>9, <1>10

LEMMA SettingsKeptSent ==
  ASSUME Settings!ConstantsTyped, SettingsInv, NEW k, NEW b, NEW p, Sending(k, b, p)
  PROVE  SettingsKept'
<1> DEFINE x == [kind |-> k, body |-> b, put |-> p, step |-> "sent", alive |-> TRUE]
<1>1. /\ UNCHANGED <<stored, files, fresh, wanted, cleared, page, loading, heard, patient>>
      /\ (patient => flight = <<>> /\ ~loading) /\ flight' = Append(flight, x)
      /\ Shows => Shows' /\ (k = "save" => b = Settings!Seen(p))
      /\ k = "password" => page = "auth"
      /\ k \in {"upload", "remove"} => page = "branding"
      /\ page = "branding" =>
           fields'.choice = fields.choice /\ (k = "save" => b.choice = fields.choice)
  BY DEF Sending
<1> SUFFICES ASSUME patient, heard, ~cleared PROVE SettingsKept'
  BY <1>1 DEF SettingsKept
<1>2. /\ Saved /\ SettingsWait /\ (page = "branding" => MarkIsKnown)
  BY DEF SettingsInv, SettingsKept
<1>3. flight = <<>> /\ ~loading /\ Shows
  BY <1>1, <1>2 DEF SettingsWait
<1>4. Len(flight') = 1 /\ DOMAIN flight' = {1} /\ flight'[1] = x /\ flight' # <<>>
  BY <1>1, <1>3
<1>5. x.kind = k /\ x.body = b /\ x.put = p /\ x.step = "sent" /\ x.alive = TRUE
  OBVIOUS
<1> HIDE DEF x
<1>6. SettingsWait'
  BY <1>1, <1>3, <1>4 DEF SettingsWait
<1>7. (\A j \in DOMAIN flight : SettingsSent(flight[j]))'
  BY <1>1, <1>3, <1>4, <1>5 DEF SettingsSent, Settings!Seen
<1>8. page' = "branding" => MarkIsKnown'
  <2>1. ASSUME page = "branding" PROVE MarkIsKnown'
    <3>1. stored.choice \in files \cup {0} /\ fields.choice = stored.choice
      BY <1>2, <1>3, <2>1 DEF MarkIsKnown
    <3> QED
      BY <1>1, <1>4, <1>5, <2>1, <3>1 DEF MarkIsKnown, MarkSent
  <2> QED
    BY <1>1, <2>1
<1> QED
  BY <1>1, <1>2, <1>6, <1>7, <1>8 DEF SettingsKept, Saved

LEMMA SettingsKeptAnswered ==
  ASSUME Settings!ConstantsTyped, SettingsInv, NEW i \in DOMAIN flight,
         Settings!Refuse(i) \/ \E ok \in BOOLEAN : Settings!Answer(i, ok)
  PROVE  SettingsKept'
<1> DEFINE r == flight[i]
<1>1. Settings!TypeOK
  BY DEF SettingsInv
<1>2. /\ flight' = Settings!RemoveAt(flight, i)
      /\ UNCHANGED <<stored, files, fresh, wanted, cleared, page, loading, patient>>
      /\ heard' =>
           /\ heard /\ r.step = "answered"
           /\ r.alive /\ Shows /\ (r.kind \in {"upload", "remove"} => page # "account")
                => Shows'
           /\ page = "branding" /\ r.alive => fields'.choice =
                IF r.kind \in {"upload", "remove"} THEN r.put.choice ELSE fields.choice
  <2>1. Settings!Refuse(i) => heard' = FALSE
    BY DEF Settings!Refuse
  <2>2. \A ok \in BOOLEAN : Settings!Answer(i, ok) => (heard' => ok)
    BY DEF Settings!Answer
  <2> QED
    BY <1>1, <2>1, <2>2, AnswerHeard
<1> SUFFICES ASSUME patient', heard', ~cleared' PROVE SettingsKept'
  BY DEF SettingsKept
<1>3. /\ Saved /\ SettingsWait /\ SettingsSent(r)
      /\ page = "branding" => MarkIsKnown /\ MarkSent(r)
  BY <1>2 DEF SettingsInv, SettingsKept, MarkIsKnown
<1>4. DOMAIN flight = {i} /\ flight # <<>> /\ ~loading /\ Shows /\ Len(flight) = 1
  <2>1. DOMAIN flight = {i} /\ flight # <<>>
    BY <1>1, <1>3, OnlyRequest DEF SettingsWait
  <2>2. Len(flight) \in Nat /\ DOMAIN flight = 1..Len(flight)
    BY <1>1 DEF Settings!TypeOK
  <2> QED
    BY <1>3, <2>1, <2>2 DEF SettingsWait
<1>5. flight' = <<>> /\ Len(flight') = 0 /\ DOMAIN flight' = {}
  <2>1. flight' \in Seq(Settings!Requests) /\ Len(flight') = 0
    BY <1>1, <1>2, <1>4, RequestKept
  <2> QED
    BY <2>1
<1>6. Shows'
  BY <1>2, <1>3, <1>4 DEF SettingsSent
<1>7. SettingsWait'
  BY <1>2, <1>4, <1>5, <1>6 DEF SettingsWait
<1>8. page' = "branding" => MarkIsKnown'
  <2>1. ASSUME page = "branding" PROVE MarkIsKnown'
    <3>1. stored.choice \in files \cup {0} /\ MarkSent(r) /\ r.alive
      BY <1>3, <2>1, SMTT(30) DEF MarkIsKnown, SettingsSent
    <3>2. r.kind \in {"save", "upload", "remove"}
      BY <1>1, <1>3, <2>1, RequestKept, RequestEdited DEF SettingsSent
    <3>3. fields'.choice = stored.choice
      BY <1>2, <2>1, <3>1, <3>2 DEF MarkSent
    <3> QED
      BY <1>2, <1>5, <3>1, <3>3 DEF MarkIsKnown
  <2> QED
    BY <1>2, <2>1
<1> QED
  BY <1>2, <1>3, <1>5, <1>7, <1>8 DEF SettingsKept, Saved

LEMMA SettingsStep ==
  ASSUME Settings!ConstantsTyped, SettingsInv, [Settings!Next]_(Settings!vars)
  PROVE  SettingsInv'
<1>1. Settings!TypeOK
  BY DEF SettingsInv
<1>2. SettingsMove
  BY <1>1, SettingsMoves
<1>3. Settings!TypeOK'
  BY <1>1, <1>2, SettingsTypeStep
<1>8. ClearedThere'
  <2>1. ASSUME NEW i \in DOMAIN flight,
               \/ Settings!UpdateSetting(i) \/ Settings!UpdatePassword(i)
               \/ Settings!ReadBranding(i) \/ Settings!WriteBranding(i)
               \/ Settings!Refuse(i) \/ \E ok \in BOOLEAN : Settings!Answer(i, ok)
        PROVE  UNCHANGED <<cleared, page>>
    BY <2>1 DEF Settings!UpdateSetting, Settings!UpdatePassword, Settings!ReadBranding,
       Settings!WriteBranding, Settings!Refuse, Settings!Answer, Settings!screen,
       Settings!server
  <2>2. UNCHANGED <<cleared, page>> \/ Typing
    BY <1>2, <2>1 DEF SettingsMove, PagesDo, Sending, Settings!LoadSettings, Settings!Leave,
       Settings!vars, Settings!screen, Settings!server
  <2> QED
    BY <2>2 DEF SettingsInv, ClearedThere, Typing
<1>4. ASSUME UNCHANGED Settings!vars PROVE SettingsKept'
  BY <1>4 DEF SettingsInv, SettingsKept, SettingsWait, SettingsSent, MarkIsKnown, MarkSent,
     Saved, Shows, Settings!Seen, Settings!vars, Settings!screen, Settings!server
<1>5. ASSUME NEW ok \in BOOLEAN, Settings!LoadSettings(ok) PROVE SettingsKept'
  <2>1. /\ loading /\ loading' = FALSE /\ (heard' => heard /\ ok)
        /\ UNCHANGED <<stored, files, fresh, wanted, cleared, page, flight, patient>>
    BY <1>5 DEF Settings!LoadSettings, Settings!server
  <2> SUFFICES ASSUME patient', heard', ~cleared' PROVE SettingsKept'
    BY DEF SettingsKept
  <2>2. /\ Saved /\ flight = <<>>
        /\ page = "branding" => stored.choice \in files \cup {0}
    BY <2>1 DEF SettingsInv, SettingsKept, SettingsWait, MarkIsKnown
  <2>3. Shows' /\ (page = "branding" => fields'.choice = stored.choice)
    BY <1>1, <1>5, <2>1, LoadTyped
  <2>4. flight' = <<>> /\ DOMAIN flight' = {} /\ Len(flight') = 0
    BY <2>1, <2>2
  <2> QED
    BY <2>1, <2>2, <2>3, <2>4 DEF SettingsKept, SettingsWait, MarkIsKnown, Saved
<1>6. ASSUME Settings!Leave PROVE SettingsKept'
  <2>1. /\ loading' = TRUE /\ (patient => flight = <<>>)
        /\ UNCHANGED <<stored, files, fresh, wanted, cleared, page, heard, patient>>
    BY <1>6 DEF Settings!Leave, Settings!Clicks, Settings!server
  <2> SUFFICES ASSUME patient, heard, ~cleared PROVE SettingsKept'
    BY <2>1 DEF SettingsKept
  <2>2. /\ Saved
        /\ page = "branding" => stored.choice \in files \cup {0}
    BY DEF SettingsInv, SettingsKept, MarkIsKnown
  <2>3. flight' = <<>>
    BY <1>1, <1>6, <2>1, LeaveTyped
  <2>4. DOMAIN flight' = {} /\ Len(flight') = 0
    BY <2>3
  <2> QED
    BY <2>1, <2>2, <2>3, <2>4 DEF SettingsKept, SettingsWait, MarkIsKnown, Saved
<1>7. ASSUME Typing PROVE SettingsKept'
  BY <1>7 DEF Typing, SettingsInv, SettingsKept, SettingsWait, SettingsSent, MarkIsKnown,
     MarkSent, Saved, Settings!Seen
<1> QED
  BY <1>2, <1>3, <1>4, <1>5, <1>6, <1>7, <1>8, SettingsKeptSent, SettingsKeptAnswered,
     SettingsKeptServed DEF SettingsInv, SettingsMove, PagesDo

LEMMA SettingsStart ==
  ASSUME Settings!ConstantsTyped, Settings!Init
  PROVE  SettingsInv
<1>1. Settings!TypeOK
  BY SettingsTypeInit
<1>2. /\ stored = wanted /\ cleared = FALSE /\ flight = <<>> /\ loading = TRUE /\ files = {1}
      /\ page = "branding" => stored.choice = 1
  BY DEF Settings!Init
<1>3. DOMAIN flight = {} /\ Len(flight) = 0
  BY <1>2
<1> QED
  BY <1>1, <1>2, <1>3 DEF SettingsInv, ClearedThere, SettingsKept, SettingsWait, MarkIsKnown,
     Saved

LEMMA SettingsSafe ==
  ASSUME SettingsInv
  PROVE  Settings!TypeOK /\ Settings!SettingsAsTyped /\ Settings!MarkIsOnFile
  BY DEF SettingsInv, ClearedThere, SettingsKept, MarkIsKnown, Saved,
     Settings!SettingsAsTyped, Settings!MarkIsOnFile

-----------------------------------------------------------------------------
(* The payment providers.                                                  *)

\* A toggle is on its way to p.
Turning(p) == \E i \in DOMAIN flight : flight[i].p = p /\ flight[i].kind = "toggle"
ProvidersWait ==
  Len(flight) <= 1 /\ (drawer # "none" /\ phase # "subscribed" => flight = <<>>)
ProviderSent(r) ==
  /\ drawer \in {r.p, "none"}
  /\ ~r.done => wish = [active EXCEPT ![r.p] = r.body.active]
  /\ r.kind = "save" => r.body.active = active[r.p]
  /\ r.done /\ r.ok => active = wish /\ active[r.p] = r.body.active
\* What the store and the drawer have of a provider is what the server has, but for
\* the one whose toggle is on its way.
ProvidersKnown ==
  /\ flight = <<>> => active = wish
  /\ \A p \in DOMAIN store : store[p] = active[p] \/ Turning(p)
  /\ drawer # "none" /\ phase = "subscribed" =>
       fields.active = active[drawer] \/ Turning(drawer)
  /\ drawer # "none" /\ phase = "loaded" =>
       fields.active = active[drawer] \/ drawer \in DOMAIN store
ProvidersKept ==
  patient /\ heard =>
    ProvidersWait /\ ProvidersKnown /\ \A i \in DOMAIN flight : ProviderSent(flight[i])
KeysTyped == \A i \in DOMAIN flight : flight[i].kind = "save" => flight[i].body.keys # "none"
ProvidersInv == Providers!TypeOK /\ KeysTyped /\ ProvidersKept

\* The page's variables, the server's, and the requests between them.
PanelTyped ==
  /\ DOMAIN store \subseteq Providers!Offered /\ \A p \in DOMAIN store : store[p] \in BOOLEAN
  /\ drawer \in Providers!Offered \cup {"none"}
  /\ phase \in {"loading", "loaded", "subscribed"}
  /\ fields \in Providers!Copies /\ errors \in BOOLEAN
  /\ wish \in [Providers!Offered -> BOOLEAN] /\ heard \in BOOLEAN /\ patient \in BOOLEAN
  /\ moves \in 0..ProviderMoves
GroupsTyped ==
  active \in [Providers!Offered -> BOOLEAN] /\ keys \in [Providers!Offered -> {"old", "new"}]
CallsTyped ==
  flight \in Seq(Providers!Requests) /\ Len(flight) <= MaxFlight /\ KeysTyped
ProvidersTyped == PanelTyped /\ GroupsTyped /\ CallsTyped
LEMMA ProvidersTypes == ProvidersTyped <=> Providers!TypeOK /\ KeysTyped
  BY DEF Providers!TypeOK, ProvidersTyped, PanelTyped, GroupsTyped, CallsTyped
LEMMA ProvidersTypesNext == ProvidersTyped' <=> Providers!TypeOK' /\ KeysTyped'
  BY DEF Providers!TypeOK, ProvidersTyped, PanelTyped, GroupsTyped, CallsTyped

LEMMA CopyEdited ==
  ASSUME NEW f \in Providers!Copies
  PROVE  /\ f.active \in BOOLEAN
         /\ \A a \in BOOLEAN :
              /\ [f EXCEPT !.active = a] \in Providers!Copies
              /\ [f EXCEPT !.active = a].active = a
              /\ [f EXCEPT !.active = a].keys = f.keys
         /\ \A k \in {"none", "old", "new"} :
              /\ [f EXCEPT !.keys = k] \in Providers!Copies
              /\ [f EXCEPT !.keys = k].active = f.active
  BY DEF Providers!Copies

LEMMA StoreHeeded ==
  ASSUME PanelTyped, NEW s, DOMAIN s \subseteq Providers!Offered,
         \A p \in DOMAIN s : s[p] \in BOOLEAN
  PROVE  /\ Providers!Heeded(fields, s) \in Providers!Copies
         /\ Providers!Heeded(fields, s).active =
              IF drawer \in DOMAIN s THEN s[drawer] ELSE fields.active
<1>1. fields \in Providers!Copies
  BY DEF PanelTyped
<1>2. CASE drawer \in DOMAIN s
  <2> DEFINE a == s[drawer]
  <2>1. a \in BOOLEAN /\ Providers!Heeded(fields, s) = [fields EXCEPT !.active = a]
    BY <1>2 DEF Providers!Heeded, Providers!FromStore
  <2> HIDE DEF a
  <2>2. /\ [fields EXCEPT !.active = a] \in Providers!Copies
        /\ [fields EXCEPT !.active = a].active = a
    BY <1>1, <2>1, CopyEdited
  <2>3. /\ Providers!Heeded(fields, s) \in Providers!Copies
        /\ Providers!Heeded(fields, s).active = a
    BY <2>1, <2>2, Zenon
  <2> QED
    BY <1>2, <2>3 DEF a
<1>3. CASE drawer \notin DOMAIN s
  BY <1>1, <1>3 DEF Providers!Heeded, Providers!FromStore
<1> QED
  BY <1>2, <1>3

\* The requests: one more, one of them served, one of them gone.
LEMMA CallMade ==
  ASSUME Providers!ConstantsTyped, CallsTyped, PanelTyped, drawer # "none",
         NEW k \in {"toggle", "save"}, NEW f \in Providers!Copies, Providers!Send(k, f),
         k = "save" => f.keys # "none"
  PROVE  /\ CallsTyped'
         /\ flight = <<>> =>
              /\ Len(flight') = 1 /\ DOMAIN flight' = {1} /\ flight' # <<>>
              /\ flight'[1].p = drawer /\ flight'[1].kind = k /\ flight'[1].body = f
              /\ flight'[1].ok = FALSE /\ flight'[1].done = FALSE
<1> DEFINE r == [p |-> drawer, kind |-> k, body |-> f, ok |-> FALSE, done |-> FALSE]
<1>1. r \in Providers!Requests /\ r.kind = k /\ r.body = f /\ r.p = drawer /\ r.ok = FALSE
      /\ r.done = FALSE
  BY DEF PanelTyped, Providers!Requests
<1>2. flight' = Append(flight, r) /\ Len(flight) < MaxFlight
  BY DEF Providers!Send
<1> HIDE DEF r
<1>3. flight \in Seq(Providers!Requests) /\ Len(flight) \in Nat /\ MaxFlight \in Nat
      /\ DOMAIN flight = 1..Len(flight)
  BY DEF CallsTyped, Providers!ConstantsTyped
<1>4. /\ flight' \in Seq(Providers!Requests) /\ Len(flight') = Len(flight) + 1
      /\ DOMAIN flight' = 1..(Len(flight) + 1) /\ flight'[Len(flight) + 1] = r
      /\ \A j \in DOMAIN flight : flight'[j] = flight[j]
  BY <1>1, <1>2, <1>3, AddedTo
<1>5. KeysTyped'
  <2>1. ASSUME NEW i \in DOMAIN flight', flight'[i].kind = "save"
        PROVE  flight'[i].body.keys # "none"
    <3>1. CASE i \in DOMAIN flight
      BY <1>4, <2>1, <3>1 DEF CallsTyped, KeysTyped
    <3>2. CASE i = Len(flight) + 1
      BY <1>1, <1>4, <2>1, <3>2
    <3> QED
      BY <1>3, <1>4, <3>1, <3>2
  <2> QED
    BY <2>1 DEF KeysTyped
<1>6. CallsTyped'
  BY <1>2, <1>3, <1>4, <1>5 DEF CallsTyped
<1>7. ASSUME flight = <<>>
      PROVE  Len(flight') = 1 /\ DOMAIN flight' = {1} /\ flight' # <<>> /\ flight'[1] = r
  BY <1>2, <1>7
<1> QED
  BY <1>1, <1>6, <1>7

LEMMA ServedAt ==
  ASSUME NEW s, NEW i \in DOMAIN s, NEW ok
  PROVE  [s EXCEPT ![i].done = TRUE, ![i].ok = ok] =
           [s EXCEPT ![i] = [s[i] EXCEPT !.done = TRUE, !.ok = ok]]
<1> DEFINE x == [s[i] EXCEPT !.done = TRUE, !.ok = ok]
           d == [s[i] EXCEPT !.done = TRUE]
           g == [s EXCEPT ![i] = d]
<1>1. [s EXCEPT ![i].done = TRUE, ![i].ok = ok] = [g EXCEPT ![i] = [g[i] EXCEPT !.ok = ok]]
  OBVIOUS
<1>2. g[i] = d /\ DOMAIN g = DOMAIN s /\ x = [d EXCEPT !.ok = ok]
  OBVIOUS
<1> HIDE DEF d, x
<1>3. [g EXCEPT ![i] = x] = [s EXCEPT ![i] = x]
  OBVIOUS
<1> HIDE DEF g
<1>4. [s EXCEPT ![i].done = TRUE, ![i].ok = ok] = [s EXCEPT ![i] = x]
  BY <1>1, <1>2, <1>3
<1> QED
  BY <1>4 DEF x

LEMMA CallServed ==
  ASSUME CallsTyped, NEW i \in DOMAIN flight, NEW ok \in BOOLEAN,
         flight' = [flight EXCEPT ![i] = [flight[i] EXCEPT !.done = TRUE, !.ok = ok]]
  PROVE  /\ CallsTyped' /\ Len(flight') = Len(flight) /\ DOMAIN flight' = DOMAIN flight
         /\ flight[i] \in Providers!Requests
         /\ \A j \in DOMAIN flight : flight'[j].p = flight[j].p
              /\ flight'[j].kind = flight[j].kind /\ flight'[j].body = flight[j].body
         /\ flight'[i].done /\ flight'[i].ok = ok
<1> DEFINE x == [flight[i] EXCEPT !.done = TRUE, !.ok = ok]
<1>1. flight \in Seq(Providers!Requests) /\ flight[i] \in Providers!Requests
  BY DEF CallsTyped
<1>2. /\ x \in Providers!Requests /\ x.p = flight[i].p /\ x.kind = flight[i].kind
      /\ x.body = flight[i].body /\ x.done = TRUE /\ x.ok = ok
  BY <1>1 DEF Providers!Requests
<1>3. flight' = [flight EXCEPT ![i] = x]
  OBVIOUS
<1> HIDE DEF x
<1>4. /\ flight' \in Seq(Providers!Requests) /\ Len(flight') = Len(flight)
      /\ DOMAIN flight' = DOMAIN flight /\ flight'[i] = x
      /\ \A j \in DOMAIN flight \ {i} : flight'[j] = flight[j]
  BY <1>1, <1>2, <1>3, ChangedAt
<1>5. \A j \in DOMAIN flight : flight'[j].p = flight[j].p
        /\ flight'[j].kind = flight[j].kind /\ flight'[j].body = flight[j].body
  BY <1>2, <1>4
<1> QED
  BY <1>1, <1>2, <1>4, <1>5 DEF CallsTyped, KeysTyped

LEMMA CallGone ==
  ASSUME Providers!ConstantsTyped, CallsTyped, NEW i \in DOMAIN flight,
         flight' = Providers!RemoveAt(flight, i)
  PROVE  /\ CallsTyped' /\ flight[i] \in Providers!Requests
         /\ Len(flight) <= 1 => flight' = <<>>
<1>1. flight \in Seq(Providers!Requests) /\ flight[i] \in Providers!Requests
      /\ Len(flight) \in Nat /\ MaxFlight \in Nat /\ Len(flight) <= MaxFlight
      /\ DOMAIN flight = 1..Len(flight)
  BY DEF CallsTyped, Providers!ConstantsTyped
<1>2. flight' = Cut(flight, i)
  BY SMTT(30) DEF Providers!RemoveAt, Cut
<1>3. flight' \in Seq(Providers!Requests) /\ Len(flight') = Len(flight) - 1
  BY <1>1, <1>2, CutFrom, ZenonT(40)
<1>4. KeysTyped'
  <2>1. \A j \in DOMAIN flight' : \E k \in DOMAIN flight : flight'[j] = flight[k]
    BY <1>1, <1>2, CutKeeps
  <2> QED
    BY <2>1 DEF CallsTyped, KeysTyped
<1>5. ASSUME Len(flight) <= 1 PROVE flight' = <<>>
  <2>1. Len(flight') = 0
    BY <1>1, <1>3, <1>5
  <2> QED
    BY <1>3, <2>1
<1> QED
  BY <1>1, <1>3, <1>4, <1>5 DEF CallsTyped

\* An act on the page that sends nothing.
LEMMA PageActs ==
  ASSUME Providers!ConstantsTyped, ProvidersInv,
         \/ \E ok \in BOOLEAN : Providers!LoadPaymentSettings(ok)
         \/ \E p \in Providers!Offered : Providers!OpenDrawer(p)
         \/ Providers!CloseDrawer
  PROVE  ProvidersInv'
<1>1. ProvidersTyped /\ PanelTyped /\ GroupsTyped /\ CallsTyped /\ ProviderMoves \in Nat
  BY ProvidersTypes DEF ProvidersInv, ProvidersTyped, Providers!ConstantsTyped
<1>2. /\ moves < ProviderMoves /\ moves' = moves + 1
      /\ UNCHANGED <<active, keys, flight, wish, patient>>
  BY DEF Providers!LoadPaymentSettings, Providers!OpenDrawer, Providers!CloseDrawer,
     Providers!Clicks, Providers!Acts
<1>3. moves' \in 0..ProviderMoves
  BY <1>1, <1>2 DEF PanelTyped
<1>4. GroupsTyped' /\ CallsTyped'
  BY <1>1, <1>2 DEF GroupsTyped, CallsTyped, KeysTyped
<1>5. Providers!Blank \in Providers!Copies
  BY DEF Providers!Blank, Providers!Copies
<1>6. SUFFICES PanelTyped' /\ ProvidersKept'
  BY <1>4, ProvidersTypesNext DEF ProvidersInv, ProvidersTyped
<1>7. ASSUME NEW ok \in BOOLEAN, Providers!LoadPaymentSettings(ok)
      PROVE  PanelTyped' /\ ProvidersKept'
  <2>1. /\ drawer = "none" /\ store' = (IF ok THEN active ELSE store)
        /\ heard' = (heard /\ ok) /\ (patient => flight = <<>>)
        /\ UNCHANGED <<drawer, phase, fields, errors>>
    BY <1>7 DEF Providers!LoadPaymentSettings, Providers!Clicks
  <2>2. heard' \in BOOLEAN /\ DOMAIN store' \subseteq Providers!Offered
        /\ \A p \in DOMAIN store' : store'[p] \in BOOLEAN
    BY <1>1, <2>1 DEF PanelTyped, GroupsTyped
  <2>3. PanelTyped'
    BY <1>1, <1>2, <1>3, <2>1, <2>2 DEF PanelTyped
  <2>4. ASSUME patient', heard' PROVE ProvidersKept'
    <3>1. patient /\ heard /\ flight = <<>> /\ store' = active
      BY <1>2, <2>1, <2>4
    <3>2. DOMAIN flight' = {} /\ Len(flight') = 0 /\ active = wish
      BY <1>2, <3>1 DEF ProvidersInv, ProvidersKept, ProvidersKnown
    <3> QED
      BY <1>2, <2>1, <3>1, <3>2 DEF ProvidersKept, ProvidersWait, ProvidersKnown
  <2> QED
    BY <2>3, <2>4 DEF ProvidersKept
<1>8. ASSUME NEW p \in Providers!Offered, Providers!OpenDrawer(p)
      PROVE  PanelTyped' /\ ProvidersKept'
  <2>1. /\ drawer = "none" /\ drawer' = p /\ phase' = "loading"
        /\ fields' = Providers!Blank /\ errors' = FALSE /\ (patient => flight = <<>>)
        /\ UNCHANGED <<store, heard>>
    BY <1>8 DEF Providers!OpenDrawer, Providers!Clicks
  <2>2. PanelTyped'
    BY <1>1, <1>2, <1>3, <1>5, <2>1 DEF PanelTyped
  <2>3. ASSUME patient', heard' PROVE ProvidersKept'
    <3>1. patient /\ heard /\ flight = <<>>
      BY <1>2, <2>1, <2>3
    <3>2. /\ DOMAIN flight = {} /\ Len(flight') = 0 /\ active = wish /\ flight' = <<>>
          /\ DOMAIN flight' = {}
          /\ \A q \in DOMAIN store : store[q] = active[q]
      BY <1>2, <3>1 DEF ProvidersInv, ProvidersKept, ProvidersKnown, Turning
    <3> QED
      BY <1>2, <2>1, <3>1, <3>2 DEF ProvidersKept, ProvidersWait, ProvidersKnown
  <2> QED
    BY <2>2, <2>3 DEF ProvidersKept
<1>9. ASSUME Providers!CloseDrawer PROVE PanelTyped' /\ ProvidersKept'
  <2>1. /\ drawer' = "none" /\ phase' = "loading" /\ fields' = Providers!Blank
        /\ errors' = FALSE /\ UNCHANGED <<store, heard>>
    BY <1>9 DEF Providers!CloseDrawer
  <2>2. PanelTyped'
    BY <1>1, <1>2, <1>3, <1>5, <2>1 DEF PanelTyped
  <2>3. ProvidersKept'
    BY <1>2, <2>1 DEF ProvidersInv, ProvidersKept, ProvidersWait, ProvidersKnown, ProviderSent,
       Turning
  <2> QED
    BY <2>2, <2>3
<1> QED
  BY <1>7, <1>8, <1>9

\* The drawer has its group, and the store the last word on active.
LEMMA DrawerLoads ==
  ASSUME Providers!ConstantsTyped, ProvidersInv, drawer # "none",
         \E ok \in BOOLEAN : Providers!LoadDrawer(ok)
  PROVE  ProvidersInv'
<1>1. PICK ok \in BOOLEAN : Providers!LoadDrawer(ok)
  OBVIOUS
<1>2. PanelTyped /\ GroupsTyped /\ CallsTyped /\ drawer \in Providers!Offered
  BY ProvidersTypes DEF ProvidersInv, ProvidersTyped, PanelTyped
<1>3. /\ phase = "loading" /\ phase' = "loaded"
      /\ fields' = IF ok THEN [active |-> active[drawer], keys |-> keys[drawer]] ELSE fields
      /\ heard' = (heard /\ (ok \/ drawer \in DOMAIN store))
      /\ UNCHANGED <<active, keys, store, drawer, errors, flight, wish, patient, moves>>
  BY <1>1 DEF Providers!LoadDrawer
<1>4. fields' \in Providers!Copies /\ heard' \in BOOLEAN
  BY <1>2, <1>3 DEF PanelTyped, GroupsTyped, Providers!Copies
<1>5. ProvidersTyped'
  BY <1>2, <1>3, <1>4 DEF ProvidersTyped, PanelTyped, GroupsTyped, CallsTyped, KeysTyped
<1>6. ASSUME patient', heard' PROVE ProvidersKept'
  <2>1. /\ patient /\ heard /\ ProvidersWait /\ ProvidersKnown
        /\ ok \/ drawer \in DOMAIN store
    BY <1>3, <1>6 DEF ProvidersInv, ProvidersKept
  <2>2. flight = <<>> /\ flight' = <<>> /\ DOMAIN flight = {} /\ DOMAIN flight' = {}
        /\ Len(flight') = 0
    BY <1>3, <2>1 DEF ProvidersWait
  <2>3. fields'.active = active[drawer] \/ drawer \in DOMAIN store
    BY <1>3, <2>1
  <2> QED
    BY <1>3, <2>1, <2>2, <2>3 DEF ProvidersKept, ProvidersWait, ProvidersKnown, Turning
<1> QED
  BY <1>5, <1>6, ProvidersTypesNext DEF ProvidersInv, ProvidersKept

LEMMA StoreTells ==
  ASSUME Providers!ConstantsTyped, ProvidersInv,
         Providers!Subscribe \/ Providers!LoadVersionInfo
  PROVE  ProvidersInv'
<1>1. PanelTyped /\ GroupsTyped /\ CallsTyped
  BY ProvidersTypes DEF ProvidersInv, ProvidersTyped
<1>2. /\ fields' = Providers!Heeded(fields, store) /\ phase' = "subscribed"
      /\ phase = "subscribed" \/ (drawer # "none" /\ phase = "loaded")
      /\ UNCHANGED <<active, keys, store, drawer, errors, flight, wish, heard, patient,
                     moves>>
  BY DEF Providers!Subscribe, Providers!LoadVersionInfo
<1>3. /\ fields' \in Providers!Copies
      /\ fields'.active = IF drawer \in DOMAIN store THEN store[drawer] ELSE fields.active
  BY <1>1, <1>2, StoreHeeded DEF PanelTyped
<1>4. ProvidersTyped'
  BY <1>1, <1>2, <1>3 DEF ProvidersTyped, PanelTyped, GroupsTyped, CallsTyped, KeysTyped
<1>5. ASSUME patient, heard PROVE ProvidersKept'
  <2>1. ProvidersWait /\ ProvidersKnown /\ \A i \in DOMAIN flight : ProviderSent(flight[i])
    BY <1>5 DEF ProvidersInv, ProvidersKept
  <2>2. drawer # "none" => fields'.active = active[drawer] \/ Turning(drawer)
    BY <1>2, <1>3, <2>1 DEF ProvidersKnown
  <2>3. ProvidersWait'
    BY <1>2, <2>1 DEF ProvidersWait
  <2>4. ProvidersKnown'
    BY <1>2, <2>1, <2>2 DEF ProvidersKnown, Turning
  <2>5. (\A i \in DOMAIN flight : ProviderSent(flight[i]))'
    BY <1>2, <2>1 DEF ProviderSent
  <2> QED
    BY <2>3, <2>4, <2>5 DEF ProvidersKept
<1> QED
  BY <1>2, <1>4, <1>5, ProvidersTypesNext DEF ProvidersInv, ProvidersKept

LEMMA KeysAreTyped ==
  ASSUME Providers!ConstantsTyped, ProvidersInv, Providers!TypeKeys
  PROVE  ProvidersInv'
<1>1. PanelTyped /\ GroupsTyped /\ CallsTyped /\ ProviderMoves \in Nat
  BY ProvidersTypes DEF ProvidersInv, ProvidersTyped, Providers!ConstantsTyped
<1>2. /\ fields' = [fields EXCEPT !.keys = "new"]
      /\ moves < ProviderMoves /\ moves' = moves + 1
      /\ UNCHANGED <<active, keys, store, drawer, phase, errors, flight, wish, heard, patient>>
  BY DEF Providers!TypeKeys, Providers!Acts
<1>3. /\ fields' \in Providers!Copies /\ fields'.active = fields.active
      /\ moves' \in 0..ProviderMoves
  <2>1. fields \in Providers!Copies /\ moves \in Nat
    BY <1>1 DEF PanelTyped
  <2>2. fields' \in Providers!Copies /\ fields'.active = fields.active
    BY <1>2, <2>1, CopyEdited
  <2>3. moves' \in 0..ProviderMoves
    BY <1>1, <1>2, <2>1
  <2> QED
    BY <2>2, <2>3
<1>4. ProvidersTyped'
  BY <1>1, <1>2, <1>3 DEF ProvidersTyped, PanelTyped, GroupsTyped, CallsTyped, KeysTyped
<1>5. ProvidersKept'
  BY <1>2, <1>3 DEF ProvidersInv, ProvidersKept, ProvidersWait, ProvidersKnown, ProviderSent,
     Turning
<1> QED
  BY <1>4, <1>5, ProvidersTypesNext DEF ProvidersInv

LEMMA GroupSaved ==
  ASSUME Providers!ConstantsTyped, ProvidersInv, drawer # "none",
         Providers!SavePaymentSettings
  PROVE  ProvidersInv'
<1>1. PanelTyped /\ GroupsTyped /\ CallsTyped /\ ProviderMoves \in Nat
      /\ fields \in Providers!Copies
  BY ProvidersTypes DEF ProvidersInv, ProvidersTyped, Providers!ConstantsTyped, PanelTyped
<1>2. /\ moves < ProviderMoves /\ moves' = moves + 1
      /\ errors' = (fields.keys = "none")
      /\ patient => flight = <<>> /\ phase = "subscribed"
      /\ UNCHANGED <<active, keys, store, drawer, phase, fields, wish, heard, patient>>
  BY DEF Providers!SavePaymentSettings, Providers!Clicks, Providers!Acts
<1>3. moves' \in 0..ProviderMoves /\ errors' \in BOOLEAN
  BY <1>1, <1>2 DEF PanelTyped
<1>4. PanelTyped' /\ GroupsTyped'
  BY <1>1, <1>2, <1>3 DEF PanelTyped, GroupsTyped
<1>5. CASE fields.keys = "none"
  <2>1. UNCHANGED flight
    BY <1>5 DEF Providers!SavePaymentSettings
  <2>2. CallsTyped'
    BY <1>1, <2>1 DEF CallsTyped, KeysTyped
  <2>3. ProvidersKept'
    BY <1>2, <2>1 DEF ProvidersInv, ProvidersKept, ProvidersWait, ProvidersKnown, ProviderSent,
       Turning
  <2> QED
    BY <1>4, <2>2, <2>3, ProvidersTypesNext DEF ProvidersInv, ProvidersTyped
<1>6. CASE fields.keys # "none"
  <2>1. Providers!Send("save", fields)
    BY <1>6 DEF Providers!SavePaymentSettings
  <2>2. /\ CallsTyped'
        /\ flight = <<>> =>
             /\ Len(flight') = 1 /\ DOMAIN flight' = {1} /\ flight' # <<>>
             /\ flight'[1].p = drawer /\ flight'[1].kind = "save"
             /\ flight'[1].body = fields
             /\ flight'[1].ok = FALSE /\ flight'[1].done = FALSE
    BY <1>1, <1>6, <2>1, CallMade
  <2>3. ASSUME patient, heard PROVE ProvidersKept'
    <3>1. flight = <<>> /\ phase = "subscribed" /\ DOMAIN flight = {} /\ active = wish
          /\ ProvidersKnown
      BY <1>2, <2>3 DEF ProvidersInv, ProvidersKept, ProvidersKnown
    <3>2. /\ fields.active = active[drawer]
          /\ \A p \in DOMAIN store : store[p] = active[p]
      BY <3>1 DEF ProvidersKnown, Turning
    <3>3. wish = [active EXCEPT ![drawer] = fields.active]
      BY <1>1, <3>1, <3>2 DEF GroupsTyped
    <3>4. ProvidersWait'
      <4>1. Len(flight') = 1
        BY <2>2, <3>1
      <4>2. phase' = "subscribed"
        BY <1>2, <3>1
      <4> QED
        BY <4>1, <4>2 DEF ProvidersWait
    <3>5. ProvidersKnown'
      <4>1. /\ fields' = fields /\ active' = active /\ store' = store /\ drawer' = drawer
            /\ phase' = "subscribed" /\ flight' # <<>>
        BY <1>2, <2>2, <3>1
      <4> QED
        BY <3>2, <4>1 DEF ProvidersKnown
    <3>6. (\A i \in DOMAIN flight : ProviderSent(flight[i]))'
      BY <1>2, <2>2, <3>1, <3>2, <3>3 DEF ProviderSent
    <3> QED
      BY <3>4, <3>5, <3>6 DEF ProvidersKept
  <2> QED
    BY <1>2, <1>4, <2>2, <2>3, ProvidersTypesNext
    DEF ProvidersInv, ProvidersTyped, ProvidersKept
<1> QED
  BY <1>5, <1>6

LEMMA Toggled ==
  ASSUME Providers!ConstantsTyped, ProvidersInv, drawer # "none",
         Providers!TogglePaymentActive
  PROVE  ProvidersInv'
<1> DEFINE f == [fields EXCEPT !.active = ~fields.active]
<1>1. PanelTyped /\ GroupsTyped /\ CallsTyped /\ ProviderMoves \in Nat
      /\ fields \in Providers!Copies /\ drawer \in Providers!Offered
  BY ProvidersTypes DEF ProvidersInv, ProvidersTyped, Providers!ConstantsTyped, PanelTyped
<1>2. /\ moves < ProviderMoves /\ moves' = moves + 1 /\ fields' = f
      /\ Providers!Send("toggle", f) /\ wish' = [wish EXCEPT ![drawer] = f.active]
      /\ patient => flight = <<>> /\ phase = "subscribed"
      /\ UNCHANGED <<active, keys, store, drawer, phase, errors, heard, patient>>
  BY DEF Providers!TogglePaymentActive, Providers!Clicks, Providers!Acts
<1>3. f \in Providers!Copies /\ f.active \in BOOLEAN
  BY <1>1 DEF Providers!Copies
<1> HIDE DEF f
<1>4. moves' \in 0..ProviderMoves /\ wish' \in [Providers!Offered -> BOOLEAN]
  BY <1>1, <1>2, <1>3 DEF PanelTyped
<1>5. PanelTyped' /\ GroupsTyped'
  BY <1>1, <1>2, <1>3, <1>4 DEF PanelTyped, GroupsTyped
<1>6. /\ CallsTyped'
      /\ flight = <<>> =>
           /\ Len(flight') = 1 /\ DOMAIN flight' = {1} /\ flight' # <<>>
           /\ flight'[1].p = drawer /\ flight'[1].kind = "toggle" /\ flight'[1].body = f
           /\ flight'[1].ok = FALSE /\ flight'[1].done = FALSE
  BY <1>1, <1>2, <1>3, CallMade
<1>7. ASSUME patient, heard PROVE ProvidersKept'
  <2>1. flight = <<>> /\ phase = "subscribed" /\ DOMAIN flight = {} /\ active = wish
        /\ \A p \in DOMAIN store : store[p] = active[p]
    BY <1>2, <1>7 DEF ProvidersInv, ProvidersKept, ProvidersKnown, Turning
  <2>2. wish' = [active EXCEPT ![drawer] = f.active]
    BY <1>2, <2>1
  <2>3. ProvidersWait' /\ ProvidersKnown'
    <3>1. Turning(drawer)'
      BY <1>2, <1>6, <2>1 DEF Turning
    <3> QED
      BY <1>2, <1>6, <2>1, <3>1, SMTT(30) DEF ProvidersWait, ProvidersKnown
  <2>4. (\A i \in DOMAIN flight : ProviderSent(flight[i]))'
    BY <1>2, <1>6, <2>1, <2>2 DEF ProviderSent
  <2> QED
    BY <2>3, <2>4 DEF ProvidersKept
<1> QED
  BY <1>2, <1>5, <1>6, <1>7, ProvidersTypesNext
  DEF ProvidersInv, ProvidersTyped, ProvidersKept

LEMMA OnlyCall ==
  ASSUME CallsTyped, NEW i \in DOMAIN flight, Len(flight) <= 1
  PROVE  DOMAIN flight = {i} /\ flight # <<>>
<1>1. Len(flight) \in Nat /\ DOMAIN flight = 1..Len(flight)
  BY DEF CallsTyped
<1> QED
  BY <1>1

LEMMA Served ==
  ASSUME Providers!ConstantsTyped, ProvidersInv, NEW i \in DOMAIN flight,
         NEW ok \in BOOLEAN, Providers!Serve(i, ok)
  PROVE  ProvidersInv'
<1> DEFINE r == flight[i]
<1>1. PanelTyped /\ GroupsTyped /\ CallsTyped
  BY ProvidersTypes DEF ProvidersInv, ProvidersTyped
<1>2. /\ ~r.done
      /\ flight' = [flight EXCEPT ![i] = [flight[i] EXCEPT !.done = TRUE, !.ok = ok]]
      /\ active' = IF ok THEN [active EXCEPT ![r.p] = r.body.active] ELSE active
      /\ keys' = IF ok /\ r.kind = "save" THEN [keys EXCEPT ![r.p] = r.body.keys] ELSE keys
      /\ UNCHANGED <<store, drawer, phase, fields, errors, wish, heard, patient, moves>>
  BY ServedAt DEF Providers!Serve, Providers!page
<1>3. /\ CallsTyped' /\ Len(flight') = Len(flight) /\ DOMAIN flight' = DOMAIN flight
      /\ r \in Providers!Requests
      /\ \A j \in DOMAIN flight : flight'[j].p = flight[j].p
           /\ flight'[j].kind = flight[j].kind /\ flight'[j].body = flight[j].body
      /\ flight'[i].done /\ flight'[i].ok = ok
  BY <1>1, <1>2, CallServed
<1>4. /\ r.p \in Providers!Offered /\ r.body.active \in BOOLEAN
      /\ r.kind = "save" => r.body.keys \in {"old", "new"}
  BY <1>1, <1>3 DEF Providers!Requests, Providers!Copies, CallsTyped, KeysTyped
<1> HIDE DEF r
<1>5. GroupsTyped'
  <2>1. active' \in [Providers!Offered -> BOOLEAN]
    BY <1>1, <1>2, <1>4 DEF GroupsTyped
  <2>2. keys' \in [Providers!Offered -> {"old", "new"}]
    BY <1>1, <1>2, <1>4 DEF GroupsTyped
  <2> QED
    BY <2>1, <2>2 DEF GroupsTyped
<1>6. PanelTyped'
  BY <1>1, <1>2 DEF PanelTyped
<1>7. ASSUME patient, heard PROVE ProvidersKept'
  <2>1. /\ ProvidersWait /\ ProvidersKnown /\ ProviderSent(r)
        /\ drawer \in {r.p, "none"} /\ wish = [active EXCEPT ![r.p] = r.body.active]
        /\ r.kind = "save" => r.body.active = active[r.p]
    BY <1>2, <1>7 DEF ProvidersInv, ProvidersKept, ProviderSent, r
  <2>2. DOMAIN flight = {i} /\ flight # <<>> /\ DOMAIN flight' = {i} /\ flight' # <<>>
    <3>1. DOMAIN flight = {i} /\ flight # <<>>
      BY <1>1, <2>1, OnlyCall DEF ProvidersWait
    <3> QED
      BY <1>3, <3>1
  <2>3. flight'[i].p = r.p /\ flight'[i].kind = r.kind /\ flight'[i].body = r.body
    BY <1>3 DEF r
  <2>4. /\ \A p : Turning(p) <=> r.p = p /\ r.kind = "toggle"
        /\ \A p : Turning(p)' <=> r.p = p /\ r.kind = "toggle"
    BY <2>2, <2>3 DEF Turning, r
  <2>5. /\ ok => active' = wish /\ active'[r.p] = r.body.active
        /\ r.kind = "save" => active' = active
        /\ \A p \in Providers!Offered \ {r.p} : active'[p] = active[p]
    <3>1. ok => active' = wish /\ active'[r.p] = r.body.active
      BY <1>1, <1>2, <1>4, <2>1 DEF GroupsTyped
    <3>2. r.kind = "save" => active' = active
      BY <1>1, <1>2, <1>4, <2>1 DEF GroupsTyped
    <3>3. \A p \in Providers!Offered \ {r.p} : active'[p] = active[p]
      BY <1>1, <1>2, <1>4 DEF GroupsTyped
    <3> QED
      BY <3>1, <3>2, <3>3
  <2>6. r.kind \in {"toggle", "save"}
    BY <1>3 DEF r, Providers!Requests
  <2>7. ProvidersWait'
    BY <1>2, <1>3, <2>1, <2>2 DEF ProvidersWait
  <2>8. ProvidersKnown'
    <3>1. \A p \in DOMAIN store : store[p] = active'[p] \/ Turning(p)'
      BY <1>1, <2>1, <2>4, <2>5, <2>6 DEF ProvidersKnown, PanelTyped
    <3>2. drawer # "none" => phase = "subscribed"
      BY <2>1, <2>2 DEF ProvidersWait
    <3>3. drawer # "none" => fields.active = active'[drawer] \/ Turning(drawer)'
      <4>1. ASSUME drawer # "none" PROVE fields.active = active[drawer] \/ Turning(drawer)
        BY <2>1, <3>2, <4>1 DEF ProvidersKnown
      <4>2. drawer # "none" => drawer = r.p
        BY <2>1
      <4>3. CASE r.kind = "toggle"
        <5>1. drawer' = drawer
          BY <1>2
        <5> QED
          BY <2>4, <4>2, <4>3, <5>1
      <4>4. CASE r.kind = "save"
        <5>1. active' = active /\ ~Turning(drawer)
          BY <2>4, <2>5, <4>4
        <5>2. ASSUME drawer # "none" PROVE fields.active = active[drawer]
          BY <4>1, <5>1, <5>2, Zenon
        <5> QED
          BY <5>1, <5>2, Zenon
      <4> QED
        BY <2>6, <4>3, <4>4
    <3> QED
      BY <1>2, <2>2, <3>1, <3>2, <3>3 DEF ProvidersKnown
  <2>9. (\A j \in DOMAIN flight : ProviderSent(flight[j]))'
    <3>1. r.kind = "save" => r.body.active = active'[r.p]
      BY <2>1, <2>5
    <3> QED
      BY <1>2, <1>3, <2>1, <2>2, <2>3, <2>5, <3>1 DEF ProviderSent
  <2> QED
    BY <2>7, <2>8, <2>9 DEF ProvidersKept
<1> QED
  BY <1>2, <1>3, <1>5, <1>6, <1>7, ProvidersTypesNext
  DEF ProvidersInv, ProvidersTyped, ProvidersKept

LEMMA AnsweredProvider ==
  ASSUME Providers!ConstantsTyped, ProvidersInv, NEW i \in DOMAIN flight,
         NEW got \in BOOLEAN, Providers!Answer(i, got)
  PROVE  ProvidersInv'
<1> DEFINE r == flight[i]
           done == r.ok /\ got /\ r.kind = "toggle"
           told == [p \in {r.p} \cup DOMAIN store |->
                      IF p = r.p THEN r.body.active ELSE store[p]]
<1>1. PanelTyped /\ GroupsTyped /\ CallsTyped
  BY ProvidersTypes DEF ProvidersInv, ProvidersTyped
<1>2. /\ r.done /\ flight' = Providers!RemoveAt(flight, i)
      /\ heard' = (heard /\ r.ok /\ got)
      /\ store' = (IF done THEN told ELSE store)
      /\ fields' = IF done /\ phase = "subscribed" THEN Providers!Heeded(fields, store')
                   ELSE fields
      /\ UNCHANGED <<active, keys, drawer, phase, errors, wish, patient, moves>>
  BY DEF Providers!Answer
<1>3. CallsTyped' /\ r \in Providers!Requests /\ (Len(flight) <= 1 => flight' = <<>>)
  BY <1>1, <1>2, CallGone
<1>4. /\ r.p \in Providers!Offered /\ r.body.active \in BOOLEAN /\ r.ok \in BOOLEAN
      /\ r.kind \in {"toggle", "save"}
  BY <1>3 DEF Providers!Requests, Providers!Copies
<1> HIDE DEF r, told
<1>5. /\ DOMAIN store' \subseteq Providers!Offered
      /\ \A p \in DOMAIN store' : store'[p] \in BOOLEAN
  <2>1. DOMAIN told \subseteq Providers!Offered /\ \A p \in DOMAIN told : told[p] \in BOOLEAN
    BY <1>1, <1>4 DEF told, PanelTyped
  <2>2. CASE done
    BY <1>2, <2>1, <2>2
  <2>3. CASE ~done
    BY <1>1, <1>2, <2>3 DEF PanelTyped
  <2> QED
    BY <2>2, <2>3
<1>6. /\ Providers!Heeded(fields, store') \in Providers!Copies
      /\ Providers!Heeded(fields, store').active =
           IF drawer \in DOMAIN store' THEN store'[drawer] ELSE fields.active
  BY <1>1, <1>5, StoreHeeded
<1>7. PanelTyped'
  <2>1. fields' \in Providers!Copies
    BY <1>1, <1>2, <1>6 DEF PanelTyped
  <2>2. heard' \in BOOLEAN
    BY <1>1, <1>2 DEF PanelTyped
  <2> QED
    BY <1>1, <1>2, <1>5, <2>1, <2>2 DEF PanelTyped
<1>8. GroupsTyped'
  BY <1>1, <1>2 DEF GroupsTyped
<1>9. ASSUME patient, heard' PROVE ProvidersKept'
  <2>1. /\ heard /\ r.ok /\ got
    BY <1>2, <1>9
  <2>2. /\ ProvidersWait /\ ProvidersKnown /\ ProviderSent(r)
        /\ drawer \in {r.p, "none"} /\ active = wish /\ active[r.p] = r.body.active
    BY <1>2, <1>9, <2>1 DEF ProvidersInv, ProvidersKept, ProviderSent, r
  <2>3. DOMAIN flight = {i} /\ flight # <<>> /\ flight' = <<>>
    BY <1>1, <1>3, <2>2, OnlyCall DEF ProvidersWait
  <2>4. Len(flight') = 0 /\ DOMAIN flight' = {}
    BY <2>3
  <2>5. \A p : Turning(p) <=> r.p = p /\ r.kind = "toggle"
    BY <2>3 DEF Turning, r
  <2>6. done <=> r.kind = "toggle"
    BY <2>1
  <2>7. drawer # "none" => phase = "subscribed" /\ drawer = r.p
    BY <2>2, <2>3 DEF ProvidersWait
  <2>8. \A p \in DOMAIN store' : store'[p] = active[p]
    <3>1. CASE r.kind = "toggle"
      <4>1. store' = told
        BY <1>2, <2>6, <3>1
      <4>2. ASSUME NEW p \in DOMAIN told PROVE told[p] = active[p]
        <5>1. CASE p = r.p
          <6>1. told[p] = r.body.active
            BY <4>2, <5>1 DEF told
          <6> QED
            BY <2>2, <5>1, <6>1
        <5>2. CASE p # r.p
          <6>1. told[p] = store[p] /\ p \in DOMAIN store
            BY <4>2, <5>2 DEF told
          <6>2. ~Turning(p)
            BY <2>5, <5>2
          <6>3. store[p] = active[p]
            BY <2>2, <6>1, <6>2, Zenon DEF ProvidersKnown
          <6> QED
            BY <6>1, <6>3
        <5> QED
          BY <5>1, <5>2
      <4> QED
        BY <4>1, <4>2
    <3>2. CASE r.kind = "save"
      <4>1. store' = store
        BY <1>2, <2>6, <3>2
      <4>2. \A p \in DOMAIN store : store[p] = active[p]
        BY <2>2, <2>5, <3>2 DEF ProvidersKnown
      <4> QED
        BY <4>1, <4>2
    <3> QED
      BY <1>4, <3>1, <3>2
  <2>9. ASSUME drawer # "none" PROVE fields'.active = active[drawer]
    <3>1. phase = "subscribed" /\ drawer = r.p
      BY <2>7, <2>9
    <3>2. CASE r.kind = "toggle"
      <4>1. fields' = Providers!Heeded(fields, store') /\ store' = told
        BY <1>2, <2>6, <3>1, <3>2
      <4>2. drawer \in DOMAIN store'
        BY <3>1, <4>1 DEF told
      <4>3. fields'.active = store'[drawer]
        BY <1>6, <4>1, <4>2
      <4>4. store'[drawer] = active[drawer]
        BY <2>8, <4>2
      <4> QED
        BY <4>3, <4>4
    <3>3. CASE r.kind = "save"
      <4>1. fields' = fields
        BY <1>2, <2>6, <3>3
      <4>2. ~Turning(drawer)
        BY <2>5, <3>3
      <4>3. fields.active = active[drawer]
        BY <2>2, <2>9, <3>1, <4>2, Zenon DEF ProvidersKnown
      <4> QED
        BY <4>1, <4>3
    <3> QED
      BY <1>4, <3>2, <3>3
  <2>10. ProvidersWait'
    BY <2>3, <2>4 DEF ProvidersWait
  <2>11. /\ active' = active /\ wish' = wish /\ drawer' = drawer /\ phase' = phase
    BY <1>2
  <2>12. ProvidersKnown'
    <3>1. flight' = <<>> => active' = wish'
      BY <2>2, <2>11
    <3>2. \A p \in DOMAIN store' : store'[p] = active'[p]
      BY <2>8, <2>11
    <3>3. drawer' # "none" => phase' = "subscribed" /\ fields'.active = active'[drawer']
      BY <2>7, <2>9, <2>11
    <3> QED
      BY <3>1, <3>2, <3>3 DEF ProvidersKnown
  <2> QED
    BY <2>4, <2>10, <2>12 DEF ProvidersKept
<1>10. patient' = patient
  BY <1>2
<1> QED
  BY <1>3, <1>7, <1>8, <1>9, <1>10, ProvidersTypesNext
  DEF ProvidersInv, ProvidersTyped, ProvidersKept

LEMMA ProvidersStep ==
  ASSUME Providers!ConstantsTyped, ProvidersInv, [Providers!Next]_(Providers!vars)
  PROVE  ProvidersInv'
<1>1. CASE UNCHANGED Providers!vars
  BY <1>1 DEF ProvidersInv, ProvidersKept, ProvidersWait, ProvidersKnown, ProviderSent, Turning,
     KeysTyped, Providers!TypeOK, Providers!vars, Providers!page
<1>2. ASSUME NEW p \in Providers!Offered, Providers!Drawer(p) PROVE ProvidersInv'
  <2>1. drawer # "none"
    BY <1>2 DEF Providers!Drawer, Providers!Offered
  <2>2. \/ \E ok \in BOOLEAN : Providers!LoadDrawer(ok)
        \/ Providers!Subscribe \/ Providers!TypeKeys \/ Providers!SavePaymentSettings
        \/ Providers!TogglePaymentActive \/ Providers!CloseDrawer
    BY <1>2 DEF Providers!Drawer
  <2> QED
    BY <2>1, <2>2, DrawerLoads, StoreTells, KeysAreTyped, GroupSaved, Toggled, PageActs
<1>3. CASE \/ Providers!StripeDrawer \/ Providers!PaypalDrawer \/ Providers!PortoneDrawer
           \/ Providers!SpectrocoinDrawer \/ Providers!CoinbaseDrawer
  <2>1. {"stripe", "paypal", "portone", "spectrocoin", "coinbase"} \subseteq Providers!Offered
    BY DEF Providers!Offered
  <2> QED
    BY <1>2, <1>3, <2>1 DEF Providers!StripeDrawer, Providers!PaypalDrawer,
       Providers!PortoneDrawer, Providers!SpectrocoinDrawer, Providers!CoinbaseDrawer
<1>4. ASSUME NEW i \in DOMAIN flight, NEW ok \in BOOLEAN,
             Providers!Serve(i, ok) \/ Providers!Answer(i, ok)
      PROVE  ProvidersInv'
  BY <1>4, Served, AnsweredProvider
<1>5. CASE Providers!LoadVersionInfo \/ (\E ok \in BOOLEAN : Providers!LoadPaymentSettings(ok))
           \/ \E p \in Providers!Offered : Providers!OpenDrawer(p)
  BY <1>5, StoreTells, PageActs
<1> QED
  BY <1>1, <1>3, <1>4, <1>5 DEF Providers!Next

LEMMA ProvidersStart ==
  ASSUME Providers!ConstantsTyped, Providers!Init
  PROVE  ProvidersInv
<1>1. Len(flight) = 0 /\ DOMAIN flight = {} /\ flight \in Seq(Providers!Requests)
      /\ ProviderMoves \in Nat /\ MaxFlight \in Nat
  BY DEF Providers!Init, Providers!ConstantsTyped
<1>2. /\ active = [p \in Providers!Offered |-> p = "stripe"]
      /\ keys = [p \in Providers!Offered |-> "old"] /\ store = [p \in {} |-> FALSE]
      /\ drawer = "none" /\ phase = "loading" /\ fields = [active |-> FALSE, keys |-> "none"]
      /\ errors = FALSE /\ wish = active /\ heard = TRUE /\ patient \in BOOLEAN /\ moves = 0
  BY DEF Providers!Init, Providers!Unknown, Providers!Blank
<1>3. active \in [Providers!Offered -> BOOLEAN]
  BY <1>2
<1>4. fields \in Providers!Copies
  BY <1>2 DEF Providers!Copies
<1>5. DOMAIN store = {}
  BY <1>2
<1>6. Providers!TypeOK
  <2>1. keys \in [Providers!Offered -> {"old", "new"}] /\ wish \in [Providers!Offered -> BOOLEAN]
    BY <1>2, <1>3
  <2>2. moves \in 0..ProviderMoves /\ Len(flight) <= MaxFlight
    BY <1>1, <1>2
  <2>3. DOMAIN store \subseteq Providers!Offered /\ \A p \in DOMAIN store : store[p] \in BOOLEAN
    BY <1>5
  <2>4. /\ drawer \in Providers!Offered \cup {"none"}
        /\ phase \in {"loading", "loaded", "subscribed"} /\ errors \in BOOLEAN
        /\ heard \in BOOLEAN /\ patient \in BOOLEAN
    BY <1>2
  <2> QED
    BY <1>1, <1>3, <1>4, <2>1, <2>2, <2>3, <2>4 DEF Providers!TypeOK
<1> QED
  BY <1>1, <1>2, <1>5, <1>6 DEF ProvidersInv, KeysTyped, ProvidersKept, ProvidersWait,
     ProvidersKnown

LEMMA ProvidersSafe ==
  ASSUME ProvidersInv
  PROVE  Providers!TypeOK /\ Providers!ActiveIsToggled
  BY DEF ProvidersInv, ProvidersKept, ProvidersKnown, Providers!ActiveIsToggled

-----------------------------------------------------------------------------
(* The digital content.                                                    *)

\* A list of rows has the keys that there are, each once, with their texts.
Lists(rows, ids) ==
  /\ \A k \in DOMAIN rows : rows[k].id \in ids
  /\ \A k, m \in DOMAIN rows : rows[k].id = rows[m].id => k = m
  /\ \A x \in ids : \E k \in DOMAIN rows : rows[k].id = x
Matches(rows, ids, texts) ==
  Lists(rows, ids) /\ \A k \in DOMAIN rows : rows[k].content = texts[rows[k].id]
\* No row that is shown as sold is of a key in s.
Spares(rows, s) == \A k \in DOMAIN rows : rows[k].sold => rows[k].id \notin s
RowOfSold(row) == row.id \in stored /\ content[row.id] = row.content
SoldSent(r) ==
  Spares(shown, r.item) /\ (r.kind = "load" /\ r.answer = "ok" => Matches(r.says, stored, content))
SoldKept ==
  patient =>
    /\ \A r, o \in flight : r = o
    /\ \A k \in DOMAIN shown : shown[k].sold => RowOfSold(shown[k])
    /\ \A k, m \in DOMAIN shown : shown[k].sold /\ shown[k].id = shown[m].id => shown[m].sold
    /\ \A r \in flight : SoldSent(r)
\* What the list lacks is what the request on its way does, or has done.
NewRow(x) == [id |-> x, content |-> Empty, sold |-> FALSE]
Saving(r) ==
  /\ Lists(shown, stored)
  /\ \A k \in DOMAIN shown : shown[k].content =
       IF shown[k].id \in r.item THEN r.text ELSE content[shown[k].id]
Due(r) ==
  /\ r.kind = "add" /\ r.answer = "sent" => Matches(shown, stored, content)
  /\ r.kind = "add" /\ r.answer = "ok" =>
       \E x \in Items : r.item = {x} /\ Matches(Append(shown, NewRow(x)), stored, content)
  /\ r.kind = "save" /\ r.answer = "sent" => Saving(r)
  /\ r.kind = "save" /\ r.answer = "ok" => Matches(shown, stored, content)
  /\ r.kind = "delete" => r.index \in DOMAIN shown
  /\ r.kind = "delete" /\ r.answer = "sent" =>
       Matches(shown, stored, content) /\ r.item = {shown[r.index].id}
  /\ r.kind = "delete" /\ r.answer = "ok" => Matches(Cut(shown, r.index), stored, content)
ListKept ==
  patient /\ ~strayed /\ drawerOpen /\ type = "data" =>
    /\ flight = {} /\ ~loading => Matches(shown, stored, content)
    /\ \A r \in flight : /\ r.heard /\ r.answer \in {"sent", "ok"}
                         /\ r.kind = "load" \/ loading \/ Due(r)
ContentInv == Content!TypeOK /\ SoldKept /\ ListKept

StockTyped ==
  /\ stored \subseteq Items /\ IsFiniteSet(stored)
  /\ content \in [Items -> Content!Contents] /\ delivered \in [Items -> Content!Contents]
  /\ sold \in [Items -> BOOLEAN]
DrawerTyped ==
  /\ type \in {"data", "file"}
  /\ drawerOpen \in BOOLEAN /\ loading \in BOOLEAN /\ shown \in Seq(Content!Row)
  /\ flight \subseteq Content!Requests /\ moves \in 0..ContentMoves
  /\ patient \in BOOLEAN /\ strayed \in BOOLEAN
LEMMA FiniteStock == \A S : Content!IsFiniteSet(S) <=> IsFiniteSet(S)
  BY Zenon DEF Content!IsFiniteSet, IsFiniteSet
LEMMA ContentTypes == Content!TypeOK <=> StockTyped /\ DrawerTyped
  BY FiniteStock DEF Content!TypeOK, StockTyped, DrawerTyped
LEMMA ContentTypesNext == Content!TypeOK' <=> StockTyped' /\ DrawerTyped'
  BY FiniteStock DEF Content!TypeOK, StockTyped, DrawerTyped

LEMMA RowsOf ==
  ASSUME NEW s \in Seq(Content!Row), NEW k \in DOMAIN s
  PROVE  /\ s[k] \in Content!Row /\ s[k].id \in Items /\ s[k].content \in Content!Contents
         /\ s[k].sold \in BOOLEAN /\ Len(s) \in Nat /\ DOMAIN s = 1..Len(s) /\ k \in Nat
<1>1. s[k] \in Content!Row /\ Len(s) \in Nat /\ DOMAIN s = 1..Len(s) /\ k \in Nat
  OBVIOUS
<1>2. \A y \in Content!Row : y.id \in Items /\ y.content \in Content!Contents /\ y.sold \in BOOLEAN
  BY DEF Content!Row
<1> QED
  BY <1>1, <1>2

\* A request that is answered: what must hold of the answer.
LEMMA ContentAnswered ==
  ASSUME ContentInv, NEW r \in flight, NEW x \in Content!Requests,
         flight' = (flight \ {r}) \cup {x}, StockTyped', strayed' \in BOOLEAN,
         UNCHANGED <<type, drawerOpen, loading, shown, moves, patient>>,
         x.kind = r.kind, x.heard = r.heard, strayed => strayed',
         patient =>
           /\ Spares(shown, x.item)
           /\ x.kind = "load" /\ x.answer = "ok" => Matches(x.says, stored', content')
           /\ \A k \in DOMAIN shown : shown[k].sold => RowOfSold(shown[k])',
         patient /\ ~strayed' /\ drawerOpen /\ type = "data" =>
           x.answer \in {"sent", "ok"} /\ (r.kind = "load" \/ loading \/ Due(x)')
  PROVE  ContentInv'
<1>1. StockTyped /\ DrawerTyped
  BY ContentTypes DEF ContentInv
<1>2. DrawerTyped'
  BY <1>1 DEF DrawerTyped
<1>3. ASSUME patient PROVE SoldKept'
  <2>1. flight' = {x}
    BY <1>3 DEF ContentInv, SoldKept
  <2>2. /\ patient' = patient /\ shown' = shown
        /\ \A k, m \in DOMAIN shown : shown[k].sold /\ shown[k].id = shown[m].id => shown[m].sold
    BY <1>3 DEF ContentInv, SoldKept
  <2>3. SoldSent(x)'
    BY <1>3, <2>2 DEF SoldSent, Spares, Matches, Lists
  <2>4. \A k \in DOMAIN shown' : shown'[k].sold => RowOfSold(shown[k])'
    BY <1>3, <2>2
  <2> QED
    BY <2>1, <2>2, <2>3, <2>4 DEF SoldKept
<1>4. ASSUME patient, ~strayed', drawerOpen, type = "data" PROVE ListKept'
  <2>1. flight' = {x} /\ r.heard
    BY <1>1, <1>4 DEF ContentInv, SoldKept, ListKept, DrawerTyped
  <2> QED
    BY <1>4, <2>1 DEF ListKept
<1> QED
  BY <1>2, <1>3, <1>4, ContentTypesNext DEF ContentInv, SoldKept, ListKept

\* A request that leaves.
LEMMA ContentAsked ==
  ASSUME ContentInv, NEW x \in Content!Requests, flight' = flight \cup {x},
         patient => flight = {},
         UNCHANGED <<type, stored, content, sold, delivered, patient>>,
         moves' \in 0..ContentMoves, drawerOpen' = TRUE, loading' \in BOOLEAN,
         strayed' \in BOOLEAN, shown' \in Seq(Content!Row),
         x.heard, x.answer = "sent",
         patient =>
           /\ Spares(shown', x.item)
           /\ \A k \in DOMAIN shown' : shown'[k].sold => RowOfSold(shown[k])'
           /\ \A k, m \in DOMAIN shown' :
                shown'[k].sold /\ shown'[k].id = shown'[m].id => shown'[m].sold,
         patient /\ ~strayed' /\ type = "data" => x.kind = "load" \/ loading' \/ Due(x)'
  PROVE  ContentInv'
<1>1. StockTyped /\ DrawerTyped
  BY ContentTypes DEF ContentInv
<1>2. DrawerTyped'
  BY <1>1 DEF DrawerTyped
<1>3. StockTyped'
  BY <1>1 DEF StockTyped
<1>4. ASSUME patient PROVE SoldKept'
  <2>1. flight' = {x} /\ patient' = patient
    BY <1>4
  <2>2. SoldSent(x)'
    BY <1>4, <2>1 DEF SoldSent, Spares
  <2> QED
    BY <1>4, <2>1, <2>2 DEF SoldKept
<1>5. ASSUME patient, ~strayed', type = "data" PROVE ListKept'
  <2>1. flight' = {x}
    BY <1>5
  <2> QED
    BY <1>5, <2>1 DEF ListKept
<1> QED
  BY <1>2, <1>3, <1>4, <1>5, ContentTypesNext DEF ContentInv, SoldKept, ListKept

\* An answer that is heard, or not.
LEMMA ContentHeard ==
  ASSUME ContentInv, NEW r \in flight, flight' = flight \ {r},
         UNCHANGED <<type, stored, content, sold, delivered, drawerOpen, moves, patient,
                     strayed>>,
         loading' \in BOOLEAN, shown' \in Seq(Content!Row),
         patient =>
           /\ \A k \in DOMAIN shown' : shown'[k].sold => RowOfSold(shown[k])'
           /\ \A k, m \in DOMAIN shown' :
                shown'[k].sold /\ shown'[k].id = shown'[m].id => shown'[m].sold,
         patient /\ ~strayed /\ drawerOpen /\ type = "data" /\ ~loading' =>
           Matches(shown', stored, content)
  PROVE  ContentInv'
<1>1. StockTyped /\ DrawerTyped
  BY ContentTypes DEF ContentInv
<1>2. DrawerTyped'
  BY <1>1 DEF DrawerTyped
<1>3. StockTyped'
  BY <1>1 DEF StockTyped
<1>4. ASSUME patient PROVE SoldKept'
  <2>1. flight' = {}
    BY <1>4 DEF ContentInv, SoldKept
  <2> QED
    BY <1>4, <2>1 DEF SoldKept
<1>5. ASSUME patient, ~strayed, drawerOpen, type = "data" PROVE ListKept'
  <2>1. flight' = {}
    BY <1>5 DEF ContentInv, SoldKept
  <2>2. ~loading' => Matches(shown, stored, content)'
    BY <1>5 DEF Matches, Lists
  <2> QED
    BY <1>5, <2>1, <2>2 DEF ListKept
<1> QED
  BY <1>2, <1>3, <1>4, <1>5, ContentTypesNext DEF ContentInv, SoldKept, ListKept

LEMMA RequestOf ==
  ASSUME NEW k \in {"load", "add", "save", "delete"}
  PROVE  /\ Content!Request(k) \in Content!Requests
         /\ Content!Request(k).kind = k /\ Content!Request(k).item = {}
         /\ Content!Request(k).heard = TRUE /\ Content!Request(k).answer = "sent"
         /\ Content!Request(k).index = 0 /\ Content!Request(k).text = Empty
         /\ Content!Request(k).says = <<>>
  BY DEF Content!Request, Content!Requests, Content!Contents

LEMMA SoldRows ==
  ASSUME ContentInv, patient
  PROVE  /\ \A k \in DOMAIN shown : shown[k].sold => RowOfSold(shown[k])
         /\ \A k, m \in DOMAIN shown :
              shown[k].sold /\ shown[k].id = shown[m].id => shown[m].sold
  BY DEF ContentInv, SoldKept

\* What the page asks for.
LEMMA DigitalOpened ==
  ASSUME Content!ConstantsTyped, ContentInv, Content!OpenDigital
  PROVE  ContentInv'
<1> DEFINE x == Content!Request("load")
<1>1. /\ moves < ContentMoves /\ moves' = moves + 1 /\ (patient => flight = {})
      /\ flight' = flight \cup {x} /\ drawerOpen' = TRUE /\ loading' = TRUE
      /\ shown' = <<>> /\ strayed' = FALSE
      /\ UNCHANGED <<type, stored, content, sold, delivered, patient>>
  BY DEF Content!OpenDigital, Content!Acts, Content!Asks, Content!server
<1>2. x \in Content!Requests /\ x.kind = "load" /\ x.heard /\ x.answer = "sent" /\ x.item = {}
  BY RequestOf
<1>3. moves' \in 0..ContentMoves
  BY <1>1 DEF ContentInv, Content!TypeOK, Content!ConstantsTyped
<1>4. DOMAIN shown' = {} /\ shown' \in Seq(Content!Row)
  BY <1>1
<1> HIDE DEF x
<1>5. Spares(shown', x.item)
  BY <1>4 DEF Spares
<1> QED
  BY <1>1, <1>2, <1>3, <1>4, <1>5, ContentAsked

LEMMA DigitalAdded ==
  ASSUME Content!ConstantsTyped, ContentInv, Content!AddDigital
  PROVE  ContentInv'
<1> DEFINE x == Content!Request("add")
<1>1. /\ moves < ContentMoves /\ moves' = moves + 1 /\ (patient => flight = {})
      /\ flight' = flight \cup {x} /\ drawerOpen /\ ~loading
      /\ UNCHANGED <<type, stored, content, sold, delivered, patient, drawerOpen, loading,
                     shown, strayed>>
  BY DEF Content!AddDigital, Content!Acts, Content!Asks, Content!server, Content!list
<1>2. x \in Content!Requests /\ x.kind = "add" /\ x.heard /\ x.answer = "sent" /\ x.item = {}
  BY RequestOf
<1>3. /\ moves' \in 0..ContentMoves /\ shown' \in Seq(Content!Row) /\ drawerOpen' = TRUE
      /\ loading' \in BOOLEAN /\ strayed' \in BOOLEAN
  BY <1>1 DEF ContentInv, Content!TypeOK, Content!ConstantsTyped
<1> HIDE DEF x
<1>4. Spares(shown', x.item)
  BY <1>2 DEF Spares
<1>5. ASSUME patient, ~strayed', type = "data" PROVE Due(x)'
  <2>1. Matches(shown, stored, content)
    BY <1>1, <1>5 DEF ContentInv, ListKept
  <2> QED
    BY <1>1, <1>2, <2>1 DEF Due, Matches, Lists
<1>6. patient => \A k \in DOMAIN shown' : shown'[k].sold => RowOfSold(shown[k])'
  BY <1>1, SoldRows DEF RowOfSold
<1> QED
  BY <1>1, <1>2, <1>3, <1>4, <1>5, <1>6, SoldRows, ContentAsked

LEMMA DigitalDeleted ==
  ASSUME Content!ConstantsTyped, ContentInv, NEW k \in DOMAIN shown, Content!DeleteDigital(k)
  PROVE  ContentInv'
<1> DEFINE s == shown[k].id
           x == [Content!Request("delete") EXCEPT !.item = {s}, !.index = k]
<1>1. /\ moves < ContentMoves /\ moves' = moves + 1 /\ (patient => flight = {})
      /\ flight' = flight \cup {x} /\ drawerOpen /\ ~loading /\ ~shown[k].sold
      /\ UNCHANGED <<type, stored, content, sold, delivered, patient, drawerOpen, loading,
                     shown, strayed>>
  BY DEF Content!DeleteDigital, Content!Editable, Content!IsCodeSold, Content!Acts,
     Content!Asks, Content!server, Content!list
<1>2. shown \in Seq(Content!Row)
  BY DEF ContentInv, Content!TypeOK
<1>3. s \in Items /\ k \in Nat
  BY <1>2, RowsOf
<1>4. PICK s0 \in Items : s0 = s
  BY <1>3
<1> DEFINE y == [Content!Request("delete") EXCEPT !.item = {s0}, !.index = k]
<1>5. /\ y \in Content!Requests /\ y.kind = "delete" /\ y.heard /\ y.answer = "sent"
      /\ y.item = {s0} /\ y.index = k
  BY <1>3, RequestOf DEF Content!Requests
<1>6. /\ moves' \in 0..ContentMoves /\ shown' \in Seq(Content!Row) /\ drawerOpen' = TRUE
      /\ loading' \in BOOLEAN /\ strayed' \in BOOLEAN
  BY <1>1 DEF ContentInv, Content!TypeOK, Content!ConstantsTyped
<1>7. flight' = flight \cup {y}
  BY <1>1, <1>4
<1> HIDE DEF x, y
<1>8. patient => Spares(shown', y.item)
  BY <1>1, <1>4, <1>5, SoldRows DEF Spares
<1>9. ASSUME patient, ~strayed', type = "data" PROVE Due(y)'
  <2>1. Matches(shown, stored, content)
    BY <1>1, <1>9 DEF ContentInv, ListKept
  <2> QED
    BY <1>1, <1>4, <1>5, <2>1 DEF Due, Matches, Lists
<1>10. patient => \A m \in DOMAIN shown' : shown'[m].sold => RowOfSold(shown[m])'
  BY <1>1, SoldRows DEF RowOfSold
<1>11. /\ patient => flight = {}
       /\ UNCHANGED <<type, stored, content, sold, delivered, patient, shown>>
  BY <1>1
<1> HIDE DEF s
<1> QED
  BY <1>5, <1>6, <1>7, <1>8, <1>9, <1>10, <1>11, SoldRows, ContentAsked

LEMMA TextChanged ==
  ASSUME NEW s \in Seq(Content!Row), NEW k \in DOMAIN s, NEW t \in Content!Contents
  PROVE  /\ [s EXCEPT ![k].content = t] \in Seq(Content!Row)
         /\ Len([s EXCEPT ![k].content = t]) = Len(s)
         /\ DOMAIN [s EXCEPT ![k].content = t] = DOMAIN s
         /\ \A m \in DOMAIN s :
              /\ [s EXCEPT ![k].content = t][m].id = s[m].id
              /\ [s EXCEPT ![k].content = t][m].sold = s[m].sold
              /\ [s EXCEPT ![k].content = t][m].content = IF m = k THEN t ELSE s[m].content
<1> DEFINE row == [s[k] EXCEPT !.content = t]
<1>1. s[k] \in Content!Row
  BY RowsOf
<1>2. row \in Content!Row /\ row.id = s[k].id /\ row.sold = s[k].sold /\ row.content = t
  BY <1>1 DEF Content!Row
<1>3. [s EXCEPT ![k].content = t] = [s EXCEPT ![k] = row]
  OBVIOUS
<1> HIDE DEF row
<1> DEFINE z == [s EXCEPT ![k] = row]
<1>4. /\ z \in Seq(Content!Row) /\ Len(z) = Len(s) /\ DOMAIN z = DOMAIN s /\ z[k] = row
      /\ \A j \in DOMAIN s \ {k} : z[j] = s[j]
  BY <1>2, ChangedAt
<1> HIDE DEF z
<1>5. \A m \in DOMAIN s :
        /\ z[m].id = s[m].id /\ z[m].sold = s[m].sold
        /\ z[m].content = IF m = k THEN t ELSE s[m].content
  BY <1>2, <1>4
<1> QED
  BY <1>3, <1>4, <1>5 DEF z

LEMMA DigitalSaved ==
  ASSUME Content!ConstantsTyped, ContentInv, NEW k \in DOMAIN shown,
         NEW t \in Content!Contents, Content!SaveData(k, t)
  PROVE  ContentInv'
<1> DEFINE s == shown[k].id
           x == [Content!Request("save") EXCEPT !.item = {s}, !.text = t]
<1>1. /\ moves < ContentMoves /\ moves' = moves + 1 /\ (patient => flight = {})
      /\ flight' = flight \cup {x} /\ drawerOpen /\ ~loading /\ ~shown[k].sold
      /\ shown' = [shown EXCEPT ![k].content = t]
      /\ UNCHANGED <<type, stored, content, sold, delivered, patient, drawerOpen, loading,
                     strayed>>
  BY DEF Content!SaveData, Content!Editable, Content!IsCodeSold, Content!Acts,
     Content!Asks, Content!server, Content!list
<1>2. shown \in Seq(Content!Row)
  BY DEF ContentInv, Content!TypeOK
<1>3. s \in Items /\ k \in Nat
  BY <1>2, RowsOf
<1>4. PICK s0 \in Items : s0 = s
  BY <1>3
<1> DEFINE y == [Content!Request("save") EXCEPT !.item = {s0}, !.text = t]
<1>5. /\ y \in Content!Requests /\ y.kind = "save" /\ y.heard /\ y.answer = "sent"
      /\ y.item = {s0} /\ y.text = t
  BY <1>3, RequestOf DEF Content!Requests
<1>6. /\ moves' \in 0..ContentMoves /\ drawerOpen' = TRUE
      /\ loading' \in BOOLEAN /\ strayed' \in BOOLEAN
  BY <1>1 DEF ContentInv, Content!TypeOK, Content!ConstantsTyped
<1>7. flight' = flight \cup {y}
  BY <1>1, <1>4
<1> HIDE DEF x, y
<1>8. /\ shown' \in Seq(Content!Row) /\ Len(shown') = Len(shown)
      /\ DOMAIN shown' = DOMAIN shown
      /\ \A m \in DOMAIN shown :
           /\ shown'[m].id = shown[m].id /\ shown'[m].sold = shown[m].sold
           /\ shown'[m].content = IF m = k THEN t ELSE shown[m].content
  BY <1>1, <1>2, TextChanged
<1>9. patient => Spares(shown', y.item)
  BY <1>1, <1>4, <1>5, <1>8, SoldRows DEF Spares
<1>10. ASSUME patient, ~strayed', type = "data" PROVE Due(y)'
  <2>1. Matches(shown, stored, content)
    BY <1>1, <1>10 DEF ContentInv, ListKept
  <2>2. \A m \in DOMAIN shown : shown[m].id = s0 <=> m = k
    BY <1>4, <2>1 DEF Matches, Lists
  <2>3. Lists(shown, stored)'
    BY <1>1, <1>8, <2>1 DEF Matches, Lists
  <2>4. Saving(y)'
    BY <1>1, <1>5, <1>8, <2>1, <2>2, <2>3 DEF Saving, Matches
  <2> QED
    BY <1>5, <2>4 DEF Due
<1>11. patient => \A m \in DOMAIN shown' : shown'[m].sold => RowOfSold(shown[m])'
  <2>1. ASSUME patient, NEW m \in DOMAIN shown, shown'[m].sold PROVE RowOfSold(shown[m])'
    <3>1. shown[m].sold /\ m # k /\ RowOfSold(shown[m])
      BY <1>1, <1>8, <2>1, SoldRows
    <3> QED
      BY <1>1, <1>8, <2>1, <3>1 DEF RowOfSold
  <2> QED
    BY <1>8, <2>1
<1>12. /\ patient => flight = {}
       /\ UNCHANGED <<type, stored, content, sold, delivered, patient>>
  BY <1>1
<1>13. patient => \A m, n \in DOMAIN shown' :
                    shown'[m].sold /\ shown'[m].id = shown'[n].id => shown'[n].sold
  BY <1>8, SoldRows
<1> HIDE DEF s
<1> QED
  BY <1>5, <1>6, <1>7, <1>8, <1>9, <1>10, <1>11, <1>12, <1>13, ContentAsked

LEMMA DigitalClosed ==
  ASSUME Content!ConstantsTyped, ContentInv, Content!CloseDrawer
  PROVE  ContentInv'
<1>1. /\ drawerOpen' = FALSE /\ loading' = FALSE /\ shown' = <<>>
      /\ flight' = {[r EXCEPT !.heard = FALSE] : r \in flight}
      /\ UNCHANGED <<type, stored, content, sold, delivered, moves, patient, strayed>>
  BY DEF Content!CloseDrawer, Content!server
<1>2. StockTyped /\ DrawerTyped
  BY ContentTypes DEF ContentInv
<1>3. \A r \in Content!Requests :
        /\ [r EXCEPT !.heard = FALSE] \in Content!Requests
        /\ [r EXCEPT !.heard = FALSE].kind = r.kind
        /\ [r EXCEPT !.heard = FALSE].answer = r.answer
        /\ [r EXCEPT !.heard = FALSE].says = r.says
  BY DEF Content!Requests
<1>4. StockTyped'
  BY <1>1, <1>2 DEF StockTyped
<1>5. flight' \subseteq Content!Requests
  BY <1>1, <1>2, <1>3 DEF DrawerTyped
<1>6. DrawerTyped' /\ DOMAIN shown' = {}
  <2>1. shown' \in Seq(Content!Row) /\ DOMAIN shown' = {}
    BY <1>1
  <2>2. /\ type' \in {"data", "file"} /\ moves' \in 0..ContentMoves /\ patient' \in BOOLEAN
        /\ strayed' \in BOOLEAN /\ drawerOpen' \in BOOLEAN /\ loading' \in BOOLEAN
    BY <1>1, <1>2 DEF DrawerTyped
  <2> QED
    BY <1>5, <2>1, <2>2 DEF DrawerTyped
<1>7. ASSUME patient PROVE SoldKept'
  <2>1. \A r, o \in flight : r = o
    BY <1>7 DEF ContentInv, SoldKept
  <2>2. \A r, o \in flight' : r = o
    BY <1>1, <2>1
  <2>3. ASSUME NEW x \in flight', x.kind = "load", x.answer = "ok"
        PROVE  Matches(x.says, stored, content)'
    <3>1. PICK r \in flight : x = [r EXCEPT !.heard = FALSE]
      BY <1>1
    <3>2. r \in Content!Requests
      BY <1>2 DEF DrawerTyped
    <3>3. r.kind = "load" /\ r.answer = "ok" /\ x.says = r.says
      BY <1>3, <2>3, <3>1, <3>2
    <3>4. Matches(r.says, stored, content)
      BY <1>7, <3>3 DEF ContentInv, SoldKept, SoldSent
    <3> QED
      BY <1>1, <3>3, <3>4 DEF Matches, Lists
  <2>4. (\A r \in flight : SoldSent(r))'
    BY <1>6, <2>3 DEF SoldSent, Spares
  <2> QED
    BY <1>6, <2>2, <2>4 DEF SoldKept
<1>8. ListKept'
  BY <1>1 DEF ListKept
<1> QED
  BY <1>1, <1>4, <1>6, <1>7, <1>8, ContentTypesNext DEF ContentInv, SoldKept

\* What the server answers.
LEMMA AnswerOf ==
  ASSUME NEW r \in Content!Requests, NEW a \in {"sent", "ok", "failed", "lost"}
  PROVE  /\ [r EXCEPT !.answer = a] \in Content!Requests
         /\ [r EXCEPT !.answer = a].kind = r.kind /\ [r EXCEPT !.answer = a].item = r.item
         /\ [r EXCEPT !.answer = a].heard = r.heard /\ [r EXCEPT !.answer = a].answer = a
         /\ [r EXCEPT !.answer = a].index = r.index /\ [r EXCEPT !.answer = a].text = r.text
         /\ [r EXCEPT !.answer = a].says = r.says
  BY DEF Content!Requests

LEMMA ContentAt ==
  ASSUME ContentInv, NEW r \in flight, r.answer = "sent"
  PROVE  /\ r \in Content!Requests /\ StockTyped /\ shown \in Seq(Content!Row)
         /\ patient => /\ Spares(shown, r.item)
                       /\ \A k \in DOMAIN shown : shown[k].sold => RowOfSold(shown[k])
         /\ patient /\ ~strayed /\ drawerOpen /\ type = "data" =>
              r.kind = "load" \/ loading \/ Due(r)
  BY ContentTypes DEF ContentInv, SoldKept, ListKept, SoldSent, DrawerTyped

\* A failure changes nothing.
LEMMA ContentFails ==
  ASSUME ContentInv, NEW r \in flight, Content!Arrives(r), Content!Fails(r)
  PROVE  ContentInv'
<1>1. PICK a \in {"failed", "lost"} : Content!Answered(r, a)
  BY DEF Content!Fails
<1>2. /\ r.answer = "sent" /\ strayed' = TRUE
      /\ UNCHANGED <<type, stored, content, sold, delivered, drawerOpen, loading, shown, moves,
                     patient>>
  BY DEF Content!Arrives, Content!Fails, Content!server, Content!list
<1> DEFINE x == [r EXCEPT !.answer = a]
<1>3. flight' = (flight \ {r}) \cup {x}
  BY <1>1 DEF Content!Answered
<1>4. /\ r \in Content!Requests /\ StockTyped
      /\ patient => /\ Spares(shown, r.item)
                    /\ \A k \in DOMAIN shown : shown[k].sold => RowOfSold(shown[k])
  BY <1>2, ContentAt
<1>5. /\ x \in Content!Requests /\ x.kind = r.kind /\ x.item = r.item /\ x.heard = r.heard
      /\ x.answer = a
  <2>1. r \in Content!Requests /\ a \in {"sent", "ok", "failed", "lost"}
    BY <1>4
  <2> QED
    BY <2>1, AnswerOf
<1> HIDE DEF x
<1>6. StockTyped'
  BY <1>2, <1>4 DEF StockTyped
<1>7. patient => \A k \in DOMAIN shown : shown[k].sold => RowOfSold(shown[k])'
  BY <1>2, <1>4 DEF RowOfSold
<1>8. patient => Spares(shown, x.item)
  BY <1>4, <1>5
<1>9. UNCHANGED <<type, drawerOpen, loading, shown, moves, patient>>
  BY <1>2
<1>10. a # "ok"
  OBVIOUS
<1> QED
  BY <1>2, <1>3, <1>5, <1>6, <1>7, <1>8, <1>9, <1>10, ContentAnswered

\* The list as the server has it.
LEMMA RowsListed ==
  ASSUME StockTyped, NEW order \in Content!SetToSeqs(stored)
  PROVE  Content!Rows(order) \in Seq(Content!Row) /\ Matches(Content!Rows(order), stored, content)
<1> DEFINE n == Cardinality(stored)
           row(k) == [id |-> order[k], content |-> content[order[k]], sold |-> sold[order[k]]]
<1>1. n \in Nat /\ Content!Cardinality(stored) = n
  <2>1. Content!Cardinality(stored) = n
    BY Zenon DEF Content!Cardinality, Cardinality
  <2> QED
    BY <2>1, FS_CardinalityType DEF StockTyped
<1>2. order \in [1..n -> stored] /\ \A i, j \in 1..n : i # j => order[i] # order[j]
  BY <1>1 DEF Content!SetToSeqs
<1>3. \A x \in stored : \E k \in 1..n : order[k] = x
  <2>1. SUFFICES ASSUME NEW x \in stored, \A k \in 1..n : order[k] # x PROVE FALSE
    OBVIOUS
  <2>2. IsFiniteSet(stored \ {x}) /\ Cardinality(stored \ {x}) = n - 1
    BY FS_RemoveElement DEF StockTyped
  <2>3. IsFiniteSet(1..n) /\ Cardinality(1..n) = n
    BY <1>1, FS_Interval
  <2>4. order \in [1..n -> stored \ {x}]
    BY <1>2, <2>1
  <2>5. Cardinality(stored \ {x}) < Cardinality(1..n)
    BY <1>1, <2>2, <2>3
  <2>6. \E i, j \in 1..n : i # j /\ order[i] = order[j]
    <3> HIDE DEF n
    <3> QED
      BY <2>2, <2>3, <2>4, <2>5, FS_PigeonHole
  <2> QED
    BY <1>2, <2>6
<1> HIDE DEF n
<1>4. \A k \in 1..n : row(k) \in Content!Row
  BY <1>2 DEF StockTyped, Content!Row
<1>5. Content!Rows(order) = [k \in 1..n |-> row(k)]
  BY <1>2 DEF Content!Rows
<1>6. \A k \in 1..n : row(k).id = order[k] /\ row(k).content = content[order[k]]
  OBVIOUS
<1> HIDE DEF row
<1>7. Content!Rows(order) \in Seq(Content!Row) /\ DOMAIN Content!Rows(order) = 1..n
  BY <1>1, <1>4, <1>5, MadeBySteps
<1>8. \A k \in 1..n : /\ Content!Rows(order)[k].id = order[k]
                      /\ Content!Rows(order)[k].content = content[order[k]]
  BY <1>5, <1>6
<1> QED
  BY <1>2, <1>3, <1>7, <1>8 DEF Matches, Lists

LEMMA ProductDigitalKeeps ==
  ASSUME ContentInv, NEW r \in flight, Content!ProductDigital(r)
  PROVE  ContentInv'
<1>1. CASE Content!Fails(r)
  BY <1>1, ContentFails DEF Content!ProductDigital
<1>2. CASE ~Content!Fails(r)
  <2>0. PICK order \in Content!SetToSeqs(stored) :
          flight' = (flight \ {r}) \cup {[r EXCEPT !.answer = "ok", !.says = Content!Rows(order)]}
    BY <1>2 DEF Content!ProductDigital
  <2>1. PICK s : s = Content!Rows(order)
    OBVIOUS
  <2> DEFINE x == [r EXCEPT !.answer = "ok", !.says = s]
  <2>2. /\ r.kind = "load" /\ r.answer = "sent" /\ flight' = (flight \ {r}) \cup {x}
        /\ UNCHANGED <<type, stored, content, sold, delivered, drawerOpen, loading, shown,
                       moves, patient, strayed>>
    BY <1>2, <2>0, <2>1 DEF Content!ProductDigital, Content!Arrives, Content!server,
       Content!list
  <2>3. /\ r \in Content!Requests /\ StockTyped
        /\ patient => /\ Spares(shown, r.item)
                      /\ \A k \in DOMAIN shown : shown[k].sold => RowOfSold(shown[k])
    BY <2>2, ContentAt
  <2>4. s \in Seq(Content!Row) /\ Matches(s, stored, content)
    BY <2>1, <2>3, RowsListed
  <2>5. /\ x \in Content!Requests /\ x.kind = r.kind /\ x.item = r.item /\ x.heard = r.heard
        /\ x.answer = "ok" /\ x.says = s
    BY <2>3, <2>4 DEF Content!Requests
  <2> HIDE DEF x
  <2>6. StockTyped' /\ strayed' \in BOOLEAN
    BY <2>2, <2>3 DEF StockTyped, ContentInv, Content!TypeOK
  <2>7. patient => \A k \in DOMAIN shown : shown[k].sold => RowOfSold(shown[k])'
    BY <2>2, <2>3 DEF RowOfSold
  <2>8. /\ patient => Spares(shown, x.item)
        /\ Matches(x.says, stored', content')
    BY <2>2, <2>3, <2>4, <2>5
  <2>9. UNCHANGED <<type, drawerOpen, loading, shown, moves, patient>> /\ strayed' = strayed
    BY <2>2
  <2> QED
    BY <2>2, <2>5, <2>6, <2>7, <2>8, <2>9, ContentAnswered
<1> QED
  BY <1>1, <1>2

\* Which key the server adds, deletes or sells.
LEMMA StockAdded ==
  ASSUME StockTyped, NEW x \in Items \ stored,
         stored' = stored \cup {x}, content' = [content EXCEPT ![x] = Empty],
         UNCHANGED <<sold, delivered>>
  PROVE  /\ StockTyped'
         /\ \A rows \in Seq(Content!Row) : Matches(rows, stored, content) =>
              Matches(Append(rows, NewRow(x)), stored', content')
<1>1. stored' \subseteq Items /\ IsFiniteSet(stored')
  BY FS_AddElement DEF StockTyped
<1>2. /\ content' \in [Items -> Content!Contents] /\ content'[x] = Empty
      /\ \A y \in Items \ {x} : content'[y] = content[y]
  BY DEF StockTyped, Content!Contents
<1>3. StockTyped'
  BY <1>1, <1>2 DEF StockTyped
<1>4. ASSUME NEW rows \in Seq(Content!Row), Matches(rows, stored, content)
      PROVE  Matches(Append(rows, NewRow(x)), stored', content')
  <2> DEFINE new == NewRow(x)
             more == Append(rows, new)
  <2>1. new \in Content!Row /\ new.id = x /\ new.content = Empty
    BY DEF NewRow, Content!Row, Content!Contents
  <2> HIDE DEF new
  <2>2. /\ DOMAIN more = 1..(Len(rows) + 1) /\ more[Len(rows) + 1] = new
        /\ \A k \in DOMAIN rows : more[k] = rows[k]
        /\ DOMAIN rows = 1..Len(rows) /\ Len(rows) \in Nat
    BY <2>1, AddedTo
  <2> HIDE DEF more
  <2>3. \A k \in DOMAIN more : k \in DOMAIN rows \/ k = Len(rows) + 1
    BY <2>2
  <2>4. Len(rows) + 1 \in DOMAIN more /\ \A k \in DOMAIN rows : k \in DOMAIN more
    BY <2>2
  <2>5. /\ \A k \in DOMAIN rows : rows[k].id \in stored /\ rows[k].id # x
        /\ \A k \in DOMAIN rows : rows[k].content = content'[rows[k].id]
    BY <1>2, <1>4 DEF Matches, Lists, StockTyped
  <2>6. Lists(more, stored')
    <3>1. \A k, m \in DOMAIN more : more[k].id = more[m].id => k = m
      BY <1>4, <2>1, <2>2, <2>3, <2>5 DEF Matches, Lists
    <3>2. \A y \in stored' : \E k \in DOMAIN more : more[k].id = y
      BY <1>4, <2>1, <2>2, <2>4 DEF Matches, Lists
    <3>3. \A k \in DOMAIN more : more[k].id \in stored'
      BY <2>1, <2>2, <2>3, <2>5
    <3> QED
      BY <3>1, <3>2, <3>3 DEF Lists
  <2>7. \A k \in DOMAIN more : more[k].content = content'[more[k].id]
    BY <1>2, <2>1, <2>2, <2>3, <2>5
  <2> QED
    BY <2>6, <2>7 DEF Matches, more, new
<1> QED
  BY <1>3, <1>4

LEMMA AddProductDigitalKeeps ==
  ASSUME ContentInv, NEW r \in flight, Content!AddProductDigital(r)
  PROVE  ContentInv'
<1>1. CASE Content!Fails(r)
  BY <1>1, ContentFails DEF Content!AddProductDigital
<1>2. CASE ~Content!Fails(r)
  <2>1. PICK x \in Items :
          /\ x \notin stored /\ stored' = stored \cup {x}
          /\ content' = [content EXCEPT ![x] = Empty] /\ UNCHANGED <<sold, delivered>>
          /\ \/ /\ flight' = (flight \ {r}) \cup {[r EXCEPT !.answer = "ok", !.item = {x}]}
                /\ UNCHANGED strayed
             \/ Content!Answered(r, "lost") /\ strayed' = TRUE
    BY <1>2 DEF Content!AddProductDigital
  <2>2. /\ r.kind = "add" /\ r.answer = "sent"
        /\ UNCHANGED <<type, drawerOpen, loading, shown, moves, patient>>
    BY DEF Content!AddProductDigital, Content!Arrives, Content!list
  <2>3. /\ r \in Content!Requests /\ StockTyped /\ shown \in Seq(Content!Row)
        /\ patient => /\ Spares(shown, r.item)
                      /\ \A k \in DOMAIN shown : shown[k].sold => RowOfSold(shown[k])
        /\ patient /\ ~strayed /\ drawerOpen /\ type = "data" => loading \/ Due(r)
    BY <2>2, ContentAt
  <2>4. /\ StockTyped'
        /\ \A rows \in Seq(Content!Row) : Matches(rows, stored, content) =>
             Matches(Append(rows, NewRow(x)), stored', content')
    BY <2>1, <2>3, StockAdded
  <2>5. ASSUME patient, NEW k \in DOMAIN shown, shown[k].sold
        PROVE  RowOfSold(shown[k])' /\ shown[k].id # x
    <3>1. shown[k].id \in stored /\ content[shown[k].id] = shown[k].content
      BY <2>3, <2>5 DEF RowOfSold
    <3>2. shown[k].id # x /\ shown[k].id \in Items
      BY <2>1, <2>3, <3>1, RowsOf
    <3>3. content'[shown[k].id] = content[shown[k].id]
      BY <2>1, <2>3, <3>2 DEF StockTyped
    <3> QED
      BY <2>1, <2>2, <3>1, <3>2, <3>3 DEF RowOfSold
  <2>6. patient => \A k \in DOMAIN shown : shown[k].sold => RowOfSold(shown[k])'
    BY <2>5
  <2>7. UNCHANGED <<type, drawerOpen, loading, shown, moves, patient>>
    BY <2>2
  <2>8. CASE UNCHANGED strayed
             /\ flight' = (flight \ {r}) \cup {[r EXCEPT !.answer = "ok", !.item = {x}]}
    <3> DEFINE y == [r EXCEPT !.answer = "ok", !.item = {x}]
    <3>1. /\ y \in Content!Requests /\ y.kind = "add" /\ y.heard = r.heard /\ y.item = {x}
          /\ y.answer = "ok"
      BY <2>2, <2>3 DEF Content!Requests
    <3>2. flight' = (flight \ {r}) \cup {y} /\ strayed' = strayed
      BY <2>8
    <3> HIDE DEF y
    <3>3. patient => Spares(shown, y.item)
      BY <2>5, <3>1 DEF Spares
    <3>4. ASSUME patient, ~strayed', drawerOpen, type = "data" PROVE loading \/ Due(y)'
      <4>1. loading \/ Matches(shown, stored, content)
        BY <2>2, <2>3, <3>2, <3>4 DEF Due
      <4>2. Matches(shown, stored, content) =>
              Matches(Append(shown, NewRow(x)), stored', content')
        BY <2>3, <2>4
      <4>3. Matches(Append(shown, NewRow(x)), stored', content') => Due(y)'
        BY <2>2, <3>1 DEF Due, NewRow
      <4> QED
        BY <4>1, <4>2, <4>3
    <3>5. strayed' \in BOOLEAN
      BY <3>2 DEF ContentInv, Content!TypeOK
    <3> QED
      BY <2>2, <2>4, <2>6, <2>7, <3>1, <3>2, <3>3, <3>4, <3>5, ContentAnswered
  <2>9. CASE strayed' = TRUE /\ Content!Answered(r, "lost")
    <3> DEFINE y == [r EXCEPT !.answer = "lost"]
    <3>1. /\ y \in Content!Requests /\ y.kind = r.kind /\ y.heard = r.heard
          /\ y.item = r.item /\ y.answer = "lost"
      BY <2>3, AnswerOf
    <3>2. flight' = (flight \ {r}) \cup {y} /\ strayed' = TRUE
      BY <2>9 DEF Content!Answered
    <3> HIDE DEF y
    <3>3. patient => Spares(shown, y.item)
      BY <2>3, <3>1
    <3> QED
      BY <2>4, <2>6, <2>7, <3>1, <3>2, <3>3, ContentAnswered
  <2> QED
    BY <2>1, <2>8, <2>9
<1> QED
  BY <1>1, <1>2

LEMMA TextStored ==
  ASSUME ContentInv, NEW r \in flight, Content!UpdateProductDigital(r)
  PROVE  ContentInv'
<1>1. CASE Content!Fails(r)
  BY <1>1, ContentFails DEF Content!UpdateProductDigital
<1>2. CASE ~Content!Fails(r)
  <2>1. /\ content' = [x \in Items |->
             IF x \in r.item \cap stored THEN r.text ELSE content[x]]
        /\ Content!Reaches(r) /\ UNCHANGED <<stored, sold, delivered>>
        /\ r.kind = "save" /\ r.answer = "sent"
        /\ UNCHANGED <<type, drawerOpen, loading, shown, moves, patient>>
    BY <1>2 DEF Content!UpdateProductDigital, Content!Arrives, Content!list
  <2>2. /\ r \in Content!Requests /\ StockTyped /\ shown \in Seq(Content!Row)
        /\ patient => /\ Spares(shown, r.item)
                      /\ \A k \in DOMAIN shown : shown[k].sold => RowOfSold(shown[k])
        /\ patient /\ ~strayed /\ drawerOpen /\ type = "data" => loading \/ Due(r)
    BY <2>1, ContentAt
  <2>3. r.text \in Content!Contents
    BY <2>2 DEF Content!Requests
  <2>4. content' \in [Items -> Content!Contents]
    BY <2>1, <2>2, <2>3 DEF StockTyped
  <2>5. StockTyped'
    BY <2>1, <2>2, <2>4 DEF StockTyped
  <2>6. ASSUME patient, NEW k \in DOMAIN shown, shown[k].sold PROVE RowOfSold(shown[k])'
    <3>1. /\ shown[k].id \in stored /\ content[shown[k].id] = shown[k].content
          /\ shown[k].id \notin r.item /\ shown[k].id \in Items
      BY <2>2, <2>6, RowsOf DEF RowOfSold, Spares
    <3>2. content'[shown[k].id] = content[shown[k].id]
      BY <2>1, <3>1
    <3> QED
      BY <2>1, <3>1, <3>2 DEF RowOfSold
  <2>7. ASSUME Saving(r) PROVE Matches(shown, stored, content)'
    <3>1. Lists(shown, stored) /\ stored \subseteq Items
      BY <2>2, <2>7 DEF Saving, StockTyped
    <3>2. ASSUME NEW k \in DOMAIN shown PROVE shown[k].content = content'[shown[k].id]
      <4>1. shown[k].id \in stored /\ shown[k].id \in Items
        BY <3>1 DEF Lists
      <4> QED
        BY <2>1, <2>7, <4>1 DEF Saving
    <3> QED
      BY <2>1, <3>1, <3>2 DEF Matches, Lists
  <2>8. \E a \in {"ok", "lost"} :
          Content!Answered(r, a) /\ (a = "ok" => strayed' = strayed) /\ (a = "lost" => strayed')
    BY <2>1 DEF Content!Reaches
  <2>9. PICK a \in {"ok", "lost"} :
          Content!Answered(r, a) /\ (a = "ok" => strayed' = strayed) /\ (a = "lost" => strayed')
    BY <2>8
  <2>10. strayed' \in BOOLEAN /\ (strayed => strayed')
    <3>1. strayed \in BOOLEAN
      BY DEF ContentInv, Content!TypeOK
    <3>2. strayed' = strayed \/ strayed' = TRUE
      BY <2>1 DEF Content!Reaches
    <3> QED
      BY <3>1, <3>2
  <2> DEFINE y == [r EXCEPT !.answer = a]
  <2>11. /\ y \in Content!Requests /\ y.kind = r.kind /\ y.heard = r.heard
         /\ y.item = r.item /\ y.answer = a
    <3>1. r \in Content!Requests /\ a \in {"sent", "ok", "failed", "lost"}
      BY <2>2
    <3> QED
      BY <3>1, AnswerOf
  <2>12. flight' = (flight \ {r}) \cup {y}
    BY <2>9 DEF Content!Answered
  <2> HIDE DEF y
  <2>13. patient => /\ Spares(shown, y.item)
                    /\ \A k \in DOMAIN shown : shown[k].sold => RowOfSold(shown[k])'
    BY <2>2, <2>6, <2>11
  <2>14. ASSUME patient, ~strayed', drawerOpen, type = "data"
         PROVE  a = "ok" /\ (loading \/ Due(y)')
    <3>1. a = "ok" /\ ~strayed
      BY <2>9, <2>14
    <3>2. loading \/ Saving(r)
      BY <2>1, <2>2, <2>14, <3>1 DEF Due
    <3>3. Matches(shown, stored, content)' => Due(y)'
      BY <2>1, <2>11, <3>1 DEF Due
    <3> QED
      BY <2>7, <3>1, <3>2, <3>3
  <2>15. UNCHANGED <<type, drawerOpen, loading, shown, moves, patient>>
    BY <2>1
  <2> QED
    BY <2>1, <2>5, <2>10, <2>11, <2>12, <2>13, <2>14, <2>15, ContentAnswered
<1> QED
  BY <1>1, <1>2

\* The list without the row at the place of the button, when the key is gone.
LEMMA RowGone ==
  ASSUME NEW rows \in Seq(Content!Row), Matches(rows, stored, content), NEW k \in DOMAIN rows
  PROVE  Matches(Cut(rows, k), stored \ {rows[k].id}, content)
<1> DEFINE less == Cut(rows, k)
           at(m) == IF m < k THEN m ELSE m + 1
<1>1. /\ DOMAIN rows = 1..Len(rows) /\ Len(rows) \in Nat /\ DOMAIN less = 1..(Len(rows) - 1)
      /\ \A m \in 1..(Len(rows) - 1) : less[m] = IF m < k THEN rows[m] ELSE rows[m + 1]
  <2>1. /\ less \in Seq(Content!Row) /\ Len(less) = Len(rows) - 1
        /\ \A m \in 1..(Len(rows) - 1) : less[m] = IF m < k THEN rows[m] ELSE rows[m + 1]
    BY CutFrom, ZenonT(40)
  <2> HIDE DEF less
  <2> QED
    BY <2>1, SMTT(30)
<1>2. \A m \in DOMAIN less : at(m) \in DOMAIN rows \ {k} /\ less[m] = rows[at(m)]
  <2> HIDE DEF less
  <2> QED
    BY <1>1
<1>3. \A i, m \in DOMAIN less : at(i) = at(m) => i = m
  <2> HIDE DEF less
  <2> QED
    BY <1>1
<1>4. \A j \in DOMAIN rows \ {k} : \E m \in DOMAIN less : less[m] = rows[j]
  BY CutHas
<1> HIDE DEF less, at
<1>5. Lists(less, stored \ {rows[k].id})
  <2>1. \A m \in DOMAIN less : less[m].id \in stored \ {rows[k].id}
    BY <1>2 DEF Matches, Lists
  <2>2. \A i, m \in DOMAIN less : less[i].id = less[m].id => i = m
    BY <1>2, <1>3 DEF Matches, Lists
  <2>3. ASSUME NEW x \in stored \ {rows[k].id} PROVE \E m \in DOMAIN less : less[m].id = x
    <3>1. PICK j \in DOMAIN rows : rows[j].id = x
      BY DEF Matches, Lists
    <3> QED
      BY <1>4, <2>3, <3>1
  <2> QED
    BY <2>1, <2>2, <2>3 DEF Lists
<1>6. \A m \in DOMAIN less : less[m].content = content[less[m].id]
  BY <1>2 DEF Matches
<1> QED
  BY <1>5, <1>6 DEF Matches, less

LEMMA DeleteProductDigitalKeeps ==
  ASSUME ContentInv, NEW r \in flight, Content!DeleteProductDigital(r)
  PROVE  ContentInv'
<1>1. CASE Content!Fails(r)
  BY <1>1, ContentFails DEF Content!DeleteProductDigital
<1>2. CASE ~Content!Fails(r)
  <2>1. /\ stored' = stored \ r.item /\ UNCHANGED <<content, sold, delivered>>
        /\ \/ Content!Reaches(r)
           \/ type = "file" /\ Content!Answered(r, "failed") /\ strayed' = TRUE
        /\ r.kind = "delete" /\ r.answer = "sent"
        /\ UNCHANGED <<type, drawerOpen, loading, shown, moves, patient>>
    BY <1>2 DEF Content!DeleteProductDigital, Content!Arrives, Content!list
  <2>2. /\ r \in Content!Requests /\ StockTyped /\ shown \in Seq(Content!Row)
        /\ patient => /\ Spares(shown, r.item)
                      /\ \A k \in DOMAIN shown : shown[k].sold => RowOfSold(shown[k])
        /\ patient /\ ~strayed /\ drawerOpen /\ type = "data" => loading \/ Due(r)
    BY <2>1, ContentAt
  <2>3. /\ StockTyped' /\ stored \ r.item \subseteq stored'
        /\ Due(r) => r.index \in DOMAIN shown
                     /\ Matches(Cut(shown, r.index), stored', content')
    <3>1. StockTyped'
      <4>1. IsFiniteSet(stored \ r.item)
        BY <2>2, FS_Subset DEF StockTyped
      <4> QED
        BY <2>1, <2>2, <4>1 DEF StockTyped
    <3>2. ASSUME Due(r)
          PROVE  r.index \in DOMAIN shown /\ Matches(Cut(shown, r.index), stored', content')
      <4>1. /\ Matches(shown, stored, content) /\ r.index \in DOMAIN shown
            /\ r.item = {shown[r.index].id}
        BY <2>1, <3>2 DEF Due
      <4>2. Matches(Cut(shown, r.index), stored \ {shown[r.index].id}, content)
        BY <2>2, <4>1, RowGone
      <4> QED
        BY <2>1, <4>1, <4>2
    <3> QED
      BY <2>1, <3>1, <3>2
  <2>4. ASSUME patient, NEW k \in DOMAIN shown, shown[k].sold PROVE RowOfSold(shown[k])'
    <3>1. /\ shown[k].id \in stored /\ content[shown[k].id] = shown[k].content
          /\ shown[k].id \notin r.item
      BY <2>2, <2>4 DEF RowOfSold, Spares
    <3> QED
      BY <2>1, <2>3, <3>1 DEF RowOfSold
  <2>5. \E a \in {"ok", "failed", "lost"} :
          Content!Answered(r, a) /\ (a = "ok" => strayed' = strayed) /\ (a # "ok" => strayed')
    <3>1. CASE Content!Reaches(r)
      BY <3>1 DEF Content!Reaches
    <3>2. CASE Content!Answered(r, "failed") /\ strayed' = TRUE
      BY <3>2
    <3> QED
      BY <2>1, <3>1, <3>2
  <2>5a. PICK a \in {"ok", "failed", "lost"} :
          Content!Answered(r, a) /\ (a = "ok" => strayed' = strayed) /\ (a # "ok" => strayed')
    BY <2>5
  <2>6. strayed' \in BOOLEAN /\ (strayed => strayed')
    <3>1. strayed \in BOOLEAN
      BY DEF ContentInv, Content!TypeOK
    <3>2. strayed' = strayed \/ strayed' = TRUE
      BY <2>1 DEF Content!Reaches
    <3> QED
      BY <3>1, <3>2
  <2> DEFINE y == [r EXCEPT !.answer = a]
  <2>7. /\ y \in Content!Requests /\ y.kind = r.kind /\ y.heard = r.heard
        /\ y.item = r.item /\ y.answer = a /\ y.index = r.index
    <3>1. r \in Content!Requests /\ a \in {"sent", "ok", "failed", "lost"}
      BY <2>2
    <3> QED
      BY <3>1, AnswerOf
  <2>8. flight' = (flight \ {r}) \cup {y}
    BY <2>5a DEF Content!Answered
  <2> HIDE DEF y
  <2>9. patient => /\ Spares(shown, y.item)
                   /\ \A k \in DOMAIN shown : shown[k].sold => RowOfSold(shown[k])'
    BY <2>2, <2>4, <2>7
  <2>10. ASSUME patient, ~strayed', drawerOpen, type = "data"
         PROVE  a = "ok" /\ (loading \/ Due(y)')
    <3>1. a = "ok" /\ ~strayed
      BY <2>5a, <2>10
    <3>2. loading \/ Due(r)
      BY <2>2, <2>10, <3>1
    <3>3. ASSUME Due(r) PROVE Due(y)'
      <4>1. r.index \in DOMAIN shown /\ Matches(Cut(shown, r.index), stored', content')
        BY <2>3, <3>3
      <4> QED
        BY <2>1, <2>7, <3>1, <4>1 DEF Due, Cut
    <3> QED
      BY <3>1, <3>2, <3>3
  <2>11. UNCHANGED <<type, drawerOpen, loading, shown, moves, patient>>
    BY <2>1
  <2>12. StockTyped'
    BY <2>3
  <2> QED
    BY <2>1, <2>6, <2>7, <2>8, <2>9, <2>10, <2>11, <2>12, ContentAnswered
<1> QED
  BY <1>1, <1>2

LEMMA ClaimKeeps ==
  ASSUME ContentInv, NEW x \in Items, Content!Claim(x)
  PROVE  ContentInv'
<1>1. /\ sold' = [sold EXCEPT ![x] = TRUE]
      /\ delivered' = [delivered EXCEPT ![x] = content[x]]
      /\ UNCHANGED <<type, stored, content, drawerOpen, loading, shown, flight, moves, patient,
                     strayed>>
  BY DEF Content!Claim, Content!list
<1>2. StockTyped /\ DrawerTyped
  BY ContentTypes DEF ContentInv
<1>3. StockTyped'
  BY <1>1, <1>2 DEF StockTyped
<1>4. DrawerTyped'
  BY <1>1, <1>2 DEF DrawerTyped
<1>5. SoldKept'
  BY <1>1 DEF ContentInv, SoldKept, SoldSent, Spares, Matches, Lists, RowOfSold
<1>6. ListKept'
  BY <1>1 DEF ContentInv, ListKept, Due, Saving
<1> QED
  BY <1>3, <1>4, <1>5, <1>6, ContentTypesNext DEF ContentInv

\* The list is the one it was, or changed by the answer.
LEMMA RowsStay ==
  ASSUME ContentInv, patient, UNCHANGED <<stored, content, shown>>
  PROVE  /\ \A k \in DOMAIN shown' : shown'[k].sold => RowOfSold(shown[k])'
         /\ \A k, m \in DOMAIN shown' :
              shown'[k].sold /\ shown'[k].id = shown'[m].id => shown'[m].sold
  BY SoldRows DEF RowOfSold

LEMMA HearsIs ==
  ASSUME NEW r, NEW a, Content!Hears(r, a)
  PROVE  /\ r \in flight /\ r.answer \in a /\ flight' = flight \ {r}
         /\ UNCHANGED <<type, stored, content, sold, delivered, drawerOpen, moves, patient,
                        strayed>>
  BY DEF Content!Hears, Content!server

\* What a request that is heard was due, when it is the only one.
LEMMA DueOf ==
  ASSUME ContentInv, NEW r \in flight, patient, ~strayed, drawerOpen, type = "data"
  PROVE  /\ r.heard /\ r.answer \in {"sent", "ok"}
         /\ r.kind = "load" \/ loading \/ Due(r)
  BY DEF ContentInv, ListKept

LEMMA UnheardKeeps ==
  ASSUME ContentInv, NEW r \in flight, Content!Ignored(r) \/ Content!SaveHeard(r)
  PROVE  ContentInv'
<1>1. /\ \E a : Content!Hears(r, a)
      /\ UNCHANGED <<loading, shown>>
      /\ Content!Ignored(r) => r.answer # "sent" /\ (~r.heard \/ r.answer # "ok")
      /\ Content!SaveHeard(r) => r.kind = "save" /\ r.answer = "ok"
  BY DEF Content!Ignored, Content!SaveHeard, Content!Hears
<1>2. /\ flight' = flight \ {r}
      /\ UNCHANGED <<type, stored, content, sold, delivered, drawerOpen, moves, patient,
                     strayed>>
  BY <1>1, HearsIs
<1>3. loading' \in BOOLEAN /\ shown' \in Seq(Content!Row)
  BY <1>1 DEF ContentInv, Content!TypeOK
<1>4. ASSUME patient, ~strayed, drawerOpen, type = "data", ~loading'
      PROVE  Matches(shown', stored, content)
  BY <1>1, <1>4, DueOf DEF Due
<1>5. UNCHANGED <<stored, content, shown>>
  BY <1>1, <1>2
<1> QED
  BY <1>2, <1>3, <1>4, <1>5, RowsStay, ContentHeard

LEMMA LoadKeeps ==
  ASSUME ContentInv, NEW r \in flight, Content!LoadDigital(r)
  PROVE  ContentInv'
<1>1. /\ r.kind = "load" /\ flight' = flight \ {r}
      /\ UNCHANGED <<type, stored, content, sold, delivered, drawerOpen, moves, patient,
                     strayed>>
      /\ r.answer \in {"ok", "failed", "lost"}
  BY HearsIs DEF Content!LoadDigital
<1>2. StockTyped /\ DrawerTyped /\ r \in Content!Requests
  BY ContentTypes DEF ContentInv, DrawerTyped
<1>3. CASE r.heard /\ r.answer = "ok"
  <2>1. loading' = FALSE /\ shown' = r.says
    BY <1>3 DEF Content!LoadDigital
  <2>2. shown' \in Seq(Content!Row)
    BY <1>2, <2>1 DEF Content!Requests
  <2>3. ASSUME patient PROVE Matches(r.says, stored, content)
    BY <1>1, <1>3, <2>3 DEF ContentInv, SoldKept, SoldSent
  <2>4. ASSUME patient
        PROVE  /\ \A k \in DOMAIN shown' : shown'[k].sold => RowOfSold(shown[k])'
               /\ \A k, m \in DOMAIN shown' :
                    shown'[k].sold /\ shown'[k].id = shown'[m].id => shown'[m].sold
    <3>1. stored' = stored /\ content' = content
      BY <1>1
    <3> QED
      BY <2>1, <2>3, <2>4, <3>1 DEF RowOfSold, Matches, Lists
  <2> QED
    BY <1>1, <2>1, <2>2, <2>3, <2>4, ContentHeard
<1>4. CASE ~(r.heard /\ r.answer = "ok")
  <2>1. UNCHANGED shown /\ (loading' = FALSE \/ loading' = loading)
    BY <1>4 DEF Content!LoadDigital
  <2>2. loading' \in BOOLEAN /\ shown' \in Seq(Content!Row)
    BY <1>2, <2>1 DEF DrawerTyped
  <2>3. ~(patient /\ ~strayed /\ drawerOpen /\ type = "data")
    BY <1>1, <1>4, DueOf
  <2>4. UNCHANGED <<stored, content, shown>>
    BY <1>1, <2>1
  <2> QED
    BY <1>1, <2>2, <2>3, <2>4, RowsStay, ContentHeard
<1> QED
  BY <1>3, <1>4

\* A new key is shown under its number, or the answer is one that the page
\* cannot read.
LEMMA AddHeardKeeps ==
  ASSUME ContentInv, NEW r \in flight, Content!AddHeard(r)
  PROVE  ContentInv'
<1>1. /\ r.kind = "add" /\ r.answer = "ok" /\ r.heard /\ flight' = flight \ {r}
      /\ UNCHANGED <<type, stored, content, sold, delivered, drawerOpen, moves, patient,
                     strayed>>
      /\ loading' = loading
  BY HearsIs DEF Content!AddHeard
<1>2. StockTyped /\ DrawerTyped /\ r \in Content!Requests
  BY ContentTypes DEF ContentInv, DrawerTyped
<1>3. CASE type = "file" /\ UNCHANGED shown
  <2>1. loading' \in BOOLEAN /\ shown' \in Seq(Content!Row)
    BY <1>1, <1>2, <1>3 DEF DrawerTyped
  <2>2. UNCHANGED <<stored, content, shown>>
    BY <1>1, <1>3
  <2>3. type # "data"
    BY <1>3
  <2> QED
    BY <1>1, <2>1, <2>2, <2>3, RowsStay, ContentHeard
<1>4. ASSUME type = "data", NEW x \in r.item, shown' = Append(shown, NewRow(x))
      PROVE  ContentInv'
  <2>1. x \in Items /\ shown \in Seq(Content!Row) /\ Len(shown) \in Nat
        /\ DOMAIN shown = 1..Len(shown)
    BY <1>2 DEF Content!Requests, DrawerTyped
  <2>2. /\ NewRow(x) \in Content!Row /\ NewRow(x).id = x /\ NewRow(x).sold = FALSE
    BY <2>1 DEF NewRow, Content!Row, Content!Contents
  <2>3. /\ shown' \in Seq(Content!Row) /\ DOMAIN shown' = 1..(Len(shown) + 1)
        /\ shown'[Len(shown) + 1] = NewRow(x) /\ \A k \in DOMAIN shown : shown'[k] = shown[k]
    BY <1>4, <2>1, <2>2, AddedTo
  <2>4. \A k \in DOMAIN shown' : shown'[k].sold => k \in DOMAIN shown /\ shown'[k] = shown[k]
    BY <2>1, <2>2, <2>3
  <2>5. ASSUME patient
        PROVE  /\ \A k \in DOMAIN shown' : shown'[k].sold => RowOfSold(shown[k])'
               /\ \A k, m \in DOMAIN shown' :
                    shown'[k].sold /\ shown'[k].id = shown'[m].id => shown'[m].sold
    <3>1. /\ \A k \in DOMAIN shown : shown[k].sold => RowOfSold(shown[k])
          /\ \A k, m \in DOMAIN shown : shown[k].sold /\ shown[k].id = shown[m].id => shown[m].sold
      BY <2>5, SoldRows
    <3>2. \A k \in DOMAIN shown : shown[k].sold => shown[k].id # x
      BY <1>4, <2>5 DEF ContentInv, SoldKept, SoldSent, Spares
    <3>3. stored' = stored /\ content' = content
      BY <1>1
    <3>4. ASSUME NEW k \in DOMAIN shown', shown'[k].sold PROVE RowOfSold(shown[k])'
      <4>1. RowOfSold(shown[k]) /\ shown'[k] = shown[k]
        BY <2>4, <3>1, <3>4
      <4> QED
        BY <3>3, <4>1 DEF RowOfSold
    <3>5. ASSUME NEW k \in DOMAIN shown', NEW m \in DOMAIN shown', shown'[k].sold,
                 shown'[k].id = shown'[m].id
          PROVE  shown'[m].sold
      <4>1. k \in DOMAIN shown /\ shown'[k] = shown[k] /\ shown[k].id # x
        BY <2>4, <3>2, <3>5
      <4>2. m \in DOMAIN shown
        BY <2>1, <2>2, <2>3, <3>5, <4>1
      <4> QED
        BY <2>3, <3>1, <3>5, <4>1, <4>2
    <3> QED
      BY <3>4, <3>5
  <2>6. ASSUME patient, ~strayed, drawerOpen, ~loading'
        PROVE  Matches(shown', stored, content)
    <3>1. Due(r)
      BY <1>1, <1>4, <2>6, DueOf
    <3>2. PICK y \in Items : r.item = {y} /\ Matches(Append(shown, NewRow(y)), stored, content)
      BY <1>1, <3>1 DEF Due
    <3> QED
      BY <1>4, <3>2
  <2>7. loading' \in BOOLEAN
    BY <1>1, <1>2 DEF DrawerTyped
  <2> QED
    BY <1>1, <2>3, <2>5, <2>6, <2>7, ContentHeard
<1> QED
  BY <1>3, <1>4 DEF Content!AddHeard, NewRow

LEMMA DeleteHeardKeeps ==
  ASSUME ContentInv, NEW r \in flight, Content!DeleteHeard(r)
  PROVE  ContentInv'
<1>1. /\ r.kind = "delete" /\ r.answer = "ok" /\ r.heard /\ flight' = flight \ {r}
      /\ UNCHANGED <<type, stored, content, sold, delivered, drawerOpen, moves, patient,
                     strayed>>
      /\ loading' = loading
      /\ shown' = IF r.index \in DOMAIN shown THEN Cut(shown, r.index) ELSE shown
  BY HearsIs DEF Content!DeleteHeard, Content!WithoutRow, Content!RemoveAt, Cut
<1>2. StockTyped /\ DrawerTyped
  BY ContentTypes DEF ContentInv
<1>3. shown \in Seq(Content!Row)
  BY <1>2 DEF DrawerTyped
<1>4. /\ shown' \in Seq(Content!Row)
      /\ \A k \in DOMAIN shown' : \E m \in DOMAIN shown : shown'[k] = shown[m]
  <2>1. CASE r.index \in DOMAIN shown
    BY <1>1, <1>3, <2>1, CutFrom, CutKeeps
  <2>2. CASE r.index \notin DOMAIN shown
    BY <1>1, <1>3, <2>2
  <2> QED
    BY <2>1, <2>2
<1>5. ASSUME patient
      PROVE  /\ \A k \in DOMAIN shown' : shown'[k].sold => RowOfSold(shown[k])'
             /\ \A k, m \in DOMAIN shown' :
                  shown'[k].sold /\ shown'[k].id = shown'[m].id => shown'[m].sold
  <2>1. /\ \A k \in DOMAIN shown : shown[k].sold => RowOfSold(shown[k])
        /\ \A k, m \in DOMAIN shown : shown[k].sold /\ shown[k].id = shown[m].id => shown[m].sold
    BY <1>5, SoldRows
  <2>2. stored' = stored /\ content' = content
    BY <1>1
  <2>3. ASSUME NEW k \in DOMAIN shown', shown'[k].sold PROVE RowOfSold(shown[k])'
    <3>1. PICK m \in DOMAIN shown : shown'[k] = shown[m]
      BY <1>4
    <3>2. RowOfSold(shown[m])
      BY <2>1, <2>3, <3>1
    <3> QED
      BY <2>2, <3>1, <3>2 DEF RowOfSold
  <2> QED
    BY <1>4, <2>1, <2>3
<1>6. ASSUME patient, ~strayed, drawerOpen, type = "data", ~loading'
      PROVE  Matches(shown', stored, content)
  <2>1. Due(r)
    BY <1>1, <1>6, DueOf
  <2> QED
    BY <1>1, <2>1 DEF Due
<1>7. loading' \in BOOLEAN
  BY <1>1, <1>2 DEF DrawerTyped
<1> QED
  BY <1>1, <1>4, <1>5, <1>6, <1>7, ContentHeard

LEMMA ContentStart == Content!ConstantsTyped /\ Content!Init => ContentInv
<1> SUFFICES ASSUME Content!ConstantsTyped, Content!Init PROVE ContentInv
  OBVIOUS
<1>1. StockTyped
  <2>1. stored \subseteq Items /\ IsFiniteSet(stored)
    <3>1. stored \in {{}} \cup {{x} : x \in Items}
      BY DEF Content!Init
    <3>2. CASE stored = {}
      BY <3>2, FS_EmptySet
    <3>3. ASSUME NEW x \in Items, stored = {x}
          PROVE  stored \subseteq Items /\ IsFiniteSet(stored)
      BY <3>3, FS_Singleton
    <3> QED
      BY <3>1, <3>2, <3>3
  <2>2. content \in [Items -> Content!Contents]
    <3>1. PICK t \in Texts :
            content = [x \in Items |-> IF x \in stored THEN t ELSE Empty]
      BY DEF Content!Init
    <3> QED
      BY <3>1 DEF Content!Contents
  <2>3. sold \in [Items -> BOOLEAN] /\ delivered \in [Items -> Content!Contents]
    BY DEF Content!Init, Content!Contents
  <2> QED
    BY <2>1, <2>2, <2>3 DEF StockTyped
<1>2. DrawerTyped
  <2>1. moves = 0 /\ 0 \in 0..ContentMoves
    BY DEF Content!Init, Content!ConstantsTyped
  <2>2. shown = <<>> /\ shown \in Seq(Content!Row) /\ flight = {}
    BY DEF Content!Init
  <2> QED
    BY <2>1, <2>2 DEF Content!Init, DrawerTyped
<1>3. shown = <<>> /\ flight = {} /\ drawerOpen = FALSE
  BY DEF Content!Init
<1> QED
  BY <1>1, <1>2, <1>3, ContentTypes DEF ContentInv, SoldKept, ListKept

LEMMA ContentStep ==
  Content!ConstantsTyped /\ ContentInv /\ [Content!Next]_(Content!vars) => ContentInv'
<1> SUFFICES ASSUME Content!ConstantsTyped, ContentInv, [Content!Next]_(Content!vars)
             PROVE  ContentInv'
  OBVIOUS
<1>1. CASE UNCHANGED Content!vars
  <2>1. UNCHANGED <<type, stored, content, sold, delivered, drawerOpen, loading, shown,
                    flight, moves, patient, strayed>>
    BY <1>1 DEF Content!vars, Content!server, Content!list
  <2>2. StockTyped /\ DrawerTyped
    BY ContentTypes DEF ContentInv
  <2>3. StockTyped' /\ DrawerTyped'
    BY <2>1, <2>2 DEF StockTyped, DrawerTyped
  <2>4. SoldKept'
    BY <2>1 DEF ContentInv, SoldKept, SoldSent, Spares, Matches, Lists, RowOfSold
  <2>5. ListKept'
    BY <2>1 DEF ContentInv, ListKept, Due, Saving
  <2> QED
    BY <2>3, <2>4, <2>5, ContentTypesNext DEF ContentInv
<1>2. CASE Content!OpenDigital \/ Content!CloseDrawer \/ Content!AddDigital
  BY <1>2, DigitalOpened, DigitalClosed, DigitalAdded
<1>3. ASSUME NEW k \in DOMAIN shown,
             Content!DeleteDigital(k) \/ \E t \in Content!Contents : Content!SaveData(k, t)
      PROVE  ContentInv'
  BY <1>3, DigitalDeleted, DigitalSaved
<1>4. ASSUME NEW r \in flight,
             \/ Content!ProductDigital(r) \/ Content!AddProductDigital(r)
             \/ Content!UpdateProductDigital(r) \/ Content!DeleteProductDigital(r)
      PROVE  ContentInv'
  BY <1>4, ProductDigitalKeeps, AddProductDigitalKeeps, TextStored, DeleteProductDigitalKeeps
<1>5. ASSUME NEW r \in flight,
             \/ Content!LoadDigital(r) \/ Content!AddHeard(r) \/ Content!SaveHeard(r)
             \/ Content!DeleteHeard(r) \/ Content!Ignored(r)
      PROVE  ContentInv'
  BY <1>5, LoadKeeps, AddHeardKeeps, UnheardKeeps, DeleteHeardKeeps
<1>6. ASSUME NEW x \in Items, Content!Claim(x) PROVE ContentInv'
  BY <1>6, ClaimKeeps
<1> QED
  BY <1>1, <1>2, <1>3, <1>4, <1>5, <1>6 DEF Content!Next

LEMMA ContentSafe ==
  ASSUME ContentInv
  PROVE  Content!TypeOK /\ Content!SoldKeysAreSafe /\ Content!ListAgrees
<1>1. Content!TypeOK /\ StockTyped /\ DrawerTyped
  BY ContentTypes DEF ContentInv
<1>2. Content!SoldKeysAreSafe
  BY DEF ContentInv, SoldKept, RowOfSold, Content!SoldKeysAreSafe
<1>3. ASSUME Content!Quiet, type = "data"
      PROVE  /\ Content!IsInjective(Content!ShownIds) /\ Content!Range(Content!ShownIds) = stored
             /\ \A k \in DOMAIN shown : shown[k].content = content[shown[k].id]
  <2>1. Matches(shown, stored, content)
    BY <1>3 DEF Content!Quiet, ContentInv, ListKept
  <2>2. DOMAIN Content!ShownIds = DOMAIN shown
        /\ \A k \in DOMAIN shown : Content!ShownIds[k] = shown[k].id
    BY DEF Content!ShownIds
  <2> QED
    BY <2>1, <2>2 DEF Matches, Lists, Content!IsInjective, Content!Range
<1> QED
  BY <1>1, <1>2, <1>3 DEF Content!ListAgrees

-----------------------------------------------------------------------------
(* The images.                                                             *)

\* The pictures of a product as the server has them.
Had(p) == {Images!Stored(x) : x \in Images!Of(p)}
Ids(s) == {s[k].id : k \in DOMAIN s}
\* A list of images that are the product's, if they are there at all, and that
\* has each one which was ever put in order.
Sound(ids, p) ==
  /\ \A x \in ids : owner[x] \in {p, None}
  /\ \A x \in placed : owner[x] = p => x \in ids
Posted(r) ==
  /\ product # None /\ r.of = product
  /\ r.kind = "reorder" => Images!Range(r.order) = Ids(productImages)
  /\ r.kind = "reread" /\ r.answer = "ok" => Sound(Ids(r.says), product)
  /\ r.kind = "upload" /\ r.answer = "ok" => owner[r.image] \in {product, None}
PlacesKept ==
  /\ \A x \in placed : owner[x] # None
  /\ patient =>
       /\ \A r, o \in flight : r = o
       /\ product # None => Sound(Ids(productImages), product)
       /\ \A r \in flight : Posted(r)
\* What the form lacks is what the answer on its way says.
NewPicture(x) == [id |-> x, position |-> 0, main |-> FALSE]
Replied(r) ==
  /\ r.answer # "lost"
  /\ r.answer \in {"sent", "failed"} /\ r.kind # "reread" =>
       Images!Range(productImages) = Had(product)
  /\ r.kind = "upload" /\ r.answer = "ok" =>
       Images!Range(productImages) \cup {NewPicture(r.image)} = Had(product)
  /\ r.kind = "reread" /\ r.answer = "ok" => Images!Range(r.says) = Had(product)
PicturesKept ==
  patient /\ ~strayed /\ product # None =>
    /\ flight = {} => Images!Range(productImages) = Had(product)
    /\ \A r \in flight : Replied(r)
ImagesInv ==
  /\ Images!TypeOK /\ Images!OneMain /\ Images!PlacedApart
  /\ drawerOpen \/ flight # {} => product # None
  /\ \A r \in flight : r.kind = "upload" /\ r.answer = "ok" => r.image \in Pictures
  /\ PlacesKept /\ PicturesKept

\* In a finite set that is put in order, each place is taken by one member.
Below(S, R, x) == {y \in S : <<y, x>> \in R}
Ordered(S, R) ==
  /\ \A x, y, z \in S : <<x, y>> \in R /\ <<y, z>> \in R => <<x, z>> \in R
  /\ \A x \in S : <<x, x>> \notin R
  /\ \A x, y \in S : x # y => <<x, y>> \in R \/ <<y, x>> \in R
InPlaces(S, R) ==
  /\ Cardinality(S) \in Nat
  /\ \A x \in S : Cardinality(Below(S, R, x)) \in 0..(Cardinality(S) - 1)
  /\ \A x, y \in S : Cardinality(Below(S, R, x)) = Cardinality(Below(S, R, y)) => x = y
  /\ \A k \in 1..Cardinality(S) : \E x \in S : Cardinality(Below(S, R, x)) = k - 1
LEMMA Ranked ==
  ASSUME NEW S, IsFiniteSet(S), NEW R, Ordered(S, R)
  PROVE  InPlaces(S, R)
<1> DEFINE n == Cardinality(S)
           rank == [x \in S |-> Cardinality(Below(S, R, x))]
<1>1. n \in Nat
  BY FS_CardinalityType
<1>2. \A x \in S : Below(S, R, x) \in SUBSET S
  BY DEF Below
<1>3. ASSUME NEW x \in S
      PROVE  IsFiniteSet(Below(S, R, x)) /\ Cardinality(Below(S, R, x)) \in Nat
  BY <1>2, FS_Subset, FS_CardinalityType
<1>4. ASSUME NEW x \in S PROVE Cardinality(Below(S, R, x)) < n
  <2>1. Below(S, R, x) # S
    BY DEF Below, Ordered
  <2>2. Cardinality(Below(S, R, x)) <= n /\ Cardinality(Below(S, R, x)) # n
    BY <1>2, <2>1, FS_Subset
  <2> QED
    BY <1>1, <1>3, <2>2
<1>5. ASSUME NEW x \in S, NEW y \in S, <<x, y>> \in R
      PROVE  Cardinality(Below(S, R, x)) # Cardinality(Below(S, R, y))
  <2>1. Below(S, R, x) \in SUBSET Below(S, R, y)
    BY <1>5 DEF Below, Ordered
  <2>2. x \in Below(S, R, y) /\ x \notin Below(S, R, x)
    BY <1>5 DEF Below, Ordered
  <2>3. IsFiniteSet(Below(S, R, y)) /\ Below(S, R, x) # Below(S, R, y)
    BY <1>3, <2>2
  <2> QED
    BY <2>1, <2>3, FS_Subset
<1>6. \A x, y \in S : Cardinality(Below(S, R, x)) = Cardinality(Below(S, R, y)) => x = y
  BY <1>5 DEF Ordered
<1>7. rank \in [S -> 0..(n - 1)]
  <2>1. \A x \in S : Cardinality(Below(S, R, x)) \in 0..(n - 1)
    BY <1>1, <1>3, <1>4
  <2> HIDE DEF n
  <2> QED
    BY <2>1
<1>8. rank \in Injection(S, 0..(n - 1))
  <2>1. \A x, y \in S : rank[x] = rank[y] => x = y
    BY <1>6
  <2> HIDE DEF rank, n
  <2>2. DOMAIN rank = S
    BY <1>7
  <2> QED
    BY <1>7, <2>1, <2>2 DEF Injection, IsInjective
<1>9. IsFiniteSet(0..(n - 1)) /\ Cardinality(0..(n - 1)) = n
  <2>1. 0 \in Int /\ n - 1 \in Int /\ (0 > n - 1 <=> n = 0) /\ n - 1 - 0 + 1 = n
    BY <1>1
  <2> HIDE DEF n
  <2> QED
    BY <2>1, FS_Interval
<1>10. rank \in Surjection(S, 0..(n - 1))
  <2> HIDE DEF rank
  <2> QED
    BY <1>8, <1>9, FS_Injection
<1>11. \A m \in 0..(n - 1) : \E x \in S : rank[x] = m
  BY <1>10 DEF Surjection
<1>12. ASSUME NEW k \in 1..n PROVE \E x \in S : Cardinality(Below(S, R, x)) = k - 1
  <2>1. k - 1 \in 0..(n - 1)
    BY <1>1, <1>12
  <2> QED
    BY <1>11, <2>1
<1> QED
  BY <1>1, <1>3, <1>4, <1>6, <1>12 DEF InPlaces

LEMMA OneCount == \A S : Images!Cardinality(S) = Cardinality(S)
  BY Zenon DEF Images!Cardinality, Cardinality
LEMMA ImagesAssumed == Images!ConstantsTyped
  BY FormsAssumption
LEMMA FinitePictures == Images!ConstantsTyped => IsFiniteSet(Pictures) /\ Pictures \subseteq Nat
<1>1. \A S : Images!IsFiniteSet(S) <=> IsFiniteSet(S)
  BY Zenon DEF Images!IsFiniteSet, IsFiniteSet
<1> QED
  BY <1>1 DEF Images!ConstantsTyped

\* What the server lists is each image of the product, once.
PicturesTyped ==
  /\ owner \in [Pictures -> Products \cup {None}]
  /\ position \in [Pictures -> Nat] /\ main \in [Pictures -> BOOLEAN]
  /\ placed \subseteq Pictures
LEMMA ServerLists ==
  ASSUME Images!ConstantsTyped, PicturesTyped, NEW p
  PROVE  /\ Images!ServerImages(p) \in Seq(Images!Picture)
         /\ Images!Range(Images!ServerImages(p)) = Had(p)
         /\ Ids(Images!ServerImages(p)) = Images!Of(p)
<1> DEFINE S == Images!Of(p)
           n == Cardinality(S)
           R == {z \in Pictures \X Pictures : Images!ListedBefore(z[1], z[2])}
           nth(k) == Images!Nth(S, Images!ListedBefore, k)
<1>1. S \in SUBSET Pictures /\ Pictures \subseteq Nat /\ IsFiniteSet(S)
  <2>1. S \in SUBSET Pictures
    BY DEF Images!Of
  <2> QED
    BY <2>1, FS_Subset, FinitePictures
<1>2. \A x, y \in Pictures :
        <<x, y>> \in R <=> position[x] < position[y] \/ (position[x] = position[y] /\ x < y)
  BY DEF Images!ListedBefore
<1>3. \A x \in Pictures : x \in Nat /\ position[x] \in Nat
  BY <1>1 DEF PicturesTyped
<1> HIDE DEF R
<1> HIDE DEF S
<1>4. Ordered(S, R)
  <2>1. ASSUME NEW x \in S, NEW y \in S, NEW z \in S, <<x, y>> \in R, <<y, z>> \in R
        PROVE  <<x, z>> \in R
    <3>1. x \in Pictures /\ y \in Pictures /\ z \in Pictures
      BY <1>1
    <3>2. /\ position[x] \in Nat /\ position[y] \in Nat /\ position[z] \in Nat
          /\ x \in Nat /\ y \in Nat /\ z \in Nat
      BY <1>3, <3>1
    <3> DEFINE Bef(a, b) ==
                 position[a] < position[b] \/ (position[a] = position[b] /\ a < b)
    <3>3. Bef(x, y) /\ Bef(y, z)
      BY <1>2, <2>1, <3>1
    <3>4. Bef(x, z)
      BY <3>2, <3>3
    <3> QED
      BY <1>2, <3>1, <3>4
  <2>2. ASSUME NEW x \in S PROVE <<x, x>> \notin R
    BY <1>1, <1>2, <1>3
  <2>3. ASSUME NEW x \in S, NEW y \in S, x # y PROVE <<x, y>> \in R \/ <<y, x>> \in R
    <3>1. x \in Pictures /\ y \in Pictures
      BY <1>1
    <3>2. position[x] \in Nat /\ position[y] \in Nat /\ x \in Nat /\ y \in Nat
      BY <1>3, <3>1
    <3>3. \/ position[x] < position[y] \/ (position[x] = position[y] /\ x < y)
          \/ position[y] < position[x] \/ (position[y] = position[x] /\ y < x)
      BY <2>3, <3>2
    <3> QED
      BY <1>2, <3>1, <3>3
  <2> QED
    BY <2>1, <2>2, <2>3 DEF Ordered
<1>5. ASSUME NEW x \in S
      PROVE  Images!Cardinality({y \in S : Images!ListedBefore(y, x)}) =
               Cardinality(Below(S, R, x))
  <2>1. {y \in S : Images!ListedBefore(y, x)} = Below(S, R, x)
    BY <1>1, <1>2, <1>5 DEF Below, Images!ListedBefore
  <2> QED
    BY <2>1, OneCount
<1>6. /\ n \in Nat
      /\ \A x \in S : Cardinality(Below(S, R, x)) \in 0..(n - 1)
      /\ \A x, y \in S : Cardinality(Below(S, R, x)) = Cardinality(Below(S, R, y)) => x = y
      /\ \A k \in 1..n : \E x \in S : Cardinality(Below(S, R, x)) = k - 1
  <2>1. InPlaces(S, R)
    BY <1>1, <1>4, Ranked
  <2> QED
    BY <2>1 DEF InPlaces
<1>7. ASSUME NEW k \in 1..n
      PROVE  nth(k) \in S /\ Cardinality(Below(S, R, nth(k))) = k - 1
  <2>1. \E x \in S : Images!Cardinality({y \in S : Images!ListedBefore(y, x)}) = k - 1
    BY <1>5, <1>6
  <2>2. nth(k) \in S /\ Images!Cardinality({y \in S : Images!ListedBefore(y, nth(k))}) = k - 1
    BY <2>1 DEF Images!Nth
  <2> QED
    BY <1>5, <2>2
<1>8. ASSUME NEW x \in S PROVE \E k \in 1..n : nth(k) = x
  <2> DEFINE k == Cardinality(Below(S, R, x)) + 1
  <2>1. k \in 1..n /\ k - 1 = Cardinality(Below(S, R, x))
    BY <1>6
  <2> HIDE DEF k
  <2>2. nth(k) \in S /\ Cardinality(Below(S, R, nth(k))) = k - 1
    BY <1>7, <2>1
  <2>3. nth(k) = x
    BY <1>6, <2>1, <2>2
  <2> QED
    BY <2>1, <2>3
<1>9. Images!ServerImages(p) = [k \in 1..n |-> Images!Stored(nth(k))]
  BY OneCount DEF Images!ServerImages, S
<1>10. \A x \in Pictures : Images!Stored(x) \in Images!Picture /\ Images!Stored(x).id = x
  BY DEF Images!Stored, Images!Picture, PicturesTyped
<1> HIDE DEF n, nth
<1>11. \A k \in 1..n : Images!Stored(nth(k)) \in Images!Picture /\ Images!Stored(nth(k)).id = nth(k)
  BY <1>1, <1>7, <1>10
<1> DEFINE s == [k \in 1..n |-> Images!Stored(nth(k))]
<1>12. s \in Seq(Images!Picture) /\ DOMAIN s = 1..n /\ \A k \in 1..n : s[k] = Images!Stored(nth(k))
  <2>1. s \in [1..n -> Images!Picture]
    BY <1>11
  <2> HIDE DEF s
  <2>2. s \in Seq(Images!Picture)
    BY <1>6, <2>1, MadeBySteps
  <2> QED
    BY <2>1, <2>2 DEF s
<1> HIDE DEF s
<1>13. Images!Range(s) = Had(p)
  <2>1. ASSUME NEW y \in Images!Range(s) PROVE y \in Had(p)
    BY <1>7, <1>12, <2>1 DEF Images!Range, Had, S
  <2>2. ASSUME NEW y \in Had(p) PROVE y \in Images!Range(s)
    <3>1. PICK x \in S : y = Images!Stored(x)
      BY <2>2 DEF Had, S
    <3>2. PICK k \in 1..n : nth(k) = x
      BY <1>8
    <3> QED
      BY <1>12, <3>1, <3>2 DEF Images!Range
  <2> QED
    BY <2>1, <2>2
<1>14. Ids(s) = S
  <2>1. \A k \in DOMAIN s : s[k].id = nth(k) /\ nth(k) \in S
    BY <1>7, <1>11, <1>12
  <2> QED
    BY <1>8, <1>12, <2>1 DEF Ids
<1> QED
  BY <1>9, <1>12, <1>13, <1>14 DEF s, S

\* What the form sorts is what it holds.
LEMMA FormSorts ==
  ASSUME productImages \in Seq(Images!Picture)
  PROVE  /\ Images!SortedImages \in Seq(Images!Picture)
         /\ DOMAIN Images!SortedImages = DOMAIN productImages
         /\ Ids(Images!SortedImages) = Ids(productImages)
<1> DEFINE n == Len(productImages)
           S == DOMAIN productImages
           R == {z \in Nat \X Nat : Images!ShownBefore(z[1], z[2])}
           nth(k) == Images!Nth(S, Images!ShownBefore, k)
<1>1. n \in Nat /\ S = 1..n /\ \A k \in S : k \in Nat /\ productImages[k] \in Images!Picture
  OBVIOUS
<1>2. \A k \in S : productImages[k].position \in Nat
  BY <1>1 DEF Images!Picture
<1>3. IsFiniteSet(S) /\ Cardinality(S) = n
  <2>1. 1 \in Int /\ n \in Int /\ (1 > n <=> n = 0) /\ n - 1 + 1 = n
    BY <1>1
  <2>2. IsFiniteSet(1..n) /\ Cardinality(1..n) = IF 1 > n THEN 0 ELSE n - 1 + 1
    BY <2>1, FS_Interval
  <2> HIDE DEF n, S
  <2> QED
    BY <1>1, <2>1, <2>2
<1>4. \A x, y \in Nat : <<x, y>> \in R <=> Images!ShownBefore(x, y)
  OBVIOUS
<1> HIDE DEF R, S, n
<1>5. Ordered(S, R)
  <2> DEFINE At(x) == productImages[x].position
  <2>1. \A x, y \in S : <<x, y>> \in R <=> At(x) < At(y) \/ (At(x) = At(y) /\ x < y)
    BY <1>1, <1>4 DEF Images!ShownBefore
  <2>2. \A x \in S : At(x) \in Nat /\ x \in Nat
    BY <1>1, <1>2
  <2> HIDE DEF At
  <2>3. ASSUME NEW x \in S, NEW y \in S, NEW z \in S, <<x, y>> \in R, <<y, z>> \in R
        PROVE  <<x, z>> \in R
    <3>1. /\ At(x) \in Nat /\ At(y) \in Nat /\ At(z) \in Nat
          /\ x \in Nat /\ y \in Nat /\ z \in Nat
      BY <2>2
    <3>2. /\ At(x) < At(y) \/ (At(x) = At(y) /\ x < y)
          /\ At(y) < At(z) \/ (At(y) = At(z) /\ y < z)
      BY <2>1, <2>3
    <3>3. At(x) < At(z) \/ (At(x) = At(z) /\ x < z)
      BY <3>1, <3>2
    <3> QED
      BY <2>1, <3>3
  <2>4. ASSUME NEW x \in S PROVE <<x, x>> \notin R
    BY <2>1, <2>2
  <2>5. ASSUME NEW x \in S, NEW y \in S, x # y PROVE <<x, y>> \in R \/ <<y, x>> \in R
    <3>1. At(x) \in Nat /\ At(y) \in Nat /\ x \in Nat /\ y \in Nat
      BY <2>2
    <3>2. \/ At(x) < At(y) \/ (At(x) = At(y) /\ x < y)
          \/ At(y) < At(x) \/ (At(y) = At(x) /\ y < x)
      BY <2>5, <3>1
    <3> QED
      BY <2>1, <3>2
  <2> QED
    BY <2>3, <2>4, <2>5 DEF Ordered
<1>6. InPlaces(S, R)
  BY <1>3, <1>5, Ranked
<1>7. ASSUME NEW x \in S
      PROVE  Images!Cardinality({y \in S : Images!ShownBefore(y, x)}) =
               Cardinality(Below(S, R, x))
  <2>1. {y \in S : Images!ShownBefore(y, x)} = Below(S, R, x)
    BY <1>1, <1>4 DEF Below
  <2> QED
    BY <2>1, OneCount
<1>8. ASSUME NEW k \in S
      PROVE  nth(k) \in S /\ Cardinality(Below(S, R, nth(k))) = k - 1
  <2>1. \E x \in S : Images!Cardinality({y \in S : Images!ShownBefore(y, x)}) = k - 1
    <3>1. k \in 1..Cardinality(S)
      BY <1>1, <1>3
    <3>2. PICK x \in S : Cardinality(Below(S, R, x)) = k - 1
      BY <1>6, <3>1 DEF InPlaces
    <3> QED
      BY <1>7, <3>2
  <2>2. nth(k) \in S /\ Images!Cardinality({y \in S : Images!ShownBefore(y, nth(k))}) = k - 1
    BY <2>1 DEF Images!Nth
  <2> QED
    BY <1>7, <2>2
<1>9. ASSUME NEW x \in S PROVE \E k \in S : nth(k) = x
  <2> DEFINE k == Cardinality(Below(S, R, x)) + 1
  <2>1. k \in S /\ k - 1 = Cardinality(Below(S, R, x))
    BY <1>1, <1>3, <1>6 DEF InPlaces
  <2> HIDE DEF k
  <2>2. nth(k) \in S /\ Cardinality(Below(S, R, nth(k))) = k - 1
    BY <1>8, <2>1
  <2>3. nth(k) = x
    BY <1>6, <2>1, <2>2 DEF InPlaces
  <2> QED
    BY <2>1, <2>3
<1>10. Images!SortedImages = [k \in S |-> productImages[nth(k)]]
  BY DEF Images!SortedImages, S
<1> HIDE DEF nth
<1> DEFINE s == [k \in S |-> productImages[nth(k)]]
<1>11. s \in Seq(Images!Picture) /\ DOMAIN s = S /\ \A k \in S : s[k] = productImages[nth(k)]
  <2>1. s \in [1..n -> Images!Picture] /\ \A k \in S : s[k] = productImages[nth(k)]
    BY <1>1, <1>8
  <2> HIDE DEF s
  <2>2. s \in Seq(Images!Picture) /\ DOMAIN s = 1..n
    BY <1>1, <2>1, MadeBySteps
  <2> QED
    BY <1>1, <2>1, <2>2
<1> HIDE DEF s
<1>12. Ids(s) = Ids(productImages)
  <2>1. ASSUME NEW y \in Ids(s) PROVE y \in Ids(productImages)
    BY <1>8, <1>11, <2>1 DEF Ids, S
  <2>2. ASSUME NEW y \in Ids(productImages) PROVE y \in Ids(s)
    <3>1. PICK x \in S : y = productImages[x].id
      BY <2>2 DEF Ids, S
    <3>2. PICK k \in S : nth(k) = x
      BY <1>9
    <3> QED
      BY <1>11, <3>1, <3>2 DEF Ids
  <2> QED
    BY <2>1, <2>2
<1> QED
  BY <1>10, <1>11, <1>12 DEF s, S

\* An image that is dragged to another place is still there, and so are the others.
Put(c, j, e) == SubSeq(c, 1, j - 1) \o <<e>> \o SubSeq(c, j, Len(c))
IsPut(d, S, c, j, e) ==
  /\ d \in Seq(S) /\ DOMAIN d = 1..(Len(c) + 1)
  /\ \A k \in 1..(Len(c) + 1) :
       d[k] = IF k < j THEN c[k] ELSE IF k = j THEN e ELSE c[k - 1]
LEMMA PutAt ==
  ASSUME NEW S, NEW c \in Seq(S), NEW e \in S, NEW j \in 1..(Len(c) + 1)
  PROVE  IsPut(Put(c, j, e), S, c, j, e)
<1> DEFINE a == SubSeq(c, 1, j - 1)
           b == SubSeq(c, j, Len(c))
           d == a \o <<e>>
<1>1. Len(c) \in Nat /\ j \in Nat /\ 1 <= j /\ j <= Len(c) + 1 /\ DOMAIN c = 1..Len(c)
  OBVIOUS
<1>2. a \in Seq(S) /\ Len(a) = j - 1 /\ \A k \in 1..(j - 1) : a[k] = c[k]
  BY <1>1
<1>3. b \in Seq(S) /\ Len(b) = Len(c) - j + 1 /\ \A k \in 1..(Len(c) - j + 1) : b[k] = c[j + k - 1]
  BY <1>1
<1> HIDE DEF a, b
<1>4. /\ d \in Seq(S) /\ Len(d) = j /\ d[j] = e
      /\ \A k \in 1..(j - 1) : d[k] = c[k]
  <2>1. <<e>> \in Seq(S) /\ Len(<<e>>) = 1 /\ <<e>>[1] = e
    OBVIOUS
  <2>2. d \in Seq(S) /\ Len(d) = j
    BY <1>1, <1>2, <2>1
  <2>3. \A k \in 1..j : d[k] = IF k <= j - 1 THEN a[k] ELSE <<e>>[k - (j - 1)]
    BY <1>1, <1>2, <2>1, Concatenated
  <2>4. d[j] = <<e>>[1]
    <3>1. j \in 1..j /\ ~(j <= j - 1) /\ j - (j - 1) = 1
      BY <1>1
    <3> QED
      BY <2>3, <3>1
  <2>5. ASSUME NEW k \in 1..(j - 1) PROVE d[k] = a[k]
    <3>1. k \in 1..j /\ k <= j - 1
      BY <1>1
    <3> QED
      BY <2>3, <3>1
  <2> QED
    BY <1>2, <2>1, <2>2, <2>4, <2>5
<1> HIDE DEF d
<1>5. d \o b \in Seq(S) /\ Len(d \o b) = Len(c) + 1
  <2>1. d \o b \in Seq(S) /\ Len(d \o b) = Len(d) + Len(b)
    <3>1. d \in Seq(S) /\ b \in Seq(S)
      BY <1>3, <1>4
    <3> QED
      BY <3>1
  <2>2. Len(d) + Len(b) = Len(c) + 1
    BY <1>1, <1>3, <1>4
  <2> QED
    BY <2>1, <2>2
<1>6. ASSUME NEW k \in 1..(Len(c) + 1)
      PROVE  (d \o b)[k] = IF k < j THEN c[k] ELSE IF k = j THEN e ELSE c[k - 1]
  <2>1. k \in 1..(Len(d) + Len(b)) /\ k \in Nat
    BY <1>1, <1>3, <1>4
  <2>2. (d \o b)[k] = IF k <= Len(d) THEN d[k] ELSE b[k - Len(d)]
    BY <1>3, <1>4, <2>1, Concatenated
  <2>3. CASE k <= j
    <3>1. k < j => k \in 1..(j - 1)
      BY <1>1, <2>1
    <3> QED
      BY <1>4, <2>1, <2>2, <2>3, <3>1
  <2>4. CASE ~(k <= j)
    <3>1. /\ k - j \in 1..(Len(c) - j + 1) /\ j + (k - j) - 1 = k - 1 /\ ~(k < j) /\ k # j
      BY <1>1, <2>1, <2>4
    <3> QED
      BY <1>3, <1>4, <2>2, <2>4, <3>1
  <2> QED
    BY <2>3, <2>4
<1>7. Put(c, j, e) = d \o b
  BY DEF Put, a, b, d
<1>8. DOMAIN (d \o b) = 1..(Len(c) + 1)
  BY <1>5
<1> QED
  BY <1>5, <1>6, <1>7, <1>8 DEF IsPut

\* An order that was dragged is one of the same images.
SameMembers(s, t) ==
  /\ \A k \in DOMAIN s : \E m \in DOMAIN t : s[k] = t[m]
  /\ \A m \in DOMAIN t : \E k \in DOMAIN s : s[k] = t[m]
LEMMA DraggedKeeps ==
  ASSUME NEW S, NEW s \in Seq(S), NEW i \in DOMAIN s, NEW j \in DOMAIN s
  PROVE  Images!Moved(s, i, j) \in Seq(S) /\ SameMembers(Images!Moved(s, i, j), s)
<1> DEFINE c == Cut(s, i)
           d == Put(c, j, s[i])
<1>1. Images!Moved(s, i, j) = d
  BY DEF Images!Moved, Images!InsertAt, Images!RemoveAt, Put, Cut
<1>2. Len(s) \in Nat /\ DOMAIN s = 1..Len(s) /\ s[i] \in S
  OBVIOUS
<1>3. c \in Seq(S) /\ Len(c) = Len(s) - 1 /\ DOMAIN c = 1..(Len(s) - 1)
  BY CutFrom
<1>4. /\ \A k \in DOMAIN c : \E m \in DOMAIN s : c[k] = s[m]
      /\ \A m \in DOMAIN s \ {i} : \E k \in DOMAIN c : c[k] = s[m]
  BY CutKeeps, CutHas
<1> HIDE DEF c
<1>5. j \in 1..(Len(c) + 1) /\ Len(c) + 1 = Len(s)
  BY <1>2, <1>3
<1>6. /\ d \in Seq(S) /\ DOMAIN d = 1..(Len(c) + 1)
      /\ \A k \in 1..(Len(c) + 1) :
           d[k] = IF k < j THEN c[k] ELSE IF k = j THEN s[i] ELSE c[k - 1]
  <2>1. c \in Seq(S) /\ s[i] \in S
    BY <1>2, <1>3
  <2>2. IsPut(d, S, c, j, s[i])
    BY <1>5, <2>1, PutAt
  <2> QED
    BY <2>2 DEF IsPut
<1> HIDE DEF d
<1>7. ASSUME NEW k \in DOMAIN d PROVE \E m \in DOMAIN s : d[k] = s[m]
  <2>1. k \in 1..(Len(c) + 1)
    BY <1>6
  <2>2. CASE k = j
    BY <1>6, <2>1, <2>2
  <2>3. CASE k < j
    <3>1. k \in DOMAIN c /\ d[k] = c[k]
      BY <1>2, <1>3, <1>5, <1>6, <2>1, <2>3
    <3> QED
      BY <1>4, <3>1
  <2>4. CASE ~(k < j) /\ k # j
    <3>1. k - 1 \in DOMAIN c /\ d[k] = c[k - 1]
      BY <1>2, <1>3, <1>5, <1>6, <2>1, <2>4
    <3> QED
      BY <1>4, <3>1
  <2> QED
    BY <2>2, <2>3, <2>4
<1>8. ASSUME NEW m \in DOMAIN s PROVE \E k \in DOMAIN d : d[k] = s[m]
  <2>1. CASE m = i
    BY <1>5, <1>6, <2>1
  <2>2. CASE m # i
    <3>1. PICK l \in DOMAIN c : c[l] = s[m]
      BY <1>4, <2>2
    <3>2. CASE l < j
      BY <1>2, <1>3, <1>5, <1>6, <3>1, <3>2
    <3>3. CASE ~(l < j)
      <4>1. l + 1 \in 1..(Len(c) + 1) /\ ~(l + 1 < j) /\ l + 1 # j /\ (l + 1) - 1 = l
        BY <1>2, <1>3, <1>5, <3>3
      <4> QED
        BY <1>6, <3>1, <4>1
    <3> QED
      BY <3>2, <3>3
  <2> QED
    BY <2>1, <2>2
<1> QED
  BY <1>1, <1>6, <1>7, <1>8 DEF SameMembers

LEMMA OrderDragged ==
  ASSUME productImages \in Seq(Images!Picture),
         NEW i \in DOMAIN productImages, NEW j \in DOMAIN productImages,
         NEW order, order = Images!Moved(Images!SortedImages, i, j),
         NEW ids, ids = [k \in DOMAIN order |-> order[k].id]
  PROVE  ids \in Seq(Pictures) /\ Images!Range(ids) = Ids(productImages)
<1>1. PICK s : s = Images!SortedImages
  OBVIOUS
<1>2. s \in Seq(Images!Picture) /\ i \in DOMAIN s /\ j \in DOMAIN s /\ Ids(s) = Ids(productImages)
  BY <1>1, FormSorts
<1>3. order = Images!Moved(s, i, j)
  BY <1>1
<1>4. /\ order \in Seq(Images!Picture)
      /\ \A k \in DOMAIN order : \E m \in DOMAIN s : order[k] = s[m]
      /\ \A m \in DOMAIN s : \E k \in DOMAIN order : order[k] = s[m]
  <2>1. s \in Seq(Images!Picture) /\ i \in DOMAIN s /\ j \in DOMAIN s
    BY <1>2
  <2>2. order \in Seq(Images!Picture) /\ SameMembers(order, s)
    BY <1>3, <2>1, DraggedKeeps
  <2> QED
    BY <2>2 DEF SameMembers
<1>5. \A k \in DOMAIN order : order[k].id \in Pictures
  <2>1. order \in Seq(Images!Picture) /\ \A y \in Images!Picture : y.id \in Pictures
    BY <1>4 DEF Images!Picture
  <2> QED
    BY <2>1
<1>6. Len(order) \in Nat /\ DOMAIN order = 1..Len(order)
  BY <1>4
<1>7. ids \in [1..Len(order) -> Pictures]
  BY <1>5, <1>6
<1>8. ids \in Seq(Pictures) /\ DOMAIN ids = DOMAIN order
  BY <1>6, <1>7, MadeBySteps
<1>9. Images!Range(ids) = Ids(s)
  BY <1>4, <1>8 DEF Images!Range, Ids
<1> QED
  BY <1>2, <1>8, <1>9

\* The last of some places is one of them.
LEMMA MaxIs ==
  ASSUME NEW n \in Nat, NEW I \in SUBSET (1..n), I # {}
  PROVE  Images!Max(I) \in I
<1> DEFINE R == {z \in Nat \X Nat : z[1] < z[2]}
<1>1. IsFiniteSet(I)
  <2>1. IsFiniteSet(1..n)
    BY FS_Interval
  <2> QED
    BY <2>1, FS_Subset
<1>2. \A x \in I : x \in Nat
  OBVIOUS
<1>3. \A x, y \in I : <<x, y>> \in R <=> x < y
  BY <1>2
<1> HIDE DEF R
<1>4. Ordered(I, R)
  BY <1>2, <1>3 DEF Ordered
<1>5. InPlaces(I, R)
  BY <1>1, <1>4, Ranked
<1>6. Cardinality(I) \in Nat /\ Cardinality(I) # 0
  BY <1>1, <1>5, FS_EmptySet DEF InPlaces
<1>7. PICK x \in I : Cardinality(Below(I, R, x)) = Cardinality(I) - 1
  <2>1. Cardinality(I) \in 1..Cardinality(I)
    BY <1>6
  <2> QED
    BY <1>5, <2>1 DEF InPlaces
<1>8. Below(I, R, x) = I \ {x}
  <2>1. IsFiniteSet(I \ {x}) /\ Cardinality(I \ {x}) = Cardinality(I) - 1
    BY <1>1, FS_RemoveElement
  <2>2. Below(I, R, x) \in SUBSET (I \ {x})
    BY <1>4 DEF Below, Ordered
  <2> QED
    BY <1>7, <2>1, <2>2, FS_Subset
<1>9. \A y \in I : x >= y
  <2>1. ASSUME NEW y \in I, y # x PROVE y < x
    <3>1. <<y, x>> \in R
      BY <1>8, <2>1 DEF Below
    <3> QED
      BY <1>3, <3>1
  <2> QED
    BY <1>2, <2>1
<1> QED
  BY <1>9 DEF Images!Max

\* The place of an image in an order is one where it stands.
LEMMA PlaceOf ==
  ASSUME NEW order \in Seq(Pictures), NEW x \in Images!Range(order)
  PROVE  /\ Images!LastPlace(order, x) \in 1..Len(order)
         /\ order[Images!LastPlace(order, x)] = x
<1> DEFINE I == {i \in 1..Len(order) : order[i] = x}
<1>1. Len(order) \in Nat /\ DOMAIN order = 1..Len(order)
  OBVIOUS
<1>2. I # {}
  BY <1>1 DEF Images!Range
<1>3. I \in SUBSET (1..Len(order))
  OBVIOUS
<1>4. Images!LastPlace(order, x) = Images!Max(I)
  BY <1>2 DEF Images!LastPlace, Images!SelectLastInSeq
<1> HIDE DEF I
<1>5. Images!Max(I) \in I
  BY <1>1, <1>2, <1>3, MaxIs
<1> QED
  BY <1>4, <1>5 DEF I

DragTyped ==
  /\ drawerOpen \in BOOLEAN /\ product \in Products \cup {None}
  /\ productImages \in Seq(Images!Picture) /\ dragged \in Nat
  /\ flight \subseteq Images!Requests /\ moves \in 0..ImageMoves
  /\ patient \in BOOLEAN /\ strayed \in BOOLEAN
LEMMA ImagesTypes == Images!TypeOK <=> PicturesTyped /\ DragTyped
  BY DEF Images!TypeOK, PicturesTyped, DragTyped
LEMMA ImagesTypesNext == Images!TypeOK' <=> PicturesTyped' /\ DragTyped'
  BY DEF Images!TypeOK, PicturesTyped, DragTyped

LEMMA AnsweredPicture ==
  ASSUME NEW r \in Images!Requests, NEW a \in {"sent", "ok", "failed", "lost"}
  PROVE  /\ [r EXCEPT !.answer = a] \in Images!Requests
         /\ [r EXCEPT !.answer = a].kind = r.kind /\ [r EXCEPT !.answer = a].of = r.of
         /\ [r EXCEPT !.answer = a].order = r.order /\ [r EXCEPT !.answer = a].answer = a
         /\ [r EXCEPT !.answer = a].image = r.image /\ [r EXCEPT !.answer = a].says = r.says
  BY DEF Images!Requests

\* While the server's images stay, so does what is said of them.
LEMMA HadStays ==
  ASSUME UNCHANGED <<owner, position, main>>, NEW p
  PROVE  Had(p)' = Had(p)
  BY DEF Had, Images!Stored, Images!Of
LEMMA PicturesStay ==
  ASSUME ImagesInv, UNCHANGED <<owner, position, main, placed, patient>>
  PROVE  /\ PicturesTyped' /\ Images!OneMain' /\ Images!PlacedApart'
         /\ \A x \in placed' : owner'[x] # None
         /\ \A ids : \A p : Sound(ids, p)' = Sound(ids, p)
<1>1. PicturesTyped'
  BY ImagesTypes DEF ImagesInv, PicturesTyped
<1>2. Images!OneMain' /\ Images!PlacedApart'
  BY DEF ImagesInv, Images!OneMain, Images!PlacedApart
<1>3. \A x \in placed' : owner'[x] # None
  BY DEF ImagesInv, PlacesKept
<1>4. \A ids : \A p : Sound(ids, p)' = Sound(ids, p)
  BY DEF Sound
<1> QED
  BY <1>1, <1>2, <1>3, <1>4

\* The form is as it was, but for the place that is dragged and the drawer.
LEMMA PicturesSame ==
  ASSUME ImagesInv,
         UNCHANGED <<owner, position, main, placed, product, productImages, flight, patient,
                     strayed>>,
         drawerOpen' \in BOOLEAN, drawerOpen' => drawerOpen, dragged' \in Nat,
         moves' \in 0..ImageMoves
  PROVE  ImagesInv'
<1>1. PicturesTyped' /\ Images!OneMain' /\ Images!PlacedApart'
      /\ (\A x \in placed' : owner'[x] # None)
      /\ \A ids : \A p : Sound(ids, p)' = Sound(ids, p)
  BY PicturesStay
<1>2. DragTyped'
  BY ImagesTypes DEF ImagesInv, DragTyped
<1>3. PlacesKept'
  BY <1>1 DEF ImagesInv, PlacesKept, Posted, Ids, Images!Range
<1>4. PicturesKept'
  <2>1. \A p : Had(p)' = Had(p)
    BY HadStays
  <2> QED
    BY <2>1 DEF ImagesInv, PicturesKept, Replied, NewPicture, Images!Range
<1> QED
  BY <1>1, <1>2, <1>3, <1>4, ImagesTypesNext DEF ImagesInv

\* A request that leaves.
LEMMA PictureAsked ==
  ASSUME ImagesInv, NEW x \in Images!Requests, flight' = flight \cup {x},
         patient => flight = {}, drawerOpen,
         UNCHANGED <<owner, position, main, placed, drawerOpen, product, productImages,
                     patient, strayed>>,
         moves' \in 0..ImageMoves, dragged' \in Nat,
         x.of = product, x.answer = "sent", x.kind # "reread",
         x.kind = "reorder" => Images!Range(x.order) = Ids(productImages)
  PROVE  ImagesInv'
<1>1. PicturesTyped' /\ Images!OneMain' /\ Images!PlacedApart'
      /\ (\A y \in placed' : owner'[y] # None)
      /\ \A ids : \A p : Sound(ids, p)' = Sound(ids, p)
  BY PicturesStay
<1>2. DragTyped' /\ product # None
  BY ImagesTypes DEF ImagesInv, DragTyped
<1>3. PlacesKept'
  <2>1. ASSUME patient PROVE flight' = {x} /\ Posted(x)'
    BY <1>2, <2>1 DEF Posted, Ids, Images!Range
  <2>2. Ids(productImages)' = Ids(productImages) /\ product' = product
    BY DEF Ids
  <2> QED
    BY <1>1, <1>2, <2>1, <2>2 DEF ImagesInv, PlacesKept
<1>4. PicturesKept'
  <2>1. \A p : Had(p)' = Had(p)
    BY HadStays
  <2>2. ASSUME patient, ~strayed PROVE flight' = {x} /\ Replied(x)'
    BY <1>2, <2>1, <2>2 DEF ImagesInv, PicturesKept, Replied, Images!Range
  <2> QED
    BY <2>2 DEF PicturesKept
<1>5. \A r \in flight' : r.kind = "upload" /\ r.answer = "ok" => r.image \in Pictures
  BY DEF ImagesInv
<1> QED
  BY <1>1, <1>2, <1>3, <1>4, <1>5, ImagesTypesNext DEF ImagesInv

LEMMA PictureRequest ==
  ASSUME NEW k \in Images!Kinds, NEW p \in Products
  PROVE  /\ Images!Request(k, p) \in Images!Requests
         /\ Images!Request(k, p).kind = k /\ Images!Request(k, p).of = p
         /\ Images!Request(k, p).answer = "sent"
         /\ \A n \in 0..MaxFiles :
              /\ [Images!Request(k, p) EXCEPT !.files = n] \in Images!Requests
              /\ [Images!Request(k, p) EXCEPT !.files = n].kind = k
              /\ [Images!Request(k, p) EXCEPT !.files = n].of = p
              /\ [Images!Request(k, p) EXCEPT !.files = n].answer = "sent"
         /\ \A x \in Pictures :
              /\ [Images!Request(k, p) EXCEPT !.image = x] \in Images!Requests
              /\ [Images!Request(k, p) EXCEPT !.image = x].kind = k
              /\ [Images!Request(k, p) EXCEPT !.image = x].of = p
              /\ [Images!Request(k, p) EXCEPT !.image = x].answer = "sent"
         /\ \A ids \in Seq(Pictures) :
              /\ [Images!Request(k, p) EXCEPT !.order = ids] \in Images!Requests
              /\ [Images!Request(k, p) EXCEPT !.order = ids].kind = k
              /\ [Images!Request(k, p) EXCEPT !.order = ids].of = p
              /\ [Images!Request(k, p) EXCEPT !.order = ids].answer = "sent"
              /\ [Images!Request(k, p) EXCEPT !.order = ids].order = ids
<1> DEFINE q == Images!Request(k, p)
<1>1. 0 \in 0..MaxFiles /\ <<>> \in Seq(Pictures) /\ <<>> \in Seq(Images!Picture)
  BY ImagesAssumed DEF Images!ConstantsTyped
<1>2. /\ q \in Images!Requests /\ q.kind = k /\ q.of = p /\ q.answer = "sent"
      /\ q = [kind |-> k, of |-> p, image |-> 0, order |-> <<>>, files |-> 0,
              answer |-> "sent", says |-> <<>>]
  BY <1>1 DEF Images!Request, Images!Requests
<1> HIDE DEF q
<1>3. ASSUME NEW n \in 0..MaxFiles
      PROVE  /\ [q EXCEPT !.files = n] \in Images!Requests
             /\ [q EXCEPT !.files = n].kind = k /\ [q EXCEPT !.files = n].of = p
             /\ [q EXCEPT !.files = n].answer = "sent"
  BY <1>2 DEF Images!Requests
<1>4. ASSUME NEW x \in Pictures
      PROVE  /\ [q EXCEPT !.image = x] \in Images!Requests
             /\ [q EXCEPT !.image = x].kind = k /\ [q EXCEPT !.image = x].of = p
             /\ [q EXCEPT !.image = x].answer = "sent"
  BY <1>2 DEF Images!Requests
<1>5. ASSUME NEW ids \in Seq(Pictures)
      PROVE  /\ [q EXCEPT !.order = ids] \in Images!Requests
             /\ [q EXCEPT !.order = ids].kind = k /\ [q EXCEPT !.order = ids].of = p
             /\ [q EXCEPT !.order = ids].answer = "sent"
             /\ [q EXCEPT !.order = ids].order = ids
  BY <1>2 DEF Images!Requests
<1> QED
  BY <1>2, <1>3, <1>4, <1>5 DEF q

\* What the operator does in the form.
LEMMA EditOpened ==
  ASSUME Images!ConstantsTyped, ImagesInv, NEW p \in Products, Images!OpenEdit(p)
  PROVE  ImagesInv'
<1>1. /\ moves < ImageMoves /\ moves' = moves + 1 /\ (patient => flight = {})
      /\ drawerOpen' = TRUE /\ product' = p /\ productImages' = Images!ServerImages(p)
      /\ dragged' = 0 /\ flight' = flight
      /\ UNCHANGED <<owner, position, main, placed, patient, strayed>>
  BY DEF Images!OpenEdit, Images!Acts, Images!server
<1>2. PicturesTyped /\ DragTyped
  BY ImagesTypes DEF ImagesInv
<1>3. PicturesTyped' /\ Images!OneMain' /\ Images!PlacedApart'
      /\ (\A y \in placed' : owner'[y] # None)
      /\ \A ids : \A q : Sound(ids, q)' = Sound(ids, q)
  BY <1>1, PicturesStay
<1>4. /\ productImages' \in Seq(Images!Picture)
      /\ Images!Range(productImages') = Had(p) /\ Ids(productImages') = Images!Of(p)
  BY <1>1, <1>2, ServerLists
<1>5. moves' \in 0..ImageMoves
  BY <1>1, <1>2 DEF DragTyped, Images!ConstantsTyped
<1>6. DragTyped'
  BY <1>1, <1>2, <1>4, <1>5 DEF DragTyped
<1>7. p # None
  BY DEF Images!ConstantsTyped
<1>8. Sound(Images!Of(p), p)
  BY <1>2 DEF Sound, Images!Of, PicturesTyped
<1>9. PlacesKept'
  <2>1. ASSUME patient PROVE flight' = {} /\ Sound(Ids(productImages), product)'
    <3>1. Sound(Images!Of(p), p)' /\ Ids(productImages)' = Images!Of(p)
      BY <1>3, <1>4, <1>8, ZenonT(40) DEF Ids, Sound, Images!Of
    <3> QED
      BY <1>1, <1>4, <1>8, <2>1 DEF Sound, Ids
  <2> QED
    BY <1>1, <1>3, <2>1 DEF PlacesKept
<1>10. PicturesKept'
  <2>1. Had(p)' = Had(p) /\ Images!Range(productImages)' = Had(p)
    BY <1>1, <1>4, HadStays DEF Images!Range
  <2>2. Images!Range(productImages)' = Had(product)'
    BY <1>1, <2>1 DEF Had, Images!Of, Images!Stored
  <2> QED
    BY <1>1, <2>2 DEF PicturesKept
<1>11. \A r \in flight' : r.kind = "upload" /\ r.answer = "ok" => r.image \in Pictures
  BY <1>1 DEF ImagesInv
<1> QED
  BY <1>1, <1>3, <1>6, <1>7, <1>9, <1>10, <1>11, ImagesTypesNext DEF ImagesInv

LEMMA DraggedOnly ==
  ASSUME ImagesInv,
         \/ Images!CloseDrawer \/ Images!HandleDragEnd
         \/ \E i \in DOMAIN productImages : Images!HandleDragStart(i)
  PROVE  ImagesInv'
<1>1. PicturesTyped /\ DragTyped
  BY ImagesTypes DEF ImagesInv
<1>2. \A i \in DOMAIN productImages : i \in Nat
  BY <1>1 DEF DragTyped
<1>3. /\ UNCHANGED <<owner, position, main, placed, product, productImages, flight, patient,
                     strayed, moves>>
      /\ drawerOpen' = drawerOpen \/ drawerOpen' = FALSE
      /\ dragged' \in Nat
  BY <1>2 DEF Images!CloseDrawer, Images!HandleDragEnd, Images!HandleDragStart, Images!server
<1>4. drawerOpen \in BOOLEAN /\ moves' \in 0..ImageMoves
  BY <1>1, <1>3 DEF DragTyped
<1>5. drawerOpen' \in BOOLEAN /\ (drawerOpen' => drawerOpen)
  <2>1. CASE drawerOpen' = FALSE
    BY <2>1
  <2>2. CASE drawerOpen' = drawerOpen
    BY <1>4, <2>2
  <2> QED
    BY <1>3, <2>1, <2>2
<1> QED
  BY <1>3, <1>4, <1>5, PicturesSame

LEMMA PictureUploaded ==
  ASSUME Images!ConstantsTyped, ImagesInv, NEW n \in 1..MaxFiles, Images!Upload(n)
  PROVE  ImagesInv'
<1>1. /\ moves < ImageMoves /\ moves' = moves + 1 /\ (patient => flight = {}) /\ drawerOpen
      /\ flight' = flight \cup {[Images!Request("upload", product) EXCEPT !.files = n]}
      /\ UNCHANGED <<owner, position, main, placed, drawerOpen, product, productImages, dragged,
                     patient, strayed>>
  BY DEF Images!Upload, Images!Acts, Images!Asks, Images!server, Images!form
<1>2. PicturesTyped /\ DragTyped /\ product # None
  BY <1>1, ImagesTypes DEF ImagesInv
<1>3. moves' \in 0..ImageMoves /\ dragged' \in Nat /\ product \in Products /\ n \in 0..MaxFiles
  BY <1>1, <1>2 DEF DragTyped, Images!ConstantsTyped
<1> DEFINE x == [Images!Request("upload", product) EXCEPT !.files = n]
<1>4. x \in Images!Requests /\ x.kind = "upload" /\ x.of = product /\ x.answer = "sent"
  <2>1. "upload" \in Images!Kinds
    BY DEF Images!Kinds
  <2> QED
    BY <1>3, <2>1, PictureRequest
<1> HIDE DEF x
<1>5. flight' = flight \cup {x}
  BY <1>1 DEF x
<1> QED
  BY <1>1, <1>3, <1>4, <1>5, PictureAsked

LEMMA MainChosen ==
  ASSUME Images!ConstantsTyped, ImagesInv, NEW i \in DOMAIN productImages,
         Images!HandleSetRepresentative(i)
  PROVE  ImagesInv'
<1> DEFINE x == [Images!Request("main", product) EXCEPT !.image = productImages[i].id]
<1>1. /\ moves < ImageMoves /\ moves' = moves + 1 /\ (patient => flight = {}) /\ drawerOpen
      /\ flight' = flight \cup {x}
      /\ UNCHANGED <<owner, position, main, placed, drawerOpen, product, productImages, dragged,
                     patient, strayed>>
  BY DEF Images!HandleSetRepresentative, Images!Acts, Images!Asks, Images!server, Images!form
<1>2. PicturesTyped /\ DragTyped /\ product # None
  BY <1>1, ImagesTypes DEF ImagesInv
<1>3. moves' \in 0..ImageMoves /\ dragged' \in Nat /\ product \in Products
  BY <1>1, <1>2 DEF DragTyped, Images!ConstantsTyped
<1>4. productImages[i].id \in Pictures
  <2>1. productImages[i] \in Images!Picture
    BY <1>2 DEF DragTyped
  <2> QED
    BY <2>1 DEF Images!Picture
<1>5. x \in Images!Requests /\ x.kind = "main" /\ x.of = product /\ x.answer = "sent"
  <2>1. "main" \in Images!Kinds
    BY DEF Images!Kinds
  <2> QED
    BY <1>3, <1>4, <2>1, PictureRequest
<1> HIDE DEF x
<1> QED
  BY <1>1, <1>3, <1>5, PictureAsked

LEMMA PictureDropped ==
  ASSUME Images!ConstantsTyped, ImagesInv, NEW j \in DOMAIN productImages, Images!HandleDrop(j)
  PROVE  ImagesInv'
<1>1. PicturesTyped /\ DragTyped
  BY ImagesTypes DEF ImagesInv
<1>2. /\ drawerOpen /\ dragged \in DOMAIN productImages /\ dragged' = 0
      /\ UNCHANGED <<drawerOpen, product, productImages>>
  BY DEF Images!HandleDrop
<1>3. CASE dragged = j /\ UNCHANGED <<Images!server, flight, moves, patient, strayed>>
  <2>1. UNCHANGED <<owner, position, main, placed, product, productImages, flight, patient,
                    strayed>>
    BY <1>2, <1>3 DEF Images!server
  <2>2. drawerOpen' \in BOOLEAN /\ (drawerOpen' => drawerOpen) /\ dragged' \in Nat
        /\ moves' \in 0..ImageMoves
    BY <1>1, <1>2, <1>3 DEF DragTyped
  <2> QED
    BY <2>1, <2>2, PicturesSame
<1>4. ASSUME NEW order, order = Images!Moved(Images!SortedImages, dragged, j), Images!Acts,
             Images!Asks([Images!Request("reorder", product) EXCEPT
                            !.order = [k \in DOMAIN order |-> order[k].id]])
      PROVE  ImagesInv'
  <2> DEFINE ids == [k \in DOMAIN order |-> order[k].id]
             x == [Images!Request("reorder", product) EXCEPT !.order = ids]
  <2>1. ids \in Seq(Pictures) /\ Images!Range(ids) = Ids(productImages)
    <3> HIDE DEF ids
    <3>1. productImages \in Seq(Images!Picture) /\ ids = [k \in DOMAIN order |-> order[k].id]
      BY <1>1 DEF DragTyped, ids
    <3> QED
      BY <1>2, <1>4, <3>1, OrderDragged
  <2> HIDE DEF ids
  <2>2. /\ moves < ImageMoves /\ moves' = moves + 1 /\ (patient => flight = {})
        /\ flight' = flight \cup {x}
        /\ UNCHANGED <<owner, position, main, placed, patient, strayed>>
    BY <1>4 DEF Images!Acts, Images!Asks, Images!server, ids
  <2>3. product # None
    BY <1>2 DEF ImagesInv
  <2>4. moves' \in 0..ImageMoves /\ product \in Products
    BY <1>1, <2>2, <2>3 DEF DragTyped, Images!ConstantsTyped
  <2>5. /\ x \in Images!Requests /\ x.kind = "reorder" /\ x.of = product /\ x.answer = "sent"
        /\ x.order = ids
    <3>1. "reorder" \in Images!Kinds
      BY DEF Images!Kinds
    <3> QED
      BY <2>1, <2>4, <3>1, PictureRequest
  <2> HIDE DEF x
  <2>6. dragged' \in Nat
    BY <1>2
  <2> QED
    BY <1>2, <2>1, <2>2, <2>4, <2>5, <2>6, PictureAsked
<1> QED
  BY <1>3, <1>4 DEF Images!HandleDrop

\* The server answers a request.
LEMMA PictureAnswered ==
  ASSUME ImagesInv, NEW r \in flight, NEW x \in Images!Requests,
         flight' = (flight \ {r}) \cup {x},
         UNCHANGED <<drawerOpen, product, productImages, dragged, moves, patient>>,
         PicturesTyped', Images!OneMain', Images!PlacedApart',
         \A y \in placed' : owner'[y] # None,
         strayed' \in BOOLEAN, strayed => strayed',
         x.kind = "upload" /\ x.answer = "ok" => x.image \in Pictures,
         patient => Sound(Ids(productImages), product)' /\ Posted(x)',
         patient /\ ~strayed' => Replied(x)'
  PROVE  ImagesInv'
<1>1. DragTyped' /\ product # None
  BY ImagesTypes DEF ImagesInv, DragTyped
<1>2. ASSUME patient PROVE flight' = {x}
  BY <1>2 DEF ImagesInv, PlacesKept
<1>3. PlacesKept'
  BY <1>2 DEF PlacesKept
<1>4. PicturesKept'
  BY <1>2 DEF PicturesKept
<1>5. \A o \in flight' : o.kind = "upload" /\ o.answer = "ok" => o.image \in Pictures
  BY DEF ImagesInv
<1> QED
  BY <1>1, <1>3, <1>4, <1>5, ImagesTypesNext DEF ImagesInv

LEMMA PictureAt ==
  ASSUME ImagesInv, NEW r \in flight
  PROVE  /\ r \in Images!Requests /\ PicturesTyped /\ DragTyped /\ product # None
         /\ patient => flight = {r} /\ Posted(r) /\ Sound(Ids(productImages), product)
         /\ patient /\ ~strayed => Replied(r)
<1>1. PicturesTyped /\ DragTyped
  BY ImagesTypes DEF ImagesInv
<1>2. r \in Images!Requests /\ product # None
  BY <1>1 DEF ImagesInv, DragTyped
<1>3. ASSUME patient PROVE flight = {r} /\ Posted(r) /\ Sound(Ids(productImages), product)
  BY <1>2, <1>3 DEF ImagesInv, PlacesKept
<1>4. ASSUME patient, ~strayed PROVE Replied(r)
  BY <1>2, <1>4 DEF ImagesInv, PicturesKept
<1> QED
  BY <1>1, <1>2, <1>3, <1>4

\* A request that the server refuses, or whose answer is lost, changes no image.
LEMMA PictureRefused ==
  ASSUME ImagesInv, NEW r \in flight, Images!Arrives(r), Images!Refused(r),
         r.kind # "reread"
  PROVE  ImagesInv'
<1>1. /\ r.answer = "sent"
      /\ UNCHANGED <<owner, position, main, placed, drawerOpen, product, productImages, dragged,
                     moves, patient>>
  BY DEF Images!Arrives, Images!Refused, Images!server, Images!form
<1>2. PICK a \in {"failed", "lost"} :
        /\ Images!Answered(r, a)
        /\ a = "failed" => strayed' = strayed
        /\ a = "lost" => strayed' = TRUE
  BY DEF Images!Refused
<1> DEFINE x == [r EXCEPT !.answer = a]
<1>3. r \in Images!Requests /\ PicturesTyped /\ DragTyped /\ product # None
  BY PictureAt
<1>4. /\ x \in Images!Requests /\ x.kind = r.kind /\ x.of = r.of /\ x.order = r.order
      /\ x.answer = a /\ x.image = r.image /\ x.says = r.says
  <2>1. a \in {"sent", "ok", "failed", "lost"}
    OBVIOUS
  <2> QED
    BY <1>3, <2>1, AnsweredPicture
<1>5. flight' = (flight \ {r}) \cup {x}
  BY <1>2 DEF Images!Answered
<1> HIDE DEF x
<1>6. PicturesTyped' /\ Images!OneMain' /\ Images!PlacedApart'
      /\ (\A y \in placed' : owner'[y] # None)
      /\ \A ids : \A q : Sound(ids, q)' = Sound(ids, q)
  BY <1>1, PicturesStay
<1>7. strayed' \in BOOLEAN /\ (strayed => strayed')
  <2>1. strayed \in BOOLEAN
    BY <1>3 DEF DragTyped
  <2>2. CASE a = "failed"
    BY <1>2, <2>1, <2>2
  <2>3. CASE a = "lost"
    BY <1>2, <2>3
  <2> QED
    BY <2>2, <2>3
<1>8. ASSUME patient PROVE Sound(Ids(productImages), product)' /\ Posted(x)'
  <2>1. Posted(r) /\ Sound(Ids(productImages), product)
    BY <1>8, PictureAt
  <2>2. Sound(Ids(productImages), product)'
    BY <1>1, <2>1 DEF Sound, Ids
  <2> QED
    BY <1>1, <1>2, <1>4, <2>1, <2>2 DEF Posted, Ids, Images!Range
<1>9. ASSUME patient, ~strayed' PROVE Replied(x)'
  <2>1. a = "failed" /\ ~strayed
    BY <1>2, <1>7, <1>9
  <2>2. Images!Range(productImages) = Had(product)
    BY <1>1, <1>9, <2>1, PictureAt DEF Replied
  <2>3. Had(product)' = Had(product)
    <3>1. \A p : Had(p)' = Had(p)
      BY <1>1, HadStays
    <3> QED
      BY <1>1, <3>1 DEF Had, Images!Of, Images!Stored
  <2> QED
    BY <1>1, <1>4, <2>1, <2>2, <2>3 DEF Replied, Images!Range
<1>10. ~(x.kind = "upload" /\ x.answer = "ok")
  BY <1>2, <1>4
<1> QED
  BY <1>1, <1>4, <1>5, <1>6, <1>7, <1>8, <1>9, <1>10, PictureAnswered

\* A write that the server made: its answer arrives or is lost.
LEMMA ReachedOf ==
  ASSUME NEW r \in Images!Requests, Images!Reaches(r), strayed \in BOOLEAN
  PROVE  \E x \in Images!Requests :
           /\ flight' = (flight \ {r}) \cup {x}
           /\ x.kind = r.kind /\ x.of = r.of /\ x.order = r.order /\ x.image = r.image
           /\ x.answer \in {"ok", "lost"} /\ (~strayed' => x.answer = "ok" /\ ~strayed)
           /\ strayed' \in BOOLEAN /\ (strayed => strayed')
<1>1. CASE Images!Answered(r, "ok") /\ UNCHANGED strayed
  <2> DEFINE x == [r EXCEPT !.answer = "ok"]
  <2>1. /\ x \in Images!Requests /\ x.kind = r.kind /\ x.of = r.of /\ x.order = r.order
        /\ x.answer = "ok" /\ x.image = r.image
    BY AnsweredPicture
  <2>2. flight' = (flight \ {r}) \cup {x}
    BY <1>1 DEF Images!Answered
  <2> HIDE DEF x
  <2> QED
    BY <1>1, <2>1, <2>2
<1>2. CASE Images!Answered(r, "lost") /\ strayed' = TRUE
  <2> DEFINE x == [r EXCEPT !.answer = "lost"]
  <2>1. /\ x \in Images!Requests /\ x.kind = r.kind /\ x.of = r.of /\ x.order = r.order
        /\ x.answer = "lost" /\ x.image = r.image
    BY AnsweredPicture
  <2>2. flight' = (flight \ {r}) \cup {x}
    BY <1>2 DEF Images!Answered
  <2> HIDE DEF x
  <2> QED
    BY <1>2, <2>1, <2>2
<1> QED
  BY <1>1, <1>2 DEF Images!Reaches

LEMMA MainKeeps ==
  ASSUME ImagesInv, NEW r \in flight, Images!SetRepresentativeImage(r)
  PROVE  ImagesInv'
<1>1. /\ r.kind = "main" /\ Images!Arrives(r)
      /\ UNCHANGED <<drawerOpen, product, productImages, dragged, moves, patient>>
  BY DEF Images!SetRepresentativeImage, Images!Arrives, Images!form
<1>2. CASE Images!Refused(r)
  BY <1>1, <1>2, PictureRefused
<1>3. CASE Images!OnlyMain(r) /\ Images!Reaches(r) /\ UNCHANGED <<owner, position, placed>>
  <2>1. r \in Images!Requests /\ PicturesTyped /\ DragTyped /\ product # None
    BY PictureAt
  <2>2. main' = [x \in Pictures |-> IF owner[x] = r.of THEN x = r.image ELSE main[x]]
    BY <1>3 DEF Images!OnlyMain
  <2>3. strayed \in BOOLEAN
    BY <2>1 DEF DragTyped
  <2>4. PICK x \in Images!Requests :
          /\ flight' = (flight \ {r}) \cup {x}
          /\ x.kind = r.kind /\ x.of = r.of /\ x.order = r.order /\ x.image = r.image
          /\ x.answer \in {"ok", "lost"} /\ (~strayed' => x.answer = "ok" /\ ~strayed)
          /\ strayed' \in BOOLEAN /\ (strayed => strayed')
    BY <1>3, <2>1, <2>3, ReachedOf
  <2>5. PicturesTyped'
    <3>1. ASSUME NEW y \in Pictures
          PROVE  (IF owner[y] = r.of THEN y = r.image ELSE main[y]) \in BOOLEAN
      BY <2>1 DEF PicturesTyped
    <3>2. main' \in [Pictures -> BOOLEAN]
      BY <2>2, <3>1
    <3> QED
      BY <1>3, <2>1, <3>2 DEF PicturesTyped
  <2>6. Images!OneMain'
    <3>1. \A y \in Pictures : main'[y] <=> IF owner[y] = r.of THEN y = r.image ELSE main[y]
      BY <2>2
    <3>2. ASSUME NEW y \in Pictures, NEW z \in Pictures, main'[y], main'[z], owner'[y] = owner'[z]
          PROVE  y = z
      <4>1. owner[y] = owner[z]
        BY <1>3, <3>2
      <4>2. CASE owner[y] = r.of
        BY <3>1, <3>2, <4>1, <4>2
      <4>3. CASE owner[y] # r.of
        BY <3>1, <3>2, <4>1, <4>3 DEF ImagesInv, Images!OneMain
      <4> QED
        BY <4>2, <4>3
    <3> QED
      BY <3>2 DEF Images!OneMain
  <2>7. Images!PlacedApart' /\ \A y \in placed' : owner'[y] # None
    BY <1>1, <1>3 DEF ImagesInv, PlacesKept, Images!PlacedApart
  <2>8. ASSUME patient PROVE Sound(Ids(productImages), product)' /\ Posted(x)'
    <3>1. Posted(r) /\ Sound(Ids(productImages), product)
      BY <2>8, PictureAt
    <3>2. Sound(Ids(productImages), product)'
      BY <1>1, <1>3, <3>1 DEF Sound, Ids
    <3> QED
      BY <1>1, <2>4, <3>1, <3>2 DEF Posted
  <2>9. ASSUME patient, ~strayed' PROVE Replied(x)'
    BY <1>1, <2>4, <2>9 DEF Replied
  <2>10. ~(x.kind = "upload" /\ x.answer = "ok")
    BY <1>1, <2>4
  <2> QED
    BY <1>1, <2>4, <2>5, <2>6, <2>7, <2>8, <2>9, <2>10, PictureAnswered
<1> QED
  BY <1>2, <1>3 DEF Images!SetRepresentativeImage

\* The places of an order are all different.
LEMMA OrderKeeps ==
  ASSUME ImagesInv, NEW r \in flight, Images!UpdateProductImagePositions(r)
  PROVE  ImagesInv'
<1>1. /\ r.kind = "reorder" /\ Images!Arrives(r)
      /\ UNCHANGED <<drawerOpen, product, productImages, dragged, moves, patient>>
  BY DEF Images!UpdateProductImagePositions, Images!Arrives, Images!form
<1>2. CASE Images!Refused(r)
  BY <1>1, <1>2, PictureRefused
<1>3. ASSUME \A k \in DOMAIN r.order : owner[r.order[k]] # None,
             position' = [x \in Pictures |->
               IF x \in Images!Range(r.order) THEN Images!LastPlace(r.order, x) - 1
               ELSE position[x]],
             placed' = placed \cup Images!Range(r.order),
             Images!Reaches(r), UNCHANGED <<owner, main>>
      PROVE  ImagesInv'
  <2>1. r \in Images!Requests /\ PicturesTyped /\ DragTyped /\ product # None
    BY PictureAt
  <2>2. r.order \in Seq(Pictures) /\ strayed \in BOOLEAN
    BY <2>1 DEF Images!Requests, DragTyped
  <2>3. PICK x \in Images!Requests :
          /\ flight' = (flight \ {r}) \cup {x}
          /\ x.kind = r.kind /\ x.of = r.of /\ x.order = r.order /\ x.image = r.image
          /\ x.answer \in {"ok", "lost"} /\ (~strayed' => x.answer = "ok" /\ ~strayed)
          /\ strayed' \in BOOLEAN /\ (strayed => strayed')
    BY <1>3, <2>1, <2>2, ReachedOf
  <2> DEFINE listed == Images!Range(r.order)
             at(y) == Images!LastPlace(r.order, y)
  <2>4. /\ listed \subseteq Pictures
        /\ \A y \in listed : at(y) \in Nat \ {0} /\ r.order[at(y)] = y /\ owner[y] # None
    <3>1. Len(r.order) \in Nat /\ DOMAIN r.order = 1..Len(r.order) /\ listed \subseteq Pictures
      BY <2>2 DEF Images!Range
    <3>2. ASSUME NEW y \in listed PROVE at(y) \in 1..Len(r.order) /\ r.order[at(y)] = y
      BY <2>2, PlaceOf
    <3>3. \A y \in listed : owner[y] # None
      BY <1>3 DEF Images!Range
    <3> QED
      BY <3>1, <3>2, <3>3
  <2>5. \A y \in Pictures : position'[y] = IF y \in listed THEN at(y) - 1 ELSE position[y]
    BY <1>3
  <2>6. placed' = placed \cup listed
    BY <1>3
  <2> HIDE DEF listed, at
  <2>7. PicturesTyped'
    <3>1. \A y \in Pictures : (IF y \in listed THEN at(y) - 1 ELSE position[y]) \in Nat
      BY <2>1, <2>4 DEF PicturesTyped
    <3>2. position' \in [Pictures -> Nat]
      BY <1>3, <3>1 DEF listed, at
    <3> QED
      BY <1>3, <2>1, <2>4, <2>6, <3>2 DEF PicturesTyped
  <2>8. Images!OneMain'
    BY <1>3 DEF ImagesInv, Images!OneMain
  <2>9. \A y \in placed' : owner'[y] # None
    BY <1>3, <2>4, <2>6 DEF ImagesInv, PlacesKept
  <2>10. ASSUME patient
         PROVE  /\ r.of = product /\ listed = Ids(productImages)
                /\ Sound(Ids(productImages), product)
    BY <1>1, <2>10, PictureAt DEF Posted, listed
  <2>11. Images!PlacedApart'
    <3>1. ASSUME patient, NEW y \in placed', NEW z \in placed', y # z, owner[y] = owner[z]
          PROVE  position'[y] # position'[z]
      <4>1. y \in Pictures /\ z \in Pictures /\ Sound(listed, product)
        BY <2>1, <2>4, <2>6, <2>10, <3>1 DEF PicturesTyped
      <4>2. CASE y \in listed /\ z \in listed
        <5>1. at(y) # at(z) /\ at(y) \in Nat \ {0} /\ at(z) \in Nat \ {0}
          BY <2>4, <3>1, <4>2
        <5> QED
          BY <2>5, <4>1, <4>2, <5>1
      <4>3. CASE y \notin listed /\ z \notin listed
        <5>1. position[y] # position[z]
          BY <2>6, <3>1, <4>3 DEF ImagesInv, Images!PlacedApart
        <5> QED
          BY <2>5, <4>1, <4>3, <5>1
      <4>4. ~(y \in listed /\ z \notin listed) /\ ~(z \in listed /\ y \notin listed)
        BY <2>4, <2>6, <3>1, <4>1 DEF Sound
      <4> QED
        BY <4>2, <4>3, <4>4
    <3> QED
      BY <1>1, <1>3, <3>1 DEF Images!PlacedApart
  <2>12. ASSUME patient PROVE Sound(Ids(productImages), product)' /\ Posted(x)'
    <3>1. Ids(productImages)' = Ids(productImages) /\ product' = product /\ owner' = owner
      BY <1>1, <1>3 DEF Ids
    <3>2. Sound(Ids(productImages), product)'
      BY <2>6, <2>10, <2>12, <3>1 DEF Sound
    <3>3. x.kind = "reorder" /\ x.of = product /\ Images!Range(x.order) = Ids(productImages)
      BY <1>1, <2>3, <2>10, <2>12 DEF listed
    <3> QED
      BY <2>1, <3>1, <3>2, <3>3 DEF Posted
  <2>13. ASSUME patient, ~strayed' PROVE Replied(x)'
    BY <1>1, <2>3, <2>13 DEF Replied
  <2>14. ~(x.kind = "upload" /\ x.answer = "ok")
    BY <1>1, <2>3
  <2> QED
    BY <1>1, <2>3, <2>7, <2>8, <2>9, <2>11, <2>12, <2>13, <2>14, PictureAnswered
<1> QED
  BY <1>2, <1>3 DEF Images!UpdateProductImagePositions

\* A new image is the product's, and is not in order yet.
LEMMA AddImageKeeps ==
  ASSUME ImagesInv, NEW r \in flight, Images!AddImage(r)
  PROVE  ImagesInv'
<1>1. /\ r.kind = "upload" /\ Images!Arrives(r)
      /\ UNCHANGED <<drawerOpen, product, productImages, dragged, moves, patient>>
  BY DEF Images!AddImage, Images!Arrives, Images!form
<1>2. CASE Images!Refused(r)
  BY <1>1, <1>2, PictureRefused
<1>3. ASSUME NEW y \in Pictures, owner[y] = None,
             owner' = [owner EXCEPT ![y] = r.of], position' = [position EXCEPT ![y] = 0],
             main' = [main EXCEPT ![y] = FALSE], UNCHANGED placed,
             NEW x \in Images!Requests, flight' = (flight \ {r}) \cup {x},
             x.kind = "upload", x.of = r.of,
             \/ x.answer = "ok" /\ x.image = y /\ UNCHANGED strayed
             \/ x.answer = "lost" /\ strayed' = TRUE
      PROVE  ImagesInv'
  <2>1. r \in Images!Requests /\ PicturesTyped /\ DragTyped /\ product # None
    BY PictureAt
  <2>2. r.of \in Products /\ r.of # None
    BY <2>1, ImagesAssumed DEF Images!Requests, Images!ConstantsTyped
  <2>3. /\ owner'[y] = r.of /\ position'[y] = 0 /\ main'[y] = FALSE
        /\ \A z \in Pictures \ {y} :
             owner'[z] = owner[z] /\ position'[z] = position[z] /\ main'[z] = main[z]
    BY <1>3, <2>1 DEF PicturesTyped
  <2>4. PicturesTyped'
    BY <1>3, <2>1, <2>2 DEF PicturesTyped
  <2>5. y \notin placed /\ placed' = placed /\ placed \subseteq Pictures
    BY <1>3, <2>1 DEF ImagesInv, PlacesKept, PicturesTyped
  <2>6. Images!OneMain'
    BY <2>3 DEF ImagesInv, Images!OneMain
  <2>7. \A z \in placed' : owner'[z] # None
    BY <2>3, <2>5 DEF ImagesInv, PlacesKept
  <2>8. Images!PlacedApart'
    <3>1. \A z \in placed : owner'[z] = owner[z] /\ position'[z] = position[z]
      BY <2>3, <2>5
    <3> QED
      BY <1>1, <2>5, <3>1 DEF ImagesInv, Images!PlacedApart
  <2>9. strayed' \in BOOLEAN /\ (strayed => strayed')
    BY <1>3, <2>1 DEF DragTyped
  <2>10. ASSUME patient PROVE r.of = product /\ Sound(Ids(productImages), product)
    BY <2>10, PictureAt DEF Posted
  <2>11. ASSUME patient PROVE Sound(Ids(productImages), product)' /\ Posted(x)'
    <3>1. Ids(productImages)' = Ids(productImages) /\ product' = product
      BY <1>1 DEF Ids
    <3>2. Ids(productImages) \subseteq Pictures
      <4>1. \A k \in DOMAIN productImages : productImages[k] \in Images!Picture
        BY <2>1 DEF DragTyped
      <4> QED
        BY <4>1 DEF Ids, Images!Picture
    <3>3. Sound(Ids(productImages), product)'
      BY <2>3, <2>5, <2>10, <2>11, <3>1, <3>2 DEF Sound
    <3>4. x.answer = "ok" => owner'[x.image] = product
      BY <1>3, <2>3, <2>10, <2>11
    <3> QED
      BY <1>3, <2>1, <2>10, <2>11, <3>1, <3>3, <3>4 DEF Posted
  <2>12. ASSUME patient, ~strayed' PROVE Replied(x)'
    <3>1. x.answer = "ok" /\ x.image = y /\ ~strayed
      BY <1>3, <2>12
    <3>2. Images!Range(productImages) = Had(product)
      BY <1>1, <2>12, <3>1, PictureAt DEF Replied, Images!Arrives
    <3>3. Images!Of(product)' = Images!Of(product) \cup {y}
      BY <1>1, <2>1, <2>3, <2>10, <2>12 DEF Images!Of
    <3>4. /\ Images!Stored(y)' = NewPicture(y)
          /\ \A z \in Images!Of(product) : Images!Stored(z)' = Images!Stored(z)
      BY <1>3, <2>1, <2>3 DEF Images!Stored, NewPicture, Images!Of
    <3>5. Had(product)' = Had(product) \cup {NewPicture(y)}
      <4> DEFINE S == Images!Of(product)
                 old(z) == Images!Stored(z)
      <4>1. Had(product)' = {Images!Stored(z)' : z \in S'}
        BY DEF Had
      <4>2. Had(product) = {Images!Stored(z) : z \in S}
        BY DEF Had
      <4> QED
        BY <3>3, <3>4, <4>1, <4>2
    <3>6. Images!Range(productImages)' = Images!Range(productImages)
      BY <1>1 DEF Images!Range
    <3> QED
      BY <1>3, <3>1, <3>2, <3>5, <3>6 DEF Replied, NewPicture
  <2>13. x.kind = "upload" /\ x.answer = "ok" => x.image \in Pictures
    BY <1>3
  <2> QED
    BY <1>1, <1>3, <2>4, <2>6, <2>7, <2>8, <2>9, <2>11, <2>12, <2>13, PictureAnswered
<1>4. r \in Images!Requests
  BY PictureAt
<1>5. ASSUME NEW y \in Pictures PROVE
        LET x == [r EXCEPT !.answer = "ok", !.image = y]
        IN  /\ x \in Images!Requests /\ x.kind = r.kind /\ x.of = r.of
            /\ x.answer = "ok" /\ x.image = y
  BY <1>4 DEF Images!Requests
<1>6. LET x == [r EXCEPT !.answer = "lost"]
      IN  x \in Images!Requests /\ x.kind = r.kind /\ x.of = r.of /\ x.answer = "lost"
  BY <1>4, AnsweredPicture
<1>7. CASE ~Images!Refused(r)
  <2>1. PICK y \in Pictures :
          /\ owner[y] = None
          /\ owner' = [owner EXCEPT ![y] = r.of] /\ position' = [position EXCEPT ![y] = 0]
          /\ main' = [main EXCEPT ![y] = FALSE] /\ UNCHANGED placed
          /\ \/ /\ flight' = (flight \ {r}) \cup {[r EXCEPT !.answer = "ok", !.image = y]}
                /\ UNCHANGED strayed
             \/ Images!Answered(r, "lost") /\ strayed' = TRUE
    BY <1>7 DEF Images!AddImage
  <2>2. CASE /\ flight' = (flight \ {r}) \cup {[r EXCEPT !.answer = "ok", !.image = y]}
             /\ UNCHANGED strayed
    <3> DEFINE x == [r EXCEPT !.answer = "ok", !.image = y]
    <3>1. /\ x \in Images!Requests /\ x.kind = "upload" /\ x.of = r.of
          /\ x.answer = "ok" /\ x.image = y /\ flight' = (flight \ {r}) \cup {x}
      BY <1>1, <1>5, <2>2
    <3> HIDE DEF x
    <3> QED
      BY <1>3, <2>1, <2>2, <3>1
  <2>3. CASE Images!Answered(r, "lost") /\ strayed' = TRUE
    <3> DEFINE x == [r EXCEPT !.answer = "lost"]
    <3>1. /\ x \in Images!Requests /\ x.kind = "upload" /\ x.of = r.of
          /\ x.answer = "lost" /\ flight' = (flight \ {r}) \cup {x}
      BY <1>1, <1>6, <2>3 DEF Images!Answered
    <3> HIDE DEF x
    <3> QED
      BY <1>3, <2>1, <2>3, <3>1
  <2> QED
    BY <2>1, <2>2, <2>3
<1> QED
  BY <1>2, <1>7

LEMMA ProductRead ==
  ASSUME ImagesInv, NEW r \in flight, Images!Product(r)
  PROVE  ImagesInv'
<1>1. /\ r.kind = "reread"
      /\ UNCHANGED <<owner, position, main, placed, drawerOpen, product, productImages, dragged,
                     moves, patient>>
  BY DEF Images!Product, Images!Arrives, Images!form, Images!server
<1>2. r \in Images!Requests /\ PicturesTyped /\ DragTyped /\ product # None
  BY PictureAt
<1>3. PicturesTyped' /\ Images!OneMain' /\ Images!PlacedApart'
      /\ (\A y \in placed' : owner'[y] # None)
      /\ \A ids : \A q : Sound(ids, q)' = Sound(ids, q)
  BY <1>1, PicturesStay
<1>4. PICK s : s = Images!ServerImages(r.of)
  OBVIOUS
<1>5. /\ s \in Seq(Images!Picture)
      /\ Images!Range(s) = Had(r.of) /\ Ids(s) = Images!Of(r.of)
  BY <1>2, <1>4, ServerLists, ImagesAssumed
<1>6. \A p : Had(p)' = Had(p)
  BY <1>1, HadStays
<1>7. ASSUME NEW x \in Images!Requests, flight' = (flight \ {r}) \cup {x},
             x.kind = "reread", x.of = r.of,
             \/ x.answer = "ok" /\ x.says = s /\ UNCHANGED strayed
             \/ x.answer = "lost" /\ strayed' = TRUE
      PROVE  ImagesInv'
  <2>1. strayed' \in BOOLEAN /\ (strayed => strayed')
    BY <1>2, <1>7 DEF DragTyped
  <2>2. ASSUME patient PROVE Sound(Ids(productImages), product)' /\ Posted(x)'
    <3>1. r.of = product /\ Sound(Ids(productImages), product)
      BY <2>2, PictureAt DEF Posted
    <3>2. Sound(Ids(productImages), product)'
      BY <1>1, <3>1 DEF Sound, Ids
    <3>3. Sound(Images!Of(product), product)
      BY <1>2 DEF Sound, Images!Of, PicturesTyped
    <3>4. x.answer = "ok" => Sound(Ids(x.says), product)
      BY <1>5, <1>7, <3>1, <3>3
    <3>5. (x.answer = "ok" => Sound(Ids(x.says), product))'
      BY <1>1, <3>4 DEF Sound, Ids
    <3> QED
      BY <1>1, <1>2, <1>7, <3>1, <3>2, <3>5 DEF Posted
  <2>3. ASSUME patient, ~strayed' PROVE Replied(x)'
    <3>1. x.answer = "ok" /\ x.says = s
      BY <1>7, <2>3
    <3>2. r.of = product
      BY <2>3, PictureAt DEF Posted
    <3>3. Had(product)' = Had(product)
      BY <1>1, <1>6 DEF Had, Images!Of, Images!Stored
    <3> QED
      BY <1>5, <1>7, <3>1, <3>2, <3>3 DEF Replied
  <2>4. ~(x.kind = "upload" /\ x.answer = "ok")
    BY <1>7
  <2> QED
    BY <1>1, <1>3, <1>7, <2>1, <2>2, <2>3, <2>4, PictureAnswered
<1>8. CASE /\ flight' = (flight \ {r}) \cup
                {[r EXCEPT !.answer = "ok", !.says = Images!ServerImages(r.of)]}
           /\ UNCHANGED strayed
  <2> DEFINE x == [r EXCEPT !.answer = "ok", !.says = s]
  <2>1. /\ x \in Images!Requests /\ x.kind = "reread" /\ x.of = r.of
        /\ x.answer = "ok" /\ x.says = s
    BY <1>1, <1>2, <1>5 DEF Images!Requests
  <2>2. flight' = (flight \ {r}) \cup {x}
    BY <1>4, <1>8
  <2> HIDE DEF x
  <2> QED
    BY <1>7, <1>8, <2>1, <2>2
<1>9. CASE Images!Answered(r, "lost") /\ strayed' = TRUE
  <2> DEFINE x == [r EXCEPT !.answer = "lost"]
  <2>1. /\ x \in Images!Requests /\ x.kind = "reread" /\ x.of = r.of /\ x.answer = "lost"
    BY <1>1, <1>2, AnsweredPicture
  <2>2. flight' = (flight \ {r}) \cup {x}
    BY <1>9 DEF Images!Answered
  <2> HIDE DEF x
  <2> QED
    BY <1>7, <1>9, <2>1, <2>2
<1> QED
  BY <1>8, <1>9 DEF Images!Product

\* Another client's deletion: the image leaves the order too.
LEMMA DeleteImageKeeps ==
  ASSUME Images!ConstantsTyped, ImagesInv, NEW x \in Pictures, Images!DeleteImage(x)
  PROVE  ImagesInv'
<1>1. /\ moves < ImageMoves /\ moves' = moves + 1
      /\ owner' = [owner EXCEPT ![x] = None] /\ placed' = placed \ {x}
      /\ main' = [main EXCEPT ![x] = FALSE] /\ position' = [position EXCEPT ![x] = 0]
      /\ strayed' = TRUE
      /\ UNCHANGED <<drawerOpen, product, productImages, dragged, flight, patient>>
  BY DEF Images!DeleteImage, Images!form
<1>2. PicturesTyped /\ DragTyped
  BY ImagesTypes DEF ImagesInv
<1>3. PicturesTyped'
  BY <1>1, <1>2 DEF PicturesTyped
<1>4. moves' \in 0..ImageMoves
  BY <1>1, <1>2 DEF DragTyped, Images!ConstantsTyped
<1>5. DragTyped'
  BY <1>1, <1>2, <1>4 DEF DragTyped
<1>6. /\ owner'[x] = None /\ main'[x] = FALSE
      /\ \A z \in Pictures \ {x} :
           owner'[z] = owner[z] /\ position'[z] = position[z] /\ main'[z] = main[z]
  BY <1>1, <1>2 DEF PicturesTyped
<1>7. Images!OneMain'
  BY <1>6 DEF ImagesInv, Images!OneMain
<1>8. \A z \in placed' :
        z \in placed /\ owner'[z] = owner[z] /\ position'[z] = position[z]
  BY <1>1, <1>2, <1>6 DEF PicturesTyped
<1>9. Images!PlacedApart'
  BY <1>1, <1>8 DEF ImagesInv, Images!PlacedApart
<1>10. \A ids \in SUBSET Pictures : \A p : Sound(ids, p) => Sound(ids, p)'
  <2>1. ASSUME NEW ids \in SUBSET Pictures, NEW p, Sound(ids, p) PROVE Sound(ids, p)'
    BY <1>6, <1>8, <2>1 DEF Sound
  <2> QED
    BY <2>1
<1>11. ASSUME NEW s \in Seq(Images!Picture) PROVE Ids(s) \in SUBSET Pictures
  <2>1. \A k \in DOMAIN s : s[k] \in Images!Picture
    OBVIOUS
  <2> QED
    BY <2>1 DEF Ids, Images!Picture
<1>12. PlacesKept'
  <2>1. \A z \in placed' : owner'[z] # None
    BY <1>8 DEF ImagesInv, PlacesKept
  <2>2. ASSUME patient, product # None PROVE Sound(Ids(productImages), product)'
    <3>1. Ids(productImages) \in SUBSET Pictures /\ Sound(Ids(productImages), product)
      BY <1>2, <1>11, <2>2 DEF ImagesInv, PlacesKept, DragTyped
    <3> QED
      BY <1>1, <1>10, <3>1 DEF Sound, Ids
  <2>3. ASSUME patient, NEW r \in flight PROVE Posted(r)'
    <3>1. Posted(r) /\ r \in Images!Requests
      BY <1>2, <2>3 DEF ImagesInv, PlacesKept, DragTyped
    <3>2. r.says \in Seq(Images!Picture)
      BY <3>1 DEF Images!Requests
    <3>3. Ids(r.says) \in SUBSET Pictures
      BY <1>11, <3>2
    <3>4. Sound(Ids(r.says), product) => Sound(Ids(r.says), product)'
      BY <1>1, <1>10, <3>3 DEF Sound
    <3>5. r.kind = "upload" /\ r.answer = "ok" => owner'[r.image] \in {product, None}
      BY <1>6, <3>1 DEF ImagesInv, Posted
    <3> QED
      BY <1>1, <3>1, <3>4, <3>5 DEF Posted, Ids, Images!Range
  <2> QED
    BY <1>1, <2>1, <2>2, <2>3 DEF ImagesInv, PlacesKept
<1>13. PicturesKept'
  BY <1>1 DEF PicturesKept
<1>14. \A r \in flight' : r.kind = "upload" /\ r.answer = "ok" => r.image \in Pictures
  BY <1>1 DEF ImagesInv
<1> QED
  BY <1>1, <1>3, <1>5, <1>7, <1>9, <1>12, <1>13, <1>14, ImagesTypesNext DEF ImagesInv

\* An answer that is heard, and the request it lets go.
LEMMA PictureHeard ==
  ASSUME ImagesInv, NEW r \in flight, NEW next \in SUBSET Images!Requests,
         flight' = (flight \ {r}) \cup next,
         UNCHANGED <<owner, position, main, placed, drawerOpen, product, dragged, moves, patient,
                     strayed>>,
         productImages' \in Seq(Images!Picture),
         \A x, y \in next : x = y,
         \A x \in next : x.answer = "sent" /\ x.kind \in {"upload", "reread"},
         patient => /\ Sound(Ids(productImages'), product)
                    /\ \A x \in next : x.of = product,
         patient /\ ~strayed =>
           \/ \E x \in next : x.kind = "reread"
           \/ Images!Range(productImages') = Had(product)
  PROVE  ImagesInv'
<1>1. PicturesTyped' /\ Images!OneMain' /\ Images!PlacedApart'
      /\ (\A y \in placed' : owner'[y] # None)
      /\ \A ids : \A q : Sound(ids, q)' = Sound(ids, q)
  BY PicturesStay
<1>2. DragTyped /\ product # None
  BY PictureAt
<1>3. DragTyped'
  BY <1>2 DEF DragTyped
<1>4. ASSUME patient PROVE flight' = next
  BY <1>4, PictureAt
<1>5. PlacesKept'
  <2>1. ASSUME patient PROVE Sound(Ids(productImages), product)'
    BY <2>1 DEF Sound, Ids
  <2>2. ASSUME patient, NEW x \in next PROVE Posted(x)'
    BY <1>2, <2>2 DEF Posted
  <2> QED
    BY <1>1, <1>4, <2>1, <2>2 DEF PlacesKept
<1>6. PicturesKept'
  <2>1. Had(product)' = Had(product)
    BY DEF Had, Images!Of, Images!Stored
  <2>2. Images!Range(productImages)' = Images!Range(productImages')
    BY DEF Images!Range
  <2>3. ASSUME patient, ~strayed, Images!Range(productImages') = Had(product) PROVE PicturesKept'
    <3>1. \A x \in next : Replied(x)'
      BY <2>1, <2>2, <2>3 DEF Replied
    <3> QED
      BY <1>4, <2>1, <2>2, <2>3, <3>1 DEF PicturesKept
  <2>4. ASSUME patient, ~strayed, NEW x \in next, x.kind = "reread" PROVE PicturesKept'
    <3>1. flight' = {x}
      BY <1>4, <2>4
    <3>2. Replied(x)'
      BY <2>4 DEF Replied
    <3> QED
      BY <3>1, <3>2 DEF PicturesKept
  <2> QED
    BY <2>3, <2>4 DEF PicturesKept
<1>7. \A x \in flight' : x.kind = "upload" /\ x.answer = "ok" => x.image \in Pictures
  BY DEF ImagesInv
<1> QED
  BY <1>1, <1>2, <1>3, <1>5, <1>6, <1>7, ImagesTypesNext DEF ImagesInv

LEMMA FileNext ==
  ASSUME ImagesInv, NEW r \in flight, r.kind = "upload", Images!NextFile(r)
  PROVE  \E next \in SUBSET Images!Requests :
           /\ flight' = (flight \ {r}) \cup next
           /\ \A x, y \in next : x = y
           /\ \A x \in next : x.answer = "sent" /\ x.kind \in {"upload", "reread"}
           /\ \A x \in next : x.kind = "upload"
           /\ patient => \A x \in next : x.of = product
<1>1. r \in Images!Requests /\ DragTyped /\ product # None
  BY PictureAt
<1>2. r.of \in Products /\ product \in Products /\ r.files \in 0..MaxFiles
  BY <1>1 DEF Images!Requests, DragTyped
<1>3. CASE flight' = flight \ {r}
  <2>1. {} \in SUBSET Images!Requests /\ flight' = (flight \ {r}) \cup {}
    BY <1>3
  <2> QED
    BY <2>1
<1>4. ASSUME r.files > 1, NEW p \in {r.of} \cup ({product} \ {None}),
             flight' = (flight \ {r}) \cup
               {[Images!Request("upload", p) EXCEPT !.files = r.files - 1]}
      PROVE  \E next \in SUBSET Images!Requests :
               /\ flight' = (flight \ {r}) \cup next
               /\ \A x, y \in next : x = y
               /\ \A x \in next : x.answer = "sent" /\ x.kind \in {"upload", "reread"}
               /\ \A x \in next : x.kind = "upload"
               /\ patient => \A x \in next : x.of = product
  <2> DEFINE x == [Images!Request("upload", p) EXCEPT !.files = r.files - 1]
  <2>1. x \in Images!Requests /\ x.kind = "upload" /\ x.of = p /\ x.answer = "sent"
    <3>1. "upload" \in Images!Kinds
      BY DEF Images!Kinds
    <3>2. p \in Products
      BY <1>2, <1>4
    <3>3. r.files - 1 \in 0..MaxFiles
      BY <1>2, <1>4, ImagesAssumed DEF Images!ConstantsTyped
    <3> QED
      BY <3>1, <3>2, <3>3, PictureRequest
  <2>2. patient => p = product
    BY <1>4, PictureAt DEF Posted
  <2>3. flight' = (flight \ {r}) \cup {x}
    BY <1>4
  <2> HIDE DEF x
  <2>4. {x} \in SUBSET Images!Requests
    BY <2>1
  <2> QED
    BY <2>1, <2>2, <2>3, <2>4
<1> QED
  BY <1>3, <1>4 DEF Images!NextFile

LEMMA UploadHeard ==
  ASSUME ImagesInv, NEW r \in flight, Images!HandleUpload(r)
  PROVE  ImagesInv'
<1>1. /\ r.kind = "upload" /\ r.answer \in {"ok", "failed", "lost"} /\ Images!NextFile(r)
      /\ UNCHANGED <<owner, position, main, placed, drawerOpen, product, dragged, moves, patient,
                     strayed>>
  BY DEF Images!HandleUpload, Images!Hears, Images!server
<1>2. PICK next \in SUBSET Images!Requests :
        /\ flight' = (flight \ {r}) \cup next
        /\ \A x, y \in next : x = y
        /\ \A x \in next : x.answer = "sent" /\ x.kind \in {"upload", "reread"}
        /\ \A x \in next : x.kind = "upload"
        /\ patient => \A x \in next : x.of = product
  BY <1>1, FileNext
<1>3. r \in Images!Requests /\ DragTyped /\ product # None
  BY PictureAt
<1>4. productImages \in Seq(Images!Picture)
  BY <1>3 DEF DragTyped
<1>5. CASE r.answer = "ok"
  <2> DEFINE y == NewPicture(r.image)
  <2>1. productImages' = Append(productImages, y)
    BY <1>3, <1>5 DEF Images!HandleUpload, NewPicture
  <2>2. y \in Images!Picture /\ y.id = r.image
    BY <1>1, <1>5 DEF ImagesInv, NewPicture, Images!Picture
  <2> HIDE DEF y
  <2>3. /\ productImages' \in Seq(Images!Picture)
        /\ DOMAIN productImages' = 1..(Len(productImages) + 1)
        /\ productImages'[Len(productImages) + 1] = y
        /\ \A k \in DOMAIN productImages : productImages'[k] = productImages[k]
    BY <1>4, <2>1, <2>2, AddedTo
  <2>4. Len(productImages) \in Nat /\ DOMAIN productImages = 1..Len(productImages)
    BY <1>4
  <2>5. \A k \in DOMAIN productImages' : k \in DOMAIN productImages \/ k = Len(productImages) + 1
    BY <2>3, <2>4
  <2>6. Images!Range(productImages') = Images!Range(productImages) \cup {y}
    BY <2>3, <2>4, <2>5 DEF Images!Range
  <2>7. Ids(productImages') = Ids(productImages) \cup {r.image}
    BY <2>2, <2>3, <2>4, <2>5 DEF Ids
  <2>8. ASSUME patient PROVE Sound(Ids(productImages'), product)
    <3>1. Sound(Ids(productImages), product) /\ owner[r.image] \in {product, None}
      BY <1>1, <1>5, <2>8, PictureAt DEF Posted
    <3> QED
      BY <2>7, <3>1 DEF Sound
  <2>9. ASSUME patient, ~strayed PROVE Images!Range(productImages') = Had(product)
    BY <1>1, <1>5, <2>6, <2>9, PictureAt DEF Replied, y
  <2> QED
    BY <1>1, <1>2, <2>3, <2>8, <2>9, PictureHeard
<1>6. CASE r.answer # "ok"
  <2>1. productImages' = productImages
    BY <1>6 DEF Images!HandleUpload
  <2>2. ASSUME patient PROVE Sound(Ids(productImages'), product)
    BY <2>1, <2>2, PictureAt
  <2>3. ASSUME patient, ~strayed PROVE Images!Range(productImages') = Had(product)
    BY <1>1, <1>6, <2>1, <2>3, PictureAt DEF Replied
  <2> QED
    BY <1>1, <1>2, <1>4, <2>1, <2>2, <2>3, PictureHeard
<1> QED
  BY <1>5, <1>6

LEMMA ChangeHeard ==
  ASSUME ImagesInv, NEW r \in flight, Images!Changed(r)
  PROVE  ImagesInv'
<1>1. /\ r.kind \in {"reorder", "main"} /\ r.answer \in {"ok", "failed", "lost"}
      /\ Images!Reread(r)
      /\ UNCHANGED <<owner, position, main, placed, drawerOpen, product, productImages, dragged,
                     moves, patient, strayed>>
  BY DEF Images!Changed, Images!Hears, Images!server, Images!form
<1>2. r \in Images!Requests /\ DragTyped /\ product # None
  BY PictureAt
<1>3. productImages' \in Seq(Images!Picture)
  BY <1>1, <1>2 DEF DragTyped
<1>4. ASSUME patient PROVE Sound(Ids(productImages'), product)
  BY <1>1, <1>4, PictureAt
<1>5. CASE r.answer = "ok"
  <2> DEFINE x == Images!Request("reread", product)
  <2>1. x \in Images!Requests /\ x.kind = "reread" /\ x.of = product /\ x.answer = "sent"
    <3>1. "reread" \in Images!Kinds /\ product \in Products
      BY <1>2 DEF Images!Kinds, DragTyped
    <3> QED
      BY <3>1, PictureRequest
  <2>2. flight' = (flight \ {r}) \cup {x}
    BY <1>1, <1>5 DEF Images!Reread
  <2> HIDE DEF x
  <2>3. {x} \in SUBSET Images!Requests
    BY <2>1
  <2> QED
    BY <1>1, <1>3, <1>4, <2>1, <2>2, <2>3, PictureHeard
<1>6. CASE r.answer # "ok"
  <2>1. {} \in SUBSET Images!Requests /\ flight' = (flight \ {r}) \cup {}
    BY <1>1, <1>6 DEF Images!Reread
  <2>2. ASSUME patient, ~strayed PROVE Images!Range(productImages') = Had(product)
    BY <1>1, <1>6, <2>2, PictureAt DEF Replied
  <2> QED
    BY <1>1, <1>3, <1>4, <2>1, <2>2, PictureHeard
<1> QED
  BY <1>5, <1>6

LEMMA RereadHeard ==
  ASSUME ImagesInv, NEW r \in flight, Images!Reloaded(r)
  PROVE  ImagesInv'
<1>1. /\ r.kind = "reread" /\ r.answer \in {"ok", "lost"} /\ flight' = flight \ {r}
      /\ productImages' = IF r.answer = "ok" THEN r.says ELSE productImages
      /\ UNCHANGED <<owner, position, main, placed, drawerOpen, product, dragged, moves, patient,
                     strayed>>
  BY DEF Images!Reloaded, Images!Hears, Images!server
<1>2. r \in Images!Requests /\ DragTyped
  BY PictureAt
<1>3. productImages' \in Seq(Images!Picture)
  BY <1>1, <1>2 DEF DragTyped, Images!Requests
<1>4. ASSUME patient PROVE Sound(Ids(productImages'), product)
  BY <1>1, <1>4, PictureAt DEF Posted
<1>5. ASSUME patient, ~strayed PROVE Images!Range(productImages') = Had(product)
  BY <1>1, <1>5, PictureAt DEF Replied
<1>6. {} \in SUBSET Images!Requests /\ flight' = (flight \ {r}) \cup {}
  BY <1>1
<1> QED
  BY <1>1, <1>3, <1>4, <1>5, <1>6, PictureHeard

LEMMA ImagesStart == Images!ConstantsTyped /\ Images!Init => ImagesInv
<1> SUFFICES ASSUME Images!ConstantsTyped, Images!Init PROVE ImagesInv
  OBVIOUS
<1>1. /\ position = [x \in Pictures |-> 0] /\ main = [x \in Pictures |-> FALSE] /\ placed = {}
      /\ drawerOpen = FALSE /\ product = None /\ productImages = <<>> /\ dragged = 0
      /\ flight = {} /\ moves = 0 /\ patient \in BOOLEAN /\ strayed = FALSE
  BY DEF Images!Init
<1>2. owner \in [Pictures -> Products \cup {None}]
  <2>1. PICK p \in Products, new \in Pictures :
          owner = [x \in Pictures |-> IF x = new THEN None ELSE p]
    BY DEF Images!Init
  <2> QED
    BY <2>1
<1>3. PicturesTyped
  BY <1>1, <1>2 DEF PicturesTyped
<1>4. DragTyped
  <2>1. 0 \in 0..ImageMoves /\ <<>> \in Seq(Images!Picture)
    BY DEF Images!ConstantsTyped
  <2> QED
    BY <1>1, <2>1 DEF DragTyped
<1>5. Images!OneMain /\ Images!PlacedApart
  BY <1>1 DEF Images!OneMain, Images!PlacedApart
<1>6. PlacesKept /\ PicturesKept
  BY <1>1 DEF PlacesKept, PicturesKept
<1> QED
  BY <1>1, <1>3, <1>4, <1>5, <1>6, ImagesTypes DEF ImagesInv

LEMMA ImagesStep ==
  Images!ConstantsTyped /\ ImagesInv /\ [Images!Next]_(Images!vars) => ImagesInv'
<1> SUFFICES ASSUME Images!ConstantsTyped, ImagesInv, [Images!Next]_(Images!vars)
             PROVE  ImagesInv'
  OBVIOUS
<1>1. CASE UNCHANGED Images!vars
  <2>1. UNCHANGED <<owner, position, main, placed, drawerOpen, product, productImages, dragged,
                    flight, moves, patient, strayed>>
    BY <1>1 DEF Images!vars, Images!server, Images!form
  <2>2. drawerOpen' \in BOOLEAN /\ (drawerOpen' => drawerOpen) /\ dragged' \in Nat
        /\ moves' \in 0..ImageMoves
    BY <2>1, ImagesTypes DEF ImagesInv, DragTyped
  <2> QED
    BY <2>1, <2>2, PicturesSame
<1>2. ASSUME NEW p \in Products, Images!OpenEdit(p) PROVE ImagesInv'
  BY <1>2, EditOpened
<1>3. CASE Images!CloseDrawer \/ Images!HandleDragEnd
  BY <1>3, DraggedOnly
<1>4. ASSUME NEW n \in 1..MaxFiles, Images!Upload(n) PROVE ImagesInv'
  BY <1>4, PictureUploaded
<1>5. ASSUME NEW i \in DOMAIN productImages,
             \/ Images!HandleDragStart(i) \/ Images!HandleDrop(i)
             \/ Images!HandleSetRepresentative(i)
      PROVE  ImagesInv'
  BY <1>5, DraggedOnly, PictureDropped, MainChosen
<1>6. ASSUME NEW r \in flight,
             \/ Images!AddImage(r) \/ Images!UpdateProductImagePositions(r)
             \/ Images!SetRepresentativeImage(r) \/ Images!Product(r)
      PROVE  ImagesInv'
  BY <1>6, AddImageKeeps, OrderKeeps, MainKeeps, ProductRead
<1>7. ASSUME NEW r \in flight,
             Images!HandleUpload(r) \/ Images!Changed(r) \/ Images!Reloaded(r)
      PROVE  ImagesInv'
  BY <1>7, UploadHeard, ChangeHeard, RereadHeard
<1>8. ASSUME NEW x \in Pictures, Images!DeleteImage(x) PROVE ImagesInv'
  BY <1>8, DeleteImageKeeps
<1> QED
  BY <1>1, <1>2, <1>3, <1>4, <1>5, <1>6, <1>7, <1>8 DEF Images!Next

LEMMA ImagesSafe ==
  ASSUME ImagesInv
  PROVE  /\ Images!TypeOK /\ Images!OneMain /\ Images!PlacedApart /\ Images!ImagesAgree
<1>1. Images!TypeOK /\ Images!OneMain /\ Images!PlacedApart
  BY DEF ImagesInv
<1>2. ASSUME patient, flight = {}, ~strayed, drawerOpen
      PROVE  Images!Range(productImages) = Images!Range(Images!ServerImages(product))
  <2>1. product # None /\ PicturesTyped
    BY <1>2, ImagesTypes DEF ImagesInv
  <2>2. Images!Range(productImages) = Had(product)
    BY <1>2, <2>1 DEF ImagesInv, PicturesKept
  <2>3. PICK p : p = product
    OBVIOUS
  <2>4. Images!Range(Images!ServerImages(p)) = Had(p)
    BY <2>1, ServerLists, ImagesAssumed
  <2> QED
    BY <2>2, <2>3, <2>4
<1> QED
  BY <1>1, <1>2 DEF Images!ImagesAgree

-----------------------------------------------------------------------------
(* The forms side by side: the one that is open steps, and stays open.     *)

LEMMA FormAlone ==
  ASSUME [Next]_vars
  PROVE  /\ form' = form
         /\ form = "images" => [Images!Next]_(Images!vars)
         /\ form = "content" => [Content!Next]_(Content!vars)
         /\ form = "settings" => [Settings!Next]_(Settings!vars)
         /\ form = "providers" => [Providers!Next]_(Providers!vars)
<1>1. CASE UNCHANGED vars
  <2>1. UNCHANGED Settings!vars
    BY <1>1 DEF vars, SettingsOwn, Settings!vars, Settings!screen, Settings!server
  <2>2. UNCHANGED Providers!vars
    BY <1>1 DEF vars, ProvidersOwn, Providers!vars, Providers!page
  <2>3. UNCHANGED Content!vars
    BY <1>1 DEF vars, ContentOwn, Content!vars, Content!server, Content!list
  <2>4. UNCHANGED Images!vars
    BY <1>1 DEF vars, ImagesOwn, Images!vars, Images!server, Images!form
  <2> QED
    BY <1>1, <2>1, <2>2, <2>3, <2>4 DEF vars
<1>2. CASE Next
  BY <1>2 DEF Next, VariantsForm, ImagesForm, ContentForm, SettingsForm, ProvidersForm
<1> QED
  BY <1>1, <1>2

FormsInv ==
  /\ form \in {"variants", "images", "content", "settings", "providers"}
  /\ form = "images" => ImagesInv
  /\ form = "content" => ContentInv
  /\ form = "settings" => SettingsInv
  /\ form = "providers" => ProvidersInv

\* What each form starts with and what each of its steps keeps.
LEMMA Started == Init => FormsInv
<1>1. /\ Images!ConstantsTyped /\ Content!ConstantsTyped
      /\ Settings!ConstantsTyped /\ Providers!ConstantsTyped
  BY FormsAssumption
<1> SUFFICES ASSUME Init PROVE FormsInv
  OBVIOUS
<1>2. /\ form \in {"variants", "images", "content", "settings", "providers"}
      /\ form = "images" => Images!Init
      /\ form = "content" => Content!Init
      /\ form = "settings" => Settings!Init
      /\ form = "providers" => Providers!Init
  BY DEF Init
<1> QED
  BY <1>1, <1>2, ImagesStart, ContentStart, SettingsStart, ProvidersStart DEF FormsInv

LEMMA Stepped == FormsInv /\ [Next]_vars => FormsInv'
<1>1. /\ Images!ConstantsTyped /\ Content!ConstantsTyped
      /\ Settings!ConstantsTyped /\ Providers!ConstantsTyped
  BY FormsAssumption
<1> SUFFICES ASSUME FormsInv, [Next]_vars PROVE FormsInv'
  OBVIOUS
<1>2. form' = form
  BY FormAlone
<1>3. ASSUME form = "settings" PROVE SettingsInv'
  BY <1>1, <1>3, FormAlone, SettingsStep DEF FormsInv
<1>4. ASSUME form = "providers" PROVE ProvidersInv'
  BY <1>1, <1>4, FormAlone, ProvidersStep DEF FormsInv
<1>5. ASSUME form = "content" PROVE ContentInv'
  BY <1>1, <1>5, FormAlone, ContentStep DEF FormsInv
<1>6. ASSUME form = "images" PROVE ImagesInv'
  BY <1>1, <1>6, FormAlone, ImagesStep DEF FormsInv
<1> QED
  BY <1>2, <1>3, <1>4, <1>5, <1>6 DEF FormsInv

\* The state of every form but the variants' has its type, whatever is clicked, typed,
\* stored, refused or lost.
THEOREM FormsTyped == Spec => [](form # "variants" => TypeOK)
<1>1. FormsInv => (form # "variants" => TypeOK)
  <2>1. CASE form = "images"
    BY <2>1, ImagesSafe DEF FormsInv, TypeOK
  <2>2. CASE form = "content"
    BY <2>2, ContentSafe DEF FormsInv, TypeOK
  <2>3. CASE form = "settings"
    BY <2>3, SettingsSafe DEF FormsInv, TypeOK
  <2>4. CASE form = "providers"
    BY <2>4, ProvidersSafe DEF FormsInv, TypeOK
  <2> QED
    BY <2>1, <2>2, <2>3, <2>4 DEF FormsInv
<1> QED
  BY <1>1, Started, Stepped, PTL DEF Spec

\* A product has at most one main image and no two of its images are put in one place;
\* the images and the digital content a drawer lists are the server's, once every answer
\* has arrived and none was lost: for any products and images, in whatever order the
\* requests of uploads, drags, deletions and choices are answered.
THEOREM ContentListed == Spec => []ContentIsListed
<1>1. FormsInv => ContentIsListed
  BY ImagesSafe, ContentSafe DEF FormsInv, ContentIsListed
<1> QED
  BY <1>1, Started, Stepped, PTL DEF Spec

\* What the operator has typed and saved is what the server has, for one who waits for
\* each answer; a mark that is shown is on file; a provider is on when it was turned on:
\* whatever is saved, uploaded, toggled, refused or lost, on every page.
THEOREM SettingsKeep == Spec => []SettingsSurvive
<1>1. FormsInv => SettingsSurvive
  BY SettingsSafe, ProvidersSafe DEF FormsInv, SettingsSurvive
<1> QED
  BY <1>1, Started, Stepped, PTL DEF Spec

\* A key the list shows as sold keeps its row and its text, for an operator who waits for
\* each answer: whatever is added, typed, deleted or claimed meanwhile.
THEOREM SoldKeysKept == Spec => []SoldKeysAreSafe
<1>1. FormsInv => SoldKeysAreSafe
  BY ContentSafe DEF FormsInv, SoldKeysAreSafe
<1> QED
  BY <1>1, Started, Stepped, PTL DEF Spec

=============================================================================
