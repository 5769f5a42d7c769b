------------------------------- MODULE Workflows -------------------------------
(***************************************************************************)
(* The responder's workflows page of the panel: a table of workflows and a *)
(* drawer that shows, adds or edits one.  Every change is followed by a    *)
(* reload of the table, and a change made in the drawer by its closing.    *)
(* The drawer forgets what it was about a moment after it is closed.       *)
(* A workflow is its text and whether it is enabled.                       *)
(***************************************************************************)
EXTENDS Naturals, Sequences, SequencesExt

CONSTANTS MaxId, MaxMoves, MaxFlight

VARIABLES
  stored, nextId,   \* the server's workflows by id
  workflows,        \* the page's copy of them
  loading,          \* the page waits for the table
  open, mode,       \* the drawer, and what it is for
  current, form,    \* the workflow it was opened on (0: none), and its fields
  closing,          \* its delayed reset is due
  meant,            \* the workflow the operator opened it on, 0 for a new one
  flight, heard, patient, moves

server == <<stored, nextId>>
drawer == <<open, mode, current, form, closing, meant>>
vars == <<server, workflows, loading, drawer, flight, heard, patient, moves>>
-----------------------------------------------------------------------------
Ids == 1..MaxId
ConstantsTyped == MaxId \in Nat \ {0} /\ MaxMoves \in Nat /\ MaxFlight \in Nat
Workflow == [text: {"old", "new"}, enabled: BOOLEAN]
New == [text |-> "old", enabled |-> TRUE]
Tables == UNION {[S -> Workflow] : S \in SUBSET Ids}
Requests == [kind: {"load", "save", "delete"}, id: Ids \cup {0}, body: Workflow,
             meant: Ids \cup {0}, closes: BOOLEAN, done: BOOLEAN, ok: BOOLEAN, rows: Tables]

TypeOK ==
  /\ stored \in Tables /\ workflows \in Tables /\ nextId \in 2..MaxId + 1
  /\ loading \in BOOLEAN /\ open \in BOOLEAN /\ mode \in {"view", "add", "edit"}
  /\ current \in Ids \cup {0} /\ form \in Workflow /\ closing \in BOOLEAN
  /\ meant \in Ids \cup {0}
  /\ flight \in Seq(Requests) /\ Len(flight) <= MaxFlight + 1
  /\ heard \in BOOLEAN /\ patient \in BOOLEAN /\ moves \in 0..MaxMoves

Ask(k, id, body, m, c) ==
  [kind |-> k, id |-> id, body |-> body, meant |-> m, closes |-> c,
   done |-> FALSE, ok |-> FALSE, rows |-> <<>>]
Load(c) == Ask("load", 0, New, 0, c)

Init ==
  /\ stored = <<New>> /\ nextId = 2
  /\ workflows = <<>> /\ loading = TRUE /\ flight = <<Load(FALSE)>>
  /\ open = FALSE /\ mode = "view" /\ current = 0 /\ form = New /\ closing = FALSE
  /\ meant = 0 /\ heard = TRUE /\ patient \in BOOLEAN /\ moves = 0

Clicks ==
  /\ moves < MaxMoves /\ moves' = moves + 1
  /\ patient => flight = <<>> /\ ~closing
Send(r) == Len(flight) < MaxFlight /\ flight' = Append(flight, r)
-----------------------------------------------------------------------------
(* The drawer, opened from the table unless it is over it.                 *)
Opened(m, id, f) ==
  /\ open' = TRUE /\ mode' = m /\ current' = id /\ form' = f /\ meant' = id
  /\ UNCHANGED <<server, workflows, loading, closing, flight, heard, patient>>
OpenView(i) == ~open /\ ~loading /\ Clicks /\ Opened("view", i, form)
OpenAdd == ~open /\ Clicks /\ Opened("add", 0, New)
OpenEdit(i) ==
  /\ \/ ~open /\ ~loading
     \/ open /\ mode = "view" /\ current = i
  /\ Clicks /\ Opened("edit", i, workflows[i])
EditForm ==
  /\ open /\ mode # "view" /\ \E f \in Workflow \ {form} : form' = f
  /\ Clicks /\ UNCHANGED <<server, workflows, loading, open, mode, current, closing, meant,
                           flight, heard, patient>>
Close == IF open THEN open' = FALSE /\ closing' = TRUE ELSE UNCHANGED <<open, closing>>
CloseDrawer ==
  /\ open /\ Close /\ Clicks
  /\ UNCHANGED <<server, workflows, loading, mode, current, form, meant, flight, heard, patient>>
\* The reset that a close has put off, whatever was opened since.
ResetDrawer ==
  /\ closing /\ closing' = FALSE /\ current' = 0 /\ mode' = "add"
  /\ UNCHANGED <<server, workflows, loading, open, form, meant, flight, heard, patient, moves>>

\* A form that has lost its workflow adds one.
HandleSubmit(valid) ==
  /\ open /\ mode # "view" /\ valid
  /\ Send(Ask("save", IF mode = "edit" THEN current ELSE 0, form, meant, TRUE))
  /\ Clicks /\ UNCHANGED <<server, workflows, loading, drawer, heard, patient>>
DeleteFromFooter(confirmed) ==
  /\ open /\ mode = "edit" /\ current # 0 /\ confirmed
  /\ Send(Ask("delete", current, form, meant, TRUE))
  /\ Clicks /\ UNCHANGED <<server, workflows, loading, drawer, heard, patient>>
\* The switch in the table sends the whole row as the table has it.
ToggleEnabled(i) ==
  /\ ~open /\ ~loading
  /\ Send(Ask("save", i, [workflows[i] EXCEPT !.enabled = ~@], i, FALSE))
  /\ Clicks /\ UNCHANGED <<server, workflows, loading, drawer, heard, patient>>
-----------------------------------------------------------------------------
(* The server and its answers.                                             *)
Without(t, i) == [j \in DOMAIN t \ {i} |-> t[j]]
With(t, i, w) == [j \in DOMAIN t \cup {i} |-> IF j = i THEN w ELSE t[j]]
Served(i, t) ==
  /\ flight' = [flight EXCEPT ![i].done = TRUE, ![i].ok = TRUE, ![i].rows = t]
  /\ UNCHANGED <<workflows, loading, drawer, heard, patient, moves>>
ListWorkflows(i) ==
  /\ flight[i].kind = "load" /\ ~flight[i].done /\ Served(i, stored) /\ UNCHANGED server
CreateWorkflow(i) ==
  /\ flight[i].kind = "save" /\ flight[i].id = 0 /\ ~flight[i].done /\ nextId <= MaxId
  /\ stored' = With(stored, nextId, flight[i].body) /\ nextId' = nextId + 1
  /\ Served(i, <<>>)
UpdateWorkflow(i) ==
  /\ flight[i].kind = "save" /\ flight[i].id \in DOMAIN stored /\ ~flight[i].done
  /\ stored' = With(stored, flight[i].id, flight[i].body)
  /\ Served(i, <<>>) /\ UNCHANGED nextId
DeleteWorkflow(i) ==
  /\ flight[i].kind = "delete" /\ flight[i].id \in DOMAIN stored /\ ~flight[i].done
  /\ stored' = Without(stored, flight[i].id)
  /\ Served(i, <<>>) /\ UNCHANGED nextId
\* Refused, not found, or never arrived.
Refuse(i) ==
  /\ ~flight[i].done /\ flight' = [flight EXCEPT ![i].done = TRUE]
  /\ UNCHANGED <<server, workflows, loading, drawer, heard, patient, moves>>

Reread(r) == <<Load(r.closes)>>
Afterwards(r) == Reread(r)
HandleAnswer(i, got) ==
  LET r == flight[i]  ok == got /\ r.ok IN
  /\ r.done /\ heard' = (heard /\ ok)
  /\ IF r.kind = "load"
     THEN /\ flight' = RemoveAt(flight, i) /\ loading' = FALSE
          /\ workflows' = IF ok THEN r.rows ELSE workflows
          /\ IF r.closes THEN Close ELSE UNCHANGED <<open, closing>>
     ELSE /\ flight' = RemoveAt(flight, i) \o (IF ok THEN Afterwards(r) ELSE <<>>)
          /\ loading' = (loading \/ ok)
          /\ UNCHANGED <<workflows, open, closing>>
  /\ UNCHANGED <<server, mode, current, form, meant, patient, moves>>

Next ==
  \/ OpenAdd \/ EditForm \/ CloseDrawer \/ ResetDrawer
  \/ \E yes \in BOOLEAN : HandleSubmit(yes) \/ DeleteFromFooter(yes)
  \/ \E i \in DOMAIN workflows : OpenView(i) \/ OpenEdit(i) \/ ToggleEnabled(i)
  \/ \E i \in DOMAIN flight :
       \/ ListWorkflows(i) \/ CreateWorkflow(i) \/ UpdateWorkflow(i) \/ DeleteWorkflow(i)
       \/ Refuse(i) \/ \E got \in BOOLEAN : HandleAnswer(i, got)

Spec == Init /\ [][Next]_vars
-----------------------------------------------------------------------------
\* A workflow that is saved or deleted is the one the drawer was opened on, though
\* a closed drawer forgets its workflow a moment later: for an operator who lets
\* that moment pass.
SavedToItsOwnWorkflow ==
  \A i \in DOMAIN flight : patient /\ flight[i].kind # "load" => flight[i].id = flight[i].meant

\* Once every request is answered the table shows what is stored.
TableAgreesWithServer == patient /\ heard /\ flight = <<>> => workflows = stored

\* An edit is saved to the workflow it was opened on, however soon after another.
\* The page breaks this: the timer of the drawer closed before takes its identity.
EditsAreNotAdded ==
  \A i \in DOMAIN flight : flight[i].kind = "save" => flight[i].id = flight[i].meant
=============================================================================
