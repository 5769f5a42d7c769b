-------------------------------- MODULE Crontab --------------------------------
(***************************************************************************)
(* The panel's crontab page and the server's manager of the system         *)
(* crontab.  The page switches the service on (its jobs are put into the   *)
(* crontab, between two markers) and off, and edits the jobs' settings.    *)
(* The crontab also has lines of others; the manager reads it whole and    *)
(* writes it back.                                                         *)
(***************************************************************************)
EXTENDS Naturals, Sequences, SequencesExt

CONSTANTS MaxMoves, MaxFlight

VARIABLES
  jobs,               \* the server's jobs
  tab,                \* the system crontab: its jobs, and the others' lines
  rows, loading,      \* the page's copy of the jobs
  serviceInstalled,   \* what the page takes the service to be
  switch,             \* what its switch shows
  serviceLoading,     \* the switch waits for an answer
  flight, known, patient, moves

server == <<jobs, tab>>
page == <<rows, loading, serviceInstalled, switch, serviceLoading, known, patient, moves>>
vars == <<server, page, flight>>
-----------------------------------------------------------------------------
ConstantsTyped == MaxMoves \in Nat /\ MaxFlight \in Nat \ {0}
IdLength == [xmpp_check |-> 14, cleanup_inactive |-> 11]
Jobs == DOMAIN IdLength
Intervals == {"15min", "daily"}
Settings == [Jobs -> [enabled: BOOLEAN, interval: Intervals]]
Seeded == [j \in Jobs |-> [enabled |-> TRUE,
                           interval |-> IF j = "xmpp_check" THEN "15min" ELSE "daily"]]
Tabs == [ours: SUBSET Jobs, others: 0..MaxMoves]
Kinds == {"jobs", "status", "recheck", "install", "uninstall", "patch"}
Requests == [kind: Kinds, job: Jobs, read: Tabs, step: {"sent", "read", "answered"},
             ok: BOOLEAN, installed: BOOLEAN]

TypeOK ==
  /\ jobs \in Settings /\ tab \in Tabs
  /\ rows \in Settings \cup {<<>>} /\ loading \in BOOLEAN
  /\ serviceInstalled \in BOOLEAN /\ switch \in BOOLEAN /\ serviceLoading \in BOOLEAN
  /\ flight \in Seq(Requests) /\ Len(flight) <= MaxFlight
  /\ known \in BOOLEAN /\ patient \in BOOLEAN /\ moves \in 0..MaxMoves

Ask(k, j) == [kind |-> k, job |-> j, read |-> tab, step |-> "sent", ok |-> FALSE,
              installed |-> FALSE]
AJob == CHOOSE j \in Jobs : TRUE

Init ==
  /\ jobs = Seeded /\ tab \in {[ours |-> o, others |-> 0] : o \in {{}, Jobs}}
  /\ rows = <<>> /\ loading = TRUE
  /\ serviceInstalled = FALSE /\ switch = FALSE /\ serviceLoading = FALSE
  /\ flight = <<Ask("jobs", AJob)>> /\ known = FALSE
  /\ patient \in BOOLEAN /\ moves = 0

Acts == moves < MaxMoves /\ moves' = moves + 1
Clicks == Acts /\ (patient => flight = <<>>)
-----------------------------------------------------------------------------
(* The page.                                                               *)
Send(r) == Len(flight) < MaxFlight /\ flight' = Append(flight, r)

\* The switch goes over at once; the request follows what the page knew.
HandleServiceToggle ==
  /\ ~serviceLoading /\ serviceLoading' = TRUE /\ switch' = ~switch
  /\ Send(Ask(IF serviceInstalled THEN "uninstall" ELSE "install", AJob))
  /\ Clicks /\ UNCHANGED <<server, rows, loading, serviceInstalled, known, patient>>
\* The job's switch and its list of intervals ask the server, then reload.
HandleJob(j) ==
  /\ ~loading /\ rows # <<>> /\ Send(Ask("patch", j))
  /\ Clicks /\ UNCHANGED <<server, rows, loading, serviceInstalled, switch, serviceLoading,
                           known, patient>>

Shows(b) == serviceInstalled' = b /\ switch' = IF b = serviceInstalled THEN switch ELSE b
\* The table is loaded first and the service asked about after it; a toggle that
\* failed asks about it again.
Recheck(i) == RemoveAt(flight, i) \o <<Ask("recheck", AJob)>>
AfterFailure(i) == Recheck(i)
Answer(i, got) ==
  LET r == flight[i]  ok == got /\ r.ok IN
  /\ r.step = "answered"
  /\ CASE r.kind = "jobs" ->
            /\ rows' = (IF ok THEN jobs ELSE rows) /\ loading' = FALSE
            /\ flight' = RemoveAt(flight, i) \o (IF rows = <<>> THEN <<Ask("status", AJob)>> ELSE <<>>)
            /\ UNCHANGED <<serviceInstalled, switch, serviceLoading, known>>
       [] r.kind \in {"status", "recheck"} ->
            /\ Shows(IF ok THEN r.installed ELSE serviceInstalled) /\ known' = ok
            /\ serviceLoading' = (serviceLoading /\ r.kind = "status")
            /\ flight' = RemoveAt(flight, i) /\ UNCHANGED <<rows, loading>>
       [] r.kind \in {"install", "uninstall"} ->
            /\ IF ok THEN /\ Shows(r.kind = "install") /\ flight' = RemoveAt(flight, i)
                          /\ serviceLoading' = FALSE /\ known' = TRUE
                     ELSE /\ flight' = AfterFailure(i)
                          /\ UNCHANGED <<serviceInstalled, switch, serviceLoading, known>>
            /\ UNCHANGED <<rows, loading>>
       [] r.kind = "patch" ->
            /\ flight' = RemoveAt(flight, i) \o <<Ask("jobs", r.job)>> /\ loading' = TRUE
            /\ UNCHANGED <<rows, serviceInstalled, switch, serviceLoading, known>>
  /\ UNCHANGED <<server, patient, moves>>
-----------------------------------------------------------------------------
(* The server.  The crontab is read, then written back with the jobs' lines*)
(* in it or out of it.                                                     *)
Done(i, ok) == flight' = [flight EXCEPT ![i].step = "answered", ![i].ok = ok,
                                        ![i].installed = tab.ours # {}]
Enabled(js) == {j \in Jobs : js[j].enabled}
ListJobs(i) == flight[i].kind = "jobs" /\ flight[i].step = "sent" /\ Done(i, TRUE)
               /\ UNCHANGED <<server, page>>
IsInstalled(i) == flight[i].kind \in {"status", "recheck"} /\ flight[i].step = "sent" /\ Done(i, TRUE)
                  /\ UNCHANGED <<server, page>>
GetCurrentCrontab(i) ==
  /\ flight[i].kind \in {"install", "uninstall"} /\ flight[i].step = "sent"
  /\ flight' = [flight EXCEPT ![i].step = "read", ![i].read = tab]
  /\ UNCHANGED <<server, page>>
WriteCrontab(i, ok) ==
  /\ flight[i].step = "read" /\ Done(i, ok)
  /\ tab' = IF ok THEN [flight[i].read EXCEPT
                         !.ours = IF flight[i].kind = "install" THEN Enabled(jobs) ELSE {}]
            ELSE tab
  /\ UNCHANGED <<jobs, page>>
\* A job is asked for by an id of fifteen characters; the request names either its
\* switch or its interval, and the server wants both.
UpdateCrontabJob(i) ==
  LET reached == IdLength[flight[i].job] = 15 IN
  /\ flight[i].kind = "patch" /\ flight[i].step = "sent" /\ Done(i, reached)
  /\ jobs' = IF reached THEN [jobs EXCEPT ![flight[i].job].enabled = FALSE] ELSE jobs
  /\ UNCHANGED <<tab, page>>
Refuse(i) ==
  /\ flight[i].step = "sent" /\ Done(i, FALSE) /\ UNCHANGED <<server, page>>
\* Another line of the crontab is added by its owner.
EditCrontab ==
  /\ Acts /\ tab' = [tab EXCEPT !.others = @ + 1]
  /\ UNCHANGED <<jobs, rows, loading, serviceInstalled, switch, serviceLoading, flight,
                 known, patient>>

Next ==
  \/ HandleServiceToggle \/ EditCrontab
  \/ \E j \in Jobs : HandleJob(j)
  \/ \E i \in DOMAIN flight :
       \/ ListJobs(i) \/ IsInstalled(i) \/ GetCurrentCrontab(i) \/ UpdateCrontabJob(i)
       \/ Refuse(i) \/ \E ok \in BOOLEAN : WriteCrontab(i, ok) \/ Answer(i, ok)

Spec == Init /\ [][Next]_vars
-----------------------------------------------------------------------------
\* The page knows whether the jobs are in the crontab, even after a switch that
\* failed or whose answer was lost: it then asks the server again.
ServiceIsKnown == patient /\ known /\ flight = <<>> =>
  serviceInstalled = (tab.ours # {})

\* The lines of others stay in the crontab.  The manager breaks this: it reads
\* the table, and writes it back without a line that was added in between.
OthersStay == [][tab'.others >= tab.others]_vars
\* The switch shows what the page knows.  The page breaks this: a switch that was
\* refused stays where it was clicked.
SwitchShowsIt == flight = <<>> => switch = serviceInstalled
=============================================================================
