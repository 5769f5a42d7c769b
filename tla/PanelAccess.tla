------------------------------ MODULE PanelAccess ------------------------------
(***************************************************************************)
(* How an operator gets into the panel: the install wizard, which may move *)
(* the process to another database, signing in and out, and the checks a   *)
(* panel page makes before it is shown, two of which the browser caches.   *)
(*                                                                         *)
(* One client is the operator's browser.  The others call the same API.    *)
(* An installation is several steps of the server; the process may restart *)
(* between any two of them, and then runs on the configured database.      *)
(* config.json is emptied and then written, so a write that fails half-way *)
(* or is cut off by a restart may leave a file nothing can read: the       *)
(* process then does not start, until someone mends the file by hand.      *)
(***************************************************************************)
EXTENDS Naturals

CONSTANTS Databases, Home,     \* Home: the built-in default
          Clients, Operator,   \* Operator: the one at the browser
          None, MaxMoves

VARIABLES
  installed, admin,            \* per database: is there a shop, and whose it is
  older,                       \* history: the databases with a shop from the start
  active, config,              \* the process's database, and config.json's; None: no
                               \* process, and a file that cannot be read
  torn,                        \* history: a write of config.json failed or was cut off
  job, said,                   \* per client: its installation, and the answer
  cookie,                      \* the database with the browser's session
  place, check,                \* the page, and the check it waits for
  installCache, versionCache,  \* what the browser remembers
  locked, typed, tested, testing,  \* the wizard's connection
  overlap,                     \* two installations have run at once
  moves

ConstantsTyped ==
  Home \in Databases /\ None \notin Databases /\ Operator \in Clients /\ MaxMoves \in Nat

shops == <<installed, admin, older>>
process == <<active, config, torn>>
browser == <<cookie, place, check, installCache, versionCache>>
wizard == <<locked, typed, tested, testing>>
vars == <<shops, process, job, said, browser, wizard, overlap, moves>>
-----------------------------------------------------------------------------
Idle == [step |-> "idle", target |-> Home, previous |-> Home]
Jobs == [step: {"idle", "open", "read", "committed", "swapped", "writing"},
         target: Databases, previous: Databases \cup {None}]
Remembered == {"nothing", "yes", "no"}

TypeOK ==
  /\ installed \in [Databases -> BOOLEAN] /\ admin \in [Databases -> Clients \cup {None}]
  /\ older \subseteq Databases
  /\ {active, config} \subseteq Databases \cup {None} /\ torn \in BOOLEAN
  /\ job \in [Clients -> Jobs] /\ said \in [Clients -> {"", "ok", "failed"}]
  /\ cookie \in Databases \cup {None}
  /\ place \in {"elsewhere", "install", "signin", "panel"}
  /\ check \in {"none", "status", "version"}
  /\ installCache \in Remembered /\ versionCache \in Remembered
  /\ locked \in BOOLEAN /\ typed \in Databases
  /\ tested \in BOOLEAN /\ testing \in Databases \cup {None}
  /\ overlap \in BOOLEAN /\ moves \in 0..MaxMoves

Init ==
  /\ installed \in {[d \in Databases |-> FALSE],
                    [d \in Databases |-> d # Home]}   \* others may hold a shop
  /\ admin = [d \in Databases |-> None] /\ older = {d \in Databases : installed[d]}
  /\ active = Home /\ config = Home /\ torn = FALSE
  /\ job = [c \in Clients |-> Idle] /\ said = [c \in Clients |-> ""]
  /\ cookie = None /\ place = "elsewhere" /\ check = "none"
  /\ installCache = "nothing" /\ versionCache = "nothing"
  /\ locked = FALSE /\ typed = Home /\ tested = FALSE /\ testing = None
  /\ overlap = FALSE /\ moves = 0

Acts == moves < MaxMoves /\ moves' = moves + 1
-----------------------------------------------------------------------------
(* The server's installation.  Nothing keeps two of them apart.            *)
Step(c, s) == job' = [job EXCEPT ![c].step = s]
Done(c, answer) ==
  job' = [job EXCEPT ![c] = Idle] /\ said' = [said EXCEPT ![c] = answer]

Install(c, d) ==
  /\ Acts /\ active # None /\ job[c].step = "idle"
  /\ overlap' = (overlap \/ \E o \in Clients : job[o].step # "idle")
  /\ \/ /\ installed[active] /\ Done(c, "failed")
     \/ /\ ~installed[active]
        /\ job' = [job EXCEPT ![c] =
             [step |-> IF d = active THEN "read" ELSE "open",
              target |-> d, previous |-> active]]
        /\ said' = [said EXCEPT ![c] = ""]
  /\ UNCHANGED <<shops, process>>
\* Another database is opened and brought up to date first, and refused when
\* it holds a shop.
Occupied(d) == installed[d]
OpenTarget(c) ==
  /\ job[c].step = "open"
  /\ \/ Done(c, "failed")
     \/ ~Occupied(job[c].target) /\ Step(c, "read") /\ UNCHANGED said
  /\ UNCHANGED <<shops, process, browser, wizard, overlap, moves>>
\* One transaction writes the flag and the credentials.  It does not read the
\* flag again.
Commit(c) ==
  /\ job[c].step = "read"
  /\ \/ Done(c, "failed") /\ UNCHANGED shops
     \/ /\ installed' = [installed EXCEPT ![job[c].target] = TRUE]
        /\ admin' = [admin EXCEPT ![job[c].target] = c] /\ UNCHANGED older
        /\ IF job[c].target = job[c].previous THEN Done(c, "ok")
           ELSE Step(c, "committed") /\ UNCHANGED said
  /\ UNCHANGED <<process, browser, wizard, overlap, moves>>
SwapTo(c) ==
  /\ job[c].step = "committed"
  /\ job' = [job EXCEPT ![c].step = "swapped", ![c].previous = active]
  /\ active' = job[c].target
  /\ UNCHANGED <<shops, config, torn, said, browser, wizard, overlap, moves>>
\* config.json is written last; when it cannot be, the process goes back.
GoesOn(c) == Done(c, "ok") /\ UNCHANGED active   \* mutant: the error is ignored
GoesBack(c) == Done(c, "failed") /\ active' = job[c].previous
Truncate(c) ==
  /\ job[c].step = "swapped"
  /\ \/ config' = None /\ Step(c, "writing") /\ UNCHANGED <<active, said>>
     \/ GoesBack(c) /\ UNCHANGED config
  /\ UNCHANGED <<shops, torn, browser, wizard, overlap, moves>>
\* The error may come before anything is in the file, or after all of it is.
WriteConfig(c) ==
  /\ job[c].step = "writing"
  /\ \/ config' = job[c].target /\ Done(c, "ok") /\ UNCHANGED <<active, torn>>
     \/ config' \in {None, job[c].target} /\ torn' = TRUE /\ GoesBack(c)
  /\ UNCHANGED <<shops, browser, wizard, overlap, moves>>
Restart ==
  /\ Acts /\ active' = config
  /\ torn' = (torn \/ \E c \in Clients : job[c].step = "writing")
  /\ job' = [c \in Clients |-> Idle]
  /\ said' = [c \in Clients |-> IF job[c].step = "idle" THEN said[c] ELSE "failed"]
  /\ UNCHANGED <<shops, config, browser, wizard, overlap>>
-----------------------------------------------------------------------------
(* The browser.  It hears nothing from a process that is not there.        *)
Stays == UNCHANGED <<shops, process, said, job, overlap>>
SignedIn == active # None /\ cookie = active
GoTo(p) == place' = p /\ check' = "none"
NewWizard == locked' = (active \notin {Home, None}) /\ typed' = Home /\ tested' = FALSE /\ testing' = None

\* A page of the panel asks the browser's memory, then the server, first whether
\* there is a shop and then whether the operator is signed in.  The install page
\* and the sign-in page ask neither.
ToInstall == GoTo("install") /\ NewWizard
AskVersion ==
  \/ versionCache = "yes" /\ GoTo("panel")
  \/ versionCache = "no" /\ GoTo("signin")
  \/ versionCache = "nothing" /\ check' = "version" /\ UNCHANGED place
OpenPanel ==
  /\ check = "none"
  /\ UNCHANGED <<cookie, installCache, versionCache>>
  /\ \/ installCache = "no" /\ ToInstall
     \/ installCache = "yes" /\ AskVersion /\ UNCHANGED wizard
     \/ installCache = "nothing" /\ check' = "status" /\ UNCHANGED <<place, wizard>>
Visit == Acts /\ OpenPanel /\ Stays
Status(heard) ==
  /\ check = "status" /\ UNCHANGED <<cookie, versionCache, moves>> /\ Stays
  /\ \/ ~heard /\ AskVersion /\ UNCHANGED <<installCache, wizard>>
     \/ /\ heard /\ active # None /\ installed[active] /\ installCache' = "yes"
        /\ AskVersion /\ UNCHANGED wizard
     \/ /\ heard /\ active # None /\ ~installed[active]
        /\ installCache' = "no" /\ ToInstall
Version(heard) ==
  /\ check = "version" /\ UNCHANGED <<cookie, installCache, wizard, moves>> /\ Stays
  /\ \/ heard /\ SignedIn /\ versionCache' = "yes" /\ GoTo("panel")
     \/ ~(heard /\ SignedIn) /\ versionCache' = "nothing" /\ GoTo("signin")
\* What the browser remembers grows old.
Forget ==
  /\ \/ installCache' = "nothing" /\ UNCHANGED versionCache
     \/ versionCache' = "nothing" /\ UNCHANGED installCache
  /\ <<installCache, versionCache>>' # <<installCache, versionCache>>
  /\ Acts /\ UNCHANGED <<cookie, place, check, wizard>> /\ Stays

OpenInstall == Acts /\ ToInstall /\ UNCHANGED <<cookie, installCache, versionCache>> /\ Stays
\* Any change to the connection ends a successful test.
Type(d) ==
  /\ place = "install" /\ ~locked /\ d # typed /\ Acts
  /\ typed' = d /\ tested' = FALSE
  /\ UNCHANGED <<locked, testing, browser>> /\ Stays
HandleTestConnection ==
  /\ place = "install" /\ ~locked /\ typed # Home /\ testing = None
  /\ Acts /\ testing' = typed
  /\ UNCHANGED <<locked, typed, tested, browser>> /\ Stays
TestAnswered(ok) ==
  /\ testing # None /\ testing' = None
  /\ tested' = (ok /\ active # None /\ ~installed[active])
  /\ UNCHANGED <<locked, typed, browser, moves>> /\ Stays
Submit ==
  /\ place = "install" /\ job[Operator].step = "idle"
  /\ locked \/ typed = Home \/ tested
  /\ Install(Operator, IF locked THEN active ELSE typed)
  /\ UNCHANGED <<browser, wizard>>
\* A second later an installed shop's operator is at the sign-in page.
ToSignIn ==
  /\ place = "install" /\ said[Operator] = "ok"
  /\ GoTo("signin") /\ UNCHANGED <<cookie, installCache, versionCache, wizard, moves>> /\ Stays

\* The sign-in page goes on by itself for an operator who is signed in.
SignIn ==
  /\ place = "signin" /\ check = "none" /\ Acts
  /\ active # None
  /\ SignedIn \/ (installed[active] /\ admin[active] = Operator)
  /\ cookie' = active /\ UNCHANGED <<installCache, versionCache>>
  /\ \/ installCache = "no" /\ ToInstall
     \/ installCache = "yes" /\ AskVersion /\ UNCHANGED wizard
     \/ installCache = "nothing" /\ check' = "status" /\ UNCHANGED <<place, wizard>>
  /\ Stays
SignOut ==
  /\ place = "panel" /\ check = "none" /\ SignedIn /\ Acts
  /\ cookie' = None /\ GoTo("signin")
  /\ UNCHANGED <<installCache, versionCache, wizard>> /\ Stays
SessionEnds ==
  /\ cookie # None /\ cookie' = None /\ Acts
  /\ UNCHANGED <<place, check, installCache, versionCache, wizard>> /\ Stays

Next ==
  \/ \E c \in Clients \ {Operator}, d \in Databases :
       Install(c, d) /\ UNCHANGED <<browser, wizard>>
  \/ \E c \in Clients : OpenTarget(c) \/ Commit(c) \/ SwapTo(c)
                        \/ Truncate(c) \/ WriteConfig(c)
  \/ Restart
  \/ Visit \/ Forget \/ OpenInstall \/ HandleTestConnection \/ Submit \/ ToSignIn
  \/ SignIn \/ SignOut \/ SessionEnds
  \/ \E h \in BOOLEAN : Status(h) \/ Version(h) \/ TestAnswered(h)
  \/ \E d \in Databases : Type(d)

Spec == Init /\ [][Next]_vars
-----------------------------------------------------------------------------
\* A client that is told its shop is installed has it for good: whatever failed
\* before, short of the writing of config.json itself, and whatever restarts
\* after, the process runs on the database with that client's credentials.
\* Nothing keeps two installations apart, so that they did not overlap is
\* assumed.  However they overlap, and whatever became of the file, none goes
\* over a shop that was there before.
InstalledShopStays ==
  /\ \A d \in older : installed[d] /\ admin[d] = None
  /\ ~overlap /\ ~torn =>
       /\ \A c \in Clients : said[c] = "ok" =>
            installed[active] /\ admin[active] = c /\ config = active
       /\ (\A c \in Clients : job[c].step = "idle") => config = active

\* "A failure at any point leaves the previous installation untouched": the next
\* start is on the database the process is on.  The code breaks this: config.json
\* is emptied before it is written, and nothing puts the old one back.
PreviousIsUntouched ==
  ~overlap /\ (\A c \in Clients : job[c].step = "idle") => config = active
\* An installation that failed can be tried again in the same database.  The code breaks this: the
\* target is committed before config.json is written, and then refuses a retry.
FailedInstallCanBeRepeated == ~overlap => \A c \in Clients :
  said[c] = "failed" /\ active # None /\ ~installed[active] => \A d \in Databases : admin[d] # c
\* An operator whose shop is installed is not sent back to the wizard.  The panel
\* breaks this: it remembers the status it read before for five minutes.
NotSentBack == said[Operator] = "ok" /\ cookie = active => place # "install"
\* "Any change to the connection invalidates a previous successful test."  The
\* page breaks this when the change is made while the test is running.
TestedIsTyped == [][tested' /\ ~tested => testing = typed]_vars
\* A panel page is shown to who is signed in.  The panel breaks this: it remembers
\* the session it saw for an hour, and signing out does not forget it.
PanelIsForTheSignedIn == place = "panel" => SignedIn
=============================================================================
