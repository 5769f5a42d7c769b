-------------------------------- MODULE MCPanel --------------------------------
(***************************************************************************)
(* The panel shows one page at a time, and a page's state is made when it  *)
(* is opened: the pages that list something, the drawers they open, and    *)
(* the way in.  A behaviour is that of one of them, or of the responder's  *)
(* messages, which arrive while any page is open.                          *)
(***************************************************************************)
EXTENDS Naturals

CONSTANTS
  Items, Untitled, ListMoves,                      \* PanelLists
  MaxCustomer, Buyers, CustomerMoves,                     \* CustomersPage
  MaxId, WorkflowMoves, CrontabMoves,              \* Workflows, Crontab
  PageSize, MaxFlight,
  Databases, Home, Clients, Installer, WayInMoves, \* PanelAccess
  Senders, Addresses, Buyer, MaxDay,               \* Responder
  None

VARIABLES
  route,
  catalog, active, order, page, rows, loading, which,                   \* PanelLists
  drawerOpen, drawerMode, drawerItem, resetting, formData, cart,
  accounts, customers, currentPage, search, registeredOnly,             \* CustomersPage
  searchTimer, drawerCustomer, busy, issuedPassword, overlapped,
  installed, admin, older, config, torn, job, said, cookie, place,      \* PanelAccess
  check, installCache, versionCache, locked, typed, tested, testing, overlap,
  stored, nextId, workflows, open, mode, current, form, closing, meant, \* Workflows
  jobs, tab, serviceInstalled, switch, serviceLoading, known,           \* Crontab
  addressOf, contacts, messages, threads, archived, leaving, forgotten, \* Responder
  pc, my, stale, day, dialect,
  flight, heard, patient, strayed, moves

Lists == INSTANCE PanelLists
  WITH New <- Untitled, MaxMoves <- ListMoves
Customers == INSTANCE CustomersPage
  WITH MaxMoves <- CustomerMoves
Access == INSTANCE PanelAccess
  WITH Operator <- Installer, MaxMoves <- WayInMoves
Workflows == INSTANCE Workflows WITH MaxMoves <- WorkflowMoves
Crontab == INSTANCE Crontab WITH MaxMoves <- CrontabMoves
Mail == INSTANCE Responder
ASSUME PanelAssumption ==
  /\ Lists!ConstantsTyped /\ Customers!ConstantsTyped /\ Access!ConstantsTyped
  /\ Workflows!ConstantsTyped /\ Crontab!ConstantsTyped /\ Mail!ConstantsTyped
-----------------------------------------------------------------------------
(* What a page has and the others do not, and the variables two pages name *)
(* alike: only one of the two is open.                                     *)
ListsOwn == <<catalog, order, which, drawerMode, drawerItem, formData, cart>>
CustomersOwn == <<accounts, currentPage, search, registeredOnly, searchTimer,
                  drawerCustomer, busy, issuedPassword, overlapped>>
AccessOwn == <<installed, admin, older, config, torn, job, said, cookie, place, check,
               installCache, versionCache, locked, typed, tested, testing, overlap>>
WorkflowsOwn == <<stored, nextId, workflows, open, mode, current, form, closing, meant>>
CrontabOwn == <<jobs, tab, serviceInstalled, switch, serviceLoading, known>>
ResponderOwn == <<addressOf, contacts, messages, threads, archived, leaving, forgotten,
                  pc, my, stale, day, dialect>>

NoLists ==
  /\ catalog = 0 /\ order = 0 /\ which = 0 /\ drawerMode = 0 /\ drawerItem = 0
  /\ formData = 0 /\ cart = 0
NoCustomers ==
  /\ accounts = 0 /\ currentPage = 0 /\ search = 0 /\ registeredOnly = 0
  /\ searchTimer = 0 /\ drawerCustomer = 0 /\ busy = 0 /\ issuedPassword = 0 /\ overlapped = 0
NoAccess ==
  /\ installed = 0 /\ admin = 0 /\ older = 0 /\ config = 0 /\ torn = 0 /\ job = 0 /\ said = 0
  /\ cookie = 0 /\ place = 0 /\ check = 0 /\ installCache = 0 /\ versionCache = 0 /\ locked = 0
  /\ typed = 0 /\ tested = 0 /\ testing = 0 /\ overlap = 0
NoWorkflows ==
  /\ stored = 0 /\ nextId = 0 /\ workflows = 0 /\ open = 0 /\ mode = 0
  /\ current = 0 /\ form = 0 /\ closing = 0 /\ meant = 0
NoCrontab ==
  jobs = 0 /\ tab = 0 /\ serviceInstalled = 0 /\ switch = 0 /\ serviceLoading = 0 /\ known = 0
NoResponder ==
  /\ addressOf = 0 /\ contacts = 0 /\ messages = 0 /\ threads = 0 /\ archived = 0
  /\ leaving = 0 /\ forgotten = 0 /\ pc = 0 /\ my = 0 /\ stale = 0 /\ day = 0 /\ dialect = 0

Init ==
  \/ /\ route = "lists" /\ Lists!Init
     /\ NoCustomers /\ NoAccess /\ NoWorkflows /\ NoCrontab /\ NoResponder
     /\ customers = 0 /\ heard = 0
  \/ /\ route = "customers" /\ Customers!Init
     /\ NoLists /\ NoAccess /\ NoWorkflows /\ NoCrontab /\ NoResponder
     /\ active = 0 /\ page = 0 /\ rows = 0 /\ loading = 0 /\ heard = 0 /\ patient = 0
  \/ /\ route = "access" /\ Access!Init
     /\ NoLists /\ NoCustomers /\ NoWorkflows /\ NoCrontab /\ NoResponder
     /\ customers = 0 /\ page = 0 /\ rows = 0 /\ loading = 0 /\ drawerOpen = 0
     /\ resetting = 0 /\ flight = 0 /\ heard = 0 /\ patient = 0 /\ strayed = 0
  \/ /\ route = "workflows" /\ Workflows!Init
     /\ NoLists /\ NoCustomers /\ NoAccess /\ NoCrontab /\ NoResponder
     /\ customers = 0 /\ active = 0 /\ page = 0 /\ rows = 0 /\ drawerOpen = 0
     /\ resetting = 0 /\ strayed = 0
  \/ /\ route = "crontab" /\ Crontab!Init
     /\ NoLists /\ NoCustomers /\ NoAccess /\ NoWorkflows /\ NoResponder
     /\ customers = 0 /\ active = 0 /\ page = 0 /\ drawerOpen = 0 /\ resetting = 0
     /\ strayed = 0 /\ heard = 0
  \/ /\ route = "messages" /\ Mail!Init
     /\ NoLists /\ NoCustomers /\ NoAccess /\ NoWorkflows /\ NoCrontab
     /\ active = 0 /\ page = 0 /\ rows = 0 /\ loading = 0 /\ drawerOpen = 0
     /\ resetting = 0 /\ flight = 0 /\ heard = 0 /\ patient = 0 /\ strayed = 0 /\ moves = 0

ListsPage ==
  /\ route = "lists" /\ Lists!Next
  /\ UNCHANGED <<route, CustomersOwn, AccessOwn, WorkflowsOwn, CrontabOwn, ResponderOwn,
                 customers, heard>>
CustomersPage ==
  /\ route = "customers" /\ Customers!Next
  /\ UNCHANGED <<route, ListsOwn, AccessOwn, WorkflowsOwn, CrontabOwn, ResponderOwn,
                 active, page, rows, loading, heard, patient>>
WayIn ==
  /\ route = "access" /\ Access!Next
  /\ UNCHANGED <<route, ListsOwn, CustomersOwn, WorkflowsOwn, CrontabOwn, ResponderOwn,
                 customers, page, rows, loading, drawerOpen, resetting, flight, heard,
                 patient, strayed>>
WorkflowsPage ==
  /\ route = "workflows" /\ Workflows!Next
  /\ UNCHANGED <<route, ListsOwn, CustomersOwn, AccessOwn, CrontabOwn, ResponderOwn,
                 customers, active, page, rows, drawerOpen, resetting, strayed>>
CrontabPage ==
  /\ route = "crontab" /\ Crontab!Next
  /\ UNCHANGED <<route, ListsOwn, CustomersOwn, AccessOwn, WorkflowsOwn, ResponderOwn,
                 customers, active, page, drawerOpen, resetting, strayed, heard>>
Messages ==
  /\ route = "messages" /\ Mail!Next
  /\ UNCHANGED <<route, ListsOwn, CustomersOwn, AccessOwn, WorkflowsOwn, CrontabOwn, active,
                 page, rows, loading, drawerOpen, resetting, flight, heard, patient,
                 strayed, moves>>
Next == ListsPage \/ CustomersPage \/ WayIn \/ WorkflowsPage \/ CrontabPage \/ Messages
Spec == Init /\ [][Next]_<<route, ListsOwn, CustomersOwn, AccessOwn, WorkflowsOwn, CrontabOwn,
  ResponderOwn, customers, active, page, rows, loading, drawerOpen, resetting, flight, heard,
  patient, strayed, moves>>
-----------------------------------------------------------------------------
\* Every page's state has its type.
TypeOK ==
  CASE route = "lists" -> Lists!TypeOK
    [] route = "customers" -> Customers!TypeOK
    [] route = "access" -> Access!TypeOK
    [] route = "workflows" -> Workflows!TypeOK
    [] route = "crontab" -> Crontab!TypeOK
    [] route = "messages" -> Mail!TypeOK

\* Once every answer has arrived and none was lost, a page's table is what the server has
\* for the query the page shows: on the customers' page whatever was clicked while earlier
\* answers were on their way, on the others for an operator who waits for each.  (A page
\* of content keeps the place it had when the list was read: an edited position moves it
\* with the next read only.)  And the crontab page knows whether the service is installed.
TableAgreesWithServer ==
  CASE route = "lists" -> Lists!TableAgreesWithServer
    [] route = "customers" -> Customers!TableAgreesWithServer
    [] route = "workflows" -> Workflows!TableAgreesWithServer
    [] route = "crontab" -> Crontab!ServiceIsKnown
    [] route \in {"access", "messages"} -> TRUE

\* What an open drawer holds belongs to the row it was opened on: its text is saved to
\* that row, its order is that row's, and a password it shows is the account's.
DrawerKeepsItsRow ==
  CASE route = "lists" -> Lists!SavedToItsOwnPage /\ Lists!CartIsTheDrawers
    [] route = "customers" -> Customers!DrawerShowsTheRow /\ Customers!IssuedPasswordWorks
    [] route = "workflows" -> Workflows!SavedToItsOwnWorkflow
    [] route \in {"access", "crontab", "messages"} -> TRUE

\* A shop that has been installed is the one the process serves from then on, also after
\* a failed installation, another client's attempt and a restart, unless two installations
\* overlapped or the writing of config.json itself failed or was cut off; and whatever
\* happens, no installation goes over a shop that was there before.
InstalledShopStays == route = "access" => Access!InstalledShopStays

\* On SQLite a message whose sender was told so is stored or archived, whatever it raced
\* with, until the operator deletes its customer; and on either engine a customer's thread shows the latest message and how many
\* are unread, unless another message, a link, a read or a failure overtook its rebuild.
MessagesAreKept == route = "messages" => Mail!NoMessageLost /\ Mail!ThreadsAgree
=============================================================================
