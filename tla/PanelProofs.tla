------------------------------ MODULE PanelProofs ------------------------------
(***************************************************************************)
(* The panel for every set of databases, clients, messages, addresses,     *)
(* pages, orders and customers: whichever page is open, its state has its  *)
(* type, its table is the server's once all is quiet, its drawer keeps to  *)
(* the row it was opened on, an installed shop stays while config.json can *)
(* be written, and a message is lost only with its customer.               *)
(*                                                                         *)
(* None of these is inductive.  MailInv adds where every request is, what  *)
(* it has read and whether that is still so; ListsInv, CustomersInv,       *)
(* WorkflowsInv and CrontabInv add what an answer on its way may hold, and *)
(* ListsTable, CustomersTable, WorkflowsTable and CrontabTable how it will *)
(* mend a table that differs from the server's; AccessInv adds where an    *)
(* installation has brought the process.                                   *)
(***************************************************************************)
EXTENDS MCPanel, FiniteSetTheorems, SequenceTheorems, TLAPS

-----------------------------------------------------------------------------
(* The responder's messages.                                               *)

\* How far a request is: its sender's contact has been looked for and made, the
\* message is stored, the thread is being rebuilt.
Placed == {"message", "created", "latest", "clear", "put", "ok", "failed"}
Stored == {"created", "latest", "clear", "put", "ok"}
Rebuilds == {"created", "latest", "clear", "put"}

\* A contact, and a customer, are made by one request; what a request has read of
\* them, and stored, was there.
ContactsOwn ==
  \A k \in DOMAIN contacts : contacts[k].cust \in {k, Buyer} /\ pc[k] \in Placed
SendersOwn ==
  \A s \in Senders : s \in customers => pc[s] \notin {"idle", "customer"}
ReadsOwn ==
  \A s \in Senders : /\ my[s].cust \in Senders => pc[my[s].cust] \in Placed
                     /\ pc[s] \in {"message", "created", "latest", "clear", "put"} => my[s].cust # None
                     /\ pc[s] \in {"clear", "put"} => my[s].last \in Senders
MessagesOwn == \A m \in DOMAIN messages : m \in Senders /\ pc[m] \in Stored \cup {"failed"}
OwnInv == ContactsOwn /\ SendersOwn /\ ReadsOwn /\ MessagesOwn

\* On SQLite nothing is between the archive's copy and its delete.
KeptInv ==
  dialect = "sqlite" =>
    /\ leaving = {}
    /\ \A s \in Senders : pc[s] \in Stored => s \in DOMAIN messages \cup archived \cup forgotten

\* A customer nothing has overtaken has one request at the thread, and what it has
\* read is still so.
ThreadOf(c) ==
  /\ \A s, o \in Mail!Rebuilding(c) : s = o
  /\ \A s \in Mail!Rebuilding(c) :
       /\ pc[s] \in {"clear", "put"} => my[s].last \in Mail!Latest(c) /\ my[s].unread = Mail!Unread(c)
       /\ pc[s] = "put" => Mail!Rows(c) = {}
  /\ Mail!Of(c) # {} /\ Mail!Rebuilding(c) = {} =>
       \E t \in Mail!Rows(c) :
         Mail!Rows(c) = {t} /\ t.last \in Mail!Latest(c) /\ t.unread = Mail!Unread(c)
ThreadInv == \A c \in customers \ stale : ThreadOf(c)

MailInv == Mail!TypeOK /\ OwnInv /\ KeptInv /\ ThreadInv
-----------------------------------------------------------------------------
\* The instances count as the panel does.
LEMMA SameSizes ==
  /\ \A S : /\ Mail!IsFiniteSet(S) <=> IsFiniteSet(S)
            /\ Lists!IsFiniteSet(S) <=> IsFiniteSet(S)
  /\ \A S : /\ Mail!Cardinality(S) = Cardinality(S)
            /\ Lists!Cardinality(S) = Cardinality(S)
            /\ Customers!Cardinality(S) = Cardinality(S)
<1>1. ASSUME NEW S PROVE Mail!IsFiniteSet(S) <=> IsFiniteSet(S)
  BY DEF Mail!IsFiniteSet, IsFiniteSet
<1>2. ASSUME NEW S PROVE Lists!IsFiniteSet(S) <=> IsFiniteSet(S)
  BY DEF Lists!IsFiniteSet, IsFiniteSet
<1>3. ASSUME NEW S PROVE Mail!Cardinality(S) = Cardinality(S)
  BY DEF Mail!Cardinality, Cardinality
<1>4. ASSUME NEW S PROVE Lists!Cardinality(S) = Cardinality(S)
  BY DEF Lists!Cardinality, Cardinality
<1>5. ASSUME NEW S PROVE Customers!Cardinality(S) = Cardinality(S)
  BY DEF Customers!Cardinality, Cardinality
<1> QED
  BY <1>1, <1>2, <1>3, <1>4, <1>5

LEMMA MailInit == ASSUME Mail!ConstantsTyped PROVE Mail!Init => MailInv
<1> SUFFICES ASSUME Mail!Init PROVE MailInv
  OBVIOUS
<1>1. Mail!Nothing \in Mail!Reads
  <2>1. Cardinality(Senders) \in Nat
    BY FS_CardinalityType, SameSizes DEF Mail!ConstantsTyped
  <2> QED
    BY <2>1, SameSizes DEF Mail!Nothing, Mail!Reads
<1>2. /\ customers = {Buyer} /\ DOMAIN contacts = {} /\ DOMAIN messages = {} /\ threads = {}
      /\ archived = {} /\ leaving = {} /\ forgotten = {} /\ stale = {} /\ day = 0
      /\ pc = [s \in Senders |-> "idle"] /\ my = [s \in Senders |-> Mail!Nothing]
      /\ addressOf \in [Senders -> Addresses] /\ dialect \in {"sqlite", "postgres"}
  BY DEF Mail!Init
<1>3. Mail!TypeOK
  BY <1>1, <1>2 DEF Mail!TypeOK, Mail!Customers, Mail!Steps, Mail!ConstantsTyped
<1>4. OwnInv
  <2>1. \A s \in Senders : my[s].cust = None /\ pc[s] = "idle"
    BY <1>2 DEF Mail!Nothing
  <2> QED
    BY <1>2, <2>1
    DEF OwnInv, ContactsOwn, SendersOwn, ReadsOwn, MessagesOwn, Mail!ConstantsTyped
<1>5. KeptInv /\ ThreadInv
  <2>1. Mail!Of(Buyer) = {} /\ Mail!Rebuilding(Buyer) = {}
    BY <1>2 DEF Mail!Of, Mail!Rebuilding
  <2> QED
    BY <1>2, <2>1 DEF KeptInv, Stored, ThreadInv, ThreadOf
<1> QED
  BY <1>3, <1>4, <1>5 DEF MailInv

\* What a request has read of a contact, and of a thread.
WithContact(s, k, c) == [my EXCEPT ![s].contact = k, ![s].cust = c]
WithThread(s, m, n) == [my EXCEPT ![s].last = m, ![s].unread = n]

LEMMA ReadsContact ==
  ASSUME my \in [Senders -> Mail!Reads], NEW s \in Senders, NEW k \in Senders,
         NEW c \in Mail!Customers,
         my' = WithContact(s, k, c)
  PROVE  /\ my' \in [Senders -> Mail!Reads] /\ \A o \in Senders : o # s => my'[o] = my[o]
         /\ my'[s].contact = k /\ my'[s].cust = c
<1> DEFINE q == [my[s] EXCEPT !.contact = k, !.cust = c]
<1>1. q \in Mail!Reads /\ q.contact = k /\ q.cust = c
  <2>1. my[s] \in Mail!Reads
    OBVIOUS
  <2> QED
    BY <2>1 DEF Mail!Reads
<1>2. my' = [my EXCEPT ![s] = q]
  BY DEF WithContact
<1> HIDE DEF q
<1>3. my'[s] = q
  BY <1>2
<1>4. my' \in [Senders -> Mail!Reads]
  BY <1>1, <1>2
<1>5. \A o \in Senders : o # s => my'[o] = my[o]
  BY <1>2
<1> QED
  BY <1>1, <1>3, <1>4, <1>5

LEMMA ReadsThread ==
  ASSUME my \in [Senders -> Mail!Reads], NEW s \in Senders, NEW m \in Senders,
         NEW n \in 0..Cardinality(Senders),
         my' = WithThread(s, m, n)
  PROVE  /\ my' \in [Senders -> Mail!Reads] /\ \A o \in Senders : o # s => my'[o] = my[o]
         /\ my'[s].contact = my[s].contact /\ my'[s].cust = my[s].cust
         /\ my'[s].last = m /\ my'[s].unread = n
<1> DEFINE q == [my[s] EXCEPT !.last = m, !.unread = n]
<1>1. /\ q \in Mail!Reads /\ q.last = m /\ q.unread = n
      /\ q.contact = my[s].contact /\ q.cust = my[s].cust
  <2>1. my[s] \in Mail!Reads
    OBVIOUS
  <2> QED
    BY <2>1, SameSizes DEF Mail!Reads
<1>2. my' = [my EXCEPT ![s] = q]
  BY DEF WithThread
<1> HIDE DEF q
<1>3. my'[s] = q
  BY <1>2
<1>4. my' \in [Senders -> Mail!Reads]
  BY <1>1, <1>2
<1>5. \A o \in Senders : o # s => my'[o] = my[o]
  BY <1>2
<1> QED
  BY <1>1, <1>3, <1>4, <1>5

LEMMA UnreadType ==
  ASSUME Mail!ConstantsTyped, DOMAIN messages \subseteq Senders, NEW c
  PROVE  Mail!Unread(c) \in 0..Cardinality(Senders)
<1>1. {m \in Mail!Of(c) : ~messages[m].read} \subseteq Senders /\ IsFiniteSet(Senders)
  BY SameSizes DEF Mail!Of, Mail!ConstantsTyped
<1> QED
  BY <1>1, SameSizes, FS_Subset, FS_CardinalityType DEF Mail!Unread

\* A customer whose messages, thread and requests are as they were.
LEMMA SameThread ==
  ASSUME NEW c, ThreadOf(c),
         Mail!Of(c)' = Mail!Of(c), Mail!Rows(c)' = Mail!Rows(c),
         Mail!Rebuilding(c)' = Mail!Rebuilding(c),
         \A m \in Mail!Of(c) :
           messages'[m].day = messages[m].day /\ messages'[m].read = messages[m].read,
         \A s \in Mail!Rebuilding(c) : pc'[s] = pc[s] /\ my'[s] = my[s]
  PROVE  ThreadOf(c)'
<1>1. Mail!Latest(c)' = Mail!Latest(c)
  BY DEF Mail!Latest
<1>2. Mail!Unread(c)' = Mail!Unread(c)
  <2>1. {m \in Mail!Of(c)' : ~messages'[m].read} = {m \in Mail!Of(c) : ~messages[m].read}
    OBVIOUS
  <2> QED
    BY <2>1 DEF Mail!Unread
<1> QED
  BY <1>1, <1>2 DEF ThreadOf

\* Nothing of any customer's changes.
LEMMA SameThreads ==
  ASSUME ThreadInv, UNCHANGED <<customers, contacts, messages, threads, pc, my, stale>>
  PROVE  ThreadInv'
<1>1. ASSUME NEW c \in customers \ stale PROVE ThreadOf(c)'
  <2>1. ThreadOf(c)
    BY <1>1 DEF ThreadInv
  <2>2. /\ Mail!Of(c)' = Mail!Of(c) /\ Mail!Rows(c)' = Mail!Rows(c)
        /\ Mail!Rebuilding(c)' = Mail!Rebuilding(c)
    BY DEF Mail!Of, Mail!Rows, Mail!Rebuilding
  <2> QED
    BY <2>1, <2>2, SameThread
<1> QED
  BY <1>1 DEF ThreadInv

\* A request before its message, or after its thread, is not at the thread.
LEMMA SameRebuilds ==
  ASSUME NEW s \in Senders, pc[s] \notin Rebuilds, pc'[s] \notin Rebuilds,
         \A o \in Senders \ {s} : pc'[o] = pc[o] /\ my'[o] = my[o], NEW c
  PROVE  /\ Mail!Rebuilding(c)' = Mail!Rebuilding(c)
         /\ \A o \in Mail!Rebuilding(c) : pc'[o] = pc[o] /\ my'[o] = my[o]
  BY DEF Mail!Rebuilding, Rebuilds

LEMMA GoKeeps ==
  ASSUME Mail!TypeOK, NEW s \in Senders, NEW here, NEW next \in Mail!Steps,
         Mail!Go(s, here, next)
  PROVE  /\ pc[s] = here /\ pc'[s] = next /\ pc' \in [Senders -> Mail!Steps]
         /\ \A o \in Senders : o # s => pc'[o] = pc[o]
  BY DEF Mail!TypeOK, Mail!Go

\* A request that moves on and changes nothing but what it has read.
LEMMA MovesOn ==
  ASSUME DOMAIN contacts \subseteq Senders, OwnInv, KeptInv, NEW s \in Senders,
         UNCHANGED <<customers, contacts, messages, archived, leaving, forgotten, dialect>>,
         \A o \in Senders : o # s => pc'[o] = pc[o] /\ my'[o] = my[o],
         pc'[s] # "idle", pc'[s] = "customer" => pc[s] = "idle", pc'[s] # "contact",
         pc[s] \in Placed => pc'[s] \in Placed, pc'[s] \in Stored => pc[s] \in Stored,
         pc[s] \in Stored \cup {"failed"} => pc'[s] \in Stored \cup {"failed"},
         my'[s].cust \in Senders => my'[s].cust = my[s].cust \/ pc[my'[s].cust] \in Placed,
         pc'[s] \in {"message", "created", "latest", "clear", "put"} => my'[s].cust # None,
         pc'[s] \in {"clear", "put"} => my'[s].last \in Senders
  PROVE  OwnInv' /\ KeptInv'
<1>1. ContactsOwn'
  <2>1. \A k \in DOMAIN contacts : contacts[k].cust \in {k, Buyer} /\ pc[k] \in Placed
    BY DEF OwnInv, ContactsOwn
  <2> QED
    BY <2>1 DEF ContactsOwn
<1>2. SendersOwn'
  BY DEF OwnInv, SendersOwn, Placed
<1>3. ReadsOwn'
  <2>1. \A o \in Senders : pc[o] \in Placed => pc'[o] \in Placed
    OBVIOUS
  <2>2. ASSUME NEW o \in Senders
        PROVE  /\ my'[o].cust \in Senders => pc'[my'[o].cust] \in Placed
               /\ pc'[o] \in {"message", "created", "latest", "clear", "put"} => my'[o].cust # None
               /\ pc'[o] \in {"clear", "put"} => my'[o].last \in Senders
    <3>1. /\ my[o].cust \in Senders => pc[my[o].cust] \in Placed
          /\ pc[o] \in {"message", "created", "latest", "clear", "put"} => my[o].cust # None
          /\ pc[o] \in {"clear", "put"} => my[o].last \in Senders
      BY DEF OwnInv, ReadsOwn
    <3>2. CASE o = s
      BY <2>1, <3>1, <3>2
    <3>3. CASE o # s
      BY <2>1, <3>1, <3>3
    <3> QED
      BY <3>2, <3>3
  <2> QED
    BY <2>2 DEF ReadsOwn
<1>4. MessagesOwn'
  BY DEF OwnInv, MessagesOwn
<1>5. KeptInv'
  BY DEF KeptInv
<1> QED
  BY <1>1, <1>2, <1>3, <1>4, <1>5 DEF OwnInv

LEMMA GetContactKeeps ==
  ASSUME Mail!ConstantsTyped, MailInv, NEW s \in Senders, Mail!GetContact(s) PROVE MailInv'
<1> DEFINE k == Mail!Known(addressOf[s])
<1>0. Mail!TypeOK /\ OwnInv /\ KeptInv /\ ThreadInv
  BY DEF MailInv
<1>1. /\ UNCHANGED <<addressOf, customers, contacts, messages, threads, archived, leaving,
                     forgotten, stale,
                     day, dialect>>
      /\ Mail!Go(s, "idle", IF k = {} THEN "customer" ELSE "message")
  BY DEF Mail!GetContact, Mail!Later
<1>2. /\ pc[s] = "idle" /\ pc'[s] = (IF k = {} THEN "customer" ELSE "message")
      /\ pc' \in [Senders -> Mail!Steps]
      /\ \A o \in Senders : o # s => pc'[o] = pc[o]
  BY <1>0, <1>1, GoKeeps DEF Mail!Steps
<1> DEFINE Read ==
      /\ my' \in [Senders -> Mail!Reads] /\ \A o \in Senders : o # s => my'[o] = my[o]
      /\ my'[s].cust \in Senders => my'[s].cust = my[s].cust \/ pc[my'[s].cust] \in Placed
      /\ k # {} => my'[s].cust # None
<1>3. Read
  <2>1. ASSUME k = {}, UNCHANGED my PROVE Read
    BY <1>0, <2>1 DEF Mail!TypeOK
  <2>2. ASSUME NEW c \in k,
               my' = [my EXCEPT ![s].contact = c, ![s].cust = contacts[c].cust]
        PROVE  Read
    <3>1. /\ c \in DOMAIN contacts /\ c \in Senders /\ contacts[c].cust \in Mail!Customers
          /\ my \in [Senders -> Mail!Reads]
      BY <1>0, <2>2 DEF Mail!Known, Mail!TypeOK
    <3>2. /\ my' \in [Senders -> Mail!Reads] /\ my'[s].cust = contacts[c].cust
          /\ \A o \in Senders : o # s => my'[o] = my[o]
      <4> DEFINE d == contacts[c].cust
      <4>1. c \in Senders /\ d \in Mail!Customers /\ my \in [Senders -> Mail!Reads]
        BY <3>1
      <4>2. my' = WithContact(s, c, d)
        BY <2>2 DEF WithContact
      <4> HIDE DEF d
      <4>3. /\ my' \in [Senders -> Mail!Reads] /\ my'[s].cust = d
            /\ \A o \in Senders : o # s => my'[o] = my[o]
        BY <4>1, <4>2, ReadsContact
      <4> QED
        BY <4>3 DEF d
    <3>3. contacts[c].cust \in {c, Buyer} /\ pc[c] \in Placed
      BY <1>0, <3>1 DEF OwnInv, ContactsOwn
    <3> QED
      BY <3>1, <3>2, <3>3 DEF Mail!ConstantsTyped, Mail!Customers
  <2>3. \/ \E c \in k : my' = [my EXCEPT ![s].contact = c, ![s].cust = contacts[c].cust]
        \/ k = {} /\ UNCHANGED my
    BY DEF Mail!GetContact
  <2> QED
    BY <2>1, <2>2, <2>3
<1>4. Mail!TypeOK'
  BY <1>0, <1>1, <1>2, <1>3 DEF Mail!TypeOK
<1>5. OwnInv' /\ KeptInv'
  BY <1>0, <1>1, <1>2, <1>3, MovesOn DEF Mail!TypeOK, Placed, Stored
<1>6. ThreadInv'
  <2>1. ASSUME NEW c \in customers \ stale PROVE ThreadOf(c)'
    <3>1. ThreadOf(c)
      BY <1>0 DEF ThreadInv
    <3>2. Mail!Of(c)' = Mail!Of(c) /\ Mail!Rows(c)' = Mail!Rows(c)
      BY <1>1 DEF Mail!Of, Mail!Rows
    <3>3. /\ Mail!Rebuilding(c)' = Mail!Rebuilding(c)
          /\ \A o \in Mail!Rebuilding(c) : pc'[o] = pc[o] /\ my'[o] = my[o]
      BY <1>2, <1>3, SameRebuilds DEF Rebuilds
    <3> QED
      BY <1>1, <3>1, <3>2, <3>3, SameThread
  <2> QED
    BY <1>1, <2>1 DEF ThreadInv
<1> QED
  BY <1>4, <1>5, <1>6 DEF MailInv

LEMMA CreateCustomerKeeps ==
  ASSUME Mail!ConstantsTyped, MailInv, NEW s \in Senders, Mail!CreateCustomer(s) PROVE MailInv'
<1>0. Mail!TypeOK /\ OwnInv /\ KeptInv /\ ThreadInv
  BY DEF MailInv
<1>1. /\ UNCHANGED <<addressOf, contacts, messages, threads, my, archived, leaving,
                     forgotten, stale, day,
                     dialect>>
      /\ customers' = customers \cup {s} /\ Mail!Go(s, "customer", "contact")
  BY DEF Mail!CreateCustomer, Mail!Later
<1>2. /\ pc[s] = "customer" /\ pc'[s] = "contact" /\ pc' \in [Senders -> Mail!Steps]
      /\ \A o \in Senders : o # s => pc'[o] = pc[o]
  BY <1>0, <1>1, GoKeeps DEF Mail!Steps
<1>3. s \notin customers /\ s # Buyer
  BY <1>0, <1>2 DEF OwnInv, SendersOwn, Mail!TypeOK, Mail!ConstantsTyped
<1>4. Mail!TypeOK'
  <2>1. \A k \in DOMAIN contacts : contacts[k] \in [address: Addresses, cust: customers']
    BY <1>0, <1>1 DEF Mail!TypeOK
  <2> QED
    BY <1>0, <1>1, <1>2, <2>1 DEF Mail!TypeOK, Mail!Customers
<1>5. OwnInv'
  <2>1. ContactsOwn' /\ MessagesOwn'
    BY <1>0, <1>1, <1>2 DEF OwnInv, ContactsOwn, MessagesOwn, Placed, Stored, Mail!TypeOK
  <2>2. SendersOwn'
    BY <1>0, <1>1, <1>2, <1>3 DEF OwnInv, SendersOwn
  <2>3. ReadsOwn'
    BY <1>0, <1>1, <1>2 DEF OwnInv, ReadsOwn, Placed
  <2> QED
    BY <2>1, <2>2, <2>3 DEF OwnInv
<1>6. KeptInv'
  BY <1>0, <1>1, <1>2 DEF KeptInv, Stored
<1>7. ThreadInv'
  <2>1. ASSUME NEW c \in customers \ stale PROVE ThreadOf(c)'
    <3>1. ThreadOf(c)
      BY <1>0, <2>1 DEF ThreadInv
    <3>2. Mail!Of(c)' = Mail!Of(c) /\ Mail!Rows(c)' = Mail!Rows(c)
      BY <1>1 DEF Mail!Of, Mail!Rows
    <3>3. /\ Mail!Rebuilding(c)' = Mail!Rebuilding(c)
          /\ \A o \in Mail!Rebuilding(c) : pc'[o] = pc[o] /\ my'[o] = my[o]
      BY <1>1, <1>2, SameRebuilds DEF Rebuilds
    <3> QED
      BY <1>1, <3>1, <3>2, <3>3, SameThread
  <2>2. ThreadOf(s)'
    <3>1. Mail!Of(s)' = {}
      BY <1>0, <1>1, <1>3 DEF Mail!Of, Mail!TypeOK
    <3>2. Mail!Rebuilding(s)' = {}
      BY <1>0, <1>1, <1>2 DEF OwnInv, ReadsOwn, Mail!Rebuilding, Placed
    <3> QED
      BY <3>1, <3>2 DEF ThreadOf
  <2> QED
    BY <1>1, <2>1, <2>2 DEF ThreadInv
<1> QED
  BY <1>4, <1>5, <1>6, <1>7 DEF MailInv

LEMMA CreateContactKeeps ==
  ASSUME Mail!ConstantsTyped, MailInv, NEW s \in Senders, Mail!CreateContact(s) PROVE MailInv'
<1> DEFINE new == [address |-> addressOf[s], cust |-> s]
<1>0. Mail!TypeOK /\ OwnInv /\ KeptInv /\ ThreadInv
  BY DEF MailInv
<1>1. /\ UNCHANGED <<addressOf, customers, messages, threads, archived, leaving, forgotten,
                     stale, day,
                     dialect>>
      /\ \/ /\ contacts' = Mail!Put(contacts, s, new) /\ my' = WithContact(s, s, s)
            /\ Mail!Go(s, "contact", "message") /\ s \in customers
         \/ UNCHANGED <<contacts, my>> /\ Mail!Go(s, "contact", "failed")
  BY DEF Mail!CreateContact, Mail!Later, WithContact
<1>2. /\ pc[s] = "contact" /\ pc'[s] \in {"message", "failed"}
      /\ pc' \in [Senders -> Mail!Steps]
      /\ \A o \in Senders : o # s => pc'[o] = pc[o]
  BY <1>0, <1>1, GoKeeps DEF Mail!Steps
<1>3. s \notin DOMAIN contacts
  BY <1>0, <1>2 DEF OwnInv, ContactsOwn, Placed
<1>4. /\ my' \in [Senders -> Mail!Reads] /\ \A o \in Senders : o # s => my'[o] = my[o]
      /\ my'[s].cust = my[s].cust \/ my'[s].cust = s
      /\ pc'[s] = "message" => my'[s].cust = s
  <2>1. CASE UNCHANGED my /\ pc'[s] = "failed"
    BY <1>0, <2>1 DEF Mail!TypeOK
  <2>2. CASE my' = WithContact(s, s, s)
    <3>1. s \in Mail!Customers /\ my \in [Senders -> Mail!Reads]
      BY <1>0 DEF Mail!TypeOK, Mail!Customers
    <3> QED
      BY <2>2, <3>1, ReadsContact
  <2>3. (UNCHANGED my /\ pc'[s] = "failed") \/ my' = WithContact(s, s, s)
    BY <1>0, <1>1, GoKeeps DEF Mail!Steps
  <2> QED
    BY <2>1, <2>2, <2>3
<1>5. /\ DOMAIN contacts \subseteq DOMAIN contacts'
      /\ DOMAIN contacts' \subseteq DOMAIN contacts \cup {s}
      /\ \A k \in DOMAIN contacts : contacts'[k] = contacts[k]
      /\ s \in DOMAIN contacts' => contacts'[s] = new /\ s \in customers
  BY <1>1, <1>3 DEF Mail!Put
<1>6. Mail!TypeOK'
  <2>1. s \in customers => new \in [address: Addresses, cust: customers]
    BY <1>0 DEF Mail!TypeOK
  <2> HIDE DEF new
  <2>2. /\ DOMAIN contacts' \subseteq Senders
        /\ \A k \in DOMAIN contacts' : contacts'[k] \in [address: Addresses, cust: customers]
    BY <1>0, <1>5, <2>1 DEF Mail!TypeOK
  <2>3. \A m \in DOMAIN messages :
          messages[m] \in [contact: DOMAIN contacts', day: 0..MaxDay, read: BOOLEAN]
    BY <1>0, <1>5 DEF Mail!TypeOK
  <2> QED
    BY <1>0, <1>1, <1>2, <1>4, <2>2, <2>3 DEF Mail!TypeOK
<1>7. OwnInv'
  <2>1. ContactsOwn'
    <3>1. ASSUME NEW k \in DOMAIN contacts'
          PROVE  contacts'[k].cust \in {k, Buyer} /\ pc'[k] \in Placed
      <4>1. CASE k = s
        BY <1>2, <1>5, <4>1 DEF Placed
      <4>2. CASE k # s
        BY <1>0, <1>2, <1>5, <4>2 DEF OwnInv, ContactsOwn, Mail!TypeOK
      <4> QED
        BY <4>1, <4>2
    <3> QED
      BY <3>1 DEF ContactsOwn
  <2>2. MessagesOwn'
    BY <1>0, <1>1, <1>2 DEF OwnInv, MessagesOwn, Stored
  <2>3. SendersOwn'
    BY <1>0, <1>1, <1>2, <1>3 DEF OwnInv, SendersOwn, Placed
  <2>4. ReadsOwn'
    <3>1. \A o \in Senders : pc[o] \in Placed => pc'[o] \in Placed
      BY <1>2 DEF Placed
    <3>2. pc'[s] \in Placed
      BY <1>2 DEF Placed
    <3> QED
      BY <1>0, <1>2, <1>4, <3>1, <3>2 DEF OwnInv, ReadsOwn, Mail!ConstantsTyped
  <2> QED
    BY <2>1, <2>2, <2>3, <2>4 DEF OwnInv
<1>8. KeptInv'
  BY <1>0, <1>1, <1>2 DEF KeptInv, Stored
<1>9. ThreadInv'
  <2>1. ASSUME NEW c \in customers \ stale PROVE ThreadOf(c)'
    <3>1. ThreadOf(c)
      BY <1>0, <2>1 DEF ThreadInv
    <3>2. Mail!Of(c)' = Mail!Of(c) /\ Mail!Rows(c)' = Mail!Rows(c)
      <4>1. \A m \in DOMAIN messages :
              contacts'[messages[m].contact] = contacts[messages[m].contact]
        BY <1>0, <1>5 DEF Mail!TypeOK
      <4> QED
        BY <1>1, <4>1 DEF Mail!Of, Mail!Rows
    <3>3. /\ Mail!Rebuilding(c)' = Mail!Rebuilding(c)
          /\ \A o \in Mail!Rebuilding(c) : pc'[o] = pc[o] /\ my'[o] = my[o]
      BY <1>2, <1>4, SameRebuilds DEF Rebuilds
    <3> QED
      BY <1>1, <3>1, <3>2, <3>3, SameThread
  <2> QED
    BY <1>1, <2>1 DEF ThreadInv
<1> QED
  BY <1>6, <1>7, <1>8, <1>9 DEF MailInv

LEMMA InsertMessageKeeps ==
  ASSUME Mail!ConstantsTyped, MailInv, NEW s \in Senders, Mail!InsertMessage(s) PROVE MailInv'
<1> DEFINE k == my[s].contact
           c == my[s].cust
           d == contacts[k].cust
           new == [contact |-> k, day |-> day, read |-> FALSE]
           alone == Mail!Rebuilding(c) = {} /\ d = c
<1>0. Mail!TypeOK /\ OwnInv /\ KeptInv /\ ThreadInv
  BY DEF MailInv
<1>1. UNCHANGED <<addressOf, customers, contacts, threads, my, archived, leaving, forgotten,
                  day, dialect>>
  BY DEF Mail!InsertMessage, Mail!Later
<1>2. CASE k \notin DOMAIN contacts
  <2>1. UNCHANGED <<messages, stale>> /\ Mail!Go(s, "message", "failed")
    BY <1>2 DEF Mail!InsertMessage
  <2>2. /\ pc[s] = "message" /\ pc'[s] = "failed" /\ pc' \in [Senders -> Mail!Steps]
        /\ \A o \in Senders : o # s => pc'[o] = pc[o]
    BY <1>0, <2>1, GoKeeps DEF Mail!Steps
  <2>3. Mail!TypeOK'
    BY <1>0, <1>1, <2>1, <2>2 DEF Mail!TypeOK
  <2>4. OwnInv' /\ KeptInv'
    BY <1>0, <1>1, <2>1, <2>2, MovesOn DEF Mail!TypeOK, Placed, Stored
  <2>5. ASSUME NEW e \in customers \ stale PROVE ThreadOf(e)'
    <3>1. ThreadOf(e)
      BY <1>0, <2>5 DEF ThreadInv
    <3>2. Mail!Of(e)' = Mail!Of(e) /\ Mail!Rows(e)' = Mail!Rows(e)
      BY <1>1, <2>1 DEF Mail!Of, Mail!Rows
    <3>3. /\ Mail!Rebuilding(e)' = Mail!Rebuilding(e)
          /\ \A o \in Mail!Rebuilding(e) : pc'[o] = pc[o] /\ my'[o] = my[o]
      BY <1>1, <2>2, SameRebuilds DEF Rebuilds
    <3> QED
      BY <2>1, <3>1, <3>2, <3>3, SameThread
  <2> QED
    BY <1>1, <2>1, <2>3, <2>4, <2>5 DEF MailInv, ThreadInv
<1>3. CASE k \in DOMAIN contacts
  <2>1. /\ messages' = Mail!Put(messages, s, new) /\ Mail!Go(s, "message", "created")
        /\ stale' = IF alone THEN stale \ {c} ELSE stale \cup {c, d}
    BY <1>3 DEF Mail!InsertMessage
  <2>2. /\ pc[s] = "message" /\ pc'[s] = "created" /\ pc' \in [Senders -> Mail!Steps]
        /\ \A o \in Senders : o # s => pc'[o] = pc[o]
    BY <1>0, <2>1, GoKeeps DEF Mail!Steps
  <2>3. s \notin DOMAIN messages
    BY <1>0, <2>2 DEF OwnInv, MessagesOwn, Stored
  <2>4. new \in [contact: DOMAIN contacts, day: 0..MaxDay, read: BOOLEAN] /\ new.contact = k
    BY <1>0, <1>3 DEF Mail!TypeOK
  <2>5. d \in customers /\ d \in Mail!Customers /\ c \in Mail!Customers
    BY <1>0, <1>3, <2>2 DEF Mail!TypeOK, Mail!Reads, OwnInv, ReadsOwn
  <2> HIDE DEF new
  <2>6. /\ DOMAIN messages' = DOMAIN messages \cup {s} /\ messages'[s] = new
        /\ \A m \in DOMAIN messages : messages'[m] = messages[m]
    BY <2>1, <2>3 DEF Mail!Put
  <2>7. Mail!TypeOK'
    <3>1. \A m \in DOMAIN messages' :
            messages'[m] \in [contact: DOMAIN contacts, day: 0..MaxDay, read: BOOLEAN]
      BY <1>0, <2>4, <2>6 DEF Mail!TypeOK
    <3>2. stale' \subseteq Mail!Customers
      BY <1>0, <2>1, <2>5 DEF Mail!TypeOK
    <3> QED
      BY <1>0, <1>1, <2>2, <3>1, <3>2 DEF Mail!TypeOK
  <2>8. OwnInv'
    <3>1. ContactsOwn' /\ SendersOwn'
      BY <1>0, <1>1, <2>2 DEF OwnInv, ContactsOwn, SendersOwn, Placed, Mail!TypeOK
    <3>2. ReadsOwn'
      BY <1>0, <1>1, <2>2 DEF OwnInv, ReadsOwn, Placed
    <3>3. MessagesOwn'
      BY <1>0, <2>2, <2>6 DEF OwnInv, MessagesOwn, Stored
    <3> QED
      BY <3>1, <3>2, <3>3 DEF OwnInv
  <2>9. KeptInv'
    BY <1>0, <1>1, <2>2, <2>6 DEF KeptInv, Stored
  <2>10. ASSUME NEW e \in customers \ stale, e # c, e # d PROVE ThreadOf(e)'
    <3>1. ThreadOf(e)
      BY <1>0, <2>10 DEF ThreadInv
    <3>2. Mail!Of(e)' = Mail!Of(e) /\ Mail!Rows(e)' = Mail!Rows(e)
      BY <1>1, <2>4, <2>6, <2>10 DEF Mail!Of, Mail!Rows
    <3>3. /\ Mail!Rebuilding(e)' = Mail!Rebuilding(e)
          /\ \A o \in Mail!Rebuilding(e) : pc'[o] = pc[o] /\ my'[o] = my[o]
      BY <1>1, <2>2, <2>10 DEF Mail!Rebuilding
    <3>4. \A m \in Mail!Of(e) : messages'[m] = messages[m]
      BY <2>6 DEF Mail!Of
    <3> QED
      BY <3>1, <3>2, <3>3, <3>4, SameThread
  <2>11. ASSUME NEW e, alone, e = c PROVE ThreadOf(e)'
    <3>1. Mail!Rebuilding(e)' = {s}
      BY <1>1, <2>2, <2>11 DEF Mail!Rebuilding
    <3> QED
      BY <2>2, <3>1 DEF ThreadOf
  <2>12. ASSUME NEW e \in customers' \ stale' PROVE ThreadOf(e)'
    <3>1. CASE alone
      <4>1. e = c \/ (e \in customers \ stale /\ e # c /\ e # d)
        BY <1>1, <2>1, <2>12, <3>1
      <4> QED
        BY <2>10, <2>11, <3>1, <4>1
    <3>2. CASE ~alone
      BY <1>1, <2>1, <2>10, <2>12, <3>2
    <3> QED
      BY <3>1, <3>2
  <2> QED
    BY <2>7, <2>8, <2>9, <2>12 DEF MailInv, ThreadInv
<1> QED
  BY <1>2, <1>3

LEMMA ReadCreatedKeeps ==
  ASSUME MailInv, NEW s \in Senders, Mail!ReadCreated(s) PROVE MailInv'
<1>0. Mail!TypeOK /\ OwnInv /\ KeptInv /\ ThreadInv
  BY DEF MailInv
<1>1. /\ UNCHANGED <<addressOf, customers, contacts, messages, threads, my, archived, leaving,
                     forgotten, day, dialect>>
      /\ Mail!Go(s, "created", IF s \in DOMAIN messages THEN "latest" ELSE "failed")
      /\ stale' = IF s \in DOMAIN messages THEN stale ELSE stale \cup {my[s].cust}
  BY DEF Mail!ReadCreated, Mail!Later
<1>2. /\ pc[s] = "created" /\ pc' \in [Senders -> Mail!Steps]
      /\ pc'[s] = (IF s \in DOMAIN messages THEN "latest" ELSE "failed")
      /\ \A o \in Senders : o # s => pc'[o] = pc[o]
  BY <1>0, <1>1, GoKeeps DEF Mail!Steps
<1>3. my[s].cust \in Mail!Customers
  BY <1>0, <1>2 DEF Mail!TypeOK, OwnInv, ReadsOwn, Mail!Reads
<1>4. Mail!TypeOK'
  BY <1>0, <1>1, <1>2, <1>3 DEF Mail!TypeOK
<1>5. OwnInv' /\ KeptInv'
  <2>1. my[s].cust # None
    BY <1>0, <1>2 DEF OwnInv, ReadsOwn
  <2> QED
    BY <1>0, <1>1, <1>2, <2>1, MovesOn DEF Mail!TypeOK, Placed, Stored
<1>6. ASSUME NEW e \in customers \ stale' PROVE ThreadOf(e)'
  <2>1. ThreadOf(e) /\ (s \in DOMAIN messages \/ e # my[s].cust)
    BY <1>0, <1>1, <1>6 DEF ThreadInv
  <2>2. /\ Mail!Of(e)' = Mail!Of(e) /\ Mail!Rows(e)' = Mail!Rows(e)
        /\ Mail!Latest(e)' = Mail!Latest(e) /\ Mail!Unread(e)' = Mail!Unread(e)
    BY <1>1 DEF Mail!Of, Mail!Rows, Mail!Latest, Mail!Unread
  <2>3. Mail!Rebuilding(e)' = Mail!Rebuilding(e)
    BY <1>1, <1>2, <2>1 DEF Mail!Rebuilding
  <2>4. \A o \in Mail!Rebuilding(e) : my'[o] = my[o] /\ (pc'[o] = pc[o] \/ pc'[o] = "latest")
    BY <1>1, <1>2, <2>1 DEF Mail!Rebuilding
  <2> QED
    BY <2>1, <2>2, <2>3, <2>4 DEF ThreadOf
<1> QED
  BY <1>1, <1>4, <1>5, <1>6 DEF MailInv, ThreadInv

LEMMA ReadLatestKeeps ==
  ASSUME Mail!ConstantsTyped, MailInv, NEW s \in Senders, Mail!ReadLatest(s) PROVE MailInv'
<1> DEFINE c == my[s].cust
<1>0. Mail!TypeOK /\ OwnInv /\ KeptInv /\ ThreadInv
  BY DEF MailInv
<1>1. /\ UNCHANGED <<addressOf, customers, contacts, messages, threads, archived, leaving,
                     forgotten, stale,
                     day, dialect>>
      /\ Mail!Go(s, "latest", IF Mail!Of(c) = {} THEN "ok" ELSE "clear")
  BY DEF Mail!ReadLatest, Mail!Later
<1>2. /\ pc[s] = "latest" /\ pc'[s] = (IF Mail!Of(c) = {} THEN "ok" ELSE "clear")
      /\ pc' \in [Senders -> Mail!Steps] /\ \A o \in Senders : o # s => pc'[o] = pc[o]
  BY <1>0, <1>1, GoKeeps DEF Mail!Steps
<1>3. \A m \in Mail!Of(c) : m \in Senders
  BY <1>0 DEF Mail!Of, OwnInv, MessagesOwn
<1> DEFINE Read ==
      /\ my' \in [Senders -> Mail!Reads] /\ \A o \in Senders : o # s => my'[o] = my[o]
      /\ my'[s].cust = my[s].cust
      /\ Mail!Of(c) # {} => my'[s].last \in Mail!Latest(c) /\ my'[s].unread = Mail!Unread(c)
<1>4. Read
  <2>1. ASSUME Mail!Of(c) = {}, UNCHANGED my PROVE Read
    BY <1>0, <2>1 DEF Mail!TypeOK
  <2>2. ASSUME NEW m \in Mail!Latest(c), my' = WithThread(s, m, Mail!Unread(c)) PROVE Read
    <3>1. m \in Senders /\ my \in [Senders -> Mail!Reads]
      BY <1>0, <1>3, <2>2 DEF Mail!Latest, Mail!TypeOK
    <3>2. DOMAIN messages \subseteq Senders
      BY <1>0 DEF OwnInv, MessagesOwn
    <3>3. Mail!Unread(c) \in 0..Cardinality(Senders)
      BY <3>2, UnreadType
    <3> DEFINE n == Mail!Unread(c)
    <3>4. my' = WithThread(s, m, n) /\ n \in 0..Cardinality(Senders)
      BY <2>2, <3>3
    <3> HIDE DEF n
    <3>5. /\ my' \in [Senders -> Mail!Reads] /\ \A o \in Senders : o # s => my'[o] = my[o]
          /\ my'[s].cust = my[s].cust /\ my'[s].last = m /\ my'[s].unread = n
      BY <3>1, <3>4, ReadsThread
    <3> QED
      BY <2>2, <3>5 DEF n
  <2>3. \/ \E m \in Mail!Latest(c) : my' = WithThread(s, m, Mail!Unread(c))
        \/ Mail!Of(c) = {} /\ UNCHANGED my
    BY DEF Mail!ReadLatest, WithThread
  <2> QED
    BY <2>1, <2>2, <2>3
<1>5. Mail!TypeOK'
  BY <1>0, <1>1, <1>2, <1>4 DEF Mail!TypeOK
<1>6. OwnInv' /\ KeptInv'
  <2>1. my[s].cust # None
    BY <1>0, <1>2 DEF OwnInv, ReadsOwn
  <2>2. pc'[s] = "clear" => my'[s].last \in Senders
    BY <1>2, <1>3, <1>4 DEF Mail!Latest
  <2>3. my'[s].cust = my[s].cust /\ \A o \in Senders : o # s => my'[o] = my[o]
    BY <1>4
  <2> HIDE DEF Read, c
  <2> QED
    BY <1>0, <1>1, <1>2, <2>1, <2>2, <2>3, MovesOn DEF Mail!TypeOK, Placed, Stored
<1>7. ASSUME NEW e \in customers \ stale PROVE ThreadOf(e)'
  <2>1. ThreadOf(e)
    BY <1>0, <1>7 DEF ThreadInv
  <2>2. /\ Mail!Of(e)' = Mail!Of(e) /\ Mail!Rows(e)' = Mail!Rows(e)
        /\ Mail!Latest(e)' = Mail!Latest(e) /\ Mail!Unread(e)' = Mail!Unread(e)
    BY <1>1 DEF Mail!Of, Mail!Rows, Mail!Latest, Mail!Unread
  <2>3. CASE e # c
    <3>1. /\ Mail!Rebuilding(e)' = Mail!Rebuilding(e)
          /\ \A o \in Mail!Rebuilding(e) : pc'[o] = pc[o] /\ my'[o] = my[o]
      BY <1>2, <1>4, <2>3 DEF Mail!Rebuilding
    <3> QED
      BY <1>1, <2>1, <2>2, <3>1, SameThread
  <2>4. CASE e = c
    <3>1. Mail!Rebuilding(e) = {s}
      BY <1>2, <2>1, <2>4 DEF ThreadOf, Mail!Rebuilding
    <3>2. CASE Mail!Of(e) = {}
      <4>1. Mail!Rebuilding(e)' = {}
        BY <1>2, <1>4, <2>4, <3>1, <3>2 DEF Mail!Rebuilding
      <4> QED
        BY <2>2, <3>2, <4>1 DEF ThreadOf
    <3>3. CASE Mail!Of(e) # {}
      <4>1. Mail!Rebuilding(e)' = {s}
        BY <1>2, <1>4, <2>4, <3>1, <3>3 DEF Mail!Rebuilding
      <4>2. my'[s].last \in Mail!Latest(e) /\ my'[s].unread = Mail!Unread(e) /\ pc'[s] = "clear"
        BY <1>2, <1>4, <2>4, <3>3
      <4> QED
        BY <2>2, <4>1, <4>2 DEF ThreadOf
    <3> QED
      BY <3>2, <3>3
  <2> QED
    BY <2>3, <2>4
<1> QED
  BY <1>1, <1>5, <1>6, <1>7 DEF MailInv, ThreadInv

LEMMA ClearThreadKeeps ==
  ASSUME MailInv, NEW s \in Senders, Mail!ClearThread(s) PROVE MailInv'
<1> DEFINE c == my[s].cust
<1>0. Mail!TypeOK /\ OwnInv /\ KeptInv /\ ThreadInv
  BY DEF MailInv
<1>1. /\ UNCHANGED <<addressOf, customers, contacts, messages, my, archived, leaving,
                     forgotten, stale, day,
                     dialect>>
      /\ Mail!Go(s, "clear", "put") /\ threads' = threads \ Mail!Rows(c)
  BY DEF Mail!ClearThread, Mail!Later
<1>2. /\ pc[s] = "clear" /\ pc'[s] = "put" /\ pc' \in [Senders -> Mail!Steps]
      /\ \A o \in Senders : o # s => pc'[o] = pc[o]
  BY <1>0, <1>1, GoKeeps DEF Mail!Steps
<1>3. Mail!TypeOK'
  BY <1>0, <1>1, <1>2 DEF Mail!TypeOK
<1>4. OwnInv' /\ KeptInv'
  <2>1. my[s].cust # None /\ my[s].last \in Senders
    BY <1>0, <1>2 DEF OwnInv, ReadsOwn
  <2> QED
    BY <1>0, <1>1, <1>2, <2>1, MovesOn DEF Mail!TypeOK, Placed, Stored
<1>5. ASSUME NEW e \in customers \ stale PROVE ThreadOf(e)'
  <2>1. ThreadOf(e)
    BY <1>0, <1>5 DEF ThreadInv
  <2>2. /\ Mail!Of(e)' = Mail!Of(e)
        /\ Mail!Latest(e)' = Mail!Latest(e) /\ Mail!Unread(e)' = Mail!Unread(e)
    BY <1>1 DEF Mail!Of, Mail!Latest, Mail!Unread
  <2>3. CASE e # c
    <3>1. /\ Mail!Rebuilding(e)' = Mail!Rebuilding(e) /\ Mail!Rows(e)' = Mail!Rows(e)
          /\ \A o \in Mail!Rebuilding(e) : pc'[o] = pc[o] /\ my'[o] = my[o]
      BY <1>1, <1>2, <2>3 DEF Mail!Rebuilding, Mail!Rows
    <3> QED
      BY <1>1, <2>1, <2>2, <3>1, SameThread
  <2>4. CASE e = c
    <3>1. Mail!Rebuilding(e) = {s} /\ Mail!Rebuilding(e)' = {s}
      BY <1>1, <1>2, <2>1, <2>4 DEF ThreadOf, Mail!Rebuilding
    <3>2. Mail!Rows(e)' = {}
      BY <1>1, <2>4 DEF Mail!Rows
    <3> QED
      BY <1>1, <1>2, <2>1, <2>2, <3>1, <3>2 DEF ThreadOf
  <2> QED
    BY <2>3, <2>4
<1> QED
  BY <1>1, <1>3, <1>4, <1>5 DEF MailInv, ThreadInv

LEMMA PutThreadKeeps ==
  ASSUME MailInv, NEW s \in Senders, Mail!PutThread(s) PROVE MailInv'
<1> DEFINE c == my[s].cust
           row == [row |-> s, cust |-> c, last |-> my[s].last, unread |-> my[s].unread]
<1>0. Mail!TypeOK /\ OwnInv /\ KeptInv /\ ThreadInv
  BY DEF MailInv
<1>1. /\ UNCHANGED <<addressOf, customers, contacts, messages, my, archived, leaving,
                     forgotten, stale, day,
                     dialect>>
      /\ Mail!Go(s, "put", "ok")
      /\ threads' = IF c \in customers THEN threads \cup {row} ELSE threads
  BY DEF Mail!PutThread, Mail!Later
<1>2. /\ pc[s] = "put" /\ pc'[s] = "ok" /\ pc' \in [Senders -> Mail!Steps]
      /\ \A o \in Senders : o # s => pc'[o] = pc[o]
  BY <1>0, <1>1, GoKeeps DEF Mail!Steps
<1>3. my[s].last \in Senders /\ my[s].cust # None
  BY <1>0, <1>2 DEF OwnInv, ReadsOwn
<1>4. row.row = s /\ row.cust = c /\ row.last = my[s].last /\ row.unread = my[s].unread
  OBVIOUS
<1> HIDE DEF row
<1>5. Mail!TypeOK'
  <2>1. \A t \in threads' : t.cust \in customers /\ t.last \in Senders /\ t.row \in Senders
    BY <1>0, <1>1, <1>3, <1>4 DEF Mail!TypeOK
  <2> QED
    BY <1>0, <1>1, <1>2, <2>1 DEF Mail!TypeOK
<1>6. OwnInv' /\ KeptInv'
  BY <1>0, <1>1, <1>2, <1>3, MovesOn DEF Mail!TypeOK, Placed, Stored
<1>7. ASSUME NEW e \in customers \ stale PROVE ThreadOf(e)'
  <2>1. ThreadOf(e)
    BY <1>0, <1>7 DEF ThreadInv
  <2>2. /\ Mail!Of(e)' = Mail!Of(e)
        /\ Mail!Latest(e)' = Mail!Latest(e) /\ Mail!Unread(e)' = Mail!Unread(e)
    BY <1>1 DEF Mail!Of, Mail!Latest, Mail!Unread
  <2>3. CASE e # c
    <3>1. /\ Mail!Rebuilding(e)' = Mail!Rebuilding(e) /\ Mail!Rows(e)' = Mail!Rows(e)
          /\ \A o \in Mail!Rebuilding(e) : pc'[o] = pc[o] /\ my'[o] = my[o]
      BY <1>1, <1>2, <1>4, <2>3 DEF Mail!Rebuilding, Mail!Rows
    <3> QED
      BY <1>1, <2>1, <2>2, <3>1, SameThread
  <2>4. CASE e = c
    <3>1. Mail!Rebuilding(e) = {s} /\ Mail!Rebuilding(e)' = {}
      BY <1>1, <1>2, <2>1, <2>4 DEF ThreadOf, Mail!Rebuilding
    <3>2. Mail!Rows(e) = {} /\ my[s].last \in Mail!Latest(e) /\ my[s].unread = Mail!Unread(e)
      BY <1>2, <2>1, <3>1 DEF ThreadOf
    <3>3. Mail!Rows(e)' = {row}
      BY <1>1, <1>4, <1>7, <2>4, <3>2 DEF Mail!Rows
    <3> QED
      BY <1>4, <2>2, <3>1, <3>2, <3>3 DEF ThreadOf
  <2> QED
    BY <2>3, <2>4
<1> QED
  BY <1>1, <1>5, <1>6, <1>7 DEF MailInv, ThreadInv

LEMMA FailKeeps ==
  ASSUME MailInv, NEW s \in Senders, Mail!Fail(s) PROVE MailInv'
<1>0. Mail!TypeOK /\ OwnInv /\ KeptInv /\ ThreadInv
  BY DEF MailInv
<1>1. UNCHANGED <<addressOf, customers, contacts, messages, threads, my, archived, leaving,
                  forgotten, day,
                  dialect>>
  BY DEF Mail!Fail, Mail!Later
<1>2. /\ \/ pc[s] \in {"customer", "contact", "message"} /\ pc'[s] = "failed" /\ stale' = stale
         \/ /\ pc[s] \in Rebuilds /\ stale' = stale \cup {my[s].cust}
            /\ pc'[s] = (IF pc[s] = "created" THEN "failed" ELSE "ok")
      /\ pc' \in [Senders -> Mail!Steps] /\ \A o \in Senders : o # s => pc'[o] = pc[o]
  <2>1. \/ /\ pc[s] \in {"customer", "contact", "message"}
           /\ Mail!Go(s, pc[s], "failed") /\ stale' = stale
        \/ /\ pc[s] \in Rebuilds /\ stale' = stale \cup {my[s].cust}
           /\ Mail!Go(s, pc[s], IF pc[s] = "created" THEN "failed" ELSE "ok")
    BY DEF Mail!Fail, Rebuilds
  <2> QED
    BY <1>0, <2>1, GoKeeps DEF Mail!Steps
<1>3. Mail!TypeOK'
  <2>1. stale' \subseteq Mail!Customers
    BY <1>0, <1>2 DEF Mail!TypeOK, OwnInv, ReadsOwn, Mail!Reads, Rebuilds
  <2> QED
    BY <1>0, <1>1, <1>2, <2>1 DEF Mail!TypeOK
<1>4. OwnInv' /\ KeptInv'
  BY <1>0, <1>1, <1>2, MovesOn DEF Mail!TypeOK, Placed, Stored, Rebuilds
<1>5. ASSUME NEW e \in customers \ stale' PROVE ThreadOf(e)'
  <2>1. ThreadOf(e)
    BY <1>0, <1>2, <1>5 DEF ThreadInv
  <2>2. Mail!Of(e)' = Mail!Of(e) /\ Mail!Rows(e)' = Mail!Rows(e)
    BY <1>1 DEF Mail!Of, Mail!Rows
  <2>3. /\ Mail!Rebuilding(e)' = Mail!Rebuilding(e)
        /\ \A o \in Mail!Rebuilding(e) : pc'[o] = pc[o] /\ my'[o] = my[o]
    BY <1>1, <1>2, <1>5 DEF Mail!Rebuilding, Rebuilds
  <2> QED
    BY <1>1, <2>1, <2>2, <2>3, SameThread
<1> QED
  BY <1>1, <1>3, <1>4, <1>5 DEF MailInv, ThreadInv

\* A step of none of the requests: where they are stays, and what they have read.
LEMMA MarkMessageReadKeeps ==
  ASSUME MailInv, NEW m, Mail!MarkMessageRead(m) PROVE MailInv'
<1> DEFINE d == contacts[messages[m].contact].cust
<1>0. Mail!TypeOK /\ OwnInv /\ KeptInv /\ ThreadInv
  BY DEF MailInv
<1>1. /\ UNCHANGED <<addressOf, customers, contacts, threads, archived, leaving, forgotten,
                     pc, my, day,
                     dialect>>
      /\ m \in DOMAIN messages /\ messages' = [messages EXCEPT ![m].read = TRUE]
      /\ stale' = stale \cup {d}
  BY DEF Mail!MarkMessageRead, Mail!Later
<1>2. /\ messages[m] \in [contact: DOMAIN contacts, day: 0..MaxDay, read: BOOLEAN]
      /\ d \in Mail!Customers
  BY <1>0, <1>1 DEF Mail!TypeOK
<1> DEFINE new == [messages[m] EXCEPT !.read = TRUE]
<1>3. /\ new \in [contact: DOMAIN contacts, day: 0..MaxDay, read: BOOLEAN]
      /\ new.contact = messages[m].contact /\ new.day = messages[m].day
  BY <1>2
<1>4. messages' = [messages EXCEPT ![m] = new]
  BY <1>1
<1> HIDE DEF new
<1>5. /\ DOMAIN messages' = DOMAIN messages /\ messages'[m] = new
      /\ \A n \in DOMAIN messages : n # m => messages'[n] = messages[n]
  BY <1>1, <1>4
<1>6. Mail!TypeOK'
  <2>1. \A n \in DOMAIN messages' :
          messages'[n] \in [contact: DOMAIN contacts, day: 0..MaxDay, read: BOOLEAN]
    BY <1>0, <1>3, <1>5 DEF Mail!TypeOK
  <2> QED
    BY <1>0, <1>1, <1>2, <2>1 DEF Mail!TypeOK
<1>7. OwnInv' /\ KeptInv'
  BY <1>0, <1>1, <1>5
  DEF OwnInv, ContactsOwn, SendersOwn, ReadsOwn, MessagesOwn, KeptInv
<1>8. ASSUME NEW e \in customers \ stale' PROVE ThreadOf(e)'
  <2>1. ThreadOf(e) /\ e # d
    BY <1>0, <1>1, <1>8 DEF ThreadInv
  <2>2. \A n \in DOMAIN messages : messages'[n].contact = messages[n].contact
    BY <1>3, <1>5
  <2>3. Mail!Of(e)' = Mail!Of(e) /\ Mail!Rows(e)' = Mail!Rows(e)
    BY <1>1, <1>5, <2>2 DEF Mail!Of, Mail!Rows
  <2>4. \A n \in Mail!Of(e) : n \in DOMAIN messages /\ n # m
    BY <2>1 DEF Mail!Of
  <2>5. Mail!Rebuilding(e)' = Mail!Rebuilding(e)
    BY <1>1 DEF Mail!Rebuilding
  <2> QED
    BY <1>1, <1>5, <2>1, <2>3, <2>4, <2>5, SameThread
<1> QED
  BY <1>1, <1>6, <1>7, <1>8 DEF MailInv, ThreadInv

LEMMA LinkContactKeeps ==
  ASSUME Mail!ConstantsTyped, MailInv, NEW k, Mail!LinkContact(k) PROVE MailInv'
<1> DEFINE d == contacts[k].cust
<1>0. Mail!TypeOK /\ OwnInv /\ KeptInv /\ ThreadInv
  BY DEF MailInv
<1>1. /\ UNCHANGED <<addressOf, customers, messages, threads, archived, leaving, forgotten,
                     pc, my, day,
                     dialect>>
      /\ k \in DOMAIN contacts /\ contacts' = [contacts EXCEPT ![k].cust = Buyer]
      /\ stale' = stale \cup {d, Buyer} /\ Buyer \in customers
  BY DEF Mail!LinkContact, Mail!Later
<1>2. contacts[k] \in [address: Addresses, cust: customers] /\ d \in Mail!Customers
  BY <1>0, <1>1 DEF Mail!TypeOK
<1> DEFINE new == [contacts[k] EXCEPT !.cust = Buyer]
<1>3. new \in [address: Addresses, cust: customers] /\ new.cust = Buyer
  BY <1>1, <1>2
<1>4. contacts' = [contacts EXCEPT ![k] = new]
  BY <1>1
<1> HIDE DEF new
<1>5. /\ DOMAIN contacts' = DOMAIN contacts /\ contacts'[k] = new
      /\ \A n \in DOMAIN contacts : n # k => contacts'[n] = contacts[n]
  BY <1>1, <1>4
<1>6. Mail!TypeOK'
  <2>1. \A n \in DOMAIN contacts' : contacts'[n] \in [address: Addresses, cust: customers]
    BY <1>0, <1>3, <1>5 DEF Mail!TypeOK
  <2>2. stale' \subseteq Mail!Customers
    BY <1>0, <1>1, <1>2 DEF Mail!TypeOK
  <2> QED
    BY <1>0, <1>1, <1>5, <2>1, <2>2 DEF Mail!TypeOK
<1>7. OwnInv' /\ KeptInv'
  <2>1. ContactsOwn'
    BY <1>0, <1>1, <1>3, <1>5 DEF OwnInv, ContactsOwn
  <2> QED
    BY <1>0, <1>1, <2>1 DEF OwnInv, SendersOwn, ReadsOwn, MessagesOwn, KeptInv
<1>8. ASSUME NEW e \in customers \ stale' PROVE ThreadOf(e)'
  <2>1. ThreadOf(e) /\ e # d /\ e # Buyer
    BY <1>0, <1>1, <1>8 DEF ThreadInv
  <2>2. \A n \in DOMAIN messages : messages[n].contact \in DOMAIN contacts
    BY <1>0 DEF Mail!TypeOK
  <2>3. Mail!Of(e)' = Mail!Of(e) /\ Mail!Rows(e)' = Mail!Rows(e)
    BY <1>1, <1>3, <1>5, <2>1, <2>2 DEF Mail!Of, Mail!Rows
  <2>4. Mail!Rebuilding(e)' = Mail!Rebuilding(e)
    BY <1>1 DEF Mail!Rebuilding
  <2> QED
    BY <1>1, <2>1, <2>3, <2>4, SameThread
<1> QED
  BY <1>1, <1>6, <1>7, <1>8 DEF MailInv, ThreadInv

\* The archive, and the operator, delete customers with all that is theirs, and nothing
\* of the others.
LEMMA GoneKeeps ==
  ASSUME Mail!TypeOK, OwnInv, ThreadInv, NEW cs, Mail!Gone(cs),
         UNCHANGED <<addressOf, pc, my, stale, day, dialect>>, leaving' \subseteq customers \ cs,
         archived' \cup forgotten' \subseteq Senders
  PROVE  /\ Mail!TypeOK' /\ OwnInv' /\ ThreadInv'
         /\ \A m \in DOMAIN messages : m \in DOMAIN messages' \/ \E c \in cs : m \in Mail!Of(c)
<1> DEFINE ks == {k \in DOMAIN contacts : contacts[k].cust \in cs}
<1>1. /\ customers' = customers \ cs /\ threads' = {t \in threads : t.cust \notin cs}
      /\ DOMAIN contacts' = DOMAIN contacts \ ks
      /\ \A k \in DOMAIN contacts \ ks : contacts'[k] = contacts[k]
      /\ DOMAIN messages' = {n \in DOMAIN messages : messages[n].contact \notin ks}
      /\ \A n \in DOMAIN messages' : messages'[n] = messages[n]
  BY DEF Mail!Gone
<1>2. \A k \in DOMAIN contacts : contacts[k].cust \in cs <=> k \in ks
  OBVIOUS
<1>3. \A n \in DOMAIN messages : messages[n].contact \in DOMAIN contacts
  BY DEF Mail!TypeOK
<1> HIDE DEF ks
<1>4. Mail!TypeOK'
  <2>1. \A k \in DOMAIN contacts' : contacts'[k] \in [address: Addresses, cust: customers']
    <3>1. ASSUME NEW k \in DOMAIN contacts'
          PROVE  contacts'[k] \in [address: Addresses, cust: customers']
      <4>1. contacts[k] \in [address: Addresses, cust: customers] /\ contacts[k].cust \notin cs
        BY <1>1, <1>2, <3>1 DEF Mail!TypeOK
      <4>2. contacts[k] \in [address: Addresses, cust: customers']
        BY <1>1, <4>1
      <4> QED
        BY <1>1, <3>1, <4>2
    <3> QED
      BY <3>1
  <2>2. \A m \in DOMAIN messages' :
          messages'[m] \in [contact: DOMAIN contacts', day: 0..MaxDay, read: BOOLEAN]
    <3>1. ASSUME NEW m \in DOMAIN messages'
          PROVE  messages'[m] \in [contact: DOMAIN contacts', day: 0..MaxDay, read: BOOLEAN]
      <4>1. /\ messages[m] \in [contact: DOMAIN contacts, day: 0..MaxDay, read: BOOLEAN]
            /\ messages[m].contact \in DOMAIN contacts'
        BY <1>1, <3>1 DEF Mail!TypeOK
      <4>2. messages[m] \in [contact: DOMAIN contacts', day: 0..MaxDay, read: BOOLEAN]
        BY <4>1
      <4> QED
        BY <1>1, <3>1, <4>2
    <3> QED
      BY <3>1
  <2>3. \A t \in threads' : t.cust \in customers' /\ t.last \in Senders /\ t.row \in Senders
    BY <1>1 DEF Mail!TypeOK
  <2>4. /\ customers' \subseteq Mail!Customers /\ DOMAIN contacts' \subseteq Senders
        /\ leaving' \subseteq customers'
    BY <1>1 DEF Mail!TypeOK
  <2> QED
    BY <2>1, <2>2, <2>3, <2>4 DEF Mail!TypeOK
<1>5. OwnInv'
  <2>1. ContactsOwn' /\ MessagesOwn' /\ ReadsOwn'
    BY <1>1 DEF OwnInv, ContactsOwn, MessagesOwn, ReadsOwn
  <2>2. SendersOwn'
    BY <1>1 DEF OwnInv, SendersOwn
  <2> QED
    BY <2>1, <2>2 DEF OwnInv
<1>6. ASSUME NEW e \in customers' \ stale PROVE ThreadOf(e)'
  <2>1. ThreadOf(e) /\ e \notin cs
    BY <1>1, <1>6 DEF ThreadInv
  <2>2. \A n \in Mail!Of(e) : n \in DOMAIN messages'
    BY <1>1, <1>2, <1>3, <2>1 DEF Mail!Of
  <2>3. \A n \in DOMAIN messages' :
          n \in DOMAIN messages /\ messages'[n] = messages[n]
          /\ contacts'[messages[n].contact] = contacts[messages[n].contact]
    BY <1>1, <1>3
  <2>4. Mail!Of(e)' = Mail!Of(e)
    BY <2>2, <2>3 DEF Mail!Of
  <2>5. Mail!Rows(e)' = Mail!Rows(e) /\ Mail!Rebuilding(e)' = Mail!Rebuilding(e)
    BY <1>1, <2>1 DEF Mail!Rows, Mail!Rebuilding
  <2> QED
    BY <1>1, <2>1, <2>2, <2>4, <2>5, SameThread
<1>7. ASSUME NEW m \in DOMAIN messages, m \notin DOMAIN messages'
      PROVE  \E c \in cs : m \in Mail!Of(c)
  BY <1>1, <1>2, <1>3, <1>7 DEF Mail!Of
<1> QED
  BY <1>4, <1>5, <1>6, <1>7 DEF ThreadInv

LEMMA CopiesAre ==
  ASSUME Mail!TypeOK, OwnInv, NEW cs, Mail!Copies(cs)
  PROVE  /\ archived' \subseteq Senders /\ archived \subseteq archived'
         /\ \A c \in cs : Mail!Of(c) \subseteq archived'
<1>1. \A c : Mail!Of(c) \subseteq Senders
  BY DEF Mail!Of, OwnInv, MessagesOwn
<1> QED
  BY <1>1 DEF Mail!Copies, Mail!TypeOK

LEMMA ArchiveKeeps == ASSUME Mail!ConstantsTyped, MailInv, Mail!Archive PROVE MailInv'
<1>0. Mail!TypeOK /\ OwnInv /\ KeptInv /\ ThreadInv
  BY DEF MailInv
<1>1. /\ dialect = "sqlite" /\ Mail!Copies(Mail!Inactive) /\ Mail!Gone(Mail!Inactive)
      /\ UNCHANGED <<addressOf, leaving, forgotten, pc, my, stale, day, dialect>>
  BY DEF Mail!Archive, Mail!OneTransaction
<1>2. leaving = {}
  BY <1>0, <1>1 DEF KeptInv
<1> DEFINE cs == Mail!Inactive
<1>3. /\ archived' \subseteq Senders /\ archived \subseteq archived'
      /\ \A c \in cs : Mail!Of(c) \subseteq archived'
  BY <1>0, <1>1, CopiesAre
<1>4. /\ Mail!TypeOK' /\ OwnInv' /\ ThreadInv'
      /\ \A m \in DOMAIN messages : m \in DOMAIN messages' \/ \E c \in cs : m \in Mail!Of(c)
  <2>1. /\ leaving' \subseteq customers \ cs /\ archived' \cup forgotten' \subseteq Senders
        /\ Mail!Gone(cs)
    BY <1>0, <1>1, <1>2, <1>3 DEF Mail!TypeOK
  <2> HIDE DEF cs
  <2> QED
    BY <1>0, <1>1, <2>1, GoneKeeps
<1> HIDE DEF cs
<1>5. KeptInv'
  BY <1>0, <1>1, <1>2, <1>3, <1>4 DEF KeptInv
<1> QED
  BY <1>4, <1>5 DEF MailInv

LEMMA ArchiveCopiesKeeps ==
  ASSUME Mail!ConstantsTyped, MailInv, Mail!ArchiveCopies PROVE MailInv'
<1>0. Mail!TypeOK /\ OwnInv /\ KeptInv /\ ThreadInv
  BY DEF MailInv
<1>1. /\ dialect # "sqlite" /\ Mail!Copies(Mail!Inactive) /\ leaving' = Mail!Inactive
      /\ UNCHANGED <<addressOf, customers, contacts, messages, threads, forgotten, pc, my,
                     stale,
                     day, dialect>>
  BY DEF Mail!ArchiveCopies, Mail!OneTransaction
<1>2. leaving' \subseteq customers /\ archived' \subseteq Senders
  BY <1>0, <1>1, CopiesAre DEF Mail!Inactive
<1>3. Mail!TypeOK'
  BY <1>0, <1>1, <1>2 DEF Mail!TypeOK
<1>4. OwnInv' /\ KeptInv'
  BY <1>0, <1>1, <1>2
  DEF OwnInv, ContactsOwn, SendersOwn, ReadsOwn, MessagesOwn, KeptInv
<1>5. ThreadInv'
  BY <1>0, <1>1, SameThreads
<1> QED
  BY <1>3, <1>4, <1>5 DEF MailInv

LEMMA ArchiveDeletesKeeps == ASSUME MailInv, Mail!ArchiveDeletes PROVE MailInv'
<1>0. Mail!TypeOK /\ OwnInv /\ KeptInv /\ ThreadInv
  BY DEF MailInv
<1>1. /\ leaving # {} /\ Mail!Gone(leaving) /\ leaving' = {}
      /\ UNCHANGED <<addressOf, archived, forgotten, pc, my, stale, day, dialect>>
  BY DEF Mail!ArchiveDeletes
<1> DEFINE cs == leaving
<1>2. archived' \cup forgotten' \subseteq Senders /\ leaving' \subseteq customers \ cs
  BY <1>0, <1>1 DEF Mail!TypeOK
<1>3. Mail!TypeOK' /\ OwnInv' /\ ThreadInv'
  BY <1>0, <1>1, <1>2, GoneKeeps
<1>4. KeptInv'
  BY <1>0, <1>1 DEF KeptInv
<1> QED
  BY <1>3, <1>4 DEF MailInv

LEMMA DeleteCustomerKeeps == ASSUME MailInv, NEW c, Mail!DeleteCustomer(c) PROVE MailInv'
<1>0. Mail!TypeOK /\ OwnInv /\ KeptInv /\ ThreadInv
  BY DEF MailInv
<1> DEFINE cs == {c}
<1>1. /\ Mail!Gone(cs) /\ leaving' = leaving \ {c} /\ forgotten' = forgotten \cup Mail!Of(c)
      /\ UNCHANGED <<addressOf, archived, pc, my, stale, day, dialect>>
  BY DEF Mail!DeleteCustomer
<1>2. Mail!Of(c) \subseteq Senders
  BY <1>0 DEF Mail!Of, OwnInv, MessagesOwn
<1>3. archived' \cup forgotten' \subseteq Senders /\ leaving' \subseteq customers \ cs
  BY <1>0, <1>1, <1>2 DEF Mail!TypeOK
<1>4. /\ Mail!TypeOK' /\ OwnInv' /\ ThreadInv'
      /\ \A m \in DOMAIN messages : m \in DOMAIN messages' \/ \E d \in cs : m \in Mail!Of(d)
  <2> HIDE DEF cs
  <2> QED
    BY <1>0, <1>1, <1>3, GoneKeeps
<1>5. KeptInv'
  BY <1>0, <1>1, <1>4 DEF KeptInv
<1> QED
  BY <1>4, <1>5 DEF MailInv

LEMMA NewDayKeeps == ASSUME Mail!ConstantsTyped, MailInv, Mail!NewDay PROVE MailInv'
<1>0. Mail!TypeOK /\ OwnInv /\ KeptInv /\ ThreadInv
  BY DEF MailInv
<1>1. /\ day < MaxDay /\ day' = day + 1
      /\ UNCHANGED <<addressOf, customers, contacts, messages, threads, archived, leaving,
                     forgotten, pc, my,
                     stale, dialect>>
  BY DEF Mail!NewDay
<1>2. Mail!TypeOK'
  <2>1. day' \in 0..MaxDay
    BY <1>0, <1>1 DEF Mail!TypeOK, Mail!ConstantsTyped
  <2> QED
    BY <1>0, <1>1, <2>1 DEF Mail!TypeOK
<1>3. OwnInv' /\ KeptInv'
  BY <1>0, <1>1
  DEF OwnInv, ContactsOwn, SendersOwn, ReadsOwn, MessagesOwn, KeptInv
<1>4. ThreadInv'
  BY <1>0, <1>1, SameThreads
<1> QED
  BY <1>2, <1>3, <1>4 DEF MailInv

LEMMA MailStutters == ASSUME MailInv, UNCHANGED Mail!vars PROVE MailInv'
<1>0. Mail!TypeOK /\ OwnInv /\ KeptInv /\ ThreadInv
  BY DEF MailInv
<1>1. UNCHANGED <<addressOf, customers, contacts, messages, threads, archived, leaving,
                  forgotten, pc, my,
                  stale, day, dialect>>
  BY DEF Mail!vars
<1>2. Mail!TypeOK' /\ OwnInv' /\ KeptInv'
  BY <1>0, <1>1
  DEF Mail!TypeOK, OwnInv, ContactsOwn, SendersOwn, ReadsOwn, MessagesOwn, KeptInv
<1>3. ThreadInv'
  BY <1>0, <1>1, SameThreads
<1> QED
  BY <1>2, <1>3 DEF MailInv

LEMMA MailStep == ASSUME Mail!ConstantsTyped, MailInv, [Mail!Next]_(Mail!vars) PROVE MailInv'
  BY MailStutters, GetContactKeeps, CreateCustomerKeeps, CreateContactKeeps, InsertMessageKeeps,
     ReadCreatedKeeps, ReadLatestKeeps, ClearThreadKeeps, PutThreadKeeps, FailKeeps,
     MarkMessageReadKeeps, LinkContactKeeps, DeleteCustomerKeeps, ArchiveKeeps,
     ArchiveCopiesKeeps, ArchiveDeletesKeeps, NewDayKeeps
  DEF Mail!Next

LEMMA MailIsKept == MailInv => Mail!NoMessageLost /\ Mail!ThreadsAgree
<1>1. ASSUME MailInv PROVE Mail!NoMessageLost
  BY <1>1 DEF MailInv, KeptInv, Stored, Mail!NoMessageLost
<1>2. ASSUME MailInv PROVE Mail!ThreadsAgree
  BY <1>2 DEF MailInv, ThreadInv, ThreadOf, Mail!ThreadsAgree
<1> QED
  BY <1>1, <1>2

-----------------------------------------------------------------------------
(* Sequences: one with a member less, with one more, with one changed.     *)

LEMMA Concatenated ==
  ASSUME NEW S, NEW s \in Seq(S), NEW t \in Seq(S), NEW j \in 1..(Len(s) + Len(t))
  PROVE  (s \o t)[j] = IF j <= Len(s) THEN s[j] ELSE t[j - Len(s)]
  OBVIOUS

Cut(s, i) == SubSeq(s, 1, i - 1) \o SubSeq(s, i + 1, Len(s))

\* A list without one of its members, with a member more, or with one changed.
LEMMA CutFrom ==
  ASSUME NEW S, NEW s \in Seq(S), NEW i \in DOMAIN s
  PROVE  /\ Cut(s, i) \in Seq(S) /\ Len(Cut(s, i)) = Len(s) - 1
         /\ \A j \in 1..(Len(s) - 1) : Cut(s, i)[j] = IF j < i THEN s[j] ELSE s[j + 1]
<1> DEFINE a == SubSeq(s, 1, i - 1)
           b == SubSeq(s, i + 1, Len(s))
<1>1. Len(s) \in Nat /\ i \in 1..Len(s) /\ DOMAIN s = 1..Len(s)
  OBVIOUS
<1>2. a \in Seq(S) /\ Len(a) = i - 1 /\ \A j \in 1..(i - 1) : a[j] = s[j]
  BY <1>1
<1>3. b \in Seq(S) /\ Len(b) = Len(s) - i /\ \A j \in 1..(Len(s) - i) : b[j] = s[i + j]
  BY <1>1
<1>4. Cut(s, i) = a \o b
  BY DEF Cut
<1> HIDE DEF a, b
<1>5. Cut(s, i) \in Seq(S) /\ Len(Cut(s, i)) = Len(a) + Len(b)
  BY <1>2, <1>3, <1>4, ConcatProperties
<1>6. ASSUME NEW j \in 1..(Len(s) - 1)
      PROVE  Cut(s, i)[j] = IF j < i THEN s[j] ELSE s[j + 1]
  <2>1. CASE j < i
    BY <1>1, <1>2, <1>3, <1>4, <2>1
  <2>2. CASE ~(j < i)
    <3>1. /\ j - (i - 1) \in 1..(Len(s) - i) /\ i + (j - (i - 1)) = j + 1
          /\ j \in 1..(Len(a) + Len(b)) /\ ~(j <= Len(a)) /\ j - Len(a) = j - (i - 1)
      BY <1>1, <1>2, <1>3, <2>2, SMTT(30)
    <3>2. Cut(s, i)[j] = b[j - Len(a)]
      <4>1. (a \o b)[j] = b[j - Len(a)]
        BY <1>2, <1>3, <3>1, Concatenated
      <4> QED
        BY <1>4, <4>1
    <3> QED
      BY <1>3, <2>2, <3>1, <3>2
  <2> QED
    BY <2>1, <2>2
<1> QED
  BY <1>1, <1>2, <1>3, <1>5, <1>6

LEMMA CutKeeps ==
  ASSUME NEW S, NEW s \in Seq(S), NEW i \in DOMAIN s
  PROVE  \A j \in DOMAIN Cut(s, i) : \E k \in DOMAIN s : Cut(s, i)[j] = s[k]
<1>1. ASSUME NEW j \in DOMAIN Cut(s, i) PROVE \E k \in DOMAIN s : Cut(s, i)[j] = s[k]
  <2>1. j \in 1..(Len(s) - 1) /\ DOMAIN s = 1..Len(s) /\ Len(s) \in Nat /\ i \in 1..Len(s)
    BY CutFrom
  <2>2. Cut(s, i)[j] = IF j < i THEN s[j] ELSE s[j + 1]
    BY <2>1, CutFrom
  <2>3. j \in DOMAIN s /\ j + 1 \in DOMAIN s
    BY <2>1
  <2> QED
    BY <2>2, <2>3
<1> QED
  BY <1>1

LEMMA ChangedAt ==
  ASSUME NEW S, NEW s \in Seq(S), NEW i \in DOMAIN s, NEW x \in S
  PROVE  /\ [s EXCEPT ![i] = x] \in Seq(S) /\ Len([s EXCEPT ![i] = x]) = Len(s)
         /\ DOMAIN [s EXCEPT ![i] = x] = DOMAIN s /\ [s EXCEPT ![i] = x][i] = x
         /\ \A j \in DOMAIN s \ {i} : [s EXCEPT ![i] = x][j] = s[j]
<1> DEFINE t == [s EXCEPT ![i] = x]
<1>1. Len(s) \in Nat /\ s \in [1..Len(s) -> S] /\ DOMAIN s = 1..Len(s)
  OBVIOUS
<1>2. t \in [1..Len(s) -> S]
  BY <1>1
<1>3. t \in Seq(S) /\ Len(t) = Len(s)
  BY <1>1, <1>2
<1>4. DOMAIN t = DOMAIN s /\ t[i] = x /\ \A j \in DOMAIN s \ {i} : t[j] = s[j]
  BY <1>1
<1> QED
  BY <1>3, <1>4

LEMMA OneOf ==
  ASSUME NEW S, NEW x \in S
  PROVE  <<x>> \in Seq(S) /\ Len(<<x>>) = 1 /\ DOMAIN <<x>> = 1..1 /\ <<x>>[1] = x
  OBVIOUS

LEMMA AddedTo ==
  ASSUME NEW S, NEW s \in Seq(S), NEW x \in S
  PROVE  /\ Append(s, x) \in Seq(S) /\ Len(Append(s, x)) = Len(s) + 1
         /\ \A j \in DOMAIN Append(s, x) :
              Append(s, x)[j] = x \/ \E k \in DOMAIN s : Append(s, x)[j] = s[k]
  OBVIOUS

LEMMA JoinedTo ==
  ASSUME NEW S, NEW s \in Seq(S), NEW t \in Seq(S)
  PROVE  /\ s \o t \in Seq(S) /\ Len(s \o t) = Len(s) + Len(t)
         /\ \A j \in DOMAIN (s \o t) : \/ \E k \in DOMAIN s : (s \o t)[j] = s[k]
                                       \/ \E k \in DOMAIN t : (s \o t)[j] = t[k]
<1>1. /\ Len(s) \in Nat /\ Len(t) \in Nat /\ DOMAIN s = 1..Len(s) /\ DOMAIN t = 1..Len(t)
      /\ DOMAIN (s \o t) = 1..(Len(s) + Len(t)) /\ s \o t \in Seq(S)
      /\ Len(s \o t) = Len(s) + Len(t)
  BY ConcatProperties
<1>2. ASSUME NEW j \in 1..(Len(s) + Len(t))
      PROVE  \/ \E k \in DOMAIN s : (s \o t)[j] = s[k]
             \/ \E k \in DOMAIN t : (s \o t)[j] = t[k]
  <2>1. CASE j <= Len(s)
    <3>1. j \in DOMAIN s /\ (s \o t)[j] = s[j]
      BY <1>1, <2>1, Concatenated
    <3> QED
      BY <3>1
  <2>2. CASE ~(j <= Len(s))
    <3>1. j - Len(s) \in 1..Len(t)
      BY <1>1, <2>2
    <3>2. (s \o t)[j] = t[j - Len(s)]
      BY <1>1, <2>2, Concatenated
    <3> QED
      BY <1>1, <3>1, <3>2
  <2> QED
    BY <2>1, <2>2
<1> QED
  BY <1>1, <1>2

LEMMA MadeBySteps ==
  ASSUME NEW S, NEW n \in Nat, NEW f \in [1..n -> S]
  PROVE  f \in Seq(S) /\ Len(f) = n /\ DOMAIN f = 1..n
  OBVIOUS
-----------------------------------------------------------------------------
(* The lists of content pages and of orders.                               *)

\* What the page reads of an answer without looking; and what a form was filled with,
\* and a drawer opened on, does not change on a request's way.
ListsRequest(r) ==
  /\ r \in Lists!Requests
  /\ r.kind = "list" => r.n # 0
  /\ r.kind \in {"cart", "edit", "save", "delete", "toggle"} => r.of # None
  /\ r.kind = "toggle" /\ r.answer = "ok" => Len(r.says) = 1
  /\ r.kind = "save" => r.text = r.of
  /\ r.kind = "edit" => which = "pages"
\* An order's component leaves with its drawer, and with it what it asked for.
CartAwaited(r) == r.kind = "cart" => which = "carts" /\ drawerOpen /\ drawerItem = r.of
ListsDrawer ==
  /\ which = "carts" => drawerMode = "add"
  /\ drawerMode = "edit" /\ drawerItem # None => formData = drawerItem
  /\ Lists!CartIsTheDrawers
ListsFlight == \A r \in flight : ListsRequest(r) /\ CartAwaited(r)
ListsInv ==
  Lists!TypeOK /\ ListsDrawer /\ ListsFlight

LEMMA ListsConstants ==
  /\ Cardinality(Items) \in Nat \ {0} /\ Lists!Pages = 1..Cardinality(Items) /\ 1 \in Lists!Pages
  /\ None \notin Items /\ Untitled \notin Items /\ Lists!Pages \subseteq Nat \ {0}
<1>1. IsFiniteSet(Items) /\ Items # {} /\ None \notin Items /\ Untitled \notin Items
  BY PanelAssumption, SameSizes DEF Lists!ConstantsTyped
<1>2. Cardinality(Items) \in Nat /\ Cardinality(Items) # 0
  BY <1>1, FS_CardinalityType, FS_EmptySet
<1> HIDE DEF Lists!Pages
<1>3. Lists!Pages = 1..Cardinality(Items)
  BY SameSizes DEF Lists!Pages
<1> QED
  BY <1>1, <1>2, <1>3


LEMMA ListsRow == Lists!TypeOK => \A x \in Items : Lists!Row(x) \in Lists!Rows
  BY DEF Lists!TypeOK, Lists!Row, Lists!Rows

LEMMA ListsAsks ==
  ASSUME NEW k \in Lists!Kinds, NEW x \in Items \cup {None}
  PROVE  /\ Lists!Request(k, x) \in Lists!Requests
         /\ Lists!Request(k, x).kind = k /\ Lists!Request(k, x).of = x
         /\ Lists!Request(k, x).answer = "sent"
<1>1. <<>> \in Seq(Lists!Rows)
  OBVIOUS
<1> QED
  BY <1>1 DEF Lists!Request, Lists!Requests

LEMMA ListsAsksList ==
  ASSUME NEW n \in Lists!Pages, NEW b \in BOOLEAN
  PROVE  /\ Lists!ListRequest(n, b) \in Lists!Requests /\ ListsRequest(Lists!ListRequest(n, b))
         /\ Lists!ListRequest(n, b).kind = "list"
<1>1. n \in Nat /\ n # 0
  BY ListsConstants
<1>2. "list" \in Lists!Kinds /\ None \in Items \cup {None}
  BY DEF Lists!Kinds
<1> DEFINE r == Lists!Request("list", None)
<1>3. r \in Lists!Requests /\ r.kind = "list" /\ r.of = None
  BY <1>2, ListsAsks
<1>4. Lists!ListRequest(n, b) = [r EXCEPT !.n = n, !.closes = b]
  BY DEF Lists!ListRequest
<1> HIDE DEF r
<1>5. [r EXCEPT !.n = n, !.closes = b] \in Lists!Requests
  BY <1>1, <1>3 DEF Lists!Requests
<1>6. LET q == [r EXCEPT !.n = n, !.closes = b] IN q.kind = "list" /\ q.n = n
  BY <1>3 DEF Lists!Requests
<1> QED
  BY <1>1, <1>4, <1>5, <1>6 DEF ListsRequest

\* A page of a list is a stretch of the list.
ListsFrom(s, k, m) == [i \in 1..k |-> [id |-> s[m + i], active |-> active[s[m + i]]]]
ListsPlaced(s, n, k, m) ==
  Lists!PageOf(s, n) = ListsFrom(s, k, m) /\ \A i \in 1..k : m + i \in DOMAIN s

LEMMA ListsPlaces ==
  ASSUME NEW s \in Seq(Items), NEW n \in Nat \ {0}
  PROVE  \E k \in Nat, m \in Nat :
           ListsPlaced(s, n, k, m) /\ Lists!PageOf(s, n)' = ListsFrom(s, k, m)'
<1> DEFINE m == (n - 1) * PageSize
           L == Len(s)
           k == IF L - m < 0 THEN 0 ELSE IF L - m > PageSize THEN PageSize ELSE L - m
           S == {j \in 1..PageSize : m + j <= L}
<1>1. n - 1 \in Nat /\ PageSize \in Nat \ {0}
  BY PanelAssumption DEF Lists!ConstantsTyped
<1>2. m \in Nat
  BY <1>1
<1>3. L \in Nat /\ DOMAIN s = 1..L
  OBVIOUS
<1>4. LET c == Cardinality(S) IN
      /\ Lists!PageOf(s, n) = [i \in 1..c |-> [id |-> s[m + i], active |-> active[s[m + i]]]]
      /\ Lists!PageOf(s, n)' =
           [i \in 1..c |-> [id |-> s[m + i], active |-> active'[s[m + i]]]]
  BY SameSizes DEF Lists!PageOf, Lists!Row
<1> HIDE DEF m, L
<1>5. k \in Nat /\ S = 1..k
  <2>1. k \in Nat
    BY <1>1, <1>2, <1>3
  <2>2. \A j \in 1..PageSize : m + j <= L <=> j <= k
    BY <1>1, <1>2, <1>3
  <2>3. k <= PageSize
    BY <1>1, <1>2, <1>3
  <2> QED
    BY <1>1, <2>1, <2>2, <2>3
<1>6. \A i \in 1..k : m + i \in DOMAIN s
  BY <1>1, <1>2, <1>3
<1> HIDE DEF k, S
<1>7. Cardinality(S) = k
  BY <1>5, FS_Interval
<1>8. PICK K \in Nat, M \in Nat : K = k /\ M = m
  BY <1>2, <1>5
<1>9. ListsPlaced(s, n, K, M)
  BY <1>4, <1>6, <1>7, <1>8 DEF ListsPlaced, ListsFrom
<1>10. Lists!PageOf(s, n)' = ListsFrom(s, K, M)'
  BY <1>4, <1>7, <1>8 DEF ListsFrom
<1> QED
  BY <1>9, <1>10

LEMMA ListsPageRows ==
  ASSUME Lists!TypeOK, NEW s \in Seq(Items), NEW n \in Nat \ {0}
  PROVE  Lists!PageOf(s, n) \in Seq(Lists!Rows)
<1>1. PICK k \in Nat, m \in Nat : ListsPlaced(s, n, k, m)
  BY ListsPlaces
<1>2. ASSUME NEW i \in 1..k
      PROVE  [id |-> s[m + i], active |-> active[s[m + i]]] \in Lists!Rows
  <2>1. m + i \in DOMAIN s
    BY <1>1 DEF ListsPlaced
  <2>2. s[m + i] \in Items
    BY <2>1
  <2> QED
    BY <2>2 DEF Lists!TypeOK, Lists!Rows
<1>3. Lists!PageOf(s, n) \in [1..k -> Lists!Rows]
  BY <1>1, <1>2 DEF ListsPlaced, ListsFrom
<1> QED
  BY <1>3, MadeBySteps

\* Items are listed once, also with one of them gone, and with one of them put in.
ListedIn(s) == {s[i] : i \in DOMAIN s}

LEMMA ListsCut ==
  ASSUME NEW S, NEW s \in Seq(S), Lists!IsInjective(s), NEW i \in DOMAIN s
  PROVE  /\ Lists!RemoveAt(s, i) \in Seq(S) /\ Lists!IsInjective(Lists!RemoveAt(s, i))
         /\ ListedIn(Lists!RemoveAt(s, i)) = ListedIn(s) \ {s[i]}
<1> DEFINE d == Cut(s, i)
<1>1. Len(s) \in Nat /\ i \in 1..Len(s) /\ DOMAIN s = 1..Len(s)
  OBVIOUS
<1>2. /\ d \in Seq(S) /\ Len(d) = Len(s) - 1
      /\ \A j \in 1..(Len(s) - 1) : d[j] = IF j < i THEN s[j] ELSE s[j + 1]
  BY CutFrom
<1>3. Lists!RemoveAt(s, i) = d
  BY DEF Lists!RemoveAt, Cut
<1> HIDE DEF d
<1>4. DOMAIN d = 1..(Len(s) - 1)
  BY <1>1, <1>2
<1> DEFINE f(x) == IF x < i THEN x ELSE x + 1
<1>5. ASSUME NEW j \in 1..(Len(s) - 1)
      PROVE  d[j] = s[f(j)] /\ f(j) \in 1..Len(s) /\ f(j) # i
  BY <1>1, <1>2
<1>6. ASSUME NEW j \in 1..(Len(s) - 1), NEW k \in 1..(Len(s) - 1), d[j] = d[k]
      PROVE  j = k
  <2>1. f(j) = f(k)
    BY <1>1, <1>5, <1>6 DEF Lists!IsInjective
  <2> QED
    BY <1>1, <2>1
<1>7. ListedIn(d) = ListedIn(s) \ {s[i]}
  <2>1. ASSUME NEW x \in ListedIn(d) PROVE x \in ListedIn(s) /\ x # s[i]
    <3>1. PICK j \in 1..(Len(s) - 1) : x = d[j]
      BY <1>4, <2>1 DEF ListedIn
    <3>2. x = s[f(j)] /\ f(j) \in DOMAIN s /\ f(j) # i
      BY <1>1, <1>5, <3>1
    <3> HIDE DEF f
    <3> QED
      BY <3>2 DEF ListedIn, Lists!IsInjective
  <2>2. ASSUME NEW x \in ListedIn(s), x # s[i] PROVE x \in ListedIn(d)
    <3>1. PICK k \in 1..Len(s) : x = s[k] /\ k # i
      BY <1>1, <2>2 DEF ListedIn
    <3>2. PICK j \in 1..(Len(s) - 1) : f(j) = k
      <4>1. CASE k < i
        BY <1>1, <3>1, <4>1
      <4>2. CASE ~(k < i)
        <5>1. k - 1 \in 1..(Len(s) - 1) /\ f(k - 1) = k
          BY <1>1, <3>1, <4>2
        <5> QED
          BY <5>1
      <4> QED
        BY <4>1, <4>2
    <3>3. d[j] = x
      BY <1>5, <3>1, <3>2
    <3> QED
      BY <1>4, <3>3 DEF ListedIn
  <2> QED
    BY <2>1, <2>2
<1> QED
  BY <1>2, <1>3, <1>4, <1>6, <1>7 DEF Lists!IsInjective

LEMMA ListsInto ==
  ASSUME NEW S, NEW s \in Seq(S), Lists!IsInjective(s), NEW i \in 1..(Len(s) + 1), NEW x \in S,
         x \notin ListedIn(s)
  PROVE  /\ Lists!InsertAt(s, i, x) \in Seq(S) /\ Lists!IsInjective(Lists!InsertAt(s, i, x))
         /\ ListedIn(Lists!InsertAt(s, i, x)) = ListedIn(s) \cup {x}
<1> DEFINE a == SubSeq(s, 1, i - 1)
           b == SubSeq(s, i, Len(s))
           d == (a \o <<x>>) \o b
<1>1. Len(s) \in Nat /\ i \in Nat /\ 1 <= i /\ i <= Len(s) + 1 /\ DOMAIN s = 1..Len(s)
  OBVIOUS
<1>2. a \in Seq(S) /\ Len(a) = i - 1 /\ \A j \in 1..(i - 1) : a[j] = s[j]
  BY <1>1
<1>3. /\ b \in Seq(S) /\ Len(b) = Len(s) - i + 1
      /\ \A j \in 1..(Len(s) - i + 1) : b[j] = s[i + j - 1]
  BY <1>1
<1>4. <<x>> \in Seq(S) /\ Len(<<x>>) = 1 /\ <<x>>[1] = x
  BY OneOf
<1>5. Lists!InsertAt(s, i, x) = d
  BY DEF Lists!InsertAt
<1> HIDE DEF a, b
<1> DEFINE c == a \o <<x>>
<1>6. c \in Seq(S) /\ Len(c) = i
  BY <1>1, <1>2, <1>4, JoinedTo
<1>7. ASSUME NEW j \in 1..i PROVE c[j] = IF j < i THEN s[j] ELSE x
  <2>1. c[j] = IF j <= Len(a) THEN a[j] ELSE <<x>>[j - Len(a)]
    BY <1>1, <1>2, <1>4, Concatenated
  <2> QED
    BY <1>1, <1>2, <1>4, <2>1
<1> HIDE DEF c
<1>8. d = c \o b
  BY DEF c
<1> HIDE DEF d
<1>9. d \in Seq(S) /\ Len(d) = Len(s) + 1
  BY <1>1, <1>3, <1>6, <1>8, JoinedTo
<1>10. ASSUME NEW j \in 1..(Len(s) + 1)
       PROVE  d[j] = IF j < i THEN s[j] ELSE IF j = i THEN x ELSE s[j - 1]
  <2>1. d[j] = IF j <= Len(c) THEN c[j] ELSE b[j - Len(c)]
    BY <1>1, <1>3, <1>6, <1>8, Concatenated
  <2>2. CASE j <= i
    BY <1>1, <1>6, <1>7, <2>1, <2>2
  <2>3. CASE ~(j <= i)
    <3>1. j - i \in 1..(Len(s) - i + 1) /\ i + (j - i) - 1 = j - 1
      BY <1>1, <2>3
    <3>2. b[j - i] = s[j - 1]
      BY <1>3, <3>1
    <3> QED
      BY <1>1, <1>6, <2>1, <2>3, <3>2
  <2> QED
    BY <2>2, <2>3
<1>11. DOMAIN d = 1..(Len(s) + 1)
  BY <1>1, <1>9
<1> DEFINE f(j) == IF j < i THEN j ELSE j - 1
<1>12. ASSUME NEW j \in 1..(Len(s) + 1), j # i
       PROVE  d[j] = s[f(j)] /\ f(j) \in DOMAIN s
  BY <1>1, <1>10, <1>12
<1>13. d[i] = x
  BY <1>1, <1>10
<1>14. ASSUME NEW j \in 1..(Len(s) + 1), NEW k \in 1..(Len(s) + 1), d[j] = d[k]
       PROVE  j = k
  <2>1. CASE j = i \/ k = i
    <3>1. \A n \in 1..(Len(s) + 1) : n # i => d[n] # x
      BY <1>12 DEF ListedIn
    <3> QED
      BY <1>13, <1>14, <2>1, <3>1
  <2>2. CASE j # i /\ k # i
    <3>1. f(j) = f(k)
      <4>1. d[j] = s[f(j)] /\ f(j) \in DOMAIN s /\ d[k] = s[f(k)] /\ f(k) \in DOMAIN s
        BY <1>12, <2>2
      <4> HIDE DEF f
      <4> QED
        BY <1>14, <4>1 DEF Lists!IsInjective
    <3> QED
      BY <1>1, <2>2, <3>1
  <2> QED
    BY <2>1, <2>2
<1>15. ListedIn(d) = ListedIn(s) \cup {x}
  <2>1. ASSUME NEW y \in ListedIn(d) PROVE y \in ListedIn(s) \cup {x}
    <3>1. PICK j \in 1..(Len(s) + 1) : y = d[j]
      BY <1>11, <2>1 DEF ListedIn
    <3>2. j # i => d[j] \in ListedIn(s)
      BY <1>12 DEF ListedIn
    <3> QED
      BY <1>13, <3>1, <3>2
  <2>2. x \in ListedIn(d)
    BY <1>1, <1>11, <1>13 DEF ListedIn
  <2>3. ASSUME NEW k \in 1..Len(s) PROVE s[k] \in ListedIn(d)
    <3>1. PICK j \in 1..(Len(s) + 1) : j # i /\ f(j) = k
      <4>1. CASE k < i
        BY <1>1, <4>1
      <4>2. CASE ~(k < i)
        <5>1. k + 1 \in 1..(Len(s) + 1) /\ k + 1 # i /\ f(k + 1) = k
          BY <1>1, <4>2
        <5> QED
          BY <5>1
      <4> QED
        BY <4>1, <4>2
    <3>2. d[j] = s[k]
      BY <1>12, <3>1
    <3> QED
      BY <1>11, <3>2 DEF ListedIn
  <2> QED
    BY <1>1, <2>1, <2>2, <2>3 DEF ListedIn
<1> QED
  BY <1>5, <1>9, <1>11, <1>14, <1>15 DEF Lists!IsInjective

LEMMA ListsInit == Lists!Init => ListsInv
<1> SUFFICES ASSUME Lists!Init PROVE ListsInv
  OBVIOUS
<1>1. catalog \in Seq(Items) /\ Lists!IsInjective(catalog)
  <2>1. PICK S \in SUBSET Items : catalog \in Lists!SetToSeqs(S)
    BY DEF Lists!Init, Lists!SetToAllKPermutations
  <2>2. IsFiniteSet(S) /\ Cardinality(S) \in Nat
    BY PanelAssumption, SameSizes, FS_Subset, FS_CardinalityType DEF Lists!ConstantsTyped
  <2>3. catalog \in [1..Cardinality(S) -> S] /\ Lists!IsInjective(catalog)
    BY <2>1, SameSizes DEF Lists!SetToSeqs, Lists!IsInjective
  <2>4. catalog \in [1..Cardinality(S) -> Items]
    BY <2>3
  <2> QED
    BY <2>2, <2>3, <2>4, MadeBySteps
<1>2. /\ Lists!ListRequest(1, FALSE) \in Lists!Requests /\ ListsRequest(Lists!ListRequest(1, FALSE))
      /\ Lists!ListRequest(1, FALSE).kind = "list"
  BY ListsConstants, ListsAsksList
<1>3. moves \in 0..ListMoves /\ page \in Lists!Pages /\ flight \subseteq Lists!Requests
  <2>1. moves \in 0..ListMoves
    BY PanelAssumption DEF Lists!Init, Lists!ConstantsTyped
  <2> QED
    BY <1>2, <2>1, ListsConstants DEF Lists!Init
<1>4. Lists!TypeOK
  <2>1. rows \in Seq(Lists!Rows)
    BY DEF Lists!Init
  <2> HIDE DEF Lists!Requests, Lists!Rows, Lists!Pages
  <2> QED
    BY <1>1, <1>3, <2>1 DEF Lists!Init, Lists!TypeOK
<1>5. ListsDrawer
  BY DEF Lists!Init, ListsDrawer, Lists!CartIsTheDrawers
<1> QED
  BY <1>2, <1>4, <1>5 DEF Lists!Init, ListsInv, ListsFlight, CartAwaited

\* A request that is made, and a drawer that closes.
LEMMA ListsActs ==
  ASSUME ListsInv, Lists!Acts
  PROVE  moves' \in 0..ListMoves /\ UNCHANGED <<which, catalog, active, order, patient, strayed>>
<1>1. moves \in Nat /\ ListMoves \in Nat /\ moves' = moves + 1 /\ moves < ListMoves
  BY PanelAssumption DEF ListsInv, Lists!TypeOK, Lists!Acts, Lists!ConstantsTyped
<1> QED
  BY <1>1 DEF Lists!Acts, Lists!server

LEMMA ListsTypes ==
  /\ which' \in {"pages", "carts"}
  /\ catalog' \in Seq(Items) /\ Lists!IsInjective(catalog') /\ active' \in [Items -> BOOLEAN]
  /\ order' \in Seq(Items) /\ Lists!IsInjective(order')
  /\ page' \in Lists!Pages /\ rows' \in Seq(Lists!Rows) /\ loading' \in BOOLEAN
  /\ drawerOpen' \in BOOLEAN /\ drawerMode' \in {"add", "edit", "seo", "view"}
  /\ drawerItem' \in Items \cup {None} /\ resetting' \in BOOLEAN
  /\ formData' \in Items \cup {Untitled} /\ cart' \in Items \cup {None}
  /\ flight' \subseteq Lists!Requests /\ moves' \in 0..ListMoves
  /\ patient' \in BOOLEAN /\ strayed' \in BOOLEAN
  <=> Lists!TypeOK'
  BY DEF Lists!TypeOK

LEMMA ListsAsked ==
  ASSUME ListsInv, NEW q, ListsRequest(q), q.kind # "cart", Lists!Ask(q),
         UNCHANGED <<which, drawerOpen, drawerItem>>
  PROVE  ListsFlight' /\ flight' \subseteq Lists!Requests
<1>1. \A r \in flight' : r \in flight \/ r = q
  BY DEF Lists!Ask
<1>2. ASSUME NEW r \in flight' PROVE ListsRequest(r)' /\ CartAwaited(r)' /\ r \in Lists!Requests
  BY <1>1 DEF ListsInv, ListsFlight, ListsRequest, CartAwaited
<1> QED
  BY <1>2 DEF ListsFlight

LEMMA ListsCloses ==
  ASSUME ListsInv, NEW f, Lists!CloseDrawer(f), UNCHANGED which,
         \A r \in f : ListsRequest(r) /\ CartAwaited(r)
  PROVE  /\ ListsFlight' /\ flight' \subseteq Lists!Requests
         /\ drawerOpen' \in BOOLEAN /\ resetting' \in BOOLEAN
         /\ UNCHANGED <<drawerMode, drawerItem>> /\ (drawerOpen' => drawerOpen)
<1>1. CASE drawerOpen
  <2>1. /\ drawerOpen' = FALSE /\ resetting' = TRUE /\ UNCHANGED <<drawerMode, drawerItem>>
        /\ flight' = {r \in f : r.kind # "cart"}
    BY <1>1 DEF Lists!CloseDrawer
  <2>2. ASSUME NEW r \in flight' PROVE ListsRequest(r)' /\ CartAwaited(r)' /\ r \in Lists!Requests
    BY <2>1 DEF ListsRequest, CartAwaited
  <2> QED
    BY <2>1, <2>2 DEF ListsFlight
<1>2. CASE ~drawerOpen
  <2>1. flight' = f /\ UNCHANGED Lists!drawer
    BY <1>2 DEF Lists!CloseDrawer
  <2>2. ASSUME NEW r \in flight' PROVE ListsRequest(r)' /\ CartAwaited(r)' /\ r \in Lists!Requests
    BY <2>1 DEF ListsRequest, CartAwaited, Lists!drawer
  <2> QED
    BY <1>2, <2>1, <2>2 DEF ListsFlight, Lists!drawer, ListsInv, Lists!TypeOK
<1> QED
  BY <1>1, <1>2 DEF ListsInv, Lists!TypeOK

\* An item of the table.
LEMMA ListsShows ==
  ASSUME ListsInv, NEW i \in DOMAIN rows, Lists!OnRow(i)
  PROVE  rows[i].id \in Items /\ rows[i].active \in BOOLEAN /\ rows[i] \in Lists!Rows /\ i \in Nat
<1>1. rows[i] \in Lists!Rows
  BY DEF ListsInv, Lists!TypeOK
<1>2. i \in Nat
  BY DEF ListsInv, Lists!TypeOK
<1> QED
  BY <1>1, <1>2 DEF Lists!OnRow, Lists!Rows

\* The kinds that are about one item and say no more.
LEMMA ListsAbout ==
  ASSUME NEW k \in {"edit", "mail", "seo", "delete"}, NEW x \in Items,
         k = "edit" => which = "pages"
  PROVE  ListsRequest(Lists!Request(k, x)) /\ Lists!Request(k, x).kind = k
<1>1. /\ Lists!Request(k, x) \in Lists!Requests /\ Lists!Request(k, x).kind = k
      /\ Lists!Request(k, x).of = x
      /\ x # None
  BY ListsConstants, ListsAsks DEF Lists!Kinds
<1> QED
  BY <1>1 DEF ListsRequest

LEMMA ListsOperator == ASSUME ListsInv, Lists!Operator PROVE ListsInv'
<1>1. ASSUME NEW q, ListsRequest(q), q.kind # "cart", Lists!Ask(q), Lists!Acts,
             UNCHANGED <<Lists!drawer, formData, cart>>, rows' \in Seq(Lists!Rows),
             page' \in Lists!Pages,
             loading' \in BOOLEAN
      PROVE  ListsInv'
  <2>1. ListsFlight' /\ flight' \subseteq Lists!Requests
    BY <1>1, ListsActs, ListsAsked DEF Lists!drawer
  <2>2. Lists!TypeOK'
    BY <1>1, <2>1, ListsActs DEF ListsInv, Lists!TypeOK, Lists!drawer
  <2>3. ListsDrawer'
    BY <1>1, ListsActs DEF ListsInv, ListsDrawer, Lists!CartIsTheDrawers, Lists!drawer
  <2> QED
    BY <2>1, <2>2, <2>3 DEF ListsInv
<1>2. rows \in Seq(Lists!Rows) /\ page \in Lists!Pages /\ loading \in BOOLEAN
  BY DEF ListsInv, Lists!TypeOK
<1>3. ASSUME NEW n \in Lists!Pages, Lists!HandlePageChange(n) PROVE ListsInv'
  <2>1. ListsRequest(Lists!ListRequest(n, FALSE)) /\ Lists!ListRequest(n, FALSE).kind = "list"
    BY ListsAsksList
  <2> QED
    BY <1>1, <1>2, <1>3, <2>1 DEF Lists!HandlePageChange
<1>4. ASSUME NEW i \in DOMAIN rows, Lists!OpenView(i) PROVE ListsInv'
  <2> DEFINE q == Lists!Request("cart", rows[i].id)
  <2>1. rows[i].id \in Items /\ rows[i].id # None
    BY <1>4, ListsShows, ListsConstants DEF Lists!OpenView
  <2>2. q \in Lists!Requests /\ q.kind = "cart" /\ q.of = rows[i].id
    <3>1. "cart" \in Lists!Kinds
      BY DEF Lists!Kinds
    <3> QED
      BY <2>1, <3>1, ListsAsks
  <2>3. /\ flight' = flight \cup {q} /\ drawerOpen' = TRUE /\ drawerItem' = rows[i].id
        /\ cart' = None /\ which = "carts" /\ ~drawerOpen
        /\ UNCHANGED <<page, rows, loading, drawerMode, resetting, formData>>
    BY <1>4 DEF Lists!OpenView, Lists!OnRow, Lists!Ask, Lists!list
  <2>4. UNCHANGED <<which, catalog, active, order, patient, strayed>> /\ moves' \in 0..ListMoves
    BY <1>4, ListsActs DEF Lists!OpenView
  <2> HIDE DEF q
  <2>5. ListsRequest(q)
    BY <2>1, <2>2 DEF ListsRequest
  <2>6. ASSUME NEW r \in flight' PROVE ListsRequest(r)' /\ CartAwaited(r)' /\ r \in Lists!Requests
    <3>1. CASE r = q
      BY <2>2, <2>3, <2>4, <2>5, <3>1 DEF ListsRequest, CartAwaited
    <3>2. CASE r \in flight
      <4>1. ListsRequest(r) /\ r.kind # "cart"
        BY <2>3, <3>2 DEF ListsInv, ListsFlight, CartAwaited
      <4> QED
        BY <2>4, <4>1 DEF ListsRequest, CartAwaited
    <3> QED
      BY <2>3, <3>1, <3>2
  <2>7. Lists!TypeOK'
    BY <2>1, <2>3, <2>4, <2>6 DEF ListsInv, Lists!TypeOK
  <2>8. ListsDrawer'
    BY <2>3, <2>4 DEF ListsInv, ListsDrawer, Lists!CartIsTheDrawers
  <2> QED
    BY <2>6, <2>7, <2>8 DEF ListsInv, ListsFlight
<1>5. ASSUME NEW i \in DOMAIN rows, Lists!SendMail(i) PROVE ListsInv'
  <2>1. /\ ListsRequest(Lists!Request("mail", rows[i].id))
        /\ Lists!Request("mail", rows[i].id).kind = "mail"
    BY <1>5, ListsShows, ListsAbout DEF Lists!SendMail
  <2> QED
    BY <1>1, <1>2, <1>5, <2>1 DEF Lists!SendMail, Lists!list
<1>6. ASSUME NEW i \in DOMAIN rows, Lists!OpenEdit(i) PROVE ListsInv'
  <2>1. /\ ListsRequest(Lists!Request("edit", rows[i].id))
        /\ Lists!Request("edit", rows[i].id).kind = "edit"
    BY <1>6, ListsShows, ListsAbout DEF Lists!OpenEdit, Lists!OnPages
  <2> QED
    BY <1>1, <1>2, <1>6, <2>1 DEF Lists!OpenEdit, Lists!list
<1>7. ASSUME UNCHANGED <<Lists!list, resetting, cart, flight>>, Lists!Acts, which = "pages",
             ~drawerOpen \/ Lists!OnPages, \A r \in flight : r.kind # "cart",
             drawerOpen' = TRUE, drawerItem' \in Items \cup {None},
             \/ drawerMode' = "add" /\ formData' = Untitled
             \/ drawerMode' = "seo" /\ formData' = formData
      PROVE  ListsInv'
  <2>1. UNCHANGED <<which, catalog, active, order, patient, strayed>> /\ moves' \in 0..ListMoves
    BY <1>7, ListsActs
  <2>2. Lists!TypeOK'
    BY <1>7, <2>1 DEF ListsInv, Lists!TypeOK, Lists!list
  <2>3. ListsDrawer'
    BY <1>7, <2>1 DEF ListsDrawer, Lists!CartIsTheDrawers
  <2>4. ListsFlight'
    BY <1>7, <2>1 DEF ListsInv, ListsFlight, ListsRequest, CartAwaited
  <2> QED
    BY <2>2, <2>3, <2>4 DEF ListsInv
<1>8. which = "pages" => \A r \in flight : r.kind # "cart"
  BY DEF ListsInv, ListsFlight, CartAwaited
<1>9. ASSUME NEW i \in DOMAIN rows, Lists!OpenSeo(i) PROVE ListsInv'
  <2>1. rows[i].id \in Items \cup {None}
    BY <1>9, ListsShows DEF Lists!OpenSeo
  <2> QED
    BY <1>7, <1>8, <1>9, <2>1 DEF Lists!OpenSeo, Lists!OnPages
<1>10. CASE Lists!OpenAdd
  BY <1>7, <1>8, <1>10 DEF Lists!OpenAdd, Lists!OnPages
<1>11. ASSUME NEW i \in DOMAIN rows, Lists!ToggleActive(i) PROVE ListsInv'
  <2> DEFINE b == Lists!Request("toggle", rows[i].id)
             q == [b EXCEPT !.n = i, !.was = rows[i].active]
  <2>1. /\ rows[i].id \in Items /\ rows[i].id # None /\ rows[i].active \in BOOLEAN
        /\ rows[i] \in Lists!Rows /\ i \in Nat
    BY <1>11, ListsShows, ListsConstants DEF Lists!ToggleActive
  <2>2. b \in Lists!Requests /\ b.kind = "toggle" /\ b.of = rows[i].id /\ b.answer = "sent"
    <3>1. "toggle" \in Lists!Kinds
      BY DEF Lists!Kinds
    <3> QED
      BY <2>1, <3>1, ListsAsks
  <2>3. /\ Lists!Ask(q) /\ Lists!Acts /\ UNCHANGED <<page, loading, Lists!drawer, formData, cart>>
        /\ rows' = [rows EXCEPT ![i].active = ~@]
    BY <1>11 DEF Lists!ToggleActive
  <2> HIDE DEF b
  <2>4. q \in Lists!Requests /\ q.kind = "toggle" /\ q.of = rows[i].id /\ q.answer = "sent"
    BY <2>1, <2>2 DEF Lists!Requests
  <2> HIDE DEF q
  <2>5. ListsRequest(q)
    BY <2>1, <2>4 DEF ListsRequest
  <2>6. rows' \in Seq(Lists!Rows)
    <3> DEFINE x == [rows[i] EXCEPT !.active = ~@]
    <3>1. x \in Lists!Rows
      BY <2>1 DEF Lists!Rows
    <3>2. rows' = [rows EXCEPT ![i] = x]
      BY <2>3
    <3> HIDE DEF x
    <3> QED
      BY <1>2, <3>1, <3>2, ChangedAt
  <2> QED
    BY <1>1, <1>2, <2>3, <2>4, <2>5, <2>6
<1>12. CASE Lists!Close
  <2>1. UNCHANGED <<which, catalog, active, order, page, rows, loading, formData, cart, moves,
                    patient, strayed>>
    BY <1>12 DEF Lists!Close, Lists!server, Lists!list
  <2>2. /\ ListsFlight' /\ flight' \subseteq Lists!Requests
        /\ drawerOpen' \in BOOLEAN /\ resetting' \in BOOLEAN
        /\ UNCHANGED <<drawerMode, drawerItem>> /\ (drawerOpen' => drawerOpen)
    BY <1>12, ListsCloses DEF Lists!Close, ListsInv, ListsFlight
  <2>3. Lists!TypeOK'
    BY <2>1, <2>2 DEF ListsInv, Lists!TypeOK
  <2>4. ListsDrawer'
    BY <2>1, <2>2 DEF ListsInv, ListsDrawer, Lists!CartIsTheDrawers
  <2> QED
    BY <2>2, <2>3, <2>4 DEF ListsInv
<1>13. CASE Lists!HandleSubmit
  <2> DEFINE update == drawerMode = "edit" /\ drawerItem # None
             k == IF update THEN "save" ELSE "create"
             x == IF update THEN drawerItem ELSE None
             b == Lists!Request(k, x)
             q == [b EXCEPT !.text = formData]
  <2>1. /\ k \in Lists!Kinds /\ x \in Items \cup {None} /\ formData \in Items \cup {Untitled}
        /\ k \in {"save", "create"} /\ (k = "save" => x # None /\ formData = x)
    BY DEF ListsInv, Lists!TypeOK, ListsDrawer, Lists!Kinds
  <2>2. Lists!Ask(q) /\ Lists!Acts /\ UNCHANGED <<Lists!list, Lists!drawer, formData, cart>>
    BY <1>13 DEF Lists!HandleSubmit
  <2> HIDE DEF k, x
  <2>3. b \in Lists!Requests /\ b.kind = k /\ b.of = x
    BY <2>1, ListsAsks
  <2> HIDE DEF b
  <2>4. q \in Lists!Requests /\ q.kind = k /\ q.of = x /\ q.text = formData
    BY <2>1, <2>3 DEF Lists!Requests
  <2> HIDE DEF q
  <2>5. ListsRequest(q) /\ q.kind # "cart"
    BY <2>1, <2>4 DEF ListsRequest
  <2> QED
    BY <1>1, <1>2, <2>2, <2>5 DEF Lists!list
<1>14. CASE Lists!SaveSeo
  <2>1. drawerItem \in Items
    BY <1>14 DEF Lists!SaveSeo, Lists!ShowsSeo, ListsInv, Lists!TypeOK
  <2>2. /\ ListsRequest(Lists!Request("seo", drawerItem))
        /\ Lists!Request("seo", drawerItem).kind = "seo"
    BY <2>1, ListsAbout
  <2> QED
    BY <1>1, <1>2, <1>14, <2>2 DEF Lists!SaveSeo, Lists!list
<1>15. CASE Lists!DeleteFromFooter
  <2>1. drawerItem \in Items
    BY <1>15 DEF Lists!DeleteFromFooter, ListsInv, Lists!TypeOK
  <2>2. /\ ListsRequest(Lists!Request("delete", drawerItem))
        /\ Lists!Request("delete", drawerItem).kind = "delete"
    BY <2>1, ListsAbout
  <2> QED
    BY <1>1, <1>2, <1>15, <2>2 DEF Lists!DeleteFromFooter, Lists!list
<1> QED
  BY <1>3, <1>4, <1>5, <1>6, <1>9, <1>10, <1>11, <1>12, <1>13, <1>14, <1>15 DEF Lists!Operator

LEMMA ListsResets == ASSUME ListsInv, Lists!Reset PROVE ListsInv'
<1>1. /\ resetting' = FALSE /\ drawerItem' = None /\ drawerMode' = "add"
      /\ flight' = {r \in flight : r.kind # "cart"}
      /\ UNCHANGED <<which, catalog, active, order, page, rows, loading, drawerOpen, formData,
                     cart, moves, patient, strayed>>
  BY DEF Lists!Reset, Lists!server, Lists!list
<1>2. ASSUME NEW r \in flight' PROVE ListsRequest(r)' /\ CartAwaited(r)' /\ r \in Lists!Requests
  BY <1>1 DEF ListsInv, ListsFlight, ListsRequest, CartAwaited
<1>3. Lists!TypeOK'
  BY <1>1, <1>2 DEF ListsInv, Lists!TypeOK
<1>4. ListsDrawer'
  BY <1>1 DEF ListsDrawer, Lists!CartIsTheDrawers
<1> QED
  BY <1>2, <1>3, <1>4 DEF ListsInv, ListsFlight

\* What the server does, and says.
LEMMA ListsEffect ==
  ASSUME ListsInv, NEW r \in flight, Lists!Finds(r), Lists!Effect(r)
  PROVE  /\ catalog' \in Seq(Items) /\ Lists!IsInjective(catalog')
         /\ active' \in [Items -> BOOLEAN]
         /\ r.kind \notin {"create", "delete"} => ListedIn(catalog') = ListedIn(catalog)
<1>1. /\ catalog \in Seq(Items) /\ Lists!IsInjective(catalog) /\ active \in [Items -> BOOLEAN]
      /\ r \in Lists!Requests /\ ListsRequest(r) /\ ListedIn(catalog) = Lists!Listed
  BY DEF ListsInv, Lists!TypeOK, ListsFlight, ListedIn, Lists!Listed
<1>2. r.kind \in {"save", "delete", "toggle"} => r.of \in Items
  BY <1>1 DEF ListsRequest, Lists!Requests
<1>without. ASSUME NEW s \in Lists!Without(r.of)
            PROVE  /\ s \in Seq(Items) /\ Lists!IsInjective(s)
                   /\ ListedIn(s) = ListedIn(catalog) \ {r.of}
  <2>1. PICK i \in DOMAIN catalog : catalog[i] = r.of /\ s = Lists!RemoveAt(catalog, i)
    BY DEF Lists!Without
  <2> QED
    BY <1>1, <2>1, ListsCut
<1>3. CASE r.kind = "create"
  <2>1. PICK x \in Lists!NewIds, i \in 1..(Len(catalog) + 1) :
          /\ catalog' = Lists!InsertAt(catalog, i, x)
          /\ active' = [active EXCEPT ![x] = FALSE]
    BY <1>3 DEF Lists!Effect
  <2>2. x \in Items /\ x \notin ListedIn(catalog)
    BY <1>1 DEF Lists!NewIds
  <2>3. catalog' \in Seq(Items) /\ Lists!IsInjective(catalog')
    BY <1>1, <2>1, <2>2, ListsInto
  <2> QED
    BY <1>1, <1>3, <2>1, <2>3
<1>4. CASE r.kind = "save"
  <2>1. PICK s \in Lists!Without(r.of) : \E i \in 1..(Len(s) + 1) :
          catalog' = Lists!InsertAt(s, i, r.of) /\ UNCHANGED active
    BY <1>4 DEF Lists!Effect
  <2>2. PICK i \in 1..(Len(s) + 1) :
          catalog' = Lists!InsertAt(s, i, r.of) /\ UNCHANGED active
    BY <2>1
  <2>3. /\ s \in Seq(Items) /\ Lists!IsInjective(s)
        /\ ListedIn(s) = ListedIn(catalog) \ {r.of}
    BY <1>without
  <2>4. r.of \in Items /\ r.of \in ListedIn(catalog)
    BY <1>1, <1>2, <1>4, ListsConstants DEF Lists!Finds
  <2>5. /\ catalog' \in Seq(Items) /\ Lists!IsInjective(catalog')
        /\ ListedIn(catalog') = ListedIn(s) \cup {r.of}
    BY <2>2, <2>3, <2>4, ListsInto
  <2> QED
    BY <1>1, <2>2, <2>3, <2>4, <2>5
<1>5. CASE r.kind = "delete"
  <2>1. catalog' \in Lists!Without(r.of) \/ catalog' = catalog
    BY <1>5 DEF Lists!Effect
  <2>2. active' = active
    BY <1>5 DEF Lists!Effect
  <2> QED
    BY <1>1, <1>5, <1>without, <2>1, <2>2
<1>6. CASE r.kind = "toggle"
  BY <1>1, <1>2, <1>6 DEF Lists!Effect
<1>7. CASE r.kind \notin {"create", "save", "delete", "toggle"}
  BY <1>1, <1>7 DEF Lists!Effect, Lists!server
<1> QED
  BY <1>3, <1>4, <1>5, <1>6, <1>7

LEMMA ListsSays ==
  ASSUME ListsInv, NEW r \in flight, Lists!Finds(r), Lists!Effect(r)
  PROVE  Lists!Says(r)' \in Seq(Lists!Rows) /\ (r.kind = "toggle" => Len(Lists!Says(r)') = 1)
<1>1. /\ r \in Lists!Requests /\ Lists!TypeOK /\ (r.kind = "list" => r.n # 0)
      /\ (r.kind \in {"toggle", "cart", "edit"} => r.of # None)
  BY DEF ListsInv, ListsFlight, ListsRequest
<1>2. CASE r.kind = "list"
  <2>1. UNCHANGED <<catalog, active>>
    BY <1>2 DEF Lists!Effect, Lists!server
  <2>2. Lists!Says(r)' = Lists!PageOf(catalog, r.n)
    BY <1>2, <2>1 DEF Lists!Says, Lists!PageOf, Lists!Row
  <2>3. r.n \in Nat \ {0} /\ catalog \in Seq(Items)
    BY <1>1, <1>2 DEF Lists!Requests, Lists!TypeOK
  <2> QED
    BY <1>1, <1>2, <2>2, <2>3, ListsPageRows
<1>3. CASE r.kind \in {"toggle", "edit", "cart"}
  <2>1. r.of \in Items
    BY <1>1, <1>3 DEF Lists!Requests
  <2>2. active' \in [Items -> BOOLEAN]
    BY ListsEffect
  <2>3. Lists!Row(r.of)' \in Lists!Rows
    BY <2>1, <2>2 DEF Lists!Row, Lists!Rows
  <2>4. Lists!Says(r)' = <<Lists!Row(r.of)'>>
    BY <1>3 DEF Lists!Says
  <2> QED
    BY <2>3, <2>4, OneOf
<1>4. CASE r.kind \notin {"list", "toggle", "edit", "cart"}
  <2>1. Lists!Says(r)' = <<>>
    BY <1>4 DEF Lists!Says
  <2> QED
    BY <1>4, <2>1
<1> QED
  BY <1>2, <1>3, <1>4

LEMMA ListsAnswer ==
  ASSUME ListsInv, NEW r \in flight, NEW a \in {"ok", "failed", "lost"}, NEW s \in Seq(Lists!Rows),
         r.kind = "toggle" /\ a = "ok" => Len(s) = 1, Lists!Answer(r, a, s),
         UNCHANGED <<which, Lists!drawer>>
  PROVE  ListsFlight' /\ flight' \subseteq Lists!Requests
<1> DEFINE q == [r EXCEPT !.answer = a, !.says = s]
<1>1. r \in Lists!Requests /\ ListsRequest(r) /\ CartAwaited(r)
  BY DEF ListsInv, ListsFlight, Lists!TypeOK
<1>2. /\ q \in Lists!Requests /\ q.kind = r.kind /\ q.of = r.of /\ q.text = r.text /\ q.n = r.n
      /\ q.answer = a /\ q.says = s
  BY <1>1 DEF Lists!Requests
<1>3. flight' = (flight \ {r}) \cup {q}
  BY DEF Lists!Answer
<1> HIDE DEF q
<1>4. ListsRequest(q) /\ CartAwaited(q)
  BY <1>1, <1>2 DEF ListsRequest, CartAwaited
<1>5. ASSUME NEW x \in flight' PROVE ListsRequest(x)' /\ CartAwaited(x)' /\ x \in Lists!Requests
  <2>1. ListsRequest(x) /\ CartAwaited(x)
    BY <1>3, <1>4 DEF ListsInv, ListsFlight
  <2> QED
    BY <2>1 DEF ListsRequest, CartAwaited, Lists!drawer
<1> QED
  BY <1>5 DEF ListsFlight

LEMMA ListsServes == ASSUME ListsInv, NEW r \in flight, Lists!Serve(r) PROVE ListsInv'
<1>1. UNCHANGED <<which, page, rows, loading, Lists!drawer, formData, cart, moves, patient,
                  strayed>>
  BY DEF Lists!Serve, Lists!list
<1>2. ListsRequest(r)
  BY DEF ListsInv, ListsFlight
<1>3. ASSUME catalog' \in Seq(Items), Lists!IsInjective(catalog'), active' \in [Items -> BOOLEAN],
             order' \in {order, catalog}, ListsFlight', flight' \subseteq Lists!Requests
      PROVE  ListsInv'
  <2>1. Lists!TypeOK'
    BY <1>1, <1>3 DEF ListsInv, Lists!TypeOK, Lists!drawer
  <2>2. ListsDrawer'
    BY <1>1 DEF ListsInv, ListsDrawer, Lists!CartIsTheDrawers, Lists!drawer
  <2> QED
    BY <1>3, <2>1, <2>2 DEF ListsInv
<1>4. <<>> \in Seq(Lists!Rows)
  OBVIOUS
<1>5. CASE /\ Lists!Finds(r) /\ Lists!Effect(r) /\ order' \in {order, catalog}
           /\ Lists!Answer(r, "ok", Lists!Says(r)')
  <2>1. catalog' \in Seq(Items) /\ Lists!IsInjective(catalog') /\ active' \in [Items -> BOOLEAN]
    BY <1>5, ListsEffect
  <2>2. Lists!Says(r)' \in Seq(Lists!Rows) /\ (r.kind = "toggle" => Len(Lists!Says(r)') = 1)
    BY <1>5, ListsSays
  <2> DEFINE s == Lists!Says(r)'
  <2>3. s \in Seq(Lists!Rows) /\ Lists!Answer(r, "ok", s) /\ (r.kind = "toggle" => Len(s) = 1)
    BY <1>5, <2>2
  <2> HIDE DEF s
  <2>4. ListsFlight' /\ flight' \subseteq Lists!Requests
    <3>1. "ok" \in {"ok", "failed", "lost"}
      OBVIOUS
    <3> QED
      BY <1>1, <2>3, <3>1, ListsAnswer
  <2> QED
    BY <1>3, <1>5, <2>1, <2>4
<1>6. CASE Lists!Answer(r, "failed", <<>>) /\ UNCHANGED <<Lists!server, order>>
  <2>1. ListsFlight' /\ flight' \subseteq Lists!Requests
    BY <1>1, <1>4, <1>6, ListsAnswer
  <2> QED
    BY <1>3, <1>6, <2>1 DEF Lists!server, ListsInv, Lists!TypeOK
<1>7. CASE /\ Lists!Finds(r) /\ Lists!Effect(r) /\ order' = order
           /\ Lists!Answer(r, "lost", <<>>)
  <2>1. catalog' \in Seq(Items) /\ Lists!IsInjective(catalog') /\ active' \in [Items -> BOOLEAN]
    BY <1>7, ListsEffect
  <2>2. ListsFlight' /\ flight' \subseteq Lists!Requests
    BY <1>1, <1>4, <1>7, ListsAnswer
  <2> QED
    BY <1>3, <1>7, <2>1, <2>2
<1> QED
  BY <1>5, <1>6, <1>7 DEF Lists!Serve

LEMMA ListsArrives == ASSUME ListsInv, NEW r \in flight, Lists!Arrive(r) PROVE ListsInv'
<1>1. r \in Lists!Requests /\ ListsRequest(r) /\ CartAwaited(r) /\ Lists!TypeOK /\ ListsDrawer
  BY DEF ListsInv, ListsFlight, ListsRequest
<1>2. \A x \in Lists!Rest(r) : ListsRequest(x) /\ CartAwaited(x)
  BY DEF ListsInv, ListsFlight, Lists!Rest
<1>3. UNCHANGED <<which, catalog, active, order, moves, patient>> /\ strayed' \in BOOLEAN
  <2>1. ASSUME NEW K, Lists!Hears(r, K)
        PROVE  UNCHANGED <<which, catalog, active, order, moves, patient>> /\ strayed' \in BOOLEAN
    BY <1>1, <2>1 DEF Lists!Hears, Lists!TypeOK, Lists!server
  <2> QED
    BY <2>1
      DEF Lists!Arrive, Lists!ListArrives, Lists!CartArrives, Lists!EditArrives,
          Lists!ChangeArrives, Lists!MessageArrives, Lists!ToggleArrives
<1>4. ASSUME flight' = Lists!Rest(r), UNCHANGED <<drawerOpen, drawerItem>>
      PROVE  ListsFlight' /\ flight' \subseteq Lists!Requests
  <2>1. ASSUME NEW x \in flight' PROVE ListsRequest(x)' /\ CartAwaited(x)' /\ x \in Lists!Requests
    BY <1>2, <1>3, <1>4 DEF ListsRequest, CartAwaited
  <2> QED
    BY <2>1 DEF ListsFlight
<1>5. CASE Lists!ListArrives(r)
  <2>1. r.says \in Seq(Lists!Rows)
    BY <1>1 DEF Lists!Requests
  <2>2. loading' = FALSE /\ rows' \in Seq(Lists!Rows) /\ UNCHANGED <<page, formData, cart>>
    BY <1>1, <1>5, <2>1 DEF Lists!ListArrives, Lists!TypeOK
  <2>3. /\ ListsFlight' /\ flight' \subseteq Lists!Requests
        /\ drawerOpen' \in BOOLEAN /\ resetting' \in BOOLEAN
        /\ UNCHANGED <<drawerMode, drawerItem>> /\ (drawerOpen' => drawerOpen)
    <3>1. CASE r.closes
      <4>1. Lists!CloseDrawer(Lists!Rest(r))
        BY <1>5, <3>1 DEF Lists!ListArrives
      <4> QED
        BY <1>2, <1>3, <4>1, ListsCloses
    <3>2. CASE ~r.closes
      <4>1. flight' = Lists!Rest(r) /\ UNCHANGED Lists!drawer
        BY <1>5, <3>2 DEF Lists!ListArrives
      <4> QED
        BY <1>1, <1>4, <4>1 DEF Lists!drawer, Lists!TypeOK
    <3> QED
      BY <3>1, <3>2
  <2>4. Lists!TypeOK'
    BY <1>1, <1>3, <2>2, <2>3 DEF Lists!TypeOK
  <2>5. ListsDrawer'
    BY <1>1, <1>3, <2>2, <2>3 DEF ListsDrawer, Lists!CartIsTheDrawers
  <2> QED
    BY <2>3, <2>4, <2>5 DEF ListsInv
<1>6. CASE Lists!CartArrives(r)
  <2>1. /\ flight' = Lists!Rest(r) /\ cart' = (IF r.answer = "ok" THEN r.of ELSE cart)
        /\ UNCHANGED <<page, rows, loading, Lists!drawer, formData>>
        /\ r.kind = "cart"
    BY <1>6 DEF Lists!CartArrives, Lists!Hears, Lists!list
  <2>2. ListsFlight' /\ flight' \subseteq Lists!Requests
    BY <1>4, <2>1 DEF Lists!drawer
  <2>3. r.of = drawerItem /\ r.of \in Items \cup {None}
    BY <1>1, <2>1 DEF CartAwaited, Lists!Requests
  <2>4. Lists!TypeOK'
    BY <1>1, <1>3, <2>1, <2>2, <2>3 DEF Lists!TypeOK, Lists!drawer
  <2>5. ListsDrawer'
    BY <1>1, <1>3, <2>1, <2>3 DEF ListsDrawer, Lists!CartIsTheDrawers, Lists!drawer
  <2> QED
    BY <2>2, <2>4, <2>5 DEF ListsInv
<1>7. CASE Lists!EditArrives(r)
  <2>1. /\ flight' = Lists!Rest(r) /\ UNCHANGED <<page, rows, loading, resetting, cart>>
        /\ r.kind = "edit"
    BY <1>7 DEF Lists!EditArrives, Lists!Hears, Lists!list
  <2>2. CASE r.answer = "ok"
    <3>1. formData' = r.of /\ drawerItem' = r.of /\ drawerMode' = "edit" /\ drawerOpen' = TRUE
      BY <1>7, <2>2 DEF Lists!EditArrives, Lists!EditedPage
    <3>2. r.of \in Items /\ which = "pages"
      BY <1>1, <2>1 DEF ListsRequest, Lists!Requests
    <3>3. ASSUME NEW x \in flight' PROVE ListsRequest(x)' /\ CartAwaited(x)' /\ x \in Lists!Requests
      BY <1>2, <1>3, <2>1, <3>2 DEF ListsRequest, CartAwaited
    <3>4. Lists!TypeOK'
      BY <1>1, <1>3, <2>1, <3>1, <3>2, <3>3 DEF Lists!TypeOK
    <3>5. ListsDrawer'
      BY <1>3, <3>1, <3>2 DEF ListsDrawer, Lists!CartIsTheDrawers
    <3> QED
      BY <3>3, <3>4, <3>5 DEF ListsInv, ListsFlight
  <2>3. CASE r.answer # "ok"
    <3>1. UNCHANGED <<formData, drawerItem, drawerMode, drawerOpen>>
      BY <1>7, <2>3 DEF Lists!EditArrives
    <3>2. ListsFlight' /\ flight' \subseteq Lists!Requests
      BY <1>4, <2>1, <3>1
    <3>3. Lists!TypeOK'
      BY <1>1, <1>3, <2>1, <3>1, <3>2 DEF Lists!TypeOK
    <3>4. ListsDrawer'
      BY <1>1, <1>3, <2>1, <3>1 DEF ListsDrawer, Lists!CartIsTheDrawers
    <3> QED
      BY <3>2, <3>3, <3>4 DEF ListsInv
  <2> QED
    BY <2>2, <2>3
<1>8. ASSUME UNCHANGED <<Lists!drawer, formData, cart>>, page' \in Lists!Pages,
             rows' \in Seq(Lists!Rows),
             loading' \in BOOLEAN, ListsFlight', flight' \subseteq Lists!Requests
      PROVE  ListsInv'
  <2>1. Lists!TypeOK'
    BY <1>1, <1>3, <1>8 DEF Lists!TypeOK, Lists!drawer
  <2>2. ListsDrawer'
    BY <1>1, <1>3, <1>8 DEF ListsDrawer, Lists!CartIsTheDrawers, Lists!drawer
  <2> QED
    BY <1>8, <2>1, <2>2 DEF ListsInv
<1>9. page \in Lists!Pages /\ rows \in Seq(Lists!Rows) /\ loading \in BOOLEAN
  BY <1>1 DEF Lists!TypeOK
<1>10. CASE Lists!ChangeArrives(r)
  <2> DEFINE q == Lists!ListRequest(page, r.kind = "create")
  <2>1. q \in Lists!Requests /\ ListsRequest(q) /\ q.kind = "list"
    <3>1. (r.kind = "create") \in BOOLEAN
      OBVIOUS
    <3> QED
      BY <1>9, <3>1, ListsAsksList
  <2>2. /\ UNCHANGED <<page, rows, Lists!drawer, formData, cart>> /\ loading' \in BOOLEAN
        /\ \A x \in flight' : x \in Lists!Rest(r) \/ x = q
    BY <1>9, <1>10 DEF Lists!ChangeArrives
  <2> HIDE DEF q
  <2>3. ASSUME NEW x \in flight' PROVE ListsRequest(x)' /\ CartAwaited(x)' /\ x \in Lists!Requests
    <3>1. ListsRequest(x) /\ CartAwaited(x)
      BY <1>2, <2>1, <2>2 DEF CartAwaited
    <3> QED
      BY <1>3, <2>2, <3>1 DEF ListsRequest, CartAwaited, Lists!drawer
  <2> QED
    BY <1>8, <1>9, <2>2, <2>3 DEF ListsFlight
<1>11. CASE Lists!MessageArrives(r)
  BY <1>4, <1>8, <1>9, <1>11 DEF Lists!MessageArrives, Lists!list, Lists!drawer
<1>12. CASE Lists!ToggleArrives(r)
  <2> DEFINE row == IF r.answer = "ok" THEN r.says[1] ELSE Lists!OldRow(r)
             none == [id |-> None, active |-> FALSE]
             n == IF r.n > Len(rows) THEN r.n ELSE Len(rows)
  <2>1. /\ r.kind = "toggle" /\ flight' = Lists!Rest(r)
        /\ UNCHANGED <<page, loading, Lists!drawer, formData, cart>>
        /\ rows' = [j \in 1..n |->
                IF j = r.n THEN row ELSE IF j \in DOMAIN rows THEN rows[j] ELSE none]
    BY <1>12 DEF Lists!ToggleArrives, Lists!Hears
  <2>2. none \in Lists!Rows
    BY DEF Lists!Rows
  <2>3. row \in Lists!Rows
    <3>1. r.answer = "ok" => r.says[1] \in Lists!Rows
      <4>1. r.says \in Seq(Lists!Rows) /\ (r.answer = "ok" => Len(r.says) = 1)
        BY <1>1, <2>1 DEF Lists!Requests, ListsRequest
      <4> QED
        BY <4>1
    <3>2. Lists!OldRow(r) \in Lists!Rows
      <4>1. r.was \in BOOLEAN
        BY <1>1 DEF Lists!Requests
      <4>2. r.n \in DOMAIN rows => rows[r.n] \in Lists!Rows
        BY <1>9
      <4>3. (IF r.n \in DOMAIN rows THEN rows[r.n].id ELSE None) \in Items \cup {None}
        BY <4>2 DEF Lists!Rows
      <4> QED
        BY <4>1, <4>3 DEF Lists!OldRow, Lists!Rows
    <3> QED
      BY <3>1, <3>2
  <2>4. n \in Nat
    <3>1. r.n \in Nat /\ Len(rows) \in Nat
      BY <1>1, <1>9 DEF Lists!Requests
    <3> QED
      BY <3>1
  <2> HIDE DEF row, none, n
  <2>5. rows' \in [1..n -> Lists!Rows]
    <3>1. \A j \in DOMAIN rows : rows[j] \in Lists!Rows
      BY <1>9
    <3> QED
      BY <2>1, <2>2, <2>3, <3>1
  <2>6. rows' \in Seq(Lists!Rows)
    BY <2>4, <2>5, MadeBySteps
  <2>7. ListsFlight' /\ flight' \subseteq Lists!Requests
    BY <1>4, <2>1 DEF Lists!drawer
  <2> QED
    BY <1>8, <1>9, <2>1, <2>6, <2>7
<1> QED
  BY <1>5, <1>6, <1>7, <1>10, <1>11, <1>12 DEF Lists!Arrive

LEMMA ListsStep == ListsInv /\ [Lists!Next]_(Lists!vars) => ListsInv'
<1>1. ASSUME ListsInv, UNCHANGED Lists!vars PROVE ListsInv'
  BY <1>1
    DEF ListsInv, Lists!vars, Lists!server, Lists!list, Lists!drawer, Lists!TypeOK, ListsDrawer,
        Lists!CartIsTheDrawers, ListsFlight, ListsRequest, CartAwaited
<1> QED
  BY <1>1, ListsOperator, ListsResets, ListsServes, ListsArrives DEF Lists!Next, Lists!Network

LEMMA ListsKeep == ListsInv => Lists!TypeOK /\ Lists!SavedToItsOwnPage /\ Lists!CartIsTheDrawers
  BY DEF ListsInv, ListsFlight, ListsRequest, ListsDrawer, Lists!SavedToItsOwnPage

-----------------------------------------------------------------------------
(* The customers.                                                          *)

\* What a request keeps on its way: whose it is, and that a list names nobody twice.
EmailsOnce(s) == \A i, j \in DOMAIN s : s[i].email = s[j].email => i = j
CustomersRequest(r) ==
  /\ r \in Customers!Requests
  /\ r.kind = "list" => EmailsOnce(r.rows)
  /\ r.kind \in Customers!Changes => r.of \in Customers!Emails
\* A password whose answer is still listened for is that of the customer in the drawer.
PasswordHeard(r) ==
  r.kind = "password" /\ r.heard =>
    drawerOpen /\ drawerCustomer \in Customers!Rows /\ r.of = drawerCustomer.email
CustomersFlight == \A r \in flight : CustomersRequest(r) /\ PasswordHeard(r)

\* The password requests in flight, unless two were asked for at once: there is one, one
\* that was served has set what it says, and the drawer that shows a password hears it.
PasswordsInv ==
  ~overlapped =>
    /\ \A r, o \in flight : {r.kind, o.kind} = {"password"} => r = o
    /\ \A r \in flight : r.kind = "password" =>
         /\ r.answer = "ok" => accounts[r.of].password = r.password
         /\ issuedPassword # 0 => r.heard
\* The password on the screen is the account's, or the answer that brings it is on its way.
IssuedInv ==
  issuedPassword # 0 =>
    /\ drawerOpen
    /\ ~strayed /\ ~overlapped /\ drawerCustomer \in Customers!Rows =>
         \/ accounts[drawerCustomer.email].password = issuedPassword
         \/ \E r \in flight : r.kind = "password" /\ r.answer = "ok"
CustomersInv ==
  /\ Customers!TypeOK /\ EmailsOnce(customers) /\ Customers!DrawerShowsTheRow
  /\ CustomersFlight /\ PasswordsInv /\ IssuedInv

LEMMA CustomersConstants ==
  /\ MaxCustomer \in Nat \ {0} /\ None \notin Customers!Emails /\ IsFiniteSet(Customers!Emails)
  /\ Customers!Emails \subseteq Nat /\ PageSize \in Nat \ {0} /\ CustomerMoves \in Nat
  /\ Customers!NoRow \notin Customers!Rows
<1>1. /\ MaxCustomer \in Nat \ {0} /\ None \notin Customers!Emails /\ PageSize \in Nat \ {0}
      /\ CustomerMoves \in Nat
  BY PanelAssumption DEF Customers!ConstantsTyped
<1>2. IsFiniteSet(1..MaxCustomer)
  BY <1>1, FS_Interval
<1>3. Customers!NoRow \notin Customers!Rows
  BY <1>1 DEF Customers!NoRow, Customers!Rows
<1> QED
  BY <1>1, <1>2, <1>3 DEF Customers!Emails

LEMMA CustomersRow ==
  ASSUME Customers!TypeOK, NEW e \in Customers!Emails
  PROVE  Customers!Row(e) \in Customers!Rows /\ Customers!Row(e).email = e
  BY DEF Customers!TypeOK, Customers!Row, Customers!Rows

\* The places of the customers found are those of a list: every one is somebody's.
LEMMA PlaceIsTaken ==
  ASSUME NEW found \in SUBSET Customers!Emails, NEW n \in 1..Cardinality(found)
  PROVE  \E e \in found : Customers!Place(e, found) = n
<1> DEFINE f == [e \in found |-> Customers!Place(e, found)]
           c == Cardinality(found)
<1>1. IsFiniteSet(found) /\ c \in Nat /\ found \subseteq Nat
  BY CustomersConstants, FS_Subset, FS_CardinalityType
<1>2. ASSUME NEW e \in found
      PROVE  /\ IsFiniteSet({o \in found : o <= e}) /\ Customers!Place(e, found) \in 1..c
             /\ Customers!Place(e, found) = Cardinality({o \in found : o <= e})
  <2> DEFINE S == {o \in found : o <= e}
  <2>1. S \in SUBSET found /\ e \in S /\ S # {}
    BY <1>1
  <2>2. Customers!Place(e, found) = Cardinality(S)
    BY SameSizes DEF Customers!Place
  <2> HIDE DEF S
  <2>3. IsFiniteSet(S) /\ Cardinality(S) <= c
    BY <1>1, <2>1, FS_Subset
  <2>4. Cardinality(S) \in Nat /\ Cardinality(S) # 0
    BY <2>1, <2>3, FS_CardinalityType, FS_EmptySet
  <2> QED
    BY <1>1, <2>2, <2>3, <2>4 DEF S
<1>3. ASSUME NEW a \in found, NEW b \in found, a < b
      PROVE  Customers!Place(a, found) < Customers!Place(b, found)
  <2> DEFINE A == {o \in found : o <= a}
             B == {o \in found : o <= b}
  <2>1. A \in SUBSET B /\ b \in B /\ b \notin A
    <3>1. \A o \in found : o \in Nat
      BY <1>1
    <3>2. \A o \in found : o <= a => o <= b
      BY <1>3, <3>1
    <3>3. ~(b <= a) /\ b <= b
      BY <1>3, <3>1
    <3> QED
      BY <3>2, <3>3
  <2>2. /\ IsFiniteSet(A) /\ IsFiniteSet(B) /\ Customers!Place(a, found) = Cardinality(A)
        /\ Customers!Place(b, found) = Cardinality(B) /\ Customers!Place(a, found) \in 1..c
        /\ Customers!Place(b, found) \in 1..c
    BY <1>2
  <2> HIDE DEF A, B
  <2>3. Cardinality(A) <= Cardinality(B) /\ Cardinality(A) # Cardinality(B)
    BY <2>1, <2>2, FS_Subset
  <2>4. Cardinality(A) \in Nat /\ Cardinality(B) \in Nat
    BY <2>2, FS_CardinalityType
  <2> QED
    BY <2>2, <2>3, <2>4
<1>4. f \in Injection(found, 1..c)
  <2>1. f \in [found -> 1..c]
    BY <1>2
  <2>2. ASSUME NEW a \in found, NEW b \in found, f[a] = f[b] PROVE a = b
    <3>1. Customers!Place(a, found) = Customers!Place(b, found)
      BY <2>2
    <3>2. Customers!Place(a, found) \in 1..c /\ Customers!Place(b, found) \in 1..c
      BY <1>2
    <3>3. /\ ~(Customers!Place(a, found) < Customers!Place(b, found))
          /\ ~(Customers!Place(b, found) < Customers!Place(a, found))
      BY <1>1, <3>1, <3>2
    <3>4. ~(a < b) /\ ~(b < a)
      BY <1>3, <3>3
    <3>5. a \in Nat /\ b \in Nat
      BY <1>1
    <3> QED
      BY <3>4, <3>5
  <2> QED
    BY <2>1, <2>2 DEF Injection, IsInjective
<1> HIDE DEF f, c
<1>5. IsFiniteSet(1..c) /\ Cardinality(1..c) = c
  <2>1. Cardinality(1..c) = IF 1 > c THEN 0 ELSE c - 1 + 1
    BY <1>1, FS_Interval
  <2> QED
    BY <1>1, <2>1, FS_Interval
<1>6. f \in Surjection(found, 1..c)
  <2>1. Cardinality(found) = Cardinality(1..c)
    BY <1>5 DEF c
  <2> QED
    BY <1>4, <1>5, <2>1, FS_Injection
<1>7. \E e \in found : f[e] = n
  BY <1>6 DEF Surjection, c
<1> QED
  BY <1>7 DEF f

\* A list the server answers with is one of customers, and names none twice.
LEMMA CustomersListed ==
  ASSUME Customers!TypeOK, NEW q \in Customers!Queries
  PROVE  Customers!ListOf(q) \in Seq(Customers!Rows) /\ EmailsOnce(Customers!ListOf(q))
<1> DEFINE found == Customers!Found(q)
           m == (q.page - 1) * PageSize
           c == Cardinality(found)
           k == IF c - m < 0 THEN 0 ELSE IF c - m > PageSize THEN PageSize ELSE c - m
           S == {j \in 1..PageSize : m + j <= c}
           At(i) == CHOOSE e \in found : Customers!Place(e, found) = m + i
<1>1. found \in SUBSET Customers!Emails /\ c \in Nat
  <2>1. found \in SUBSET Customers!Emails
    BY DEF Customers!Found
  <2> QED
    BY <2>1, CustomersConstants, FS_Subset, FS_CardinalityType
<1>2. PageSize \in Nat \ {0} /\ m \in Nat
  <2>1. q.page \in 1..MaxCustomer
    BY DEF Customers!Queries
  <2>2. q.page - 1 \in Nat
    BY <2>1, CustomersConstants
  <2> QED
    BY <2>2, CustomersConstants
<1>3. Customers!ListOf(q) = [i \in 1..Cardinality(S) |-> Customers!Row(At(i))]
  BY SameSizes DEF Customers!ListOf
<1> HIDE DEF m, c, found
<1>4. k \in Nat /\ S = 1..k
  <2>1. k \in Nat
    BY <1>1, <1>2
  <2>2. \A j \in 1..PageSize : m + j <= c <=> j <= k
    BY <1>1, <1>2
  <2>3. k <= PageSize
    BY <1>1, <1>2
  <2> QED
    BY <1>2, <2>1, <2>2, <2>3
<1>5. \A i \in 1..k : m + i \in 1..c
  BY <1>1, <1>2
<1> HIDE DEF k, S
<1>6. Cardinality(S) = k
  BY <1>4, FS_Interval
<1>7. ASSUME NEW i \in 1..k PROVE At(i) \in found /\ Customers!Place(At(i), found) = m + i
  <2>1. \E e \in found : Customers!Place(e, found) = m + i
    <3>1. m + i \in 1..Cardinality(found)
      BY <1>5 DEF c
    <3> QED
      BY <1>1, <3>1, PlaceIsTaken
  <2> QED
    BY <2>1
<1> HIDE DEF At
<1>8. \A i \in 1..k : Customers!Row(At(i)) \in Customers!Rows /\ Customers!Row(At(i)).email = At(i)
  BY <1>1, <1>7, CustomersRow
<1>9. Customers!ListOf(q) = [i \in 1..k |-> Customers!Row(At(i))]
  BY <1>3, <1>6
<1>10. Customers!ListOf(q) \in [1..k -> Customers!Rows]
  BY <1>8, <1>9
<1>11. EmailsOnce(Customers!ListOf(q))
  <2>1. ASSUME NEW i \in 1..k, NEW j \in 1..k, At(i) = At(j) PROVE i = j
    <3>1. m + i = m + j
      BY <1>7, <2>1
    <3> QED
      BY <1>2, <1>4, <3>1
  <2> QED
    BY <1>8, <1>9, <2>1 DEF EmailsOnce
<1> QED
  BY <1>4, <1>10, <1>11, MadeBySteps

LEMMA NoCustomersListed ==
  <<>> \in Seq(Customers!Rows) /\ EmailsOnce(<<>>) /\ DOMAIN <<>> = {}
  BY DEF EmailsOnce

LEMMA CustomersAsk ==
  ASSUME Customers!Query \in Customers!Queries, NEW k \in {"list", "carts"} \cup Customers!Changes,
         NEW e \in Customers!Emails \cup {None}
  PROVE  /\ Customers!Request(k, e) \in Customers!Requests
         /\ Customers!Request(k, e).kind = k /\ Customers!Request(k, e).of = e
         /\ Customers!Request(k, e).heard = TRUE
         /\ Customers!Request(k, e).answer = "sent" /\ Customers!Request(k, e).rows = <<>>
<1>1. <<>> \in Seq(Customers!Rows) /\ 0 \in 0..CustomerMoves
  BY CustomersConstants
<1> QED
  BY <1>1 DEF Customers!Request, Customers!Requests

LEMMA CustomersInit == Customers!Init => CustomersInv
<1> SUFFICES ASSUME Customers!Init PROVE CustomersInv
  OBVIOUS
<1> DEFINE r == Customers!Request("list", None)
<1>1. Customers!Query \in Customers!Queries
  <2>1. 1 \in 1..MaxCustomer
    BY CustomersConstants
  <2> QED
    BY <2>1 DEF Customers!Init, Customers!Query, Customers!Queries
<1>2. r \in Customers!Requests /\ r.kind = "list" /\ r.rows = <<>>
  <2>1. "list" \in {"list", "carts"} \cup Customers!Changes /\ None \in Customers!Emails \cup {None}
    OBVIOUS
  <2> QED
    BY <1>1, <2>1, CustomersAsk
<1>3. flight = {r}
  BY DEF Customers!Init
<1> HIDE DEF r
<1>4. 0 \in 0..CustomerMoves
  BY CustomersConstants
<1>5. accounts \in [Customers!Emails ->
                   [registered: BOOLEAN, active: BOOLEAN, password: 0..CustomerMoves]]
  BY <1>4 DEF Customers!Init
<1>6. customers \in Seq(Customers!Rows) /\ Customers!IsInjective(customers) /\ customers = <<>>
  BY DEF Customers!Init, Customers!IsInjective
<1>7. Customers!TypeOK
  BY <1>1, <1>2, <1>3, <1>4, <1>5, <1>6 DEF Customers!Init, Customers!TypeOK
<1>8. EmailsOnce(customers) /\ Customers!DrawerShowsTheRow
  BY <1>6 DEF EmailsOnce, Customers!DrawerShowsTheRow
<1>9. CustomersFlight
  BY <1>2, <1>3, NoCustomersListed
    DEF CustomersFlight, CustomersRequest, PasswordHeard, Customers!Changes
<1>10. PasswordsInv /\ IssuedInv
  BY <1>2, <1>3 DEF PasswordsInv, IssuedInv, Customers!Init
<1> QED
  BY <1>7, <1>8, <1>9, <1>10 DEF CustomersInv

PasswordRequests(f) == {r \in f : r.kind = "password"}

LEMMA QueryParts ==
  /\ Customers!Query \in Customers!Queries
       <=> /\ search \in Customers!Emails \cup {None}
           /\ registeredOnly \in BOOLEAN
           /\ currentPage \in 1..MaxCustomer
  /\ Customers!Query' \in Customers!Queries
       <=> /\ search' \in Customers!Emails \cup {None}
           /\ registeredOnly' \in BOOLEAN
           /\ currentPage' \in 1..MaxCustomer
  BY DEF Customers!Query, Customers!Queries

LEMMA CustomersActs ==
  ASSUME CustomersInv, Customers!Acts
  PROVE  moves' \in 0..CustomerMoves /\ moves' # 0 /\ UNCHANGED <<accounts, strayed>>
<1>1. moves \in Nat /\ CustomerMoves \in Nat /\ moves' = moves + 1 /\ moves < CustomerMoves
  BY CustomersConstants DEF CustomersInv, Customers!TypeOK, Customers!Acts
<1> QED
  BY <1>1 DEF Customers!Acts

\* Making the lists before stale, and leaving a drawer, change who listens and no more.
LEMMA OutdatedKeeps ==
  ASSUME NEW f, \A r \in f : CustomersRequest(r)
  PROVE  /\ \A r \in Customers!Outdated(f) : CustomersRequest(r)
         /\ PasswordRequests(Customers!Outdated(f)) = PasswordRequests(f)
<1> DEFINE g(r) == IF r.kind = "list" THEN [r EXCEPT !.heard = FALSE] ELSE r
<1>1. Customers!Outdated(f) = {g(r) : r \in f}
  BY DEF Customers!Outdated
<1>2. ASSUME NEW r \in f
      PROVE  CustomersRequest(g(r)) /\ g(r).kind = r.kind /\ (r.kind = "password" => g(r) = r)
  BY DEF CustomersRequest, Customers!Requests
<1> HIDE DEF g
<1> QED
  BY <1>1, <1>2 DEF PasswordRequests

LEMMA LeftKeeps ==
  ASSUME NEW f, \A r \in f : CustomersRequest(r)
  PROVE  /\ \A r \in Customers!Left(f) : CustomersRequest(r)
         /\ \A r \in PasswordRequests(Customers!Left(f)) :
              \E o \in PasswordRequests(f) : r = [o EXCEPT !.heard = FALSE]
<1> DEFINE g(r) == [r EXCEPT !.heard = r.kind = "list" /\ @]
<1>1. Customers!Left(f) = {g(r) : r \in {q \in f : q.kind # "carts"}}
  BY DEF Customers!Left
<1>2. ASSUME NEW r \in f
      PROVE  /\ CustomersRequest(g(r)) /\ g(r).kind = r.kind
             /\ (r.kind = "password" => g(r) = [r EXCEPT !.heard = FALSE])
  <2>1. r \in Customers!Requests /\ CustomersRequest(r)
    BY DEF CustomersRequest
  <2>2. g(r) \in Customers!Requests /\ g(r).kind = r.kind /\ g(r).of = r.of /\ g(r).rows = r.rows
    BY <2>1 DEF Customers!Requests
  <2>3. r.kind = "password" => g(r) = [r EXCEPT !.heard = FALSE]
    BY <2>1
  <2> HIDE DEF g
  <2> QED
    BY <2>1, <2>2, <2>3 DEF CustomersRequest
<1> HIDE DEF g
<1> QED
  BY <1>1, <1>2 DEF PasswordRequests

LEMMA CustomersLoad ==
  ASSUME CustomersInv, NEW f, \A r \in f : CustomersRequest(r), NEW n \in 1..MaxCustomer,
         Customers!LoadCustomers(n, f), search' \in Customers!Emails \cup {None},
         registeredOnly' \in BOOLEAN
  PROVE  /\ Customers!Query' \in Customers!Queries
         /\ PasswordRequests(flight') = PasswordRequests(f)
         /\ \A r \in flight' : CustomersRequest(r)
<1> DEFINE q == Customers!Request("list", None)'
<1>1. currentPage' = n /\ flight' = Customers!Outdated(f) \cup {q}
  BY DEF Customers!LoadCustomers
<1>2. Customers!Query' \in Customers!Queries
  BY <1>1, QueryParts
<1>3. q \in Customers!Requests /\ q.kind = "list" /\ q.rows = <<>>
  <2>1. <<>> \in Seq(Customers!Rows) /\ 0 \in 0..CustomerMoves
    BY CustomersConstants
  <2> QED
    BY <1>2, <2>1 DEF Customers!Request, Customers!Requests
<1> HIDE DEF q
<1>4. CustomersRequest(q) /\ q.kind # "password"
  BY <1>3, NoCustomersListed DEF CustomersRequest, Customers!Changes
<1> QED
  BY <1>1, <1>2, <1>4, OutdatedKeeps DEF PasswordRequests

\* A step that leaves the passwords as they are.
LEMMA PasswordsStay ==
  ASSUME CustomersInv, \A r \in flight' : CustomersRequest(r),
         PasswordRequests(flight') \subseteq PasswordRequests(flight),
         \A r \in PasswordRequests(flight) : r.answer = "ok" => r \in flight',
         UNCHANGED <<drawerOpen, issuedPassword>>,
         overlapped => overlapped', strayed => strayed',
         drawerCustomer' \in Customers!Rows <=> drawerCustomer \in Customers!Rows,
         drawerCustomer \in Customers!Rows => drawerCustomer'.email = drawerCustomer.email,
         \A e \in Customers!Emails : accounts'[e].password = accounts[e].password
  PROVE  CustomersFlight' /\ PasswordsInv' /\ IssuedInv'
<1>1. \A r \in flight' : r.kind = "password" => r \in flight
  BY DEF PasswordRequests
<1>2. CustomersFlight'
  <2>1. ASSUME NEW r \in flight' PROVE PasswordHeard(r)'
    BY <1>1 DEF CustomersInv, CustomersFlight, PasswordHeard
  <2>2. \A r \in flight' : CustomersRequest(r)'
    BY DEF CustomersRequest
  <2> QED
    BY <2>1, <2>2 DEF CustomersFlight
<1>3. \A r \in flight' : r.kind = "password" => r.of \in Customers!Emails
  BY DEF CustomersRequest, Customers!Changes
<1>4. PasswordsInv'
  BY <1>1, <1>3 DEF CustomersInv, PasswordsInv
<1>5. IssuedInv'
  <2>1. drawerCustomer \in Customers!Rows => drawerCustomer.email \in Customers!Emails
    BY DEF Customers!Rows
  <2>2. \A r \in flight : r.kind = "password" /\ r.answer = "ok" => r \in flight'
    BY DEF PasswordRequests
  <2> QED
    BY <2>1, <2>2 DEF CustomersInv, IssuedInv
<1> QED
  BY <1>2, <1>4, <1>5

\* A step after which no password is listened for.
LEMMA PasswordsLeave ==
  ASSUME CustomersInv, \A r \in flight' : CustomersRequest(r), issuedPassword' = 0,
         \A r \in PasswordRequests(flight') :
           \E o \in PasswordRequests(flight) : r = [o EXCEPT !.heard = FALSE],
         overlapped => overlapped', accounts' = accounts
  PROVE  CustomersFlight' /\ PasswordsInv' /\ IssuedInv'
<1>1. ASSUME NEW r \in flight', r.kind = "password"
      PROVE  \E o \in flight : /\ o.kind = "password" /\ r = [o EXCEPT !.heard = FALSE]
                               /\ r.of = o.of /\ r.answer = o.answer /\ r.password = o.password
                               /\ ~r.heard
  <2>1. PICK o \in flight : o.kind = "password" /\ r = [o EXCEPT !.heard = FALSE]
    BY <1>1 DEF PasswordRequests
  <2>2. o \in Customers!Requests
    BY DEF CustomersInv, Customers!TypeOK
  <2> QED
    BY <2>1, <2>2 DEF Customers!Requests
<1>2. CustomersFlight'
  BY <1>1 DEF CustomersFlight, CustomersRequest, PasswordHeard
<1>3. PasswordsInv'
  <2> SUFFICES ASSUME ~overlapped' PROVE
         /\ \A r, o \in flight' : {r.kind, o.kind} = {"password"} => r = o
         /\ \A r \in flight' : r.kind = "password" /\ r.answer = "ok"
              => accounts[r.of].password = r.password
    BY DEF PasswordsInv
  <2>1. \A r, o \in flight : r.kind = "password" /\ o.kind = "password" => r = o
    BY DEF CustomersInv, PasswordsInv
  <2>2. \A r \in flight : r.kind = "password" /\ r.answer = "ok"
          => accounts[r.of].password = r.password
    BY DEF CustomersInv, PasswordsInv
  <2>3. ASSUME NEW r \in flight', NEW o \in flight', r.kind = "password", o.kind = "password"
        PROVE  r = o
    <3>1. PICK x \in flight : x.kind = "password" /\ r = [x EXCEPT !.heard = FALSE]
      BY <1>1, <2>3
    <3>2. PICK y \in flight : y.kind = "password" /\ o = [y EXCEPT !.heard = FALSE]
      BY <1>1, <2>3
    <3>3. x = y
      BY <2>1, <3>1, <3>2
    <3> QED
      BY <3>1, <3>2, <3>3
  <2>4. ASSUME NEW r \in flight', r.kind = "password", r.answer = "ok"
        PROVE  accounts[r.of].password = r.password
    BY <1>1, <2>2, <2>4
  <2> QED
    BY <2>3, <2>4
<1>4. IssuedInv'
  BY DEF IssuedInv
<1> QED
  BY <1>2, <1>3, <1>4

LEMMA CustomersParts ==
  ASSUME CustomersInv
  PROVE  /\ Customers!TypeOK /\ EmailsOnce(customers) /\ Customers!DrawerShowsTheRow
         /\ \A r \in flight : CustomersRequest(r) /\ r \in Customers!Requests
         /\ search \in Customers!Emails \cup {None} /\ registeredOnly \in BOOLEAN
         /\ currentPage \in 1..MaxCustomer
  BY QueryParts DEF CustomersInv, Customers!TypeOK, CustomersFlight

\* A step that changes what is asked for.
LEMMA CustomersAsks ==
  ASSUME CustomersInv,
         \/ Customers!OnSearchInput(search')
         \/ Customers!SearchTimer
         \/ Customers!SetRegisteredOnly(registeredOnly')
         \/ Customers!GoToPage(currentPage'),
         search' \in Customers!Emails \cup {None}, registeredOnly' \in BOOLEAN,
         currentPage' \in 1..MaxCustomer
  PROVE  CustomersInv'
<1>1. /\ UNCHANGED <<accounts, customers, Customers!drawer, strayed, overlapped>>
      /\ moves' \in 0..CustomerMoves
      /\ searchTimer' \in BOOLEAN
  BY CustomersActs
    DEF Customers!OnSearchInput, Customers!SearchTimer, Customers!SetRegisteredOnly,
        Customers!GoToPage, Customers!Acts, Customers!history, CustomersInv, Customers!TypeOK
<1>2. /\ Customers!Query' \in Customers!Queries
      /\ PasswordRequests(flight') = PasswordRequests(flight)
      /\ \A r \in flight' : CustomersRequest(r)
  <2>1. CASE flight' = flight
    BY <2>1, QueryParts, CustomersParts
  <2>2. CASE Customers!LoadCustomers(currentPage', flight)
    BY <2>2, CustomersParts, CustomersLoad
  <2> QED
    BY <2>1, <2>2
      DEF Customers!OnSearchInput, Customers!SearchTimer, Customers!SetRegisteredOnly,
          Customers!GoToPage, Customers!LoadCustomers
<1>3. CustomersFlight' /\ PasswordsInv' /\ IssuedInv'
  BY <1>1, <1>2, PasswordsStay DEF Customers!drawer, PasswordRequests
<1>4. Customers!TypeOK'
  <2>1. flight' \subseteq Customers!Requests
    BY <1>2 DEF CustomersRequest
  <2> QED
    BY <1>1, <1>2, <2>1 DEF CustomersInv, Customers!TypeOK, Customers!drawer
<1> QED
  BY <1>1, <1>3, <1>4
    DEF CustomersInv, EmailsOnce, Customers!DrawerShowsTheRow, Customers!drawer

\* A drawer that closes, or is emptied.
LEMMA CustomersLeave ==
  ASSUME CustomersInv, NEW f, \A r \in f : CustomersRequest(r),
         PasswordRequests(f) \subseteq PasswordRequests(flight),
         flight' = Customers!Left(f), Customers!DropComponent, drawerOpen' \in BOOLEAN,
         resetting' \in BOOLEAN,
         drawerCustomer' \in {drawerCustomer, Customers!NoRow},
         UNCHANGED <<accounts, Customers!list, moves, Customers!history>>
  PROVE  CustomersInv'
<1>1. \A r \in flight' : CustomersRequest(r)
  BY LeftKeeps
<1>2. \A r \in PasswordRequests(flight') :
        \E o \in PasswordRequests(flight) : r = [o EXCEPT !.heard = FALSE]
  BY LeftKeeps
<1>3. busy' = FALSE /\ issuedPassword' = 0
  BY DEF Customers!DropComponent
<1>4. CustomersFlight' /\ PasswordsInv' /\ IssuedInv'
  BY <1>1, <1>2, <1>3, PasswordsLeave DEF Customers!history
<1>5. Customers!TypeOK'
  <2>1. flight' \subseteq Customers!Requests /\ 0 \in 0..CustomerMoves
    BY <1>1, CustomersConstants DEF CustomersRequest
  <2>2. Customers!Query' \in Customers!Queries
    BY CustomersParts, QueryParts DEF Customers!list
  <2> QED
    BY <1>3, <2>1, <2>2 DEF CustomersInv, Customers!TypeOK, Customers!list, Customers!history
<1>6. Customers!DrawerShowsTheRow'
  <2>1. \A i \in DOMAIN customers : customers[i].email # Customers!NoRow.email
    <3>1. \A i \in DOMAIN customers : customers[i] \in Customers!Rows
      BY DEF CustomersInv, Customers!TypeOK
    <3> QED
      BY <3>1, CustomersConstants DEF Customers!Rows, Customers!NoRow
  <2> QED
    BY <2>1 DEF CustomersInv, Customers!DrawerShowsTheRow, Customers!list
<1> QED
  BY <1>4, <1>5, <1>6 DEF CustomersInv, EmailsOnce, Customers!list

LEMMA CustomersOpens ==
  ASSUME CustomersInv, NEW i \in DOMAIN customers, Customers!OpenCustomer(i)
  PROVE  CustomersInv'
<1> DEFINE q == Customers!Request("carts", customers[i].email)
<1>1. customers[i] \in Customers!Rows /\ customers[i].email \in Customers!Emails
  <2>1. customers[i] \in Customers!Rows
    BY DEF CustomersInv, Customers!TypeOK
  <2> QED
    BY <2>1 DEF Customers!Rows
<1>2. q \in Customers!Requests /\ q.kind = "carts"
  <2>1. "carts" \in {"list", "carts"} \cup Customers!Changes
    OBVIOUS
  <2>2. Customers!Query \in Customers!Queries /\ customers[i].email \in Customers!Emails \cup {None}
    BY <1>1 DEF CustomersInv, Customers!TypeOK
  <2> QED
    BY <2>1, <2>2, CustomersAsk
<1>3. /\ flight' = flight \cup {q} /\ drawerCustomer' = customers[i] /\ drawerOpen' = TRUE
      /\ ~drawerOpen /\ UNCHANGED <<Customers!list, resetting, busy, issuedPassword, overlapped>>
  BY DEF Customers!OpenCustomer
<1>4. UNCHANGED <<accounts, strayed>> /\ moves' \in 0..CustomerMoves
  BY CustomersActs DEF Customers!OpenCustomer
<1> HIDE DEF q
<1>5. \A r \in flight' : CustomersRequest(r)
  BY <1>2, <1>3, CustomersParts DEF CustomersRequest, Customers!Changes
<1>6. \A r \in PasswordRequests(flight') :
        \E o \in PasswordRequests(flight) : r = [o EXCEPT !.heard = FALSE]
  <2>1. ASSUME NEW r \in PasswordRequests(flight')
        PROVE  r \in PasswordRequests(flight) /\ r = [r EXCEPT !.heard = FALSE]
    <3>1. r \in flight /\ r.kind = "password"
      BY <1>2, <1>3 DEF PasswordRequests
    <3>2. ~r.heard /\ r \in Customers!Requests
      BY <1>3, <3>1 DEF CustomersInv, CustomersFlight, PasswordHeard, Customers!TypeOK
    <3>3. r = [r EXCEPT !.heard = FALSE]
      BY <3>2 DEF Customers!Requests
    <3> QED
      BY <3>1, <3>3 DEF PasswordRequests
  <2> QED
    BY <2>1
<1>7. issuedPassword' = 0
  BY <1>3 DEF CustomersInv, IssuedInv
<1>8. CustomersFlight' /\ PasswordsInv' /\ IssuedInv'
  BY <1>3, <1>4, <1>5, <1>6, <1>7, PasswordsLeave
<1>9. Customers!TypeOK'
  <2>1. flight' \subseteq Customers!Requests
    BY <1>5 DEF CustomersRequest
  <2>2. Customers!Query' \in Customers!Queries
    BY <1>3, CustomersParts, QueryParts DEF Customers!list
  <2> QED
    BY <1>1, <1>3, <1>4, <2>1, <2>2 DEF CustomersInv, Customers!TypeOK, Customers!list
<1>10. Customers!DrawerShowsTheRow'
  BY <1>3 DEF CustomersInv, EmailsOnce, Customers!DrawerShowsTheRow, Customers!list
<1> QED
  BY <1>3, <1>8, <1>9, <1>10 DEF CustomersInv, EmailsOnce, Customers!list

LEMMA CustomersChange ==
  ASSUME CustomersInv, NEW k \in Customers!Changes, Customers!Change(k)
  PROVE  CustomersInv'
<1> DEFINE b == Customers!Request(k, drawerCustomer.email)
           q == [b EXCEPT !.password = IF k = "password" THEN moves' ELSE 0]
<1>1. drawerOpen /\ drawerCustomer \in Customers!Rows /\ drawerCustomer.email \in Customers!Emails
  <2>1. /\ drawerOpen /\ drawerCustomer.registered
        /\ drawerCustomer \in Customers!Rows \cup {Customers!NoRow}
    BY DEF Customers!Change, CustomersInv, Customers!TypeOK
  <2>2. drawerCustomer \in Customers!Rows
    BY <2>1 DEF Customers!NoRow
  <2> QED
    BY <2>1, <2>2 DEF Customers!Rows
<1>2. /\ b \in Customers!Requests /\ b.kind = k /\ b.of = drawerCustomer.email /\ b.heard
      /\ b.answer = "sent" /\ b.rows = <<>>
  <2>1. k \in {"list", "carts"} \cup Customers!Changes
    OBVIOUS
  <2>2. /\ Customers!Query \in Customers!Queries
        /\ drawerCustomer.email \in Customers!Emails \cup {None}
    BY <1>1 DEF CustomersInv, Customers!TypeOK
  <2> QED
    BY <2>1, <2>2, CustomersAsk, ZenonT(40)
<1>3. UNCHANGED <<accounts, strayed>> /\ moves' \in 0..CustomerMoves
  BY CustomersActs DEF Customers!Change
<1>4. /\ flight' = flight \cup {q} /\ busy' = TRUE
      /\ overlapped' = (overlapped \/ (k = "password" /\ \E r \in flight : r.kind = k))
      /\ UNCHANGED <<Customers!list, drawerOpen, drawerCustomer, resetting, issuedPassword>>
  BY DEF Customers!Change
<1> HIDE DEF b
<1>5. PICK p \in Customers!Requests : /\ p.kind = k /\ p.of = drawerCustomer.email /\ p.heard
                                      /\ p.answer = "sent" /\ flight' = flight \cup {p}
  <2>1. (IF k = "password" THEN moves' ELSE 0) \in 0..CustomerMoves
    BY <1>3, CustomersConstants
  <2>2. /\ q \in Customers!Requests /\ q.kind = k /\ q.of = drawerCustomer.email /\ q.heard
        /\ q.answer = "sent"
    BY <1>2, <2>1 DEF Customers!Requests
  <2> QED
    BY <1>4, <2>2
<1> HIDE DEF q
<1>6. CustomersRequest(p)
  BY <1>1, <1>5 DEF CustomersRequest, Customers!Changes
<1>7. \A r \in flight' : CustomersRequest(r)
  BY <1>5, <1>6, CustomersParts
<1>8. CustomersFlight' /\ PasswordsInv' /\ IssuedInv'
  <2>1. CASE k # "password"
    <3>1. PasswordRequests(flight') = PasswordRequests(flight)
      BY <1>4, <1>5, <2>1 DEF PasswordRequests
    <3>2. /\ PasswordRequests(flight') \subseteq PasswordRequests(flight)
          /\ \A r \in PasswordRequests(flight) : r.answer = "ok" => r \in flight'
      BY <1>5, <3>1 DEF PasswordRequests
    <3> QED
      BY <1>3, <1>4, <1>7, <3>2, PasswordsStay
  <2>2. CASE k = "password"
    <3>1. CustomersFlight'
      <4>1. \A r \in flight : PasswordHeard(r)'
        BY <1>4 DEF CustomersInv, CustomersFlight, PasswordHeard
      <4>2. PasswordHeard(p)'
        BY <1>1, <1>4, <1>5 DEF PasswordHeard
      <4> QED
        BY <1>5, <1>7, <4>1, <4>2 DEF CustomersFlight, CustomersRequest
    <3>2. PasswordsInv'
      <4> SUFFICES ASSUME ~overlapped' PROVE
            /\ \A r, o \in flight' : {r.kind, o.kind} = {"password"} => r = o
            /\ \A r \in flight' : r.kind = "password" =>
                 /\ r.answer = "ok" => accounts'[r.of].password = r.password
                 /\ issuedPassword' # 0 => r.heard
        BY DEF PasswordsInv
      <4>1. \A r \in flight : r.kind # "password"
        BY <1>4, <2>2
      <4>2. \A r \in flight' : r.kind = "password" => r = p
        BY <1>5, <4>1
      <4> QED
        BY <1>5, <4>2
    <3>3. IssuedInv'
      BY <1>3, <1>4, <1>5 DEF CustomersInv, IssuedInv
    <3> QED
      BY <3>1, <3>2, <3>3
  <2> QED
    BY <2>1, <2>2
<1>9. Customers!TypeOK'
  <2>1. flight' \subseteq Customers!Requests /\ overlapped' \in BOOLEAN
    BY <1>4, <1>7 DEF CustomersRequest, CustomersInv, Customers!TypeOK
  <2>2. Customers!Query' \in Customers!Queries
    BY <1>4, CustomersParts, QueryParts DEF Customers!list
  <2> QED
    BY <1>3, <1>4, <2>1, <2>2 DEF CustomersInv, Customers!TypeOK, Customers!list
<1> QED
  BY <1>4, <1>8, <1>9 DEF CustomersInv, EmailsOnce, Customers!DrawerShowsTheRow, Customers!list

\* The server.
LEMMA CustomersChanged ==
  ASSUME CustomersInv, NEW r \in flight
  PROVE  /\ Customers!Changed(r)
              \in [Customers!Emails ->
                    [registered: BOOLEAN, active: BOOLEAN, password: 0..CustomerMoves]]
         /\ r.kind # "password"
              => \A e \in Customers!Emails : Customers!Changed(r)[e].password = accounts[e].password
         /\ r.kind = "password" => Customers!Changed(r)[r.of].password = r.password
<1> DEFINE Accounts == [registered: BOOLEAN, active: BOOLEAN, password: 0..CustomerMoves]
<1>1. /\ r \in Customers!Requests /\ (r.kind \in Customers!Changes => r.of \in Customers!Emails)
      /\ accounts \in [Customers!Emails -> Accounts]
  BY CustomersParts DEF CustomersRequest, Customers!TypeOK
<1>2. r.password \in 0..CustomerMoves
  BY <1>1 DEF Customers!Requests
<1>3. CASE r.kind = "active"
  <2> DEFINE x == [accounts[r.of] EXCEPT !.active = ~@]
  <2>1. Customers!Changed(r) = [accounts EXCEPT ![r.of] = x]
    BY <1>3 DEF Customers!Changed
  <2>2. x \in Accounts /\ x.password = accounts[r.of].password
    BY <1>1, <1>3 DEF Customers!Changes
  <2> HIDE DEF x
  <2> QED
    BY <1>1, <1>3, <2>1, <2>2
<1>4. CASE r.kind = "delete"
  <2> DEFINE x == [accounts[r.of] EXCEPT !.registered = FALSE]
  <2>1. Customers!Changed(r) = [accounts EXCEPT ![r.of] = x]
    BY <1>4 DEF Customers!Changed
  <2>2. x \in Accounts /\ x.password = accounts[r.of].password
    BY <1>1, <1>4 DEF Customers!Changes
  <2> HIDE DEF x
  <2> QED
    BY <1>1, <1>4, <2>1, <2>2
<1>5. CASE r.kind = "password"
  <2> DEFINE x == [accounts[r.of] EXCEPT !.password = r.password]
  <2>1. Customers!Changed(r) = [accounts EXCEPT ![r.of] = x]
    BY <1>5 DEF Customers!Changed
  <2>2. x \in Accounts /\ x.password = r.password /\ r.of \in Customers!Emails
    BY <1>1, <1>2, <1>5 DEF Customers!Changes
  <2> HIDE DEF x
  <2> QED
    BY <1>1, <1>5, <2>1, <2>2
<1>6. CASE r.kind \notin {"active", "delete", "password"}
  BY <1>1, <1>6 DEF Customers!Changed
<1> QED
  BY <1>3, <1>4, <1>5, <1>6

LEMMA CustomersServes ==
  ASSUME CustomersInv, NEW r \in flight, Customers!Serve(r)
  PROVE  CustomersInv'
<1>1. /\ UNCHANGED <<Customers!list, Customers!drawer, moves, overlapped>> /\ r.answer = "sent"
      /\ r \in Customers!Requests /\ CustomersRequest(r) /\ PasswordHeard(r)
      /\ \A o \in flight : CustomersRequest(o) /\ o \in Customers!Requests
  BY CustomersParts, SMTT(30) DEF Customers!Serve, CustomersInv, CustomersFlight
\* One request is answered, and the accounts are what they were or what it says.
<1>2. PICK a \in {"ok", "failed"}, s \in Seq(Customers!Rows) :
        /\ flight' = (flight \ {r}) \cup {[r EXCEPT !.answer = a, !.rows = s]}
        /\ r.kind = "list" => EmailsOnce(s)
        /\ accounts' \in {accounts, Customers!Changed(r)} /\ strayed' \in {strayed, TRUE}
        /\ a = "ok" => accounts' = Customers!Changed(r) /\ strayed' = strayed
        /\ a = "failed" => accounts' = accounts \/ strayed'
        /\ strayed => strayed'
  <2> DEFINE s == IF r.kind = "list" THEN Customers!ListOf(r.query) ELSE <<>>
  <2>1. CASE /\ accounts' = Customers!Changed(r) /\ strayed' = strayed
             /\ flight' = (flight \ {r}) \cup {[r EXCEPT !.answer = "ok", !.rows = s]}
    <3>1. s \in Seq(Customers!Rows) /\ (r.kind = "list" => EmailsOnce(s))
      <4>1. r.query \in Customers!Queries
        BY <1>1 DEF Customers!Requests
      <4> QED
        BY <4>1, CustomersListed, CustomersParts, NoCustomersListed
    <3> HIDE DEF s
    <3> QED
      BY <2>1, <3>1
  <2>2. CASE /\ flight' = (flight \ {r}) \cup {[r EXCEPT !.answer = "failed"]}
             /\ \/ accounts' = accounts /\ strayed' = strayed
                \/ accounts' = Customers!Changed(r) /\ strayed' = TRUE
    <3>1. /\ [r EXCEPT !.answer = "failed"] = [r EXCEPT !.answer = "failed", !.rows = r.rows]
          /\ r.rows \in Seq(Customers!Rows)
      BY <1>1 DEF Customers!Requests
    <3>2. r.kind = "list" => EmailsOnce(r.rows)
      BY <1>1 DEF CustomersRequest
    <3>3. /\ accounts' \in {accounts, Customers!Changed(r)} /\ strayed' \in {strayed, TRUE}
          /\ (accounts' = accounts \/ strayed') /\ (strayed => strayed')
      <4>1. CASE accounts' = accounts /\ strayed' = strayed
        BY <4>1, Zenon
      <4>2. CASE accounts' = Customers!Changed(r) /\ strayed' = TRUE
        BY <4>2
      <4> QED
        BY <2>2, <4>1, <4>2
    <3>4. flight' = (flight \ {r}) \cup {[r EXCEPT !.answer = "failed", !.rows = r.rows]}
      BY <2>2, <3>1
    <3> QED
      BY <3>1, <3>2, <3>3, <3>4
  <2> QED
    BY <2>1, <2>2 DEF Customers!Serve
<1>3. PICK q \in Customers!Requests : /\ flight' = (flight \ {r}) \cup {q} /\ q.kind = r.kind
                                      /\ q.of = r.of /\ q.heard = r.heard /\ q.password = r.password
                                      /\ q.answer = a /\ q.rows = s
  <2> DEFINE q == [r EXCEPT !.answer = a, !.rows = s]
  <2>1. /\ q \in Customers!Requests /\ q.kind = r.kind /\ q.of = r.of /\ q.heard = r.heard
        /\ q.password = r.password /\ q.answer = a /\ q.rows = s
    BY <1>1 DEF Customers!Requests
  <2> QED
    BY <1>2, <2>1
<1>4. \A o \in flight' : CustomersRequest(o)
  <2>1. CustomersRequest(q)
    BY <1>1, <1>2, <1>3 DEF CustomersRequest
  <2> QED
    BY <1>1, <1>3, <2>1
<1>5. CustomersFlight' /\ PasswordsInv' /\ IssuedInv'
  <2>1. CASE r.kind # "password"
    <3>1. PasswordRequests(flight') = PasswordRequests(flight)
      BY <1>3, <2>1 DEF PasswordRequests
    <3>2. /\ PasswordRequests(flight') \subseteq PasswordRequests(flight)
          /\ \A o \in PasswordRequests(flight) : o.answer = "ok" => o \in flight'
      BY <3>1 DEF PasswordRequests
    <3>3. \A e \in Customers!Emails : accounts'[e].password = accounts[e].password
      BY <1>2, <2>1, CustomersChanged
    <3>4. strayed => strayed'
      BY <1>2
    <3> QED
      BY <1>1, <1>4, <3>2, <3>3, <3>4, PasswordsStay DEF Customers!drawer
  <2>2. CASE r.kind = "password"
    <3>1. CustomersFlight'
      <4>1. ASSUME NEW o \in flight' PROVE PasswordHeard(o)'
        BY <1>1, <1>3 DEF CustomersInv, CustomersFlight, PasswordHeard, Customers!drawer
      <4> QED
        BY <1>4, <4>1 DEF CustomersFlight, CustomersRequest
    <3>2. ~overlapped => \A o \in flight' : o.kind = "password" => o = q
      BY <1>1, <1>3, <2>2 DEF CustomersInv, PasswordsInv
    <3>3. a = "ok" => accounts'[r.of].password = r.password
      BY <1>2, <2>2, CustomersChanged
    <3>4. ~overlapped /\ issuedPassword # 0 => q.heard
      BY <1>3, <2>2 DEF CustomersInv, PasswordsInv
    <3>5. PasswordsInv'
      <4> SUFFICES ASSUME ~overlapped' PROVE
            /\ \A x, o \in flight' : {x.kind, o.kind} = {"password"} => x = o
            /\ \A x \in flight' : x.kind = "password" =>
                 /\ x.answer = "ok" => accounts'[x.of].password = x.password
                 /\ issuedPassword' # 0 => x.heard
        BY DEF PasswordsInv
      <4>1. \A x \in flight' : x.kind = "password" => x = q
        BY <1>1, <3>2
      <4>2. \A x, o \in flight' : {x.kind, o.kind} = {"password"} => x = o
        BY <4>1
      <4> QED
        BY <1>1, <1>3, <3>3, <3>4, <4>1, <4>2 DEF Customers!drawer
    <3>6. IssuedInv'
      <4> SUFFICES ASSUME issuedPassword' # 0, ~strayed', ~overlapped',
                          drawerCustomer' \in Customers!Rows
                   PROVE  \/ accounts'[drawerCustomer'.email].password = issuedPassword'
                          \/ \E x \in flight' : x.kind = "password" /\ x.answer = "ok"
        BY <1>1 DEF CustomersInv, IssuedInv, Customers!drawer
      <4>1. CASE a = "ok"
        BY <1>3, <2>2, <4>1
      <4>2. CASE a = "failed"
        <5>1. accounts' = accounts /\ ~strayed
          BY <1>2, <4>2
        <5>2. \/ accounts[drawerCustomer.email].password = issuedPassword
              \/ \E x \in flight : x.kind = "password" /\ x.answer = "ok"
          BY <1>1, <5>1 DEF CustomersInv, IssuedInv, Customers!drawer
        <5> QED
          BY <1>1, <1>3, <5>1, <5>2 DEF Customers!drawer
      <4> QED
        BY <4>1, <4>2
    <3> QED
      BY <3>1, <3>5, <3>6
  <2> QED
    BY <2>1, <2>2
<1>6. Customers!TypeOK'
  <2>1. flight' \subseteq Customers!Requests /\ strayed' \in BOOLEAN
    BY <1>2, <1>4 DEF CustomersRequest, CustomersInv, Customers!TypeOK
  <2>2. Customers!Query' \in Customers!Queries
    BY <1>1, CustomersParts, QueryParts DEF Customers!list
  <2>3. accounts'
          \in [Customers!Emails ->
                [registered: BOOLEAN, active: BOOLEAN, password: 0..CustomerMoves]]
    BY <1>2, CustomersChanged DEF CustomersInv, Customers!TypeOK
  <2> QED
    BY <1>1, <2>1, <2>2, <2>3
      DEF CustomersInv, Customers!TypeOK, Customers!list, Customers!drawer
<1> QED
  BY <1>1, <1>5, <1>6
    DEF CustomersInv, EmailsOnce, Customers!DrawerShowsTheRow, Customers!list, Customers!drawer

\* The answers.
LEMMA CustomersRest ==
  ASSUME CustomersInv, NEW r \in flight, r.kind = "password" => r.answer # "ok"
  PROVE  /\ \A o \in Customers!Rest(r) : CustomersRequest(o)
         /\ PasswordRequests(Customers!Rest(r)) \subseteq PasswordRequests(flight)
         /\ \A o \in PasswordRequests(flight) : o.answer = "ok" => o \in Customers!Rest(r)
  BY CustomersParts DEF Customers!Rest, PasswordRequests

LEMMA CustomersArrives ==
  ASSUME CustomersInv, NEW r \in flight, Customers!Arrive(r)
  PROVE  CustomersInv'
<1>1. /\ r \in Customers!Requests /\ CustomersRequest(r) /\ PasswordHeard(r) /\ Customers!TypeOK
      /\ EmailsOnce(customers) /\ Customers!DrawerShowsTheRow
      /\ search \in Customers!Emails \cup {None} /\ registeredOnly \in BOOLEAN
      /\ currentPage \in 1..MaxCustomer
  BY CustomersParts DEF CustomersInv, CustomersFlight
<1>2. CASE Customers!ListArrives(r)
  <2>1. /\ r.kind = "list" /\ flight' = Customers!Rest(r) /\ strayed' \in BOOLEAN
        /\ (strayed => strayed')
        /\ UNCHANGED <<accounts, currentPage, search, registeredOnly, searchTimer, drawerOpen,
                 resetting, busy, issuedPassword, moves, overlapped>>
    BY <1>1, <1>2 DEF Customers!ListArrives, Customers!Hears, Customers!TypeOK
  <2>2. r.rows \in Seq(Customers!Rows) /\ EmailsOnce(r.rows)
    BY <1>1, <2>1 DEF Customers!Requests, CustomersRequest
  <2>3. /\ customers' \in Seq(Customers!Rows) /\ EmailsOnce(customers')
        /\ Customers!DrawerShowsTheRow'
        /\ drawerCustomer' \in Customers!Rows \cup {Customers!NoRow}
        /\ drawerCustomer' \in Customers!Rows <=> drawerCustomer \in Customers!Rows
        /\ drawerCustomer \in Customers!Rows => drawerCustomer'.email = drawerCustomer.email
    <3>1. CASE r.heard /\ r.answer = "ok"
      <4>1. customers' = r.rows /\ drawerCustomer' = Customers!NewRow(r.rows)
        BY <1>2, <3>1 DEF Customers!ListArrives
      <4>2. \A i \in DOMAIN r.rows : /\ r.rows[i] \in Customers!Rows
                                     /\ r.rows[i].email \in Customers!Emails
        <5>1. \A i \in DOMAIN r.rows : r.rows[i] \in Customers!Rows
          BY <2>2
        <5> QED
          BY <5>1 DEF Customers!Rows
      <4>3. CASE \E i \in DOMAIN r.rows : r.rows[i].email = drawerCustomer.email
        <5>1. PICK i \in DOMAIN r.rows : /\ r.rows[i].email = drawerCustomer.email
                                         /\ drawerCustomer' = r.rows[i]
          BY <4>1, <4>3 DEF Customers!NewRow
        <5>2. drawerCustomer \in Customers!Rows
          <6>1. drawerCustomer # Customers!NoRow
            BY <4>2, <5>1, CustomersConstants DEF Customers!NoRow
          <6> QED
            BY <1>1, <6>1 DEF Customers!TypeOK
        <5> QED
          BY <2>2, <4>1, <4>2, <5>1, <5>2 DEF Customers!DrawerShowsTheRow, EmailsOnce
      <4>4. CASE ~\E i \in DOMAIN r.rows : r.rows[i].email = drawerCustomer.email
        <5>1. drawerCustomer' = drawerCustomer
          BY <4>1, <4>4 DEF Customers!NewRow
        <5> QED
          BY <1>1, <2>2, <4>1, <4>4, <5>1 DEF Customers!DrawerShowsTheRow, Customers!TypeOK
      <4> QED
        BY <4>3, <4>4
    <3>2. CASE ~(r.heard /\ r.answer = "ok")
      <4>1. UNCHANGED <<customers, drawerCustomer>>
        BY <1>2, <3>2 DEF Customers!ListArrives
      <4> QED
        BY <1>1, <4>1 DEF Customers!DrawerShowsTheRow, Customers!TypeOK
    <3> QED
      BY <3>1, <3>2
  <2>4. CustomersFlight' /\ PasswordsInv' /\ IssuedInv'
    BY <2>1, <2>3, CustomersRest, PasswordsStay
  <2>5. Customers!TypeOK'
    <3>1. flight' \subseteq Customers!Requests
      BY <2>1, CustomersRest DEF CustomersRequest
    <3>2. Customers!Query' \in Customers!Queries
      BY <1>1, <2>1, QueryParts
    <3>3. Customers!IsInjective(customers')
      BY <2>3 DEF EmailsOnce, Customers!IsInjective
    <3> QED
      BY <1>1, <2>1, <2>3, <3>1, <3>2, <3>3 DEF Customers!TypeOK
  <2> QED
    BY <2>3, <2>4, <2>5 DEF CustomersInv, EmailsOnce
\* The others leave the table.
<1>3. ASSUME UNCHANGED <<accounts, customers, drawerCustomer, moves, Customers!history, search,
                        registeredOnly, searchTimer>>,
             currentPage' \in 1..MaxCustomer, busy' \in BOOLEAN,
             issuedPassword' \in 0..CustomerMoves,
             UNCHANGED <<drawerOpen, resetting>>,
             \A o \in flight' : CustomersRequest(o), CustomersFlight', PasswordsInv', IssuedInv'
      PROVE  CustomersInv'
  <2>1. flight' \subseteq Customers!Requests
    BY <1>3 DEF CustomersRequest
  <2>2. Customers!Query' \in Customers!Queries
    BY <1>1, <1>3, QueryParts
  <2>3. Customers!TypeOK'
    BY <1>1, <1>3, <2>1, <2>2 DEF Customers!TypeOK, Customers!history
  <2> QED
    BY <1>1, <1>3, <2>3 DEF CustomersInv, EmailsOnce, Customers!DrawerShowsTheRow
<1>4. CASE Customers!CartsArrive(r)
  <2>1. /\ r.kind = "carts" /\ flight' = Customers!Rest(r)
        /\ UNCHANGED <<accounts, Customers!list, Customers!drawer, moves, Customers!history>>
    BY <1>4 DEF Customers!CartsArrive, Customers!Hears
  <2>2. CustomersFlight' /\ PasswordsInv' /\ IssuedInv' /\ \A o \in flight' : CustomersRequest(o)
    BY <2>1, CustomersRest, PasswordsStay DEF Customers!drawer, Customers!history
  <2> QED
    BY <1>1, <1>3, <2>1, <2>2 DEF Customers!list, Customers!drawer, Customers!TypeOK
<1>5. CASE Customers!ChangeFails(r)
  <2>1. /\ r.answer = "failed" /\ flight' = Customers!Rest(r) /\ busy' \in BOOLEAN
        /\ UNCHANGED <<accounts, Customers!list, drawerOpen, drawerCustomer, resetting,
                       issuedPassword, moves, Customers!history>>
    BY <1>1, <1>5 DEF Customers!ChangeFails, Customers!Frees, Customers!TypeOK
  <2>2. CustomersFlight' /\ PasswordsInv' /\ IssuedInv' /\ \A o \in flight' : CustomersRequest(o)
    BY <2>1, CustomersRest, PasswordsStay DEF Customers!history
  <2> QED
    BY <1>1, <1>3, <2>1, <2>2 DEF Customers!list, Customers!TypeOK
<1>6. CASE Customers!AccountChanged(r)
  <2>1. /\ r.answer = "ok" /\ r.kind \in {"active", "password"} /\ busy' \in BOOLEAN
        /\ issuedPassword' = (IF r.heard /\ r.kind = "password" THEN r.password ELSE issuedPassword)
        /\ UNCHANGED <<customers, search, registeredOnly, searchTimer>>
        /\ Customers!LoadCustomers(currentPage, Customers!Rest(r))
        /\ UNCHANGED <<accounts, drawerOpen, drawerCustomer, resetting, moves, Customers!history>>
    BY <1>1, <1>6
      DEF Customers!AccountChanged, Customers!Hears, Customers!Frees, Customers!TypeOK,
          Customers!Reload
  <2>2. \A o \in Customers!Rest(r) : CustomersRequest(o)
    BY CustomersParts DEF Customers!Rest
  <2>3. /\ Customers!Query' \in Customers!Queries
        /\ PasswordRequests(flight') = PasswordRequests(Customers!Rest(r))
        /\ \A o \in flight' : CustomersRequest(o)
    BY <1>1, <2>1, <2>2, CustomersLoad
  <2>4. issuedPassword' \in 0..CustomerMoves
    BY <1>1, <2>1 DEF Customers!TypeOK, Customers!Requests
  <2>5. CustomersFlight' /\ PasswordsInv' /\ IssuedInv'
    <3>1. CASE r.kind = "active"
      <4>1. PasswordRequests(flight') = PasswordRequests(flight)
        BY <2>3, <3>1 DEF PasswordRequests, Customers!Rest
      <4>2. /\ PasswordRequests(flight') \subseteq PasswordRequests(flight)
            /\ \A o \in PasswordRequests(flight) : o.answer = "ok" => o \in flight'
        BY <4>1 DEF PasswordRequests
      <4> QED
        BY <2>1, <2>3, <3>1, <4>2, PasswordsStay DEF Customers!history
    <3>2. CASE r.kind = "password"
      <4>1. \A o \in flight' : o.kind = "password" => o \in flight /\ o # r
        BY <2>3 DEF PasswordRequests, Customers!Rest
      <4>2. CustomersFlight'
        <5>1. \A o \in flight' : PasswordHeard(o)'
          BY <2>1, <4>1 DEF CustomersInv, CustomersFlight, PasswordHeard
        <5> QED
          BY <2>3, <5>1 DEF CustomersFlight, CustomersRequest
      <4>3. ~overlapped => \A o \in flight' : o.kind # "password"
        BY <3>2, <4>1 DEF CustomersInv, PasswordsInv
      <4>4. PasswordsInv'
        BY <2>1, <4>3 DEF PasswordsInv, Customers!history
      <4>5. IssuedInv'
        <5>1. CASE r.heard
          <6>1. drawerOpen /\ r.of = drawerCustomer.email
            BY <1>1, <3>2, <5>1 DEF PasswordHeard
          <6>2. ~overlapped => accounts[r.of].password = r.password
            BY <2>1, <3>2 DEF CustomersInv, PasswordsInv
          <6> QED
            BY <2>1, <3>2, <5>1, <6>1, <6>2 DEF IssuedInv, Customers!history
        <5>2. CASE ~r.heard
          <6>1. issuedPassword' = issuedPassword
            BY <2>1, <5>2
          <6>2. overlapped \/ issuedPassword = 0
            BY <3>2, <5>2 DEF CustomersInv, PasswordsInv
          <6>3. issuedPassword # 0 => drawerOpen
            BY DEF CustomersInv, IssuedInv
          <6> QED
            BY <2>1, <6>1, <6>2, <6>3 DEF IssuedInv, Customers!history
        <5> QED
          BY <5>1, <5>2
      <4> QED
        BY <4>2, <4>4, <4>5
    <3> QED
      BY <2>1, <3>1, <3>2
  <2>6. currentPage' = currentPage
    BY <2>1 DEF Customers!LoadCustomers
  <2> QED
    BY <1>1, <1>3, <2>1, <2>3, <2>4, <2>5, <2>6
<1>7. CASE Customers!AccountDeleted(r)
  <2> DEFINE new == Customers!Request("list", None)
             f == Customers!Outdated(Customers!Rest(r)) \cup {new}
  <2>1. /\ r.kind = "delete" /\ UNCHANGED <<accounts, Customers!list, moves, Customers!history>>
        /\ Customers!CloseDrawer(f)
    BY <1>7 DEF Customers!AccountDeleted, Customers!Hears
  <2>2. new \in Customers!Requests /\ new.kind = "list" /\ new.rows = <<>>
    <3>1. /\ "list" \in {"list", "carts"} \cup Customers!Changes
          /\ None \in Customers!Emails \cup {None}
      OBVIOUS
    <3> QED
      BY <1>1, <3>1, CustomersAsk DEF Customers!TypeOK
  <2> HIDE DEF new
  <2>3. CustomersRequest(new)
    BY <2>2, NoCustomersListed DEF CustomersRequest, Customers!Changes
  <2>4. /\ \A o \in Customers!Outdated(Customers!Rest(r)) : CustomersRequest(o)
        /\ PasswordRequests(Customers!Outdated(Customers!Rest(r)))
             = PasswordRequests(Customers!Rest(r))
    BY <2>1, CustomersRest, OutdatedKeeps
  <2>5. /\ \A o \in f : CustomersRequest(o)
        /\ PasswordRequests(f) = PasswordRequests(Customers!Rest(r))
    BY <2>2, <2>3, <2>4 DEF PasswordRequests
  <2>6. PasswordRequests(Customers!Rest(r)) = PasswordRequests(flight)
    BY <2>1 DEF PasswordRequests, Customers!Rest
  <2> HIDE DEF f
  <2>7. CASE drawerOpen
    <3>1. /\ drawerOpen' = FALSE /\ resetting' = TRUE /\ Customers!DropComponent
          /\ flight' = Customers!Left(f)
          /\ UNCHANGED drawerCustomer
      BY <2>1, <2>7 DEF Customers!CloseDrawer
    <3> QED
      BY <2>1, <2>5, <2>6, <3>1, CustomersLeave
  <2>8. CASE ~drawerOpen
    <3>1. flight' = f /\ UNCHANGED Customers!drawer
      BY <2>1, <2>8 DEF Customers!CloseDrawer
    <3>2. /\ PasswordRequests(flight') \subseteq PasswordRequests(flight)
          /\ \A o \in PasswordRequests(flight) : o.answer = "ok" => o \in flight'
      BY <2>5, <2>6, <3>1 DEF PasswordRequests
    <3>3. CustomersFlight' /\ PasswordsInv' /\ IssuedInv' /\ \A o \in flight' : CustomersRequest(o)
      BY <2>1, <2>5, <3>1, <3>2, PasswordsStay DEF Customers!drawer, Customers!history
    <3> QED
      BY <1>1, <1>3, <2>1, <3>1, <3>3 DEF Customers!list, Customers!drawer, Customers!TypeOK
  <2> QED
    BY <2>7, <2>8
<1> QED
  BY <1>2, <1>4, <1>5, <1>6, <1>7 DEF Customers!Arrive

LEMMA CustomersStep == CustomersInv /\ [Customers!Next]_(Customers!vars) => CustomersInv'
<1> SUFFICES ASSUME CustomersInv, [Customers!Next]_(Customers!vars) PROVE CustomersInv'
  OBVIOUS
<1>1. ASSUME UNCHANGED Customers!vars PROVE CustomersInv'
  <2>1. CustomersFlight' /\ PasswordsInv' /\ IssuedInv'
    BY <1>1, CustomersParts, PasswordsStay
      DEF Customers!vars, Customers!list, Customers!drawer, Customers!history, PasswordRequests
  <2>2. Customers!Query' \in Customers!Queries
    BY <1>1, CustomersParts, QueryParts DEF Customers!vars, Customers!list
  <2>3. Customers!TypeOK'
    BY <1>1, <2>2
      DEF CustomersInv, Customers!TypeOK, Customers!vars, Customers!list, Customers!drawer,
          Customers!history
  <2> QED
    BY <1>1, <2>1, <2>3
      DEF CustomersInv, EmailsOnce, Customers!DrawerShowsTheRow, Customers!vars, Customers!list,
          Customers!drawer
<1>2. /\ search \in Customers!Emails \cup {None} /\ registeredOnly \in BOOLEAN
      /\ currentPage \in 1..MaxCustomer
      /\ 1 \in 1..MaxCustomer
  BY CustomersParts, CustomersConstants
<1>3. ASSUME NEW s \in Customers!Emails \cup {None}, Customers!OnSearchInput(s) PROVE CustomersInv'
  <2>1. search' = s /\ UNCHANGED <<registeredOnly, currentPage>>
    BY <1>3 DEF Customers!OnSearchInput
  <2> QED
    BY <1>2, <1>3, <2>1, CustomersAsks
<1>4. CASE Customers!SearchTimer
  <2>1. currentPage' = 1 /\ UNCHANGED <<search, registeredOnly>>
    BY <1>4 DEF Customers!SearchTimer, Customers!LoadCustomers
  <2> QED
    BY <1>2, <1>4, <2>1, CustomersAsks
<1>5. ASSUME NEW b \in BOOLEAN, Customers!SetRegisteredOnly(b) PROVE CustomersInv'
  <2>1. currentPage' = 1 /\ registeredOnly' = b /\ UNCHANGED search
    BY <1>5 DEF Customers!SetRegisteredOnly, Customers!LoadCustomers
  <2> QED
    BY <1>2, <1>5, <2>1, CustomersAsks
<1>6. ASSUME NEW n \in 1..MaxCustomer, Customers!GoToPage(n) PROVE CustomersInv'
  <2>1. currentPage' = n /\ UNCHANGED <<search, registeredOnly>>
    BY <1>6 DEF Customers!GoToPage, Customers!LoadCustomers
  <2> QED
    BY <1>2, <1>6, <2>1, CustomersAsks
<1>7. \A r \in flight : CustomersRequest(r)
  BY CustomersParts
<1>8. CASE Customers!Close
  <2>1. /\ drawerOpen' = FALSE /\ resetting' = TRUE /\ Customers!DropComponent
        /\ flight' = Customers!Left(flight)
        /\ UNCHANGED <<drawerCustomer, accounts, Customers!list, moves, Customers!history>>
    BY <1>8 DEF Customers!Close, Customers!CloseDrawer
  <2> QED
    BY <1>7, <2>1, CustomersLeave
<1>9. CASE Customers!Reset
  <2>1. /\ resetting' = FALSE /\ drawerCustomer' = Customers!NoRow /\ Customers!DropComponent
        /\ flight' = Customers!Left(flight)
        /\ drawerOpen' \in BOOLEAN
        /\ UNCHANGED <<accounts, Customers!list, moves, Customers!history>>
    BY <1>9 DEF Customers!Reset, CustomersInv, Customers!TypeOK
  <2> QED
    BY <1>7, <2>1, CustomersLeave
<1> QED
  BY <1>1, <1>3, <1>4, <1>5, <1>6, <1>8, <1>9, CustomersOpens, CustomersChange, CustomersServes,
     CustomersArrives
    DEF Customers!Next, Customers!Operator, Customers!Network

LEMMA CustomersKeep ==
  CustomersInv => /\ Customers!TypeOK
                  /\ Customers!DrawerShowsTheRow
                  /\ Customers!IssuedPasswordWorks
<1> SUFFICES ASSUME CustomersInv PROVE Customers!IssuedPasswordWorks
  BY DEF CustomersInv
<1>1. drawerCustomer # Customers!NoRow => drawerCustomer \in Customers!Rows
  BY DEF CustomersInv, Customers!TypeOK
<1> QED
  BY <1>1 DEF CustomersInv, IssuedInv, Customers!IssuedPasswordWorks

-----------------------------------------------------------------------------
(* The workflows page.                                                     *)

LEMMA WorkflowTables ==
  /\ <<>> \in Workflows!Tables /\ Workflows!New \in Workflows!Workflow
  /\ <<Workflows!New>> \in Workflows!Tables
  /\ \A t \in Workflows!Tables : /\ DOMAIN t \subseteq Workflows!Ids
                                 /\ \A i \in DOMAIN t : t[i] \in Workflows!Workflow
  /\ \A t \in Workflows!Tables, i \in Workflows!Ids, w \in Workflows!Workflow :
       Workflows!With(t, i, w) \in Workflows!Tables
  /\ \A t \in Workflows!Tables, i \in Workflows!Ids :
       Workflows!Without(t, i) \in Workflows!Tables
<1>1. <<>> \in Workflows!Tables
  <2>1. <<>> \in [{} -> Workflows!Workflow]
    OBVIOUS
  <2> QED
    BY <2>1 DEF Workflows!Tables
<1>2. Workflows!New \in Workflows!Workflow
  BY DEF Workflows!New, Workflows!Workflow
<1>3. ASSUME NEW t \in Workflows!Tables
      PROVE  DOMAIN t \subseteq Workflows!Ids /\ t \in [DOMAIN t -> Workflows!Workflow]
  BY DEF Workflows!Tables
<1>4. ASSUME NEW S \in SUBSET Workflows!Ids, NEW t \in [S -> Workflows!Workflow]
      PROVE  t \in Workflows!Tables
  BY DEF Workflows!Tables
<1>5. ASSUME NEW t \in Workflows!Tables, NEW i \in Workflows!Ids, NEW w \in Workflows!Workflow
      PROVE  Workflows!With(t, i, w) \in Workflows!Tables
  <2>1. /\ DOMAIN t \cup {i} \in SUBSET Workflows!Ids
        /\ Workflows!With(t, i, w) \in [DOMAIN t \cup {i} -> Workflows!Workflow]
    BY <1>3 DEF Workflows!With
  <2> QED
    BY <2>1, <1>4
<1>6. ASSUME NEW t \in Workflows!Tables, NEW i \in Workflows!Ids
      PROVE  Workflows!Without(t, i) \in Workflows!Tables
  <2>1. /\ DOMAIN t \ {i} \in SUBSET Workflows!Ids
        /\ Workflows!Without(t, i) \in [DOMAIN t \ {i} -> Workflows!Workflow]
    BY <1>3 DEF Workflows!Without
  <2> QED
    BY <2>1, <1>4
<1>7. ASSUME NEW t \in Workflows!Tables
      PROVE  DOMAIN t \subseteq Workflows!Ids /\ \A i \in DOMAIN t : t[i] \in Workflows!Workflow
  BY <1>3
<1>8. <<Workflows!New>> \in Workflows!Tables
  <2>1. 1..1 \in SUBSET Workflows!Ids
    BY PanelAssumption DEF Workflows!Ids, Workflows!ConstantsTyped
  <2>2. <<Workflows!New>> \in [1..1 -> Workflows!Workflow]
    BY <1>2
  <2> QED
    BY <1>4, <2>1, <2>2
<1> QED
  BY <1>1, <1>2, <1>5, <1>6, <1>7, <1>8

LEMMA WorkflowAsks ==
  ASSUME NEW k \in {"load", "save", "delete"}, NEW i \in Workflows!Ids \cup {0},
         NEW b \in Workflows!Workflow,
         NEW m \in Workflows!Ids \cup {0}, NEW c \in BOOLEAN
  PROVE  /\ Workflows!Ask(k, i, b, m, c) \in Workflows!Requests
         /\ Workflows!Ask(k, i, b, m, c).kind = k /\ Workflows!Ask(k, i, b, m, c).id = i
         /\ Workflows!Ask(k, i, b, m, c).meant = m
  BY WorkflowTables DEF Workflows!Ask, Workflows!Requests

LEMMA WorkflowLoads ==
  \A c \in BOOLEAN : /\ Workflows!Load(c) \in Workflows!Requests
                     /\ Workflows!Load(c).kind = "load"
<1> SUFFICES ASSUME NEW c \in BOOLEAN
             PROVE  Workflows!Load(c) \in Workflows!Requests /\ Workflows!Load(c).kind = "load"
  OBVIOUS
<1>1. /\ "load" \in {"load", "save", "delete"} /\ 0 \in Workflows!Ids \cup {0}
      /\ Workflows!New \in Workflows!Workflow
  BY WorkflowTables
<1> QED
  BY <1>1, WorkflowAsks DEF Workflows!Load

\* Unless the operator hurries, the drawer is on the workflow it was opened for, and
\* what is sent from it is about that one.
WorkflowsMeant ==
  patient => /\ closing => ~open
             /\ open /\ mode = "edit" => current = meant
             /\ open /\ mode = "add" => meant = 0
WorkflowsInv == Workflows!TypeOK /\ WorkflowsMeant /\ Workflows!SavedToItsOwnWorkflow

LEMMA WorkflowsInit == Workflows!Init => WorkflowsInv
<1> SUFFICES ASSUME Workflows!Init PROVE WorkflowsInv
  OBVIOUS
<1>1. flight = <<Workflows!Load(FALSE)>>
  BY DEF Workflows!Init
<1>2. /\ flight \in Seq(Workflows!Requests) /\ Len(flight) = 1 /\ flight[1].kind = "load"
      /\ DOMAIN flight = 1..1
  BY <1>1, WorkflowLoads, OneOf
<1>3. Workflows!TypeOK
  <2>1. stored \in Workflows!Tables /\ workflows \in Workflows!Tables /\ form \in Workflows!Workflow
    BY WorkflowTables DEF Workflows!Init
  <2>2. nextId \in 2..MaxId + 1 /\ Len(flight) <= MaxFlight + 1 /\ moves \in 0..WorkflowMoves
    BY <1>2, PanelAssumption DEF Workflows!Init, Workflows!ConstantsTyped
  <2> QED
    BY <1>2, <2>1, <2>2 DEF Workflows!Init, Workflows!TypeOK
<1> QED
  <2>1. WorkflowsMeant
    BY DEF Workflows!Init, WorkflowsMeant
  <2>2. Workflows!SavedToItsOwnWorkflow
    <3>1. \A i \in DOMAIN flight : i = 1
      BY <1>2
    <3> QED
      BY <1>2, <3>1 DEF Workflows!SavedToItsOwnWorkflow
  <2> QED
    BY <1>3, <2>1, <2>2 DEF WorkflowsInv

\* What a request is about does not change on its way.
WorkflowsTold(f) == \A j \in DOMAIN f : patient /\ f[j].kind # "load" => f[j].id = f[j].meant

LEMMA WorkflowsSend ==
  ASSUME Workflows!TypeOK, WorkflowsTold(flight), NEW r \in Workflows!Requests, Workflows!Send(r),
         patient /\ r.kind # "load" => r.id = r.meant
  PROVE  /\ flight' \in Seq(Workflows!Requests) /\ Len(flight') <= MaxFlight + 1
         /\ WorkflowsTold(flight')
<1>1. flight \in Seq(Workflows!Requests) /\ flight' = Append(flight, r) /\ Len(flight) < MaxFlight
  BY DEF Workflows!TypeOK, Workflows!Send
<1>2. /\ Append(flight, r) \in Seq(Workflows!Requests) /\ Len(Append(flight, r)) = Len(flight) + 1
      /\ \A j \in DOMAIN Append(flight, r) :
           Append(flight, r)[j] = r \/ \E k \in DOMAIN flight : Append(flight, r)[j] = flight[k]
  BY <1>1, AddedTo
<1>3. Len(flight) \in Nat
  BY <1>1
<1> QED
  BY <1>1, <1>2, <1>3, PanelAssumption DEF WorkflowsTold, Workflows!ConstantsTyped

LEMMA WorkflowsServed ==
  ASSUME Workflows!TypeOK, WorkflowsTold(flight), NEW i \in DOMAIN flight, NEW b \in BOOLEAN,
         NEW t \in Workflows!Tables,
         flight' = [flight EXCEPT ![i].done = TRUE, ![i].ok = b, ![i].rows = t]
  PROVE  /\ flight' \in Seq(Workflows!Requests) /\ Len(flight') <= MaxFlight + 1
         /\ WorkflowsTold(flight')
<1> DEFINE x == [flight[i] EXCEPT !.done = TRUE, !.ok = b, !.rows = t]
<1>1. /\ flight \in Seq(Workflows!Requests) /\ flight[i] \in Workflows!Requests
      /\ Len(flight) <= MaxFlight + 1
  BY DEF Workflows!TypeOK
<1>2. /\ x \in Workflows!Requests /\ x.kind = flight[i].kind /\ x.id = flight[i].id
      /\ x.meant = flight[i].meant
  BY <1>1 DEF Workflows!Requests
<1>3. flight' = [flight EXCEPT ![i] = x]
  BY <1>1
<1> HIDE DEF x
<1>4. /\ flight' \in Seq(Workflows!Requests) /\ Len(flight') = Len(flight)
      /\ DOMAIN flight' = DOMAIN flight
      /\ flight'[i] = x /\ \A j \in DOMAIN flight \ {i} : flight'[j] = flight[j]
  <2>1. /\ [flight EXCEPT ![i] = x] \in Seq(Workflows!Requests)
        /\ Len([flight EXCEPT ![i] = x]) = Len(flight)
        /\ DOMAIN [flight EXCEPT ![i] = x] = DOMAIN flight /\ [flight EXCEPT ![i] = x][i] = x
        /\ \A j \in DOMAIN flight \ {i} : [flight EXCEPT ![i] = x][j] = flight[j]
    BY <1>1, <1>2, ChangedAt
  <2> QED
    BY <1>3, <2>1
<1> QED
  BY <1>1, <1>2, <1>4 DEF WorkflowsTold

LEMMA WorkflowsDrawer ==
  ASSUME WorkflowsInv,
         \/ \E i \in DOMAIN workflows : Workflows!OpenView(i) \/ Workflows!OpenEdit(i)
         \/ Workflows!OpenAdd \/ Workflows!EditForm \/ Workflows!CloseDrawer
         \/ Workflows!ResetDrawer
  PROVE  WorkflowsInv'
<1> USE DEF WorkflowsInv, Workflows!TypeOK, WorkflowsMeant, Workflows!Clicks, Workflows!server
<1>1. WorkflowMoves \in Nat
  BY PanelAssumption DEF Workflows!ConstantsTyped
<1>2. \A i \in DOMAIN workflows : i \in Workflows!Ids /\ workflows[i] \in Workflows!Workflow
  BY WorkflowTables
<1>3. flight' = flight /\ patient' = patient
  BY DEF Workflows!OpenView, Workflows!OpenAdd, Workflows!OpenEdit, Workflows!EditForm,
         Workflows!CloseDrawer, Workflows!ResetDrawer, Workflows!Opened
<1>4. Workflows!SavedToItsOwnWorkflow'
  BY <1>3 DEF Workflows!SavedToItsOwnWorkflow
<1>5. ASSUME NEW m \in {"view", "add", "edit"}, NEW i \in Workflows!Ids \cup {0},
             NEW f \in Workflows!Workflow,
             Workflows!Opened(m, i, f), Workflows!Clicks, m = "add" => i = 0
      PROVE  WorkflowsInv'
  BY <1>1, <1>4, <1>5 DEF Workflows!Opened
<1>6. ASSUME NEW i \in DOMAIN workflows, Workflows!OpenView(i) PROVE WorkflowsInv'
  BY <1>2, <1>5, <1>6 DEF Workflows!OpenView
<1>7. ASSUME NEW i \in DOMAIN workflows, Workflows!OpenEdit(i) PROVE WorkflowsInv'
  BY <1>2, <1>5, <1>7 DEF Workflows!OpenEdit
<1>8. CASE Workflows!OpenAdd
  BY <1>5, <1>8, WorkflowTables DEF Workflows!OpenAdd
<1>9. CASE Workflows!EditForm
  BY <1>1, <1>4, <1>9 DEF Workflows!EditForm
<1>10. CASE Workflows!CloseDrawer
  <2>1. /\ open' = FALSE /\ closing' = TRUE /\ moves' \in 0..WorkflowMoves
        /\ UNCHANGED <<Workflows!server, workflows, loading, mode, current, form, meant,
                       flight, heard, patient>>
    BY <1>1, <1>10 DEF Workflows!CloseDrawer, Workflows!Close
  <2> QED
    BY <1>4, <2>1
<1>11. CASE Workflows!ResetDrawer
  BY <1>4, <1>11 DEF Workflows!ResetDrawer
<1> QED
  BY <1>6, <1>7, <1>8, <1>9, <1>10, <1>11

LEMMA WorkflowsRequest ==
  ASSUME WorkflowsInv,
         \/ \E yes \in BOOLEAN : Workflows!HandleSubmit(yes) \/ Workflows!DeleteFromFooter(yes)
         \/ \E i \in DOMAIN workflows : Workflows!ToggleEnabled(i)
  PROVE  WorkflowsInv'
<1> USE DEF WorkflowsInv
<1>1. WorkflowMoves \in Nat
  BY PanelAssumption DEF Workflows!ConstantsTyped
<1>2. ASSUME NEW r \in Workflows!Requests, Workflows!Send(r), Workflows!Clicks,
             UNCHANGED <<Workflows!server, workflows, loading, Workflows!drawer, heard, patient>>,
             patient /\ r.kind # "load" => r.id = r.meant
      PROVE  WorkflowsInv'
  <2>1. /\ flight' \in Seq(Workflows!Requests) /\ Len(flight') <= MaxFlight + 1
        /\ WorkflowsTold(flight')
    BY <1>2, WorkflowsSend DEF WorkflowsTold, Workflows!SavedToItsOwnWorkflow
  <2>2. Workflows!TypeOK'
    BY <1>1, <1>2, <2>1
      DEF Workflows!TypeOK, Workflows!Clicks, Workflows!server, Workflows!drawer
  <2>3. WorkflowsMeant'
    BY <1>2 DEF WorkflowsMeant, Workflows!drawer
  <2>4. Workflows!SavedToItsOwnWorkflow'
    BY <1>2, <2>1 DEF WorkflowsTold, Workflows!SavedToItsOwnWorkflow
  <2> QED
    BY <2>2, <2>3, <2>4
<1>3. ASSUME NEW yes \in BOOLEAN, Workflows!HandleSubmit(yes) PROVE WorkflowsInv'
  <2> DEFINE k == IF mode = "edit" THEN current ELSE 0
             r == Workflows!Ask("save", k, form, meant, TRUE)
  <2>1. /\ k \in Workflows!Ids \cup {0} /\ form \in Workflows!Workflow
        /\ meant \in Workflows!Ids \cup {0}
        /\ "save" \in {"load", "save", "delete"}
    BY DEF Workflows!TypeOK
  <2> HIDE DEF k
  <2>2. r \in Workflows!Requests /\ r.id = k /\ r.meant = meant
    BY <2>1, WorkflowTables DEF Workflows!Ask, Workflows!Requests
  <2>3. patient => k = meant
    BY <1>3 DEF Workflows!HandleSubmit, WorkflowsMeant, Workflows!TypeOK, k
  <2>4. /\ Workflows!Send(r) /\ Workflows!Clicks
        /\ UNCHANGED <<Workflows!server, workflows, loading, Workflows!drawer, heard, patient>>
    BY <1>3 DEF Workflows!HandleSubmit, k
  <2> HIDE DEF r
  <2> QED
    BY <1>2, <2>2, <2>3, <2>4
<1>4. ASSUME NEW yes \in BOOLEAN, Workflows!DeleteFromFooter(yes) PROVE WorkflowsInv'
  <2> DEFINE r == Workflows!Ask("delete", current, form, meant, TRUE)
  <2>1. /\ current \in Workflows!Ids \cup {0} /\ form \in Workflows!Workflow
        /\ meant \in Workflows!Ids \cup {0}
        /\ "delete" \in {"load", "save", "delete"}
    BY DEF Workflows!TypeOK
  <2>2. r \in Workflows!Requests /\ r.id = current /\ r.meant = meant
    BY <2>1, WorkflowTables DEF Workflows!Ask, Workflows!Requests
  <2>3. patient => current = meant
    BY <1>4 DEF Workflows!DeleteFromFooter, WorkflowsMeant
  <2>4. /\ Workflows!Send(r) /\ Workflows!Clicks
        /\ UNCHANGED <<Workflows!server, workflows, loading, Workflows!drawer, heard, patient>>
    BY <1>4 DEF Workflows!DeleteFromFooter
  <2> HIDE DEF r
  <2> QED
    BY <1>2, <2>2, <2>3, <2>4
<1>5. ASSUME NEW i \in DOMAIN workflows, Workflows!ToggleEnabled(i) PROVE WorkflowsInv'
  <2> DEFINE w == [workflows[i] EXCEPT !.enabled = ~@]
             r == Workflows!Ask("save", i, w, i, FALSE)
  <2>1. /\ i \in Workflows!Ids /\ workflows[i] \in Workflows!Workflow
        /\ "save" \in {"load", "save", "delete"}
    BY WorkflowTables DEF Workflows!TypeOK
  <2>2. w \in Workflows!Workflow
    BY <2>1 DEF Workflows!Workflow
  <2> HIDE DEF w
  <2>3. r \in Workflows!Requests /\ r.id = i /\ r.meant = i
    BY <2>1, <2>2, WorkflowTables DEF Workflows!Ask, Workflows!Requests
  <2>4. /\ Workflows!Send(r) /\ Workflows!Clicks
        /\ UNCHANGED <<Workflows!server, workflows, loading, Workflows!drawer, heard, patient>>
    BY <1>5 DEF Workflows!ToggleEnabled, w
  <2> HIDE DEF r
  <2> QED
    BY <1>2, <2>3, <2>4
<1> QED
  BY <1>3, <1>4, <1>5

LEMMA WorkflowsServer ==
  ASSUME WorkflowsInv, NEW i \in DOMAIN flight,
         \/ Workflows!ListWorkflows(i) \/ Workflows!CreateWorkflow(i)
         \/ Workflows!UpdateWorkflow(i) \/ Workflows!DeleteWorkflow(i)
         \/ Workflows!Refuse(i)
  PROVE  WorkflowsInv'
<1> USE DEF WorkflowsInv
<1>0. flight[i] \in Workflows!Requests /\ WorkflowsTold(flight)
  BY DEF Workflows!TypeOK, WorkflowsTold, Workflows!SavedToItsOwnWorkflow
<1>1. /\ flight[i] \in Workflows!Requests /\ WorkflowsTold(flight)
      /\ flight[i].body \in Workflows!Workflow /\ flight[i].rows \in Workflows!Tables
  BY <1>0 DEF Workflows!Requests
<1>2. ASSUME stored' \in Workflows!Tables, nextId' \in 2..MaxId + 1, NEW b \in BOOLEAN,
             NEW t \in Workflows!Tables,
             flight' = [flight EXCEPT ![i].done = TRUE, ![i].ok = b, ![i].rows = t],
             UNCHANGED <<workflows, loading, Workflows!drawer, heard, patient, moves>>
      PROVE  WorkflowsInv'
  <2>1. /\ flight' \in Seq(Workflows!Requests) /\ Len(flight') <= MaxFlight + 1
        /\ WorkflowsTold(flight')
    BY <1>1, <1>2, WorkflowsServed
  <2>2. Workflows!TypeOK'
    BY <1>2, <2>1 DEF Workflows!TypeOK, Workflows!drawer
  <2>3. WorkflowsMeant'
    BY <1>2 DEF WorkflowsMeant, Workflows!drawer
  <2>4. Workflows!SavedToItsOwnWorkflow'
    BY <1>2, <2>1 DEF WorkflowsTold, Workflows!SavedToItsOwnWorkflow
  <2> QED
    BY <2>2, <2>3, <2>4
<1>3. CASE Workflows!ListWorkflows(i)
  BY <1>2, <1>3
    DEF Workflows!ListWorkflows, Workflows!Served, Workflows!server, Workflows!TypeOK
<1>4. CASE Workflows!CreateWorkflow(i)
  <2>1. nextId \in Workflows!Ids /\ nextId + 1 \in 2..MaxId + 1
    BY <1>4, PanelAssumption, SMTT(30)
      DEF Workflows!CreateWorkflow, Workflows!TypeOK, Workflows!Ids, Workflows!ConstantsTyped
  <2>2. Workflows!With(stored, nextId, flight[i].body) \in Workflows!Tables
    BY <1>1, <2>1, WorkflowTables DEF Workflows!TypeOK
  <2> QED
    BY <1>2, <1>4, <2>1, <2>2, WorkflowTables DEF Workflows!CreateWorkflow, Workflows!Served
<1>5. CASE Workflows!UpdateWorkflow(i)
  <2>1. flight[i].id \in Workflows!Ids
    BY <1>5, WorkflowTables DEF Workflows!UpdateWorkflow, Workflows!TypeOK
  <2>2. Workflows!With(stored, flight[i].id, flight[i].body) \in Workflows!Tables
    BY <1>1, <2>1, WorkflowTables DEF Workflows!TypeOK
  <2> QED
    BY <1>2, <1>5, <2>2, WorkflowTables
      DEF Workflows!UpdateWorkflow, Workflows!Served, Workflows!TypeOK
<1>6. CASE Workflows!DeleteWorkflow(i)
  <2>1. flight[i].id \in Workflows!Ids
    BY <1>6, WorkflowTables DEF Workflows!DeleteWorkflow, Workflows!TypeOK
  <2>2. Workflows!Without(stored, flight[i].id) \in Workflows!Tables
    BY <2>1, WorkflowTables DEF Workflows!TypeOK
  <2> QED
    BY <1>2, <1>6, <2>2, WorkflowTables
      DEF Workflows!DeleteWorkflow, Workflows!Served, Workflows!TypeOK
<1>7. CASE Workflows!Refuse(i)
  <2>1. flight' = [flight EXCEPT ![i].done = TRUE, ![i].ok = flight[i].ok,
                                 ![i].rows = flight[i].rows]
    BY <1>1, <1>7 DEF Workflows!Refuse, Workflows!Requests, Workflows!TypeOK
  <2>2. flight[i].ok \in BOOLEAN
    BY <1>1 DEF Workflows!Requests
  <2> QED
    BY <1>1, <1>2, <1>7, <2>1, <2>2 DEF Workflows!Refuse, Workflows!server, Workflows!TypeOK
<1> QED
  BY <1>3, <1>4, <1>5, <1>6, <1>7

LEMMA WorkflowsHears ==
  ASSUME WorkflowsInv, NEW i \in DOMAIN flight, NEW got \in BOOLEAN, Workflows!HandleAnswer(i, got)
  PROVE  WorkflowsInv'
<1> USE DEF WorkflowsInv
<1> DEFINE r == flight[i]
           ok == got /\ r.ok
           rest == Cut(flight, i)
<1>1. /\ flight \in Seq(Workflows!Requests) /\ r \in Workflows!Requests /\ Len(flight) \in Nat
      /\ Len(flight) <= MaxFlight + 1 /\ MaxFlight \in Nat
  BY PanelAssumption DEF Workflows!TypeOK, Workflows!ConstantsTyped
<1>2. /\ rest \in Seq(Workflows!Requests) /\ Len(rest) = Len(flight) - 1
      /\ \A j \in DOMAIN rest : \E k \in DOMAIN flight : rest[j] = flight[k]
  BY <1>1, CutFrom, CutKeeps
<1>3. r.closes \in BOOLEAN /\ r.rows \in Workflows!Tables /\ r.ok \in BOOLEAN
  BY <1>1 DEF Workflows!Requests
<1>4. Workflows!RemoveAt(flight, i) = rest
  BY DEF Workflows!RemoveAt, Cut
<1> HIDE DEF r, rest
<1>5. \/ flight' = rest
      \/ flight' = rest \o <<Workflows!Load(r.closes)>>
      \/ flight' = rest \o <<>>
  BY <1>4 DEF Workflows!HandleAnswer, Workflows!Afterwards, Workflows!Reread, r
<1>6. flight' \in Seq(Workflows!Requests) /\ Len(flight') <= MaxFlight + 1 /\ WorkflowsTold(flight')
  <2>1. WorkflowsTold(rest)
    BY <1>2 DEF WorkflowsTold, Workflows!SavedToItsOwnWorkflow
  <2>2. CASE flight' = rest \/ flight' = rest \o <<>>
    <3>1. flight' = rest
      BY <1>2, <2>2
    <3> QED
      BY <1>1, <1>2, <2>1, <3>1
  <2>3. CASE flight' = rest \o <<Workflows!Load(r.closes)>>
    <3> DEFINE one == <<Workflows!Load(r.closes)>>
    <3>1. /\ one \in Seq(Workflows!Requests) /\ Len(one) = 1
          /\ \A k \in DOMAIN one : one[k].kind = "load"
      BY <1>3, WorkflowLoads, OneOf
    <3> HIDE DEF one
    <3>2. /\ rest \o one \in Seq(Workflows!Requests) /\ Len(rest \o one) = Len(rest) + Len(one)
          /\ \A j \in DOMAIN (rest \o one) : \/ \E k \in DOMAIN rest : (rest \o one)[j] = rest[k]
                                             \/ \E k \in DOMAIN one : (rest \o one)[j] = one[k]
      <4>1. rest \in Seq(Workflows!Requests) /\ one \in Seq(Workflows!Requests)
        BY <1>2, <3>1
      <4> QED
        BY <4>1, JoinedTo
    <3>3. flight' = rest \o one
      BY <2>3 DEF one
    <3>4. WorkflowsTold(rest \o one)
      BY <2>1, <3>1, <3>2 DEF WorkflowsTold
    <3> QED
      BY <1>1, <1>2, <3>1, <3>2, <3>3, <3>4
  <2> QED
    BY <1>5, <2>2, <2>3
<1>7. /\ workflows' \in Workflows!Tables /\ loading' \in BOOLEAN /\ open' \in BOOLEAN
      /\ closing' \in BOOLEAN /\ heard' \in BOOLEAN
  BY <1>3 DEF Workflows!HandleAnswer, Workflows!Close, Workflows!TypeOK, r
<1>8. UNCHANGED <<Workflows!server, mode, current, form, meant, patient, moves>>
  BY DEF Workflows!HandleAnswer
<1>9. Workflows!TypeOK'
  BY <1>6, <1>7, <1>8 DEF Workflows!TypeOK, Workflows!server
<1>10. WorkflowsMeant'
  BY <1>8 DEF Workflows!HandleAnswer, Workflows!Close, WorkflowsMeant
<1>11. Workflows!SavedToItsOwnWorkflow'
  BY <1>6, <1>8 DEF WorkflowsTold, Workflows!SavedToItsOwnWorkflow
<1> QED
  BY <1>9, <1>10, <1>11

LEMMA WorkflowsStep == WorkflowsInv /\ [Workflows!Next]_(Workflows!vars) => WorkflowsInv'
<1>1. ASSUME WorkflowsInv, UNCHANGED Workflows!vars PROVE WorkflowsInv'
  BY <1>1
    DEF WorkflowsInv, Workflows!vars, Workflows!server, Workflows!drawer, Workflows!TypeOK,
        WorkflowsMeant, Workflows!SavedToItsOwnWorkflow
<1> QED
  BY <1>1, WorkflowsDrawer, WorkflowsRequest, WorkflowsServer, WorkflowsHears DEF Workflows!Next

-----------------------------------------------------------------------------
(* The crontab page.                                                       *)

\* The crontab gains a line by a move of somebody, and what was read of it is no longer.
CrontabRead(f) == \A j \in DOMAIN f : f[j].read.others <= moves
CrontabInv == Crontab!TypeOK /\ tab.others <= moves /\ CrontabRead(flight)

LEMMA CrontabJobs ==
  /\ Crontab!AJob \in Crontab!Jobs /\ Crontab!Seeded \in Crontab!Settings
  /\ \A js \in Crontab!Settings : Crontab!Enabled(js) \in SUBSET Crontab!Jobs
<1>1. Crontab!Jobs = {"xmpp_check", "cleanup_inactive"}
  BY DEF Crontab!Jobs, Crontab!IdLength
<1>2. Crontab!AJob \in Crontab!Jobs
  BY <1>1 DEF Crontab!AJob
<1>3. Crontab!Seeded \in Crontab!Settings
  BY DEF Crontab!Seeded, Crontab!Settings, Crontab!Intervals
<1> QED
  BY <1>2, <1>3 DEF Crontab!Enabled

LEMMA CrontabAsks ==
  ASSUME tab \in Crontab!Tabs, NEW k \in Crontab!Kinds, NEW j \in Crontab!Jobs
  PROVE  Crontab!Ask(k, j) \in Crontab!Requests /\ Crontab!Ask(k, j).read = tab
  BY DEF Crontab!Ask, Crontab!Requests

LEMMA CrontabCounts ==
  ASSUME CrontabInv
  PROVE  /\ moves \in Nat /\ tab.others \in Nat
         /\ \A i \in DOMAIN flight : flight[i].read.others \in Nat
<1>1. moves \in Nat /\ \A t \in Crontab!Tabs : t.others \in Nat
  BY PanelAssumption DEF CrontabInv, Crontab!TypeOK, Crontab!Tabs, Crontab!ConstantsTyped
<1>2. ASSUME NEW i \in DOMAIN flight PROVE flight[i].read \in Crontab!Tabs
  <2>1. flight[i] \in Crontab!Requests
    BY DEF CrontabInv, Crontab!TypeOK
  <2> QED
    BY <2>1 DEF Crontab!Requests
<1> QED
  BY <1>1, <1>2 DEF CrontabInv, Crontab!TypeOK

LEMMA CrontabInit == Crontab!Init => CrontabInv
<1> SUFFICES ASSUME Crontab!Init PROVE CrontabInv
  OBVIOUS
<1>1. tab \in Crontab!Tabs /\ tab.others = 0
  BY PanelAssumption DEF Crontab!Init, Crontab!Tabs, Crontab!ConstantsTyped
<1>2. "jobs" \in Crontab!Kinds
  BY DEF Crontab!Kinds
<1>3. /\ flight = <<Crontab!Ask("jobs", Crontab!AJob)>>
      /\ Crontab!Ask("jobs", Crontab!AJob) \in Crontab!Requests
      /\ Crontab!Ask("jobs", Crontab!AJob).read = tab
  BY <1>1, <1>2, CrontabJobs, CrontabAsks DEF Crontab!Init
<1>4. /\ flight \in Seq(Crontab!Requests) /\ Len(flight) = 1 /\ DOMAIN flight = 1..1
      /\ flight[1].read = tab
  BY <1>3, OneOf
<1>5. CrontabRead(flight)
  <2>1. \A j \in DOMAIN flight : j = 1
    BY <1>4
  <2>2. moves = 0
    BY DEF Crontab!Init
  <2> QED
    BY <1>1, <1>4, <2>1, <2>2 DEF CrontabRead
<1>6. Len(flight) <= MaxFlight /\ moves \in 0..CrontabMoves
  BY <1>4, PanelAssumption DEF Crontab!Init, Crontab!ConstantsTyped
<1>7. Crontab!TypeOK
  BY <1>1, <1>4, <1>6, CrontabJobs DEF Crontab!Init, Crontab!TypeOK
<1> QED
  BY <1>1, <1>5, <1>7 DEF Crontab!Init, CrontabInv

\* A request that is sent, and one that is answered or goes on.
LEMMA CrontabSend ==
  ASSUME CrontabInv, NEW k \in Crontab!Kinds, NEW j \in Crontab!Jobs,
         Crontab!Send(Crontab!Ask(k, j)), Crontab!Acts
  PROVE  /\ flight' \in Seq(Crontab!Requests) /\ Len(flight') <= MaxFlight
         /\ \A i \in DOMAIN flight' : flight'[i].read.others <= moves'
<1> DEFINE r == Crontab!Ask(k, j)
<1>1. /\ tab \in Crontab!Tabs /\ tab.others <= moves /\ flight \in Seq(Crontab!Requests)
      /\ moves \in Nat
      /\ MaxFlight \in Nat
  BY PanelAssumption DEF CrontabInv, Crontab!TypeOK, Crontab!ConstantsTyped
<1>2. r \in Crontab!Requests /\ r.read = tab
  BY <1>1, CrontabAsks
<1>3. Len(flight) < MaxFlight /\ flight' = Append(flight, r) /\ moves' = moves + 1
  BY DEF Crontab!Send, Crontab!Acts
<1> HIDE DEF r
<1>4. /\ Append(flight, r) \in Seq(Crontab!Requests) /\ Len(Append(flight, r)) = Len(flight) + 1
      /\ \A i \in DOMAIN Append(flight, r) :
           Append(flight, r)[i] = r \/ \E n \in DOMAIN flight : Append(flight, r)[i] = flight[n]
  BY <1>1, <1>2, AddedTo
<1>5. \A i \in DOMAIN flight : flight[i].read.others \in Nat /\ flight[i].read.others <= moves
  BY CrontabCounts DEF CrontabInv, CrontabRead
<1>6. tab.others \in Nat
  BY <1>1 DEF Crontab!Tabs
<1>7. Len(flight) \in Nat
  BY <1>1
<1> QED
  BY <1>1, <1>2, <1>3, <1>4, <1>5, <1>6, <1>7

LEMMA CrontabGoesOn ==
  ASSUME CrontabInv, NEW i \in DOMAIN flight, NEW x \in Crontab!Requests, x.read.others <= moves,
         flight' = [flight EXCEPT ![i] = x], UNCHANGED Crontab!page, jobs' \in Crontab!Settings,
         tab' \in Crontab!Tabs,
         tab'.others <= moves
  PROVE  CrontabInv'
<1>1. flight \in Seq(Crontab!Requests) /\ Len(flight) <= MaxFlight
  BY DEF CrontabInv, Crontab!TypeOK
<1>2. /\ [flight EXCEPT ![i] = x] \in Seq(Crontab!Requests)
      /\ Len([flight EXCEPT ![i] = x]) = Len(flight)
      /\ DOMAIN [flight EXCEPT ![i] = x] = DOMAIN flight /\ [flight EXCEPT ![i] = x][i] = x
      /\ \A j \in DOMAIN flight \ {i} : [flight EXCEPT ![i] = x][j] = flight[j]
  BY <1>1, ChangedAt
<1>3. flight' \in Seq(Crontab!Requests) /\ Len(flight') <= MaxFlight
  BY <1>1, <1>2
<1>4. CrontabRead(flight)'
  <2>1. moves' = moves
    BY DEF Crontab!page
  <2>2. \A j \in DOMAIN flight' : flight'[j].read.others <= moves
    BY <1>2 DEF CrontabInv, CrontabRead
  <2> QED
    BY <2>1, <2>2 DEF CrontabRead
<1> QED
  BY <1>3, <1>4 DEF CrontabInv, Crontab!TypeOK, Crontab!page

LEMMA CrontabServes ==
  ASSUME CrontabInv, NEW i \in DOMAIN flight,
         \/ Crontab!ListJobs(i) \/ Crontab!IsInstalled(i) \/ Crontab!GetCurrentCrontab(i)
         \/ Crontab!UpdateCrontabJob(i)
         \/ Crontab!Refuse(i) \/ \E ok \in BOOLEAN : Crontab!WriteCrontab(i, ok)
  PROVE  CrontabInv'
<1> DEFINE r == flight[i]
<1>1. /\ r \in Crontab!Requests /\ r.read.others <= moves /\ tab \in Crontab!Tabs
      /\ tab.others <= moves
      /\ jobs \in Crontab!Settings
  BY DEF CrontabInv, Crontab!TypeOK, CrontabRead
<1>2. r.read \in Crontab!Tabs /\ r.job \in Crontab!Jobs
  BY <1>1 DEF Crontab!Requests
<1>3. ASSUME NEW ok \in BOOLEAN, Crontab!Done(i, ok), UNCHANGED Crontab!page,
             jobs' \in Crontab!Settings,
             tab' \in Crontab!Tabs, tab'.others <= moves
      PROVE  CrontabInv'
  <2> DEFINE b == tab.ours # {}
             x == [r EXCEPT !.step = "answered", !.ok = ok, !.installed = b]
  <2>1. b \in BOOLEAN
    OBVIOUS
  <2>2. flight' = [flight EXCEPT ![i] = x]
    BY <1>1, <1>3 DEF Crontab!Done, CrontabInv, Crontab!TypeOK
  <2> HIDE DEF b
  <2>3. x \in Crontab!Requests /\ x.read = r.read
    BY <1>1, <1>3, <2>1 DEF Crontab!Requests
  <2> HIDE DEF x
  <2> QED
    BY <1>1, <1>3, <2>2, <2>3, CrontabGoesOn
<1>4. CASE Crontab!ListJobs(i) \/ Crontab!IsInstalled(i) \/ Crontab!Refuse(i)
  <2>1. jobs' = jobs /\ tab' = tab /\ UNCHANGED Crontab!page
    BY <1>4 DEF Crontab!ListJobs, Crontab!IsInstalled, Crontab!Refuse, Crontab!server
  <2> QED
    BY <1>1, <1>3, <1>4, <2>1 DEF Crontab!ListJobs, Crontab!IsInstalled, Crontab!Refuse
<1>5. CASE Crontab!GetCurrentCrontab(i)
  <2> DEFINE x == [r EXCEPT !.step = "read", !.read = tab]
  <2>1. flight' = [flight EXCEPT ![i] = x] /\ UNCHANGED <<Crontab!server, Crontab!page>>
    BY <1>1, <1>5 DEF Crontab!GetCurrentCrontab, CrontabInv, Crontab!TypeOK
  <2>2. x \in Crontab!Requests /\ x.read = tab
    BY <1>1 DEF Crontab!Requests
  <2> HIDE DEF x
  <2> QED
    BY <1>1, <2>1, <2>2, CrontabGoesOn DEF Crontab!server
<1>6. CASE Crontab!UpdateCrontabJob(i)
  <2>1. [jobs EXCEPT ![r.job].enabled = FALSE] \in Crontab!Settings
    BY <1>1, <1>2 DEF Crontab!Settings
  <2>2. jobs' \in Crontab!Settings /\ tab' = tab /\ UNCHANGED Crontab!page
    BY <1>1, <1>6, <2>1 DEF Crontab!UpdateCrontabJob
  <2>3. (Crontab!IdLength[r.job] = 15) \in BOOLEAN
    OBVIOUS
  <2> QED
    BY <1>1, <1>3, <1>6, <2>2, <2>3 DEF Crontab!UpdateCrontabJob
<1>7. ASSUME NEW ok \in BOOLEAN, Crontab!WriteCrontab(i, ok) PROVE CrontabInv'
  <2> DEFINE o == IF r.kind = "install" THEN Crontab!Enabled(jobs) ELSE {}
  <2>1. o \in SUBSET Crontab!Jobs
    BY <1>1, CrontabJobs
  <2> HIDE DEF o
  <2>2. /\ [r.read EXCEPT !.ours = o] \in Crontab!Tabs
        /\ [r.read EXCEPT !.ours = o].others = r.read.others
    BY <1>2, <2>1 DEF Crontab!Tabs
  <2>3. tab' = (IF ok THEN [r.read EXCEPT !.ours = o] ELSE tab) /\ jobs' = jobs
          /\ UNCHANGED Crontab!page
    BY <1>7 DEF Crontab!WriteCrontab, o
  <2>4. tab' \in Crontab!Tabs /\ tab'.others <= moves
    BY <1>1, <2>2, <2>3
  <2> QED
    BY <1>1, <1>3, <1>7, <2>3, <2>4 DEF Crontab!WriteCrontab
<1> QED
  BY <1>4, <1>5, <1>6, <1>7

LEMMA CrontabHears ==
  ASSUME CrontabInv, NEW i \in DOMAIN flight, NEW got \in BOOLEAN, Crontab!Answer(i, got)
  PROVE  CrontabInv'
<1> DEFINE r == flight[i]
           rest == Cut(flight, i)
<1>1. /\ r \in Crontab!Requests /\ tab \in Crontab!Tabs /\ tab.others <= moves
      /\ jobs \in Crontab!Settings
      /\ flight \in Seq(Crontab!Requests) /\ Len(flight) \in Nat /\ Len(flight) <= MaxFlight
      /\ MaxFlight \in Nat
  BY PanelAssumption DEF CrontabInv, Crontab!TypeOK, Crontab!ConstantsTyped
<1>2. /\ r.job \in Crontab!Jobs /\ r.installed \in BOOLEAN /\ r.ok \in BOOLEAN
      /\ r.kind \in Crontab!Kinds
  BY <1>1 DEF Crontab!Requests
<1>3. /\ rest \in Seq(Crontab!Requests) /\ Len(rest) = Len(flight) - 1
      /\ \A j \in DOMAIN rest : \E k \in DOMAIN flight : rest[j] = flight[k]
  BY <1>1, CutFrom, CutKeeps
<1>4. Crontab!RemoveAt(flight, i) = rest
  BY DEF Crontab!RemoveAt, Cut
<1> HIDE DEF rest, r
<1>5. \/ flight' = rest
      \/ flight' = rest \o <<>>
      \/ \E k \in Crontab!Kinds, j \in Crontab!Jobs : flight' = rest \o <<Crontab!Ask(k, j)>>
  BY <1>2, <1>4, CrontabJobs
    DEF Crontab!Answer, Crontab!AfterFailure, Crontab!Recheck, r, Crontab!Kinds
<1>6. moves' = moves /\ jobs' = jobs /\ tab' = tab /\ patient' = patient
  BY DEF Crontab!Answer, Crontab!server
<1>7. flight' \in Seq(Crontab!Requests) /\ Len(flight') <= MaxFlight /\ CrontabRead(flight)'
  <2>1. \A j \in DOMAIN rest : rest[j].read.others <= moves
    BY <1>3 DEF CrontabInv, CrontabRead
  <2>2. CASE flight' = rest \/ flight' = rest \o <<>>
    <3>1. flight' = rest
      BY <1>3, <2>2
    <3> QED
      BY <1>1, <1>3, <1>6, <2>1, <3>1 DEF CrontabRead
  <2>3. ASSUME NEW k \in Crontab!Kinds, NEW j \in Crontab!Jobs,
               flight' = rest \o <<Crontab!Ask(k, j)>>
        PROVE  /\ flight' \in Seq(Crontab!Requests) /\ Len(flight') <= MaxFlight
               /\ CrontabRead(flight)'
    <3> DEFINE one == <<Crontab!Ask(k, j)>>
    <3>1. Crontab!Ask(k, j) \in Crontab!Requests /\ Crontab!Ask(k, j).read = tab
      BY <1>1, CrontabAsks
    <3>2. one \in Seq(Crontab!Requests) /\ Len(one) = 1 /\ \A n \in DOMAIN one : one[n].read = tab
      BY <3>1, OneOf
    <3> HIDE DEF one
    <3>3. /\ rest \o one \in Seq(Crontab!Requests) /\ Len(rest \o one) = Len(rest) + Len(one)
          /\ \A m \in DOMAIN (rest \o one) : \/ \E n \in DOMAIN rest : (rest \o one)[m] = rest[n]
                                             \/ \E n \in DOMAIN one : (rest \o one)[m] = one[n]
      <4>1. rest \in Seq(Crontab!Requests) /\ one \in Seq(Crontab!Requests)
        BY <1>3, <3>2
      <4> QED
        BY <4>1, JoinedTo
    <3>4. flight' = rest \o one
      BY <2>3 DEF one
    <3>5. \A m \in DOMAIN (rest \o one) : (rest \o one)[m].read.others <= moves
      BY <1>1, <2>1, <3>2, <3>3
    <3> QED
      BY <1>1, <1>3, <1>6, <3>2, <3>3, <3>4, <3>5 DEF CrontabRead
  <2> QED
    BY <1>5, <2>2, <2>3
<1>8. /\ rows' \in Crontab!Settings \cup {<<>>} /\ loading' \in BOOLEAN
      /\ serviceInstalled' \in BOOLEAN
      /\ switch' \in BOOLEAN /\ serviceLoading' \in BOOLEAN /\ known' \in BOOLEAN
  BY <1>1, <1>2 DEF Crontab!Answer, Crontab!Shows, CrontabInv, Crontab!TypeOK, r, Crontab!Kinds
<1> QED
  BY <1>1, <1>6, <1>7, <1>8 DEF CrontabInv, Crontab!TypeOK

LEMMA CrontabStep == CrontabInv /\ [Crontab!Next]_(Crontab!vars) => CrontabInv'
<1> SUFFICES ASSUME CrontabInv, [Crontab!Next]_(Crontab!vars) PROVE CrontabInv'
  OBVIOUS
<1>1. /\ tab \in Crontab!Tabs /\ moves \in Nat /\ CrontabMoves \in Nat /\ tab.others \in Nat
      /\ tab.others <= moves
      /\ \A j \in DOMAIN flight : flight[j].read.others \in Nat /\ flight[j].read.others <= moves
  BY CrontabCounts, PanelAssumption
    DEF CrontabInv, Crontab!TypeOK, CrontabRead, Crontab!ConstantsTyped
<1>2. CASE UNCHANGED Crontab!vars
  BY <1>2
    DEF Crontab!vars, Crontab!server, Crontab!page, CrontabInv, Crontab!TypeOK, CrontabRead
<1>3. CASE Crontab!HandleServiceToggle
  <2> DEFINE k == IF serviceInstalled THEN "uninstall" ELSE "install"
  <2>1. k \in Crontab!Kinds /\ Crontab!Send(Crontab!Ask(k, Crontab!AJob)) /\ Crontab!Acts
    BY <1>3 DEF Crontab!HandleServiceToggle, Crontab!Kinds, Crontab!Clicks
  <2> HIDE DEF k
  <2>2. /\ flight' \in Seq(Crontab!Requests) /\ Len(flight') <= MaxFlight
        /\ \A i \in DOMAIN flight' : flight'[i].read.others <= moves'
    BY <2>1, CrontabJobs, CrontabSend
  <2> QED
    BY <1>1, <1>3, <2>2
      DEF Crontab!HandleServiceToggle, Crontab!Clicks, Crontab!Acts, CrontabInv, Crontab!TypeOK,
          CrontabRead, Crontab!server
<1>4. ASSUME NEW j \in Crontab!Jobs, Crontab!HandleJob(j) PROVE CrontabInv'
  <2>1. "patch" \in Crontab!Kinds /\ Crontab!Send(Crontab!Ask("patch", j)) /\ Crontab!Acts
    BY <1>4 DEF Crontab!HandleJob, Crontab!Kinds, Crontab!Clicks
  <2>2. /\ flight' \in Seq(Crontab!Requests) /\ Len(flight') <= MaxFlight
        /\ \A i \in DOMAIN flight' : flight'[i].read.others <= moves'
    BY <1>4, <2>1, CrontabSend
  <2> QED
    BY <1>1, <1>4, <2>2
      DEF Crontab!HandleJob, Crontab!Clicks, Crontab!Acts, CrontabInv, Crontab!TypeOK,
          CrontabRead, Crontab!server
<1>5. CASE Crontab!EditCrontab
  <2>1. /\ tab' \in Crontab!Tabs /\ tab'.others = tab.others + 1 /\ moves' = moves + 1
        /\ moves' \in 0..CrontabMoves
    BY <1>1, <1>5 DEF Crontab!EditCrontab, Crontab!Acts, Crontab!Tabs
  <2>2. CrontabRead(flight)'
    BY <1>1, <1>5, <2>1 DEF Crontab!EditCrontab, CrontabRead
  <2> QED
    BY <1>1, <1>5, <2>1, <2>2 DEF Crontab!EditCrontab, CrontabInv, Crontab!TypeOK
<1> QED
  BY <1>2, <1>3, <1>4, <1>5, CrontabServes, CrontabHears DEF Crontab!Next

-----------------------------------------------------------------------------
(* The way in.                                                             *)
(*                                                                         *)
(* InstalledShopStays is not inductive: between the commit in the target   *)
(* database and the answer the process is on its way to another database   *)
(* than config.json names, and then the file holds nothing.  JobInv says   *)
(* where a running installation has brought the process, and that it is    *)
(* the only one, as long as no write of the file has failed.               *)

Running(c) == job[c].step # "idle"

\* Installations that did not overlap run one at a time.
OneRuns == \A c, o \in Clients : Running(c) /\ Running(o) => c = o

\* Until the swap the process is where config.json says, and remembers it.
BeforeSwap ==
  \A c \in Clients : job[c].step \in {"open", "read", "committed"} =>
    active = config /\ job[c].previous = active
\* What the transaction will find, what it has left, and where the swap went.
TargetIsFree == \A c \in Clients : job[c].step = "read" => ~installed[job[c].target]
TargetIsMine ==
  \A c \in Clients : job[c].step \in {"committed", "swapped", "writing"} =>
    installed[job[c].target] /\ admin[job[c].target] = c
AfterSwap ==
  \A c \in Clients :
    /\ job[c].step \in {"swapped", "writing"} => active = job[c].target
    /\ job[c].step = "swapped" => job[c].previous = config

\* A client that was told so keeps every later installation out.
ToldIsTrue ==
  \A c \in Clients : said[c] = "ok" =>
    /\ installed[active] /\ admin[active] = c /\ config = active
    /\ \A o \in Clients : ~Running(o)
RestsAtHome == (\A c \in Clients : ~Running(c)) => config = active

\* Whatever overlaps, no transaction is about to write to a database that had a
\* shop before.
OlderAreSafe ==
  /\ \A d \in older : installed[d] /\ admin[d] = None
  /\ \A c \in Clients : job[c].step = "read" => job[c].target \notin older

JobInv ==
  ~overlap /\ ~torn =>
    /\ OneRuns /\ BeforeSwap /\ TargetIsFree /\ TargetIsMine /\ AfterSwap
    /\ ToldIsTrue /\ RestsAtHome

AccessInv == Access!TypeOK /\ JobInv /\ OlderAreSafe

-----------------------------------------------------------------------------
(* The way in: type correctness, of the shops and the process, and of the  *)
(* browser.                                                                *)

ShopTypes ==
  /\ installed \in [Databases -> BOOLEAN] /\ admin \in [Databases -> Clients \cup {None}]
  /\ older \subseteq Databases
  /\ {active, config} \subseteq Databases \cup {None} /\ torn \in BOOLEAN
  /\ job \in [Clients -> Access!Jobs] /\ said \in [Clients -> {"", "ok", "failed"}]
  /\ overlap \in BOOLEAN
BrowserTypes ==
  /\ cookie \in Databases \cup {None}
  /\ place \in {"elsewhere", "install", "signin", "panel"}
  /\ check \in {"none", "status", "version"}
  /\ installCache \in Access!Remembered /\ versionCache \in Access!Remembered
  /\ locked \in BOOLEAN /\ typed \in Databases
  /\ tested \in BOOLEAN /\ testing \in Databases \cup {None}

LEMMA WayInTypeParts ==
  /\ Access!TypeOK <=> ShopTypes /\ BrowserTypes /\ moves \in 0..WayInMoves
  /\ Access!TypeOK' <=> (ShopTypes /\ BrowserTypes /\ moves \in 0..WayInMoves)'
  BY Zenon DEF Access!TypeOK, ShopTypes, BrowserTypes

LEMMA IdleIsJob == ASSUME Access!ConstantsTyped PROVE Access!Idle \in Access!Jobs
  BY DEF Access!ConstantsTyped, Access!Idle, Access!Jobs

LEMMA WayInTypeInit == ASSUME Access!ConstantsTyped PROVE Access!Init => Access!TypeOK
<1> SUFFICES ASSUME Access!Init PROVE Access!TypeOK
  OBVIOUS
<1>1. ShopTypes
  <2>1. job \in [Clients -> Access!Jobs]
    BY IdleIsJob DEF Access!Init
  <2>2. said \in [Clients -> {"", "ok", "failed"}] /\ overlap \in BOOLEAN
    BY DEF Access!Init
  <2>3. installed \in [Databases -> BOOLEAN] /\ older \subseteq Databases
    BY DEF Access!Init
  <2>4. /\ admin \in [Databases -> Clients \cup {None}]
        /\ {active, config} \subseteq Databases \cup {None} /\ torn \in BOOLEAN
    BY DEF Access!Init, Access!ConstantsTyped
  <2> QED BY <2>1, <2>2, <2>3, <2>4 DEF ShopTypes
<1>2. BrowserTypes
  BY DEF Access!ConstantsTyped, Access!Init, BrowserTypes, Access!Remembered
<1>3. moves \in 0..WayInMoves
  <2>1. moves = 0 /\ WayInMoves \in Nat
    BY DEF Access!ConstantsTyped, Access!Init
  <2> QED BY <2>1
<1> QED BY <1>1, <1>2, <1>3, WayInTypeParts

\* Only what counts as a move counts one.
LEMMA MovesStep ==
  ASSUME WayInMoves \in Nat, moves \in 0..WayInMoves, Access!Acts \/ moves' = moves
  PROVE  moves' \in 0..WayInMoves
  BY DEF Access!Acts

\* How an installation goes on, and how it ends.
LEMMA StepTypes ==
  ASSUME job \in [Clients -> Access!Jobs], NEW c \in Clients,
         NEW s \in {"idle", "open", "read", "committed", "swapped", "writing"},
         Access!Step(c, s)
  PROVE  job' \in [Clients -> Access!Jobs]
  BY DEF Access!Step, Access!Jobs

LEMMA DoneTypes ==
  ASSUME Access!ConstantsTyped, job \in [Clients -> Access!Jobs],
         said \in [Clients -> {"", "ok", "failed"}],
         NEW c \in Clients, NEW a \in {"ok", "failed"}, Access!Done(c, a)
  PROVE  job' \in [Clients -> Access!Jobs] /\ said' \in [Clients -> {"", "ok", "failed"}]
  BY IdleIsJob DEF Access!Done

LEMMA ServerTypes ==
  ASSUME Access!ConstantsTyped, ShopTypes, NEW c \in Clients, NEW d \in Databases,
         \/ Access!Install(c, d) \/ Access!OpenTarget(c) \/ Access!Commit(c)
         \/ Access!SwapTo(c) \/ Access!Truncate(c) \/ Access!WriteConfig(c)
         \/ Access!Restart
  PROVE  ShopTypes'
<1> USE IdleIsJob DEF ShopTypes
<1>1. CASE Access!Install(c, d)
  <2>1. job' \in [Clients -> Access!Jobs] /\ said' \in [Clients -> {"", "ok", "failed"}]
    <3>1. CASE installed[active]
      BY <1>1, <3>1, DoneTypes DEF Access!Install
    <3>2. CASE ~installed[active]
      <4> DEFINE start == [step |-> IF d = active THEN "read" ELSE "open",
                           target |-> d, previous |-> active]
      <4>1. start \in Access!Jobs
        BY DEF Access!Jobs
      <4>2. job' = [job EXCEPT ![c] = start] /\ said' = [said EXCEPT ![c] = ""]
        BY <1>1, <3>2 DEF Access!Install
      <4> QED BY <4>1, <4>2
    <3> QED BY <3>1, <3>2
  <2>2. overlap' \in BOOLEAN
    BY <1>1, Zenon DEF Access!Install
  <2>3. UNCHANGED <<Access!shops, Access!process>>
    BY <1>1 DEF Access!Install
  <2> QED BY <2>1, <2>2, <2>3 DEF Access!shops, Access!process
<1>2. CASE Access!OpenTarget(c)
  <2>1. job' \in [Clients -> Access!Jobs] /\ said' \in [Clients -> {"", "ok", "failed"}]
    BY <1>2, StepTypes, DoneTypes DEF Access!OpenTarget
  <2>2. UNCHANGED <<Access!shops, Access!process, overlap>>
    BY <1>2 DEF Access!OpenTarget
  <2> QED BY <2>1, <2>2 DEF Access!shops, Access!process
<1>3. CASE Access!Commit(c)
  <2>1. job' \in [Clients -> Access!Jobs] /\ said' \in [Clients -> {"", "ok", "failed"}]
    BY <1>3, StepTypes, DoneTypes DEF Access!Commit
  <2>2. installed' \in [Databases -> BOOLEAN] /\ admin' \in [Databases -> Clients \cup {None}]
    BY <1>3 DEF Access!Commit, Access!shops
  <2>3. UNCHANGED <<Access!process, overlap, older>>
    BY <1>3 DEF Access!Commit, Access!shops
  <2> QED BY <2>1, <2>2, <2>3 DEF Access!process
<1>4. CASE Access!SwapTo(c)
  BY <1>4 DEF Access!SwapTo, Access!Jobs, Access!shops
<1>5. CASE Access!Truncate(c) \/ Access!WriteConfig(c)
  <2>1. job' \in [Clients -> Access!Jobs] /\ said' \in [Clients -> {"", "ok", "failed"}]
    BY <1>5, StepTypes, DoneTypes DEF Access!Truncate, Access!WriteConfig, Access!GoesBack
  <2>2. {active', config'} \subseteq Databases \cup {None} /\ torn' \in BOOLEAN
    <3>1. job[c].target \in Databases /\ job[c].previous \in Databases \cup {None}
      BY DEF Access!Jobs
    <3> QED BY <1>5, <3>1 DEF Access!Truncate, Access!WriteConfig, Access!GoesBack
  <2>3. UNCHANGED <<Access!shops, overlap>>
    BY <1>5 DEF Access!Truncate, Access!WriteConfig
  <2> QED BY <2>1, <2>2, <2>3 DEF Access!shops
<1>6. CASE Access!Restart
  BY <1>6 DEF Access!Restart, Access!Acts, Access!Jobs, Access!shops
<1> QED BY <1>1, <1>2, <1>3, <1>4, <1>5, <1>6

BrowserStep ==
  \/ Access!Visit \/ Access!Forget \/ Access!OpenInstall
  \/ Access!HandleTestConnection \/ Access!ToSignIn
  \/ Access!SignIn \/ Access!SignOut \/ Access!SessionEnds
  \/ \E h \in BOOLEAN : Access!Status(h) \/ Access!Version(h) \/ Access!TestAnswered(h)
  \/ \E d \in Databases : Access!Type(d)

LEMMA BrowserStepTypes ==
  ASSUME Access!ConstantsTyped, ShopTypes, BrowserTypes, BrowserStep
  PROVE  BrowserTypes'
<1> USE DEF Access!ConstantsTyped, BrowserTypes, Access!Remembered, Access!GoTo,
            Access!NewWizard, Access!browser, Access!wizard
<1>1. CASE Access!Visit
  BY <1>1 DEF Access!Visit, Access!OpenPanel, Access!ToInstall, Access!AskVersion
<1>2. CASE Access!Forget
  BY <1>2 DEF Access!Forget
<1>3. CASE Access!OpenInstall
  BY <1>3 DEF Access!OpenInstall, Access!ToInstall
<1>4. CASE Access!HandleTestConnection
  BY <1>4 DEF Access!HandleTestConnection
<1>5. CASE Access!ToSignIn
  BY <1>5 DEF Access!ToSignIn
<1>6. CASE Access!SignIn
  BY <1>6 DEF Access!SignIn, Access!ToInstall, Access!AskVersion, ShopTypes
<1>7. CASE Access!SignOut \/ Access!SessionEnds
  BY <1>7 DEF Access!SignOut, Access!SessionEnds
<1>8. ASSUME NEW h \in BOOLEAN, Access!Status(h) PROVE BrowserTypes'
  BY <1>8 DEF Access!Status, Access!ToInstall, Access!AskVersion
<1>9. ASSUME NEW h \in BOOLEAN, Access!Version(h) PROVE BrowserTypes'
  BY <1>9 DEF Access!Version
<1>10. ASSUME NEW h \in BOOLEAN, Access!TestAnswered(h) PROVE BrowserTypes'
  BY <1>10 DEF Access!TestAnswered, ShopTypes
<1>11. ASSUME NEW d \in Databases, Access!Type(d) PROVE BrowserTypes'
  BY <1>11 DEF Access!Type
<1> QED
  BY <1>1, <1>2, <1>3, <1>4, <1>5, <1>6, <1>7, <1>8, <1>9, <1>10, <1>11 DEF BrowserStep

\* A step is the server's or the browser's, and leaves the other's state alone.
ServerStep ==
  \/ \E c \in Clients, d \in Databases :
       Access!Install(c, d) /\ UNCHANGED <<Access!browser, Access!wizard>>
  \/ \E c \in Clients :
       Access!OpenTarget(c) \/ Access!Commit(c) \/ Access!SwapTo(c) \/ Access!Truncate(c)
       \/ Access!WriteConfig(c)
  \/ Access!Restart

\* The operator's request is one client's installation.
LEMMA SubmitInstalls ==
  ASSUME Access!ConstantsTyped, ShopTypes, BrowserTypes, Access!Submit
  PROVE  \E d \in Databases :
           Access!Install(Installer, d) /\ UNCHANGED <<Access!browser, Access!wizard>>
<1> DEFINE d == IF locked THEN active ELSE typed
<1>1. d \in Databases
  BY DEF ShopTypes, BrowserTypes, Access!Submit, Access!Install
<1>2. Access!Install(Installer, d) /\ UNCHANGED <<Access!browser, Access!wizard>>
  BY DEF Access!Submit
<1> QED BY <1>1, <1>2

LEMMA WayInTwoSides ==
  ASSUME Access!ConstantsTyped, ShopTypes, BrowserTypes, Access!Next
  PROVE  ServerStep \/ BrowserStep
<1>1. CASE Access!Submit
  BY <1>1, SubmitInstalls DEF ServerStep, Access!ConstantsTyped
<1>2. CASE ~Access!Submit
  BY <1>2, Zenon DEF Access!Next, ServerStep, BrowserStep
<1> QED BY <1>1, <1>2

LEMMA ServerStepKeeps == ASSUME ServerStep PROVE UNCHANGED <<Access!browser, Access!wizard>>
  BY DEF ServerStep, Access!OpenTarget, Access!Commit, Access!SwapTo, Access!Truncate,
         Access!WriteConfig, Access!Restart, Access!browser, Access!wizard

LEMMA BrowserStepKeeps ==
  ASSUME BrowserStep PROVE UNCHANGED <<Access!shops, Access!process, job, said, overlap>>
  BY DEF BrowserStep, Access!Visit, Access!Forget, Access!OpenInstall,
         Access!HandleTestConnection, Access!ToSignIn, Access!SignIn, Access!SignOut,
         Access!SessionEnds, Access!Status, Access!Version, Access!TestAnswered, Access!Type,
         Access!Stays

LEMMA StepMoves == ASSUME ServerStep \/ BrowserStep PROVE Access!Acts \/ moves' = moves
<1>1. CASE ServerStep
  BY <1>1
    DEF ServerStep, Access!Install, Access!OpenTarget, Access!Commit, Access!SwapTo,
        Access!Truncate, Access!WriteConfig, Access!Restart
<1>2. CASE BrowserStep
  BY <1>2
    DEF BrowserStep, Access!Visit, Access!Forget, Access!OpenInstall,
        Access!HandleTestConnection, Access!ToSignIn, Access!SignIn, Access!SignOut,
        Access!SessionEnds, Access!Status, Access!Version, Access!TestAnswered, Access!Type
<1> QED BY <1>1, <1>2

LEMMA WayInTypeStep ==
  ASSUME Access!ConstantsTyped, Access!TypeOK, [Access!Next]_(Access!vars)
  PROVE  Access!TypeOK'
<1> USE WayInTypeParts
<1>1. CASE UNCHANGED Access!vars
  BY <1>1
    DEF Access!vars, Access!shops, Access!process, Access!browser, Access!wizard, Access!TypeOK
<1>2. CASE Access!Next
  <2>1. moves' \in 0..WayInMoves
    BY <1>2, WayInTwoSides, StepMoves, MovesStep DEF Access!ConstantsTyped
  <2>2. CASE ServerStep
    <3>1. ShopTypes'
      BY <2>2, ServerTypes, Access!ConstantsTyped DEF ServerStep, Access!ConstantsTyped
    <3>2. BrowserTypes'
      BY <2>2, ServerStepKeeps DEF BrowserTypes, Access!browser, Access!wizard
    <3> QED BY <2>1, <3>1, <3>2
  <2>3. CASE BrowserStep
    <3>1. ShopTypes'
      BY <2>3, BrowserStepKeeps DEF ShopTypes, Access!shops, Access!process
    <3>2. BrowserTypes'
      BY <2>3, BrowserStepTypes
    <3> QED BY <2>1, <3>1, <3>2
  <2> QED BY <1>2, <2>2, <2>3, WayInTwoSides
<1> QED BY <1>1, <1>2

-----------------------------------------------------------------------------
(* An installation by itself.                                              *)

LEMMA JobInit == Access!Init => JobInv
<1> SUFFICES ASSUME Access!Init PROVE JobInv
  OBVIOUS
<1>1. \A c \in Clients : job[c].step = "idle"
  BY DEF Access!Init, Access!Idle
<1>2. \A c \in Clients : said[c] = ""
  BY DEF Access!Init
<1>3. config = active
  BY DEF Access!Init
<1> QED
  BY <1>1, <1>2, <1>3
    DEF JobInv, Running, OneRuns, BeforeSwap, TargetIsFree, TargetIsMine, AfterSwap, ToldIsTrue,
        RestsAtHome

\* A step of one installation changes its step and no other installation.
LEMMA StepIsOwn ==
  ASSUME ShopTypes, NEW c \in Clients, NEW s, Access!Step(c, s)
  PROVE  /\ \A o \in Clients : o # c => job'[o] = job[o]
         /\ job'[c].step = s /\ job'[c].target = job[c].target
         /\ job'[c].previous = job[c].previous
  BY DEF Access!Step, ShopTypes, Access!Jobs

\* While one client's installation runs no other does, and nobody has been told.
LEMMA Alone ==
  ASSUME JobInv, ~overlap, ~torn, NEW c \in Clients, Running(c)
  PROVE  \A o \in Clients : (o # c => job[o].step = "idle") /\ said[o] # "ok"
  BY DEF JobInv, OneRuns, ToldIsTrue, Running

\* An installation that ends with a failure leaves the process where it was, if
\* that is where it would start again.
LEMMA FailsSafely ==
  ASSUME ShopTypes, JobInv, ~overlap, ~torn, NEW c \in Clients, Running(c),
         Access!Done(c, "failed"), config' = active'
  PROVE  JobInv'
<1>1. \A o \in Clients : job'[o].step = "idle"
  BY Alone DEF Access!Done, Access!Idle, ShopTypes
<1>2. \A o \in Clients : said'[o] # "ok"
  BY Alone DEF Access!Done, ShopTypes
<1> QED
  BY <1>1, <1>2
    DEF JobInv, Running, OneRuns, BeforeSwap, TargetIsFree, TargetIsMine, AfterSwap, ToldIsTrue,
        RestsAtHome

\* One that ends well has the process on the database that is its client's.
LEMMA EndsWell ==
  ASSUME ShopTypes, JobInv, ~overlap, ~torn, NEW c \in Clients, Running(c),
         Access!Done(c, "ok"), config' = active', installed'[active'], admin'[active'] = c
  PROVE  JobInv'
<1>1. \A o \in Clients : job'[o].step = "idle"
  BY Alone DEF Access!Done, Access!Idle, ShopTypes
<1>2. \A o \in Clients : o # c => said'[o] # "ok"
  BY Alone DEF Access!Done, ShopTypes
<1> QED
  BY <1>1, <1>2
    DEF JobInv, Running, OneRuns, BeforeSwap, TargetIsFree, TargetIsMine, AfterSwap, ToldIsTrue,
        RestsAtHome

LEMMA InstallKeeps ==
  ASSUME ShopTypes, JobInv, ~overlap', ~torn', NEW c \in Clients, NEW d \in Databases,
         Access!Install(c, d)
  PROVE  JobInv'
<1>1. ~overlap /\ ~torn /\ \A o \in Clients : job[o].step = "idle"
  BY DEF Access!Install, Access!process
<1>2. config = active /\ ToldIsTrue
  BY <1>1 DEF JobInv, RestsAtHome, Running
<1>3. UNCHANGED <<installed, admin, active, config>>
  BY DEF Access!Install, Access!shops, Access!process
<1>4. CASE installed[active]
  <2>1. Access!Done(c, "failed")
    BY <1>4 DEF Access!Install
  <2>2. \A o \in Clients : job'[o].step = "idle"
    BY <1>1, <2>1 DEF Access!Done, Access!Idle, ShopTypes
  <2>3. \A o \in Clients : said'[o] = "ok" => said[o] = "ok"
    BY <2>1 DEF Access!Done, ShopTypes
  <2> QED
    BY <1>2, <1>3, <2>2, <2>3
      DEF JobInv, Running, OneRuns, BeforeSwap, TargetIsFree, TargetIsMine, AfterSwap,
          ToldIsTrue, RestsAtHome
<1>5. CASE ~installed[active]
  <2>1. \A o \in Clients : said[o] # "ok"
    BY <1>2, <1>5 DEF ToldIsTrue
  <2>2. \A o \in Clients : said'[o] # "ok"
    BY <2>1, <1>5 DEF Access!Install, ShopTypes
  <2>3. /\ \A o \in Clients : o # c => job'[o].step = "idle"
        /\ job'[c].target = d /\ job'[c].previous = active
        /\ job'[c].step = IF d = active THEN "read" ELSE "open"
    <3> DEFINE start == [step |-> IF d = active THEN "read" ELSE "open",
                         target |-> d, previous |-> active]
    <3>1. job' = [job EXCEPT ![c] = start]
      BY <1>5 DEF Access!Install
    <3>2. \A o \in Clients : job'[o] = IF o = c THEN start ELSE job[o]
      BY <3>1 DEF ShopTypes
    <3> HIDE DEF start
    <3>3. /\ start.target = d /\ start.previous = active
          /\ start.step = IF d = active THEN "read" ELSE "open"
      BY DEF start
    <3> QED BY <1>1, <3>2, <3>3
  <2> QED
    BY <1>2, <1>3, <1>5, <2>2, <2>3
      DEF JobInv, Running, OneRuns, BeforeSwap, TargetIsFree, TargetIsMine, AfterSwap,
          ToldIsTrue, RestsAtHome
<1> QED BY <1>4, <1>5

LEMMA OpenTargetKeeps ==
  ASSUME ShopTypes, JobInv, ~overlap', ~torn', NEW c \in Clients, Access!OpenTarget(c)
  PROVE  JobInv'
<1>1. /\ ~overlap /\ ~torn /\ Running(c)
      /\ active = config /\ job[c].previous = active
  BY DEF Access!OpenTarget, Access!process, Running, JobInv, BeforeSwap
<1>2. UNCHANGED <<installed, admin, active, config>>
  BY DEF Access!OpenTarget, Access!shops, Access!process
<1>3. CASE Access!Done(c, "failed")
  BY <1>1, <1>2, <1>3, FailsSafely
<1>4. CASE ~Access!Occupied(job[c].target) /\ Access!Step(c, "read") /\ UNCHANGED said
  <2>1. /\ \A o \in Clients : o # c => job'[o].step = "idle"
        /\ job'[c].step = "read" /\ job'[c].target = job[c].target
        /\ job'[c].previous = job[c].previous
    BY <1>1, <1>4, Alone, StepIsOwn
  <2>2. \A o \in Clients : said'[o] # "ok"
    BY <1>1, <1>4, Alone
  <2> QED
    BY <1>1, <1>2, <1>4, <2>1, <2>2
      DEF Access!Occupied, JobInv, Running, OneRuns, BeforeSwap, TargetIsFree, TargetIsMine,
          AfterSwap, ToldIsTrue, RestsAtHome
<1> QED BY <1>3, <1>4 DEF Access!OpenTarget

LEMMA CommitKeeps ==
  ASSUME ShopTypes, JobInv, ~overlap', ~torn', NEW c \in Clients, Access!Commit(c)
  PROVE  JobInv'
<1>1. /\ ~overlap /\ ~torn /\ Running(c)
      /\ active = config /\ job[c].previous = active
  BY DEF Access!Commit, Access!process, Running, JobInv, BeforeSwap
<1>2. UNCHANGED <<active, config>>
  BY DEF Access!Commit, Access!process
<1>3. CASE Access!Done(c, "failed") /\ UNCHANGED Access!shops
  BY <1>1, <1>2, <1>3, FailsSafely
<1>4. CASE /\ installed' = [installed EXCEPT ![job[c].target] = TRUE]
           /\ admin' = [admin EXCEPT ![job[c].target] = c]
           /\ IF job[c].target = job[c].previous THEN Access!Done(c, "ok")
              ELSE Access!Step(c, "committed") /\ UNCHANGED said
  <2>1. job[c].target \in Databases
    BY DEF ShopTypes, Access!Jobs
  <2>2. installed'[job[c].target] /\ admin'[job[c].target] = c
    BY <1>4, <2>1 DEF ShopTypes
  <2>3. CASE job[c].target = job[c].previous
    BY <1>1, <1>2, <1>4, <2>2, <2>3, EndsWell
  <2>4. CASE job[c].target # job[c].previous
    <3>1. /\ \A o \in Clients : o # c => job'[o].step = "idle"
          /\ job'[c].step = "committed" /\ job'[c].target = job[c].target
          /\ job'[c].previous = job[c].previous
      BY <1>1, <1>4, <2>4, Alone, StepIsOwn
    <3>2. \A o \in Clients : said'[o] # "ok"
      BY <1>1, <1>4, <2>4, Alone
    <3> QED
      BY <1>1, <1>2, <2>2, <3>1, <3>2
        DEF JobInv, Running, OneRuns, BeforeSwap, TargetIsFree, TargetIsMine, AfterSwap,
            ToldIsTrue, RestsAtHome
  <2> QED BY <2>3, <2>4
<1> QED BY <1>3, <1>4 DEF Access!Commit

LEMMA SwapToKeeps ==
  ASSUME ShopTypes, JobInv, ~overlap', ~torn', NEW c \in Clients, Access!SwapTo(c)
  PROVE  JobInv'
<1>1. ~overlap /\ ~torn /\ Running(c) /\ active = config
  BY DEF Access!SwapTo, Running, JobInv, BeforeSwap
<1>2. UNCHANGED <<installed, admin, config, said>> /\ active' = job[c].target
  BY DEF Access!SwapTo, Access!shops
<1>3. installed[job[c].target] /\ admin[job[c].target] = c
  BY <1>1 DEF Access!SwapTo, JobInv, TargetIsMine
<1>4. /\ \A o \in Clients : o # c => job'[o].step = "idle"
      /\ job'[c].step = "swapped" /\ job'[c].target = job[c].target
      /\ job'[c].previous = active
  BY <1>1, Alone DEF Access!SwapTo, ShopTypes, Access!Jobs
<1>5. \A o \in Clients : said'[o] # "ok"
  BY <1>1, <1>2, Alone
<1> QED
  BY <1>1, <1>2, <1>3, <1>4, <1>5
    DEF JobInv, Running, OneRuns, BeforeSwap, TargetIsFree, TargetIsMine, AfterSwap, ToldIsTrue,
        RestsAtHome

LEMMA TruncateKeeps ==
  ASSUME ShopTypes, JobInv, ~overlap', ~torn', NEW c \in Clients, Access!Truncate(c)
  PROVE  JobInv'
<1>1. /\ ~overlap /\ ~torn /\ Running(c)
      /\ active = job[c].target /\ job[c].previous = config
      /\ installed[active] /\ admin[active] = c
  BY DEF Access!Truncate, Running, JobInv, AfterSwap, TargetIsMine
<1>2. UNCHANGED <<installed, admin>>
  BY DEF Access!Truncate, Access!shops
<1>3. CASE config' = None /\ Access!Step(c, "writing") /\ UNCHANGED <<active, said>>
  <2>1. /\ \A o \in Clients : o # c => job'[o].step = "idle"
        /\ job'[c].step = "writing" /\ job'[c].target = job[c].target
    BY <1>1, <1>3, Alone, StepIsOwn
  <2>2. \A o \in Clients : said'[o] # "ok"
    BY <1>1, <1>3, Alone
  <2> QED
    BY <1>1, <1>2, <1>3, <2>1, <2>2
      DEF JobInv, Running, OneRuns, BeforeSwap, TargetIsFree, TargetIsMine, AfterSwap,
          ToldIsTrue, RestsAtHome
<1>4. CASE Access!GoesBack(c) /\ UNCHANGED config
  BY <1>1, <1>4, FailsSafely DEF Access!GoesBack
<1> QED BY <1>3, <1>4 DEF Access!Truncate

\* A write that fails half-way is the one failure left out.
LEMMA WriteConfigKeeps ==
  ASSUME ShopTypes, JobInv, ~overlap', ~torn', NEW c \in Clients, Access!WriteConfig(c)
  PROVE  JobInv'
<1>1. /\ config' = job[c].target /\ Access!Done(c, "ok") /\ UNCHANGED <<active, torn>>
      /\ UNCHANGED <<installed, admin, overlap>>
  BY DEF Access!WriteConfig, Access!shops
<1>2. /\ ~overlap /\ ~torn /\ Running(c) /\ active = job[c].target
      /\ installed[active] /\ admin[active] = c
  BY <1>1 DEF Access!WriteConfig, Running, JobInv, AfterSwap, TargetIsMine
<1> QED BY <1>1, <1>2, EndsWell

LEMMA RestartKeeps ==
  ASSUME ShopTypes, JobInv, ~overlap', ~torn', Access!Restart
  PROVE  JobInv'
<1>1. /\ ~overlap /\ ~torn /\ UNCHANGED <<installed, admin, config>> /\ active' = config
      /\ \A o \in Clients : job'[o].step = "idle"
  BY DEF Access!Restart, Access!shops, Access!Idle
<1>2. \A o \in Clients : said'[o] = "ok" => said[o] = "ok"
  BY DEF Access!Restart
<1> QED
  BY <1>1, <1>2
    DEF JobInv, Running, OneRuns, BeforeSwap, TargetIsFree, TargetIsMine, AfterSwap, ToldIsTrue,
        RestsAtHome

LEMMA JobStep ==
  ASSUME Access!ConstantsTyped, Access!TypeOK, JobInv, [Access!Next]_(Access!vars)
  PROVE  JobInv'
<1>1. ShopTypes /\ BrowserTypes
  BY WayInTypeParts
<1>2. CASE overlap' \/ torn'
  BY <1>2 DEF JobInv
<1>3. CASE ~overlap' /\ ~torn' /\ ServerStep
  BY <1>1, <1>3, InstallKeeps, OpenTargetKeeps, CommitKeeps, SwapToKeeps, TruncateKeeps,
     WriteConfigKeeps, RestartKeeps
    DEF ServerStep
<1>4. CASE BrowserStep \/ UNCHANGED Access!vars
  <2>1. UNCHANGED <<installed, admin, active, config, torn, job, said, overlap>>
    BY <1>4, BrowserStepKeeps DEF Access!vars, Access!shops, Access!process
  <2> QED
    BY <2>1
      DEF JobInv, Running, OneRuns, BeforeSwap, TargetIsFree, TargetIsMine, AfterSwap,
          ToldIsTrue, RestsAtHome
<1> QED BY <1>1, <1>2, <1>3, <1>4, WayInTwoSides

-----------------------------------------------------------------------------
(* The shops that were there before.                                       *)

\* An installation that ends is idle, and no other has changed.
LEMMA DoneIsOwn ==
  ASSUME ShopTypes, NEW c \in Clients, NEW a, Access!Done(c, a)
  PROVE  job'[c].step = "idle" /\ \A o \in Clients : o # c => job'[o] = job[o]
<1>1. job' = [job EXCEPT ![c] = Access!Idle] /\ Access!Idle.step = "idle"
  BY DEF Access!Done, Access!Idle
<1> QED BY <1>1 DEF ShopTypes

LEMMA OlderInit == Access!Init => OlderAreSafe
<1> SUFFICES ASSUME Access!Init PROVE OlderAreSafe
  OBVIOUS
<1>1. \A d \in older : installed[d] /\ admin[d] = None
  BY DEF Access!Init
<1>2. \A c \in Clients : job[c].step = "idle"
  BY DEF Access!Init, Access!Idle
<1> QED BY <1>1, <1>2 DEF OlderAreSafe

LEMMA OlderStep ==
  ASSUME Access!ConstantsTyped, Access!TypeOK, OlderAreSafe, [Access!Next]_(Access!vars)
  PROVE  OlderAreSafe'
<1>1. ShopTypes /\ BrowserTypes
  BY WayInTypeParts
<1>2. ASSUME NEW c \in Clients, NEW d \in Databases, Access!Install(c, d)
      PROVE  OlderAreSafe'
  <2>1. UNCHANGED <<installed, admin, older>>
    BY <1>2 DEF Access!Install, Access!shops
  <2>2. \A o \in Clients : o # c => job'[o] = job[o]
    BY <1>1, <1>2 DEF Access!Install, Access!Done, ShopTypes
  <2>3. job'[c].step = "read" => job'[c].target \notin older
    <3>1. CASE installed[active]
      BY <1>1, <1>2, <3>1, DoneIsOwn DEF Access!Install
    <3>2. CASE ~installed[active]
      <4> DEFINE start == [step |-> IF d = active THEN "read" ELSE "open",
                           target |-> d, previous |-> active]
      <4>1. job'[c] = start
        BY <1>1, <1>2, <3>2 DEF Access!Install, ShopTypes
      <4>2. start.step = "read" => start.target = active
        OBVIOUS
      <4>3. active \notin older
        BY <3>2 DEF OlderAreSafe
      <4> QED BY <4>1, <4>2, <4>3
    <3> QED BY <3>1, <3>2
  <2> QED BY <2>1, <2>2, <2>3 DEF OlderAreSafe
<1>3. ASSUME NEW c \in Clients, Access!OpenTarget(c)
      PROVE  OlderAreSafe'
  <2>1. UNCHANGED <<installed, admin, older>>
    BY <1>3 DEF Access!OpenTarget, Access!shops
  <2>2. \A o \in Clients : o # c => job'[o] = job[o]
    BY <1>1, <1>3 DEF Access!OpenTarget, Access!Done, Access!Step, ShopTypes
  <2>3. job'[c].step = "read" => job'[c].target \notin older
    <3>1. CASE Access!Done(c, "failed")
      BY <1>1, <3>1, DoneIsOwn
    <3>2. CASE ~Access!Occupied(job[c].target) /\ Access!Step(c, "read")
      BY <1>1, <3>2, StepIsOwn DEF Access!Occupied, OlderAreSafe
    <3> QED BY <1>3, <3>1, <3>2 DEF Access!OpenTarget
  <2> QED BY <2>1, <2>2, <2>3 DEF OlderAreSafe
<1>4. ASSUME NEW c \in Clients, Access!Commit(c)
      PROVE  OlderAreSafe'
  <2>1. UNCHANGED older /\ \A d \in older : installed'[d] = installed[d] /\ admin'[d] = admin[d]
    BY <1>1, <1>4 DEF Access!Commit, OlderAreSafe, ShopTypes, Access!shops
  <2>2. \A o \in Clients : o # c => job'[o] = job[o]
    BY <1>1, <1>4 DEF Access!Commit, Access!Done, Access!Step, ShopTypes
  <2>3. job'[c].step # "read"
    <3>1. CASE Access!Done(c, "failed") \/ Access!Done(c, "ok")
      BY <1>1, <3>1, DoneIsOwn
    <3>2. CASE Access!Step(c, "committed")
      BY <1>1, <3>2, StepIsOwn
    <3> QED BY <1>4, <3>1, <3>2 DEF Access!Commit
  <2> QED BY <2>1, <2>2, <2>3 DEF OlderAreSafe
<1>5. ASSUME NEW c \in Clients,
             Access!SwapTo(c) \/ Access!Truncate(c) \/ Access!WriteConfig(c)
      PROVE  OlderAreSafe'
  <2>1. UNCHANGED <<installed, admin, older>>
    BY <1>5 DEF Access!SwapTo, Access!Truncate, Access!WriteConfig, Access!shops
  <2>2. \A o \in Clients : o # c => job'[o] = job[o]
    BY <1>1, <1>5
      DEF Access!SwapTo, Access!Truncate, Access!Step, Access!WriteConfig, Access!GoesBack,
          Access!Done, ShopTypes
  <2>3. job'[c].step # "read"
    <3>1. CASE Access!SwapTo(c)
      BY <1>1, <3>1 DEF Access!SwapTo, ShopTypes, Access!Jobs
    <3>2. CASE Access!Truncate(c)
      BY <1>1, <3>2, DoneIsOwn, StepIsOwn DEF Access!Truncate, Access!GoesBack
    <3>3. CASE Access!WriteConfig(c)
      BY <1>1, <3>3, DoneIsOwn DEF Access!WriteConfig, Access!GoesBack
    <3> QED BY <1>5, <3>1, <3>2, <3>3
  <2> QED BY <2>1, <2>2, <2>3 DEF OlderAreSafe
<1>6. CASE Access!Restart
  BY <1>6 DEF Access!Restart, OlderAreSafe, Access!Idle, Access!shops
<1>7. CASE BrowserStep \/ UNCHANGED Access!vars
  <2>1. UNCHANGED <<installed, admin, older, job>>
    BY <1>7, BrowserStepKeeps DEF Access!vars, Access!shops
  <2> QED BY <2>1 DEF OlderAreSafe
<1> QED BY <1>1, <1>2, <1>3, <1>4, <1>5, <1>6, <1>7, WayInTwoSides DEF ServerStep

-----------------------------------------------------------------------------
(* The table and the server, for an operator who waits for every answer.   *)

\* The list has one member, x.
Only(s, x) == Len(s) = 1 /\ DOMAIN s = 1..1 /\ s[1] = x

LEMMA OneSent ==
  ASSUME NEW S, NEW x \in S
  PROVE  Only(Append(<<>>, x), x) /\ Only(<<x>>, x)
<1>1. Only(<<x>>, x)
  BY OneOf DEF Only
<1>2. <<>> \in Seq(S) /\ Len(<<>>) = 0
  OBVIOUS
<1>3. Append(<<>>, x) \in Seq(S) /\ Len(Append(<<>>, x)) = 1 /\ Append(<<>>, x)[1] = x
  BY <1>2
<1> QED
  BY <1>1, <1>3 DEF Only

LEMMA NotOne == \A s, x : Only(s, x) => s # <<>>
  BY DEF Only

LEMMA TheOnly ==
  ASSUME NEW S, NEW s \in Seq(S), Len(s) <= 1, NEW i \in DOMAIN s
  PROVE  Len(s) = 1 /\ i = 1 /\ DOMAIN s = 1..1
<1>1. Len(s) \in Nat /\ DOMAIN s = 1..Len(s)
  OBVIOUS
<1>2. i \in 1..Len(s)
  BY <1>1
<1>3. Len(s) = 1 /\ i = 1
  BY <1>1, <1>2
<1> QED
  BY <1>1, <1>3

LEMMA OneLeaves ==
  ASSUME NEW S, NEW s \in Seq(S), Len(s) <= 1, NEW i \in DOMAIN s
  PROVE  /\ Only(s, s[i]) /\ Cut(s, i) = <<>> /\ Cut(s, i) \o <<>> = <<>>
         /\ \A x \in S : Only(Cut(s, i) \o <<x>>, x)
<1>1. Len(s) = 1 /\ i = 1 /\ DOMAIN s = 1..1
  BY TheOnly
<1>2. Cut(s, i) \in Seq(S) /\ Len(Cut(s, i)) = 0
  BY <1>1, CutFrom
<1>3. Cut(s, i) = <<>>
  BY <1>2, EmptySeq
<1>4. <<>> \o <<>> = <<>>
  OBVIOUS
<1>5. ASSUME NEW x \in S PROVE Only(<<>> \o <<x>>, x)
  <2>1. <<>> \o <<x>> = <<x>>
    BY <1>5
  <2> QED
    BY <2>1, OneSent
<1> QED
  BY <1>1, <1>3, <1>4, <1>5 DEF Only

LEMMA OneChanges ==
  ASSUME NEW S, NEW s \in Seq(S), Len(s) <= 1, NEW i \in DOMAIN s, NEW x \in S
  PROVE  Only([s EXCEPT ![i] = x], x)
<1>1. Len(s) = 1 /\ i = 1 /\ DOMAIN s = 1..1
  BY TheOnly
<1>2. /\ [s EXCEPT ![i] = x] \in Seq(S) /\ Len([s EXCEPT ![i] = x]) = Len(s)
      /\ DOMAIN [s EXCEPT ![i] = x] = DOMAIN s /\ [s EXCEPT ![i] = x][i] = x
  BY ChangedAt
<1> QED
  BY <1>1, <1>2 DEF Only

\* The lists of pages and of orders: a list on its way is that of the page on show, and a
\* row that was switched is ahead of the server until the answer is back.
ListsNow == Lists!PageOf(order, page)
ListsSame == ListedIn(order) = Lists!Listed
ListsTurned(s, j) ==
  [i \in DOMAIN s |-> IF i = j THEN [id |-> s[i].id, active |-> ~s[i].active] ELSE s[i]]
ListsToggled(r) ==
  /\ r.n \in DOMAIN ListsNow /\ ListsNow[r.n].id = r.of
  /\ r.answer \in {"sent", "failed"} =>
       r.was = ListsNow[r.n].active /\ rows = ListsTurned(ListsNow, r.n)
  /\ r.answer = "ok" => rows = ListsNow /\ r.says = <<ListsNow[r.n]>>
ListsAwaits(r) ==
  /\ r.kind = "list" => r.n = page /\ (r.answer = "ok" => r.says = ListsNow /\ ListsSame)
  /\ r.kind \in {"create", "delete"} /\ r.answer \in {"sent", "failed"} =>
       rows = ListsNow /\ ListsSame
  /\ r.kind \in {"cart", "edit", "mail", "save", "seo"} => rows = ListsNow /\ ListsSame
  /\ r.kind = "toggle" => ListsToggled(r) /\ ListsSame
ListsTable ==
  patient =>
    /\ \A r, q \in flight : r = q
    /\ ~strayed => /\ flight = {} => rows = ListsNow /\ ListsSame
                   /\ \A r \in flight : ListsAwaits(r)

LEMMA ListsNone ==
  ASSUME flight' = {}, strayed' \/ (rows' = ListsNow' /\ ListsSame')
  PROVE  ListsTable'
  BY DEF ListsTable

LEMMA ListsOne ==
  ASSUME NEW q, flight' = {q}, strayed' \/ ListsAwaits(q)'
  PROVE  ListsTable'
<1>1. flight' # {} /\ \A r \in flight' : r = q
  OBVIOUS
<1> QED
  BY <1>1 DEF ListsTable

LEMMA ListsSameNow ==
  /\ UNCHANGED <<order, active, page>> => ListsNow' = ListsNow
  /\ UNCHANGED <<order, catalog>> => ListsSame' = ListsSame
<1>1. UNCHANGED <<order, active, page>> => ListsNow' = ListsNow
  BY DEF ListsNow, Lists!PageOf, Lists!Row
<1>2. UNCHANGED <<order, catalog>> => ListsSame' = ListsSame
  BY DEF ListsSame, ListedIn, Lists!Listed
<1> QED
  BY <1>1, <1>2

LEMMA ListsNowRows == ListsInv => ListsNow \in Seq(Lists!Rows)
<1> SUFFICES ASSUME ListsInv PROVE ListsNow \in Seq(Lists!Rows)
  OBVIOUS
<1>1. page \in Nat \ {0} /\ Lists!TypeOK
  BY ListsConstants DEF ListsInv, Lists!TypeOK
<1> QED
  BY <1>1, ListsPageRows DEF ListsNow, Lists!TypeOK

\* A row is switched, and switched back.
LEMMA TurnedRow ==
  ASSUME NEW s \in Seq(Lists!Rows), NEW j \in DOMAIN s
  PROVE  /\ [s EXCEPT ![j].active = ~@] = ListsTurned(s, j)
         /\ ListsTurned(s, j) \in Seq(Lists!Rows) /\ Len(ListsTurned(s, j)) = Len(s)
         /\ DOMAIN ListsTurned(s, j) = DOMAIN s
         /\ ListsTurned(s, j)[j] = [id |-> s[j].id, active |-> ~s[j].active]
         /\ \A i \in DOMAIN s : i # j => ListsTurned(s, j)[i] = s[i]
<1> DEFINE x == [id |-> s[j].id, active |-> ~s[j].active]
<1>1. Len(s) \in Nat /\ DOMAIN s = 1..Len(s) /\ s \in [1..Len(s) -> Lists!Rows]
  OBVIOUS
<1>2. s[j] \in [id: Items \cup {None}, active: BOOLEAN]
  BY <1>1 DEF Lists!Rows
<1>3. x \in Lists!Rows
  BY <1>2 DEF Lists!Rows
<1>4. [s[j] EXCEPT !.active = ~@] = x
  BY <1>2
<1>5. [s EXCEPT ![j].active = ~@] = [s EXCEPT ![j] = x]
  <2>1. [s EXCEPT ![j].active = ~@] = [s EXCEPT ![j] = [s[j] EXCEPT !.active = ~@]]
    OBVIOUS
  <2> QED
    BY <1>4, <2>1
<1>6. ListsTurned(s, j) = [i \in DOMAIN s |-> IF i = j THEN x ELSE s[i]]
  BY DEF ListsTurned
<1> HIDE DEF x
<1>7. ListsTurned(s, j) \in [1..Len(s) -> Lists!Rows]
  BY <1>1, <1>3, <1>6
<1>8. ListsTurned(s, j) \in Seq(Lists!Rows) /\ Len(ListsTurned(s, j)) = Len(s)
  BY <1>1, <1>7, MadeBySteps
<1>9. [s EXCEPT ![j] = x] = ListsTurned(s, j)
  BY <1>1, <1>6
<1> QED
  BY <1>5, <1>6, <1>8, <1>9 DEF x

\* The server's switch turns the row that shows the item, and no other.
LEMMA NowTurns ==
  ASSUME ListsInv, NEW j \in DOMAIN ListsNow, NEW x \in Items, ListsNow[j].id = x,
         order' = order, page' = page, active' = [active EXCEPT ![x] = ~@]
  PROVE  ListsNow' = ListsTurned(ListsNow, j) /\ Lists!Row(x)' = ListsNow'[j]
<1>1. page \in Nat \ {0} /\ Lists!TypeOK
  BY ListsConstants DEF ListsInv, Lists!TypeOK
<1>2. PICK n \in Nat \ {0}, s \in Seq(Items) : n = page /\ s = order
  BY <1>1 DEF Lists!TypeOK
<1>3. PICK k \in Nat, m \in Nat :
        ListsPlaced(s, n, k, m) /\ Lists!PageOf(s, n)' = ListsFrom(s, k, m)'
  BY ListsPlaces
<1>4. /\ ListsNow = [i \in 1..k |-> [id |-> s[m + i], active |-> active[s[m + i]]]]
      /\ ListsNow' = [i \in 1..k |-> [id |-> s[m + i], active |-> active'[s[m + i]]]]
  <2>1. ListsNow = Lists!PageOf(s, n)
    BY <1>2 DEF ListsNow
  <2>2. ListsNow' = Lists!PageOf(s, n)'
    BY <1>2 DEF ListsNow, Lists!PageOf, Lists!Row
  <2> QED
    BY <1>3, <2>1, <2>2 DEF ListsPlaced, ListsFrom
<1>5. j \in 1..k /\ s[m + j] = x
  BY <1>4
<1>6. ASSUME NEW i \in 1..k, i # j PROVE s[m + i] # x /\ s[m + i] \in Items
  <2>0. \A l \in 1..k : m + l \in DOMAIN s
    BY <1>3 DEF ListsPlaced
  <2>1. m + i \in DOMAIN s /\ m + j \in DOMAIN s /\ m + i # m + j
    BY <1>5, <1>6, <2>0
  <2> QED
    BY <1>1, <1>2, <1>5, <2>1 DEF Lists!TypeOK, Lists!IsInjective
<1>7. active'[x] = ~active[x] /\ \A y \in Items : y # x => active'[y] = active[y]
  BY <1>1 DEF Lists!TypeOK
<1>8. ASSUME NEW i \in 1..k
      PROVE  ListsNow'[i] = IF i = j THEN [id |-> ListsNow[i].id, active |-> ~ListsNow[i].active]
                            ELSE ListsNow[i]
  BY <1>4, <1>5, <1>6, <1>7
<1>9. ListsNow' = ListsTurned(ListsNow, j)
  BY <1>4, <1>8 DEF ListsTurned
<1> QED
  BY <1>4, <1>5, <1>9 DEF Lists!Row

\* A row comes back into its place.
LEMMA RowPut ==
  ASSUME NEW s \in Seq(Lists!Rows), NEW t \in Seq(Lists!Rows), NEW j \in DOMAIN s,
         Len(t) = Len(s), \A i \in DOMAIN s : i # j => t[i] = s[i], NEW none
  PROVE  [i \in 1..(IF j > Len(t) THEN j ELSE Len(t)) |->
            IF i = j THEN s[j] ELSE IF i \in DOMAIN t THEN t[i] ELSE none] = s
<1>1. /\ Len(s) \in Nat /\ DOMAIN s = 1..Len(s) /\ DOMAIN t = 1..Len(s) /\ j \in 1..Len(s)
      /\ s = [i \in 1..Len(s) |-> s[i]]
  OBVIOUS
<1>2. (IF j > Len(t) THEN j ELSE Len(t)) = Len(s)
  BY <1>1
<1> QED
  BY <1>1, <1>2

LEMMA ListsTableInit == Lists!Init => ListsTable
<1> SUFFICES ASSUME Lists!Init PROVE ListsTable
  OBVIOUS
<1>1. PICK q : q = Lists!ListRequest(1, FALSE)
  OBVIOUS
<1>2. q.kind = "list" /\ q.n = 1 /\ q.answer = "sent"
  BY <1>1 DEF Lists!ListRequest, Lists!Request
<1>3. flight = {q} /\ page = 1
  BY <1>1 DEF Lists!Init
<1> QED
  BY <1>2, <1>3 DEF ListsTable, ListsAwaits

LEMMA ListsReady ==
  ASSUME ListsTable, patient, Lists!Acts
  PROVE  /\ flight = {} /\ UNCHANGED <<which, catalog, active, order, strayed>>
         /\ strayed \/ (rows = ListsNow /\ ListsSame)
  BY DEF ListsTable, Lists!Acts, Lists!server

LEMMA ListsCartLeaves ==
  ASSUME ListsTable, flight' = {r \in flight : r.kind # "cart"},
         UNCHANGED <<catalog, active, order, page, rows, patient, strayed>>
  PROVE  ListsTable'
<1>1. ListsNow' = ListsNow /\ ListsSame' = ListsSame
  BY ListsSameNow
<1>2. CASE ~patient
  BY <1>2 DEF ListsTable
<1>3. CASE patient /\ flight' = {}
  <2>1. strayed \/ (rows = ListsNow /\ ListsSame)
    BY <1>3 DEF ListsTable, ListsAwaits
  <2> QED
    BY <1>1, <1>3, <2>1, ListsNone
<1>4. CASE patient /\ flight' # {}
  <2>1. PICK q \in flight : flight' = {q}
    BY <1>4 DEF ListsTable
  <2>2. strayed' \/ ListsAwaits(q)'
    BY <1>1, <1>4, <2>1 DEF ListsTable, ListsAwaits, ListsToggled
  <2> QED
    BY <2>1, <2>2, ListsOne
<1> QED
  BY <1>2, <1>3, <1>4

LEMMA ListsTableOperator ==
  ASSUME ListsInv, ListsTable, patient, Lists!Operator
  PROVE  ListsTable'
<1>1. ASSUME NEW q, q.kind \in {"cart", "edit", "mail", "save", "seo", "create", "delete"},
             Lists!Ask(q), Lists!Acts, UNCHANGED <<page, rows>>
      PROVE  ListsTable'
  <2>1. /\ flight' = {q} /\ UNCHANGED <<catalog, active, order, strayed>>
        /\ strayed \/ (rows = ListsNow /\ ListsSame)
    BY <1>1, ListsReady DEF Lists!Ask
  <2>2. ListsNow' = ListsNow /\ ListsSame' = ListsSame
    BY <1>1, <2>1, ListsSameNow
  <2>3. strayed' \/ ListsAwaits(q)'
    BY <1>1, <2>1, <2>2 DEF ListsAwaits
  <2> QED
    BY <2>1, <2>3, ListsOne
<1>2. \A k, x : Lists!Request(k, x).kind = k
  BY DEF Lists!Request
<1>3. ASSUME NEW n \in Lists!Pages, Lists!HandlePageChange(n) PROVE ListsTable'
  <2>1. PICK q : q = Lists!ListRequest(n, FALSE)
    OBVIOUS
  <2>2. q.kind = "list" /\ q.n = n /\ q.answer = "sent"
    BY <2>1 DEF Lists!ListRequest, Lists!Request
  <2>3. flight' = {q} /\ page' = n
    BY <1>3, <2>1, ListsReady DEF Lists!HandlePageChange, Lists!Ask
  <2>4. ListsAwaits(q)'
    BY <2>2, <2>3 DEF ListsAwaits
  <2> QED
    BY <2>3, <2>4, ListsOne
<1>4. ASSUME NEW i \in DOMAIN rows,
             \/ Lists!OpenView(i) \/ Lists!SendMail(i) \/ Lists!OpenEdit(i)
      PROVE  ListsTable'
  <2>1. PICK k \in {"cart", "mail", "edit"} : Lists!Ask(Lists!Request(k, rows[i].id))
    BY <1>4 DEF Lists!OpenView, Lists!SendMail, Lists!OpenEdit
  <2>2. Lists!Acts /\ UNCHANGED <<page, rows>>
    BY <1>4 DEF Lists!OpenView, Lists!SendMail, Lists!OpenEdit, Lists!list
  <2> QED
    BY <1>1, <1>2, <2>1, <2>2
<1>5. ASSUME Lists!Acts, UNCHANGED <<page, rows, flight>> PROVE ListsTable'
  <2>1. ListsNow' = ListsNow /\ ListsSame' = ListsSame
    BY <1>5, ListsReady, ListsSameNow
  <2> QED
    BY <1>5, <2>1, ListsReady, ListsNone
<1>6. ASSUME NEW i \in DOMAIN rows, Lists!OpenSeo(i) PROVE ListsTable'
  BY <1>5, <1>6 DEF Lists!OpenSeo, Lists!list
<1>7. CASE Lists!OpenAdd
  BY <1>5, <1>7 DEF Lists!OpenAdd, Lists!list
<1>8. CASE Lists!Close
  <2>1. /\ flight' = {r \in flight : r.kind # "cart"}
        /\ UNCHANGED <<catalog, active, order, page, rows, patient, strayed>>
    BY <1>8 DEF Lists!Close, Lists!CloseDrawer, Lists!server, Lists!list
  <2> QED
    BY <2>1, ListsCartLeaves
<1>9. CASE Lists!HandleSubmit
  <2> DEFINE u == drawerMode = "edit" /\ drawerItem # None
             q == [Lists!Request(IF u THEN "save" ELSE "create", IF u THEN drawerItem ELSE None)
                     EXCEPT !.text = formData]
  <2>1. q.kind \in {"save", "create"}
    BY DEF Lists!Request
  <2>2. Lists!Ask(q)
    BY <1>9 DEF Lists!HandleSubmit
  <2>3. Lists!Acts /\ UNCHANGED <<page, rows>>
    BY <1>9 DEF Lists!HandleSubmit, Lists!list
  <2> HIDE DEF q
  <2> QED
    BY <1>1, <2>1, <2>2, <2>3
<1>10. CASE Lists!SaveSeo \/ Lists!DeleteFromFooter
  <2>1. PICK k \in {"seo", "delete"} : Lists!Ask(Lists!Request(k, drawerItem))
    BY <1>10 DEF Lists!SaveSeo, Lists!DeleteFromFooter
  <2>2. Lists!Acts /\ UNCHANGED <<page, rows>>
    BY <1>10 DEF Lists!SaveSeo, Lists!DeleteFromFooter, Lists!list
  <2> QED
    BY <1>1, <1>2, <2>1, <2>2
<1>11. ASSUME NEW i \in DOMAIN rows, Lists!ToggleActive(i) PROVE ListsTable'
  <2>1. PICK q : q = [Lists!Request("toggle", rows[i].id) EXCEPT !.n = i, !.was = rows[i].active]
    OBVIOUS
  <2>2. /\ q.kind = "toggle" /\ q.of = rows[i].id /\ q.n = i /\ q.was = rows[i].active
        /\ q.answer = "sent"
    BY <2>1 DEF Lists!Request
  <2>3. /\ Lists!Acts /\ Lists!Ask(q) /\ page' = page
        /\ rows' = [rows EXCEPT ![i].active = ~@]
    BY <1>11, <2>1 DEF Lists!ToggleActive
  <2>4. /\ flight' = {q} /\ UNCHANGED <<catalog, active, order, strayed>>
        /\ strayed \/ (rows = ListsNow /\ ListsSame)
    BY <2>3, ListsReady DEF Lists!Ask
  <2>5. ListsNow' = ListsNow /\ ListsSame' = ListsSame
    BY <2>3, <2>4, ListsSameNow
  <2>6. rows' = ListsTurned(rows, i)
    BY <2>3, TurnedRow DEF ListsInv, Lists!TypeOK
  <2>7. strayed' \/ ListsAwaits(q)'
    BY <2>2, <2>4, <2>5, <2>6 DEF ListsAwaits, ListsToggled
  <2> QED
    BY <2>4, <2>7, ListsOne
<1> QED
  BY <1>3, <1>4, <1>6, <1>7, <1>8, <1>9, <1>10, <1>11 DEF Lists!Operator

LEMMA ListsTableServes ==
  ASSUME ListsInv, ListsTable, patient, NEW r \in flight, Lists!Serve(r)
  PROVE  ListsTable'
<1>1. flight = {r} /\ r \in Lists!Requests /\ ListsRequest(r) /\ r.answer = "sent"
  BY DEF ListsTable, ListsInv, ListsFlight, ListsRequest, Lists!Serve
<1>2. UNCHANGED <<page, rows, strayed>> /\ (strayed \/ ListsAwaits(r))
  BY DEF ListsTable, Lists!Serve, Lists!list
<1>3. ASSUME NEW a \in {"ok", "failed", "lost"}, NEW s, Lists!Answer(r, a, s)
      PROVE  \E q : /\ flight' = {q} /\ q.kind = r.kind /\ q.of = r.of /\ q.n = r.n
                    /\ q.was = r.was /\ q.answer = a /\ q.says = s
  <2>1. PICK q : q = [r EXCEPT !.answer = a, !.says = s]
    OBVIOUS
  <2>2. /\ q.kind = r.kind /\ q.of = r.of /\ q.n = r.n
        /\ q.was = r.was /\ q.answer = a /\ q.says = s
    BY <1>1, <2>1 DEF Lists!Requests
  <2>3. flight' = {q}
    BY <1>1, <1>3, <2>1 DEF Lists!Answer
  <2> QED
    BY <2>2, <2>3
<1>4. ASSUME NEW a \in {"ok", "failed", "lost"}, NEW s, Lists!Answer(r, a, s),
             UNCHANGED <<Lists!server, order>>, a # "failed" => r.kind \notin {"list", "toggle"}
      PROVE  ListsTable'
  <2>1. PICK q : /\ flight' = {q} /\ q.kind = r.kind /\ q.of = r.of /\ q.n = r.n
                 /\ q.was = r.was /\ q.answer = a /\ q.says = s
    BY <1>3, <1>4
  <2>2. ListsNow' = ListsNow /\ ListsSame' = ListsSame
    BY <1>2, <1>4, ListsSameNow DEF Lists!server
  <2>3. strayed' \/ ListsAwaits(q)'
    BY <1>1, <1>2, <1>4, <2>1, <2>2 DEF ListsAwaits, ListsToggled
  <2> QED
    BY <2>1, <2>3, ListsOne
<1>5. CASE Lists!Answer(r, "failed", <<>>) /\ UNCHANGED <<Lists!server, order>>
  BY <1>4, <1>5
<1>6. ASSUME NEW a \in {"ok", "lost"}, NEW s, Lists!Answer(r, a, s), Lists!Effect(r),
             Lists!Finds(r), order' = (IF r.kind = "list" THEN catalog ELSE order),
             a = "ok" => s = Lists!Says(r)', r.kind = "list" => a = "ok"
      PROVE  ListsTable'
  <2>1. CASE r.kind \in {"create", "delete"}
    <3>1. PICK q : flight' = {q} /\ q.kind = r.kind /\ q.answer = a
      BY <1>3, <1>6
    <3>2. ListsAwaits(q)'
      BY <1>6, <2>1, <3>1 DEF ListsAwaits
    <3> QED
      BY <3>1, <3>2, ListsOne
  <2>2. CASE r.kind = "toggle"
    <3>1. PICK q : /\ flight' = {q} /\ q.kind = r.kind /\ q.of = r.of /\ q.n = r.n
                   /\ q.was = r.was /\ q.answer = a /\ q.says = s
      BY <1>3, <1>6
    <3>2. PICK x \in Items : x = r.of
      BY <1>1, <2>2 DEF ListsRequest, Lists!Requests
    <3>3. active' = [active EXCEPT ![x] = ~@] /\ catalog' = catalog /\ order' = order
      BY <1>6, <2>2, <3>2 DEF Lists!Effect
    <3>4. a = "ok" => s = <<Lists!Row(x)'>>
      BY <1>6, <2>2, <3>2 DEF Lists!Says
    <3>5. CASE strayed
      BY <1>2, <3>1, <3>5, ListsOne
    <3>6. CASE ~strayed
      <4>1. /\ r.n \in DOMAIN ListsNow /\ ListsNow[r.n].id = x
            /\ rows = ListsTurned(ListsNow, r.n)
        BY <1>1, <1>2, <2>2, <3>2, <3>6 DEF ListsAwaits, ListsToggled
      <4>2. PICK j \in DOMAIN ListsNow : j = r.n
        BY <4>1
      <4>3. ListsNow' = ListsTurned(ListsNow, j) /\ Lists!Row(x)' = ListsNow'[j]
        BY <1>2, <3>3, <4>1, <4>2, NowTurns
      <4>now. PICK now \in Seq(Lists!Rows) : now = ListsNow
        BY ListsNowRows
      <4>turned. /\ j \in DOMAIN now /\ DOMAIN ListsTurned(now, j) = DOMAIN now
            /\ ListsTurned(now, j)[j] = [id |-> now[j].id, active |-> ~now[j].active]
        BY <4>now, TurnedRow
      <4>4. DOMAIN ListsNow' = DOMAIN ListsNow /\ ListsNow'[j].id = x
        BY <4>1, <4>2, <4>3, <4>now, <4>turned
      <4>5. rows' = ListsNow' /\ (a = "ok" => s = <<ListsNow'[j]>>)
        BY <1>2, <3>4, <4>1, <4>2, <4>3
      <4>6. ListsAwaits(q)'
        <5>1. ListsSame'
          BY <1>2, <2>2, <3>3, <3>6, ListsSameNow DEF ListsAwaits
        <5> QED
          BY <1>6, <2>2, <3>1, <3>2, <4>2, <4>4, <4>5, <5>1 DEF ListsAwaits, ListsToggled
      <4> QED
        BY <3>1, <4>6, ListsOne
    <3> QED
      BY <3>5, <3>6
  <2>3. CASE r.kind = "list"
    <3>1. UNCHANGED <<catalog, active>> /\ order' = catalog /\ s = Lists!PageOf(catalog, r.n)'
      BY <1>6, <2>3 DEF Lists!Effect, Lists!server, Lists!Says
    <3>2. PICK q : /\ flight' = {q} /\ q.kind = r.kind /\ q.n = r.n
                   /\ q.answer = a /\ q.says = s
      BY <1>3, <1>6
    <3>3. ListsSame'
      BY <3>1 DEF ListsSame, ListedIn, Lists!Listed
    <3>4. r.n = page => s = ListsNow'
      BY <1>2, <3>1 DEF ListsNow, Lists!PageOf, Lists!Row
    <3>5. strayed' \/ ListsAwaits(q)'
      BY <1>2, <2>3, <3>2, <3>3, <3>4 DEF ListsAwaits
    <3> QED
      BY <3>2, <3>5, ListsOne
  <2>4. CASE r.kind = "save"
    <3>1. PICK q : flight' = {q} /\ q.kind = r.kind
      BY <1>3, <1>6
    <3>2. active' = active /\ order' = order /\ page' = page
      BY <1>2, <1>6, <2>4 DEF Lists!Effect
    <3>3. ListedIn(catalog') = ListedIn(catalog)
      BY <1>6, <2>4, ListsEffect
    <3>4. ListsNow' = ListsNow /\ ListsSame' = ListsSame
      BY <3>2, <3>3, ListsSameNow DEF ListsSame, ListedIn, Lists!Listed
    <3>5. strayed' \/ ListsAwaits(q)'
      BY <1>2, <2>4, <3>1, <3>4 DEF ListsAwaits
    <3> QED
      BY <3>1, <3>5, ListsOne
  <2>5. CASE r.kind \notin {"create", "delete", "toggle", "list", "save"}
    <3>1. UNCHANGED <<Lists!server, order>>
      BY <1>6, <2>5 DEF Lists!Effect
    <3> QED
      BY <1>4, <1>6, <2>5, <3>1
  <2> QED
    BY <2>1, <2>2, <2>3, <2>4, <2>5
<1>7. \/ Lists!Answer(r, "failed", <<>>) /\ UNCHANGED <<Lists!server, order>>
      \/ /\ Lists!Finds(r) /\ Lists!Effect(r) /\ Lists!Answer(r, "ok", Lists!Says(r)')
         /\ order' = IF r.kind = "list" THEN catalog ELSE order
      \/ /\ Lists!Finds(r) /\ Lists!Effect(r) /\ Lists!Answer(r, "lost", <<>>)
         /\ order' = order /\ r.kind # "list"
  BY DEF Lists!Serve, Lists!Writes
<1> QED
  BY <1>5, <1>6, <1>7

LEMMA ListsTableArrives ==
  ASSUME ListsInv, ListsTable, patient, NEW r \in flight, Lists!Arrive(r)
  PROVE  ListsTable'
<1>1. flight = {r} /\ r \in Lists!Requests /\ Lists!Rest(r) = {} /\ (strayed \/ ListsAwaits(r))
  BY DEF ListsTable, ListsInv, ListsFlight, ListsRequest, Lists!Rest
<1>2. r.answer \in {"sent", "ok", "failed", "lost"}
  BY <1>1 DEF Lists!Requests
<1>3. ASSUME NEW kinds, Lists!Hears(r, kinds)
      PROVE  /\ r.answer \in {"ok", "failed", "lost"} /\ r.kind \in kinds
             /\ UNCHANGED <<catalog, active, order>>
             /\ strayed' \/ (~strayed /\ r.answer # "lost" /\ ~(r.kind = "list" /\ r.answer = "failed"))
  BY <1>2, <1>3 DEF Lists!Hears, Lists!server
<1>4. CASE Lists!ListArrives(r)
  <2>1. flight' = {}
    BY <1>1, <1>4 DEF Lists!ListArrives, Lists!CloseDrawer
  <2>2. page' = page /\ rows' = (IF r.answer = "ok" THEN r.says ELSE rows)
        /\ Lists!Hears(r, {"list"})
    BY <1>4 DEF Lists!ListArrives
  <2>3. ListsNow' = ListsNow /\ ListsSame' = ListsSame
    BY <1>3, <2>2, ListsSameNow
  <2>4. strayed' \/ (rows' = ListsNow' /\ ListsSame')
    BY <1>1, <1>3, <2>2, <2>3 DEF ListsAwaits
  <2> QED
    BY <2>1, <2>4, ListsNone
<1>5. CASE Lists!CartArrives(r) \/ Lists!EditArrives(r) \/ Lists!MessageArrives(r)
  <2>1. PICK kinds \in SUBSET {"cart", "edit", "mail", "save", "seo"} : Lists!Hears(r, kinds)
    BY <1>5 DEF Lists!CartArrives, Lists!EditArrives, Lists!MessageArrives
  <2>2. flight' = {} /\ UNCHANGED <<page, rows>>
    BY <1>1, <1>5 DEF Lists!CartArrives, Lists!EditArrives, Lists!MessageArrives, Lists!list
  <2>3. ListsNow' = ListsNow /\ ListsSame' = ListsSame
    BY <1>3, <2>1, <2>2, ListsSameNow
  <2>4. strayed' \/ (rows' = ListsNow' /\ ListsSame')
    BY <1>1, <1>3, <2>1, <2>2, <2>3 DEF ListsAwaits
  <2> QED
    BY <2>2, <2>4, ListsNone
<1>6. CASE Lists!ChangeArrives(r)
  <2>1. Lists!Hears(r, {"create", "delete"}) /\ UNCHANGED <<page, rows>>
    BY <1>6 DEF Lists!ChangeArrives
  <2>2. CASE r.answer = "ok"
    <3>1. PICK q : q = Lists!ListRequest(page, r.kind = "create")
      OBVIOUS
    <3>2. flight' = {q}
      BY <1>1, <1>6, <2>2, <3>1 DEF Lists!ChangeArrives
    <3>3. q.kind = "list" /\ q.n = page /\ q.answer = "sent"
      BY <3>1 DEF Lists!ListRequest, Lists!Request
    <3>4. ListsAwaits(q)'
      BY <2>1, <3>3 DEF ListsAwaits
    <3> QED
      BY <3>2, <3>4, ListsOne
  <2>3. CASE r.answer # "ok"
    <3>1. flight' = {}
      BY <1>1, <1>6, <2>3 DEF Lists!ChangeArrives
    <3>2. ListsNow' = ListsNow /\ ListsSame' = ListsSame
      BY <1>3, <2>1, ListsSameNow
    <3>3. strayed' \/ (rows' = ListsNow' /\ ListsSame')
      BY <1>1, <1>3, <2>1, <2>3, <3>2 DEF ListsAwaits
    <3> QED
      BY <3>1, <3>3, ListsNone
  <2> QED
    BY <2>2, <2>3
<1>7. CASE Lists!ToggleArrives(r)
  <2>1. Lists!Hears(r, {"toggle"}) /\ flight' = {} /\ page' = page
    BY <1>1, <1>7 DEF Lists!ToggleArrives
  <2>2. ListsNow' = ListsNow /\ ListsSame' = ListsSame
    BY <1>3, <2>1, ListsSameNow
  <2>3. CASE strayed'
    BY <2>1, <2>3, ListsNone
  <2>4. CASE ~strayed'
    <3>1. /\ r.n \in DOMAIN ListsNow /\ r.answer \in {"ok", "failed"}
          /\ r.answer = "failed" => r.was = ListsNow[r.n].active /\ rows = ListsTurned(ListsNow, r.n)
          /\ r.answer = "ok" => rows = ListsNow /\ r.says = <<ListsNow[r.n]>>
      BY <1>1, <1>3, <2>1, <2>4 DEF ListsAwaits, ListsToggled
    <3>2. PICK j \in DOMAIN ListsNow : j = r.n
      BY <3>1
    <3>3. /\ ListsNow \in Seq(Lists!Rows) /\ rows \in Seq(Lists!Rows) /\ Len(rows) = Len(ListsNow)
          /\ \A i \in DOMAIN ListsNow : i # j => rows[i] = ListsNow[i]
          /\ j \in DOMAIN rows /\ rows[j].id = ListsNow[j].id
      <4>1. PICK now \in Seq(Lists!Rows) : now = ListsNow
        BY ListsNowRows
      <4>2. /\ j \in DOMAIN now /\ DOMAIN ListsTurned(now, j) = DOMAIN now
            /\ Len(ListsTurned(now, j)) = Len(now)
            /\ ListsTurned(now, j)[j] = [id |-> now[j].id, active |-> ~now[j].active]
            /\ \A i \in DOMAIN now : i # j => ListsTurned(now, j)[i] = now[i]
        BY <4>1, TurnedRow
      <4>3. rows \in Seq(Lists!Rows)
        BY DEF ListsInv, Lists!TypeOK
      <4>4. rows = ListsTurned(now, j) \/ rows = now
        BY <3>1, <3>2, <4>1
      <4>5. CASE rows = now
        BY <4>1, <4>3, <4>5
      <4>6. CASE rows = ListsTurned(now, j)
        BY <4>1, <4>2, <4>3, <4>6
      <4> QED
        BY <4>4, <4>5, <4>6
    <3>4. PICK row : row = IF r.answer = "ok" THEN r.says[1] ELSE Lists!OldRow(r)
      OBVIOUS
    <3>5. row = ListsNow[j]
      <4>1. CASE r.answer = "ok"
        BY <3>1, <3>2, <3>4, <4>1
      <4>2. CASE r.answer # "ok"
        <5>1. row = [id |-> ListsNow[j].id, active |-> ListsNow[j].active]
          BY <3>1, <3>2, <3>3, <3>4, <4>2 DEF Lists!OldRow
        <5>2. ListsNow[j] \in Lists!Rows
          BY <3>3
        <5> QED
          BY <5>1, <5>2 DEF Lists!Rows
      <4> QED
        BY <4>1, <4>2
    <3>6. PICK none : none = [id |-> None, active |-> FALSE]
      OBVIOUS
    <3>7. rows' = [i \in 1..(IF j > Len(rows) THEN j ELSE Len(rows)) |->
                     IF i = j THEN ListsNow[j] ELSE IF i \in DOMAIN rows THEN rows[i] ELSE none]
      BY <1>7, <3>2, <3>4, <3>5, <3>6 DEF Lists!ToggleArrives
    <3>8. rows' = ListsNow
      BY <3>3, <3>7, RowPut
    <3>9. ListsSame
      BY <1>1, <1>3, <2>1, <2>4 DEF ListsAwaits
    <3> QED
      BY <2>1, <2>2, <3>8, <3>9, ListsNone
  <2> QED
    BY <2>3, <2>4
<1> QED
  BY <1>4, <1>5, <1>6, <1>7 DEF Lists!Arrive

LEMMA ListsTableStep ==
  ASSUME ListsInv, ListsTable, [Lists!Next]_(Lists!vars)
  PROVE  ListsTable'
<1>1. patient' = patient
  BY DEF Lists!Next, Lists!vars, Lists!Operator, Lists!Network, Lists!Arrive, Lists!Acts,
         Lists!Hears, Lists!Serve, Lists!Close, Lists!Reset, Lists!HandlePageChange,
         Lists!OpenView, Lists!SendMail, Lists!OpenEdit, Lists!OpenSeo, Lists!ToggleActive,
         Lists!OpenAdd, Lists!HandleSubmit, Lists!SaveSeo, Lists!DeleteFromFooter,
         Lists!ListArrives, Lists!CartArrives, Lists!EditArrives, Lists!ChangeArrives,
         Lists!MessageArrives, Lists!ToggleArrives
<1>2. CASE ~patient
  BY <1>1, <1>2 DEF ListsTable
<1>3. CASE UNCHANGED Lists!vars
  <2>1. UNCHANGED <<catalog, active, order, page, rows, flight, patient, strayed>>
    BY <1>3 DEF Lists!vars, Lists!server, Lists!list
  <2>2. ListsNow' = ListsNow /\ ListsSame' = ListsSame
    BY <2>1, ListsSameNow
  <2> QED
    BY <2>1, <2>2 DEF ListsTable, ListsAwaits, ListsToggled
<1>4. CASE Lists!Reset
  <2>1. /\ flight' = {r \in flight : r.kind # "cart"}
        /\ UNCHANGED <<catalog, active, order, page, rows, patient, strayed>>
    BY <1>4 DEF Lists!Reset, Lists!server, Lists!list
  <2> QED
    BY <2>1, ListsCartLeaves
<1> QED
  BY <1>2, <1>3, <1>4, ListsTableOperator, ListsTableServes, ListsTableArrives
    DEF Lists!Next, Lists!Network

LEMMA ListsAgree ==
  ASSUME ListsTable PROVE  Lists!TableAgreesWithServer
  BY DEF ListsTable, Lists!TableAgreesWithServer, ListsNow, ListsSame, ListedIn

\* The customers' page, whose operator waits for nothing: one list is listened for, it was
\* asked for with what the page shows unless the search is about to change, and unless a
\* change that was made has yet to ask for a new one, it brings what the server has now.
Newest(f) == {r \in f : r.kind = "list" /\ r.heard}
Reloads(f) == {r \in f : r.kind \in Customers!Changes /\ r.answer = "ok"}
CustomersNow == Customers!ListOf(Customers!Query)
CustomersTable ==
  /\ \A r, q \in Newest(flight) : r = q
  /\ ~searchTimer => \A r \in Newest(flight) : r.query = Customers!Query
  /\ ~strayed /\ ~searchTimer /\ Reloads(flight) = {} =>
       /\ \A r \in Newest(flight) : r.answer = "ok" => r.rows = CustomersNow
       /\ Newest(flight) = {} => customers = CustomersNow

LEMMA CustomersSameNow ==
  UNCHANGED <<accounts, search, registeredOnly, currentPage>> => CustomersNow' = CustomersNow
  BY DEF CustomersNow, Customers!Query, Customers!ListOf, Customers!Found, Customers!Row

LEMMA CustomersSameQuery ==
  UNCHANGED <<search, registeredOnly, currentPage>> => Customers!Query' = Customers!Query
  BY DEF Customers!Query

\* A list is asked for, or the one that is listened for is answered.
LEMMA CustomersOneList ==
  ASSUME NEW q, Newest(flight') = {q}, ~searchTimer' => q.query = Customers!Query',
         ~searchTimer' /\ q.answer = "ok" => q.rows = CustomersNow'
  PROVE  CustomersTable'
  BY DEF CustomersTable

\* The list on its way, if any, stays as it is, and so does what it should bring.
LEMMA CustomersSameList ==
  ASSUME CustomersTable, Newest(flight') = Newest(flight),
         Reloads(flight') = {} => Reloads(flight) = {},
         UNCHANGED <<accounts, customers, search, registeredOnly, currentPage, searchTimer, strayed>>
  PROVE  CustomersTable'
  BY CustomersSameNow, CustomersSameQuery DEF CustomersTable

\* The list on its way is no longer what it should be: there will be another.
LEMMA CustomersListToCome ==
  ASSUME CustomersTable, Newest(flight') = Newest(flight),
         searchTimer' \/ UNCHANGED <<search, registeredOnly, currentPage, searchTimer>>,
         strayed' \/ searchTimer' \/ Reloads(flight') # {}
  PROVE  CustomersTable'
  BY CustomersSameQuery DEF CustomersTable

LEMMA OthersFly ==
  ASSUME NEW f, NEW r, r.kind # "list"
  PROVE  Newest(f \cup {r}) = Newest(f) /\ Newest(f \ {r}) = Newest(f)
  BY DEF Newest

LEMMA NewestOf ==
  ASSUME NEW f, \A r \in f : r \in Customers!Requests
  PROVE  /\ Newest(Customers!Outdated(f)) = {} /\ Newest(Customers!Left(f)) = Newest(f)
         /\ Reloads(Customers!Left(f)) = {} => Reloads(f) = {}
<1> DEFINE g(r) == IF r.kind = "list" THEN [r EXCEPT !.heard = FALSE] ELSE r
           h(r) == [r EXCEPT !.heard = r.kind = "list" /\ @]
<1>1. Customers!Outdated(f) = {g(r) : r \in f}
  BY DEF Customers!Outdated
<1>2. Customers!Left(f) = {h(r) : r \in {q \in f : q.kind # "carts"}}
  BY DEF Customers!Left
<1>3. ASSUME NEW r \in f
      PROVE  /\ g(r).kind = "list" => ~g(r).heard
             /\ h(r).kind = r.kind /\ h(r).answer = r.answer
             /\ r.kind # "list" => ~h(r).heard
  BY DEF Customers!Requests
<1>4. ASSUME NEW r \in f, r.kind = "list" PROVE h(r) = r
  <2>1. r.heard \in BOOLEAN /\ r \in Customers!Requests
    BY DEF Customers!Requests
  <2>2. (r.kind = "list" /\ r.heard) = r.heard
    BY <1>4, <2>1
  <2>3. [r EXCEPT !.heard = r.heard] = r
    BY <2>1 DEF Customers!Requests
  <2> QED
    BY <2>2, <2>3
<1> HIDE DEF g, h
<1>5. Newest(Customers!Outdated(f)) = {}
  BY <1>1, <1>3 DEF Newest
<1>6. Newest(Customers!Left(f)) \subseteq Newest(f)
  BY <1>2, <1>3, <1>4 DEF Newest
<1>7. Newest(f) \subseteq Newest(Customers!Left(f))
  BY <1>2, <1>4 DEF Newest
<1>8. ASSUME NEW r \in Reloads(f) PROVE h(r) \in Reloads(Customers!Left(f))
  <2>1. r \in f /\ r.kind \in Customers!Changes /\ r.answer = "ok" /\ r.kind # "carts"
    BY DEF Reloads, Customers!Changes
  <2>2. h(r) \in Customers!Left(f)
    BY <1>2, <2>1
  <2> QED
    BY <1>3, <2>1, <2>2 DEF Reloads
<1> QED
  BY <1>5, <1>6, <1>7, <1>8

\* Asking for the list makes the one request that is listened for.
LEMMA CustomersLoads ==
  ASSUME NEW f, \A r \in f : r \in Customers!Requests, NEW n, Customers!LoadCustomers(n, f)
  PROVE  CustomersTable'
<1>1. PICK q : q = Customers!Request("list", None)'
  OBVIOUS
<1>2. q.kind = "list" /\ q.heard /\ q.answer = "sent" /\ q.query = Customers!Query'
  BY <1>1 DEF Customers!Request
<1>3. flight' = Customers!Outdated(f) \cup {q}
  BY <1>1 DEF Customers!LoadCustomers
<1>4. Newest(flight') = {q}
  BY <1>2, <1>3, NewestOf DEF Newest
<1> QED
  BY <1>2, <1>4, CustomersOneList

LEMMA CustomersTableInit == Customers!Init => CustomersTable
<1> SUFFICES ASSUME Customers!Init PROVE CustomersTable
  OBVIOUS
<1>1. PICK q : q = Customers!Request("list", None)
  OBVIOUS
<1>2. q.kind = "list" /\ q.heard /\ q.answer = "sent" /\ q.query = Customers!Query
  BY <1>1 DEF Customers!Request
<1>3. flight = {q}
  BY <1>1 DEF Customers!Init
<1>4. Newest(flight) = {q}
  BY <1>2, <1>3 DEF Newest
<1> QED
  BY <1>2, <1>4 DEF CustomersTable

LEMMA CustomersTableOperator ==
  ASSUME CustomersInv, CustomersTable, Customers!Operator
  PROVE  CustomersTable'
<1>1. \A r \in flight : r \in Customers!Requests
  BY CustomersParts
<1>2. ASSUME NEW s, Customers!OnSearchInput(s) PROVE CustomersTable'
  <2>1. searchTimer' /\ flight' = flight
    BY <1>2 DEF Customers!OnSearchInput
  <2> QED
    BY <2>1, CustomersListToCome
<1>3. ASSUME NEW b, Customers!SetRegisteredOnly(b) PROVE CustomersTable'
  BY <1>1, <1>3, CustomersLoads DEF Customers!SetRegisteredOnly
<1>4. ASSUME NEW n, Customers!GoToPage(n) PROVE CustomersTable'
  BY <1>1, <1>4, CustomersLoads DEF Customers!GoToPage
<1>5. ASSUME NEW q, q.kind # "list", q.answer = "sent", flight' = flight \cup {q},
             UNCHANGED <<accounts, Customers!list, strayed>>
      PROVE  CustomersTable'
  <2>1. Newest(flight') = Newest(flight)
    BY <1>5, OthersFly
  <2>2. Reloads(flight') = Reloads(flight)
    BY <1>5 DEF Reloads
  <2> QED
    BY <1>5, <2>1, <2>2, CustomersSameList DEF Customers!list
<1>6. ASSUME NEW i \in DOMAIN customers, Customers!OpenCustomer(i) PROVE CustomersTable'
  <2>1. PICK q : q = Customers!Request("carts", customers[i].email)
    OBVIOUS
  <2>2. q.kind = "carts" /\ q.answer = "sent"
    BY <2>1 DEF Customers!Request
  <2>3. flight' = flight \cup {q} /\ UNCHANGED <<accounts, Customers!list, strayed>>
    BY <1>6, <2>1 DEF Customers!OpenCustomer, Customers!Acts
  <2> QED
    BY <1>5, <2>2, <2>3
<1>7. CASE Customers!Close
  <2>1. flight' = Customers!Left(flight) /\ UNCHANGED <<accounts, Customers!list, strayed>>
    BY <1>7 DEF Customers!Close, Customers!CloseDrawer, Customers!history
  <2> QED
    BY <1>1, <2>1, NewestOf, CustomersSameList DEF Customers!list
<1>8. ASSUME NEW k \in Customers!Changes, Customers!Change(k) PROVE CustomersTable'
  <2>1. PICK q : q = [Customers!Request(k, drawerCustomer.email) EXCEPT
                        !.password = IF k = "password" THEN moves' ELSE 0]
    OBVIOUS
  <2>2. q.kind # "list" /\ q.answer = "sent"
    BY <2>1 DEF Customers!Request, Customers!Changes
  <2>3. flight' = flight \cup {q} /\ UNCHANGED <<accounts, Customers!list, strayed>>
    BY <1>8, <2>1 DEF Customers!Change, Customers!Acts
  <2> QED
    BY <1>5, <2>2, <2>3
<1> QED
  BY <1>2, <1>3, <1>4, <1>6, <1>7, <1>8 DEF Customers!Operator

LEMMA CustomersTableServes ==
  ASSUME CustomersInv, CustomersTable, NEW r \in flight, Customers!Serve(r)
  PROVE  CustomersTable'
<1>1. r \in Customers!Requests /\ r.answer = "sent" /\ UNCHANGED Customers!list
  BY CustomersParts DEF Customers!Serve
<1>2. PICK q :
        /\ flight' = (flight \ {r}) \cup {q} /\ q.answer \in {"ok", "failed"}
        /\ q.kind = r.kind /\ q.heard = r.heard /\ q.query = r.query
        /\ q.answer = "ok" => accounts' = Customers!Changed(r) /\ strayed' = strayed
        /\ q.answer = "ok" /\ r.kind = "list" => q.rows = Customers!ListOf(r.query)
        /\ q.answer = "failed" => \/ UNCHANGED <<accounts, strayed>>
                                  \/ r.kind \in Customers!Changes /\ strayed'
  <2>1. CASE /\ accounts' = Customers!Changed(r)
             /\ flight' = (flight \ {r}) \cup
                  {[r EXCEPT !.answer = "ok",
                      !.rows = IF r.kind = "list" THEN Customers!ListOf(r.query) ELSE <<>>]}
             /\ UNCHANGED strayed
    <3>1. PICK s : s = IF r.kind = "list" THEN Customers!ListOf(r.query) ELSE <<>>
      OBVIOUS
    <3>2. PICK q : q = [r EXCEPT !.answer = "ok", !.rows = s]
      OBVIOUS
    <3>3. /\ q.kind = r.kind /\ q.heard = r.heard /\ q.query = r.query /\ q.answer = "ok"
          /\ q.rows = s
      BY <1>1, <3>2 DEF Customers!Requests
    <3>4. flight' = (flight \ {r}) \cup {q}
      BY <2>1, <3>1, <3>2
    <3> QED
      BY <2>1, <3>1, <3>3, <3>4
  <2>2. CASE /\ flight' = (flight \ {r}) \cup {[r EXCEPT !.answer = "failed"]}
             /\ \/ UNCHANGED <<accounts, strayed>>
                \/ r.kind \in Customers!Changes /\ strayed'
    <3>1. PICK q : q = [r EXCEPT !.answer = "failed"]
      OBVIOUS
    <3>2. q.kind = r.kind /\ q.heard = r.heard /\ q.query = r.query /\ q.answer = "failed"
      BY <1>1, <3>1 DEF Customers!Requests
    <3> QED
      BY <2>2, <3>1, <3>2
  <2> QED
    BY <2>1, <2>2 DEF Customers!Serve
<1>3. CASE r.kind = "list" /\ r.heard
  <2>1. Newest(flight) = {r}
    BY <1>3 DEF CustomersTable, Newest
  <2>2. Newest(flight') = {q}
    BY <1>2, <1>3, <2>1 DEF Newest
  <2>3. ~searchTimer' => q.query = Customers!Query'
    BY <1>1, <1>2, <2>1, CustomersSameQuery DEF CustomersTable, Customers!list
  <2>4. ~searchTimer' /\ q.answer = "ok" => q.rows = CustomersNow'
    <3> SUFFICES ASSUME ~searchTimer', q.answer = "ok" PROVE q.rows = CustomersNow'
      BY <1>2
    <3>1. accounts' = accounts
      BY <1>2, <1>3 DEF Customers!Changed
    <3>2. r.query = Customers!Query
      BY <1>1, <2>1 DEF CustomersTable, Customers!list
    <3>3. q.rows = CustomersNow
      BY <1>2, <1>3, <3>2 DEF CustomersNow
    <3> QED
      BY <1>1, <3>1, <3>3, CustomersSameNow DEF Customers!list
  <2> QED
    BY <2>2, <2>3, <2>4, CustomersOneList
<1>4. CASE r.kind \notin Customers!Changes /\ ~(r.kind = "list" /\ r.heard)
  <2>1. Newest(flight') = Newest(flight)
    BY <1>2, <1>4 DEF Newest
  <2>2. Reloads(flight') = Reloads(flight)
    BY <1>2, <1>4 DEF Reloads
  <2>3. UNCHANGED <<accounts, strayed>>
    BY <1>2, <1>4 DEF Customers!Changed, Customers!Changes
  <2> QED
    BY <1>1, <2>1, <2>2, <2>3, CustomersSameList DEF Customers!list
<1>5. CASE r.kind \in Customers!Changes
  <2>1. r.kind # "list"
    BY <1>5 DEF Customers!Changes
  <2>2. Newest(flight') = Newest(flight)
    BY <1>2, <2>1 DEF Newest
  <2>3. CASE q.answer = "ok"
    <3>1. q \in Reloads(flight')
      BY <1>2, <1>5, <2>3 DEF Reloads
    <3> QED
      BY <1>1, <2>2, <3>1, CustomersListToCome DEF Customers!list
  <2>4. CASE q.answer = "failed" /\ strayed'
    BY <1>1, <2>2, <2>4, CustomersListToCome DEF Customers!list
  <2>5. CASE q.answer = "failed" /\ UNCHANGED <<accounts, strayed>>
    <3>1. Reloads(flight) \subseteq Reloads(flight')
      BY <1>1, <1>2 DEF Reloads
    <3> QED
      BY <1>1, <2>2, <2>5, <3>1, CustomersSameList DEF Customers!list
  <2> QED
    BY <1>2, <2>3, <2>4, <2>5
<1> QED
  BY <1>3, <1>4, <1>5

LEMMA CustomersTableArrives ==
  ASSUME CustomersInv, CustomersTable, NEW r \in flight, Customers!Arrive(r)
  PROVE  CustomersTable'
<1>1. r \in Customers!Requests /\ \A o \in Customers!Rest(r) : o \in Customers!Requests
  BY CustomersParts DEF Customers!Rest
<1>2. CASE Customers!ListArrives(r)
  <2>1. /\ r.kind = "list" /\ r.answer \in {"ok", "failed"} /\ flight' = flight \ {r}
        /\ r.heard /\ r.answer = "failed" => strayed'
        /\ ~r.heard \/ r.answer # "failed" => strayed' = strayed
        /\ customers' = IF r.heard /\ r.answer = "ok" THEN r.rows ELSE customers
        /\ UNCHANGED <<accounts, currentPage, search, registeredOnly, searchTimer>>
    BY <1>1, <1>2
      DEF Customers!ListArrives, Customers!Hears, Customers!Rest, Customers!Requests,
          CustomersInv, Customers!TypeOK
  <2>2. Reloads(flight') = Reloads(flight)
    BY <2>1 DEF Reloads, Customers!Changes
  <2>3. CASE ~r.heard
    <3>1. Newest(flight') = Newest(flight)
      BY <2>1, <2>3 DEF Newest
    <3> QED
      BY <2>1, <2>2, <2>3, <3>1, CustomersSameList
  <2>4. CASE r.heard
    <3>1. r \in Newest(flight) /\ Newest(flight') = {}
      BY <2>1, <2>4 DEF CustomersTable, Newest
    <3>2. ASSUME ~strayed', ~searchTimer', Reloads(flight') = {} PROVE customers' = CustomersNow'
      <4>1. r.answer = "ok" /\ ~strayed /\ ~searchTimer /\ Reloads(flight) = {}
        BY <2>1, <2>2, <2>4, <3>2
      <4>2. r.rows = CustomersNow
        BY <3>1, <4>1 DEF CustomersTable
      <4> QED
        BY <2>1, <2>4, <4>1, <4>2, CustomersSameNow
    <3> QED
      BY <3>1, <3>2 DEF CustomersTable
  <2> QED
    BY <2>3, <2>4
<1>3. CASE Customers!CartsArrive(r) \/ Customers!ChangeFails(r)
  <2>1. /\ r.kind # "list" /\ flight' = flight \ {r}
        /\ r.kind \notin Customers!Changes \/ r.answer = "failed"
        /\ UNCHANGED <<accounts, Customers!list, strayed>>
    BY <1>3
      DEF Customers!CartsArrive, Customers!ChangeFails, Customers!Hears, Customers!Rest,
          Customers!Changes, Customers!history
  <2>2. Newest(flight') = Newest(flight)
    BY <2>1, OthersFly
  <2>3. Reloads(flight') = Reloads(flight)
    BY <2>1 DEF Reloads
  <2> QED
    BY <2>1, <2>2, <2>3, CustomersSameList DEF Customers!list
<1>4. CASE Customers!AccountChanged(r)
  BY <1>1, <1>4, CustomersLoads DEF Customers!AccountChanged, Customers!Reload
<1>5. CASE Customers!AccountDeleted(r)
  <2>1. PICK q : q = Customers!Request("list", None)
    OBVIOUS
  <2>2. /\ q.kind = "list" /\ q.heard /\ q.answer = "sent" /\ q.query = Customers!Query
        /\ q \in Customers!Requests
    BY <2>1, CustomersAsk, CustomersParts, QueryParts DEF Customers!Request
  <2>3. PICK f : f = Customers!Outdated(Customers!Rest(r)) \cup {q}
    OBVIOUS
  <2>4. \A o \in f : o \in Customers!Requests
    BY <2>2, <2>3, CustomersParts, OutdatedKeeps DEF CustomersRequest, Customers!Rest
  <2>5. Newest(f) = {q}
    BY <1>1, <2>2, <2>3, NewestOf DEF Newest
  <2>6. flight' \in {f, Customers!Left(f)} /\ UNCHANGED Customers!list
    BY <1>5, <2>1, <2>3 DEF Customers!AccountDeleted, Customers!CloseDrawer
  <2>7. Newest(flight') = {q}
    BY <2>4, <2>5, <2>6, NewestOf
  <2>8. Customers!Query' = Customers!Query
    BY <2>6, CustomersSameQuery DEF Customers!list
  <2> QED
    BY <2>2, <2>7, <2>8, CustomersOneList
<1> QED
  BY <1>2, <1>3, <1>4, <1>5 DEF Customers!Arrive

LEMMA CustomersTableStep ==
  ASSUME CustomersInv, CustomersTable, [Customers!Next]_(Customers!vars)
  PROVE  CustomersTable'
<1>1. \A r \in flight : r \in Customers!Requests
  BY CustomersParts
<1>2. CASE Customers!SearchTimer
  BY <1>1, <1>2, CustomersLoads DEF Customers!SearchTimer
<1>3. CASE Customers!Reset
  <2>1. flight' = Customers!Left(flight) /\ UNCHANGED <<accounts, Customers!list, strayed>>
    BY <1>3 DEF Customers!Reset, Customers!history
  <2> QED
    BY <1>1, <2>1, NewestOf, CustomersSameList DEF Customers!list
<1>4. CASE UNCHANGED Customers!vars
  BY <1>4, CustomersSameList DEF Customers!vars, Customers!list, Customers!history
<1> QED
  BY <1>2, <1>3, <1>4, CustomersTableOperator, CustomersTableServes, CustomersTableArrives
    DEF Customers!Next, Customers!Network

LEMMA CustomersAgree ==
  ASSUME CustomersTable PROVE Customers!TableAgreesWithServer
<1>1. flight = {} => Newest(flight) = {} /\ Reloads(flight) = {}
  BY DEF Newest, Reloads
<1> QED
  BY <1>1 DEF CustomersTable, Customers!TableAgreesWithServer, CustomersNow

\* The workflows page: a table on its way is the one that is stored.
WorkflowsAwaits(r) ==
  (r.ok => r.done) /\ (r.kind = "load" /\ r.ok => r.rows = stored)
WorkflowsTable ==
  patient =>
    /\ Len(flight) <= 1
    /\ flight = <<>> /\ heard => workflows = stored
    /\ \A i \in DOMAIN flight : WorkflowsAwaits(flight[i])

LEMMA WorkflowsOne ==
  ASSUME NEW r, Only(flight, r)', WorkflowsAwaits(r)'
  PROVE  WorkflowsTable'
<1>1. Len(flight') <= 1 /\ flight' # <<>>
  BY NotOne DEF Only
<1>2. \A i \in DOMAIN flight' : flight'[i] = r
  BY DEF Only
<1> QED
  BY <1>1, <1>2 DEF WorkflowsTable

LEMMA WorkflowsTableInit == Workflows!Init => WorkflowsTable
<1> SUFFICES ASSUME Workflows!Init PROVE WorkflowsTable
  OBVIOUS
<1> DEFINE r == Workflows!Load(FALSE)
<1>1. flight = <<r>> /\ r \in Workflows!Requests
  BY WorkflowLoads DEF Workflows!Init
<1>2. ~r.done /\ ~r.ok
  BY DEF Workflows!Load, Workflows!Ask
<1> HIDE DEF r
<1>3. Only(flight, r)
  BY <1>1, OneSent
<1>4. Len(flight) <= 1 /\ flight # <<>> /\ \A i \in DOMAIN flight : flight[i] = r
  BY <1>3, NotOne DEF Only
<1> QED
  BY <1>2, <1>4 DEF WorkflowsTable, WorkflowsAwaits

LEMMA WorkflowsTableAsks ==
  ASSUME WorkflowsInv, WorkflowsTable, patient,
         \/ \E yes \in BOOLEAN : Workflows!HandleSubmit(yes) \/ Workflows!DeleteFromFooter(yes)
         \/ \E i \in DOMAIN workflows : Workflows!ToggleEnabled(i)
  PROVE  WorkflowsTable'
<1>1. ASSUME NEW k \in {"save", "delete"}, NEW n, NEW b, NEW m, NEW c,
             Workflows!Send(Workflows!Ask(k, n, b, m, c)), Workflows!Clicks
      PROVE  WorkflowsTable'
  <2>1. PICK r : r = Workflows!Ask(k, n, b, m, c)
    OBVIOUS
  <2>2. ~r.done /\ ~r.ok
    BY <2>1 DEF Workflows!Ask
  <2>3. flight = <<>> /\ flight' = Append(flight, r)
    BY <1>1, <2>1 DEF Workflows!Send, Workflows!Clicks
  <2>4. Only(flight', r)
    BY <2>3, OneSent
  <2>5. Only(flight, r)' /\ WorkflowsAwaits(r)'
    BY <2>2, <2>4 DEF WorkflowsAwaits, Only
  <2> QED
    BY <2>5, WorkflowsOne
<1>2. ASSUME NEW yes \in BOOLEAN, Workflows!HandleSubmit(yes) PROVE WorkflowsTable'
  BY <1>1, <1>2 DEF Workflows!HandleSubmit
<1>3. ASSUME NEW yes \in BOOLEAN, Workflows!DeleteFromFooter(yes) PROVE WorkflowsTable'
  BY <1>1, <1>3 DEF Workflows!DeleteFromFooter
<1>4. ASSUME NEW i \in DOMAIN workflows, Workflows!ToggleEnabled(i) PROVE WorkflowsTable'
  BY <1>1, <1>4 DEF Workflows!ToggleEnabled
<1> QED
  BY <1>2, <1>3, <1>4

LEMMA WorkflowsTableServed ==
  ASSUME WorkflowsInv, WorkflowsTable, patient, NEW i \in DOMAIN flight,
         \/ Workflows!ListWorkflows(i) \/ Workflows!CreateWorkflow(i)
         \/ Workflows!UpdateWorkflow(i) \/ Workflows!DeleteWorkflow(i)
         \/ Workflows!Refuse(i)
  PROVE  WorkflowsTable'
<1>1. /\ flight \in Seq(Workflows!Requests) /\ flight[i] \in Workflows!Requests /\ Len(flight) <= 1
      /\ WorkflowsAwaits(flight[i])
  BY DEF WorkflowsInv, Workflows!TypeOK, WorkflowsTable
<1>2. ASSUME NEW x \in Workflows!Requests, flight' = [flight EXCEPT ![i] = x],
             WorkflowsAwaits(x)'
      PROVE  WorkflowsTable'
  <2>1. Only(flight', x)
    BY <1>1, <1>2, OneChanges
  <2>2. Only(flight, x)'
    BY <2>1 DEF Only
  <2> QED
    BY <1>2, <2>2, WorkflowsOne
<1>3. ASSUME NEW t \in Workflows!Tables, Workflows!Served(i, t),
             flight[i].kind = "load" => t = stored'
      PROVE  WorkflowsTable'
  <2>1. PICK x : x = [flight[i] EXCEPT !.done = TRUE, !.ok = TRUE, !.rows = t]
    OBVIOUS
  <2>2. x \in Workflows!Requests /\ x.done /\ x.kind = flight[i].kind /\ x.rows = t
    BY <1>1, <2>1 DEF Workflows!Requests
  <2>3. flight' = [flight EXCEPT ![i] = x]
    BY <1>1, <1>3, <2>1 DEF Workflows!Served
  <2>4. WorkflowsAwaits(x)'
    BY <1>3, <2>2 DEF WorkflowsAwaits
  <2> QED
    BY <1>2, <2>2, <2>3, <2>4
<1>4. CASE Workflows!ListWorkflows(i)
  <2>1. Workflows!Served(i, stored) /\ stored' = stored /\ stored \in Workflows!Tables
    BY <1>4 DEF Workflows!ListWorkflows, Workflows!server, WorkflowsInv, Workflows!TypeOK
  <2> QED
    BY <1>3, <2>1
<1>5. CASE Workflows!CreateWorkflow(i) \/ Workflows!UpdateWorkflow(i) \/ Workflows!DeleteWorkflow(i)
  <2>1. Workflows!Served(i, <<>>) /\ flight[i].kind # "load"
    BY <1>5 DEF Workflows!CreateWorkflow, Workflows!UpdateWorkflow, Workflows!DeleteWorkflow
  <2> QED
    BY <1>3, <2>1, WorkflowTables
<1>6. CASE Workflows!Refuse(i)
  <2>1. PICK x : x = [flight[i] EXCEPT !.done = TRUE]
    OBVIOUS
  <2>2. /\ x \in Workflows!Requests /\ x.done /\ x.kind = flight[i].kind /\ x.ok = flight[i].ok
        /\ x.rows = flight[i].rows
    BY <1>1, <2>1 DEF Workflows!Requests
  <2>3. flight' = [flight EXCEPT ![i] = x] /\ ~flight[i].done
    BY <1>1, <1>6, <2>1 DEF Workflows!Refuse
  <2>4. WorkflowsAwaits(x)'
    BY <1>1, <2>2, <2>3 DEF WorkflowsAwaits
  <2> QED
    BY <1>2, <2>2, <2>3, <2>4
<1> QED
  BY <1>4, <1>5, <1>6

LEMMA WorkflowsTableHears ==
  ASSUME WorkflowsInv, WorkflowsTable, patient, NEW i \in DOMAIN flight, NEW got \in BOOLEAN,
         Workflows!HandleAnswer(i, got)
  PROVE  WorkflowsTable'
<1> DEFINE r == flight[i]
           ok == got /\ r.ok
           rest == Cut(flight, i)
<1>1. /\ flight \in Seq(Workflows!Requests) /\ r \in Workflows!Requests /\ Len(flight) <= 1
      /\ WorkflowsAwaits(r)
  BY DEF WorkflowsInv, Workflows!TypeOK, WorkflowsTable
<1>2. /\ rest = <<>> /\ rest \o <<>> = <<>>
      /\ \A x \in Workflows!Requests : Only(rest \o <<x>>, x)
  BY <1>1, OneLeaves
<1>3. Workflows!RemoveAt(flight, i) = rest
  BY DEF Workflows!RemoveAt, Cut
<1>4. r.closes \in BOOLEAN
  BY <1>1 DEF Workflows!Requests
<1>5. stored' = stored /\ heard' = (heard /\ ok)
  BY DEF Workflows!HandleAnswer, Workflows!server
<1>6. CASE flight' = <<>>
  <2>1. heard' => workflows' = stored'
    <3> SUFFICES ASSUME heard' PROVE workflows' = stored'
      OBVIOUS
    <3>1. ok
      BY <1>5
    <3>2. r.kind = "load"
      <4> SUFFICES ASSUME r.kind # "load" PROVE FALSE
        OBVIOUS
      <4>1. flight' = rest \o <<Workflows!Load(r.closes)>>
        BY <1>3, <3>1 DEF Workflows!HandleAnswer, Workflows!Afterwards, Workflows!Reread
      <4> HIDE DEF rest, r
      <4>2. Workflows!Load(r.closes) \in Workflows!Requests
        BY <1>4, WorkflowLoads
      <4> QED
        BY <1>2, <1>6, <4>1, <4>2, NotOne
    <3>3. workflows' = r.rows
      BY <3>1, <3>2 DEF Workflows!HandleAnswer
    <3> QED
      BY <1>1, <1>5, <3>1, <3>2, <3>3 DEF WorkflowsAwaits
  <2>2. Len(<<>>) = 0 /\ DOMAIN <<>> = {}
    OBVIOUS
  <2> QED
    BY <1>6, <2>1, <2>2 DEF WorkflowsTable
<1>7. CASE flight' = rest \o <<Workflows!Load(r.closes)>>
  <2>1. PICK x \in Workflows!Requests : x = Workflows!Load(r.closes)
    BY <1>4, WorkflowLoads
  <2>2. ~x.done /\ ~x.ok
    BY <2>1 DEF Workflows!Load, Workflows!Ask
  <2>3. Only(flight', x)
    BY <1>2, <1>7, <2>1
  <2>4. Only(flight, x)' /\ WorkflowsAwaits(x)'
    BY <2>2, <2>3 DEF Only, WorkflowsAwaits
  <2> QED
    BY <2>4, WorkflowsOne
<1> HIDE DEF rest
<1>8. flight' = rest \/ flight' = rest \o <<>> \/ flight' = rest \o <<Workflows!Load(r.closes)>>
  BY <1>3 DEF Workflows!HandleAnswer, Workflows!Afterwards, Workflows!Reread
<1> QED
  BY <1>2, <1>6, <1>7, <1>8

LEMMA WorkflowsTableStep ==
  ASSUME WorkflowsInv, WorkflowsTable, [Workflows!Next]_(Workflows!vars)
  PROVE  WorkflowsTable'
<1>1. CASE \/ UNCHANGED Workflows!vars
           \/ \E i \in DOMAIN workflows : Workflows!OpenView(i) \/ Workflows!OpenEdit(i)
           \/ Workflows!OpenAdd \/ Workflows!EditForm \/ Workflows!CloseDrawer
           \/ Workflows!ResetDrawer
  <2>1. UNCHANGED <<stored, workflows, flight, heard, patient>>
    BY <1>1, SMTT(30)
      DEF Workflows!vars, Workflows!server, Workflows!OpenView, Workflows!OpenEdit,
          Workflows!OpenAdd, Workflows!EditForm, Workflows!CloseDrawer, Workflows!ResetDrawer,
          Workflows!Opened
  <2> QED
    BY <2>1 DEF WorkflowsTable, WorkflowsAwaits
<1>2. patient' = patient
  BY ZenonT(40) DEF Workflows!Next, Workflows!vars, Workflows!OpenView, Workflows!OpenEdit,
         Workflows!OpenAdd, Workflows!EditForm, Workflows!CloseDrawer, Workflows!ResetDrawer,
         Workflows!Opened, Workflows!HandleSubmit, Workflows!DeleteFromFooter,
         Workflows!ToggleEnabled, Workflows!ListWorkflows, Workflows!CreateWorkflow,
         Workflows!UpdateWorkflow, Workflows!DeleteWorkflow, Workflows!Served,
         Workflows!Refuse, Workflows!HandleAnswer
<1>3. CASE ~patient
  BY <1>2, <1>3 DEF WorkflowsTable
<1>4. CASE patient
  BY <1>1, <1>4, WorkflowsTableAsks, WorkflowsTableServed, WorkflowsTableHears
    DEF Workflows!Next
<1> QED
  BY <1>3, <1>4

LEMMA WorkflowsAgree == WorkflowsTable => Workflows!TableAgreesWithServer
  BY DEF WorkflowsTable, Workflows!TableAgreesWithServer

\* The crontab page: what an answer says of the service is so, and a page that knows of
\* the service and waits for something else knows rightly.  No job is ever switched off,
\* for none is found by its id, and so an installed service has a job in the table.
Installed == tab.ours # {}
CrontabAwaits(r) ==
  /\ r.kind \in {"jobs", "patch"} /\ known => serviceInstalled = Installed
  /\ r.step = "answered" /\ r.ok =>
       /\ r.kind \in {"status", "recheck"} => r.installed = Installed
       /\ r.kind = "install" => Installed
       /\ r.kind = "uninstall" => ~Installed
CrontabTable ==
  /\ jobs = Crontab!Seeded
  /\ \A i \in DOMAIN flight :
       flight[i].step = "read" => flight[i].kind \in {"install", "uninstall"}
  /\ patient =>
       /\ Len(flight) <= 1
       /\ flight = <<>> /\ known => serviceInstalled = Installed
       /\ \A i \in DOMAIN flight : CrontabAwaits(flight[i])

LEMMA CrontabSeeds ==
  /\ Crontab!Enabled(Crontab!Seeded) # {}
  /\ \A j \in Crontab!Jobs : Crontab!IdLength[j] # 15
<1>1. Crontab!Jobs = {"xmpp_check", "cleanup_inactive"}
  BY DEF Crontab!Jobs, Crontab!IdLength
<1>2. \A j \in Crontab!Jobs : Crontab!IdLength[j] # 15
  BY <1>1 DEF Crontab!IdLength
<1>3. "cleanup_inactive" \in Crontab!Enabled(Crontab!Seeded)
  BY <1>1 DEF Crontab!Enabled, Crontab!Seeded
<1> QED
  BY <1>2, <1>3

\* What keeps the jobs, and no request that reads the table but those that write it.
CrontabReads(f) ==
  \A i \in DOMAIN f : f[i].step = "read" => f[i].kind \in {"install", "uninstall"}

LEMMA CrontabOne ==
  ASSUME jobs' = Crontab!Seeded, CrontabReads(flight)',
         patient' => \E r : Only(flight, r)' /\ CrontabAwaits(r)'
  PROVE  CrontabTable'
<1>1. CASE patient'
  <2>1. PICK r : Only(flight, r)' /\ CrontabAwaits(r)'
    BY <1>1
  <2>2. Len(flight') <= 1 /\ flight' # <<>>
    BY <2>1, NotOne DEF Only
  <2>3. \A i \in DOMAIN flight' : flight'[i] = r
    BY <2>1 DEF Only
  <2> QED
    BY <2>1, <2>2, <2>3 DEF CrontabTable, CrontabReads
<1>2. CASE ~patient'
  BY <1>2 DEF CrontabTable, CrontabReads
<1> QED
  BY <1>1, <1>2

LEMMA CrontabTableInit == Crontab!Init => CrontabTable
<1> SUFFICES ASSUME Crontab!Init PROVE CrontabTable
  OBVIOUS
<1>1. PICK r : r = Crontab!Ask("jobs", Crontab!AJob)
  OBVIOUS
<1>2. flight = <<r>> /\ jobs = Crontab!Seeded /\ ~known
  BY <1>1 DEF Crontab!Init
<1>3. r.kind = "jobs" /\ r.step = "sent" /\ CrontabAwaits(r)
  BY <1>1, <1>2 DEF Crontab!Ask, CrontabAwaits
<1>4. Only(flight, r)
  BY <1>2, OneSent
<1>5. Len(flight) <= 1 /\ flight # <<>> /\ \A i \in DOMAIN flight : flight[i] = r
  BY <1>4, NotOne DEF Only
<1> QED
  BY <1>2, <1>3, <1>5 DEF CrontabTable

\* The page sends: an operator who waits has no other request on its way.
LEMMA CrontabTableSends ==
  ASSUME CrontabInv, CrontabTable, NEW k \in {"install", "uninstall", "patch"},
         NEW j \in Crontab!Jobs,
         Crontab!Send(Crontab!Ask(k, j)), patient => flight = <<>>,
         UNCHANGED <<jobs, tab, serviceInstalled, known, patient>>
  PROVE  CrontabTable'
<1>1. PICK r : r = Crontab!Ask(k, j)
  OBVIOUS
<1>2. r \in Crontab!Requests /\ r.kind = k /\ r.step = "sent"
  BY <1>1 DEF Crontab!Ask, Crontab!Requests, Crontab!Kinds, CrontabInv, Crontab!TypeOK
<1>3. flight' = Append(flight, r) /\ flight \in Seq(Crontab!Requests)
  BY <1>1 DEF Crontab!Send, CrontabInv, Crontab!TypeOK
<1>4. CrontabReads(flight)'
  <2>1. \A i \in DOMAIN flight' : flight'[i] = r \/ \E n \in DOMAIN flight : flight'[i] = flight[n]
    BY <1>2, <1>3, AddedTo
  <2> QED
    BY <1>2, <2>1 DEF CrontabTable, CrontabReads
<1>5. ASSUME patient PROVE Only(flight, r)' /\ CrontabAwaits(r)'
  <2>1. Only(flight', r)
    BY <1>2, <1>3, <1>5, OneSent
  <2>2. known => serviceInstalled = Installed
    BY <1>5 DEF CrontabTable
  <2> QED
    BY <1>2, <2>1, <2>2 DEF Only, CrontabAwaits, Installed
<1> QED
  BY <1>4, <1>5, CrontabOne DEF CrontabTable

\* The server answers the request, or reads the table for it.
LEMMA CrontabTableGoesOn ==
  ASSUME CrontabInv, CrontabTable, NEW i \in DOMAIN flight, NEW x \in Crontab!Requests,
         flight' = [flight EXCEPT ![i] = x], jobs' = jobs, UNCHANGED Crontab!page,
         x.step = "read" => x.kind \in {"install", "uninstall"},
         patient => CrontabAwaits(x)'
  PROVE  CrontabTable'
<1>1. flight \in Seq(Crontab!Requests)
  BY DEF CrontabInv, Crontab!TypeOK
<1>2. CrontabReads(flight)'
  <2>1. /\ DOMAIN flight' = DOMAIN flight /\ flight'[i] = x
        /\ \A j \in DOMAIN flight \ {i} : flight'[j] = flight[j]
    BY <1>1, ChangedAt
  <2> QED
    BY <2>1 DEF CrontabTable, CrontabReads
<1>3. patient' = patient
  BY DEF Crontab!page
<1>4. ASSUME patient PROVE Only(flight, x)'
  <2>1. Len(flight) <= 1
    BY <1>4 DEF CrontabTable
  <2>2. Only(flight', x)
    BY <1>1, <2>1, OneChanges
  <2> QED
    BY <2>2 DEF Only
<1> QED
  BY <1>2, <1>3, <1>4, CrontabOne DEF CrontabTable

LEMMA CrontabTableServes ==
  ASSUME CrontabInv, CrontabTable, NEW i \in DOMAIN flight,
         \/ Crontab!ListJobs(i) \/ Crontab!IsInstalled(i) \/ Crontab!GetCurrentCrontab(i)
         \/ Crontab!UpdateCrontabJob(i)
         \/ Crontab!Refuse(i) \/ \E ok \in BOOLEAN : Crontab!WriteCrontab(i, ok)
  PROVE  CrontabTable'
<1>1. PICK r : r = flight[i]
  OBVIOUS
<1>2. /\ r \in Crontab!Requests /\ tab \in Crontab!Tabs /\ jobs = Crontab!Seeded
      /\ r.step = "read" => r.kind \in {"install", "uninstall"}
      /\ patient => CrontabAwaits(r)
      /\ flight \in Seq(Crontab!Requests)
  BY <1>1 DEF CrontabInv, Crontab!TypeOK, CrontabTable
<1>3. r.kind \in Crontab!Kinds /\ r.job \in Crontab!Jobs /\ r.read \in Crontab!Tabs
  BY <1>2 DEF Crontab!Requests
<1>4. ASSUME NEW ok \in BOOLEAN, Crontab!Done(i, ok)
      PROVE  \E x \in Crontab!Requests :
               /\ flight' = [flight EXCEPT ![i] = x] /\ x.kind = r.kind /\ x.ok = ok
               /\ x.installed = Installed /\ x.step = "answered"
  <2> DEFINE b == tab.ours # {}
             x == [r EXCEPT !.step = "answered", !.ok = ok, !.installed = b]
  <2>1. b \in BOOLEAN /\ b = Installed
    BY DEF Installed
  <2>2. flight' = [flight EXCEPT ![i] = x]
    BY <1>1, <1>2, <1>4 DEF Crontab!Done
  <2> HIDE DEF b
  <2>3. /\ x \in Crontab!Requests /\ x.kind = r.kind /\ x.ok = ok /\ x.installed = b
        /\ x.step = "answered"
    BY <1>2, <1>4, <2>1 DEF Crontab!Requests
  <2> HIDE DEF x
  <2> QED
    BY <2>1, <2>2, <2>3
<1>5. CASE Crontab!ListJobs(i) \/ Crontab!IsInstalled(i) \/ Crontab!Refuse(i)
           \/ Crontab!UpdateCrontabJob(i)
  <2>1. PICK ok \in BOOLEAN :
          /\ Crontab!Done(i, ok) /\ UNCHANGED Crontab!page /\ tab' = tab /\ jobs' = jobs
          /\ ok => r.kind \in {"jobs", "status", "recheck"}
    <3>1. ~(Crontab!IdLength[r.job] = 15)
      BY <1>3, CrontabSeeds
    <3> QED
      BY <1>1, <1>5, <3>1
        DEF Crontab!ListJobs, Crontab!IsInstalled, Crontab!Refuse, Crontab!UpdateCrontabJob,
            Crontab!server
  <2>2. PICK x \in Crontab!Requests :
          /\ flight' = [flight EXCEPT ![i] = x] /\ x.kind = r.kind /\ x.ok = ok
          /\ x.installed = Installed /\ x.step = "answered"
    BY <1>4, <2>1
  <2>3. patient => CrontabAwaits(x)'
    BY <1>2, <2>1, <2>2 DEF CrontabAwaits, Installed, Crontab!page
  <2> QED
    BY <2>1, <2>2, <2>3, CrontabTableGoesOn
<1>6. CASE Crontab!GetCurrentCrontab(i)
  <2>1. PICK x : x = [r EXCEPT !.step = "read", !.read = tab]
    OBVIOUS
  <2>2. x \in Crontab!Requests /\ x.kind = r.kind /\ x.step = "read"
    BY <1>2, <2>1 DEF Crontab!Requests
  <2>3. /\ flight' = [flight EXCEPT ![i] = x] /\ jobs' = jobs /\ UNCHANGED Crontab!page
        /\ r.kind \in {"install", "uninstall"}
    BY <1>1, <1>2, <1>6, <2>1 DEF Crontab!GetCurrentCrontab, Crontab!server
  <2>4. CrontabAwaits(x)'
    BY <2>2, <2>3 DEF CrontabAwaits
  <2> QED
    BY <2>2, <2>3, <2>4, CrontabTableGoesOn
<1>7. ASSUME NEW ok \in BOOLEAN, Crontab!WriteCrontab(i, ok) PROVE CrontabTable'
  <2>1. /\ Crontab!Done(i, ok) /\ UNCHANGED <<jobs, Crontab!page>> /\ r.step = "read"
        /\ ok => tab' = [r.read EXCEPT
                  !.ours = IF r.kind = "install" THEN Crontab!Enabled(jobs) ELSE {}]
    BY <1>1, <1>7 DEF Crontab!WriteCrontab
  <2>2. PICK x \in Crontab!Requests :
          /\ flight' = [flight EXCEPT ![i] = x] /\ x.kind = r.kind /\ x.ok = ok
          /\ x.installed = Installed /\ x.step = "answered"
    BY <1>4, <2>1
  <2>3. r.kind \in {"install", "uninstall"}
    BY <1>2, <2>1
  <2>4. ok => tab'.ours = IF r.kind = "install" THEN Crontab!Enabled(jobs) ELSE {}
    BY <1>3, <2>1 DEF Crontab!Tabs
  <2>5. CrontabAwaits(x)'
    BY <1>2, <2>2, <2>3, <2>4, CrontabSeeds DEF CrontabAwaits, Installed
  <2> QED
    BY <2>1, <2>2, <2>5, CrontabTableGoesOn
<1> QED
  BY <1>5, <1>6, <1>7

\* The page hears an answer, and asks on.
LEMMA CrontabTableHears ==
  ASSUME CrontabInv, CrontabTable, NEW i \in DOMAIN flight, NEW got \in BOOLEAN,
         Crontab!Answer(i, got)
  PROVE  CrontabTable'
<1>0. PICK r : r = flight[i]
  OBVIOUS
<1>o. PICK ok \in BOOLEAN : ok = (got /\ r.ok)
  <2>1. (got /\ r.ok) \in BOOLEAN
    OBVIOUS
  <2> QED
    BY <2>1
<1> DEFINE rest == Cut(flight, i)
<1>1. /\ r \in Crontab!Requests /\ flight \in Seq(Crontab!Requests) /\ tab \in Crontab!Tabs
      /\ serviceInstalled \in BOOLEAN
      /\ patient => CrontabAwaits(r) /\ Len(flight) <= 1
  BY <1>0 DEF CrontabInv, Crontab!TypeOK, CrontabTable
<1>2. /\ r.job \in Crontab!Jobs /\ r.installed \in BOOLEAN /\ r.kind \in Crontab!Kinds
      /\ r.step = "answered" /\ Crontab!AJob \in Crontab!Jobs
      /\ ok => r.ok
  BY <1>0, <1>1, <1>o, CrontabJobs DEF Crontab!Requests, Crontab!Answer
<1>3. Crontab!RemoveAt(flight, i) = rest
  BY DEF Crontab!RemoveAt, Cut
<1>4. patient => /\ rest = <<>> /\ rest \o <<>> = <<>>
                 /\ \A x \in Crontab!Requests : Only(rest \o <<x>>, x)
  BY <1>1, OneLeaves
<1>5. UNCHANGED <<jobs, tab, patient>> /\ Installed' = Installed
  BY DEF Crontab!Answer, Crontab!server, Installed
<1>6. rest \in Seq(Crontab!Requests) /\ CrontabReads(rest)
  <2>1. \A j \in DOMAIN rest : \E k \in DOMAIN flight : rest[j] = flight[k]
    BY <1>1, CutKeeps
  <2> QED
    BY <1>1, <2>1, CutFrom DEF CrontabTable, CrontabReads
<1> HIDE DEF rest
<1>7. ASSUME flight' = rest \/ flight' = rest \o <<>>,
             patient /\ known' => serviceInstalled' = Installed
      PROVE  CrontabTable'
  <2>1. flight' = rest
    BY <1>6, <1>7
  <2>2. CrontabReads(flight)'
    BY <1>6, <2>1 DEF CrontabReads
  <2>3. patient => flight' = <<>> /\ Len(flight') <= 1 /\ DOMAIN flight' = {}
    BY <1>4, <2>1
  <2> QED
    BY <1>5, <1>7, <2>2, <2>3 DEF CrontabTable, CrontabReads
<1>8. ASSUME NEW k \in Crontab!Kinds, NEW j \in Crontab!Jobs,
             flight' = rest \o <<Crontab!Ask(k, j)>>,
             patient /\ k \in {"jobs", "patch"} /\ known' => serviceInstalled' = Installed
      PROVE  CrontabTable'
  <2>1. PICK x : x = Crontab!Ask(k, j)
    OBVIOUS
  <2>2. x.kind = k /\ x.step = "sent" /\ x \in Crontab!Requests
    BY <1>1, <2>1, CrontabAsks DEF Crontab!Ask
  <2>3. CrontabReads(flight)'
    <3>1. <<x>> \in Seq(Crontab!Requests) /\ \A n \in DOMAIN <<x>> : <<x>>[n] = x
      BY <2>2, OneOf
    <3>2. PICK one \in Seq(Crontab!Requests) : one = <<x>> /\ \A n \in DOMAIN one : one[n] = x
      BY <3>1
    <3>3. \A m \in DOMAIN (rest \o one) : \/ \E n \in DOMAIN rest : (rest \o one)[m] = rest[n]
                                          \/ \E n \in DOMAIN one : (rest \o one)[m] = one[n]
      BY <1>6, <3>2, JoinedTo
    <3>4. flight' = rest \o one
      BY <1>8, <2>1, <3>2
    <3> QED
      BY <1>6, <2>2, <3>2, <3>3, <3>4 DEF CrontabReads
  <2>4. ASSUME patient PROVE Only(flight, x)' /\ CrontabAwaits(x)'
    <3>1. Only(flight', x)
      BY <1>4, <1>8, <2>1, <2>2, <2>4
    <3> QED
      BY <1>5, <1>8, <2>2, <2>4, <3>1 DEF Only, CrontabAwaits
  <2> QED
    BY <1>5, <2>3, <2>4, CrontabOne DEF CrontabTable
<1>9. CASE r.kind = "jobs"
  <2>1. UNCHANGED <<serviceInstalled, known>>
    BY <1>0, <1>9 DEF Crontab!Answer
  <2>2. \/ flight' = rest \o <<>>
        \/ flight' = rest \o <<Crontab!Ask("status", Crontab!AJob)>>
    BY <1>0, <1>3, <1>9 DEF Crontab!Answer
  <2>3. "status" \in Crontab!Kinds
    BY DEF Crontab!Kinds
  <2> QED
    BY <1>1, <1>2, <1>5, <1>7, <1>8, <1>9, <2>1, <2>2, <2>3 DEF CrontabAwaits
<1>10. CASE r.kind \in {"status", "recheck"}
  <2>1. /\ serviceInstalled' = (IF ok THEN r.installed ELSE serviceInstalled) /\ known' = ok
        /\ flight' = rest
    BY <1>0, <1>o, <1>3, <1>10 DEF Crontab!Answer, Crontab!Shows
  <2>2. patient /\ known' => serviceInstalled' = Installed
    BY <1>1, <1>2, <1>10, <2>1 DEF CrontabAwaits
  <2> QED
    BY <1>7, <2>1, <2>2
<1>11. CASE r.kind \in {"install", "uninstall"}
  <2>1. CASE ok
    <3>1. serviceInstalled' = (r.kind = "install") /\ flight' = rest
      BY <1>0, <1>o, <1>3, <1>11, <2>1 DEF Crontab!Answer, Crontab!Shows
    <3>2. patient => serviceInstalled' = Installed
      <4>1. Installed \in BOOLEAN
        BY DEF Installed
      <4> QED
        BY <1>1, <1>2, <1>11, <2>1, <3>1, <4>1 DEF CrontabAwaits
    <3> QED
      BY <1>7, <3>1, <3>2
  <2>2. CASE ~ok
    <3>1. flight' = rest \o <<Crontab!Ask("recheck", Crontab!AJob)>>
      BY <1>0, <1>o, <1>3, <1>11, <2>2
        DEF Crontab!Answer, Crontab!AfterFailure, Crontab!Recheck
    <3>2. "recheck" \in Crontab!Kinds
      BY DEF Crontab!Kinds
    <3> QED
      BY <1>2, <1>8, <3>1, <3>2
  <2> QED
    BY <2>1, <2>2
<1>12. CASE r.kind = "patch"
  <2>1. /\ UNCHANGED <<serviceInstalled, known>>
        /\ flight' = rest \o <<Crontab!Ask("jobs", r.job)>>
    BY <1>0, <1>3, <1>12 DEF Crontab!Answer
  <2>2. "jobs" \in Crontab!Kinds
    BY DEF Crontab!Kinds
  <2> QED
    BY <1>1, <1>2, <1>5, <1>8, <1>12, <2>1, <2>2 DEF CrontabAwaits
<1> QED
  BY <1>2, <1>9, <1>10, <1>11, <1>12 DEF Crontab!Kinds

LEMMA CrontabTableStep ==
  ASSUME CrontabInv, CrontabTable, [Crontab!Next]_(Crontab!vars)
  PROVE  CrontabTable'
<1>1. CASE UNCHANGED Crontab!vars \/ Crontab!EditCrontab
  <2>1. /\ UNCHANGED <<jobs, serviceInstalled, flight, known, patient>>
        /\ tab'.ours = tab.ours
    <3>1. tab \in Crontab!Tabs
      BY DEF CrontabInv, Crontab!TypeOK
    <3> QED
      BY <1>1, <3>1
        DEF Crontab!vars, Crontab!server, Crontab!page, Crontab!EditCrontab, Crontab!Tabs
  <2> QED
    BY <2>1 DEF CrontabTable, CrontabAwaits, Installed
<1>2. CASE Crontab!HandleServiceToggle
  <2>1. PICK k \in {"install", "uninstall", "patch"} :
          Crontab!Send(Crontab!Ask(k, Crontab!AJob))
    BY <1>2 DEF Crontab!HandleServiceToggle
  <2>2. /\ patient => flight = <<>>
        /\ UNCHANGED <<jobs, tab, serviceInstalled, known, patient>>
    BY <1>2 DEF Crontab!HandleServiceToggle, Crontab!Clicks, Crontab!server
  <2> QED
    BY <2>1, <2>2, CrontabJobs, CrontabTableSends
<1>3. ASSUME NEW j \in Crontab!Jobs, Crontab!HandleJob(j) PROVE CrontabTable'
  <2>1. /\ Crontab!Send(Crontab!Ask("patch", j)) /\ (patient => flight = <<>>)
        /\ UNCHANGED <<jobs, tab, serviceInstalled, known, patient>>
    BY <1>3 DEF Crontab!HandleJob, Crontab!Clicks, Crontab!server
  <2> QED
    BY <2>1, CrontabTableSends
<1> QED
  BY <1>1, <1>2, <1>3, CrontabTableServes, CrontabTableHears DEF Crontab!Next

LEMMA CrontabAgrees == CrontabTable => Crontab!ServiceIsKnown
  BY DEF CrontabTable, Crontab!ServiceIsKnown, Installed
-----------------------------------------------------------------------------
(* The panel.                                                              *)

panelVars ==
  <<route, ListsOwn, CustomersOwn, AccessOwn, WorkflowsOwn, CrontabOwn, ResponderOwn, customers,
    active, page, rows, loading, drawerOpen, resetting, flight, heard, patient, strayed, moves>>

WayInInv == route = "access" => AccessInv
MessagesInv == route = "messages" => MailInv
PagesInv ==
  /\ route \in {"lists", "customers", "access", "workflows", "crontab", "messages"}
  /\ route = "lists" => ListsInv
  /\ route = "customers" => CustomersInv
  /\ route = "workflows" => WorkflowsInv
  /\ route = "crontab" => CrontabInv

\* One page is open, and stays open; what happens on another is none of its business.
LEMMA OnePage ==
  ASSUME [Next]_panelVars
  PROVE  /\ route' = route
         /\ route = "access" => [Access!Next]_(Access!vars)
         /\ route = "messages" => [Mail!Next]_(Mail!vars)
         /\ route = "lists" => [Lists!Next]_(Lists!vars)
         /\ route = "customers" => [Customers!Next]_(Customers!vars)
         /\ route = "workflows" => [Workflows!Next]_(Workflows!vars)
         /\ route = "crontab" => [Crontab!Next]_(Crontab!vars)
<1>1. CASE UNCHANGED panelVars
  <2>1. route' = route /\ UNCHANGED Access!vars /\ UNCHANGED Mail!vars
    BY <1>1
      DEF panelVars, AccessOwn, ResponderOwn, Access!vars, Access!shops, Access!process,
          Access!browser, Access!wizard, Mail!vars
  <2>2. UNCHANGED Lists!vars /\ UNCHANGED Customers!vars
    BY <1>1
      DEF panelVars, ListsOwn, CustomersOwn, Lists!vars, Lists!server, Lists!list, Lists!drawer,
          Customers!vars, Customers!list, Customers!drawer, Customers!history
  <2>3. UNCHANGED Workflows!vars /\ UNCHANGED Crontab!vars
    BY <1>1
      DEF panelVars, WorkflowsOwn, CrontabOwn, Workflows!vars, Workflows!server,
          Workflows!drawer, Crontab!vars, Crontab!server, Crontab!page
  <2> QED
    BY <2>1, <2>2, <2>3
<1>2. CASE Next
  BY <1>2 DEF Next, ListsPage, CustomersPage, WayIn, WorkflowsPage, CrontabPage, Messages
<1> QED
  BY <1>1, <1>2

LEMMA WayInInit == Init => WayInInv
<1> SUFFICES ASSUME Init, route = "access" PROVE AccessInv
  BY DEF WayInInv
<1>1. Access!Init
  BY DEF Init
<1> QED
  BY <1>1, PanelAssumption, WayInTypeInit, JobInit, OlderInit DEF AccessInv

LEMMA WayInStep == WayInInv /\ [Next]_panelVars => WayInInv'
<1> SUFFICES ASSUME AccessInv, route = "access", [Next]_panelVars PROVE AccessInv'
  BY OnePage DEF WayInInv
<1>1. [Access!Next]_(Access!vars)
  BY OnePage
<1> QED
  BY <1>1, PanelAssumption, WayInTypeStep, JobStep, OlderStep DEF AccessInv

LEMMA MessagesInit == Init => MessagesInv
  BY MailInit, PanelAssumption DEF Init, MessagesInv

LEMMA MessagesStep == MessagesInv /\ [Next]_panelVars => MessagesInv'
  BY OnePage, MailStep, PanelAssumption DEF MessagesInv

LEMMA PagesInit == Init => PagesInv
  BY ListsInit, CustomersInit, WorkflowsInit, CrontabInit DEF Init, PagesInv

LEMMA PagesStep == PagesInv /\ [Next]_panelVars => PagesInv'
<1> SUFFICES ASSUME PagesInv, [Next]_panelVars PROVE PagesInv'
  OBVIOUS
<1>1. CASE route = "lists"
  BY <1>1, OnePage, ListsStep DEF PagesInv
<1>2. CASE route = "customers"
  BY <1>2, OnePage, CustomersStep DEF PagesInv
<1>3. CASE route = "workflows"
  BY <1>3, OnePage, WorkflowsStep DEF PagesInv
<1>4. CASE route = "crontab"
  BY <1>4, OnePage, CrontabStep DEF PagesInv
<1>5. CASE route \in {"access", "messages"}
  BY <1>5, OnePage DEF PagesInv
<1> QED
  BY <1>1, <1>2, <1>3, <1>4, <1>5 DEF PagesInv

\* Whichever page is open, its state has its type: the lists and their drawers, the
\* customers and their accounts, the way in, the workflows, the crontab, the messages.
THEOREM TypeCorrect == Spec => []TypeOK
<1>1. WayInInv /\ MessagesInv /\ PagesInv => TypeOK
  <2>1. WayInInv => (route = "access" => Access!TypeOK)
    BY DEF WayInInv, AccessInv
  <2>2. MessagesInv => (route = "messages" => Mail!TypeOK)
    BY DEF MessagesInv, MailInv
  <2>3. PagesInv => (route = "lists" => Lists!TypeOK)
    BY ListsKeep DEF PagesInv
  <2>4. PagesInv => (route = "customers" => Customers!TypeOK)
    BY CustomersKeep DEF PagesInv
  <2>5. PagesInv => (route = "workflows" => Workflows!TypeOK)
    BY DEF PagesInv, WorkflowsInv
  <2>6. PagesInv => (route = "crontab" => Crontab!TypeOK)
    BY DEF PagesInv, CrontabInv
  <2> SUFFICES ASSUME WayInInv, MessagesInv, PagesInv PROVE TypeOK
    OBVIOUS
  <2>7. CASE route = "lists"
    BY <2>3, <2>7 DEF TypeOK
  <2>8. CASE route = "customers"
    BY <2>4, <2>8 DEF TypeOK
  <2>9. CASE route = "access"
    BY <2>1, <2>9 DEF TypeOK
  <2>10. CASE route = "workflows"
    BY <2>5, <2>10 DEF TypeOK
  <2>11. CASE route = "crontab"
    BY <2>6, <2>11 DEF TypeOK
  <2>12. CASE route = "messages"
    BY <2>2, <2>12 DEF TypeOK
  <2> QED
    BY <2>7, <2>8, <2>9, <2>10, <2>11, <2>12 DEF PagesInv
<1> QED
  BY <1>1, WayInInit, WayInStep, MessagesInit, MessagesStep, PagesInit, PagesStep, PTL
     DEF Spec, panelVars

\* Once Install has answered its client with success the process serves that shop, and
\* a shop that was there before keeps its owner, on the panel's way in.
THEOREM ShopStaysInstalled == Spec => []InstalledShopStays
<1>1. WayInInv => InstalledShopStays
  BY DEF WayInInv, InstalledShopStays, AccessInv, JobInv, ToldIsTrue, RestsAtHome, Running,
         OlderAreSafe, Access!InstalledShopStays
<1> QED
  BY <1>1, WayInInit, WayInStep, PTL DEF Spec, panelVars

\* On SQLite CreateMessage loses nothing to ArchiveInactiveCustomers, and a thread that
\* UpdateMessageThread rebuilt undisturbed is the customer's only one and up to date.
THEOREM NoMessageIsLost == Spec => []MessagesAreKept
<1>1. MessagesInv => MessagesAreKept
  BY MailIsKept DEF MessagesInv, MessagesAreKept
<1> QED
  BY <1>1, MessagesInit, MessagesStep, PTL DEF Spec, panelVars

\* What a drawer holds is of the row it was opened on, however late an answer arrives: a
\* page's text is saved to that page, a workflow's to that workflow when the operator lets
\* a closed drawer forget first, the order shown is the row's, and a password shown is the
\* one the customer signs in with unless two were asked for at once.
THEOREM DrawersKeepTheirRow == Spec => []DrawerKeepsItsRow
<1>1. PagesInv => DrawerKeepsItsRow
  <2> SUFFICES ASSUME PagesInv PROVE DrawerKeepsItsRow
    OBVIOUS
  <2>1. CASE route = "lists"
    BY <2>1, ListsKeep DEF PagesInv, DrawerKeepsItsRow
  <2>2. CASE route = "customers"
    BY <2>2, CustomersKeep DEF PagesInv, DrawerKeepsItsRow
  <2>3. CASE route = "workflows"
    BY <2>3 DEF PagesInv, DrawerKeepsItsRow, WorkflowsInv
  <2>4. CASE route \in {"access", "crontab", "messages"}
    <3>1. /\ route # "lists" /\ route # "customers" /\ route # "workflows"
          /\ route \in {"access", "crontab", "messages"} <=> TRUE
      BY <2>4
    <3> QED
      BY <3>1, Zenon DEF DrawerKeepsItsRow
  <2> QED
    BY <2>1, <2>2, <2>3, <2>4 DEF PagesInv
<1> QED
  BY <1>1, PagesInit, PagesStep, PTL DEF Spec, panelVars

\* With a page's table goes what is on its way to it.
TablesInv ==
  /\ PagesInv
  /\ route = "lists" => ListsTable
  /\ route = "customers" => CustomersTable
  /\ route = "workflows" => WorkflowsTable
  /\ route = "crontab" => CrontabTable

LEMMA TablesInit == Init => TablesInv
  BY PagesInit, ListsTableInit, CustomersTableInit, WorkflowsTableInit, CrontabTableInit
    DEF Init, TablesInv

LEMMA TablesStep == TablesInv /\ [Next]_panelVars => TablesInv'
<1> SUFFICES ASSUME TablesInv, [Next]_panelVars PROVE TablesInv'
  OBVIOUS
<1>1. PagesInv /\ PagesInv' /\ route' = route
  BY PagesStep, OnePage DEF TablesInv
<1>2. CASE route = "lists"
  BY <1>1, <1>2, OnePage, ListsTableStep DEF TablesInv, PagesInv
<1>3. CASE route = "customers"
  BY <1>1, <1>3, OnePage, CustomersTableStep DEF TablesInv, PagesInv
<1>4. CASE route = "workflows"
  BY <1>1, <1>4, OnePage, WorkflowsTableStep DEF TablesInv, PagesInv
<1>5. CASE route = "crontab"
  BY <1>1, <1>5, OnePage, CrontabTableStep DEF TablesInv, PagesInv
<1>6. CASE route \in {"access", "messages"}
  BY <1>1, <1>6 DEF TablesInv
<1> QED
  BY <1>1, <1>2, <1>3, <1>4, <1>5, <1>6 DEF PagesInv

\* Once every answer has arrived and none was lost, the table is what the server has for
\* the query the page shows: on the customers' page whatever overlapped, on the others
\* for an operator who waits for each answer; and the crontab page knows its service.
THEOREM TablesAgree == Spec => []TableAgreesWithServer
<1>1. TablesInv => TableAgreesWithServer
  <2> SUFFICES ASSUME TablesInv PROVE TableAgreesWithServer
    OBVIOUS
  <2>1. CASE route = "lists"
    BY <2>1, ListsAgree DEF TablesInv, TableAgreesWithServer
  <2>2. CASE route = "customers"
    BY <2>2, CustomersAgree DEF TablesInv, TableAgreesWithServer
  <2>3. CASE route = "workflows"
    BY <2>3, WorkflowsAgree DEF TablesInv, TableAgreesWithServer
  <2>4. CASE route = "crontab"
    BY <2>4, CrontabAgrees DEF TablesInv, TableAgreesWithServer
  <2>5. CASE route \in {"access", "messages"}
    <3>1. /\ route # "lists" /\ route # "customers" /\ route # "workflows" /\ route # "crontab"
          /\ route \in {"access", "messages"} <=> TRUE
      BY <2>5
    <3> QED
      BY <3>1, Zenon DEF TableAgreesWithServer
  <2> QED
    BY <2>1, <2>2, <2>3, <2>4, <2>5 DEF TablesInv, PagesInv
<1> QED
  BY <1>1, TablesInit, TablesStep, PTL DEF Spec, panelVars

=============================================================================
