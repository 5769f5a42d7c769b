------------------------------- MODULE Responder -------------------------------
(***************************************************************************)
(* The responder's messages on the server.  A message from an address that *)
(* nobody has used yet creates a placeholder customer and a contact; every *)
(* message rebuilds its customer's thread, a row with the latest message   *)
(* and the number of unread ones.  None of this is one transaction: the    *)
(* statements of two messages interleave.  A daily job moves the customers *)
(* whose messages are all old to the archive, and the operator may delete  *)
(* a customer, with all that belongs to them, at any time.                 *)
(*                                                                         *)
(* A sender stands for one message, and for the ids its request creates.   *)
(***************************************************************************)
EXTENDS Naturals, FiniteSets

CONSTANTS Senders, Addresses, Buyer, None, MaxDay

VARIABLES
  addressOf,            \* the address each message comes from
  customers,            \* ids of the customers there are
  contacts,             \* contact id -> address and customer
  messages,             \* message id -> contact, day, read
  threads,              \* rows: id, customer, latest message, number unread
  archived, leaving,    \* archived messages; customers copied but not yet deleted
  forgotten,            \* history: messages whose customer the operator deleted
  pc, my,               \* where each request is, and what it has read
  stale,                \* customers whose thread was overtaken by something
  day,
  dialect               \* the database the shop runs on

ConstantsTyped ==
  /\ IsFiniteSet(Senders) /\ Buyer \notin Senders /\ None \notin Senders \cup {Buyer}
  /\ MaxDay \in Nat

vars == <<addressOf, customers, contacts, messages, threads, archived, leaving, forgotten,
          pc, my, stale, day, dialect>>
-----------------------------------------------------------------------------
Customers == Senders \cup {Buyer}
Steps == {"idle", "customer", "contact", "message", "created", "latest", "clear", "put",
          "ok", "failed"}
Reads == [contact: Senders \cup {None}, cust: Customers \cup {None},
          last: Senders \cup {None}, unread: 0..Cardinality(Senders)]
Nothing == [contact |-> None, cust |-> None, last |-> None, unread |-> 0]
Of(c) == {m \in DOMAIN messages : contacts[messages[m].contact].cust = c}
Unread(c) == Cardinality({m \in Of(c) : ~messages[m].read})
Latest(c) == {m \in Of(c) : \A n \in Of(c) : messages[n].day <= messages[m].day}

TypeOK ==
  /\ addressOf \in [Senders -> Addresses] /\ customers \subseteq Customers
  /\ DOMAIN contacts \subseteq Senders
  /\ \A k \in DOMAIN contacts : contacts[k] \in [address: Addresses, cust: customers]
  /\ \A m \in DOMAIN messages :
       messages[m] \in [contact: DOMAIN contacts, day: 0..MaxDay, read: BOOLEAN]
  /\ \A t \in threads : t.cust \in customers /\ t.last \in Senders /\ t.row \in Senders
  /\ archived \cup forgotten \subseteq Senders /\ leaving \subseteq customers
  /\ pc \in [Senders -> Steps] /\ my \in [Senders -> Reads]
  /\ stale \subseteq Customers /\ day \in 0..MaxDay
  /\ dialect \in {"sqlite", "postgres"}

Init ==
  /\ addressOf \in [Senders -> Addresses] /\ customers = {Buyer}
  /\ contacts = <<>> /\ messages = <<>> /\ threads = {}
  /\ archived = {} /\ leaving = {} /\ forgotten = {}
  /\ pc = [s \in Senders |-> "idle"] /\ my = [s \in Senders |-> Nothing]
  /\ stale = {} /\ day = 0 /\ dialect \in {"sqlite", "postgres"}
-----------------------------------------------------------------------------
(* CreateMessage, statement by statement.                                  *)
Put(f, k, v) == [x \in DOMAIN f \cup {k} |-> IF x = k THEN v ELSE f[x]]
Go(s, here, next) == pc[s] = here /\ pc' = [pc EXCEPT ![s] = next]
Known(a) == {k \in DOMAIN contacts : contacts[k].address = a}
Later == UNCHANGED <<addressOf, archived, leaving, forgotten, day, dialect>>

GetContact(s) ==
  LET k == Known(addressOf[s]) IN
  /\ Go(s, "idle", IF k = {} THEN "customer" ELSE "message")
  /\ \/ \E c \in k : my' = [my EXCEPT ![s].contact = c, ![s].cust = contacts[c].cust]
     \/ k = {} /\ UNCHANGED my
  /\ Later /\ UNCHANGED <<customers, contacts, messages, threads, stale>>
CreateCustomer(s) ==
  /\ Go(s, "customer", "contact") /\ customers' = customers \cup {s}
  /\ Later /\ UNCHANGED <<contacts, messages, threads, my, stale>>
\* The address is unique: the loser of a race fails, and its customer stays.  A
\* contact needs its customer, which the operator may have deleted.
CreateContact(s) ==
  LET free == Known(addressOf[s]) = {} /\ s \in customers IN
  /\ Go(s, "contact", IF free THEN "message" ELSE "failed")
  /\ contacts' = IF free THEN Put(contacts, s, [address |-> addressOf[s], cust |-> s])
                 ELSE contacts
  /\ my' = IF free THEN [my EXCEPT ![s].contact = s, ![s].cust = s] ELSE my
  /\ Later /\ UNCHANGED <<customers, messages, threads, stale>>

Rebuilding(c) == {s \in Senders : pc[s] \in {"created", "latest", "clear", "put"} /\ my[s].cust = c}
\* A message needs its contact, which the archive or the operator may have taken away.
InsertMessage(s) ==
  LET there == my[s].contact \in DOMAIN contacts
      c == my[s].cust
      alone == Rebuilding(c) = {} /\ contacts[my[s].contact].cust = c
  IN
  /\ Go(s, "message", IF there THEN "created" ELSE "failed")
  /\ messages' = IF there THEN Put(messages, s, [contact |-> my[s].contact, day |-> day,
                                                 read |-> FALSE]) ELSE messages
  /\ stale' = IF ~there THEN stale
              ELSE IF alone THEN stale \ {c} ELSE stale \cup {c, contacts[my[s].contact].cust}
  /\ Later /\ UNCHANGED <<customers, contacts, threads, my>>

\* The row's time is read back: the request fails when the row has gone meanwhile.
ReadCreated(s) ==
  /\ Go(s, "created", IF s \in DOMAIN messages THEN "latest" ELSE "failed")
  /\ stale' = IF s \in DOMAIN messages THEN stale ELSE stale \cup {my[s].cust}
  /\ Later /\ UNCHANGED <<customers, contacts, messages, threads, my>>

\* UpdateMessageThread: a failure in it is only logged.
ReadLatest(s) ==
  LET c == my[s].cust IN
  /\ Go(s, "latest", IF Of(c) = {} THEN "ok" ELSE "clear")
  /\ \/ \E m \in Latest(c) : my' = [my EXCEPT ![s].last = m, ![s].unread = Unread(c)]
     \/ Of(c) = {} /\ UNCHANGED my
  /\ Later /\ UNCHANGED <<customers, contacts, messages, threads, stale>>
Rows(c) == {t \in threads : t.cust = c}
ClearThread(s) ==
  /\ Go(s, "clear", "put") /\ threads' = threads \ Rows(my[s].cust)
  /\ Later /\ UNCHANGED <<customers, contacts, messages, my, stale>>
PutThread(s) ==
  /\ Go(s, "put", "ok")
  /\ threads' = IF my[s].cust \in customers
                THEN threads \cup {[row |-> s, cust |-> my[s].cust, last |-> my[s].last,
                                    unread |-> my[s].unread]}
                ELSE threads
  /\ Later /\ UNCHANGED <<customers, contacts, messages, my, stale>>
\* A statement fails: the request fails with it, unless only the thread is left.
Fail(s) ==
  /\ \/ /\ pc[s] \in {"customer", "contact", "message"}
        /\ Go(s, pc[s], "failed") /\ UNCHANGED stale
     \/ /\ pc[s] = "created"
        /\ Go(s, pc[s], "failed") /\ stale' = stale \cup {my[s].cust}
     \/ /\ pc[s] \in {"latest", "clear", "put"}
        /\ Go(s, pc[s], "ok") /\ stale' = stale \cup {my[s].cust}
  /\ Later /\ UNCHANGED <<customers, contacts, messages, threads, my>>

\* Neither of these rebuilds a thread.
MarkMessageRead(m) ==
  /\ m \in DOMAIN messages /\ ~messages[m].read
  /\ messages' = [messages EXCEPT ![m].read = TRUE]
  /\ stale' = stale \cup {contacts[messages[m].contact].cust}
  /\ Later /\ UNCHANGED <<customers, contacts, threads, pc, my>>
LinkContact(k) ==
  /\ k \in DOMAIN contacts /\ contacts[k].cust # Buyer
  /\ Buyer \in customers /\ contacts' = [contacts EXCEPT ![k].cust = Buyer]
  /\ stale' = stale \cup {contacts[k].cust, Buyer}
  /\ Later /\ UNCHANGED <<customers, messages, threads, pc, my>>
-----------------------------------------------------------------------------
(* ArchiveInactiveCustomers: a customer with a contact and no message of   *)
(* this day.  One transaction copies and deletes; a database that does not *)
(* keep other writers out lets them in between.                            *)
Inactive == {c \in customers \ leaving : (\E k \in DOMAIN contacts : contacts[k].cust = c)
                               /\ \A m \in Of(c) : messages[m].day < day}
ReadCommitted == FALSE         \* mutant: other writers get in between
OneTransaction == dialect = "sqlite"
Gone(cs) ==
  LET ks == {k \in DOMAIN contacts : contacts[k].cust \in cs} IN
  /\ customers' = customers \ cs
  /\ contacts' = [k \in DOMAIN contacts \ ks |-> contacts[k]]
  /\ messages' = [m \in {n \in DOMAIN messages : messages[n].contact \notin ks} |-> messages[m]]
  /\ threads' = {t \in threads : t.cust \notin cs}
Copies(cs) == archived' = archived \cup UNION {Of(c) : c \in cs}
Archive ==
  /\ OneTransaction /\ Inactive # {} /\ Copies(Inactive) /\ Gone(Inactive)
  /\ UNCHANGED <<addressOf, leaving, forgotten, pc, my, stale, day, dialect>>
ArchiveCopies ==
  /\ ~OneTransaction /\ leaving = {} /\ Inactive # {}
  /\ Copies(Inactive) /\ leaving' = Inactive
  /\ UNCHANGED <<addressOf, customers, contacts, messages, threads, forgotten, pc, my, stale,
                 day, dialect>>
ArchiveDeletes ==
  /\ leaving # {} /\ Gone(leaving) /\ leaving' = {}
  /\ UNCHANGED <<addressOf, archived, forgotten, pc, my, stale, day, dialect>>
\* The operator deletes a customer, and with it its contacts, messages and thread.
DeleteCustomer(c) ==
  /\ c \in customers /\ Gone({c})
  /\ leaving' = leaving \ {c} /\ forgotten' = forgotten \cup Of(c)
  /\ UNCHANGED <<addressOf, archived, pc, my, stale, day, dialect>>
NewDay == day < MaxDay /\ day' = day + 1
          /\ UNCHANGED <<addressOf, customers, contacts, messages, threads, archived, leaving,
                         forgotten, pc, my, stale, dialect>>

Next ==
  \/ \E s \in Senders :
       \/ GetContact(s) \/ CreateCustomer(s) \/ CreateContact(s) \/ InsertMessage(s)
       \/ ReadCreated(s) \/ ReadLatest(s) \/ ClearThread(s) \/ PutThread(s) \/ Fail(s)
       \/ MarkMessageRead(s) \/ LinkContact(s)
  \/ \E c \in Customers : DeleteCustomer(c)
  \/ Archive \/ ArchiveCopies \/ ArchiveDeletes \/ NewDay

Spec == Init /\ [][Next]_vars
-----------------------------------------------------------------------------
\* A message whose sender was told it was created is stored or archived, whatever it
\* raced with (another message of a new address, a link, the archive), unless the
\* operator deleted the customer it belonged to.  (PostgreSQL lets a message in
\* between the archive's copy and its delete.)
NoMessageLost ==
  dialect = "sqlite" =>
    \A s \in Senders : pc[s] = "ok" => s \in DOMAIN messages \cup archived \cup forgotten

\* The messages page lists a customer once, with a latest message and the number of
\* unread ones, unless the rebuild of the thread was overtaken by another message,
\* a link, a read or a failure.
ThreadsAgree ==
  \A c \in customers \ stale : Of(c) # {} /\ Rebuilding(c) = {} =>
    \E t \in Rows(c) : Rows(c) = {t} /\ t.last \in Latest(c) /\ t.unread = Unread(c)

\* A customer is listed once.  The code breaks this: a thread is deleted and
\* inserted without a transaction, and two messages at once insert two.
ListedOnce == \A c \in customers : Cardinality(Rows(c)) <= 1
\* A request that fails leaves nothing behind.  The code breaks this:
\* GetOrCreateContact inserts a customer and a contact without a transaction.
NoOrphans == \A s \in Senders : pc[s] = "failed" =>
  s \notin customers \/ \E k \in DOMAIN contacts : contacts[k].cust = s
\* A registered buyer is not archived, whatever the age of their messages.  The
\* code breaks this: one who never wrote counts as inactive.
BuyerStays == Buyer \in customers
=============================================================================
