---------------------------- MODULE CustomerSession ----------------------------
(***************************************************************************)
(* Storefront accounts and the sessions of their cabinet: CustomerSignUp,  *)
(* CustomerSignIn and CustomerSignOut (internal/handlers/public/           *)
(* customer.go), the middleware in front of every cabinet request          *)
(* (internal/middleware/customer.go) and the operator's                    *)
(* UpdateCustomerActive, UpdateCustomerPassword and DeleteCustomer         *)
(* (internal/handlers/private/customer.go), over the tables customer,      *)
(* session and the one setting that signs the cabinet's tokens.            *)
(*                                                                         *)
(* Every SQL statement is a step of its own, on either engine: no handler  *)
(* here opens a transaction.  A password is the number of resets it has    *)
(* seen, a token the session it names and the key that signed it.  Rows of *)
(* sessions that have expired are invisible to GetSession and swept by     *)
(* AddSession; both are one step here, Expire.                             *)
(***************************************************************************)
EXTENDS Naturals, Sequences

CONSTANTS
    Customers,   \* customer ids, those not yet given out included
    Addresses,   \* normalized addresses
    Sessions,    \* session ids, those not yet given out included
    Requests,    \* the requests that may run at once
    MaxResets,   \* bound: password resets per account
    Nobody, NoSession, NoKey

ASSUME ResetsAssumption == MaxResets \in Nat
ASSUME NobodyAssumption == Nobody \notin Customers \cup Addresses
ASSUME NoSessionAssumption == NoSession \notin Sessions
ASSUME NoKeyAssumption == NoKey \notin Requests

VARIABLES
    row,      \* row[i]: "none" before sign-up, "active", "blocked" or "gone"
    address,  \* address[i]: customer.email
    version,  \* version[i]: customer.password
    secret,   \* setting account_jwt_secret, named for the request that made it
    live,     \* the session rows
    owner,    \* owner[s]: the customer in session.value
    opened,   \* opened[s]: the password its sign-in was given
    signed,   \* signed[s]: the key of the token a sign-in handed out for s
    op,       \* op[r]: the handler request r runs
    pc,       \* pc[r]: the statement it is about to run
    on,       \* on[r]: its customer, or the address of a sign-up
    saw,      \* saw[r]: the password a sign-in has compared
    key,      \* key[r]: the signing key it holds
    sid,      \* sid[r]: the session of its cookie
    raced,    \* history: sessions that were stale when their row was written
    spoiled,  \* history: customers whose last block or reset failed to revoke
    barred    \* history: requests that began with their account blocked or gone

customer == <<row, address, version>>
session == <<live, owner, opened, signed>>
request == <<op, pc, on, saw, key, sid>>
history == <<raced, spoiled, barred>>
vars == <<customer, secret, session, request, history>>

Ops == {"none", "signup", "signin", "cabinet", "block", "unblock", "reset", "delete"}
Steps == {"idle", "insert", "secret", "fill", "reread", "add", "session", "account",
          "serve", "set", "revoke", "drop"}

TypeOK ==
    /\ row \in [Customers -> {"none", "active", "blocked", "gone"}]
    /\ address \in [Customers -> Addresses \cup {Nobody}]
    /\ version \in [Customers -> 0..MaxResets]
    /\ secret \in Requests \cup {NoKey}
    /\ live \subseteq Sessions
    /\ owner \in [Sessions -> Customers \cup {Nobody}]
    /\ \A s \in live : owner[s] \in Customers
    /\ opened \in [Sessions -> 0..MaxResets]
    /\ signed \in [Sessions -> Requests \cup {NoKey}]
    /\ op \in [Requests -> Ops]
    /\ pc \in [Requests -> Steps]
    /\ on \in [Requests -> Customers \cup Addresses \cup {Nobody}]
    /\ \A r \in Requests : pc[r] \in {"add", "set", "revoke", "drop"} => on[r] \in Customers
    /\ saw \in [Requests -> 0..MaxResets]
    /\ key \in [Requests -> Requests \cup {NoKey}]
    /\ sid \in [Requests -> Sessions \cup {NoSession}]
    /\ raced \subseteq Sessions
    /\ spoiled \subseteq Customers
    /\ barred \subseteq Requests

Init ==
    /\ row = [i \in Customers |-> "none"]
    /\ address = [i \in Customers |-> Nobody]
    /\ version = [i \in Customers |-> 0]
    /\ secret = NoKey
    /\ live = {}
    /\ owner = [s \in Sessions |-> Nobody]
    /\ opened = [s \in Sessions |-> 0]
    /\ signed = [s \in Sessions |-> NoKey]
    /\ op = [r \in Requests |-> "none"]
    /\ pc = [r \in Requests |-> "idle"]
    /\ on = [r \in Requests |-> Nobody]
    /\ saw = [r \in Requests |-> 0]
    /\ key = [r \in Requests |-> NoKey]
    /\ sid = [r \in Requests |-> NoSession]
    /\ raced = {}
    /\ spoiled = {}
    /\ barred = {}

-----------------------------------------------------------------------------
(* Requests.                                                               *)

\* The rows of the customer table.
Registered == {i \in Customers : row[i] \in {"active", "blocked"}}
Taken(a) == \E i \in Registered : address[i] = a

Begin(r, h, x, l) ==
    /\ pc[r] = "idle"
    /\ op' = [op EXCEPT ![r] = h]
    /\ pc' = [pc EXCEPT ![r] = l]
    /\ on' = [on EXCEPT ![r] = x]
    /\ UNCHANGED key

GoTo(r, l) == pc' = [pc EXCEPT ![r] = l]

End(r) ==
    /\ op' = [op EXCEPT ![r] = "none"]
    /\ pc' = [pc EXCEPT ![r] = "idle"]
    /\ on' = [on EXCEPT ![r] = Nobody]
    /\ saw' = [saw EXCEPT ![r] = 0]
    /\ key' = [key EXCEPT ![r] = NoKey]
    /\ sid' = [sid EXCEPT ![r] = NoSession]

\* A cabinet request is answered.
Answer(r) == End(r) /\ barred' = barred \ {r}

-----------------------------------------------------------------------------
(* Sign-up.                                                                *)

\* CreateCustomer: the address is free when it is looked up ...
CustomerSignUp(r, a) ==
    /\ ~Taken(a)
    /\ Begin(r, "signup", a, "insert")
    /\ UNCHANGED <<customer, secret, session, saw, sid, history>>

\* ... and the UNIQUE constraint decides when the row is inserted.
AnyAddress(a) == TRUE
UniqueAddress(a) == ~Taken(a)

InsertCustomer(r) ==
    /\ pc[r] = "insert"
    /\ \/ \E i \in Customers :
             /\ UniqueAddress(on[r])
             /\ row[i] = "none"
             /\ row' = [row EXCEPT ![i] = "active"]
             /\ address' = [address EXCEPT ![i] = on[r]]
             /\ UNCHANGED version
       \/ ~UniqueAddress(on[r]) /\ UNCHANGED customer
    /\ End(r)
    /\ UNCHANGED <<secret, session, history>>

-----------------------------------------------------------------------------
(* AccountSecret, which a sign-in and every cabinet request go through.    *)

\* What comes after the key: a sign-in writes its session, a request reads one.
Renew(r) == "add"
AfterSecret(r) == IF op[r] = "signin" THEN "add" ELSE "session"

\* An empty setting: a key is generated.
ReadSecret(r) ==
    /\ pc[r] = "secret"
    /\ IF secret = NoKey
       THEN key' = [key EXCEPT ![r] = r] /\ GoTo(r, "fill")
       ELSE key' = [key EXCEPT ![r] = secret] /\ GoTo(r, AfterSecret(r))
    /\ UNCHANGED <<customer, secret, session, op, on, saw, sid, history>>

\* UPDATE setting ... WHERE value = ''.
AnySecret == TRUE
SecretIsEmpty == secret = NoKey

FillSecret(r) ==
    /\ pc[r] = "fill"
    /\ secret' = IF SecretIsEmpty THEN key[r] ELSE secret
    /\ GoTo(r, "reread")
    /\ UNCHANGED <<customer, session, op, on, saw, key, sid, history>>

\* The loser of the race takes what was stored.
RereadSecret(r) ==
    /\ pc[r] = "reread"
    /\ key' = [key EXCEPT ![r] = secret]
    /\ GoTo(r, AfterSecret(r))
    /\ UNCHANGED <<customer, secret, session, op, on, saw, sid, history>>

-----------------------------------------------------------------------------
(* Sign-in and the cabinet.                                                *)

\* CustomerByEmail, the password and the active flag of the row it read.
CustomerSignIn(r, i) ==
    /\ row[i] = "active"
    /\ Begin(r, "signin", i, "secret")
    /\ saw' = [saw EXCEPT ![r] = version[i]]
    /\ UNCHANGED <<customer, secret, session, sid, history>>

\* A session of customer i, opened with password v, that ought not to be there.
Outdated(i, v) == row[i] = "blocked" \/ v # version[i]

AddSession(r, s) ==
    LET i == on[r] IN
    /\ pc[r] = "add"
    /\ signed[s] = NoKey
    /\ live' = live \cup {s}
    /\ owner' = [owner EXCEPT ![s] = i]
    /\ opened' = [opened EXCEPT ![s] = saw[r]]
    /\ signed' = [signed EXCEPT ![s] = key[r]]
    /\ raced' = IF Outdated(i, saw[r]) THEN raced \cup {s} ELSE raced
    /\ End(r)
    /\ UNCHANGED <<customer, secret, spoiled, barred>>

Expire(s) ==
    /\ s \in live
    /\ live' = live \ {s}
    /\ UNCHANGED <<customer, secret, owner, opened, signed, request, history>>

\* The account behind session s is blocked or gone.
Shut(s) == row[owner[s]] # "active"

\* A request with the cookie of session s.
Cabinet(r, s) ==
    /\ signed[s] # NoKey
    /\ Begin(r, "cabinet", Nobody, "secret")
    /\ sid' = [sid EXCEPT ![r] = s]
    /\ barred' = IF Shut(s) THEN barred \cup {r} ELSE barred
    /\ UNCHANGED <<customer, secret, session, saw, raced, spoiled>>

\* The signature, and the session row.
GetSession(r) ==
    /\ pc[r] = "session"
    /\ IF signed[sid[r]] = key[r] /\ sid[r] \in live
       THEN /\ GoTo(r, "account")
            /\ on' = [on EXCEPT ![r] = owner[sid[r]]]
            /\ UNCHANGED <<op, saw, key, sid, barred>>
       ELSE Answer(r)
    /\ UNCHANGED <<customer, secret, session, raced, spoiled>>

\* CustomerByID: "the account behind the session must still exist and be
\* unblocked".
Exists(i) == i \in Registered
Unblocked(i) == row[i] = "active"

CustomerByID(r) ==
    /\ pc[r] = "account"
    /\ IF Unblocked(on[r])
       THEN GoTo(r, "serve") /\ UNCHANGED <<op, on, saw, key, sid, barred>>
       ELSE Answer(r)
    /\ UNCHANGED <<customer, secret, session, raced, spoiled>>

\* The handler itself: CustomerMe, the purchases, a download, or the sign-out.
Serve(r) ==
    /\ pc[r] = "serve"
    /\ Answer(r)
    /\ \/ UNCHANGED live
       \/ live' = live \ {sid[r]}
    /\ UNCHANGED <<customer, secret, owner, opened, signed, raced, spoiled>>

-----------------------------------------------------------------------------
(* The operator.                                                           *)

\* The statements of a handler: a block and a reset set first and revoke
\* second, so that no sign-in can slip in between; a deletion revokes first.
RevokeFirst(h) ==
    CASE h = "unblock" -> <<"set">>
      [] h = "delete" -> <<"revoke", "drop">>
      [] OTHER -> <<"revoke", "set">>
Plan(h) ==
    CASE h = "unblock" -> <<"set">>
      [] h = "delete" -> <<"revoke", "drop">>
      [] OTHER -> <<"set", "revoke">>

Proceed(r) ==
    IF Len(Plan(op[r])) = 2 /\ pc[r] = Plan(op[r])[1]
    THEN GoTo(r, Plan(op[r])[2]) /\ UNCHANGED <<op, on, saw, key, sid>>
    ELSE End(r)

\* The operator's request h for account i, which it has looked up.
Operate(r, h, i) ==
    /\ Begin(r, h, i, Plan(h)[1])
    /\ UNCHANGED <<customer, secret, session, saw, sid, history>>

\* The flag is turned: what a request will write is decided when it reads.
UpdateCustomerActive(r, i) ==
    /\ i \in Registered
    /\ Operate(r, IF row[i] = "active" THEN "block" ELSE "unblock", i)

UpdateCustomerPassword(r, i) ==
    /\ i \in Registered
    /\ Operate(r, "reset", i)

\* The one handler that does not look the account up.
DeleteCustomer(r, i) ==
    /\ row[i] # "none"
    /\ Operate(r, "delete", i)

\* SetCustomerActive: an UPDATE, which finds no row once the account is gone.
\* The requests of a customer who is let in again are no longer barred.
SetCustomerActive(r) ==
    LET i == on[r] IN
    /\ pc[r] = "set"
    /\ op[r] \in {"block", "unblock"}
    /\ row' = IF i \in Registered
              THEN [row EXCEPT ![i] = IF op[r] = "block" THEN "blocked" ELSE "active"]
              ELSE row
    /\ Proceed(r)
    /\ barred' = IF op[r] = "block" THEN barred
                 ELSE {q \in barred : owner[sid[q]] # i}
    /\ UNCHANGED <<address, version, secret, session, raced, spoiled>>

\* SetCustomerPassword, likewise.
SetCustomerPassword(r) ==
    LET i == on[r] IN
    /\ pc[r] = "set"
    /\ op[r] = "reset"
    /\ \/ /\ i \in Registered
          /\ version[i] < MaxResets
          /\ version' = [version EXCEPT ![i] = @ + 1]
       \/ i \notin Registered /\ UNCHANGED version
    /\ Proceed(r)
    /\ UNCHANGED <<row, address, secret, session, history>>

\* DELETE FROM session WHERE value = 'customer:' and the id.
RevokeCustomerSessions(r) ==
    /\ pc[r] = "revoke"
    /\ live' = {s \in live : owner[s] # on[r]}
    /\ Proceed(r)
    /\ spoiled' = spoiled \ {on[r]}
    /\ UNCHANGED <<customer, secret, owner, opened, signed, raced, barred>>

DropCustomer(r) ==
    /\ pc[r] = "drop"
    /\ row' = [row EXCEPT ![on[r]] = "gone"]
    /\ End(r)
    /\ UNCHANGED <<address, version, secret, session, history>>

-----------------------------------------------------------------------------
\* A failing statement, a hash that cannot be made, or a process crash: the
\* handler ends where it is.
Fail(r) ==
    /\ pc[r] # "idle"
    /\ spoiled' = IF pc[r] = "revoke" /\ op[r] \in {"block", "reset"}
                  THEN spoiled \cup {on[r]} ELSE spoiled
    /\ Answer(r)
    /\ UNCHANGED <<customer, secret, session, raced>>

Shop(r) ==
    \/ InsertCustomer(r)
    \/ ReadSecret(r)
    \/ FillSecret(r)
    \/ RereadSecret(r)
    \/ \E s \in Sessions : AddSession(r, s)
    \/ GetSession(r)
    \/ CustomerByID(r)
    \/ Serve(r)

Panel(r) ==
    \/ SetCustomerActive(r)
    \/ SetCustomerPassword(r)
    \/ RevokeCustomerSessions(r)
    \/ DropCustomer(r)

Arrive(r) ==
    \/ \E a \in Addresses : CustomerSignUp(r, a)
    \/ \E s \in Sessions : Cabinet(r, s)
    \/ \E i \in Customers :
          \/ CustomerSignIn(r, i)
          \/ UpdateCustomerActive(r, i)
          \/ UpdateCustomerPassword(r, i)
          \/ DeleteCustomer(r, i)

Next ==
    \/ \E r \in Requests : Shop(r) \/ Panel(r) \/ Arrive(r) \/ Fail(r)
    \/ \E s \in Sessions : Expire(s)

Spec == Init /\ [][Next]_vars

-----------------------------------------------------------------------------
(* Properties.                                                             *)

\* One account per address, though two sign-ups may both find it free.
OneAccountPerAddress ==
    \A i, j \in Registered : address[i] = address[j] => i = j

\* Every token handed out verifies: requests that find the cabinet's signing
\* key missing at the same moment agree on one key, the one that is stored.
TokensVerify == \A s \in Sessions : signed[s] # NoKey => signed[s] = secret

\* A request that begins while its account is blocked or gone is not served
\* before the operator lets the customer in again, not even with "a session
\* minted in the moment before a block".
BlockedIsNotServed == \A r \in Requests : pc[r] = "serve" => r \notin barred

\* A block or reset of account i has yet to revoke its sessions, or failed to.
Revoking(i) ==
    \/ i \in spoiled
    \/ \E r \in Requests : pc[r] = "revoke" /\ op[r] \in {"block", "reset"} /\ on[r] = i

\* A block or a reset leaves no session of the account open but those of
\* sign-ins that overlap it: setting before revoking is what makes it so.
OnlyRacesSurvive ==
    \A s \in live :
        Outdated(owner[s], opened[s]) => s \in raced \/ Revoking(owner[s])

\* "Every session the customer has open is ended" by a password reset.  The code
\* breaks this for a sign-in that overlaps it.
ResetEndsSessions ==
    \A s \in live : opened[s] # version[owner[s]] => Revoking(owner[s])
=============================================================================
