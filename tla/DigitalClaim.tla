----------------------------- MODULE DigitalClaim -----------------------------
(***************************************************************************)
(* The allocation of licence keys to paid carts: mailer.SendCartLetter,    *)
(* queries.CartLetterPurchase and claimDigitalData (internal/mailer/       *)
(* letter.go, internal/queries/cart.go), together with the operator's      *)
(* writes to the same rows (AddDigitalData, DeleteDigital and              *)
(* DeleteProduct in internal/queries/products.go).                         *)
(*                                                                         *)
(* A task is one run of SendCartLetter: a payment callback, the success    *)
(* redirect or the panel's "resend" runs it, any number of them at once    *)
(* and for the same cart too.  Every SQL statement is a step of its own.   *)
(* Under "postgres" (READ COMMITTED) a statement sees committed rows and   *)
(* its own transaction's, and an UPDATE or DELETE of a row that another    *)
(* transaction has changed waits for it.  Under "sqlite" the DSN carries   *)
(* _txlock=immediate, so a transaction holds the only write lock from      *)
(* BEGIN on, and every other writer waits.                                 *)
(***************************************************************************)
EXTENDS Naturals, Sequences

CONSTANTS
    Carts,        \* cart ids
    Products,     \* product ids
    Keys,         \* ids of digital_data rows, those not yet inserted included
    Tasks,        \* goroutines that can run SendCartLetter
    Kind,         \* Kind[p]: product.digital
    Lines,        \* Lines[c]: the products of the cart column, in its order; the
                  \* letter reads no quantity
    ProductOf,    \* ProductOf[k]: digital_data.product_id
    Stocked,      \* the rows that exist at the start
    Engines,      \* the engines the shop may be installed on
    MaxAttempts,  \* maxAttempts of claimDigitalData (100 in the code)
    Lapsing,      \* bound: the carts whose payment may be withdrawn
    Deletable,    \* bound: the rows the operator may delete one by one
    Droppable,    \* bound: the products the operator may delete
    NoCart, NoKey


ASSUME KeysAssumption == Keys \subseteq Nat /\ NoKey \notin Keys
ASSUME CartsAssumption == NoCart \notin Carts
ASSUME LinesAssumption == Lines \in [Carts -> Seq(Products)]
ASSUME KindAssumption == Kind \in [Products -> {"file", "data", "none"}]
ASSUME StockAssumption ==
    /\ ProductOf \in [Keys -> Products]
    /\ Stocked \subseteq Keys
ASSUME EngineAssumption == Engines \subseteq {"sqlite", "postgres"}
ASSUME AttemptsAssumption == MaxAttempts \in Nat \ {0}

VARIABLES
    engine,    \* the engine this shop runs on
    cart,      \* cart[c]: "open", "paid", or "lapsed" (was paid, is not any more)
    product,   \* the product rows that exist
    row,       \* row[k]: "new" (not inserted yet), "live" or "gone"
    owner,     \* owner[k]: committed digital_data.cart_id
    deleting,  \* products whose DeleteProduct has passed its guard
    pc,        \* pc[t]: the statement task t is about to run
    at,        \* at[t]: the cart task t writes to
    line,      \* line[t]: the index into Lines[at[t]]
    tries,     \* tries[t]: rounds of claimDigitalData lost on this line
    cand,      \* cand[t]: the candidate row read, not yet claimed
    claim,     \* claim[t]: rows claimed by t's transaction, not committed
    got,       \* got[t]: the keys collected for the letter
    mailed     \* history: <<c, k>> once a letter to c's buyer has held key k

shop == <<engine, cart, product, row, deleting>>
task == <<pc, at, line, tries, cand, got>>
vars == <<shop, owner, task, claim, mailed>>

InTx == {"line", "own", "free", "take"}

TypeOK ==
    /\ engine \in Engines
    /\ cart \in [Carts -> {"open", "paid", "lapsed"}]
    /\ product \subseteq Products
    /\ row \in [Keys -> {"new", "live", "gone"}]
    /\ owner \in [Keys -> Carts \cup {NoCart}]
    /\ deleting \subseteq Products
    /\ pc \in [Tasks -> {"idle", "begin", "mail"} \cup InTx]
    /\ at \in [Tasks -> Carts \cup {NoCart}]
    /\ \A t \in Tasks : pc[t] # "idle" => at[t] \in Carts
    /\ line \in [Tasks -> Nat \ {0}]
    /\ \A t \in Tasks : pc[t] \in InTx \ {"line"} => line[t] \in 1..Len(Lines[at[t]])
    /\ tries \in [Tasks -> 0..(MaxAttempts - 1)]
    /\ cand \in [Tasks -> Keys \cup {NoKey}]
    /\ \A t \in Tasks : pc[t] = "take" => cand[t] \in Keys
    /\ claim \in [Tasks -> SUBSET Keys]
    /\ got \in [Tasks -> SUBSET Keys]
    /\ mailed \subseteq Carts \X Keys

Init ==
    /\ engine \in Engines
    /\ cart = [c \in Carts |-> "open"]
    /\ product = Products
    /\ row = [k \in Keys |-> IF k \in Stocked THEN "live" ELSE "new"]
    /\ owner = [k \in Keys |-> NoCart]
    /\ deleting = {}
    /\ pc = [t \in Tasks |-> "idle"]
    /\ at = [t \in Tasks |-> NoCart]
    /\ line = [t \in Tasks |-> 1]
    /\ tries = [t \in Tasks |-> 0]
    /\ cand = [t \in Tasks |-> NoKey]
    /\ claim = [t \in Tasks |-> {}]
    /\ got = [t \in Tasks |-> {}]
    /\ mailed = {}

-----------------------------------------------------------------------------
(* Locks.                                                                  *)

\* SQLite has one writer: nobody else may write while a transaction is open.
WriteLockFree == engine = "sqlite" => \A u \in Tasks : pc[u] \notin InTx

\* Nobody else holds k: under PostgreSQL, no other transaction has changed it.
RowLockFree(t, k) == \A u \in Tasks \ {t} : k \notin claim[u]

\* The rows of product p are not held by any transaction.
ProductRowsFree(p) == \A u \in Tasks : \A k \in claim[u] : ProductOf[k] # p

-----------------------------------------------------------------------------
(* The purchase letter.                                                    *)

\* Task t leaves SendCartLetter.  A transaction that is still open rolls back.
Leave(t) ==
    /\ pc' = [pc EXCEPT ![t] = "idle"]
    /\ at' = [at EXCEPT ![t] = NoCart]
    /\ line' = [line EXCEPT ![t] = 1]
    /\ tries' = [tries EXCEPT ![t] = 0]
    /\ cand' = [cand EXCEPT ![t] = NoKey]
    /\ got' = [got EXCEPT ![t] = {}]
    /\ claim' = [claim EXCEPT ![t] = {}]

GoTo(t, label) == pc' = [pc EXCEPT ![t] = label]

\* claimDigitalData returned the keys of S for the current line.
NextLine(t, S) ==
    /\ GoTo(t, "line")
    /\ line' = [line EXCEPT ![t] = @ + 1]
    /\ tries' = [tries EXCEPT ![t] = 0]
    /\ cand' = [cand EXCEPT ![t] = NoKey]
    /\ got' = [got EXCEPT ![t] = @ \cup S]
    /\ UNCHANGED at

Wanted(t) == Lines[at[t]][line[t]]

AnyCart(c) == TRUE
MayHaveLetter(c) == cart[c] = "paid"

\* SELECT email, cart FROM cart WHERE payment_status = 'paid' AND id = c.
StartLetter(t, c) ==
    /\ pc[t] = "idle"
    /\ MayHaveLetter(c)
    /\ GoTo(t, "begin")
    /\ at' = [at EXCEPT ![t] = c]
    /\ UNCHANGED <<shop, owner, line, tries, cand, claim, got, mailed>>

BeginTx(t) ==
    /\ pc[t] = "begin"
    /\ WriteLockFree
    /\ GoTo(t, "line")
    /\ UNCHANGED <<shop, owner, at, line, tries, cand, claim, got, mailed>>

\* SELECT digital FROM product: only a product of keys claims anything.
ReadProduct(t) ==
    /\ pc[t] = "line"
    /\ line[t] <= Len(Lines[at[t]])
    /\ \/ /\ Wanted(t) \notin product
          /\ Leave(t)
       \/ /\ Wanted(t) \in product
          /\ Kind[Wanted(t)] = "data"
          /\ GoTo(t, "own")
          /\ UNCHANGED <<at, line, tries, cand, claim, got>>
       \/ /\ Wanted(t) \in product
          /\ Kind[Wanted(t)] # "data"
          /\ NextLine(t, {})
          /\ UNCHANGED claim
    /\ UNCHANGED <<shop, owner, mailed>>

\* The rows t sees as its cart's: committed ones and its own.
NoRows(t) == {}
OwnRows(t) ==
    {k \in Keys : /\ row[k] = "live"
                  /\ ProductOf[k] = Wanted(t)
                  /\ owner[k] = at[t] \/ k \in claim[t]}

\* The cart already holds a key of this product: that key is the answer.
FindOwnKey(t) ==
    /\ pc[t] = "own"
    /\ \/ \E k \in OwnRows(t) : NextLine(t, {k})
       \/ /\ OwnRows(t) = {}
          /\ GoTo(t, "free")
          /\ UNCHANGED <<at, line, tries, cand, got>>
    /\ UNCHANGED <<shop, owner, claim, mailed>>

\* The rows t sees with cart_id IS NULL.
FreeRows(t) ==
    {k \in Keys : /\ row[k] = "live"
                  /\ ProductOf[k] = Wanted(t)
                  /\ owner[k] = NoCart
                  /\ k \notin claim[t]}

\* ORDER BY id LIMIT 1; no row left ends the letter with ErrPageNotFound.
ReadCandidate(t) ==
    /\ pc[t] = "free"
    /\ \/ \E k \in FreeRows(t) :
             /\ \A j \in FreeRows(t) : k <= j
             /\ cand' = [cand EXCEPT ![t] = k]
             /\ GoTo(t, "take")
             /\ UNCHANGED <<at, line, tries, claim, got>>
       \/ /\ FreeRows(t) = {}
          /\ Leave(t)
    /\ UNCHANGED <<shop, owner, mailed>>

\* The rows an UPDATE ... WHERE id = k AND cart_id IS NULL changes, and what
\* the same UPDATE without the guard would change.
UnguardedUpdate(t, k) == row[k] = "live"
GuardedUpdate(t, k) == row[k] = "live" /\ owner[k] = NoCart /\ k \notin claim[t]

NeverGiveUp(t) == FALSE
OutOfAttempts(t) == tries[t] + 1 = MaxAttempts

\* The UPDATE waits while another transaction holds the row; it then counts
\* only if it changed a row, and a lost round starts over.
TakeKey(t) ==
    /\ pc[t] = "take"
    /\ RowLockFree(t, cand[t])
    /\ \/ /\ GuardedUpdate(t, cand[t])
          /\ claim' = [claim EXCEPT ![t] = @ \cup {cand[t]}]
          /\ NextLine(t, {cand[t]})
       \/ /\ ~GuardedUpdate(t, cand[t])
          /\ ~OutOfAttempts(t)
          /\ GoTo(t, "own")
          /\ tries' = [tries EXCEPT ![t] = @ + 1]
          /\ cand' = [cand EXCEPT ![t] = NoKey]
          /\ UNCHANGED <<at, line, claim, got>>
       \/ /\ ~GuardedUpdate(t, cand[t])
          /\ OutOfAttempts(t)
          /\ Leave(t)
    /\ UNCHANGED <<shop, owner, mailed>>

Commit(t) ==
    /\ pc[t] = "line"
    /\ line[t] > Len(Lines[at[t]])
    /\ owner' = [k \in Keys |-> IF k \in claim[t] THEN at[t] ELSE owner[k]]
    /\ claim' = [claim EXCEPT ![t] = {}]
    /\ GoTo(t, "mail")
    /\ UNCHANGED <<shop, at, line, tries, cand, got, mailed>>

\* SendMail: the claims are committed, so a failure here keeps them.
SendMail(t) ==
    /\ pc[t] = "mail"
    /\ Leave(t)
    /\ mailed' = mailed \cup ({at[t]} \X got[t])
    /\ UNCHANGED <<shop, owner>>

LeftBehind(t) == [k \in Keys |-> IF k \in claim[t] THEN at[t] ELSE owner[k]]
RolledBack(t) == owner

\* A failing statement, COMMIT or SMTP dialogue, the deadlock detector of
\* PostgreSQL, the five-second context of SendCartLetter, or a process crash.
Fail(t) ==
    /\ pc[t] # "idle"
    /\ Leave(t)
    /\ owner' = RolledBack(t)
    /\ UNCHANGED <<shop, mailed>>

-----------------------------------------------------------------------------
(* The writes of other parts of the shop to the same rows.                 *)

\* UpdateCart, as far as a letter can tell: a cart is paid, or stops being so.
MarkPaid(c) ==
    /\ cart[c] # "paid"
    /\ WriteLockFree
    /\ cart' = [cart EXCEPT ![c] = "paid"]
    /\ UNCHANGED <<engine, product, row, deleting, owner, task, claim, mailed>>

MarkUnpaid(c) ==
    /\ c \in Lapsing
    /\ cart[c] = "paid"
    /\ WriteLockFree
    /\ cart' = [cart EXCEPT ![c] = "lapsed"]
    /\ UNCHANGED <<engine, product, row, deleting, owner, task, claim, mailed>>

AddDigitalData(k) ==
    /\ row[k] = "new"
    /\ ProductOf[k] \in product
    /\ WriteLockFree
    /\ row' = [row EXCEPT ![k] = "live"]
    /\ UNCHANGED <<engine, cart, product, deleting, owner, task, claim, mailed>>

DeleteDigital(k) ==
    /\ k \in Deletable
    /\ row[k] = "live"
    /\ WriteLockFree
    /\ \A u \in Tasks : k \notin claim[u]
    /\ row' = [row EXCEPT ![k] = "gone"]
    /\ UNCHANGED <<engine, cart, product, deleting, owner, task, claim, mailed>>

\* The live rows of p that a cart holds.
SoldRows(p) ==
    {k \in Keys : row[k] = "live" /\ ProductOf[k] = p /\ owner[k] # NoCart}

\* DeleteProduct, first statement: refuse when a key of p is sold.
CheckProductSold(p) ==
    /\ p \in Droppable \cap (product \ deleting)
    /\ SoldRows(p) = {}
    /\ deleting' = deleting \cup {p}
    /\ UNCHANGED <<engine, cart, product, row, owner, task, claim, mailed>>

\* DeleteProduct, second statement: DELETE FROM product, which cascades.
DropProduct(p) ==
    /\ p \in deleting
    /\ WriteLockFree
    /\ ProductRowsFree(p)
    /\ deleting' = deleting \ {p}
    /\ product' = product \ {p}
    /\ row' = [k \in Keys |-> IF ProductOf[k] = p /\ row[k] = "live"
                              THEN "gone" ELSE row[k]]
    /\ UNCHANGED <<engine, cart, owner, task, claim, mailed>>

-----------------------------------------------------------------------------
LetterStep(t) ==
    \/ BeginTx(t)
    \/ ReadProduct(t)
    \/ FindOwnKey(t)
    \/ ReadCandidate(t)
    \/ TakeKey(t)
    \/ Commit(t)
    \/ SendMail(t)

ShopStep ==
    \/ \E c \in Carts : MarkPaid(c) \/ MarkUnpaid(c)
    \/ \E k \in Keys : AddDigitalData(k) \/ DeleteDigital(k)
    \/ \E p \in Products : CheckProductSold(p) \/ DropProduct(p)

Next ==
    \/ \E t \in Tasks : LetterStep(t)
    \/ \E t \in Tasks : Fail(t)
    \/ \E t \in Tasks, c \in Carts : StartLetter(t, c)
    \/ ShopStep

Spec == Init /\ [][Next]_vars

NoTimeout(t) == LetterStep(t)
\* A task that can run does run, and the five-second context ends it otherwise.
Scheduled(t) == LetterStep(t) \/ Fail(t)

FairSpec == Spec /\ \A t \in Tasks : WF_vars(Scheduled(t))

-----------------------------------------------------------------------------
(* Properties.                                                             *)

\* No key is ever mailed to two buyers, however the purchases overlap: the
\* race claimDigitalData's guarded UPDATE exists to close.
KeySoldOnce == \A m, n \in mailed : m[2] = n[2] => m[1] = n[1]

\* Once a cart's claim on a key is committed, no later purchase, retry,
\* rollback or crash moves that key to another cart or back to stock.
OwnerIsFinal == [][\A k \in Keys : owner[k] # NoCart => owner'[k] = owner[k]]_owner

\* The lines of cart c that ask for a key.
KeyLines(c) == {i \in 1..Len(Lines[c]) : Kind[Lines[c][i]] = "data"}

\* A cart holds a key for every key product it ordered, or no key at all: a
\* letter that fails on its second product gives back the first one's key.
AllOrNothing ==
    \A c \in Carts :
        (\E k \in Keys : owner[k] = c) =>
            \A i \in KeyLines(c) :
                \E k \in Keys : owner[k] = c /\ ProductOf[k] = Lines[c][i]

\* Stock leaves only for a cart whose payment was recorded at some time.
OnlyPaidCartsClaim == \A k \in Keys : owner[k] # NoCart => cart[owner[k]] # "open"

\* A letter that is about to go out holds only keys committed to its own cart.
LetterHoldsOwnKeys ==
    \A t \in Tasks : pc[t] = "mail" => \A k \in got[t] : owner[k] = at[t]

\* Letters of one cart agree on one key per product: "already owning a row
\* makes the call idempotent, so a retried purchase mail keeps its keys".  On
\* PostgreSQL the code breaks this.
LettersAgree ==
    \A j, k \in Keys :
        /\ row[j] = "live" /\ row[k] = "live"
        /\ owner[j] # NoCart /\ owner[j] = owner[k]
        /\ ProductOf[j] = ProductOf[k]
        => j = k

\* With SQLite's single writer they do agree.  Under PostgreSQL a letter may
\* read "no key of my own" before another letter of its cart commits and its
\* candidate afterwards, and so take a second key.
RetryKeepsKey == engine = "sqlite" => LettersAgree

\* "Removing a product would revoke downloads already purchased": a product is
\* not deleted from under a key that a cart holds.  The code breaks this: it looks
\* for buyers in one statement and deletes in another.
SoldKeysStay ==
    [][\A k \in Keys : owner[k] # NoCart /\ product' # product
                          => row'[k] = row[k]]_vars

\* Letters that wait for each other's rows, or for SQLite's write lock, come
\* to an end: every task that entered SendCartLetter leaves it.
LettersEnd == \A t \in Tasks : pc[t] # "idle" ~> pc[t] = "idle"

\* DigitalClaim implements the promise above.
Promise == INSTANCE KeyAssignment WITH assigned <- owner
KeysAsPromised == Promise!Spec
=============================================================================
