# A TLA+ development of mycart

mycart is a shop in one Go binary: a Fiber HTTP server over SQLite or PostgreSQL
that sells downloads and licence keys, takes payments through five providers,
gives buyers accounts and operators a panel, and carries a small message
responder. These modules model the parts of it where the order of steps decides
the outcome. Every definition is translated from the source under `src/`; paths
below are relative to it.

The server's core is modelled statement by statement, and proved; around it stand the
storefront and the operator's panel, each page with the handlers behind it. What those pages
and forms promise is proved as well, but for the form of a product's variants.

| Component | Modules | What it decides |
|---|---|---|
| purchase letter and licence keys | `KeyAssignment`, `DigitalClaim`, `DigitalClaimProofs` | who gets which key |
| order and payment status | `CartPayment`, `CartPaymentProofs` | when an order counts as paid, and who gets a letter |
| accounts and cabinet sessions | `CustomerSession`, `CustomerSessionProofs` | who is let into the cabinet |
| storefront: cart, checkout, validation of orders | `Storefront`, `StorefrontProofs` | what is sold, at what price, through which provider |
| storefront: pages and cabinet | `ShopPages`, `ShopPagesProofs` | what a page shows of its address and of the cabinet |
| panel: products | `AdminProducts`, `AdminProductsProofs` | which product a form is saved to |
| panel: variants, images, digital content | `VariantEditor`, `ProductImages`, `DigitalContent`, `FormsProofs` | what a product is saved with |
| panel: pages, orders, customers | `PanelLists`, `CustomersPage`, `PanelProofs` | whether table and drawer speak of the same row |
| panel: settings, payment systems | `Settings`, `Providers`, `FormsProofs` | what a form overwrites |
| installation, switch of database, way into the panel | `PanelAccess`, `PanelProofs` | which database the process serves, and who is its operator |
| responder: messages, threads, archive, workflows, crontab | `Responder`, `Workflows`, `Crontab`, `PanelProofs` | which messages there are, and what is listed of them |

`MCPanel` puts the panel's routes and `MCForms` its forms behind one next-state relation
each; the other modules `MC...` only give constants their values. The items, customers,
databases, clients, senders and bounds of `MCPanel` are constants of its own, with values in
`Panel.cfg`, as `PanelProofs` is about all of them; so are the images, keys, texts and bounds
of `MCForms`, with values in `Forms.cfg`, for `FormsProofs`.

`PROJECT.json` maps each definition to its source lines, lists runs, mutants,
findings, hazards and theorems.

## Inventory

### The server and its concurrency

Every HTTP request runs in its own goroutine; there is no lock in the handlers.
Shared state is in the database, and almost every handler is a series of single
SQL statements, each its own transaction. Explicit transactions are few:
`CartLetterPurchase`, `Install`, the archive, product, image and setting writes. SQLite
connections carry `_txlock=immediate` (`internal/database/open.go:18-26`), so a
transaction owns the one write lock from BEGIN; PostgreSQL runs READ COMMITTED,
where each statement sees what was committed before it. Behind the handlers stand
the payment providers (redirects, callbacks, webhooks), an SMTP server, webhook
receivers, the file system and the host's crontab.

### The browser and its concurrency

Storefront and panel are two Svelte applications that share nothing with the server
but its API. A page keeps what it has loaded in variables, the storefront its cart in
`localStorage` and its settings in `sessionStorage`, the panel its two start-up checks
in `localStorage`. JavaScript runs one callback at a time, so a step there is what runs
up to the next `await`; everything that can happen between asking and hearing does: the
page is left, another row is opened, a second request is answered first, the request is
refused, fails before it is served, or is served and its answer lost. A drawer of the panel
is emptied by a timer, 200 ms after it was closed (`createDelayedReset`).

### Components

| Component | State | Operations | Hard behaviour | What makes it correct |
|---|---|---|---|---|
| **Purchase letter, keys** `internal/mailer/letter.go`, `internal/queries/cart.go:750-910`, `products.go:650-1017` | `digital_data(product_id, content, cart_id)`, `cart.payment_status`, `product` | `SendCartLetter`, `CartLetterPurchase`, `claimDigitalData`; `AddDigitalData`, `DeleteDigital`, `DeleteProduct` | letters overlap for one order and for several; row locks taken in cart order; rollback; mail fails after commit; stock changes meanwhile | a key has one buyer for good; an order is served whole or not at all; letters come to an end |
| **Order, payment** `internal/handlers/public/cart.go`, `payment_portone.go`, `pkg/litepay/`, `internal/webhook/payment.go` | `cart.payment_status`, `payment_id`; the payment at its provider | `Payment`, `CreateCart`, `PaymentSuccess`, `PaymentCancel`, `PaymentCallback`, `CompletePortonePayment`, `PortoneWebhook`, `CartSendMail` | redirect, callback, webhook and cancel of one order race; a redirect names any payment; retries; a system is switched off; stale row at the write; crash between charge and record | paid only with the money there; paid is final; one letter; a charge is recorded; an order's own payment pays it |
| **Storefront: cart and checkout** `web/site/src/routes/cart`, `products/[slug]`, `lib/stores/cart.ts`, `public/cart.go:131-509`, `payment_portone.go:31-140`, `internal/queries/cart.go:348-694` | a cart per tab and its copy in `localStorage`; the cart page's providers, form and PortOne window; catalogue rows | add, change, remove; `ValidateCartItems`, `orderableQuantity`, `Payment`, `CheckoutPortone`; the way back from a provider; reprice, switch off, split into variants | the cart is older than the catalogue; the cart changes while methods load or a checkout is under way; nothing is reserved; two reads of the catalogue by two rules | an order goes to a provider that is offered, at the row's price; a refusal marks the line it names; every line is charged |
| **Storefront: pages, cabinet** `web/site/src/routes/`, `lib/stores/settings.ts` | cached settings, what the open page has loaded, the cookie | visit, page through, sign in, up and out, account page | answers late, lost, overtaking; settings painted from a copy; session ended elsewhere | a page shows the product of its address; "no cabinet" is said only when it was so; nothing waits for ever |
| **Amounts** `pkg/litepay/provider_*.go`, `payment_portone.go` | none | decimal text to cents and back | float truncation | conversion returns the amount charged |
| **Accounts, cabinet** `public/customer.go`, `private/customer.go`, `middleware/customer.go`, `queries/customer.go`, `queries/session.go` | `customer`, `session`, setting `account_jwt_secret` | sign-up, sign-in, sign-out, each cabinet request; block, unblock, reset, delete | read and write of the account in separate statements; sign-in against revocation; first use of the key | one account per address; tokens verify; a blocked customer is out; revocation revokes |
| **Operator sign-in** `private/auth.go`, `middleware/jwt.go`, `web/admin/src/routes/signin`, `+layout.ts` | `session`, the browser's caches | `SignIn`, `SignOut`, the checks before a page | caches of five minutes and an hour | who is signed out is shown the sign-in page |
| **Installation, switch** `private/install.go`, `queries/install.go`, `queries/queries.go`, `database/config_file.go`, `web/admin/src/routes/install` | `installed` flag, `config.json`, process-wide handle, the wizard | `Install`, `installInto`, `Connect`, `InstallDBTest`, restart | flag read outside the transaction; target installed but config unwritable; `config.json` emptied before it is written; two installs at once; restart between two steps | one installation wins; a shop that is there is never gone over; after a failure the old database serves; a retry is possible |
| **Panel: products** `web/admin/src/routes/products`, `lib/components/product/`, `private/product.go` | list, one drawer in six modes, form, store of variants; rows | create, edit, delete, switch, search texts, import; variants, images, keys and files in editors of their own | the drawer has moved on when its product arrives; a switch undone by place; objects shared between editor and list; keys sold while their drawer is open | what is saved to a product is its own; the list is the server's; variants are the combinations of the options; sold keys are left alone |
| **Panel: pages, orders, customers** `web/admin/src/routes/{pages,carts,customers}` | table, drawer; rows | open, save, switch, delete, resend, block, reset | as above, with the 200 ms timer | table and drawer agree with the row |
| **Panel: settings, providers** `web/admin/src/routes/settings`, `lib/composables/`, `private/setting.go` | form per group, shared provider store; `setting` rows, mark files | load, save, upload, switch | every save writes the whole group; an upload is a read and a write | what was typed and saved is stored, and nothing else is blanked |
| **Responder** `queries/responder_*.go`, `web/admin/src/routes/responder` | contact, message, thread, workflow, archive | `GetOrCreateContact`, `LinkContactToCustomer`, `CreateMessage`, `UpdateMessageThread`, `MarkMessageRead`, archive, workflow edits | thread rebuilt by SELECT, DELETE, INSERT without transaction; copy and cascade race with arrivals; the operator deletes a customer with messages | thread agrees with messages; no message is lost; an edit is saved to its workflow |
| **Crontab, cron runner** `internal/responder/` | `last_run`, host crontab | `checkAndRunJobs`, `ExecuteJob`, `Install`, `Uninstall` | run then record; loop ends on an error; crontab rewritten whole | a job runs once when due; foreign entries survive; the page knows what is installed |
| **XMPP worker** `xmpp_worker.go` | none | a stub | - | - |
| **Database copy, dump, restore** `internal/dbops.go`, `internal/dbtransfer/` | files, tables | backup (`.part`, sync, rename), restore, copy, dump, load | crash at any point | old file or new file, never half |
| **Dialect layer, migrations** `internal/database/` | none at run time | placeholder rewriting, goose | - | engine guarantees are modelled where used |
| **Catalogue, images, files on the server** `queries/products.go`, `product_image.go`, `private/product*.go`, `digitalfiles/` | rows, files | edits, image order, uploads | file write against row write | in the modules of the panel and of the letter that call them |
| **CSV import** `pkg/csvimport` | rows | preview, sequential upsert | - | - |
| **CDN purge** | none | one call per change | - | - |
| **Routing, other middleware, start** | framework | filters | - | - |
| **Self-update** `pkg/update` | binary | download, replace | - | - |
| **Generated queries, editors, languages** | - | - | - | - |

### How they interact

    buyer ──Payment/CreateCart──► cart ◄──UpdateCart── redirects, callbacks, webhooks ◄── provider
                                   │                              │
                                   │ payment_status = 'paid'      │ SendCartLetter (same goroutine)
                                   ▼                              ▼
     panel ──CartSendMail──► CartLetterPurchase ──claimDigitalData──► digital_data ◄── panel (stock)
     panel ──block/reset/delete──► customer, session ◄── sign-in, cabinet middleware ◄── buyer

The letter reads the status that the payment handlers write; in `DigitalClaim`
payment is the pair of steps `MarkPaid`, `MarkUnpaid`, in `CartPayment` the letter
is a read of the status and a send. Neither module assumes anything of the other's
timing: in `DigitalClaim` the status may change between any two of the letter's
statements, except that `Lapsing` bounds which payments are withdrawn.

    tab ──localStorage──► other tabs          panel page ──store──► other pages of the panel
     │ validate, checkout      ▲ answer        │ load, save, switch     ▲ answer (late, lost,
     ▼                         │               ▼                        │  overtaken, refused)
    ─────────────────────────── the server's rows ─────────────────────────────

A page module has the rows its handlers read and write, so what a page believes is
compared with what is so. Where the handlers are many statements that race
(`Responder`, `PanelAccess`, the upload of a mark in `Settings`) they are many steps;
elsewhere a handler is one statement or one transaction and is the one step in which a
request is served. What other clients do to the same rows is an action of its own in
each module: buyers who claim keys, an operator who reprices, a session ended elsewhere.

## The modules

### KeyAssignment

The promise: a free key is given to a cart, several at once for one letter, and
stays with it. One variable, one action.

### DigitalClaim

A task is one run of `SendCartLetter`; any number run at once, for one cart too.

| Variable | Code |
|---|---|
| `engine` | SQLite or PostgreSQL, fixed at the start |
| `row`, `owner` | rows of `digital_data`: absent, live, gone; the committed `cart_id` |
| `product` | rows of `product` |
| `cart` | what of `payment_status` the letter reads: open, paid, or paid once and not now |
| `pc`, `at`, `line`, `tries`, `cand`, `got` | a task's statement, its cart, its line, its attempt, the candidate read, the keys gathered |
| `claim` | the uncommitted `UPDATE`s of its transaction |
| `mailed` | pairs of cart and key an SMTP server accepted |

Steps: `StartLetter` (the read of the status, outside the transaction),
`BeginTx`, `ReadProduct` per line, then per key product `FindOwnKey`,
`ReadCandidate`, `GuardedUpdate` with its row count, a new round or
`OutOfAttempts`; `Commit`; `SendMail`; `Fail` for a failing statement, the
five-second context of `letter.go:134`, an SMTP error or a crash. The operator
adds keys, deletes a key without any guard (`DeleteDigital`), and deletes a product
in two statements (`CheckProductSold`, `DropProduct`). Locks are the guards
`WriteLockFree` (SQLite), `RowLockFree` and `ProductRowsFree` (PostgreSQL). A shop
without SMTP sends no letter and claims nothing; the model is of one that has it.
The letter never looks at a line's quantity, so `Lines` has none.

### CartPayment

A request is one running handler with its loaded order. `Payments` are the payments the
providers know: one for each order, under the order's name, and sessions opened for orders
outside the model, which a redirect may name as well.

| Variable | Code |
|---|---|
| `system` | the payment system a payment was opened with |
| `exact` | for which orders the amount of a payment passes the handler's check |
| `active` | the systems whose switch is on |
| `status`, `ref` | `cart.payment_status`; the payment that `cart.payment_id` names, if any |
| `prov`, `linked`, `outbox` | external: the payment at the provider, whether the buyer has its link, notifications not yet answered with 200 |
| `op`, `pc`, `on`, `by`, `got` | a request's handler, step, cart, the payment it is about, and the status it has been told |
| `letters`, `resent`, `undone` | history: letters sent, panel's letters, paid orders a cancel took back |
| `calm` | a choice at the start: the carts with one request at a time |
| `faults` | bound |

Each handler is split where it loads, asks the provider, writes, sends the letter
and fires the hook. `Reported` is the mapping of provider statuses in
`StatusPayment`; `OwnSession` the session check of `PaymentSuccess`, which compares only
where the row names a payment; `NotYetPaid` the idempotency guards; `WritesId` the payment id
each handler writes; `CancelLinks` the systems whose cancel link works; `Switch` the operator's
switch of a system, which the redirects and the callback look at.

### CustomerSession

| Variable | Code |
|---|---|
| `row`, `address`, `version` | `customer` rows: presence and `active`, `email`, `password` as the number of resets |
| `secret` | the setting `account_jwt_secret`, named for the request that generated it |
| `live`, `owner`, `opened`, `signed` | `session` rows; the customer in the value; the password the sign-in compared; the key of its token |
| `op`, `pc`, `on`, `saw`, `key`, `sid` | a request's handler, statement, customer or address, password compared, signing key held, cookie |
| `raced`, `spoiled`, `barred` | history variables of the properties below |

No handler here opens a transaction, so both engines behave alike: one step per
statement. `AccountSecret` is `ReadSecret`, `FillSecret` (the `UPDATE ... WHERE
value = ''`), `RereadSecret`, run by every sign-in and every cabinet request.
`Plan` is the order of the operator's statements. `CreateCustomer`'s second lookup
only chooses the error message and is not a step.

### Conventions of the browser modules

* A request is a record in `flight`. `Serve` (or the handler's name) runs the handler and
  leaves an answer; an action named after the page's callback hears it. A request may fail
  unserved and an answer may be lost, both of which the page sees as a failure.
* A component that has been left hears nothing more, as in Svelte, unless its callback
  writes a store or moves the page.
* `patient` (in `AdminProducts` one of three kinds, `patience`) is chosen at the start: a
  patient operator acts when no answer is due and no timer runs. A property is stated of
  such an operator where the page is right only for them, and of everybody otherwise.
* `strayed`, `heard`, `known`, `overlapped` and `stale` are history: something has happened
  after which the page cannot know better (a lost answer, most often), and which ends the
  claim of a property. What a property says is about all behaviours where it has not.
* A form's content is named for the row it was loaded from; what is typed is a new value.
* `moves`, and where it is named so `edits`, `writes`, `switches`, `elsewhere`, count what
  people do. What the network and the timers do is not bounded but by the size of `flight`.

### Storefront

| Variable | Code |
|---|---|
| `price`, `stock`, `state`, `selling`, `split` | product and variant rows |
| `stored`, `cart` | the cart in `localStorage`, and in each tab's store |
| `page`, `view` | the tab's page; what its product page has loaded |
| `form` | the cart page: offered methods, the one chosen, marked lines, what is under way |
| `call`, `ordered`, `unit`, `charged` | a checkout from the click to its end; the `cart` row it made |
| `refused`, `strayed` | history |

The actions are the operator's edits (`Reprice`, `Restock`, `SwitchProduct`, `SwitchVariant`,
`SplitProduct`); a tab's pages and changes of its cart (`OpenProduct`, `ToggleCartItem`,
`SetQuantity`, `RemoveLine`, `OpenCart`), each written to `localStorage`; the cart page's answers and
choices (`MethodsAnswer`, `ConfigAnswer`, `ChooseProvider`); a checkout from `CheckOut` through the
server's `ListPublic` and `Validate` (`ValidateCartItems` with `orderableQuantity`) to `Redirect`,
`HandleValidationErrors` or PortOne's `RequestPayment` and `VerifyPayment`; and the way back,
`Success`, `Cancel`, `PageShow`. A line is an item and a number of
units; an item is a product or one of its variants. Saving a product writes its variants anew
under new ids, so that a cart's line of one refers to nothing: for a cart that is a variant
taken off sale, `SwitchVariant`. `Reprice` keeps the ids, which the code does for the base line
only: the model has more behaviours than the code there, and the properties hold in all of them.

### ShopPages

`settings` is what the tab is painted from, `cache` its copy in `sessionStorage`, `at` and
`body` the address and its page, `session` the cookie. Pages: list, product, content page,
sign-in, sign-up, account. Each asks by its address and hears by its own rule: the product
page compares with the latest slug, the list with a counter, the content page with nothing.
A link to the address the tab is at keeps the page's component and loads nothing.

### AdminProducts

`rows` and `page` are the table, `drawerMode` one of `add`, `edit`, `view`, `digital`, `seo`, `csv`,
`drawerProduct` the row it was opened on, `form` and `full` the two copies an edit loads,
`catalog` and `store` the server's rows. The actions are the page's handlers by their names,
`Reset` the timer, and one per endpoint. A text is named for the product it was written for:
`p` of product `p`, `Blank` when a save left it out.

### VariantEditor, ProductImages, DigitalContent

The parts of the product's form with a state of their own. `VariantEditor` keeps `heap`:
the option objects as JavaScript shares them between the list (`options`) and the editors
(`editors`), because a draft that is the list's own object changes the list without saving. `DeleteOption`
leaves the list with copies and the editors with the objects of before, as `deleteOption` does.
`ProductImages` has `owner`, `position` and `main` of each image row, against the form's copy.
`DigitalContent` has keys or files, a set that the server lists in any order (its query has no
`ORDER BY`), `sold` set by a buyer at any moment, `delivered` the text that went out.

### PanelLists, CustomersPage

One table and one drawer each. `PanelLists` is the pages' list or the orders', chosen at the
start, as they share their shape. The list is sorted by a page's position, header or footer, and a
random id: a new page may come anywhere (`Effect`), and a save, whose form has the position, may
move its page; `order` is the list as it was last read. `CustomersPage` has a search with its debounce
(`searchTimer`), of whose requests only the newest is heard, and the account switches.

### Settings, Providers

A group of settings is three fields: what is typed (`words`), what is picked or uploaded
(`choice`), and what the page never shows (`rest`). `page` says which of the ten pages or
drawers is open, and each action is what that page does: which fields it sends, whether it
looks at the answer, whether it loads again. Hours are shown as days (`InDays`, `Seen`: a
choice stands for hours that are no whole day), and emptying the responder's password field goes
unnoticed (`ClearPassword`, remembered in `cleared`). An upload may be refused, or fail, before
the group is read and before it is written. `Providers` has the server's `active` and `keys`
per system, the shared `store` and the drawer's three phases.

### PanelAccess

| Variable | Code |
|---|---|
| `installed`, `admin` | per database, the flag and whose account it holds |
| `older` | history: the databases with a shop from the start |
| `active`, `config` | the handle of the process; what `config.json` names, or that it cannot be read |
| `torn` | history: a write of `config.json` failed or was cut off |
| `job`, `said` | a client's `Install` request: step, target, the handle it will go back to; the answer |
| `cookie`, `place`, `check`, `installCache`, `versionCache` | the browser: session, page, the check it waits for, what it remembers |
| `locked`, `typed`, `tested`, `testing` | the wizard's connection |
| `overlap` | history: two installations at once |

`Install` is `OpenTarget`, the read of the flag, the transaction, the swap of the handle, the
writing of `config.json`, with its rollback. `os.WriteFile` is `Truncate` and `WriteConfig`: the
file is emptied, then written, and an error may leave it either way. A restart between any two
steps puts the process on the configured database; with a file it cannot read there is no process,
until somebody mends it by hand.

### Responder, Workflows, Crontab

`Responder` is the server alone: each sender's request goes through contact, customer,
message, the reading back of its time (`ReadCreated`), `SELECT` of the latest, `DELETE` and
`INSERT` of the thread, and may fail at any of them; the daily archive is one step on SQLite and
two on PostgreSQL. `DeleteCustomer` is the panel's, which takes contacts, messages and thread along
by cascade; `forgotten` remembers those messages. `Workflows` and `Crontab`
are pages with their endpoints; `tab` is the host's crontab with the lines of others.

## What the runs show

Twelve runs. "Pass" runs finish with no error; each "violation" run checks one
statement the repository makes about itself and shows it false.

| Run | Properties | States |
|---|---|---|
| `claim` | `TypeOK`, `KeySoldOnce`, `AllOrNothing`, `LetterHoldsOwnKeys`, `RetryKeepsKey`, `KeysAsPromised` | 650,888 |
| `letters_end` | `LettersEnd` (liveness) | 6,044 |
| `pay` | `TypeOK`, `PaidIsBacked`, `LettersFollowPayment`, `LetterOnce`, `PaidStays` | 1,986,416 |
| `pay_live` | `ChargedIsRecorded` (liveness) | 111,300 |
| `account` | `TypeOK`, `OneAccountPerAddress`, `TokensVerify`, `BlockedIsNotServed`, `OnlyRacesSurvive` | 1,789,559 |
| `storefront` | `TypeOK`, `ProviderIsOffered`, `PortoneChargesTheOrder`, `MarkedWereRefused` | 411,737 |
| `shop_pages` | `TypeOK`, `CabinetIsSaid`, `ProductIsOfTheAddress`, `PagesSettle` (liveness) | 401,163 |
| `admin_products` | `TypeOK`, `SavedToItsOwnProduct`, `DrawerKeepsItsProduct`, `PageAgreesWithServer` | 346,618 |
| `panel` | `TypeOK`, `TableAgreesWithServer`, `DrawerKeepsItsRow`, `InstalledShopStays`, `MessagesAreKept` | 2,458,085 |
| `forms` | `TypeOK`, `VariantsFollowOptions`, `ContentIsListed`, `SoldKeysAreSafe`, `SettingsSurvive` | 1,732,663 |
| `lines_charged`, `stock_survives` | `EveryLineCharged`, `StockSurvives` | violated |

The suite is kept at a dozen runs so that all of it is quick to repeat. The other
statements the repository makes of itself that do not hold are definitions beside the
properties, commented as broken by the code: put the name into the `INVARIANTS` (or
`PROPERTIES`, for one of the form `[][...]_vars`) of the module's configuration, or of one
for the module alone, and TLC shows the behaviour.

### Bounds, and why they are enough

* **claim**: two letters, two carts that want the two key products in opposite
  order, one of them with a download in between; four keys of which one arrives
  late and one may be deleted; one product may be dropped, one payment withdrawn.
  Stock serves only one cart at first, so both "claimed the first, out of the
  second" and "lost the guarded UPDATE" occur, on either engine. `MaxAttempts` is
  2 in place of 100: one lost round and the last one. A third letter adds no new
  kind of conflict: each conflict is over one row between the holder and one other.
  `Lapsing`, `Deletable`, `Droppable` bound the payments withdrawn and the keys
  and products deleted.
* **letters_end**: the deadlock alone. Two carts, two keys, opposite order.
* **pay**: one order and one payment of another order, since orders share nothing in these
  handlers but the payments a redirect may name. The other payment is Stripe's or PayPal's
  (`Elsewhere`): Coinbase's differs in the id it leaves in the row alone. Two requests, since
  every race is between the request that wrote and one that loaded before; all six systems,
  each switched at any time; one fault (`pay_live` has two: a fault and a fault in its retry). `LetterCap` 2 counts
  letters as none, one, more.
* **account**: one address and two customer ids (an address is given up by deletion
  and taken again), two sessions, two requests, `MaxResets` 1. The run uses symmetry,
  with invariants only. Two accounts are never in the table at once with one
  address; that accounts do not disturb each other's sessions is left to the theorems.
* **storefront**: one tab and one checkout, over a product sold by variant, its base line
  (which a cart may hold from before the split) and a download that is free at first, so that
  a cart can be free, mixed or charged; two units, two prices, one edit of the
  catalogue, three changes of the cart. Each property is about one checkout and the cart it
  was sent from. The module allows several tabs and calls; two of either are beyond a few minutes.
* **shop_pages**: two addresses and two pages of the list, which is what an overtaking answer
  takes; three moves: go, go on while it loads, go back; one switch of the cabinet and one end
  of the session elsewhere.
* **admin_products**: two products on pages of one row, so that a deletion or an arrival moves
  a row across pages; four moves: open, close, open another, save; two requests at once. The
  operator who hurries is left out of the run, as the properties say nothing of them
  (`MCHurried` is for trying it).
* **panel**: the same sizes for lists, customers and workflows; two messages of two addresses
  and one registered buyer; two databases and two clients, of whom the operator alone has a
  browser, with six moves, of which a restart is one. `MaxDay` 1 lets a message age once.
* **forms**: up to three options of two names, so that two can clash and a third be between
  them, and an earlier one be deleted; two products, three images, two uploads at
  once; two keys; one drawer or page of the settings after another.

In `panel` and `forms` TLC's coverage shows every action of the composed modules taken.

`CHECK_DEADLOCK FALSE` stands where the system may really stop: letters, orders and
stock are finite in the server's modules, and people come to the end of their moves in the
browser's.

### Fairness, and why the code justifies it

* `DigitalClaim`: weak fairness of `Scheduled(t)`, a task's next statement or its
  failure. A goroutine is scheduled, and one that waits for a lock is ended by the
  five-second context (`letter.go:134`). No fairness for the operator, the payment or
  the arrival of letters. The mutant without the timeout deadlocks.
* `CartPayment`: weak fairness of `Step(r)`, a running handler goes on; strong
  fairness of `Notify(c, s)`, the provider repeats a notification until it is
  answered with 200 (external: SpectroCoin's documented behaviour, on which the
  comment at `public/cart.go:605-608` relies). Faults are bounded. `ChargedIsRecorded` is of
  behaviours in which the system is switched on for good from some moment: while it is off the
  callback answers 404. Buyers and operators are under no obligation.
* `ShopPages`: weak fairness of `Network`: a request is answered or fails, and the browser
  hears it. No fairness for buyers or the operator, so pages settle without anybody's help.

### The properties, briefly

* `KeySoldOnce`, `KeysAsPromised`: no overlap, retry, rollback or
  crash gives a key to a second order. The mutant drops `AND cart_id IS NULL`.
* `AllOrNothing`: running out at the second product gives back the first one's key.
* `RetryKeepsKey`: on SQLite letters of one order agree on its key. On PostgreSQL
  they do not (`LettersAgree`).
* `PaidIsBacked`, `LettersFollowPayment`: an order that names its session (Stripe, PayPal,
  Coinbase) is called paid, and gets a letter, only when that session has the right amount,
  whatever a redirect names. One that does not is backed by its own payment (a free order, or
  PortOne's virtual account, which the code accepts when issued, included) or by any paid
  session of its amount: that its own is asked for is `PaidByItsOwn`, which the code breaks.
  They hold for any number of stale loads and overlapping writes. The mutant takes any session.
* `LetterOnce`, `PaidStays`: for requests that come one at a time, with retries,
  notifications out of order and crashes. The buyer's cancel link takes a paid order back even
  then, and `PaidStays` says that nothing else does; `LetterOnce` ends where it has. With overlap
  both fail (`NoSecondLetter`, `PaidIsFinal`): the guard reads a row and the write does not
  repeat the condition.
* `TokensVerify`: requests that find the signing key missing together agree on one.
* `BlockedIsNotServed`: the flag is read on every request, so a session that survives
  a block is of no use. A request already past the check is served.
* `OnlyRacesSurvive`: setting before revoking is what leaves only the sessions of
  overlapping sign-ins. That none do is `ResetEndsSessions`, which is broken.
* `ProviderIsOffered`: the cart becomes free, or not free, while the methods load or one is
  chosen; the choice follows. `PortoneChargesTheOrder`: the browser's total is what PortOne's
  window takes, and the server refuses an order at other prices first. `MarkedWereRefused`: a
  line is marked only for an item the server has refused, unless the list changed meanwhile.
* `ProductIsOfTheAddress`, `CabinetIsSaid`, `PagesSettle`: neither overtaking answers nor a
  cached copy nor a failure show a buyer what is not so, or leave them waiting.
* `SavedToItsOwnProduct`: `form` and `drawerProduct` are filled by different answers and are one
  product's when sent. `DrawerKeepsItsProduct` is about the timer. `PageAgreesWithServer`:
  every optimistic change is confirmed, undone or reloaded.
* `TableAgreesWithServer`, `DrawerKeepsItsRow`: the same for the other routes, each with the
  rule of its own page; on the customers' page, whose lists are numbered, for an operator who
  does not wait either. The pages' table has the pages there are, in the order of the last list:
  a page whose position was edited stays where it was (`SavedPageIsInItsPlace`, broken).
* `InstalledShopStays`: no installation goes over a shop that was there before, however two
  overlap and whatever became of `config.json`; and without overlap the process comes back to the
  shop after every failure and restart but those in the writing of `config.json`, which leave a file
  nothing can start from (`PreviousIsUntouched`, broken).
* `MessagesAreKept`: on SQLite an accepted message is stored or archived, unless the operator
  deleted its customer; a thread is its messages' unless its rebuild was overtaken.
* `VariantsFollowOptions`: three copies, kept equal by hand, are equal when saved. `ContentIsListed`,
  `SoldKeysAreSafe`, `SettingsSurvive`: what a form shows is there, what it saves is what
  was typed, and a key the list shows as sold is left alone by an operator who waits. Two
  conversions are excepted: `LifetimeIsKept`, `EmptiedIsNotSent`, both broken.

## Findings

`PROJECT.json` has each with its quotation and the definition that shows it.

*Server*: on PostgreSQL one order can take
two keys; a sold key can go with its product; a line of several units gets one key;
a paid order can be taken back by a cancel link or a stale callback; an order whose row names
no payment is paid by another order's session of the same amount; overlapping
callbacks send two letters; the provider's retry after a failed letter is answered
before the letter, and no callback ever retries a redirect's letter; a Stripe buyer
whose payment clears late is refused, and so is any buyer once the system is switched off; cancel links of PayPal and Coinbase do not
verify; PortOne amounts are compared with a hundred times the total; captured float
amounts lose a cent; a sign-in that overlaps a reset or a block keeps its session; an
active variant of an inactive product is ordered and not charged; a failed installation
cannot be repeated, and a `config.json` whose writing was cut off cannot be read; crontab jobs cannot be addressed; threads are doubled by two messages at
once, buyers who never wrote are archived.

*Storefront*: a refusal marks lines of a cart that has changed; a content page shows the
answer of the last address; a lost answer to a sign-out shows the page of an account left.

*Panel*: saving search texts blanks a product; a page stays open after its deletion; a saved page
stays in its old row and place; a password typed and emptied is sent; a lifetime in hours comes back in
whole days; a drawer
opened within 200 ms of another's closing is emptied; a variant loses its stock at the first
edit of options not in alphabetical order; a new image may come before the one listed; a key sold while its
drawer is open is rewritten; the wizard calls a connection tested that is not; the
checks it remembers outlive what they checked; responder settings are called saved unheard;
a mark replaced meanwhile is sent back; a refused switch stays.

## What is proved

All proofs are checked by TLAPS with no assumption but the named `ASSUME`s of the
modules (types of the constants; sentinels such as `NoCart` are not in the sets they
stand beside; bounds are naturals; a catalogue is finite, and there is a tab and something to
sell in it). They hold for any number of carts, keys, letters, requests, customers, sessions,
tabs, products, images, messages and days, and any value of the bounds.

**DigitalClaimProofs.** `IInv` = `TypeOK` and three parts. `OwnInv`: uncommitted claims
of live transactions are of free rows and disjoint (the row lock, or the single writer,
as an invariant), only a transaction has any, and what a task has gathered is owned by its cart
or claimed by itself. Without it the step `Commit` could overwrite an owner.
`PaidInv`: a letter under way is for an order that was paid. `ServedInv`: each
key line a transaction has passed has its key among those gathered, which turns into
`AllOrNothing` at `Commit`. `SqliteInv` is the argument that letters of one order agree on
SQLite: one transaction at a time, so that `FindOwnKey` sees whatever an earlier letter committed,
and a key is taken only when it saw none. Theorems: `TypeCorrect`, `Inductive`, `NoKeyTwice`,
`OwnKeysOnly`, `WholeOrders`, `OwnersAreFinal`, `RetriesAgree`, and `Refinement`: every step of
`DigitalClaim` is a step of `KeyAssignment` or leaves `owner` alone.

**CartPaymentProofs.** `IInv` = `TypeOK` and `BackedInv`: what a request is about to write,
what a notification says, and what is recorded are each backed by a payment, and no payment
becomes unbacked. That an order with a session is paid by that one rests on its row, which has
named it since it was placed (`RowNames`), so that every redirect past the check is about it
(`AsksItsOwn`). `CalmInv` is the argument about requests that come one at a time: one request
per calm cart, its load is fresh until it writes, and the letter it is about to send is the first
one of an order no cancel took back. Theorems: `TypeCorrect`, `Inductive`,
`PaidOrdersAreBacked`, `LettersAreBacked`, `OneLetter`, `PaidOrdersStay`.

**CustomerSessionProofs.** `IInv` adds to the properties: each handler is at a
statement of its own (`RightStep`) for a customer with a row, now or once (`RightCustomer`);
sessions were opened by such customers (`OpenedByCustomers`); whoever is past
`AccountSecret` holds the stored key (`HoldsSecret`), which makes `TokensVerify`
inductive; a barred request's account is still closed (`BarredIsShut`), which
gives `BlockedIsNotServed`. Theorems: `TypeCorrect`, `Inductive`, `AddressesAreUnique`,
`TokensAlwaysVerify`, `BlockedStaysOut`, `SessionsEnd`.

**StorefrontProofs.** For any number of tabs and checkouts. That a line is marked only if the
server has refused it rests on places: the server names a line by its place in the cart it was
sent, and the page looks that place up in the cart it has. So the lines of every cart must be
ranked (`CartsRanked`, part of `TypeCorrect`), and lines of equal place in carts of the same
items and order are one line (`OnePlace`). `MarkInv` adds that what a refusal names was refused
and was in the cart sent. `ProviderInv`: the chosen system is offered, and a cart page that
is open on a free cart has none; every change of a cart or of the form ends in the effect
(`Settle`) that restores it. `PortoneInv` follows a checkout: an order through PortOne is made at
the prices its validation has just compared with the cart's, and the window is handed the total
of that cart. Theorems: `TypeCorrect`, `ProvidersAreOffered`, `WindowTakesTheOrder`,
`MarksAreRefusals`.

**ShopPagesProofs.** An answer is shown steps after the server gave it, so `SaidInv` and
`ProductInv` say what an answer on its way may hold: "on" only if the shop has had a cabinet since
the document was loaded, "no cabinet" only if it has not had one at some moment, the copy in
`sessionStorage` silent on it; and the product page waits for no answer but its own and
the settings. Theorems: `TypeCorrect`, `CabinetNoticeIsTrue`, `ProductOfTheAddress`.

**AdminProductsProofs.** `ShapeInv`, part of `TypeCorrect`: the list is never longer than the
catalogue (an optimistic row is one of its products), and an answer has as many rows as the page
reads from it. `KeepInv`, of an operator who does not hurry, has two parts. `DrawerInv`: the timer
that blanks the drawer runs only while the drawer is closed and nothing is awaited that will
open it, and one such answer is awaited at most. `OwnInv`: what the server keeps for a
product, what an answer to an edit says, what is in the open form and what is being saved are
that product's text or blank. Each needs the other: the form is a product's own because no
second answer fills it. `AgreeInv`, of an operator who waits, follows every optimistic change
until it is confirmed, undone or reloaded: there is one request at a time, and unless an answer
was lost or is about to be, what the page lacks of the server's is what that request will
bring (`Awaits`). So a switched row is one ahead of the server (`Ahead`) until it is answered, and
an answer that refuses says what the row was; a copy loaded for an edit or a view is waited for by
the drawer that asked; otherwise the table is settled. Theorems: `TypeCorrect`,
`OpenDrawerHasItsProduct`, `FormSavesItsOwnProduct`, `WaitingAgrees`.

**PanelProofs.** About the composition `MCPanel`, where one route is open at a time and its step
leaves the variables of the others alone. For the way in, with any number of databases and
clients, `InstalledShopStays` is not inductive: between the commit in the target database and the
answer, the process is on its way to another database than `config.json` names, and a restart takes
it back. `AccessInv` is `TypeOK` of `PanelAccess` and two parts. `JobInv`, of installations that
have not overlapped, while no write of `config.json` was torn: only one runs; before the swap the process is where `config.json` says; the
target was free when read and is the client's after the commit; a client that was told "ok" keeps
every later installation out; at rest the process and `config.json` agree. `OlderAreSafe`, whatever
overlaps or is torn: no transaction is about to write to a database that had a shop from the start.

For the messages
`MailInv` is `TypeOK` of `Responder` and three parts. `OwnInv`: whose contact, customer and
message there can be while each request is where it is. `KeptInv`: on SQLite nothing is between
the archive's copy and its delete, and what was stored is in the table, in the archive, or went
with a customer the operator deleted. `ThreadInv`:
of a customer whom nothing has overtaken, at most one request is rebuilding the thread, what it
read is still so, and when it is done the thread is one row of the latest message and the number
unread.

Of the other routes the invariants say what an answer on its way may hold, as an answer is shown
steps after the server gave it. `ListsInv`: an answer's rows are items, the text sent for a page
is that page's, and an order is waited for only by the drawer it was asked for. `CustomersInv`: no
list has a customer twice (`EmailsOnce`), so that the row a change rewrites is the drawer's only
one; the requests for a password that a drawer still hears are of its own customer; and of
passwords that have not overlapped (`PasswordsInv`, `IssuedInv`) one is asked for at a time, and
what it answers, or what the drawer shows, is what the account has. `WorkflowsInv`: every save and
deletion on its way is of the workflow the drawer was opened on, and an open edit is of it
(`WorkflowsMeant`), for an operator who lets a closed drawer forget. `CrontabInv`: the crontab,
and whatever has been read of it, has gained at most a line from each move. What they are about is
sequences, so the module begins with what taking a member out of one, adding one and changing one
leaves of its type and length; and a list of customers is a sequence only because every place up
to their number is somebody's (`PlaceIsTaken`, that an injection of a finite set into as many
places takes them all).

That a quiet page shows what the server has takes more, route by route, and is in none of these:
an invariant of the table must say of every table that differs how it will be mended.
`ListsTable`: a list on its way is of the page on show, and brings what the server has now; only a
save makes the server's order another than that of the last list, and it keeps the set; a
switched row is one ahead of the server (`ListsTurned`) until it is confirmed, or refused and turned
back in its place. `CustomersTable`, which holds of an operator who does not wait, as the page
numbers its lists: one list is listened for, it was asked for with what the page shows unless the
search timer still runs, and it brings what the server has now unless a change that was made has
yet to reload (`Reloads`). `WorkflowsTable`: a table on its way is the one that is
stored. `CrontabTable`: what an answer says of the service is so, and the jobs are the seeded
ones, for none can be switched off. `TablesInv` is these with the invariants above.

Theorems: `TypeCorrect`, `ShopStaysInstalled`, `NoMessageIsLost`, `DrawersKeepTheirRow`,
`TablesAgree`, from `ConstantsTyped` of the six modules, which the `panel` run evaluates.

**FormsProofs.** About the composition `MCForms`, one form at a time. `SettingsInv`, of an operator
who waits and has heard every answer: the request on its way carries what was typed (or, of a
password that was emptied, the one typed before), the group
that an upload or removal of a mark has read is still what is stored, and the form's mark is the
server's or the answer on its way has it (`MarkIsKnown`). So the write of a whole group blanks
nothing. `ProvidersInv`: the shared store and the drawer have of each system what the server has,
but for the one whose toggle is under way. `ContentInv` has two parts. `SoldKept`: a row shown as
sold is of a key with that text, no request will write or delete it, and of a key no second row is
shown as unsold. `ListKept`: the list has each key once, whatever its order, and what it lacks is
what the request on its way does or has done
(`Due`). `ImagesInv`: one main image, no place taken twice, and every image ever put in order is
listed by the form, and by the reorder on its way, so that the places it hands out are apart
(`PlacesKept`); what the form lacks is what its answer says (`Replied`). A list the server sends is in
the order of the places, so the proof needs that in a finite ordered set each rank is taken by one
member (`Ranked`). Theorems: `FormsTyped`, `ContentListed`, `SettingsKeep`, `SoldKeysKept`, from
`ConstantsTyped` of the four modules (`FormsAssumption`, which the `forms` run evaluates). As its
list is a sequence and a change of it a `SubSeq`, this module too begins with what those leave.

**Only model-checked**: `LettersEnd`, `ChargedIsRecorded` and `PagesSettle` (liveness under
fairness is out of the prover's reach); and of the form of a product's variants its `TypeOK` and
`VariantsFollowOptions`: the variants are computed by folds over the options and their values,
and what a fold yields for every input is an induction over data. `OnlyPaidCartsClaim` and
`OwnerIsFinal` of `DigitalClaim` are in no run: `WholeOrders` and `OwnersAreFinal` prove them.

## Not modelled, and why

* Signatures, tokens of links, passwords and rate limits: taken to be checked where the
  code checks them.
* Amounts: one bit per payment and order in `CartPayment`, small numbers in `Storefront`. Conversions go
  through binary floating point, which TLC has not; what goes wrong there is in the findings and
  was computed by hand. That unit price times quantity is summed without a bound for a product
  of unlimited stock is not modelled either.
* The clock: expiry and timeouts may happen at any moment.
* The cron runner's loop: its one worker is a stub that fetches nothing, so that what a job does
  twice cannot be said. The XMPP worker, for the same reason.
* The panel's inbox page, whose requests are `Responder`'s; the editors of rich text and Markdown,
  the select and paging widgets, cookie consent, the seller's window with its captcha, translations,
  dates and money formats: data and layout, with no protocol.
* Requests that still use the connection an installation closes: `database/sql` decides
  their fate, not this code.
* Database copy, dump and restore, migrations, routing, self-update, CSV parsing: operator
  commands and wiring with no interleaving; the generated queries are modelled where they are called.
* Formats, logging, templates, e-mail text, Swagger pages.

## What could follow

1. **Proofs**: `VariantsFollowOptions`, with a prover that has induction; refinement of a page
   by one that loads its table in a single step.
2. **Amounts**: decimal text and truncation of each provider, over all amounts below a bound.
3. **Cron runner**, once a job does something: due, run, record; the end of the loop.
4. **Backup**: write, sync, rename, crash; an abstract "old file or new file".
5. **The inbox**, on top of `Responder`.
