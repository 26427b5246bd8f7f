# Cloud POS in TLA+

Cloud POS is a multi-tenant point of sale for restaurants and cafés: a Next.js
application (`src/`) over a Postgres database (`supabase/`), used at the same
time by waiters, a cashier, kitchen and bar screens, guests who order from a QR
code, owners, a support desk, and devices that go offline and come back. What
can go wrong is seldom inside one request. It is between them, and this
directory models that.

Paths below are relative to the repository, with `src/` for its application
directory; line numbers are those of the commit the models were written from.
`PROJECT.json` maps each definition to the lines it stands for and lists the
hazards with the properties that guard against them.

## The system

| Component | State | Operations | What makes it hard |
|---|---|---|---|
| Order desk (`src/lib/data.ts`, `server/tables-data.ts`, `create_or_append_order`) | `orders` (status, prices, stations, `lock_version`), `tables.status` | create or append a round, status, station status, discount, void, cancel (staff and QR), assign a courier, complete a delivery, move, hand-set table | read, decide and write are separate statements; some writes check `lock_version`, some do not |
| Payment ledger (`apply_order_payment_mutation`) | `payments` | sale, refund, cancellation note | resends under one idempotency key; partial payments and refunds at once |
| Offline write queue (`src/lib/offline-queue.ts`) | IndexedDB commands; per page a `syncing` flag and a snapshot | enqueue, sync, relink, retry, discard | lost answers, reloads, two tabs, commands that need the id an earlier one returns |
| Command endpoint (`api/ops/command`, `ops/command-executor.ts`) | none | translates a command to a handler, its outcome to ACK, CONFLICT, RETRY, REJECT | classification by the text of the error |
| POS command queue (`lib/pos/queue`) | localStorage store of commands and optimistic overlays, copied in each page | click, flush, acknowledge, refuse, roll back | death while sending, roll-back past later clicks, one key per mounted panel |
| Branch lease and sync push (`sync/branch-lock.ts`, `api/sync/*`) | one lease per branch | acquire, renew, release, push a batch | read and upsert are two statements; expiry during a batch |
| Sync events (`sync/events.ts`, triggers) | event log, device cursors | append, pull | sequence numbers are taken before commit |
| Cash sessions, nightly close (`data.ts`, `cashier/session/auto-close`) | `cash_register_sessions`, audit rows | open, close, scheduled close | checks, sum, write and audit are four statements; schedule against cashier |
| Stock (`writeFrozenConsumption`, `record_ingredient_purchase`, `saveIngredientCount`) | movements and quantity of an ingredient, its cost, the lines of an order | sell, purchase, count | a sale is five to seven statements undone by hand; a count takes minutes |
| Accounts and tenants (`createSupportTenantProvision`, staff accounts) | logins, profiles, access rows, businesses | provision, create, assign, update, delete | auth service and database share no transaction; each handler undoes by hand |
| Check numbers, service requests, QR checks, alerts, printing, sign-in, content, reports, user interface | — | — | not modelled, see the end |

They meet in the database: the queues send their commands to the endpoint, the
endpoint calls the handlers of the desk, those call the two database routines or
write rows directly; a sale takes stock, a payment is cash of the open session,
every write to an order, a table or a payment appends a sync event. Nothing else
is shared but IndexedDB and localStorage between the tabs of one device.

What makes each correct, in short:

* desk and ledger: rounds ordered at once land on one bill; a settled bill stays closed; no
  payment or refund twice or beyond what is due or was taken; no money on a
  cancelled order; a status that agrees with the ledger;
* queues: a command is carried out once or shown to the cashier; payments after
  their orders; no answer means it is still there; the screen shows what waits;
* sync: a lease is lost to its holder or to time; a device misses no change;
* cash: a session expects the cash that was taken in it; each close leaves a
  trace; no session survives the night for no reason;
* stock: each sale is booked once or flagged; rounds are not lost; the average
  price is taken over the stock there is; a count corrects the error it found;
* tenants: nobody belongs to two; each keeps an owner; what was refused leaves
  nothing behind.

## Modules

| Module | Models |
|---|---|
| `OrderRules` | transition table, status derived from stations, status computed from the ledger (pure) |
| `OrderDesk` | the desk and the ledger, every handler interleaved |
| `PaymentBook` | what the desk promises about money, abstractly |
| `OfflineQueue` | the offline write queue, its pages, the endpoint's answers |
| `PosCommandQueue` | the queue and the optimistic overlays of the cashier and table screens |
| `BranchSync` | the branch lease, pushes, the event log and its readers |
| `CashDesk` | cash sessions, opened and closed by hand and by the schedule |
| `StockBook` | sales, purchases and counts of one ingredient |
| `Accounts` | tenants and staff across the auth service and the database |
| `OrderDeskProofs`, `OfflineQueueProofs`, `OneTabProofs`, `PosCommandQueueProofs`, `BranchSyncProofs`, `CashDeskProofs`, `StockBookProofs`, `AccountsProofs` | theorems, for all values of the constants |
| `MC…` | constants for TLC, one for each state machine |

The components are composed by what each proves of itself: `OfflineQueue` and
`PosCommandQueue` take from `OrderDesk` that a payment is booked once per order
and key (`KeyAppliedOnce`); `OrderDesk` implements `PaymentBook` by a refinement
mapping; `CashDesk` sees only the rows a payment leaves behind.

### OrderDesk

`orders[o]` is a row of `orders`, `tables[t]` the column `tables.status`,
`sales[o]` and `refunds[o]` the sums over `payments`, `rows[o][kind][k]` the
number of rows under an idempotency key. A cancellation note is a row of type
`sale` and amount 0, so its key counts as a sale's key (`RowsUnder`).

A handler is an *actor* with a request record: the step it is at, the row it
read (`seen`), the row it means to write (`want`). One action is one statement:

* `create_or_append_order` holds an advisory lock per table and
  `apply_order_payment_mutation` locks the row, so each is one step: `Create`,
  and `SaleApply`, `RefundApply`, `PaymentReplay` or `PaymentRefused`. The checks
  that TypeScript makes before calling the payment routine are a step before it.
* Post-create maintenance is started and not awaited: `MaintainTable`,
  `MaintainRead`, `MaintainWrite`, with no condition on `lock_version`.
* Status, station and price changes read, then write under `lock_version`
  (`Unmoved`) or report a conflict (`LockMiss`).
* Cancelling, voiding an item and moving an order read, then write
  unconditionally. The payment check of a staff cancellation reads a cache of
  eight seconds that payments do not clear, so it may see any earlier sums
  (`CancelCheck`).
* A courier is assigned by one conditional update (`CourierAssign`). Completing
  a delivery reads the status, keeps it or takes `served`, and writes it back if
  the delivery is not completed yet, with no condition on the status or on
  `lock_version` (`DeliveryRead`, `DeliveryWrite`).
* `Die` stops a handler between any two of its statements.

Abstractions: one unit of money is one item; an order's lines are their total;
stations are a set; the service fee and the discount are one signed adjustment;
orders of the channels pick-up and delivery are orders without a table; amounts
are whole units, so the rounding slack of 0.009 is gone; any pending order may
be inside the window in which a guest can cancel it.

### PaymentBook

Entries are made one at a time: `Take` within the price and never on a closed
order, `Give` within what was taken, `Note` without money, each under a key not
yet used for its purpose; `Revise` changes prices and closed orders, never the
entries. `OrderDesk!Book` maps `due` to the final prices, `closed` to cancelled
and refunded orders, `used` to the keys on rows; `KeepsTheBook` says that the
desk implements it. Every handler except the payment routine and the note is a
`Revise` or a stutter.

### OfflineQueue

`queue[c]` is the IndexedDB record of command `c`, `line` the order of
`createdAt`, `sync[t]` the run of `syncQueue` in tab `t`: the snapshot it works
through (`todo`, sent oldest first), the command at hand (`now`), the ids it
learnt (`links`, the source's `resolvedOrderIds`) and the payment `relinkGroup`
has read (`copy`). A sale made offline leaves an `ORDER_CREATE` and later a
`PAYMENT_SALE_CASH` with a placeholder for the order's id; a bill is a payment
on an order the server knows. Each IndexedDB transaction is an action. An exchange is
a `Send` and one of five ends: `Accepted`, `Rejected`, `Conflicted`,
`ServerError`, `NetworkError`. After a network error or a reload the request goes
to `late`, where the server may still serve it (`ServeLate`) or never: this is
the lost request, the lost answer and the delayed request at once. A reload
loses the run and keeps the database. `answers` is history.

The server creates an order for every `ORDER_CREATE` and books a payment once per
order and key, which is what `OrderDesk` proves of it. Any request may be
rejected (session, permissions, data) and any but one with a placeholder may meet
an error that is answered with 409. Queued status and table commands are left out: they
carry no money and take the same path. The list of failed commands is taken to
be up to date, and `createdAt` to follow the order of enqueuing.

### PosCommandQueue

`mem[p]` is the store in the memory of page `p`, `disk` the one in localStorage:
each item's status, the overlays over orders and tables, the copy each command
keeps for its roll-back (`undo`). Store operations are synchronous, so a click
(`Click`), the choice of the next command (`Send`) and what an answer does
(`Resolve`) are one action each and end with the store written to `disk`.
`flight[p]` is the loop of `flushQueue`: at rest, between two commands, or
waiting for one. An answer is `Ack`, `Refuse` (CONFLICT, REJECT, an HTTP error),
`Busy` (RETRY) or `NetworkError`; the request may then still arrive
(`ServeLate`). `Reload` takes the page away at any moment and reads `disk`
again, where a command left `sending` stays so. `Select` mounts a payment panel
anew; `stamp` is the panel a payment was submitted from and so its idempotency
key. An overlay is the sequence of commands merged into it, since only their
order decides what it shows. Backoff delays are gone: a waiting command may be
due at any time.

### BranchSync

`lock` is the row of `device_branch_locks`; each of acquire, renew and release
reads it (`AcquireRead`, …) and then writes by a condition of its own
(`AcquireWrite`, …), which need not be about the row that was read. Time is one
bit of the lease, `Lapse`. `PushBegin` validates the lease once; the commands of
the batch follow one by one (`Execute`, `Skip`). The triggers append to `log`
inside the command's transaction, and its number is taken there, so a row is
`open` until `EndTransaction` commits or rolls it back. `Pull` reads a page of
committed rows after the cursor. The devices are not in the repository: they may
send anything at any time, except a token they were never given.

### CashDesk

A session is the window of payments from `from` to `upto` in the order they were
booked. Opening by hand is `OpenRead`, `OpenInsert`; closing is `CloseRead`, `CloseChecks`,
`CloseCash`, `CloseWrite`, `CloseAudit`; the schedule is `TickStart`, then
for each open session `TickNext` (with the conditions that skip it), `TickCash`,
`TickWrite`, `TickAudit`. A statement may fail (`Mishap`). The code drops the error
of three: the read of open sessions (`OpenRead` opens another), the read of the
payments of a close by hand (`CloseCash` goes on `blind`, with the opening cash
only) and the insert of an audit row (`Audit`). The schedule looks at all its
errors but the last and goes on to the next session (`TickFails`); any other
failure ends the request, like a death between statements (`Die`). `odd` records
closes that are not plain: of a session that was closed already, with cash booked
between sum and write, from the view of all branches, or blind. `closedBy` are the
ways a session was closed, `untraced` those taken by a request that ended or
failed before its audit row: for each session and way, so that one failure
excuses no other close. The clock counts parts of a day, so "past the set time on
a later day" is arithmetic on them. `Book` is a cash payment or refund, `Check`
opens or closes the orders of a branch.

### StockBook

`balance` is the quantity after each movement (a trigger carries a movement into
`ingredient_stock` in its own transaction); `shelf` is what is really there;
`Drift` is the error of the book, with what sales on their way will book (`Owed`,
counted unit by unit) set off. A sale runs `FindOrder`, then `Merge` or
`InsertOrder`, `InsertItems`, `InsertModifiers`, `ConsumptionRows`,
`ConsumptionMovement`, or `FlagOrder` when the latter two fail, `Undo` when an
earlier one does. The merge is guarded by the time stamp the order was
read with. `RoutineSale` is the path of a database that has
`create_or_append_order`; it writes no consumption at all. `used` marks a sale
whose consumption left the shelf, accepted or not: it is about all of these that
`BookedOrFlagged` speaks. An insert may take effect while its answer is lost
(`InsertItems`, `ConsumptionMovement`, `CountFails`). A purchase reads the
stock row under a lock and then commits (`PurchaseRead`, `PurchaseWrite`). A count is a look at
the shelf and a stamp by the browser in either order, two reads sent together,
and the correcting movement; the form is saved again, under the same stamp, after
a failure and after a save whose answer was lost. `Misjudged` is what the three
moments of a count, look, stamp and reads, being apart puts into its correction.

### Accounts

`alive` are the logins of the auth service, `role` and `access` the rows of
`profiles` and `staff_branch_access`. `work[h]` is a request and the statement it
is at. `AskForTenant` is the support desk's provision (business, branch, login,
profile, access row; undone from the end by `UndoLogin`, `UndoBranch`,
`UndoBusiness`); `AskForPerson` creates a login or binds an existing one;
`AskForChange` updates or deletes. `Visible`, `MayManage` and `MayEdit` are the
row policies an owner's statements run under. Deleting a login cascades to its
rows. A login is the place in the order of making, so an e-mail can be used
again. `MakeLogin` may take effect though `createUser` reports an error
(`CreateUser`); a failed read of access rows counts as none (`CheckTenant`).

The history variables say which exception of a property befell whom. `crossed`
holds e-mails. `shaken` holds businesses: `Accept` adds those of requests that
meet (`Met`), of an owner who edits himself (`EditsSelf`) and those the row
policies hide from the owner who changes a person bound to two (`Hidden`), and
`CheckTenant` those of the person it takes over when its read fails. `refused`
and `strandedLogins` hold logins, `strandedTenants` businesses: those whose own
request died over them, whose own undoing failed, or that were made though an
error was reported. A failure marks nothing else.

## Runs

| Run | Result | Instance | Question |
|---|---|---|---|
| `desk_all` | holds | all handlers but moves and hand-set flags, 2 symmetric actors, 1 table, 1 station, 1 order, 1 key, 4 requests of up to 2 units, a discount | `TypeOK`, `RefundsCovered`, `KeyAppliedOnce`, `VersionFreezesLedger`, `ReopenedOnlyUnlocked`, and the refinement `KeepsTheBook` |
| `desk_one_bill` | holds | 2 symmetric actors, 1 table, 2 orders, 5 requests of up to 2 units; creation, payments, cancellations, status changes by hand | `SplitOnlyByReturn` |
| `desk_ledger` | holds | 2 symmetric actors, 2 orders, 2 tables, 4 requests; creation, payments, refunds, cancellations, moves, table flags | `StatusAgreesWithLedger` |
| `desk_cancel_race` | violated | 3 requests | `NoMoneyOnCancelled` |
| `queue_one_tab` | holds | 1 tab, a sale and a bill, 2 failures, 1 manual retry | `TypeOK`, `ChargedOnce`, `PaymentAfterOrder`, `LostOnlyByConflict`, `TwiceOnlyByFailure`, and `Drains` under `ReopeningSpec` |
| `queue_two_tabs` | violated | 2 tabs, 1 sale, 1 failure | `ChargedOnce` |
| `pos_one_page` | holds | 1 page, a price change, a payment, a table click, 2 failures, 1 mount | `TypeOK`, `ChargedOnce`, `KeptUntilAnswered`, `FirstTriesInOrder`, `OverlaysFollow`, `Resolves` |
| `pos_split_payment` | violated | two partial payments from one panel | `PaidWhatWasAcked` |
| `branch_sync` | holds | 2 devices, 1 reader, 2 requests, 2 rows, batch and page 1, 2 tokens, 2 events | `TypeOK`, `TokensNeverReturn`, `SkipsOnlyOvertaken`, `OnlyHolderMovesLease`, `StealsOnlyByRace`, `ChangesArrive` |
| `cash_desk` | holds, no deadlock | 2 branches seen one by one or together, 1 hand, 1 schedule run, a day of 2 parts, 1 session, 1 payment, 1 mishap | `TypeOK`, `PlainCloseIsExact`, `CloseLeavesTrace`, `AutoNeverOverwrites`, `NightComes` |
| `stock_book` | holds, no deadlock | 2 symmetric sales, 1 purchase, 1 count, 2 mishaps, clock off by 1 | `TypeOK`, `BookedOrFlagged`, `LostOnlyByUndo`, `AverageSeesStock`, `CountTakesOutError` |
| `tenant_accounts` | holds | 2 hands, 2 e-mails, 2 businesses, 3 logins, 3 requests, 2 mishaps | `TypeOK`, `OneTenant`, `KeepsOwner`, `NoLeftovers` |

Deadlock is checked where the model can always go on. Elsewhere it is off: the
bounds on requests, failures, tokens and retries are budgets, and when they are
spent nothing is left to do.

Why the bounds suffice. Each hazard of the desk is a race of two handlers over
one row, and one or two requests before it set the row up: two actors and four
or five requests contain every pair of handlers on a prepared order. Two
units allow a partial payment, a partial refund and an over-payment; a second
order is needed only where two bills are compared. In the queues a lost answer,
a reload and a disconnection are the failures; two of them let each pair fall
into one behaviour. Two events are what it takes for one to overtake another,
two tokens for a lease to change hands, and the theorems about both hold for any
number. The cash desk needs one session for each race over its row; the day has
two parts so that a session can be opened before and after the set time. Two
sales meet over an order, and a sale and a count over the lock of a purchase; two
mishaps are a lost answer and a death, or a failure and the failure of its flag
or undoing. Two requests meet in a
business, a third prepares it or comes after, and two mishaps are a failure and
the failure of its undoing.

### What the violations show

* **`desk_cancel_race`** `cancelOrder` (data.ts:5857-5867) checks, then writes
  `cancelled` unconditionally; a payment in between stays on the order.
  `scripts/phase3-finance-integrity-check.mjs:80-82` looks for such orders.
* **`queue_two_tabs`** `syncing` (offline-queue.ts:211) is a variable of the page:
  two tabs send the same sale, the server makes two orders, and the payment, once
  per order and key, is booked on each. The header of the file (lines 9-10)
  promises that no command is processed twice.
* **`pos_split_payment`** `cashier-payment-panel.tsx:93` draws one request key
  per mounted panel. The second partial payment is taken for a resend of the
  first: acknowledged, reported as recorded, not booked.

The properties that hold carry their exceptions in the statement; these are
limits of the code worth knowing:

* A settled bill is opened again by `syncOrderStationStatusesAfterOrderWrite`
  (data.ts:622-669), which writes a status derived before the bill was paid;
  it is then a second open bill of its table. So does `markDeliveryCompleted`
  (data.ts:6372-6378), which writes `served` over a payment or a cancellation it
  did not see, or puts a bill reopened meanwhile back to `paid` without moving
  `lock_version`. `ReopenedOnlyUnlocked` says nothing else does this.
* A bill that staff set to paid or partially refunded by hand, or that was made
  dearer after it was paid, is closed with money due; a later payment
  (`completeOrderPayment` refuses cancelled and refunded orders only) makes it
  `partially_paid`, open again, next to the bill the table has by then.
  `SplitOnlyByReturn` lists this, the unlocked writes, the writes of a handler
  that read a cancelled order open, and moves; two rounds ordered at once are
  not among the ways a table gets two bills.
* A cancellation and an append leave `lock_version` alone, so a status write
  prepared before either passes over it; a void after a partial payment leaves
  the status as it was.
* An `ORDER_CREATE` whose answer is lost makes a second order
  (`TwiceOnlyByFailure`). A payment queued after its order was sent, or put back
  from an old snapshot, keeps its placeholder and fails until the cashier drops
  it. Every HTTP 409, errors that name a lock among them, is taken for a replay and the
  command is dropped in silence (`LostOnlyByConflict`).
* A command of the cashier screen that is `sending` when its page dies is never
  sent again (`Resolves`).
* A change is missed by a polling device if its transaction commits after one
  with a later number was read (`SkipsOnlyOvertaken`); a running lease can be
  taken over by a request that read it before it was renewed (`StealsOnlyByRace`).
* An overlay of the cashier screen outlives its commands when a later command on
  the same order is refused: the roll-back (store.ts:386) puts back the overlay the
  refused command was clicked on, whose commands may have been answered meanwhile,
  and nothing takes it away until another command on that order is acknowledged.
  The acknowledgement of the last command shown clears the overlay (store.ts:385)
  though older ones still wait. `OverlaysFollow` states both as its exceptions.
* A register can be closed again after it was closed, or with cash booked
  between sum and write, or from the view of all branches. `closeCashSession`
  drops the error of the payments query (data.ts:10351): when the read fails it
  expects the opening cash only and reports the difference as the cashier's
  (`PlainCloseIsExact`). `openCashSession` drops the error of its read
  (data.ts:10240) and opens a second session.
* The audit row of a close is lost when the request dies before it or the insert
  fails, which nobody looks at (data.ts:2554); the schedule writes its row
  although its update closed nothing because a cashier had (auto-close,
  route.ts:231), so the trail tells of a close that was not. `CloseLeavesTrace`
  promises the row, not that each row stands for a close.
* `BookedOrFlagged` has four exceptions, each of the one sale it befalls. The
  routine path writes no consumption: createOrder returns (data.ts:3449) before
  it, although data.ts:3694 says that it never passes silently. A request
  that dies after the kitchen has its line leaves neither movement nor flag. The
  write of the flag is not checked (data.ts:3258, 3277). A failed round deletes the
  order it made with the rounds merged into it (data.ts:3640), or restores it over
  rounds that came in between (`LostOnlyByUndo`).
* A count is off by what was booked between the stamp and the look at the shelf
  and between its two reads, and by the sales half written at the look; saved again
  after a lost answer it takes the same error out twice (`CountTakesOutError`).
* A business can lose its last owner in four ways (`KeepsOwner`). An owner who
  edits himself deletes the access row by which he may write the next one. Two
  owners may delete each other, and other requests that meet over a business or a
  person may do likewise. When the read of access rows fails (data.ts:9143-9149)
  another business takes its owner over, and the upsert (data.ts:9188) may make
  him staff, though nobody edited himself and nothing met. And one who came to be
  bound to two businesses is demoted or deleted by an owner who does not see the other.
* Two businesses may bind one e-mail at once (`OneTenant`).
* Four things leave a login that can enter nothing, or a business half made
  (`NoLeftovers`): a refused access row, which create, assign and update do not
  undo; the death of the request; a failed undoing; and a `createUser` whose answer
  is lost after it took effect (data.ts:2205, 9158).

### Fairness

`OrderDesk`, `StockBook` and `Accounts` have safety properties only and no
fairness: handlers may die. `OfflineQueue!Spec` assumes that a page does the work
it has started, that every fetch ends (the browser gives up on a silent
connection) and that an interrupted connection returns. That is not enough for
`Drains`: a run of `syncQueue` starts on page load, on the browser's `online`
event, or on a manual retry, so a command queued while the browser believes to be
online waits with nothing to wake it (under `Spec` TLC finds this).
`queue_one_tab` therefore checks `ReopeningSpec`, which adds that the page is
opened again and again, as at the start of a shift. `PosCommandQueue` has an
interval timer instead, so `Send` and `EndFlush` are fair without any reload,
each fetch gets one of its answers, and the connection returns. Failures are
finitely many in both. `BranchSync` assumes that transactions end and devices
keep polling; nobody need acquire, renew or release. `CashDesk` assumes that time
passes and that the schedule keeps calling its endpoint, nothing of cashiers.

## Proofs

The theorems hold for any sets of actors, pages, devices, tables, keys, branches,
businesses and e-mails and any bounds. The assumptions are about names and
numbers only: bounds are natural numbers, sentinels are no members of the sets
they complement, kinds of participants are disjoint, a cut-off lies within the
day (`BoundsAssumption`, `NamesAssumption`, `CommandsAssumption`, `PosBounds`,
`PosNames`, `SyncAssumption`, `CashAssumption`, `StockAssumption`,
`AccountsAssumption`, `SalesAreNotBills`, `BillsAreFinite`, `QueueBounds`,
`GoneIsNothing`). TLC evaluates each on its run.

**OrderDeskProofs.**
`TypeCorrect`: `TypeOK`, one lemma per kind of request and per kind
of write. `LockGuardsLedger`: `VersionFreezesLedger`. A request remembers the
sums of the ledger at its read (history). The invariant says that
while the row's version is the one read, the sums are too. It is inductive with
`TypeOK`, in two halves: every action only lets rows *advance* (version and
ledger both stand, or the version grows: `RowsAdvance`), and every request
either carries its read on or has just made it (`RequestsCarry`); `ReadersKept`
joins them. This is what makes every conditional write safe against
payments, and it needs the routine of the database to bump `lock_version` with
each row it inserts. `NoOverRefund`: `RefundsCovered`; `LedgerWriters` shows that three
actions write the ledger, `RefundAmount` that a refund fits.
`OneRowPerKey`: `KeyAppliedOnce`; an insert is guarded by `KeyKnown`
in the same step, for sales, refunds and notes, the latter sharing the sale's
keys. `DeskKeepsTheBook`: `Spec => KeepsTheBook`, refinement by step simulation with
`RefundsCovered` as the invariant it needs. `SettledStaysClosed` and
`OneBillUnlessOneReturns` share `DeskInv`, which adds that a locked write of an open
status has read one (`WritesReadOpen`, from the transition table) and that a
refund's row comes with its money (`RefundRowsCount`); `ClosedComesBack` then names
all ways in which a closed order is open again, `OnlyCreateMakes` the one in which
an order comes into being. `LedgerSetsTheStatus`: `StatusAgreesWithLedger` under
`Handlers \subseteq LedgerDesk`, where no request ever reaches another handler's
write (`NoWriter`).

**PosCommandQueueProofs.** `QueueTypes`, and `ChargedOncePerKey` from
`TypeOK /\ OnlyClicked /\ ChargedOnce`: only what was clicked is in a store, in
flight, late or applied, so a command not yet clicked has no effect that a later
click could double when it takes on the key of a panel. `OnePageKeeps`,
`OnePageKeepsOrder` and `OnePageShowsWhatWaits` say of one page what it cannot
keep when two share a localStorage; they follow from `PageInv`: the memory of the
page is what is persisted, the command it waits for is marked (`Alone`), each
overlay of an order and each copy kept for a roll-back lists commands in the order
of the clicks, older than the one it was copied for (`Layered`), what such a list
ends with waits unless a later command was refused, what waits is in it unless a
later one was acknowledged (`ShowsWaiting`), and a table's overlay is the one
command that waits for it (`OneForTable`).

**BranchSyncProofs.** `SyncTypes`; `NoTokenReturns`, `LeaseMovedByHolder`,
`RunningLeaseKept` and `MissesOnlyOvertaken`. The invariant adds `EventsOpen` (a
request that is to commit owns an open row of the log, and no two share one), `TokensDrawn`
(every token in use was drawn), `AskedWhenFree` (an acquirer read a row it was
free to take) and `FeedInv`: a cursor stands on a committed event, and an event
that was open when a later one committed is in `passed` (`OvertakenPassed`), hence what a page skips
was overtaken.

**OfflineQueueProofs.** The commands and orders of a group, and the ids they are
linked by, for any number of tabs. `OfflineTypes` with `HasCommand` (a page that
waits, relinks or removes has a command at hand; what it relinks is an order).
All other proofs use that the server only adds to its log (`Grown`).
`SentInOrder` from `OrderInv`: what is sent or
written back was queued, a sale's order stands before its payment in the line, an
order that does not wait was answered (`WaitsOrHeard`), and a run that holds a
payment holds its order too unless that was answered (`PaymentsBehind`).
`NothingLost` from `LostInv`: a run that is to remove a command has an answer that
settles it. `PaidOnOwnOrder` from `OwnInv`: every id in the database, in a
snapshot, among the links, read for a retry or on its way is that of an order made
for the same group (`Own`). That part of `ChargedOnce` holds for any number of
tabs.

**OneTabProofs.** The rest of `ChargedOnce`, and `TwiceOnlyByFailure`, under
`OneTab`: one page works on the device. With two both fail (`queue_two_tabs`): each
sends the order of a sale, and each books its payment on the order it was told.
Bills have one order and need no hypothesis (`BillsChargedOnce`).
`OneTabChargesOnce` follows from `PageInv`. That a payment was sent with one id
only is not inductive: an answer may still bring an id, and a snapshot or a record
read for a retry may put an older one back. So `LinkInv` keeps all ids that wait
for a payment in agreement, and says that the page knows an id only of an order
it will never send again (`Dead`) or is about to remove (`Leaving`); `SentInv` says
that what was sent and may still be booked fixes what can be sent later;
`HandInv` that a command in hand waits in the queue and the one about to be
retried does not, so they are never the same.
`OneTabRepeatsByFailure` follows from `CountsInv`, an account: the orders made for
a sale, the requests for it that nobody waits for, one while it may yet be sent,
and one while a broken connection is about to leave a request to itself, are at
most one more than the failures (`CountInv`). Each step moves an entry of this
sum or pays for a new one with a failure.

**CashDeskProofs.** `RegisterTypes` and `ClosesAreTraced` from
`TypeOK /\ Aimed /\ Traced`: a request at work on a session aims at one that exists,
and only one that owes an audit row has written (`Aimed`); each way a session was
closed is recorded, forgotten by the request that took it, or owed by one
(`Traced`). `ScheduleKeepsCloses` by case over the steps. `PlainClosesAreExact` from
`SumInv`: what a request summed is the sum up to the payment where it read, which
later payments leave alone (`SumStays`), of the branch of the session it is about
to close, unless it is a cashier's who looks at all branches or is blind
(`Counts`); a closed session that is not `odd` has that sum (`ClosedExactly`).

**StockBookProofs.** `SalesBookedOrFlagged` and `RoundsLostOnlyByUndo` from
`OrderInv`: the stamp of an order moves with its bill, so a merge that finds the
stamp it read finds the bill it read, and a sale that used the shelf is at one of
five steps. The first also needs `Deletions`: an order that is gone was deleted by
the request that made it, which was refused. `PurchaseSeesStock` from `BookInv`: a
purchase that found the row holds its lock and knows its quantity. `StockTypes`
adds `ClerkInv`: an average is a number, and the sales on their way to the book
are finitely many even if `Sales` is not, for they come one at a time; so what
they owe (`Owed`) is a number. `CountsTakeOutError` adds `NotesInv`: the book only
grows, so what a count read of it stays true of it (`Notes`), at its look, at its
stamp and at its two reads; the error it found is the difference between the book
at its look and what it counted, and the terms of `Misjudged` are what was booked
from each of these moments to the next.

**AccountsProofs.** `TenantTables` from `WorkInv` (types, and what each step of a
request implies of its record and of the tables). `OneTenantEach` adds
`TenantInv`: two requests on one e-mail have marked it, so one that passed the
check is alone with it. `BusinessKeepsOwner` adds `OwnerInv`: two requests in one
business, or on one person, have marked it (`MetInv`), and whom a request has taken
up works for its business alone or has shaken the others (`PeopleInv`, over
`TakesUp`: past the check). So a request that counted two owners, or is about to
replace an access row, is alone with what it saw, and takes an owner from no
business but its own. `NothingLeftOver` adds `LeftInv`, said of each login and
each business: it has rows of its own, or is the charge of a request at a step
from which it is bound or undone (`InCharge`), or is itself marked as refused or
stranded.

Every safety invariant and action property of the runs that hold is a theorem.
Only model-checked: the liveness properties `Drains`, `Resolves`, `ChangesArrive`
and `NightComes`, which need ENABLED and are out of the prover's reach. Some
theorems have a hypothesis, as the runs do: one page for two of `OneTabProofs`
and three of `PosCommandQueueProofs`, the handlers that keep to the ledger for
`LedgerSetsTheStatus`.

## Not modelled

* Order lines and `order_items` of the desk, so lost updates between two voids
  (data.ts:5995); the paths for databases without the routines or without
  `lock_version`; deleting tables; changing a price or a status from the offline
  queue.
* Service requests of tables: one insert, one conditional update.
* Check numbers: a trigger under an advisory lock, one step each.
* The arithmetic of recipes and product costs (pure, with unit tests beside
  it); `modifiers/engine.ts` and `recipes/consumption.ts` are called by tests only.
* Branches of a person, changes of role from the user list, changes of e-mail
  address, support impersonation.
* QR tokens, confirmation codes and rate limits; refresh timers and the cooldown
  of alerts; printing. No state of the business depends on their order.
* Sign-in, plans, content, reports and the user interface: forms, queries and
  rendering. `ops_command_attempts` is written and never read.

Hazards seen and not pursued: a purchase into negative stock moves the average
price out of range; the result of recomputing product costs is ignored; a
cancelled order gives no stock back.

What could come next: order lines in `OrderDesk`, so that the lost update between
two voids has a property of its own; `BranchSync` as an implementation of a log
that is read in order.
