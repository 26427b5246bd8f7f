----------------------------- MODULE BranchSync -----------------------------
(***************************************************************************)
(* Local-first sync of a branch: the lease one device holds on the branch   *)
(* (lib/sync/branch-lock.ts), the batches it pushes under that lease        *)
(* (api/sync/push, the offline commands of api/ops/command), the log of     *)
(* changes the database keeps (triggers of 20260321...) and the cursor with *)
(* which devices read it (api/sync/pull).                                   *)
(*                                                                         *)
(* The lease row is read and written in statements of their own, so each    *)
(* handler is one action per statement.  Time is one bit: a lease has       *)
(* lapsed or not, and may lapse at any moment.  The devices are outside the *)
(* repository; all that is assumed of them is that they send the token they *)
(* were last given.                                                         *)
(***************************************************************************)
EXTENDS Naturals, Sequences, FiniteSets, FiniteSetsExt

CONSTANTS
  Devices,    \* devices of the branch that push
  Readers,    \* devices that read the log of changes
  Requests,   \* requests the server handles at one time
  Entities,   \* rows that commands change: orders, tables, payments
  None,
  Batch,      \* commands in a push
  Page,       \* events in a page of the log
  MaxTokens,  \* bound: leases ever taken
  MaxEvents   \* bound: sequence numbers ever given

ASSUME SyncAssumption ==
  /\ None \notin Devices /\ None \notin Entities
  /\ {Batch, Page} \subseteq Nat \ {0}
  /\ {MaxTokens, MaxEvents} \subseteq Nat

VARIABLES
  lock,     \* the row of device_branch_locks, or None
  tokens,   \* lock tokens drawn so far
  held,     \* held[d]: the token device d was last given, 0 if none
  req,      \* req[r]: what request r is doing
  log,      \* ops_sync_events by sequence number, uncommitted rows included
  cursor,   \* cursor[d]: the last sequence number device d was given
  seen,     \* seen[d]: the events device d was given
  passed,   \* history: events that were open when a later one was committed
  retired   \* history: tokens that were written over

lease == <<lock, tokens, held>>
feed  == <<log, cursor, seen, passed>>
vars  == <<lock, tokens, held, req, log, cursor, seen, passed, retired>>

Tokens == 1..MaxTokens
Lock   == [dev : Devices, tok : Tokens, status : {"active", "released"}, lapsed : BOOLEAN]
Done   == [pc : {"idle"}, dev : {None}, tok : {0}, saw : {None}, todo : {0}, seq : {0}]
Work   == [pc : {"acquire", "renew", "release", "push", "commit"}, dev : Devices, tok : 0..MaxTokens,
           saw : Lock \cup {None}, todo : 0..Batch, seq : 0..MaxEvents]
Event  == [on : Entities, state : {"open", "committed", "rolled back"}]

TypeOK ==
  /\ lock \in Lock \cup {None}
  /\ tokens \in 0..MaxTokens
  /\ held \in [Devices -> 0..MaxTokens]
  /\ req \in [Requests -> Done \cup Work]
  /\ log \in Seq(Event) /\ Len(log) <= MaxEvents
  /\ cursor \in [Readers -> 0..MaxEvents]
  /\ seen \in [Readers -> SUBSET (1..MaxEvents)]
  /\ passed \subseteq 1..MaxEvents
  /\ retired \subseteq Tokens

Idle == [pc |-> "idle", dev |-> None, tok |-> 0, saw |-> None, todo |-> 0, seq |-> 0]

Init ==
  /\ lock = None /\ tokens = 0
  /\ held = [d \in Devices |-> 0]
  /\ req = [r \in Requests |-> Idle]
  /\ log = <<>>
  /\ cursor = [d \in Readers |-> 0]
  /\ seen = [d \in Readers |-> {}]
  /\ passed = {} /\ retired = {}

Begin(r, pc, d, t, n) ==
  /\ req[r] = Idle
  /\ req' = [req EXCEPT ![r] = [pc |-> pc, dev |-> d, tok |-> t, todo |-> n, seq |-> 0,
                                saw |-> IF pc = "acquire" THEN lock ELSE None]]
Finish(r) == req' = [req EXCEPT ![r] = Idle]

-----------------------------------------------------------------------------
(* The lease.                                                              *)

Active(l) == l # None /\ l.status = "active"
Mine(l, d, t) == l # None /\ l.dev = d /\ l.tok = t

\* The server dies, the statement fails or the caller is refused.
GiveUp(r) ==
  /\ req[r].pc \in {"acquire", "renew", "release", "push"}
  /\ Finish(r)
  /\ UNCHANGED <<lease, feed, retired>>

\* isActiveAndNotExpired
Running(l) == Active(l) /\ ~l.lapsed

\* mutant: any device may take the lease of another
FreeAlways(l, d) == TRUE

\* The device that asks may take its own lease anew.
Free(l, d) == Running(l) => l.dev = d

AcquireRead(r, d) ==
  /\ Free(lock, d)
  /\ Begin(r, "acquire", d, 0, 0)
  /\ UNCHANGED <<lease, feed, retired>>

\* The upsert is not conditional on the row that was read.  The answer with
\* the new token may be lost on its way to the device.
AcquireWrite(r) ==
  /\ req[r].pc = "acquire" /\ tokens < MaxTokens
  /\ LET d == req[r].dev IN
     /\ lock' = [dev |-> d, tok |-> tokens + 1, status |-> "active", lapsed |-> FALSE]
     /\ held' \in {held, [held EXCEPT ![d] = tokens + 1]}
  /\ tokens' = tokens + 1
  /\ retired' = retired \cup (IF lock = None THEN {} ELSE {lock.tok})
  /\ Finish(r)
  /\ UNCHANGED feed

\* The expiry is not looked at: a lapsed lease can be renewed.
RenewRead(r, d) ==
  /\ Active(lock) /\ Mine(lock, d, held[d])
  /\ Begin(r, "renew", d, held[d], 0)
  /\ UNCHANGED <<lease, feed, retired>>

\* mutant: the update names the branch only and writes the token it was sent
RenewAnyRow(r) ==
  /\ req[r].pc = "renew"
  /\ lock' = [lock EXCEPT !.dev = req[r].dev, !.tok = req[r].tok,
                          !.status = "active", !.lapsed = FALSE]
  /\ Finish(r)
  /\ UNCHANGED <<tokens, held, feed, retired>>

\* Conditional on device and token, not on the status: a lease that was
\* released since it was read is active again.
RenewWrite(r) ==
  /\ req[r].pc = "renew"
  /\ lock' = IF Mine(lock, req[r].dev, req[r].tok)
             THEN [lock EXCEPT !.status = "active", !.lapsed = FALSE] ELSE lock
  /\ Finish(r)
  /\ UNCHANGED <<tokens, held, feed, retired>>

ReleaseRead(r, d) ==
  /\ Active(lock) /\ Mine(lock, d, held[d])
  /\ Begin(r, "release", d, held[d], 0)
  /\ UNCHANGED <<lease, feed, retired>>

\* mutant: the release is conditional on the branch only
ReleaseAnyRow(r) ==
  /\ req[r].pc = "release"
  /\ lock' = [lock EXCEPT !.status = "released", !.lapsed = TRUE]
  /\ Finish(r)
  /\ UNCHANGED <<tokens, held, feed, retired>>

ReleaseWrite(r) ==
  /\ req[r].pc = "release"
  /\ lock' = IF Mine(lock, req[r].dev, req[r].tok)
             THEN [lock EXCEPT !.status = "released", !.lapsed = TRUE] ELSE lock
  /\ Finish(r)
  /\ UNCHANGED <<tokens, held, feed, retired>>

Lapse ==
  /\ lock # None /\ ~lock.lapsed
  /\ lock' = [lock EXCEPT !.lapsed = TRUE]
  /\ UNCHANGED <<tokens, held, req, feed, retired>>

-----------------------------------------------------------------------------
(* Commands.  Each is a transaction of its own; its triggers take sequence  *)
(* numbers as they insert, before it commits.                               *)

\* validateLockForDevice
Valid(l, d, t) == Running(l) /\ Mine(l, d, t)

\* mutant: the limit of a batch is off by one
PushBeginOver(r, d) ==
  /\ Valid(lock, d, held[d])
  /\ Begin(r, "push", d, held[d], Batch + 1)
  /\ UNCHANGED <<lease, feed, retired>>

\* The lease is validated once; then all commands of the batch are executed.
PushBegin(r, d) ==
  /\ Valid(lock, d, held[d])
  /\ Begin(r, "push", d, held[d], Batch)
  /\ UNCHANGED <<lease, feed, retired>>

\* A command without lock token, from a device that is online.
OnlineBegin(r, d) ==
  /\ Begin(r, "push", d, 0, 1)
  /\ UNCHANGED <<lease, feed, retired>>

\* A transaction waits for one that holds the row.
Locked(x) == \E s \in DOMAIN log : log[s].on = x /\ log[s].state = "open"

Execute(r) ==
  /\ req[r].pc = "push" /\ req[r].todo > 0 /\ Len(log) < MaxEvents
  /\ \E x \in Entities :
       /\ ~Locked(x)
       /\ log' = Append(log, [on |-> x, state |-> "open"])
  /\ req' = [req EXCEPT ![r].pc = "commit", ![r].seq = Len(log) + 1]
  /\ UNCHANGED <<lease, cursor, seen, passed, retired>>

\* A command that is refused, by its branch or by the handler, changes no row.
Skip(r) ==
  /\ req[r].pc = "push" /\ req[r].todo > 0
  /\ req' = [req EXCEPT ![r].todo = @ - 1]
  /\ UNCHANGED <<lease, feed, retired>>

OpenBefore(s) == {e \in 1..(s - 1) : log[e].state = "open"}

EndTransaction(r) ==
  /\ req[r].pc = "commit"
  /\ LET s == req[r].seq IN
     \/ /\ log' = [log EXCEPT ![s].state = "committed"]
        /\ passed' = passed \cup OpenBefore(s)
     \/ /\ log' = [log EXCEPT ![s].state = "rolled back"]
        /\ UNCHANGED passed
  /\ req' = [req EXCEPT ![r].pc = "push", ![r].todo = @ - 1, ![r].seq = 0]
  /\ UNCHANGED <<lease, cursor, seen, retired>>

\* The summary is sent.
PushEnd(r) ==
  /\ req[r].pc = "push" /\ req[r].todo = 0
  /\ Finish(r)
  /\ UNCHANGED <<lease, feed, retired>>

-----------------------------------------------------------------------------
(* The feed.                                                               *)

\* mutant: the cursor is taken for the next number to read, not the last one read
AfterGap(n) == {s \in DOMAIN log : log[s].state = "committed" /\ s > n + 1}

After(n) == {s \in DOMAIN log : log[s].state = "committed" /\ s > n}

\* mutant: the newest page is read instead of the oldest
NewestPage(n) == {s \in After(n) : Cardinality({e \in After(n) : e > s}) < Page}

\* order by sequence ascending, limit
NextPage(n) == {s \in After(n) : Cardinality({e \in After(n) : e < s}) < Page}

NewCursor(n) == IF NextPage(n) = {} THEN n ELSE Max(NextPage(n))

Pull(d) ==
  /\ NextPage(cursor[d]) # {}
  /\ seen' = [seen EXCEPT ![d] = @ \cup NextPage(cursor[d])]
  /\ cursor' = [cursor EXCEPT ![d] = NewCursor(@)]
  /\ UNCHANGED <<lease, req, log, passed, retired>>

-----------------------------------------------------------------------------

Handle(r) ==
  \/ GiveUp(r)
  \/ AcquireWrite(r) \/ RenewWrite(r) \/ ReleaseWrite(r)
  \/ Execute(r) \/ Skip(r) \/ EndTransaction(r) \/ PushEnd(r)

Next ==
  \/ Lapse
  \/ \E r \in Requests, d \in Devices :
       AcquireRead(r, d) \/ RenewRead(r, d) \/ ReleaseRead(r, d)
         \/ PushBegin(r, d) \/ OnlineBegin(r, d)
  \/ \E r \in Requests : Handle(r)
  \/ \E d \in Readers : Pull(d)

\* Transactions end, and devices keep polling.
Fairness == /\ \A r \in Requests : WF_vars(EndTransaction(r))
            /\ \A d \in Readers : WF_vars(Pull(d))

Spec == Init /\ [][Next]_vars /\ Fairness

-----------------------------------------------------------------------------
(* Properties.                                                             *)

\* A token that was replaced is never valid again, whatever requests with it
\* were under way: no renewal or release of an ousted device brings it back.
TokensNeverReturn == lock # None => lock.tok \notin retired

\* While a lease keeps its token, only time and requests that carry this very
\* device and token move it: nobody prolongs or ends the lease of another.
OnlyHolderMovesLease ==
  [][lock # None /\ lock' # None /\ lock'.tok = lock.tok /\ lock' # lock =>
       \/ lock' = [lock EXCEPT !.lapsed = TRUE]
       \/ \E r \in Requests : /\ req[r].pc \in {"renew", "release"} /\ req'[r] = Idle
                              /\ Mine(lock, req[r].dev, req[r].tok)]_vars

\* A device loses a running lease to another only to one that read the row
\* while the lease was not running: the row changed under the acquirer.
StealsOnlyByRace ==
  [][\A r \in Requests :
       req[r].pc = "acquire" /\ lock' # lock /\ req'[r] = Idle
       /\ Running(lock) /\ lock.dev # req[r].dev
       => req[r].saw # lock]_vars

\* A device misses a committed change only if its transaction was open when
\* one with a later number was committed; all others it gets.
SkipsOnlyOvertaken ==
  \A d \in Readers : \A s \in DOMAIN log :
    log[s].state = "committed" /\ s <= cursor[d] /\ s \notin seen[d] => s \in passed

\* Every committed change reaches every device that keeps polling, unless it
\* was overtaken.
ChangesArrive ==
  \A d \in Readers : \A s \in 1..MaxEvents :
    (s \in DOMAIN log /\ log[s].state = "committed") ~> (s \in seen[d] \/ s \in passed)
=============================================================================
