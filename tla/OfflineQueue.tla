---------------------------- MODULE OfflineQueue ----------------------------
(***************************************************************************)
(* The offline write queue of the web app: sales made without a connection *)
(* are kept in IndexedDB and sent to /api/ops/command later.               *)
(*                                                                         *)
(* A sale leaves two commands, its order and then its payment.  The order  *)
(* gets its id from the server only when it is sent, so the payment is     *)
(* stored with a placeholder that is to be replaced ("relinked") by then.  *)
(* A bill is an order the server knew before: its payment has the real id. *)
(*                                                                         *)
(* Every IndexedDB transaction is one action, every exchange with the      *)
(* server two: requests outlive the page that sent them.  The tabs of one  *)
(* device share the database and nothing else.                             *)
(***************************************************************************)
EXTENDS Naturals, Sequences, SequencesExt, FiniteSets, Bags

CONSTANTS
  Tabs,         \* pages of one device that run the queue
  Sales,        \* sales made offline
  Bills,        \* orders opened online, to be paid
  Gone,         \* no such record
  MaxFailures,  \* bound: network errors, 5xx answers, reloads, disconnections
  MaxRetries    \* bound: failed commands a cashier sends again

ASSUME SalesAreNotBills == Sales \cap Bills = {}
ASSUME BillsAreFinite == IsFiniteSet(Bills)
ASSUME QueueBounds == MaxFailures \in Nat /\ MaxRetries \in Nat

Groups      == Sales \cup Bills
Placeholder == 0                    \* `offline:<groupId>` in place of an id
OrderOf(g)   == [group |-> g, kind |-> "order"]
PaymentOf(g) == [group |-> g, kind |-> "payment"]
Commands == {OrderOf(g) : g \in Sales} \cup {PaymentOf(g) : g \in Groups}

ASSUME GoneIsNothing == /\ Gone \notin [status : {"pending", "failed"}, ref : Nat]
                        /\ Gone \notin [cmd : Commands, ref : Nat]

VARIABLES
  online,    \* navigator.onLine
  queue,     \* queue[c]: the IndexedDB record of command c, or Gone
  line,      \* the commands ever queued, in the order of createdAt
  sync,      \* sync[t]: the run of syncQueue in tab t
  retry,     \* retry[t]: what retryFailed of tab t read and will write back
  late,      \* requests the server may still process though no page waits
  origin,    \* origin[o]: the sale or bill order o of the server was made for
  payments,  \* the sale rows of the server's ledger, [order, group]
  answers,   \* history: answers[c]: the answers that reached a page
  failures,
  retries

client == <<queue, line, sync, retry>>
server == <<origin, payments>>
vars   == <<online, client, server, late, answers, failures, retries>>

-----------------------------------------------------------------------------

OrderIds == 1..Len(origin)

Record(status, ref) == [status |-> status, ref |-> ref]
Stored  == [status : {"pending", "failed"}, ref : {Placeholder} \cup OrderIds]
Request == [cmd : Commands, ref : {Placeholder} \cup OrderIds]

Answer == {"ack", "conflict", "retry", "reject"}
PC     == {"idle", "list", "ready", "wait", "relink", "put", "remove", "bump", "fail"}

\* A run: what it has yet to send, what it sends now, the ids it learnt, and the
\* payment it is relinking.
Run == [pc    : PC,
        todo  : SUBSET Request,
        now   : Request \cup {Gone},
        links : [Sales -> {Placeholder} \cup OrderIds],
        copy  : Stored \cup {Gone}]

NoLinks == [s \in Sales |-> Placeholder]
AtRest  == [pc |-> "idle", todo |-> {}, now |-> Gone, links |-> NoLinks, copy |-> Gone]
Started == [AtRest EXCEPT !.pc = "list"]

TypeOK ==
  /\ online \in BOOLEAN
  /\ queue \in [Commands -> Stored \cup {Gone}]
  /\ line \in Seq(Commands) /\ IsInjective(line)
  /\ sync \in [Tabs -> Run]
  /\ retry \in [Tabs -> Request \cup {Gone}]
  /\ BagToSet(late) \subseteq Request
  /\ origin \in Seq(Groups)
  /\ payments \in Seq([order : OrderIds, group : Groups])
  /\ answers \in [Commands -> SUBSET (Answer \cup {"discarded"})]
  /\ failures \in 0..MaxFailures /\ retries \in 0..MaxRetries

Init ==
  /\ online   = TRUE
  /\ queue    = [c \in Commands |-> Gone]
  /\ line     = <<>>
  /\ sync     = [t \in Tabs |-> AtRest]
  /\ retry    = [t \in Tabs |-> Gone]
  /\ late     = EmptyBag
  /\ origin   = SetToSeq(Bills)
  /\ payments = <<>>
  /\ answers  = [c \in Commands |-> {}]
  /\ failures = 0
  /\ retries  = 0

Queued(c)  == c \in ToSet(line)
\* Command c was queued before command d.
Before(c, d) == \E i, j \in DOMAIN line : i < j /\ line[i] = c /\ line[j] = d
Pending(c) == queue[c] # Gone /\ queue[c].status = "pending"
Failed(c)  == queue[c] # Gone /\ queue[c].status = "failed"

\* Something goes wrong, as it may MaxFailures times.
Mishap == failures < MaxFailures /\ failures' = failures + 1

-----------------------------------------------------------------------------
(* The cashier.                                                            *)

\* mutant: a command is queued again
EnqueueAgain(c, ref) ==
  /\ queue' = [queue EXCEPT ![c] = Record("pending", ref)]
  /\ line' = Append(line, c)
  /\ UNCHANGED <<online, sync, retry, server, late, answers, failures, retries>>

Enqueue(c, ref) ==
  /\ ~Queued(c)
  /\ queue' = [queue EXCEPT ![c] = Record("pending", ref)]
  /\ line' = Append(line, c)
  /\ UNCHANGED <<online, sync, retry, server, late, answers, failures, retries>>

\* Also while the browser believes it is online, when the request failed.
SellOffline(s) == Enqueue(OrderOf(s), Placeholder)
PaySale(s)     == Queued(OrderOf(s)) /\ Enqueue(PaymentOf(s), Placeholder)
PayBill(b)     == ~online /\ \E o \in OrderIds : origin[o] = b /\ Enqueue(PaymentOf(b), o)

DiscardFailed(c) ==
  /\ Failed(c)
  /\ queue' = [queue EXCEPT ![c] = Gone]
  /\ answers' = [answers EXCEPT ![c] = @ \cup {"discarded"}]
  /\ UNCHANGED <<online, line, sync, retry, server, late, failures, retries>>

\* A call of syncQueue: a run that is under way goes on, a second is not begun.
Trigger(run) == IF run.pc = "idle" THEN Started ELSE run

RetryRead(t, c) ==
  /\ Failed(c) /\ retry[t] = Gone
  /\ retries < MaxRetries /\ retries' = retries + 1
  /\ retry' = [retry EXCEPT ![t] = [cmd |-> c, ref |-> queue[c].ref]]
  /\ UNCHANGED <<online, queue, line, sync, server, late, answers, failures>>

RetryWrite(t) ==
  /\ retry[t] # Gone
  /\ queue' = [queue EXCEPT ![retry[t].cmd] = Record("pending", retry[t].ref)]
  /\ retry' = [retry EXCEPT ![t] = Gone]
  /\ sync'  = [sync EXCEPT ![t] = Trigger(@)]
  /\ UNCHANGED <<online, line, server, late, answers, failures, retries>>

-----------------------------------------------------------------------------
(* The connection and the page.                                            *)

Disconnect ==
  /\ online /\ Mishap
  /\ online' = FALSE
  /\ UNCHANGED <<client, server, late, answers, retries>>

\* The browser's `online` event.
Connect ==
  /\ ~online
  /\ online' = TRUE
  /\ sync' = [t \in Tabs |-> Trigger(sync[t])]
  /\ UNCHANGED <<queue, line, retry, server, late, answers, failures, retries>>

\* The page is opened (again) while nothing is under way in it.
Reopen(t) ==
  /\ online /\ sync[t].pc = "idle" /\ retry[t] = Gone
  /\ sync' = [sync EXCEPT ![t] = Started]
  /\ UNCHANGED <<online, queue, line, retry, server, late, answers, failures, retries>>

\* The command at hand, and the request it is sent as: a placeholder gives way
\* to the id this run has learnt.
This(t) == sync[t].now
Linked(t) ==
  LET c == This(t).cmd IN
  IF c.kind = "payment" /\ c.group \in Sales /\ This(t).ref = Placeholder
  THEN [This(t) EXCEPT !.ref = sync[t].links[c.group]] ELSE This(t)

\* A request nobody waits for any more may still reach the server.
Abandon(t) == late' = IF sync[t].pc = "wait" THEN late (+) SetToBag({Linked(t)}) ELSE late

\* The page is reloaded, or dies, at any point of its work.
Reload(t) ==
  /\ sync[t].pc # "idle" \/ retry[t] # Gone
  /\ Mishap
  /\ sync'  = [sync EXCEPT ![t] = IF online THEN Started ELSE AtRest]
  /\ retry' = [retry EXCEPT ![t] = Gone]
  /\ Abandon(t)
  /\ UNCHANGED <<online, queue, line, server, answers, retries>>

-----------------------------------------------------------------------------
(* syncQueue.                                                              *)

At(t, pc)   == sync[t].pc = pc
Goto(t, pc) == sync' = [sync EXCEPT ![t].pc = pc]
Put(c, status, ref) == queue' = [queue EXCEPT ![c] = Record(status, ref)]

\* mutant: after a failure the flag `syncing` stays set
BreakWedged(t) == Goto(t, "stuck")

\* The loop is left and `syncing` cleared.
Break(t) == sync' = [sync EXCEPT ![t] = AtRest]

Continue(t) == sync' = [sync EXCEPT ![t].pc = "ready", ![t].now = Gone, ![t].copy = Gone]

\* The pending commands are read once for the whole run.
List(t) ==
  /\ At(t, "list")
  /\ sync' = [sync EXCEPT
                ![t].pc   = "ready",
                ![t].todo = {[cmd |-> c, ref |-> queue[c].ref] : c \in {d \in Commands : Pending(d)}}]
  /\ UNCHANGED <<online, queue, line, retry, server, late, answers, failures, retries>>

Finish(t) ==
  /\ At(t, "ready") /\ sync[t].todo = {}
  /\ Break(t)
  /\ UNCHANGED <<online, queue, line, retry, server, late, answers, failures, retries>>

\* The oldest command of the run is the next.
Oldest(r, todo) == r \in todo /\ \A q \in todo : ~Before(q.cmd, r.cmd)

Send(t) ==
  /\ At(t, "ready")
  /\ \E r \in sync[t].todo :
       /\ Oldest(r, sync[t].todo)
       /\ sync' = [sync EXCEPT ![t].pc   = IF online THEN "wait" ELSE "bump",
                               ![t].now  = r,
                               ![t].todo = @ \ {r}]
  /\ UNCHANGED <<online, queue, line, retry, server, late, answers, failures, retries>>

\* mutant: what failed to be sent is taken for sent
NetworkErrorDone(t) ==
  /\ At(t, "wait")
  /\ IF online THEN Mishap ELSE UNCHANGED failures
  /\ Goto(t, "remove")
  /\ Abandon(t)
  /\ UNCHANGED <<online, queue, line, retry, server, answers, retries>>

\* fetch throws.  Offline it always does.
NetworkError(t) ==
  /\ At(t, "wait")
  /\ IF online THEN Mishap ELSE UNCHANGED failures
  /\ Goto(t, "bump")
  /\ Abandon(t)
  /\ UNCHANGED <<online, queue, line, retry, server, answers, retries>>

\* mutant: the loop goes on to the next command
BumpAndGoOn(t) ==
  /\ At(t, "bump")
  /\ Put(This(t).cmd, "pending", This(t).ref)
  /\ Continue(t)
  /\ UNCHANGED <<online, line, retry, server, late, answers, failures, retries>>

\* The record is written back as the run read it.
Bump(t) ==
  /\ At(t, "bump")
  /\ Put(This(t).cmd, "pending", This(t).ref)
  /\ Break(t)
  /\ UNCHANGED <<online, line, retry, server, late, answers, failures, retries>>

MarkFailed(t) ==
  /\ At(t, "fail")
  /\ Put(This(t).cmd, "failed", This(t).ref)
  /\ Continue(t)
  /\ UNCHANGED <<online, line, retry, server, late, answers, failures, retries>>

\* relinkGroup reads the group's payment, and writes it back with the new id.
RelinkRead(t) ==
  LET p == queue[PaymentOf(This(t).cmd.group)] IN
  /\ At(t, "relink")
  /\ sync' = IF p # Gone /\ p.ref = Placeholder
             THEN [sync EXCEPT ![t].pc = "put", ![t].copy = p]
             ELSE [sync EXCEPT ![t].pc = "remove"]
  /\ UNCHANGED <<online, queue, line, retry, server, late, answers, failures, retries>>

RelinkWrite(t) ==
  LET g == This(t).cmd.group IN
  /\ At(t, "put")
  /\ Put(PaymentOf(g), sync[t].copy.status, sync[t].links[g])
  /\ Goto(t, "remove")
  /\ UNCHANGED <<online, line, retry, server, late, answers, failures, retries>>

RemoveCommand(t) ==
  /\ At(t, "remove")
  /\ queue' = [queue EXCEPT ![This(t).cmd] = Gone]
  /\ Continue(t)
  /\ UNCHANGED <<online, line, retry, server, late, answers, failures, retries>>

-----------------------------------------------------------------------------
(* The server: /api/ops/command.                                           *)

\* An order is made for every command that asks for one, known or not.
CreateOrder(r) ==
  /\ r.cmd.kind = "order"
  /\ origin' = Append(origin, r.cmd.group)
  /\ UNCHANGED payments

\* mutant: the key is not looked up
KeyKnownNever(r) == FALSE

KeyKnown(r) == [order |-> r.ref, group |-> r.cmd.group] \in ToSet(payments)

\* A payment is booked once per order and key; the placeholder is no order.
TakePayment(r) ==
  /\ r.cmd.kind = "payment" /\ r.ref # Placeholder
  /\ payments' = IF KeyKnown(r) THEN payments
                 ELSE Append(payments, [order |-> r.ref, group |-> r.cmd.group])
  /\ UNCHANGED origin

Apply(r) == CreateOrder(r) \/ TakePayment(r)

\* mutant: an order that was made waits on, for its payment to be linked
AfterAnswerKept(c, answer) ==
  CASE answer = "ack"      -> IF c.kind = "order" THEN "bump" ELSE "remove"
    [] answer = "conflict" -> "remove"
    [] answer = "retry"    -> "bump"
    [] answer = "reject"   -> "fail"

\* What the page does next.  HTTP 409 counts as "already done".
AfterAnswer(c, answer) ==
  CASE answer = "ack"      -> IF c.kind = "order" THEN "relink" ELSE "remove"
    [] answer = "conflict" -> "remove"
    [] answer = "retry"    -> "bump"
    [] answer = "reject"   -> "fail"

Reply(t, answer, links) ==
  /\ online
  /\ sync' = [sync EXCEPT ![t].pc = AfterAnswer(This(t).cmd, answer), ![t].links = links]
  /\ answers' = [answers EXCEPT ![This(t).cmd] = @ \cup {answer}]
  /\ UNCHANGED <<online, queue, line, retry, late, retries>>

Accepted(t) ==
  LET c == This(t).cmd IN
  /\ At(t, "wait")
  /\ Apply(Linked(t))
  /\ Reply(t, "ack", IF c.kind = "order"
                     THEN [sync[t].links EXCEPT ![c.group] = Len(origin) + 1]
                     ELSE sync[t].links)
  /\ UNCHANGED failures

\* No session, no permission, bad data, a placeholder for an id.
Rejected(t) ==
  /\ At(t, "wait")
  /\ Reply(t, "reject", sync[t].links)
  /\ UNCHANGED <<server, failures>>

\* An error whose text speaks of a lock, a deadlock or a conflict; a placeholder
\* is refused before any of that.
Conflicted(t) ==
  /\ At(t, "wait")
  /\ This(t).cmd.kind = "payment" => Linked(t).ref # Placeholder
  /\ Reply(t, "conflict", sync[t].links)
  /\ UNCHANGED <<server, failures>>

ServerError(t) ==
  /\ At(t, "wait") /\ Mishap
  /\ Reply(t, "retry", sync[t].links)
  /\ UNCHANGED server

\* Nobody hears the answer.
ServeLate(r) ==
  /\ BagIn(r, late)
  /\ late' = late (-) SetToBag({r})
  /\ Apply(r)
  /\ UNCHANGED <<online, client, answers, failures, retries>>

-----------------------------------------------------------------------------

Cashier ==
  \/ \E s \in Sales : SellOffline(s) \/ PaySale(s)
  \/ \E b \in Bills : PayBill(b)
  \/ \E c \in Commands : DiscardFailed(c) \/ \E t \in Tabs : RetryRead(t, c)

\* What a page does on its own once started.
Work(t) ==
  \/ List(t) \/ Finish(t) \/ Send(t) \/ Bump(t) \/ MarkFailed(t)
  \/ RelinkRead(t) \/ RelinkWrite(t) \/ RemoveCommand(t) \/ RetryWrite(t)

Exchange(t) ==
  NetworkError(t) \/ Accepted(t) \/ Rejected(t) \/ Conflicted(t) \/ ServerError(t)

Next ==
  \/ Cashier \/ Disconnect \/ Connect
  \/ \E t \in Tabs : Reopen(t) \/ Reload(t) \/ Work(t) \/ Exchange(t)
  \/ \E r \in BagToSet(late) : ServeLate(r)

\* Pages do their work, every fetch ends, an interrupted connection returns.
Fairness == WF_vars(Connect) /\ \A t \in Tabs : WF_vars(Work(t)) /\ WF_vars(Exchange(t))

Spec == Init /\ [][Next]_vars /\ Fairness

\* Besides, whoever works at the device opens the page again and again.
ReopeningSpec == Spec /\ \A t \in Tabs : WF_vars(Reopen(t))

-----------------------------------------------------------------------------
(* Properties.                                                             *)

BookedFor(g) == {i \in DOMAIN payments : payments[i].group = g}

\* A payment is booked on an order that was made for that very sale or bill,
\* whichever run learnt its id (offline-queue.ts:173-190,238-243).
OnOwnOrder == \A i \in DOMAIN payments : origin[payments[i].order] = payments[i].group

\* Whatever is resent, reloaded and answered late, a customer is charged at most
\* once for one sale, and on an order of that very sale
\* (offline-queue.ts:9-10, "the same command is not processed twice").
ChargedOnce == OnOwnOrder /\ \A g \in Groups : \A i, j \in BookedFor(g) : i = j

\* The server looks up no key for an order, so a resent one is made again, which
\* offline-queue.ts:9-10 rules out; but every order too many costs a failure of
\* its own, retries by hand and relinking never make one.
TwiceOnlyByFailure ==
  \A g \in Groups : Cardinality({o \in OrderIds : origin[o] = g}) <= 1 + failures

\* A payment is not sent before the server has answered the command that makes
\* its order (offline-queue.ts:216-217).
PaymentAfterOrder ==
  \A t \in Tabs : sync[t].pc = "wait" /\ This(t).cmd \in {PaymentOf(s) : s \in Sales}
                    => answers[OrderOf(This(t).cmd.group)] # {}

\* No failure, at whatever point, takes a command out of the queue: once it is
\* gone it was carried out, or thrown away by the cashier, or an answer with
\* HTTP 409 was taken for "already processed" (offline-queue.ts:13-16,193-209).
DoneOnServer(c) == IF c.kind = "order" THEN c.group \in ToSet(origin) ELSE BookedFor(c.group) # {}
LostOnlyByConflict ==
  \A c \in ToSet(line) :
    queue[c] = Gone => DoneOnServer(c) \/ answers[c] \cap {"conflict", "discarded"} # {}

\* What waits is eventually sent, or refused by the server.
Drains == \A c \in Commands : Pending(c) ~> ~Pending(c)
=============================================================================
