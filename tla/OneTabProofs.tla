---------------------------- MODULE OneTabProofs ----------------------------
(***************************************************************************)
(* What holds of the offline queue while one page of the device works on    *)
(* it, for any number of sales, bills, failures and retries by hand.  With   *)
(* two pages both results fail: TLC shows how.                               *)
(***************************************************************************)
EXTENDS OfflineQueueProofs

OneTab == \E t \in Tabs : Tabs = {t}

-----------------------------------------------------------------------------
(* What the page has in hand.                                              *)

Hand(t) == sync[t].todo \cup ({sync[t].now} \ {Gone})

\* A run holds each command once.  A command in hand waits in the queue, and one
\* that the cashier is about to send again does not; so they are never the same.
HandInv(t) ==
  /\ \A r, q \in sync[t].todo : r.cmd = q.cmd => r = q
  /\ sync[t].now # Gone => \A r \in sync[t].todo : r.cmd # sync[t].now.cmd
  /\ \A r \in Hand(t) : Pending(r.cmd)
  /\ retry[t] # Gone => ~Pending(retry[t].cmd)
  /\ sync[t].pc = "put" =>
       LET p == PaymentOf(sync[t].now.cmd.group) IN
       /\ sync[t].copy.status = "pending" => Pending(p)
       /\ sync[t].copy.status = "failed" => \A r \in sync[t].todo : r.cmd # p
  /\ sync[t].pc \in {"idle", "list"} => sync[t].todo = {} /\ sync[t].links = NoLinks

\* No page will ever send the order of sale s again.
Dead(t, s) ==
  Queued(OrderOf(s)) /\ queue[OrderOf(s)] = Gone /\ (retry[t] # Gone => retry[t].cmd # OrderOf(s))

\* The order of sale s was answered, and is about to leave the queue.
Leaving(t, s) == sync[t].now # Gone /\ sync[t].now.cmd = OrderOf(s) /\ sync[t].pc \in Removing

\* The ids kept for the payment of sale s agree.
LinkInv(t, s) ==
  LET p == PaymentOf(s) IN
  /\ sync[t].links[s] # Placeholder => Dead(t, s) \/ Leaving(t, s)
  /\ \A r \in Hand(t) : r.cmd = p =>
       IF r.ref = Placeholder THEN queue[p].ref \in {Placeholder, sync[t].links[s]}
                              ELSE queue[p].ref = r.ref
  /\ (retry[t] # Gone /\ retry[t].cmd = p /\ queue[p] # Gone) => retry[t].ref \in {Placeholder, queue[p].ref}
  /\ (sync[t].pc = "put" /\ sync[t].now.cmd = OrderOf(s)) =>
       /\ queue[p] # Gone => queue[p].ref = Placeholder
       /\ (retry[t] # Gone /\ retry[t].cmd = p) => retry[t].ref = Placeholder

\* The ids a payment of sale s was sent with, if the server may book it on them.
Sent(s) == {payments[i].order : i \in BookedFor(s)}
             \cup {r.ref : r \in {q \in BagToSet(late) : q.cmd = PaymentOf(s) /\ q.ref # Placeholder}}

\* The payment of sale s goes with order o, or is past learning any other.
Fits(t, s, o) ==
  LET p == PaymentOf(s) IN
  /\ Queued(p)
  /\ queue[p] # Gone => queue[p].ref = o \/ (queue[p].ref = Placeholder /\ Dead(t, s))
  /\ (retry[t] # Gone /\ retry[t].cmd = p) => retry[t].ref = o \/ (retry[t].ref = Placeholder /\ Dead(t, s))
  /\ \A r \in Hand(t) : r.cmd = p =>
       r.ref = o \/ (r.ref = Placeholder /\ Dead(t, s) /\ sync[t].links[s] \in {Placeholder, o})
  /\ ~(sync[t].pc = "put" /\ sync[t].now.cmd = OrderOf(s))

\* Once sent with an id, a payment keeps it, or is never given another.
SentInv(t, s) == \A o \in Sent(s) : Fits(t, s, o) /\ \A i \in Sent(s) : i = o

\* No two rows for one order and key, and one order for a bill.
RowsInv ==
  /\ \A i, j \in DOMAIN payments : payments[i] = payments[j] => i = j
  /\ \A o, i \in OrderIds : origin[o] = origin[i] /\ origin[o] \in Bills => o = i

-----------------------------------------------------------------------------
(* Every order too many has cost a failure.                                *)

Made(s) == {o \in OrderIds : origin[o] = s}
OrderRequest(s) == [cmd |-> OrderOf(s), ref |-> Placeholder]
Abandoned(s) == IF OrderRequest(s) \in BagToSet(late) THEN late[OrderRequest(s)] ELSE 0

\* An order may yet be made by a page, by a request nobody waits for, or by one
\* that a lost connection is about to leave to itself.
Open(t, s)   == ~Dead(t, s) /\ ~Leaving(t, s)
Credit(t, s) == ~online /\ sync[t].pc = "wait" /\ sync[t].now.cmd = OrderOf(s)
One(b)       == IF b THEN 1 ELSE 0

CountInv(t, s) ==
  Cardinality(Made(s)) + Abandoned(s) + One(Open(t, s)) + One(Credit(t, s)) <= 1 + failures

\* An order is asked for without an id.
OrderRefs(t, s) ==
  LET c == OrderOf(s) IN
  /\ queue[c] # Gone => queue[c].ref = Placeholder
  /\ (retry[t] # Gone /\ retry[t].cmd = c) => retry[t].ref = Placeholder
  /\ \A r \in Hand(t) : r.cmd = c => r.ref = Placeholder

LateInv ==
  /\ \A r \in DOMAIN late : late[r] \in Nat \ {0}
  /\ \A s \in Sales : \A r \in BagToSet(late) : r.cmd = OrderOf(s) => r.ref = Placeholder

-----------------------------------------------------------------------------
(* What the steps do to the run and the records of the page.               *)

LEMMA Resting ==
  ASSUME NEW run \in {Started, AtRest}
  PROVE  run.pc \in {"idle", "list"} /\ run.todo = {} /\ run.now = Gone /\ run.links = NoLinks
BY DEF Started, AtRest

\* The hand and the ids learnt stay as they are.
Holds(t) == sync'[t].todo = sync[t].todo /\ sync'[t].now = sync[t].now /\ sync'[t].links = sync[t].links

LEMMA SendMoves ==
  ASSUME TypeOK, HasCommand, NEW t \in Tabs, Send(t)
  PROVE  /\ sync[t].now = Gone /\ sync[t].pc = "ready" /\ UNCHANGED <<queue, retry>>
         /\ \E r \in sync[t].todo :
              /\ sync'[t].now = r /\ sync'[t].todo = sync[t].todo \ {r} /\ r # Gone
              /\ sync'[t].pc = (IF online THEN "wait" ELSE "bump") /\ sync'[t].links = sync[t].links
<1>1. /\ sync \in [Tabs -> Run] /\ sync[t].now = Gone /\ sync[t].pc = "ready" /\ UNCHANGED <<queue, retry>>
  BY DEF Send, TypeOK, HasCommand, At, AtWork
<1>2. PICK r \in sync[t].todo :
        sync' = [sync EXCEPT ![t].pc   = IF online THEN "wait" ELSE "bump",
                             ![t].now  = r,
                             ![t].todo = @ \ {r}]
  BY DEF Send
<1>3. r # Gone
  BY RunType, RecordType
<1> QED BY <1>1, <1>2, <1>3 DEF Run

LEMMA ListMoves ==
  ASSUME TypeOK, HasCommand, NEW t \in Tabs, List(t)
  PROVE  /\ sync[t].now = Gone /\ sync'[t].now = Gone /\ UNCHANGED <<queue, retry>>
         /\ sync[t].pc = "list" /\ sync'[t].pc = "ready" /\ sync'[t].links = sync[t].links
         /\ sync'[t].todo = {[cmd |-> c, ref |-> queue[c].ref] : c \in {d \in Commands : Pending(d)}}
<1>1. sync \in [Tabs -> Run] /\ sync[t].now = Gone
  BY DEF List, TypeOK, HasCommand, At, AtWork
<1> QED BY <1>1 DEF List, At, Run

\* The command at hand is done with, and the next of the run comes.
LEMMA ContinueMoves ==
  ASSUME TypeOK, HasCommand, NEW t \in Tabs, MarkFailed(t) \/ RemoveCommand(t)
  PROVE  /\ sync'[t].pc = "ready" /\ sync'[t].now = Gone /\ sync[t].now \in Request /\ sync[t].now # Gone
         /\ sync'[t].todo = sync[t].todo /\ sync'[t].links = sync[t].links /\ UNCHANGED retry
         /\ \A c \in Commands : c # sync[t].now.cmd => queue'[c] = queue[c]
         /\ \/ /\ queue'[sync[t].now.cmd] = Record("failed", sync[t].now.ref)
               /\ sync[t].pc = "fail"
            \/ queue'[sync[t].now.cmd] = Gone /\ sync[t].pc = "remove"
<1>1. /\ sync \in [Tabs -> Run] /\ sync[t].now # Gone /\ queue \in [Commands -> Stored \cup {Gone}]
      /\ sync[t].now \in Request /\ sync[t].now.cmd \in Commands
  BY AtHand, RunType DEF MarkFailed, RemoveCommand, At, AtWork, TypeOK, HasCommand, This
<1>2. sync' = [sync EXCEPT ![t].pc = "ready", ![t].now = Gone, ![t].copy = Gone] /\ UNCHANGED retry
  BY DEF MarkFailed, RemoveCommand, Continue
<1>3. \/ queue' = [queue EXCEPT ![sync[t].now.cmd] = Record("failed", sync[t].now.ref)] /\ sync[t].pc = "fail"
      \/ queue' = [queue EXCEPT ![sync[t].now.cmd] = Gone] /\ sync[t].pc = "remove"
  BY DEF MarkFailed, RemoveCommand, Put, This, At
<1>4. sync'[t].pc = "ready" /\ sync'[t].now = Gone /\ sync'[t].todo = sync[t].todo /\ sync'[t].links = sync[t].links
  BY <1>1, <1>2 DEF Run
<1> QED BY <1>1, <1>2, <1>3, <1>4

LEMMA BumpMoves ==
  ASSUME TypeOK, HasCommand, NEW t \in Tabs, Bump(t)
  PROVE  /\ sync'[t] = AtRest /\ UNCHANGED retry /\ sync[t].now # Gone /\ sync[t].pc = "bump"
         /\ queue'[sync[t].now.cmd] = Record("pending", sync[t].now.ref)
         /\ \A c \in Commands : c # sync[t].now.cmd => queue'[c] = queue[c]
<1>1. sync[t].now # Gone /\ sync[t].now.cmd \in Commands
  BY AtHand DEF Bump, At, AtWork, HasCommand, This
<1> QED BY <1>1 DEF Bump, Break, Put, This, TypeOK, At

LEMMA RelinkReadMoves ==
  ASSUME TypeOK, HasCommand, NEW t \in Tabs, RelinkRead(t)
  PROVE  LET p == PaymentOf(sync[t].now.cmd.group) IN
         /\ Holds(t) /\ UNCHANGED <<queue, retry>> /\ sync[t].pc = "relink"
         /\ sync[t].now # Gone /\ sync[t].now.cmd \in {OrderOf(s) : s \in Sales}
         /\ \/ sync'[t].pc = "remove"
            \/ sync'[t].pc = "put" /\ sync'[t].copy = queue[p] /\ queue[p] # Gone /\ queue[p].ref = Placeholder
<1> DEFINE p == PaymentOf(sync[t].now.cmd.group)
<1>1. sync \in [Tabs -> Run] /\ sync[t].now # Gone /\ sync[t].now.cmd \in {OrderOf(s) : s \in Sales} /\ sync[t].pc = "relink"
  BY DEF RelinkRead, At, AtWork, TypeOK, HasCommand
<1>2. /\ UNCHANGED <<queue, retry>>
      /\ \/ sync' = [sync EXCEPT ![t].pc = "put", ![t].copy = queue[p]] /\ queue[p] # Gone /\ queue[p].ref = Placeholder
         \/ sync' = [sync EXCEPT ![t].pc = "remove"]
  BY DEF RelinkRead, This
<1> HIDE DEF p
<1>3. CASE sync' = [sync EXCEPT ![t].pc = "put", ![t].copy = queue[p]] /\ queue[p] # Gone /\ queue[p].ref = Placeholder
  <2>1. Holds(t) /\ sync'[t].pc = "put" /\ sync'[t].copy = queue[p]
    BY <1>1, <1>3 DEF Run, Holds
  <2> QED BY <1>1, <1>2, <1>3, <2>1 DEF p
<1>4. CASE sync' = [sync EXCEPT ![t].pc = "remove"]
  <2>1. Holds(t) /\ sync'[t].pc = "remove"
    BY <1>1, <1>4 DEF Run, Holds
  <2> QED BY <1>1, <1>2, <2>1
<1> QED BY <1>2, <1>3, <1>4

LEMMA RelinkWriteMoves ==
  ASSUME TypeOK, HasCommand, NEW t \in Tabs, RelinkWrite(t)
  PROVE  \E s \in Sales :
         /\ Holds(t) /\ UNCHANGED retry /\ sync[t].pc = "put" /\ sync'[t].pc = "remove"
         /\ sync[t].now # Gone /\ sync[t].now.cmd = OrderOf(s)
         /\ sync[t].copy \in Stored
         /\ queue'[PaymentOf(s)] = Record(sync[t].copy.status, sync[t].links[s])
         /\ \A c \in Commands : c # PaymentOf(s) => queue'[c] = queue[c]
<1>1. sync \in [Tabs -> Run] /\ sync[t].now # Gone /\ sync[t].pc = "put" /\ sync[t].copy \in Stored
  BY RunType DEF RelinkWrite, At, AtWork, TypeOK, HasCommand
<1>2. PICK s \in Sales : sync[t].now.cmd = OrderOf(s)
  BY <1>1 DEF HasCommand
<1>3. This(t).cmd.group = s /\ PaymentOf(s) \in Commands
  BY <1>2, GroupsAreTold DEF This
<1>4. queue' = [queue EXCEPT ![PaymentOf(s)] = Record(sync[t].copy.status, sync[t].links[s])] /\ UNCHANGED retry
  BY <1>3 DEF RelinkWrite, Put
<1>5. Holds(t) /\ sync'[t].pc = "remove"
  BY <1>1 DEF RelinkWrite, Goto, Run, Holds
<1> QED BY <1>1, <1>2, <1>3, <1>4, <1>5 DEF TypeOK

LEMMA RetryWriteMoves ==
  ASSUME TypeOK, HasCommand, NEW t \in Tabs, RetryWrite(t)
  PROVE  /\ retry[t] \in Request /\ retry[t].cmd \in Commands /\ retry[t] # Gone /\ retry'[t] = Gone
         /\ queue'[retry[t].cmd] = Record("pending", retry[t].ref)
         /\ \A c \in Commands : c # retry[t].cmd => queue'[c] = queue[c]
         /\ sync'[t] = sync[t] \/ (sync[t].pc = "idle" /\ sync'[t] = Started)
<1>1. retry[t] \in Request /\ retry[t] # Gone /\ retry[t].cmd \in Commands
  BY RecordType DEF RetryWrite, TypeOK
<1> QED BY <1>1 DEF RetryWrite, Trigger, TypeOK

\* An exchange that fails, or brings an answer; only an order that was made
\* teaches the run an id.
LEMMA ExchangeMoves ==
  ASSUME TypeOK, HasCommand, NEW t \in Tabs, Exchange(t)
  PROVE  /\ UNCHANGED <<queue, retry, line>> /\ sync[t].pc = "wait" /\ sync[t].now # Gone
         /\ sync'[t].todo = sync[t].todo /\ sync'[t].now = sync[t].now
         /\ \/ Accepted(t) /\ sync[t].now.cmd.kind = "order" /\ sync'[t].pc = "relink"
               /\ sync'[t].links = [sync[t].links EXCEPT ![sync[t].now.cmd.group] = Len(origin) + 1]
            \/ sync'[t].links = sync[t].links /\ sync'[t].pc \in {"remove", "bump", "fail"}
               /\ (Accepted(t) => sync[t].now.cmd.kind = "payment")
<1>1. sync \in [Tabs -> Run] /\ sync[t].pc = "wait" /\ sync[t].now # Gone /\ This(t) = sync[t].now
  BY DEF Exchange, NetworkError, Accepted, Rejected, Conflicted, ServerError, At, AtWork, TypeOK, HasCommand, This
<1>2. UNCHANGED <<queue, line, retry>>
  BY DEF Exchange, NetworkError, Accepted, Rejected, Conflicted, ServerError, Reply
<1>3. CASE NetworkError(t)
  <2>1. sync'[t].todo = sync[t].todo /\ sync'[t].now = sync[t].now /\ sync'[t].links = sync[t].links /\ sync'[t].pc = "bump"
    BY <1>1, <1>3 DEF NetworkError, Goto, Run
  <2>2. ~Accepted(t)
    <3>1. Accepted(t) => sync'[t].pc \in {"relink", "remove"}
      BY <1>1 DEF Accepted, Reply, AfterAnswer, Run
    <3> QED BY <2>1, <3>1
  <2> QED BY <1>1, <1>2, <2>1, <2>2
<1>4. ASSUME NEW answer, NEW links, Reply(t, answer, links)
      PROVE  /\ sync'[t].todo = sync[t].todo /\ sync'[t].now = sync[t].now
             /\ sync'[t].links = links /\ sync'[t].pc = AfterAnswer(sync[t].now.cmd, answer)
  BY <1>1, <1>4 DEF Reply, Run
<1>5. CASE Rejected(t) \/ Conflicted(t) \/ ServerError(t)
  <2>1. PICK answer \in {"conflict", "retry", "reject"} : Reply(t, answer, sync[t].links)
    BY <1>5 DEF Rejected, Conflicted, ServerError
  <2>2. AfterAnswer(sync[t].now.cmd, answer) \in {"remove", "bump", "fail"}
    BY DEF AfterAnswer
  <2>3. Accepted(t) => answers' = [answers EXCEPT ![This(t).cmd] = @ \cup {"ack"}]
    BY DEF Accepted, Reply
  <2>4. CASE sync[t].now.cmd.kind = "payment"
    BY <1>1, <1>2, <1>4, <2>1, <2>2, <2>4
  <2>5. CASE ~Accepted(t)
    BY <1>1, <1>2, <1>4, <2>1, <2>2, <2>5
  <2>6. CASE sync[t].now.cmd.kind # "payment" /\ Accepted(t)
    <3>1. sync[t].now.cmd.kind = "order"
      BY <1>1, <2>6, AtHand DEF AtWork, Commands, OrderOf, PaymentOf
    <3>2. sync'[t].pc = "relink"
      BY <1>1, <2>6, <3>1 DEF Accepted, Reply, AfterAnswer, Run
    <3> QED BY <1>4, <2>1, <2>2, <3>2
  <2> QED BY <2>4, <2>5, <2>6
<1>6. CASE Accepted(t)
  <2>1. sync[t].now.cmd.kind \in {"order", "payment"}
    BY <1>1, AtHand DEF AtWork, Commands, OrderOf, PaymentOf
  <2>2. CASE sync[t].now.cmd.kind = "order"
    <3>1. Reply(t, "ack", [sync[t].links EXCEPT ![sync[t].now.cmd.group] = Len(origin) + 1])
      BY <1>1, <1>6, <2>2 DEF Accepted
    <3>2. AfterAnswer(sync[t].now.cmd, "ack") = "relink"
      BY <2>2 DEF AfterAnswer
    <3> QED BY <1>1, <1>2, <1>4, <1>6, <2>2, <3>1, <3>2
  <2>3. CASE sync[t].now.cmd.kind = "payment"
    <3>1. Reply(t, "ack", sync[t].links)
      BY <1>1, <1>6, <2>3 DEF Accepted
    <3>2. AfterAnswer(sync[t].now.cmd, "ack") = "remove"
      BY <2>3 DEF AfterAnswer
    <3> QED BY <1>1, <1>2, <1>4, <2>3, <3>1, <3>2
  <2> QED BY <2>1, <2>2, <2>3
<1> QED BY <1>3, <1>5, <1>6 DEF Exchange

\* What a reload or a new run leaves of the page.
LEMMA PageMoves ==
  ASSUME TypeOK, HasCommand, NEW t \in Tabs, Reopen(t) \/ Reload(t) \/ Disconnect \/ Connect \/ Finish(t)
  PROVE  /\ UNCHANGED <<queue, line>> /\ retry'[t] \in {retry[t], Gone}
         /\ sync'[t] = sync[t] \/ sync'[t] \in {Started, AtRest}
BY DEF Reopen, Reload, Disconnect, Connect, Finish, Break, Trigger, client, TypeOK

-----------------------------------------------------------------------------
(* The hand of the page.                                                   *)

LEMMA HandType ==
  ASSUME TypeOK, HasCommand, NEW t \in Tabs
  PROVE  \A r \in Hand(t) : r \in Request /\ r # Gone /\ r.cmd \in Commands
<1>1. sync[t].todo \subseteq Request /\ sync[t].now \in Request \cup {Gone}
  BY RunType
<1> QED BY <1>1, RecordType DEF Hand

\* A page that holds what it held, with records that still wait.
LEMMA HandKept ==
  ASSUME NEW t \in Tabs, HandInv(t), Holds(t),
         \A r \in Hand(t) : Pending(r.cmd)',
         retry'[t] # Gone => ~Pending(retry[t].cmd)',
         sync'[t].pc \notin {"put", "idle", "list"}
  PROVE  HandInv(t)'
BY DEF HandInv, Hand, Holds

\* A page that has nothing in hand.
LEMMA HandEmpty ==
  ASSUME NEW t \in Tabs, sync'[t] \in {Started, AtRest},
         retry'[t] # Gone => ~Pending(retry[t].cmd)'
  PROVE  HandInv(t)'
<1>1. sync'[t].pc \in {"idle", "list"} /\ sync'[t].todo = {} /\ sync'[t].now = Gone /\ sync'[t].links = NoLinks
  BY Resting
<1> QED BY <1>1 DEF HandInv, Hand

LEMMA HandCashier ==
  ASSUME TypeOK, HasCommand, OnlyQueued, OneTab, NEW t \in Tabs, HandInv(t), Cashier
  PROVE  HandInv(t)'
<1>0. /\ queue \in [Commands -> Stored \cup {Gone}] /\ retry \in [Tabs -> Request \cup {Gone}]
      /\ \A r \in Hand(t) : r.cmd \in Commands
      /\ sync[t].pc = "put" => PaymentOf(sync[t].now.cmd.group) \in Commands
      /\ retry[t] # Gone => retry[t].cmd \in Commands
  <2>1. sync[t].pc = "put" => PaymentOf(sync[t].now.cmd.group) \in Commands
    BY GroupsAreTold DEF HasCommand
  <2> QED BY <2>1, HandType, RecordType DEF TypeOK
<1>1. ASSUME NEW c \in Commands, NEW ref \in {Placeholder} \cup OrderIds, Enqueue(c, ref)
      PROVE  HandInv(t)'
  <2>1. /\ UNCHANGED <<sync, retry>> /\ queue' = [queue EXCEPT ![c] = Record("pending", ref)] /\ ~Queued(c)
    BY <1>1 DEF Enqueue
  <2>2. Record("pending", ref) # Gone /\ Record("pending", ref).status = "pending"
    BY StoredIsNotGone DEF Record, Stored
  <2>3. \A d \in Commands : Pending(d) => Pending(d)'
    BY <1>0, <2>1, <2>2 DEF Pending
  <2>4. retry[t] # Gone => ~Pending(retry[t].cmd)'
    BY <1>0, <2>1 DEF OnlyQueued, HandInv, Pending
  <2> QED BY <1>0, <2>1, <2>3, <2>4 DEF HandInv, Hand
<1>2. ASSUME NEW s \in Sales, SellOffline(s) \/ PaySale(s) PROVE HandInv(t)'
  BY <1>1, <1>2, GroupsAreTold DEF SellOffline, PaySale
<1>3. ASSUME NEW b \in Bills, PayBill(b) PROVE HandInv(t)'
  BY <1>1, <1>3, GroupsAreTold DEF PayBill
<1>4. ASSUME NEW c \in Commands, DiscardFailed(c) PROVE HandInv(t)'
  <2>1. UNCHANGED <<sync, retry>> /\ queue' = [queue EXCEPT ![c] = Gone] /\ ~Pending(c)
    BY <1>4 DEF DiscardFailed, Failed, Pending
  <2>2. \A d \in Commands : Pending(d)' <=> Pending(d)
    BY <1>0, <2>1 DEF Pending
  <2> QED BY <1>0, <2>1, <2>2 DEF HandInv, Hand
<1>5. ASSUME NEW c \in Commands, NEW u \in Tabs, RetryRead(u, c) PROVE HandInv(t)'
  <2>1. u = t
    BY DEF OneTab
  <2>2. UNCHANGED <<sync, queue>> /\ retry' = [retry EXCEPT ![t] = [cmd |-> c, ref |-> queue[c].ref]] /\ ~Pending(c)
    BY <1>5, <2>1 DEF RetryRead, Failed, Pending
  <2>3. retry'[t].cmd = c
    BY <1>0, <2>2
  <2> QED BY <2>2, <2>3 DEF HandInv, Hand, Pending
<1> QED BY <1>2, <1>3, <1>4, <1>5 DEF Cashier

LEMMA HandPage ==
  ASSUME TypeOK, HasCommand, NEW t \in Tabs, HandInv(t),
         Reopen(t) \/ Reload(t) \/ Disconnect \/ Connect \/ Finish(t)
  PROVE  HandInv(t)'
<1>1. UNCHANGED queue /\ retry'[t] \in {retry[t], Gone} /\ (sync'[t] = sync[t] \/ sync'[t] \in {Started, AtRest})
  BY PageMoves
<1>2. retry'[t] # Gone => ~Pending(retry[t].cmd)'
  BY <1>1 DEF HandInv, Pending
<1>3. CASE sync'[t] = sync[t]
  BY <1>1, <1>2, <1>3 DEF HandInv, Hand, Pending
<1>4. CASE sync'[t] \in {Started, AtRest}
  BY <1>2, <1>4, HandEmpty
<1> QED BY <1>1, <1>3, <1>4

LEMMA HandWork ==
  ASSUME TypeOK, HasCommand, NEW t \in Tabs, HandInv(t), Work(t)
  PROVE  HandInv(t)'
<1>0. /\ \A r \in Hand(t) : r \in Request /\ r # Gone /\ r.cmd \in Commands
      /\ retry[t] # Gone => retry[t].cmd \in Commands
      /\ sync[t].now # Gone => sync[t].now \in Hand(t)
  BY HandType, RecordType DEF TypeOK, Hand
<1>1. CASE List(t)
  <2> DEFINE todo == {[cmd |-> c, ref |-> queue[c].ref] : c \in {d \in Commands : Pending(d)}}
  <2>1. /\ sync'[t].now = Gone /\ UNCHANGED <<queue, retry>> /\ sync'[t].pc = "ready"
        /\ sync'[t].todo = todo
    BY <1>1, ListMoves
  <2>2. \A r \in todo : Pending(r.cmd) /\ \A q \in todo : r.cmd = q.cmd => r = q
    OBVIOUS
  <2> HIDE DEF todo
  <2> QED BY <2>1, <2>2 DEF HandInv, Hand, Pending
<1>2. CASE Finish(t)
  BY <1>2, HandPage
<1>3. CASE Send(t)
  <2>1. PICK r \in sync[t].todo :
          /\ sync'[t].now = r /\ sync'[t].todo = sync[t].todo \ {r} /\ r # Gone
          /\ sync'[t].pc = IF online THEN "wait" ELSE "bump"
    BY <1>3, SendMoves
  <2>2. UNCHANGED <<queue, retry>>
    BY <1>3, SendMoves
  <2> QED BY <2>1, <2>2 DEF HandInv, Hand, Pending
<1>4. CASE Bump(t)
  <2>1. /\ sync'[t] = AtRest /\ UNCHANGED retry /\ sync[t].now # Gone
        /\ \A c \in Commands : c # sync[t].now.cmd => queue'[c] = queue[c]
    BY <1>4, BumpMoves
  <2>2. retry'[t] # Gone => ~Pending(retry[t].cmd)'
    BY <1>0, <2>1 DEF HandInv, Pending
  <2> QED BY <2>1, <2>2, HandEmpty
<1>5. CASE MarkFailed(t) \/ RemoveCommand(t)
  <2>1. /\ sync'[t].pc = "ready" /\ sync'[t].now = Gone /\ sync[t].now # Gone
        /\ sync'[t].todo = sync[t].todo /\ UNCHANGED retry
        /\ \A c \in Commands : c # sync[t].now.cmd => queue'[c] = queue[c]
    BY <1>5, ContinueMoves
  <2>2. \A r \in sync[t].todo : Pending(r.cmd)'
    BY <1>0, <2>1 DEF HandInv, Hand, Pending
  <2>3. retry'[t] # Gone => ~Pending(retry[t].cmd)'
    BY <1>0, <2>1 DEF HandInv, Pending
  <2> QED BY <2>1, <2>2, <2>3 DEF HandInv, Hand
<1>6. CASE RelinkRead(t)
  <2>0. PICK p : p = PaymentOf(sync[t].now.cmd.group)
    OBVIOUS
  <2>1. /\ Holds(t) /\ UNCHANGED <<queue, retry>>
        /\ \/ sync'[t].pc = "remove"
           \/ sync'[t].pc = "put" /\ sync'[t].copy = queue[p] /\ queue[p] # Gone
    BY <1>6, <2>0, RelinkReadMoves
  <2>2. p = PaymentOf(sync'[t].now.cmd.group)
    BY <2>0, <2>1 DEF Holds
  <2>3. sync'[t].pc = "put" => /\ sync'[t].copy.status = "pending" => Pending(p)'
                               /\ sync'[t].copy.status = "failed" => \A r \in sync'[t].todo : r.cmd # p
    BY <2>1 DEF HandInv, Hand, Pending, Holds
  <2> QED BY <2>1, <2>2, <2>3 DEF HandInv, Hand, Pending, Holds
<1>7. CASE RelinkWrite(t)
  <2>1. PICK s \in Sales :
         /\ Holds(t) /\ UNCHANGED retry /\ sync[t].pc = "put" /\ sync'[t].pc = "remove"
         /\ sync[t].now # Gone /\ sync[t].now.cmd = OrderOf(s) /\ sync[t].copy \in Stored
         /\ queue'[PaymentOf(s)] = Record(sync[t].copy.status, sync[t].links[s])
         /\ \A c \in Commands : c # PaymentOf(s) => queue'[c] = queue[c]
    BY <1>7, RelinkWriteMoves
  <2> DEFINE p == PaymentOf(s)
  <2>2. p \in Commands /\ p = PaymentOf(sync[t].now.cmd.group) /\ p # OrderOf(s)
    BY <2>1, GroupsAreTold
  <2>3. /\ sync[t].copy.status = "pending" => Pending(p)
        /\ sync[t].copy.status = "failed" => \A r \in sync[t].todo : r.cmd # p
        /\ sync[t].copy.status \in {"pending", "failed"}
    BY <2>1, <2>2 DEF HandInv, Stored
  <2>4. Pending(p)' <=> sync[t].copy.status = "pending"
    <3>1. sync[t].links[s] \in {Placeholder} \cup OrderIds
      BY RunType
    <3>2. Record(sync[t].copy.status, sync[t].links[s]) \in Stored
      BY <2>3, <3>1 DEF Record, Stored
    <3> QED BY <2>1, <3>2, StoredIsNotGone DEF Pending, Record
  <2>5. \A c \in Commands : c # p => (Pending(c)' <=> Pending(c))
    BY <2>1 DEF Pending
  <2> HIDE DEF p
  <2>6. \A r \in Hand(t) : Pending(r.cmd)'
    BY <1>0, <2>1, <2>2, <2>3, <2>4, <2>5 DEF HandInv, Hand
  <2>7. retry'[t] # Gone => ~Pending(retry[t].cmd)'
    BY <1>0, <2>1, <2>3, <2>4, <2>5 DEF HandInv
  <2> QED BY <2>1, <2>6, <2>7, HandKept
<1>8. CASE RetryWrite(t)
  <2>1. /\ retry[t] \in Request /\ retry[t].cmd \in Commands /\ retry'[t] = Gone /\ retry[t] # Gone
        /\ queue'[retry[t].cmd] = Record("pending", retry[t].ref)
        /\ \A c \in Commands : c # retry[t].cmd => queue'[c] = queue[c]
        /\ sync'[t] = sync[t] \/ (sync[t].pc = "idle" /\ sync'[t] = Started)
    BY <1>8, RetryWriteMoves
  <2>2. \A c \in Commands : Pending(c) => Pending(c)'
    <3>1. Record("pending", retry[t].ref) # Gone /\ Record("pending", retry[t].ref).status = "pending"
      BY <2>1, RecordType DEF Record
    <3> QED BY <2>1, <3>1 DEF Pending
  <2>3. CASE sync'[t] = sync[t]
    <3>1. sync[t].pc = "put" => PaymentOf(sync[t].now.cmd.group) \in Commands
      BY GroupsAreTold DEF HasCommand
    <3> QED BY <1>0, <2>1, <2>2, <2>3, <3>1 DEF HandInv, Hand
  <2>4. CASE sync'[t] = Started
    BY <2>1, <2>4, HandEmpty
  <2> QED BY <2>1, <2>3, <2>4
<1> QED BY <1>1, <1>2, <1>3, <1>4, <1>5, <1>6, <1>7, <1>8 DEF Work

LEMMA HandStep ==
  ASSUME TypeOK, HasCommand, OnlyQueued, OneTab, NEW t \in Tabs, HandInv(t), [Next]_vars
  PROVE  HandInv(t)'
<1>1. CASE UNCHANGED <<queue, sync, retry>>
  BY <1>1 DEF HandInv, Hand, Pending
<1>2. CASE Cashier
  BY <1>2, HandCashier
<1>3. ASSUME NEW u \in Tabs, Reopen(u) \/ Reload(u) \/ Work(u) \/ Exchange(u)
      PROVE  HandInv(t)'
  <2>1. u = t
    BY DEF OneTab
  <2>2. CASE Exchange(t)
    <3>1. /\ UNCHANGED <<queue, retry>> /\ sync'[t].pc \in {"relink", "remove", "bump", "fail"}
          /\ sync'[t].todo = sync[t].todo /\ sync'[t].now = sync[t].now
      BY <2>2, ExchangeMoves
    <3> QED BY <3>1 DEF HandInv, Hand, Pending
  <2> QED BY <1>3, <2>1, <2>2, HandPage, HandWork
<1>4. ASSUME NEW r \in BagToSet(late), ServeLate(r)
      PROVE  HandInv(t)'
  BY <1>1, <1>4 DEF ServeLate, client
<1> QED BY <1>1, <1>2, <1>3, <1>4, HandPage DEF Next, vars, client

-----------------------------------------------------------------------------
(* The steps of a device with one page.                                    *)

\* A command comes to the end of the line; the payment of a bill has its id.
Queues == \E c \in Commands, ref \in {Placeholder} \cup OrderIds :
            Enqueue(c, ref) /\ (c.group \in Sales => ref = Placeholder)

LEMMA Kinds ==
  ASSUME OneTab, NEW t \in Tabs, [Next]_vars
  PROVE  \/ UNCHANGED <<queue, line, sync, retry>>
         \/ Queues
         \/ \E c \in Commands : DiscardFailed(c) \/ RetryRead(t, c)
         \/ Reopen(t) \/ Reload(t) \/ Disconnect \/ Connect \/ Finish(t)
         \/ List(t) \/ Send(t) \/ Bump(t) \/ MarkFailed(t) \/ RemoveCommand(t)
         \/ RelinkRead(t) \/ RelinkWrite(t) \/ RetryWrite(t)
         \/ Exchange(t)
<1>1. \A u \in Tabs : u = t
  BY DEF OneTab
<1>2. ASSUME NEW s \in Sales, SellOffline(s) \/ PaySale(s) PROVE Queues
  BY <1>2, GroupsAreTold DEF SellOffline, PaySale, Queues
<1>3. ASSUME NEW b \in Bills, PayBill(b) PROVE Queues
  <2>1. PICK o \in OrderIds : Enqueue(PaymentOf(b), o)
    BY <1>3 DEF PayBill
  <2>2. PaymentOf(b) \in Commands /\ PaymentOf(b).group \notin Sales
    BY GroupsAreTold, SalesAreNotBills
  <2> QED BY <2>1, <2>2 DEF Queues
<1>4. CASE Cashier
  BY <1>1, <1>2, <1>3, <1>4 DEF Cashier
<1>5. CASE \E u \in Tabs : Reopen(u) \/ Reload(u) \/ Work(u) \/ Exchange(u)
  BY <1>1, <1>5 DEF Work
<1>6. CASE \E r \in BagToSet(late) : ServeLate(r)
  BY <1>6 DEF ServeLate, client
<1> QED BY <1>4, <1>5, <1>6 DEF Next, vars, client

\* The line only grows, and with it what was ever queued.
LEMMA QueuedStays ==
  ASSUME TypeOK, OneTab, NEW t \in Tabs, [Next]_vars, NEW c, Queued(c)
  PROVE  Queued(c)'
<1>1. CASE Queues
  <2>1. PICK d \in Commands : line' = Append(line, d)
    BY <1>1 DEF Queues, Enqueue
  <2> QED BY <2>1, LineGrows
<1>2. CASE UNCHANGED line
  BY <1>2, LineStays
<1> QED BY <1>1, <1>2, Kinds DEF DiscardFailed, RetryRead, Reopen, Reload, Disconnect, Connect, Finish, client,
           List, Send, Bump, MarkFailed, RemoveCommand, RelinkRead, RelinkWrite, RetryWrite, Exchange,
           NetworkError, Accepted, Rejected, Conflicted, ServerError, Reply

\* A command in hand is neither dead nor about to be sent again by hand.
LEMMA InHandLives ==
  ASSUME TypeOK, HasCommand, NEW t \in Tabs, HandInv(t), NEW s \in Sales
  PROVE  /\ \A r \in Hand(t) : r.cmd = OrderOf(s) => ~Dead(t, s)
         /\ sync[t].now # Gone => sync[t].now \in Hand(t)
         /\ \A r \in Hand(t) : retry[t] # Gone => retry[t].cmd # r.cmd
         /\ \A r \in Hand(t) : queue[r.cmd] # Gone
BY DEF HandInv, Hand, Dead, Pending

\* An order that is dead stays so.
LEMMA DeadStays ==
  ASSUME TypeOK, HasCommand, OnlyQueued, OneTab, NEW t \in Tabs, HandInv(t), [Next]_vars,
         NEW s \in Sales, Dead(t, s)
  PROVE  Dead(t, s)'
<1> DEFINE c == OrderOf(s)
<1>1. /\ c \in Commands /\ Queued(c) /\ Queued(c)' /\ queue[c] = Gone
      /\ retry[t] # Gone => retry[t].cmd # c
      /\ sync[t].now # Gone => sync[t].now.cmd # c
      /\ queue \in [Commands -> Stored \cup {Gone}] /\ retry \in [Tabs -> Request \cup {Gone}]
  BY QueuedStays, GroupsAreTold, InHandLives DEF Dead, TypeOK
<1> SUFFICES queue'[c] = Gone /\ (retry'[t] # Gone => retry'[t].cmd # c)
  BY <1>1 DEF Dead
<1>2. CASE UNCHANGED <<queue, line, sync, retry>>
  BY <1>1, <1>2
<1>3. CASE Queues
  BY <1>1, <1>3 DEF Queues, Enqueue
<1>4. ASSUME NEW d \in Commands, DiscardFailed(d)
      PROVE  queue'[c] = Gone /\ (retry'[t] # Gone => retry'[t].cmd # c)
  BY <1>1, <1>4 DEF DiscardFailed
<1>5. ASSUME NEW d \in Commands, RetryRead(t, d)
      PROVE  queue'[c] = Gone /\ (retry'[t] # Gone => retry'[t].cmd # c)
  <2>1. d # c /\ UNCHANGED queue /\ retry'[t].cmd = d
    BY <1>1, <1>5 DEF RetryRead, Failed
  <2> QED BY <1>1, <2>1
<1>6. CASE Reopen(t) \/ Reload(t) \/ Disconnect \/ Connect \/ Finish(t)
  BY <1>1, <1>6, PageMoves
<1>7. CASE List(t) \/ Send(t)
  BY <1>1, <1>7, ListMoves, SendMoves
<1>8. CASE Bump(t)
  BY <1>1, <1>8, BumpMoves
<1>9. CASE MarkFailed(t) \/ RemoveCommand(t)
  BY <1>1, <1>9, ContinueMoves
<1>10. CASE RelinkRead(t)
  BY <1>1, <1>10, RelinkReadMoves
<1>11. CASE RelinkWrite(t)
  BY <1>1, <1>11, RelinkWriteMoves, GroupsAreTold
<1>12. CASE RetryWrite(t)
  BY <1>1, <1>12, RetryWriteMoves
<1>13. CASE Exchange(t)
  BY <1>1, <1>13, ExchangeMoves
<1> QED BY <1>2, <1>3, <1>4, <1>5, <1>6, <1>7, <1>8, <1>9, <1>10, <1>11, <1>12, <1>13, Kinds

-----------------------------------------------------------------------------
(* The ids of a payment agree wherever they are kept.                      *)

\* An id learnt for a sale means that its order needs nobody any more.
LEMMA LearntStep ==
  ASSUME TypeOK, HasCommand, OnlyQueued, OneTab, NEW t \in Tabs, HandInv(t), [Next]_vars,
         NEW s \in Sales, sync[t].links[s] # Placeholder => Dead(t, s) \/ Leaving(t, s)
  PROVE  sync'[t].links[s] # Placeholder => Dead(t, s)' \/ Leaving(t, s)'
<1> DEFINE c == OrderOf(s)
<1>0. /\ c \in Commands /\ PaymentOf(s) # c /\ \A g : OrderOf(g) = c => g = s
      /\ NoLinks[s] = Placeholder
      /\ sync[t].links \in [Sales -> {Placeholder} \cup OrderIds]
      /\ Dead(t, s) => Dead(t, s)'
  BY GroupsAreTold, DeadStays, RunType DEF NoLinks
<1> SUFFICES ASSUME sync'[t].links[s] # Placeholder, ~Dead(t, s)
             PROVE  Dead(t, s)' \/ Leaving(t, s)'
  BY <1>0
<1>1. CASE UNCHANGED sync
  BY <1>1 DEF Leaving
<1>2. CASE Reopen(t) \/ Reload(t) \/ Disconnect \/ Connect \/ Finish(t)
  <2>1. sync'[t] # sync[t] => sync'[t].links = NoLinks
    BY <1>2, PageMoves, Resting
  <2> QED BY <1>0, <2>1 DEF Leaving
<1>3. CASE List(t)
  BY <1>0, <1>3, ListMoves DEF HandInv
<1>4. CASE Send(t)
  BY <1>4, SendMoves DEF Leaving
<1>5. CASE Bump(t)
  BY <1>0, <1>5, BumpMoves, Resting
<1>6. CASE MarkFailed(t) \/ RemoveCommand(t)
  <2>1. /\ sync'[t].links = sync[t].links /\ UNCHANGED retry /\ sync[t].now # Gone
        /\ sync[t].pc = "fail" \/ (queue'[sync[t].now.cmd] = Gone /\ sync[t].pc = "remove")
    BY <1>6, ContinueMoves
  <2>2. sync[t].now.cmd = c /\ sync[t].pc \in Removing
    BY <2>1 DEF Leaving
  <2>3. queue'[c] = Gone
    BY <2>1, <2>2 DEF Removing
  <2>4. Queued(c) /\ (retry[t] # Gone => retry[t].cmd # c)
    BY <2>1, <2>2, InHandLives DEF OnlyQueued
  <2>5. Queued(c)'
    BY <2>4, QueuedStays
  <2> QED BY <2>1, <2>3, <2>4, <2>5 DEF Dead
<1>7. CASE RelinkRead(t)
  <2>1. Holds(t) /\ sync'[t].pc \in Removing
    BY <1>7, RelinkReadMoves DEF Removing
  <2> QED BY <2>1 DEF Holds, Leaving
<1>8. CASE RelinkWrite(t)
  <2>1. Holds(t) /\ sync'[t].pc \in Removing
    BY <1>8, RelinkWriteMoves DEF Removing
  <2> QED BY <2>1 DEF Holds, Leaving
<1>9. CASE RetryWrite(t)
  BY <1>0, <1>9, RetryWriteMoves, Resting DEF Leaving
<1>10. CASE Exchange(t)
  <2>1. /\ sync[t].pc = "wait" /\ sync[t].now # Gone /\ sync'[t].now = sync[t].now
        /\ \/ /\ sync[t].now.cmd.kind = "order" /\ sync'[t].pc = "relink"
              /\ sync'[t].links = [sync[t].links EXCEPT ![sync[t].now.cmd.group] = Len(origin) + 1]
           \/ sync'[t].links = sync[t].links
    BY <1>10, ExchangeMoves
  <2>2. sync[t].links[s] = Placeholder
    BY <2>1 DEF Leaving, Removing
  <2>3. /\ sync[t].now.cmd.kind = "order" /\ sync'[t].pc = "relink"
        /\ sync[t].now.cmd.group = s
    BY <1>0, <2>1, <2>2
  <2>4. sync[t].now.cmd = c
    BY <2>1, <2>3, HandType, GroupsAreTold DEF Hand, Commands
  <2> QED BY <2>1, <2>3, <2>4 DEF Leaving, Removing
<1> QED BY <1>1, <1>2, <1>3, <1>4, <1>5, <1>6, <1>7, <1>8, <1>9, <1>10, Kinds
        DEF Queues, Enqueue, DiscardFailed, RetryRead

\* An id written beside the payment goes to the record, the run that holds it and
\* the cashier that sends it again, or to none of them.
LEMMA LinkStep ==
  ASSUME TypeOK, HasCommand, OnlyQueued, OneTab, NEW t \in Tabs, HandInv(t), [Next]_vars,
         NEW s \in Sales, LinkInv(t, s)
  PROVE  LinkInv(t, s)'
<1> DEFINE p == PaymentOf(s)
           c == OrderOf(s)
<1>0. /\ p \in Commands /\ c \in Commands /\ p # c /\ p.group = s
      /\ \A g : OrderOf(g) = c => g = s
      /\ \A g : PaymentOf(g) = p => g = s
      /\ queue \in [Commands -> Stored \cup {Gone}] /\ retry \in [Tabs -> Request \cup {Gone}]
      /\ \A r \in Hand(t) : /\ r \in Request /\ r.cmd \in Commands /\ queue[r.cmd] # Gone /\ Pending(r.cmd)
                            /\ retry[t] # Gone => retry[t].cmd # r.cmd
      /\ sync[t].now # Gone => sync[t].now \in Hand(t)
      /\ retry[t] # Gone => retry[t].cmd \in Commands
      /\ \A r \in sync[t].todo : r \in Hand(t)
  BY GroupsAreTold, HandType, InHandLives, RecordType DEF TypeOK, HandInv, Hand
<1>a. sync'[t].links[s] # Placeholder => Dead(t, s)' \/ Leaving(t, s)'
  BY LearntStep DEF LinkInv
<1>b. /\ \A r \in Hand(t) : r.cmd = p =>
           IF r.ref = Placeholder THEN queue[p].ref \in {Placeholder, sync[t].links[s]}
                                  ELSE queue[p].ref = r.ref
      /\ (retry[t] # Gone /\ retry[t].cmd = p /\ queue[p] # Gone) => retry[t].ref \in {Placeholder, queue[p].ref}
      /\ (sync[t].pc = "put" /\ sync[t].now.cmd = c) =>
           /\ queue[p] # Gone => queue[p].ref = Placeholder
           /\ (retry[t] # Gone /\ retry[t].cmd = p) => retry[t].ref = Placeholder
  BY DEF LinkInv
<1> DEFINE InHand == \A r \in Hand(t)' : r.cmd = p =>
                       IF r.ref = Placeholder THEN queue'[p].ref \in {Placeholder, sync'[t].links[s]}
                                              ELSE queue'[p].ref = r.ref
           Again  == (retry'[t] # Gone /\ retry'[t].cmd = p /\ queue'[p] # Gone)
                       => retry'[t].ref \in {Placeholder, queue'[p].ref}
           Put1   == (sync'[t].pc = "put" /\ sync'[t].now.cmd = c) =>
                       /\ queue'[p] # Gone => queue'[p].ref = Placeholder
                       /\ (retry'[t] # Gone /\ retry'[t].cmd = p) => retry'[t].ref = Placeholder
<1> SUFFICES InHand /\ Again /\ Put1
  BY <1>a DEF LinkInv
<1> HIDE DEF p, c
<1>c. ASSUME sync'[t].todo = sync[t].todo, sync'[t].now = sync[t].now
      PROVE  Hand(t)' = Hand(t)
  BY <1>c DEF Hand
<1>d. ASSUME sync'[t] \in {Started, AtRest} PROVE Hand(t)' = {} /\ sync'[t].pc # "put"
  BY <1>d, Resting DEF Hand
<1>1. CASE UNCHANGED <<queue, line, sync, retry>>
  BY <1>1, <1>b, <1>c
<1>2. CASE Queues
  <2>1. PICK d \in Commands, ref \in {Placeholder} \cup OrderIds :
          /\ ~Queued(d) /\ queue' = [queue EXCEPT ![d] = Record("pending", ref)] /\ UNCHANGED <<sync, retry>>
          /\ d.group \in Sales => ref = Placeholder
    BY <1>2 DEF Queues, Enqueue
  <2>2. CASE d = p
    <3>1. queue'[p].ref = Placeholder
      BY <1>0, <2>1, <2>2 DEF Record
    <3>2. \A r \in Hand(t) : r.cmd # p
      BY <1>0, <2>1, <2>2 DEF OnlyQueued
    <3>3. retry[t] # Gone => retry[t].cmd # p
      BY <2>1, <2>2 DEF OnlyQueued
    <3> QED BY <1>c, <2>1, <3>1, <3>2, <3>3
  <2> QED BY <1>0, <1>b, <1>c, <2>1, <2>2
<1>3. ASSUME NEW d \in Commands, DiscardFailed(d)
      PROVE  InHand /\ Again /\ Put1
  <2>1. UNCHANGED <<sync, retry>> /\ queue' = [queue EXCEPT ![d] = Gone] /\ ~Pending(d)
    BY <1>3 DEF DiscardFailed, Failed, Pending
  <2>2. CASE d = p
    BY <1>0, <1>b, <1>c, <2>1, <2>2
  <2> QED BY <1>0, <1>b, <1>c, <2>1, <2>2
<1>4. ASSUME NEW d \in Commands, RetryRead(t, d)
      PROVE  InHand /\ Again /\ Put1
  <2>1. UNCHANGED <<sync, queue>> /\ retry'[t] = [cmd |-> d, ref |-> queue[d].ref] /\ queue[d] # Gone
    BY <1>0, <1>4 DEF RetryRead, Failed
  <2> QED BY <1>0, <1>b, <1>c, <2>1
<1>5. CASE Reopen(t) \/ Reload(t) \/ Disconnect \/ Connect \/ Finish(t)
  <2>1. /\ UNCHANGED <<queue, line>> /\ retry'[t] \in {retry[t], Gone}
        /\ sync'[t] = sync[t] \/ sync'[t] \in {Started, AtRest}
    BY <1>5, PageMoves
  <2> QED BY <1>b, <1>c, <1>d, <2>1
<1>6. CASE List(t)
  <2>1. /\ sync'[t].now = Gone /\ UNCHANGED <<queue, retry>> /\ sync'[t].pc = "ready"
        /\ sync'[t].todo = {[cmd |-> d, ref |-> queue[d].ref] : d \in {e \in Commands : Pending(e)}}
    BY <1>6, ListMoves
  <2>2. \A r \in Hand(t)' : r.ref = queue[r.cmd].ref
    BY <2>1 DEF Hand
  <2> QED BY <1>b, <2>1, <2>2
<1>7. CASE Send(t)
  <2>1. /\ UNCHANGED <<queue, retry>> /\ sync'[t].links = sync[t].links /\ sync'[t].pc # "put"
        /\ Hand(t)' = Hand(t)
    BY <1>7, SendMoves DEF Hand
  <2> QED BY <1>b, <2>1
<1>8. CASE Bump(t)
  <2>1. /\ sync'[t] = AtRest /\ UNCHANGED retry /\ sync[t].now # Gone
        /\ \A d \in Commands : d # sync[t].now.cmd => queue'[d] = queue[d]
    BY <1>8, BumpMoves
  <2> QED BY <1>0, <1>b, <1>d, <2>1
<1>9. CASE MarkFailed(t) \/ RemoveCommand(t)
  <2>1. /\ sync'[t].pc = "ready" /\ sync'[t].now = Gone /\ sync[t].now # Gone /\ sync'[t].todo = sync[t].todo
        /\ sync'[t].links = sync[t].links /\ UNCHANGED retry
        /\ \A d \in Commands : d # sync[t].now.cmd => queue'[d] = queue[d]
    BY <1>9, ContinueMoves
  <2>2. Hand(t)' = sync[t].todo
    BY <2>1 DEF Hand
  <2>3. \A r \in sync[t].todo : r.cmd # sync[t].now.cmd
    BY <2>1 DEF HandInv
  <2> QED BY <1>0, <1>b, <2>1, <2>2, <2>3
<1>10. CASE RelinkRead(t)
  <2>1. /\ Holds(t) /\ UNCHANGED <<queue, retry>>
        /\ sync'[t].pc = "put" => queue[PaymentOf(sync[t].now.cmd.group)].ref = Placeholder
                                    /\ queue[PaymentOf(sync[t].now.cmd.group)] # Gone
    BY <1>10, RelinkReadMoves
  <2>2. sync'[t].pc = "put" /\ sync[t].now.cmd = c => queue[p].ref = Placeholder /\ queue[p] # Gone
    BY <2>1, GroupsAreTold DEF p, c
  <2> QED BY <1>b, <1>c, <2>1, <2>2 DEF Holds
<1>11. CASE RelinkWrite(t)
  <2>1. PICK z \in Sales :
         /\ Holds(t) /\ UNCHANGED retry /\ sync[t].pc = "put" /\ sync'[t].pc = "remove"
         /\ sync[t].now # Gone /\ sync[t].now.cmd = OrderOf(z)
         /\ queue'[PaymentOf(z)] = Record(sync[t].copy.status, sync[t].links[z])
         /\ \A d \in Commands : d # PaymentOf(z) => queue'[d] = queue[d]
    BY <1>11, RelinkWriteMoves
  <2>2. CASE z = s
    <3>1. sync[t].now.cmd = c /\ queue'[p].ref = sync[t].links[s]
      BY <2>1, <2>2 DEF p, c, Record
    <3> QED BY <1>0, <1>b, <1>c, <2>1, <3>1 DEF Holds
  <2>3. CASE z # s
    <3>1. queue'[p] = queue[p]
      BY <1>0, <2>1, <2>3
    <3> QED BY <1>b, <1>c, <2>1, <3>1 DEF Holds
  <2> QED BY <2>2, <2>3
<1>12. CASE RetryWrite(t)
  <2>1. /\ retry[t].cmd \in Commands /\ retry'[t] = Gone /\ retry[t] # Gone
        /\ queue'[retry[t].cmd] = Record("pending", retry[t].ref)
        /\ \A d \in Commands : d # retry[t].cmd => queue'[d] = queue[d]
        /\ sync'[t] = sync[t] \/ sync'[t] = Started
    BY <1>12, RetryWriteMoves
  <2>2. CASE retry[t].cmd = p
    <3>1. queue'[p].ref = retry[t].ref /\ \A r \in Hand(t) : r.cmd # p
      BY <1>0, <2>1, <2>2 DEF Record
    <3> QED BY <1>b, <1>c, <1>d, <2>1, <2>2, <3>1
  <2>3. CASE retry[t].cmd # p
    BY <1>0, <1>b, <1>c, <1>d, <2>1, <2>3
  <2> QED BY <2>2, <2>3
<1>13. CASE Exchange(t)
  <2>1. /\ UNCHANGED <<queue, retry>> /\ sync[t].pc = "wait" /\ sync[t].now # Gone
        /\ sync'[t].todo = sync[t].todo /\ sync'[t].now = sync[t].now /\ sync'[t].pc # "put"
        /\ \/ /\ sync[t].now.cmd.kind = "order"
              /\ sync'[t].links = [sync[t].links EXCEPT ![sync[t].now.cmd.group] = Len(origin) + 1]
           \/ sync'[t].links = sync[t].links
    BY <1>13, ExchangeMoves
  <2>2. CASE sync'[t].links[s] = sync[t].links[s]
    BY <1>b, <1>c, <2>1, <2>2
  <2>3. CASE sync'[t].links[s] # sync[t].links[s]
    <3>1. sync[t].now.cmd.kind = "order" /\ sync[t].now.cmd.group = s
      BY <2>1, <2>3, RunType
    <3>2. sync[t].now.cmd = c
      BY <1>0, <2>1, <3>1 DEF c, Commands, OrderOf, PaymentOf
    <3>3. ~Dead(t, s) /\ ~Leaving(t, s)
      BY <1>0, <2>1, <3>2, InHandLives DEF Leaving, Removing, c
    <3>4. sync[t].links[s] = Placeholder
      BY <3>3 DEF LinkInv
    <3> QED BY <1>0, <1>b, <1>c, <2>1, <3>4
  <2> QED BY <2>2, <2>3
<1> QED BY <1>1, <1>2, <1>3, <1>4, <1>5, <1>6, <1>7, <1>8, <1>9, <1>10, <1>11, <1>12, <1>13, Kinds

\* What goes with an order goes with it for ever.
LEMMA FitsStep ==
  ASSUME TypeOK, HasCommand, OnlyQueued, OneTab, NEW t \in Tabs, HandInv(t), [Next]_vars,
         NEW s \in Sales, NEW o, o # Placeholder, Fits(t, s, o)
  PROVE  Fits(t, s, o)'
<1> DEFINE p == PaymentOf(s)
           c == OrderOf(s)
           d1 == Dead(t, s)
           d2 == Dead(t, s)'
<1>0. /\ p \in Commands /\ c \in Commands /\ p # c /\ p.group = s
      /\ \A g : PaymentOf(g) = p => g = s
      /\ queue \in [Commands -> Stored \cup {Gone}] /\ retry \in [Tabs -> Request \cup {Gone}]
      /\ \A r \in Hand(t) : /\ r \in Request /\ r.cmd \in Commands /\ queue[r.cmd] # Gone /\ Pending(r.cmd)
                            /\ retry[t] # Gone => retry[t].cmd # r.cmd
                            /\ r.cmd = c => ~d1
      /\ sync[t].now # Gone => sync[t].now \in Hand(t)
      /\ retry[t] # Gone => retry[t].cmd \in Commands
      /\ \A r \in sync[t].todo : r \in Hand(t)
      /\ d1 => d2
  BY GroupsAreTold, HandType, InHandLives, RecordType, DeadStays DEF TypeOK, HandInv, Hand
<1>a. Queued(p) /\ Queued(p)'
  BY QueuedStays DEF Fits
<1>b. /\ queue[p] # Gone => queue[p].ref = o \/ (queue[p].ref = Placeholder /\ d1)
      /\ (retry[t] # Gone /\ retry[t].cmd = p) => retry[t].ref = o \/ (retry[t].ref = Placeholder /\ d1)
      /\ \A r \in Hand(t) : r.cmd = p =>
           r.ref = o \/ (r.ref = Placeholder /\ d1 /\ sync[t].links[s] \in {Placeholder, o})
      /\ ~(sync[t].pc = "put" /\ sync[t].now.cmd = c)
  BY DEF Fits
<1> DEFINE Stays == queue'[p] # Gone => queue'[p].ref = o \/ (queue'[p].ref = Placeholder /\ d2)
           Again == (retry'[t] # Gone /\ retry'[t].cmd = p) => retry'[t].ref = o \/ (retry'[t].ref = Placeholder /\ d2)
           InHand == \A r \in Hand(t)' : r.cmd = p =>
                       r.ref = o \/ (r.ref = Placeholder /\ d2 /\ sync'[t].links[s] \in {Placeholder, o})
           Unput == ~(sync'[t].pc = "put" /\ sync'[t].now.cmd = c)
<1> SUFFICES Stays /\ Again /\ InHand /\ Unput
  BY <1>a DEF Fits
<1> HIDE DEF p, c, d1, d2
<1>c. ASSUME sync'[t].todo = sync[t].todo, sync'[t].now = sync[t].now
      PROVE  Hand(t)' = Hand(t)
  BY <1>c DEF Hand
<1>d. ASSUME sync'[t] \in {Started, AtRest} PROVE Hand(t)' = {} /\ sync'[t].pc # "put"
  BY <1>d, Resting DEF Hand
<1>1. CASE UNCHANGED <<queue, line, sync, retry>>
  BY <1>0, <1>1, <1>b, <1>c
<1>2. CASE Queues
  <2>1. PICK d \in Commands, ref \in {Placeholder} \cup OrderIds :
          /\ ~Queued(d) /\ queue' = [queue EXCEPT ![d] = Record("pending", ref)] /\ UNCHANGED <<sync, retry>>
    BY <1>2 DEF Queues, Enqueue
  <2>2. queue'[p] = queue[p]
    BY <1>0, <1>a, <2>1
  <2> QED BY <1>0, <1>b, <1>c, <2>1, <2>2
<1>3. ASSUME NEW d \in Commands, DiscardFailed(d)
      PROVE  Stays /\ Again /\ InHand /\ Unput
  <2>1. UNCHANGED <<sync, retry>> /\ (queue'[p] = queue[p] \/ queue'[p] = Gone)
    BY <1>0, <1>3 DEF DiscardFailed
  <2> QED BY <1>0, <1>b, <1>c, <2>1
<1>4. ASSUME NEW d \in Commands, RetryRead(t, d)
      PROVE  Stays /\ Again /\ InHand /\ Unput
  <2>1. UNCHANGED <<sync, queue>> /\ retry'[t] = [cmd |-> d, ref |-> queue[d].ref] /\ queue[d] # Gone
    BY <1>0, <1>4 DEF RetryRead, Failed
  <2> QED BY <1>0, <1>b, <1>c, <2>1
<1>5. CASE Reopen(t) \/ Reload(t) \/ Disconnect \/ Connect \/ Finish(t)
  <2>1. /\ UNCHANGED <<queue, line>> /\ retry'[t] \in {retry[t], Gone}
        /\ sync'[t] = sync[t] \/ sync'[t] \in {Started, AtRest}
    BY <1>5, PageMoves
  <2> QED BY <1>0, <1>b, <1>c, <1>d, <2>1
<1>6. CASE List(t)
  <2>1. /\ sync'[t].now = Gone /\ UNCHANGED <<queue, retry>> /\ sync'[t].pc = "ready" /\ sync[t].pc = "list"
        /\ sync'[t].todo = {[cmd |-> d, ref |-> queue[d].ref] : d \in {e \in Commands : Pending(e)}}
        /\ sync'[t].links = sync[t].links
    BY <1>6, ListMoves
  <2>2. \A r \in Hand(t)' : r.ref = queue[r.cmd].ref /\ queue[r.cmd] # Gone
    BY <2>1 DEF Hand, Pending
  <2>3. sync'[t].links[s] = Placeholder
    BY <2>1 DEF HandInv, NoLinks
  <2> QED BY <1>0, <1>b, <2>1, <2>2, <2>3
<1>7. CASE Send(t)
  <2>1. /\ UNCHANGED <<queue, retry>> /\ sync'[t].links = sync[t].links /\ sync'[t].pc # "put"
        /\ Hand(t)' = Hand(t)
    BY <1>7, SendMoves DEF Hand
  <2> QED BY <1>0, <1>b, <2>1
<1>8. CASE Bump(t)
  <2>1. /\ sync'[t] = AtRest /\ UNCHANGED retry /\ sync[t].now # Gone
        /\ queue'[sync[t].now.cmd] = Record("pending", sync[t].now.ref)
        /\ \A d \in Commands : d # sync[t].now.cmd => queue'[d] = queue[d]
    BY <1>8, BumpMoves
  <2>2. Record("pending", sync[t].now.ref).ref = sync[t].now.ref
    BY DEF Record
  <2> QED BY <1>0, <1>b, <1>d, <2>1, <2>2
<1>9. CASE MarkFailed(t) \/ RemoveCommand(t)
  <2>1. /\ sync'[t].pc = "ready" /\ sync'[t].now = Gone /\ sync[t].now # Gone /\ sync'[t].todo = sync[t].todo
        /\ sync'[t].links = sync[t].links /\ UNCHANGED retry
        /\ \A d \in Commands : d # sync[t].now.cmd => queue'[d] = queue[d]
        /\ \/ queue'[sync[t].now.cmd] = Record("failed", sync[t].now.ref)
           \/ queue'[sync[t].now.cmd] = Gone
    BY <1>9, ContinueMoves
  <2>2. Hand(t)' = sync[t].todo
    BY <2>1 DEF Hand
  <2>3. Record("failed", sync[t].now.ref).ref = sync[t].now.ref
    BY DEF Record
  <2> QED BY <1>0, <1>b, <2>1, <2>2, <2>3
<1>10. CASE RelinkRead(t)
  <2>1. /\ Holds(t) /\ UNCHANGED <<queue, retry>> /\ sync[t].now # Gone
        /\ sync'[t].pc = "put" => queue[PaymentOf(sync[t].now.cmd.group)].ref = Placeholder
                                    /\ queue[PaymentOf(sync[t].now.cmd.group)] # Gone
    BY <1>10, RelinkReadMoves
  <2>2. sync'[t].pc = "put" /\ sync[t].now.cmd = c => queue[p].ref = Placeholder /\ queue[p] # Gone
    BY <2>1, GroupsAreTold DEF p, c
  <2> QED BY <1>0, <1>b, <1>c, <2>1, <2>2 DEF Holds
<1>11. CASE RelinkWrite(t)
  <2>1. PICK z \in Sales :
         /\ Holds(t) /\ UNCHANGED retry /\ sync[t].pc = "put" /\ sync'[t].pc = "remove"
         /\ sync[t].now.cmd = OrderOf(z)
         /\ \A d \in Commands : d # PaymentOf(z) => queue'[d] = queue[d]
    BY <1>11, RelinkWriteMoves
  <2>2. z # s
    BY <1>b, <2>1 DEF c
  <2>3. queue'[p] = queue[p]
    BY <1>0, <2>1, <2>2
  <2> QED BY <1>0, <1>b, <1>c, <2>1, <2>3 DEF Holds
<1>12. CASE RetryWrite(t)
  <2>1. /\ retry[t].cmd \in Commands /\ retry'[t] = Gone /\ retry[t] # Gone
        /\ queue'[retry[t].cmd] = Record("pending", retry[t].ref)
        /\ \A d \in Commands : d # retry[t].cmd => queue'[d] = queue[d]
        /\ sync'[t] = sync[t] \/ sync'[t] = Started
    BY <1>12, RetryWriteMoves
  <2>2. Record("pending", retry[t].ref).ref = retry[t].ref
    BY DEF Record
  <2> QED BY <1>0, <1>b, <1>c, <1>d, <2>1, <2>2
<1>13. CASE Exchange(t)
  <2>1. /\ UNCHANGED <<queue, retry>> /\ sync[t].pc = "wait" /\ sync[t].now # Gone
        /\ sync'[t].todo = sync[t].todo /\ sync'[t].now = sync[t].now /\ sync'[t].pc # "put"
        /\ \/ /\ sync[t].now.cmd.kind = "order"
              /\ sync'[t].links = [sync[t].links EXCEPT ![sync[t].now.cmd.group] = Len(origin) + 1]
           \/ sync'[t].links = sync[t].links
    BY <1>13, ExchangeMoves
  <2>2. CASE sync'[t].links[s] = sync[t].links[s]
    BY <1>0, <1>b, <1>c, <2>1, <2>2
  <2>3. CASE sync'[t].links[s] # sync[t].links[s]
    <3>1. sync[t].now.cmd.kind = "order" /\ sync[t].now.cmd.group = s
      BY <2>1, <2>3, RunType
    <3>2. sync[t].now.cmd = c
      BY <1>0, <2>1, <3>1 DEF c, Commands, OrderOf, PaymentOf
    <3>3. ~d1
      BY <1>0, <2>1, <3>2
    <3> QED BY <1>0, <1>b, <1>c, <2>1, <3>3
  <2> QED BY <2>2, <2>3
<1> QED BY <1>1, <1>2, <1>3, <1>4, <1>5, <1>6, <1>7, <1>8, <1>9, <1>10, <1>11, <1>12, <1>13, Kinds

-----------------------------------------------------------------------------
(* What the server books, it was sent.                                     *)

LEMMA RowType ==
  ASSUME TypeOK
  PROVE  /\ payments \in Seq([order : OrderIds, group : Groups]) /\ Len(payments) \in Nat
         /\ DOMAIN payments = 1..Len(payments)
         /\ \A i \in DOMAIN payments : payments[i] \in [order : OrderIds, group : Groups]
<1>1. payments \in Seq([order : OrderIds, group : Groups])
  BY DEF TypeOK
<1>2. payments \in [1..Len(payments) -> [order : OrderIds, group : Groups]] /\ Len(payments) \in Nat
  BY <1>1, LenProperties
<1> QED BY <1>1, <1>2

\* A request adds at most one row: its own, which was not there.
LEMMA ApplyBooks ==
  ASSUME TypeOK, NEW r \in Request, Apply(r)
  PROVE  \/ payments' = payments
         \/ /\ payments' = Append(payments, [order |-> r.ref, group |-> r.cmd.group])
            /\ ~KeyKnown(r) /\ r.ref # Placeholder /\ r.ref \in OrderIds
            /\ r.cmd.group \in Groups /\ r.cmd = PaymentOf(r.cmd.group)
<1>1. r.cmd \in Commands /\ r.ref \in {Placeholder} \cup OrderIds /\ r.cmd.group \in Groups
  BY DEF Request, Commands, OrderOf, PaymentOf, Groups
<1>2. CASE CreateOrder(r)
  BY <1>2 DEF CreateOrder
<1>3. CASE TakePayment(r)
  <2>1. r.cmd = PaymentOf(r.cmd.group)
    BY <1>1, <1>3 DEF TakePayment, Commands, OrderOf, PaymentOf
  <2> QED BY <1>1, <1>3, <2>1 DEF TakePayment
<1> QED BY <1>2, <1>3 DEF Apply

\* What a request may add to what was sent for sale s.
Sends(r, s) == IF r.cmd = PaymentOf(s) /\ r.ref # Placeholder THEN {r.ref} ELSE {}

LEMMA SentTypes ==
  ASSUME TypeOK, NEW s \in Sales
  PROVE  Sent(s) \subseteq OrderIds /\ Placeholder \notin Sent(s)
<1>1. \A i \in BookedFor(s) : payments[i].order \in OrderIds
  BY RowType DEF BookedFor
<1>2. \A r \in BagToSet(late) : r.ref \in {Placeholder} \cup OrderIds
  BY DEF TypeOK, Request
<1> QED BY <1>1, <1>2 DEF Sent, OrderIds, Placeholder

LEMMA BookedSends ==
  ASSUME TypeOK, NEW r \in Request, Apply(r), NEW s \in Sales
  PROVE  \A i \in BookedFor(s)' :
           \/ i \in BookedFor(s) /\ payments'[i] = payments[i]
           \/ payments'[i].order \in Sends(r, s)
<1>1. CASE payments' = payments
  BY <1>1 DEF BookedFor
<1>2. CASE /\ payments' = Append(payments, [order |-> r.ref, group |-> r.cmd.group])
           /\ r.ref # Placeholder /\ r.ref \in OrderIds
           /\ r.cmd.group \in Groups /\ r.cmd = PaymentOf(r.cmd.group)
  <2>1. [order |-> r.ref, group |-> r.cmd.group] \in [order : OrderIds, group : Groups]
    BY <1>2
  <2>2. /\ Len(payments) \in Nat /\ DOMAIN payments = 1..Len(payments)
        /\ DOMAIN payments' = 1..(Len(payments) + 1)
        /\ \A i \in 1..Len(payments) : payments'[i] = payments[i]
        /\ payments'[Len(payments) + 1] = [order |-> r.ref, group |-> r.cmd.group]
    BY <1>2, <2>1, RowType, Longer
  <2>3. ASSUME NEW i \in BookedFor(s)'
        PROVE  \/ i \in BookedFor(s) /\ payments'[i] = payments[i]
               \/ payments'[i].order \in Sends(r, s)
    <3>1. i \in 1..(Len(payments) + 1) /\ payments'[i].group = s
      BY <2>2, <2>3 DEF BookedFor
    <3>2. CASE i \in 1..Len(payments)
      BY <2>2, <3>1, <3>2 DEF BookedFor
    <3>3. CASE i = Len(payments) + 1
      <4>1. r.cmd.group = s /\ payments'[i].order = r.ref
        BY <2>2, <3>1, <3>3
      <4> QED BY <1>2, <4>1 DEF Sends
    <3> QED BY <2>2, <3>1, <3>2, <3>3
  <2> QED BY <2>3
<1> QED BY <1>1, <1>2, ApplyBooks

\* Where requests come from: the page that waits for the answer, one that does
\* not any more, or those nobody waits for.
LEMMA Requests ==
  ASSUME OneTab, NEW t \in Tabs, [Next]_vars
  PROVE  \/ UNCHANGED <<server, late>>
         \/ UNCHANGED server /\ Abandon(t) /\ (Reload(t) \/ NetworkError(t))
         \/ Accepted(t) /\ sync[t].pc = "wait" /\ Apply(Linked(t)) /\ UNCHANGED late
         \/ \E r \in BagToSet(late) : ServeLate(r)
<1>1. \A u \in Tabs : u = t
  BY DEF OneTab
<1>2. CASE Cashier
  BY <1>2 DEF Cashier, SellOffline, PaySale, PayBill, Enqueue, DiscardFailed, RetryRead
<1>3. CASE Disconnect \/ Connect \/ Reopen(t)
  BY <1>3 DEF Disconnect, Connect, Reopen
<1>4. CASE Reload(t)
  BY <1>4 DEF Reload
<1>5. CASE Work(t)
  BY <1>5 DEF Work, List, Finish, Send, Bump, MarkFailed, RelinkRead, RelinkWrite, RemoveCommand, RetryWrite
<1>6. CASE NetworkError(t)
  BY <1>6 DEF NetworkError
<1>7. CASE Accepted(t)
  BY <1>7 DEF Accepted, At, Reply
<1>8. CASE Rejected(t) \/ Conflicted(t) \/ ServerError(t)
  BY <1>8 DEF Rejected, Conflicted, ServerError, Reply
<1> QED BY <1>1, <1>2, <1>3, <1>4, <1>5, <1>6, <1>7, <1>8 DEF Next, Exchange, vars

\* What is sent late was sent before, and what is left to itself is sent now.
LEMMA SentGrows ==
  ASSUME TypeOK, HasCommand, OneTab, NEW t \in Tabs, [Next]_vars, NEW s \in Sales
  PROVE  \/ Sent(s)' \subseteq Sent(s)
         \/ sync[t].pc = "wait" /\ Sent(s)' \subseteq Sent(s) \cup Sends(Linked(t), s)
<1> DEFINE lateRefs == {r.ref : r \in {q \in BagToSet(late) : q.cmd = PaymentOf(s) /\ q.ref # Placeholder}}
           rows == {payments[i].order : i \in BookedFor(s)}
<1>0. Sent(s) = rows \cup lateRefs /\ Sent(s)' = rows' \cup lateRefs'
  BY DEF Sent
<1>a. UNCHANGED payments => rows' = rows
  BY DEF BookedFor
<1>b. ASSUME NEW r \in Request, Apply(r) PROVE rows' \subseteq rows \cup Sends(r, s)
  BY <1>b, BookedSends
<1>1. CASE UNCHANGED <<server, late>>
  BY <1>0, <1>1, <1>a DEF server
<1>2. CASE UNCHANGED server /\ Abandon(t)
  <2>1. CASE sync[t].pc = "wait"
    <3>1. DOMAIN late' = DOMAIN late \cup {Linked(t)}
      BY <1>2, <2>1 DEF Abandon, SetToBag, (+)
    <3>2. lateRefs' \subseteq lateRefs \cup Sends(Linked(t), s)
      BY <3>1 DEF BagToSet, Sends
    <3> QED BY <1>0, <1>2, <1>a, <2>1, <3>2 DEF server
  <2>2. CASE sync[t].pc # "wait"
    BY <1>0, <1>2, <1>a, <2>2 DEF Abandon, server
  <2> QED BY <2>1, <2>2
<1>3. CASE sync[t].pc = "wait" /\ Apply(Linked(t)) /\ UNCHANGED late
  <2>1. Linked(t) \in Request
    BY <1>3, AtHand DEF AtWork
  <2>2. lateRefs' = lateRefs
    BY <1>3
  <2> QED BY <1>0, <1>3, <1>b, <2>1, <2>2
<1>4. ASSUME NEW r \in BagToSet(late), ServeLate(r) PROVE Sent(s)' \subseteq Sent(s)
  <2>1. r \in Request /\ Apply(r)
    BY <1>4 DEF TypeOK, ServeLate
  <2>2. BagToSet(late') \subseteq BagToSet(late)
    BY <1>4 DEF ServeLate, BagToSet, (-)
  <2>3. lateRefs' \subseteq lateRefs /\ Sends(r, s) \subseteq lateRefs
    BY <2>2 DEF Sends
  <2> QED BY <1>0, <1>b, <2>1, <2>3
<1> QED BY <1>1, <1>2, <1>3, <1>4, Requests

\* A payment about to be sent with an id goes with it, and with no other it was
\* ever sent with.
LEMMA SendingFits ==
  ASSUME TypeOK, HasCommand, OnlyQueued, NEW t \in Tabs, HandInv(t), sync[t].pc = "wait",
         NEW s \in Sales, LinkInv(t, s), SentInv(t, s), NEW o \in Sends(Linked(t), s)
  PROVE  o # Placeholder /\ Fits(t, s, o) /\ \A i \in Sent(s) : i = o
<1> DEFINE p == PaymentOf(s)
           l == sync[t].links[s]
<1>0. /\ p.group = s /\ p.kind = "payment" /\ p # OrderOf(s)
      /\ This(t) \in Request /\ Linked(t).cmd = This(t).cmd /\ sync[t].now # Gone
      /\ sync[t].now \in Hand(t) /\ This(t) = sync[t].now
      /\ \A r \in Hand(t) : retry[t] # Gone => retry[t].cmd # r.cmd
  BY GroupsAreTold, AtHand, InHandLives DEF AtWork, HasCommand, This
<1>1. sync[t].now.cmd = p /\ Linked(t).ref = o /\ o # Placeholder
  BY <1>0 DEF Sends
<1>2. o = IF sync[t].now.ref = Placeholder THEN l ELSE sync[t].now.ref
  BY <1>0, <1>1 DEF Linked, Request
<1>3. sync[t].now.ref = Placeholder => Dead(t, s)
  <2>1. l # Placeholder => Dead(t, s)
    BY <1>0, <1>1 DEF LinkInv, Leaving
  <2> QED BY <1>1, <1>2, <2>1
<1>4. \A i \in Sent(s) : i = o
  <2> SUFFICES ASSUME NEW i \in Sent(s) PROVE i = o
    OBVIOUS
  <2>1. i # Placeholder
    BY SentTypes
  <2>2. Fits(t, s, i)
    BY DEF SentInv
  <2>3. sync[t].now.ref = i \/ (sync[t].now.ref = Placeholder /\ l \in {Placeholder, i})
    BY <1>0, <1>1, <2>2 DEF Fits
  <2> QED BY <1>1, <1>2, <2>1, <2>3
<1>5. Queued(p)
  BY <1>0, <1>1 DEF OnlyQueued
<1>6. queue[p] # Gone => queue[p].ref = o \/ (queue[p].ref = Placeholder /\ Dead(t, s))
  BY <1>0, <1>1, <1>2, <1>3 DEF LinkInv
<1>7. \A r \in Hand(t) : r.cmd = p => r = sync[t].now
  BY <1>0, <1>1 DEF HandInv, Hand
<1>8. \A r \in Hand(t) : r.cmd = p => r.ref = o \/ (r.ref = Placeholder /\ Dead(t, s) /\ l \in {Placeholder, o})
  BY <1>2, <1>3, <1>7
<1>9. ~(retry[t] # Gone /\ retry[t].cmd = p)
  BY <1>0, <1>1
<1> QED BY <1>1, <1>4, <1>5, <1>6, <1>8, <1>9 DEF Fits

LEMMA SentStep ==
  ASSUME TypeOK, HasCommand, OnlyQueued, OneTab, NEW t \in Tabs, HandInv(t), [Next]_vars,
         NEW s \in Sales, LinkInv(t, s), SentInv(t, s)
  PROVE  SentInv(t, s)'
<1>1. CASE Sent(s)' \subseteq Sent(s)
  <2>1. \A o \in Sent(s) : o # Placeholder /\ Fits(t, s, o)
    BY SentTypes DEF SentInv
  <2>2. \A o \in Sent(s) : Fits(t, s, o)'
    BY <2>1, FitsStep
  <2> QED BY <1>1, <2>2 DEF SentInv
<1>2. CASE sync[t].pc = "wait" /\ Sent(s)' \subseteq Sent(s) \cup Sends(Linked(t), s)
  <2>1. \A o \in Sent(s) \cup Sends(Linked(t), s) :
          o # Placeholder /\ Fits(t, s, o) /\ \A i \in Sent(s) \cup Sends(Linked(t), s) : i = o
    <3>1. \A o \in Sends(Linked(t), s) :
            o # Placeholder /\ Fits(t, s, o) /\ \A i \in Sent(s) : i = o
      BY <1>2, SendingFits
    <3>2. \A o, i \in Sends(Linked(t), s) : o = i
      BY DEF Sends
    <3>3. \A o \in Sent(s) : o # Placeholder /\ Fits(t, s, o) /\ \A i \in Sent(s) : i = o
      BY SentTypes DEF SentInv
    <3> QED BY <3>1, <3>2, <3>3
  <2>2. \A o \in Sent(s) \cup Sends(Linked(t), s) : Fits(t, s, o)'
    BY <2>1, FitsStep
  <2> QED BY <1>2, <2>1, <2>2 DEF SentInv
<1> QED BY <1>1, <1>2, SentGrows

-----------------------------------------------------------------------------
(* One row for an order and key, one order for a bill: with any number of  *)
(* pages.                                                                  *)

\* Orders and rows come from requests alone.
LEMMA OnlyRequests ==
  ASSUME TypeOK, HasCommand, [Next]_vars
  PROVE  UNCHANGED server \/ \E r \in Request : Apply(r)
<1>1. CASE Cashier
  BY <1>1 DEF Cashier, SellOffline, PaySale, PayBill, Enqueue, DiscardFailed, RetryRead
<1>2. ASSUME NEW t \in Tabs, Disconnect \/ Connect \/ Reopen(t) \/ Reload(t)
      PROVE  UNCHANGED server
  BY <1>2 DEF Disconnect, Connect, Reopen, Reload
<1>3. ASSUME NEW t \in Tabs, Work(t)
      PROVE  UNCHANGED server
  BY <1>3 DEF Work, List, Finish, Send, Bump, MarkFailed, RelinkRead, RelinkWrite, RemoveCommand, RetryWrite
<1>4. ASSUME NEW t \in Tabs, Accepted(t)
      PROVE  \E r \in Request : Apply(r)
  <2>1. Linked(t) \in Request
    BY <1>4, AtHand DEF Accepted, At, AtWork
  <2> QED BY <1>4, <2>1 DEF Accepted
<1>5. ASSUME NEW t \in Tabs, NetworkError(t) \/ Rejected(t) \/ Conflicted(t) \/ ServerError(t)
      PROVE  UNCHANGED server
  BY <1>5 DEF NetworkError, Rejected, Conflicted, ServerError, Reply
<1>6. ASSUME NEW r \in BagToSet(late), ServeLate(r)
      PROVE  \E q \in Request : Apply(q)
  BY <1>6 DEF ServeLate, TypeOK
<1>7. CASE Disconnect \/ Connect
  BY <1>7 DEF Disconnect, Connect
<1> QED BY <1>1, <1>2, <1>3, <1>4, <1>5, <1>6, <1>7 DEF Next, Exchange, vars

LEMMA RowsInvInit ==
  ASSUME Init
  PROVE  RowsInv
<1>1. ExistsBijection(1..Cardinality(Bills), Bills)
  BY BillsAreFinite, FS_CardinalityType
<1>2. \E f \in [1..Cardinality(Bills) -> Bills] : IsInjective(f)
  BY <1>1 DEF ExistsBijection, Bijection, Injection
<1>3. SetToSeq(Bills) \in [1..Cardinality(Bills) -> Bills] /\ IsInjective(SetToSeq(Bills))
  BY <1>2 DEF SetToSeq
<1>4. Cardinality(Bills) \in Nat /\ Len(SetToSeq(Bills)) = Cardinality(Bills)
  BY <1>3, BillsAreFinite, FS_CardinalityType, LenProperties, SeqDef
<1> QED BY <1>3, <1>4 DEF Init, RowsInv, OrderIds, IsInjective

LEMMA RowsStep ==
  ASSUME TypeOK, HasCommand, RowsInv, [Next]_vars
  PROVE  RowsInv'
<1>1. CASE UNCHANGED server
  BY <1>1 DEF server, RowsInv, OrderIds
<1>2. ASSUME NEW r \in Request, Apply(r) PROVE RowsInv'
  <2> DEFINE row == [order |-> r.ref, group |-> r.cmd.group]
  <2>0. /\ r.cmd \in Commands /\ r.cmd.group \in Groups /\ origin \in Seq(Groups) /\ Len(origin) \in Nat
        /\ RowsInv
    BY DEF TypeOK, Request, Commands, OrderOf, PaymentOf, Groups
  <2>1. \A i, j \in DOMAIN payments' : payments'[i] = payments'[j] => i = j
    <3>1. CASE payments' = payments
      BY <3>1 DEF RowsInv
    <3>2. CASE payments' = Append(payments, row) /\ ~KeyKnown(r) /\ r.ref \in OrderIds
      <4>1. row \in [order : OrderIds, group : Groups]
        BY <2>0, <3>2
      <4>2. /\ Len(payments) \in Nat /\ DOMAIN payments = 1..Len(payments)
            /\ DOMAIN payments' = 1..(Len(payments) + 1)
            /\ \A i \in 1..Len(payments) : payments'[i] = payments[i]
            /\ payments'[Len(payments) + 1] = row
        BY <3>2, <4>1, RowType, Longer
      <4>3. \A i \in DOMAIN payments : payments[i] # row
        BY <3>2 DEF KeyKnown, ToSet
      <4> HIDE DEF row
      <4> QED BY <4>2, <4>3 DEF RowsInv
    <3> QED BY <1>2, <3>1, <3>2, ApplyBooks
  <2>2. ASSUME NEW o \in OrderIds', NEW i \in OrderIds', origin'[o] = origin'[i], origin'[o] \in Bills
        PROVE  o = i
    <3>1. CASE UNCHANGED origin
      BY <2>2, <3>1 DEF RowsInv, OrderIds
    <3>2. CASE CreateOrder(r)
      <4>1. origin' = Append(origin, r.cmd.group) /\ r.cmd.group \notin Bills
        BY <2>0, <3>2, SalesAreNotBills DEF CreateOrder, Commands, OrderOf, PaymentOf
      <4>2. /\ Len(origin') = Len(origin) + 1
            /\ \A k \in 1..Len(origin) : origin'[k] = origin[k]
            /\ origin'[Len(origin) + 1] = r.cmd.group
        BY <2>0, <4>1, Longer
      <4> QED BY <2>0, <2>2, <4>1, <4>2 DEF RowsInv, OrderIds
    <3> QED BY <1>2, <3>1, <3>2 DEF Apply, TakePayment
  <2> QED BY <2>1, <2>2 DEF RowsInv
<1> QED BY <1>1, <1>2, OnlyRequests

\* Orders known before are paid once, with any number of pages: the server looks
\* up the key of the payment, and a bill has one order to look it up for
\* (ops/command/route.ts: the payment's idempotency key, offline-queue.ts:9-10).
THEOREM BillsChargedOnce == Spec => [](\A b \in Bills : \A i, j \in BookedFor(b) : i = j)
<1> DEFINE Inv == TypeOK /\ HasCommand /\ OwnInv /\ RowsInv
<1>1. Init => Inv
  BY InitType, OwnInvInit, RowsInvInit
<1>2. Inv /\ [Next]_vars => Inv'
  BY TypeStep, OwnStep, RowsStep
<1>3. Inv => \A b \in Bills : \A i, j \in BookedFor(b) : i = j
  <2> SUFFICES ASSUME Inv, NEW b \in Bills, NEW i \in BookedFor(b), NEW j \in BookedFor(b)
               PROVE  i = j
    OBVIOUS
  <2>1. /\ payments[i] \in [order : OrderIds, group : Groups] /\ payments[j] \in [order : OrderIds, group : Groups]
        /\ i \in DOMAIN payments /\ j \in DOMAIN payments /\ payments[i].group = b /\ payments[j].group = b
    BY RowType DEF BookedFor
  <2>2. origin[payments[i].order] = b /\ origin[payments[j].order] = b
    BY <2>1 DEF OwnInv, OnOwnOrder
  <2>3. payments[i].order = payments[j].order
    BY <2>1, <2>2 DEF RowsInv
  <2> QED BY <2>1, <2>3 DEF RowsInv
<1> QED BY <1>1, <1>2, <1>3, PTL DEF Spec

-----------------------------------------------------------------------------
(* One page.                                                               *)

HandsInv == \A t \in Tabs : HandInv(t)
LinksInv == \A t \in Tabs, s \in Sales : LinkInv(t, s)
SentsInv == \A t \in Tabs, s \in Sales : SentInv(t, s)

\* What one page needs to know of itself, its queue and what it left behind.
PageInv == TypeOK /\ HasCommand /\ OrderInv /\ OwnInv /\ RowsInv /\ HandsInv /\ LinksInv /\ SentsInv

LEMMA PageInvInit ==
  ASSUME Init
  PROVE  PageInv
<1>1. TypeOK /\ HasCommand /\ OrderInv /\ OwnInv /\ RowsInv
  BY InitType, OrderInvInit, OwnInvInit, RowsInvInit
<1>2. ASSUME NEW t \in Tabs PROVE Hand(t) = {} /\ sync[t] = AtRest /\ retry[t] = Gone
  BY <1>2, Resting DEF Init, Hand
<1>3. HandsInv
  BY <1>2 DEF HandsInv, HandInv, AtRest
<1>4. LinksInv
  BY <1>2 DEF LinksInv, LinkInv, AtRest, NoLinks
<1>5. \A s \in Sales : Sent(s) = {}
  BY DEF Init, Sent, BookedFor, EmptyBag, SetToBag, BagToSet
<1> QED BY <1>1, <1>3, <1>4, <1>5 DEF PageInv, SentsInv, SentInv

LEMMA PageInvStep ==
  ASSUME OneTab, PageInv, [Next]_vars
  PROVE  PageInv'
<1>1. TypeOK' /\ HasCommand' /\ OrderInv' /\ OwnInv' /\ RowsInv'
  BY TypeStep, OrderStep, OwnStep, RowsStep DEF PageInv
<1>2. HandsInv'
  BY HandStep DEF PageInv, OrderInv, HandsInv
<1>3. LinksInv'
  BY LinkStep DEF PageInv, OrderInv, HandsInv, LinksInv
<1>4. SentsInv'
  BY SentStep DEF PageInv, OrderInv, HandsInv, LinksInv, SentsInv
<1> QED BY <1>1, <1>2, <1>3, <1>4 DEF PageInv

LEMMA PaysOnce ==
  ASSUME PageInv, NEW t \in Tabs
  PROVE  ChargedOnce
<1>1. ASSUME NEW g \in Groups, NEW i \in BookedFor(g), NEW j \in BookedFor(g)
      PROVE  i = j
  <2>1. /\ payments[i] \in [order : OrderIds, group : Groups] /\ payments[j] \in [order : OrderIds, group : Groups]
        /\ i \in DOMAIN payments /\ j \in DOMAIN payments /\ payments[i].group = g /\ payments[j].group = g
    BY RowType DEF BookedFor, PageInv
  <2>2. CASE g \in Bills
    <3>1. origin[payments[i].order] = g /\ origin[payments[j].order] = g
      BY <2>1 DEF PageInv, OwnInv, OnOwnOrder
    <3>2. payments[i].order = payments[j].order
      BY <2>1, <2>2, <3>1 DEF PageInv, RowsInv
    <3> QED BY <2>1, <3>2 DEF PageInv, RowsInv
  <2>3. CASE g \in Sales
    <3>1. payments[i].order \in Sent(g) /\ payments[j].order \in Sent(g)
      BY DEF Sent
    <3>2. payments[i].order = payments[j].order
      BY <2>3, <3>1 DEF PageInv, SentsInv, SentInv
    <3> QED BY <2>1, <3>2 DEF PageInv, RowsInv
  <2> QED BY <2>2, <2>3 DEF Groups
<1> QED BY <1>1 DEF ChargedOnce, PageInv, OwnInv

\* With one page at work a customer is charged at most once for a sale, whatever
\* is resent, relinked, retried by hand, left behind by a reload and answered late
\* (offline-queue.ts:9-10,173-190,216-243).
THEOREM OneTabChargesOnce == OneTab /\ Spec => []ChargedOnce
<1> DEFINE Inv == OneTab /\ PageInv
<1>1. OneTab /\ Init => Inv
  BY PageInvInit
<1>2. Inv /\ [Next]_vars => Inv'
  BY PageInvStep DEF OneTab
<1>3. Inv => ChargedOnce
  BY PaysOnce DEF OneTab
<1> QED BY <1>1, <1>2, <1>3, PTL DEF Spec

-----------------------------------------------------------------------------
(* Orders made, and orders that may yet be made.                           *)

LEMMA OrderRefsStep ==
  ASSUME TypeOK, HasCommand, OneTab, NEW t \in Tabs, HandInv(t), [Next]_vars,
         NEW s \in Sales, OrderRefs(t, s)
  PROVE  OrderRefs(t, s)'
<1> DEFINE c == OrderOf(s)
<1>0. /\ c \in Commands /\ c.group = s /\ \A z : PaymentOf(z) # c
      /\ queue \in [Commands -> Stored \cup {Gone}] /\ retry \in [Tabs -> Request \cup {Gone}]
      /\ \A r \in Hand(t) : r.cmd \in Commands /\ queue[r.cmd] # Gone
      /\ sync[t].now # Gone => sync[t].now \in Hand(t)
      /\ retry[t] # Gone => retry[t].cmd \in Commands
      /\ \A r \in sync[t].todo : r \in Hand(t)
  BY GroupsAreTold, HandType, InHandLives, RecordType DEF TypeOK, Hand
<1>b. /\ queue[c] # Gone => queue[c].ref = Placeholder
      /\ (retry[t] # Gone /\ retry[t].cmd = c) => retry[t].ref = Placeholder
      /\ \A r \in Hand(t) : r.cmd = c => r.ref = Placeholder
  BY DEF OrderRefs
<1> DEFINE Stays  == queue'[c] # Gone => queue'[c].ref = Placeholder
           Again  == (retry'[t] # Gone /\ retry'[t].cmd = c) => retry'[t].ref = Placeholder
           InHand == \A r \in Hand(t)' : r.cmd = c => r.ref = Placeholder
<1> SUFFICES Stays /\ Again /\ InHand
  BY DEF OrderRefs
<1> HIDE DEF c
<1>c. ASSUME sync'[t].todo = sync[t].todo, sync'[t].now = sync[t].now
      PROVE  Hand(t)' = Hand(t)
  BY <1>c DEF Hand
<1>d. ASSUME sync'[t] \in {Started, AtRest} PROVE Hand(t)' = {}
  BY <1>d, Resting DEF Hand
<1>e. \A st, ref : Record(st, ref).ref = ref
  BY DEF Record
<1>1. CASE UNCHANGED <<queue, line, sync, retry>>
  BY <1>1, <1>b, <1>c
<1>2. CASE Queues
  <2>1. PICK d \in Commands, ref \in {Placeholder} \cup OrderIds :
          /\ queue' = [queue EXCEPT ![d] = Record("pending", ref)] /\ UNCHANGED <<sync, retry>>
          /\ d.group \in Sales => ref = Placeholder
    BY <1>2 DEF Queues, Enqueue
  <2> QED BY <1>0, <1>b, <1>c, <1>e, <2>1
<1>3. ASSUME NEW d \in Commands, DiscardFailed(d)
      PROVE  Stays /\ Again /\ InHand
  <2>1. UNCHANGED <<sync, retry>> /\ (queue'[c] = queue[c] \/ queue'[c] = Gone)
    BY <1>0, <1>3 DEF DiscardFailed
  <2> QED BY <1>b, <1>c, <2>1
<1>4. ASSUME NEW d \in Commands, RetryRead(t, d)
      PROVE  Stays /\ Again /\ InHand
  <2>1. UNCHANGED <<sync, queue>> /\ retry'[t] = [cmd |-> d, ref |-> queue[d].ref] /\ queue[d] # Gone
    BY <1>0, <1>4 DEF RetryRead, Failed
  <2> QED BY <1>b, <1>c, <2>1
<1>5. CASE Reopen(t) \/ Reload(t) \/ Disconnect \/ Connect \/ Finish(t)
  <2>1. /\ UNCHANGED <<queue, line>> /\ retry'[t] \in {retry[t], Gone}
        /\ sync'[t] = sync[t] \/ sync'[t] \in {Started, AtRest}
    BY <1>5, PageMoves
  <2> QED BY <1>b, <1>c, <1>d, <2>1
<1>6. CASE List(t)
  <2>1. /\ sync'[t].now = Gone /\ UNCHANGED <<queue, retry>>
        /\ sync'[t].todo = {[cmd |-> d, ref |-> queue[d].ref] : d \in {e \in Commands : Pending(e)}}
    BY <1>6, ListMoves
  <2>2. \A r \in Hand(t)' : r.ref = queue[r.cmd].ref /\ queue[r.cmd] # Gone
    BY <2>1 DEF Hand, Pending
  <2> QED BY <1>b, <2>1, <2>2
<1>7. CASE Send(t)
  <2>1. UNCHANGED <<queue, retry>> /\ Hand(t)' = Hand(t)
    BY <1>7, SendMoves DEF Hand
  <2> QED BY <1>b, <2>1
<1>8. CASE Bump(t)
  <2>1. /\ sync'[t] = AtRest /\ UNCHANGED retry /\ sync[t].now # Gone
        /\ queue'[sync[t].now.cmd] = Record("pending", sync[t].now.ref)
        /\ \A d \in Commands : d # sync[t].now.cmd => queue'[d] = queue[d]
    BY <1>8, BumpMoves
  <2> QED BY <1>0, <1>b, <1>d, <1>e, <2>1
<1>9. CASE MarkFailed(t) \/ RemoveCommand(t)
  <2>1. /\ sync'[t].now = Gone /\ sync[t].now # Gone /\ sync'[t].todo = sync[t].todo /\ UNCHANGED retry
        /\ \A d \in Commands : d # sync[t].now.cmd => queue'[d] = queue[d]
        /\ \/ queue'[sync[t].now.cmd] = Record("failed", sync[t].now.ref)
           \/ queue'[sync[t].now.cmd] = Gone
    BY <1>9, ContinueMoves
  <2>2. Hand(t)' = sync[t].todo
    BY <2>1 DEF Hand
  <2> QED BY <1>0, <1>b, <1>e, <2>1, <2>2
<1>10. CASE RelinkRead(t)
  <2>1. Holds(t) /\ UNCHANGED <<queue, retry>>
    BY <1>10, RelinkReadMoves
  <2> QED BY <1>b, <1>c, <2>1 DEF Holds
<1>11. CASE RelinkWrite(t)
  <2>1. PICK z \in Sales :
         /\ Holds(t) /\ UNCHANGED retry
         /\ \A d \in Commands : d # PaymentOf(z) => queue'[d] = queue[d]
    BY <1>11, RelinkWriteMoves
  <2>2. queue'[c] = queue[c]
    BY <1>0, <2>1
  <2> QED BY <1>b, <1>c, <2>1, <2>2 DEF Holds
<1>12. CASE RetryWrite(t)
  <2>1. /\ retry[t].cmd \in Commands /\ retry'[t] = Gone /\ retry[t] # Gone
        /\ queue'[retry[t].cmd] = Record("pending", retry[t].ref)
        /\ \A d \in Commands : d # retry[t].cmd => queue'[d] = queue[d]
        /\ sync'[t] = sync[t] \/ sync'[t] = Started
    BY <1>12, RetryWriteMoves
  <2> QED BY <1>0, <1>b, <1>c, <1>d, <1>e, <2>1
<1>13. CASE Exchange(t)
  <2>1. UNCHANGED <<queue, retry>> /\ sync'[t].todo = sync[t].todo /\ sync'[t].now = sync[t].now
    BY <1>13, ExchangeMoves
  <2> QED BY <1>b, <1>c, <2>1
<1> QED BY <1>1, <1>2, <1>3, <1>4, <1>5, <1>6, <1>7, <1>8, <1>9, <1>10, <1>11, <1>12, <1>13, Kinds

\* A request for an order is sent as it is stored.
LEMMA OrderSent ==
  ASSUME TypeOK, HasCommand, NEW t \in Tabs, HandInv(t), sync[t].pc = "wait",
         NEW s \in Sales, OrderRefs(t, s)
  PROVE  /\ Linked(t) \in Request /\ Linked(t).cmd = sync[t].now.cmd /\ sync[t].now # Gone
         /\ sync[t].now.cmd = OrderOf(s) <=> Linked(t) = OrderRequest(s)
         /\ sync[t].now.cmd = OrderOf(s) => ~Dead(t, s) /\ ~Leaving(t, s)
<1>1. /\ Linked(t) \in Request /\ Linked(t).cmd = sync[t].now.cmd /\ sync[t].now # Gone
      /\ sync[t].now \in Hand(t) /\ sync[t].now \in Request
  BY AtHand, InHandLives, HandType DEF AtWork, HasCommand, This
<1>2. ASSUME sync[t].now.cmd = OrderOf(s)
      PROVE  Linked(t) = OrderRequest(s) /\ ~Dead(t, s) /\ ~Leaving(t, s)
  <2>1. Linked(t) = sync[t].now
    BY <1>2, GroupsAreTold DEF Linked, This
  <2>2. sync[t].now.ref = Placeholder
    BY <1>1, <1>2 DEF OrderRefs
  <2>3. sync[t].now = OrderRequest(s)
    BY <1>1, <1>2, <2>2 DEF Request, OrderRequest
  <2> QED BY <1>1, <1>2, <2>1, <2>3, InHandLives DEF Leaving, Removing
<1>3. OrderRequest(s).cmd = OrderOf(s)
  BY DEF OrderRequest
<1> QED BY <1>1, <1>2, <1>3

\* Nothing but a reload makes an order that left, or is leaving, come back.
LEMMA OpenFalls ==
  ASSUME TypeOK, HasCommand, OnlyQueued, OneTab, NEW t \in Tabs, HandInv(t), [Next]_vars, ~Reload(t),
         NEW s \in Sales, ~Open(t, s)
  PROVE  ~Open(t, s)'
<1> DEFINE c == OrderOf(s)
<1>0. Dead(t, s) => Dead(t, s)'
  BY DeadStays
<1> SUFFICES ASSUME Leaving(t, s) PROVE Dead(t, s)' \/ Leaving(t, s)'
  BY <1>0 DEF Open
<1>1. sync[t].now # Gone /\ sync[t].now.cmd = c /\ sync[t].pc \in Removing
  BY DEF Leaving
<1>2. CASE sync'[t] = sync[t]
  BY <1>2 DEF Leaving
<1>3. CASE MarkFailed(t) \/ RemoveCommand(t)
  <2>1. /\ UNCHANGED retry
        /\ sync[t].pc = "fail" \/ (queue'[c] = Gone /\ sync[t].pc = "remove")
    BY <1>1, <1>3, ContinueMoves
  <2>2. Queued(c) /\ (retry[t] # Gone => retry[t].cmd # c)
    BY <1>1, InHandLives DEF OnlyQueued
  <2>3. Queued(c)'
    BY <2>2, QueuedStays
  <2> QED BY <1>1, <2>1, <2>2, <2>3 DEF Dead, Removing
<1>4. CASE RelinkRead(t)
  <2>1. Holds(t) /\ sync'[t].pc \in Removing
    BY <1>4, RelinkReadMoves DEF Removing
  <2> QED BY <1>1, <2>1 DEF Holds, Leaving
<1>5. CASE RelinkWrite(t)
  <2>1. Holds(t) /\ sync'[t].pc \in Removing
    BY <1>5, RelinkWriteMoves DEF Removing
  <2> QED BY <1>1, <2>1 DEF Holds, Leaving
<1>6. ~List(t) /\ ~Send(t) /\ ~Bump(t) /\ ~Exchange(t)
  BY <1>1, ListMoves, SendMoves, BumpMoves, ExchangeMoves DEF Removing
<1>7. CASE RetryWrite(t)
  BY <1>1, <1>2, <1>7, RetryWriteMoves DEF Removing
<1>8. CASE Connect
  <2>1. sync'[t] = sync[t]
    BY <1>1, <1>8 DEF Connect, Trigger, Removing
  <2> QED BY <1>2, <2>1
<1>9. ~Reopen(t) /\ ~Finish(t)
  BY <1>1 DEF Reopen, Finish, At, Removing
<1> QED BY <1>2, <1>3, <1>4, <1>5, <1>6, <1>7, <1>8, <1>9, Kinds
        DEF Queues, Enqueue, DiscardFailed, RetryRead, Disconnect, client

\* A page that waits in vain for an order has lost its connection to a failure.
LEMMA CreditRises ==
  ASSUME TypeOK, HasCommand, OneTab, NEW t \in Tabs, [Next]_vars, ~Disconnect,
         NEW s \in Sales, ~Credit(t, s)
  PROVE  ~Credit(t, s)'
<1> SUFFICES ASSUME Credit(t, s)' PROVE FALSE
  OBVIOUS
<1>1. ~online' /\ sync'[t].pc = "wait" /\ sync'[t].now.cmd = OrderOf(s)
  BY DEF Credit
<1>2. CASE UNCHANGED online /\ sync'[t] = sync[t]
  BY <1>1, <1>2 DEF Credit
<1>3. ~MarkFailed(t) /\ ~RemoveCommand(t) /\ ~RelinkRead(t) /\ ~RelinkWrite(t) /\ ~Bump(t) /\ ~Exchange(t) /\ ~List(t)
  BY <1>1, ContinueMoves, RelinkReadMoves, RelinkWriteMoves, BumpMoves, ExchangeMoves, ListMoves, Resting
<1>4. ~Send(t)
  <2>1. Send(t) => online' = online /\ sync'[t].pc = IF online THEN "wait" ELSE "bump"
    BY SendMoves DEF Send
  <2> QED BY <1>1, <2>1
<1>5. ~Connect
  BY <1>1 DEF Connect
<1>6. ~Reopen(t) /\ ~Finish(t)
  BY <1>1, Resting DEF Reopen, Finish, Break, TypeOK
<1>7. ~Reload(t)
  BY <1>1, Resting DEF Reload, TypeOK
<1>8. CASE RetryWrite(t)
  <2>1. sync'[t] = sync[t] /\ UNCHANGED online
    BY <1>1, <1>8, RetryWriteMoves, Resting DEF RetryWrite
  <2> QED BY <1>2, <2>1
<1>9. CASE Cashier \/ (\E r \in BagToSet(late) : ServeLate(r)) \/ UNCHANGED vars
  <2>1. UNCHANGED <<online, sync>>
    BY <1>9 DEF Cashier, SellOffline, PaySale, PayBill, Enqueue, DiscardFailed, RetryRead, ServeLate, client, vars
  <2> QED BY <1>2, <2>1
<1>10. \A u \in Tabs : u = t
  BY DEF OneTab
<1> QED BY <1>3, <1>4, <1>5, <1>6, <1>7, <1>8, <1>9, <1>10 DEF Next, Work

LEMMA MadeType ==
  ASSUME TypeOK, NEW g
  PROVE  IsFiniteSet(Made(g)) /\ Cardinality(Made(g)) \in Nat
<1>1. Len(origin) \in Nat
  BY LenProperties DEF TypeOK
<1>2. IsFiniteSet(1..Len(origin))
  BY <1>1, FS_Interval
<1>3. Made(g) \subseteq 1..Len(origin)
  BY DEF Made, OrderIds
<1> QED BY <1>2, <1>3, FS_Subset, FS_CardinalityType

LEMMA MadeGrows ==
  ASSUME TypeOK, NEW r \in Request, Apply(r), NEW s \in Sales
  PROVE  IF r.cmd = OrderOf(s) THEN Cardinality(Made(s)') = Cardinality(Made(s)) + 1
                               ELSE Made(s)' = Made(s)
<1>1. r.cmd \in Commands /\ r.cmd.group \in Groups /\ origin \in Seq(Groups)
  BY DEF TypeOK, Request, Commands, OrderOf, PaymentOf, Groups
<1>2. CASE CreateOrder(r)
  <2>1. /\ origin' = Append(origin, r.cmd.group) /\ r.cmd = OrderOf(r.cmd.group)
    BY <1>1, <1>2 DEF CreateOrder, Commands, OrderOf, PaymentOf
  <2>2. /\ Len(origin) \in Nat /\ Len(origin') = Len(origin) + 1
        /\ \A k \in 1..Len(origin) : origin'[k] = origin[k]
        /\ origin'[Len(origin) + 1] = r.cmd.group
    BY <1>1, <2>1, Longer
  <2> DEFINE n == Len(origin) + 1
  <2>3. /\ 1..Len(origin') = (1..Len(origin)) \cup {n} /\ n \notin 1..Len(origin)
    BY <2>2
  <2>4. CASE r.cmd = OrderOf(s)
    <3>1. r.cmd.group = s
      BY <2>4, GroupsAreTold
    <3>2. Made(s)' = Made(s) \cup {n} /\ n \notin Made(s)
      BY <2>2, <2>3, <3>1 DEF Made, OrderIds
    <3>3. Cardinality(Made(s) \cup {n}) = Cardinality(Made(s)) + 1
      BY <3>2, MadeType, FS_AddElement
    <3> QED BY <2>4, <3>2, <3>3
  <2>5. CASE r.cmd # OrderOf(s)
    <3>1. r.cmd.group # s
      BY <2>1, <2>5
    <3>2. Made(s)' = Made(s)
      BY <2>2, <2>3, <3>1 DEF Made, OrderIds
    <3> QED BY <2>5, <3>2
  <2> QED BY <2>4, <2>5
<1>3. CASE TakePayment(r)
  <2>1. UNCHANGED origin /\ r.cmd # OrderOf(s)
    BY <1>3, GroupsAreTold DEF TakePayment
  <2> QED BY <2>1 DEF Made, OrderIds
<1> QED BY <1>2, <1>3 DEF Apply

LEMMA AbandonedType ==
  ASSUME LateInv, NEW s
  PROVE  Abandoned(s) \in Nat
BY DEF LateInv, Abandoned, BagToSet

\* What is left to itself adds one request.
LEMMA AbandonCounts ==
  ASSUME TypeOK, HasCommand, LateInv, NEW t \in Tabs, HandInv(t), Abandon(t),
         \A s \in Sales : OrderRefs(t, s)
  PROVE  /\ LateInv'
         /\ \A s \in Sales :
              Abandoned(s)' = Abandoned(s) + (IF sync[t].pc = "wait" /\ sync[t].now.cmd = OrderOf(s) THEN 1 ELSE 0)
<1>1. CASE sync[t].pc # "wait"
  <2>1. late' = late
    BY <1>1 DEF Abandon
  <2>2. \A s \in Sales : Abandoned(s)' = Abandoned(s) /\ Abandoned(s) \in Nat
    BY <2>1, AbandonedType DEF Abandoned
  <2> QED BY <1>1, <2>1, <2>2 DEF LateInv
<1>2. CASE sync[t].pc = "wait"
  <2> DEFINE l == Linked(t)
  <2>1. late' = late (+) SetToBag({l})
    BY <1>2 DEF Abandon
  <2>2. /\ DOMAIN late' = DOMAIN late \cup {l}
        /\ \A r \in DOMAIN late' : late'[r] = (IF r \in DOMAIN late THEN late[r] ELSE 0) + (IF r = l THEN 1 ELSE 0)
    BY <2>1 DEF SetToBag, (+)
  <2>3. \A s \in Sales : /\ sync[t].now.cmd = OrderOf(s) <=> l = OrderRequest(s)
                         /\ l.cmd = OrderOf(s) => l.ref = Placeholder
    BY <1>2, OrderSent DEF OrderRequest
  <2> HIDE DEF l
  <2>4. LateInv'
    BY <2>2, <2>3 DEF LateInv, BagToSet
  <2>5. ASSUME NEW s \in Sales
        PROVE  Abandoned(s)' = Abandoned(s) + (IF l = OrderRequest(s) THEN 1 ELSE 0)
    <3>1. PICK q : q = OrderRequest(s)
      OBVIOUS
    <3>2. Abandoned(s) = IF q \in DOMAIN late THEN late[q] ELSE 0
      BY <3>1 DEF Abandoned, BagToSet
    <3>3. Abandoned(s)' = IF q \in DOMAIN late' THEN late'[q] ELSE 0
      BY <3>1 DEF Abandoned, BagToSet, OrderRequest
    <3>4. q \in DOMAIN late => late[q] \in Nat
      BY DEF LateInv
    <3> QED BY <2>2, <3>1, <3>2, <3>3, <3>4
  <2> QED BY <1>2, <2>3, <2>4, <2>5
<1> QED BY <1>1, <1>2

\* A request that is served late is taken away.
LEMMA ServeCounts ==
  ASSUME TypeOK, LateInv, NEW r \in BagToSet(late), ServeLate(r)
  PROVE  /\ LateInv'
         /\ \A s \in Sales :
              /\ r.cmd = OrderOf(s) => Abandoned(s)' = Abandoned(s) - 1
              /\ r.cmd # OrderOf(s) => Abandoned(s)' = Abandoned(s)
<1>1. late' = late (-) SetToBag({r}) /\ r \in DOMAIN late
  BY DEF ServeLate, BagToSet
<1>2. /\ DOMAIN late' = {q \in DOMAIN late : (IF q = r THEN late[q] - 1 ELSE late[q]) > 0}
      /\ \A q \in DOMAIN late' : late'[q] = (IF q = r THEN late[q] - 1 ELSE late[q])
  BY <1>1 DEF SetToBag, (-)
<1>3. \A q \in DOMAIN late : late[q] \in Nat \ {0}
  BY DEF LateInv
<1>4. LateInv'
  BY <1>2, <1>3 DEF LateInv, BagToSet
<1>5. ASSUME NEW s \in Sales
      PROVE  /\ r.cmd = OrderOf(s) => Abandoned(s)' = Abandoned(s) - 1
             /\ r.cmd # OrderOf(s) => Abandoned(s)' = Abandoned(s)
  <2>1. PICK q : q = OrderRequest(s)
    OBVIOUS
  <2>2. Abandoned(s) = IF q \in DOMAIN late THEN late[q] ELSE 0
    BY <2>1 DEF Abandoned, BagToSet
  <2>3. Abandoned(s)' = IF q \in DOMAIN late' THEN late'[q] ELSE 0
    BY <2>1 DEF Abandoned, BagToSet, OrderRequest
  <2>4. r.cmd = OrderOf(s) <=> r = q
    <3>1. r \in [cmd : Commands, ref : {Placeholder} \cup OrderIds]
      BY DEF TypeOK, Request
    <3>2. r.cmd = OrderOf(s) => r.ref = Placeholder
      BY DEF LateInv
    <3> QED BY <2>1, <3>1, <3>2 DEF OrderRequest
  <2> QED BY <1>1, <1>2, <1>3, <2>2, <2>3, <2>4
<1> QED BY <1>4, <1>5

LEMMA LateStep ==
  ASSUME PageInv, OneTab, LateInv, NEW t \in Tabs, \A s \in Sales : OrderRefs(t, s), [Next]_vars
  PROVE  LateInv'
<1>1. TypeOK /\ HasCommand /\ HandInv(t)
  BY DEF PageInv, HandsInv
<1>2. UNCHANGED late => LateInv'
  BY DEF LateInv
<1>3. Abandon(t) => LateInv'
  BY <1>1, AbandonCounts
<1>4. \A r \in BagToSet(late) : ServeLate(r) => LateInv'
  BY <1>1, ServeCounts
<1> QED BY <1>2, <1>3, <1>4, Requests

\* Whatever may come true has its failure, order by order: the count goes up by no
\* more than the failures do.
LEMMA CountStep ==
  ASSUME PageInv, OneTab, LateInv, \A u \in Tabs, z \in Sales : OrderRefs(u, z),
         NEW t \in Tabs, NEW s \in Sales, CountInv(t, s), [Next]_vars, TypeOK'
  PROVE  CountInv(t, s)'
<1>p. PICK a, l, o, k, f, a1, l1, o1, k1, f1 :
         /\ a = Cardinality(Made(s)) /\ l = Abandoned(s) /\ o = One(Open(t, s)) /\ k = One(Credit(t, s))
         /\ a1 = Cardinality(Made(s)') /\ l1 = Abandoned(s)' /\ o1 = One(Open(t, s)') /\ k1 = One(Credit(t, s)')
         /\ f = failures /\ f1 = failures'
  OBVIOUS
<1>0. TypeOK /\ HasCommand /\ OnlyQueued /\ HandInv(t) /\ OrderRefs(t, s) /\ \A z \in Sales : OrderRefs(t, z)
  BY DEF PageInv, OrderInv, HandsInv
<1>1. a \in Nat /\ l \in Nat /\ f \in Nat /\ f1 \in Nat
  BY <1>0, <1>p, MadeType, AbandonedType DEF TypeOK
<1>n. o \in {0, 1} /\ k \in {0, 1} /\ o1 \in {0, 1} /\ k1 \in {0, 1}
  BY <1>p DEF One
<1>2. /\ (o = 1 <=> Open(t, s)) /\ (k = 1 <=> Credit(t, s))
      /\ (o1 = 1 <=> Open(t, s)') /\ (k1 = 1 <=> Credit(t, s)')
  BY <1>p DEF One
<1>3. a + l + o + k <= 1 + f
  BY <1>p DEF CountInv
<1>4. ~Reload(t) => o1 <= o
  <2>1. ~Reload(t) /\ ~Open(t, s) => ~Open(t, s)'
    BY <1>0, OpenFalls
  <2> QED BY <1>n, <1>2, <2>1
<1>5. ~Disconnect => k1 <= k
  <2>1. ~Disconnect /\ ~Credit(t, s) => ~Credit(t, s)'
    BY <1>0, CreditRises
  <2> QED BY <1>n, <1>2, <2>1
<1>6. ASSUME sync[t].pc = "wait"
      PROVE  /\ Linked(t) \in Request /\ Linked(t).cmd = sync[t].now.cmd
             /\ sync[t].now.cmd = OrderOf(s) => o = 1
             /\ sync'[t].pc # "wait" => k1 = 0
             /\ sync[t].now.cmd = OrderOf(s) /\ ~online => k = 1
  <2>1. /\ Linked(t) \in Request /\ Linked(t).cmd = sync[t].now.cmd
        /\ sync[t].now.cmd = OrderOf(s) => ~Dead(t, s) /\ ~Leaving(t, s)
    BY <1>0, <1>6, OrderSent
  <2>2. sync[t].now.cmd = OrderOf(s) => Open(t, s)
    BY <2>1 DEF Open
  <2>3. sync'[t].pc # "wait" => ~Credit(t, s)'
    BY DEF Credit
  <2>4. sync[t].now.cmd = OrderOf(s) /\ ~online => Credit(t, s)
    BY <1>6 DEF Credit
  <2> QED BY <1>n, <1>2, <2>1, <2>2, <2>3, <2>4
<1>7. UNCHANGED server => a1 = a
  BY <1>p DEF server, Made, OrderIds
<1>8. ASSUME Abandon(t)
      PROVE  l1 = l + (IF sync[t].pc = "wait" /\ sync[t].now.cmd = OrderOf(s) THEN 1 ELSE 0)
  BY <1>0, <1>p, <1>8, AbandonCounts
<1>9. ASSUME NEW r \in Request, Apply(r)
      PROVE  a1 = a + (IF r.cmd = OrderOf(s) THEN 1 ELSE 0)
  BY <1>0, <1>p, <1>1, <1>9, MadeGrows
<1>10. UNCHANGED late => l1 = l
  BY <1>p DEF Abandoned, OrderRequest
<1> SUFFICES a1 + l1 + o1 + k1 <= 1 + f1
  BY <1>p DEF CountInv, One
<1>12. CASE Reload(t)
  <2>1. f1 = f + 1 /\ UNCHANGED server /\ Abandon(t) /\ sync'[t].pc # "wait"
    BY <1>0, <1>p, <1>12, Resting DEF Reload, Mishap, TypeOK
  <2>2. k1 = 0
    <3>1. ~Credit(t, s)'
      BY <2>1 DEF Credit
    <3> QED BY <1>n, <1>2, <3>1
  <2>3. CASE sync[t].pc = "wait" /\ sync[t].now.cmd = OrderOf(s)
    <3>1. a1 = a /\ l1 = l + 1 /\ o = 1
      BY <1>6, <1>7, <1>8, <2>1, <2>3
    <3> QED BY <1>1, <1>n, <1>3, <2>1, <2>2, <3>1
  <2>4. CASE ~(sync[t].pc = "wait" /\ sync[t].now.cmd = OrderOf(s))
    <3>1. a1 = a /\ l1 = l
      BY <1>1, <1>7, <1>8, <2>1, <2>4
    <3> QED BY <1>1, <1>n, <1>3, <2>1, <2>2, <3>1
  <2> QED BY <2>3, <2>4
<1>13. CASE NetworkError(t)
  <2>1. /\ UNCHANGED server /\ Abandon(t) /\ sync[t].pc = "wait" /\ sync'[t].pc # "wait"
        /\ IF online THEN f1 = f + 1 ELSE f1 = f
        /\ ~Reload(t)
    BY <1>0, <1>p, <1>13 DEF NetworkError, Reload, Mishap, At, Goto, TypeOK, Run, AtRest, Started
  <2>2. CASE sync[t].now.cmd = OrderOf(s)
    <3>1. a1 = a /\ l1 = l + 1 /\ o1 <= o /\ k1 = 0 /\ (~online => k = 1)
      BY <1>4, <1>6, <1>7, <1>8, <2>1, <2>2
    <3> QED BY <1>1, <1>n, <1>3, <2>1, <3>1
  <2>3. CASE sync[t].now.cmd # OrderOf(s)
    <3>1. a1 = a /\ l1 = l /\ o1 <= o /\ k1 = 0
      BY <1>1, <1>4, <1>6, <1>7, <1>8, <2>1, <2>3
    <3>2. f <= f1
      BY <1>1, <2>1
    <3> QED BY <1>1, <1>n, <1>3, <3>1, <3>2
  <2> QED BY <2>2, <2>3
<1>14. CASE Accepted(t)
  <2>1. /\ Apply(Linked(t)) /\ UNCHANGED late /\ f1 = f /\ sync[t].pc = "wait" /\ sync'[t].pc # "wait"
        /\ sync'[t].now = sync[t].now /\ ~Reload(t)
        /\ sync[t].now.cmd.kind = "order" => sync'[t].pc = "relink" /\ sync[t].now # Gone
    <3>1. Exchange(t)
      BY <1>14 DEF Exchange
    <3>2. /\ sync[t].pc = "wait" /\ sync'[t].pc # "wait" /\ sync'[t].now = sync[t].now /\ sync[t].now # Gone
          /\ sync[t].now.cmd.kind = "order" => sync'[t].pc = "relink"
      BY <1>0, <1>14, <3>1, ExchangeMoves
    <3>3. ~Reload(t)
      <4>1. Reload(t) => f1 = f + 1
        BY <1>p DEF Reload, Mishap
      <4>2. f1 = f
        BY <1>p, <1>14 DEF Accepted
      <4> QED BY <1>1, <4>1, <4>2
    <3> QED BY <1>p, <1>14, <3>2, <3>3 DEF Accepted, Reply
  <2>2. CASE sync[t].now.cmd = OrderOf(s)
    <3>1. Leaving(t, s)'
      BY <2>1, <2>2, GroupsAreTold DEF Leaving, Removing
    <3>2. o1 = 0
      <4>1. ~Open(t, s)'
        BY <3>1 DEF Open
      <4> QED BY <1>n, <1>2, <4>1
    <3>3. a1 = a + 1 /\ l1 = l /\ o = 1 /\ k1 = 0
      BY <1>6, <1>9, <1>10, <2>1, <2>2
    <3> QED BY <1>1, <1>n, <1>3, <2>1, <3>2, <3>3
  <2>3. CASE sync[t].now.cmd # OrderOf(s)
    <3>1. a1 = a /\ l1 = l /\ o1 <= o /\ k1 = 0
      BY <1>1, <1>4, <1>6, <1>9, <1>10, <2>1, <2>3
    <3> QED BY <1>1, <1>n, <1>3, <2>1, <3>1
  <2> QED BY <2>2, <2>3
<1>15. ASSUME NEW r \in BagToSet(late), ServeLate(r)
       PROVE  a1 + l1 + o1 + k1 <= 1 + f1
  <2>1. r \in Request /\ Apply(r) /\ f1 = f /\ ~Reload(t) /\ ~Disconnect
    <3>1. Reload(t) \/ Disconnect => f1 = f + 1
      BY <1>p DEF Reload, Disconnect, Mishap
    <3>2. r \in Request /\ Apply(r) /\ f1 = f
      BY <1>0, <1>p, <1>15 DEF ServeLate, TypeOK
    <3> QED BY <1>1, <3>1, <3>2
  <2>2. /\ r.cmd = OrderOf(s) => l1 = l - 1
        /\ r.cmd # OrderOf(s) => l1 = l
    BY <1>0, <1>p, <1>15, ServeCounts
  <2>3. a1 + l1 = a + l /\ o1 <= o /\ k1 <= k
    BY <1>1, <1>4, <1>5, <1>9, <2>1, <2>2
  <2>4. a1 \in Nat /\ l1 \in Int
    BY <1>1, <1>9, <2>1, <2>2
  <2> QED BY <1>1, <1>n, <1>3, <2>1, <2>2, <2>3, <2>4
<1>16. CASE Disconnect
  <2>1. f1 = f + 1 /\ online /\ UNCHANGED <<server, late>>
    BY <1>p, <1>16 DEF Disconnect, Mishap
  <2>2. ~Credit(t, s) /\ ~Reload(t)
    BY <1>16, <2>1 DEF Credit, Disconnect, Reload
  <2>3. a1 = a /\ l1 = l /\ o1 <= o /\ k = 0
    BY <1>n, <1>2, <1>4, <1>7, <1>10, <2>1, <2>2
  <2> QED BY <1>1, <1>n, <1>3, <2>1, <2>3
<1>17. CASE UNCHANGED <<server, late>> /\ f <= f1 /\ ~Reload(t) /\ ~Disconnect
  <2>1. a1 = a /\ l1 = l /\ o1 <= o /\ k1 <= k
    BY <1>4, <1>5, <1>7, <1>10, <1>17
  <2> QED BY <1>1, <1>n, <1>3, <1>17, <2>1
<1>18. f <= f1
  <2>1. f1 = f \/ f1 = f + 1
    <3>1. \A u \in Tabs : u = t
      BY DEF OneTab
    <3>2. CASE Cashier \/ Connect \/ (\E r \in BagToSet(late) : ServeLate(r)) \/ UNCHANGED vars
      BY <1>p, <3>2 DEF Cashier, SellOffline, PaySale, PayBill, Enqueue, DiscardFailed, RetryRead, Connect, ServeLate, vars
    <3>3. CASE Work(t) \/ Reopen(t)
      BY <1>p, <3>3 DEF Work, Reopen, List, Finish, Send, Bump, MarkFailed, RelinkRead, RelinkWrite, RemoveCommand, RetryWrite
    <3>4. CASE Exchange(t) \/ Reload(t) \/ Disconnect
      BY <1>p, <3>4 DEF Exchange, NetworkError, Accepted, Rejected, Conflicted, ServerError, Reload, Disconnect, Mishap
    <3> QED BY <3>1, <3>2, <3>3, <3>4 DEF Next
  <2> QED BY <1>1, <2>1
<1> QED BY <1>12, <1>13, <1>14, <1>15, <1>16, <1>17, <1>18, <1>0, Requests

\* An order for every sale, and those the failures have paid for.
CountsInv ==
  /\ PageInv /\ LateInv
  /\ \A t \in Tabs, s \in Sales : OrderRefs(t, s) /\ CountInv(t, s)

LEMMA CountsInit ==
  ASSUME Init
  PROVE  CountsInv
<1>1. PageInv /\ TypeOK
  BY PageInvInit DEF PageInv
<1>2. LateInv /\ \A s \in Sales : Abandoned(s) = 0
  BY DEF Init, LateInv, Abandoned, EmptyBag, SetToBag, BagToSet
<1>3. ASSUME NEW t \in Tabs, NEW s \in Sales
      PROVE  OrderRefs(t, s) /\ CountInv(t, s)
  <2>1. Hand(t) = {} /\ retry[t] = Gone /\ OrderOf(s) \in Commands /\ queue[OrderOf(s)] = Gone /\ online
    BY Resting, GroupsAreTold DEF Init, Hand
  <2>2. Made(s) = {}
    <3>1. s \notin Bills
      BY SalesAreNotBills
    <3>2. Cardinality(Bills) \in Nat /\ \E g \in [1..Cardinality(Bills) -> Bills] : IsInjective(g)
      BY BillsAreFinite, FS_CardinalityType DEF ExistsBijection, Bijection, Injection
    <3>3. SetToSeq(Bills) \in [1..Cardinality(Bills) -> Bills]
      BY <3>2 DEF SetToSeq
    <3>4. Len(SetToSeq(Bills)) = Cardinality(Bills)
      BY <3>2, <3>3, LenProperties, SeqDef
    <3> QED BY <3>1, <3>3, <3>4 DEF Init, Made, OrderIds
  <2>3. Cardinality(Made(s)) = 0
    BY <2>2, FS_EmptySet
  <2>4. One(Credit(t, s)) = 0 /\ One(Open(t, s)) \in {0, 1} /\ failures = 0
    BY <2>1 DEF One, Credit, Init
  <2>5. OrderRefs(t, s)
    BY <2>1 DEF OrderRefs
  <2> QED BY <1>2, <2>3, <2>4, <2>5 DEF CountInv
<1> QED BY <1>1, <1>2, <1>3 DEF CountsInv

\* However often a command is resent, retried by hand or relinked, a page that
\* works alone has the server make an order twice only when a connection broke, the
\* server failed or the page was reloaded, and then once for each such failure; a
\* bill is never opened a second time (offline-queue.ts:9-10,216-243; the order
\* command of ops/command/route.ts looks up no key).
THEOREM OneTabRepeatsByFailure == OneTab /\ Spec => []TwiceOnlyByFailure
<1> DEFINE Inv == OneTab /\ CountsInv
<1>1. OneTab /\ Init => Inv
  BY CountsInit
<1>2. Inv /\ [Next]_vars => Inv'
  <2> SUFFICES ASSUME Inv, [Next]_vars PROVE Inv'
    OBVIOUS
  <2>1. PageInv' /\ TypeOK'
    BY PageInvStep DEF CountsInv, PageInv
  <2>2. LateInv'
    BY LateStep DEF CountsInv, OneTab
  <2>3. ASSUME NEW t \in Tabs, NEW s \in Sales
        PROVE  OrderRefs(t, s)' /\ CountInv(t, s)'
    BY <2>1, CountStep, OrderRefsStep DEF CountsInv, PageInv, HandsInv
  <2> QED BY <2>1, <2>2, <2>3 DEF CountsInv
<1>3. Inv => TwiceOnlyByFailure
  <2> SUFFICES ASSUME Inv, NEW g \in Groups
               PROVE  Cardinality({o \in OrderIds : origin[o] = g}) <= 1 + failures
    BY DEF TwiceOnlyByFailure
  <2>1. TypeOK /\ failures \in Nat /\ Made(g) = {o \in OrderIds : origin[o] = g}
    BY DEF CountsInv, PageInv, TypeOK, Made
  <2>2. Cardinality(Made(g)) \in Nat /\ IsFiniteSet(Made(g))
    BY <2>1, MadeType
  <2>3. CASE g \in Sales
    <3>1. PICK t \in Tabs : TRUE
      BY DEF OneTab
    <3>2. Cardinality(Made(g)) + Abandoned(g) + One(Open(t, g)) + One(Credit(t, g)) <= 1 + failures
      BY <2>3 DEF CountsInv, CountInv
    <3>3. Abandoned(g) \in Nat /\ One(Open(t, g)) \in {0, 1} /\ One(Credit(t, g)) \in {0, 1}
      BY AbandonedType DEF CountsInv, One
    <3> QED BY <2>1, <2>2, <3>2, <3>3
  <2>4. CASE g \in Bills
    <3>1. \A o, i \in Made(g) : o = i
      BY <2>4 DEF CountsInv, PageInv, RowsInv, Made
    <3>2. CASE Made(g) = {}
      BY <2>1, <3>2, FS_EmptySet
    <3>3. CASE Made(g) # {}
      <4>1. PICK o : Made(g) = {o}
        BY <3>1, <3>3
      <4> QED BY <2>1, <4>1, FS_Singleton
    <3> QED BY <3>2, <3>3
  <2> QED BY <2>3, <2>4 DEF Groups
<1> QED BY <1>1, <1>2, <1>3, PTL DEF Spec
=============================================================================
