-------------------------- MODULE BranchSyncProofs ---------------------------
(***************************************************************************)
(* What holds of the branch lease and of the feed of changes for any number *)
(* of devices, readers, requests and rows, and any size of batch and page.  *)
(***************************************************************************)
EXTENDS BranchSync, FiniteSetTheorems, SequenceTheorems, WellFoundedInduction, TLAPS

-----------------------------------------------------------------------------
(* Pages of the feed. *)

\* A set of numbers that is not empty and has a bound has a greatest one.
LEMMA GreatestNumber ==
  ASSUME NEW m \in Nat, NEW S \in SUBSET (0..m), S # {}
  PROVE  Max(S) \in S /\ \A x \in S : x <= Max(S)
<1> DEFINE T == {m - x : x \in S}
           R == OpToRel(<, Nat)
<1>1. T \in SUBSET Nat /\ T # {}
  <2>1. \A x \in S : m - x \in Nat
    OBVIOUS
  <2>2. PICK x \in S : TRUE
    OBVIOUS
  <2>3. m - x \in T
    BY <2>2
  <2> QED BY <2>1, <2>3
<1>2. PICK t \in T : \A u \in T : <<u, t>> \notin R
  BY <1>1, NatLessThanWellFounded, WFMin, Zenon
<1>3. \A u \in T : ~(u < t)
  BY <1>1, <1>2 DEF OpToRel
<1>4. PICK x \in S : t = m - x
  OBVIOUS
<1>5. \A y \in S : x >= y
  <2> TAKE y \in S
  <2>1. ~(m - y < m - x)
    BY <1>3, <1>4
  <2> QED BY <2>1
<1>6. Max(S) \in S /\ \A y \in S : Max(S) >= y
  BY <1>5, Zenon DEF Max
<1> QED BY <1>6

LEMMA LogType ==
  ASSUME TypeOK
  PROVE  /\ DOMAIN log = 1..Len(log) /\ Len(log) \in Nat /\ Len(log) <= MaxEvents /\ MaxEvents \in Nat
         /\ \A n : After(n) \in SUBSET (1..MaxEvents)
         /\ \A s \in DOMAIN log : log[s] \in Event
<1>1. DOMAIN log = 1..Len(log) /\ Len(log) \in Nat /\ Len(log) <= MaxEvents /\ MaxEvents \in Nat
  BY SyncAssumption DEF TypeOK
<1>2. \A s \in DOMAIN log : log[s] \in Event
  BY <1>1 DEF TypeOK
<1> QED BY <1>1, <1>2 DEF After

\* What is read of the log lies after the cursor and within the log.
LEMMA PageType ==
  ASSUME TypeOK, NEW d \in Readers
  PROVE  /\ NextPage(cursor[d]) \in SUBSET (1..MaxEvents)
         /\ NewCursor(cursor[d]) \in 0..MaxEvents
         /\ NextPage(cursor[d]) # {} => NewCursor(cursor[d]) \in NextPage(cursor[d])
         /\ \A s \in NextPage(cursor[d]) : s <= NewCursor(cursor[d])
<1>1. NextPage(cursor[d]) \in SUBSET (1..MaxEvents)
  BY LogType DEF NextPage
<1>2. MaxEvents \in Nat /\ cursor[d] \in 0..MaxEvents
  BY SyncAssumption DEF TypeOK
<1>3. CASE NextPage(cursor[d]) = {}
  BY <1>1, <1>2, <1>3 DEF NewCursor
<1>4. CASE NextPage(cursor[d]) # {}
  <2>1. NextPage(cursor[d]) \in SUBSET (0..MaxEvents)
    BY <1>1, <1>2
  <2>2. /\ Max(NextPage(cursor[d])) \in NextPage(cursor[d])
        /\ \A s \in NextPage(cursor[d]) : s <= Max(NextPage(cursor[d]))
    BY <1>2, <1>4, <2>1, GreatestNumber
  <2>3. NewCursor(cursor[d]) = Max(NextPage(cursor[d]))
    BY <1>4 DEF NewCursor
  <2> QED BY <1>1, <1>4, <2>1, <2>2, <2>3
<1> QED BY <1>1, <1>3, <1>4

\* A page has no gaps: what comes before one of its events is on it too.
LEMMA PageHasNoGaps ==
  ASSUME TypeOK, NEW n \in Nat, NEW t \in NextPage(n), NEW s \in After(n), s <= t
  PROVE  s \in NextPage(n)
<1> DEFINE Before(x) == {e \in After(n) : e < x}
<1>1. After(n) \in SUBSET (1..MaxEvents)
  BY LogType
<1>2. IsFiniteSet(After(n))
  <2>1. IsFiniteSet(1..MaxEvents)
    BY SyncAssumption, FS_Interval
  <2> QED BY <1>1, <2>1, FS_Subset
<1>3. Before(s) \subseteq Before(t) /\ Before(t) \subseteq After(n)
  BY <1>1, SyncAssumption DEF NextPage
<1>4. Cardinality(Before(s)) <= Cardinality(Before(t)) /\ Cardinality(Before(s)) \in Nat /\ Cardinality(Before(t)) \in Nat
  BY <1>2, <1>3, FS_Subset, FS_CardinalityType
<1>5. Cardinality(Before(t)) < Page
  BY DEF NextPage
<1>6. Cardinality(Before(s)) < Page
  BY <1>4, <1>5, SyncAssumption
<1> QED BY <1>6 DEF NextPage

-----------------------------------------------------------------------------
(* Types. *)

\* A request that begins, goes on or ends is well formed.
LEMMA BeginType ==
  ASSUME TypeOK, NEW r \in Requests, NEW pc \in {"acquire", "renew", "release", "push"},
         NEW d \in Devices, NEW t \in 0..MaxTokens, NEW n \in 0..Batch, Begin(r, pc, d, t, n)
  PROVE  req' \in [Requests -> Done \cup Work]
<1> DEFINE w == [pc |-> pc, dev |-> d, tok |-> t, todo |-> n, seq |-> 0,
                 saw |-> IF pc = "acquire" THEN lock ELSE None]
<1>1. w \in Work
  BY SyncAssumption DEF TypeOK, Work
<1> QED BY <1>1 DEF Begin, TypeOK

LEMMA FinishType ==
  ASSUME TypeOK, NEW r \in Requests, Finish(r)
  PROVE  req' \in [Requests -> Done \cup Work]
BY DEF Finish, TypeOK, Idle, Done

\* A request at work has the fields of one.
LEMMA AtWork ==
  ASSUME TypeOK, NEW r \in Requests, req[r].pc # "idle"
  PROVE  req[r] \in Work
BY DEF TypeOK, Done

LEMMA TypeInit == Init => TypeOK
BY SyncAssumption DEF Init, TypeOK, Idle, Done

\* Each step of a request on the lease keeps the types.
LEMMA LeaseType ==
  ASSUME TypeOK, NEW r \in Requests,
         AcquireWrite(r) \/ RenewWrite(r) \/ ReleaseWrite(r)
  PROVE  TypeOK'
<1>1. req[r] \in Work
  BY AtWork DEF AcquireWrite, RenewWrite, ReleaseWrite
<1>2. req[r].dev \in Devices
  BY <1>1 DEF Work
<1>3. CASE AcquireWrite(r)
  <2>1. tokens + 1 \in Tokens /\ tokens + 1 \in 0..MaxTokens
    BY <1>3, SyncAssumption DEF AcquireWrite, TypeOK, Tokens
  <2>2. lock' \in Lock /\ tokens' \in 0..MaxTokens
    BY <1>2, <1>3, <2>1 DEF AcquireWrite, Lock
  <2>3. held' \in [Devices -> 0..MaxTokens]
    BY <1>2, <1>3, <2>1 DEF AcquireWrite, TypeOK
  <2>4. retired' \subseteq Tokens
    BY <1>3 DEF AcquireWrite, TypeOK, Lock
  <2>5. req' \in [Requests -> Done \cup Work]
    BY <1>3, FinishType DEF AcquireWrite
  <2> QED BY <1>3, <2>2, <2>3, <2>4, <2>5 DEF AcquireWrite, TypeOK, feed
<1>4. CASE RenewWrite(r)
  <2>1. lock' \in Lock \cup {None}
    <3>1. CASE lock = None
      BY <1>4, <3>1 DEF RenewWrite, Mine
    <3>2. CASE lock \in Lock
      BY <1>4, <3>2 DEF RenewWrite, Lock
    <3> QED BY <3>1, <3>2 DEF TypeOK
  <2>2. req' \in [Requests -> Done \cup Work]
    BY <1>4, FinishType DEF RenewWrite
  <2> QED BY <1>4, <2>1, <2>2 DEF RenewWrite, TypeOK, feed
<1>5. CASE ReleaseWrite(r)
  <2>1. lock' \in Lock \cup {None}
    <3>1. CASE lock = None
      BY <1>5, <3>1 DEF ReleaseWrite, Mine
    <3>2. CASE lock \in Lock
      BY <1>5, <3>2 DEF ReleaseWrite, Lock
    <3> QED BY <3>1, <3>2 DEF TypeOK
  <2>2. req' \in [Requests -> Done \cup Work]
    BY <1>5, FinishType DEF ReleaseWrite
  <2> QED BY <1>5, <2>1, <2>2 DEF ReleaseWrite, TypeOK, feed
<1> QED BY <1>3, <1>4, <1>5

-----------------------------------------------------------------------------
(* Transactions.  A request that has a transaction open has a command to     *)
(* count down and an event of its own, which nobody else ends.               *)

Committing(r) == req[r].pc = "commit"

EventsOpen ==
  \A r \in Requests : Committing(r) =>
    /\ req[r].todo > 0 /\ req[r].seq \in DOMAIN log /\ log[req[r].seq].state = "open"
    /\ \A q \in Requests : Committing(q) /\ req[q].seq = req[r].seq => q = r

\* What Execute and EndTransaction do to the log.
LEMMA LogGrows ==
  ASSUME TypeOK, NEW r \in Requests, Execute(r)
  PROVE  /\ log' \in Seq(Event) /\ Len(log') = Len(log) + 1 /\ DOMAIN log' = 1..(Len(log) + 1)
         /\ \A s \in DOMAIN log : log'[s] = log[s]
         /\ log'[Len(log) + 1].state = "open"
<1>1. PICK x \in Entities : log' = Append(log, [on |-> x, state |-> "open"])
  BY DEF Execute
<1> DEFINE e == [on |-> x, state |-> "open"]
<1>2. e \in Event /\ e.state = "open"
  BY DEF Event
<1>3. log \in Seq(Event) /\ log' = Append(log, e)
  BY <1>1 DEF TypeOK
<1> HIDE DEF e
<1>4. /\ log' \in Seq(Event) /\ Len(log') = Len(log) + 1
      /\ \A s \in 1..Len(log) : log'[s] = log[s]
      /\ log'[Len(log) + 1] = e
  BY <1>2, <1>3
<1> QED BY <1>2, <1>3, <1>4, LenProperties

\* Numbers that count alike are the same.
LEMMA SameBound ==
  ASSUME NEW m \in Nat, NEW n \in Nat, 1..m = 1..n
  PROVE  m = n
<1>1. m = 0 \/ m \in 1..n
  OBVIOUS
<1>2. n = 0 \/ n \in 1..m
  OBVIOUS
<1>3. m = 0 => n = 0
  BY <1>2
<1>4. n = 0 => m = 0
  BY <1>1
<1> QED BY <1>1, <1>2, <1>3, <1>4

\* A log with one event replaced.
LEMMA LogWith ==
  ASSUME NEW S, NEW l \in Seq(S), NEW s \in 1..Len(l), NEW e \in S
  PROVE  [l EXCEPT ![s] = e] \in Seq(S)
BY ExceptSeq

\* What the end of a transaction does to the log.
LEMMA LogEnds ==
  ASSUME TypeOK, EventsOpen, NEW r \in Requests, EndTransaction(r)
  PROVE  /\ log' \in Seq(Event) /\ Len(log') = Len(log) /\ DOMAIN log' = DOMAIN log
         /\ req[r].seq \in DOMAIN log /\ log[req[r].seq].state = "open"
         /\ \A s \in DOMAIN log : s # req[r].seq => log'[s] = log[s]
         /\ \/ log'[req[r].seq].state = "committed" /\ passed' = passed \cup OpenBefore(req[r].seq)
            \/ log'[req[r].seq].state = "rolled back" /\ passed' = passed
<1> DEFINE s == req[r].seq
<1>1. s \in DOMAIN log /\ log[s].state = "open"
  BY DEF EventsOpen, Committing, EndTransaction
<1>2. PICK state \in {"committed", "rolled back"} :
        /\ log' = [log EXCEPT ![s].state = state]
        /\ \/ state = "committed" /\ passed' = passed \cup OpenBefore(s)
           \/ state = "rolled back" /\ passed' = passed
  BY DEF EndTransaction
<1> DEFINE e == [log[s] EXCEPT !.state = state]
<1>3. e \in Event /\ e.state = state
  BY <1>1, LogType DEF Event
<1>4. log' = [log EXCEPT ![s] = e] /\ log \in Seq(Event) /\ s \in 1..Len(log)
  BY <1>1, <1>2, LogType DEF TypeOK
<1>5. e \in Event
  BY <1>3
<1> HIDE DEF e, s
<1>6. log' \in Seq(Event)
  BY <1>4, <1>5, LogWith
<1>7. /\ DOMAIN log' = DOMAIN log /\ DOMAIN log' = 1..Len(log') /\ DOMAIN log = 1..Len(log)
      /\ Len(log) \in Nat /\ Len(log') \in Nat
  <2>1. DOMAIN log' = DOMAIN log
    BY <1>4
  <2> QED BY <1>4, <1>6, <2>1, LenProperties
<1>8. Len(log') = Len(log)
  <2>1. 1..Len(log') = 1..Len(log)
    BY <1>7
  <2> QED BY <1>7, <2>1, SameBound
<1>9. \A t \in DOMAIN log : log'[t] = IF t = s THEN e ELSE log[t]
  BY <1>4, <1>7
<1> QED BY <1>1, <1>2, <1>3, <1>6, <1>7, <1>8, <1>9 DEF s

\* So do the commands of a batch.
LEMMA CommandType ==
  ASSUME TypeOK, EventsOpen, NEW r \in Requests, Execute(r) \/ Skip(r) \/ EndTransaction(r)
  PROVE  TypeOK'
<1>1. req[r] \in Work
  BY AtWork DEF Execute, Skip, EndTransaction
<1>2. Len(log) \in Nat /\ Len(log) <= MaxEvents /\ MaxEvents \in Nat
  BY LogType
<1>3. CASE Execute(r)
  <2>1. Len(log) + 1 \in 0..MaxEvents
    BY <1>2, <1>3 DEF Execute
  <2>2. [req[r] EXCEPT !.pc = "commit", !.seq = Len(log) + 1] \in Work
    BY <1>1, <2>1 DEF Work
  <2>3. req' \in [Requests -> Done \cup Work]
    BY <1>3, <2>2 DEF Execute, TypeOK
  <2>4. log' \in Seq(Event) /\ Len(log') <= MaxEvents
    BY <1>2, <1>3, <2>1, LogGrows
  <2>5. UNCHANGED <<lock, tokens, held, cursor, seen, passed, retired>>
    BY <1>3 DEF Execute, lease
  <2> QED BY <2>3, <2>4, <2>5 DEF TypeOK
<1>4. CASE Skip(r)
  <2>1. [req[r] EXCEPT !.todo = @ - 1] \in Work
    BY <1>1, <1>4, SyncAssumption DEF Skip, Work
  <2>2. req' \in [Requests -> Done \cup Work]
    BY <1>4, <2>1 DEF Skip, TypeOK
  <2> QED BY <1>4, <2>2 DEF Skip, TypeOK, lease, feed
<1>5. CASE EndTransaction(r)
  <2>1. passed' \subseteq 1..MaxEvents
    <3>0. req[r].seq \in 1..Len(log)
      BY <1>5, LogEnds, LogType
    <3>1. OpenBefore(req[r].seq) \subseteq 1..MaxEvents
      BY <1>2, <3>0 DEF OpenBefore
    <3> QED BY <1>5, <3>1, LogEnds DEF TypeOK
  <2>2. req[r].todo > 0 /\ req[r].todo \in 0..Batch
    BY <1>1, <1>5 DEF EventsOpen, Committing, EndTransaction, Work
  <2>3. req[r].todo - 1 \in 0..Batch /\ 0 \in 0..MaxEvents
    BY <1>2, <2>2, SyncAssumption
  <2>4. [req[r] EXCEPT !.pc = "push", !.todo = @ - 1, !.seq = 0] \in Work
    BY <1>1, <2>3 DEF Work
  <2>5. req' \in [Requests -> Done \cup Work]
    BY <1>5, <2>4 DEF EndTransaction, TypeOK
  <2> QED BY <1>2, <1>5, <2>1, <2>5, LogEnds DEF EndTransaction, TypeOK, lease
<1> QED BY <1>3, <1>4, <1>5

\* So does every other step of a request.
LEMMA OtherType ==
  ASSUME TypeOK, NEW r \in Requests, NEW d \in Devices,
         \/ AcquireRead(r, d) \/ RenewRead(r, d) \/ ReleaseRead(r, d)
         \/ PushBegin(r, d) \/ OnlineBegin(r, d) \/ GiveUp(r) \/ PushEnd(r)
  PROVE  TypeOK'
<1>1. held[d] \in 0..MaxTokens /\ 0 \in 0..MaxTokens /\ {0, 1, Batch} \subseteq 0..Batch
  BY SyncAssumption DEF TypeOK
<1>2. req' \in [Requests -> Done \cup Work]
  BY <1>1, BeginType, FinishType DEF AcquireRead, RenewRead, ReleaseRead, PushBegin, OnlineBegin, GiveUp, PushEnd
<1>3. UNCHANGED <<lock, tokens, held, log, cursor, seen, passed, retired>>
  BY DEF AcquireRead, RenewRead, ReleaseRead, PushBegin, OnlineBegin, GiveUp, PushEnd, lease, feed
<1> QED BY <1>2, <1>3 DEF TypeOK

LEMMA LapseType ==
  ASSUME TypeOK, Lapse
  PROVE  TypeOK'
<1>1. lock \in Lock /\ lock' = [lock EXCEPT !.lapsed = TRUE]
  BY DEF Lapse, TypeOK
<1>2. lock' \in Lock
  BY <1>1 DEF Lock
<1> QED BY <1>2 DEF Lapse, TypeOK, feed

LEMMA PullType ==
  ASSUME TypeOK, NEW d \in Readers, Pull(d)
  PROVE  TypeOK'
<1>1. cursor' \in [Readers -> 0..MaxEvents] /\ seen' \in [Readers -> SUBSET (1..MaxEvents)]
  BY PageType DEF Pull, TypeOK
<1> QED BY <1>1 DEF Pull, TypeOK, lease

LEMMA TypeStep == TypeOK /\ EventsOpen /\ [Next]_vars => TypeOK'
<1> SUFFICES ASSUME TypeOK, EventsOpen, [Next]_vars PROVE TypeOK'
  OBVIOUS
<1>1. CASE UNCHANGED vars
  BY <1>1 DEF TypeOK, vars
<1>2. CASE Lapse
  BY <1>2, LapseType
<1>3. ASSUME NEW r \in Requests, NEW d \in Devices,
             \/ AcquireRead(r, d) \/ RenewRead(r, d) \/ ReleaseRead(r, d)
             \/ PushBegin(r, d) \/ OnlineBegin(r, d)
      PROVE  TypeOK'
  BY <1>3, OtherType
<1>4. ASSUME NEW r \in Requests, Handle(r)
      PROVE  TypeOK'
  <2>1. CASE GiveUp(r) \/ PushEnd(r)
    <3>1. req' \in [Requests -> Done \cup Work]
      BY <2>1, FinishType DEF GiveUp, PushEnd
    <3> QED BY <2>1, <3>1 DEF GiveUp, PushEnd, TypeOK, lease, feed
  <2>2. CASE AcquireWrite(r) \/ RenewWrite(r) \/ ReleaseWrite(r)
    BY <2>2, LeaseType
  <2>3. CASE Execute(r) \/ Skip(r) \/ EndTransaction(r)
    BY <2>3, CommandType
  <2> QED BY <1>4, <2>1, <2>2, <2>3 DEF Handle
<1>5. ASSUME NEW d \in Readers, Pull(d)
      PROVE  TypeOK'
  BY <1>5, PullType
<1> QED BY <1>1, <1>2, <1>3, <1>4, <1>5 DEF Next

-----------------------------------------------------------------------------
(* Open transactions. *)

\* A step that leaves the log alone and starts no transaction.
LEMMA NoTransaction ==
  ASSUME EventsOpen, log' = log,
         \A q \in Requests : Committing(q)' => req'[q] = req[q]
  PROVE  EventsOpen'
<1>1. \A q \in Requests : Committing(q)' => Committing(q) /\ req'[q].seq = req[q].seq /\ req'[q].todo = req[q].todo
  BY DEF Committing
<1>2. \A q \in Requests : Committing(q) =>
        req[q].todo > 0 /\ req[q].seq \in DOMAIN log /\ log[req[q].seq].state = "open"
  BY DEF EventsOpen
<1>3. \A q, p \in Requests : Committing(q) /\ Committing(p) /\ req[p].seq = req[q].seq => p = q
  BY DEF EventsOpen
<1>4. \A q \in Requests : Committing(q)' =>
        req'[q].todo > 0 /\ req'[q].seq \in DOMAIN log' /\ log'[req'[q].seq].state = "open"
  BY <1>1, <1>2
<1>5. \A q, p \in Requests : Committing(q)' /\ Committing(p)' /\ req'[p].seq = req'[q].seq => p = q
  BY <1>1, <1>3
<1> QED BY <1>4, <1>5 DEF EventsOpen, Committing

\* What a handler changes of the requests is its own.
LEMMA OwnRequest ==
  ASSUME TypeOK, NEW r \in Requests, NEW w, req' = [req EXCEPT ![r] = w]
  PROVE  req'[r] = w /\ \A q \in Requests : q # r => req'[q] = req[q]
BY DEF TypeOK

LEMMA BeginOpen ==
  ASSUME TypeOK, EventsOpen, log' = log, NEW r \in Requests,
         NEW pc \in {"acquire", "renew", "release", "push"}, NEW d, NEW t, NEW n, Begin(r, pc, d, t, n)
  PROVE  EventsOpen'
<1> DEFINE w == [pc |-> pc, dev |-> d, tok |-> t, todo |-> n, seq |-> 0,
                 saw |-> IF pc = "acquire" THEN lock ELSE None]
<1>0. w.pc = pc /\ req' = [req EXCEPT ![r] = w]
  BY DEF Begin
<1> HIDE DEF w
<1>1. req'[r].pc = pc /\ \A q \in Requests : q # r => req'[q] = req[q]
  BY <1>0, OwnRequest
<1>2. \A q \in Requests : Committing(q)' => req'[q] = req[q]
  BY <1>1 DEF Committing
<1> QED BY <1>2, NoTransaction

LEMMA FinishOpen ==
  ASSUME TypeOK, EventsOpen, log' = log, NEW r \in Requests, Finish(r)
  PROVE  EventsOpen'
<1>1. req'[r] = Idle /\ \A q \in Requests : q # r => req'[q] = req[q]
  BY OwnRequest DEF Finish
<1>2. \A q \in Requests : Committing(q)' => req'[q] = req[q]
  BY <1>1 DEF Committing, Idle
<1> QED BY <1>2, NoTransaction

LEMMA CommandOpen ==
  ASSUME TypeOK, EventsOpen, NEW r \in Requests, Execute(r) \/ Skip(r) \/ EndTransaction(r)
  PROVE  EventsOpen'
<1>0. req[r] \in Work
  BY AtWork DEF Execute, Skip, EndTransaction
<1>1. \A q \in Requests : Committing(q) =>
        req[q].todo > 0 /\ req[q].seq \in DOMAIN log /\ log[req[q].seq].state = "open"
  BY DEF EventsOpen
<1>2. \A q, p \in Requests : Committing(q) /\ Committing(p) /\ req[p].seq = req[q].seq => p = q
  BY DEF EventsOpen
<1>3. CASE Execute(r)
  <2> DEFINE w == [req[r] EXCEPT !.pc = "commit", !.seq = Len(log) + 1]
  <2>1. req' = [req EXCEPT ![r] = w] /\ w.pc = "commit" /\ w.seq = Len(log) + 1 /\ w.todo = req[r].todo
    BY <1>0, <1>3 DEF Execute, Work
  <2> HIDE DEF w
  <2>2. /\ req'[r].pc = "commit" /\ req'[r].seq = Len(log) + 1 /\ req'[r].todo = req[r].todo
        /\ \A q \in Requests : q # r => req'[q] = req[q]
    BY <2>1, OwnRequest
  <2>3. req[r].todo > 0
    BY <1>3 DEF Execute
  <2>4. /\ DOMAIN log = 1..Len(log) /\ Len(log) \in Nat /\ DOMAIN log' = 1..(Len(log) + 1)
        /\ \A s \in DOMAIN log : log'[s] = log[s]
        /\ log'[Len(log) + 1].state = "open"
    BY <1>3, LogGrows, LogType
  <2>5. \A q \in Requests : q # r /\ Committing(q)' =>
          /\ Committing(q) /\ req'[q] = req[q] /\ req'[q].seq \in 1..Len(log)
    BY <1>1, <2>2, <2>4 DEF Committing
  <2>6. \A q \in Requests : Committing(q)' =>
          req'[q].todo > 0 /\ req'[q].seq \in DOMAIN log' /\ log'[req'[q].seq].state = "open"
    <3> SUFFICES ASSUME NEW q \in Requests, Committing(q)'
                 PROVE  req'[q].todo > 0 /\ req'[q].seq \in DOMAIN log' /\ log'[req'[q].seq].state = "open"
      OBVIOUS
    <3>1. CASE q = r
      BY <2>2, <2>3, <2>4, <3>1
    <3>2. CASE q # r
      BY <1>1, <2>4, <2>5, <3>2
    <3> QED BY <3>1, <3>2
  <2>7. \A q, p \in Requests : Committing(q)' /\ Committing(p)' /\ req'[p].seq = req'[q].seq => p = q
    <3> SUFFICES ASSUME NEW q \in Requests, NEW p \in Requests, Committing(q)', Committing(p)',
                        req'[p].seq = req'[q].seq, p # q
                 PROVE  FALSE
      OBVIOUS
    <3>1. CASE q # r /\ p # r
      BY <1>2, <2>5, <3>1
    <3>2. CASE q = r \/ p = r
      BY <2>2, <2>4, <2>5, <3>2
    <3> QED BY <3>1, <3>2
  <2> QED BY <2>6, <2>7 DEF EventsOpen, Committing
<1>4. CASE Skip(r)
  <2> DEFINE w == [req[r] EXCEPT !.todo = @ - 1]
  <2>1. log' = log /\ req' = [req EXCEPT ![r] = w] /\ w.pc = "push"
    BY <1>0, <1>4 DEF Skip, feed, Work
  <2> HIDE DEF w
  <2>2. req'[r].pc = "push" /\ \A q \in Requests : q # r => req'[q] = req[q]
    BY <2>1, OwnRequest
  <2>3. \A q \in Requests : Committing(q)' => req'[q] = req[q]
    BY <2>2 DEF Committing
  <2> QED BY <2>1, <2>3, NoTransaction
<1>5. CASE EndTransaction(r)
  <2> DEFINE w == [req[r] EXCEPT !.pc = "push", !.todo = @ - 1, !.seq = 0]
  <2>1. req' = [req EXCEPT ![r] = w] /\ w.pc = "push"
    BY <1>0, <1>5 DEF EndTransaction, Work
  <2> HIDE DEF w
  <2>2. req'[r].pc = "push" /\ \A q \in Requests : q # r => req'[q] = req[q]
    BY <2>1, OwnRequest
  <2>3. \A q \in Requests : Committing(q)' => Committing(q) /\ q # r /\ req'[q] = req[q]
    BY <2>2 DEF Committing
  <2>4. Committing(r)
    BY <1>5 DEF Committing, EndTransaction
  <2>5. DOMAIN log' = DOMAIN log /\ \A s \in DOMAIN log : s # req[r].seq => log'[s] = log[s]
    BY <1>5, LogEnds
  <2>6. \A q \in Requests : Committing(q)' =>
          req'[q].todo > 0 /\ req'[q].seq \in DOMAIN log' /\ log'[req'[q].seq].state = "open"
    <3> SUFFICES ASSUME NEW q \in Requests, Committing(q)'
                 PROVE  req'[q].todo > 0 /\ req'[q].seq \in DOMAIN log' /\ log'[req'[q].seq].state = "open"
      OBVIOUS
    <3>1. req[q].seq # req[r].seq
      BY <1>2, <2>3, <2>4
    <3> QED BY <1>1, <2>3, <2>5, <3>1
  <2>7. \A q, p \in Requests : Committing(q)' /\ Committing(p)' /\ req'[p].seq = req'[q].seq => p = q
    BY <1>2, <2>3
  <2> QED BY <2>6, <2>7 DEF EventsOpen, Committing
<1> QED BY <1>3, <1>4, <1>5

LEMMA OpenStep == TypeOK /\ EventsOpen /\ [Next]_vars => EventsOpen'
<1> SUFFICES ASSUME TypeOK, EventsOpen, [Next]_vars PROVE EventsOpen'
  OBVIOUS
<1>1. CASE UNCHANGED vars
  BY <1>1, NoTransaction DEF vars
<1>2. CASE Lapse
  BY <1>2, NoTransaction DEF Lapse, feed
<1>3. ASSUME NEW r \in Requests, NEW d \in Devices,
             \/ AcquireRead(r, d) \/ RenewRead(r, d) \/ ReleaseRead(r, d)
             \/ PushBegin(r, d) \/ OnlineBegin(r, d)
      PROVE  EventsOpen'
  BY <1>3, BeginOpen DEF AcquireRead, RenewRead, ReleaseRead, PushBegin, OnlineBegin, feed
<1>4. ASSUME NEW r \in Requests, Handle(r)
      PROVE  EventsOpen'
  <2>1. CASE GiveUp(r) \/ PushEnd(r) \/ AcquireWrite(r) \/ RenewWrite(r) \/ ReleaseWrite(r)
    BY <2>1, FinishOpen DEF GiveUp, PushEnd, AcquireWrite, RenewWrite, ReleaseWrite, feed
  <2>2. CASE Execute(r) \/ Skip(r) \/ EndTransaction(r)
    BY <2>2, CommandOpen
  <2> QED BY <1>4, <2>1, <2>2 DEF Handle
<1>5. ASSUME NEW d \in Readers, Pull(d)
      PROVE  EventsOpen'
  BY <1>5, NoTransaction DEF Pull
<1> QED BY <1>1, <1>2, <1>3, <1>4, <1>5 DEF Next

-----------------------------------------------------------------------------
(* Tokens of the lease. *)

TokensDrawn ==
  /\ retired \subseteq 1..tokens
  /\ lock # None => lock.tok \in 1..tokens /\ lock.tok \notin retired

\* A lease is asked for by a device that read it as free.
AskedWhenFree == \A r \in Requests : req[r].pc = "acquire" => Free(req[r].saw, req[r].dev)

\* Renewals, releases and time keep the token there is.
LEMMA TokenStays ==
  ASSUME TypeOK, Lapse \/ \E r \in Requests : RenewWrite(r) \/ ReleaseWrite(r)
  PROVE  /\ lock' # None => lock # None /\ lock'.tok = lock.tok
         /\ UNCHANGED <<tokens, retired>>
<1>1. CASE Lapse
  BY <1>1 DEF Lapse, TypeOK, Lock
<1>2. ASSUME NEW r \in Requests, RenewWrite(r)
      PROVE  /\ lock' # None => lock # None /\ lock'.tok = lock.tok
             /\ UNCHANGED <<tokens, retired>>
  BY <1>2 DEF RenewWrite, Mine, TypeOK, Lock
<1>3. ASSUME NEW r \in Requests, ReleaseWrite(r)
      PROVE  /\ lock' # None => lock # None /\ lock'.tok = lock.tok
             /\ UNCHANGED <<tokens, retired>>
  BY <1>3 DEF ReleaseWrite, Mine, TypeOK, Lock
<1> QED BY <1>1, <1>2, <1>3

\* Every other step but an acquisition leaves the lease alone.
LEMMA LeaseStays ==
  ASSUME [Next]_vars
  PROVE  \/ UNCHANGED <<lock, tokens, retired>>
         \/ Lapse
         \/ \E r \in Requests : RenewWrite(r) \/ ReleaseWrite(r)
         \/ \E r \in Requests : AcquireWrite(r)
BY DEF Next, vars, Handle, AcquireRead, RenewRead, ReleaseRead, PushBegin, OnlineBegin, GiveUp, PushEnd,
       Execute, Skip, EndTransaction, Pull, lease

LEMMA TokensStep == TypeOK /\ TokensDrawn /\ [Next]_vars => TokensDrawn'
<1> SUFFICES ASSUME TypeOK, TokensDrawn, [Next]_vars PROVE TokensDrawn'
  OBVIOUS
<1>1. CASE UNCHANGED <<lock, tokens, retired>>
  BY <1>1 DEF TokensDrawn
<1>2. CASE Lapse \/ \E r \in Requests : RenewWrite(r) \/ ReleaseWrite(r)
  BY <1>2, TokenStays DEF TokensDrawn
<1>3. ASSUME NEW r \in Requests, AcquireWrite(r)
      PROVE  TokensDrawn'
  <2>1. tokens \in Nat /\ tokens' = tokens + 1
    BY <1>3, SyncAssumption DEF AcquireWrite, TypeOK
  <2>2. retired' \subseteq 1..tokens
    BY <1>3 DEF AcquireWrite, TokensDrawn
  <2>3. lock'.tok = tokens + 1
    BY <1>3 DEF AcquireWrite
  <2> QED BY <2>1, <2>2, <2>3 DEF TokensDrawn
<1> QED BY <1>1, <1>2, <1>3, LeaseStays

\* A step after which no other request waits to write a lease than before.
LEMMA NoAsking ==
  ASSUME AskedWhenFree, \A q \in Requests : req'[q].pc = "acquire" => req'[q] = req[q]
  PROVE  AskedWhenFree'
BY DEF AskedWhenFree, Free, Running, Active

LEMMA BeginAsked ==
  ASSUME TypeOK, AskedWhenFree, NEW r \in Requests,
         NEW pc \in {"acquire", "renew", "release", "push"}, NEW d, NEW t, NEW n, Begin(r, pc, d, t, n),
         pc = "acquire" => Free(lock, d)
  PROVE  AskedWhenFree'
<1> DEFINE w == [pc |-> pc, dev |-> d, tok |-> t, todo |-> n, seq |-> 0,
                 saw |-> IF pc = "acquire" THEN lock ELSE None]
<1>1. w.pc = pc /\ w.dev = d /\ (pc = "acquire" => w.saw = lock) /\ req' = [req EXCEPT ![r] = w]
  BY DEF Begin
<1> HIDE DEF w
<1>2. req'[r] = w /\ \A q \in Requests : q # r => req'[q] = req[q]
  BY <1>1, OwnRequest
<1>3. CASE pc = "acquire"
  <2>1. Free(req'[r].saw, req'[r].dev)
    BY <1>1, <1>2, <1>3
  <2> QED BY <1>2, <2>1 DEF AskedWhenFree, Free, Running, Active
<1>4. CASE pc # "acquire"
  BY <1>1, <1>2, <1>4, NoAsking
<1> QED BY <1>3, <1>4

LEMMA FinishAsked ==
  ASSUME TypeOK, AskedWhenFree, NEW r \in Requests, Finish(r)
  PROVE  AskedWhenFree'
<1>1. req'[r] = Idle /\ \A q \in Requests : q # r => req'[q] = req[q]
  BY OwnRequest DEF Finish
<1> QED BY <1>1, NoAsking DEF Idle

LEMMA CommandAsked ==
  ASSUME TypeOK, AskedWhenFree, NEW r \in Requests, Execute(r) \/ Skip(r) \/ EndTransaction(r)
  PROVE  AskedWhenFree'
<1>1. req[r] \in Work
  BY AtWork DEF Execute, Skip, EndTransaction
<1>2. PICK w : req' = [req EXCEPT ![r] = w] /\ w.pc \in {"push", "commit"}
  <2>1. CASE Execute(r)
    <3>1. [req[r] EXCEPT !.pc = "commit", !.seq = Len(log) + 1].pc = "commit"
      BY <1>1 DEF Work
    <3> QED BY <2>1, <3>1 DEF Execute
  <2>2. CASE Skip(r)
    <3>1. [req[r] EXCEPT !.todo = @ - 1].pc = "push"
      BY <1>1, <2>2 DEF Skip, Work
    <3> QED BY <2>2, <3>1 DEF Skip
  <2>3. CASE EndTransaction(r)
    <3>1. [req[r] EXCEPT !.pc = "push", !.todo = @ - 1, !.seq = 0].pc = "push"
      BY <1>1 DEF Work
    <3> QED BY <2>3, <3>1 DEF EndTransaction
  <2> QED BY <2>1, <2>2, <2>3
<1>3. req'[r] = w /\ \A q \in Requests : q # r => req'[q] = req[q]
  BY <1>2, OwnRequest
<1> QED BY <1>2, <1>3, NoAsking

LEMMA AskedStep == TypeOK /\ AskedWhenFree /\ [Next]_vars => AskedWhenFree'
<1> SUFFICES ASSUME TypeOK, AskedWhenFree, [Next]_vars PROVE AskedWhenFree'
  OBVIOUS
<1>1. CASE UNCHANGED vars
  BY <1>1, NoAsking DEF vars
<1>2. CASE Lapse
  BY <1>2, NoAsking DEF Lapse
<1>3. ASSUME NEW r \in Requests, NEW d \in Devices,
             \/ AcquireRead(r, d) \/ RenewRead(r, d) \/ ReleaseRead(r, d)
             \/ PushBegin(r, d) \/ OnlineBegin(r, d)
      PROVE  AskedWhenFree'
  BY <1>3, BeginAsked DEF AcquireRead, RenewRead, ReleaseRead, PushBegin, OnlineBegin
<1>4. ASSUME NEW r \in Requests, Handle(r)
      PROVE  AskedWhenFree'
  <2>1. CASE GiveUp(r) \/ PushEnd(r) \/ AcquireWrite(r) \/ RenewWrite(r) \/ ReleaseWrite(r)
    BY <2>1, FinishAsked DEF GiveUp, PushEnd, AcquireWrite, RenewWrite, ReleaseWrite
  <2>2. CASE Execute(r) \/ Skip(r) \/ EndTransaction(r)
    BY <2>2, CommandAsked
  <2> QED BY <1>4, <2>1, <2>2 DEF Handle
<1>5. ASSUME NEW d \in Readers, Pull(d)
      PROVE  AskedWhenFree'
  BY <1>5, NoAsking DEF Pull
<1> QED BY <1>1, <1>2, <1>3, <1>4, <1>5 DEF Next

-----------------------------------------------------------------------------
(* The feed. *)

\* A cursor stands on a committed event, or before all of them.
CursorCommitted ==
  \A d \in Readers : cursor[d] = 0 \/ (cursor[d] \in DOMAIN log /\ log[cursor[d]].state = "committed")

\* What is open below a committed event was recorded when that was committed.
OvertakenPassed ==
  \A c, s \in DOMAIN log : s < c /\ log[s].state = "open" /\ log[c].state = "committed" => s \in passed

FeedInv == CursorCommitted /\ OvertakenPassed /\ SkipsOnlyOvertaken

LEMMA FeedExecute ==
  ASSUME TypeOK, FeedInv, NEW r \in Requests, Execute(r)
  PROVE  FeedInv'
<1>1. /\ DOMAIN log = 1..Len(log) /\ Len(log) \in Nat /\ DOMAIN log' = 1..(Len(log) + 1)
      /\ \A s \in DOMAIN log : log'[s] = log[s]
      /\ log'[Len(log) + 1].state = "open"
      /\ UNCHANGED <<cursor, seen, passed>>
  BY LogGrows, LogType DEF Execute
<1>2. CursorCommitted'
  BY <1>1 DEF FeedInv, CursorCommitted
<1>3. OvertakenPassed'
  BY <1>1 DEF FeedInv, OvertakenPassed
<1>4. SkipsOnlyOvertaken'
  BY <1>1 DEF FeedInv, SkipsOnlyOvertaken
<1> QED BY <1>2, <1>3, <1>4 DEF FeedInv

LEMMA FeedEnd ==
  ASSUME TypeOK, EventsOpen, FeedInv, NEW r \in Requests, EndTransaction(r)
  PROVE  FeedInv'
<1> DEFINE s == req[r].seq
<1>1. /\ DOMAIN log' = DOMAIN log /\ s \in DOMAIN log /\ log[s].state = "open"
      /\ \A t \in DOMAIN log : t # s => log'[t] = log[t]
      /\ \/ log'[s].state = "committed" /\ passed' = passed \cup OpenBefore(s)
         \/ log'[s].state = "rolled back" /\ passed' = passed
      /\ UNCHANGED <<cursor, seen>>
  BY LogEnds DEF EndTransaction
<1>2. DOMAIN log = 1..Len(log) /\ Len(log) \in Nat
  BY LogType
<1> HIDE DEF s
<1>3. CursorCommitted'
  BY <1>1 DEF FeedInv, CursorCommitted
<1>4. OvertakenPassed'
  <2> SUFFICES ASSUME NEW c \in DOMAIN log, NEW t \in DOMAIN log, t < c,
                      log'[t].state = "open", log'[c].state = "committed"
               PROVE  t \in passed'
    BY <1>1 DEF OvertakenPassed
  <2>1. t # s /\ log[t].state = "open"
    BY <1>1
  <2>2. CASE c = s
    <3>1. t \in OpenBefore(s)
      BY <1>2, <2>1, <2>2 DEF OpenBefore
    <3> QED BY <1>1, <2>2, <3>1
  <2>3. CASE c # s
    BY <1>1, <2>1, <2>3 DEF FeedInv, OvertakenPassed
  <2> QED BY <2>2, <2>3
<1>5. SkipsOnlyOvertaken'
  <2> SUFFICES ASSUME NEW d \in Readers, NEW t \in DOMAIN log,
                      log'[t].state = "committed", t <= cursor[d], t \notin seen[d]
               PROVE  t \in passed'
    BY <1>1 DEF SkipsOnlyOvertaken
  <2>1. CASE t # s
    BY <1>1, <2>1 DEF FeedInv, SkipsOnlyOvertaken
  <2>2. CASE t = s
    <3>1. cursor[d] \in DOMAIN log /\ log[cursor[d]].state = "committed"
      BY <1>2 DEF FeedInv, CursorCommitted
    <3>2. t # cursor[d]
      BY <1>1, <2>2, <3>1
    <3>3. t < cursor[d]
      BY <1>2, <3>1, <3>2
    <3> QED BY <1>1, <2>2, <3>1, <3>3 DEF FeedInv, OvertakenPassed
  <2> QED BY <2>1, <2>2
<1> QED BY <1>3, <1>4, <1>5 DEF FeedInv

LEMMA FeedPull ==
  ASSUME TypeOK, FeedInv, NEW d \in Readers, Pull(d)
  PROVE  FeedInv'
<1>1. /\ log' = log /\ passed' = passed
      /\ cursor'[d] = NewCursor(cursor[d]) /\ seen'[d] = seen[d] \cup NextPage(cursor[d])
      /\ \A e \in Readers : e # d => cursor'[e] = cursor[e] /\ seen'[e] = seen[e]
  BY DEF Pull, TypeOK
<1>2. /\ NewCursor(cursor[d]) \in NextPage(cursor[d])
      /\ NextPage(cursor[d]) \subseteq After(cursor[d])
  BY PageType DEF Pull, NextPage
<1>3. cursor'[d] \in DOMAIN log /\ log[cursor'[d]].state = "committed"
  BY <1>1, <1>2 DEF After
<1>4. CursorCommitted'
  BY <1>1, <1>3 DEF FeedInv, CursorCommitted
<1>5. OvertakenPassed'
  BY <1>1 DEF FeedInv, OvertakenPassed
<1>6. SkipsOnlyOvertaken'
  <2> SUFFICES ASSUME NEW e \in Readers, NEW s \in DOMAIN log,
                      log[s].state = "committed", s <= cursor'[e], s \notin seen'[e]
               PROVE  s \in passed
    BY <1>1 DEF SkipsOnlyOvertaken
  <2>1. CASE e # d
    BY <1>1, <2>1 DEF FeedInv, SkipsOnlyOvertaken
  <2>2. CASE e = d /\ s <= cursor[d]
    BY <1>1, <2>2 DEF FeedInv, SkipsOnlyOvertaken
  <2>3. CASE e = d /\ ~(s <= cursor[d])
    <3>1. cursor[d] \in Nat /\ s \in Nat
      BY LogType DEF TypeOK
    <3>2. s \in After(cursor[d]) /\ s <= NewCursor(cursor[d])
      BY <1>1, <2>3, <3>1 DEF After
    <3>3. s \in NextPage(cursor[d])
      BY <1>2, <3>1, <3>2, PageHasNoGaps
    <3> QED BY <1>1, <2>3, <3>3
  <2> QED BY <2>1, <2>2, <2>3
<1> QED BY <1>4, <1>5, <1>6 DEF FeedInv

LEMMA FeedStep == TypeOK /\ EventsOpen /\ FeedInv /\ [Next]_vars => FeedInv'
<1> SUFFICES ASSUME TypeOK, EventsOpen, FeedInv, [Next]_vars PROVE FeedInv'
  OBVIOUS
<1>1. \/ UNCHANGED feed
      \/ \E r \in Requests : Execute(r) \/ EndTransaction(r)
      \/ \E d \in Readers : Pull(d)
  BY DEF Next, vars, Handle, AcquireRead, RenewRead, ReleaseRead, PushBegin, OnlineBegin, GiveUp, PushEnd,
       Skip, feed, Lapse, AcquireWrite, RenewWrite, ReleaseWrite
<1>2. CASE UNCHANGED feed
  BY <1>2 DEF feed, FeedInv, CursorCommitted, OvertakenPassed, SkipsOnlyOvertaken
<1> QED BY <1>1, <1>2, FeedExecute, FeedEnd, FeedPull

-----------------------------------------------------------------------------
(* The inductive invariant, and what follows from it. *)

IInv == TypeOK /\ EventsOpen /\ TokensDrawn /\ AskedWhenFree /\ FeedInv

LEMMA Inductive == Spec => []IInv
<1>1. Init => IInv
  <2> SUFFICES ASSUME Init PROVE IInv
    OBVIOUS
  <2>1. \A r \in Requests : req[r].pc = "idle"
    BY DEF Init, Idle
  <2>2. EventsOpen /\ AskedWhenFree
    BY <2>1 DEF EventsOpen, AskedWhenFree, Committing
  <2>3. TokensDrawn
    BY DEF Init, TokensDrawn
  <2>4. FeedInv
    <3>1. \A s : s \notin DOMAIN log
      BY DEF Init
    <3> QED BY <3>1 DEF Init, FeedInv, CursorCommitted, OvertakenPassed, SkipsOnlyOvertaken
  <2> QED BY <2>2, <2>3, <2>4, TypeInit DEF IInv
<1>2. IInv /\ [Next]_vars => IInv'
  BY TypeStep, OpenStep, TokensStep, AskedStep, FeedStep DEF IInv
<1> QED BY <1>1, <1>2, PTL DEF Spec

\* Every request, lease row, event and cursor stays one the code can hold: no
\* batch counts below zero or ends a transaction that it did not begin.
THEOREM SyncTypes == Spec => []TypeOK
<1>1. IInv => TypeOK
  BY DEF IInv
<1> QED BY <1>1, Inductive, PTL

\* No renewal or release of an ousted device brings back a token that was
\* written over: tokens are drawn afresh (randomUUID in acquireBranchLock) and
\* conditional writes never change the token of the row.
THEOREM NoTokenReturns == Spec => []TokensNeverReturn
<1>1. IInv => TokensNeverReturn
  BY DEF IInv, TokensDrawn, TokensNeverReturn
<1> QED BY <1>1, Inductive, PTL

\* Only requests that carry the device and the token of the lease move it while
\* it keeps its token: the updates of renewBranchLock and releaseBranchLock name both.
THEOREM LeaseMovedByHolder == Spec => OnlyHolderMovesLease
<1> DEFINE Moves ==
      lock # None /\ lock' # None /\ lock'.tok = lock.tok /\ lock' # lock =>
       \/ lock' = [lock EXCEPT !.lapsed = TRUE]
       \/ \E r \in Requests : /\ req[r].pc \in {"renew", "release"} /\ req'[r] = Idle
                              /\ Mine(lock, req[r].dev, req[r].tok)
<1>1. IInv /\ [Next]_vars => [Moves]_vars
  <2> SUFFICES ASSUME IInv, [Next]_vars, lock # None, lock'.tok = lock.tok, lock' # lock
               PROVE  \/ lock' = [lock EXCEPT !.lapsed = TRUE]
                      \/ \E r \in Requests : /\ req[r].pc \in {"renew", "release"} /\ req'[r] = Idle
                                             /\ Mine(lock, req[r].dev, req[r].tok)
    OBVIOUS
  <2>1. CASE Lapse
    BY <2>1 DEF Lapse
  <2>2. ASSUME NEW r \in Requests, RenewWrite(r) \/ ReleaseWrite(r)
        PROVE  /\ req[r].pc \in {"renew", "release"} /\ req'[r] = Idle
               /\ Mine(lock, req[r].dev, req[r].tok)
    <3>1. req'[r] = Idle
      BY <2>2, OwnRequest DEF RenewWrite, ReleaseWrite, Finish, IInv
    <3> QED BY <2>2, <3>1 DEF RenewWrite, ReleaseWrite
  <2>3. ASSUME NEW r \in Requests, AcquireWrite(r)
        PROVE  FALSE
    <3>1. lock.tok \in 1..tokens /\ tokens \in Nat
      BY SyncAssumption DEF IInv, TypeOK, TokensDrawn
    <3>2. lock'.tok = tokens + 1
      BY <2>3 DEF AcquireWrite
    <3> QED BY <3>1, <3>2
  <2> QED BY <2>1, <2>2, <2>3, LeaseStays
<1> QED BY <1>1, Inductive, PTL DEF Spec, OnlyHolderMovesLease

\* A running lease goes to another device only if the row changed between the
\* two statements of acquireBranchLock, the read and the upsert.
THEOREM RunningLeaseKept == Spec => StealsOnlyByRace
<1> DEFINE Steals ==
      \A r \in Requests :
        req[r].pc = "acquire" /\ lock' # lock /\ req'[r] = Idle
        /\ Running(lock) /\ lock.dev # req[r].dev
        => req[r].saw # lock
<1>1. IInv /\ [Next]_vars => [Steals]_vars
  BY DEF IInv, AskedWhenFree, Free
<1> QED BY <1>1, Inductive, PTL DEF Spec, StealsOnlyByRace

\* A device that pages through the changes with its cursor (api/sync/pull)
\* misses only changes whose transaction was open when a later number was
\* committed, whatever the size of its pages and the length of the log.
THEOREM MissesOnlyOvertaken == Spec => []SkipsOnlyOvertaken
<1>1. IInv => SkipsOnlyOvertaken
  BY DEF IInv, FeedInv
<1> QED BY <1>1, Inductive, PTL
=============================================================================
