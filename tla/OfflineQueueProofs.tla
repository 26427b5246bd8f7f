------------------------- MODULE OfflineQueueProofs -------------------------
(***************************************************************************)
(* What holds of the offline queue for any number of pages, sales, bills,   *)
(* failures and retries by hand.                                            *)
(***************************************************************************)
EXTENDS OfflineQueue, FiniteSetTheorems, SequenceTheorems, TLAPS

-----------------------------------------------------------------------------
(* The log of the server and the line of commands grow at their ends. *)

LEMMA Longer ==
  ASSUME NEW S, NEW s \in Seq(S), NEW e \in S
  PROVE  /\ Append(s, e) \in Seq(S)
         /\ Len(s) \in Nat /\ Len(Append(s, e)) = Len(s) + 1
         /\ DOMAIN s = 1..Len(s) /\ DOMAIN Append(s, e) = 1..(Len(s) + 1)
         /\ \A i \in 1..Len(s) : Append(s, e)[i] = s[i]
         /\ Append(s, e)[Len(s) + 1] = e
         /\ ToSet(Append(s, e)) = ToSet(s) \cup {e}
<1>1. /\ Append(s, e) \in Seq(S)
      /\ Len(s) \in Nat /\ Len(Append(s, e)) = Len(s) + 1
      /\ DOMAIN s = 1..Len(s) /\ DOMAIN Append(s, e) = 1..(Len(s) + 1)
      /\ \A i \in 1..Len(s) : Append(s, e)[i] = s[i]
      /\ Append(s, e)[Len(s) + 1] = e
  BY LenProperties
<1>2. ToSet(Append(s, e)) = ToSet(s) \cup {e}
  BY <1>1 DEF ToSet
<1> QED BY <1>1, <1>2

LEMMA SeqOfMore ==
  ASSUME NEW S, NEW T, S \subseteq T, NEW s \in Seq(S)
  PROVE  s \in Seq(T)
<1>1. s \in [1..Len(s) -> S] /\ Len(s) \in Nat
  BY LenProperties
<1>2. s \in [1..Len(s) -> T]
  BY <1>1
<1> QED BY <1>1, <1>2, SeqDef

\* Orders and payments are kept as they were made.
Grown ==
  /\ origin' \in Seq(Groups) /\ payments' \in Seq([order : OrderIds', group : Groups])
  /\ Len(origin) <= Len(origin')
  /\ \A o \in OrderIds : o \in OrderIds' /\ origin'[o] = origin[o]
  /\ Len(payments) <= Len(payments')
  /\ \A i \in 1..Len(payments) : payments'[i] = payments[i]

LEMMA ServerKeeps ==
  ASSUME TypeOK, UNCHANGED server
  PROVE  Grown
BY DEF TypeOK, server, Grown, OrderIds

LEMMA ServerGrows ==
  ASSUME TypeOK, NEW r \in Request, Apply(r)
  PROVE  Grown
<1>1. /\ origin \in Seq(Groups) /\ Len(origin) \in Nat
      /\ payments \in Seq([order : OrderIds, group : Groups]) /\ Len(payments) \in Nat
      /\ r.cmd.group \in Groups
  BY DEF TypeOK, Request, Commands, OrderOf, PaymentOf, Groups
<1>2. CASE CreateOrder(r)
  <2>1. origin' = Append(origin, r.cmd.group) /\ payments' = payments
    BY <1>2 DEF CreateOrder
  <2>2. /\ origin' \in Seq(Groups) /\ Len(origin') = Len(origin) + 1
        /\ \A i \in 1..Len(origin) : origin'[i] = origin[i]
    BY <1>1, <2>1, Longer
  <2>3. OrderIds \subseteq OrderIds'
    BY <1>1, <2>2 DEF OrderIds
  <2>4. payments' \in Seq([order : OrderIds', group : Groups])
    <3>1. [order : OrderIds, group : Groups] \subseteq [order : OrderIds', group : Groups]
      BY <2>3
    <3> QED BY <1>1, <2>1, <3>1, SeqOfMore
  <2> QED BY <1>1, <2>1, <2>2, <2>3, <2>4 DEF Grown, OrderIds
<1>3. CASE TakePayment(r)
  <2>1. origin' = origin /\ OrderIds' = OrderIds
    BY <1>3 DEF TakePayment, OrderIds
  <2>2. [order |-> r.ref, group |-> r.cmd.group] \in [order : OrderIds, group : Groups]
    BY <1>1, <1>3 DEF TakePayment, Request
  <2>3. CASE payments' = payments
    BY <1>1, <2>1, <2>3 DEF Grown
  <2>4. CASE payments' = Append(payments, [order |-> r.ref, group |-> r.cmd.group])
    <3>1. /\ payments' \in Seq([order : OrderIds, group : Groups])
          /\ Len(payments') = Len(payments) + 1
          /\ \A i \in 1..Len(payments) : payments'[i] = payments[i]
      BY <1>1, <2>2, <2>4, Longer
    <3> QED BY <1>1, <2>1, <3>1 DEF Grown
  <2> QED BY <1>3, <2>3, <2>4 DEF TakePayment
<1> QED BY <1>2, <1>3 DEF Apply

-----------------------------------------------------------------------------
(* Types. *)

\* Ids stay ids, so what is stored, sent or remembered keeps its type.
LEMMA TypesGrow ==
  ASSUME TypeOK, Grown
  PROVE  /\ OrderIds \subseteq OrderIds' /\ Stored \subseteq Stored'
         /\ Request \subseteq Request' /\ Run \subseteq Run'
<1>1. OrderIds \subseteq OrderIds'
  BY DEF Grown
<1>2. Stored \subseteq Stored'
  BY <1>1 DEF Stored, Placeholder
<1>3. Request \subseteq Request'
  BY <1>1 DEF Request, Placeholder
<1>4. Run \subseteq Run'
  <2> SUFFICES ASSUME NEW r \in Run PROVE r \in Run'
    OBVIOUS
  <2>1. /\ r = [pc |-> r.pc, todo |-> r.todo, now |-> r.now, links |-> r.links, copy |-> r.copy]
        /\ r.pc \in PC /\ r.todo \subseteq Request /\ r.now \in Request \cup {Gone}
        /\ r.links \in [Sales -> {Placeholder} \cup OrderIds] /\ r.copy \in Stored \cup {Gone}
    BY DEF Run
  <2>2. r.links \in [Sales -> {Placeholder} \cup OrderIds']
    BY <1>1, <2>1
  <2> QED BY <1>2, <1>3, <2>1, <2>2 DEF Run, Placeholder
<1> QED BY <1>1, <1>2, <1>3, <1>4

LEMMA RunType ==
  ASSUME TypeOK, NEW t \in Tabs
  PROVE  /\ sync[t] \in Run /\ AtRest \in Run /\ Started \in Run
         /\ sync[t].pc \in PC /\ sync[t].todo \subseteq Request /\ sync[t].now \in Request \cup {Gone}
         /\ sync[t].links \in [Sales -> {Placeholder} \cup OrderIds]
         /\ sync[t].copy \in Stored \cup {Gone}
BY DEF TypeOK, Run, AtRest, Started, NoLinks, PC, Placeholder

\* A page that is at work on a command has one.
AtWork == {"wait", "relink", "put", "remove", "bump", "fail"}
HasCommand ==
  \A t \in Tabs : /\ sync[t].pc \in AtWork <=> sync[t].now # Gone
                  /\ sync[t].pc \in {"relink", "put"} => sync[t].now.cmd \in {OrderOf(s) : s \in Sales}
                  /\ sync[t].pc = "put" => sync[t].copy # Gone

LEMMA TypesStay ==
  ASSUME UNCHANGED server
  PROVE  OrderIds' = OrderIds /\ Stored' = Stored /\ Request' = Request /\ Run' = Run
BY DEF server, OrderIds, Stored, Request, Run

LEMMA RecordType ==
  ASSUME NEW r \in Request
  PROVE  /\ r.cmd \in Commands /\ r.ref \in {Placeholder} \cup OrderIds
         /\ Record("pending", r.ref) \in Stored /\ Record("failed", r.ref) \in Stored
         /\ r # Gone /\ Record("pending", r.ref) # Gone /\ Record("failed", r.ref) # Gone
<1>1. r.cmd \in Commands /\ r.ref \in {Placeholder} \cup OrderIds /\ r \in [cmd : Commands, ref : {Placeholder} \cup OrderIds]
  BY DEF Request
<1>2. Record("pending", r.ref) \in Stored /\ Record("failed", r.ref) \in Stored
  BY <1>1 DEF Record, Stored
<1>3. r \in [cmd : Commands, ref : Nat]
  BY <1>1 DEF OrderIds, Placeholder
<1>4. \A st \in {"pending", "failed"} : Record(st, r.ref) \in [status : {"pending", "failed"}, ref : Nat]
  BY <1>1 DEF Record, OrderIds, Placeholder
<1> QED BY <1>1, <1>2, <1>3, <1>4, GoneIsNothing

LEMMA StoredIsNotGone ==
  ASSUME NEW r \in Stored
  PROVE  r # Gone
<1>1. r \in [status : {"pending", "failed"}, ref : Nat]
  BY DEF Stored, OrderIds, Placeholder
<1> QED BY <1>1, GoneIsNothing

\* The request at hand, as it is stored and as it is sent.
LEMMA AtHand ==
  ASSUME TypeOK, HasCommand, NEW t \in Tabs, sync[t].pc \in AtWork
  PROVE  /\ This(t) \in Request /\ This(t).cmd \in Commands
         /\ Linked(t) \in Request /\ Linked(t).cmd = This(t).cmd
<1>1. This(t) \in Request /\ This(t).cmd \in Commands
  BY RunType DEF HasCommand, This, Request
<1>2. Linked(t) \in Request /\ Linked(t).cmd = This(t).cmd
  <2>1. CASE This(t).cmd.kind = "payment" /\ This(t).cmd.group \in Sales /\ This(t).ref = Placeholder
    <3>1. sync[t].links[This(t).cmd.group] \in {Placeholder} \cup OrderIds
      BY <2>1, RunType
    <3> QED BY <1>1, <2>1, <3>1 DEF Linked, Request
  <2>2. CASE ~(This(t).cmd.kind = "payment" /\ This(t).cmd.group \in Sales /\ This(t).ref = Placeholder)
    BY <1>1, <2>2 DEF Linked
  <2> QED BY <2>1, <2>2
<1> QED BY <1>1, <1>2

LEMMA InitType ==
  ASSUME Init
  PROVE  TypeOK /\ HasCommand
<1>1. origin \in Seq(Groups)
  <2>1. Cardinality(Bills) \in Nat /\ ExistsBijection(1..Cardinality(Bills), Bills)
    BY BillsAreFinite, FS_CardinalityType
  <2>2. \E f \in [1..Cardinality(Bills) -> Bills] : IsInjective(f)
    BY <2>1 DEF ExistsBijection, Bijection, Injection
  <2>3. SetToSeq(Bills) \in [1..Cardinality(Bills) -> Bills]
    BY <2>2 DEF SetToSeq
  <2>4. SetToSeq(Bills) \in Seq(Bills)
    BY <2>1, <2>3, SeqDef
  <2> QED BY <2>4, SeqOfMore DEF Init, Groups
<1>2. line \in Seq(Commands) /\ IsInjective(line)
  BY DEF Init, IsInjective
<1>3. AtRest \in Run
  BY DEF AtRest, NoLinks, Run, PC, Placeholder
<1>4. payments \in Seq([order : OrderIds, group : Groups])
  BY DEF Init
<1>5. BagToSet(late) \subseteq Request
  BY DEF Init, EmptyBag, SetToBag, BagToSet
<1>6. TypeOK
  BY <1>1, <1>2, <1>3, <1>4, <1>5, QueueBounds DEF Init, TypeOK
<1>7. HasCommand
  BY DEF Init, HasCommand, AtRest, AtWork
<1> QED BY <1>6, <1>7

\* A new command at the end of the line.
LEMMA EnqueueType ==
  ASSUME TypeOK, HasCommand, NEW c \in Commands, NEW ref \in {Placeholder} \cup OrderIds, Enqueue(c, ref)
  PROVE  TypeOK' /\ HasCommand'
<1>1. /\ OrderIds' = OrderIds /\ Stored' = Stored /\ Request' = Request /\ Run' = Run
  BY TypesStay DEF Enqueue
<1>2. Record("pending", ref) \in Stored
  BY DEF Record, Stored
<1>3. line \in Seq(Commands) /\ IsInjective(line)
  BY DEF TypeOK
<1>4. \A i \in 1..Len(line) : line[i] # c
  BY <1>3 DEF Enqueue, Queued, ToSet
<1>5. line' \in Seq(Commands) /\ IsInjective(line')
  BY <1>3, <1>4, Longer DEF Enqueue, IsInjective
<1>6. TypeOK'
  BY <1>1, <1>2, <1>5 DEF TypeOK, Enqueue, server
<1> QED BY <1>6 DEF HasCommand, Enqueue

LEMMA CashierType ==
  ASSUME TypeOK, HasCommand, Cashier
  PROVE  TypeOK' /\ HasCommand'
<1>1. ASSUME NEW s \in Sales, SellOffline(s) \/ PaySale(s) PROVE TypeOK' /\ HasCommand'
  BY <1>1, EnqueueType DEF SellOffline, PaySale, Commands, Groups
<1>2. ASSUME NEW b \in Bills, PayBill(b) PROVE TypeOK' /\ HasCommand'
  BY <1>2, EnqueueType DEF PayBill, Commands, Groups
<1>3. ASSUME NEW c \in Commands, DiscardFailed(c) PROVE TypeOK' /\ HasCommand'
  <2>1. OrderIds' = OrderIds /\ Stored' = Stored /\ Request' = Request /\ Run' = Run
    BY <1>3, TypesStay DEF DiscardFailed
  <2>2. TypeOK'
    BY <1>3, <2>1 DEF TypeOK, DiscardFailed, server
  <2> QED BY <1>3, <2>2 DEF HasCommand, DiscardFailed
<1>4. ASSUME NEW c \in Commands, NEW t \in Tabs, RetryRead(t, c) PROVE TypeOK' /\ HasCommand'
  <2>1. OrderIds' = OrderIds /\ Stored' = Stored /\ Request' = Request /\ Run' = Run
    BY <1>4, TypesStay DEF RetryRead
  <2>2. [cmd |-> c, ref |-> queue[c].ref] \in Request
    BY <1>4 DEF RetryRead, Failed, TypeOK, Request, Stored
  <2>3. retry' \in [Tabs -> Request \cup {Gone}] /\ retries' \in 0..MaxRetries
    BY <1>4, <2>2, QueueBounds DEF RetryRead, TypeOK
  <2>4. TypeOK'
    BY <1>4, <2>1, <2>3 DEF TypeOK, RetryRead, server
  <2> QED BY <1>4, <2>4 DEF HasCommand, RetryRead
<1> QED BY <1>1, <1>2, <1>3, <1>4 DEF Cashier

\* Steps that change runs, and the records of commands, but not the server.
LEMMA ClientType ==
  ASSUME TypeOK, UNCHANGED <<line, server>>,
         sync' \in [Tabs -> Run], retry' \in [Tabs -> Request \cup {Gone}],
         queue' \in [Commands -> Stored \cup {Gone}], online' \in BOOLEAN,
         BagToSet(late') \subseteq Request,
         answers' \in [Commands -> SUBSET (Answer \cup {"discarded"})],
         failures' \in 0..MaxFailures, retries' \in 0..MaxRetries
  PROVE  TypeOK'
<1>1. OrderIds' = OrderIds /\ Stored' = Stored /\ Request' = Request /\ Run' = Run
  BY TypesStay
<1> QED BY <1>1 DEF TypeOK, server

LEMMA MishapType ==
  ASSUME TypeOK, Mishap
  PROVE  failures' \in 0..MaxFailures
BY QueueBounds DEF TypeOK, Mishap

LEMMA TriggerType ==
  ASSUME TypeOK, HasCommand, NEW t \in Tabs
  PROVE  Trigger(sync[t]) \in Run
BY RunType DEF Trigger

LEMMA AbandonType ==
  ASSUME TypeOK, HasCommand, NEW t \in Tabs, Abandon(t)
  PROVE  BagToSet(late') \subseteq Request
<1>1. CASE sync[t].pc = "wait"
  <2>1. late' = late (+) SetToBag({Linked(t)}) /\ Linked(t) \in Request
    BY <1>1, AtHand DEF Abandon, AtWork
  <2>2. DOMAIN late' = DOMAIN late \cup {Linked(t)}
    BY <2>1 DEF SetToBag, (+)
  <2> QED BY <2>1, <2>2 DEF TypeOK, BagToSet
<1>2. CASE sync[t].pc # "wait"
  BY <1>2 DEF Abandon, TypeOK
<1> QED BY <1>1, <1>2

LEMMA ConnectionType ==
  ASSUME TypeOK, HasCommand, Disconnect \/ Connect
  PROVE  TypeOK' /\ HasCommand'
<1>1. CASE Disconnect
  <2>1. failures' \in 0..MaxFailures
    BY <1>1, MishapType DEF Disconnect
  <2>2. TypeOK'
    BY <1>1, <2>1, ClientType DEF Disconnect, TypeOK, client
  <2> QED BY <1>1, <2>2 DEF Disconnect, client, HasCommand
<1>2. CASE Connect
  <2>1. sync' \in [Tabs -> Run]
    BY <1>2, TriggerType DEF Connect
  <2>2. TypeOK'
    BY <1>2, <2>1, ClientType DEF Connect, TypeOK
  <2>3. HasCommand'
    BY <1>2, RunType DEF Connect, HasCommand, Trigger, Started, AtRest, AtWork
  <2> QED BY <2>2, <2>3
<1> QED BY <1>1, <1>2

LEMMA PageType ==
  ASSUME TypeOK, HasCommand, NEW t \in Tabs, Reopen(t) \/ Reload(t)
  PROVE  TypeOK' /\ HasCommand'
<1>1. sync \in [Tabs -> Run] /\ AtRest \in Run /\ Started \in Run
  BY RunType DEF TypeOK
<1>2. CASE Reopen(t)
  <2>1. sync' \in [Tabs -> Run]
    BY <1>1, <1>2 DEF Reopen
  <2>2. TypeOK'
    BY <1>2, <2>1, ClientType DEF Reopen, TypeOK
  <2>3. HasCommand'
    BY <1>1, <1>2 DEF Reopen, HasCommand, Started, AtRest, AtWork
  <2> QED BY <2>2, <2>3
<1>3. CASE Reload(t)
  <2>1. sync' \in [Tabs -> Run] /\ failures' \in 0..MaxFailures /\ BagToSet(late') \subseteq Request
    BY <1>1, <1>3, MishapType, AbandonType DEF Reload
  <2>2. TypeOK'
    BY <1>3, <2>1, ClientType DEF Reload, TypeOK
  <2>3. HasCommand'
    BY <1>1, <1>3 DEF Reload, HasCommand, Started, AtRest, AtWork
  <2> QED BY <2>2, <2>3
<1> QED BY <1>2, <1>3

LEMMA WorkType ==
  ASSUME TypeOK, HasCommand, NEW t \in Tabs, Work(t)
  PROVE  TypeOK' /\ HasCommand'
<1>0. /\ sync \in [Tabs -> Run] /\ AtRest \in Run /\ Started \in Run
      /\ sync[t].pc \in PC /\ sync[t].todo \subseteq Request /\ sync[t].now \in Request \cup {Gone}
      /\ queue \in [Commands -> Stored \cup {Gone}]
  BY RunType DEF TypeOK
<1>1. CASE List(t)
  <2>1. {[cmd |-> c, ref |-> queue[c].ref] : c \in {d \in Commands : Pending(d)}} \subseteq Request
    BY <1>0 DEF Pending, Request, Stored
  <2>2. sync' \in [Tabs -> Run]
    BY <1>0, <1>1, <2>1 DEF List, Run, PC
  <2>3. TypeOK'
    BY <1>1, <2>2, ClientType DEF List, TypeOK
  <2>4. HasCommand'
    BY <1>0, <1>1 DEF List, HasCommand, At, AtWork
  <2> QED BY <2>3, <2>4
<1>2. CASE Finish(t)
  <2>1. sync' \in [Tabs -> Run]
    BY <1>0, <1>2 DEF Finish, Break
  <2>2. TypeOK'
    BY <1>2, <2>1, ClientType DEF Finish, TypeOK
  <2>3. HasCommand'
    BY <1>0, <1>2 DEF Finish, Break, HasCommand, AtRest, AtWork
  <2> QED BY <2>2, <2>3
<1>3. CASE Send(t)
  <2>1. PICK r \in sync[t].todo :
          sync' = [sync EXCEPT ![t].pc   = IF online THEN "wait" ELSE "bump",
                               ![t].now  = r,
                               ![t].todo = @ \ {r}]
    BY <1>3 DEF Send
  <2>2. r \in Request /\ r # Gone
    BY <1>0, RecordType
  <2>3. sync' \in [Tabs -> Run]
    BY <1>0, <2>1, <2>2 DEF Run, PC
  <2>4. TypeOK'
    BY <1>3, <2>3, ClientType DEF Send, TypeOK
  <2>5. HasCommand'
    BY <1>0, <2>1, <2>2 DEF HasCommand, AtWork
  <2> QED BY <2>4, <2>5
<1>4. CASE Bump(t)
  <2>1. Record("pending", This(t).ref) \in Stored
    BY <1>4, AtHand, RecordType DEF Bump, At, AtWork
  <2>2. sync' \in [Tabs -> Run] /\ queue' \in [Commands -> Stored \cup {Gone}]
    BY <1>0, <1>4, <2>1 DEF Bump, Break, Put
  <2>3. TypeOK'
    BY <1>4, <2>2, ClientType DEF Bump, TypeOK
  <2>4. HasCommand'
    BY <1>0, <1>4 DEF Bump, Break, HasCommand, AtRest, AtWork
  <2> QED BY <2>3, <2>4
<1>5. CASE MarkFailed(t)
  <2>1. Record("failed", This(t).ref) \in Stored
    BY <1>5, AtHand, RecordType DEF MarkFailed, At, AtWork
  <2>2. sync' \in [Tabs -> Run] /\ queue' \in [Commands -> Stored \cup {Gone}]
    BY <1>0, <1>5, <2>1 DEF MarkFailed, Continue, Put, Run, PC
  <2>3. TypeOK'
    BY <1>5, <2>2, ClientType DEF MarkFailed, TypeOK
  <2>4. HasCommand'
    BY <1>0, <1>5 DEF MarkFailed, Continue, HasCommand, AtWork
  <2> QED BY <2>3, <2>4
<1>6. CASE RelinkRead(t)
  <2>1. PaymentOf(This(t).cmd.group) \in Commands /\ sync[t].now # Gone
    BY <1>6 DEF RelinkRead, At, HasCommand, AtWork, This, Commands, Groups, OrderOf
  <2>2. sync' \in [Tabs -> Run]
    BY <1>0, <1>6, <2>1 DEF RelinkRead, Run, PC
  <2>3. TypeOK'
    BY <1>6, <2>2, ClientType DEF RelinkRead, TypeOK
  <2>4. HasCommand'
    BY <1>0, <1>6, <2>1 DEF RelinkRead, HasCommand, AtWork, At
  <2> QED BY <2>3, <2>4
<1>7. CASE RelinkWrite(t)
  <2>1. This(t).cmd.group \in Sales /\ PaymentOf(This(t).cmd.group) \in Commands /\ sync[t].now # Gone
    BY <1>7 DEF RelinkWrite, At, HasCommand, AtWork, This, Commands, Groups, OrderOf
  <2>2. sync[t].copy \in Stored /\ sync[t].links[This(t).cmd.group] \in {Placeholder} \cup OrderIds
    BY <1>7, <2>1, RunType DEF RelinkWrite, At, HasCommand
  <2>3. Record(sync[t].copy.status, sync[t].links[This(t).cmd.group]) \in Stored
    BY <2>2 DEF Record, Stored
  <2>4. sync' \in [Tabs -> Run] /\ queue' \in [Commands -> Stored \cup {Gone}]
    BY <1>0, <1>7, <2>3 DEF RelinkWrite, Goto, Put, Run, PC
  <2>5. TypeOK'
    BY <1>7, <2>4, ClientType DEF RelinkWrite, TypeOK
  <2>6. HasCommand'
    BY <1>0, <1>7, <2>1 DEF RelinkWrite, Goto, HasCommand, AtWork, At
  <2> QED BY <2>5, <2>6
<1>8. CASE RemoveCommand(t)
  <2>1. sync' \in [Tabs -> Run] /\ queue' \in [Commands -> Stored \cup {Gone}]
    BY <1>0, <1>8 DEF RemoveCommand, Continue, Run, PC
  <2>2. TypeOK'
    BY <1>8, <2>1, ClientType DEF RemoveCommand, TypeOK
  <2>3. HasCommand'
    BY <1>0, <1>8 DEF RemoveCommand, Continue, HasCommand, AtWork
  <2> QED BY <2>2, <2>3
<1>9. CASE RetryWrite(t)
  <2>1. retry[t] \in Request
    BY <1>9 DEF RetryWrite, TypeOK
  <2>2. Record("pending", retry[t].ref) \in Stored /\ Trigger(sync[t]) \in Run
    BY <2>1, RecordType, TriggerType
  <2>3. /\ sync' \in [Tabs -> Run] /\ queue' \in [Commands -> Stored \cup {Gone}]
        /\ retry' \in [Tabs -> Request \cup {Gone}]
    BY <1>0, <1>9, <2>2 DEF RetryWrite, TypeOK
  <2>4. TypeOK'
    BY <1>9, <2>3, ClientType DEF RetryWrite, TypeOK
  <2>5. HasCommand'
    BY <1>0, <1>9 DEF RetryWrite, Trigger, Started, AtRest, HasCommand, AtWork
  <2> QED BY <2>4, <2>5
<1> QED BY <1>1, <1>2, <1>3, <1>4, <1>5, <1>6, <1>7, <1>8, <1>9 DEF Work

\* Steps of the server, which may bring new ids.
LEMMA ServerType ==
  ASSUME TypeOK, Grown, UNCHANGED <<online, queue, line, retry, failures, retries>>,
         sync' \in [Tabs -> Run'], BagToSet(late') \subseteq Request,
         answers' \in [Commands -> SUBSET (Answer \cup {"discarded"})]
  PROVE  TypeOK'
<1>1. Stored \subseteq Stored' /\ Request \subseteq Request'
  BY TypesGrow
<1>2. queue' \in [Commands -> Stored' \cup {Gone}] /\ retry' \in [Tabs -> Request' \cup {Gone}]
  BY <1>1 DEF TypeOK
<1> QED BY <1>1, <1>2 DEF TypeOK, Grown

LEMMA AcceptedType ==
  ASSUME TypeOK, HasCommand, NEW t \in Tabs, Accepted(t)
  PROVE  TypeOK' /\ HasCommand' /\ Grown
<1> DEFINE c == This(t).cmd
<1> DEFINE links == IF c.kind = "order" THEN [sync[t].links EXCEPT ![c.group] = Len(origin) + 1]
                    ELSE sync[t].links
<1>1. /\ sync \in [Tabs -> Run] /\ sync[t].pc = "wait" /\ sync[t].now # Gone
      /\ This(t) \in Request /\ c \in Commands /\ Linked(t) \in Request /\ Linked(t).cmd = c
  BY AtHand DEF Accepted, At, AtWork, TypeOK, HasCommand
<1>2. Grown /\ Run \subseteq Run'
  BY <1>1, ServerGrows, TypesGrow DEF Accepted
<1>3. links \in [Sales -> {Placeholder} \cup OrderIds']
  <2>1. sync[t].links \in [Sales -> {Placeholder} \cup OrderIds] /\ OrderIds \subseteq OrderIds'
    BY <1>2, RunType DEF Grown
  <2>2. CASE c.kind = "order"
    <3>1. c.group \in Sales
      BY <1>1, <2>2 DEF Commands, OrderOf, PaymentOf
    <3>2. origin \in Seq(Groups) /\ c.group \in Groups /\ origin' = Append(origin, c.group)
      BY <1>1, <2>2, <3>1 DEF Accepted, Apply, CreateOrder, TakePayment, TypeOK, Groups
    <3>3. Len(origin) + 1 \in OrderIds'
      BY <3>2, Longer DEF OrderIds
    <3> QED BY <2>1, <2>2, <3>1, <3>3
  <2>3. CASE c.kind # "order"
    BY <2>1, <2>3
  <2> QED BY <2>2, <2>3
<1>4. AfterAnswer(c, "ack") = IF c.kind = "order" THEN "relink" ELSE "remove"
  BY DEF AfterAnswer
<1>5. sync' = [sync EXCEPT ![t].pc = AfterAnswer(c, "ack"), ![t].links = links]
  BY DEF Accepted, Reply
<1>6. sync' \in [Tabs -> Run']
  <2>1. \A u \in Tabs : sync[u] \in Run'
    BY <1>1, <1>2
  <2>2. [sync[t] EXCEPT !.pc = AfterAnswer(c, "ack"), !.links = links] \in Run'
    BY <1>3, <1>4, <2>1 DEF Run, PC
  <2> QED BY <1>1, <1>5, <2>1, <2>2
<1>7. answers' \in [Commands -> SUBSET (Answer \cup {"discarded"})] /\ BagToSet(late') \subseteq Request
  BY <1>1 DEF Accepted, Reply, TypeOK, Answer
<1>8. TypeOK'
  BY <1>2, <1>6, <1>7, ServerType DEF Accepted, Reply
<1>9. HasCommand'
  <2>1. c.kind = "order" => c \in {OrderOf(s) : s \in Sales}
    BY <1>1 DEF Commands, OrderOf, PaymentOf
  <2> QED BY <1>1, <1>4, <1>5, <2>1 DEF HasCommand, AtWork, This
<1> QED BY <1>2, <1>8, <1>9

\* Answers that leave the server as it was.
LEMMA RefusalType ==
  ASSUME TypeOK, HasCommand, NEW t \in Tabs, Rejected(t) \/ Conflicted(t) \/ ServerError(t)
  PROVE  TypeOK' /\ HasCommand'
<1>1. /\ sync \in [Tabs -> Run] /\ sync[t].pc = "wait" /\ sync[t].now # Gone
      /\ This(t) \in Request /\ This(t).cmd \in Commands
  BY AtHand DEF Rejected, Conflicted, ServerError, At, AtWork, TypeOK, HasCommand
<1>2. PICK answer \in {"conflict", "retry", "reject"} : Reply(t, answer, sync[t].links)
  BY DEF Rejected, Conflicted, ServerError
<1>3. AfterAnswer(This(t).cmd, answer) \in {"remove", "bump", "fail"}
  BY DEF AfterAnswer
<1>4. sync' = [sync EXCEPT ![t].pc = AfterAnswer(This(t).cmd, answer), ![t].links = sync[t].links]
  BY <1>2 DEF Reply
<1>5. sync' \in [Tabs -> Run]
  BY <1>1, <1>3, <1>4 DEF Run, PC
<1>6. answers' \in [Commands -> SUBSET (Answer \cup {"discarded"})]
  BY <1>1, <1>2 DEF Reply, TypeOK, Answer
<1>7. failures' \in 0..MaxFailures
  BY MishapType DEF Rejected, Conflicted, ServerError, TypeOK
<1>8. UNCHANGED <<line, server>>
  BY <1>2 DEF Rejected, Conflicted, ServerError, Reply
<1>9. TypeOK'
  BY <1>2, <1>5, <1>6, <1>7, <1>8, ClientType DEF Reply, TypeOK
<1>10. HasCommand'
  BY <1>1, <1>3, <1>4 DEF HasCommand, AtWork
<1> QED BY <1>9, <1>10

LEMMA NetworkErrorType ==
  ASSUME TypeOK, HasCommand, NEW t \in Tabs, NetworkError(t)
  PROVE  TypeOK' /\ HasCommand'
<1>1. sync \in [Tabs -> Run] /\ sync[t].pc = "wait"
  BY DEF NetworkError, At, TypeOK
<1>2. sync' \in [Tabs -> Run] /\ failures' \in 0..MaxFailures /\ BagToSet(late') \subseteq Request
  BY <1>1, MishapType, AbandonType DEF NetworkError, Goto, Run, PC, TypeOK
<1>3. TypeOK'
  BY <1>2, ClientType DEF NetworkError, TypeOK
<1>4. HasCommand'
  BY <1>1 DEF NetworkError, Goto, HasCommand, AtWork
<1> QED BY <1>3, <1>4

LEMMA ServeLateType ==
  ASSUME TypeOK, HasCommand, NEW r \in BagToSet(late), ServeLate(r)
  PROVE  TypeOK' /\ HasCommand' /\ Grown
<1>1. r \in Request
  BY DEF TypeOK
<1>2. Grown /\ Run \subseteq Run'
  BY <1>1, ServerGrows, TypesGrow DEF ServeLate
<1>3. DOMAIN late' \subseteq DOMAIN late
  BY DEF ServeLate, (-)
<1>4. sync' \in [Tabs -> Run'] /\ BagToSet(late') \subseteq Request
  BY <1>2, <1>3 DEF ServeLate, client, TypeOK, BagToSet
<1>5. TypeOK'
  BY <1>2, <1>4, ServerType DEF ServeLate, client, TypeOK
<1>6. HasCommand'
  BY DEF ServeLate, client, HasCommand
<1> QED BY <1>2, <1>5, <1>6

LEMMA TypeStep ==
  ASSUME TypeOK, HasCommand, [Next]_vars
  PROVE  TypeOK' /\ HasCommand'
<1>1. CASE Next
  BY <1>1, CashierType, ConnectionType, PageType, WorkType, AcceptedType, RefusalType,
     NetworkErrorType, ServeLateType DEF Next, Exchange
<1>2. CASE UNCHANGED vars
  <2>1. OrderIds' = OrderIds /\ Stored' = Stored /\ Request' = Request /\ Run' = Run
    BY <1>2, TypesStay DEF vars, server
  <2> QED BY <1>2, <2>1 DEF vars, client, server, TypeOK, HasCommand
<1> QED BY <1>1, <1>2

\* Every reachable state of the stored queue, its runs and the server has the
\* declared types (offline-queue.ts:30-42,219-327).
THEOREM OfflineTypes == Spec => []TypeOK
<1>1. Init => TypeOK /\ HasCommand
  BY InitType
<1>2. (TypeOK /\ HasCommand) /\ [Next]_vars => (TypeOK /\ HasCommand)'
  BY TypeStep
<1> QED BY <1>1, <1>2, PTL DEF Spec

-----------------------------------------------------------------------------
(* No payment before its order: a command that does not wait any more was   *)
(* answered, and a run that holds a payment still holds its order, or the   *)
(* order does not wait any more.                                            *)

Heard(c) == answers[c] # {}

\* Only queued commands are stored, sent and written back.
OnlyQueued ==
  /\ \A c \in Commands : queue[c] # Gone => Queued(c)
  /\ \A t \in Tabs : /\ retry[t] # Gone => Queued(retry[t].cmd)
                     /\ \A r \in sync[t].todo : Queued(r.cmd)
                     /\ sync[t].now # Gone => Queued(sync[t].now.cmd)
                     /\ sync[t].pc = "put" => Queued(PaymentOf(sync[t].now.cmd.group))

OrdersFirst == \A s \in Sales : Queued(PaymentOf(s)) => Before(OrderOf(s), PaymentOf(s))

WaitsOrHeard ==
  /\ \A c \in Commands : Queued(c) => Pending(c) \/ Heard(c)
  /\ \A t \in Tabs :
       /\ sync[t].pc \in {"relink", "put", "remove", "fail"} => Heard(sync[t].now.cmd)
       /\ sync[t].pc = "put" => \/ sync[t].copy.status = "pending"
                                \/ Heard(PaymentOf(sync[t].now.cmd.group))

HoldsOrder(t, s) ==
  \/ Heard(OrderOf(s))
  \/ \E q \in sync[t].todo : q.cmd = OrderOf(s)
  \/ sync[t].now # Gone /\ sync[t].now.cmd = OrderOf(s)
PaymentsBehind ==
  \A t \in Tabs, s \in Sales :
    /\ \A r \in sync[t].todo : r.cmd = PaymentOf(s) => HoldsOrder(t, s)
    /\ sync[t].now # Gone /\ sync[t].now.cmd = PaymentOf(s) => Heard(OrderOf(s))

OrderInv == OnlyQueued /\ OrdersFirst /\ WaitsOrHeard /\ PaymentsBehind

LEMMA GroupsAreTold ==
  /\ \A s \in Sales : OrderOf(s) \in Commands /\ PaymentOf(s) \in Commands
  /\ \A b \in Bills : PaymentOf(b) \in Commands
  /\ \A g, h : OrderOf(g) # PaymentOf(h) /\ (OrderOf(g) = OrderOf(h) => g = h) /\ (PaymentOf(g) = PaymentOf(h) => g = h)
  /\ \A g : /\ OrderOf(g).group = g /\ PaymentOf(g).group = g
            /\ OrderOf(g).kind = "order" /\ PaymentOf(g).kind = "payment"
<1>1. \A g : /\ OrderOf(g).group = g /\ PaymentOf(g).group = g
             /\ OrderOf(g).kind = "order" /\ PaymentOf(g).kind = "payment"
  BY DEF OrderOf, PaymentOf
<1>2. \A g, h : OrderOf(g) # PaymentOf(h) /\ (OrderOf(g) = OrderOf(h) => g = h) /\ (PaymentOf(g) = PaymentOf(h) => g = h)
  BY <1>1
<1> QED BY <1>1, <1>2 DEF Commands, Groups

LEMMA LineGrows ==
  ASSUME TypeOK, NEW c \in Commands, line' = Append(line, c)
  PROVE  /\ \A d : Queued(d)' <=> Queued(d) \/ d = c
         /\ \A d, e : Before(d, e) => Before(d, e)'
         /\ \A d : Queued(d) => Before(d, c)'
<1>1. /\ Len(line) \in Nat /\ DOMAIN line = 1..Len(line) /\ DOMAIN line' = 1..(Len(line) + 1)
      /\ \A i \in 1..Len(line) : line'[i] = line[i]
      /\ line'[Len(line) + 1] = c
      /\ ToSet(line') = ToSet(line) \cup {c}
  BY Longer DEF TypeOK
<1>2. \A d, e : Before(d, e) => Before(d, e)'
  BY <1>1 DEF Before
<1>3. \A d : Queued(d) => Before(d, c)'
  BY <1>1 DEF Queued, ToSet, Before
<1> QED BY <1>1, <1>2, <1>3 DEF Queued

LEMMA LineStays ==
  ASSUME UNCHANGED line
  PROVE  /\ \A d : Queued(d)' <=> Queued(d)
         /\ \A d, e : Before(d, e)' <=> Before(d, e)
BY DEF Queued, Before

LEMMA OrderInvInit ==
  ASSUME Init
  PROVE  OrderInv
BY DEF Init, OrderInv, OnlyQueued, OrdersFirst, WaitsOrHeard, PaymentsBehind, Queued, ToSet, AtRest

LEMMA EnqueueOrdered ==
  ASSUME TypeOK, OrderInv, NEW c \in Commands, NEW ref \in {Placeholder} \cup OrderIds, Enqueue(c, ref),
         \A s \in Sales : c = PaymentOf(s) => Queued(OrderOf(s))
  PROVE  OrderInv'
<1>1. /\ \A d : Queued(d)' <=> Queued(d) \/ d = c
      /\ \A d, e : Before(d, e) => Before(d, e)'
      /\ \A d : Queued(d) => Before(d, c)'
  BY LineGrows DEF Enqueue
<1>2. /\ Record("pending", ref) \in Stored /\ Record("pending", ref).status = "pending"
      /\ Record("pending", ref) # Gone
  BY StoredIsNotGone DEF Record, Stored
<1>3. queue \in [Commands -> Stored \cup {Gone}] /\ UNCHANGED <<sync, retry, answers>>
  BY DEF TypeOK, Enqueue
<1>4. OnlyQueued'
  BY <1>1, <1>3 DEF OrderInv, OnlyQueued, Enqueue
<1>5. OrdersFirst'
  BY <1>1 DEF OrderInv, OrdersFirst
<1>6. WaitsOrHeard'
  BY <1>1, <1>2, <1>3 DEF OrderInv, WaitsOrHeard, Enqueue, Pending, Heard
<1>7. PaymentsBehind'
  BY <1>3 DEF OrderInv, PaymentsBehind, HoldsOrder, Heard
<1> QED BY <1>4, <1>5, <1>6, <1>7 DEF OrderInv

LEMMA CashierOrdered ==
  ASSUME TypeOK, HasCommand, OrderInv, Cashier
  PROVE  OrderInv'
<1>1. ASSUME NEW s \in Sales, SellOffline(s) \/ PaySale(s) PROVE OrderInv'
  BY <1>1, EnqueueOrdered, GroupsAreTold DEF SellOffline, PaySale
<1>2. ASSUME NEW b \in Bills, PayBill(b) PROVE OrderInv'
  BY <1>2, EnqueueOrdered, GroupsAreTold, SalesAreNotBills DEF PayBill
<1>3. ASSUME NEW c \in Commands, DiscardFailed(c) PROVE OrderInv'
  <2>1. /\ queue \in [Commands -> Stored \cup {Gone}] /\ UNCHANGED <<line, sync, retry>>
        /\ queue' = [queue EXCEPT ![c] = Gone]
        /\ Heard(c)' /\ \A d \in Commands : Heard(d) => Heard(d)'
    BY <1>3 DEF TypeOK, DiscardFailed, Heard
  <2>2. OnlyQueued' /\ OrdersFirst'
    BY <2>1, LineStays DEF OrderInv, OnlyQueued, OrdersFirst
  <2>3. WaitsOrHeard'
    <3>1. \A d \in Commands : Queued(d)' => Pending(d)' \/ Heard(d)'
      BY <2>1, LineStays DEF OrderInv, WaitsOrHeard, Pending
    <3>2. \A u \in Tabs : sync[u].now # Gone => sync[u].now.cmd \in Commands
      BY RunType, RecordType
    <3>3. \A u \in Tabs : sync[u].pc = "put" => PaymentOf(sync[u].now.cmd.group) \in Commands
      BY GroupsAreTold DEF HasCommand
    <3> QED BY <2>1, <3>1, <3>2, <3>3 DEF OrderInv, WaitsOrHeard, HasCommand, AtWork
  <2>4. PaymentsBehind'
    BY <2>1, GroupsAreTold DEF OrderInv, PaymentsBehind, HoldsOrder
  <2> QED BY <2>2, <2>3, <2>4 DEF OrderInv
<1>4. ASSUME NEW c \in Commands, NEW t \in Tabs, RetryRead(t, c) PROVE OrderInv'
  <2>1. UNCHANGED <<line, sync, queue, answers>> /\ retry' = [retry EXCEPT ![t] = [cmd |-> c, ref |-> queue[c].ref]]
    BY <1>4 DEF RetryRead
  <2>2. OnlyQueued'
    BY <1>4, <2>1, LineStays DEF OrderInv, OnlyQueued, RetryRead, Failed, TypeOK
  <2>3. OrdersFirst' /\ WaitsOrHeard' /\ PaymentsBehind'
    BY <2>1, LineStays DEF OrderInv, OrdersFirst, WaitsOrHeard, PaymentsBehind, HoldsOrder, Heard, Pending
  <2> QED BY <2>2, <2>3 DEF OrderInv
<1> QED BY <1>1, <1>2, <1>3, <1>4 DEF Cashier

\* Runs that begin, or end, have nothing in hand.
LEMMA PageOrdered ==
  ASSUME TypeOK, HasCommand, OrderInv,
         Disconnect \/ Connect \/ \E t \in Tabs : Reopen(t) \/ Reload(t)
  PROVE  OrderInv'
<1>1. /\ UNCHANGED <<queue, line, answers>> /\ sync \in [Tabs -> Run] /\ retry \in [Tabs -> Request \cup {Gone}]
      /\ \A t \in Tabs : sync'[t] \in {sync[t], Started, AtRest} /\ retry'[t] \in {retry[t], Gone}
  BY DEF Disconnect, Connect, Reopen, Reload, client, Trigger, TypeOK
<1>2. \A u \in Tabs : \/ sync'[u] = sync[u]
                      \/ sync'[u].todo = {} /\ sync'[u].now = Gone /\ sync'[u].pc \in {"list", "idle"}
  <2>1. /\ Started.todo = {} /\ Started.now = Gone /\ Started.pc = "list"
        /\ AtRest.todo = {} /\ AtRest.now = Gone /\ AtRest.pc = "idle"
    BY DEF Started, AtRest
  <2> QED BY <1>1, <2>1
<1>3. OnlyQueued' /\ OrdersFirst'
  BY <1>1, <1>2, LineStays DEF OrderInv, OnlyQueued, OrdersFirst
<1>4. WaitsOrHeard'
  BY <1>1, <1>2, LineStays DEF OrderInv, WaitsOrHeard, Heard, Pending
<1>5. PaymentsBehind'
  BY <1>1, <1>2 DEF OrderInv, PaymentsBehind, HoldsOrder, Heard
<1> QED BY <1>3, <1>4, <1>5 DEF OrderInv

LEMMA ListOrdered ==
  ASSUME TypeOK, HasCommand, OrderInv, NEW t \in Tabs, List(t)
  PROVE  OrderInv'
<1> DEFINE todo == {[cmd |-> c, ref |-> queue[c].ref] : c \in {d \in Commands : Pending(d)}}
<1>1. /\ UNCHANGED <<queue, line, answers, retry>> /\ sync \in [Tabs -> Run]
      /\ sync[t].now = Gone
      /\ sync' = [sync EXCEPT ![t].pc = "ready", ![t].todo = todo]
  BY DEF List, TypeOK, HasCommand, At, AtWork
<1>2. \A r \in todo : r.cmd \in Commands /\ Pending(r.cmd)
  OBVIOUS
<1>3. ASSUME NEW c \in Commands, Pending(c) PROVE \E q \in todo : q.cmd = c
  <2>1. [cmd |-> c, ref |-> queue[c].ref] \in todo
    BY <1>3
  <2> QED BY <2>1
<1>4. OnlyQueued' /\ OrdersFirst'
  BY <1>1, <1>2, LineStays DEF OrderInv, OnlyQueued, OrdersFirst, Pending
<1>5. WaitsOrHeard'
  BY <1>1, LineStays DEF OrderInv, WaitsOrHeard, Heard, Pending
<1>6. ASSUME NEW s \in Sales, NEW r \in todo, r.cmd = PaymentOf(s)
      PROVE  Heard(OrderOf(s)) \/ \E q \in todo : q.cmd = OrderOf(s)
  <2>1. Queued(PaymentOf(s))
    BY <1>2, <1>6 DEF OrderInv, OnlyQueued, Pending
  <2>2. Queued(OrderOf(s)) /\ OrderOf(s) \in Commands
    BY <2>1, GroupsAreTold DEF OrderInv, OrdersFirst, Before, Queued, ToSet
  <2> QED BY <2>2, <1>3 DEF OrderInv, WaitsOrHeard
<1>7. PaymentsBehind'
  BY <1>1, <1>6 DEF OrderInv, PaymentsBehind, HoldsOrder, Heard
<1> QED BY <1>4, <1>5, <1>7 DEF OrderInv

LEMMA SendOrdered ==
  ASSUME TypeOK, HasCommand, OrderInv, NEW t \in Tabs, Send(t)
  PROVE  OrderInv'
<1>1. /\ UNCHANGED <<queue, line, answers, retry>> /\ sync \in [Tabs -> Run]
      /\ sync[t].now = Gone
  BY DEF Send, TypeOK, HasCommand, At, AtWork
<1>2. PICK r \in sync[t].todo :
        /\ Oldest(r, sync[t].todo)
        /\ sync' = [sync EXCEPT ![t].pc   = IF online THEN "wait" ELSE "bump",
                                ![t].now  = r,
                                ![t].todo = @ \ {r}]
  BY DEF Send
<1>3. r \in Request /\ r # Gone
  BY RunType, RecordType
<1>4. OnlyQueued' /\ OrdersFirst'
  BY <1>1, <1>2, LineStays DEF OrderInv, OnlyQueued, OrdersFirst
<1>5. WaitsOrHeard'
  BY <1>1, <1>2, LineStays DEF OrderInv, WaitsOrHeard, Heard, Pending
<1>6. ASSUME NEW s \in Sales, r.cmd = PaymentOf(s) PROVE Heard(OrderOf(s))
  <2>1. Before(OrderOf(s), PaymentOf(s))
    BY <1>6 DEF OrderInv, OnlyQueued, OrdersFirst
  <2>2. HoldsOrder(t, s)
    BY <1>6 DEF OrderInv, PaymentsBehind
  <2> QED BY <1>1, <1>2, <1>6, <2>1, <2>2 DEF HoldsOrder, Oldest
<1>7. ASSUME NEW s \in Sales, NEW q \in sync[t].todo \ {r}, q.cmd = PaymentOf(s)
      PROVE  HoldsOrder(t, s)'
  <2>1. HoldsOrder(t, s)
    BY <1>7 DEF OrderInv, PaymentsBehind
  <2> QED BY <1>1, <1>2, <1>3, <2>1 DEF HoldsOrder, Heard
<1>8. PaymentsBehind'
  BY <1>1, <1>2, <1>6, <1>7 DEF OrderInv, PaymentsBehind, HoldsOrder, Heard
<1> QED BY <1>4, <1>5, <1>8 DEF OrderInv

\* A run goes on only past a command that was answered.
LEMMA ContinueOrdered ==
  ASSUME TypeOK, HasCommand, OrderInv, NEW t \in Tabs, MarkFailed(t) \/ RemoveCommand(t)
  PROVE  OrderInv'
<1> DEFINE c == sync[t].now.cmd
<1>1. /\ UNCHANGED <<line, answers, retry>> /\ sync \in [Tabs -> Run] /\ sync[t].now # Gone
      /\ sync' = [sync EXCEPT ![t].pc = "ready", ![t].now = Gone, ![t].copy = Gone]
      /\ queue \in [Commands -> Stored \cup {Gone}] /\ c \in Commands
      /\ \A d \in Commands : d # c => queue'[d] = queue[d]
  BY AtHand DEF MarkFailed, RemoveCommand, Continue, Put, TypeOK, HasCommand, At, AtWork, This
<1>2. Heard(c) /\ Queued(c)
  BY <1>1 DEF OrderInv, WaitsOrHeard, OnlyQueued, MarkFailed, RemoveCommand, At
<1>3. OnlyQueued' /\ OrdersFirst'
  BY <1>1, <1>2, LineStays DEF OrderInv, OnlyQueued, OrdersFirst
<1>4. WaitsOrHeard'
  <2>1. \A d \in Commands : Queued(d)' => Pending(d)' \/ Heard(d)'
    BY <1>1, <1>2, LineStays DEF OrderInv, WaitsOrHeard, Heard, Pending
  <2>2. sync'[t].pc = "ready" /\ \A u \in Tabs : u # t => sync'[u] = sync[u]
    BY <1>1 DEF Run
  <2> QED BY <1>1, <2>1, <2>2 DEF OrderInv, WaitsOrHeard, Heard
<1>5. PaymentsBehind'
  BY <1>1, <1>2 DEF OrderInv, PaymentsBehind, HoldsOrder, Heard
<1> QED BY <1>3, <1>4, <1>5 DEF OrderInv

LEMMA RelinkOrdered ==
  ASSUME TypeOK, HasCommand, OrderInv, NEW t \in Tabs, RelinkRead(t) \/ RelinkWrite(t)
  PROVE  OrderInv'
<1> DEFINE p == PaymentOf(sync[t].now.cmd.group)
<1>1. /\ UNCHANGED <<line, answers, retry>> /\ sync \in [Tabs -> Run] /\ sync[t].now # Gone
      /\ queue \in [Commands -> Stored \cup {Gone}] /\ p \in Commands
      /\ Heard(sync[t].now.cmd)
  BY GroupsAreTold DEF RelinkRead, RelinkWrite, TypeOK, HasCommand, At, AtWork, OrderInv, WaitsOrHeard
<1>2. CASE RelinkRead(t)
  <2>1. /\ queue' = queue
        /\ \/ /\ sync' = [sync EXCEPT ![t].pc = "put", ![t].copy = queue[p]]
              /\ queue[p] \in Stored /\ queue[p] # Gone
           \/ sync' = [sync EXCEPT ![t].pc = "remove"]
    BY <1>1, <1>2 DEF RelinkRead, This
  <2>2. queue[p] \in Stored /\ queue[p] # Gone => Queued(p) /\ (queue[p].status = "pending" \/ Heard(p))
    BY <1>1 DEF OrderInv, OnlyQueued, WaitsOrHeard, Pending
  <2> HIDE DEF p
  <2>3. /\ \A u \in Tabs : u # t => sync'[u] = sync[u]
        /\ sync'[t].todo = sync[t].todo /\ sync'[t].now = sync[t].now
        /\ \/ sync'[t].pc = "put" /\ sync'[t].copy = queue[p] /\ queue[p] \in Stored /\ queue[p] # Gone
           \/ sync'[t].pc = "remove"
    <3>1. CASE /\ sync' = [sync EXCEPT ![t].pc = "put", ![t].copy = queue[p]]
               /\ queue[p] \in Stored /\ queue[p] # Gone
      BY <1>1, <3>1 DEF Run
    <3>2. CASE sync' = [sync EXCEPT ![t].pc = "remove"]
      BY <1>1, <3>2 DEF Run
    <3> QED BY <2>1, <3>1, <3>2
  <2>4. OnlyQueued' /\ OrdersFirst'
    BY <1>1, <2>1, <2>2, <2>3, LineStays DEF OrderInv, OnlyQueued, OrdersFirst, p
  <2>5. WaitsOrHeard'
    <3>1. \A c \in Commands : Queued(c)' => Pending(c)' \/ Heard(c)'
      BY <1>1, <2>1, LineStays DEF OrderInv, WaitsOrHeard, Heard, Pending
    <3>2. sync'[t].pc = "put" => sync'[t].copy.status = "pending" \/ Heard(p)
      BY <2>2, <2>3
    <3> QED BY <1>1, <2>3, <3>1, <3>2 DEF OrderInv, WaitsOrHeard, Heard, p
  <2>6. PaymentsBehind'
    BY <1>1, <2>3 DEF OrderInv, PaymentsBehind, HoldsOrder, Heard
  <2> QED BY <2>4, <2>5, <2>6 DEF OrderInv
<1>3. CASE RelinkWrite(t)
  <2> DEFINE rec == Record(sync[t].copy.status, sync[t].links[sync[t].now.cmd.group])
  <2>1. /\ queue' = [queue EXCEPT ![p] = rec]
        /\ sync' = [sync EXCEPT ![t].pc = "remove"]
        /\ Queued(p) /\ (sync[t].copy.status = "pending" \/ Heard(p))
    BY <1>3 DEF RelinkWrite, Put, Goto, This, At, OrderInv, OnlyQueued, WaitsOrHeard
  <2>2. rec \in Stored /\ rec # Gone /\ rec.status = sync[t].copy.status
    <3>1. sync[t].copy \in Stored /\ sync[t].now.cmd.group \in Sales
      BY <1>3, RunType, GroupsAreTold DEF RelinkWrite, At, HasCommand
    <3>2. sync[t].links[sync[t].now.cmd.group] \in {Placeholder} \cup OrderIds
      BY <3>1, RunType
    <3> QED BY <3>1, <3>2, StoredIsNotGone DEF Record, Stored
  <2>3. OnlyQueued' /\ OrdersFirst'
    BY <1>1, <2>1, LineStays DEF OrderInv, OnlyQueued, OrdersFirst
  <2>4. \A c \in Commands : Queued(c)' => Pending(c)' \/ Heard(c)'
    BY <1>1, <2>1, <2>2, LineStays DEF OrderInv, WaitsOrHeard, Heard, Pending
  <2>5. WaitsOrHeard'
    BY <1>1, <2>1, <2>4 DEF OrderInv, WaitsOrHeard, Heard
  <2>6. PaymentsBehind'
    BY <1>1, <2>1 DEF OrderInv, PaymentsBehind, HoldsOrder, Heard
  <2> QED BY <2>3, <2>5, <2>6 DEF OrderInv
<1> QED BY <1>2, <1>3

\* A command put back to wait, and a run that ends.
LEMMA PutBackOrdered ==
  ASSUME TypeOK, HasCommand, OrderInv, NEW t \in Tabs, Finish(t) \/ Bump(t) \/ RetryWrite(t)
  PROVE  OrderInv'
<1>1. /\ UNCHANGED <<line, answers>> /\ sync \in [Tabs -> Run] /\ queue \in [Commands -> Stored \cup {Gone}]
      /\ retry \in [Tabs -> Request \cup {Gone}]
      /\ \A u \in Tabs : sync'[u] \in {sync[u], Started, AtRest} /\ retry'[u] \in {retry[u], Gone}
  BY DEF Finish, Bump, RetryWrite, Break, Trigger, TypeOK
<1>2. \A u \in Tabs : \/ sync'[u] = sync[u]
                      \/ sync'[u].todo = {} /\ sync'[u].now = Gone /\ sync'[u].pc \in {"list", "idle"}
  <2>1. /\ Started.todo = {} /\ Started.now = Gone /\ Started.pc = "list"
        /\ AtRest.todo = {} /\ AtRest.now = Gone /\ AtRest.pc = "idle"
    BY DEF Started, AtRest
  <2> QED BY <1>1, <2>1
<1>3. \A c \in Commands : \/ queue'[c] = queue[c]
                          \/ Queued(c) /\ Pending(c)'
  <2>1. CASE Finish(t)
    BY <2>1 DEF Finish
  <2>2. CASE Bump(t)
    <3>1. This(t) \in Request /\ sync[t].now # Gone
      BY <2>2, AtHand DEF Bump, At, AtWork, HasCommand
    <3>2. Record("pending", This(t).ref) # Gone /\ Record("pending", This(t).ref).status = "pending"
      BY <3>1, RecordType DEF Record
    <3> QED BY <1>1, <2>2, <3>1, <3>2 DEF Bump, Put, Pending, OrderInv, OnlyQueued, This
  <2>3. CASE RetryWrite(t)
    <3>1. retry[t] \in Request /\ retry[t] # Gone
      BY <2>3 DEF RetryWrite, TypeOK
    <3>2. Record("pending", retry[t].ref) # Gone /\ Record("pending", retry[t].ref).status = "pending"
      BY <3>1, RecordType DEF Record
    <3> QED BY <1>1, <2>3, <3>1, <3>2 DEF RetryWrite, Pending, OrderInv, OnlyQueued
  <2> QED BY <2>1, <2>2, <2>3
<1>4. OnlyQueued' /\ OrdersFirst'
  BY <1>1, <1>2, <1>3, LineStays DEF OrderInv, OnlyQueued, OrdersFirst
<1>5. \A c \in Commands : Queued(c)' => Pending(c)' \/ Heard(c)'
  BY <1>1, <1>3, LineStays DEF OrderInv, WaitsOrHeard, Heard, Pending
<1>6. WaitsOrHeard'
  BY <1>1, <1>2, <1>5 DEF OrderInv, WaitsOrHeard, Heard
<1>7. PaymentsBehind'
  BY <1>1, <1>2 DEF OrderInv, PaymentsBehind, HoldsOrder, Heard
<1> QED BY <1>4, <1>6, <1>7 DEF OrderInv

\* The answer, or the failure, of a request touches only the run that sent it.
LEMMA ExchangeOrdered ==
  ASSUME TypeOK, HasCommand, OrderInv, NEW t \in Tabs, Exchange(t)
  PROVE  OrderInv'
<1> DEFINE c == sync[t].now.cmd
<1>1. sync[t].pc = "wait" /\ sync[t].now # Gone /\ c \in Commands /\ sync \in [Tabs -> Run]
  BY AtHand DEF Exchange, NetworkError, Accepted, Rejected, Conflicted, ServerError, At, AtWork,
     TypeOK, HasCommand, This
<1>2. UNCHANGED <<queue, line, retry>>
  BY DEF Exchange, NetworkError, Accepted, Rejected, Conflicted, ServerError, Reply
<1>3. /\ \A u \in Tabs : u # t => sync'[u] = sync[u]
      /\ sync'[t].todo = sync[t].todo /\ sync'[t].now = sync[t].now
      /\ sync'[t].pc \in {"relink", "remove", "bump", "fail"}
      /\ sync'[t].pc \in {"relink", "remove", "fail"} => answers'[c] # {}
      /\ \A d \in Commands : Heard(d) => Heard(d)'
  <2>1. CASE NetworkError(t)
    BY <1>1, <2>1 DEF NetworkError, Goto, Run, Heard
  <2>2. CASE Accepted(t) \/ Rejected(t) \/ Conflicted(t) \/ ServerError(t)
    <3>0. \E answer \in Answer : \E links : Reply(t, answer, links)
      BY <2>2 DEF Accepted, Rejected, Conflicted, ServerError, Answer
    <3>1. PICK answer \in Answer : \E links : Reply(t, answer, links)
      BY <3>0
    <3>2. AfterAnswer(c, answer) \in {"relink", "remove", "bump", "fail"}
      BY <3>1 DEF Answer, AfterAnswer
    <3>3. PICK links :
          /\ sync' = [sync EXCEPT ![t].pc = AfterAnswer(c, answer), ![t].links = links]
          /\ answers' = [answers EXCEPT ![c] = @ \cup {answer}]
      BY <3>1 DEF Reply, This
    <3>4. answers'[c] # {} /\ \A d \in Commands : Heard(d) => Heard(d)'
      <4>1. answers \in [Commands -> SUBSET (Answer \cup {"discarded"})]
        BY DEF TypeOK
      <4>2. answers'[c] = answers[c] \cup {answer} /\ \A d \in Commands : d # c => answers'[d] = answers[d]
        BY <1>1, <3>3, <4>1
      <4> QED BY <4>2 DEF Heard
    <3> QED BY <1>1, <3>2, <3>3, <3>4 DEF Run
  <2> QED BY <2>1, <2>2 DEF Exchange
<1>4. OnlyQueued' /\ OrdersFirst'
  BY <1>2, <1>3, LineStays DEF OrderInv, OnlyQueued, OrdersFirst
<1>5. WaitsOrHeard'
  <2>1. \A d \in Commands : Queued(d)' => Pending(d)' \/ Heard(d)'
    BY <1>2, <1>3, LineStays DEF OrderInv, WaitsOrHeard, Pending
  <2>2. \A u \in Tabs : sync[u].now # Gone => sync[u].now.cmd \in Commands
    BY RunType, RecordType
  <2>3. \A u \in Tabs : sync[u].pc = "put" => PaymentOf(sync[u].now.cmd.group) \in Commands
    BY GroupsAreTold DEF HasCommand
  <2> QED BY <1>3, <2>1, <2>2, <2>3 DEF OrderInv, WaitsOrHeard, HasCommand, AtWork, Heard
<1>6. PaymentsBehind'
  BY <1>3, GroupsAreTold DEF OrderInv, PaymentsBehind, HoldsOrder
<1> QED BY <1>4, <1>5, <1>6 DEF OrderInv

LEMMA OrderStep ==
  ASSUME TypeOK, HasCommand, OrderInv, [Next]_vars
  PROVE  OrderInv'
<1>1. CASE Next
  <2>1. ASSUME NEW t \in Tabs, Work(t) PROVE OrderInv'
    BY <2>1, ListOrdered, SendOrdered, ContinueOrdered, RelinkOrdered, PutBackOrdered DEF Work
  <2>2. ASSUME NEW r \in BagToSet(late), ServeLate(r) PROVE OrderInv'
    BY <2>2, LineStays DEF ServeLate, client, OrderInv, OnlyQueued, OrdersFirst, WaitsOrHeard,
       PaymentsBehind, HoldsOrder, Heard, Pending
  <2> QED BY <1>1, <2>1, <2>2, CashierOrdered, PageOrdered, ExchangeOrdered DEF Next
<1>2. CASE UNCHANGED vars
  BY <1>2, LineStays DEF vars, client, OrderInv, OnlyQueued, OrdersFirst, WaitsOrHeard,
     PaymentsBehind, HoldsOrder, Heard, Pending
<1> QED BY <1>1, <1>2

\* No page, of however many, sends the payment of a sale before the command that
\* makes its order was answered (offline-queue.ts:216-217,225-243).
THEOREM SentInOrder == Spec => []PaymentAfterOrder
<1> DEFINE Inv == TypeOK /\ HasCommand /\ OrderInv
<1>1. Init => Inv
  BY InitType, OrderInvInit
<1>2. Inv /\ [Next]_vars => Inv'
  BY TypeStep, OrderStep
<1>3. Inv => PaymentAfterOrder
  BY GroupsAreTold DEF HasCommand, AtWork, OrderInv, PaymentsBehind, Heard, PaymentAfterOrder, This
<1> QED BY <1>1, <1>2, <1>3, PTL DEF Spec

-----------------------------------------------------------------------------
(* Nothing is lost: a command leaves the queue after it was carried out,    *)
(* thrown away, or taken for a replay.                                      *)

Settled(c) == DoneOnServer(c) \/ answers[c] \cap {"conflict", "discarded"} # {}

Removing == {"relink", "put", "remove"}
LostInv ==
  /\ \A c \in Commands : Queued(c) /\ queue[c] = Gone => Settled(c)
  /\ \A t \in Tabs : sync[t].pc \in Removing => Settled(sync[t].now.cmd)

LEMMA LostInvInit ==
  ASSUME Init
  PROVE  LostInv
BY DEF Init, LostInv, Removing, Queued, ToSet, AtRest

LEMMA DoneStays ==
  ASSUME TypeOK, Grown, NEW c \in Commands, DoneOnServer(c)
  PROVE  DoneOnServer(c)'
<1>1. /\ Len(origin) \in Nat /\ DOMAIN origin = 1..Len(origin) /\ DOMAIN origin' = 1..Len(origin')
      /\ Len(payments) \in Nat /\ DOMAIN payments = 1..Len(payments)
      /\ Len(payments') \in Nat /\ DOMAIN payments' = 1..Len(payments')
  BY LenProperties DEF TypeOK, Grown
<1>2. CASE c.kind = "order"
  <2>1. PICK o \in DOMAIN origin : origin[o] = c.group
    BY <1>2 DEF DoneOnServer, ToSet
  <2>2. o \in DOMAIN origin' /\ origin'[o] = c.group
    BY <1>1, <2>1 DEF Grown, OrderIds
  <2> QED BY <1>2, <2>2 DEF DoneOnServer, ToSet
<1>3. CASE c.kind # "order"
  <2>1. PICK i \in DOMAIN payments : payments[i].group = c.group
    BY <1>3 DEF DoneOnServer, BookedFor
  <2>2. i \in DOMAIN payments' /\ payments'[i] = payments[i]
    BY <1>1, <2>1 DEF Grown
  <2> QED BY <1>3, <2>1, <2>2 DEF DoneOnServer, BookedFor
<1> QED BY <1>2, <1>3

\* What a step has to show: commands it takes out, and runs it sends on, are settled.
LEMMA LostKept ==
  ASSUME TypeOK, HasCommand, LostInv, Grown,
         \A c \in Commands : answers[c] \subseteq answers'[c],
         \A c \in Commands : Queued(c)' /\ queue'[c] = Gone
                               => (Queued(c) /\ queue[c] = Gone) \/ Settled(c)',
         \A t \in Tabs : sync'[t].pc \in Removing
                           => \/ sync[t].pc \in Removing /\ sync'[t].now = sync[t].now
                              \/ Settled(sync[t].now.cmd)'
  PROVE  LostInv'
<1>1. \A c \in Commands : Settled(c) => Settled(c)'
  BY DoneStays DEF Settled
<1>2. \A t \in Tabs : sync[t].pc \in Removing => sync[t].now.cmd \in Commands
  BY RunType, RecordType DEF HasCommand, Removing, AtWork
<1>3. ASSUME NEW t \in Tabs, sync'[t].pc \in Removing PROVE Settled(sync[t].now.cmd)'
  <2>1. CASE sync[t].pc \in Removing /\ sync'[t].now = sync[t].now
    <3>1. PICK c \in Commands : c = sync[t].now.cmd /\ Settled(c)
      BY <1>2, <2>1 DEF LostInv
    <3>2. Settled(c)' /\ c = sync'[t].now.cmd
      BY <1>1, <2>1, <3>1
    <3> QED BY <3>2
  <2> QED BY <1>3, <2>1
<1>4. \A c \in Commands : Queued(c)' /\ queue'[c] = Gone => Settled(c)'
  BY <1>1 DEF LostInv
<1> QED BY <1>3, <1>4 DEF LostInv

LEMMA EnqueueLoses ==
  ASSUME TypeOK, HasCommand, LostInv, NEW c \in Commands, NEW ref \in {Placeholder} \cup OrderIds, Enqueue(c, ref)
  PROVE  LostInv'
<1>1. Grown /\ UNCHANGED <<sync, answers>>
  BY ServerKeeps DEF Enqueue
<1>2. Record("pending", ref) # Gone
  <2>1. Record("pending", ref) \in Stored
    BY DEF Record, Stored
  <2> QED BY <2>1, StoredIsNotGone
<1>3. \A d \in Commands : Queued(d)' /\ queue'[d] = Gone => Queued(d) /\ queue[d] = Gone
  BY <1>2, LineGrows DEF Enqueue, TypeOK
<1> QED BY <1>1, <1>3, LostKept

LEMMA CashierLoses ==
  ASSUME TypeOK, HasCommand, LostInv, Cashier
  PROVE  LostInv'
<1>1. ASSUME NEW s \in Sales, SellOffline(s) \/ PaySale(s) PROVE LostInv'
  BY <1>1, EnqueueLoses, GroupsAreTold DEF SellOffline, PaySale
<1>2. ASSUME NEW b \in Bills, PayBill(b) PROVE LostInv'
  BY <1>2, EnqueueLoses, GroupsAreTold DEF PayBill
<1>3. ASSUME NEW c \in Commands, DiscardFailed(c) PROVE LostInv'
  <2>1. /\ queue \in [Commands -> Stored \cup {Gone}] /\ UNCHANGED <<line, sync>> /\ Grown
        /\ queue' = [queue EXCEPT ![c] = Gone]
        /\ answers \in [Commands -> SUBSET (Answer \cup {"discarded"})]
        /\ answers' = [answers EXCEPT ![c] = @ \cup {"discarded"}]
    BY <1>3, ServerKeeps DEF TypeOK, DiscardFailed
  <2>2. Settled(c)' /\ \A d \in Commands : answers[d] \subseteq answers'[d]
    BY <2>1 DEF Settled
  <2>3. \A d \in Commands : Queued(d)' /\ queue'[d] = Gone
                              => (Queued(d) /\ queue[d] = Gone) \/ Settled(d)'
    BY <2>1, <2>2, LineStays
  <2> QED BY <2>1, <2>2, <2>3, LostKept
<1>4. ASSUME NEW c \in Commands, NEW t \in Tabs, RetryRead(t, c) PROVE LostInv'
  <2>1. UNCHANGED <<line, queue, sync, answers>> /\ Grown
    BY <1>4, ServerKeeps DEF RetryRead
  <2> QED BY <2>1, LineStays, LostKept
<1> QED BY <1>1, <1>2, <1>3, <1>4 DEF Cashier

LEMMA PageLoses ==
  ASSUME TypeOK, HasCommand, LostInv,
         Disconnect \/ Connect \/ \E t \in Tabs : Reopen(t) \/ Reload(t)
  PROVE  LostInv'
<1>1. UNCHANGED <<line, queue, answers>> /\ Grown
  BY ServerKeeps DEF Disconnect, Connect, Reopen, Reload, client
<1>2. \A t \in Tabs : sync'[t] \in {sync[t], Started, AtRest}
  BY DEF Disconnect, Connect, Reopen, Reload, client, Trigger, TypeOK
<1>3. Started.pc = "list" /\ AtRest.pc = "idle"
  BY DEF Started, AtRest
<1>4. \A t \in Tabs : sync'[t].pc \in Removing => sync[t].pc \in Removing /\ sync'[t].now = sync[t].now
  BY <1>2, <1>3 DEF Removing
<1> QED BY <1>1, <1>4, LineStays, LostKept

LEMMA WorkLoses ==
  ASSUME TypeOK, HasCommand, LostInv, NEW t \in Tabs, Work(t)
  PROVE  LostInv'
<1>1. /\ UNCHANGED <<line, answers>> /\ Grown
      /\ sync \in [Tabs -> Run] /\ queue \in [Commands -> Stored \cup {Gone}]
  BY ServerKeeps DEF Work, List, Finish, Send, Bump, MarkFailed, RelinkRead, RelinkWrite,
     RemoveCommand, RetryWrite, TypeOK
<1>2. \A u \in Tabs : sync'[u].pc \in Removing => sync[u].pc \in Removing /\ sync'[u].now = sync[u].now
  <2>0. Started.pc = "list" /\ AtRest.pc = "idle"
    BY DEF Started, AtRest
  <2>1. CASE List(t) \/ MarkFailed(t) \/ RemoveCommand(t)
    BY <1>1, <2>1 DEF List, MarkFailed, RemoveCommand, Continue, Run, Removing
  <2>2. CASE Finish(t) \/ Bump(t) \/ RetryWrite(t)
    BY <1>1, <2>0, <2>2 DEF Finish, Bump, Break, RetryWrite, Trigger, Removing
  <2>3. CASE Send(t)
    <3>1. PICK r \in sync[t].todo :
            sync' = [sync EXCEPT ![t].pc   = IF online THEN "wait" ELSE "bump",
                                 ![t].now  = r,
                                 ![t].todo = @ \ {r}]
      BY <2>3 DEF Send
    <3> QED BY <1>1, <3>1 DEF Run, Removing
  <2>4. CASE RelinkRead(t)
    <3>1. CASE sync' = [sync EXCEPT ![t].pc = "put", ![t].copy = queue[PaymentOf(This(t).cmd.group)]]
      BY <1>1, <2>4, <3>1 DEF RelinkRead, At, Run, Removing
    <3>2. CASE sync' = [sync EXCEPT ![t].pc = "remove"]
      BY <1>1, <2>4, <3>2 DEF RelinkRead, At, Run, Removing
    <3> QED BY <2>4, <3>1, <3>2 DEF RelinkRead
  <2>5. CASE RelinkWrite(t)
    BY <1>1, <2>5 DEF RelinkWrite, Goto, At, Run, Removing
  <2> QED BY <2>1, <2>2, <2>3, <2>4, <2>5 DEF Work
<1>3. \A c \in Commands : queue'[c] = Gone => queue[c] = Gone \/ Settled(c)'
  <2>1. CASE List(t) \/ Finish(t) \/ Send(t) \/ RelinkRead(t)
    BY <2>1 DEF List, Finish, Send, RelinkRead
  <2>2. CASE Bump(t) \/ MarkFailed(t)
    <3>1. Record("pending", This(t).ref) # Gone /\ Record("failed", This(t).ref) # Gone
      BY <2>2, AtHand, RecordType DEF Bump, MarkFailed, At, AtWork
    <3> QED BY <1>1, <2>2, <3>1 DEF Bump, MarkFailed, Put
  <2>3. CASE RelinkWrite(t)
    <3>1. This(t).cmd.group \in Sales
      BY <2>3, GroupsAreTold DEF RelinkWrite, At, HasCommand, This
    <3>2. sync[t].copy \in Stored /\ sync[t].links[This(t).cmd.group] \in {Placeholder} \cup OrderIds
      BY <2>3, <3>1, RunType DEF RelinkWrite, At, HasCommand
    <3>3. Record(sync[t].copy.status, sync[t].links[This(t).cmd.group]) # Gone
      BY <3>2, StoredIsNotGone DEF Record, Stored
    <3> QED BY <1>1, <2>3, <3>3 DEF RelinkWrite, Put
  <2>4. CASE RemoveCommand(t)
    <3>1. PICK c \in Commands : c = This(t).cmd /\ Settled(c)
      BY <2>4, AtHand DEF RemoveCommand, At, AtWork, LostInv, Removing, This
    <3>2. Settled(c)'
      BY <1>1, <3>1, DoneStays DEF Settled
    <3>3. queue' = [queue EXCEPT ![c] = Gone]
      BY <2>4, <3>1 DEF RemoveCommand
    <3> QED BY <1>1, <3>2, <3>3
  <2>5. CASE RetryWrite(t)
    <3>1. Record("pending", retry[t].ref) # Gone
      BY <2>5, RecordType DEF RetryWrite, TypeOK
    <3> QED BY <1>1, <2>5, <3>1 DEF RetryWrite
  <2> QED BY <2>1, <2>2, <2>3, <2>4, <2>5 DEF Work
<1> QED BY <1>1, <1>2, <1>3, LineStays, LostKept

LEMMA ApplyDoes ==
  ASSUME TypeOK, NEW r \in Request, Apply(r)
  PROVE  DoneOnServer(r.cmd)'
<1>1. r.cmd.group \in Groups /\ origin \in Seq(Groups) /\ payments \in Seq([order : OrderIds, group : Groups])
  BY DEF TypeOK, Request, Commands, OrderOf, PaymentOf, Groups
<1>2. CASE CreateOrder(r)
  <2>1. r.cmd.kind = "order" /\ r.cmd.group \in ToSet(origin')
    BY <1>1, <1>2, Longer DEF CreateOrder
  <2> QED BY <2>1 DEF DoneOnServer
<1>3. CASE TakePayment(r)
  <2> DEFINE p == [order |-> r.ref, group |-> r.cmd.group]
  <2>1. p \in [order : OrderIds, group : Groups] /\ r.cmd.kind # "order"
    BY <1>1, <1>3 DEF TakePayment, Request
  <2>2. \E i \in DOMAIN payments' : payments'[i] = p
    <3>1. CASE KeyKnown(r)
      BY <1>3, <3>1 DEF TakePayment, KeyKnown, ToSet
    <3>2. CASE ~KeyKnown(r)
      <4>1. payments' = Append(payments, p)
        BY <1>3, <3>2 DEF TakePayment
      <4>2. Len(payments) + 1 \in DOMAIN payments' /\ payments'[Len(payments) + 1] = p
        BY <1>1, <2>1, <4>1, Longer
      <4> QED BY <4>2
    <3> QED BY <3>1, <3>2
  <2>3. BookedFor(r.cmd.group)' # {}
    BY <2>2 DEF BookedFor
  <2> QED BY <2>1, <2>3 DEF DoneOnServer
<1> QED BY <1>2, <1>3 DEF Apply

LEMMA ExchangeLoses ==
  ASSUME TypeOK, HasCommand, LostInv, NEW t \in Tabs, Exchange(t)
  PROVE  LostInv'
<1>1. PICK c \in Commands : c = sync[t].now.cmd /\ c = This(t).cmd /\ sync[t].pc = "wait"
  BY AtHand DEF Exchange, NetworkError, Accepted, Rejected, Conflicted, ServerError, At, AtWork, This
<1>2. /\ UNCHANGED <<queue, line>> /\ sync \in [Tabs -> Run]
      /\ answers \in [Commands -> SUBSET (Answer \cup {"discarded"})]
  BY DEF Exchange, NetworkError, Accepted, Rejected, Conflicted, ServerError, Reply, TypeOK
<1>3. CASE NetworkError(t)
  <2>1. Grown /\ UNCHANGED answers
    BY <1>3, ServerKeeps DEF NetworkError
  <2>2. \A u \in Tabs : sync'[u].pc \in Removing => sync[u].pc \in Removing /\ sync'[u].now = sync[u].now
    BY <1>2, <1>3 DEF NetworkError, Goto, Run, Removing
  <2> QED BY <1>2, <2>1, <2>2, LineStays, LostKept
<1>4. ASSUME NEW answer \in Answer, NEW links, Reply(t, answer, links), Grown,
             answer \in {"ack", "conflict"} => Settled(c)'
      PROVE  LostInv'
  <2>1. /\ sync' = [sync EXCEPT ![t].pc = AfterAnswer(c, answer), ![t].links = links]
        /\ answers' = [answers EXCEPT ![c] = @ \cup {answer}]
    BY <1>1, <1>4 DEF Reply
  <2>2. AfterAnswer(c, answer) \in Removing => answer \in {"ack", "conflict"}
    BY DEF AfterAnswer, Answer, Removing
  <2>3. /\ \A u \in Tabs : u # t => sync'[u] = sync[u]
        /\ sync'[t].pc = AfterAnswer(c, answer) /\ sync'[t].now = sync[t].now
    BY <1>2, <2>1 DEF Run
  <2>4. sync'[t].pc \in Removing => Settled(sync[t].now.cmd)'
    BY <1>1, <1>4, <2>2, <2>3
  <2>5. \A u \in Tabs : sync'[u].pc \in Removing
                          => \/ sync[u].pc \in Removing /\ sync'[u].now = sync[u].now
                             \/ Settled(sync[u].now.cmd)'
    BY <2>3, <2>4
  <2>6. \A d \in Commands : answers[d] \subseteq answers'[d]
    BY <1>2, <2>1
  <2> QED BY <1>2, <1>4, <2>5, <2>6, LineStays, LostKept
<1>5. CASE Accepted(t)
  <2>1. Linked(t) \in Request /\ Linked(t).cmd = c
    BY <1>1, AtHand DEF AtWork
  <2>2. DoneOnServer(c)' /\ Grown
    <3>1. PICK r \in Request : r.cmd = c /\ Apply(r)
      BY <1>5, <2>1 DEF Accepted
    <3> QED BY <3>1, ApplyDoes, ServerGrows
  <2>3. \E links : Reply(t, "ack", links)
    BY <1>5 DEF Accepted
  <2> QED BY <1>4, <2>2, <2>3 DEF Settled, Answer
<1>6. CASE Conflicted(t)
  <2>1. Reply(t, "conflict", sync[t].links) /\ Grown
    BY <1>6, ServerKeeps DEF Conflicted
  <2>2. "conflict" \in answers'[c]
    BY <1>1, <1>2, <2>1 DEF Reply
  <2> QED BY <1>4, <2>1, <2>2 DEF Settled, Answer
<1>7. CASE Rejected(t) \/ ServerError(t)
  <2>1. PICK answer \in {"reject", "retry"} : Reply(t, answer, sync[t].links)
    BY <1>7 DEF Rejected, ServerError
  <2>2. Grown
    BY <1>7, ServerKeeps DEF Rejected, ServerError
  <2> QED BY <1>4, <2>1, <2>2 DEF Answer
<1> QED BY <1>3, <1>5, <1>6, <1>7 DEF Exchange

LEMMA LostStep ==
  ASSUME TypeOK, HasCommand, LostInv, [Next]_vars
  PROVE  LostInv'
<1>1. CASE Next
  <2>1. ASSUME NEW r \in BagToSet(late), ServeLate(r) PROVE LostInv'
    <3>1. UNCHANGED <<line, queue, sync, answers>> /\ Grown
      BY <2>1, ServeLateType DEF ServeLate, client
    <3> QED BY <3>1, LineStays, LostKept
  <2> QED BY <1>1, <2>1, CashierLoses, PageLoses, WorkLoses, ExchangeLoses DEF Next
<1>2. CASE UNCHANGED vars
  <2>1. UNCHANGED <<line, queue, sync, answers>> /\ Grown
    BY <1>2, ServerKeeps DEF vars, client
  <2> QED BY <2>1, LineStays, LostKept
<1> QED BY <1>1, <1>2

\* Whatever fails, and however many pages work on the queue, a command that is
\* gone was carried out, discarded, or answered with HTTP 409
\* (offline-queue.ts:13-16,193-209,287-300).
THEOREM NothingLost == Spec => []LostOnlyByConflict
<1> DEFINE Inv == TypeOK /\ HasCommand /\ LostInv
<1>1. Init => Inv
  BY InitType, LostInvInit
<1>2. Inv /\ [Next]_vars => Inv'
  BY TypeStep, LostStep
<1>3. Inv => LostOnlyByConflict
  <2>1. TypeOK => \A c \in ToSet(line) : c \in Commands
    BY DEF TypeOK, ToSet
  <2> QED BY <2>1 DEF LostInv, Settled, LostOnlyByConflict, Queued
<1> QED BY <1>1, <1>2, <1>3, PTL DEF Spec

-----------------------------------------------------------------------------
(* Ids go where they belong: an id kept anywhere for a sale or bill is that *)
(* of an order made for it.                                                 *)

Own(g, ref) == ref = Placeholder \/ (ref \in OrderIds /\ origin[ref] = g)

OwnRun(t) ==
  /\ retry[t] # Gone => Own(retry[t].cmd.group, retry[t].ref)
  /\ \A r \in sync[t].todo : Own(r.cmd.group, r.ref)
  /\ sync[t].now # Gone => Own(sync[t].now.cmd.group, sync[t].now.ref)
  /\ \A s \in Sales : Own(s, sync[t].links[s])

OwnInv ==
  /\ \A c \in Commands : queue[c] # Gone => Own(c.group, queue[c].ref)
  /\ \A t \in Tabs : OwnRun(t)
  /\ \A r \in BagToSet(late) : Own(r.cmd.group, r.ref)
  /\ OnOwnOrder

LEMMA OwnInvInit ==
  ASSUME Init
  PROVE  OwnInv
BY DEF Init, OwnInv, OwnRun, AtRest, NoLinks, Own, OnOwnOrder, EmptyBag, SetToBag, BagToSet

LEMMA OwnStays ==
  ASSUME TypeOK, Grown, NEW g, NEW ref, Own(g, ref)
  PROVE  Own(g, ref)'
BY DEF Own, Grown

LEMMA OwnPayments ==
  ASSUME TypeOK, Grown, OnOwnOrder, UNCHANGED payments
  PROVE  OnOwnOrder'
<1>1. payments \in Seq([order : OrderIds, group : Groups])
  BY DEF TypeOK
<1>2. payments \in [1..Len(payments) -> [order : OrderIds, group : Groups]]
  BY <1>1, LenProperties
<1>3. \A i \in DOMAIN payments : payments[i].order \in OrderIds
  BY <1>2
<1> QED BY <1>3 DEF OnOwnOrder, Grown

LEMMA ApplyOwn ==
  ASSUME TypeOK, OnOwnOrder, NEW r \in Request, Own(r.cmd.group, r.ref), Apply(r)
  PROVE  OnOwnOrder'
<1>1. Grown
  BY ServerGrows
<1>2. CASE UNCHANGED payments
  BY <1>1, <1>2, OwnPayments
<1>3. CASE TakePayment(r) /\ payments' = Append(payments, [order |-> r.ref, group |-> r.cmd.group])
  <2>1. /\ origin' = origin /\ r.ref \in OrderIds /\ origin[r.ref] = r.cmd.group
        /\ r.cmd.group \in Groups /\ payments \in Seq([order : OrderIds, group : Groups])
    BY <1>3 DEF TakePayment, Own, TypeOK, Request, Commands, OrderOf, PaymentOf, Groups
  <2>2. [order |-> r.ref, group |-> r.cmd.group] \in [order : OrderIds, group : Groups]
    BY <2>1
  <2>3. /\ Len(payments) \in Nat /\ DOMAIN payments = 1..Len(payments)
        /\ DOMAIN payments' = 1..(Len(payments) + 1)
        /\ \A i \in 1..Len(payments) : payments'[i] = payments[i]
        /\ payments'[Len(payments) + 1] = [order |-> r.ref, group |-> r.cmd.group]
    BY <1>3, <2>1, <2>2, Longer
  <2> QED BY <2>1, <2>3 DEF OnOwnOrder
<1> QED BY <1>2, <1>3 DEF Apply, CreateOrder, TakePayment

\* What a step has to show of the ids it writes.
LEMMA OwnKept ==
  ASSUME TypeOK, OwnInv, Grown, OnOwnOrder',
         \A c \in Commands : queue'[c] \in {queue[c], Gone} \/ Own(c.group, queue'[c].ref),
         \A r \in BagToSet(late') : r \in BagToSet(late) \/ Own(r.cmd.group, r.ref),
         \A t \in Tabs :
           /\ retry'[t] \in {retry[t], Gone} \/ Own(retry'[t].cmd.group, retry'[t].ref)
           /\ \A r \in sync'[t].todo : r \in sync[t].todo \/ Own(r.cmd.group, r.ref)
           /\ sync'[t].now \in {sync[t].now, Gone} \cup sync[t].todo
           /\ \A s \in Sales : sync'[t].links[s] = sync[t].links[s] \/ Own(s, sync[t].links[s])'
  PROVE  OwnInv'
<1>1. ASSUME NEW c \in Commands, queue'[c] # Gone PROVE Own(c.group, queue[c].ref)'
  <2>1. PICK ref : ref = queue'[c].ref /\ Own(c.group, ref)
    BY <1>1 DEF OwnInv
  <2>2. Own(c.group, ref)'
    BY <2>1, OwnStays
  <2> QED BY <2>1, <2>2
<1>2. ASSUME NEW t \in Tabs PROVE OwnRun(t)'
  <2>0. \A g, ref : Own(g, ref) => Own(g, ref)'
    BY OwnStays
  <2>1. ASSUME retry'[t] # Gone PROVE Own(retry[t].cmd.group, retry[t].ref)'
    <3>1. PICK r : r = retry'[t] /\ Own(r.cmd.group, r.ref)
      BY <2>1 DEF OwnInv, OwnRun
    <3>2. Own(r.cmd.group, r.ref)'
      BY <2>0, <3>1
    <3> QED BY <3>1, <3>2
  <2>2. ASSUME NEW r \in sync'[t].todo PROVE Own(r.cmd.group, r.ref)'
    <3>1. Own(r.cmd.group, r.ref)
      BY <2>2 DEF OwnInv, OwnRun
    <3> QED BY <2>0, <3>1
  <2>3. ASSUME sync'[t].now # Gone PROVE Own(sync[t].now.cmd.group, sync[t].now.ref)'
    <3>1. PICK r : r = sync'[t].now /\ Own(r.cmd.group, r.ref)
      BY <2>3 DEF OwnInv, OwnRun
    <3>2. Own(r.cmd.group, r.ref)'
      BY <2>0, <3>1
    <3> QED BY <3>1, <3>2
  <2>4. ASSUME NEW s \in Sales PROVE Own(s, sync[t].links[s])'
    <3>1. CASE sync'[t].links[s] = sync[t].links[s]
      <4>1. PICK ref : ref = sync'[t].links[s] /\ Own(s, ref)
        BY <3>1 DEF OwnInv, OwnRun
      <4>2. Own(s, ref)'
        BY <2>0, <4>1
      <4> QED BY <4>1, <4>2
    <3> QED BY <3>1
  <2> QED BY <2>1, <2>2, <2>3, <2>4 DEF OwnRun
<1>3. ASSUME NEW r \in BagToSet(late') PROVE Own(r.cmd.group, r.ref)'
  <2>1. Own(r.cmd.group, r.ref)
    BY <1>3 DEF OwnInv
  <2> QED BY <2>1, OwnStays
<1>4. BagToSet(late)' = BagToSet(late')
  BY DEF BagToSet
<1> QED BY <1>1, <1>2, <1>3, <1>4 DEF OwnInv


LEMMA EnqueueOwn ==
  ASSUME TypeOK, OwnInv, NEW c \in Commands, NEW ref \in {Placeholder} \cup OrderIds,
         Own(c.group, ref), Enqueue(c, ref)
  PROVE  OwnInv'
<1>1. Grown /\ OnOwnOrder' /\ UNCHANGED <<sync, retry, late>>
  BY ServerKeeps, OwnPayments DEF Enqueue, OwnInv, server
<1>2. \A d \in Commands : queue'[d] \in {queue[d], Gone} \/ Own(d.group, queue'[d].ref)
  BY DEF Enqueue, TypeOK, Record
<1> QED BY <1>1, <1>2, OwnKept

LEMMA CashierOwn ==
  ASSUME TypeOK, OwnInv, Cashier
  PROVE  OwnInv'
<1>1. ASSUME NEW s \in Sales, SellOffline(s) \/ PaySale(s) PROVE OwnInv'
  BY <1>1, EnqueueOwn, GroupsAreTold DEF SellOffline, PaySale, Own
<1>2. ASSUME NEW b \in Bills, PayBill(b) PROVE OwnInv'
  <2>1. PICK o \in OrderIds : origin[o] = b /\ Enqueue(PaymentOf(b), o)
    BY <1>2 DEF PayBill
  <2>2. PaymentOf(b) \in Commands /\ PaymentOf(b).group = b
    BY GroupsAreTold
  <2> QED BY <2>1, <2>2, EnqueueOwn DEF Own
<1>3. ASSUME NEW c \in Commands, DiscardFailed(c) PROVE OwnInv'
  <2>1. Grown /\ OnOwnOrder' /\ UNCHANGED <<sync, retry, late>>
    BY <1>3, ServerKeeps, OwnPayments DEF DiscardFailed, OwnInv, server
  <2>2. \A d \in Commands : queue'[d] \in {queue[d], Gone}
    BY <1>3 DEF DiscardFailed, TypeOK
  <2> QED BY <2>1, <2>2, OwnKept
<1>4. ASSUME NEW c \in Commands, NEW t \in Tabs, RetryRead(t, c) PROVE OwnInv'
  <2>1. Grown /\ OnOwnOrder' /\ UNCHANGED <<queue, sync, late>>
    BY <1>4, ServerKeeps, OwnPayments DEF RetryRead, OwnInv, server
  <2>2. Own(c.group, queue[c].ref)
    BY <1>4 DEF RetryRead, Failed, OwnInv
  <2>3. retry' = [retry EXCEPT ![t] = [cmd |-> c, ref |-> queue[c].ref]] /\ retry \in [Tabs -> Request \cup {Gone}]
    BY <1>4 DEF RetryRead, TypeOK
  <2>4. \A u \in Tabs : retry'[u] \in {retry[u], Gone} \/ Own(retry'[u].cmd.group, retry'[u].ref)
    <3>1. \A u \in Tabs : u # t => retry'[u] = retry[u]
      BY <2>3
    <3>2. Own(retry'[t].cmd.group, retry'[t].ref)
      BY <2>2, <2>3
    <3> QED BY <3>1, <3>2
  <2> QED BY <2>1, <2>4, OwnKept
<1> QED BY <1>1, <1>2, <1>3, <1>4 DEF Cashier

\* The id a request is sent with is one of its own group.
LEMMA LinkedOwn ==
  ASSUME TypeOK, HasCommand, OwnInv, NEW t \in Tabs, sync[t].pc \in AtWork
  PROVE  Own(Linked(t).cmd.group, Linked(t).ref)
<1>1. Own(This(t).cmd.group, This(t).ref) /\ This(t) \in Request
  BY AtHand DEF OwnInv, OwnRun, HasCommand, This
<1>2. \A s \in Sales : Own(s, sync[t].links[s])
  BY DEF OwnInv, OwnRun
<1>3. CASE This(t).cmd.kind = "payment" /\ This(t).cmd.group \in Sales /\ This(t).ref = Placeholder
  <2>1. Linked(t).ref = sync[t].links[This(t).cmd.group] /\ Linked(t).cmd = This(t).cmd
    BY <1>1, <1>3 DEF Linked, Request
  <2> QED BY <1>2, <1>3, <2>1
<1>4. CASE ~(This(t).cmd.kind = "payment" /\ This(t).cmd.group \in Sales /\ This(t).ref = Placeholder)
  BY <1>1, <1>4 DEF Linked
<1> QED BY <1>3, <1>4

LEMMA AbandonOwn ==
  ASSUME TypeOK, HasCommand, OwnInv, NEW t \in Tabs, Abandon(t)
  PROVE  \A r \in BagToSet(late') : r \in BagToSet(late) \/ Own(r.cmd.group, r.ref)
<1>1. CASE sync[t].pc = "wait"
  <2>1. late' = late (+) SetToBag({Linked(t)}) /\ Own(Linked(t).cmd.group, Linked(t).ref)
    BY <1>1, LinkedOwn DEF Abandon, AtWork
  <2>2. DOMAIN late' = DOMAIN late \cup {Linked(t)}
    BY <2>1 DEF SetToBag, (+)
  <2> QED BY <2>1, <2>2 DEF BagToSet
<1>2. CASE sync[t].pc # "wait"
  BY <1>2 DEF Abandon
<1> QED BY <1>1, <1>2

LEMMA PageOwn ==
  ASSUME TypeOK, HasCommand, OwnInv,
         Disconnect \/ Connect \/ \E t \in Tabs : Reopen(t) \/ Reload(t)
  PROVE  OwnInv'
<1>1. Grown /\ OnOwnOrder' /\ UNCHANGED queue
  BY ServerKeeps, OwnPayments DEF Disconnect, Connect, Reopen, Reload, client, OwnInv, server
<1>2. \A t \in Tabs : sync'[t] \in {sync[t], Started, AtRest} /\ retry'[t] \in {retry[t], Gone}
  BY DEF Disconnect, Connect, Reopen, Reload, client, Trigger, TypeOK
<1>3. \A r \in BagToSet(late') : r \in BagToSet(late) \/ Own(r.cmd.group, r.ref)
  BY AbandonOwn DEF Disconnect, Connect, Reopen, Reload
<1>4. \A run \in {Started, AtRest} :
        run.todo = {} /\ run.now = Gone /\ \A s \in Sales : run.links[s] = Placeholder
  BY DEF Started, AtRest, NoLinks
<1>5. \A t \in Tabs :
        /\ \A r \in sync'[t].todo : r \in sync[t].todo
        /\ sync'[t].now \in {sync[t].now, Gone}
        /\ \A s \in Sales : sync'[t].links[s] = sync[t].links[s] \/ Own(s, sync[t].links[s])'
  BY <1>2, <1>4 DEF Own
<1> QED BY <1>1, <1>2, <1>3, <1>5, OwnKept


LEMMA WorkOwn ==
  ASSUME TypeOK, HasCommand, OwnInv, NEW t \in Tabs, Work(t)
  PROVE  OwnInv'
<1>1. /\ Grown /\ OnOwnOrder' /\ UNCHANGED late
      /\ sync \in [Tabs -> Run] /\ queue \in [Commands -> Stored \cup {Gone}]
      /\ \A u \in Tabs : retry'[u] \in {retry[u], Gone}
  <2>1. UNCHANGED <<late, server>> /\ \A u \in Tabs : retry'[u] \in {retry[u], Gone}
    BY DEF Work, List, Finish, Send, Bump, MarkFailed, RelinkRead, RelinkWrite,
       RemoveCommand, RetryWrite, TypeOK
  <2> QED BY <2>1, ServerKeeps, OwnPayments DEF TypeOK, OwnInv, server
<1>2. \A c \in Commands : queue'[c] \in {queue[c], Gone} \/ Own(c.group, queue'[c].ref)
  <2>1. CASE List(t) \/ Finish(t) \/ Send(t) \/ RelinkRead(t)
    BY <2>1 DEF List, Finish, Send, RelinkRead
  <2>2. CASE Bump(t) \/ MarkFailed(t)
    <3>1. Own(This(t).cmd.group, This(t).ref)
      BY <2>2 DEF Bump, MarkFailed, At, AtWork, HasCommand, OwnInv, OwnRun, This
    <3> QED BY <1>1, <2>2, <3>1 DEF Bump, MarkFailed, Put, Record
  <2>3. CASE RelinkWrite(t)
    <3>1. PICK s \in Sales : s = This(t).cmd.group
      BY <2>3, GroupsAreTold DEF RelinkWrite, At, HasCommand, This
    <3>2. Own(s, sync[t].links[s]) /\ PaymentOf(s).group = s
      BY <3>1, GroupsAreTold DEF OwnInv, OwnRun
    <3>3. queue' = [queue EXCEPT ![PaymentOf(s)] = Record(sync[t].copy.status, sync[t].links[s])]
      BY <2>3, <3>1 DEF RelinkWrite, Put
    <3> QED BY <1>1, <3>2, <3>3 DEF Record
  <2>4. CASE RemoveCommand(t)
    BY <1>1, <2>4 DEF RemoveCommand
  <2>5. CASE RetryWrite(t)
    <3>1. Own(retry[t].cmd.group, retry[t].ref)
      BY <2>5 DEF RetryWrite, OwnInv, OwnRun
    <3> QED BY <1>1, <2>5, <3>1 DEF RetryWrite, Record
  <2> QED BY <2>1, <2>2, <2>3, <2>4, <2>5 DEF Work
<1>3. \A u \in Tabs :
        /\ \A r \in sync'[u].todo : r \in sync[u].todo \/ Own(r.cmd.group, r.ref)
        /\ sync'[u].now \in {sync[u].now, Gone} \cup sync[u].todo
        /\ \A s \in Sales : sync'[u].links[s] \in {sync[u].links[s], Placeholder}
  <2>0. \A run \in {Started, AtRest} :
          run.todo = {} /\ run.now = Gone /\ \A s \in Sales : run.links[s] = Placeholder
    BY DEF Started, AtRest, NoLinks
  <2>1. CASE List(t)
    <3>1. \A r \in {[cmd |-> c, ref |-> queue[c].ref] : c \in {d \in Commands : Pending(d)}} :
            Own(r.cmd.group, r.ref)
      BY DEF Pending, OwnInv
    <3> QED BY <1>1, <2>1, <3>1 DEF List, Run
  <2>2. CASE Send(t)
    <3>1. PICK r \in sync[t].todo :
            sync' = [sync EXCEPT ![t].pc   = IF online THEN "wait" ELSE "bump",
                                 ![t].now  = r,
                                 ![t].todo = @ \ {r}]
      BY <2>2 DEF Send
    <3> QED BY <1>1, <3>1 DEF Run
  <2>3. CASE MarkFailed(t) \/ RemoveCommand(t)
    BY <1>1, <2>3 DEF MarkFailed, RemoveCommand, Continue, Run
  <2>4. CASE Finish(t) \/ Bump(t) \/ RetryWrite(t)
    BY <1>1, <2>0, <2>4 DEF Finish, Bump, Break, RetryWrite, Trigger
  <2>5. CASE RelinkRead(t)
    BY <1>1, <2>5 DEF RelinkRead, Run
  <2>6. CASE RelinkWrite(t)
    BY <1>1, <2>6 DEF RelinkWrite, Goto, Run
  <2> QED BY <2>1, <2>2, <2>3, <2>4, <2>5, <2>6 DEF Work
<1>4. \A u \in Tabs : \A s \in Sales :
        sync'[u].links[s] = sync[u].links[s] \/ Own(s, sync[u].links[s])'
  BY <1>3 DEF Own
<1> QED BY <1>1, <1>2, <1>3, <1>4, OwnKept

\* An answer moves the run that waits for it, and may teach it an id.
LEMMA ReplyOwn ==
  ASSUME TypeOK, OwnInv, NEW t \in Tabs, NEW answer, NEW links, Reply(t, answer, links),
         Grown, OnOwnOrder',
         \A s \in Sales : links[s] = sync[t].links[s] \/ (links[s] \in OrderIds' /\ origin'[links[s]] = s)
  PROVE  OwnInv'
<1>1. /\ UNCHANGED <<queue, retry, late>> /\ sync \in [Tabs -> Run]
      /\ sync' = [sync EXCEPT ![t].pc = AfterAnswer(This(t).cmd, answer), ![t].links = links]
  BY DEF Reply, TypeOK
<1>2. /\ \A u \in Tabs : sync'[u].todo = sync[u].todo /\ sync'[u].now = sync[u].now
      /\ \A u \in Tabs : u # t => sync'[u].links = sync[u].links
      /\ sync'[t].links = links
  BY <1>1 DEF Run
<1>3. \A u \in Tabs : \A s \in Sales :
        sync'[u].links[s] = sync[u].links[s] \/ Own(s, sync[u].links[s])'
  BY <1>2 DEF Own
<1> QED BY <1>1, <1>2, <1>3, OwnKept

LEMMA ExchangeOwn ==
  ASSUME TypeOK, HasCommand, OwnInv, NEW t \in Tabs, Exchange(t)
  PROVE  OwnInv'
<1>1. CASE NetworkError(t)
  <2>1. Grown /\ OnOwnOrder' /\ UNCHANGED <<queue, retry>> /\ sync \in [Tabs -> Run]
    BY <1>1, ServerKeeps, OwnPayments DEF NetworkError, OwnInv, server, TypeOK
  <2>2. \A u \in Tabs : /\ sync'[u].todo = sync[u].todo /\ sync'[u].now = sync[u].now
                        /\ sync'[u].links = sync[u].links
    BY <1>1, <2>1 DEF NetworkError, Goto, Run
  <2>3. \A r \in BagToSet(late') : r \in BagToSet(late) \/ Own(r.cmd.group, r.ref)
    BY <1>1, AbandonOwn DEF NetworkError
  <2> QED BY <2>1, <2>2, <2>3, OwnKept
<1>2. CASE Rejected(t) \/ Conflicted(t) \/ ServerError(t)
  <2>1. PICK answer : Reply(t, answer, sync[t].links)
    BY <1>2 DEF Rejected, Conflicted, ServerError
  <2>2. Grown /\ OnOwnOrder'
    BY <1>2, ServerKeeps, OwnPayments DEF Rejected, Conflicted, ServerError, OwnInv, server
  <2> QED BY <2>1, <2>2, ReplyOwn
<1>3. CASE Accepted(t)
  <2>1. sync[t].pc \in AtWork
    BY <1>3 DEF Accepted, At, AtWork
  <2>2. PICK r \in Request : r = Linked(t) /\ r.cmd = This(t).cmd /\ Own(r.cmd.group, r.ref) /\ Apply(r)
    BY <1>3, <2>1, AtHand, LinkedOwn DEF Accepted
  <2>3. Grown /\ OnOwnOrder'
    BY <2>2, ServerGrows, ApplyOwn DEF OwnInv
  <2>4. CASE r.cmd.kind # "order"
    <3>1. Reply(t, "ack", sync[t].links)
      BY <1>3, <2>2, <2>4 DEF Accepted
    <3> QED BY <2>3, <3>1, ReplyOwn
  <2>5. CASE r.cmd.kind = "order"
    <3>1. origin \in Seq(Groups) /\ r.cmd.group \in Groups /\ origin' = Append(origin, r.cmd.group)
      BY <2>2, <2>5 DEF TypeOK, Apply, CreateOrder, TakePayment, Request, Commands, OrderOf, PaymentOf, Groups
    <3>2. Len(origin) + 1 \in OrderIds' /\ origin'[Len(origin) + 1] = r.cmd.group
      BY <3>1, Longer DEF OrderIds
    <3>3. PICK links : /\ links = [sync[t].links EXCEPT ![r.cmd.group] = Len(origin) + 1]
                       /\ Reply(t, "ack", links)
      BY <1>3, <2>2, <2>5 DEF Accepted
    <3>4. \A s \in Sales : links[s] = sync[t].links[s] \/ (links[s] \in OrderIds' /\ origin'[links[s]] = s)
      <4>1. sync[t].links \in [Sales -> {Placeholder} \cup OrderIds]
        BY RunType
      <4> QED BY <3>2, <3>3, <4>1
    <3>5. Reply(t, "ack", links)
      BY <3>3
    <3> QED BY <2>3, <3>4, <3>5, ReplyOwn
  <2> QED BY <2>4, <2>5
<1> QED BY <1>1, <1>2, <1>3 DEF Exchange

LEMMA LateOwn ==
  ASSUME TypeOK, OwnInv, NEW r \in BagToSet(late), ServeLate(r)
  PROVE  OwnInv'
<1>1. r \in Request /\ Own(r.cmd.group, r.ref) /\ Apply(r) /\ UNCHANGED <<queue, sync, retry>>
  BY DEF ServeLate, client, TypeOK, OwnInv
<1>2. Grown /\ OnOwnOrder'
  BY <1>1, ServerGrows, ApplyOwn DEF OwnInv
<1>3. BagToSet(late') \subseteq BagToSet(late)
  BY DEF ServeLate, BagToSet, (-)
<1> QED BY <1>1, <1>2, <1>3, OwnKept

LEMMA OwnStep ==
  ASSUME TypeOK, HasCommand, OwnInv, [Next]_vars
  PROVE  OwnInv'
<1>1. CASE Next
  BY <1>1, CashierOwn, PageOwn, WorkOwn, ExchangeOwn, LateOwn DEF Next
<1>2. CASE UNCHANGED vars
  <2>1. Grown /\ OnOwnOrder' /\ UNCHANGED <<queue, sync, retry, late>>
    BY <1>2, ServerKeeps, OwnPayments DEF vars, client, server, OwnInv
  <2> QED BY <2>1, OwnKept
<1> QED BY <1>1, <1>2

\* No payment is ever booked on the order of another sale or bill, however many
\* pages learn, relink and write back ids at the same time
\* (offline-queue.ts:173-190,238-243).
THEOREM PaidOnOwnOrder == Spec => []OnOwnOrder
<1> DEFINE Inv == TypeOK /\ HasCommand /\ OwnInv
<1>1. Init => Inv
  BY InitType, OwnInvInit
<1>2. Inv /\ [Next]_vars => Inv'
  BY TypeStep, OwnStep
<1>3. Inv => OnOwnOrder
  BY DEF OwnInv
<1> QED BY <1>1, <1>2, <1>3, PTL DEF Spec
=============================================================================
