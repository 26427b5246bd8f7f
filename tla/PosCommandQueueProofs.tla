------------------------ MODULE PosCommandQueueProofs ------------------------
(***************************************************************************)
(* What holds of the command queue for any number of pages, orders, tables  *)
(* and commands, and any number of failures.                                *)
(***************************************************************************)
EXTENDS PosCommandQueue, SequenceTheorems, TLAPS

-----------------------------------------------------------------------------
(* Types. *)

\* Every command is for an order or a table of the screens.
LEMMA CommandType ==
  ASSUME NEW c \in Commands
  PROVE  c.on \in Places
BY CommandsAssumption DEF Places

\* What a page does to its store leaves a store.
LEMMA SetType ==
  ASSUME TypeOK, NEW p \in Pages, NEW s \in Store, Set(p, s)
  PROVE  mem' \in [Pages -> Store] /\ disk' \in Store
BY DEF TypeOK, Set

LEMMA StatusType ==
  ASSUME NEW s \in Store, NEW c \in Commands, NEW status \in Status
  PROVE  [s EXCEPT !.item[c] = status] \in Store
BY DEF Store

LEMMA AnswerType ==
  ASSUME NEW s \in Store, NEW c \in Commands
  PROVE  Acknowledged(s, c) \in Store /\ Refused(s, c) \in Store
<1>1. c.on \in Places
  BY CommandType
<1>2. s.overlay[c.on] \in Seq(Commands) /\ s.undo[c] \in Seq(Commands) /\ <<>> \in Seq(Commands)
  BY <1>1 DEF Store
<1>3. Acknowledged(s, c) \in Store
  BY <1>1, <1>2 DEF Acknowledged, Store, Status
<1>4. Refused(s, c) \in Store
  BY <1>1, <1>2 DEF Refused, Store, Status
<1> QED BY <1>3, <1>4

LEMMA ClickType ==
  ASSUME NEW s \in Store, NEW c \in Commands
  PROVE  [s EXCEPT !.item[c] = "queued", !.undo[c] = s.overlay[c.on],
                   !.overlay[c.on] = Append(s.overlay[c.on], c)] \in Store
<1>1. c.on \in Places
  BY CommandType
<1>2. s.overlay[c.on] \in Seq(Commands)
  BY <1>1 DEF Store
<1>3. Append(s.overlay[c.on], c) \in Seq(Commands)
  BY <1>2
<1> QED BY <1>1, <1>2, <1>3 DEF Store, Status

\* A command that is queued joins the end of the line, which keeps its order.
LEMMA LineGrows ==
  ASSUME TypeOK, NEW c \in Commands, ~Clicked(c), line' = Append(line, c)
  PROVE  /\ line' \in Seq(Commands) /\ IsInjective(line')
         /\ \A d \in Commands : Clicked(d)' <=> Clicked(d) \/ d = c
<1>1. line \in Seq(Commands) /\ IsInjective(line)
  BY DEF TypeOK
<1>2. /\ line' \in Seq(Commands) /\ Len(line') = Len(line) + 1 /\ Len(line) \in Nat
      /\ DOMAIN line = 1..Len(line) /\ DOMAIN line' = 1..(Len(line) + 1)
      /\ \A i \in 1..Len(line) : line'[i] = line[i]
      /\ line'[Len(line) + 1] = c
  BY <1>1, LenProperties
<1>3. \A i \in 1..Len(line) : line[i] # c
  BY <1>2 DEF Clicked, Range
<1>4. IsInjective(line')
  BY <1>1, <1>2, <1>3 DEF IsInjective
<1>5. \A d \in Commands : Clicked(d)' <=> Clicked(d) \/ d = c
  BY <1>2 DEF Clicked, Range
<1> QED BY <1>2, <1>4, <1>5

LEMMA MountType ==
  ASSUME TypeOK, NEW p \in Pages, Mount(p)
  PROVE  mount' \in [Pages -> Nat] /\ mounts' \in Nat
BY DEF TypeOK, Mount

LEMMA MishapType ==
  ASSUME TypeOK, Mishap
  PROVE  failures' \in 0..MaxFailures
BY PosBounds DEF TypeOK, Mishap

LEMMA AbandonType ==
  ASSUME TypeOK, NEW c \in Commands, Abandon(c)
  PROVE  late' \in [Commands -> Nat]
BY DEF TypeOK, Abandon

LEMMA CarryOutType ==
  ASSUME TypeOK, NEW c \in Commands, CarryOut(c)
  PROVE  applied' \in [Commands -> Nat]
BY DEF TypeOK, CarryOut

LEMMA ResolveType ==
  ASSUME TypeOK, NEW p \in Pages, flight[p] \in Commands, NEW answer \in {"ack", "refused"}, Resolve(p, answer)
  PROVE  /\ mem' \in [Pages -> Store] /\ disk' \in Store
         /\ outcome' \in [Commands -> SUBSET {"ack", "refused", "died"}]
         /\ flight' \in [Pages -> Commands \cup {Idle, Loop}]
<1>1. mem[p] \in Store
  BY DEF TypeOK
<1>2. mem' \in [Pages -> Store] /\ disk' \in Store
  <2>1. CASE Waits(p, flight[p])
    BY <1>1, <2>1, AnswerType, SetType DEF Resolve
  <2>2. CASE ~Waits(p, flight[p])
    BY <2>2 DEF Resolve, TypeOK
  <2> QED BY <2>1, <2>2
<1>3. outcome' \in [Commands -> SUBSET {"ack", "refused", "died"}]
  BY DEF Resolve, TypeOK
<1>4. flight' \in [Pages -> Commands \cup {Idle, Loop}]
  BY DEF Resolve, TypeOK
<1> QED BY <1>2, <1>3, <1>4

LEMMA RetryType ==
  ASSUME TypeOK, NEW p \in Pages, flight[p] \in Commands, Retry(p)
  PROVE  /\ mem' \in [Pages -> Store] /\ disk' \in Store
         /\ flight' \in [Pages -> Commands \cup {Idle, Loop}]
<1>1. mem[p] \in Store
  BY DEF TypeOK
<1>2. mem' \in [Pages -> Store] /\ disk' \in Store
  BY <1>1, StatusType, SetType DEF Retry, Status
<1> QED BY <1>2 DEF Retry, TypeOK

LEMMA TypeInit == Init => TypeOK
<1> SUFFICES ASSUME Init PROVE TypeOK
  OBVIOUS
<1>1. EmptyStore \in Store
  BY DEF EmptyStore, Store, Status
<1>2. <<>> \in Seq(Commands) /\ IsInjective(<<>>)
  BY DEF IsInjective
<1> QED BY <1>1, <1>2, PosBounds DEF Init, TypeOK

LEMMA TypeStep == TypeOK /\ [Next]_vars => TypeOK'
<1> SUFFICES ASSUME TypeOK, [Next]_vars PROVE TypeOK'
  OBVIOUS
<1> USE DEF page, panel, server
<1>1. ASSUME NEW p \in Pages, NEW c \in Commands, Click(p, c)
      PROVE  TypeOK'
  <2>1. mem[p] \in Store
    BY DEF TypeOK
  <2>2. mem' \in [Pages -> Store] /\ disk' \in Store
    BY <1>1, <2>1, ClickType, SetType DEF Click
  <2>3. mount' \in [Pages -> Nat] /\ mounts' \in Nat
    BY <1>1, MountType DEF Click, TypeOK
  <2>4. line' \in Seq(Commands) /\ IsInjective(line')
    BY <1>1, LineGrows DEF Click
  <2>5. stamp' \in [Commands -> Nat]
    BY <1>1 DEF Click, TypeOK
  <2> QED BY <1>1, <2>2, <2>3, <2>4, <2>5 DEF Click, TypeOK
<1>2. ASSUME NEW p \in Pages, Select(p)
      PROVE  TypeOK'
  BY <1>2, MountType DEF Select, TypeOK
<1>3. ASSUME NEW p \in Pages, Send(p)
      PROVE  TypeOK'
  <2>1. PICK c \in Commands : /\ Set(p, [mem[p] EXCEPT !.item[c] = "sending"])
                              /\ flight' = [flight EXCEPT ![p] = c]
    BY <1>3 DEF Send
  <2>2. mem[p] \in Store
    BY DEF TypeOK
  <2>3. mem' \in [Pages -> Store] /\ disk' \in Store
    BY <2>1, <2>2, StatusType, SetType DEF Status
  <2>4. flight' \in [Pages -> Commands \cup {Idle, Loop}]
    BY <2>1 DEF TypeOK
  <2> QED BY <1>3, <2>3, <2>4 DEF Send, TypeOK
<1>4. ASSUME NEW p \in Pages, EndFlush(p)
      PROVE  TypeOK'
  BY <1>4 DEF EndFlush, TypeOK
<1>5. ASSUME NEW p \in Pages, Ack(p)
      PROVE  TypeOK'
  BY <1>5, ResolveType, CarryOutType DEF Ack, TypeOK
<1>6. ASSUME NEW p \in Pages, Refuse(p)
      PROVE  TypeOK'
  BY <1>6, ResolveType DEF Refuse, TypeOK
<1>7. ASSUME NEW p \in Pages, Busy(p) \/ NetworkError(p)
      PROVE  TypeOK'
  BY <1>7, RetryType, AbandonType, MishapType DEF Busy, NetworkError, TypeOK
<1>8. ASSUME NEW p \in Pages, Reload(p)
      PROVE  TypeOK'
  <2>1. mem' \in [Pages -> Store] /\ flight' \in [Pages -> Commands \cup {Idle, Loop}]
    BY <1>8 DEF Reload, TypeOK
  <2>2. late' \in [Commands -> Nat]
    BY <1>8, AbandonType DEF Reload, TypeOK
  <2>3. outcome' \in [Commands -> SUBSET {"ack", "refused", "died"}]
    <3>1. outcome \in [Commands -> SUBSET {"ack", "refused", "died"}]
      BY DEF TypeOK
    <3>2. CASE flight[p] \in Commands
      <4>1. outcome' = [outcome EXCEPT ![flight[p]] = @ \cup {"died"}]
        BY <1>8, <3>2 DEF Reload
      <4> QED BY <3>1, <3>2, <4>1
    <3>3. CASE flight[p] \notin Commands
      BY <1>8, <3>1, <3>3 DEF Reload
    <3> QED BY <3>2, <3>3
  <2> QED BY <1>8, <2>1, <2>2, <2>3, MountType, MishapType DEF Reload, TypeOK
<1>9. ASSUME NEW c \in Commands, ServeLate(c)
      PROVE  TypeOK'
  <2>1. late' \in [Commands -> Nat]
    BY <1>9 DEF ServeLate, TypeOK
  <2>2. applied' \in [Commands -> Nat]
    BY <1>9, CarryOutType DEF ServeLate, TypeOK
  <2> QED BY <1>9, <2>1, <2>2 DEF ServeLate, TypeOK
<1>10. CASE Disconnect \/ Connect
  BY <1>10, MishapType DEF Disconnect, Connect, TypeOK
<1>11. CASE UNCHANGED vars
  BY <1>11 DEF vars, TypeOK
<1> QED BY <1>1, <1>2, <1>3, <1>4, <1>5, <1>6, <1>7, <1>8, <1>9, <1>10, <1>11 DEF Next

-----------------------------------------------------------------------------
(* Only what was clicked is stored, sent or carried out. *)

\* The commands that wait in a store were clicked.
Tidy(s) == \A c \in Commands : s.item[c] # "gone" => Clicked(c)

OnlyClicked ==
  /\ \A p \in Pages : Tidy(mem[p])
  /\ Tidy(disk)
  /\ \A p \in Pages : flight[p] \in Commands => Clicked(flight[p])
  /\ \A c \in Commands : late[c] > 0 \/ applied[c] > 0 => Clicked(c)

\* A page that changes its store by a command that was clicked leaves it tidy.
LEMMA TidySet ==
  ASSUME TypeOK, OnlyClicked, line' = line, NEW p \in Pages, NEW s, Set(p, s), Tidy(s)
  PROVE  (\A q \in Pages : Tidy(mem'[q])) /\ Tidy(disk')
BY DEF OnlyClicked, Set, TypeOK

LEMMA TidyItem ==
  ASSUME NEW s \in Store, Tidy(s), NEW c \in Commands, Clicked(c), NEW status
  PROVE  Tidy([s EXCEPT !.item[c] = status])
BY DEF Tidy, Store

LEMMA TidyAnswer ==
  ASSUME NEW s \in Store, Tidy(s), NEW c \in Commands
  PROVE  Tidy(Acknowledged(s, c)) /\ Tidy(Refused(s, c))
BY DEF Tidy, Store, Acknowledged, Refused

LEMMA ClickedStep == TypeOK /\ OnlyClicked /\ [Next]_vars => OnlyClicked'
<1> SUFFICES ASSUME TypeOK, OnlyClicked, [Next]_vars PROVE OnlyClicked'
  OBVIOUS
<1> USE DEF page, panel, server
<1>1. ASSUME NEW p \in Pages, NEW c \in Commands, Click(p, c)
      PROVE  OnlyClicked'
  <2>1. \A d \in Commands : Clicked(d)' <=> Clicked(d) \/ d = c
    BY <1>1, LineGrows DEF Click
  <2> DEFINE s == [mem[p] EXCEPT !.item[c] = "queued", !.undo[c] = mem[p].overlay[c.on],
                                 !.overlay[c.on] = Append(mem[p].overlay[c.on], c)]
  <2>2. Set(p, s)
    BY <1>1 DEF Click
  <2>3. \A d \in Commands : s.item[d] # "gone" => Clicked(d) \/ d = c
    BY DEF OnlyClicked, Tidy, TypeOK, Store
  <2> HIDE DEF s
  <2>4. (\A q \in Pages : Tidy(mem[q])') /\ Tidy(disk)'
    BY <2>1, <2>2, <2>3 DEF Set, Tidy, OnlyClicked, TypeOK
  <2> QED BY <1>1, <2>1, <2>4 DEF Click, OnlyClicked
<1>2. ASSUME NEW p \in Pages, Send(p)
      PROVE  OnlyClicked'
  <2>1. PICK c \in Commands : /\ NextUp(p, c)
                              /\ Set(p, [mem[p] EXCEPT !.item[c] = "sending"])
                              /\ flight' = [flight EXCEPT ![p] = c]
    BY <1>2 DEF Send
  <2>2. Clicked(c)
    BY <2>1 DEF NextUp, Sendable, OnlyClicked, Tidy
  <2>3. mem[p] \in Store /\ Tidy(mem[p])
    BY DEF OnlyClicked, TypeOK
  <2>4. line' = line /\ late' = late /\ applied' = applied
    BY <1>2 DEF Send
  <2>5. Tidy([mem[p] EXCEPT !.item[c] = "sending"])
    BY <2>2, <2>3, TidyItem
  <2>6. (\A q \in Pages : Tidy(mem'[q])) /\ Tidy(disk')
    BY <2>1, <2>4, <2>5, TidySet
  <2>7. \A q \in Pages : flight'[q] \in Commands => Clicked(flight'[q])
    BY <2>1, <2>2 DEF OnlyClicked, TypeOK
  <2> QED BY <2>4, <2>6, <2>7 DEF OnlyClicked, Tidy, Clicked
<1>3. ASSUME NEW p \in Pages, Ack(p) \/ Refuse(p) \/ Busy(p) \/ NetworkError(p)
      PROVE  OnlyClicked'
  <2> DEFINE c == flight[p]
  <2>1. c \in Commands /\ Clicked(c) /\ line' = line
    BY <1>3 DEF Ack, Refuse, Busy, NetworkError, OnlyClicked
  <2>2. mem[p] \in Store /\ Tidy(mem[p])
    BY DEF OnlyClicked, TypeOK
  <2>3. \/ Set(p, [mem[p] EXCEPT !.item[c] = "retry"])
        \/ Set(p, Acknowledged(mem[p], c))
        \/ Set(p, Refused(mem[p], c))
        \/ UNCHANGED <<mem, disk>>
    BY <1>3 DEF Ack, Refuse, Busy, NetworkError, Resolve, Retry
  <2>4. flight' = [flight EXCEPT ![p] = Loop]
    BY <1>3 DEF Ack, Refuse, Busy, NetworkError, Resolve, Retry
  <2>5. \A d \in Commands : d # c => late'[d] = late[d] /\ applied'[d] = applied[d]
    BY <1>3 DEF Ack, Refuse, Busy, NetworkError, Abandon, CarryOut, TypeOK
  <2> HIDE DEF c
  <2>6. (\A q \in Pages : Tidy(mem'[q])) /\ Tidy(disk')
    <3>1. CASE UNCHANGED <<mem, disk>>
      BY <3>1 DEF OnlyClicked
    <3>2. Tidy([mem[p] EXCEPT !.item[c] = "retry"]) /\ Tidy(Acknowledged(mem[p], c)) /\ Tidy(Refused(mem[p], c))
      BY <2>1, <2>2, TidyItem, TidyAnswer
    <3> QED BY <2>1, <2>3, <3>1, <3>2, TidySet
  <2>7. \A q \in Pages : flight'[q] \in Commands => Clicked(flight'[q])
    BY <2>4, PosNames DEF OnlyClicked, TypeOK
  <2> QED BY <2>1, <2>5, <2>6, <2>7 DEF OnlyClicked, Tidy, Clicked
<1>4. ASSUME NEW p \in Pages, Reload(p)
      PROVE  OnlyClicked'
  <2>1. line' = line /\ disk' = disk /\ applied' = applied
        /\ mem' = [mem EXCEPT ![p] = disk] /\ flight' = [flight EXCEPT ![p] = Idle]
    BY <1>4 DEF Reload
  <2>2. \A q \in Pages : Tidy(mem'[q])
    BY <2>1 DEF OnlyClicked, TypeOK
  <2>3. \A q \in Pages : flight'[q] \in Commands => Clicked(flight'[q])
    BY <2>1, PosNames DEF OnlyClicked, TypeOK
  <2>4. \A d \in Commands : d # flight[p] => late'[d] = late[d]
    BY <1>4 DEF Reload, Abandon, TypeOK
  <2>5. flight[p] \in Commands => Clicked(flight[p])
    BY DEF OnlyClicked
  <2> QED BY <2>1, <2>2, <2>3, <2>4, <2>5 DEF OnlyClicked, Tidy, Clicked
<1>5. ASSUME NEW c \in Commands, ServeLate(c)
      PROVE  OnlyClicked'
  <2>1. Clicked(c) /\ UNCHANGED <<mem, disk, flight, line>>
    BY <1>5 DEF ServeLate, OnlyClicked
  <2>2. \A d \in Commands : d # c => late'[d] = late[d] /\ applied'[d] = applied[d]
    BY <1>5 DEF ServeLate, CarryOut, TypeOK
  <2> QED BY <2>1, <2>2 DEF OnlyClicked, Tidy, Clicked
<1>6. ASSUME NEW p \in Pages, EndFlush(p)
      PROVE  OnlyClicked'
  <2>1. \A q \in Pages : flight'[q] \in Commands => flight'[q] = flight[q]
    BY <1>6, PosNames DEF EndFlush, TypeOK
  <2> QED BY <1>6, <2>1 DEF EndFlush, OnlyClicked, Tidy, Clicked
<1>7. CASE UNCHANGED vars \/ Disconnect \/ Connect \/ \E p \in Pages : Select(p)
  <2>1. UNCHANGED <<mem, disk, flight, line, late, applied>>
    BY <1>7 DEF vars, Disconnect, Connect, Select
  <2> QED BY <2>1 DEF OnlyClicked, Tidy, Clicked
<1> QED BY <1>1, <1>2, <1>3, <1>4, <1>5, <1>6, <1>7 DEF Next

-----------------------------------------------------------------------------
(* Keys. *)

\* Commands that share a key are of the same kind and for the same place.
LEMMA SameKeySymmetric ==
  ASSUME NEW c \in Commands, NEW d \in Commands, SameKey(c, d)
  PROVE  SameKey(d, c) /\ (Keyed(c) <=> Keyed(d))
BY DEF SameKey, Keyed

LEMMA BookOnce ==
  ASSUME TypeOK, ChargedOnce, NEW e \in Commands, CarryOut(e), stamp' = stamp
  PROVE  ChargedOnce'
<1>1. CASE applied' = applied
  BY <1>1 DEF ChargedOnce, SameKey, Keyed
<1>2. CASE applied' = [applied EXCEPT ![e] = @ + 1] /\ ~(Keyed(e) /\ Booked(e))
  <2>1. applied'[e] = applied[e] + 1 /\ \A d \in Commands : d # e => applied'[d] = applied[d]
    BY <1>2 DEF TypeOK
  <2>2. Keyed(e) => applied[e] = 0 /\ \A d \in Commands : SameKey(e, d) => ~(applied[d] > 0)
    <3>1. Keyed(e) => \A d \in Commands : SameKey(e, d) => ~(applied[d] > 0)
      BY <1>2 DEF Booked
    <3>2. SameKey(e, e)
      BY DEF SameKey
    <3>3. applied[e] \in Nat
      BY DEF TypeOK
    <3> QED BY <3>1, <3>2, <3>3
  <2> SUFFICES ASSUME NEW c \in Commands, NEW d \in Commands, Keyed(c), SameKey(c, d),
                      applied'[c] > 0, applied'[d] > 0
               PROVE  c = d /\ applied'[c] = 1
    BY DEF ChargedOnce, SameKey, Keyed
  <2>3. SameKey(d, c) /\ Keyed(d)
    BY SameKeySymmetric
  <2>4. CASE c # e /\ d # e
    BY <2>1, <2>4 DEF ChargedOnce
  <2>5. CASE c = e
    BY <2>1, <2>2, <2>5
  <2>6. CASE d = e
    BY <2>1, <2>2, <2>3, <2>6
  <2> QED BY <2>4, <2>5, <2>6
<1> QED BY <1>1, <1>2 DEF CarryOut

LEMMA ChargedStep == TypeOK /\ OnlyClicked /\ ChargedOnce /\ [Next]_vars => ChargedOnce'
<1> SUFFICES ASSUME TypeOK, OnlyClicked, ChargedOnce, [Next]_vars PROVE ChargedOnce'
  OBVIOUS
<1> USE DEF page, panel, server
<1>1. ASSUME NEW p \in Pages, NEW c \in Commands, Click(p, c)
      PROVE  ChargedOnce'
  <2>1. applied[c] = 0
    BY <1>1 DEF Click, OnlyClicked, TypeOK
  <2>2. applied' = applied /\ \A d \in Commands : d # c => stamp'[d] = stamp[d]
    BY <1>1 DEF Click, TypeOK
  <2> QED BY <2>1, <2>2 DEF ChargedOnce, SameKey, Keyed
<1>2. ASSUME NEW p \in Pages, Ack(p)
      PROVE  ChargedOnce'
  BY <1>2, BookOnce DEF Ack
<1>3. ASSUME NEW c \in Commands, ServeLate(c)
      PROVE  ChargedOnce'
  <2>1. CASE CarryOut(c)
    BY <1>3, <2>1, BookOnce DEF ServeLate
  <2>2. CASE UNCHANGED applied
    BY <1>3, <2>2 DEF ServeLate, ChargedOnce, SameKey, Keyed
  <2> QED BY <1>3, <2>1, <2>2 DEF ServeLate
<1>4. CASE \/ UNCHANGED vars \/ Disconnect \/ Connect
           \/ \E p \in Pages : Select(p) \/ Send(p) \/ EndFlush(p) \/ Refuse(p) \/ Busy(p) \/ NetworkError(p) \/ Reload(p)
  <2>1. UNCHANGED <<applied, stamp>>
    BY <1>4 DEF vars, Disconnect, Connect, Select, Send, EndFlush, Refuse, Busy, NetworkError, Reload
  <2> QED BY <2>1 DEF ChargedOnce, SameKey, Keyed
<1> QED BY <1>1, <1>2, <1>3, <1>4 DEF Next

-----------------------------------------------------------------------------
(* The inductive invariant, and what follows from it. *)

IInv == TypeOK /\ OnlyClicked /\ ChargedOnce

LEMMA Inductive == Spec => []IInv
<1>1. Init => IInv
  <2> SUFFICES ASSUME Init PROVE IInv
    OBVIOUS
  <2>1. OnlyClicked
    BY PosNames DEF Init, OnlyClicked, Tidy, EmptyStore
  <2>2. ChargedOnce
    BY DEF Init, ChargedOnce
  <2> QED BY <2>1, <2>2, TypeInit DEF IInv
<1>2. IInv /\ [Next]_vars => IInv'
  BY TypeStep, ClickedStep, ChargedStep DEF IInv
<1> QED BY <1>1, <1>2, PTL DEF Spec

\* Stores, overlays and roll-back copies stay well formed and no click enters
\* the line twice, for any number of pages that share a localStorage.
THEOREM QueueTypes == Spec => []TypeOK
<1>1. IInv => TypeOK
  BY DEF IInv
<1> QED BY <1>1, Inductive, PTL

\* Any number of pages, flushes, reloads and late requests book at most one
\* row per key of a payment or refund, whatever the pages persist over each
\* other: the key stays with the command (engine.ts, cashier-payment-panel.tsx)
\* and is looked up by the server.
THEOREM ChargedOncePerKey == Spec => []ChargedOnce
<1>1. IInv => ChargedOnce
  BY DEF IInv
<1> QED BY <1>1, Inductive, PTL

-----------------------------------------------------------------------------
(* One page at a time: its memory is what localStorage holds, so nothing it *)
(* has not been answered is lost and overlays go with their commands.       *)

\* Nobody else writes the store, and the command the page waits for is marked.
Alone(p) == /\ disk = mem[p]
            /\ flight[p] \in Commands => mem[p].item[flight[p]] = "sending"

\* What follows is said of a store m, a line l and the answers out, so that it
\* can be said of two states at once.
Held(m, c)      == m.item[c] # "gone"
Before(l, c, d) == \E i, j \in DOMAIN l : i < j /\ l[i] = c /\ l[j] = d
Overtaken(l, out, x, c, answer) ==
  \E d \in Commands : d.on = x /\ Before(l, c, d) /\ answer \in out[d]

\* OrdersShown for one order.
ShowsWaiting(m, l, out, x) ==
  LET shown == m.overlay[x] IN
  /\ shown # <<>> => Held(m, Last(shown)) \/ Overtaken(l, out, x, Last(shown), "refused")
  /\ \A c \in Commands :
       c.on = x /\ Held(m, c) => c \in Range(shown) \/ Overtaken(l, out, x, c, "ack")

\* An overlay, or a copy of one, holds clicked commands of its place, the last
\* one the youngest; if that one waits, the others are what it was clicked on.
Layers(m, l, s, x) ==
  /\ \A e \in Range(s) : e.on = x /\ e \in Range(l) /\ (e = Last(s) \/ Before(l, e, Last(s)))
  /\ s # <<>> /\ Held(m, Last(s)) => Range(s) \subseteq Range(m.undo[Last(s)]) \cup {Last(s)}

Layered(m, l) ==
  /\ \A x \in Orders : Layers(m, l, m.overlay[x], x)
  /\ \A d \in Commands : d.on \in Orders /\ Held(m, d) =>
       Layers(m, l, m.undo[d], d.on) /\ \A e \in Range(m.undo[d]) : Before(l, e, d)

OrdersInv(m, l, out) == Layered(m, l) /\ \A x \in Orders : ShowsWaiting(m, l, out, x)

\* A table's button is disabled while its command waits, so its overlay is that
\* command, and there was none to roll back to.
OneForTable(p) ==
  \A t \in Tables :
    \/ mem[p].overlay[t] = <<>> /\ \A c \in Commands : c.on = t => ~Waits(p, c)
    \/ \E c \in Commands :
         /\ c.on = t /\ Waits(p, c)
         /\ mem[p].overlay[t] = <<c>> /\ mem[p].undo[c] = <<>>
         /\ \A d \in Commands : d.on = t /\ Waits(p, d) => d = c

PageInv(p) == /\ Alone(p) /\ OrdersInv(mem[p], line, outcome) /\ OneForTable(p)
              /\ KeptUntilAnswered /\ FirstTriesInOrder

LEMMA EndOfSeq ==
  ASSUME NEW s \in Seq(Commands)
  PROVE  /\ s # <<>> => Last(s) \in Range(s) /\ Last(s) \in Commands
         /\ Range(s) \subseteq Commands
<1>1. /\ Len(s) \in Nat /\ DOMAIN s = 1..Len(s) /\ \A i \in 1..Len(s) : s[i] \in Commands
      /\ (Len(s) = 0 => s = <<>>)
  BY LenProperties, EmptySeq
<1>2. Range(s) \subseteq Commands
  BY <1>1 DEF Range
<1>3. s # <<>> => Last(s) \in Range(s)
  BY <1>1 DEF Range, Last
<1> QED BY <1>2, <1>3

LEMMA AppendRange ==
  ASSUME NEW s \in Seq(Commands), NEW c \in Commands
  PROVE  /\ Append(s, c) # <<>> /\ Last(Append(s, c)) = c
         /\ Range(Append(s, c)) = Range(s) \cup {c}
<1> DEFINE t == Append(s, c)
<1>1. /\ Len(s) \in Nat /\ DOMAIN s = 1..Len(s) /\ DOMAIN t = 1..(Len(s) + 1) /\ Len(t) = Len(s) + 1
      /\ \A i \in 1..Len(s) : t[i] = s[i]
      /\ t[Len(s) + 1] = c
  BY LenProperties
<1> HIDE DEF t
<1>2. Range(t) = Range(s) \cup {c}
  <2>1. \A i \in 1..(Len(s) + 1) : i \in 1..Len(s) \/ i = Len(s) + 1
    BY <1>1
  <2> QED BY <1>1, <2>1 DEF Range
<1>3. t # <<>> /\ Last(t) = c
  BY <1>1 DEF Last
<1> QED BY <1>2, <1>3 DEF t

\* A click makes a command younger than all that were clicked.
LEMMA BeforeGrows ==
  ASSUME NEW l \in Seq(Commands), NEW c \in Commands
  PROVE  /\ \A d, e \in Commands : Before(l, d, e) => Before(Append(l, c), d, e)
         /\ \A d \in Range(l) : d \in Range(Append(l, c)) /\ Before(Append(l, c), d, c)
<1>1. /\ Len(l) \in Nat /\ DOMAIN l = 1..Len(l) /\ DOMAIN Append(l, c) = 1..(Len(l) + 1)
      /\ \A i \in 1..Len(l) : Append(l, c)[i] = l[i]
      /\ Append(l, c)[Len(l) + 1] = c
  BY LenProperties
<1>2. ASSUME NEW d \in Commands, NEW e \in Commands, Before(l, d, e)
      PROVE  Before(Append(l, c), d, e)
  <2>1. PICK i, j \in 1..Len(l) : i < j /\ l[i] = d /\ l[j] = e
    BY <1>1, <1>2 DEF Before
  <2> QED BY <1>1, <2>1 DEF Before
<1>3. ASSUME NEW d \in Range(l)
      PROVE  d \in Range(Append(l, c)) /\ Before(Append(l, c), d, c)
  <2>1. PICK i \in 1..Len(l) : l[i] = d
    BY <1>1 DEF Range
  <2> QED BY <1>1, <2>1 DEF Before, Range
<1> QED BY <1>2, <1>3

\* Commands go on waiting, and more answers are known.
LEMMA OrdersStay ==
  ASSUME NEW m, NEW m2, NEW l, NEW out, NEW out2, OrdersInv(m, l, out), m \in Store,
         m2.overlay = m.overlay, m2.undo = m.undo,
         \A c \in Commands : Held(m2, c) <=> Held(m, c),
         \A c \in Commands : out[c] \subseteq out2[c]
  PROVE  OrdersInv(m2, l, out2)
<1>0. /\ m.overlay \in [Places -> Seq(Commands)] /\ m.undo \in [Commands -> Seq(Commands)]
      /\ \A x \in Orders : x \in Places
  BY DEF Store, Places
<1>1. ASSUME NEW s \in Seq(Commands), NEW x, Layers(m, l, s, x)
      PROVE  Layers(m2, l, s, x)
  BY <1>1, EndOfSeq DEF Layers
<1>2. Layered(m2, l)
  BY <1>0, <1>1 DEF OrdersInv, Layered
<1>3. \A x, c, answer : Overtaken(l, out, x, c, answer) => Overtaken(l, out2, x, c, answer)
  BY DEF Overtaken
<1>4. ASSUME NEW x \in Orders PROVE ShowsWaiting(m2, l, out2, x)
  <2>1. ShowsWaiting(m, l, out, x) /\ m.overlay[x] \in Seq(Commands)
    BY <1>0 DEF OrdersInv
  <2> QED BY <1>3, <2>1, EndOfSeq DEF ShowsWaiting
<1> QED BY <1>2, <1>4 DEF OrdersInv

\* An answered command leaves the store.
LEMMA OrdersAnswered ==
  ASSUME NEW m, NEW m2, NEW l, NEW out, NEW out2, OrdersInv(m, l, out), m \in Store,
         NEW c \in Commands, c.on \in Places, Held(m, c), NEW answer \in {"ack", "refused"},
         answer \in out2[c], \A d \in Commands : out[d] \subseteq out2[d],
         \A d \in Commands : Held(m2, d) <=> Held(m, d) /\ d # c,
         \A d \in Commands : d # c => m2.undo[d] = m.undo[d],
         \A x \in Places : m2.overlay[x] =
           IF x = c.on /\ m.overlay[x] # <<>> /\ Last(m.overlay[x]) = c
           THEN IF answer = "ack" THEN <<>> ELSE m.undo[c] ELSE m.overlay[x]
  PROVE  OrdersInv(m2, l, out2)
<1>0. /\ m.overlay \in [Places -> Seq(Commands)] /\ m.undo \in [Commands -> Seq(Commands)]
      /\ m.item \in [Commands -> Status] /\ \A x \in Orders : x \in Places
  BY DEF Store, Places
<1>1. \A d \in Commands : Held(m2, d) <=> Held(m, d) /\ d # c
  OBVIOUS
<1>2. \A d \in Commands : d # c => m2.undo[d] = m.undo[d]
  OBVIOUS
<1>3. ASSUME NEW s \in Seq(Commands), NEW x, Layers(m, l, s, x)
      PROVE  Layers(m2, l, s, x)
  BY <1>1, <1>2, <1>3, EndOfSeq DEF Layers
<1>4. Range(<<>>) = {} /\ <<>> \in Seq(Commands) /\ \A x : Layers(m2, l, <<>>, x)
  <2>1. Range(<<>>) = {}
    BY DEF Range
  <2> QED BY <2>1 DEF Layers
<1>5. \A x, d, a : Overtaken(l, out, x, d, a) => Overtaken(l, out2, x, d, a)
  BY DEF Overtaken
<1>6. ASSUME NEW x \in Orders
      PROVE  Layers(m2, l, m2.overlay[x], x) /\ ShowsWaiting(m2, l, out2, x)
  <2> DEFINE shown == m.overlay[x]
  <2>0. /\ x \in Places /\ shown \in Seq(Commands) /\ Layers(m, l, shown, x)
        /\ ShowsWaiting(m, l, out, x)
    BY <1>0 DEF OrdersInv, Layered
  <2>1. CASE ~(c.on = x /\ shown # <<>> /\ Last(shown) = c)
    <3>1. m2.overlay[x] = shown
      BY <1>0, <2>0, <2>1
    <3>2. shown # <<>> => Held(m2, Last(shown)) \/ Overtaken(l, out2, x, Last(shown), "refused")
      <4> SUFFICES ASSUME shown # <<>>, Held(m, Last(shown))
                   PROVE  Held(m2, Last(shown))
        BY <1>5, <2>0 DEF ShowsWaiting
      <4>1. Last(shown) \in Range(shown) /\ Last(shown) \in Commands
        BY <2>0, EndOfSeq
      <4>2. Last(shown).on = x
        BY <2>0, <4>1 DEF Layers
      <4>3. Last(shown) # c
        BY <2>1, <4>2
      <4> QED BY <1>1, <4>1, <4>3
    <3>3. \A d \in Commands : d.on = x /\ Held(m2, d) =>
            d \in Range(shown) \/ Overtaken(l, out2, x, d, "ack")
      BY <1>1, <1>5, <2>0 DEF ShowsWaiting
    <3> QED BY <1>3, <2>0, <3>1, <3>2, <3>3 DEF ShowsWaiting
  <2>2. CASE c.on = x /\ shown # <<>> /\ Last(shown) = c /\ answer = "ack"
    <3>1. m2.overlay[x] = <<>>
      BY <1>0, <2>0, <2>2
    <3>2. ASSUME NEW d \in Commands, d.on = x, Held(m2, d)
          PROVE  Overtaken(l, out2, x, d, "ack")
      <4>1. Held(m, d) /\ d # c
        BY <1>1, <3>2
      <4>2. CASE d \in Range(shown)
        <5>1. Before(l, d, c)
          BY <2>0, <2>2, <4>1, <4>2 DEF Layers
        <5> QED BY <2>2, <5>1 DEF Overtaken
      <4>3. CASE Overtaken(l, out, x, d, "ack")
        BY <1>5, <4>3
      <4> QED BY <2>0, <3>2, <4>1, <4>2, <4>3 DEF ShowsWaiting
    <3> QED BY <1>4, <3>1, <3>2 DEF ShowsWaiting
  <2>3. CASE c.on = x /\ shown # <<>> /\ Last(shown) = c /\ answer # "ack"
    <3>1. m2.overlay[x] = m.undo[c] /\ m.undo[c] \in Seq(Commands)
      BY <1>0, <2>0, <2>3
    <3>2. Layers(m, l, m.undo[c], x) /\ \A e \in Range(m.undo[c]) : Before(l, e, c)
      BY <2>3 DEF OrdersInv, Layered
    <3>3. m.undo[c] # <<>> => Overtaken(l, out2, x, Last(m.undo[c]), "refused")
      <4> SUFFICES ASSUME m.undo[c] # <<>>
                   PROVE  Overtaken(l, out2, x, Last(m.undo[c]), "refused")
        OBVIOUS
      <4>1. Before(l, Last(m.undo[c]), c)
        BY <3>1, <3>2, EndOfSeq
      <4> QED BY <2>3, <4>1 DEF Overtaken
    <3>4. ASSUME NEW d \in Commands, d.on = x, Held(m2, d)
          PROVE  d \in Range(m.undo[c]) \/ Overtaken(l, out2, x, d, "ack")
      <4>1. Held(m, d) /\ d # c
        BY <1>1, <3>4
      <4>2. Range(shown) \subseteq Range(m.undo[c]) \cup {c}
        BY <2>0, <2>3 DEF Layers
      <4> QED BY <1>5, <2>0, <3>4, <4>1, <4>2 DEF ShowsWaiting
    <3> QED BY <1>3, <3>1, <3>2, <3>3, <3>4 DEF ShowsWaiting
  <2> QED BY <2>1, <2>2, <2>3
<1>7. ASSUME NEW d \in Commands, d.on \in Orders, Held(m2, d)
      PROVE  Layers(m2, l, m2.undo[d], d.on) /\ \A e \in Range(m2.undo[d]) : Before(l, e, d)
  <2>1. Held(m, d) /\ m2.undo[d] = m.undo[d] /\ m.undo[d] \in Seq(Commands)
    BY <1>0, <1>1, <1>2, <1>7
  <2> QED BY <1>3, <1>7, <2>1 DEF OrdersInv, Layered
<1> QED BY <1>6, <1>7 DEF OrdersInv, Layered

\* A new command is shown on top of what was shown.
LEMMA OrdersClicked ==
  ASSUME NEW m, NEW m2, NEW l \in Seq(Commands), NEW out, OrdersInv(m, l, out), m \in Store,
         NEW c \in Commands, c.on \in Places, c \notin Range(l),
         \A d \in Commands : Held(m, d) => d \in Range(l),
         m2.item = [m.item EXCEPT ![c] = "queued"],
         m2.undo = [m.undo EXCEPT ![c] = m.overlay[c.on]],
         m2.overlay = [m.overlay EXCEPT ![c.on] = Append(m.overlay[c.on], c)]
  PROVE  OrdersInv(m2, Append(l, c), out)
<1> DEFINE l2 == Append(l, c)
<1>0. /\ m.overlay \in [Places -> Seq(Commands)] /\ m.undo \in [Commands -> Seq(Commands)]
      /\ m.item \in [Commands -> Status] /\ \A x \in Orders : x \in Places
  BY DEF Store, Places
<1>1. \A d \in Commands : Held(m2, d) <=> Held(m, d) \/ d = c
  BY <1>0 DEF Held
<1>2. \A d \in Commands : d # c => m2.undo[d] = m.undo[d]
  BY <1>0
<1>3. /\ \A d, e \in Commands : Before(l, d, e) => Before(l2, d, e)
      /\ \A d \in Range(l) : d \in Range(l2) /\ Before(l2, d, c)
      /\ c \in Range(l2)
  BY BeforeGrows, AppendRange
<1> HIDE DEF l2
<1>4. ASSUME NEW s \in Seq(Commands), NEW x, Layers(m, l, s, x)
      PROVE  Layers(m2, l2, s, x)
  <2>1. ASSUME NEW e \in Range(s)
        PROVE  e.on = x /\ e \in Range(l2) /\ (e = Last(s) \/ Before(l2, e, Last(s)))
    <3>1. s # <<>>
      BY <2>1 DEF Range
    <3> QED BY <1>3, <1>4, <2>1, <3>1, EndOfSeq DEF Layers
  <2>2. ASSUME s # <<>>, Held(m2, Last(s))
        PROVE  Range(s) \subseteq Range(m2.undo[Last(s)]) \cup {Last(s)}
    <3>1. Last(s) \in Commands /\ Last(s) \in Range(s)
      BY <2>2, EndOfSeq
    <3>2. Last(s) # c
      BY <1>4, <3>1 DEF Layers
    <3> QED BY <1>1, <1>2, <1>4, <2>2, <3>1, <3>2 DEF Layers
  <2> QED BY <2>1, <2>2 DEF Layers
<1>5. \A x, a : \A d \in Commands : Overtaken(l, out, x, d, a) => Overtaken(l2, out, x, d, a)
  BY <1>3 DEF Overtaken
<1>6. ASSUME NEW x \in Orders
      PROVE  Layers(m2, l2, m2.overlay[x], x) /\ ShowsWaiting(m2, l2, out, x)
  <2> DEFINE shown == m.overlay[x]
  <2>0. /\ x \in Places /\ shown \in Seq(Commands) /\ Layers(m, l, shown, x)
        /\ ShowsWaiting(m, l, out, x)
    BY <1>0 DEF OrdersInv, Layered
  <2>1. CASE c.on # x
    <3>1. m2.overlay[x] = shown
      BY <1>0, <2>0, <2>1
    <3>2. shown # <<>> => Last(shown) \in Commands
      BY <2>0, EndOfSeq
    <3> QED BY <1>1, <1>4, <1>5, <2>0, <2>1, <3>1, <3>2 DEF ShowsWaiting
  <2>2. CASE c.on = x
    <3> DEFINE new == Append(shown, c)
    <3>1. m2.overlay[x] = new /\ m2.undo[c] = shown
      BY <1>0, <2>0, <2>2
    <3>2. new # <<>> /\ Last(new) = c /\ Range(new) = Range(shown) \cup {c}
      BY <2>0, AppendRange
    <3> HIDE DEF new
    <3>3. Layers(m2, l2, new, x)
      BY <1>3, <2>0, <2>2, <3>1, <3>2 DEF Layers
    <3> QED BY <1>1, <1>5, <2>0, <3>1, <3>2, <3>3 DEF ShowsWaiting
  <2> QED BY <2>1, <2>2
<1>7. ASSUME NEW d \in Commands, d.on \in Orders, Held(m2, d)
      PROVE  Layers(m2, l2, m2.undo[d], d.on) /\ \A e \in Range(m2.undo[d]) : Before(l2, e, d)
  <2>1. CASE d = c
    <3>1. m2.undo[d] = m.overlay[d.on] /\ m.overlay[d.on] \in Seq(Commands)
      BY <1>0, <2>1
    <3>2. Layers(m, l, m.overlay[d.on], d.on)
      BY <1>7 DEF OrdersInv, Layered
    <3>3. Layers(m2, l2, m.overlay[d.on], d.on)
      BY <1>4, <3>1, <3>2
    <3>4. \A e \in Range(m.overlay[d.on]) : e \in Range(l)
      BY <3>2 DEF Layers
    <3> QED BY <1>3, <2>1, <3>1, <3>3, <3>4
  <2>2. CASE d # c
    <3>1. Held(m, d) /\ m2.undo[d] = m.undo[d] /\ m.undo[d] \in Seq(Commands)
      BY <1>0, <1>1, <1>2, <1>7, <2>2
    <3>2. Layers(m, l, m.undo[d], d.on) /\ \A e \in Range(m.undo[d]) : Before(l, e, d)
      BY <1>7, <3>1 DEF OrdersInv, Layered
    <3>3. Range(m.undo[d]) \subseteq Commands
      BY <3>1, EndOfSeq
    <3> QED BY <1>3, <1>4, <3>1, <3>2, <3>3
  <2> QED BY <2>1, <2>2
<1> QED BY <1>6, <1>7 DEF OrdersInv, Layered, l2

\* A step of the page that leaves what is stored as it is.
LEMMA StoreStays ==
  ASSUME NEW p, Pages = {p}, TypeOK, PageInv(p),
         UNCHANGED <<line, disk>>, mem'[p] = mem[p],
         flight'[p] \in Commands => flight'[p] = flight[p],
         \A c \in Commands : outcome[c] \subseteq outcome'[c]
  PROVE  PageInv(p)'
<1>1. Alone(p)'
  BY DEF PageInv, Alone
<1>2. OrdersInv(mem'[p], line, outcome')
  BY OrdersStay DEF PageInv, TypeOK
<1>3. OneForTable(p)'
  BY DEF PageInv, OneForTable, Waits
<1>4. KeptUntilAnswered'
  BY DEF PageInv, KeptUntilAnswered, Clicked, Answered
<1>5. FirstTriesInOrder'
  BY DEF PageInv, FirstTriesInOrder, Older
<1> QED BY <1>1, <1>2, <1>3, <1>4, <1>5 DEF PageInv

\* A command that waits gets another status and goes on waiting.
LEMMA StatusMoves ==
  ASSUME NEW p, Pages = {p}, TypeOK, PageInv(p),
         NEW c \in Commands, Waits(p, c), NEW status \in {"sending", "retry"},
         Set(p, [mem[p] EXCEPT !.item[c] = status]),
         UNCHANGED <<line, outcome>>,
         flight'[p] \in Commands => flight'[p] = c /\ status = "sending",
         \A d \in Commands : Older(d, c) => mem[p].item[d] # "queued"
  PROVE  PageInv(p)'
<1>1. /\ mem[p] \in Store /\ disk' = mem'[p]
      /\ mem'[p].item = [mem[p].item EXCEPT ![c] = status] /\ mem[p].item \in [Commands -> Status]
      /\ mem'[p].undo = mem[p].undo /\ mem'[p].overlay = mem[p].overlay
  BY DEF TypeOK, Set, Store
<1>2. \A d \in Commands : Waits(p, d)' <=> Waits(p, d)
  BY <1>1 DEF Waits
<1>3. Alone(p)'
  BY <1>1 DEF Alone
<1>4. OrdersInv(mem'[p], line', outcome')
  <2>1. \A d \in Commands : Held(mem'[p], d) <=> Held(mem[p], d)
    BY <1>2 DEF Waits, Held
  <2> QED BY <1>1, <2>1, OrdersStay DEF PageInv
<1>5. OneForTable(p)'
  BY <1>1, <1>2 DEF PageInv, OneForTable
<1>6. KeptUntilAnswered'
  BY <1>1 DEF PageInv, KeptUntilAnswered, Clicked, Answered, Alone
<1>7. FirstTriesInOrder'
  BY <1>1 DEF PageInv, FirstTriesInOrder, Older
<1> QED BY <1>3, <1>4, <1>5, <1>6, <1>7 DEF PageInv


\* A command that was answered leaves the store; its overlay is cleared or rolled
\* back if it is the last one shown.
LEMMA AnswerMoves ==
  ASSUME NEW p, Pages = {p}, TypeOK, OnlyClicked, PageInv(p), flight[p] \in Commands,
         NEW answer \in {"ack", "refused"}, Resolve(p, answer), UNCHANGED line
  PROVE  PageInv(p)'
<1> DEFINE c == flight[p]
<1>0. /\ c \in Commands /\ c.on \in Places /\ Waits(p, c) /\ Clicked(c)
      /\ mem[p] \in Store /\ mem[p].item[c] = "sending"
      /\ outcome \in [Commands -> SUBSET {"ack", "refused", "died"}]
  BY CommandType DEF TypeOK, PageInv, Alone, Waits, OnlyClicked
<1>1. /\ Set(p, IF answer = "ack" THEN Acknowledged(mem[p], c) ELSE Refused(mem[p], c))
      /\ outcome' = [outcome EXCEPT ![c] = @ \cup {answer}]
      /\ flight'[p] = Loop
  BY <1>0 DEF Resolve, TypeOK
<1>2. /\ mem[p].item \in [Commands -> Status] /\ mem[p].undo \in [Commands -> Seq(Commands)]
      /\ mem[p].overlay \in [Places -> Seq(Commands)]
      /\ disk' = mem'[p]
      /\ mem'[p].item = [mem[p].item EXCEPT ![c] = "gone"]
      /\ mem'[p].undo = [mem[p].undo EXCEPT ![c] = <<>>]
      /\ mem'[p].overlay =
           [mem[p].overlay EXCEPT ![c.on] =
              IF @ # <<>> /\ Last(@) = c
              THEN IF answer = "ack" THEN <<>> ELSE mem[p].undo[c] ELSE @]
  <2> HIDE DEF c
  <2>1. CASE answer = "ack"
    BY <1>0, <1>1, <2>1 DEF TypeOK, Set, Store, Acknowledged
  <2>2. CASE answer # "ack"
    BY <1>0, <1>1, <2>2 DEF TypeOK, Set, Store, Refused
  <2> QED BY <2>1, <2>2
<1> HIDE DEF c
<1>3. \A d \in Commands : Waits(p, d)' <=> Waits(p, d) /\ d # c
  BY <1>2 DEF Waits
<1>4. Alone(p)'
  BY <1>1, <1>2, PosNames DEF Alone
<1>5. OrdersInv(mem'[p], line', outcome')
  <2>1. answer \in outcome'[c] /\ \A d \in Commands : outcome[d] \subseteq outcome'[d]
    BY <1>0, <1>1
  <2>2. Held(mem[p], c)
    BY <1>0 DEF Held, Waits
  <2>3. PICK m, m2, out, out2 : m = mem[p] /\ m2 = mem'[p] /\ out = outcome /\ out2 = outcome'
    OBVIOUS
  <2>4. OrdersInv(m, line, out) /\ m \in Store /\ Held(m, c) /\ c.on \in Places /\ c \in Commands
    BY <1>0, <2>2, <2>3 DEF PageInv
  <2>5. answer \in out2[c] /\ \A d \in Commands : out[d] \subseteq out2[d]
    BY <2>1, <2>3
  <2>6. /\ \A d \in Commands : Held(m2, d) <=> Held(m, d) /\ d # c
        /\ \A d \in Commands : d # c => m2.undo[d] = m.undo[d]
        /\ \A x \in Places : m2.overlay[x] =
             IF x = c.on /\ m.overlay[x] # <<>> /\ Last(m.overlay[x]) = c
             THEN IF answer = "ack" THEN <<>> ELSE m.undo[c] ELSE m.overlay[x]
    BY <1>0, <1>2, <2>3 DEF Held
  <2>7. OrdersInv(m2, line, out2)
    BY <2>4, <2>5, <2>6, OrdersAnswered
  <2> QED BY <2>3, <2>7
<1>6. OneForTable(p)'
  <2> SUFFICES ASSUME NEW t \in Tables
      PROVE  \/ mem'[p].overlay[t] = <<>> /\ \A d \in Commands : d.on = t => ~Waits(p, d)'
             \/ \E e \in Commands :
                  /\ e.on = t /\ Waits(p, e)'
                  /\ mem'[p].overlay[t] = <<e>> /\ mem'[p].undo[e] = <<>>
                  /\ \A d \in Commands : d.on = t /\ Waits(p, d)' => d = e
    BY DEF OneForTable
  <2>1. t \in Places
    BY DEF Places
  <2>2. CASE mem[p].overlay[t] = <<>> /\ \A d \in Commands : d.on = t => ~Waits(p, d)
    BY <1>2, <1>3, <2>1, <2>2
  <2>3. ASSUME NEW e \in Commands, e.on = t, Waits(p, e), mem[p].overlay[t] = <<e>>, mem[p].undo[e] = <<>>,
               \A d \in Commands : d.on = t /\ Waits(p, d) => d = e, e # c
        PROVE  /\ e.on = t /\ Waits(p, e)'
               /\ mem'[p].overlay[t] = <<e>> /\ mem'[p].undo[e] = <<>>
               /\ \A d \in Commands : d.on = t /\ Waits(p, d)' => d = e
    <3>1. c.on # t
      BY <1>0, <2>3
    <3> QED BY <1>2, <1>3, <2>1, <2>3, <3>1
  <2>4. ASSUME NEW e \in Commands, e.on = t, Waits(p, e), mem[p].overlay[t] = <<e>>, mem[p].undo[e] = <<>>,
               \A d \in Commands : d.on = t /\ Waits(p, d) => d = e, e = c
        PROVE  mem'[p].overlay[t] = <<>> /\ \A d \in Commands : d.on = t => ~Waits(p, d)'
    <3>1. <<e>> # <<>> /\ Last(<<e>>) = e
      BY DEF Last
    <3> QED BY <1>2, <1>3, <2>1, <2>4, <3>1
  <2> QED BY <2>2, <2>3, <2>4 DEF PageInv, OneForTable
<1>7. KeptUntilAnswered'
  <2>1. answer \in outcome'[c] /\ \A d \in Commands : outcome[d] \subseteq outcome'[d]
    BY <1>0, <1>1
  <2>2. \A d \in Commands : Clicked(d)' <=> Clicked(d)
    BY DEF Clicked
  <2> QED BY <1>2, <2>1, <2>2 DEF PageInv, KeptUntilAnswered, Answered, Alone
<1>8. FirstTriesInOrder'
  <2>1. \A d, e \in Commands : mem[p].item[d] = "queued" /\ Older(d, e) => mem[p].item[e] = "queued"
    BY DEF PageInv, FirstTriesInOrder
  <2>2. \A d, e \in Commands : mem'[p].item[d] = "queued" /\ Older(d, e) => mem'[p].item[e] = "queued"
    BY <1>0, <1>2, <2>1
  <2>3. \A d, e : Older(d, e)' <=> Older(d, e)
    BY DEF Older
  <2> QED BY <2>2, <2>3 DEF FirstTriesInOrder
<1> QED BY <1>4, <1>5, <1>6, <1>7, <1>8 DEF PageInv


\* A new command is the youngest of the line.
LEMMA ClickedLast ==
  ASSUME TypeOK, NEW c \in Commands, ~Clicked(c), line' = Append(line, c)
  PROVE  \A d, e \in Commands : Older(d, e)' => d # c /\ (e = c \/ Older(d, e))
<1>1. /\ Len(line) \in Nat /\ DOMAIN line = 1..Len(line) /\ DOMAIN line' = 1..(Len(line) + 1)
      /\ \A i \in 1..Len(line) : line'[i] = line[i]
      /\ line'[Len(line) + 1] = c
  BY LenProperties DEF TypeOK
<1>2. \A i \in 1..Len(line) : line[i] # c
  BY <1>1 DEF Clicked, Range
<1> SUFFICES ASSUME NEW d \in Commands, NEW e \in Commands,
                    NEW i \in DOMAIN line', NEW j \in DOMAIN line',
                    i < j, line'[i] = d, line'[j] = e
             PROVE  d # c /\ (e = c \/ Older(d, e))
  BY DEF Older
<1>3. i \in 1..Len(line)
  BY <1>1
<1>4. CASE j = Len(line) + 1
  BY <1>1, <1>2, <1>3, <1>4
<1>5. CASE j \in 1..Len(line)
  BY <1>1, <1>2, <1>3, <1>5 DEF Older
<1> QED BY <1>1, <1>4, <1>5

LEMMA ClickMoves ==
  ASSUME NEW p, Pages = {p}, TypeOK, OnlyClicked, PageInv(p), NEW c \in Commands, Click(p, c)
  PROVE  PageInv(p)'
<1> DEFINE before == mem[p].overlay[c.on]
<1>0. /\ c.on \in Places /\ mem[p] \in Store /\ before \in Seq(Commands)
      /\ ~Clicked(c) /\ ~Pending(p, c) /\ mem[p].item[c] = "gone"
      /\ line' = Append(line, c) /\ UNCHANGED <<flight, outcome>>
  BY CommandType DEF Click, TypeOK, Store, OnlyClicked, Tidy
<1>1. /\ mem[p].item \in [Commands -> Status] /\ mem[p].undo \in [Commands -> Seq(Commands)]
      /\ mem[p].overlay \in [Places -> Seq(Commands)]
      /\ disk' = mem'[p]
      /\ mem'[p].item = [mem[p].item EXCEPT ![c] = "queued"]
      /\ mem'[p].undo = [mem[p].undo EXCEPT ![c] = before]
      /\ mem'[p].overlay = [mem[p].overlay EXCEPT ![c.on] = Append(before, c)]
  <2>1. Set(p, [mem[p] EXCEPT !.item[c] = "queued", !.undo[c] = before, !.overlay[c.on] = Append(before, c)])
    BY DEF Click
  <2> HIDE DEF before
  <2> QED BY <1>0, <2>1 DEF TypeOK, Set, Store
<1> HIDE DEF before
<1>2. Append(before, c) # <<>> /\ Last(Append(before, c)) = c /\ (before = <<>> => Append(before, c) = <<c>>)
  <2>1. Len(Append(before, c)) = Len(before) + 1 /\ Len(before) \in Nat /\ Append(before, c)[Len(before) + 1] = c
    BY <1>0, LenProperties
  <2>2. Append(before, c) # <<>>
    BY <2>1
  <2>3. Last(Append(before, c)) = c
    BY <2>1 DEF Last
  <2>4. Append(<<>>, c) = <<c>>
    OBVIOUS
  <2> QED BY <2>2, <2>3, <2>4
<1>3. \A d \in Commands : Waits(p, d)' <=> Waits(p, d) \/ d = c
  BY <1>1 DEF Waits
<1>4. Alone(p)'
  BY <1>0, <1>1 DEF Alone, PageInv
<1>5. OrdersInv(mem'[p], line', outcome')
  <2>1. c \notin Range(line) /\ line \in Seq(Commands)
    BY <1>0 DEF Clicked, TypeOK
  <2>2. \A d \in Commands : Held(mem[p], d) => d \in Range(line)
    BY DEF OnlyClicked, Tidy, Held, Clicked
  <2>3. OrdersInv(mem'[p], Append(line, c), outcome)
    BY <1>0, <1>1, <2>1, <2>2, OrdersClicked DEF PageInv, before
  <2> QED BY <1>0, <2>3
<1>6. OneForTable(p)'
  <2> SUFFICES ASSUME NEW t \in Tables
      PROVE  \/ mem'[p].overlay[t] = <<>> /\ \A d \in Commands : d.on = t => ~Waits(p, d)'
             \/ \E e \in Commands :
                  /\ e.on = t /\ Waits(p, e)'
                  /\ mem'[p].overlay[t] = <<e>> /\ mem'[p].undo[e] = <<>>
                  /\ \A d \in Commands : d.on = t /\ Waits(p, d)' => d = e
    BY DEF OneForTable
  <2>1. t \in Places
    BY DEF Places
  <2>2. CASE c.on # t
    <3>1. mem'[p].overlay[t] = mem[p].overlay[t]
      BY <1>1, <2>2
    <3>2. \A e \in Commands : e.on = t => mem'[p].undo[e] = mem[p].undo[e] /\ (Waits(p, e)' <=> Waits(p, e))
      BY <1>1, <1>3, <2>2
    <3> QED BY <3>1, <3>2 DEF PageInv, OneForTable
  <2>3. CASE c.on = t
    <3>1. \A d \in Commands : d.on = t => d.kind = "TABLE_STATUS_SET"
      BY CommandsAssumption
    <3>2. \A d \in Commands : d.on = t => ~Waits(p, d)
      BY <1>0, <2>3, <3>1 DEF Pending
    <3>3. before = <<>>
      BY <2>3, <3>2 DEF PageInv, OneForTable, before
    <3> QED BY <1>0, <1>1, <1>2, <1>3, <2>3, <3>2, <3>3
  <2> QED BY <2>2, <2>3
<1>7. KeptUntilAnswered'
  <2>1. \A d \in Commands : Clicked(d)' <=> Clicked(d) \/ d = c
    BY <1>0, LineGrows
  <2>2. \A d \in Commands : Clicked(d) => mem[p].item[d] # "gone" \/ Answered(d)
    BY DEF PageInv, Alone, KeptUntilAnswered
  <2> QED BY <1>0, <1>1, <2>1, <2>2 DEF KeptUntilAnswered, Answered
<1>8. FirstTriesInOrder'
  <2>1. \A d, e \in Commands : mem[p].item[d] = "queued" /\ Older(d, e) => mem[p].item[e] = "queued"
    BY DEF PageInv, FirstTriesInOrder
  <2>2. \A d, e \in Commands : Older(d, e)' => d # c /\ (e = c \/ Older(d, e))
    BY <1>0, ClickedLast
  <2>3. \A d, e \in Commands : mem'[p].item[d] = "queued" /\ Older(d, e)' => mem'[p].item[e] = "queued"
    BY <1>1, <2>1, <2>2
  <2> QED BY <2>3 DEF FirstTriesInOrder
<1> QED BY <1>4, <1>5, <1>6, <1>7, <1>8 DEF PageInv

LEMMA PageInit ==
  ASSUME NEW p, Pages = {p}, Init
  PROVE  PageInv(p)
<1>1. \A c \in Commands : ~Clicked(c)
  BY DEF Init, Clicked, Range
<1>2. /\ disk = EmptyStore /\ mem[p] = EmptyStore /\ flight[p] = Idle
      /\ \A c \in Commands : mem[p].item[c] = "gone"
      /\ \A x \in Places : mem[p].overlay[x] = <<>>
  BY DEF Init, EmptyStore
<1>3. \A c \in Commands : ~Waits(p, c)
  BY <1>2 DEF Waits
<1>4. Range(<<>>) = {}
  BY DEF Range
<1>5. OrdersInv(mem[p], line, outcome)
  <2>1. \A c \in Commands : ~Held(mem[p], c)
    BY <1>2 DEF Held
  <2>2. \A x \in Orders : mem[p].overlay[x] = <<>>
    BY <1>2 DEF Places
  <2> QED BY <1>4, <2>1, <2>2 DEF OrdersInv, Layered, Layers, ShowsWaiting
<1> QED BY <1>1, <1>2, <1>3, <1>5, PosNames DEF PageInv, Alone, OneForTable, KeptUntilAnswered, FirstTriesInOrder, Places

LEMMA PageStep ==
  ASSUME NEW p, Pages = {p}, TypeOK, OnlyClicked, PageInv(p), [Next]_vars
  PROVE  PageInv(p)'
<1> USE DEF page, panel, server
<1>1. ASSUME NEW c \in Commands, Click(p, c) PROVE PageInv(p)'
  BY <1>1, ClickMoves
<1>2. CASE Send(p)
  <2>1. PICK c \in Commands : /\ NextUp(p, c)
                              /\ Set(p, [mem[p] EXCEPT !.item[c] = "sending"])
                              /\ flight' = [flight EXCEPT ![p] = c]
                              /\ UNCHANGED <<line, outcome>>
    BY <1>2 DEF Send
  <2>2. Waits(p, c) /\ \A d \in Commands : Older(d, c) => mem[p].item[d] # "queued"
    BY <2>1 DEF NextUp, Sendable, Waits
  <2>3. flight'[p] = c
    BY <2>1 DEF TypeOK
  <2> QED BY <2>1, <2>2, <2>3, StatusMoves
<1>3. CASE Ack(p) \/ Refuse(p)
  <2>1. PICK answer \in {"ack", "refused"} : Resolve(p, answer)
    BY <1>3 DEF Ack, Refuse
  <2> QED BY <1>3, <2>1, AnswerMoves DEF Ack, Refuse
<1>4. CASE Busy(p) \/ NetworkError(p)
  <2>1. PICK c \in Commands : /\ c = flight[p]
                              /\ Set(p, [mem[p] EXCEPT !.item[c] = "retry"])
                              /\ flight' = [flight EXCEPT ![p] = Loop]
                              /\ UNCHANGED <<line, outcome>>
    BY <1>4 DEF Busy, NetworkError, Retry
  <2>2. mem[p].item[c] = "sending" /\ flight'[p] = Loop
    BY <2>1 DEF PageInv, Alone, TypeOK
  <2>3. \A d \in Commands : Older(d, c) => mem[p].item[d] # "queued"
    BY <2>2 DEF PageInv, FirstTriesInOrder
  <2> QED BY <2>1, <2>2, <2>3, StatusMoves, PosNames DEF Waits
<1>5. CASE Reload(p)
  <2>1. UNCHANGED <<line, disk>> /\ mem'[p] = mem[p] /\ flight'[p] = Idle
    BY <1>5 DEF Reload, PageInv, Alone, TypeOK
  <2>2. \A c \in Commands : outcome[c] \subseteq outcome'[c]
    BY <1>5 DEF Reload, TypeOK
  <2> QED BY <2>1, <2>2, StoreStays, PosNames
<1>6. CASE EndFlush(p)
  <2>1. UNCHANGED <<line, disk, mem, outcome>> /\ flight'[p] = Idle
    BY <1>6 DEF EndFlush, TypeOK
  <2> QED BY <2>1, StoreStays, PosNames
<1>7. CASE UNCHANGED vars \/ Disconnect \/ Connect \/ Select(p) \/ \E c \in Commands : ServeLate(c)
  <2>1. UNCHANGED <<line, disk, mem, outcome, flight>>
    BY <1>7 DEF vars, Disconnect, Connect, Select, ServeLate
  <2> QED BY <2>1, StoreStays
<1> QED BY <1>1, <1>2, <1>3, <1>4, <1>5, <1>6, <1>7 DEF Next

LEMMA OnePage ==
  ASSUME NEW p, Pages = {p}
  PROVE  Spec => [](IInv /\ PageInv(p))
<1>1. Init => PageInv(p)
  BY PageInit
<1>2. IInv /\ PageInv(p) /\ [Next]_vars => PageInv(p)'
  BY PageStep DEF IInv
<1> QED BY <1>1, <1>2, Inductive, PTL DEF Spec

\* With one page nothing that was clicked leaves localStorage before it was
\* answered, through any number of reloads, retries and network errors
\* (engine.ts:131-180, store.ts:354-420).
THEOREM OnePageKeeps ==
  ASSUME NEW p, Pages = {p}
  PROVE  Spec => []KeptUntilAnswered
<1>1. PageInv(p) => KeptUntilAnswered
  BY DEF PageInv
<1> QED BY <1>1, OnePage, PTL

\* With one page commands are first tried in the order of the clicks, whatever
\* was put back for a retry meanwhile (engine.ts:138-150).
THEOREM OnePageKeepsOrder ==
  ASSUME NEW p, Pages = {p}
  PROVE  Spec => []FirstTriesInOrder
<1>1. PageInv(p) => FirstTriesInOrder
  BY DEF PageInv
<1> QED BY <1>1, OnePage, PTL

\* With one page an overlay shows the commands that wait and goes with the last
\* of them, through any acknowledgements, refusals and roll-backs; the exceptions
\* are an overlay that a later refused command put back and a command under a
\* later one that was acknowledged (store.ts:240-300,354-420).
THEOREM OnePageShowsWhatWaits ==
  ASSUME NEW p, Pages = {p}
  PROVE  Spec => []OverlaysFollow
<1>1. ASSUME PageInv(p) PROVE OverlaysFollow
  <2>1. TableShown
    <3>1. \A c : <<c>> # <<>>
      OBVIOUS
    <3> QED BY <1>1, <3>1 DEF PageInv, OneForTable, TableShown
  <2>2. OrdersShown
    <3>1. \A x \in Orders : ShowsWaiting(mem[p], line, outcome, x)
      BY <1>1 DEF PageInv, OrdersInv
    <3> QED BY <3>1 DEF OrdersShown, ShowsWaiting, Overtaken, Held, Waits, Before, Older
  <2> QED BY <2>1, <2>2 DEF OverlaysFollow
<1> QED BY <1>1, OnePage, PTL
=============================================================================
