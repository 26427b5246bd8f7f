--------------------------- MODULE CashDeskProofs ---------------------------
(***************************************************************************)
(* What holds of the cash register for any number of branches, sessions,    *)
(* payments, cashiers and runs of the schedule.                             *)
(***************************************************************************)
EXTENDS CashDesk, FiniteSetTheorems, SequenceTheorems, TLAPS

-----------------------------------------------------------------------------
(* The invariant. *)

\* A request at work on a session knows one that exists; sessions are not
\* deleted.  Only a request that owes an audit row has written.
Aims(r) ==
  /\ req[r].pc \in {"opened", "checks", "cash", "write", "audit"} => req[r].sid \in DOMAIN sessions
  /\ req[r].todo \subseteq DOMAIN sessions
  /\ req[r].wrote => req[r].pc = "audit"
  /\ r \in Hands => req[r].pc # "next"
  /\ r \in Ticks => req[r].pc \notin {"insert", "opened", "checks"}

Aimed == \A r \in Requests : Aims(r)

\* A way a session was closed is recorded, forgotten, or owed by a request.
Noted(s, way) ==
  \/ way \in audit[s] \cup untraced[s]
  \/ \E r \in Requests : At(r, "audit") /\ req[r].wrote /\ req[r].sid = s /\ Way(r) = way

Traced ==
  /\ \A s \in DOMAIN sessions : ~IsOpen(s) => closedBy[s] # {}
  /\ \A s \in Ids : \A way \in closedBy[s] : Noted(s, way)

IInv == TypeOK /\ Aimed /\ Traced

-----------------------------------------------------------------------------
(* Sums of cash. *)

LEMMA Bounds ==
  /\ MaxPayments \in Nat /\ MaxSessions \in Nat /\ Horizon \in Nat /\ MaxMishaps \in Nat
  /\ 0 \in Amount /\ 0 \in 0..MaxPayments /\ 0 \in 0..MaxSessions /\ 0 \in 0..Horizon
BY CashAssumption DEF Amount

\* The cash taken since any payment was booked has the bound of the payments.
LEMMA TakenType ==
  ASSUME TypeOK, NEW scope, NEW from \in Nat
  PROVE  Taken(scope, from, Len(cash)) \in Amount
<1> DEFINE Of(kind) == {i \in (from + 1)..Len(cash) : In(cash[i].branch, scope) /\ cash[i].kind = kind}
<1>1. Len(cash) \in Nat /\ Len(cash) <= MaxPayments /\ MaxPayments \in Nat
  BY Bounds, LenProperties DEF TypeOK
<1>2. IsFiniteSet(1..Len(cash)) /\ Cardinality(1..Len(cash)) = Len(cash)
  <2>1. 1 \in Int /\ Len(cash) \in Int
    BY <1>1
  <2>2. /\ IsFiniteSet(1..Len(cash))
        /\ Cardinality(1..Len(cash)) = IF 1 > Len(cash) THEN 0 ELSE Len(cash) - 1 + 1
    BY <2>1, FS_Interval, Zenon
  <2> QED BY <1>1, <2>2
<1>3. \A kind : Of(kind) \subseteq 1..Len(cash)
  BY <1>1
<1> HIDE DEF Of
<1>4. \A kind : Cardinality(Of(kind)) \in Nat /\ Cardinality(Of(kind)) <= Len(cash)
  BY <1>2, <1>3, FS_Subset, FS_CardinalityType
<1>5. Taken(scope, from, Len(cash)) = Cardinality(Of("sale")) - Cardinality(Of("refund"))
  BY DEF Taken, Of
<1>6. Cardinality(Of("sale")) \in 0..MaxPayments /\ Cardinality(Of("refund")) \in 0..MaxPayments
  BY <1>1, <1>4
<1> HIDE DEF Taken
<1> QED BY <1>1, <1>5, <1>6 DEF Amount

-----------------------------------------------------------------------------
(* Sessions. *)

LEMMA SessionsType ==
  ASSUME TypeOK
  PROVE  /\ DOMAIN sessions = 1..Len(sessions) /\ Len(sessions) \in Nat
         /\ DOMAIN sessions \subseteq Ids
         /\ \A s \in DOMAIN sessions : sessions[s] \in Session
<1>1. sessions \in Seq(Session) /\ Len(sessions) <= MaxSessions
  BY DEF TypeOK
<1>2. DOMAIN sessions = 1..Len(sessions) /\ Len(sessions) \in Nat
  BY <1>1, LenProperties
<1>3. \A s \in DOMAIN sessions : sessions[s] \in Session
  BY <1>1, <1>2, ElementOfSeq
<1> QED BY <1>1, <1>2, <1>3, Bounds DEF Ids

LEMMA WorkType ==
  ASSUME TypeOK, NEW r \in Requests
  PROVE  req[r] \in Work
BY DEF TypeOK

\* A close changes one session and keeps the list.
LEMMA CloseRowDoes ==
  ASSUME TypeOK, NEW r \in Requests, req[r].sid \in DOMAIN sessions, CloseRow(r)
  PROVE  /\ sessions' \in Seq(Session) /\ Len(sessions') = Len(sessions) /\ DOMAIN sessions' = DOMAIN sessions
         /\ \A s \in DOMAIN sessions : s # req[r].sid => sessions'[s] = sessions[s]
         /\ closedBy' \in [Ids -> SUBSET Ways] /\ closedBy'[req[r].sid] = closedBy[req[r].sid] \cup {Way(r)}
         /\ \A s \in Ids : s # req[r].sid => closedBy'[s] = closedBy[s]
<1> DEFINE i == req[r].sid
           e == [sessions[i] EXCEPT !.status = "closed", !.expected = req[r].sum, !.upto = Len(cash)]
<1>1. Len(cash) \in 0..MaxPayments
  BY Bounds, LenProperties DEF TypeOK
<1>2. sessions[i] \in Session
  BY SessionsType
<1>3. req[r].sum \in Amount
  BY WorkType DEF Work
<1>4. e \in Session
  BY <1>1, <1>2, <1>3 DEF Session
<1>5. sessions' = [sessions EXCEPT ![i] = e]
  BY DEF CloseRow
<1>6. sessions \in Seq(Session) /\ i \in 1..Len(sessions)
  BY SessionsType DEF TypeOK
<1> HIDE DEF e, i
<1>7. sessions' \in Seq(Session) /\ Len(sessions') = Len(sessions)
  BY <1>4, <1>5, <1>6, ExceptSeq
<1>8. DOMAIN sessions' = DOMAIN sessions /\ \A s \in DOMAIN sessions : s # i => sessions'[s] = sessions[s]
  BY <1>5
<1>9. i \in Ids /\ Way(r) \in Ways /\ closedBy \in [Ids -> SUBSET Ways]
  BY SessionsType DEF Way, Ways, TypeOK, i
<1>10. closedBy' = [closedBy EXCEPT ![i] = @ \cup {Way(r)}]
  BY DEF CloseRow, i
<1>11. /\ closedBy' \in [Ids -> SUBSET Ways] /\ closedBy'[i] = closedBy[i] \cup {Way(r)}
       /\ \A s \in Ids : s # i => closedBy'[s] = closedBy[s]
  BY <1>9, <1>10
<1> QED BY <1>7, <1>8, <1>11 DEF i

-----------------------------------------------------------------------------
(* Steps. *)

LEMMA MishapsType ==
  ASSUME TypeOK, Mishap \/ Smooth
  PROVE  mishaps' \in 0..MaxMishaps
BY Bounds DEF TypeOK, Mishap, Smooth

\* The audit trail and what is missing from it only grow.
TrailGrows ==
  /\ audit' \in [Ids -> SUBSET ({"open"} \cup Ways)] /\ untraced' \in [Ids -> SUBSET Ways]
  /\ \A s \in Ids : audit[s] \subseteq audit'[s] /\ untraced[s] \subseteq untraced'[s]

\* What a request's step leaves alone unless it writes a session.
Still == UNCHANGED <<now, sessions, cash, checks, settings, odd, closedBy>>

\* A request goes from one statement to the next, or ends; if it has closed a
\* session, that is recorded or known to be missing.
LEMMA GoesOn ==
  ASSUME IInv, Still, NEW r \in Requests, NEW w \in Work, req' = [req EXCEPT ![r] = w],
         Mishap \/ Smooth, TrailGrows,
         req[r].wrote => Way(r) \in audit'[req[r].sid] \cup untraced'[req[r].sid],
         w.pc \in {"opened", "checks", "cash", "write", "audit"} => w.sid \in DOMAIN sessions,
         w.todo \subseteq DOMAIN sessions, ~w.wrote,
         r \in Hands => w.pc # "next",
         r \in Ticks => w.pc \notin {"insert", "opened", "checks"}
  PROVE  IInv'
<1>1. req'[r] = w /\ \A q \in Requests : q # r => req'[q] = req[q]
  BY DEF IInv, TypeOK
<1>2. TypeOK'
  <2>1. req' \in [Requests -> Work]
    BY DEF IInv, TypeOK
  <2>2. mishaps' \in 0..MaxMishaps
    BY MishapsType DEF IInv
  <2> QED BY <2>1, <2>2 DEF IInv, TypeOK, Still, TrailGrows
<1>3. Aimed'
  BY <1>1 DEF IInv, Aimed, Aims, Still
<1>4. ASSUME NEW s \in Ids, NEW way \in closedBy'[s]
      PROVE  Noted(s, way)'
  <2>1. Noted(s, way)
    BY <1>4 DEF IInv, Traced, Still
  <2>2. CASE way \in audit[s] \cup untraced[s]
    BY <2>2 DEF TrailGrows, Noted
  <2>3. ASSUME NEW q \in Requests, At(q, "audit"), req[q].wrote, req[q].sid = s, Way(q) = way
        PROVE  Noted(s, way)'
    <3>1. CASE q = r
      BY <2>3, <3>1 DEF Noted
    <3>2. CASE q # r
      <4>1. req'[q] = req[q] /\ Way(q)' = Way(q)
        BY <1>1, <3>2 DEF Way
      <4> QED BY <2>3, <4>1 DEF Noted, At
    <3> QED BY <3>1, <3>2
  <2> QED BY <2>1, <2>2, <2>3 DEF Noted
<1>5. Traced'
  BY <1>4 DEF IInv, Traced, IsOpen, Still
<1> QED BY <1>2, <1>3, <1>5 DEF IInv

\* A step that leaves the audit trail alone is one of a request that has not written.
LEMMA Quiet ==
  ASSUME IInv, NEW r \in Requests, ~At(r, "audit"), UNCHANGED <<audit, traces>>
  PROVE  TrailGrows /\ ~req[r].wrote
BY DEF IInv, TypeOK, Aimed, Aims, TrailGrows, traces, At

LEMMA Forgets ==
  ASSUME IInv, NEW r \in Requests, Forgotten(r), UNCHANGED audit
  PROVE  TrailGrows /\ (req[r].wrote => Way(r) \in untraced'[req[r].sid])
<1>1. TypeOK /\ Way(r) \in Ways
  BY DEF IInv, Way, Ways
<1>2. CASE req[r].wrote
  <2>1. req[r].sid \in Ids
    BY <1>1, <1>2, SessionsType DEF IInv, Aimed, Aims
  <2>2. untraced' = [untraced EXCEPT ![req[r].sid] = @ \cup {Way(r)}]
    BY <1>2 DEF Forgotten
  <2> QED BY <1>1, <2>1, <2>2 DEF TypeOK, TrailGrows
<1>3. CASE ~req[r].wrote
  BY <1>1, <1>3 DEF Forgotten, TypeOK, TrailGrows
<1> QED BY <1>2, <1>3

LEMMA AuditDoes ==
  ASSUME IInv, NEW r \in Requests, req[r].pc \in {"opened", "audit"}, NEW action \in {"open"} \cup Ways,
         req[r].wrote => action = Way(r), Audit(r, action)
  PROVE  /\ Mishap \/ Smooth
         /\ TrailGrows
         /\ req[r].wrote => Way(r) \in audit'[req[r].sid] \cup untraced'[req[r].sid]
<1>1. TypeOK /\ req[r].sid \in Ids
  BY SessionsType DEF IInv, Aimed, Aims
<1>2. CASE Smooth /\ Record(req[r].sid, action) /\ UNCHANGED untraced
  BY <1>1, <1>2 DEF Record, TypeOK, TrailGrows
<1>3. CASE Mishap /\ Forgotten(r) /\ UNCHANGED audit
  BY <1>3, Forgets
<1> QED BY <1>2, <1>3 DEF Audit

LEMMA IdleType == Idle \in Work /\ Idle.todo = {} /\ Idle.pc = "idle" /\ ~Idle.wrote
BY Bounds DEF Idle, Work

\* Handlers read before they write, or give up.
LEMMA HandsRead ==
  ASSUME IInv, NEW r \in Hands,
         \/ \E scope \in Scopes : OpenRead(r, scope) \/ \E s \in DOMAIN sessions : CloseRead(r, scope, s)
         \/ OpenFails(r) \/ CloseChecks(r) \/ CloseCash(r)
  PROVE  IInv'
<1>1. r \in Requests /\ r \notin Ticks /\ req[r] \in Work /\ TypeOK
  BY CashAssumption, WorkType DEF Requests, IInv
<1>2. Aims(r)
  BY <1>1 DEF IInv, Aimed
<1>3. ~At(r, "audit") /\ Still /\ UNCHANGED <<audit, traces>> /\ (Mishap \/ Smooth)
  BY DEF OpenRead, OpenFails, CloseRead, CloseChecks, CloseCash, At, Still, Smooth, room, traces
<1>4. TrailGrows /\ ~req[r].wrote
  BY <1>1, <1>3, Quiet
<1>5. ASSUME NEW scope \in Scopes, OpenRead(r, scope)
      PROVE  IInv'
  <2> DEFINE w == [req[r] EXCEPT !.pc = "insert", !.scope = scope]
  <2>1. w \in Work /\ w.pc = "insert" /\ w.todo = req[r].todo /\ w.wrote = req[r].wrote
    BY <1>1 DEF Work
  <2>2. req' = [req EXCEPT ![r] = w]
    BY <1>5 DEF OpenRead
  <2> HIDE DEF w
  <2> QED BY <1>1, <1>2, <1>3, <1>4, <2>1, <2>2, GoesOn DEF Aims
<1>6. CASE OpenFails(r)
  BY <1>1, <1>3, <1>4, <1>6, IdleType, GoesOn DEF OpenFails, Finish
<1>7. ASSUME NEW scope \in Scopes, NEW s \in DOMAIN sessions, CloseRead(r, scope, s)
      PROVE  IInv'
  <2>0. s \in 0..MaxSessions
    BY <1>1, SessionsType, Bounds DEF Ids
  <2> DEFINE w == [req[r] EXCEPT !.pc = IF settings.strict THEN "checks" ELSE "cash", !.scope = scope, !.sid = s]
  <2>1. w \in Work /\ w.pc \in {"checks", "cash"} /\ w.todo = req[r].todo /\ w.sid = s /\ w.wrote = req[r].wrote
    BY <1>1, <2>0 DEF Work
  <2>2. req' = [req EXCEPT ![r] = w]
    BY <1>7 DEF CloseRead
  <2> HIDE DEF w
  <2> QED BY <1>1, <1>2, <1>3, <1>4, <2>1, <2>2, GoesOn DEF Aims
<1>8. CASE CloseChecks(r)
  <2> DEFINE w == [req[r] EXCEPT !.pc = "cash"]
  <2>1. w \in Work /\ w.pc = "cash" /\ w.todo = req[r].todo /\ w.sid = req[r].sid /\ w.wrote = req[r].wrote
    BY <1>1 DEF Work
  <2>2. req' = [req EXCEPT ![r] = w] \/ req' = [req EXCEPT ![r] = Idle]
    BY <1>8 DEF CloseChecks, Finish, Goto
  <2>3. req[r].pc = "checks"
    BY <1>8 DEF CloseChecks, At
  <2> HIDE DEF w
  <2> QED BY <1>1, <1>2, <1>3, <1>4, <2>1, <2>2, <2>3, IdleType, GoesOn DEF Aims
<1>9. CASE CloseCash(r)
  <2> DEFINE sum == Taken(req[r].scope, sessions[req[r].sid].from, Len(cash))
  <2>1. req[r].sid \in DOMAIN sessions
    BY <1>2, <1>9 DEF Aims, CloseCash, At
  <2>2. sum \in Amount
    <3>1. sessions[req[r].sid].from \in Nat
      BY <1>1, <2>1, SessionsType, Bounds DEF Session
    <3> QED BY <1>1, <3>1, TakenType
  <2>3. Len(cash) \in 0..MaxPayments
    BY <1>1, Bounds, LenProperties DEF TypeOK
  <2>4. \/ req' = [req EXCEPT ![r] = [req[r] EXCEPT !.pc = "write", !.upto = Len(cash), !.sum = sum]]
        \/ req' = [req EXCEPT ![r] = [req[r] EXCEPT !.pc = "write", !.upto = Len(cash), !.blind = TRUE]]
    BY <1>9 DEF CloseCash
  <2> HIDE DEF sum
  <2> DEFINE w == [req[r] EXCEPT !.pc = "write", !.upto = Len(cash), !.sum = sum]
             x == [req[r] EXCEPT !.pc = "write", !.upto = Len(cash), !.blind = TRUE]
  <2>5. /\ w \in Work /\ w.pc = "write" /\ w.todo = req[r].todo /\ w.sid = req[r].sid /\ w.wrote = req[r].wrote
        /\ x \in Work /\ x.pc = "write" /\ x.todo = req[r].todo /\ x.sid = req[r].sid /\ x.wrote = req[r].wrote
    BY <1>1, <2>2, <2>3 DEF Work
  <2>6. req' = [req EXCEPT ![r] = w] \/ req' = [req EXCEPT ![r] = x]
    BY <2>4
  <2> HIDE DEF w, x
  <2>7. CASE req' = [req EXCEPT ![r] = w]
    BY <1>1, <1>2, <1>3, <1>4, <2>1, <2>5, <2>7, GoesOn DEF Aims
  <2>8. CASE req' = [req EXCEPT ![r] = x]
    BY <1>1, <1>2, <1>3, <1>4, <2>1, <2>5, <2>8, GoesOn DEF Aims
  <2> QED BY <2>6, <2>7, <2>8
<1> QED BY <1>5, <1>6, <1>7, <1>8, <1>9

\* What the schedule goes on with after a session.
LEMMA ProceedsTo ==
  ASSUME TypeOK, NEW r \in Requests, Proceed(r)
  PROVE  \E w \in Work : /\ req' = [req EXCEPT ![r] = w]
                         /\ w.pc = "next" /\ w.todo = req[r].todo /\ ~w.wrote
<1> DEFINE w == [Idle EXCEPT !.pc = "next", !.todo = req[r].todo, !.at = req[r].at]
<1>1. req[r] \in Work
  BY WorkType
<1>2. w \in Work /\ w.pc = "next" /\ w.todo = req[r].todo /\ ~w.wrote
  BY <1>1, IdleType DEF Work, Idle
<1>3. req' = [req EXCEPT ![r] = w]
  BY DEF Proceed
<1> QED BY <1>2, <1>3

\* So does the schedule.
LEMMA TickReads ==
  ASSUME IInv, NEW r \in Ticks, TickStart(r) \/ TickNext(r) \/ TickCash(r) \/ TickFails(r) \/ TickEnd(r)
  PROVE  IInv'
<1>1. r \in Requests /\ r \notin Hands /\ req[r] \in Work /\ TypeOK
  BY CashAssumption, WorkType DEF Requests, IInv
<1>2. Aims(r)
  BY <1>1 DEF IInv, Aimed
<1>3. ~At(r, "audit") /\ Still /\ UNCHANGED <<audit, traces>> /\ (Mishap \/ Smooth)
  BY DEF TickStart, TickNext, TickCash, TickFails, TickEnd, At, Still, Smooth, room, traces
<1>4. TrailGrows /\ ~req[r].wrote
  BY <1>1, <1>3, Quiet
<1>5. CASE TickStart(r)
  <2> DEFINE open == {s \in DOMAIN sessions : IsOpen(s)}
             w == [req[r] EXCEPT !.pc = "next", !.at = now, !.todo = open]
  <2>1. open \in SUBSET Ids /\ open \subseteq DOMAIN sessions /\ now \in 0..Horizon
    BY <1>1, SessionsType DEF TypeOK
  <2>2. req' = [req EXCEPT ![r] = w]
    BY <1>5 DEF TickStart
  <2> HIDE DEF open
  <2>3. w \in Work /\ w.pc = "next" /\ w.todo = open /\ w.wrote = req[r].wrote
    BY <1>1, <2>1 DEF Work
  <2> HIDE DEF w
  <2> QED BY <1>1, <1>3, <1>4, <2>1, <2>2, <2>3, GoesOn
<1>6. CASE TickNext(r)
  <2>1. PICK s \in req[r].todo :
          \/ req' = [req EXCEPT ![r].pc = "next", ![r].sid = 0, ![r].todo = @ \ {s}]
          \/ req' = [req EXCEPT ![r].pc = "cash", ![r].sid = s, ![r].todo = @ \ {s}]
    <3>1. PICK s \in req[r].todo :
            LET branch == sessions[s].branch
                skip   == \/ ~Due(sessions[s].opened, req[r].at)
                          \/ settings.strict /\ checks[branch]
            IN req' = [req EXCEPT ![r].pc   = IF skip THEN "next" ELSE "cash",
                                  ![r].sid  = IF skip THEN 0 ELSE s,
                                  ![r].todo = @ \ {s}]
      BY <1>6 DEF TickNext
    <3> DEFINE skip == ~Due(sessions[s].opened, req[r].at) \/ (settings.strict /\ checks[sessions[s].branch])
    <3>2. req' = [req EXCEPT ![r].pc   = IF skip THEN "next" ELSE "cash",
                             ![r].sid  = IF skip THEN 0 ELSE s,
                             ![r].todo = @ \ {s}]
      BY <3>1
    <3> HIDE DEF skip
    <3>3. CASE skip
      <4>1. req' = [req EXCEPT ![r].pc = "next", ![r].sid = 0, ![r].todo = @ \ {s}]
        BY <3>2, <3>3
      <4> QED BY <4>1
    <3>4. CASE ~skip
      <4>1. req' = [req EXCEPT ![r].pc = "cash", ![r].sid = s, ![r].todo = @ \ {s}]
        BY <3>2, <3>4
      <4> QED BY <4>1
    <3> QED BY <3>3, <3>4
  <2>2. s \in DOMAIN sessions /\ s \in 0..MaxSessions /\ req[r].todo \subseteq DOMAIN sessions
    BY <1>1, <1>2, SessionsType, Bounds DEF Aims, Ids
  <2> DEFINE next == [req[r] EXCEPT !.pc = "next", !.sid = 0, !.todo = @ \ {s}]
             take == [req[r] EXCEPT !.pc = "cash", !.sid = s, !.todo = @ \ {s}]
  <2>3. /\ next \in Work /\ next.pc = "next" /\ next.todo = req[r].todo \ {s} /\ next.wrote = req[r].wrote
        /\ take \in Work /\ take.pc = "cash" /\ take.todo = req[r].todo \ {s} /\ take.sid = s
        /\ take.wrote = req[r].wrote
    BY <1>1, <2>2, Bounds DEF Work
  <2>4. req' = [req EXCEPT ![r] = next] \/ req' = [req EXCEPT ![r] = take]
    BY <2>1
  <2> HIDE DEF next, take
  <2>5. req[r].todo \ {s} \subseteq DOMAIN sessions
    BY <2>2
  <2> QED BY <1>1, <1>3, <1>4, <2>2, <2>3, <2>4, <2>5, GoesOn
<1>7. CASE TickCash(r)
  <2> DEFINE s == sessions[req[r].sid]
             sum == Taken(s.branch, s.from, Len(cash))
  <2>1. req[r].sid \in DOMAIN sessions
    BY <1>2, <1>7 DEF Aims, TickCash, At
  <2>2. sum \in Amount
    <3>1. s.from \in Nat
      BY <1>1, <2>1, SessionsType, Bounds DEF Session
    <3> QED BY <1>1, <3>1, TakenType
  <2>3. Len(cash) \in 0..MaxPayments
    BY <1>1, Bounds, LenProperties DEF TypeOK
  <2>4. req' = [req EXCEPT ![r] = [req[r] EXCEPT !.pc = "write", !.upto = Len(cash), !.sum = sum]]
    BY <1>7 DEF TickCash
  <2> HIDE DEF sum
  <2> DEFINE w == [req[r] EXCEPT !.pc = "write", !.upto = Len(cash), !.sum = sum]
  <2>5. w \in Work /\ w.pc = "write" /\ w.todo = req[r].todo /\ w.sid = req[r].sid /\ w.wrote = req[r].wrote
    BY <1>1, <2>2, <2>3 DEF Work
  <2>6. req' = [req EXCEPT ![r] = w]
    BY <2>4
  <2> HIDE DEF w
  <2> QED BY <1>1, <1>2, <1>3, <1>4, <2>1, <2>5, <2>6, GoesOn DEF Aims
<1>8. CASE TickEnd(r)
  BY <1>1, <1>3, <1>4, <1>8, IdleType, GoesOn DEF TickEnd, Finish
<1>9. CASE TickFails(r)
  <2>1. CASE Proceed(r)
    BY <1>1, <1>2, <1>3, <1>4, <2>1, ProceedsTo, GoesOn DEF Aims
  <2>2. ASSUME NEW s \in req[r].todo, At(r, "next"), req' = [req EXCEPT ![r].todo = @ \ {s}]
        PROVE  IInv'
    <3> DEFINE w == [req[r] EXCEPT !.todo = @ \ {s}]
    <3>1. w \in Work /\ w.pc = req[r].pc /\ w.todo = req[r].todo \ {s} /\ w.wrote = req[r].wrote
      BY <1>1, <2>2 DEF Work
    <3>2. req' = [req EXCEPT ![r] = w]
      BY <2>2
    <3> HIDE DEF w
    <3> QED BY <1>1, <1>2, <1>3, <1>4, <2>2, <3>1, <3>2, GoesOn DEF Aims, At
  <2> QED BY <1>9, <2>1, <2>2 DEF TickFails
<1> QED BY <1>5, <1>6, <1>7, <1>8, <1>9

LEMMA Dies ==
  ASSUME IInv, NEW r \in Requests, Die(r)
  PROVE  IInv'
<1>1. Mishap /\ Still /\ req' = [req EXCEPT ![r] = Idle]
  BY DEF Die, Finish, Still, room
<1>2. TrailGrows /\ (req[r].wrote => Way(r) \in untraced'[req[r].sid])
  BY Forgets DEF Die
<1> QED BY <1>1, <1>2, IdleType, GoesOn

\* What happens around the register touches no session, request or audit row.
LEMMA Around ==
  ASSUME IInv,
         Advance \/ \E b \in Branches : Check(b) \/ \E kind \in {"sale", "refund"} : Book(b, kind)
  PROVE  IInv'
<1>1. UNCHANGED <<sessions, req, audit, odd, closedBy, untraced, mishaps, settings>>
  BY DEF Advance, Check, Book, room, traces
<1>2. now' \in 0..Horizon /\ checks' \in [Branches -> BOOLEAN]
  <2>1. now \in 0..Horizon /\ checks \in [Branches -> BOOLEAN] /\ Horizon \in Nat
    BY Bounds DEF IInv, TypeOK
  <2>2. CASE Advance
    BY <2>1, <2>2 DEF Advance
  <2>3. ASSUME NEW b \in Branches, Check(b)
        PROVE  now' \in 0..Horizon /\ checks' \in [Branches -> BOOLEAN]
    BY <2>1, <2>3 DEF Check
  <2>4. ASSUME NEW b \in Branches, NEW kind \in {"sale", "refund"}, Book(b, kind)
        PROVE  now' \in 0..Horizon /\ checks' \in [Branches -> BOOLEAN]
    BY <2>1, <2>4 DEF Book, room
  <2> QED BY <2>2, <2>3, <2>4
<1>3. cash' \in Seq(Payment) /\ Len(cash') <= MaxPayments
  <2>1. ASSUME NEW b \in Branches, NEW kind \in {"sale", "refund"}, Book(b, kind)
        PROVE  cash' \in Seq(Payment) /\ Len(cash') <= MaxPayments
    <3> DEFINE p == [branch |-> b, kind |-> kind]
    <3>1. p \in Payment /\ cash' = Append(cash, p) /\ Len(cash) < MaxPayments /\ cash \in Seq(Payment)
      BY <2>1 DEF Payment, Book, IInv, TypeOK
    <3> HIDE DEF p
    <3> QED BY <3>1, Bounds
  <2>2. CASE UNCHANGED cash
    BY <2>2 DEF IInv, TypeOK
  <2> QED BY <2>1, <2>2 DEF Advance, Check
<1>4. TypeOK'
  BY <1>1, <1>2, <1>3 DEF IInv, TypeOK
<1> QED BY <1>1, <1>4 DEF IInv, Aimed, Aims, Traced, Noted, Way, IsOpen, At

\* A new session joins the end of the list, open.
LEMMA Opens ==
  ASSUME IInv, NEW r \in Hands, OpenInsert(r)
  PROVE  IInv'
<1>1. r \in Requests /\ r \notin Ticks /\ req[r] \in Work /\ TypeOK
  BY CashAssumption, WorkType DEF Requests, IInv
<1> DEFINE n == Len(sessions) + 1
           e == [branch |-> req[r].scope, opened |-> now, from |-> Len(cash),
                 status |-> "open", expected |-> 0, upto |-> 0]
           w == [req[r] EXCEPT !.pc = "opened", !.sid = n]
<1>2. e \in Session /\ e.status = "open"
  <2>1. Len(cash) \in 0..MaxPayments
    BY <1>1, Bounds, LenProperties DEF TypeOK
  <2>2. req[r].scope \in Branches
    BY <1>1, CashAssumption DEF OpenInsert, Work
  <2> QED BY <1>1, <2>1, <2>2, Bounds DEF Session, TypeOK
<1>3. sessions \in Seq(Session) /\ sessions' = Append(sessions, e) /\ Len(sessions) < MaxSessions
  BY <1>1 DEF OpenInsert, TypeOK
<1> HIDE DEF e
<1>4. /\ sessions' \in Seq(Session) /\ Len(sessions') = n /\ n \in Ids /\ n \in 0..MaxSessions
      /\ DOMAIN sessions' = 1..n /\ DOMAIN sessions = 1..Len(sessions) /\ Len(sessions) \in Nat
      /\ \A s \in DOMAIN sessions : sessions'[s] = sessions[s]
      /\ sessions'[n] = e
  BY <1>2, <1>3, LenProperties, Bounds DEF Ids
<1>5. req' = [req EXCEPT ![r] = w] /\ UNCHANGED <<now, checks, settings, cash, audit, odd, closedBy, untraced, mishaps>>
  BY DEF OpenInsert, room, traces
<1>6. req[r].pc = "insert" /\ ~req[r].wrote /\ req[r].todo \subseteq DOMAIN sessions
  BY <1>1 DEF OpenInsert, At, IInv, Aimed, Aims
<1> HIDE DEF n
<1>7. w \in Work /\ w.pc = "opened" /\ w.sid = n /\ w.todo = req[r].todo /\ ~w.wrote
  BY <1>1, <1>4, <1>6 DEF Work
<1> HIDE DEF w
<1>8. req'[r] = w /\ \A q \in Requests : q # r => req'[q] = req[q]
  BY <1>1, <1>5 DEF TypeOK
<1>9. TypeOK'
  <2>1. req' \in [Requests -> Work]
    BY <1>1, <1>5, <1>7 DEF TypeOK
  <2>2. Len(sessions') <= MaxSessions
    BY <1>3, <1>4, Bounds DEF n
  <2> QED BY <1>1, <1>4, <1>5, <2>1, <2>2 DEF TypeOK
<1>10. n \in DOMAIN sessions' /\ DOMAIN sessions \subseteq DOMAIN sessions'
  BY <1>4 DEF n
<1>11. Aimed'
  BY <1>1, <1>6, <1>7, <1>8, <1>10 DEF IInv, Aimed, Aims
<1>12. ASSUME NEW s \in Ids, NEW way \in closedBy[s]
       PROVE  Noted(s, way)'
  <2>1. Noted(s, way)
    BY <1>12 DEF IInv, Traced
  <2> QED BY <1>5, <1>6, <1>8, <2>1 DEF Noted, At, Way
<1>13. ASSUME NEW s \in DOMAIN sessions', ~IsOpen(s)'
       PROVE  closedBy[s] # {}
  <2>1. s \in DOMAIN sessions /\ ~IsOpen(s)
    BY <1>2, <1>4, <1>13 DEF IsOpen, n
  <2> QED BY <2>1 DEF IInv, Traced
<1>14. Traced'
  BY <1>5, <1>12, <1>13 DEF Traced
<1> QED BY <1>9, <1>11, <1>14 DEF IInv

\* After the write of a close its request still owes the audit row.
LEMMA Writes ==
  ASSUME IInv, NEW r \in Requests, CloseWrite(r) \/ TickWrite(r)
  PROVE  IInv' /\ req'[r].pc = "audit"
<1>1. req[r] \in Work /\ TypeOK
  BY WorkType DEF IInv
<1>2. req[r].pc = "write" /\ ~req[r].wrote /\ req[r].sid \in DOMAIN sessions /\ req[r].sid \in Ids
      /\ req[r].todo \subseteq DOMAIN sessions
  BY <1>1, SessionsType DEF CloseWrite, TickWrite, At, IInv, Aimed, Aims
<1>3. PICK wrote \in BOOLEAN :
        /\ req' = [req EXCEPT ![r].pc = "audit", ![r].wrote = wrote]
        /\ \/ wrote /\ CloseRow(r)
           \/ ~wrote /\ UNCHANGED <<sessions, closedBy>>
  <2>1. CASE CloseWrite(r)
    BY <2>1 DEF CloseWrite
  <2>2. CASE TickWrite(r)
    <3> DEFINE is == IsOpen(req[r].sid)
    <3>1. is \in BOOLEAN
      BY DEF IsOpen
    <3>2. /\ req' = [req EXCEPT ![r].pc = "audit", ![r].wrote = is]
          /\ IF is THEN CloseRow(r) ELSE UNCHANGED <<sessions, closedBy>>
      BY <2>2 DEF TickWrite
    <3> HIDE DEF is
    <3> QED BY <3>1, <3>2
  <2> QED BY <2>1, <2>2
<1>4. /\ sessions' \in Seq(Session) /\ Len(sessions') = Len(sessions) /\ DOMAIN sessions' = DOMAIN sessions
      /\ \A s \in DOMAIN sessions : s # req[r].sid => sessions'[s] = sessions[s]
      /\ closedBy' \in [Ids -> SUBSET Ways]
      /\ \A s \in Ids : s # req[r].sid => closedBy'[s] = closedBy[s]
      /\ wrote => closedBy'[req[r].sid] = closedBy[req[r].sid] \cup {Way(r)}
      /\ ~wrote => UNCHANGED <<sessions, closedBy>>
  <2>1. CASE wrote /\ CloseRow(r)
    BY <1>1, <1>2, <2>1, CloseRowDoes
  <2>2. CASE ~wrote /\ UNCHANGED <<sessions, closedBy>>
    BY <1>1, <2>2 DEF TypeOK
  <2> QED BY <1>3, <2>1, <2>2
<1>5. UNCHANGED <<now, checks, settings, cash, audit, untraced, mishaps>>
  BY DEF CloseWrite, TickWrite, room
<1> DEFINE w == [req[r] EXCEPT !.pc = "audit", !.wrote = wrote]
<1>6. /\ w \in Work /\ w.pc = "audit" /\ w.wrote = wrote /\ w.sid = req[r].sid /\ w.todo = req[r].todo
      /\ req' = [req EXCEPT ![r] = w]
  BY <1>1, <1>3 DEF Work
<1> HIDE DEF w
<1>7. req'[r] = w /\ \A q \in Requests : q # r => req'[q] = req[q]
  BY <1>1, <1>6 DEF TypeOK
<1>8. odd' \subseteq Ids
  <2>1. odd \subseteq Ids
    BY <1>1 DEF TypeOK
  <2>2. odd' \in {odd, odd \cup {req[r].sid}}
    BY DEF CloseWrite, TickWrite
  <2> QED BY <1>2, <2>1, <2>2
<1>9. TypeOK'
  <2>1. req' \in [Requests -> Work]
    BY <1>1, <1>6 DEF TypeOK
  <2>2. Len(sessions') <= MaxSessions
    BY <1>1, <1>4 DEF TypeOK
  <2> QED BY <1>1, <1>4, <1>5, <1>8, <2>1, <2>2 DEF TypeOK
<1>10. Aimed'
  BY <1>2, <1>4, <1>6, <1>7 DEF IInv, Aimed, Aims
<1>11. ASSUME NEW s \in Ids, NEW way \in closedBy'[s]
       PROVE  Noted(s, way)'
  <2>1. CASE wrote /\ s = req[r].sid /\ way = Way(r)
    BY <1>6, <1>7, <2>1 DEF Noted, At, Way
  <2>2. CASE way \in closedBy[s]
    <3>1. Noted(s, way)
      BY <2>2 DEF IInv, Traced
    <3> QED BY <1>2, <1>5, <1>7, <3>1 DEF Noted, At, Way
  <2> QED BY <1>4, <1>11, <2>1, <2>2
<1>12. ASSUME NEW s \in DOMAIN sessions, ~IsOpen(s)'
       PROVE  closedBy'[s] # {}
  <2>1. s \in Ids
    BY <1>1, SessionsType
  <2>2. CASE wrote /\ s = req[r].sid
    BY <1>4, <2>2
  <2>3. CASE ~(wrote /\ s = req[r].sid)
    <3>1. sessions'[s] = sessions[s] /\ closedBy'[s] = closedBy[s]
      BY <1>4, <2>1, <2>3
    <3>2. ~IsOpen(s)
      BY <1>4, <1>12, <3>1 DEF IsOpen
    <3> QED BY <3>1, <3>2 DEF IInv, Traced
  <2> QED BY <2>2, <2>3
<1>13. Traced'
  BY <1>4, <1>11, <1>12 DEF Traced
<1> QED BY <1>6, <1>7, <1>9, <1>10, <1>13 DEF IInv

\* The audit row goes to the session the request opened or wrote.
LEMMA HandAudits ==
  ASSUME IInv, NEW r \in Hands, OpenAudit(r) \/ CloseAudit(r)
  PROVE  IInv'
<1>1. r \in Requests /\ Way(r) = "close" /\ Aims(r)
  BY DEF Requests, Way, IInv, Aimed
<1>2. Still /\ req' = [req EXCEPT ![r] = Idle]
  BY DEF OpenAudit, CloseAudit, Finish, Still, room
<1>3. CASE OpenAudit(r)
  <2>1. req[r].pc = "opened" /\ ~req[r].wrote /\ Audit(r, "open")
    BY <1>1, <1>3 DEF OpenAudit, At, Aims
  <2> QED BY <1>1, <1>2, <2>1, IdleType, AuditDoes, GoesOn
<1>4. CASE CloseAudit(r)
  <2>1. req[r].pc = "audit" /\ Audit(r, "close")
    BY <1>4 DEF CloseAudit, At
  <2> QED BY <1>1, <1>2, <2>1, IdleType, AuditDoes, GoesOn DEF Ways
<1> QED BY <1>3, <1>4

LEMMA TickAudits ==
  ASSUME IInv, NEW r \in Ticks, TickAudit(r)
  PROVE  IInv'
<1>1. r \in Requests /\ r \notin Hands /\ Way(r) = "auto_close" /\ Aims(r) /\ TypeOK
  BY CashAssumption DEF Requests, Way, IInv, Aimed
<1>2. Still /\ Proceed(r) /\ req[r].pc = "audit" /\ Audit(r, "auto_close")
  BY DEF TickAudit, Still, At, room
<1>3. /\ Mishap \/ Smooth
      /\ TrailGrows
      /\ req[r].wrote => Way(r) \in audit'[req[r].sid] \cup untraced'[req[r].sid]
  BY <1>1, <1>2, AuditDoes DEF Ways
<1>4. PICK w \in Work : /\ req' = [req EXCEPT ![r] = w]
                        /\ w.pc = "next" /\ w.todo = req[r].todo /\ ~w.wrote
  BY <1>1, <1>2, ProceedsTo
<1> QED BY <1>1, <1>2, <1>3, <1>4, GoesOn DEF Aims

-----------------------------------------------------------------------------
(* What follows. *)

LEMMA Step == IInv /\ [Next]_vars => IInv'
<1> SUFFICES ASSUME IInv, [Next]_vars PROVE IInv'
  OBVIOUS
<1>1. CASE UNCHANGED vars
  BY <1>1 DEF vars, IInv, TypeOK, Aimed, Aims, Traced, Noted, Way, IsOpen, At
<1>2. ASSUME NEW r \in Hands, OpenInsert(r) \/ OpenAudit(r) \/ CloseWrite(r) \/ CloseAudit(r)
      PROVE  IInv'
  BY <1>2, Opens, Writes, HandAudits DEF Requests
<1>3. ASSUME NEW r \in Ticks, Tick(r) \/ TickFails(r)
      PROVE  IInv'
  BY <1>3, TickReads, Writes, TickAudits DEF Tick, Requests
<1>4. CASE \E r \in Hands :
             \/ \E scope \in Scopes : OpenRead(r, scope) \/ \E s \in DOMAIN sessions : CloseRead(r, scope, s)
             \/ OpenFails(r) \/ CloseChecks(r) \/ CloseCash(r)
  BY <1>4, HandsRead
<1>5. CASE Advance \/ \E b \in Branches : Check(b) \/ \E kind \in {"sale", "refund"} : Book(b, kind)
  BY <1>5, Around
<1>6. CASE \E r \in Requests : Die(r)
  BY <1>6, Dies
<1> QED BY <1>1, <1>2, <1>3, <1>4, <1>5, <1>6 DEF Next

LEMMA Inductive == Spec => []IInv
<1>1. Init => IInv
  <2> SUFFICES ASSUME Init PROVE IInv
    OBVIOUS
  <2>1. <<>> \in Seq(Session) /\ <<>> \in Seq(Payment) /\ Len(<<>>) = 0 /\ DOMAIN <<>> = {}
    OBVIOUS
  <2>2. TypeOK
    BY <2>1, IdleType, Bounds DEF Init, TypeOK
  <2>3. Aimed
    BY IdleType DEF Init, Aimed, Aims
  <2>4. Traced
    BY <2>1 DEF Init, Traced
  <2> QED BY <2>2, <2>3, <2>4 DEF IInv
<1> QED BY <1>1, Step, PTL DEF Spec

\* Sessions, payments and requests stay well formed, the expected cash within
\* what was booked, for any number of them.
THEOREM RegisterTypes == Spec => []TypeOK
<1>1. IInv => TypeOK
  BY DEF IInv
<1> QED BY <1>1, Inductive, PTL

\* Each way a session was closed has its audit row, or the request that closed
\* it still owes it, or that request ended before the row, or the insert of the
\* row failed: it is written after the update, and its error is not looked at
\* (closeCashSession of data.ts, runAutoCloseTick of the schedule).
THEOREM ClosesAreTraced == Spec => []CloseLeavesTrace
<1>1. IInv => CloseLeavesTrace
  <2> SUFFICES ASSUME IInv, NEW s \in DOMAIN sessions, ~IsOpen(s)
               PROVE  closedBy[s] # {} /\ \A way \in closedBy[s] : Noted(s, way)
    BY DEF CloseLeavesTrace, Noted
  <2>1. s \in Ids
    BY SessionsType DEF IInv
  <2> QED BY <2>1 DEF IInv, Traced
<1> QED BY <1>1, Inductive, PTL

\* However many runs of the schedule overlap, none of them changes a session
\* that is closed: its update is conditional on the status, a cashier's is not.
THEOREM ScheduleKeepsCloses == Spec => AutoNeverOverwrites
<1> DEFINE Overwrites ==
      \A s \in DOMAIN sessions :
       ~IsOpen(s) /\ sessions'[s] # sessions[s] =>
         \E r \in Hands : At(r, "write") /\ req[r].sid = s /\ req'[r].pc = "audit"
<1>1. IInv /\ [Next]_vars => [Overwrites]_vars
  <2> SUFFICES ASSUME IInv, [Next]_vars, NEW s \in DOMAIN sessions, ~IsOpen(s), sessions'[s] # sessions[s]
               PROVE  \E r \in Hands : At(r, "write") /\ req[r].sid = s /\ req'[r].pc = "audit"
    BY DEF At
  <2>1. ASSUME NEW r \in Hands, CloseWrite(r)
        PROVE  At(r, "write") /\ req[r].sid = s /\ req'[r].pc = "audit"
    <3>1. r \in Requests /\ req[r].sid \in DOMAIN sessions /\ TypeOK
      BY <2>1 DEF Requests, IInv, Aimed, Aims, CloseWrite, At
    <3>2. req[r].sid = s
      BY <2>1, <3>1, CloseRowDoes DEF CloseWrite
    <3> QED BY <2>1, <3>1, <3>2, Writes DEF CloseWrite
  <2>2. ASSUME NEW r \in Ticks, TickWrite(r)
        PROVE  FALSE
    <3>1. r \in Requests /\ req[r].sid \in DOMAIN sessions /\ TypeOK
      BY <2>2 DEF Requests, IInv, Aimed, Aims, TickWrite, At
    <3>2. s # req[r].sid \/ UNCHANGED sessions
      BY <2>2 DEF TickWrite
    <3> QED BY <2>2, <3>1, <3>2, CloseRowDoes DEF TickWrite
  <2>3. ASSUME NEW r \in Hands, OpenInsert(r)
        PROVE  FALSE
    <3> DEFINE e == [branch |-> req[r].scope, opened |-> now, from |-> Len(cash),
                     status |-> "open", expected |-> 0, upto |-> 0]
    <3>1. sessions' = Append(sessions, e) /\ sessions \in Seq(Session) /\ s \in 1..Len(sessions)
      BY <2>3, SessionsType DEF OpenInsert, IInv, TypeOK
    <3> HIDE DEF e
    <3> QED BY <3>1
  <2>4. CASE UNCHANGED sessions
    BY <2>4
  <2>5. \/ UNCHANGED sessions
        \/ \E r \in Hands : CloseWrite(r) \/ OpenInsert(r)
        \/ \E r \in Ticks : TickWrite(r)
    BY DEF Next, vars, Advance, Check, Book, Die, OpenRead, OpenFails, CloseRead, CloseChecks, CloseCash, CloseAudit,
           OpenAudit, Tick, TickStart, TickNext, TickCash, TickAudit, TickFails, TickEnd
  <2> QED BY <2>1, <2>2, <2>3, <2>4, <2>5
<1> QED BY <1>1, Inductive, PTL DEF Spec, AutoNeverOverwrites

-----------------------------------------------------------------------------
(* The figures of a close.  Payments are only added, so what a request read *)
(* stays the sum up to where it read; nothing of the branch between there   *)
(* and the write makes it the sum up to the write.                          *)

\* What was taken, of any list of payments.
TakenOf(list, scope, from, n) ==
  LET Of(kind) == {i \in (from + 1)..n : In(list[i].branch, scope) /\ list[i].kind = kind}
  IN Cardinality(Of("sale")) - Cardinality(Of("refund"))

\* What request r is about to write, and on what: only a cashier who looks at
\* all branches, or whose read of the payments failed, may have the wrong sum.
Counts(r) ==
  LET s == sessions[req[r].sid] IN
  /\ (r \in Hands /\ req[r].pc \in {"checks", "cash", "write"}) => In(s.branch, req[r].scope)
  /\ req[r].pc = "write" =>
       /\ req[r].upto \in 0..Len(cash)
       /\ \/ r \in Hands /\ (req[r].scope = All \/ req[r].blind)
          \/ req[r].sum = TakenOf(cash, s.branch, s.from, req[r].upto)

Exact(s) ==
  /\ sessions[s].upto \in 0..Len(cash)
  /\ sessions[s].expected = TakenOf(cash, sessions[s].branch, sessions[s].from, sessions[s].upto)

ClosedExactly == \A s \in DOMAIN sessions : ~IsOpen(s) /\ s \notin odd => Exact(s)

SumInv == ClosedExactly /\ \A r \in Requests : Counts(r)

\* The sum up to n does not see what is booked behind n.
LEMMA SumStays ==
  ASSUME NEW list, NEW longer, NEW scope, NEW from \in Nat, NEW n \in Nat,
         \A i \in 1..n : longer[i] = list[i]
  PROVE  TakenOf(longer, scope, from, n) = TakenOf(list, scope, from, n)
<1> DEFINE Of(kind)   == {i \in (from + 1)..n : In(list[i].branch, scope) /\ list[i].kind = kind}
           Then(kind) == {i \in (from + 1)..n : In(longer[i].branch, scope) /\ longer[i].kind = kind}
<1>1. \A kind : Then(kind) = Of(kind)
  BY (from + 1)..n \subseteq 1..n
<1>2. /\ TakenOf(list, scope, from, n) = Cardinality(Of("sale")) - Cardinality(Of("refund"))
      /\ TakenOf(longer, scope, from, n) = Cardinality(Then("sale")) - Cardinality(Then("refund"))
  BY DEF TakenOf
<1> HIDE DEF Of, Then
<1> QED BY <1>1, <1>2

\* Nothing of the branch behind n leaves the sum as it was.
LEMMA SumGoesOn ==
  ASSUME NEW list, NEW b \in Branches, NEW from \in Nat, NEW n \in Nat, NEW m \in Nat, n <= m,
         \A i \in (n + 1)..m : list[i].branch # b
  PROVE  TakenOf(list, b, from, m) = TakenOf(list, b, from, n)
<1> DEFINE Of(kind)   == {i \in (from + 1)..n : In(list[i].branch, b) /\ list[i].kind = kind}
           Then(kind) == {i \in (from + 1)..m : In(list[i].branch, b) /\ list[i].kind = kind}
<1>1. b # All
  BY CashAssumption
<1>2. \A kind : Then(kind) = Of(kind)
  <2>1. \A i \in (from + 1)..m : i \in (from + 1)..n \/ i \in (n + 1)..m
    OBVIOUS
  <2>2. (from + 1)..n \subseteq (from + 1)..m
    OBVIOUS
  <2> QED BY <1>1, <2>1, <2>2 DEF In
<1>3. /\ TakenOf(list, b, from, n) = Cardinality(Of("sale")) - Cardinality(Of("refund"))
      /\ TakenOf(list, b, from, m) = Cardinality(Then("sale")) - Cardinality(Then("refund"))
  BY DEF TakenOf
<1> HIDE DEF Of, Then
<1> QED BY <1>2, <1>3

\* Payments and sessions are only added, and a session keeps its branch and
\* what was booked before it.
LEMMA Kept ==
  ASSUME IInv, [Next]_vars
  PROVE  /\ Len(cash) \in Nat /\ Len(cash') \in Nat /\ Len(cash) <= Len(cash')
         /\ \A i \in 1..Len(cash) : cash'[i] = cash[i]
         /\ \A s \in DOMAIN sessions :
              /\ s \in DOMAIN sessions'
              /\ sessions'[s].branch = sessions[s].branch /\ sessions'[s].from = sessions[s].from
<1>1. TypeOK /\ cash \in Seq(Payment) /\ Len(cash) \in Nat
  BY LenProperties DEF IInv, TypeOK
<1>2. /\ Len(cash') \in Nat /\ Len(cash) <= Len(cash')
      /\ \A i \in 1..Len(cash) : cash'[i] = cash[i]
  <2>1. CASE UNCHANGED cash
    BY <1>1, <2>1
  <2>2. ASSUME NEW b \in Branches, NEW kind \in {"sale", "refund"}, Book(b, kind)
        PROVE  <1>2!:
    <3> DEFINE p == [branch |-> b, kind |-> kind]
    <3>1. p \in Payment /\ cash' = Append(cash, p)
      BY <2>2 DEF Book, Payment
    <3> HIDE DEF p
    <3> QED BY <1>1, <3>1
  <2> QED BY <2>1, <2>2 DEF Next, vars, Advance, Check, Die, OpenRead, OpenFails, OpenInsert, CloseRead,
                CloseChecks, CloseCash, CloseWrite, CloseAudit, Tick, TickStart, TickNext, TickCash, TickWrite,
                OpenAudit, TickAudit, TickFails, TickEnd
<1> DEFINE Stays == \A s \in DOMAIN sessions :
                      /\ s \in DOMAIN sessions'
                      /\ sessions'[s].branch = sessions[s].branch /\ sessions'[s].from = sessions[s].from
<1>3. Stays
  <2>1. CASE UNCHANGED sessions
    BY <2>1
  <2>2. ASSUME NEW r \in Requests, CloseWrite(r) \/ TickWrite(r)
        PROVE  Stays
    <3>1. req[r].sid \in DOMAIN sessions
      BY <2>2 DEF CloseWrite, TickWrite, At, IInv, Aimed, Aims
    <3>2. sessions[req[r].sid] \in Session
      BY <1>1, <3>1, SessionsType
    <3> QED BY <2>1, <2>2, <3>1, <3>2 DEF CloseWrite, TickWrite, CloseRow, Session
  <2>3. ASSUME NEW r \in Hands, OpenInsert(r)
        PROVE  Stays
    <3> DEFINE e == [branch |-> req[r].scope, opened |-> now, from |-> Len(cash),
                     status |-> "open", expected |-> 0, upto |-> 0]
    <3>1. sessions' = Append(sessions, e) /\ sessions \in Seq(Session)
      BY <1>1, <2>3 DEF OpenInsert, TypeOK
    <3> HIDE DEF e
    <3> QED BY <3>1, SessionsType, <1>1
  <2> QED BY <2>1, <2>2, <2>3 DEF Next, vars, Advance, Check, Book, Die, OpenRead, OpenFails, CloseRead,
                CloseChecks, CloseCash, CloseAudit, Tick, TickStart, TickNext, TickCash, TickAudit, TickEnd, TickFails, OpenAudit,
                Requests
<1> QED BY <1>1, <1>2, <1>3

\* A closed session stays exact as payments are booked behind its close.
LEMMA ExactStays ==
  ASSUME IInv, [Next]_vars, NEW s \in DOMAIN sessions, Exact(s), sessions'[s] = sessions[s]
  PROVE  Exact(s)'
<1>1. sessions[s].upto \in 0..Len(cash) /\ sessions[s].from \in Nat /\ Len(cash) \in Nat
  <2>1. sessions[s] \in Session
    BY SessionsType DEF IInv
  <2> QED BY <2>1, Kept, Bounds DEF Exact, Session
<1>2. /\ Len(cash') \in Nat /\ Len(cash) <= Len(cash')
      /\ \A i \in 1..sessions[s].upto : cash'[i] = cash[i]
  BY <1>1, Kept
<1>3. TakenOf(cash', sessions[s].branch, sessions[s].from, sessions[s].upto)
        = TakenOf(cash, sessions[s].branch, sessions[s].from, sessions[s].upto)
  BY <1>1, <1>2, SumStays
<1>4. sessions'[s].upto \in 0..Len(cash')
  BY <1>1, <1>2
<1> QED BY <1>3, <1>4 DEF Exact

\* A plain close writes the sum the request read, and nothing of the branch has
\* been booked since.
LEMMA WritesExactly ==
  ASSUME IInv, NEW r \in Requests, NEW i, i = req[r].sid, Counts(r), req[r].pc = "write",
         CloseRow(r), UNCHANGED cash, ~Raced(r), r \in Hands => req[r].scope # All /\ ~req[r].blind
  PROVE  Exact(i)'
<1>1. i \in DOMAIN sessions /\ TypeOK
  BY DEF IInv, Aimed, Aims
<1>2. sessions[i] \in Session /\ sessions[i].branch \in Branches /\ sessions[i].from \in Nat
  BY <1>1, SessionsType, Bounds DEF Session
<1>3. Len(cash) \in Nat /\ req[r].upto \in Nat /\ req[r].upto <= Len(cash)
  BY <1>1, LenProperties DEF Counts, TypeOK
<1>4. req[r].sum = TakenOf(cash, sessions[i].branch, sessions[i].from, req[r].upto)
  BY DEF Counts
<1>5. \A j \in (req[r].upto + 1)..Len(cash) : cash[j].branch # sessions[i].branch
  BY DEF Raced
<1>6. TakenOf(cash, sessions[i].branch, sessions[i].from, Len(cash)) = req[r].sum
  <2> DEFINE n == req[r].upto
             m == Len(cash)
             b == sessions[i].branch
             from == sessions[i].from
  <2>1. b \in Branches /\ from \in Nat /\ n \in Nat /\ m \in Nat /\ n <= m
    BY <1>2, <1>3
  <2>2. \A j \in (n + 1)..m : cash[j].branch # b
    BY <1>5
  <2> HIDE DEF n, m, b, from
  <2>3. TakenOf(cash, b, from, m) = TakenOf(cash, b, from, n)
    BY <2>1, <2>2, SumGoesOn
  <2> QED BY <1>4, <2>3 DEF n, m, b, from
<1>7. /\ sessions'[i].upto = Len(cash) /\ sessions'[i].expected = req[r].sum
      /\ sessions'[i].branch = sessions[i].branch /\ sessions'[i].from = sessions[i].from
  BY <1>1, <1>2 DEF CloseRow, Session
<1> QED BY <1>3, <1>6, <1>7 DEF Exact

LEMMA ClosesStep ==
  ASSUME IInv, SumInv, [Next]_vars
  PROVE  ClosedExactly'
<1>1. TypeOK /\ DOMAIN sessions = 1..Len(sessions) /\ Len(sessions) \in Nat
  BY SessionsType DEF IInv
<1> SUFFICES ASSUME NEW s \in DOMAIN sessions', ~IsOpen(s)', s \notin odd'
             PROVE  Exact(s)'
  BY DEF ClosedExactly
<1>2. CASE s \in DOMAIN sessions /\ sessions'[s] = sessions[s] /\ odd \subseteq odd'
  <2>1. Exact(s)
    BY <1>2 DEF SumInv, ClosedExactly, IsOpen
  <2> QED BY <1>2, <2>1, ExactStays
<1>3. ASSUME NEW r \in Hands, CloseWrite(r)
      PROVE  Exact(s)'
  <2>1. r \in Requests /\ Counts(r) /\ req[r].pc = "write" /\ req[r].sid \in DOMAIN sessions /\ UNCHANGED cash
    BY <1>3 DEF Requests, SumInv, IInv, Aimed, Aims, CloseWrite, At
  <2>2. CloseRow(r) /\ odd \subseteq odd'
    BY <1>3 DEF CloseWrite
  <2>3. CASE s = req[r].sid
    <3>1. ~Raced(r) /\ req[r].scope # All /\ ~req[r].blind
      BY <1>3, <2>3 DEF CloseWrite
    <3> QED BY <2>1, <2>2, <2>3, <3>1, WritesExactly
  <2>4. CASE s # req[r].sid
    BY <1>1, <1>2, <2>1, <2>2, <2>4, CloseRowDoes
  <2> QED BY <2>3, <2>4
<1>4. ASSUME NEW r \in Ticks, TickWrite(r)
      PROVE  Exact(s)'
  <2>1. r \in Requests /\ r \notin Hands /\ Counts(r) /\ req[r].pc = "write" /\ req[r].sid \in DOMAIN sessions
    BY <1>4, CashAssumption DEF Requests, SumInv, IInv, Aimed, Aims, TickWrite, At
  <2>2. CASE IsOpen(req[r].sid)
    <3>1. CloseRow(r) /\ odd \subseteq odd' /\ UNCHANGED cash
      BY <1>4, <2>2 DEF TickWrite
    <3>2. CASE s = req[r].sid
      <4>1. ~Raced(r)
        BY <1>4, <2>2, <3>2 DEF TickWrite
      <4> QED BY <2>1, <3>1, <3>2, <4>1, WritesExactly
    <3>3. CASE s # req[r].sid
      BY <1>1, <1>2, <2>1, <3>1, <3>3, CloseRowDoes
    <3> QED BY <3>2, <3>3
  <2>3. CASE ~IsOpen(req[r].sid)
    BY <1>2, <1>4, <2>3 DEF TickWrite
  <2> QED BY <2>2, <2>3
<1>5. ASSUME NEW r \in Hands, OpenInsert(r)
      PROVE  Exact(s)'
  <2> DEFINE e == [branch |-> req[r].scope, opened |-> now, from |-> Len(cash),
                   status |-> "open", expected |-> 0, upto |-> 0]
  <2>1. sessions' = Append(sessions, e) /\ sessions \in Seq(Session) /\ e.status = "open"
    BY <1>1, <1>5 DEF OpenInsert, TypeOK
  <2> HIDE DEF e
  <2>2. /\ DOMAIN sessions' = 1..(Len(sessions) + 1)
        /\ \A i \in DOMAIN sessions : sessions'[i] = sessions[i]
        /\ sessions'[Len(sessions) + 1] = e
    BY <1>1, <2>1
  <2>3. s \in DOMAIN sessions /\ sessions'[s] = sessions[s]
    BY <1>1, <2>1, <2>2 DEF IsOpen
  <2> QED BY <1>2, <1>5, <2>3 DEF OpenInsert, traces
<1>6. CASE UNCHANGED <<sessions, odd>>
  BY <1>2, <1>6
<1>7. \/ UNCHANGED <<sessions, odd>>
      \/ \E r \in Hands : CloseWrite(r) \/ OpenInsert(r)
      \/ \E r \in Ticks : TickWrite(r)
  BY DEF Next, vars, Advance, Check, Book, Die, OpenRead, OpenFails, CloseRead, CloseChecks, CloseCash, CloseAudit,
         OpenAudit, Tick, TickStart, TickNext, TickCash, TickAudit, TickFails, TickEnd, traces
<1> QED BY <1>3, <1>4, <1>5, <1>6, <1>7

\* A request that does not move keeps its sum.
LEMMA CountsStays ==
  ASSUME IInv, [Next]_vars, NEW r \in Requests, Counts(r), req'[r] = req[r]
  PROVE  Counts(r)'
<1>1. SUFFICES ASSUME req[r].pc \in {"checks", "cash", "write"}
               PROVE  Counts(r)'
  BY DEF Counts
<1> DEFINE i == req[r].sid
           s == sessions[i]
<1>2. i \in DOMAIN sessions /\ s \in Session
  BY <1>1, SessionsType DEF IInv, Aimed, Aims
<1>3. sessions'[i].branch = s.branch /\ sessions'[i].from = s.from
  BY <1>2, Kept
<1>4. ASSUME req[r].pc = "write"
      PROVE  /\ req[r].upto \in 0..Len(cash')
             /\ TakenOf(cash', s.branch, s.from, req[r].upto) = TakenOf(cash, s.branch, s.from, req[r].upto)
  <2>1. req[r].upto \in Nat /\ req[r].upto <= Len(cash) /\ Len(cash) \in Nat /\ s.from \in Nat
    BY <1>2, <1>4, Kept, Bounds DEF Counts, Session
  <2>2. Len(cash') \in Nat /\ Len(cash) <= Len(cash') /\ \A j \in 1..req[r].upto : cash'[j] = cash[j]
    BY <2>1, Kept
  <2> HIDE DEF s
  <2> QED BY <2>1, <2>2, SumStays
<1> QED BY <1>3, <1>4 DEF Counts, In

\* A cashier's request takes up a session of what the cashier looks at, and
\* the sum is that of the scope: of the session's branch, or of all branches.
LEMMA HandCounts ==
  ASSUME IInv, [Next]_vars, NEW r \in Hands, Counts(r),
         (\E scope \in Scopes, s \in DOMAIN sessions : CloseRead(r, scope, s)) \/ CloseChecks(r) \/ CloseCash(r)
  PROVE  Counts(r)'
<1>1. r \in Requests /\ req[r] \in Work /\ r \in DOMAIN req
  BY WorkType DEF Requests, IInv, TypeOK
<1>2. UNCHANGED <<sessions, cash>>
  BY DEF CloseRead, CloseChecks, CloseCash
<1>3. ASSUME NEW scope \in Scopes, NEW s \in DOMAIN sessions, CloseRead(r, scope, s)
      PROVE  Counts(r)'
  <2>1. req'[r].sid = s /\ req'[r].scope = scope /\ req'[r].pc # "write" /\ In(sessions[s].branch, scope)
    BY <1>1, <1>3 DEF CloseRead, Work
  <2> QED BY <1>2, <2>1 DEF Counts, In
<1>4. CASE CloseChecks(r)
  <2>1. req[r].pc = "checks" /\ In(sessions[req[r].sid].branch, req[r].scope)
    BY <1>4 DEF CloseChecks, At, Counts
  <2>2. \/ req'[r].pc = "idle"
        \/ req'[r].pc = "cash" /\ req'[r].sid = req[r].sid /\ req'[r].scope = req[r].scope
    BY <1>1, <1>4 DEF CloseChecks, Finish, Goto, Idle, Work
  <2> QED BY <1>2, <2>1, <2>2 DEF Counts, In
<1>5. CASE CloseCash(r)
  <2> DEFINE i == req[r].sid
             sum == Taken(req[r].scope, sessions[i].from, Len(cash))
  <2>1. req[r].pc = "cash" /\ In(sessions[i].branch, req[r].scope) /\ Len(cash) \in Nat
    BY <1>5, Kept DEF CloseCash, At, Counts
  <2>2. \/ req' = [req EXCEPT ![r].pc = "write", ![r].upto = Len(cash), ![r].sum = sum]
        \/ req' = [req EXCEPT ![r].pc = "write", ![r].upto = Len(cash), ![r].blind = TRUE]
    BY <1>5 DEF CloseCash
  <2>3. sum = TakenOf(cash, req[r].scope, sessions[i].from, Len(cash))
    BY DEF Taken, TakenOf
  <2> HIDE DEF sum
  <2>4. /\ req'[r].pc = "write" /\ req'[r].sid = i /\ req'[r].scope = req[r].scope
        /\ req'[r].upto = Len(cash) /\ (req'[r].sum = sum \/ req'[r].blind)
    <3>1. CASE req' = [req EXCEPT ![r].pc = "write", ![r].upto = Len(cash), ![r].sum = sum]
      BY <1>1, <3>1 DEF Work
    <3>2. CASE req' = [req EXCEPT ![r].pc = "write", ![r].upto = Len(cash), ![r].blind = TRUE]
      BY <1>1, <3>2 DEF Work
    <3> QED BY <2>2, <3>1, <3>2
  <2>5. In(sessions'[req'[r].sid].branch, req'[r].scope)
    BY <1>2, <2>1, <2>4 DEF In
  <2>6. CASE req[r].scope = All
    BY <1>2, <2>1, <2>4, <2>5, <2>6 DEF Counts, In
  <2>7. CASE req'[r].blind
    BY <1>2, <2>1, <2>4, <2>5, <2>7 DEF Counts, In
  <2>8. CASE req[r].scope = sessions[i].branch /\ req'[r].sum = sum
    <3>1. req'[r].sum = TakenOf(cash', sessions'[req'[r].sid].branch, sessions'[req'[r].sid].from, req'[r].upto)
      BY <1>2, <2>3, <2>4, <2>8
    <3> QED BY <1>2, <2>1, <2>4, <2>5, <3>1 DEF Counts, In
  <2> QED BY <2>1, <2>4, <2>6, <2>7, <2>8 DEF In
<1> QED BY <1>3, <1>4, <1>5

\* The schedule takes the sum of the session's own branch.
LEMMA TickCounts ==
  ASSUME IInv, [Next]_vars, NEW r \in Ticks, TickCash(r)
  PROVE  Counts(r)'
<1>1. r \in Requests /\ r \notin Hands /\ req[r] \in Work /\ r \in DOMAIN req
  BY CashAssumption, WorkType DEF Requests, IInv, TypeOK
<1> DEFINE i == req[r].sid
           sum == Taken(sessions[i].branch, sessions[i].from, Len(cash))
<1>2. req' = [req EXCEPT ![r].pc = "write", ![r].upto = Len(cash), ![r].sum = sum] /\ UNCHANGED <<sessions, cash>>
  BY DEF TickCash
<1>3. sum = TakenOf(cash, sessions[i].branch, sessions[i].from, Len(cash)) /\ Len(cash) \in Nat
  BY Kept DEF Taken, TakenOf
<1> HIDE DEF sum
<1>4. req'[r].sid = i /\ req'[r].upto = Len(cash) /\ req'[r].sum = sum
  BY <1>1, <1>2 DEF Work
<1> QED BY <1>1, <1>2, <1>3, <1>4 DEF Counts

LEMMA CountsStep ==
  ASSUME IInv, SumInv, [Next]_vars, NEW r \in Requests
  PROVE  Counts(r)'
<1>1. Counts(r) /\ TypeOK /\ req[r] \in Work /\ r \in DOMAIN req
  BY WorkType DEF SumInv, IInv, TypeOK
<1>2. CASE req'[r] = req[r]
  BY <1>1, <1>2, CountsStays
<1>3. CASE req'[r].pc \notin {"checks", "cash", "write"}
  BY <1>3 DEF Counts
<1>4. ASSUME NEW q \in Hands,
             \/ \E scope \in Scopes, s \in DOMAIN sessions : CloseRead(q, scope, s)
             \/ CloseChecks(q) \/ CloseCash(q)
      PROVE  Counts(r)'
  <2>1. CASE q = r
    BY <1>1, <1>4, <2>1, HandCounts
  <2>2. CASE q # r
    BY <1>1, <1>2, <1>4, <2>2 DEF CloseRead, CloseChecks, CloseCash, Finish, Goto
  <2> QED BY <2>1, <2>2
<1>5. ASSUME NEW q \in Hands,
             \/ OpenInsert(q) \/ OpenFails(q) \/ OpenAudit(q) \/ CloseWrite(q) \/ CloseAudit(q)
             \/ \E scope \in Scopes : OpenRead(q, scope)
      PROVE  Counts(r)'
  <2>1. \/ req'[r] = req[r]
        \/ req'[r].pc \in {"idle", "insert", "opened", "audit"}
    BY <1>1, <1>5 DEF OpenInsert, OpenFails, OpenAudit, CloseWrite, CloseAudit, OpenRead, Finish, Goto, Idle, Work
  <2> QED BY <1>2, <1>3, <2>1
<1>6. ASSUME NEW q \in Ticks, Tick(q) \/ TickFails(q)
      PROVE  Counts(r)'
  <2>1. q # r => req'[r] = req[r]
    BY <1>1, <1>6 DEF Tick, TickStart, TickNext, TickCash, TickWrite, TickAudit, TickFails, TickEnd, Finish, Proceed
  <2>2. CASE q = r /\ TickCash(r)
    BY <1>6, <2>2, TickCounts
  <2>3. CASE q = r /\ TickNext(r)
    <3>1. r \notin Hands
      BY <1>6, <2>3, CashAssumption
    <3>2. \E s \in req[r].todo : \E pc \in {"next", "cash"}, sid \in {0, s} :
            req' = [req EXCEPT ![r].pc = pc, ![r].sid = sid, ![r].todo = @ \ {s}]
      BY <2>3, Zenon DEF TickNext
    <3>3. req'[r].pc # "write"
      BY <1>1, <3>2 DEF Work
    <3> QED BY <3>1, <3>3 DEF Counts
  <2>4. CASE q = r /\ (TickStart(r) \/ TickWrite(r) \/ TickAudit(r) \/ TickFails(r) \/ TickEnd(r))
    <3>1. TickStart(r) => req'[r].pc = "next"
      BY <1>1 DEF TickStart, Work
    <3>2. TickWrite(r) => req'[r].pc = "audit"
      BY <1>1 DEF TickWrite, Work
    <3>3. TickAudit(r) \/ TickFails(r) => req'[r].pc = "next"
      <4>1. Proceed(r) => req'[r].pc = "next"
        BY <1>1 DEF Proceed, Idle
      <4>2. ASSUME NEW s, At(r, "next"), req' = [req EXCEPT ![r].todo = @ \ {s}]
            PROVE  req'[r].pc = "next"
        BY <1>1, <4>2 DEF At, Work
      <4> QED BY <4>1, <4>2 DEF TickAudit, TickFails
    <3>4. TickEnd(r) => req'[r].pc = "idle"
      BY <1>1 DEF TickEnd, Finish, Idle
    <3> QED BY <1>3, <2>4, <3>1, <3>2, <3>3, <3>4
  <2> QED BY <1>2, <1>6, <2>1, <2>2, <2>3, <2>4 DEF Tick
<1>7. ASSUME NEW q \in Requests, Die(q)
      PROVE  Counts(r)'
  <2>1. req'[r] = req[r] \/ req'[r].pc = "idle"
    BY <1>1, <1>7 DEF Die, Finish, Idle
  <2> QED BY <1>2, <1>3, <2>1
<1>8. CASE UNCHANGED req
  BY <1>2, <1>8
<1> QED BY <1>4, <1>5, <1>6, <1>7, <1>8 DEF Next, vars, Advance, Check, Book

\* A plain close of a branch's session expects exactly the cash the branch took
\* while it was open, refunds subtracted, for any number of branches, cashiers
\* and runs of the schedule.  closeCashSession and the nightly close read the
\* session, sum the payments and write in statements of their own; the closes
\* left out are those it costs: a session closed twice, cash booked between sum
\* and write, the sum of a cashier who looks at all branches, and the sum of a
\* cashier whose read of the payments failed (closeCashSession goes on with none).
THEOREM PlainClosesAreExact == Spec => []PlainCloseIsExact
<1>1. Init => SumInv
  <2> SUFFICES ASSUME Init PROVE SumInv
    OBVIOUS
  <2>1. DOMAIN sessions = {}
    BY DEF Init
  <2>2. \A r \in Requests : req[r].pc = "idle"
    BY IdleType DEF Init
  <2> QED BY <2>1, <2>2 DEF SumInv, ClosedExactly, Counts
<1>2. IInv /\ SumInv /\ [Next]_vars => SumInv'
  <2>1. ASSUME IInv, SumInv, [Next]_vars
        PROVE  Requests' = Requests /\ ClosedExactly' /\ \A r \in Requests : Counts(r)'
    BY <2>1, ClosesStep, CountsStep DEF Requests
  <2> QED BY <2>1 DEF SumInv
<1>3. IInv /\ SumInv => PlainCloseIsExact
  <2> SUFFICES ASSUME IInv, SumInv, NEW s \in DOMAIN sessions, ~IsOpen(s), s \notin odd
               PROVE  LET drawer     == {i \in DOMAIN cash : sessions[s].from < i /\ i <= sessions[s].upto}
                          Is(kind)   == [branch |-> sessions[s].branch, kind |-> kind]
                          Rows(kind) == {i \in drawer : cash[i] = Is(kind)}
                      IN sessions[s].expected = Cardinality(Rows("sale")) - Cardinality(Rows("refund"))
    BY DEF PlainCloseIsExact
  <2> DEFINE b          == sessions[s].branch
             from       == sessions[s].from
             n          == sessions[s].upto
             drawer     == {i \in DOMAIN cash : from < i /\ i <= n}
             Is(kind)   == [branch |-> b, kind |-> kind]
             Rows(kind) == {i \in drawer : cash[i] = Is(kind)}
             Of(kind)   == {i \in (from + 1)..n : In(cash[i].branch, b) /\ cash[i].kind = kind}
  <2>1. b \in Branches /\ b # All /\ from \in Nat
    BY SessionsType, CashAssumption, Bounds DEF IInv, Session
  <2>2. n \in 0..Len(cash) /\ sessions[s].expected = TakenOf(cash, b, from, n)
    BY DEF SumInv, ClosedExactly, Exact
  <2>3. Len(cash) \in Nat /\ DOMAIN cash = 1..Len(cash) /\ \A i \in DOMAIN cash : cash[i] \in Payment
    BY LenProperties, ElementOfSeq DEF IInv, TypeOK
  <2>4. drawer = (from + 1)..n /\ drawer \subseteq DOMAIN cash
    BY <2>1, <2>2, <2>3
  <2>5. \A kind : \A i \in drawer : cash[i] = Is(kind) <=> In(cash[i].branch, b) /\ cash[i].kind = kind
    BY <2>1, <2>3, <2>4 DEF Payment, In
  <2> HIDE DEF drawer, Is
  <2>6. \A kind : Rows(kind) = Of(kind)
    BY <2>4, <2>5
  <2> HIDE DEF Rows
  <2>7. sessions[s].expected = Cardinality(Of("sale")) - Cardinality(Of("refund"))
    BY <2>2 DEF TakenOf
  <2> HIDE DEF Of
  <2>8. sessions[s].expected = Cardinality(Rows("sale")) - Cardinality(Rows("refund"))
    BY <2>6, <2>7
  <2> QED BY <2>8 DEF Rows, Is, drawer
<1> QED BY <1>1, <1>2, <1>3, Inductive, PTL DEF Spec
=============================================================================
