------------------------------ MODULE CashDesk ------------------------------
(***************************************************************************)
(* Cash register sessions: opened and closed by hand (openCashSession and   *)
(* closeCashSession of lib/data.ts) and closed by the schedule that calls   *)
(* api/cashier/session/auto-close every few minutes.                        *)
(*                                                                         *)
(* A handler takes one action per statement it sends to the database.  A    *)
(* payment has amount 1 and is known by its place in the order of booking,  *)
(* so "created since the session was opened" is "booked after the first     *)
(* `from` payments".  The clock counts parts of a day.                      *)
(***************************************************************************)
EXTENDS Integers, Sequences, FiniteSets

CONSTANTS
  Branches,
  All,          \* no branch is chosen: the owner looks at the whole business
  Scopes,       \* what cashiers and owners may look at: a branch or All
  Hands,        \* requests of cashiers handled at one time
  Ticks,        \* runs of the schedule at one time
  DayLength,    \* parts of a day
  Cutoff,       \* the part of the day the automatic close is set to
  Horizon,      \* bound: the clock
  MaxSessions,  \* bound: sessions ever opened
  MaxPayments,  \* bound: cash payments and refunds
  MaxMishaps    \* bound: failed statements and stopped servers

ASSUME CashAssumption ==
  /\ All \notin Branches /\ Scopes \subseteq Branches \cup {All}
  /\ Hands \cap Ticks = {}
  /\ DayLength \in Nat \ {0} /\ Cutoff \in 0..(DayLength - 1)
  /\ {Horizon, MaxSessions, MaxPayments, MaxMishaps} \subseteq Nat

VARIABLES
  now,       \* the clock
  sessions,  \* cash_register_sessions, in the order they were opened
  cash,      \* cash payments and refunds, in the order they were booked
  checks,    \* checks[b]: branch b has an open order
  settings,  \* autoSessionCloseEnabled, requireNoOpenChecksForSessionClose, as cached
  req,       \* req[r]: what request r is doing
  audit,     \* audit_logs: the actions recorded for each session
  odd,       \* history: sessions whose close is not a plain one
  closedBy,  \* history: the ways each session was closed
  untraced,  \* history: the ways it was closed by a request that could not record it
  mishaps

vars == <<now, sessions, cash, checks, settings, req, audit, odd, closedBy, untraced, mishaps>>

Requests == Hands \cup Ticks
Amount   == -MaxPayments..MaxPayments
Ids      == 1..MaxSessions
Ways     == {"close", "auto_close"}
Way(r)   == IF r \in Hands THEN "close" ELSE "auto_close"

Session == [branch : Branches, opened : 0..Horizon, from : 0..MaxPayments,
            status : {"open", "closed"}, expected : Amount, upto : 0..MaxPayments]
Payment == [branch : Branches, kind : {"sale", "refund"}]
Work    == [pc : {"idle", "insert", "opened", "checks", "cash", "write", "audit", "next"},
            scope : Scopes \cup {All}, sid : 0..MaxSessions, todo : SUBSET Ids, at : 0..Horizon,
            sum : Amount, upto : 0..MaxPayments,
            blind : BOOLEAN,   \* the payments could not be read
            wrote : BOOLEAN]   \* its write closed the session

TypeOK ==
  /\ now \in 0..Horizon
  /\ sessions \in Seq(Session) /\ Len(sessions) <= MaxSessions
  /\ cash \in Seq(Payment) /\ Len(cash) <= MaxPayments
  /\ checks \in [Branches -> BOOLEAN]
  /\ settings \in [auto : BOOLEAN, strict : BOOLEAN]
  /\ req \in [Requests -> Work]
  /\ audit \in [Ids -> SUBSET ({"open"} \cup Ways)]
  /\ odd \subseteq Ids
  /\ {closedBy, untraced} \subseteq [Ids -> SUBSET Ways]
  /\ mishaps \in 0..MaxMishaps

Idle == [pc |-> "idle", scope |-> All, sid |-> 0, todo |-> {}, at |-> 0, sum |-> 0, upto |-> 0,
         blind |-> FALSE, wrote |-> FALSE]

Init ==
  /\ now = 0 /\ sessions = <<>> /\ cash = <<>>
  /\ checks = [b \in Branches |-> FALSE]
  /\ settings \in [auto : BOOLEAN, strict : BOOLEAN]
  /\ req = [r \in Requests |-> Idle]
  /\ audit = [s \in Ids |-> {}]
  /\ odd = {} /\ mishaps = 0
  /\ closedBy = [s \in Ids |-> {}] /\ untraced = closedBy

Goto(r, pc) == req' = [req EXCEPT ![r].pc = pc]
Finish(r)   == req' = [req EXCEPT ![r] = Idle]
At(r, pc)   == req[r].pc = pc

\* A statement fails or the server stops, or nothing of the kind.
Mishap == mishaps < MaxMishaps /\ mishaps' = mishaps + 1
Smooth == UNCHANGED mishaps

room   == <<now, checks, settings>>
traces == <<odd, closedBy, untraced>>

-----------------------------------------------------------------------------
(* What happens around the register.                                       *)

Advance ==
  /\ now < Horizon /\ now' = now + 1
  /\ UNCHANGED <<sessions, cash, checks, settings, req, audit, traces, mishaps>>

Check(b) ==
  /\ checks' = [checks EXCEPT ![b] = ~@]
  /\ UNCHANGED <<now, sessions, cash, settings, req, audit, traces, mishaps>>

Book(b, kind) ==
  /\ Len(cash) < MaxPayments
  /\ cash' = Append(cash, [branch |-> b, kind |-> kind])
  /\ UNCHANGED <<room, sessions, req, audit, traces, mishaps>>

-----------------------------------------------------------------------------
(* Reading and writing the tables.                                         *)

In(branch, scope) == scope = All \/ branch = scope
IsOpen(s) == s \in DOMAIN sessions /\ sessions[s].status = "open"

\* mutant: refunds are added to the cash like sales
TakenGross(scope, from, n) == Cardinality({i \in (from + 1)..n : In(cash[i].branch, scope)})

\* Cash taken since a session was opened, refunds subtracted.
Taken(scope, from, n) ==
  LET Of(kind) == {i \in (from + 1)..n : In(cash[i].branch, scope) /\ cash[i].kind = kind}
  IN Cardinality(Of("sale")) - Cardinality(Of("refund"))

CloseRow(r) ==
  LET s == req[r].sid IN
  /\ sessions' = [sessions EXCEPT ![s].status = "closed", ![s].expected = req[r].sum,
                                  ![s].upto = Len(cash)]
  /\ closedBy' = [closedBy EXCEPT ![s] = @ \cup {Way(r)}]

\* history: cash of the branch came in while request r was closing its session
Raced(r) == \E i \in (req[r].upto + 1)..Len(cash) : cash[i].branch = sessions[req[r].sid].branch

\* history: a request that closed a session ends without its audit row
Forgotten(r) ==
  untraced' = IF req[r].wrote THEN [untraced EXCEPT ![req[r].sid] = @ \cup {Way(r)}] ELSE untraced

\* mutant: an action nobody knows
RecordUnknown(s, action) == audit' = [audit EXCEPT ![s] = @ \cup {"closed"}]

Record(s, action) == audit' = [audit EXCEPT ![s] = @ \cup {action}]

\* logAuditEvent, and the insert of the schedule: the error is not looked at.
Audit(r, action) ==
  \/ Smooth /\ Record(req[r].sid, action) /\ UNCHANGED untraced
  \/ Mishap /\ Forgotten(r) /\ UNCHANGED audit

\* The server stops, or a statement fails whose error ends the request: it has
\* taken no effect, or (one step later) its answer was lost.
Die(r) ==
  /\ ~At(r, "idle") /\ Mishap
  /\ Finish(r) /\ Forgotten(r)
  /\ UNCHANGED <<room, sessions, cash, audit, odd, closedBy>>

-----------------------------------------------------------------------------
(* openCashSession                                                         *)

\* The error of this read is not looked at: no answer counts as no open session.
OpenRead(r, scope) ==
  /\ At(r, "idle")
  /\ \/ Smooth /\ \A s \in DOMAIN sessions : ~(IsOpen(s) /\ In(sessions[s].branch, scope))
     \/ Mishap
  /\ req' = [req EXCEPT ![r].pc = "insert", ![r].scope = scope]
  /\ UNCHANGED <<room, sessions, cash, audit, traces>>

\* A session belongs to a branch: the column branch_id is not null.
OpenFails(r) ==
  /\ At(r, "insert") /\ req[r].scope = All
  /\ Finish(r)
  /\ UNCHANGED <<room, sessions, cash, audit, traces, mishaps>>

OpenInsert(r) ==
  /\ At(r, "insert") /\ req[r].scope # All /\ Len(sessions) < MaxSessions
  /\ sessions' = Append(sessions, [branch |-> req[r].scope, opened |-> now, from |-> Len(cash),
                                   status |-> "open", expected |-> 0, upto |-> 0])
  /\ req' = [req EXCEPT ![r].pc = "opened", ![r].sid = Len(sessions) + 1]
  /\ UNCHANGED <<room, cash, audit, traces, mishaps>>

OpenAudit(r) ==
  /\ At(r, "opened")
  /\ Audit(r, "open")
  /\ Finish(r)
  /\ UNCHANGED <<room, sessions, cash, odd, closedBy>>

-----------------------------------------------------------------------------
(* closeCashSession: the page names the session, which it may have shown    *)
(* for hours; its status is not read.                                       *)

CloseRead(r, scope, s) ==
  /\ At(r, "idle")
  /\ In(sessions[s].branch, scope)
  /\ req' = [req EXCEPT ![r].pc = IF settings.strict THEN "checks" ELSE "cash",
                        ![r].scope = scope, ![r].sid = s]
  /\ UNCHANGED <<room, sessions, cash, audit, traces, mishaps>>

\* Open orders of the scope refuse the close.
CloseChecks(r) ==
  /\ At(r, "checks")
  /\ IF \E b \in Branches : checks[b] /\ In(b, req[r].scope) THEN Finish(r) ELSE Goto(r, "cash")
  /\ UNCHANGED <<room, sessions, cash, audit, traces, mishaps>>

\* The error of this read is not looked at: no answer counts as no payments.
CloseCash(r) ==
  /\ At(r, "cash")
  /\ \/ /\ Smooth
        /\ req' = [req EXCEPT ![r].pc = "write", ![r].upto = Len(cash),
                              ![r].sum = Taken(req[r].scope, sessions[req[r].sid].from, Len(cash))]
     \/ /\ Mishap
        /\ req' = [req EXCEPT ![r].pc = "write", ![r].upto = Len(cash), ![r].blind = TRUE]
  /\ UNCHANGED <<room, sessions, cash, audit, traces>>

\* mutant: the audit row is forgotten
CloseSilently(r) ==
  /\ At(r, "write")
  /\ CloseRow(r)
  /\ Finish(r)
  /\ UNCHANGED <<room, cash, audit, odd, untraced, mishaps>>

\* The update is not conditional on the session being open.
CloseWrite(r) ==
  /\ At(r, "write")
  /\ CloseRow(r)
  /\ odd' = IF ~IsOpen(req[r].sid) \/ Raced(r) \/ req[r].scope = All \/ req[r].blind
            THEN odd \cup {req[r].sid} ELSE odd
  /\ req' = [req EXCEPT ![r].pc = "audit", ![r].wrote = TRUE]
  /\ UNCHANGED <<room, cash, audit, untraced, mishaps>>

\* The alert about a difference and the audit row.
CloseAudit(r) ==
  /\ At(r, "audit")
  /\ Audit(r, "close")
  /\ Finish(r)
  /\ UNCHANGED <<room, sessions, cash, odd, closedBy>>

-----------------------------------------------------------------------------
(* runAutoCloseTick                                                        *)

Day(t)  == t \div DayLength
Part(t) == t % DayLength

\* isSessionDueToday
Due(opened, t) ==
  \/ Day(opened) < Day(t)
  \/ Day(opened) = Day(t) /\ Part(opened) <= Cutoff /\ Cutoff <= Part(t)

TickStart(r) ==
  /\ At(r, "idle") /\ settings.auto
  /\ req' = [req EXCEPT ![r].pc = "next", ![r].at = now,
                        ![r].todo = {s \in DOMAIN sessions : IsOpen(s)}]
  /\ UNCHANGED <<room, sessions, cash, audit, traces, mishaps>>

\* The next session of the list, skipped if not due or if orders are open.
TickNext(r) ==
  /\ At(r, "next")
  /\ \E s \in req[r].todo :
       LET branch == sessions[s].branch
           skip   == \/ ~Due(sessions[s].opened, req[r].at)
                     \/ settings.strict /\ checks[branch]
       IN req' = [req EXCEPT ![r].pc   = IF skip THEN "next" ELSE "cash",
                             ![r].sid  = IF skip THEN 0 ELSE s,
                             ![r].todo = @ \ {s}]
  /\ UNCHANGED <<room, sessions, cash, audit, traces, mishaps>>

TickCash(r) ==
  /\ At(r, "cash")
  /\ LET s == sessions[req[r].sid] IN
     req' = [req EXCEPT ![r].pc = "write", ![r].upto = Len(cash),
                        ![r].sum = Taken(s.branch, s.from, Len(cash))]
  /\ UNCHANGED <<room, sessions, cash, audit, traces, mishaps>>

\* mutant: the close is not conditional on the session being open
TickOverwrite(r) ==
  /\ At(r, "write")
  /\ CloseRow(r)
  /\ odd' = IF Raced(r) THEN odd \cup {req[r].sid} ELSE odd
  /\ req' = [req EXCEPT ![r].pc = "audit", ![r].wrote = TRUE]
  /\ UNCHANGED <<room, cash, audit, untraced, mishaps>>

\* mutant: an empty register counts as nothing to close
TickWriteNonZero(r) ==
  /\ At(r, "write")
  /\ IF IsOpen(req[r].sid) /\ req[r].sum # 0
     THEN CloseRow(r) ELSE UNCHANGED <<sessions, closedBy>>
  /\ req' = [req EXCEPT ![r].pc = "audit", ![r].wrote = IsOpen(req[r].sid) /\ req[r].sum # 0]
  /\ UNCHANGED <<room, cash, audit, odd, untraced, mishaps>>

TickWrite(r) ==
  /\ At(r, "write")
  /\ IF IsOpen(req[r].sid)
     THEN /\ CloseRow(r)
          /\ odd' = IF Raced(r) THEN odd \cup {req[r].sid} ELSE odd
     ELSE UNCHANGED <<sessions, closedBy, odd>>
  /\ req' = [req EXCEPT ![r].pc = "audit", ![r].wrote = IsOpen(req[r].sid)]
  /\ UNCHANGED <<room, cash, audit, untraced, mishaps>>

\* On to the next session of the list.
Proceed(r) ==
  req' = [req EXCEPT ![r] = [Idle EXCEPT !.pc = "next", !.todo = req[r].todo, !.at = req[r].at]]

\* The audit row is written whether or not a row was closed.
TickAudit(r) ==
  /\ At(r, "audit")
  /\ Audit(r, "auto_close")
  /\ Proceed(r)
  /\ UNCHANGED <<room, sessions, cash, odd, closedBy>>

\* The open orders or the payments could not be read, or the close failed: the
\* session is left to a later run.  (A close that took effect while its answer
\* was lost goes on like one whose audit row failed.)
TickFails(r) ==
  /\ Mishap
  /\ \/ (At(r, "cash") \/ At(r, "write")) /\ Proceed(r)
     \/ /\ At(r, "next") /\ settings.strict
        /\ \E s \in req[r].todo : Due(sessions[s].opened, req[r].at) /\ req' = [req EXCEPT ![r].todo = @ \ {s}]
  /\ UNCHANGED <<room, sessions, cash, audit, traces>>

TickEnd(r) ==
  /\ At(r, "next") /\ req[r].todo = {}
  /\ Finish(r)
  /\ UNCHANGED <<room, sessions, cash, audit, traces, mishaps>>

-----------------------------------------------------------------------------

Tick(r) == \/ TickStart(r) \/ TickNext(r) \/ TickCash(r) \/ TickWrite(r)
           \/ TickAudit(r) \/ TickEnd(r)

Next ==
  \/ Advance
  \/ \E b \in Branches : Check(b) \/ \E kind \in {"sale", "refund"} : Book(b, kind)
  \/ \E r \in Hands : \E scope \in Scopes :
       OpenRead(r, scope) \/ \E s \in DOMAIN sessions : CloseRead(r, scope, s)
  \/ \E r \in Hands : OpenInsert(r) \/ OpenFails(r) \/ OpenAudit(r) \/ CloseChecks(r) \/ CloseCash(r)
                        \/ CloseWrite(r) \/ CloseAudit(r)
  \/ \E r \in Ticks : Tick(r) \/ TickFails(r)
  \/ \E r \in Requests : Die(r)

\* Time goes on, the schedule runs again and again, its requests go on.
Fairness == WF_vars(Advance) /\ \A r \in Ticks : WF_vars(Tick(r))

Spec == Init /\ [][Next]_vars /\ Fairness

-----------------------------------------------------------------------------
(* Properties.                                                             *)

\* The schedule never writes over a session that is closed, even when it read
\* it open: its figures change only by a cashier who closes it once more.
AutoNeverOverwrites ==
  [][\A s \in DOMAIN sessions :
       ~IsOpen(s) /\ sessions'[s] # sessions[s] =>
         \E r \in Hands : At(r, "write") /\ req[r].sid = s /\ req'[r].pc = "audit"]_vars

\* A plain close of a branch's session expects exactly the cash its branch took
\* while it was open.  The exceptions are closing a closed session again, cash
\* booked between the reading and the writing, a close from the view of all
\* branches, and a close by a cashier whose read of the payments failed
\* unnoticed; no read or write of the schedule that fails is one.
PlainCloseIsExact ==
  \A s \in DOMAIN sessions :
    ~IsOpen(s) /\ s \notin odd =>
      LET drawer     == {i \in DOMAIN cash : sessions[s].from < i /\ i <= sessions[s].upto}
          Is(kind)   == [branch |-> sessions[s].branch, kind |-> kind]
          Rows(kind) == {i \in drawer : cash[i] = Is(kind)}
      IN sessions[s].expected = Cardinality(Rows("sale")) - Cardinality(Rows("refund"))

\* A session that is closed was closed by a cashier or by the schedule, and each
\* way it was closed is on the audit trail, or is about to be recorded by the
\* request that closed it, or was taken by a request that ended before the
\* audit row or whose audit row failed.
CloseLeavesTrace ==
  \A s \in DOMAIN sessions : ~IsOpen(s) =>
    /\ closedBy[s] # {}
    /\ \A way \in closedBy[s] :
         \/ way \in audit[s] \cup untraced[s]
         \/ \E r \in Requests : /\ At(r, "audit") /\ req[r].wrote
                               /\ req[r].sid = s /\ Way(r) = way

\* No open session outlasts the schedule, unless an open order holds it.
Overnight(s) == Day(sessions[s].opened) < Horizon \div DayLength
NightComes ==
  \A s \in Ids :
    (IsOpen(s) /\ settings.auto /\ Overnight(s))
      ~> (~IsOpen(s) \/ (settings.strict /\ checks[sessions[s].branch]))
=============================================================================
