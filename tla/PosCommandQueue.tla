--------------------------- MODULE PosCommandQueue ---------------------------
(***************************************************************************)
(* The command queue of the cashier and table screens (lib/pos/queue).     *)
(*                                                                         *)
(* A click is queued, shown at once as if it had succeeded (an optimistic  *)
(* overlay over the data of the server), and sent in the background.  The  *)
(* whole store, queue and overlays, lives in the memory of a page, which   *)
(* writes all of it to localStorage with every change and reads it when it *)
(* loads.  Store operations are synchronous, so each is part of one action. *)
(*                                                                         *)
(* Time is not modelled: a command waiting for its backoff may be due at   *)
(* any moment.  What an overlay displays is the patches merged into it, in *)
(* order, so an overlay is the sequence of the commands it came from.      *)
(***************************************************************************)
EXTENDS Naturals, Sequences, SequencesExt

CONSTANTS
  Pages,        \* pages of one device that run the queue
  Orders,       \* orders on the cashier's screen
  Tables,       \* tables on the floor screen
  Commands,     \* what is clicked: the kind, the order or table, a number
  Idle, Loop,   \* no flush in a page; a flush between two commands
  None,         \* nothing acknowledged yet
  MaxFailures,  \* bound: network errors, RETRY answers, reloads, disconnections
  MaxMounts     \* bound: payment panels mounted by selecting an order

CashierKinds == {"PAYMENT_SALE_CASH", "ORDER_FINANCIALS_SET", "ORDER_CANCEL",
                 "ORDER_REFUND_CASH", "ORDER_STATUS_SET"}
Places == Orders \cup Tables

ASSUME CommandsAssumption ==
  /\ Orders \cap Tables = {}
  /\ Commands \subseteq [kind : CashierKinds, on : Orders, no : Nat, full : BOOLEAN]
                   \cup [kind : {"TABLE_STATUS_SET"}, on : Tables, no : Nat, full : BOOLEAN]
ASSUME PosBounds == MaxFailures \in Nat /\ MaxMounts \in Nat
ASSUME PosNames  == {Idle, Loop, None} \cap Commands = {} /\ Idle # Loop

VARIABLES
  online,    \* navigator.onLine
  mem,       \* mem[p]: the store in the memory of page p
  disk,      \* the store in localStorage
  line,      \* the commands ever queued, in the order of createdAt
  flight,    \* flight[p]: Idle, Loop, or the command page p waits for
  mount,     \* mount[p]: number of the payment panel mounted in page p
  mounts,    \* payment panels ever mounted
  stamp,     \* stamp[c]: the panel a payment was submitted from
  late,      \* late[c]: requests for c that may still reach the server
  applied,   \* applied[c]: times the server carried c out
  outcome,   \* history: outcome[c]: the final answers pages got
             \* for c, and "died" if a page went away while sending it
  failures

vars == <<online, mem, disk, line, flight, mount, mounts, stamp, late, applied,
          outcome, failures>>

-----------------------------------------------------------------------------

Status == {"gone", "queued", "sending", "retry"}
Store  == [item : [Commands -> Status], undo : [Commands -> Seq(Commands)],
           overlay : [Places -> Seq(Commands)], committed : [Places -> Commands \cup {None}]]

EmptyStore == [item      |-> [c \in Commands |-> "gone"],
               undo      |-> [c \in Commands |-> <<>>],
               overlay   |-> [x \in Places |-> <<>>],
               committed |-> [x \in Places |-> None]]

TypeOK ==
  /\ online \in BOOLEAN
  /\ mem \in [Pages -> Store] /\ disk \in Store
  /\ line \in Seq(Commands) /\ IsInjective(line)
  /\ flight \in [Pages -> Commands \cup {Idle, Loop}]
  /\ mount \in [Pages -> Nat] /\ mounts \in Nat
  /\ stamp \in [Commands -> Nat]
  /\ late \in [Commands -> Nat] /\ applied \in [Commands -> Nat]
  /\ outcome \in [Commands -> SUBSET {"ack", "refused", "died"}]
  /\ failures \in 0..MaxFailures

Init ==
  /\ online   = TRUE
  /\ mem      = [p \in Pages |-> EmptyStore]
  /\ disk     = EmptyStore
  /\ line     = <<>>
  /\ flight   = [p \in Pages |-> Idle]
  /\ mount    = [p \in Pages |-> 0]
  /\ mounts   = 0
  /\ stamp    = [c \in Commands |-> 0]
  /\ late     = [c \in Commands |-> 0]
  /\ applied  = [c \in Commands |-> 0]
  /\ outcome  = [c \in Commands |-> {}]
  /\ failures = 0

page   == <<mem, disk, flight>>
panel  == <<mount, mounts, stamp>>
server == <<late, applied>>

Mishap == failures < MaxFailures /\ failures' = failures + 1

\* set() of the store: the memory of the page changes and is persisted whole.
Set(p, s) == mem' = [mem EXCEPT ![p] = s] /\ disk' = s

Waits(p, c) == mem[p].item[c] # "gone"
Clicked(c)  == c \in Range(line)
Older(c, d) == \E i, j \in DOMAIN line : i < j /\ line[i] = c /\ line[j] = d

-----------------------------------------------------------------------------
(* Clicks.                                                                 *)

\* The same command for the same place is waiting: the button is disabled.
Pending(p, c) == \E d \in Commands : Waits(p, d) /\ d.kind = c.kind /\ d.on = c.on

Closes(c) == c.kind = "ORDER_CANCEL" \/ (c.kind = "PAYMENT_SALE_CASH" /\ c.full)

\* The status an overlay shows is the last one merged into it; an order that
\* is shown as paid or cancelled leaves the screen, its panels with it.
Hides(overlay) ==
  \E i \in DOMAIN overlay :
    /\ Closes(overlay[i])
    /\ \A j \in DOMAIN overlay : j > i => overlay[j].kind = "ORDER_FINANCIALS_SET"
Hidden(p, c) == /\ c.kind \in {"PAYMENT_SALE_CASH", "ORDER_FINANCIALS_SET", "ORDER_CANCEL"}
                /\ Hides(mem[p].overlay[c.on])

\* A panel that is mounted anew makes itself a new request key.
Mount(p) == /\ mount' = [mount EXCEPT ![p] = mounts + 1]
            /\ mounts' = mounts + 1

Click(p, c) ==
  /\ ~Clicked(c) /\ ~Pending(p, c) /\ ~Hidden(p, c)
  /\ LET before == mem[p].overlay[c.on]
         after  == Append(before, c)
     IN /\ Set(p, [mem[p] EXCEPT !.item[c] = "queued", !.undo[c] = before,
                                 !.overlay[c.on] = after])
        /\ IF Hides(after) /\ ~Hides(before) THEN Mount(p) ELSE UNCHANGED <<mount, mounts>>
  /\ line' = Append(line, c)
  /\ stamp' = [stamp EXCEPT ![c] = mount[p]]
  /\ UNCHANGED <<online, flight, server, outcome, failures>>

\* Another order is selected: its payment panel has a key of its own.
Select(p) ==
  /\ mounts < MaxMounts
  /\ Mount(p)
  /\ UNCHANGED <<online, page, line, stamp, server, outcome, failures>>

Disconnect == /\ online /\ Mishap /\ online' = FALSE
              /\ UNCHANGED <<page, line, panel, server, outcome>>
Connect    == /\ ~online /\ online' = TRUE
              /\ UNCHANGED <<page, line, panel, server, outcome, failures>>

-----------------------------------------------------------------------------
(* The flush of a page: started by a click, an interval and the browser's  *)
(* online event, one at a time, one command at a time.                     *)

Sendable(p, c) == mem[p].item[c] \in {"queued", "retry"}

\* mutant: the flush looks for queued commands only
NextNew(p, c) == mem[p].item[c] = "queued"

\* mutant: the sort of the flush is lost
NextAny(p, c) == Sendable(p, c)

\* Oldest first; a command in its backoff is passed over.
NextUp(p, c) == /\ Sendable(p, c)
                /\ \A d \in Commands : Sendable(p, d) /\ Older(d, c) => mem[p].item[d] = "retry"

Send(p) ==
  /\ flight[p] = Loop \/ (flight[p] = Idle /\ online)
  /\ \E c \in Commands :
       /\ NextUp(p, c)
       /\ Set(p, [mem[p] EXCEPT !.item[c] = "sending"])
       /\ flight' = [flight EXCEPT ![p] = c]
  /\ UNCHANGED <<online, line, panel, server, outcome, failures>>

\* Nothing is due.
EndFlush(p) ==
  /\ flight[p] = Loop
  /\ \A c \in Commands : mem[p].item[c] # "queued"
  /\ flight' = [flight EXCEPT ![p] = Idle]
  /\ UNCHANGED <<online, mem, disk, line, panel, server, outcome, failures>>

\* mutant: a command that is to be tried again is removed like an answered one
RetryDropped(p) ==
  /\ Set(p, [mem[p] EXCEPT !.item[flight[p]] = "gone"])
  /\ flight' = [flight EXCEPT ![p] = Loop]

\* mutant: a status the store does not know
RetryFailed(p) ==
  /\ Set(p, [mem[p] EXCEPT !.item[flight[p]] = "failed"])
  /\ flight' = [flight EXCEPT ![p] = Loop]

\* markRetry
Retry(p) ==
  /\ Set(p, [mem[p] EXCEPT !.item[flight[p]] = "retry"])
  /\ flight' = [flight EXCEPT ![p] = Loop]

Refused(s, c) ==
  [s EXCEPT !.item[c] = "gone", !.undo[c] = <<>>,
            !.overlay[c.on] = IF @ # <<>> /\ Last(@) = c THEN s.undo[c] ELSE @]

\* mutant: an acknowledged command rolls its overlay back like a refused one
AcknowledgedUndone(s, c) == [Refused(s, c) EXCEPT !.committed[c.on] = c]

Acknowledged(s, c) ==
  [s EXCEPT !.item[c] = "gone", !.undo[c] = <<>>,
            !.overlay[c.on]   = IF @ # <<>> /\ Last(@) = c THEN <<>> ELSE @,
            !.committed[c.on] = IF c.kind = "ORDER_STATUS_SET" THEN @ ELSE c]

\* resolve
Resolve(p, answer) ==
  LET c == flight[p] IN
  /\ IF Waits(p, c)
     THEN Set(p, IF answer = "ack" THEN Acknowledged(mem[p], c) ELSE Refused(mem[p], c))
     ELSE UNCHANGED <<mem, disk>>
  /\ outcome' = [outcome EXCEPT ![c] = @ \cup {answer}]
  /\ flight' = [flight EXCEPT ![p] = Loop]

\* mutant: keys are not looked up
BookedNever(c) == FALSE

\* What the server answers for a command: it looks the key of a payment or
\* a refund up, and a payment's key is the panel's, not the command's.
Keyed(c) == c.kind \in {"PAYMENT_SALE_CASH", "ORDER_REFUND_CASH"}
SameKey(c, d) == c = d \/ (/\ {c.kind, d.kind} = {"PAYMENT_SALE_CASH"}
                           /\ c.on = d.on /\ stamp[c] = stamp[d])
Booked(c) == \E d \in Commands : SameKey(c, d) /\ applied[d] > 0

CarryOut(c) == applied' = IF Keyed(c) /\ Booked(c) THEN applied
                                                   ELSE [applied EXCEPT ![c] = @ + 1]

Ack(p) ==
  /\ flight[p] \in Commands
  /\ CarryOut(flight[p]) /\ Resolve(p, "ack")
  /\ UNCHANGED <<online, line, panel, late, failures>>

\* CONFLICT or REJECT, or an HTTP error without a result (403, 429, 500).
Refuse(p) ==
  /\ flight[p] \in Commands
  /\ Resolve(p, "refused")
  /\ UNCHANGED <<online, line, panel, server, failures>>

Busy(p) ==
  /\ flight[p] \in Commands /\ Mishap
  /\ Retry(p)
  /\ UNCHANGED <<online, line, panel, server, outcome>>

\* The request may be lost, or still be on its way.
Abandon(c) == \E n \in {0, 1} : late' = [late EXCEPT ![c] = @ + n]

NetworkError(p) ==
  /\ flight[p] \in Commands /\ Mishap
  /\ Retry(p) /\ Abandon(flight[p])
  /\ UNCHANGED <<online, line, panel, applied, outcome>>

\* A late request arrives; nobody reads the answer.
ServeLate(c) ==
  /\ late[c] > 0
  /\ late' = [late EXCEPT ![c] = @ - 1]
  /\ CarryOut(c) \/ UNCHANGED applied
  /\ UNCHANGED <<online, page, line, panel, outcome, failures>>

\* The page is closed, crashes or is reloaded, and reads localStorage again.
Reload(p) ==
  /\ Mishap
  /\ mem' = [mem EXCEPT ![p] = disk]
  /\ flight' = [flight EXCEPT ![p] = Idle]
  /\ IF flight[p] \in Commands
     THEN /\ Abandon(flight[p])
          /\ outcome' = [outcome EXCEPT ![flight[p]] = @ \cup {"died"}]
     ELSE UNCHANGED <<late, outcome>>
  /\ Mount(p)
  /\ UNCHANGED <<online, disk, line, stamp, applied>>

Next ==
  \/ \E p \in Pages :
       \/ \E c \in Commands : Click(p, c)
       \/ Select(p) \/ Send(p) \/ EndFlush(p)
       \/ Ack(p) \/ Refuse(p) \/ Busy(p) \/ NetworkError(p) \/ Reload(p)
  \/ Disconnect \/ Connect
  \/ \E c \in Commands : ServeLate(c)

\* The interval of 2.5 seconds keeps flushing, every fetch ends, a lost
\* connection comes back.
Fairness ==
  /\ WF_vars(Connect)
  /\ \A p \in Pages :
       /\ WF_vars(Send(p)) /\ WF_vars(EndFlush(p))
       /\ WF_vars(Ack(p) \/ Refuse(p) \/ Busy(p) \/ NetworkError(p))

Spec == Init /\ [][Next]_vars /\ Fairness

-----------------------------------------------------------------------------
(* Properties.                                                             *)

\* However often a payment or refund is sent, by a flush, after a reload,
\* from two pages or by a late request, at most one row is booked per key.
ChargedOnce ==
  \A c, d \in Commands :
    Keyed(c) /\ SameKey(c, d) /\ applied[c] > 0 /\ applied[d] > 0 => c = d /\ applied[c] = 1

\* A payment reported as recorded is in the ledger with its own amount.
PaidWhatWasAcked ==
  \A c \in Commands :
    c.kind = "PAYMENT_SALE_CASH" /\ "ack" \in outcome[c] => applied[c] = 1

Answered(c) == outcome[c] \cap {"ack", "refused"} # {}

\* Nothing that was clicked vanishes: it is in localStorage until answered.
KeptUntilAnswered ==
  \A c \in Commands : Clicked(c) => disk.item[c] # "gone" \/ Answered(c)

\* Commands are tried in the order of the clicks: while one was never sent,
\* nothing clicked after it was.
FirstTriesInOrder ==
  \A p \in Pages : \A c, d \in Commands :
    mem[p].item[c] = "queued" /\ Older(c, d) => mem[p].item[d] = "queued"

\* A table shows a status of its own exactly while its command waits.
TableShown ==
  \A p \in Pages : \A t \in Tables :
    mem[p].overlay[t] # <<>> <=> \E c \in Commands : c.on = t /\ Waits(p, c)

\* The last command an order shows waits for its answer, unless a later one was
\* refused; a command that waits is shown, unless a later one was acknowledged.
OrdersShown ==
  \A p \in Pages : \A x \in Orders :
    LET shown == mem[p].overlay[x]
        Overtaken(c, answer) ==
          \E d \in Commands : d.on = x /\ Older(c, d) /\ answer \in outcome[d]
    IN /\ shown # <<>> => Waits(p, Last(shown)) \/ Overtaken(Last(shown), "refused")
       /\ \A c \in Commands :
            c.on = x /\ Waits(p, c) => c \in Range(shown) \/ Overtaken(c, "ack")

\* An overlay shows the commands that wait and goes with the last of them, but
\* for two cases that need several commands on one order.  A refused command
\* puts back the overlay it was clicked on (store.ts:386), whose commands may
\* have been answered meanwhile: it then stays, with nothing waiting, until a
\* later command is acknowledged.  An acknowledged command that is the last one
\* shown clears the overlay (store.ts:385), older ones that still wait included.
OverlaysFollow == TableShown /\ OrdersShown

\* Every command is answered, whatever the network does for a while, unless
\* its page went away while sending it: it then stays 'sending' in the store,
\* which no flush takes up again.
Resolves == \A c \in Commands : Clicked(c) ~> (Answered(c) \/ "died" \in outcome[c])
=============================================================================
