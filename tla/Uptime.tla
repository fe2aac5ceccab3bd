------------------------------ MODULE Uptime -------------------------------
(***************************************************************************)
(* builtin.NewUptimeComponent: one goroutine that stores and announces the *)
(* time since its start, once at the beginning and then at every tick of   *)
(* its ticker.  ChangeStatus, Disable and Enable do nothing.               *)
(***************************************************************************)
EXTENDS Naturals, Sequences

CONSTANT MaxClock   \* bound: ticks of the clock

ASSUME MaxClockAssumption == MaxClock \in Nat

VARIABLES
  clock,           \* seconds since startTime
  lastStatus,      \* the stored status and the uptime in it
  observerChange,  \* the channel, a sequence of at most one ComponentStatus
  observerClosed,  \* it is closed
  cancelled,       \* Close() was called
  pc,              \* where the goroutine is
  newStatus,       \* its local variable in updateStatus
  seen             \* what the reader of StatusChange() received last

vars == <<clock, lastStatus, observerChange, observerClosed, cancelled, pc, newStatus,
          seen>>

\* The status is empty until the goroutine has run.
ComponentStatus == [status : {"", "pass"}, uptime : 0 .. MaxClock]
Zero == [status |-> "", uptime |-> 0]

TypeOK ==
  /\ clock \in 0 .. MaxClock
  /\ lastStatus \in ComponentStatus
  /\ observerChange \in Seq(ComponentStatus) /\ Len(observerChange) <= 1
  /\ observerClosed \in BOOLEAN
  /\ cancelled \in BOOLEAN
  /\ pc \in {"update", "store", "drain", "send", "select", "exited"}
  /\ newStatus \in ComponentStatus
  /\ seen \in ComponentStatus

Init ==
  /\ clock = 0
  /\ lastStatus = Zero
  /\ observerChange = <<>>
  /\ observerClosed = FALSE
  /\ cancelled = FALSE
  /\ pc = "update"
  /\ newStatus = Zero
  /\ seen = Zero

-----------------------------------------------------------------------------
\* Time passes between any two steps.
Pass ==
  /\ clock < MaxClock
  /\ clock' = clock + 1
  /\ UNCHANGED <<lastStatus, observerChange, observerClosed, cancelled, pc, newStatus,
                 seen>>

Measure ==
  /\ pc = "update"
  /\ newStatus' = [status |-> "pass", uptime |-> clock]
  /\ pc' = "store"
  /\ UNCHANGED <<clock, lastStatus, observerChange, observerClosed, cancelled, seen>>

StoreFirstOnly ==  \* mutant: stores only another Status, announces always
  /\ pc = "store"
  /\ lastStatus' = IF newStatus.status = lastStatus.status THEN lastStatus ELSE newStatus
  /\ pc' = "drain"
  /\ UNCHANGED <<clock, observerChange, observerClosed, cancelled, newStatus, seen>>

StoreStatus ==
  /\ pc = "store"
  /\ lastStatus' = newStatus
  /\ pc' = "drain"
  /\ UNCHANGED <<clock, observerChange, observerClosed, cancelled, newStatus, seen>>

KeepOldValue ==  \* mutant: the buffer is not emptied first
  /\ pc = "drain"
  /\ pc' = "send"
  /\ UNCHANGED <<clock, lastStatus, observerChange, observerClosed, cancelled,
                 newStatus, seen>>

Drain ==
  /\ pc = "drain"
  /\ observerChange' = <<>>
  /\ pc' = "send"
  /\ UNCHANGED <<clock, lastStatus, observerClosed, cancelled, newStatus, seen>>

\* A blocking send, without a Done case.
Send ==
  /\ pc = "send"
  /\ Len(observerChange) < 1
  /\ observerChange' = Append(observerChange, newStatus)
  /\ pc' = "select"
  /\ UNCHANGED <<clock, lastStatus, observerClosed, cancelled, newStatus, seen>>

Tick ==
  /\ pc = "select"
  /\ pc' = "update"
  /\ UNCHANGED <<clock, lastStatus, observerChange, observerClosed, cancelled,
                 newStatus, seen>>

Exit ==
  /\ pc = "select"
  /\ cancelled
  /\ pc' = "exited"
  /\ observerClosed' = TRUE
  /\ UNCHANGED <<clock, lastStatus, observerChange, cancelled, newStatus, seen>>

CloseChannelToo ==  \* mutant: Close closes the channel, not the goroutine
  /\ cancelled' = TRUE
  /\ observerClosed' = TRUE
  /\ UNCHANGED <<clock, lastStatus, observerChange, pc, newStatus, seen>>

Close ==
  /\ cancelled' = TRUE
  /\ UNCHANGED <<clock, lastStatus, observerChange, observerClosed, pc, newStatus, seen>>

Receive ==
  /\ observerChange # <<>>
  /\ seen' = Head(observerChange)
  /\ observerChange' = Tail(observerChange)
  /\ UNCHANGED <<clock, lastStatus, observerClosed, cancelled, pc, newStatus>>

Goroutine == Measure \/ StoreStatus \/ Drain \/ Send \/ Tick \/ Exit

Next == Pass \/ Goroutine \/ Close \/ Receive

Spec == Init /\ [][Next]_vars

\* The goroutine runs, its ticker ticks, and a select with two ready cases picks one at
\* random; nobody has to read.
Fairness == WF_vars(Goroutine) /\ SF_vars(Exit)

FairSpec == Spec /\ Fairness

-----------------------------------------------------------------------------
\* The goroutine never hangs in its send, though nobody reads and the send ignores the
\* context (uptime.go:81): after Close() it leaves and closes the channel.
CloseEndsStream == cancelled ~> observerClosed

\* The uptime a reader is told, and the one it may read at that moment, never go back.
NeverGoesBack ==
  [][/\ seen'.uptime >= seen.uptime
     /\ seen'.uptime <= lastStatus'.uptime]_vars

-----------------------------------------------------------------------------
One(v) == [c \in 1 .. 1 |-> v]

Contract == INSTANCE ComponentContract WITH
  N        <- 1,
  Statuses <- {"", "pass"},
  Capacity <- One(1),
  status   <- One(lastStatus.status),
  queued   <- One(Len(observerChange)),
  owed     <- One(pc \in {"drain", "send"}),
  closing  <- One(cancelled),
  closed   <- One(observerClosed)

\* The uptime component is a component the service can be composed of.
ImplementsContract == Contract!ContractSpec
=============================================================================
