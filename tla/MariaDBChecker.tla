--------------------------- MODULE MariaDBChecker --------------------------
(***************************************************************************)
(* mariadb: one goroutine pings the database and is the only one that      *)
(* stores and announces; ChangeStatus, Disable and Enable do nothing.      *)
(* Close cancels the context, waits for the goroutine, and only then       *)
(* closes the channel and the database.                                    *)
(***************************************************************************)
EXTENDS Naturals

VARIABLES
  lastStatus,      \* the stored status: its Status and what its Output says
  statusChange,    \* values waiting in the channel, which has room for one
  channelClosed,   \* the channel is closed
  stopped,         \* stop() was called: ctx is done
  db,              \* "open" or "closed"
  pc,              \* where the goroutine is
  newStatus,       \* its local variable in performCheck
  closer,          \* where Close is
  reader,          \* the reader of StatusChange(): "waiting" or "told"
  lastRead         \* what it read from Status() after it was told

vars == <<lastStatus, statusChange, channelClosed, stopped, db, pc, newStatus, closer,
          reader, lastRead>>
readerVars == <<reader, lastRead>>
closeVars  == <<channelClosed, stopped, db, closer>>

Initializing == [status |-> "warn", output |-> "initializing"]
Healthy      == [status |-> "pass", output |-> "healthy"]
Failed       == [status |-> "fail", output |-> "failed"]

Reports == {Initializing, Healthy, Failed}

TypeOK ==
  /\ lastStatus \in Reports
  /\ statusChange \in 0 .. 1
  /\ channelClosed \in BOOLEAN
  /\ stopped \in BOOLEAN
  /\ db \in {"open", "closed"}
  /\ pc \in {"check", "ping", "update", "select", "exited"}
  /\ newStatus \in Reports
  /\ closer \in {"open", "waiting", "closing", "closed"}
  /\ reader \in {"waiting", "told"}
  /\ lastRead \in Reports

\* New has opened the database; the goroutine starts with a check.
Init ==
  /\ lastStatus = Initializing
  /\ statusChange = 0
  /\ channelClosed = FALSE
  /\ stopped = FALSE
  /\ db = "open"
  /\ pc = "check"
  /\ newStatus = Initializing
  /\ closer = "open"
  /\ reader = "told"
  /\ lastRead = Initializing

-----------------------------------------------------------------------------
\* performCheck: with a context that is done the ping fails at once.
StartPing ==
  /\ pc = "check"
  /\ IF stopped THEN pc' = "update" /\ newStatus' = Failed
                ELSE pc' = "ping" /\ UNCHANGED newStatus
  /\ UNCHANGED <<lastStatus, statusChange, closeVars, readerVars>>

EndPing ==
  /\ pc = "ping"
  /\ newStatus' \in {Healthy, Failed}
  /\ pc' = "update"
  /\ UNCHANGED <<lastStatus, statusChange, closeVars, readerVars>>

DrainWhenFull ==  \* mutant: the old value is taken out, the new one forgotten
  /\ pc = "update"
  /\ lastStatus' = newStatus
  /\ statusChange' = 1 - statusChange
  /\ pc' = "select"
  /\ UNCHANGED <<newStatus, closeVars, readerVars>>

\* A changed status is stored and announced without blocking, under the mutex.
UpdateStatus ==
  /\ pc = "update"
  /\ lastStatus' = newStatus
  /\ statusChange' = IF newStatus = lastStatus THEN statusChange ELSE 1
  /\ pc' = "select"
  /\ UNCHANGED <<newStatus, closeVars, readerVars>>

\* run: both cases of its select may be ready.
Tick ==
  /\ pc = "select"
  /\ pc' = "check"
  /\ UNCHANGED <<lastStatus, statusChange, newStatus, closeVars, readerVars>>

Exit ==
  /\ pc = "select"
  /\ stopped
  /\ pc' = "exited"
  /\ UNCHANGED <<lastStatus, statusChange, newStatus, closeVars, readerVars>>

-----------------------------------------------------------------------------
\* Close, called once.
Stop ==
  /\ closer = "open"
  /\ stopped' = TRUE
  /\ closer' = "waiting"
  /\ UNCHANGED <<lastStatus, statusChange, channelClosed, db, pc, newStatus, readerVars>>

DoNotWait ==  \* mutant: the channel is closed at once
  /\ closer = "waiting"
  /\ channelClosed' = TRUE
  /\ closer' = "closing"
  /\ UNCHANGED <<lastStatus, statusChange, stopped, db, pc, newStatus, readerVars>>

WaitForever ==  \* mutant: the goroutine does not call wg.Done
  /\ FALSE
  /\ UNCHANGED vars

\* wg.Wait() returns
CloseChannel ==
  /\ closer = "waiting"
  /\ pc = "exited"
  /\ channelClosed' = TRUE
  /\ closer' = "closing"
  /\ UNCHANGED <<lastStatus, statusChange, stopped, db, pc, newStatus, readerVars>>

CloseDB ==
  /\ closer = "closing"
  /\ db' = "closed"
  /\ closer' = "closed"
  /\ UNCHANGED <<lastStatus, statusChange, channelClosed, stopped, pc, newStatus,
                 readerVars>>

Close == Stop \/ CloseChannel \/ CloseDB

-----------------------------------------------------------------------------
\* On the closed channel the reader receives without end.
Receive ==
  /\ reader = "waiting"
  /\ statusChange = 1 \/ channelClosed
  /\ statusChange' = 0
  /\ reader' = "told"
  /\ UNCHANGED <<lastStatus, pc, newStatus, closeVars, lastRead>>

ReadStatus ==
  /\ reader = "told"
  /\ lastRead' = lastStatus
  /\ reader' = "waiting"
  /\ UNCHANGED <<lastStatus, statusChange, pc, newStatus, closeVars>>

Run == StartPing \/ EndPing \/ UpdateStatus \/ Tick \/ Exit

Next == Run \/ Close \/ Receive \/ ReadStatus

Spec == Init /\ [][Next]_vars

\* Goroutines run, pings end (they have a timeout), the ticker ticks, and a select with
\* two ready cases picks one at random; a Close that has begun goes on.
Fairness == WF_vars(Run) /\ SF_vars(Exit) /\ WF_vars(CloseChannel \/ CloseDB)

FairSpec == Spec /\ Fairness

-----------------------------------------------------------------------------
\* The channel and the database are closed when nobody can use them any more
\* (mariadb/checker.go:60-65): a send on the closed channel would panic.
StopsBeforeItCloses == channelClosed \/ db = "closed" => pc = "exited"

\* A reader that waits on an empty channel knows the current status.
ReaderKnows == reader = "waiting" /\ statusChange = 0 => lastRead = lastStatus

\* Close returns, though it waits for the goroutine and nobody has to read the channel.
CloseReturns == stopped ~> closer = "closed"

-----------------------------------------------------------------------------
One(v) == [c \in 1 .. 1 |-> v]

Contract == INSTANCE ComponentContract WITH
  N        <- 1,
  Statuses <- {"pass", "warn", "fail"},
  Capacity <- One(1),
  status   <- One(lastStatus.status),
  queued   <- One(statusChange),
  owed     <- One(FALSE),
  closing  <- One(stopped),
  closed   <- One(channelClosed)

\* The MariaDB checker is a component the service can be composed of.
ImplementsContract == Contract!ContractSpec
=============================================================================
