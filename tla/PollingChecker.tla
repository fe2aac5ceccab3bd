--------------------------- MODULE PollingChecker --------------------------
(***************************************************************************)
(* What the checkers of PostgreSQL, Redis, MongoDB, S3, Solace, RabbitMQ   *)
(* and SQL Server have in common: a loop that checks a backend at every    *)
(* tick, and Disable, Enable and ChangeStatus called by the application,   *)
(* of which Enable starts a goroutine for an immediate check in most of    *)
(* them.  A status is stored and announced, by a non-blocking send, in one *)
(* critical section of the checker's mutex; the check itself runs outside  *)
(* of it.                                                                  *)
(*                                                                         *)
(* Every critical section but that of Close, which waits for the client to *)
(* close, is one step that finds the mutex free.  What the checkers do not *)
(* share, how they are made, checked and closed, is in their own modules,  *)
(* and PollingCheckers puts them together.                                 *)
(***************************************************************************)
EXTENDS Naturals

CONSTANTS
  Checks,     \* bound: goroutines started by Enable that run at a time
  Loop        \* the goroutine of startHealthCheckLoop

ASSUME GoroutinesAssumption == Loop \notin Checks

Checkers == Checks \cup {Loop}

VARIABLES
  currentStatus,     \* the stored status: its Status and what its Output says
  statusChangeChan,  \* values waiting in the channel
  room,              \* how many values the channel has room for: never changes
  channelClosed,     \* the channel is closed
  disabled,          \* the flag
  mutexHeld,         \* Close holds the mutex while it closes the client
  closer,            \* where Close is
  client,            \* the connection: "none" (never made), "open", "closed"
  pc,                \* where each goroutine is
  result,            \* the argument of its updateStatus
  held,              \* how many things its check has opened and must close
  panicked,          \* a panic has ended the process
  reader,            \* the reader of StatusChange(): "waiting" or "told"
  lastRead           \* what it read from Status() after it was told

announceVars == <<currentStatus, statusChangeChan, panicked>>
statusVars   == <<announceVars, disabled>>
closeVars    == <<mutexHeld, closer, client, channelClosed>>
checkVars    == <<pc, result, held>>
readerVars   == <<reader, lastRead>>
vars == <<statusVars, closeVars, checkVars, readerVars, room>>

Outputs == {"initializing", "not opened", "disabled", "enabled", "override", "nil client",
            "healthy", "failed", "unexpected result"}

Report(s, o) == [status |-> s, output |-> o]

Reports == [status : {"pass", "warn", "fail"}, output : Outputs]

\* The outputs of performHealthCheck.
CheckOutputs == {"nil client", "healthy", "failed", "unexpected result"}

\* The status a caller of ChangeStatus passes.
Override == Report("pass", "override")

NoResult == Report("warn", "initializing")   \* outside of updateStatus

StateOK ==
  /\ currentStatus \in Reports
  /\ room \in {1, 5}
  /\ statusChangeChan \in 0 .. room
  /\ channelClosed \in BOOLEAN
  /\ disabled \in BOOLEAN
  /\ mutexHeld \in BOOLEAN
  /\ closer \in {"open", "closing", "waiting", "cleaning", "closed"}
  /\ client \in {"none", "open", "closed"}
  /\ pc \in [Checkers -> {"idle", "start", "select", "check", "query", "answer",
                          "receive", "test", "update", "release", "exited"}]
  /\ result \in [Checkers -> Reports]
  /\ held \in [Checkers -> 0 .. 3]
  /\ panicked \in BOOLEAN
  /\ reader \in {"waiting", "told"}
  /\ lastRead \in Reports

\* A checker with its client, whose loop begins at first, or, when no client could be
\* made, a dummy without a loop.  The reader reads Status() before it waits.
Created(made, first, cap) ==
  /\ client = IF made THEN "open" ELSE "none"
  /\ currentStatus = IF made THEN Report("warn", "initializing")
                             ELSE Report("fail", "not opened")
  /\ pc = [g \in Checkers |-> IF g = Loop /\ made THEN first ELSE "idle"]
  /\ statusChangeChan = 0
  /\ room = cap
  /\ channelClosed = FALSE
  /\ disabled = FALSE
  /\ mutexHeld = FALSE
  /\ closer = "open"
  /\ result = [g \in Checkers |-> NoResult]
  /\ held = [g \in Checkers |-> 0]
  /\ panicked = FALSE
  /\ reader = "told"
  /\ lastRead = currentStatus

Goto(g, place) == pc' = [pc EXCEPT ![g] = place]

\* Where a goroutine goes after its check.
Rest(g) == IF g = Loop THEN "select" ELSE "idle"

Stopping == closer # "open"

-----------------------------------------------------------------------------
\* Store and announce.

Panic == panicked' = TRUE /\ UNCHANGED <<currentStatus, statusChangeChan>>

SendAnyway(s) ==  \* mutant: the channel takes one value too many
  /\ currentStatus' = s
  /\ statusChangeChan' = statusChangeChan + 1
  /\ UNCHANGED panicked

DrainWhenFull(s) ==  \* mutant: an old value is taken out, the new one forgotten
  /\ currentStatus' = s
  /\ statusChangeChan' = IF statusChangeChan < room THEN statusChangeChan + 1
                                                    ELSE statusChangeChan - 1
  /\ UNCHANGED panicked

\* A full channel keeps the values it has: its reader will be told anyway.  A send on the
\* closed channel panics, in a select with a default as well; what was stored before it
\* does not matter any more.
Announce(s) ==
  IF channelClosed THEN Panic
  ELSE /\ currentStatus' = s
       /\ statusChangeChan' = IF statusChangeChan < room THEN statusChangeChan + 1
                                                         ELSE statusChangeChan
       /\ UNCHANGED panicked

CompareStatus(s) ==  \* mutant: only another Status is stored
  /\ ~mutexHeld
  /\ IF s.status = currentStatus.status THEN UNCHANGED announceVars ELSE Announce(s)

AnnounceStatus(s) ==  \* mutant: only another Status is announced
  /\ ~mutexHeld
  /\ IF s.status = currentStatus.status
       THEN currentStatus' = s /\ UNCHANGED <<statusChangeChan, panicked>>
       ELSE Announce(s)

\* updateStatus: only another Status or Output is stored.
UpdateStatus(s) ==
  /\ ~mutexHeld
  /\ IF s = currentStatus THEN UNCHANGED announceVars ELSE Announce(s)

-----------------------------------------------------------------------------
\* The application.

ChangeStatus ==
  /\ UpdateStatus(Override)
  /\ UNCHANGED <<disabled, closeVars, checkVars, readerVars>>

Disable ==
  /\ ~mutexHeld
  /\ ~disabled
  /\ disabled' = TRUE
  /\ Announce(Report("warn", "disabled"))
  /\ UNCHANGED <<closeVars, checkVars, readerVars>>

Reenable ==
  /\ ~mutexHeld
  /\ disabled
  /\ disabled' = FALSE
  /\ Announce(Report("warn", "enabled"))

\* go performHealthCheck()
Enable ==
  /\ Reenable
  /\ \E k \in Checks : pc[k] = "idle" /\ Goto(k, "check")
  /\ UNCHANGED <<closeVars, result, held, readerVars>>

Calls == ChangeStatus \/ Disable \/ Enable

-----------------------------------------------------------------------------
\* startHealthCheckLoop: a tick, or Close has closed quit and cancelled ctx.

Tick(next) ==
  /\ pc[Loop] = "select"
  /\ Goto(Loop, next)
  /\ UNCHANGED <<statusVars, closeVars, result, held, readerVars>>

\* The loop leaves the client as it is or closed, and may close the channel.
Exit(after, closesChannel) ==
  /\ Stopping
  /\ Goto(Loop, "exited")
  /\ client' = after
  /\ channelClosed' = closesChannel
  /\ UNCHANGED <<statusVars, mutexHeld, closer, result, held, readerVars>>

LoopExit(after, closesChannel) == pc[Loop] = "select" /\ Exit(after, closesChannel)

-----------------------------------------------------------------------------
\* performHealthCheck.

IgnoreDisabled(g) ==  \* mutant: the flag is not looked at
  /\ pc[g] = "check"
  /\ ~mutexHeld
  /\ Goto(g, "query")
  /\ UNCHANGED <<statusVars, closeVars, result, held, readerVars>>

\* The flag is read under the lock, which is released before the query.
Gate(g) ==
  /\ pc[g] = "check"
  /\ ~mutexHeld
  /\ Goto(g, IF disabled THEN Rest(g) ELSE "query")
  /\ UNCHANGED <<statusVars, closeVars, result, held, readerVars>>

Ends(g, s) ==
  /\ Goto(g, "update")
  /\ result' = [result EXCEPT ![g] = s]

\* Without a client, with one that is closed, and with a context that is done,
\* there is no query.
Query(g) ==
  /\ pc[g] = "query"
  /\ IF client = "none" THEN Ends(g, Report("fail", "nil client"))
     ELSE IF client = "closed" \/ Stopping THEN Ends(g, Report("fail", "failed"))
     ELSE Goto(g, "answer") /\ UNCHANGED result
  /\ UNCHANGED <<statusVars, closeVars, held, readerVars>>

\* The backend answers, or the query fails, in time because it has a timeout.
Answer(g, answers) ==
  /\ pc[g] = "answer"
  /\ \E s \in answers : Ends(g, s)
  /\ UNCHANGED <<statusVars, closeVars, held, readerVars>>

ReleaseNothing(g) ==  \* mutant: the deferred calls are missing
  /\ pc[g] = "update"
  /\ UpdateStatus(result[g])
  /\ result' = [result EXCEPT ![g] = NoResult]
  /\ Goto(g, Rest(g))
  /\ UNCHANGED <<disabled, closeVars, held, readerVars>>

\* The result is stored; what the check has opened is closed afterwards, by deferred calls.
StoreResult(g) ==
  /\ pc[g] = "update"
  /\ UpdateStatus(result[g])
  /\ result' = [result EXCEPT ![g] = NoResult]
  /\ Goto(g, IF held[g] > 0 THEN "release" ELSE Rest(g))
  /\ UNCHANGED <<disabled, closeVars, held, readerVars>>

Release(g) ==
  /\ pc[g] = "release"
  /\ held' = [held EXCEPT ![g] = 0]
  /\ Goto(g, Rest(g))
  /\ UNCHANGED <<statusVars, closeVars, result, readerVars>>

Check(g, answers) == Gate(g) \/ Query(g) \/ Answer(g, answers) \/ StoreResult(g)

-----------------------------------------------------------------------------
\* Close cancels the context and closes quit, then the client.

BeginClose(locks) ==
  /\ closer = "open"
  /\ ~(locks /\ mutexHeld)
  /\ closer' = "closing"
  /\ mutexHeld' = locks
  /\ UNCHANGED <<statusVars, client, channelClosed, checkVars, readerVars>>

KeepMutex(after) ==  \* mutant: the deferred unlock is missing
  /\ closer \in {"closing", "cleaning"}
  /\ closer' = "closed"
  /\ client' = after
  /\ UNCHANGED <<statusVars, mutexHeld, channelClosed, checkVars, readerVars>>

EndClose(after) ==
  /\ closer \in {"closing", "cleaning"}
  /\ closer' = "closed"
  /\ mutexHeld' = FALSE
  /\ client' = after
  /\ UNCHANGED <<statusVars, channelClosed, checkVars, readerVars>>

DoNotWait == TRUE  \* mutant: wg.Wait() is missing

\* wg.Wait() returns, at once if there is no loop.
LoopIsDone == pc[Loop] \in {"idle", "exited"}

\* What is left of the client once it is closed.
Closed == IF client = "none" THEN "none" ELSE "closed"

-----------------------------------------------------------------------------
\* The reader of the channel, which then reads Status().  From the closed channel it
\* receives without end.

Receive ==
  /\ reader = "waiting"
  /\ statusChangeChan > 0 \/ channelClosed
  /\ statusChangeChan' = IF statusChangeChan > 0 THEN statusChangeChan - 1 ELSE 0
  /\ reader' = "told"
  /\ UNCHANGED <<currentStatus, panicked, disabled, closeVars, checkVars, lastRead>>

ReadStatus ==
  /\ reader = "told"
  /\ ~mutexHeld
  /\ lastRead' = currentStatus
  /\ reader' = "waiting"
  /\ UNCHANGED <<statusVars, closeVars, checkVars>>

Reader == Receive \/ ReadStatus

\* Goroutine g checks the backend or is about to store what it found.
Checking(g) == pc[g] \in {"query", "answer", "receive", "test", "update"}

\* Closing a client may wait for the queries under way.
Querying == \E g \in Checkers : pc[g] \in {"answer", "receive"}
=============================================================================
