---------------------------- MODULE VaultChecker ---------------------------
(***************************************************************************)
(* vault: a polling checker whose Disable ends the loop by cancelling its  *)
(* context and whose Enable makes a new context and starts another loop.   *)
(* A loop has no context of its own: at every turn its select reads v.ctx, *)
(* without the mutex.  The contexts are numbered; cancelFunc always        *)
(* belongs to the latest one.                                              *)
(***************************************************************************)
EXTENDS Naturals

CONSTANT MaxEnables   \* bound: calls of Enable that start a loop

ASSUME MaxEnablesAssumption == MaxEnables \in Nat

\* The loop the constructor starts, and one for every Enable; so are the contexts.
Loops == 0 .. MaxEnables

VARIABLES
  currentStatus,     \* the stored status: its Status and what its Output says
  statusChangeChan,  \* values waiting in the channel, which has room for one
  disabled,          \* the flag
  ctx,               \* v.ctx
  done,              \* the contexts that are cancelled
  closed,            \* Close was called
  client,            \* there is a client
  pc,                \* where each loop is
  waitsFor,          \* the context its select has read
  result,            \* the argument of its updateStatus
  reader,            \* the reader of StatusChange(): "waiting" or "told"
  lastRead           \* what it read from Status() after it was told

vars == <<currentStatus, statusChangeChan, disabled, ctx, done, closed, client, pc,
          waitsFor, result, reader, lastRead>>
statusVars  == <<currentStatus, statusChangeChan, disabled>>
contextVars == <<ctx, done, closed, client>>
readerVars  == <<reader, lastRead>>

Report(s, o) == [status |-> s, output |-> o]

CheckOutputs == {"nil client", "failed", "active", "uninitialized", "sealed", "standby",
                 "performance standby"}

Reports == [status : {"pass", "warn", "fail"},
            output : {"initializing", "no client", "disabled", "enabled", "override"}
                       \cup CheckOutputs]

NoResult == Report("warn", "initializing")   \* outside of updateStatus

TypeOK ==
  /\ currentStatus \in Reports
  /\ statusChangeChan \in 0 .. 1
  /\ disabled \in BOOLEAN
  /\ ctx \in Loops
  /\ done \subseteq Loops
  /\ closed \in BOOLEAN
  /\ client \in BOOLEAN
  /\ pc \in [Loops -> {"none", "check", "query", "update", "turn", "select", "exited"}]
  /\ waitsFor \in [Loops -> Loops]
  /\ result \in [Loops -> Reports]
  /\ reader \in {"waiting", "told"}
  /\ lastRead \in Reports

\* NewVaultCheckerWithOpenVaultClientFunc, with a client or, without one, a dummy that
\* has no loop.
Init ==
  /\ client \in BOOLEAN
  /\ currentStatus = IF client THEN Report("warn", "initializing")
                               ELSE Report("fail", "no client")
  /\ pc = [l \in Loops |-> IF l = 0 /\ client THEN "check" ELSE "none"]
  /\ statusChangeChan = 0
  /\ disabled = FALSE
  /\ ctx = 0
  /\ done = {}
  /\ closed = FALSE
  /\ waitsFor = [l \in Loops |-> 0]
  /\ result = [l \in Loops |-> NoResult]
  /\ reader = "told"
  /\ lastRead = currentStatus

Goto(l, place) == pc' = [pc EXCEPT ![l] = place]

\* The context of the dummy is the background context, which nobody can cancel.
CancelFunc == done' = IF client \/ ctx > 0 THEN done \cup {ctx} ELSE done

-----------------------------------------------------------------------------
\* Store and announce, under the mutex.

DrainWhenFull(s) ==  \* mutant: the old value is taken out, the new one forgotten
  /\ currentStatus' = s
  /\ statusChangeChan' = 1 - statusChangeChan

Announce(s) ==
  /\ currentStatus' = s
  /\ statusChangeChan' = 1

CompareStatus(s) ==  \* mutant: only another Status is stored
  IF s.status = currentStatus.status THEN UNCHANGED <<currentStatus, statusChangeChan>>
                                     ELSE Announce(s)

UpdateStatus(s) ==
  IF s = currentStatus THEN UNCHANGED <<currentStatus, statusChangeChan>>
                       ELSE Announce(s)

ChangeStatus ==
  /\ UpdateStatus(Report("pass", "override"))
  /\ UNCHANGED <<disabled, contextVars, pc, waitsFor, result, readerVars>>

-----------------------------------------------------------------------------
\* Disable, Enable and Close, each in one critical section.

Disable ==
  /\ ~disabled
  /\ disabled' = TRUE
  /\ CancelFunc
  /\ Announce(Report("warn", "disabled"))
  /\ UNCHANGED <<ctx, closed, client, pc, waitsFor, result, readerVars>>

EnableWithOldContext ==  \* mutant: the cancelled context is used again
  /\ disabled
  /\ \E l \in Loops :
       /\ pc[l] = "none" /\ l > 0
       /\ Goto(l, "check")
  /\ disabled' = FALSE
  /\ Announce(Report("warn", "enabled"))
  /\ UNCHANGED <<ctx, done, closed, client, waitsFor, result, readerVars>>

Enable ==
  /\ disabled
  /\ ctx < MaxEnables
  /\ disabled' = FALSE
  /\ ctx' = ctx + 1
  /\ Announce(Report("warn", "enabled"))
  /\ Goto(ctx + 1, "check")
  /\ UNCHANGED <<done, closed, client, waitsFor, result, readerVars>>

Close ==
  /\ CancelFunc
  /\ closed' = TRUE
  /\ UNCHANGED <<statusVars, ctx, client, pc, waitsFor, result, readerVars>>

Application == ChangeStatus \/ Disable \/ Enable \/ Close

-----------------------------------------------------------------------------
\* startHealthCheckLoop.

LeaveSelect(l, place) ==
  /\ Goto(l, place)
  /\ waitsFor' = [waitsFor EXCEPT ![l] = 0]
  /\ UNCHANGED <<statusVars, contextVars, result, readerVars>>

StaleContext(l) ==  \* mutant: every turn waits for the context of the constructor
  /\ pc[l] = "turn"
  /\ waitsFor' = [waitsFor EXCEPT ![l] = 0]
  /\ Goto(l, "select")
  /\ UNCHANGED <<statusVars, contextVars, result, readerVars>>

\* The select reads v.ctx, which Enable may just have replaced,
Turn(l) ==
  /\ pc[l] = "turn"
  /\ waitsFor' = [waitsFor EXCEPT ![l] = ctx]
  /\ Goto(l, "select")
  /\ UNCHANGED <<statusVars, contextVars, result, readerVars>>

\* and waits for a tick
Tick(l) ==
  /\ pc[l] = "select"
  /\ LeaveSelect(l, "check")

\* or for the context it has read: a loop that was inside a check during a Disable and an
\* Enable waits for the new context, beside the loop that Enable has started.
LoopExit(l) ==
  /\ pc[l] = "select"
  /\ waitsFor[l] \in done
  /\ LeaveSelect(l, "exited")

-----------------------------------------------------------------------------
\* performHealthCheck, in a loop.

Ends(l, r) ==
  /\ Goto(l, "update")
  /\ result' = [result EXCEPT ![l] = r]

Gate(l) ==
  /\ pc[l] = "check"
  /\ IF disabled THEN Goto(l, "turn") /\ UNCHANGED result
     ELSE IF client THEN Goto(l, "query") /\ UNCHANGED result
     ELSE Ends(l, Report("fail", "nil client"))
  /\ UNCHANGED <<statusVars, contextVars, waitsFor, readerVars>>

Responses == [initialized : BOOLEAN, sealed : BOOLEAN, standby : BOOLEAN,
              performanceStandby : BOOLEAN]

\* What a response of Vault says.
Interpret(h) ==
  IF ~h.initialized THEN Report("fail", "uninitialized")
  ELSE IF h.sealed THEN Report("fail", "sealed")
  ELSE IF h.standby THEN Report("warn", "standby")
  ELSE IF h.performanceStandby THEN Report("fail", "performance standby")
  ELSE Report("pass", "active")

\* Sys().Health() takes no context: it goes on after Disable and Close.
Query(l) ==
  /\ pc[l] = "query"
  /\ \/ Ends(l, Report("fail", "failed"))
     \/ \E h \in Responses : Ends(l, Interpret(h))
  /\ UNCHANGED <<statusVars, contextVars, waitsFor, readerVars>>

StoreResult(l) ==
  /\ pc[l] = "update"
  /\ UpdateStatus(result[l])
  /\ result' = [result EXCEPT ![l] = NoResult]
  /\ Goto(l, "turn")
  /\ UNCHANGED <<disabled, contextVars, waitsFor, readerVars>>

HealthCheckLoop(l) ==
  Turn(l) \/ Tick(l) \/ LoopExit(l) \/ Gate(l) \/ Query(l) \/ StoreResult(l)

-----------------------------------------------------------------------------
Receive ==
  /\ reader = "waiting"
  /\ statusChangeChan = 1
  /\ statusChangeChan' = 0
  /\ reader' = "told"
  /\ UNCHANGED <<currentStatus, disabled, contextVars, pc, waitsFor, result, lastRead>>

ReadStatus ==
  /\ reader = "told"
  /\ lastRead' = currentStatus
  /\ reader' = "waiting"
  /\ UNCHANGED <<statusVars, contextVars, pc, waitsFor, result>>

Next ==
  \/ Application
  \/ \E l \in Loops : HealthCheckLoop(l)
  \/ Receive
  \/ ReadStatus

Spec == Init /\ [][Next]_vars

\* Loops run, tickers tick, requests end (the client has a timeout), and a select with
\* two ready cases picks one at random.
Fairness == \A l \in Loops : WF_vars(HealthCheckLoop(l)) /\ SF_vars(LoopExit(l))

FairSpec == Spec /\ Fairness

-----------------------------------------------------------------------------
\* Loop l runs, and no select has yet seen the end of its context.
Live(l) == /\ pc[l] \notin {"none", "exited"}
           /\ pc[l] = "select" => waitsFor[l] \notin done

\* Disable and Enable in quick succession never leave the checker without a loop.
EnabledHasLoop ==
  client /\ ~disabled /\ ~closed => \E l \in Loops : Live(l)

\* While it is enabled and open a checker with a client comes back to the result of a
\* check, also when its status was set from outside.
ReportsChecks ==
  []<>(currentStatus.output \in CheckOutputs \/ disabled \/ closed \/ ~client)

\* Once a checker stays closed or disabled all its loops end.
LoopsEnd ==
  \/ <>[](\A l \in Loops : pc[l] \in {"none", "exited"})
  \/ []<>(ctx \notin done)

-----------------------------------------------------------------------------
One(v) == [c \in 1 .. 1 |-> v]

Contract == INSTANCE ComponentContract WITH
  N        <- 1,
  Statuses <- {"pass", "warn", "fail"},
  Capacity <- One(1),
  status   <- One(currentStatus.status),
  queued   <- One(statusChangeChan),
  owed     <- One(FALSE),
  closing  <- One(closed),
  closed   <- One(FALSE)

\* The Vault checker is a component the service can be composed of.
ImplementsContract == Contract!ContractSpec
=============================================================================
