-------------------------- MODULE SQLServerChecker --------------------------
(***************************************************************************)
(* sqlserver: one loop does all checks; the query runs in a goroutine of   *)
(* its own, which is left behind when the check times out.  updateStatus   *)
(* tests the context before it takes the mutex.  The loop closes the       *)
(* status channel, and in all but one of its exits the connection; Close   *)
(* waits for it.                                                           *)
(***************************************************************************)
EXTENDS PollingChecker

CONSTANT MaxLate   \* bound: goroutines of queries that have timed out and still run

ASSUME MaxLateAssumption == MaxLate \in Nat

VARIABLES
  resultChan,   \* what the query goroutine of the current check has sent
  late,         \* query goroutines whose check has timed out
  overriding    \* a ChangeStatus has passed its test of the context

queryVars     == <<resultChan, late>>
sqlServerVars == <<queryVars, overriding>>

\* An error of the query, a result that is not 1, or 1.
SQLServerAnswers == {Report("fail", "failed"), Report("fail", "unexpected result"),
                     Report("pass", "healthy")}

SQLServerTypeOK ==
  /\ resultChan \in SQLServerAnswers \cup {NoResult}
  /\ late \in 0 .. MaxLate
  /\ overriding \in BOOLEAN

\* NewSQLServerCheckerWithOpenDBFunc, with a connection or with the error of openDB.
\* The loop does not start with a check.
SQLServerInit ==
  /\ \E opened \in BOOLEAN : Created(opened, "select", 5)
  /\ resultChan = NoResult
  /\ late = 0
  /\ overriding = FALSE

\* The context of a checker without a connection is the background context, which nobody
\* can cancel.
Cancelled == Stopping /\ client # "none"

-----------------------------------------------------------------------------
\* After a tick the loop tests the context: if it is done the loop leaves and forgets to
\* close the connection.
LeaveAtTick == pc[Loop] = "start" /\ Exit(client, TRUE)

\* Loop and performHealthCheck test the context and the flag, twice each; only the last
\* tests matter.
SQLServerGate ==
  /\ pc[Loop] \in {"start", "check"}
  /\ pc[Loop] = "start" => ~Cancelled
  /\ ~mutexHeld
  /\ Goto(Loop, IF Cancelled \/ disabled THEN "select"
                ELSE IF pc[Loop] = "start" THEN "check" ELSE "query")
  /\ UNCHANGED <<statusVars, closeVars, result, held, readerVars>>

SQLServerLoop ==
  /\ Tick("start") \/ LeaveAtTick \/ LoopExit("closed", TRUE)
  /\ UNCHANGED sqlServerVars

-----------------------------------------------------------------------------
\* go func() { ... resultChan <- queryResult{...} }()
StartQuery ==
  /\ pc[Loop] = "query"
  /\ Goto(Loop, "answer")
  /\ resultChan' = NoResult
  /\ UNCHANGED <<statusVars, closeVars, result, held, readerVars, late, overriding>>

\* The database may answer late or never, but not after the query's context is done.
QueryReturns ==
  /\ pc[Loop] = "answer"
  /\ resultChan = NoResult
  /\ resultChan' \in SQLServerAnswers
  /\ UNCHANGED <<vars, late, overriding>>

Outcome(s) ==
  /\ Goto(Loop, "test")
  /\ result' = [result EXCEPT ![Loop] = s]
  /\ resultChan' = NoResult
  /\ UNCHANGED <<statusVars, closeVars, held, readerVars, overriding>>

ReceiveResult ==
  /\ pc[Loop] = "answer"
  /\ resultChan # NoResult
  /\ Outcome(resultChan)
  /\ UNCHANGED late

\* checkCtx is done, by its timeout or by Close; the answer may have come as well.
QueryTimesOut ==
  /\ pc[Loop] = "answer"
  /\ Outcome(Report("fail", "failed"))
  /\ late' = IF resultChan = NoResult THEN late + 1 ELSE late
  /\ late' <= MaxLate

\* The goroutine left behind sends into its own channel, which has room, and ends.
LateAnswer ==
  /\ late > 0
  /\ late' = late - 1
  /\ UNCHANGED <<vars, resultChan, overriding>>

\* updateStatus: with the context done nothing is stored.
TestContext ==
  /\ pc[Loop] = "test"
  /\ IF Cancelled
       THEN Goto(Loop, "select") /\ result' = [result EXCEPT ![Loop] = NoResult]
       ELSE Goto(Loop, "update") /\ UNCHANGED result
  /\ UNCHANGED <<statusVars, closeVars, held, readerVars, sqlServerVars>>

SQLServerCheck ==
  \/ (SQLServerGate \/ StoreResult(Loop)) /\ UNCHANGED sqlServerVars
  \/ StartQuery \/ ReceiveResult \/ QueryTimesOut
  \/ TestContext

-----------------------------------------------------------------------------
\* updateStatus, in ChangeStatus: Close may come between the test and the mutex.
BeginChangeStatus ==
  /\ ~overriding
  /\ ~Cancelled
  /\ overriding' = TRUE
  /\ UNCHANGED <<vars, queryVars>>

EndChangeStatus ==
  /\ overriding
  /\ overriding' = FALSE
  /\ UpdateStatus(Override)
  /\ UNCHANGED <<disabled, closeVars, checkVars, readerVars, queryVars>>

\* The loop will check again at its next tick.
SQLServerEnable ==
  /\ Reenable
  /\ UNCHANGED <<closeVars, checkVars, readerVars, sqlServerVars>>

SQLServerCalls ==
  \/ BeginChangeStatus \/ EndChangeStatus
  \/ Disable /\ UNCHANGED sqlServerVars
  \/ SQLServerEnable

\* Close signals, with the mutex, and waits without it.
SQLServerClose ==
  /\ BeginClose(FALSE) \/ (LoopIsDone /\ EndClose(client))
  /\ UNCHANGED sqlServerVars
=============================================================================
