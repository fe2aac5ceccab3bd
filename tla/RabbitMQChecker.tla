--------------------------- MODULE RabbitMQChecker --------------------------
(***************************************************************************)
(* rabbitmq: one loop does all checks; Enable asks it for one through the  *)
(* channel triggerCheck.  Close cancels the context and closes quit and    *)
(* triggerCheck without the mutex, waits for the loop, and then closes,    *)
(* with the mutex held, the status channel and the connection.             *)
(***************************************************************************)
EXTENDS PollingChecker

VARIABLE triggerCheck   \* "empty", "full" (room for one), or "closed"

RabbitMQTypeOK == triggerCheck \in {"empty", "full", "closed"}

\* NewRabbitMQCheckerWithOpenAMQPFunc, with a connection or with the error of openAMQP.
RabbitMQInit ==
  /\ \E opened \in BOOLEAN : Created(opened, "start", 1)
  /\ triggerCheck = "empty"

-----------------------------------------------------------------------------
\* The loop tests the context before its first check and after every tick,
StartCheck ==
  /\ pc[Loop] = "start"
  /\ ~Stopping
  /\ Goto(Loop, "check")
  /\ UNCHANGED <<statusVars, closeVars, result, held, readerVars>>

LeaveAtStart == pc[Loop] = "start" /\ Exit(client, FALSE)

\* but not when it is triggered: once triggerCheck is closed it is always ready, so that
\* checks may go on until the select picks quit or the context.
Triggered ==
  /\ pc[Loop] = "select"
  /\ triggerCheck # "empty"
  /\ triggerCheck' = IF triggerCheck = "full" THEN "empty" ELSE "closed"
  /\ Goto(Loop, "check")
  /\ UNCHANGED <<statusVars, closeVars, result, held, readerVars>>

RabbitMQLoop ==
  \/ (Tick("start") \/ StartCheck \/ LeaveAtStart) /\ UNCHANGED triggerCheck
  \/ Triggered
  \/ LoopExit(client, FALSE) /\ UNCHANGED triggerCheck

-----------------------------------------------------------------------------
\* The connection is nil, or the broker or the network has closed it: Close has not,
\* because it waits for the loop.
NotConnected(g) ==
  /\ pc[g] = "query"
  /\ Ends(g, Report("fail", "nil client"))
  /\ UNCHANGED <<statusVars, closeVars, held, readerVars>>

\* Opening the channel takes no context.
OpenChannel(g) ==
  /\ pc[g] = "query"
  /\ Goto(g, "answer")
  /\ held' = [held EXCEPT ![g] = 1]
  /\ UNCHANGED <<statusVars, closeVars, result, readerVars>>

NoChannel(g) ==
  /\ pc[g] = "query"
  /\ Ends(g, Report("fail", "failed"))
  /\ UNCHANGED <<statusVars, closeVars, held, readerVars>>

\* What PublishWithContext returns.
RabbitMQAnswers == {Report("fail", "failed"), Report("pass", "healthy")}

RabbitMQCheck(g) ==
  \/ Gate(g)
  \/ NotConnected(g) \/ OpenChannel(g) \/ NoChannel(g)
  \/ Answer(g, RabbitMQAnswers)
  \/ StoreResult(g) \/ Release(g)

-----------------------------------------------------------------------------
\* The request for a check is sent without blocking, like the status before it, under the
\* mutex; the trigger is closed before the status channel.
RabbitMQEnable ==
  /\ IF triggerCheck = "closed"
       THEN ~mutexHeld /\ disabled /\ disabled' = FALSE /\ Panic
       ELSE Reenable
  /\ triggerCheck' = IF triggerCheck = "empty" THEN "full" ELSE triggerCheck
  /\ UNCHANGED <<closeVars, checkVars, readerVars>>

RabbitMQCalls ==
  \/ (ChangeStatus \/ Disable) /\ UNCHANGED triggerCheck
  \/ RabbitMQEnable

-----------------------------------------------------------------------------
CloseTrigger ==
  /\ closer = "closing"
  /\ closer' = "waiting"
  /\ triggerCheck' = "closed"
  /\ UNCHANGED <<statusVars, mutexHeld, client, channelClosed, checkVars, readerVars>>

\* wg.Wait(), then the mutex.
CloseChannel ==
  /\ closer = "waiting"
  /\ LoopIsDone
  /\ ~mutexHeld
  /\ mutexHeld' = TRUE
  /\ channelClosed' = TRUE
  /\ closer' = "cleaning"
  /\ UNCHANGED <<statusVars, client, checkVars, readerVars, triggerCheck>>

RabbitMQClose ==
  \/ BeginClose(FALSE) /\ UNCHANGED triggerCheck
  \/ CloseTrigger
  \/ CloseChannel
  \/ closer = "cleaning" /\ EndClose(Closed) /\ UNCHANGED triggerCheck
=============================================================================
