---------------------------- MODULE PollingProofs ---------------------------
(***************************************************************************)
(* The safety of the seven polling checkers, for any number of goroutines  *)
(* that Enable starts.  Three kinds of steps keep the invariant: those     *)
(* that work (loop, checks and calls, which may announce a status and      *)
(* never bring a loop back), those of Close and of the end of the loop,    *)
(* and those of the reader.                                                *)
(***************************************************************************)
EXTENDS PollingCheckers, TLAPS

Places == {"idle", "start", "select", "check", "query", "answer", "receive", "test",
           "update", "release", "exited"}

ChecksOK ==
  /\ pc \in [Checkers -> Places]
  /\ result \in [Checkers -> Reports]
  /\ held \in [Checkers -> 0 .. 3]

OwnOK == RabbitMQTypeOK /\ SQLServerTypeOK

\* Close cleans up, in the RabbitMQ checker, after wg.Wait().
CleaningInv == closer = "cleaning" => LoopIsDone

IInv == TypeOK /\ ReaderKnows /\ LoopEndsFirst /\ CleaningInv

\* A loop that has left, or never was, does not come back.
LoopStaysDone == LoopIsDone => LoopIsDone'

\* A status, if any, is stored with its announcement.
Announces == \/ UNCHANGED <<currentStatus, statusChangeChan>> /\ panicked' \in BOOLEAN
             \/ \E s \in Reports : Announce(s)

\* A step of the loop, of a check or of the application.
Acts ==
  /\ Announces
  /\ disabled' \in BOOLEAN
  /\ ChecksOK' /\ LoopStaysDone
  /\ UNCHANGED <<closeVars, readerVars>>

Works == Acts /\ OwnOK' /\ UNCHANGED <<room, config, checker>>

-----------------------------------------------------------------------------
\* What the steps of a goroutine have in common.

LEMMA ReportIsAReport ==
  ASSUME NEW s \in {"pass", "warn", "fail"}, NEW o \in Outputs
  PROVE  Report(s, o) \in Reports
BY DEF Report, Reports

LEMMA TheReports ==
  /\ NoResult \in Reports
  /\ Override \in Reports
  /\ Report("warn", "disabled") \in Reports
  /\ Report("warn", "enabled") \in Reports
  /\ Report("fail", "not opened") \in Reports
  /\ Report("fail", "nil client") \in Reports
  /\ Report("fail", "failed") \in Reports
  /\ Report("fail", "unexpected result") \in Reports
  /\ Report("pass", "healthy") \in Reports
BY ReportIsAReport DEF NoResult, Override, Outputs

LEMMA TypeOKParts ==
  TypeOK <=> /\ currentStatus \in Reports
             /\ room \in {1, 5}
             /\ statusChangeChan \in 0 .. room
             /\ channelClosed \in BOOLEAN
             /\ disabled \in BOOLEAN
             /\ mutexHeld \in BOOLEAN
             /\ closer \in {"open", "closing", "waiting", "cleaning", "closed"}
             /\ client \in {"none", "open", "closed"}
             /\ panicked \in BOOLEAN
             /\ reader \in {"waiting", "told"}
             /\ lastRead \in Reports
             /\ config \in {"set", "nil"}
             /\ checker \in {"postgres", "redis", "mongodb", "s3", "solace", "rabbitmq",
                             "sqlserver"}
             /\ ChecksOK
             /\ OwnOK
BY DEF TypeOK, StateOK, ChecksOK, OwnOK, Places

LEMMA TypeOKNext ==
  /\ currentStatus' \in Reports
  /\ room' \in {1, 5}
  /\ statusChangeChan' \in 0 .. room'
  /\ channelClosed' \in BOOLEAN
  /\ disabled' \in BOOLEAN
  /\ mutexHeld' \in BOOLEAN
  /\ closer' \in {"open", "closing", "waiting", "cleaning", "closed"}
  /\ client' \in {"none", "open", "closed"}
  /\ panicked' \in BOOLEAN
  /\ reader' \in {"waiting", "told"}
  /\ lastRead' \in Reports
  /\ config' \in {"set", "nil"}
  /\ checker' \in {"postgres", "redis", "mongodb", "s3", "solace", "rabbitmq", "sqlserver"}
  /\ ChecksOK'
  /\ OwnOK'
  => TypeOK'
BY DEF TypeOK, StateOK, ChecksOK, OwnOK, Places

LEMMA Goes ==
  ASSUME ChecksOK, NEW g \in Checkers, NEW place \in Places, Goto(g, place),
         pc[g] \notin {"idle", "exited"} \/ g # Loop \/ place \in {"idle", "exited"}
  PROVE  pc' \in [Checkers -> Places] /\ LoopStaysDone
<1>1. pc' \in [Checkers -> Places]
  BY DEF ChecksOK, Goto
<1>2. Loop \in Checkers
  BY DEF Checkers
<1>3. LoopStaysDone
  BY <1>2 DEF ChecksOK, Goto, LoopStaysDone, LoopIsDone
<1>4. QED
  BY <1>1, <1>3

LEMMA RestIsAPlace ==
  ASSUME NEW g \in Checkers
  PROVE  Rest(g) \in Places
BY DEF Rest, Places

LEMMA EndsOK ==
  ASSUME ChecksOK, NEW g \in Checkers, NEW s \in Reports, Ends(g, s),
         pc[g] \notin {"idle", "exited"}, held' \in [Checkers -> 0 .. 3]
  PROVE  ChecksOK' /\ LoopStaysDone
<1>1. "update" \in Places
  BY DEF Places
<1>2. pc' \in [Checkers -> Places] /\ LoopStaysDone
  BY <1>1, Goes DEF Ends
<1>3. result' \in [Checkers -> Reports]
  BY DEF ChecksOK, Ends
<1>4. QED
  BY <1>2, <1>3 DEF ChecksOK

\* A step of a check or a loop that leaves everything but its place alone.
LEMMA MoveOK ==
  ASSUME ChecksOK, NEW g \in Checkers, NEW place \in Places, Goto(g, place),
         pc[g] \notin {"idle", "exited"}, UNCHANGED <<result, held>>
  PROVE  ChecksOK' /\ LoopStaysDone
BY Goes DEF ChecksOK

-----------------------------------------------------------------------------
\* The steps of a check or of the loop that store nothing.
Moves ==
  /\ UNCHANGED <<statusVars, closeVars, readerVars>>
  /\ ChecksOK' /\ LoopStaysDone

LEMMA GateMoves ==
  ASSUME TypeOK, NEW g \in Checkers, Gate(g) \/ Release(g)
  PROVE  Moves
<1>1. ChecksOK /\ Rest(g) \in Places /\ "query" \in Places
  BY TypeOKParts, RestIsAPlace DEF Places
<1>2. CASE Gate(g)
  <2>1. Goto(g, IF disabled THEN Rest(g) ELSE "query")
    BY <1>2 DEF Gate
  <2>2. (IF disabled THEN Rest(g) ELSE "query") \in Places
    BY <1>1
  <2>3. ChecksOK' /\ LoopStaysDone
    BY <1>1, <1>2, <2>1, <2>2, MoveOK DEF Gate
  <2>4. QED
    BY <1>2, <2>3 DEF Gate, Moves
<1>3. CASE Release(g)
  <2>1. held' \in [Checkers -> 0 .. 3]
    BY <1>1, <1>3 DEF Release, ChecksOK
  <2>2. pc' \in [Checkers -> Places] /\ LoopStaysDone
    BY <1>1, <1>3, Goes DEF Release
  <2>3. ChecksOK' /\ LoopStaysDone
    BY <1>1, <1>3, <2>1, <2>2 DEF Release, ChecksOK
  <2>4. QED
    BY <1>3, <2>3 DEF Release, Moves
<1>4. QED
  BY <1>2, <1>3

LEMMA QueryMoves ==
  ASSUME TypeOK, NEW g \in Checkers, Query(g)
  PROVE  Moves
<1>1. ChecksOK /\ "answer" \in Places /\ pc[g] = "query" /\ held' = held
  BY TypeOKParts DEF Places, Query, checkVars
<1>2. held' \in [Checkers -> 0 .. 3]
  BY <1>1 DEF ChecksOK
<1>3. \/ Ends(g, Report("fail", "nil client"))
      \/ Ends(g, Report("fail", "failed"))
      \/ Goto(g, "answer") /\ result' = result
  BY DEF Query
<1>4. ChecksOK' /\ LoopStaysDone
  BY <1>1, <1>2, <1>3, EndsOK, MoveOK, TheReports
<1>5. QED
  BY <1>4 DEF Query, Moves

\* The answers of the five checkers that Enable makes check at once.
LEMMA AnswerMoves ==
  ASSUME TypeOK, NEW g \in Checkers, NEW answers \in SUBSET Reports, Answer(g, answers)
  PROVE  Moves
<1>1. ChecksOK /\ pc[g] = "answer" /\ held' \in [Checkers -> 0 .. 3]
  BY TypeOKParts DEF Answer, ChecksOK
<1>2. PICK s \in Reports : Ends(g, s)
  BY DEF Answer
<1>3. ChecksOK' /\ LoopStaysDone
  BY <1>1, <1>2, EndsOK
<1>4. QED
  BY <1>3 DEF Answer, Moves

LEMMA AnswersAreReports ==
  /\ PostgresAnswers \in SUBSET Reports
  /\ RedisAnswers \in SUBSET Reports
  /\ MongoDBAnswers \in SUBSET Reports
  /\ S3Answers \in SUBSET Reports
  /\ RabbitMQAnswers \in SUBSET Reports
  /\ SQLServerAnswers \in SUBSET Reports
BY TheReports DEF PostgresAnswers, RedisAnswers, MongoDBAnswers, S3Answers, RabbitMQAnswers,
   SQLServerAnswers

LEMMA SolaceMoves ==
  ASSUME TypeOK, NEW g \in Checkers,
         SolaceOpen(g) \/ SolaceSend(g) \/ SolaceReceive(g) \/ SolaceFails(g)
  PROVE  Moves
<1>1. ChecksOK /\ "receive" \in Places
  BY TypeOKParts DEF Places
<1>2. CASE SolaceOpen(g)
  <2>1. held' \in [Checkers -> 0 .. 3]
    BY <1>1, <1>2 DEF SolaceOpen, ChecksOK
  <2>2. ChecksOK' /\ LoopStaysDone
    BY <1>1, <1>2, <2>1 DEF SolaceOpen, ChecksOK, LoopStaysDone, LoopIsDone
  <2>3. QED
    BY <1>2, <2>2 DEF SolaceOpen, Moves
<1>3. CASE SolaceSend(g)
  <2>1. ChecksOK' /\ LoopStaysDone
    BY <1>1, <1>3, MoveOK DEF SolaceSend
  <2>2. QED
    BY <1>3, <2>1 DEF SolaceSend, Moves
<1>4. CASE SolaceReceive(g) \/ SolaceFails(g)
  <2>1. pc[g] \in {"answer", "receive"} /\ held' \in [Checkers -> 0 .. 3]
    BY <1>1, <1>4 DEF SolaceReceive, SolaceFails, ChecksOK
  <2>2. Ends(g, Report("pass", "healthy")) \/ Ends(g, Report("fail", "failed"))
    BY <1>4 DEF SolaceReceive, SolaceFails
  <2>3. ChecksOK' /\ LoopStaysDone
    BY <1>1, <2>1, <2>2, EndsOK, TheReports
  <2>4. QED
    BY <1>4, <2>3 DEF SolaceReceive, SolaceFails, Moves
<1>5. QED
  BY <1>2, <1>3, <1>4

LEMMA RabbitMQMoves ==
  ASSUME TypeOK, NEW g \in Checkers, NotConnected(g) \/ OpenChannel(g) \/ NoChannel(g)
  PROVE  Moves
<1>1. ChecksOK /\ "answer" \in Places /\ pc[g] = "query"
  BY TypeOKParts DEF Places, NotConnected, OpenChannel, NoChannel
<1>2. CASE NotConnected(g) \/ NoChannel(g)
  <2>1. held' \in [Checkers -> 0 .. 3]
    BY <1>1, <1>2 DEF NotConnected, NoChannel, ChecksOK
  <2>2. Ends(g, Report("fail", "nil client")) \/ Ends(g, Report("fail", "failed"))
    BY <1>2 DEF NotConnected, NoChannel
  <2>3. ChecksOK' /\ LoopStaysDone
    BY <1>1, <2>1, <2>2, EndsOK, TheReports
  <2>4. QED
    BY <1>2, <2>3 DEF NotConnected, NoChannel, Moves
<1>3. CASE OpenChannel(g)
  <2>1. held' \in [Checkers -> 0 .. 3]
    BY <1>1, <1>3 DEF OpenChannel, ChecksOK
  <2>2. pc' \in [Checkers -> Places] /\ LoopStaysDone
    BY <1>1, <1>3, Goes DEF OpenChannel
  <2>3. QED
    BY <1>1, <1>3, <2>1, <2>2 DEF OpenChannel, Moves, ChecksOK
<1>4. QED
  BY <1>2, <1>3

\* The loop goes to a check, or through the start of one.
LEMMA LoopMoves ==
  ASSUME TypeOK, NEW place \in Places,
         Goto(Loop, place), pc[Loop] \notin {"idle", "exited"},
         UNCHANGED <<statusVars, closeVars, result, held, readerVars>>
  PROVE  Moves
<1>1. ChecksOK /\ Loop \in Checkers
  BY TypeOKParts DEF Checkers
<1>2. QED
  BY <1>1, MoveOK DEF Moves

LEMMA MovesActs ==
  ASSUME TypeOK, Moves
  PROVE  Acts
BY TypeOKParts DEF Moves, Acts, Announces, statusVars, announceVars

-----------------------------------------------------------------------------
\* The steps that may store and announce.

LEMMA UpdateAnnounces ==
  ASSUME TypeOK, NEW s \in Reports, UpdateStatus(s)
  PROVE  Announces
BY TypeOKParts DEF UpdateStatus, Announces, announceVars

LEMMA StoreResultActs ==
  ASSUME TypeOK, NEW g \in Checkers, StoreResult(g)
  PROVE  Acts
<1>1. ChecksOK /\ "release" \in Places /\ Rest(g) \in Places /\ disabled \in BOOLEAN
  BY TypeOKParts, RestIsAPlace DEF Places
<1>2. result[g] \in Reports
  BY <1>1 DEF ChecksOK
<1>3. Announces
  BY <1>2, UpdateAnnounces DEF StoreResult
<1>4. pc' \in [Checkers -> Places] /\ LoopStaysDone
  <2>1. PICK place \in Places : Goto(g, place)
    BY <1>1 DEF StoreResult
  <2>2. QED
    BY <1>1, <2>1, Goes DEF StoreResult
<1>5. result' \in [Checkers -> Reports]
  BY <1>1, TheReports DEF StoreResult, ChecksOK
<1>6. ChecksOK'
  BY <1>1, <1>4, <1>5 DEF StoreResult, ChecksOK
<1>7. QED
  BY <1>1, <1>3, <1>4, <1>6 DEF StoreResult, Acts

\* Without a move of a goroutine.
LEMMA NoMove ==
  ASSUME TypeOK, UNCHANGED checkVars
  PROVE  ChecksOK' /\ LoopStaysDone
BY TypeOKParts DEF checkVars, ChecksOK, LoopStaysDone, LoopIsDone

LEMMA CallActs ==
  ASSUME TypeOK, UNCHANGED <<closeVars, checkVars, readerVars>>,
         disabled' \in BOOLEAN, Announces
  PROVE  Acts
BY NoMove DEF Acts

LEMMA ChangeStatusActs ==
  ASSUME TypeOK, ChangeStatus \/ Disable
  PROVE  Acts
<1>1. CASE ChangeStatus
  <2>1. Announces
    BY <1>1, UpdateAnnounces, TheReports DEF ChangeStatus
  <2>2. QED
    BY <1>1, <2>1, CallActs, TypeOKParts DEF ChangeStatus
<1>2. CASE Disable
  <2>1. Announces
    BY <1>2, TheReports DEF Disable, Announces
  <2>2. QED
    BY <1>2, <2>1, CallActs DEF Disable
<1>3. QED
  BY <1>1, <1>2

LEMMA ReenableAnnounces ==
  ASSUME TypeOK, Reenable
  PROVE  Announces /\ disabled' \in BOOLEAN
BY TheReports DEF Reenable, Announces

\* The goroutine of Enable is not the loop.
LEMMA EnableActs ==
  ASSUME TypeOK, Enable
  PROVE  Acts
<1>1. ChecksOK /\ "check" \in Places
  BY TypeOKParts DEF Places
<1>2. PICK k \in Checks : Goto(k, "check")
  BY DEF Enable
<1>3. k \in Checkers /\ k # Loop
  BY GoroutinesAssumption DEF Checkers
<1>4. pc' \in [Checkers -> Places] /\ LoopStaysDone
  BY <1>1, <1>2, <1>3, Goes
<1>5. ChecksOK'
  BY <1>1, <1>4 DEF Enable, ChecksOK
<1>6. QED
  BY <1>4, <1>5, ReenableAnnounces DEF Enable, Acts

LEMMA BucketNameActs ==
  ASSUME TypeOK, NEW g \in Checkers, BucketName(g)
  PROVE  Acts
<1>1. Announces
  BY DEF BucketName, Panic, Announces
<1>2. QED
  BY <1>1, CallActs, TypeOKParts DEF BucketName

\* Enable panics after Close has closed the trigger, or announces.
LEMMA RabbitMQEnableActs ==
  ASSUME TypeOK, RabbitMQEnable
  PROVE  Acts
<1>1. Announces /\ disabled' \in BOOLEAN
  <2>1. CASE triggerCheck = "closed"
    BY <2>1 DEF RabbitMQEnable, Panic, Announces
  <2>2. CASE triggerCheck # "closed"
    BY <2>2, ReenableAnnounces DEF RabbitMQEnable
  <2>3. QED
    BY <2>1, <2>2
<1>2. QED
  BY <1>1, CallActs DEF RabbitMQEnable

-----------------------------------------------------------------------------
\* The SQL Server checker has steps of its own.

LEMMA OwnUnchanged ==
  ASSUME TypeOK, UNCHANGED ownVars
  PROVE  OwnOK'
BY TypeOKParts DEF OwnOK, RabbitMQTypeOK, SQLServerTypeOK, ownVars, sqlServerVars, queryVars

LEMMA OutcomeMoves ==
  ASSUME TypeOK, NEW s \in Reports, Outcome(s), pc[Loop] = "answer"
  PROVE  Moves /\ resultChan' = NoResult /\ overriding' = overriding
<1>1. ChecksOK /\ "test" \in Places /\ Loop \in Checkers
  BY TypeOKParts DEF Places, Checkers
<1>2. pc' \in [Checkers -> Places] /\ LoopStaysDone
  BY <1>1, Goes DEF Outcome
<1>3. result' \in [Checkers -> Reports] /\ held' \in [Checkers -> 0 .. 3]
  BY <1>1 DEF Outcome, ChecksOK
<1>4. QED
  BY <1>2, <1>3 DEF Outcome, Moves, ChecksOK

LEMMA SQLServerGateMoves ==
  ASSUME TypeOK, SQLServerGate
  PROVE  Moves
<1> DEFINE place == IF Cancelled \/ disabled THEN "select"
                    ELSE IF pc[Loop] = "start" THEN "check" ELSE "query"
<1>1. place \in Places
  BY DEF Places
<1>2. /\ Goto(Loop, place) /\ pc[Loop] \notin {"idle", "exited"}
      /\ UNCHANGED <<statusVars, closeVars, result, held, readerVars>>
  BY DEF SQLServerGate
<1> HIDE DEF place
<1>3. QED
  BY <1>1, <1>2, LoopMoves

LEMMA TestContextMoves ==
  ASSUME TypeOK, TestContext
  PROVE  Moves
<1>1. ChecksOK /\ Loop \in Checkers /\ "select" \in Places /\ "update" \in Places
  BY TypeOKParts DEF Places, Checkers
<1>2. pc' \in [Checkers -> Places] /\ LoopStaysDone
  <2>1. PICK place \in Places : Goto(Loop, place)
    BY <1>1 DEF TestContext
  <2>2. QED
    BY <1>1, <2>1, Goes DEF TestContext
<1>3. result' \in [Checkers -> Reports] /\ held' \in [Checkers -> 0 .. 3]
  BY <1>1, TheReports DEF TestContext, ChecksOK
<1>4. QED
  BY <1>2, <1>3 DEF TestContext, Moves, ChecksOK

LEMMA SQLServerCheckWorks ==
  ASSUME TypeOK, SQLServerCheck, UNCHANGED <<triggerCheck, room, config, checker>>
  PROVE  Works
<1>1. OwnOK /\ Loop \in Checkers /\ RabbitMQTypeOK'
  BY TypeOKParts DEF Checkers, OwnOK, RabbitMQTypeOK
<1>2. CASE (SQLServerGate \/ StoreResult(Loop)) /\ UNCHANGED sqlServerVars
  <2>1. Acts
    BY <1>1, <1>2, SQLServerGateMoves, MovesActs, StoreResultActs
  <2>2. OwnOK'
    BY <1>2, OwnUnchanged DEF ownVars
  <2>3. QED
    BY <2>1, <2>2 DEF Works
<1>3. CASE StartQuery
  <2>1. Moves
    <3>1. "answer" \in Places
      BY DEF Places
    <3>2. QED
      BY <1>3, <3>1, LoopMoves DEF StartQuery
  <2>2. SQLServerTypeOK'
    BY <1>1, <1>3 DEF StartQuery, OwnOK, SQLServerTypeOK
  <2>3. QED
    BY <1>1, <2>1, <2>2, MovesActs DEF Works, OwnOK
<1>4. CASE ReceiveResult
  <2>1. pc[Loop] = "answer" /\ Outcome(resultChan) /\ late' = late /\ resultChan \in Reports
    BY <1>1, <1>4, AnswersAreReports, TheReports DEF ReceiveResult, OwnOK, SQLServerTypeOK
  <2>2. Moves /\ resultChan' = NoResult /\ overriding' = overriding
    BY <2>1, OutcomeMoves
  <2>3. SQLServerTypeOK'
    BY <1>1, <2>1, <2>2 DEF OwnOK, SQLServerTypeOK
  <2>4. QED
    BY <1>1, <2>2, <2>3, MovesActs DEF Works, OwnOK
<1>5. CASE QueryTimesOut
  <2>1. Moves /\ resultChan' = NoResult /\ overriding' = overriding
    BY <1>5, OutcomeMoves, TheReports DEF QueryTimesOut
  <2>2. late' \in 0 .. MaxLate
    BY <1>1, <1>5, MaxLateAssumption DEF QueryTimesOut, OwnOK, SQLServerTypeOK
  <2>3. SQLServerTypeOK'
    BY <1>1, <2>1, <2>2 DEF OwnOK, SQLServerTypeOK
  <2>4. QED
    BY <1>1, <2>1, <2>3, MovesActs DEF Works, OwnOK
<1>6. CASE TestContext
  <2>1. OwnOK'
    BY <1>6, OwnUnchanged DEF TestContext, ownVars
  <2>2. QED
    BY <1>6, <2>1, TestContextMoves, MovesActs DEF Works
<1>7. QED
  BY <1>2, <1>3, <1>4, <1>5, <1>6 DEF SQLServerCheck

\* The query's goroutine and the test of ChangeStatus are not seen from outside.
LEMMA SQLServerHidden ==
  ASSUME TypeOK, QueryReturns \/ LateAnswer \/ BeginChangeStatus,
         UNCHANGED <<triggerCheck, room, config, checker>>
  PROVE  Works
<1>1. Moves
  BY NoMove DEF QueryReturns, LateAnswer, BeginChangeStatus, vars, Moves, checkVars
<1>2. OwnOK'
  <2>1. OwnOK /\ RabbitMQTypeOK'
    BY TypeOKParts DEF OwnOK, RabbitMQTypeOK
  <2>2. CASE QueryReturns
    BY <2>1, <2>2 DEF OwnOK, SQLServerTypeOK, QueryReturns
  <2>3. CASE LateAnswer
    <3>1. late' \in 0 .. MaxLate
      BY <2>1, <2>3, MaxLateAssumption DEF OwnOK, SQLServerTypeOK, LateAnswer
    <3>2. QED
      BY <2>1, <2>3, <3>1 DEF OwnOK, SQLServerTypeOK, LateAnswer
  <2>4. CASE BeginChangeStatus
    BY <2>1, <2>4 DEF OwnOK, SQLServerTypeOK, BeginChangeStatus, queryVars
  <2>5. QED
    BY <2>2, <2>3, <2>4
<1>3. QED
  BY <1>1, <1>2, MovesActs DEF Works

LEMMA SQLServerCallsWork ==
  ASSUME TypeOK, SQLServerCalls, UNCHANGED <<triggerCheck, room, config, checker>>
  PROVE  Works
<1>1. CASE EndChangeStatus
  <2>1. Announces
    BY <1>1, UpdateAnnounces, TheReports DEF EndChangeStatus
  <2>2. Acts
    BY <1>1, <2>1, CallActs, TypeOKParts DEF EndChangeStatus
  <2>3. OwnOK'
    BY <1>1, TypeOKParts DEF EndChangeStatus, OwnOK, RabbitMQTypeOK, SQLServerTypeOK, queryVars
  <2>4. QED
    BY <2>2, <2>3 DEF Works
<1>2. CASE Disable /\ UNCHANGED sqlServerVars
  <2>1. OwnOK'
    BY <1>2, OwnUnchanged DEF ownVars
  <2>2. QED
    BY <1>2, <2>1, ChangeStatusActs DEF Works
<1>3. CASE SQLServerEnable
  <2>1. Acts
    BY <1>3, ReenableAnnounces, CallActs DEF SQLServerEnable
  <2>2. OwnOK'
    BY <1>3, OwnUnchanged DEF SQLServerEnable, ownVars
  <2>3. QED
    BY <2>1, <2>2 DEF Works
<1>4. QED
  BY <1>1, <1>2, <1>3, SQLServerHidden DEF SQLServerCalls

-----------------------------------------------------------------------------
\* Every step of a checker works, ends its loop, closes it or reads its channel.

\* The loop leaves: some close the connection, that of SQL Server the status channel too.
Leaves ==
  /\ pc[Loop] \in {"start", "select"}
  /\ Stopping
  /\ Goto(Loop, "exited")
  /\ client' \in {client, "closed"}
  /\ channelClosed' \in BOOLEAN
  /\ UNCHANGED <<statusVars, mutexHeld, closer, result, held, readerVars, ownVars>>

LEMMA PlainWorks ==
  ASSUME TypeOK, Acts, UNCHANGED <<ownVars, room, config, checker>>
  PROVE  Works
BY OwnUnchanged DEF Works

\* A tick of the loop, or its end.
LEMMA LoopWorks ==
  ASSUME TypeOK, HealthCheckLoop, UNCHANGED <<room, config, checker>>
  PROVE  Works \/ Leaves
<1>1. "start" \in Places /\ "check" \in Places
  BY DEF Places
<1>2. ASSUME NEW next \in {"start", "check"}, Tick(next), UNCHANGED ownVars
      PROVE  Works
  <2>1. Moves
    BY <1>1, <1>2, LoopMoves DEF Tick
  <2>2. QED
    BY <1>2, <2>1, MovesActs, PlainWorks
<1>3. ASSUME NEW after \in {client, "closed"}, NEW closes \in BOOLEAN, Exit(after, closes),
             pc[Loop] \in {"start", "select"}, UNCHANGED ownVars
      PROVE  Leaves
  BY <1>3 DEF Exit, Leaves
<1>4. CASE checker \notin {"rabbitmq", "sqlserver"}
  <2>1. /\ Tick("check") \/ LoopExit("closed", FALSE) \/ LoopExit(client, FALSE)
        /\ UNCHANGED ownVars
    BY <1>4 DEF HealthCheckLoop, PostgresLoop, RedisLoop, MongoDBLoop, S3Loop, SolaceLoop
  <2>2. QED
    BY <1>2, <1>3, <2>1 DEF LoopExit
<1>5. CASE checker = "sqlserver"
  <2>1. /\ Tick("start") \/ LeaveAtTick \/ LoopExit("closed", TRUE)
        /\ UNCHANGED ownVars
    BY <1>5 DEF HealthCheckLoop, SQLServerLoop, ownVars
  <2>2. QED
    BY <1>2, <1>3, <2>1 DEF LoopExit, LeaveAtTick
<1>6. CASE checker = "rabbitmq"
  <2>1. RabbitMQLoop /\ UNCHANGED sqlServerVars
    BY <1>6 DEF HealthCheckLoop
  <2>2. CASE Tick("start") /\ UNCHANGED triggerCheck
    BY <1>2, <2>1, <2>2 DEF ownVars
  <2>3. CASE StartCheck /\ UNCHANGED triggerCheck
    <3>1. Moves
      BY <1>1, <2>3, LoopMoves DEF StartCheck
    <3>2. QED
      BY <2>1, <2>3, <3>1, MovesActs, PlainWorks DEF ownVars
  <2>4. CASE Triggered
    <3>1. Moves
      BY <1>1, <2>4, LoopMoves DEF Triggered
    <3>2. OwnOK'
      BY <2>1, <2>4, TypeOKParts DEF Triggered, OwnOK, RabbitMQTypeOK, SQLServerTypeOK,
         sqlServerVars, queryVars
    <3>3. QED
      BY <3>1, <3>2, MovesActs DEF Works
  <2>5. CASE (LeaveAtStart \/ LoopExit(client, FALSE)) /\ UNCHANGED triggerCheck
    BY <1>3, <2>1, <2>5 DEF LeaveAtStart, LoopExit, ownVars
  <2>6. QED
    BY <2>1, <2>2, <2>3, <2>4, <2>5 DEF RabbitMQLoop
<1>7. QED
  BY <1>4, <1>5, <1>6

LEMMA CheckActs ==
  ASSUME TypeOK, NEW g \in Checkers, NEW answers \in SUBSET Reports, Check(g, answers)
  PROVE  Acts
BY GateMoves, QueryMoves, AnswerMoves, MovesActs, StoreResultActs DEF Check

LEMMA ChecksWork ==
  ASSUME TypeOK, NEW g \in Checkers, PerformHealthCheck(g), UNCHANGED <<room, config, checker>>
  PROVE  Works
<1>1. CASE checker \in {"postgres", "redis", "mongodb", "s3"}
  <2>1. UNCHANGED ownVars
    BY <1>1 DEF PerformHealthCheck
  <2>2. \/ Check(g, PostgresAnswers) \/ Check(g, RedisAnswers) \/ Check(g, MongoDBAnswers)
        \/ Check(g, S3Answers) \/ BucketName(g)
    BY <1>1 DEF PerformHealthCheck, PostgresCheck, RedisCheck, MongoDBCheck, S3Check
  <2>3. Acts
    BY <2>2, CheckActs, AnswersAreReports, BucketNameActs
  <2>4. QED
    BY <2>1, <2>3, PlainWorks
<1>2. CASE checker = "solace"
  <2>1. SolaceCheck(g) /\ UNCHANGED ownVars
    BY <1>2 DEF PerformHealthCheck
  <2>2. Acts
    BY <2>1, GateMoves, QueryMoves, SolaceMoves, MovesActs, StoreResultActs DEF SolaceCheck
  <2>3. QED
    BY <2>1, <2>2, PlainWorks
<1>3. CASE checker = "rabbitmq"
  <2>1. RabbitMQCheck(g) /\ UNCHANGED ownVars
    BY <1>3 DEF PerformHealthCheck
  <2>2. Acts
    BY <2>1, GateMoves, RabbitMQMoves, AnswerMoves, AnswersAreReports, MovesActs,
       StoreResultActs DEF RabbitMQCheck
  <2>3. QED
    BY <2>1, <2>2, PlainWorks
<1>4. CASE checker = "sqlserver"
  BY <1>4, SQLServerCheckWorks DEF PerformHealthCheck
<1>5. QED
  BY <1>1, <1>2, <1>3, <1>4 DEF PerformHealthCheck

LEMMA ApplicationWorks ==
  ASSUME TypeOK, Application, UNCHANGED <<room, config, checker>>
  PROVE  Works
<1>1. CASE checker \in {"postgres", "redis", "mongodb", "s3", "solace"}
  <2>1. Calls /\ UNCHANGED ownVars
    BY <1>1 DEF Application, SolaceCalls
  <2>2. Acts
    BY <2>1, ChangeStatusActs, EnableActs DEF Calls
  <2>3. QED
    BY <2>1, <2>2, PlainWorks
<1>2. CASE checker = "rabbitmq"
  <2>1. RabbitMQCalls /\ UNCHANGED sqlServerVars
    BY <1>2 DEF Application
  <2>2. Acts
    BY <2>1, ChangeStatusActs, RabbitMQEnableActs DEF RabbitMQCalls
  <2>3. triggerCheck' \in {triggerCheck, "full"}
    BY <2>1 DEF RabbitMQCalls, RabbitMQEnable
  <2>4. OwnOK'
    BY <2>1, <2>3, TypeOKParts DEF OwnOK, RabbitMQTypeOK, SQLServerTypeOK, sqlServerVars,
       queryVars
  <2>5. QED
    BY <2>2, <2>4 DEF Works
<1>3. CASE checker = "sqlserver"
  BY <1>3, SQLServerCallsWork DEF Application
<1>4. QED
  BY <1>1, <1>2, <1>3 DEF Application

\* A step of Close.  Where it waits for the loop it closes after the wait.
Closes ==
  /\ \/ closer = "open" /\ closer' = "closing" /\ UNCHANGED <<client, channelClosed>>
     \/ closer = "closing" /\ closer' = "waiting" /\ UNCHANGED <<client, channelClosed>>
     \/ /\ closer = "waiting" /\ closer' = "cleaning" /\ LoopIsDone
        /\ channelClosed' = TRUE /\ UNCHANGED client
     \/ /\ closer \in {"closing", "cleaning"} /\ closer' = "closed"
        /\ client' \in {client, "closed"} /\ UNCHANGED channelClosed
        /\ checker \in {"rabbitmq", "sqlserver"} => LoopIsDone
  /\ mutexHeld' \in BOOLEAN
  /\ OwnOK'
  /\ UNCHANGED <<statusVars, checkVars, readerVars, room, config, checker>>

LEMMA CloseCloses ==
  ASSUME TypeOK, CleaningInv, Close, UNCHANGED <<room, config, checker>>
  PROVE  Closes
<1>1. ASSUME NEW locks \in BOOLEAN, BeginClose(locks), OwnOK'
      PROVE  Closes
  BY <1>1 DEF BeginClose, Closes
<1>2. ASSUME NEW after \in {client, "closed"}, EndClose(after), OwnOK',
             checker \in {"rabbitmq", "sqlserver"} => LoopIsDone
      PROVE  Closes
  BY <1>2 DEF EndClose, Closes
<1>3. Closed \in {client, "closed"}
  BY DEF Closed
<1>4. CASE checker \notin {"rabbitmq", "sqlserver"}
  <2>1. /\ BeginClose(TRUE) \/ BeginClose(FALSE) \/ EndClose(Closed) \/ EndClose(client)
        /\ UNCHANGED ownVars
    BY <1>4 DEF Close, PostgresClose, RedisClose, MongoDBClose, S3Close, SolaceClose
  <2>2. QED
    BY <1>1, <1>2, <1>3, <1>4, <2>1, OwnUnchanged
<1>5. CASE checker = "sqlserver"
  <2>1. /\ BeginClose(FALSE) \/ (LoopIsDone /\ EndClose(client))
        /\ UNCHANGED ownVars
    BY <1>5 DEF Close, SQLServerClose, ownVars
  <2>2. QED
    BY <1>1, <1>2, <2>1, OwnUnchanged
<1>6. CASE checker = "rabbitmq"
  <2>1. RabbitMQClose /\ UNCHANGED sqlServerVars
    BY <1>6 DEF Close
  <2>2. triggerCheck' \in {triggerCheck, "closed"}
    BY <2>1 DEF RabbitMQClose, CloseTrigger, CloseChannel
  <2>3. OwnOK'
    BY <2>1, <2>2, TypeOKParts DEF OwnOK, RabbitMQTypeOK, SQLServerTypeOK, sqlServerVars,
       queryVars
  <2>4. CASE CloseTrigger
    BY <2>3, <2>4, TypeOKParts DEF CloseTrigger, Closes
  <2>5. CASE CloseChannel
    BY <2>3, <2>5 DEF CloseChannel, Closes
  <2>6. CASE closer = "cleaning" /\ EndClose(Closed)
    BY <1>2, <1>3, <2>3, <2>6 DEF CleaningInv
  <2>7. QED
    BY <1>1, <2>1, <2>3, <2>4, <2>5, <2>6 DEF RabbitMQClose
<1>7. QED
  BY <1>4, <1>5, <1>6 DEF Close

LEMMA StepKinds ==
  ASSUME IInv, Step
  PROVE  \/ Works
         \/ Leaves  /\ UNCHANGED <<room, config, checker>>
         \/ Closes
         \/ Receive /\ UNCHANGED <<ownVars, room, config, checker>>
         \/ ReadStatus /\ UNCHANGED <<ownVars, room, config, checker>>
<1>1. TypeOK /\ CleaningInv /\ UNCHANGED <<room, config, checker>>
  BY DEF IInv, Step
<1>2. CASE HealthCheckLoop
  BY <1>1, <1>2, LoopWorks
<1>3. ASSUME NEW g \in Checkers, PerformHealthCheck(g)
      PROVE  Works
  BY <1>1, <1>3, ChecksWork
<1>4. CASE QueryGoroutine
  BY <1>1, <1>4, SQLServerHidden DEF QueryGoroutine
<1>5. CASE Close
  BY <1>1, <1>5, CloseCloses
<1>6. CASE Application
  BY <1>1, <1>6, ApplicationWorks
<1>7. CASE Reader /\ UNCHANGED ownVars
  BY <1>1, <1>7 DEF Reader
<1>8. QED
  BY <1>2, <1>3, <1>4, <1>5, <1>6, <1>7 DEF Step

-----------------------------------------------------------------------------
\* The invariant.

LEMMA CreatedOK ==
  ASSUME NEW made \in BOOLEAN, NEW first \in {"check", "start", "select"}, NEW cap \in {1, 5},
         Created(made, first, cap), config \in {"set", "nil"}, OwnOK,
         checker \in {"postgres", "redis", "mongodb", "s3", "solace", "rabbitmq", "sqlserver"}
  PROVE  IInv
<1>1. ChecksOK
  <2>1. pc \in [Checkers -> Places]
    BY DEF Created, Places
  <2>2. result \in [Checkers -> Reports]
    BY TheReports DEF Created
  <2>3. held \in [Checkers -> 0 .. 3]
    <3>1. 0 \in 0 .. 3
      OBVIOUS
    <3>2. QED
      BY <3>1, Zenon DEF Created
  <2>4. QED
    BY <2>1, <2>2, <2>3 DEF ChecksOK
<1>2. currentStatus \in Reports /\ lastRead \in Reports
  BY TheReports DEF Created, NoResult
<1>3. client \in {"none", "open", "closed"} /\ client # "closed"
  BY DEF Created
<1>4. room \in {1, 5} /\ statusChangeChan \in 0 .. room
  <2>1. room = cap /\ statusChangeChan = 0
    BY DEF Created
  <2>2. room \in {1, 5}
    BY <2>1
  <2>3. 0 \in 0 .. room
    BY <2>2
  <2>4. QED
    BY <2>1, <2>2, <2>3
<1>5. /\ channelClosed = FALSE /\ disabled = FALSE /\ mutexHeld = FALSE /\ panicked = FALSE
      /\ closer = "open" /\ reader = "told"
  BY DEF Created
<1>6. TypeOK
  BY <1>1, <1>2, <1>3, <1>4, <1>5, TypeOKParts
<1>7. QED
  BY <1>3, <1>5, <1>6 DEF IInv, ReaderKnows, LoopEndsFirst, CleaningInv

LEMMA InitInv == Init => IInv
<1> SUFFICES ASSUME Init PROVE IInv
  OBVIOUS
<1>1. \E made \in BOOLEAN : \E first \in {"check", "start", "select"} : \E cap \in {1, 5} :
         Created(made, first, cap)
  BY DEF Init, PostgresInit, RedisInit, MongoDBInit, S3Init, SolaceInit, RabbitMQInit,
     SQLServerInit
<1>2. config \in {"set", "nil"}
  BY DEF Init, S3Init
<1>3. triggerCheck = "empty" /\ resultChan = NoResult /\ late = 0 /\ overriding = FALSE
  BY DEF Init, RabbitMQInit, SQLServerInit
<1>4. OwnOK
  <2>1. 0 \in 0 .. MaxLate
    BY MaxLateAssumption
  <2>2. QED
    BY <1>3, <2>1, Zenon DEF OwnOK, RabbitMQTypeOK, SQLServerTypeOK
<1>5. checker \in {"postgres", "redis", "mongodb", "s3", "solace", "rabbitmq", "sqlserver"}
  BY DEF Init
<1>6. QED
  BY <1>1, <1>2, <1>4, <1>5, CreatedOK

LEMMA WorksInv ==
  ASSUME IInv, Works
  PROVE  IInv'
<1>1. /\ room' = room /\ config' = config /\ checker' = checker /\ client' = client
      /\ mutexHeld' = mutexHeld /\ closer' = closer /\ channelClosed' = channelClosed
      /\ reader' = reader /\ lastRead' = lastRead
  BY DEF Works, Acts, closeVars, readerVars
<1>2. ChecksOK' /\ OwnOK' /\ LoopStaysDone /\ disabled' \in BOOLEAN /\ Announces
  BY DEF Works, Acts
<1>3. /\ currentStatus' \in Reports
      /\ statusChangeChan' \in 0 .. room
      /\ panicked' \in BOOLEAN
      /\ \/ UNCHANGED <<currentStatus, statusChangeChan>>
         \/ statusChangeChan' # 0
  <2>1. /\ currentStatus \in Reports /\ room \in {1, 5} /\ statusChangeChan \in 0 .. room
        /\ panicked \in BOOLEAN
    BY TypeOKParts DEF IInv
  <2>2. CASE UNCHANGED <<currentStatus, statusChangeChan>> /\ panicked' \in BOOLEAN
    BY <2>1, <2>2
  <2>3. ASSUME NEW s \in Reports, Announce(s), ~channelClosed
        PROVE  /\ currentStatus' \in Reports /\ panicked' \in BOOLEAN
               /\ statusChangeChan' \in 0 .. room /\ statusChangeChan' # 0
    BY <2>1, <2>3 DEF Announce
  <2>4. ASSUME NEW s \in Reports, Announce(s), channelClosed
        PROVE  UNCHANGED <<currentStatus, statusChangeChan>> /\ panicked' \in BOOLEAN
    BY <2>4 DEF Announce, Panic
  <2>5. QED
    BY <1>2, <2>1, <2>2, <2>3, <2>4 DEF Announces
<1>4. TypeOK'
  BY <1>1, <1>2, <1>3, TypeOKParts, TypeOKNext DEF IInv
<1>5. ReaderKnows'
  BY <1>1, <1>3 DEF IInv, ReaderKnows
<1>6. LoopEndsFirst' /\ CleaningInv'
  BY <1>1, <1>2 DEF IInv, LoopEndsFirst, CleaningInv, LoopStaysDone, LoopIsDone
<1>7. QED
  BY <1>4, <1>5, <1>6 DEF IInv

LEMMA LeavesInv ==
  ASSUME IInv, Leaves, UNCHANGED <<room, config, checker>>
  PROVE  IInv'
<1>1. ChecksOK /\ Loop \in Checkers /\ "exited" \in Places /\ TypeOK
  BY TypeOKParts, TypeOKNext DEF IInv, Places, Checkers
<1>2. pc' \in [Checkers -> Places] /\ pc'[Loop] = "exited"
  BY <1>1 DEF Leaves, Goto, ChecksOK
<1>3. ChecksOK' /\ OwnOK'
  BY <1>1, <1>2, OwnUnchanged DEF Leaves, ChecksOK
<1>4. TypeOK'
  BY <1>1, <1>3, TypeOKParts, TypeOKNext DEF Leaves, statusVars, announceVars, readerVars
<1>5. ReaderKnows'
  BY DEF IInv, ReaderKnows, Leaves, statusVars, announceVars, readerVars
<1>6. QED
  BY <1>2, <1>4, <1>5 DEF IInv, LoopEndsFirst, CleaningInv, LoopIsDone

LEMMA ClosesInv ==
  ASSUME IInv, Closes
  PROVE  IInv'
<1>1. ChecksOK' /\ pc' = pc
  BY NoMove DEF IInv, Closes, checkVars
<1>2. TypeOK'
  BY <1>1, TypeOKParts, TypeOKNext DEF IInv, Closes, statusVars, announceVars, readerVars
<1>3. ReaderKnows'
  BY DEF IInv, ReaderKnows, Closes, statusVars, announceVars, readerVars
<1>4. LoopEndsFirst' /\ CleaningInv'
  BY <1>1 DEF IInv, LoopEndsFirst, CleaningInv, LoopIsDone, Closes
<1>5. QED
  BY <1>2, <1>3, <1>4 DEF IInv

LEMMA ReaderInv ==
  ASSUME IInv, Receive \/ ReadStatus, UNCHANGED <<ownVars, room, config, checker>>
  PROVE  IInv'
<1>1. ChecksOK' /\ OwnOK' /\ pc' = pc
  BY NoMove, OwnUnchanged DEF IInv, Receive, ReadStatus, checkVars
<1>2. /\ closer' = closer /\ client' = client /\ channelClosed' = channelClosed
      /\ mutexHeld' = mutexHeld /\ currentStatus' = currentStatus /\ disabled' = disabled
      /\ panicked' = panicked
  BY DEF Receive, ReadStatus, closeVars, statusVars, announceVars
<1>3. statusChangeChan' \in 0 .. room /\ lastRead' \in Reports /\ reader' \in {"waiting", "told"}
  BY TypeOKParts, TypeOKNext DEF IInv, Receive, ReadStatus, statusVars, announceVars
<1>4. TypeOK'
  BY <1>1, <1>2, <1>3, TypeOKParts, TypeOKNext DEF IInv
<1>5. ReaderKnows'
  BY <1>2 DEF ReaderKnows, Receive, ReadStatus
<1>6. LoopEndsFirst' /\ CleaningInv'
  BY <1>1, <1>2 DEF IInv, LoopEndsFirst, CleaningInv, LoopIsDone
<1>7. QED
  BY <1>4, <1>5, <1>6 DEF IInv

LEMMA StutterInv ==
  ASSUME IInv, UNCHANGED allVars
  PROVE  IInv'
<1>1. ChecksOK' /\ OwnOK'
  BY NoMove, OwnUnchanged DEF IInv, allVars, vars
<1>2. TypeOK'
  BY <1>1, TypeOKParts, TypeOKNext DEF IInv, allVars, vars, statusVars, announceVars, closeVars, readerVars
<1>3. QED
  BY <1>2 DEF IInv, ReaderKnows, LoopEndsFirst, CleaningInv, LoopIsDone, allVars, vars,
     statusVars, announceVars, closeVars, readerVars, checkVars

\* The inductive invariant holds in every reachable state.
THEOREM Invariance == Spec => []IInv
<1>1. IInv /\ [Next]_allVars => IInv'
  BY StepKinds, WorksInv, LeavesInv, ClosesInv, ReaderInv, StutterInv DEF Next
<1>2. QED
  BY <1>1, InitInv, PTL DEF Spec

\* Type correctness of every polling checker: no channel ever holds more than it has room
\* for, and no check holds more than the three things it opens.
THEOREM TypeCorrect == Spec => []TypeOK
<1>1. IInv => TypeOK
  BY DEF IInv
<1>2. QED
  BY <1>1, Invariance, PTL

\* A reader that waits on an empty channel knows the stored status: the non-blocking send,
\* under one lock with the store, loses no change (postgres/checker.go:324-337).
THEOREM ReaderIsTold == Spec => []ReaderKnows
<1>1. IInv => ReaderKnows
  BY DEF IInv
<1>2. QED
  BY <1>1, Invariance, PTL

\* The status channel is closed only after the loop has left, and where Close waits for the
\* loop no check of the loop sees its client closed (rabbitmq/checker.go:175-193).
THEOREM ClosesAfterLoop == Spec => []LoopEndsFirst
<1>1. IInv => LoopEndsFirst
  BY DEF IInv
<1>2. QED
  BY <1>1, Invariance, PTL

-----------------------------------------------------------------------------
(* Refinement: each step is one step of the contract or is not seen by the service. *)

Pair(m, x, y) == [c \in 1 .. 2 |-> IF c = m THEN x ELSE y]

LEMMA PairIsAFunction ==
  ASSUME NEW m \in 1 .. 2, NEW x, NEW y, NEW z
  PROVE  Pair(m, x, y)[m] = x /\ [Pair(m, x, y) EXCEPT ![m] = z] = Pair(m, z, y)
BY DEF Pair

\* One of the two components has the room of the checker's channel.
LEMMA OneHasTheRoom ==
  ASSUME NEW r \in {1, 5}
  PROVE  \E m \in 1 .. 2 : Rooms[m] = r /\ \A c \in 1 .. 2 : Rooms[c] = r <=> c = m
BY DEF Rooms

\* The room of the one component.
IsMine(m) == m \in 1 .. 2 /\ Rooms[m] = room /\ \A c \in 1 .. 2 : Rooms[c] = room <=> c = m

LEMMA OwnIsMine ==
  ASSUME NEW m, IsMine(m), room' = room
  PROVE  \A c \in 1 .. 2 : (Own(c) <=> c = m) /\ (Own(c)' <=> c = m)
BY DEF IsMine, Own, Rooms

\* The five variables of the contract, as they are now and after a step.
LEMMA Mapped ==
  ASSUME TypeOK, NEW m, IsMine(m)
  PROVE  /\ [c \in 1 .. 2 |-> IF Own(c) THEN currentStatus.status ELSE "pass"]
              = Pair(m, currentStatus.status, "pass")
         /\ [c \in 1 .. 2 |-> IF Own(c) THEN statusChangeChan ELSE 0]
              = Pair(m, statusChangeChan, 0)
         /\ [c \in 1 .. 2 |-> Own(c) /\ Stopping] = Pair(m, Stopping, FALSE)
         /\ [c \in 1 .. 2 |-> Own(c) /\ channelClosed] = Pair(m, channelClosed, FALSE)
<1>1. channelClosed \in BOOLEAN /\ Stopping \in BOOLEAN
  BY TypeOKParts DEF Stopping
<1>2. \A c \in 1 .. 2 : Own(c) <=> c = m
  BY DEF IsMine, Own
<1>3. [c \in 1 .. 2 |-> IF Own(c) THEN currentStatus.status ELSE "pass"]
        = Pair(m, currentStatus.status, "pass")
  BY <1>2 DEF Pair
<1>4. [c \in 1 .. 2 |-> IF Own(c) THEN statusChangeChan ELSE 0]
        = Pair(m, statusChangeChan, 0)
  BY <1>2 DEF Pair
<1>5. [c \in 1 .. 2 |-> Own(c) /\ Stopping] = Pair(m, Stopping, FALSE)
  BY <1>1, <1>2, Zenon DEF Pair
<1>6. [c \in 1 .. 2 |-> Own(c) /\ channelClosed] = Pair(m, channelClosed, FALSE)
  BY <1>1, <1>2, Zenon DEF Pair
<1>7. QED
  BY <1>3, <1>4, <1>5, <1>6

LEMMA MappedNext ==
  ASSUME TypeOK', NEW m, IsMine(m), room' = room
  PROVE  /\ [c \in 1 .. 2 |-> IF Own(c) THEN currentStatus.status ELSE "pass"]'
              = Pair(m, currentStatus'.status, "pass")
         /\ [c \in 1 .. 2 |-> IF Own(c) THEN statusChangeChan ELSE 0]'
              = Pair(m, statusChangeChan', 0)
         /\ [c \in 1 .. 2 |-> Own(c) /\ Stopping]' = Pair(m, Stopping', FALSE)
         /\ [c \in 1 .. 2 |-> Own(c) /\ channelClosed]' = Pair(m, channelClosed', FALSE)
<1>1. channelClosed' \in BOOLEAN /\ Stopping' \in BOOLEAN
  BY DEF TypeOK, StateOK, Stopping
<1>2. \A c \in 1 .. 2 : Own(c)' <=> c = m
  BY OwnIsMine
<1>3. [c \in 1 .. 2 |-> IF Own(c) THEN currentStatus.status ELSE "pass"]'
        = Pair(m, currentStatus'.status, "pass")
  BY <1>2 DEF Pair
<1>4. [c \in 1 .. 2 |-> IF Own(c) THEN statusChangeChan ELSE 0]'
        = Pair(m, statusChangeChan', 0)
  BY <1>2 DEF Pair
<1>5. [c \in 1 .. 2 |-> Own(c) /\ Stopping]' = Pair(m, Stopping', FALSE)
  BY <1>1, <1>2, Zenon DEF Pair
<1>6. [c \in 1 .. 2 |-> Own(c) /\ channelClosed]' = Pair(m, channelClosed', FALSE)
  BY <1>1, <1>2, Zenon DEF Pair
<1>7. QED
  BY <1>3, <1>4, <1>5, <1>6

\* A status that is announced.
LEMMA RefinesAnnounce ==
  ASSUME TypeOK, TypeOK', NEW m, IsMine(m), NEW s \in Reports, Announce(s), ~channelClosed,
         UNCHANGED <<closeVars, room>>
  PROVE  Contract!StoreAndSend(m, s.status)
<1>1. /\ currentStatus'.status = s.status
      /\ statusChangeChan' = IF statusChangeChan < room THEN statusChangeChan + 1
                                                        ELSE statusChangeChan
      /\ Stopping' = Stopping /\ channelClosed' = channelClosed
  BY DEF Announce, closeVars, Stopping
<1>2. m \in 1 .. 2 /\ Rooms[m] = room /\ room' = room
  BY DEF IsMine
<1> DEFINE q == IF statusChangeChan < Rooms[m] THEN statusChangeChan + 1 ELSE statusChangeChan
<1>3. statusChangeChan' = q
  BY <1>1, <1>2
<1> HIDE DEF q
<1>4. [c \in 1 .. 2 |-> IF Own(c) THEN currentStatus.status ELSE "pass"]'
      = [[c \in 1 .. 2 |-> IF Own(c) THEN currentStatus.status ELSE "pass"] EXCEPT ![m] = s.status]
  <2>1. [Pair(m, currentStatus.status, "pass") EXCEPT ![m] = s.status]
        = Pair(m, s.status, "pass")
    BY <1>2, PairIsAFunction
  <2>2. [c \in 1 .. 2 |-> IF Own(c) THEN currentStatus.status ELSE "pass"]'
        = Pair(m, s.status, "pass")
    BY <1>1, <1>2, MappedNext, Zenon
  <2>3. QED
    BY <2>1, <2>2, Mapped, Zenon
<1>5. [c \in 1 .. 2 |-> IF Own(c) THEN statusChangeChan ELSE 0]'
      = [[c \in 1 .. 2 |-> IF Own(c) THEN statusChangeChan ELSE 0] EXCEPT
           ![m] = IF @ < Rooms[m] THEN @ + 1 ELSE @]
  <2>1. [Pair(m, statusChangeChan, 0) EXCEPT ![m] = IF @ < Rooms[m] THEN @ + 1 ELSE @]
        = Pair(m, q, 0)
    BY <1>2, PairIsAFunction DEF q
  <2>2. QED
    BY <1>2, <1>3, <2>1, Mapped, MappedNext
<1>6. /\ [c \in 1 .. 2 |-> Own(c) /\ Stopping]' = [c \in 1 .. 2 |-> Own(c) /\ Stopping]
      /\ [c \in 1 .. 2 |-> Own(c) /\ channelClosed]' = [c \in 1 .. 2 |-> Own(c) /\ channelClosed]
  BY <1>1, <1>2, Mapped, MappedNext
<1>7. [c \in 1 .. 2 |-> FALSE]' = [c \in 1 .. 2 |-> FALSE]
  OBVIOUS
<1>8. QED
  BY <1>4, <1>5, <1>6, <1>7 DEF Contract!StoreAndSend

\* The service sees neither the loop nor a check, nor what Close does after its first step.
LEMMA RefinesStutter ==
  ASSUME TypeOK, TypeOK', NEW m, IsMine(m),
         UNCHANGED <<currentStatus, statusChangeChan, room, channelClosed>>, Stopping' = Stopping
  PROVE  UNCHANGED Contract!contractVars
<1>1. /\ [c \in 1 .. 2 |-> IF Own(c) THEN currentStatus.status ELSE "pass"]'
         = [c \in 1 .. 2 |-> IF Own(c) THEN currentStatus.status ELSE "pass"]
      /\ [c \in 1 .. 2 |-> IF Own(c) THEN statusChangeChan ELSE 0]'
         = [c \in 1 .. 2 |-> IF Own(c) THEN statusChangeChan ELSE 0]
      /\ [c \in 1 .. 2 |-> Own(c) /\ Stopping]' = [c \in 1 .. 2 |-> Own(c) /\ Stopping]
      /\ [c \in 1 .. 2 |-> Own(c) /\ channelClosed]' = [c \in 1 .. 2 |-> Own(c) /\ channelClosed]
  BY Mapped, MappedNext
<1>2. [c \in 1 .. 2 |-> FALSE]' = [c \in 1 .. 2 |-> FALSE]
  OBVIOUS
<1>3. QED
  BY <1>1, <1>2 DEF Contract!contractVars

\* Close has begun.
LEMMA RefinesBegin ==
  ASSUME TypeOK, TypeOK', NEW m, IsMine(m), Stopping' = TRUE,
         UNCHANGED <<currentStatus, statusChangeChan, room, channelClosed>>
  PROVE  Contract!CloseComponent(m)
<1>1. m \in 1 .. 2
  BY DEF IsMine
<1>2. [c \in 1 .. 2 |-> Own(c) /\ Stopping]'
      = [[c \in 1 .. 2 |-> Own(c) /\ Stopping] EXCEPT ![m] = TRUE]
  <2>1. [Pair(m, Stopping, FALSE) EXCEPT ![m] = TRUE] = Pair(m, TRUE, FALSE)
    BY <1>1 DEF Pair
  <2>2. [c \in 1 .. 2 |-> Own(c) /\ Stopping]' = Pair(m, TRUE, FALSE)
    BY <1>1, MappedNext
  <2>3. QED
    BY <2>1, <2>2, Mapped, Zenon
<1>3. /\ [c \in 1 .. 2 |-> IF Own(c) THEN currentStatus.status ELSE "pass"]'
         = [c \in 1 .. 2 |-> IF Own(c) THEN currentStatus.status ELSE "pass"]
      /\ [c \in 1 .. 2 |-> IF Own(c) THEN statusChangeChan ELSE 0]'
         = [c \in 1 .. 2 |-> IF Own(c) THEN statusChangeChan ELSE 0]
      /\ [c \in 1 .. 2 |-> Own(c) /\ channelClosed]' = [c \in 1 .. 2 |-> Own(c) /\ channelClosed]
  BY Mapped, MappedNext
<1>4. [c \in 1 .. 2 |-> FALSE]' = [c \in 1 .. 2 |-> FALSE]
  OBVIOUS
<1>5. QED
  BY <1>2, <1>3, <1>4 DEF Contract!CloseComponent

\* The checker closes its channel, which it does only while it is being closed.
LEMMA RefinesCloseChannel ==
  ASSUME TypeOK, TypeOK', NEW m, IsMine(m), Stopping = TRUE, Stopping' = TRUE,
         channelClosed' = TRUE, UNCHANGED <<currentStatus, statusChangeChan, room>>
  PROVE  Contract!CloseChannel(m)
<1>1. m \in 1 .. 2
  BY DEF IsMine
<1>2. [c \in 1 .. 2 |-> Own(c) /\ channelClosed]'
      = [[c \in 1 .. 2 |-> Own(c) /\ channelClosed] EXCEPT ![m] = TRUE]
  <2>1. [Pair(m, channelClosed, FALSE) EXCEPT ![m] = TRUE] = Pair(m, TRUE, FALSE)
    BY <1>1 DEF Pair
  <2>2. [c \in 1 .. 2 |-> Own(c) /\ channelClosed]' = Pair(m, TRUE, FALSE)
    BY <1>1, MappedNext
  <2>3. QED
    BY <2>1, <2>2, Mapped, Zenon
<1>3. /\ [c \in 1 .. 2 |-> IF Own(c) THEN currentStatus.status ELSE "pass"]'
         = [c \in 1 .. 2 |-> IF Own(c) THEN currentStatus.status ELSE "pass"]
      /\ [c \in 1 .. 2 |-> IF Own(c) THEN statusChangeChan ELSE 0]'
         = [c \in 1 .. 2 |-> IF Own(c) THEN statusChangeChan ELSE 0]
      /\ [c \in 1 .. 2 |-> Own(c) /\ Stopping]' = [c \in 1 .. 2 |-> Own(c) /\ Stopping]
  BY Mapped, MappedNext
<1>4. [c \in 1 .. 2 |-> FALSE]' = [c \in 1 .. 2 |-> FALSE]
  OBVIOUS
<1>5. [c \in 1 .. 2 |-> Own(c) /\ Stopping][m]
  BY <1>1, Mapped, PairIsAFunction
<1>6. QED
  BY <1>2, <1>3, <1>4, <1>5 DEF Contract!CloseChannel

\* The reader takes a value, or is told that the channel is closed.
LEMMA RefinesReceive ==
  ASSUME TypeOK, TypeOK', NEW m, IsMine(m), Receive, room' = room
  PROVE  Contract!Receive(m)
<1>1. m \in 1 .. 2
  BY DEF IsMine
<1>2. /\ currentStatus' = currentStatus /\ Stopping' = Stopping /\ channelClosed' = channelClosed
      /\ statusChangeChan > 0 \/ channelClosed
  BY DEF Receive, closeVars, Stopping
<1> DEFINE q == IF statusChangeChan > 0 THEN statusChangeChan - 1 ELSE statusChangeChan
<1>3. statusChangeChan' = q
  <2>1. statusChangeChan \in Nat
    BY DEF TypeOK, StateOK
  <2>2. QED
    BY <2>1 DEF Receive
<1>4. [c \in 1 .. 2 |-> IF Own(c) THEN statusChangeChan ELSE 0]'
      = [[c \in 1 .. 2 |-> IF Own(c) THEN statusChangeChan ELSE 0] EXCEPT
           ![m] = IF @ > 0 THEN @ - 1 ELSE @]
  <2>1. [Pair(m, statusChangeChan, 0) EXCEPT ![m] = IF @ > 0 THEN @ - 1 ELSE @] = Pair(m, q, 0)
    BY <1>1, PairIsAFunction
  <2> HIDE DEF q
  <2>2. QED
    BY <1>1, <1>3, <2>1, Mapped, MappedNext
<1>5. /\ [c \in 1 .. 2 |-> IF Own(c) THEN currentStatus.status ELSE "pass"]'
         = [c \in 1 .. 2 |-> IF Own(c) THEN currentStatus.status ELSE "pass"]
      /\ [c \in 1 .. 2 |-> Own(c) /\ Stopping]' = [c \in 1 .. 2 |-> Own(c) /\ Stopping]
      /\ [c \in 1 .. 2 |-> Own(c) /\ channelClosed]' = [c \in 1 .. 2 |-> Own(c) /\ channelClosed]
  BY <1>2, Mapped, MappedNext
<1>6. [c \in 1 .. 2 |-> FALSE]' = [c \in 1 .. 2 |-> FALSE]
  OBVIOUS
<1>7. \/ [c \in 1 .. 2 |-> IF Own(c) THEN statusChangeChan ELSE 0][m] > 0
      \/ [c \in 1 .. 2 |-> Own(c) /\ channelClosed][m]
  <2>1. Pair(m, statusChangeChan, 0)[m] = statusChangeChan
        /\ Pair(m, channelClosed, FALSE)[m] = channelClosed
    BY <1>1, PairIsAFunction
  <2>2. CASE statusChangeChan > 0
    BY <2>1, <2>2, Mapped
  <2>3. CASE channelClosed
    BY <2>1, <2>3, Mapped, Zenon
  <2>4. QED
    BY <1>2, <2>2, <2>3
<1>8. QED
  BY <1>4, <1>5, <1>6, <1>7 DEF Contract!Receive

LEMMA RefinesInit == Init => Contract!ContractInit
<1> SUFFICES ASSUME Init PROVE Contract!ContractInit
  OBVIOUS
<1>1. TypeOK
  BY InitInv DEF IInv
<1>2. currentStatus.status \in {"pass", "warn", "fail"}
  BY <1>1, TypeOKParts DEF Reports
<1>3. PICK made \in BOOLEAN, first \in {"check", "start", "select"}, cap \in {1, 5} :
         Created(made, first, cap)
  BY DEF Init, PostgresInit, RedisInit, MongoDBInit, S3Init, SolaceInit, RabbitMQInit,
     SQLServerInit
<1>4. statusChangeChan = 0 /\ channelClosed = FALSE /\ Stopping = FALSE
  BY <1>3 DEF Created, Stopping
<1>5. [c \in 1 .. 2 |-> IF Own(c) THEN currentStatus.status ELSE "pass"]
        \in [1 .. 2 -> {"pass", "warn", "fail"}]
  BY <1>2
<1>6. [c \in 1 .. 2 |-> IF Own(c) THEN statusChangeChan ELSE 0] = [c \in 1 .. 2 |-> 0]
  BY <1>4
<1>7. /\ [c \in 1 .. 2 |-> Own(c) /\ Stopping] = [c \in 1 .. 2 |-> FALSE]
      /\ [c \in 1 .. 2 |-> Own(c) /\ channelClosed] = [c \in 1 .. 2 |-> FALSE]
  BY <1>4, Zenon
<1>8. QED
  BY <1>5, <1>6, <1>7 DEF Contract!ContractInit, Contract!Components

LEMMA RefinesWorks ==
  ASSUME IInv, IInv', NEW m, IsMine(m), Works
  PROVE  \/ \E s \in {"pass", "warn", "fail"} : Contract!StoreAndSend(m, s)
         \/ UNCHANGED Contract!contractVars
<1>1. /\ TypeOK /\ TypeOK' /\ Announces /\ UNCHANGED <<closeVars, room>>
      /\ Stopping' = Stopping /\ channelClosed' = channelClosed /\ room' = room
  BY DEF IInv, Works, Acts, closeVars, Stopping
<1>2. CASE UNCHANGED <<currentStatus, statusChangeChan>>
  BY <1>1, <1>2, RefinesStutter
<1>3. ASSUME NEW s \in Reports, Announce(s)
      PROVE  \/ \E t \in {"pass", "warn", "fail"} : Contract!StoreAndSend(m, t)
             \/ UNCHANGED Contract!contractVars
  <2>1. CASE channelClosed
    <3>1. UNCHANGED <<currentStatus, statusChangeChan>>
      BY <1>3, <2>1 DEF Announce, Panic
    <3>2. QED
      BY <1>2, <3>1
  <2>2. CASE ~channelClosed
    <3>1. Contract!StoreAndSend(m, s.status)
      BY <1>1, <1>3, <2>2, RefinesAnnounce
    <3>2. s.status \in {"pass", "warn", "fail"}
      BY DEF Reports
    <3>3. QED
      BY <3>1, <3>2
  <2>3. QED
    BY <2>1, <2>2
<1>4. QED
  BY <1>1, <1>2, <1>3 DEF Announces

\* A loop that leaves finds the channel open, and may close it.
LEMMA RefinesLeaves ==
  ASSUME IInv, IInv', NEW m, IsMine(m), Leaves, room' = room
  PROVE  Contract!CloseChannel(m) \/ UNCHANGED Contract!contractVars
<1>1. /\ TypeOK /\ TypeOK' /\ Stopping = TRUE /\ Stopping' = TRUE /\ channelClosed = FALSE
      /\ UNCHANGED <<currentStatus, statusChangeChan>> /\ channelClosed' \in BOOLEAN
  BY TypeOKParts DEF IInv, LoopEndsFirst, Leaves, Stopping, statusVars, announceVars
<1>2. CASE channelClosed' = TRUE
  BY <1>1, <1>2, RefinesCloseChannel
<1>3. CASE channelClosed' = FALSE
  BY <1>1, <1>3, RefinesStutter
<1>4. QED
  BY <1>1, <1>2, <1>3

LEMMA RefinesCloses ==
  ASSUME IInv, IInv', NEW m, IsMine(m), Closes
  PROVE  \/ Contract!CloseComponent(m)
         \/ Contract!CloseChannel(m)
         \/ UNCHANGED Contract!contractVars
<1>1. /\ TypeOK /\ TypeOK' /\ UNCHANGED <<currentStatus, statusChangeChan, room>>
      /\ Stopping' = TRUE
  BY DEF IInv, Closes, Stopping, statusVars, announceVars
<1>2. CASE closer = "open"
  <2>1. channelClosed' = channelClosed
    BY <1>2 DEF Closes
  <2>2. QED
    BY <1>1, <2>1, RefinesBegin
<1>3. CASE closer = "waiting" /\ channelClosed' = TRUE
  <2>1. Stopping = TRUE
    BY <1>3 DEF Stopping
  <2>2. QED
    BY <1>1, <1>3, <2>1, RefinesCloseChannel
<1>4. CASE closer # "open" /\ channelClosed' = channelClosed
  <2>1. Stopping' = Stopping
    BY <1>1, <1>4 DEF Stopping
  <2>2. QED
    BY <1>1, <1>4, <2>1, RefinesStutter
<1>5. QED
  BY <1>2, <1>3, <1>4 DEF Closes

LEMMA RefinesNext ==
  IInv /\ IInv' /\ [Next]_allVars => [Contract!ContractNext]_(Contract!contractVars)
<1> SUFFICES ASSUME IInv, IInv', [Next]_allVars
             PROVE  Contract!ContractNext \/ UNCHANGED Contract!contractVars
  OBVIOUS
<1>1. PICK m \in 1 .. 2 : IsMine(m)
  BY OneHasTheRoom, TypeOKParts DEF IInv, IsMine
<1>2. m \in Contract!Components
  BY <1>1 DEF Contract!Components
<1>3. TypeOK /\ TypeOK'
  BY DEF IInv
<1>4. CASE Works
  BY <1>1, <1>2, <1>4, RefinesWorks DEF Contract!ContractNext, Contract!ComponentStep
<1>5. CASE Leaves /\ room' = room
  BY <1>1, <1>2, <1>5, RefinesLeaves DEF Contract!ContractNext, Contract!ComponentStep
<1>6. CASE Closes
  BY <1>1, <1>2, <1>6, RefinesCloses DEF Contract!ContractNext, Contract!ComponentStep
<1>7. CASE Receive /\ room' = room
  BY <1>1, <1>2, <1>3, <1>7, RefinesReceive DEF Contract!ContractNext
<1>8. CASE ReadStatus /\ room' = room
  <2>1. UNCHANGED <<currentStatus, statusChangeChan, room, channelClosed>> /\ Stopping' = Stopping
    BY <1>8 DEF ReadStatus, statusVars, announceVars, closeVars, Stopping
  <2>2. QED
    BY <1>1, <1>3, <2>1, RefinesStutter
<1>9. CASE UNCHANGED allVars
  <2>1. UNCHANGED <<currentStatus, statusChangeChan, room, channelClosed>> /\ Stopping' = Stopping
    BY <1>9 DEF allVars, vars, statusVars, announceVars, closeVars, Stopping
  <2>2. QED
    BY <1>1, <1>3, <2>1, RefinesStutter
<1>10. QED
  BY <1>4, <1>5, <1>6, <1>7, <1>8, <1>9, StepKinds DEF Next

\* Every polling checker keeps the promise the service is proved from.
THEOREM Implements == Spec => ImplementsContract
<1>1. Spec => []IInv
  BY Invariance
<1>2. QED
  BY <1>1, RefinesInit, RefinesNext, PTL DEF Spec, ImplementsContract, Contract!ContractSpec
=============================================================================
