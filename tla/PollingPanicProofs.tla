-------------------------- MODULE PollingPanicProofs -------------------------
(***************************************************************************)
(* What can end the process, and what a check leaves open, for each of the *)
(* seven polling checkers and any number of goroutines that Enable starts. *)
(* The invariant of PollingProofs is strengthened by who may find the      *)
(* channels closed and by where a goroutine may be that holds something.   *)
(***************************************************************************)
EXTENDS PollingProofs

\* The two checkers that close their channels, once Close has begun.
Closing == checker \in {"rabbitmq", "sqlserver"} /\ Stopping

ChannelInv == channelClosed => Closing

TriggerInv == triggerCheck = "closed" => checker = "rabbitmq" /\ Stopping

\* These two make all checks in the loop.
OneLoopInv == checker \in {"rabbitmq", "sqlserver"} => \A k \in Checks : pc[k] = "idle"

\* What has been opened is held by a check that is still to close it.
Holds(g) ==
  held[g] > 0 => /\ checker \in {"solace", "rabbitmq"}
                 /\ pc[g] \in {"answer", "receive", "update", "release"}

\* Where a goroutine rests nothing that its check has opened is open: the deferred calls
\* have closed it, whatever step of the check has failed (solace/checker.go:338-379).
OnlyChecksHold == \A g \in Checkers : Holds(g)

\* The process ends only where a configuration is missing, or with a Close under way.
PanicInv == panicked => (checker = "s3" /\ config = "nil") \/ Closing

PInv == IInv /\ ChannelInv /\ TriggerInv /\ OneLoopInv /\ OnlyChecksHold /\ PanicInv

NilConfig == checker = "s3" /\ \E g \in Checkers : BucketName(g)

\* A call of the application that meets a channel which Close has closed, or the check of
\* an S3 checker that has no configuration: nothing else panics, and so no check of a loop.
PanicExplained == panicked' => panicked \/ NilConfig \/ (Closing /\ Application)

\* A step of the goroutine g's check.
OthersStay(g) == \A h \in Checkers \ {g} : pc'[h] = pc[h] /\ held'[h] = held[h]

GoesOn(g) ==
  /\ pc[g] # "idle"
  /\ OthersStay(g)
  /\ Holds(g)'
  /\ panicked' = panicked

-----------------------------------------------------------------------------
\* The checks.

LEMMA CheckersParts ==
  /\ Loop \in Checkers
  /\ \A k \in Checks : k \in Checkers /\ k # Loop
  /\ \A g \in Checkers : g = Loop \/ g \in Checks
BY GoroutinesAssumption DEF Checkers

\* A goroutine that holds nothing goes anywhere; one that is checking goes on.
LEMMA MoveGoesOn ==
  ASSUME ChecksOK, NEW g \in Checkers, Holds(g), checker' = checker,
         NEW place, Goto(g, place), held' = held, panicked' = panicked, pc[g] # "idle",
         \/ held[g] = 0
         \/ place \in {"answer", "receive", "update", "release"}
  PROVE  GoesOn(g)
BY DEF ChecksOK, Goto, Holds, OthersStay, GoesOn

LEMMA GateGoesOn ==
  ASSUME PInv, NEW g \in Checkers, Gate(g) \/ Query(g), checker' = checker
  PROVE  GoesOn(g)
<1>1. /\ ChecksOK /\ Holds(g) /\ pc[g] \in {"check", "query"}
      /\ held' = held /\ panicked' = panicked
  BY TypeOKParts DEF PInv, IInv, OnlyChecksHold, Gate, Query, statusVars, announceVars
<1>2. held[g] = 0
  BY <1>1 DEF ChecksOK, Holds
<1>3. \E place : Goto(g, place)
  BY DEF Gate, Query, Ends
<1>4. QED
  BY <1>1, <1>2, <1>3, MoveGoesOn

LEMMA AnswerGoesOn ==
  ASSUME PInv, NEW g \in Checkers, NEW answers, Answer(g, answers), checker' = checker
  PROVE  GoesOn(g)
<1>1. /\ ChecksOK /\ Holds(g) /\ pc[g] = "answer" /\ Goto(g, "update")
      /\ held' = held /\ panicked' = panicked
  BY TypeOKParts DEF PInv, IInv, OnlyChecksHold, Answer, Ends, statusVars, announceVars
<1>2. QED
  BY <1>1, MoveGoesOn

\* The loop finds its channel open, and the channel of the other checkers is never closed.
LEMMA ChannelIsOpen ==
  ASSUME PInv, NEW g \in Checkers, pc[g] \notin {"idle", "exited"}
  PROVE  ~channelClosed
<1>1. CASE g = Loop
  BY <1>1 DEF PInv, IInv, LoopEndsFirst
<1>2. CASE g \in Checks
  BY <1>2 DEF PInv, ChannelInv, OneLoopInv, Closing
<1>3. QED
  BY <1>1, <1>2, CheckersParts

LEMMA StoreResultGoesOn ==
  ASSUME PInv, NEW g \in Checkers, StoreResult(g), checker' = checker
  PROVE  GoesOn(g)
<1>1. ChecksOK /\ Holds(g) /\ pc[g] = "update" /\ held' = held
  BY TypeOKParts DEF PInv, IInv, OnlyChecksHold, StoreResult
<1>2. panicked' = panicked
  BY <1>1, ChannelIsOpen DEF StoreResult, UpdateStatus, Announce, announceVars
<1>3. CASE held[g] > 0
  BY <1>1, <1>2, <1>3, MoveGoesOn DEF StoreResult
<1>4. CASE ~(held[g] > 0)
  <2>1. held[g] = 0
    BY <1>1, <1>4 DEF ChecksOK
  <2>2. QED
    BY <1>1, <1>2, <2>1, MoveGoesOn DEF StoreResult
<1>5. QED
  BY <1>3, <1>4

LEMMA ReleaseGoesOn ==
  ASSUME PInv, NEW g \in Checkers, Release(g), checker' = checker
  PROVE  GoesOn(g)
<1>1. ChecksOK /\ pc[g] = "release" /\ panicked' = panicked
  BY TypeOKParts DEF PInv, IInv, Release, statusVars, announceVars
<1>2. held'[g] = 0 /\ OthersStay(g)
  BY <1>1 DEF Release, Goto, ChecksOK, OthersStay
<1>3. QED
  BY <1>1, <1>2 DEF GoesOn, Holds

LEMMA SolaceGoesOn ==
  ASSUME PInv, NEW g \in Checkers, checker = "solace", checker' = checker,
         SolaceOpen(g) \/ SolaceSend(g) \/ SolaceReceive(g) \/ SolaceFails(g)
  PROVE  GoesOn(g)
<1>1. ChecksOK /\ Holds(g) /\ panicked' = panicked /\ pc[g] \in {"answer", "receive"}
  BY TypeOKParts DEF PInv, IInv, OnlyChecksHold, SolaceOpen, SolaceSend, SolaceReceive,
     SolaceFails, statusVars, announceVars
<1>2. CASE SolaceOpen(g)
  BY <1>1, <1>2 DEF SolaceOpen, ChecksOK, OthersStay, GoesOn, Holds
<1>3. CASE SolaceSend(g)
  BY <1>1, <1>3, MoveGoesOn DEF SolaceSend
<1>4. CASE SolaceReceive(g) \/ SolaceFails(g)
  BY <1>1, <1>4, MoveGoesOn DEF SolaceReceive, SolaceFails, Ends
<1>5. QED
  BY <1>2, <1>3, <1>4

LEMMA RabbitMQGoesOn ==
  ASSUME PInv, NEW g \in Checkers, checker = "rabbitmq", checker' = checker,
         NotConnected(g) \/ OpenChannel(g) \/ NoChannel(g)
  PROVE  GoesOn(g)
<1>1. ChecksOK /\ Holds(g) /\ panicked' = panicked /\ pc[g] = "query"
  BY TypeOKParts DEF PInv, IInv, OnlyChecksHold, NotConnected, OpenChannel, NoChannel,
     statusVars, announceVars
<1>2. CASE NotConnected(g) \/ NoChannel(g)
  BY <1>1, <1>2, MoveGoesOn DEF NotConnected, NoChannel, Ends
<1>3. CASE OpenChannel(g)
  BY <1>1, <1>3 DEF OpenChannel, Goto, ChecksOK, OthersStay, GoesOn, Holds
<1>4. QED
  BY <1>2, <1>3

\* The SQL Server checker opens nothing, so that its loop goes where it likes.
LEMMA SQLServerGoesOn ==
  ASSUME PInv, checker = "sqlserver", checker' = checker, SQLServerCheck
  PROVE  GoesOn(Loop)
<1>1. ChecksOK /\ Loop \in Checkers /\ Holds(Loop) /\ held[Loop] = 0
  BY TypeOKParts, CheckersParts DEF PInv, IInv, OnlyChecksHold, Holds, ChecksOK
<1>2. CASE StoreResult(Loop)
  BY <1>1, <1>2, StoreResultGoesOn
<1>3. CASE SQLServerGate \/ StartQuery \/ ReceiveResult \/ QueryTimesOut \/ TestContext
  <2>1. /\ pc[Loop] # "idle" /\ held' = held /\ panicked' = panicked
        /\ \E place : Goto(Loop, place)
    BY <1>3 DEF SQLServerGate, StartQuery, ReceiveResult, QueryTimesOut, Outcome,
       TestContext, statusVars, announceVars
  <2>2. QED
    BY <1>1, <2>1, MoveGoesOn
<1>4. QED
  BY <1>2, <1>3 DEF SQLServerCheck

LEMMA ChecksGoOn ==
  ASSUME PInv, NEW g \in Checkers, PerformHealthCheck(g), checker' = checker
  PROVE  \/ GoesOn(g)
         \/ NilConfig /\ UNCHANGED <<pc, held>>
<1>1. CASE checker \in {"postgres", "redis", "mongodb", "s3"}
  <2>1. \/ Check(g, PostgresAnswers) \/ Check(g, RedisAnswers) \/ Check(g, MongoDBAnswers)
        \/ Check(g, S3Answers) \/ (checker = "s3" /\ BucketName(g))
    BY <1>1 DEF PerformHealthCheck, PostgresCheck, RedisCheck, MongoDBCheck, S3Check
  <2>2. CASE checker = "s3" /\ BucketName(g)
    BY <2>2 DEF NilConfig, BucketName, checkVars
  <2>3. CASE Gate(g) \/ Query(g) \/ StoreResult(g) \/ \E answers : Answer(g, answers)
    BY <2>3, GateGoesOn, StoreResultGoesOn, AnswerGoesOn
  <2>4. QED
    BY <2>1, <2>2, <2>3 DEF Check
<1>2. CASE checker = "solace"
  BY <1>2, GateGoesOn, SolaceGoesOn, StoreResultGoesOn, ReleaseGoesOn DEF PerformHealthCheck, SolaceCheck
<1>3. CASE checker = "rabbitmq"
  BY <1>3, GateGoesOn, RabbitMQGoesOn, AnswerGoesOn, StoreResultGoesOn, ReleaseGoesOn
     DEF PerformHealthCheck, RabbitMQCheck
<1>4. CASE checker = "sqlserver"
  BY <1>4, SQLServerGoesOn DEF PerformHealthCheck
<1>5. QED
  BY <1>1, <1>2, <1>3, <1>4 DEF PerformHealthCheck

-----------------------------------------------------------------------------
\* The loop, the application, Close and the reader.

\* Nothing is opened or closed by a goroutine that goes elsewhere, holding nothing.
LEMMA LoopGoesOn ==
  ASSUME PInv, HealthCheckLoop, checker' = checker
  PROVE  /\ GoesOn(Loop)
         /\ closer' = closer
         /\ channelClosed' = channelClosed \/ ~channelClosed' \/ Closing
         /\ triggerCheck' = "closed" => triggerCheck = "closed"
<1>1. ChecksOK /\ Loop \in Checkers /\ Holds(Loop)
  BY TypeOKParts, CheckersParts DEF PInv, IInv, OnlyChecksHold
<1>2. /\ pc[Loop] \in {"start", "select"} /\ held' = held /\ panicked' = panicked
      /\ \E place : Goto(Loop, place)
      /\ closer' = closer
      /\ channelClosed' = channelClosed \/ ~channelClosed' \/ Closing
      /\ triggerCheck' = "closed" => triggerCheck = "closed"
  <2>1. CASE checker \notin {"rabbitmq", "sqlserver"}
    <3>1. /\ Tick("check") \/ LoopExit("closed", FALSE) \/ LoopExit(client, FALSE)
          /\ triggerCheck' = triggerCheck
      BY <2>1 DEF HealthCheckLoop, PostgresLoop, RedisLoop, MongoDBLoop, S3Loop, SolaceLoop,
         ownVars
    <3>2. QED
      BY <3>1 DEF Tick, LoopExit, Exit, statusVars, announceVars, closeVars
  <2>2. CASE checker = "rabbitmq"
    <3>1. RabbitMQLoop
      BY <2>2 DEF HealthCheckLoop
    <3>2. CASE Tick("start") /\ UNCHANGED triggerCheck
      BY <3>2 DEF Tick, statusVars, announceVars, closeVars
    <3>3. CASE StartCheck /\ UNCHANGED triggerCheck
      BY <3>3 DEF StartCheck, statusVars, announceVars, closeVars
    <3>4. CASE Triggered
      BY <3>4, TypeOKParts DEF Triggered, statusVars, announceVars, closeVars, PInv, IInv,
         OwnOK, RabbitMQTypeOK
    <3>5. CASE (LeaveAtStart \/ LoopExit(client, FALSE)) /\ UNCHANGED triggerCheck
      BY <3>5 DEF LeaveAtStart, LoopExit, Exit, statusVars, announceVars
    <3>6. QED
      BY <3>1, <3>2, <3>3, <3>4, <3>5 DEF RabbitMQLoop
  <2>3. CASE checker = "sqlserver"
    <3>1. /\ Tick("start") \/ LeaveAtTick \/ LoopExit("closed", TRUE)
          /\ triggerCheck' = triggerCheck
      BY <2>3 DEF HealthCheckLoop, SQLServerLoop
    <3>2. QED
      BY <2>3, <3>1 DEF Tick, LeaveAtTick, LoopExit, Exit, statusVars, announceVars,
         closeVars, Closing
  <2>4. QED
    BY <2>1, <2>2, <2>3
<1>3. held[Loop] = 0
  BY <1>1, <1>2 DEF ChecksOK, Holds
<1>4. QED
  BY <1>1, <1>2, <1>3, MoveGoesOn

\* A call panics on a closed channel, and starts a check only in the five checkers whose
\* Enable makes one at once.
LEMMA CallsExplained ==
  ASSUME PInv, Application, checker' = checker
  PROVE  /\ panicked' = panicked \/ Closing
         /\ held' = held
         /\ triggerCheck' = "closed" => triggerCheck = "closed"
         /\ \/ pc' = pc
            \/ /\ checker \notin {"rabbitmq", "sqlserver"}
               /\ \E k \in Checks : pc[k] = "idle" /\ Goto(k, "check")
<1>1. ASSUME NEW s, Announce(s) \/ UpdateStatus(s)
      PROVE  panicked' = panicked \/ Closing
  BY <1>1 DEF Announce, UpdateStatus, announceVars, PInv, ChannelInv
<1>2. ASSUME ChangeStatus \/ Disable
      PROVE  (panicked' = panicked \/ Closing) /\ held' = held /\ pc' = pc
  BY <1>1, <1>2 DEF ChangeStatus, Disable, checkVars
<1>3. CASE checker \notin {"rabbitmq", "sqlserver"}
  <2>1. Calls /\ triggerCheck' = triggerCheck
    BY <1>3 DEF Application, SolaceCalls, ownVars
  <2>2. CASE Enable
    BY <1>1, <1>3, <2>1, <2>2 DEF Enable, Reenable
  <2>3. QED
    BY <1>2, <2>1, <2>2 DEF Calls
<1>4. CASE checker = "rabbitmq"
  <2>1. RabbitMQCalls
    BY <1>4 DEF Application
  <2>2. CASE RabbitMQEnable
    <3>1. panicked' = panicked \/ Closing
      <4>1. CASE triggerCheck = "closed"
        BY <4>1 DEF PInv, TriggerInv, Closing
      <4>2. CASE triggerCheck # "closed"
        BY <1>1, <2>2, <4>2 DEF RabbitMQEnable, Reenable
      <4>3. QED
        BY <4>1, <4>2
    <3>2. QED
      BY <2>2, <3>1 DEF RabbitMQEnable, checkVars
  <2>3. QED
    BY <1>2, <2>1, <2>2 DEF RabbitMQCalls
<1>5. CASE checker = "sqlserver"
  <2>1. SQLServerCalls /\ triggerCheck' = triggerCheck
    BY <1>5 DEF Application
  <2>2. CASE BeginChangeStatus
    BY <2>1, <2>2 DEF BeginChangeStatus, vars, statusVars, announceVars, checkVars
  <2>3. CASE EndChangeStatus
    BY <1>1, <2>1, <2>3 DEF EndChangeStatus, checkVars
  <2>4. CASE SQLServerEnable
    BY <1>1, <2>1, <2>4 DEF SQLServerEnable, Reenable, checkVars
  <2>5. QED
    BY <1>2, <2>1, <2>2, <2>3, <2>4 DEF SQLServerCalls
<1>6. QED
  BY <1>3, <1>4, <1>5

\* What Close closes, it closes after it has begun.
LEMMA CloseExplained ==
  ASSUME Close, checker' = checker
  PROVE  /\ closer' # "open"
         /\ channelClosed' = channelClosed \/ checker = "rabbitmq"
         /\ triggerCheck' = triggerCheck \/ checker = "rabbitmq"
         /\ UNCHANGED <<panicked, pc, held>>
<1>1. CASE checker \notin {"rabbitmq", "sqlserver"}
  <2>1. /\ BeginClose(TRUE) \/ BeginClose(FALSE) \/ EndClose(Closed) \/ EndClose(client)
        /\ triggerCheck' = triggerCheck
    BY <1>1 DEF Close, PostgresClose, RedisClose, MongoDBClose, S3Close, SolaceClose, ownVars
  <2>2. QED
    BY <2>1 DEF BeginClose, EndClose, statusVars, announceVars, checkVars
<1>2. CASE checker = "rabbitmq"
  <2>1. RabbitMQClose
    BY <1>2 DEF Close
  <2>2. QED
    BY <1>2, <2>1 DEF RabbitMQClose, BeginClose, CloseTrigger, CloseChannel, EndClose,
       statusVars, announceVars, checkVars
<1>3. CASE checker = "sqlserver"
  <2>1. SQLServerClose /\ triggerCheck' = triggerCheck
    BY <1>3 DEF Close
  <2>2. QED
    BY <2>1 DEF SQLServerClose, BeginClose, EndClose, statusVars, announceVars, checkVars
<1>4. QED
  BY <1>1, <1>2, <1>3 DEF Close

-----------------------------------------------------------------------------
\* The invariant.

LEMMA InitPInv == Init => PInv
<1> SUFFICES ASSUME Init PROVE PInv
  OBVIOUS
<1>1. \E made \in BOOLEAN : \E first \in {"check", "start", "select"} : \E cap \in {1, 5} :
         Created(made, first, cap)
  BY DEF Init, PostgresInit, RedisInit, MongoDBInit, S3Init, SolaceInit, RabbitMQInit,
     SQLServerInit
<1>2. /\ channelClosed = FALSE /\ panicked = FALSE
      /\ \A g \in Checkers : held[g] = 0
      /\ \A k \in Checks : pc[k] = "idle"
  BY <1>1, CheckersParts DEF Created
<1>3. triggerCheck = "empty"
  BY DEF Init, RabbitMQInit
<1>4. QED
  BY <1>2, <1>3, InitInv DEF PInv, ChannelInv, TriggerInv, OneLoopInv, OnlyChecksHold, Holds,
     PanicInv

\* A goroutine that goes on leaves the others where they are.
LEMMA GoesOnInv ==
  ASSUME PInv, NEW g \in Checkers, GoesOn(g), checker' = checker
  PROVE  OneLoopInv' /\ OnlyChecksHold'
<1>1. OneLoopInv'
  BY CheckersParts DEF PInv, OneLoopInv, GoesOn, OthersStay
<1>2. OnlyChecksHold'
  BY DEF PInv, OnlyChecksHold, Holds, GoesOn, OthersStay
<1>3. QED
  BY <1>1, <1>2

LEMMA RestInv ==
  ASSUME PInv, UNCHANGED <<pc, held, checker>>
  PROVE  OneLoopInv' /\ OnlyChecksHold'
BY DEF PInv, OneLoopInv, OnlyChecksHold, Holds

\* A step that leaves the channels and Close alone.
LEMMA ChannelsRest ==
  ASSUME PInv, UNCHANGED <<closer, checker, config>>,
         channelClosed' = channelClosed \/ ~channelClosed' \/ Closing,
         triggerCheck' = "closed" => triggerCheck = "closed",
         panicked' => panicked \/ NilConfig \/ Closing
  PROVE  ChannelInv' /\ TriggerInv' /\ PanicInv'
<1>1. NilConfig => checker = "s3" /\ config = "nil"
  BY DEF NilConfig, BucketName
<1>2. Closing' <=> Closing
  BY DEF Closing, Stopping
<1>3. QED
  BY <1>1, <1>2 DEF PInv, ChannelInv, TriggerInv, PanicInv, Stopping

LEMMA WorksLeavesClose ==
  ASSUME Works
  PROVE  UNCHANGED <<closer, channelClosed>>
BY DEF Works, Acts, closeVars

LEMMA StepPInv ==
  ASSUME PInv, Step
  PROVE  ChannelInv' /\ TriggerInv' /\ OneLoopInv' /\ OnlyChecksHold' /\ PanicInv'
<1>1. UNCHANGED <<room, config, checker>> /\ TypeOK
  BY DEF Step, PInv, IInv
<1>2. CASE HealthCheckLoop
  BY <1>1, <1>2, LoopGoesOn, GoesOnInv, ChannelsRest, CheckersParts DEF GoesOn
<1>3. ASSUME NEW g \in Checkers, PerformHealthCheck(g)
      PROVE  ChannelInv' /\ TriggerInv' /\ OneLoopInv' /\ OnlyChecksHold' /\ PanicInv'
  <2>1. UNCHANGED <<closer, channelClosed>>
    BY <1>1, <1>3, ChecksWork, WorksLeavesClose
  <2>2. triggerCheck' = triggerCheck
    BY <1>3 DEF PerformHealthCheck, ownVars
  <2>3. GoesOn(g) \/ (NilConfig /\ UNCHANGED <<pc, held>>)
    BY <1>1, <1>3, ChecksGoOn
  <2>4. OneLoopInv' /\ OnlyChecksHold'
    BY <1>1, <2>3, GoesOnInv, RestInv
  <2>5. QED
    BY <1>1, <2>1, <2>2, <2>3, <2>4, ChannelsRest DEF GoesOn
<1>4. CASE QueryGoroutine
  <2>1. UNCHANGED <<pc, held, closer, channelClosed, triggerCheck, panicked>>
    BY <1>4 DEF QueryGoroutine, QueryReturns, LateAnswer, vars, statusVars, announceVars,
       closeVars, checkVars
  <2>2. QED
    BY <1>1, <2>1, RestInv, ChannelsRest
<1>5. CASE Close
  <2>1. /\ closer' # "open"
        /\ channelClosed' = channelClosed \/ checker = "rabbitmq"
        /\ triggerCheck' = triggerCheck \/ checker = "rabbitmq"
        /\ UNCHANGED <<panicked, pc, held>>
    BY <1>1, <1>5, CloseExplained
  <2>2. ChannelInv' /\ TriggerInv' /\ PanicInv'
    BY <1>1, <2>1 DEF PInv, ChannelInv, TriggerInv, PanicInv, Closing, Stopping
  <2>3. QED
    BY <1>1, <2>1, <2>2, RestInv
<1>6. CASE Application
  <2>1. UNCHANGED <<closer, channelClosed>>
    BY <1>1, <1>6, ApplicationWorks, WorksLeavesClose
  <2>2. ChannelInv' /\ TriggerInv' /\ PanicInv'
    BY <1>1, <1>6, <2>1, CallsExplained, ChannelsRest
  <2>3. CASE pc' = pc
    BY <1>1, <1>6, <2>2, <2>3, CallsExplained, RestInv
  <2>4. ASSUME NEW k \in Checks, checker \notin {"rabbitmq", "sqlserver"}, pc[k] = "idle",
               Goto(k, "check")
        PROVE  OneLoopInv' /\ OnlyChecksHold'
    <3>1. ChecksOK /\ k \in Checkers /\ Holds(k) /\ held' = held
      BY <1>1, <1>6, TypeOKParts, CheckersParts, CallsExplained DEF PInv, OnlyChecksHold
    <3>2. held[k] = 0
      BY <2>4, <3>1 DEF ChecksOK, Holds
    <3>3. \A h \in Checkers : h # k => pc'[h] = pc[h]
      BY <2>4, <3>1 DEF Goto, ChecksOK
    <3>4. QED
      BY <1>1, <2>4, <3>1, <3>2, <3>3 DEF PInv, OneLoopInv, OnlyChecksHold, Holds
  <2>5. QED
    BY <1>1, <1>6, <2>2, <2>3, <2>4, CallsExplained
<1>7. CASE Reader /\ UNCHANGED ownVars
  <2>1. UNCHANGED <<pc, held, closer, channelClosed, triggerCheck, panicked>>
    BY <1>7 DEF Reader, Receive, ReadStatus, ownVars, statusVars, announceVars, closeVars,
       checkVars
  <2>2. QED
    BY <1>1, <2>1, RestInv, ChannelsRest
<1>8. QED
  BY <1>2, <1>3, <1>4, <1>5, <1>6, <1>7 DEF Step

LEMMA NextPInv == PInv /\ [Next]_allVars => PInv'
<1> SUFFICES ASSUME PInv, [Next]_allVars PROVE PInv'
  OBVIOUS
<1>1. IInv'
  BY StepKinds, WorksInv, LeavesInv, ClosesInv, ReaderInv, StutterInv DEF Next, PInv
<1>2. CASE Step
  BY <1>1, <1>2, StepPInv DEF PInv
<1>3. CASE UNCHANGED allVars
  <2>1. UNCHANGED <<pc, held, closer, channelClosed, triggerCheck, panicked, checker, config>>
    BY <1>3 DEF allVars, vars, ownVars, statusVars, announceVars, closeVars, checkVars
  <2>2. QED
    BY <1>1, <2>1, RestInv, ChannelsRest DEF PInv
<1>4. QED
  BY <1>2, <1>3 DEF Next

\* The strengthened invariant holds in every reachable state.
THEOREM PanicInvariance == Spec => []PInv
<1>1. QED
  BY InitPInv, NextPInv, PTL DEF Spec

-----------------------------------------------------------------------------
\* The theorems.

\* The process is ended only by a call of the application that comes after Close has begun,
\* in the two checkers that close their channels (rabbitmq/checker.go:173 and 182,
\* sqlserver/checker.go:245), or by the check of an S3 checker without a configuration
\* (s3/checker.go:254).  No loop and no other check ever sends on a closed channel.
THEOREM PanicsAreExplained == Spec => [][PanicExplained]_allVars
<1>1. PInv /\ [Next]_allVars => [PanicExplained]_allVars
  <2> SUFFICES ASSUME PInv, Step, panicked'
               PROVE  panicked \/ NilConfig \/ (Closing /\ Application)
    BY DEF Next, PanicExplained
  <2>1. UNCHANGED <<room, config, checker>>
    BY DEF Step
  <2>2. CASE HealthCheckLoop
    BY <2>1, <2>2, LoopGoesOn DEF GoesOn
  <2>3. ASSUME NEW g \in Checkers, PerformHealthCheck(g)
        PROVE  panicked \/ NilConfig
    BY <2>1, <2>3, ChecksGoOn DEF GoesOn
  <2>4. CASE QueryGoroutine
    BY <2>4 DEF QueryGoroutine, QueryReturns, LateAnswer, vars, statusVars, announceVars
  <2>5. CASE Close
    BY <2>1, <2>5, CloseExplained
  <2>6. CASE Application
    BY <2>1, <2>6, CallsExplained
  <2>7. CASE Reader
    BY <2>7 DEF Reader, Receive, ReadStatus, statusVars, announceVars
  <2>8. QED
    BY <2>2, <2>3, <2>4, <2>5, <2>6, <2>7 DEF Step
<1>2. QED
  BY <1>1, PanicInvariance, PTL DEF Spec

\* The checkers of PostgreSQL, Redis, MongoDB and Solace never panic, and the others only
\* with a Close under way or without a configuration.
THEOREM PanicsAreRare == Spec => []PanicInv
<1>1. PInv => PanicInv
  BY DEF PInv
<1>2. QED
  BY <1>1, PanicInvariance, PTL

\* Whatever step of a check has failed, a goroutine that rests, waits for a tick or has
\* ended holds nothing open (solace/checker.go:338-379, rabbitmq/checker.go:346).
THEOREM ChecksRelease == Spec => []OnlyChecksHold
<1>1. PInv => OnlyChecksHold
  BY DEF PInv
<1>2. QED
  BY <1>1, PanicInvariance, PTL
=============================================================================
