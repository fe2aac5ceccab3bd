--------------------------- MODULE PollingCheckers --------------------------
(***************************************************************************)
(* One of the seven polling checkers, with the application that calls it   *)
(* and a reader of its channel, and what all of them promise.              *)
(***************************************************************************)
EXTENDS PostgresChecker, RedisChecker, MongoDBChecker, S3Checker, SolaceChecker,
        RabbitMQChecker, SQLServerChecker

VARIABLE checker   \* which of the seven it is: never changes

ownVars == <<triggerCheck, sqlServerVars>>
allVars == <<vars, ownVars, config, checker>>

TypeOK ==
  /\ StateOK
  /\ config \in {"set", "nil"}
  /\ RabbitMQTypeOK
  /\ SQLServerTypeOK
  /\ checker \in {"postgres", "redis", "mongodb", "s3", "solace", "rabbitmq", "sqlserver"}

\* The variables of the other checkers keep a value that says nothing.
Init ==
  /\ \/ checker = "postgres"  /\ PostgresInit
     \/ checker = "redis"     /\ RedisInit
     \/ checker = "mongodb"   /\ MongoDBInit
     \/ checker = "s3"        /\ S3Init
     \/ checker = "solace"    /\ SolaceInit
     \/ checker = "rabbitmq"  /\ RabbitMQInit
     \/ checker = "sqlserver" /\ SQLServerInit
  /\ checker # "s3" => config = "set"
  /\ checker # "rabbitmq" => triggerCheck = "empty"
  /\ checker # "sqlserver" => resultChan = NoResult /\ late = 0 /\ overriding = FALSE

HealthCheckLoop ==
  \/ /\ \/ checker = "postgres" /\ PostgresLoop
        \/ checker = "redis"    /\ RedisLoop
        \/ checker = "mongodb"  /\ MongoDBLoop
        \/ checker = "s3"       /\ S3Loop
        \/ checker = "solace"   /\ SolaceLoop
     /\ UNCHANGED ownVars
  \/ checker = "rabbitmq"  /\ RabbitMQLoop  /\ UNCHANGED sqlServerVars
  \/ checker = "sqlserver" /\ SQLServerLoop /\ UNCHANGED triggerCheck

PerformHealthCheck(g) ==
  \/ /\ \/ checker = "postgres" /\ PostgresCheck(g)
        \/ checker = "redis"    /\ RedisCheck(g)
        \/ checker = "mongodb"  /\ MongoDBCheck(g)
        \/ checker = "s3"       /\ (S3Check(g) \/ BucketName(g))
        \/ checker = "solace"   /\ SolaceCheck(g)
        \/ checker = "rabbitmq" /\ RabbitMQCheck(g)
     /\ UNCHANGED ownVars
  \/ checker = "sqlserver" /\ g = Loop /\ SQLServerCheck /\ UNCHANGED triggerCheck

QueryGoroutine ==
  checker = "sqlserver" /\ (QueryReturns \/ LateAnswer) /\ UNCHANGED triggerCheck

Close ==
  \/ /\ \/ checker = "postgres" /\ PostgresClose
        \/ checker = "redis"    /\ RedisClose
        \/ checker = "mongodb"  /\ MongoDBClose
        \/ checker = "s3"       /\ S3Close
        \/ checker = "solace"   /\ SolaceClose
     /\ UNCHANGED ownVars
  \/ checker = "rabbitmq"  /\ RabbitMQClose  /\ UNCHANGED sqlServerVars
  \/ checker = "sqlserver" /\ SQLServerClose /\ UNCHANGED triggerCheck

Application ==
  \/ /\ \/ checker \in {"postgres", "redis", "mongodb", "s3"} /\ Calls
        \/ checker = "solace" /\ SolaceCalls
     /\ UNCHANGED ownVars
  \/ checker = "rabbitmq"  /\ RabbitMQCalls  /\ UNCHANGED sqlServerVars
  \/ checker = "sqlserver" /\ SQLServerCalls /\ UNCHANGED triggerCheck

Step ==
  /\ \/ HealthCheckLoop
     \/ \E g \in Checkers : PerformHealthCheck(g)
     \/ QueryGoroutine
     \/ Close
     \/ Application
     \/ Reader /\ UNCHANGED ownVars
  /\ UNCHANGED <<room, config, checker>>

\* A panic ends everything.
Next == ~panicked /\ Step

Spec == Init /\ [][Next]_allVars

Live(A) == ~panicked /\ A /\ UNCHANGED <<room, config, checker>>

\* Goroutines run, the ticker ticks and checks end (they have a timeout), also the query a
\* check has left behind.  A select with two ready cases picks one at random, and a Close
\* that has begun goes on once no query is under way: closing the client may wait for them.
Fairness ==
  /\ WF_allVars(Live(HealthCheckLoop))
  /\ SF_allVars(Live(HealthCheckLoop /\ pc'[Loop] = "exited"))
  /\ \A g \in Checkers : WF_allVars(Live(PerformHealthCheck(g)))
  /\ WF_allVars(Live(QueryGoroutine /\ late' < late))
  /\ WF_allVars(Live(Stopping /\ ~Querying /\ Close))

FairSpec == Spec /\ Fairness

-----------------------------------------------------------------------------
\* A reader that waits on an empty channel knows the current status: no change is
\* lost, although a full channel drops the newer of two values and an update that
\* repeats the stored status is not announced (postgres/checker.go:328-331).
ReaderKnows ==
  reader = "waiting" /\ statusChangeChan = 0 => lastRead = currentStatus

\* "Periodic checks will eventually re-evaluate" a status set from outside
\* (postgres/checker.go:160): while it is enabled and open a checker with a client
\* always comes back to the result of a check, also from "initializing" and "enabled".
ReportsChecks ==
  []<>(\/ currentStatus.output \in CheckOutputs
       \/ disabled \/ Stopping \/ client = "none" \/ panicked)

\* After Disable the status is not "changed by performHealthCheck"
\* (postgres/checker_test.go:162): it is the one of Disable, or set from outside.
DisabledKeepsStatus == disabled => currentStatus.output \in {"disabled", "override"}

\* Disable halts the checks (postgres/checker.go:165): a checker that stays disabled
\* ends up with no check under way that could still replace its status.
DisableHaltsChecks ==
  \/ <>[](disabled /\ \A g \in Checkers : ~Checking(g))
  \/ []<>~disabled
  \/ <>panicked

\* Close returns, although it closes the client, and may wait for the queries under way,
\* with the mutex held (postgres/checker.go:144-153), or waits for the loop
\* (rabbitmq/checker.go:175); and the loop ends.
CloseReturns == Stopping ~> (closer = "closed" /\ pc[Loop] \in {"idle", "exited"}) \/ panicked

\* Close leaves nothing behind: whatever step of a check has failed, everything it has
\* opened is closed (solace/checker.go:338-379), and the goroutine of a query that was
\* given up ends although nobody receives its result (sqlserver/checker.go:326-343).
NothingLeft ==
  Stopping ~> [](late = 0 /\ \A g \in Checkers : held[g] = 0) \/ panicked

\* Where Close waits for the loop, "it is safe to close the channel" only after "the health
\* check loop has exited" (rabbitmq/checker.go:181), and no check finds the connection
\* closed under it.
LoopEndsFirst ==
  \/ pc[Loop] \in {"idle", "exited"}
  \/ ~channelClosed /\ (checker \in {"rabbitmq", "sqlserver"} => client # "closed")

\* The loop of the SQL Server checker closes the connection for Close: "p.db.Close() is now
\* handled by the goroutine" (sqlserver/checker.go:157).
ClosedClosesDB == checker = "sqlserver" /\ closer = "closed" => client # "open"

\* An Enable whose trigger channel is "full or closed" takes the default of its select
\* (rabbitmq/checker.go:232) and returns.
EnableReturns == [][checker = "rabbitmq" /\ disabled /\ ~disabled' => ~panicked']_allVars

-----------------------------------------------------------------------------
\* Two components of the service: one whose channel has room for one value, and one with
\* room for five, as in the SQL Server checker.  The checker is one of them.
Rooms == <<1, 5>>

Own(c) == Rooms[c] = room

Contract == INSTANCE ComponentContract WITH
  N        <- 2,
  Statuses <- {"pass", "warn", "fail"},
  Capacity <- Rooms,
  status   <- [c \in 1 .. 2 |-> IF Own(c) THEN currentStatus.status ELSE "pass"],
  queued   <- [c \in 1 .. 2 |-> IF Own(c) THEN statusChangeChan ELSE 0],
  owed     <- [c \in 1 .. 2 |-> FALSE],
  closing  <- [c \in 1 .. 2 |-> Own(c) /\ Stopping],
  closed   <- [c \in 1 .. 2 |-> Own(c) /\ channelClosed]

\* Each polling checker is a component the service can be composed of: what it stores
\* it announces, in the same step, or an unread value is in the channel already; and it
\* closes its channel only when it is being closed.
ImplementsContract == Contract!ContractSpec
=============================================================================
