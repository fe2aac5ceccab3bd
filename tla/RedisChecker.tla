---------------------------- MODULE RedisChecker ----------------------------
(***************************************************************************)
(* redis: the loop and the calls of PollingChecker with a PING as the      *)
(* check.  Like the PostgreSQL checker it closes its client in Close, with *)
(* the mutex held, and again in the loop.                                  *)
(***************************************************************************)
EXTENDS PollingChecker

\* NewRedisCheckerWithOpenRedisFunc, with a client or with the error of the first PING.
RedisInit == \E opened \in BOOLEAN : Created(opened, "check", 1)

\* A PING is answered, or not.
RedisAnswers == {Report("fail", "failed"), Report("pass", "healthy")}

RedisCheck(g) == Check(g, RedisAnswers)

RedisLoop == Tick("check") \/ LoopExit("closed", FALSE)

RedisClose == BeginClose(TRUE) \/ EndClose(Closed)
=============================================================================
