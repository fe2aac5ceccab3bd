--------------------------- MODULE MongoDBChecker ---------------------------
(***************************************************************************)
(* mongodb: the loop and the calls of PollingChecker with a ping of the    *)
(* primary as the check.  Close does not take the mutex, so that statuses  *)
(* are stored and announced while it disconnects; the loop leaves the      *)
(* client alone.                                                           *)
(***************************************************************************)
EXTENDS PollingChecker

\* NewMongoCheckerWithOpenDBFunc, with a client or with the error of openDB.
MongoDBInit == \E opened \in BOOLEAN : Created(opened, "check", 1)

\* A ping is answered, or not.
MongoDBAnswers == {Report("fail", "failed"), Report("pass", "healthy")}

MongoDBCheck(g) == Check(g, MongoDBAnswers)

MongoDBLoop == Tick("check") \/ LoopExit(client, FALSE)

MongoDBClose == BeginClose(FALSE) \/ EndClose(Closed)
=============================================================================
