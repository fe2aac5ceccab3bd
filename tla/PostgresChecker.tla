--------------------------- MODULE PostgresChecker --------------------------
(***************************************************************************)
(* postgres: the loop and the calls of PollingChecker with SELECT 1 as the *)
(* check.  The database connection is closed by Close, with the mutex      *)
(* held, and by the loop when it ends.                                     *)
(***************************************************************************)
EXTENDS PollingChecker

\* NewPostgresCheckerWithOpenDBFunc, with a connection or with the error of openDB.
PostgresInit == \E opened \in BOOLEAN : Created(opened, "check", 1)

\* An error of the query, a result that is not 1, or 1.
PostgresAnswers == {Report("fail", "failed"), Report("fail", "unexpected result"),
                    Report("pass", "healthy")}

PostgresCheck(g) == Check(g, PostgresAnswers)

PostgresLoop == Tick("check") \/ LoopExit("closed", FALSE)

PostgresClose == BeginClose(TRUE) \/ EndClose(Closed)
=============================================================================
