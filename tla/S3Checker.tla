------------------------------ MODULE S3Checker -----------------------------
(***************************************************************************)
(* s3: the loop and the calls of PollingChecker with HeadBucket as the     *)
(* check.  There is no client to close.  A check reads the bucket's name   *)
(* before it looks at the configuration, which may be nil when the client  *)
(* comes from a function of the application (or from one that failed).     *)
(***************************************************************************)
EXTENDS PollingChecker

VARIABLE config   \* s.config, "set" or "nil": never changes

\* NewS3CheckerWithOpenS3ClientFunc, with a client or with the error of openS3Client.
S3Init ==
  /\ \E opened \in BOOLEAN : Created(opened, "check", 1)
  /\ config \in {"set", "nil"}

\* The bucket is accessible, or it is not found or the operation fails, which are told
\* apart by the text of the output only: here both are "failed".
S3Answers == {Report("fail", "failed"), Report("pass", "healthy")}

S3Check(g) ==
  /\ pc[g] = "check" => config = "set"
  /\ Check(g, S3Answers)

\* bucketName := s3Config.BucketName, with a nil s3Config.
BucketName(g) ==
  /\ pc[g] = "check"
  /\ config = "nil"
  /\ ~mutexHeld
  /\ Panic
  /\ UNCHANGED <<disabled, closeVars, checkVars, readerVars>>

S3Loop == Tick("check") \/ LoopExit(client, FALSE)

S3Close == BeginClose(TRUE) \/ EndClose(client)
=============================================================================
