---------------------------- MODULE SolaceChecker ---------------------------
(***************************************************************************)
(* solace: the loop and the calls of PollingChecker with a round trip as   *)
(* the check: a session, a sender and a receiver are opened one after the  *)
(* other, a message is sent and received.  Any of the operations may fail  *)
(* or time out, and whatever was opened is closed by deferred calls after  *)
(* the status was stored.                                                  *)
(***************************************************************************)
EXTENDS PollingChecker

\* NewSolaceCheckerWithOpenSolaceFunc, with a connection or with the error of openSolace.
SolaceInit == \E opened \in BOOLEAN : Created(opened, "check", 1)

\* The session, the sender of the session, its receiver.
SolaceOpen(g) ==
  /\ pc[g] = "answer"
  /\ held[g] < 3
  /\ held' = [held EXCEPT ![g] = @ + 1]
  /\ UNCHANGED <<statusVars, closeVars, pc, result, readerVars>>

\* The receiver is there before the message is sent.
SolaceSend(g) ==
  /\ pc[g] = "answer"
  /\ held[g] = 3
  /\ Goto(g, "receive")
  /\ UNCHANGED <<statusVars, closeVars, result, held, readerVars>>

\* An error of AcceptMessage is logged and no more.
SolaceReceive(g) ==
  /\ pc[g] = "receive"
  /\ Ends(g, Report("pass", "healthy"))
  /\ UNCHANGED <<statusVars, closeVars, held, readerVars>>

\* Any operation fails, also because opCtx has timed out or is cancelled by Close.
SolaceFails(g) ==
  /\ pc[g] \in {"answer", "receive"}
  /\ Ends(g, Report("fail", "failed"))
  /\ UNCHANGED <<statusVars, closeVars, held, readerVars>>

SolaceCheck(g) ==
  \/ Gate(g) \/ Query(g)
  \/ SolaceOpen(g) \/ SolaceSend(g) \/ SolaceReceive(g) \/ SolaceFails(g)
  \/ StoreResult(g) \/ Release(g)

SolaceCalls == Calls

SolaceLoop == Tick("check") \/ LoopExit("closed", FALSE)

SolaceClose == BeginClose(TRUE) \/ EndClose(Closed)
=============================================================================
