----------------------------- MODULE VaultProofs ----------------------------
(***************************************************************************)
(* The safety of the Vault checker, for any number of calls of Enable.     *)
(* Every loop reads v.ctx anew, so that a loop may wait for the context of *)
(* a later one but never for one older than itself; and the loop that the  *)
(* latest Enable has started ends only by the context made with it.        *)
(***************************************************************************)
EXTENDS VaultChecker, TLAPS

\* What is cancelled was made.
DoneInv == \A c \in done : c <= ctx

\* A loop waits for its own context or for a later one.
WaitsInv == \A l \in Loops : pc[l] = "select" => l <= waitsFor[l] /\ waitsFor[l] <= ctx

\* There is no loop before its Enable.
FutureInv == \A l \in Loops : l > ctx => pc[l] = "none"

\* Only Disable and Close cancel the latest context.
ActiveInv == ~disabled /\ ~closed => ctx \notin done

\* The latest loop runs as long as the latest context is not cancelled.
RunsInv == client /\ ctx \notin done => pc[ctx] \notin {"none", "exited"}

LoopInv == DoneInv /\ WaitsInv /\ FutureInv /\ ActiveInv /\ RunsInv

IInv == TypeOK /\ LoopInv

Places == {"none", "check", "query", "update", "turn", "select", "exited"}

-----------------------------------------------------------------------------
LEMMA LoopsAreNumbers ==
  /\ \A l \in Loops : l \in Nat
  /\ 0 \in Loops
  /\ \A l \in Loops : l < MaxEnables => l + 1 \in Loops
BY MaxEnablesAssumption DEF Loops

LEMMA ReportIsAReport ==
  /\ NoResult \in Reports
  /\ \A o \in CheckOutputs : \A s \in {"pass", "warn", "fail"} : Report(s, o) \in Reports
  /\ Report("fail", "no client") \in Reports
  /\ Report("warn", "disabled") \in Reports
  /\ Report("warn", "enabled") \in Reports
  /\ Report("pass", "override") \in Reports
BY DEF NoResult, Report, Reports

LEMMA InterpretIsAReport ==
  ASSUME NEW h \in Responses
  PROVE  Interpret(h) \in Reports
BY ReportIsAReport DEF Interpret, CheckOutputs

LEMMA InitInv == Init => IInv
<1> SUFFICES ASSUME Init PROVE IInv
  OBVIOUS
<1>1. TypeOK
  <2>1. currentStatus \in Reports /\ lastRead \in Reports
    BY ReportIsAReport DEF Init, NoResult
  <2>2. pc \in [Loops -> Places]
    BY DEF Init, Places
  <2>3. waitsFor \in [Loops -> Loops] /\ ctx \in Loops
    BY LoopsAreNumbers, Zenon DEF Init
  <2>4. result \in [Loops -> Reports]
    BY ReportIsAReport DEF Init
  <2>5. statusChangeChan \in 0 .. 1
    <3>1. statusChangeChan = 0
      BY Zenon DEF Init
    <3>2. QED
      BY <3>1
  <2>6. QED
    BY <2>1, <2>2, <2>3, <2>4, <2>5 DEF Init, TypeOK, Places
<1>2. LoopInv
  <2>1. ctx = 0 /\ done = {}
    BY Zenon DEF Init
  <2>2. /\ client => pc[0] = "check"
        /\ \A l \in Loops : l # 0 => pc[l] = "none"
        /\ \A l \in Loops : pc[l] # "select"
    BY LoopsAreNumbers DEF Init
  <2>3. QED
    BY <2>1, <2>2, LoopsAreNumbers
       DEF LoopInv, DoneInv, WaitsInv, FutureInv, ActiveInv, RunsInv
<1>3. QED
  BY <1>1, <1>2 DEF IInv

\* A status stored and announced, or nothing.
LEMMA UpdateOK ==
  ASSUME TypeOK, NEW s \in Reports, UpdateStatus(s) \/ Announce(s)
  PROVE  currentStatus' \in Reports /\ statusChangeChan' \in 0 .. 1
BY DEF TypeOK, UpdateStatus, Announce

\* A step of a loop goes to a place and leaves the contexts alone.
LEMMA GoOK ==
  ASSUME TypeOK, NEW l \in Loops, NEW place \in Places, Goto(l, place)
  PROVE  /\ pc' \in [Loops -> Places]
         /\ pc'[l] = place
         /\ \A k \in Loops : k # l => pc'[k] = pc[k]
BY DEF TypeOK, Goto, Places

LEMMA UnchangedLoops ==
  ASSUME IInv, UNCHANGED <<contextVars, disabled, pc, waitsFor>>
  PROVE  LoopInv'
BY DEF IInv, LoopInv, DoneInv, WaitsInv, FutureInv, ActiveInv, RunsInv, contextVars

\* A loop that goes on, and not into its select.
LEMMA GoesOn ==
  ASSUME IInv, NEW l \in Loops, NEW place \in Places \ {"none", "exited", "select"},
         Goto(l, place), pc[l] \notin {"none", "exited"},
         UNCHANGED <<contextVars, disabled, waitsFor>>
  PROVE  LoopInv'
<1>1. /\ pc'[l] = place
      /\ \A k \in Loops : k # l => pc'[k] = pc[k]
  BY GoOK DEF IInv
<1>2. /\ DoneInv /\ WaitsInv /\ FutureInv /\ ActiveInv /\ RunsInv
      /\ ctx' = ctx /\ done' = done /\ closed' = closed /\ client' = client
      /\ disabled' = disabled /\ waitsFor' = waitsFor /\ ctx \in Loops
  BY DEF IInv, LoopInv, contextVars, TypeOK
<1>3. DoneInv' /\ ActiveInv'
  BY <1>2 DEF DoneInv, ActiveInv
<1>4. WaitsInv'
  BY <1>1, <1>2 DEF WaitsInv
<1>5. FutureInv'
  BY <1>1, <1>2 DEF FutureInv
<1>6. RunsInv'
  BY <1>1, <1>2 DEF RunsInv
<1>7. QED
  BY <1>3, <1>4, <1>5, <1>6 DEF LoopInv

-----------------------------------------------------------------------------
\* The application.

LEMMA ChangeStatusInv ==
  ASSUME IInv, ChangeStatus
  PROVE  IInv'
<1>1. currentStatus' \in Reports /\ statusChangeChan' \in 0 .. 1
  BY UpdateOK, ReportIsAReport DEF IInv, ChangeStatus
<1>2. TypeOK'
  BY <1>1 DEF IInv, TypeOK, ChangeStatus, contextVars, readerVars
<1>3. LoopInv'
  BY UnchangedLoops DEF ChangeStatus
<1>4. QED
  BY <1>2, <1>3 DEF IInv

\* Only the latest context is cancelled, and only while it is not needed any more.
LEMMA CancelInv ==
  ASSUME IInv, CancelFunc, UNCHANGED <<ctx, client, pc, waitsFor>>, disabled' \/ closed'
  PROVE  done' \subseteq Loops /\ LoopInv'
<1>1. done' = done \/ done' = done \cup {ctx}
  BY DEF CancelFunc
<1>2. /\ DoneInv /\ WaitsInv /\ FutureInv /\ RunsInv
      /\ done \subseteq Loops /\ ctx \in Loops
  BY DEF IInv, LoopInv, TypeOK
<1>3. done' \subseteq Loops
  BY <1>1, <1>2
<1>4. DoneInv'
  BY <1>1, <1>2, LoopsAreNumbers DEF DoneInv
<1>5. ActiveInv'
  BY DEF ActiveInv
<1>6. WaitsInv' /\ FutureInv' /\ RunsInv'
  BY <1>1, <1>2 DEF WaitsInv, FutureInv, RunsInv
<1>7. QED
  BY <1>3, <1>4, <1>5, <1>6 DEF LoopInv

LEMMA DisableInv ==
  ASSUME IInv, Disable
  PROVE  IInv'
<1>1. currentStatus' \in Reports /\ statusChangeChan' \in 0 .. 1
  BY UpdateOK, ReportIsAReport DEF IInv, Disable
<1>2. done' \subseteq Loops /\ LoopInv'
  BY CancelInv DEF Disable
<1>3. TypeOK'
  BY <1>1, <1>2 DEF IInv, TypeOK, Disable, readerVars
<1>4. QED
  BY <1>2, <1>3 DEF IInv

LEMMA CloseInv ==
  ASSUME IInv, Close
  PROVE  IInv'
<1>1. done' \subseteq Loops /\ LoopInv'
  BY CancelInv DEF Close
<1>2. TypeOK'
  BY <1>1 DEF IInv, TypeOK, Close, statusVars, readerVars
<1>3. QED
  BY <1>1, <1>2 DEF IInv

\* A new context, which nothing has cancelled, and a new loop, which has yet to read it.
LEMMA EnableInv ==
  ASSUME IInv, Enable
  PROVE  IInv'
<1>1. ctx \in Loops /\ ctx + 1 \in Loops /\ ctx \in Nat /\ ctx' = ctx + 1
  BY LoopsAreNumbers DEF IInv, TypeOK, Enable
<1>2. "check" \in Places
  BY DEF Places
<1>3. /\ pc' \in [Loops -> Places]
      /\ pc'[ctx + 1] = "check"
      /\ \A k \in Loops : k # ctx + 1 => pc'[k] = pc[k]
  BY <1>1, <1>2, GoOK DEF IInv, Enable
<1>4. currentStatus' \in Reports /\ statusChangeChan' \in 0 .. 1
  BY UpdateOK, ReportIsAReport DEF IInv, Enable
<1>5. TypeOK'
  BY <1>1, <1>3, <1>4 DEF IInv, TypeOK, Enable, readerVars, Places
<1>6. /\ DoneInv /\ WaitsInv /\ FutureInv
      /\ done' = done /\ waitsFor' = waitsFor /\ done \subseteq Loops
      /\ waitsFor \in [Loops -> Loops]
  BY DEF IInv, LoopInv, TypeOK, Enable
<1>7. ctx' \notin done
  BY <1>1, <1>6 DEF DoneInv
<1>8. DoneInv'
  BY <1>1, <1>6, LoopsAreNumbers DEF DoneInv
<1>9. WaitsInv'
  <2>1. ASSUME NEW l \in Loops, pc'[l] = "select"
        PROVE  l <= waitsFor[l] /\ waitsFor[l] <= ctx + 1
    <3>1. pc[l] = "select" /\ waitsFor[l] \in Nat
      BY <1>3, <1>6, <2>1, LoopsAreNumbers
    <3>2. QED
      BY <1>1, <1>6, <2>1, <3>1 DEF WaitsInv
  <2>2. QED
    BY <1>1, <1>6, <2>1 DEF WaitsInv
<1>10. FutureInv'
  BY <1>1, <1>3, <1>6, LoopsAreNumbers DEF FutureInv
<1>11. ActiveInv' /\ RunsInv'
  BY <1>1, <1>3, <1>6, <1>7 DEF ActiveInv, RunsInv
<1>12. QED
  BY <1>5, <1>8, <1>9, <1>10, <1>11 DEF IInv, LoopInv

-----------------------------------------------------------------------------
\* The loops.

LEMMA TurnInv ==
  ASSUME IInv, NEW l \in Loops, Turn(l)
  PROVE  IInv'
<1>1. "select" \in Places
  BY DEF Places
<1>2. /\ pc' \in [Loops -> Places]
      /\ pc'[l] = "select" /\ pc[l] = "turn"
      /\ \A k \in Loops : k # l => pc'[k] = pc[k]
  BY <1>1, GoOK DEF IInv, Turn
<1>3. /\ ctx \in Loops /\ ctx' = ctx /\ done' = done /\ closed' = closed /\ client' = client
      /\ disabled' = disabled /\ waitsFor' = [waitsFor EXCEPT ![l] = ctx]
      /\ waitsFor \in [Loops -> Loops]
  BY DEF IInv, TypeOK, Turn, contextVars, statusVars
<1>4. waitsFor' \in [Loops -> Loops]
  BY <1>3
<1>5. TypeOK'
  BY <1>2, <1>3, <1>4 DEF IInv, TypeOK, Turn, contextVars, statusVars, readerVars, Places
<1>6. DoneInv /\ WaitsInv /\ FutureInv /\ ActiveInv /\ RunsInv
  BY DEF IInv, LoopInv
<1>7. DoneInv' /\ ActiveInv'
  BY <1>3, <1>6 DEF DoneInv, ActiveInv
<1>8. WaitsInv'
  <2>1. ~(l > ctx)
    BY <1>2, <1>6 DEF FutureInv
  <2>2. l <= ctx /\ ctx <= ctx
    BY <1>3, <2>1, LoopsAreNumbers
  <2>3. QED
    BY <1>2, <1>3, <1>6, <2>2 DEF WaitsInv
<1>9. FutureInv' /\ RunsInv'
  BY <1>2, <1>3, <1>6 DEF FutureInv, RunsInv
<1>10. QED
  BY <1>5, <1>7, <1>8, <1>9 DEF IInv, LoopInv

\* A loop leaves its select: for good only when the context it waits for is cancelled,
\* which the latest loop's is not while there is a need for it.
LEMMA LeaveSelectInv ==
  ASSUME IInv, NEW l \in Loops, Tick(l) \/ LoopExit(l)
  PROVE  IInv'
<1>1. \E place \in {"check", "exited"} : Goto(l, place)
  BY DEF Tick, LoopExit, LeaveSelect
<1>2. /\ pc' \in [Loops -> Places]
      /\ pc'[l] \in {"check", "exited"} /\ pc[l] = "select"
      /\ \A k \in Loops : k # l => pc'[k] = pc[k]
  <2>1. PICK place \in {"check", "exited"} : Goto(l, place)
    BY <1>1
  <2>2. place \in Places
    BY DEF Places
  <2>3. QED
    BY <2>1, <2>2, GoOK DEF IInv, Tick, LoopExit
<1>3. /\ ctx \in Loops /\ ctx' = ctx /\ done' = done /\ closed' = closed /\ client' = client
      /\ disabled' = disabled /\ waitsFor' = [waitsFor EXCEPT ![l] = 0]
      /\ waitsFor \in [Loops -> Loops]
  BY DEF IInv, TypeOK, Tick, LoopExit, LeaveSelect, contextVars, statusVars
<1>4. waitsFor' \in [Loops -> Loops]
  BY <1>3, LoopsAreNumbers
<1>5. TypeOK'
  BY <1>2, <1>3, <1>4 DEF IInv, TypeOK, Tick, LoopExit, LeaveSelect, contextVars, statusVars,
     readerVars, Places
<1>6. DoneInv /\ WaitsInv /\ FutureInv /\ ActiveInv /\ RunsInv
  BY DEF IInv, LoopInv
<1>7. DoneInv' /\ ActiveInv'
  BY <1>3, <1>6 DEF DoneInv, ActiveInv
<1>8. WaitsInv'
  BY <1>2, <1>3, <1>6 DEF WaitsInv
<1>9. FutureInv'
  BY <1>2, <1>3, <1>6 DEF FutureInv
<1>10. RunsInv'
  <2>1. CASE LoopExit(l) /\ l = ctx
    <3>1. waitsFor[l] = ctx
      BY <1>2, <1>3, <1>6, <2>1, LoopsAreNumbers DEF WaitsInv
    <3>2. ctx \in done
      BY <2>1, <3>1 DEF LoopExit
    <3>3. QED
      BY <1>3, <3>2 DEF RunsInv
  <2>2. CASE l # ctx
    BY <1>2, <1>3, <1>6, <2>2 DEF RunsInv
  <2>3. CASE Tick(l)
    <3>1. pc'[l] = "check"
      BY <1>1, <2>3, GoOK DEF IInv, Tick, LeaveSelect, Places
    <3>2. QED
      BY <1>2, <1>3, <1>6, <3>1 DEF RunsInv
  <2>4. QED
    BY <2>1, <2>2, <2>3
<1>11. QED
  BY <1>5, <1>7, <1>8, <1>9, <1>10 DEF IInv, LoopInv

LEMMA GateInv ==
  ASSUME IInv, NEW l \in Loops, Gate(l) \/ Query(l)
  PROVE  IInv'
<1>1. PICK place \in {"turn", "query", "update"} : Goto(l, place)
  BY DEF Gate, Query, Ends
<1>2. place \in Places \ {"none", "exited", "select"} /\ place \in Places
  BY DEF Places
<1>3. LoopInv'
  BY <1>1, <1>2, GoesOn DEF Gate, Query, contextVars, statusVars
<1>4. pc' \in [Loops -> Places]
  BY <1>1, <1>2, GoOK DEF IInv
<1>5. result' \in [Loops -> Reports]
  <2>1. result \in [Loops -> Reports]
    BY DEF IInv, TypeOK
  <2>2. result' = result \/ \E r \in Reports : result' = [result EXCEPT ![l] = r]
    BY ReportIsAReport, InterpretIsAReport DEF Gate, Query, Ends, CheckOutputs
  <2>3. QED
    BY <2>1, <2>2
<1>6. TypeOK'
  BY <1>4, <1>5 DEF IInv, TypeOK, Gate, Query, contextVars, statusVars, readerVars, Places
<1>7. QED
  BY <1>3, <1>6 DEF IInv

LEMMA StoreResultInv ==
  ASSUME IInv, NEW l \in Loops, StoreResult(l)
  PROVE  IInv'
<1>1. "turn" \in Places \ {"none", "exited", "select"} /\ "turn" \in Places
  BY DEF Places
<1>2. LoopInv'
  BY <1>1, GoesOn DEF StoreResult, contextVars
<1>3. pc' \in [Loops -> Places]
  BY <1>1, GoOK DEF IInv, StoreResult
<1>4. result[l] \in Reports /\ result' \in [Loops -> Reports]
  BY ReportIsAReport DEF IInv, TypeOK, StoreResult
<1>5. currentStatus' \in Reports /\ statusChangeChan' \in 0 .. 1
  BY <1>4, UpdateOK DEF IInv, StoreResult
<1>6. TypeOK'
  BY <1>3, <1>4, <1>5 DEF IInv, TypeOK, StoreResult, contextVars, readerVars, Places
<1>7. QED
  BY <1>2, <1>6 DEF IInv

LEMMA ReaderInv ==
  ASSUME IInv, Receive \/ ReadStatus \/ UNCHANGED vars
  PROVE  IInv'
<1>1. LoopInv'
  BY UnchangedLoops DEF Receive, ReadStatus, vars, contextVars, statusVars
<1>2. TypeOK'
  <2>1. CASE Receive
    BY <2>1 DEF IInv, TypeOK, Receive, contextVars
  <2>2. CASE ReadStatus
    BY <2>2 DEF IInv, TypeOK, ReadStatus, contextVars, statusVars
  <2>3. CASE UNCHANGED vars
    BY <2>3 DEF IInv, TypeOK, vars
  <2>4. QED
    BY <2>1, <2>2, <2>3
<1>3. QED
  BY <1>1, <1>2 DEF IInv

\* The inductive invariant holds in every reachable state.
THEOREM Invariance == Spec => []IInv
<1>1. IInv /\ [Next]_vars => IInv'
  BY ChangeStatusInv, DisableInv, EnableInv, CloseInv, TurnInv, LeaveSelectInv, GateInv,
     StoreResultInv, ReaderInv DEF Next, Application, HealthCheckLoop
<1>2. QED
  BY <1>1, InitInv, PTL DEF Spec

\* Type correctness of the Vault checker.
THEOREM TypeCorrect == Spec => []TypeOK
<1>1. IInv => TypeOK
  BY DEF IInv
<1>2. QED
  BY <1>1, Invariance, PTL

\* However often and however quickly Disable and Enable follow each other, an enabled
\* checker has a loop that has not seen the end of its context: the latest one
\* (vault/checker.go:154-193).
THEOREM NeverWithoutLoop == Spec => []EnabledHasLoop
<1>1. IInv => EnabledHasLoop
  <2> SUFFICES ASSUME IInv, client, ~disabled, ~closed
               PROVE  Live(ctx) /\ ctx \in Loops
    BY DEF EnabledHasLoop
  <2>1. ctx \in Loops /\ ctx \notin done /\ pc[ctx] \notin {"none", "exited"}
    BY DEF IInv, LoopInv, TypeOK, ActiveInv, RunsInv
  <2>2. pc[ctx] = "select" => waitsFor[ctx] = ctx
    <3>1. waitsFor[ctx] \in Nat /\ ctx \in Nat
      BY <2>1, LoopsAreNumbers DEF IInv, TypeOK
    <3>2. QED
      BY <2>1, <3>1 DEF IInv, LoopInv, WaitsInv
  <2>3. QED
    BY <2>1, <2>2 DEF Live
<1>2. QED
  BY <1>1, Invariance, PTL

-----------------------------------------------------------------------------
(* Refinement: each step is one step of the contract or is not seen by the service. *)

LEMMA OneIsAFunction ==
  ASSUME NEW a, NEW b
  PROVE  One(a)[1] = a /\ [One(a) EXCEPT ![1] = b] = One(b)
BY DEF One

LEMMA RefinesInit == Init => Contract!ContractInit
<1> SUFFICES ASSUME Init PROVE Contract!ContractInit
  OBVIOUS
<1>1. currentStatus.status \in {"pass", "warn", "fail"}
  BY InitInv DEF IInv, TypeOK, Reports
<1>2. One(currentStatus.status) \in [1 .. 1 -> {"pass", "warn", "fail"}]
  BY <1>1 DEF One
<1>3. statusChangeChan = 0 /\ closed = FALSE
  BY Zenon DEF Init
<1>4. /\ One(statusChangeChan) = [c \in 1 .. 1 |-> 0]
      /\ One(closed) = [c \in 1 .. 1 |-> FALSE]
      /\ One(FALSE) = [c \in 1 .. 1 |-> FALSE]
  BY <1>3, Zenon DEF One
<1>5. QED
  BY <1>2, <1>4 DEF Contract!ContractInit, Contract!Components

\* A full buffer stays full.
LEMMA RefinesAnnounce ==
  ASSUME TypeOK, NEW s \in Reports, Announce(s), closed' = closed
  PROVE  Contract!StoreAndSend(1, s.status)
<1>1. statusChangeChan' = IF statusChangeChan < 1 THEN statusChangeChan + 1 ELSE statusChangeChan
  BY DEF TypeOK, Announce
<1>2. currentStatus'.status = s.status
  BY DEF Announce
<1>3. QED
  BY <1>1, <1>2, OneIsAFunction DEF Contract!StoreAndSend

\* Everything the service does not see.
LEMMA RefinesStutter ==
  ASSUME UNCHANGED <<currentStatus, statusChangeChan, closed>>
  PROVE  UNCHANGED Contract!contractVars
BY DEF Contract!contractVars, One

LEMMA RefinesUpdate ==
  ASSUME TypeOK, NEW s \in Reports, UpdateStatus(s), closed' = closed
  PROVE  Contract!ContractNext \/ UNCHANGED Contract!contractVars
<1>1. 1 \in Contract!Components /\ s.status \in {"pass", "warn", "fail"}
  <2>1. s.status \in {"pass", "warn", "fail"}
    BY DEF Reports
  <2>2. QED
    BY <2>1 DEF Contract!Components
<1>2. CASE Announce(s)
  BY <1>1, <1>2, RefinesAnnounce DEF Contract!ContractNext, Contract!ComponentStep
<1>3. CASE UNCHANGED <<currentStatus, statusChangeChan>>
  BY <1>3, RefinesStutter
<1>4. QED
  BY <1>2, <1>3 DEF UpdateStatus

LEMMA RefinesReceive ==
  ASSUME TypeOK, Receive
  PROVE  Contract!Receive(1)
<1>1. statusChangeChan > 0 /\ statusChangeChan' = statusChangeChan - 1
      /\ currentStatus' = currentStatus /\ closed' = closed
  BY DEF TypeOK, Receive, contextVars
<1>2. QED
  BY <1>1, OneIsAFunction DEF Contract!Receive

LEMMA RefinesClose ==
  ASSUME TypeOK, Close
  PROVE  Contract!CloseComponent(1)
<1>1. closed' = TRUE /\ currentStatus' = currentStatus /\ statusChangeChan' = statusChangeChan
  BY DEF Close, statusVars
<1>2. QED
  BY <1>1, OneIsAFunction DEF Contract!CloseComponent

LEMMA RefinesNext == IInv /\ [Next]_vars => [Contract!ContractNext]_(Contract!contractVars)
<1> SUFFICES ASSUME IInv, [Next]_vars
             PROVE  Contract!ContractNext \/ UNCHANGED Contract!contractVars
  OBVIOUS
<1>1. TypeOK /\ 1 \in Contract!Components
  BY DEF IInv, Contract!Components
<1>2. CASE ChangeStatus
  BY <1>1, <1>2, RefinesUpdate, ReportIsAReport DEF ChangeStatus, contextVars
<1>3. CASE Disable \/ Enable
  <2>1. PICK s \in Reports : Announce(s) /\ closed' = closed
    BY <1>3, ReportIsAReport DEF Disable, Enable
  <2>2. s.status \in {"pass", "warn", "fail"}
    BY DEF Reports
  <2>3. QED
    BY <1>1, <2>1, <2>2, RefinesAnnounce DEF Contract!ContractNext, Contract!ComponentStep
<1>4. CASE Close
  BY <1>1, <1>4, RefinesClose DEF Contract!ContractNext, Contract!ComponentStep
<1>5. ASSUME NEW l \in Loops, StoreResult(l)
      PROVE  Contract!ContractNext \/ UNCHANGED Contract!contractVars
  <2>1. result[l] \in Reports /\ closed' = closed
    BY <1>1, <1>5 DEF TypeOK, StoreResult, contextVars
  <2>2. QED
    BY <1>1, <1>5, <2>1, RefinesUpdate DEF StoreResult
<1>6. ASSUME NEW l \in Loops, Turn(l) \/ Tick(l) \/ LoopExit(l) \/ Gate(l) \/ Query(l)
      PROVE  UNCHANGED Contract!contractVars
  BY <1>6, RefinesStutter DEF Turn, Tick, LoopExit, LeaveSelect, Gate, Query, statusVars,
     contextVars
<1>7. CASE Receive
  BY <1>1, <1>7, RefinesReceive DEF Contract!ContractNext
<1>8. CASE ReadStatus \/ UNCHANGED vars
  BY <1>8, RefinesStutter DEF ReadStatus, vars, statusVars, contextVars
<1>9. QED
  BY <1>2, <1>3, <1>4, <1>5, <1>6, <1>7, <1>8 DEF Next, Application, HealthCheckLoop

\* The Vault checker keeps the promise the service is proved from.
THEOREM Implements == Spec => ImplementsContract
<1>1. Spec => []IInv
  BY Invariance
<1>2. QED
  BY <1>1, RefinesInit, RefinesNext, PTL DEF Spec, ImplementsContract, Contract!ContractSpec
=============================================================================
