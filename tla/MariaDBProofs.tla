---------------------------- MODULE MariaDBProofs ---------------------------
(***************************************************************************)
(* The safety of the MariaDB checker.  What makes the closing of the       *)
(* channel safe is that Close gets past wg.Wait() only when the goroutine  *)
(* has left, and that a goroutine that has left never comes back.          *)
(***************************************************************************)
EXTENDS MariaDBChecker, TLAPS

\* Where Close is says what has been done.
CloseInv ==
  /\ closer # "open" => stopped
  /\ channelClosed => closer \in {"closing", "closed"}
  /\ db = "closed" => closer = "closed"
  /\ closer \in {"closing", "closed"} => pc = "exited"

IInv == TypeOK /\ CloseInv /\ ReaderKnows

-----------------------------------------------------------------------------
LEMMA InitIInv == Init => IInv
<1> SUFFICES ASSUME Init PROVE IInv
  OBVIOUS
<1>1. TypeOK
  <2>1. statusChange \in 0 .. 1
    BY DEF Init
  <2>2. /\ lastStatus \in Reports /\ newStatus \in Reports /\ lastRead \in Reports
        /\ channelClosed \in BOOLEAN /\ stopped \in BOOLEAN
    BY Zenon DEF Init, Reports
  <2>3. QED
    BY <2>1, <2>2 DEF Init, TypeOK
<1>2. CloseInv
  BY DEF Init, CloseInv
<1>3. ReaderKnows
  BY DEF Init, ReaderKnows
<1>4. QED
  BY <1>1, <1>2, <1>3 DEF IInv

LEMMA RunIInv ==
  ASSUME IInv, Run
  PROVE  IInv'
<1>1. CASE StartPing
  BY <1>1 DEF IInv, TypeOK, CloseInv, ReaderKnows, StartPing, Reports, closeVars, readerVars
<1>2. CASE EndPing
  BY <1>2 DEF IInv, TypeOK, CloseInv, ReaderKnows, EndPing, Reports, closeVars, readerVars
\* The only step that changes the status: it leaves a value in the channel.
<1>3. CASE UpdateStatus
  <2>1. TypeOK'
    BY <1>3 DEF IInv, TypeOK, UpdateStatus, closeVars, readerVars
  <2>2. CloseInv'
    BY <1>3 DEF IInv, CloseInv, UpdateStatus, closeVars
  <2>3. ReaderKnows'
    BY <1>3 DEF IInv, ReaderKnows, UpdateStatus, readerVars
  <2>4. QED
    BY <2>1, <2>2, <2>3 DEF IInv
<1>4. CASE Tick
  BY <1>4 DEF IInv, TypeOK, CloseInv, ReaderKnows, Tick, closeVars, readerVars
<1>5. CASE Exit
  BY <1>5 DEF IInv, TypeOK, CloseInv, ReaderKnows, Exit, closeVars, readerVars
<1>6. QED
  BY <1>1, <1>2, <1>3, <1>4, <1>5 DEF Run

LEMMA CloseIInv ==
  ASSUME IInv, Close
  PROVE  IInv'
<1>1. CASE Stop
  BY <1>1 DEF IInv, TypeOK, CloseInv, ReaderKnows, Stop, readerVars
<1>2. CASE CloseChannel
  BY <1>2 DEF IInv, TypeOK, CloseInv, ReaderKnows, CloseChannel, readerVars
<1>3. CASE CloseDB
  BY <1>3 DEF IInv, TypeOK, CloseInv, ReaderKnows, CloseDB, readerVars
<1>4. QED
  BY <1>1, <1>2, <1>3 DEF Close

LEMMA ReaderIInv ==
  ASSUME IInv, Receive \/ ReadStatus
  PROVE  IInv'
<1>1. CASE Receive
  BY <1>1 DEF IInv, TypeOK, CloseInv, ReaderKnows, Receive, closeVars
<1>2. CASE ReadStatus
  BY <1>2 DEF IInv, TypeOK, CloseInv, ReaderKnows, ReadStatus, closeVars
<1>3. QED
  BY <1>1, <1>2

LEMMA StutterIInv ==
  ASSUME IInv, UNCHANGED vars
  PROVE  IInv'
BY DEF IInv, TypeOK, CloseInv, ReaderKnows, vars, closeVars, readerVars

\* The inductive invariant holds in every reachable state.
THEOREM Invariance == Spec => []IInv
<1>1. IInv /\ [Next]_vars => IInv'
  BY RunIInv, CloseIInv, ReaderIInv, StutterIInv DEF Next
<1>2. QED
  BY <1>1, InitIInv, PTL DEF Spec

\* The channel and the database are closed only after the goroutine has left
\* (mariadb/checker.go:60-65), so that no send meets the closed channel.
THEOREM ClosesAfterExit == Spec => []StopsBeforeItCloses
<1>1. IInv => StopsBeforeItCloses
  BY DEF IInv, CloseInv, StopsBeforeItCloses
<1>2. QED
  BY <1>1, Invariance, PTL

\* A reader that waits on an empty channel knows the stored status: the non-blocking
\* send loses no change (mariadb/checker.go:132-144).
THEOREM ReaderIsTold == Spec => []ReaderKnows
<1>1. IInv => ReaderKnows
  BY DEF IInv
<1>2. QED
  BY <1>1, Invariance, PTL

\* Type correctness of the MariaDB checker.
THEOREM TypeCorrect == Spec => []TypeOK
<1>1. IInv => TypeOK
  BY DEF IInv
<1>2. QED
  BY <1>1, Invariance, PTL

-----------------------------------------------------------------------------
(* Refinement: the checker stores and sends in one step, which is the contract's *)
(* StoreAndSend; an unchanged status is a step the service does not see.         *)

LEMMA OneIsAFunction ==
  ASSUME NEW a, NEW b
  PROVE  One(a)[1] = a /\ [One(a) EXCEPT ![1] = b] = One(b)
BY DEF One

LEMMA RefinesInit == Init => Contract!ContractInit
<1> SUFFICES ASSUME Init PROVE Contract!ContractInit
  OBVIOUS
<1>1. lastStatus.status = "warn" /\ statusChange = 0 /\ stopped = FALSE /\ channelClosed = FALSE
  BY DEF Init, Initializing
<1>2. One(lastStatus.status) \in [1 .. 1 -> {"pass", "warn", "fail"}]
  BY <1>1 DEF One
<1>3. QED
  BY <1>1, <1>2 DEF Contract!ContractInit, Contract!Components, One

LEMMA RefinesUpdate ==
  ASSUME IInv, UpdateStatus
  PROVE  \/ \E s \in {"pass", "warn", "fail"} : Contract!StoreAndSend(1, s)
         \/ UNCHANGED Contract!contractVars
<1>1. newStatus.status \in {"pass", "warn", "fail"}
  BY DEF IInv, TypeOK, Reports, Initializing, Healthy, Failed
<1>2. channelClosed' = channelClosed /\ stopped' = stopped /\ lastStatus' = newStatus
  BY DEF UpdateStatus, closeVars
<1>3. CASE newStatus = lastStatus
  BY <1>2, <1>3 DEF UpdateStatus, Contract!contractVars
<1>4. CASE newStatus # lastStatus
  <2>1. statusChange' = IF statusChange < 1 THEN statusChange + 1 ELSE statusChange
    BY <1>4 DEF UpdateStatus, IInv, TypeOK
  <2>2. Contract!StoreAndSend(1, newStatus.status)
    BY <1>2, <2>1, OneIsAFunction DEF Contract!StoreAndSend
  <2>3. QED
    BY <1>1, <2>2
<1>5. QED
  BY <1>3, <1>4

LEMMA RefinesReceive ==
  ASSUME IInv, Receive
  PROVE  Contract!Receive(1)
<1>1. statusChange > 0 \/ channelClosed = TRUE
  BY DEF IInv, TypeOK, Receive
<1>2. statusChange' = IF statusChange > 0 THEN statusChange - 1 ELSE statusChange
  BY DEF IInv, TypeOK, Receive
<1>3. lastStatus' = lastStatus /\ stopped' = stopped /\ channelClosed' = channelClosed
  BY DEF Receive, closeVars
<1>4. QED
  BY <1>1, <1>2, <1>3, OneIsAFunction DEF Contract!Receive

LEMMA RefinesClose ==
  ASSUME IInv, Close
  PROVE  \/ Contract!CloseComponent(1) \/ Contract!CloseChannel(1)
         \/ UNCHANGED Contract!contractVars
<1>1. CASE Stop
  BY <1>1, OneIsAFunction DEF Stop, Contract!CloseComponent
\* The context was cancelled before the wait.
<1>2. CASE CloseChannel
  <2>1. stopped = TRUE
    BY <1>2 DEF CloseChannel, IInv, TypeOK, CloseInv
  <2>2. QED
    BY <1>2, <2>1, OneIsAFunction DEF CloseChannel, Contract!CloseChannel
<1>3. CASE CloseDB
  BY <1>3 DEF CloseDB, Contract!contractVars
<1>4. QED
  BY <1>1, <1>2, <1>3 DEF Close

LEMMA RefinesNext == IInv /\ [Next]_vars => [Contract!ContractNext]_(Contract!contractVars)
<1> SUFFICES ASSUME IInv, [Next]_vars
             PROVE  Contract!ContractNext \/ UNCHANGED Contract!contractVars
  OBVIOUS
<1>1. 1 \in Contract!Components
  BY DEF Contract!Components
<1>2. CASE UpdateStatus
  BY <1>1, <1>2, RefinesUpdate DEF Contract!ContractNext, Contract!ComponentStep
<1>3. CASE StartPing \/ EndPing \/ Tick \/ Exit \/ ReadStatus \/ UNCHANGED vars
  BY <1>3 DEF StartPing, EndPing, Tick, Exit, ReadStatus, closeVars, vars, Contract!contractVars
<1>4. CASE Close
  BY <1>1, <1>4, RefinesClose DEF Contract!ContractNext, Contract!ComponentStep
<1>5. CASE Receive
  BY <1>1, <1>5, RefinesReceive DEF Contract!ContractNext
<1>6. QED
  BY <1>2, <1>3, <1>4, <1>5 DEF Next, Run

\* The MariaDB checker keeps the promise the service is proved from.
THEOREM Implements == Spec => ImplementsContract
<1>1. Spec => []IInv
  BY Invariance
<1>2. QED
  BY <1>1, RefinesInit, RefinesNext, PTL DEF Spec, ImplementsContract, Contract!ContractSpec
=============================================================================
