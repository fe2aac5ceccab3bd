---------------------------- MODULE UptimeProofs ----------------------------
(***************************************************************************)
(* The safety of the uptime component.  The goroutine is the only sender,  *)
(* and what it holds, what it has stored, what waits in the channel and    *)
(* what the reader was told are always in the order of their times.        *)
(***************************************************************************)
EXTENDS Uptime, TLAPS

\* Only between the measurement and the store is the goroutine ahead of the status.
MeasuredInv ==
  /\ pc = "store" => lastStatus.uptime <= newStatus.uptime
  /\ pc # "store" => newStatus = lastStatus
  /\ newStatus.uptime <= clock

\* The times of the reader, of an unread value and of the status never decrease.
OrderInv ==
  /\ seen.uptime <= lastStatus.uptime
  /\ observerChange # <<>> => /\ seen.uptime <= Head(observerChange).uptime
                              /\ Head(observerChange).uptime <= lastStatus.uptime

\* The send, which does not look at the context (uptime.go:81), comes after the drain.
SendNeverBlocks == pc = "send" => observerChange = <<>>

\* Only the goroutine closes the channel, and then it is gone.
ClosedInv == observerClosed => pc = "exited"

IInv == TypeOK /\ MeasuredInv /\ OrderInv /\ SendNeverBlocks /\ ClosedInv

-----------------------------------------------------------------------------
LEMMA ComponentStatusFields ==
  ASSUME NEW s \in ComponentStatus
  PROVE  s.status \in {"", "pass"} /\ s.uptime \in 0 .. MaxClock /\ s.uptime \in Nat
<1>1. s.status \in {"", "pass"}
  BY DEF ComponentStatus
<1>2. s.uptime \in 0 .. MaxClock
  BY DEF ComponentStatus
<1>3. s.uptime \in Nat
  BY <1>2, MaxClockAssumption
<1>4. QED
  BY <1>1, <1>2, <1>3

LEMMA InitInv == Init => IInv
<1> SUFFICES ASSUME Init PROVE IInv
  OBVIOUS
<1>1. 0 \in 0 .. MaxClock
  BY MaxClockAssumption
<1>2. Zero \in ComponentStatus /\ Zero.uptime = 0
  BY <1>1 DEF Zero, ComponentStatus
<1>3. <<>> \in Seq(ComponentStatus) /\ Len(<<>>) <= 1
  OBVIOUS
<1>4. TypeOK
  BY <1>1, <1>2, <1>3, Zenon DEF Init, TypeOK
<1>5. MeasuredInv /\ OrderInv
  BY <1>2 DEF Init, MeasuredInv, OrderInv
<1>6. QED
  BY <1>4, <1>5 DEF Init, IInv, SendNeverBlocks, ClosedInv

LEMMA PassInv ==
  ASSUME IInv, Pass
  PROVE  IInv'
<1>1. clock' \in 0 .. MaxClock /\ clock' >= clock
  BY MaxClockAssumption DEF IInv, TypeOK, Pass
<1>2. TypeOK'
  BY <1>1 DEF IInv, TypeOK, Pass
<1>3. MeasuredInv'
  <2>1. newStatus.uptime \in Nat
    BY ComponentStatusFields DEF IInv, TypeOK
  <2>2. newStatus.uptime <= clock'
    BY <2>1, MaxClockAssumption DEF IInv, TypeOK, MeasuredInv, Pass
  <2>3. QED
    BY <2>2 DEF IInv, MeasuredInv, Pass
<1>4. QED
  BY <1>2, <1>3 DEF IInv, OrderInv, SendNeverBlocks, ClosedInv, Pass

LEMMA GoroutineInv ==
  ASSUME IInv, Goroutine
  PROVE  IInv'
<1>0. /\ lastStatus \in ComponentStatus /\ newStatus \in ComponentStatus /\ seen \in ComponentStatus
      /\ observerChange \in Seq(ComponentStatus) /\ Len(observerChange) <= 1
      /\ clock \in 0 .. MaxClock
  BY DEF IInv, TypeOK
<1>1. /\ \A s \in ComponentStatus : s.uptime \in 0 .. MaxClock /\ s.uptime \in Nat
      /\ clock \in Nat
  <2>1. \A s \in ComponentStatus : s.uptime \in 0 .. MaxClock /\ s.uptime \in Nat
    BY ComponentStatusFields, Zenon
  <2>2. clock \in Nat
    BY <1>0, MaxClockAssumption
  <2>3. QED
    BY <2>1, <2>2
\* The clock is not behind what was measured before.
<1>2. CASE Measure
  <2>1. newStatus' \in ComponentStatus /\ newStatus'.uptime = clock
    BY <1>0, <1>2 DEF Measure, ComponentStatus
  <2>2. TypeOK'
    BY <1>2, <2>1 DEF IInv, TypeOK, Measure
  <2>3. MeasuredInv'
    BY <1>0, <1>1, <1>2, <2>1 DEF IInv, MeasuredInv, Measure
  <2>4. QED
    BY <1>2, <2>2, <2>3 DEF IInv, OrderInv, SendNeverBlocks, ClosedInv, Measure
<1>3. CASE StoreStatus
  <2>1. TypeOK'
    BY <1>0, <1>1, <1>3 DEF IInv, TypeOK, StoreStatus
  <2>2. lastStatus.uptime <= newStatus.uptime /\ lastStatus' = newStatus
    BY <1>3 DEF IInv, MeasuredInv, StoreStatus
  <2>3. OrderInv'
    <3>1. observerChange # <<>> => Head(observerChange) \in ComponentStatus
      BY <1>0, <1>1
    <3>2. QED
      BY <1>0, <1>1, <1>3, <2>2, <3>1 DEF IInv, OrderInv, StoreStatus
  <2>4. QED
    BY <1>3, <2>1, <2>3 DEF IInv, MeasuredInv, SendNeverBlocks, ClosedInv, StoreStatus
<1>4. CASE Drain
  BY <1>0, <1>1, <1>4 DEF IInv, TypeOK, MeasuredInv, OrderInv, SendNeverBlocks, ClosedInv, Drain
<1>5. CASE Send
  <2>1. observerChange' = <<newStatus>> /\ newStatus = lastStatus
    BY <1>0, <1>1, <1>5 DEF IInv, MeasuredInv, SendNeverBlocks, Send
  <2>2. Head(<<newStatus>>) = newStatus /\ <<newStatus>> \in Seq(ComponentStatus)
        /\ Len(<<newStatus>>) <= 1
    BY <1>0, <1>1
  <2>3. TypeOK'
    BY <1>5, <2>1, <2>2 DEF IInv, TypeOK, Send
  <2>4. OrderInv'
    BY <1>0, <1>1, <1>5, <2>1, <2>2 DEF IInv, OrderInv, Send
  <2>5. QED
    BY <1>5, <2>3, <2>4 DEF IInv, MeasuredInv, SendNeverBlocks, ClosedInv, Send
<1>6. CASE Tick
  BY <1>6 DEF IInv, TypeOK, MeasuredInv, OrderInv, SendNeverBlocks, ClosedInv, Tick
<1>7. CASE Exit
  BY <1>7 DEF IInv, TypeOK, MeasuredInv, OrderInv, SendNeverBlocks, ClosedInv, Exit
<1>8. QED
  BY <1>2, <1>3, <1>4, <1>5, <1>6, <1>7 DEF Goroutine

LEMMA ReceiveInv ==
  ASSUME IInv, Receive
  PROVE  /\ IInv'
         /\ seen.uptime <= seen'.uptime
<1>1. /\ seen' = Head(observerChange) /\ seen' \in ComponentStatus
      /\ observerChange' = <<>>
  BY DEF IInv, TypeOK, Receive
<1>2. seen.uptime <= seen'.uptime /\ seen'.uptime <= lastStatus.uptime
  BY <1>1 DEF IInv, OrderInv, Receive
<1>3. TypeOK'
  <2>1. <<>> \in Seq(ComponentStatus) /\ Len(<<>>) <= 1
    OBVIOUS
  <2>2. QED
    BY <1>1, <2>1 DEF IInv, TypeOK, Receive
<1>4. OrderInv'
  BY <1>1, <1>2 DEF OrderInv, Receive
<1>5. QED
  BY <1>1, <1>2, <1>3, <1>4 DEF IInv, MeasuredInv, SendNeverBlocks, ClosedInv, Receive

LEMMA NextInv ==
  ASSUME IInv, [Next]_vars
  PROVE  IInv'
<1>1. CASE Close
  BY <1>1 DEF IInv, TypeOK, MeasuredInv, OrderInv, SendNeverBlocks, ClosedInv, Close
<1>2. CASE UNCHANGED vars
  BY <1>2 DEF vars, IInv, TypeOK, MeasuredInv, OrderInv, SendNeverBlocks, ClosedInv
<1>3. QED
  BY <1>1, <1>2, PassInv, GoroutineInv, ReceiveInv DEF Next

\* The inductive invariant holds in every reachable state.
THEOREM Invariance == Spec => []IInv
<1>1. IInv /\ [Next]_vars => IInv'
  BY NextInv
<1>2. QED
  BY <1>1, InitInv, PTL DEF Spec

\* Type correctness of the uptime component.
THEOREM TypeCorrect == Spec => []TypeOK
<1>1. IInv => TypeOK
  BY DEF IInv
<1>2. QED
  BY <1>1, Invariance, PTL

\* The goroutine's blocking send (uptime.go:81) always finds room, also after Close().
THEOREM SendFindsRoom == Spec => []SendNeverBlocks
<1>1. IInv => SendNeverBlocks
  BY DEF IInv
<1>2. QED
  BY <1>1, Invariance, PTL

\* A reader is never told less than before, nor more than Status() returns at that moment.
THEOREM GoesForward == Spec => NeverGoesBack
<1> DEFINE A == seen'.uptime >= seen.uptime /\ seen'.uptime <= lastStatus'.uptime
<1>1. ASSUME IInv, [Next]_vars PROVE [A]_vars
  <2>1. seen'.uptime <= lastStatus'.uptime
    BY <1>1, NextInv DEF IInv, OrderInv
  <2>2. seen.uptime \in Nat
    BY <1>1, ComponentStatusFields DEF IInv, TypeOK
  <2>3. CASE Receive
    <3>1. IInv' /\ seen.uptime <= seen'.uptime
      BY <1>1, <2>3, ReceiveInv
    <3>2. seen'.uptime \in Nat
      BY <3>1, ComponentStatusFields DEF IInv, TypeOK
    <3>3. QED
      BY <2>1, <2>2, <3>1, <3>2
  <2>4. CASE UNCHANGED seen
    BY <2>1, <2>2, <2>4
  <2>5. QED
    BY <1>1, <2>3, <2>4 DEF Next, Pass, Goroutine, Measure, StoreStatus, Drain, Send, Tick, Exit,
       Close, vars
<1>2. QED
  BY <1>1, Invariance, PTL DEF Spec, NeverGoesBack

-----------------------------------------------------------------------------
(* Refinement: each step is one step of the contract or is not seen by the service. *)

Queued == Len(observerChange)
Owed   == pc \in {"drain", "send"}

LEMMA OneIsAFunction ==
  ASSUME NEW a, NEW b
  PROVE  One(a)[1] = a /\ [One(a) EXCEPT ![1] = b] = One(b)
BY DEF One

LEMMA RefinesInit == Init => Contract!ContractInit
<1> SUFFICES ASSUME Init PROVE Contract!ContractInit
  OBVIOUS
<1>0. lastStatus.status = ""
  BY DEF Init, Zero
<1>1. One(lastStatus.status) \in [1 .. 1 -> {"", "pass"}]
  BY <1>0 DEF One
<1>2. One(Len(observerChange)) = [c \in 1 .. 1 |-> 0]
  BY DEF Init, One
<1>3. One(pc \in {"drain", "send"}) = [c \in 1 .. 1 |-> FALSE]
  <2>1. (pc \in {"drain", "send"}) = FALSE
    BY DEF Init
  <2>2. QED
    BY <2>1, Zenon DEF One
<1>4. QED
  BY <1>1, <1>2, <1>3 DEF Contract!ContractInit, Contract!Components, One, Init

LEMMA RefinesStore ==
  ASSUME IInv, StoreStatus
  PROVE  \E s \in {"", "pass"} : Contract!Store(1, s)
<1>1. newStatus.status \in {"", "pass"}
  BY DEF IInv, TypeOK, ComponentStatus
<1>2. /\ lastStatus' = newStatus /\ Owed' = TRUE /\ Queued' = Queued
      /\ cancelled' = cancelled /\ observerClosed' = observerClosed
  BY DEF StoreStatus, Owed, Queued
<1>3. Contract!Store(1, newStatus.status)
  BY <1>2, OneIsAFunction DEF Contract!Store, Owed, Queued
<1>4. QED
  BY <1>1, <1>3

LEMMA RefinesDrain ==
  ASSUME IInv, Drain
  PROVE  Contract!Drain(1)
<1>1. Queued' = IF Queued > 0 THEN Queued - 1 ELSE Queued
  <2>1. Queued \in Nat /\ Queued <= 1
    BY DEF IInv, TypeOK, Queued
  <2>2. Queued' = 0
    BY DEF Drain, Queued
  <2>3. QED
    BY <2>1, <2>2
<1>2. /\ Owed = TRUE /\ Owed' = TRUE /\ lastStatus' = lastStatus
      /\ cancelled' = cancelled /\ observerClosed' = observerClosed
  BY DEF Drain, Owed
<1>3. QED
  BY <1>1, <1>2, OneIsAFunction DEF Contract!Drain, Owed, Queued

LEMMA RefinesSend ==
  ASSUME IInv, Send
  PROVE  Contract!Send(1)
<1>1. Queued < 1 /\ Queued' = Queued + 1
  BY DEF IInv, TypeOK, Send, Queued
<1>2. observerClosed = FALSE
  BY DEF IInv, TypeOK, ClosedInv, Send
<1>3. /\ Owed = TRUE /\ Owed' = FALSE /\ lastStatus' = lastStatus
      /\ cancelled' = cancelled /\ observerClosed' = observerClosed
  BY DEF Send, Owed
<1>4. QED
  BY <1>1, <1>2, <1>3, OneIsAFunction DEF Contract!Send, Owed, Queued

LEMMA RefinesReceive ==
  ASSUME IInv, Receive
  PROVE  Contract!Receive(1)
<1>1. Queued > 0 /\ Queued' = Queued - 1
  BY DEF IInv, TypeOK, Receive, Queued
<1>2. /\ Owed' = Owed /\ lastStatus' = lastStatus
      /\ cancelled' = cancelled /\ observerClosed' = observerClosed
  BY DEF Receive, Owed
<1>3. QED
  BY <1>1, <1>2, OneIsAFunction DEF Contract!Receive, Owed, Queued

LEMMA RefinesClose ==
  ASSUME IInv, Close
  PROVE  Contract!CloseComponent(1)
<1>1. /\ cancelled' = TRUE /\ Owed' = Owed /\ Queued' = Queued /\ lastStatus' = lastStatus
      /\ observerClosed' = observerClosed
  BY DEF Close, Owed, Queued
<1>2. QED
  BY <1>1, OneIsAFunction DEF Contract!CloseComponent, Owed, Queued

LEMMA RefinesExit ==
  ASSUME IInv, Exit
  PROVE  Contract!CloseChannel(1)
<1>1. /\ cancelled = TRUE /\ observerClosed' = TRUE /\ Owed' = Owed /\ Queued' = Queued
      /\ lastStatus' = lastStatus /\ cancelled' = cancelled
  BY DEF Exit, Owed, Queued, IInv, TypeOK
<1>2. QED
  BY <1>1, OneIsAFunction DEF Contract!CloseChannel, Owed, Queued

\* The service sees neither the clock nor a measurement nor a tick.
LEMMA RefinesStutter ==
  ASSUME IInv, Pass \/ Measure \/ Tick \/ UNCHANGED vars
  PROVE  UNCHANGED Contract!contractVars
<1>1. /\ Owed' = Owed /\ Queued' = Queued /\ lastStatus' = lastStatus
      /\ cancelled' = cancelled /\ observerClosed' = observerClosed
  BY DEF Pass, Measure, Tick, vars, Owed, Queued
<1>2. QED
  BY <1>1 DEF Contract!contractVars, Owed, Queued

LEMMA RefinesNext == IInv /\ [Next]_vars => [Contract!ContractNext]_(Contract!contractVars)
<1> SUFFICES ASSUME IInv, [Next]_vars
             PROVE  Contract!ContractNext \/ UNCHANGED Contract!contractVars
  OBVIOUS
<1>1. 1 \in Contract!Components
  BY DEF Contract!Components
<1>2. CASE StoreStatus
  BY <1>1, <1>2, RefinesStore DEF Contract!ContractNext, Contract!ComponentStep
<1>3. CASE Drain
  BY <1>1, <1>3, RefinesDrain DEF Contract!ContractNext, Contract!ComponentStep
<1>4. CASE Send
  BY <1>1, <1>4, RefinesSend DEF Contract!ContractNext, Contract!ComponentStep
<1>5. CASE Receive
  BY <1>1, <1>5, RefinesReceive DEF Contract!ContractNext
<1>6. CASE Close
  BY <1>1, <1>6, RefinesClose DEF Contract!ContractNext, Contract!ComponentStep
<1>7. CASE Exit
  BY <1>1, <1>7, RefinesExit DEF Contract!ContractNext, Contract!ComponentStep
<1>8. CASE Pass \/ Measure \/ Tick \/ UNCHANGED vars
  BY <1>8, RefinesStutter
<1>9. QED
  BY <1>2, <1>3, <1>4, <1>5, <1>6, <1>7, <1>8 DEF Next, Goroutine

\* The uptime component keeps the promise the service is proved from.
THEOREM Implements == Spec => ImplementsContract
<1>1. Spec => []IInv
  BY Invariance
<1>2. QED
  BY <1>1, RefinesInit, RefinesNext, PTL DEF Spec, ImplementsContract, Contract!ContractSpec
=============================================================================
