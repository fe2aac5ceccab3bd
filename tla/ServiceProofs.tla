--------------------------- MODULE ServiceProofs ----------------------------
(***************************************************************************)
(* Proofs about the service, for any number of components and of probes,   *)
(* any buffer sizes, and every component that keeps the contract.          *)
(*                                                                         *)
(* "With nothing in flight the service agrees with its components" is not  *)
(* inductive: while news is in flight it says nothing.  The invariant is   *)
(* StatusExplained and its counterpart for a recalculation in progress.    *)
(* They hold because only Acquire, which starts to read every component    *)
(* afresh, takes news off its way.                                         *)
(***************************************************************************)
EXTENDS Service, TLAPS

\* The RWMutex: one writer, and no reader while it works.
LockInv ==
  /\ \A r \in Scanners : scanner[r] \in {"announced", "scanning"} => writer = r
  /\ \A r \in Scanners, p \in Probes :
       scanner[r] = "scanning" => probe[p] # "collecting"

\* A probe that is not collecting starts with the first component.
ProbeInv == \A p \in Probes : probe[p] # "collecting" => next[p] = 1

\* What a recalculation has read so far is explained like the published status.
ReadSoFar(v, r) ==
  /\ scan[r].overall = WorstBefore(v, scan[r].next)
  /\ \A c \in Components : c < scan[r].next /\ v[c] # status[c] => OnItsWay(c)

ScanExplained ==
  ~cancelled =>
    \A r \in Scanners : scanner[r] = "scanning" =>
      \E v \in [Components -> StatusEnum] : ReadSoFar(v, r)

IInv ==
  /\ TypeOK
  /\ LockInv
  /\ ProbeInv
  /\ ScanExplained
  /\ StatusExplained

-----------------------------------------------------------------------------
LEMMA StatusIsEnum ==
  ASSUME TypeOK
  PROVE  status \in [Components -> StatusEnum]
BY StatusesAssumption DEF TypeOK, ContractTypeOK

LEMMA WorstType ==
  ASSUME NEW v, NEW i
  PROVE  WorstBefore(v, i) \in Aggregates
BY DEF WorstBefore, Aggregates

\* One turn of the loop of recalculateStatus extends the worst status by one component;
\* after a failure the remaining components do not matter.
LEMMA ScanStepLemma ==
  ASSUME NEW v \in [Components -> StatusEnum], NEW u \in [Components -> StatusEnum],
         NEW i \in Components, NEW w,
         w = [next |-> i, overall |-> WorstBefore(v, i)],
         \A c \in Components : c < i => u[c] = v[c]
  PROVE  ScanStep(w, u[i]).overall = WorstBefore(u, ScanStep(w, u[i]).next)
<1>1. N \in Nat /\ i \in 1 .. N /\ i \in Nat
  BY NAssumption DEF Components
<1>2. WorstBefore(v, i) = WorstBefore(u, i)
  BY DEF WorstBefore
<1>3. \A c \in Components : c \in Nat /\ (c < i + 1 <=> c < i \/ c = i) /\ c < N + 1
  BY <1>1 DEF Components
<1>4. CASE u[i] = "fail"
  <2>1. ScanStep(w, u[i]) = [next |-> N + 1, overall |-> "fail"]
    BY <1>4 DEF ScanStep
  <2>2. WorstBefore(u, N + 1) = "fail"
    BY <1>3, <1>4 DEF WorstBefore
  <2>3. QED
    BY <1>1, <2>1, <2>2
<1>5. CASE u[i] = "warn"
  <2>1. ScanStep(w, u[i]) = [next |-> i + 1,
                             overall |-> IF w.overall = "pass" THEN "warn" ELSE w.overall]
    BY <1>5 DEF ScanStep
  <2>2. WorstBefore(u, i + 1) = IF WorstBefore(u, i) = "fail" THEN "fail" ELSE "warn"
    BY <1>3, <1>5 DEF WorstBefore
  <2>3. WorstBefore(u, i) \in Aggregates
    BY WorstType
  <2>4. QED
    BY <1>1, <1>2, <2>1, <2>2, <2>3 DEF Aggregates
<1>6. CASE u[i] \notin {"fail", "warn"}
  <2>1. ScanStep(w, u[i]) = [next |-> i + 1, overall |-> w.overall]
    BY <1>6 DEF ScanStep
  <2>2. WorstBefore(u, i + 1) = WorstBefore(u, i)
    BY <1>3, <1>6 DEF WorstBefore
  <2>3. QED
    BY <1>1, <1>2, <2>1, <2>2
<1>7. QED
  BY <1>4, <1>5, <1>6

-----------------------------------------------------------------------------
(* Type correctness. *)

LEMMA InitType == Init => TypeOK
<1> SUFFICES ASSUME Init PROVE TypeOK
  OBVIOUS
<1>1. ContractTypeOK
  BY CapacityAssumption DEF Init, ContractInit, ContractTypeOK
<1>2. NoChecks \in [Components -> StatusEnum] /\ NoReport \in StatusEnum
  BY DEF NoChecks, NoReport, StatusEnum
<1>3. 1 \in 1 .. N + 1 /\ 0 \in 0 .. N + 1
  BY NAssumption
<1>4. /\ scanner \in [Scanners -> {"idle", "called", "announced", "scanning", "exited"}]
      /\ scan \in [Scanners -> [next : 1 .. N + 1, overall : Aggregates]]
  <2>1. scanner \in [Scanners -> {"idle", "called", "announced", "scanning", "exited"}]
    BY DEF Init
  <2>2. [next |-> 1, overall |-> "pass"] \in [next : 1 .. N + 1, overall : Aggregates]
    BY <1>3 DEF Aggregates
  <2>3. scan \in [Scanners -> [next : 1 .. N + 1, overall : Aggregates]]
    BY <2>2, Zenon DEF Init
  <2>4. QED
    BY <2>1, <2>3
<1>5. /\ checks \in [Probes -> [Components -> StatusEnum]]
      /\ health \in [Probes -> StatusEnum]
      /\ next \in [Probes -> 1 .. N + 1]
      /\ closer \in 0 .. N + 1
  BY <1>2, <1>3 DEF Init
<1>6. /\ watcher \in [Components -> {"waiting", "trigger", "exited"}]
      /\ probe \in [Probes -> {"idle", "waiting", "collecting", "answering"}]
      /\ answer \in [Probes -> {0, 200, 503}]
      /\ truth \in [Probes -> {0, 200, 503}]
      /\ writer \in Scanners \cup {None}
      /\ cancelled \in BOOLEAN
  BY DEF Init
<1>7. serviceStatus \in Aggregates /\ recalc \in 0 .. 1
  BY DEF Init, Aggregates
<1>8. QED
  BY <1>1, <1>4, <1>5, <1>6, <1>7, Zenon DEF TypeOK

\* A component moves.
LEMMA ComponentType ==
  ASSUME ContractTypeOK, NEW c \in Components, ComponentStep(c)
  PROVE  ContractTypeOK'
<1>1. queued[c] \in Nat /\ Capacity[c] \in Nat /\ queued[c] <= Capacity[c]
  BY CapacityAssumption DEF ContractTypeOK
<1>2. ASSUME NEW s \in Statuses, Store(c, s) PROVE ContractTypeOK'
  BY <1>2 DEF ContractTypeOK, Store
<1>3. ASSUME NEW s \in Statuses, StoreAndSend(c, s) PROVE ContractTypeOK'
  BY <1>1, <1>3 DEF ContractTypeOK, StoreAndSend
<1>4. CASE Drain(c)
  BY <1>1, <1>4 DEF ContractTypeOK, Drain
<1>5. CASE Send(c)
  BY <1>1, <1>5 DEF ContractTypeOK, Send
<1>6. CASE Abandon(c) \/ CloseComponent(c) \/ CloseChannel(c)
  BY <1>6 DEF ContractTypeOK, Abandon, CloseComponent, CloseChannel
<1>7. QED
  BY <1>2, <1>3, <1>4, <1>5, <1>6 DEF ComponentStep

LEMMA ReceiveType ==
  ASSUME ContractTypeOK, NEW c \in Components, Receive(c)
  PROVE  ContractTypeOK'
<1>1. queued[c] \in Nat /\ Capacity[c] \in Nat /\ queued[c] <= Capacity[c]
  BY CapacityAssumption DEF ContractTypeOK
<1>2. QED
  BY <1>1 DEF ContractTypeOK, Receive

LEMMA WatcherType ==
  ASSUME TypeOK, NEW c \in Components, Watcher(c)
  PROVE  TypeOK'
<1>1. CASE WatcherReceive(c)
  BY <1>1, ReceiveType DEF TypeOK, WatcherReceive, lockVars, probeVars
<1>2. CASE WatcherTrigger(c)
  BY <1>2 DEF TypeOK, ContractTypeOK, WatcherTrigger, contractVars, lockVars, probeVars
<1>3. CASE WatcherExit(c)
  BY <1>3 DEF TypeOK, ContractTypeOK, WatcherExit, contractVars, lockVars, probeVars
<1>4. QED
  BY <1>1, <1>2, <1>3 DEF Watcher

LEMMA ScanStepType ==
  ASSUME NEW w \in [next : 1 .. N + 1, overall : Aggregates], w.next \in Components, NEW s
  PROVE  ScanStep(w, s) \in [next : 1 .. N + 1, overall : Aggregates]
BY NAssumption DEF ScanStep, Components, Aggregates

LEMMA RecalculationType ==
  ASSUME TypeOK, NEW r \in Scanners, Recalculation(r)
  PROVE  TypeOK'
<1>1. CASE Announce(r)
  BY <1>1 DEF TypeOK, ContractTypeOK, Announce, contractVars, probeVars
<1>2. CASE Acquire(r)
  <2>1. [next |-> 1, overall |-> "pass"] \in [next : 1 .. N + 1, overall : Aggregates]
    BY NAssumption DEF Aggregates
  <2>2. QED
    BY <1>2, <2>1 DEF TypeOK, ContractTypeOK, Acquire, contractVars, probeVars
<1>3. CASE ScanComponent(r)
  <2>1. scan'[r] \in [next : 1 .. N + 1, overall : Aggregates]
    BY <1>3, ScanStepType DEF TypeOK, ScanComponent
  <2>2. QED
    BY <1>3, <2>1 DEF TypeOK, ContractTypeOK, ScanComponent, contractVars, probeVars
<1>4. CASE Publish(r)
  BY <1>4 DEF TypeOK, ContractTypeOK, Publish, contractVars, probeVars
<1>5. QED
  BY <1>1, <1>2, <1>3, <1>4 DEF Recalculation

LEMMA ProbeType ==
  ASSUME TypeOK, NEW p \in Probes, Probe(p)
  PROVE  TypeOK'
<1>1. CASE Request(p)
  BY <1>1 DEF TypeOK, ContractTypeOK, Request, contractVars, lockVars
<1>2. CASE RLock(p)
  BY <1>2 DEF TypeOK, ContractTypeOK, RLock, contractVars, lockVars
<1>3. CASE Collect(p)
  <2>1. next[p] + 1 \in 1 .. N + 1
    BY <1>3, NAssumption DEF Collect, Components
  <2>2. status[next[p]] \in StatusEnum
    BY <1>3, StatusIsEnum DEF Collect
  <2>3. checks' \in [Probes -> [Components -> StatusEnum]]
    BY <1>3, <2>2 DEF TypeOK, Collect
  <2>4. QED
    BY <1>3, <2>1, <2>3 DEF TypeOK, ContractTypeOK, Collect, contractVars, lockVars
<1>4. CASE HealthReturns(p)
  <2>1. NoChecks \in [Components -> StatusEnum]
    BY DEF NoChecks, StatusEnum
  <2>2. TruthNow \in {0, 200, 503} /\ 1 \in 1 .. N + 1
    BY NAssumption DEF TruthNow
  <2>3. serviceStatus \in StatusEnum
    BY DEF TypeOK, Aggregates, StatusEnum
  <2>4. /\ health' \in [Probes -> StatusEnum]
        /\ truth' \in [Probes -> {0, 200, 503}]
        /\ probe' \in [Probes -> {"idle", "waiting", "collecting", "answering"}]
    BY <1>4, <2>2, <2>3 DEF TypeOK, HealthReturns
  <2>5. /\ checks' \in [Probes -> [Components -> StatusEnum]]
        /\ next' \in [Probes -> 1 .. N + 1]
    BY <1>4, <2>1, <2>2 DEF TypeOK, HealthReturns
  <2>6. QED
    BY <1>4, <2>4, <2>5 DEF TypeOK, ContractTypeOK, HealthReturns, contractVars, lockVars
<1>5. CASE Respond(p)
  <2>1. ReadyCode(health[p]) \in {0, 200, 503} /\ NoReport \in StatusEnum
    BY DEF ReadyCode, NoReport, StatusEnum
  <2>2. QED
    BY <1>5, <2>1 DEF TypeOK, ContractTypeOK, Respond, contractVars, lockVars
<1>6. QED
  BY <1>1, <1>2, <1>3, <1>4, <1>5 DEF Probe

LEMMA NextType == TypeOK /\ [Next]_vars => TypeOK'
<1> SUFFICES ASSUME TypeOK, [Next]_vars PROVE TypeOK'
  OBVIOUS
<1>1. ASSUME NEW c \in Components, ComponentMoves(c) PROVE TypeOK'
  BY <1>1, ComponentType DEF TypeOK, ComponentMoves, serviceVars
<1>2. CASE TakeRequest
  BY <1>2 DEF TypeOK, ContractTypeOK, TakeRequest, contractVars, probeVars, Scanners
<1>3. CASE RecalculatorExit
  BY <1>3 DEF TypeOK, ContractTypeOK, RecalculatorExit, contractVars, probeVars, Scanners
<1>4. CASE Cancel
  <2>1. 1 \in 0 .. N + 1
    BY NAssumption
  <2>2. QED
    BY <1>4, <2>1 DEF TypeOK, ContractTypeOK, Cancel, contractVars, lockVars, probeVars
<1>5. CASE CloseNext
  <2>1. closer \in Components /\ closer + 1 \in 0 .. N + 1
    BY <1>5, NAssumption DEF CloseNext, Components
  <2>2. ContractTypeOK'
    BY <1>5, <2>1, ComponentType DEF TypeOK, CloseNext, ComponentStep
  <2>3. QED
    BY <1>5, <2>1, <2>2 DEF TypeOK, CloseNext, lockVars, probeVars
<1>6. CASE UNCHANGED vars
  BY <1>6 DEF TypeOK, ContractTypeOK, vars, contractVars, serviceVars
<1>7. QED
  BY <1>1, <1>2, <1>3, <1>4, <1>5, <1>6, WatcherType, RecalculationType, ProbeType DEF Next

\* Type correctness of the service composed with its components.
THEOREM TypeCorrect == Spec => []TypeOK
BY InitType, NextType, PTL DEF Spec

-----------------------------------------------------------------------------
(* The lock, and the probes' starting point. *)

LEMMA InitLock == Init => LockInv /\ ProbeInv
BY DEF Init, LockInv, ProbeInv

LEMMA NextLock == TypeOK /\ LockInv /\ ProbeInv /\ [Next]_vars => LockInv' /\ ProbeInv'
<1> SUFFICES ASSUME TypeOK, LockInv, ProbeInv, [Next]_vars PROVE LockInv' /\ ProbeInv'
  OBVIOUS
<1>1. ASSUME UNCHANGED <<lockVars, probe, next>> PROVE LockInv' /\ ProbeInv'
  BY <1>1 DEF LockInv, ProbeInv, lockVars
<1>2. ASSUME NEW c \in Components, Watcher(c) \/ ComponentMoves(c)
      PROVE  LockInv' /\ ProbeInv'
  BY <1>1, <1>2 DEF Watcher, WatcherReceive, WatcherTrigger, WatcherExit, ComponentMoves,
     serviceVars, lockVars, probeVars
<1>3. CASE Cancel \/ CloseNext \/ UNCHANGED vars
  BY <1>1, <1>3 DEF Cancel, CloseNext, vars, serviceVars, lockVars, probeVars
<1>4. CASE TakeRequest \/ RecalculatorExit
  BY <1>4 DEF TypeOK, LockInv, ProbeInv, TakeRequest, RecalculatorExit, probeVars
<1>5. ASSUME NEW r \in Scanners, Recalculation(r) PROVE LockInv' /\ ProbeInv'
  <2>1. CASE Announce(r)
    BY <2>1, NoneAssumption DEF TypeOK, LockInv, ProbeInv, Announce, probeVars
  <2>2. CASE Acquire(r)
    BY <2>2 DEF TypeOK, LockInv, ProbeInv, Acquire, probeVars
  <2>3. CASE ScanComponent(r)
    BY <2>3 DEF TypeOK, LockInv, ProbeInv, ScanComponent, probeVars
  <2>4. CASE Publish(r)
    BY <2>4 DEF TypeOK, LockInv, ProbeInv, Publish, probeVars
  <2>5. QED
    BY <1>5, <2>1, <2>2, <2>3, <2>4 DEF Recalculation
<1>6. ASSUME NEW p \in Probes, Probe(p)
      PROVE  LockInv' /\ ProbeInv'
  <2>1. CASE Request(p)
    BY <2>1 DEF TypeOK, LockInv, ProbeInv, Request, lockVars
  <2>2. CASE RLock(p)
    BY <2>2, NoneAssumption DEF TypeOK, LockInv, ProbeInv, RLock, lockVars
  <2>3. CASE Collect(p)
    BY <2>3 DEF TypeOK, LockInv, ProbeInv, Collect, lockVars
  <2>4. CASE HealthReturns(p)
    BY <2>4 DEF TypeOK, LockInv, ProbeInv, HealthReturns, lockVars
  <2>5. CASE Respond(p)
    BY <2>5 DEF TypeOK, LockInv, ProbeInv, Respond, lockVars
  <2>6. QED
    BY <1>6, <2>1, <2>2, <2>3, <2>4, <2>5 DEF Probe
<1>7. QED
  BY <1>2, <1>3, <1>4, <1>5, <1>6 DEF Next

-----------------------------------------------------------------------------
(* News stays on its way.  Every step but Acquire, while the service is open, keeps *)
(* the news of a component on its way and puts a status it changes on its way.      *)

NewsStays ==
  \A c \in Components : OnItsWay(c) \/ status'[c] # status[c] => OnItsWay(c)'

LEMMA ComponentNews ==
  ASSUME TypeOK, NEW d \in Components, ComponentStep(d),
         UNCHANGED <<recalc, watcher, scanner>>
  PROVE  NewsStays
<1> SUFFICES ASSUME NEW c \in Components, OnItsWay(c) \/ status'[c] # status[c]
             PROVE  OnItsWay(c)'
  BY DEF NewsStays
<1>1. /\ queued[c] \in Nat /\ queued[d] \in Nat
      /\ Capacity[d] \in Nat \ {0} /\ queued[d] <= Capacity[d]
  BY CapacityAssumption DEF TypeOK, ContractTypeOK
<1>2. Requested' = Requested
  BY DEF Requested
<1>3. ASSUME NEW s \in Statuses, Store(d, s) PROVE OnItsWay(c)'
  BY <1>2, <1>3 DEF TypeOK, ContractTypeOK, Store, OnItsWay
<1>4. ASSUME NEW s \in Statuses, StoreAndSend(d, s) PROVE OnItsWay(c)'
  <2>1. c = d => queued'[c] > 0
    BY <1>1, <1>4 DEF TypeOK, ContractTypeOK, StoreAndSend
  <2>2. c # d => queued'[c] = queued[c] /\ status'[c] = status[c]
    BY <1>4 DEF TypeOK, ContractTypeOK, StoreAndSend
  <2>3. QED
    BY <1>2, <1>4, <2>1, <2>2 DEF StoreAndSend, OnItsWay
<1>5. CASE Drain(d)
  BY <1>2, <1>5 DEF TypeOK, ContractTypeOK, Drain, OnItsWay
<1>6. CASE Send(d)
  <2>1. c = d => queued'[c] > 0
    BY <1>1, <1>6 DEF TypeOK, ContractTypeOK, Send
  <2>2. c # d => queued'[c] = queued[c] /\ owed'[c] = owed[c]
    BY <1>6 DEF TypeOK, ContractTypeOK, Send
  <2>3. QED
    BY <1>2, <1>6, <2>1, <2>2 DEF Send, OnItsWay
<1>7. CASE Abandon(d)
  BY <1>2, <1>7 DEF TypeOK, ContractTypeOK, Abandon, OnItsWay
<1>8. CASE CloseComponent(d)
  BY <1>2, <1>8 DEF TypeOK, ContractTypeOK, CloseComponent, OnItsWay
<1>9. CASE CloseChannel(d)
  BY <1>2, <1>9 DEF CloseChannel, OnItsWay
<1>10. QED
  BY <1>3, <1>4, <1>5, <1>6, <1>7, <1>8, <1>9 DEF ComponentStep

LEMMA WatcherNews ==
  ASSUME TypeOK, ~cancelled, NEW d \in Components, Watcher(d)
  PROVE  NewsStays
<1> SUFFICES ASSUME NEW c \in Components, OnItsWay(c) \/ status'[c] # status[c]
             PROVE  OnItsWay(c)'
  BY DEF NewsStays
<1>1. CASE WatcherReceive(d)
  <2>1. Requested' = Requested /\ status' = status /\ owed' = owed /\ closing' = closing
    BY <1>1 DEF WatcherReceive, Receive, Requested, lockVars
  <2>2. c = d => watcher'[c] = "trigger"
    BY <1>1 DEF TypeOK, WatcherReceive
  <2>3. c # d => watcher'[c] = watcher[c] /\ queued'[c] = queued[c]
    BY <1>1 DEF TypeOK, ContractTypeOK, WatcherReceive, Receive
  <2>4. QED
    BY <2>1, <2>2, <2>3 DEF OnItsWay
<1>2. CASE WatcherTrigger(d)
  BY <1>2 DEF WatcherTrigger, OnItsWay, Requested
<1>3. QED
  BY <1>1, <1>2 DEF Watcher, WatcherExit

\* A request that is taken, or waits for the lock, is still a request; publishing and
\* scanning do not touch it.
LEMMA RequestNews ==
  ASSUME TypeOK, contractVars' = contractVars, watcher' = watcher,
         Requested => Requested'
  PROVE  NewsStays
BY DEF NewsStays, OnItsWay, contractVars

-----------------------------------------------------------------------------
(* Explanations stay valid under such a step. *)

LEMMA ExplanationStays ==
  ASSUME ~cancelled, NewsStays, UNCHANGED <<serviceStatus, scan, probe, checks, next>>,
         \A r \in Scanners : scanner'[r] = "scanning" <=> scanner[r] = "scanning",
         ScanExplained, StatusExplained
  PROVE  ScanExplained' /\ StatusExplained'
<1>1. ASSUME NEW r \in Scanners, scanner'[r] = "scanning"
      PROVE  \E v \in [Components -> StatusEnum] : ReadSoFar(v, r)'
  <2>1. PICK v \in [Components -> StatusEnum] : ReadSoFar(v, r)
    BY <1>1 DEF ScanExplained
  <2>2. ReadSoFar(v, r)'
    BY <2>1 DEF ReadSoFar, NewsStays
  <2>3. QED
    BY <2>2
<1>2. ASSUME ~Scanning'
      PROVE  \E v \in [Components -> StatusEnum] : (serviceStatus = Worst(v) /\ Explains(v))'
  <2>1. ~Scanning
    BY <1>2 DEF Scanning
  <2>2. PICK v \in [Components -> StatusEnum] : serviceStatus = Worst(v) /\ Explains(v)
    BY <2>1 DEF StatusExplained
  <2>3. Explains(v)'
    BY <2>2 DEF Explains, NewsStays
  <2>4. QED
    BY <2>2, <2>3
<1>3. QED
  BY <1>1, <1>2 DEF ScanExplained, StatusExplained

LEMMA AcquireExplained ==
  ASSUME IInv, NEW r \in Scanners, Acquire(r)
  PROVE  ScanExplained' /\ StatusExplained'
<1>1. scanner'[r] = "scanning" /\ Scanning'
  BY DEF IInv, TypeOK, Acquire, Scanning
<1>2. \A r2 \in Scanners : scanner'[r2] = "scanning" => r2 = r
  BY DEF IInv, TypeOK, LockInv, Acquire
<1>3. scan'[r] = [next |-> 1, overall |-> "pass"]
  BY DEF IInv, TypeOK, Acquire
<1>4. \A c \in Components : ~(c < 1)
  BY NAssumption DEF Components
<1>5. status' \in [Components -> StatusEnum]
  BY StatusIsEnum DEF IInv, Acquire, contractVars
<1>6. ReadSoFar(status, r)'
  BY <1>3, <1>4 DEF ReadSoFar, WorstBefore
<1>7. \E v \in [Components -> StatusEnum] : ReadSoFar(v, r)'
  BY <1>5, <1>6 DEF ReadSoFar
<1>8. QED
  BY <1>1, <1>2, <1>7 DEF ScanExplained, StatusExplained

\* The component just read is where the status read so far changes; those read before
\* may have moved since, and then news of them is on its way.
LEMMA ScanComponentExplained ==
  ASSUME IInv, NEW r \in Scanners, ScanComponent(r)
  PROVE  ScanExplained' /\ StatusExplained'
<1>1. Scanning' /\ \A r2 \in Scanners : scanner'[r2] = "scanning" => r2 = r
  BY DEF IInv, LockInv, ScanComponent, Scanning
<1>2. ASSUME ~cancelled PROVE \E v \in [Components -> StatusEnum] : ReadSoFar(v, r)'
  <2>1. PICK v \in [Components -> StatusEnum] : ReadSoFar(v, r)
    BY <1>2 DEF IInv, ScanExplained, ScanComponent
  <2> DEFINE i == scan[r].next
             u == [c \in Components |-> IF c < i THEN v[c] ELSE status[c]]
  <2>2. /\ i \in Components /\ i \in Nat
        /\ scan[r] = [next |-> i, overall |-> WorstBefore(v, i)]
    <3>1. scan[r] \in [next : 1 .. N + 1, overall : Aggregates] /\ i \in Components
      BY DEF IInv, TypeOK, ScanComponent
    <3>2. QED
      BY <2>1, <3>1, NAssumption DEF ReadSoFar, Components
  <2>3. u \in [Components -> StatusEnum]
    BY StatusIsEnum DEF IInv
  <2>4. /\ u[i] = status[i]
        /\ \A c \in Components : c < i => u[c] = v[c]
        /\ \A c \in Components : ~(c < i) => u[c] = status[c]
    BY <2>2
  <2>5. scan'[r] = ScanStep(scan[r], u[i])
    BY <2>4 DEF IInv, TypeOK, ScanComponent
  <2> HIDE DEF i, u
  <2>6. scan'[r].overall = WorstBefore(u, scan'[r].next)
    <3>1. \A c \in Components : c < i => u[c] = v[c]
      BY <2>4
    <3>2. ScanStep(scan[r], u[i]).overall = WorstBefore(u, ScanStep(scan[r], u[i]).next)
      BY <2>2, <2>3, <3>1, ScanStepLemma
    <3>3. QED
      BY <2>5, <3>2
  <2>7. \A c \in Components : OnItsWay(c)' = OnItsWay(c) /\ status'[c] = status[c]
    BY DEF ScanComponent, OnItsWay, Requested, contractVars
  <2>8. ASSUME NEW c \in Components, u[c] # status'[c] PROVE OnItsWay(c)'
    <3>1. c < i /\ v[c] # status[c]
      BY <2>4, <2>7, <2>8
    <3>2. QED
      BY <2>1, <2>7, <3>1 DEF ReadSoFar, i
  <2>9. QED
    BY <2>3, <2>6, <2>8 DEF ReadSoFar
<1>3. QED
  BY <1>1, <1>2 DEF ScanExplained, StatusExplained, ScanComponent

\* What was read to the end becomes the explanation of the published status; the write
\* lock kept every probe out meanwhile.
LEMMA PublishExplained ==
  ASSUME IInv, NEW r \in Scanners, Publish(r)
  PROVE  ScanExplained' /\ StatusExplained'
<1>1. \A r2 \in Scanners : scanner'[r2] # "scanning"
  BY DEF IInv, TypeOK, LockInv, Publish
<1>2. ASSUME ~cancelled
      PROVE  \E v \in [Components -> StatusEnum] : (serviceStatus = Worst(v) /\ Explains(v))'
  <2>1. PICK v \in [Components -> StatusEnum] : ReadSoFar(v, r)
    BY <1>2 DEF IInv, ScanExplained, Publish
  <2>2. serviceStatus' = Worst(v)
    BY <2>1 DEF ReadSoFar, Publish, Worst
  <2>3. Requested => Requested'
    BY DEF IInv, TypeOK, Publish, Requested
  <2>4. \A c \in Components : (OnItsWay(c) => OnItsWay(c)') /\ status'[c] = status[c]
    BY <2>3 DEF Publish, OnItsWay, contractVars
  <2>5. \A c \in Components : v[c] # status'[c] => OnItsWay(c)'
    BY <2>1, <2>4, NAssumption DEF ReadSoFar, Publish, Components
  <2>6. \A p \in Probes : probe'[p] # "collecting"
    BY DEF IInv, LockInv, Publish, probeVars
  <2>7. Explains(v)'
    BY <2>5, <2>6 DEF Explains
  <2>8. QED
    BY <2>2, <2>7 DEF Worst, WorstBefore
<1>3. QED
  BY <1>1, <1>2 DEF ScanExplained, StatusExplained, Publish

LEMMA RecalculationExplained ==
  ASSUME IInv, ~cancelled, NEW r \in Scanners, Recalculation(r)
  PROVE  ScanExplained' /\ StatusExplained'
<1>1. CASE Announce(r)
  <2>1. Requested => Requested'
    BY <1>1 DEF IInv, TypeOK, Announce, Requested
  <2>2. NewsStays
    BY <1>1, <2>1, RequestNews DEF IInv, Announce
  <2>3. \A r2 \in Scanners : scanner'[r2] = "scanning" <=> scanner[r2] = "scanning"
    BY <1>1 DEF IInv, TypeOK, Announce
  <2>4. QED
    BY <1>1, <2>2, <2>3, ExplanationStays DEF IInv, Announce, probeVars
<1>2. QED
  BY <1>1, AcquireExplained, ScanComponentExplained, PublishExplained DEF Recalculation

\* What a probe collects is a component's own status.
LEMMA ProbeExplained ==
  ASSUME IInv, ~cancelled, NEW p \in Probes, Probe(p)
  PROVE  ScanExplained' /\ StatusExplained'
<1>1. UNCHANGED <<contractVars, recalc, watcher, scanner, scan, serviceStatus>>
  BY DEF Probe, Request, RLock, Collect, HealthReturns, Respond, lockVars
<1>2. \A c \in Components : OnItsWay(c)' = OnItsWay(c) /\ status'[c] = status[c]
  BY <1>1 DEF OnItsWay, Requested, contractVars
<1>3. ASSUME NEW r \in Scanners, scanner'[r] = "scanning"
      PROVE  \E v \in [Components -> StatusEnum] : ReadSoFar(v, r)'
  <2>1. PICK v \in [Components -> StatusEnum] : ReadSoFar(v, r)
    BY <1>1, <1>3 DEF IInv, ScanExplained
  <2>2. ReadSoFar(v, r)'
    BY <1>1, <1>2, <2>1 DEF ReadSoFar
  <2>3. QED
    BY <2>2
<1>4. ASSUME ~Scanning'
      PROVE  \E v \in [Components -> StatusEnum] : (serviceStatus = Worst(v) /\ Explains(v))'
  <2>1. ~Scanning
    BY <1>1, <1>4 DEF Scanning
  <2>2. PICK v \in [Components -> StatusEnum] : serviceStatus = Worst(v) /\ Explains(v)
    BY <2>1 DEF IInv, StatusExplained
  <2>3. ASSUME NEW q \in Probes, NEW c \in Components,
               probe'[q] = "collecting", c < next'[q], v[c] # checks'[q][c]
        PROVE  OnItsWay(c)'
    <3>1. CASE Request(p)
      BY <1>2, <2>2, <2>3, <3>1 DEF IInv, TypeOK, Request, Explains
    <3>2. CASE RLock(p)
      <4>1. q # p
        BY <2>3, <3>2, NAssumption DEF IInv, ProbeInv, RLock, Components
      <4>2. QED
        BY <1>2, <2>2, <2>3, <3>2, <4>1 DEF IInv, TypeOK, RLock, Explains
    <3>3. CASE Collect(p)
      <4>1. CASE q = p /\ c = next[p]
        <5>1. checks'[q][c] = status[c]
          BY <3>3, <4>1 DEF IInv, TypeOK, Collect
        <5>2. QED
          BY <1>2, <2>2, <2>3, <5>1 DEF Explains
      <4>2. CASE q = p /\ c # next[p]
        <5>1. checks'[q][c] = checks[q][c] /\ next'[q] = next[q] + 1
          BY <3>3, <4>2 DEF IInv, TypeOK, Collect
        <5>2. c < next[q]
          BY <2>3, <4>2, <5>1, NAssumption DEF IInv, TypeOK, Components
        <5>3. QED
          BY <1>2, <2>2, <2>3, <3>3, <5>1, <5>2 DEF Collect, Explains
      <4>3. CASE q # p
        BY <1>2, <2>2, <2>3, <3>3, <4>3 DEF IInv, TypeOK, Collect, Explains
      <4>4. QED
        BY <4>1, <4>2, <4>3
    <3>4. CASE HealthReturns(p)
      BY <1>2, <2>2, <2>3, <3>4 DEF IInv, TypeOK, HealthReturns, Explains
    <3>5. CASE Respond(p)
      BY <1>2, <2>2, <2>3, <3>5 DEF IInv, TypeOK, Respond, Explains
    <3>6. QED
      BY <3>1, <3>2, <3>3, <3>4, <3>5 DEF Probe
  <2>4. Explains(v)'
    BY <1>2, <2>2, <2>3 DEF Explains
  <2>5. QED
    BY <1>1, <2>2, <2>4
<1>5. QED
  BY <1>3, <1>4 DEF ScanExplained, StatusExplained

LEMMA CancelIsForever == cancelled /\ [Next]_vars => cancelled'
BY DEF Next, vars, serviceVars, Watcher, WatcherReceive, WatcherTrigger, WatcherExit,
   ComponentMoves, TakeRequest, RecalculatorExit, Recalculation, Announce, Acquire,
   ScanComponent, Publish, Cancel, CloseNext, Probe, Request, RLock, Collect,
   HealthReturns, Respond

LEMMA InitExplained == Init => ScanExplained /\ StatusExplained
<1> SUFFICES ASSUME Init PROVE ScanExplained /\ StatusExplained
  OBVIOUS
<1>1. Requested
  BY DEF Init, Requested, Scanners
<1>2. \A c \in Components : OnItsWay(c)
  BY <1>1 DEF OnItsWay
<1>3. \A r \in Scanners : scanner[r] # "scanning"
  BY DEF Init
<1> DEFINE v == [c \in Components |-> "pass"]
<1>4. v \in [Components -> StatusEnum] /\ serviceStatus = Worst(v)
  BY DEF Init, StatusEnum, Worst, WorstBefore
<1>5. QED
  BY <1>2, <1>3, <1>4 DEF ScanExplained, StatusExplained, Explains

LEMMA NextExplained == IInv /\ [Next]_vars => ScanExplained' /\ StatusExplained'
<1> SUFFICES ASSUME IInv, [Next]_vars PROVE ScanExplained' /\ StatusExplained'
  OBVIOUS
<1>1. CASE cancelled'
  BY <1>1 DEF ScanExplained, StatusExplained
<1>2. CASE ~cancelled'
  <2>1. ~cancelled
    BY <1>2, CancelIsForever
  <2>2. ASSUME NewsStays,
               UNCHANGED <<serviceStatus, scan, probe, checks, next, scanner>>
        PROVE  ScanExplained' /\ StatusExplained'
    BY <2>1, <2>2, ExplanationStays DEF IInv
  <2>3. ASSUME NEW c \in Components, Watcher(c) PROVE ScanExplained' /\ StatusExplained'
    <3>1. UNCHANGED <<serviceStatus, scan, probe, checks, next, scanner>>
      BY <2>3 DEF Watcher, WatcherReceive, WatcherTrigger, WatcherExit, lockVars, probeVars
    <3>2. QED
      BY <2>1, <2>2, <2>3, <3>1, WatcherNews DEF IInv
  <2>4. ASSUME NEW c \in Components, ComponentMoves(c)
        PROVE  ScanExplained' /\ StatusExplained'
    BY <2>2, <2>4, ComponentNews DEF IInv, ComponentMoves, serviceVars
  <2>5. CASE CloseNext
    BY <2>2, <2>5, ComponentNews DEF IInv, CloseNext, ComponentStep, lockVars, probeVars
  <2>6. CASE TakeRequest
    <3>1. Requested'
      BY <2>6 DEF IInv, TypeOK, TakeRequest, Requested, Scanners
    <3>2. NewsStays
      BY <2>6, <3>1, RequestNews DEF IInv, TakeRequest
    <3>3. \A r \in Scanners : scanner'[r] = "scanning" <=> scanner[r] = "scanning"
      BY <2>6 DEF IInv, TypeOK, TakeRequest
    <3>4. QED
      BY <2>1, <2>6, <3>2, <3>3, ExplanationStays DEF IInv, TakeRequest, probeVars
  <2>7. CASE UNCHANGED vars
    <3>1. NewsStays
      BY <2>7, RequestNews DEF IInv, Requested, vars, serviceVars
    <3>2. QED
      BY <2>2, <2>7, <3>1 DEF vars, serviceVars
  <2>8. CASE Cancel \/ RecalculatorExit
    BY <1>2, <2>1, <2>8 DEF Cancel, RecalculatorExit
  <2>9. QED
    BY <2>1, <2>3, <2>4, <2>5, <2>6, <2>7, <2>8, RecalculationExplained, ProbeExplained
       DEF Next
<1>3. QED
  BY <1>1, <1>2

-----------------------------------------------------------------------------
(* The theorems. *)

THEOREM Invariance == Spec => []IInv
<1>1. Init => IInv
  BY InitType, InitLock, InitExplained DEF IInv
<1>2. IInv /\ [Next]_vars => IInv'
  BY NextType, NextLock, NextExplained DEF IInv
<1>3. QED
  BY <1>1, <1>2, PTL DEF Spec

\* The published status is always explained by statuses that differ from the
\* components' own only where news is on its way.
THEOREM Explained == Spec => []StatusExplained
<1>1. IInv => StatusExplained
  BY DEF IInv
<1>2. QED
  BY <1>1, Invariance, PTL

LEMMA IInvConverged == IInv => Converged
<1> SUFFICES ASSUME IInv, Settled PROVE serviceStatus = Worst(status)
  BY DEF Converged
<1>1. PICK v \in [Components -> StatusEnum] : serviceStatus = Worst(v) /\ Explains(v)
  BY DEF IInv, StatusExplained, Settled
<1>2. \A c \in Components : v[c] = status[c]
  BY <1>1 DEF Explains, Settled
<1>3. v = status
  BY <1>1, <1>2, StatusIsEnum DEF IInv
<1>4. QED
  BY <1>1, <1>3

\* With nothing in flight the service's status is the worst of its components'.
THEOREM NoLostWakeUp == Spec => []Converged
BY Invariance, IInvConverged, PTL

LEMMA IInvReport == IInv => ReportSound
<1> SUFFICES ASSUME IInv, ~cancelled, NEW p \in Probes,
                    probe[p] = "collecting", next[p] = N + 1,
                    \A c \in Components : ~OnItsWay(c)
             PROVE  serviceStatus = Worst(checks[p])
  BY DEF ReportSound
<1>1. ~Scanning
  BY DEF IInv, LockInv, Scanning
<1>2. PICK v \in [Components -> StatusEnum] : serviceStatus = Worst(v) /\ Explains(v)
  BY <1>1 DEF IInv, StatusExplained
<1>3. \A c \in Components : v[c] = checks[p][c]
  BY <1>2, NAssumption DEF Explains, Components
<1>4. v = checks[p]
  BY <1>2, <1>3 DEF IInv, TypeOK
<1>5. QED
  BY <1>2, <1>4

\* A report that contradicts itself is followed by a recalculation.
THEOREM Reported == Spec => []ReportSound
BY Invariance, IInvReport, PTL

-----------------------------------------------------------------------------
(* The answer of a probe.  The status in its report was right when Health() returned, *)
(* if nothing was in flight, and nothing the service does later changes the report.   *)

AnswerInv ==
  /\ \A p \in Probes : probe[p] # "idle" => answer[p] = 0
  /\ \A p \in Probes :
       probe[p] = "answering" /\ truth[p] # 0 => ReadyCode(health[p]) = truth[p]
  /\ ReadyTellsTruth

LEMMA InitAnswer == Init => AnswerInv
BY DEF Init, AnswerInv, ReadyTellsTruth

\* With nothing in flight the published status gives the right code.
LEMMA CopyIsTrue ==
  ASSUME IInv, TruthNow # 0
  PROVE  ReadyCode(serviceStatus) = TruthNow
<1>1. Settled
  BY DEF TruthNow
<1>2. serviceStatus = Worst(status)
  BY <1>1, IInvConverged DEF Converged
<1>3. \A c \in Components : c < N + 1
  BY NAssumption DEF Components
<1>4. Worst(status) = "fail" <=> \E c \in Components : status[c] = "fail"
  BY <1>3 DEF Worst, WorstBefore
<1>5. QED
  BY <1>1, <1>2, <1>4 DEF ReadyCode, TruthNow

LEMMA ProbeAnswer ==
  ASSUME IInv, AnswerInv, NEW p \in Probes, Probe(p)
  PROVE  AnswerInv'
<1>1. CASE Request(p)
  BY <1>1 DEF IInv, TypeOK, AnswerInv, ReadyTellsTruth, Request
<1>2. CASE RLock(p)
  BY <1>2 DEF IInv, TypeOK, AnswerInv, ReadyTellsTruth, RLock
<1>3. CASE Collect(p)
  BY <1>3 DEF IInv, TypeOK, AnswerInv, ReadyTellsTruth, Collect
<1>4. CASE HealthReturns(p)
  <2>1. /\ health'[p] = serviceStatus /\ truth'[p] = TruthNow /\ answer'[p] = 0
        /\ \A q \in Probes \ {p} : /\ health'[q] = health[q] /\ truth'[q] = truth[q]
                                   /\ probe'[q] = probe[q] /\ answer'[q] = answer[q]
    BY <1>4 DEF IInv, TypeOK, AnswerInv, HealthReturns
  <2>2. truth'[p] # 0 => ReadyCode(health'[p]) = truth'[p]
    BY <2>1, CopyIsTrue
  <2>3. QED
    BY <2>1, <2>2 DEF AnswerInv, ReadyTellsTruth, ReadyCode
<1>5. CASE Respond(p)
  <2>1. /\ answer'[p] = ReadyCode(health[p]) /\ probe'[p] = "idle" /\ truth' = truth
        /\ \A q \in Probes \ {p} : /\ health'[q] = health[q]
                                   /\ probe'[q] = probe[q] /\ answer'[q] = answer[q]
    BY <1>5 DEF IInv, TypeOK, Respond
  <2>2. truth[p] # 0 => answer'[p] = truth[p]
    BY <1>5, <2>1 DEF AnswerInv, Respond
  <2>3. QED
    BY <2>1, <2>2 DEF AnswerInv, ReadyTellsTruth, ReadyCode
<1>6. QED
  BY <1>1, <1>2, <1>3, <1>4, <1>5 DEF Probe

LEMMA NextAnswer == IInv /\ AnswerInv /\ [Next]_vars => AnswerInv'
<1> SUFFICES ASSUME IInv, AnswerInv, [Next]_vars PROVE AnswerInv'
  OBVIOUS
<1>1. CASE UNCHANGED <<probe, health, answer, truth>>
  BY <1>1 DEF AnswerInv, ReadyTellsTruth, ReadyCode
<1>2. QED
  BY <1>1, ProbeAnswer DEF Next, vars, serviceVars, Watcher, WatcherReceive,
     WatcherTrigger, WatcherExit, ComponentMoves, TakeRequest, RecalculatorExit,
     Recalculation, Announce, Acquire, ScanComponent, Publish, Cancel, CloseNext, probeVars

\* A probe that reads the status with nothing in flight answers 503 exactly when some
\* component failed at that moment, whatever happens before the code is written.
THEOREM ReadyIsTrue == Spec => []ReadyTellsTruth
<1>1. Init => AnswerInv
  BY InitAnswer
<1>2. IInv /\ AnswerInv /\ [Next]_vars => AnswerInv'
  BY NextAnswer
<1>3. AnswerInv => ReadyTellsTruth
  BY DEF AnswerInv
<1>4. QED
  BY <1>1, <1>2, <1>3, Invariance, PTL DEF Spec
=============================================================================
