------------------------ MODULE CoreComponentProofs ------------------------
(***************************************************************************)
(* Proofs about the core component, for any number of callers and calls.   *)
(* The inductive invariant says what the actor knows at each place of its  *)
(* loop, and who may be parked.                                            *)
(***************************************************************************)
EXTENDS CoreComponent, TLAPS

\* The actor is ahead of the stored status only between the hand-over and the store.
HandedInv ==
  /\ actor = "store" => lastStatus.rev <= handed.rev
  /\ actor # "store" => handed = lastStatus

\* Parked callers are in a call, each once.
QueueInv ==
  /\ \A i \in DOMAIN sendq : caller[sendq[i]] # NoCall
  /\ \A i, j \in DOMAIN sendq : sendq[i] = sendq[j] => i = j

\* Nobody is parked once the context is done, and late calls begin only then.
LateInv ==
  /\ cancelled => sendq = <<>> /\ actor # "parked"
  /\ \A p \in Callers : caller[p] # NoCall /\ caller[p].late => cancelled
  /\ ~handed.late
  /\ LateChangeIgnored

\* Only the actor closes the channel, and then it is gone.
ClosedInv == observerClosed => actor = "exited"

IInv ==
  /\ TypeOK
  /\ ClosedInv
  /\ SendNeverBlocks
  /\ HandedInv
  /\ ObserverCatchesUp
  /\ AnnouncedIsStored
  /\ QueueInv
  /\ LateInv

-----------------------------------------------------------------------------
\* Taking the head off a queue without repetitions leaves the others, and not the head.
LEMMA TailOfQueue ==
  ASSUME NEW S, NEW q \in Seq(S), q # <<>>,
         \A i, j \in DOMAIN q : q[i] = q[j] => i = j
  PROVE  /\ Head(q) \in S
         /\ Tail(q) \in Seq(S)
         /\ \A i \in DOMAIN Tail(q) : i + 1 \in DOMAIN q /\ Tail(q)[i] = q[i + 1]
         /\ \A i \in DOMAIN Tail(q) : Tail(q)[i] # Head(q)
         /\ \A i, j \in DOMAIN Tail(q) : Tail(q)[i] = Tail(q)[j] => i = j
<1>1. Len(q) \in Nat \ {0} /\ DOMAIN q = 1 .. Len(q) /\ Head(q) = q[1] /\ Head(q) \in S
  OBVIOUS
<1>2. Tail(q) \in Seq(S) /\ Len(Tail(q)) = Len(q) - 1
  OBVIOUS
<1>3. \A i \in DOMAIN Tail(q) : i \in Nat \ {0} /\ i + 1 \in DOMAIN q /\ Tail(q)[i] = q[i + 1]
  BY <1>1, <1>2
<1>4. \A i \in DOMAIN Tail(q) : Tail(q)[i] # Head(q)
  BY <1>1, <1>3
<1>5. \A i, j \in DOMAIN Tail(q) : Tail(q)[i] = Tail(q)[j] => i = j
  BY <1>1, <1>3
<1>6. QED
  BY <1>1, <1>2, <1>3, <1>4, <1>5

\* A caller that joins the queue and was not in it is in it once.
LEMMA AppendToQueue ==
  ASSUME NEW S, NEW q \in Seq(S), NEW p \in S,
         \A i \in DOMAIN q : q[i] # p,
         \A i, j \in DOMAIN q : q[i] = q[j] => i = j
  PROVE  /\ Append(q, p) \in Seq(S)
         /\ \A i \in DOMAIN Append(q, p) : Append(q, p)[i] = p \/ \E j \in DOMAIN q : Append(q, p)[i] = q[j]
         /\ \A i, j \in DOMAIN Append(q, p) : Append(q, p)[i] = Append(q, p)[j] => i = j
<1>1. Len(q) \in Nat /\ DOMAIN q = 1 .. Len(q)
  OBVIOUS
<1>2. Append(q, p) \in Seq(S) /\ DOMAIN Append(q, p) = 1 .. Len(q) + 1
  OBVIOUS
<1>3. /\ \A i \in 1 .. Len(q) : Append(q, p)[i] = q[i]
      /\ Append(q, p)[Len(q) + 1] = p
  OBVIOUS
<1>4. QED
  BY <1>1, <1>2, <1>3

-----------------------------------------------------------------------------
LEMMA InitInv == Init => IInv
<1>1. SUFFICES ASSUME Init PROVE IInv
  OBVIOUS
<1>2. lastStatus \in ComponentStatus
  BY <1>1 DEF Init, ComponentStatus
<1>3. caller \in [Callers -> Change \cup {NoCall}]
  BY <1>1 DEF Init
<1>4. calls \in 0 .. MaxCalls
  BY <1>1, MaxCallsAssumption DEF Init
<1>5. <<>> \in Seq(ComponentStatus) /\ <<>> \in Seq(Callers) /\ Len(<<>>) <= 1
  OBVIOUS
<1>6. TypeOK
  BY <1>1, <1>2, <1>3, <1>4, <1>5, Zenon DEF Init, TypeOK
<1>7. QED
  BY <1>1, <1>6 DEF Init, IInv, SendNeverBlocks, ClosedInv, HandedInv, ObserverCatchesUp,
     AnnouncedIsStored, QueueInv, LateInv, LateChangeIgnored

\* A call begins.
LEMMA ChangeStatusInv ==
  ASSUME IInv, NEW p \in Callers, NEW s \in Statuses, ChangeStatus(p, s)
  PROVE  IInv'
<1>1. TypeOK'
  BY MaxCallsAssumption DEF IInv, TypeOK, ChangeStatus, Change
<1>2. caller[p] = NoCall /\ \A q \in Callers \ {p} : caller'[q] = caller[q]
  BY DEF IInv, TypeOK, ChangeStatus
<1>3. caller'[p] = [status |-> s, late |-> cancelled] /\ caller'[p] # NoCall
  BY NoCallAssumption DEF IInv, TypeOK, ChangeStatus, Change
<1>4. QueueInv'
  BY <1>2, <1>3 DEF IInv, TypeOK, QueueInv, ChangeStatus
<1>5. LateInv'
  BY <1>2, <1>3 DEF IInv, TypeOK, LateInv, LateChangeIgnored, ChangeStatus
<1>6. QED
  BY <1>1, <1>4, <1>5 DEF IInv, SendNeverBlocks, ClosedInv, HandedInv, ObserverCatchesUp,
     AnnouncedIsStored, ChangeStatus

\* The actor gets a change, whichever side was parked.
LEMMA PassOnInv ==
  ASSUME IInv, NEW p \in Callers, caller[p] # NoCall, ~cancelled,
         actor \in {"parked", "select"}, PassOn(p),
         sendq' \in Seq(Callers),
         \A i \in DOMAIN sendq' : sendq'[i] # p /\ caller[sendq'[i]] # NoCall,
         \A i, j \in DOMAIN sendq' : sendq'[i] = sendq'[j] => i = j
  PROVE  IInv'
<1>1. caller[p] \in Change
  BY DEF IInv, TypeOK
<1>2. handed' \in ComponentStatus /\ handed'.rev = handed.rev + 1 /\ ~handed'.late
  BY <1>1 DEF IInv, TypeOK, PassOn, Change, ComponentStatus, LateInv
<1>3. TypeOK'
  BY <1>2 DEF IInv, TypeOK, PassOn
<1>4. HandedInv'
  BY <1>2 DEF IInv, TypeOK, HandedInv, PassOn, ComponentStatus
<1>5. \A q \in Callers \ {p} : caller'[q] = caller[q]
  BY DEF IInv, TypeOK, PassOn
<1>6. caller'[p] = NoCall
  BY DEF IInv, TypeOK, PassOn
<1>7. QueueInv'
  BY <1>5, <1>3 DEF QueueInv, TypeOK
<1>8. LateInv'
  BY <1>2, <1>5, <1>6 DEF IInv, LateInv, LateChangeIgnored, PassOn
<1>9. QED
  BY <1>3, <1>4, <1>7, <1>8 DEF IInv, SendNeverBlocks, ClosedInv, ObserverCatchesUp,
     AnnouncedIsStored, PassOn

LEMMA HandToActorInv ==
  ASSUME IInv, NEW p \in Callers, HandToActor(p)
  PROVE  IInv'
<1>1. caller[p] # NoCall /\ ~cancelled /\ actor = "parked" /\ PassOn(p) /\ sendq' = sendq
  BY DEF HandToActor, InSelect, IInv, LateInv
<1>2. \A i \in DOMAIN sendq : sendq[i] # p /\ caller[sendq[i]] # NoCall
  BY DEF HandToActor, InSelect, Parked, IInv, QueueInv
<1>3. QED
  BY <1>1, <1>2, PassOnInv DEF IInv, TypeOK, QueueInv

LEMMA TakeParkedInv ==
  ASSUME IInv, TakeParked
  PROVE  IInv'
<1> DEFINE p == Head(sendq)
<1>1. /\ p \in Callers
      /\ sendq' \in Seq(Callers)
      /\ \A i \in DOMAIN sendq' : i + 1 \in DOMAIN sendq /\ sendq'[i] = sendq[i + 1]
      /\ \A i \in DOMAIN sendq' : sendq'[i] # p
      /\ \A i, j \in DOMAIN sendq' : sendq'[i] = sendq'[j] => i = j
  BY TailOfQueue DEF TakeParked, IInv, TypeOK, QueueInv
<1>2. \A i \in DOMAIN sendq' : caller[sendq'[i]] # NoCall
  BY <1>1 DEF IInv, QueueInv
<1>3. 1 \in DOMAIN sendq /\ p = sendq[1]
  BY DEF TakeParked, IInv, TypeOK
<1>4. caller[p] # NoCall
  BY <1>3 DEF IInv, QueueInv
<1>5. ~cancelled /\ actor = "select" /\ PassOn(p)
  BY DEF TakeParked, IInv, LateInv
<1> HIDE DEF p
<1>6. QED
  BY <1>1, <1>2, <1>4, <1>5, PassOnInv

LEMMA CallerInv ==
  ASSUME IInv, NEW p \in Callers, Caller(p)
  PROVE  IInv'
<1>1. CASE HandToActor(p)
  BY <1>1, HandToActorInv
<1>2. CASE GiveUp(p)
  <2>1. \A q \in Callers \ {p} : caller'[q] = caller[q]
    BY <1>2 DEF IInv, TypeOK, GiveUp
  <2>2. TypeOK'
    BY <1>2 DEF IInv, TypeOK, GiveUp
  <2>3. QueueInv'
    BY <1>2, <2>1 DEF IInv, TypeOK, QueueInv, GiveUp, InSelect, Parked
  <2>4. LateInv'
    BY <1>2, <2>1 DEF IInv, TypeOK, LateInv, LateChangeIgnored, GiveUp
  <2>5. QED
    BY <1>2, <2>2, <2>3, <2>4 DEF IInv, SendNeverBlocks, ClosedInv, HandedInv, ObserverCatchesUp,
       AnnouncedIsStored, GiveUp
<1>3. CASE Park(p)
  <2>1. \A i \in DOMAIN sendq : sendq[i] # p
    BY <1>3 DEF Park, InSelect, Parked
  <2>2. /\ sendq' \in Seq(Callers)
        /\ \A i \in DOMAIN sendq' : sendq'[i] = p \/ \E j \in DOMAIN sendq : sendq'[i] = sendq[j]
        /\ \A i, j \in DOMAIN sendq' : sendq'[i] = sendq'[j] => i = j
    BY <1>3, <2>1, AppendToQueue DEF IInv, TypeOK, QueueInv, Park
  <2>3. TypeOK'
    BY <1>3, <2>2 DEF IInv, TypeOK, Park
  <2>4. QueueInv'
    BY <1>3, <2>2 DEF IInv, QueueInv, Park, InSelect
  <2>5. LateInv'
    BY <1>3 DEF IInv, LateInv, LateChangeIgnored, Park
  <2>6. QED
    BY <1>3, <2>3, <2>4, <2>5 DEF IInv, SendNeverBlocks, ClosedInv, HandedInv, ObserverCatchesUp,
       AnnouncedIsStored, Park
<1>4. QED
  BY <1>1, <1>2, <1>3 DEF Caller

LEMMA CloseInv ==
  ASSUME IInv, Close
  PROVE  IInv'
<1>1. TypeOK'
  BY DEF IInv, TypeOK, Close
<1>2. LateInv'
  BY DEF IInv, TypeOK, LateInv, LateChangeIgnored, Close
<1>3. QueueInv'
  BY DEF QueueInv, Close
<1>4. QED
  BY <1>1, <1>2, <1>3 DEF IInv, TypeOK, SendNeverBlocks, ClosedInv, HandedInv, ObserverCatchesUp,
     AnnouncedIsStored, Close

LEMMA ActorInv ==
  ASSUME IInv, Actor
  PROVE  IInv'
<1>1. CASE TakeParked
  BY <1>1, TakeParkedInv
<1>2. CASE ActorPark
  BY <1>2 DEF IInv, TypeOK, SendNeverBlocks, ClosedInv, HandedInv, ObserverCatchesUp,
     AnnouncedIsStored, QueueInv, LateInv, LateChangeIgnored, ActorPark
<1>3. CASE ActorExit
  BY <1>3 DEF IInv, TypeOK, SendNeverBlocks, ClosedInv, HandedInv, ObserverCatchesUp,
     AnnouncedIsStored, QueueInv, LateInv, LateChangeIgnored, ActorExit
<1>4. CASE StoreStatus
  <2>1. TypeOK'
    BY <1>4 DEF IInv, TypeOK, StoreStatus
  <2>2. /\ \A i \in DOMAIN observerChange : observerChange[i].rev \in Nat
        /\ lastStatus.rev \in Nat /\ handed.rev \in Nat
        /\ lastStatus.rev <= handed.rev
    <3>1. \A i \in DOMAIN observerChange : observerChange[i] \in ComponentStatus
      BY DEF IInv, TypeOK
    <3>2. QED
      BY <3>1, <1>4 DEF IInv, TypeOK, HandedInv, StoreStatus, ComponentStatus
  <2>3. AnnouncedIsStored'
    BY <1>4, <2>2 DEF IInv, AnnouncedIsStored, StoreStatus
  <2>4. QED
    BY <1>4, <2>1, <2>3 DEF IInv, SendNeverBlocks, ClosedInv, HandedInv, ObserverCatchesUp, QueueInv,
       LateInv, LateChangeIgnored, StoreStatus
<1>5. CASE Drain
  BY <1>5 DEF IInv, TypeOK, SendNeverBlocks, ClosedInv, HandedInv, ObserverCatchesUp,
     AnnouncedIsStored, QueueInv, LateInv, LateChangeIgnored, Drain
<1>6. CASE Send
  <2>1. observerChange = <<>> /\ observerChange' = <<handed>> /\ handed = lastStatus
    <3>1. observerChange \in Seq(ComponentStatus) /\ Len(observerChange) < 1
      BY <1>6 DEF IInv, TypeOK, Send
    <3>2. observerChange = <<>>
      BY <3>1
    <3>3. Append(<<>>, handed) = <<handed>>
      OBVIOUS
    <3>4. QED
      BY <1>6, <3>2, <3>3 DEF IInv, HandedInv, Send
  <2>2. TypeOK'
    BY <1>6, <2>1 DEF IInv, TypeOK, Send
  <2>3. AnnouncedIsStored' /\ ObserverCatchesUp'
    BY <1>6, <2>1 DEF IInv, TypeOK, AnnouncedIsStored, ObserverCatchesUp, Send, ComponentStatus
  <2>4. QED
    BY <1>6, <2>2, <2>3 DEF IInv, SendNeverBlocks, ClosedInv, HandedInv, QueueInv, LateInv,
       LateChangeIgnored, Send
<1>7. QED
  BY <1>1, <1>2, <1>3, <1>4, <1>5, <1>6 DEF Actor

LEMMA ReceiveInv ==
  ASSUME IInv, Receive
  PROVE  IInv'
<1>1. /\ observerChange' = <<>>
      /\ seen' = Head(observerChange)
      /\ seen' \in ComponentStatus
  BY DEF IInv, TypeOK, Receive
<1>2. TypeOK'
  BY <1>1 DEF IInv, TypeOK, Receive
<1>3. ObserverCatchesUp'
  BY <1>1 DEF IInv, ObserverCatchesUp, Receive
<1>4. QED
  BY <1>1, <1>2, <1>3 DEF IInv, SendNeverBlocks, ClosedInv, HandedInv, AnnouncedIsStored, QueueInv,
     LateInv, LateChangeIgnored, Receive

LEMMA NextInv == IInv /\ [Next]_vars => IInv'
<1> SUFFICES ASSUME IInv, [Next]_vars PROVE IInv'
  OBVIOUS
<1>1. ASSUME NEW p \in Callers, NEW s \in Statuses, ChangeStatus(p, s) PROVE IInv'
  BY <1>1, ChangeStatusInv
<1>2. ASSUME NEW p \in Callers, Disable(p) \/ Enable(p) PROVE IInv'
  BY <1>2, ChangeStatusInv, ComponentStatusesAssumption DEF Disable, Enable
<1>3. CASE UNCHANGED vars
  BY <1>3 DEF vars, IInv, TypeOK, SendNeverBlocks, ClosedInv, HandedInv, ObserverCatchesUp,
     AnnouncedIsStored, QueueInv, LateInv, LateChangeIgnored
<1>4. QED
  BY <1>1, <1>2, <1>3, CallerInv, CloseInv, ActorInv, ReceiveInv DEF Next

\* The inductive invariant holds in every reachable state.
THEOREM Invariance == Spec => []IInv
BY InitInv, NextInv, PTL DEF Spec

\* Type correctness of the core component.
THEOREM TypeCorrect == Spec => []TypeOK
<1>1. IInv => TypeOK
  BY DEF IInv
<1>2. QED
  BY <1>1, Invariance, PTL

\* The actor's blocking send (component.go:61) always finds room.
THEOREM SendFindsRoom == Spec => []SendNeverBlocks
<1>1. IInv => SendNeverBlocks
  BY DEF IInv
<1>2. QED
  BY <1>1, Invariance, PTL

\* The reader ends with the stored status, whenever the actor is between two changes.
THEOREM CatchesUp == Spec => []ObserverCatchesUp
<1>1. IInv => ObserverCatchesUp
  BY DEF IInv
<1>2. QED
  BY <1>1, Invariance, PTL

\* No status is announced before it is stored.
THEOREM StoredFirst == Spec => []AnnouncedIsStored
<1>1. IInv => AnnouncedIsStored
  BY DEF IInv
<1>2. QED
  BY <1>1, Invariance, PTL

\* A call that begins after Close() leaves the status alone.
THEOREM LateIgnored == Spec => []LateChangeIgnored
<1>1. IInv => LateChangeIgnored
  BY DEF IInv, LateInv
<1>2. QED
  BY <1>1, Invariance, PTL

-----------------------------------------------------------------------------
(* Refinement: every step of the core component is a step of the contract or *)
(* leaves what the service sees unchanged.                                   *)

LEMMA OneIsAFunction ==
  ASSUME NEW a, NEW b
  PROVE  One(a)[1] = a /\ [One(a) EXCEPT ![1] = b] = One(b)
BY DEF One

LEMMA RefinesInit == Init => Contract!ContractInit
<1>1. SUFFICES ASSUME Init PROVE Contract!ContractInit
  OBVIOUS
<1>2. lastStatus.status \in Statuses /\ Queued = 0 /\ Owed = FALSE
  BY <1>1 DEF Init, Owed, Queued
<1>3. One(lastStatus.status) \in [1 .. 1 -> Statuses]
  BY <1>2 DEF One
<1>4. QED
  BY <1>1, <1>2, <1>3 DEF Contract!ContractInit, Contract!Components, One, Init

\* The steps of the actor and of the reader, one contract step each.
LEMMA RefinesStore ==
  ASSUME IInv, StoreStatus
  PROVE  \E s \in Statuses : Contract!Store(1, s)
<1>1. handed.status \in Statuses
  BY DEF IInv, TypeOK, ComponentStatus
<1>2. lastStatus' = handed /\ Owed' = TRUE /\ Queued' = Queued
      /\ cancelled' = cancelled /\ observerClosed' = observerClosed
  BY DEF StoreStatus, Owed, Queued
<1>3. Contract!Store(1, handed.status)
  BY <1>2, OneIsAFunction DEF Contract!Store
<1>4. QED
  BY <1>1, <1>3

LEMMA RefinesDrain ==
  ASSUME IInv, Drain
  PROVE  Contract!Drain(1)
<1>1. Queued \in {0, 1} /\ Queued' = 0
  <2>1. observerChange \in Seq(ComponentStatus) /\ Len(observerChange) <= 1
    BY DEF IInv, TypeOK
  <2>2. Len(observerChange) \in Nat /\ Len(<<>>) = 0
    BY <2>1
  <2>3. Queued \in {0, 1}
    <3>1. \A n \in Nat : n <= 1 => n \in {0, 1}
      OBVIOUS
    <3>2. QED
      BY <2>1, <2>2, <3>1, Zenon DEF Queued
  <2>4. Queued' = 0
    BY <2>2 DEF Drain, Queued
  <2>5. QED
    BY <2>3, <2>4
<1>2. Queued' = IF Queued > 0 THEN Queued - 1 ELSE Queued
  BY <1>1
<1>3. Owed = TRUE /\ Owed' = Owed /\ lastStatus' = lastStatus
      /\ cancelled' = cancelled /\ observerClosed' = observerClosed
  BY DEF Drain, Owed
<1>4. QED
  BY <1>2, <1>3, OneIsAFunction DEF Contract!Drain

LEMMA RefinesSend ==
  ASSUME IInv, Send
  PROVE  Contract!Send(1)
<1>1. Queued < 1 /\ Queued' = Queued + 1
  BY DEF IInv, TypeOK, Send, Queued
<1>2. observerClosed = FALSE
  BY DEF IInv, TypeOK, ClosedInv, Send
<1>3. Owed = TRUE /\ Owed' = FALSE /\ lastStatus' = lastStatus
      /\ cancelled' = cancelled /\ observerClosed' = observerClosed
  BY DEF Send, Owed
<1>4. QED
  BY <1>1, <1>2, <1>3, OneIsAFunction DEF Contract!Send

LEMMA RefinesReceive ==
  ASSUME IInv, Receive
  PROVE  Contract!Receive(1)
<1>1. Queued > 0 /\ Queued' = Queued - 1
  BY DEF IInv, TypeOK, Receive, Queued
<1>2. Owed' = Owed /\ lastStatus' = lastStatus
      /\ cancelled' = cancelled /\ observerClosed' = observerClosed
  BY DEF Receive, Owed
<1>3. QED
  BY <1>1, <1>2, OneIsAFunction DEF Contract!Receive

LEMMA RefinesClose ==
  ASSUME IInv, Close
  PROVE  Contract!CloseComponent(1)
<1>1. cancelled' = TRUE /\ Owed' = Owed /\ Queued' = Queued /\ lastStatus' = lastStatus
      /\ observerClosed' = observerClosed
  BY DEF Close, Owed, Queued
<1>2. QED
  BY <1>1, OneIsAFunction DEF Contract!CloseComponent

LEMMA RefinesExit ==
  ASSUME IInv, ActorExit
  PROVE  Contract!CloseChannel(1)
<1>1. cancelled = TRUE
  BY DEF ActorExit, IInv, TypeOK
<1>2. observerClosed' = TRUE /\ Owed' = Owed /\ Queued' = Queued
      /\ lastStatus' = lastStatus /\ cancelled' = cancelled
  BY DEF ActorExit, Owed, Queued
<1>3. QED
  BY <1>1, <1>2, OneIsAFunction DEF Contract!CloseChannel

\* Calls, hand-overs and parking are not visible to the service.
LEMMA RefinesStutter ==
  ASSUME IInv,
         UNCHANGED <<lastStatus, observerChange, observerClosed, cancelled>>,
         Owed' = Owed
  PROVE  UNCHANGED Contract!contractVars
BY DEF Contract!contractVars, Queued

LEMMA RefinesNext == IInv /\ [Next]_vars => [Contract!ContractNext]_(Contract!contractVars)
<1> SUFFICES ASSUME IInv, [Next]_vars
             PROVE  Contract!ContractNext \/ UNCHANGED Contract!contractVars
  OBVIOUS
<1>1. ASSUME NEW p \in Callers, NEW s \in Statuses, ChangeStatus(p, s)
      PROVE  UNCHANGED Contract!contractVars
  BY <1>1, RefinesStutter DEF ChangeStatus, Owed
<1>2. ASSUME NEW p \in Callers, Disable(p) \/ Enable(p)
      PROVE  UNCHANGED Contract!contractVars
  BY <1>1, <1>2, ComponentStatusesAssumption DEF Disable, Enable
<1>3. ASSUME NEW p \in Callers, Caller(p)
      PROVE  UNCHANGED Contract!contractVars
  BY <1>3, RefinesStutter DEF Caller, HandToActor, GiveUp, Park, PassOn, Owed
<1>4. CASE TakeParked \/ ActorPark \/ UNCHANGED vars
  BY <1>4, RefinesStutter DEF TakeParked, ActorPark, PassOn, Owed, vars
<1>5. 1 \in Contract!Components
  BY DEF Contract!Components
<1>6. CASE StoreStatus
  BY <1>5, <1>6, RefinesStore DEF Contract!ContractNext, Contract!ComponentStep
<1>7. CASE Drain
  BY <1>5, <1>7, RefinesDrain DEF Contract!ContractNext, Contract!ComponentStep
<1>8. CASE Send
  BY <1>5, <1>8, RefinesSend DEF Contract!ContractNext, Contract!ComponentStep
<1>9. CASE Receive
  BY <1>5, <1>9, RefinesReceive DEF Contract!ContractNext
<1>10. CASE Close
  BY <1>5, <1>10, RefinesClose DEF Contract!ContractNext, Contract!ComponentStep
<1>11. CASE ActorExit
  BY <1>5, <1>11, RefinesExit DEF Contract!ContractNext, Contract!ComponentStep
<1>12. QED
  BY <1>1, <1>2, <1>3, <1>4, <1>6, <1>7, <1>8, <1>9, <1>10, <1>11 DEF Next, Actor

\* A core component keeps the promise the service is proved from.
THEOREM Implements == Spec => ImplementsContract
<1>1. Spec => []IInv
  BY Invariance
<1>2. QED
  BY <1>1, RefinesInit, RefinesNext, PTL DEF Spec, ImplementsContract, Contract!ContractSpec
=============================================================================
