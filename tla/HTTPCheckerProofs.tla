-------------------------- MODULE HTTPCheckerProofs -------------------------
(***************************************************************************)
(* The safety of the HTTP checker, for any number of callers and of checks *)
(* that Enable starts.  Most steps are quiet: goroutines go from place to  *)
(* place, none of them to or from the broadcast of a status, and the       *)
(* channel and the context stay as they are.                               *)
(***************************************************************************)
EXTENDS HTTPChecker, TLAPS

Places == {"idle", "select", "exited", "disable", "enable", "check", "gate", "request",
           "update", "store", "drain", "send", "body"}

Broadcasting == {"drain", "send"}

\* Only the loop closes the channel, when Close has cancelled the context, and leaves.
ClosedInv == observerClosed => cancelled /\ pc[Loop] = "exited"

\* Only a send on the closed channel panics.
PanicInv == panicked => observerClosed

IInv == TypeOK /\ ClosedInv /\ PanicInv

\* The loop, once it has left, stays where it is.
Moves ==
  /\ pc' \in [Goroutines -> Places]
  /\ value' \in [Goroutines -> Statuses]
  /\ body' \in [Goroutines -> BOOLEAN]
  /\ pc[Loop] = "exited" => pc'[Loop] = "exited"

\* A step that the service does not see.
Quiet ==
  /\ Moves
  /\ \A g \in Goroutines : \/ pc'[g] = pc[g]
                           \/ pc[g] \notin Broadcasting /\ pc'[g] \notin Broadcasting
  /\ disabled' \in BOOLEAN
  /\ UNCHANGED <<lastStatus, observerChange, observerClosed, cancelled, panicked>>

-----------------------------------------------------------------------------
LEMMA LoopIsAGoroutine ==
  /\ Loop \in Goroutines
  /\ \A g \in Checkers : g \in Goroutines
  /\ \A p \in Callers : p \in Goroutines /\ p # Loop
  /\ \A k \in Checks : k \in Goroutines /\ k # Loop /\ k \notin Callers
BY GoroutinesAssumption DEF Goroutines, Checkers

LEMMA TypeOKParts ==
  ASSUME TypeOK
  PROVE  /\ pc \in [Goroutines -> Places]
         /\ value \in [Goroutines -> Statuses]
         /\ body \in [Goroutines -> BOOLEAN]
         /\ disabled \in BOOLEAN
BY DEF TypeOK, Places

\* One goroutine goes to a place.
LEMMA Goes ==
  ASSUME TypeOK, NEW g \in Goroutines, NEW place \in Places, Goto(g, place)
  PROVE  /\ pc' \in [Goroutines -> Places]
         /\ pc'[g] = place
         /\ \A h \in Goroutines : h # g => pc'[h] = pc[h]
BY TypeOKParts DEF Goto

LEMMA GoesMoves ==
  ASSUME TypeOK, NEW g \in Goroutines, NEW place \in Places, Goto(g, place),
         pc[g] # "exited", UNCHANGED <<value, body>>
  PROVE  Moves
BY TypeOKParts, Goes, LoopIsAGoroutine DEF Moves

LEMMA RestIsAPlace ==
  ASSUME NEW g
  PROVE  Rest(g) \in Places \ Broadcasting
BY DEF Rest, Places, Broadcasting

LEMMA UpdateMoves ==
  ASSUME TypeOK, NEW g \in Goroutines, NEW s \in Statuses, NEW b \in BOOLEAN, Update(g, s, b),
         pc[g] # "exited"
  PROVE  Moves /\ pc'[g] = "update" /\ \A h \in Goroutines : h # g => pc'[h] = pc[h]
<1>1. "update" \in Places
  BY DEF Places
<1>2. value' \in [Goroutines -> Statuses]
  BY TypeOKParts DEF Update
<1>3. body' \in [Goroutines -> BOOLEAN]
  BY TypeOKParts DEF Update
<1>4. /\ pc' \in [Goroutines -> Places]
      /\ pc'[g] = "update"
      /\ \A h \in Goroutines : h # g => pc'[h] = pc[h]
  BY <1>1, Goes DEF Update
<1>5. QED
  BY <1>2, <1>3, <1>4, LoopIsAGoroutine DEF Moves

LEMMA ReturnMoves ==
  ASSUME TypeOK, NEW g \in Goroutines, Return(g), pc[g] # "exited"
  PROVE  Moves /\ pc'[g] \notin Broadcasting /\ \A h \in Goroutines : h # g => pc'[h] = pc[h]
<1>1. PICK place \in Places \ Broadcasting : Goto(g, place)
  BY RestIsAPlace DEF Return, Places, Broadcasting
<1>2. /\ pc' \in [Goroutines -> Places]
      /\ pc'[g] = place
      /\ \A h \in Goroutines : h # g => pc'[h] = pc[h]
  BY <1>1, Goes
<1>3. value' \in [Goroutines -> Statuses] /\ body' = body
  BY TypeOKParts DEF Return, Statuses
<1>4. QED
  BY <1>1, <1>2, <1>3, TypeOKParts, LoopIsAGoroutine DEF Moves

\* One goroutine goes somewhere, and not to or from a broadcast.
LEMMA GoesQuietly ==
  ASSUME TypeOK, NEW g \in Goroutines, NEW place \in Places \ Broadcasting, Goto(g, place),
         pc[g] \notin Broadcasting \cup {"exited"}, UNCHANGED <<statusVars, value, body>>
  PROVE  Quiet
<1>1. Moves
  BY GoesMoves
<1>2. pc'[g] = place /\ \A h \in Goroutines : h # g => pc'[h] = pc[h]
  BY Goes
<1>3. QED
  BY <1>1, <1>2, TypeOKParts DEF Quiet, statusVars

LEMMA UpdatesQuietly ==
  ASSUME TypeOK, NEW g \in Goroutines, NEW s \in Statuses, NEW b \in BOOLEAN, Update(g, s, b),
         pc[g] \notin Broadcasting \cup {"exited"}, disabled' \in BOOLEAN,
         UNCHANGED <<lastStatus, observerChange, observerClosed, cancelled, panicked>>
  PROVE  Quiet
BY UpdateMoves DEF Quiet, Broadcasting

LEMMA ReturnsQuietly ==
  ASSUME TypeOK, NEW g \in Goroutines, Return(g), UNCHANGED statusVars,
         pc[g] \notin Broadcasting \cup {"exited"}
  PROVE  Quiet
BY ReturnMoves, TypeOKParts DEF Quiet, statusVars

-----------------------------------------------------------------------------
\* The quiet steps.

LEMMA CheckIsQuiet ==
  ASSUME TypeOK, NEW g \in Goroutines, PerformCheck(g)
  PROVE  Quiet
<1>1. /\ Rest(g) \in Places \ Broadcasting
      /\ {"gate", "request"} \subseteq Places \ Broadcasting
      /\ {"pass", "fail"} \subseteq Statuses
  BY RestIsAPlace DEF Places, Broadcasting, Statuses
<1>2. CASE CheckContext(g)
  <2>1. PICK place \in Places \ Broadcasting : Goto(g, place)
    BY <1>1, <1>2 DEF CheckContext
  <2>2. QED
    BY <1>2, <2>1, GoesQuietly DEF CheckContext, Broadcasting
<1>3. CASE Gate(g)
  <2>1. PICK place \in Places \ Broadcasting : Goto(g, place)
    BY <1>1, <1>3 DEF Gate
  <2>2. QED
    BY <1>3, <2>1, GoesQuietly DEF Gate, Broadcasting
<1>4. CASE RequestFails(g)
  BY <1>1, <1>4, UpdatesQuietly, TypeOKParts DEF RequestFails, statusVars, Broadcasting
<1>5. CASE RequestAnswers(g)
  <2>1. PICK s \in {"pass", "fail"} : Update(g, s, TRUE)
    BY <1>5 DEF RequestAnswers
  <2>2. pc[g] \notin Broadcasting \cup {"exited"} /\ disabled' \in BOOLEAN
    BY <1>5, TypeOKParts DEF RequestAnswers, statusVars, Broadcasting
  <2>3. QED
    BY <1>1, <1>5, <2>1, <2>2, UpdatesQuietly DEF RequestAnswers, statusVars
<1>6. CASE CloseBody(g)
  <2>1. pc[g] \notin Broadcasting \cup {"exited"} /\ disabled' \in BOOLEAN
    BY <1>6, TypeOKParts DEF CloseBody, statusVars, Broadcasting
  <2>2. CASE Update(g, "fail", FALSE)
    BY <1>1, <1>6, <2>1, <2>2, UpdatesQuietly DEF CloseBody, statusVars
  <2>3. CASE Goto(g, Rest(g)) /\ body' = [body EXCEPT ![g] = FALSE] /\ UNCHANGED value
    <3>1. pc' \in [Goroutines -> Places] /\ pc'[g] = Rest(g)
          /\ \A h \in Goroutines : h # g => pc'[h] = pc[h]
      BY <1>1, <2>3, Goes
    <3>2. body' \in [Goroutines -> BOOLEAN]
      BY <2>3, TypeOKParts
    <3>3. Moves
      BY <2>1, <2>3, <3>1, <3>2, TypeOKParts, LoopIsAGoroutine DEF Moves
    <3>4. QED
      BY <1>1, <1>6, <2>1, <3>1, <3>3 DEF Quiet, CloseBody, statusVars
  <2>4. QED
    BY <1>6, <2>2, <2>3 DEF CloseBody
<1>7. QED
  BY <1>2, <1>3, <1>4, <1>5, <1>6 DEF PerformCheck

LEMMA UpdateContextIsQuiet ==
  ASSUME TypeOK, NEW g \in Goroutines, UpdateContext(g)
  PROVE  Quiet
<1>1. pc[g] \notin Broadcasting \cup {"exited"} /\ "store" \in Places \ Broadcasting
  BY DEF UpdateContext, Broadcasting, Places
<1>2. CASE cancelled
  BY <1>1, <1>2, ReturnsQuietly DEF UpdateContext
<1>3. CASE ~cancelled
  BY <1>1, <1>3, GoesQuietly DEF UpdateContext
<1>4. QED
  BY <1>2, <1>3

LEMMA CallIsQuiet ==
  ASSUME TypeOK, NEW p \in Callers, CallDisable(p) \/ CallEnable(p) \/ Call(p)
  PROVE  Quiet
<1>1. /\ p \in Goroutines /\ p # Loop
      /\ {"disable", "enable", "idle"} \subseteq Places \ Broadcasting
      /\ "warn" \in Statuses
  BY LoopIsAGoroutine DEF Places, Broadcasting, Statuses
<1>2. CASE CallDisable(p) \/ CallEnable(p)
  BY <1>1, <1>2, GoesQuietly DEF CallDisable, CallEnable, Broadcasting
<1>3. CASE Disable(p)
  <2>1. pc[p] \notin Broadcasting \cup {"exited"}
    BY <1>3 DEF Disable, Broadcasting
  <2>2. CASE disabled
    BY <1>1, <1>3, <2>1, <2>2, GoesQuietly DEF Disable, statusVars
  <2>3. CASE ~disabled
    BY <1>1, <1>3, <2>1, <2>3, UpdatesQuietly DEF Disable
  <2>4. QED
    BY <2>2, <2>3
\* Two goroutines go: the caller, and the check it starts, which is not the loop.
<1>4. CASE Enable(p)
  <2>1. pc[p] = "enable" /\ pc \in [Goroutines -> Places]
    BY <1>4, TypeOKParts DEF Enable
  <2>2. CASE disabled
    <3>1. PICK k \in Checks : pc[k] = "idle" /\ pc' = [pc EXCEPT ![p] = "idle", ![k] = "check"]
      BY <1>4, <2>2 DEF Enable
    <3>2. k \in Goroutines /\ k # Loop /\ k # p
      BY LoopIsAGoroutine
    <3>3. "check" \in Places /\ "check" \notin Broadcasting
      BY DEF Places, Broadcasting
    <3>4. /\ pc' \in [Goroutines -> Places]
          /\ pc'[p] = "idle" /\ pc'[k] = "check"
          /\ \A h \in Goroutines : h # p /\ h # k => pc'[h] = pc[h]
      BY <1>1, <2>1, <3>1, <3>2, <3>3
    <3>5. Moves
      BY <1>1, <1>4, <3>2, <3>4, TypeOKParts, LoopIsAGoroutine DEF Moves, Enable
    <3>6. QED
      BY <1>1, <1>4, <2>1, <3>1, <3>2, <3>3, <3>4, <3>5 DEF Quiet, Enable, Broadcasting
  <2>3. CASE ~disabled
    <3>1. /\ pc' \in [Goroutines -> Places]
          /\ pc'[p] = "idle"
          /\ \A h \in Goroutines : h # p => pc'[h] = pc[h]
      BY <1>1, <1>4, <2>3, Goes DEF Enable
    <3>2. Moves
      BY <1>1, <1>4, <3>1, TypeOKParts, LoopIsAGoroutine DEF Moves, Enable
    <3>3. QED
      BY <1>1, <1>4, <2>1, <3>1, <3>2 DEF Quiet, Enable, Broadcasting
  <2>4. QED
    BY <2>2, <2>3
<1>5. QED
  BY <1>2, <1>3, <1>4 DEF Call

LEMMA StutterIsQuiet ==
  ASSUME TypeOK, UNCHANGED vars
  PROVE  Quiet
BY TypeOKParts DEF vars, Quiet, Moves

LEMMA StepKinds ==
  ASSUME TypeOK, [Next]_vars
  PROVE  \/ Quiet
         \/ LoopExit
         \/ \E g \in Goroutines : \/ StoreStatus(g) \/ Drain(g) \/ Send(g)
                                  \/ GiveUpSend(g) \/ SendPanics(g)
         \/ Close
         \/ Receive
<1>1. CASE Tick
  <2>1. "check" \in Places \ Broadcasting
    BY DEF Places, Broadcasting
  <2>2. QED
    BY <1>1, <2>1, GoesQuietly, LoopIsAGoroutine DEF Tick, Broadcasting
<1>2. ASSUME NEW g \in Checkers, PerformCheck(g)
      PROVE  Quiet
  BY <1>2, CheckIsQuiet, LoopIsAGoroutine
<1>3. QED
  BY <1>1, <1>2, UpdateContextIsQuiet, CallIsQuiet, StutterIsQuiet DEF Next, UpdateStatus

-----------------------------------------------------------------------------
\* The invariant.

LEMMA InitInv == Init => IInv
<1> SUFFICES ASSUME Init PROVE IInv
  OBVIOUS
<1>1. pc \in [Goroutines -> Places]
  BY DEF Init, Places
<1>2. value \in [Goroutines -> Statuses] /\ lastStatus \in Statuses
  BY DEF Init, Statuses
<1>3. body \in [Goroutines -> BOOLEAN]
  BY Zenon DEF Init
<1>4. observerChange = <<>> /\ disabled = FALSE /\ observerClosed = FALSE /\ cancelled = FALSE
      /\ panicked = FALSE
  BY Zenon DEF Init
<1>5. observerChange \in Seq(Statuses) /\ Len(observerChange) <= 1
  BY <1>4
<1>6. TypeOK
  BY <1>1, <1>2, <1>3, <1>4, <1>5 DEF TypeOK, Places
<1>7. QED
  BY <1>4, <1>6 DEF IInv, ClosedInv, PanicInv

LEMMA TypeOKNext ==
  ASSUME Moves, lastStatus' \in Statuses, disabled' \in BOOLEAN,
         observerChange' \in Seq(Statuses), Len(observerChange') <= 1,
         observerClosed' \in BOOLEAN, cancelled' \in BOOLEAN, panicked' \in BOOLEAN
  PROVE  TypeOK'
BY DEF Moves, TypeOK, Places

LEMMA QuietInv ==
  ASSUME IInv, Quiet
  PROVE  IInv'
<1>1. TypeOK'
  <2>1. /\ lastStatus' \in Statuses /\ disabled' \in BOOLEAN
        /\ observerChange' \in Seq(Statuses) /\ Len(observerChange') <= 1
        /\ observerClosed' \in BOOLEAN /\ cancelled' \in BOOLEAN /\ panicked' \in BOOLEAN
        /\ Moves
    BY DEF IInv, TypeOK, Quiet
  <2>2. QED
    BY <2>1, TypeOKNext
<1>2. ClosedInv' /\ PanicInv'
  BY DEF IInv, ClosedInv, PanicInv, Quiet, Moves
<1>3. QED
  BY <1>1, <1>2 DEF IInv

LEMMA LoopExitInv ==
  ASSUME IInv, LoopExit
  PROVE  IInv'
<1>1. "exited" \in Places
  BY DEF Places
<1>2. Moves
  BY <1>1, GoesMoves, LoopIsAGoroutine DEF IInv, LoopExit
<1>3. pc'[Loop] = "exited"
  BY <1>1, Goes, LoopIsAGoroutine DEF IInv, LoopExit
<1>4. TypeOK'
  <2>1. /\ lastStatus' \in Statuses /\ disabled' \in BOOLEAN
        /\ observerChange' \in Seq(Statuses) /\ Len(observerChange') <= 1
        /\ observerClosed' \in BOOLEAN /\ cancelled' \in BOOLEAN /\ panicked' \in BOOLEAN
    BY DEF IInv, TypeOK, LoopExit
  <2>2. QED
    BY <1>2, <2>1, TypeOKNext
<1>5. QED
  BY <1>3, <1>4 DEF IInv, ClosedInv, PanicInv, LoopExit

\* A goroutine in the broadcast moves, stores or sends: it is not a loop that has left.
LEMMA BroadcastInv ==
  ASSUME IInv, NEW g \in Goroutines, StoreStatus(g) \/ Drain(g) \/ Send(g) \/ GiveUpSend(g)
  PROVE  IInv'
<1>1. TypeOK /\ {"drain", "send"} \subseteq Places /\ <<>> \in Seq(Statuses) /\ Len(<<>>) <= 1
  BY DEF IInv, Places
<1>2. Moves
  BY <1>1, GoesMoves, ReturnMoves DEF StoreStatus, Drain, Send, GiveUpSend
<1>3. lastStatus' \in Statuses
  BY <1>1, TypeOKParts DEF TypeOK, StoreStatus, Drain, Send, GiveUpSend, statusVars
<1>4. /\ disabled' = disabled /\ observerClosed' = observerClosed /\ cancelled' = cancelled
      /\ panicked' = panicked
  BY DEF StoreStatus, Drain, Send, GiveUpSend, statusVars
<1>5. observerChange' \in Seq(Statuses) /\ Len(observerChange') <= 1
  <2>1. observerChange \in Seq(Statuses) /\ Len(observerChange) <= 1 /\ value[g] \in Statuses
    BY <1>1, TypeOKParts DEF TypeOK
  <2>2. CASE observerChange' = observerChange
    BY <2>1, <2>2
  <2>3. CASE observerChange' = <<>>
    BY <1>1, <2>3
  <2>4. CASE Len(observerChange) < 1 /\ observerChange' = Append(observerChange, value[g])
    BY <2>1, <2>4
  <2>5. QED
    BY <2>2, <2>3, <2>4 DEF StoreStatus, Drain, Send, GiveUpSend, statusVars
<1>6. /\ disabled' \in BOOLEAN /\ observerClosed' \in BOOLEAN /\ cancelled' \in BOOLEAN
      /\ panicked' \in BOOLEAN
  BY <1>1, <1>4 DEF TypeOK
<1>7. TypeOK'
  BY <1>2, <1>3, <1>5, <1>6, TypeOKNext
<1>8. ClosedInv' /\ PanicInv'
  BY <1>2, <1>4 DEF IInv, ClosedInv, PanicInv, Moves
<1>9. QED
  BY <1>7, <1>8 DEF IInv

LEMMA PanicsInv ==
  ASSUME IInv, NEW g \in Goroutines, SendPanics(g)
  PROVE  IInv'
<1>1. Moves
  BY TypeOKParts, LoopIsAGoroutine DEF IInv, SendPanics, Moves, Places
<1>2. TypeOK'
  <2>1. /\ lastStatus' \in Statuses /\ disabled' \in BOOLEAN
        /\ observerChange' \in Seq(Statuses) /\ Len(observerChange') <= 1
        /\ observerClosed' \in BOOLEAN /\ cancelled' \in BOOLEAN /\ panicked' \in BOOLEAN
    BY DEF IInv, TypeOK, SendPanics
  <2>2. QED
    BY <1>1, <2>1, TypeOKNext
<1>3. ClosedInv' /\ PanicInv'
  BY <1>1 DEF IInv, ClosedInv, PanicInv, SendPanics, Moves
<1>4. QED
  BY <1>2, <1>3 DEF IInv

LEMMA CloseInv ==
  ASSUME IInv, Close
  PROVE  IInv'
BY DEF IInv, TypeOK, ClosedInv, PanicInv, Close

LEMMA ReceiveInv ==
  ASSUME IInv, Receive
  PROVE  IInv'
<1>1. observerChange' \in Seq(Statuses) /\ Len(observerChange') <= 1
  BY DEF IInv, TypeOK, Receive
<1>2. QED
  BY <1>1 DEF IInv, TypeOK, ClosedInv, PanicInv, Receive

\* The inductive invariant holds in every reachable state.
THEOREM Invariance == Spec => []IInv
<1>1. IInv /\ [Next]_vars => IInv'
  BY StepKinds, QuietInv, LoopExitInv, BroadcastInv, PanicsInv, CloseInv, ReceiveInv DEF IInv
<1>2. QED
  BY <1>1, InitInv, PTL DEF Spec

\* Type correctness of the HTTP checker: however many goroutines send, the channel never
\* holds more than one value.
THEOREM TypeCorrect == Spec => []TypeOK
<1>1. IInv => TypeOK
  BY DEF IInv
<1>2. QED
  BY <1>1, Invariance, PTL

\* The panic of a send on the closed channel (http_checker.go:151) needs a Close() before it
\* and a loop that has left: the checker never ends a process that does not close it.
PanicsOnlyAfterClose == panicked => cancelled /\ observerClosed /\ pc[Loop] = "exited"

\* Until Close() no goroutine of the checker panics, whatever Disable and Enable do.
THEOREM NoPanicBeforeClose == Spec => []PanicsOnlyAfterClose
<1>1. IInv => PanicsOnlyAfterClose
  BY DEF IInv, ClosedInv, PanicInv, PanicsOnlyAfterClose
<1>2. QED
  BY <1>1, Invariance, PTL

-----------------------------------------------------------------------------
(* Refinement: each step is one step of the contract or is not seen by the service. *)

Owed == \E g \in Goroutines : pc[g] \in {"drain", "send"}

LEMMA OneIsAFunction ==
  ASSUME NEW a, NEW b
  PROVE  One(a)[1] = a /\ [One(a) EXCEPT ![1] = b] = One(b)
BY DEF One

LEMMA RefinesInit == Init => Contract!ContractInit
<1> SUFFICES ASSUME Init PROVE Contract!ContractInit
  OBVIOUS
<1>1. One(lastStatus) \in [1 .. 1 -> Statuses]
  <2>1. lastStatus \in Statuses
    BY DEF Init, Statuses
  <2>2. QED
    BY <2>1 DEF One
<1>2. One(Len(observerChange)) = [c \in 1 .. 1 |-> 0]
  BY DEF Init, One
<1>3. One(Owed) = [c \in 1 .. 1 |-> FALSE]
  <2>1. Owed = FALSE
    BY DEF Init, Owed
  <2>2. QED
    BY <2>1, Zenon DEF One
<1>4. /\ One(cancelled) = [c \in 1 .. 1 |-> FALSE]
      /\ One(observerClosed) = [c \in 1 .. 1 |-> FALSE]
  BY Zenon DEF Init, One
<1>5. QED
  BY <1>1, <1>2, <1>3, <1>4 DEF Contract!ContractInit, Contract!Components, Owed

LEMMA RefinesQuiet ==
  ASSUME Quiet
  PROVE  UNCHANGED Contract!contractVars
<1>1. Owed' = Owed
  BY DEF Quiet, Owed, Broadcasting
<1>2. lastStatus' = lastStatus /\ Len(observerChange') = Len(observerChange)
      /\ cancelled' = cancelled /\ observerClosed' = observerClosed
  BY DEF Quiet
<1>3. QED
  BY <1>1, <1>2 DEF Contract!contractVars, Owed

LEMMA RefinesStore ==
  ASSUME TypeOK, NEW g \in Goroutines, StoreStatus(g)
  PROVE  \E s \in Statuses : Contract!Store(1, s)
<1>1. value[g] \in Statuses /\ lastStatus' = value[g]
  BY TypeOKParts DEF StoreStatus
<1>2. Owed' = TRUE
  <2>1. pc'[g] = "drain"
    BY Goes DEF StoreStatus, Places
  <2>2. QED
    BY <2>1 DEF Owed
<1>3. Len(observerChange') = Len(observerChange)
      /\ cancelled' = cancelled /\ observerClosed' = observerClosed
  BY DEF StoreStatus
<1>4. Contract!Store(1, value[g])
  BY <1>1, <1>2, <1>3, OneIsAFunction DEF Contract!Store, Owed
<1>5. QED
  BY <1>1, <1>4

LEMMA RefinesDrain ==
  ASSUME TypeOK, NEW g \in Goroutines, Drain(g)
  PROVE  Contract!Drain(1)
<1>1. Owed = TRUE /\ Owed' = TRUE
  <2>1. pc'[g] = "send" /\ pc[g] = "drain"
    BY Goes DEF Drain, Places
  <2>2. QED
    BY <2>1 DEF Owed
<1>2. Len(observerChange') = IF Len(observerChange) > 0 THEN Len(observerChange) - 1
                                                        ELSE Len(observerChange)
  <2> DEFINE q == Len(observerChange)
  <2>1. q \in Nat /\ q <= 1
    BY DEF TypeOK
  <2>2. q' = 0
    BY DEF Drain
  <2> HIDE DEF q
  <2>3. q' = IF q > 0 THEN q - 1 ELSE q
    BY <2>1, <2>2
  <2>4. QED
    BY <2>3, Zenon DEF q
<1>3. lastStatus' = lastStatus /\ cancelled' = cancelled /\ observerClosed' = observerClosed
  BY DEF Drain
<1>4. QED
  BY <1>1, <1>2, <1>3, OneIsAFunction DEF Contract!Drain, Owed

\* Other goroutines may still have to send.
LEMMA RefinesSend ==
  ASSUME TypeOK, NEW g \in Goroutines, Send(g)
  PROVE  Contract!Send(1)
<1>1. Owed = TRUE /\ Owed' \in BOOLEAN
  BY DEF Send, Owed
<1>2. Len(observerChange) < 1 /\ Len(observerChange') = Len(observerChange) + 1
  BY TypeOKParts DEF TypeOK, Send
<1>3. lastStatus' = lastStatus /\ cancelled' = cancelled /\ observerClosed' = observerClosed
      /\ observerClosed = FALSE
  BY DEF Send, TypeOK
<1>4. QED
  BY <1>1, <1>2, <1>3, OneIsAFunction DEF Contract!Send, Owed

\* The last goroutine that has to send gives up; a panic is the end of all of them.
LEMMA RefinesGiveUp ==
  ASSUME IInv, NEW g \in Goroutines, GiveUpSend(g) \/ SendPanics(g)
  PROVE  Contract!Abandon(1) \/ UNCHANGED Contract!contractVars
<1>1. Owed = TRUE /\ Owed' \in BOOLEAN /\ cancelled = TRUE
  BY DEF IInv, TypeOK, ClosedInv, GiveUpSend, SendPanics, Owed
<1>2. lastStatus' = lastStatus /\ cancelled' = cancelled /\ observerClosed' = observerClosed
      /\ Len(observerChange') = Len(observerChange)
  BY DEF GiveUpSend, SendPanics, statusVars
<1>3. CASE Owed' = TRUE
  BY <1>1, <1>2, <1>3 DEF Contract!contractVars, Owed
<1>4. CASE Owed' = FALSE
  BY <1>1, <1>2, <1>4, OneIsAFunction DEF Contract!Abandon, Owed
<1>5. QED
  BY <1>1, <1>3, <1>4

LEMMA RefinesLoopExit ==
  ASSUME TypeOK, LoopExit
  PROVE  Contract!CloseChannel(1)
<1>1. Owed' = Owed
  <2>1. /\ pc[Loop] = "select" /\ pc'[Loop] = "exited"
        /\ \A h \in Goroutines : h # Loop => pc'[h] = pc[h]
    BY Goes, LoopIsAGoroutine DEF LoopExit, Places
  <2>2. QED
    BY <2>1 DEF Owed
<1>2. lastStatus' = lastStatus /\ cancelled' = cancelled /\ observerClosed' = TRUE
      /\ cancelled = TRUE /\ Len(observerChange') = Len(observerChange)
  BY DEF TypeOK, LoopExit
<1>3. QED
  BY <1>1, <1>2, OneIsAFunction DEF Contract!CloseChannel, Owed

LEMMA RefinesClose ==
  ASSUME TypeOK, Close
  PROVE  Contract!CloseComponent(1)
<1>1. lastStatus' = lastStatus /\ cancelled' = TRUE /\ observerClosed' = observerClosed
      /\ Len(observerChange') = Len(observerChange) /\ Owed' = Owed
  BY DEF Close, Owed
<1>2. QED
  BY <1>1, OneIsAFunction DEF Contract!CloseComponent, Owed

LEMMA RefinesReceive ==
  ASSUME TypeOK, Receive
  PROVE  Contract!Receive(1)
<1>1. Len(observerChange) > 0 /\ Len(observerChange') = Len(observerChange) - 1
  BY DEF TypeOK, Receive
<1>2. lastStatus' = lastStatus /\ cancelled' = cancelled /\ observerClosed' = observerClosed
      /\ Owed' = Owed
  BY DEF Receive, Owed
<1>3. QED
  BY <1>1, <1>2, OneIsAFunction DEF Contract!Receive, Owed

LEMMA RefinesNext == IInv /\ [Next]_vars => [Contract!ContractNext]_(Contract!contractVars)
<1> SUFFICES ASSUME IInv, [Next]_vars
             PROVE  Contract!ContractNext \/ UNCHANGED Contract!contractVars
  OBVIOUS
<1>1. TypeOK /\ 1 \in Contract!Components
  BY DEF IInv, Contract!Components
<1>2. CASE Quiet
  BY <1>2, RefinesQuiet
<1>3. CASE LoopExit
  BY <1>1, <1>3, RefinesLoopExit DEF Contract!ContractNext, Contract!ComponentStep
<1>4. ASSUME NEW g \in Goroutines, StoreStatus(g)
      PROVE  Contract!ContractNext
  BY <1>1, <1>4, RefinesStore DEF Contract!ContractNext, Contract!ComponentStep
<1>5. ASSUME NEW g \in Goroutines, Drain(g) \/ Send(g)
      PROVE  Contract!ContractNext
  BY <1>1, <1>5, RefinesDrain, RefinesSend DEF Contract!ContractNext, Contract!ComponentStep
<1>6. ASSUME NEW g \in Goroutines, GiveUpSend(g) \/ SendPanics(g)
      PROVE  Contract!ContractNext \/ UNCHANGED Contract!contractVars
  BY <1>1, <1>6, RefinesGiveUp DEF Contract!ContractNext, Contract!ComponentStep
<1>7. CASE Close
  BY <1>1, <1>7, RefinesClose DEF Contract!ContractNext, Contract!ComponentStep
<1>8. CASE Receive
  BY <1>1, <1>8, RefinesReceive DEF Contract!ContractNext
<1>9. QED
  BY <1>1, <1>2, <1>3, <1>4, <1>5, <1>6, <1>7, <1>8, StepKinds

\* With any number of senders the HTTP checker keeps the promise the service is proved from.
THEOREM Implements == Spec => ImplementsContract
<1>1. Spec => []IInv
  BY Invariance
<1>2. QED
  BY <1>1, RefinesInit, RefinesNext, PTL DEF Spec, ImplementsContract, Contract!ContractSpec
=============================================================================
