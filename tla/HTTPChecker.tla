---------------------------- MODULE HTTPChecker ----------------------------
(***************************************************************************)
(* builtin.NewHTTPCheckerComponent: a loop that checks a URL at every tick *)
(* of its ticker, Disable and Enable called by the application, and the    *)
(* goroutine Enable starts for an immediate check.  All of them end in     *)
(* updateStatus, so observerChange (room for one value) has many senders,  *)
(* while only the loop closes it.                                          *)
(***************************************************************************)
EXTENDS Naturals, Sequences

CONSTANTS
  Callers,    \* goroutines of the application that call Disable and Enable
  Checks,     \* bound: goroutines started by Enable that run at a time
  Loop        \* the goroutine of start()

ASSUME GoroutinesAssumption ==
  Callers \cap Checks = {} /\ Loop \notin Callers \cup Checks

Goroutines == Callers \cup Checks \cup {Loop}
Checkers   == Checks \cup {Loop}

\* The status is empty until the first check has ended.
Statuses == {"pass", "warn", "fail", ""}

VARIABLES
  lastStatus,      \* the stored status
  disabled,        \* the flag Disable sets
  observerChange,  \* the channel, a sequence of at most one status
  observerClosed,  \* it is closed
  cancelled,       \* Close() was called: ctx is done
  pc,              \* where each goroutine is
  value,           \* the argument of its updateStatus
  body,            \* it has a response body to close (a deferred call)
  panicked         \* a send on the closed channel has ended the process

vars == <<lastStatus, disabled, observerChange, observerClosed, cancelled, pc, value,
          body, panicked>>
statusVars == <<lastStatus, disabled, observerChange, observerClosed, cancelled, panicked>>

TypeOK ==
  /\ lastStatus \in Statuses
  /\ disabled \in BOOLEAN
  /\ observerChange \in Seq(Statuses) /\ Len(observerChange) <= 1
  /\ observerClosed \in BOOLEAN
  /\ cancelled \in BOOLEAN
  /\ pc \in [Goroutines -> {"idle", "select", "exited", "disable", "enable", "check",
                            "gate", "request", "update", "store", "drain", "send",
                            "body"}]
  /\ value \in [Goroutines -> Statuses]
  /\ body \in [Goroutines -> BOOLEAN]
  /\ panicked \in BOOLEAN

\* start() checks once before its loop.
Init ==
  /\ lastStatus = ""
  /\ disabled = FALSE
  /\ observerChange = <<>>
  /\ observerClosed = FALSE
  /\ cancelled = FALSE
  /\ pc = [g \in Goroutines |-> IF g = Loop THEN "check" ELSE "idle"]
  /\ value = [g \in Goroutines |-> ""]
  /\ body = [g \in Goroutines |-> FALSE]
  /\ panicked = FALSE

Goto(g, place) == pc' = [pc EXCEPT ![g] = place]

\* Where a goroutine goes when its call or its check is over.
Rest(g) == IF g = Loop THEN "select" ELSE "idle"

\* updateStatus(s, ...) is called, with or without a body to close after it.
Update(g, s, withBody) ==
  /\ Goto(g, "update")
  /\ value' = [value EXCEPT ![g] = s]
  /\ body' = [body EXCEPT ![g] = withBody]

\* updateStatus returns.
Return(g) ==
  /\ Goto(g, IF body[g] THEN "body" ELSE Rest(g))
  /\ value' = [value EXCEPT ![g] = ""]
  /\ UNCHANGED body

-----------------------------------------------------------------------------
\* start(): its select, when both cases are ready, picks either.

Tick ==
  /\ pc[Loop] = "select"
  /\ Goto(Loop, "check")
  /\ UNCHANGED <<statusVars, value, body>>

ExitWithoutClosing ==  \* mutant: the deferred close is missing
  /\ pc[Loop] = "select"
  /\ cancelled
  /\ Goto(Loop, "exited")
  /\ UNCHANGED <<statusVars, value, body>>

LoopExit ==
  /\ pc[Loop] = "select"
  /\ cancelled
  /\ Goto(Loop, "exited")
  /\ observerClosed' = TRUE
  /\ UNCHANGED <<lastStatus, disabled, observerChange, cancelled, value, body, panicked>>

-----------------------------------------------------------------------------
\* performCheck(), in the loop or in a goroutine of its own.

CheckContext(g) ==
  /\ pc[g] = "check"
  /\ Goto(g, IF cancelled THEN Rest(g) ELSE "gate")
  /\ UNCHANGED <<statusVars, value, body>>

StuckGate(g) ==  \* mutant: a check is skipped unless the checker is disabled
  /\ pc[g] = "gate"
  /\ Goto(g, IF disabled THEN "request" ELSE Rest(g))
  /\ UNCHANGED <<statusVars, value, body>>

\* hc.disabled is read once, before the request.
Gate(g) ==
  /\ pc[g] = "gate"
  /\ Goto(g, IF disabled THEN Rest(g) ELSE "request")
  /\ UNCHANGED <<statusVars, value, body>>

\* No request, no connection, a timeout, or the context cancelled on the way;
RequestFails(g) ==
  /\ pc[g] = "request"
  /\ Update(g, "fail", FALSE)
  /\ UNCHANGED statusVars

\* or an answer: 2xx passes, anything else fails.
RequestAnswers(g) ==
  /\ pc[g] = "request"
  /\ \E s \in {"pass", "fail"} : Update(g, s, TRUE)
  /\ UNCHANGED statusVars

\* The deferred Body.Close(), whose failure is a second update.
CloseBody(g) ==
  /\ pc[g] = "body"
  /\ \/ Goto(g, Rest(g)) /\ body' = [body EXCEPT ![g] = FALSE] /\ UNCHANGED value
     \/ Update(g, "fail", FALSE)
  /\ UNCHANGED statusVars

-----------------------------------------------------------------------------
\* updateStatus(), in any goroutine.

UpdateContext(g) ==
  /\ pc[g] = "update"
  /\ IF cancelled THEN Return(g) ELSE Goto(g, "store") /\ UNCHANGED <<value, body>>
  /\ UNCHANGED statusVars

StoreStatus(g) ==
  /\ pc[g] = "store"
  /\ lastStatus' = value[g]
  /\ Goto(g, "drain")
  /\ UNCHANGED <<disabled, observerChange, observerClosed, cancelled, value, body,
                 panicked>>

NoSendWhenFull(g) ==  \* mutant: the old value is taken out, the new one forgotten
  /\ pc[g] = "drain"
  /\ observerChange' = <<>>
  /\ IF observerChange = <<>> THEN Goto(g, "send") /\ UNCHANGED <<value, body>>
                               ELSE Return(g)
  /\ UNCHANGED <<lastStatus, disabled, observerClosed, cancelled, panicked>>

Drain(g) ==
  /\ pc[g] = "drain"
  /\ observerChange' = <<>>
  /\ Goto(g, "send")
  /\ UNCHANGED <<lastStatus, disabled, observerClosed, cancelled, value, body, panicked>>

SendTwice(g) ==  \* mutant: a sender that does not wait for room
  /\ pc[g] = "send"
  /\ ~observerClosed
  /\ observerChange' = Append(observerChange, value[g])
  /\ Return(g)
  /\ UNCHANGED <<lastStatus, disabled, observerClosed, cancelled, panicked>>

\* The second select waits until there is room
Send(g) ==
  /\ pc[g] = "send"
  /\ Len(observerChange) < 1
  /\ ~observerClosed
  /\ observerChange' = Append(observerChange, value[g])
  /\ Return(g)
  /\ UNCHANGED <<lastStatus, disabled, observerClosed, cancelled, panicked>>

WaitForRoom(g) ==  \* mutant: the second select has no Done case
  /\ FALSE
  /\ UNCHANGED vars

\* or the context is done;
GiveUpSend(g) ==
  /\ pc[g] = "send"
  /\ cancelled
  /\ Return(g)
  /\ UNCHANGED statusVars

\* but its send case is also ready on a closed channel: it panics, and the process ends.
SendPanics(g) ==
  /\ pc[g] = "send"
  /\ observerClosed
  /\ panicked' = TRUE
  /\ pc' = [h \in Goroutines |-> "exited"]
  /\ UNCHANGED <<lastStatus, disabled, observerChange, observerClosed, cancelled, value,
                 body>>

-----------------------------------------------------------------------------
\* The application.  Disable and Enable look at the context, then take the lock.

CallDisable(p) ==
  /\ pc[p] = "idle"
  /\ ~cancelled
  /\ Goto(p, "disable")
  /\ UNCHANGED <<statusVars, value, body>>

\* A second Disable finds the flag set and returns at once.
Disable(p) ==
  /\ pc[p] = "disable"
  /\ IF disabled THEN Goto(p, "idle") /\ UNCHANGED <<disabled, value, body>>
                 ELSE disabled' = TRUE /\ Update(p, "warn", FALSE)
  /\ UNCHANGED <<lastStatus, observerChange, observerClosed, cancelled, panicked>>

CallEnable(p) ==
  /\ pc[p] = "idle"
  /\ ~cancelled
  /\ Goto(p, "enable")
  /\ UNCHANGED <<statusVars, value, body>>

\* go hc.performCheck(), if the flag was set.
Enable(p) ==
  /\ pc[p] = "enable"
  /\ IF disabled
       THEN \E k \in Checks :
              /\ pc[k] = "idle"
              /\ pc' = [pc EXCEPT ![p] = "idle", ![k] = "check"]
       ELSE Goto(p, "idle")
  /\ disabled' = FALSE
  /\ UNCHANGED <<lastStatus, observerChange, observerClosed, cancelled, value, body,
                 panicked>>

Close ==
  /\ ~panicked
  /\ cancelled' = TRUE
  /\ UNCHANGED <<lastStatus, disabled, observerChange, observerClosed, pc, value, body,
                 panicked>>

\* The reader of StatusChange().
Receive ==
  /\ ~panicked
  /\ observerChange # <<>>
  /\ observerChange' = Tail(observerChange)
  /\ UNCHANGED <<lastStatus, disabled, observerClosed, cancelled, pc, value, body,
                 panicked>>

-----------------------------------------------------------------------------
UpdateStatus(g) ==
  \/ UpdateContext(g) \/ StoreStatus(g) \/ Drain(g)
  \/ Send(g) \/ GiveUpSend(g) \/ SendPanics(g)

PerformCheck(g) ==
  CheckContext(g) \/ Gate(g) \/ RequestFails(g) \/ RequestAnswers(g) \/ CloseBody(g)

Call(p) == Disable(p) \/ Enable(p)

Next ==
  \/ Tick \/ LoopExit
  \/ \E g \in Checkers : PerformCheck(g)
  \/ \E g \in Goroutines : UpdateStatus(g)
  \/ \E p \in Callers : CallDisable(p) \/ CallEnable(p) \/ Call(p)
  \/ Close
  \/ Receive

Spec == Init /\ [][Next]_vars

\* Goroutines run, the ticker ticks and requests end (they have a timeout).  The
\* reader reads until Close(), as the watcher of a service does; the senders that wait
\* for room are served first-in first-out, and a select with two ready cases picks one
\* at random.
Fairness ==
  /\ WF_vars(Tick \/ LoopExit)
  /\ SF_vars(LoopExit)
  /\ \A g \in Checkers : WF_vars(PerformCheck(g))
  /\ \A g \in Goroutines : WF_vars(UpdateStatus(g)) /\ SF_vars(Send(g))
  /\ \A p \in Callers : WF_vars(Call(p))
  /\ WF_vars(Receive /\ ~cancelled)

FairSpec == Spec /\ Fairness

-----------------------------------------------------------------------------
\* "Broadcast the change, but don't block or panic if the component is closed"
\* (http_checker.go:145): no goroutine sends on the closed channel.
NoPanic == ~panicked

\* A checker that is enabled does not keep the warning of a Disable for good, also
\* when Disable was overtaken by Enable and stored its warning late.
WarningIsTemporary == []<>(disabled \/ cancelled \/ lastStatus # "warn")

\* Disable and Enable return: the channel may be full because another goroutine sent
\* between the drain and the send, but then its reader or Close() lets them go on.
CallsReturn == \A p \in Callers : pc[p] # "idle" ~> pc[p] = "idle" \/ panicked

\* After Close() the loop leaves, whatever it was doing, and closes the channel.
CloseEndsStream == cancelled ~> observerClosed \/ panicked

-----------------------------------------------------------------------------
One(v) == [c \in 1 .. 1 |-> v]

Contract == INSTANCE ComponentContract WITH
  N        <- 1,
  Capacity <- One(1),
  status   <- One(lastStatus),
  queued   <- One(Len(observerChange)),
  owed     <- One(\E g \in Goroutines : pc[g] \in {"drain", "send"}),
  closing  <- One(cancelled),
  closed   <- One(observerClosed)

\* With all its senders the HTTP checker still keeps the promise the service relies on:
\* after every stored status a send follows, unless the checker is being closed.
ImplementsContract == Contract!ContractSpec
=============================================================================
