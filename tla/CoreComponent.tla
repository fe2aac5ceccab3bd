--------------------------- MODULE CoreComponent ---------------------------
(***************************************************************************)
(* core.New: a component whose status its application sets.  Callers of    *)
(* ChangeStatus, Disable and Enable hand a ComponentStatus over an         *)
(* unbuffered channel to one goroutine (the actor), which stores it and    *)
(* announces it on observerChange, a channel with room for one value.      *)
(*                                                                         *)
(* A hand-over on an unbuffered channel needs one side parked in its       *)
(* select while the other arrives, so both selects are modelled with their *)
(* parked states: sendq is the first-in first-out queue of parked callers. *)
(* Cancelling the context wakes whoever is parked, and a select entered    *)
(* afterwards finds Done ready and does not park.                          *)
(***************************************************************************)
EXTENDS Naturals, Sequences

CONSTANTS
  Callers,    \* goroutines of the application that change the status
  Statuses,   \* the statuses they pass
  NoCall,     \* stands for "not in a call"
  MaxCalls    \* bound: calls of ChangeStatus, Disable and Enable in all

StatusEnum == {"pass", "warn", "fail", ""}

ASSUME ComponentStatusesAssumption ==
  Statuses \subseteq StatusEnum /\ {"pass", "fail"} \subseteq Statuses

ASSUME MaxCallsAssumption == MaxCalls \in Nat

VARIABLES
  lastStatus,      \* the stored ComponentStatus
  observerChange,  \* the observer's channel, a sequence of at most one value
  observerClosed,  \* that channel is closed
  cancelled,       \* Close() was called: ctx is done
  actor,           \* where the actor's loop is
  handed,          \* the actor's local variable "status"
  sendq,           \* callers parked in ChangeStatus, in their order
  caller,          \* caller[p]: the change p is in the middle of passing
  calls,           \* calls begun so far
  seen             \* what the reader of StatusChange() received last

vars == <<lastStatus, observerChange, observerClosed, cancelled, actor, handed,
          sendq, caller, calls, seen>>

\* rev numbers the changes in the order the actor takes them; late marks a
\* change whose call began after Close() had returned.
ComponentStatus == [status : Statuses, rev : Nat, late : BOOLEAN]
Change          == [status : Statuses, late : BOOLEAN]

ASSUME NoCallAssumption == NoCall \notin Change

Parked(p) == \E i \in DOMAIN sendq : sendq[i] = p

TypeOK ==
  /\ lastStatus \in ComponentStatus
  /\ observerChange \in Seq(ComponentStatus) /\ Len(observerChange) <= 1
  /\ observerClosed \in BOOLEAN
  /\ cancelled \in BOOLEAN
  /\ actor \in {"select", "parked", "store", "drain", "send", "exited"}
  /\ handed \in ComponentStatus
  /\ sendq \in Seq(Callers)
  /\ caller \in [Callers -> Change \cup {NoCall}]
  /\ calls \in 0 .. MaxCalls
  /\ seen \in ComponentStatus

Init ==
  /\ \E s \in Statuses : lastStatus = [status |-> s, rev |-> 0, late |-> FALSE]
  /\ observerChange = <<>>
  /\ observerClosed = FALSE
  /\ cancelled = FALSE
  /\ actor = "select"
  /\ handed = lastStatus
  /\ sendq = <<>>
  /\ caller = [p \in Callers |-> NoCall]
  /\ calls = 0
  /\ seen = lastStatus

-----------------------------------------------------------------------------
\* The callers.

ChangeStatus(p, s) ==
  /\ caller[p] = NoCall
  /\ calls < MaxCalls
  /\ calls' = calls + 1
  /\ caller' = [caller EXCEPT ![p] = [status |-> s, late |-> cancelled]]
  /\ UNCHANGED <<lastStatus, observerChange, observerClosed, cancelled, actor,
                 handed, sendq, seen>>

Disable(p) == ChangeStatus(p, "fail")

Enable(p) == ChangeStatus(p, "pass")

\* The value of p's call becomes the actor's, and p's call returns: before the
\* status is stored.
PassOn(p) ==
  /\ handed' = [status |-> caller[p].status, rev |-> handed.rev + 1,
                late |-> caller[p].late]
  /\ caller' = [caller EXCEPT ![p] = NoCall]
  /\ actor' = "store"
  /\ UNCHANGED <<lastStatus, observerChange, observerClosed, cancelled, calls, seen>>

InSelect(p) == caller[p] # NoCall /\ ~Parked(p)

\* The caller's select finds the actor parked,
HandToActor(p) ==
  /\ InSelect(p)
  /\ actor = "parked"
  /\ PassOn(p)
  /\ UNCHANGED sendq

\* or the context done,
GiveUp(p) ==
  /\ InSelect(p)
  /\ cancelled
  /\ caller' = [caller EXCEPT ![p] = NoCall]
  /\ UNCHANGED <<lastStatus, observerChange, observerClosed, cancelled, actor,
                 handed, sendq, calls, seen>>

ParkEvenIfDone(p) ==  \* mutant: a plain send, without the Done case
  /\ InSelect(p)
  /\ actor # "parked"
  /\ sendq' = Append(sendq, p)
  /\ UNCHANGED <<lastStatus, observerChange, observerClosed, cancelled, actor,
                 handed, caller, calls, seen>>

\* or neither.
Park(p) ==
  /\ InSelect(p)
  /\ actor # "parked"
  /\ ~cancelled
  /\ sendq' = Append(sendq, p)
  /\ UNCHANGED <<lastStatus, observerChange, observerClosed, cancelled, actor,
                 handed, caller, calls, seen>>

CloseChannelToo ==  \* mutant: Close closes observerChange, not the actor
  /\ cancelled' = TRUE
  /\ observerClosed' = TRUE
  /\ actor' = IF actor = "parked" THEN "select" ELSE actor
  /\ caller' = [p \in Callers |-> IF Parked(p) THEN NoCall ELSE caller[p]]
  /\ sendq' = <<>>
  /\ UNCHANGED <<lastStatus, observerChange, handed, calls, seen>>

CloseWakesActorOnly ==  \* mutant: parked callers do not watch the context
  /\ cancelled' = TRUE
  /\ actor' = IF actor = "parked" THEN "select" ELSE actor
  /\ UNCHANGED <<lastStatus, observerChange, observerClosed, handed, sendq, caller,
                 calls, seen>>

\* Cancelling wakes everybody who is parked; the parked calls return.  A second
\* Close() changes nothing.
Close ==
  /\ cancelled' = TRUE
  /\ actor' = IF actor = "parked" THEN "select" ELSE actor
  /\ caller' = [p \in Callers |-> IF Parked(p) THEN NoCall ELSE caller[p]]
  /\ sendq' = <<>>
  /\ UNCHANGED <<lastStatus, observerChange, observerClosed, handed, calls, seen>>

-----------------------------------------------------------------------------
\* The actor.

\* Its select takes the change of the caller parked longest,
TakeParked ==
  /\ actor = "select"
  /\ sendq # <<>>
  /\ PassOn(Head(sendq))
  /\ sendq' = Tail(sendq)

\* or parks,
ActorPark ==
  /\ actor = "select"
  /\ ~cancelled
  /\ sendq = <<>>
  /\ actor' = "parked"
  /\ UNCHANGED <<lastStatus, observerChange, observerClosed, cancelled, handed,
                 sendq, caller, calls, seen>>

ExitWithoutClosing ==  \* mutant: the deferred close is missing
  /\ actor = "select"
  /\ cancelled
  /\ actor' = "exited"
  /\ UNCHANGED <<lastStatus, observerChange, observerClosed, cancelled, handed, sendq,
                 caller, calls, seen>>

\* or finds the context done: it returns, and its deferred call closes the channel.
ActorExit ==
  /\ actor = "select"
  /\ cancelled
  /\ actor' = "exited"
  /\ observerClosed' = TRUE
  /\ UNCHANGED <<lastStatus, observerChange, cancelled, handed, sendq, caller, calls,
                 seen>>

StoreIfChanged ==  \* mutant: stores only another Status, announces always
  /\ actor = "store"
  /\ lastStatus' = IF handed.status = lastStatus.status THEN lastStatus ELSE handed
  /\ actor' = "drain"
  /\ UNCHANGED <<observerChange, observerClosed, cancelled, handed, sendq, caller,
                 calls, seen>>

AnnounceInStore ==  \* mutant: announces when it stores, and once more
  /\ actor = "store"
  /\ lastStatus' = handed
  /\ observerChange' = Append(observerChange, handed)
  /\ actor' = "drain"
  /\ UNCHANGED <<observerClosed, cancelled, handed, sendq, caller, calls, seen>>

StoreStatus ==
  /\ actor = "store"
  /\ lastStatus' = handed
  /\ actor' = "drain"
  /\ UNCHANGED <<observerChange, observerClosed, cancelled, handed, sendq, caller,
                 calls, seen>>

SkipDrain ==  \* mutant: the buffer is not emptied first
  /\ actor = "drain"
  /\ actor' = "send"
  /\ UNCHANGED <<lastStatus, observerChange, observerClosed, cancelled, handed, sendq,
                 caller, calls, seen>>

SkipSendWhenFull ==  \* mutant: a non-blocking send that keeps the old value
  /\ actor = "drain"
  /\ actor' = IF observerChange = <<>> THEN "send" ELSE "select"
  /\ UNCHANGED <<lastStatus, observerChange, observerClosed, cancelled, handed, sendq,
                 caller, calls, seen>>

\* "Drain old status if buffer is full"
Drain ==
  /\ actor = "drain"
  /\ observerChange' = <<>>
  /\ actor' = "send"
  /\ UNCHANGED <<lastStatus, observerClosed, cancelled, handed, sendq, caller, calls,
                 seen>>

\* A blocking send: it waits while the buffer is full.
Send ==
  /\ actor = "send"
  /\ Len(observerChange) < 1
  /\ observerChange' = Append(observerChange, handed)
  /\ actor' = "select"
  /\ UNCHANGED <<lastStatus, observerClosed, cancelled, handed, sendq, caller, calls,
                 seen>>

-----------------------------------------------------------------------------
\* The reader of StatusChange().  It may stop reading at any time.  (On the closed
\* and empty channel it receives zero values, which tell it nothing.)
Receive ==
  /\ observerChange # <<>>
  /\ seen' = Head(observerChange)
  /\ observerChange' = Tail(observerChange)
  /\ UNCHANGED <<lastStatus, observerClosed, cancelled, actor, handed, sendq, caller,
                 calls>>

Caller(p) == HandToActor(p) \/ GiveUp(p) \/ Park(p)

Actor == TakeParked \/ ActorPark \/ ActorExit \/ StoreStatus \/ Drain \/ Send

Next ==
  \/ \E p \in Callers :
       \/ \E s \in Statuses : ChangeStatus(p, s)
       \/ Disable(p)
       \/ Enable(p)
       \/ Caller(p)
  \/ Close
  \/ Actor
  \/ Receive

Spec == Init /\ [][Next]_vars

\* Goroutines run; nobody has to read, to call or to close.
Fairness == WF_vars(Actor) /\ \A p \in Callers : WF_vars(Caller(p))

FairSpec == Spec /\ Fairness

-----------------------------------------------------------------------------
\* The blocking send of the actor (component.go:61) always finds room, whether or
\* not anybody reads: the actor is the only sender and has just drained the buffer.
SendNeverBlocks == actor = "send" => Len(observerChange) < 1

\* "ensuring the observer always gets the latest value" (component.go:56): between
\* two announcements, and after the actor has gone, what the reader got last or will
\* get next is the stored status.
ObserverCatchesUp ==
  actor \in {"select", "parked", "exited"} =>
    lastStatus = IF observerChange # <<>> THEN Head(observerChange) ELSE seen

\* Whoever is told of a change and then reads Status() finds that change or a later
\* one: a change is stored before it is announced (component.go:50-61).
AnnouncedIsStored ==
  \A i \in DOMAIN observerChange : observerChange[i].rev <= lastStatus.rev

\* A call that begins after Close() has returned leaves the status alone
\* (component_test.go:344), though both selects may still be running then.
LateChangeIgnored == ~lastStatus.late

\* Every call of ChangeStatus, Disable or Enable returns, with no reader at all, and
\* when Close() overtakes it.
CallReturns == \A p \in Callers : caller[p] # NoCall ~> caller[p] = NoCall

\* A change that was taken is stored, even if Close() comes in between.
TakenIsStored == \A r \in 1 .. MaxCalls : handed.rev = r ~> lastStatus.rev >= r

\* After Close() the channel is closed, so that a reader's range loop ends.
CloseEndsStream == cancelled ~> observerClosed

-----------------------------------------------------------------------------
\* What the service relies on, for this one component.
One(v) == [c \in 1 .. 1 |-> v]

Queued == Len(observerChange)
Owed   == actor \in {"drain", "send"}

Contract == INSTANCE ComponentContract WITH
  N        <- 1,
  Capacity <- One(1),
  status   <- One(lastStatus.status),
  queued   <- One(Queued),
  owed     <- One(Owed),
  closing  <- One(cancelled),
  closed   <- One(observerClosed)

\* A core component is a component the service can be composed of.
ImplementsContract == Contract!ContractSpec
=============================================================================
