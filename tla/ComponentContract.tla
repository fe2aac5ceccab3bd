------------------------- MODULE ComponentContract -------------------------
(***************************************************************************)
(* What core.Service relies on in a core.Component, and nothing more:      *)
(* Status() returns the current status at once, StatusChange() is one      *)
(* buffered channel, and a status that was stored is followed by a send on *)
(* that channel (or already has an unread value in it), unless the         *)
(* component is being closed.  The components of the library keep this     *)
(* promise in two ways: the core component, the uptime and the HTTP        *)
(* checker store first and drain and send later; the polling checkers      *)
(* store and send (without blocking) in one critical section.              *)
(*                                                                         *)
(* The components are the indices of the slice given to NewService.        *)
(***************************************************************************)
EXTENDS Naturals

CONSTANTS
  N,          \* number of components
  Statuses,   \* the values a component reports as its Status
  Capacity    \* Capacity[c]: buffer size of the channel of component c

\* The zero value of a StatusEnum is the empty string: a checker that has
\* not finished its first check reports it.
StatusEnum == {"pass", "warn", "fail", ""}

Components == 1 .. N

ASSUME NAssumption        == N \in Nat
ASSUME StatusesAssumption == Statuses \subseteq StatusEnum
ASSUME CapacityAssumption == Capacity \in [Components -> Nat \ {0}]

VARIABLES
  status,     \* status[c]:  what Status() of c returns
  queued,     \* queued[c]:  values waiting in the channel of c
  owed,       \* owed[c]:    a goroutine of c has stored and has yet to send
  closing,    \* closing[c]: Close() was called on c
  closed      \* closed[c]:  the channel of c is closed

contractVars == <<status, queued, owed, closing, closed>>

ContractTypeOK ==
  /\ status  \in [Components -> Statuses]
  /\ queued  \in [Components -> Nat]
  /\ \A c \in Components : queued[c] <= Capacity[c]
  /\ owed    \in [Components -> BOOLEAN]
  /\ closing \in [Components -> BOOLEAN]
  /\ closed  \in [Components -> BOOLEAN]

ContractInit ==
  /\ status  \in [Components -> Statuses]
  /\ queued  = [c \in Components |-> 0]
  /\ owed    = [c \in Components |-> FALSE]
  /\ closing = [c \in Components |-> FALSE]
  /\ closed  = [c \in Components |-> FALSE]

-----------------------------------------------------------------------------
\* A goroutine of c stores a status it will announce in later steps.
Store(c, s) ==
  /\ status' = [status EXCEPT ![c] = s]
  /\ owed'   = [owed EXCEPT ![c] = TRUE]
  /\ UNCHANGED <<queued, closing, closed>>

\* It makes room in the buffer before it sends: the unread value is old.
Drain(c) ==
  /\ owed[c]
  /\ queued' = [queued EXCEPT ![c] = IF @ > 0 THEN @ - 1 ELSE @]
  /\ UNCHANGED <<status, owed, closing, closed>>

\* It sends; other goroutines of c may still have to.
Send(c) ==
  /\ owed[c]
  /\ ~closed[c]
  /\ queued[c] < Capacity[c]
  /\ queued' = [queued EXCEPT ![c] = @ + 1]
  /\ \E more \in BOOLEAN : owed' = [owed EXCEPT ![c] = more]
  /\ UNCHANGED <<status, closing, closed>>

\* It gives up, which only a component that is being closed may do.
Abandon(c) ==
  /\ owed[c]
  /\ closing[c]
  /\ owed' = [owed EXCEPT ![c] = FALSE]
  /\ UNCHANGED <<status, queued, closing, closed>>

\* The other way: the status and the non-blocking send under one lock.  A full
\* buffer keeps its old value, which wakes the reader just as well.
StoreAndSend(c, s) ==
  /\ status' = [status EXCEPT ![c] = s]
  /\ queued' = [queued EXCEPT ![c] = IF @ < Capacity[c] THEN @ + 1 ELSE @]
  /\ UNCHANGED <<owed, closing, closed>>

\* Close() is called, by the service or by whoever made the component.
CloseComponent(c) ==
  /\ closing' = [closing EXCEPT ![c] = TRUE]
  /\ UNCHANGED <<status, queued, owed, closed>>

\* Some components then close their channel.
CloseChannel(c) ==
  /\ closing[c]
  /\ closed' = [closed EXCEPT ![c] = TRUE]
  /\ UNCHANGED <<status, queued, owed, closing>>

\* A receive takes the oldest value; on a closed and empty channel it
\* succeeds at once, every time.
Receive(c) ==
  /\ queued[c] > 0 \/ closed[c]
  /\ queued' = [queued EXCEPT ![c] = IF @ > 0 THEN @ - 1 ELSE @]
  /\ UNCHANGED <<status, owed, closing, closed>>

\* A step of component c itself (not of the reader of its channel).
ComponentStep(c) ==
  \/ \E s \in Statuses : Store(c, s) \/ StoreAndSend(c, s)
  \/ Drain(c)
  \/ Send(c)
  \/ Abandon(c)
  \/ CloseComponent(c)
  \/ CloseChannel(c)

ContractNext == \E c \in Components : ComponentStep(c) \/ Receive(c)

ContractSpec == ContractInit /\ [][ContractNext]_contractVars
=============================================================================
