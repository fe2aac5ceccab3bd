# A TLA+ project for go-healthcheck

go-healthcheck is a Go library for health endpoints. An application makes
*components* (its own, or checkers of databases, brokers and stores), gives them
to `core.NewService`, and serves `/.well-known/live` and `/.well-known/ready`.
Everything runs concurrently: each component has a goroutine or two, the service
has a watcher per component and a recalculator, and the HTTP server calls
`Health()` from any number of goroutines. The correctness of the library is in how
these goroutines pass statuses to each other without losing one, without
blocking each other for good, and without touching what another has closed. That
is what this project models, checks with TLC and, where safety is concerned, proves with
TLAPS.

Paths below are those of the repository, under `src/`.

## 1. The system

### Components, their state and their operations

| Part | State | Operations | What is hard | What makes it correct |
|---|---|---|---|---|
| core component `core/component.go` | `lastStatus`, channel `observerChange` (room for 1), unbuffered `actorChange`, context | `ChangeStatus`, `Disable`, `Enable`, `Status`, `StatusChange`, `Close`; one goroutine, the actor | two selects that meet on an unbuffered channel, a send that ignores the context, Close in between | a taken change is stored before it is announced; the reader ends with the stored status; no call hangs; nothing is stored after Close |
| service `core/service.go` | `lastStatus`, `recalcChan` (room for 1), RWMutex, context | `NewService`, watchers, recalculator, `recalculateStatus`, `Health`, `Close` | components change while they are read one by one; requests are merged in a full channel; a constructor that recalculates too | no lost wake-up; the overall status is the worst component's once nothing is in flight; all goroutines end |
| HTTP handler `core/http_handler.go` | none | liveness, readiness | the code is made of a copy of the status, without the lock, and may be stale when it is written | the code is right for the moment `Health()` returned, unless news was in flight then |
| uptime `builtin/uptime.go` | `lastStatus`, channel (1), context | ticker, `Close` | a send that ignores the context | time never goes back for a reader; the goroutine ends |
| HTTP checker `builtin/http_checker.go` | `lastStatus`, `disabled`, channel (1), context | loop, `Disable`, `Enable` (starts a goroutine), `Close` | several goroutines drain and send on one channel that the loop closes | each stored status is followed by a send; a late warning does not stay; calls return |
| PostgreSQL, Redis, MongoDB, S3 checkers | `currentStatus`, `disabled`, channel (1), mutex, `quit`, context, client | loop, `ChangeStatus`, `Disable`, `Enable` (starts a goroutine), `Close` | non-blocking sends into a full channel; checks in flight while the flag changes; Close with the mutex held | no change is lost to the reader; checks come back; Disable ends them; Close returns |
| MariaDB checker `mariadb/checker.go` | `lastStatus`, channel (1), WaitGroup, database | one goroutine, `Close` | closing a channel with a sender | it closes only after the goroutine has left |
| Vault checker `vault/checker.go` | as above, and a context that Enable replaces | loop per Enable, `Disable`, `Enable`, `Close` | a loop reads `v.ctx` again at every turn, without the mutex | an enabled checker has a live loop; all loops end |
| Solace checker `solace/checker.go` | as PostgreSQL, with a connection | a check opens a session, a sender and a receiver, sends a message and receives it | each of these steps may fail or time out, also because of Close | whatever fails, what was opened is closed |
| RabbitMQ checker `rabbitmq/checker.go` | as above, with a trigger channel and a WaitGroup | Enable triggers the loop instead of a goroutine; Close closes both channels | sends on channels that Close closes; a closed trigger is always ready; Close waits for a loop that needs the mutex | the channel is closed only after the loop has left; Close returns |
| SQL Server checker `sqlserver/checker.go` | as above, channel (5), a WaitGroup, a query goroutine per check | query with timeout; the loop closes channel and connection, Close waits for it | late answers, a loop with three exits, a test of the context before the mutex is taken | no goroutine stays; a loop that has left sends nothing; the connection is closed (it is not always) |
| data types `core/health.go`, `status.go`, `descriptor.go` | none | JSON tags | none | only `StatusEnum` matters here |

### How they interact

A component and the service share three things: `Status()`/`Health()`, which
return at once; the channel of `StatusChange()`, from which the service's watcher
receives; and `Close()`. A watcher turns each value it receives into a request in
`recalcChan` (or finds one there already); the recalculator takes a request, locks
the service's mutex and reads every component's status. A probe takes the read
lock, reads the components once more, copies the stored overall status into its report,
and unlocks; the handler then answers by that copy, with nothing locked.

So the service never uses the *value* it receives: the channel is a wake-up, and
correctness comes down to the promise that **a component which stores a status
owes a send, or leaves an unread value in its channel**. `ComponentContract` is
that promise. It is the abstract specification of this project:

```
   CoreComponent   Uptime   HTTPChecker   PollingCheckers   MariaDBChecker   VaultChecker
         \            \           |              |                /              /
          +------- implement (ImplementsContract, a refinement mapping) --------+
                                      |
                              ComponentContract
                                      |
                       Service EXTENDS it: N components that
                        keep the contract, and no other code
```

The service is checked, and proved, against everything the contract allows and
not against one component, so that each component is verified alone.

## 2. The modules

| Module | Models | Correspondence |
|---|---|---|
| `ComponentContract` | the `Component` interface as the service uses it | `Store`..`Send` is the style "store, drain, send" with `owed` for a send still to come; `StoreAndSend` is the style "store and non-blocking send under one lock"; `Abandon`, `CloseComponent`, `CloseChannel` are the ways to stop |
| `CoreComponent` (+ `MC…`, `…Proofs`) | `core.New` | callers and the actor with the parked states of both selects; `sendq` is the runtime's queue of parked senders; `rev` and `late` are history: the order of changes and whether the call began after Close |
| `Service` (+ `MCService`, `ServiceProofs`) | `core/service.go` and the readiness handler | `Watcher`, `Recalculation` (`Announce` is the call of `Lock`, `Acquire` the moment the last reader is gone), `ScanComponent` one iteration of the loop with its early break, `Publish` the assignment and the deferred unlock; a readiness request is `Request`, then `Health()` (`RLock`, `Collect` for each component, `HealthReturns` the copy of the status and the deferred unlock), then `Respond`, which writes the code of the copy without the lock; `truth` is a history variable that no step reads |
| `HTTPChecker` (+ `HTTPCheckerProofs`) | `builtin/http_checker.go` | one action per statement that touches shared state, for the loop, the goroutines of Enable, and the callers, which may all be inside `updateStatus` |
| `Uptime` (+ `UptimeProofs`) | `builtin/uptime.go` | the goroutine with its ticker, store, drain and send |
| `PollingChecker` | what seven checkers share | every critical section of the mutex is one action; `performHealthCheck` is `Gate` (the flag), `Query`, `Answer`, `StoreResult` and, for what a check has opened, `Release`; `Announce` panics on a closed channel |
| `PostgresChecker`, `RedisChecker`, `MongoDBChecker`, `S3Checker` | what each adds | constructor, outcomes of a check, what the loop does when it ends, whether Close takes the mutex and closes a client; S3 also its configuration |
| `SolaceChecker` | what Solace adds | `SolaceOpen`, `SolaceSend`, `SolaceReceive`, `SolaceFails` are the steps of the round trip; `held` counts what is open |
| `RabbitMQChecker` | what RabbitMQ adds | the two selects of the loop, `triggerCheck`, `Enable` with its second send; `BeginClose`, `CloseTrigger`, `CloseChannel`, `EndClose` are the parts of Close |
| `SQLServerChecker` | what SQL Server adds | `resultChan` and `late` are the query goroutines of the current check and of those given up; `TestContext` and `BeginChangeStatus` are the test of the context in `updateStatus`, which takes no mutex; `LeaveAtTick` is the exit that forgets the connection |
| `PollingCheckers` (+ `PollingProofs`, `PollingPanicProofs`) | any one of the seven, with its application and reader | `checker` says which one, chosen in `Init`; the specification and the properties are here |
| `MariaDBChecker` (+ `MariaDBProofs`) | `mariadb/checker.go` | the goroutine and the three parts of Close |
| `VaultChecker` (+ `VaultProofs`) | `vault/checker.go` | numbered contexts and loops; `Turn` is the moment a select reads `v.ctx` |

A definition that starts with the comment `mutant:` is a plausible bug of the
definition that follows; it is used by no specification and serves to show that
a property would notice it.

### Go, in TLA+

* *Select.* With several ready cases one is picked at random: each is an action.
  On an unbuffered channel one side must be parked when the other arrives; a
  goroutine that finds a case ready never parks, and one that is woken has its case
  decided. `CoreComponent` has these states because a hand-over and Close race there.
* *Closed channels.* A receive from a closed and empty channel succeeds at once,
  every time (`ComponentContract!Receive`); a send on one panics, in a select with a
  default as well (`HTTPChecker!SendPanics`, `PollingChecker!Announce`). A panic ends
  the process: `PollingCheckers!Next` has no step after it.
* *RWMutex.* A waiting writer keeps new readers out, and the readers that wait
  while a writer holds the lock are let in before the next writer.
* *Critical sections.* Where a mutex protects all accesses of some state, the
  section is one action. `Close` of PostgreSQL, Redis, S3 and Solace is two: it may wait
  in the client with the mutex held, and others wait for it. That of RabbitMQ and SQL
  Server waits for the loop in between, without the mutex. In the service the
  sections are taken apart, because the components change during them.
* *Data.* A status is its `Status`; where a checker compares outputs, an output is
  the kind of text (`"failed"`, `"disabled"`); times, durations and descriptors are
  left out. The uptime keeps its seconds because a property is about them.

## 3. The runs

| Run | Instance | States | Shows |
|---|---|---|---|
| `core_component` | 2 callers, 4 calls in all, 2 statuses | 7 thousand | storing, announcing, parking and Close in every order; refinement of the contract |
| `service_status` | 2 components with channels of 1, 2 statuses (warn and fail), a probe | 281 thousand | no lost wake-up, every status and report accounted for, readiness true as of the moment it was read; with fairness, agreement once the components rest |
| `service_shutdown` | 1 component that may be closed early, a probe, Close of the service | 148 thousand | all goroutines end; probes are served while a watcher spins on a closed channel |
| `http_checker` | loop, 1 goroutine of Enable, 1 caller, Close | 49 thousand | late warnings, full channels, shutdown, refinement of the contract |
| `uptime` | clock up to 4 | 1 thousand | monotonic uptime, shutdown, refinement of the contract |
| `polling_checkers` | each of 7 checkers: loop, 1 goroutine of Enable, 1 late query, Close, any calls | 279 thousand | no lost change, checks come back, Disable ends them, Close returns, waits for the loop where it must and leaves nothing open, refinement of the contract |
| `mariadb_checker` | the whole component | 276 | order and end of Close, refinement of the contract |
| `vault_checker` | 2 loops | 141 thousand | a live loop while enabled, none for good after, refinement of the contract |
| `http_checker_panic`, `polling_checkers_disabled`, `sqlserver_db`, `rabbitmq_enable` | as above | | see *Findings* |

**Bounds, and why they are enough.** Two components are the least for which a scan
can read one before and another after a change, and for which one component's
failure can end the scan before the other is read; warn and fail are the two statuses
that a scan treats differently in every respect (fail ends it, warn does not, the
answer of the probe tells them apart). All three statuses, and the channel of five
that the SQL Server checker has, are in the proofs, which are for any set of statuses
and any sizes; `polling_checkers` has channels of one and of five. Two callers are enough
for one to be parked, one to arrive, and the
actor or Close to come in between; the third and fourth call come after Close. One
goroutine of Enable beside the loop (and, in the HTTP checker, a caller in Disable)
gives two checks in flight and three senders; the invariants of `polling_checkers` were
also checked with two such goroutines and `MaxLate = 2` (2.3 million states), with the
same result. `MaxLate = 1` lets one query goroutine be left behind while the next check
has its own: they share nothing but the database. `MaxEnables = 1`
gives the Vault checker an old and a new loop. The runs of the open service leave
out closing (`ComponentsOpen`), which has a run of its own with one component:
watchers do not share state, so that a second one would only add interleavings.
The type invariants, the safety invariants and the refinements of the contract are proved
without any of these bounds (section 5); only what is under fairness rests on them.

**Deadlock** is checked where a state without a successor would be a fault
(`core_component`, the runs of the service, `uptime`). In the others the system
really stops: a panic ends the process, or a disabled and closed checker whose
goroutines have left has nothing more to do.

### Fairness, and why the code justifies it

* Goroutines that can take a step do (weak fairness). Tickers tick and requests
  end: every check has a timeout (or, in Vault, the client has).
* A select with `Done` and something else ready again and again picks `Done` at
  some time, because the choice is random: strong fairness of the exits
  (`WatcherExit`, `RecalculatorExit`, `LoopExit`, `Exit`).
* A receiver that is parked gets the next value that is sent directly, so that a
  component that keeps draining its own buffer cannot take every value back:
  strong fairness of `WatcherReceive`.
* An RWMutex admits the readers that wait before the next writer: strong fairness
  of `RLock`.
* The reader of the HTTP checker reads until Close, as a watcher does; the senders
  that wait for room are served in turn (strong fairness of `Send`). The core
  component and the uptime need no reader at all.
* Closing a client, or what a check has opened, ends once no query is under way. For
  Solace this is an assumption about the broker: the code closes with the background
  context, which has no timeout (`solace/checker.go:53`).
* A query goroutine that was given up ends, because its context is done.

Nothing is assumed of the application: it need not call, read or close.

## 4. What the properties say

* **No lost wake-up.** `Converged`: with nothing in flight (`Settled`: no request, no
  owed send, no unread value, no watcher about to ask) the overall status is the
  worst one. `StatusExplained` says what holds *meanwhile*: the status is always the
  worst of some statuses that differ from the components' own only where news is on
  its way. `ReportSound` says it for a report while `Health()` holds the read lock.
  `ReadyTellsTruth` is about the answer: the handler writes its code after the unlock, so
  that components, recalculations and Close may come in between, and an answer can be
  out of date when it is sent, also with nothing in flight by then. What holds is that it is
  right for the moment of the read: `truth` keeps, when `Health()` returns, the code that
  is right for the components as they are (0 if news is in flight), and the answer is that one.
  `Converges` is the same as liveness.
* **The core component.** `SendNeverBlocks`: the send that ignores the context finds
  room. `ObserverCatchesUp`, `AnnouncedIsStored`, `TakenIsStored`,
  `LateChangeIgnored`: what is taken is stored, then announced, and the reader ends
  with it; nothing is stored for a call that began after Close. `CallReturns`,
  `CloseEndsStream`: nobody hangs.
* **The checkers.** `ReaderKnows`: a reader that waits on an empty channel knows the
  stored status, although a full channel drops the newer of two values.
  `ReportsChecks`, `WarningIsTemporary`: an enabled checker comes back to the result
  of a check, however calls and checks overtake each other. `DisableHaltsChecks`,
  `EnabledHasLoop`, `LoopsEnd`: Disable and Enable end and start what they should.
  `CloseReturns`, `StopsBeforeItCloses`, `CallsReturn`, `CloseEndsStream`: shutdown.
  `LoopEndsFirst`: where Close waits for the loop nothing is closed under it.
  `NothingLeft`: whatever step of a check failed, and whether or not anybody waits for
  its query, nothing stays open and no goroutine stays. Each of these speaks of behaviours
  that may end in a panic, which the two checkers that close their channel cannot rule
  out when the application goes on calling them.
* **The contract.** `ImplementsContract` in every component.

### Findings

| Run | What the code does |
|---|---|
| `http_checker_panic` | `http_checker.go:145` says the broadcast does not panic when the component is closed. A `Disable`, or the check `Enable` starts, that passed the test of the context before Close may send after the loop has closed the channel. |
| `polling_checkers_disabled` | `postgres/checker_test.go:162` expects the disabled status to stay. A query in flight during `Disable` replaces it, because the flag is read only before the query. Every polling checker and the HTTP checker share the order of these steps. `DisableHaltsChecks` is what does hold: it happens at most once per check in flight. |
| `sqlserver_db` | `sqlserver/checker.go:157` leaves closing the connection to the loop. When the loop picks a tick and finds the context done (line 254) it leaves without closing it; Close returns with the connection open. |
| `rabbitmq_enable` | `rabbitmq/checker.go:232` counts on the default of a select "if the channel is full or closed". A send on a closed channel panics all the same: an `Enable` after Close has closed the trigger ends the process. |

Further observations have no run of their own: an S3 checker with a nil
configuration panics in its first check, before the test that would report it
(`S3Checker!BucketName`); a Vault checker that is disabled, closed and then enabled
runs again (reachable in `VaultChecker`; `LoopsEnd` excludes it in its second
disjunct); a Vault loop that is inside a check during a quick `Disable` and `Enable`
waits for the new context and goes on beside the new loop; `Disable` or `Enable` after
Close panic in the SQL Server checker as they do in the RabbitMQ checker (a
`ChangeStatus` only if it has passed the test of the context before); the unexpected result of SQL Server stores a function as its observed value
(`sqlserver/checker.go:368`, data that the modules leave out); and all readers of `StatusChange()` share one channel, so that an
application that reads it takes values from the service (the contract has one reader).

## 5. The proofs

All are for every value of the constants under the named assumptions of the
modules, which TLC evaluates on its instances: the number of components, their statuses
and the sizes of their channels (`NAssumption`, `StatusesAssumption`,
`CapacityAssumption`, `NoneAssumption`); the calls of the core component
(`ComponentStatusesAssumption`, `MaxCallsAssumption`, `NoCallAssumption`); that the loop
is none of the other goroutines (`GoroutinesAssumption` of `HTTPChecker` and
`PollingChecker`); and that the bounds on the clock, on the calls of Enable and on late
queries are numbers (`MaxClockAssumption`, `MaxEnablesAssumption`, `MaxLateAssumption`).
The sets of callers and of goroutines need not even be finite.

| Module | Safety proved for every instance | Contract |
|---|---|---|
| `CoreComponentProofs` | `TypeOK`, `SendNeverBlocks`, `ObserverCatchesUp`, `AnnouncedIsStored`, `LateChangeIgnored` | `Implements` |
| `ServiceProofs` | `TypeOK`, `StatusExplained`, `Converged`, `ReportSound`, `ReadyTellsTruth` | uses it |
| `UptimeProofs` | `TypeOK`, `NeverGoesBack`, room for the send | `Implements` |
| `HTTPCheckerProofs` | `TypeOK`, no panic before Close | `Implements` |
| `PollingProofs` | `TypeOK`, `ReaderKnows`, `LoopEndsFirst` | `Implements` |
| `PollingPanicProofs` | what can panic, what a check may hold | |
| `MariaDBProofs` | `TypeOK`, `StopsBeforeItCloses`, `ReaderKnows` | `Implements` |
| `VaultProofs` | `TypeOK`, `EnabledHasLoop` | `Implements` |

**The contract.** Every component of the library is proved to implement
`ComponentContract`, and `ServiceProofs` is about any components that do. So the safety of
the service holds for services made of the real components, each verified alone. That a
conjunction of implementations implements the contract of *N* components is the argument
of this paragraph and not a theorem: they share no state but their own channels.
In each refinement proof a step is mapped to one step of the contract or to a
stutter. There are two shapes. The checkers that store and send in one critical section
take `StoreAndSend`, and a full channel is the value the reader will be told by. The
others store, drain and send in three steps: `owed` is mapped to "the goroutine is between
its store and its send", in the HTTP checker "*some* goroutine is", so that a send
leaves the debt standing while another goroutine has yet to send (`more` in `Send`), and only
the last one that gives up, with the component closing, is an `Abandon`.

**`CoreComponentProofs`.** The properties are not inductive alone. Room for
the send follows from what the actor has just done (`actor = "send"` only with an
empty channel), and that the reader catches up needs the stored status to be the
one in hand between the store and the send. `LateIgnored` needs the most: a late
change can be in three places, in a parked caller, in the actor's hand, or
stored. The invariant says that late calls begin only when the context is done,
and that then nobody is parked on either side, so that neither can hand it over.

**`ServiceProofs`.** `Converged` says nothing about states where something is in
flight, so it cannot be inductive; `StatusExplained` is its strengthening, and
`ScanExplained` carries it through a scan: while a scan is at component *i*, its
`overall` is the worst of the first *i − 1* values of some statuses that differ from
the components' own only where news is on its way. The whole argument is that news
of a component leaves its way only into a new request, and that a request is taken
off its way only by `Acquire`, after which every component is read afresh. `LockInv`
(one scan at a time, no reader during a scan) and `ProbeInv` complete the invariant.
The early break at the first failure is sound because nothing is worse than it.
With nothing in flight the "some statuses" must be the components' own, which gives
`Converged`.

`ReadyTellsTruth` needs `AnswerInv` beside it: by `Converged` the copy a probe takes with
nothing in flight gives the right code, the copy is the probe's own until `Respond` uses it,
and no probe that is still at work has an answer.

**`UptimeProofs`.** `NeverGoesBack` is an action property of the reader, and its reason is
an order of four values: what the reader was told, the unread value, the stored status and
the value in hand between measurement and store (`OrderInv`, `MeasuredInv`). The drain
keeps it because the value taken out is older than the one that follows. That the only
sender sends into an empty channel (`SendNeverBlocks`) holds after Close as well.

**`HTTPCheckerProofs`.** Most steps are *quiet*: they move a goroutine neither to nor from
the broadcast. The invariant adds to the types that only a loop that has seen the end of the
context closes the channel, and that only the closed channel makes a send panic: the panic
of the finding `http_checker_panic` needs a Close.

**`PollingProofs`.** Seven checkers, one proof: `StepKinds` sorts the steps of all of them
into those that *work* (they may store and announce a status, and never bring a loop back),
those by which a loop *leaves*, those that *close*, and those of the reader. The invariant
is then kept kind by kind. `ReaderKnows` needs no more than that storing and announcing are
one step. `LoopEndsFirst` needs `CleaningInv`: RabbitMQ's Close is at its clean-up only
after the loop is done, and a loop that is done stays done (which is why the goroutines of
Enable must not be the loop).

**`PollingPanicProofs`** strengthens that invariant by who may find a channel closed.
`ChannelInv`, `TriggerInv`: only in the RabbitMQ and SQL Server checkers, and only once Close has
begun. `OneLoopInv`: these two make all checks in the loop, so that with `LoopEndsFirst`
no check meets the closed channel. What is left is `PanicsAreExplained`: a panic is a call
of the application after Close (in these two), or a check of an S3 checker without a
configuration; `PanicsAreRare` is the same as an invariant. `ChecksRelease`
(`OnlyChecksHold`) is the safety half of `NothingLeft`: a goroutine that rests, waits for
a tick or has ended holds nothing open, so a check never begins with what another has left.
These three properties are proved and are in no run; TLC checked them, and the invariant,
on the instance of `polling_checkers` first.

**`VaultProofs`.** `EnabledHasLoop` speaks of some loop; the invariant says which: the one
of the latest context. `WaitsInv`: a loop waits for its own context or a later one, never an
older one, because it reads `v.ctx` anew after the mutex was released. `ActiveInv`, `RunsInv`: the
latest context of an enabled checker is not cancelled, and its loop has not left.
`DoneInv` and `FutureInv` (nothing is cancelled, and nothing runs, before its Enable) carry
these over the next Enable.

**`MariaDBProofs`.** The invariant ties the place of Close to what has been done and
to the end of the goroutine.

**Only model-checked** is what needs fairness, because liveness and ENABLED are out of the
prover's reach here: `TakenIsStored`, `CallReturns`, `CloseEndsStream`, `Converges`,
`AllExit`, `ProbeServed`, `WarningIsTemporary`, `CallsReturn`, `ReportsChecks`,
`DisableHaltsChecks`, `CloseReturns`, `NothingLeft` and `LoopsEnd`. The type invariants of `Uptime`
and `VaultChecker` are proved and in no run. The properties of the four violation runs are
false and have no theorem; `PanicsAreExplained` and `NoPanicBeforeClose` say how far two of
them are.

## 6. What is not modelled, and why

* `core/health.go`, `status.go`, `descriptor.go`: plain data and JSON tags, of which
  only `StatusEnum` matters. The liveness probe (a constant 200), the text of reports,
  `Descriptor()`, and the copying of descriptor fields into `ComponentHealth` have no
  state. The encoding of a report, and so the 500 that comes too late when it
  fails, is left out: `Respond` ends with the status code, which is written before.
* The handler that `http_handler.go:62` makes when the package is initialised: a service
  like any other, which nobody closes.
* The deferred calls that close what a Solace check has opened are one step: only that
  they come after the status is stored, and whatever has failed, is modelled.
* A second Close of a polling checker (also of RabbitMQ or SQL Server), which panics in `close(quit)`: each module
  calls Close once, as the service does. The contract allows it to be repeated.
* Database drivers and clients are outside the repository: a query ends with one of
  its outcomes, or fails on a closed client or a done context.
* The tests and the mocks of the packages use the library and add no protocol.

## 7. The plan

1. *Done:* every component with state is modelled and checked.
2. *Done:* every safety property that a run checks, and every refinement of the contract, is
   proved for every value of the constants.
3. A run, and a theorem, that compose the service with real components in the place of the
   contract: on a small instance it tests the contract itself, and proved it would replace
   the argument at the head of section 5 by a theorem.
4. `PanicsAreExplained` and `OnlyChecksHold` as properties of `polling_checkers`, with
   mutants, in the place of what they imply.
