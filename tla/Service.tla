------------------------------ MODULE Service ------------------------------
(***************************************************************************)
(* core.NewService and the readiness probe: the overall status of a        *)
(* service is the worst status of its components, recomputed whenever one  *)
(* of them announces a change.                                             *)
(*                                                                         *)
(*   components --channel--> one watcher each --recalcChan--> recalculator *)
(*                                                                         *)
(* recalculateStatus runs under the write lock of the service's RWMutex,   *)
(* in the recalculator and once in NewService itself (the constructor);    *)
(* Health(), called by the probes, collects the components' statuses under *)
(* the read lock.  Both read one component after the other while the       *)
(* components change: ComponentContract says what a component may do.      *)
(***************************************************************************)
EXTENDS ComponentContract

CONSTANTS
  Probes,     \* goroutines that serve /.well-known/ready
  None        \* nobody holds the write lock

Scanners == {"constructor", "recalculator"}

ASSUME NoneAssumption == None \notin Scanners

Aggregates == {"pass", "warn", "fail"}

VARIABLES
  serviceStatus,  \* s.lastStatus.Status
  recalc,         \* values in recalcChan, which has room for one
  watcher,        \* where the watcher of each component is
  scanner,        \* where each caller of recalculateStatus is
  scan,           \* its local variables: the next component, overallStatus
  writer,         \* who has s.mutex locked, or is waiting for its readers
  cancelled,      \* the service's context is done
  closer,         \* the next component Close() will close; 0 before Close()
  probe,          \* where each probe is
  checks,         \* the statuses its call of Health() has collected
  next,           \* the next component it will read
  health,         \* the status in the report Health() returned to it
  answer,         \* the HTTP status code it sent; 0 before
  truth           \* history: the code that was right when Health() returned; 0 if
                  \* news was in flight then

serviceVars == <<serviceStatus, recalc, watcher, scanner, scan, writer, cancelled,
                 closer, probe, checks, next, health, answer, truth>>
lockVars  == <<scanner, scan, writer>>
probeVars == <<probe, checks, next, health, answer, truth>>
vars      == <<contractVars, serviceVars>>

TypeOK ==
  /\ ContractTypeOK
  /\ serviceStatus \in Aggregates
  /\ recalc \in 0 .. 1
  /\ watcher \in [Components -> {"waiting", "trigger", "exited"}]
  /\ scanner \in [Scanners -> {"idle", "called", "announced", "scanning", "exited"}]
  /\ scan \in [Scanners -> [next : 1 .. N + 1, overall : Aggregates]]
  /\ writer \in Scanners \cup {None}
  /\ cancelled \in BOOLEAN
  /\ closer \in 0 .. N + 1
  /\ probe \in [Probes -> {"idle", "waiting", "collecting", "answering"}]
  /\ checks \in [Probes -> [Components -> StatusEnum]]
  /\ next \in [Probes -> 1 .. N + 1]
  /\ health \in [Probes -> StatusEnum]
  /\ answer \in [Probes -> {0, 200, 503}]
  /\ truth \in [Probes -> {0, 200, 503}]

NoChecks == [c \in Components |-> ""]
NoReport == ""

\* NewService has started its goroutines and is about to compute the first status.
Init ==
  /\ ContractInit
  /\ serviceStatus = "pass"
  /\ recalc = 0
  /\ watcher = [c \in Components |-> "waiting"]
  /\ scanner = [r \in Scanners |-> IF r = "constructor" THEN "called" ELSE "idle"]
  /\ scan = [r \in Scanners |-> [next |-> 1, overall |-> "pass"]]
  /\ writer = None
  /\ cancelled = FALSE
  /\ closer = 0
  /\ probe = [p \in Probes |-> "idle"]
  /\ checks = [p \in Probes |-> NoChecks]
  /\ next = [p \in Probes |-> 1]
  /\ health = [p \in Probes |-> NoReport]
  /\ answer = [p \in Probes |-> 0]
  /\ truth = [p \in Probes |-> 0]

-----------------------------------------------------------------------------
\* The watcher of component c.

WatcherReceive(c) ==
  /\ watcher[c] = "waiting"
  /\ Receive(c)
  /\ watcher' = [watcher EXCEPT ![c] = "trigger"]
  /\ UNCHANGED <<serviceStatus, recalc, lockVars, cancelled, closer, probeVars>>

TriggerUnlessBusy(c) ==  \* mutant: no request while a recalculation is running
  /\ watcher[c] = "trigger"
  /\ recalc' = IF scanner["recalculator"] = "idle" THEN 1 ELSE recalc
  /\ watcher' = [watcher EXCEPT ![c] = "waiting"]
  /\ UNCHANGED <<contractVars, serviceStatus, lockVars, cancelled, closer, probeVars>>

CountRequests(c) ==  \* mutant: every change queues a request of its own
  /\ watcher[c] = "trigger"
  /\ recalc' = recalc + 1
  /\ watcher' = [watcher EXCEPT ![c] = "waiting"]
  /\ UNCHANGED <<contractVars, serviceStatus, lockVars, cancelled, closer, probeVars>>

\* A non-blocking send: a request that is already waiting serves this change too.
WatcherTrigger(c) ==
  /\ watcher[c] = "trigger"
  /\ recalc' = 1
  /\ watcher' = [watcher EXCEPT ![c] = "waiting"]
  /\ UNCHANGED <<contractVars, serviceStatus, lockVars, cancelled, closer, probeVars>>

NeverExit(c) ==  \* mutant: the watcher does not look at the context
  /\ FALSE
  /\ UNCHANGED vars

WatcherExit(c) ==
  /\ watcher[c] = "waiting"
  /\ cancelled
  /\ watcher' = [watcher EXCEPT ![c] = "exited"]
  /\ UNCHANGED <<contractVars, serviceStatus, recalc, lockVars, cancelled, closer,
                 probeVars>>

-----------------------------------------------------------------------------
\* The recalculator, and recalculateStatus in both of its callers.

TakeRequest ==
  /\ scanner["recalculator"] = "idle"
  /\ recalc = 1
  /\ recalc' = 0
  /\ scanner' = [scanner EXCEPT !["recalculator"] = "called"]
  /\ UNCHANGED <<contractVars, serviceStatus, watcher, scan, writer, cancelled, closer,
                 probeVars>>

RecalculatorExit ==
  /\ scanner["recalculator"] = "idle"
  /\ cancelled
  /\ scanner' = [scanner EXCEPT !["recalculator"] = "exited"]
  /\ UNCHANGED <<contractVars, serviceStatus, recalc, watcher, scan, writer, cancelled,
                 closer, probeVars>>

\* s.mutex.Lock() first shuts out other writers and new readers,
Announce(r) ==
  /\ scanner[r] = "called"
  /\ writer = None
  /\ writer' = r
  /\ scanner' = [scanner EXCEPT ![r] = "announced"]
  /\ UNCHANGED <<contractVars, serviceStatus, recalc, watcher, scan, cancelled, closer,
                 probeVars>>

IgnoreReaders(r) ==  \* mutant: probes do not hold the read lock
  /\ scanner[r] = "announced"
  /\ scan' = [scan EXCEPT ![r] = [next |-> 1, overall |-> "pass"]]
  /\ scanner' = [scanner EXCEPT ![r] = "scanning"]
  /\ UNCHANGED <<contractVars, serviceStatus, recalc, watcher, writer, cancelled, closer,
                 probeVars>>

KeepOverall(r) ==  \* mutant: overallStatus is not reset to pass
  /\ scanner[r] = "announced"
  /\ \A p \in Probes : probe[p] # "collecting"
  /\ scan' = [scan EXCEPT ![r].next = 1]
  /\ scanner' = [scanner EXCEPT ![r] = "scanning"]
  /\ UNCHANGED <<contractVars, serviceStatus, recalc, watcher, writer, cancelled, closer,
                 probeVars>>

\* and then waits for the readers it has.
Acquire(r) ==
  /\ scanner[r] = "announced"
  /\ \A p \in Probes : probe[p] # "collecting"
  /\ scan' = [scan EXCEPT ![r] = [next |-> 1, overall |-> "pass"]]
  /\ scanner' = [scanner EXCEPT ![r] = "scanning"]
  /\ UNCHANGED <<contractVars, serviceStatus, recalc, watcher, writer, cancelled, closer,
                 probeVars>>

\* The loop body for a component with status s: a failure ends the loop, and a
\* status that is neither "fail" nor "warn" counts as passing.
ScanStep(v, s) ==
  IF s = "fail"
    THEN [next |-> N + 1, overall |-> "fail"]
    ELSE [next |-> v.next + 1,
          overall |-> IF s = "warn" /\ v.overall = "pass" THEN "warn" ELSE v.overall]

SkipLast(r) ==  \* mutant: the loop stops one component early
  /\ scanner[r] = "scanning"
  /\ scan[r].next \in Components
  /\ scan' = [scan EXCEPT ![r] = IF scan[r].next = N
                                   THEN [@ EXCEPT !.next = N + 1]
                                   ELSE ScanStep(scan[r], status[scan[r].next])]
  /\ UNCHANGED <<contractVars, serviceStatus, recalc, watcher, scanner, writer,
                 cancelled, closer, probeVars>>

ScanComponent(r) ==
  /\ scanner[r] = "scanning"
  /\ scan[r].next \in Components
  /\ scan' = [scan EXCEPT ![r] = ScanStep(scan[r], status[scan[r].next])]
  /\ UNCHANGED <<contractVars, serviceStatus, recalc, watcher, scanner, writer,
                 cancelled, closer, probeVars>>

KeepLock(r) ==  \* mutant: a failed service is published without the unlock
  /\ scanner[r] = "scanning"
  /\ scan[r].next = N + 1
  /\ serviceStatus' = scan[r].overall
  /\ writer' = IF scan[r].overall = "fail" THEN writer ELSE None
  /\ scanner' = [scanner EXCEPT ![r] = IF r = "constructor" THEN "exited" ELSE "idle"]
  /\ UNCHANGED <<contractVars, recalc, watcher, scan, cancelled, closer, probeVars>>

\* s.lastStatus.Status = overallStatus, and the deferred unlock.
Publish(r) ==
  /\ scanner[r] = "scanning"
  /\ scan[r].next = N + 1
  /\ serviceStatus' = scan[r].overall
  /\ writer' = None
  /\ scanner' = [scanner EXCEPT ![r] = IF r = "constructor" THEN "exited" ELSE "idle"]
  /\ UNCHANGED <<contractVars, recalc, watcher, scan, cancelled, closer, probeVars>>

Recalculation(r) == Announce(r) \/ Acquire(r) \/ ScanComponent(r) \/ Publish(r)

-----------------------------------------------------------------------------
\* service.Close(): the context first, then the components in their order.  The
\* application has the service only once the constructor has returned.

Cancel ==
  /\ closer = 0
  /\ scanner["constructor"] = "exited"
  /\ cancelled' = TRUE
  /\ closer' = 1
  /\ UNCHANGED <<contractVars, serviceStatus, recalc, watcher, lockVars, probeVars>>

CloseNext ==
  /\ closer \in Components
  /\ CloseComponent(closer)
  /\ closer' = closer + 1
  /\ UNCHANGED <<serviceStatus, recalc, watcher, lockVars, cancelled, probeVars>>

-----------------------------------------------------------------------------
\* News in flight.

\* A recalculation is coming that will read every component afresh.
Requested == recalc = 1 \/ \E r \in Scanners : scanner[r] \in {"called", "announced"}

\* News of component c is still on its way to the recalculator, or c is closing and
\* need not tell.
OnItsWay(c) ==
  Requested \/ owed[c] \/ queued[c] > 0 \/ watcher[c] = "trigger" \/ closing[c]

Scanning == \E r \in Scanners : scanner[r] = "scanning"

Settled == ~Scanning /\ ~cancelled /\ \A c \in Components : ~OnItsWay(c)

\* The code a probe should answer by the components as they are; 0 when news is in
\* flight and no answer is right or wrong.
TruthNow ==
  IF ~Settled THEN 0 ELSE IF \E c \in Components : status[c] = "fail" THEN 503 ELSE 200

-----------------------------------------------------------------------------
\* GET /.well-known/ready: service.Health() under the read lock, then, without it, the
\* HTTP status code.

Request(p) ==
  /\ probe[p] = "idle"
  /\ scanner["constructor"] = "exited"
  /\ probe' = [probe EXCEPT ![p] = "waiting"]
  /\ answer' = [answer EXCEPT ![p] = 0]
  /\ truth' = [truth EXCEPT ![p] = 0]
  /\ UNCHANGED <<contractVars, serviceStatus, recalc, watcher, lockVars, cancelled,
                 closer, checks, next, health>>

RLock(p) ==
  /\ probe[p] = "waiting"
  /\ writer = None
  /\ probe' = [probe EXCEPT ![p] = "collecting"]
  /\ UNCHANGED <<contractVars, serviceStatus, recalc, watcher, lockVars, cancelled,
                 closer, checks, next, health, answer, truth>>

\* c.Health() reads the component's current status, not the one last scanned.
Collect(p) ==
  /\ probe[p] = "collecting"
  /\ next[p] \in Components
  /\ checks' = [checks EXCEPT ![p][next[p]] = status[next[p]]]
  /\ next' = [next EXCEPT ![p] = @ + 1]
  /\ UNCHANGED <<contractVars, serviceStatus, recalc, watcher, lockVars, cancelled,
                 closer, probe, health, answer, truth>>

\* The report copies s.lastStatus.Status, and the deferred unlock.  The handler looks
\* at the status of the report only, so its checks are forgotten here.
HealthReturns(p) ==
  /\ probe[p] = "collecting"
  /\ next[p] = N + 1
  /\ health' = [health EXCEPT ![p] = serviceStatus]
  /\ truth' = [truth EXCEPT ![p] = TruthNow]
  /\ probe' = [probe EXCEPT ![p] = "answering"]
  /\ next' = [next EXCEPT ![p] = 1]
  /\ checks' = [checks EXCEPT ![p] = NoChecks]
  /\ UNCHANGED <<contractVars, serviceStatus, recalc, watcher, lockVars, cancelled,
                 closer, answer>>

\* http.StatusServiceUnavailable for a failed service; a warning is still ready.
ReadyCode(s) == IF s = "fail" THEN 503 ELSE 200

Reread(p) ==  \* mutant: the code follows the service and not the report it is sent with
  /\ probe[p] = "answering"
  /\ answer' = [answer EXCEPT ![p] = ReadyCode(serviceStatus)]
  /\ health' = [health EXCEPT ![p] = NoReport]
  /\ probe' = [probe EXCEPT ![p] = "idle"]
  /\ UNCHANGED <<contractVars, serviceStatus, recalc, watcher, lockVars, cancelled,
                 closer, checks, next, truth>>

\* Nothing is locked any more: the components and the service may have moved on.
Respond(p) ==
  /\ probe[p] = "answering"
  /\ answer' = [answer EXCEPT ![p] = ReadyCode(health[p])]
  /\ health' = [health EXCEPT ![p] = NoReport]
  /\ probe' = [probe EXCEPT ![p] = "idle"]
  /\ UNCHANGED <<contractVars, serviceStatus, recalc, watcher, lockVars, cancelled,
                 closer, checks, next, truth>>

Probe(p) == Request(p) \/ RLock(p) \/ Collect(p) \/ HealthReturns(p) \/ Respond(p)

-----------------------------------------------------------------------------
Watcher(c) == WatcherReceive(c) \/ WatcherTrigger(c) \/ WatcherExit(c)

\* The application may also close a component itself.
ComponentMoves(c) == ComponentStep(c) /\ UNCHANGED serviceVars
ComponentSends(c) == Send(c) /\ UNCHANGED serviceVars

Next ==
  \/ \E c \in Components : Watcher(c) \/ ComponentMoves(c)
  \/ TakeRequest
  \/ RecalculatorExit
  \/ \E r \in Scanners : Recalculation(r)
  \/ Cancel
  \/ CloseNext
  \/ \E p \in Probes : Probe(p)

Spec == Init /\ [][Next]_vars

\* Goroutines run, a component sends what it owes, and a request that has started is
\* served.  A value sent while the watcher is parked in its select is handed to it at
\* once, so a component that keeps draining its buffer cannot take every value back.
\* A Go select with several ready cases picks one at random, so a goroutine that finds
\* the context done again and again exits; an RWMutex lets the readers that
\* wait for a writer in before the next writer.
Progress ==
  /\ \A c \in Components :
       /\ WF_vars(ComponentSends(c))
       /\ WF_vars(Watcher(c))
       /\ SF_vars(WatcherReceive(c))
  /\ WF_vars(TakeRequest)
  /\ \A r \in Scanners : WF_vars(Recalculation(r))
  /\ \A p \in Probes : /\ WF_vars(Collect(p) \/ HealthReturns(p) \/ Respond(p))
                        /\ SF_vars(RLock(p))

Ending ==
  /\ \A c \in Components : SF_vars(WatcherExit(c))
  /\ SF_vars(RecalculatorExit)
  /\ WF_vars(CloseNext)

Fairness == Progress /\ Ending

FairSpec == Spec /\ Fairness

-----------------------------------------------------------------------------
\* The worst of v[1], .., v[i - 1], and of all components.
WorstBefore(v, i) ==
  IF \E c \in Components : c < i /\ v[c] = "fail" THEN "fail"
  ELSE IF \E c \in Components : c < i /\ v[c] = "warn" THEN "warn"
  ELSE "pass"

Worst(v) == WorstBefore(v, N + 1)

\* No lost wake-up: with nothing in flight, the status of the service is the worst
\* status of its components, whatever changed while it was computed
\* (service.go:48-52, 63-64, 83-98).
Converged == Settled => serviceStatus = Worst(status)

\* At any time, also while news is in flight, the status of the service is the worst
\* of some statuses that differ from the components' own only where news is on its
\* way: a component nobody has heard from cannot be misjudged because of others.
\* The same statuses account for all a probe has collected so far.
Explains(v) ==
  /\ \A c \in Components : v[c] # status[c] => OnItsWay(c)
  /\ \A p \in Probes, c \in Components :
       probe[p] = "collecting" /\ c < next[p] /\ v[c] # checks[p][c] => OnItsWay(c)

StatusExplained ==
  ~cancelled /\ ~Scanning =>
    \E v \in [Components -> StatusEnum] : serviceStatus = Worst(v) /\ Explains(v)

\* A report whose overall status contradicts the checks it lists, which Health() can
\* produce (service.go:101-126), is always followed by a recalculation.
ReportSound ==
  \A p \in Probes :
    probe[p] = "collecting" /\ next[p] = N + 1 /\ serviceStatus # Worst(checks[p]) =>
      cancelled \/ \E c \in Components : OnItsWay(c)

\* A probe that reads the status of the service with nothing in flight answers 503 if
\* some component failed at that moment and 200 if none did, whatever happens before
\* the code is written (service.go:101-126, http_handler.go:20-35).  The answer may be
\* out of date when it is sent: nothing is locked by then.
ReadyTellsTruth ==
  \A p \in Probes : answer[p] # 0 /\ truth[p] # 0 => answer[p] = truth[p]

\* Once the components stop changing the service agrees with them for good, unless
\* one of them is closed.
Converges ==
  \/ <>[](serviceStatus = Worst(status))
  \/ []<><<status' # status>>_vars
  \/ <>(\E c \in Components : closing[c])

\* service.Close() ends the goroutines of NewService, also when a component's closed
\* channel keeps its watcher busy.
AllExit ==
  cancelled ~> /\ \A c \in Components : watcher[c] = "exited"
               /\ scanner["recalculator"] = "exited"

\* A readiness request is answered, however often recalculations take the lock.
ProbeServed == \A p \in Probes : probe[p] = "waiting" ~> probe[p] = "idle"
=============================================================================
