----------------------------- MODULE Scheduler -----------------------------
(***************************************************************************)
(* The device registry and the scheduler that follows it                   *)
(* (internal/scheduler, with the API handlers and the serve command that   *)
(* drive it).  A handler writes the registry and then calls Refresh, which *)
(* lists the registry and reconciles the polling goroutines with it, all   *)
(* under the scheduler's mutex.  The registry itself is not under that     *)
(* mutex.  A goroutine keeps the registry row it was started with.         *)
(***************************************************************************)
EXTENDS Naturals, Sequences, SequencesExt

CONSTANTS Devices,
          Confs,         \* polling configurations: interval, type, collector
          BadConfs,      \* those no collector can be built from
          Vendors,       \* the fields of a row a poll uses but no loop is keyed on
          Gone,          \* no row
          Handlers,      \* concurrent API requests
          Main,          \* the serve command
          MaxMutations,  \* bound: writes to the registry
          MaxFailures    \* bound: registry listings that fail

Threads == Handlers \cup {Main}
Free == "free"

ASSUME SchedulerAssumption ==
          /\ IsFiniteSet(Devices)
          /\ BadConfs \subseteq Confs
          /\ Main \notin Handlers /\ Free \notin Threads
          /\ MaxMutations \in Nat /\ MaxFailures \in Nat

\* polled: enabled, with a positive interval.
Rows == [polled : BOOLEAN, conf : Confs, vendor : Vendors]

VARIABLES registry,    \* per device, its row or Gone
          ctx,         \* the scheduler's context: "none", "live", "cancelled"
          mu,          \* who holds the scheduler's mutex
          pc,          \* per thread, what it does next
          listed,      \* the registry as the holder of the mutex listed it
          loops,       \* per device, its entry: index of a goroutine, or 0
          goroutines,  \* every polling goroutine ever started
          mutations, failures

vars == <<registry, ctx, mu, pc, listed, loops, goroutines, mutations, failures>>

ThreadPCs == {"start", "idle", "refresh", "reconcile", "stop", "wait", "stopped"}
Goroutines == [device : Devices, row : Rows, cancelled : BOOLEAN,
               state : {"building", "ticking", "polling", "exited"}]

TypeOK ==
    /\ registry \in [Devices -> Rows \cup {Gone}]
    /\ ctx \in {"none", "live", "cancelled"}
    /\ mu \in Threads \cup {Free}
    /\ pc \in [Threads -> ThreadPCs]
    /\ listed \in [Devices -> Rows \cup {Gone}]
    /\ goroutines \in Seq(Goroutines)
    /\ loops \in [Devices -> 0..Len(goroutines)]
    /\ mutations \in 0..MaxMutations /\ failures \in 0..MaxFailures

NothingListed == [d \in Devices |-> Gone]

Init ==
    /\ registry \in [Devices -> Rows \cup {Gone}]
    /\ ctx = "none"
    /\ mu = Free
    /\ pc = [t \in Threads |-> IF t = Main THEN "start" ELSE "idle"]
    /\ listed = NothingListed
    /\ loops = [d \in Devices |-> 0]
    /\ goroutines = <<>>
    /\ mutations = 0 /\ failures = 0

Goto(t, l) == pc' = [pc EXCEPT ![t] = l]

\* The serve command has not given up and the API is wired to the scheduler.
Serving == pc[Main] \in {"idle", "stop", "wait", "stopped"} /\ ctx # "none"

----------------------------------------------------------------------------
\* Start, Refresh and Stop

Start ==
    /\ pc[Main] = "start"
    /\ mu = Free
    /\ ctx' = "live"
    /\ Goto(Main, "refresh")
    /\ UNCHANGED <<registry, mu, listed, loops, goroutines, mutations, failures>>

\* What a thread goes on with when its Refresh returns.
Return(t) == Goto(t, "idle")

\* (mutation) The context is not looked at.
RefreshListAlways(t) ==
    /\ pc[t] = "refresh"
    /\ mu = Free
    /\ mu' = t /\ listed' = registry /\ Goto(t, "reconcile")
    /\ UNCHANGED <<registry, ctx, loops, goroutines, mutations, failures>>

\* The first half of Refresh: lock, check the context, list the devices.
RefreshList(t) ==
    /\ pc[t] = "refresh"
    /\ mu = Free
    /\ IF ctx = "cancelled"
       THEN Return(t) /\ UNCHANGED <<mu, listed>>
       ELSE mu' = t /\ listed' = registry /\ Goto(t, "reconcile")
    /\ UNCHANGED <<registry, ctx, loops, goroutines, mutations, failures>>

\* The listing fails: loops stay as they are until another Refresh.  The serve
\* command gives up; a new process starts over.
RefreshFails(t) ==
    /\ pc[t] = "refresh"
    /\ mu = Free
    /\ ctx = "live"
    /\ failures < MaxFailures
    /\ failures' = failures + 1
    /\ IF t = Main THEN Goto(t, "start") /\ ctx' = "none" ELSE Return(t) /\ UNCHANGED ctx
    /\ UNCHANGED <<registry, mu, listed, loops, goroutines, mutations>>

Wanted == {d \in Devices : listed[d] # Gone /\ listed[d].polled}

\* (mutation) A changed configuration does not restart a loop.
SamePollingConfigAlways(a, b) == a.polled = b.polled

\* A row's interval, collector type and collector configuration.
SamePollingConfig(a, b) == a.conf = b.conf

Kept == {d \in Wanted : loops[d] # 0 /\ SamePollingConfig(goroutines[loops[d]].row, listed[d])}

\* (mutation) A loop to be restarted is replaced but not cancelled.
CancelsGoneLoop(d) == loops[d] # 0 /\ d \notin Wanted

CancelsLoop(d) == loops[d] # 0 /\ d \notin Kept

\* (mutation) Off by one.
EntryAfter(new, d) == Len(goroutines) + 1 + CHOOSE i \in 1..Len(new) : new[i] = d

\* The goroutine started for a device, its position among the new ones.
EntryOf(new, d) == Len(goroutines) + CHOOSE i \in 1..Len(new) : new[i] = d

\* The second half: cancel the loops of devices that are gone or changed, start
\* those that are missing, unlock.  Cancelled goroutines are not waited for.
Reconcile(t) ==
    /\ pc[t] = "reconcile"
    /\ LET new == SetToSeq(Wanted \ Kept)
           old == [i \in 1..Len(goroutines) |->
                      [goroutines[i] EXCEPT !.cancelled =
                          @ \/ \E d \in Devices : loops[d] = i /\ CancelsLoop(d)]]
       IN  /\ goroutines' = old \o [i \in 1..Len(new) |->
                 [device |-> new[i], row |-> listed[new[i]],
                  cancelled |-> FALSE, state |-> "building"]]
           /\ loops' = [d \in Devices |->
                 IF d \in Kept THEN loops[d]
                 ELSE IF d \in Wanted THEN EntryOf(new, d) ELSE 0]
    /\ listed' = NothingListed
    /\ mu' = Free
    /\ Return(t)
    /\ UNCHANGED <<registry, ctx, mutations, failures>>

\* SIGTERM, or the API server fails: the parent context is cancelled, whoever
\* holds the mutex.
Shutdown ==
    /\ pc[Main] = "idle"
    /\ ctx' = "cancelled"
    /\ Goto(Main, "stop")
    /\ UNCHANGED <<registry, mu, listed, loops, goroutines, mutations, failures>>

\* Stop locks to cancel, then waits for the goroutines without the lock.
Stop ==
    /\ pc[Main] = "stop"
    /\ mu = Free
    /\ Goto(Main, "wait")
    /\ UNCHANGED <<registry, ctx, mu, listed, loops, goroutines, mutations, failures>>

Stopped ==
    /\ pc[Main] = "wait"
    /\ \A i \in 1..Len(goroutines) : goroutines[i].state = "exited"
    /\ Goto(Main, "stopped")
    /\ UNCHANGED <<registry, ctx, mu, listed, loops, goroutines, mutations, failures>>

----------------------------------------------------------------------------
\* API handlers: create, patch or delete a device, then Refresh

Mutate(h, d, row) ==
    /\ Serving
    /\ pc[h] = "idle"
    /\ mutations < MaxMutations
    /\ row # registry[d]
    /\ mutations' = mutations + 1
    /\ registry' = [registry EXCEPT ![d] = row]
    /\ Goto(h, "refresh")
    /\ UNCHANGED <<ctx, mu, listed, loops, goroutines, failures>>

----------------------------------------------------------------------------
\* A polling goroutine

Cancelled(i) == goroutines[i].cancelled \/ ctx = "cancelled"

Moves(i, from, to) ==
    /\ goroutines[i].state = from
    /\ goroutines' = [goroutines EXCEPT ![i].state = to]
    /\ UNCHANGED <<registry, ctx, mu, pc, listed, loops, mutations, failures>>

\* A collector that cannot be built ends the goroutine; its entry stays.
Build(i) ==
    IF goroutines[i].row.conf \in BadConfs
    THEN Moves(i, "building", "exited")
    ELSE Moves(i, "building", "ticking")

\* (mutation) Only the goroutine's own context is looked at.
ExitOwn(i) == goroutines[i].cancelled /\ Moves(i, "ticking", "exited")

\* With a tick and a cancellation both ready, select takes either.
Tick(i) == Moves(i, "ticking", "polling")

\* Fetch (bounded by its timeout), Save and the handler return.
PollEnds(i) == Moves(i, "polling", "ticking")

\* (mutation) Only the scheduler's context is looked at.
ExitAtStop(i) == ctx = "cancelled" /\ Moves(i, "ticking", "exited")

Exit(i) == Cancelled(i) /\ Moves(i, "ticking", "exited")

----------------------------------------------------------------------------
ThreadStep(t) == RefreshList(t) \/ Reconcile(t)

MainStep == Start \/ ThreadStep(Main) \/ Stop \/ Stopped

GoroutineEnds(i) == Build(i) \/ PollEnds(i)

Next ==
    \/ MainStep
    \/ Shutdown
    \/ \E t \in Threads : RefreshFails(t)
    \/ \E h \in Handlers : ThreadStep(h)
    \/ \E h \in Handlers, d \in Devices, row \in Rows \cup {Gone} : Mutate(h, d, row)
    \/ \E i \in 1..Len(goroutines) : GoroutineEnds(i) \/ Tick(i) \/ Exit(i)

Spec == Init /\ [][Next]_vars

MaxGoroutines == Cardinality(Devices) * (MaxMutations + 1)

\* Threads run; a poll ends; a cancelled goroutine that keeps coming back to
\* select takes the cancellation in the end, select being fair.
FairSpec ==
    /\ Spec
    /\ WF_vars(MainStep)
    /\ \A h \in Handlers : WF_vars(ThreadStep(h))
    /\ \A i \in 1..MaxGoroutines :
          /\ WF_vars(i <= Len(goroutines) /\ GoroutineEnds(i))
          /\ SF_vars(i <= Len(goroutines) /\ Exit(i))

----------------------------------------------------------------------------
\* What must hold

Live(i) == goroutines[i].state # "exited" /\ ~goroutines[i].cancelled

\* However the refreshes of concurrent handlers interleave with each other and
\* with the registry, no device is polled by two goroutines that nobody has
\* told to stop.
OneLiveLoop ==
    \A i, j \in 1..Len(goroutines) :
        Live(i) /\ Live(j) /\ goroutines[i].device = goroutines[j].device => i = j

\* No registry write is pending a Refresh, and none has failed.
Quiescent ==
    /\ ctx = "live" /\ failures = 0
    /\ \A t \in Threads : pc[t] = "idle"

\* Once every handler has returned, the last registry write has reached the
\* scheduler whichever handler refreshed last: each pollable device, and no
\* other, has an uncancelled goroutine with its present configuration.
LoopsFollowRegistry ==
    Quiescent =>
        \A d \in Devices :
            IF registry[d] # Gone /\ registry[d].polled
            THEN /\ loops[d] # 0
                 /\ goroutines[loops[d]].device = d
                 /\ ~goroutines[loops[d]].cancelled
                 /\ goroutines[loops[d]].row.conf = registry[d].conf
            ELSE \A i \in 1..Len(goroutines) : goroutines[i].device = d => ~Live(i)

\* When Stop has returned nothing polls, and no handler still in a Refresh
\* starts anything, so that the stores can be closed.
NothingAfterStop ==
    pc[Main] = "stopped" => \A i \in 1..Len(goroutines) : goroutines[i].state = "exited"

\* Stop returns: it cannot wait for a goroutine that nobody cancelled, nor on
\* the mutex for ever.
StopReturns == pc[Main] = "stop" ~> pc[Main] = "stopped"

\* A loop taken from its device ends.
CancelledLoopEnds ==
    \A i \in 1..MaxGoroutines :
        (i <= Len(goroutines) /\ goroutines[i].cancelled)
           ~> (i <= Len(goroutines) /\ goroutines[i].state = "exited")

\* The serve command's comment on the shared change path ("the two can never
\* diverge in behavior"): the row a poll loop hands to it is the row an
\* on-demand snapshot would read.
PollUsesCurrentRow ==
    Quiescent => \A i \in 1..Len(goroutines) :
                    goroutines[i].state = "polling" /\ Live(i)
                        => goroutines[i].row = registry[goroutines[i].device]

\* The implementation notes on collectors that cannot be built ("leaves the
\* device unpolled until the next Refresh"): a Refresh leaves no pollable
\* device without a goroutine.
RefreshRevives ==
    [][\A t \in Threads : Reconcile(t) =>
          \A d \in Wanted : goroutines'[loops'[d]].state # "exited"]_vars

============================================================================
