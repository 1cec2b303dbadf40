--------------------------- MODULE SyslogTrigger ---------------------------
(***************************************************************************)
(* Snapshots triggered by syslog packets (internal/syslogtrigger).         *)
(*                                                                         *)
(* One read loop maps a packet's source to a device through a cached map   *)
(* and arms a debounce timer for it.  An expired timer runs a function in  *)
(* a goroutine of its own: it takes the device's debounce window, if there *)
(* still is one, runs the snapshot callback and starts a cooldown.  The    *)
(* listener's mutex covers each critical section, not the callback.        *)
(*                                                                         *)
(* Time is counted in ticks.  A tick waits until every expired timer's     *)
(* function has had the mutex: goroutines are delayed by less than a tick. *)
(***************************************************************************)
EXTENDS Integers, FiniteSets

CONSTANTS Devices,
          Users, NoUser,  \* who a packet names, or nobody
          Slots, NoSlot,  \* bound: timer functions outstanding at a time
          Debounce, Cooldown, MapTTL,  \* in ticks
          MaxToggles      \* bound: devices enabled or disabled

ASSUME TriggerAssumption ==
          /\ NoUser \notin Users /\ NoSlot \notin Slots /\ IsFiniteSet(Slots)
          /\ Debounce \in Nat \ {0} /\ Cooldown \in Nat \ {0} /\ MapTTL \in Nat \ {0}
          /\ MaxToggles \in Nat

VARIABLES window,    \* per device, its debounce window, or NoWindow
          timer,     \* per slot, a timer and the function it runs
          inFlight,  \* devices with a snapshot running
          cooldown,  \* per device, ticks left of its cooldown
          pending,   \* the listener's WaitGroup of timer functions
          reader,    \* the read loop: "reading" or "done"
          cancelled, \* the serve context
          waited,    \* Wait has returned
          enabled,   \* devices the registry has enabled
          mapped,    \* the cached source map's devices
          mapLeft,   \* ticks until the cached map expires
          since,     \* per device, ticks since it was disabled (0: it is not)
          toggles

vars == <<window, timer, inFlight, cooldown, pending, reader, cancelled, waited,
          enabled, mapped, mapLeft, since, toggles>>

mapVars == <<mapped, mapLeft>>
registryVars == <<enabled, since, toggles>>
shutdownVars == <<reader, cancelled, waited>>

NoWindow == [slot |-> NoSlot, by |-> NoUser, named |-> {}]
FreeSlot == [state |-> "free"]

\* by: the attribution so far; named: the users the window's packets named
\* (kept for the properties only).
Windows == [slot : Slots, by : Users \cup {NoUser}, named : SUBSET Users]

TypeOK ==
    /\ window \in [Devices -> Windows \cup {NoWindow}]
    /\ timer \in [Slots ->
            {FreeSlot}
              \cup [state : {"armed"}, device : Devices, left : 0..Debounce]
              \cup [state : {"due"}, device : Devices]
              \cup [state : {"running"}, device : Devices,
                    by : Users \cup {NoUser}, named : SUBSET Users]]
    /\ inFlight \subseteq Devices
    /\ cooldown \in [Devices -> 0..Cooldown]
    /\ pending \in Int
    /\ reader \in {"reading", "done"}
    /\ cancelled \in BOOLEAN /\ waited \in BOOLEAN
    /\ enabled \subseteq Devices /\ mapped \subseteq Devices
    /\ mapLeft \in 0..MapTTL
    /\ since \in [Devices -> 0..(MapTTL + 1)]
    /\ toggles \in 0..MaxToggles

Init ==
    /\ window = [d \in Devices |-> NoWindow]
    /\ timer = [s \in Slots |-> FreeSlot]
    /\ inFlight = {}
    /\ cooldown = [d \in Devices |-> 0]
    /\ pending = 0
    /\ reader = "reading" /\ cancelled = FALSE /\ waited = FALSE
    /\ enabled = Devices
    /\ mapped = {} /\ mapLeft = 0
    /\ since = [d \in Devices |-> 0]
    /\ toggles = 0

----------------------------------------------------------------------------
\* The read loop

\* (mutation) The map is built once.
SourceMapOnce == IF mapped # {} THEN mapped ELSE enabled

\* The devices the source map has when a packet arrives; it is rebuilt from the
\* registry once its time is up.
SourceMap == IF mapLeft > 0 THEN mapped ELSE enabled

Lookup ==
    /\ mapped' = SourceMap
    /\ mapLeft' = IF mapLeft > 0 THEN mapLeft ELSE MapTTL

\* (mutation) The last packet's attribution replaces the earlier one, named or not.
AttributionOfLast(by, u) == u

\* A later packet refines the attribution if it names a user.
Attribution(by, u) == IF u = NoUser THEN by ELSE u

Named(u) == {u} \ {NoUser}

\* (mutation) A later packet pushes the window's end back.
CoalesceSliding(d, u) ==
    /\ window' = [window EXCEPT ![d].by = Attribution(@, u), ![d].named = @ \cup Named(u)]
    /\ timer' = [timer EXCEPT ![window[d].slot] =
                    IF @.state = "armed" THEN [@ EXCEPT !.left = Debounce] ELSE @]
    /\ UNCHANGED pending

\* A later packet leaves the timer alone.
Coalesce(d, u) ==
    /\ window' = [window EXCEPT ![d].by = Attribution(@, u), ![d].named = @ \cup Named(u)]
    /\ UNCHANGED <<timer, pending>>

\* (mutation) The timer runs for longer than the debounce time.
ArmLate(d, u) ==
    \E s \in Slots :
        /\ timer[s] = FreeSlot
        /\ timer' = [timer EXCEPT ![s] =
                        [state |-> "armed", device |-> d, left |-> Debounce + Cooldown]]
        /\ window' = [window EXCEPT ![d] = [slot |-> s, by |-> u, named |-> Named(u)]]
        /\ pending' = pending + 1

\* The first packet of a window arms its timer.
Arm(d, u) ==
    LET s == CHOOSE t \in Slots : timer[t] = FreeSlot
    IN  /\ \E t \in Slots : timer[t] = FreeSlot
        /\ timer' = [timer EXCEPT ![s] =
                        [state |-> "armed", device |-> d, left |-> Debounce]]
        /\ window' = [window EXCEPT ![d] = [slot |-> s, by |-> u, named |-> Named(u)]]
        /\ pending' = pending + 1

\* In a cooldown a packet is dropped, in a window it is coalesced.
Schedule(d, u) ==
    IF cooldown[d] > 0 THEN UNCHANGED <<window, timer, pending>>
    ELSE IF window[d] # NoWindow THEN Coalesce(d, u)
    ELSE Arm(d, u)

\* A packet from device d naming user u is read; a packet of an unknown source
\* goes no further than the map.  A source several devices share is a packet of
\* each; a packet whose map cannot be rebuilt is dropped, a stuttering step.
Packet(d, u) ==
    /\ reader = "reading"
    /\ Lookup
    /\ IF d \in SourceMap THEN Schedule(d, u) ELSE UNCHANGED <<window, timer, pending>>
    /\ UNCHANGED <<inFlight, cooldown, shutdownVars, registryVars>>

----------------------------------------------------------------------------
\* A timer and its function

Expire(s) ==
    /\ timer[s].state = "armed"
    /\ timer[s].left = 0
    /\ timer' = [timer EXCEPT ![s] = [state |-> "due", device |-> @.device]]
    /\ UNCHANGED <<window, inFlight, cooldown, pending, shutdownVars, registryVars, mapVars>>

Busy(d) == d \in inFlight

\* The function finds a window (any: every window has generation 1) and, unless
\* a snapshot is running, begins one.
FireBegins(s) ==
    LET d == timer[s].device
    IN  /\ timer[s].state = "due"
        /\ window[d] # NoWindow
        /\ ~Busy(d)
        /\ window' = [window EXCEPT ![d] = NoWindow]
        /\ inFlight' = inFlight \cup {d}
        /\ timer' = [timer EXCEPT ![s] =
              [state |-> "running", device |-> d, by |-> window[d].by, named |-> window[d].named]]
        /\ UNCHANGED <<cooldown, pending, shutdownVars, registryVars, mapVars>>

\* The window was taken away, or the snapshot it asks for is under way.
FireSkips(s) ==
    LET d == timer[s].device
    IN  /\ timer[s].state = "due"
        /\ window[d] = NoWindow \/ Busy(d)
        /\ window' = [window EXCEPT ![d] = NoWindow]
        /\ timer' = [timer EXCEPT ![s] = FreeSlot]
        /\ pending' = pending - 1
        /\ UNCHANGED <<inFlight, cooldown, shutdownVars, registryVars, mapVars>>

\* Of the timers in W, those timer.Stop() still prevents from running.
StoppedIn(W) == {s \in W : timer[s].state = "armed"}

\* (mutation) What Stop returns is not looked at.
DoneForAny(W) == Cardinality(W)

\* (mutation) Stopped timers are not taken off the WaitGroup.
DoneForNone(W) == 0

\* What stopping the timers in W takes off the WaitGroup: a function that has
\* begun takes itself off.
DoneFor(W) == Cardinality(StoppedIn(W))

\* (mutation) Chatter during the snapshot is left armed.
ArmedDuringNone(d) == {}

\* The timer chatter armed while the snapshot was running, if any.
ArmedDuring(d) == IF window[d] = NoWindow THEN {} ELSE {window[d].slot}

\* (mutation) No cooldown follows a snapshot.
AfterSnapshotNothing(d) == 0

AfterSnapshot(d) == Cooldown

\* The callback returns, with or without an error.
SnapshotEnds(s) ==
    LET d       == timer[s].device
        stopped == StoppedIn(ArmedDuring(d))
    IN  /\ timer[s].state = "running"
        /\ inFlight' = inFlight \ {d}
        /\ timer' = [t \in Slots |-> IF t \in stopped \cup {s} THEN FreeSlot ELSE timer[t]]
        /\ window' = IF ArmedDuring(d) = {} THEN window ELSE [window EXCEPT ![d] = NoWindow]
        /\ pending' = pending - 1 - DoneFor(ArmedDuring(d))
        /\ cooldown' = [cooldown EXCEPT ![d] = AfterSnapshot(d)]
        /\ UNCHANGED <<shutdownVars, registryVars, mapVars>>

----------------------------------------------------------------------------
\* Shutdown, the registry and time

Cancel ==
    /\ ~cancelled
    /\ cancelled' = TRUE
    /\ UNCHANGED <<window, timer, inFlight, cooldown, pending, reader, waited,
                   registryVars, mapVars>>

\* The read loop stops the timers it armed and is done.
ReaderEnds ==
    LET armed == {window[d].slot : d \in {e \in Devices : window[e] # NoWindow}}
    IN  /\ reader = "reading"
        /\ reader' = "done"
        /\ timer' = [t \in Slots |-> IF t \in StoppedIn(armed) THEN FreeSlot ELSE timer[t]]
        /\ window' = [d \in Devices |-> NoWindow]
        /\ pending' = pending - DoneFor(armed)
        /\ UNCHANGED <<inFlight, cooldown, cancelled, waited, registryVars, mapVars>>

\* The cancelled context closes the socket.
ReaderExits == cancelled /\ ReaderEnds

\* The socket fails by itself; nothing reopens it, and the server serves on.
ReaderFails == ~cancelled /\ ReaderEnds

\* Wait: the read loop first, then the timer functions.
WaitReturns ==
    /\ cancelled
    /\ ~waited
    /\ reader = "done"
    /\ pending = 0
    /\ waited' = TRUE
    /\ UNCHANGED <<window, timer, inFlight, cooldown, pending, reader, cancelled,
                   registryVars, mapVars>>

Toggle(d) ==
    /\ toggles < MaxToggles
    /\ toggles' = toggles + 1
    /\ IF d \in enabled
       THEN enabled' = enabled \ {d} /\ UNCHANGED since
       ELSE enabled' = enabled \cup {d} /\ since' = [since EXCEPT ![d] = 0]
    /\ UNCHANGED <<window, timer, inFlight, cooldown, pending, shutdownVars, mapVars>>

Down(n) == IF n = 0 THEN 0 ELSE n - 1

Tick ==
    /\ \A s \in Slots : ~(timer[s].state = "due" \/ (timer[s].state = "armed" /\ timer[s].left = 0))
    /\ timer' = [s \in Slots |->
            IF timer[s].state = "armed" THEN [timer[s] EXCEPT !.left = @ - 1] ELSE timer[s]]
    /\ cooldown' = [d \in Devices |-> Down(cooldown[d])]
    /\ mapLeft' = Down(mapLeft)
    /\ since' = [d \in Devices |->
            IF d \in enabled \/ since[d] > MapTTL THEN since[d] ELSE since[d] + 1]
    /\ UNCHANGED <<window, inFlight, pending, shutdownVars, enabled, toggles, mapped>>

----------------------------------------------------------------------------
TimerStep(s) == Expire(s) \/ FireBegins(s) \/ FireSkips(s) \/ SnapshotEnds(s)

Next ==
    \/ \E d \in Devices, u \in Users \cup {NoUser} : Packet(d, u)
    \/ \E s \in Slots : TimerStep(s)
    \/ Cancel \/ ReaderExits \/ ReaderFails \/ WaitReturns
    \/ \E d \in Devices : Toggle(d)
    \/ Tick

Spec == Init /\ [][Next]_vars

\* Time passes, timers run, callbacks are bounded by the fetch timeout.
FairSpec ==
    /\ Spec
    /\ WF_vars(Tick) /\ WF_vars(ReaderExits) /\ WF_vars(WaitReturns)
    /\ \A s \in Slots : WF_vars(TimerStep(s))

----------------------------------------------------------------------------
\* What must hold

\* The WaitGroup counts each timer function exactly once: a timer stopped while
\* it expires is neither missed nor counted down twice, and when Wait has returned
\* nothing of the listener runs or will run, so that the database can be closed.
EveryTimerCounted ==
    /\ pending = Cardinality({s \in Slots : timer[s] # FreeSlot})
    /\ waited => pending = 0

\* A device's snapshots are apart: never two are running, although its timers
\* may be armed again while one is, and none runs in its cooldown, so that what
\* chatter armed during the last snapshot does not survive into it.
SnapshotsApart ==
    \A s \in Slots : timer[s].state = "running" =>
        /\ cooldown[timer[s].device] = 0
        /\ \A t \in Slots \ {s} :
              timer[t].state = "running" => timer[t].device # timer[s].device

\* A snapshot is credited to a user of its own window, and to nobody only when
\* no packet of the window named one.
CreditedToWindow ==
    \A s \in Slots : timer[s].state = "running" =>
        IF timer[s].named = {} THEN timer[s].by = NoUser ELSE timer[s].by \in timer[s].named

\* A timer function takes only the window it was armed for, although windows
\* cannot be told apart by their generation: no snapshot comes before its
\* window's full debounce time.
OwnWindowOnly ==
    [][\A s \in Slots : FireBegins(s) => window[timer[s].device].slot = s]_vars

\* The source map is stale for at most its time to live: a device disabled
\* longer ago arms nothing.
DisabledStaysQuiet ==
    [][\A d \in Devices :
          since[d] > MapTTL /\ window[d] = NoWindow => window'[d] = NoWindow]_vars

\* An armed device is snapshotted however much it chatters, unless the read
\* loop ends.
ArmedIsSnapshotted ==
    \A d \in Devices : window[d] # NoWindow ~> (d \in inFlight \/ reader = "done")

\* Once cancelled, the listener's Wait returns.
ShutsDown == cancelled ~> waited

============================================================================
