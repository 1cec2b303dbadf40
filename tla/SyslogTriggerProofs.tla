------------------------ MODULE SyslogTriggerProofs ------------------------
(***************************************************************************)
(* Proofs about SyslogTrigger: for any devices, users, timers and times,   *)
(* the wait group counts the timer functions exactly, the snapshots of a   *)
(* device are apart, credited to their own window and taken only after its *)
(* full debounce time, and a disabled device arms nothing.                 *)
(***************************************************************************)
EXTENDS SyslogTrigger, FiniteSetTheorems, TLAPS

\* The timers and functions the wait group stands for.
Outstanding == {s \in Slots : timer[s] # FreeSlot}

\* A window, or the function that took it, is credited to one of the users its
\* packets named.
Credited(w) == IF w.named = {} THEN w.by = NoUser ELSE w.by \in w.named

\* A window is its timer's, armed outside any cooldown while packets are read.
WindowsInv ==
    \A d \in Devices : window[d] # NoWindow =>
        /\ reader = "reading" /\ cooldown[d] = 0
        /\ timer[window[d].slot].state \in {"armed", "due"}
        /\ timer[window[d].slot].device = d
        /\ Credited(window[d])

\* A timer whose window was taken away has expired, and no other window can be
\* there before its function has run: a cooldown began in the same tick, or the
\* read loop is done.
TimersInv ==
    \A s \in Slots : timer[s].state \in {"armed", "due"} =>
        \/ window[timer[s].device].slot = s
        \/ /\ timer[s].state = "due"
           /\ window[timer[s].device] = NoWindow
           /\ cooldown[timer[s].device] > 0 \/ reader = "done"

\* A running function's device is marked, and the mark is its own.
RunningInv ==
    \A s \in Slots : timer[s].state = "running" =>
        /\ timer[s].device \in inFlight
        /\ cooldown[timer[s].device] = 0
        /\ Credited(timer[s])
        /\ \A t \in Slots \ {s} :
              timer[t].state = "running" => timer[t].device # timer[s].device

CountInv == EveryTimerCounted /\ (waited => reader = "done")

\* What the cached map still has was enabled when it was built.
MapInv ==
    \A d \in Devices :
        /\ d \in enabled => since[d] = 0
        /\ d \in mapped /\ mapLeft > 0 => since[d] + mapLeft <= MapTTL

Inv == TypeOK /\ WindowsInv /\ TimersInv /\ RunningInv /\ CountInv /\ MapInv

----------------------------------------------------------------------------
\* Counting

\* Timers that go away are subtracted exactly.
LEMMA Removed ==
    ASSUME NEW S, IsFiniteSet(S), NEW R \in SUBSET S
    PROVE  /\ IsFiniteSet(R) /\ Cardinality(R) \in Nat /\ Cardinality(S) \in Nat
           /\ Cardinality(S \ R) = Cardinality(S) - Cardinality(R)
<1>1. IsFiniteSet(R) /\ S \cap R = R
  BY FS_Subset
<1> QED  BY <1>1, FS_Difference, FS_CardinalityType

LEMMA OutstandingFinite ==
    ASSUME TriggerAssumption
    PROVE  IsFiniteSet(Outstanding)
BY FS_Subset DEF TriggerAssumption, Outstanding

\* Stopped timers are stopped once, and the function s that ends takes itself
\* off.
LEMMA CountOff ==
    ASSUME TriggerAssumption, EveryTimerCounted, pending \in Int, NEW W \in SUBSET Slots,
           Outstanding' = Outstanding \ StoppedIn(W),
           pending' = pending - DoneFor(W)
    PROVE  pending' = Cardinality(Outstanding')
<1>1. StoppedIn(W) \in SUBSET Outstanding
  BY DEF StoppedIn, Outstanding, FreeSlot
<1> QED  BY <1>1, Removed, OutstandingFinite DEF EveryTimerCounted, Outstanding, DoneFor

----------------------------------------------------------------------------
\* Preservation

LEMMA InitInv ==
    Init => Inv
<1> SUFFICES ASSUME Init PROVE Inv
  OBVIOUS
<1>1. TypeOK
  <2>1. /\ Debounce \in Nat /\ Cooldown \in Nat /\ MapTTL \in Nat /\ MaxToggles \in Nat
        /\ MapTTL + 1 \in Nat
    BY TriggerAssumption
  <2>2. window \in [Devices -> Windows \cup {NoWindow}] /\ pending \in Int
    BY DEF Init
  <2>3. timer \in [Slots ->
            {FreeSlot}
              \cup [state : {"armed"}, device : Devices, left : 0..Debounce]
              \cup [state : {"due"}, device : Devices]
              \cup [state : {"running"}, device : Devices,
                    by : Users \cup {NoUser}, named : SUBSET Users]]
    BY DEF Init
  <2>4. cooldown \in [Devices -> 0..Cooldown] /\ since \in [Devices -> 0..(MapTTL + 1)]
    BY <2>1 DEF Init
  <2>5. inFlight \subseteq Devices /\ enabled \subseteq Devices /\ mapped \subseteq Devices
    BY DEF Init
  <2>6. reader \in {"reading", "done"} /\ cancelled \in BOOLEAN /\ waited \in BOOLEAN
    BY DEF Init
  <2>7. mapLeft \in 0..MapTTL /\ toggles \in 0..MaxToggles
    BY <2>1 DEF Init
  <2> QED  BY <2>2, <2>3, <2>4, <2>5, <2>6, <2>7 DEF TypeOK
<1>2. WindowsInv /\ TimersInv /\ RunningInv /\ MapInv
  BY DEF Init, WindowsInv, TimersInv, RunningInv, MapInv, FreeSlot
<1>3. CountInv
  <2>1. {s \in Slots : timer[s] # FreeSlot} = {}
    BY DEF Init
  <2> QED  BY <2>1, FS_EmptySet DEF Init, CountInv, EveryTimerCounted
<1> QED  BY <1>1, <1>2, <1>3 DEF Inv

\* Only the map and the registry change, as MapInv allows.
LEMMA SnapshotsUntouched ==
    ASSUME Inv, UNCHANGED <<window, timer, inFlight, cooldown, pending, reader, waited>>,
           TypeOK', MapInv'
    PROVE  Inv'
BY DEF Inv, WindowsInv, TimersInv, RunningInv, CountInv, EveryTimerCounted, Credited

\* The source map a packet looks at, rebuilt or not.
LEMMA MapKept ==
    ASSUME TriggerAssumption, Inv, Lookup, UNCHANGED registryVars
    PROVE  /\ mapped' \subseteq Devices /\ mapLeft' \in 0..MapTTL
           /\ MapInv'
           /\ \A d \in Devices : since[d] > MapTTL => d \notin SourceMap
<1>1. /\ MapTTL \in Nat \ {0} /\ mapLeft \in 0..MapTTL /\ mapped \subseteq Devices
      /\ enabled \subseteq Devices /\ \A d \in Devices : since[d] \in Nat
  BY DEF TriggerAssumption, Inv, TypeOK
<1> QED
  BY <1>1 DEF Lookup, SourceMap, MapInv, registryVars, Inv

LEMMA CoalesceKept ==
    ASSUME TriggerAssumption, Inv, NEW d \in Devices, NEW u \in Users \cup {NoUser},
           window[d] # NoWindow, Coalesce(d, u), Lookup,
           UNCHANGED <<inFlight, cooldown, shutdownVars, registryVars>>
    PROVE  Inv'
<1>1. window[d] \in Windows /\ NoSlot \notin Slots /\ NoUser \notin Users
  BY DEF Inv, TypeOK, TriggerAssumption
<1>2. /\ window' = [window EXCEPT ![d] = [slot |-> window[d].slot, by |-> Attribution(window[d].by, u),
                                          named |-> window[d].named \cup Named(u)]]
      /\ UNCHANGED <<timer, pending, inFlight, cooldown, reader, cancelled, waited, enabled, since, toggles>>
  <2>1. window' = [window EXCEPT ![d].by = Attribution(@, u), ![d].named = @ \cup Named(u)]
    BY DEF Coalesce
  <2>2. PICK s \in Slots, by \in Users \cup {NoUser}, named \in SUBSET Users :
            window[d] = [slot |-> s, by |-> by, named |-> named]
    BY <1>1 DEF Windows
  <2>3. window' = [window EXCEPT ![d] = [slot |-> s, by |-> Attribution(by, u),
                                         named |-> named \cup Named(u)]]
    <3> DEFINE mid == [window EXCEPT ![d].by = Attribution(window[d].by, u)]
    <3>1. window' = [mid EXCEPT ![d].named = mid[d].named \cup Named(u)]
      BY <2>1
    <3>2. mid[d] = [slot |-> s, by |-> Attribution(by, u), named |-> named]
      BY <2>2 DEF Inv, TypeOK
    <3>3. [mid[d] EXCEPT !.named = mid[d].named \cup Named(u)] =
             [slot |-> s, by |-> Attribution(by, u), named |-> named \cup Named(u)]
      BY <3>2
    <3>4. window' = [window EXCEPT ![d] = [mid[d] EXCEPT !.named = mid[d].named \cup Named(u)]]
      BY <3>1, <3>2 DEF Inv, TypeOK
    <3> QED  BY <3>3, <3>4
  <2> QED  BY <2>2, <2>3 DEF Coalesce, shutdownVars, registryVars
<1>3. /\ window'[d] \in Windows /\ window'[d].slot = window[d].slot
      /\ \A e \in Devices \ {d} : window'[e] = window[e]
  BY <1>1, <1>2 DEF Inv, TypeOK, Windows, Attribution, Named
<1>4. Credited(window[d]) => Credited(window'[d])
  BY <1>1, <1>2 DEF Inv, TypeOK, Windows, Credited, Attribution, Named
<1>5. TypeOK' /\ MapInv'
  BY <1>2, <1>3, MapKept DEF Inv, TypeOK, registryVars
<1>6. WindowsInv'
  BY <1>2, <1>3, <1>4 DEF Inv, WindowsInv, Credited
<1>7. TimersInv'
  <2> SUFFICES ASSUME NEW s \in Slots, timer[s].state \in {"armed", "due"}
               PROVE  \/ window'[timer[s].device].slot = s
                      \/ /\ timer[s].state = "due"
                         /\ window'[timer[s].device] = NoWindow
                         /\ cooldown[timer[s].device] > 0 \/ reader = "done"
    BY <1>2 DEF TimersInv
  <2>1. timer[s].device \in Devices
    BY DEF Inv, TypeOK, FreeSlot
  <2> QED  BY <1>3, <2>1 DEF Inv, TimersInv
<1>8. RunningInv' /\ CountInv'
  BY <1>2 DEF Inv, RunningInv, CountInv, EveryTimerCounted, Credited
<1> QED  BY <1>5, <1>6, <1>7, <1>8 DEF Inv

LEMMA ArmKept ==
    ASSUME TriggerAssumption, Inv, NEW d \in Devices, NEW u \in Users \cup {NoUser},
           window[d] = NoWindow, cooldown[d] = 0, reader = "reading", Arm(d, u), Lookup,
           UNCHANGED <<inFlight, cooldown, shutdownVars, registryVars>>
    PROVE  Inv'
<1> DEFINE s == CHOOSE t \in Slots : timer[t] = FreeSlot
<1>1. /\ s \in Slots /\ timer[s] = FreeSlot
      /\ timer' = [timer EXCEPT ![s] = [state |-> "armed", device |-> d, left |-> Debounce]]
      /\ window' = [window EXCEPT ![d] = [slot |-> s, by |-> u, named |-> Named(u)]]
      /\ pending' = pending + 1
      /\ UNCHANGED <<inFlight, cooldown, reader, cancelled, waited, enabled, since, toggles>>
  BY DEF Arm, shutdownVars, registryVars
<1> HIDE DEF s
<1>2. /\ timer'[s] = [state |-> "armed", device |-> d, left |-> Debounce]
      /\ \A t \in Slots \ {s} : timer'[t] = timer[t]
      /\ window'[d] = [slot |-> s, by |-> u, named |-> Named(u)]
      /\ \A e \in Devices \ {d} : window'[e] = window[e]
      /\ NoSlot \notin Slots /\ NoUser \notin Users
  BY <1>1 DEF Inv, TypeOK, TriggerAssumption
<1>3. TypeOK' /\ MapInv'
  <2>1. Debounce \in Nat
    BY DEF TriggerAssumption
  <2>2. window'[d] \in Windows /\ timer'[s] \in [state : {"armed"}, device : Devices, left : 0..Debounce]
    BY <1>1, <1>2, <2>1 DEF Windows, Named
  <2>3. window' \in [Devices -> Windows \cup {NoWindow}]
    BY <1>1, <2>2, <1>2 DEF Inv, TypeOK
  <2>4. timer' \in [Slots ->
            {FreeSlot}
              \cup [state : {"armed"}, device : Devices, left : 0..Debounce]
              \cup [state : {"due"}, device : Devices]
              \cup [state : {"running"}, device : Devices,
                    by : Users \cup {NoUser}, named : SUBSET Users]]
    BY <1>1, <2>2, <1>2 DEF Inv, TypeOK
  <2> QED  BY <1>1, <2>3, <2>4, MapKept DEF Inv, TypeOK, registryVars
<1>4. WindowsInv'
  <2> SUFFICES ASSUME NEW e \in Devices, window'[e] # NoWindow
               PROVE  /\ reader = "reading" /\ cooldown[e] = 0
                      /\ timer'[window'[e].slot].state \in {"armed", "due"}
                      /\ timer'[window'[e].slot].device = e
                      /\ Credited(window'[e])
    BY <1>1 DEF WindowsInv, Credited
  <2>1. CASE e = d
    BY <1>1, <1>2, <2>1 DEF Credited, Named
  <2>2. CASE e # d
    <3>1. window'[e] = window[e] /\ window[e] \in Windows
      BY <1>2, <2>2 DEF Inv, TypeOK
    <3>2. timer[window[e].slot].state \in {"armed", "due"}
      BY <3>1 DEF Inv, WindowsInv
    <3>3. window[e].slot \in Slots /\ window[e].slot # s
      BY <1>1, <3>1, <3>2 DEF Windows, FreeSlot
    <3> QED  BY <1>2, <3>1, <3>3 DEF Inv, WindowsInv
  <2> QED  BY <2>1, <2>2
<1>5. TimersInv'
  <2> SUFFICES ASSUME NEW t \in Slots, timer'[t].state \in {"armed", "due"}
               PROVE  \/ window'[timer'[t].device].slot = t
                      \/ /\ timer'[t].state = "due"
                         /\ window'[timer'[t].device] = NoWindow
                         /\ cooldown[timer'[t].device] > 0 \/ reader = "done"
    BY <1>1 DEF TimersInv
  <2>1. CASE t = s
    BY <1>2, <2>1
  <2>2. CASE t # s
    <3>1. timer'[t] = timer[t] /\ timer[t].device \in Devices
      BY <1>2, <2>2 DEF Inv, TypeOK, FreeSlot
    <3>2. timer[t].device # d
      BY <1>2, <2>2, <3>1 DEF Inv, TimersInv, NoWindow
    <3> QED  BY <1>2, <2>2, <3>1, <3>2 DEF Inv, TimersInv
  <2> QED  BY <2>1, <2>2
<1>6. RunningInv'
  BY <1>1, <1>2 DEF Inv, RunningInv, Credited
<1>7. CountInv'
  <2>1. Outstanding' = Outstanding \cup {s} /\ s \notin Outstanding
    BY <1>1, <1>2 DEF Outstanding, FreeSlot
  <2>2. Cardinality(Outstanding') = Cardinality(Outstanding) + 1
    BY <2>1, OutstandingFinite, FS_AddElement
  <2>3. ~waited
    BY DEF Inv, CountInv
  <2> QED  BY <1>1, <2>2, <2>3 DEF Inv, CountInv, EveryTimerCounted, Outstanding
<1> QED  BY <1>3, <1>4, <1>5, <1>6, <1>7 DEF Inv

LEMMA PacketKept ==
    ASSUME TriggerAssumption, Inv, NEW d \in Devices, NEW u \in Users \cup {NoUser}, Packet(d, u)
    PROVE  Inv'
<1>1. /\ reader = "reading" /\ Lookup
      /\ UNCHANGED <<inFlight, cooldown, shutdownVars, registryVars>>
  BY DEF Packet
<1>2. CASE UNCHANGED <<window, timer, pending>>
  BY <1>1, <1>2, MapKept, SnapshotsUntouched DEF Inv, TypeOK, shutdownVars, registryVars
<1>3. CASE window[d] # NoWindow /\ Coalesce(d, u)
  BY <1>1, <1>3, CoalesceKept
<1>4. CASE window[d] = NoWindow /\ cooldown[d] = 0 /\ Arm(d, u)
  BY <1>1, <1>4, ArmKept
<1>5. cooldown[d] \in Nat
  BY DEF Inv, TypeOK
<1> QED  BY <1>2, <1>3, <1>4, <1>5 DEF Packet, Schedule

\* The types a timer may have, and what they say of its device.
TimerStates ==
    {FreeSlot}
      \cup [state : {"armed"}, device : Devices, left : 0..Debounce]
      \cup [state : {"due"}, device : Devices]
      \cup [state : {"running"}, device : Devices,
            by : Users \cup {NoUser}, named : SUBSET Users]

LEMMA TimerType ==
    ASSUME TypeOK
    PROVE  /\ timer \in [Slots -> TimerStates]
           /\ \A s \in Slots : timer[s] # FreeSlot => timer[s].device \in Devices
           /\ \A s \in Slots : timer[s].state \in {"armed", "due", "running"} => timer[s] # FreeSlot
BY DEF TypeOK, TimerStates, FreeSlot

LEMMA ExpireKept ==
    ASSUME TriggerAssumption, Inv, NEW s \in Slots, Expire(s)
    PROVE  Inv'
<1> DEFINE d == timer[s].device
<1>1. /\ timer[s].state = "armed" /\ d \in Devices
      /\ timer' = [timer EXCEPT ![s] = [state |-> "due", device |-> d]]
      /\ UNCHANGED <<window, inFlight, cooldown, pending, shutdownVars, registryVars, mapVars>>
  BY TimerType DEF Expire, Inv
<1> HIDE DEF d
<1>2. timer'[s] = [state |-> "due", device |-> d] /\ \A t \in Slots \ {s} : timer'[t] = timer[t]
  BY <1>1 DEF Inv, TypeOK
<1>3. timer' \in [Slots -> TimerStates]
  BY <1>1, <1>2, TimerType DEF Inv, TimerStates
<1>4. TypeOK' /\ MapInv'
  BY <1>1, <1>3 DEF Inv, TypeOK, TimerStates, MapInv, shutdownVars, registryVars, mapVars
<1>5. WindowsInv'
  BY <1>1, <1>2 DEF Inv, TypeOK, WindowsInv, Windows, Credited, shutdownVars, d
<1>6. TimersInv'
  BY <1>1, <1>2 DEF Inv, TimersInv, shutdownVars, d
<1>7. RunningInv'
  BY <1>1, <1>2 DEF Inv, RunningInv, Credited
<1>8. Outstanding' = Outstanding
  BY <1>1, <1>2 DEF Outstanding, FreeSlot
<1>9. CountInv'
  BY <1>1, <1>8 DEF Inv, CountInv, EveryTimerCounted, Outstanding, shutdownVars
<1> QED  BY <1>4, <1>5, <1>6, <1>7, <1>9 DEF Inv

LEMMA FireBeginsKept ==
    ASSUME TriggerAssumption, Inv, NEW s \in Slots, FireBegins(s)
    PROVE  Inv'
<1> DEFINE d == timer[s].device
           taken == [state |-> "running", device |-> d, by |-> window[d].by, named |-> window[d].named]
<1>1. /\ timer[s].state = "due" /\ d \in Devices
      /\ window[d] # NoWindow /\ window[d] \in Windows /\ d \notin inFlight
      /\ window' = [window EXCEPT ![d] = NoWindow]
      /\ inFlight' = inFlight \cup {d}
      /\ timer' = [timer EXCEPT ![s] = taken]
      /\ UNCHANGED <<cooldown, pending, shutdownVars, registryVars, mapVars>>
  BY TimerType DEF FireBegins, Busy, Inv, TypeOK
<1> HIDE DEF d, taken
<1>2. /\ timer'[s] = taken /\ \A t \in Slots \ {s} : timer'[t] = timer[t]
      /\ window'[d] = NoWindow /\ \A e \in Devices \ {d} : window'[e] = window[e]
  BY <1>1 DEF Inv, TypeOK
<1>3. /\ taken \in TimerStates /\ taken.state = "running" /\ taken.device = d
      /\ Credited(taken) /\ taken # FreeSlot
  BY <1>1 DEF Inv, WindowsInv, Windows, Credited, TimerStates, taken, FreeSlot
<1>4. timer' \in [Slots -> TimerStates]
  BY <1>1, <1>3, TimerType DEF Inv
<1>5. TypeOK' /\ MapInv'
  BY <1>1, <1>4 DEF Inv, TypeOK, TimerStates, MapInv, shutdownVars, registryVars, mapVars
<1>6. window[d].slot = s
  BY <1>1 DEF Inv, TimersInv, d
<1>7. WindowsInv'
  <2> SUFFICES ASSUME NEW e \in Devices, window'[e] # NoWindow
               PROVE  /\ reader = "reading" /\ cooldown[e] = 0
                      /\ timer'[window'[e].slot].state \in {"armed", "due"}
                      /\ timer'[window'[e].slot].device = e
                      /\ Credited(window'[e])
    BY <1>1 DEF WindowsInv, Credited, shutdownVars
  <2>1. e # d /\ window'[e] = window[e] /\ window[e] \in Windows
    BY <1>2 DEF Inv, TypeOK
  <2>2. window[e].slot \in Slots /\ timer[window[e].slot].device = e
    BY <2>1 DEF Inv, WindowsInv, Windows
  <2>3. window[e].slot # s
    BY <2>1, <2>2 DEF d
  <2> QED  BY <1>2, <2>1, <2>2, <2>3 DEF Inv, WindowsInv
<1>8. TimersInv'
  <2> SUFFICES ASSUME NEW t \in Slots, timer'[t].state \in {"armed", "due"}
               PROVE  \/ window'[timer'[t].device].slot = t
                      \/ /\ timer'[t].state = "due"
                         /\ window'[timer'[t].device] = NoWindow
                         /\ cooldown[timer'[t].device] > 0 \/ reader = "done"
    BY <1>1 DEF TimersInv, shutdownVars
  <2>1. t # s /\ timer'[t] = timer[t]
    BY <1>2, <1>3
  <2>2. timer[t].device \in Devices
    BY <2>1, TimerType DEF Inv
  <2>3. timer[t].device # d
    BY <1>1, <1>6, <2>1 DEF Inv, TimersInv
  <2> QED  BY <1>2, <2>1, <2>2, <2>3 DEF Inv, TimersInv
<1>9. RunningInv'
  <2>1. cooldown[d] = 0
    BY <1>1 DEF Inv, WindowsInv
  <2>2. \A t \in Slots \ {s} : timer[t].state = "running" => timer[t].device # d
    BY <1>1 DEF Inv, RunningInv
  <2>3. ASSUME NEW t \in Slots, timer'[t].state = "running"
        PROVE  /\ timer'[t].device \in inFlight' /\ cooldown[timer'[t].device] = 0 /\ Credited(timer'[t])
               /\ \A r \in Slots \ {t} :
                     timer'[r].state = "running" => timer'[r].device # timer'[t].device
    <3>1. CASE t = s
      BY <1>1, <1>2, <1>3, <2>1, <2>2, <3>1
    <3>2. CASE t # s
      BY <1>1, <1>2, <1>3, <2>2, <2>3, <3>2 DEF Inv, RunningInv
    <3> QED  BY <3>1, <3>2
  <2> QED  BY <1>1, <2>3 DEF RunningInv, Credited
<1>10. Outstanding' = Outstanding
  BY <1>1, <1>2, <1>3 DEF Outstanding, FreeSlot
<1>11. CountInv'
  BY <1>1, <1>10 DEF Inv, CountInv, EveryTimerCounted, Outstanding, shutdownVars
<1> QED  BY <1>5, <1>7, <1>8, <1>9, <1>11 DEF Inv

LEMMA FireSkipsKept ==
    ASSUME TriggerAssumption, Inv, NEW s \in Slots, FireSkips(s)
    PROVE  Inv'
<1> DEFINE d == timer[s].device
<1>1. /\ timer[s].state = "due" /\ d \in Devices
      /\ window' = [window EXCEPT ![d] = NoWindow]
      /\ timer' = [timer EXCEPT ![s] = FreeSlot]
      /\ pending' = pending - 1
      /\ UNCHANGED <<inFlight, cooldown, shutdownVars, registryVars, mapVars>>
  BY TimerType DEF FireSkips, Inv
<1> HIDE DEF d
<1>2. /\ timer'[s] = FreeSlot /\ \A t \in Slots \ {s} : timer'[t] = timer[t]
      /\ window'[d] = NoWindow /\ \A e \in Devices \ {d} : window'[e] = window[e]
  BY <1>1 DEF Inv, TypeOK
<1>3. timer' \in [Slots -> TimerStates]
  BY <1>1, TimerType DEF Inv, TimerStates
<1>4. TypeOK' /\ MapInv'
  BY <1>1, <1>3 DEF Inv, TypeOK, TimerStates, MapInv, shutdownVars, registryVars, mapVars
<1>5. WindowsInv'
  <2> SUFFICES ASSUME NEW e \in Devices, window'[e] # NoWindow
               PROVE  /\ reader = "reading" /\ cooldown[e] = 0
                      /\ timer'[window'[e].slot].state \in {"armed", "due"}
                      /\ timer'[window'[e].slot].device = e
                      /\ Credited(window'[e])
    BY <1>1 DEF WindowsInv, Credited, shutdownVars
  <2>1. e # d /\ window'[e] = window[e] /\ window[e] \in Windows
    BY <1>2 DEF Inv, TypeOK
  <2>2. window[e].slot \in Slots /\ timer[window[e].slot].device = e
    BY <2>1 DEF Inv, WindowsInv, Windows
  <2>3. window[e].slot # s
    BY <2>1, <2>2 DEF d
  <2> QED  BY <1>2, <2>1, <2>2, <2>3 DEF Inv, WindowsInv
<1>6. TimersInv'
  <2> SUFFICES ASSUME NEW t \in Slots, timer'[t].state \in {"armed", "due"}
               PROVE  \/ window'[timer'[t].device].slot = t
                      \/ /\ timer'[t].state = "due"
                         /\ window'[timer'[t].device] = NoWindow
                         /\ cooldown[timer'[t].device] > 0 \/ reader = "done"
    BY <1>1 DEF TimersInv, shutdownVars
  <2>1. t # s /\ timer'[t] = timer[t]
    BY <1>2 DEF FreeSlot
  <2>2. timer[t].device \in Devices
    BY <2>1, TimerType DEF Inv
  <2>3. CASE timer[t].device = d
    <3>1. window[d].slot # t \/ window[d].slot # s
      BY <2>1
    <3>2. window[d].slot = s \/ window[d] = NoWindow
      BY <1>1 DEF Inv, TimersInv, d
    <3>3. NoWindow.slot \notin Slots
      BY DEF NoWindow, TriggerAssumption
    <3>4. window[d].slot # t
      BY <2>1, <3>2, <3>3
    <3> QED  BY <1>2, <2>1, <2>3, <3>4 DEF Inv, TimersInv
  <2>4. CASE timer[t].device # d
    BY <1>2, <2>1, <2>2, <2>4 DEF Inv, TimersInv
  <2> QED  BY <2>3, <2>4
<1>7. RunningInv'
  BY <1>1, <1>2 DEF Inv, RunningInv, Credited, FreeSlot
<1>8. CountInv'
  <2>1. Outstanding' = Outstanding \ {s} /\ s \in Outstanding
    BY <1>1, <1>2 DEF Outstanding, FreeSlot
  <2>2. Cardinality(Outstanding') = Cardinality(Outstanding) - 1
    BY <2>1, OutstandingFinite, FS_RemoveElement
  <2>3. ~waited
    <3>1. Cardinality(Outstanding) # 0
      BY <2>1, OutstandingFinite, FS_EmptySet
    <3> QED  BY <3>1 DEF Inv, CountInv, EveryTimerCounted, Outstanding
  <2> QED  BY <1>1, <2>2, <2>3 DEF Inv, CountInv, EveryTimerCounted, Outstanding, shutdownVars
<1> QED  BY <1>4, <1>5, <1>6, <1>7, <1>8 DEF Inv

LEMMA SnapshotEndsKept ==
    ASSUME TriggerAssumption, Inv, NEW s \in Slots, SnapshotEnds(s)
    PROVE  Inv'
<1> DEFINE d == timer[s].device
           stopped == StoppedIn(ArmedDuring(d))
<1>1. /\ timer[s].state = "running" /\ d \in Devices
      /\ inFlight' = inFlight \ {d}
      /\ timer' = [t \in Slots |-> IF t \in stopped \cup {s} THEN FreeSlot ELSE timer[t]]
      /\ window' = IF ArmedDuring(d) = {} THEN window ELSE [window EXCEPT ![d] = NoWindow]
      /\ pending' = pending - 1 - DoneFor(ArmedDuring(d))
      /\ cooldown' = [cooldown EXCEPT ![d] = Cooldown]
      /\ UNCHANGED <<shutdownVars, registryVars, mapVars>>
  BY TimerType DEF SnapshotEnds, AfterSnapshot, Inv
<1>2. /\ ArmedDuring(d) \in SUBSET Slots /\ stopped \in SUBSET Slots /\ s \notin stopped
      /\ \A t \in stopped : timer[t].state = "armed" /\ window[d].slot = t /\ window[d] # NoWindow
  BY <1>1 DEF ArmedDuring, StoppedIn, Inv, TypeOK, Windows
<1>3. /\ window'[d] = NoWindow /\ \A e \in Devices \ {d} : window'[e] = window[e]
      /\ window' \in [Devices -> Windows \cup {NoWindow}]
  BY <1>1 DEF ArmedDuring, Inv, TypeOK
<1>4. \A t \in stopped : timer[t].device = d
  BY <1>1, <1>2 DEF Inv, WindowsInv
<1> HIDE DEF d, stopped
<1>5. /\ timer' \in [Slots -> TimerStates]
      /\ \A t \in Slots : timer'[t].state # "free" => timer'[t] = timer[t] /\ t \notin stopped \cup {s}
      /\ \A t \in Slots \ (stopped \cup {s}) : timer'[t] = timer[t]
  BY <1>1, TimerType DEF Inv, TimerStates, FreeSlot
<1>6. Cooldown > 0 /\ cooldown' \in [Devices -> 0..Cooldown]
  BY <1>1 DEF TriggerAssumption, Inv, TypeOK
<1>7. TypeOK' /\ MapInv'
  <2>1. pending' \in Int
    BY <1>1, <1>2, Removed, FS_CardinalityType, FS_Subset
       DEF DoneFor, StoppedIn, Inv, TypeOK, TriggerAssumption
  <2> QED  BY <1>1, <1>3, <1>5, <1>6, <2>1
              DEF Inv, TypeOK, TimerStates, MapInv, shutdownVars, registryVars, mapVars
<1>8. WindowsInv'
  <2> SUFFICES ASSUME NEW e \in Devices, window'[e] # NoWindow
               PROVE  /\ reader = "reading" /\ cooldown'[e] = 0
                      /\ timer'[window'[e].slot].state \in {"armed", "due"}
                      /\ timer'[window'[e].slot].device = e
                      /\ Credited(window'[e])
    BY <1>1 DEF WindowsInv, Credited, shutdownVars
  <2>1. e # d /\ window'[e] = window[e] /\ window[e] \in Windows
    BY <1>3 DEF Inv, TypeOK
  <2>2. window[e].slot \in Slots /\ timer[window[e].slot].device = e
    BY <2>1 DEF Inv, WindowsInv, Windows
  <2>3. window[e].slot \notin stopped \cup {s}
    BY <1>4, <2>1, <2>2 DEF d
  <2>4. cooldown'[e] = cooldown[e]
    BY <1>1, <2>1 DEF Inv, TypeOK
  <2> QED  BY <1>5, <2>1, <2>2, <2>3, <2>4 DEF Inv, WindowsInv
<1>9. TimersInv'
  <2> SUFFICES ASSUME NEW t \in Slots, timer'[t].state \in {"armed", "due"}
               PROVE  \/ window'[timer'[t].device].slot = t
                      \/ /\ timer'[t].state = "due"
                         /\ window'[timer'[t].device] = NoWindow
                         /\ cooldown'[timer'[t].device] > 0 \/ reader = "done"
    BY <1>1 DEF TimersInv, shutdownVars
  <2>1. timer'[t] = timer[t] /\ t \notin stopped /\ timer[t].device \in Devices
    BY <1>5, TimerType DEF Inv
  <2>2. CASE timer[t].device = d
    <3>1. timer[t].state # "armed"
      <4> SUFFICES ASSUME timer[t].state = "armed" PROVE FALSE
        OBVIOUS
      <4>1. window[d].slot = t
        BY <2>1, <2>2 DEF Inv, TimersInv
      <4>2. window[d] # NoWindow
        BY <4>1 DEF NoWindow, TriggerAssumption
      <4> QED  BY <2>1, <4>1, <4>2 DEF stopped, StoppedIn, ArmedDuring
    <3>2. cooldown'[d] = Cooldown
      BY <1>1 DEF Inv, TypeOK
    <3> QED  BY <1>3, <1>6, <2>1, <2>2, <3>1, <3>2
  <2>3. CASE timer[t].device # d
    <3>1. cooldown'[timer[t].device] = cooldown[timer[t].device]
      BY <1>1, <2>1, <2>3 DEF Inv, TypeOK
    <3> QED  BY <1>3, <2>1, <2>3, <3>1 DEF Inv, TimersInv
  <2> QED  BY <2>2, <2>3
<1>10. RunningInv'
  <2> SUFFICES ASSUME NEW t \in Slots, timer'[t].state = "running"
               PROVE  /\ timer'[t].device \in inFlight'
                      /\ cooldown'[timer'[t].device] = 0
                      /\ Credited(timer'[t])
                      /\ \A r \in Slots \ {t} :
                            timer'[r].state = "running" => timer'[r].device # timer'[t].device
    BY DEF RunningInv, Credited
  <2>1. timer'[t] = timer[t] /\ t # s /\ timer[t].device \in Devices
    BY <1>5, TimerType DEF Inv
  <2>2. timer[t].device # d
    BY <1>1, <2>1 DEF Inv, RunningInv, d
  <2>3. cooldown'[timer[t].device] = cooldown[timer[t].device]
    BY <1>1, <2>1, <2>2 DEF Inv, TypeOK
  <2> QED  BY <1>1, <1>5, <2>1, <2>2, <2>3 DEF Inv, RunningInv
<1>11. CountInv'
  <2>1. Outstanding' = Outstanding \ (stopped \cup {s}) /\ s \in Outstanding /\ stopped \subseteq Outstanding
    BY <1>1, <1>2, <1>5 DEF Outstanding, FreeSlot
  <2>2. Cardinality(Outstanding \ stopped) = Cardinality(Outstanding) - Cardinality(stopped)
    BY <2>1, OutstandingFinite, Removed
  <2>3. IsFiniteSet(Outstanding \ stopped) /\ s \in Outstanding \ stopped
    BY <1>2, <2>1, OutstandingFinite, FS_Subset
  <2>4. Cardinality((Outstanding \ stopped) \ {s}) = Cardinality(Outstanding \ stopped) - 1
    BY <2>3, FS_RemoveElement
  <2>5. Outstanding' = (Outstanding \ stopped) \ {s}
    BY <2>1
  <2>6. Cardinality(stopped) \in Nat /\ Cardinality(Outstanding) \in Nat
    BY <2>1, OutstandingFinite, Removed
  <2>7. DoneFor(ArmedDuring(d)) = Cardinality(stopped)
    BY DEF DoneFor, stopped
  <2>8. pending' = Cardinality(Outstanding')
    <3>1. pending = Cardinality(Outstanding)
      BY DEF Inv, CountInv, EveryTimerCounted, Outstanding
    <3>2. pending' = pending - 1 - Cardinality(stopped)
      BY <1>1, <2>7
    <3>3. Cardinality(Outstanding') = Cardinality(Outstanding) - Cardinality(stopped) - 1
      BY <2>2, <2>4, <2>5
    <3> QED  BY <2>6, <3>1, <3>2, <3>3
  <2>9. ~waited
    <3>1. Cardinality(Outstanding) # 0
      BY <2>1, OutstandingFinite, FS_EmptySet
    <3> QED  BY <3>1 DEF Inv, CountInv, EveryTimerCounted, Outstanding
  <2> QED  BY <1>1, <2>8, <2>9 DEF CountInv, EveryTimerCounted, Outstanding, shutdownVars
<1> QED  BY <1>7, <1>8, <1>9, <1>10, <1>11 DEF Inv

LEMMA ReaderEndsKept ==
    ASSUME TriggerAssumption, Inv, ReaderEnds
    PROVE  Inv'
<1> DEFINE armed == {window[d].slot : d \in {e \in Devices : window[e] # NoWindow}}
           stopped == StoppedIn(armed)
<1>1. /\ reader = "reading" /\ reader' = "done"
      /\ timer' = [t \in Slots |-> IF t \in stopped THEN FreeSlot ELSE timer[t]]
      /\ window' = [d \in Devices |-> NoWindow]
      /\ pending' = pending - DoneFor(armed)
      /\ UNCHANGED <<inFlight, cooldown, cancelled, waited, registryVars, mapVars>>
  BY DEF ReaderEnds
<1>2. armed \in SUBSET Slots
  BY DEF Inv, TypeOK, Windows
<1>3. /\ \A t \in Slots : timer'[t].state # "free" => timer'[t] = timer[t] /\ t \notin stopped
      /\ timer' \in [Slots -> TimerStates]
  BY <1>1, TimerType DEF Inv, TimerStates, FreeSlot
<1>4. Outstanding' = Outstanding \ stopped
  BY <1>1 DEF Outstanding, StoppedIn, FreeSlot
<1>5. pending' = Cardinality(Outstanding')
  BY <1>1, <1>2, <1>4, CountOff DEF Inv, CountInv, TypeOK
<1>6. \A t \in Slots : timer'[t].state \notin {"armed"}
  <2> SUFFICES ASSUME NEW t \in Slots, timer'[t].state = "armed" PROVE FALSE
    OBVIOUS
  <2>1. timer[t].state = "armed" /\ t \notin stopped /\ timer[t].device \in Devices
    BY <1>3, TimerType DEF Inv
  <2>2. window[timer[t].device].slot = t
    BY <2>1 DEF Inv, TimersInv
  <2>3. window[timer[t].device] # NoWindow
    BY <2>2 DEF NoWindow, TriggerAssumption
  <2> QED  BY <2>1, <2>2, <2>3 DEF StoppedIn
<1> HIDE DEF armed, stopped
<1>7. TypeOK' /\ MapInv'
  <2>1. pending' \in Int
    BY <1>5, <1>4, Removed, OutstandingFinite, FS_CardinalityType, FS_Subset
  <2> QED  BY <1>1, <1>3, <2>1 DEF Inv, TypeOK, TimerStates, MapInv, registryVars, mapVars
<1>8. WindowsInv' /\ TimersInv'
  <2>1. \A t \in Slots : timer'[t].state \in {"armed", "due"} =>
            timer'[t].state = "due" /\ timer'[t].device \in Devices
    BY <1>3, <1>6, TimerType DEF Inv
  <2> QED  BY <1>1, <2>1 DEF WindowsInv, TimersInv
<1>9. RunningInv'
  BY <1>1, <1>3 DEF Inv, RunningInv, Credited
<1>10. CountInv'
  <2>1. ~waited
    BY <1>1 DEF Inv, CountInv
  <2> QED  BY <1>1, <1>5, <2>1 DEF CountInv, EveryTimerCounted, Outstanding
<1> QED  BY <1>7, <1>8, <1>9, <1>10 DEF Inv

LEMMA ToggleKept ==
    ASSUME TriggerAssumption, Inv, NEW d \in Devices, Toggle(d)
    PROVE  Inv'
<1>1. /\ toggles' = toggles + 1 /\ toggles < MaxToggles
      /\ enabled' \subseteq Devices
      /\ since' \in [Devices -> 0..(MapTTL + 1)]
      /\ UNCHANGED <<window, timer, inFlight, cooldown, pending, shutdownVars, mapVars>>
  BY DEF Toggle, Inv, TypeOK, TriggerAssumption
<1>2. TypeOK'
  BY <1>1 DEF Inv, TypeOK, TriggerAssumption, shutdownVars, mapVars
<1>3. MapInv'
  <2>1. MapTTL \in Nat /\ mapLeft \in 0..MapTTL /\ \A e \in Devices : since[e] \in 0..(MapTTL + 1)
    BY DEF Inv, TypeOK, TriggerAssumption
  <2>2. CASE d \in enabled
    BY <1>1, <2>1, <2>2 DEF Toggle, Inv, MapInv, mapVars
  <2>3. CASE d \notin enabled
    <3>1. since' = [since EXCEPT ![d] = 0] /\ enabled' = enabled \cup {d}
      BY <2>3 DEF Toggle
    <3> QED  BY <1>1, <2>1, <3>1 DEF Inv, TypeOK, MapInv, mapVars
  <2> QED  BY <2>2, <2>3
<1> QED  BY <1>1, <1>2, <1>3, SnapshotsUntouched DEF shutdownVars

\* A tick finds no function waiting for the mutex, so that every window taken
\* away in this tick is accounted for and no cooldown ends under a late function.
LEMMA TickKept ==
    ASSUME TriggerAssumption, Inv, Tick
    PROVE  Inv'
<1>1. /\ \A s \in Slots : timer[s].state # "due" /\ ~(timer[s].state = "armed" /\ timer[s].left = 0)
      /\ timer' = [s \in Slots |->
            IF timer[s].state = "armed" THEN [timer[s] EXCEPT !.left = @ - 1] ELSE timer[s]]
      /\ cooldown' = [d \in Devices |-> Down(cooldown[d])]
      /\ mapLeft' = Down(mapLeft)
      /\ since' = [d \in Devices |->
            IF d \in enabled \/ since[d] > MapTTL THEN since[d] ELSE since[d] + 1]
      /\ UNCHANGED <<window, inFlight, pending, reader, cancelled, waited, enabled, toggles, mapped>>
  BY DEF Tick, shutdownVars
<1>2. /\ MapTTL \in Nat /\ Cooldown \in Nat /\ Debounce \in Nat
      /\ mapLeft \in 0..MapTTL
      /\ \A d \in Devices : since[d] \in 0..(MapTTL + 1) /\ cooldown[d] \in 0..Cooldown
  BY DEF Inv, TypeOK, TriggerAssumption
<1>3. ASSUME NEW s \in Slots
      PROVE  /\ timer[s].state # "armed" => timer'[s] = timer[s]
             /\ timer[s].state = "armed" =>
                   timer'[s].state = "armed" /\ timer'[s].device = timer[s].device
             /\ timer'[s] \in TimerStates
  <2>1. CASE timer[s].state # "armed"
    BY <1>1, <2>1, TimerType DEF Inv
  <2>2. CASE timer[s].state = "armed"
    <3>1. PICK d \in Devices, n \in 0..Debounce : timer[s] = [state |-> "armed", device |-> d, left |-> n]
      BY <2>2 DEF Inv, TypeOK, FreeSlot
    <3>2. n > 0
      BY <1>1, <1>2, <3>1
    <3>3. timer'[s] = [state |-> "armed", device |-> d, left |-> n - 1]
      BY <1>1, <3>1
    <3>4. n - 1 \in 0..Debounce
      BY <1>2, <3>2
    <3> QED  BY <2>2, <3>1, <3>3, <3>4 DEF TimerStates
  <2> QED  BY <2>1, <2>2
<1>4. \A d \in Devices : cooldown'[d] \in 0..Cooldown /\ (cooldown[d] = 0 => cooldown'[d] = 0)
  BY <1>1, <1>2 DEF Down
<1>5. TypeOK'
  <2>1. timer' \in [Slots -> TimerStates]
    BY <1>1, <1>3
  <2>2. cooldown' \in [Devices -> 0..Cooldown] /\ mapLeft' \in 0..MapTTL
    BY <1>1, <1>2, <1>4 DEF Down
  <2>3. since' \in [Devices -> 0..(MapTTL + 1)]
    BY <1>1, <1>2
  <2> QED  BY <1>1, <2>1, <2>2, <2>3 DEF Inv, TypeOK, TimerStates
<1>6. MapInv'
  BY <1>1, <1>2 DEF Inv, MapInv, Down
<1>7. WindowsInv'
  <2> SUFFICES ASSUME NEW d \in Devices, window[d] # NoWindow
               PROVE  /\ reader = "reading" /\ cooldown'[d] = 0
                      /\ timer'[window[d].slot].state \in {"armed", "due"}
                      /\ timer'[window[d].slot].device = d
                      /\ Credited(window[d])
    BY <1>1 DEF WindowsInv, Credited
  <2>1. window[d].slot \in Slots
    BY DEF Inv, TypeOK, Windows
  <2> QED  BY <1>3, <1>4, <2>1 DEF Inv, WindowsInv
<1>8. TimersInv'
  <2> SUFFICES ASSUME NEW s \in Slots, timer'[s].state \in {"armed", "due"}
               PROVE  window'[timer'[s].device].slot = s
    BY DEF TimersInv
  <2>1. timer[s].state = "armed" /\ timer'[s].device = timer[s].device
    BY <1>1, <1>3
  <2> QED  BY <1>1, <2>1 DEF Inv, TimersInv
<1>9. RunningInv'
  <2> SUFFICES ASSUME NEW s \in Slots, timer'[s].state = "running"
               PROVE  /\ timer'[s].device \in inFlight
                      /\ cooldown'[timer'[s].device] = 0
                      /\ Credited(timer'[s])
                      /\ \A t \in Slots \ {s} :
                            timer'[t].state = "running" => timer'[t].device # timer'[s].device
    BY <1>1 DEF RunningInv, Credited
  <2>1. timer'[s] = timer[s] /\ timer[s].device \in Devices
    BY <1>3, TimerType DEF Inv
  <2> QED  BY <1>3, <1>4, <2>1 DEF Inv, RunningInv
<1>10. Outstanding' = Outstanding
  BY <1>3 DEF Outstanding, FreeSlot
<1>11. CountInv'
  BY <1>1, <1>10 DEF Inv, CountInv, EveryTimerCounted, Outstanding
<1> QED  BY <1>5, <1>6, <1>7, <1>8, <1>9, <1>11 DEF Inv

LEMMA NextInv ==
    ASSUME TriggerAssumption, Inv, [Next]_vars
    PROVE  Inv'
<1>1. ASSUME NEW d \in Devices, NEW u \in Users \cup {NoUser}, Packet(d, u)
      PROVE  Inv'
  BY <1>1, PacketKept
<1>2. ASSUME NEW s \in Slots, TimerStep(s)
      PROVE  Inv'
  BY <1>2, ExpireKept, FireBeginsKept, FireSkipsKept, SnapshotEndsKept DEF TimerStep
<1>3. CASE Cancel
  BY <1>3 DEF Cancel, registryVars, mapVars, Inv, TypeOK, WindowsInv, TimersInv, RunningInv, CountInv,
              EveryTimerCounted, MapInv, Credited
<1>4. CASE ReaderExits \/ ReaderFails
  BY <1>4, ReaderEndsKept DEF ReaderExits, ReaderFails
<1>5. CASE WaitReturns
  BY <1>5 DEF WaitReturns, registryVars, mapVars, Inv, TypeOK, WindowsInv, TimersInv, RunningInv, CountInv,
              EveryTimerCounted, MapInv, Credited
<1>6. ASSUME NEW d \in Devices, Toggle(d)
      PROVE  Inv'
  BY <1>6, ToggleKept
<1>7. CASE Tick
  BY <1>7, TickKept
<1>8. CASE UNCHANGED vars
  BY <1>8 DEF vars, Inv, TypeOK, WindowsInv, TimersInv, RunningInv, CountInv, EveryTimerCounted, MapInv,
              Credited
<1> QED  BY <1>1, <1>2, <1>3, <1>4, <1>5, <1>6, <1>7, <1>8 DEF Next

----------------------------------------------------------------------------
\* Theorems

\* The inductive invariant holds in every reachable state.
THEOREM Invariance == Spec => []Inv
  BY InitInv, NextInv, TriggerAssumption, PTL DEF Spec

\* The listener's state keeps its type.
THEOREM TypeCorrect == Spec => []TypeOK
<1>1. Inv => TypeOK
  BY DEF Inv
<1> QED  BY <1>1, Invariance, PTL

\* timer.Stop against the timer's function never miscounts the wait group, and
\* when Wait has returned no timer and no function is left.
THEOREM CountExact == Spec => []EveryTimerCounted
<1>1. Inv => EveryTimerCounted
  BY DEF Inv, CountInv
<1> QED  BY <1>1, Invariance, PTL

\* No device has two snapshots running, and none runs in its cooldown.
THEOREM SnapshotsAreApart == Spec => []SnapshotsApart
<1>1. Inv => SnapshotsApart
  BY DEF Inv, RunningInv, SnapshotsApart
<1> QED  BY <1>1, Invariance, PTL

\* The user a snapshot is credited to was named by a packet of its window.
THEOREM CreditIsRight == Spec => []CreditedToWindow
<1>1. Inv => CreditedToWindow
  BY DEF Inv, RunningInv, Credited, CreditedToWindow
<1> QED  BY <1>1, Invariance, PTL

\* A function never takes the window of a later timer.
THEOREM WindowIsOwn == Spec => OwnWindowOnly
<1>1. ASSUME Inv, NEW s \in Slots, FireBegins(s)
      PROVE  window[timer[s].device].slot = s
  BY <1>1 DEF FireBegins, Inv, TimersInv
<1>2. Inv => [\A s \in Slots : FireBegins(s) => window[timer[s].device].slot = s]_vars
  BY <1>1
<1> QED  BY <1>2, Invariance, PTL DEF OwnWindowOnly

\* A device disabled for longer than the map lives gets no window.
THEOREM DisabledIsQuiet == Spec => DisabledStaysQuiet
<1>1. ASSUME TriggerAssumption, Inv, [Next]_vars, NEW d \in Devices, since[d] > MapTTL, window[d] = NoWindow
      PROVE  window'[d] = NoWindow
  <2>1. ASSUME NEW e \in Devices, NEW u \in Users \cup {NoUser}, Packet(e, u)
        PROVE  window'[d] = NoWindow
    <3>1. CASE UNCHANGED window
      BY <1>1, <3>1
    <3>2. CASE ~UNCHANGED window
      <4>1. e \in SourceMap /\ Schedule(e, u)
        BY <2>1, <3>2 DEF Packet
      <4>2. d \notin SourceMap
        BY <1>1, <2>1, MapKept DEF Packet
      <4>3. e # d
        BY <4>1, <4>2
      <4>4. window'[d] = window[d]
        BY <4>1, <4>3, <1>1 DEF Schedule, Coalesce, Arm, Inv, TypeOK
      <4> QED  BY <1>1, <4>4
    <3> QED  BY <3>1, <3>2
  <2>2. ASSUME NEW s \in Slots, TimerStep(s)
        PROVE  window'[d] = NoWindow
    BY <1>1, <2>2 DEF TimerStep, Expire, FireBegins, FireSkips, SnapshotEnds, Inv, TypeOK
  <2>3. CASE Cancel \/ ReaderExits \/ ReaderFails \/ WaitReturns \/ Tick \/ UNCHANGED vars
    BY <1>1, <2>3 DEF Cancel, ReaderExits, ReaderFails, ReaderEnds, WaitReturns, Tick, vars
  <2>4. CASE \E e \in Devices : Toggle(e)
    BY <1>1, <2>4 DEF Toggle
  <2> QED  BY <1>1, <2>1, <2>2, <2>3, <2>4 DEF Next
<1>2. TriggerAssumption /\ Inv /\ [Next]_vars =>
        [\A d \in Devices : since[d] > MapTTL /\ window[d] = NoWindow => window'[d] = NoWindow]_vars
  BY <1>1
<1> QED  BY <1>2, Invariance, TriggerAssumption, PTL DEF Spec, DisabledStaysQuiet

============================================================================
