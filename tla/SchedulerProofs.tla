-------------------------- MODULE SchedulerProofs --------------------------
(***************************************************************************)
(* Proofs about Scheduler: for every registry, any number of concurrent    *)
(* handlers, writes and failed listings, no device has two live loops, the *)
(* loops follow the registry, and nothing is left when Stop has returned.  *)
(***************************************************************************)
EXTENDS Scheduler, FiniteSetTheorems, SequenceTheorems, TLAPS

----------------------------------------------------------------------------
\* Lemmas about the sequence of goroutines

\* SetToSeq lists a finite set without repetition.
LEMMA SetToSeqLists ==
    ASSUME NEW S, IsFiniteSet(S)
    PROVE  /\ SetToSeq(S) \in Seq(S)
           /\ \A x \in S : \E i \in 1..Len(SetToSeq(S)) : SetToSeq(S)[i] = x
           /\ \A i, j \in 1..Len(SetToSeq(S)) : SetToSeq(S)[i] = SetToSeq(S)[j] => i = j
<1> DEFINE n == Cardinality(S)
<1>1. n \in Nat /\ ExistsBijection(1..n, S)
  BY FS_CardinalityType
<1>2. \E f \in [1..n -> S] : IsInjective(f)
  BY <1>1 DEF ExistsBijection, Bijection, Injection
<1>3. SetToSeq(S) \in [1..n -> S] /\ IsInjective(SetToSeq(S))
  BY <1>2 DEF SetToSeq
<1>4. SetToSeq(S) \in Injection(1..n, S)
  BY <1>3 DEF Injection
<1>5. IsFiniteSet(1..n) /\ Cardinality(1..n) = n
  BY <1>1, FS_Interval
<1>6. SetToSeq(S) \in Surjection(1..n, S)
  BY <1>4, <1>5, FS_Injection
<1>7. SetToSeq(S) \in Seq(S) /\ Len(SetToSeq(S)) = n
  BY <1>1, <1>3
<1> QED
  BY <1>3, <1>6, <1>7 DEF Surjection, IsInjective

\* The devices a Reconcile starts a loop for are each given one goroutine, after
\* all that were started before.
LEMMA EntryOfNew ==
    ASSUME SchedulerAssumption, TypeOK
    PROVE  LET new == SetToSeq(Wanted \ Kept)
           IN  /\ new \in Seq(Wanted \ Kept)
               /\ \A d \in Wanted \ Kept :
                     /\ EntryOf(new, d) \in Len(goroutines) + 1 .. Len(goroutines) + Len(new)
                     /\ new[EntryOf(new, d) - Len(goroutines)] = d
               /\ \A i \in 1..Len(new) : EntryOf(new, new[i]) = Len(goroutines) + i
<1> DEFINE S == Wanted \ Kept
           new == SetToSeq(S)
<1>1. IsFiniteSet(S)
  BY FS_Subset DEF SchedulerAssumption, Wanted
<1>2. /\ new \in Seq(S)
      /\ \A x \in S : \E i \in 1..Len(new) : new[i] = x
      /\ \A i, j \in 1..Len(new) : new[i] = new[j] => i = j
  BY <1>1, SetToSeqLists
<1>3. Len(new) \in Nat /\ Len(goroutines) \in Nat
  BY <1>2 DEF TypeOK
<1> HIDE DEF new
<1>4. ASSUME NEW d \in S
      PROVE  /\ EntryOf(new, d) \in Len(goroutines) + 1 .. Len(goroutines) + Len(new)
             /\ new[EntryOf(new, d) - Len(goroutines)] = d
  <2> DEFINE p == CHOOSE i \in 1..Len(new) : new[i] = d
  <2>1. p \in 1..Len(new) /\ new[p] = d
    BY <1>2
  <2>2. EntryOf(new, d) = Len(goroutines) + p
    BY DEF EntryOf
  <2> HIDE DEF p
  <2>3. EntryOf(new, d) - Len(goroutines) = p
    BY <1>3, <2>1, <2>2
  <2> QED  BY <1>3, <2>1, <2>2, <2>3
<1>5. ASSUME NEW i \in 1..Len(new)
      PROVE  EntryOf(new, new[i]) = Len(goroutines) + i
  <2> DEFINE p == CHOOSE j \in 1..Len(new) : new[j] = new[i]
  <2>1. p \in 1..Len(new) /\ new[p] = new[i]
    OBVIOUS
  <2>2. p = i
    BY <1>2, <2>1
  <2> QED  BY <2>2 DEF EntryOf
<1> QED
  BY <1>2, <1>4, <1>5 DEF new

\* What a Reconcile does: goroutines keep their row and state, and are cancelled
\* exactly if their device's loop goes; each new one is its device's entry.
LEMMA ReconcileEffect ==
    ASSUME SchedulerAssumption, TypeOK, NEW t \in Threads, Reconcile(t)
    PROVE  /\ goroutines' \in Seq(Goroutines)
           /\ Len(goroutines') \in Nat /\ Len(goroutines') >= Len(goroutines)
           /\ \A i \in 1..Len(goroutines) :
                 goroutines'[i] = [goroutines[i] EXCEPT !.cancelled =
                                     @ \/ \E d \in Devices : loops[d] = i /\ CancelsLoop(d)]
           /\ \A i \in Len(goroutines) + 1 .. Len(goroutines') :
                 /\ goroutines'[i].device \in Wanted \ Kept
                 /\ loops'[goroutines'[i].device] = i
           /\ \A d \in Kept : loops'[d] = loops[d]
           /\ \A d \in Wanted \ Kept :
                 /\ loops'[d] \in Len(goroutines) + 1 .. Len(goroutines')
                 /\ goroutines'[loops'[d]] = [device |-> d, row |-> listed[d],
                                              cancelled |-> FALSE, state |-> "building"]
           /\ \A d \in Devices \ Wanted : loops'[d] = 0
           /\ loops' \in [Devices -> 0..Len(goroutines')]
<1> DEFINE new == SetToSeq(Wanted \ Kept)
           old == [i \in 1..Len(goroutines) |->
                      [goroutines[i] EXCEPT !.cancelled =
                          @ \/ \E d \in Devices : loops[d] = i /\ CancelsLoop(d)]]
           fresh == [i \in 1..Len(new) |->
                        [device |-> new[i], row |-> listed[new[i]],
                         cancelled |-> FALSE, state |-> "building"]]
           n == Len(goroutines)
           m == Len(new)
<1>1. /\ new \in Seq(Wanted \ Kept)
      /\ \A d \in Wanted \ Kept : EntryOf(new, d) \in n + 1 .. n + m /\ new[EntryOf(new, d) - n] = d
      /\ \A i \in 1..m : EntryOf(new, new[i]) = n + i
  BY EntryOfNew
<1>2. /\ goroutines' = old \o fresh
      /\ loops' = [d \in Devices |-> IF d \in Kept THEN loops[d]
                                     ELSE IF d \in Wanted THEN EntryOf(new, d) ELSE 0]
  BY DEF Reconcile
<1>3. n \in Nat /\ m \in Nat /\ goroutines \in Seq(Goroutines)
  BY <1>1 DEF TypeOK
<1>4. Wanted \subseteq Devices /\ Kept \subseteq Wanted /\ \A d \in Wanted : listed[d] \in Rows
  BY DEF TypeOK, Wanted, Kept
<1> HIDE DEF new
<1>5. \A i \in 1..m : new[i] \in Wanted \ Kept
  BY <1>1
<1>6. old \in Seq(Goroutines) /\ Len(old) = n
  <2>1. ASSUME NEW i \in 1..n
        PROVE  [goroutines[i] EXCEPT !.cancelled =
                   @ \/ \E d \in Devices : loops[d] = i /\ CancelsLoop(d)] \in Goroutines
    <3>1. goroutines[i] \in Goroutines
      BY <1>3
    <3>2. (goroutines[i].cancelled \/ \E d \in Devices : loops[d] = i /\ CancelsLoop(d)) \in BOOLEAN
      OBVIOUS
    <3> QED  BY <3>1, <3>2 DEF Goroutines
  <2> QED  BY <1>3, <2>1
<1>7. fresh \in Seq(Goroutines) /\ Len(fresh) = m
  <2>1. ASSUME NEW i \in 1..m
        PROVE  [device |-> new[i], row |-> listed[new[i]],
                cancelled |-> FALSE, state |-> "building"] \in Goroutines
    BY <1>4, <1>5 DEF Goroutines
  <2> QED  BY <1>3, <2>1
<1>8. /\ goroutines' \in Seq(Goroutines)
      /\ Len(goroutines') = n + m
      /\ \A i \in 1 .. n + m : goroutines'[i] = IF i <= n THEN old[i] ELSE fresh[i - n]
  <2> HIDE DEF old, fresh, n, m
  <2>1. /\ old \o fresh \in Seq(Goroutines)
        /\ Len(old \o fresh) = Len(old) + Len(fresh)
        /\ \A i \in 1 .. Len(old) + Len(fresh) :
              (old \o fresh)[i] = IF i <= Len(old) THEN old[i] ELSE fresh[i - Len(old)]
    BY <1>6, <1>7, ConcatProperties
  <2> QED  BY <1>2, <1>6, <1>7, <2>1
<1>9. \A i \in 1..n : goroutines'[i] = old[i]
  <2> HIDE DEF old, fresh
  <2> QED  BY <1>3, <1>8
<1>10. \A j \in 1..m : goroutines'[n + j] = fresh[j]
  <2> HIDE DEF old, fresh
  <2> SUFFICES ASSUME NEW j \in 1..m PROVE goroutines'[n + j] = fresh[j]
    OBVIOUS
  <2>1. n + j \in 1..n + m /\ ~(n + j <= n) /\ n + j - n = j
    BY <1>3
  <2> QED  BY <1>8, <2>1
<1>11. ASSUME NEW i \in n + 1 .. n + m
       PROVE  goroutines'[i].device \in Wanted \ Kept /\ loops'[goroutines'[i].device] = i
  <2>1. i - n \in 1..m /\ n + (i - n) = i
    BY <1>3
  <2>2. goroutines'[i].device = new[i - n]
    <3>1. goroutines'[i] = fresh[i - n]
      <4> HIDE DEF fresh, m
      <4> QED  BY <1>10, <2>1
    <3> QED  BY <2>1, <3>1
  <2>3. new[i - n] \in Wanted \ Kept /\ new[i - n] \in Devices
    BY <1>4, <1>5, <2>1
  <2>4. loops'[new[i - n]] = EntryOf(new, new[i - n])
    BY <1>2, <2>3
  <2>5. EntryOf(new, new[i - n]) = n + (i - n)
    BY <1>1, <2>1
  <2> QED  BY <2>1, <2>2, <2>3, <2>4, <2>5
<1>12. ASSUME NEW d \in Wanted \ Kept
       PROVE  /\ loops'[d] \in n + 1 .. n + m
              /\ goroutines'[loops'[d]] = [device |-> d, row |-> listed[d],
                                           cancelled |-> FALSE, state |-> "building"]
  <2>1. loops'[d] = EntryOf(new, d) /\ loops'[d] \in n + 1 .. n + m /\ new[loops'[d] - n] = d
    BY <1>1, <1>2, <1>4
  <2>2. loops'[d] - n \in 1..m /\ n + (loops'[d] - n) = loops'[d]
    BY <1>3, <2>1
  <2>3. goroutines'[loops'[d]] = fresh[loops'[d] - n]
    BY <1>10, <2>2
  <2> QED  BY <2>1, <2>2, <2>3
<1>13. loops' \in [Devices -> 0..n + m]
  <2>1. ASSUME NEW d \in Devices PROVE loops'[d] \in 0..n + m
    <3>1. CASE d \in Wanted \ Kept
      <4>1. loops'[d] \in n + 1 .. n + m
        BY <1>12, <3>1
      <4> HIDE DEF n, m
      <4> QED  BY <1>3, <4>1
    <3>2. CASE d \notin Wanted \ Kept
      BY <1>2, <1>3, <3>2 DEF TypeOK
    <3> QED  BY <3>1, <3>2
  <2> QED  BY <1>2, <2>1
<1> HIDE DEF old, fresh, n, m
<1>14. /\ \A d \in Kept : loops'[d] = loops[d]
       /\ \A d \in Devices \ Wanted : loops'[d] = 0
  BY <1>2, <1>4
<1>15. \A i \in 1..n : goroutines'[i] = [goroutines[i] EXCEPT !.cancelled =
                                     @ \/ \E d \in Devices : loops[d] = i /\ CancelsLoop(d)]
  BY <1>9 DEF old, n
<1>16. Len(goroutines') \in Nat /\ Len(goroutines') >= Len(goroutines)
  BY <1>3, <1>8 DEF n
<1> QED
  BY <1>8, <1>11, <1>12, <1>13, <1>14, <1>15, <1>16 DEF n

----------------------------------------------------------------------------
\* The inductive invariant

\* Who holds the mutex is reconciling.
MutexInv == \A t \in Threads : pc[t] = "reconcile" <=> mu = t

\* A goroutine nobody has cancelled is its device's entry, and an entry is a
\* goroutine of its device that nobody has cancelled.
LoopsInv ==
    /\ \A i \in 1..Len(goroutines) :
          ~goroutines[i].cancelled => loops[goroutines[i].device] = i
    /\ \A d \in Devices : loops[d] # 0 =>
          goroutines[loops[d]].device = d /\ ~goroutines[loops[d]].cancelled

\* The entries are those of the registry.
Synced ==
    \A d \in Devices :
        IF registry[d] # Gone /\ registry[d].polled
        THEN loops[d] # 0 /\ goroutines[loops[d]].row.conf = registry[d].conf
        ELSE loops[d] = 0

\* Before a failed listing and a shutdown, either the entries are those of the
\* registry, or a refresh is on its way that will make them so.
SyncInv ==
    ctx = "live" /\ failures = 0 =>
        \/ \E t \in Threads : pc[t] = "refresh"
        \/ mu # Free /\ listed = registry
        \/ mu = Free /\ Synced

\* Once Stop has had the mutex nobody takes it again.
StopInv ==
    /\ pc[Main] \in {"stop", "wait", "stopped"} => ctx = "cancelled"
    /\ pc[Main] \in {"wait", "stopped"} => mu = Free
    /\ NothingAfterStop

Inv == TypeOK /\ MutexInv /\ LoopsInv /\ SyncInv /\ StopInv


----------------------------------------------------------------------------
\* Preservation

LEMMA InitInv ==
    Init => Inv
<1> SUFFICES ASSUME Init PROVE Inv
  OBVIOUS
<1>1. goroutines = <<>> /\ Len(goroutines) = 0 /\ Free \notin Threads
  BY SchedulerAssumption DEF Init
<1>2. TypeOK
  BY SchedulerAssumption, <1>1 DEF Init, TypeOK, ThreadPCs, NothingListed
<1>3. MutexInv /\ SyncInv /\ LoopsInv
  BY <1>1 DEF Init, MutexInv, SyncInv, LoopsInv
<1>4. StopInv
  BY <1>1 DEF Init, StopInv, NothingAfterStop, Threads
<1> QED  BY <1>2, <1>3, <1>4 DEF Inv

\* A goroutine changes its state.
LEMMA GoroutineMoves ==
    ASSUME Inv, NEW i \in 1..Len(goroutines), NEW from \in {"building", "ticking", "polling"},
           NEW to \in {"ticking", "polling", "exited"}, Moves(i, from, to)
    PROVE  Inv'
<1>1. /\ goroutines' = [goroutines EXCEPT ![i].state = to]
      /\ goroutines[i].state = from
      /\ UNCHANGED <<registry, ctx, mu, pc, listed, loops, mutations, failures>>
  BY DEF Moves
<1>2. goroutines \in Seq(Goroutines) /\ goroutines[i] \in Goroutines
  BY DEF Inv, TypeOK
<1>3. /\ goroutines' \in Seq(Goroutines)
      /\ Len(goroutines') = Len(goroutines)
      /\ \A j \in 1..Len(goroutines) :
            /\ goroutines'[j].device = goroutines[j].device
            /\ goroutines'[j].row = goroutines[j].row
            /\ goroutines'[j].cancelled = goroutines[j].cancelled
  BY <1>1, <1>2 DEF Goroutines
<1>4. TypeOK'
  BY <1>1, <1>3 DEF Inv, TypeOK
<1>5. MutexInv'
  BY <1>1 DEF Inv, MutexInv
<1>6. LoopsInv'
  BY <1>1, <1>3 DEF Inv, LoopsInv, TypeOK
<1>7. SyncInv'
  BY <1>1, <1>3 DEF Inv, SyncInv, Synced, TypeOK
<1>8. StopInv'
  BY <1>1, <1>3 DEF Inv, StopInv, NothingAfterStop
<1> QED  BY <1>4, <1>5, <1>6, <1>7, <1>8 DEF Inv

\* A Reconcile brings the entries to what was listed.
LEMMA ReconcileKept ==
    ASSUME SchedulerAssumption, Inv, NEW t \in Threads, Reconcile(t)
    PROVE  Inv'
<1> USE DEF Inv
<1>1. /\ pc[t] = "reconcile" /\ mu = t
      /\ mu' = Free /\ pc' = [pc EXCEPT ![t] = "idle"] /\ listed' = NothingListed
      /\ UNCHANGED <<registry, ctx, mutations, failures>>
  BY DEF Reconcile, Return, Goto, MutexInv
<1>2. /\ goroutines' \in Seq(Goroutines)
      /\ Len(goroutines) \in Nat /\ Len(goroutines') \in Nat /\ Len(goroutines') >= Len(goroutines)
      /\ \A i \in 1..Len(goroutines) :
            goroutines'[i] = [goroutines[i] EXCEPT !.cancelled =
                                @ \/ \E d \in Devices : loops[d] = i /\ CancelsLoop(d)]
      /\ \A i \in Len(goroutines) + 1 .. Len(goroutines') :
            goroutines'[i].device \in Wanted \ Kept /\ loops'[goroutines'[i].device] = i
      /\ \A d \in Kept : loops'[d] = loops[d]
      /\ \A d \in Wanted \ Kept :
            /\ loops'[d] \in Len(goroutines) + 1 .. Len(goroutines')
            /\ goroutines'[loops'[d]] = [device |-> d, row |-> listed[d],
                                         cancelled |-> FALSE, state |-> "building"]
      /\ \A d \in Devices \ Wanted : loops'[d] = 0
      /\ loops' \in [Devices -> 0..Len(goroutines')]
  <2>1. Len(goroutines) \in Nat
    BY DEF TypeOK
  <2>2. TypeOK
    OBVIOUS
  <2> HIDE DEF Inv
  <2> QED  BY <2>1, <2>2, ReconcileEffect
<1>3. Kept \subseteq Wanted /\ Wanted \subseteq Devices
  BY DEF Wanted, Kept
<1>4. \A i \in 1..Len(goroutines) : goroutines[i] \in Goroutines
  BY DEF TypeOK
<1>5. TypeOK'
  BY <1>1, <1>2 DEF TypeOK, NothingListed, ThreadPCs
<1>6. MutexInv'
  <2> SUFFICES ASSUME NEW u \in Threads PROVE pc'[u] # "reconcile" /\ mu' # u
    BY DEF MutexInv
  <2>1. Free \notin Threads
    BY DEF SchedulerAssumption
  <2> QED  BY <1>1, <2>1 DEF MutexInv, TypeOK
<1>7. ASSUME NEW i \in 1..Len(goroutines'), ~goroutines'[i].cancelled
      PROVE  loops'[goroutines'[i].device] = i
  <2>1. CASE i > Len(goroutines)
    BY <1>2, <2>1
  <2>2. CASE i \in 1..Len(goroutines)
    <3> DEFINE d == goroutines[i].device
    <3>1. /\ d \in Devices /\ goroutines'[i].device = d
          /\ ~goroutines[i].cancelled /\ ~\E e \in Devices : loops[e] = i /\ CancelsLoop(e)
      <4>1. goroutines'[i] = [goroutines[i] EXCEPT !.cancelled =
                                @ \/ \E e \in Devices : loops[e] = i /\ CancelsLoop(e)]
        BY <1>2, <2>2
      <4>2. goroutines[i] \in Goroutines
        BY <1>4, <2>2
      <4> QED  BY <1>7, <4>1, <4>2 DEF Goroutines
    <3>2. loops[d] = i
      BY <2>2, <3>1 DEF LoopsInv
    <3>3. d \in Kept
      BY <2>2, <3>1, <3>2 DEF CancelsLoop
    <3> QED  BY <1>2, <3>1, <3>2, <3>3
  <2> QED  BY <1>2, <2>1, <2>2
<1>8. ASSUME NEW d \in Kept
      PROVE  /\ loops'[d] = loops[d] /\ loops[d] \in 1..Len(goroutines)
             /\ goroutines'[loops[d]].device = d
             /\ goroutines'[loops[d]].row = goroutines[loops[d]].row
             /\ ~goroutines'[loops[d]].cancelled
  <2>1. d \in Devices /\ loops'[d] = loops[d] /\ loops[d] \in 1..Len(goroutines)
    BY <1>2, <1>3 DEF Kept, TypeOK
  <2>2. goroutines[loops[d]].device = d /\ ~goroutines[loops[d]].cancelled
    BY <2>1 DEF LoopsInv
  <2>3. ~\E e \in Devices : loops[e] = loops[d] /\ CancelsLoop(e)
    <3> SUFFICES ASSUME NEW e \in Devices, loops[e] = loops[d], CancelsLoop(e) PROVE FALSE
      OBVIOUS
    <3>1. e = d
      BY <2>1, <2>2 DEF LoopsInv
    <3> QED  BY <3>1 DEF CancelsLoop
  <2>4. goroutines'[loops[d]] = [goroutines[loops[d]] EXCEPT !.cancelled =
                                   @ \/ \E e \in Devices : loops[e] = loops[d] /\ CancelsLoop(e)]
    BY <1>2, <2>1
  <2>5. goroutines[loops[d]] \in Goroutines
    BY <1>4, <2>1
  <2> QED  BY <2>1, <2>2, <2>3, <2>4, <2>5 DEF Goroutines
<1>9. ASSUME NEW d \in Devices, loops'[d] # 0
      PROVE  goroutines'[loops'[d]].device = d /\ ~goroutines'[loops'[d]].cancelled
  <2>1. CASE d \in Kept
    BY <1>8, <2>1
  <2>2. CASE d \in Wanted \ Kept
    <3>1. goroutines'[loops'[d]] = [device |-> d, row |-> listed[d],
                                    cancelled |-> FALSE, state |-> "building"]
      BY <1>2, <2>2
    <3> QED  BY <3>1
  <2> QED  BY <1>2, <1>3, <1>9, <2>1, <2>2
<1>10. LoopsInv'
  BY <1>7, <1>9 DEF LoopsInv
<1>11. SyncInv'
  <2>1. CASE \E u \in Threads : pc[u] = "refresh"
    BY <1>1, <2>1 DEF SyncInv, TypeOK
  <2>2. CASE listed = registry
    <3> SUFFICES ASSUME NEW d \in Devices
                 PROVE  IF registry[d] # Gone /\ registry[d].polled
                        THEN loops'[d] # 0 /\ goroutines'[loops'[d]].row.conf = registry[d].conf
                        ELSE loops'[d] = 0
      BY <1>1 DEF SyncInv, Synced
    <3>1. d \in Wanted <=> registry[d] # Gone /\ registry[d].polled
      BY <2>2 DEF Wanted
    <3>2. CASE d \in Kept
      <4>1. goroutines[loops[d]].row.conf = registry[d].conf
        BY <2>2, <3>2 DEF Kept, SamePollingConfig
      <4> QED  BY <1>3, <1>8, <3>1, <3>2, <4>1
    <3>3. CASE d \in Wanted \ Kept
      <4>1. loops'[d] # 0 /\ goroutines'[loops'[d]] = [device |-> d, row |-> listed[d],
                                                       cancelled |-> FALSE, state |-> "building"]
        BY <1>2, <3>3
      <4> QED  BY <2>2, <3>1, <3>3, <4>1
    <3>4. CASE d \notin Wanted
      BY <1>2, <3>1, <3>4
    <3> QED  BY <3>2, <3>3, <3>4
  <2>3. Free \notin Threads
    BY DEF SchedulerAssumption
  <2> QED  BY <1>1, <2>1, <2>2, <2>3 DEF SyncInv
<1>12. StopInv'
  <2>1. Main \in Threads /\ Free \notin Threads
    BY DEF Threads, SchedulerAssumption
  <2>2. pc[Main] \notin {"wait", "stopped"}
    BY <1>1, <2>1 DEF StopInv
  <2> QED  BY <1>1, <2>1, <2>2 DEF StopInv, NothingAfterStop, TypeOK
<1> QED  BY <1>5, <1>6, <1>10, <1>11, <1>12

\* Every step keeps the invariant.
LEMMA NextInv ==
    ASSUME SchedulerAssumption, Inv, [Next]_vars
    PROVE  Inv'
<1> USE DEF Inv
<1>f. Free \notin Threads /\ Main \in Threads /\ Main \notin Handlers
  BY DEF SchedulerAssumption, Threads
<1>1. ASSUME Start
      PROVE  Inv'
  <2>1. pc[Main] = "start" /\ mu' = mu /\ mu = Free /\ ctx' = "live" /\ pc' = [pc EXCEPT ![Main] = "refresh"]
        /\ UNCHANGED <<registry, listed, loops, goroutines, mutations, failures>>
    BY <1>1 DEF Start, Goto
  <2>2. TypeOK' /\ MutexInv' /\ LoopsInv'
    BY <1>f, <2>1 DEF TypeOK, ThreadPCs, MutexInv, LoopsInv
  <2>3. pc'[Main] = "refresh"
    BY <1>f, <2>1 DEF TypeOK
  <2> QED  BY <1>f, <2>2, <2>3 DEF SyncInv, StopInv, NothingAfterStop
<1>2. ASSUME NEW t \in Threads, RefreshList(t)
      PROVE  Inv'
  <2>1. /\ pc[t] = "refresh" /\ mu = Free
        /\ UNCHANGED <<registry, ctx, loops, goroutines, mutations, failures>>
        /\ \/ ctx = "cancelled" /\ pc' = [pc EXCEPT ![t] = "idle"] /\ UNCHANGED <<mu, listed>>
           \/ ctx # "cancelled" /\ mu' = t /\ listed' = registry /\ pc' = [pc EXCEPT ![t] = "reconcile"]
    BY <1>2 DEF RefreshList, Return, Goto
  <2>2. TypeOK' /\ MutexInv' /\ LoopsInv'
    BY <1>f, <2>1 DEF TypeOK, ThreadPCs, MutexInv, LoopsInv
  <2>3. SyncInv'
    BY <1>f, <2>1 DEF SyncInv
  <2>4. StopInv'
    BY <1>f, <2>1 DEF StopInv, NothingAfterStop, TypeOK
  <2> QED  BY <2>2, <2>3, <2>4
<1>3. ASSUME NEW t \in Threads, RefreshFails(t)
      PROVE  Inv'
  <2>1. /\ pc[t] = "refresh" /\ mu = Free /\ ctx = "live"
        /\ failures < MaxFailures /\ failures' = failures + 1
        /\ pc' \in {[pc EXCEPT ![t] = "start"], [pc EXCEPT ![t] = "idle"]}
        /\ ctx' \in {"none", ctx}
        /\ UNCHANGED <<registry, mu, listed, loops, goroutines, mutations>>
    BY <1>3 DEF RefreshFails, Return, Goto
  <2>2. MaxFailures \in Nat
    BY DEF SchedulerAssumption
  <2>3. TypeOK' /\ failures' # 0
    BY <2>1, <2>2 DEF TypeOK, ThreadPCs
  <2>4. MutexInv' /\ LoopsInv'
    BY <1>f, <2>1 DEF TypeOK, MutexInv, LoopsInv
  <2>5. StopInv'
    BY <1>f, <2>1 DEF StopInv, NothingAfterStop, TypeOK
  <2> QED  BY <2>3, <2>4, <2>5 DEF SyncInv
<1>4. ASSUME NEW t \in Threads, Reconcile(t)
      PROVE  Inv'
  BY <1>4, ReconcileKept
<1>5. ASSUME Shutdown
      PROVE  Inv'
  <2>1. /\ pc[Main] = "idle" /\ ctx' = "cancelled" /\ pc' = [pc EXCEPT ![Main] = "stop"]
        /\ UNCHANGED <<registry, mu, listed, loops, goroutines, mutations, failures>>
    BY <1>5 DEF Shutdown, Goto
  <2>2. TypeOK' /\ MutexInv' /\ LoopsInv'
    BY <1>f, <2>1 DEF TypeOK, ThreadPCs, MutexInv, LoopsInv
  <2> QED  BY <1>f, <2>1, <2>2 DEF SyncInv, StopInv, NothingAfterStop, TypeOK
<1>6. ASSUME Stop
      PROVE  Inv'
  <2>1. /\ pc[Main] = "stop" /\ mu = Free /\ pc' = [pc EXCEPT ![Main] = "wait"]
        /\ UNCHANGED <<registry, ctx, mu, listed, loops, goroutines, mutations, failures>>
    BY <1>6 DEF Stop, Goto
  <2>2. TypeOK' /\ MutexInv' /\ LoopsInv'
    BY <1>f, <2>1 DEF TypeOK, ThreadPCs, MutexInv, LoopsInv
  <2> QED  BY <1>f, <2>1, <2>2 DEF SyncInv, StopInv, NothingAfterStop, TypeOK
<1>7. ASSUME Stopped
      PROVE  Inv'
  <2>1. /\ pc[Main] = "wait" /\ pc' = [pc EXCEPT ![Main] = "stopped"]
        /\ \A i \in 1..Len(goroutines) : goroutines[i].state = "exited"
        /\ UNCHANGED <<registry, ctx, mu, listed, loops, goroutines, mutations, failures>>
    BY <1>7 DEF Stopped, Goto
  <2>2. TypeOK' /\ MutexInv' /\ LoopsInv'
    BY <1>f, <2>1 DEF TypeOK, ThreadPCs, MutexInv, LoopsInv
  <2> QED  BY <1>f, <2>1, <2>2 DEF SyncInv, StopInv, NothingAfterStop, TypeOK
<1>8. ASSUME NEW h \in Handlers, NEW d \in Devices, NEW row \in Rows \cup {Gone}, Mutate(h, d, row)
      PROVE  Inv'
  <2>1. /\ pc[h] = "idle" /\ pc' = [pc EXCEPT ![h] = "refresh"] /\ h \in Threads /\ h # Main
        /\ registry' = [registry EXCEPT ![d] = row]
        /\ mutations < MaxMutations /\ mutations' = mutations + 1
        /\ UNCHANGED <<ctx, mu, listed, loops, goroutines, failures>>
    BY <1>8, <1>f DEF Mutate, Goto, Threads
  <2>2. MaxMutations \in Nat
    BY DEF SchedulerAssumption
  <2>3. TypeOK' /\ pc'[h] = "refresh"
    BY <2>1, <2>2 DEF TypeOK, ThreadPCs
  <2>4. MutexInv' /\ LoopsInv'
    BY <1>f, <2>1 DEF TypeOK, MutexInv, LoopsInv
  <2>5. StopInv'
    BY <1>f, <2>1 DEF StopInv, NothingAfterStop, TypeOK
  <2> QED  BY <2>1, <2>3, <2>4, <2>5 DEF SyncInv
<1>9. ASSUME NEW i \in 1..Len(goroutines), GoroutineEnds(i) \/ Tick(i) \/ Exit(i)
      PROVE  Inv'
  BY <1>9, GoroutineMoves DEF GoroutineEnds, Build, PollEnds, Tick, Exit
<1>10. CASE UNCHANGED vars
  BY <1>10 DEF vars, TypeOK, MutexInv, LoopsInv, SyncInv, Synced, StopInv, NothingAfterStop
<1> QED
  BY <1>1, <1>2, <1>3, <1>4, <1>5, <1>6, <1>7, <1>8, <1>9, <1>10, <1>f
     DEF Next, MainStep, ThreadStep, Threads

\* The inductive invariant holds in every reachable state.
THEOREM Invariance == Spec => []Inv
  BY InitInv, NextInv, SchedulerAssumption, PTL DEF Spec

\* The scheduler's state keeps its type: every entry is a goroutine that was
\* started.
THEOREM TypeCorrect == Spec => []TypeOK
<1>1. Inv => TypeOK
  BY DEF Inv
<1> QED  BY <1>1, Invariance, PTL

\* However many handlers refresh at once, no device has two loops that nobody
\* has told to stop.
THEOREM LoopsAreSingle == Spec => []OneLiveLoop
<1>1. Inv => OneLiveLoop
  BY DEF Inv, LoopsInv, OneLiveLoop, Live
<1> QED  BY <1>1, Invariance, PTL

\* Once the handlers have returned, the loops are those of the registry.
THEOREM LoopsMatchRegistry == Spec => []LoopsFollowRegistry
<1>1. ASSUME Inv, Quiescent
      PROVE  \A d \in Devices :
                 IF registry[d] # Gone /\ registry[d].polled
                 THEN /\ loops[d] # 0
                      /\ goroutines[loops[d]].device = d
                      /\ ~goroutines[loops[d]].cancelled
                      /\ goroutines[loops[d]].row.conf = registry[d].conf
                 ELSE \A i \in 1..Len(goroutines) : goroutines[i].device = d => ~Live(i)
  <2>1. mu = Free
    <3>1. \A t \in Threads : mu # t
      BY <1>1 DEF Inv, MutexInv, Quiescent
    <3> QED  BY <1>1, <3>1 DEF Inv, TypeOK
  <2>2. Synced
    BY <1>1, <2>1 DEF Inv, SyncInv, Quiescent
  <2> QED  BY <1>1, <2>2 DEF Synced, Inv, LoopsInv, Live
<1>2. Inv => LoopsFollowRegistry
  BY <1>1 DEF LoopsFollowRegistry
<1> QED  BY <1>2, Invariance, PTL

\* When Stop has returned every goroutine has ended, and a handler still on its
\* way to a Refresh starts none.
THEOREM StopIsFinal == Spec => []NothingAfterStop
<1>1. Inv => NothingAfterStop
  BY DEF Inv, StopInv
<1> QED  BY <1>1, Invariance, PTL

============================================================================
