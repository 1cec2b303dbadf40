----------------------- MODULE ChangeProcessingProofs -----------------------
(***************************************************************************)
(* Proofs about ChangeProcessing: for every set of devices and requests,   *)
(* every history and any number of failures, no change is skipped and the  *)
(* timeline of each device is connected.                                   *)
(***************************************************************************)
EXTENDS ChangeProcessing, SequenceTheorems, TLAPS

USE DEF Trees, CursorStatus, OkCursor, BadCursor, NoSidecar

----------------------------------------------------------------------------
\* Lemmas about the history

\* Newest picks the largest element of a set that has one.
LEMMA NewestIsMax ==
    ASSUME NEW S \in SUBSET Nat, NEW m \in S, \A n \in S : n <= m
    PROVE  Newest(S) \in S /\ \A n \in S : n <= Newest(S)
  BY DEF Newest, Max

\* The commit git log reports for a device is a position in the history, and
\* no later commit touches the device.
LEMMA LastCommitType ==
    ASSUME StoreTypeOK, HistoryInv, NEW d \in Devices
    PROVE  /\ LastCommitFor(d) \in Nat
           /\ LastCommitFor(d) <= Len(commits)
           /\ \A n \in Touches(d) : n <= LastCommitFor(d)
           /\ HeadContent(d) # NoFile => LastCommitFor(d) # 0
<1>1. Touches(d) \subseteq 1..Len(commits) /\ Len(commits) \in Nat
  BY DEF StoreTypeOK, Touches
<1>2. CASE Touches(d) = {}
  BY <1>1, <1>2 DEF LastCommitFor, Newest, HistoryInv
<1>3. CASE Touches(d) # {}
  <2>1. PICK m \in Touches(d) : \A n \in Touches(d) : n <= m
    BY <1>3 DEF HistoryInv
  <2>2. LastCommitFor(d) \in Touches(d) /\ \A n \in Touches(d) : n <= LastCommitFor(d)
    BY <2>1, <1>1, NewestIsMax DEF LastCommitFor
  <2> QED  BY <1>1, <2>2
<1> QED  BY <1>2, <1>3

\* A commit is appended: what git log said of a device stays, and the new
\* commit is listed for the devices whose file it changes.
LEMMA AppendTouches ==
    ASSUME StoreTypeOK, NEW c \in [device : Devices, tree : Trees],
           commits' = Append(commits, c), NEW d \in Devices
    PROVE  /\ Len(commits') = Len(commits) + 1
           /\ HeadContent(d)' = c.tree[d]
           /\ \A n \in 0..Len(commits) : FileAt(d, n)' = FileAt(d, n)
           /\ c.tree[d] = HeadContent(d) => Touches(d)' = Touches(d)
           /\ c.tree[d] # HeadContent(d) => Touches(d)' = Touches(d) \cup {Len(commits) + 1}
<1>1. /\ commits \in Seq([device : Devices, tree : Trees])
      /\ Len(commits) \in Nat
      /\ Len(commits') = Len(commits) + 1
      /\ commits'[Len(commits) + 1] = c
      /\ \A n \in 1..Len(commits) : commits'[n] = commits[n]
  BY DEF StoreTypeOK
<1>2. \A n \in 0..Len(commits) : FileAt(d, n)' = FileAt(d, n)
  BY <1>1 DEF FileAt
<1>3. \A n \in Nat : n = Len(commits) + 1 => FileAt(d, n)' = c.tree[d]
  BY <1>1 DEF FileAt
<1>4. HeadContent(d)' = c.tree[d]
  BY <1>1, <1>3 DEF HeadContent
<1>5. \A n \in 1..Len(commits) : n - 1 \in 0..Len(commits)
  BY <1>1
<1>6. \A n \in 1..Len(commits) : n \in Touches(d)' <=> n \in Touches(d)
  BY <1>1, <1>2, <1>5 DEF Touches
<1>7. Len(commits) + 1 \in Touches(d)' <=> c.tree[d] # HeadContent(d)
  BY <1>1, <1>2, <1>3 DEF Touches, HeadContent
<1>8. Touches(d)' \subseteq 1..(Len(commits) + 1) /\ Touches(d) \subseteq 1..Len(commits)
  BY <1>1 DEF Touches
<1>9. 1..(Len(commits) + 1) = (1..Len(commits)) \cup {Len(commits) + 1}
  BY <1>1
<1>10. c.tree[d] = HeadContent(d) => Touches(d)' = Touches(d)
  BY <1>6, <1>7, <1>8, <1>9
<1>11. c.tree[d] # HeadContent(d) => Touches(d)' = Touches(d) \cup {Len(commits) + 1}
  BY <1>6, <1>7, <1>8, <1>9
<1> QED
  BY <1>1, <1>2, <1>4, <1>10, <1>11

\* A step of the store leaves the history alone or appends a commit of the
\* whole index to it.
HistoryStep ==
    \/ commits' = commits
    \/ \E c \in [device : Devices, tree : Trees] :
          commits' = Append(commits, c) /\ c.tree = staged'

\* Appending a commit keeps the history one git can walk.
LEMMA HistoryKept ==
    ASSUME StoreTypeOK, HistoryInv, HistoryStep
    PROVE  HistoryInv'
<1>1. CASE commits' = commits
  <2>1. \A d \in Devices : HeadContent(d)' = HeadContent(d) /\ Touches(d)' = Touches(d)
    BY <1>1 DEF HeadContent, Touches, FileAt
  <2> QED  BY <2>1 DEF HistoryInv
<1>2. ASSUME NEW c \in [device : Devices, tree : Trees], commits' = Append(commits, c)
      PROVE  HistoryInv'
  <2> SUFFICES ASSUME NEW d \in Devices
               PROVE  /\ HeadContent(d)' # NoFile => Touches(d)' # {}
                      /\ Touches(d)' # {} =>
                            \E m \in Touches(d)' : \A n \in Touches(d)' : n <= m
    BY DEF HistoryInv
  <2>1. CASE c.tree[d] = HeadContent(d)
    <3>1. HeadContent(d)' = HeadContent(d) /\ Touches(d)' = Touches(d)
      BY <1>2, <2>1, AppendTouches
    <3> QED  BY <3>1 DEF HistoryInv
  <2>2. CASE c.tree[d] # HeadContent(d)
    <3>1. Touches(d)' = Touches(d) \cup {Len(commits) + 1}
      BY <1>2, <2>2, AppendTouches
    <3>2. Len(commits) \in Nat /\ Touches(d) \subseteq 1..Len(commits)
      BY DEF StoreTypeOK, Touches
    <3>3. Len(commits) + 1 \in Touches(d)'
      BY <3>1
    <3>4. \A n \in Touches(d)' : n <= Len(commits) + 1
      BY <3>1, <3>2
    <3> QED  BY <3>3, <3>4
  <2> QED  BY <2>1, <2>2
<1> QED  BY <1>1, <1>2 DEF HistoryStep

----------------------------------------------------------------------------
\* Lemmas about accounted commits

\* What is accounted for stays so as the history and the feed grow.
LEMMA AccountedKept ==
    ASSUME StoreTypeOK, HistoryStep, feed \subseteq feed',
           NEW d \in Devices, NEW n \in Nat, Accounted(d, n)
    PROVE  Accounted(d, n)'
<1>1. \A k \in Nat : Covered(d, k) => Covered(d, k)'
  BY DEF Covered
<1>2. n <= Len(commits') /\ \A k \in Touches(d)' : k <= n => k \in Touches(d)
  <2>1. Len(commits) \in Nat /\ n <= Len(commits)
    BY DEF StoreTypeOK, Accounted
  <2>2. CASE commits' = commits
    BY <2>1, <2>2 DEF Touches, FileAt
  <2>3. ASSUME NEW c \in [device : Devices, tree : Trees], commits' = Append(commits, c)
        PROVE  n <= Len(commits') /\ \A k \in Touches(d)' : k <= n => k \in Touches(d)
    <3>1. \/ Touches(d)' = Touches(d)
          \/ Touches(d)' = Touches(d) \cup {Len(commits) + 1}
      BY <2>3, AppendTouches
    <3>2. Len(commits') = Len(commits) + 1
      BY <2>3, AppendTouches
    <3> QED  BY <2>1, <3>1, <3>2
  <2> QED  BY <2>2, <2>3 DEF HistoryStep
<1>3. Touches(d) \subseteq Nat
  BY DEF Touches
<1>4. Settled(d, n)'
  BY <1>1, <1>2, <1>3 DEF Accounted, Settled
<1> QED  BY <1>2, <1>4 DEF Accounted

\* The baseline of a device whose cursor can be read, or was never written, is
\* a position in the history.
LEMMA BaselineType ==
    ASSUME StoreTypeOK, HistoryInv, CursorInv, NEW d \in Devices
    PROVE  Baseline(d) \in Nat /\ Baseline(d) <= Len(commits)
<1>1. CASE LoadCursor(d).status = "ok"
  <2>1. LoadCursor(d).commit \in Nat
    BY DEF StoreTypeOK, LoadCursor
  <2>2. Baseline(d) = LoadCursor(d).commit
    BY <1>1 DEF Baseline
  <2> QED  BY <2>1, <2>2 DEF CursorInv, Accounted
<1>2. CASE LoadCursor(d).status = "missing"
  <2>1. Baseline(d) = LastCommitFor(d)
    BY <1>2 DEF Baseline
  <2> QED  BY <2>1, LastCommitType
<1> QED  BY <1>1, <1>2 DEF CursorInv

\* Writing an accounted commit to one device's cursor keeps the invariant of
\* all cursors, whatever else of that device the step stages or commits.
LEMMA CursorKept ==
    ASSUME StoreTypeOK, HistoryInv, CursorInv, HistoryStep, feed \subseteq feed',
           NEW d \in Devices, NEW n \in Nat,
           WriteCursor(d, n), Accounted(d, n)',
           \A e \in Devices \ {d} : staged'[e] = staged[e]
    PROVE  CursorInv'
<1> SUFFICES ASSUME NEW e \in Devices
             PROVE  /\ LoadCursor(e)'.status \in {"ok", "missing"}
                    /\ LoadCursor(e)'.status = "missing" => staged'[e] = HeadContent(e)'
                    /\ Accounted(e, Baseline(e))'
  BY DEF CursorInv
<1>1. CASE e = d
  <2>1. LoadCursor(e)' = OkCursor(n)
    BY <1>1 DEF LoadCursor, WriteCursor, StoreTypeOK
  <2>2. Baseline(e)' = n
    BY <2>1 DEF Baseline
  <2>3. Accounted(e, Baseline(e))'
    BY <2>2, <1>1 DEF Accounted, Settled, Covered
  <2> QED  BY <2>1, <2>3
<1>2. CASE e # d
  <2>1. LoadCursor(e)' = LoadCursor(e)
    BY <1>2 DEF LoadCursor, WriteCursor, StoreTypeOK
  <2>2. CASE LoadCursor(e).status = "ok"
    <3>1. Baseline(e)' = Baseline(e)
      BY <2>1, <2>2 DEF Baseline
    <3>2. Accounted(e, Baseline(e))
      BY DEF CursorInv
    <3>3. \A k \in Nat : Accounted(e, k) => Accounted(e, k)'
      BY AccountedKept
    <3>4. Accounted(e, Baseline(e))'
      BY <3>1, <3>2, <3>3, BaselineType DEF Accounted, Settled, Covered
    <3> QED  BY <2>1, <2>2, <3>4
  <2>3. CASE LoadCursor(e).status = "missing"
    <3>1. staged[e] = HeadContent(e) /\ staged'[e] = staged[e]
      BY <1>2, <2>3 DEF CursorInv
    <3>2. HeadContent(e)' = HeadContent(e) /\ Touches(e)' = Touches(e)
      <4>1. CASE commits' = commits
        BY <4>1 DEF HeadContent, Touches, FileAt
      <4>2. ASSUME NEW c \in [device : Devices, tree : Trees],
                   commits' = Append(commits, c), c.tree = staged'
            PROVE  HeadContent(e)' = HeadContent(e) /\ Touches(e)' = Touches(e)
        BY <4>2, <3>1, AppendTouches
      <4> QED  BY <4>1, <4>2 DEF HistoryStep
    <3>3. Baseline(e)' = Baseline(e)
      BY <2>1, <2>3, <3>2 DEF Baseline, LastCommitFor
    <3>4. Accounted(e, Baseline(e))
      BY DEF CursorInv
    <3>5. \A k \in Nat : Accounted(e, k) => Accounted(e, k)'
      BY AccountedKept
    <3>6. Accounted(e, Baseline(e))'
      BY <3>3, <3>4, <3>5, BaselineType DEF Accounted, Settled, Covered
    <3> QED  BY <2>1, <2>3, <3>1, <3>2, <3>6
  <2> QED  BY <2>2, <2>3 DEF CursorInv
<1> QED  BY <1>1, <1>2

----------------------------------------------------------------------------
\* Lemmas about the operations of the store

\* A Save, complete or stopped half-way, keeps the store's invariants, and a
\* complete one returns a commit that can be recorded and a baseline that is
\* accounted for.
LEMMA SaveKept ==
    ASSUME StoreTypeOK, HistoryInv, CursorInv, UNCHANGED feed,
           NEW d \in Devices, NEW c \in Contents,
           Save(d, c) \/ SaveStopsUnstaged(d) \/ SaveStopsStaged(d, c)
    PROVE  StoreTypeOK' /\ HistoryInv' /\ CursorInv' /\ HistoryStep
<1>1. Baseline(d) \in Nat /\ WriteCursor(d, Baseline(d))
  BY BaselineType DEF Save, SaveIdentical, SaveCommit, SaveStopsUnstaged, SaveStopsStaged
<1>2. /\ staged' \in Trees
      /\ \A e \in Devices \ {d} : staged'[e] = staged[e]
  BY DEF Save, SaveIdentical, SaveCommit, SaveStopsUnstaged, SaveStopsStaged, StoreTypeOK
<1>3. HistoryStep
  BY <1>2 DEF Save, SaveIdentical, SaveCommit, SaveStopsUnstaged, SaveStopsStaged, HistoryStep
<1>4. commits' \in Seq([device : Devices, tree : Trees])
  <2> DEFINE Commit == [device : Devices, tree : Trees]
  <2>1. commits \in Seq(Commit)
    BY DEF StoreTypeOK
  <2>2. \A e \in Commit : Append(commits, e) \in Seq(Commit)
    BY <2>1
  <2> QED  BY <1>3, <2>1, <2>2 DEF HistoryStep
<1>5. cursor' \in [Devices -> [status : CursorStatus, commit : Nat]]
  BY <1>1 DEF WriteCursor, StoreTypeOK
<1>6. sidecar' \in [Devices -> [status : {"none", "pending"}, prev : Nat]]
  BY <1>1 DEF WriteCursor, StoreTypeOK
<1>7. StoreTypeOK'
  BY <1>2, <1>4, <1>5, <1>6 DEF StoreTypeOK
<1>8. HistoryInv'
  BY <1>3, HistoryKept
<1>9. CursorInv'
  <2>1. PICK n \in Nat : n = Baseline(d)
    BY <1>1
  <2>2. Accounted(d, n)
    BY <2>1 DEF CursorInv
  <2>3. Accounted(d, n)'
    BY <1>3, <2>2, AccountedKept
  <2> QED  BY <1>1, <1>2, <1>3, <2>1, <2>3, CursorKept
<1> QED  BY <1>3, <1>7, <1>8, <1>9

\* The commit a Save returns is a real one.
LEMMA SavedCommitType ==
    ASSUME StoreTypeOK, HistoryInv, NEW d \in Devices, NEW c \in Contents
    PROVE  SavedCommit(d, c) \in Nat \ {0}
<1>1. CASE HeadContent(d) = c
  BY <1>1, LastCommitType, StoreAssumption DEF SavedCommit
<1>2. CASE HeadContent(d) # c
  BY <1>2 DEF SavedCommit, StoreTypeOK
<1> QED  BY <1>1, <1>2

\* A step that leaves the store alone keeps its invariants.
LEMMA StoreUnchanged ==
    ASSUME StoreTypeOK, HistoryInv, CursorInv, UNCHANGED storeVars, feed \subseteq feed'
    PROVE  StoreTypeOK' /\ HistoryInv' /\ CursorInv' /\ HistoryStep
<1>1. HistoryStep
  BY DEF HistoryStep, storeVars
<1>2. StoreTypeOK' /\ HistoryInv'
  BY <1>1, HistoryKept DEF StoreTypeOK, storeVars
<1>3. CursorInv'
  <2> SUFFICES ASSUME NEW e \in Devices
               PROVE  /\ LoadCursor(e)'.status \in {"ok", "missing"}
                      /\ LoadCursor(e)'.status = "missing" => staged'[e] = HeadContent(e)'
                      /\ Accounted(e, Baseline(e))'
    BY DEF CursorInv
  <2>1. /\ LoadCursor(e)' = LoadCursor(e)
        /\ HeadContent(e)' = HeadContent(e)
        /\ Baseline(e)' = Baseline(e)
    BY DEF storeVars, LoadCursor, HeadContent, FileAt, Baseline, LastCommitFor,
           PreviousCommitFor, Touches
  <2>2. PICK n \in Nat : n = Baseline(e)
    BY BaselineType
  <2>3. Accounted(e, n)
    BY <2>2 DEF CursorInv
  <2>4. Accounted(e, n)'
    BY <1>1, <2>3, AccountedKept
  <2>5. Accounted(e, Baseline(e))'
    BY <2>1, <2>2, <2>4 DEF Accounted, Settled, Covered
  <2> QED  BY <2>1, <2>5 DEF CursorInv, storeVars
<1> QED  BY <1>1, <1>2, <1>3

\* An acknowledgement of a recorded commit keeps the store's invariants.
LEMMA MarkKept ==
    ASSUME StoreTypeOK, HistoryInv, CursorInv, UNCHANGED feed,
           NEW d \in Devices, NEW p \in Nat, NEW h \in Nat \ {0},
           Accounted(d, p), Row(d, p, h) \in feed, MarkProcessed(d, h)
    PROVE  StoreTypeOK' /\ HistoryInv' /\ CursorInv' /\ HistoryStep
<1>1. CASE h # LastCommitFor(d)
  BY <1>1, StoreUnchanged DEF MarkProcessed
<1>2. CASE h = LastCommitFor(d)
  <2>1. WriteCursor(d, h) /\ UNCHANGED <<commits, staged>>
    BY <1>2 DEF MarkProcessed
  <2>2. HistoryStep
    BY <2>1 DEF HistoryStep
  <2>3. StoreTypeOK' /\ HistoryInv'
    BY <2>1, <2>2, HistoryKept DEF StoreTypeOK, WriteCursor
  <2>4. Settled(d, h)
    <3> SUFFICES ASSUME NEW m \in Touches(d), m <= h
                 PROVE  Covered(d, m)
      BY DEF Settled
    <3>1. m \in Nat
      BY DEF Touches
    <3>2. CASE m <= p
      BY <3>2 DEF Accounted, Settled
    <3>3. CASE p < m
      BY <3>1, <3>3 DEF Covered, Row
    <3> QED  BY <3>1, <3>2, <3>3
  <2>5. Accounted(d, h)
    <3>1. h <= Len(commits)
      BY <1>2, LastCommitType
    <3>2. \E q \in feed : q.device = d /\ q.commit = h
      BY DEF Row
    <3> QED  BY <2>4, <3>1, <3>2 DEF Accounted
  <2>6. Accounted(d, h)'
    BY <2>2, <2>5, AccountedKept
  <2>7. CursorInv'
    BY <2>1, <2>2, <2>6, CursorKept
  <2> QED  BY <2>2, <2>3, <2>7
<1> QED  BY <1>1, <1>2

----------------------------------------------------------------------------
\* Lemmas about the workers

\* What a worker carries stays accounted for while others save and record.
LEMMA StateKept ==
    ASSUME StoreTypeOK, HistoryStep, feed \subseteq feed',
           NEW s \in WorkerStates, StateAccounted(s)
    PROVE  StateAccounted(s)'
<1>1. s.pc \in {"record", "mark", "notify"} => s.device \in Devices /\ s.prev \in Nat
  BY DEF WorkerStates, Idle
<1>2. s.pc \in {"record", "mark", "notify"} => Accounted(s.device, s.prev)'
  BY <1>1, AccountedKept DEF StateAccounted
<1>3. s.pc \in {"mark", "notify"} => RowOf(s) \in feed'
  BY DEF StateAccounted
<1> QED  BY <1>2, <1>3 DEF StateAccounted

\* One worker moves to a state that is accounted for.
LEMMA WorkersKept ==
    ASSUME TypeOK, WorkerInv, HistoryStep, feed \subseteq feed',
           NEW w \in Workers, NEW s \in WorkerStates, Becomes(w, s), StateAccounted(s)'
    PROVE  worker' \in [Workers -> WorkerStates] /\ WorkerInv'
<1>1. worker' \in [Workers -> WorkerStates] /\ worker'[w] = s
  BY DEF TypeOK, Becomes
<1> SUFFICES ASSUME NEW v \in Workers
             PROVE  StateAccounted(worker[v])'
  BY <1>1 DEF WorkerInv
<1>2. CASE v = w
  BY <1>1, <1>2 DEF StateAccounted, Accounted, Settled, Covered, RowOf, Row
<1>3. CASE v # w
  <2>1. worker'[v] = worker[v]
    BY <1>3 DEF TypeOK, Becomes
  <2>2. PICK t \in WorkerStates : t = worker[v]
    BY DEF TypeOK
  <2>3. StateAccounted(t)
    BY <2>2 DEF WorkerInv
  <2>4. StateAccounted(t)'
    BY <2>3, StateKept DEF TypeOK
  <2> QED  BY <2>1, <2>2, <2>4 DEF StateAccounted, Accounted, Settled, Covered, RowOf, Row
<1> QED  BY <1>2, <1>3

----------------------------------------------------------------------------
\* The initial states satisfy the invariant

\* The history of an older release touches each of its devices once.
LEMMA LegacyTouches ==
    ASSUME Init, NEW d \in Devices
    PROVE  /\ Len(commits) = Len(Legacy)
           /\ staged[d] = HeadContent(d)
           /\ Touches(d) = {n \in 1..Len(Legacy) : Legacy[n] = d}
<1>1. /\ Len(Legacy) \in Nat
      /\ \A n \in 1..Len(Legacy) : Legacy[n] \in Devices
      /\ commits = [n \in 1..Len(Legacy) |-> [device |-> Legacy[n], tree |-> LegacyTree(n)]]
      /\ staged = LegacyTree(Len(Legacy))
  BY StoreAssumption DEF Init, StoreInit
<1>2. Len(commits) = Len(Legacy)
  BY <1>1
<1>3. \A n \in 0..Len(Legacy) : FileAt(d, n) = LegacyTree(n)[d]
  BY <1>1 DEF FileAt, LegacyTree
<1>4. staged[d] = HeadContent(d)
  BY <1>1, <1>2, <1>3 DEF HeadContent
<1>5. ASSUME NEW n \in 1..Len(Legacy)
      PROVE  FileAt(d, n) # FileAt(d, n - 1) <=> Legacy[n] = d
  <2>1. n \in 0..Len(Legacy) /\ n - 1 \in 0..Len(Legacy)
    BY <1>1
  <2>2. \/ FileAt(d, n) = LegacyContent /\ \E i \in 1..n : Legacy[i] = d
        \/ FileAt(d, n) = NoFile /\ ~\E i \in 1..n : Legacy[i] = d
    BY <1>3, <2>1 DEF LegacyTree
  <2>3. \/ FileAt(d, n - 1) = LegacyContent /\ \E i \in 1..(n - 1) : Legacy[i] = d
        \/ FileAt(d, n - 1) = NoFile /\ ~\E i \in 1..(n - 1) : Legacy[i] = d
    BY <1>3, <2>1 DEF LegacyTree
  <2>4. LegacyContent # NoFile
    BY StoreAssumption
  <2>5. 1..n = (1..(n - 1)) \cup {n} /\ n \notin 1..(n - 1)
    BY <1>1
  <2>6. Legacy[n] = d => ~\E i \in 1..(n - 1) : Legacy[i] = d
    BY <1>1, <2>5, StoreAssumption
  <2> QED  BY <2>2, <2>3, <2>4, <2>5, <2>6
<1>6. Touches(d) = {n \in 1..Len(Legacy) : Legacy[n] = d}
  BY <1>2, <1>5 DEF Touches
<1> QED  BY <1>2, <1>4, <1>6

LEMMA InitInv == Init => Inv
<1> SUFFICES ASSUME Init PROVE Inv
  OBVIOUS
<1>1. /\ Len(Legacy) \in Nat
      /\ \A n \in 1..Len(Legacy) : Legacy[n] \in Devices
      /\ LegacyContent \in Contents
  BY StoreAssumption
<1>2. \A n \in 1..Len(Legacy) : LegacyTree(n) \in Trees
  BY <1>1 DEF LegacyTree
<1>3. StoreTypeOK
  <2>1. commits \in Seq([device : Devices, tree : Trees])
    BY <1>1, <1>2 DEF Init, StoreInit
  <2>2. staged \in Trees
    BY <1>1 DEF Init, StoreInit, LegacyTree
  <2>3. cursor \in [Devices -> [status : CursorStatus, commit : Nat]]
    BY DEF Init, StoreInit
  <2>4. sidecar \in [Devices -> [status : {"none", "pending"}, prev : Nat]]
    BY DEF Init, StoreInit
  <2> QED  BY <2>1, <2>2, <2>3, <2>4 DEF StoreTypeOK
<1>4. TypeOK
  <2>1. worker \in [Workers -> WorkerStates]
    BY DEF Init, WorkerStates
  <2>2. feed \subseteq [device : Devices, prev : Nat, commit : Nat \ {0}]
    BY <1>1 DEF Init, Row
  <2>3. edits \in 0..MaxEdits /\ failures \in 0..MaxFailures /\ deletes \in 0..MaxDeletes
    BY ProcessingAssumption DEF Init
  <2>4. registered \in [Devices -> BOOLEAN]
    BY DEF Init
  <2> QED  BY <1>3, <2>1, <2>2, <2>3, <2>4 DEF TypeOK, Init
<1>5. \A d \in Devices : \A m, n \in Touches(d) : m = n
  BY LegacyTouches, StoreAssumption
<1>6. HistoryInv
  <2> SUFFICES ASSUME NEW d \in Devices
               PROVE  /\ HeadContent(d) # NoFile => Touches(d) # {}
                      /\ Touches(d) # {} =>
                            \E m \in Touches(d) : \A n \in Touches(d) : n <= m
    BY DEF HistoryInv
  <2>1. staged[d] # NoFile => \E i \in 1..Len(Legacy) : Legacy[i] = d
    BY DEF Init, StoreInit, LegacyTree
  <2>2. HeadContent(d) # NoFile => Touches(d) # {}
    BY <2>1, LegacyTouches
  <2>3. \A m, n \in Touches(d) : n <= m
    BY <1>5, <1>1, LegacyTouches
  <2> QED  BY <2>2, <2>3
<1>7. CursorInv
  <2> SUFFICES ASSUME NEW d \in Devices
               PROVE  /\ LoadCursor(d).status \in {"ok", "missing"}
                      /\ LoadCursor(d).status = "missing" => staged[d] = HeadContent(d)
                      /\ Accounted(d, Baseline(d))
    BY DEF CursorInv
  <2>1. CASE sidecar[d].status = "pending"
    <3>1. LoadCursor(d) = OkCursor(0)
      BY <2>1 DEF LoadCursor, Init, StoreInit
    <3>2. Baseline(d) = 0
      BY <3>1 DEF Baseline
    <3>3. Accounted(d, 0)
      BY <1>3 DEF Accounted, Settled, Touches, StoreTypeOK
    <3> QED  BY <3>1, <3>2, <3>3
  <2>2. CASE sidecar[d].status = "none"
    <3>1. LoadCursor(d).status = "missing" /\ Baseline(d) = LastCommitFor(d)
      BY <2>2 DEF LoadCursor, Baseline, Init, StoreInit
    <3>2. CASE Touches(d) = {}
      BY <1>3, <3>1, <3>2, LegacyTouches
         DEF LastCommitFor, Newest, Accounted, Settled, StoreTypeOK
    <3>3. CASE Touches(d) # {}
      <4>1. PICK n \in Touches(d) : TRUE
        BY <3>3
      <4>2. n \in 1..Len(Legacy) /\ Legacy[n] = d
        BY <4>1, LegacyTouches
      <4>3. LastCommitFor(d) = n
        <5>1. \A m \in Touches(d) : m <= n
          BY <1>5, <4>1, <4>2
        <5>2. Touches(d) \in SUBSET Nat
          BY <1>1, LegacyTouches
        <5>3. Newest(Touches(d)) \in Touches(d)
          BY <4>1, <5>1, <5>2, NewestIsMax
        <5> QED  BY <1>5, <4>1, <5>3 DEF LastCommitFor
      <4>4. Row(d, 0, n) \in feed
        BY <2>2, <4>2 DEF Init
      <4>5. Covered(d, n)
        BY <1>1, <4>2, <4>4 DEF Covered, Row
      <4>6. Settled(d, n)
        BY <1>5, <4>1, <4>5 DEF Settled
      <4>7. Accounted(d, n)
        BY <4>2, <4>4, <4>6, LegacyTouches DEF Accounted, Row
      <4> QED  BY <3>1, <4>3, <4>7, LegacyTouches
    <3> QED  BY <3>2, <3>3
  <2>3. sidecar[d].status \in {"none", "pending"}
    BY <1>3 DEF StoreTypeOK
  <2> QED  BY <2>1, <2>2, <2>3
<1>8. WorkerInv
  BY DEF WorkerInv, StateAccounted, Init, Idle
<1>9. TimelineConnected
  BY DEF TimelineConnected, Init, Row
<1> QED  BY <1>4, <1>6, <1>7, <1>8, <1>9 DEF Inv

----------------------------------------------------------------------------
\* Every step keeps the invariant

LEMMA NextInv == Inv /\ [Next]_vars => Inv'
<1> SUFFICES ASSUME Inv, [Next]_vars PROVE Inv'
  OBVIOUS
<1> USE DEF Inv
<1>t. StoreTypeOK
  BY DEF TypeOK
\* What is left to show when neither the feed nor the notified rows change.
<1>q. ASSUME UNCHANGED <<feed, notified>>, StoreTypeOK', HistoryInv', CursorInv',
             worker' \in [Workers -> WorkerStates], WorkerInv',
             running' \in [Devices -> Contents], registered' \in [Devices -> BOOLEAN],
             edits' \in 0..MaxEdits, failures' \in 0..MaxFailures, deletes' \in 0..MaxDeletes
      PROVE  Inv'
  <2>1. TypeOK'
    BY <1>q DEF TypeOK
  <2>2. TimelineConnected'
    BY <1>q DEF TimelineConnected
  <2> QED  BY <1>q, <2>1, <2>2
\* A worker gives up or finishes.
<1>i. ASSUME NEW w \in Workers, HistoryStep, feed \subseteq feed', Becomes(w, Idle)
      PROVE  worker' \in [Workers -> WorkerStates] /\ WorkerInv'
  <2>1. Idle \in WorkerStates /\ StateAccounted(Idle)'
    BY DEF WorkerStates, StateAccounted, Idle
  <2> QED  BY <1>i, <2>1, WorkersKept
<1>f. Failing => failures' \in 0..MaxFailures
  BY ProcessingAssumption DEF Failing, TypeOK
<1>1. ASSUME NEW w \in Workers, NEW d \in Devices, Fetch(w, d)
      PROVE  Inv'
  <2>1. StoreTypeOK' /\ HistoryInv' /\ CursorInv' /\ HistoryStep
    BY <1>1, <1>t, StoreUnchanged DEF Fetch
  <2> DEFINE s == [pc |-> "save", device |-> d, content |-> running[d]]
  <2>2. s \in WorkerStates
    BY DEF WorkerStates, TypeOK
  <2>3. PICK t \in WorkerStates : t = s
    BY <2>2
  <2>4. StateAccounted(t)'
    BY <2>3 DEF StateAccounted
  <2>5. worker' \in [Workers -> WorkerStates] /\ WorkerInv'
    BY <1>1, <2>1, <2>3, <2>4, WorkersKept DEF Fetch
  <2> QED  BY <1>1, <1>q, <2>1, <2>5 DEF Fetch, envVars, TypeOK
<1>2. ASSUME NEW w \in Workers, SaveSnapshot(w)
      PROVE  Inv'
  <2>1. PICK d \in Devices, c \in Contents :
            /\ d = worker[w].device /\ c = worker[w].content
            /\ Save(d, c)
            /\ Becomes(w, IF SaveChanged(d, c)
                          THEN [pc |-> "record", device |-> d,
                                prev |-> Baseline(d), commit |-> SavedCommit(d, c)]
                          ELSE Idle)
    <3>1. worker[w] \in WorkerStates /\ worker[w].pc = "save"
      BY <1>2 DEF SaveSnapshot, TypeOK
    <3>2. worker[w].device \in Devices /\ worker[w].content \in Contents
      BY <3>1 DEF WorkerStates, Idle
    <3> QED  BY <1>2, <3>2 DEF SaveSnapshot
  <2>2. StoreTypeOK' /\ HistoryInv' /\ CursorInv' /\ HistoryStep
    BY <1>2, <1>t, <2>1, SaveKept DEF SaveSnapshot
  <2>3. worker' \in [Workers -> WorkerStates] /\ WorkerInv'
    <3>1. CASE SaveChanged(d, c)
      <4>1. PICK p \in Nat, h \in Nat \ {0} : p = Baseline(d) /\ h = SavedCommit(d, c)
        BY <1>t, BaselineType, SavedCommitType
      <4>2. Accounted(d, p)
        BY <4>1 DEF CursorInv
      <4>3. Accounted(d, p)'
        BY <1>2, <1>t, <2>2, <4>2, AccountedKept DEF SaveSnapshot
      <4>4. PICK t \in WorkerStates :
                t = [pc |-> "record", device |-> d, prev |-> p, commit |-> h]
        BY DEF WorkerStates
      <4>5. StateAccounted(t)'
        BY <4>3, <4>4 DEF StateAccounted, Accounted, Settled, Covered
      <4>6. Becomes(w, t)
        BY <2>1, <3>1, <4>1, <4>4
      <4> QED  BY <1>2, <2>2, <4>5, <4>6, WorkersKept DEF SaveSnapshot
    <3>2. CASE ~SaveChanged(d, c)
      BY <1>2, <1>i, <2>1, <2>2, <3>2 DEF SaveSnapshot
    <3> QED  BY <3>1, <3>2
  <2> QED  BY <1>2, <1>q, <2>2, <2>3 DEF SaveSnapshot, envVars, TypeOK
<1>3. ASSUME NEW w \in Workers, RecordChange(w)
      PROVE  Inv'
  <2>1. PICK d \in Devices, p \in Nat, h \in Nat \ {0} :
            worker[w] = [pc |-> "record", device |-> d, prev |-> p, commit |-> h]
    <3>1. worker[w] \in WorkerStates /\ worker[w].pc = "record"
      BY <1>3 DEF RecordChange, TypeOK
    <3> QED  BY <3>1 DEF WorkerStates, Idle
  <2>2. Accounted(d, p)
    BY <2>1 DEF WorkerInv, StateAccounted
  <2>3. feed' = feed \cup {Row(d, p, h)}
    BY <1>3, <2>1 DEF RecordChange, RowOf
  <2>4. StoreTypeOK' /\ HistoryInv' /\ CursorInv' /\ HistoryStep
    BY <1>3, <1>t, <2>3, StoreUnchanged DEF RecordChange
  <2>5. worker' \in [Workers -> WorkerStates] /\ WorkerInv'
    <3>1. PICK t \in WorkerStates :
              t = [pc |-> "mark", device |-> d, prev |-> p, commit |-> h]
      BY DEF WorkerStates
    <3>2. Becomes(w, t)
      BY <1>3, <2>1, <3>1 DEF RecordChange
    <3>3. Accounted(d, p)'
      BY <1>t, <2>2, <2>3, <2>4, AccountedKept
    <3>4. StateAccounted(t)'
      BY <2>3, <3>1, <3>3 DEF StateAccounted, RowOf, Row, Accounted, Settled, Covered
    <3> QED  BY <2>3, <2>4, <3>2, <3>4, WorkersKept
  <2>6. TypeOK'
    <3>1. feed' \subseteq [device : Devices, prev : Nat, commit : Nat \ {0}]
      BY <2>3 DEF TypeOK, Row
    <3>2. notified' \subseteq feed'
      BY <1>3, <2>3 DEF RecordChange, TypeOK
    <3> QED  BY <1>3, <2>4, <2>5, <3>1, <3>2 DEF RecordChange, envVars, TypeOK
  <2>7. TimelineConnected'
    BY <2>2, <2>3 DEF TimelineConnected, Accounted, Row
  <2> QED  BY <2>4, <2>5, <2>6, <2>7
<1>4. ASSUME NEW w \in Workers, RecordRefused(w)
      PROVE  Inv'
  <2>1. StoreTypeOK' /\ HistoryInv' /\ CursorInv' /\ HistoryStep
    BY <1>4, <1>t, StoreUnchanged DEF RecordRefused
  <2>2. worker' \in [Workers -> WorkerStates] /\ WorkerInv'
    BY <1>4, <1>i, <2>1 DEF RecordRefused
  <2> QED  BY <1>4, <1>q, <2>1, <2>2 DEF RecordRefused, envVars, TypeOK
<1>5. ASSUME NEW w \in Workers, MarkSnapshot(w)
      PROVE  Inv'
  <2>1. PICK d \in Devices, p \in Nat, h \in Nat \ {0} :
            worker[w] = [pc |-> "mark", device |-> d, prev |-> p, commit |-> h]
    <3>1. worker[w] \in WorkerStates /\ worker[w].pc = "mark"
      BY <1>5 DEF MarkSnapshot, TypeOK
    <3> QED  BY <3>1 DEF WorkerStates, Idle
  <2>2. Accounted(d, p) /\ Row(d, p, h) \in feed
    BY <2>1 DEF WorkerInv, StateAccounted, RowOf
  <2>3. MarkProcessed(d, h)
    BY <1>5, <2>1 DEF MarkSnapshot
  <2>4. StoreTypeOK' /\ HistoryInv' /\ CursorInv' /\ HistoryStep
    BY <1>5, <1>t, <2>2, <2>3, MarkKept DEF MarkSnapshot
  <2>5. worker' \in [Workers -> WorkerStates] /\ WorkerInv'
    <3>1. PICK t \in WorkerStates :
              t = [pc |-> "notify", device |-> d, prev |-> p, commit |-> h]
      BY DEF WorkerStates
    <3>2. Becomes(w, t)
      BY <1>5, <2>1, <3>1 DEF MarkSnapshot
    <3>3. StateAccounted(t)
      BY <2>2, <3>1 DEF StateAccounted, RowOf, Row
    <3>4. StateAccounted(t)'
      BY <1>5, <1>t, <2>4, <3>3, StateKept DEF MarkSnapshot
    <3> QED  BY <1>5, <2>4, <3>2, <3>4, WorkersKept DEF MarkSnapshot
  <2> QED  BY <1>5, <1>q, <2>4, <2>5 DEF MarkSnapshot, envVars, TypeOK
<1>6. ASSUME NEW w \in Workers, Notify(w)
      PROVE  Inv'
  <2>1. StoreTypeOK' /\ HistoryInv' /\ CursorInv' /\ HistoryStep
    BY <1>6, <1>t, StoreUnchanged DEF Notify
  <2>2. worker' \in [Workers -> WorkerStates] /\ WorkerInv'
    BY <1>6, <1>i, <2>1 DEF Notify
  <2>3. RowOf(worker[w]) \in feed
    BY <1>6 DEF Notify, WorkerInv, StateAccounted
  <2>4. TypeOK'
    BY <1>6, <2>1, <2>2, <2>3 DEF Notify, envVars, TypeOK
  <2>5. TimelineConnected'
    BY <1>6 DEF Notify, TimelineConnected
  <2> QED  BY <2>1, <2>2, <2>4, <2>5
<1>7. ASSUME NEW w \in Workers, SaveFails(w)
      PROVE  Inv'
  <2>1. PICK d \in Devices, c \in Contents :
            SaveStopsUnstaged(d) \/ SaveStopsStaged(d, c)
    <3>1. worker[w] \in WorkerStates /\ worker[w].pc = "save"
      BY <1>7 DEF SaveFails, TypeOK
    <3>2. worker[w].device \in Devices /\ worker[w].content \in Contents
      BY <3>1 DEF WorkerStates, Idle
    <3> QED  BY <1>7, <3>2 DEF SaveFails
  <2>2. StoreTypeOK' /\ HistoryInv' /\ CursorInv' /\ HistoryStep
    BY <1>7, <1>t, <2>1, SaveKept DEF SaveFails
  <2>3. worker' \in [Workers -> WorkerStates] /\ WorkerInv'
    BY <1>7, <1>i, <2>2 DEF SaveFails
  <2> QED  BY <1>7, <1>f, <1>q, <2>2, <2>3 DEF SaveFails, envVars, TypeOK
<1>8. ASSUME NEW w \in Workers, RecordFails(w) \/ MarkFails(w)
      PROVE  Inv'
  <2>1. StoreTypeOK' /\ HistoryInv' /\ CursorInv' /\ HistoryStep
    BY <1>8, <1>t, StoreUnchanged DEF RecordFails, MarkFails
  <2>2. worker' \in [Workers -> WorkerStates] /\ WorkerInv'
    BY <1>8, <1>i, <2>1 DEF RecordFails, MarkFails
  <2> QED  BY <1>8, <1>f, <1>q, <2>1, <2>2 DEF RecordFails, MarkFails, envVars, TypeOK
<1>9. ASSUME Crash
      PROVE  Inv'
  <2>1. StoreTypeOK' /\ HistoryInv' /\ CursorInv'
    BY <1>9, <1>t, StoreUnchanged DEF Crash
  <2>2. worker' \in [Workers -> WorkerStates] /\ WorkerInv'
    BY <1>9 DEF Crash, WorkerStates, WorkerInv, StateAccounted, Idle
  <2> QED  BY <1>9, <1>f, <1>q, <2>1, <2>2 DEF Crash, envVars, TypeOK
\* The workers, the store and the feed are left alone.
<1>10. ASSUME UNCHANGED <<storeVars, worker, feed, notified, failures>>,
              running' \in [Devices -> Contents], registered' \in [Devices -> BOOLEAN],
              edits' \in 0..MaxEdits, deletes' \in 0..MaxDeletes
       PROVE  Inv'
  <2>1. StoreTypeOK' /\ HistoryInv' /\ CursorInv' /\ HistoryStep
    BY <1>10, <1>t, StoreUnchanged
  <2>2. WorkerInv'
    <3> SUFFICES ASSUME NEW w \in Workers PROVE StateAccounted(worker[w])'
      BY DEF WorkerInv
    <3>1. PICK t \in WorkerStates : t = worker[w]
      BY DEF TypeOK
    <3>2. StateAccounted(t)
      BY <3>1 DEF WorkerInv
    <3>3. StateAccounted(t)'
      BY <1>10, <1>t, <2>1, <3>2, StateKept
    <3> QED
      BY <1>10, <3>1, <3>3 DEF StateAccounted, Accounted, Settled, Covered, RowOf, Row
  <2> QED  BY <1>10, <1>q, <2>1, <2>2 DEF TypeOK
<1>11. ASSUME NEW d \in Devices, NEW c \in Contents, EditDevice(d, c)
       PROVE  Inv'
  BY <1>10, <1>11, ProcessingAssumption DEF EditDevice, TypeOK
<1>12. ASSUME NEW d \in Devices, DeleteDevice(d)
       PROVE  Inv'
  BY <1>10, <1>12, ProcessingAssumption DEF DeleteDevice, TypeOK
<1>13. ASSUME NEW d \in Devices, CreateDevice(d)
       PROVE  Inv'
  BY <1>10, <1>13 DEF CreateDevice, TypeOK
<1>14. CASE UNCHANGED vars
  BY <1>10, <1>14 DEF vars, storeVars, TypeOK
<1> QED
  BY <1>1, <1>2, <1>3, <1>4, <1>5, <1>6, <1>7, <1>8, <1>9, <1>11, <1>12, <1>13, <1>14
     DEF Next, WorkerStep, WorkerFails

\* The inductive invariant holds in every reachable state.
THEOREM Invariance == Spec => []Inv
  BY InitInv, NextInv, PTL DEF Spec

\* Every variable keeps its type: no worker, cursor or row ever holds a commit
\* that is not one.
THEOREM TypeCorrect == Spec => []TypeOK
<1>1. Inv => TypeOK
  BY DEF Inv
<1> QED  BY <1>1, Invariance, PTL

\* No commit of any device is counted as processed before a recorded change
\* covers it, for any number of devices, requests, failures and crashes.
THEOREM NoChangeSkipped == Spec => []NothingSkipped
<1>1. Inv => NothingSkipped
  BY DEF Inv, CursorInv, Accounted, NothingSkipped, Acked
<1> QED  BY <1>1, Invariance, PTL

\* The recorded changes of every device form a connected timeline.
THEOREM TimelineIsConnected == Spec => []TimelineConnected
<1>1. Inv => TimelineConnected
  BY DEF Inv
<1> QED  BY <1>1, Invariance, PTL

============================================================================
