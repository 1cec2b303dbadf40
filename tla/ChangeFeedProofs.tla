-------------------------- MODULE ChangeFeedProofs --------------------------
(***************************************************************************)
(* Proofs that ChangeProcessing implements ChangeFeed, and of what it says *)
(* of steps: the cursor never goes back, a notified commit is final, and   *)
(* poll loops that nothing disturbs record a change once.                  *)
(***************************************************************************)
EXTENDS ChangeProcessingProofs

USE DEF Trees, CursorStatus, OkCursor, BadCursor, NoSidecar

Store == StoreTypeOK /\ HistoryInv /\ CursorInv

----------------------------------------------------------------------------
\* Lemmas about a device's newest commit and its baseline

\* The newest commit is one of the device's, unless it has none.
LEMMA LastCommitTouches ==
    ASSUME StoreTypeOK, HistoryInv, NEW d \in Devices
    PROVE  \/ Touches(d) = {} /\ LastCommitFor(d) = 0
           \/ LastCommitFor(d) \in Touches(d)
<1>1. Touches(d) \in SUBSET Nat
  BY DEF Touches
<1>2. CASE Touches(d) = {}
  BY <1>2 DEF LastCommitFor, Newest
<1>3. CASE Touches(d) # {}
  BY <1>1, <1>3, NewestIsMax DEF LastCommitFor, HistoryInv
<1> QED  BY <1>2, <1>3

\* It only moves forward as the device's log grows.
LEMMA LastCommitGrows ==
    ASSUME StoreTypeOK, HistoryInv, HistoryInv', NEW d \in Devices,
           Touches(d) \subseteq Touches(d)'
    PROVE  LastCommitFor(d)' \in Nat /\ LastCommitFor(d) <= LastCommitFor(d)'
<1>1. Touches(d)' \in SUBSET Nat /\ Touches(d) \in SUBSET Nat
  BY DEF Touches
<1>2. CASE Touches(d)' = {}
  BY <1>2, LastCommitTouches DEF LastCommitFor, Newest
<1>3. CASE Touches(d)' # {}
  <2>1. PICK m \in Touches(d)' : \A n \in Touches(d)' : n <= m
    BY <1>3 DEF HistoryInv
  <2>2. /\ LastCommitFor(d)' \in Touches(d)'
        /\ \A n \in Touches(d)' : n <= LastCommitFor(d)'
    BY <1>1, <2>1, NewestIsMax DEF LastCommitFor
  <2> QED  BY <1>1, <2>2, LastCommitTouches
<1> QED  BY <1>2, <1>3

\* The baseline never lies beyond the newest commit.
LEMMA BaselineBehind ==
    ASSUME Store, RowInv, NEW d \in Devices
    PROVE  Baseline(d) \in Nat /\ LastCommitFor(d) \in Nat /\ Baseline(d) <= LastCommitFor(d)
<1>1. Baseline(d) \in Nat /\ LastCommitFor(d) \in Nat
  BY BaselineType, LastCommitType DEF Store
<1>2. Baseline(d) = 0 \/ Baseline(d) \in Touches(d)
  BY DEF Store, CursorInv, Accounted, RowInv
<1> QED  BY <1>1, <1>2, LastCommitType DEF Store

\* The baseline and the log of a device whose files a step leaves alone.
LEMMA SameStore ==
    ASSUME UNCHANGED storeVars, NEW d \in Devices
    PROVE  /\ Touches(d)' = Touches(d)
           /\ Baseline(d)' = Baseline(d)
           /\ LastCommitFor(d)' = LastCommitFor(d)
  BY DEF storeVars, Touches, FileAt, LastCommitFor, PreviousCommitFor, LoadCursor, Baseline

----------------------------------------------------------------------------
\* Lemmas about the operations of the store

\* To a reader of git logs and cursors a Save, complete or not, is a history
\* that grows under unchanged baselines.
LEMMA SaveObserves ==
    ASSUME Store, NEW d \in Devices, NEW c \in Contents,
           Save(d, c) \/ SaveStopsUnstaged(d) \/ SaveStopsStaged(d, c),
           NEW e \in Devices
    PROVE  Touches(e) \subseteq Touches(e)' /\ Baseline(e)' = Baseline(e)
<1>1. Baseline(d) \in Nat /\ WriteCursor(d, Baseline(d))
  BY BaselineType
     DEF Store, Save, SaveIdentical, SaveCommit, SaveStopsUnstaged, SaveStopsStaged
<1>2. staged' \in Trees /\ \A f \in Devices \ {d} : staged'[f] = staged[f]
  BY DEF Store, Save, SaveIdentical, SaveCommit, SaveStopsUnstaged, SaveStopsStaged, StoreTypeOK
<1>3. HistoryStep
  BY <1>2 DEF Save, SaveIdentical, SaveCommit, SaveStopsUnstaged, SaveStopsStaged, HistoryStep
<1>4. Touches(e) \subseteq Touches(e)'
  <2>1. CASE commits' = commits
    BY <2>1 DEF Touches, FileAt
  <2>2. ASSUME NEW r \in [device : Devices, tree : Trees], commits' = Append(commits, r)
        PROVE  Touches(e) \subseteq Touches(e)'
    BY <2>2, AppendTouches DEF Store
  <2> QED  BY <1>3, <2>1, <2>2 DEF HistoryStep
<1>5. CASE e = d
  <2>1. LoadCursor(e)' = OkCursor(Baseline(d))
    BY <1>1, <1>5 DEF LoadCursor, WriteCursor, Store, StoreTypeOK
  <2>2. Baseline(e)' = Baseline(e)
    BY <1>5, <2>1 DEF Baseline
  <2> QED  BY <1>4, <2>2
<1>6. CASE e # d
  <2>1. LoadCursor(e)' = LoadCursor(e)
    BY <1>1, <1>6 DEF LoadCursor, WriteCursor, Store, StoreTypeOK
  <2>2. CASE LoadCursor(e).status = "ok"
    BY <1>4, <2>1, <2>2 DEF Baseline
  <2>3. CASE LoadCursor(e).status = "missing"
    <3>1. staged[e] = HeadContent(e) /\ staged'[e] = staged[e]
      BY <1>2, <1>6, <2>3 DEF Store, CursorInv
    <3>2. Touches(e)' = Touches(e)
      <4>1. CASE commits' = commits
        BY <4>1 DEF Touches, FileAt
      <4>2. ASSUME NEW r \in [device : Devices, tree : Trees],
                   commits' = Append(commits, r), r.tree = staged'
            PROVE  Touches(e)' = Touches(e)
        BY <4>2, <3>1, AppendTouches DEF Store
      <4> QED  BY <1>3, <4>1, <4>2 DEF HistoryStep
    <3> QED  BY <1>4, <2>1, <2>3, <3>2 DEF Baseline, LastCommitFor
  <2> QED  BY <2>2, <2>3 DEF Store, CursorInv
<1> QED  BY <1>5, <1>6

\* What a Save hands out is the newest commit of the device, later than its
\* baseline.
LEMMA SaveReportable ==
    ASSUME Store, RowInv, NEW d \in Devices, NEW c \in Contents, Save(d, c), SaveChanged(d, c)
    PROVE  /\ SavedCommit(d, c) \in Touches(d)'
           /\ SavedCommit(d, c) = LastCommitFor(d)'
           /\ Baseline(d) < SavedCommit(d, c)
<1>1. /\ Baseline(d) \in Nat /\ LastCommitFor(d) \in Nat /\ Baseline(d) <= LastCommitFor(d)
      /\ LastCommitFor(d) <= Len(commits) /\ Len(commits) \in Nat
  BY BaselineBehind, LastCommitType DEF Store, StoreTypeOK
<1>2. CASE HeadContent(d) = c
  <2>1. SavedCommit(d, c) = LastCommitFor(d) /\ commits' = commits
    BY <1>2 DEF SavedCommit, Save, SaveIdentical, SaveCommit
  <2>2. Touches(d)' = Touches(d) /\ LastCommitFor(d)' = LastCommitFor(d)
    BY <2>1 DEF Touches, FileAt, LastCommitFor
  <2>3. LastCommitFor(d) \in Touches(d)
    BY <1>2, StoreAssumption, LastCommitType, LastCommitTouches DEF Store
  <2> QED  BY <1>1, <2>1, <2>2, <2>3 DEF SaveChanged
<1>3. CASE HeadContent(d) # c
  <2>1. SavedCommit(d, c) = Len(commits) + 1 /\ SaveCommit(d, c)
    BY <1>3 DEF SavedCommit, Save, SaveIdentical
  <2>2. PICK r \in [device : Devices, tree : Trees] :
            commits' = Append(commits, r) /\ r.tree[d] = c
    <3>1. staged' \in Trees /\ staged'[d] = c
      BY <2>1 DEF SaveCommit, Store, StoreTypeOK
    <3>2. [device |-> d, tree |-> staged'] \in [device : Devices, tree : Trees]
      BY <3>1
    <3> QED  BY <2>1, <3>1, <3>2 DEF SaveCommit
  <2>3. Touches(d)' = Touches(d) \cup {Len(commits) + 1}
    BY <1>3, <2>2, AppendTouches DEF Store
  <2>4. \A n \in Touches(d)' : n <= Len(commits) + 1
    BY <1>1, <2>3 DEF Touches
  <2>5. LastCommitFor(d)' = Len(commits) + 1
    <3>1. Touches(d)' \in SUBSET Nat
      BY <1>1, <2>3 DEF Touches
    <3>2. LastCommitFor(d)' \in Touches(d)' /\ Len(commits) + 1 <= LastCommitFor(d)'
      BY <1>1, <2>3, <2>4, <3>1, NewestIsMax DEF LastCommitFor
    <3> QED  BY <1>1, <2>4, <3>1, <3>2
  <2> QED  BY <1>1, <2>1, <2>3, <2>5
<1> QED  BY <1>2, <1>3

\* An acknowledgement leaves every log alone; if it is of the newest commit it
\* moves that device's baseline there, and otherwise nothing.
LEMMA MarkAcknowledges ==
    ASSUME Store, NEW d \in Devices, NEW h \in Nat, MarkProcessed(d, h), NEW e \in Devices
    PROVE  /\ Touches(e)' = Touches(e)
           /\ LastCommitFor(e)' = LastCommitFor(e)
           /\ Baseline(e)' = IF e = d /\ h = LastCommitFor(d) THEN h ELSE Baseline(e)
<1>1. CASE h # LastCommitFor(d)
  BY <1>1, SameStore DEF MarkProcessed
<1>2. CASE h = LastCommitFor(d)
  <2>1. WriteCursor(d, h) /\ UNCHANGED <<commits, staged>>
    BY <1>2 DEF MarkProcessed
  <2>2. Touches(e)' = Touches(e) /\ LastCommitFor(e)' = LastCommitFor(e)
    BY <2>1 DEF Touches, FileAt, LastCommitFor
  <2>3. CASE e = d
    <3>1. LoadCursor(e)' = OkCursor(h)
      BY <2>1, <2>3 DEF LoadCursor, WriteCursor, Store, StoreTypeOK
    <3> QED  BY <1>2, <2>2, <2>3, <3>1 DEF Baseline
  <2>4. CASE e # d
    <3>1. LoadCursor(e)' = LoadCursor(e)
      BY <2>1, <2>4 DEF LoadCursor, WriteCursor, Store, StoreTypeOK
    <3>2. Baseline(e)' = Baseline(e)
      <4>1. CASE LoadCursor(e).status = "ok"
        BY <3>1, <4>1 DEF Baseline
      <4>2. CASE LoadCursor(e).status = "missing"
        BY <2>2, <3>1, <4>2 DEF Baseline
      <4> QED  BY <4>1, <4>2 DEF Store, CursorInv
    <3> QED  BY <2>2, <2>4, <3>2
  <2> QED  BY <2>3, <2>4
<1> QED  BY <1>1, <1>2

----------------------------------------------------------------------------
\* The shape of a step

\* What a Save hands out: the newest commit, beyond the baseline.
StateSaved(s) ==
    /\ s.pc = "record"
    /\ StateReportable(s)
    /\ s.commit = LastCommitFor(s.device)
    /\ s.prev = Baseline(s.device)

\* A worker keeps what it holds, drops it, or takes up what a Save handed out.
WorkersFit ==
    \A w \in Workers :
        \/ worker'[w] = worker[w]
        \/ worker'[w].pc \in {"idle", "save"}
        \/ StateSaved(worker[w])'

\* What is notified had been acknowledged by a worker about to notify it.
NotifiedFit ==
    /\ notified \subseteq notified'
    /\ \A r \in notified' :
          \/ r \in notified
          \/ \E w \in Workers : worker[w].pc = "notify" /\ r = RowOf(worker[w])

\* A step that changes neither a baseline nor the feed.
ObserveShape ==
    /\ \A d \in Devices : Touches(d) \subseteq Touches(d)' /\ Baseline(d)' = Baseline(d)
    /\ feed' = feed
    /\ WorkersFit
    /\ NotifiedFit

\* A step that leaves the store, the feed and all workers but idling ones
\* alone is one.
LEMMA QuietShape ==
    ASSUME UNCHANGED storeVars, UNCHANGED feed, WorkersFit, NotifiedFit
    PROVE  ObserveShape
  BY SameStore DEF ObserveShape

\* One worker moves on, nothing new is notified.
LEMMA MoveFits ==
    ASSUME TypeOK, NEW w \in Workers, NEW s, Becomes(w, s),
           \/ s.pc \in {"idle", "save"}
           \/ StateSaved(worker[w])'
    PROVE  WorkersFit
<1>1. worker'[w] = s /\ \A v \in Workers : v # w => worker'[v] = worker[v]
  BY DEF TypeOK, Becomes
<1> QED  BY <1>1 DEF WorkersFit

\* Every step but the recording of a row and an acknowledgement only observes.
LEMMA StepShape ==
    ASSUME Inv, FeedInv, [Next]_vars
    PROVE  \/ ObserveShape
           \/ \E w \in Workers : RecordChange(w) \/ MarkSnapshot(w)
<1>t. TypeOK /\ Store /\ RowInv
  BY DEF Inv, FeedInv, TypeOK, Store
<1>n. UNCHANGED notified => NotifiedFit
  BY DEF NotifiedFit
<1>i. Idle.pc \in {"idle", "save"}
  BY DEF Idle
<1>1. ASSUME NEW w \in Workers, NEW d \in Devices, Fetch(w, d)
      PROVE  ObserveShape
  <2>1. WorkersFit
    BY <1>1, <1>t, MoveFits DEF Fetch
  <2> QED  BY <1>1, <1>n, <2>1, QuietShape DEF Fetch
<1>2. ASSUME NEW w \in Workers, SaveSnapshot(w)
      PROVE  ObserveShape
  <2>1. PICK d \in Devices, c \in Contents :
            /\ Save(d, c)
            /\ Becomes(w, IF SaveChanged(d, c)
                          THEN [pc |-> "record", device |-> d,
                                prev |-> Baseline(d), commit |-> SavedCommit(d, c)]
                          ELSE Idle)
    <3>1. worker[w] \in WorkerStates /\ worker[w].pc = "save"
      BY <1>2, <1>t DEF SaveSnapshot, TypeOK
    <3>2. worker[w].device \in Devices /\ worker[w].content \in Contents
      BY <3>1 DEF WorkerStates, Idle
    <3> QED  BY <1>2, <3>2 DEF SaveSnapshot
  <2>2. \A e \in Devices : Touches(e) \subseteq Touches(e)' /\ Baseline(e)' = Baseline(e)
    BY <1>t, <2>1, SaveObserves
  <2>3. CASE SaveChanged(d, c)
    <3>1. PICK p, h : p = Baseline(d) /\ h = SavedCommit(d, c)
      OBVIOUS
    <3>2. /\ p < h /\ h \in Touches(d)' /\ h = LastCommitFor(d)'
          /\ p = Baseline(d)' /\ p \in Nat
      BY <1>t, <2>1, <2>2, <2>3, <3>1, SaveReportable, BaselineBehind
    <3>3. Becomes(w, [pc |-> "record", device |-> d, prev |-> p, commit |-> h])
      BY <2>1, <2>3, <3>1
    <3>4. worker'[w] = [pc |-> "record", device |-> d, prev |-> p, commit |-> h]
      BY <1>t, <3>3 DEF TypeOK, Becomes
    <3>5. StateSaved(worker[w])'
      BY <3>2, <3>4 DEF StateSaved, StateReportable
    <3>6. WorkersFit
      BY <1>t, <3>3, <3>5, MoveFits
    <3> QED  BY <1>2, <1>n, <2>2, <3>6 DEF SaveSnapshot, ObserveShape
  <2>4. CASE ~SaveChanged(d, c)
    <3>1. WorkersFit
      BY <1>t, <1>i, <2>1, <2>4, MoveFits
    <3> QED  BY <1>2, <1>n, <2>2, <3>1 DEF SaveSnapshot, ObserveShape
  <2> QED  BY <2>3, <2>4
<1>3. ASSUME NEW w \in Workers, SaveFails(w)
      PROVE  ObserveShape
  <2>1. PICK d \in Devices, c \in Contents : SaveStopsUnstaged(d) \/ SaveStopsStaged(d, c)
    <3>1. worker[w] \in WorkerStates /\ worker[w].pc = "save"
      BY <1>3, <1>t DEF SaveFails, TypeOK
    <3>2. worker[w].device \in Devices /\ worker[w].content \in Contents
      BY <3>1 DEF WorkerStates, Idle
    <3> QED  BY <1>3, <3>2 DEF SaveFails
  <2>2. \A e \in Devices : Touches(e) \subseteq Touches(e)' /\ Baseline(e)' = Baseline(e)
    BY <1>t, <2>1, SaveObserves
  <2>3. WorkersFit
    BY <1>3, <1>t, <1>i, MoveFits DEF SaveFails
  <2> QED  BY <1>3, <1>n, <2>2, <2>3 DEF SaveFails, ObserveShape
<1>4. ASSUME NEW w \in Workers, RecordRefused(w) \/ RecordFails(w) \/ MarkFails(w)
      PROVE  ObserveShape
  <2>1. WorkersFit
    BY <1>4, <1>t, <1>i, MoveFits DEF RecordRefused, RecordFails, MarkFails
  <2> QED
    BY <1>4, <1>n, <2>1, QuietShape DEF RecordRefused, RecordFails, MarkFails
<1>5. ASSUME NEW w \in Workers, Notify(w)
      PROVE  ObserveShape
  <2>1. WorkersFit
    BY <1>5, <1>t, <1>i, MoveFits DEF Notify
  <2>2. NotifiedFit
    BY <1>5 DEF Notify, NotifiedFit
  <2> QED  BY <1>5, <2>1, <2>2, QuietShape DEF Notify
<1>6. ASSUME Crash
      PROVE  ObserveShape
  <2>1. WorkersFit
    BY <1>6, <1>i DEF Crash, WorkersFit
  <2> QED  BY <1>6, <1>n, <2>1, QuietShape DEF Crash
<1>7. ASSUME UNCHANGED <<storeVars, worker, feed, notified>>
      PROVE  ObserveShape
  <2>1. WorkersFit
    BY <1>7 DEF WorkersFit
  <2> QED  BY <1>7, <1>n, <2>1, QuietShape
<1>8. ASSUME NEW d \in Devices, NEW c \in Contents, EditDevice(d, c)
      PROVE  ObserveShape
  BY <1>7, <1>8 DEF EditDevice
<1>9. ASSUME NEW d \in Devices, DeleteDevice(d) \/ CreateDevice(d)
      PROVE  ObserveShape
  BY <1>7, <1>9 DEF DeleteDevice, CreateDevice
<1>10. CASE UNCHANGED vars
  BY <1>7, <1>10 DEF vars, storeVars
<1> QED
  BY <1>1, <1>2, <1>3, <1>4, <1>5, <1>6, <1>8, <1>9, <1>10
     DEF Next, WorkerStep, WorkerFails

----------------------------------------------------------------------------
\* FeedInv is preserved

\* Logs grow and baselines do not move back.
Grows ==
    \A d \in Devices :
        /\ Touches(d) \subseteq Touches(d)'
        /\ Baseline(d)' \in Nat /\ Baseline(d) <= Baseline(d)'

\* What could be reported still can.
LEMMA ReportableKept ==
    ASSUME Store, Grows, NEW s \in WorkerStates, StateReportable(s)
    PROVE  StateReportable(s)'
<1> SUFFICES ASSUME s.pc \in {"record", "mark", "notify"}
             PROVE  /\ s.prev < s.commit
                    /\ s.commit \in Touches(s.device)'
                    /\ s.prev <= Baseline(s.device)'
  BY DEF StateReportable
<1>1. PICK d \in Devices : d = s.device
  BY DEF WorkerStates, Idle
<1>2. s.prev \in Nat /\ s.prev < s.commit /\ s.commit \in Touches(d) /\ s.prev <= Baseline(d)
  BY <1>1 DEF WorkerStates, Idle, StateReportable
<1>3. Baseline(d) \in Nat /\ Baseline(d)' \in Nat
  BY BaselineType DEF Store, Grows
<1>4. s.commit \in Touches(d)' /\ s.prev <= Baseline(d)'
  BY <1>2, <1>3 DEF Grows
<1>5. Touches(s.device)' = Touches(d)' /\ Baseline(s.device)' = Baseline(d)'
  BY <1>1
<1> QED  BY <1>2, <1>4, <1>5

\* A final commit stays so under the same baseline.
LEMMA FinalKept ==
    ASSUME Store, HistoryInv', NEW d \in Devices, NEW n \in Touches(d), Final(d, n),
           Touches(d) \subseteq Touches(d)', Baseline(d)' = Baseline(d)
    PROVE  Final(d, n)'
<1>1. n \in Nat /\ n <= LastCommitFor(d) /\ LastCommitFor(d) \in Nat
  BY LastCommitType DEF Store, Touches
<1>2. LastCommitFor(d)' \in Nat /\ LastCommitFor(d) <= LastCommitFor(d)'
  BY LastCommitGrows DEF Store
<1> QED  BY <1>1, <1>2 DEF Final

\* A worker keeps its state, or takes up one that is reportable.
LEMMA WorkersReportable ==
    ASSUME TypeOK, Store, Grows, \A w \in Workers : StateReportable(worker[w]),
           \A w \in Workers :
              \/ worker'[w] = worker[w]
              \/ worker'[w].pc \in {"idle", "save"}
              \/ StateReportable(worker[w])'
    PROVE  \A w \in Workers : StateReportable(worker[w])'
<1> SUFFICES ASSUME NEW w \in Workers PROVE StateReportable(worker[w])'
  OBVIOUS
<1>1. CASE worker'[w] = worker[w]
  <2>1. PICK s \in WorkerStates : s = worker[w]
    BY DEF TypeOK
  <2>2. StateReportable(s)'
    BY <2>1, ReportableKept
  <2> QED  BY <1>1, <2>1, <2>2 DEF StateReportable
<1>2. CASE worker'[w].pc \in {"idle", "save"}
  BY <1>2 DEF StateReportable
<1> QED  BY <1>1, <1>2

\* An observing step keeps what the refinement needs.
LEMMA ObserveKeeps ==
    ASSUME Inv, Inv', FeedInv, ObserveShape
    PROVE  FeedInv'
<1>t. /\ TypeOK /\ Store /\ HistoryInv' /\ RowInv
      /\ \A d \in Devices : Touches(d) \subseteq Touches(d)' /\ Baseline(d)' = Baseline(d)
  BY DEF Inv, FeedInv, TypeOK, Store, ObserveShape
<1>1. RowInv'
  <2> SUFFICES ASSUME NEW r \in feed
               PROVE  r.prev < r.commit /\ r.commit \in Touches(r.device)'
    BY DEF RowInv, ObserveShape
  <2>1. PICK d \in Devices : d = r.device
    BY <1>t DEF TypeOK
  <2>2. r.prev < r.commit /\ r.commit \in Touches(d)'
    BY <1>t, <2>1 DEF RowInv
  <2> QED  BY <2>1, <2>2
<1>2. Grows
  BY <1>t, BaselineType DEF Grows, Store
<1>3. \A w \in Workers : StateReportable(worker[w])'
  BY <1>t, <1>2, WorkersReportable DEF FeedInv, ObserveShape, WorkersFit, StateSaved
<1>4. ASSUME NEW d \in Devices, NEW n \in Touches(d), Final(d, n)
      PROVE  Final(d, n)'
  BY <1>t, <1>4, FinalKept
<1>5. ASSUME NEW w \in Workers, worker[w].pc = "notify"
      PROVE  /\ worker[w].device \in Devices
             /\ worker[w].commit \in Touches(worker[w].device)
             /\ Final(worker[w].device, worker[w].commit)
  <2>1. worker[w] \in WorkerStates
    BY <1>t DEF TypeOK
  <2>2. worker[w].device \in Devices
    BY <1>5, <2>1 DEF WorkerStates, Idle
  <2> QED  BY <1>5, <2>2 DEF FeedInv, FinalInv, StateReportable
<1>6. ASSUME NEW r \in notified'
      PROVE  Final(r.device, r.commit)'
  <2>1. PICK d \in Devices :
            d = r.device /\ r.commit \in Touches(d) /\ Final(d, r.commit)
    <3>1. CASE r \in notified
      BY <1>t, <3>1 DEF TypeOK, FeedInv, RowInv, FinalInv
    <3>2. CASE \E w \in Workers : worker[w].pc = "notify" /\ r = RowOf(worker[w])
      BY <1>5, <3>2 DEF RowOf, Row
    <3> QED  BY <1>6, <3>1, <3>2 DEF ObserveShape, NotifiedFit
  <2>2. PICK n \in Touches(d) : n = r.commit
    BY <2>1
  <2>3. Final(d, n)'
    BY <1>4, <2>1, <2>2
  <2> QED  BY <2>1, <2>2, <2>3 DEF Final
<1>7. ASSUME NEW w \in Workers, worker'[w].pc = "notify"
      PROVE  Final(worker[w].device, worker[w].commit)'
  <2>1. worker'[w] = worker[w]
    BY <1>7 DEF ObserveShape, WorkersFit, StateSaved
  <2>2. PICK d \in Devices : d = worker[w].device
    BY <1>5, <1>7, <2>1
  <2>3. PICK n \in Touches(d) : n = worker[w].commit
    BY <1>5, <1>7, <2>1, <2>2
  <2>4. Final(d, n)'
    BY <1>4, <1>5, <1>7, <2>1, <2>2, <2>3
  <2> QED  BY <2>1, <2>2, <2>3, <2>4 DEF Final
<1> QED  BY <1>1, <1>3, <1>6, <1>7 DEF FeedInv, FinalInv

\* A worker that records or acknowledges holds a stretch of its device's
\* history that starts at an accounted commit its baseline has reached.
LEMMA WorkerHolds ==
    ASSUME Inv, FeedInv, NEW w \in Workers, NEW pc \in {"record", "mark"}, worker[w].pc = pc
    PROVE  \E d \in Devices, p \in Nat, h \in Nat \ {0} :
              /\ worker[w] = [pc |-> pc, device |-> d, prev |-> p, commit |-> h]
              /\ Accounted(d, p)
              /\ p < h /\ h \in Touches(d) /\ p <= Baseline(d)
              /\ pc = "mark" => Row(d, p, h) \in feed
<1>1. PICK d \in Devices, p \in Nat, h \in Nat \ {0} :
          worker[w] = [pc |-> pc, device |-> d, prev |-> p, commit |-> h]
  <2>1. worker[w] \in WorkerStates
    BY DEF Inv, TypeOK
  <2> QED  BY <2>1 DEF WorkerStates, Idle
<1>2. Accounted(d, p) /\ (pc = "mark" => Row(d, p, h) \in feed)
  BY <1>1 DEF Inv, WorkerInv, StateAccounted, RowOf
<1>3. p < h /\ h \in Touches(d) /\ p <= Baseline(d)
  BY <1>1 DEF FeedInv, StateReportable
<1> QED  BY <1>1, <1>2, <1>3

\* Recording a row keeps what the refinement needs.
LEMMA RecordKeeps ==
    ASSUME Inv, FeedInv, NEW w \in Workers, RecordChange(w)
    PROVE  FeedInv'
<1>t. TypeOK /\ Store
  BY DEF Inv, TypeOK, Store
<1>1. PICK d \in Devices, p \in Nat, h \in Nat \ {0} :
          /\ worker[w] = [pc |-> "record", device |-> d, prev |-> p, commit |-> h]
          /\ p < h /\ h \in Touches(d) /\ p <= Baseline(d)
  BY WorkerHolds DEF RecordChange
<1>2. /\ feed' = feed \cup {Row(d, p, h)}
      /\ Becomes(w, [pc |-> "mark", device |-> d, prev |-> p, commit |-> h])
      /\ UNCHANGED <<storeVars, notified>>
  BY <1>1 DEF RecordChange, RowOf
<1>3. \A e \in Devices : /\ Touches(e)' = Touches(e)
                         /\ Baseline(e)' = Baseline(e)
                         /\ LastCommitFor(e)' = LastCommitFor(e)
  BY <1>2, SameStore
<1>4. RowInv'
  <2> SUFFICES ASSUME NEW r \in feed'
               PROVE  r.prev < r.commit /\ r.commit \in Touches(r.device)'
    BY DEF RowInv
  <2>1. PICK e \in Devices : e = r.device
    BY <1>t, <1>2 DEF TypeOK, Row
  <2>2. r.prev < r.commit /\ r.commit \in Touches(e)
    BY <1>1, <1>2, <2>1 DEF FeedInv, RowInv, Row
  <2> QED  BY <1>3, <2>1, <2>2
<1>5. worker'[w] = [pc |-> "mark", device |-> d, prev |-> p, commit |-> h]
  BY <1>t, <1>2 DEF Becomes, TypeOK
<1>6. \A v \in Workers : v # w => worker'[v] = worker[v]
  BY <1>t, <1>2 DEF Becomes, TypeOK
<1>7. \A v \in Workers : StateReportable(worker[v])'
  <2>1. Grows
    BY <1>t, <1>3, BaselineType DEF Grows, Store
  <2>2. StateReportable(worker[w])'
    BY <1>1, <1>3, <1>5 DEF StateReportable
  <2> QED  BY <1>t, <1>6, <2>1, <2>2, WorkersReportable DEF FeedInv
<1>8. ASSUME NEW r \in notified'
      PROVE  Final(r.device, r.commit)'
  <2>1. PICK e \in Devices : e = r.device
    BY <1>t, <1>2, <1>8 DEF TypeOK
  <2>2. Final(e, r.commit)
    BY <1>2, <1>8, <2>1 DEF FeedInv, FinalInv
  <2> QED  BY <1>3, <2>1, <2>2 DEF Final
<1>9. ASSUME NEW v \in Workers, worker'[v].pc = "notify"
      PROVE  Final(worker[v].device, worker[v].commit)'
  <2>1. worker'[v] = worker[v] /\ worker[v] \in WorkerStates
    BY <1>t, <1>5, <1>6, <1>9 DEF TypeOK
  <2>2. PICK e \in Devices : e = worker[v].device
    BY <1>9, <2>1 DEF WorkerStates, Idle
  <2>3. Final(e, worker[v].commit)
    BY <1>9, <2>1, <2>2 DEF FeedInv, FinalInv
  <2> QED  BY <1>3, <2>1, <2>2, <2>3 DEF Final
<1> QED  BY <1>4, <1>7, <1>8, <1>9 DEF FeedInv, FinalInv

\* So does an acknowledgement, taken or not.
LEMMA MarkKeeps ==
    ASSUME Inv, FeedInv, NEW w \in Workers, MarkSnapshot(w)
    PROVE  FeedInv'
<1>t. TypeOK /\ Store /\ RowInv
  BY DEF Inv, TypeOK, Store, FeedInv
<1>1. PICK d \in Devices, p \in Nat, h \in Nat \ {0} :
          /\ worker[w] = [pc |-> "mark", device |-> d, prev |-> p, commit |-> h]
          /\ p < h /\ h \in Touches(d) /\ p <= Baseline(d)
  BY WorkerHolds DEF MarkSnapshot
<1>2. /\ MarkProcessed(d, h)
      /\ Becomes(w, [pc |-> "notify", device |-> d, prev |-> p, commit |-> h])
      /\ UNCHANGED <<feed, notified>>
  BY <1>1 DEF MarkSnapshot
<1>3. \A e \in Devices :
          /\ Touches(e)' = Touches(e)
          /\ LastCommitFor(e)' = LastCommitFor(e)
          /\ Baseline(e)' = IF e = d /\ h = LastCommitFor(d) THEN h ELSE Baseline(e)
  BY <1>t, <1>2, MarkAcknowledges
<1>4. Grows
  BY <1>t, <1>3, BaselineBehind DEF Grows
<1>5. RowInv'
  <2> SUFFICES ASSUME NEW r \in feed
               PROVE  r.prev < r.commit /\ r.commit \in Touches(r.device)'
    BY <1>2 DEF RowInv
  <2>1. PICK e \in Devices : e = r.device
    BY <1>t DEF TypeOK
  <2>2. r.prev < r.commit /\ r.commit \in Touches(e)
    BY <1>t, <2>1 DEF RowInv
  <2> QED  BY <1>3, <2>1, <2>2
<1>6. worker'[w] = [pc |-> "notify", device |-> d, prev |-> p, commit |-> h]
  BY <1>t, <1>2 DEF Becomes, TypeOK
<1>7. \A v \in Workers : v # w => worker'[v] = worker[v]
  BY <1>t, <1>2 DEF Becomes, TypeOK
<1>8. \A v \in Workers : StateReportable(worker[v])'
  <2>1. p <= Baseline(d)'
    BY <1>t, <1>1, <1>3
  <2>2. StateReportable(worker[w])'
    BY <1>1, <1>3, <1>6, <2>1 DEF StateReportable
  <2> QED  BY <1>t, <1>4, <1>7, <2>2, WorkersReportable DEF FeedInv
<1>9. ASSUME NEW e \in Devices, NEW n, Final(e, n)
      PROVE  Final(e, n)'
  BY <1>3, <1>9 DEF Final
<1>10. ASSUME NEW r \in notified'
       PROVE  Final(r.device, r.commit)'
  <2>1. PICK e \in Devices : e = r.device
    BY <1>t, <1>2, <1>10 DEF TypeOK
  <2>2. Final(e, r.commit)
    BY <1>2, <1>10, <2>1 DEF FeedInv, FinalInv
  <2>3. Final(e, r.commit)'
    BY <1>9, <2>2
  <2> QED  BY <2>1, <2>3 DEF Final
<1>11. Final(d, h)'
  BY <1>3 DEF Final
<1>12. ASSUME NEW v \in Workers, worker'[v].pc = "notify"
       PROVE  Final(worker[v].device, worker[v].commit)'
  <2>1. CASE v = w
    BY <1>6, <1>11, <2>1 DEF Final
  <2>2. CASE v # w
    <3>1. worker'[v] = worker[v] /\ worker[v] \in WorkerStates
      BY <1>t, <1>7, <2>2 DEF TypeOK
    <3>2. PICK e \in Devices : e = worker[v].device
      BY <1>12, <3>1 DEF WorkerStates, Idle
    <3>3. PICK n : n = worker[v].commit
      OBVIOUS
    <3>4. Final(e, n)
      BY <1>12, <3>1, <3>2, <3>3 DEF FeedInv, FinalInv
    <3>5. Final(e, n)'
      BY <1>9, <3>4
    <3> QED  BY <3>1, <3>2, <3>3, <3>5 DEF Final
  <2> QED  BY <2>1, <2>2
<1> QED  BY <1>5, <1>8, <1>10, <1>12 DEF FeedInv, FinalInv

LEMMA InitFeedInv == Init => FeedInv
<1> SUFFICES ASSUME Init PROVE FeedInv
  OBVIOUS
<1>1. RowInv
  <2> SUFFICES ASSUME NEW r \in feed
               PROVE  r.prev < r.commit /\ r.commit \in Touches(r.device)
    BY DEF RowInv
  <2>1. PICK n \in 1..Len(Legacy) : r = Row(Legacy[n], 0, n)
    BY DEF Init
  <2>2. Legacy[n] \in Devices
    BY StoreAssumption
  <2>3. n \in Touches(Legacy[n])
    BY <2>2, LegacyTouches
  <2> QED  BY <2>1, <2>3 DEF Row
<1>2. \A w \in Workers : worker[w].pc = "idle"
  BY DEF Init, Idle
<1> QED  BY <1>1, <1>2 DEF FeedInv, FinalInv, StateReportable, Init

LEMMA NextFeedInv == Inv /\ FeedInv /\ [Next]_vars => FeedInv'
<1> SUFFICES ASSUME Inv, FeedInv, [Next]_vars PROVE FeedInv'
  OBVIOUS
<1>1. Inv'
  BY NextInv
<1> QED  BY <1>1, StepShape, ObserveKeeps, RecordKeeps, MarkKeeps

\* Rows and workers name commits of their device beyond a baseline it has
\* reached, and what was notified is acknowledged or superseded.
THEOREM FeedInvariance == Spec => []FeedInv
  BY Invariance, InitFeedInv, NextFeedInv, PTL DEF Spec

----------------------------------------------------------------------------
\* ChangeProcessing implements ChangeFeed

USE DEF Feed!Row, Feed!Reached

LEMMA InitMaps == Init => Feed!Init
<1> SUFFICES ASSUME Init PROVE Feed!Init
  OBVIOUS
<1>t. Inv /\ Store /\ RowInv
  BY InitInv, InitFeedInv DEF Inv, TypeOK, Store, FeedInv
<1>1. \A d \in Devices :
          /\ Baseline(d) \in Nat /\ LastCommitFor(d) \in Nat
          /\ Baseline(d) <= LastCommitFor(d)
          /\ Accounted(d, Baseline(d))
  BY <1>t, BaselineBehind DEF Store, CursorInv
<1>2. \A r \in feed : r.prev = 0
  BY DEF Init, Row
<1> QED  BY <1>1, <1>2 DEF Feed!Init, Accounted

LEMMA NextMaps == Inv /\ FeedInv /\ [Next]_vars => [Feed!Next]_Feed!vars
<1> SUFFICES ASSUME Inv, FeedInv, [Next]_vars PROVE [Feed!Next]_Feed!vars
  OBVIOUS
<1>t. Store /\ RowInv /\ HistoryInv' /\ TypeOK
  BY NextInv DEF Inv, TypeOK, Store, FeedInv
<1>1. CASE ObserveShape
  <2>1. \A d \in Devices : /\ Baseline(d)' = Baseline(d)
                           /\ LastCommitFor(d)' \in Nat
                           /\ LastCommitFor(d) <= LastCommitFor(d)'
    BY <1>t, <1>1, LastCommitGrows DEF ObserveShape, Store
  <2>2. feed' = feed
    BY <1>1 DEF ObserveShape
  <2>3. Feed!Observe
    BY <2>1, <2>2 DEF Feed!Observe
  <2> QED  BY <2>3 DEF Feed!Next
<1>2. ASSUME NEW w \in Workers, RecordChange(w)
      PROVE  Feed!Next
  <2>1. PICK d \in Devices, p \in Nat, h \in Nat \ {0} :
            /\ worker[w] = [pc |-> "record", device |-> d, prev |-> p, commit |-> h]
            /\ Accounted(d, p)
            /\ p < h /\ h \in Touches(d) /\ p <= Baseline(d)
    BY <1>2, WorkerHolds DEF RecordChange
  <2>2. feed' = feed \cup {Row(d, p, h)} /\ UNCHANGED storeVars
    BY <1>2, <2>1 DEF RecordChange, RowOf
  <2>3. \A e \in Devices : Baseline(e)' = Baseline(e) /\ LastCommitFor(e)' = LastCommitFor(e)
    BY <2>2, SameStore
  <2>4. h \in 1..LastCommitFor(d)
    BY <1>t, <2>1, LastCommitType DEF Store
  <2>5. p \in Feed!Reached(d)
    BY <2>1 DEF Accounted
  <2>6. Feed!Report(d)
    BY <2>1, <2>2, <2>3, <2>4, <2>5 DEF Feed!Report, Row
  <2> QED  BY <2>6 DEF Feed!Next
<1>3. ASSUME NEW w \in Workers, MarkSnapshot(w)
      PROVE  [Feed!Next]_Feed!vars
  <2>1. PICK d \in Devices, p \in Nat, h \in Nat \ {0} :
            /\ worker[w] = [pc |-> "mark", device |-> d, prev |-> p, commit |-> h]
            /\ Row(d, p, h) \in feed
    BY <1>3, WorkerHolds DEF MarkSnapshot
  <2>2. MarkProcessed(d, h) /\ feed' = feed
    BY <1>3, <2>1 DEF MarkSnapshot
  <2>3. \A e \in Devices :
            /\ LastCommitFor(e)' = LastCommitFor(e)
            /\ Baseline(e)' = IF e = d /\ h = LastCommitFor(d) THEN h ELSE Baseline(e)
    BY <1>t, <2>2, MarkAcknowledges
  <2>4. CASE h = LastCommitFor(d)
    <3>1. LastCommitFor(d) \in Feed!Reached(d)
      BY <2>1, <2>4 DEF Row
    <3>2. Feed!Acknowledge(d)
      BY <2>2, <2>3, <2>4, <3>1 DEF Feed!Acknowledge
    <3> QED  BY <3>2 DEF Feed!Next
  <2>5. CASE h # LastCommitFor(d)
    BY <2>2, <2>3, <2>5 DEF Feed!vars
  <2> QED  BY <2>4, <2>5
<1> QED  BY <1>1, <1>2, <1>3, StepShape

\* For any number of devices, requests, crashes and failures, what the worker,
\* git and cursor files do is, seen from outside, what ChangeFeed does.
THEOREM Implementation == Spec => ImplementsFeed
<1>1. Spec => Feed!Spec
  BY InitMaps, NextMaps, Invariance, FeedInvariance, PTL DEF Spec, Feed!Spec
<1> QED  BY <1>1 DEF ImplementsFeed

----------------------------------------------------------------------------
\* What no step may do

\* A cursor, as Save would read it, never moves back, whatever late, repeated
\* or superseded acknowledgements arrive.
THEOREM CursorMonotone == Spec => CursorNeverRegresses
<1>1. Inv /\ FeedInv /\ [Next]_vars => [\A d \in Devices : Acked(d) <= Acked(d)']_vars
  <2> SUFFICES ASSUME Inv, FeedInv, [Next]_vars, NEW d \in Devices
               PROVE  Baseline(d) <= Baseline(d)'
    BY DEF Acked
  <2>t. /\ Store
        /\ Baseline(d) \in Nat /\ LastCommitFor(d) \in Nat
        /\ Baseline(d) <= LastCommitFor(d)
    BY BaselineBehind DEF Inv, TypeOK, Store, FeedInv
  <2>1. CASE ObserveShape
    BY <2>t, <2>1 DEF ObserveShape
  <2>2. ASSUME NEW w \in Workers, RecordChange(w)
        PROVE  Baseline(d) <= Baseline(d)'
    BY <2>t, <2>2, SameStore DEF RecordChange
  <2>3. ASSUME NEW w \in Workers, MarkSnapshot(w)
        PROVE  Baseline(d) <= Baseline(d)'
    <3>1. PICK e \in Devices, h \in Nat : MarkProcessed(e, h)
      <4>1. PICK e \in Devices, p \in Nat, h \in Nat \ {0} :
                worker[w] = [pc |-> "mark", device |-> e, prev |-> p, commit |-> h]
        <5>1. worker[w].pc = "mark"
          BY <2>3 DEF MarkSnapshot
        <5> QED  BY <5>1, WorkerHolds
      <4>2. MarkProcessed(e, h)
        BY <2>3, <4>1 DEF MarkSnapshot
      <4> QED  BY <4>2
    <3>2. Baseline(d)' = IF d = e /\ h = LastCommitFor(e) THEN h ELSE Baseline(d)
      BY <2>t, <3>1, MarkAcknowledges
    <3> QED  BY <2>t, <3>2
  <2> QED  BY <2>1, <2>2, <2>3, StepShape
<1> QED  BY <1>1, Invariance, FeedInvariance, PTL DEF Spec, CursorNeverRegresses

\* Worker w's Save hands out a commit the notifiers were given.
Again(w) ==
    /\ worker[w].pc = "save" /\ worker'[w].pc = "record"
    /\ \E r \in notified :
          r.device = worker'[w].device /\ r.commit = worker'[w].commit

LEMMA NeverAgain ==
    ASSUME Inv, FeedInv, [Next]_vars, NEW w \in Workers
    PROVE  ~Again(w)
<1> SUFFICES ASSUME Again(w) PROVE FALSE
  OBVIOUS
<1>t. TypeOK /\ Inv' /\ FeedInv'
  BY NextInv, NextFeedInv DEF Inv
<1>1. CASE ObserveShape
  <2>1. PICK r \in notified :
            r.device = worker'[w].device /\ r.commit = worker'[w].commit
    BY DEF Again
  <2>2. StateSaved(worker[w])' /\ r \in notified'
    BY <1>1, <2>1 DEF ObserveShape, WorkersFit, NotifiedFit, Again
  <2>3. PICK d \in Devices : d = r.device
    BY <1>t, <2>1 DEF TypeOK
  <2>4. Final(d, r.commit)'
    BY <1>t, <2>2, <2>3 DEF FeedInv, FinalInv, Final
  <2>5. /\ r.commit = LastCommitFor(d)' /\ worker'[w].prev = Baseline(d)'
        /\ worker'[w].prev < r.commit
    BY <2>1, <2>2, <2>3 DEF StateSaved, StateReportable
  <2>6. worker'[w].prev \in Nat
    BY <1>t, <2>2 DEF Inv, TypeOK, WorkerStates, Idle, StateSaved
  <2> QED  BY <2>4, <2>5, <2>6 DEF Final
<1>2. ASSUME NEW v \in Workers, RecordChange(v) \/ MarkSnapshot(v)
      PROVE  FALSE
  <2>1. worker[v].pc # "save" /\ (v # w => worker'[w] = worker[w])
    BY <1>t, <1>2 DEF RecordChange, MarkSnapshot, Becomes, TypeOK
  <2> QED  BY <2>1 DEF Again
<1> QED  BY <1>1, <1>2, StepShape

\* Once the notifiers were given a commit, no Save hands it out again.
THEOREM NotifiedFinal == Spec => NotifiedIsFinal
<1>1. Inv /\ FeedInv /\ [Next]_vars => [\A w \in Workers : ~Again(w)]_vars
  BY NeverAgain
<1>2. (\A w \in Workers : ~Again(w)) =>
          \A w \in Workers :
             worker[w].pc = "save" /\ worker'[w].pc = "record"
                => \A r \in notified :
                      r.device = worker'[w].device => r.commit # worker'[w].commit
  BY DEF Again
<1> QED  BY <1>1, <1>2, Invariance, FeedInvariance, PTL DEF Spec, NotifiedIsFinal

----------------------------------------------------------------------------
\* Baselines can be read

\* No commit removes a file, and none is about to: what is in a device's log
\* holds its file, and the index has the files HEAD has.
FilesInv ==
    \A d \in Devices :
        /\ \A n \in Touches(d) : FileAt(d, n) # NoFile
        /\ HeadContent(d) # NoFile => staged[d] # NoFile

\* A device's staged file is only ever replaced by a configuration.
StagesFiles == \A d \in Devices : staged'[d] = staged[d] \/ staged'[d] # NoFile

LEMMA FilesKept ==
    ASSUME StoreTypeOK, FilesInv, HistoryStep, StagesFiles
    PROVE  FilesInv'
<1> SUFFICES ASSUME NEW d \in Devices
             PROVE  /\ \A n \in Touches(d)' : FileAt(d, n)' # NoFile
                    /\ HeadContent(d)' # NoFile => staged'[d] # NoFile
  BY DEF FilesInv
<1>1. /\ \A n \in Touches(d) : FileAt(d, n) # NoFile
      /\ HeadContent(d) # NoFile => staged[d] # NoFile
      /\ staged'[d] = staged[d] \/ staged'[d] # NoFile
  BY DEF FilesInv, StagesFiles
<1>2. CASE commits' = commits
  <2>1. HeadContent(d)' = HeadContent(d) /\ Touches(d)' = Touches(d)
    BY <1>2 DEF HeadContent, Touches, FileAt
  <2>2. \A n \in Touches(d) : FileAt(d, n)' = FileAt(d, n)
    BY <1>2 DEF FileAt
  <2> QED  BY <1>1, <2>1, <2>2
<1>3. ASSUME NEW c \in [device : Devices, tree : Trees],
             commits' = Append(commits, c), c.tree = staged'
      PROVE  /\ \A n \in Touches(d)' : FileAt(d, n)' # NoFile
             /\ HeadContent(d)' # NoFile => staged'[d] # NoFile
  <2>1. /\ Len(commits') = Len(commits) + 1
        /\ HeadContent(d)' = staged'[d]
        /\ \A n \in 0..Len(commits) : FileAt(d, n)' = FileAt(d, n)
        /\ staged'[d] = HeadContent(d) => Touches(d)' = Touches(d)
        /\ staged'[d] # HeadContent(d) => Touches(d)' = Touches(d) \cup {Len(commits) + 1}
    BY <1>3, AppendTouches
  <2>2. Touches(d) \subseteq 0..Len(commits)
    BY DEF Touches, StoreTypeOK
  <2>3. \A n \in Nat : n = Len(commits) + 1 => FileAt(d, n)' = staged'[d]
    BY <1>3 DEF FileAt, StoreTypeOK
  <2>4. ASSUME NEW n \in Touches(d)'
        PROVE  FileAt(d, n)' # NoFile
    <3>1. CASE n \in Touches(d)
      BY <1>1, <2>1, <2>2, <3>1
    <3>2. CASE n \notin Touches(d)
      <4>1. n = Len(commits) + 1 /\ n \in Nat /\ staged'[d] # HeadContent(d)
        BY <2>1, <2>4, <3>2 DEF StoreTypeOK
      <4>2. staged'[d] # NoFile
        BY <1>1, <4>1
      <4> QED  BY <2>3, <4>1, <4>2
    <3> QED  BY <3>1, <3>2
  <2>5. HeadContent(d)' # NoFile => staged'[d] # NoFile
    BY <2>1
  <2> QED  BY <2>4, <2>5
<1> QED  BY <1>2, <1>3 DEF HistoryStep

LEMMA InitFilesInv == Init => FilesInv
<1> SUFFICES ASSUME Init, NEW d \in Devices
             PROVE  /\ \A n \in Touches(d) : FileAt(d, n) # NoFile
                    /\ HeadContent(d) # NoFile => staged[d] # NoFile
  BY DEF FilesInv
<1>1. /\ staged[d] = HeadContent(d)
      /\ Touches(d) = {n \in 1..Len(Legacy) : Legacy[n] = d}
  BY LegacyTouches
<1>2. ASSUME NEW n \in Touches(d)
      PROVE  FileAt(d, n) # NoFile
  <2>1. n \in 1..Len(Legacy) /\ Legacy[n] = d /\ Len(Legacy) \in Nat
    BY <1>1, StoreAssumption
  <2>2. commits[n].tree = LegacyTree(n)
    BY <2>1 DEF Init, StoreInit
  <2>3. LegacyTree(n)[d] = LegacyContent
    BY <2>1 DEF LegacyTree
  <2> QED  BY <2>1, <2>2, <2>3, StoreAssumption DEF FileAt
<1> QED  BY <1>1, <1>2

LEMMA NextFilesInv == Inv /\ FilesInv /\ [Next]_vars => FilesInv'
<1> SUFFICES ASSUME Inv, FilesInv, [Next]_vars PROVE FilesInv'
  OBVIOUS
<1>t. TypeOK /\ StoreTypeOK /\ HistoryInv /\ CursorInv
  BY DEF Inv, TypeOK
<1>1. CASE UNCHANGED <<commits, staged>>
  BY <1>1, <1>t, FilesKept DEF HistoryStep, StagesFiles
<1>2. ASSUME NEW w \in Workers, SaveSnapshot(w) \/ SaveFails(w)
      PROVE  FilesInv'
  <2>1. PICK d \in Devices, c \in Contents :
            Save(d, c) \/ SaveStopsUnstaged(d) \/ SaveStopsStaged(d, c)
    <3>1. worker[w] \in WorkerStates /\ worker[w].pc = "save"
      BY <1>2, <1>t DEF SaveSnapshot, SaveFails, TypeOK
    <3>2. worker[w].device \in Devices /\ worker[w].content \in Contents
      BY <3>1 DEF WorkerStates, Idle
    <3> QED  BY <1>2, <3>2 DEF SaveSnapshot, SaveFails
  <2>2. HistoryStep
    BY <1>2, <1>t, <2>1, SaveKept DEF SaveSnapshot, SaveFails
  <2>3. StagesFiles
    BY <1>t, <2>1, StoreAssumption
       DEF Save, SaveIdentical, SaveCommit, SaveStopsUnstaged, SaveStopsStaged, StoreTypeOK, StagesFiles
  <2> QED  BY <1>t, <2>2, <2>3, FilesKept
<1>3. ASSUME NEW w \in Workers, MarkSnapshot(w)
      PROVE  FilesInv'
  BY <1>1, <1>3 DEF MarkSnapshot, MarkProcessed, storeVars
<1> QED
  BY <1>1, <1>2, <1>3
     DEF Next, WorkerStep, WorkerFails, Fetch, RecordChange, RecordRefused, Notify, RecordFails,
         MarkFails, Crash, EditDevice, DeleteDevice, CreateDevice, storeVars, vars

\* Whatever a Save diffs against, after any crash between cursor, index and
\* commit, is a commit that holds the device's file.
THEOREM BaselineReadable == Spec => []BaselineHasFile
<1>1. Spec => []FilesInv
  BY Invariance, InitFilesInv, NextFilesInv, PTL DEF Spec
<1>2. Inv /\ FeedInv /\ FilesInv => BaselineHasFile
  BY DEF Inv, CursorInv, Accounted, FeedInv, RowInv, FilesInv, BaselineHasFile, Acked
<1> QED  BY <1>1, <1>2, Invariance, FeedInvariance, PTL

----------------------------------------------------------------------------
\* Recorded once

\* The poll loop of device d has no rival: nothing of the device is staged and
\* uncommitted, the loop carries the newest commit of its own device, and every
\* row of the device is acknowledged, save one the loop is about to.
Alone(d) ==
    /\ staged[d] = HeadContent(d)
    /\ worker[d].pc # "idle" => worker[d].device = d
    /\ worker[d].pc \in {"record", "mark"} => worker[d].commit = LastCommitFor(d)
    /\ worker[d].pc = "record" => Baseline(d) < worker[d].commit
    /\ \A r \in feed : r.device = d =>
          \/ r.commit <= Baseline(d)
          \/ worker[d].pc = "mark" /\ r.commit = worker[d].commit

OnceInv == failures = 0 => \A d \in Devices : Alone(d)

\* What a step does not touch of device d and its poll loop.
Leaves(d) ==
    /\ staged'[d] = HeadContent(d)'
    /\ LastCommitFor(d)' = LastCommitFor(d)
    /\ Baseline(d)' = Baseline(d)
    /\ \A r \in feed' : r.device = d => r \in feed

LEMMA AloneKept ==
    ASSUME NEW d \in Devices, Alone(d), Leaves(d), worker'[d] = worker[d]
    PROVE  Alone(d)'
  BY DEF Alone, Leaves

\* A step of the loop that has nothing left to record or acknowledge.
LEMMA AloneMoves ==
    ASSUME NEW d \in Devices, Alone(d), Leaves(d), worker[d].pc # "mark",
           worker'[d].pc \notin {"record", "mark"},
           worker'[d].pc # "idle" => worker'[d].device = d
    PROVE  Alone(d)'
  BY DEF Alone, Leaves

LEMMA StoreLeft ==
    ASSUME NEW d \in Devices, Alone(d), UNCHANGED storeVars,
           \A r \in feed' : r.device = d => r \in feed
    PROVE  Leaves(d)
<1>1. staged'[d] = HeadContent(d)'
  BY DEF Alone, storeVars, HeadContent, FileAt
<1> QED  BY <1>1, SameStore DEF Leaves

\* A Save stages and commits its own device only.
LEMMA SaveLeaves ==
    ASSUME Store, NEW e \in Devices, NEW c \in Contents, Save(e, c), UNCHANGED feed,
           \A d \in Devices : staged[d] = HeadContent(d)
    PROVE  /\ \A d \in Devices : staged'[d] = HeadContent(d)'
           /\ \A d \in Devices \ {e} : Leaves(d)
<1>b. \A d \in Devices : Baseline(d)' = Baseline(d)
  BY SaveObserves
<1>1. CASE SaveIdentical(e, c)
  <2>1. \A d \in Devices : /\ staged'[d] = HeadContent(d)'
                           /\ LastCommitFor(d)' = LastCommitFor(d)
    BY <1>1 DEF SaveIdentical, HeadContent, LastCommitFor, Touches, FileAt
  <2> QED  BY <1>b, <2>1 DEF Leaves
<1>2. CASE SaveCommit(e, c)
  <2>1. PICK r \in [device : Devices, tree : Trees] :
            commits' = Append(commits, r) /\ r.tree = staged'
    <3>1. staged' \in Trees
      BY <1>2 DEF SaveCommit, Store, StoreTypeOK
    <3>2. [device |-> e, tree |-> staged'] \in [device : Devices, tree : Trees]
      BY <3>1
    <3> QED  BY <1>2, <3>2 DEF SaveCommit
  <2>2. \A d \in Devices :
            /\ HeadContent(d)' = staged'[d]
            /\ staged'[d] = HeadContent(d) => Touches(d)' = Touches(d)
    BY <2>1, AppendTouches DEF Store
  <2>3. \A d \in Devices \ {e} : staged'[d] = HeadContent(d)
    BY <1>2 DEF SaveCommit, Store, StoreTypeOK
  <2>4. \A d \in Devices \ {e} : LastCommitFor(d)' = LastCommitFor(d)
    BY <2>2, <2>3 DEF LastCommitFor
  <2> QED  BY <1>b, <2>2, <2>4 DEF Leaves
<1> QED  BY <1>1, <1>2 DEF Save

LEMMA InitOnceInv == Init => OnceInv
<1> SUFFICES ASSUME Init, NEW d \in Devices PROVE Alone(d)
  BY DEF OnceInv
<1>t. Store /\ RowInv /\ TypeOK
  BY InitInv, InitFeedInv DEF Inv, TypeOK, Store, FeedInv
<1>1. staged[d] = HeadContent(d)
  BY LegacyTouches
<1>2. worker[d].pc = "idle"
  BY DEF Init, Idle, Workers
<1>3. ASSUME NEW r \in feed, r.device = d
      PROVE  r.commit <= Baseline(d)
  <2>1. PICK n \in 1..Len(Legacy) :
            r = Row(Legacy[n], 0, n) /\ sidecar[Legacy[n]].status = "none"
    BY DEF Init
  <2>2. Legacy[n] = d /\ r.commit = n
    BY <1>3, <2>1 DEF Row
  <2>3. Baseline(d) = LastCommitFor(d)
    BY <2>1, <2>2 DEF Baseline, LoadCursor, Init, StoreInit
  <2>4. n \in Touches(d)
    BY <2>2, LegacyTouches
  <2> QED  BY <1>t, <2>2, <2>3, <2>4, LastCommitType DEF Store
<1> QED  BY <1>1, <1>2, <1>3 DEF Alone

LEMMA NextOnceInv ==
    ASSUME Requests = {}, Inv, FeedInv, OnceInv, [Next]_vars
    PROVE  OnceInv'
<1> SUFFICES ASSUME failures' = 0 PROVE \A d \in Devices : Alone(d)'
  BY DEF OnceInv
<1>t. /\ TypeOK /\ Store /\ RowInv /\ Workers = Devices
      /\ failures \in Nat
  BY ProcessingAssumption DEF Inv, FeedInv, TypeOK, Store, Workers
<1>z. failures = 0
  <2>1. failures' = failures \/ failures' = failures + 1
    BY DEF Next, WorkerStep, WorkerFails, Failing, Fetch, SaveSnapshot, RecordChange,
           RecordRefused, MarkSnapshot, Notify, SaveFails, RecordFails, MarkFails, Crash,
           EditDevice, DeleteDevice, CreateDevice, vars
  <2> QED  BY <1>t, <2>1
<1>a. \A d \in Devices : Alone(d)
  BY <1>z DEF OnceInv
<1>f. ~Failing
  BY <1>t, <1>z DEF Failing
\* The store and the feed are left alone, and only an idling or finishing loop moves.
<1>q. ASSUME UNCHANGED <<storeVars, feed>>,
             \A d \in Devices :
                \/ worker'[d] = worker[d]
                \/ /\ worker[d].pc # "mark" /\ worker'[d].pc \notin {"record", "mark"}
                   /\ worker'[d].pc # "idle" => worker'[d].device = d
      PROVE  \A d \in Devices : Alone(d)'
  BY <1>a, <1>q, StoreLeft, AloneKept, AloneMoves
<1>1. ASSUME NEW w \in Devices, NEW d \in Devices, Fetch(w, d)
      PROVE  \A e \in Devices : Alone(e)'
  <2>1. w = d
    BY <1>1 DEF Fetch, Serves
  <2>2. /\ worker[w].pc = "idle"
        /\ worker'[w].pc = "save" /\ worker'[w].device = w
        /\ \A v \in Devices : v # w => worker'[v] = worker[v]
    BY <1>t, <1>1, <2>1 DEF Fetch, Becomes, TypeOK, Idle
  <2> QED  BY <1>1, <1>q, <2>2 DEF Fetch
<1>2. ASSUME NEW w \in Devices, SaveSnapshot(w)
      PROVE  \A d \in Devices : Alone(d)'
  <2>1. PICK c \in Contents :
            /\ Save(w, c)
            /\ Becomes(w, IF SaveChanged(w, c)
                          THEN [pc |-> "record", device |-> w,
                                prev |-> Baseline(w), commit |-> SavedCommit(w, c)]
                          ELSE Idle)
    <3>1. worker[w] \in WorkerStates /\ worker[w].pc = "save" /\ worker[w].device = w
      BY <1>2, <1>t, <1>a DEF SaveSnapshot, TypeOK, Alone
    <3>2. worker[w].content \in Contents
      BY <3>1 DEF WorkerStates, Idle
    <3> QED  BY <1>2, <3>1, <3>2 DEF SaveSnapshot
  <2>2. /\ \A d \in Devices : staged'[d] = HeadContent(d)'
        /\ \A d \in Devices \ {w} : Leaves(d)
    BY <1>t, <1>a, <1>2, <2>1, SaveLeaves DEF SaveSnapshot, Alone
  <2>3. \A d \in Devices \ {w} : worker'[d] = worker[d]
    BY <1>t, <2>1 DEF Becomes, TypeOK
  <2>4. \A d \in Devices \ {w} : Alone(d)'
    BY <1>a, <2>2, <2>3, AloneKept
  <2>5. \A r \in feed' : r.device = w => r.commit <= Baseline(w)'
    <3>1. Baseline(w)' = Baseline(w) /\ feed' = feed /\ worker[w].pc = "save"
      BY <1>t, <1>2, <2>1, SaveObserves DEF SaveSnapshot
    <3> QED  BY <1>a, <3>1 DEF Alone
  <2>6. CASE SaveChanged(w, c)
    <3>1. PICK p, h : p = Baseline(w) /\ h = SavedCommit(w, c)
      OBVIOUS
    <3>2. p < h /\ h = LastCommitFor(w)' /\ p = Baseline(w)'
      BY <1>t, <2>1, <2>6, <3>1, SaveReportable, SaveObserves
    <3>3. worker'[w] = [pc |-> "record", device |-> w, prev |-> p, commit |-> h]
      BY <1>t, <2>1, <2>6, <3>1 DEF Becomes, TypeOK
    <3>4. Alone(w)'
      BY <2>2, <2>5, <3>2, <3>3 DEF Alone
    <3> QED  BY <2>4, <3>4
  <2>7. CASE ~SaveChanged(w, c)
    <3>1. worker'[w].pc = "idle"
      BY <1>t, <2>1, <2>7 DEF Becomes, TypeOK, Idle
    <3>2. Alone(w)'
      BY <2>2, <2>5, <3>1 DEF Alone
    <3> QED  BY <2>4, <3>2
  <2> QED  BY <2>6, <2>7
<1>3. ASSUME NEW w \in Devices, RecordChange(w)
      PROVE  \A d \in Devices : Alone(d)'
  <2>1. PICK p \in Nat, h \in Nat \ {0} :
            worker[w] = [pc |-> "record", device |-> w, prev |-> p, commit |-> h]
    <3>1. worker[w] \in WorkerStates /\ worker[w].pc = "record" /\ worker[w].device = w
      BY <1>3, <1>t, <1>a DEF RecordChange, TypeOK, Alone
    <3> QED  BY <3>1 DEF WorkerStates, Idle
  <2>2. /\ feed' = feed \cup {Row(w, p, h)}
        /\ worker'[w] = [pc |-> "mark", device |-> w, prev |-> p, commit |-> h]
        /\ \A d \in Devices \ {w} : worker'[d] = worker[d]
        /\ UNCHANGED storeVars
    BY <1>3, <1>t, <2>1 DEF RecordChange, RowOf, Becomes, TypeOK
  <2>3. \A d \in Devices \ {w} : Alone(d)'
    <3>1. \A d \in Devices \ {w} : Leaves(d)
      BY <1>a, <2>2, StoreLeft DEF Row
    <3> QED  BY <1>a, <2>2, <3>1, AloneKept
  <2>4. Alone(w)'
    <3>1. staged'[w] = HeadContent(w)'
      BY <1>a, <2>2 DEF Alone, storeVars, HeadContent, FileAt
    <3>2. LastCommitFor(w)' = LastCommitFor(w) /\ Baseline(w)' = Baseline(w)
      BY <2>2, SameStore
    <3>3. h = LastCommitFor(w) /\ \A r \in feed : r.device = w => r.commit <= Baseline(w)
      BY <1>a, <2>1 DEF Alone
    <3>4. \A r \in feed' : r.device = w => r.commit <= Baseline(w) \/ r.commit = h
      BY <2>2, <3>3 DEF Row
    <3> QED  BY <2>2, <3>1, <3>2, <3>3, <3>4 DEF Alone
  <2> QED  BY <2>3, <2>4
<1>4. ASSUME NEW w \in Devices, RecordRefused(w)
      PROVE  \A d \in Devices : Alone(d)'
  <2>1. /\ worker[w].pc = "record" /\ worker'[w].pc = "idle"
        /\ \A v \in Devices : v # w => worker'[v] = worker[v]
    BY <1>t, <1>4 DEF RecordRefused, Becomes, TypeOK, Idle
  <2> QED  BY <1>4, <1>q, <2>1 DEF RecordRefused
<1>5. ASSUME NEW w \in Devices, MarkSnapshot(w)
      PROVE  \A d \in Devices : Alone(d)'
  <2>1. PICK p \in Nat, h \in Nat \ {0} :
            worker[w] = [pc |-> "mark", device |-> w, prev |-> p, commit |-> h]
    <3>1. worker[w] \in WorkerStates /\ worker[w].pc = "mark" /\ worker[w].device = w
      BY <1>5, <1>t, <1>a DEF MarkSnapshot, TypeOK, Alone
    <3> QED  BY <3>1 DEF WorkerStates, Idle
  <2>2. /\ MarkProcessed(w, h) /\ feed' = feed
        /\ worker'[w] = [pc |-> "notify", device |-> w, prev |-> p, commit |-> h]
        /\ \A d \in Devices \ {w} : worker'[d] = worker[d]
    BY <1>5, <1>t, <2>1 DEF MarkSnapshot, Becomes, TypeOK
  <2>3. h = LastCommitFor(w)
    BY <1>a, <2>1 DEF Alone
  <2>4. \A d \in Devices :
            /\ LastCommitFor(d)' = LastCommitFor(d)
            /\ Baseline(d)' = IF d = w THEN h ELSE Baseline(d)
            /\ staged'[d] = HeadContent(d)'
    <3>1. \A d \in Devices : staged'[d] = HeadContent(d)'
      BY <1>a, <2>2 DEF Alone, MarkProcessed, storeVars, HeadContent, FileAt
    <3> QED  BY <1>t, <2>2, <2>3, <3>1, MarkAcknowledges
  <2>5. \A d \in Devices \ {w} : Alone(d)'
    <3>1. \A d \in Devices \ {w} : Leaves(d)
      BY <2>2, <2>4 DEF Leaves
    <3> QED  BY <1>a, <2>2, <3>1, AloneKept
  <2>6. Alone(w)'
    <3>1. Baseline(w) \in Nat /\ Baseline(w) <= h
      BY <1>t, <2>3, BaselineBehind
    <3>2. ASSUME NEW r \in feed', r.device = w
          PROVE  r.commit <= h
      <4>1. r \in feed /\ r.commit \in Nat
        BY <1>t, <2>2, <3>2 DEF TypeOK
      <4> QED  BY <1>a, <2>1, <3>1, <3>2, <4>1 DEF Alone
    <3> QED  BY <2>2, <2>4, <3>2 DEF Alone
  <2> QED  BY <2>5, <2>6
<1>6. ASSUME NEW w \in Devices, Notify(w)
      PROVE  \A d \in Devices : Alone(d)'
  <2>1. /\ worker[w].pc = "notify" /\ worker'[w].pc = "idle"
        /\ \A v \in Devices : v # w => worker'[v] = worker[v]
    BY <1>t, <1>6 DEF Notify, Becomes, TypeOK, Idle
  <2> QED  BY <1>6, <1>q, <2>1 DEF Notify
<1>7. ASSUME UNCHANGED <<storeVars, worker, feed>>
      PROVE  \A d \in Devices : Alone(d)'
  BY <1>q, <1>7
<1>8. ASSUME NEW d \in Devices, NEW c \in Contents, EditDevice(d, c)
      PROVE  \A e \in Devices : Alone(e)'
  BY <1>7, <1>8 DEF EditDevice
<1>9. ASSUME NEW d \in Devices, DeleteDevice(d) \/ CreateDevice(d)
      PROVE  \A e \in Devices : Alone(e)'
  BY <1>7, <1>9 DEF DeleteDevice, CreateDevice
<1>10. CASE UNCHANGED vars
  BY <1>7, <1>10 DEF vars, storeVars
<1> QED
  BY <1>t, <1>f, <1>1, <1>2, <1>3, <1>4, <1>5, <1>6, <1>8, <1>9, <1>10
     DEF Next, WorkerStep, WorkerFails, SaveFails, RecordFails, MarkFails, Crash

\* With polling alone, and as long as nothing has failed, no row is inserted
\* that is there already, whatever the other devices commit meanwhile.
THEOREM RowsRecordedOnce == Requests = {} => (Spec => RecordedOnce)
<1> SUFFICES ASSUME Requests = {} PROVE Spec => RecordedOnce
  OBVIOUS
<1>1. Inv /\ FeedInv /\ OnceInv /\ [Next]_vars => OnceInv'
  BY NextOnceInv
<1>2. Inv /\ FeedInv /\ OnceInv =>
          \A w \in Devices :
             failures = 0 /\ worker[w].pc = "record" => RowOf(worker[w]) \notin feed
  <2> SUFFICES ASSUME Inv, FeedInv, OnceInv, NEW w \in Devices,
                      failures = 0, worker[w].pc = "record", RowOf(worker[w]) \in feed
               PROVE  FALSE
    OBVIOUS
  <2>1. Alone(w) /\ Store /\ RowInv
    BY DEF OnceInv, Inv, FeedInv, TypeOK, Store
  <2>2. worker[w].commit <= Baseline(w)
    BY <2>1 DEF Alone, RowOf, Row
  <2>3. Baseline(w) < worker[w].commit
    BY <2>1 DEF Alone
  <2>4. worker[w].commit \in Nat /\ Baseline(w) \in Nat
    BY <2>1, BaselineBehind, LastCommitType DEF Alone, Store
  <2> QED  BY <2>2, <2>3, <2>4
<1>3. Inv /\ FeedInv /\ OnceInv /\ [Next]_vars =>
          [\A w \in Devices :
              failures = 0 /\ worker[w].pc = "record" /\ worker'[w].pc = "mark"
                 => RowOf(worker[w]) \notin feed]_vars
  BY <1>2
<1> QED
  BY <1>1, <1>3, InitOnceInv, Invariance, FeedInvariance, PTL DEF Spec, RecordedOnce

=============================================================================
