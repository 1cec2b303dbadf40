--------------------------- MODULE DeliveryProofs ---------------------------
(***************************************************************************)
(* Proofs about Delivery: posting an event notifier by notifier, with lost *)
(* answers, retries, cancellations and crashes in between, changes nothing *)
(* of what ChangeProcessing promises.                                      *)
(***************************************************************************)
EXTENDS Delivery, ChangeFeedProofs

\* A step of worker w's fan-out.
Posting(w) == Post(w) \/ PostsCancelled(w)

\* All a post can do to the change path is to have its receiver given the row.
LEMMA PostingShape ==
    ASSUME TypeOK, NEW w \in Workers, Posting(w)
    PROVE  /\ worker[w].pc = "notify"
           /\ UNCHANGED <<storeVars, envVars, worker, feed>>
           /\ notified' = notified \/ notified' = notified \cup {RowOf(worker[w])}
           /\ failures' \in 0..MaxFailures
<1>1. CASE Post(w)
  BY <1>1 DEF Post, MayPost, TypeOK
<1>2. CASE PostsCancelled(w)
  BY <1>2, ProcessingAssumption DEF PostsCancelled, MayPost, Failing, TypeOK
<1> QED  BY <1>1, <1>2 DEF Posting

\* That row is recorded, and its commit acknowledged or superseded.
LEMMA PostingKept ==
    ASSUME Inv, FeedInv, NEW w \in Workers, Posting(w)
    PROVE  Inv' /\ FeedInv'
<1>t. TypeOK /\ WorkerInv /\ TimelineConnected /\ StoreTypeOK /\ HistoryInv /\ CursorInv
  BY DEF Inv, TypeOK
<1>1. /\ worker[w].pc = "notify"
      /\ UNCHANGED <<storeVars, envVars, worker, feed>>
      /\ notified' = notified \/ notified' = notified \cup {RowOf(worker[w])}
      /\ failures' \in 0..MaxFailures
  BY <1>t, PostingShape
<1>2. StoreTypeOK' /\ HistoryInv' /\ CursorInv'
  BY <1>1, <1>t, StoreUnchanged
<1>3. RowOf(worker[w]) \in feed
  BY <1>1, <1>t DEF WorkerInv, StateAccounted
<1>4. TypeOK'
  BY <1>1, <1>2, <1>3, <1>t DEF TypeOK, envVars
<1>5. WorkerInv' /\ TimelineConnected'
  BY <1>1, <1>t DEF WorkerInv, TimelineConnected, StateAccounted, Accounted, Settled, Covered,
                    Touches, FileAt, RowOf, Row, storeVars
<1>6. \A d \in Devices : /\ Touches(d)' = Touches(d) /\ Baseline(d)' = Baseline(d)
                         /\ LastCommitFor(d)' = LastCommitFor(d)
  BY <1>1, SameStore
<1>7. FinalInv'
  <2>1. \A d \in Devices : \A n : Final(d, n) => Final(d, n)'
    BY <1>6 DEF Final
  <2>2. ASSUME NEW v \in Workers, worker[v].pc = "notify"
        PROVE  worker[v].device \in Devices /\ Final(worker[v].device, worker[v].commit)
    BY <1>t, <2>2 DEF FeedInv, FinalInv, TypeOK, WorkerStates, Idle
  <2>3. \A r \in notified : r.device \in Devices /\ Final(r.device, r.commit)
    BY <1>t DEF FeedInv, FinalInv, TypeOK
  <2>4. RowOf(worker[w]).device = worker[w].device /\ RowOf(worker[w]).commit = worker[w].commit
    BY DEF RowOf, Row
  <2>5. \A r \in notified' : r.device \in Devices /\ Final(r.device, r.commit)
    BY <1>1, <2>2, <2>3, <2>4
  <2>6. \A r \in notified' : Final(r.device, r.commit)'
    BY <2>1, <2>5 DEF Final
  <2>7. \A v \in Workers : worker'[v].pc = "notify" => Final(worker[v].device, worker[v].commit)'
    BY <1>1, <2>1, <2>2 DEF Final
  <2> QED  BY <2>6, <2>7 DEF FinalInv, Final
<1>8. \A v \in Workers : StateReportable(worker[v])'
  <2>1. ASSUME NEW v \in Workers, worker[v].pc \in {"record", "mark", "notify"}
        PROVE  worker[v].device \in Devices /\ StateReportable(worker[v])
    BY <1>t, <2>1 DEF FeedInv, TypeOK, WorkerStates, Idle
  <2> QED  BY <1>1, <1>6, <2>1 DEF StateReportable
<1>9. RowInv'
  BY <1>1, <1>6, <1>t DEF FeedInv, RowInv, TypeOK
<1> QED  BY <1>2, <1>4, <1>5, <1>7, <1>8, <1>9 DEF Inv, FeedInv

\* Every other step is one of ChangeProcessing.
LEMMA StepSplits ==
    ASSUME [DeliveryNext]_allVars
    PROVE  [Next]_vars \/ \E w \in Workers : Posting(w)
<1>1. ASSUME NEW w \in Workers, DeliveryStep(w)
      PROVE  Next \/ Posting(w)
  BY <1>1 DEF DeliveryStep, ChangeStep, NotifyEnds, Next, WorkerStep, Posting
<1>2. ASSUME NEW w \in Workers, NEW d \in Devices, DeliveryFetch(w, d)
      PROVE  Next
  BY <1>2 DEF DeliveryFetch, Next
<1>3. ASSUME DeliveryNext
      PROVE  Next \/ \E w \in Workers : Posting(w)
  BY <1>1, <1>2, <1>3 DEF DeliveryNext, DeliveryCrash, Next, Posting
<1> QED  BY <1>3 DEF allVars

LEMMA DeliveryKept == Inv /\ FeedInv /\ [DeliveryNext]_allVars => Inv' /\ FeedInv'
<1> SUFFICES ASSUME Inv, FeedInv, [DeliveryNext]_allVars PROVE Inv' /\ FeedInv'
  OBVIOUS
<1> QED  BY StepSplits, NextInv, NextFeedInv, PostingKept

\* The invariants of the change path hold with its notifications, post by post.
THEOREM DeliveryInvariance == DeliverySpec => [](Inv /\ FeedInv)
<1>1. DeliveryInit => Inv /\ FeedInv
  BY InitInv, InitFeedInv DEF DeliveryInit
<1> QED  BY <1>1, DeliveryKept, PTL DEF DeliverySpec

\* Once one receiver of a fan-out has an event, no Save hands its commit out
\* again, although answers get lost and the fan-out dies half-way.
THEOREM DeliveredIsFinal == DeliverySpec => NotifiedIsFinal
<1>1. Inv /\ FeedInv /\ [DeliveryNext]_allVars => [\A w \in Workers : ~Again(w)]_vars
  <2> SUFFICES ASSUME Inv, FeedInv, [DeliveryNext]_allVars, NEW w \in Workers, Again(w)
               PROVE  FALSE
    OBVIOUS
  <2>1. CASE [Next]_vars
    BY <2>1, NeverAgain
  <2>2. ASSUME NEW v \in Workers, Posting(v)
        PROVE  FALSE
    <3>1. worker' = worker
      BY <2>2, PostingShape DEF Inv
    <3> QED  BY <3>1 DEF Again
  <2> QED  BY <2>1, <2>2, StepSplits
<1>2. (\A w \in Workers : ~Again(w)) =>
          \A w \in Workers :
             worker[w].pc = "save" /\ worker'[w].pc = "record"
                => \A r \in notified :
                      r.device = worker'[w].device => r.commit # worker'[w].commit
  BY DEF Again
<1> QED  BY <1>1, <1>2, DeliveryInvariance, PTL DEF DeliverySpec, NotifiedIsFinal

-----------------------------------------------------------------------------
\* Seen from outside

\* A post is no step of the abstract feed.
LEMMA PostingMaps ==
    ASSUME TypeOK, NEW w \in Workers, Posting(w)
    PROVE  UNCHANGED Feed!vars
<1>1. UNCHANGED storeVars /\ feed' = feed
  BY PostingShape
<1>2. \A d \in Devices : LastCommitFor(d)' = LastCommitFor(d) /\ Baseline(d)' = Baseline(d)
  BY <1>1, SameStore
<1> QED  BY <1>1, <1>2 DEF Feed!vars

\* Seen from outside, the path with its notifications posted one by one is
\* still the feed: no change is lost to a receiver that fails or a process that
\* dies with half of the posts made.
THEOREM DeliveryImplementation == DeliverySpec => ImplementsFeed
<1>1. DeliveryInit => Feed!Init
  BY InitMaps DEF DeliveryInit
<1>2. Inv /\ FeedInv /\ [DeliveryNext]_allVars => [Feed!Next]_Feed!vars
  <2> SUFFICES ASSUME Inv, FeedInv, [DeliveryNext]_allVars
               PROVE  [Feed!Next]_Feed!vars
    OBVIOUS
  <2>1. CASE [Next]_vars
    BY <2>1, NextMaps
  <2>2. ASSUME NEW w \in Workers, Posting(w)
        PROVE  [Feed!Next]_Feed!vars
    BY <2>2, PostingMaps DEF Inv
  <2> QED  BY <2>1, <2>2, StepSplits
<1>3. DeliverySpec => Feed!Spec
  BY <1>1, <1>2, DeliveryInvariance, PTL DEF DeliverySpec, Feed!Spec
<1> QED  BY <1>3 DEF ImplementsFeed

\* And no change is skipped between two rows of its timeline.
THEOREM DeliverySkipsNothing == DeliverySpec => [](NothingSkipped /\ TimelineConnected)
<1>1. Inv => NothingSkipped /\ TimelineConnected
  BY DEF Inv, CursorInv, Accounted, NothingSkipped, Acked
<1> QED  BY <1>1, DeliveryInvariance, PTL

=============================================================================
