-------------------------- MODULE ChangeProcessing --------------------------
(***************************************************************************)
(* From a fetched configuration to a recorded change: the poll loops of    *)
(* the scheduler and the on-demand snapshots of the API and the syslog     *)
(* trigger all fetch, Save, record, MarkProcessed and notify, with nothing *)
(* between them but the snapshot store's mutex and the database.           *)
(*                                                                         *)
(* A worker is one goroutine on that path: the poll loop of a device is    *)
(* named by the device, the others are Requests.                           *)
(***************************************************************************)
EXTENDS SnapshotStore

CONSTANTS Requests,     \* concurrent on-demand snapshots
          MaxEdits,     \* bound: configuration edits on the devices
          MaxFailures,  \* bound: errors, crashes and damaged cursors
          MaxDeletes    \* bound: device deletions

ASSUME ProcessingAssumption ==
          /\ Devices \cap Requests = {}
          /\ MaxEdits \in Nat /\ MaxFailures \in Nat /\ MaxDeletes \in Nat

VARIABLES running,     \* per device, the configuration it runs
          registered,  \* per device, whether its registry row exists
          worker,      \* per worker, where it is and what it holds
          feed,        \* every change row ever inserted
          notified,    \* change rows the notifiers were given
          edits, failures, deletes

vars == <<commits, staged, cursor, sidecar, running, registered, worker, feed,
          notified, edits, failures, deletes>>

envVars == <<running, registered, edits, deletes>>

Workers == Devices \cup Requests

\* A poll loop works on its own device, a request on any.
Serves(w, d) == w = d \/ w \in Requests

Row(d, from, to) == [device |-> d, prev |-> from, commit |-> to]
RowOf(r) == Row(r.device, r.prev, r.commit)

Idle == [pc |-> "idle"]

\* pc names the step the worker takes next.
WorkerStates ==
    {Idle}
      \cup [pc : {"save"}, device : Devices, content : Contents]
      \cup [pc : {"record", "mark", "notify"}, device : Devices,
            prev : Nat, commit : Nat \ {0}]

TypeOK ==
    /\ StoreTypeOK
    /\ running \in [Devices -> Contents]
    /\ registered \in [Devices -> BOOLEAN]
    /\ worker \in [Workers -> WorkerStates]
    /\ feed \subseteq [device : Devices, prev : Nat, commit : Nat \ {0}]
    /\ notified \subseteq feed
    /\ edits \in 0..MaxEdits
    /\ failures \in 0..MaxFailures
    /\ deletes \in 0..MaxDeletes

\* The older release had recorded what it left no sidecar for.
Init ==
    /\ StoreInit
    /\ running \in [Devices -> Contents]
    /\ registered = [d \in Devices |-> TRUE]
    /\ worker = [w \in Workers |-> Idle]
    /\ feed = {Row(Legacy[n], 0, n) :
                  n \in {m \in 1..Len(Legacy) : sidecar[Legacy[m]].status = "none"}}
    /\ notified = {}
    /\ edits = 0 /\ failures = 0 /\ deletes = 0

----------------------------------------------------------------------------
\* The path of a worker

Becomes(w, s) == worker' = [worker EXCEPT ![w] = s]

\* The row exists, the collector returns what the device runs now.
Fetch(w, d) ==
    /\ worker[w] = Idle
    /\ Serves(w, d)
    /\ registered[d]
    /\ Becomes(w, [pc |-> "save", device |-> d, content |-> running[d]])
    /\ UNCHANGED <<storeVars, envVars, feed, notified, failures>>

\* The baseline and the commit are captured here and used after the mutex is
\* released.
SaveSnapshot(w) ==
    /\ worker[w].pc = "save"
    /\ LET d == worker[w].device
           c == worker[w].content
       IN  /\ Save(d, c)
           /\ Becomes(w, IF SaveChanged(d, c)
                         THEN [pc |-> "record", device |-> d,
                               prev |-> Baseline(d), commit |-> SavedCommit(d, c)]
                         ELSE Idle)
    /\ UNCHANGED <<envVars, feed, notified, failures>>

\* GetAt, HandleChange: analysis, report bundle and, last, the row; the
\* insert needs the registry row it refers to.
RecordChange(w) ==
    /\ worker[w].pc = "record"
    /\ registered[worker[w].device]
    /\ feed' = feed \cup {RowOf(worker[w])}
    /\ Becomes(w, [worker[w] EXCEPT !.pc = "mark"])
    /\ UNCHANGED <<storeVars, envVars, notified, failures>>

\* (mutation) The insert's error is dropped.
RecordRefusedUnseen(w) ==
    /\ worker[w].pc = "record"
    /\ ~registered[worker[w].device]
    /\ Becomes(w, [worker[w] EXCEPT !.pc = "mark"])
    /\ UNCHANGED <<storeVars, envVars, feed, notified, failures>>

RecordRefused(w) ==
    /\ worker[w].pc = "record"
    /\ ~registered[worker[w].device]
    /\ Becomes(w, Idle)
    /\ UNCHANGED <<storeVars, envVars, feed, notified, failures>>

\* (mutation) A failed acknowledgement does not stop the notification.
MarkSnapshotOrNot(w) ==
    /\ worker[w].pc = "mark"
    /\ \/ MarkProcessed(worker[w].device, worker[w].commit)
       \/ UNCHANGED storeVars
    /\ Becomes(w, [worker[w] EXCEPT !.pc = "notify"])
    /\ UNCHANGED <<envVars, feed, notified, failures>>

MarkSnapshot(w) ==
    /\ worker[w].pc = "mark"
    /\ MarkProcessed(worker[w].device, worker[w].commit)
    /\ Becomes(w, [worker[w] EXCEPT !.pc = "notify"])
    /\ UNCHANGED <<envVars, feed, notified, failures>>

\* Best effort: a notifier's error is logged and dropped.
Notify(w) ==
    /\ worker[w].pc = "notify"
    /\ notified' = notified \cup {RowOf(worker[w])}
    /\ Becomes(w, Idle)
    /\ UNCHANGED <<storeVars, envVars, feed, failures>>

----------------------------------------------------------------------------
\* Failures.  Each returns an error to the worker, which gives up.

Failing == failures < MaxFailures /\ failures' = failures + 1

SaveFails(w) ==
    /\ Failing
    /\ worker[w].pc = "save"
    /\ LET d == worker[w].device
       IN  \/ SaveStopsUnstaged(d)
           \/ SaveStopsStaged(d, worker[w].content)
    /\ Becomes(w, Idle)
    /\ UNCHANGED <<envVars, feed, notified>>

\* Analysis, report or database error, or a context cancelled by a refresh.
RecordFails(w) ==
    /\ Failing
    /\ worker[w].pc = "record"
    /\ Becomes(w, Idle)
    /\ UNCHANGED <<storeVars, envVars, feed, notified>>

MarkFails(w) ==
    /\ Failing
    /\ worker[w].pc = "mark"
    /\ Becomes(w, Idle)
    /\ UNCHANGED <<storeVars, envVars, feed, notified>>

\* The process dies and is started again on the same data directory.
Crash ==
    /\ Failing
    /\ worker' = [w \in Workers |-> Idle]
    /\ UNCHANGED <<storeVars, envVars, feed, notified>>

----------------------------------------------------------------------------
\* The devices and their operator

EditDevice(d, c) ==
    /\ edits < MaxEdits
    /\ c # running[d]
    /\ edits' = edits + 1
    /\ running' = [running EXCEPT ![d] = c]
    /\ UNCHANGED <<storeVars, registered, deletes, worker, feed, notified, failures>>

\* The change rows go with the registry row (feed, a history, keeps them); the
\* snapshots and the cursor outlive it.
DeleteDevice(d) ==
    /\ deletes < MaxDeletes
    /\ registered[d]
    /\ deletes' = deletes + 1
    /\ registered' = [registered EXCEPT ![d] = FALSE]
    /\ UNCHANGED <<storeVars, running, edits, worker, feed, notified, failures>>

CreateDevice(d) ==
    /\ ~registered[d]
    /\ registered' = [registered EXCEPT ![d] = TRUE]
    /\ UNCHANGED <<storeVars, running, edits, deletes, worker, feed, notified, failures>>

----------------------------------------------------------------------------
WorkerStep(w) ==
    \/ SaveSnapshot(w) \/ RecordChange(w) \/ RecordRefused(w)
    \/ MarkSnapshot(w) \/ Notify(w)

WorkerFails(w) == SaveFails(w) \/ RecordFails(w) \/ MarkFails(w)

Next ==
    \/ \E w \in Workers, d \in Devices : Fetch(w, d)
    \/ \E w \in Workers : WorkerStep(w) \/ WorkerFails(w)
    \/ Crash
    \/ \E d \in Devices, c \in Contents : EditDevice(d, c)
    \/ \E d \in Devices : DeleteDevice(d) \/ CreateDevice(d)

Spec == Init /\ [][Next]_vars

\* Tickers keep ticking and goroutines keep running; nothing is owed by the
\* operator, the API's clients or the failures.
Fairness ==
    /\ \A d \in Devices : WF_vars(Fetch(d, d))
    /\ \A w \in Workers : WF_vars(WorkerStep(w))

FairSpec == Spec /\ Fairness

\* The same system when a cursor file can also be damaged.
DamagedNext ==
    \/ Next
    \/ /\ Failing
       /\ \E d \in Devices : DamageCursor(d)
       /\ UNCHANGED <<envVars, worker, feed, notified>>

DamagedSpec == Init /\ [][DamagedNext]_vars /\ Fairness

----------------------------------------------------------------------------
\* The abstract feed this implements: what git and the cursor files say of a
\* device is its head and how far it is acknowledged.

Feed == INSTANCE ChangeFeed WITH
            head  <- [d \in Devices |-> LastCommitFor(d)],
            acked <- [d \in Devices |-> Baseline(d)]

\* Saves, retries, crashes and acknowledgements in any order look, from
\* outside, like a feed that observes, reports and acknowledges.
ImplementsFeed == Feed!Spec

----------------------------------------------------------------------------
\* What must hold

\* Commit n of device d lies in a recorded change.
Covered(d, n) == \E r \in feed : r.device = d /\ r.prev < n /\ n <= r.commit

\* Every change of device d up to commit n has been recorded.
Settled(d, n) == \A m \in Touches(d) : m <= n => Covered(d, m)

\* The commit up to which the store holds device d processed.
Acked(d) == Baseline(d)

\* No commit is ever counted as processed before a recorded change covers it,
\* whatever crashes, fails, overlaps or is superseded: the cursor never
\* passes a change that is missing from the timeline.
NothingSkipped == \A d \in Devices : Settled(d, Acked(d))

\* The timeline of a device is connected: each recorded diff starts where the
\* device began or where another recorded diff ended, although its baseline
\* was read long before the row was written.
TimelineConnected ==
    \A r \in feed : r.prev = 0 \/ \E q \in feed : q.device = r.device /\ q.commit = r.prev

\* What Save diffs against can always be read: the commit a cursor names, or
\* would be recovered to, holds the device's file.
BaselineHasFile ==
    \A d \in Devices : Acked(d) = 0 \/ FileAt(d, Acked(d)) # NoFile

\* A late or duplicate acknowledgement never moves a device's cursor back.
CursorNeverRegresses == [][\A d \in Devices : Acked(d) <= Acked(d)']_vars

\* Once a commit has been notified it is done: no later Save hands it out for
\* analysis again, however the notifiers fared.
NotifiedIsFinal ==
    [][\A w \in Workers :
          worker[w].pc = "save" /\ worker'[w].pc = "record"
             => \A r \in notified :
                   r.device = worker'[w].device => r.commit # worker'[w].commit]_vars

\* A commit belongs to the device its message names and leaves the files of
\* the others alone.
CommitsAreSeparate ==
    \A d \in Devices : \A n \in Touches(d) : commits[n].device = d

\* As long as nothing fails, the poll loops insert no change row twice: each
\* sees its own acknowledgement whatever other devices commit.
RecordedOnce ==
    [][\A w \in Devices :
          failures = 0 /\ worker[w].pc = "record" /\ worker'[w].pc = "mark"
             => RowOf(worker[w]) \notin feed]_vars

\* Every commit of a device is eventually inside a recorded change, unless the
\* device is deleted: an identical poll retries what failed.
EveryCommitRecorded ==
    \A d \in Devices : \A n \in 1..(Len(Legacy) + MaxEdits + Cardinality(Workers)) :
        (LastCommitFor(d) = n) ~> (Covered(d, n) \/ ~registered[d])

\* When the devices stay as they are, the store ends up holding what each one
\* runs, and holding it processed.
CatchesUp ==
    \A d \in Devices :
        <>[](registered[d] => HeadContent(d) = running[d] /\ Acked(d) = LastCommitFor(d))

\* The implementation notes on damaged cursors ("rewritten conservatively behind
\* HEAD so work is retried, never silently skipped"): once the cursor is at
\* HEAD, no commit of the device is missing from the timeline.
NeverSilentlySkipped ==
    \A d \in Devices :
        cursor[d] = OkCursor(LastCommitFor(d)) => Settled(d, LastCommitFor(d))

\* After any damage the newest commit still reaches the timeline.
HeadRecorded ==
    \A d \in Devices : \A n \in 1..(Len(Legacy) + MaxEdits + Cardinality(Workers)) :
        (LastCommitFor(d) = n)
           ~> ((\E r \in feed : r.device = d /\ r.commit >= n) \/ ~registered[d])

----------------------------------------------------------------------------
\* The invariant behind NothingSkipped and TimelineConnected: not only the
\* cursor but every baseline a worker carries is accounted for.

\* Commit n may serve as a baseline for device d.
Accounted(d, n) ==
    /\ n <= Len(commits)
    /\ Settled(d, n)
    /\ n = 0 \/ \E q \in feed : q.device = d /\ q.commit = n

\* The history is one git can walk: a file that is there was once committed,
\* and some commit is the last to have touched it.
HistoryInv ==
    \A d \in Devices :
        /\ HeadContent(d) # NoFile => Touches(d) # {}
        /\ Touches(d) # {} => \E m \in Touches(d) : \A n \in Touches(d) : n <= m

\* A missing cursor means no Save has begun for the device, so that nothing of
\* it is staged for another device's commit to take along.
CursorInv ==
    \A d \in Devices :
        /\ LoadCursor(d).status \in {"ok", "missing"}
        /\ LoadCursor(d).status = "missing" => staged[d] = HeadContent(d)
        /\ Accounted(d, Baseline(d))

StateAccounted(s) ==
    /\ s.pc \in {"record", "mark", "notify"} => Accounted(s.device, s.prev)
    /\ s.pc \in {"mark", "notify"} => RowOf(s) \in feed

WorkerInv == \A w \in Workers : StateAccounted(worker[w])

Inv == TypeOK /\ HistoryInv /\ CursorInv /\ WorkerInv /\ TimelineConnected

\* What the refinement needs besides: rows and workers name commits of their
\* device, later than their baseline, which the cursor has reached; and what
\* was acknowledged is at the cursor, or a newer commit has superseded it.

RowInv == \A r \in feed : r.prev < r.commit /\ r.commit \in Touches(r.device)

StateReportable(s) ==
    s.pc \in {"record", "mark", "notify"} =>
        /\ s.prev < s.commit
        /\ s.commit \in Touches(s.device)
        /\ s.prev <= Baseline(s.device)

Final(d, n) == n = LastCommitFor(d) => Baseline(d) = n

FinalInv ==
    /\ \A r \in notified : Final(r.device, r.commit)
    /\ \A w \in Workers :
          worker[w].pc = "notify" => Final(worker[w].device, worker[w].commit)

FeedInv == RowInv /\ (\A w \in Workers : StateReportable(worker[w])) /\ FinalInv

============================================================================
