--------------------------- MODULE SnapshotStore ---------------------------
(***************************************************************************)
(* The git-backed snapshot store (internal/snapshots).                     *)
(*                                                                         *)
(* One repository holds the running configuration of every device, one     *)
(* path per device.  Besides the repository there is, per device, an       *)
(* untracked processing cursor that names the last commit whose            *)
(* post-snapshot processing finished, and possibly a sidecar that an older *)
(* release left behind.  A mutex makes Save and MarkProcessed atomic with  *)
(* respect to each other; a crash or an I/O error can still stop a Save    *)
(* half-way.                                                               *)
(*                                                                         *)
(* A commit hash is the commit's position in the (linear) history, and the *)
(* empty hash is 0.                                                        *)
(***************************************************************************)
EXTENDS Naturals, Sequences, FiniteSetsExt

CONSTANTS Devices,        \* device ids
          Contents,       \* configurations a device can have
          NoFile,         \* what a tree holds for a device never snapshotted
          Legacy,         \* devices snapshotted by a release without cursors
          LegacyContent   \* what that release had snapshotted

ASSUME StoreAssumption ==
          /\ NoFile \notin Contents
          /\ LegacyContent \in Contents
          /\ Legacy \in Seq(Devices)
          /\ \A i, j \in 1..Len(Legacy) : Legacy[i] = Legacy[j] => i = j

VARIABLES commits,  \* git history: device named in the message, and the tree
          staged,   \* git index: the tree the next commit will have
          cursor,   \* per device, what reading .processing-cursor yields
          sidecar   \* per device, what reading .pending-processing yields

storeVars == <<commits, staged, cursor, sidecar>>

Trees == [Devices -> Contents \cup {NoFile}]
CursorStatus == {"ok", "missing", "corrupt", "stale"}

OkCursor(n) == [status |-> "ok", commit |-> n]
BadCursor(s) == [status |-> s, commit |-> 0]
NoSidecar == [status |-> "none", prev |-> 0]

StoreTypeOK ==
    /\ commits \in Seq([device : Devices, tree : Trees])
    /\ staged \in Trees
    /\ cursor \in [Devices -> [status : CursorStatus, commit : Nat]]
    /\ sidecar \in [Devices -> [status : {"none", "pending"}, prev : Nat]]

----------------------------------------------------------------------------
\* Reading the history

FileAt(d, n) == IF n = 0 THEN NoFile ELSE commits[n].tree[d]

HeadContent(d) == FileAt(d, Len(commits))

\* (mutation) The log of the repository instead of the path's.
LastCommitForAnyPath(d) == Len(commits)

\* The commits `git log -- <path>` lists: those that change the device's file.
Touches(d) == {n \in 1..Len(commits) : FileAt(d, n) # FileAt(d, n - 1)}

Newest(S) == IF S = {} THEN 0 ELSE Max(S)

LastCommitFor(d) == Newest(Touches(d))

PreviousCommitFor(d, h) == Newest({n \in Touches(d) : n < h})

----------------------------------------------------------------------------
\* The processing cursor

\* A readable sidecar wins over the cursor: it is migrated to a cursor at the
\* last commit that had been processed when the sidecar was written.
LoadCursor(d) ==
    IF sidecar[d].status = "pending" THEN OkCursor(sidecar[d].prev) ELSE cursor[d]

\* (mutation) A readable cursor is passed over for the device's last commit.
BaselineAtHead(d) ==
    IF LoadCursor(d).status \in {"ok", "missing"}
    THEN LastCommitFor(d)
    ELSE PreviousCommitFor(d, LastCommitFor(d))

\* (mutation) An unreadable cursor is taken for a missing one.
BaselineTrustsHead(d) ==
    LET cur == LoadCursor(d)
    IN  IF cur.status = "ok" THEN cur.commit ELSE LastCommitFor(d)

\* The commit a Save makes its baseline, and durably writes to the cursor
\* before it touches git.  A missing cursor is an upgrade: HEAD counts as
\* processed (no HEAD, no baseline).  An unreadable one goes behind HEAD.
Baseline(d) ==
    LET cur == LoadCursor(d)
    IN  CASE cur.status = "ok"      -> cur.commit
          [] cur.status = "missing" -> LastCommitFor(d)
          [] OTHER                  -> PreviousCommitFor(d, LastCommitFor(d))

WriteCursor(d, n) ==
    /\ cursor' = [cursor EXCEPT ![d] = OkCursor(n)]
    /\ sidecar' = [sidecar EXCEPT ![d] = NoSidecar]

----------------------------------------------------------------------------
\* Save

\* The commit Save returns: the device's latest one, or the one it makes.
SavedCommit(d, c) == IF HeadContent(d) = c THEN LastCommitFor(d) ELSE Len(commits) + 1

\* (mutation) Only a new commit is worth processing.
SaveChangedByCommit(d, c) == HeadContent(d) # c

\* The caller must process the snapshot unless HEAD is already processed.
SaveChanged(d, c) == SavedCommit(d, c) # Baseline(d)

SaveIdentical(d, c) ==
    /\ HeadContent(d) = c
    /\ WriteCursor(d, Baseline(d))
    /\ UNCHANGED <<commits, staged>>

\* wt.Commit takes the whole index, not only the path just added.
SaveCommit(d, c) ==
    /\ HeadContent(d) # c
    /\ WriteCursor(d, Baseline(d))
    /\ staged' = [staged EXCEPT ![d] = c]
    /\ commits' = Append(commits, [device |-> d, tree |-> staged'])

Save(d, c) == SaveIdentical(d, c) \/ SaveCommit(d, c)

\* An error or a crash after the cursor is written and before wt.Add.
SaveStopsUnstaged(d) ==
    /\ WriteCursor(d, Baseline(d))
    /\ UNCHANGED <<commits, staged>>

\* An error or a crash between wt.Add and the end of wt.Commit.
SaveStopsStaged(d, c) ==
    /\ HeadContent(d) # c
    /\ WriteCursor(d, Baseline(d))
    /\ staged' = [staged EXCEPT ![d] = c]
    /\ UNCHANGED commits

\* (mutation) A superseded commit's acknowledgement is taken too.
MarkProcessedAny(d, h) == WriteCursor(d, h) /\ UNCHANGED <<commits, staged>>

\* (mutation) An acknowledgement is taken for whatever HEAD is by now.
MarkProcessedAsHead(d, h) ==
    WriteCursor(d, LastCommitFor(d)) /\ UNCHANGED <<commits, staged>>

\* (mutation) The repository's HEAD is compared, not the device's.
MarkProcessedAtRepoHead(d, h) ==
    IF h = Len(commits)
    THEN WriteCursor(d, h) /\ UNCHANGED <<commits, staged>>
    ELSE UNCHANGED storeVars

\* Only an acknowledgement of the device's latest commit moves the cursor.
MarkProcessed(d, h) ==
    IF h = LastCommitFor(d)
    THEN WriteCursor(d, h) /\ UNCHANGED <<commits, staged>>
    ELSE UNCHANGED storeVars

\* The environment: the cursor file is truncated, or the repository is
\* replaced by one that does not have the commit it names.
DamageCursor(d) ==
    /\ cursor[d].status = "ok"
    /\ \E s \in {"corrupt", "stale"} : cursor' = [cursor EXCEPT ![d] = BadCursor(s)]
    /\ UNCHANGED <<commits, staged, sidecar>>

----------------------------------------------------------------------------
\* Data directories a process can start on: empty, or left by an older
\* release, which wrote no cursor and may have left a sidecar for a commit it
\* had not processed.

LegacyTree(n) ==
    [d \in Devices |->
        IF \E i \in 1..n : Legacy[i] = d THEN LegacyContent ELSE NoFile]

LegacyDevices == {Legacy[i] : i \in 1..Len(Legacy)}

StoreInit ==
    /\ commits = [n \in 1..Len(Legacy) |-> [device |-> Legacy[n], tree |-> LegacyTree(n)]]
    /\ staged = LegacyTree(Len(Legacy))
    /\ cursor = [d \in Devices |-> BadCursor("missing")]
    /\ \E D \in SUBSET LegacyDevices :
          sidecar = [d \in Devices |->
                        IF d \in D THEN [status |-> "pending", prev |-> 0] ELSE NoSidecar]

============================================================================
