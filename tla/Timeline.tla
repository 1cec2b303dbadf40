------------------------------ MODULE Timeline ------------------------------
(***************************************************************************)
(* The table of recorded changes and its pages (RecordChange and           *)
(* ListChanges of internal/store, handleChangeList of internal/api).       *)
(***************************************************************************)
EXTENDS Integers, Sequences, FiniteSets, FiniteSetsExt, SequencesExt

CONSTANTS Stamps,        \* the instants of a second, in order, as fraction digits
          DefaultLimit,  \* rows of a page nobody asks a size for
          MaxLimit       \* rows of the largest page

ASSUME TimelineAssumption ==
    /\ Stamps \in Seq(Seq(0 .. 9))
    /\ MaxLimit \in Nat \ {0} /\ DefaultLimit \in 1 .. MaxLimit

VARIABLES changes,  \* the rows
          lastId    \* the id given last (AUTOINCREMENT: never given again)

timelineVars == <<changes, lastId>>

TimelineInit == changes = {} /\ lastId = 0

\* RFC3339Nano drops trailing zeros; the Z that follows is greater than a digit.
FormatTime(digits) ==
    LET kept == {n \in 0 .. Len(digits) : \A i \in n + 1 .. Len(digits) : digits[i] = 0}
    IN  SubSeq(digits, 1, Min(kept)) \o <<10>>

TextBefore(s, t) ==
    \E n \in 1 .. Len(s) : n <= Len(t) /\ s[n] < t[n] /\ \A i \in 1 .. n - 1 : s[i] = t[i]

\* ORDER BY detected_at DESC, id DESC: on the texts.
ListedBefore(a, b) ==
    \/ TextBefore(b.detectedAt, a.detectedAt)
    \/ a.detectedAt = b.detectedAt /\ a.id > b.id

Insert(device, stamp, severity) ==
    /\ lastId' = lastId + 1
    /\ changes' = changes \cup
          {[id |-> lastId + 1, device |-> device, detectedAt |-> FormatTime(stamp), severity |-> severity]}

\* (mutation) Foreign keys are not enforced.
LeaveChangesOf(device) == UNCHANGED <<changes, lastId>>

\* ON DELETE CASCADE
DeleteChangesOf(device) ==
    changes' = {r \in changes : r.device # device} /\ UNCHANGED lastId

Ladder == <<"low", "medium", "high">>

SeverityRank(s) == IF s = "none" THEN 0 ELSE SelectInSeq(Ladder, LAMBDA x : x = s)

\* (mutation) The floor itself is left out.
AllowedAbove(min) == {Ladder[i] : i \in SeverityRank(min) + 1 .. Len(Ladder)}

\* The ladder expanded for IN (...); a floor of "none" or none is no condition.
Allowed(min) ==
    IF SeverityRank(min) = 0 THEN {"none"} \cup ToSet(Ladder)
    ELSE {Ladder[i] : i \in SeverityRank(min) .. Len(Ladder)}

\* LIMIT and OFFSET count rows of the result as it is now: a row's place is
\* given by the rows listed before it.
Matching(min) == {r \in changes : r.severity \in Allowed(min)}

Place(r, rows) == Cardinality({x \in rows : ListedBefore(x, r)}) + 1

ListChanges(min, limit, offset) ==
    LET rows == Matching(min)
        last == Min({offset + limit, Cardinality(rows)})
    IN  [i \in 1 .. last - offset |-> CHOOSE r \in rows : Place(r, rows) = offset + i]

\* handleChangeList: the limit it uses, and tells the client.
PageSize(limit) == IF limit <= 0 THEN DefaultLimit ELSE Min({limit, MaxLimit})

Offset(offset) == Max({offset, 0})

=============================================================================
