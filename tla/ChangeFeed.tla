----------------------------- MODULE ChangeFeed -----------------------------
(***************************************************************************)
(* What the change pipeline promises, without repository, cursor files,    *)
(* workers or failures: a device's history advances, stretches of it are   *)
(* reported, and it is acknowledged up to its newest commit once a report  *)
(* reaches that far.  Reports start at an acknowledged point, so nothing   *)
(* falls between two of them.                                              *)
(***************************************************************************)
EXTENDS Naturals

CONSTANT Devices

VARIABLES head,   \* per device, its newest commit (0: none)
          acked,  \* per device, the commit up to which it is processed
          feed    \* the reported changes

vars == <<head, acked, feed>>

Row(d, from, to) == [device |-> d, prev |-> from, commit |-> to]

\* Where a report may start: the beginning, or where a report ended.
Reached(d) == {0} \cup {r.commit : r \in {q \in feed : q.device = d}}

Init ==
    /\ head \in [Devices -> Nat]
    /\ acked \in [Devices -> Nat]
    /\ \A d \in Devices : acked[d] \in Reached(d) /\ acked[d] <= head[d]
    /\ \A r \in feed : r.prev = 0

\* New configurations are seen, possibly of several devices at once.
Observe ==
    /\ head' \in [Devices -> Nat]
    /\ \A d \in Devices : head[d] <= head'[d]
    /\ UNCHANGED <<acked, feed>>

\* A report may be late: it starts at what was once acknowledged, and ends at
\* what was once the head.
Report(d) ==
    /\ \E from \in Reached(d), to \in 1..head[d] :
          /\ from <= acked[d] /\ from < to
          /\ feed' = feed \cup {Row(d, from, to)}
    /\ UNCHANGED <<head, acked>>

\* Only the head can be acknowledged, and only when a report ends there.
Acknowledge(d) ==
    /\ head[d] \in Reached(d)
    /\ acked' = [acked EXCEPT ![d] = head[d]]
    /\ UNCHANGED <<head, feed>>

Next == Observe \/ \E d \in Devices : Report(d) \/ Acknowledge(d)

Spec == Init /\ [][Next]_vars

=============================================================================
