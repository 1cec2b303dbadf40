------------------------------ MODULE Delivery ------------------------------
(***************************************************************************)
(* The notifications of recorded changes (internal/notify, called at the   *)
(* end of makeProcessChange): the fan-out gives an event to each notifier  *)
(* in turn, each posts it once and, unless it was rejected, a second time. *)
(* The Notify step of ChangeProcessing is refined into those posts, with   *)
(* answers that get lost and processes that die in between.                *)
(***************************************************************************)
EXTENDS ChangeProcessing

CONSTANTS Notifiers,        \* the configured notifiers, in order
          MinSeverity,      \* the configured minimum, "" if none is
          AnalysedSeverity  \* the highest severity an analysis finds

ASSUME DeliveryAssumption ==
          /\ Notifiers \in Seq({"webhook", "discord"})
          /\ MinSeverity \in {"", "none", "low", "medium", "high"}
          /\ AnalysedSeverity \in {"none", "low", "medium", "high"}

VARIABLE sending  \* per worker, the notifier it is at and which attempt

allVars == <<vars, sending>>

First == [at |-> 1, attempt |-> 1]

DeliveryInit ==
    /\ Init
    /\ sending = [w \in Workers |-> First]

SeverityRank(s) == [none |-> 0, low |-> 1, medium |-> 2, high |-> 3][s]

\* A first snapshot is recorded without an analysis.
Severity(r) == IF r.prev = 0 THEN "none" ELSE AnalysedSeverity

Announced(r) ==
    SeverityRank(Severity(r)) >= SeverityRank(IF MinSeverity = "" THEN "low" ELSE MinSeverity)

Exhausted(w) == sending[w].at > Len(Notifiers) \/ ~Announced(RowOf(worker[w]))

\* (mutation) The event is posted while the acknowledgement is outstanding.
MayPostEarly(w) == worker[w].pc \in {"mark", "notify"} /\ ~Exhausted(w)

MayPost(w) == worker[w].pc = "notify" /\ ~Exhausted(w)

\* One POST.  The receiver takes the event and says so, takes it but the answer
\* is lost, rejects it (4xx), or is down or in trouble (5xx): the second and the
\* last are retried, once.  An error does not keep the next notifier from its turn.
\* A change counts as notified from the first receiver on that takes its event,
\* so that NotifiedIsFinal covers fan-outs that fail or die half-way.
Post(w) ==
    /\ MayPost(w)
    /\ \E answer \in {"taken", "lost", "rejected", "down"} :
          /\ notified' = IF answer \in {"taken", "lost"}
                         THEN notified \cup {RowOf(worker[w])} ELSE notified
          /\ sending' = [sending EXCEPT ![w] =
                            IF answer \in {"lost", "down"} /\ @.attempt = 1
                            THEN [@ EXCEPT !.attempt = 2]
                            ELSE [at |-> @.at + 1, attempt |-> 1]]
    /\ UNCHANGED <<storeVars, envVars, worker, feed, failures>>

\* The context is cancelled (a refresh stops the loop, the client leaves): the
\* backoff ends with an error, and so does every post that is left.
PostsCancelled(w) ==
    /\ Failing
    /\ MayPost(w)
    /\ sending' = [sending EXCEPT ![w] = [at |-> Len(Notifiers) + 1, attempt |-> 1]]
    /\ UNCHANGED <<storeVars, envVars, worker, feed, notified>>

NotifyEnds(w) ==
    /\ worker[w].pc = "notify"
    /\ Exhausted(w)
    /\ Notify(w)
    /\ sending' = [sending EXCEPT ![w] = First]

DeliveryCrash ==
    /\ Crash
    /\ sending' = [w \in Workers |-> First]

-----------------------------------------------------------------------------
ChangeStep(w) ==
    /\ SaveSnapshot(w) \/ RecordChange(w) \/ RecordRefused(w) \/ MarkSnapshot(w)
    /\ UNCHANGED sending

DeliveryStep(w) == ChangeStep(w) \/ Post(w) \/ NotifyEnds(w)

DeliveryFetch(w, d) == Fetch(w, d) /\ UNCHANGED sending

DeliveryNext ==
    \/ \E w \in Workers, d \in Devices : DeliveryFetch(w, d)
    \/ \E w \in Workers : DeliveryStep(w) \/ PostsCancelled(w)
    \/ \E w \in Workers : WorkerFails(w) /\ UNCHANGED sending
    \/ DeliveryCrash
    \/ /\ \/ \E d \in Devices, c \in Contents : EditDevice(d, c)
          \/ \E d \in Devices : DeleteDevice(d) \/ CreateDevice(d)
       /\ UNCHANGED sending

\* As in ChangeProcessing; the client's timeout ends every post.
DeliverySpec ==
    /\ DeliveryInit /\ [][DeliveryNext]_allVars
    /\ \A d \in Devices : WF_allVars(DeliveryFetch(d, d))
    /\ \A w \in Workers : WF_allVars(DeliveryStep(w))

=============================================================================
