------------------------------ MODULE Service ------------------------------
(***************************************************************************)
(* The REST API (internal/api): concurrent requests over the device        *)
(* registry, the timeline of changes and the API tokens (internal/store).  *)
(* A request is several statements on the database, each atomic, and what  *)
(* it read in one it uses in a later one: the token count before the token *)
(* itself, a row before its update, a device before its change.            *)
(***************************************************************************)
EXTENDS Registry, Timeline, Functions

CONSTANTS Clients,    \* callers, each with one request at a time
          Tokens,     \* API tokens
          NoToken,    \* no bearer token
          Workloads,  \* what the clients of an instance do: [ops, callers]
          MaxWrites   \* bound: writes to the device registry

ASSUME ServiceAssumption == NoToken \notin Tokens /\ MaxWrites \in Nat

VARIABLES workload,
          token,    \* per token, "new", "live" or "deleted"
          request,  \* per client, how far its request is and what it holds
          view,     \* per client, the row a GET last showed it, or NoRow
          walk,     \* per client, its way through the pages of changes
          clock,    \* how many of the instants in Stamps have passed
          writes    \* per id, how often its row was written (for the properties)

vars == <<devices, timelineVars, workload, token, request, view, walk, clock, writes>>
clientVars == <<view, walk>>
tableVars == <<devices, timelineVars, writes>>

Idle == [phase |-> "idle"]
WalkFrom(done, min, limit, start) ==
    [done |-> done, min |-> min, limit |-> limit, start |-> start, got |-> <<>>, offset |-> 0,
     cut |-> FALSE, grown |-> FALSE]
NoWalk == WalkFrom(TRUE, "none", 0, {})

FreshConfig(type, secret) ==
    [f \in Required(type) |-> IF f \in SensitiveFields(type) THEN Typed(secret) ELSE Site]

FreshConfigs == {FreshConfig(t, s) : t \in Types, s \in Secrets}

Callers == [bearer : Tokens \cup {NoToken}, loopback : BOOLEAN]

TypeOK ==
    /\ \A id \in Ids : Exists(id) => /\ devices[id].type \in Types
                                      /\ Valid(devices[id].type, devices[id].config)
                                      /\ devices[id].vendor \in Vendors
    /\ \A r \in changes : r.id \in 1 .. lastId /\ Exists(r.device)
    /\ token \in [Tokens -> {"new", "live", "deleted"}]
    /\ \A c \in Clients : request[c].phase \in {"idle", "count", "validate", "handle", "update", "record"}
    /\ clock \in 0 .. Len(Stamps)

Init ==
    /\ workload \in Workloads
    /\ devices \in [Ids -> {NoRow, NewRow("file", [f \in {"path"} |-> Site])}]
    /\ TimelineInit
    /\ token = [t \in Tokens |-> "new"]
    /\ request = [c \in Clients |-> Idle]
    /\ view = [c \in Clients |-> NoRow]
    /\ walk = [c \in Clients |-> NoWalk]
    /\ clock = 0
    /\ writes = [id \in Ids |-> 0]

LiveTokens == {t \in Tokens : token[t] = "live"}

Becomes(c, r) == request' = [request EXCEPT ![c] = r]

-----------------------------------------------------------------------------
\* Authentication.  trusted and open are for the properties: the bearer token
\* was live, or there was no token at all, at some time since the request came.
\* job is what the handler keeps for its second half.

Arrive(c) ==
    /\ request[c] = Idle
    /\ \E caller \in workload.callers :
          Becomes(c, [phase |-> "count", caller |-> caller,
                      trusted |-> caller.bearer \in LiveTokens, open |-> LiveTokens = {}, job |-> <<>>])
    /\ UNCHANGED <<tableVars, workload, token, clientVars, clock>>

\* (mutation) Without tokens everybody is let in.
FirstRunAnywhere(caller) == LiveTokens = {}

FirstRun(caller) == LiveTokens = {} /\ caller.loopback

\* CountTokens, and what follows from it.
Count(c) ==
    /\ request[c].phase = "count"
    /\ LET caller == request[c].caller
       IN  Becomes(c, IF FirstRun(caller) THEN [request[c] EXCEPT !.phase = "handle"]
                      ELSE IF LiveTokens # {} /\ caller.bearer # NoToken
                      THEN [request[c] EXCEPT !.phase = "validate"] ELSE Idle)
    /\ UNCHANGED <<tableVars, workload, token, clientVars, clock>>

\* ValidateToken, a statement of its own: the tokens may be others by now.
Validate(c) ==
    /\ request[c].phase = "validate"
    /\ Becomes(c, IF request[c].caller.bearer \in LiveTokens
                  THEN [request[c] EXCEPT !.phase = "handle"] ELSE Idle)
    /\ UNCHANGED <<tableVars, workload, token, clientVars, clock>>

\* cutsheet token create and delete: another process on the same database.
SetToken(t, from, to) ==
    /\ "token" \in workload.ops
    /\ token[t] = from
    /\ token' = [token EXCEPT ![t] = to]
    /\ LET live == {u \in Tokens : token'[u] = "live"}
       IN  request' = [c \in Clients |->
               IF request[c] = Idle THEN Idle
               ELSE [request[c] EXCEPT !.trusted = @ \/ request[c].caller.bearer \in live,
                                       !.open = @ \/ live = {}]]
    /\ UNCHANGED <<tableVars, workload, clientVars, clock>>

CreateToken(t) == SetToken(t, "new", "live")
DeleteToken(t) == SetToken(t, "live", "deleted")

-----------------------------------------------------------------------------
\* Devices

Handles(c, op) == op \in workload.ops /\ request[c].phase = "handle"

Ends(c) == Becomes(c, Idle)

Written(id) ==
    /\ MapThenSumSet(LAMBDA i : writes[i], Ids) < MaxWrites
    /\ writes' = [writes EXCEPT ![id] = @ + 1]

\* A configuration in which the client typed a path.
WithPath(config) == [f \in {"path"} \cup DOMAIN config |-> IF f = "path" THEN Site ELSE config[f]]

SentConfigs(c) ==
    FreshConfigs \cup IF view[c] = NoRow THEN {} ELSE {view[c].config, WithPath(view[c].config)}

\* POST /devices: an id that is taken is a conflict.
CreateDevice(c, id) ==
    /\ Handles(c, "device")
    /\ ~Exists(id)
    /\ \E type \in Types, config \in SentConfigs(c) :
          Valid(type, config) /\ InsertRow(id, NewRow(type, config))
    /\ Written(id)
    /\ Ends(c)
    /\ UNCHANGED <<timelineVars, workload, token, clientVars, clock>>

GetDevice(c, id) ==
    /\ Handles(c, "device")
    /\ Exists(id)
    /\ view' = [view EXCEPT ![c] = [devices[id] EXCEPT !.config = RedactConfig(devices[id].type, @)]]
    /\ Ends(c)
    /\ UNCHANGED <<tableVars, workload, token, walk, clock>>

Maybe(S) == {{}} \cup {{x} : x \in S}

\* PATCH /devices/{id}, first half: read the row, merge, validate, seal.
PatchRead(c, id) ==
    /\ Handles(c, "device")
    /\ Exists(id)
    /\ \E body \in [vendor : Maybe({"auto"}), type : Maybe(Types), config : Maybe(SentConfigs(c))] :
          LET row == Patched(devices[id], body)
          IN  /\ Valid(row.type, row.config)
              /\ Becomes(c, [request[c] EXCEPT !.phase = "update",
                            !.job = [id |-> id, row |-> Sealed(row), body |-> body, version |-> writes[id]]])
    /\ UNCHANGED <<tableVars, workload, token, clientVars, clock>>

\* Second half: all columns are written, unless the row is gone.
PatchWrite(c) ==
    /\ request[c].phase = "update"
    /\ Exists(request[c].job.id)
    /\ UpdateRow(request[c].job.id, request[c].job.row)
    /\ Written(request[c].job.id)
    /\ Ends(c)
    /\ UNCHANGED <<timelineVars, workload, token, clientVars, clock>>

DeleteDevice(c, id) ==
    /\ Handles(c, "device") \/ Handles(c, "delete")
    /\ Exists(id)
    /\ DeleteRow(id)
    /\ DeleteChangesOf(id)
    /\ Written(id)
    /\ Ends(c)
    /\ walk' = [d \in Clients |-> [walk[d] EXCEPT !.cut = TRUE]]
    /\ UNCHANGED <<workload, token, view, clock>>

\* Every handler may end here with an error, or with the process.
Fails(c) ==
    /\ request[c] # Idle
    /\ Ends(c)
    /\ UNCHANGED <<tableVars, workload, token, clientVars, clock>>

-----------------------------------------------------------------------------
\* Changes

\* POST /devices/{id}/snapshot, and a poll: the device is read, its text
\* fetched, and the time taken before the analysis...
Snapshot(c, id) ==
    /\ Handles(c, "snapshot")
    /\ Exists(id)
    /\ clock < Len(Stamps)
    /\ clock' = clock + 1
    /\ Becomes(c, [request[c] EXCEPT !.phase = "record", !.job = [id |-> id, stamp |-> Stamps[clock + 1]]])
    /\ UNCHANGED <<tableVars, workload, token, clientVars>>

\* ...after which the row is inserted, if the device still has one: rows need
\* not come in the order of their times.
RecordChange(c) ==
    /\ request[c].phase = "record"
    /\ Exists(request[c].job.id)
    /\ \E severity \in {"none", "high"} : Insert(request[c].job.id, request[c].job.stamp, severity)
    /\ walk' = [d \in Clients |-> [walk[d] EXCEPT !.grown = TRUE]]
    /\ Ends(c)
    /\ UNCHANGED <<devices, writes, workload, token, view, clock>>

\* Rank of a severity, by the documentation of min_severity.
AtLeast(severity, min) == min = "none" \/ severity = "high" \/ severity = min

\* GET /changes, the next page of a walk or the first of a new one.
ListPage(c) ==
    /\ Handles(c, "list")
    /\ \E min \in {"none", "high"}, limit \in {0, MaxLimit + 1} :
          LET w == IF walk[c].done
                   THEN WalkFrom(FALSE, min, limit, {r \in changes : AtLeast(r.severity, min)})
                   ELSE walk[c]
              size == PageSize(w.limit)
              page == ListChanges(w.min, size, Offset(w.offset))
          IN  walk' = [walk EXCEPT ![c] = [w EXCEPT !.got = @ \o page, !.offset = @ + size,
                                                    !.done = Len(page) < size]]
    /\ Ends(c)
    /\ UNCHANGED <<tableVars, workload, token, view, clock>>

-----------------------------------------------------------------------------
Next ==
    \/ \E c \in Clients : Arrive(c) \/ Count(c) \/ Validate(c) \/ Fails(c)
    \/ \E t \in Tokens : CreateToken(t) \/ DeleteToken(t)
    \/ \E c \in Clients, id \in Ids :
          \/ CreateDevice(c, id) \/ GetDevice(c, id) \/ PatchRead(c, id) \/ DeleteDevice(c, id)
          \/ Snapshot(c, id)
    \/ \E c \in Clients : PatchWrite(c) \/ RecordChange(c) \/ ListPage(c)

Spec == Init /\ [][Next]_vars

-----------------------------------------------------------------------------
\* What must hold

\* A handler runs only for a caller whose token was live, or for a local one
\* while there was no token, at some time since its request came: once the
\* first token exists the door is closed "for every route at the next request",
\* although the count and the validation are two statements.
DoorStaysClosed ==
    \A c \in Clients : request[c].phase \in {"handle", "update", "record"} =>
        request[c].trusted \/ (request[c].open /\ request[c].caller.loopback)

\* A PATCH that nothing overlaps leaves each credential the row's collector
\* uses at what the client typed or, where it sent back the redacted value or
\* no configuration, at what a fetch opened before: however often a row is
\* read, sent back and sealed again.
PatchKeepsSecrets ==
    [][\A c \in Clients : PatchWrite(c) /\ request[c].job.version = writes[request[c].job.id] =>
          LET old == devices[request[c].job.id].config
              new == devices'[request[c].job.id]
              sent == request[c].job.body.config
          IN  \A f \in SensitiveFields(new.type) \cap DOMAIN new.config :
                  Opened(new.config[f]) =
                      IF \E s \in sent : s[f] # Redacted THEN (CHOOSE s \in sent : TRUE)[f].text
                      ELSE Opened(old[f])]_vars

\* Who pages through the changes meets every row that was there at the start,
\* wherever new rows are inserted meanwhile, and each once if none is: unless a
\* device is deleted, offsets into a moving list only ever repeat.
WalkSeesAll ==
    \A c \in Clients : walk[c].done /\ ~walk[c].cut =>
        /\ walk[c].start \subseteq ToSet(walk[c].got)
        /\ ~walk[c].grown => Len(walk[c].got) = Cardinality(walk[c].start)

=============================================================================
