--------------------------------- MODULE Proxy ---------------------------------
(***************************************************************************)
(* The life of a proxied request (src/internal/proxy/proxy.go), from the   *)
(* front door to its one terminal line: the choice of a server, directly   *)
(* or through a load-balancer alias (src/internal/balancer/balancer.go),   *)
(* the wait for a concurrency slot, the exchange with the upstream server, *)
(* and the stream pumped under the eyes of a watchdog.                     *)
(*                                                                         *)
(* A request's own steps are told apart where it reads something another   *)
(* goroutine writes: its client, who may hang up, the health prober, the   *)
(* other requests and the watchdog of its stream. The slot queue is the    *)
(* one FairSem implements, in the terms of SlotLine.                       *)
(***************************************************************************)
EXTENDS Integers, Sequences, FiniteSets, SequencesExt

CONSTANTS
    Reqs,       \* requests
    Models,     \* published model ids
    Servers,
    Home,       \* the server of each model
    Cap,        \* max_concurrency of each server, 0 for no limit
    NoModel,    \* stands for no model chosen
    Members,    \* the members of its route, in the configured order
    Cost,       \* the cost of each member
    Deadlines   \* whether total_timeout is set

ASSUME ReqsFinite == IsFiniteSet(Reqs)
ASSUME ModelsAssumption == Home \in [Models -> Servers] /\ NoModel \notin Models
ASSUME CapAssumption == Cap \in [Servers -> Nat]
ASSUME MembersAssumption == Members \in Seq(Models) /\ Cost \in [Models -> Nat]
ASSUME DeadlinesAssumption == Deadlines \in BOOLEAN

VARIABLES
    call,       \* of each request: see Calls
    inflight,   \* balancer.Registry.n, 0 where the code has no entry
    free,       \* free slots of each server (fairSem.avail)
    line,       \* requests queued at each server (fairSem.waiters)
    health      \* of each server, as the prober last left it: see Health

vars == <<call, inflight, free, line, health>>
slotVars == <<free, line>>

\* down; up without an active address; up with one, but not yet in the route
\* table; up and in the table. (Whether the table still lists a server that is
\* down or unelected makes no difference to a request.)
Health == {"down", "unelected", "unlisted", "up"}

StreamStates == {"reading", "writing", "checking"}
\* The states in which a request owns a slot, and is counted as in flight.
Holding == {"granted", "slot", "aiming", "asking", "body", "releasing"} \cup StreamStates
Counted == Holding \cup {"admitted", "queued", "refused", "leaving"}

Row(status, http) == [kind |-> "row", status |-> status, http |-> http]
Rejection(http) == [kind |-> "rejection", status |-> "rejected", http |-> http]

Statuses == {"ok", "cancelled", "upstream_error", "upstream_timeout"}
Codes == {200, 400, 404, 413, 422, 429, 499, 500, 502, 503, 504}
Lines == {Row(s, h) : s \in Statuses, h \in Codes} \cup {Rejection(h) : h \in Codes}

\* model: the model chosen, while the request lives; gone: the
\* client has hung up; sent: the status the client has got, 0 for none yet;
\* lines: the terminal lines logged; late: total_timeout has passed; silent:
\* the upstream has nothing to read; closed: its body was closed under the
\* reader; idle: idleFired; ending: how the last read of the stream ended.
Calls ==
    [pc : Counted \cup {"idle", "chosen", "done"},
     model : Models \cup {NoModel}, gone : BOOLEAN, sent : {0} \cup Codes,
     lines : Seq(Lines), late : BOOLEAN, silent : BOOLEAN, closed : BOOLEAN,
     idle : BOOLEAN, ending : {"none", "eof", "error"}]

-----------------------------------------------------------------------------
(* State functions *)

In(r, states) == call[r].pc \in states
ServerOf(r) == Home[call[r].model]

Holders(s) == {r \in Reqs : In(r, Holding) /\ ServerOf(r) = s}

\* A model that resolves now: in the table, and behind a server that is up and
\* has an address.
Available(m) == health[Home[m]] = "up"

\* compile and pick: the available member with the least load, the earliest of
\* those that tie.
Load(i) == Cost[Members[i]] * inflight[Members[i]]
Candidates == {i \in DOMAIN Members : Available(Members[i])}
Picked(i) ==
    /\ i \in Candidates
    /\ \A j \in Candidates : Load(i) < Load(j) \/ (Load(i) = Load(j) /\ i <= j)

\* The handler moves on; it logs its terminal line and answers, unless the
\* response has begun (answer 0: it writes nothing). Of the exchange, nothing
\* matters after that.
Go(r, pc) == call' = [call EXCEPT ![r].pc = pc]
Ended(c, terminal, answer, pc) ==
    [c EXCEPT !.lines = Append(@, terminal),
              !.sent = IF @ = 0 THEN answer ELSE @,
              !.pc = pc, !.late = FALSE, !.silent = FALSE, !.closed = FALSE,
              !.idle = FALSE, !.ending = "none"]
End(r, terminal, answer, pc) ==
    call' = [call EXCEPT ![r] = Ended(call[r], terminal, answer, pc)]

Cancelled == Row("cancelled", 499)

\* Registry.Add: an entry that is not positive is deleted.
Add(m, delta) ==
    inflight' = [inflight EXCEPT ![m] = IF @ + delta <= 0 THEN 0 ELSE @ + delta]

-----------------------------------------------------------------------------
(* The front door, routing, admission *)

Init ==
    /\ call = [r \in Reqs |->
                 [pc |-> "idle", model |-> NoModel, gone |-> FALSE, sent |-> 0, lines |-> <<>>,
                  late |-> FALSE, silent |-> FALSE, closed |-> FALSE, idle |-> FALSE,
                  ending |-> "none"]]
    /\ inflight = [m \in Models |-> 0]
    /\ free = Cap
    /\ line = [s \in Servers |-> <<>>]
    /\ health = [s \in Servers |-> "down"]

\* The body is too large or cannot be read; it is not a request.
RefuseBody(r) ==
    /\ In(r, {"idle"})
    /\ \E http \in {413, 400} : End(r, Rejection(http), http, "done")
    /\ UNCHANGED <<inflight, slotVars, health>>

\* The client hangs up while the body is read: no line is logged.
LoseBody(r) ==
    /\ In(r, {"idle"})
    /\ call' = [call EXCEPT ![r].pc = "done", ![r].gone = TRUE]
    /\ UNCHANGED <<inflight, slotVars, health>>

\* resolve, for a published id: the rest of the front door reads nothing that
\* anybody else writes.
ResolveModel(r, m) ==
    /\ In(r, {"idle"})
    /\ IF Available(m)
       THEN call' = [call EXCEPT ![r].pc = "chosen", ![r].model = m]
       ELSE End(r, Rejection(404), 404, "done")
    /\ UNCHANGED <<inflight, slotVars, health>>

\* resolve, for an alias: the choice is made on counts it does not yet change.
ResolveAlias(r) ==
    /\ In(r, {"idle"})
    /\ \/ /\ Candidates = {}
          /\ End(r, Rejection(404), 404, "done")
       \/ \E i \in DOMAIN Members :
             /\ Picked(i)
             /\ call' = [call EXCEPT ![r].pc = "chosen", ![r].model = Members[i]]
    /\ UNCHANGED <<inflight, slotVars, health>>

\* Inflight.Add(target.Published, 1).
Admit(r) ==
    /\ In(r, {"chosen"})
    /\ Add(call[r].model, 1)
    /\ Go(r, "admitted")
    /\ UNCHANGED <<slotVars, health>>

-----------------------------------------------------------------------------
(* The concurrency slot *)

\* AcquireSlot, up to its wait.
Acquire(r) ==
    LET s == ServerOf(r) IN
    /\ In(r, {"admitted"})
    /\ \/ /\ Cap[s] = 0 \/ free[s] > 0
          /\ free' = [free EXCEPT ![s] = IF Cap[s] = 0 THEN @ ELSE @ - 1]
          /\ line' = line
          /\ Go(r, "slot")
       \/ /\ Cap[s] > 0 /\ free[s] = 0
          /\ line' = [line EXCEPT ![s] = Append(@, r)]
          /\ free' = free
          /\ Go(r, "queued")
    /\ UNCHANGED <<inflight, health>>

\* The queue timeout, or the client's departure, ends the wait.
Quit(r) ==
    LET s == ServerOf(r) IN
    /\ In(r, {"queued"})
    /\ line' = [line EXCEPT ![s] = RemoveFirst(@, r)]
    /\ Go(r, "refused")
    /\ UNCHANGED <<inflight, free, health>>

\* The wait ends with the grant; so it does when the timeout or the departure is
\* seen first and the grant turns out to be on its way.
Receive(r) ==
    /\ In(r, {"granted"})
    /\ Go(r, "slot")
    /\ UNCHANGED <<inflight, slotVars, health>>

\* Slip: the deferred count is set up only once a slot is owned.
RefuseStillCounted(r) ==
    /\ In(r, {"refused"})
    /\ IF call[r].gone
       THEN End(r, Cancelled, 0, "done")
       ELSE End(r, Rejection(429), 429, "done")
    /\ UNCHANGED <<inflight, slotVars, health>>

\* AcquireSlot returned false: why is worked out from what is true by now.
Refuse(r) ==
    /\ In(r, {"refused"})
    /\ \/ /\ call[r].gone
          /\ End(r, Cancelled, 0, "leaving")
       \/ /\ ~call[r].gone /\ health[ServerOf(r)] = "down"
          /\ End(r, Rejection(503), 503, "leaving")
       \/ /\ ~call[r].gone /\ health[ServerOf(r)] # "down"
          /\ End(r, Rejection(429), 429, "leaving")
    /\ UNCHANGED <<inflight, slotVars, health>>

\* Slip: the refusal returns before the deferred release is set up.
CheckUpLeaks(r) ==
    /\ In(r, {"slot"})
    /\ IF health[ServerOf(r)] = "down"
       THEN End(r, Rejection(503), 503, "leaving")
       ELSE Go(r, "aiming")
    /\ UNCHANGED <<inflight, slotVars, health>>

\* The slot is owned; the server may have gone down during the wait.
CheckUp(r) ==
    /\ In(r, {"slot"})
    /\ IF health[ServerOf(r)] = "down"
       THEN End(r, Rejection(503), 503, "releasing")
       ELSE Go(r, "aiming")
    /\ UNCHANGED <<inflight, slotVars, health>>

-----------------------------------------------------------------------------
(* dispatch: the exchange with the server *)

\* The address is read last; it may have been lost since the check. A request
\* that cannot be built is El Pulpo's own failure.
Aim(r) ==
    /\ In(r, {"aiming"})
    /\ IF health[ServerOf(r)] \notin {"unlisted", "up"}
       THEN End(r, Row("upstream_error", 503), 503, "releasing")
       ELSE Go(r, "asking") \/ End(r, Rejection(500), 500, "releasing")
    /\ UNCHANGED <<inflight, slotVars, health>>

\* The server answers: 5xx, 4xx, or with a body or a stream.
Answer(r) ==
    /\ In(r, {"asking"})
    /\ \/ End(r, Row("upstream_error", 502), 502, "releasing")
       \/ End(r, Row("ok", 422), 422, "releasing")
       \/ Go(r, "body")
       \/ Go(r, "reading")
    /\ UNCHANGED <<inflight, slotVars, health>>

\* failUpstream: no answer. A departed client comes before the timeouts, but
\* not before total_timeout.
AskFails(r) ==
    /\ In(r, {"asking"})
    /\ IF call[r].gone /\ ~call[r].late
       THEN End(r, Cancelled, 0, "releasing")
       ELSE \/ End(r, Row("upstream_timeout", 504), 504, "releasing")
            \/ /\ ~call[r].late
               /\ End(r, Row("upstream_error", 502), 502, "releasing")
    /\ UNCHANGED <<inflight, slotVars, health>>

\* respondBuffered, when the whole body was read; the write is not checked.
BodyRead(r) ==
    /\ In(r, {"body"})
    /\ End(r, Row("ok", 200), 200, "releasing")
    /\ UNCHANGED <<inflight, slotVars, health>>

\* Slip: a failed read is tried again.
BodyFailsRetried(r) ==
    /\ In(r, {"body"})
    /\ UNCHANGED vars

\* Slip: the case of the failed read falls through to the normal end.
BodyFailsOn(r) ==
    /\ In(r, {"body"})
    /\ \/ End(r, Row("upstream_error", 502), 502, "body")
       \/ /\ call[r].gone
          /\ End(r, Cancelled, 0, "releasing")
    /\ UNCHANGED <<inflight, slotVars, health>>

\* respondBuffered, when the read failed, by a timeout or otherwise.
BodyFails(r) ==
    /\ In(r, {"body"})
    /\ \/ /\ call[r].gone
          /\ End(r, Cancelled, 0, "releasing")
       \/ /\ ~call[r].gone
          /\ \/ End(r, Row("upstream_timeout", 504), 504, "releasing")
             \/ End(r, Row("upstream_error", 502), 502, "releasing")
    /\ UNCHANGED <<inflight, slotVars, health>>

-----------------------------------------------------------------------------
(* pumpStream, its watchdog, and the end of the handler *)

\* The head of the loop, before the read: the client has left.
StreamTop(r) ==
    /\ In(r, {"reading"}) /\ call[r].gone
    /\ End(r, Cancelled, 0, "releasing")
    /\ UNCHANGED <<inflight, slotVars, health>>

\* ReadBytes returns a line. Lines that were buffered when the body was closed
\* are taken together with the error that follows them.
StreamLine(r) ==
    /\ In(r, {"reading"})
    /\ ~call[r].silent /\ ~call[r].closed
    /\ call' = [call EXCEPT ![r].pc = "writing", ![r].sent = 200]
    /\ UNCHANGED <<inflight, slotVars, health>>

\* ReadBytes returns an error, with or without a last line: the stream's end,
\* a failure, the closed body, the deadline, or the departure of the client,
\* which cancels the exchange whatever the watchdog does.
StreamStops(r) ==
    /\ In(r, {"reading"})
    /\ \E ending \in {"eof", "error"}, last \in BOOLEAN :
          /\ ending = "eof" => ~call[r].silent /\ ~call[r].closed
          /\ ending = "error" =>
                ~call[r].silent \/ call[r].closed \/ call[r].late \/ call[r].gone
          /\ call' = [call EXCEPT ![r].ending = ending,
                                  ![r].pc = IF last THEN "writing" ELSE "checking",
                                  ![r].sent = IF last THEN 200 ELSE @]
    /\ UNCHANGED <<inflight, slotVars, health>>

\* The line is written, for as long as the client takes, or it cannot be.
StreamWrite(r) ==
    /\ In(r, {"writing"})
    /\ \/ Go(r, IF call[r].ending = "none" THEN "reading" ELSE "checking")
       \/ /\ call[r].gone
          /\ End(r, Cancelled, 0, "releasing")
    /\ UNCHANGED <<inflight, slotVars, health>>

\* Slip: the status of the row forgets that the response had begun.
StreamEndsAnew(r) ==
    /\ In(r, {"checking"})
    /\ \/ /\ call[r].gone
          /\ End(r, Cancelled, 0, "releasing")
       \/ /\ ~call[r].gone /\ call[r].idle
          /\ End(r, Row("upstream_timeout", 504), 504, "releasing")
       \/ /\ ~call[r].gone /\ ~call[r].idle
          /\ IF call[r].ending = "eof"
             THEN End(r, Row("ok", 200), 200, "releasing")
             ELSE End(r, Row("upstream_error", 502), 502, "releasing")
    /\ UNCHANGED <<inflight, slotVars, health>>

\* Why the stream ended. The row carries the status the client has seen, when
\* the response had begun; a stream that ended without a line is an empty 200.
StreamEnds(r) ==
    LET http(failure) == IF call[r].sent = 0 THEN failure ELSE 200 IN
    /\ In(r, {"checking"})
    /\ \/ /\ call[r].gone
          /\ End(r, Cancelled, 0, "releasing")
       \/ /\ ~call[r].gone /\ call[r].idle
          /\ End(r, Row("upstream_timeout", http(504)), 504, "releasing")
       \/ /\ ~call[r].gone /\ ~call[r].idle
          /\ IF call[r].ending = "eof"
             THEN End(r, Row("ok", 200), 200, "releasing")
             ELSE End(r, Row("upstream_error", http(502)), 502, "releasing")
    /\ UNCHANGED <<inflight, slotVars, health>>

\* The watchdog closes the body when the client has left.
WatchGone(r) ==
    /\ In(r, StreamStates) /\ call[r].gone /\ ~call[r].closed
    /\ call' = [call EXCEPT ![r].closed = TRUE]
    /\ UNCHANGED <<inflight, slotVars, health>>

\* Slip: the watchdog waits for the first line only.
WatchIdleFirst(r) ==
    /\ In(r, {"reading"}) /\ call[r].silent /\ call[r].sent = 0
    /\ ~call[r].closed
    /\ call' = [call EXCEPT ![r].closed = TRUE, ![r].idle = TRUE]
    /\ UNCHANGED <<inflight, slotVars, health>>

\* It closes it too when no read has returned for stream_idle_timeout: because
\* the upstream is silent, or because the client is slow to take what was read.
WatchIdle(r) ==
    /\ \/ In(r, {"reading"}) /\ call[r].silent
       \/ In(r, {"writing"})
    /\ ~call[r].closed
    /\ call' = [call EXCEPT ![r].closed = TRUE, ![r].idle = TRUE]
    /\ UNCHANGED <<inflight, slotVars, health>>

\* Slip: the slot handed to the head of the line is counted free as well.
ReleaseTwice(r) ==
    LET s == ServerOf(r) IN
    /\ In(r, {"releasing"})
    /\ IF line[s] # <<>>
       THEN /\ call' = [call EXCEPT ![r].pc = "leaving", ![Head(line[s])].pc = "granted"]
            /\ line' = [line EXCEPT ![s] = Tail(@)]
       ELSE /\ Go(r, "leaving")
            /\ line' = line
    /\ free' = [free EXCEPT ![s] = IF Cap[s] = 0 THEN @ ELSE @ + 1]
    /\ UNCHANGED <<inflight, health>>

\* The deferred ReleaseSlot: the slot goes to the head of the line, or is free.
Release(r) ==
    LET s == ServerOf(r) IN
    /\ In(r, {"releasing"})
    /\ \/ /\ line[s] # <<>>
          /\ call' = [call EXCEPT ![r].pc = "leaving", ![Head(line[s])].pc = "granted"]
          /\ line' = [line EXCEPT ![s] = Tail(@)]
          /\ free' = free
       \/ /\ line[s] = <<>>
          /\ Go(r, "leaving")
          /\ free' = [free EXCEPT ![s] = IF Cap[s] = 0 THEN @ ELSE @ + 1]
          /\ line' = line
    /\ UNCHANGED <<inflight, health>>

\* The deferred Inflight.Add(target.Published, -1); nothing of the call is left
\* but what it logged and answered.
Leave(r) ==
    /\ In(r, {"leaving"})
    /\ Add(call[r].model, -1)
    /\ call' = [call EXCEPT ![r].pc = "done", ![r].model = NoModel]
    /\ UNCHANGED <<slotVars, health>>

-----------------------------------------------------------------------------
(* The others *)

ClientLeaves(r) ==
    /\ ~In(r, {"idle", "releasing", "leaving", "done"}) /\ ~call[r].gone
    /\ call' = [call EXCEPT ![r].gone = TRUE]
    /\ UNCHANGED <<inflight, slotVars, health>>

DeadlinePasses(r) ==
    /\ Deadlines /\ In(r, {"asking", "body"} \cup StreamStates) /\ ~call[r].late
    /\ call' = [call EXCEPT ![r].late = TRUE]
    /\ UNCHANGED <<inflight, slotVars, health>>

\* The upstream falls silent, or speaks again. (Its silence matters while it is
\* read; it is not told apart while the handler is busy with what it read.)
UpstreamTurns(r) ==
    /\ In(r, {"reading"})
    /\ call' = [call EXCEPT ![r].silent = ~@]
    /\ UNCHANGED <<inflight, slotVars, health>>

\* A probe round changes what is known of a server, or rebuilds the table; an
\* older table may be stored over a newer one.
Probe(s) ==
    /\ \E h \in Health \ {health[s]} :
          /\ h = "down" => health[s] = "unelected"
          /\ h = "unelected" => health[s] \in {"unlisted", "up"}
          /\ health' = [health EXCEPT ![s] = h]
    /\ UNCHANGED <<call, inflight, slotVars>>

\* What a handler does next of its own accord.
FrontDoor(r) ==
    \/ RefuseBody(r) \/ LoseBody(r)
    \/ ResolveAlias(r) \/ \E m \in Models : ResolveModel(r, m)
Enter(r) == Admit(r) \/ Acquire(r)
Wait(r) == Quit(r) \/ Receive(r)
Exchange(r) == Aim(r) \/ Answer(r) \/ AskFails(r) \/ BodyRead(r) \/ BodyFails(r)
Pump(r) == StreamTop(r) \/ StreamLine(r) \/ StreamStops(r) \/ StreamWrite(r) \/ StreamEnds(r)
Depart(r) == Release(r) \/ Leave(r)

Next ==
    \/ \E r \in Reqs :
          \/ FrontDoor(r) \/ Enter(r) \/ Wait(r) \/ Refuse(r) \/ CheckUp(r)
          \/ Exchange(r) \/ Pump(r) \/ Depart(r)
          \/ WatchGone(r) \/ WatchIdle(r)
          \/ ClientLeaves(r) \/ DeadlinePasses(r) \/ UpstreamTurns(r)
    \/ \E s \in Servers : Probe(s)

Spec == Init /\ [][Next]_vars

\* A handler keeps going; queue_timeout bounds its wait, connect_timeout and
\* first_byte_timeout bound its wait for an answer, the watchdog its wait for a
\* line, and a client that stays takes what it is sent. Nothing bounds the wait
\* for the rest of a body that is not a stream but the departure of the client.
Handler(r) ==
    \/ Enter(r) \/ Wait(r) \/ Refuse(r) \/ CheckUp(r)
    \/ Aim(r) \/ Answer(r) \/ AskFails(r) \/ (call[r].gone /\ BodyFails(r))
    \/ Pump(r) \/ Depart(r)
Watchdog(r) == WatchGone(r) \/ WatchIdle(r)

Fairness == \A r \in Reqs : WF_vars(Handler(r)) /\ WF_vars(Watchdog(r))

FairSpec == Spec /\ Fairness

-----------------------------------------------------------------------------
(* Properties *)

\* Every variable stays in the range the code gives it.
TypeOK ==
    /\ call \in [Reqs -> Calls]
    /\ inflight \in [Models -> Nat]
    /\ free \in [Servers -> Nat]
    /\ line \in [Servers -> Seq(Reqs)]
    /\ health \in [Servers -> Health]

\* The counts the balancer compares are those of the requests admitted and not
\* ended, whatever way they end; a request queued for a slot is one of them.
InflightIsExact ==
    \A m \in Models :
        inflight[m] = Cardinality({r \in Reqs : In(r, Counted) /\ call[r].model = m})

\* Every slot of a capped server is free or with a request that will give it
\* back, so the upstream never sees more exchanges than the cap.
SlotsAreExact ==
    \A s \in Servers : Cap[s] > 0 => free[s] + Cardinality(Holders(s)) = Cap[s]

\* A request ends in exactly one terminal line, row or rejection; only a client
\* that leaves before its body is read ends without one.
OneTerminalLine ==
    \A r \in Reqs :
        LET n == Len(call[r].lines) IN
        /\ In(r, {"releasing", "leaving"}) => n = 1
        /\ In(r, {"done"}) => n = 1 \/ (n = 0 /\ call[r].gone)
        /\ ~In(r, {"releasing", "leaving", "done"}) => n = 0

\* The status in the terminal line is the status the client got, unless it left.
LineTellsTheClient ==
    \A r \in Reqs : \A i \in DOMAIN call[r].lines :
        \/ call[r].lines[i].http = call[r].sent
        \/ call[r].gone /\ call[r].lines[i] = Cancelled

\* A client that leaves is let go of: its request ends, and its slot comes back,
\* wherever the request was.
DeparturesEnd == \A r \in Reqs : call[r].gone ~> In(r, {"done"})

\* A stream whose upstream falls silent is ended, unless it speaks again.
SilentStreamsEnd ==
    \A r \in Reqs :
        In(r, StreamStates) /\ call[r].silent ~> ~In(r, StreamStates) \/ ~call[r].silent

\* What the documentation says of stream_idle_timeout: it is the gap allowed
\* between two chunks of the upstream. (It does not hold: see the README.)
IdleMeansSilent == [][\A r \in Reqs : WatchIdle(r) => call[r].silent]_vars
==============================================================================
