------------------------------- MODULE Accounts -------------------------------
(***************************************************************************)
(* The books: the row each request leaves (src/internal/proxy/proxy.go),   *)
(* the table of rows with its retention (src/internal/usage/prune.go) and  *)
(* the reports over it (src/internal/usage/query.go, csv.go).              *)
(*                                                                         *)
(* A report is several queries, each of which sees the table as it is at   *)
(* that moment; rows are committed and pruned in between. Time is counted  *)
(* in days.                                                                *)
(***************************************************************************)
EXTENDS Metering

CONSTANTS
    Reqs,
    Published,  \* published ids
    Base,       \* of each its base model,
    Host,       \* its host
    Server,     \* and its server
    Prices,     \* price entries
    Asks,       \* requests that may be made: the name asked for, the id it
                \* resolves to, and the length of the body
    Answers,    \* what an upstream may answer: endpoint, stream, frames
    Statuses,   \* of exchanges that fail: cancelled, upstream_error, upstream_timeout
    Stored,     \* rows of an earlier life
    Latency,    \* of each request
    Retention,  \* retention_days, 0 for off
    Limit,      \* rows deleted at once: 5000
    Pruners,    \* the daily loop, and the button of the dashboard
    Reports,    \* reports that may be asked for: a filter, and its groupings
    LastDay,    \* bound
    Faults      \* bound: deletes that fail

ASSUME PublishedAssumption ==
    DOMAIN Base = Published /\ DOMAIN Host = Published /\ DOMAIN Server = Published
ASSUME AsksAssumption == \A a \in Asks : a.id \in Published /\ a.size \in Nat
ASSUME AccountsAssumption ==
    /\ Retention \in Nat /\ Limit \in Nat \ {0} /\ LastDay \in Nat /\ Faults \in Nat
    /\ Latency \in [Reqs -> Nat]
    /\ Statuses \subseteq {"cancelled", "upstream_error", "upstream_timeout"}
\* What is parsed is frames; a buffered answer is one document.
ASSUME AnswersAssumption ==
    \A a \in Answers : /\ a.frames \in Seq(ToSet(a.frames)) /\ \A f \in ToSet(a.frames) : IsFrame(f)
                       /\ a.stream \in BOOLEAN /\ (~a.stream => Len(a.frames) = 1)
\* Rows of an earlier life are of requests of an earlier life.
ASSUME StoredAssumption == IsFiniteSet(Stored) /\ \A r \in Stored : r.req \notin Reqs /\ r.ts \in Nat
\* A model and every alias is a name of its own (validate.go).
ASSUME PricesAssumption ==
    \A e, f \in Prices : e # f => ({e.model} \cup e.aliases) \cap ({f.model} \cup f.aliases) = {}

\* No count is below nothing, and no price.
IsCount(t) == t.in \in Nat /\ t.out \in Nat /\ t.cached \in Nat /\ t.reasoning \in Nat
ASSUME CountsAssumption ==
    /\ \A a \in Answers : \A f \in ToSet(a.frames) :
           \A u \in f.usage \cup UNION {x.usage : x \in f.response} : IsUsage(u)
    /\ \A r \in Stored : IsCount(r.tokens) /\ r.latency \in Nat
    /\ \A e \in Prices : /\ e.input \in Nat /\ e.output \in Nat
                        /\ e.cached_input \subseteq Nat /\ e.reasoning_output \subseteq Nat

VARIABLES
    call,       \* of each request: see Init
    pending,    \* rows on their way to the table
    rows,       \* the table requests
    day,
    pruner,     \* of each pruner its cutoff, while it deletes
    report,     \* the report under way
    faults

vars == <<call, pending, rows, day, pruner, report, faults>>
tableVars == <<pending, rows, day, pruner, faults>>

-----------------------------------------------------------------------------
(* Amounts *)

Least(a, b) == IF a < b THEN a ELSE b

\* PriceIndex.Lookup, by the base model of a row.
EntryOf(row) == {e \in Prices : Base[row.model] \in {e.model} \cup e.aliases}
TheEntry(row) == CHOOSE e \in EntryOf(row) : TRUE

\* AmountTokens, per million tokens: a part cannot exceed its whole.
Amount(t, e) ==
    LET cached == Least(t.cached, t.in)
        reasoning == Least(t.reasoning, t.out)
    IN  (t.in - cached) * e.input + cached * Pick(e.cached_input, {e.input})
          + (t.out - reasoning) * e.output + reasoning * Pick(e.reasoning_output, {e.output})

\* The sum of the values of a function: how many pairs there are of an argument
\* and a number up to its value.
Sum(f) == Cardinality(UNION {{x} \X (1..f[x]) : x \in DOMAIN f})

\* Sums over a set of rows, and the amount the entry of one model makes of them.
Tokens(S) == [in |-> Sum([r \in S |-> r.tokens.in]), out |-> Sum([r \in S |-> r.tokens.out]),
              cached |-> Sum([r \in S |-> r.tokens.cached]),
              reasoning |-> Sum([r \in S |-> r.tokens.reasoning])]
Priced(S) == {r \in S : EntryOf(r) # {}}
\* Each published id is priced as a whole.
AmountOf(S) ==
    Sum([m \in {r.model : r \in Priced(S)} |->
            LET T == {r \in S : r.model = m}
            IN  Amount(Tokens(T), TheEntry(CHOOSE r \in T : TRUE))])

-----------------------------------------------------------------------------
(* Queries: each is one look at the table *)

\* Filter.where; an empty list selects everything. (models: the ids that contain
\* the text of model.)
Selects(f, r) ==
    /\ f.from = 0 \/ r.ts >= f.from
    /\ f.to = 0 \/ r.ts < f.to
    /\ f.hosts = {} \/ Host[r.model] \in f.hosts
    /\ f.servers = {} \/ Server[r.model] \in f.servers
    /\ f.endpoints = {} \/ r.endpoint \in f.endpoints
    /\ f.models = {} \/ r.model \in f.models
    /\ f.statuses = {} \/ r.status \in f.statuses
Selected(f) == {r \in rows : Selects(f, r)}

\* The group a row falls into. Grouped by model, an alias goes with the entry.
KeyOf(by, r) ==
    CASE by = "model" -> IF EntryOf(r) = {} THEN Base[r.model] ELSE TheEntry(r).model
      [] by = "host" -> Host[r.model]
      [] by = "server" -> <<Host[r.model], Server[r.model]>>
      [] by = "day" -> r.ts

Totals(S) == [requests |-> Cardinality(S), tokens |-> Tokens(S),
              estimated |-> Cardinality({r \in S : r.estimated})]

Group(key, S) ==
    [key |-> key, members |-> {r.model : r \in S}, totals |-> Totals(S), amount |-> AmountOf(S),
     priced |-> Priced(S) # {}, no_price |-> Priced(S) # S, p50 |-> 0, p95 |-> 0]

\* Slip: the rows of a model are those of the group's name.
InGroupOfName(by, g, r) == IF by = "model" THEN r.model = g.key ELSE KeyOf(by, r) = g.key
\* groupPredicate: the rows the percentiles of a group are taken from.
InGroup(by, g, r) == IF by = "model" THEN r.model \in g.members ELSE KeyOf(by, r) = g.key

\* ORDER BY latency_ms LIMIT 1 OFFSET k, 0 when there is no such row.
Percentile(S, k) ==
    LET Below(r) == {q \in S : q.latency < r.latency}
        UpTo(r) == {q \in S : q.latency <= r.latency}
        at == {r \in S : Cardinality(Below(r)) <= k /\ k < Cardinality(UpTo(r))}
    IN  IF at = {} THEN 0 ELSE (CHOOSE r \in at : TRUE).latency

-----------------------------------------------------------------------------
(* Requests *)

Unmade == [asked |-> "", id |-> "", size |-> 0]
Unanswered == [endpoint |-> "chat/completions", stream |-> FALSE, frames |-> <<>>]

Anything == [from |-> 0, to |-> 0, hosts |-> {}, servers |-> {}, endpoints |-> {}, models |-> {},
             statuses |-> {}]
NoReport == [pc |-> "none", filter |-> Anything, todo |-> <<>>, groups |-> <<>>, i |-> 0, n |-> 0,
             amount |-> 0, total |-> {}, shown |-> <<>>, touched |-> FALSE]

\* ts: when it began; at: frames read; got: what the client was sent.
Call(pc, ask, answer, ts, at, got, meter) ==
    [pc |-> pc, ask |-> ask, answer |-> answer, ts |-> ts, at |-> at, got |-> got, meter |-> meter]

Init ==
    /\ call = [r \in Reqs |-> Call("idle", Unmade, Unanswered, 0, 0, <<>>, Unread)]
    /\ pending = <<>>
    /\ rows = Stored
    /\ day = 1
    /\ pruner = [p \in Pruners |-> {}]
    /\ report = NoReport
    /\ faults = 0

\* A request is routed, and the upstream is asked.
Begin(r) ==
    /\ call[r].pc = "idle"
    /\ \E ask \in Asks, a \in Answers :
          call' = [call EXCEPT ![r] = Call("open", ask, a, day, 0, <<>>, Unread)]
    /\ UNCHANGED <<tableVars, report>>

\* finish: the row names the id that was resolved, never the name asked for.
Finish(r, c, status, counts) ==
    /\ call' = [call EXCEPT ![r] = [c EXCEPT !.pc = "done"]]
    /\ pending' = Append(pending,
           [req |-> r, ts |-> c.ts, model |-> c.ask.id, endpoint |-> c.answer.endpoint,
            status |-> status, tokens |-> counts.tokens, estimated |-> counts.estimated,
            latency |-> Latency[r]])
    /\ UNCHANGED <<rows, day, pruner, report, faults>>

Metered(c) == Counted(c.meter, c.ask.size)

\* The next frame is read, and written or not.
Reading(c) ==
    LET a == c.answer
        f == a.frames[c.at + 1]
    IN  Call(c.pc, c.ask, a, c.ts, c.at + 1, Append(c.got, Rewrite(a.endpoint, f, c.ask.asked)),
             MeterFrame(a.endpoint, c.meter, f))
MoreToRead(c) == c.pc = "open" /\ c.answer.stream /\ c.at < Len(c.answer.frames)
Relay(r) ==
    /\ MoreToRead(call[r])
    /\ call' = [call EXCEPT ![r] = Reading(call[r])]
    /\ UNCHANGED <<tableVars, report>>
RelayFails(r) ==
    LET c == [Reading(call[r]) EXCEPT !.got = call[r].got] IN
    /\ MoreToRead(call[r])
    /\ Finish(r, c, "cancelled", Metered(c))

\* The stream ends, or is cut short.
StreamEnds(r) ==
    LET c == call[r] IN
    /\ c.pc = "open" /\ c.answer.stream
    /\ \E status \in Statuses \cup {"ok"} :
          /\ status = "ok" => c.at = Len(c.answer.frames)
          /\ Finish(r, c, status, Metered(c))

\* respondBuffered: the whole body was read.
Respond(r) ==
    LET c == call[r]
        a == c.answer
        d == Call(c.pc, c.ask, a, c.ts, 1, <<Rewrite(a.endpoint, a.frames[1], c.ask.asked)>>,
                  MeterDoc(a.frames[1]))
    IN  /\ c.pc = "open" /\ ~a.stream
        /\ Finish(r, d, "ok", Metered(d))

\* No answer, an answer of 4xx or 5xx, or a body that cannot be read: nothing
\* is counted and nothing estimated.
Fail(r) ==
    /\ call[r].pc = "open" /\ call[r].at = 0
    /\ \E status \in Statuses \cup {"ok"} :
          Finish(r, call[r], status, Uncounted)

-----------------------------------------------------------------------------
(* The table *)

Touched == [report EXCEPT !.touched = @ \/ report.pc # "none"]

\* A batch is inserted in one transaction. (Ledger has the batches that fail.)
Insert ==
    /\ \E n \in DOMAIN pending :
          /\ rows' = rows \cup {pending[i] : i \in 1..n}
          /\ pending' = SubSeq(pending, n + 1, Len(pending))
    /\ report' = Touched
    /\ UNCHANGED <<call, day, pruner, faults>>

\* Slip: a row is kept one day longer than that.
OldLate(cutoff) == {r \in rows : r.ts + 1 < cutoff}
\* Rows by when their request began.
Old(cutoff) == {r \in rows : r.ts < cutoff}

\* PruneOlderThan, by the loop or the button: the cutoff is fixed here.
BeginPrune(p) ==
    /\ Retention > 0 /\ pruner[p] = {}
    /\ pruner' = [pruner EXCEPT ![p] = {day - Retention}]
    /\ UNCHANGED <<call, pending, rows, day, report, faults>>

\* One DELETE of at most Limit rows; the last one finds none.
PruneBatch(p) ==
    /\ \E cutoff \in pruner[p] :
          \/ /\ Old(cutoff) = {}
             /\ pruner' = [pruner EXCEPT ![p] = {}]
             /\ UNCHANGED <<rows, report>>
          \/ \E gone \in SUBSET Old(cutoff) :
                /\ gone # {} /\ Cardinality(gone) = Least(Limit, Cardinality(Old(cutoff)))
                /\ rows' = rows \ gone
                /\ report' = Touched
                /\ UNCHANGED pruner
    /\ UNCHANGED <<call, pending, day, faults>>
PruneFails(p) ==
    /\ pruner[p] # {}
    /\ faults < Faults /\ faults' = faults + 1
    /\ pruner' = [pruner EXCEPT ![p] = {}]
    /\ UNCHANGED <<call, pending, rows, day, report>>

Midnight ==
    /\ day < LastDay
    /\ day' = day + 1
    /\ UNCHANGED <<call, pending, rows, pruner, report, faults>>

-----------------------------------------------------------------------------
(* Reports: Summary, once for each grouping *)

At(pc) == report.pc = pc
Step(to) == report' = to /\ UNCHANGED <<call, tableVars>>

OpenReport ==
    /\ At("none")
    /\ \E q \in Reports :
          Step([NoReport EXCEPT !.pc = "groups", !.filter = q.filter, !.todo = q.groupings])

\* The groups, their sums and amounts, which are added up as they come: a published
\* id is priced as a whole in each group it has rows in.
QueryGroups ==
    LET by == Head(report.todo)
        S == Selected(report.filter)
        keys == SetToSeq({KeyOf(by, r) : r \in S})
        gs == [i \in DOMAIN keys |-> Group(keys[i], {r \in S : KeyOf(by, r) = keys[i]})]
    IN  /\ At("groups")
        /\ Step([report EXCEPT !.pc = IF keys = <<>> THEN "total" ELSE "count", !.i = 1,
                     !.groups = gs, !.amount = Sum([i \in DOMAIN gs |-> gs[i].amount])])

RowsOfGroup ==
    {r \in Selected(report.filter) : InGroup(Head(report.todo), report.groups[report.i], r)}

NextGroup == IF report.i < Len(report.groups) THEN "count" ELSE "total"

\* The percentiles of a group: a count, and two offsets that go with it. (Of
\* those two queries one sees no more than the other.)
QueryCount ==
    LET n == Cardinality(RowsOfGroup) IN
    /\ At("count")
    /\ IF n = 0 THEN Step([report EXCEPT !.pc = NextGroup, !.i = @ + 1])
       ELSE Step([report EXCEPT !.pc = "offsets", !.n = n])
QueryOffsets ==
    LET g == [report.groups[report.i] EXCEPT
                  !.p50 = Percentile(RowsOfGroup, report.n \div 2),
                  !.p95 = Percentile(RowsOfGroup, (report.n * 19) \div 20)]
    IN  /\ At("offsets")
        /\ Step([report EXCEPT !.pc = NextGroup, !.i = @ + 1, !.n = 0, !.groups[report.i] = g])

\* The totals are a query of their own, as are their percentiles; the amount is
\* that of the groups.
Shown(p50, p95) ==
    [report EXCEPT
        !.shown = Append(@, [by |-> Head(report.todo), groups |-> report.groups, amount |-> report.amount,
                             total |-> report.total, p50 |-> p50, p95 |-> p95]),
        !.pc = IF Len(report.todo) > 1 THEN "groups" ELSE "shown",
        !.todo = Tail(@), !.groups = <<>>, !.i = 0, !.amount = 0, !.total = {}]
QueryTotals ==
    /\ At("total")
    /\ Step([report EXCEPT !.pc = "totalOffsets", !.total = {Totals(Selected(report.filter))}])
QueryTotalOffsets ==
    LET S == Selected(report.filter)
        n == (CHOOSE t \in report.total : TRUE).requests
    IN  /\ At("totalOffsets")
        /\ Step(IF n = 0 THEN Shown(0, 0)
                ELSE Shown(Percentile(S, n \div 2), Percentile(S, (n * 19) \div 20)))

CloseReport == At("shown") /\ Step(NoReport)

-----------------------------------------------------------------------------
(* Specification *)

Handler(r) == Begin(r) \/ Relay(r) \/ RelayFails(r) \/ StreamEnds(r) \/ Respond(r) \/ Fail(r)
Prune(p) == BeginPrune(p) \/ PruneBatch(p)
Report ==
    \/ OpenReport \/ QueryGroups \/ QueryCount \/ QueryOffsets
    \/ QueryTotals \/ QueryTotalOffsets \/ CloseReport

Next ==
    \/ \E r \in Reqs : Handler(r)
    \/ \E p \in Pruners : Prune(p) \/ PruneFails(p)
    \/ Insert \/ Midnight \/ Report

Spec == Init /\ [][Next]_vars

\* The daily ticker comes round, and a prune that has begun goes on.
Fairness == \A p \in Pruners : WF_vars(Prune(p))

FairSpec == Spec /\ Fairness

-----------------------------------------------------------------------------
(* Properties *)

\* What the last frame that was read and reports usage says: in a stream a frame
\* as a whole hides what it embeds, and null hides nothing.
Says(c, i) ==
    LET f == c.answer.frames[i]
        outside == ParseUsage(f.usage)
        inside == UNION {ParseUsage(x.usage) : x \in f.response}
    IN  IF c.answer.stream
        THEN IF outside # {} \/ c.answer.endpoint # "responses" THEN outside ELSE inside
        ELSE IF f.usage # {} THEN outside ELSE inside

\* A row carries the tokens the upstream reported last before its answer ended,
\* however it ended; once a frame was read, it is marked as an estimate exactly when
\* none were reported. Of an answer that failed before its first frame nothing is
\* counted, and what is put down of its request, if anything, is an estimate.
RowsTellTheUpstream ==
    \A row \in rows \cup ToSet(pending) : row.req \in Reqs =>
        LET c == call[row.req]
            said == {i \in 1..c.at : Says(c, i) # {}}
        IN  CASE c.at = 0 -> /\ row.tokens.out = 0 /\ row.tokens.cached = 0
                             /\ row.estimated \/ row.tokens = NoTokens
              [] c.at > 0 /\ said # {} ->
                     /\ ~row.estimated
                     /\ row.tokens \in Says(c, CHOOSE i \in said : \A j \in said : j <= i)
              [] c.at > 0 /\ said = {} ->
                     /\ row.estimated
                     /\ 4 * row.tokens.out
                          - Sum([i \in 1..c.at |-> c.answer.frames[i].text]) \in 0..3

\* Every name the dialect has a place for.
NamesIn(endpoint, f) ==
    f.model \cup IF endpoint = "responses" THEN UNION {x.model : x \in f.response} ELSE {}

\* What is left of a frame without its names.
Unnamed(f) == Rewrite("responses", f, "")

\* The client is sent what the upstream sent, in order and without a gap, but
\* for the names: of those it sees only the one it asked for.
ClientSeesWhatItAskedFor ==
    \A r \in Reqs : LET c == call[r] IN
        /\ Len(c.got) \in {c.at - 1, c.at}
        /\ \A i \in DOMAIN c.got :
              /\ NamesIn(c.answer.endpoint, c.got[i]) \subseteq {c.ask.asked}
              /\ Unnamed(c.got[i]) = Unnamed(c.answer.frames[i])

\* The parts a usage object counts apart are parts.
Proper(S) == \A r \in S : r.tokens.cached <= r.tokens.in /\ r.tokens.reasoning <= r.tokens.out

\* As many rows as not are no slower than the median.
Median(S, p) ==
    /\ 2 * Cardinality({r \in S : r.latency < p}) <= Cardinality(S)
    /\ S # {} => 2 * Cardinality({r \in S : r.latency > p}) < Cardinality(S)

\* A report no row has come or gone under adds up: its groups divide its rows,
\* the sums and the amount of every grouping are those of the rows themselves,
\* and the medians are medians. (Rows that come in between show in the later
\* queries only.)
ReportsAddUp ==
    report.pc = "shown" /\ ~report.touched =>
        LET S == Selected(report.filter) IN
        \A k \in DOMAIN report.shown :
            LET b == report.shown[k]
                G == DOMAIN b.groups
                Part(g) == {r \in S : KeyOf(b.by, r) = g.key}
            IN  /\ b.total = {Totals(S)} /\ Median(S, b.p50)
                /\ Sum([i \in G |-> b.groups[i].totals.requests]) = Cardinality(S)
                /\ Sum([i \in G |-> b.groups[i].totals.tokens.in]) = Tokens(S).in
                /\ Sum([i \in G |-> b.groups[i].totals.tokens.out]) = Tokens(S).out
                /\ Proper(S) =>
                     LET each == Sum([r \in Priced(S) |-> Amount(r.tokens, TheEntry(r))])
                     IN  b.amount = each /\ Sum([i \in G |-> b.groups[i].amount]) = each
                /\ \A i \in G : Median(Part(b.groups[i]), b.groups[i].p50)

\* Nothing is deleted but rows past retention, by however many pruners.
OnlyOldRowsGo == [][\A r \in rows \ rows' : r.ts < day - Retention]_vars

\* Retention: only rows past it go; and every such row goes in the end, also one that
\* is committed only then, or that a failed prune left behind.
RetentionIsKept ==
    /\ OnlyOldRowsGo
    /\ Retention > 0 =>
          \A d \in 0..LastDay : (\E r \in rows : r.ts = d /\ d < day - Retention)
                                    ~> (\A r \in rows : r.ts # d)
==============================================================================
