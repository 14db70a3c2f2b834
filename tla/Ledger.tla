--------------------------------- MODULE Ledger ---------------------------------
(***************************************************************************)
(* What is kept of requests that ended: the usage writer                   *)
(* (src/internal/usage/writer.go), the writer of debug recordings          *)
(* (src/internal/usage/debugwriter.go), the database behind both with its  *)
(* migrations (src/internal/usage/usage.go), and the order in which New    *)
(* brings them up and Stop ends them (src/internal/app/app.go). The        *)
(* process may be stopped, killed and started again, as a later release.   *)
(*                                                                         *)
(* A row or a recording is named by its request.                           *)
(***************************************************************************)
EXTENDS Naturals, Sequences, FiniteSets, SequencesExt

CONSTANTS
    Reqs,
    QueueSize,      \* rows that may wait for the usage writer: 1024
    BatchSize,      \* rows committed at once: 64
    DebugQueueSize, \* recordings that may wait for the debug writer: 128
    Keep,           \* DebugKeepRows, recordings kept: 1000
    TrimEvery,      \* commits between two trims: 10
    Releases,       \* of each life the migrations its binary brings; as many as
                    \* there are, the process starts
    Faults          \* bound: trims that fail

ASSUME SizesAssumption ==
    /\ QueueSize \in Nat \ {0} /\ BatchSize \in Nat \ {0} /\ DebugQueueSize \in Nat \ {0}
    /\ Keep \in Nat /\ TrimEvery \in Nat \ {0} /\ Faults \in Nat
    /\ Releases \in Seq(Nat) /\ Releases # <<>>
ASSUME ReqsAssumption == IsFiniteSet(Reqs)

VARIABLES
    call,       \* where the handler of each request is
    recorded,   \* whether it carries a recorder
    app,        \* how far App.Stop has come
    queue,      \* Writer.ch
    batch,      \* rows the usage writer holds
    writer,     \* where the usage writer is
    rows,       \* the table requests
    dropped,    \* rows given up with a line in the log
    captures,   \* DebugWriter.ch
    held,       \* the recording the debug writer holds, as a sequence
    recorder,   \* where the debug writer is
    commits,    \* n, commits since the last trim
    recs,       \* the table debug_requests, in the order of its ids
    schema,     \* the migrations whose statements the database has executed
    version,    \* the largest number in its table meta
    lives,      \* starts of the process so far
    faults,     \* trims that failed so far
    overdue,    \* history: requests whose handler outlived the grace of a stop
    silent,     \* history: rows that vanished in a stop without a line
    killed,     \* history: rows that vanished in a hard kill
    trimmed     \* history: no more than Keep recordings were there when this life
                \* began or was last to trim them, or since they were cleared

vars == <<call, recorded, app, queue, batch, writer, rows, dropped, captures, held,
          recorder, commits, recs, schema, version, lives, faults, overdue, silent, killed,
          trimmed>>
usageVars == <<queue, batch, writer, rows, dropped>>
debugVars == <<captures, held, recorder, commits, recs>>
bootVars == <<schema, version, lives>>
historyVars == <<overdue, silent, killed, trimmed>>

Calls == {"idle", "running", "submitted", "done", "dead"}
Phases == {"starting", "serving", "closing", "draining", "drainingDebug", "drainingLate", "exited"}
WriterStates == {"run", "flush", "drain", "drainFlush", "lastFlush", "done"}
RecorderStates == {"run", "commit", "trim", "lastTrim", "drain", "drainCommit", "done"}

-----------------------------------------------------------------------------
(* State functions *)

Running == {r \in Reqs : call[r] \in {"running", "submitted"}}

\* Slip: one recording too many is kept.
TrimmedOneMore(s) ==
    IF Len(s) <= Keep + 1 THEN s ELSE SubSeq(s, Len(s) - Keep, Len(s))
\* DebugTrim deletes the ids up to the largest minus keep.
Trimmed(s) == IF Len(s) <= Keep THEN s ELSE SubSeq(s, Len(s) - Keep + 1, Len(s))

-----------------------------------------------------------------------------
(* Handlers *)

Init ==
    /\ call = [r \in Reqs |-> "idle"]
    /\ recorded = [r \in Reqs |-> FALSE]
    /\ app = "starting" /\ schema = <<>> /\ version = 0
    /\ queue = <<>> /\ batch = <<>> /\ writer = "run" /\ rows = <<>> /\ dropped = {}
    /\ captures = <<>> /\ held = <<>> /\ recorder = "run" /\ commits = 0 /\ recs = <<>>
    /\ lives = 1 /\ faults = 0
    /\ overdue = {} /\ silent = {} /\ killed = {} /\ trimmed = TRUE

\* A request is routed; whether it is recorded is decided here, once.
Start(r) ==
    /\ app = "serving" /\ call[r] = "idle"
    /\ call' = [call EXCEPT ![r] = "running"]
    /\ \E b \in BOOLEAN : recorded' = [recorded EXCEPT ![r] = b]
    /\ UNCHANGED <<app, usageVars, debugVars, bootVars, faults, historyVars>>

\* finish, its first half: the row is handed over, or dropped when the queue is
\* full. It never waits.
SubmitRow(r) ==
    /\ call[r] = "running"
    /\ call' = [call EXCEPT ![r] = "submitted"]
    /\ IF Len(queue) < QueueSize
       THEN queue' = Append(queue, r) /\ UNCHANGED dropped
       ELSE dropped' = dropped \cup {r} /\ UNCHANGED queue
    /\ UNCHANGED <<recorded, app, batch, writer, rows, debugVars, bootVars, faults, historyVars>>

\* Its second half: the capture, if there is one.
SubmitCapture(r) ==
    /\ call[r] = "submitted"
    /\ call' = [call EXCEPT ![r] = "done"]
    /\ captures' = IF recorded[r] /\ Len(captures) < DebugQueueSize
                   THEN Append(captures, r) ELSE captures
    /\ UNCHANGED <<recorded, app, usageVars, held, recorder, commits, recs, bootVars, faults,
                   historyVars>>

-----------------------------------------------------------------------------
(* The usage writer *)

\* Its context is cancelled.
Cancelled == app \in {"draining", "drainingDebug", "drainingLate"}

Take ==
    /\ writer \in {"run", "drain"} /\ queue # <<>>
    /\ queue' = Tail(queue)
    /\ batch' = Append(batch, Head(queue))
    /\ writer' = IF Len(batch) + 1 < BatchSize THEN writer
                 ELSE IF writer = "run" THEN "flush" ELSE "drainFlush"
    /\ UNCHANGED <<call, recorded, app, rows, dropped, debugVars, bootVars, faults, historyVars>>

\* Slip: the ticker commits full batches only.
TickFull ==
    /\ writer = "run" /\ Len(batch) = BatchSize
    /\ writer' = "flush"
    /\ UNCHANGED <<call, recorded, app, queue, batch, rows, dropped, debugVars, bootVars, faults,
                   historyVars>>
\* The ticker, every 50 ms.
Tick ==
    /\ writer = "run" /\ batch # <<>>
    /\ writer' = "flush"
    /\ UNCHANGED <<call, recorded, app, queue, batch, rows, dropped, debugVars, bootVars, faults,
                   historyVars>>

\* Slip: the context is done, the channel is left as it is.
BeginDrainNothing ==
    /\ writer = "run" /\ Cancelled
    /\ writer' = IF batch = <<>> THEN "done" ELSE "lastFlush"
    /\ UNCHANGED <<call, recorded, app, queue, batch, rows, dropped, debugVars, bootVars, faults,
                   historyVars>>
\* The context is done: flush, and drain what is left in the channel.
BeginDrain ==
    /\ writer = "run" /\ Cancelled
    /\ writer' = IF batch = <<>> THEN "drain" ELSE "drainFlush"
    /\ UNCHANGED <<call, recorded, app, queue, batch, rows, dropped, debugVars, bootVars, faults,
                   historyVars>>
EndDrain ==
    /\ writer = "drain" /\ queue = <<>>
    /\ writer' = IF batch = <<>> THEN "done" ELSE "lastFlush"
    /\ UNCHANGED <<call, recorded, app, queue, batch, rows, dropped, debugVars, bootVars, faults,
                   historyVars>>

\* Slip: the batch is not emptied once it is inserted.
FlushKeeping ==
    /\ writer \in {"flush", "drainFlush", "lastFlush"}
    /\ \/ rows' = rows \o batch /\ UNCHANGED <<dropped, batch>>
       \/ dropped' = dropped \cup ToSet(batch) /\ batch' = <<>> /\ UNCHANGED rows
    /\ writer' = CASE writer = "flush" -> "run"
                   [] writer = "drainFlush" -> "drain"
                   [] writer = "lastFlush" -> "done"
    /\ UNCHANGED <<call, recorded, app, queue, debugVars, bootVars, faults, historyVars>>
\* The batch is inserted in one transaction, or dropped as a whole.
Flush ==
    /\ writer \in {"flush", "drainFlush", "lastFlush"}
    /\ \/ rows' = rows \o batch /\ UNCHANGED dropped
       \/ dropped' = dropped \cup ToSet(batch) /\ UNCHANGED rows
    /\ batch' = <<>>
    /\ writer' = CASE writer = "flush" -> "run"
                   [] writer = "drainFlush" -> "drain"
                   [] writer = "lastFlush" -> "done"
    /\ UNCHANGED <<call, recorded, app, queue, debugVars, bootVars, faults, historyVars>>

-----------------------------------------------------------------------------
(* The debug writer *)

TakeCapture ==
    /\ recorder \in {"run", "drain"} /\ captures # <<>>
    /\ captures' = Tail(captures)
    /\ held' = <<Head(captures)>>
    /\ recorder' = IF recorder = "run" THEN "commit" ELSE "drainCommit"
    /\ UNCHANGED <<call, recorded, app, usageVars, commits, recs, bootVars, faults, historyVars>>

\* An insert may fail; it counts all the same.
Commit ==
    /\ recorder \in {"commit", "drainCommit"}
    /\ recs' \in {recs, recs \o held}
    /\ held' = <<>>
    /\ IF recorder = "drainCommit" THEN recorder' = "drain" /\ UNCHANGED commits
       ELSE IF commits + 1 < TrimEvery THEN recorder' = "run" /\ commits' = commits + 1
       ELSE recorder' = "trim" /\ commits' = 0
    /\ UNCHANGED <<call, recorded, app, usageVars, captures, bootVars, faults, historyVars>>

BeginLastTrim ==
    /\ recorder = "run" /\ app \in {"drainingDebug", "drainingLate"}
    /\ recorder' = "lastTrim"
    /\ UNCHANGED <<call, recorded, app, usageVars, captures, held, commits, recs, bootVars, faults,
                   historyVars>>

Trim ==
    /\ recorder \in {"trim", "lastTrim"}
    /\ \/ recs' = Trimmed(recs) /\ trimmed' = TRUE /\ UNCHANGED faults
       \/ /\ faults < Faults /\ faults' = faults + 1
          /\ trimmed' = FALSE
          /\ UNCHANGED recs
    /\ recorder' = IF recorder = "trim" THEN "run" ELSE "drain"
    /\ UNCHANGED <<call, recorded, app, usageVars, captures, held, commits, bootVars, overdue,
                   silent, killed>>

EndCaptures ==
    /\ recorder = "drain" /\ captures = <<>>
    /\ recorder' = "done"
    /\ UNCHANGED <<call, recorded, app, usageVars, captures, held, commits, recs, bootVars, faults,
                   historyVars>>

\* The dashboard's button: every recording is deleted.
DebugClear ==
    /\ app \in {"serving", "closing"} /\ recs # <<>>
    /\ recs' = <<>> /\ trimmed' = TRUE
    /\ UNCHANGED <<call, recorded, app, usageVars, captures, held, recorder, commits, bootVars,
                   faults, overdue, silent, killed>>

-----------------------------------------------------------------------------
(* App.Stop, a hard kill, and the next start *)

\* The listener is closed: no request begins any more.
Stop ==
    /\ app = "serving"
    /\ app' = "closing"
    /\ UNCHANGED <<call, recorded, usageVars, debugVars, bootVars, faults, historyVars>>

\* Shutdown returns when no handler is left, or after 30 s; the handlers that
\* are left run on.
ShutdownReturns ==
    /\ app = "closing"
    /\ app' = "draining"
    /\ overdue' = overdue \cup Running
    /\ UNCHANGED <<call, recorded, usageVars, debugVars, bootVars, faults, silent, killed, trimmed>>

\* The usage writer is done, or had its 30 s: then a line says that rows were
\* dropped.
WriterAwaited ==
    /\ app = "draining"
    /\ \/ writer = "done" /\ app' = "drainingDebug"
       \/ writer # "done" /\ app' = "drainingLate"
    /\ UNCHANGED <<call, recorded, usageVars, debugVars, bootVars, faults, historyVars>>

\* What a process leaves is the database. What it was about to keep is gone.
Waiting == ToSet(queue) \cup ToSet(batch)
Gone ==
    /\ app' = "exited"
    /\ call' = [r \in Reqs |-> CASE call[r] = "running" -> "dead"
                                 [] call[r] = "submitted" -> "done"
                                 [] OTHER -> call[r]]
    /\ queue' = <<>> /\ batch' = <<>> /\ writer' = "done"
    /\ captures' = <<>> /\ held' = <<>> /\ recorder' = "done"
    /\ UNCHANGED <<recorded, rows, commits, recs, bootVars, faults, overdue, trimmed>>

\* The debug writer is done, or had its 30 s. The database is closed.
Exit ==
    /\ \/ app = "drainingDebug" /\ silent' = silent \cup Waiting /\ UNCHANGED dropped
       \/ app = "drainingLate" /\ dropped' = dropped \cup Waiting /\ UNCHANGED silent
    /\ Gone
    /\ UNCHANGED killed

\* A hard kill, or a listener that fails.
Kill ==
    /\ app \notin {"starting", "exited"}
    /\ killed' = killed \cup Waiting
    /\ Gone
    /\ UNCHANGED <<dropped, silent>>

\* main runs again.
Restart ==
    /\ app = "exited" /\ lives < Len(Releases)
    /\ app' = "starting" /\ writer' = "run" /\ recorder' = "run" /\ commits' = 0
    /\ lives' = lives + 1
    /\ trimmed' = (Len(recs) <= Keep)
    /\ UNCHANGED <<call, recorded, queue, batch, rows, dropped, captures, held, recs, schema,
                   version, faults, overdue, silent, killed>>

-----------------------------------------------------------------------------
(* Open and New *)

\* This binary brings migrations, numbered from 1, that are newer than the
\* database.
Due == version < Releases[lives]

\* Slip: the number is recorded in a transaction of its own.
MigrateApart ==
    /\ app = "starting" /\ Due
    /\ schema' = Append(schema, version + 1)
    /\ \/ version' = version + 1 /\ UNCHANGED app
       \/ app' = "exited" /\ UNCHANGED version
    /\ UNCHANGED <<call, recorded, usageVars, debugVars, lives, faults, historyVars>>
\* One transaction executes the next of them and records its number.
Migrate ==
    /\ app = "starting" /\ Due
    /\ schema' = Append(schema, version + 1) /\ version' = version + 1
    /\ UNCHANGED <<call, recorded, app, usageVars, debugVars, lives, faults, historyVars>>

\* A database that cannot be opened, a migration, settings or a configuration
\* that cannot be read, or a kill, end the process before it listens. (A broken
\* catalogue does not: see Document.)
StartFails ==
    /\ app = "starting"
    /\ app' = "exited"
    /\ UNCHANGED <<call, recorded, usageVars, debugVars, bootVars, faults, historyVars>>

Listen ==
    /\ app = "starting" /\ ~Due
    /\ app' = "serving"
    /\ UNCHANGED <<call, recorded, usageVars, debugVars, bootVars, faults, historyVars>>

-----------------------------------------------------------------------------
(* Specification *)

Handler(r) == SubmitRow(r) \/ SubmitCapture(r)
Writer == Take \/ Tick \/ BeginDrain \/ EndDrain \/ Flush
Recorder == TakeCapture \/ Commit \/ BeginLastTrim \/ Trim \/ EndCaptures
Stopping == ShutdownReturns \/ WriterAwaited \/ Exit

Next ==
    \/ \E r \in Reqs : Start(r) \/ Handler(r)
    \/ Writer \/ Recorder \/ DebugClear
    \/ Stop \/ Stopping \/ Kill
    \/ Restart \/ Migrate \/ StartFails \/ Listen

Spec == Init /\ [][Next]_vars

\* Both writers keep going (an insert is given 10 s), and so does a stop, each
\* of whose waits has an end. A handler need not: its upstream may hold it.
Fairness == WF_vars(Writer) /\ WF_vars(Recorder) /\ WF_vars(Stopping)

FairSpec == Spec /\ Fairness

-----------------------------------------------------------------------------
(* Properties *)

\* Every variable stays in its range; no queue or batch outgrows its size.
TypeOK ==
    /\ call \in [Reqs -> Calls] /\ recorded \in [Reqs -> BOOLEAN] /\ app \in Phases
    /\ queue \in Seq(Reqs) /\ Len(queue) <= QueueSize
    /\ batch \in Seq(Reqs) /\ Len(batch) <= BatchSize
    /\ rows \in Seq(Reqs) /\ writer \in WriterStates
    /\ captures \in Seq(Reqs) /\ Len(captures) <= DebugQueueSize
    /\ held \in Seq(Reqs) /\ Len(held) <= 1
    /\ recs \in Seq(Reqs) /\ recorder \in RecorderStates /\ commits \in 0..(TrimEvery - 1)
    /\ lives \in DOMAIN Releases /\ schema \in Seq(Nat) /\ version \in Nat
    /\ faults \in 0..Faults
    /\ dropped \subseteq Reqs /\ overdue \subseteq Reqs /\ silent \subseteq Reqs /\ killed \subseteq Reqs
    /\ trimmed \in BOOLEAN

\* A request that handed its row over has one row, in one place: still on its
\* way, committed, or given up; one that did not has none.
Places(r) ==
    LET way == queue \o batch \o rows
    IN  Cardinality({i \in DOMAIN way : way[i] = r})
          + Cardinality({S \in {<<1, dropped>>, <<2, silent>>, <<3, killed>>} : r \in S[2]})
RowsAccounted ==
    \A r \in Reqs : Places(r) = IF call[r] \in {"submitted", "done"} THEN 1 ELSE 0

\* A stop loses no row in silence but those of handlers that outlived its grace.
SilentOnlyOverdue == silent \subseteq overdue

\* The spam guard, in every life of the process: from a trim that succeeds to one
\* that fails, and from the start when no more than Keep recordings were there,
\* the recordings outnumber Keep by no more than the commits since, of which there
\* are fewer than TrimEvery whenever a trim is due, also when the process has been
\* killed or the recordings cleared in between. The code keeps this and no more:
\* not "at most" Keep, as the documentation has it. Of what a stop drains after
\* its last trim it says nothing: see LedgerProofs.
RecordingsBounded ==
    trimmed => /\ recorder \in {"run", "commit"} => Len(recs) <= Keep + commits
               /\ recorder = "lastTrim" => Len(recs) <= Keep + TrimEvery - 1
               /\ recorder = "trim" => Len(recs) <= Keep + TrimEvery

\* Every migration is executed once and in its turn, whatever fails or is killed
\* while they run, and nothing is served from a database that lacks one.
SchemaIsWhole ==
    /\ schema = [n \in 1..version |-> n]
    /\ app \notin {"starting", "exited"} => version >= Releases[lives]

\* No row and no recording waits for ever.
HandedOverSettles ==
    \A r \in Reqs : /\ r \in Waiting ~> r \notin Waiting
                    /\ r \in ToSet(captures \o held) ~> r \notin ToSet(captures \o held)
==============================================================================
