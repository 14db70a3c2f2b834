------------------------------ MODULE LedgerProofs ------------------------------
(***************************************************************************)
(* What holds of Ledger for every set of requests, all sizes of queues and *)
(* batches, any number of recordings that are kept and any releases.       *)
(***************************************************************************)
EXTENDS Ledger, SequenceLemmas, FiniteSetTheorems, TLAPS

-----------------------------------------------------------------------------
(* Sequences *)

LEMMA Ends ==
    ASSUME NEW S, NEW s \in Seq(S), NEW k \in Nat
    PROVE  LET t == IF Len(s) <= k THEN s ELSE SubSeq(s, Len(s) - k + 1, Len(s))
           IN  t \in Seq(S) /\ Len(t) <= k
<1>1. CASE Len(s) <= k
  BY <1>1
<1>2. CASE Len(s) > k
  <2> DEFINE t == SubSeq(s, Len(s) - k + 1, Len(s))
  <2>1. t \in Seq(S) /\ Len(t) = k
    BY <1>2
  <2> QED
    BY <1>2, <2>1
<1> QED
  BY <1>1, <1>2

-----------------------------------------------------------------------------
(* Types *)

CallTypes == call \in [Reqs -> Calls] /\ recorded \in [Reqs -> BOOLEAN] /\ app \in Phases

\* The batch stays within its size because the writer flushes it as soon as it
\* is full.
UsageTypes ==
    /\ queue \in Seq(Reqs) /\ Len(queue) <= QueueSize
    /\ batch \in Seq(Reqs) /\ Len(batch) <= BatchSize
    /\ writer \in {"run", "drain"} => Len(batch) < BatchSize
    /\ rows \in Seq(Reqs) /\ writer \in WriterStates /\ dropped \subseteq Reqs

\* The debug writer holds a recording only while it commits it.
DebugTypes ==
    /\ captures \in Seq(Reqs) /\ Len(captures) <= DebugQueueSize
    /\ held \in Seq(Reqs) /\ Len(held) <= 1
    /\ recorder \notin {"commit", "drainCommit"} => held = <<>>
    /\ recs \in Seq(Reqs) /\ recorder \in RecorderStates /\ commits \in 0..(TrimEvery - 1)

BootTypes == lives \in DOMAIN Releases /\ schema \in Seq(Nat) /\ version \in Nat

HistoryTypes == overdue \subseteq Reqs /\ silent \subseteq Reqs /\ killed \subseteq Reqs

\* A process that does not serve yet, or no more, holds nothing.
HoldsNothing ==
    app \in {"starting", "exited"} =>
        /\ queue = <<>> /\ batch = <<>> /\ captures = <<>> /\ held = <<>> /\ Running = {}
        /\ writer \in {"run", "done"} /\ recorder \in {"run", "done"}

TypeInv == CallTypes /\ UsageTypes /\ DebugTypes /\ BootTypes /\ faults \in 0..Faults /\ HistoryTypes
           /\ trimmed \in BOOLEAN /\ HoldsNothing

LEMMA Typed == TypeInv => TypeOK
BY DEF TypeInv, CallTypes, UsageTypes, DebugTypes, BootTypes, HistoryTypes, TypeOK

LEMMA TypeInit == Init => TypeInv
BY SizesAssumption
   DEF Init, TypeInv, CallTypes, UsageTypes, DebugTypes, BootTypes, HistoryTypes, Calls, Phases,
       WriterStates, RecorderStates, HoldsNothing, Running

\* What a process that ends leaves of the types.
LEMMA GoneTypes ==
    ASSUME TypeInv, Gone
    PROVE  /\ CallTypes' /\ (dropped' \subseteq Reqs => UsageTypes') /\ DebugTypes' /\ HoldsNothing'
           /\ Waiting \subseteq Reqs
<1>1. CallTypes'
  BY DEF TypeInv, Gone, CallTypes, Calls, Phases
<1>2. dropped' \subseteq Reqs => UsageTypes'
  BY SizesAssumption DEF TypeInv, Gone, UsageTypes, WriterStates
<1>3. DebugTypes'
  BY SizesAssumption DEF TypeInv, Gone, DebugTypes, RecorderStates
<1>4. HoldsNothing'
  <2>1. \A r \in Reqs : call'[r] \notin {"running", "submitted"}
    BY DEF TypeInv, Gone, CallTypes, Calls
  <2> QED
    BY <2>1 DEF Gone, HoldsNothing, Running
<1>5. Waiting \subseteq Reqs
  BY DEF TypeInv, Waiting, UsageTypes, ToSet
<1> QED
  BY <1>1, <1>2, <1>3, <1>4, <1>5

\* Every step of the usage writer keeps its types.
LEMMA WriterTypes == ASSUME UsageTypes, Writer PROVE UsageTypes'
<1> USE SizesAssumption DEF UsageTypes, WriterStates
<1>1. CASE Take
  <2>1. /\ Tail(queue) \in Seq(Reqs) /\ Len(Tail(queue)) = Len(queue) - 1 /\ Head(queue) \in Reqs
    BY <1>1, Taken DEF Take
  <2>2. queue' \in Seq(Reqs) /\ Len(queue') <= QueueSize
    BY <1>1, <2>1 DEF Take
  <2>3. batch' \in Seq(Reqs) /\ Len(batch') = Len(batch) + 1
    BY <1>1, <2>1 DEF Take
  <2>4. writer' \in WriterStates /\ Len(batch') <= BatchSize
        /\ (writer' \in {"run", "drain"} => Len(batch') < BatchSize)
    BY <1>1, <2>3 DEF Take
  <2> QED
    BY <1>1, <2>2, <2>3, <2>4 DEF Take
<1>2. CASE Tick
  BY <1>2 DEF Tick
<1>3. CASE BeginDrain
  BY <1>3 DEF BeginDrain
<1>4. CASE EndDrain
  BY <1>4 DEF EndDrain
<1>5. CASE Flush
  <2>1. rows \o batch \in Seq(Reqs) /\ ToSet(batch) \subseteq Reqs
    BY DEF ToSet
  <2>2. rows' \in Seq(Reqs) /\ dropped' \subseteq Reqs
    BY <1>5, <2>1 DEF Flush
  <2>3. batch' \in Seq(Reqs) /\ Len(batch') = 0
    BY <1>5 DEF Flush
  <2>4. writer' \in WriterStates
    BY <1>5 DEF Flush
  <2>5. UNCHANGED queue
    BY <1>5 DEF Flush
  <2> QED
    BY <2>2, <2>3, <2>4, <2>5
<1> QED
  BY <1>1, <1>2, <1>3, <1>4, <1>5 DEF Writer

\* Every step of the debug writer keeps its types.
LEMMA RecorderTypes ==
    ASSUME DebugTypes, faults \in 0..Faults, Recorder
    PROVE  DebugTypes' /\ faults' \in 0..Faults
<1> USE SizesAssumption DEF DebugTypes, RecorderStates
<1>1. CASE TakeCapture
  <2>1. /\ Tail(captures) \in Seq(Reqs) /\ Len(Tail(captures)) = Len(captures) - 1
        /\ Head(captures) \in Reqs
    BY <1>1, Taken DEF TakeCapture
  <2>2. captures' \in Seq(Reqs) /\ Len(captures') <= DebugQueueSize
    BY <1>1, <2>1 DEF TakeCapture
  <2>3. held' \in Seq(Reqs) /\ Len(held') = 1
    BY <1>1, <2>1 DEF TakeCapture
  <2>4. recorder' \in {"commit", "drainCommit"} /\ UNCHANGED <<recs, commits, faults>>
    BY <1>1 DEF TakeCapture
  <2> QED
    BY <2>2, <2>3, <2>4
<1>2. CASE Commit
  <2>1. recs \o held \in Seq(Reqs)
    OBVIOUS
  <2>2. recs' \in Seq(Reqs)
    BY <1>2, <2>1 DEF Commit
  <2>3. held' \in Seq(Reqs) /\ Len(held') = 0 /\ held' = <<>>
    BY <1>2 DEF Commit
  <2>4. commits' \in 0..(TrimEvery - 1) /\ recorder' \in RecorderStates
    BY <1>2 DEF Commit
  <2>5. UNCHANGED <<captures, faults>>
    BY <1>2 DEF Commit
  <2> QED
    BY <2>2, <2>3, <2>4, <2>5
<1>3. CASE BeginLastTrim
  BY <1>3 DEF BeginLastTrim
<1>4. CASE Trim
  <2>1. Trimmed(recs) \in Seq(Reqs)
    BY Ends DEF Trimmed
  <2>2. recs' \in Seq(Reqs) /\ faults' \in 0..Faults
    BY <1>4, <2>1 DEF Trim
  <2>3. recorder' \in {"run", "drain"} /\ held = <<>> /\ UNCHANGED <<captures, held, commits>>
    BY <1>4 DEF Trim
  <2> QED
    BY <2>2, <2>3
<1>5. CASE EndCaptures
  BY <1>5 DEF EndCaptures
<1> QED
  BY <1>1, <1>2, <1>3, <1>4, <1>5 DEF Recorder

\* Whoever serves has gone through Listen, and whoever does not takes no step of
\* a handler or a writer.
LEMMA HoldsStep == TypeInv /\ [Next]_vars => HoldsNothing'
<1> SUFFICES ASSUME TypeInv, [Next]_vars PROVE HoldsNothing'
  OBVIOUS
<1> USE DEF TypeInv, HoldsNothing, Running, usageVars, debugVars, bootVars, historyVars
<1>1. ASSUME NEW r \in Reqs, Start(r) \/ Handler(r) PROVE HoldsNothing'
  BY <1>1 DEF Start, Handler, SubmitRow, SubmitCapture
<1>2. CASE Writer
  BY <1>2 DEF Writer, Take, Tick, BeginDrain, EndDrain, Flush, Cancelled
<1>3. CASE Recorder
  BY <1>3 DEF Recorder, TakeCapture, Commit, BeginLastTrim, Trim, EndCaptures
<1>4. CASE DebugClear \/ Stop \/ ShutdownReturns \/ WriterAwaited \/ Listen
  BY <1>4 DEF DebugClear, Stop, ShutdownReturns, WriterAwaited, Listen
<1>5. CASE Exit \/ Kill
  BY <1>5, GoneTypes DEF Exit, Kill
<1>6. CASE Restart \/ Migrate \/ StartFails
  BY <1>6 DEF Restart, Migrate, StartFails
<1>7. CASE UNCHANGED vars
  BY <1>7 DEF vars
<1> QED
  BY <1>1, <1>2, <1>3, <1>4, <1>5, <1>6, <1>7 DEF Next, Stopping

\* Every step keeps the types, and what they rest on.
LEMMA TypeStep == TypeInv /\ [Next]_vars => TypeInv'
<1> SUFFICES ASSUME TypeInv, [Next]_vars PROVE TypeInv'
  OBVIOUS
<1> USE HoldsStep DEF TypeInv
<1>1. /\ UNCHANGED <<call, recorded, app>> => CallTypes'
      /\ UNCHANGED usageVars => UsageTypes'
      /\ UNCHANGED debugVars => DebugTypes'
      /\ UNCHANGED bootVars => BootTypes'
      /\ UNCHANGED historyVars => HistoryTypes' /\ trimmed' \in BOOLEAN
      /\ UNCHANGED <<overdue, silent, killed>> => HistoryTypes'
  BY DEF CallTypes, UsageTypes, DebugTypes, BootTypes, HistoryTypes, usageVars, debugVars, bootVars,
         historyVars
<1>2. ASSUME NEW r \in Reqs, Start(r) PROVE TypeInv'
  <2>1. CallTypes'
    BY <1>2 DEF Start, CallTypes, Calls
  <2> QED
    BY <1>1, <1>2, <2>1 DEF Start
<1>3. ASSUME NEW r \in Reqs, SubmitRow(r) PROVE TypeInv'
  <2>1. CallTypes'
    BY <1>3 DEF SubmitRow, CallTypes, Calls
  <2>2. CASE Len(queue) < QueueSize
    <3> HIDE DEF TypeInv
    <3>0. queue \in Seq(Reqs)
      BY DEF TypeInv, UsageTypes
    <3>1. queue' \in Seq(Reqs) /\ Len(queue') = Len(queue) + 1
      <4>1. Append(queue, r) \in Seq(Reqs) /\ Len(Append(queue, r)) = Len(queue) + 1
        BY <3>0, Appended
      <4>2. queue' = Append(queue, r)
        BY <1>3, <2>2 DEF SubmitRow
      <4> QED
        BY <4>1, <4>2
    <3> USE DEF TypeInv
    <3>2. UsageTypes'
      BY <1>3, <2>2, <3>1, SizesAssumption DEF SubmitRow, UsageTypes
    <3> QED
      BY <1>1, <1>3, <2>1, <3>2 DEF SubmitRow
  <2>3. CASE ~(Len(queue) < QueueSize)
    <3>1. UsageTypes'
      BY <1>3, <2>3 DEF SubmitRow, UsageTypes
    <3> QED
      BY <1>1, <1>3, <2>1, <3>1 DEF SubmitRow
  <2> QED
    BY <2>2, <2>3
<1>4. ASSUME NEW r \in Reqs, SubmitCapture(r) PROVE TypeInv'
  <2>1. CallTypes'
    BY <1>4 DEF SubmitCapture, CallTypes, Calls
  <2>2. captures' \in Seq(Reqs) /\ Len(captures') <= DebugQueueSize
    BY <1>4, SizesAssumption DEF SubmitCapture, DebugTypes
  <2>3. DebugTypes'
    BY <1>4, <2>2 DEF SubmitCapture, DebugTypes
  <2> QED
    BY <1>1, <1>4, <2>1, <2>3 DEF SubmitCapture
<1>5. CASE Writer
  <2>1. UNCHANGED <<call, recorded, app, debugVars, bootVars, faults, historyVars>>
    BY <1>5 DEF Writer, Take, Tick, BeginDrain, EndDrain, Flush
  <2> QED
    BY <1>1, <1>5, <2>1, WriterTypes
<1>6. CASE Recorder
  <2>1. UNCHANGED <<call, recorded, app, usageVars, bootVars, overdue, silent, killed>>
    BY <1>6 DEF Recorder, TakeCapture, Commit, BeginLastTrim, Trim, EndCaptures, historyVars
  <2>2. trimmed' \in BOOLEAN
    BY <1>6 DEF Recorder, TakeCapture, Commit, BeginLastTrim, Trim, EndCaptures, historyVars
  <2> QED
    BY <1>1, <1>6, <2>1, <2>2, RecorderTypes
<1>7. CASE DebugClear
  <2>1. DebugTypes'
    BY <1>7 DEF DebugClear, DebugTypes
  <2> QED
    BY <1>1, <1>7, <2>1 DEF DebugClear
<1>8. CASE Stop
  BY <1>1, <1>8 DEF Stop, CallTypes, Phases
<1>9. CASE ShutdownReturns
  <2>1. CallTypes' /\ HistoryTypes'
    BY <1>9 DEF ShutdownReturns, CallTypes, HistoryTypes, Phases, Running
  <2> QED
    BY <1>1, <1>9, <2>1 DEF ShutdownReturns
<1>10. CASE WriterAwaited
  BY <1>1, <1>10 DEF WriterAwaited, CallTypes, Phases
<1>11. CASE Exit
  <2>1. Gone /\ UNCHANGED killed
    BY <1>11 DEF Exit
  <2>2. CallTypes' /\ DebugTypes' /\ Waiting \subseteq Reqs
    BY <2>1, GoneTypes
  <2>3. dropped' \subseteq Reqs /\ HistoryTypes'
    BY <1>11, <2>1, <2>2 DEF Exit, Gone, UsageTypes, HistoryTypes
  <2>4. UsageTypes'
    BY <2>1, <2>3, GoneTypes
  <2> QED
    BY <1>1, <2>1, <2>2, <2>3, <2>4 DEF Gone
<1>12. CASE Kill
  <2>1. Gone /\ UNCHANGED <<dropped, silent>>
    BY <1>12 DEF Kill
  <2>2. dropped' \subseteq Reqs
    BY <2>1 DEF UsageTypes
  <2>4. CallTypes' /\ UsageTypes' /\ DebugTypes' /\ Waiting \subseteq Reqs
    BY <2>1, <2>2, GoneTypes
  <2>3. HistoryTypes'
    BY <1>12, <2>1, <2>4 DEF Kill, Gone, HistoryTypes
  <2> QED
    BY <1>1, <2>1, <2>3, <2>4 DEF Gone
<1>13. CASE Restart
  <2>1. BootTypes'
    BY <1>13, SizesAssumption DEF Restart, BootTypes
  <2>2. CallTypes'
    BY <1>13 DEF Restart, CallTypes, Phases
  <2>3. UsageTypes'
    BY <1>13, SizesAssumption DEF Restart, UsageTypes, WriterStates, HoldsNothing
  <2>4. DebugTypes'
    BY <1>13, SizesAssumption DEF Restart, DebugTypes, RecorderStates, HoldsNothing
  <2>5. trimmed' \in BOOLEAN
    <3> DEFINE few == Len(recs) <= Keep
    <3>1. trimmed' = few
      BY <1>13, Zenon DEF Restart
    <3>2. few \in BOOLEAN
      OBVIOUS
    <3> HIDE DEF few
    <3> QED
      BY <3>1, <3>2
  <2> QED
    BY <1>1, <1>13, <2>1, <2>2, <2>3, <2>4, <2>5 DEF Restart
<1>14. CASE Migrate
  <2>1. BootTypes'
    BY <1>14 DEF Migrate, BootTypes
  <2> QED
    BY <1>1, <1>14, <2>1 DEF Migrate
<1>15. CASE StartFails
  BY <1>1, <1>15 DEF StartFails, CallTypes, Phases
<1>16. CASE Listen
  BY <1>1, <1>16 DEF Listen, CallTypes, Phases
<1>17. CASE UNCHANGED vars
  BY <1>1, <1>17 DEF vars, usageVars, debugVars, bootVars, historyVars
<1> QED
  BY <1>2, <1>3, <1>4, <1>5, <1>6, <1>7, <1>8, <1>9, <1>10, <1>11, <1>12, <1>13, <1>14, <1>15,
     <1>16, <1>17 DEF Next, Handler, Stopping

\* Every variable stays in its range, and no queue or batch outgrows its size.
THEOREM TypeCorrect == Spec => []TypeOK
<1>1. Init => TypeInv
  BY TypeInit
<1>2. TypeInv /\ [Next]_vars => TypeInv'
  BY TypeStep
<1>3. TypeInv => TypeOK
  BY Typed
<1> QED
  BY <1>1, <1>2, <1>3, PTL DEF Spec

-----------------------------------------------------------------------------
(* Migrations *)

SchemaInv == schema = [n \in 1..version |-> n] /\ (app \notin {"starting", "exited"} => ~Due)

LEMMA SchemaStep == TypeInv /\ SchemaInv /\ [Next]_vars => SchemaInv'
<1> SUFFICES ASSUME TypeInv, SchemaInv, [Next]_vars PROVE SchemaInv'
  OBVIOUS
<1> USE DEF SchemaInv, Due, usageVars, debugVars, bootVars, historyVars
<1>1. ASSUME UNCHANGED bootVars, app \in {"starting", "exited"} => app' \in {"starting", "exited"}
      PROVE  SchemaInv'
  BY <1>1
<1>2. ASSUME NEW r \in Reqs, Start(r) \/ Handler(r) PROVE SchemaInv'
  BY <1>1, <1>2 DEF Handler, Start, SubmitRow, SubmitCapture
<1>3. CASE Writer \/ Recorder \/ DebugClear
  BY <1>1, <1>3 DEF Writer, Take, Tick, BeginDrain, EndDrain, Flush, Recorder, TakeCapture, Commit,
     BeginLastTrim, Trim, EndCaptures, DebugClear
<1>4. CASE Stop \/ Stopping \/ Kill \/ StartFails
  BY <1>1, <1>4 DEF Stop, Stopping, ShutdownReturns, WriterAwaited, Exit, Kill, Gone, StartFails
<1>5. CASE Restart
  BY <1>5 DEF Restart
<1>6. CASE Migrate
  <2>1. version \in Nat /\ schema = [n \in 1..version |-> n] /\ schema \in Seq(Nat)
    BY DEF TypeInv, BootTypes
  <2>2. Append([n \in 1..version |-> n], version + 1) = [n \in 1..(version + 1) |-> n]
    BY <2>1
  <2> QED
    BY <1>6, <2>2 DEF Migrate
<1>7. CASE Listen
  BY <1>7 DEF Listen
<1>8. CASE UNCHANGED vars
  BY <1>1, <1>8 DEF vars
<1> QED
  BY <1>2, <1>3, <1>4, <1>5, <1>6, <1>7, <1>8 DEF Next

\* Whatever fails or is killed, every migration was executed once and in its
\* turn, and a process serves only once none is due.
THEOREM SchemaKept == Spec => []SchemaIsWhole
<1>1. Init => SchemaInv
  BY DEF Init, SchemaInv
<1>2. TypeInv /\ SchemaInv => SchemaIsWhole
  BY SizesAssumption DEF TypeInv, BootTypes, SchemaInv, SchemaIsWhole, Due
<1> QED
  BY <1>1, <1>2, TypeInit, TypeStep, SchemaStep, PTL DEF Spec

-----------------------------------------------------------------------------
(* What a stop loses *)

\* Until its context is cancelled the usage writer neither drains nor ends. Once
\* it is, only handlers that outlived the grace still run, and once the writer
\* has seen the queue empty only they can have put a row there.
SilentInv ==
    /\ silent \subseteq overdue
    /\ app \in {"starting", "serving", "closing"} => writer \in {"run", "flush"}
    /\ Cancelled => Running \subseteq overdue
    /\ Cancelled /\ writer \in {"lastFlush", "done"} => ToSet(queue) \subseteq overdue
    /\ writer = "done" => batch = <<>>
    /\ app = "drainingDebug" => writer = "done"

LEMMA Emptied == ToSet(<<>>) = {}
BY DEF ToSet

LEMMA SilentStep == TypeInv /\ SilentInv /\ [Next]_vars => SilentInv'
<1> SUFFICES ASSUME TypeInv, SilentInv, [Next]_vars PROVE SilentInv'
  OBVIOUS
<1> USE DEF SilentInv, Cancelled, usageVars, debugVars, bootVars, historyVars
<1>1. app \in Phases /\ queue \in Seq(Reqs) /\ call \in [Reqs -> Calls]
  BY DEF TypeInv, CallTypes, UsageTypes
<1>2. ASSUME UNCHANGED <<call, app, queue, batch, writer, overdue, silent>> PROVE SilentInv'
  BY <1>2 DEF Running
<1>3. ASSUME NEW r \in Reqs, Start(r) PROVE SilentInv'
  BY <1>3 DEF Start, Running
<1>4. ASSUME NEW r \in Reqs, SubmitRow(r) PROVE SilentInv'
  <2>1. Running' = Running /\ r \in Running
    BY <1>1, <1>4 DEF SubmitRow, Running
  <2>2. ToSet(queue') \subseteq ToSet(queue) \cup {r}
    <3>1. ToSet(Append(queue, r)) = ToSet(queue) \cup {r}
      BY <1>1, Appended
    <3> QED
      BY <1>4, <3>1 DEF SubmitRow
  <2> QED
    BY <1>4, <2>1, <2>2 DEF SubmitRow
<1>5. ASSUME NEW r \in Reqs, SubmitCapture(r) PROVE SilentInv'
  <2>1. Running' \subseteq Running
    BY <1>1, <1>5 DEF SubmitCapture, Running
  <2> QED
    BY <1>5, <2>1 DEF SubmitCapture
<1>6. CASE Take
  BY <1>6 DEF Take, Running
<1>7. CASE Tick \/ BeginDrain
  BY <1>7 DEF Tick, BeginDrain, Running
<1>8. CASE EndDrain
  BY <1>8, Emptied DEF EndDrain, Running
<1>9. CASE Flush
  BY <1>9 DEF Flush, Running
<1>10. CASE Recorder \/ DebugClear
  BY <1>2, <1>10 DEF Recorder, TakeCapture, Commit, BeginLastTrim, Trim, EndCaptures, DebugClear
<1>11. CASE Stop
  BY <1>11 DEF Stop, Running
<1>12. CASE ShutdownReturns
  BY <1>12 DEF ShutdownReturns, Running
<1>13. CASE WriterAwaited
  BY <1>13 DEF WriterAwaited, Running
<1>14. CASE Exit
  <2>1. app = "drainingDebug" => Waiting \subseteq overdue
    BY Emptied DEF Waiting
  <2>2. silent' \subseteq overdue' /\ app' = "exited" /\ batch' = <<>>
    BY <1>14, <2>1 DEF Exit, Gone
  <2> QED
    BY <2>2
<1>15. CASE Kill
  BY <1>15 DEF Kill, Gone
<1>16. CASE Restart
  BY <1>16 DEF Restart
<1>17. CASE Migrate \/ StartFails \/ Listen
  BY <1>17 DEF Migrate, StartFails, Listen
<1>18. CASE UNCHANGED vars
  BY <1>2, <1>18 DEF vars
<1> QED
  BY <1>3, <1>4, <1>5, <1>6, <1>7, <1>8, <1>9, <1>10, <1>11, <1>12, <1>13, <1>14, <1>15, <1>16,
     <1>17, <1>18 DEF Next, Handler, Writer, Stopping

\* A stop that ends without its line in the log has lost no rows but those of
\* handlers that outlived its grace.
THEOREM StopLosesOverdueOnly == Spec => []SilentOnlyOverdue
<1>1. Init => SilentInv
  BY Emptied DEF Init, SilentInv, Cancelled
<1>2. SilentInv => SilentOnlyOverdue
  BY DEF SilentInv, SilentOnlyOverdue
<1> QED
  BY <1>1, <1>2, TypeInit, TypeStep, SilentStep, PTL DEF Spec

-----------------------------------------------------------------------------
(* Recordings *)

LEMMA Joined ==
    ASSUME NEW S, NEW s \in Seq(S), NEW t \in Seq(S), Len(t) <= 1
    PROVE  s \o t \in Seq(S) /\ Len(s \o t) <= Len(s) + 1
OBVIOUS

LEMMA RecordingsStep == TypeInv /\ RecordingsBounded /\ [Next]_vars => RecordingsBounded'
<1> SUFFICES ASSUME TypeInv, RecordingsBounded, [Next]_vars, trimmed'
             PROVE  RecordingsBounded'
  BY DEF RecordingsBounded
<1> USE SizesAssumption DEF RecordingsBounded, usageVars, debugVars, bootVars, historyVars
<1>1. /\ recs \in Seq(Reqs) /\ held \in Seq(Reqs) /\ Len(held) <= 1
      /\ recorder \in RecorderStates /\ commits \in 0..(TrimEvery - 1)
      /\ (app \in {"starting", "exited"} => recorder \in {"run", "done"})
  BY DEF TypeInv, DebugTypes, BootTypes, HoldsNothing
<1>2. ASSUME UNCHANGED <<debugVars, trimmed>> PROVE RecordingsBounded'
  BY <1>2
<1>3. ASSUME NEW r \in Reqs, Start(r) \/ Handler(r) PROVE RecordingsBounded'
  BY <1>3 DEF Handler, Start, SubmitRow, SubmitCapture
<1>4. CASE Writer
  BY <1>2, <1>4 DEF Writer, Take, Tick, BeginDrain, EndDrain, Flush
<1>5. CASE TakeCapture
  BY <1>5 DEF TakeCapture
<1>6. CASE Commit
  <2>1. Len(recs') <= Len(recs) + 1 /\ Len(recs') \in Nat
    <3>1. recs \o held \in Seq(Reqs) /\ Len(recs \o held) <= Len(recs) + 1
      BY <1>1, Joined
    <3> QED
      BY <1>1, <1>6, <3>1 DEF Commit
  <2>2. CASE recorder = "drainCommit"
    BY <1>6, <2>2 DEF Commit
  <2>3. CASE recorder = "commit"
    <3>1. Len(recs) <= Keep + commits /\ Len(recs) \in Nat
      BY <1>1, <1>6, <2>3 DEF Commit
    <3>2. CASE commits + 1 < TrimEvery
      BY <1>1, <1>6, <2>1, <2>3, <3>1, <3>2 DEF Commit
    <3>3. CASE ~(commits + 1 < TrimEvery)
      BY <1>1, <1>6, <2>1, <2>3, <3>1, <3>3 DEF Commit
    <3> QED
      BY <3>2, <3>3
  <2> QED
    BY <1>6, <2>2, <2>3 DEF Commit
<1>7. CASE BeginLastTrim
  <2>1. Len(recs) \in Nat
    BY <1>1
  <2> QED
    BY <1>1, <1>7, <2>1 DEF BeginLastTrim
<1>8. CASE Trim
  <2>1. Len(Trimmed(recs)) <= Keep /\ Len(Trimmed(recs)) \in Nat
    BY <1>1, Ends DEF Trimmed
  <2>2. recs' = Trimmed(recs)
    BY <1>8 DEF Trim
  <2> QED
    BY <1>1, <1>8, <2>1, <2>2 DEF Trim
<1>9. CASE EndCaptures
  BY <1>9 DEF EndCaptures
<1>10. CASE DebugClear
  <2>1. recs' = <<>> /\ UNCHANGED <<recorder, commits>> /\ Len(recs') = 0
    BY <1>10 DEF DebugClear
  <2> QED
    BY <1>1, <2>1
<1>11. CASE Stop \/ ShutdownReturns \/ WriterAwaited \/ Migrate \/ StartFails \/ Listen
  <2>1. UNCHANGED <<debugVars, trimmed>>
    BY <1>11, Zenon DEF Stop, ShutdownReturns, WriterAwaited, Migrate, StartFails, Listen
  <2> QED
    BY <1>2, <2>1
<1>12. CASE Exit \/ Kill
  BY <1>12 DEF Exit, Kill, Gone
<1>13. CASE Restart
  <2>1. Len(recs) <= Keep
    BY <1>13, Zenon DEF Restart
  <2>2. recorder' = "run" /\ commits' = 0 /\ recs' = recs
    BY <1>13, Zenon DEF Restart
  <2>3. Len(recs') <= Keep + commits' /\ Len(recs') \in Nat
    BY <1>1, <2>1, <2>2
  <2> QED
    BY <2>2, <2>3
<1>14. CASE UNCHANGED vars
  BY <1>2, <1>14 DEF vars
<1> QED
  BY <1>3, <1>4, <1>5, <1>6, <1>7, <1>8, <1>9, <1>10, <1>11, <1>12, <1>13, <1>14
     DEF Next, Stopping, Recorder

\* The spam guard holds for every number of recordings kept, every interval
\* between trims and any number of lives, whatever arrives.
THEOREM SpamGuardHolds == Spec => []RecordingsBounded
<1>1. Init => RecordingsBounded
  BY SizesAssumption DEF Init, RecordingsBounded
<1> QED
  BY <1>1, TypeInit, TypeStep, RecordingsStep, PTL DEF Spec

-----------------------------------------------------------------------------
(* What a stop drains *)

\* While a stop drains, the recordings and those still to be drained outnumber
\* Keep by no more than a full queue and one for each request whose handler
\* outlived the grace of a stop: with that many the next life may begin.
DrainBounded ==
    recorder \in {"drain", "drainCommit"} /\ trimmed =>
        Len(recs) + Len(held) + Len(captures) <= Keep + DebugQueueSize + Cardinality(overdue)

\* The handlers that outlived the grace and may still hand over a capture.
Outlived == overdue \cap Running

DrainInv ==
    /\ recorder \in {"lastTrim", "drain", "drainCommit"} => app \in {"drainingDebug", "drainingLate"}
    /\ recorder \in {"drain", "drainCommit"} /\ trimmed =>
         Len(recs) + Len(held) + Len(captures) + Cardinality(Outlived)
           <= Keep + DebugQueueSize + Cardinality(overdue)

LEMMA OutlivedCounts ==
    ASSUME TypeInv
    PROVE  /\ IsFiniteSet(Outlived) /\ Cardinality(Outlived) \in Nat
           /\ Cardinality(overdue) \in Nat /\ Cardinality(Outlived) <= Cardinality(overdue)
<1>1. overdue \subseteq Reqs /\ Outlived \subseteq overdue
  BY DEF TypeInv, HistoryTypes, Outlived
<1>2. IsFiniteSet(overdue)
  BY <1>1, ReqsAssumption, FS_Subset
<1>3. IsFiniteSet(Outlived) /\ Cardinality(Outlived) <= Cardinality(overdue)
  BY <1>1, <1>2, FS_Subset
<1> QED
  BY <1>2, <1>3, FS_CardinalityType

LEMMA DrainStep == TypeInv /\ SilentInv /\ DrainInv /\ [Next]_vars => DrainInv'
<1> SUFFICES ASSUME TypeInv, SilentInv, DrainInv, [Next]_vars PROVE DrainInv'
  OBVIOUS
<1> USE SizesAssumption DEF usageVars, debugVars, bootVars, historyVars
<1>1. /\ recs \in Seq(Reqs) /\ held \in Seq(Reqs) /\ captures \in Seq(Reqs)
      /\ Len(held) <= 1 /\ Len(captures) <= DebugQueueSize
      /\ recorder \notin {"commit", "drainCommit"} => held = <<>>
      /\ recorder \in RecorderStates
      /\ (app \in {"starting", "exited"} => recorder \in {"run", "done"})
  BY DEF TypeInv, DebugTypes, HoldsNothing
<1>2. Len(recs) \in Nat /\ Len(held) \in Nat /\ Len(captures) \in Nat
  BY <1>1
<1>3. ASSUME UNCHANGED <<app, recorder, recs, held, captures, overdue, call, trimmed>>
      PROVE  DrainInv'
  BY <1>3 DEF DrainInv, Outlived, Running
<1>4. ASSUME recorder' \notin {"lastTrim", "drain", "drainCommit"} PROVE DrainInv'
  BY <1>4 DEF DrainInv
<1>5. ASSUME NEW r \in Reqs, Start(r) PROVE DrainInv'
  <2>1. app = "serving" /\ UNCHANGED recorder
    BY <1>5 DEF Start
  <2>2. recorder \notin {"lastTrim", "drain", "drainCommit"}
    BY <2>1 DEF DrainInv
  <2> QED
    BY <1>4, <2>1, <2>2
<1>6. ASSUME NEW r \in Reqs, SubmitRow(r) PROVE DrainInv'
  <2>1. Running' = Running
    BY <1>6 DEF SubmitRow, Running, TypeInv, CallTypes
  <2>2. UNCHANGED <<app, recorder, recs, held, captures, overdue, trimmed>>
    BY <1>6, Zenon DEF SubmitRow
  <2>3. Outlived' = Outlived
    BY <2>1, <2>2 DEF Outlived
  <2> QED
    BY <2>2, <2>3 DEF DrainInv
<1>7. ASSUME NEW r \in Reqs, SubmitCapture(r) PROVE DrainInv'
  <2>1. UNCHANGED <<app, recorder, recs, held, overdue, trimmed>>
    BY <1>7, Zenon DEF SubmitCapture
  <2>2. CASE recorder \notin {"lastTrim", "drain", "drainCommit"}
    BY <1>4, <2>1, <2>2
  <2>3. CASE recorder \in {"lastTrim", "drain", "drainCommit"}
    <3>1. Running' = Running \ {r} /\ r \in Running
      BY <1>7 DEF SubmitCapture, Running, TypeInv, CallTypes
    <3>2. r \in overdue
      BY <2>3, <3>1 DEF DrainInv, SilentInv, Cancelled
    <3>3. Outlived' = Outlived \ {r} /\ r \in Outlived
      BY <2>1, <3>1, <3>2 DEF Outlived
    <3>4. Cardinality(Outlived') = Cardinality(Outlived) - 1 /\ Cardinality(Outlived) \in Nat
      BY <3>3, OutlivedCounts, FS_RemoveElement
    <3>5. Len(captures') <= Len(captures) + 1 /\ Len(captures') \in Nat
      <4>1. /\ Append(captures, r) \in Seq(Reqs)
            /\ Len(Append(captures, r)) = Len(captures) + 1
        BY <1>1, Appended
      <4> QED
        BY <1>2, <1>7, <4>1 DEF SubmitCapture
    <3>6. Cardinality(overdue) \in Nat
      BY OutlivedCounts
    <3> QED
      BY <1>2, <2>1, <3>4, <3>5, <3>6 DEF DrainInv
  <2> QED
    BY <2>2, <2>3
<1>8. CASE Writer
  <2>1. UNCHANGED <<app, recorder, recs, held, captures, overdue, call, trimmed>>
    BY <1>8, Zenon DEF Writer, Take, Tick, BeginDrain, EndDrain, Flush
  <2> QED
    BY <1>3, <2>1
<1>9. CASE TakeCapture
  <2>1. /\ UNCHANGED <<app, recs, overdue, call, trimmed>> /\ recorder \in {"run", "drain"}
        /\ recorder' = IF recorder = "run" THEN "commit" ELSE "drainCommit"
        /\ captures # <<>> /\ captures' = Tail(captures) /\ held' = <<Head(captures)>>
    BY <1>9, Zenon DEF TakeCapture
  <2>2. CASE recorder = "run"
    BY <1>4, <2>1, <2>2
  <2>3. CASE recorder = "drain"
    <3>1. /\ recorder' = "drainCommit" /\ Len(held) = 0 /\ Len(held') = 1
          /\ Len(captures') = Len(captures) - 1
      BY <1>1, <2>1, <2>3, Taken
    <3>2. Outlived' = Outlived
      BY <2>1 DEF Outlived, Running
    <3>3. Cardinality(overdue) \in Nat /\ Cardinality(Outlived) \in Nat
      BY OutlivedCounts
    <3> QED
      BY <1>2, <2>1, <2>3, <3>1, <3>2, <3>3 DEF DrainInv
  <2> QED
    BY <2>1, <2>2, <2>3
<1>10. CASE Commit
  <2>1. /\ UNCHANGED <<app, captures, overdue, call, trimmed>> /\ held' = <<>>
        /\ recs' \in {recs, recs \o held} /\ recorder \in {"commit", "drainCommit"}
    BY <1>10, Zenon DEF Commit
  <2>2. CASE recorder = "commit"
    BY <1>4, <1>10, <2>2 DEF Commit
  <2>3. CASE recorder = "drainCommit"
    <3>1. recorder' = "drain"
      BY <1>10, <2>3 DEF Commit
    <3>2. Len(recs') <= Len(recs) + Len(held) /\ Len(recs') \in Nat /\ Len(held') = 0
      <4>1. recs \o held \in Seq(Reqs) /\ Len(recs \o held) = Len(recs) + Len(held)
        BY <1>1
      <4> QED
        BY <1>2, <2>1, <4>1
    <3>3. Outlived' = Outlived
      BY <2>1 DEF Outlived, Running
    <3>4. Cardinality(overdue) \in Nat /\ Cardinality(Outlived) \in Nat
      BY OutlivedCounts
    <3> QED
      BY <1>2, <2>1, <2>3, <3>1, <3>2, <3>3, <3>4 DEF DrainInv
  <2> QED
    BY <2>1, <2>2, <2>3
<1>11. CASE BeginLastTrim
  BY <1>11 DEF BeginLastTrim, DrainInv
<1>12. CASE Trim
  <2>1. /\ UNCHANGED <<app, captures, held, overdue, call>> /\ recorder \in {"trim", "lastTrim"}
        /\ recorder' = IF recorder = "trim" THEN "run" ELSE "drain"
        /\ recs' = Trimmed(recs) \/ trimmed' = FALSE
    BY <1>12, Zenon DEF Trim
  <2>2. CASE recorder = "trim"
    BY <1>4, <2>1, <2>2
  <2>3. CASE recorder = "lastTrim" /\ trimmed' = FALSE
    BY <2>1, <2>3 DEF DrainInv
  <2>4. CASE recorder = "lastTrim" /\ recs' = Trimmed(recs)
    <3>1. Len(recs') <= Keep /\ Len(recs') \in Nat /\ Len(held') = 0
      BY <1>1, <2>1, <2>4, Ends DEF Trimmed
    <3>2. Outlived' = Outlived
      BY <2>1 DEF Outlived, Running
    <3>3. /\ Cardinality(overdue) \in Nat /\ Cardinality(Outlived) \in Nat
          /\ Cardinality(Outlived) <= Cardinality(overdue)
      BY OutlivedCounts
    <3> QED
      BY <1>1, <1>2, <2>1, <2>4, <3>1, <3>2, <3>3 DEF DrainInv
  <2> QED
    BY <2>1, <2>2, <2>3, <2>4
<1>13. CASE EndCaptures
  BY <1>4, <1>13 DEF EndCaptures
<1>14. CASE DebugClear \/ Stop \/ ShutdownReturns \/ WriterAwaited \/ Migrate \/ StartFails \/ Listen
  <2>1. UNCHANGED recorder
    BY <1>14, Zenon DEF DebugClear, Stop, ShutdownReturns, WriterAwaited, Migrate, StartFails, Listen
  <2>2. app \notin {"drainingDebug", "drainingLate"}
    BY <1>14 DEF DebugClear, Stop, ShutdownReturns, WriterAwaited, Migrate, StartFails, Listen
  <2> QED
    BY <1>4, <2>1, <2>2 DEF DrainInv
<1>15. CASE Exit \/ Kill
  BY <1>4, <1>15 DEF Exit, Kill, Gone
<1>16. CASE Restart
  BY <1>4, <1>16 DEF Restart
<1>17. CASE UNCHANGED vars
  BY <1>3, <1>17, Zenon DEF vars
<1> QED
  BY <1>5, <1>6, <1>7, <1>8, <1>9, <1>10, <1>11, <1>12, <1>13, <1>14, <1>15, <1>16, <1>17
     DEF Next, Handler, Recorder, Stopping

\* How far a stop overshoots the number of recordings it trimmed to, for queues
\* of any size, whatever handlers it left behind.
THEOREM StopDrainsFew == Spec => []DrainBounded
<1>1. Init => SilentInv /\ DrainInv
  BY Emptied DEF Init, SilentInv, Cancelled, DrainInv
<1>2. TypeInv /\ DrainInv => DrainBounded
  <2> SUFFICES ASSUME TypeInv, DrainInv PROVE DrainBounded
    OBVIOUS
  <2>1. /\ Cardinality(Outlived) \in Nat /\ Cardinality(overdue) \in Nat
        /\ Len(recs) \in Nat /\ Len(held) \in Nat /\ Len(captures) \in Nat
    BY OutlivedCounts DEF TypeInv, DebugTypes
  <2> QED
    BY <2>1, SizesAssumption DEF DrainInv, DrainBounded
<1> QED
  BY <1>1, <1>2, TypeInit, TypeStep, SilentStep, DrainStep, PTL DEF Spec

-----------------------------------------------------------------------------
(* Rows *)

Distinct(s) == \A i, j \in 1 .. Len(s) : s[i] = s[j] => i = j
HandedOver == {r \in Reqs : call[r] \in {"submitted", "done"}}

\* The rows on their way, committed, and given up in one manner or another are
\* apart from each other, none is there twice, and together they are those of
\* the requests that handed theirs over.
RowInv ==
    /\ Distinct(queue) /\ Distinct(batch) /\ Distinct(rows)
    /\ ToSet(queue) \cap ToSet(batch) = {} /\ Waiting \cap ToSet(rows) = {}
    /\ (Waiting \cup ToSet(rows)) \cap (dropped \cup silent \cup killed) = {}
    /\ dropped \cap silent = {} /\ dropped \cap killed = {} /\ silent \cap killed = {}
    /\ Waiting \cup ToSet(rows) \cup dropped \cup silent \cup killed = HandedOver

rowVars == <<queue, batch, rows, dropped, silent, killed>>

LEMMA RowInit == Init => RowInv
<1> SUFFICES ASSUME Init PROVE RowInv
  OBVIOUS
<1>1. queue = <<>> /\ batch = <<>> /\ rows = <<>> /\ dropped = {} /\ silent = {} /\ killed = {}
  BY DEF Init
<1>2. HandedOver = {}
  BY DEF Init, HandedOver
<1>3. Distinct(<<>>)
  BY DEF Distinct
<1> QED
  BY <1>1, <1>2, <1>3, Emptied DEF RowInv, Waiting

\* A row that is handed over is a new one, and goes to the queue or to the dropped.
LEMMA SubmitRowKeeps ==
    ASSUME TypeInv, RowInv, NEW r \in Reqs, SubmitRow(r)
    PROVE  RowInv'
<1>1. queue \in Seq(Reqs) /\ call \in [Reqs -> Calls]
  BY DEF TypeInv, UsageTypes, CallTypes
<1>2. UNCHANGED <<batch, rows, silent, killed>> /\ call' = [call EXCEPT ![r] = "submitted"]
      /\ call[r] = "running"
  BY DEF SubmitRow, historyVars
<1>3. HandedOver' = HandedOver \cup {r} /\ r \notin HandedOver
  BY <1>1, <1>2 DEF HandedOver
<1>4. r \notin ToSet(queue) /\ r \notin ToSet(batch) /\ r \notin ToSet(rows)
      /\ r \notin dropped /\ r \notin silent /\ r \notin killed
  BY <1>3 DEF RowInv, Waiting
<1>5. CASE Len(queue) < QueueSize
  <2>1. queue' = Append(queue, r) /\ UNCHANGED dropped
    BY <1>5 DEF SubmitRow
  <2>2. ToSet(queue') = ToSet(queue) \cup {r}
    BY <1>1, <2>1, Appended
  <2>3. Distinct(queue)
    BY DEF RowInv
  <2>4. Distinct(queue')
    BY <1>1, <1>4, <2>1, <2>3, AppendedOnce DEF Distinct
  <2> QED
    BY <1>2, <1>3, <1>4, <2>1, <2>2, <2>4 DEF RowInv, Waiting
<1>6. CASE ~(Len(queue) < QueueSize)
  <2>1. dropped' = dropped \cup {r} /\ UNCHANGED queue
    BY <1>6 DEF SubmitRow
  <2> QED
    BY <1>2, <1>3, <1>4, <2>1 DEF RowInv, Waiting
<1> QED
  BY <1>5, <1>6

\* The writer moves a row from the head of the queue to its batch.
LEMMA TakeKeeps == TypeInv /\ RowInv /\ Take => RowInv'
<1> SUFFICES ASSUME TypeInv, RowInv, Take PROVE RowInv'
  OBVIOUS
<1> DEFINE h == Head(queue)
<1>1. queue \in Seq(Reqs) /\ batch \in Seq(Reqs) /\ queue # <<>> /\ Distinct(queue) /\ Distinct(batch)
  BY DEF TypeInv, UsageTypes, Take, RowInv
<1>2. queue' = Tail(queue) /\ batch' = Append(batch, h)
      /\ UNCHANGED <<call, rows, dropped, silent, killed>>
  BY DEF Take, historyVars
<1>3. h \in ToSet(queue) /\ h \in Reqs /\ ToSet(queue') = ToSet(queue) \ {h} /\ Distinct(queue')
  BY <1>1, <1>2, HeadTaken DEF Distinct
<1>4. h \notin ToSet(batch)
  BY <1>3 DEF RowInv
<1>5. ToSet(batch') = ToSet(batch) \cup {h}
  BY <1>1, <1>2, <1>3, Appended
<1> HIDE DEF h
<1>6. Distinct(batch')
  BY <1>1, <1>2, <1>3, <1>4, AppendedOnce DEF Distinct
<1>7. Waiting' = Waiting /\ HandedOver' = HandedOver /\ ToSet(queue') \cap ToSet(batch') = {}
  BY <1>2, <1>3, <1>5 DEF Waiting, HandedOver, RowInv
<1> QED
  BY <1>2, <1>3, <1>6, <1>7 DEF RowInv

\* The batch is committed or given up as a whole.
LEMMA FlushKeeps == TypeInv /\ RowInv /\ Flush => RowInv'
<1> SUFFICES ASSUME TypeInv, RowInv, Flush PROVE RowInv'
  OBVIOUS
<1>1. rows \in Seq(Reqs) /\ batch \in Seq(Reqs) /\ Distinct(rows) /\ Distinct(batch)
      /\ ToSet(rows) \cap ToSet(batch) = {}
  BY DEF TypeInv, UsageTypes, RowInv, Waiting
<1>2. batch' = <<>> /\ UNCHANGED <<call, queue, silent, killed>>
  BY DEF Flush, historyVars
<1>3. ToSet(batch') = {} /\ Distinct(batch') /\ HandedOver' = HandedOver
      /\ Waiting' = ToSet(queue) /\ ToSet(queue') = ToSet(queue) /\ Distinct(queue')
  BY <1>2, Emptied DEF Distinct, HandedOver, Waiting, RowInv
<1>4. CASE rows' = rows \o batch /\ UNCHANGED dropped
  <2>1. ToSet(rows') = ToSet(rows) \cup ToSet(batch) /\ Distinct(rows')
    <3>1. rows \o batch \in Seq(Reqs) /\ ToSet(rows \o batch) = ToSet(rows) \cup ToSet(batch)
          /\ Distinct(rows \o batch)
      BY <1>1, JoinedOnce DEF Distinct
    <3>2. rows' = rows \o batch
      BY <1>4
    <3> QED
      BY <3>1, <3>2
  <2> QED
    BY <1>2, <1>3, <1>4, <2>1 DEF RowInv, Waiting
<1>5. CASE dropped' = dropped \cup ToSet(batch) /\ UNCHANGED rows
  BY <1>2, <1>3, <1>5 DEF RowInv, Waiting
<1> QED
  BY <1>4, <1>5 DEF Flush

\* What a process that ends was about to keep is given up: with a line, without
\* one, or killed.
LEMMA GoneKeeps ==
    ASSUME TypeInv, RowInv, Gone,
           \/ dropped' = dropped \cup Waiting /\ UNCHANGED <<silent, killed>>
           \/ silent' = silent \cup Waiting /\ UNCHANGED <<dropped, killed>>
           \/ killed' = killed \cup Waiting /\ UNCHANGED <<dropped, silent>>
    PROVE  RowInv'
<1>1. queue' = <<>> /\ batch' = <<>> /\ UNCHANGED rows
  BY DEF Gone
<1>2. ToSet(queue') = {} /\ ToSet(batch') = {} /\ Distinct(queue') /\ Distinct(batch')
      /\ Waiting' = {}
  BY <1>1, Emptied DEF Distinct, Waiting
<1>3. HandedOver' = HandedOver
  BY DEF Gone, HandedOver, TypeInv, CallTypes, Calls
<1> QED
  BY <1>1, <1>2, <1>3 DEF RowInv

\* No other step moves a row.
LEMMA RowsStay == RowInv /\ UNCHANGED rowVars /\ HandedOver' = HandedOver => RowInv'
BY DEF RowInv, rowVars, Waiting, Distinct

LEMMA RowStep == TypeInv /\ RowInv /\ [Next]_vars => RowInv'
<1> SUFFICES ASSUME TypeInv, RowInv, [Next]_vars PROVE RowInv'
  OBVIOUS
<1>0. call \in [Reqs -> Calls]
  BY DEF TypeInv, CallTypes
<1> USE DEF rowVars, usageVars, debugVars, bootVars, historyVars
<1>1. ASSUME UNCHANGED rowVars, UNCHANGED call PROVE RowInv'
  BY <1>1, RowsStay DEF HandedOver
<1>2. ASSUME NEW r \in Reqs, Start(r) \/ SubmitCapture(r) PROVE RowInv'
  <2>1. UNCHANGED rowVars
    BY <1>2 DEF Start, SubmitCapture
  <2>2. HandedOver' = HandedOver
    BY <1>0, <1>2 DEF Start, SubmitCapture, HandedOver
  <2> QED
    BY <2>1, <2>2, RowsStay
<1>3. CASE Tick \/ BeginDrain \/ EndDrain
  BY <1>1, <1>3 DEF Tick, BeginDrain, EndDrain
<1>4. CASE Recorder \/ DebugClear
  BY <1>1, <1>4 DEF Recorder, TakeCapture, Commit, BeginLastTrim, Trim, EndCaptures, DebugClear
<1>5. CASE Stop \/ ShutdownReturns \/ WriterAwaited \/ Restart \/ Migrate \/ StartFails \/ Listen
  BY <1>1, <1>5 DEF Stop, ShutdownReturns, WriterAwaited, Restart, Migrate, StartFails, Listen
<1>6. CASE Exit
  <2>1. Gone
    BY <1>6 DEF Exit
  <2>2. \/ dropped' = dropped \cup Waiting /\ UNCHANGED <<silent, killed>>
        \/ silent' = silent \cup Waiting /\ UNCHANGED <<dropped, killed>>
    BY <1>6 DEF Exit
  <2> QED
    BY <2>1, <2>2, GoneKeeps
<1>7. CASE Kill
  BY <1>7, GoneKeeps DEF Kill
<1>8. CASE UNCHANGED vars
  BY <1>1, <1>8 DEF vars
<1> QED
  BY <1>2, <1>3, <1>4, <1>5, <1>6, <1>7, <1>8, SubmitRowKeeps, TakeKeeps, FlushKeeps
     DEF Next, Handler, Writer, Stopping

\* Of three sets that share nothing, one or none holds a given element.
LEMMA Tagged ==
    ASSUME NEW A, NEW B, NEW C, NEW e, A \cap B = {}, A \cap C = {}, B \cap C = {}
    PROVE  Cardinality({S \in {<<1, A>>, <<2, B>>, <<3, C>>} : e \in S[2]}) =
             IF e \in A \cup B \cup C THEN 1 ELSE 0
<1> DEFINE T == {S \in {<<1, A>>, <<2, B>>, <<3, C>>} : e \in S[2]}
<1>1. CASE e \in A
  <2>1. T = {<<1, A>>}
    BY <1>1
  <2> QED
    BY <1>1, <2>1, FS_Singleton
<1>2. CASE e \in B
  <2>1. T = {<<2, B>>}
    BY <1>2
  <2> QED
    BY <1>2, <2>1, FS_Singleton
<1>3. CASE e \in C
  <2>1. T = {<<3, C>>}
    BY <1>3
  <2> QED
    BY <1>3, <2>1, FS_Singleton
<1>4. CASE e \notin A \cup B \cup C
  <2>1. T = {}
    BY <1>4
  <2> QED
    BY <1>4, <2>1, FS_EmptySet
<1> QED
  BY <1>1, <1>2, <1>3, <1>4

\* An entry that is there at most once has one place or none.
LEMMA OnePlace ==
    ASSUME NEW S, NEW s \in Seq(S), Distinct(s), NEW e
    PROVE  Cardinality({i \in DOMAIN s : s[i] = e}) = IF e \in ToSet(s) THEN 1 ELSE 0
<1> DEFINE P == {i \in DOMAIN s : s[i] = e}
<1>1. DOMAIN s = 1 .. Len(s) /\ ToSet(s) = {s[i] : i \in 1 .. Len(s)}
  BY Elements
<1>2. CASE e \in ToSet(s)
  <2>1. PICK k \in 1 .. Len(s) : s[k] = e
    BY <1>1, <1>2
  <2>2. P = {k}
    BY <1>1, <2>1 DEF Distinct
  <2> QED
    BY <1>2, <2>2, FS_Singleton
<1>3. CASE e \notin ToSet(s)
  <2>1. P = {}
    BY <1>1, <1>3
  <2> QED
    BY <1>3, <2>1, FS_EmptySet
<1> QED
  BY <1>2, <1>3

LEMMA RowsCounted == TypeInv /\ RowInv => RowsAccounted
<1> SUFFICES ASSUME TypeInv, RowInv, NEW r \in Reqs
             PROVE  Places(r) = IF call[r] \in {"submitted", "done"} THEN 1 ELSE 0
  BY DEF RowsAccounted
<1> DEFINE way == queue \o batch \o rows
           on == Cardinality({i \in DOMAIN way : way[i] = r})
           off == Cardinality({S \in {<<1, dropped>>, <<2, silent>>, <<3, killed>>} : r \in S[2]})
<1>1. queue \in Seq(Reqs) /\ batch \in Seq(Reqs) /\ rows \in Seq(Reqs)
  BY DEF TypeInv, UsageTypes
<1>2. queue \o batch \in Seq(Reqs) /\ ToSet(queue \o batch) = Waiting /\ Distinct(queue \o batch)
  <2>1. ToSet(queue) \cap ToSet(batch) = {} /\ Distinct(queue) /\ Distinct(batch)
    BY DEF RowInv
  <2> QED
    BY <1>1, <2>1, JoinedOnce DEF Distinct, Waiting
<1>3. way \in Seq(Reqs) /\ ToSet(way) = Waiting \cup ToSet(rows) /\ Distinct(way)
  <2> DEFINE q == queue \o batch
  <2>1. q \in Seq(Reqs) /\ ToSet(q) \cap ToSet(rows) = {} /\ Distinct(q) /\ Distinct(rows)
    BY <1>2 DEF RowInv
  <2> HIDE DEF q
  <2>2. q \o rows \in Seq(Reqs) /\ ToSet(q \o rows) = ToSet(q) \cup ToSet(rows)
        /\ Distinct(q \o rows)
    BY <1>1, <2>1, JoinedOnce DEF Distinct
  <2> QED
    BY <1>2, <2>2 DEF q
<1>4. on = IF r \in Waiting \cup ToSet(rows) THEN 1 ELSE 0
  <2> HIDE DEF way
  <2> QED
    BY <1>3, OnePlace
<1>5. off = IF r \in dropped \cup silent \cup killed THEN 1 ELSE 0
  <2>1. dropped \cap silent = {} /\ dropped \cap killed = {} /\ silent \cap killed = {}
    BY DEF RowInv
  <2> HIDE DEF off
  <2>2. off = Cardinality({S \in {<<1, dropped>>, <<2, silent>>, <<3, killed>>} : r \in S[2]})
    BY DEF off
  <2>3. Cardinality({S \in {<<1, dropped>>, <<2, silent>>, <<3, killed>>} : r \in S[2]}) =
          IF r \in dropped \cup silent \cup killed THEN 1 ELSE 0
    BY <2>1, Tagged
  <2> QED
    BY <2>2, <2>3, Zenon
<1>6. Places(r) = on + off
  BY DEF Places
<1>7. call[r] \in {"submitted", "done"} <=>
        r \in Waiting \cup ToSet(rows) \/ r \in dropped \cup silent \cup killed
  BY DEF RowInv, HandedOver
<1>8. ~(r \in Waiting \cup ToSet(rows) /\ r \in dropped \cup silent \cup killed)
  BY DEF RowInv
<1> HIDE DEF on, off
<1> QED
  BY <1>4, <1>5, <1>6, <1>7, <1>8

\* A request that handed its row over has it in one place, through every full
\* queue, failed insert, stop and kill, and one that did not has none anywhere.
THEOREM RowsAreAccounted == Spec => []RowsAccounted
BY TypeInit, TypeStep, RowInit, RowStep, RowsCounted, PTL DEF Spec
==============================================================================
