--------------------------------- MODULE Health ---------------------------------
(***************************************************************************)
(* The health manager (src/internal/health/health.go): one probe loop for  *)
(* each configured server, the election of one of its host's addresses,    *)
(* its fall after failing rounds, and the route table that requests read.  *)
(*                                                                         *)
(* A server that is removed and added again gets a new state and a new     *)
(* loop, while the old loop may still be waiting for an answer: loops and  *)
(* states are named by incarnations, <<server, number>>. Everything that   *)
(* runs outside a lock is a step of its own: each address asked, the       *)
(* storing of what it answered, and of a rebuild of the table the listing  *)
(* of the servers, the reading of each, and the storing of the result.     *)
(***************************************************************************)
EXTENDS Naturals, Sequences, FiniteSets, SequencesExt

CONSTANTS
    Servers,        \* host and server ids
    Incarnations,   \* bound: states of one server that are around at once
    Addresses,
    Configs,        \* [addrs, seg]: host_addresses, and the segment of the
                    \* published ids that an operator may edit
    Answers,        \* model lists a server may answer with
    DownAfter,      \* failing rounds that take a server down: 3
    Appliers,       \* goroutines that call Apply
    Loaded,         \* the configurations that may be loaded at startup
    Worlds,         \* what the addresses may answer at first
    Edits,          \* bound: edits of the configuration or the settings
    Changes,        \* bound: changes of what an address answers
    None            \* no address, no state, no answer

ASSUME ConfigsAssumption ==
    \A c \in Configs : /\ c.addrs \in Seq(Addresses) /\ c.addrs # <<>>
                       /\ IsInjective(c.addrs)
ASSUME LoadedAssumption == Loaded \subseteq UNION {[D -> Configs] : D \in SUBSET Servers}
ASSUME WorldsAssumption == Worlds \subseteq [Addresses -> Answers \cup {None}]
ASSUME DownAfterAssumption == DownAfter \in Nat \ {0}
ASSUME BoundsAssumption == Incarnations \in Nat \ {0} /\ Edits \in Nat /\ Changes \in Nat
ASSUME AppliersAssumption == Appliers \cap (Servers \X Nat) = {}
ASSUME NoneAssumption == None \notin Addresses \cup Answers \cup (Servers \X Nat)

States == Servers \X (1..Incarnations)

VARIABLES
    servers,    \* Manager.servers: of each server its state, or None
    stopped,    \* Manager.stopped
    table,      \* Manager.table, as a set of routes
    reelect,    \* whether Manager.reelect holds its token
    st,         \* ServerState: up, fails (consecFail), active, models, cfg
    closed,     \* whether entry.stop is closed and its context cancelled
    probeNow,   \* whether entry.probeNow holds its token
    probe,      \* where each probe loop is: see Probes
    rebuild,    \* a rebuild under way: servers left to read, routes found
    world,      \* external: what each address would answer, None for nothing
    edits,      \* edits made so far
    changes     \* changes of the world so far

vars == <<servers, stopped, table, reelect, st, closed, probeNow, probe, rebuild,
          world, edits, changes>>
managerVars == <<servers, stopped, table, reelect>>
stateVars == <<st, closed, probeNow>>
outside == <<world, edits, changes>>

Threads == States \cup Appliers

\* A published model id, and the state it is routed to (Target).
Routes == [id : {c.seg : c \in Configs} \X UNION Answers, to : States]

\* A loop has not begun or has ended; is about to probe; waits in its select;
\* asks the first of the addresses left; has an answer; rebuilds the table.
\* was: the active address when the round began.
Probes == [pc : {"none", "round", "select", "ask", "answered", "rebuild"},
           left : Seq(Addresses), was : Addresses \cup {None}, got : Answers \cup {None}]
NoLoop == [pc |-> "none", left |-> <<>>, was |-> None, got |-> None]

NoRebuild == [pc |-> "none", left |-> {}, found |-> {}]
Collecting == [NoRebuild EXCEPT !.pc = "collect"]

-----------------------------------------------------------------------------
(* State functions *)

Live == {servers[k] : k \in Servers} \ {None}

NewState(cfg) == [up |-> FALSE, fails |-> 0, active |-> None, models |-> {}, cfg |-> cfg]

\* A state nothing refers to any more, free to stand for a new one.
Spare(o) ==
    /\ o \notin Live /\ probe[o].pc = "none"
    /\ \A r \in table : r.to # o
    /\ \A t \in Threads : o \notin rebuild[t].left /\ \A r \in rebuild[t].found : r.to # o

\* What RebuildTable publishes for a server: its models, while it is up and has
\* an address that answers.
Published(o) ==
    IF st[o].up /\ st[o].active # None
    THEN {[id |-> <<st[o].cfg.seg, m>>, to |-> o] : m \in st[o].models}
    ELSE {}

\* The list without one of its addresses, each of which it has once.
Without(addrs, a) ==
    IF a \in ToSet(addrs) THEN RemoveAt(addrs, CHOOSE i \in DOMAIN addrs : addrs[i] = a) ELSE addrs
\* Slip: the list from position 0, whichever address is active.
CandidatesFromFirst(o) == st[o].cfg.addrs
\* The order of a probe round: the active address, while there is one, then
\* host_addresses from position 0.
Candidates(o) ==
    LET a == st[o].active
    IN  (IF a = None THEN <<>> ELSE <<a>>) \o Without(st[o].cfg.addrs, a)

\* Known: published now, or in the last list of a configured server.
Known(id) ==
    \/ \E r \in table : r.id = id
    \/ \E o \in Live : id[1] = st[o].cfg.seg /\ id[2] \in st[o].models

-----------------------------------------------------------------------------
(* Start, Apply, Stop *)

\* NewManager, Start, and the Apply of the configuration that was loaded: each
\* configured server has a loop that is about to probe, and a first rebuild of
\* the table is under way.
Init ==
    /\ \E d \in Loaded :
          /\ servers = [k \in Servers |-> IF k \in DOMAIN d THEN <<k, 1>> ELSE None]
          /\ \E cfg \in Configs :
                st = [o \in States |-> NewState(IF o[1] \in DOMAIN d THEN d[o[1]] ELSE cfg)]
    /\ stopped = FALSE
    /\ table = {}
    /\ reelect = FALSE
    /\ closed = [o \in States |-> FALSE]
    /\ probeNow = [o \in States |-> FALSE]
    /\ probe = [o \in States |-> IF o \in Live THEN [NoLoop EXCEPT !.pc = "round"] ELSE NoLoop]
    /\ \E a \in Appliers : rebuild = [t \in Threads |-> IF t = a THEN Collecting ELSE NoRebuild]
    /\ world \in Worlds
    /\ edits = 0 /\ changes = 0

\* setConfig: an edit of host_addresses drops the election.
Reconfigured(s, cfg) ==
    [s EXCEPT !.cfg = cfg, !.active = IF s.cfg.addrs = cfg.addrs THEN @ ELSE None]

\* Slip: the servers that vanish are forgotten, their loops are not stopped.
VanishedForgotten(D) == {}
\* The states of the servers that are no longer configured.
Vanished(D) == {servers[k] : k \in Servers \ D} \ {None}

MayApply(a) == ~stopped /\ rebuild[a].pc = "none"

\* One call of Apply: desired gives the configured servers their configuration.
\* Vanished servers are stopped, known ones updated and, if their addresses
\* changed, told to probe now; new ones get a state and a loop. All of it under
\* Manager.mu; the rebuild of the table follows.
Apply(a, desired) ==
    LET vanished == Vanished(DOMAIN desired)
        new == {k \in DOMAIN desired : servers[k] = None}
        old == {o \in Live : o[1] \in DOMAIN desired}
        edited == {o \in old : st[o].cfg.addrs # desired[o[1]].addrs}
    IN  /\ MayApply(a)
        /\ \E born \in [new -> States] :
              /\ \A k \in new : born[k][1] = k /\ Spare(born[k])
              /\ LET fresh == {born[k] : k \in new} IN
                 /\ servers' = [k \in Servers |-> IF k \in new THEN born[k]
                                                  ELSE IF k \in DOMAIN desired THEN servers[k]
                                                  ELSE None]
                 /\ st' = [o \in States |-> IF o \in fresh THEN NewState(desired[o[1]])
                                            ELSE IF o \in old THEN Reconfigured(st[o], desired[o[1]])
                                            ELSE st[o]]
                 /\ closed' = [o \in States |-> o \notin fresh /\ (closed[o] \/ o \in vanished)]
                 /\ probeNow' = [o \in States |-> o \notin fresh /\ (probeNow[o] \/ o \in edited)]
                 /\ probe' = [o \in States |-> IF o \in fresh THEN [NoLoop EXCEPT !.pc = "round"]
                                               ELSE probe[o]]
        /\ rebuild' = [rebuild EXCEPT ![a] = Collecting]
        /\ edits < Edits /\ edits' = edits + 1
        /\ UNCHANGED <<stopped, table, reelect, world, changes>>

\* Stop ends all probe loops; the servers stay listed.
Stop ==
    /\ ~stopped
    /\ stopped' = TRUE
    /\ closed' = [o \in States |-> closed[o] \/ o \in Live]
    /\ UNCHANGED <<servers, table, reelect, st, probeNow, probe, rebuild, outside>>

\* The settings changed: one token for all loops, dropped when it is there.
SettingsChange ==
    /\ ~reelect
    /\ reelect' = TRUE
    /\ edits < Edits /\ edits' = edits + 1
    /\ UNCHANGED <<servers, stopped, table, stateVars, probe, rebuild, world, changes>>

-----------------------------------------------------------------------------
(* RebuildTable, by the goroutine t *)

\* Under Manager.mu: the servers to read.
Collect(t) ==
    /\ rebuild[t].pc = "collect"
    /\ rebuild' = [rebuild EXCEPT ![t] = [pc |-> "read", left |-> Live, found |-> {}]]
    /\ UNCHANGED <<managerVars, stateVars, probe, outside>>

\* Under the lock of one server: its snapshot. An id that is there already is
\* not published twice.
Read(t) ==
    /\ rebuild[t].pc = "read"
    /\ \E o \in rebuild[t].left :
          rebuild' = [rebuild EXCEPT
              ![t].left = @ \ {o},
              ![t].found = @ \cup {p \in Published(o) : \A r \in @ : r.id # p.id}]
    /\ UNCHANGED <<managerVars, stateVars, probe, outside>>

\* Without a lock: the table is replaced, and whoever called goes on.
Store(t) ==
    /\ rebuild[t].pc = "read" /\ rebuild[t].left = {}
    /\ table' = rebuild[t].found
    /\ rebuild' = [rebuild EXCEPT ![t] = NoRebuild]
    /\ probe' = [o \in States |-> IF o = t THEN [NoLoop EXCEPT !.pc = "select"] ELSE probe[o]]
    /\ UNCHANGED <<servers, stopped, reelect, stateVars, outside>>

-----------------------------------------------------------------------------
(* The loop of a server, and a round of probes *)

To(o, pc) == probe' = [probe EXCEPT ![o].pc = pc]

\* A round begins: the snapshot it works on. (A loop does nothing between
\* waking up and taking it.)
Begin(o) ==
    probe' = [probe EXCEPT ![o] = [pc |-> "ask", left |-> Candidates(o),
                                   was |-> st[o].active, got |-> None]]

\* The select of the loop. A loop that waits there when its stop is closed is
\* woken by that and by nothing else; one that comes back to it later may find
\* a token as well, and takes either.
Ends(o) ==
    /\ probe[o].pc = "select" /\ closed[o]
    /\ probe' = [probe EXCEPT ![o] = NoLoop]
    /\ UNCHANGED <<managerVars, stateVars, rebuild, outside>>
Restarts(o) ==
    /\ probe[o].pc = "select" /\ reelect
    /\ reelect' = FALSE
    /\ UNCHANGED <<servers, stopped, table, stateVars, probe, rebuild, outside>>
Hurries(o) ==
    /\ probe[o].pc = "select" /\ probeNow[o]
    /\ probeNow' = [probeNow EXCEPT ![o] = FALSE]
    /\ Begin(o)
    /\ UNCHANGED <<managerVars, st, closed, rebuild, outside>>
\* Slip: the timer is taken although the loop was told to stop.
TimerFiresOnceStopped(o) ==
    /\ probe[o].pc = "select"
    /\ Begin(o)
    /\ UNCHANGED <<managerVars, stateVars, rebuild, outside>>
TimerFires(o) ==
    /\ probe[o].pc = "select" /\ ~closed[o]
    /\ Begin(o)
    /\ UNCHANGED <<managerVars, stateVars, rebuild, outside>>
Starts(o) ==
    /\ probe[o].pc = "round"
    /\ Begin(o)
    /\ UNCHANGED <<managerVars, stateVars, rebuild, outside>>

\* probeAddr: the next address answers, or does not; once the context is
\* cancelled an answer may be lost.
AskAnswered(o) ==
    /\ probe[o].pc = "ask" /\ probe[o].left # <<>>
    /\ world[Head(probe[o].left)] # None
    /\ probe' = [probe EXCEPT ![o].pc = "answered", ![o].got = world[Head(probe[o].left)]]
    /\ UNCHANGED <<managerVars, stateVars, rebuild, outside>>
AskFailed(o) ==
    /\ probe[o].pc = "ask" /\ probe[o].left # <<>>
    /\ world[Head(probe[o].left)] = None \/ closed[o]
    /\ probe' = [probe EXCEPT ![o].left = Tail(@)]
    /\ UNCHANGED <<managerVars, stateVars, rebuild, outside>>

\* Slip: the count of failures is not reset.
ElectCounting(o) ==
    /\ probe[o].pc = "answered"
    /\ st' = [st EXCEPT ![o].up = TRUE,
                        ![o].active = Head(probe[o].left), ![o].models = probe[o].got]
    /\ To(o, "rebuild")
    /\ rebuild' = [rebuild EXCEPT ![o] = Collecting]
    /\ UNCHANGED <<managerVars, closed, probeNow, outside>>
\* The address that answered is elected.
Elect(o) ==
    /\ probe[o].pc = "answered"
    /\ st' = [st EXCEPT ![o].up = TRUE, ![o].fails = 0,
                        ![o].active = Head(probe[o].left), ![o].models = probe[o].got]
    /\ To(o, "rebuild")
    /\ rebuild' = [rebuild EXCEPT ![o] = Collecting]
    /\ UNCHANGED <<managerVars, closed, probeNow, outside>>

\* Nothing answered: the election is lost, and after DownAfter such rounds in a
\* row the server is down. (Failures beyond those are not counted here: nothing
\* but the dashboard looks at them.)
Fails(o) == IF st[o].fails = DownAfter THEN DownAfter ELSE st[o].fails + 1
\* Slip: the table is not rebuilt after a round that failed.
MissUnpublished(o) ==
    /\ probe[o].pc = "ask" /\ probe[o].left = <<>>
    /\ st' = [st EXCEPT ![o].active = IF probe[o].was = None THEN @ ELSE None,
                        ![o].fails = Fails(o),
                        ![o].up = @ /\ Fails(o) < DownAfter]
    /\ To(o, "select")
    /\ UNCHANGED <<managerVars, closed, probeNow, rebuild, outside>>
Miss(o) ==
    /\ probe[o].pc = "ask" /\ probe[o].left = <<>>
    /\ st' = [st EXCEPT ![o].active = IF probe[o].was = None THEN @ ELSE None,
                        ![o].fails = Fails(o),
                        ![o].up = @ /\ Fails(o) < DownAfter]
    /\ To(o, "rebuild")
    /\ rebuild' = [rebuild EXCEPT ![o] = Collecting]
    /\ UNCHANGED <<managerVars, closed, probeNow, outside>>

\* An address starts to answer, stops, or answers with other models.
WorldChanges ==
    /\ \E a \in Addresses, w \in Answers \cup {None} :
          w # world[a] /\ world' = [world EXCEPT ![a] = w]
    /\ changes < Changes /\ changes' = changes + 1
    /\ UNCHANGED <<managerVars, stateVars, probe, rebuild, edits>>

-----------------------------------------------------------------------------
(* Specification *)

Wake(o) == Ends(o) \/ Restarts(o) \/ Hurries(o) \/ TimerFires(o)
Round(o) == Starts(o) \/ AskAnswered(o) \/ AskFailed(o) \/ Elect(o) \/ Miss(o)
Rebuild(t) == Collect(t) \/ Read(t) \/ Store(t)
Reconfigure == \E a \in Appliers, D \in SUBSET Servers : \E d \in [D -> Configs] : Apply(a, d)

Next ==
    \/ Reconfigure \/ Stop \/ SettingsChange \/ WorldChanges
    \/ \E t \in Threads : Rebuild(t)
    \/ \E o \in States : Wake(o) \/ Round(o)

Spec == Init /\ [][Next]_vars

\* The scheduler keeps every goroutine going, probe_timeout bounds the wait for
\* an answer, a timer fires, and a closed channel stays ready. Nobody need edit
\* the configuration, the settings or the world, and nobody need stop.
Fairness ==
    /\ \A t \in Threads : WF_vars(Rebuild(t))
    /\ \A o \in States : WF_vars(Round(o)) /\ WF_vars(Ends(o)) /\ WF_vars(TimerFires(o))

FairSpec == Spec /\ Fairness

-----------------------------------------------------------------------------
(* Properties *)

\* Every variable stays in the range the code gives it: the addresses asked and
\* elected are addresses, though not always of the server's list, and the
\* routes lead to states, though not always of a server that is configured.
TypeOK ==
    /\ servers \in [Servers -> States \cup {None}]
    /\ stopped \in BOOLEAN /\ reelect \in BOOLEAN
    /\ table \subseteq Routes
    /\ st \in [States -> [up : BOOLEAN, fails : 0..DownAfter, active : Addresses \cup {None},
                          models : Answers \cup {{}}, cfg : Configs]]
    /\ closed \in [States -> BOOLEAN] /\ probeNow \in [States -> BOOLEAN]
    /\ probe \in [States -> Probes]
    /\ \A t \in Threads : /\ rebuild[t].pc \in {"none", "collect", "read"}
                          /\ rebuild[t].left \subseteq States
                          /\ rebuild[t].found \subseteq Routes
    /\ world \in [Addresses -> Answers \cup {None}]
    /\ edits \in 0..Edits /\ changes \in 0..Changes

\* Every configured server has one loop and no other server has: a loop that
\* serves no configured server has been told to stop, also when its server is
\* removed and added again while it waits for an answer; and after Stop no edit
\* that was on its way starts another one.
OneLoopEach ==
    /\ \A o \in Live : probe[o].pc # "none" \/ closed[o]
    /\ \A o \in States : probe[o].pc # "none" => o \in Live \/ closed[o]
    /\ \A o \in Live : closed[o] <=> stopped

\* Down means failing: a server that ever answered is down exactly when its
\* last DownAfter rounds failed, and the models it had are kept meanwhile.
DownMeansFailing ==
    \A o \in States : st[o].models # {} => (st[o].up <=> st[o].fails < DownAfter)

\* No fail-back: a server leaves an address for another one only when the
\* address it leaves did not answer in the same round.
NoFailBack ==
    [][\A o \in States :
         st[o].active # None /\ st'[o].active \notin {None, st[o].active}
            => probe[o].was = st[o].active /\ st[o].active \notin ToSet(probe[o].left)]_vars

\* An address that an edit removed while it was being asked, and that answered
\* and was elected all the same.
Leftover(o) == st[o].active \notin ToSet(st[o].cfg.addrs) \cup {None}

\* What the states should say of a server that is configured.
Serves(o) == \E a \in ToSet(st[o].cfg.addrs) : world[a] # None
Right(o) ==
    IF Serves(o)
    THEN /\ st[o].up /\ st[o].active \in ToSet(st[o].cfg.addrs)
         /\ st[o].models = world[st[o].active]
    ELSE ~st[o].up /\ st[o].active = None
\* What they say instead of a server that still has an address left over: that
\* it is up, with what that address answers.
RightButLeftover(o) ==
    /\ Leftover(o)
    /\ st[o].up /\ world[st[o].active] # None /\ st[o].models = world[st[o].active]
Agree ==
    /\ \A o \in Live : Right(o) \/ RightButLeftover(o)
    /\ table = UNION {Published(o) : o \in Live}

\* Once nobody edits the configuration and the servers stay as they are, the
\* states come to say what the servers answer and the table what the states
\* say, whatever probes and rebuilds overtook each other before: as long as one
\* server is left to be probed. The server is asked at an address of its list,
\* but for the exception that DroppedAddressGoes is about.
Quiet ==
    /\ <>[][/\ UNCHANGED <<servers, world>>
            /\ \A o \in Live : st'[o].cfg = st[o].cfg]_vars
    /\ []~stopped
Settles == Quiet => <>[](Live = {} \/ Agree)

\* An edit of host_addresses drops the election, and the next probe walks the
\* new list (specs/functional.specs.md:370-373 and scenario 20, line 692): a
\* server does not stay at an address that was taken off its list, unless the
\* health manager is stopped or the server removed. The code does not keep
\* this: a probe that is under way elects the address it asked, and every later
\* round begins with the address that is elected.
DroppedAddressGoes ==
    \A o \in States : o \in Live /\ Leftover(o) ~> stopped \/ o \notin Live \/ ~Leftover(o)

\* The loop of a server that is removed ends, even with a probe in flight.
RemovedLoopsEnd == \A o \in States : closed[o] ~> probe[o].pc = "none"
==============================================================================
