------------------------------ MODULE HealthProofs ------------------------------
(***************************************************************************)
(* What holds of Health for every set of servers, addresses and            *)
(* configurations, any number of goroutines that apply one and of failing  *)
(* rounds that take a server down, and every order of their steps.         *)
(***************************************************************************)
EXTENDS Health, SequenceLemmas, TLAPS

-----------------------------------------------------------------------------
(* The addresses of a round *)

\* An address that is taken off an injective list is not in what is left.
LEMMA WithoutLacks ==
    ASSUME NEW s \in Seq(Addresses), IsInjective(s), NEW a
    PROVE  Without(s, a) \in Seq(Addresses) /\ a \notin ToSet(Without(s, a))
<1>1. CASE a \notin ToSet(s)
  BY <1>1 DEF Without
<1>2. CASE a \in ToSet(s)
  <2> DEFINE i == CHOOSE n \in DOMAIN s : s[n] = a
             t == RemoveAt(s, i)
  <2>1. i \in DOMAIN s /\ s[i] = a
    BY <1>2 DEF ToSet
  <2> HIDE DEF i
  <2>2. i \in 1..Len(s) /\ Len(s) \in Nat
    BY <2>1
  <2>3. \A n \in 1..Len(s) : s[n] = a => n = i
    BY <2>1, <2>2 DEF IsInjective
  <2> DEFINE u == SubSeq(s, 1, i - 1)
             v == SubSeq(s, i + 1, Len(s))
  <2>4. /\ u \in Seq(Addresses) /\ Len(u) = i - 1
        /\ \A n \in 1..Len(u) : u[n] = s[n]
    BY <2>2
  <2>5. /\ v \in Seq(Addresses) /\ Len(v) = Len(s) - i
        /\ \A n \in 1..Len(v) : v[n] = s[i + n]
    BY <2>2
  <2>6. t = u \o v
    BY DEF RemoveAt
  <2> HIDE DEF u, v, t
  <2>7. /\ t \in Seq(Addresses) /\ Len(t) = Len(u) + Len(v)
        /\ \A n \in 1..Len(u) : t[n] = u[n]
        /\ \A n \in (Len(u) + 1)..(Len(u) + Len(v)) : t[n] = v[n - Len(u)]
    <3>1. u \in Seq(Addresses) /\ v \in Seq(Addresses)
      BY <2>4, <2>5
    <3> QED
      BY <2>6, <3>1, Concatenated
  <2>8. ASSUME NEW n \in 1..Len(t) PROVE t[n] # a
    <3>1. CASE n <= Len(u)
      <4>1. n \in 1..Len(u) /\ n \in 1..Len(s) /\ n # i
        BY <2>2, <2>4, <3>1
      <4> QED
        BY <2>3, <2>4, <2>7, <4>1
    <3>2. CASE ~(n <= Len(u))
      <4>1. n - Len(u) \in 1..Len(v) /\ i + (n - Len(u)) \in 1..Len(s) /\ i + (n - Len(u)) # i
        BY <2>2, <2>4, <2>5, <2>7, <3>2
      <4>2. n \in (Len(u) + 1)..(Len(u) + Len(v))
        BY <2>4, <2>5, <2>7, <3>2
      <4> QED
        BY <2>3, <2>5, <2>7, <4>1, <4>2
    <3> QED
      BY <3>1, <3>2
  <2>9. DOMAIN t = 1..Len(t)
    BY <2>7
  <2>10. a \notin ToSet(t)
    BY <2>8, <2>9 DEF ToSet
  <2> QED
    BY <1>2, <2>7, <2>10 DEF Without, i, t
<1> QED
  BY <1>1, <1>2

-----------------------------------------------------------------------------
(* Types *)

Records == [up : BOOLEAN, fails : 0..DownAfter, active : Addresses \cup {None},
            models : Answers \cup {{}}, cfg : Configs]

StateTypes ==
    /\ st \in [States -> Records]
    /\ closed \in [States -> BOOLEAN] /\ probeNow \in [States -> BOOLEAN]

\* A server is listed under its own name.
ServerTypes ==
    /\ servers \in [Servers -> States \cup {None}]
    /\ \A k \in Servers : servers[k] # None => servers[k][1] = k

\* A loop that has an answer has a list of models.
ProbeTypes ==
    /\ probe \in [States -> Probes]
    /\ \A o \in States : /\ probe[o].pc = "answered" => probe[o].got # None
                         /\ probe[o].pc = "answered" => probe[o].left # <<>>

RebuildTypes ==
    /\ DOMAIN rebuild = Threads
    /\ \A t \in Threads : /\ rebuild[t].pc \in {"none", "collect", "read"}
                          /\ rebuild[t].left \subseteq States
                          /\ rebuild[t].found \subseteq Routes

OtherTypes ==
    /\ stopped \in BOOLEAN /\ reelect \in BOOLEAN
    /\ world \in [Addresses -> Answers \cup {None}]
    /\ edits \in 0..Edits /\ changes \in 0..Changes

TypeInv == StateTypes /\ ServerTypes /\ ProbeTypes /\ RebuildTypes /\ OtherTypes /\ table \subseteq Routes

LEMMA Typed == TypeInv => TypeOK
BY DEF TypeInv, StateTypes, ServerTypes, ProbeTypes, RebuildTypes, OtherTypes, TypeOK, Records

LEMMA NewTyped == ASSUME NEW cfg \in Configs PROVE NewState(cfg) \in Records
BY DownAfterAssumption DEF NewState, Records

LEMMA NoLoopTyped == NoLoop \in Probes /\ [NoLoop EXCEPT !.pc = "round"] \in Probes
                     /\ [NoLoop EXCEPT !.pc = "select"] \in Probes
<1>1. <<>> \in Seq(Addresses) /\ None \in Addresses \cup {None} /\ None \in Answers \cup {None}
  OBVIOUS
<1>2. \A pc \in {"none", "round", "select"} :
        [pc |-> pc, left |-> <<>>, was |-> None, got |-> None] \in Probes
  BY <1>1 DEF Probes
<1> QED
  BY <1>2 DEF NoLoop

LEMMA NoneIsNoState == None \notin States
BY NoneAssumption, BoundsAssumption DEF States

LEMMA LiveTyped == ServerTypes => Live \subseteq States
BY DEF ServerTypes, Live

LEMMA ReconfiguredTyped ==
    ASSUME NEW s \in Records, NEW cfg \in Configs
    PROVE  /\ Reconfigured(s, cfg) \in Records
           /\ Reconfigured(s, cfg).up = s.up /\ Reconfigured(s, cfg).fails = s.fails
           /\ Reconfigured(s, cfg).models = s.models
           /\ Reconfigured(s, cfg).active \in {s.active, None}
           /\ Reconfigured(s, cfg).cfg.addrs # s.cfg.addrs => Reconfigured(s, cfg).active = None
BY DEF Reconfigured, Records

LEMMA PublishedTyped ==
    ASSUME StateTypes, NEW o \in States PROVE Published(o) \subseteq Routes
<1>1. st[o].models \in Answers \cup {{}} /\ st[o].cfg \in Configs
  BY DEF StateTypes, Records
<1>2. ASSUME NEW m \in st[o].models PROVE [id |-> <<st[o].cfg.seg, m>>, to |-> o] \in Routes
  BY <1>1, <1>2 DEF Routes
<1> QED
  BY <1>2 DEF Published

\* What a round asks: nobody but the active address, then the others.
LEMMA CandidatesTyped ==
    ASSUME StateTypes, NEW o \in States
    PROVE  /\ Candidates(o) \in Seq(Addresses)
           /\ st[o].active # None =>
                /\ Candidates(o) # <<>> /\ Head(Candidates(o)) = st[o].active
                /\ st[o].active \notin ToSet(Tail(Candidates(o)))
<1> DEFINE a == st[o].active
           w == Without(st[o].cfg.addrs, a)
<1>1. a \in Addresses \cup {None} /\ st[o].cfg \in Configs
  BY DEF StateTypes, Records
<1>2. st[o].cfg.addrs \in Seq(Addresses) /\ IsInjective(st[o].cfg.addrs)
  BY <1>1, ConfigsAssumption
<1>3. w \in Seq(Addresses) /\ a \notin ToSet(w)
  BY <1>2, WithoutLacks
<1> HIDE DEF w
<1>4. CASE a = None
  <2>1. Candidates(o) = <<>> \o w
    BY <1>4 DEF Candidates, w
  <2>2. <<>> \o w = w
    BY <1>3
  <2> QED
    BY <1>3, <1>4, <2>1, <2>2
<1>5. CASE a # None
  <2>1. Candidates(o) = <<a>> \o w /\ a \in Addresses
    BY <1>1, <1>5 DEF Candidates, w
  <2> HIDE DEF a
  <2>2. /\ <<a>> \o w \in Seq(Addresses) /\ <<a>> \o w # <<>>
        /\ Head(<<a>> \o w) = a /\ Tail(<<a>> \o w) = w
    BY <1>3, <2>1, Consed
  <2>3. a = st[o].active
    BY DEF a
  <2> QED
    BY <1>3, <1>5, <2>1, <2>2, <2>3
<1> QED
  BY <1>4, <1>5

LEMMA TypeInit == Init => TypeInv
<1> SUFFICES ASSUME Init PROVE TypeInv
  OBVIOUS
<1>1. PICK d \in Loaded :
        /\ servers = [k \in Servers |-> IF k \in DOMAIN d THEN <<k, 1>> ELSE None]
        /\ \E cfg \in Configs :
              st = [o \in States |-> NewState(IF o[1] \in DOMAIN d THEN d[o[1]] ELSE cfg)]
  BY DEF Init
<1>2. PICK cfg \in Configs :
        st = [o \in States |-> NewState(IF o[1] \in DOMAIN d THEN d[o[1]] ELSE cfg)]
  BY <1>1
<1>3. \A k \in DOMAIN d : d[k] \in Configs
  BY LoadedAssumption
<1>4. \A o \in States : NewState(IF o[1] \in DOMAIN d THEN d[o[1]] ELSE cfg) \in Records
  BY <1>3, NewTyped
<1>5. StateTypes
  BY <1>2, <1>4 DEF Init, StateTypes
<1>6. ServerTypes
  BY <1>1, BoundsAssumption DEF ServerTypes, States
<1>7. ProbeTypes
  <2>1. probe \in [States -> Probes] /\ \A o \in States : probe[o].pc # "answered"
    BY NoLoopTyped DEF Init, NoLoop
  <2> QED
    BY <2>1 DEF ProbeTypes
<1>8. RebuildTypes
  <2>1. /\ NoRebuild.pc = "none" /\ NoRebuild.left = {} /\ NoRebuild.found = {}
        /\ Collecting.pc = "collect" /\ Collecting.left = {} /\ Collecting.found = {}
    BY DEF Collecting, NoRebuild
  <2>2. PICK a \in Appliers : rebuild = [t \in Threads |-> IF t = a THEN Collecting ELSE NoRebuild]
    BY DEF Init
  <2>3. \A t \in Threads : rebuild[t] \in {Collecting, NoRebuild}
    BY <2>2
  <2>4. DOMAIN rebuild = Threads
    BY <2>2
  <2> QED
    BY <2>1, <2>3, <2>4 DEF RebuildTypes
<1>9. OtherTypes /\ table \subseteq Routes
  <2>1. world \in [Addresses -> Answers \cup {None}]
    BY WorldsAssumption DEF Init
  <2>2. edits \in 0..Edits /\ changes \in 0..Changes
    BY BoundsAssumption DEF Init
  <2>3. stopped \in BOOLEAN /\ reelect \in BOOLEAN /\ table \subseteq Routes
    BY DEF Init
  <2> QED
    BY <2>1, <2>2, <2>3 DEF OtherTypes
<1> QED
  BY <1>5, <1>6, <1>7, <1>8, <1>9 DEF TypeInv

\* What an Apply makes of the states and the loops.
LEMMA ApplyTypes ==
    ASSUME TypeInv, NEW a \in Appliers, NEW D \in SUBSET Servers, NEW d \in [D -> Configs],
           Apply(a, d)
    PROVE  TypeInv'
<1> DEFINE new == {k \in DOMAIN d : servers[k] = None}
           old == {o \in Live : o[1] \in DOMAIN d}
           edited == {o \in old : st[o].cfg.addrs # d[o[1]].addrs}
<1>0. DOMAIN d = D /\ \A k \in D : d[k] \in Configs
  OBVIOUS
<1>1. PICK born \in [new -> States] :
        /\ \A k \in new : born[k][1] = k /\ Spare(born[k])
        /\ servers' = [k \in Servers |-> IF k \in new THEN born[k]
                                         ELSE IF k \in DOMAIN d THEN servers[k] ELSE None]
        /\ LET fresh == {born[k] : k \in new} IN
           /\ st' = [o \in States |-> IF o \in fresh THEN NewState(d[o[1]])
                                      ELSE IF o \in old THEN Reconfigured(st[o], d[o[1]])
                                      ELSE st[o]]
           /\ closed' = [o \in States |-> o \notin fresh /\ (closed[o] \/ o \in Vanished(DOMAIN d))]
           /\ probeNow' = [o \in States |-> o \notin fresh /\ (probeNow[o] \/ o \in edited)]
           /\ probe' = [o \in States |-> IF o \in fresh THEN [NoLoop EXCEPT !.pc = "round"]
                                         ELSE probe[o]]
  BY Zenon DEF Apply
<1> DEFINE fresh == {born[k] : k \in new}
<1>2. \A o \in fresh : o \in States /\ o[1] \in D /\ d[o[1]] \in Configs
  BY <1>0, <1>1
<1>3. ServerTypes'
  <2>1. \A k \in Servers : servers'[k] \in States \cup {None}
                           /\ (servers'[k] # None => servers'[k][1] = k)
    BY <1>1 DEF TypeInv, ServerTypes
  <2> QED
    BY <1>1, <2>1 DEF ServerTypes
<1>4. StateTypes'
  <2>1. \A o \in States : st'[o] \in Records
    <3> SUFFICES ASSUME NEW o \in States PROVE st'[o] \in Records
      OBVIOUS
    <3>1. st[o] \in Records
      BY DEF TypeInv, StateTypes
    <3>2. CASE o \in fresh
      BY <1>1, <1>2, <3>2, NewTyped
    <3>3. CASE o \notin fresh /\ o \in old
      <4>1. d[o[1]] \in Configs
        BY <1>0, <3>3
      <4> QED
        BY <1>1, <3>1, <3>3, <4>1, ReconfiguredTyped
    <3>4. CASE o \notin fresh /\ o \notin old
      BY <1>1, <3>1, <3>4
    <3> QED
      BY <3>2, <3>3, <3>4
  <2>2. closed' \in [States -> BOOLEAN]
    BY <1>1, Zenon
  <2>3. probeNow' \in [States -> BOOLEAN]
    BY <1>1, Zenon
  <2>4. DOMAIN st' = States /\ st' = [o \in States |-> st'[o]]
    BY <1>1
  <2> QED
    BY <2>1, <2>2, <2>3, <2>4 DEF StateTypes
<1>5. ProbeTypes'
  <2>1. \A o \in States : /\ probe'[o] \in Probes
                          /\ probe'[o].pc = "answered" => probe'[o] = probe[o]
    BY <1>1, NoLoopTyped DEF NoLoop, TypeInv, ProbeTypes
  <2>2. DOMAIN probe' = States /\ probe' = [o \in States |-> probe'[o]]
    BY <1>1
  <2> QED
    BY <2>1, <2>2 DEF TypeInv, ProbeTypes
<1>6. RebuildTypes'
  <2>1. rebuild' = [rebuild EXCEPT ![a] = Collecting]
    BY DEF Apply
  <2> QED
    BY <2>1 DEF TypeInv, RebuildTypes, Collecting, NoRebuild
<1>7. OtherTypes' /\ table' \subseteq Routes
  BY BoundsAssumption DEF Apply, TypeInv, OtherTypes
<1> QED
  BY <1>3, <1>4, <1>5, <1>6, <1>7 DEF TypeInv

\* A rebuild of the table, and what it changes of a loop.
LEMMA RebuildStep ==
    ASSUME TypeInv, NEW t \in Threads, Rebuild(t)
    PROVE  TypeInv'
<1> USE DEF managerVars, stateVars, outside
<1>1. CASE Collect(t)
  <2>1. RebuildTypes'
    BY <1>1, LiveTyped DEF Collect, TypeInv, RebuildTypes
  <2> QED
    BY <1>1, <2>1 DEF Collect, TypeInv, StateTypes, ServerTypes, ProbeTypes, OtherTypes
<1>2. CASE Read(t)
  <2>1. PICK o \in rebuild[t].left :
          rebuild' = [rebuild EXCEPT
              ![t].left = @ \ {o},
              ![t].found = @ \cup {p \in Published(o) : \A r \in @ : r.id # p.id}]
    BY <1>2 DEF Read
  <2>2. Published(o) \subseteq Routes
    BY PublishedTyped DEF TypeInv, RebuildTypes
  <2>3. RebuildTypes'
    BY <2>1, <2>2 DEF TypeInv, RebuildTypes
  <2> QED
    BY <1>2, <2>3 DEF Read, TypeInv, StateTypes, ServerTypes, ProbeTypes, OtherTypes
<1>3. CASE Store(t)
  <2>1. table' \subseteq Routes
    BY <1>3 DEF Store, TypeInv, RebuildTypes
  <2>2. RebuildTypes'
    BY <1>3 DEF Store, TypeInv, RebuildTypes, NoRebuild
  <2>3. ProbeTypes'
    <3>1. probe' = [o \in States |-> IF o = t THEN [NoLoop EXCEPT !.pc = "select"] ELSE probe[o]]
      BY <1>3 DEF Store
    <3>2. \A o \in States : /\ probe'[o] \in Probes
                            /\ probe'[o].pc = "answered" => probe'[o] = probe[o]
      BY <3>1, NoLoopTyped DEF NoLoop, TypeInv, ProbeTypes
    <3> QED
      BY <3>1, <3>2 DEF TypeInv, ProbeTypes
  <2> QED
    BY <1>3, <2>1, <2>2, <2>3 DEF Store, TypeInv, StateTypes, ServerTypes, OtherTypes
<1> QED
  BY <1>1, <1>2, <1>3 DEF Rebuild

\* A loop that wakes up.
LEMMA BeginTypes ==
    ASSUME TypeInv, NEW o \in States, Begin(o) PROVE ProbeTypes'
<1> DEFINE p == [pc |-> "ask", left |-> Candidates(o), was |-> st[o].active, got |-> None]
<1>1. Candidates(o) \in Seq(Addresses) /\ st[o].active \in Addresses \cup {None}
  BY CandidatesTyped DEF TypeInv, StateTypes, Records
<1>2. p \in Probes /\ p.pc = "ask"
  BY <1>1 DEF Probes
<1> HIDE DEF p
<1>3. probe' = [probe EXCEPT ![o] = p]
  BY DEF Begin, p
<1> QED
  BY <1>2, <1>3 DEF TypeInv, ProbeTypes

LEMMA WakeStep ==
    ASSUME TypeInv, NEW o \in States, Wake(o) PROVE TypeInv'
<1> USE DEF managerVars, stateVars, outside
<1>1. CASE Ends(o)
  <2>1. ProbeTypes'
    BY <1>1, NoLoopTyped DEF Ends, TypeInv, ProbeTypes, NoLoop
  <2> QED
    BY <1>1, <2>1 DEF Ends, TypeInv, StateTypes, ServerTypes, RebuildTypes, OtherTypes
<1>2. CASE Restarts(o)
  BY <1>2 DEF Restarts, TypeInv, StateTypes, ServerTypes, ProbeTypes, RebuildTypes, OtherTypes
<1>3. CASE Hurries(o)
  <2>1. ProbeTypes'
    BY <1>3, BeginTypes DEF Hurries
  <2> QED
    BY <1>3, <2>1 DEF Hurries, TypeInv, StateTypes, ServerTypes, RebuildTypes, OtherTypes
<1>4. CASE TimerFires(o)
  <2>1. ProbeTypes'
    BY <1>4, BeginTypes DEF TimerFires
  <2> QED
    BY <1>4, <2>1 DEF TimerFires, TypeInv, StateTypes, ServerTypes, RebuildTypes, OtherTypes
<1> QED
  BY <1>1, <1>2, <1>3, <1>4 DEF Wake

\* What the answers, and the lack of them, leave in a state.
LEMMA Elected ==
    ASSUME TypeInv, NEW o \in States, Elect(o)
    PROVE  /\ StateTypes'
           /\ st'[o].up = TRUE /\ st'[o].fails = 0 /\ st'[o].active = Head(probe[o].left)
           /\ \A p \in States \ {o} : st'[p] = st[p]
<1>1. st[o] \in Records /\ probe[o] \in Probes /\ probe[o].got # None /\ probe[o].left # <<>>
  BY DEF TypeInv, StateTypes, ProbeTypes, Elect
<1>2. Head(probe[o].left) \in Addresses /\ probe[o].got \in Answers
  <2>1. probe[o].left \in Seq(Addresses) /\ probe[o].got \in Answers
    BY <1>1 DEF Probes
  <2> QED
    BY <1>1, <2>1, Shorter
<1> DEFINE s == [st[o] EXCEPT !.up = TRUE, !.fails = 0, !.active = Head(probe[o].left),
                              !.models = probe[o].got]
<1>3. 0 \in 0..DownAfter
  BY DownAfterAssumption
<1>4. s \in Records /\ s.up = TRUE /\ s.fails = 0 /\ s.active = Head(probe[o].left)
  BY <1>1, <1>2, <1>3 DEF Records
<1>5. st' = [st EXCEPT ![o] = s]
  BY DEF Elect, s
<1> HIDE DEF s
<1>6. st \in [States -> Records]
  BY DEF TypeInv, StateTypes
<1>7. /\ st' \in [States -> Records] /\ st'[o] = s
      /\ \A p \in States \ {o} : st'[p] = st[p]
  BY <1>4, <1>5, <1>6
<1>8. StateTypes'
  BY <1>7 DEF TypeInv, StateTypes, Elect
<1> QED
  BY <1>4, <1>7, <1>8

LEMMA Missed ==
    ASSUME TypeInv, NEW o \in States, Miss(o)
    PROVE  /\ StateTypes'
           /\ st'[o].up = (st[o].up /\ Fails(o) < DownAfter) /\ st'[o].fails = Fails(o)
           /\ st'[o].models = st[o].models /\ st'[o].active \in {st[o].active, None}
           /\ \A p \in States \ {o} : st'[p] = st[p]
<1>1. st[o] \in Records
  BY DEF TypeInv, StateTypes
<1>2. Fails(o) \in 0..DownAfter
  BY <1>1, DownAfterAssumption DEF Fails, Records
<1> DEFINE a == IF probe[o].was = None THEN st[o].active ELSE None
           u == st[o].up /\ Fails(o) < DownAfter
           s == [st[o] EXCEPT !.active = a, !.fails = Fails(o), !.up = u]
<1>3. a \in Addresses \cup {None} /\ a \in {st[o].active, None} /\ u \in BOOLEAN
  BY <1>1 DEF Records
<1> HIDE DEF a, u
<1>4. s \in Records /\ s.up = u /\ s.fails = Fails(o) /\ s.models = st[o].models /\ s.active = a
  BY <1>1, <1>2, <1>3 DEF Records
<1>5. st' = [st EXCEPT ![o] = s]
  BY DEF Miss, s, a, u
<1> HIDE DEF s
<1>6. st \in [States -> Records]
  BY DEF TypeInv, StateTypes
<1>7. /\ st' \in [States -> Records] /\ st'[o] = s
      /\ \A p \in States \ {o} : st'[p] = st[p]
  BY <1>4, <1>5, <1>6
<1>8. StateTypes'
  BY <1>7 DEF TypeInv, StateTypes, Miss
<1>9. s.up = (st[o].up /\ Fails(o) < DownAfter)
  BY <1>4 DEF u
<1> QED
  BY <1>3, <1>4, <1>7, <1>8, <1>9

LEMMA RoundStep ==
    ASSUME TypeInv, NEW o \in States, Round(o) PROVE TypeInv'
<1> USE DEF managerVars, stateVars, outside
<1>0. probe[o] \in Probes /\ probe[o].left \in Seq(Addresses) /\ o \in Threads
  BY DEF TypeInv, ProbeTypes, Probes, Threads
<1>1. CASE Starts(o)
  <2>1. ProbeTypes'
    BY <1>1, BeginTypes DEF Starts
  <2> QED
    BY <1>1, <2>1 DEF Starts, TypeInv, StateTypes, ServerTypes, RebuildTypes, OtherTypes
<1>2. CASE AskAnswered(o)
  <2>1. Head(probe[o].left) \in Addresses
    BY <1>0, <1>2, Shorter DEF AskAnswered
  <2> DEFINE w == world[Head(probe[o].left)]
             p == [probe[o] EXCEPT !.pc = "answered", !.got = w]
  <2>2. w \in Answers \cup {None} /\ w # None
    BY <1>2, <2>1 DEF AskAnswered, TypeInv, OtherTypes
  <2> HIDE DEF w
  <2>3. p \in Probes /\ p.got # None /\ p.left # <<>>
    BY <1>0, <1>2, <2>2 DEF Probes, AskAnswered
  <2>4. probe' = [probe EXCEPT ![o] = p]
    BY <1>2 DEF AskAnswered, w
  <2> HIDE DEF p
  <2>5. ProbeTypes'
    BY <2>3, <2>4 DEF TypeInv, ProbeTypes
  <2> QED
    BY <1>2, <2>5 DEF AskAnswered, TypeInv, StateTypes, ServerTypes, RebuildTypes, OtherTypes
<1>3. CASE AskFailed(o)
  <2> DEFINE p == [probe[o] EXCEPT !.left = Tail(probe[o].left)]
  <2>1. Tail(probe[o].left) \in Seq(Addresses)
    BY <1>0, <1>3, Shorter DEF AskFailed
  <2>2. p \in Probes /\ p.pc = "ask"
    BY <1>0, <1>3, <2>1 DEF Probes, AskFailed
  <2>3. probe' = [probe EXCEPT ![o] = p]
    BY <1>3 DEF AskFailed
  <2> HIDE DEF p
  <2>4. ProbeTypes'
    BY <2>2, <2>3 DEF TypeInv, ProbeTypes
  <2> QED
    BY <1>3, <2>4 DEF AskFailed, TypeInv, StateTypes, ServerTypes, RebuildTypes, OtherTypes
<1>4. CASE Elect(o) \/ Miss(o)
  <2> DEFINE p == [probe[o] EXCEPT !.pc = "rebuild"]
  <2>1. p \in Probes /\ p.pc = "rebuild"
    BY <1>0 DEF Probes
  <2>2. probe' = [probe EXCEPT ![o] = p]
    BY <1>4 DEF Elect, Miss, To
  <2> HIDE DEF p
  <2>3. ProbeTypes'
    BY <2>1, <2>2 DEF TypeInv, ProbeTypes
  <2>4. rebuild' = [rebuild EXCEPT ![o] = Collecting]
    BY <1>4 DEF Elect, Miss
  <2>5. RebuildTypes'
    BY <1>0, <2>4 DEF TypeInv, RebuildTypes, Collecting, NoRebuild
  <2>6. StateTypes'
    BY <1>4, Elected, Missed
  <2> QED
    BY <1>4, <2>3, <2>5, <2>6 DEF Elect, Miss, TypeInv, ServerTypes, OtherTypes
<1> QED
  BY <1>1, <1>2, <1>3, <1>4 DEF Round

LEMMA TypeStep == TypeInv /\ [Next]_vars => TypeInv'
<1> SUFFICES ASSUME TypeInv, [Next]_vars PROVE TypeInv'
  OBVIOUS
<1> USE DEF managerVars, stateVars, outside
<1>1. CASE Reconfigure
  BY <1>1, ApplyTypes DEF Reconfigure
<1>2. CASE Stop
  <2>1. closed' \in [States -> BOOLEAN]
    BY <1>2, Zenon DEF Stop
  <2> QED
    BY <1>2, <2>1
       DEF Stop, TypeInv, StateTypes, ServerTypes, ProbeTypes, RebuildTypes, OtherTypes
<1>3. CASE SettingsChange
  <2>1. OtherTypes'
    BY <1>3, BoundsAssumption DEF SettingsChange, TypeInv, OtherTypes
  <2> QED
    BY <1>3, <2>1 DEF SettingsChange, TypeInv, StateTypes, ServerTypes, ProbeTypes, RebuildTypes
<1>4. CASE WorldChanges
  <2>1. OtherTypes'
    BY <1>4, BoundsAssumption DEF WorldChanges, TypeInv, OtherTypes
  <2> QED
    BY <1>4, <2>1 DEF WorldChanges, TypeInv, StateTypes, ServerTypes, ProbeTypes, RebuildTypes
<1>5. ASSUME NEW t \in Threads, Rebuild(t) PROVE TypeInv'
  BY <1>5, RebuildStep
<1>6. ASSUME NEW o \in States, Wake(o) \/ Round(o) PROVE TypeInv'
  BY <1>6, WakeStep, RoundStep
<1>7. CASE UNCHANGED vars
  BY <1>7 DEF vars, TypeInv, StateTypes, ServerTypes, ProbeTypes, RebuildTypes, OtherTypes
<1> QED
  BY <1>1, <1>2, <1>3, <1>4, <1>5, <1>6, <1>7 DEF Next

\* Every variable stays in its range. Of the table that says only that its
\* routes lead to states, of a server that is configured or was; of the
\* elections only that they name addresses: see PublishedOnce and
\* LeftoversAreElected below.
THEOREM TypeCorrect == Spec => []TypeOK
<1> QED
  BY TypeInit, TypeStep, Typed, PTL DEF Spec

-----------------------------------------------------------------------------
(* What an Apply leaves *)

LEMMA Applied ==
    ASSUME TypeInv, NEW a \in Appliers, NEW D \in SUBSET Servers, NEW d \in [D -> Configs],
           Apply(a, d)
    PROVE  \E F \in SUBSET States :
             /\ \A o \in F : /\ st'[o].models = {} /\ st'[o].active = None
                             /\ ~closed'[o] /\ probe'[o].pc = "round" /\ probe[o].pc = "none"
             /\ \A o \in States \ F :
                  /\ st'[o].up = st[o].up /\ st'[o].fails = st[o].fails
                  /\ st'[o].models = st[o].models /\ st'[o].active \in {st[o].active, None}
                  /\ st'[o].cfg.addrs # st[o].cfg.addrs => st'[o].active = None
                  /\ probe'[o] = probe[o]
                  /\ closed'[o] <=> closed[o] \/ o \in Vanished(D)
             /\ \A o \in States : o \in Live' <=> o \in F \/ (o \in Live /\ o \notin Vanished(D))
<1> DEFINE new == {k \in DOMAIN d : servers[k] = None}
           old == {o \in Live : o[1] \in DOMAIN d}
<1>0. DOMAIN d = D /\ \A k \in D : d[k] \in Configs
  OBVIOUS
<1>1. PICK born \in [new -> States] :
        /\ \A k \in new : born[k][1] = k /\ Spare(born[k])
        /\ servers' = [k \in Servers |-> IF k \in new THEN born[k]
                                         ELSE IF k \in DOMAIN d THEN servers[k] ELSE None]
        /\ LET fresh == {born[k] : k \in new} IN
           /\ st' = [o \in States |-> IF o \in fresh THEN NewState(d[o[1]])
                                      ELSE IF o \in old THEN Reconfigured(st[o], d[o[1]])
                                      ELSE st[o]]
           /\ closed' = [o \in States |-> o \notin fresh /\ (closed[o] \/ o \in Vanished(DOMAIN d))]
           /\ probe' = [o \in States |-> IF o \in fresh THEN [NoLoop EXCEPT !.pc = "round"]
                                         ELSE probe[o]]
  BY Zenon DEF Apply
<1> DEFINE fresh == {born[k] : k \in new}
<1>2. fresh \in SUBSET States
  BY <1>1
<1>3. ASSUME NEW o \in fresh
      PROVE  /\ st'[o].models = {} /\ st'[o].active = None
             /\ ~closed'[o] /\ probe'[o].pc = "round" /\ probe[o].pc = "none"
  <2>1. st'[o] = NewState(d[o[1]]) /\ ~closed'[o] /\ probe'[o] = [NoLoop EXCEPT !.pc = "round"]
    BY <1>1, <1>2
  <2>2. Spare(o)
    BY <1>1
  <2> QED
    BY <2>1, <2>2 DEF NewState, NoLoop, Spare
<1>4. ASSUME NEW o \in States \ fresh
      PROVE  /\ st'[o].up = st[o].up /\ st'[o].fails = st[o].fails
             /\ st'[o].models = st[o].models /\ st'[o].active \in {st[o].active, None}
             /\ st'[o].cfg.addrs # st[o].cfg.addrs => st'[o].active = None
             /\ probe'[o] = probe[o]
             /\ closed'[o] <=> closed[o] \/ o \in Vanished(D)
  <2>1. CASE o \in old
    <3>1. d[o[1]] \in Configs /\ st[o] \in Records
      BY <1>0, <2>1 DEF TypeInv, StateTypes
    <3>2. st'[o] = Reconfigured(st[o], d[o[1]])
      BY <1>1, <2>1
    <3> QED
      BY <1>0, <1>1, <3>1, <3>2, ReconfiguredTyped
  <2>2. CASE o \notin old
    BY <1>0, <1>1, <2>2
  <2> QED
    BY <2>1, <2>2
<1>5. ASSUME NEW o \in States
      PROVE  o \in Live' <=> o \in fresh \/ (o \in Live /\ o \notin Vanished(D))
  <2>1. o # None /\ \A k \in new : born[k] \in States
    BY <1>1, NoneIsNoState
  <2>2. \A k \in Servers : servers[k] = o => k = o[1]
    BY <2>1 DEF TypeInv, ServerTypes
  <2>3. o \in Live' <=> \E k \in Servers : servers'[k] = o
    BY <2>1 DEF Live
  <2>4. o \in Live <=> \E k \in Servers : servers[k] = o
    BY <2>1 DEF Live
  <2>5. o \in Vanished(D) <=> \E k \in Servers \ D : servers[k] = o
    BY <2>1 DEF Vanished
  <2>6. \A k \in Servers : servers'[k] = IF k \in new THEN born[k]
                                         ELSE IF k \in D THEN servers[k] ELSE None
    BY <1>0, <1>1
  <2>7. new = {k \in D : servers[k] = None} /\ D \subseteq Servers
    BY <1>0
  <2> HIDE DEF new
  <2>8. o \in fresh <=> \E k \in new : born[k] = o
    OBVIOUS
  <2> HIDE DEF fresh
  <2> QED
    BY <2>1, <2>2, <2>3, <2>4, <2>5, <2>6, <2>7, <2>8
<1> QED
  BY <1>2, <1>3, <1>4, <1>5

-----------------------------------------------------------------------------
(* Down means failing *)

LEMMA DownStep == TypeInv /\ DownMeansFailing /\ [Next]_vars => DownMeansFailing'
<1> SUFFICES ASSUME TypeInv, DownMeansFailing, [Next]_vars, NEW o \in States,
                    st'[o].models # {}
             PROVE  st'[o].up <=> st'[o].fails < DownAfter
  BY DEF DownMeansFailing
<1> USE DEF managerVars, stateVars, outside
<1>1. st[o] \in Records /\ st[o].fails \in 0..DownAfter /\ st[o].up \in BOOLEAN
  BY DEF TypeInv, StateTypes, Records
<1>2. st[o].models # {} => (st[o].up <=> st[o].fails < DownAfter)
  BY DEF DownMeansFailing
<1>3. CASE Reconfigure
  <2>1. PICK a \in Appliers, D \in SUBSET Servers : \E d \in [D -> Configs] : Apply(a, d)
    BY <1>3 DEF Reconfigure
  <2> QED
    BY <1>2, <2>1, Applied
<1>4. ASSUME NEW p \in States, Elect(p) PROVE st'[o].up <=> st'[o].fails < DownAfter
  <2>1. CASE o = p
    <3>1. st'[o].up = TRUE /\ st'[o].fails = 0
      BY <1>4, <2>1, Elected
    <3>2. 0 < DownAfter
      BY DownAfterAssumption
    <3> QED
      BY <3>1, <3>2
  <2>2. CASE o # p
    BY <1>2, <1>4, <2>2, Elected
  <2> QED
    BY <2>1, <2>2
<1>5. ASSUME NEW p \in States, Miss(p) PROVE st'[o].up <=> st'[o].fails < DownAfter
  <2>1. CASE o = p
    <3>1. /\ st'[o].up = (st[o].up /\ Fails(o) < DownAfter) /\ st'[o].fails = Fails(o)
          /\ st[o].models # {}
      BY <1>5, <2>1, Missed
    <3>2. Fails(o) < DownAfter => st[o].fails < DownAfter
      BY <1>1, DownAfterAssumption DEF Fails
    <3> QED
      BY <1>2, <3>1, <3>2
  <2>2. CASE o # p
    BY <1>2, <1>5, <2>2, Missed
  <2> QED
    BY <2>1, <2>2
<1>6. ASSUME st' = st PROVE st'[o].up <=> st'[o].fails < DownAfter
  BY <1>2, <1>6
<1>7. CASE Stop \/ SettingsChange \/ WorldChanges \/ UNCHANGED vars
  BY <1>6, <1>7 DEF Stop, SettingsChange, WorldChanges, vars
<1>8. CASE \E t \in Threads : Rebuild(t)
  BY <1>6, <1>8 DEF Rebuild, Collect, Read, Store
<1>9. CASE \E p \in States : Wake(p)
  BY <1>6, <1>9 DEF Wake, Ends, Restarts, Hurries, TimerFires
<1>10. CASE \E p \in States : Round(p)
  BY <1>4, <1>5, <1>6, <1>10 DEF Round, Starts, AskAnswered, AskFailed
<1> QED
  BY <1>3, <1>7, <1>8, <1>9, <1>10 DEF Next

\* For every limit of failing rounds: a server that ever answered is down
\* exactly when its last rounds failed that many times in a row.
THEOREM DownOnlyByFailures == Spec => []DownMeansFailing
<1>1. Init => DownMeansFailing
  BY DEF Init, DownMeansFailing, NewState
<1> QED
  BY <1>1, TypeInit, TypeStep, DownStep, PTL DEF Spec

-----------------------------------------------------------------------------
(* No fail-back *)

\* While a round is on, the state still elects the address it began with, unless
\* an edit dropped the election; and that address is the first one asked.
AskedFirst(o) ==
    LET p == probe[o] IN
    p.pc \in {"ask", "answered"} =>
        /\ st[o].active \in {p.was, None}
        /\ p.was # None => \/ p.was \notin ToSet(p.left)
                           \/ p.left # <<>> /\ Head(p.left) = p.was /\ p.was \notin ToSet(Tail(p.left))
RoundInv == \A o \in States : AskedFirst(o)

\* A step that leaves the loop of a server alone, and elects nothing for it.
LEMMA AskedFirstKept ==
    ASSUME NEW o \in States, AskedFirst(o), probe'[o] = probe[o],
           st'[o].active \in {st[o].active, None}
    PROVE  AskedFirst(o)'
BY DEF AskedFirst

LEMMA AskedFirstIdle ==
    ASSUME NEW o \in States, probe'[o].pc \notin {"ask", "answered"} PROVE AskedFirst(o)'
BY DEF AskedFirst

LEMMA AskedFirstBegins ==
    ASSUME TypeInv, NEW o \in States, Begin(o), UNCHANGED st PROVE AskedFirst(o)'
<1>1. /\ probe'[o].pc = "ask" /\ probe'[o].was = st[o].active /\ probe'[o].left = Candidates(o)
      /\ st'[o].active = st[o].active
  BY DEF TypeInv, ProbeTypes, Begin
<1>2. st[o].active # None =>
        /\ Candidates(o) # <<>> /\ Head(Candidates(o)) = st[o].active
        /\ st[o].active \notin ToSet(Tail(Candidates(o)))
  BY CandidatesTyped DEF TypeInv
<1> QED
  BY <1>1, <1>2 DEF AskedFirst

LEMMA RoundInvStep == TypeInv /\ RoundInv /\ [Next]_vars => RoundInv'
<1> SUFFICES ASSUME TypeInv, RoundInv, [Next]_vars, NEW o \in States PROVE AskedFirst(o)'
  BY DEF RoundInv
<1> USE DEF managerVars, stateVars, outside
<1>1. AskedFirst(o) /\ probe \in [States -> Probes] /\ probe[o].left \in Seq(Addresses)
  BY DEF RoundInv, TypeInv, ProbeTypes, Probes
<1>2. CASE Reconfigure
  <2>1. PICK a \in Appliers, D \in SUBSET Servers : \E d \in [D -> Configs] : Apply(a, d)
    BY <1>2 DEF Reconfigure
  <2>2. PICK F \in SUBSET States :
          /\ \A n \in F : probe'[n].pc = "round"
          /\ \A n \in States \ F : st'[n].active \in {st[n].active, None} /\ probe'[n] = probe[n]
    BY <2>1, Applied, SMTT(60)
  <2> QED
    BY <1>1, <2>2, AskedFirstKept, AskedFirstIdle
<1>3. CASE UNCHANGED <<probe, st>>
  BY <1>1, <1>3, AskedFirstKept
<1>4. CASE Stop \/ SettingsChange \/ WorldChanges \/ UNCHANGED vars
  BY <1>3, <1>4 DEF Stop, SettingsChange, WorldChanges, vars
<1>5. ASSUME NEW t \in Threads, Rebuild(t) PROVE AskedFirst(o)'
  <2>1. CASE Collect(t) \/ Read(t)
    BY <1>3, <2>1 DEF Collect, Read
  <2>2. CASE Store(t)
    <3>1. probe'[o] = probe[o] \/ probe'[o].pc = "select"
      BY <2>2 DEF Store, NoLoop
    <3>2. st'[o].active = st[o].active
      BY <2>2 DEF Store
    <3> QED
      BY <1>1, <3>1, <3>2, AskedFirstKept, AskedFirstIdle
  <2> QED
    BY <1>5, <2>1, <2>2 DEF Rebuild
<1>6. ASSUME NEW p \in States, p # o, Wake(p) \/ Round(p) PROVE AskedFirst(o)'
  <2>1. probe'[o] = probe[o]
    BY <1>1, <1>6 DEF Wake, Ends, Restarts, Hurries, TimerFires, Begin, Round, Starts, AskAnswered,
                      AskFailed, Elect, Miss, To
  <2>2. st'[o] = st[o]
    BY <1>6, Elected, Missed DEF Wake, Ends, Restarts, Hurries, TimerFires, Round, Starts,
                                 AskAnswered, AskFailed
  <2> QED
    BY <1>1, <2>1, <2>2, AskedFirstKept
<1>7. CASE Wake(o)
  <2>1. CASE Ends(o)
    <3>1. probe'[o].pc = "none"
      BY <1>1, <2>1 DEF Ends, NoLoop
    <3> QED
      BY <3>1, AskedFirstIdle
  <2>2. CASE Restarts(o)
    BY <1>3, <2>2 DEF Restarts
  <2>3. CASE Hurries(o) \/ TimerFires(o)
    BY <2>3, AskedFirstBegins DEF Hurries, TimerFires
  <2> QED
    BY <1>7, <2>1, <2>2, <2>3 DEF Wake
<1>8. CASE Round(o)
  <2>1. CASE Starts(o)
    BY <2>1, AskedFirstBegins DEF Starts
  <2>2. CASE AskAnswered(o)
    <3>1. /\ probe[o].pc = "ask" /\ probe'[o].pc = "answered" /\ st'[o].active = st[o].active
          /\ probe'[o].left = probe[o].left /\ probe'[o].was = probe[o].was
      BY <1>1, <2>2 DEF AskAnswered, Probes
    <3> QED
      BY <1>1, <3>1 DEF AskedFirst
  <2>3. CASE AskFailed(o)
    <3>1. /\ probe[o].pc = "ask" /\ st'[o].active = st[o].active
          /\ probe'[o].left = Tail(probe[o].left) /\ probe'[o].was = probe[o].was
          /\ probe[o].left # <<>>
      BY <1>1, <2>3 DEF AskFailed, Probes
    <3>2. ToSet(Tail(probe[o].left)) \subseteq ToSet(probe[o].left)
      BY <1>1, <3>1, Shorter
    <3> QED
      BY <1>1, <3>1, <3>2 DEF AskedFirst
  <2>4. CASE Elect(o) \/ Miss(o)
    <3>1. probe'[o].pc = "rebuild"
      BY <1>1, <2>4 DEF Elect, Miss, To, Probes
    <3> QED
      BY <3>1, AskedFirstIdle
  <2> QED
    BY <1>8, <2>1, <2>2, <2>3, <2>4 DEF Round
<1> QED
  BY <1>2, <1>4, <1>5, <1>6, <1>7, <1>8 DEF Next

\* One address is left for another by an election alone.
LEMMA LeftByElection ==
    ASSUME TypeInv, [Next]_vars, NEW o \in States,
           st[o].active # None, st'[o].active \notin {None, st[o].active}
    PROVE  Elect(o)
<1> USE DEF managerVars, stateVars, outside
<1>1. st' # st
  OBVIOUS
<1>2. ~Reconfigure
  <2> SUFFICES ASSUME Reconfigure PROVE FALSE
    OBVIOUS
  <2>1. PICK a \in Appliers, D \in SUBSET Servers : \E d \in [D -> Configs] : Apply(a, d)
    BY DEF Reconfigure
  <2> QED
    BY <2>1, Applied
<1>3. ~(Stop \/ SettingsChange \/ WorldChanges \/ UNCHANGED vars)
  BY <1>1 DEF Stop, SettingsChange, WorldChanges, vars
<1>4. ~\E t \in Threads : Rebuild(t)
  BY <1>1 DEF Rebuild, Collect, Read, Store
<1>5. ASSUME NEW p \in States, Wake(p) \/ Round(p) PROVE Elect(p) \/ Miss(p)
  BY <1>1, <1>5 DEF Wake, Ends, Restarts, Hurries, TimerFires, Round, Starts, AskAnswered, AskFailed
<1>6. PICK p \in States : Elect(p) \/ Miss(p)
  BY <1>2, <1>3, <1>4, <1>5 DEF Next
<1>7. ~Miss(p)
  BY Missed
<1>8. p = o
  BY <1>6, <1>7, Elected
<1> QED
  BY <1>6, <1>7, <1>8

\* In whatever order the addresses answer, fail and are edited: a server leaves
\* an address for another only in a round in which it did not answer.
THEOREM NeverFailsBack == Spec => NoFailBack
<1>1. Init => RoundInv
  BY DEF Init, RoundInv, AskedFirst, NoLoop
<1>2. TypeInv /\ RoundInv /\ [Next]_vars =>
        [\A o \in States :
            st[o].active # None /\ st'[o].active \notin {None, st[o].active}
               => probe[o].was = st[o].active /\ st[o].active \notin ToSet(probe[o].left)]_vars
  <2> SUFFICES ASSUME TypeInv, RoundInv, [Next]_vars, NEW o \in States,
                      st[o].active # None, st'[o].active \notin {None, st[o].active}
               PROVE  probe[o].was = st[o].active /\ st[o].active \notin ToSet(probe[o].left)
    OBVIOUS
  <2>1. Elect(o)
    BY LeftByElection
  <2>2. probe[o].pc = "answered" /\ AskedFirst(o)
    BY <2>1 DEF Elect, RoundInv
  <2>3. st'[o].active = Head(probe[o].left)
    BY <2>1, Elected
  <2> QED
    BY <2>2, <2>3 DEF AskedFirst
<1> QED
  BY <1>1, <1>2, TypeInit, TypeStep, RoundInvStep, PTL DEF Spec, NoFailBack

-----------------------------------------------------------------------------
(* One loop for each configured server *)

\* Whoever rebuilds the table as a loop is a loop.
LoopInv == OneLoopEach /\ \A o \in States : rebuild[o].pc # "none" => probe[o].pc = "rebuild"

LEMMA AppliersAreNoStates == Appliers \cap States = {}
BY AppliersAssumption, BoundsAssumption DEF States

\* A step that changes no list of servers, starts no loop and ends none.
LEMMA LoopsKept ==
    ASSUME TypeInv, LoopInv, UNCHANGED <<servers, closed, stopped>>,
           \A o \in States : /\ probe'[o].pc = "none" <=> probe[o].pc = "none"
                             /\ rebuild'[o].pc # "none" => probe'[o].pc = "rebuild"
    PROVE  LoopInv'
<1>1. Live' = Live /\ Live \subseteq States
  BY LiveTyped DEF Live, TypeInv
<1>2. \A o \in States : closed'[o] <=> closed[o]
  OBVIOUS
<1> QED
  BY <1>1, <1>2 DEF LoopInv, OneLoopEach

LEMMA LoopStep == TypeInv /\ LoopInv /\ [Next]_vars => LoopInv'
<1> SUFFICES ASSUME TypeInv, LoopInv, [Next]_vars PROVE LoopInv'
  OBVIOUS
<1> USE DEF managerVars, stateVars, outside
<1>1. /\ probe \in [States -> Probes] /\ DOMAIN rebuild = Threads /\ States \subseteq Threads
      /\ \A o \in States : rebuild[o].pc # "none" => probe[o].pc = "rebuild"
  BY DEF TypeInv, ProbeTypes, RebuildTypes, Threads, LoopInv
<1>2. CASE Reconfigure
  <2>1. PICK a \in Appliers, D \in SUBSET Servers : \E d \in [D -> Configs] : Apply(a, d)
    BY <1>2 DEF Reconfigure
  <2>2. ~stopped /\ ~stopped' /\ rebuild' = [rebuild EXCEPT ![a] = Collecting]
    <3>1. PICK d \in [D -> Configs] : Apply(a, d)
      BY <2>1
    <3>2. MayApply(a) /\ rebuild' = [rebuild EXCEPT ![a] = Collecting] /\ UNCHANGED stopped
      BY <3>1, Zenon DEF Apply
    <3> QED
      BY <3>2 DEF MayApply
  <2>3. PICK F \in SUBSET States :
          /\ \A o \in F : ~closed'[o] /\ probe'[o].pc = "round" /\ probe[o].pc = "none"
          /\ \A o \in States \ F : /\ probe'[o] = probe[o]
                                   /\ closed'[o] <=> closed[o] \/ o \in Vanished(D)
          /\ \A o \in States : o \in Live' <=> o \in F \/ (o \in Live /\ o \notin Vanished(D))
    BY <2>1, Applied
  <2>4. \A o \in States : rebuild'[o] = rebuild[o]
    BY <1>1, <2>2, AppliersAreNoStates
  <2>5. Live' \subseteq States /\ Live \subseteq States
    <3>1. ServerTypes /\ ServerTypes'
      BY TypeStep DEF TypeInv
    <3> QED
      BY <3>1 DEF ServerTypes, Live
  <2>6. OneLoopEach'
    BY <2>2, <2>3, <2>5 DEF LoopInv, OneLoopEach
  <2>7. \A o \in States : rebuild'[o].pc # "none" => probe'[o].pc = "rebuild"
    BY <1>1, <2>3, <2>4
  <2> QED
    BY <2>6, <2>7 DEF LoopInv
<1>3. CASE Stop
  <2>1. Live' = Live
    BY <1>3 DEF Stop, Live
  <2>2. \A o \in States : closed'[o] <=> closed[o] \/ o \in Live
    BY <1>3 DEF Stop
  <2>3. Live \subseteq States
    BY LiveTyped DEF TypeInv
  <2> QED
    BY <1>3, <2>1, <2>2, <2>3 DEF Stop, LoopInv, OneLoopEach
<1>4. CASE SettingsChange \/ WorldChanges \/ UNCHANGED vars
  BY <1>1, <1>4, LoopsKept DEF SettingsChange, WorldChanges, vars
<1>5. ASSUME NEW t \in Threads, Rebuild(t) PROVE LoopInv'
  <2>1. CASE Collect(t) \/ Read(t)
    <3>1. \A o \in States : rebuild'[o].pc # "none" => rebuild[o].pc # "none"
      BY <1>1, <2>1 DEF Collect, Read
    <3> QED
      BY <1>1, <2>1, <3>1, LoopsKept DEF Collect, Read
  <2>2. CASE Store(t)
    <3>1. rebuild' = [rebuild EXCEPT ![t] = NoRebuild] /\ rebuild[t].pc = "read"
      BY <2>2 DEF Store
    <3>2. probe' = [o \in States |-> IF o = t THEN [NoLoop EXCEPT !.pc = "select"] ELSE probe[o]]
      BY <2>2 DEF Store
    <3>3. ASSUME NEW o \in States
          PROVE  /\ probe'[o].pc = "none" <=> probe[o].pc = "none"
                 /\ rebuild'[o].pc # "none" => probe'[o].pc = "rebuild"
      <4>1. CASE o = t
        BY <1>1, <3>1, <3>2, <4>1 DEF NoLoop, NoRebuild
      <4>2. CASE o # t
        BY <1>1, <3>1, <3>2, <4>2
      <4> QED
        BY <4>1, <4>2
    <3> QED
      BY <2>2, <3>3, LoopsKept DEF Store
  <2> QED
    BY <1>5, <2>1, <2>2 DEF Rebuild
<1>6. ASSUME NEW o \in States, Wake(o) PROVE LoopInv'
  <2>1. CASE Ends(o)
    <3>1. /\ closed[o] /\ probe[o].pc = "select" /\ UNCHANGED <<servers, closed, stopped, rebuild>>
          /\ probe' = [probe EXCEPT ![o] = NoLoop]
      BY <2>1 DEF Ends
    <3>2. /\ probe'[o].pc = "none" /\ rebuild'[o].pc = "none"
          /\ \A p \in States \ {o} : probe'[p] = probe[p]
      BY <1>1, <3>1 DEF NoLoop
    <3> QED
      BY <3>1, <3>2 DEF LoopInv, OneLoopEach, Live
  <2>2. CASE Restarts(o)
    BY <1>1, <2>2, LoopsKept DEF Restarts
  <2>3. CASE Hurries(o) \/ TimerFires(o)
    <3>1. /\ probe[o].pc = "select" /\ Begin(o) /\ UNCHANGED <<servers, closed, stopped, rebuild>>
      BY <2>3 DEF Hurries, TimerFires
    <3>2. /\ probe'[o].pc = "ask" /\ rebuild'[o].pc = "none"
          /\ \A p \in States \ {o} : probe'[p] = probe[p]
      BY <1>1, <3>1 DEF Begin
    <3> QED
      BY <1>1, <3>1, <3>2, LoopsKept
  <2> QED
    BY <1>6, <2>1, <2>2, <2>3 DEF Wake
<1>7. ASSUME NEW o \in States, Round(o) PROVE LoopInv'
  <2>1. CASE Starts(o) \/ AskAnswered(o) \/ AskFailed(o)
    <3>1. /\ probe[o].pc \in {"round", "ask"} /\ UNCHANGED <<servers, closed, stopped, rebuild>>
      BY <2>1 DEF Starts, AskAnswered, AskFailed
    <3>2. /\ probe'[o].pc \in {"ask", "answered"} /\ rebuild'[o].pc = "none"
          /\ \A p \in States \ {o} : probe'[p] = probe[p]
      BY <1>1, <2>1, <3>1 DEF Starts, Begin, AskAnswered, AskFailed, Probes
    <3> QED
      BY <1>1, <3>1, <3>2, LoopsKept
  <2>2. CASE Elect(o) \/ Miss(o)
    <3>1. /\ probe[o].pc \in {"ask", "answered"} /\ UNCHANGED <<servers, closed, stopped>>
          /\ rebuild' = [rebuild EXCEPT ![o] = Collecting]
      BY <2>2 DEF Elect, Miss
    <3>2. /\ probe'[o].pc = "rebuild" /\ \A p \in States \ {o} : probe'[p] = probe[p]
      BY <1>1, <2>2 DEF Elect, Miss, To, Probes
    <3>3. \A p \in States \ {o} : rebuild'[p] = rebuild[p]
      BY <1>1, <3>1
    <3> QED
      BY <1>1, <3>1, <3>2, <3>3, LoopsKept
  <2> QED
    BY <1>7, <2>1, <2>2 DEF Round
<1> QED
  BY <1>2, <1>3, <1>4, <1>5, <1>6, <1>7 DEF Next

\* However servers are removed and added again while their loops still ask:
\* every configured server has one loop, and no loop outlives its server but one
\* that has been told to stop.
THEOREM LoopsMatchServers == Spec => []OneLoopEach
<1>1. Init => LoopInv
  <2> SUFFICES ASSUME Init PROVE LoopInv
    OBVIOUS
  <2>1. Live \subseteq States
    BY TypeInit, LiveTyped DEF TypeInv
  <2>2. \A o \in States : probe[o] = IF o \in Live THEN [NoLoop EXCEPT !.pc = "round"] ELSE NoLoop
    BY DEF Init
  <2>3. \A o \in States : rebuild[o].pc = "none"
    <3>1. PICK a \in Appliers :
            rebuild = [t \in Threads |-> IF t = a THEN Collecting ELSE NoRebuild]
      BY DEF Init
    <3> QED
      BY <3>1, AppliersAreNoStates DEF Threads, NoRebuild
  <2>4. ~stopped /\ \A o \in States : ~closed[o]
    BY DEF Init
  <2> QED
    BY <2>1, <2>2, <2>3, <2>4 DEF LoopInv, OneLoopEach, NoLoop
<1>2. LoopInv => OneLoopEach
  BY DEF LoopInv
<1> QED
  BY <1>1, <1>2, TypeInit, TypeStep, LoopStep, PTL DEF Spec

-----------------------------------------------------------------------------
(* What is published *)

\* No two routes of a set have the same published id.
Unambiguous(routes) == \A p, q \in routes : p.id = q.id => p = q

\* A published id leads to one server, whichever servers answer with the same
\* model, and however rebuilds of the table overtake each other.
IdsLeadToOneServer == Unambiguous(table)

PublishedInv == IdsLeadToOneServer /\ \A t \in Threads : Unambiguous(rebuild[t].found)

\* A rebuild begins with nothing found.
LEMMA NothingFound == Unambiguous(Collecting.found) /\ Unambiguous(NoRebuild.found)
BY DEF Unambiguous, Collecting, NoRebuild

\* What Read adds of one server is new, and has each id once.
LEMMA AddedOnce ==
    ASSUME NEW o \in States, NEW S, Unambiguous(S)
    PROVE  Unambiguous(S \cup {p \in Published(o) : \A r \in S : r.id # p.id})
<1>1. \A p, q \in Published(o) : p.id = q.id => p = q
  BY DEF Published
<1> QED
  BY <1>1 DEF Unambiguous

LEMMA PublishedStep == TypeInv /\ PublishedInv /\ [Next]_vars => PublishedInv'
<1> SUFFICES ASSUME TypeInv, PublishedInv, [Next]_vars PROVE PublishedInv'
  OBVIOUS
<1> USE DEF managerVars, stateVars, outside
<1>1. /\ DOMAIN rebuild = Threads /\ States \subseteq Threads /\ Appliers \subseteq Threads
      /\ Unambiguous(table) /\ \A t \in Threads : Unambiguous(rebuild[t].found)
  BY DEF TypeInv, RebuildTypes, Threads, PublishedInv, IdsLeadToOneServer
\* A step that begins rebuilds, or does not touch them.
<1>2. ASSUME UNCHANGED table, NEW t \in Threads, rebuild' = [rebuild EXCEPT ![t] = Collecting]
      PROVE  PublishedInv'
  <2>1. \A u \in Threads : rebuild'[u] = IF u = t THEN Collecting ELSE rebuild[u]
    BY <1>1, <1>2
  <2>2. \A u \in Threads : Unambiguous(rebuild'[u].found)
    BY <1>1, <2>1, NothingFound
  <2> QED
    BY <1>1, <1>2, <2>2 DEF PublishedInv, IdsLeadToOneServer
<1>3. ASSUME UNCHANGED <<table, rebuild>> PROVE PublishedInv'
  BY <1>1, <1>3 DEF PublishedInv, IdsLeadToOneServer
<1>4. CASE Reconfigure
  <2>1. PICK a \in Appliers : UNCHANGED table /\ rebuild' = [rebuild EXCEPT ![a] = Collecting]
    <3>1. PICK a \in Appliers, D \in SUBSET Servers : \E d \in [D -> Configs] : Apply(a, d)
      BY <1>4 DEF Reconfigure
    <3>2. PICK d \in [D -> Configs] : Apply(a, d)
      BY <3>1
    <3>3. UNCHANGED table /\ rebuild' = [rebuild EXCEPT ![a] = Collecting]
      BY <3>2, Zenon DEF Apply
    <3> QED
      BY <3>3
  <2> QED
    BY <1>1, <1>2, <2>1
<1>5. CASE Stop \/ SettingsChange \/ WorldChanges \/ UNCHANGED vars
  BY <1>3, <1>5 DEF Stop, SettingsChange, WorldChanges, vars
<1>6. ASSUME NEW t \in Threads, Rebuild(t) PROVE PublishedInv'
  <2>1. CASE Collect(t)
    <3>1. /\ UNCHANGED table
          /\ rebuild' = [rebuild EXCEPT ![t] = [pc |-> "read", left |-> Live, found |-> {}]]
      BY <2>1 DEF Collect
    <3>2. \A u \in Threads : rebuild'[u].found = IF u = t THEN {} ELSE rebuild[u].found
      BY <1>1, <3>1
    <3>3. Unambiguous({})
      BY DEF Unambiguous
    <3>4. \A u \in Threads : Unambiguous(rebuild'[u].found)
      BY <1>1, <3>2, <3>3
    <3> QED
      BY <1>1, <3>1, <3>4 DEF PublishedInv, IdsLeadToOneServer
  <2>2. CASE Read(t)
    <3>1. PICK o \in rebuild[t].left :
            rebuild' = [rebuild EXCEPT
                ![t].left = @ \ {o},
                ![t].found = @ \cup {p \in Published(o) : \A r \in @ : r.id # p.id}]
      BY <2>2 DEF Read
    <3>2. o \in States
      BY DEF TypeInv, RebuildTypes
    <3> DEFINE found == rebuild[t].found
               more == found \cup {p \in Published(o) : \A r \in found : r.id # p.id}
    <3>3. rebuild'[t].found = more /\ \A u \in Threads \ {t} : rebuild'[u] = rebuild[u]
      BY <1>1, <3>1 DEF TypeInv, RebuildTypes
    <3>4. Unambiguous(more)
      BY <1>1, <3>2, AddedOnce
    <3> HIDE DEF more
    <3>5. \A u \in Threads : Unambiguous(rebuild'[u].found)
      BY <1>1, <3>3, <3>4
    <3>6. UNCHANGED table
      BY <2>2 DEF Read
    <3> QED
      BY <1>1, <3>5, <3>6 DEF PublishedInv, IdsLeadToOneServer
  <2>3. CASE Store(t)
    <3>1. table' = rebuild[t].found /\ rebuild' = [rebuild EXCEPT ![t] = NoRebuild]
      BY <2>3 DEF Store
    <3>2. \A u \in Threads : rebuild'[u] = IF u = t THEN NoRebuild ELSE rebuild[u]
      BY <1>1, <3>1
    <3>3. \A u \in Threads : Unambiguous(rebuild'[u].found)
      BY <1>1, <3>2, NothingFound
    <3> QED
      BY <1>1, <3>1, <3>3 DEF PublishedInv, IdsLeadToOneServer
  <2> QED
    BY <1>6, <2>1, <2>2, <2>3 DEF Rebuild
<1>7. ASSUME NEW o \in States, Wake(o) PROVE PublishedInv'
  BY <1>3, <1>7 DEF Wake, Ends, Restarts, Hurries, TimerFires
<1>8. ASSUME NEW o \in States, Round(o) PROVE PublishedInv'
  <2>1. CASE Starts(o) \/ AskAnswered(o) \/ AskFailed(o)
    BY <1>3, <2>1 DEF Starts, AskAnswered, AskFailed
  <2>2. CASE Elect(o) \/ Miss(o)
    BY <1>1, <1>2, <2>2 DEF Elect, Miss
  <2> QED
    BY <1>8, <2>1, <2>2 DEF Round
<1> QED
  BY <1>4, <1>5, <1>6, <1>7, <1>8 DEF Next

\* A model that several servers have is published for one of them: a request
\* finds one route or none.
THEOREM PublishedOnce == Spec => []IdsLeadToOneServer
<1>1. Init => PublishedInv
  <2> SUFFICES ASSUME Init PROVE PublishedInv
    OBVIOUS
  <2>1. PICK a \in Appliers :
          rebuild = [t \in Threads |-> IF t = a THEN Collecting ELSE NoRebuild]
    BY DEF Init
  <2>2. \A t \in Threads : Unambiguous(rebuild[t].found)
    BY <2>1, NothingFound
  <2>3. Unambiguous(table)
    BY DEF Init, Unambiguous
  <2> QED
    BY <2>2, <2>3 DEF PublishedInv, IdsLeadToOneServer
<1>2. PublishedInv => IdsLeadToOneServer
  BY DEF PublishedInv
<1> QED
  BY <1>1, <1>2, TypeInit, TypeStep, PublishedStep, PTL DEF Spec

-----------------------------------------------------------------------------
(* The address an edit leaves over *)

\* An address that is not of the server's list is elected in one way only: by a
\* probe of it that was under way. No edit and no other step leaves one: this
\* is how large the exception of Settles is.
OnlyElectedLeftovers ==
    [][\A o \in States : ~Leftover(o) /\ Leftover(o)'
          => probe[o].pc = "answered" /\ st'[o].active = Head(probe[o].left)]_vars

THEOREM LeftoversAreElected == Spec => OnlyElectedLeftovers
<1> USE DEF managerVars, stateVars, outside
<1>1. ASSUME TypeInv, [Next]_vars, NEW o \in States, ~Leftover(o), Leftover(o)'
      PROVE  probe[o].pc = "answered" /\ st'[o].active = Head(probe[o].left)
  <2>1. /\ st[o].active \in ToSet(st[o].cfg.addrs) \cup {None}
        /\ st'[o].active \notin ToSet(st'[o].cfg.addrs) \cup {None}
    BY <1>1 DEF Leftover
  <2>2. st' # st
    BY <2>1
  <2>3. ~Reconfigure
    <3> SUFFICES ASSUME Reconfigure PROVE FALSE
      OBVIOUS
    <3>1. PICK a \in Appliers, D \in SUBSET Servers : \E d \in [D -> Configs] : Apply(a, d)
      BY DEF Reconfigure
    <3>2. \/ st'[o].active = None
          \/ st'[o].active = st[o].active /\ st'[o].cfg.addrs = st[o].cfg.addrs
      BY <1>1, <3>1, Applied
    <3> QED
      BY <2>1, <3>2
  <2>4. ~(Stop \/ SettingsChange \/ WorldChanges \/ UNCHANGED vars)
    BY <2>2 DEF Stop, SettingsChange, WorldChanges, vars
  <2>5. ~\E t \in Threads : Rebuild(t)
    BY <2>2 DEF Rebuild, Collect, Read, Store
  <2>6. ASSUME NEW p \in States, Wake(p) \/ Round(p) PROVE Elect(p) \/ Miss(p)
    BY <2>2, <2>6 DEF Wake, Ends, Restarts, Hurries, TimerFires, Round, Starts, AskAnswered,
                      AskFailed
  <2>7. PICK p \in States : Elect(p) \/ Miss(p)
    BY <1>1, <2>3, <2>4, <2>5, <2>6 DEF Next
  <2>8. st \in [States -> Records]
    BY <1>1 DEF TypeInv, StateTypes
  <2>9. ~Miss(p)
    <3> SUFFICES ASSUME Miss(p) PROVE FALSE
      OBVIOUS
    <3>1. st'[o].cfg = st[o].cfg /\ st'[o].active \in {st[o].active, None}
      BY <2>8 DEF Miss, Records
    <3> QED
      BY <2>1, <3>1
  <2>10. probe[p].pc = "answered" /\ \A q \in States \ {p} : st'[q] = st[q]
    BY <2>7, <2>8, <2>9 DEF Elect
  <2>11. p = o
    BY <2>1, <2>10
  <2>12. st'[o].active = Head(probe[o].left)
    BY <1>1, <2>7, <2>9, <2>11, Elected
  <2> QED
    BY <2>10, <2>11, <2>12
<1>2. TypeInv /\ [Next]_vars =>
        [\A o \in States : ~Leftover(o) /\ Leftover(o)'
           => probe[o].pc = "answered" /\ st'[o].active = Head(probe[o].left)]_vars
  BY <1>1
<1> QED
  BY <1>2, TypeInit, TypeStep, PTL DEF Spec, OnlyElectedLeftovers
==============================================================================
