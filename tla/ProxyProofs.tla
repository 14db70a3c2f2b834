------------------------------ MODULE ProxyProofs ------------------------------
(***************************************************************************)
(* What holds of Proxy for every finite set of requests, every set of      *)
(* models and servers, all caps and every route, whatever fails and in     *)
(* whatever order clients, servers, the prober and the watchdog act.       *)
(***************************************************************************)
EXTENDS ProxyLines, SequenceLemmas, FiniteSetTheorems, TLAPS

-----------------------------------------------------------------------------
(* One request *)

\* The states before a request has logged its terminal line.
Open == {"idle", "chosen", "admitted", "queued", "refused", "granted", "slot", "aiming",
         "asking", "body"} \cup StreamStates

\* The one line that was logged says what the client got, unless it left.
Told(c) == \E l \in Lines : /\ c.lines = <<l>>
                            /\ l.http = c.sent \/ (c.gone /\ l = Cancelled)

\* What a call is like, by where its handler is.
Proper(c) ==
    /\ c \in Calls
    /\ c.pc \in Counted \cup {"chosen"} => c.model \in Models
    /\ c.pc \in Open => c.lines = <<>> /\ (c.pc \in StreamStates \/ c.sent = 0)
    /\ c.pc \in StreamStates => c.sent \in {0, 200}
    /\ c.pc \in {"releasing", "leaving"} => Told(c)
    /\ c.pc = "done" => Told(c) \/ (c.lines = <<>> /\ c.gone)

CallInv ==
    /\ call = [r \in Reqs |-> call[r]]
    /\ \A r \in Reqs : Proper(call[r])

LEMMA LinesAreLines ==
    /\ \A s \in Statuses, h \in Codes : Row(s, h) \in Lines /\ Row(s, h).http = h
    /\ \A h \in Codes : Rejection(h) \in Lines /\ Rejection(h).http = h
    /\ Cancelled \in Lines
BY DEF Lines, Row, Rejection, Cancelled, Statuses, Codes

\* A call that ends with a line that says what is sent is as it should be.
LEMMA EndIsProper ==
    ASSUME NEW c, Proper(c), c.pc \in Open, NEW l \in Lines, NEW a \in {0} \cup Codes,
           NEW p \in {"releasing", "leaving", "done"}, p # "done" => c.model \in Models,
           l.http = (IF c.sent = 0 THEN a ELSE c.sent) \/ (c.gone /\ l = Cancelled)
    PROVE  Proper(Ended(c, l, a, p))
<1> DEFINE d == Ended(c, l, a, p)
<1>1. c \in Calls /\ c.lines = <<>>
  BY DEF Proper
<1>2. Append(<<>>, l) = <<l>> /\ <<l>> \in Seq(Lines)
  OBVIOUS
<1>3. /\ d.pc = p /\ d.model = c.model /\ d.gone = c.gone /\ d.lines = <<l>>
      /\ d.sent = IF c.sent = 0 THEN a ELSE c.sent
  BY <1>1, <1>2 DEF Ended, Calls
<1>4. d \in Calls
  <2> DEFINE P == Counted \cup {"idle", "chosen", "done"}
             M == Models \cup {NoModel}
             S == {0} \cup Codes
             L == Seq(Lines)
             x == Append(c.lines, l)
             s == IF c.sent = 0 THEN a ELSE c.sent
  <2>1. c \in [pc : P, model : M, gone : BOOLEAN, sent : S, lines : L, late : BOOLEAN,
               silent : BOOLEAN, closed : BOOLEAN, idle : BOOLEAN, ending : {"none", "eof", "error"}]
    BY <1>1 DEF Calls
  <2>2. x \in L
    BY <1>1, <1>2
  <2>3. s \in S
    BY <2>1
  <2>4. p \in P
    BY DEF Counted, Holding
  <2>5. d = [c EXCEPT !.lines = x, !.sent = s, !.pc = p, !.late = FALSE, !.silent = FALSE,
                      !.closed = FALSE, !.idle = FALSE, !.ending = "none"]
    BY DEF Ended
  <2> HIDE DEF P, M, S, L, x, s, d
  <2>6. d \in [pc : P, model : M, gone : BOOLEAN, sent : S, lines : L, late : BOOLEAN,
               silent : BOOLEAN, closed : BOOLEAN, idle : BOOLEAN, ending : {"none", "eof", "error"}]
    BY <2>1, <2>2, <2>3, <2>4, <2>5
  <2> QED
    BY <2>6 DEF Calls, P, M, S, L
<1>5. Told(d)
  BY <1>3 DEF Told
<1> HIDE DEF d
<1>6. d.pc \notin Open
  BY <1>3 DEF Open, StreamStates
<1>7. d.pc \notin StreamStates
  BY <1>3 DEF StreamStates
<1>8. d.pc \in Counted \cup {"chosen"} => d.model \in Models
  BY <1>3 DEF Counted, Holding, StreamStates
<1>9. Proper(d)
  BY <1>4, <1>5, <1>6, <1>7, <1>8 DEF Proper
<1> QED
  BY <1>9 DEF d

-----------------------------------------------------------------------------
(* Steps that leave the counts alone *)

\* Two records of a call that the counts and the lines do not tell apart.
Alike(c, d) ==
    /\ c.pc \in Holding <=> d.pc \in Holding
    /\ c.pc \in Counted <=> d.pc \in Counted
    /\ c.pc = "queued" <=> d.pc = "queued"
    /\ c.pc \in Counted => d.model = c.model

Quiet == /\ UNCHANGED <<inflight, slotVars>>
         /\ \A q \in Reqs : Alike(call[q], call'[q])

LEMMA OneCall ==
    ASSUME CallInv, NEW r \in Reqs, NEW d, call' = [call EXCEPT ![r] = d], Proper(d)
    PROVE  CallInv' /\ call'[r] = d /\ \A q \in Reqs \ {r} : call'[q] = call[q]
BY DEF CallInv

LEMMA QuietCall ==
    ASSUME CallInv, NEW r \in Reqs, NEW d, call' = [call EXCEPT ![r] = d], Proper(d),
           Alike(call[r], d), UNCHANGED <<inflight, slotVars>>
    PROVE  CallInv' /\ Quiet
<1>1. CallInv' /\ call'[r] = d /\ \A q \in Reqs \ {r} : call'[q] = call[q]
  BY OneCall
<1>2. \A q \in Reqs \ {r} : Alike(call[q], call'[q])
  BY <1>1 DEF Alike
<1> QED
  BY <1>1, <1>2 DEF Quiet

\* The handler ends the request, in any of the three ways it may go on.
LEMMA EndQuiet ==
    ASSUME CallInv, NEW r \in Reqs, NEW l \in Lines, NEW a \in {0} \cup Codes,
           NEW p \in {"releasing", "leaving", "done"},
           \/ p = "releasing" /\ In(r, Holding \ {"releasing"})
           \/ p = "leaving" /\ In(r, {"refused"})
           \/ p = "done" /\ In(r, {"idle"}),
           l.http = (IF call[r].sent = 0 THEN a ELSE call[r].sent) \/ (call[r].gone /\ l = Cancelled),
           End(r, l, a, p), UNCHANGED <<inflight, slotVars>>
    PROVE  CallInv' /\ Quiet
<1> DEFINE c == call[r]  d == Ended(call[r], l, a, p)
<1>1. Proper(c)
  BY DEF CallInv
<1>2. c.pc \in Open
  BY DEF In, Holding, StreamStates, Open
<1>3. p # "done" => c.model \in Models
  BY <1>1 DEF Proper, In, Counted
<1>4. Proper(d)
  BY <1>1, <1>2, <1>3, EndIsProper
<1>5. d.pc = p /\ d.model = c.model
  BY <1>1 DEF Proper, Calls, Ended
<1>6. Alike(c, d)
  BY <1>5 DEF Alike, In, Holding, Counted, StreamStates
<1> QED
  BY <1>4, <1>6, QuietCall DEF End

\* Before the response has begun, the answer's status is the one that is sent.
LEMMA AnswerEnds ==
    ASSUME CallInv, NEW r \in Reqs, NEW l \in Lines, NEW a \in Codes, l.http = a,
           NEW p \in {"releasing", "leaving", "done"},
           \/ p = "releasing" /\ In(r, Holding \ ({"releasing"} \cup StreamStates))
           \/ p = "leaving" /\ In(r, {"refused"})
           \/ p = "done" /\ In(r, {"idle"}),
           End(r, l, a, p), UNCHANGED <<inflight, slotVars>>
    PROVE  CallInv' /\ Quiet
<1>1. call[r].sent = 0
  BY DEF CallInv, Proper, In, Holding, StreamStates, Open
<1> QED
  BY <1>1, EndQuiet DEF In

\* A client that has left is sent nothing.
LEMMA DepartureEnds ==
    ASSUME CallInv, NEW r \in Reqs, call[r].gone,
           NEW p \in {"releasing", "leaving"},
           \/ p = "releasing" /\ In(r, Holding \ {"releasing"})
           \/ p = "leaving" /\ In(r, {"refused"}),
           End(r, Cancelled, 0, p), UNCHANGED <<inflight, slotVars>>
    PROVE  CallInv' /\ Quiet
BY EndQuiet, LinesAreLines

\* The handler moves on, and what happens around it leaves it where it is.
LEMMA GoQuiet ==
    ASSUME CallInv, NEW r \in Reqs, NEW p,
           \/ In(r, {"granted"}) /\ p = "slot"
           \/ In(r, {"slot"}) /\ p = "aiming"
           \/ In(r, {"aiming"}) /\ p = "asking"
           \/ In(r, {"asking"}) /\ p \in {"body", "reading"}
           \/ In(r, StreamStates) /\ p \in StreamStates,
           Go(r, p), UNCHANGED <<inflight, slotVars>>
    PROVE  CallInv' /\ Quiet
<1> DEFINE c == call[r]  d == [call[r] EXCEPT !.pc = p]
<1>1. Proper(c)
  BY DEF CallInv
<1>2. c.pc \in Holding /\ p \in Holding /\ p \in Open
  BY DEF In, Holding, StreamStates, Open
<1>3. c.pc \in StreamStates => p \in StreamStates
  BY DEF In, StreamStates
<1>4. c.lines = <<>> /\ (p \in StreamStates => c.sent \in {0, 200})
      /\ (p \notin StreamStates => c.sent = 0) /\ c.model \in Models
  BY <1>1 DEF Proper, In, Open, StreamStates, Counted, Holding
<1>5. d \in Calls
  BY <1>1, <1>2 DEF Proper, Calls, Counted
<1>6. d.pc = p /\ d.model = c.model /\ d.lines = c.lines /\ d.sent = c.sent
  BY <1>1 DEF Proper, Calls
<1> HIDE DEF c, d
<1>7. Proper(d)
  BY <1>2, <1>4, <1>5, <1>6 DEF Proper, Holding, StreamStates
<1>8. Alike(c, d)
  BY <1>2, <1>6 DEF Alike, Holding, Counted, StreamStates
<1> QED
  BY <1>7, <1>8, QuietCall DEF Go, c, d

LEMMA FlagsQuiet ==
    ASSUME CallInv, NEW r \in Reqs, NEW d \in Calls,
           call' = [call EXCEPT ![r] = d],
           d.pc = call[r].pc, d.model = call[r].model, d.sent = call[r].sent,
           d.lines = call[r].lines, call[r].gone => d.gone, UNCHANGED <<inflight, slotVars>>
    PROVE  CallInv' /\ Quiet
<1>1. Proper(call[r])
  BY DEF CallInv
<1>2. Proper(d)
  BY <1>1 DEF Proper, Told
<1>3. Alike(call[r], d)
  BY DEF Alike
<1> QED
  BY <1>2, <1>3, QuietCall

LEMMA FrontDoorQuiet ==
    ASSUME CallInv, NEW r \in Reqs, FrontDoor(r)
    PROVE  CallInv' /\ Quiet
<1>1. CASE RefuseBody(r)
  <2>1. PICK http \in {413, 400} : End(r, Rejection(http), http, "done")
    BY <1>1 DEF RefuseBody
  <2> QED
    BY <1>1, <2>1, AnswerEnds, LinesAreLines DEF RefuseBody, Codes
<1>2. CASE LoseBody(r)
  <2> DEFINE d == [call[r] EXCEPT !.pc = "done", !.gone = TRUE]
  <2>1. Proper(call[r]) /\ call[r].pc = "idle" /\ call[r].lines = <<>>
    BY <1>2 DEF CallInv, LoseBody, In, Proper, Open
  <2>2. d \in Calls /\ d.pc = "done" /\ d.gone /\ d.lines = <<>>
    BY <2>1 DEF Proper, Calls
  <2>3. call' = [call EXCEPT ![r] = d]
    BY <1>2 DEF LoseBody
  <2> HIDE DEF d
  <2>4. Proper(d) /\ Alike(call[r], d)
    BY <2>1, <2>2 DEF Proper, Alike, Open, Holding, Counted, StreamStates
  <2> QED
    BY <1>2, <2>3, <2>4, QuietCall DEF LoseBody
<1>3. ASSUME NEW m \in Models, In(r, {"idle"}), UNCHANGED <<inflight, slotVars>>,
             call' = [call EXCEPT ![r].pc = "chosen", ![r].model = m]
      PROVE  CallInv' /\ Quiet
  <2> DEFINE d == [call[r] EXCEPT !.pc = "chosen", !.model = m]
  <2>1. Proper(call[r]) /\ call[r].pc = "idle" /\ call[r].lines = <<>> /\ call[r].sent = 0
    BY <1>3 DEF CallInv, In, Proper, Open, StreamStates
  <2>2. d \in Calls /\ d.pc = "chosen" /\ d.model = m /\ d.lines = <<>> /\ d.sent = 0
    BY <2>1 DEF Proper, Calls
  <2>3. call' = [call EXCEPT ![r] = d]
    BY <1>3
  <2> HIDE DEF d
  <2>4. Proper(d) /\ Alike(call[r], d)
    BY <2>1, <2>2 DEF Proper, Alike, Open, Holding, Counted, StreamStates
  <2> QED
    BY <1>3, <2>3, <2>4, QuietCall
<1>4. ASSUME End(r, Rejection(404), 404, "done"), In(r, {"idle"}),
             UNCHANGED <<inflight, slotVars>>
      PROVE  CallInv' /\ Quiet
  BY <1>4, AnswerEnds, LinesAreLines DEF Codes
<1>5. CASE ResolveAlias(r)
  <2>1. \A n \in DOMAIN Members : Members[n] \in Models
    BY MembersAssumption
  <2> QED
    BY <1>3, <1>4, <1>5, <2>1 DEF ResolveAlias
<1>6. ASSUME NEW m \in Models, ResolveModel(r, m)
      PROVE  CallInv' /\ Quiet
  BY <1>3, <1>4, <1>6 DEF ResolveModel
<1> QED
  BY <1>1, <1>2, <1>5, <1>6 DEF FrontDoor

LEMMA ReceiveQuiet ==
    ASSUME CallInv, NEW r \in Reqs, Receive(r)
    PROVE  CallInv' /\ Quiet
BY GoQuiet DEF Receive

LEMMA RefuseQuiet ==
    ASSUME CallInv, NEW r \in Reqs, Refuse(r)
    PROVE  CallInv' /\ Quiet
<1>1. CASE call[r].gone /\ End(r, Cancelled, 0, "leaving")
  BY <1>1, DepartureEnds DEF Refuse
<1>2. ASSUME NEW http \in {503, 429}, End(r, Rejection(http), http, "leaving")
      PROVE  CallInv' /\ Quiet
  BY <1>2, AnswerEnds, LinesAreLines DEF Refuse, Codes
<1> QED
  BY <1>1, <1>2 DEF Refuse

LEMMA CheckUpQuiet ==
    ASSUME CallInv, NEW r \in Reqs, CheckUp(r)
    PROVE  CallInv' /\ Quiet
<1>1. In(r, Holding \ ({"releasing"} \cup StreamStates))
  BY DEF CheckUp, In, Holding, StreamStates
<1>2. CASE End(r, Rejection(503), 503, "releasing")
  <2>1. 503 \in Codes /\ Rejection(503) \in Lines /\ Rejection(503).http = 503
    BY LinesAreLines DEF Codes
  <2>2. UNCHANGED <<inflight, slotVars>>
    BY DEF CheckUp
  <2> QED
    BY <1>1, <1>2, <2>1, <2>2, AnswerEnds
<1>3. CASE Go(r, "aiming")
  BY <1>3, GoQuiet DEF CheckUp
<1> QED
  BY <1>2, <1>3 DEF CheckUp

LEMMA ExchangeQuiet ==
    ASSUME CallInv, NEW r \in Reqs, Exchange(r)
    PROVE  CallInv' /\ Quiet
<1>1. In(r, Holding \ ({"releasing"} \cup StreamStates)) /\ UNCHANGED <<inflight, slotVars>>
  BY DEF Exchange, Aim, Answer, AskFails, BodyRead, BodyFails, In, Holding, StreamStates
<1>2. ASSUME NEW s \in Statuses, NEW http \in Codes, End(r, Row(s, http), http, "releasing")
      PROVE  CallInv' /\ Quiet
  BY <1>1, <1>2, AnswerEnds, LinesAreLines
<1>3. CASE call[r].gone /\ End(r, Cancelled, 0, "releasing")
  BY <1>1, <1>3, DepartureEnds DEF In
<1>4. CASE Aim(r)
  <2>1. CASE End(r, Rejection(500), 500, "releasing")
    BY <1>1, <2>1, AnswerEnds, LinesAreLines DEF Codes
  <2>2. CASE End(r, Row("upstream_error", 503), 503, "releasing")
    BY <1>2, <2>2 DEF Statuses, Codes
  <2>3. CASE Go(r, "asking")
    BY <1>4, <2>3, GoQuiet DEF Aim
  <2> QED
    BY <1>4, <2>1, <2>2, <2>3 DEF Aim
<1>5. CASE Answer(r)
  <2>1. CASE End(r, Row("upstream_error", 502), 502, "releasing")
    BY <1>2, <2>1 DEF Statuses, Codes
  <2>2. CASE End(r, Row("ok", 422), 422, "releasing")
    BY <1>2, <2>2 DEF Statuses, Codes
  <2>3. CASE Go(r, "body") \/ Go(r, "reading")
    BY <1>5, <2>3, GoQuiet DEF Answer
  <2> QED
    BY <1>5, <2>1, <2>2, <2>3 DEF Answer
<1>6. CASE AskFails(r) \/ BodyRead(r) \/ BodyFails(r)
  <2>1. \/ call[r].gone /\ End(r, Cancelled, 0, "releasing")
        \/ End(r, Row("upstream_timeout", 504), 504, "releasing")
        \/ End(r, Row("upstream_error", 502), 502, "releasing")
        \/ End(r, Row("ok", 200), 200, "releasing")
    BY <1>6 DEF AskFails, BodyRead, BodyFails
  <2> QED
    BY <1>2, <1>3, <2>1 DEF Statuses, Codes
<1> QED
  BY <1>4, <1>5, <1>6 DEF Exchange

LEMMA PumpQuiet ==
    ASSUME CallInv, NEW r \in Reqs, Pump(r)
    PROVE  CallInv' /\ Quiet
<1> DEFINE c == call[r]
<1>1. /\ In(r, StreamStates) /\ In(r, Holding \ {"releasing"})
      /\ UNCHANGED <<inflight, slotVars>>
  BY DEF Pump, StreamTop, StreamLine, StreamStops, StreamWrite, StreamEnds, In, Holding,
         StreamStates
<1>2. Proper(c) /\ c \in Calls /\ c.pc \in StreamStates /\ c.lines = <<>>
      /\ c.sent \in {0, 200} /\ c.model \in Models
  BY <1>1 DEF CallInv, Proper, In, Open, Counted, Holding
<1>0. {0, 200} \subseteq {0} \cup Codes /\ StreamStates \subseteq Counted
  BY DEF Codes, Counted, Holding
<1>3. CASE c.gone /\ End(r, Cancelled, 0, "releasing")
  BY <1>1, <1>3, DepartureEnds
<1>4. ASSUME NEW s \in Statuses, NEW h \in Codes, NEW http \in Codes,
             http = (IF c.sent = 0 THEN h ELSE 200),
             End(r, Row(s, http), h, "releasing")
      PROVE  CallInv' /\ Quiet
  <2> DEFINE l == Row(s, http)
  <2>1. l \in Lines /\ l.http = (IF c.sent = 0 THEN h ELSE c.sent)
    BY <1>2, <1>4, LinesAreLines
  <2> HIDE DEF l
  <2> QED
    BY <1>1, <1>4, <2>1, EndQuiet DEF l
<1>5. ASSUME NEW d \in Calls, d.pc \in StreamStates, d.model = c.model, d.lines = c.lines,
             d.sent \in {0, 200}, call' = [call EXCEPT ![r] = d]
      PROVE  CallInv' /\ Quiet
  <2>1. Proper(d) /\ Alike(c, d)
    BY <1>2, <1>5 DEF Proper, Alike, Open, Holding, Counted, StreamStates
  <2> QED
    BY <1>1, <1>5, <2>1, QuietCall
<1>6. CASE StreamTop(r)
  BY <1>3, <1>6 DEF StreamTop
<1>7. CASE StreamLine(r)
  <2> DEFINE d == [c EXCEPT !.pc = "writing", !.sent = 200]
  <2>3. "writing" \in StreamStates
    BY DEF StreamStates
  <2>4. "writing" \in Counted \cup {"idle", "chosen", "done"} /\ 200 \in {0} \cup Codes
    BY <1>0, <2>3
  <2>5. c \in Calls
    BY <1>2
  <2>6. d \in Calls /\ d.pc = "writing" /\ d.model = c.model /\ d.lines = c.lines /\ d.sent = 200
    BY <2>4, <2>5 DEF Calls
  <2>2. call' = [call EXCEPT ![r] = d]
    BY <1>7 DEF StreamLine
  <2> HIDE DEF d
  <2> QED
    BY <1>5, <2>2, <2>3, <2>6
<1>8. CASE StreamStops(r)
  <2>1. PICK ending \in {"eof", "error"}, last \in BOOLEAN :
           call' = [call EXCEPT ![r].ending = ending,
                                ![r].pc = IF last THEN "writing" ELSE "checking",
                                ![r].sent = IF last THEN 200 ELSE @]
    BY <1>8 DEF StreamStops
  <2> DEFINE pc == IF last THEN "writing" ELSE "checking"
             sent == IF last THEN 200 ELSE c.sent
             d == [c EXCEPT !.ending = ending, !.pc = pc, !.sent = sent]
  <2>2. pc \in StreamStates /\ sent \in {0, 200}
    BY <1>2 DEF StreamStates
  <2>3. call' = [call EXCEPT ![r] = d]
    BY <2>1, <1>2 DEF Calls
  <2> HIDE DEF pc, sent
  <2>4. pc \in Counted \cup {"idle", "chosen", "done"} /\ sent \in {0} \cup Codes
    BY <1>0, <2>2
  <2>5. c \in Calls
    BY <1>2
  <2>6. /\ d \in Calls /\ d.pc = pc /\ d.model = c.model /\ d.lines = c.lines
        /\ d.sent = sent
    BY <2>4, <2>5 DEF Calls
  <2> QED
    BY <1>5, <2>2, <2>3, <2>6
<1>9. CASE StreamWrite(r)
  <2>1. CASE Go(r, IF c.ending = "none" THEN "reading" ELSE "checking")
    <3>1. (IF c.ending = "none" THEN "reading" ELSE "checking") \in StreamStates
      BY DEF StreamStates
    <3> QED
      BY <1>1, <2>1, <3>1, GoQuiet
  <2> QED
    BY <1>3, <1>9, <2>1 DEF StreamWrite
<1>10. CASE StreamEnds(r)
  <2> DEFINE http(h) == IF c.sent = 0 THEN h ELSE 200
  <2>1. \/ c.gone /\ End(r, Cancelled, 0, "releasing")
        \/ End(r, Row("upstream_timeout", http(504)), 504, "releasing")
        \/ End(r, Row("ok", 200), 200, "releasing")
        \/ End(r, Row("upstream_error", http(502)), 502, "releasing")
    BY <1>10 DEF StreamEnds
  <2>2. http(504) \in Codes /\ http(502) \in Codes /\ http(200) = 200
    BY DEF Codes
  <2>3. 504 \in Codes /\ 502 \in Codes /\ 200 \in Codes
    BY DEF Codes
  <2>4. CASE End(r, Row("upstream_timeout", http(504)), 504, "releasing")
    BY <1>4, <2>2, <2>3, <2>4 DEF Statuses
  <2>5. CASE End(r, Row("ok", 200), 200, "releasing")
    BY <1>4, <2>2, <2>3, <2>5 DEF Statuses
  <2>6. CASE End(r, Row("upstream_error", http(502)), 502, "releasing")
    BY <1>4, <2>2, <2>3, <2>6 DEF Statuses
  <2> QED
    BY <1>3, <2>1, <2>4, <2>5, <2>6
<1> QED
  BY <1>6, <1>7, <1>8, <1>9, <1>10 DEF Pump

\* The watchdog, the client, the deadline and the server's silence.
LEMMA FlagStepsQuiet ==
    ASSUME CallInv, NEW r \in Reqs,
           \/ WatchGone(r) \/ WatchIdle(r)
           \/ ClientLeaves(r) \/ DeadlinePasses(r) \/ UpstreamTurns(r)
    PROVE  CallInv' /\ Quiet
<1> DEFINE c == call[r]
<1>1. c \in Calls /\ UNCHANGED <<inflight, slotVars>>
  BY DEF CallInv, Proper, WatchGone, WatchIdle, ClientLeaves, DeadlinePasses, UpstreamTurns
<1>2. CASE WatchGone(r)
  <2>1. [c EXCEPT !.closed = TRUE] \in Calls
    BY <1>1 DEF Calls
  <2> QED
    BY <1>1, <1>2, <2>1, FlagsQuiet DEF WatchGone, Calls
<1>3. CASE WatchIdle(r)
  <2> DEFINE d == [c EXCEPT !.closed = TRUE, !.idle = TRUE]
  <2>1. call' = [call EXCEPT ![r] = d]
    BY <1>3 DEF WatchIdle
  <2>2. /\ d \in Calls /\ d.pc = c.pc /\ d.model = c.model /\ d.sent = c.sent
        /\ d.lines = c.lines /\ d.gone = c.gone
    BY <1>1 DEF Calls
  <2> QED
    BY <1>1, <2>1, <2>2, FlagsQuiet
<1>4. CASE ClientLeaves(r)
  <2>1. [c EXCEPT !.gone = TRUE] \in Calls
    BY <1>1 DEF Calls
  <2> QED
    BY <1>1, <1>4, <2>1, FlagsQuiet DEF ClientLeaves, Calls
<1>5. CASE DeadlinePasses(r)
  <2>1. [c EXCEPT !.late = TRUE] \in Calls
    BY <1>1 DEF Calls
  <2> QED
    BY <1>1, <1>5, <2>1, FlagsQuiet DEF DeadlinePasses, Calls
<1>6. CASE UpstreamTurns(r)
  <2> DEFINE b == ~c.silent  d == [c EXCEPT !.silent = b]
  <2>1. b \in BOOLEAN /\ call' = [call EXCEPT ![r] = d]
    BY <1>6 DEF UpstreamTurns
  <2> HIDE DEF b
  <2>2. /\ d \in Calls /\ d.pc = c.pc /\ d.model = c.model /\ d.sent = c.sent
        /\ d.lines = c.lines /\ d.gone = c.gone
    BY <1>1, <2>1 DEF Calls
  <2> QED
    BY <1>1, <2>1, <2>2, FlagsQuiet
<1> QED
  BY <1>2, <1>3, <1>4, <1>5, <1>6

\* Of the steps of the system, all but these five leave the counts and the lines alone.
LEMMA QuietSteps ==
    ASSUME CallInv, [Next]_vars,
           ~ \E r \in Reqs : Admit(r) \/ Acquire(r) \/ Quit(r) \/ Release(r) \/ Leave(r)
    PROVE  CallInv' /\ Quiet
<1>1. CASE UNCHANGED <<call, inflight, slotVars>>
  BY <1>1 DEF CallInv, Quiet, Alike
<1>2. ASSUME NEW r \in Reqs,
             \/ FrontDoor(r) \/ Receive(r) \/ Refuse(r) \/ CheckUp(r)
             \/ Exchange(r) \/ Pump(r)
             \/ WatchGone(r) \/ WatchIdle(r)
             \/ ClientLeaves(r) \/ DeadlinePasses(r) \/ UpstreamTurns(r)
      PROVE  CallInv' /\ Quiet
  BY <1>2, FrontDoorQuiet, ReceiveQuiet, RefuseQuiet, CheckUpQuiet, ExchangeQuiet, PumpQuiet,
     FlagStepsQuiet
<1>3. ASSUME NEW s \in Servers, Probe(s)
      PROVE  UNCHANGED <<call, inflight, slotVars>>
  BY <1>3 DEF Probe
<1>4. UNCHANGED vars => UNCHANGED <<call, inflight, slotVars>>
  BY DEF vars, slotVars
<1> QED
  BY <1>1, <1>2, <1>3, <1>4 DEF Next, Enter, Wait, Depart

-----------------------------------------------------------------------------
(* The lines and the counts *)

\* Those queued at a server are in its line, once, and nobody else is; there is a
\* line only where no slot is free.
LineInv ==
    /\ free \in [Servers -> Nat]
    /\ line \in [Servers -> Seq(Reqs)]
    /\ \A s \in Servers :
          /\ \A i, j \in 1 .. Len(line[s]) : line[s][i] = line[s][j] => i = j
          /\ \A q \in Reqs : q \in ToSet(line[s]) <=> In(q, {"queued"}) /\ ServerOf(q) = s
          /\ line[s] # <<>> => Cap[s] > 0 /\ free[s] = 0

InflightOf(m) == {r \in Reqs : In(r, Counted) /\ call[r].model = m}

CountInv ==
    /\ inflight \in [Models -> Nat]
    /\ InflightIsExact
    /\ SlotsAreExact

IInv == CallInv /\ LineInv /\ CountInv /\ health \in [Servers -> Health]

LEMMA ModelOfCounted ==
    ASSUME CallInv
    PROVE  \A q \in Reqs : In(q, Counted) => call[q].model \in Models /\ ServerOf(q) \in Servers
BY ModelsAssumption DEF CallInv, Proper, In, ServerOf

\* A quiet step changes none of the sets that are counted.
LEMMA QuietSets ==
    ASSUME CallInv, Quiet
    PROVE  /\ \A m \in Models : InflightOf(m)' = InflightOf(m)
           /\ \A s \in Servers : Holders(s)' = Holders(s)
           /\ \A q \in Reqs : In(q, {"queued"}) <=> In(q, {"queued"})'
           /\ \A q \in Reqs : In(q, {"queued"}) => ServerOf(q)' = ServerOf(q)
<1>1. \A q \in Reqs : In(q, Holding) <=> In(q, Holding)'
  BY DEF Quiet, Alike, In
<1>2. \A q \in Reqs : In(q, Counted) <=> In(q, Counted)'
  BY DEF Quiet, Alike, In
<1>3. \A q \in Reqs : In(q, {"queued"}) <=> In(q, {"queued"})'
  BY DEF Quiet, Alike, In
<1>4. \A q \in Reqs : In(q, Counted) => call'[q].model = call[q].model /\ ServerOf(q)' = ServerOf(q)
  BY DEF Quiet, Alike, In, ServerOf
<1>5. \A q \in Reqs : In(q, Holding) \/ In(q, {"queued"}) => In(q, Counted)
  BY DEF In, Counted
<1>6. \A m \in Models : InflightOf(m)' = InflightOf(m)
  BY <1>2, <1>4 DEF InflightOf
<1>7. \A s \in Servers : Holders(s)' = Holders(s)
  BY <1>1, <1>4, <1>5 DEF Holders
<1> QED
  BY <1>3, <1>4, <1>5, <1>6, <1>7

LEMMA QuietKeeps ==
    ASSUME CallInv, Quiet, LineInv, CountInv
    PROVE  LineInv' /\ CountInv'
<1>1. UNCHANGED <<inflight, free, line>>
  BY DEF Quiet, slotVars
<1>2. LineInv'
  <2>1. ASSUME NEW s \in Servers, NEW q \in Reqs
        PROVE  q \in ToSet(line[s])' <=> In(q, {"queued"})' /\ ServerOf(q)' = s
    BY <1>1, QuietSets DEF LineInv
  <2> QED
    BY <1>1, <2>1 DEF LineInv
<1>3. CountInv'
  <2>1. InflightIsExact'
    BY <1>1, QuietSets DEF InflightIsExact, InflightOf, CountInv
  <2>2. SlotsAreExact'
    BY <1>1, QuietSets DEF SlotsAreExact, CountInv
  <2> QED
    BY <1>1, <2>1, <2>2 DEF CountInv
<1> QED
  BY <1>2, <1>3

\* Counting with one more and with one less.
LEMMA OneMore ==
    ASSUME NEW S, NEW T, S \subseteq Reqs, NEW r \in Reqs, r \notin S, T = S \cup {r}
    PROVE  Cardinality(T) = Cardinality(S) + 1 /\ Cardinality(S) \in Nat
<1>1. IsFiniteSet(S)
  BY ReqsFinite, FS_Subset
<1> QED
  BY <1>1, FS_AddElement, FS_CardinalityType

LEMMA OneLess ==
    ASSUME NEW S, NEW T, S \subseteq Reqs, NEW r \in S, T = S \ {r}
    PROVE  Cardinality(T) = Cardinality(S) - 1 /\ Cardinality(S) \in Nat \ {0}
<1>1. IsFiniteSet(S)
  BY ReqsFinite, FS_Subset
<1> QED
  BY <1>1, FS_RemoveElement, FS_CardinalityType, FS_EmptySet

LEMMA Counts ==
    /\ \A m \in Models : InflightOf(m) \subseteq Reqs /\ Cardinality(InflightOf(m)) \in Nat
    /\ \A s \in Servers : Holders(s) \subseteq Reqs /\ Cardinality(Holders(s)) \in Nat
<1>1. \A m \in Models : InflightOf(m) \subseteq Reqs
  BY DEF InflightOf
<1>2. \A s \in Servers : Holders(s) \subseteq Reqs
  BY DEF Holders
<1> QED
  BY <1>1, <1>2, ReqsFinite, FS_Subset, FS_CardinalityType

-----------------------------------------------------------------------------
(* The five steps that change them *)

LEMMA GoKeeps ==
    ASSUME CallInv, NEW r \in Reqs, NEW p,
           \/ In(r, {"chosen"}) /\ p = "admitted"
           \/ In(r, {"admitted"}) /\ p \in {"slot", "queued"}
           \/ In(r, {"queued"}) /\ p = "refused"
           \/ In(r, {"releasing"}) /\ p = "leaving",
           Go(r, p)
    PROVE  /\ CallInv' /\ call'[r].pc = p /\ call'[r].model = call[r].model
           /\ \A q \in Reqs \ {r} : call'[q] = call[q]
<1> DEFINE c == call[r]  d == [call[r] EXCEPT !.pc = p]
<1>1. Proper(c)
  BY DEF CallInv
<1>2. c.pc \in Counted \cup {"chosen"} /\ p \in Counted /\ c.pc \notin StreamStates
      /\ p \notin StreamStates
  BY DEF In, Holding, StreamStates, Counted
<1>3. c.model \in Models
  BY <1>1, <1>2 DEF Proper
<1>4. d \in Calls
  BY <1>1, <1>2 DEF Proper, Calls
<1>5. d.pc = p /\ d.model = c.model /\ d.lines = c.lines /\ d.sent = c.sent /\ d.gone = c.gone
  BY <1>1 DEF Proper, Calls
<1>6. Proper(d)
  <2>1. p \in Open => c.lines = <<>> /\ c.sent = 0
    BY <1>1, <1>2 DEF Proper, In, Open
  <2>2. p = "leaving" => Told(c)
    BY <1>1, <1>2 DEF Proper, In, Open
  <2>3. p # "releasing" /\ p # "done"
    OBVIOUS
  <2>4. Told(c) => Told(d)
    BY <1>5 DEF Told
  <2> HIDE DEF c, d
  <2> QED
    BY <1>2, <1>3, <1>4, <1>5, <2>1, <2>2, <2>3, <2>4 DEF Proper
<1> QED
  BY <1>5, <1>6, OneCall DEF Go

\* What a step does to the line of a server, and to those that hold its slots.
Untouched(s) == Holders(s)' = Holders(s) /\ line'[s] = line[s]

Entered(s, r) ==
    /\ r \notin Holders(s) \cup ToSet(line[s])
    /\ \/ /\ Cap[s] = 0 \/ free[s] > 0
          /\ Holders(s)' = Holders(s) \cup {r} /\ line'[s] = line[s]
       \/ /\ Cap[s] > 0 /\ free[s] = 0
          /\ Holders(s)' = Holders(s) /\ line'[s] = Append(line[s], r)

GaveUp(s, r) ==
    /\ r \in ToSet(line[s])
    /\ Holders(s)' = Holders(s) /\ line'[s] = RemoveFirst(line[s], r)

Finished(s, r) ==
    /\ r \in Holders(s)
    /\ \/ /\ line[s] # <<>>
          /\ Holders(s)' = (Holders(s) \ {r}) \cup {Head(line[s])}
          /\ line'[s] = Tail(line[s])
       \/ /\ line[s] = <<>>
          /\ Holders(s)' = Holders(s) \ {r} /\ line'[s] = line[s]

\* A request that comes is one more of those counted of a model.
LEMMA AdmitKeeps ==
    ASSUME IInv, NEW r \in Reqs, Admit(r)
    PROVE  IInv' /\ \A s \in Servers : Untouched(s)
<1>0. PICK m \in Models : m = call[r].model
  BY DEF IInv, CallInv, Proper, Admit, In
<1>1. /\ CallInv' /\ call'[r].pc = "admitted" /\ call'[r].model = m
      /\ \A q \in Reqs \ {r} : call'[q] = call[q]
  BY <1>0, GoKeeps DEF Admit, IInv
<1>2. call[r].pc = "chosen" /\ UNCHANGED <<free, line, health>>
  BY DEF Admit, slotVars, In
<1>3. \A q \in Reqs : (In(q, {"queued"})' <=> In(q, {"queued"}))
                      /\ (In(q, {"queued"}) => ServerOf(q)' = ServerOf(q))
  BY <1>1, <1>2 DEF In, ServerOf
<1>4. LineInv'
  BY <1>2, <1>3 DEF LineInv, IInv
<1>5. \A s \in Servers : Holders(s)' = Holders(s)
  BY <1>1, <1>2 DEF Holders, In, ServerOf, Holding, StreamStates
<1>6. \A k \in Models \ {m} : InflightOf(k)' = InflightOf(k)
  BY <1>0, <1>1, <1>2 DEF InflightOf, In
<1>7. InflightOf(m)' = InflightOf(m) \cup {r} /\ r \notin InflightOf(m)
  BY <1>0, <1>1, <1>2 DEF InflightOf, In, Counted, Holding, StreamStates
<1>8. Cardinality(InflightOf(m)') = Cardinality(InflightOf(m)) + 1
  BY <1>2, <1>7, Counts, OneMore
<1>9. inflight' = [inflight EXCEPT ![m] = inflight[m] + 1] /\ inflight \in [Models -> Nat]
  <2>1. inflight \in [Models -> Nat] /\ inflight[m] \in Nat
    BY DEF IInv, CountInv
  <2>2. (IF inflight[m] + 1 <= 0 THEN 0 ELSE inflight[m] + 1) = inflight[m] + 1
    BY <2>1
  <2> QED
    BY <1>0, <2>1, <2>2 DEF Admit, Add
<1>10. inflight' \in [Models -> Nat] /\ \A k \in Models : inflight'[k] = Cardinality(InflightOf(k)')
  <2>1. \A k \in Models : inflight[k] = Cardinality(InflightOf(k))
    BY DEF IInv, CountInv, InflightIsExact, InflightOf
  <2> QED
    BY <1>2, <1>6, <1>8, <1>9, <2>1
<1>11. CountInv'
  BY <1>2, <1>5, <1>10 DEF IInv, CountInv, InflightIsExact, InflightOf, SlotsAreExact
<1> QED
  BY <1>1, <1>2, <1>4, <1>5, <1>11 DEF IInv, Untouched

\* One that goes is one less.
LEMMA LeaveKeeps ==
    ASSUME IInv, NEW r \in Reqs, Leave(r)
    PROVE  IInv' /\ \A s \in Servers : Untouched(s)
<1> DEFINE c == call[r]
           d == [call[r] EXCEPT !.pc = "done", !.model = NoModel]
<1>0. PICK m \in Models : m = c.model
  BY DEF IInv, CallInv, Proper, Leave, In, Counted
<1>1. c.pc = "leaving" /\ UNCHANGED <<free, line, health>> /\ Proper(c) /\ Told(c)
  BY DEF Leave, slotVars, In, IInv, CallInv, Proper, Counted
<1>2. /\ d \in Calls /\ d.pc = "done" /\ d.lines = c.lines /\ d.sent = c.sent
      /\ d.gone = c.gone
  BY <1>1 DEF Proper, Calls
<1>3. Told(d)
  BY <1>1, <1>2 DEF Told
<1>4. call' = [call EXCEPT ![r] = d]
  BY DEF Leave
<1> HIDE DEF d
<1>5. Proper(d)
  BY <1>2, <1>3 DEF Proper, Counted, Holding, StreamStates, Open
<1>6. CallInv' /\ call'[r] = d /\ \A q \in Reqs \ {r} : call'[q] = call[q]
  BY <1>4, <1>5, OneCall DEF IInv
<1>7. LineInv'
  <2>1. \A q \in Reqs : (In(q, {"queued"})' <=> In(q, {"queued"}))
                        /\ (In(q, {"queued"}) => ServerOf(q)' = ServerOf(q))
    BY <1>1, <1>2, <1>6 DEF In, ServerOf
  <2> QED
    BY <1>1, <2>1 DEF LineInv, IInv
<1>8. \A s \in Servers : Holders(s)' = Holders(s)
  BY <1>1, <1>2, <1>6 DEF Holders, In, ServerOf, Holding, StreamStates
<1>9. \A k \in Models \ {m} : InflightOf(k)' = InflightOf(k)
  BY <1>0, <1>1, <1>2, <1>6 DEF InflightOf, In, Counted, Holding, StreamStates
<1>10. InflightOf(m)' = InflightOf(m) \ {r} /\ r \in InflightOf(m)
  BY <1>0, <1>1, <1>2, <1>6 DEF InflightOf, In, Counted, Holding, StreamStates
<1>11. \A k \in Models : inflight[k] = Cardinality(InflightOf(k))
  BY DEF IInv, CountInv, InflightIsExact, InflightOf
<1>12. /\ Cardinality(InflightOf(m)') = inflight[m] - 1
       /\ inflight[m] \in Nat \ {0}
  BY <1>1, <1>10, <1>11, Counts, OneLess
<1>13. inflight' = [inflight EXCEPT ![m] = inflight[m] - 1] /\ inflight \in [Models -> Nat]
  <2>1. inflight \in [Models -> Nat]
    BY DEF IInv, CountInv
  <2>2. (IF inflight[m] + (-1) <= 0 THEN 0 ELSE inflight[m] + (-1)) = inflight[m] - 1
    BY <1>12
  <2> QED
    BY <1>0, <2>1, <2>2 DEF Leave, Add
<1>14. inflight' \in [Models -> Nat] /\ \A k \in Models : inflight'[k] = Cardinality(InflightOf(k)')
  BY <1>1, <1>9, <1>11, <1>12, <1>13
<1>15. CountInv'
  BY <1>1, <1>8, <1>14 DEF IInv, CountInv, InflightIsExact, InflightOf, SlotsAreExact
<1> QED
  BY <1>1, <1>6, <1>7, <1>8, <1>15 DEF IInv, Untouched

\* The steps of the slots count no request in or out.
LEMMA SameInflight ==
    ASSUME CountInv, inflight' = inflight,
           \A q \in Reqs : /\ In(q, Counted) <=> In(q, Counted)'
                           /\ In(q, Counted) => call'[q].model = call[q].model
    PROVE  inflight' \in [Models -> Nat] /\ InflightIsExact'
<1>1. \A m \in Models : InflightOf(m)' = InflightOf(m)
  BY DEF InflightOf
<1> QED
  BY <1>1 DEF CountInv, InflightIsExact, InflightOf

LEMMA AcquireKeeps ==
    ASSUME IInv, NEW r \in Reqs, Acquire(r)
    PROVE  /\ IInv'
           /\ \A s \in Servers : Untouched(s) \/ Entered(s, r)
<1>0. PICK s \in Servers : s = ServerOf(r)
  BY ModelOfCounted DEF IInv, Acquire, In, Counted
<1>1. call[r].pc = "admitted" /\ UNCHANGED <<inflight, health>>
  BY DEF Acquire, In
<1>2. PICK p \in {"slot", "queued"} :
         /\ Go(r, p)
         /\ p = "slot" => /\ Cap[s] = 0 \/ free[s] > 0
                          /\ free' = [free EXCEPT ![s] = IF Cap[s] = 0 THEN free[s] ELSE free[s] - 1]
                          /\ line' = line
         /\ p = "queued" => /\ Cap[s] > 0 /\ free[s] = 0
                            /\ line' = [line EXCEPT ![s] = Append(line[s], r)]
                            /\ free' = free
  BY <1>0 DEF Acquire
<1>3. /\ CallInv' /\ call'[r].pc = p /\ call'[r].model = call[r].model
      /\ \A q \in Reqs \ {r} : call'[q] = call[q]
  BY <1>2, GoKeeps DEF Acquire, IInv
<1>4. \A q \in Reqs : /\ In(q, Counted) <=> In(q, Counted)'
                      /\ call'[q].model = call[q].model /\ ServerOf(q)' = ServerOf(q)
  BY <1>1, <1>3 DEF In, Counted, Holding, ServerOf
<1>5. inflight' \in [Models -> Nat] /\ InflightIsExact'
  BY <1>1, <1>4, SameInflight DEF IInv
<1>6. \A q \in Reqs : In(q, {"queued"})' <=> In(q, {"queued"}) \/ (q = r /\ p = "queued")
  BY <1>1, <1>3 DEF In
<1>10. r \notin Holders(s) \cup ToSet(line[s])
  BY <1>1 DEF IInv, LineInv, In, Holders, Holding, StreamStates
<1>7. /\ free \in [Servers -> Nat] /\ line \in [Servers -> Seq(Reqs)] /\ Cap \in [Servers -> Nat]
      /\ \A t \in Servers : line[t] # <<>> => Cap[t] > 0 /\ free[t] = 0
  BY CapAssumption DEF IInv, LineInv
<1>8. CASE p = "slot"
  <2>1. free' \in [Servers -> Nat] /\ \A t \in Servers \ {s} : free'[t] = free[t]
    BY <1>2, <1>7, <1>8
  <2>2. Cap[s] > 0 => free'[s] = free[s] - 1
    BY <1>2, <1>7, <1>8
  <2>3. \A t \in Servers : line[t] # <<>> => Cap[t] > 0 /\ free'[t] = 0
    BY <1>2, <1>7, <1>8, <2>1
  <2>4. LineInv'
    BY <1>2, <1>4, <1>6, <1>8, <2>1, <2>3 DEF LineInv, IInv
  <2>5. \A t \in Servers \ {s} : Holders(t)' = Holders(t)
    BY <1>0, <1>1, <1>3, <1>4 DEF Holders, In
  <2>6. Holders(s)' = Holders(s) \cup {r} /\ r \notin Holders(s)
    BY <1>0, <1>1, <1>3, <1>4, <1>8 DEF Holders, In, Holding, StreamStates
  <2>7. Cardinality(Holders(s)') = Cardinality(Holders(s)) + 1 /\ Cardinality(Holders(s)) \in Nat
    BY <2>6, Counts, OneMore
  <2>8. SlotsAreExact'
    <3>1. SlotsAreExact
      BY DEF IInv, CountInv
    <3>2. \A t \in Servers \ {s} : Cap[t] > 0 => free'[t] + Cardinality(Holders(t)') = Cap[t]
      BY <2>1, <2>5, <3>1 DEF SlotsAreExact
    <3>3. Cap[s] > 0 => free'[s] + Cardinality(Holders(s)') = Cap[s]
      BY <1>7, <2>2, <2>7, <3>1 DEF SlotsAreExact
    <3> QED
      BY <3>2, <3>3 DEF SlotsAreExact
  <2>9. IInv'
    BY <1>1, <1>3, <1>5, <2>4, <2>8 DEF IInv, CountInv
  <2>10. \A t \in Servers \ {s} : Untouched(t)
    BY <1>2, <1>8, <2>5 DEF Untouched
  <2>11. Entered(s, r)
    BY <1>2, <1>8, <1>10, <2>6 DEF Entered
  <2> QED
    BY <2>9, <2>10, <2>11
<1>9. CASE p = "queued"
  <2>1. /\ Append(line[s], r) \in Seq(Reqs) /\ Len(Append(line[s], r)) = Len(line[s]) + 1
        /\ ToSet(Append(line[s], r)) = ToSet(line[s]) \cup {r}
    BY <1>7, Appended
  <2>2. r \notin ToSet(line[s])
    BY <1>1 DEF IInv, LineInv, In
  <2>3. /\ line' \in [Servers -> Seq(Reqs)] /\ line'[s] = Append(line[s], r)
        /\ \A t \in Servers \ {s} : line'[t] = line[t]
    BY <1>2, <1>7, <1>9, <2>1
  <2>4. \A i, j \in 1 .. Len(line'[s]) : line'[s][i] = line'[s][j] => i = j
    <3>1. Len(line[s]) \in Nat /\ \A i \in 1 .. Len(line[s]) : line[s][i] \in ToSet(line[s])
      BY <1>7, Elements
    <3>2. \A i \in 1 .. Len(line'[s]) : line'[s][i] = IF i = Len(line[s]) + 1 THEN r ELSE line[s][i]
      BY <1>7, <2>1, <2>3, <3>1
    <3>3. \A i, j \in 1 .. Len(line[s]) : line[s][i] = line[s][j] => i = j
      BY DEF IInv, LineInv
    <3> QED
      BY <2>1, <2>2, <2>3, <3>1, <3>2, <3>3
  <2>5. \A t \in Servers : \A q \in Reqs : q \in ToSet(line'[t]) <=> In(q, {"queued"})' /\ ServerOf(q)' = t
    <3>1. \A t \in Servers : \A q \in Reqs : q \in ToSet(line[t]) <=> In(q, {"queued"}) /\ ServerOf(q) = t
      BY DEF IInv, LineInv
    <3>2. \A q \in Reqs : ServerOf(q)' = ServerOf(q)
      BY <1>4
    <3>3. ASSUME NEW q \in Reqs
          PROVE  q \in ToSet(line'[s]) <=> In(q, {"queued"})' /\ ServerOf(q)' = s
      BY <1>0, <1>6, <1>9, <2>1, <2>3, <3>1, <3>2
    <3>4. ASSUME NEW t \in Servers \ {s}, NEW q \in Reqs
          PROVE  q \in ToSet(line'[t]) <=> In(q, {"queued"})' /\ ServerOf(q)' = t
      BY <1>0, <1>6, <1>9, <2>3, <3>1, <3>2
    <3> QED
      BY <3>3, <3>4
  <2>6. LineInv'
    BY <1>2, <1>7, <1>9, <2>3, <2>4, <2>5 DEF LineInv, IInv
  <2>7. \A t \in Servers : Holders(t)' = Holders(t)
    BY <1>1, <1>3, <1>4, <1>9 DEF Holders, In, Holding, StreamStates
  <2>8. SlotsAreExact'
    BY <1>2, <1>9, <2>7 DEF SlotsAreExact, IInv, CountInv
  <2>9. IInv'
    BY <1>1, <1>3, <1>5, <2>6, <2>8 DEF IInv, CountInv
  <2>10. \A t \in Servers \ {s} : Untouched(t)
    BY <2>3, <2>7 DEF Untouched
  <2>11. Entered(s, r)
    BY <1>2, <1>9, <1>10, <2>3, <2>7 DEF Entered
  <2> QED
    BY <2>9, <2>10, <2>11
<1> QED
  BY <1>8, <1>9

LEMMA QuitKeeps ==
    ASSUME IInv, NEW r \in Reqs, Quit(r)
    PROVE  /\ IInv'
           /\ \A s \in Servers : Untouched(s) \/ GaveUp(s, r)
<1>0. PICK s \in Servers : s = ServerOf(r)
  BY ModelOfCounted DEF IInv, Quit, In, Counted
<1>1. /\ call[r].pc = "queued" /\ UNCHANGED <<inflight, free, health>>
      /\ line' = [line EXCEPT ![s] = RemoveFirst(line[s], r)]
  BY <1>0 DEF Quit, In
<1>2. /\ CallInv' /\ call'[r].pc = "refused" /\ call'[r].model = call[r].model
      /\ \A q \in Reqs \ {r} : call'[q] = call[q]
  BY GoKeeps DEF Quit, IInv
<1>3. \A q \in Reqs : /\ In(q, Counted) <=> In(q, Counted)'
                      /\ call'[q].model = call[q].model /\ ServerOf(q)' = ServerOf(q)
  BY <1>1, <1>2 DEF In, Counted, Holding, ServerOf
<1>4. inflight' \in [Models -> Nat] /\ InflightIsExact'
  BY <1>1, <1>3, SameInflight DEF IInv
<1>5. \A q \in Reqs : In(q, {"queued"})' <=> In(q, {"queued"}) /\ q # r
  BY <1>1, <1>2 DEF In
<1>6. /\ line \in [Servers -> Seq(Reqs)] /\ r \in ToSet(line[s])
      /\ \A i, j \in 1 .. Len(line[s]) : line[s][i] = line[s][j] => i = j
  BY <1>0, <1>1 DEF IInv, LineInv, In
<1> DEFINE t == RemoveFirst(line[s], r)
<1>7. /\ t \in Seq(Reqs) /\ \A i, j \in 1 .. Len(t) : t[i] = t[j] => i = j
      /\ ToSet(t) = ToSet(line[s]) \ {r}
  BY <1>6, Removed
<1>8. /\ line' \in [Servers -> Seq(Reqs)] /\ line'[s] = t
      /\ \A u \in Servers \ {s} : line'[u] = line[u]
  BY <1>1, <1>6, <1>7
<1> HIDE DEF t
<1>9. \A u \in Servers : \A q \in Reqs : q \in ToSet(line'[u]) <=> In(q, {"queued"})' /\ ServerOf(q)' = u
  BY <1>0, <1>3, <1>5, <1>7, <1>8 DEF IInv, LineInv
<1>10. line[s] # <<>>
  BY <1>6, Elements
<1>11. LineInv'
  BY <1>1, <1>7, <1>8, <1>9, <1>10 DEF LineInv, IInv
<1>12. \A u \in Servers : Holders(u)' = Holders(u)
  BY <1>1, <1>2, <1>3 DEF Holders, In, Holding, StreamStates
<1>13. SlotsAreExact'
  BY <1>1, <1>12 DEF SlotsAreExact, IInv, CountInv
<1>14. IInv'
  BY <1>1, <1>2, <1>4, <1>11, <1>13 DEF IInv, CountInv
<1>15. \A u \in Servers \ {s} : Untouched(u)
  BY <1>8, <1>12 DEF Untouched
<1>16. GaveUp(s, r)
  BY <1>6, <1>8, <1>12 DEF GaveUp, t
<1> QED
  BY <1>14, <1>15, <1>16

\* The slot of a server without a line is free again.
LEMMA ReleaseFreeKeeps ==
    ASSUME IInv, NEW r \in Reqs, NEW s \in Servers, s = ServerOf(r), In(r, {"releasing"}),
           line[s] = <<>>, Go(r, "leaving"), line' = line, UNCHANGED <<inflight, health>>,
           free' = [free EXCEPT ![s] = IF Cap[s] = 0 THEN free[s] ELSE free[s] + 1]
    PROVE  /\ IInv'
           /\ \A u \in Servers : Untouched(u) \/ Finished(u, r)
<1>1. /\ CallInv' /\ call'[r].pc = "leaving" /\ call'[r].model = call[r].model
      /\ \A q \in Reqs \ {r} : call'[q] = call[q]
  BY GoKeeps DEF IInv
<1>2. call[r].pc = "releasing"
  BY DEF In
<1>3. \A q \in Reqs : /\ In(q, Counted) <=> In(q, Counted)'
                      /\ call'[q].model = call[q].model /\ ServerOf(q)' = ServerOf(q)
                      /\ In(q, {"queued"})' <=> In(q, {"queued"})
  BY <1>1, <1>2 DEF In, Counted, Holding, ServerOf
<1>4. inflight' \in [Models -> Nat] /\ InflightIsExact'
  BY <1>3, SameInflight DEF IInv
<1>5. free \in [Servers -> Nat] /\ Cap \in [Servers -> Nat]
  BY CapAssumption DEF IInv, LineInv
<1>6. /\ free' \in [Servers -> Nat] /\ \A t \in Servers \ {s} : free'[t] = free[t]
      /\ Cap[s] > 0 => free'[s] = free[s] + 1
  BY <1>5
<1>7. LineInv'
  <2>1. \A t \in Servers : line[t] # <<>> => Cap[t] > 0 /\ free'[t] = 0
    BY <1>6 DEF IInv, LineInv
  <2> QED
    BY <1>3, <1>6, <2>1 DEF IInv, LineInv
<1>8. \A t \in Servers \ {s} : Holders(t)' = Holders(t)
  BY <1>1, <1>3 DEF Holders, In
<1>9. Holders(s)' = Holders(s) \ {r} /\ r \in Holders(s)
  BY <1>1, <1>2, <1>3 DEF Holders, In, Holding, StreamStates
<1>10. Cardinality(Holders(s)') = Cardinality(Holders(s)) - 1 /\ Cardinality(Holders(s)) \in Nat
  BY <1>9, Counts, OneLess
<1>11. SlotsAreExact'
  <2>1. SlotsAreExact
    BY DEF IInv, CountInv
  <2>2. \A t \in Servers \ {s} : Cap[t] > 0 => free'[t] + Cardinality(Holders(t)') = Cap[t]
    BY <1>6, <1>8, <2>1 DEF SlotsAreExact
  <2>3. Cap[s] > 0 => free'[s] + Cardinality(Holders(s)') = Cap[s]
    BY <1>5, <1>6, <1>10, <2>1 DEF SlotsAreExact
  <2> QED
    BY <2>2, <2>3 DEF SlotsAreExact
<1>12. IInv'
  BY <1>1, <1>4, <1>7, <1>11 DEF IInv, CountInv
<1>13. Finished(s, r) /\ \A u \in Servers \ {s} : Untouched(u)
  BY <1>8, <1>9 DEF Finished, Untouched
<1> QED
  BY <1>12, <1>13

\* The slot goes from one holder to another, the head of the line.
LEMMA HandOver ==
    ASSUME IInv, NEW r \in Reqs, NEW s \in Servers, s = ServerOf(r), In(r, {"releasing"}),
           line[s] # <<>>,
           call' = [call EXCEPT ![r].pc = "leaving", ![Head(line[s])].pc = "granted"]
    PROVE  /\ Head(line[s]) \in Reqs \ {r}
           /\ Head(line[s]) \in ToSet(line[s])
           /\ call[Head(line[s])].pc = "queued" /\ ServerOf(Head(line[s])) = s
           /\ CallInv'
           /\ \A q \in Reqs : call'[q].model = call[q].model
           /\ call'[r].pc = "leaving" /\ call'[Head(line[s])].pc = "granted"
           /\ \A q \in Reqs \ {r, Head(line[s])} : call'[q] = call[q]
<1>1. /\ line[s] \in Seq(Reqs)
      /\ \A i, j \in 1 .. Len(line[s]) : line[s][i] = line[s][j] => i = j
  BY DEF IInv, LineInv
<1>2. PICK h \in Reqs : h = Head(line[s]) /\ h \in ToSet(line[s])
  BY <1>1, HeadTaken
<1>3. call[h].pc = "queued" /\ ServerOf(h) = s /\ call[r].pc = "releasing" /\ h # r
  BY <1>2 DEF IInv, LineInv, In
<1> DEFINE c == call[r]  d == [call[r] EXCEPT !.pc = "leaving"]
           g == call[h]  e == [call[h] EXCEPT !.pc = "granted"]
<1>4. Proper(c) /\ Proper(g) /\ call = [q \in Reqs |-> call[q]]
  BY DEF IInv, CallInv
<1>5. "leaving" \in Counted /\ "granted" \in Counted
  BY DEF Counted, Holding
<1>6. /\ d \in Calls /\ d.pc = "leaving" /\ d.model = c.model /\ d.lines = c.lines
      /\ d.sent = c.sent /\ d.gone = c.gone
  BY <1>4, <1>5 DEF Proper, Calls
<1>7. /\ e \in Calls /\ e.pc = "granted" /\ e.model = g.model /\ e.lines = g.lines
      /\ e.sent = g.sent
  BY <1>4, <1>5 DEF Proper, Calls
<1>8. call' = [call EXCEPT ![r] = d, ![h] = e]
  BY <1>2, <1>3, <1>4
<1>9. Proper(d)
  <2>1. Told(c) /\ c.model \in Models
    BY <1>3, <1>4 DEF Proper, Counted, Holding
  <2>2. Told(d)
    BY <1>6, <2>1 DEF Told
  <2> HIDE DEF d
  <2> QED
    BY <1>6, <2>1, <2>2 DEF Proper, Open, StreamStates
<1>10. Proper(e)
  <2>1. g.model \in Models /\ g.lines = <<>> /\ g.sent = 0
    BY <1>3, <1>4 DEF Proper, Counted, Holding, Open, StreamStates
  <2> HIDE DEF e
  <2> QED
    BY <1>7, <2>1 DEF Proper, Open, StreamStates
<1> HIDE DEF d, e
<1>11. /\ call' = [q \in Reqs |-> call'[q]] /\ call'[r] = d /\ call'[h] = e
       /\ \A q \in Reqs \ {r, h} : call'[q] = call[q]
  BY <1>3, <1>4, <1>8
<1>12. CallInv'
  BY <1>9, <1>10, <1>11 DEF CallInv, IInv
<1> QED
  BY <1>2, <1>3, <1>6, <1>7, <1>11, <1>12

LEMMA ReleaseHandKeeps ==
    ASSUME IInv, NEW r \in Reqs, NEW s \in Servers, s = ServerOf(r), In(r, {"releasing"}),
           line[s] # <<>>,
           call' = [call EXCEPT ![r].pc = "leaving", ![Head(line[s])].pc = "granted"],
           line' = [line EXCEPT ![s] = Tail(line[s])], UNCHANGED <<inflight, free, health>>
    PROVE  /\ IInv'
           /\ \A u \in Servers : Untouched(u) \/ Finished(u, r)
<1>1. /\ line \in [Servers -> Seq(Reqs)] /\ line[s] \in Seq(Reqs)
      /\ \A i, j \in 1 .. Len(line[s]) : line[s][i] = line[s][j] => i = j
  BY DEF IInv, LineInv
<1>2. PICK h \in Reqs \ {r} : h = Head(line[s]) /\ h \in ToSet(line[s])
  BY HandOver
<1>3. /\ call[h].pc = "queued" /\ ServerOf(h) = s /\ CallInv'
      /\ call'[r].pc = "leaving" /\ call'[h].pc = "granted"
      /\ \A q \in Reqs \ {r, h} : call'[q] = call[q]
      /\ \A q \in Reqs : call'[q].model = call[q].model
  BY <1>2, HandOver
<1>4. call[r].pc = "releasing"
  BY DEF In
<1>5. \A q \in Reqs : ServerOf(q)' = ServerOf(q)
  BY <1>3 DEF ServerOf
<1>6. \A q \in Reqs : /\ In(q, Counted) <=> In(q, Counted)'
                      /\ In(q, {"queued"})' <=> In(q, {"queued"}) /\ q # h
  BY <1>3, <1>4 DEF In, Counted, Holding
<1>7. inflight' \in [Models -> Nat] /\ InflightIsExact'
  BY <1>3, <1>6, SameInflight DEF IInv
<1> DEFINE t == Tail(line[s])
<1>8. /\ t \in Seq(Reqs) /\ \A i, j \in 1 .. Len(t) : t[i] = t[j] => i = j
      /\ ToSet(t) = ToSet(line[s]) \ {h}
  <2> DEFINE q == line[s]
  <2>1. q \in Seq(Reqs) /\ q # <<>> /\ \A i, j \in 1 .. Len(q) : q[i] = q[j] => i = j
    BY <1>1
  <2> HIDE DEF q
  <2>2. /\ Tail(q) \in Seq(Reqs)
        /\ \A i, j \in 1 .. Len(Tail(q)) : Tail(q)[i] = Tail(q)[j] => i = j
        /\ ToSet(Tail(q)) = ToSet(q) \ {Head(q)}
    BY <2>1, HeadTaken
  <2> QED
    BY <2>2, <1>2 DEF q
<1>9. /\ line' \in [Servers -> Seq(Reqs)] /\ line'[s] = t
      /\ \A u \in Servers \ {s} : line'[u] = line[u]
  BY <1>1, <1>8
<1> HIDE DEF t
<1>10. \A u \in Servers : \A q \in Reqs : q \in ToSet(line[u]) <=> In(q, {"queued"}) /\ ServerOf(q) = u
  BY DEF IInv, LineInv
<1>11. ASSUME NEW q \in Reqs
       PROVE  q \in ToSet(line'[s]) <=> In(q, {"queued"})' /\ ServerOf(q)' = s
  <2>1. q \in ToSet(line'[s]) <=> q \in ToSet(line[s]) /\ q # h
    BY <1>8, <1>9
  <2>2. In(q, {"queued"})' <=> In(q, {"queued"}) /\ q # h
    BY <1>6
  <2> QED
    BY <2>1, <2>2, <1>5, <1>10
<1>12. ASSUME NEW u \in Servers \ {s}, NEW q \in Reqs
       PROVE  q \in ToSet(line'[u]) <=> In(q, {"queued"})' /\ ServerOf(q)' = u
  BY <1>3, <1>5, <1>6, <1>9, <1>10
<1>13. LineInv'
  BY <1>8, <1>9, <1>11, <1>12 DEF LineInv, IInv
<1>14. \A u \in Servers \ {s} : Holders(u)' = Holders(u)
  BY <1>3, <1>5 DEF Holders, In
<1> DEFINE K == Holders(s) \ {r}
<1>15. K \subseteq Reqs /\ r \in Holders(s) /\ r \notin K /\ h \notin K
  BY <1>3, <1>4 DEF Holders, In, Holding, StreamStates
<1>16. Holders(s)' = K \cup {h}
  BY <1>3, <1>4, <1>5 DEF Holders, In, Holding, StreamStates
<1> HIDE DEF K
<1>17. Cardinality(K) = Cardinality(Holders(s)) - 1 /\ Cardinality(Holders(s)) \in Nat
  BY <1>15, Counts, OneLess DEF K
<1>18. Cardinality(Holders(s)') = Cardinality(Holders(s))
  <2>1. Cardinality(Holders(s)') = Cardinality(K) + 1
    BY <1>15, <1>16, OneMore
  <2> QED
    BY <1>17, <2>1
<1>19. SlotsAreExact'
  BY <1>14, <1>18 DEF SlotsAreExact, IInv, CountInv
<1>20. IInv'
  BY <1>3, <1>7, <1>13, <1>19 DEF IInv, CountInv
<1>21. \A u \in Servers \ {s} : Untouched(u)
  BY <1>9, <1>14 DEF Untouched
<1>22. Finished(s, r)
  BY <1>2, <1>9, <1>15, <1>16 DEF Finished, K, t
<1> QED
  BY <1>20, <1>21, <1>22

LEMMA ReleaseKeeps ==
    ASSUME IInv, NEW r \in Reqs, Release(r)
    PROVE  /\ IInv'
           /\ \A u \in Servers : Untouched(u) \/ Finished(u, r)
<1>1. PICK s \in Servers : s = ServerOf(r)
  BY ModelOfCounted DEF IInv, Release, In, Counted, Holding
<1> QED
  BY <1>1, ReleaseFreeKeeps, ReleaseHandKeeps DEF Release

-----------------------------------------------------------------------------
(* Theorems *)

LEMMA InitHolds == Init => IInv
<1> SUFFICES ASSUME Init PROVE IInv
  OBVIOUS
<1> DEFINE c == [pc |-> "idle", model |-> NoModel, gone |-> FALSE, sent |-> 0, lines |-> <<>>,
                 late |-> FALSE, silent |-> FALSE, closed |-> FALSE, idle |-> FALSE,
                 ending |-> "none"]
<1>1. c \in Calls /\ Proper(c)
  <2>1. c \in Calls
    BY DEF Calls
  <2> QED
    BY <2>1 DEF Proper, Counted, Holding, StreamStates, Open
<1>2. call = [r \in Reqs |-> c]
  BY DEF Init
<1> HIDE DEF c
<1>3. CallInv
  BY <1>1, <1>2 DEF CallInv
<1>4. \A r \in Reqs : call[r].pc = "idle"
  BY <1>2 DEF c
<1>5. LineInv
  <2>1. \A s \in Servers : line[s] = <<>> /\ line[s] \in Seq(Reqs)
    BY DEF Init
  <2>2. \A s \in Servers : ToSet(line[s]) = {} /\ Len(line[s]) = 0
    BY <2>1, Elements
  <2> QED
    BY <1>4, <2>1, <2>2, CapAssumption DEF Init, LineInv, In
<1>6. CountInv
  <2>1. \A m \in Models : InflightOf(m) = {}
    BY <1>4 DEF InflightOf, In, Counted, Holding, StreamStates
  <2>2. \A s \in Servers : Holders(s) = {}
    BY <1>4 DEF Holders, In, Holding, StreamStates
  <2>3. Cardinality({}) = 0
    BY FS_EmptySet
  <2>4. InflightIsExact
    BY <2>1, <2>3 DEF InflightIsExact, InflightOf, Init
  <2>5. SlotsAreExact
    <3>1. \A s \in Servers : Cap[s] \in Nat /\ free[s] = Cap[s] /\ Cardinality(Holders(s)) = 0
      BY <2>2, <2>3, CapAssumption DEF Init
    <3> QED
      BY <3>1 DEF SlotsAreExact
  <2> QED
    BY <2>4, <2>5 DEF CountInv, Init
<1>7. health \in [Servers -> Health]
  BY DEF Init, Health
<1> QED
  BY <1>3, <1>5, <1>6, <1>7 DEF IInv

LEMMA StepHolds == IInv /\ [Next]_vars => IInv'
<1> SUFFICES ASSUME IInv, [Next]_vars PROVE IInv'
  OBVIOUS
<1>1. ASSUME NEW r \in Reqs, Admit(r) \/ Acquire(r) \/ Quit(r) \/ Release(r) \/ Leave(r)
      PROVE  IInv'
  BY <1>1, AdmitKeeps, AcquireKeeps, QuitKeeps, ReleaseKeeps, LeaveKeeps
<1>2. CASE ~ \E r \in Reqs : Admit(r) \/ Acquire(r) \/ Quit(r) \/ Release(r) \/ Leave(r)
  <2>1. CallInv' /\ Quiet
    BY <1>2, QuietSteps DEF IInv
  <2>2. LineInv' /\ CountInv'
    BY <2>1, QuietKeeps DEF IInv
  <2>3. health' \in [Servers -> Health]
    <3>1. CASE \E s \in Servers : Probe(s)
      BY <3>1 DEF Probe, IInv
    <3>2. CASE health' = health
      BY <3>2 DEF IInv
    <3>3. ASSUME NEW r \in Reqs, FrontDoor(r) \/ Receive(r) \/ Refuse(r) \/ CheckUp(r)
          PROVE  health' = health
      BY <3>3 DEF FrontDoor, RefuseBody, LoseBody, ResolveAlias, ResolveModel, Receive, Refuse,
                  CheckUp
    <3>4. ASSUME NEW r \in Reqs, Exchange(r) \/ Pump(r)
          PROVE  health' = health
      BY <3>4 DEF Exchange, Aim, Answer, AskFails, BodyRead, BodyFails, Pump, StreamTop,
                  StreamLine, StreamStops, StreamWrite, StreamEnds
    <3>5. ASSUME NEW r \in Reqs,
                 \/ WatchGone(r) \/ WatchIdle(r)
                 \/ ClientLeaves(r) \/ DeadlinePasses(r) \/ UpstreamTurns(r)
          PROVE  health' = health
      BY <3>5 DEF WatchGone, WatchIdle, ClientLeaves, DeadlinePasses, UpstreamTurns
    <3>6. UNCHANGED vars => health' = health
      BY DEF vars
    <3> QED
      BY <1>2, <3>1, <3>2, <3>3, <3>4, <3>5, <3>6 DEF Next, Enter, Wait, Depart
  <2> QED
    BY <2>1, <2>2, <2>3 DEF IInv
<1> QED
  BY <1>1, <1>2

\* The invariant holds in every reachable state: what a call is like at each point of its handler,
\* who stands in which line, and that both counts agree with the handlers.
THEOREM Invariant == Spec => []IInv
BY InitHolds, StepHolds, PTL DEF Spec

\* Every variable stays in the range the code gives it, whatever the requests do.
THEOREM TypeCorrect == Spec => []TypeOK
<1>1. IInv => TypeOK
  BY DEF IInv, CallInv, Proper, LineInv, CountInv, TypeOK
<1> QED
  BY <1>1, Invariant, PTL

\* The counts the balancer compares are exact for any number of requests, models and servers: no
\* way out of the handler leaves a request counted, or takes it out twice.
THEOREM InflightCounts == Spec => []InflightIsExact
<1>1. IInv => InflightIsExact
  BY DEF IInv, CountInv
<1> QED
  BY <1>1, Invariant, PTL

\* No slot of a capped server is lost or made, for any caps: each is free or with a request that
\* gives it back.
THEOREM SlotCounts == Spec => []SlotsAreExact
<1>1. IInv => SlotsAreExact
  BY DEF IInv, CountInv
<1> QED
  BY <1>1, Invariant, PTL

\* A request logs exactly one terminal line however it ends, unless its client leaves before its
\* body is read.
THEOREM OneLineEach == Spec => []OneTerminalLine
<1>1. ASSUME CallInv, NEW r \in Reqs
      PROVE  LET n == Len(call[r].lines) IN
             /\ In(r, {"releasing", "leaving"}) => n = 1
             /\ In(r, {"done"}) => n = 1 \/ (n = 0 /\ call[r].gone)
             /\ ~In(r, {"releasing", "leaving", "done"}) => n = 0
  <2> DEFINE c == call[r]
  <2>1. Proper(c)
    BY <1>1 DEF CallInv
  <2>2. Told(c) => Len(c.lines) = 1
    BY DEF Told
  <2>3. c.lines = <<>> => Len(c.lines) = 0
    OBVIOUS
  <2>4. c.pc \notin {"releasing", "leaving", "done"} => c.pc \in Open
    BY <2>1 DEF Proper, Calls, Counted, Holding, Open
  <2> QED
    BY <2>1, <2>2, <2>3, <2>4 DEF Proper, In
<1>2. IInv => OneTerminalLine
  BY <1>1 DEF IInv, OneTerminalLine
<1> QED
  BY <1>2, Invariant, PTL

\* The terminal line of a request has the status its client got, also when a stream fails after
\* its first line was sent, unless the client has left.
THEOREM LinesTellTheClient == Spec => []LineTellsTheClient
<1>1. ASSUME CallInv, NEW r \in Reqs, NEW i \in DOMAIN call[r].lines
      PROVE  \/ call[r].lines[i].http = call[r].sent
             \/ call[r].gone /\ call[r].lines[i] = Cancelled
  <2> DEFINE c == call[r]
  <2>1. Proper(c) /\ i \in DOMAIN c.lines
    BY <1>1 DEF CallInv
  <2>2. c.lines # <<>>
    BY <2>1
  <2>3. Told(c)
    BY <2>1, <2>2 DEF Proper, Calls, Counted, Holding, Open
  <2>4. PICK l \in Lines : c.lines = <<l>> /\ (l.http = c.sent \/ (c.gone /\ l = Cancelled))
    BY <2>3 DEF Told
  <2>5. i = 1 /\ c.lines[i] = l
    BY <2>1, <2>4
  <2> QED
    BY <2>4, <2>5
<1>2. IInv => LineTellsTheClient
  BY <1>1 DEF IInv, LineTellsTheClient
<1> QED
  BY <1>2, Invariant, PTL

-----------------------------------------------------------------------------
(* The slots of a server, used as a SlotLine promises *)

\* With no slot lost or made, those in circulation are always as many as the cap.
SlotsFit ==
    /\ InCirculation = Cap[Served]
    /\ Cap[Served] \in Nat /\ free[Served] \in Nat
    /\ Cardinality(Holders(Served)) \in Nat
    /\ Cap[Served] > 0 => free[Served] + Cardinality(Holders(Served)) = Cap[Served]
    /\ line[Served] # <<>> => Cap[Served] > 0 /\ free[Served] = 0

LEMMA SlotsInCirculation == IInv => SlotsFit
<1> SUFFICES ASSUME IInv
             PROVE  /\ Cap[Served] \in Nat /\ free[Served] \in Nat
                    /\ Cardinality(Holders(Served)) \in Nat
                    /\ Cap[Served] > 0 => free[Served] + Cardinality(Holders(Served)) = Cap[Served]
                    /\ line[Served] # <<>> => Cap[Served] > 0 /\ free[Served] = 0
  BY DEF SlotsFit, InCirculation
<1>1. Cap[Served] \in Nat /\ free[Served] \in Nat /\ Cardinality(Holders(Served)) \in Nat
  BY CapAssumption, ServedAssumption, Counts DEF IInv, LineInv
<1>2. Cap[Served] > 0 => free[Served] + Cardinality(Holders(Served)) = Cap[Served]
  BY ServedAssumption DEF IInv, CountInv, SlotsAreExact
<1>3. line[Served] # <<>> => Cap[Served] > 0 /\ free[Served] = 0
  BY ServedAssumption DEF IInv, LineInv
<1> QED
  BY <1>1, <1>2, <1>3

LEMMA SlotsStayInCirculation == IInv' => SlotsFit'
BY SlotsInCirculation, PTL

LEMMA LineInit == Init => Slots!Init
<1> SUFFICES ASSUME Init PROVE Slots!Init
  OBVIOUS
<1>1. IInv
  BY InitHolds
<1>2. Holders(Served) = {}
  BY ServedAssumption DEF Init, Holders, In, Holding, StreamStates
<1>3. line[Served] = <<>>
  BY ServedAssumption DEF Init
<1> QED
  BY <1>1, <1>2, <1>3, SlotsInCirculation DEF SlotsFit, Slots!Init

LEMMA MinOfTwo ==
    ASSUME NEW a \in Nat, NEW b \in Nat
    PROVE  Min({a, b}) = IF a <= b THEN a ELSE b
BY DEF Min

\* The operators of the library are the same ones in both modules.
LEMMA SameOperators ==
    /\ \A T : Slots!Cardinality(T) = Cardinality(T)
    /\ \A T : Slots!Min(T) = Min(T)
    /\ \A q : Slots!ToSet(q) = ToSet(q)
    /\ \A q, e : Slots!RemoveFirst(q, e) = RemoveFirst(q, e)
<1>1. \A T : Slots!Cardinality(T) = Cardinality(T)
  BY DEF Slots!Cardinality, Cardinality
<1>2. \A T : Slots!Min(T) = Min(T)
  BY DEF Slots!Min, Min
<1>3. \A q : Slots!ToSet(q) = ToSet(q)
  BY DEF Slots!ToSet, ToSet
<1>4. \A q, e : Slots!RemoveFirst(q, e) = RemoveFirst(q, e)
  BY <1>2 DEF Slots!RemoveFirst, RemoveFirst, Slots!RemoveAt, RemoveAt, Slots!SelectInSeq, SelectInSeq
<1> QED
  BY <1>1, <1>2, <1>3, <1>4

LEMMA LineStep == IInv /\ IInv' /\ [Next]_vars => [Slots!Next]_(Slots!vars)
<1> SUFFICES ASSUME IInv, IInv', [Next]_vars PROVE [Slots!Next]_(Slots!vars)
  OBVIOUS
<1>1. SlotsFit /\ SlotsFit'
  BY SlotsInCirculation, SlotsStayInCirculation
<1>2. CASE Untouched(Served)
  BY <1>1, <1>2 DEF SlotsFit, Untouched, Slots!vars
<1>3. ASSUME NEW r \in Reqs, Entered(Served, r)
      PROVE  Slots!Enter(r)
  BY <1>1, <1>3, SameOperators DEF SlotsFit, Entered, Slots!Enter, Slots!InLine, Slots!Room
<1>4. ASSUME NEW r \in Reqs, GaveUp(Served, r)
      PROVE  Slots!Quit(r)
  BY <1>1, <1>4, SameOperators DEF SlotsFit, GaveUp, Slots!Quit, Slots!InLine
<1>5. ASSUME NEW r \in Reqs, Finished(Served, r)
      PROVE  Slots!Finish(r)
  <2> DEFINE C == Cap[Served]  n == Cardinality(Holders(Served)')
  <2>1. C \in Nat /\ n \in Nat /\ InCirculation = C /\ InCirculation' = C
    BY <1>1 DEF SlotsFit
  <2>2. Slots!Min({InCirculation, C + Slots!Cardinality(Holders(Served)')}) = Min({C, C + n})
    BY <2>1, SameOperators
  <2>3. Min({C, C + n}) = C
    BY <2>1, MinOfTwo
  <2>4. (IF C = 0 THEN 0
         ELSE Slots!Min({InCirculation, C + Slots!Cardinality(Holders(Served)')})) = InCirculation'
    BY <2>1, <2>2, <2>3
  <2> QED
    BY <1>5, <2>1, <2>4 DEF Finished, Slots!Finish
<1>6. ASSUME NEW r \in Reqs, Admit(r) \/ Acquire(r) \/ Quit(r) \/ Release(r) \/ Leave(r)
      PROVE  Untouched(Served) \/ Entered(Served, r) \/ GaveUp(Served, r) \/ Finished(Served, r)
  BY <1>6, ServedAssumption, AdmitKeeps, AcquireKeeps, QuitKeeps, ReleaseKeeps, LeaveKeeps
<1>7. ASSUME ~ \E r \in Reqs : Admit(r) \/ Acquire(r) \/ Quit(r) \/ Release(r) \/ Leave(r)
      PROVE  Untouched(Served)
  BY <1>7, ServedAssumption, QuietSteps, QuietSets DEF IInv, Quiet, slotVars, Untouched
<1> QED
  BY <1>2, <1>3, <1>4, <1>5, <1>6, <1>7 DEF Slots!Next

\* Whatever its requests do and however they end, each server's slots are handed out in order of
\* arrival, none lost and none made: Proxy implements SlotLine for any server.
THEOREM LinesAreUsed == Spec => UsesLines
BY Invariant, LineInit, LineStep, PTL DEF Spec, UsesLines, Slots!Spec
==============================================================================
