---------------------------- MODULE AccountsProofs ----------------------------
(***************************************************************************)
(* What holds of Accounts for every set of requests, answers, prices, rows *)
(* and reports: the client sees the names it asked for, a row tells what   *)
(* the upstream told, retention deletes nothing but old rows, and a report *)
(* that no row came or went under adds up to the rows it selects.          *)
(***************************************************************************)
EXTENDS Accounts, FiniteSetTheorems, SequenceTheorems, WellFoundedInduction, TLAPS

-----------------------------------------------------------------------------
(* Finite sets and sums *)

\* A set of subsets that holds the empty one, and each one more element of what
\* it holds, holds every finite set.
LEMMA SetInduction ==
    ASSUME NEW S, IsFiniteSet(S), NEW G, {} \in G,
           \A T \in SUBSET S : \A x \in S \ T : T \in G => T \cup {x} \in G
    PROVE  S \in G
<1> DEFINE Bad == {T \in SUBSET S : T \notin G}
           R == StrictSubsetOrdering(S)
<1>1. SUFFICES ASSUME S \notin G PROVE FALSE
  OBVIOUS
<1>2. Bad \subseteq FiniteSubsetsOf(S) /\ Bad # {}
  BY <1>1, FS_Subset DEF FiniteSubsetsOf
<1>3. \A T, U \in SUBSET S : T \subseteq U /\ T # U => <<T, U>> \in R
  BY DEF StrictSubsetOrdering
<1>4. IsWellFoundedOn(R, FiniteSubsetsOf(S))
  BY FS_StrictSubsetOrderingWellFounded
<1> HIDE DEF R
<1>5. PICK M \in Bad : \A T \in Bad : ~(<<T, M>> \in R)
  <2> HIDE DEF Bad
  <2> QED
    BY <1>2, <1>4, WFMin
<1>6. PICK x \in M : TRUE
  OBVIOUS
<1>7. M \ {x} \notin Bad
  BY <1>3, <1>5, <1>6
<1>8. (M \ {x}) \cup {x} = M /\ x \in S \ (M \ {x})
  BY <1>6
<1> QED
  BY <1>7, <1>8

LEMMA Strips ==
    ASSUME NEW x, NEW n \in Nat
    PROVE  IsFiniteSet({x} \X (1..n)) /\ Cardinality({x} \X (1..n)) = n
<1>1. IsFiniteSet({x}) /\ Cardinality({x}) = 1
  BY FS_Singleton
<1>2. IsFiniteSet(1..n) /\ Cardinality(1..n) = n
  BY FS_Interval
<1> DEFINE I == 1..n
<1> HIDE DEF I
<1>3. IsFiniteSet({x} \X I) /\ Cardinality({x} \X I) = Cardinality({x}) * Cardinality(I)
  BY <1>1, <1>2, FS_Product DEF I
<1> QED
  BY <1>1, <1>2, <1>3 DEF I

\* The pairs Sum counts.
Pairs(f) == UNION {{x} \X (1..f[x]) : x \in DOMAIN f}

LEMMA DisjointUnion ==
    ASSUME NEW S, IsFiniteSet(S), NEW T, IsFiniteSet(T), S \cap T = {}
    PROVE  IsFiniteSet(S \cup T) /\ Cardinality(S \cup T) = Cardinality(S) + Cardinality(T)
<1>1. /\ IsFiniteSet(S \cup T)
      /\ Cardinality(S \cup T) = Cardinality(S) + Cardinality(T) - Cardinality(S \cap T)
  BY FS_Union
<1>2. Cardinality(S \cap T) = 0
  BY FS_EmptySet
<1>3. Cardinality(S) \in Nat /\ Cardinality(T) \in Nat
  BY FS_CardinalityType
<1> QED
  BY <1>1, <1>2, <1>3

LEMMA PairsAreFinite ==
    ASSUME NEW S, IsFiniteSet(S), NEW f \in [S -> Nat]
    PROVE  IsFiniteSet(Pairs(f))
<1> DEFINE Of(T) == UNION {{x} \X (1..f[x]) : x \in T}
           G == {T \in SUBSET S : IsFiniteSet(Of(T))}
<1>1. {} \in G
  <2>1. Of({}) = {}
    OBVIOUS
  <2> QED
    BY <2>1, FS_EmptySet
<1>2. ASSUME NEW T \in SUBSET S, NEW x \in S \ T, T \in G PROVE T \cup {x} \in G
  <2> DEFINE A == Of(T)
             B == {x} \X (1..f[x])
  <2>1. Of(T \cup {x}) = A \cup B
    OBVIOUS
  <2>2. IsFiniteSet(B)
    BY Strips
  <2>3. IsFiniteSet(A)
    BY <1>2
  <2> HIDE DEF A, B
  <2>4. IsFiniteSet(A \cup B)
    BY <2>2, <2>3, FS_Union
  <2> QED
    BY <2>1, <2>4
<1> HIDE DEF G
<1>3. S \in G
  BY <1>1, <1>2, SetInduction
<1> QED
  BY <1>3 DEF G, Pairs

LEMMA SumIsNatural ==
    ASSUME NEW S, IsFiniteSet(S), NEW f \in [S -> Nat]
    PROVE  Sum(f) \in Nat
BY PairsAreFinite, FS_CardinalityType DEF Sum, Pairs

LEMMA SumOfNothing == ASSUME NEW f, DOMAIN f = {} PROVE Sum(f) = 0
<1>1. UNION {{x} \X (1..f[x]) : x \in DOMAIN f} = {}
  OBVIOUS
<1> QED
  BY <1>1, FS_EmptySet DEF Sum

\* A sum is that of two parts of its domain.
LEMMA SumOfParts ==
    ASSUME NEW S, IsFiniteSet(S), NEW T, IsFiniteSet(T), S \cap T = {},
           NEW f \in [S \cup T -> Nat], NEW g \in [S -> Nat], NEW h \in [T -> Nat],
           \A x \in S : f[x] = g[x], \A x \in T : f[x] = h[x]
    PROVE  Sum(f) = Sum(g) + Sum(h)
<1>1. Pairs(f) = Pairs(g) \cup Pairs(h)
  <2>1. Pairs(f) = (UNION {{x} \X (1..f[x]) : x \in S}) \cup (UNION {{x} \X (1..f[x]) : x \in T})
    BY DEF Pairs
  <2>2. \A x \in S : {x} \X (1..f[x]) = {x} \X (1..g[x])
    OBVIOUS
  <2>3. \A x \in T : {x} \X (1..f[x]) = {x} \X (1..h[x])
    OBVIOUS
  <2> QED
    BY <2>1, <2>2, <2>3 DEF Pairs
<1>2. Pairs(g) \cap Pairs(h) = {}
  <2>1. \A p \in Pairs(g) : p[1] \in S
    BY DEF Pairs
  <2>2. \A p \in Pairs(h) : p[1] \in T
    BY DEF Pairs
  <2> QED
    BY <2>1, <2>2
<1>3. IsFiniteSet(Pairs(g)) /\ IsFiniteSet(Pairs(h))
  BY PairsAreFinite
<1>4. Cardinality(Pairs(f)) = Cardinality(Pairs(g)) + Cardinality(Pairs(h))
  BY <1>1, <1>2, <1>3, DisjointUnion
<1> QED
  BY <1>4 DEF Sum, Pairs

LEMMA SumOfOne == ASSUME NEW x, NEW n \in Nat, NEW f, f = [y \in {x} |-> n] PROVE Sum(f) = n
<1>1. Pairs(f) = {x} \X (1..n)
  BY DEF Pairs
<1>2. Sum(f) = Cardinality(Pairs(f))
  BY DEF Sum, Pairs
<1> QED
  BY <1>1, <1>2, Strips

\* A sum over one argument more.
LEMMA SumOfOneMore ==
    ASSUME NEW S, IsFiniteSet(S), NEW x, x \notin S, NEW f \in [S \cup {x} -> Nat],
           NEW g \in [S -> Nat], \A y \in S : f[y] = g[y]
    PROVE  Sum(f) = Sum(g) + f[x]
<1> DEFINE h == [y \in {x} |-> f[x]]
           T == {x}
<1>1. h \in [T -> Nat] /\ S \cap T = {} /\ (\A y \in T : f[y] = h[y]) /\ f \in [S \cup T -> Nat]
  OBVIOUS
<1>2. Sum(h) = f[x]
  BY SumOfOne
<1>3. IsFiniteSet(T)
  BY FS_Singleton
<1> HIDE DEF h, T
<1>4. Sum(f) = Sum(g) + Sum(h)
  BY <1>1, <1>3, SumOfParts
<1> QED
  BY <1>2, <1>4

-----------------------------------------------------------------------------
(* What a request has read, sent and counted *)

Sent(c, n) == [i \in 1..n |-> Rewrite(c.answer.endpoint, c.answer.frames[i], c.ask.asked)]
Text(c, n) == [i \in 1..n |-> c.answer.frames[i].text]

\* The meter holds what was said last, and all the text.
MeterTells(c) ==
    /\ c.meter.chars = Sum(Text(c, c.at))
    /\ \/ c.meter.usage = {} /\ \A i \in 1..c.at : Says(c, i) = {}
       \/ \E i \in 1..c.at : /\ Says(c, i) # {} /\ c.meter.usage = Says(c, i)
                             /\ \A j \in 1..c.at : j > i => Says(c, j) = {}

\* A request at any moment, also between the frame it has read and the one it sends.
IsCall(c) ==
    /\ c = Call(c.pc, c.ask, c.answer, c.ts, c.at, c.got, c.meter)
    /\ c.pc \in {"idle", "open", "done"} /\ c.ts \in Nat /\ c.at \in Nat
    /\ c.pc = "idle" => c.at = 0
    /\ c.pc # "idle" => c.ask \in Asks /\ c.answer \in Answers /\ c.at <= Len(c.answer.frames)
    /\ c.got = Sent(c, c.at) \/ (c.at > 0 /\ c.got = Sent(c, c.at - 1))
    /\ MeterTells(c)

\* A request as it stands between two steps.
Stands(c) ==
    /\ IsCall(c)
    /\ c.pc = "open" => c.got = Sent(c, c.at) /\ (~c.answer.stream => c.at = 0)

\* A row says what the meter of its request, which is over, says.
RowTells(row, c) ==
    /\ c.pc = "done"
    /\ \/ row.tokens = Metered(c).tokens /\ row.estimated = Metered(c).estimated
       \/ c.at = 0 /\ row.tokens = NoTokens

Dated(row) == row.ts \in Nat /\ row.latency \in Nat

IsSequence(s) == \E S : s \in Seq(S)

RowsInv ==
    /\ DOMAIN call = Reqs /\ \A r \in Reqs : Stands(call[r])
    /\ IsSequence(pending) /\ day \in Nat
    /\ \A row \in rows \cup ToSet(pending) :
           Dated(row) /\ (row.req \in Reqs => RowTells(row, call[row.req]))

\* What a handler does: its request goes on, or is over and leaves a row.
Handles(r) ==
    \E c : /\ Stands(c) /\ call' = [call EXCEPT ![r] = c] /\ call[r].pc # "done"
           /\ \/ UNCHANGED pending
              \/ \E row : /\ row.req = r /\ Dated(row) /\ RowTells(row, c)
                          /\ pending' = Append(pending, row)
           /\ UNCHANGED <<rows, day, pruner, report>>

LEMMA CallFields ==
    ASSUME NEW a, NEW b, NEW c, NEW d, NEW e, NEW f, NEW g
    PROVE  LET x == Call(a, b, c, d, e, f, g)
           IN  /\ x.pc = a /\ x.ask = b /\ x.answer = c /\ x.ts = d /\ x.at = e /\ x.got = f /\ x.meter = g
               /\ x = Call(x.pc, x.ask, x.answer, x.ts, x.at, x.got, x.meter)
BY DEF Call

LEMMA CallChanged ==
    ASSUME NEW c, c = Call(c.pc, c.ask, c.answer, c.ts, c.at, c.got, c.meter), NEW v
    PROVE  /\ [c EXCEPT !.pc = v] = Call(v, c.ask, c.answer, c.ts, c.at, c.got, c.meter)
           /\ [c EXCEPT !.got = v] = Call(c.pc, c.ask, c.answer, c.ts, c.at, v, c.meter)
<1> DEFINE p == c.pc
           q == c.ask
           a == c.answer
           t == c.ts
           n == c.at
           g == c.got
           m == c.meter
<1>1. c = [pc |-> p, ask |-> q, answer |-> a, ts |-> t, at |-> n, got |-> g, meter |-> m]
  BY DEF Call
<1> HIDE DEF p, q, a, t, n, g, m
<1>2. /\ [c EXCEPT !.pc = v] =
             [pc |-> v, ask |-> q, answer |-> a, ts |-> t, at |-> n, got |-> g, meter |-> m]
      /\ [c EXCEPT !.got = v] =
             [pc |-> p, ask |-> q, answer |-> a, ts |-> t, at |-> n, got |-> v, meter |-> m]
  BY <1>1
<1> QED
  BY <1>2 DEF Call, p, q, a, t, n, g, m

LEMMA SentOneMore ==
    ASSUME NEW c, NEW n \in Nat
    PROVE  /\ Append(Sent(c, n), Rewrite(c.answer.endpoint, c.answer.frames[n + 1], c.ask.asked)) =
                  Sent(c, n + 1)
           /\ Len(Sent(c, n)) = n /\ DOMAIN Sent(c, n) = 1..n
<1> DEFINE E(i) == Rewrite(c.answer.endpoint, c.answer.frames[i], c.ask.asked)
           S == {E(i) : i \in 1..(n + 1)}
           f == [i \in 1..n |-> E(i)]
<1>1. Sent(c, n) = f /\ Sent(c, n + 1) = [i \in 1..(n + 1) |-> E(i)]
  BY DEF Sent
<1> HIDE DEF E
<1>2. f \in Seq(S) /\ Len(f) = n /\ E(n + 1) \in S
  OBVIOUS
<1>3. Append(f, E(n + 1)) = [i \in 1..(n + 1) |-> E(i)]
  BY <1>2
<1> QED
  BY <1>1, <1>2, <1>3 DEF E

LEMMA TextOneMore ==
    ASSUME NEW c, NEW n \in Nat, \A i \in 1..(n + 1) : c.answer.frames[i].text \in Nat
    PROVE  Sum(Text(c, n + 1)) = Sum(Text(c, n)) + c.answer.frames[n + 1].text
<1> DEFINE f == Text(c, n + 1)
           g == Text(c, n)
           x == n + 1
           S == 1..n
<1>1. f \in [S \cup {x} -> Nat] /\ g \in [S -> Nat] /\ x \notin S /\ \A y \in S : f[y] = g[y]
  BY DEF Text
<1>2. IsFiniteSet(S) /\ f[x] = c.answer.frames[n + 1].text
  BY FS_Interval DEF Text
<1> HIDE DEF f, g, x, S
<1>3. Sum(f) = Sum(g) + f[x]
  BY <1>1, <1>2, SumOfOneMore
<1> QED
  BY <1>2, <1>3 DEF f, g

\* Usage that is read in the places one by one is usage read in all of them.
LEMMA UsageInside ==
    ASSUME NEW R
    PROVE  ParseUsage(UNION {x.usage : x \in R}) = UNION {ParseUsage(x.usage) : x \in R}
BY DEF ParseUsage

LEMMA FrameSays ==
    ASSUME NEW c, c.answer.stream, NEW n, NEW m
    PROVE  MeterFrame(c.answer.endpoint, m, c.answer.frames[n]).usage = Later(m.usage, Says(c, n))
<1> DEFINE f == c.answer.frames[n]
           e == c.answer.endpoint
           R == UNION {x.usage : x \in f.response}
           inside == IF e = "responses" THEN R ELSE {}
<1>1. MeterFrame(e, m, f).usage = Later(Later(m.usage, ParseUsage(inside)), ParseUsage(f.usage))
  BY DEF MeterFrame
<1>2. ParseUsage({}) = {}
  BY DEF ParseUsage
<1>3. Says(c, n) = IF ParseUsage(f.usage) # {} \/ e # "responses" THEN ParseUsage(f.usage)
                   ELSE ParseUsage(R)
  BY UsageInside DEF Says
<1> HIDE DEF f, e, R
<1> QED
  BY <1>1, <1>2, <1>3 DEF Later, f, e

LEMMA DocSays ==
    ASSUME NEW c, ~c.answer.stream, NEW n
    PROVE  MeterDoc(c.answer.frames[n]).usage = Says(c, n)
<1> DEFINE f == c.answer.frames[n]
<1>1. MeterDoc(f).usage = ParseUsage(IF f.usage # {} THEN f.usage ELSE UNION {x.usage : x \in f.response})
  BY DEF MeterDoc, UsageFromDoc
<1> QED
  BY <1>1, UsageInside DEF Says

\* These look at the answer and the request only.
LEMMA SameAnswer ==
    ASSUME NEW c, NEW d, c.answer = d.answer, c.ask = d.ask
    PROVE  /\ \A i : Says(c, i) = Says(d, i)
           /\ \A n : Sent(c, n) = Sent(d, n) /\ Text(c, n) = Text(d, n)
BY DEF Says, Sent, Text

LEMMA FramesAreFrames ==
    ASSUME NEW a \in Answers
    PROVE  /\ Len(a.frames) \in Nat /\ \A i \in 1..Len(a.frames) : a.frames[i].text \in Nat
           /\ ~a.stream => Len(a.frames) = 1
           /\ \A i \in 1..Len(a.frames) : IsFrame(a.frames[i])
<1> DEFINE s == a.frames
           S == ToSet(a.frames)
<1>1. s \in Seq(S) /\ (\A f \in S : IsFrame(f)) /\ (~a.stream => Len(s) = 1)
  BY AnswersAssumption
<1>2. \A f : IsFrame(f) => f.text \in Nat
  BY DEF IsFrame
<1> HIDE DEF s, S
<1>3. Len(s) \in Nat /\ \A i \in 1..Len(s) : s[i] \in S
  BY <1>1
<1> QED
  BY <1>1, <1>2, <1>3 DEF s

\* One frame more that is read is one more that the meter tells.
LEMMA MeterGoesOn ==
    ASSUME NEW c, IsCall(c), c.pc = "open", c.at < Len(c.answer.frames),
           NEW d, d.answer = c.answer, d.ask = c.ask, d.at = c.at + 1,
           d.meter.chars = c.meter.chars + c.answer.frames[c.at + 1].text,
           d.meter.usage = Later(c.meter.usage, Says(c, c.at + 1))
    PROVE  MeterTells(d)
<1> DEFINE n == c.at
<1>1. n \in Nat /\ MeterTells(c) /\ c.answer \in Answers
  BY DEF IsCall
<1>2. \A i \in 1..(n + 1) : c.answer.frames[i].text \in Nat
  BY <1>1, FramesAreFrames
<1>3. d.meter.chars = Sum(Text(d, d.at))
  <2>1. Sum(Text(c, n + 1)) = Sum(Text(c, n)) + c.answer.frames[n + 1].text
    BY <1>1, <1>2, TextOneMore
  <2>2. Text(d, d.at) = Text(c, n + 1)
    BY SameAnswer
  <2> QED
    BY <1>1, <2>1, <2>2 DEF MeterTells
<1>4. \A i : Says(d, i) = Says(c, i)
  BY SameAnswer
<1>5. CASE Says(c, n + 1) # {}
  <2>1. d.meter.usage = Says(d, n + 1)
    BY <1>4, <1>5 DEF Later
  <2>2. n + 1 \in 1..d.at /\ \A j \in 1..d.at : ~(j > n + 1)
    BY <1>1
  <2> QED
    BY <1>3, <1>4, <1>5, <2>1, <2>2 DEF MeterTells
<1>6. CASE Says(c, n + 1) = {}
  <2>1. d.meter.usage = c.meter.usage
    BY <1>6 DEF Later
  <2>2. \A j \in 1..d.at : j \in 1..n \/ j = n + 1
    BY <1>1
  <2>3. 1..n \subseteq 1..d.at
    BY <1>1
  <2>4. CASE c.meter.usage = {} /\ \A i \in 1..n : Says(c, i) = {}
    BY <1>3, <1>4, <1>6, <2>1, <2>2, <2>4 DEF MeterTells
  <2>5. ASSUME NEW i \in 1..n, Says(c, i) # {}, c.meter.usage = Says(c, i),
               \A j \in 1..n : j > i => Says(c, j) = {}
        PROVE  MeterTells(d)
    BY <1>3, <1>4, <1>6, <2>1, <2>2, <2>3, <2>5 DEF MeterTells
  <2> QED
    BY <1>1, <2>4, <2>5 DEF MeterTells
<1> QED
  BY <1>5, <1>6

\* The next frame is read.
LEMMA ReadingStands ==
    ASSUME NEW c, Stands(c), MoreToRead(c)
    PROVE  /\ Stands(Reading(c)) /\ Reading(c).pc = "open"
           /\ IsCall([Reading(c) EXCEPT !.got = c.got]) /\ [Reading(c) EXCEPT !.got = c.got].pc = "open"
<1> DEFINE a == c.answer
           n == c.at
           f == a.frames[n + 1]
           m == MeterFrame(a.endpoint, c.meter, f)
           g == Append(c.got, Rewrite(a.endpoint, f, c.ask.asked))
           d == Call(c.pc, c.ask, a, c.ts, n + 1, g, m)
           e == Call(c.pc, c.ask, a, c.ts, n + 1, c.got, m)
<1>0. Reading(c) = d
  BY DEF Reading
<1>1. /\ c.pc = "open" /\ a.stream /\ n < Len(a.frames) /\ n \in Nat /\ c.ts \in Nat
      /\ c.ask \in Asks /\ a \in Answers /\ c.got = Sent(c, n)
  BY DEF Stands, IsCall, MoreToRead
<1>2. g = Sent(c, n + 1)
  <2>1. Append(Sent(c, c.at), Rewrite(c.answer.endpoint, c.answer.frames[c.at + 1], c.ask.asked)) =
            Sent(c, c.at + 1)
    BY <1>1, SentOneMore
  <2> QED
    BY <1>1, <2>1
<1>3. m.usage = Later(c.meter.usage, Says(c, n + 1)) /\ m.chars = c.meter.chars + f.text
  BY <1>1, FrameSays DEF MeterFrame
<1>4. Len(a.frames) \in Nat
  BY <1>1, FramesAreFrames
<1> HIDE DEF m, g
<1>5. /\ d.pc = c.pc /\ d.ask = c.ask /\ d.answer = a /\ d.ts = c.ts /\ d.at = n + 1
      /\ d.got = g /\ d.meter = m
      /\ d = Call(d.pc, d.ask, d.answer, d.ts, d.at, d.got, d.meter)
  BY CallFields
<1>6. /\ e.pc = c.pc /\ e.ask = c.ask /\ e.answer = a /\ e.ts = c.ts /\ e.at = n + 1
      /\ e.got = c.got /\ e.meter = m
      /\ e = Call(e.pc, e.ask, e.answer, e.ts, e.at, e.got, e.meter)
  BY CallFields
<1>7. [d EXCEPT !.got = c.got] = e
  <2>1. e = Call(c.pc, c.ask, a, c.ts, n + 1, c.got, m)
    OBVIOUS
  <2> HIDE DEF d, e
  <2>2. [d EXCEPT !.got = c.got] = Call(d.pc, d.ask, d.answer, d.ts, d.at, c.got, d.meter)
    BY <1>5, CallChanged
  <2> QED
    BY <1>5, <2>1, <2>2
<1> HIDE DEF d, e
<1>8. MeterTells(d) /\ MeterTells(e)
  BY <1>1, <1>3, <1>5, <1>6, MeterGoesOn DEF Stands
<1>9. Sent(d, n + 1) = Sent(c, n + 1) /\ Sent(e, n) = Sent(c, n)
  BY <1>5, <1>6, SameAnswer
<1>10. IsCall(d)
  BY <1>1, <1>2, <1>4, <1>5, <1>8, <1>9 DEF IsCall
<1>11. IsCall(e)
  <2>1. e.at > 0 /\ e.at - 1 = n
    BY <1>1, <1>6
  <2> QED
    BY <1>1, <1>4, <1>6, <1>8, <1>9, <2>1 DEF IsCall
<1> QED
  BY <1>0, <1>1, <1>2, <1>5, <1>6, <1>7, <1>9, <1>10, <1>11 DEF Stands

\* A request that is over stands as it is, with its row.
LEMMA Finished ==
    ASSUME NEW r \in Reqs, call[r].pc = "open",
           NEW c, IsCall(c), c.pc = "open", NEW status, NEW counts,
           counts = Metered(c) \/ (c.at = 0 /\ counts = Uncounted),
           Finish(r, c, status, counts)
    PROVE  Handles(r)
<1> DEFINE d == [c EXCEPT !.pc = "done"]
           row == [req |-> r, ts |-> c.ts, model |-> c.ask.id, endpoint |-> c.answer.endpoint,
                   status |-> status, tokens |-> counts.tokens, estimated |-> counts.estimated,
                   latency |-> Latency[r]]
<1>1. /\ call' = [call EXCEPT ![r] = d] /\ pending' = Append(pending, row)
      /\ UNCHANGED <<rows, day, pruner, report>>
  BY DEF Finish
<1>2. /\ row.req = r /\ row.ts = c.ts /\ row.tokens = counts.tokens /\ row.estimated = counts.estimated
      /\ row.latency \in Nat
  BY AccountsAssumption
<1>3. d = Call("done", c.ask, c.answer, c.ts, c.at, c.got, c.meter)
  BY CallChanged DEF IsCall
<1> HIDE DEF d, row
<1>4. /\ d.pc = "done" /\ d.ask = c.ask /\ d.answer = c.answer /\ d.ts = c.ts /\ d.at = c.at
      /\ d.got = c.got /\ d.meter = c.meter
      /\ d = Call(d.pc, d.ask, d.answer, d.ts, d.at, d.got, d.meter)
  BY <1>3, CallFields
<1>5. Stands(d)
  <2>1. \A n : Sent(d, n) = Sent(c, n)
    BY <1>4, SameAnswer
  <2>2. MeterTells(d)
    <3>1. (\A i : Says(d, i) = Says(c, i)) /\ \A n : Text(d, n) = Text(c, n)
      BY <1>4, SameAnswer
    <3> QED
      BY <1>4, <3>1 DEF IsCall, MeterTells
  <2> QED
    BY <1>4, <2>1, <2>2 DEF IsCall, Stands
<1>6. RowTells(row, d)
  <2>1. Metered(d) = Metered(c)
    BY <1>4 DEF Metered
  <2> QED
    BY <1>2, <1>4, <2>1 DEF RowTells, Uncounted
<1> QED
  BY <1>1, <1>2, <1>5, <1>6 DEF Handles, IsCall, Dated

\* A request that has read nothing.
LEMMA Starts ==
    ASSUME NEW pc \in {"idle", "open"}, NEW ask, NEW a, NEW ts \in Nat,
           pc = "open" => ask \in Asks /\ a \in Answers
    PROVE  Stands(Call(pc, ask, a, ts, 0, <<>>, Unread)) /\ Call(pc, ask, a, ts, 0, <<>>, Unread).pc = pc
<1> DEFINE c == Call(pc, ask, a, ts, 0, <<>>, Unread)
<1>1. /\ c.pc = pc /\ c.ask = ask /\ c.answer = a /\ c.ts = ts /\ c.at = 0 /\ c.got = <<>>
      /\ c.meter = Unread /\ c = Call(c.pc, c.ask, c.answer, c.ts, c.at, c.got, c.meter)
  BY CallFields
<1> HIDE DEF c
<1>2. Sent(c, 0) = <<>>
  BY DEF Sent
<1>3. Sum(Text(c, 0)) = 0
  <2>1. DOMAIN Text(c, 0) = {}
    BY DEF Text
  <2> QED
    BY <2>1, SumOfNothing
<1>4. MeterTells(c)
  BY <1>1, <1>3 DEF MeterTells, Unread
<1>5. c.pc # "idle" => Len(c.answer.frames) \in Nat
  BY <1>1, FramesAreFrames
<1>6. Stands(c)
  BY <1>1, <1>2, <1>4, <1>5 DEF Stands, IsCall
<1> QED
  BY <1>1, <1>6 DEF c

\* A document is read and sent at once.
LEMMA DocumentRead ==
    ASSUME NEW c, Stands(c), c.pc = "open", ~c.answer.stream,
           NEW d, d = Call(c.pc, c.ask, c.answer, c.ts, 1,
                           <<Rewrite(c.answer.endpoint, c.answer.frames[1], c.ask.asked)>>,
                           MeterDoc(c.answer.frames[1]))
    PROVE  IsCall(d) /\ d.pc = "open"
<1> DEFINE f == c.answer.frames[1]
           g == <<Rewrite(c.answer.endpoint, f, c.ask.asked)>>
           m == MeterDoc(f)
<1>1. /\ c.ask \in Asks /\ c.answer \in Answers /\ c.ts \in Nat /\ Len(c.answer.frames) = 1
      /\ f.text \in Nat
  BY FramesAreFrames DEF Stands, IsCall
<1>2. m.usage = Says(c, 1) /\ m.chars = f.text
  BY DocSays DEF MeterDoc
<1>3. Sent(c, 1) = g
  BY DEF Sent
<1> HIDE DEF g, m
<1>4. /\ d.pc = c.pc /\ d.ask = c.ask /\ d.answer = c.answer /\ d.ts = c.ts /\ d.at = 1
      /\ d.got = g /\ d.meter = m
      /\ d = Call(d.pc, d.ask, d.answer, d.ts, d.at, d.got, d.meter)
  BY CallFields DEF g, m
<1>5. Sum(Text(d, 1)) = f.text
  <2> DEFINE t == Text(d, 1)
  <2>1. 1..1 = {1}
    OBVIOUS
  <2>2. t = [y \in {1} |-> f.text]
    BY <1>4, <2>1 DEF Text
  <2> HIDE DEF t
  <2>3. Sum(t) = f.text
    BY <1>1, <2>2, SumOfOne
  <2> QED
    BY <2>3 DEF t
<1>6. Says(d, 1) = Says(c, 1) /\ Sent(d, 1) = Sent(c, 1)
  BY <1>4, SameAnswer
<1>7. MeterTells(d)
  <2>1. \A i \in 1..d.at : i = 1
    BY <1>4
  <2>2. 1 \in 1..d.at
    BY <1>4
  <2>3. d.meter.chars = Sum(Text(d, d.at)) /\ d.meter.usage = Says(d, 1)
    BY <1>2, <1>4, <1>5, <1>6
  <2>4. CASE Says(d, 1) = {}
    BY <2>1, <2>3, <2>4 DEF MeterTells
  <2>5. CASE Says(d, 1) # {}
    <3>1. \A j \in 1..d.at : ~(j > 1)
      BY <2>1
    <3>2. \E i \in 1..d.at : /\ Says(d, i) # {} /\ d.meter.usage = Says(d, i)
                             /\ \A j \in 1..d.at : j > i => Says(d, j) = {}
      BY <2>2, <2>3, <2>5, <3>1
    <3> QED
      BY <2>3, <3>2 DEF MeterTells
  <2> QED
    BY <2>4, <2>5
<1> QED
  BY <1>1, <1>3, <1>4, <1>6, <1>7 DEF IsCall

LEMMA HandlersHandle == ASSUME RowsInv, NEW r \in Reqs, Handler(r) PROVE Handles(r)
<1> DEFINE c == call[r]
<1>0. Stands(c) /\ day \in Nat
  BY DEF RowsInv
<1>1. CASE Begin(r)
  <2>1. PICK ask \in Asks, a \in Answers :
            call' = [call EXCEPT ![r] = Call("open", ask, a, day, 0, <<>>, Unread)]
    BY <1>1 DEF Begin
  <2>2. Stands(Call("open", ask, a, day, 0, <<>>, Unread))
    BY <1>0, Starts
  <2> QED
    BY <1>1, <2>1, <2>2 DEF Begin, Handles, tableVars
<1>2. CASE Relay(r)
  <2>1. Stands(Reading(c)) /\ c.pc = "open"
    BY <1>0, <1>2, ReadingStands DEF Relay, MoreToRead
  <2> QED
    BY <1>2, <2>1 DEF Relay, Handles, tableVars
<1>3. CASE RelayFails(r)
  <2> DEFINE d == [Reading(c) EXCEPT !.got = c.got]
  <2>1. MoreToRead(c) /\ Finish(r, d, "cancelled", Metered(d))
    BY <1>3 DEF RelayFails
  <2>2. IsCall(d) /\ d.pc = "open" /\ c.pc = "open"
    BY <1>0, <2>1, ReadingStands DEF MoreToRead
  <2> HIDE DEF d
  <2> QED
    BY <2>1, <2>2, Finished
<1>4. CASE StreamEnds(r)
  <2>1. PICK status : Finish(r, c, status, Metered(c))
    BY <1>4 DEF StreamEnds
  <2>2. IsCall(c) /\ c.pc = "open"
    BY <1>0, <1>4 DEF StreamEnds, Stands
  <2> QED
    BY <2>1, <2>2, Finished
<1>5. CASE Respond(r)
  <2> DEFINE d == Call(c.pc, c.ask, c.answer, c.ts, 1,
                       <<Rewrite(c.answer.endpoint, c.answer.frames[1], c.ask.asked)>>,
                       MeterDoc(c.answer.frames[1]))
  <2>1. c.pc = "open" /\ ~c.answer.stream /\ Finish(r, d, "ok", Metered(d))
    BY <1>5 DEF Respond
  <2>2. IsCall(d) /\ d.pc = "open"
    BY <1>0, <2>1, DocumentRead
  <2> HIDE DEF d
  <2> QED
    BY <2>1, <2>2, Finished
<1>6. CASE Fail(r)
  <2>1. PICK status : Finish(r, c, status, Uncounted)
    BY <1>6 DEF Fail
  <2>2. IsCall(c) /\ c.pc = "open" /\ c.at = 0
    BY <1>0, <1>6 DEF Fail, Stands
  <2> QED
    BY <2>1, <2>2, Finished
<1> QED
  BY <1>1, <1>2, <1>3, <1>4, <1>5, <1>6 DEF Handler

\* A request that is over stays as it is, so its row still tells it.
LEMMA HandlesKeeps == ASSUME RowsInv, NEW r \in Reqs, Handles(r) PROVE RowsInv'
<1>1. PICK c : /\ Stands(c) /\ call' = [call EXCEPT ![r] = c] /\ call[r].pc # "done"
               /\ \/ UNCHANGED pending
                  \/ \E row : /\ row.req = r /\ Dated(row) /\ RowTells(row, c)
                              /\ pending' = Append(pending, row)
               /\ UNCHANGED <<rows, day, pruner, report>>
  BY DEF Handles
<1>2. DOMAIN call = Reqs /\ DOMAIN call' = Reqs /\ \A q \in Reqs : Stands(call'[q])
  BY <1>1 DEF RowsInv
<1>3. \A row \in rows \cup ToSet(pending) :
          Dated(row) /\ (row.req \in Reqs => RowTells(row, call'[row.req]))
  BY <1>1, <1>2 DEF RowsInv, RowTells
<1>4. CASE UNCHANGED pending
  BY <1>1, <1>2, <1>3, <1>4 DEF RowsInv, IsSequence
<1>5. ASSUME NEW row, row.req = r, Dated(row), RowTells(row, c), pending' = Append(pending, row)
      PROVE  RowsInv'
  <2>1. PICK S : pending \in Seq(S)
    BY DEF RowsInv, IsSequence
  <2>2. pending \in Seq(S \cup {row})
    BY <2>1
  <2>3. pending' \in Seq(S \cup {row}) /\ ToSet(pending') = ToSet(pending) \cup {row}
    BY <1>5, <2>2 DEF ToSet
  <2>4. RowTells(row, call'[r])
    BY <1>1, <1>2, <1>5
  <2> QED
    BY <1>1, <1>2, <1>3, <1>5, <2>3, <2>4 DEF RowsInv, IsSequence
<1> QED
  BY <1>1, <1>4, <1>5

LEMMA RowsInvStep == ASSUME RowsInv, [Next]_vars PROVE RowsInv'
<1>1. ASSUME NEW r \in Reqs, Handler(r) PROVE RowsInv'
  BY <1>1, HandlersHandle, HandlesKeeps
<1>2. CASE Insert
  <2>1. PICK n \in DOMAIN pending : /\ rows' = rows \cup {pending[i] : i \in 1..n}
                                    /\ pending' = SubSeq(pending, n + 1, Len(pending))
    BY <1>2 DEF Insert
  <2>2. PICK S : pending \in Seq(S)
    BY DEF RowsInv, IsSequence
  <2>3. n \in 1..Len(pending) /\ DOMAIN pending = 1..Len(pending) /\ Len(pending) \in Nat
    BY <2>1, <2>2
  <2>4. {pending[i] : i \in 1..n} \subseteq ToSet(pending)
    BY <2>3 DEF ToSet
  <2>5. pending' \in Seq(S) /\ ToSet(pending') \subseteq ToSet(pending)
    BY <2>1, <2>2, <2>3 DEF ToSet
  <2>6. rows' \cup ToSet(pending') \subseteq rows \cup ToSet(pending)
    BY <2>1, <2>4, <2>5
  <2> QED
    BY <1>2, <2>5, <2>6 DEF Insert, RowsInv, IsSequence
<1>3. ASSUME NEW p \in Pruners, PruneBatch(p) PROVE RowsInv'
  <2>1. rows' \subseteq rows /\ UNCHANGED <<call, pending, day>>
    BY <1>3 DEF PruneBatch
  <2> QED
    BY <2>1 DEF RowsInv
<1>4. ASSUME NEW p \in Pruners, BeginPrune(p) \/ PruneFails(p) PROVE RowsInv'
  BY <1>4 DEF BeginPrune, PruneFails, RowsInv
<1>5. CASE Midnight
  BY <1>5, AccountsAssumption DEF Midnight, RowsInv
<1>6. CASE Report
  BY <1>6 DEF Report, OpenReport, QueryGroups, QueryCount, QueryOffsets, QueryTotals, QueryTotalOffsets,
              CloseReport, Step, tableVars, RowsInv
<1>7. CASE UNCHANGED vars
  BY <1>7 DEF vars, RowsInv
<1> QED
  BY <1>1, <1>2, <1>3, <1>4, <1>5, <1>6, <1>7 DEF Next, Prune

LEMMA RowsInvInit == Init => RowsInv
<1> SUFFICES ASSUME Init PROVE RowsInv
  OBVIOUS
<1>1. Stands(Call("idle", Unmade, Unanswered, 0, 0, <<>>, Unread))
  BY Starts
<1>2. pending \in Seq({}) /\ ToSet(pending) = {}
  BY DEF Init, ToSet
<1>3. \A row \in rows : Dated(row) /\ row.req \notin Reqs
  BY StoredAssumption, CountsAssumption DEF Init, Dated
<1> QED
  BY <1>1, <1>2, <1>3 DEF Init, RowsInv, IsSequence

-----------------------------------------------------------------------------
(* What the client sees *)

\* What Renamed and Rewrite make, field by field.
Called(x, n) == [model |-> {n : m \in x.model}, usage |-> x.usage]
Within(k, f, n) == IF k = "responses" THEN {Called(x, n) : x \in f.response} ELSE f.response

LEMMA RenamedFields ==
    ASSUME NEW x, x = [model |-> x.model, usage |-> x.usage], NEW n
    PROVE  Renamed(x, n) = Called(x, n)
<1> DEFINE a == x.model
           u == x.usage
           b == {n : m \in x.model}
<1>1. x = [model |-> a, usage |-> u] /\ Renamed(x, n) = [x EXCEPT !.model = b]
  BY DEF Renamed
<1> HIDE DEF a, u, b
<1>2. Renamed(x, n) = [model |-> b, usage |-> u]
  BY <1>1
<1> QED
  BY <1>2 DEF b, u, Called

LEMMA RewriteFields ==
    ASSUME NEW k, NEW f, IsFrame(f), NEW n
    PROVE  Rewrite(k, f, n) = [model |-> {n : m \in f.model}, usage |-> f.usage,
                               response |-> Within(k, f, n), text |-> f.text]
<1> DEFINE a == f.model
           u == f.usage
           q == f.response
           t == f.text
           b == {n : m \in f.model}
           R == IF k = "responses" THEN {Renamed(x, n) : x \in f.response} ELSE f.response
           r == Renamed(f, n)
<1>1. f = [model |-> a, usage |-> u, response |-> q, text |-> t]
  BY DEF IsFrame
<1>2. Rewrite(k, f, n) = [r EXCEPT !.response = R]
  BY DEF Rewrite
<1>3. r = [f EXCEPT !.model = b]
  BY DEF Renamed
<1>4. R = Within(k, f, n)
  <2>1. \A x \in f.response : Renamed(x, n) = Called(x, n)
    BY RenamedFields DEF IsFrame
  <2> QED
    BY <2>1 DEF Within
<1> HIDE DEF a, u, q, t, b, R, r
<1>5. r = [model |-> b, usage |-> u, response |-> q, text |-> t]
  BY <1>1, <1>3
<1>6. [r EXCEPT !.response = R] = [model |-> b, usage |-> u, response |-> R, text |-> t]
  BY <1>5
<1> QED
  BY <1>2, <1>4, <1>6 DEF b, u, t

\* A frame is sent with every name in it the one that was asked for, and is
\* otherwise what it was.
LEMMA RewriteRenames ==
    ASSUME NEW e, NEW f, IsFrame(f), NEW name
    PROVE  /\ NamesIn(e, Rewrite(e, f, name)) \subseteq {name}
           /\ Unnamed(Rewrite(e, f, name)) = Unnamed(f)
<1> DEFINE g == Rewrite(e, f, name)
           Q == Within(e, f, name)
<1>1. g = [model |-> {name : m \in f.model}, usage |-> f.usage, response |-> Q, text |-> f.text]
  BY RewriteFields
<1>2. \A x \in f.response : x = [model |-> x.model, usage |-> x.usage]
  BY DEF IsFrame
<1>3. \A x : /\ Called(x, name).model \subseteq {name}
             /\ Called(x, name) = [model |-> Called(x, name).model, usage |-> Called(x, name).usage]
             /\ Called(Called(x, name), "") = Called(x, "")
  BY DEF Called
<1>4. \A x \in Q : x = [model |-> x.model, usage |-> x.usage]
  BY <1>2, <1>3 DEF Within
<1>5. {Called(x, "") : x \in Q} = {Called(x, "") : x \in f.response}
  <2>1. CASE e = "responses"
    <3>1. Q = {Called(x, name) : x \in f.response}
      BY <2>1 DEF Within
    <3>2. (\A y \in Q : \E x \in f.response : y = Called(x, name)) /\ \A x \in f.response : Called(x, name) \in Q
      BY <3>1
    <3>3. \A x : Called(Called(x, name), "") = Called(x, "")
      BY <1>3
    <3> HIDE DEF Q
    <3>4. \A y \in Q : Called(y, "") \in {Called(x, "") : x \in f.response}
      BY <3>2, <3>3
    <3>5. \A x \in f.response : Called(x, "") \in {Called(y, "") : y \in Q}
      BY <3>2, <3>3
    <3> QED
      BY <3>4, <3>5
  <2>2. CASE e # "responses"
    BY <2>2 DEF Within
  <2> QED
    BY <2>1, <2>2
<1>6. e = "responses" => UNION {x.model : x \in Q} \subseteq {name}
  BY <1>3 DEF Within
<1> HIDE DEF Q
<1>7. /\ g.model = {name : m \in f.model} /\ g.usage = f.usage /\ g.response = Q /\ g.text = f.text
  BY <1>1
<1>8. IsFrame(g)
  BY <1>1, <1>4, <1>7 DEF IsFrame
<1> HIDE DEF g
<1>9. NamesIn(e, g) \subseteq {name}
  BY <1>6, <1>7 DEF NamesIn
<1>10. {"" : m \in g.model} = {"" : m \in f.model}
  BY <1>7
<1>11. Within("responses", g, "") = Within("responses", f, "")
  BY <1>5, <1>7 DEF Within
<1>12. Rewrite("responses", g, "") = Rewrite("responses", f, "")
  <2>1. Rewrite("responses", g, "") = [model |-> {"" : m \in g.model}, usage |-> g.usage,
                                       response |-> Within("responses", g, ""), text |-> g.text]
    BY <1>8, RewriteFields
  <2>2. Rewrite("responses", f, "") = [model |-> {"" : m \in f.model}, usage |-> f.usage,
                                       response |-> Within("responses", f, ""), text |-> f.text]
    BY RewriteFields
  <2> QED
    BY <1>7, <1>10, <1>11, <2>1, <2>2
<1> QED
  BY <1>9, <1>12 DEF g, Unnamed

LEMMA NamesAreAsked ==
    ASSUME NEW c, IsCall(c)
    PROVE  /\ Len(c.got) \in {c.at - 1, c.at}
           /\ \A i \in DOMAIN c.got :
                 /\ NamesIn(c.answer.endpoint, c.got[i]) \subseteq {c.ask.asked}
                 /\ Unnamed(c.got[i]) = Unnamed(c.answer.frames[i])
<1>1. PICK n \in {c.at - 1, c.at} : n \in Nat /\ c.got = Sent(c, n) /\ (n > 0 => c.pc # "idle")
  BY DEF IsCall
<1>2. Len(c.got) = n /\ DOMAIN c.got = 1..n
  BY <1>1, SentOneMore
<1>3. ASSUME NEW i \in 1..n
      PROVE  /\ NamesIn(c.answer.endpoint, c.got[i]) \subseteq {c.ask.asked}
             /\ Unnamed(c.got[i]) = Unnamed(c.answer.frames[i])
  <2> DEFINE e == c.answer.endpoint
             f == c.answer.frames[i]
             name == c.ask.asked
  <2>1. c.answer \in Answers /\ i \in 1..Len(c.answer.frames)
    BY <1>1, FramesAreFrames DEF IsCall
  <2>2. IsFrame(f)
    BY <2>1, FramesAreFrames
  <2>3. c.got[i] = Rewrite(e, f, name)
    BY <1>1 DEF Sent
  <2> HIDE DEF e, f, name
  <2>4. NamesIn(e, Rewrite(e, f, name)) \subseteq {name}
    BY <2>2, RewriteRenames
  <2>5. Unnamed(Rewrite(e, f, name)) = Unnamed(f)
    BY <2>2, RewriteRenames
  <2> QED
    BY <2>3, <2>4, <2>5 DEF e, f, name
<1> QED
  BY <1>1, <1>2, <1>3

\* Whatever an upstream answers and wherever an answer is cut short: the client gets
\* its frames in order, up to the last or the last but one that was read, under the
\* name it asked for.
THEOREM ClientsSeeTheirNames == Spec => []ClientSeesWhatItAskedFor
<1>1. RowsInv => ClientSeesWhatItAskedFor
  BY NamesAreAsked DEF RowsInv, Stands, ClientSeesWhatItAskedFor
<1>2. RowsInv /\ [Next]_vars => RowsInv'
  BY RowsInvStep
<1> QED
  BY <1>1, <1>2, RowsInvInit, PTL DEF Spec

-----------------------------------------------------------------------------
(* What a row tells *)

LEMMA LastSaid ==
    ASSUME NEW c, MeterTells(c), c.at \in Nat, {i \in 1..c.at : Says(c, i) # {}} # {}
    PROVE  LET said == {i \in 1..c.at : Says(c, i) # {}}
           IN  c.meter.usage # {} /\ c.meter.usage = Says(c, CHOOSE i \in said : \A j \in said : j <= i)
<1> DEFINE said == {i \in 1..c.at : Says(c, i) # {}}
           last == CHOOSE i \in said : \A j \in said : j <= i
<1>1. PICK i \in 1..c.at : /\ Says(c, i) # {} /\ c.meter.usage = Says(c, i)
                           /\ \A j \in 1..c.at : j > i => Says(c, j) = {}
  BY DEF MeterTells
<1>2. i \in said /\ \A j \in said : j <= i
  BY <1>1
<1>3. last \in said /\ \A j \in said : j <= last
  BY <1>2
<1>4. said \subseteq Nat
  OBVIOUS
<1> HIDE DEF said, last
<1>5. last = i
  BY <1>2, <1>3, <1>4
<1> QED
  BY <1>1, <1>5 DEF last, said

\* An estimate is a token for every four characters, or what is left of four.
LEMMA EstimateFits ==
    ASSUME NEW n \in Nat
    PROVE  EstimateTokens(n) \in Nat /\ 4 * EstimateTokens(n) - n \in 0..3
<1> DEFINE k == (n + 3) \div 4
<1>1. k \in Nat /\ 4 * k <= n + 3 /\ n + 3 < 4 * k + 4
  OBVIOUS
<1>2. EstimateTokens(n) = k
  BY DEF EstimateTokens
<1> HIDE DEF k
<1>3. 4 * k - n \in 0..3
  BY <1>1
<1> QED
  BY <1>1, <1>2, <1>3

LEMMA TextIsNatural ==
    ASSUME NEW c, IsCall(c), c.pc # "idle"
    PROVE  Sum(Text(c, c.at)) \in Nat
<1> DEFINE f == Text(c, c.at)
<1>1. c.at \in Nat /\ \A i \in 1..c.at : c.answer.frames[i].text \in Nat
  BY FramesAreFrames DEF IsCall
<1>2. f \in [1..c.at -> Nat]
  BY <1>1 DEF Text
<1>3. IsFiniteSet(1..c.at)
  BY <1>1, FS_Interval
<1> HIDE DEF f
<1>4. Sum(f) \in Nat
  BY <1>2, <1>3, SumIsNatural
<1> QED
  BY <1>4 DEF f

LEMMA WhatARowTells ==
    ASSUME NEW c, IsCall(c), c.pc = "done", NEW row, RowTells(row, c)
    PROVE  LET said == {i \in 1..c.at : Says(c, i) # {}}
           IN  /\ c.at = 0 => /\ row.tokens.out = 0 /\ row.tokens.cached = 0
                              /\ row.estimated \/ row.tokens = NoTokens
               /\ c.at > 0 /\ said # {} =>
                     ~row.estimated /\ row.tokens \in Says(c, CHOOSE i \in said : \A j \in said : j <= i)
               /\ c.at > 0 /\ said = {} =>
                     row.estimated /\ 4 * row.tokens.out - Sum(Text(c, c.at)) \in 0..3
<1> DEFINE said == {i \in 1..c.at : Says(c, i) # {}}
           last == CHOOSE i \in said : \A j \in said : j <= i
           m == c.meter
<1>1. MeterTells(c) /\ c.at \in Nat
  BY DEF IsCall
<1>2. m.chars = Sum(Text(c, c.at)) /\ m.chars \in Nat
  BY <1>1, TextIsNatural DEF MeterTells
<1>3. ASSUME m.usage = {}
      PROVE  /\ Metered(c).estimated /\ Metered(c).tokens.out = EstimateTokens(m.chars)
             /\ Metered(c).tokens.cached = 0
  BY <1>3 DEF Metered, Counted, NoTokens
<1>4. ASSUME m.usage # {}
      PROVE  ~Metered(c).estimated /\ Metered(c).tokens \in m.usage
  BY <1>4 DEF Metered, Counted
<1>5. ASSUME c.at = 0
      PROVE  row.tokens.out = 0 /\ row.tokens.cached = 0 /\ (row.estimated \/ row.tokens = NoTokens)
  <2>1. m.usage = {}
    BY <1>1, <1>5 DEF MeterTells
  <2>2. m.chars = 0
    <3>1. DOMAIN Text(c, 0) = {}
      BY DEF Text
    <3> QED
      BY <1>2, <1>5, <3>1, SumOfNothing
  <2>3. EstimateTokens(0) = 0 /\ NoTokens.out = 0 /\ NoTokens.cached = 0
    BY DEF EstimateTokens, NoTokens
  <2> HIDE DEF m
  <2> QED
    BY <1>3, <2>1, <2>2, <2>3 DEF RowTells
<1>6. c.at > 0 => row.tokens = Metered(c).tokens /\ row.estimated = Metered(c).estimated
  BY <1>1 DEF RowTells
<1>7. ASSUME c.at > 0, said # {} PROVE ~row.estimated /\ row.tokens \in Says(c, last)
  <2>1. m.usage # {} /\ m.usage = Says(c, last)
    BY <1>1, <1>7, LastSaid
  <2> HIDE DEF m, last
  <2> QED
    BY <1>4, <1>6, <1>7, <2>1
<1>8. ASSUME c.at > 0, said = {} PROVE row.estimated /\ 4 * row.tokens.out - Sum(Text(c, c.at)) \in 0..3
  <2>1. m.usage = {}
    BY <1>1, <1>8 DEF MeterTells
  <2>2. 4 * EstimateTokens(m.chars) - m.chars \in 0..3
    BY <1>2, EstimateFits
  <2> HIDE DEF m
  <2> QED
    BY <1>2, <1>3, <1>6, <1>8, <2>1, <2>2
<1> HIDE DEF said, last
<1>9. /\ c.at = 0 => /\ row.tokens.out = 0 /\ row.tokens.cached = 0
                     /\ row.estimated \/ row.tokens = NoTokens
      /\ c.at > 0 /\ said # {} => ~row.estimated /\ row.tokens \in Says(c, last)
      /\ c.at > 0 /\ said = {} => row.estimated /\ 4 * row.tokens.out - Sum(Text(c, c.at)) \in 0..3
  BY <1>5, <1>7, <1>8
<1> QED
  BY <1>9 DEF said, last

\* Whatever frames an upstream sends and however the answer ends: the row of a request
\* has the tokens reported last, or an estimate if none were reported, and says which.
THEOREM RowsTell == Spec => []RowsTellTheUpstream
<1>1. ASSUME RowsInv PROVE RowsTellTheUpstream
  <2> SUFFICES ASSUME NEW row \in rows \cup ToSet(pending), row.req \in Reqs
               PROVE  LET c == call[row.req]
                          said == {i \in 1..c.at : Says(c, i) # {}}
                      IN  CASE c.at = 0 -> /\ row.tokens.out = 0 /\ row.tokens.cached = 0
                                           /\ row.estimated \/ row.tokens = NoTokens
                            [] c.at > 0 /\ said # {} ->
                                   /\ ~row.estimated
                                   /\ row.tokens \in Says(c, CHOOSE i \in said : \A j \in said : j <= i)
                            [] c.at > 0 /\ said = {} ->
                                   /\ row.estimated
                                   /\ 4 * row.tokens.out
                                        - Sum([i \in 1..c.at |-> c.answer.frames[i].text]) \in 0..3
    BY DEF RowsTellTheUpstream
  <2> DEFINE c == call[row.req]
             said == {i \in 1..c.at : Says(c, i) # {}}
             last == CHOOSE i \in said : \A j \in said : j <= i
             sum == Sum([i \in 1..c.at |-> c.answer.frames[i].text])
  <2>1. IsCall(c) /\ c.pc = "done" /\ RowTells(row, c) /\ c.at \in Nat
    BY <1>1 DEF RowsInv, Stands, IsCall, RowTells
  <2>2. sum = Sum(Text(c, c.at))
    BY DEF Text
  <2> HIDE DEF c
  <2>3. /\ c.at = 0 => /\ row.tokens.out = 0 /\ row.tokens.cached = 0
                       /\ row.estimated \/ row.tokens = NoTokens
        /\ c.at > 0 /\ said # {} => ~row.estimated /\ row.tokens \in Says(c, last)
        /\ c.at > 0 /\ said = {} => row.estimated /\ 4 * row.tokens.out - sum \in 0..3
    BY <2>1, <2>2, WhatARowTells
  <2>4. c.at = 0 \/ c.at > 0
    BY <2>1
  <2> HIDE DEF said, last, sum
  <2>5. (CASE c.at = 0 -> /\ row.tokens.out = 0 /\ row.tokens.cached = 0
                          /\ row.estimated \/ row.tokens = NoTokens
          [] c.at > 0 /\ said # {} -> ~row.estimated /\ row.tokens \in Says(c, last)
          [] c.at > 0 /\ said = {} -> row.estimated /\ 4 * row.tokens.out - sum \in 0..3)
    BY <2>1, <2>3, <2>4
  <2> QED
    BY <2>5 DEF c, said, last, sum
<1>2. RowsInv /\ [Next]_vars => RowsInv'
  BY RowsInvStep
<1> QED
  BY <1>1, <1>2, RowsInvInit, PTL DEF Spec

-----------------------------------------------------------------------------
(* Retention *)

\* A cutoff that was fixed once is never ahead of the one of today.
Cutoffs ==
    /\ DOMAIN pruner = Pruners
    /\ \A p \in Pruners : \A cutoff \in pruner[p] : cutoff \in Int /\ cutoff <= day - Retention

LEMMA CutoffsStep == RowsInv /\ Cutoffs /\ [Next]_vars => Cutoffs'
<1> SUFFICES ASSUME RowsInv, Cutoffs, [Next]_vars PROVE Cutoffs'
  OBVIOUS
<1>1. day \in Nat /\ Retention \in Nat
  BY AccountsAssumption DEF RowsInv
<1>2. ASSUME UNCHANGED <<day, pruner>> PROVE Cutoffs'
  BY <1>2 DEF Cutoffs
<1>3. ASSUME NEW r \in Reqs, Handler(r) PROVE Cutoffs'
  <2>1. UNCHANGED <<day, pruner>>
    BY <1>3 DEF Handler, Begin, Relay, RelayFails, StreamEnds, Respond, Fail, Finish, tableVars
  <2> QED
    BY <1>2, <2>1
<1>4. ASSUME NEW p \in Pruners, BeginPrune(p) PROVE Cutoffs'
  <2>1. pruner' = [pruner EXCEPT ![p] = {day - Retention}] /\ day' = day
    BY <1>4 DEF BeginPrune
  <2> QED
    BY <1>1, <2>1 DEF Cutoffs
<1>5. ASSUME NEW p \in Pruners, PruneBatch(p) \/ PruneFails(p) PROVE Cutoffs'
  <2>1. (pruner' = [pruner EXCEPT ![p] = {}] \/ UNCHANGED pruner) /\ day' = day
    BY <1>5 DEF PruneBatch, PruneFails
  <2> QED
    BY <2>1 DEF Cutoffs
<1>6. CASE Midnight
  <2>1. UNCHANGED pruner /\ day' = day + 1
    BY <1>6 DEF Midnight
  <2> QED
    BY <1>1, <2>1 DEF Cutoffs
<1>7. CASE Insert
  BY <1>2, <1>7 DEF Insert
<1>8. CASE Report
  <2>1. UNCHANGED <<day, pruner>>
    BY <1>8 DEF Report, OpenReport, QueryGroups, QueryCount, QueryOffsets, QueryTotals,
                QueryTotalOffsets, CloseReport, Step, tableVars
  <2> QED
    BY <1>2, <2>1
<1>9. CASE UNCHANGED vars
  BY <1>2, <1>9 DEF vars
<1> QED
  BY <1>3, <1>4, <1>5, <1>6, <1>7, <1>8, <1>9 DEF Next, Prune

LEMMA OldRowsGo ==
    ASSUME RowsInv, Cutoffs, [Next]_vars, NEW r \in rows \ rows'
    PROVE  r.ts < day - Retention
<1>1. day \in Nat /\ Retention \in Nat /\ r.ts \in Nat
  BY AccountsAssumption DEF RowsInv, Dated
<1>2. PICK p \in Pruners : PruneBatch(p)
  <2>1. ~(UNCHANGED rows)
    OBVIOUS
  <2>2. ~Insert
    BY DEF Insert
  <2>3. ~(\E q \in Reqs : Handler(q))
    BY <2>1 DEF Handler, Begin, Relay, RelayFails, StreamEnds, Respond, Fail, Finish, tableVars
  <2>4. ~Report /\ ~Midnight
    BY <2>1 DEF Report, OpenReport, QueryGroups, QueryCount, QueryOffsets, QueryTotals,
                QueryTotalOffsets, CloseReport, Step, tableVars, Midnight
  <2>5. \A p \in Pruners : ~BeginPrune(p) /\ ~PruneFails(p)
    BY <2>1 DEF BeginPrune, PruneFails
  <2> QED
    BY <2>1, <2>2, <2>3, <2>4, <2>5 DEF Next, Prune, vars
<1>3. PICK cutoff \in pruner[p] : r \in Old(cutoff)
  BY <1>2 DEF PruneBatch
<1> QED
  BY <1>1, <1>3 DEF Old, Cutoffs

\* However many pruners delete at once, and whenever one of them fails or begins again:
\* no row goes that is not past retention on the day it goes.
THEOREM OldRowsOnly == Spec => OnlyOldRowsGo
<1>1. Init => RowsInv /\ Cutoffs
  BY RowsInvInit DEF Init, Cutoffs
<1>2. RowsInv /\ Cutoffs /\ [Next]_vars => RowsInv' /\ Cutoffs'
  BY RowsInvStep, CutoffsStep
<1>3. RowsInv /\ Cutoffs /\ [Next]_vars => [\A r \in rows \ rows' : r.ts < day - Retention]_vars
  BY OldRowsGo
<1> QED
  BY <1>1, <1>2, <1>3, PTL DEF Spec, OnlyOldRowsGo


-----------------------------------------------------------------------------
(* Sums over a divided set *)

On(f, T) == [x \in T |-> f[x]]

LEMMA OnIsNatural ==
    ASSUME NEW S, IsFiniteSet(S), NEW f \in [S -> Nat], NEW T \in SUBSET S
    PROVE  IsFiniteSet(T) /\ On(f, T) \in [T -> Nat] /\ Sum(On(f, T)) \in Nat
<1> DEFINE g == On(f, T)
<1>1. IsFiniteSet(T) /\ g \in [T -> Nat]
  BY FS_Subset DEF On
<1> HIDE DEF g
<1>2. Sum(g) \in Nat
  BY <1>1, SumIsNatural
<1> QED
  BY <1>1, <1>2 DEF g

LEMMA OnBoth ==
    ASSUME NEW S, IsFiniteSet(S), NEW f \in [S -> Nat], NEW T \in SUBSET S, NEW U \in SUBSET S,
           T \cap U = {}
    PROVE  Sum(On(f, T \cup U)) = Sum(On(f, T)) + Sum(On(f, U))
<1> DEFINE a == On(f, T \cup U)
           b == On(f, T)
           c == On(f, U)
<1>1. /\ a \in [T \cup U -> Nat] /\ b \in [T -> Nat] /\ c \in [U -> Nat]
      /\ (\A x \in T : a[x] = b[x]) /\ \A x \in U : a[x] = c[x]
  BY DEF On
<1>2. IsFiniteSet(T) /\ IsFiniteSet(U)
  BY FS_Subset
<1> HIDE DEF a, b, c
<1>3. Sum(a) = Sum(b) + Sum(c)
  BY <1>1, <1>2, SumOfParts
<1> QED
  BY <1>3 DEF a, b, c

\* A sum is the sum of the sums over the parts its domain is divided into.
LEMMA SumOfDivision ==
    ASSUME NEW S, IsFiniteSet(S), NEW f \in [S -> Nat],
           NEW I, IsFiniteSet(I), NEW P \in [I -> SUBSET S],
           \A i, j \in I : i # j => P[i] \cap P[j] = {},
           \A x \in S : \E i \in I : x \in P[i]
    PROVE  Sum([i \in I |-> Sum(On(f, P[i]))]) = Sum(f)
<1> DEFINE V == [i \in I |-> Sum(On(f, P[i]))]
           In(Q) == UNION {P[i] : i \in Q}
           G == {Q \in SUBSET I : Sum(On(V, Q)) = Sum(On(f, In(Q)))}
<1>1. V \in [I -> Nat]
  BY OnIsNatural
<1>2. {} \in G
  <2>1. DOMAIN On(V, {}) = {} /\ DOMAIN On(f, In({})) = {}
    BY DEF On
  <2>2. Sum(On(V, {})) = 0
    BY <2>1, SumOfNothing
  <2>3. Sum(On(f, In({}))) = 0
    BY <2>1, SumOfNothing
  <2> QED
    BY <2>2, <2>3
<1>3. ASSUME NEW Q \in SUBSET I, NEW i \in I \ Q, Q \in G PROVE Q \cup {i} \in G
  <2> DEFINE A == In(Q)
             B == P[i]
  <2>1. In(Q \cup {i}) = A \cup B
    OBVIOUS
  <2>2. A \in SUBSET S /\ B \in SUBSET S /\ A \cap B = {}
    OBVIOUS
  <2>3. Sum(On(V, Q)) = Sum(On(f, A))
    BY <1>3
  <2>4. V[i] = Sum(On(f, B))
    OBVIOUS
  <2>5. Q \cup {i} \in SUBSET I /\ {i} \in SUBSET I /\ Q \cap {i} = {}
    OBVIOUS
  <2> HIDE DEF V, A, B, In
  <2>6. Sum(On(f, A \cup B)) = Sum(On(f, A)) + Sum(On(f, B))
    BY <2>2, OnBoth
  <2>7. Sum(On(V, Q \cup {i})) = Sum(On(V, Q)) + Sum(On(V, {i}))
    BY <1>1, <2>5, OnBoth
  <2>8. Sum(On(V, {i})) = V[i]
    <3> DEFINE g == On(V, {i})
               n == V[i]
    <3>1. g = [y \in {i} |-> n] /\ n \in Nat
      BY <1>1 DEF On
    <3> HIDE DEF g, n
    <3>2. Sum(g) = n
      BY <3>1, SumOfOne
    <3> QED
      BY <3>2 DEF g, n
  <2>9. Sum(On(V, Q \cup {i})) = Sum(On(f, In(Q \cup {i})))
    BY <2>1, <2>3, <2>4, <2>6, <2>7, <2>8
  <2> QED
    BY <2>5, <2>9
<1> HIDE DEF G
<1>4. I \in G
  BY <1>2, <1>3, SetInduction
<1>5. In(I) = S
  OBVIOUS
<1>6. On(V, I) = V /\ On(f, S) = f
  BY <1>1 DEF On
<1> HIDE DEF V, In
<1>7. Sum(V) = Sum(f)
  BY <1>4, <1>5, <1>6 DEF G
<1> QED
  BY <1>7 DEF V

\* A set is a sum of ones.
LEMMA SumOfOnes ==
    ASSUME NEW S, IsFiniteSet(S)
    PROVE  Sum([x \in S |-> 1]) = Cardinality(S)
<1> DEFINE G == {T \in SUBSET S : Sum([x \in T |-> 1]) = Cardinality(T)}
<1>1. {} \in G
  <2> DEFINE f == [x \in {} |-> 1]
  <2>1. Sum(f) = 0
    BY SumOfNothing
  <2> QED
    BY <2>1, FS_EmptySet
<1>2. ASSUME NEW T \in SUBSET S, NEW x \in S \ T, T \in G PROVE T \cup {x} \in G
  <2> DEFINE f == [y \in T \cup {x} |-> 1]
             g == [y \in T |-> 1]
  <2>1. IsFiniteSet(T)
    BY FS_Subset
  <2>2. f \in [T \cup {x} -> Nat] /\ g \in [T -> Nat] /\ (\A y \in T : f[y] = g[y]) /\ f[x] = 1
    OBVIOUS
  <2>3. Sum(g) = Cardinality(T)
    BY <1>2
  <2> HIDE DEF f, g
  <2>4. Sum(f) = Sum(g) + f[x]
    BY <2>1, <2>2, SumOfOneMore
  <2>5. Cardinality(T \cup {x}) = Cardinality(T) + 1
    BY <2>1, FS_AddElement
  <2> QED
    BY <2>2, <2>3, <2>4, <2>5 DEF f
<1> HIDE DEF G
<1>3. S \in G
  BY <1>1, <1>2, SetInduction
<1> QED
  BY <1>3 DEF G

\* An image of a finite set is finite.
LEMMA ImageIsFinite ==
    ASSUME NEW S, IsFiniteSet(S), NEW f, DOMAIN f = S
    PROVE  IsFiniteSet({f[x] : x \in S})
<1> DEFINE F(T) == {f[x] : x \in T}
           G == {T \in SUBSET S : IsFiniteSet(F(T))}
<1>1. {} \in G
  <2>1. F({}) = {}
    OBVIOUS
  <2> QED
    BY <2>1, FS_EmptySet
<1>2. ASSUME NEW T \in SUBSET S, NEW x \in S \ T, T \in G PROVE T \cup {x} \in G
  <2>1. F(T \cup {x}) = F(T) \cup {f[x]}
    OBVIOUS
  <2>2. IsFiniteSet(F(T))
    BY <1>2
  <2> DEFINE A == F(T)
             B == F(T \cup {x})
             y == f[x]
  <2>3. IsFiniteSet(A) /\ B = A \cup {y}
    BY <2>1, <2>2
  <2> HIDE DEF A, B, y
  <2>4. IsFiniteSet(B)
    BY <2>3, FS_AddElement
  <2> QED
    BY <2>4 DEF B
<1> HIDE DEF G
<1>3. S \in G
  BY <1>1, <1>2, SetInduction
<1> QED
  BY <1>3 DEF G

-----------------------------------------------------------------------------
(* A set in a row *)

LEMMA SetInARow ==
    ASSUME NEW S, IsFiniteSet(S)
    PROVE  /\ SetToSeq(S) \in [1..Cardinality(S) -> S] /\ Cardinality(S) \in Nat
           /\ \A i, j \in 1..Cardinality(S) : SetToSeq(S)[i] = SetToSeq(S)[j] => i = j
           /\ \A x \in S : \E i \in 1..Cardinality(S) : SetToSeq(S)[i] = x
<1> DEFINE n == Cardinality(S)
           f == SetToSeq(S)
<1>1. n \in Nat /\ ExistsBijection(1..n, S)
  BY FS_CardinalityType
<1>2. \E g \in [1..n -> S] : IsInjective(g)
  BY <1>1 DEF ExistsBijection, Bijection, Injection, IsInjective
<1>3. f \in [1..n -> S] /\ IsInjective(f)
  BY <1>2 DEF SetToSeq
<1> HIDE DEF f
<1>4. \A i, j \in 1..n : f[i] = f[j] => i = j
  BY <1>3 DEF IsInjective
<1>5. IsFiniteSet(1..n) /\ Cardinality(1..n) = n
  BY <1>1, FS_Interval
<1>6. f \in Surjection(1..n, S)
  <2>1. f \in Injection(1..n, S)
    BY <1>3, <1>4 DEF Injection, IsInjective
  <2> QED
    BY <1>5, <2>1, FS_Injection
<1>7. \A x \in S : \E i \in 1..n : f[i] = x
  BY <1>6 DEF Surjection
<1> QED
  BY <1>1, <1>3, <1>4, <1>7 DEF f

-----------------------------------------------------------------------------
(* Percentiles *)

LEMMA Slowest ==
    ASSUME NEW S, IsFiniteSet(S), S # {}, \A r \in S : r.latency \in Nat
    PROVE  \E r \in S : \A q \in S : q.latency <= r.latency
<1> DEFINE G == {T \in SUBSET S : T # {} => \E r \in T : \A q \in T : q.latency <= r.latency}
<1>1. {} \in G
  OBVIOUS
<1>2. ASSUME NEW T \in SUBSET S, NEW x \in S \ T, T \in G PROVE T \cup {x} \in G
  <2>1. CASE T = {}
    BY <2>1
  <2>2. ASSUME NEW r \in T, \A q \in T : q.latency <= r.latency PROVE T \cup {x} \in G
    <3>1. CASE x.latency <= r.latency
      BY <2>2, <3>1
    <3>2. CASE ~(x.latency <= r.latency)
      <4>1. \A q \in T \cup {x} : q.latency <= x.latency
        BY <2>2, <3>2
      <4> QED
        BY <4>1
    <3> QED
      BY <3>1, <3>2
  <2> QED
    BY <1>2, <2>1, <2>2
<1> HIDE DEF G
<1>3. S \in G
  BY <1>1, <1>2, SetInduction
<1> QED
  BY <1>3 DEF G

LEMMA Fastest ==
    ASSUME NEW S, IsFiniteSet(S), S # {}, \A r \in S : r.latency \in Nat
    PROVE  \E r \in S : \A q \in S : r.latency <= q.latency
<1> DEFINE G == {T \in SUBSET S : T # {} => \E r \in T : \A q \in T : r.latency <= q.latency}
<1>1. {} \in G
  OBVIOUS
<1>2. ASSUME NEW T \in SUBSET S, NEW x \in S \ T, T \in G PROVE T \cup {x} \in G
  <2>1. CASE T = {}
    BY <2>1
  <2>2. ASSUME NEW r \in T, \A q \in T : r.latency <= q.latency PROVE T \cup {x} \in G
    <3>1. CASE r.latency <= x.latency
      BY <2>2, <3>1
    <3>2. CASE ~(r.latency <= x.latency)
      <4>1. \A q \in T \cup {x} : x.latency <= q.latency
        BY <2>2, <3>2
      <4> QED
        BY <4>1
    <3> QED
      BY <3>1, <3>2
  <2> QED
    BY <1>2, <2>1, <2>2
<1> HIDE DEF G
<1>3. S \in G
  BY <1>1, <1>2, SetInduction
<1> QED
  BY <1>3 DEF G

LEMMA MedianOfNone == Median({}, 0)
<1>1. {r \in {} : r.latency < 0} = {}
  OBVIOUS
<1>2. Cardinality({}) = 0
  BY FS_EmptySet
<1> QED
  BY <1>1, <1>2 DEF Median

\* The row that many rows in, by latency, is there, and half the rows are on either
\* side of the middle one.
LEMMA MiddleIsMedian ==
    ASSUME NEW S, IsFiniteSet(S), S # {}, \A r \in S : r.latency \in Nat
    PROVE  Median(S, Percentile(S, Cardinality(S) \div 2))
<1> DEFINE n == Cardinality(S)
           k == n \div 2
           Below(r) == {q \in S : q.latency < r.latency}
           UpTo(r) == {q \in S : q.latency <= r.latency}
           W == {r \in S : k < Cardinality(UpTo(r))}
           at == {r \in S : Cardinality(Below(r)) <= k /\ k < Cardinality(UpTo(r))}
<1>1. n \in Nat /\ n # 0
  BY FS_CardinalityType, FS_EmptySet
<1>2. k \in Nat /\ 2 * k <= n /\ n < 2 * k + 2 /\ k < n
  BY <1>1
<1>3. \A T \in SUBSET S : IsFiniteSet(T) /\ Cardinality(T) \in Nat
  BY FS_Subset, FS_CardinalityType
<1>4. \A r \in S : Below(r) \in SUBSET S /\ UpTo(r) \in SUBSET S
  OBVIOUS
<1> HIDE DEF n, k
<1>5. W # {} /\ W \in SUBSET S
  <2>1. PICK r \in S : \A q \in S : q.latency <= r.latency
    BY Slowest
  <2>2. UpTo(r) = S
    BY <2>1
  <2> QED
    BY <1>2, <2>2 DEF n
<1>6. PICK r \in W : \A q \in W : r.latency <= q.latency
  BY <1>3, <1>5, Fastest
<1>7. r \in at
  <2>1. SUFFICES ASSUME ~(Cardinality(Below(r)) <= k) PROVE FALSE
    BY <1>6
  <2>2. Below(r) # {}
    <3> DEFINE B == Below(r)
    <3>1. ~(Cardinality(B) <= k) /\ Cardinality({}) = 0
      BY <2>1, FS_EmptySet
    <3> HIDE DEF B
    <3>2. B # {}
      BY <1>2, <3>1
    <3> QED
      BY <3>2 DEF B
  <2>3. PICK q \in Below(r) : \A x \in Below(r) : x.latency <= q.latency
    <3> DEFINE B == Below(r)
    <3>1. IsFiniteSet(B) /\ B # {} /\ \A x \in B : x.latency \in Nat
      BY <1>3, <2>2
    <3> HIDE DEF B
    <3>2. \E q \in B : \A x \in B : x.latency <= q.latency
      BY <3>1, Slowest
    <3> QED
      BY <3>2 DEF B
  <2>4. UpTo(q) = Below(r)
    BY <1>5, <2>3
  <2>5. q \in W
    <3>1. Cardinality(Below(r)) \in Nat
      BY <1>3
    <3>2. k < Cardinality(UpTo(q))
      <4> HIDE DEF Below, UpTo
      <4> QED
        BY <1>2, <2>1, <2>4, <3>1
    <3> QED
      BY <2>3, <3>2
  <2> QED
    BY <1>5, <1>6, <2>3, <2>5
<1>8. PICK m \in at : Percentile(S, k) = m.latency
  <2>1. Percentile(S, k) = IF at = {} THEN 0 ELSE (CHOOSE x \in at : TRUE).latency
    BY DEF Percentile
  <2> HIDE DEF at
  <2> QED
    BY <1>7, <2>1
<1> DEFINE p == m.latency
           over == {q \in S : q.latency > p}
<1>9. {q \in S : q.latency < p} = Below(m) /\ 2 * Cardinality(Below(m)) <= n
  <2>1. Cardinality(Below(m)) \in Nat /\ Cardinality(Below(m)) <= k
    BY <1>3
  <2> QED
    BY <1>1, <1>2, <2>1
<1>10. 2 * Cardinality(over) < n
  <2>1. over \cap UpTo(m) = {} /\ over \cup UpTo(m) = S
    OBVIOUS
  <2>2. over \in SUBSET S /\ UpTo(m) \in SUBSET S /\ k < Cardinality(UpTo(m))
    OBVIOUS
  <2> HIDE DEF over, UpTo, at
  <2>3. n = Cardinality(over) + Cardinality(UpTo(m))
    BY <1>3, <2>1, <2>2, DisjointUnion DEF n
  <2>4. Cardinality(over) \in Nat /\ Cardinality(UpTo(m)) \in Nat
    BY <1>3, <2>2
  <2> QED
    BY <1>1, <1>2, <2>2, <2>3, <2>4
<1>11. Median(S, p)
  BY <1>9, <1>10 DEF Median, n
<1> QED
  BY <1>8, <1>11 DEF k, n

-----------------------------------------------------------------------------
(* Amounts *)

LEMMA PickIsNatural ==
    ASSUME NEW a, a \subseteq Nat, NEW b, b \subseteq Nat
    PROVE  Pick(a, b) \in Nat
<1>1. CASE a # {}
  BY <1>1 DEF Pick
<1>2. CASE a = {} /\ b # {}
  BY <1>2 DEF Pick
<1>3. CASE a = {} /\ b = {}
  BY <1>3 DEF Pick
<1> QED
  BY <1>1, <1>2, <1>3

\* What is counted, with its parts no more than the whole.
Whole(t) == IsCount(t) /\ t.cached <= t.in /\ t.reasoning <= t.out

LEMMA Distributes == \A a, b, c \in Int : (a + b) * c = a * c + b * c
  OBVIOUS

\* What is paid for two counts is what is paid for each of them.
LEMMA AmountAdds ==
    ASSUME NEW e \in Prices, NEW t, Whole(t), NEW u, Whole(u), NEW v,
           v.in = t.in + u.in, v.out = t.out + u.out,
           v.cached = t.cached + u.cached, v.reasoning = t.reasoning + u.reasoning
    PROVE  Whole(v) /\ Amount(t, e) \in Nat /\ Amount(v, e) = Amount(t, e) + Amount(u, e)
<1> DEFINE i == e.input
           o == e.output
           c == Pick(e.cached_input, {e.input})
           r == Pick(e.reasoning_output, {e.output})
<1>1. i \in Nat /\ o \in Nat /\ c \in Nat /\ r \in Nat
  BY CountsAssumption, PickIsNatural
<1>2. Whole(v)
  BY DEF Whole, IsCount
<1>3. \A w : Whole(w) => Amount(w, e) = (w.in - w.cached) * i + w.cached * c
                                          + (w.out - w.reasoning) * o + w.reasoning * r
  <2> HIDE DEF c, r
  <2>1. \A w : Amount(w, e) = (w.in - Least(w.cached, w.in)) * i + Least(w.cached, w.in) * c
                                + (w.out - Least(w.reasoning, w.out)) * o + Least(w.reasoning, w.out) * r
    BY DEF Amount, c, r
  <2>2. \A w : Whole(w) => Least(w.cached, w.in) = w.cached /\ Least(w.reasoning, w.out) = w.reasoning
    BY DEF Whole, IsCount, Least
  <2> QED
    BY <2>1, <2>2
<1> HIDE DEF i, o, c, r
<1>4. /\ Amount(t, e) = (t.in - t.cached) * i + t.cached * c + (t.out - t.reasoning) * o + t.reasoning * r
      /\ Amount(u, e) = (u.in - u.cached) * i + u.cached * c + (u.out - u.reasoning) * o + u.reasoning * r
      /\ Amount(v, e) = (v.in - v.cached) * i + v.cached * c + (v.out - v.reasoning) * o + v.reasoning * r
  BY <1>2, <1>3
<1> DEFINE t1 == t.in - t.cached
           u1 == u.in - u.cached
           t2 == t.cached
           u2 == u.cached
           t3 == t.out - t.reasoning
           u3 == u.out - u.reasoning
           t4 == t.reasoning
           u4 == u.reasoning
<1>5. /\ t1 \in Nat /\ u1 \in Nat /\ t2 \in Nat /\ u2 \in Nat
      /\ t3 \in Nat /\ u3 \in Nat /\ t4 \in Nat /\ u4 \in Nat
      /\ v.in - v.cached = t1 + u1 /\ v.cached = t2 + u2
      /\ v.out - v.reasoning = t3 + u3 /\ v.reasoning = t4 + u4
  BY DEF Whole, IsCount
<1>6. /\ Amount(t, e) = t1 * i + t2 * c + t3 * o + t4 * r
      /\ Amount(u, e) = u1 * i + u2 * c + u3 * o + u4 * r
      /\ Amount(v, e) = (t1 + u1) * i + (t2 + u2) * c + (t3 + u3) * o + (t4 + u4) * r
  BY <1>4, <1>5
<1> HIDE DEF t1, u1, t2, u2, t3, u3, t4, u4
<1>7. /\ (t1 + u1) * i = t1 * i + u1 * i /\ (t2 + u2) * c = t2 * c + u2 * c
      /\ (t3 + u3) * o = t3 * o + u3 * o /\ (t4 + u4) * r = t4 * r + u4 * r
  BY <1>1, <1>5, Distributes
<1>8. /\ t1 * i \in Nat /\ t2 * c \in Nat /\ t3 * o \in Nat /\ t4 * r \in Nat
      /\ u1 * i \in Nat /\ u2 * c \in Nat /\ u3 * o \in Nat /\ u4 * r \in Nat
  BY <1>1, <1>5
<1> QED
  BY <1>2, <1>6, <1>7, <1>8

Countable(S) == IsFiniteSet(S) /\ \A r \in S : IsCount(r.tokens) /\ r.latency \in Nat

LEMMA TokensOfNone ==
    Tokens({}).in = 0 /\ Tokens({}).out = 0 /\ Tokens({}).cached = 0 /\ Tokens({}).reasoning = 0
<1>1. \A f : DOMAIN f = {} => Sum(f) = 0
  BY SumOfNothing
<1>2. /\ Sum([r \in {} |-> r.tokens.in]) = 0 /\ Sum([r \in {} |-> r.tokens.out]) = 0
      /\ Sum([r \in {} |-> r.tokens.cached]) = 0 /\ Sum([r \in {} |-> r.tokens.reasoning]) = 0
  BY <1>1
<1> QED
  BY <1>2 DEF Tokens

LEMMA TokensOfOneMore ==
    ASSUME NEW S, NEW x, x \notin S, Countable(S \cup {x})
    PROVE  /\ Tokens(S \cup {x}).in = Tokens(S).in + x.tokens.in
           /\ Tokens(S \cup {x}).out = Tokens(S).out + x.tokens.out
           /\ Tokens(S \cup {x}).cached = Tokens(S).cached + x.tokens.cached
           /\ Tokens(S \cup {x}).reasoning = Tokens(S).reasoning + x.tokens.reasoning
<1> DEFINE T == S \cup {x}
<1>1. IsFiniteSet(S)
  BY FS_Subset DEF Countable
<1>2. \A r \in T : r.tokens.in \in Nat /\ r.tokens.out \in Nat /\ r.tokens.cached \in Nat /\ r.tokens.reasoning \in Nat
  BY DEF Countable, IsCount
<1>3. Sum([r \in T |-> r.tokens.in]) = Sum([r \in S |-> r.tokens.in]) + x.tokens.in
  <2> DEFINE f == [r \in T |-> r.tokens.in]
             g == [r \in S |-> r.tokens.in]
  <2>1. f \in [S \cup {x} -> Nat] /\ g \in [S -> Nat] /\ (\A r \in S : f[r] = g[r]) /\ f[x] = x.tokens.in
    BY <1>2
  <2> HIDE DEF f, g
  <2>2. Sum(f) = Sum(g) + f[x]
    BY <1>1, <2>1, SumOfOneMore
  <2> QED
    BY <2>1, <2>2 DEF f, g
<1>4. Sum([r \in T |-> r.tokens.out]) = Sum([r \in S |-> r.tokens.out]) + x.tokens.out
  <2> DEFINE f == [r \in T |-> r.tokens.out]
             g == [r \in S |-> r.tokens.out]
  <2>1. f \in [S \cup {x} -> Nat] /\ g \in [S -> Nat] /\ (\A r \in S : f[r] = g[r]) /\ f[x] = x.tokens.out
    BY <1>2
  <2> HIDE DEF f, g
  <2>2. Sum(f) = Sum(g) + f[x]
    BY <1>1, <2>1, SumOfOneMore
  <2> QED
    BY <2>1, <2>2 DEF f, g
<1>5. Sum([r \in T |-> r.tokens.cached]) = Sum([r \in S |-> r.tokens.cached]) + x.tokens.cached
  <2> DEFINE f == [r \in T |-> r.tokens.cached]
             g == [r \in S |-> r.tokens.cached]
  <2>1. f \in [S \cup {x} -> Nat] /\ g \in [S -> Nat] /\ (\A r \in S : f[r] = g[r]) /\ f[x] = x.tokens.cached
    BY <1>2
  <2> HIDE DEF f, g
  <2>2. Sum(f) = Sum(g) + f[x]
    BY <1>1, <2>1, SumOfOneMore
  <2> QED
    BY <2>1, <2>2 DEF f, g
<1>6. Sum([r \in T |-> r.tokens.reasoning]) = Sum([r \in S |-> r.tokens.reasoning]) + x.tokens.reasoning
  <2> DEFINE f == [r \in T |-> r.tokens.reasoning]
             g == [r \in S |-> r.tokens.reasoning]
  <2>1. f \in [S \cup {x} -> Nat] /\ g \in [S -> Nat] /\ (\A r \in S : f[r] = g[r]) /\ f[x] = x.tokens.reasoning
    BY <1>2
  <2> HIDE DEF f, g
  <2>2. Sum(f) = Sum(g) + f[x]
    BY <1>1, <2>1, SumOfOneMore
  <2> QED
    BY <2>1, <2>2 DEF f, g
<1> QED
  BY <1>3, <1>4, <1>5, <1>6 DEF Tokens

\* What is paid for rows at one price is what is paid for their sums.
LEMMA AmountOfSums ==
    ASSUME NEW e \in Prices, NEW S, Countable(S), Proper(S)
    PROVE  /\ Whole(Tokens(S))
           /\ Sum([r \in S |-> Amount(r.tokens, e)]) = Amount(Tokens(S), e)
<1> DEFINE A == [r \in S |-> Amount(r.tokens, e)]
           G == {T \in SUBSET S : Whole(Tokens(T)) /\ Sum(On(A, T)) = Amount(Tokens(T), e)}
<1>1. \A r \in S : Whole(r.tokens)
  BY DEF Countable, Proper, Whole
<1>2. A \in [S -> Nat]
  <2>1. ASSUME NEW r \in S PROVE Amount(r.tokens, e) \in Nat
    <3> DEFINE v == [in |-> r.tokens.in + r.tokens.in, out |-> r.tokens.out + r.tokens.out,
                     cached |-> r.tokens.cached + r.tokens.cached,
                     reasoning |-> r.tokens.reasoning + r.tokens.reasoning]
    <3>1. /\ v.in = r.tokens.in + r.tokens.in /\ v.out = r.tokens.out + r.tokens.out
          /\ v.cached = r.tokens.cached + r.tokens.cached
          /\ v.reasoning = r.tokens.reasoning + r.tokens.reasoning
      OBVIOUS
    <3> HIDE DEF v
    <3> QED
      BY <1>1, <3>1, AmountAdds
  <2> QED
    BY <2>1
<1>3. {} \in G
  <2>1. Sum(On(A, {})) = 0
    <3>1. DOMAIN On(A, {}) = {}
      BY DEF On
    <3> QED
      BY <3>1, SumOfNothing
  <2>2. Whole(Tokens({}))
    BY TokensOfNone DEF Whole, IsCount
  <2>3. Amount(Tokens({}), e) = 0
    <3> DEFINE a == Amount(Tokens({}), e)
    <3>1. a = a + a /\ a \in Nat
      <4> DEFINE t == Tokens({})
      <4>1. t.in = t.in + t.in /\ t.out = t.out + t.out /\ t.cached = t.cached + t.cached
            /\ t.reasoning = t.reasoning + t.reasoning /\ Whole(t)
        BY <2>2, TokensOfNone
      <4> HIDE DEF t
      <4>2. Amount(t, e) = Amount(t, e) + Amount(t, e) /\ Amount(t, e) \in Nat
        BY <4>1, AmountAdds
      <4> QED
        BY <4>2 DEF t
    <3> HIDE DEF a
    <3>2. a = 0
      BY <3>1
    <3> QED
      BY <3>2 DEF a
  <2> QED
    BY <2>1, <2>2, <2>3
<1>4. ASSUME NEW T \in SUBSET S, NEW x \in S \ T, T \in G PROVE T \cup {x} \in G
  <2> DEFINE U == T \cup {x}
  <2>1. Countable(U) /\ U \in SUBSET S
    BY FS_Subset DEF Countable
  <2>2. /\ Tokens(U).in = Tokens(T).in + x.tokens.in
        /\ Tokens(U).out = Tokens(T).out + x.tokens.out
        /\ Tokens(U).cached = Tokens(T).cached + x.tokens.cached
        /\ Tokens(U).reasoning = Tokens(T).reasoning + x.tokens.reasoning
    BY <2>1, TokensOfOneMore
  <2>3. Whole(Tokens(T)) /\ Sum(On(A, T)) = Amount(Tokens(T), e) /\ Whole(x.tokens)
    BY <1>1, <1>4
  <2> DEFINE t == Tokens(T)
             u == x.tokens
             v == Tokens(U)
  <2> HIDE DEF t, u, v
  <2>4. Whole(v) /\ Amount(v, e) = Amount(t, e) + Amount(u, e)
    BY <2>2, <2>3, AmountAdds DEF t, u, v
  <2>5. Sum(On(A, U)) = Sum(On(A, T)) + A[x]
    <3> DEFINE f == On(A, U)
               g == On(A, T)
    <3>1. f \in [T \cup {x} -> Nat] /\ g \in [T -> Nat] /\ (\A y \in T : f[y] = g[y]) /\ f[x] = A[x]
      BY <1>2 DEF On
    <3>2. IsFiniteSet(T) /\ x \notin T
      BY FS_Subset DEF Countable
    <3> HIDE DEF f, g, A, U
    <3>3. Sum(f) = Sum(g) + f[x]
      BY <3>1, <3>2, SumOfOneMore
    <3> QED
      BY <3>1, <3>3 DEF f, g
  <2>6. A[x] = Amount(u, e)
    BY DEF u
  <2>7. Whole(v) /\ Sum(On(A, U)) = Amount(v, e)
    BY <2>3, <2>4, <2>5, <2>6 DEF t
  <2> QED
    BY <2>1, <2>7 DEF v
<1> HIDE DEF G
<1>5. S \in G
  BY <1>3, <1>4, SetInduction DEF Countable
<1>6. On(A, S) = A
  BY DEF On
<1> QED
  BY <1>5, <1>6 DEF G

-----------------------------------------------------------------------------
(* What a report adds up *)

Paid(r) == Amount(r.tokens, TheEntry(r))

LEMMA SameModel ==
    ASSUME NEW r, NEW q, r.model = q.model
    PROVE  EntryOf(r) = EntryOf(q) /\ TheEntry(r) = TheEntry(q)
<1> DEFINE Es(m) == {e \in Prices : Base[m] \in {e.model} \cup e.aliases}
<1>1. EntryOf(r) = Es(r.model) /\ EntryOf(q) = Es(q.model)
  BY DEF EntryOf
<1> HIDE DEF Es
<1>2. EntryOf(r) = EntryOf(q)
  BY <1>1
<1> QED
  BY <1>2 DEF TheEntry

LEMMA PricedRows ==
    ASSUME NEW S, Countable(S), Proper(S)
    PROVE  /\ Priced(S) \in SUBSET S /\ IsFiniteSet(Priced(S))
           /\ \A r \in Priced(S) : TheEntry(r) \in Prices /\ Paid(r) \in Nat
<1>1. Priced(S) \in SUBSET S /\ IsFiniteSet(Priced(S))
  BY FS_Subset DEF Priced, Countable
<1>2. ASSUME NEW r \in Priced(S) PROVE TheEntry(r) \in Prices /\ Paid(r) \in Nat
  <2>1. EntryOf(r) # {} /\ EntryOf(r) \subseteq Prices
    BY <1>2 DEF Priced, EntryOf
  <2>2. TheEntry(r) \in Prices
    BY <2>1 DEF TheEntry
  <2>3. Whole(r.tokens)
    BY <1>1 DEF Countable, Proper, Whole
  <2> DEFINE t == r.tokens
             e == TheEntry(r)
             v == [in |-> t.in + t.in, out |-> t.out + t.out, cached |-> t.cached + t.cached,
                   reasoning |-> t.reasoning + t.reasoning]
  <2>4. /\ v.in = t.in + t.in /\ v.out = t.out + t.out
        /\ v.cached = t.cached + t.cached /\ v.reasoning = t.reasoning + t.reasoning
    OBVIOUS
  <2> HIDE DEF v, t, e
  <2>5. Amount(t, e) \in Nat
    BY <2>2, <2>3, <2>4, AmountAdds DEF t, e
  <2> QED
    BY <2>2, <2>5 DEF Paid, t, e
<1> QED
  BY <1>1, <1>2

\* The amount of rows, which is taken model by model, is what each of them is paid for.
LEMMA AmountIsOfEach ==
    ASSUME NEW S, Countable(S), Proper(S)
    PROVE  AmountOf(S) = Sum([r \in Priced(S) |-> Paid(r)])
<1> DEFINE Q == Priced(S)
           f == [r \in Q |-> Paid(r)]
           model == [r \in Q |-> r.model]
           M == {r.model : r \in Q}
           P == [m \in M |-> {r \in S : r.model = m}]
           V == [m \in M |-> LET T == {r \in S : r.model = m}
                             IN  Amount(Tokens(T), TheEntry(CHOOSE r \in T : TRUE))]
<1>1. Q \in SUBSET S /\ IsFiniteSet(Q) /\ f \in [Q -> Nat]
  BY PricedRows
<1>2. IsFiniteSet(M)
  <2>1. IsFiniteSet({model[r] : r \in Q})
    BY <1>1, ImageIsFinite
  <2>2. {model[r] : r \in Q} = M
    OBVIOUS
  <2> QED
    BY <2>1, <2>2
<1>3. ASSUME NEW m \in M
      PROVE  P[m] \in SUBSET Q /\ V[m] = Sum(On(f, P[m]))
  <2> DEFINE T == {r \in S : r.model = m}
             x == CHOOSE r \in T : TRUE
             e == TheEntry(x)
  <2>1. PICK q \in Q : q.model = m
    OBVIOUS
  <2>2. q \in T /\ x \in T
    BY <1>1, <2>1
  <2>3. \A r \in T : EntryOf(r) = EntryOf(q) /\ TheEntry(r) = e
    BY <2>1, <2>2, SameModel
  <2>4. \A r \in T : r \in Q
    BY <2>1, <2>3 DEF Priced
  <2>5. e \in Prices
    BY <2>2, <2>4, PricedRows
  <2>6. Countable(T) /\ Proper(T)
    BY FS_Subset DEF Countable, Proper
  <2>7. On(f, T) = [r \in T |-> Amount(r.tokens, e)]
    BY <2>3, <2>4 DEF On, Paid
  <2>8. V[m] = Amount(Tokens(T), e) /\ P[m] = T
    OBVIOUS
  <2> HIDE DEF T, e, f, V, P
  <2>9. Sum([r \in T |-> Amount(r.tokens, e)]) = Amount(Tokens(T), e)
    BY <2>5, <2>6, AmountOfSums
  <2> QED
    BY <2>4, <2>7, <2>8, <2>9
<1>4. \A m, k \in M : m # k => P[m] \cap P[k] = {}
  OBVIOUS
<1>5. \A r \in Q : \E m \in M : r \in P[m]
  BY <1>1
<1>6. AmountOf(S) = Sum(V)
  BY DEF AmountOf
<1>7. P \in [M -> SUBSET Q] /\ V = [m \in M |-> Sum(On(f, P[m]))]
  <2>1. DOMAIN P = M /\ DOMAIN V = M /\ P = [m \in M |-> P[m]] /\ V = [m \in M |-> V[m]]
    OBVIOUS
  <2> HIDE DEF P, V, M, f, Q
  <2> QED
    BY <1>3, <2>1
<1> HIDE DEF Q, f, M, P, V
<1>8. Sum([m \in M |-> Sum(On(f, P[m]))]) = Sum(f)
  BY <1>1, <1>2, <1>4, <1>5, <1>7, SumOfDivision
<1> QED
  BY <1>6, <1>7, <1>8 DEF f, Q

\* Groups that divide a set of rows by their keys, each with what its part adds up to.
PartOf(by, S, g) == {r \in S : KeyOf(by, r) = g.key}
GroupFields == {"key", "members", "totals", "amount", "priced", "no_price", "p50", "p95"}
Models(S) == {r.model : r \in S}
IsGrouping(by, S, gs) ==
    /\ DOMAIN gs = 1..Len(gs) /\ Len(gs) \in Nat
    /\ \A i \in DOMAIN gs :
          /\ DOMAIN gs[i] = GroupFields /\ PartOf(by, S, gs[i]) # {}
          /\ gs[i].members = Models(PartOf(by, S, gs[i]))
          /\ gs[i].totals = Totals(PartOf(by, S, gs[i]))
          /\ gs[i].amount = AmountOf(PartOf(by, S, gs[i]))
    /\ \A i, j \in DOMAIN gs : gs[i].key = gs[j].key => i = j
    /\ \A r \in S : \E i \in DOMAIN gs : KeyOf(by, r) = gs[i].key

LEMMA SubsetCountable ==
    ASSUME NEW S, Countable(S), NEW T \in SUBSET S
    PROVE  Countable(T) /\ (Proper(S) => Proper(T))
BY FS_Subset DEF Countable, Proper

LEMMA TotalsOf ==
    ASSUME NEW S
    PROVE  /\ Totals(S).requests = Cardinality(S) /\ Totals(S).tokens = Tokens(S)
           /\ Tokens(S).in = Sum([r \in S |-> r.tokens.in])
           /\ Tokens(S).out = Sum([r \in S |-> r.tokens.out])
BY DEF Totals, Tokens

EachPaid(S) == Sum([r \in Priced(S) |-> Paid(r)])
AddUpTo(gs, S) ==
    LET G == DOMAIN gs
    IN  /\ Sum([i \in G |-> gs[i].totals.requests]) = Cardinality(S)
        /\ Sum([i \in G |-> gs[i].totals.tokens.in]) = Tokens(S).in
        /\ Sum([i \in G |-> gs[i].totals.tokens.out]) = Tokens(S).out
        /\ Proper(S) => Sum([i \in G |-> gs[i].amount]) = EachPaid(S)

LEMMA GroupsAddUp ==
    ASSUME NEW by, NEW S, Countable(S), NEW gs, IsGrouping(by, S, gs)
    PROVE  AddUpTo(gs, S)
<1> DEFINE I == DOMAIN gs
           P == [i \in I |-> PartOf(by, S, gs[i])]
<1>1. IsFiniteSet(S) /\ IsFiniteSet(I)
  <2> DEFINE n == Len(gs)
  <2>1. I = 1..n /\ n \in Nat
    BY DEF IsGrouping
  <2> HIDE DEF n, I
  <2>2. IsFiniteSet(I)
    BY <2>1, FS_Interval
  <2> QED
    BY <2>2 DEF Countable
<1>2. /\ P \in [I -> SUBSET S]
      /\ \A i, j \in I : i # j => P[i] \cap P[j] = {}
      /\ \A r \in S : \E i \in I : r \in P[i]
  BY DEF IsGrouping, PartOf
<1>3. \A i \in I : gs[i].totals = Totals(P[i]) /\ gs[i].amount = AmountOf(P[i])
  BY DEF IsGrouping
<1> HIDE DEF I, P
<1>4. \A f \in [S -> Nat] : Sum([i \in I |-> Sum(On(f, P[i]))]) = Sum(f)
  BY <1>1, <1>2, SumOfDivision
<1>5. Sum([i \in I |-> gs[i].totals.requests]) = Cardinality(S)
  <2> DEFINE f == [r \in S |-> 1]
  <2>1. ASSUME NEW i \in I PROVE gs[i].totals.requests = Sum(On(f, P[i]))
    <3> DEFINE T == P[i]
    <3>1. T \in SUBSET S /\ IsFiniteSet(T)
      BY <1>1, <1>2, FS_Subset
    <3>2. gs[i].totals.requests = Cardinality(T)
      BY <1>3, TotalsOf
    <3> HIDE DEF T
    <3>3. Sum([r \in T |-> 1]) = Cardinality(T)
      BY <3>1, SumOfOnes
    <3>4. On(f, T) = [r \in T |-> 1]
      BY <3>1 DEF On
    <3> QED
      BY <3>2, <3>3, <3>4 DEF T
  <2>2. f \in [S -> Nat] /\ Sum(f) = Cardinality(S)
    BY <1>1, SumOfOnes
  <2> HIDE DEF f
  <2>3. [i \in I |-> gs[i].totals.requests] = [i \in I |-> Sum(On(f, P[i]))]
    BY <2>1
  <2> QED
    BY <1>4, <2>2, <2>3
<1>6. Sum([i \in I |-> gs[i].totals.tokens.in]) = Tokens(S).in
  <2> DEFINE f == [r \in S |-> r.tokens.in]
  <2>1. ASSUME NEW i \in I PROVE gs[i].totals.tokens.in = Sum(On(f, P[i]))
    <3> DEFINE T == P[i]
    <3>1. T \in SUBSET S
      BY <1>2
    <3>2. gs[i].totals.tokens.in = Sum([r \in T |-> r.tokens.in])
      BY <1>3, TotalsOf
    <3> HIDE DEF T
    <3>3. On(f, T) = [r \in T |-> r.tokens.in]
      BY <3>1 DEF On
    <3> QED
      BY <3>2, <3>3 DEF T
  <2>2. f \in [S -> Nat] /\ Sum(f) = Tokens(S).in
    BY TotalsOf DEF Countable, IsCount
  <2> HIDE DEF f
  <2>3. [i \in I |-> gs[i].totals.tokens.in] = [i \in I |-> Sum(On(f, P[i]))]
    BY <2>1
  <2> QED
    BY <1>4, <2>2, <2>3
<1>7. Sum([i \in I |-> gs[i].totals.tokens.out]) = Tokens(S).out
  <2> DEFINE f == [r \in S |-> r.tokens.out]
  <2>1. ASSUME NEW i \in I PROVE gs[i].totals.tokens.out = Sum(On(f, P[i]))
    <3> DEFINE T == P[i]
    <3>1. T \in SUBSET S
      BY <1>2
    <3>2. gs[i].totals.tokens.out = Sum([r \in T |-> r.tokens.out])
      BY <1>3, TotalsOf
    <3> HIDE DEF T
    <3>3. On(f, T) = [r \in T |-> r.tokens.out]
      BY <3>1 DEF On
    <3> QED
      BY <3>2, <3>3 DEF T
  <2>2. f \in [S -> Nat] /\ Sum(f) = Tokens(S).out
    BY TotalsOf DEF Countable, IsCount
  <2> HIDE DEF f
  <2>3. [i \in I |-> gs[i].totals.tokens.out] = [i \in I |-> Sum(On(f, P[i]))]
    BY <2>1
  <2> QED
    BY <1>4, <2>2, <2>3
<1>8. ASSUME Proper(S)
      PROVE  Sum([i \in I |-> gs[i].amount]) = Sum([r \in Priced(S) |-> Paid(r)])
  <2> DEFINE Q == Priced(S)
             f == [r \in Q |-> Paid(r)]
             R == [i \in I |-> Priced(P[i])]
  <2>1. IsFiniteSet(Q) /\ f \in [Q -> Nat]
    BY <1>8, PricedRows
  <2>2. /\ R \in [I -> SUBSET Q]
        /\ \A i, j \in I : i # j => R[i] \cap R[j] = {}
        /\ \A r \in Q : \E i \in I : r \in R[i]
    BY <1>2 DEF Priced
  <2>3. ASSUME NEW i \in I PROVE gs[i].amount = Sum(On(f, R[i]))
    <3> DEFINE T == P[i]
    <3>1. T \in SUBSET S
      BY <1>2
    <3>2. Countable(T) /\ Proper(T)
      BY <1>8, <3>1, SubsetCountable
    <3>3. gs[i].amount = AmountOf(T) /\ R[i] = Priced(T)
      BY <1>3
    <3>4. R[i] \in SUBSET Q
      BY <2>2
    <3>5. On(f, R[i]) = [r \in R[i] |-> Paid(r)]
      BY <3>4 DEF On
    <3> HIDE DEF T, f, R
    <3>6. AmountOf(T) = Sum([r \in Priced(T) |-> Paid(r)])
      BY <3>2, AmountIsOfEach
    <3> QED
      BY <3>3, <3>5, <3>6
  <2> HIDE DEF f, R, Q
  <2>4. [i \in I |-> gs[i].amount] = [i \in I |-> Sum(On(f, R[i]))]
    BY <2>3
  <2>5. Sum([i \in I |-> Sum(On(f, R[i]))]) = Sum(f)
    BY <1>1, <2>1, <2>2, SumOfDivision
  <2> QED
    BY <2>4, <2>5 DEF f, Q
<1> QED
  BY <1>5, <1>6, <1>7, <1>8 DEF I, AddUpTo, EachPaid

\* The rows the percentiles of a group are taken from are its part.
LEMMA GroupIsPart ==
    ASSUME NEW by, NEW S, NEW g, g.members = Models(PartOf(by, S, g))
    PROVE  {r \in S : InGroup(by, g, r)} = PartOf(by, S, g)
<1>1. CASE by # "model"
  BY <1>1 DEF InGroup, PartOf
<1>2. CASE by = "model"
  <2>1. ASSUME NEW r, NEW q, r.model = q.model PROVE KeyOf(by, r) = KeyOf(by, q)
    <3>1. KeyOf(by, r) = (IF EntryOf(r) = {} THEN Base[r.model] ELSE TheEntry(r).model)
      BY <1>2 DEF KeyOf
    <3>2. KeyOf(by, q) = (IF EntryOf(q) = {} THEN Base[q.model] ELSE TheEntry(q).model)
      BY <1>2 DEF KeyOf
    <3>3. EntryOf(r) = EntryOf(q) /\ TheEntry(r) = TheEntry(q)
      BY <2>1, SameModel
    <3> QED
      BY <2>1, <3>1, <3>2, <3>3
  <2>2. ASSUME NEW r \in S PROVE r.model \in g.members <=> KeyOf(by, r) = g.key
    <3>1. ASSUME r.model \in g.members PROVE KeyOf(by, r) = g.key
      <4>1. PICK q \in PartOf(by, S, g) : q.model = r.model
        BY <3>1 DEF Models
      <4>2. KeyOf(by, q) = g.key
        BY <4>1 DEF PartOf
      <4> QED
        BY <2>1, <4>1, <4>2
    <3>2. ASSUME KeyOf(by, r) = g.key PROVE r.model \in g.members
      BY <3>2 DEF PartOf, Models
    <3> QED
      BY <3>1, <3>2
  <2>3. \A r : InGroup(by, g, r) <=> r.model \in g.members
    BY <1>2 DEF InGroup
  <2> QED
    BY <2>2, <2>3 DEF PartOf
<1> QED
  BY <1>1, <1>2

LEMMA FieldsOfGroup ==
    ASSUME NEW k, NEW T, NEW g, g = Group(k, T)
    PROVE  /\ DOMAIN g = GroupFields /\ g.key = k /\ g.members = Models(T)
           /\ g.totals = Totals(T) /\ g.amount = AmountOf(T)
<1> DEFINE m == Models(T)
           t == Totals(T)
           a == AmountOf(T)
           p == Priced(T) # {}
           q == Priced(T) # T
<1>1. g = [key |-> k, members |-> m, totals |-> t, amount |-> a, priced |-> p, no_price |-> q,
           p50 |-> 0, p95 |-> 0]
  BY DEF Group, Models
<1> HIDE DEF m, t, a, p, q
<1>2. /\ DOMAIN g = GroupFields /\ g.key = k /\ g.members = m /\ g.totals = t /\ g.amount = a
  BY <1>1 DEF GroupFields
<1> QED
  BY <1>2 DEF m, t, a

\* The groups of one grouping, in some order.
Keys(by, S) == SetToSeq({KeyOf(by, r) : r \in S})
Groups(by, S) ==
    [i \in DOMAIN Keys(by, S) |-> Group(Keys(by, S)[i], {r \in S : KeyOf(by, r) = Keys(by, S)[i]})]

LEMMA GroupsDivide ==
    ASSUME NEW by, NEW S, IsFiniteSet(S)
    PROVE  /\ IsGrouping(by, S, Groups(by, S))
           /\ Keys(by, S) = <<>> <=> Len(Groups(by, S)) = 0
<1> DEFINE keys == Keys(by, S)
           gs == Groups(by, S)
           key == [r \in S |-> KeyOf(by, r)]
           K == {KeyOf(by, r) : r \in S}
           n == Cardinality(K)
<1>0. /\ keys = SetToSeq(K)
      /\ gs = [i \in DOMAIN keys |-> Group(keys[i], {r \in S : KeyOf(by, r) = keys[i]})]
  BY DEF Keys, Groups
<1>1. IsFiniteSet(K)
  <2>1. {key[r] : r \in S} = K
    OBVIOUS
  <2>2. IsFiniteSet({key[r] : r \in S})
    BY ImageIsFinite
  <2> QED
    BY <2>1, <2>2
<1>2. \A r \in S : KeyOf(by, r) \in K
  OBVIOUS
<1> HIDE DEF K, n, keys, gs
<1>3. /\ keys \in [1..n -> K] /\ n \in Nat
      /\ \A i, j \in 1..n : keys[i] = keys[j] => i = j
      /\ \A x \in K : \E i \in 1..n : keys[i] = x
  BY <1>0, <1>1, SetInARow DEF n
<1>4. DOMAIN keys = 1..n /\ DOMAIN gs = 1..n
  BY <1>0, <1>3
<1>5. Len(gs) = n
  <2> DEFINE E(i) == Group(keys[i], {r \in S : KeyOf(by, r) = keys[i]})
  <2>1. gs = [i \in 1..n |-> E(i)]
    BY <1>0, <1>4
  <2> HIDE DEF E
  <2>2. Len([i \in 1..n |-> E(i)]) = n
    BY <1>3
  <2> QED
    BY <2>1, <2>2
<1>6. ASSUME NEW i \in 1..n
      PROVE  /\ gs[i].key = keys[i] /\ DOMAIN gs[i] = GroupFields /\ PartOf(by, S, gs[i]) # {}
             /\ gs[i].members = Models(PartOf(by, S, gs[i]))
             /\ gs[i].totals = Totals(PartOf(by, S, gs[i]))
             /\ gs[i].amount = AmountOf(PartOf(by, S, gs[i]))
  <2> DEFINE T == {r \in S : KeyOf(by, r) = keys[i]}
             k == keys[i]
  <2>1. gs[i] = Group(k, T)
    BY <1>0, <1>4
  <2> HIDE DEF T, k
  <2>2. /\ gs[i].key = k /\ DOMAIN gs[i] = GroupFields /\ gs[i].members = Models(T)
        /\ gs[i].totals = Totals(T) /\ gs[i].amount = AmountOf(T)
    BY <2>1, FieldsOfGroup
  <2>3. PartOf(by, S, gs[i]) = T
    BY <2>2 DEF PartOf, T, k
  <2>4. T # {}
    <3>1. keys[i] \in K
      BY <1>3
    <3> QED
      BY <3>1 DEF K, T
  <2> QED
    BY <2>2, <2>3, <2>4 DEF k
<1>7. keys = <<>> <=> n = 0
  BY <1>3, <1>4
<1>8. \A i, j \in 1..n : keys[i] = keys[j] => i = j
  BY <1>3
<1>9. IsGrouping(by, S, gs)
  <2>1. DOMAIN gs = 1..Len(gs) /\ Len(gs) \in Nat
    BY <1>3, <1>4, <1>5
  <2>2. \A i \in DOMAIN gs : /\ DOMAIN gs[i] = GroupFields /\ PartOf(by, S, gs[i]) # {}
                            /\ gs[i].members = Models(PartOf(by, S, gs[i]))
                            /\ gs[i].totals = Totals(PartOf(by, S, gs[i]))
                            /\ gs[i].amount = AmountOf(PartOf(by, S, gs[i]))
    BY <1>4, <1>6
  <2>3. \A i \in DOMAIN gs : gs[i].key = keys[i]
    BY <1>4, <1>6
  <2>4. \A i, j \in DOMAIN gs : gs[i].key = gs[j].key => i = j
    <3>1. ASSUME NEW i \in 1..n, NEW j \in 1..n, gs[i].key = gs[j].key PROVE i = j
      <4>1. keys[i] = keys[j]
        BY <1>4, <2>3, <3>1
      <4> QED
        BY <1>8, <4>1
    <3> QED
      BY <1>4, <3>1
  <2>5. ASSUME NEW r \in S PROVE \E i \in DOMAIN gs : KeyOf(by, r) = gs[i].key
    <3> DEFINE x == KeyOf(by, r)
    <3>1. x \in K
      BY <1>2
    <3> HIDE DEF x
    <3>2. PICK i \in 1..n : keys[i] = x
      BY <1>3, <3>1
    <3>3. x = gs[i].key
      BY <1>4, <2>3, <3>2
    <3> QED
      BY <1>4, <3>3 DEF x
  <2> QED
    BY <2>1, <2>2, <2>4, <2>5 DEF IsGrouping
<1> QED
  BY <1>5, <1>7, <1>9 DEF keys, gs

-----------------------------------------------------------------------------
(* The table *)

\* A finite table of rows that count something.
Table ==
    /\ IsFiniteSet(rows)
    /\ \A row \in rows \cup ToSet(pending) : row.req \notin Reqs => IsCount(row.tokens)

LEMMA SaysCounts ==
    ASSUME NEW c, c.answer \in Answers, NEW i \in 1..Len(c.answer.frames), NEW t \in Says(c, i)
    PROVE  IsCount(t)
<1> DEFINE f == c.answer.frames[i]
           places == f.usage \cup UNION {x.usage : x \in f.response}
<1>1. \A u \in places : IsUsage(u)
  <2> DEFINE s == c.answer.frames
             F == ToSet(s)
  <2>1. s \in Seq(F) /\ i \in 1..Len(s)
    BY AnswersAssumption
  <2> HIDE DEF s, F
  <2>2. s[i] \in F
    BY <2>1
  <2> QED
    BY <2>2, CountsAssumption DEF s, F
<1>2. PICK u \in places : ~u.null /\ t = UsageFields(u)
  <2>1. \/ t \in ParseUsage(f.usage)
        \/ t \in UNION {ParseUsage(x.usage) : x \in f.response}
    BY DEF Says
  <2> QED
    BY <2>1 DEF ParseUsage
<1>3. /\ u.prompt_tokens \subseteq Nat /\ u.input_tokens \subseteq Nat
      /\ u.completion_tokens \subseteq Nat /\ u.output_tokens \subseteq Nat
      /\ u.prompt_details \subseteq Nat /\ u.input_details \subseteq Nat
      /\ u.completion_details \subseteq Nat /\ u.output_details \subseteq Nat
  BY <1>1, <1>2 DEF IsUsage
<1>4. /\ t.in = Pick(u.prompt_tokens, u.input_tokens)
      /\ t.out = Pick(u.completion_tokens, u.output_tokens)
      /\ t.cached = Pick(u.prompt_details, u.input_details)
      /\ t.reasoning = Pick(u.completion_details, u.output_details)
  BY <1>2 DEF UsageFields
<1> QED
  BY <1>3, <1>4, PickIsNatural DEF IsCount

LEMMA RowCounts ==
    ASSUME NEW c, IsCall(c), NEW row, RowTells(row, c)
    PROVE  IsCount(row.tokens)
<1>1. /\ c.pc = "done" /\ c.ask \in Asks /\ c.answer \in Answers /\ c.at \in Nat
      /\ c.at <= Len(c.answer.frames) /\ Len(c.answer.frames) \in Nat /\ MeterTells(c)
  BY FramesAreFrames DEF RowTells, IsCall
<1>2. c.ask.size \in Nat
  BY <1>1, AsksAssumption
<1>3. c.meter.chars \in Nat
  BY <1>1, TextIsNatural DEF MeterTells
<1>4. IsCount(NoTokens)
  BY DEF NoTokens, IsCount
<1>5. IsCount(Metered(c).tokens)
  <2>1. CASE c.meter.usage = {}
    <3> DEFINE a == EstimateTokens(c.ask.size)
               b == EstimateTokens(c.meter.chars)
    <3>1. a \in Nat /\ b \in Nat
      BY <1>2, <1>3, EstimateFits
    <3>2. Metered(c).tokens = [NoTokens EXCEPT !.in = a, !.out = b]
      BY <2>1 DEF Metered, Counted
    <3> DEFINE t == Metered(c).tokens
    <3>3. /\ DOMAIN NoTokens = {"in", "out", "cached", "reasoning"}
          /\ NoTokens.cached = 0 /\ NoTokens.reasoning = 0
      BY DEF NoTokens
    <3> HIDE DEF a, b, t
    <3>4. t.in = a /\ t.out = b /\ t.cached = 0 /\ t.reasoning = 0
      BY <3>2, <3>3 DEF t
    <3> QED
      BY <3>1, <3>4 DEF IsCount, t
  <2>2. CASE c.meter.usage # {}
    <3>1. Metered(c).tokens \in c.meter.usage
      BY <2>2 DEF Metered, Counted
    <3>2. PICK i \in 1..c.at : c.meter.usage = Says(c, i)
      BY <1>1, <2>2 DEF MeterTells
    <3>3. i \in 1..Len(c.answer.frames)
      BY <1>1
    <3> QED
      BY <1>1, <3>1, <3>2, <3>3, SaysCounts
  <2> QED
    BY <2>1, <2>2
<1> QED
  BY <1>4, <1>5 DEF RowTells

LEMMA TableCounts ==
    ASSUME RowsInv, Table, NEW S \in SUBSET rows
    PROVE  Countable(S)
<1>1. ASSUME NEW row \in rows PROVE IsCount(row.tokens) /\ row.latency \in Nat
  <2>1. row.latency \in Nat
    BY DEF RowsInv, Dated
  <2>2. CASE row.req \notin Reqs
    BY <2>1, <2>2 DEF Table
  <2>3. CASE row.req \in Reqs
    <3>1. RowTells(row, call[row.req]) /\ IsCall(call[row.req])
      BY <2>3 DEF RowsInv, Stands
    <3> QED
      BY <2>1, <3>1, RowCounts
  <2> QED
    BY <2>2, <2>3
<1> QED
  BY <1>1, FS_Subset DEF Table, Countable

LEMMA TableStep == ASSUME RowsInv, Table, [Next]_vars PROVE Table'
<1>1. ASSUME NEW r \in Reqs, Handler(r) PROVE Table'
  <2>1. PICK row : /\ UNCHANGED rows
                   /\ UNCHANGED pending \/ (row.req = r /\ pending' = Append(pending, row))
    BY <1>1, HandlersHandle DEF Handles
  <2>2. ToSet(pending') \subseteq ToSet(pending) \cup {row}
    <3>1. PICK S : pending \in Seq(S)
      BY DEF RowsInv, IsSequence
    <3>2. pending \in Seq(S \cup {row})
      BY <3>1
    <3> QED
      BY <2>1, <3>2 DEF ToSet
  <2>3. pending' = pending \/ row.req \in Reqs
    BY <2>1
  <2>4. pending' = pending => ToSet(pending') = ToSet(pending)
    OBVIOUS
  <2>5. \A x \in rows' \cup ToSet(pending') : x.req \notin Reqs => x \in rows \cup ToSet(pending)
    BY <2>1, <2>2, <2>3, <2>4
  <2> QED
    BY <2>1, <2>5 DEF Table
<1>2. CASE Insert
  <2>1. PICK n \in DOMAIN pending : /\ rows' = rows \cup {pending[i] : i \in 1..n}
                                    /\ pending' = SubSeq(pending, n + 1, Len(pending))
    BY <1>2 DEF Insert
  <2>2. PICK S : pending \in Seq(S)
    BY DEF RowsInv, IsSequence
  <2>3. n \in 1..Len(pending) /\ DOMAIN pending = 1..Len(pending) /\ Len(pending) \in Nat
    BY <2>1, <2>2
  <2>4. {pending[i] : i \in 1..n} \subseteq ToSet(pending)
    BY <2>3 DEF ToSet
  <2>5. ToSet(pending') \subseteq ToSet(pending)
    BY <2>1, <2>2, <2>3 DEF ToSet
  <2>6. IsFiniteSet({pending[i] : i \in 1..n})
    <3> DEFINE f == [i \in 1..n |-> pending[i]]
    <3>1. IsFiniteSet(1..n)
      BY <2>3, FS_Interval
    <3>2. {f[i] : i \in 1..n} = {pending[i] : i \in 1..n} /\ DOMAIN f = 1..n
      OBVIOUS
    <3> HIDE DEF f
    <3>3. IsFiniteSet({f[i] : i \in 1..n})
      BY <3>1, <3>2, ImageIsFinite
    <3> QED
      BY <3>2, <3>3
  <2>7. IsFiniteSet(rows')
    BY <2>1, <2>6, FS_Union DEF Table
  <2>8. rows' \cup ToSet(pending') \subseteq rows \cup ToSet(pending)
    BY <2>1, <2>4, <2>5
  <2> QED
    BY <2>7, <2>8 DEF Table
<1>3. ASSUME NEW p \in Pruners, PruneBatch(p) PROVE Table'
  <2>1. rows' \subseteq rows /\ UNCHANGED pending
    BY <1>3 DEF PruneBatch
  <2> QED
    BY <2>1, FS_Subset DEF Table
<1>4. ASSUME UNCHANGED <<rows, pending>> PROVE Table'
  BY <1>4 DEF Table
<1>5. ASSUME NEW p \in Pruners, BeginPrune(p) \/ PruneFails(p) PROVE Table'
  BY <1>4, <1>5 DEF BeginPrune, PruneFails
<1>6. CASE Midnight \/ Report \/ UNCHANGED vars
  BY <1>4, <1>6 DEF Midnight, vars, Report, OpenReport, QueryGroups, QueryCount, QueryOffsets, QueryTotals,
                    QueryTotalOffsets, CloseReport, Step, tableVars
<1> QED
  BY <1>1, <1>2, <1>3, <1>5, <1>6 DEF Next, Prune

LEMMA TableInit == Init => Table
<1> SUFFICES ASSUME Init PROVE Table
  OBVIOUS
<1>1. rows = Stored /\ ToSet(pending) = {}
  BY DEF Init, ToSet
<1> QED
  BY <1>1, StoredAssumption, CountsAssumption DEF Table

-----------------------------------------------------------------------------
(* A report under which nothing moves *)

ReportFields == {"pc", "filter", "todo", "groups", "i", "n", "amount", "total", "shown", "touched"}

\* What a report shows of one grouping adds up to the rows S.
Right(b, S) ==
    /\ b.total = {Totals(S)} /\ Median(S, b.p50) /\ AddUpTo(b.groups, S)
    /\ Proper(S) => b.amount = EachPaid(S)
    /\ \A i \in DOMAIN b.groups : Median(PartOf(b.by, S, b.groups[i]), b.groups[i].p50)

\* The groups of a report so far: those before the one it is at have their medians.
Divides(by, gs, i, S) ==
    /\ IsGrouping(by, S, gs)
    /\ \A j \in DOMAIN gs : j < i => Median(PartOf(by, S, gs[j]), gs[j].p50)

Grouped == {"count", "offsets", "total", "totalOffsets"}
Follows(q, S) ==
    /\ IsSequence(q.shown) /\ \A b \in ToSet(q.shown) : Right(b, S)
    /\ q.pc \in Grouped =>
          /\ Divides(Head(q.todo), q.groups, q.i, S) /\ (Proper(S) => q.amount = EachPaid(S))
          /\ q.i \in Nat \ {0}
          /\ IF q.pc \in {"count", "offsets"} THEN q.i <= Len(q.groups) ELSE q.i = Len(q.groups) + 1
    /\ q.pc = "offsets" =>
          q.n # 0 /\ q.n = Cardinality({r \in S : InGroup(Head(q.todo), q.groups[q.i], r)})
    /\ q.pc = "totalOffsets" => q.total = {Totals(S)}

ReportInv ==
    /\ DOMAIN report = ReportFields
    /\ report.pc # "none" /\ ~report.touched => Follows(report, Selected(report.filter))

AddedUp(gs) == Sum([i \in DOMAIN gs |-> gs[i].amount])

\* What the queries make of a report q over the rows S.
Grouping(q, S, t) ==
    t = [q EXCEPT !.pc = IF Keys(Head(q.todo), S) = <<>> THEN "total" ELSE "count", !.i = 1,
             !.groups = Groups(Head(q.todo), S), !.amount = AddedUp(Groups(Head(q.todo), S))]
InTheGroup(q, S) == {r \in S : InGroup(Head(q.todo), q.groups[q.i], r)}
AfterGroup(q) == IF q.i < Len(q.groups) THEN "count" ELSE "total"
Counting(q, S, t) ==
    LET n == Cardinality(InTheGroup(q, S))
    IN  t = IF n = 0 THEN [q EXCEPT !.pc = AfterGroup(q), !.i = @ + 1]
            ELSE [q EXCEPT !.pc = "offsets", !.n = n]
WithPercentiles(g, S, n) ==
    [g EXCEPT !.p50 = Percentile(S, n \div 2), !.p95 = Percentile(S, (n * 19) \div 20)]
Ranking(q, S, t) ==
    t = [q EXCEPT !.pc = AfterGroup(q), !.i = @ + 1, !.n = 0,
                  !.groups[q.i] = WithPercentiles(q.groups[q.i], InTheGroup(q, S), q.n)]
Totalling(q, S, t) == t = [q EXCEPT !.pc = "totalOffsets", !.total = {Totals(S)}]
ToShow(q, p50, p95) ==
    [by |-> Head(q.todo), groups |-> q.groups, amount |-> q.amount, total |-> q.total, p50 |-> p50, p95 |-> p95]
Showing(q, b, t) ==
    t = [q EXCEPT !.shown = Append(@, b),
                  !.pc = IF Len(q.todo) > 1 THEN "groups" ELSE "shown",
                  !.todo = Tail(@), !.groups = <<>>, !.i = 0, !.amount = 0, !.total = {}]

\* The report it makes is still right about them.
StillFollows(q, S, t) ==
    /\ DOMAIN t = ReportFields /\ t.filter = q.filter /\ t.touched = q.touched
    /\ t.pc # "none" /\ Follows(t, S)

\* Grouped by the next grouping.
LEMMA GroupsFollow ==
    ASSUME NEW S, Countable(S), NEW q, DOMAIN q = ReportFields, q.pc = "groups", Follows(q, S),
           NEW t, Grouping(q, S, t)
    PROVE  StillFollows(q, S, t)
<1> DEFINE by == Head(q.todo)
           gs == Groups(by, S)
           pc == IF Keys(by, S) = <<>> THEN "total" ELSE "count"
<1>1. IsGrouping(by, S, gs) /\ (Keys(by, S) = <<>> <=> Len(gs) = 0)
  BY GroupsDivide DEF Countable
<1>2. pc \in {"total", "count"} /\ (pc = "total" <=> Keys(by, S) = <<>>)
  OBVIOUS
<1> HIDE DEF pc
<1>3. /\ DOMAIN t = ReportFields /\ t.filter = q.filter /\ t.touched = q.touched
      /\ t.pc = pc /\ t.i = 1 /\ t.groups = gs /\ t.amount = AddedUp(gs) /\ t.todo = q.todo /\ t.shown = q.shown
  BY DEF ReportFields, Grouping, pc
<1> HIDE DEF gs
<1>4. Divides(by, gs, 1, S) /\ Len(gs) \in Nat
  <2>1. \A j \in DOMAIN gs : ~(j < 1)
    BY <1>1 DEF IsGrouping
  <2> QED
    BY <1>1, <2>1 DEF Divides, IsGrouping
<1>5. IF t.pc \in {"count", "offsets"} THEN t.i <= Len(t.groups) ELSE t.i = Len(t.groups) + 1
  BY <1>1, <1>2, <1>3, <1>4
<1>6. Divides(Head(t.todo), t.groups, t.i, S) /\ t.i \in Nat \ {0}
  BY <1>3, <1>4
<1>7. IsSequence(t.shown) /\ \A b \in ToSet(t.shown) : Right(b, S)
  BY <1>3 DEF Follows
<1>8. t.pc # "offsets" /\ t.pc # "totalOffsets" /\ t.pc # "none"
  BY <1>2, <1>3
<1>9. Proper(S) => t.amount = EachPaid(S)
  <2>1. AddUpTo(gs, S)
    BY <1>1, GroupsAddUp
  <2> QED
    BY <1>3, <2>1 DEF AddUpTo, AddedUp
<1>10. Follows(t, S)
  BY <1>3, <1>5, <1>6, <1>7, <1>8, <1>9 DEF Follows
<1> QED
  BY <1>3, <1>8, <1>10 DEF StillFollows

\* The group a report is at has its median, and the report goes on to the next.
LEMMA NextFollows ==
    ASSUME NEW S, NEW q, DOMAIN q = ReportFields, q.pc \in {"count", "offsets"}, Follows(q, S),
           NEW t, DOMAIN t = ReportFields, Divides(Head(t.todo), t.groups, t.i, S),
           Len(t.groups) = Len(q.groups), t.pc = AfterGroup(q),
           t.i = q.i + 1, t.shown = q.shown, t.amount = q.amount
    PROVE  t.pc # "none" /\ Follows(t, S)
<1>1. q.i \in Nat \ {0} /\ q.i <= Len(q.groups) /\ Len(q.groups) \in Nat
  <2>1. /\ Divides(Head(q.todo), q.groups, q.i, S) /\ q.i \in Nat \ {0}
        /\ IF q.pc \in {"count", "offsets"} THEN q.i <= Len(q.groups) ELSE q.i = Len(q.groups) + 1
    BY DEF Follows, Grouped
  <2>2. Len(q.groups) \in Nat
    BY <2>1 DEF Divides, IsGrouping
  <2> QED
    BY <2>1, <2>2
<1>2. IF t.pc \in {"count", "offsets"} THEN t.i <= Len(t.groups) ELSE t.i = Len(t.groups) + 1
  BY <1>1 DEF AfterGroup
<1>3. t.pc \in {"count", "total"} /\ t.i \in Nat \ {0}
  BY <1>1 DEF AfterGroup
<1>4. Proper(S) => t.amount = EachPaid(S)
  BY DEF Follows, Grouped
<1> QED
  BY <1>2, <1>3, <1>4 DEF Follows, Grouped

LEMMA CountFollows ==
    ASSUME NEW S, Countable(S), NEW q, DOMAIN q = ReportFields, q.pc = "count", Follows(q, S),
           NEW t, Counting(q, S, t)
    PROVE  StillFollows(q, S, t)
<1> DEFINE n == Cardinality(InTheGroup(q, S))
           by == Head(q.todo)
           gs == q.groups
           i == q.i
           g == gs[i]
           P == PartOf(by, S, g)
<1>1. /\ Divides(by, gs, i, S) /\ i \in Nat \ {0} /\ i <= Len(gs)
  BY DEF Follows, Grouped
<1>2. i \in DOMAIN gs /\ DOMAIN gs = 1..Len(gs) /\ Len(gs) \in Nat
  BY <1>1 DEF Divides, IsGrouping
<1>3. n = Cardinality(P) /\ P \in SUBSET S
  <2>1. g.members = Models(P)
    BY <1>1, <1>2 DEF Divides, IsGrouping
  <2>2. {r \in S : InGroup(by, g, r)} = P
    BY <2>1, GroupIsPart
  <2> QED
    BY <2>2 DEF PartOf, InTheGroup
<1>4. CASE n = 0
  <2>2. P = {}
    <3> HIDE DEF P
    <3>1. IsFiniteSet(P)
      BY <1>3, FS_Subset DEF Countable
    <3> QED
      BY <1>3, <1>4, <3>1, FS_EmptySet
  <2>3. P # {}
    BY <1>1, <1>2 DEF Divides, IsGrouping
  <2> QED
    BY <2>2, <2>3
<1>5. CASE n # 0
  <2>1. /\ DOMAIN t = ReportFields /\ t.filter = q.filter /\ t.touched = q.touched /\ t.pc = "offsets"
        /\ t.n = n /\ t.i = i /\ t.groups = gs /\ t.todo = q.todo /\ t.shown = q.shown /\ t.amount = q.amount
    BY <1>5 DEF ReportFields, Counting
  <2> QED
    BY <1>1, <1>5, <2>1 DEF Follows, Grouped, InTheGroup, StillFollows
<1> QED
  BY <1>4, <1>5

\* A group gets its percentiles.
LEMMA OffsetsFollow ==
    ASSUME NEW S, Countable(S), NEW q, DOMAIN q = ReportFields, q.pc = "offsets", Follows(q, S),
           NEW t, Ranking(q, S, t)
    PROVE  StillFollows(q, S, t)
<1> DEFINE gs == q.groups
           by == Head(q.todo)
           i == q.i
           h == gs[i]
           P == PartOf(by, S, h)
           R == InTheGroup(q, S)
           p50 == Percentile(R, q.n \div 2)
           p95 == Percentile(R, (q.n * 19) \div 20)
           g == WithPercentiles(h, R, q.n)
           hs == [gs EXCEPT ![i] = g]
<1>1. /\ Divides(by, gs, i, S) /\ i \in Nat \ {0} /\ i <= Len(gs) /\ q.n = Cardinality(R)
  BY DEF Follows, Grouped, InTheGroup
<1>2. /\ i \in DOMAIN gs /\ DOMAIN gs = 1..Len(gs) /\ Len(gs) \in Nat
      /\ DOMAIN h = GroupFields /\ h.members = Models(P) /\ P # {}
  BY <1>1 DEF Divides, IsGrouping
<1>3. R = P
  BY <1>2, GroupIsPart DEF InTheGroup
<1>4. Median(P, p50)
  <2>1. IsFiniteSet(P) /\ \A r \in P : r.latency \in Nat
    BY FS_Subset DEF Countable, PartOf
  <2> HIDE DEF P, R
  <2>2. Median(P, Percentile(P, Cardinality(P) \div 2))
    BY <1>2, <2>1, MiddleIsMedian
  <2> QED
    BY <1>1, <1>3, <2>2
<1>5. /\ DOMAIN g = GroupFields /\ g.key = h.key /\ g.members = h.members /\ g.totals = h.totals
      /\ g.amount = h.amount /\ g.p50 = p50
  <2>1. g = [h EXCEPT !.p50 = p50, !.p95 = p95]
    BY DEF WithPercentiles
  <2> HIDE DEF g, h, p50, p95
  <2> QED
    BY <1>2, <2>1 DEF GroupFields
<1>6. /\ DOMAIN t = ReportFields /\ t.filter = q.filter /\ t.touched = q.touched
      /\ t.pc = AfterGroup(q)
      /\ t.i = i + 1 /\ t.groups = hs /\ t.todo = q.todo /\ t.shown = q.shown /\ t.amount = q.amount
  BY DEF ReportFields, Ranking
<1>7. DOMAIN hs = DOMAIN gs /\ hs[i] = g /\ \A j \in DOMAIN gs : j # i => hs[j] = gs[j]
  BY <1>2
<1>8. Len(hs) = Len(gs)
  <2>1. hs \in Seq({hs[j] : j \in DOMAIN gs}) /\ DOMAIN hs = 1..Len(gs) /\ Len(gs) \in Nat
    <3> DEFINE n == Len(gs)
               V == {hs[j] : j \in DOMAIN gs}
    <3>1. n \in Nat /\ DOMAIN hs = 1..n /\ hs = [j \in 1..n |-> hs[j]] /\ \A j \in 1..n : hs[j] \in V
      BY <1>2, <1>7
    <3> HIDE DEF n, V, hs
    <3>2. hs \in [1..n -> V]
      BY <3>1
    <3>3. hs \in Seq(V)
      BY <3>1, <3>2
    <3> QED
      BY <3>1, <3>3 DEF n, V
  <2> HIDE DEF hs
  <2> QED
    BY <2>1
<1> HIDE DEF gs, by, i, h, P, R, p50, p95, g, hs
<1>9. Divides(by, hs, i + 1, S)
  <2>1. \A j \in DOMAIN gs : hs[j].key = gs[j].key
    BY <1>5, <1>7 DEF h
  <2>2. \A j \in DOMAIN gs : PartOf(by, S, hs[j]) = PartOf(by, S, gs[j])
    BY <2>1 DEF PartOf
  <2>3. \A j \in DOMAIN gs : /\ DOMAIN hs[j] = GroupFields /\ hs[j].members = gs[j].members
                             /\ hs[j].totals = gs[j].totals /\ hs[j].amount = gs[j].amount
    <3>1. \A j \in DOMAIN gs : DOMAIN gs[j] = GroupFields
      BY <1>1 DEF Divides, IsGrouping
    <3> QED
      BY <1>5, <1>7, <3>1 DEF h
  <2>4. IsGrouping(by, S, hs)
    <3>1. IsGrouping(by, S, gs)
      BY <1>1 DEF Divides
    <3>2. DOMAIN hs = 1..Len(hs) /\ Len(hs) \in Nat
      BY <1>2, <1>7, <1>8
    <3>3. \A j \in DOMAIN hs : /\ DOMAIN hs[j] = GroupFields /\ PartOf(by, S, hs[j]) # {}
                               /\ hs[j].members = Models(PartOf(by, S, hs[j]))
                               /\ hs[j].totals = Totals(PartOf(by, S, hs[j]))
                               /\ hs[j].amount = AmountOf(PartOf(by, S, hs[j]))
      BY <1>7, <2>2, <2>3, <3>1 DEF IsGrouping
    <3>4. \A j, k \in DOMAIN hs : hs[j].key = hs[k].key => j = k
      BY <1>7, <2>1, <3>1 DEF IsGrouping
    <3>5. \A r \in S : \E j \in DOMAIN hs : KeyOf(by, r) = hs[j].key
      <4>1. \A r \in S : \E j \in DOMAIN gs : KeyOf(by, r) = gs[j].key
        BY <3>1 DEF IsGrouping
      <4> QED
        BY <1>7, <2>1, <4>1
    <3> QED
      BY <3>2, <3>3, <3>4, <3>5 DEF IsGrouping
  <2>5. ASSUME NEW j \in DOMAIN hs, j < i + 1 PROVE Median(PartOf(by, S, hs[j]), hs[j].p50)
    <3>1. CASE j = i
      BY <1>4, <1>5, <1>7, <2>2, <2>5, <3>1 DEF P, h
    <3>2. CASE j # i
      <4>1. j \in DOMAIN gs /\ hs[j] = gs[j] /\ j < i
        BY <1>1, <1>2, <1>7, <2>5, <3>2
      <4> QED
        BY <1>1, <4>1 DEF Divides
    <3> QED
      BY <3>1, <3>2
  <2> QED
    BY <2>4, <2>5 DEF Divides
<1>10. t.pc # "none" /\ Follows(t, S)
  <2>1. /\ q.pc \in {"count", "offsets"} /\ Divides(Head(t.todo), t.groups, t.i, S)
        /\ Len(t.groups) = Len(q.groups) /\ t.i = q.i + 1
    BY <1>6, <1>8, <1>9 DEF gs, by, i
  <2> QED
    BY <1>6, <2>1, NextFollows
<1> QED
  BY <1>6, <1>10 DEF StillFollows

\* The totals of all rows.
LEMMA TotalsFollow ==
    ASSUME NEW S, NEW q, DOMAIN q = ReportFields, q.pc = "total", Follows(q, S), NEW t, Totalling(q, S, t)
    PROVE  StillFollows(q, S, t)
<1> DEFINE T == {Totals(S)}
<1> HIDE DEF T
<1>1. /\ DOMAIN t = ReportFields /\ t.filter = q.filter /\ t.touched = q.touched /\ t.pc = "totalOffsets"
      /\ t.total = T /\ t.i = q.i /\ t.groups = q.groups /\ t.todo = q.todo /\ t.shown = q.shown
      /\ t.amount = q.amount
  BY DEF ReportFields, Totalling, T
<1>2. Follows(t, S)
  BY <1>1 DEF Follows, Grouped, T
<1> QED
  BY <1>1, <1>2 DEF StillFollows

\* What is shown is right.
LEMMA ShownIsRight ==
    ASSUME NEW S, Countable(S), NEW q, q.pc = "totalOffsets", Follows(q, S), NEW p50, Median(S, p50), NEW p95,
           NEW b, b = ToShow(q, p50, p95)
    PROVE  Right(b, S)
<1>1. b.by = Head(q.todo) /\ b.groups = q.groups /\ b.amount = q.amount /\ b.total = q.total /\ b.p50 = p50
  BY DEF ToShow
<1>2. /\ Divides(b.by, b.groups, q.i, S) /\ (Proper(S) => b.amount = EachPaid(S))
      /\ q.i = Len(b.groups) + 1 /\ b.total = {Totals(S)}
  BY <1>1 DEF Follows, Grouped
<1>3. IsGrouping(b.by, S, b.groups)
  BY <1>2 DEF Divides
<1>4. \A j \in DOMAIN b.groups : j < q.i
  BY <1>2, <1>3 DEF IsGrouping
<1>5. \A j \in DOMAIN b.groups : Median(PartOf(b.by, S, b.groups[j]), b.groups[j].p50)
  BY <1>2, <1>4 DEF Divides
<1>6. AddUpTo(b.groups, S)
  BY <1>3, GroupsAddUp
<1> QED
  BY <1>1, <1>2, <1>5, <1>6 DEF Right

LEMMA ShownFollow ==
    ASSUME NEW S, NEW q, DOMAIN q = ReportFields, Follows(q, S), NEW b, Right(b, S), NEW t, Showing(q, b, t)
    PROVE  StillFollows(q, S, t)
<1>1. /\ DOMAIN t = ReportFields /\ t.filter = q.filter /\ t.touched = q.touched
      /\ t.pc = IF Len(q.todo) > 1 THEN "groups" ELSE "shown"
      /\ t.shown = Append(q.shown, b)
  BY DEF ReportFields, Showing
<1>2. t.pc \in {"groups", "shown"}
  BY <1>1
<1>3. IsSequence(t.shown) /\ ToSet(t.shown) \subseteq ToSet(q.shown) \cup {b}
  <2>1. PICK U : q.shown \in Seq(U)
    BY DEF Follows, IsSequence
  <2>2. q.shown \in Seq(U \cup {b})
    BY <2>1
  <2>3. t.shown \in Seq(U \cup {b}) /\ ToSet(t.shown) \subseteq ToSet(q.shown) \cup {b}
    BY <1>1, <2>2 DEF ToSet
  <2> QED
    BY <2>3 DEF IsSequence
<1>4. \A x \in ToSet(t.shown) : Right(x, S)
  BY <1>3 DEF Follows
<1>5. Follows(t, S)
  BY <1>2, <1>3, <1>4 DEF Follows, Grouped
<1> QED
  BY <1>1, <1>2, <1>5 DEF StillFollows

-----------------------------------------------------------------------------

LEMMA ReportSteps == ASSUME RowsInv, Table, ReportInv, Report PROVE ReportInv'
<1> DEFINE q == report
           t == report'
           S == Selected(report.filter)
           by == Head(report.todo)
<1>1. UNCHANGED rows
  BY DEF Report, OpenReport, QueryGroups, QueryCount, QueryOffsets, QueryTotals,
         QueryTotalOffsets, CloseReport, Step, tableVars
<1>2. Selected(report.filter)' = Selected(t.filter)
  BY <1>1 DEF Selected
<1>3. Countable(S)
  BY TableCounts DEF Selected
<1>4. DOMAIN q = ReportFields /\ (q.pc # "none" /\ ~q.touched => Follows(q, S))
  BY DEF ReportInv
<1>5. ASSUME StillFollows(q, S, t) PROVE ReportInv'
  BY <1>2, <1>5 DEF ReportInv, StillFollows
<1>6. CASE q.touched /\ ~OpenReport /\ ~CloseReport
  <2>1. DOMAIN t = ReportFields /\ t.touched = q.touched
    <3>1. QueryGroups \/ QueryCount \/ QueryOffsets \/ QueryTotals \/ QueryTotalOffsets
      BY <1>6 DEF Report
    <3> QED
      BY <1>4, <3>1 DEF QueryGroups, QueryCount, QueryOffsets, QueryTotals, QueryTotalOffsets, Step, Shown,
                        ReportFields
  <2> QED
    BY <1>6, <2>1 DEF ReportInv
<1>7. CASE OpenReport
  <2>1. PICK r \in Reports :
            t = [NoReport EXCEPT !.pc = "groups", !.filter = r.filter, !.todo = r.groupings]
    BY <1>7 DEF OpenReport, Step
  <2>2. DOMAIN NoReport = ReportFields /\ NoReport.shown = <<>>
    BY DEF NoReport, ReportFields
  <2>3. DOMAIN t = ReportFields /\ t.pc = "groups" /\ t.shown = <<>>
    BY <2>1, <2>2 DEF ReportFields
  <2>4. <<>> \in Seq({}) /\ ToSet(<<>>) = {}
    BY DEF ToSet
  <2>5. Follows(t, Selected(t.filter))
    BY <2>3, <2>4 DEF Follows, Grouped, IsSequence
  <2> QED
    BY <1>2, <2>3, <2>5 DEF ReportInv
<1>8. CASE CloseReport
  <2>1. t = NoReport
    BY <1>8 DEF CloseReport, Step
  <2> QED
    BY <2>1 DEF NoReport, ReportFields, ReportInv
<1>9. CASE QueryGroups /\ ~q.touched
  <2>1. q.pc = "groups" /\ Grouping(q, S, t)
    BY <1>9 DEF QueryGroups, At, Step, Grouping, Keys, Groups, AddedUp
  <2> HIDE DEF S
  <2>2. StillFollows(q, S, t)
    BY <1>3, <1>4, <1>9, <2>1, GroupsFollow
  <2> QED
    BY <1>5, <2>2
<1>10. CASE QueryCount /\ ~q.touched
  <2>1. q.pc = "count" /\ Counting(q, S, t)
    BY <1>10 DEF QueryCount, RowsOfGroup, NextGroup, At, Step, Counting, InTheGroup, AfterGroup
  <2> HIDE DEF S
  <2>2. StillFollows(q, S, t)
    BY <1>3, <1>4, <1>10, <2>1, CountFollows
  <2> QED
    BY <1>5, <2>2
<1>11. CASE QueryOffsets /\ ~q.touched
  <2>1. q.pc = "offsets" /\ Ranking(q, S, t)
    BY <1>11 DEF QueryOffsets, RowsOfGroup, NextGroup, At, Step, Ranking, InTheGroup, AfterGroup, WithPercentiles
  <2> HIDE DEF S
  <2>2. StillFollows(q, S, t)
    BY <1>3, <1>4, <1>11, <2>1, OffsetsFollow
  <2> QED
    BY <1>5, <2>2
<1>12. CASE QueryTotals /\ ~q.touched
  <2>1. q.pc = "total" /\ Totalling(q, S, t)
    BY <1>12 DEF QueryTotals, At, Step, Totalling
  <2> HIDE DEF S
  <2>2. StillFollows(q, S, t)
    BY <1>4, <1>12, <2>1, TotalsFollow
  <2> QED
    BY <1>5, <2>2
<1>13. CASE QueryTotalOffsets /\ ~q.touched
  <2> DEFINE n == (CHOOSE x \in q.total : TRUE).requests
  <2>1. q.pc = "totalOffsets" /\ Follows(q, S)
    BY <1>4, <1>13 DEF QueryTotalOffsets, At
  <2>2. n = Cardinality(S)
    <3>1. q.total = {Totals(S)}
      BY <2>1 DEF Follows
    <3>2. (CHOOSE x \in q.total : TRUE) = Totals(S)
      BY <3>1
    <3> QED
      BY <3>2, TotalsOf
  <2>3. PICK p50, p95 : Median(S, p50) /\ t = Shown(p50, p95)
    <3>1. t = IF n = 0 THEN Shown(0, 0)
              ELSE Shown(Percentile(S, n \div 2), Percentile(S, (n * 19) \div 20))
      BY <1>13 DEF QueryTotalOffsets, Step
    <3>2. IsFiniteSet(S) /\ \A r \in S : r.latency \in Nat
      BY <1>3 DEF Countable
    <3> HIDE DEF S, n
    <3>3. CASE n = 0
      <4>1. S = {}
        BY <2>2, <3>2, <3>3, FS_EmptySet
      <4> QED
        BY <3>1, <3>3, <4>1, MedianOfNone
    <3>4. CASE n # 0
      <4>1. S # {}
        BY <2>2, <3>4, FS_EmptySet
      <4>2. Median(S, Percentile(S, n \div 2))
        BY <2>2, <3>2, <4>1, MiddleIsMedian
      <4> QED
        BY <3>1, <3>4, <4>2
    <3> QED
      BY <3>3, <3>4
  <2> DEFINE b == ToShow(q, p50, p95)
  <2>4. Showing(q, b, t)
    BY <2>3 DEF Shown, Showing, ToShow
  <2>5. b = ToShow(q, p50, p95)
    OBVIOUS
  <2> HIDE DEF S, b
  <2>6. Right(b, S)
    BY <1>3, <2>1, <2>3, <2>5, ShownIsRight
  <2>7. StillFollows(q, S, t)
    BY <1>4, <2>1, <2>4, <2>6, ShownFollow
  <2> QED
    BY <1>5, <2>7
<1> QED
  BY <1>6, <1>7, <1>8, <1>9, <1>10, <1>11, <1>12, <1>13 DEF Report

LEMMA ReportInvStep == ASSUME RowsInv, Table, ReportInv, [Next]_vars PROVE ReportInv'
<1>1. ASSUME UNCHANGED <<rows, report>> PROVE ReportInv'
  <2>1. Selected(report.filter)' = Selected(report.filter)
    BY <1>1 DEF Selected
  <2> QED
    BY <1>1, <2>1 DEF ReportInv
<1>2. ASSUME report' = Touched PROVE ReportInv'
  <2>1. DOMAIN report' = ReportFields /\ report'.pc = report.pc /\ (report'.pc # "none" => report'.touched)
    BY <1>2 DEF Touched, ReportInv, ReportFields
  <2> QED
    BY <2>1 DEF ReportInv
<1>3. ASSUME NEW r \in Reqs, Handler(r) PROVE ReportInv'
  <2>1. UNCHANGED <<rows, report>>
    BY <1>3 DEF Handler, Begin, Relay, RelayFails, StreamEnds, Respond, Fail, Finish, tableVars
  <2> QED
    BY <1>1, <2>1
<1>4. ASSUME NEW p \in Pruners, PruneBatch(p) PROVE ReportInv'
  BY <1>1, <1>2, <1>4 DEF PruneBatch
<1>5. ASSUME NEW p \in Pruners, BeginPrune(p) \/ PruneFails(p) PROVE ReportInv'
  BY <1>1, <1>5 DEF BeginPrune, PruneFails
<1>6. CASE Insert
  BY <1>2, <1>6 DEF Insert
<1>7. CASE Midnight \/ UNCHANGED vars
  BY <1>1, <1>7 DEF Midnight, vars
<1>8. CASE Report
  BY <1>8, ReportSteps
<1> QED
  BY <1>3, <1>4, <1>5, <1>6, <1>7, <1>8 DEF Next, Prune

\* Whatever rows there are, whatever they are selected and grouped by and however
\* requests and pruners go on beside it: a report no row came or went under adds up.
THEOREM ReportsAreRight == Spec => []ReportsAddUp
<1>1. Init => RowsInv /\ Table /\ ReportInv
  <2>1. Init => ReportInv
    BY DEF Init, ReportInv, NoReport, ReportFields
  <2> QED
    BY <2>1, RowsInvInit, TableInit
<1>2. RowsInv /\ Table /\ ReportInv /\ [Next]_vars => RowsInv' /\ Table' /\ ReportInv'
  BY RowsInvStep, TableStep, ReportInvStep
<1>3. ReportInv => ReportsAddUp
  <2> SUFFICES ASSUME ReportInv, report.pc = "shown", ~report.touched PROVE ReportsAddUp
    BY DEF ReportsAddUp
  <2> DEFINE S == Selected(report.filter)
  <2>1. IsSequence(report.shown) /\ \A b \in ToSet(report.shown) : Right(b, S)
    BY DEF ReportInv, Follows
  <2>2. \A k \in DOMAIN report.shown : Right(report.shown[k], S)
    BY <2>1 DEF ToSet
  <2> QED
    BY <2>2 DEF ReportsAddUp, Right, AddUpTo, EachPaid, Paid, PartOf
<1> QED
  BY <1>1, <1>2, <1>3, PTL DEF Spec
==============================================================================
