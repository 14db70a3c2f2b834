---------------------------- MODULE FairSemProofs ----------------------------
(***************************************************************************)
(* Theorems about FairSem for every set of requests and every set of caps. *)
(***************************************************************************)
EXTENDS FairSem, SequenceLemmas, FiniteSetTheorems, TLAPS

-----------------------------------------------------------------------------
(* The queue *)

IInv == TypeOK /\ NoLostWakeup /\ WorkConserving

\* With no cancelled waiter queued, popWaiterLocked asked for k waiters takes
\* the first k entries, or all of them when there are fewer.
LEMMA PopsPrefix ==
    ASSUME TypeOK, NoLostWakeup, NEW k \in Nat
    PROVE  /\ PopCount(k) \in 0 .. Len(waiters)
           /\ PopCount(k) = IF k <= Len(waiters) THEN k ELSE Len(waiters)
           /\ Live(PopCount(k)) = 1 .. PopCount(k)
           /\ Cardinality(Live(PopCount(k))) = PopCount(k)
  <1> DEFINE L == Len(waiters)
             N == {n \in 0 .. L : Cardinality(Live(n)) = k}
  <1>1. L \in Nat
    BY DEF TypeOK
  <1>2. ASSUME NEW n \in 0 .. L
        PROVE  Live(n) = 1 .. n /\ Cardinality(Live(n)) = n
    <2>1. Live(n) = 1 .. n
      BY <1>1 DEF Live, NoLostWakeup
    <2>2. Cardinality(1 .. n) = n
      BY FS_Interval
    <2>3. QED
      BY <2>1, <2>2
  <1>3. N = IF k <= L THEN {k} ELSE {}
    BY <1>1, <1>2
  <1>4. Min(N \cup {L}) = IF k <= L THEN k ELSE L
    BY <1>1, <1>3 DEF Min
  <1>5. PopCount(k) = IF k <= L THEN k ELSE L
    BY <1>4 DEF PopCount
  <1>6. PopCount(k) \in 0 .. L
    BY <1>1, <1>5
  <1>7. QED
    BY <1>2, <1>5, <1>6

\* The entries popped and the entries that stay split the queue in two.
LEMMA PopSplits ==
    ASSUME TypeOK, NoLostWakeup, NEW k \in Nat
    PROVE  /\ Rest(k) \in Seq(Reqs)
           /\ Len(Rest(k)) = Len(waiters) - PopCount(k)
           /\ \A i \in 1 .. Len(Rest(k)) : Rest(k)[i] = waiters[i + PopCount(k)]
           /\ \A i, j \in 1 .. Len(Rest(k)) : Rest(k)[i] = Rest(k)[j] => i = j
           /\ ToSet(waiters) = Popped(k) \cup ToSet(Rest(k))
           /\ Popped(k) \cap ToSet(Rest(k)) = {}
  <1> DEFINE n == PopCount(k)
             L == Len(waiters)
             R == Rest(k)
  <1>1. n \in 0 .. L /\ Live(n) = 1 .. n
    BY PopsPrefix
  <1>2. L \in Nat /\ waiters \in Seq(Reqs)
    BY DEF TypeOK
  <1>3. /\ R \in Seq(Reqs)
        /\ Len(R) = L - n
        /\ \A i \in 1 .. (L - n) : R[i] = waiters[i + n]
    BY <1>1, <1>2, DropFirst DEF Rest
  <1>4. Popped(k) = {waiters[i] : i \in 1 .. n}
    BY <1>1 DEF Popped
  <1> HIDE DEF n, R
  <1>5. ToSet(waiters) = {waiters[i] : i \in 1 .. L}
    BY <1>2, Elements
  <1>6. ToSet(R) = {waiters[i] : i \in (n + 1) .. L}
    <2>1. ToSet(R) = {R[i] : i \in 1 .. (L - n)}
      BY <1>3, Elements
    <2>2. ASSUME NEW i \in (n + 1) .. L
          PROVE  \E j \in 1 .. (L - n) : R[j] = waiters[i]
      <3>1. i - n \in 1 .. (L - n) /\ (i - n) + n = i
        BY <1>1, <1>2
      <3>2. QED
        BY <1>3, <3>1
    <2>3. ASSUME NEW j \in 1 .. (L - n)
          PROVE  \E i \in (n + 1) .. L : R[j] = waiters[i]
      BY <1>1, <1>2, <1>3
    <2>4. QED
      BY <2>1, <2>2, <2>3
  <1>7. \A i, j \in 1 .. L : waiters[i] = waiters[j] => i = j
    BY DEF NoLostWakeup
  <1>8. \A i, j \in 1 .. (L - n) : R[i] = R[j] => i = j
    <2>1. SUFFICES ASSUME NEW i \in 1 .. (L - n), NEW j \in 1 .. (L - n), R[i] = R[j]
                   PROVE  i = j
      OBVIOUS
    <2>2. i + n \in 1 .. L /\ j + n \in 1 .. L
      BY <1>1, <1>2
    <2>3. waiters[i + n] = waiters[j + n]
      BY <1>3, <2>1
    <2>4. i + n = j + n
      BY <1>7, <2>2, <2>3
    <2>5. QED
      BY <1>1, <2>4
  <1>9. ToSet(waiters) = Popped(k) \cup ToSet(R)
    BY <1>1, <1>2, <1>4, <1>5, <1>6
  <1>10. Popped(k) \cap ToSet(R) = {}
    BY <1>1, <1>2, <1>4, <1>6, <1>7
  <1>11. QED
    BY <1>3, <1>8, <1>9, <1>10 DEF n, R

\* While the queue is empty or no slot is free, the drain in Acquire does nothing.
LEMMA NothingToDrain ==
    ASSUME IInv
    PROVE  /\ Popped(avail) = {}
           /\ Rest(avail) = waiters
           /\ Left(avail) = avail
  <1>1. avail \in Nat /\ waiters \in Seq(Reqs) /\ capacity \in Nat
    BY CapsAssumption DEF IInv, TypeOK
  <1>2. PopCount(avail) = 0 /\ Live(0) = 1 .. 0 /\ Cardinality(Live(0)) = 0
    <2>1. PopCount(avail) = IF avail <= Len(waiters) THEN avail ELSE Len(waiters)
      BY <1>1, PopsPrefix DEF IInv
    <2>2. avail > 0 => Len(waiters) = 0
      BY DEF IInv, WorkConserving
    <2>3. PopCount(avail) = 0
      BY <1>1, <2>1, <2>2
    <2>4. QED
      BY <1>1, <2>3, PopsPrefix DEF IInv
  <1>3. Popped(avail) = {}
    BY <1>2 DEF Popped
  <1>4. Rest(avail) = waiters
    BY <1>1, <1>2, SubSeqFull DEF Rest
  <1>5. Left(avail) = avail
    BY <1>1, <1>2 DEF Left
  <1>6. QED
    BY <1>3, <1>4, <1>5

-----------------------------------------------------------------------------
(* The inductive invariant *)

\* NoLostWakeup in the next state, from facts about sets.
LEMMA WakeupBySets ==
    ASSUME waiters' \in Seq(Reqs),
           \A r \in Reqs : Waiting(r)' <=> (r \in ToSet(waiters') \/ r \in chan'),
           ToSet(waiters') \cap (chan' \cup cancelled') = {},
           \A i, j \in 1 .. Len(waiters') : waiters'[i] = waiters'[j] => i = j
    PROVE  NoLostWakeup'
  <1>1. \A i \in 1 .. Len(waiters') : waiters'[i] \in ToSet(waiters')
    BY Elements
  <1>2. QED
    BY <1>1 DEF NoLostWakeup

\* The parts of the invariant the steps below rely on, by sets.
LEMMA QueueFacts ==
    ASSUME IInv
    PROVE  /\ waiters \in Seq(Reqs)
           /\ ToSet(waiters) \subseteq Reqs
           /\ ToSet(waiters) \cap (chan \cup cancelled) = {}
           /\ \A r \in Reqs : Waiting(r) <=> (r \in ToSet(waiters) \/ r \in chan)
           /\ \A i, j \in 1 .. Len(waiters) : waiters[i] = waiters[j] => i = j
           /\ capacity \in Nat /\ avail \in Nat /\ avail <= capacity
  <1>1. waiters \in Seq(Reqs) /\ ToSet(waiters) = {waiters[i] : i \in 1 .. Len(waiters)}
    BY Elements DEF IInv, TypeOK
  <1>2. QED
    BY <1>1, CapsAssumption DEF IInv, TypeOK, NoLostWakeup

LEMMA InitIInv == Init => IInv
  <1> SUFFICES ASSUME Init
               PROVE  IInv
    OBVIOUS
  <1>1. capacity \in Nat
    BY CapsAssumption DEF Init
  <1>2. TypeOK
    BY <1>1 DEF Init, TypeOK, States
  <1>3. Len(waiters) = 0 /\ ToSet(waiters) = {}
    BY DEF Init, ToSet
  <1>4. NoLostWakeup
    BY <1>3 DEF Init, NoLostWakeup, Waiting
  <1>5. WorkConserving
    BY DEF Init, WorkConserving
  <1>6. QED
    BY <1>2, <1>4, <1>5 DEF IInv

LEMMA AcquireKeepsIInv ==
    ASSUME IInv, NEW r \in Reqs, Acquire(r)
    PROVE  IInv'
  <1> USE QueueFacts, NothingToDrain
  <1>1. CASE AcquireUnlimited(r)
    <2>1. TypeOK'
      BY <1>1 DEF AcquireUnlimited, IInv, TypeOK, States
    <2>2. NoLostWakeup'
      BY <1>1, WakeupBySets DEF AcquireUnlimited, IInv, TypeOK, Waiting
    <2>3. WorkConserving'
      BY <1>1 DEF AcquireUnlimited, IInv, WorkConserving
    <2>4. QED
      BY <2>1, <2>2, <2>3 DEF IInv
  <1>2. CASE AcquireFree(r)
    <2>1. waiters = <<>> /\ waiters' = waiters /\ chan' = chan /\ avail' = avail - 1
      BY <1>2 DEF AcquireFree, IInv, WorkConserving
    <2>2. TypeOK'
      BY <1>2, <2>1 DEF AcquireFree, IInv, TypeOK, States
    <2>3. NoLostWakeup'
      BY <1>2, <2>1, WakeupBySets DEF AcquireFree, IInv, TypeOK, Waiting
    <2>4. WorkConserving'
      BY <2>1 DEF WorkConserving
    <2>5. QED
      BY <2>2, <2>3, <2>4 DEF IInv
  <1>3. CASE AcquireQueued(r)
    <2>1. /\ waiters' = Append(waiters, r) /\ chan' = chan /\ avail' = 0 /\ avail = 0
          /\ capacity > 0 /\ capacity' = capacity
      BY <1>3 DEF AcquireQueued
    <2>2. TypeOK'
      BY <1>3, <2>1 DEF AcquireQueued, IInv, TypeOK, States
    <2>3. r \notin ToSet(waiters) \cup chan
      BY <1>3 DEF AcquireQueued, Waiting
    <2>4. /\ Len(waiters') = Len(waiters) + 1
          /\ \A i \in 1 .. Len(waiters) : waiters'[i] = waiters[i]
          /\ waiters'[Len(waiters) + 1] = r
          /\ waiters' \in Seq(Reqs)
      BY <2>1
    <2>5. ToSet(waiters') = ToSet(waiters) \cup {r}
      <3>1. /\ ToSet(waiters) = {waiters[i] : i \in 1 .. Len(waiters)}
            /\ ToSet(waiters') = {waiters'[i] : i \in 1 .. Len(waiters')}
        BY <2>4, Elements
      <3>2. QED
        BY <2>4, <3>1
    <2>6. \A i, j \in 1 .. Len(waiters') : waiters'[i] = waiters'[j] => i = j
      BY <2>3, <2>4, Elements
    <2>7. NoLostWakeup'
      BY <1>3, <2>1, <2>3, <2>4, <2>5, <2>6, WakeupBySets
         DEF AcquireQueued, IInv, TypeOK, Waiting
    <2>8. WorkConserving'
      BY <2>1 DEF WorkConserving
    <2>9. QED
      BY <2>2, <2>7, <2>8 DEF IInv
  <1>4. QED
    BY <1>1, <1>2, <1>3 DEF Acquire

LEMMA WaitKeepsIInv ==
    ASSUME IInv, NEW r \in Reqs, Receive(r) \/ WaitEnds(r) \/ AbandonGranted(r)
    PROVE  IInv'
  <1> USE QueueFacts DEF Receive, WaitEnds, AbandonGranted
  <1>1. TypeOK'
    BY DEF IInv, TypeOK, States
  <1>2. NoLostWakeup'
    BY WakeupBySets DEF IInv, TypeOK, Waiting
  <1>3. WorkConserving'
    BY DEF IInv, WorkConserving
  <1>4. QED
    BY <1>1, <1>2, <1>3 DEF IInv

LEMMA AbandonKeepsIInv ==
    ASSUME IInv, NEW r \in Reqs, AbandonQueued(r)
    PROVE  IInv'
  <1> USE QueueFacts
  <1>1. PICK k \in 1 .. Len(waiters) : waiters[k] = r
    BY Elements DEF AbandonQueued, Waiting
  <1>2. /\ waiters' \in Seq(Reqs)
        /\ Len(waiters') = Len(waiters) - 1
        /\ \A j \in 1 .. (Len(waiters) - 1) :
             waiters'[j] = IF j < k THEN waiters[j] ELSE waiters[j + 1]
    BY <1>1, RemoveOnly, Zenon DEF AbandonQueued
  <1>3. /\ UNCHANGED <<capacity, avail, chan>>
        /\ cancelled' = cancelled \cup {r} /\ pc' = [pc EXCEPT ![r] = "idle"]
        /\ r \notin chan /\ pc[r] = "leaving"
    BY DEF AbandonQueued
  <1>4. ToSet(waiters') = ToSet(waiters) \ {r}
    <2>1. ASSUME NEW i \in 1 .. Len(waiters), i # k
          PROVE  \E j \in 1 .. Len(waiters') : waiters'[j] = waiters[i]
      <3>1. CASE i < k
        BY <3>1, <1>2
      <3>2. CASE i > k
        <4>1. i - 1 \in 1 .. Len(waiters') /\ ~(i - 1 < k) /\ (i - 1) + 1 = i
          BY <3>2, <1>2
        <4>2. QED
          BY <4>1, <1>2
      <3>3. QED
        BY <2>1, <3>1, <3>2
    <2>2. ASSUME NEW j \in 1 .. Len(waiters')
          PROVE  \E i \in 1 .. Len(waiters) : i # k /\ waiters'[j] = waiters[i]
      BY <1>2
    <2>3. /\ ToSet(waiters) = {waiters[i] : i \in 1 .. Len(waiters)}
          /\ ToSet(waiters') = {waiters'[i] : i \in 1 .. Len(waiters')}
      BY <1>2, Elements
    <2>4. \A i \in 1 .. Len(waiters) : waiters[i] = r <=> i = k
      BY <1>1
    <2>5. ASSUME NEW x \in ToSet(waiters')
          PROVE  x \in ToSet(waiters) \ {r}
      BY <2>2, <2>3, <2>4
    <2>6. ASSUME NEW x \in ToSet(waiters), x # r
          PROVE  x \in ToSet(waiters')
      <3>1. PICK i \in 1 .. Len(waiters) : x = waiters[i]
        BY <2>3
      <3>2. i # k
        BY <1>1, <2>6, <3>1
      <3>3. PICK j \in 1 .. Len(waiters') : waiters'[j] = x
        BY <2>1, <3>1, <3>2
      <3>4. QED
        BY <2>3, <3>3
    <2>7. QED
      BY <2>5, <2>6
  <1>5. \A i, j \in 1 .. Len(waiters') : waiters'[i] = waiters'[j] => i = j
    BY <1>2
  <1>6. TypeOK'
    BY <1>2, <1>3 DEF IInv, TypeOK, States
  <1>7. NoLostWakeup'
    BY <1>2, <1>3, <1>4, <1>5, WakeupBySets DEF IInv, TypeOK, Waiting
  <1>8. WorkConserving'
    <2>1. waiters # <<>>
      BY <1>1
    <2>2. QED
      BY <1>3, <2>1 DEF IInv, WorkConserving
  <1>9. QED
    BY <1>6, <1>7, <1>8 DEF IInv

LEMMA ReleaseKeepsIInv ==
    ASSUME IInv, NEW r \in Reqs, Release(r)
    PROVE  IInv'
  <1> USE QueueFacts
  <1>1. CASE ReleaseUnlimited(r)
    <2>1. TypeOK'
      BY <1>1 DEF Release, ReleaseUnlimited, IInv, TypeOK, States
    <2>2. NoLostWakeup'
      BY <1>1, WakeupBySets DEF Release, ReleaseUnlimited, IInv, TypeOK, Waiting
    <2>3. WorkConserving'
      BY <1>1 DEF Release, ReleaseUnlimited, IInv, WorkConserving
    <2>4. QED
      BY <2>1, <2>2, <2>3 DEF IInv
  <1>2. CASE ReleaseHandOff(r)
    <2>1. /\ waiters' = Rest(1) /\ chan' = chan \cup Popped(1)
          /\ UNCHANGED <<capacity, avail, cancelled>>
          /\ pc[r] = "held" /\ pc' = [pc EXCEPT ![r] = "idle"] /\ capacity > 0
      BY <1>2 DEF Release, ReleaseHandOff
    <2>2. /\ waiters' \in Seq(Reqs)
          /\ \A i, j \in 1 .. Len(waiters') : waiters'[i] = waiters'[j] => i = j
          /\ ToSet(waiters) = Popped(1) \cup ToSet(waiters')
          /\ Popped(1) \cap ToSet(waiters') = {}
      BY <2>1, PopSplits DEF IInv
    <2>3. TypeOK'
      BY <2>1, <2>2 DEF IInv, TypeOK, States
    <2>4. NoLostWakeup'
      BY <2>1, <2>2, WakeupBySets DEF IInv, TypeOK, Waiting
    <2>5. WorkConserving'
      <3>1. waiters = <<>> => waiters' = <<>>
        <4>1. waiters = <<>> => ToSet(waiters) = {}
          BY DEF ToSet
        <4>2. ToSet(waiters') = {} => waiters' = <<>>
          BY <2>2, Elements
        <4>3. QED
          BY <2>2, <4>1, <4>2
      <3>2. QED
        BY <2>1, <3>1 DEF IInv, WorkConserving
    <2>6. QED
      BY <2>3, <2>4, <2>5 DEF IInv
  <1>3. CASE ReleaseFree(r)
    <2>1. /\ waiters' = <<>> /\ UNCHANGED <<capacity, chan, cancelled>>
          /\ avail' = Clamp(avail + 1, capacity) /\ capacity > 0
          /\ pc[r] = "held" /\ pc' = [pc EXCEPT ![r] = "idle"]
      BY <1>3 DEF Release, ReleaseFree
    <2>2. waiters = <<>>
      <3>1. Live(Len(waiters)) = {}
        BY <1>3 DEF ReleaseFree
      <3>2. Len(waiters) = 0
        BY <3>1 DEF IInv, NoLostWakeup, Live
      <3>3. QED
        BY <3>2, Elements
    <2>3. avail' \in 0 .. capacity
      BY <2>1 DEF Clamp
    <2>4. TypeOK'
      BY <2>1, <2>2, <2>3 DEF IInv, TypeOK, States
    <2>5. NoLostWakeup'
      BY <2>1, <2>2, WakeupBySets DEF IInv, TypeOK, Waiting
    <2>6. WorkConserving'
      BY <2>1 DEF WorkConserving
    <2>7. QED
      BY <2>4, <2>5, <2>6 DEF IInv
  <1>4. QED
    BY <1>1, <1>2, <1>3 DEF Release

\* The value of avail before the drain of setCapacity.
LEMMA ResizedType ==
    ASSUME IInv, NEW c \in Caps, c # 0
    PROVE  Resized(c) \in 0 .. c
  BY QueueFacts, CapsAssumption DEF Resized, Clamp

LEMMA ResizeKeepsIInv ==
    ASSUME IInv, Resize
    PROVE  IInv'
  <1> USE QueueFacts
  <1>1. CASE Uncap
    <2>1. {waiters[i] : i \in Live(Len(waiters))} = ToSet(waiters)
      <3>1. Live(Len(waiters)) = 1 .. Len(waiters)
        BY DEF IInv, NoLostWakeup, Live
      <3>2. QED
        BY <3>1, Elements
    <2>2. /\ waiters' = <<>> /\ chan' = chan \cup ToSet(waiters) /\ avail' = 0
          /\ capacity' = 0 /\ 0 \in Caps /\ UNCHANGED <<cancelled, pc>>
      BY <1>1, <2>1 DEF Uncap
    <2>3. waiters' \in Seq(Reqs) /\ Len(waiters') = 0 /\ ToSet(waiters') = {}
      BY <2>2 DEF ToSet
    <2>4. TypeOK'
      BY <2>2, <2>3 DEF IInv, TypeOK, States
    <2>5. NoLostWakeup'
      BY <2>2, <2>3, WakeupBySets DEF IInv, TypeOK, Waiting
    <2>6. WorkConserving'
      BY <2>2 DEF WorkConserving
    <2>7. QED
      BY <2>4, <2>5, <2>6 DEF IInv
  <1>2. ASSUME NEW c \in Caps, SetCapacity(c)
        PROVE  IInv'
    <2> DEFINE a == Resized(c)
    <2>1. /\ waiters' = Rest(a) /\ chan' = chan \cup Popped(a) /\ avail' = Left(a)
          /\ capacity' = c /\ c # 0 /\ UNCHANGED <<cancelled, pc>>
      BY <1>2 DEF SetCapacity
    <2>2. c \in Nat /\ a \in Nat /\ a <= c
      BY <2>1, ResizedType, CapsAssumption
    <2> HIDE DEF a
    <2>3. /\ waiters' \in Seq(Reqs)
          /\ Len(waiters') = Len(waiters) - PopCount(a)
          /\ \A i, j \in 1 .. Len(waiters') : waiters'[i] = waiters'[j] => i = j
          /\ ToSet(waiters) = Popped(a) \cup ToSet(waiters')
          /\ Popped(a) \cap ToSet(waiters') = {}
      <3>1. /\ Rest(a) \in Seq(Reqs)
            /\ Len(Rest(a)) = Len(waiters) - PopCount(a)
            /\ \A i, j \in 1 .. Len(Rest(a)) : Rest(a)[i] = Rest(a)[j] => i = j
            /\ ToSet(waiters) = Popped(a) \cup ToSet(Rest(a))
            /\ Popped(a) \cap ToSet(Rest(a)) = {}
        BY <2>2, PopSplits, Zenon DEF IInv
      <3>2. QED
        BY <2>1, <3>1, Zenon
    <2>4. /\ avail' = a - PopCount(a)
          /\ PopCount(a) = IF a <= Len(waiters) THEN a ELSE Len(waiters)
      BY <2>1, <2>2, PopsPrefix DEF IInv, Left
    <2>5. avail' \in 0 .. c
      BY <2>2, <2>4
    <2>6. TypeOK'
      BY <2>1, <2>3, <2>5 DEF IInv, TypeOK, States
    <2>7. NoLostWakeup'
      BY <2>1, <2>3, WakeupBySets DEF IInv, TypeOK, Waiting
    <2>8. WorkConserving'
      <3>1. avail' > 0 => Len(waiters') = 0
        BY <2>2, <2>3, <2>4
      <3>2. Len(waiters') = 0 => waiters' = <<>>
        BY <2>3, Elements
      <3>3. QED
        BY <2>1, <3>1, <3>2 DEF WorkConserving
    <2>9. QED
      BY <2>6, <2>7, <2>8 DEF IInv
  <1>3. QED
    BY <1>1, <1>2 DEF Resize

LEMMA StepKeepsIInv == IInv /\ [Next]_vars => IInv'
  <1> SUFFICES ASSUME IInv, [Next]_vars
               PROVE  IInv'
    OBVIOUS
  <1>1. ASSUME NEW r \in Reqs, Acquire(r)
        PROVE  IInv'
    BY <1>1, AcquireKeepsIInv
  <1>2. ASSUME NEW r \in Reqs, Receive(r) \/ WaitEnds(r)
        PROVE  IInv'
    BY <1>2, WaitKeepsIInv
  <1>3. ASSUME NEW r \in Reqs, Abandon(r)
        PROVE  IInv'
    BY <1>3, WaitKeepsIInv, AbandonKeepsIInv DEF Abandon
  <1>4. ASSUME NEW r \in Reqs, Release(r)
        PROVE  IInv'
    BY <1>4, ReleaseKeepsIInv
  <1>5. CASE Resize
    BY <1>5, ResizeKeepsIInv
  <1>6. CASE UNCHANGED vars
    <2> USE <1>6, QueueFacts DEF vars
    <2>1. TypeOK'
      BY DEF IInv, TypeOK
    <2>2. NoLostWakeup'
      BY WakeupBySets DEF IInv, Waiting
    <2>3. WorkConserving'
      BY DEF IInv, WorkConserving
    <2>4. QED
      BY <2>1, <2>2, <2>3 DEF IInv
  <1>7. QED
    BY <1>1, <1>2, <1>3, <1>4, <1>5, <1>6 DEF Next

-----------------------------------------------------------------------------
(* Theorems *)

LEMMA Invariance == Spec => []IInv
  BY InitIInv, StepKeepsIInv, PTL DEF Spec

\* Every variable keeps its type; in particular avail stays between zero and
\* the cap whatever changes max_concurrency goes through.
THEOREM TypeCorrect == Spec => []TypeOK
  <1>1. IInv => TypeOK
    BY DEF IInv
  <1>2. QED
    BY <1>1, Invariance, PTL

\* No request sleeps in Wait without being queued or holding a grant, and no
\* grant is sent twice or to a request that gave up.
THEOREM WakeupsAreNotLost == Spec => []NoLostWakeup
  <1>1. IInv => NoLostWakeup
    BY DEF IInv
  <1>2. QED
    BY <1>1, Invariance, PTL

\* No slot lies free while a request queues for one.
THEOREM SlotsAreUsed == Spec => []WorkConserving
  <1>1. IInv => WorkConserving
    BY DEF IInv
  <1>2. QED
    BY <1>1, Invariance, PTL

-----------------------------------------------------------------------------
(* Counting slots *)

LEMMA HoldersFinite ==
    ASSUME IInv
    PROVE  /\ Holders \subseteq Reqs
           /\ IsFiniteSet(Holders)
           /\ Cardinality(Holders) \in Nat
  <1>1. Holders \subseteq Reqs
    BY DEF IInv, TypeOK, Holders
  <1>2. QED
    BY <1>1, ReqsAssumption, FS_Subset, FS_CardinalityType

\* A drain that pops k waiters makes that many holders, all of them new.
LEMMA PoppedCount ==
    ASSUME IInv, NEW k \in Nat
    PROVE  Cardinality(Holders \cup Popped(k)) = Cardinality(Holders) + PopCount(k)
  <1> DEFINE n == PopCount(k)
             f == [i \in 1 .. n |-> waiters[i]]
  <1>1. n \in 0 .. Len(waiters) /\ Live(n) = 1 .. n
    BY PopsPrefix DEF IInv
  <1>2. Popped(k) = {waiters[i] : i \in 1 .. n}
    BY <1>1 DEF Popped
  <1>3. /\ \A i, j \in 1 .. Len(waiters) : waiters[i] = waiters[j] => i = j
        /\ Len(waiters) \in Nat
    BY QueueFacts
  <1>4. f \in Bijection(1 .. n, Popped(k))
    BY <1>1, <1>2, <1>3 DEF Bijection, Injection, Surjection, IsInjective
  <1>5. IsFiniteSet(1 .. n) /\ Cardinality(1 .. n) = n
    BY <1>1, FS_Interval
  <1>6. IsFiniteSet(Popped(k)) /\ Cardinality(Popped(k)) = n
    BY <1>4, <1>5, FS_Bijection DEF ExistsBijection
  <1>7. Holders \cap Popped(k) = {}
    <2>1. Popped(k) \subseteq ToSet(waiters)
      BY PopSplits DEF IInv
    <2>2. \A r \in ToSet(waiters) : r \in Reqs /\ r \notin chan /\ pc[r] # "held"
      BY QueueFacts DEF Waiting
    <2>3. QED
      BY <2>1, <2>2 DEF Holders
  <1>8. Cardinality(Holders \cap Popped(k)) = 0
    BY <1>7, FS_EmptySet
  <1>9. Cardinality(Holders \cup Popped(k))
          = Cardinality(Holders) + Cardinality(Popped(k)) - Cardinality(Holders \cap Popped(k))
    BY <1>6, HoldersFinite, FS_Union, Zenon
  <1>10. PopCount(k) \in Nat /\ Cardinality(Holders) \in Nat
    BY <1>1, <1>3, HoldersFinite
  <1>11. Cardinality(Popped(k)) = PopCount(k)
    BY <1>6
  <1>12. QED
    BY <1>8, <1>9, <1>10, <1>11

\* What a step that leaves the cap alone does to the slots in circulation:
\* nothing, except that Release retires one that would lift avail over the cap.
LEMMA StepCount ==
    ASSUME IInv, Next, capacity > 0, capacity' = capacity
    PROVE  \/ Slots' = Slots
           \/ Slots' = Slots - 1 /\ avail' = capacity
  <1> DEFINE H == Cardinality(Holders)
  <1> USE QueueFacts, NothingToDrain
  <1>1. H \in Nat /\ IsFiniteSet(Holders) /\ Holders \subseteq Reqs
    BY HoldersFinite
  <1>2. ASSUME NEW r \in Reqs, Acquire(r)
        PROVE  Slots' = Slots
    <2>1. CASE AcquireFree(r)
      <3>1. chan' = chan /\ avail' = avail - 1 /\ pc' = [pc EXCEPT ![r] = "held"]
        BY <2>1 DEF AcquireFree
      <3>2. Holders' = Holders \cup {r} /\ r \notin Holders
        BY <2>1, <3>1 DEF AcquireFree, Holders, IInv, TypeOK, Waiting
      <3>3. Cardinality(Holders') = H + 1
        BY <1>1, <3>2, FS_AddElement
      <3>4. QED
        BY <1>1, <3>1, <3>3 DEF Slots
    <2>2. CASE AcquireQueued(r)
      <3>1. chan' = chan /\ avail' = avail /\ pc' = [pc EXCEPT ![r] = "parked"]
            /\ pc[r] = "idle"
        BY <2>2 DEF AcquireQueued
      <3>2. Holders' = Holders
        BY <3>1 DEF Holders, IInv, TypeOK
      <3>3. QED
        BY <3>1, <3>2 DEF Slots
    <2>3. QED
      BY <1>2, <2>1, <2>2 DEF Acquire, AcquireUnlimited
  <1>3. ASSUME NEW r \in Reqs, Receive(r) \/ WaitEnds(r) \/ Abandon(r)
        PROVE  Slots' = Slots
    <2>1. Holders' = Holders
      BY <1>3 DEF Receive, WaitEnds, Abandon, AbandonGranted, AbandonQueued,
                  Holders, IInv, TypeOK
    <2>2. avail' = avail
      BY <1>3 DEF Receive, WaitEnds, Abandon, AbandonGranted, AbandonQueued
    <2>3. QED
      BY <2>1, <2>2 DEF Slots
  <1>4. ASSUME NEW r \in Reqs, Release(r)
        PROVE  Slots' = Slots \/ (Slots' = Slots - 1 /\ avail' = capacity)
    <2>1. /\ r \in Holders /\ r \notin chan /\ pc[r] = "held"
          /\ pc' = [pc EXCEPT ![r] = "idle"]
      BY <1>4 DEF Release, Holders, Waiting
    <2>2. H \in Nat \ {0} /\ Cardinality(Holders \ {r}) = H - 1
      <3>1. Cardinality(Holders \ {r}) = H - 1 /\ IsFiniteSet(Holders \ {r})
        BY <1>1, <2>1, FS_RemoveElement
      <3>2. Cardinality(Holders \ {r}) \in Nat
        BY <3>1, FS_CardinalityType
      <3>3. QED
        BY <1>1, <3>1, <3>2
    <2>3. CASE ReleaseFree(r)
      <3>1. chan' = chan /\ avail' = Clamp(avail + 1, capacity)
        BY <2>3 DEF ReleaseFree
      <3>2. Holders' = Holders \ {r}
        BY <2>1, <3>1 DEF Holders, IInv, TypeOK
      <3>3. /\ avail \in Nat
            /\ avail' = avail + 1 \/ (avail' = capacity /\ avail = capacity)
        BY <3>1 DEF Clamp
      <3>4. /\ Slots = avail + H /\ Slots' = avail' + (H - 1) /\ H \in Nat
        BY <2>2, <3>2, Zenon DEF Slots
      <3> HIDE QueueFacts, NothingToDrain DEF H, Slots
      <3>5. QED
        BY <3>3, <3>4
    <2>4. CASE ReleaseHandOff(r)
      <3>1. chan' = chan \cup Popped(1) /\ avail' = avail
        BY <2>4 DEF ReleaseHandOff
      <3>2. Live(Len(waiters)) # {}
        BY <2>4 DEF ReleaseHandOff
      <3>3. Len(waiters) >= 1 /\ Len(waiters) \in Nat
        BY <3>2 DEF Live
      <3>4. PopCount(1) = 1
        BY <3>3, PopsPrefix DEF IInv
      <3>5. Cardinality(Holders \cup Popped(1)) = H + 1
        BY <3>4, PoppedCount
      <3>6. Popped(1) \subseteq ToSet(waiters)
        BY PopSplits DEF IInv
      <3>7. r \notin ToSet(waiters)
        BY <2>1 DEF Waiting
      <3>8. Holders' = (Holders \cup Popped(1)) \ {r}
        BY <2>1, <3>1, <3>6, <3>7 DEF Holders, IInv, TypeOK
      <3>9. IsFiniteSet(Holders \cup Popped(1))
        <4>1. Holders \cup Popped(1) \subseteq Reqs
          BY <1>1, <3>6
        <4>2. QED
          BY <4>1, ReqsAssumption, FS_Subset
      <3>10. Cardinality(Holders') = (H + 1) - 1
        BY <2>1, <3>5, <3>8, <3>9, FS_RemoveElement
      <3>11. QED
        BY <1>1, <3>1, <3>10 DEF Slots
    <2>5. QED
      BY <1>4, <2>3, <2>4 DEF Release, ReleaseUnlimited
  <1>5. ~Resize
    BY DEF Resize, Uncap, SetCapacity
  <1>6. QED
    BY <1>2, <1>3, <1>4, <1>5 DEF Next

\* What a change between caps does: the free slots follow it, and the drain
\* turns free slots into held ones.
LEMMA ResizeCount ==
    ASSUME IInv, NEW c \in Caps, SetCapacity(c)
    PROVE  Slots' = Resized(c) + Cardinality(Holders)
  <1> DEFINE a == Resized(c)
  <1>1. /\ chan' = chan \cup Popped(a) /\ avail' = Left(a)
        /\ c # 0 /\ UNCHANGED pc
    BY DEF SetCapacity
  <1>2. c \in Nat /\ a \in Nat
    BY <1>1, ResizedType, CapsAssumption
  <1> HIDE DEF a
  <1>3. Holders' = Holders \cup Popped(a)
    BY <1>1 DEF Holders
  <1>4. Cardinality(Holders') = Cardinality(Holders) + PopCount(a)
    BY <1>2, <1>3, PoppedCount
  <1>5. avail' = a - PopCount(a) /\ PopCount(a) \in Nat
    <2>1. PopCount(a) \in 0 .. Len(waiters) /\ Cardinality(Live(PopCount(a))) = PopCount(a)
      BY <1>2, PopsPrefix DEF IInv
    <2>2. QED
      BY <1>1, <2>1, QueueFacts DEF Left
  <1>6. QED
    BY <1>2, <1>4, <1>5, HoldersFinite DEF Slots, a

CountInv == IInv /\ NoLostSlot

LEMMA InitHolders == Init => Cardinality(Holders) = 0
  <1> SUFFICES ASSUME Init
               PROVE  Holders = {}
    BY FS_EmptySet
  <1>1. QED
    BY DEF Init, Holders

LEMMA StepKeepsCount == CountInv /\ [Next]_vars => CountInv'
  <1> SUFFICES ASSUME CountInv, [Next]_vars
               PROVE  CountInv'
    OBVIOUS
  <1> USE QueueFacts, HoldersFinite DEF CountInv
  <1>1. IInv'
    BY StepKeepsIInv
  <1>2. CASE UNCHANGED vars
    BY <1>1, <1>2 DEF vars, NoLostSlot, Slots, Holders
  <1>3. CASE Next /\ capacity' = capacity
    <2>1. CASE capacity > 0
      <3>1. Slots' >= avail' /\ Slots' \in Nat
        <4>1. Holders' \subseteq Reqs /\ avail' \in Nat
          BY <1>1, CapsAssumption DEF IInv, TypeOK, Holders
        <4>2. Cardinality(Holders') \in Nat
          BY <4>1, ReqsAssumption, FS_Subset, FS_CardinalityType
        <4>3. QED
          BY <4>1, <4>2 DEF Slots
      <3>2. Slots' = Slots \/ avail' = capacity
        BY <1>3, <2>1, StepCount
      <3>3. QED
        BY <1>1, <1>3, <2>1, <3>1, <3>2 DEF NoLostSlot
    <2>2. QED
      BY <1>1, <1>3, <2>1 DEF NoLostSlot
  <1>4. CASE Uncap
    BY <1>1, <1>4 DEF NoLostSlot, Uncap
  <1>5. ASSUME NEW c \in Caps, SetCapacity(c)
        PROVE  CountInv'
    <2>1. capacity' = c /\ c \in Nat /\ c # 0
      BY <1>5, CapsAssumption DEF SetCapacity
    <2>2. Slots' = Resized(c) + Cardinality(Holders)
      BY <1>5, ResizeCount
    <2>3. Resized(c) + Cardinality(Holders) >= c
      BY <2>1 DEF Resized, Clamp, NoLostSlot, Slots
    <2>4. QED
      BY <1>1, <2>1, <2>2, <2>3 DEF NoLostSlot
  <1>6. ASSUME NEW r \in Reqs, Acquire(r) \/ Receive(r) \/ WaitEnds(r) \/ Abandon(r) \/ Release(r)
        PROVE  capacity' = capacity
    BY <1>6 DEF Acquire, AcquireUnlimited, AcquireFree, AcquireQueued, Receive,
                WaitEnds, Abandon, AbandonGranted, AbandonQueued, Release
  <1>7. QED
    BY <1>2, <1>3, <1>4, <1>5, <1>6 DEF Next, Resize

\* No interleaving of releases, cancellations and resizes loses a slot.
THEOREM SlotsAreNotLost == Spec => []NoLostSlot
  <1>1. Init => CountInv
    <2> SUFFICES ASSUME Init
                 PROVE  CountInv
      OBVIOUS
    <2>1. capacity \in Nat
      BY CapsAssumption DEF Init
    <2>2. QED
      BY <2>1, InitIInv, InitHolders DEF CountInv, NoLostSlot, Slots, Init
  <1>2. CountInv => NoLostSlot
    BY DEF CountInv
  <1>3. QED
    BY <1>1, <1>2, StepKeepsCount, PTL DEF Spec

\* Only a change of max_concurrency makes slots.
THEOREM SlotsAreNotMade == Spec => SlotsNotMade
  <1>1. IInv /\ [Next]_vars
          => [capacity' = capacity /\ capacity > 0 => Slots' <= Slots]_vars
    <2> SUFFICES ASSUME IInv, Next, capacity' = capacity, capacity > 0
                 PROVE  Slots' <= Slots
      OBVIOUS
    <2>1. Slots \in Nat
      BY QueueFacts, HoldersFinite DEF Slots
    <2>2. QED
      BY <2>1, StepCount
  <1>2. QED
    BY <1>1, Invariance, PTL DEF Spec, SlotsNotMade

\* Without a change of max_concurrency the cap holds: no more requests than
\* max_concurrency own a slot of the server at any time.
WithinCap == capacity > 0 => Cardinality(Holders) <= capacity

\* While nobody changes max_concurrency no more requests than it hold a slot.
THEOREM UnresizedCapHolds ==
    Init /\ [][Next /\ UNCHANGED capacity]_vars => []WithinCap
  <1> DEFINE Exact == IInv /\ (capacity > 0 => Slots <= capacity)
  <1>1. Init => Exact
    <2> SUFFICES ASSUME Init
                 PROVE  Exact
      OBVIOUS
    <2>1. capacity \in Nat
      BY CapsAssumption DEF Init
    <2>2. QED
      BY <2>1, InitIInv, InitHolders DEF Slots, Init
  <1>2. Exact /\ [Next /\ UNCHANGED capacity]_vars => Exact'
    <2> SUFFICES ASSUME Exact, [Next /\ UNCHANGED capacity]_vars
                 PROVE  Exact'
      OBVIOUS
    <2>1. IInv'
      BY StepKeepsIInv
    <2>2. CASE UNCHANGED vars
      BY <2>1, <2>2 DEF vars, Slots, Holders
    <2>3. CASE Next /\ UNCHANGED capacity
      <3>1. Slots \in Nat /\ capacity \in Nat
        BY QueueFacts, HoldersFinite DEF Slots
      <3>2. QED
        BY <2>1, <2>3, <3>1, StepCount
    <2>4. QED
      BY <2>2, <2>3
  <1>3. Exact => WithinCap
    BY QueueFacts, HoldersFinite DEF Slots, WithinCap
  <1>4. QED
    BY <1>1, <1>2, <1>3, PTL

-----------------------------------------------------------------------------
(* Order of admission *)

\* Whoever is ahead of a popped waiter is popped too.
LEMMA PopOrder ==
    ASSUME TypeOK, NoLostWakeup, NEW k \in Nat,
           NEW i \in 1 .. Len(waiters), NEW j \in 1 .. Len(waiters), i < j,
           waiters[j] \in Popped(k)
    PROVE  waiters[i] \notin ToSet(Rest(k))
  <1>1. Popped(k) = {waiters[x] : x \in 1 .. PopCount(k)}
    BY PopsPrefix DEF Popped
  <1>2. PopCount(k) \in 0 .. Len(waiters) /\ Len(waiters) \in Nat
    BY PopsPrefix DEF TypeOK
  <1>3. j \in 1 .. PopCount(k)
    BY <1>1, <1>2 DEF NoLostWakeup
  <1>4. i \in 1 .. PopCount(k)
    BY <1>2, <1>3
  <1>5. waiters[i] \in Popped(k)
    BY <1>1, <1>4
  <1>6. QED
    BY <1>5, PopSplits

\* Requests are admitted in order of arrival, in every interleaving.
THEOREM AdmissionIsFIFO == Spec => AdmittedInOrder
  <1> DEFINE Ordered == \A i, j \in 1 .. Len(waiters) :
                i < j /\ waiters[j] \in chan' => waiters[i] \notin ToSet(waiters')
             NoBarging == \A r \in Reqs :
                pc[r] = "idle" /\ pc'[r] = "held" => waiters' = <<>>
  <1>1. IInv /\ Next => Ordered
    <2> SUFFICES ASSUME IInv, Next,
                        NEW i \in 1 .. Len(waiters), NEW j \in 1 .. Len(waiters),
                        i < j, waiters[j] \in chan'
                 PROVE  waiters[i] \notin ToSet(waiters')
      OBVIOUS
    <2>1. waiters[j] \notin chan
      BY DEF IInv, NoLostWakeup
    <2>2. ASSUME NEW k \in Nat, chan' = chan \cup Popped(k), waiters' = Rest(k)
          PROVE  waiters[i] \notin ToSet(waiters')
      BY <2>1, <2>2, PopOrder DEF IInv
    <2>3. ASSUME NEW r \in Reqs, Acquire(r) \/ Receive(r) \/ WaitEnds(r) \/ Abandon(r)
          PROVE  FALSE
      BY <2>1, <2>3, NothingToDrain
         DEF Acquire, AcquireUnlimited, AcquireFree, AcquireQueued,
             Receive, WaitEnds, Abandon, AbandonGranted, AbandonQueued
    <2>4. ASSUME NEW r \in Reqs, Release(r)
          PROVE  waiters[i] \notin ToSet(waiters')
      BY <2>1, <2>2, <2>4 DEF Release, ReleaseUnlimited, ReleaseHandOff, ReleaseFree
    <2>5. CASE Uncap
      BY <2>5 DEF Uncap, ToSet
    <2>6. ASSUME NEW c \in Caps, SetCapacity(c)
          PROVE  waiters[i] \notin ToSet(waiters')
      <3>1. c # 0
        BY <2>6 DEF SetCapacity
      <3>2. Resized(c) \in Nat
        BY <3>1, ResizedType, CapsAssumption
      <3>3. QED
        BY <2>2, <2>6, <3>2 DEF SetCapacity
    <2>7. QED
      BY <2>3, <2>4, <2>5, <2>6 DEF Next, Resize
  <1>2. IInv /\ Next => NoBarging
    <2> SUFFICES ASSUME IInv, Next, NEW r \in Reqs, pc[r] = "idle", pc'[r] = "held"
                 PROVE  waiters' = <<>>
      OBVIOUS
    <2>1. AcquireUnlimited(r) \/ AcquireFree(r)
      <3> USE DEF IInv, TypeOK
      <3>1. ASSUME NEW q \in Reqs, Acquire(q)
            PROVE  AcquireUnlimited(r) \/ AcquireFree(r)
        <4>1. q = r
          BY <3>1 DEF Acquire, AcquireUnlimited, AcquireFree, AcquireQueued
        <4>2. ~AcquireQueued(q)
          BY <4>1 DEF AcquireQueued
        <4>3. QED
          BY <3>1, <4>1, <4>2 DEF Acquire
      <3>2. ASSUME NEW q \in Reqs, Receive(q) \/ WaitEnds(q)
            PROVE  FALSE
        BY <3>2 DEF Receive, WaitEnds
      <3>3. ASSUME NEW q \in Reqs, Abandon(q)
            PROVE  FALSE
        BY <3>3 DEF Abandon, AbandonGranted, AbandonQueued
      <3>4. ASSUME NEW q \in Reqs, Release(q)
            PROVE  FALSE
        BY <3>4 DEF Release
      <3>5. ~Resize
        BY DEF Resize, Uncap, SetCapacity
      <3>6. QED
        BY <3>1, <3>2, <3>3, <3>4, <3>5 DEF Next
    <2>2. CASE AcquireUnlimited(r)
      BY <2>2 DEF AcquireUnlimited, IInv, WorkConserving
    <2>3. CASE AcquireFree(r)
      BY <2>3, NothingToDrain DEF AcquireFree, IInv, WorkConserving
    <2>4. QED
      BY <2>1, <2>2, <2>3
  <1>3. IInv /\ [Next]_vars => [Ordered /\ NoBarging]_vars
    BY <1>1, <1>2
  <1>4. QED
    BY <1>3, Invariance, PTL DEF Spec, AdmittedInOrder

-----------------------------------------------------------------------------
(* The semaphore implements the line of slots *)

\* The operators of the library are the same ones in both modules.
LEMMA SameOperators ==
    /\ \A T : Line!Cardinality(T) = Cardinality(T)
    /\ \A T : Line!Min(T) = Min(T) /\ Line!Max(T) = Max(T)
    /\ \A q : Line!ToSet(q) = ToSet(q)
    /\ \A q, e : Line!RemoveFirst(q, e) = RemoveFirst(q, e)
  <1>1. \A T : Line!Cardinality(T) = Cardinality(T)
    BY DEF Line!Cardinality, Cardinality
  <1>2. \A T : Line!Min(T) = Min(T)
    BY DEF Line!Min, Min
  <1>3. \A T : Line!Max(T) = Max(T)
    BY DEF Line!Max, Max
  <1>4. \A q : Line!ToSet(q) = ToSet(q)
    BY DEF Line!ToSet, ToSet
  <1>5. \A q, e : Line!RemoveFirst(q, e) = RemoveFirst(q, e)
    BY <1>2 DEF Line!RemoveFirst, RemoveFirst, Line!RemoveAt, RemoveAt,
                Line!SelectInSeq, SelectInSeq
  <1>6. QED
    BY <1>1, <1>2, <1>3, <1>4, <1>5

LEMMA MinMaxOfTwo ==
    ASSUME NEW a \in Int, NEW b \in Int
    PROVE  /\ Min({a, b}) = IF a <= b THEN a ELSE b
           /\ Max({a, b}) = IF a >= b THEN a ELSE b
  <1>1. Min({a, b}) = IF a <= b THEN a ELSE b
    BY DEF Min
  <1>2. Max({a, b}) = IF a >= b THEN a ELSE b
    BY DEF Max
  <1>3. QED
    BY <1>1, <1>2

LEMMA LineInit == Init => Line!Init
  <1> SUFFICES ASSUME Init
               PROVE  Line!Init
    OBVIOUS
  <1>1. Holders = {} /\ Cardinality(Holders) = 0
    BY FS_EmptySet DEF Init, Holders
  <1>2. InCirculation = capacity
    BY <1>1, CapsAssumption DEF Init, InCirculation, Slots
  <1>3. QED
    BY <1>1, <1>2 DEF Init, Line!Init

\* A step that leaves the cap alone and no slot unused leaves as many in circulation.
LEMMA SameInCirculation ==
    ASSUME IInv, Next, capacity' = capacity, capacity > 0 => avail' < capacity
    PROVE  InCirculation' = InCirculation
  BY StepCount, QueueFacts DEF InCirculation

\* The line seen by a newcomer.
LEMMA LineFacts ==
    ASSUME IInv
    PROVE  /\ \A r \in Reqs : pc[r] = "idle" => r \notin Holders \cup Line!InLine
           /\ Line!Room <=> capacity = 0 \/ avail > 0
           /\ capacity = 0 => waiters = <<>> /\ InCirculation = 0
           /\ capacity > 0 => InCirculation = avail + Cardinality(Holders)
  <1>1. Line!InLine = ToSet(waiters)
    BY SameOperators DEF Line!InLine
  <1>2. capacity \in Nat /\ avail \in Nat /\ Cardinality(Holders) \in Nat
    BY QueueFacts, HoldersFinite
  <1>3. Line!Room <=> capacity = 0 \/ Cardinality(Holders) < InCirculation
    BY SameOperators DEF Line!Room
  <1>4. \A r \in Reqs : pc[r] = "idle" => r \notin Holders \cup Line!InLine
    BY <1>1, QueueFacts DEF Holders, Waiting
  <1>5. QED
    BY <1>2, <1>3, <1>4 DEF InCirculation, Slots, IInv, WorkConserving

LEMMA AcquireEnters ==
    ASSUME IInv, NEW r \in Reqs, Acquire(r)
    PROVE  Line!Enter(r)
  <1>1. capacity' = capacity /\ pc[r] = "idle" /\ Next
    BY DEF Acquire, AcquireUnlimited, AcquireFree, AcquireQueued, Next
  <1>2. CASE AcquireUnlimited(r)
    <2>1. capacity = 0 /\ capacity' = 0 /\ waiters' = waiters
      BY <1>2 DEF AcquireUnlimited
    <2>2. Holders' = Holders \cup {r}
      BY <1>2 DEF AcquireUnlimited, Holders, IInv, TypeOK
    <2>3. InCirculation' = InCirculation
      BY <2>1 DEF InCirculation
    <2>4. QED
      BY <1>1, <2>1, <2>2, <2>3, LineFacts DEF Line!Enter
  <1>3. CASE AcquireFree(r)
    <2>1. /\ chan' = chan /\ waiters' = waiters /\ avail' = avail - 1 /\ avail > 0
          /\ pc' = [pc EXCEPT ![r] = "held"]
      BY <1>3, NothingToDrain DEF AcquireFree
    <2>2. Holders' = Holders \cup {r}
      BY <2>1 DEF Holders, IInv, TypeOK
    <2>3. InCirculation' = InCirculation
      BY <1>1, <2>1, SameInCirculation, QueueFacts
    <2>4. waiters = <<>>
      BY <2>1 DEF IInv, WorkConserving
    <2>5. QED
      BY <1>1, <2>1, <2>2, <2>3, <2>4, LineFacts DEF Line!Enter
  <1>4. CASE AcquireQueued(r)
    <2>1. /\ chan' = chan /\ waiters' = Append(waiters, r) /\ avail' = 0 /\ avail = 0
          /\ pc' = [pc EXCEPT ![r] = "parked"] /\ capacity > 0
      BY <1>4, NothingToDrain DEF AcquireQueued
    <2>2. Holders' = Holders
      BY <1>1, <2>1 DEF Holders, IInv, TypeOK
    <2>3. InCirculation' = InCirculation
      BY <1>1, <2>1, SameInCirculation
    <2>4. QED
      BY <1>1, <2>1, <2>2, <2>3, LineFacts DEF Line!Enter
  <1>5. QED
    BY <1>2, <1>3, <1>4 DEF Acquire

\* What a request does about its own wait stays inside it, until it leaves the queue.
LEMMA WaitStutters ==
    ASSUME IInv, NEW r \in Reqs, Receive(r) \/ WaitEnds(r) \/ AbandonGranted(r)
    PROVE  UNCHANGED Line!vars
  <1>1. Holders' = Holders
    BY DEF Receive, WaitEnds, AbandonGranted, Holders, IInv, TypeOK
  <1>2. UNCHANGED <<capacity, avail, waiters>>
    BY DEF Receive, WaitEnds, AbandonGranted
  <1>3. QED
    BY <1>1, <1>2 DEF Line!vars, InCirculation, Slots

LEMMA AbandonQuits ==
    ASSUME IInv, NEW r \in Reqs, AbandonQueued(r)
    PROVE  Line!Quit(r)
  <1>1. Holders' = Holders
    BY DEF AbandonQueued, Holders, IInv, TypeOK
  <1>2. UNCHANGED <<capacity, avail>> /\ waiters' = RemoveFirst(waiters, r)
    BY DEF AbandonQueued
  <1>3. r \in ToSet(waiters)
    BY QueueFacts DEF AbandonQueued, Waiting
  <1>4. QED
    BY <1>1, <1>2, <1>3, SameOperators DEF Line!Quit, Line!InLine, InCirculation, Slots

LEMMA ReleaseFinishes ==
    ASSUME IInv, NEW r \in Reqs, Release(r)
    PROVE  Line!Finish(r)
  <1>1. /\ r \in Holders /\ r \notin chan /\ r \notin ToSet(waiters) /\ pc[r] = "held"
        /\ pc' = [pc EXCEPT ![r] = "idle"] /\ capacity' = capacity /\ Next
    BY QueueFacts DEF Release, Holders, Waiting, Next
  <1>2. capacity \in Nat /\ avail \in Nat /\ avail <= capacity /\ waiters \in Seq(Reqs)
    BY QueueFacts
  <1>3. CASE ReleaseUnlimited(r)
    <2>1. capacity = 0 /\ waiters' = waiters /\ chan' = chan
      BY <1>3 DEF ReleaseUnlimited
    <2>2. Holders' = Holders \ {r}
      BY <1>1, <2>1 DEF Holders, IInv, TypeOK
    <2>3. InCirculation' = 0
      BY <1>1, <2>1 DEF InCirculation
    <2>4. QED
      BY <1>1, <2>1, <2>2, <2>3, LineFacts DEF Line!Finish
  <1>4. CASE ReleaseHandOff(r)
    <2>1. waiters' = Rest(1) /\ chan' = chan \cup Popped(1) /\ avail' = avail /\ capacity > 0
      BY <1>4 DEF ReleaseHandOff
    <2>2. Len(waiters) >= 1 /\ Len(waiters) \in Nat
      <3>1. Live(Len(waiters)) # {}
        BY <1>4 DEF ReleaseHandOff
      <3>2. QED
        BY <1>2, <3>1 DEF Live
    <2>3. PopCount(1) = 1 /\ Live(PopCount(1)) = 1 .. 1
      BY <2>2, PopsPrefix DEF IInv
    <2>4. Popped(1) = {Head(waiters)} /\ Rest(1) = Tail(waiters)
      <3>1. Popped(1) = {waiters[1]}
        BY <2>3 DEF Popped
      <3>2. Rest(1) = Tail(waiters)
        BY <1>2, <2>2, <2>3 DEF Rest
      <3>3. Head(waiters) = waiters[1]
        BY <1>2, <2>2
      <3>4. QED
        BY <3>1, <3>2, <3>3
    <2>5. waiters # <<>> /\ Head(waiters) \in ToSet(waiters)
      BY <1>2, <2>2, Taken
    <2>6. Holders' = (Holders \ {r}) \cup {Head(waiters)}
      BY <1>1, <2>1, <2>4, <2>5 DEF Holders, IInv, TypeOK
    <2>7. avail' = 0
      BY <1>2, <2>1, <2>5 DEF IInv, WorkConserving
    <2>8. InCirculation' = InCirculation
      BY <1>1, <2>1, <2>7, SameInCirculation
    <2>9. QED
      BY <1>1, <2>1, <2>4, <2>5, <2>6, <2>8 DEF Line!Finish
  <1>5. CASE ReleaseFree(r)
    <2>1. waiters' = <<>> /\ chan' = chan /\ avail' = Clamp(avail + 1, capacity) /\ capacity > 0
      BY <1>5 DEF ReleaseFree
    <2>2. waiters = <<>>
      <3>1. Live(Len(waiters)) = {}
        BY <1>5 DEF ReleaseFree
      <3>2. Len(waiters) = 0
        BY <1>2, <3>1 DEF IInv, NoLostWakeup, Live
      <3>3. QED
        BY <1>2, <3>2, Elements
    <2>3. Holders' = Holders \ {r}
      BY <1>1, <2>1 DEF Holders, IInv, TypeOK
    <2> DEFINE h == Cardinality(Holders)
    <2>4. Cardinality(Holders') = h - 1 /\ h \in Nat /\ Cardinality(Holders') \in Nat
      <3>1. Cardinality(Holders \ {r}) = h - 1 /\ IsFiniteSet(Holders \ {r}) /\ h \in Nat
        BY <1>1, HoldersFinite, FS_RemoveElement
      <3>2. QED
        BY <2>3, <3>1, FS_CardinalityType
    <2>5. InCirculation = avail + h /\ InCirculation' = avail' + (h - 1)
      <3>1. Slots' = avail' + Cardinality(Holders')
        BY DEF Slots
      <3>2. QED
        BY <1>1, <2>1, <2>4, <3>1, LineFacts DEF InCirculation
    <2> HIDE DEF h
    <2>6. Min({InCirculation, capacity + (h - 1)}) = InCirculation'
      <3>1. avail + h \in Int /\ capacity + (h - 1) \in Int
        BY <1>2, <2>4
      <3>2. Min({avail + h, capacity + (h - 1)})
              = IF avail + h <= capacity + (h - 1) THEN avail + h ELSE capacity + (h - 1)
        BY <3>1, MinMaxOfTwo
      <3>3. avail' = IF avail + 1 > capacity THEN capacity ELSE avail + 1
        BY <1>2, <2>1 DEF Clamp
      <3>4. avail = capacity \/ avail + 1 <= capacity
        BY <1>2
      <3>5. QED
        BY <1>2, <2>4, <2>5, <3>2, <3>3, <3>4
    <2>7. Line!Min({InCirculation, capacity + Line!Cardinality(Holders')}) = InCirculation'
      BY <2>4, <2>6, SameOperators
    <2>8. QED
      BY <1>1, <2>1, <2>2, <2>3, <2>7 DEF Line!Finish
  <1>6. QED
    BY <1>3, <1>4, <1>5 DEF Release

\* The first entries of a sequence.
LEMMA Prefix ==
    ASSUME NEW S, NEW q \in Seq(S), NEW n \in 0 .. Len(q)
    PROVE  ToSet(SubSeq(q, 1, n)) = {q[i] : i \in 1 .. n}
  <1> DEFINE p == SubSeq(q, 1, n)
  <1>1. p \in Seq(S) /\ Len(p) = n /\ \A i \in 1 .. n : p[i] = q[i]
    OBVIOUS
  <1> HIDE DEF p
  <1>2. ToSet(p) = {p[i] : i \in 1 .. n}
    BY <1>1, Elements
  <1>3. QED
    BY <1>1, <1>2 DEF p

LEMMA ResizeFollows ==
    ASSUME IInv, NEW c \in Caps, SetCapacity(c)
    PROVE  Line!Resize(c)
  <1> DEFINE a == Resized(c)  n == PopCount(a)  h == Cardinality(Holders)
  <1>1. /\ chan' = chan \cup Popped(a) /\ waiters' = Rest(a)
        /\ c # 0 /\ c # capacity /\ capacity' = c /\ UNCHANGED pc
    BY DEF SetCapacity
  <1>2. /\ c \in Nat /\ a \in 0 .. c /\ h \in Nat /\ waiters \in Seq(Reqs)
        /\ capacity \in Nat /\ avail \in Nat /\ avail <= capacity
    BY <1>1, ResizedType, CapsAssumption, HoldersFinite, QueueFacts
  <1>3. /\ n \in 0 .. Len(waiters) /\ Live(n) = 1 .. n
        /\ n = IF a <= Len(waiters) THEN a ELSE Len(waiters)
    BY <1>2, PopsPrefix DEF IInv
  <1>4. InCirculation' = a + h
    BY <1>1, ResizeCount DEF InCirculation
  <1>5. a + h = IF capacity = 0 THEN c + h ELSE Max({InCirculation + c - capacity, h})
    <2>1. CASE capacity = 0
      BY <2>1 DEF Resized
    <2>2. CASE capacity > 0
      <3>1. InCirculation = avail + h
        BY <2>2, LineFacts
      <3>2. a = IF avail + c - capacity < 0 THEN 0 ELSE avail + c - capacity
        BY <1>2, <2>2 DEF Resized, Clamp
      <3> HIDE DEF a, h
      <3>3. InCirculation + c - capacity \in Int /\ h \in Int
        BY <1>2, <3>1
      <3>4. Max({InCirculation + c - capacity, h})
              = IF InCirculation + c - capacity >= h THEN InCirculation + c - capacity ELSE h
        BY <3>3, MinMaxOfTwo
      <3>5. QED
        BY <1>2, <2>2, <3>1, <3>2, <3>4
    <2>3. QED
      BY <1>2, <2>1, <2>2
  <1>6. InCirculation' = Line!Recount(c)
    BY <1>4, <1>5, SameOperators DEF Line!Recount
  <1>7. n = Line!Min({Len(waiters), InCirculation' - Line!Cardinality(Holders)})
    <2> HIDE DEF n, h, a
    <2>1. Len(waiters) \in Int /\ a \in Int /\ (a + h) - h = a
      BY <1>2
    <2>2. Min({Len(waiters), a}) = n
      BY <1>2, <1>3, <2>1, MinMaxOfTwo
    <2>3. InCirculation' - Line!Cardinality(Holders) = a
      BY <1>4, <2>1, SameOperators DEF h
    <2>4. QED
      BY <2>2, <2>3, SameOperators
  <1>8. Holders' = Holders \cup Line!ToSet(SubSeq(waiters, 1, n))
    <2>1. Popped(a) = {waiters[i] : i \in 1 .. n}
      BY <1>3 DEF Popped
    <2>2. ToSet(SubSeq(waiters, 1, n)) = {waiters[i] : i \in 1 .. n}
      BY <1>2, <1>3, Prefix
    <2>3. QED
      BY <1>1, <2>1, <2>2, SameOperators DEF Holders
  <1>9. waiters' = SubSeq(waiters, n + 1, Len(waiters))
    BY <1>1 DEF Rest
  <1> HIDE DEF a, n, h
  <1>10. c > 0
    BY <1>1, <1>2
  <1>11. \E k \in 0 .. Len(waiters) :
            /\ Holders' = Holders \cup Line!ToSet(SubSeq(waiters, 1, k))
            /\ waiters' = SubSeq(waiters, k + 1, Len(waiters))
            /\ \/ c = 0 /\ k = Len(waiters) /\ InCirculation' = 0
               \/ /\ c > 0
                  /\ InCirculation' = Line!Recount(c)
                  /\ k = Line!Min({Len(waiters), InCirculation' - Line!Cardinality(Holders)})
    <2>1. n \in 0 .. Len(waiters)
      BY <1>3
    <2>2. QED
      BY <2>1, <1>6, <1>7, <1>8, <1>9, <1>10, Zenon
  <1>12. QED
    BY <1>1, <1>11, Zenon DEF Line!Resize

LEMMA UncapFollows ==
    ASSUME IInv, Uncap
    PROVE  Line!Resize(0)
  <1> DEFINE n == Len(waiters)
  <1>1. n \in 0 .. Len(waiters) /\ waiters \in Seq(Reqs)
    BY QueueFacts
  <1>2. Live(n) = 1 .. n
    BY DEF IInv, NoLostWakeup, Live
  <1>3. /\ capacity # 0 /\ capacity' = 0 /\ waiters' = <<>> /\ UNCHANGED pc
        /\ chan' = chan \cup {waiters[i] : i \in 1 .. n}
    BY <1>2 DEF Uncap
  <1>4. Holders' = Holders \cup Line!ToSet(SubSeq(waiters, 1, n))
    <2>1. ToSet(SubSeq(waiters, 1, n)) = {waiters[i] : i \in 1 .. n}
      BY <1>1, Prefix
    <2>2. QED
      BY <1>3, <2>1, SameOperators DEF Holders
  <1>5. waiters' = SubSeq(waiters, n + 1, Len(waiters))
    BY <1>1, <1>3
  <1>6. InCirculation' = 0
    BY <1>3 DEF InCirculation
  <1>7. QED
    BY <1>1, <1>3, <1>4, <1>5, <1>6 DEF Line!Resize

LEMMA LineStep == IInv /\ [Next]_vars => [Line!Next]_(Line!vars)
  <1> SUFFICES ASSUME IInv, [Next]_vars
               PROVE  [Line!Next]_(Line!vars)
    OBVIOUS
  <1>1. CASE UNCHANGED vars
    BY <1>1 DEF vars, Line!vars, InCirculation, Slots, Holders
  <1>2. ASSUME NEW r \in Reqs, Acquire(r) \/ Receive(r) \/ WaitEnds(r) \/ Abandon(r) \/ Release(r)
        PROVE  [Line!Next]_(Line!vars)
    BY <1>2, AcquireEnters, WaitStutters, AbandonQuits, ReleaseFinishes DEF Abandon, Line!Next
  <1>3. ASSUME NEW c \in Caps, SetCapacity(c)
        PROVE  Line!Next
    BY <1>3, ResizeFollows DEF Line!Next
  <1>4. ASSUME Uncap
        PROVE  Line!Next
    BY <1>4, UncapFollows DEF Line!Next, Uncap
  <1>5. QED
    BY <1>1, <1>2, <1>3, <1>4 DEF Next, Resize

\* The semaphore does what a line of slots promises, whatever cancellations race its grants and
\* however often max_concurrency changes: every step of it is one of the line's, or none.
THEOREM SemaphoreIsALine == Spec => ImplementsLine
  BY Invariance, LineInit, LineStep, PTL DEF Spec, ImplementsLine, Line!Spec
=============================================================================
