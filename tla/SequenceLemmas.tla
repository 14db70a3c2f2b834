----------------------------- MODULE SequenceLemmas -----------------------------
(***************************************************************************)
(* What the operators on sequences that the models use return: entries     *)
(* dropped, joined, taken out, appended and taken from the head.           *)
(***************************************************************************)
EXTENDS Integers, Sequences, SequencesExt, SequenceTheorems, TLAPS

\* Dropping the first n entries of a sequence shifts the others down by n.
LEMMA DropFirst ==
    ASSUME NEW S, NEW q \in Seq(S), NEW n \in 0 .. Len(q)
    PROVE  /\ SubSeq(q, n + 1, Len(q)) \in Seq(S)
           /\ Len(SubSeq(q, n + 1, Len(q))) = Len(q) - n
           /\ \A j \in 1 .. (Len(q) - n) : SubSeq(q, n + 1, Len(q))[j] = q[j + n]
  OBVIOUS

\* The elements of a sequence, by index.
LEMMA Elements ==
    ASSUME NEW S, NEW q \in Seq(S)
    PROVE  /\ ToSet(q) = {q[i] : i \in 1 .. Len(q)}
           /\ \A i \in 1 .. Len(q) : q[i] \in ToSet(q)
           /\ ToSet(q) \subseteq S
           /\ q = <<>> <=> Len(q) = 0
           /\ q = <<>> <=> ToSet(q) = {}
  <1>1. ToSet(q) = {q[i] : i \in 1 .. Len(q)}
    BY DEF ToSet
  <1>2. \A i \in 1 .. Len(q) : q[i] \in S
    OBVIOUS
  <1>3. q = <<>> <=> Len(q) = 0
    BY EmptySeq
  <1>4. Len(q) \in Nat
    OBVIOUS
  <1>5. ToSet(q) # {} <=> Len(q) # 0
    BY <1>1, <1>4
  <1>6. QED
    BY <1>1, <1>2, <1>3, <1>5

\* Concatenation, by index.
LEMMA JoinedType ==
    ASSUME NEW S, NEW a \in Seq(S), NEW b \in Seq(S)
    PROVE  a \o b \in Seq(S) /\ Len(a \o b) = Len(a) + Len(b)
  BY ConcatProperties

LEMMA JoinedLeft ==
    ASSUME NEW S, NEW a \in Seq(S), NEW b \in Seq(S), NEW i \in 1 .. Len(a)
    PROVE  (a \o b)[i] = a[i]
  BY ConcatProperties

LEMMA JoinedRight ==
    ASSUME NEW S, NEW a \in Seq(S), NEW b \in Seq(S),
           NEW j \in 1 .. (Len(a) + Len(b)), j > Len(a)
    PROVE  (a \o b)[j] = b[j - Len(a)]
  BY ConcatProperties

\* RemoveFirst takes out the only occurrence of an entry and keeps the rest in order.
LEMMA RemoveOnly ==
    ASSUME NEW S, NEW q \in Seq(S), NEW k \in 1 .. Len(q),
           \A i, j \in 1 .. Len(q) : q[i] = q[j] => i = j
    PROVE  /\ RemoveFirst(q, q[k]) \in Seq(S)
           /\ Len(RemoveFirst(q, q[k])) = Len(q) - 1
           /\ \A j \in 1 .. (Len(q) - 1) :
                RemoveFirst(q, q[k])[j] = IF j < k THEN q[j] ELSE q[j + 1]
  <1> DEFINE I == {i \in 1 .. Len(q) : q[i] = q[k]}
  <1>1. I = {k}
    OBVIOUS
  <1>2. Min(I) = k
    BY <1>1 DEF Min
  <1>3. RemoveFirst(q, q[k]) = SubSeq(q, 1, k - 1) \o SubSeq(q, k + 1, Len(q))
    BY <1>1, <1>2 DEF RemoveFirst, SelectInSeq, RemoveAt
  <1>4. PICK a \in Seq(S) : /\ a = SubSeq(q, 1, k - 1)
                            /\ Len(a) = k - 1
                            /\ \A i \in 1 .. (k - 1) : a[i] = q[i]
    <2>1. /\ SubSeq(q, 1, k - 1) \in Seq(S)
          /\ Len(SubSeq(q, 1, k - 1)) = k - 1
          /\ \A i \in 1 .. (k - 1) : SubSeq(q, 1, k - 1)[i] = q[i]
      OBVIOUS
    <2>2. QED
      BY <2>1, Zenon
  <1>5. PICK b \in Seq(S) : /\ b = SubSeq(q, k + 1, Len(q))
                            /\ Len(b) = Len(q) - k
                            /\ \A i \in 1 .. (Len(q) - k) : b[i] = q[i + k]
    <2>1. /\ SubSeq(q, k + 1, Len(q)) \in Seq(S)
          /\ Len(SubSeq(q, k + 1, Len(q))) = Len(q) - k
          /\ \A i \in 1 .. (Len(q) - k) : SubSeq(q, k + 1, Len(q))[i] = q[i + k]
      BY DropFirst
    <2>2. QED
      BY <2>1, Zenon
  <1>6. RemoveFirst(q, q[k]) = a \o b
    BY <1>3, <1>4, <1>5, Zenon
  <1> DEFINE c == RemoveFirst(q, q[k])
  <1> HIDE DEF c
  <1>7. c = a \o b
    BY <1>6, Zenon DEF c
  <1>8. Len(a) = k - 1 /\ Len(b) = Len(q) - k
    BY <1>4, <1>5, Zenon
  <1>9. c \in Seq(S) /\ Len(c) = Len(a) + Len(b)
    BY <1>7, JoinedType, Zenon
  <1>10. Len(c) = Len(q) - 1
    BY <1>8, <1>9
  <1>11. ASSUME NEW j \in 1 .. (Len(q) - 1), j < k
         PROVE  c[j] = q[j]
    <2>1. j \in 1 .. Len(a) /\ a[j] = q[j]
      BY <1>4, <1>11
    <2>2. QED
      BY <1>7, <2>1, JoinedLeft, Zenon
  <1>12. ASSUME NEW j \in 1 .. (Len(q) - 1), ~(j < k)
         PROVE  c[j] = q[j + 1]
    <2>1. j \in 1 .. (Len(a) + Len(b)) /\ j > Len(a)
      BY <1>8, <1>12
    <2>2. c[j] = b[j - Len(a)]
      BY <1>7, <2>1, JoinedRight, Zenon
    <2>3. j - Len(a) \in 1 .. (Len(q) - k) /\ (j - Len(a)) + k = j + 1
      BY <1>8, <1>12
    <2>4. b[j - Len(a)] = q[(j - Len(a)) + k]
      BY <1>5, <2>3
    <2>5. QED
      BY <2>2, <2>3, <2>4, Zenon
  <1>13. QED
    BY <1>9, <1>10, <1>11, <1>12, Zenon DEF c

\* Append adds an entry at the end and keeps the others.
LEMMA Appended ==
    ASSUME NEW S, NEW s \in Seq(S), NEW e \in S
    PROVE  /\ Append(s, e) \in Seq(S) /\ Len(Append(s, e)) = Len(s) + 1
           /\ ToSet(Append(s, e)) = ToSet(s) \cup {e}
<1> DEFINE t == Append(s, e)
<1>1. t \in Seq(S) /\ Len(t) = Len(s) + 1 /\ Len(s) \in Nat
  OBVIOUS
<1>2. DOMAIN s = 1..Len(s) /\ DOMAIN t = 1..(Len(s) + 1)
  BY <1>1
<1>3. (\A i \in 1..Len(s) : t[i] = s[i]) /\ t[Len(s) + 1] = e
  OBVIOUS
<1>4. 1..(Len(s) + 1) = (1..Len(s)) \cup {Len(s) + 1}
  BY <1>1
<1> HIDE DEF t
<1>5. ToSet(t) = ToSet(s) \cup {e}
  BY <1>2, <1>3, <1>4 DEF ToSet
<1> QED
  BY <1>1, <1>5 DEF t

\* A sequence is its head and its tail.
LEMMA Taken ==
    ASSUME NEW S, NEW s \in Seq(S), s # <<>>
    PROVE  /\ Tail(s) \in Seq(S) /\ Len(Tail(s)) = Len(s) - 1
           /\ Head(s) \in S
           /\ ToSet(s) = ToSet(Tail(s)) \cup {Head(s)}
<1>1. Tail(s) \in Seq(S) /\ Len(Tail(s)) = Len(s) - 1 /\ Head(s) \in S
  OBVIOUS
<1>2. \A i \in 1..Len(Tail(s)) : Tail(s)[i] = s[i + 1]
  OBVIOUS
<1>3. \A i \in 1..Len(s) : i = 1 \/ (i - 1 \in 1..Len(Tail(s)) /\ s[i] = Tail(s)[i - 1])
  BY <1>1, <1>2
<1>4. /\ DOMAIN s = 1..Len(s) /\ DOMAIN Tail(s) = 1..Len(Tail(s)) /\ Head(s) = s[1]
      /\ Len(s) \in Nat \ {0}
  BY <1>1
<1>5. ASSUME NEW i \in 1..Len(s) PROVE s[i] \in ToSet(Tail(s)) \cup {Head(s)}
  BY <1>3, <1>4 DEF ToSet
<1>6. ASSUME NEW i \in 1..Len(Tail(s)) PROVE Tail(s)[i] \in ToSet(s)
  <2>1. i + 1 \in 1..Len(s)
    BY <1>1, <1>4
  <2> QED
    BY <1>2, <1>4, <2>1 DEF ToSet
<1>7. Head(s) \in ToSet(s)
  BY <1>4 DEF ToSet
<1>8. ToSet(s) \subseteq ToSet(Tail(s)) \cup {Head(s)}
  BY <1>4, <1>5 DEF ToSet
<1>9. ToSet(Tail(s)) \cup {Head(s)} \subseteq ToSet(s)
  BY <1>4, <1>6, <1>7 DEF ToSet
<1> QED
  BY <1>1, <1>8, <1>9

\* Concatenation, all of it.
LEMMA Concatenated ==
    ASSUME NEW S, NEW u \in Seq(S), NEW v \in Seq(S)
    PROVE  /\ u \o v \in Seq(S) /\ Len(u \o v) = Len(u) + Len(v)
           /\ \A n \in 1..Len(u) : (u \o v)[n] = u[n]
           /\ \A n \in (Len(u) + 1)..(Len(u) + Len(v)) : (u \o v)[n] = v[n - Len(u)]
OBVIOUS

\* A new head.
LEMMA Consed ==
    ASSUME NEW S, NEW a \in S, NEW s \in Seq(S)
    PROVE  /\ <<a>> \o s \in Seq(S) /\ <<a>> \o s # <<>>
           /\ Head(<<a>> \o s) = a /\ Tail(<<a>> \o s) = s
<1> DEFINE t == <<a>> \o s
<1>1. t \in Seq(S) /\ Len(t) = Len(s) + 1 /\ Len(s) \in Nat
  OBVIOUS
<1>2. t[1] = a /\ \A n \in 1..Len(s) : t[n + 1] = s[n]
  OBVIOUS
<1> HIDE DEF t
<1>3. Tail(t) \in Seq(S) /\ Len(Tail(t)) = Len(s) /\ \A n \in 1..Len(s) : Tail(t)[n] = t[n + 1]
  BY <1>1
<1>4. Tail(t) = s
  BY <1>2, <1>3
<1>5. t # <<>> /\ Head(t) = a
  BY <1>1, <1>2
<1> QED
  BY <1>1, <1>4, <1>5 DEF t

\* The tail has no entries but those of the sequence.
LEMMA Shorter ==
    ASSUME NEW S, NEW s \in Seq(S), s # <<>>
    PROVE  Tail(s) \in Seq(S) /\ Head(s) \in S /\ ToSet(Tail(s)) \subseteq ToSet(s)
<1>1. Tail(s) \in Seq(S) /\ Head(s) \in S /\ Len(Tail(s)) = Len(s) - 1 /\ Len(s) \in Nat \ {0}
  OBVIOUS
<1>2. \A n \in 1..Len(Tail(s)) : Tail(s)[n] = s[n + 1] /\ n + 1 \in 1..Len(s)
  BY <1>1
<1>3. DOMAIN s = 1..Len(s) /\ DOMAIN Tail(s) = 1..Len(Tail(s))
  BY <1>1
<1>4. ToSet(Tail(s)) \subseteq ToSet(s)
  BY <1>2, <1>3 DEF ToSet
<1> QED
  BY <1>1, <1>4


\* Without the only occurrence of an entry.
LEMMA Removed ==
    ASSUME NEW S, NEW q \in Seq(S), NEW e \in ToSet(q),
           \A i, j \in 1 .. Len(q) : q[i] = q[j] => i = j
    PROVE  /\ RemoveFirst(q, e) \in Seq(S)
           /\ \A i, j \in 1 .. Len(RemoveFirst(q, e)) :
                RemoveFirst(q, e)[i] = RemoveFirst(q, e)[j] => i = j
           /\ ToSet(RemoveFirst(q, e)) = ToSet(q) \ {e}
<1> DEFINE t == RemoveFirst(q, e)
           at(k, j) == IF j < k THEN j ELSE j + 1
<1>1. PICK k \in 1 .. Len(q) : q[k] = e
  BY Elements
<1>2. /\ t \in Seq(S) /\ Len(t) = Len(q) - 1 /\ Len(q) \in Nat /\ k \in Nat
      /\ \A j \in 1 .. (Len(q) - 1) : t[j] = IF j < k THEN q[j] ELSE q[j + 1]
  <2>1. t = RemoveFirst(q, q[k])
    BY <1>1
  <2> HIDE DEF t
  <2> QED
    BY <2>1, RemoveOnly
<1>3. \A j \in 1 .. Len(t) : at(k, j) \in 1 .. Len(q) /\ at(k, j) # k /\ t[j] = q[at(k, j)]
  BY <1>2
<1>4. \A i, j \in 1 .. Len(t) : at(k, i) = at(k, j) => i = j
  BY <1>2
<1>5. \A n \in 1 .. Len(q) : n # k => \E j \in 1 .. Len(t) : at(k, j) = n
  <2> TAKE n \in 1 .. Len(q)
  <2> HAVE n # k
  <2>1. CASE n < k
    BY <1>2, <2>1
  <2>2. CASE n > k
    <3>1. n - 1 \in 1 .. Len(t) /\ at(k, n - 1) = n
      BY <1>1, <1>2, <2>2
    <3> QED
      BY <3>1
  <2> QED
    BY <1>2, <2>1, <2>2
<1> HIDE DEF t, at
<1>6. \A i, j \in 1 .. Len(t) : t[i] = t[j] => i = j
  BY <1>3, <1>4
<1>7. ToSet(q) = {q[n] : n \in 1 .. Len(q)}
  BY Elements
<1>8. ToSet(t) = {t[j] : j \in 1 .. Len(t)}
  BY <1>2, Elements
<1>9. ToSet(t) \subseteq ToSet(q) \ {e}
  BY <1>1, <1>3, <1>7, <1>8
<1>10. ToSet(q) \ {e} \subseteq ToSet(t)
  <2>1. SUFFICES ASSUME NEW n \in 1 .. Len(q), q[n] # e
                 PROVE  q[n] \in ToSet(t)
    BY <1>7
  <2>2. n # k
    BY <1>1, <2>1
  <2>3. PICK j \in 1 .. Len(t) : at(k, j) = n
    BY <1>5, <2>2
  <2>4. t[j] = q[n]
    BY <1>3, <2>3
  <2> QED
    BY <1>8, <2>4
<1> QED
  BY <1>2, <1>6, <1>9, <1>10 DEF t

\* Without its head.
LEMMA HeadTaken ==
    ASSUME NEW S, NEW q \in Seq(S), q # <<>>,
           \A i, j \in 1 .. Len(q) : q[i] = q[j] => i = j
    PROVE  /\ Tail(q) \in Seq(S) /\ Head(q) \in ToSet(q) /\ Head(q) \in S
           /\ \A i, j \in 1 .. Len(Tail(q)) : Tail(q)[i] = Tail(q)[j] => i = j
           /\ ToSet(Tail(q)) = ToSet(q) \ {Head(q)}
<1>1. /\ Tail(q) \in Seq(S) /\ Len(Tail(q)) = Len(q) - 1 /\ Len(q) \in Nat \ {0}
      /\ Head(q) = q[1] /\ \A j \in 1 .. Len(Tail(q)) : Tail(q)[j] = q[j + 1]
  OBVIOUS
<1>2. ToSet(q) = ToSet(Tail(q)) \cup {Head(q)} /\ Head(q) \in ToSet(q) /\ Head(q) \in S
  BY Taken
<1>3. \A i, j \in 1 .. Len(Tail(q)) : Tail(q)[i] = Tail(q)[j] => i = j
  <2> TAKE i, j \in 1 .. Len(Tail(q))
  <2>1. i + 1 \in 1 .. Len(q) /\ j + 1 \in 1 .. Len(q)
    BY <1>1
  <2>2. HAVE Tail(q)[i] = Tail(q)[j]
  <2>3. i + 1 = j + 1
    BY <1>1, <2>1, <2>2
  <2> QED
    BY <1>1, <2>3
<1>4. Head(q) \notin ToSet(Tail(q))
  <2>1. SUFFICES ASSUME NEW j \in 1 .. Len(Tail(q)), Tail(q)[j] = Head(q)
                 PROVE  FALSE
    <3>1. ToSet(Tail(q)) = {Tail(q)[j] : j \in 1 .. Len(Tail(q))}
      BY <1>1, Elements
    <3> QED
      BY <3>1
  <2>2. q[j + 1] = q[1] /\ j + 1 \in 1 .. Len(q) /\ 1 \in 1 .. Len(q) /\ j + 1 # 1
    BY <1>1, <2>1
  <2> QED
    BY <2>2
<1> QED
  BY <1>1, <1>2, <1>3, <1>4

\* With a new entry that it did not hold.
LEMMA AppendedOnce ==
    ASSUME NEW S, NEW q \in Seq(S), NEW e \in S, e \notin ToSet(q),
           \A i, j \in 1 .. Len(q) : q[i] = q[j] => i = j
    PROVE  \A i, j \in 1 .. Len(Append(q, e)) : Append(q, e)[i] = Append(q, e)[j] => i = j
<1> DEFINE t == Append(q, e)
<1>1. /\ Len(t) = Len(q) + 1 /\ Len(q) \in Nat /\ t[Len(q) + 1] = e
      /\ \A i \in 1 .. Len(q) : t[i] = q[i]
  OBVIOUS
<1>2. \A i \in 1 .. Len(q) : q[i] # e
  BY Elements
<1> HIDE DEF t
<1>3. \A i, j \in 1 .. Len(t) : t[i] = t[j] => i = j
  BY <1>1, <1>2
<1> QED
  BY <1>3 DEF t

\* Two that share no entry, joined.
LEMMA JoinedOnce ==
    ASSUME NEW S, NEW u \in Seq(S), NEW v \in Seq(S), ToSet(u) \cap ToSet(v) = {},
           \A i, j \in 1 .. Len(u) : u[i] = u[j] => i = j,
           \A i, j \in 1 .. Len(v) : v[i] = v[j] => i = j
    PROVE  /\ u \o v \in Seq(S) /\ ToSet(u \o v) = ToSet(u) \cup ToSet(v)
           /\ \A i, j \in 1 .. Len(u \o v) : (u \o v)[i] = (u \o v)[j] => i = j
<1> DEFINE t == u \o v
<1>1. /\ t \in Seq(S) /\ Len(t) = Len(u) + Len(v) /\ Len(u) \in Nat /\ Len(v) \in Nat
      /\ \A n \in 1 .. Len(u) : t[n] = u[n]
      /\ \A n \in (Len(u) + 1) .. (Len(u) + Len(v)) : t[n] = v[n - Len(u)]
  BY Concatenated
<1> HIDE DEF t
<1>2. \A n \in 1 .. Len(t) :
        \/ n <= Len(u) /\ n \in 1 .. Len(u) /\ t[n] = u[n]
        \/ n > Len(u) /\ n - Len(u) \in 1 .. Len(v) /\ t[n] = v[n - Len(u)]
  BY <1>1
<1>3. /\ ToSet(u) = {u[i] : i \in 1 .. Len(u)} /\ ToSet(v) = {v[i] : i \in 1 .. Len(v)}
      /\ ToSet(t) = {t[i] : i \in 1 .. Len(t)}
  BY <1>1, Elements
<1>4. \A i \in 1 .. Len(u), j \in 1 .. Len(v) : u[i] # v[j]
  BY <1>3
<1>5. \A i, j \in 1 .. Len(t) : t[i] = t[j] => i = j
  <2> TAKE i, j \in 1 .. Len(t)
  <2>1. HAVE t[i] = t[j]
  <2>2. CASE i <= Len(u) /\ j <= Len(u)
    BY <1>1, <2>1, <2>2
  <2>3. CASE i > Len(u) /\ j > Len(u)
    <3>1. i - Len(u) \in 1 .. Len(v) /\ j - Len(u) \in 1 .. Len(v) /\ v[i - Len(u)] = v[j - Len(u)]
      BY <1>1, <1>2, <2>1, <2>3
    <3>2. i - Len(u) = j - Len(u)
      BY <3>1
    <3> QED
      BY <1>1, <3>2
  <2>4. CASE (i <= Len(u) /\ j > Len(u)) \/ (i > Len(u) /\ j <= Len(u))
    BY <1>1, <1>2, <1>4, <2>1, <2>4
  <2> QED
    BY <1>1, <2>2, <2>3, <2>4
<1>6. ToSet(t) \subseteq ToSet(u) \cup ToSet(v)
  BY <1>2, <1>3
<1>7. ToSet(u) \subseteq ToSet(t)
  <2>1. \A i \in 1 .. Len(u) : i \in 1 .. Len(t) /\ t[i] = u[i]
    BY <1>1
  <2> QED
    BY <1>3, <2>1
<1>8. ToSet(v) \subseteq ToSet(t)
  <2>1. \A i \in 1 .. Len(v) : i + Len(u) \in 1 .. Len(t) /\ t[i + Len(u)] = v[i]
    BY <1>1
  <2> QED
    BY <1>3, <2>1
<1> QED
  BY <1>1, <1>5, <1>6, <1>7, <1>8 DEF t
==============================================================================
