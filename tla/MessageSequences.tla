--------------------------- MODULE MessageSequences ---------------------------
(***************************************************************************)
(* What sequences of messages keep when one goroutine hands a message to   *)
(* the next, when a message comes in and when one is skipped.              *)
(***************************************************************************)
EXTENDS Integers, Sequences, SequenceTheorems, TLAPS

\* A sequence of length one, or with a head, added to another.
LEMMA BufferFacts ==
  /\ <<>> \in Seq(Nat) /\ Len(<<>>) = 0
  /\ \A s \in Seq(Nat) : Len(s) \in Nat
  /\ \A s, t \in Seq(Nat) : s \o t \in Seq(Nat) /\ Len(s \o t) = Len(s) + Len(t)
  /\ \A s \in Seq(Nat) : \A x \in Nat : Append(s, x) \in Seq(Nat) /\ Len(Append(s, x)) = Len(s) + 1
  /\ \A x \in Nat : <<x>> \in Seq(Nat) /\ Len(<<x>>) = 1
  /\ \A s \in Seq(Nat) :
       s # <<>> => Head(s) \in Nat /\ Tail(s) \in Seq(Nat) /\ Len(Tail(s)) = Len(s) - 1
<1>1. \A s, t \in Seq(Nat) : s \o t \in Seq(Nat) /\ Len(s \o t) = Len(s) + Len(t)
  OBVIOUS
<1>2. \A s \in Seq(Nat) :
       s # <<>> => Head(s) \in Nat /\ Tail(s) \in Seq(Nat) /\ Len(Tail(s)) = Len(s) - 1
  OBVIOUS
<1>3. \A s \in Seq(Nat) : \A x \in Nat : Append(s, x) \in Seq(Nat) /\ Len(Append(s, x)) = Len(s) + 1
  OBVIOUS
<1>4. QED
  BY <1>1, <1>2, <1>3

\* Where the buffers begin and end makes no difference.
LEMMA Regroup ==
  ASSUME NEW s \in Seq(Nat), NEW t \in Seq(Nat), NEW u \in Seq(Nat)
  PROVE  (s \o t) \o u = s \o (t \o u)
BY SMTT(60)

\* The first message of t moves to the end of s.
LEMMA MoveHead ==
  ASSUME NEW s \in Seq(Nat), NEW t \in Seq(Nat), t # <<>>
  PROVE  /\ s \o <<Head(t)>> \o Tail(t) = s \o <<>> \o t
         /\ Append(s, Head(t)) \o Tail(t) = s \o t
<1>1. /\ Head(t) \in Nat /\ Tail(t) \in Seq(Nat) /\ <<Head(t)>> \in Seq(Nat)
      /\ <<Head(t)>> \o Tail(t) = t
  OBVIOUS
<1>2. s \o <<Head(t)>> \o Tail(t) = s \o t
  <2> DEFINE h == <<Head(t)>>
             r == Tail(t)
  <2>1. h \in Seq(Nat) /\ r \in Seq(Nat)
    BY <1>1, Zenon
  <2>2. h \o r = t
    BY <1>1, Zenon
  <2> HIDE DEF h, r
  <2>3. s \o h \o r = s \o (h \o r)
    BY <2>1, Regroup, Zenon
  <2>4. QED
    BY <2>2, <2>3, Zenon DEF h, r
<1>3. s \o <<>> = s
  OBVIOUS
<1>4. Append(s, Head(t)) = s \o <<Head(t)>>
  BY <1>1, AppendIsConcat, Zenon
<1>5. QED
  BY <1>2, <1>3, <1>4, Zenon

\* All messages of u move to the end of t.
LEMMA MoveAll ==
  ASSUME NEW s \in Seq(Nat), NEW t \in Seq(Nat), NEW u \in Seq(Nat)
  PROVE  s \o (t \o u) \o <<>> = s \o t \o u
<1>1. s \o (t \o u) = s \o t \o u
  BY Regroup, Zenon
<1>2. s \o t \o u \in Seq(Nat)
  OBVIOUS
<1>3. QED
  BY <1>1, <1>2, ConcatEmptySeq, Zenon

\* A message comes in behind t.
LEMMA MoveIn ==
  ASSUME NEW s \in Seq(Nat), NEW t \in Seq(Nat), NEW x \in Nat
  PROVE  s \o Append(t, x) = Append(s \o t, x)
OBVIOUS

\* q is the sequence p without the message x at place d.
Without(q, p, d, x) ==
  /\ q \in Seq(Nat) /\ Len(q) = Len(p) - 1
  /\ d \in 1..Len(p) /\ p[d] = x
  /\ \A i \in 1..Len(q) : q[i] = IF i < d THEN p[i] ELSE p[i + 1]

\* The messages of s and those of t without its first, where u comes after them.
LEMMA DropHead ==
  ASSUME NEW s \in Seq(Nat), NEW t \in Seq(Nat), NEW u \in Seq(Nat), t # <<>>,
         NEW p, NEW q, p = s \o t \o u, q = s \o Tail(t) \o u
  PROVE  Without(q, p, Len(s) + 1, Head(t))
<1>1. /\ Head(t) = t[1] /\ Tail(t) \in Seq(Nat) /\ Len(Tail(t)) = Len(t) - 1 /\ Len(t) >= 1
      /\ \A i \in 1..Len(Tail(t)) : Tail(t)[i] = t[i + 1]
  OBVIOUS
<1>2. Len(s) \in Nat /\ Len(t) \in Nat /\ Len(u) \in Nat
  OBVIOUS
<1>3. /\ s \o t \in Seq(Nat) /\ Len(s \o t) = Len(s) + Len(t)
      /\ \A i \in 1..(Len(s) + Len(t)) : (s \o t)[i] = IF i <= Len(s) THEN s[i] ELSE t[i - Len(s)]
  BY ConcatProperties, Zenon
<1>4. /\ s \o Tail(t) \in Seq(Nat) /\ Len(s \o Tail(t)) = Len(s) + Len(t) - 1
      /\ \A i \in 1..(Len(s) + Len(t) - 1) :
           (s \o Tail(t))[i] = IF i <= Len(s) THEN s[i] ELSE Tail(t)[i - Len(s)]
  BY <1>1, <1>2, ConcatProperties
<1>5. /\ p \in Seq(Nat) /\ Len(p) = Len(s) + Len(t) + Len(u)
      /\ \A i \in 1..(Len(s) + Len(t) + Len(u)) :
           p[i] = IF i <= Len(s) + Len(t) THEN (s \o t)[i] ELSE u[i - (Len(s) + Len(t))]
  BY <1>3, ConcatProperties
<1>6. /\ q \in Seq(Nat) /\ Len(q) = Len(s) + Len(t) - 1 + Len(u)
      /\ \A i \in 1..(Len(s) + Len(t) - 1 + Len(u)) :
           q[i] = IF i <= Len(s) + Len(t) - 1 THEN (s \o Tail(t))[i]
                  ELSE u[i - (Len(s) + Len(t) - 1)]
  BY <1>4, ConcatProperties
<1>7. Len(s) + 1 \in 1..Len(p) /\ p[Len(s) + 1] = Head(t) /\ Len(q) = Len(p) - 1
  <2>1. QED
    BY <1>1, <1>2, <1>3, <1>5, <1>6
<1>8. ASSUME NEW i \in 1..Len(q) PROVE q[i] = IF i < Len(s) + 1 THEN p[i] ELSE p[i + 1]
  <2>1. i \in Int /\ 1 <= i /\ i <= Len(s) + Len(t) - 1 + Len(u)
    BY <1>2, <1>6
  <2>2. CASE i <= Len(s)
    <3>1. q[i] = s[i]
      BY <1>1, <1>2, <1>4, <1>6, <2>1, <2>2
    <3>2. p[i] = s[i]
      <4>1. i \in 1..(Len(s) + Len(t)) /\ i \in 1..(Len(s) + Len(t) + Len(u)) /\ i <= Len(s) + Len(t)
        BY <1>1, <1>2, <2>1, <2>2
      <4>2. QED
        BY <1>3, <1>5, <2>2, <4>1, Zenon
    <3>3. QED
      BY <1>2, <2>1, <2>2, <3>1, <3>2
  <2>3. CASE i > Len(s) /\ i <= Len(s) + Len(t) - 1
    <3>1. q[i] = Tail(t)[i - Len(s)]
      BY <1>2, <1>4, <1>6, <2>1, <2>3
    <3>2. i - Len(s) \in 1..Len(Tail(t)) /\ (i - Len(s)) + 1 = (i + 1) - Len(s)
      BY <1>1, <1>2, <2>1, <2>3
    <3>3. p[i + 1] = t[(i + 1) - Len(s)]
      BY <1>2, <1>3, <1>5, <2>1, <2>3
    <3>4. QED
      BY <1>1, <1>2, <2>1, <2>3, <3>1, <3>2, <3>3
  <2>4. CASE i > Len(s) + Len(t) - 1
    <3>1. q[i] = u[i - (Len(s) + Len(t) - 1)]
      BY <1>2, <1>6, <2>1, <2>4
    <3>2. p[i + 1] = u[(i + 1) - (Len(s) + Len(t))]
      BY <1>2, <1>5, <2>1, <2>4
    <3>3. i - (Len(s) + Len(t) - 1) = (i + 1) - (Len(s) + Len(t)) /\ ~(i < Len(s) + 1)
      BY <1>1, <1>2, <2>1, <2>4
    <3>4. QED
      BY <3>1, <3>2, <3>3, Zenon
  <2>5. QED
    BY <1>2, <2>1, <2>2, <2>3, <2>4
<1>9. QED
  BY <1>5, <1>6, <1>7, <1>8, Zenon DEF Without

\* ThinnedTo for a set of wanted ids.
Thinned(p, q, ids) ==
  \E pos \in [DOMAIN q -> DOMAIN p] :
    /\ \A i, j \in DOMAIN q : i < j => pos[i] < pos[j]
    /\ \A i \in DOMAIN q : q[i] = p[pos[i]]
    /\ \A k \in DOMAIN p : p[k] \in ids => \E i \in DOMAIN q : pos[i] = k

\* A message comes in at the end.
LEMMA ThinnedAppend ==
  ASSUME NEW S, NEW p \in Seq(S), NEW q \in Seq(S), NEW ids, NEW x \in S, Thinned(p, q, ids)
  PROVE  Thinned(Append(p, x), Append(q, x), ids)
<1>1. PICK pos \in [DOMAIN q -> DOMAIN p] :
        /\ \A i, j \in DOMAIN q : i < j => pos[i] < pos[j]
        /\ \A i \in DOMAIN q : q[i] = p[pos[i]]
        /\ \A k \in DOMAIN p : p[k] \in ids => \E i \in DOMAIN q : pos[i] = k
  BY Zenon DEF Thinned
<1> DEFINE m == Len(p) + 1
           n == Len(q) + 1
           new == [i \in 1..n |-> IF i = n THEN m ELSE pos[i]]
<1>2. DOMAIN q = 1..Len(q) /\ DOMAIN p = 1..Len(p) /\ Len(p) \in Nat /\ Len(q) \in Nat
  OBVIOUS
<1>3. DOMAIN Append(q, x) = 1..n /\ DOMAIN Append(p, x) = 1..m
  BY <1>2
<1>4. /\ Append(q, x)[n] = x /\ Append(p, x)[m] = x
      /\ \A i \in 1..Len(q) : Append(q, x)[i] = q[i]
      /\ \A k \in 1..Len(p) : Append(p, x)[k] = p[k]
  BY AppendProperties
<1>5. \A i \in 1..Len(q) : pos[i] \in 1..Len(p) /\ new[i] = pos[i]
  BY <1>1, <1>2
<1>6. new[n] = m /\ \A i \in 1..n : i = n \/ i \in 1..Len(q)
  BY <1>2
<1>7. new \in [1..n -> 1..m]
  <2>1. m \in 1..m /\ \A k \in 1..Len(p) : k \in 1..m
    BY <1>2
  <2>2. ASSUME NEW i \in 1..n PROVE new[i] \in 1..m
    <3> HIDE DEF new, n, m
    <3>1. QED
      BY <1>5, <1>6, <2>1, Zenon
  <2>3. QED
    BY <2>2, Zenon
<1>8. \A i, j \in 1..n : i < j => new[i] < new[j]
  <2>1. SUFFICES ASSUME NEW i \in 1..n, NEW j \in 1..n, i < j PROVE new[i] < new[j]
    BY Zenon
  <2>2. i \in 1..Len(q) /\ (j = n \/ j \in 1..Len(q))
    BY <1>2, <2>1
  <2>3. new[i] = pos[i] /\ pos[i] \in 1..Len(p)
    BY <1>5, <2>2, Zenon
  <2>4. CASE j = n
    BY <1>2, <1>6, <2>3, <2>4
  <2>5. CASE j \in 1..Len(q)
    <3>1. new[j] = pos[j] /\ pos[i] < pos[j]
      BY <1>1, <1>2, <1>5, <2>1, <2>2, <2>5, Zenon
    <3>2. QED
      BY <2>3, <3>1, Zenon
  <2>6. QED
    BY <2>2, <2>4, <2>5, Zenon
<1>9. \A i \in 1..n : Append(q, x)[i] = Append(p, x)[new[i]]
  <2>1. ASSUME NEW i \in 1..Len(q) PROVE Append(q, x)[i] = Append(p, x)[new[i]]
    BY <1>1, <1>2, <1>4, <1>5
  <2>2. Append(q, x)[n] = Append(p, x)[new[n]]
    BY <1>4, <1>6, Zenon
  <2> HIDE DEF new
  <2>3. QED
    BY <1>6, <2>1, <2>2, Zenon
<1>10. \A k \in 1..m : Append(p, x)[k] \in ids => \E i \in 1..n : new[i] = k
  <2>1. ASSUME NEW k \in 1..m, Append(p, x)[k] \in ids PROVE \E i \in 1..n : new[i] = k
    <3>1. CASE k = m
      BY <1>2, <1>6, <3>1
    <3>2. CASE k \in 1..Len(p)
      <4>1. p[k] \in ids
        BY <1>4, <2>1, <3>2, Zenon
      <4>2. PICK i \in 1..Len(q) : pos[i] = k
        BY <1>1, <1>2, <3>2, <4>1, Zenon
      <4>3. i \in 1..n
        BY <1>2
      <4>4. QED
        BY <1>5, <4>2, <4>3, Zenon
    <3>3. QED
      BY <1>2, <3>1, <3>2
  <2>2. QED
    BY <2>1, Zenon
<1>11. QED
  <2> HIDE DEF new, m, n
  <2>1. new \in [DOMAIN Append(q, x) -> DOMAIN Append(p, x)]
    BY <1>3, <1>7, Zenon
  <2>2. \A i, j \in DOMAIN Append(q, x) : i < j => new[i] < new[j]
    BY <1>3, <1>8, Zenon
  <2>3. \A i \in DOMAIN Append(q, x) : Append(q, x)[i] = Append(p, x)[new[i]]
    BY <1>3, <1>9, Zenon
  <2>4. \A k \in DOMAIN Append(p, x) :
          Append(p, x)[k] \in ids => \E i \in DOMAIN Append(q, x) : new[i] = k
    BY <1>3, <1>10, Zenon
  <2>5. QED
    BY <2>1, <2>2, <2>3, <2>4, Zenon DEF Thinned

\* The message at place d, which nobody wants, is taken out.
LEMMA ThinnedDrop ==
  ASSUME NEW S, NEW p \in Seq(S), NEW q \in Seq(S), NEW r \in Seq(S), NEW ids, Thinned(p, q, ids),
         NEW d \in 1..Len(q), q[d] \notin ids, Len(r) = Len(q) - 1,
         \A i \in 1..Len(r) : r[i] = IF i < d THEN q[i] ELSE q[i + 1]
  PROVE  Thinned(p, r, ids)
<1>1. PICK pos \in [DOMAIN q -> DOMAIN p] :
        /\ \A i, j \in DOMAIN q : i < j => pos[i] < pos[j]
        /\ \A i \in DOMAIN q : q[i] = p[pos[i]]
        /\ \A k \in DOMAIN p : p[k] \in ids => \E i \in DOMAIN q : pos[i] = k
  BY Zenon DEF Thinned
<1>2. /\ DOMAIN q = 1..Len(q) /\ DOMAIN p = 1..Len(p) /\ DOMAIN r = 1..Len(r)
      /\ Len(p) \in Nat /\ Len(q) \in Nat /\ Len(r) \in Nat
  OBVIOUS
<1> DEFINE old(i) == IF i < d THEN i ELSE i + 1
           new == [i \in 1..Len(r) |-> pos[old(i)]]
<1>3. \A i \in 1..Len(r) : old(i) \in 1..Len(q)
  BY <1>2
<1>4. \A i, j \in 1..Len(r) : i < j => old(i) < old(j)
  BY <1>2
<1>5. \A i \in 1..Len(r) : r[i] = q[old(i)]
  BY Zenon
<1>6. \A j \in 1..Len(q) : j # d => \E i \in 1..Len(r) : old(i) = j
  <2>1. ASSUME NEW j \in 1..Len(q), j < d PROVE j \in 1..Len(r) /\ old(j) = j
    BY <1>2, <2>1
  <2>2. ASSUME NEW j \in 1..Len(q), j > d PROVE j - 1 \in 1..Len(r) /\ old(j - 1) = j
    BY <1>2, <2>2
  <2>3. ASSUME NEW j \in 1..Len(q), j # d PROVE \E i \in 1..Len(r) : old(i) = j
    <3>1. CASE j < d
      BY <2>1, <3>1, Zenon
    <3>2. CASE j > d
      BY <2>2, <3>2, Zenon
    <3>3. QED
      BY <2>3, <3>1, <3>2
  <2>4. QED
    BY <2>3, Zenon
<1>7. \A i \in 1..Len(r) : new[i] = pos[old(i)]
  BY Zenon
<1>8. new \in [1..Len(r) -> 1..Len(p)]
  <2> HIDE DEF old
  <2>1. \A i \in 1..Len(r) : pos[old(i)] \in 1..Len(p)
    BY <1>1, <1>2, <1>3, Zenon
  <2>2. QED
    BY <2>1, Zenon
<1>9. \A i, j \in 1..Len(r) : i < j => new[i] < new[j]
  <2> HIDE DEF old, new
  <2>1. QED
    BY <1>1, <1>2, <1>3, <1>4, <1>7
<1>10. \A i \in 1..Len(r) : r[i] = p[new[i]]
  <2> HIDE DEF old, new
  <2>1. QED
    BY <1>1, <1>2, <1>3, <1>5, <1>7
<1>11. \A k \in 1..Len(p) : p[k] \in ids => \E i \in 1..Len(r) : new[i] = k
  <2> HIDE DEF old, new
  <2>1. ASSUME NEW k \in 1..Len(p), p[k] \in ids PROVE \E i \in 1..Len(r) : new[i] = k
    <3>1. PICK j \in 1..Len(q) : pos[j] = k
      BY <1>1, <1>2, <2>1, Zenon
    <3>2. j # d
      BY <1>1, <1>2, <2>1, <3>1, Zenon
    <3>3. QED
      BY <1>6, <1>7, <3>1, <3>2, Zenon
  <2>2. QED
    BY <2>1, Zenon
<1>12. QED
  <2> HIDE DEF old, new
  <2>1. new \in [DOMAIN r -> DOMAIN p]
    BY <1>2, <1>8, Zenon
  <2>2. \A i, j \in DOMAIN r : i < j => new[i] < new[j]
    BY <1>2, <1>9, Zenon
  <2>3. \A i \in DOMAIN r : r[i] = p[new[i]]
    BY <1>2, <1>10, Zenon
  <2>4. \A k \in DOMAIN p : p[k] \in ids => \E i \in DOMAIN r : new[i] = k
    BY <1>2, <1>11, Zenon
  <2>5. QED
    BY <2>1, <2>2, <2>3, <2>4, Zenon DEF Thinned

\* Fewer ids to look for, among the messages that are there, make no difference.
LEMMA ThinnedIds ==
  ASSUME NEW p, NEW q, NEW ids, NEW others, Thinned(p, q, ids),
         \A k \in DOMAIN p : p[k] \in others => p[k] \in ids
  PROVE  Thinned(p, q, others)
BY Zenon DEF Thinned
===============================================================================
