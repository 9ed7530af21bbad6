------------------------- MODULE EventStream_proofs -------------------------
(***************************************************************************)
(* Proofs about PushBus and EventStream: what the push bus promises its    *)
(* subscribers, and what a renderer that follows a session shows, for      *)
(* every capacity and any number of launches, events, drops, failures and  *)
(* reopenings.                                                             *)
(***************************************************************************)
EXTENDS EventStream, SequenceTheorems, TLAPS

Entry(E) == [seq : Nat, event : E]
Bus(E) == [seq : Nat, ring : Seq(Entry(E))]

USE CapacityAssumption DEF CapacityAssumption

\* A new b is in order.
LEMMA EmptyInOrder == RingInOrder(EmptyBus)
BY DEF RingInOrder, EmptyBus

\* Dropping the head of a sequence moves every later element up by one.
LEMMA DropHead ==
  ASSUME NEW S, NEW s \in Seq(S), Len(s) >= 1
  PROVE  /\ SubSeq(s, 2, Len(s)) \in Seq(S)
         /\ Len(SubSeq(s, 2, Len(s))) = Len(s) - 1
         /\ \A i \in 1 .. Len(s) - 1 : SubSeq(s, 2, Len(s))[i] = s[i + 1]
<1> DEFINE n == Len(s)
           t == SubSeq(s, 2, n)
<1>1. n \in Int /\ 2 \in Int /\ n >= 1 /\ \A i \in 2 .. n : s[i] \in S
  OBVIOUS
<1> HIDE DEF n
<1>2. /\ t \in Seq(S)
      /\ Len(t) = IF 2 <= n THEN n - 2 + 1 ELSE 0
      /\ \A i \in 1 .. n - 2 + 1 : t[i] = s[2 + i - 1]
  BY <1>1, SubSeqProperties, SMTT(20)
<1> HIDE DEF t
<1>3. Len(t) = n - 1
  <2>1. Len(t) = IF 2 <= n THEN n - 2 + 1 ELSE 0
    BY <1>2
  <2>2. QED
    BY <2>1, <1>1
<1>4. ASSUME NEW i \in 1 .. n - 1 PROVE t[i] = s[i + 1]
  <2>1. i \in 1 .. n - 2 + 1 /\ 2 + i - 1 = i + 1
    BY <1>1
  <2>2. t[i] = s[2 + i - 1]
    BY <1>2, <2>1, Zenon
  <2>3. QED
    BY <2>1, <2>2, Zenon
<1>5. t \in Seq(S) /\ Len(t) = n - 1 /\ \A i \in 1 .. n - 1 : t[i] = s[i + 1]
  BY <1>2, <1>3, <1>4
<1>6. QED
  BY <1>5, Zenon DEF t, n

\* Dropping the first k elements of a sequence moves the others up by k.
LEMMA LaterPart ==
  ASSUME NEW S, NEW s \in Seq(S), NEW k \in Nat, k + 1 \in 1 .. Len(s)
  PROVE  /\ Len(SubSeq(s, k + 1, Len(s))) = Len(s) - k
         /\ \A i \in 1 .. Len(s) - k : SubSeq(s, k + 1, Len(s))[i] = s[k + i]
OBVIOUS

\* append keeps the ring in order: it stays the latest Capacity events, stamped
\* without a gap, and the new one is its last.
THEOREM AppendKeepsOrder ==
  ASSUME NEW E, NEW b \in Bus(E), NEW e \in E, RingInOrder(b)
  PROVE  LET after == AppendEvent(b, e)
         IN  /\ after \in Bus(E)
             /\ RingInOrder(after)
             /\ after.ring[Len(after.ring)] = Stamped(b.seq + 1, e)
<1> DEFINE new == Stamped(b.seq + 1, e)
           ring == Append(b.ring, new)
<1>1. b.seq \in Nat /\ b.ring \in Seq(Entry(E)) /\ Len(b.ring) \in Nat
  BY DEF Bus
<1>2. new \in Entry(E) /\ new.seq = b.seq + 1
  BY <1>1 DEF Stamped, Entry
<1>3. /\ ring \in Seq(Entry(E)) /\ Len(ring) = Len(b.ring) + 1
      /\ ring[Len(ring)] = new
      /\ \A i \in 1 .. Len(b.ring) : ring[i] = b.ring[i]
  BY <1>1, <1>2
<1>4. \A i \in 1 .. Len(b.ring) : b.ring[i].seq = b.seq - Len(b.ring) + i
  BY <1>1 DEF RingInOrder
<1>5. AppendEvent(b, e) = [seq |-> b.seq + 1, ring |-> Latest(ring)]
  BY DEF AppendEvent
<1> HIDE DEF new, ring
<1>6. \A i \in 1 .. Len(ring) : ring[i].seq = b.seq + 1 - Len(ring) + i
  <2> TAKE i \in 1 .. Len(ring)
  <2>1. CASE i = Len(ring)
    BY <1>1, <1>2, <1>3, <2>1
  <2>2. CASE i \in 1 .. Len(b.ring)
    BY <1>1, <1>3, <1>4, <2>2
  <2>3. QED
    BY <1>1, <1>3, <2>1, <2>2
<1>7. Len(b.ring) = IF b.seq < Capacity THEN b.seq ELSE Capacity
  BY DEF RingInOrder
<1>8. CASE b.seq >= Capacity
  <2> DEFINE kept == SubSeq(ring, 2, Len(ring))
  <2>1. Len(ring) = Capacity + 1
    BY <1>1, <1>3, <1>7, <1>8
  <2>2. AppendEvent(b, e) = [seq |-> b.seq + 1, ring |-> kept]
    <3>1. Len(ring) > Capacity /\ Len(ring) - Capacity + 1 = 2
      BY <2>1
    <3>2. Latest(ring) = kept
      BY <3>1 DEF Latest
    <3>3. QED
      BY <1>5, <3>2
  <2>3. /\ kept \in Seq(Entry(E)) /\ Len(kept) = Capacity
        /\ \A i \in 1 .. Capacity : kept[i] = ring[i + 1]
    BY <1>3, <2>1, DropHead
  <2> HIDE DEF kept
  <2>4. \A i \in 1 .. Capacity : kept[i].seq = b.seq + 1 - Capacity + i
    BY <1>1, <1>6, <2>1, <2>3
  <2>5. DOMAIN kept = 1 .. Capacity /\ kept[Capacity] = new
    BY <1>3, <2>1, <2>3
  <2>6. [seq |-> b.seq + 1, ring |-> kept] \in Bus(E)
    BY <1>1, <2>3 DEF Bus
  <2>7. RingInOrder([seq |-> b.seq + 1, ring |-> kept])
    BY <1>1, <1>8, <2>3, <2>4, <2>5 DEF RingInOrder
  <2>8. QED
    BY <2>2, <2>3, <2>5, <2>6, <2>7 DEF new
<1>9. CASE b.seq < Capacity
  <2>1. Len(ring) = b.seq + 1
    BY <1>1, <1>3, <1>7, <1>9
  <2>2. AppendEvent(b, e) = [seq |-> b.seq + 1, ring |-> ring]
    BY <1>1, <1>5, <1>9, <2>1 DEF Latest
  <2>3. [seq |-> b.seq + 1, ring |-> ring] \in Bus(E)
    BY <1>1, <1>3 DEF Bus
  <2>4. DOMAIN ring = 1 .. Len(ring)
    BY <1>3
  <2>5. RingInOrder([seq |-> b.seq + 1, ring |-> ring])
    BY <1>1, <1>6, <1>9, <2>1, <2>4 DEF RingInOrder
  <2>6. QED
    BY <1>3, <2>2, <2>3, <2>5 DEF new
<1>10. QED
  BY <1>1, <1>8, <1>9

\* A client at most Capacity events behind is replayed exactly what it misses:
\* every later event once, in order, and none it has.
THEOREM ReplayIsExact ==
  ASSUME NEW E, NEW b \in Bus(E), RingInOrder(b),
         NEW from \in 0 .. b.seq, b.seq - from <= Capacity
  PROVE  LET replay == ReplayFrom(b, from)
         IN  /\ Len(replay) = b.seq - from
             /\ \A i \in 1 .. Len(replay) :
                  /\ replay[i].seq = from + i
                  /\ \E j \in DOMAIN b.ring : replay[i] = b.ring[j]
<1> DEFINE ring == b.ring
           n == Len(b.ring)
<1>1. b.seq \in Nat /\ ring \in Seq(Entry(E)) /\ n \in Nat /\ from \in Nat
  BY DEF Bus
<1>2. CASE from = b.seq
  BY <1>1, <1>2 DEF ReplayFrom
<1>3. CASE from < b.seq
  <2>1. n >= 1 /\ ring # <<>> /\ b.seq - from <= n /\ n <= b.seq
    BY <1>1, <1>3 DEF RingInOrder
  <2>2. DOMAIN ring = 1 .. n /\ \A i \in 1 .. n : ring[i].seq = b.seq - n + i
    BY <1>1 DEF RingInOrder
  <2>3. Head(ring).seq = b.seq - n + 1
    BY <1>1, <2>1, <2>2
  <2> DEFINE k == from - (b.seq - n)
             replay == SubSeq(ring, k + 1, n)
  <2>4. k \in Nat /\ k + 1 \in 1 .. n /\ n - k = b.seq - from
    BY <1>1, <1>3, <2>1
  <2>5. ReplayFrom(b, from) = replay
    <3>1. ~(from >= b.seq) /\ ~(from < Head(ring).seq - 1)
      BY <1>1, <1>3, <2>1, <2>3
    <3>2. ReplayFrom(b, from) = SubSeq(ring, from - Head(ring).seq + 2, n)
      BY <2>1, <3>1 DEF ReplayFrom
    <3>3. from - (b.seq - n + 1) + 2 = k + 1
      BY <1>1
    <3>4. QED
      BY <2>3, <3>2, <3>3, Zenon
  <2>6. Len(replay) = n - k /\ \A i \in 1 .. n - k : replay[i] = ring[k + i]
    BY <1>1, <2>4, LaterPart
  <2> HIDE DEF replay
  <2>7. ASSUME NEW i \in 1 .. n - k
        PROVE  k + i \in 1 .. n /\ ring[k + i].seq = from + i
    <3>1. k + i \in 1 .. n
      BY <1>1, <2>4
    <3>2. ring[k + i].seq = b.seq - n + (k + i)
      BY <2>2, <3>1
    <3>3. b.seq - n + (k + i) = from + i
      BY <1>1, <2>4
    <3>4. QED
      BY <3>1, <3>2, <3>3
  <2>8. QED
    BY <2>2, <2>4, <2>5, <2>6, <2>7
<1>4. QED
  BY <1>1, <1>2, <1>3

\* A client further behind is never replayed a gapped stream: it is sent to a
\* snapshot.
THEOREM GapFallsBack ==
  ASSUME NEW E, NEW b \in Bus(E), RingInOrder(b),
         NEW from \in Nat, b.seq - from > Capacity
  PROVE  ReplayFrom(b, from) = Evicted
<1>1. b.seq \in Nat /\ b.ring \in Seq(Entry(E))
  BY DEF Bus
<1>2. Len(b.ring) = Capacity /\ b.ring # <<>>
  BY <1>1 DEF RingInOrder
<1>3. Head(b.ring).seq = b.seq - Capacity + 1
  BY <1>1, <1>2 DEF RingInOrder
<1>4. ~(from >= b.seq) /\ from < Head(b.ring).seq - 1
  <2>1. b.seq \in Nat /\ from < b.seq - Capacity /\ from < b.seq
    BY <1>1
  <2>2. b.seq - Capacity + 1 - 1 = b.seq - Capacity
    BY <2>1
  <2>3. QED
    BY <1>3, <2>1, <2>2
<1>5. QED
  BY <1>2, <1>4, Zenon DEF ReplayFrom

\* What is kept of a ring are its last entries, in place.
LEMMA LatestKeeps ==
  ASSUME NEW S, NEW s \in Seq(S)
  PROVE  /\ Latest(s) \in Seq(S)
         /\ Len(Latest(s)) = IF Len(s) > Capacity THEN Capacity ELSE Len(s)
         /\ \A i \in 1 .. Len(Latest(s)) : Latest(s)[i] = s[Len(s) - Len(Latest(s)) + i]
<1>1. CASE ~(Len(s) > Capacity)
  BY <1>1 DEF Latest
<1>2. CASE Len(s) > Capacity
  <2> DEFINE k == Len(s) - Capacity
             t == SubSeq(s, k + 1, Len(s))
  <2>1. Len(s) \in Nat /\ k \in Nat /\ k + 1 \in 1 .. Len(s) /\ Len(s) - k = Capacity
    BY <1>2
  <2>2. Len(t) = Len(s) - k /\ \A i \in 1 .. Len(s) - k : t[i] = s[k + i]
    BY <2>1, LaterPart
  <2>3. t \in Seq(S)
    <3>1. k + 1 \in Int /\ Len(s) \in Int /\ \A i \in k + 1 .. Len(s) : s[i] \in S
      BY <2>1
    <3>2. QED
      BY <3>1, SubSeqProperties
  <2>4. Latest(s) = t
    BY <1>2 DEF Latest
  <2> HIDE DEF t
  <2>5. Len(t) = Capacity /\ \A i \in 1 .. Len(t) : t[i] = s[Len(s) - Len(t) + i]
    BY <2>1, <2>2
  <2>6. QED
    BY <1>2, <2>3, <2>4, <2>5
<1>3. QED
  BY <1>1, <1>2

\* Appending several events is appending them one after the other.
THEOREM SeedingIsAppending ==
  ASSUME NEW E, NEW b \in Bus(E), Len(b.ring) <= Capacity, NEW es \in Seq(E), NEW e \in E
  PROVE  /\ AppendAll(b, <<>>) = b
         /\ AppendAll(b, Append(es, e)) = AppendEvent(AppendAll(b, es), e)
<1> DEFINE n == Len(es)
           new == Stamped(b.seq + (n + 1), e)
           X == b.ring \o [i \in DOMAIN es |-> Stamped(b.seq + i, es[i])]
           Y == b.ring \o [i \in DOMAIN Append(es, e) |-> Stamped(b.seq + i, Append(es, e)[i])]
<1>1. /\ b.seq \in Nat /\ b.ring \in Seq(Entry(E)) /\ n \in Nat
      /\ b = [seq |-> b.seq, ring |-> b.ring]
  BY DEF Bus
<1>2. AppendAll(b, <<>>) = b
  <2>1. [i \in DOMAIN <<>> |-> Stamped(b.seq + i, <<>>[i])] = <<>>
    OBVIOUS
  <2>2. b.ring \o <<>> = b.ring /\ Len(<<>>) = 0
    BY <1>1
  <2>3. Latest(b.ring) = b.ring
    BY <1>1 DEF Latest
  <2>4. AppendAll(b, <<>>) = [seq |-> b.seq + 0, ring |-> b.ring]
    BY <2>1, <2>2, <2>3 DEF AppendAll
  <2>5. QED
    BY <1>1, <2>4
<1>3. DOMAIN es = 1 .. n /\ DOMAIN Append(es, e) = 1 .. n + 1
  OBVIOUS
<1>4. /\ [i \in 1 .. n |-> Stamped(b.seq + i, es[i])] \in Seq(Entry(E))
      /\ Len([i \in 1 .. n |-> Stamped(b.seq + i, es[i])]) = n
  <2>1. \A i \in 1 .. n : Stamped(b.seq + i, es[i]) \in Entry(E)
    BY <1>1 DEF Stamped, Entry
  <2>2. QED
    BY <1>1, <2>1, IsASeq
<1>5. /\ [i \in 1 .. n + 1 |-> Stamped(b.seq + i, Append(es, e)[i])] \in Seq(Entry(E))
      /\ Len([i \in 1 .. n + 1 |-> Stamped(b.seq + i, Append(es, e)[i])]) = n + 1
  <2>1. \A i \in 1 .. n + 1 : Stamped(b.seq + i, Append(es, e)[i]) \in Entry(E)
    BY <1>1 DEF Stamped, Entry
  <2>2. QED
    BY <1>1, <2>1, IsASeq
<1>6. new \in Entry(E)
  BY <1>1 DEF Stamped, Entry
<1>7. X \in Seq(Entry(E)) /\ Len(X) = Len(b.ring) + n /\ Y \in Seq(Entry(E))
  BY <1>1, <1>3, <1>4, <1>5
<1>8. Y = Append(X, new)
  <2> DEFINE s == [i \in 1 .. n |-> Stamped(b.seq + i, es[i])]
             t == [i \in 1 .. n + 1 |-> Stamped(b.seq + i, Append(es, e)[i])]
  <2>1. t = Append(s, new)
    <3>1. \A i \in 1 .. n : t[i] = s[i]
      BY <1>1
    <3>2. t[n + 1] = new
      BY <1>1
    <3>3. Append(s, new) \in Seq(Entry(E)) /\ Len(Append(s, new)) = n + 1
          /\ Append(s, new)[n + 1] = new /\ \A i \in 1 .. n : Append(s, new)[i] = s[i]
      BY <1>1, <1>4, <1>6
    <3> HIDE DEF s, t, new
    <3>4. t \in Seq(Entry(E)) /\ Len(t) = n + 1
      BY <1>5 DEF t
    <3>5. \A i \in 1 .. n + 1 : i \in 1 .. n \/ i = n + 1
      BY <1>1
    <3>6. \A i \in 1 .. Len(t) : t[i] = Append(s, new)[i]
      BY <3>1, <3>2, <3>3, <3>4, <3>5, Zenon
    <3>7. QED
      BY <3>3, <3>4, <3>6, SeqEqual
  <2>2. s \in Seq(Entry(E)) /\ t \in Seq(Entry(E)) /\ X = b.ring \o s /\ Y = b.ring \o t
    BY <1>3, <1>4, <1>5
  <2> HIDE DEF s, t, X, Y, new
  <2>3. b.ring \o Append(s, new) = Append(b.ring \o s, new)
    BY <1>1, <1>6, <2>2
  <2>4. QED
    BY <2>1, <2>2, <2>3
<1>9. Latest(Append(Latest(X), new)) = Latest(Append(X, new))
  <2> HIDE DEF X, new
  <2> DEFINE K == Latest(X)
             P == Append(K, new)
             Q == Append(X, new)
  <2>1. /\ K \in Seq(Entry(E))
        /\ Len(K) = IF Len(X) > Capacity THEN Capacity ELSE Len(X)
        /\ \A i \in 1 .. Len(K) : K[i] = X[Len(X) - Len(K) + i]
    BY <1>7, LatestKeeps
  <2>2. Len(X) \in Nat /\ Len(K) \in Nat /\ Len(K) <= Len(X)
    BY <1>7, <2>1
  <2>3. /\ P \in Seq(Entry(E)) /\ Len(P) = Len(K) + 1 /\ P[Len(K) + 1] = new
        /\ \A i \in 1 .. Len(K) : P[i] = K[i]
        /\ Q \in Seq(Entry(E)) /\ Len(Q) = Len(X) + 1 /\ Q[Len(X) + 1] = new
        /\ \A i \in 1 .. Len(X) : Q[i] = X[i]
    <3>1. /\ P \in Seq(Entry(E)) /\ Len(P) = Len(K) + 1 /\ P[Len(K) + 1] = new
          /\ \A i \in 1 .. Len(K) : P[i] = K[i]
      BY <1>6, <2>1, AppendProperties
    <3>2. /\ Q \in Seq(Entry(E)) /\ Len(Q) = Len(X) + 1 /\ Q[Len(X) + 1] = new
          /\ \A i \in 1 .. Len(X) : Q[i] = X[i]
      <4>1. X \in Seq(Entry(E))
        BY <1>7
      <4>2. QED
        BY <1>6, <4>1, AppendProperties
    <3>3. QED
      BY <3>1, <3>2
  <2> HIDE DEF K, P, Q
  <2>4. \A i \in 1 .. Len(P) : P[i] = Q[Len(Q) - Len(P) + i]
    <3> TAKE i \in 1 .. Len(P)
    <3>1. CASE i = Len(K) + 1
      BY <2>2, <2>3, <3>1
    <3>2. CASE i \in 1 .. Len(K)
      <4>1. Len(X) - Len(K) + i \in 1 .. Len(X) /\ Len(Q) - Len(P) + i = Len(X) - Len(K) + i
        BY <2>2, <2>3, <3>2
      <4>2. QED
        BY <2>1, <2>3, <3>2, <4>1
    <3>3. QED
      BY <2>2, <2>3, <3>1, <3>2
  <2>5. /\ Latest(P) \in Seq(Entry(E))
        /\ Len(Latest(P)) = IF Len(P) > Capacity THEN Capacity ELSE Len(P)
        /\ \A i \in 1 .. Len(Latest(P)) : Latest(P)[i] = P[Len(P) - Len(Latest(P)) + i]
    BY <2>3, LatestKeeps
  <2>6. /\ Latest(Q) \in Seq(Entry(E))
        /\ Len(Latest(Q)) = IF Len(Q) > Capacity THEN Capacity ELSE Len(Q)
        /\ \A i \in 1 .. Len(Latest(Q)) : Latest(Q)[i] = Q[Len(Q) - Len(Latest(Q)) + i]
    BY <2>3, LatestKeeps
  <2>7. Len(Latest(P)) = Len(Latest(Q))
    BY <2>1, <2>2, <2>3, <2>5, <2>6
  <2>8. \A i \in 1 .. Len(Latest(P)) : Latest(P)[i] = Latest(Q)[i]
    <3> TAKE i \in 1 .. Len(Latest(P))
    <3> DEFINE j == Len(P) - Len(Latest(P)) + i
    <3>1. /\ j \in 1 .. Len(P)
          /\ Len(Q) - Len(P) + j = Len(Q) - Len(Latest(Q)) + i
      <4>1. Len(P) \in Nat /\ Len(Q) \in Nat
        BY <2>2, <2>3
      <4>2. Len(Latest(P)) \in Nat /\ Len(Latest(P)) <= Len(P) /\ Len(Latest(Q)) = Len(Latest(P))
        BY <2>5, <2>7, <4>1
      <4>3. QED
        BY <4>1, <4>2
    <3>2. Latest(P)[i] = P[j] /\ Latest(Q)[i] = Q[Len(Q) - Len(Latest(Q)) + i]
      BY <2>5, <2>6, <2>7
    <3> HIDE DEF j
    <3>3. P[j] = Q[Len(Q) - Len(P) + j]
      BY <2>4, <3>1
    <3>4. QED
      BY <3>1, <3>2, <3>3
  <2>9. Latest(P) = Latest(Q)
    BY <2>5, <2>6, <2>7, <2>8, SeqEqual
  <2>10. QED
    BY <2>9 DEF P, Q, K
<1>10. AppendAll(b, es) = [seq |-> b.seq + n, ring |-> Latest(X)]
  BY DEF AppendAll
<1>11. AppendAll(b, Append(es, e)) = [seq |-> b.seq + (n + 1), ring |-> Latest(Y)]
  <2>1. Len(Append(es, e)) = n + 1
    OBVIOUS
  <2>2. QED
    BY <2>1 DEF AppendAll
<1>12. AppendEvent(AppendAll(b, es), e)
         = [seq |-> b.seq + n + 1, ring |-> Latest(Append(Latest(X), Stamped(b.seq + n + 1, e)))]
  <2> HIDE DEF X
  <2>1. QED
    BY <1>10 DEF AppendEvent
<1>13. b.seq + n + 1 = b.seq + (n + 1)
  BY <1>1
<1> HIDE DEF X, Y
<1>14. AppendAll(b, Append(es, e)) = AppendEvent(AppendAll(b, es), e)
  BY <1>8, <1>9, <1>11, <1>12, <1>13, Zenon
<1>15. QED
  BY <1>2, <1>14

-----------------------------------------------------------------------------
(* The bus of one generation.                                              *)

Happenings == Generations \X Nat

\* The n-th event of generation g, as its bus stamps it.
Happened(g, n) == Stamped(n, <<g, n>>)

\* The ring holds the latest events of its generation.
Holds(g, b) ==
  /\ b \in Bus(Happenings)
  /\ Len(b.ring) = IF b.seq < Capacity THEN b.seq ELSE Capacity
  /\ \A i \in DOMAIN b.ring : b.ring[i] = Happened(g, b.seq - Len(b.ring) + i)

LEMMA EmptyHolds == \A g : Holds(g, EmptyBus)
BY DEF Holds, EmptyBus, Bus

LEMMA HoldsInOrder ==
  ASSUME NEW g, NEW b, Holds(g, b)
  PROVE  RingInOrder(b)
<1>1. \A n : Happened(g, n).seq = n
  BY DEF Happened, Stamped
<1>2. \A i \in DOMAIN b.ring : b.ring[i].seq = b.seq - Len(b.ring) + i
  BY <1>1 DEF Holds
<1>3. QED
  BY <1>2 DEF Holds, RingInOrder

LEMMA ConcatAt ==
  ASSUME NEW S, NEW s \in Seq(S), NEW t \in Seq(S)
  PROVE  /\ s \o t \in Seq(S) /\ Len(s \o t) = Len(s) + Len(t)
         /\ \A i \in 1 .. Len(s) : (s \o t)[i] = s[i]
         /\ \A i \in 1 .. Len(t) : (s \o t)[Len(s) + i] = t[i]
OBVIOUS

\* The latest of a run of consecutive events are the end of that run.
LEMMA LatestOfRun ==
  ASSUME NEW g, NEW from \in Nat, NEW E, NEW s \in Seq(E),
         \A k \in 1 .. Len(s) : s[k] = Happened(g, from + k)
  PROVE  \A i \in 1 .. Len(Latest(s)) :
           Latest(s)[i] = Happened(g, from + Len(s) - Len(Latest(s)) + i)
<1> DEFINE r == Latest(s)
<1>1. /\ Len(r) \in Nat /\ Len(r) <= Len(s) /\ Len(s) \in Nat
      /\ \A i \in 1 .. Len(r) : r[i] = s[Len(s) - Len(r) + i]
  <2>1. /\ r \in Seq(E) /\ Len(r) = IF Len(s) > Capacity THEN Capacity ELSE Len(s)
        /\ \A i \in 1 .. Len(r) : r[i] = s[Len(s) - Len(r) + i]
    BY LatestKeeps
  <2>2. Len(s) \in Nat
    OBVIOUS
  <2>3. \A i \in 1 .. Len(r) : r[i] = s[Len(s) - Len(r) + i]
    BY <2>1, Zenon
  <2> HIDE DEF r
  <2>4. Len(r) \in Nat /\ Len(r) <= Len(s)
    BY <2>1, <2>2
  <2>5. QED
    BY <2>2, <2>3, <2>4, Zenon
<1> HIDE DEF r
<1>2. ASSUME NEW i \in 1 .. Len(r)
      PROVE  r[i] = Happened(g, from + Len(s) - Len(r) + i)
  <2> DEFINE k == Len(s) - Len(r) + i
  <2>1. k \in 1 .. Len(s) /\ from + k = from + Len(s) - Len(r) + i
    BY <1>1
  <2>2. r[i] = s[k]
    BY <1>1
  <2> HIDE DEF k
  <2>3. s[k] = Happened(g, from + k)
    BY <2>1
  <2>4. QED
    BY <2>1, <2>2, <2>3
<1>3. QED
  BY <1>2 DEF r

\* Appending the events that follow keeps the latest ones.
LEMMA AppendAllHolds ==
  ASSUME NEW g \in Generations, NEW b, Holds(g, b), NEW n \in Nat
  PROVE  /\ Holds(g, AppendAll(b, [i \in 1 .. n |-> <<g, b.seq + i>>]))
         /\ AppendAll(b, [i \in 1 .. n |-> <<g, b.seq + i>>]).seq = b.seq + n
<1> DEFINE es == [i \in 1 .. n |-> <<g, b.seq + i>>]
           s == [i \in 1 .. n |-> Happened(g, b.seq + i)]
           X == b.ring \o s
           R == Latest(X)
           L == Len(b.ring)
           c == [seq |-> b.seq + n, ring |-> R]
<1>1. /\ b.seq \in Nat /\ b.ring \in Seq(Entry(Happenings)) /\ L \in Nat /\ L <= b.seq
      /\ L = IF b.seq < Capacity THEN b.seq ELSE Capacity
      /\ \A i \in 1 .. L : b.ring[i] = Happened(g, b.seq - L + i)
  BY DEF Holds, Bus
<1>0. b.seq \in Nat /\ b.ring \in Seq(Entry(Happenings)) /\ L \in Nat
  BY <1>1
<1>2. DOMAIN es = 1 .. n /\ Len(es) = n
  OBVIOUS
<1>3. s \in Seq(Entry(Happenings)) /\ Len(s) = n
  <2>1. \A i \in 1 .. n : Happened(g, b.seq + i) \in Entry(Happenings)
    BY <1>0 DEF Happened, Stamped, Entry, Happenings
  <2>2. QED
    BY <2>1, IsASeq
<1>4. \A i \in 1 .. n : s[i] = Happened(g, b.seq + i)
  OBVIOUS
<1>5. AppendAll(b, es) = c
  <2>1. [i \in DOMAIN es |-> Stamped(b.seq + i, es[i])] = s
    BY <1>2 DEF Happened
  <2>2. QED
    BY <1>2, <2>1 DEF AppendAll
<1> HIDE DEF s
<1>6. /\ X \in Seq(Entry(Happenings)) /\ Len(X) = L + Len(s)
      /\ \A i \in 1 .. L : X[i] = b.ring[i]
      /\ \A i \in 1 .. Len(s) : X[L + i] = s[i]
  <2>1. b.ring \in Seq(Entry(Happenings)) /\ s \in Seq(Entry(Happenings))
    BY <1>0, <1>3
  <2>2. /\ b.ring \o s \in Seq(Entry(Happenings)) /\ Len(b.ring \o s) = Len(b.ring) + Len(s)
        /\ \A i \in 1 .. Len(b.ring) : (b.ring \o s)[i] = b.ring[i]
        /\ \A i \in 1 .. Len(s) : (b.ring \o s)[Len(b.ring) + i] = s[i]
    <3> HIDE DEF X, L
    <3>1. QED
      BY <2>1, ConcatAt
  <2>3. QED
    BY <2>2 DEF X, L
<1> HIDE DEF X, L
<1>7. \A k \in 1 .. L + n : X[k] = Happened(g, b.seq - L + k)
  <2> TAKE k \in 1 .. L + n
  <2>1. CASE k \in 1 .. L
    BY <1>1, <1>6, <2>1
  <2>2. CASE k \in L + 1 .. L + n
    <3>1. k - L \in 1 .. Len(s) /\ L + (k - L) = k /\ b.seq + (k - L) = b.seq - L + k
      BY <1>0, <1>3, <2>2
    <3>2. X[L + (k - L)] = s[k - L] /\ s[k - L] = Happened(g, b.seq + (k - L))
      BY <1>3, <1>4, <1>6, <3>1
    <3>3. QED
      BY <3>1, <3>2
  <2>3. QED
    BY <1>1, <2>1, <2>2
<1>8. b.seq - L \in Nat /\ Len(X) = L + n
  BY <1>1, <1>3, <1>6
<1>9. \A i \in 1 .. Len(R) : R[i] = Happened(g, b.seq - L + Len(X) - Len(R) + i)
  <2> DEFINE from == b.seq - L
  <2>1. \A k \in 1 .. Len(X) : X[k] = Happened(g, from + k)
    BY <1>7, <1>8, Zenon
  <2>2. X \in Seq(Entry(Happenings)) /\ from \in Nat
    BY <1>6, <1>8
  <2> HIDE DEF R, from
  <2>3. \A i \in 1 .. Len(Latest(X)) :
          Latest(X)[i] = Happened(g, from + Len(X) - Len(Latest(X)) + i)
    BY <2>1, <2>2, LatestOfRun
  <2>4. QED
    BY <2>3, Zenon DEF R, from
<1>10. R \in Seq(Entry(Happenings)) /\ Len(R) = IF Len(X) > Capacity THEN Capacity ELSE Len(X)
  BY <1>6, LatestKeeps, Zenon
<1> HIDE DEF R
<1>11. Len(R) \in Nat /\ Len(R) = IF b.seq + n < Capacity THEN b.seq + n ELSE Capacity
  BY <1>1, <1>8, <1>10
<1>12. b.seq - L + Len(X) = b.seq + n
  BY <1>1, <1>8
<1>13. \A i \in 1 .. Len(R) : R[i] = Happened(g, b.seq + n - Len(R) + i)
  <2> TAKE i \in 1 .. Len(R)
  <2>1. R[i] = Happened(g, b.seq - L + Len(X) - Len(R) + i)
    BY <1>9
  <2>2. QED
    BY <1>0, <1>8, <1>11, <1>12, <2>1
<1>14. DOMAIN R = 1 .. Len(R) /\ b.seq + n \in Nat
  BY <1>1, <1>10
<1>15. c \in Bus(Happenings)
  BY <1>10, <1>14 DEF Bus
<1>16. Holds(g, c)
  <2>1. c.seq = b.seq + n /\ c.ring = R
    OBVIOUS
  <2> HIDE DEF c
  <2>2. \A i \in DOMAIN c.ring : c.ring[i] = Happened(g, c.seq - Len(c.ring) + i)
    <3> TAKE i \in DOMAIN c.ring
    <3>1. i \in 1 .. Len(R)
      BY <1>14, <2>1
    <3>2. R[i] = Happened(g, b.seq + n - Len(R) + i)
      BY <1>13, <3>1
    <3>3. QED
      BY <1>0, <1>11, <2>1, <3>2
  <2>3. Len(c.ring) = IF c.seq < Capacity THEN c.seq ELSE Capacity
    BY <1>11, <2>1
  <2>4. QED
    BY <1>15, <2>2, <2>3 DEF Holds
<1>17. QED
  BY <1>5, <1>16

LEMMA AppendEventHolds ==
  ASSUME NEW g \in Generations, NEW b, Holds(g, b)
  PROVE  /\ Holds(g, AppendEvent(b, <<g, b.seq + 1>>))
         /\ AppendEvent(b, <<g, b.seq + 1>>).seq = b.seq + 1
<1> DEFINE e == <<g, b.seq + 1>>
<1>1. b \in Bus(Happenings) /\ b.seq \in Nat /\ Len(b.ring) <= Capacity
  BY DEF Holds, Bus
<1>2. e \in Happenings
  BY <1>1 DEF Happenings
<1>3. <<>> \in Seq(Happenings)
  OBVIOUS
<1>4. AppendAll(b, Append(<<>>, e)) = AppendEvent(b, e)
  <2> HIDE DEF e
  <2>1. /\ AppendAll(b, <<>>) = b
        /\ AppendAll(b, Append(<<>>, e)) = AppendEvent(AppendAll(b, <<>>), e)
    <3>1. \A es \in Seq(Happenings) :
            /\ AppendAll(b, <<>>) = b
            /\ AppendAll(b, Append(es, e)) = AppendEvent(AppendAll(b, es), e)
      BY <1>1, <1>2, SeedingIsAppending
    <3>2. QED
      BY <1>3, <3>1
  <2>2. QED
    BY <2>1, Zenon
<1>5. Append(<<>>, e) = [i \in 1 .. 1 |-> <<g, b.seq + i>>]
  <2>1. Append(<<>>, e) = [i \in 1 .. 1 |-> e]
    OBVIOUS
  <2>2. \A i \in 1 .. 1 : i = 1
    OBVIOUS
  <2>3. QED
    BY <2>1, <2>2
<1>6. /\ Holds(g, AppendAll(b, [i \in 1 .. 1 |-> <<g, b.seq + i>>]))
      /\ AppendAll(b, [i \in 1 .. 1 |-> <<g, b.seq + i>>]).seq = b.seq + 1
  <2>1. 1 \in Nat
    OBVIOUS
  <2>2. QED
    BY <2>1, AppendAllHolds, Zenon
<1>7. QED
  BY <1>4, <1>5, <1>6, Zenon

\* A position the bus has reached is replayed from exactly, or not at all.
LEMMA ReplayHolds ==
  ASSUME NEW g \in Generations, NEW b, Holds(g, b), NEW from \in 0 .. b.seq,
         ReplayFrom(b, from) # Evicted
  PROVE  ReplayFrom(b, from) = [i \in 1 .. b.seq - from |-> Happened(g, from + i)]
<1> DEFINE r == ReplayFrom(b, from)
<1>1. /\ b \in Bus(Happenings) /\ b.seq \in Nat /\ from \in Nat /\ RingInOrder(b)
      /\ b.ring \in Seq(Entry(Happenings)) /\ Len(b.ring) \in Nat
  <2>1. RingInOrder(b)
    BY HoldsInOrder
  <2>2. QED
    BY <2>1 DEF Holds, Bus
<1>2. b.seq - from <= Capacity
  BY <1>1, GapFallsBack
<1>3. /\ Len(r) = b.seq - from
      /\ \A i \in 1 .. Len(r) : r[i].seq = from + i /\ \E j \in DOMAIN b.ring : r[i] = b.ring[j]
  BY <1>1, <1>2, ReplayIsExact
<1>4. ASSUME NEW i \in 1 .. b.seq - from
      PROVE  r[i] = Happened(g, from + i)
  <2>1. r[i].seq = from + i
    BY <1>3
  <2>2. PICK j \in DOMAIN b.ring : r[i] = b.ring[j]
    BY <1>3
  <2>3. b.ring[j] = Happened(g, b.seq - Len(b.ring) + j)
    BY DEF Holds
  <2>4. Happened(g, b.seq - Len(b.ring) + j).seq = b.seq - Len(b.ring) + j
    BY DEF Happened, Stamped
  <2>5. QED
    BY <2>1, <2>2, <2>3, <2>4
<1>5. r \in Seq(Entry(Happenings))
  <2>1. CASE from >= b.seq
    BY <2>1 DEF ReplayFrom
  <2>2. CASE ~(from >= b.seq)
    <3> DEFINE m == from - Head(b.ring).seq + 2
    <3>1. r = SubSeq(b.ring, m, Len(b.ring))
      BY <2>2 DEF ReplayFrom
    <3>2. Len(b.ring) >= 1 /\ Head(b.ring).seq = b.seq - Len(b.ring) + 1
      <4>1. Len(b.ring) >= 1
        BY <1>1, <2>2 DEF RingInOrder
      <4>2. QED
        BY <1>1, <4>1 DEF RingInOrder
    <3>3. m \in Int /\ m >= 1
      <4>1. b.ring # <<>> /\ ~(from < Head(b.ring).seq - 1)
        BY <2>2 DEF ReplayFrom
      <4>2. \A h \in Int : h = Head(b.ring).seq /\ ~(from < h - 1) =>
                           from - h + 2 \in Int /\ from - h + 2 >= 1
        BY <1>1
      <4>3. Head(b.ring).seq \in Int
        BY <1>1, <3>2
      <4>4. QED
        BY <4>1, <4>2, <4>3
    <3> HIDE DEF m
    <3>4. \A i \in m .. Len(b.ring) : b.ring[i] \in Entry(Happenings)
      BY <1>1, <3>3
    <3>5. QED
      BY <1>1, <3>1, <3>3, <3>4, SubSeqProperties
  <2>3. QED
    BY <2>1, <2>2
<1>6. r = [i \in 1 .. b.seq - from |-> Happened(g, from + i)]
  <2>1. DOMAIN r = 1 .. b.seq - from /\ r = [i \in DOMAIN r |-> r[i]]
    BY <1>3, <1>5
  <2>2. QED
    BY <1>4, <2>1
<1>7. QED
  BY <1>6

-----------------------------------------------------------------------------
(* Types, and what every bus holds.                                        *)

Launched == 1 .. launched
Stamps == 0 .. MaxEvents
Tags == {NoTag} \cup Generations
Ways == {"connect", "resubscribe"}

ServerMessages ==
  [type : {"event"}, stamp : Stamps, event : Happenings]
    \cup [type : {"snapshot"}, state : Seq(Happenings), stamp : Stamps, tag : Tags]
    \cup [type : {"session_rebind", "hello_ok"}]
    \cup [type : {"ok", "error"}, via : Ways, epoch : Nat]

ClientMessages ==
  [type : {"hello"}]
    \cup [type : {"subscribe"}, from : Stamps, tag : Tags, via : Ways, epoch : Nat]

\* A run of events of generation g, as messages.
Run(g, from, n) == [i \in 1 .. n |-> EventMessage(Happened(g, from + i))]

ServerTypes ==
  /\ phase \in Phases
  /\ launched \in 0 .. MaxGenerations
  /\ created \subseteq Launched
  /\ current \in {NoRuntime} \cup Launched
  /\ held \in {NoRuntime} \cup Launched
  /\ current = NoRuntime <=> phase \in {"draft", "absent"}

BusTypes ==
  /\ bus \in [Generations -> Bus(Happenings)]
  /\ \A g \in Generations : bus[g].seq \in Stamps /\ Holds(g, bus[g])
  /\ \A g \in Generations : g > launched => bus[g] = EmptyBus
  /\ phase = "building" => bus[current] = EmptyBus

ConnectionTypes ==
  /\ link \in {"off", "connecting", "up"}
  /\ sub \in {NoRuntime} \cup Launched
  /\ toServer \in Seq(ClientMessages)
  /\ toClient \in Seq(ServerMessages)
  /\ link # "up" => sub = NoRuntime /\ toServer = <<>> /\ toClient = <<>>
  /\ settled \in BOOLEAN
  /\ settled => link = "up"

ClientTypes ==
  /\ lastSeq \in Stamps
  /\ streamGeneration \in Tags
  /\ captured \in [lastSeq : Stamps, tag : Tags]
  /\ epoch \in Nat
  /\ recovered \in BOOLEAN
  /\ rest \in {"none", "recover", "activate"}

TypeInv == ServerTypes /\ BusTypes /\ ConnectionTypes /\ ClientTypes

LEMMA Bounds ==
  /\ MaxGenerations \in Nat \ {0} /\ MaxEvents \in Nat
  /\ HistoryEvents \in 0 .. MaxEvents /\ HistoryEvents \in Nat
BY StreamAssumption DEF StreamAssumption

LEMMA TypesHold == TypeInv => TypeOK
<1> SUFFICES ASSUME TypeInv PROVE TypeOK
  OBVIOUS
<1>1. launched \in Nat /\ launched <= MaxGenerations
  BY Bounds DEF TypeInv, ServerTypes
<1>2. Launched \subseteq Generations
  BY <1>1, Bounds DEF Launched, Generations
<1>3. \A g \in Generations : bus[g].seq \in 0 .. MaxEvents /\ RingInOrder(bus[g])
  BY HoldsInOrder DEF TypeInv, BusTypes, Stamps
<1>4. /\ phase \in Phases
      /\ current \in {NoRuntime} \cup Generations
      /\ current = NoRuntime <=> phase \in {"draft", "absent"}
      /\ held \in {NoRuntime} \cup Generations
      /\ launched \in 0 .. MaxGenerations
      /\ created \subseteq Generations
  BY <1>2 DEF TypeInv, ServerTypes
<1>5. /\ link \in {"off", "connecting", "up"}
      /\ sub \in {NoRuntime} \cup Generations
      /\ link # "up" => sub = NoRuntime /\ toServer = <<>> /\ toClient = <<>>
      /\ settled \in BOOLEAN
      /\ settled => link = "up"
  BY <1>2 DEF TypeInv, ConnectionTypes
<1>6. /\ lastSeq \in 0 .. MaxEvents
      /\ streamGeneration \in {NoTag} \cup Generations
      /\ recovered \in BOOLEAN
      /\ rest \in {"none", "recover", "activate"}
  BY DEF TypeInv, ClientTypes, Stamps, Tags
<1>7. QED
  BY <1>3, <1>4, <1>5, <1>6 DEF TypeOK

\* What the fields of a message range over.
LEMMA MessageTypes ==
  ASSUME NEW m \in ServerMessages
  PROVE  /\ m.type \in {"event", "snapshot", "session_rebind", "hello_ok", "ok", "error"}
         /\ m.type = "event" => m.stamp \in Stamps /\ m.event \in Happenings
         /\ m.type = "snapshot" => /\ m.state \in Seq(Happenings)
                                   /\ m.stamp \in Stamps /\ m.tag \in Tags
         /\ m.type \in {"ok", "error"} => m.via \in Ways
BY DEF ServerMessages

LEMMA RequestTypes ==
  ASSUME NEW m \in ClientMessages
  PROVE  /\ m.type \in {"hello", "subscribe"}
         /\ m.type = "hello" => m = Hello
         /\ m.type = "subscribe" => /\ m.from \in Stamps /\ m.tag \in Tags
                                    /\ m.via \in Ways /\ m.epoch \in Nat
BY DEF ClientMessages, Hello

LEMMA PlainMessages ==
  /\ Rebind \in ServerMessages /\ Rebind.type = "session_rebind"
  /\ [type |-> "hello_ok"] \in ServerMessages
  /\ Hello \in ClientMessages /\ Hello.type = "hello"
BY DEF ServerMessages, ClientMessages, Rebind, Hello

LEMMA Replies ==
  ASSUME NEW m \in ClientMessages, m.type = "subscribe", NEW verdict \in {"ok", "error"}
  PROVE  Reply(m, verdict) \in ServerMessages /\ Reply(m, verdict).type = verdict
<1>1. m.via \in Ways /\ m.epoch \in Nat
  BY RequestTypes
<1>2. QED
  BY <1>1 DEF ServerMessages, Reply

LEMMA Requests ==
  ASSUME NEW from \in Stamps, NEW tag \in Tags, NEW via \in Ways, NEW e \in Nat
  PROVE  Subscribe(from, tag, via, e) \in ClientMessages
BY DEF ClientMessages, Subscribe

\* The messages of a run are events, one for each.
LEMMA Runs ==
  ASSUME NEW g \in Generations, NEW from \in Nat, NEW n \in Nat, from + n <= MaxEvents
  PROVE  /\ Run(g, from, n) \in Seq(ServerMessages)
         /\ Len(Run(g, from, n)) = n
         /\ \A i \in 1 .. n :
              LET m == Run(g, from, n)[i]
              IN  m.type = "event" /\ m.stamp = from + i /\ m.event = <<g, from + i>>
<1> DEFINE r == Run(g, from, n)
<1>1. ASSUME NEW i \in 1 .. n
      PROVE  /\ EventMessage(Happened(g, from + i)) \in ServerMessages
             /\ LET m == EventMessage(Happened(g, from + i))
                IN  m.type = "event" /\ m.stamp = from + i /\ m.event = <<g, from + i>>
  <2>1. from + i \in Stamps /\ <<g, from + i>> \in Happenings
    BY Bounds DEF Stamps, Happenings
  <2>2. EventMessage(Happened(g, from + i))
          = [type |-> "event", stamp |-> from + i, event |-> <<g, from + i>>]
    BY DEF EventMessage, Happened, Stamped
  <2>3. QED
    BY <2>1, <2>2 DEF ServerMessages
<1>2. r = [i \in 1 .. n |-> EventMessage(Happened(g, from + i))]
  BY DEF Run
<1>3. r \in [1 .. n -> ServerMessages] /\ \A i \in 1 .. n : r[i] = EventMessage(Happened(g, from + i))
  BY <1>1, <1>2
<1> HIDE DEF r
<1>4. r \in Seq(ServerMessages) /\ Len(r) = n
  BY <1>3
<1>5. QED
  BY <1>1, <1>3, <1>4 DEF r

LEMMA LaunchedIs ==
  ASSUME ServerTypes
  PROVE  /\ launched \in Nat /\ launched <= MaxGenerations /\ Launched \subseteq Generations
         /\ \A g \in Launched : g \in Nat /\ g # 0
BY Bounds DEF ServerTypes, Launched, Generations

LEMMA SomeRuntime ==
  ASSUME ServerTypes, current # NoRuntime
  PROVE  current \in Launched /\ current \in Generations
BY LaunchedIs DEF ServerTypes

LEMMA TagType ==
  ASSUME NEW g \in {NoRuntime} \cup Generations
  PROVE  Tag(g) \in Tags
BY DEF Tag, Tags, NoRuntime, NoTag

LEMMA FanOutIs ==
  ASSUME NEW g, NEW n \in Nat
  PROVE  /\ sub = g => FanOut(g, n) = Run(g, bus[g].seq, n)
         /\ sub # g => FanOut(g, n) = <<>>
BY DEF FanOut, Run, Happened

LEMMA EventsOfType ==
  ASSUME NEW g \in Generations, NEW n \in Nat
  PROVE  EventsOf(g, n) \in Seq(Happenings)
<1>1. \A i \in 1 .. n : <<g, i>> \in Happenings
  BY DEF Happenings
<1>2. QED
  BY <1>1 DEF EventsOf

LEMMA SnapshotType ==
  ASSUME BusTypes, NEW g \in Generations
  PROVE  /\ SnapshotMessage(g) \in ServerMessages
         /\ SnapshotMessage(g).type = "snapshot"
<1>1. bus[g].seq \in Stamps /\ bus[g].seq \in Nat
  BY Bounds DEF BusTypes, Stamps
<1>2. EventsOf(g, bus[g].seq) \in Seq(Happenings) /\ Tag(g) \in Tags
  BY <1>1, EventsOfType, TagType
<1>3. SnapshotMessage(g) = [type |-> "snapshot", state |-> EventsOf(g, bus[g].seq),
                            stamp |-> bus[g].seq, tag |-> Tag(g)]
  BY DEF SnapshotMessage, Authoritative
<1>4. QED
  BY <1>1, <1>2, <1>3 DEF ServerMessages

LEMMA DraftSnapshotType ==
  DraftSnapshot \in ServerMessages /\ DraftSnapshot.type = "snapshot"
<1>1. <<>> \in Seq(Happenings) /\ 0 \in Stamps /\ NoTag \in Tags
  BY Bounds DEF Stamps, Tags
<1>2. DraftSnapshot = [type |-> "snapshot", state |-> <<>>, stamp |-> 0, tag |-> NoTag]
  BY DEF DraftSnapshot, Empty
<1>3. QED
  BY <1>1, <1>2 DEF ServerMessages

\* A subscription is answered by the events that follow the client's position, or
\* by a snapshot.
LEMMA AnswerIs ==
  ASSUME ServerTypes, BusTypes, current # NoRuntime,
         NEW m, m.from \in Stamps
  PROVE  \/ Answer(m) = <<SnapshotMessage(current)>>
         \/ /\ m.from > 0 /\ (Tag(current) = NoTag \/ m.tag = Tag(current))
            /\ \E n \in Nat : /\ Answer(m) = Run(current, m.from, n)
                              /\ m.from + n <= MaxEvents
                              /\ m.from <= bus[current].seq => m.from + n = bus[current].seq
<1> DEFINE b == bus[current]
           r == ReplayFrom(b, m.from)
<1>1. /\ current \in Generations /\ Holds(current, b) /\ b.seq \in Nat /\ b.seq <= MaxEvents
      /\ m.from \in Nat /\ m.from <= MaxEvents
  BY SomeRuntime, Bounds DEF BusTypes, Stamps
<1>2. CASE ~(m.from > 0 /\ (Tag(current) = NoTag \/ m.tag = Tag(current)))
  BY <1>2 DEF Answer
<1>3. CASE m.from > 0 /\ (Tag(current) = NoTag \/ m.tag = Tag(current)) /\ r = Evicted
  BY <1>3 DEF Answer
<1>4. CASE m.from > 0 /\ (Tag(current) = NoTag \/ m.tag = Tag(current)) /\ r # Evicted
  <2>1. Answer(m) = [i \in DOMAIN r |-> EventMessage(r[i])]
    BY <1>4 DEF Answer
  <2>2. CASE m.from <= b.seq
    <3> DEFINE n == b.seq - m.from
    <3>1. n \in Nat /\ m.from + n = b.seq
      BY <1>1, <2>2
    <3>2. r = [i \in 1 .. n |-> Happened(current, m.from + i)]
      BY <1>1, <1>4, <2>2, ReplayHolds
    <3> HIDE DEF r, n
    <3>3. Answer(m) = [i \in 1 .. n |-> EventMessage(Happened(current, m.from + i))]
      BY <2>1, <3>2
    <3>4. Answer(m) = Run(current, m.from, n)
      BY <3>3 DEF Run
    <3>5. QED
      BY <1>1, <1>4, <3>1, <3>4
  <2>3. CASE ~(m.from <= b.seq)
    <3>1. r = <<>>
      BY <1>1, <2>3 DEF ReplayFrom
    <3> HIDE DEF r
    <3>2. Answer(m) = <<>>
      BY <2>1, <3>1
    <3>3. Run(current, m.from, 0) = <<>>
      BY DEF Run
    <3>4. m.from + 0 <= MaxEvents
      BY <1>1
    <3>5. QED
      BY <1>4, <2>3, <3>2, <3>3, <3>4
  <2>4. QED
    BY <2>2, <2>3
<1>5. QED
  BY <1>2, <1>3, <1>4

LEMMA AnswerType ==
  ASSUME ServerTypes, BusTypes, current # NoRuntime,
         NEW m, m.from \in Stamps
  PROVE  Answer(m) \in Seq(ServerMessages)
<1>1. current \in Generations
  BY SomeRuntime
<1>2. CASE Answer(m) = <<SnapshotMessage(current)>>
  BY <1>1, <1>2, SnapshotType
<1>3. CASE \E n \in Nat : Answer(m) = Run(current, m.from, n) /\ m.from + n <= MaxEvents
  <2>1. m.from \in Nat
    BY Bounds DEF Stamps
  <2>2. QED
    BY <1>1, <1>3, <2>1, Runs
<1>4. QED
  BY <1>2, <1>3, AnswerIs

(* Which parts of a state keep their types when a step leaves them alone.  *)

LEMMA SameConnection ==
  ASSUME ConnectionTypes, UNCHANGED <<connection, settled>>, Launched \subseteq Launched'
  PROVE  ConnectionTypes'
BY DEF ConnectionTypes, connection

LEMMA SameClient ==
  ASSUME ClientTypes, UNCHANGED <<lastSeq, streamGeneration, captured, epoch, recovered>>,
         rest' \in {"none", "recover", "activate"}
  PROVE  ClientTypes'
BY DEF ClientTypes

LEMMA SameServer ==
  ASSUME ServerTypes, BusTypes, UNCHANGED server
  PROVE  ServerTypes' /\ BusTypes' /\ Launched' = Launched
BY DEF ServerTypes, BusTypes, server, Launched

LEMMA SameBuses ==
  ASSUME BusTypes, bus' = bus, launched' = launched, phase' # "building"
  PROVE  BusTypes'
BY DEF BusTypes

LEMMA OffTheWire ==
  ASSUME Disconnected, link' \in {"off", "connecting"}
  PROVE  ConnectionTypes'
<1>1. <<>> \in Seq(ServerMessages) /\ <<>> \in Seq(ClientMessages)
  OBVIOUS
<1>2. QED
  BY <1>1 DEF Disconnected, ConnectionTypes

\* Messages pushed on the connection.
LEMMA PushTypes ==
  ASSUME ConnectionTypes, NEW ms \in Seq(ServerMessages), toClient' = Pushed(ms),
         link' = link, toServer' = toServer, settled' = settled, sub' = sub,
         Launched' = Launched
  PROVE  ConnectionTypes'
<1>1. toClient' \in Seq(ServerMessages)
  BY DEF Pushed, ConnectionTypes
<1>2. link # "up" => toClient' = toClient
  BY DEF Pushed
<1>3. QED
  BY <1>1, <1>2 DEF ConnectionTypes

LEMMA TakeMessage ==
  ASSUME ConnectionTypes, toClient # <<>>
  PROVE  /\ link = "up" /\ Head(toClient) \in ServerMessages
         /\ Tail(toClient) \in Seq(ServerMessages)
BY HeadTailProperties DEF ConnectionTypes

LEMMA TakeRequest ==
  ASSUME ConnectionTypes, toServer # <<>>
  PROVE  /\ link = "up" /\ Head(toServer) \in ClientMessages
         /\ Tail(toServer) \in Seq(ClientMessages)
BY HeadTailProperties DEF ConnectionTypes

LEMMA BeginTypes ==
  ASSUME NEW fresh \in BOOLEAN, Begin(fresh),
         launched \in 0 .. MaxGenerations, ~fresh => launched >= 1
  PROVE  TypeInv
<1>1. /\ phase = IF fresh THEN "draft" ELSE "live"
      /\ current = IF fresh THEN NoRuntime ELSE 1
      /\ held = NoRuntime
      /\ created = IF fresh THEN {} ELSE {1}
      /\ bus = [g \in Generations |-> EmptyBus]
  BY DEF Begin
<1>2. ServerTypes
  BY <1>1, Bounds DEF ServerTypes, Phases, Launched, NoRuntime
<1>3. BusTypes
  <2>1. EmptyBus \in Bus(Happenings) /\ EmptyBus.seq \in Stamps /\ \A g : Holds(g, EmptyBus)
    BY EmptyHolds, Bounds DEF Holds, EmptyBus, Stamps
  <2> HIDE DEF Generations
  <2>2. \A g \in Generations : bus[g] = EmptyBus
    BY <1>1
  <2>3. phase # "building"
    BY <1>1
  <2>4. bus \in [Generations -> Bus(Happenings)]
    BY <1>1, <2>1
  <2>5. QED
    BY <2>1, <2>2, <2>3, <2>4 DEF BusTypes
<1>4. ConnectionTypes
  <2>1. <<>> \in Seq(ServerMessages) /\ <<>> \in Seq(ClientMessages)
    OBVIOUS
  <2>2. QED
    BY <2>1 DEF Begin, ConnectionTypes
<1>5. ClientTypes
  <2>1. 0 \in Stamps /\ NoTag \in Tags /\ 0 \in Nat
    BY Bounds DEF Stamps, Tags
  <2>2. /\ lastSeq = 0 /\ streamGeneration = NoTag
        /\ captured = [lastSeq |-> 0, tag |-> NoTag]
        /\ epoch = 0 /\ recovered = FALSE /\ rest = "none"
    BY DEF Begin
  <2>3. QED
    BY <2>1, <2>2 DEF ClientTypes
<1>6. QED
  BY <1>2, <1>3, <1>4, <1>5 DEF TypeInv

LEMMA InitTypes == Init => TypeInv
<1>1. ASSUME Init
      PROVE  /\ StartsAsDraft \in BOOLEAN /\ Begin(StartsAsDraft)
             /\ launched = IF StartsAsDraft THEN 0 ELSE 1
  BY <1>1, StreamAssumption DEF Init, StreamAssumption
<1>2. QED
  BY <1>1, BeginTypes, Bounds

\* The bus of the current runtime moves on by n events.
LEMMA BusMovesOn ==
  ASSUME ServerTypes, BusTypes, current # NoRuntime, NEW n \in Nat,
         bus[current].seq + n <= MaxEvents, launched' = launched, phase' # "building",
         NEW b, Holds(current, b), b.seq = bus[current].seq + n,
         bus' = [bus EXCEPT ![current] = b]
  PROVE  BusTypes'
<1>1. current \in Generations /\ current \in Launched /\ current <= launched
  BY SomeRuntime, LaunchedIs DEF Launched
<1>2. bus \in [Generations -> Bus(Happenings)] /\ b \in Bus(Happenings) /\ bus[current].seq \in Nat
  BY <1>1, Bounds DEF BusTypes, Holds, Stamps
<1>3. bus' \in [Generations -> Bus(Happenings)] /\ bus'[current] = b
  BY <1>1, <1>2
<1>4. \A g \in Generations : g # current => bus'[g] = bus[g]
  BY <1>2
<1>5. b.seq \in Stamps
  BY <1>2, Bounds DEF Stamps
<1>6. \A g \in Generations : bus'[g].seq \in Stamps /\ Holds(g, bus'[g])
  BY <1>3, <1>4, <1>5 DEF BusTypes
<1>7. \A g \in Generations : g > launched => bus'[g] = EmptyBus
  <2>1. ~(current > launched)
    BY <1>1, LaunchedIs
  <2>2. QED
    BY <1>4, <2>1 DEF BusTypes
<1>8. QED
  BY <1>3, <1>6, <1>7 DEF BusTypes

LEMMA EmitTypes == ASSUME TypeInv, Emit PROVE TypeInv'
<1> USE DEF TypeInv
<1>1. current # NoRuntime /\ current \in Generations /\ bus[current].seq \in Nat
  BY SomeRuntime, Bounds DEF Emit, ServerTypes, BusTypes, Stamps
<1>2. ServerTypes' /\ Launched' = Launched
  BY DEF Emit, ServerTypes, Launched
<1>3. BusTypes'
  <2> DEFINE b == AppendEvent(bus[current], <<current, bus[current].seq + 1>>)
  <2>1. Holds(current, b) /\ b.seq = bus[current].seq + 1
    BY <1>1, AppendEventHolds DEF BusTypes
  <2>2. /\ bus' = [bus EXCEPT ![current] = b] /\ phase' # "building" /\ launched' = launched
        /\ bus[current].seq + 1 <= MaxEvents
    BY <1>1, Bounds DEF Emit
  <2> HIDE DEF b
  <2>3. QED
    BY <1>1, <2>1, <2>2, BusMovesOn
<1>4. ConnectionTypes'
  <2>1. FanOut(current, 1) \in Seq(ServerMessages)
    <3>1. bus[current].seq + 1 <= MaxEvents
      BY <1>1, Bounds DEF Emit
    <3>2. Run(current, bus[current].seq, 1) \in Seq(ServerMessages)
      BY <1>1, <3>1, Runs
    <3>3. FanOut(current, 1) \in {Run(current, bus[current].seq, 1), <<>>}
      BY FanOutIs
    <3>4. <<>> \in Seq(ServerMessages)
      OBVIOUS
    <3>5. QED
      BY <3>2, <3>3, <3>4, Zenon
  <2>2. QED
    BY <1>2, <2>1, PushTypes DEF Emit, client
<1>5. ClientTypes'
  BY SameClient DEF Emit, store, client, ClientTypes
<1>6. QED
  BY <1>2, <1>3, <1>4, <1>5

LEMMA FinishResumeTypes == ASSUME TypeInv, FinishResume PROVE TypeInv'
<1> USE DEF TypeInv
<1>1. /\ current # NoRuntime /\ current \in Generations /\ bus[current] = EmptyBus
      /\ bus[current].seq = 0
  BY SomeRuntime DEF FinishResume, ServerTypes, BusTypes, EmptyBus
<1>2. ServerTypes' /\ Launched' = Launched
  BY <1>1 DEF FinishResume, ServerTypes, Launched, Phases
<1>3. BusTypes'
  <2> DEFINE b == AppendAll(bus[current], NewEvents(current, HistoryEvents))
  <2>1. Holds(current, b) /\ b.seq = bus[current].seq + HistoryEvents
    BY <1>1, AppendAllHolds, Bounds DEF BusTypes, NewEvents
  <2>2. /\ bus' = [bus EXCEPT ![current] = b] /\ phase' # "building" /\ launched' = launched
        /\ bus[current].seq + HistoryEvents <= MaxEvents
    BY <1>1, Bounds DEF FinishResume
  <2> HIDE DEF b
  <2>3. QED
    BY <1>1, <2>1, <2>2, BusMovesOn, Bounds
<1>4. ConnectionTypes'
  <2>1. FanOut(current, HistoryEvents) \in Seq(ServerMessages)
    <3>1. bus[current].seq + HistoryEvents <= MaxEvents /\ bus[current].seq \in Nat
      BY <1>1, Bounds
    <3>2. Run(current, bus[current].seq, HistoryEvents) \in Seq(ServerMessages)
      BY <1>1, <3>1, Runs, Bounds
    <3>3. FanOut(current, HistoryEvents) \in {Run(current, bus[current].seq, HistoryEvents), <<>>}
      <4>1. HistoryEvents \in Nat
        BY Bounds
      <4>2. QED
        BY <4>1, FanOutIs
    <3>4. <<>> \in Seq(ServerMessages)
      OBVIOUS
    <3>5. QED
      BY <3>2, <3>3, <3>4, Zenon
  <2>2. FanOut(current, HistoryEvents) \o <<Rebind>> \in Seq(ServerMessages)
    BY <2>1, PlainMessages
  <2>3. QED
    BY <1>2, <2>2, PushTypes DEF FinishResume, client
<1>5. ClientTypes'
  BY SameClient DEF FinishResume, store, client, ClientTypes
<1>6. QED
  BY <1>2, <1>3, <1>4, <1>5

\* Steps of the runtime that touch no bus and push nothing.
LEMMA QuietTypes == ASSUME TypeInv, Park \/ Exit \/ Destroy \/ FailStart PROVE TypeInv'
<1> USE DEF TypeInv
<1>1. /\ UNCHANGED <<held, launched, created, bus>> /\ UNCHANGED <<connection, store, client>>
      /\ phase' # "building"
  BY DEF Park, Exit, Destroy, FailStart
<1>2. Launched' = Launched
  BY <1>1 DEF Launched
<1>3. ServerTypes'
  BY <1>1, <1>2 DEF Park, Exit, Destroy, FailStart, ServerTypes, Phases
<1>4. BusTypes'
  BY <1>1, SameBuses
<1>5. ConnectionTypes'
  BY <1>1, <1>2, SameConnection DEF client
<1>6. ClientTypes'
  BY <1>1, SameClient DEF store, client, ClientTypes
<1>7. QED
  BY <1>3, <1>4, <1>5, <1>6

LEMMA LaunchTypes == ASSUME TypeInv, Launch \/ StartDraft PROVE TypeInv'
<1> USE DEF TypeInv
<1>1. /\ launched < MaxGenerations /\ launched' = launched + 1 /\ current' = launched + 1
      /\ bus' = bus /\ UNCHANGED <<connection, store, client>>
  BY DEF Launch, StartDraft
<1>2. launched \in Nat /\ launched + 1 \in Generations /\ launched + 1 # NoRuntime
  BY <1>1, LaunchedIs, Bounds DEF Generations, NoRuntime
<1>3. Launched' = Launched \cup {launched + 1}
  BY <1>1, <1>2 DEF Launched
<1>4. ServerTypes'
  <2>1. launched' \in 0 .. MaxGenerations
    BY <1>1, <1>2, Bounds
  <2>2. current' \in Launched' /\ current' # NoRuntime /\ held' \in {NoRuntime} \cup Launched'
    BY <1>1, <1>2, <1>3 DEF Launch, StartDraft, ServerTypes
  <2>3. created' \subseteq Launched'
    BY <1>3 DEF Launch, StartDraft, ServerTypes
  <2>4. phase' \in Phases /\ phase' \notin {"draft", "absent"}
    BY DEF Launch, StartDraft, Phases
  <2>5. QED
    BY <2>1, <2>2, <2>3, <2>4 DEF ServerTypes
<1>5. BusTypes'
  <2>1. \A g \in Generations : g > launched' => g > launched
    BY <1>1, <1>2 DEF Generations
  <2>2. launched + 1 > launched
    BY <1>2
  <2>3. bus[launched + 1] = EmptyBus
    BY <1>2, <2>2 DEF BusTypes
  <2>4. QED
    BY <1>1, <2>1, <2>3 DEF BusTypes
<1>6. ConnectionTypes'
  BY <1>1, <1>3, SameConnection DEF client
<1>7. ClientTypes'
  BY <1>1, SameClient DEF store, client, ClientTypes
<1>8. QED
  BY <1>4, <1>5, <1>6, <1>7

LEMMA FailResumeTypes == ASSUME TypeInv, FailResume PROVE TypeInv'
<1> USE DEF TypeInv
<1>1. /\ UNCHANGED <<launched, created, bus, store, captured, epoch, recovered>>
      /\ phase' # "building" /\ held' = NoRuntime
  BY DEF FailResume
<1>2. Launched' = Launched
  BY <1>1 DEF Launched
<1>3. ServerTypes'
  BY <1>1, <1>2 DEF FailResume, ServerTypes, Phases
<1>4. BusTypes'
  BY <1>1, SameBuses
<1>5. CASE UNCHANGED <<connection, settled, rest>>
  <2>1. ConnectionTypes'
    BY <1>2, <1>5, SameConnection DEF connection
  <2>2. ClientTypes'
    BY <1>1, <1>5, SameClient DEF store, ClientTypes
  <2>3. QED
    BY <1>3, <1>4, <2>1, <2>2
<1>6. CASE rest' = "none" /\ link' = "off" /\ Disconnected
  <2>1. ConnectionTypes'
    BY <1>6, OffTheWire
  <2>2. ClientTypes'
    BY <1>1, <1>6, SameClient DEF store
  <2>3. QED
    BY <1>3, <1>4, <2>1, <2>2
<1>7. QED
  BY <1>5, <1>6 DEF FailResume

LEMMA FinishStartTypes == ASSUME TypeInv, FinishStart PROVE TypeInv'
<1> USE DEF TypeInv
<1>1. /\ UNCHANGED <<current, held, launched, created, bus, link, toServer, store, client>>
      /\ phase' = "live" /\ current # NoRuntime
  BY DEF FinishStart, ServerTypes
<1>2. Launched' = Launched
  BY <1>1 DEF Launched
<1>3. ServerTypes'
  BY <1>1, <1>2 DEF ServerTypes, Phases
<1>4. BusTypes'
  BY <1>1, SameBuses
<1>5. <<Rebind>> \in Seq(ServerMessages) /\ <<Rebind, SnapshotMessage(current)>> \in Seq(ServerMessages)
  <2>1. SnapshotMessage(current) \in ServerMessages
    BY <1>1, SomeRuntime, SnapshotType
  <2>2. QED
    BY <2>1, PlainMessages
<1>6. ConnectionTypes'
  <2>1. CASE toClient' = Pushed(<<Rebind>>) /\ UNCHANGED sub
    BY <1>1, <1>2, <1>5, <2>1, PushTypes DEF client
  <2>2. CASE link = "up" /\ sub' = current /\ toClient' = Pushed(<<Rebind, SnapshotMessage(current)>>)
    <3>1. toClient' \in Seq(ServerMessages)
      BY <1>5, <2>2 DEF Pushed, ConnectionTypes
    <3>2. QED
      BY <1>1, <1>2, <2>2, <3>1, SomeRuntime DEF ConnectionTypes, client
  <2>3. QED
    BY <2>1, <2>2 DEF FinishStart
<1>7. ClientTypes'
  BY <1>1, SameClient DEF store, client, ClientTypes
<1>8. QED
  BY <1>3, <1>4, <1>6, <1>7

LEMMA OnHelloTypes == ASSUME TypeInv, OnHello PROVE TypeInv'
<1> USE DEF TypeInv
<1>1. ServerTypes' /\ BusTypes' /\ Launched' = Launched
  BY SameServer DEF OnHello
<1>2. ConnectionTypes'
  <2>1. link = "up" /\ toServer' \in Seq(ClientMessages)
    BY TakeRequest DEF OnHello
  <2>2. toClient' \in Seq(ServerMessages)
    BY PlainMessages DEF OnHello, ConnectionTypes
  <2>3. UNCHANGED <<link, sub, settled>>
    BY DEF OnHello, client
  <2>4. QED
    BY <1>1, <2>1, <2>2, <2>3 DEF ConnectionTypes
<1>3. ClientTypes'
  BY SameClient DEF OnHello, store, client, ClientTypes
<1>4. QED
  BY <1>1, <1>2, <1>3

LEMMA OnSubscribeTypes == ASSUME TypeInv, OnSubscribe PROVE TypeInv'
<1> USE DEF TypeInv
<1> DEFINE m == Head(toServer)
<1>1. ServerTypes' /\ BusTypes' /\ Launched' = Launched
  BY SameServer DEF OnSubscribe
<1>2. /\ link = "up" /\ m \in ClientMessages /\ m.type = "subscribe"
      /\ toServer' \in Seq(ClientMessages) /\ UNCHANGED <<link, settled>>
  BY TakeRequest DEF OnSubscribe, client
<1>3. m.from \in Stamps
  BY <1>2, RequestTypes
<1>4. Reply(m, "ok") \in ServerMessages /\ Reply(m, "error") \in ServerMessages
  BY <1>2, Replies
<1>5. toClient \in Seq(ServerMessages)
  BY DEF ConnectionTypes
<1>6. toClient' \in Seq(ServerMessages) /\ sub' \in {NoRuntime} \cup Launched
  <2>1. CASE sub' = NoRuntime /\ toClient' = toClient \o <<DraftSnapshot, Reply(m, "ok")>>
    <3>1. <<DraftSnapshot, Reply(m, "ok")>> \in Seq(ServerMessages)
      BY <1>4, DraftSnapshotType
    <3>2. QED
      BY <1>5, <2>1, <3>1
  <2>2. CASE toClient' = Append(toClient, Reply(m, "error")) /\ UNCHANGED sub
    BY <1>4, <1>5, <2>2 DEF ConnectionTypes
  <2>3. CASE /\ current # NoRuntime /\ sub' = current
             /\ toClient' = Append(toClient \o Answer(m), Reply(m, "ok"))
    <3>1. Answer(m) \in Seq(ServerMessages)
      BY <1>3, <2>3, AnswerType
    <3>2. current \in Launched
      BY <2>3, SomeRuntime
    <3> HIDE DEF m
    <3>3. QED
      BY <1>4, <1>5, <2>3, <3>1, <3>2
  <2>4. QED
    BY <2>1, <2>2, <2>3 DEF OnSubscribe
<1> HIDE DEF m
<1>7. ConnectionTypes'
  BY <1>1, <1>2, <1>6 DEF ConnectionTypes
<1>8. ClientTypes'
  BY SameClient DEF OnSubscribe, store, client, ClientTypes
<1>9. QED
  BY <1>1, <1>7, <1>8

LEMMA OnConnectedTypes == ASSUME TypeInv, OnConnected PROVE TypeInv'
<1> USE DEF TypeInv
<1>1. ServerTypes' /\ BusTypes' /\ Launched' = Launched
  BY SameServer DEF OnConnected
<1>2. ConnectionTypes'
  <2>1. <<Hello>> \in Seq(ClientMessages)
    BY PlainMessages
  <2>2. QED
    BY <1>1, <2>1 DEF OnConnected, ConnectionTypes
<1>3. ClientTypes'
  BY DEF OnConnected, store, ClientTypes
<1>4. QED
  BY <1>1, <1>2, <1>3

\* Every step that handles a message of the server takes it off the wire.
LEMMA HandledTypes ==
  ASSUME ConnectionTypes, toClient # <<>>, toClient' = Tail(toClient),
         toServer' \in Seq(ClientMessages), UNCHANGED <<link, sub>>, Launched' = Launched,
         settled' \in BOOLEAN
  PROVE  ConnectionTypes'
BY TakeMessage DEF ConnectionTypes

LEMMA OnHelloOkTypes == ASSUME TypeInv, OnHelloOk PROVE TypeInv'
<1> USE DEF TypeInv
<1>1. ServerTypes' /\ BusTypes' /\ Launched' = Launched
  BY SameServer DEF OnHelloOk
<1>2. Subscribe(captured.lastSeq, captured.tag, "connect", 0) \in ClientMessages
  BY Requests DEF ClientTypes, Ways
<1>3. toServer' \in Seq(ClientMessages)
  BY <1>2 DEF OnHelloOk, ConnectionTypes
<1>4. ConnectionTypes'
  BY <1>1, <1>3, HandledTypes DEF OnHelloOk, Receive, client, ConnectionTypes
<1>5. ClientTypes'
  BY SameClient DEF OnHelloOk, store, client, ClientTypes
<1>6. QED
  BY <1>1, <1>4, <1>5

LEMMA OnSnapshotTypes == ASSUME TypeInv, OnSnapshot PROVE TypeInv'
<1> USE DEF TypeInv
<1>1. ServerTypes' /\ BusTypes' /\ Launched' = Launched
  BY SameServer DEF OnSnapshot
<1>2. ConnectionTypes'
  BY <1>1, HandledTypes DEF OnSnapshot, Receive, client, ConnectionTypes
<1>3. lastSeq' \in Stamps /\ streamGeneration' \in Tags
  <2>1. Head(toClient) \in ServerMessages /\ Head(toClient).type = "snapshot"
    BY TakeMessage DEF OnSnapshot, Receive
  <2>2. QED
    BY <2>1, MessageTypes DEF OnSnapshot
<1>4. ClientTypes'
  BY <1>3 DEF OnSnapshot, client, ClientTypes
<1>5. QED
  BY <1>1, <1>2, <1>4

LEMMA OnEventTypes == ASSUME TypeInv, OnEvent PROVE TypeInv'
<1> USE DEF TypeInv
<1>1. ServerTypes' /\ BusTypes' /\ Launched' = Launched
  BY SameServer DEF OnEvent
<1>2. ConnectionTypes'
  BY <1>1, HandledTypes DEF OnEvent, Receive, client, ConnectionTypes
<1>3. lastSeq' \in Stamps
  <2>1. Head(toClient) \in ServerMessages /\ Head(toClient).type = "event"
    BY TakeMessage DEF OnEvent, Receive
  <2>2. QED
    BY <2>1, MessageTypes DEF OnEvent, ApplyEvent, ClientTypes
<1>4. ClientTypes'
  BY <1>3 DEF OnEvent, client, ClientTypes
<1>5. QED
  BY <1>1, <1>2, <1>4

LEMMA OnRebindTypes == ASSUME TypeInv, OnRebind PROVE TypeInv'
<1> USE DEF TypeInv
<1>1. ServerTypes' /\ BusTypes' /\ Launched' = Launched
  BY SameServer DEF OnRebind
<1>2. 0 \in Stamps /\ NoTag \in Tags /\ epoch + 1 \in Nat
  BY Bounds DEF Stamps, Tags, ClientTypes
<1>3. toServer' \in Seq(ClientMessages)
  <2>1. Subscribe(0, NoTag, "resubscribe", epoch + 1) \in ClientMessages
    BY <1>2, Requests DEF Ways
  <2>2. QED
    BY <2>1 DEF OnRebind, Resubscribe, ConnectionTypes
<1>4. ConnectionTypes'
  BY <1>1, <1>3, HandledTypes DEF OnRebind, Receive
<1>5. ClientTypes'
  BY <1>2 DEF OnRebind, ResetTranscript, Resubscribe, ClientTypes
<1>6. QED
  BY <1>1, <1>4, <1>5

LEMMA OnSubscribedTypes == ASSUME TypeInv, OnSubscribed PROVE TypeInv'
<1> USE DEF TypeInv
<1>1. ServerTypes' /\ BusTypes' /\ Launched' = Launched
  BY SameServer DEF OnSubscribed
<1>2. settled' \in BOOLEAN
  BY DEF OnSubscribed, ConnectionTypes
<1>3. ConnectionTypes'
  BY <1>1, <1>2, HandledTypes DEF OnSubscribed, Receive, ConnectionTypes
<1>4. ClientTypes'
  BY SameClient DEF OnSubscribed, store, ClientTypes
<1>5. QED
  BY <1>1, <1>3, <1>4

LEMMA OnUnknownSessionTypes == ASSUME TypeInv, OnUnknownSession PROVE TypeInv'
<1> USE DEF TypeInv
<1>1. ServerTypes' /\ BusTypes' /\ Launched' = Launched
  BY SameServer DEF OnUnknownSession
<1>2. ConnectionTypes'
  BY <1>1, HandledTypes DEF OnUnknownSession, Receive, ConnectionTypes
<1>3. ClientTypes'
  BY DEF OnUnknownSession, store, ClientTypes
<1>4. QED
  BY <1>1, <1>2, <1>3

LEMMA DisconnectTypes ==
  ASSUME TypeInv, RestReturns \/ Activate \/ Drop
  PROVE  TypeInv'
<1> USE DEF TypeInv
<1>1. ServerTypes' /\ BusTypes' /\ Launched' = Launched
  BY SameServer DEF RestReturns, Activate, Drop
<1>2. ConnectionTypes'
  BY OffTheWire DEF RestReturns, Activate, Drop
<1>3. 0 \in Stamps /\ NoTag \in Tags
  BY Bounds DEF Stamps, Tags
<1>4. ClientTypes'
  <2>1. CASE RestReturns \/ Drop
    BY <2>1, SameClient DEF RestReturns, Drop, store, ClientTypes
  <2>2. CASE Activate
    BY <1>3, <2>2 DEF Activate, ResetTranscript, ClientTypes
  <2>3. QED
    BY <2>1, <2>2
<1>5. QED
  BY <1>1, <1>2, <1>4

LEMMA RestartTypes == ASSUME TypeInv, Restart PROVE TypeInv'
<1> USE DEF TypeInv
<1>1. /\ UNCHANGED <<launched, created, bus>> /\ current' = NoRuntime /\ held' = NoRuntime
      /\ phase' \in {"draft", "absent"}
  BY DEF Restart
<1>2. ServerTypes' /\ BusTypes'
  BY <1>1, SameBuses DEF ServerTypes, Launched, Phases
<1>3. ConnectionTypes'
  BY OffTheWire DEF Restart
<1>4. ClientTypes'
  BY SameClient DEF Restart, store
<1>5. QED
  BY <1>2, <1>3, <1>4

LEMMA StutterTypes == ASSUME TypeInv, UNCHANGED vars PROVE TypeInv'
BY DEF vars, TypeInv, ServerTypes, BusTypes, ConnectionTypes, ClientTypes, Launched

LEMMA StepTypes == ASSUME TypeInv, [Next]_vars PROVE TypeInv'
<1>1. CASE RuntimeStep
  BY <1>1, EmitTypes, QuietTypes, LaunchTypes, FinishResumeTypes, FailResumeTypes,
     FinishStartTypes DEF RuntimeStep
<1>2. CASE ServerStep
  BY <1>2, OnHelloTypes, OnSubscribeTypes DEF ServerStep
<1>3. CASE ClientStep
  BY <1>3, OnConnectedTypes, OnHelloOkTypes, OnSnapshotTypes, OnEventTypes, OnRebindTypes,
     OnSubscribedTypes, OnUnknownSessionTypes, DisconnectTypes DEF ClientStep
<1>4. CASE Activate \/ Drop
  BY <1>4, DisconnectTypes
<1>5. CASE Restart
  BY <1>5, RestartTypes
<1>6. CASE UNCHANGED vars
  BY <1>6, StutterTypes
<1>7. QED
  BY <1>1, <1>2, <1>3, <1>4, <1>5, <1>6 DEF Next

LEMMA TypesAlways == Spec => []TypeInv
BY InitTypes, StepTypes, PTL DEF Spec

\* Every state of a followed session is well typed: a connection that is down holds
\* nothing, a settled renderer has one, and no bus ever holds a ring that has a gap,
\* is out of order, or keeps fewer of the latest events than it has room for.
THEOREM TypeCorrect == Spec => []TypeOK
BY TypesAlways, TypesHold, PTL

-----------------------------------------------------------------------------
(* What a renderer shows.  The transcript is what the messages handled so  *)
(* far made of it, and the messages on the wire will make more of it: a    *)
(* view is what the store shows at one of these moments, a prefix of one   *)
(* generation's events.  After a rebind and until the next snapshot the    *)
(* store is adrift: late events of the old runtime may reach it, but it is *)
(* not settled.                                                            *)

\* A draft whose socket drops can be claimed under another runtime's position, as the
\* run MCEventStreamGap shows; the results below exclude that one combination.
Gapless == StartsAsDraft => MaxDrops = 0

Adrift == -1
Views == [gen : {Adrift, NoRuntime} \cup Generations, upto : Nat, tag : Tags]

\* A view that does not take back, under one tag, what the other shows.
Grows(v, w) ==
  v.gen # Adrift /\ v.tag = w.tag => v.upto = 0 \/ (v.gen = w.gen /\ v.upto <= w.upto)

\* Message m makes view w of view v.
Makes(v, m, w) ==
  /\ m.type = "snapshot" => /\ w.gen # Adrift /\ m.state = EventsOf(w.gen, w.upto)
                            /\ m.stamp = w.upto /\ m.tag = w.tag /\ Grows(v, w)
  /\ m.type = "event" /\ v.gen = Adrift => w.gen = Adrift
  /\ m.type = "event" /\ v.gen # Adrift =>
       /\ m.event = <<v.gen, v.upto + 1>> /\ m.stamp = v.upto + 1
       /\ w = [gen |-> v.gen, upto |-> v.upto + 1, tag |-> v.tag]
  /\ m.type = "session_rebind" => w.gen = Adrift
  /\ m.type = "ok" => v.gen # Adrift
  /\ m.type \in {"ok", "error", "hello_ok"} => w = v

\* The messages q lead through the views v.
Leads(q, v) ==
  /\ v \in [0 .. Len(q) -> Views]
  /\ \A k \in 1 .. Len(q) : Makes(v[k - 1], q[k], v[k])

LEMMA LeadsNowhere ==
  ASSUME NEW w \in Views
  PROVE  \E v : Leads(<<>>, v) /\ v[0] = w
<1> DEFINE v == [k \in 0 .. 0 |-> w]
<1>1. v \in [0 .. 0 -> Views] /\ v[0] = w
  OBVIOUS
<1> HIDE DEF v
<1>2. Len(<<>>) = 0
  OBVIOUS
<1>3. Leads(<<>>, v)
  BY <1>1, <1>2 DEF Leads
<1>4. QED
  BY <1>1, <1>3

LEMMA LeadsTail ==
  ASSUME NEW q \in Seq(ServerMessages), q # <<>>, NEW v, Leads(q, v)
  PROVE  /\ Makes(v[0], Head(q), v[1])
         /\ v[0] \in Views /\ v[1] \in Views
         /\ \E u : /\ Leads(Tail(q), u)
                   /\ \A k \in 0 .. Len(Tail(q)) : u[k] = v[k + 1]
<1> DEFINE n == Len(q)
           u == [k \in 0 .. n - 1 |-> v[k + 1]]
<1>1. n \in Nat /\ n >= 1 /\ Head(q) = q[1]
  OBVIOUS
<1>2. Len(Tail(q)) = n - 1 /\ \A i \in 1 .. n - 1 : Tail(q)[i] = q[i + 1]
  BY HeadTailProperties
<1>3. v \in [0 .. n -> Views] /\ \A k \in 1 .. n : Makes(v[k - 1], q[k], v[k])
  BY DEF Leads
<1> HIDE DEF n
<1>4. Makes(v[0], Head(q), v[1])
  <2>1. 1 \in 1 .. n /\ 1 - 1 = 0
    BY <1>1
  <2>2. Makes(v[1 - 1], q[1], v[1])
    BY <1>3, <2>1
  <2>3. QED
    BY <1>1, <2>1, <2>2, Zenon
<1>5. v[0] \in Views /\ v[1] \in Views
  BY <1>1, <1>3
<1>6. \A k \in 0 .. n - 1 : u[k] = v[k + 1]
  OBVIOUS
<1>7. u \in [0 .. n - 1 -> Views]
  <2>1. \A k \in 0 .. n - 1 : v[k + 1] \in Views
    BY <1>1, <1>3
  <2>2. QED
    BY <2>1
<1> HIDE DEF u
<1>8. ASSUME NEW k \in 1 .. n - 1
      PROVE  Makes(u[k - 1], Tail(q)[k], u[k])
  <2>1. /\ k - 1 \in 0 .. n - 1 /\ k \in 0 .. n - 1 /\ k + 1 \in 1 .. n
        /\ k - 1 + 1 = k /\ k + 1 - 1 = k
    BY <1>1
  <2>2. u[k - 1] = v[k] /\ u[k] = v[k + 1] /\ Tail(q)[k] = q[k + 1]
    <3>1. u[k - 1] = v[k - 1 + 1] /\ u[k] = v[k + 1]
      BY <1>6, <2>1
    <3>2. QED
      BY <1>2, <2>1, <3>1
  <2>3. Makes(v[k + 1 - 1], q[k + 1], v[k + 1])
    BY <1>3, <2>1
  <2>4. QED
    BY <2>1, <2>2, <2>3
<1>9. Leads(Tail(q), u)
  BY <1>2, <1>7, <1>8 DEF Leads
<1>10. QED
  BY <1>2, <1>4, <1>5, <1>6, <1>9

LEMMA LeadsAppend ==
  ASSUME NEW q \in Seq(ServerMessages), NEW v, Leads(q, v),
         NEW m \in ServerMessages, NEW w \in Views, Makes(v[Len(q)], m, w)
  PROVE  \E u : /\ Leads(Append(q, m), u)
                /\ \A k \in 0 .. Len(q) : u[k] = v[k]
                /\ u[Len(q) + 1] = w
<1> DEFINE n == Len(q)
           p == Append(q, m)
           u == [k \in 0 .. n + 1 |-> IF k = n + 1 THEN w ELSE v[k]]
<1>1. /\ n \in Nat /\ Len(p) = n + 1 /\ p[n + 1] = m
      /\ \A k \in 1 .. n : p[k] = q[k]
  BY AppendProperties
<1>2. v \in [0 .. n -> Views] /\ \A k \in 1 .. n : Makes(v[k - 1], q[k], v[k])
  BY DEF Leads
<1> HIDE DEF n, p
<1>3. u[n + 1] = w /\ \A k \in 0 .. n : u[k] = v[k]
  BY <1>1
<1>4. u \in [0 .. n + 1 -> Views]
  <2>1. \A k \in 0 .. n + 1 : (IF k = n + 1 THEN w ELSE v[k]) \in Views
    BY <1>1, <1>2
  <2>2. QED
    BY <2>1
<1> HIDE DEF u
<1>5. ASSUME NEW k \in 1 .. n + 1
      PROVE  Makes(u[k - 1], p[k], u[k])
  <2>1. CASE k \in 1 .. n
    <3>1. k - 1 \in 0 .. n /\ k \in 0 .. n
      BY <1>1, <2>1
    <3>2. QED
      BY <1>1, <1>2, <1>3, <2>1, <3>1
  <2>2. CASE k = n + 1
    <3>1. k - 1 = n /\ n \in 0 .. n
      BY <1>1, <2>2
    <3>2. u[k - 1] = v[n] /\ p[k] = m /\ u[k] = w
      BY <1>1, <1>3, <2>2, <3>1
    <3>3. Makes(v[n], m, w)
      BY DEF n
    <3>4. QED
      BY <3>2, <3>3
  <2>3. QED
    BY <1>1, <2>1, <2>2
<1>6. Leads(p, u)
  BY <1>1, <1>4, <1>5 DEF Leads
<1>7. QED
  BY <1>3, <1>6 DEF n, p

\* A run that continues the last view extends it; one that finds it adrift leaves it
\* adrift.
Continued(last, g, from, i) ==
  IF last.gen = Adrift THEN last ELSE [gen |-> g, upto |-> from + i, tag |-> last.tag]

\* The views u carry v on over that run.
CarriesOn(q, v, g, from, n, u) ==
  /\ Leads(q \o Run(g, from, n), u)
  /\ Len(q \o Run(g, from, n)) = Len(q) + n
  /\ \A k \in 0 .. Len(q) : u[k] = v[k]
  /\ \A i \in 0 .. n : u[Len(q) + i] = Continued(v[Len(q)], g, from, i)

LEMMA LeadsRun ==
  ASSUME NEW q \in Seq(ServerMessages), NEW v, Leads(q, v),
         NEW g \in Generations, NEW from \in Nat, NEW n \in Nat, from + n <= MaxEvents,
         v[Len(q)].gen # Adrift => v[Len(q)].gen = g /\ v[Len(q)].upto = from
  PROVE  \E u : CarriesOn(q, v, g, from, n, u)
<1> DEFINE l == Len(q)
           r == Run(g, from, n)
           p == q \o r
           last == v[l]
           C(i) == Continued(last, g, from, i)
           u == [k \in 0 .. l + n |-> IF k <= l THEN v[k] ELSE C(k - l)]
<1>1. /\ r \in Seq(ServerMessages) /\ Len(r) = n
      /\ \A i \in 1 .. n : r[i].type = "event" /\ r[i].stamp = from + i /\ r[i].event = <<g, from + i>>
  BY Runs
<1> HIDE DEF r
<1>2. /\ l \in Nat /\ Len(p) = l + n
      /\ \A k \in 1 .. l : p[k] = q[k]
      /\ \A i \in 1 .. n : p[l + i] = r[i]
  <2>1. Len(q) \in Nat
    OBVIOUS
  <2>2. /\ Len(q \o r) = Len(q) + Len(r)
        /\ \A k \in 1 .. Len(q) : (q \o r)[k] = q[k]
        /\ \A i \in 1 .. Len(r) : (q \o r)[Len(q) + i] = r[i]
    <3>1. r \in Seq(ServerMessages)
      BY <1>1
    <3>2. QED
      BY <3>1, ConcatAt
  <2>3. QED
    BY <1>1, <2>1, <2>2, Zenon
<1>3. v \in [0 .. l -> Views] /\ \A k \in 1 .. l : Makes(v[k - 1], q[k], v[k])
  BY DEF Leads
<1>4. last.gen # Adrift => last.gen = g /\ last.upto = from
  OBVIOUS
<1> HIDE DEF l, p
<1>5. last \in Views
  BY <1>2, <1>3
<1>6. C(0) = last
  <2>1. last = [gen |-> last.gen, upto |-> last.upto, tag |-> last.tag] /\ from + 0 = from
    BY <1>5 DEF Views
  <2>2. QED
    BY <1>4, <2>1 DEF Continued
<1>7. \A i \in 0 .. n : C(i) \in Views
  <2>1. last.tag \in Tags /\ \A i \in 0 .. n : from + i \in Nat
    BY <1>5 DEF Views
  <2>2. QED
    BY <1>5, <2>1 DEF Continued, Views
<1>8. ASSUME NEW i \in 1 .. n
      PROVE  Makes(C(i - 1), r[i], C(i))
  <2>1. from + (i - 1) + 1 = from + i
    OBVIOUS
  <2>2. r[i].type = "event" /\ r[i].stamp = from + i /\ r[i].event = <<g, from + i>>
    BY <1>1
  <2> HIDE DEF last
  <2>3. CASE last.gen = Adrift
    BY <2>2, <2>3 DEF Makes, Continued
  <2>4. CASE last.gen # Adrift
    <3>1. /\ C(i - 1) = [gen |-> g, upto |-> from + (i - 1), tag |-> last.tag]
          /\ C(i) = [gen |-> g, upto |-> from + i, tag |-> last.tag]
      BY <2>4 DEF Continued
    <3>2. g # Adrift
      BY Bounds DEF Generations, Adrift
    <3>3. /\ C(i - 1).gen = g /\ C(i - 1).upto + 1 = from + i /\ C(i - 1).tag = last.tag
      BY <2>1, <3>1
    <3> HIDE DEF C
    <3>4. QED
      BY <2>2, <3>1, <3>2, <3>3 DEF Makes
  <2>5. QED
    BY <2>3, <2>4
<1> HIDE DEF C, last
<1>9. /\ \A k \in 0 .. l : u[k] = v[k]
      /\ \A i \in 0 .. n : u[l + i] = C(i)
  <2>1. \A k \in 0 .. l : u[k] = v[k]
    BY <1>2
  <2>2. u[l] = last
    BY <1>2 DEF last
  <2>3. ASSUME NEW i \in 0 .. n PROVE u[l + i] = C(i)
    <3>1. CASE i = 0
      <4>1. l + i = l
        BY <1>2, <3>1
      <4>2. QED
        BY <1>6, <2>2, <3>1, <4>1
    <3>2. CASE i # 0
      <4> DEFINE k == l + i
      <4>1. k \in 0 .. l + n /\ ~(k <= l) /\ k - l = i
        BY <1>2, <3>2
      <4> HIDE DEF k
      <4>2. u[k] = C(k - l)
        BY <4>1
      <4>3. u[k] = C(i)
        BY <4>1, <4>2, Zenon
      <4>4. QED
        BY <4>3 DEF k
    <3>3. QED
      BY <3>1, <3>2
  <2>4. QED
    BY <2>1, <2>3
<1>10. u \in [0 .. l + n -> Views]
  <2>1. ASSUME NEW k \in 0 .. l + n
        PROVE  (IF k <= l THEN v[k] ELSE C(k - l)) \in Views
    <3>1. CASE k <= l
      BY <1>2, <1>3, <3>1
    <3>2. CASE ~(k <= l)
      <4>1. k - l \in 0 .. n
        BY <1>2, <3>2
      <4>2. QED
        BY <1>7, <3>2, <4>1
    <3>3. QED
      BY <3>1, <3>2
  <2>2. QED
    BY <2>1
<1> HIDE DEF u
<1>11. ASSUME NEW k \in 1 .. l + n
       PROVE  Makes(u[k - 1], p[k], u[k])
  <2>1. CASE k \in 1 .. l
    <3>1. k - 1 \in 0 .. l /\ k \in 0 .. l
      BY <1>2, <2>1
    <3>2. QED
      BY <1>2, <1>3, <1>9, <2>1, <3>1
  <2>2. CASE k \in l + 1 .. l + n
    <3> DEFINE i == k - l
    <3>1. i \in 1 .. n /\ i \in 0 .. n /\ i - 1 \in 0 .. n /\ l + i = k /\ l + (i - 1) = k - 1
      BY <1>2, <2>2
    <3> HIDE DEF i
    <3>2. u[l + i] = C(i) /\ u[l + (i - 1)] = C(i - 1) /\ p[l + i] = r[i]
      BY <1>2, <1>9, <3>1
    <3>3. Makes(C(i - 1), r[i], C(i))
      BY <1>8, <3>1
    <3>4. QED
      BY <3>1, <3>2, <3>3
  <2>3. QED
    BY <1>2, <2>1, <2>2
<1>12. Leads(p, u)
  BY <1>2, <1>10, <1>11 DEF Leads
<1>13. QED
  BY <1>2, <1>9, <1>12 DEF CarriesOn, l, p, r, C, last

-----------------------------------------------------------------------------
(* What the server's state says of the runtimes.                           *)

\* The session is past being a draft, and no runtime made by create can serve it again.
NeverCreated == phase \notin {"draft", "starting"} /\ current \notin created /\ held \notin created

\* The session is a draft still, or its first prompt is being prepared.
Early == phase \in {"draft", "starting"}

\* The last runtime that create made: the earlier ones failed to start.
Newest(g) == g \in created /\ \A h \in created : h <= g

Runtimes ==
  /\ \A g \in {current, held} : g \in created => Newest(g)
  /\ phase # "building" => held = NoRuntime
  /\ phase = "building" => current \notin created
  /\ phase \in {"draft", "starting"} => created = Launched /\ StartsAsDraft
  /\ ~StartsAsDraft => created = {1}
  /\ current \in created \/ held \in created =>
       \A g \in Generations : g \notin created => bus[g].seq = 0
  /\ drops \in Nat
  /\ StartsAsDraft => drops = MaxDrops

\* A position of generation t that no runtime of the session matches any more.
Stale(t) == NeverCreated /\ t <= launched /\ (t # NoTag => t # current /\ t # held)

\* What every step of the server preserves.
Onward ==
  /\ launched' >= launched
  /\ ~Early => ~Early' /\ created' = created
  /\ \A g \in {NoRuntime} \cup Launched : g \in created' <=> g \in created
  /\ \A g \in Launched : bus'[g].seq >= bus[g].seq
  /\ NeverCreated => NeverCreated'
  /\ \A t \in Tags : Stale(t) => Stale(t)'

LEMMA InitRuntimes == Gapless /\ Init => Runtimes
<1> SUFFICES ASSUME Gapless, Init PROVE Runtimes
  OBVIOUS
<1>1. /\ phase = IF StartsAsDraft THEN "draft" ELSE "live"
      /\ current = IF StartsAsDraft THEN NoRuntime ELSE 1
      /\ held = NoRuntime /\ launched = IF StartsAsDraft THEN 0 ELSE 1
      /\ created = IF StartsAsDraft THEN {} ELSE {1}
      /\ bus = [g \in Generations |-> EmptyBus]
      /\ drops = 0
  BY DEF Init, Begin
<1>2. \A g \in Generations : bus[g].seq = 0
  <2> HIDE DEF Generations
  <2>1. QED
    BY <1>1 DEF EmptyBus
<1>3. StartsAsDraft => created = Launched
  BY <1>1 DEF Launched
<1>4. StartsAsDraft => drops = MaxDrops
  BY <1>1 DEF Gapless
<1>5. \A g \in created : Newest(g)
  BY <1>1 DEF Newest
<1>6. QED
  BY <1>1, <1>2, <1>3, <1>4, <1>5 DEF Runtimes

LEMMA SameRuntimes ==
  ASSUME Runtimes, UNCHANGED <<server, drops>>
  PROVE  Runtimes'
BY DEF Runtimes, server, Launched, Newest

LEMMA SameOnward ==
  ASSUME TypeInv, UNCHANGED server
  PROVE  Onward
<1>1. launched \in Nat /\ \A g \in Launched : bus[g].seq \in Nat
  <2>1. launched \in Nat /\ Launched \subseteq Generations
    BY LaunchedIs DEF TypeInv
  <2>2. \A g \in Generations : bus[g].seq \in Nat
    BY Bounds DEF TypeInv, BusTypes, Stamps
  <2>3. QED
    BY <2>1, <2>2
<1>2. QED
  BY <1>1 DEF Onward, server, NeverCreated, Stale, Early

\* A step of the server that makes no runtime and leaves the buses alone.
LEMMA SettledOnward ==
  ASSUME TypeInv, UNCHANGED <<launched, created, bus>>,
         phase \notin {"draft", "starting"} => phase' \notin {"draft", "starting"},
         current' \in {current, held, NoRuntime}, held' \in {held, NoRuntime}
  PROVE  Onward
<1>1. launched \in Nat /\ \A g \in Launched : bus[g].seq \in Nat
  <2>1. launched \in Nat /\ Launched \subseteq Generations
    BY LaunchedIs DEF TypeInv
  <2>2. \A g \in Generations : bus[g].seq \in Nat
    BY Bounds DEF TypeInv, BusTypes, Stamps
  <2>3. QED
    BY <2>1, <2>2
<1>2. NoRuntime \notin created
  BY LaunchedIs DEF TypeInv, ServerTypes, NoRuntime
<1>3. NeverCreated => NeverCreated'
  BY <1>2 DEF NeverCreated
<1>4. \A t \in Tags : Stale(t) => Stale(t)'
  BY <1>3 DEF Stale, NoTag, NoRuntime
<1>5. QED
  BY <1>1, <1>3, <1>4 DEF Onward, Early

\* A bus moves on.
LEMMA BusOnward ==
  ASSUME TypeInv, UNCHANGED <<launched, created, current>>, current # NoRuntime,
         phase' \notin {"draft", "starting"} \/ phase' = phase,
         held' \in {held, NoRuntime},
         NEW b, b.seq \in Nat, b.seq >= bus[current].seq,
         bus' = [bus EXCEPT ![current] = b]
  PROVE  Onward
<1>1. launched \in Nat /\ Launched \subseteq Generations
  BY LaunchedIs DEF TypeInv
<1>2. \A g \in Generations : bus[g].seq \in Nat
  BY Bounds DEF TypeInv, BusTypes, Stamps
<1>3. bus \in [Generations -> Bus(Happenings)] /\ current \in Generations
  BY SomeRuntime DEF TypeInv, BusTypes
<1>4. \A g \in Launched : bus'[g].seq >= bus[g].seq
  <2> TAKE g \in Launched
  <2>1. CASE g = current
    BY <1>3, <2>1
  <2>2. CASE g # current
    <3>1. bus'[g] = bus[g] /\ bus[g].seq \in Nat
      BY <1>1, <1>2, <1>3, <2>2
    <3>2. QED
      BY <3>1
  <2>3. QED
    BY <2>1, <2>2
<1>5. NoRuntime \notin created
  BY LaunchedIs DEF TypeInv, ServerTypes, NoRuntime
<1>6. NeverCreated => NeverCreated'
  BY <1>5 DEF NeverCreated
<1>7. \A t \in Tags : Stale(t) => Stale(t)'
  BY <1>6 DEF Stale, NoTag, NoRuntime
<1>8. QED
  BY <1>1, <1>4, <1>6, <1>7 DEF Onward, Early

LEMMA EmitRuntimes ==
  ASSUME TypeInv, Runtimes, Emit
  PROVE  Runtimes' /\ Onward
<1>1. /\ current # NoRuntime /\ current \in Generations /\ bus[current].seq \in Nat
      /\ bus \in [Generations -> Bus(Happenings)]
  BY SomeRuntime, Bounds DEF Emit, TypeInv, ServerTypes, BusTypes, Stamps
<1> DEFINE b == AppendEvent(bus[current], <<current, bus[current].seq + 1>>)
<1>2. Holds(current, b) /\ b.seq = bus[current].seq + 1
  BY <1>1, AppendEventHolds DEF BusTypes, TypeInv
<1>3. /\ bus' = [bus EXCEPT ![current] = b]
      /\ UNCHANGED <<phase, current, held, launched, created, drops>>
      /\ phase \in {"starting", "live"}
  BY DEF Emit, bounds
<1> HIDE DEF b
<1>4. Onward
  <2>1. b.seq \in Nat /\ b.seq >= bus[current].seq
    BY <1>1, <1>2
  <2>2. /\ UNCHANGED <<launched, created, current>>
        /\ phase' \notin {"draft", "starting"} \/ phase' = phase
        /\ held' \in {held, NoRuntime}
    BY <1>3
  <2>3. bus' = [bus EXCEPT ![current] = b]
    BY <1>3
  <2>4. QED
    BY <1>1, <2>1, <2>2, <2>3, BusOnward
<1>5. held = NoRuntime /\ NoRuntime \notin created
  BY <1>3, LaunchedIs DEF Runtimes, TypeInv, ServerTypes, NoRuntime
<1>6. current \in created => \A g \in Generations : g \notin created => bus'[g].seq = 0
  BY <1>1, <1>3 DEF Runtimes
<1>7. Runtimes'
  BY <1>3, <1>5, <1>6 DEF Runtimes, Launched, Newest
<1>8. QED
  BY <1>4, <1>7

LEMMA FinishResumeRuntimes ==
  ASSUME TypeInv, Runtimes, FinishResume
  PROVE  Runtimes' /\ Onward /\ NeverCreated'
<1>1. /\ current # NoRuntime /\ current \in Generations /\ bus[current] = EmptyBus
      /\ bus \in [Generations -> Bus(Happenings)]
  BY SomeRuntime DEF FinishResume, TypeInv, ServerTypes, BusTypes
<1> DEFINE b == AppendAll(bus[current], NewEvents(current, HistoryEvents))
<1>2. b.seq = bus[current].seq + HistoryEvents /\ bus[current].seq = 0
  BY <1>1, AppendAllHolds, Bounds DEF BusTypes, TypeInv, NewEvents, EmptyBus
<1>3. /\ bus' = [bus EXCEPT ![current] = b]
      /\ UNCHANGED <<current, launched, created, drops>>
      /\ phase = "building" /\ phase' = "live" /\ held' = NoRuntime
  BY DEF FinishResume, bounds
<1> HIDE DEF b
<1>4. Onward
  <2>1. b.seq \in Nat /\ b.seq >= bus[current].seq
    BY <1>1, <1>2, Bounds
  <2>2. /\ UNCHANGED <<launched, created, current>>
        /\ phase' \notin {"draft", "starting"} \/ phase' = phase
        /\ held' \in {held, NoRuntime}
    BY <1>3
  <2>3. bus' = [bus EXCEPT ![current] = b]
    BY <1>3
  <2>4. QED
    BY <1>1, <2>1, <2>2, <2>3, BusOnward
<1>5. current \notin created /\ NoRuntime \notin created
  BY <1>3, LaunchedIs DEF Runtimes, TypeInv, ServerTypes, NoRuntime
<1>6. Runtimes'
  BY <1>3, <1>5 DEF Runtimes
<1>7. NeverCreated'
  BY <1>3, <1>5 DEF NeverCreated
<1>8. QED
  BY <1>4, <1>6, <1>7

LEMMA LaunchRuntimes ==
  ASSUME TypeInv, Runtimes, Launch
  PROVE  Runtimes' /\ Onward
<1>1. /\ launched \in Nat /\ Launched \subseteq Generations
      /\ \A g \in Generations : bus[g].seq \in Nat
  BY LaunchedIs, Bounds DEF TypeInv, BusTypes, Stamps
<1>2. /\ launched' = launched + 1 /\ current' = launched + 1 /\ held' = current
      /\ UNCHANGED <<created, bus, drops>>
      /\ phase \in {"parked", "absent"} /\ phase' = "building"
  BY DEF Launch, bounds
<1>3. launched + 1 \notin created /\ current <= launched /\ held <= launched
  BY <1>1 DEF TypeInv, ServerTypes, Launched, NoRuntime
<1>4. Runtimes'
  BY <1>2, <1>3 DEF Runtimes, Newest
<1>5. held = NoRuntime
  BY <1>2 DEF Runtimes
<1>6. NeverCreated => NeverCreated'
  BY <1>2, <1>3 DEF NeverCreated
<1>7. \A t \in Tags : Stale(t) => Stale(t)'
  <2> TAKE t \in Tags
  <2>1. t \in Nat
    BY Bounds DEF Tags, Generations, NoTag
  <2>2. t <= launched => t <= launched + 1 /\ t # launched + 1
    BY <1>1, <2>1
  <2>3. QED
    BY <1>2, <1>6, <2>2 DEF Stale
<1>8. Onward
  BY <1>1, <1>2, <1>6, <1>7 DEF Onward, Early
<1>9. QED
  BY <1>4, <1>8

LEMMA StartDraftRuntimes ==
  ASSUME TypeInv, Runtimes, StartDraft
  PROVE  Runtimes' /\ Onward
<1>1. /\ launched \in Nat /\ Launched \subseteq Generations /\ launched + 1 \in Generations
      /\ \A g \in Generations : bus[g].seq \in Nat
  BY LaunchedIs, Bounds DEF StartDraft, TypeInv, BusTypes, Stamps, Generations
<1>2. /\ launched' = launched + 1 /\ current' = launched + 1
      /\ UNCHANGED <<held, bus, drops>> /\ created' = created \cup {launched + 1}
      /\ phase = "draft" /\ phase' = "starting"
  BY DEF StartDraft, bounds
<1>3. created = Launched /\ StartsAsDraft /\ held = NoRuntime
  BY <1>2 DEF Runtimes
<1>4. created' = Launched'
  BY <1>1, <1>2, <1>3 DEF Launched
<1>5. \A g \in Generations : g \notin created' => bus'[g].seq = 0
  <2> TAKE g \in Generations
  <2>1. g \notin created' => g > launched
    BY <1>1, <1>2, <1>3 DEF Launched, Generations
  <2>2. g > launched => bus[g].seq = 0
    BY DEF TypeInv, BusTypes, EmptyBus
  <2>3. QED
    BY <1>2, <2>1, <2>2
<1>6. \A g \in {current', held'} : g \in created' => Newest(g)'
  <2>1. held' \notin created'
    BY <1>1, <1>2, <1>3 DEF Launched, NoRuntime
  <2>2. \A h \in created' : h <= launched + 1
    BY <1>1, <1>2, <1>3 DEF Launched
  <2>3. QED
    BY <1>2, <2>1, <2>2 DEF Newest
<1>7. Runtimes'
  BY <1>2, <1>3, <1>4, <1>5, <1>6 DEF Runtimes
<1>8. \A g \in {NoRuntime} \cup Launched : g # launched + 1
  BY <1>1 DEF Launched, NoRuntime
<1>9. ~NeverCreated
  BY <1>2 DEF NeverCreated
<1>10. Onward
  BY <1>1, <1>2, <1>8, <1>9 DEF Onward, Stale, Early
<1>11. QED
  BY <1>7, <1>10

LEMMA OtherRuntimes ==
  ASSUME TypeInv, Runtimes,
         Park \/ Exit \/ Destroy \/ FailResume \/ FinishStart \/ FailStart
  PROVE  Runtimes' /\ Onward
<1>1. /\ UNCHANGED <<launched, created, bus, drops>>
      /\ phase \notin {"draft", "starting"} => phase' \notin {"draft", "starting"}
      /\ current' \in {current, held, NoRuntime} /\ held' \in {held, NoRuntime}
      /\ phase' # "building"
      /\ phase' \in {"draft", "starting"} => phase = "starting"
  BY DEF Park, Exit, Destroy, FailResume, FinishStart, FailStart, bounds
<1>2. Onward
  BY <1>1, SettledOnward
<1>3. NoRuntime \notin created
  BY LaunchedIs DEF TypeInv, ServerTypes, NoRuntime
<1>4. held' = NoRuntime
  BY DEF Park, Exit, Destroy, FailResume, FinishStart, FailStart, Runtimes
<1>5. Runtimes'
  BY <1>1, <1>3, <1>4 DEF Runtimes, Launched, Newest
<1>6. QED
  BY <1>2, <1>5

LEMMA DropRuntimes ==
  ASSUME Runtimes, TypeInv, Drop
  PROVE  Runtimes' /\ Onward /\ ~StartsAsDraft
<1>1. UNCHANGED server /\ drops < MaxDrops /\ drops' = drops + 1
  BY DEF Drop
<1>2. ~StartsAsDraft
  BY <1>1 DEF Runtimes
<1>3. Onward
  BY <1>1, SameOnward
<1>4. Runtimes'
  BY <1>1, <1>2 DEF Runtimes, server, Launched, Newest
<1>5. QED
  BY <1>2, <1>3, <1>4

LEMMA RestartRuntimes ==
  ASSUME Runtimes, TypeInv, Restart
  PROVE  Runtimes' /\ Onward /\ ~StartsAsDraft /\ NeverCreated'
<1>1. /\ UNCHANGED <<launched, created, bus>> /\ drops < MaxDrops /\ drops' = drops + 1
      /\ current' = NoRuntime /\ held' = NoRuntime
      /\ phase' = IF phase = "draft" THEN "draft" ELSE "absent"
  BY DEF Restart
<1>2. ~StartsAsDraft
  BY <1>1 DEF Runtimes
<1>3. phase # "draft"
  BY <1>2 DEF Runtimes
<1>4. Onward
  BY <1>1, <1>3, SettledOnward
<1>5. NoRuntime \notin created
  BY LaunchedIs DEF TypeInv, ServerTypes, NoRuntime
<1>6. Runtimes'
  BY <1>1, <1>2, <1>3, <1>5 DEF Runtimes
<1>7. NeverCreated'
  BY <1>1, <1>3, <1>5 DEF NeverCreated
<1>8. QED
  BY <1>2, <1>4, <1>6, <1>7

LEMMA StepRuntimes ==
  ASSUME TypeInv, Runtimes, [Next]_vars
  PROVE  Runtimes' /\ Onward
<1>1. CASE RuntimeStep
  BY <1>1, EmitRuntimes, FinishResumeRuntimes, LaunchRuntimes, StartDraftRuntimes, OtherRuntimes
     DEF RuntimeStep
<1>2. CASE ServerStep \/ ClientStep \/ Activate \/ UNCHANGED vars
  <2>1. UNCHANGED <<server, drops>>
    BY <1>2 DEF ServerStep, ClientStep, OnHello, OnSubscribe, OnConnected, OnHelloOk, OnSnapshot,
                OnEvent, OnRebind, OnSubscribed, OnUnknownSession, RestReturns, Activate,
                vars, server, bounds
  <2>2. QED
    BY <2>1, SameRuntimes, SameOnward
<1>3. CASE Drop \/ Restart
  BY <1>3, DropRuntimes, RestartRuntimes
<1>4. QED
  BY <1>1, <1>2, <1>3 DEF Next

-----------------------------------------------------------------------------
(* What the renderer's store and the two queues say.                       *)

\* A view is of a runtime that was launched, under its tag, and not ahead of its bus.
IsTrue(w) ==
  w.gen # Adrift =>
    /\ w.gen \in {NoRuntime} \cup Launched
    /\ w.tag = Tag(w.gen)
    /\ w.upto <= IF w.gen = NoRuntime THEN 0 ELSE bus[w.gen].seq

\* The store shows w.
Shown(w) ==
  /\ w.gen = Adrift => streamGeneration = NoTag /\ ~settled /\ (StartsAsDraft \/ NeverCreated)
  /\ w.gen # Adrift => /\ transcript = EventsOf(w.gen, w.upto)
                       /\ lastSeq = w.upto /\ streamGeneration = w.tag

\* Once the wire is empty, a subscribed store shows all of its runtime's events.
Reached(w) == sub # NoRuntime /\ w.gen # Adrift => w.gen = sub /\ w.upto = bus[sub].seq

\* Past its beginnings, a draft's store shows of the runtimes without a tag the last one.
Based(w) ==
  StartsAsDraft /\ ~NeverCreated /\ ~Early /\ w.gen # Adrift /\ w.tag = NoTag /\ w.upto > 0 =>
    Newest(w.gen)

\* A position that no replay will be served from.
Old(from, t) == from = 0 \/ Stale(t)

OldRequests ==
  {m \in ClientMessages : IF m.type = "hello" THEN Old(captured.lastSeq, captured.tag)
                          ELSE Old(m.from, m.tag)}
Calm == {m \in ServerMessages : m.type = "hello_ok" => Old(captured.lastSeq, captured.tag)}

Harmless == toServer \in Seq(OldRequests) /\ toClient \in Seq(Calm)

\* The position on its way to the server is the store's, and nothing moves the store
\* before the answer.
Fresh(w) ==
  /\ sub = NoRuntime /\ w.gen # Adrift
  /\ StartsAsDraft => NeverCreated
  /\ \/ /\ toServer = <<Hello>> /\ toClient = <<>>
        /\ captured.lastSeq = w.upto /\ captured.tag = w.tag
     \/ /\ toServer = <<>> /\ toClient = <<[type |-> "hello_ok"]>>
        /\ captured.lastSeq = w.upto /\ captured.tag = w.tag
     \/ /\ Len(toServer) = 1 /\ toClient = <<>>
        /\ toServer[1].type = "subscribe"
        /\ toServer[1].from = w.upto /\ toServer[1].tag = w.tag

Following(v) ==
  /\ Leads(toClient, v)
  /\ \A k \in 0 .. Len(toClient) : IsTrue(v[k])
  /\ Shown(v[0])
  /\ Reached(v[Len(toClient)]) /\ Based(v[Len(toClient)])
  /\ Harmless \/ Fresh(v[0])

\* When the server may have sent a rebind, and reported the session unknown.
Allowed ==
  {m \in ServerMessages :
     /\ m.type = "session_rebind" => StartsAsDraft \/ NeverCreated
     /\ m.type = "error" => ~StartsAsDraft \/ NeverCreated}

\* The store a draft's renderer reconnects with claims nothing of a created runtime.
Reconnects ==
  /\ link # "up" => lastSeq = 0 \/ ~StartsAsDraft \/ NeverCreated
  /\ rest = "activate" => link = "off" /\ lastSeq = 0
  /\ rest = "recover" => ~StartsAsDraft \/ NeverCreated

InFlight ==
  /\ toClient \in Seq(Allowed)
  /\ Reconnects
  /\ \E v : Following(v)

\* Messages that neither move a position nor tell of the runtime's fate.
Payload == {m \in ServerMessages : m.type \in {"event", "snapshot", "ok"}}

\* Until the first prompt has started the session, a connection subscribes once, from
\* nothing, and no rebind is sent.
Opening ==
  Early => \/ toServer = <<>> /\ toClient \in Seq(Payload)
           \/ /\ sub = NoRuntime /\ lastSeq = 0
              /\ \/ toServer = <<>> /\ toClient = <<[type |-> "hello_ok"]>>
                 \/ Len(toServer) = 1 /\ toClient = <<>>

StreamInv == TypeInv /\ Runtimes /\ Opening /\ InFlight

LEMMA StillTrue ==
  ASSUME TypeInv, TypeInv', Onward, NEW w \in Views, IsTrue(w)
  PROVE  IsTrue(w)'
<1>1. /\ launched \in Nat /\ launched' \in Nat /\ Launched \subseteq Generations
      /\ \A g \in Generations : bus[g].seq \in Nat /\ bus'[g].seq \in Nat
  <2>1. launched \in Nat /\ Launched \subseteq Generations
    BY LaunchedIs DEF TypeInv
  <2>2. launched' \in Nat
    BY Bounds DEF TypeInv, ServerTypes
  <2>3. \A g \in Generations : bus[g].seq \in Nat
    BY Bounds DEF TypeInv, BusTypes, Stamps
  <2>4. \A g \in Generations : bus'[g].seq \in Nat
    BY Bounds DEF TypeInv, BusTypes, Stamps
  <2>5. QED
    BY <2>1, <2>2, <2>3, <2>4
<1>2. CASE w.gen = Adrift
  BY <1>2 DEF IsTrue
<1>3. CASE w.gen # Adrift
  <2>1. /\ w.gen \in {NoRuntime} \cup Launched /\ w.tag = Tag(w.gen) /\ w.upto \in Nat
        /\ w.upto <= IF w.gen = NoRuntime THEN 0 ELSE bus[w.gen].seq
    BY <1>3 DEF IsTrue, Views
  <2>2. w.gen \in {NoRuntime} \cup Launched'
    BY <1>1, <2>1 DEF Onward, Launched
  <2>3. w.tag = Tag(w.gen)'
    BY <2>1 DEF Onward, Tag
  <2>4. w.gen \in Launched => bus'[w.gen].seq >= bus[w.gen].seq
    BY DEF Onward
  <2>5. CASE w.gen = NoRuntime
    BY <2>1, <2>2, <2>3, <2>5 DEF IsTrue
  <2>6. CASE w.gen # NoRuntime
    <3>1. w.gen \in Generations /\ w.gen \in Launched
      BY <1>1, <2>1, <2>6
    <3>2. bus[w.gen].seq \in Nat /\ bus'[w.gen].seq \in Nat
      BY <1>1, <3>1
    <3>3. w.upto <= bus'[w.gen].seq
      BY <2>1, <2>4, <2>6, <3>1, <3>2
    <3>4. QED
      BY <2>2, <2>3, <2>6, <3>3 DEF IsTrue
  <2>7. QED
    BY <2>5, <2>6
<1>4. QED
  BY <1>2, <1>3

LEMMA StillOld ==
  ASSUME TypeInv, Onward, captured' = captured
  PROVE  /\ OldRequests \subseteq OldRequests'
         /\ Calm \subseteq Calm'
         /\ Allowed \subseteq Allowed'
<1>1. \A f : \A t \in Tags : Old(f, t) => Old(f, t)'
  BY DEF Onward, Old
<1>2. captured.tag \in Tags
  BY DEF TypeInv, ClientTypes
<1>3. Old(captured.lastSeq, captured.tag) => Old(captured.lastSeq, captured.tag)'
  BY <1>1, <1>2 DEF Old, Stale, Onward
<1>4. OldRequests \subseteq OldRequests'
  <2> SUFFICES ASSUME NEW m \in OldRequests PROVE m \in OldRequests'
    OBVIOUS
  <2>1. m \in ClientMessages
    BY DEF OldRequests
  <2>2. CASE m.type = "hello"
    BY <1>3, <2>1, <2>2 DEF OldRequests
  <2>3. CASE m.type # "hello"
    <3>1. m.tag \in Tags /\ Old(m.from, m.tag)
      BY <2>1, <2>3, RequestTypes DEF OldRequests
    <3>2. Old(m.from, m.tag)'
      BY <1>1, <3>1
    <3>3. QED
      BY <2>1, <2>3, <3>2 DEF OldRequests
  <2>4. QED
    BY <2>2, <2>3
<1>5. Calm \subseteq Calm'
  BY <1>3 DEF Calm
<1>6. Allowed \subseteq Allowed'
  BY DEF Allowed, Onward
<1>7. QED
  BY <1>4, <1>5, <1>6

LEMMA StillShown ==
  ASSUME Onward, UNCHANGED <<store, settled>>, NEW w, Shown(w)
  PROVE  Shown(w)'
BY DEF Onward, Shown, store

LEMMA ViewsOf ==
  ASSUME TypeInv, NEW v, Following(v)
  PROVE  /\ Len(toClient) \in Nat
         /\ \A k \in 0 .. Len(toClient) : v[k] \in Views /\ IsTrue(v[k])
         /\ v[0] \in Views /\ IsTrue(v[0])
         /\ v[Len(toClient)] \in Views /\ IsTrue(v[Len(toClient)])
<1>1. Len(toClient) \in Nat
  BY DEF TypeInv, ConnectionTypes
<1>2. v \in [0 .. Len(toClient) -> Views] /\ \A k \in 0 .. Len(toClient) : IsTrue(v[k])
  BY DEF Following, Leads
<1>3. 0 \in 0 .. Len(toClient) /\ Len(toClient) \in 0 .. Len(toClient)
  BY <1>1
<1>4. QED
  BY <1>1, <1>2, <1>3

\* A store that is not connected shows nothing of a runtime that serves without a tag.
LEMMA BasedDown ==
  ASSUME Reconnects', link' # "up", NEW w, Shown(w)'
  PROVE  Based(w)'
BY DEF Reconnects, Shown, Based

\* The current runtime is the last one made by create, or has a tag.
LEMMA BasedHere ==
  ASSUME Runtimes', NEW w \in Views, w.gen = current', IsTrue(w)'
  PROVE  Based(w)'
<1>1. CASE current' \in created'
  BY <1>1 DEF Runtimes, Based
<1>2. CASE current' \notin created' /\ w.gen # Adrift
  <2>1. w.tag = w.gen /\ (w.gen = NoRuntime => w.upto <= 0) /\ w.upto \in Nat
    BY <1>2 DEF IsTrue, Tag, Views
  <2>2. QED
    BY <2>1 DEF Based, NoTag, NoRuntime
<1>3. QED
  BY <1>1, <1>2 DEF Based

LEMMA BasedStays ==
  ASSUME Onward, Early => Early', NEW w, Based(w)
  PROVE  Based(w)'
BY DEF Onward, Based, Newest

\* A step that leaves the connection, the store and the client's subscription alone.
LEMMA QuietFollowing ==
  ASSUME TypeInv, TypeInv', Onward, UNCHANGED <<connection, store, settled, captured>>,
         sub # NoRuntime => bus'[sub].seq = bus[sub].seq,
         NEW v, Following(v), Based(v[Len(toClient)])'
  PROVE  Following(v)'
<1>1. toClient' = toClient /\ toServer' = toServer /\ sub' = sub
  BY DEF connection
<1>2. Leads(toClient', v)
  BY <1>1 DEF Following
<1>3. \A k \in 0 .. Len(toClient') : IsTrue(v[k])'
  BY <1>1, ViewsOf, StillTrue
<1>4. Shown(v[0])'
  BY StillShown DEF Following
<1>5. Reached(v[Len(toClient)])'
  <2>1. Reached(v[Len(toClient)])
    BY DEF Following
  <2>2. QED
    BY <1>1, <2>1 DEF Reached
<1>6. CASE Harmless
  <2>1. Harmless'
    BY <1>1, <1>6, StillOld, SeqMonotonic DEF Harmless
  <2>2. QED
    BY <1>2, <1>3, <1>4, <1>5, <2>1 DEF Following
<1>7. CASE Fresh(v[0])
  <2>1. Fresh(v[0])'
    BY <1>1, <1>7 DEF Fresh, Onward
  <2>2. QED
    BY <1>2, <1>3, <1>4, <1>5, <2>1 DEF Following
<1>8. QED
  BY <1>6, <1>7 DEF Following

LEMMA SameReconnects ==
  ASSUME Reconnects, Onward, UNCHANGED <<link, lastSeq, rest>>
  PROVE  Reconnects'
BY DEF Reconnects, Onward

LEMMA QuietInFlight ==
  ASSUME TypeInv, TypeInv', InFlight, Onward, bus' = bus,
         UNCHANGED <<connection, store, settled, captured, rest>>,
         (Early => Early') \/ link # "up"
  PROVE  InFlight'
<1>1. toClient' \in Seq(Allowed')
  BY StillOld, SeqMonotonic DEF InFlight, connection
<1>2. Reconnects'
  BY SameReconnects DEF InFlight, connection, store
<1>3. PICK v : Following(v)
  BY DEF InFlight
<1>4. Based(v[Len(toClient)])'
  <2>1. CASE Early => Early'
    <3>1. Based(v[Len(toClient)])
      BY <1>3 DEF Following
    <3>2. PICK w : w = v[Len(toClient)]
      OBVIOUS
    <3>3. Based(w)'
      BY <2>1, <3>1, <3>2, BasedStays
    <3>4. v[Len(toClient')] = w
      BY <3>2 DEF connection
    <3>5. QED
      BY <3>3, <3>4
  <2>2. CASE link # "up"
    <3>1. link' # "up" /\ toClient' = <<>>
      BY <2>2 DEF connection, TypeInv, ConnectionTypes
    <3>2. PICK w : w = v[0]
      OBVIOUS
    <3>3. Shown(w)'
      BY <1>3, <3>2, StillShown DEF Following
    <3>4. Based(w)'
      BY <1>2, <3>1, <3>3, BasedDown
    <3>5. v[Len(toClient')] = w
      BY <3>1, <3>2
    <3>6. QED
      BY <3>4, <3>5
  <2>3. QED
    BY <2>1, <2>2
<1>5. Following(v)'
  BY <1>3, <1>4, QuietFollowing
<1>6. QED
  BY <1>1, <1>2, <1>5 DEF InFlight

LEMMA QuietStepInFlight ==
  ASSUME TypeInv, TypeInv', InFlight, Onward,
         Park \/ Exit \/ Destroy \/ Launch \/ StartDraft \/ FailStart
  PROVE  InFlight'
<1>1. /\ bus' = bus /\ UNCHANGED <<connection, store, settled, captured, rest>>
      /\ Early => Early'
  BY DEF Park, Exit, Destroy, Launch, StartDraft, FailStart, client, Early
<1>2. QED
  BY <1>1, QuietInFlight

LEMMA StutterInFlight ==
  ASSUME TypeInv, TypeInv', InFlight, Onward, UNCHANGED vars
  PROVE  InFlight'
<1>1. /\ bus' = bus /\ UNCHANGED <<connection, store, settled, captured, rest>>
      /\ Early => Early'
  BY DEF vars, connection, store, Early
<1>2. QED
  BY <1>1, QuietInFlight

\* The queues are gone with the connection; the store keeps a view.
LEMMA LostInFlight ==
  ASSUME TypeInv, TypeInv', InFlight, Onward, Disconnected, Reconnects', link' # "up",
         store' = store \/ ResetTranscript
  PROVE  InFlight'
<1>1. toClient' = <<>> /\ toServer' = <<>> /\ sub' = NoRuntime /\ settled' = FALSE
  BY DEF Disconnected
<1>2. PICK v : Following(v)
  BY DEF InFlight
<1>3. v[0] \in Views /\ IsTrue(v[0]) /\ Shown(v[0])
  BY <1>2, ViewsOf DEF Following
<1> DEFINE blank == [gen |-> NoRuntime, upto |-> 0, tag |-> NoTag]
<1>4. blank \in Views /\ blank.gen = NoRuntime /\ blank.upto = 0 /\ blank.tag = NoTag
  BY DEF Views, Tags
<1> HIDE DEF blank
<1>5. \E w \in Views : IsTrue(w)' /\ Shown(w)'
  <2>1. CASE store' = store
    <3>1. IsTrue(v[0])'
      BY <1>3, StillTrue
    <3>2. Shown(v[0])'
      BY <1>1, <1>3, <2>1 DEF Shown, store, Onward
    <3>3. QED
      BY <1>3, <3>1, <3>2
  <2>2. CASE ResetTranscript
    <3>1. NoRuntime # Adrift
      BY DEF NoRuntime, Adrift
    <3>2. IsTrue(blank)'
      <4>1. Tag(NoRuntime)' = NoTag
        BY DEF Tag, NoTag, NoRuntime
      <4>2. 0 <= 0
        OBVIOUS
      <4>3. QED
        BY <1>4, <4>1, <4>2 DEF IsTrue
    <3>3. EventsOf(NoRuntime, 0) = <<>>
      BY DEF EventsOf
    <3>4. Shown(blank)'
      BY <1>4, <2>2, <3>1, <3>3 DEF Shown, ResetTranscript, Empty
    <3>5. QED
      BY <1>4, <3>2, <3>4
  <2>3. QED
    BY <2>1, <2>2
<1>6. PICK w \in Views : IsTrue(w)' /\ Shown(w)'
  BY <1>5
<1>7. PICK u : Leads(<<>>, u) /\ u[0] = w
  BY LeadsNowhere
<1>8. Following(u)'
  <2>1. Leads(toClient', u)
    BY <1>1, <1>7
  <2>2. Len(toClient') = 0
    BY <1>1
  <2>3. \A k \in 0 .. Len(toClient') : IsTrue(u[k])'
    BY <1>6, <1>7, <2>2
  <2>4. Shown(u[0])'
    BY <1>6, <1>7
  <2>5. Reached(u[Len(toClient)])' /\ Based(u[Len(toClient)])'
    <3>1. Based(w)'
      BY <1>6, BasedDown
    <3>2. QED
      BY <1>1, <1>7, <2>2, <3>1 DEF Reached
  <2>6. Harmless'
    <3>1. \A S : <<>> \in Seq(S)
      OBVIOUS
    <3>2. QED
      BY <1>1, <3>1 DEF Harmless
  <2>7. QED
    BY <2>1, <2>3, <2>4, <2>5, <2>6 DEF Following
<1>9. toClient' \in Seq(Allowed')
  BY <1>1
<1>10. QED
  BY <1>8, <1>9 DEF InFlight

LEMMA FailResumeInFlight ==
  ASSUME TypeInv, TypeInv', InFlight, Onward, FailResume
  PROVE  InFlight'
<1>1. bus' = bus /\ store' = store /\ captured' = captured
  BY DEF FailResume
<1>2. CASE UNCHANGED <<connection, settled, rest>>
  <2>1. ~Early
    BY DEF FailResume, Early
  <2>2. QED
    BY <1>1, <1>2, <2>1, QuietInFlight
<1>3. CASE rest # "none" /\ rest' = "none" /\ link' = "off" /\ Disconnected
  <2>1. lastSeq = 0 \/ ~StartsAsDraft \/ NeverCreated
    BY <1>3 DEF InFlight, Reconnects, TypeInv, ClientTypes
  <2>2. Reconnects'
    BY <1>1, <1>3, <2>1 DEF Reconnects, Onward, store
  <2>3. QED
    BY <1>1, <1>3, <2>2, LostInFlight
<1>4. QED
  BY <1>2, <1>3 DEF FailResume

LEMMA RestReturnsInFlight ==
  ASSUME TypeInv, TypeInv', InFlight, Onward, RestReturns
  PROVE  InFlight'
<1>1. lastSeq = 0 \/ ~StartsAsDraft \/ NeverCreated
  BY DEF RestReturns, InFlight, Reconnects, TypeInv, ClientTypes
<1>2. Reconnects'
  BY <1>1 DEF RestReturns, Reconnects, Onward, store
<1>3. QED
  BY <1>2, LostInFlight DEF RestReturns

LEMMA ActivateInFlight ==
  ASSUME TypeInv, TypeInv', InFlight, Onward, Activate
  PROVE  InFlight'
<1>1. Reconnects'
  BY DEF Activate, ResetTranscript, Reconnects
<1>2. QED
  BY <1>1, LostInFlight DEF Activate

LEMMA DropInFlight ==
  ASSUME TypeInv, TypeInv', Runtimes, InFlight, Onward, Drop \/ Restart
  PROVE  InFlight'
<1>1. ~StartsAsDraft
  BY DropRuntimes, RestartRuntimes
<1>2. Disconnected /\ store' = store
  BY DEF Drop, Restart
<1>3. lastSeq' = 0 \/ rest' # "activate"
  BY DEF Drop, Restart, InFlight, Reconnects, store
<1>4. rest' = "activate" => link' = "off"
  BY DEF Drop, Restart, InFlight, Reconnects
<1>5. Reconnects'
  BY <1>1, <1>3, <1>4 DEF Reconnects
<1>6. link' # "up"
  BY DEF Drop, Restart
<1>7. QED
  BY <1>2, <1>5, <1>6, LostInFlight

\* A handled message: the store was at the first view, and the views that are left
\* begin with the one the message makes.
LEMMA Handled ==
  ASSUME TypeInv, TypeInv', Onward, NEW v, Following(v), toClient # <<>>,
         UNCHANGED <<server, sub>>, toClient' = Tail(toClient)
  PROVE  /\ Makes(v[0], Head(toClient), v[1])
         /\ v[0] \in Views /\ v[1] \in Views /\ IsTrue(v[1])'
         /\ \E u : /\ Leads(toClient', u) /\ u[0] = v[1]
                   /\ \A k \in 0 .. Len(toClient') : IsTrue(u[k])'
                   /\ Reached(u[Len(toClient)])' /\ Based(u[Len(toClient)])'
<1> DEFINE n == Len(toClient)
<1>1. toClient \in Seq(ServerMessages) /\ n \in Nat /\ n >= 1 /\ Len(toClient') = n - 1
  <2>1. toClient \in Seq(ServerMessages)
    BY DEF TypeInv, ConnectionTypes
  <2>2. Len(toClient') = n - 1
    BY <2>1, HeadTailProperties
  <2>3. QED
    BY <2>1, <2>2
<1>2. Leads(toClient, v) /\ \A k \in 0 .. n : v[k] \in Views /\ IsTrue(v[k])
  BY ViewsOf DEF Following
<1>3. PICK u : Leads(toClient', u) /\ \A k \in 0 .. Len(toClient') : u[k] = v[k + 1]
  BY <1>1, <1>2, LeadsTail
<1>4. Makes(v[0], Head(toClient), v[1]) /\ v[0] \in Views /\ v[1] \in Views
  BY <1>1, <1>2, LeadsTail
<1> HIDE DEF n
<1>5. u[0] = v[1] /\ u[n - 1] = v[n]
  <2>1. 0 \in 0 .. Len(toClient') /\ n - 1 \in 0 .. Len(toClient') /\ n - 1 + 1 = n /\ 0 + 1 = 1
    BY <1>1
  <2>2. u[0] = v[0 + 1] /\ u[n - 1] = v[n - 1 + 1]
    BY <1>3, <2>1
  <2>3. QED
    BY <2>1, <2>2
<1>6. ASSUME NEW k \in 0 .. Len(toClient')
      PROVE  IsTrue(u[k])'
  <2>1. k + 1 \in 0 .. n /\ u[k] = v[k + 1]
    BY <1>1, <1>3
  <2>2. v[k + 1] \in Views /\ IsTrue(v[k + 1])
    BY <1>2, <2>1
  <2>3. QED
    BY <2>1, <2>2, StillTrue
<1>7. IsTrue(v[1])'
  <2>1. 0 \in 0 .. Len(toClient')
    BY <1>1
  <2>2. QED
    BY <1>5, <1>6, <2>1
<1>8. Reached(u[Len(toClient)])'
  <2>1. Reached(v[n])
    BY DEF Following, n
  <2>2. u[Len(toClient')] = v[n]
    BY <1>1, <1>5
  <2>3. bus' = bus /\ sub' = sub
    BY DEF server
  <2>4. QED
    BY <2>1, <2>2, <2>3 DEF Reached
<1>9. Based(u[Len(toClient)])'
  <2>1. PICK w : w = v[n]
    OBVIOUS
  <2>2. Based(w) /\ (Early => Early')
    BY <2>1 DEF Following, n, server, Early
  <2>3. Based(w)'
    BY <2>2, BasedStays
  <2>4. u[Len(toClient')] = w
    BY <1>1, <1>5, <2>1
  <2>5. QED
    BY <2>3, <2>4
<1>10. QED
  BY <1>3, <1>4, <1>5, <1>6, <1>7, <1>8, <1>9

\* While a message other than hello_ok is on the wire, no fresh position is.
LEMMA NotFresh ==
  ASSUME NEW w, Fresh(w), toClient # <<>>
  PROVE  /\ toClient = <<[type |-> "hello_ok"]>> /\ toServer = <<>>
         /\ captured.lastSeq = w.upto /\ captured.tag = w.tag
         /\ Head(toClient).type = "hello_ok" /\ Tail(toClient) = <<>>
<1>1. /\ toClient = <<[type |-> "hello_ok"]>> /\ toServer = <<>>
      /\ captured.lastSeq = w.upto /\ captured.tag = w.tag
  BY DEF Fresh
<1>2. QED
  BY <1>1

LEMMA HandledHarmless ==
  ASSUME TypeInv, Onward, NEW v, Following(v), toClient # <<>>,
         Head(toClient).type # "hello_ok", captured' = captured,
         toClient' = Tail(toClient), toServer' = toServer
  PROVE  Harmless'
<1>1. Harmless
  BY NotFresh DEF Following
<1>2. Tail(toClient) \in Seq(Calm)
  BY <1>1, HeadTailProperties DEF Harmless
<1>3. QED
  BY <1>1, <1>2, StillOld, SeqMonotonic DEF Harmless

LEMMA HandledAllowed ==
  ASSUME TypeInv, InFlight, Onward, toClient # <<>>, captured' = captured,
         toClient' = Tail(toClient)
  PROVE  toClient' \in Seq(Allowed') /\ Head(toClient) \in Allowed
<1>1. Tail(toClient) \in Seq(Allowed) /\ Head(toClient) \in Allowed
  BY HeadTailProperties DEF InFlight
<1>2. QED
  BY <1>1, StillOld, SeqMonotonic

LEMMA EventsGrow ==
  ASSUME NEW g, NEW n \in Nat
  PROVE  EventsOf(g, n + 1) = Append(EventsOf(g, n), <<g, n + 1>>)
<1> DEFINE s == EventsOf(g, n)
           t == EventsOf(g, n + 1)
           e == <<g, n + 1>>
           S == {<<g, i>> : i \in Nat}
<1>1. s = [i \in 1 .. n |-> <<g, i>>] /\ t = [i \in 1 .. n + 1 |-> <<g, i>>]
  BY DEF EventsOf
<1>2. \A i \in 1 .. n + 1 : <<g, i>> \in S
  OBVIOUS
<1>3. e \in S
  OBVIOUS
<1>4. s \in Seq(S) /\ Len(s) = n
  BY <1>1, <1>2
<1>5. t \in Seq(S) /\ Len(t) = n + 1
  BY <1>1, <1>2
<1>6. /\ \A i \in 1 .. n : t[i] = s[i]
      /\ t[n + 1] = e
  BY <1>1
<1> HIDE DEF s, t, e, S
<1>7. /\ Append(s, e) \in Seq(S) /\ Len(Append(s, e)) = n + 1
      /\ \A i \in 1 .. n : Append(s, e)[i] = s[i]
      /\ Append(s, e)[n + 1] = e
  BY <1>3, <1>4, AppendProperties
<1>8. \A i \in 1 .. n + 1 : t[i] = Append(s, e)[i]
  BY <1>6, <1>7
<1>9. t = Append(s, e)
  BY <1>5, <1>7, <1>8, SeqEqual
<1>10. QED
  BY <1>9 DEF s, t, e

LEMMA OnHelloOkInFlight ==
  ASSUME TypeInv, TypeInv', InFlight, Onward, OnHelloOk
  PROVE  InFlight'
<1> DEFINE new == Subscribe(captured.lastSeq, captured.tag, "connect", 0)
<1>1. /\ toClient # <<>> /\ Head(toClient).type = "hello_ok" /\ toClient' = Tail(toClient)
      /\ toServer' = Append(toServer, new)
      /\ UNCHANGED <<server, sub, link, store, captured, settled, rest>>
  BY DEF OnHelloOk, Receive, client
<1>2. new \in ClientMessages /\ new.type = "subscribe"
      /\ new.from = captured.lastSeq /\ new.tag = captured.tag
  BY Requests DEF Subscribe, TypeInv, ClientTypes, Ways
<1> HIDE DEF new
<1>3. PICK v : Following(v)
  BY DEF InFlight
<1>4. /\ Makes(v[0], Head(toClient), v[1])
      /\ \E u : /\ Leads(toClient', u) /\ u[0] = v[1]
                /\ \A k \in 0 .. Len(toClient') : IsTrue(u[k])'
                /\ Reached(u[Len(toClient)])' /\ Based(u[Len(toClient)])'
  BY <1>1, <1>3, Handled
<1>5. v[1] = v[0]
  BY <1>1, <1>4 DEF Makes
<1>6. Shown(v[1])'
  BY <1>1, <1>3, <1>5, StillShown DEF Following
<1>7. Harmless' \/ Fresh(v[1])'
  <2>1. CASE Harmless
    <3>1. Head(toClient) \in Calm /\ Tail(toClient) \in Seq(Calm)
      BY <1>1, <2>1, HeadTailProperties DEF Harmless
    <3>2. Old(captured.lastSeq, captured.tag)
      BY <1>1, <3>1 DEF Calm
    <3>3. new \in OldRequests
      BY <1>2, <3>2 DEF OldRequests
    <3>4. Append(toServer, new) \in Seq(OldRequests)
      BY <2>1, <3>3 DEF Harmless
    <3>5. QED
      BY <1>1, <3>1, <3>4, StillOld, SeqMonotonic DEF Harmless
  <2>2. CASE Fresh(v[0])
    <3>1. /\ toServer = <<>> /\ Tail(toClient) = <<>>
          /\ captured.lastSeq = v[0].upto /\ captured.tag = v[0].tag
      BY <1>1, <2>2, NotFresh
    <3>2. toServer' = <<new>> /\ toClient' = <<>>
      BY <1>1, <3>1
    <3>3. Len(toServer') = 1 /\ toServer'[1] = new
      BY <3>2
    <3>4. sub' = NoRuntime /\ v[0].gen # Adrift /\ (StartsAsDraft => NeverCreated')
      BY <1>1, <2>2 DEF Fresh, Onward
    <3>5. Fresh(v[0])'
      BY <1>2, <3>1, <3>2, <3>3, <3>4 DEF Fresh
    <3>6. QED
      BY <1>5, <3>5
  <2>3. QED
    BY <1>3, <2>1, <2>2 DEF Following
<1>8. \E u : Following(u)'
  BY <1>4, <1>6, <1>7 DEF Following
<1>9. Reconnects'
  BY <1>1, SameReconnects DEF InFlight, store
<1>10. QED
  BY <1>1, <1>8, <1>9, HandledAllowed DEF InFlight

\* The other messages: the store moves to the next view, no fresh position is sent.
LEMMA HandledInFlight ==
  ASSUME TypeInv, TypeInv', InFlight, Onward, toClient # <<>>,
         Head(toClient).type # "hello_ok", toClient' = Tail(toClient),
         UNCHANGED <<server, sub, captured>>, Harmless', Reconnects',
         \A w, x \in Views : /\ Shown(w) /\ IsTrue(x)' /\ Makes(w, Head(toClient), x)
                             => Shown(x)'
  PROVE  InFlight'
<1>1. PICK v : Following(v)
  BY DEF InFlight
<1>2. /\ Makes(v[0], Head(toClient), v[1])
      /\ v[0] \in Views /\ v[1] \in Views /\ IsTrue(v[1])'
      /\ \E u : /\ Leads(toClient', u) /\ u[0] = v[1]
                /\ \A k \in 0 .. Len(toClient') : IsTrue(u[k])'
                /\ Reached(u[Len(toClient)])' /\ Based(u[Len(toClient)])'
  BY <1>1, Handled
<1>3. Shown(v[0])
  BY <1>1 DEF Following
<1>4. Shown(v[1])'
  BY <1>2, <1>3
<1>5. \E u : Following(u)'
  BY <1>2, <1>4 DEF Following
<1>6. QED
  BY <1>5, HandledAllowed DEF InFlight

LEMMA OnSnapshotInFlight ==
  ASSUME TypeInv, TypeInv', InFlight, Onward, OnSnapshot
  PROVE  InFlight'
<1>1. /\ toClient # <<>> /\ Head(toClient).type = "snapshot" /\ toClient' = Tail(toClient)
      /\ UNCHANGED <<server, sub, link, toServer, captured, settled, rest>>
      /\ transcript' = Head(toClient).state /\ lastSeq' = Head(toClient).stamp
      /\ streamGeneration' = Head(toClient).tag
  BY DEF OnSnapshot, Receive, client
<1>2. Harmless'
  BY <1>1, HandledHarmless DEF InFlight
<1>3. link = "up"
  BY <1>1, TakeMessage DEF TypeInv
<1>4. Reconnects'
  BY <1>1, <1>3 DEF Reconnects, InFlight, Onward
<1>5. ASSUME NEW w \in Views, NEW x \in Views, Makes(w, Head(toClient), x)
      PROVE  Shown(x)'
  BY <1>1, <1>5 DEF Makes, Shown
<1>6. QED
  BY <1>1, <1>2, <1>4, <1>5, HandledInFlight

LEMMA OnEventInFlight ==
  ASSUME TypeInv, TypeInv', InFlight, Onward, OnEvent
  PROVE  InFlight'
<1>1. /\ toClient # <<>> /\ Head(toClient).type = "event" /\ toClient' = Tail(toClient)
      /\ UNCHANGED <<server, sub, link, toServer, captured, settled, rest, streamGeneration>>
      /\ ApplyEvent(Head(toClient))
  BY DEF OnEvent, Receive, client
<1>2. Harmless'
  BY <1>1, HandledHarmless DEF InFlight
<1>3. link = "up"
  BY <1>1, TakeMessage DEF TypeInv
<1>4. Reconnects'
  BY <1>1, <1>3 DEF Reconnects, InFlight, Onward
<1>5. ASSUME NEW w \in Views, NEW x \in Views, Shown(w), Makes(w, Head(toClient), x)
      PROVE  Shown(x)'
  <2>1. CASE w.gen = Adrift
    <3>1. x.gen = Adrift
      BY <1>1, <1>5, <2>1 DEF Makes
    <3>2. streamGeneration = NoTag /\ ~settled /\ (StartsAsDraft \/ NeverCreated)
      BY <1>5, <2>1 DEF Shown
    <3>3. QED
      BY <1>1, <3>1, <3>2 DEF Shown, Onward
  <2>2. CASE w.gen # Adrift
    <3>1. /\ Head(toClient).event = <<w.gen, w.upto + 1>> /\ Head(toClient).stamp = w.upto + 1
          /\ x = [gen |-> w.gen, upto |-> w.upto + 1, tag |-> w.tag]
      BY <1>1, <1>5, <2>2 DEF Makes
    <3>2. transcript = EventsOf(w.gen, w.upto) /\ lastSeq = w.upto /\ streamGeneration = w.tag
      BY <1>5, <2>2 DEF Shown
    <3>3. w.upto \in Nat
      BY DEF Views
    <3>4. ~(Head(toClient).stamp <= lastSeq)
      BY <3>1, <3>2, <3>3
    <3>5. transcript' = Append(transcript, Head(toClient).event) /\ lastSeq' = Head(toClient).stamp
      BY <1>1, <3>4 DEF ApplyEvent
    <3>6. transcript' = EventsOf(w.gen, w.upto + 1)
      BY <3>1, <3>2, <3>3, <3>5, EventsGrow
    <3>7. x.gen = w.gen /\ x.upto = w.upto + 1 /\ x.tag = w.tag
      BY <3>1
    <3>8. QED
      BY <1>1, <2>2, <3>1, <3>2, <3>5, <3>6, <3>7 DEF Shown
  <2>3. QED
    BY <2>1, <2>2
<1>6. QED
  BY <1>1, <1>2, <1>4, <1>5, HandledInFlight

LEMMA OnRebindInFlight ==
  ASSUME TypeInv, TypeInv', InFlight, Onward, OnRebind
  PROVE  InFlight'
<1> DEFINE new == Subscribe(0, NoTag, "resubscribe", epoch + 1)
<1>1. /\ toClient # <<>> /\ Head(toClient).type = "session_rebind" /\ toClient' = Tail(toClient)
      /\ UNCHANGED <<server, sub, link, captured, rest>>
      /\ ResetTranscript /\ settled' = FALSE /\ toServer' = Append(toServer, new)
  BY DEF OnRebind, Receive, Resubscribe
<1>2. new \in OldRequests
  <2>1. 0 \in Stamps /\ NoTag \in Tags /\ epoch + 1 \in Nat
    BY Bounds DEF Stamps, Tags, TypeInv, ClientTypes
  <2>2. new \in ClientMessages
    BY <2>1, Requests DEF Ways
  <2>3. new.type = "subscribe" /\ new.from = 0
    BY DEF Subscribe
  <2> HIDE DEF new
  <2>4. QED
    BY <2>2, <2>3 DEF OldRequests, Old
<1> HIDE DEF new
<1>3. Harmless'
  <2>1. Harmless
    BY <1>1, NotFresh DEF InFlight, Following
  <2>2. Append(toServer, new) \in Seq(OldRequests) /\ Tail(toClient) \in Seq(Calm)
    BY <1>1, <1>2, <2>1, HeadTailProperties DEF Harmless
  <2>3. QED
    BY <1>1, <2>2, StillOld, SeqMonotonic DEF Harmless
<1>4. Reconnects'
  BY <1>1 DEF Reconnects, InFlight, Onward, ResetTranscript
<1>5. StartsAsDraft \/ NeverCreated'
  <2>1. Head(toClient) \in Allowed
    BY <1>1, HandledAllowed
  <2>2. QED
    BY <1>1, <2>1 DEF Allowed, Onward
<1>6. ASSUME NEW w \in Views, NEW x \in Views, Makes(w, Head(toClient), x)
      PROVE  Shown(x)'
  BY <1>1, <1>5, <1>6 DEF Makes, Shown, ResetTranscript
<1>7. QED
  BY <1>1, <1>3, <1>4, <1>6, HandledInFlight

LEMMA OnSubscribedInFlight ==
  ASSUME TypeInv, TypeInv', InFlight, Onward, OnSubscribed
  PROVE  InFlight'
<1>1. /\ toClient # <<>> /\ Head(toClient).type = "ok" /\ toClient' = Tail(toClient)
      /\ UNCHANGED <<server, sub, link, toServer, captured, rest>> /\ store' = store
  BY DEF OnSubscribed, Receive
<1>2. Harmless'
  BY <1>1, HandledHarmless DEF InFlight
<1>3. Reconnects'
  BY <1>1, SameReconnects DEF InFlight, store
<1>4. ASSUME NEW w \in Views, NEW x \in Views, Shown(w), Makes(w, Head(toClient), x)
      PROVE  Shown(x)'
  BY <1>1, <1>4 DEF Makes, Shown, store
<1>5. QED
  BY <1>1, <1>2, <1>3, <1>4, HandledInFlight

LEMMA OnUnknownSessionInFlight ==
  ASSUME TypeInv, TypeInv', InFlight, Onward, OnUnknownSession
  PROVE  InFlight'
<1>1. /\ toClient # <<>> /\ Head(toClient).type = "error" /\ toClient' = Tail(toClient)
      /\ UNCHANGED <<server, sub, link, toServer, captured, settled>> /\ store' = store
      /\ rest' = rest \/ rest' = "recover"
  BY DEF OnUnknownSession, Receive
<1>2. Harmless'
  BY <1>1, HandledHarmless DEF InFlight
<1>3. Reconnects'
  <2>1. ~StartsAsDraft \/ NeverCreated
    BY <1>1, HandledAllowed DEF Allowed
  <2>2. QED
    BY <1>1, <2>1 DEF Reconnects, InFlight, Onward, store
<1>4. ASSUME NEW w \in Views, NEW x \in Views, Shown(w), Makes(w, Head(toClient), x)
      PROVE  Shown(x)'
  <2>1. x = w
    BY <1>1, <1>4 DEF Makes
  <2>2. QED
    BY <1>1, <1>4, <2>1, StillShown
<1>5. QED
  BY <1>1, <1>2, <1>3, <1>4, HandledInFlight

LEMMA OnConnectedInFlight ==
  ASSUME TypeInv, TypeInv', InFlight, Onward, OnConnected
  PROVE  InFlight'
<1>1. /\ link = "connecting" /\ link' = "up" /\ toServer' = <<Hello>>
      /\ captured' = [lastSeq |-> lastSeq, tag |-> streamGeneration]
      /\ UNCHANGED <<server, sub, toClient, store, settled, rest>>
  BY DEF OnConnected
<1>2. sub = NoRuntime /\ toClient = <<>>
  BY <1>1 DEF TypeInv, ConnectionTypes
<1>3. PICK v : Following(v)
  BY DEF InFlight
<1>4. v[0] \in Views /\ IsTrue(v[0]) /\ Shown(v[0])
  BY <1>3, ViewsOf DEF Following
<1>5. Reconnects'
  BY <1>1 DEF Reconnects, InFlight, Onward, store
<1>6. toClient' \in Seq(Allowed')
  BY <1>1, <1>2
<1>7. captured'.lastSeq = lastSeq /\ captured'.tag = streamGeneration
  BY <1>1
<1>8. Harmless' \/ Fresh(v[0])'
  <2>1. lastSeq = 0 \/ ~StartsAsDraft \/ NeverCreated
    BY <1>1 DEF InFlight, Reconnects
  <2>2. CASE Old(lastSeq, streamGeneration)'
    <3>1. Hello \in OldRequests'
      <4>1. Old(captured.lastSeq, captured.tag)'
        BY <1>1, <1>7, <2>2 DEF Old, Stale, NeverCreated, store
      <4>2. QED
        BY <4>1, PlainMessages DEF OldRequests
    <3>2. toServer' \in Seq(OldRequests') /\ toClient' \in Seq(Calm')
      BY <1>1, <1>2, <3>1
    <3>3. QED
      BY <3>2 DEF Harmless
  <2>3. CASE v[0].gen # Adrift /\ (StartsAsDraft => NeverCreated)
    <3>1. lastSeq = v[0].upto /\ streamGeneration = v[0].tag
      BY <1>4, <2>3 DEF Shown
    <3>2. toClient' = <<>> /\ sub' = NoRuntime /\ (StartsAsDraft => NeverCreated')
      BY <1>1, <1>2, <2>3 DEF Onward
    <3>3. QED
      BY <1>1, <1>7, <2>3, <3>1, <3>2 DEF Fresh
  <2>4. CASE v[0].gen = Adrift /\ lastSeq # 0
    <3>1. streamGeneration = NoTag /\ NeverCreated
      BY <1>4, <2>1, <2>4 DEF Shown
    <3>2. launched \in Nat
      BY LaunchedIs DEF TypeInv
    <3>3. Stale(streamGeneration)
      BY <3>1, <3>2 DEF Stale, NoTag
    <3>4. Old(lastSeq, streamGeneration)'
      BY <1>1, <3>3 DEF Old, Stale, NeverCreated, server, store
    <3>5. QED
      BY <2>2, <3>4
  <2>5. CASE lastSeq = 0
    BY <1>1, <2>2, <2>5 DEF Old, store
  <2>6. QED
    BY <2>1, <2>3, <2>4, <2>5
<1>9. Following(v)'
  <2>1. Leads(toClient', v) /\ \A k \in 0 .. Len(toClient') : IsTrue(v[k])'
    BY <1>1, <1>3, ViewsOf, StillTrue DEF Following
  <2>2. Shown(v[0])'
    BY <1>1, <1>4, StillShown
  <2>3. Reached(v[Len(toClient)])'
    BY <1>1, <1>2 DEF Reached
  <2>4. Based(v[Len(toClient)])'
    <3>1. PICK w : w = v[Len(toClient)]
      OBVIOUS
    <3>2. Based(w) /\ (Early => Early')
      BY <1>1, <1>3, <3>1 DEF Following, server, Early
    <3>3. Based(w)'
      BY <3>2, BasedStays
    <3>4. v[Len(toClient')] = w
      BY <1>1, <3>1
    <3>5. QED
      BY <3>3, <3>4
  <2>5. QED
    BY <1>8, <2>1, <2>2, <2>3, <2>4 DEF Following
<1>10. QED
  BY <1>5, <1>6, <1>9 DEF InFlight

(* Messages pushed on the wire.                                            *)

LEMMA PayloadIsCalm ==
  /\ Payload \subseteq Allowed /\ Payload \subseteq Calm
  /\ Payload \subseteq Allowed' /\ Payload \subseteq Calm'
  /\ Payload \subseteq ServerMessages
BY DEF Payload, Allowed, Calm

LEMMA RunIsPayload ==
  ASSUME NEW g \in Generations, NEW from \in Nat, NEW n \in Nat, from + n <= MaxEvents
  PROVE  Run(g, from, n) \in Seq(Payload)
<1> DEFINE r == Run(g, from, n)
<1>1. r \in Seq(ServerMessages) /\ Len(r) = n /\ \A i \in 1 .. n : r[i].type = "event"
  BY Runs
<1> HIDE DEF r
<1>2. \A i \in 1 .. Len(r) : r[i] \in Payload
  BY <1>1 DEF Payload
<1>3. r \in Seq(Payload)
  BY <1>1, <1>2
<1>4. QED
  BY <1>3 DEF r

LEMMA WireType ==
  ASSUME TypeInv
  PROVE  toClient \in Seq(ServerMessages) /\ toServer \in Seq(ClientMessages)
BY DEF TypeInv, ConnectionTypes

LEMMA StillTheViews ==
  ASSUME TypeInv, TypeInv', Onward, NEW v, Following(v)
  PROVE  \A k \in 0 .. Len(toClient) : IsTrue(v[k])'
BY ViewsOf, StillTrue

\* Along q, true views lead from w to x.
Path(q, v, w, x) ==
  /\ Leads(q, v) /\ v[0] = w /\ v[Len(q)] = x
  /\ \A k \in 0 .. Len(q) : IsTrue(v[k])

LEMMA PathEnd ==
  ASSUME NEW q \in Seq(ServerMessages), NEW v, NEW w, NEW x, Path(q, v, w, x)'
  PROVE  x \in Views /\ IsTrue(x)'
<1>1. Len(q) \in 0 .. Len(q)
  OBVIOUS
<1>2. QED
  BY <1>1 DEF Path, Leads

\* What is on the wire leads where it did.
LEMMA PathStays ==
  ASSUME TypeInv, TypeInv', Onward, NEW v, Following(v),
         NEW q, q = toClient, NEW first, first = v[0], NEW last, last = v[Len(toClient)]
  PROVE  Path(q, v, first, last)' /\ q \in Seq(ServerMessages)
<1>1. Leads(q, v) /\ q \in Seq(ServerMessages) /\ \A k \in 0 .. Len(q) : IsTrue(v[k])'
  BY StillTheViews, WireType DEF Following
<1>2. QED
  BY <1>1 DEF Path

\* A run of the current runtime's events, pushed after what is on the wire.
LEMMA RunFollows ==
  ASSUME TypeInv, TypeInv', Onward, NEW v, Following(v),
         NEW g, g = current, g # NoRuntime,
         NEW from \in Nat, NEW n \in Nat, from + n <= bus'[g].seq,
         NEW last, last = v[Len(toClient)],
         last.gen # Adrift => last.gen = g /\ last.upto = from,
         NEW q, q = toClient \o Run(g, from, n),
         NEW first, first = v[0], NEW end, end = Continued(last, g, from, n)
  PROVE  q \in Seq(ServerMessages) /\ \E u : Path(q, u, first, end)'
<1> DEFINE l == Len(toClient)
<1>1. g \in Generations /\ g \in Launched
  BY SomeRuntime DEF TypeInv
<1>2. bus'[g].seq \in Nat /\ from + n <= MaxEvents
  <2>1. bus'[g].seq \in Stamps
    BY <1>1 DEF TypeInv, BusTypes
  <2>2. QED
    BY <2>1, Bounds DEF Stamps
<1>3. toClient \in Seq(ServerMessages) /\ Leads(toClient, v) /\ l \in Nat
  BY WireType DEF Following
<1>4. PICK u : /\ Leads(q, u) /\ Len(q) = l + n
               /\ \A k \in 0 .. l : u[k] = v[k]
               /\ \A i \in 0 .. n : u[l + i] = Continued(last, g, from, i)
  <2>1. v[Len(toClient)].gen # Adrift => v[Len(toClient)].gen = g /\ v[Len(toClient)].upto = from
    OBVIOUS
  <2>2. \E u : CarriesOn(toClient, v, g, from, n, u)
    BY <1>1, <1>2, <1>3, <2>1, LeadsRun
  <2>3. QED
    BY <2>2 DEF CarriesOn
<1>5. q \in Seq(ServerMessages)
  <2>1. Run(g, from, n) \in Seq(ServerMessages)
    BY <1>1, <1>2, Runs
  <2>2. QED
    BY <1>3, <2>1
<1>6. \A k \in 0 .. l : IsTrue(v[k])'
  BY StillTheViews
<1>7. /\ last \in Views /\ IsTrue(last)' /\ l \in 0 .. l /\ 0 \in 0 .. l
      /\ \A k \in 0 .. l : u[k] = v[k]
  <2>1. l \in 0 .. l /\ 0 \in 0 .. l
    BY <1>3
  <2>2. last = v[l]
    OBVIOUS
  <2>3. v[l] \in Views
    BY ViewsOf
  <2> HIDE DEF l
  <2>4. QED
    BY <1>4, <1>6, <2>1, <2>2, <2>3
<1> HIDE DEF l
<1>8. ASSUME NEW i \in 0 .. n
      PROVE  IsTrue(Continued(last, g, from, i))'
  <2>1. CASE last.gen = Adrift
    BY <1>7, <2>1 DEF Continued
  <2>2. CASE last.gen # Adrift
    <3> DEFINE w == Continued(last, g, from, i)
    <3>1. w.gen = g /\ w.upto = from + i /\ w.tag = last.tag
      BY <2>2 DEF Continued
    <3>2. last.gen = g /\ last.tag = Tag(g)'
      BY <1>7, <2>2 DEF IsTrue
    <3>3. from + i <= bus'[g].seq
      BY <1>2
    <3>4. g \in {NoRuntime} \cup Launched'
      BY <1>7, <2>2, <3>2 DEF IsTrue
    <3> HIDE DEF w
    <3>5. IsTrue(w)'
      BY <3>1, <3>2, <3>3, <3>4 DEF IsTrue
    <3>6. QED
      BY <3>5 DEF w
  <2>3. QED
    BY <2>1, <2>2
<1>9. ASSUME NEW k \in 0 .. Len(q)
      PROVE  IsTrue(u[k])'
  <2>1. k \in 0 .. l \/ (k - l \in 0 .. n /\ l + (k - l) = k)
    BY <1>3, <1>4
  <2>2. CASE k \in 0 .. l
    <3>1. u[k] = v[k] /\ IsTrue(v[k])'
      BY <1>6, <1>7, <2>2
    <3>2. QED
      BY <3>1
  <2>3. CASE k - l \in 0 .. n /\ l + (k - l) = k
    <3>1. u[k] = Continued(last, g, from, k - l)
      BY <1>4, <2>3
    <3>2. PICK i \in 0 .. n : i = k - l
      BY <2>3
    <3>3. IsTrue(Continued(last, g, from, i))' /\ u[k] = Continued(last, g, from, i)
      BY <1>8, <3>1, <3>2
    <3>4. QED
      BY <3>3
  <2>4. QED
    BY <2>1, <2>2, <2>3
<1>10. u[0] = first /\ u[Len(q)] = end
  <2>1. n \in 0 .. n
    OBVIOUS
  <2>2. QED
    BY <1>4, <1>7, <2>1
<1>11. QED
  BY <1>4, <1>5, <1>9, <1>10 DEF Path

\* One message more.
LEMMA MessageFollows ==
  ASSUME NEW q \in Seq(ServerMessages), NEW v, NEW first, NEW last,
         Path(q, v, first, last)',
         NEW m \in ServerMessages, NEW w \in Views, Makes(last, m, w), IsTrue(w)',
         NEW p, p = Append(q, m)
  PROVE  p \in Seq(ServerMessages) /\ \E u : Path(p, u, first, w)'
<1>0. /\ Leads(q, v) /\ v[0] = first /\ v[Len(q)] = last
      /\ \A k \in 0 .. Len(q) : IsTrue(v[k])'
  BY DEF Path
<1>1. p \in Seq(ServerMessages) /\ Len(q) \in Nat /\ Len(p) = Len(q) + 1
  BY AppendProperties
<1>2. PICK u : /\ Leads(p, u)
               /\ \A k \in 0 .. Len(q) : u[k] = v[k]
               /\ u[Len(q) + 1] = w
  BY <1>0, LeadsAppend
<1>3. ASSUME NEW k \in 0 .. Len(p)
      PROVE  IsTrue(u[k])'
  <2>1. k \in 0 .. Len(q) \/ k = Len(q) + 1
    BY <1>1
  <2>2. CASE k \in 0 .. Len(q)
    BY <1>0, <1>2, <2>2
  <2>3. CASE k = Len(q) + 1
    BY <1>2, <2>3
  <2>4. QED
    BY <2>1, <2>2, <2>3
<1>4. u[0] = first /\ u[Len(p)] = w
  <2>1. 0 \in 0 .. Len(q)
    BY <1>1
  <2>2. QED
    BY <1>0, <1>1, <1>2, <2>1
<1>5. QED
  BY <1>1, <1>2, <1>3, <1>4 DEF Path

\* A fresh position that the step made stale is as harmless as any other.
LEMMA FreshIsOld ==
  ASSUME TypeInv, NEW w, Fresh(w), Old(w.upto, w.tag)', captured' = captured
  PROVE  toServer \in Seq(OldRequests') /\ toClient \in Seq(Calm')
<1>1. toServer \in Seq(ClientMessages) /\ toClient \in Seq(ServerMessages)
  BY WireType
<1>2. (captured.lastSeq = w.upto /\ captured.tag = w.tag) => Old(captured.lastSeq, captured.tag)'
  BY DEF Old, Stale
<1>3. CASE toServer = <<Hello>> /\ toClient = <<>> /\ captured.lastSeq = w.upto /\ captured.tag = w.tag
  <2>1. Hello \in OldRequests'
    BY <1>2, <1>3, PlainMessages DEF OldRequests
  <2>2. QED
    BY <1>3, <2>1
<1>4. CASE /\ toServer = <<>> /\ toClient = <<[type |-> "hello_ok"]>>
           /\ captured.lastSeq = w.upto /\ captured.tag = w.tag
  <2>1. [type |-> "hello_ok"] \in Calm'
    BY <1>2, <1>4, PlainMessages DEF Calm
  <2>2. QED
    BY <1>4, <2>1
<1>5. CASE /\ Len(toServer) = 1 /\ toClient = <<>> /\ toServer[1].type = "subscribe"
           /\ toServer[1].from = w.upto /\ toServer[1].tag = w.tag
  <2>1. PICK m \in ClientMessages : m = toServer[1]
    <3>1. toServer[1] \in ClientMessages
      BY <1>1, <1>5
    <3>2. QED
      BY <3>1
  <2>2. Old(m.from, m.tag)'
    BY <1>5, <2>1 DEF Old, Stale
  <2>3. m \in OldRequests'
    BY <1>5, <2>1, <2>2 DEF OldRequests
  <2>4. \A i \in 1 .. Len(toServer) : toServer[i] \in OldRequests'
    BY <1>5, <2>1, <2>3
  <2>5. toServer \in Seq(OldRequests')
    BY <1>1, <2>4
  <2>6. QED
    BY <1>5, <2>5
<1>6. QED
  BY <1>3, <1>4, <1>5 DEF Fresh

LEMMA HarmlessStays ==
  ASSUME TypeInv, Onward, Harmless, captured' = captured
  PROVE  toServer \in Seq(OldRequests') /\ toClient \in Seq(Calm')
BY StillOld, SeqMonotonic DEF Harmless

LEMMA AllowedStays ==
  ASSUME TypeInv, InFlight, Onward, captured' = captured
  PROVE  toClient \in Seq(Allowed')
BY StillOld, SeqMonotonic DEF InFlight

\* What the server pushes leaves the store where it is.
LEMMA PushedInFlight ==
  ASSUME TypeInv, TypeInv', InFlight, Onward,
         UNCHANGED <<link, store, captured, settled, rest>>,
         NEW v, Following(v),
         NEW q, q = toClient', q \in Seq(Allowed'), NEW u, NEW first, first = v[0],
         NEW end, Path(q, u, first, end)', Reached(end)', Based(end)',
         Harmless' \/ Fresh(first)'
  PROVE  InFlight'
<1>1. Reconnects'
  BY SameReconnects DEF InFlight, store
<1>2. Shown(v[0])'
  BY StillShown DEF Following
<1>3. Following(u)'
  <2>1. Leads(toClient', u) /\ \A k \in 0 .. Len(toClient') : IsTrue(u[k])'
    BY DEF Path
  <2>2. Reached(u[Len(toClient)])' /\ Based(u[Len(toClient)])'
    BY DEF Path
  <2>3. Shown(u[0])'
    BY <1>2 DEF Path
  <2>4. Harmless' \/ Fresh(u[0])'
    BY DEF Path
  <2>5. QED
    BY <2>1, <2>2, <2>3, <2>4 DEF Following
<1>4. QED
  BY <1>1, <1>3 DEF InFlight

\* Where a bus moves on, and where it stays.
LEMMA BusMoved ==
  ASSUME TypeInv, current # NoRuntime, NEW b, bus' = [bus EXCEPT ![current] = b]
  PROVE  /\ bus'[current] = b
         /\ \A g \in Generations : g # current => bus'[g] = bus[g]
         /\ sub # current /\ sub # NoRuntime => bus'[sub] = bus[sub]
<1>1. current \in Generations /\ (sub # NoRuntime => sub \in Generations)
  BY SomeRuntime, LaunchedIs DEF TypeInv, ConnectionTypes
<1>2. bus \in [Generations -> Bus(Happenings)]
  BY DEF TypeInv, BusTypes
<1>3. QED
  BY <1>1, <1>2

LEMMA EmitInFlight ==
  ASSUME TypeInv, TypeInv', Runtimes', InFlight, Onward, Emit
  PROVE  InFlight'
<1> DEFINE b == AppendEvent(bus[current], <<current, bus[current].seq + 1>>)
<1>1. /\ current # NoRuntime /\ current \in Generations
      /\ bus[current].seq \in Nat /\ bus[current].seq + 1 <= MaxEvents
  <2>1. current # NoRuntime /\ current \in Generations
    BY SomeRuntime DEF Emit, TypeInv, ServerTypes
  <2>2. bus[current].seq \in Nat
    BY <2>1, Bounds DEF TypeInv, BusTypes, Stamps
  <2>3. QED
    BY <2>1, <2>2, Bounds DEF Emit
<1>2. /\ bus' = [bus EXCEPT ![current] = b]
      /\ UNCHANGED <<phase, current, link, sub, toServer, store, captured, settled, rest>>
      /\ toClient' = Pushed(FanOut(current, 1))
  BY DEF Emit, client
<1>3. b.seq = bus[current].seq + 1
  BY DEF AppendEvent
<1> HIDE DEF b
<1>4. /\ bus'[current].seq = bus[current].seq + 1
      /\ sub # current /\ sub # NoRuntime => bus'[sub] = bus[sub]
  BY <1>1, <1>2, <1>3, BusMoved
<1>5. PICK v : Following(v)
  BY DEF InFlight
<1>6. CASE sub # current \/ link # "up"
  <2>1. sub # current /\ toClient' = toClient
    <3>1. link # "up" => sub # current
      BY <1>1 DEF TypeInv, ConnectionTypes
    <3>2. FanOut(current, 1) = <<>>
      BY <1>6, <3>1, FanOutIs
    <3>3. toClient \o <<>> = toClient
      BY WireType
    <3>4. QED
      BY <1>2, <1>6, <3>1, <3>2, <3>3 DEF Pushed
  <2>2. Following(v)'
    <3>1. UNCHANGED <<connection, store, settled, captured>>
      BY <1>2, <2>1 DEF connection
    <3>2. sub # NoRuntime => bus'[sub].seq = bus[sub].seq
      BY <1>4, <2>1
    <3>3. Based(v[Len(toClient)])'
      <4>1. PICK w : w = v[Len(toClient)]
        OBVIOUS
      <4>2. Based(w) /\ (Early => Early')
        BY <1>2, <1>5, <4>1 DEF Following, Early
      <4>3. Based(w)'
        BY <4>2, BasedStays
      <4>4. QED
        BY <2>1, <4>1, <4>3
    <3>4. QED
      BY <1>5, <3>1, <3>2, <3>3, QuietFollowing
  <2>3. toClient' \in Seq(Allowed')
    BY <1>2, <2>1, AllowedStays
  <2>4. Reconnects'
    BY <1>2, SameReconnects DEF InFlight, store
  <2>5. QED
    BY <2>2, <2>3, <2>4 DEF InFlight
<1>7. CASE sub = current /\ link = "up"
  <2>1. PICK g : g = current
    OBVIOUS
  <2>2. PICK from : from = bus[g].seq
    OBVIOUS
  <2>3. /\ g \in Generations /\ g # NoRuntime /\ from \in Nat /\ from + 1 <= MaxEvents
        /\ from + 1 <= bus'[g].seq /\ bus'[g].seq = from + 1 /\ sub' = g /\ sub = g
    BY <1>1, <1>2, <1>4, <1>7, <2>1, <2>2
  <2>4. PICK last : last = v[Len(toClient)]
    OBVIOUS
  <2>5. last.gen # Adrift => last.gen = g /\ last.upto = from
    BY <1>5, <2>2, <2>3, <2>4 DEF Following, Reached
  <2>6. PICK q : q = toClient'
    OBVIOUS
  <2>7. q = toClient \o Run(g, from, 1)
    BY <1>2, <1>7, <2>1, <2>2, <2>6, FanOutIs DEF Pushed
  <2>8. PICK first, end : first = v[0] /\ end = Continued(last, g, from, 1)
    OBVIOUS
  <2>9. PICK u : Path(q, u, first, end)'
    BY <1>5, <2>1, <2>3, <2>4, <2>5, <2>7, <2>8, RunFollows
  <2>10. Run(g, from, 1) \in Seq(Payload)
    BY <2>3, RunIsPayload
  <2>11. q \in Seq(Allowed')
    <3>1. toClient \in Seq(Allowed') /\ Run(g, from, 1) \in Seq(Allowed')
      BY <1>2, <2>10, AllowedStays, PayloadIsCalm, SeqMonotonic
    <3>2. QED
      BY <2>7, <3>1
  <2>12. Reached(end)'
    <3>1. end.gen # Adrift => end.gen = g /\ end.upto = from + 1
      BY <2>8 DEF Continued
    <3>2. QED
      BY <2>3, <3>1 DEF Reached
  <2>13. Based(end)'
    <3>1. CASE last.gen = Adrift
      BY <2>8, <3>1 DEF Continued, Based
    <3>2. CASE last.gen # Adrift
      <4>1. end.gen = current'
        BY <1>2, <2>1, <2>8, <3>2 DEF Continued
      <4>2. end \in Views /\ IsTrue(end)'
        <5>1. q \in Seq(ServerMessages)
          BY <2>6 DEF TypeInv, ConnectionTypes
        <5>2. QED
          BY <2>9, <5>1, PathEnd
      <4>3. QED
        BY <4>1, <4>2, BasedHere
    <3>3. QED
      BY <3>1, <3>2
  <2>14. Harmless'
    <3>1. Harmless
      BY <1>1, <1>5, <1>7 DEF Following, Fresh
    <3>2. toServer \in Seq(OldRequests') /\ toClient \in Seq(Calm')
      BY <1>2, <3>1, HarmlessStays
    <3>3. Run(g, from, 1) \in Seq(Calm')
      BY <2>10, PayloadIsCalm, SeqMonotonic
    <3>4. q \in Seq(Calm')
      BY <2>7, <3>2, <3>3
    <3>5. QED
      BY <1>2, <2>6, <3>2, <3>4 DEF Harmless
  <2>15. QED
    BY <1>2, <1>5, <2>6, <2>8, <2>11, <2>9, <2>12, <2>14, <2>13, PushedInFlight
<1>8. QED
  BY <1>6, <1>7

\* A view adrift, where a rebind leads.
AdriftView == [gen |-> Adrift, upto |-> 0, tag |-> NoTag]

LEMMA RebindLeads ==
  /\ AdriftView \in Views /\ AdriftView.gen = Adrift
  /\ \A w : Makes(w, Rebind, AdriftView)
  /\ IsTrue(AdriftView)' /\ Reached(AdriftView)' /\ Based(AdriftView)'
<1>1. AdriftView \in Views /\ AdriftView.gen = Adrift
  BY DEF AdriftView, Views, Tags
<1>2. Rebind.type = "session_rebind"
  BY PlainMessages
<1>3. \A w : Makes(w, Rebind, AdriftView)
  BY <1>1, <1>2 DEF Makes
<1>4. IsTrue(AdriftView)' /\ Reached(AdriftView)' /\ Based(AdriftView)'
  BY <1>1 DEF IsTrue, Reached, Based
<1>5. QED
  BY <1>1, <1>3, <1>4

LEMMA RebindCalm ==
  /\ Rebind \in Calm'
  /\ (StartsAsDraft \/ NeverCreated') => Rebind \in Allowed'
BY PlainMessages DEF Calm, Allowed

\* No runtime matches the position that was fresh when a resume's candidate is adopted.
LEMMA AdoptedAnother ==
  ASSUME TypeInv, TypeInv', Onward, current # NoRuntime, bus[current].seq = 0,
         NeverCreated', held' = NoRuntime, current' = current,
         NEW w \in Views, IsTrue(w), w.gen # Adrift
  PROVE  Old(w.upto, w.tag)'
<1>1. CASE w.upto = 0
  BY <1>1 DEF Old
<1>2. CASE w.upto # 0
  <2>1. w.upto \in Nat /\ w.gen \in {NoRuntime} \cup Launched /\ w.tag = Tag(w.gen)
    BY DEF IsTrue, Views
  <2>2. w.gen # NoRuntime /\ w.upto <= bus[w.gen].seq
    BY <1>2, <2>1 DEF IsTrue
  <2>3. w.gen # current
    BY <1>2, <2>1, <2>2
  <2>4. w.tag \in {NoTag, w.gen}
    BY <2>1 DEF Tag
  <2>5. launched \in Nat /\ launched' \in Nat /\ launched' >= launched
    BY LaunchedIs, Bounds DEF TypeInv, ServerTypes, Onward
  <2>6. w.gen \in Nat /\ w.gen <= launched /\ w.gen # 0
    BY <2>1, <2>2, <2>5 DEF Launched, NoRuntime
  <2>7. w.tag <= launched'
    BY <2>4, <2>5, <2>6 DEF NoTag
  <2>8. w.tag # NoTag => w.tag # current' /\ w.tag # held'
    BY <2>2, <2>3, <2>4
  <2>9. QED
    BY <2>7, <2>8 DEF Old, Stale
<1>3. QED
  BY <1>1, <1>2

LEMMA FinishResumeInFlight ==
  ASSUME TypeInv, TypeInv', Runtimes, InFlight, Onward, FinishResume
  PROVE  InFlight'
<1> DEFINE b == AppendAll(bus[current], NewEvents(current, HistoryEvents))
<1>1. /\ current # NoRuntime /\ current \in Generations /\ bus[current].seq = 0
      /\ HistoryEvents \in Nat /\ HistoryEvents <= MaxEvents
  <2>1. current # NoRuntime /\ bus[current] = EmptyBus
    BY DEF FinishResume, TypeInv, ServerTypes, BusTypes
  <2>2. QED
    BY <2>1, SomeRuntime, Bounds DEF TypeInv, EmptyBus
<1>2. /\ bus' = [bus EXCEPT ![current] = b] /\ held' = NoRuntime
      /\ UNCHANGED <<current, link, sub, toServer, store, captured, settled, rest>>
      /\ toClient' = Pushed(FanOut(current, HistoryEvents) \o <<Rebind>>)
  BY DEF FinishResume, client
<1>3. b.seq = bus[current].seq + HistoryEvents
  BY <1>1, AppendAllHolds DEF TypeInv, BusTypes, NewEvents
<1> HIDE DEF b
<1>4. bus'[current].seq = HistoryEvents
  <2>1. bus'[current] = b
    BY <1>1, <1>2, BusMoved
  <2>2. b.seq = HistoryEvents
    BY <1>1, <1>3
  <2>3. QED
    BY <2>1, <2>2
<1>5. NeverCreated'
  BY FinishResumeRuntimes
<1>6. PICK v : Following(v)
  BY DEF InFlight
<1>7. CASE link # "up"
  <2>1. toClient' = toClient /\ sub = NoRuntime
    BY <1>2, <1>7 DEF Pushed, TypeInv, ConnectionTypes
  <2>2. Following(v)'
    <3>1. UNCHANGED <<connection, store, settled, captured>>
      BY <1>2, <2>1 DEF connection
    <3>2. Based(v[Len(toClient)])'
      BY <1>5 DEF Based
    <3>3. QED
      BY <1>6, <2>1, <3>1, <3>2, QuietFollowing
  <2>3. toClient' \in Seq(Allowed')
    BY <1>2, <2>1, AllowedStays
  <2>4. Reconnects'
    BY <1>2, SameReconnects DEF InFlight, store
  <2>5. QED
    BY <2>2, <2>3, <2>4 DEF InFlight
<1>8. CASE link = "up"
  <2>1. PICK g : g = current
    OBVIOUS
  <2>2. PICK first, last : first = v[0] /\ last = v[Len(toClient)]
    OBVIOUS
  <2>3. PICK run : run = FanOut(current, HistoryEvents)
    OBVIOUS
  <2>4. PICK q : q = toClient \o run
    OBVIOUS
  <2>5. run \in Seq(Payload) /\ (sub = NoRuntime => run = <<>>)
    <3>1. sub = current => run = Run(g, 0, HistoryEvents)
      BY <1>1, <2>1, <2>3, FanOutIs
    <3>2. sub # current => run = <<>>
      BY <1>1, <2>3, FanOutIs
    <3>3. Run(g, 0, HistoryEvents) \in Seq(Payload)
      BY <1>1, <2>1, RunIsPayload
    <3>4. <<>> \in Seq(Payload)
      OBVIOUS
    <3>5. sub = NoRuntime => sub # current
      BY <1>1
    <3>6. CASE sub = current
      BY <3>1, <3>3, <3>5, <3>6
    <3>7. CASE sub # current
      BY <3>2, <3>4, <3>7
    <3>8. QED
      BY <3>6, <3>7
  <2>6. q \in Seq(ServerMessages) /\ \E u, x : Path(q, u, first, x)'
    <3>1. CASE sub = current
      <4>1. q = toClient \o Run(g, 0, HistoryEvents)
        BY <1>1, <2>1, <2>3, <2>4, <3>1, FanOutIs
      <4>2. last.gen # Adrift => last.gen = g /\ last.upto = 0
        BY <1>1, <1>6, <2>1, <2>2, <3>1 DEF Following, Reached
      <4>3. g # NoRuntime /\ 0 + HistoryEvents <= bus'[g].seq
        BY <1>1, <1>4, <2>1
      <4>4. PICK end : end = Continued(last, g, 0, HistoryEvents)
        OBVIOUS
      <4>5. 0 \in Nat /\ HistoryEvents \in Nat
        BY <1>1
      <4>6. q \in Seq(ServerMessages) /\ \E u : Path(q, u, first, end)'
        BY <1>6, <2>1, <2>2, <4>1, <4>2, <4>3, <4>4, <4>5, RunFollows
      <4>7. QED
        BY <4>6
    <3>2. CASE sub # current
      <4>1. run = <<>>
        BY <1>1, <2>3, <3>2, FanOutIs
      <4>2. q = toClient
        BY <2>4, <4>1, WireType
      <4>3. Path(q, v, first, last)' /\ q \in Seq(ServerMessages)
        BY <1>6, <2>2, <4>2, PathStays
      <4>4. QED
        BY <4>3
    <3>3. QED
      BY <3>1, <3>2
  <2>7. PICK u, x : Path(q, u, first, x)'
    BY <2>6
  <2>8. PICK p : p = toClient'
    OBVIOUS
  <2>9. p = Append(q, Rebind)
    <3>1. toClient \in Seq(ServerMessages) /\ run \in Seq(ServerMessages) /\ Rebind \in ServerMessages
      BY <2>5, WireType, PlainMessages, PayloadIsCalm, SeqMonotonic
    <3>2. p = toClient \o (run \o <<Rebind>>)
      BY <1>2, <1>8, <2>3, <2>8 DEF Pushed
    <3>3. QED
      BY <2>4, <3>1, <3>2
  <2>10. \E y : Path(p, y, first, AdriftView)'
    <3>1. Rebind \in ServerMessages /\ Makes(x, Rebind, AdriftView)
      BY PlainMessages, RebindLeads
    <3>2. AdriftView \in Views /\ IsTrue(AdriftView)'
      BY RebindLeads
    <3>3. QED
      BY <2>6, <2>7, <2>9, <3>1, <3>2, MessageFollows
  <2>11. PICK y : Path(p, y, first, AdriftView)'
    BY <2>10
  <2>12. toServer \in Seq(OldRequests') /\ toClient \in Seq(Calm')
    <3>1. CASE Harmless
      BY <1>2, <3>1, HarmlessStays
    <3>2. CASE Fresh(first)
      <4>1. first \in Views /\ IsTrue(first) /\ first.gen # Adrift
        BY <1>6, <2>2, <3>2, ViewsOf DEF Fresh
      <4>2. Old(first.upto, first.tag)'
        BY <1>1, <1>2, <1>5, <4>1, AdoptedAnother
      <4>3. QED
        BY <1>2, <3>2, <4>2, FreshIsOld
    <3>3. QED
      BY <1>6, <2>2, <3>1, <3>2 DEF Following
  <2>13. q \in Seq(Calm') /\ q \in Seq(Allowed')
    <3>1. run \in Seq(Calm') /\ run \in Seq(Allowed')
      BY <2>5, PayloadIsCalm, SeqMonotonic
    <3>2. toClient \in Seq(Allowed')
      BY <1>2, AllowedStays
    <3>3. QED
      BY <2>4, <2>12, <3>1, <3>2
  <2>14. p \in Seq(Allowed') /\ p \in Seq(Calm')
    BY <1>5, <2>9, <2>13, RebindCalm
  <2>15. Harmless'
    BY <1>2, <2>8, <2>12, <2>14 DEF Harmless
  <2>16. Reached(AdriftView)' /\ Based(AdriftView)'
    BY RebindLeads
  <2>17. QED
    BY <1>2, <1>6, <2>2, <2>8, <2>11, <2>14, <2>15, <2>16, PushedInFlight
<1>9. QED
  BY <1>7, <1>8

\* A snapshot of the current runtime leads to all of its events.
LEMMA SnapshotLeads ==
  ASSUME TypeInv, UNCHANGED <<bus, created, launched>>,
         NEW g, g = current, g # NoRuntime
  PROVE  \E w \in Views : /\ w.gen = g /\ w.upto = bus[g].seq /\ w.tag = Tag(g)
                          /\ IsTrue(w)'
                          /\ \A x : Grows(x, w) => Makes(x, SnapshotMessage(g), w)
<1>1. g \in Launched /\ g \in Generations
  BY SomeRuntime DEF TypeInv
<1>2. bus[g].seq \in Nat /\ Tag(g) \in Tags
  BY <1>1, Bounds, TagType DEF TypeInv, BusTypes, Stamps
<1>3. g # Adrift
  BY <1>1 DEF Generations, Adrift
<1> DEFINE w == [gen |-> g, upto |-> bus[g].seq, tag |-> Tag(g)]
<1>4. w \in Views /\ w.gen = g /\ w.upto = bus[g].seq /\ w.tag = Tag(g)
  BY <1>1, <1>2 DEF Views
<1> HIDE DEF w
<1>5. PICK x : x = w
  OBVIOUS
<1>6. IsTrue(x)'
  <2>1. Tag(g)' = Tag(g) /\ Launched' = Launched /\ bus' = bus
    BY DEF Tag, Launched
  <2>2. g \in Launched' /\ x.tag = Tag(g)' /\ x.upto <= bus'[g].seq
    BY <1>1, <1>2, <1>4, <1>5, <2>1
  <2>3. QED
    BY <1>4, <1>5, <2>2 DEF IsTrue
<1>7. \A y : Grows(y, x) => Makes(y, SnapshotMessage(g), x)
  <2>1. /\ SnapshotMessage(g).type = "snapshot" /\ SnapshotMessage(g).stamp = bus[g].seq
        /\ SnapshotMessage(g).state = EventsOf(g, bus[g].seq) /\ SnapshotMessage(g).tag = Tag(g)
    BY DEF SnapshotMessage, Authoritative
  <2>2. QED
    BY <1>3, <1>4, <1>5, <2>1 DEF Makes
<1>8. QED
  BY <1>4, <1>5, <1>6, <1>7

LEMMA FinishStartInFlight ==
  ASSUME TypeInv, TypeInv', Runtimes, Runtimes', InFlight, Onward, FinishStart
  PROVE  InFlight'
<1>1. /\ UNCHANGED <<current, held, launched, created, bus, link, toServer, store, captured,
                     settled, rest>>
      /\ phase = "starting" /\ current # NoRuntime
  BY DEF FinishStart, client, TypeInv, ServerTypes
<1>2. StartsAsDraft /\ ~NeverCreated
  BY <1>1 DEF Runtimes, NeverCreated
<1>3. PICK v : Following(v)
  BY DEF InFlight
<1>4. Harmless
  BY <1>2, <1>3 DEF Following, Fresh
<1>5. toServer \in Seq(OldRequests') /\ toClient \in Seq(Calm') /\ toClient \in Seq(Allowed')
  BY <1>1, <1>4, HarmlessStays, AllowedStays
<1>6. Rebind \in Calm' /\ Rebind \in Allowed' /\ Rebind \in ServerMessages
  BY <1>2, RebindCalm, PlainMessages
<1>7. PICK first, last, q0 : first = v[0] /\ last = v[Len(toClient)] /\ q0 = toClient
  OBVIOUS
<1>8. Path(q0, v, first, last)' /\ q0 \in Seq(ServerMessages)
  BY <1>3, <1>7, PathStays
<1>9. PICK q1 : q1 = Append(q0, Rebind)
  OBVIOUS
<1>10. q1 \in Seq(ServerMessages) /\ \E u : Path(q1, u, first, AdriftView)'
  <2>1. Makes(last, Rebind, AdriftView) /\ AdriftView \in Views /\ IsTrue(AdriftView)'
    BY RebindLeads
  <2>2. QED
    BY <1>6, <1>8, <1>9, <2>1, MessageFollows
<1>11. PICK u1 : Path(q1, u1, first, AdriftView)'
  BY <1>10
<1>12. q1 \in Seq(Calm') /\ q1 \in Seq(Allowed')
  BY <1>5, <1>6, <1>7, <1>9
<1>13. CASE toClient' = Pushed(<<Rebind>>) /\ sub' = sub
  <2>1. CASE link # "up"
    <3>1. UNCHANGED <<connection, store, settled, captured, rest>> /\ bus' = bus
      BY <1>1, <1>13, <2>1 DEF Pushed, connection
    <3>2. QED
      BY <2>1, <3>1, QuietInFlight
  <2>2. CASE link = "up"
    <3>1. q1 = toClient'
      BY <1>6, <1>7, <1>8, <1>9, <1>13, <2>2 DEF Pushed
    <3>2. Harmless'
      BY <1>1, <1>5, <1>12, <3>1 DEF Harmless
    <3>3. Reached(AdriftView)' /\ Based(AdriftView)'
      BY RebindLeads
    <3>4. QED
      BY <1>1, <1>3, <1>7, <1>11, <1>12, <3>1, <3>2, <3>3, PushedInFlight
  <2>3. QED
    BY <2>1, <2>2
<1>14. CASE /\ link = "up" /\ sub' = current
            /\ toClient' = Pushed(<<Rebind, SnapshotMessage(current)>>)
  <2>1. PICK g : g = current
    OBVIOUS
  <2>2. PICK m : m = SnapshotMessage(g)
    OBVIOUS
  <2>3. PICK w \in Views : /\ w.gen = g /\ w.upto = bus[g].seq /\ IsTrue(w)'
                           /\ \A x : Grows(x, w) => Makes(x, SnapshotMessage(g), w)
    BY <1>1, <2>1, SnapshotLeads
  <2>4. m \in Payload /\ m \in ServerMessages
    BY <1>1, <2>1, <2>2, SomeRuntime, SnapshotType DEF Payload, TypeInv
  <2>5. PICK q2 : q2 = Append(q1, m)
    OBVIOUS
  <2>6. q2 = toClient'
    BY <1>6, <1>7, <1>8, <1>9, <1>14, <2>1, <2>2, <2>4, <2>5 DEF Pushed
  <2>7. Makes(AdriftView, m, w)
    <3>1. Grows(AdriftView, w)
      BY RebindLeads DEF Grows
    <3>2. QED
      BY <2>2, <2>3, <3>1
  <2>8. \E u : Path(q2, u, first, w)'
    BY <1>10, <1>11, <2>3, <2>4, <2>5, <2>7, MessageFollows
  <2>9. PICK u2 : Path(q2, u2, first, w)'
    BY <2>8
  <2>10. m \in Calm' /\ m \in Allowed'
    BY <2>4, PayloadIsCalm
  <2>11. q2 \in Seq(Calm') /\ q2 \in Seq(Allowed')
    BY <1>12, <2>5, <2>10
  <2>12. Harmless'
    BY <1>1, <1>5, <2>6, <2>11 DEF Harmless
  <2>13. Reached(w)' /\ Based(w)'
    <3>1. Reached(w)'
      BY <1>1, <1>14, <2>1, <2>3 DEF Reached
    <3>2. w.gen = current'
      BY <1>1, <2>1, <2>3
    <3>3. QED
      BY <2>3, <3>1, <3>2, BasedHere
  <2>14. QED
    BY <1>1, <1>3, <1>7, <2>6, <2>9, <2>11, <2>12, <2>13, PushedInFlight
<1>15. QED
  BY <1>13, <1>14 DEF FinishStart

LEMMA OnHelloInFlight ==
  ASSUME TypeInv, TypeInv', InFlight, Onward, OnHello
  PROVE  InFlight'
<1>1. /\ toServer # <<>> /\ Head(toServer) = Hello /\ toServer' = Tail(toServer)
      /\ toClient' = Append(toClient, [type |-> "hello_ok"])
      /\ UNCHANGED <<server, link, sub, store, captured, settled, rest>>
  BY DEF OnHello, client
<1>2. PICK v : Following(v)
  BY DEF InFlight
<1>3. PICK m : m = [type |-> "hello_ok"]
  OBVIOUS
<1>4. m \in ServerMessages /\ m.type = "hello_ok" /\ m \in Allowed'
  BY <1>3, PlainMessages DEF Allowed
<1>5. PICK first, last, q : first = v[0] /\ last = v[Len(toClient)] /\ q = toClient
  OBVIOUS
<1>6. Path(q, v, first, last)' /\ q \in Seq(ServerMessages)
  BY <1>2, <1>5, PathStays
<1>7. PICK p : p = Append(q, m)
  OBVIOUS
<1>8. p = toClient'
  BY <1>1, <1>3, <1>5, <1>7
<1>9. last \in Views /\ IsTrue(last)' /\ Makes(last, m, last)
  <2>1. last \in Views /\ IsTrue(last)
    BY <1>2, <1>5, ViewsOf
  <2>2. QED
    BY <1>4, <2>1, StillTrue DEF Makes
<1>10. \E u : Path(p, u, first, last)'
  BY <1>4, <1>6, <1>7, <1>9, MessageFollows
<1>11. PICK u : Path(p, u, first, last)'
  BY <1>10
<1>12. Reached(last)' /\ Based(last)'
  <2>1. Reached(last)'
    BY <1>1, <1>2, <1>5 DEF Following, Reached, server
  <2>2. Based(last) /\ (Early => Early')
    BY <1>1, <1>2, <1>5 DEF Following, server, Early
  <2>3. QED
    BY <2>1, <2>2, BasedStays
<1>13. p \in Seq(Allowed')
  BY <1>1, <1>4, <1>5, <1>7, AllowedStays
<1>14. Harmless' \/ Fresh(first)'
  <2>1. CASE Harmless
    <3>1. Head(toServer) \in OldRequests /\ Tail(toServer) \in Seq(OldRequests)
      BY <1>1, <2>1, HeadTailProperties DEF Harmless
    <3>2. Old(captured.lastSeq, captured.tag)
      BY <1>1, <3>1, PlainMessages DEF OldRequests
    <3>3. m \in Calm
      BY <1>4, <3>2 DEF Calm
    <3>4. Append(toClient, m) \in Seq(Calm)
      BY <2>1, <3>3 DEF Harmless
    <3>5. QED
      BY <1>1, <1>3, <3>1, <3>4, StillOld, SeqMonotonic DEF Harmless
  <2>2. CASE Fresh(first)
    <3>1. Hello.type # "subscribe"
      BY PlainMessages
    <3>2. toServer = <<Hello>> /\ toClient = <<>> /\ captured.lastSeq = first.upto /\ captured.tag = first.tag
      BY <1>1, <2>2, <3>1 DEF Fresh
    <3>3. toServer' = <<>> /\ toClient' = <<[type |-> "hello_ok"]>>
      BY <1>1, <3>2
    <3>4. sub' = NoRuntime /\ first.gen # Adrift /\ (StartsAsDraft => NeverCreated')
      BY <1>1, <2>2 DEF Fresh, Onward
    <3>5. captured' = captured
      BY <1>1
    <3>6. QED
      BY <3>2, <3>3, <3>4, <3>5 DEF Fresh
  <2>3. QED
    BY <1>2, <1>5, <2>1, <2>2 DEF Following
<1>15. QED
  BY <1>1, <1>2, <1>5, <1>8, <1>11, <1>12, <1>13, <1>14, PushedInFlight

\* An answered subscription: the reply settles a store that is not adrift.
LEMMA AnsweredInFlight ==
  ASSUME TypeInv, TypeInv', InFlight, Onward,
         UNCHANGED <<link, store, captured, settled, rest>>,
         NEW v, Following(v), NEW first, first = v[0],
         NEW q \in Seq(ServerMessages), q \in Seq(Calm'), q \in Seq(Allowed'),
         toServer' \in Seq(OldRequests'),
         NEW u, NEW w, Path(q, u, first, w)', w.gen # Adrift, Reached(w)', Based(w)',
         NEW m \in Payload, m.type = "ok", toClient' = Append(q, m)
  PROVE  InFlight'
<1>1. PICK p : p = toClient'
  OBVIOUS
<1>2. w \in Views /\ IsTrue(w)'
  <2>1. Leads(q, u) /\ u[Len(q)] = w /\ \A k \in 0 .. Len(q) : IsTrue(u[k])'
    BY DEF Path
  <2>2. Len(q) \in 0 .. Len(q)
    OBVIOUS
  <2>3. QED
    BY <2>1, <2>2 DEF Leads
<1>3. m \in ServerMessages /\ m \in Calm' /\ m \in Allowed'
  BY PayloadIsCalm
<1>4. Makes(w, m, w)
  BY DEF Makes
<1>5. p = Append(q, m)
  BY <1>1
<1>6. \E y : Path(p, y, first, w)'
  BY <1>2, <1>3, <1>4, <1>5, MessageFollows
<1>7. PICK y : Path(p, y, first, w)'
  BY <1>6
<1>8. p \in Seq(Calm') /\ p \in Seq(Allowed')
  BY <1>3, <1>5
<1>9. Harmless'
  BY <1>1, <1>8 DEF Harmless
<1>10. QED
  BY <1>1, <1>7, <1>8, <1>9, PushedInFlight

\* A replay is served only from a position in the current runtime.
LEMMA ReplayedPosition ==
  ASSUME TypeInv, Runtimes, current # NoRuntime, NEW v, Following(v),
         toServer # <<>>, Head(toServer).type = "subscribe",
         NEW m, m = Head(toServer), m.from > 0,
         Tag(current) = NoTag \/ m.tag = Tag(current)
  PROVE  /\ toClient = <<>> /\ v[0].gen = current /\ v[0].upto = m.from
         /\ m.from <= bus[current].seq
<1>1. m \in ClientMessages /\ m.from \in Nat /\ m.from # 0 /\ toServer[1] = m
  <2>1. m \in ClientMessages
    BY TakeRequest DEF TypeInv
  <2>2. m.from \in Nat
    BY <2>1, RequestTypes, Bounds DEF Stamps
  <2>3. QED
    BY <2>1, <2>2
<1>2. current \in Launched /\ current # NoTag
  BY SomeRuntime DEF TypeInv, NoTag, NoRuntime
<1>3. ~Harmless
  <2> SUFFICES ASSUME Harmless PROVE FALSE
    OBVIOUS
  <2>1. m \in OldRequests
    BY HeadTailProperties DEF Harmless
  <2>2. Stale(m.tag)
    BY <1>1, <2>1 DEF OldRequests, Old
  <2>3. Tag(current) = current
    BY <2>2 DEF Stale, NeverCreated, Tag
  <2>4. QED
    BY <1>2, <2>2, <2>3 DEF Stale
<1>4. Fresh(v[0])
  BY <1>3 DEF Following
<1>5. PICK w : w = v[0]
  OBVIOUS
<1>6. /\ toClient = <<>> /\ w.gen # Adrift /\ (StartsAsDraft => NeverCreated)
      /\ m.from = w.upto /\ m.tag = w.tag
  <2>1. toServer # <<Hello>>
    BY PlainMessages
  <2>2. QED
    BY <1>1, <1>4, <1>5, <2>1 DEF Fresh
<1>7. w \in Views /\ IsTrue(w)
  BY <1>5, ViewsOf
<1>8. w.gen \in Launched /\ w.tag = Tag(w.gen) /\ w.upto <= bus[w.gen].seq
  <2>1. w.gen # NoRuntime
    BY <1>1, <1>6, <1>7 DEF IsTrue
  <2>2. QED
    BY <1>6, <1>7, <2>1 DEF IsTrue
<1>9. w.gen \in Generations /\ bus[w.gen].seq # 0
  <2>1. w.gen \in Generations
    BY <1>8, LaunchedIs DEF TypeInv
  <2>2. bus[w.gen].seq \in Nat
    BY <2>1, Bounds DEF TypeInv, BusTypes, Stamps
  <2>3. QED
    BY <1>1, <1>6, <1>8, <2>1, <2>2
<1>10. w.gen = current
  <2>1. CASE current \in created
    <3>1. ~StartsAsDraft
      BY <1>6, <2>1 DEF NeverCreated
    <3>2. created = {1} /\ w.gen \in created
      BY <1>9, <2>1, <3>1 DEF Runtimes
    <3>3. QED
      BY <2>1, <3>2
  <2>2. CASE current \notin created
    <3>1. Tag(current) = current /\ Tag(current) # NoTag
      BY <1>2, <2>2 DEF Tag
    <3>2. Tag(w.gen) = current
      BY <1>6, <1>8, <3>1
    <3>3. QED
      BY <1>2, <3>2 DEF Tag
  <2>3. QED
    BY <2>1, <2>2
<1>11. QED
  BY <1>5, <1>6, <1>8, <1>10

\* A store that waits for its first subscription to be answered shows nothing yet.
LEMMA OpeningShows ==
  ASSUME Opening, Early, toServer # <<>>, NEW v, Following(v), NEW w,
         w = v[Len(toClient)], w.gen # Adrift
  PROVE  w.upto = 0
<1>1. lastSeq = 0 /\ toClient = <<>>
  BY DEF Opening
<1>2. Shown(w)
  BY <1>1 DEF Following
<1>3. QED
  BY <1>1, <1>2 DEF Shown

\* A snapshot never takes back what was pushed before it under the same tag.
LEMMA SnapshotGrows ==
  ASSUME TypeInv, Runtimes, Opening, toServer # <<>>, current # NoRuntime,
         NEW v, Following(v), NEW last, last = v[Len(toClient)],
         NEW w, w.gen = current, w.tag = Tag(current), w.upto = bus[current].seq
  PROVE  Grows(last, w)
<1> SUFFICES ASSUME last.gen # Adrift, last.tag = w.tag, last.upto # 0
             PROVE  last.gen = w.gen /\ last.upto <= w.upto
  BY DEF Grows
<1>1. last.upto \in Nat /\ last.gen \in {NoRuntime} \cup Launched /\ last.tag = Tag(last.gen)
  BY ViewsOf DEF IsTrue, Views
<1>2. last.upto <= IF last.gen = NoRuntime THEN 0 ELSE bus[last.gen].seq
  BY ViewsOf DEF IsTrue
<1>3. last.gen # NoRuntime /\ last.upto <= bus[last.gen].seq
  BY <1>1, <1>2
<1>4. /\ current \in Launched /\ current \in Nat /\ current # NoTag
      /\ last.gen \in Launched /\ last.gen \in Nat /\ last.gen # NoTag
  BY <1>1, <1>3, SomeRuntime, LaunchedIs DEF TypeInv, NoTag, NoRuntime
<1>5. CASE current \notin created
  BY <1>1, <1>3, <1>4, <1>5 DEF Tag
<1>6. CASE current \in created
  <2>1. last.gen \in created
    BY <1>1, <1>4, <1>6 DEF Tag
  <2>2. Newest(current)
    BY <1>6 DEF Runtimes
  <2>3. Newest(last.gen)
    <3>1. CASE ~StartsAsDraft
      BY <2>1, <2>2, <3>1 DEF Runtimes, Newest
    <3>2. CASE Early
      BY <3>2, OpeningShows
    <3>3. CASE StartsAsDraft /\ ~Early
      <4>1. Based(last)
        BY DEF Following
      <4>2. ~NeverCreated /\ last.tag = NoTag /\ last.upto > 0
        BY <1>1, <1>6 DEF NeverCreated, Tag
      <4>3. QED
        BY <3>3, <4>1, <4>2 DEF Based
    <3>4. QED
      BY <3>1, <3>2, <3>3
  <2>4. last.gen = current
    BY <1>4, <2>2, <2>3 DEF Newest
  <2>5. QED
    BY <1>3, <2>4
<1>7. QED
  BY <1>5, <1>6

LEMMA OnSubscribeInFlight ==
  ASSUME TypeInv, TypeInv', Runtimes, Runtimes', Opening, InFlight, Onward, OnSubscribe
  PROVE  InFlight'
<1>1. PICK m : m = Head(toServer)
  OBVIOUS
<1>2. /\ toServer # <<>> /\ Head(toServer).type = "subscribe" /\ toServer' = Tail(toServer)
      /\ UNCHANGED <<server, link, store, captured, settled, rest>>
  BY DEF OnSubscribe, client
<1>3. /\ \/ /\ phase = "draft" /\ sub' = NoRuntime
            /\ toClient' = toClient \o <<DraftSnapshot, Reply(m, "ok")>>
         \/ /\ phase = "absent" /\ sub' = sub
            /\ toClient' = Append(toClient, Reply(m, "error"))
         \/ /\ current # NoRuntime /\ sub' = current
            /\ toClient' = Append(toClient \o Answer(m), Reply(m, "ok"))
  BY <1>1 DEF OnSubscribe
<1>4. PICK v : Following(v)
  BY DEF InFlight
<1>5. PICK first, last, q : first = v[0] /\ last = v[Len(toClient)] /\ q = toClient
  OBVIOUS
<1>6. Path(q, v, first, last)' /\ q \in Seq(ServerMessages)
  BY <1>4, <1>5, PathStays
<1>7. last \in Views /\ IsTrue(last)' /\ last = v[Len(q)]
  BY <1>4, <1>5, ViewsOf, StillTrue
<1>8. m \in ClientMessages /\ m.type = "subscribe" /\ m.from \in Stamps
  BY <1>1, <1>2, TakeRequest, RequestTypes DEF TypeInv
<1>9. PICK ok, no : ok = Reply(m, "ok") /\ no = Reply(m, "error")
  OBVIOUS
<1>10. ok \in Payload /\ ok \in ServerMessages /\ ok.type = "ok" /\ no \in ServerMessages /\ no.type = "error"
  BY <1>8, <1>9, Replies DEF Payload
<1>11. toServer' \in Seq(OldRequests') /\ q \in Seq(Calm') /\ q \in Seq(Allowed')
  <2>1. q \in Seq(Allowed')
    BY <1>2, <1>5, AllowedStays
  <2>2. CASE Harmless
    <3>1. toServer \in Seq(OldRequests') /\ toClient \in Seq(Calm')
      BY <1>2, <2>2, HarmlessStays
    <3>2. Tail(toServer) \in Seq(OldRequests')
      BY <1>2, <3>1, HeadTailProperties
    <3>3. QED
      BY <1>2, <1>5, <2>1, <3>1, <3>2
  <2>3. CASE Fresh(first)
    <3>1. toServer # <<Hello>>
      BY <1>2, PlainMessages
    <3>2. Len(toServer) = 1 /\ toClient = <<>>
      BY <1>2, <2>3, <3>1 DEF Fresh
    <3>3. Tail(toServer) = <<>>
      <4>1. Tail(toServer) \in Seq(ClientMessages) /\ Len(Tail(toServer)) = 0
        BY <1>2, <3>2, WireType, HeadTailProperties
      <4>2. QED
        BY <4>1, EmptySeq
    <3>4. <<>> \in Seq(OldRequests') /\ <<>> \in Seq(Calm')
      OBVIOUS
    <3>5. toServer' = <<>> /\ q = <<>>
      BY <1>2, <1>5, <3>2, <3>3
    <3>6. QED
      BY <2>1, <3>4, <3>5
  <2>4. QED
    BY <1>4, <1>5, <2>2, <2>3 DEF Following
<1>12. CASE /\ phase = "draft" /\ sub' = NoRuntime
            /\ toClient' = toClient \o <<DraftSnapshot, Reply(m, "ok")>>
  <2>1. PICK w : w = [gen |-> NoRuntime, upto |-> 0, tag |-> NoTag]
    OBVIOUS
  <2>2. w \in Views /\ w.gen = NoRuntime /\ w.upto = 0 /\ w.tag = NoTag /\ w.gen # Adrift
    BY <2>1 DEF Views, Tags, NoRuntime, Adrift
  <2>3. IsTrue(w)'
    <3>1. Tag(NoRuntime)' = NoTag
      BY DEF Tag, NoTag, NoRuntime
    <3>2. 0 <= 0
      OBVIOUS
    <3>3. QED
      BY <2>2, <3>1, <3>2 DEF IsTrue
  <2>4. Makes(last, DraftSnapshot, w)
    <3>1. EventsOf(NoRuntime, 0) = <<>>
      BY DEF EventsOf
    <3>2. Grows(last, w)
      BY <1>2, <1>4, <1>5, <1>12, OpeningShows DEF Grows, Early
    <3>3. QED
      BY <2>2, <3>1, <3>2 DEF Makes, DraftSnapshot, Empty
  <2>5. DraftSnapshot \in ServerMessages /\ DraftSnapshot \in Payload
    BY DraftSnapshotType DEF Payload
  <2>6. PICK q1 : q1 = Append(q, DraftSnapshot)
    OBVIOUS
  <2>7. q1 \in Seq(ServerMessages) /\ \E u : Path(q1, u, first, w)'
    BY <1>6, <2>2, <2>3, <2>4, <2>5, <2>6, MessageFollows
  <2>8. PICK u : Path(q1, u, first, w)'
    BY <2>7
  <2>9. q1 \in Seq(Calm') /\ q1 \in Seq(Allowed')
    BY <1>11, <2>5, <2>6, PayloadIsCalm
  <2>10. toClient' = Append(q1, ok)
    BY <1>5, <1>6, <1>9, <1>10, <1>12, <2>5, <2>6
  <2>11. Reached(w)' /\ Based(w)'
    BY <1>12, <2>2 DEF Reached, Based
  <2>12. QED
    BY <1>2, <1>4, <1>5, <1>10, <1>11, <2>2, <2>7, <2>8, <2>9, <2>10, <2>11, AnsweredInFlight
<1>13. CASE /\ phase = "absent" /\ sub' = sub
            /\ toClient' = Append(toClient, Reply(m, "error"))
  <2>1. NeverCreated
    <3>1. current = NoRuntime /\ held = NoRuntime /\ NoRuntime \notin created
      BY <1>13, LaunchedIs DEF Runtimes, TypeInv, ServerTypes, NoRuntime
    <3>2. QED
      BY <1>13, <3>1 DEF NeverCreated
  <2>2. no \in Allowed' /\ no \in Calm'
    BY <1>10, <2>1 DEF Allowed, Calm, Onward
  <2>3. PICK p : p = Append(q, no)
    OBVIOUS
  <2>4. p = toClient'
    BY <1>5, <1>9, <1>13, <2>3
  <2>5. Makes(last, no, last)
    BY <1>10 DEF Makes
  <2>6. \E u : Path(p, u, first, last)'
    BY <1>6, <1>7, <1>10, <2>3, <2>5, MessageFollows
  <2>7. PICK u : Path(p, u, first, last)'
    BY <2>6
  <2>8. Reached(last)' /\ Based(last)'
    <3>1. Reached(last)'
      BY <1>2, <1>4, <1>5, <1>13 DEF Following, Reached, server
    <3>2. Based(last) /\ (Early => Early')
      BY <1>2, <1>4, <1>5 DEF Following, server, Early
    <3>3. QED
      BY <3>1, <3>2, BasedStays
  <2>9. p \in Seq(Calm') /\ p \in Seq(Allowed')
    BY <1>11, <2>2, <2>3
  <2>10. Harmless'
    BY <1>11, <2>4, <2>9 DEF Harmless
  <2>11. QED
    BY <1>2, <1>4, <1>5, <2>4, <2>7, <2>8, <2>9, <2>10, PushedInFlight
<1>14. CASE /\ current # NoRuntime /\ sub' = current
            /\ toClient' = Append(toClient \o Answer(m), Reply(m, "ok"))
  <2>1. PICK g, seq : g = current /\ seq = bus[g].seq
    OBVIOUS
  <2>2. /\ g \in Generations /\ g # NoRuntime /\ g # Adrift /\ sub' = g
        /\ bus'[g].seq = seq /\ seq \in Nat
    <3>1. g \in Generations /\ bus' = bus
      BY <1>2, <1>14, <2>1, SomeRuntime DEF TypeInv, server
    <3>2. bus[g].seq \in Nat
      BY <3>1, Bounds DEF TypeInv, BusTypes, Stamps
    <3>3. g # Adrift
      BY <3>1 DEF Generations, Adrift
    <3>4. QED
      BY <1>14, <2>1, <3>1, <3>2, <3>3
  <2>3. CASE Answer(m) = <<SnapshotMessage(current)>>
    <3>1. PICK s : s = SnapshotMessage(g)
      OBVIOUS
    <3>2. PICK w \in Views : /\ w.gen = g /\ w.upto = bus[g].seq /\ w.tag = Tag(g)
                             /\ IsTrue(w)'
                             /\ \A x : Grows(x, w) => Makes(x, SnapshotMessage(g), w)
      BY <1>2, <2>1, <2>2, SnapshotLeads DEF server
    <3>3. s \in Payload /\ s \in ServerMessages
      BY <2>2, <3>1, SnapshotType DEF Payload, TypeInv
    <3>4. PICK q1 : q1 = Append(q, s)
      OBVIOUS
    <3>5. Makes(last, s, w)
      <4>1. Grows(last, w)
        BY <1>2, <1>4, <1>5, <1>14, <2>1, <3>2, SnapshotGrows
      <4>2. QED
        BY <3>1, <3>2, <4>1
    <3>6. q1 \in Seq(ServerMessages) /\ \E u : Path(q1, u, first, w)'
      BY <1>6, <3>2, <3>3, <3>4, <3>5, MessageFollows
    <3>7. PICK u : Path(q1, u, first, w)'
      BY <3>6
    <3>8. q1 \in Seq(Calm') /\ q1 \in Seq(Allowed')
      BY <1>11, <3>3, <3>4, PayloadIsCalm
    <3>9. toClient' = Append(q1, ok)
      BY <1>5, <1>6, <1>9, <1>14, <2>1, <2>3, <3>1, <3>3, <3>4
    <3>10. w.gen # Adrift /\ Reached(w)' /\ Based(w)'
      <4>1. w.gen # Adrift /\ Reached(w)'
        BY <2>1, <2>2, <3>2 DEF Reached
      <4>2. w.gen = current'
        BY <1>2, <2>1, <3>2 DEF server
      <4>3. QED
        BY <3>2, <4>1, <4>2, BasedHere
    <3>11. QED
      BY <1>2, <1>4, <1>5, <1>10, <1>11, <3>6, <3>7, <3>8, <3>9, <3>10, AnsweredInFlight
  <2>4. CASE /\ m.from > 0 /\ (Tag(current) = NoTag \/ m.tag = Tag(current))
             /\ \E n \in Nat : /\ Answer(m) = Run(current, m.from, n)
                               /\ m.from + n <= MaxEvents
                               /\ m.from <= bus[current].seq => m.from + n = bus[current].seq
    <3>1. PICK n \in Nat : /\ Answer(m) = Run(g, m.from, n) /\ m.from + n <= MaxEvents
                           /\ m.from <= bus[g].seq => m.from + n = bus[g].seq
      BY <2>1, <2>4
    <3>2. toClient = <<>> /\ first.gen = g /\ first.upto = m.from /\ m.from <= bus[g].seq
      BY <1>1, <1>2, <1>4, <1>5, <1>14, <2>1, <2>4, ReplayedPosition
    <3>3. PICK from \in Nat : from = m.from
      BY <1>8, Bounds DEF Stamps
    <3>4. last = first
      BY <1>5, <3>2
    <3>5. PICK end : end = Continued(last, g, from, n)
      OBVIOUS
    <3>6. PICK q1 : q1 = toClient \o Run(g, from, n)
      OBVIOUS
    <3>7. last.gen # Adrift => last.gen = g /\ last.upto = from
      BY <3>2, <3>3, <3>4
    <3>8. from + n = seq /\ from + n <= bus'[g].seq
      BY <2>1, <2>2, <3>1, <3>2, <3>3
    <3>9. q1 \in Seq(ServerMessages) /\ \E u : Path(q1, u, first, end)'
      BY <1>4, <1>5, <2>1, <2>2, <3>1, <3>3, <3>5, <3>6, <3>7, <3>8, RunFollows
    <3>10. PICK u : Path(q1, u, first, end)'
      BY <3>9
    <3>11. end.gen = g /\ end.upto = seq
      BY <2>2, <3>2, <3>4, <3>5, <3>8 DEF Continued
    <3>12. end.gen # Adrift /\ Reached(end)' /\ Based(end)'
      <4>1. end.gen # Adrift /\ Reached(end)'
        BY <2>2, <3>11 DEF Reached
      <4>2. end.gen = current' /\ end \in Views /\ IsTrue(end)'
        BY <1>2, <2>1, <3>9, <3>10, <3>11, PathEnd DEF server
      <4>3. QED
        BY <4>1, <4>2, BasedHere
    <3>13. q1 \in Seq(Calm') /\ q1 \in Seq(Allowed')
      <4>1. Run(g, from, n) \in Seq(Payload)
        BY <2>2, <3>1, <3>3, RunIsPayload
      <4>2. Run(g, from, n) \in Seq(Calm') /\ Run(g, from, n) \in Seq(Allowed')
        BY <4>1, PayloadIsCalm, SeqMonotonic
      <4>3. QED
        BY <1>5, <1>11, <3>6, <4>2
    <3>14. toClient' = Append(q1, ok)
      BY <1>9, <1>14, <3>1, <3>3, <3>6
    <3>15. QED
      BY <1>2, <1>4, <1>5, <1>10, <1>11, <3>9, <3>10, <3>12, <3>13, <3>14, AnsweredInFlight
  <2>5. QED
    BY <1>8, <1>14, <2>3, <2>4, AnswerIs DEF TypeInv
<1>15. QED
  BY <1>3, <1>12, <1>13, <1>14

LEMMA InitInFlight == Init => InFlight
<1> SUFFICES ASSUME Init PROVE InFlight
  OBVIOUS
<1>1. /\ link = "connecting" /\ sub = NoRuntime /\ toServer = <<>> /\ toClient = <<>>
      /\ transcript = <<>> /\ lastSeq = 0 /\ streamGeneration = NoTag /\ settled = FALSE
      /\ rest = "none"
  BY DEF Init, Begin, Empty
<1> DEFINE w == [gen |-> NoRuntime, upto |-> 0, tag |-> NoTag]
<1>2. w \in Views /\ w.gen = NoRuntime /\ w.upto = 0 /\ w.tag = NoTag /\ w.gen # Adrift
  BY DEF Views, Tags, NoRuntime, Adrift
<1> HIDE DEF w
<1>3. IsTrue(w)
  <2>1. Tag(NoRuntime) = NoTag
    BY DEF Tag, NoTag, NoRuntime
  <2>2. 0 <= 0
    OBVIOUS
  <2>3. QED
    BY <1>2, <2>1, <2>2 DEF IsTrue
<1>4. Shown(w)
  <2>1. EventsOf(NoRuntime, 0) = <<>>
    BY DEF EventsOf
  <2>2. QED
    BY <1>1, <1>2, <2>1 DEF Shown
<1>5. PICK v : Leads(<<>>, v) /\ v[0] = w
  BY <1>2, LeadsNowhere
<1>6. Following(v)
  <2>1. Leads(toClient, v) /\ Len(toClient) = 0
    BY <1>1, <1>5
  <2>2. \A k \in 0 .. Len(toClient) : IsTrue(v[k])
    BY <1>3, <1>5, <2>1
  <2>3. Reached(v[Len(toClient)]) /\ Based(v[Len(toClient)])
    BY <1>1, <1>2, <1>5, <2>1 DEF Reached, Based
  <2>4. Harmless
    <3>1. \A S : <<>> \in Seq(S)
      OBVIOUS
    <3>2. QED
      BY <1>1, <3>1 DEF Harmless
  <2>5. QED
    BY <1>4, <1>5, <2>1, <2>2, <2>3, <2>4 DEF Following
<1>7. Reconnects /\ toClient \in Seq(Allowed)
  BY <1>1 DEF Reconnects
<1>8. QED
  BY <1>6, <1>7 DEF InFlight

LEMMA StepInFlight ==
  ASSUME TypeInv, TypeInv', Runtimes, Runtimes', Opening, Onward, InFlight, [Next]_vars
  PROVE  InFlight'
<1>1. CASE RuntimeStep
  BY <1>1, EmitInFlight, FinishResumeInFlight, FinishStartInFlight, FailResumeInFlight,
     QuietStepInFlight DEF RuntimeStep
<1>2. CASE ServerStep
  BY <1>2, OnHelloInFlight, OnSubscribeInFlight DEF ServerStep
<1>3. CASE ClientStep
  BY <1>3, OnConnectedInFlight, OnHelloOkInFlight, OnSnapshotInFlight, OnEventInFlight,
     OnRebindInFlight, OnSubscribedInFlight, OnUnknownSessionInFlight, RestReturnsInFlight
     DEF ClientStep
<1>4. CASE Activate \/ Drop \/ Restart
  BY <1>4, ActivateInFlight, DropInFlight
<1>5. CASE UNCHANGED vars
  BY <1>5, StutterInFlight
<1>6. QED
  BY <1>1, <1>2, <1>3, <1>4, <1>5 DEF Next

-----------------------------------------------------------------------------
(* The session's beginnings.                                               *)

LEMMA InitOpening == Init => Opening
BY DEF Init, Begin, Opening

\* Messages that are not a handshake or a rebind are handled one after the other.
LEMMA OpeningHandled ==
  ASSUME Opening, Early, toClient # <<>>, Head(toClient).type # "hello_ok",
         toServer' = toServer, toClient' = Tail(toClient)
  PROVE  Opening' /\ Head(toClient) \in Payload
<1>1. toServer = <<>> /\ toClient \in Seq(Payload)
  BY DEF Opening
<1>2. Tail(toClient) \in Seq(Payload) /\ Head(toClient) \in Payload
  BY <1>1, HeadTailProperties
<1>3. Payload' = Payload
  BY DEF Payload, ServerMessages
<1>4. QED
  BY <1>1, <1>2, <1>3 DEF Opening

LEMMA LastRequest ==
  ASSUME TypeInv, toServer # <<>>, Len(toServer) = 1
  PROVE  Tail(toServer) = <<>>
<1>1. Tail(toServer) \in Seq(ClientMessages) /\ Len(Tail(toServer)) = 0
  BY WireType, HeadTailProperties
<1>2. QED
  BY <1>1, EmptySeq

LEMMA SubscribeOpening ==
  ASSUME TypeInv, Opening, Early, OnSubscribe
  PROVE  Opening'
<1>1. PICK m, ok : m = Head(toServer) /\ ok = Reply(m, "ok")
  OBVIOUS
<1>2. /\ toServer # <<>> /\ m.type = "subscribe" /\ toServer' = Tail(toServer)
      /\ \/ toClient' = toClient \o <<DraftSnapshot, ok>>
         \/ current # NoRuntime /\ toClient' = Append(toClient \o Answer(m), ok)
  BY <1>1 DEF OnSubscribe, Early
<1>3. Len(toServer) = 1 /\ toClient = <<>>
  BY <1>2 DEF Opening
<1>4. toServer' = <<>>
  BY <1>2, <1>3, LastRequest
<1>5. m \in ClientMessages /\ m.from \in Stamps
  BY <1>1, <1>2, TakeRequest, RequestTypes DEF TypeInv
<1>6. ok \in Payload
  BY <1>1, <1>2, <1>5, Replies, RequestTypes DEF Payload
<1>7. CASE toClient' = toClient \o <<DraftSnapshot, ok>>
  <2>1. DraftSnapshot \in Payload
    BY DraftSnapshotType DEF Payload
  <2>2. toClient' = <<DraftSnapshot, ok>>
    BY <1>3, <1>7
  <2>3. toClient' \in Seq(Payload)
    BY <1>6, <2>1, <2>2
  <2>4. QED
    BY <1>4, <2>3 DEF Opening, Payload, ServerMessages
<1>8. CASE current # NoRuntime /\ toClient' = Append(toClient \o Answer(m), ok)
  <2>1. current \in Generations /\ m.from \in Nat
    BY <1>5, <1>8, SomeRuntime, Bounds DEF TypeInv, Stamps
  <2>2. Answer(m) \in Seq(Payload)
    <3>1. CASE Answer(m) = <<SnapshotMessage(current)>>
      <4>1. SnapshotMessage(current) \in Payload
        BY <2>1, SnapshotType DEF Payload, TypeInv
      <4>2. QED
        BY <3>1, <4>1
    <3>2. CASE \E n \in Nat : Answer(m) = Run(current, m.from, n) /\ m.from + n <= MaxEvents
      BY <2>1, <3>2, RunIsPayload
    <3>3. QED
      BY <1>5, <1>8, <3>1, <3>2, AnswerIs DEF TypeInv
  <2>3. PICK answer : answer = Answer(m)
    OBVIOUS
  <2>4. toClient' = Append(<<>> \o answer, ok) /\ answer \in Seq(Payload)
    BY <1>3, <1>8, <2>2, <2>3
  <2>5. toClient' \in Seq(Payload)
    BY <1>6, <2>4
  <2>6. QED
    BY <1>4, <2>5 DEF Opening, Payload, ServerMessages
<1>9. QED
  BY <1>2, <1>7, <1>8

LEMMA StepOpening ==
  ASSUME TypeInv, Runtimes, Onward, Opening, InFlight, [Next]_vars
  PROVE  Opening'
<1>1. CASE ~Early
  BY <1>1 DEF Onward, Opening
<1> SUFFICES ASSUME Early, Early'
             PROVE  Opening'
  BY <1>1 DEF Opening
<1>2. Payload' = Payload
  BY DEF Payload, ServerMessages
<1>3. StartsAsDraft /\ ~NeverCreated
  BY DEF Runtimes, Early, NeverCreated
<1>4. CASE UNCHANGED <<sub, lastSeq, toServer, toClient>>
  BY <1>2, <1>4 DEF Opening
<1>5. CASE toServer' = <<>> /\ toClient' = <<>>
  BY <1>5 DEF Opening
<1>6. CASE Emit
  <2>1. /\ current # NoRuntime /\ current \in Generations /\ bus[current].seq \in Nat
        /\ bus[current].seq + 1 <= MaxEvents
    <3>1. current # NoRuntime /\ current \in Generations
      BY <1>6, SomeRuntime DEF Emit, TypeInv, ServerTypes
    <3>2. QED
      BY <1>6, <3>1, Bounds DEF Emit, TypeInv, BusTypes, Stamps
  <2>2. UNCHANGED <<sub, lastSeq, toServer>> /\ toClient' = Pushed(FanOut(current, 1))
    BY <1>6 DEF Emit, store
  <2>3. FanOut(current, 1) \in Seq(Payload) /\ (sub = NoRuntime => FanOut(current, 1) = <<>>)
    <3>1. CASE sub = current
      <4>1. Run(current, bus[current].seq, 1) \in Seq(Payload)
        BY <2>1, RunIsPayload
      <4>2. FanOut(current, 1) = Run(current, bus[current].seq, 1)
        BY <3>1, FanOutIs
      <4>3. QED
        BY <2>1, <3>1, <4>1, <4>2
    <3>2. CASE sub # current
      <4>1. FanOut(current, 1) = <<>>
        BY <3>2, FanOutIs
      <4>2. <<>> \in Seq(Payload)
        OBVIOUS
      <4>3. QED
        BY <4>1, <4>2
    <3>3. QED
      BY <2>1, <3>1, <3>2
  <2>4. PICK run : run = FanOut(current, 1)
    OBVIOUS
  <2>5. run \in Seq(Payload) /\ toClient' \in {toClient, toClient \o run} /\ (sub = NoRuntime => run = <<>>)
    BY <2>2, <2>3, <2>4 DEF Pushed
  <2>6. CASE sub = NoRuntime
    <3>1. toClient' = toClient
      BY <2>5, <2>6, WireType
    <3>2. QED
      BY <1>4, <2>2, <3>1
  <2>7. CASE sub # NoRuntime
    <3>1. toServer = <<>> /\ toClient \in Seq(Payload)
      BY <2>7 DEF Opening
    <3>2. toClient \o run \in Seq(Payload)
      BY <2>5, <3>1
    <3>3. toClient' \in Seq(Payload)
      BY <2>5, <3>1, <3>2
    <3>4. QED
      BY <1>2, <2>2, <3>1, <3>3 DEF Opening
  <2>8. QED
    BY <2>6, <2>7
<1>7. CASE Park \/ Exit \/ Destroy \/ Launch \/ FinishResume \/ FailResume \/ FinishStart
  BY <1>7 DEF Park, Exit, Destroy, Launch, FinishResume, FailResume, FinishStart, Early
<1>8. CASE StartDraft \/ FailStart
  BY <1>4, <1>8 DEF StartDraft, FailStart, connection, store
<1>9. CASE OnHello
  <2>1. /\ toServer # <<>> /\ toServer' = Tail(toServer)
        /\ toClient' = Append(toClient, [type |-> "hello_ok"]) /\ UNCHANGED <<sub, lastSeq>>
    BY <1>9 DEF OnHello, store
  <2>2. sub = NoRuntime /\ lastSeq = 0 /\ Len(toServer) = 1 /\ toClient = <<>>
    BY <2>1 DEF Opening
  <2>3. Tail(toServer) = <<>>
    BY <2>1, <2>2, LastRequest
  <2>4. toClient' = <<[type |-> "hello_ok"]>>
    BY <2>1, <2>2
  <2>5. QED
    BY <2>1, <2>2, <2>3, <2>4 DEF Opening
<1>10. CASE OnSubscribe
  BY <1>10, SubscribeOpening
<1>11. CASE OnConnected
  <2>1. /\ link # "up" /\ toServer' = <<Hello>> /\ UNCHANGED <<sub, toClient, lastSeq>>
    BY <1>11 DEF OnConnected, store
  <2>2. sub = NoRuntime /\ toClient = <<>>
    BY <2>1 DEF TypeInv, ConnectionTypes
  <2>3. lastSeq = 0
    BY <1>3, <2>1 DEF InFlight, Reconnects
  <2>4. QED
    BY <2>1, <2>2, <2>3 DEF Opening
<1>12. CASE OnHelloOk
  <2>1. PICK m : toServer' = Append(toServer, m)
    BY <1>12 DEF OnHelloOk
  <2>2. /\ toClient # <<>> /\ Head(toClient).type = "hello_ok"
        /\ toClient' = Tail(toClient) /\ UNCHANGED <<sub, lastSeq>>
    BY <1>12 DEF OnHelloOk, Receive, store
  <2>3. CASE toServer = <<>> /\ toClient \in Seq(Payload)
    <3>1. Head(toClient) \in Payload
      BY <2>2, <2>3, HeadTailProperties
    <3>2. QED
      BY <2>2, <3>1 DEF Payload
  <2>4. CASE sub = NoRuntime /\ lastSeq = 0 /\ toServer = <<>> /\ toClient = <<[type |-> "hello_ok"]>>
    <3>1. toServer' = <<m>> /\ toClient' = <<>>
      BY <2>1, <2>2, <2>4
    <3>2. QED
      BY <2>2, <2>4, <3>1 DEF Opening
  <2>5. QED
    BY <2>2, <2>3, <2>4 DEF Opening
<1>13. CASE OnSnapshot \/ OnEvent \/ OnSubscribed \/ OnUnknownSession
  <2>1. /\ toClient # <<>> /\ Head(toClient).type # "hello_ok"
        /\ toServer' = toServer /\ toClient' = Tail(toClient)
    BY <1>13 DEF OnSnapshot, OnEvent, OnSubscribed, OnUnknownSession, Receive
  <2>2. QED
    BY <2>1, OpeningHandled
<1>14. CASE OnRebind
  <2>1. toClient # <<>> /\ Head(toClient).type = "session_rebind"
    BY <1>14 DEF OnRebind, Receive
  <2>2. toClient \in Seq(Payload)
    BY <2>1 DEF Opening
  <2>3. Head(toClient) \in Payload
    BY <2>1, <2>2, HeadTailProperties
  <2>4. QED
    BY <2>1, <2>3 DEF Payload
<1>15. CASE RestReturns \/ Activate \/ Drop \/ Restart
  BY <1>5, <1>15 DEF RestReturns, Activate, Drop, Restart, Disconnected
<1>16. CASE UNCHANGED vars
  BY <1>4, <1>16 DEF vars
<1>17. QED
  BY <1>6, <1>7, <1>8, <1>9, <1>10, <1>11, <1>12, <1>13, <1>14, <1>15, <1>16
     DEF Next, RuntimeStep, ServerStep, ClientStep

LEMMA StreamsAlways ==
  ASSUME Gapless
  PROVE  Spec => []StreamInv
<1>1. Init => StreamInv
  BY InitTypes, InitRuntimes, InitOpening, InitInFlight DEF StreamInv
<1>2. StreamInv /\ [Next]_vars => StreamInv'
  BY StepTypes, StepRuntimes, StepOpening, StepInFlight DEF StreamInv
<1>3. QED
  BY <1>1, <1>2, PTL DEF Spec

\* What the store shows, when it is not adrift.
LEMMA StoreShows ==
  ASSUME StreamInv
  PROVE  \E w \in Views :
           /\ Shown(w) /\ IsTrue(w)
           /\ toClient = <<>> => Reached(w)
<1>1. PICK v : Following(v)
  BY DEF StreamInv, InFlight
<1>2. v[0] \in Views /\ IsTrue(v[0]) /\ Shown(v[0])
  BY <1>1, ViewsOf DEF StreamInv, Following
<1>3. toClient = <<>> => Reached(v[0])
  BY <1>1 DEF Following
<1>4. QED
  BY <1>2, <1>3

\* What a settled renderer shows is a prefix of one runtime's events: no replay, late
\* event, rebind or superseded answer makes it skip, double or mix events.
THEOREM OneStreamShown ==
  ASSUME Gapless
  PROVE  Spec => []SettledShowsOneStream
<1>1. StreamInv => SettledShowsOneStream
  <2> SUFFICES ASSUME StreamInv, settled
               PROVE  \E g \in Generations : transcript = EventsOf(g, lastSeq)
    BY DEF SettledShowsOneStream, Prefix
  <2>1. PICK w \in Views : Shown(w) /\ IsTrue(w)
    BY StoreShows
  <2>2. /\ w.gen # Adrift /\ w.gen \in {NoRuntime} \cup Launched /\ w.upto \in Nat
        /\ transcript = EventsOf(w.gen, w.upto) /\ lastSeq = w.upto
    BY <2>1 DEF Shown, IsTrue, Views
  <2>3. CASE w.gen = NoRuntime
    <3>1. w.upto = 0
      BY <2>1, <2>2, <2>3 DEF IsTrue
    <3>2. EventsOf(w.gen, 0) = EventsOf(1, 0) /\ 1 \in Generations
      BY Bounds DEF EventsOf, Generations
    <3>3. QED
      BY <2>2, <3>1, <3>2
  <2>4. CASE w.gen \in Launched
    BY <2>2, <2>4, LaunchedIs DEF StreamInv, TypeInv
  <2>5. QED
    BY <2>2, <2>3, <2>4
<1>2. Spec => []StreamInv
  BY StreamsAlways
<1>3. QED
  BY <1>1, <1>2, PTL

\* A tagged position names exactly the events shown, in every state: it is what makes
\* serving a replay from it safe.
THEOREM ClaimsAreHonest ==
  ASSUME Gapless
  PROVE  Spec => []ClaimIsHonest
<1>1. StreamInv => ClaimIsHonest
  <2> SUFFICES ASSUME StreamInv, streamGeneration # NoTag
               PROVE  transcript = EventsOf(streamGeneration, lastSeq)
    BY DEF ClaimIsHonest
  <2>1. PICK w \in Views : Shown(w) /\ IsTrue(w)
    BY StoreShows
  <2>2. /\ w.gen # Adrift /\ w.tag = Tag(w.gen) /\ streamGeneration = w.tag
        /\ transcript = EventsOf(w.gen, w.upto) /\ lastSeq = w.upto
    BY <2>1 DEF Shown, IsTrue
  <2>3. w.tag = w.gen
    BY <2>2 DEF Tag
  <2>4. QED
    BY <2>2, <2>3
<1>2. Spec => []StreamInv
  BY StreamsAlways
<1>3. QED
  BY <1>1, <1>2, PTL

\* A settled renderer subscribed to the session's runtime, with nothing on its way,
\* shows every event of it: whatever was dropped, evicted or superseded on the way, the
\* replay and the snapshots left no gap.
THEOREM NothingIsMissed ==
  ASSUME Gapless
  PROVE  Spec => []NothingMissed
<1>1. StreamInv => NothingMissed
  <2> SUFFICES ASSUME StreamInv, settled, sub = current, current # NoRuntime, toClient = <<>>
               PROVE  transcript = EventsOf(current, bus[current].seq)
    BY DEF NothingMissed
  <2>1. PICK w \in Views : Shown(w) /\ IsTrue(w) /\ Reached(w)
    BY StoreShows
  <2>2. w.gen # Adrift /\ transcript = EventsOf(w.gen, w.upto)
    BY <2>1 DEF Shown
  <2>3. w.gen = current /\ w.upto = bus[current].seq
    BY <2>1, <2>2 DEF Reached
  <2>4. QED
    BY <2>2, <2>3
<1>2. Spec => []StreamInv
  BY StreamsAlways
<1>3. QED
  BY <1>1, <1>2, PTL

\* The first events are a prefix of the first few more.
LEMMA EventsPrefix ==
  ASSUME NEW g, NEW h, NEW m \in Nat, NEW n \in Nat, m = 0 \/ (g = h /\ m <= n)
  PROVE  IsPrefix(EventsOf(g, m), EventsOf(h, n))
<1> DEFINE S == {<<f, i>> : f \in {g, h}, i \in Nat}
           s == EventsOf(g, m)
           t == EventsOf(h, n)
<1>1. s \in Seq(S) /\ Len(s) = m /\ t \in Seq(S) /\ Len(t) = n
  BY DEF EventsOf
<1>2. m <= n /\ \A i \in 1 .. m : s[i] = t[i]
  BY DEF EventsOf
<1> HIDE DEF s, t, S
<1>3. SubSeq(s, 1, m) = SubSeq(t, 1, m)
  BY <1>1, <1>2
<1>4. IsPrefix(s, t)
  BY <1>1, <1>2, <1>3 DEF IsPrefix
<1>5. QED
  BY <1>4 DEF s, t

\* What a settled renderer shows only grows while it stays settled under one tag: no late
\* snapshot, whichever subscription it answers, takes back an event that was shown.
THEOREM ShownIsNeverTakenBack ==
  ASSUME Gapless
  PROVE  Spec => SettledViewGrows
<1>1. ASSUME StreamInv, [Next]_vars, settled, settled', streamGeneration' = streamGeneration
      PROVE  lastSeq' >= lastSeq /\ IsPrefix(transcript, transcript')
  <2>1. PICK v : Following(v)
    BY <1>1 DEF StreamInv, InFlight
  <2>2. PICK w \in Views : w = v[0] /\ Shown(w)
    BY <1>1, <2>1, ViewsOf DEF StreamInv, Following
  <2>3. /\ w.gen # Adrift /\ w.upto \in Nat
        /\ transcript = EventsOf(w.gen, w.upto) /\ lastSeq = w.upto /\ streamGeneration = w.tag
    BY <1>1, <2>2 DEF Shown, Views
  <2>4. ASSUME NEW x \in Views, transcript' = EventsOf(x.gen, x.upto), lastSeq' = x.upto,
               w.upto = 0 \/ (w.gen = x.gen /\ w.upto <= x.upto)
        PROVE  lastSeq' >= lastSeq /\ IsPrefix(transcript, transcript')
    <3>1. x.upto \in Nat
      BY DEF Views
    <3>2. QED
      BY <2>3, <2>4, <3>1, EventsPrefix
  <2>5. CASE UNCHANGED <<transcript, lastSeq>>
    BY <2>2, <2>3, <2>4, <2>5
  <2>6. CASE OnSnapshot
    <3>1. /\ toClient # <<>> /\ Head(toClient).type = "snapshot"
          /\ transcript' = Head(toClient).state /\ lastSeq' = Head(toClient).stamp
          /\ streamGeneration' = Head(toClient).tag
      BY <2>6 DEF OnSnapshot, Receive
    <3>2. PICK x \in Views : Makes(w, Head(toClient), x)
      BY <1>1, <2>1, <2>2, <3>1, WireType, LeadsTail DEF StreamInv, Following
    <3>3. /\ transcript' = EventsOf(x.gen, x.upto) /\ lastSeq' = x.upto
          /\ streamGeneration' = x.tag /\ Grows(w, x)
      BY <3>1, <3>2 DEF Makes
    <3>4. QED
      BY <1>1, <2>3, <2>4, <3>3 DEF Grows
  <2>7. CASE OnEvent
    <3>1. toClient # <<>> /\ Head(toClient).type = "event" /\ ApplyEvent(Head(toClient))
      BY <2>7 DEF OnEvent, Receive
    <3>2. PICK x \in Views : Makes(w, Head(toClient), x)
      BY <1>1, <2>1, <2>2, <3>1, WireType, LeadsTail DEF StreamInv, Following
    <3>3. /\ Head(toClient).event = <<w.gen, w.upto + 1>> /\ Head(toClient).stamp = w.upto + 1
          /\ x.gen = w.gen /\ x.upto = w.upto + 1
      BY <2>3, <3>1, <3>2 DEF Makes
    <3>4. transcript' = Append(transcript, Head(toClient).event) /\ lastSeq' = w.upto + 1
      BY <2>3, <3>1, <3>3 DEF ApplyEvent
    <3>5. transcript' = EventsOf(x.gen, x.upto)
      BY <2>3, <3>3, <3>4, EventsGrow
    <3>6. QED
      BY <2>3, <2>4, <3>3, <3>4, <3>5
  <2>8. CASE OnRebind \/ RestReturns \/ Activate \/ Drop \/ Restart
    BY <1>1, <2>8 DEF OnRebind, RestReturns, Activate, Drop, Restart, Disconnected
  <2>9. CASE \/ RuntimeStep \/ ServerStep \/ OnConnected \/ OnHelloOk \/ OnSubscribed
             \/ OnUnknownSession
    <3>1. store' = store \/ settled' = FALSE
      BY <2>9 DEF RuntimeStep, Emit, Park, Exit, Destroy, Launch, FinishResume, FailResume,
                  StartDraft, FinishStart, FailStart, ServerStep, OnHello, OnSubscribe,
                  OnConnected, OnHelloOk, OnSubscribed, OnUnknownSession, store
    <3>2. QED
      BY <1>1, <2>5, <3>1 DEF store
  <2>10. QED
    BY <1>1, <2>5, <2>6, <2>7, <2>8, <2>9 DEF Next, ClientStep, vars
<1>2. StreamInv /\ [Next]_vars =>
        [settled /\ settled' /\ streamGeneration' = streamGeneration =>
           lastSeq' >= lastSeq /\ IsPrefix(transcript, transcript')]_vars
  BY <1>1
<1>3. Spec => []StreamInv
  BY StreamsAlways
<1>4. QED
  BY <1>2, <1>3, PTL DEF Spec, SettledViewGrows
=============================================================================
