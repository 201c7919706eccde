------------------------------ MODULE DataLemmas ------------------------------
(***************************************************************************)
(* Lemmas about numbers, recursive functions and sequences that the proofs *)
(* of several modules need.                                                *)
(***************************************************************************)
EXTENDS Integers, SequencesExt, SequenceTheorems, WellFoundedInduction, TLAPS

\* A nonempty set of natural numbers has a least element.
LEMMA LeastNat ==
  ASSUME NEW T \in SUBSET Nat, T # {}
  PROVE  \E n \in T : \A k \in T : n <= k
<1>1. PICK n \in T : \A k \in T : ~(<<k, n>> \in OpToRel(<, Nat))
  BY NatLessThanWellFounded, WFMin
<1>2. \A k \in T : ~(k < n)
  BY <1>1 DEF OpToRel
<1>3. QED
  BY <1>2

\* A nonempty set of numbers up to n has a greatest element.
LEMMA GreatestNat ==
  ASSUME NEW n \in Nat, NEW T \in SUBSET (0 .. n), T # {}
  PROVE  \E m \in T : \A k \in T : k <= m
<1> DEFINE D == {n - k : k \in T}
<1>1. D \in SUBSET Nat /\ D # {}
  <2>1. \A k \in T : k \in 0 .. n
    OBVIOUS
  <2>2. \A k \in T : n - k \in Nat
    BY <2>1
  <2>3. QED
    BY <2>2
<1>2. PICK d \in D : \A e \in D : d <= e
  BY <1>1, LeastNat
<1>3. PICK m \in T : d = n - m
  BY <1>2
<1>4. ASSUME NEW k \in T PROVE k <= m
  <2>1. n - k \in D
    OBVIOUS
  <2>2. n - m <= n - k
    BY <1>2, <1>3, <2>1
  <2>3. k \in 0 .. n /\ m \in 0 .. n
    OBVIOUS
  <2>4. QED
    BY <2>2, <2>3
<1>5. QED
  BY <1>4

-----------------------------------------------------------------------------
(* Repeating a step, for the loops that are written as recursive functions. *)

\* What holds before the first turn and is kept by each turn holds after all of them.
LEMMA TurnsKeep ==
  ASSUME NEW n \in Nat, NEW K, 0 \in K, \A k \in 1 .. n : k - 1 \in K => k \in K
  PROVE  \A k \in 0 .. n : k \in K
<1> DEFINE T == {k \in 0 .. n : k \notin K}
<1>1. SUFFICES ASSUME T # {} PROVE FALSE
  OBVIOUS
<1>2. PICK m \in T : \A k \in T : m <= k
  <2>1. T \in SUBSET Nat
    OBVIOUS
  <2>2. QED
    BY <2>1, <1>1, LeastNat
<1>3. m \in 1 .. n
  OBVIOUS
<1>4. m - 1 \in 0 .. n /\ ~(m <= m - 1)
  BY <1>3
<1>5. m - 1 \in K
  BY <1>2, <1>4
<1>6. QED
  BY <1>2, <1>3, <1>5

\* f[k] is what k turns make of s; turn k is the function g[k].
Turns(f, n, s, g) == f[0] = s /\ \A k \in 1 .. n : f[k] = g[k][f[k - 1]]

\* Turns from S to S can be made any number of times.
LEMMA TurnsExist ==
  ASSUME NEW n \in Nat, NEW S, NEW s \in S, NEW g \in [1 .. n -> [S -> S]]
  PROVE  \E f \in [0 .. n -> S] : Turns(f, n, s, g)
<1> DEFINE Runs(m, f) == f \in [0 .. m -> S] /\ Turns(f, m, s, g)
           T == {m \in 0 .. n : ~ \E f : Runs(m, f)}
<1>1. SUFFICES ASSUME T # {} PROVE FALSE
  <2>1. n \in 0 .. n
    OBVIOUS
  <2>2. QED
    BY <2>1
<1>2. PICK m \in T : \A k \in T : m <= k
  <2>1. T \in SUBSET Nat
    OBVIOUS
  <2>2. QED
    BY <2>1, <1>1, LeastNat
<1>3. m # 0
  <2>1. Runs(0, [k \in 0 .. 0 |-> s])
    BY DEF Turns
  <2>2. QED
    BY <1>2, <2>1
<1>4. m \in 1 .. n /\ m - 1 \in 0 .. n /\ ~(m <= m - 1)
  BY <1>3
<1>5. PICK f : Runs(m - 1, f)
  BY <1>2, <1>4
<1> DEFINE h == [k \in 0 .. m |-> IF k = m THEN g[m][f[m - 1]] ELSE f[k]]
<1>6. Runs(m, h)
  <2>1. f \in [0 .. m - 1 -> S] /\ m - 1 \in 0 .. m - 1
    BY <1>4, <1>5
  <2>2. g[m][f[m - 1]] \in S
    BY <1>4, <2>1
  <2>3. h \in [0 .. m -> S]
    BY <1>4, <2>1, <2>2
  <2>4. h[0] = s
    BY <1>4, <1>5 DEF Turns
  <2>5. ASSUME NEW k \in 1 .. m PROVE h[k] = g[k][h[k - 1]]
    <3>1. k - 1 \in 0 .. m /\ k - 1 # m
      BY <1>4
    <3>2. h[k - 1] = f[k - 1]
      BY <3>1
    <3>3. CASE k = m
      BY <3>2, <3>3
    <3>4. CASE k # m
      <4>1. k \in 1 .. m - 1 /\ k \in 0 .. m
        BY <3>4, <1>4
      <4>2. QED
        BY <4>1, <3>2, <3>4, <1>5 DEF Turns
    <3>5. QED
      BY <3>3, <3>4
  <2>6. QED
    BY <2>3, <2>4, <2>5 DEF Turns
<1>7. QED
  BY <1>2, <1>6

-----------------------------------------------------------------------------
(* Sequences with an element more or less.                                  *)

\* An element put into a sequence
LEMMA Inserted ==
  ASSUME NEW S, NEW s \in Seq(S), NEW i \in 1 .. Len(s) + 1, NEW e \in S
  PROVE  /\ InsertAt(s, i, e) \in Seq(S)
         /\ Len(InsertAt(s, i, e)) = Len(s) + 1
         /\ \A k \in 1 .. Len(s) + 1 :
              InsertAt(s, i, e)[k] = IF k < i THEN s[k] ELSE IF k = i THEN e ELSE s[k - 1]
<1> DEFINE u == SubSeq(s, 1, i - 1)
           v == SubSeq(s, i, Len(s))
           w == u \o <<e>>
<1>1. /\ u \in Seq(S) /\ Len(u) = i - 1
      /\ \A k \in 1 .. i - 1 : u[k] = s[k]
  OBVIOUS
<1>2. /\ v \in Seq(S) /\ Len(v) = Len(s) + 1 - i
      /\ \A k \in 1 .. Len(s) + 1 - i : v[k] = s[i + k - 1]
  OBVIOUS
<1>3. <<e>> \in Seq(S) /\ Len(<<e>>) = 1 /\ <<e>>[1] = e
  OBVIOUS
<1> HIDE DEF u, v
<1>4. /\ w \in Seq(S) /\ Len(w) = i
      /\ \A k \in 1 .. i : w[k] = IF k < i THEN s[k] ELSE e
  BY <1>1, <1>3, ConcatProperties
<1> HIDE DEF w
<1>5. InsertAt(s, i, e) = w \o v
  BY DEF InsertAt, u, v, w
<1>6. /\ w \o v \in Seq(S) /\ Len(w \o v) = Len(s) + 1
      /\ \A k \in 1 .. Len(s) + 1 :
           (w \o v)[k] = IF k <= i THEN w[k] ELSE v[k - i]
  <2>1. /\ w \o v \in Seq(S) /\ Len(w \o v) = Len(w) + Len(v)
        /\ \A k \in 1 .. Len(w) + Len(v) :
             (w \o v)[k] = IF k <= Len(w) THEN w[k] ELSE v[k - Len(w)]
    BY <1>2, <1>4, ConcatProperties
  <2>2. Len(w) + Len(v) = Len(s) + 1
    BY <1>2, <1>4
  <2>3. QED
    BY <1>4, <2>1, <2>2
<1>7. ASSUME NEW k \in 1 .. Len(s) + 1
      PROVE  (w \o v)[k] = IF k < i THEN s[k] ELSE IF k = i THEN e ELSE s[k - 1]
  <2>1. CASE k <= i
    <3>1. k \in 1 .. i
      BY <2>1
    <3>2. QED
      BY <2>1, <3>1, <1>4, <1>6
  <2>2. CASE ~(k <= i)
    <3>1. k - i \in 1 .. Len(s) + 1 - i /\ i + (k - i) - 1 = k - 1
      BY <2>2
    <3>2. v[k - i] = s[k - 1]
      BY <3>1, <1>2
    <3>3. QED
      BY <2>2, <3>2, <1>6
  <2>3. QED
    BY <2>1, <2>2
<1>8. QED
  BY <1>5, <1>6, <1>7

\* An element taken out of a sequence
LEMMA Removed ==
  ASSUME NEW S, NEW s \in Seq(S), NEW i \in 1 .. Len(s)
  PROVE  /\ RemoveAt(s, i) \in Seq(S)
         /\ Len(RemoveAt(s, i)) = Len(s) - 1
         /\ \A k \in 1 .. Len(s) - 1 : RemoveAt(s, i)[k] = IF k < i THEN s[k] ELSE s[k + 1]
<1> DEFINE u == SubSeq(s, 1, i - 1)
           v == SubSeq(s, i + 1, Len(s))
<1>1. /\ u \in Seq(S) /\ Len(u) = i - 1
      /\ \A k \in 1 .. i - 1 : u[k] = s[k]
  OBVIOUS
<1>2. /\ v \in Seq(S) /\ Len(v) = Len(s) - i
      /\ \A k \in 1 .. Len(s) - i : v[k] = s[i + k]
  OBVIOUS
<1> HIDE DEF u, v
<1>3. RemoveAt(s, i) = u \o v
  BY DEF RemoveAt, u, v
<1>4. /\ u \o v \in Seq(S) /\ Len(u \o v) = Len(s) - 1
      /\ \A k \in 1 .. Len(s) - 1 :
           (u \o v)[k] = IF k <= i - 1 THEN u[k] ELSE v[k - (i - 1)]
  <2>1. Len(u) + Len(v) = Len(s) - 1
    BY <1>1, <1>2
  <2>2. /\ u \o v \in Seq(S) /\ Len(u \o v) = Len(u) + Len(v)
        /\ \A k \in 1 .. Len(u) + Len(v) :
             (u \o v)[k] = IF k <= Len(u) THEN u[k] ELSE v[k - Len(u)]
    BY <1>1, <1>2, ConcatProperties
  <2>3. QED
    BY <2>1, <2>2, <1>1
<1>5. ASSUME NEW k \in 1 .. Len(s) - 1
      PROVE  (u \o v)[k] = IF k < i THEN s[k] ELSE s[k + 1]
  <2>1. CASE k <= i - 1
    BY <2>1, <1>1, <1>4
  <2>2. CASE ~(k <= i - 1)
    <3>1. k - (i - 1) \in 1 .. Len(s) - i /\ i + (k - (i - 1)) = k + 1
      BY <2>2
    <3>2. v[k - (i - 1)] = s[k + 1]
      BY <3>1, <1>2
    <3>3. ~(k < i)
      BY <2>2
    <3>4. QED
      BY <2>2, <3>2, <3>3, <1>4
  <2>3. QED
    BY <2>1, <2>2
<1>6. QED
  BY <1>3, <1>4, <1>5

-----------------------------------------------------------------------------
(* Queues.                                                                  *)

IsQueue(s) == s \in Seq(ToSet(s))

\* A sequence is a queue of its elements.
LEMMA QueueOf ==
  ASSUME NEW S, NEW s \in Seq(S)
  PROVE  IsQueue(s) /\ ToSet(s) \subseteq S /\ Len(s) \in Nat /\ DOMAIN s = 1 .. Len(s)
<1>1. Len(s) \in Nat /\ DOMAIN s = 1 .. Len(s) /\ \A k \in 1 .. Len(s) : s[k] \in S
  OBVIOUS
<1>2. \A k \in 1 .. Len(s) : s[k] \in ToSet(s)
  BY <1>1 DEF ToSet
<1>3. ToSet(s) \subseteq S
  BY <1>1 DEF ToSet
<1>4. s = [k \in 1 .. Len(s) |-> s[k]]
  OBVIOUS
<1> HIDE DEF ToSet
<1>5. s \in Seq(ToSet(s))
  BY <1>1, <1>2, <1>4
<1>6. QED
  BY <1>1, <1>3, <1>5 DEF IsQueue

\* The elements of a queue
LEMMA QueueParts ==
  ASSUME NEW s, IsQueue(s)
  PROVE  /\ Len(s) \in Nat /\ DOMAIN s = 1 .. Len(s) /\ s = [k \in 1 .. Len(s) |-> s[k]]
         /\ \A k \in 1 .. Len(s) : s[k] \in ToSet(s)
         /\ \A e \in ToSet(s) : \E k \in 1 .. Len(s) : s[k] = e
<1>1. Len(s) \in Nat /\ DOMAIN s = 1 .. Len(s) /\ s = [k \in 1 .. Len(s) |-> s[k]]
  BY DEF IsQueue
<1>2. QED
  BY <1>1 DEF ToSet

\* The empty queue
LEMMA QueueEmpty == IsQueue(<<>>) /\ ToSet(<<>>) = {}
<1> DEFINE s == <<>>
           S == {}
<1>1. s \in Seq(S)
  OBVIOUS
<1> HIDE DEF s
<1>2. IsQueue(s) /\ ToSet(s) \subseteq S
  BY <1>1, QueueOf
<1>3. QED
  BY <1>2 DEF s

\* A queue to which an element is appended
LEMMA QueueAppended ==
  ASSUME NEW s, IsQueue(s), NEW e
  PROVE  /\ IsQueue(Append(s, e)) /\ ToSet(Append(s, e)) = ToSet(s) \cup {e}
         /\ Len(Append(s, e)) = Len(s) + 1 /\ Append(s, e)[Len(s) + 1] = e
         /\ \A k \in 1 .. Len(s) : Append(s, e)[k] = s[k]
<1> DEFINE S == ToSet(s) \cup {e}
           t == Append(s, e)
<1>1. s \in Seq(S) /\ e \in S
  BY DEF IsQueue
<1>2. /\ t \in Seq(S) /\ Len(t) = Len(s) + 1 /\ t[Len(s) + 1] = e
      /\ \A k \in 1 .. Len(s) : t[k] = s[k]
  BY <1>1
<1>3. Len(s) \in Nat /\ DOMAIN t = 1 .. Len(s) + 1 /\ DOMAIN s = 1 .. Len(s)
  BY <1>1, <1>2
<1> HIDE DEF t
<1>4. IsQueue(t) /\ ToSet(t) \subseteq S
  BY <1>2, QueueOf
<1>5. S \subseteq ToSet(t)
  <2>1. \A k \in 1 .. Len(s) : k \in 1 .. Len(s) + 1
    BY <1>3
  <2>2. Len(s) + 1 \in 1 .. Len(s) + 1
    BY <1>3
  <2>3. QED
    BY <1>2, <1>3, <2>1, <2>2 DEF ToSet
<1>6. QED
  BY <1>2, <1>4, <1>5 DEF t

\* Two queues, one after the other
LEMMA QueueJoined ==
  ASSUME NEW s, IsQueue(s), NEW t, IsQueue(t)
  PROVE  IsQueue(s \o t) /\ ToSet(s \o t) = ToSet(s) \cup ToSet(t)
<1> DEFINE S == ToSet(s) \cup ToSet(t)
           u == s \o t
<1>1. s \in Seq(S) /\ t \in Seq(S) /\ Len(s) \in Nat /\ Len(t) \in Nat
      /\ DOMAIN s = 1 .. Len(s) /\ DOMAIN t = 1 .. Len(t)
  BY DEF IsQueue
<1>2. /\ u \in Seq(S) /\ Len(u) = Len(s) + Len(t)
      /\ \A k \in 1 .. Len(s) + Len(t) : u[k] = IF k <= Len(s) THEN s[k] ELSE t[k - Len(s)]
  BY <1>1, ConcatProperties
<1> HIDE DEF u
<1>3. IsQueue(u) /\ ToSet(u) \subseteq S /\ DOMAIN u = 1 .. Len(s) + Len(t)
  BY <1>2, QueueOf
<1>4. \A k \in 1 .. Len(s) : k \in DOMAIN u /\ u[k] = s[k]
  BY <1>1, <1>2, <1>3
<1>5. ASSUME NEW k \in 1 .. Len(t) PROVE k + Len(s) \in DOMAIN u /\ u[k + Len(s)] = t[k]
  <2>1. k + Len(s) \in 1 .. Len(s) + Len(t) /\ ~(k + Len(s) <= Len(s)) /\ k + Len(s) - Len(s) = k
    BY <1>1
  <2>2. QED
    BY <1>2, <1>3, <2>1
<1>6. S \subseteq ToSet(u)
  BY <1>1, <1>4, <1>5 DEF ToSet
<1>7. QED
  BY <1>3, <1>6 DEF u

\* A queue from which the first element is taken
LEMMA QueueTaken ==
  ASSUME NEW s, IsQueue(s), s # <<>>
  PROVE  /\ Head(s) = s[1] /\ Head(s) \in ToSet(s) /\ 1 \in DOMAIN s
         /\ IsQueue(Tail(s)) /\ ToSet(Tail(s)) \subseteq ToSet(s)
         /\ Len(Tail(s)) = Len(s) - 1
         /\ \A k \in 1 .. Len(s) - 1 : Tail(s)[k] = s[k + 1]
<1>1. s \in Seq(ToSet(s)) /\ Len(s) \in Nat /\ DOMAIN s = 1 .. Len(s)
  BY DEF IsQueue
<1>2. 1 \in 1 .. Len(s) /\ s[1] \in ToSet(s)
  BY <1>1
<1> DEFINE S == ToSet(s)
<1> HIDE DEF S
<1>3. /\ Tail(s) \in Seq(S) /\ Len(Tail(s)) = Len(s) - 1 /\ Head(s) = s[1]
      /\ \A k \in 1 .. Len(s) - 1 : Tail(s)[k] = s[k + 1]
  BY <1>1 DEF S
<1>4. IsQueue(Tail(s)) /\ ToSet(Tail(s)) \subseteq S
  BY <1>3, QueueOf
<1>5. QED
  BY <1>1, <1>2, <1>3, <1>4 DEF S

\* A queue of one element
LEMMA QueueOne ==
  ASSUME NEW e
  PROVE  IsQueue(<<e>>) /\ ToSet(<<e>>) = {e}
<1> DEFINE s == <<e>>
           S == {e}
<1>1. s \in Seq(S) /\ 1 \in DOMAIN s /\ s[1] = e
  OBVIOUS
<1> HIDE DEF s, S
<1>2. IsQueue(s) /\ ToSet(s) \subseteq S
  BY <1>1, QueueOf
<1>3. e \in ToSet(s)
  BY <1>1 DEF ToSet
<1>4. QED
  BY <1>2, <1>3 DEF s, S

\* A queue of two elements
LEMMA QueueTwo ==
  ASSUME NEW e, NEW f
  PROVE  IsQueue(<<e, f>>) /\ ToSet(<<e, f>>) = {e, f}
<1> DEFINE s == <<e, f>>
           S == {e, f}
<1>1. s \in Seq(S) /\ 1 \in DOMAIN s /\ s[1] = e /\ 2 \in DOMAIN s /\ s[2] = f
  OBVIOUS
<1> HIDE DEF s, S
<1>2. IsQueue(s) /\ ToSet(s) \subseteq S
  BY <1>1, QueueOf
<1>3. e \in ToSet(s) /\ f \in ToSet(s)
  BY <1>1 DEF ToSet
<1>4. QED
  BY <1>2, <1>3 DEF s, S

\* A queue with another element at one place
LEMMA QueueChanged ==
  ASSUME NEW s, IsQueue(s), NEW i \in DOMAIN s, NEW e
  PROVE  /\ IsQueue([s EXCEPT ![i] = e]) /\ DOMAIN [s EXCEPT ![i] = e] = DOMAIN s
         /\ Len([s EXCEPT ![i] = e]) = Len(s)
         /\ \A k \in DOMAIN s : [s EXCEPT ![i] = e][k] = IF k = i THEN e ELSE s[k]
<1> DEFINE S == ToSet(s) \cup {e}
           t == [s EXCEPT ![i] = e]
<1>1. s \in Seq(S) /\ e \in S
  BY DEF IsQueue
<1>2. /\ t \in Seq(S) /\ Len(t) = Len(s) /\ DOMAIN t = DOMAIN s
      /\ \A k \in DOMAIN s : t[k] = IF k = i THEN e ELSE s[k]
  BY <1>1
<1> HIDE DEF t
<1>3. IsQueue(t)
  BY <1>2, QueueOf
<1>4. QED
  BY <1>2, <1>3 DEF t

\* A function on the places of a queue is a queue.
LEMMA QueueMapped ==
  ASSUME NEW s, IsQueue(s), NEW t, t = [k \in DOMAIN s |-> t[k]]
  PROVE  IsQueue(t) /\ DOMAIN t = DOMAIN s /\ Len(t) = Len(s)
<1>1. Len(s) \in Nat /\ DOMAIN s = 1 .. Len(s)
  BY QueueParts
<1> DEFINE S == {t[k] : k \in 1 .. Len(s)}
<1>2. t = [k \in 1 .. Len(s) |-> t[k]] /\ \A k \in 1 .. Len(s) : t[k] \in S
  BY <1>1
<1> HIDE DEF S
<1>3. t \in Seq(S) /\ Len(t) = Len(s) /\ DOMAIN t = DOMAIN s
  BY <1>1, <1>2
<1>4. QED
  BY <1>3, QueueOf

\* An element of a queue is its first, or one of the others.
LEMMA HeadOrTail ==
  ASSUME NEW s, IsQueue(s), s # <<>>
  PROVE  \A e \in ToSet(s) : e = Head(s) \/ e \in ToSet(Tail(s))
<1> DEFINE t == Tail(s)
<1>1. /\ Len(s) \in Nat /\ Head(s) = s[1] /\ \A e \in ToSet(s) : \E k \in 1 .. Len(s) : s[k] = e
  BY QueueParts, QueueTaken
<1>2. IsQueue(t) /\ Len(t) = Len(s) - 1 /\ \A k \in 1 .. Len(s) - 1 : t[k] = s[k + 1]
  BY QueueTaken
<1> HIDE DEF t
<1>3. \A k \in 1 .. Len(t) : t[k] \in ToSet(t)
  BY <1>2, QueueParts
<1>4. ASSUME NEW k \in 1 .. Len(s) PROVE k = 1 \/ s[k] \in ToSet(t)
  <2>1. SUFFICES ASSUME k # 1 PROVE s[k] \in ToSet(t)
    OBVIOUS
  <2>2. k - 1 \in 1 .. Len(s) - 1 /\ (k - 1) + 1 = k
    BY <1>1, <2>1
  <2>3. s[k] = t[k - 1] /\ k - 1 \in 1 .. Len(t)
    BY <1>2, <2>2
  <2>4. QED
    BY <1>3, <2>3
<1>5. QED
  BY <1>1, <1>4 DEF t

-----------------------------------------------------------------------------
(* Division, and products.                                                 *)

\* A number, divided with a remainder
LEMMA Divided ==
  ASSUME NEW n \in Nat, NEW d \in Nat \ {0}
  PROVE  /\ n \div d \in Nat /\ n % d \in Nat /\ n % d < d
         /\ n = d * (n \div d) + (n % d)
OBVIOUS

\* A product grows with its factor.
LEMMA TimesGrows ==
  ASSUME NEW a \in Nat, NEW x \in Nat, NEW y \in Nat, x <= y
  PROVE  a * x <= a * y
<1>1. PICK z \in Nat : y = x + z
  <2>1. y - x \in Nat /\ y = x + (y - x)
    OBVIOUS
  <2>2. QED
    BY <2>1
<1>2. a * y = a * x + a * z /\ a * z \in Nat /\ a * x \in Nat
  BY <1>1
<1>3. QED
  BY <1>2

-----------------------------------------------------------------------------
(* Functions that are written as recursive definitions and do not go turn  *)
(* by turn.                                                                *)

\* f is the function that g computes over D: at the places B it is b, and elsewhere it
\* is made of its own value at another place p.
Computes(f, D, B, b, p, g) ==
  \A x \in D : f[x] = IF x \in B THEN b[x] ELSE g[x][f[p[x]]]

\* A recursive function exists when each place leads to one of smaller measure.
LEMMA RecursionExists ==
  ASSUME NEW D, NEW S, NEW m \in [D -> Nat], NEW B, NEW b \in [D -> S],
         NEW p \in [D -> D], \A x \in D : x \notin B => m[p[x]] < m[x],
         NEW g \in [D -> [S -> S]]
  PROVE  \E f \in [D -> S] : Computes(f, D, B, b, p, g)
<1> DEFINE Right(f, x) == IF x \in B THEN b[x] ELSE g[x][f[p[x]]]
           Upto(k, f) == f \in [D -> S] /\ \A x \in D : m[x] < k => f[x] = Right(f, x)
           K == {k \in Nat : \E f : Upto(k, f)}
<1>1. \A f \in [D -> S], x \in D : Right(f, x) \in S
  OBVIOUS
<1>2. \A x \in D : m[x] \in Nat /\ p[x] \in D /\ m[p[x]] \in Nat
  OBVIOUS
<1>3. ASSUME NEW k \in Nat PROVE k \in K
  <2>1. 0 \in K
    <3>1. \A x \in D : ~(m[x] < 0)
      BY <1>2
    <3>2. Upto(0, b)
      BY <3>1
    <3>3. QED
      BY <3>2
  <2>2. ASSUME NEW i \in 1 .. k, i - 1 \in K PROVE i \in K
    <3>1. PICK f : Upto(i - 1, f)
      BY <2>2
    <3> DEFINE h == [x \in D |-> Right(f, x)]
    <3>2. h \in [D -> S]
      BY <1>1, <3>1
    <3>3. ASSUME NEW x \in D, m[x] < i PROVE h[x] = Right(h, x)
      <4>1. CASE x \in B
        BY <4>1
      <4>2. CASE x \notin B
        <5>1. m[p[x]] < i - 1 /\ p[x] \in D
          BY <1>2, <3>3, <4>2
        <5>2. h[p[x]] = f[p[x]]
          BY <5>1, <3>1
        <5>3. QED
          BY <4>2, <5>2
      <4>3. QED
        BY <4>1, <4>2
    <3> HIDE DEF h
    <3>4. Upto(i, h)
      BY <3>2, <3>3
    <3>5. i \in Nat
      OBVIOUS
    <3>6. QED
      BY <3>4, <3>5
  <2> HIDE DEF K
  <2>3. k \in 0 .. k
    OBVIOUS
  <2>4. QED
    BY <2>1, <2>2, <2>3, TurnsKeep
<1>4. ASSUME NEW k \in Nat, NEW l \in Nat, NEW f, NEW h, Upto(k, f), Upto(l, h)
      PROVE  \A x \in D : m[x] < k /\ m[x] < l => f[x] = h[x]
  <2> DEFINE T == {m[x] : x \in {y \in D : m[y] < k /\ m[y] < l /\ f[y] # h[y]}}
  <2>1. SUFFICES ASSUME T # {} PROVE FALSE
    OBVIOUS
  <2>2. T \in SUBSET Nat
    OBVIOUS
  <2>3. PICK n \in T : \A i \in T : n <= i
    BY <2>1, <2>2, LeastNat
  <2>4. PICK x \in D : n = m[x] /\ m[x] < k /\ m[x] < l /\ f[x] # h[x]
    BY <2>3
  <2>5. f[x] = Right(f, x) /\ h[x] = Right(h, x)
    BY <2>4, <1>4
  <2>6. x \notin B /\ f[p[x]] # h[p[x]]
    BY <2>4, <2>5
  <2>7. p[x] \in D /\ m[p[x]] < m[x] /\ m[p[x]] < k /\ m[p[x]] < l
    BY <1>2, <2>4, <2>6
  <2>8. m[p[x]] \in T
    BY <2>6, <2>7
  <2> HIDE DEF T
  <2>9. QED
    BY <1>2, <2>3, <2>4, <2>7, <2>8
<1> DEFINE F(k) == CHOOSE f : Upto(k, f)
           all == [x \in D |-> F(m[x] + 1)[x]]
<1>5. \A k \in Nat : Upto(k, F(k))
  BY <1>3
<1> HIDE DEF F, Upto
<1>6. all \in [D -> S]
  BY <1>2, <1>5 DEF Upto
<1>7. ASSUME NEW x \in D PROVE all[x] = Right(all, x)
  <2> DEFINE f == F(m[x] + 1)
  <2>1. Upto(m[x] + 1, f) /\ m[x] < m[x] + 1 /\ m[x] + 1 \in Nat
    BY <1>2, <1>5
  <2>2. f[x] = Right(f, x)
    BY <2>1 DEF Upto
  <2>3. CASE x \in B
    BY <2>2, <2>3
  <2>4. CASE x \notin B
    <3> DEFINE y == p[x]
    <3>1. y \in D /\ m[y] < m[x] /\ m[y] + 1 \in Nat /\ m[y] < m[y] + 1 /\ m[y] < m[x] + 1
      BY <1>2, <2>4
    <3>2. Upto(m[y] + 1, F(m[y] + 1))
      BY <1>5, <3>1
    <3>3. f[y] = F(m[y] + 1)[y]
      BY <1>4, <2>1, <3>1, <3>2
    <3>4. all[y] = f[y]
      BY <3>1, <3>3
    <3>5. QED
      BY <2>2, <2>4, <3>4
  <2>5. QED
    BY <2>3, <2>4
<1>8. QED
  BY <1>6, <1>7 DEF Computes

-----------------------------------------------------------------------------
(* Sequences that are put together and taken apart.                        *)

\* What is read one element after the other is the sequence.
LEMMA ReadBack ==
  ASSUME NEW S, NEW s \in Seq(S), NEW h, h[Len(s)] = <<>>,
         \A k \in 1 .. Len(s) : h[k - 1] = <<s[k]>> \o h[k]
  PROVE  h[0] = s
<1> DEFINE n == Len(s)
           Right(j) == /\ h[n - j] \in Seq(S) /\ Len(h[n - j]) = j
                       /\ \A i \in 1 .. j : h[n - j][i] = s[n - j + i]
           K == {j \in 0 .. n : Right(j)}
<1>1. n \in Nat
  OBVIOUS
<1>2. 0 \in K
  <2>1. h[n - 0] = <<>> /\ 0 \in 0 .. n
    BY <1>1
  <2>2. <<>> \in Seq(S) /\ Len(<<>>) = 0
    OBVIOUS
  <2>3. Right(0)
    <3> DEFINE t == h[n - 0]
    <3>1. t = <<>>
      BY <2>1
    <3> HIDE DEF t
    <3>2. t \in Seq(S) /\ Len(t) = 0
      BY <2>2, <3>1
    <3>3. QED
      BY <3>2 DEF t
  <2>4. QED
    BY <2>1, <2>3
<1>3. ASSUME NEW j \in 1 .. n, j - 1 \in K PROVE j \in K
  <2> DEFINE k == n - j + 1
             e == <<s[k]>>
             r == h[k]
             t == h[n - j]
  <2>1. k \in 1 .. n /\ n - (j - 1) = k /\ k - 1 = n - j /\ j \in 0 .. n
    BY <1>1
  <2>2. r \in Seq(S) /\ Len(r) = j - 1 /\ \A i \in 1 .. j - 1 : r[i] = s[k + i]
    BY <1>3, <2>1
  <2>3. t = e \o r
    BY <2>1
  <2>4. s[k] \in S
    BY <2>1
  <2> HIDE DEF k, r, t, n
  <2>5. e \in Seq(S) /\ Len(e) = 1 /\ e[1] = s[k]
    BY <2>4
  <2> HIDE DEF e
  <2>6. /\ e \o r \in Seq(S) /\ Len(e \o r) = Len(e) + Len(r)
        /\ \A i \in 1 .. Len(e) + Len(r) : (e \o r)[i] = IF i <= Len(e) THEN e[i] ELSE r[i - Len(e)]
    <3>1. e \in Seq(S) /\ r \in Seq(S)
      BY <2>2, <2>5
    <3>2. QED
      BY <3>1, ConcatProperties
  <2>7. t \in Seq(S) /\ Len(t) = j
    BY <1>1, <2>2, <2>3, <2>5, <2>6
  <2>8. ASSUME NEW i \in 1 .. j PROVE t[i] = s[n - j + i]
    <3>1. i \in 1 .. Len(e) + Len(r)
      BY <1>1, <2>2, <2>5
    <3>2. CASE i = 1
      <4>1. t[i] = s[k]
        BY <2>3, <2>5, <2>6, <3>1, <3>2
      <4>2. n - j + i = k
        BY <1>1, <3>2 DEF k
      <4>3. QED
        BY <4>1, <4>2
    <3>3. CASE i # 1
      <4>1. i - 1 \in 1 .. j - 1 /\ ~(i <= Len(e)) /\ i - Len(e) = i - 1
        BY <1>1, <2>5, <3>3
      <4>2. t[i] = r[i - 1]
        BY <2>3, <2>6, <3>1, <4>1
      <4>3. r[i - 1] = s[k + (i - 1)]
        BY <2>2, <4>1
      <4>4. k + (i - 1) = n - j + i
        BY <1>1 DEF k
      <4>5. QED
        BY <4>2, <4>3, <4>4
    <3>4. QED
      BY <3>2, <3>3
  <2>9. QED
    BY <2>1, <2>7, <2>8 DEF t
<1>4. n \in K
  <2>1. n \in 0 .. n
    BY <1>1
  <2> HIDE DEF K, n
  <2>2. QED
    BY <1>1, <1>2, <1>3, <2>1, TurnsKeep
<1>5. /\ h[0] \in Seq(S) /\ Len(h[0]) = n
      /\ \A i \in 1 .. n : h[0][i] = s[i]
  <2>1. n - n = 0 /\ \A i \in 1 .. n : n - n + i = i
    BY <1>1
  <2>2. QED
    BY <1>4, <2>1
<1>6. QED
  BY <1>5, SeqEqual
\* The elements of three sequences behind each other
LEMMA ThreeParts ==
  ASSUME NEW S, NEW h \in Seq(S), NEW v \in Seq(S), NEW t \in Seq(S)
  PROVE  /\ h \o v \o t \in Seq(S)
         /\ Len(h \o v \o t) = Len(h) + Len(v) + Len(t)
         /\ \A i \in 1 .. Len(h) : (h \o v \o t)[i] = h[i]
         /\ \A i \in 1 .. Len(v) : (h \o v \o t)[Len(h) + i] = v[i]
         /\ \A i \in 1 .. Len(t) : (h \o v \o t)[Len(h) + Len(v) + i] = t[i]
<1> DEFINE u == h \o v
<1>1. Len(h) \in Nat /\ Len(v) \in Nat /\ Len(t) \in Nat
  OBVIOUS
<1>2. /\ u \in Seq(S) /\ Len(u) = Len(h) + Len(v)
      /\ \A i \in 1 .. Len(h) + Len(v) : u[i] = IF i <= Len(h) THEN h[i] ELSE v[i - Len(h)]
  BY ConcatProperties
<1> HIDE DEF u
<1>3. /\ u \o t \in Seq(S) /\ Len(u \o t) = Len(u) + Len(t)
      /\ \A i \in 1 .. Len(u) + Len(t) : (u \o t)[i] = IF i <= Len(u) THEN u[i] ELSE t[i - Len(u)]
  <2>1. u \in Seq(S)
    BY <1>2
  <2>2. QED
    BY <2>1, ConcatProperties
<1>4. ASSUME NEW i \in 1 .. Len(h) PROVE (u \o t)[i] = h[i]
  <2>1. i \in 1 .. Len(u) + Len(t) /\ i <= Len(u) /\ i \in 1 .. Len(h) + Len(v) /\ i <= Len(h)
    BY <1>1, <1>2
  <2>2. QED
    BY <2>1, <1>2, <1>3
<1>5. ASSUME NEW i \in 1 .. Len(v) PROVE (u \o t)[Len(h) + i] = v[i]
  <2> DEFINE j == Len(h) + i
  <2>1. /\ j \in 1 .. Len(u) + Len(t) /\ j <= Len(u) /\ j \in 1 .. Len(h) + Len(v)
        /\ ~(j <= Len(h)) /\ j - Len(h) = i
    BY <1>1, <1>2
  <2> HIDE DEF j
  <2>2. (u \o t)[j] = v[i]
    BY <2>1, <1>2, <1>3
  <2>3. QED
    BY <2>2 DEF j
<1>6. ASSUME NEW i \in 1 .. Len(t) PROVE (u \o t)[Len(h) + Len(v) + i] = t[i]
  <2> DEFINE j == Len(h) + Len(v) + i
  <2>1. /\ j \in 1 .. Len(u) + Len(t) /\ ~(j <= Len(u)) /\ j - Len(u) = i
    BY <1>1, <1>2
  <2> HIDE DEF j
  <2>2. (u \o t)[j] = t[i]
    BY <2>1, <1>3
  <2>3. QED
    BY <2>2 DEF j
<1>7. QED
  BY <1>2, <1>3, <1>4, <1>5, <1>6 DEF u

\* A piece of a sequence is what stands there.
LEMMA PieceIs ==
  ASSUME NEW S, NEW s \in Seq(S), NEW v \in Seq(S), NEW a \in Nat, a + Len(v) <= Len(s),
         \A i \in 1 .. Len(v) : s[a + i] = v[i]
  PROVE  SubSeq(s, a + 1, a + Len(v)) = v
<1> DEFINE u == SubSeq(s, a + 1, a + Len(v))
<1>1. Len(s) \in Nat /\ Len(v) \in Nat
  OBVIOUS
<1>2. u = [i \in 1 .. Len(v) |-> s[a + i]]
  BY <1>1
<1> HIDE DEF u
<1>3. u \in Seq(S) /\ Len(u) = Len(v) /\ \A i \in 1 .. Len(v) : u[i] = v[i]
  <2>1. \A i \in 1 .. Len(v) : s[a + i] \in S
    BY <1>1
  <2>2. QED
    BY <1>1, <1>2, <2>1
<1>4. u = v
  BY <1>3, SeqEqual
<1>5. QED
  BY <1>4 DEF u

\* Two pieces of a sequence behind each other
LEMMA PiecesJoin ==
  ASSUME NEW S, NEW s \in Seq(S), NEW a \in Nat, NEW b \in Nat, a <= b, b <= Len(s)
  PROVE  SubSeq(s, 1, a) \o SubSeq(s, a + 1, b) = SubSeq(s, 1, b)
<1> DEFINE u == SubSeq(s, 1, a)
           v == SubSeq(s, a + 1, b)
           w == SubSeq(s, 1, b)
<1>1. Len(s) \in Nat
  OBVIOUS
<1>2. u \in Seq(S) /\ Len(u) = a /\ \A i \in 1 .. a : u[i] = s[i]
  <2>1. u = [i \in 1 .. a |-> s[i]] /\ \A i \in 1 .. a : s[i] \in S
    BY <1>1
  <2> HIDE DEF u
  <2>2. QED
    BY <2>1
<1>3. v \in Seq(S) /\ Len(v) = b - a /\ \A i \in 1 .. b - a : v[i] = s[a + i]
  <2>1. v = [i \in 1 .. b - a |-> s[a + i]] /\ \A i \in 1 .. b - a : s[a + i] \in S
    BY <1>1
  <2>2. b - a \in Nat
    OBVIOUS
  <2> HIDE DEF v
  <2>3. QED
    BY <2>1, <2>2
<1>4. w \in Seq(S) /\ Len(w) = b /\ \A i \in 1 .. b : w[i] = s[i]
  <2>1. w = [i \in 1 .. b |-> s[i]] /\ \A i \in 1 .. b : s[i] \in S
    BY <1>1
  <2> HIDE DEF w
  <2>2. QED
    BY <2>1
<1> HIDE DEF u, v, w
<1>5. /\ u \o v \in Seq(S) /\ Len(u \o v) = Len(u) + Len(v)
      /\ \A i \in 1 .. Len(u) + Len(v) : (u \o v)[i] = IF i <= Len(u) THEN u[i] ELSE v[i - Len(u)]
  <2>1. u \in Seq(S) /\ v \in Seq(S)
    BY <1>2, <1>3
  <2>2. QED
    BY <2>1, ConcatProperties
<1>6. ASSUME NEW i \in 1 .. b PROVE (u \o v)[i] = w[i]
  <2>1. i \in 1 .. Len(u) + Len(v)
    BY <1>2, <1>3
  <2>2. CASE i <= a
    <3>1. i \in 1 .. a
      BY <2>2
    <3>2. QED
      BY <2>1, <2>2, <3>1, <1>2, <1>4, <1>5
  <2>3. CASE ~(i <= a)
    <3>1. i - a \in 1 .. b - a /\ a + (i - a) = i
      BY <2>3
    <3>2. v[i - a] = s[a + (i - a)]
      BY <1>3, <3>1
    <3>3. (u \o v)[i] = v[i - a]
      BY <2>1, <2>3, <1>2, <1>5
    <3>4. QED
      BY <3>1, <3>2, <3>3, <1>4
  <2>4. QED
    BY <2>2, <2>3
<1>7. u \o v = w
  <2>1. Len(u \o v) = b /\ u \o v \in Seq(S)
    BY <1>2, <1>3, <1>5
  <2>2. QED
    BY <1>4, <1>6, <2>1, SeqEqual
<1>8. QED
  BY <1>7 DEF u, v, w

\* One more element of a sequence
LEMMA FirstGrow ==
  ASSUME NEW S, NEW s \in Seq(S), NEW j \in 1 .. Len(s)
  PROVE  LET u == [k \in 1 .. j - 1 |-> s[k]]
         IN /\ u \in Seq(S) /\ Len(u) = j - 1
            /\ Append(u, s[j]) = [k \in 1 .. j |-> s[k]]
<1> DEFINE u == [k \in 1 .. j - 1 |-> s[k]]
           w == [k \in 1 .. j |-> s[k]]
<1>1. Len(s) \in Nat /\ s[j] \in S
  OBVIOUS
<1>2. u \in Seq(S) /\ Len(u) = j - 1 /\ \A i \in 1 .. j - 1 : u[i] = s[i]
  <2>1. u = [i \in 1 .. j - 1 |-> s[i]] /\ \A i \in 1 .. j - 1 : s[i] \in S
    BY <1>1
  <2>2. j - 1 \in Nat
    OBVIOUS
  <2> HIDE DEF u
  <2>3. QED
    BY <2>1, <2>2
<1>3. w \in Seq(S) /\ Len(w) = j /\ \A i \in 1 .. j : w[i] = s[i]
  <2>1. w = [i \in 1 .. j |-> s[i]] /\ \A i \in 1 .. j : s[i] \in S
    BY <1>1
  <2> HIDE DEF w
  <2>2. QED
    BY <2>1
<1> HIDE DEF u, w
<1>4. Append(u, s[j]) = w
  <2> DEFINE v == Append(u, s[j])
  <2>1. v \in Seq(S) /\ Len(v) = j /\ v[j] = s[j] /\ \A i \in 1 .. j - 1 : v[i] = u[i]
    BY <1>1, <1>2
  <2> HIDE DEF v
  <2>2. ASSUME NEW i \in 1 .. j PROVE v[i] = w[i]
    <3>1. i = j \/ i \in 1 .. j - 1
      OBVIOUS
    <3>2. QED
      BY <3>1, <2>1, <1>2, <1>3
  <2>3. v = w
    BY <2>1, <2>2, <1>3, SeqEqual
  <2>4. QED
    BY <2>3 DEF v
<1>5. QED
  BY <1>2, <1>4 DEF u, w

\* Two elements
LEMMA PairIs ==
  ASSUME NEW S, NEW x \in S, NEW y \in S
  PROVE  <<x>> \o <<y>> = <<x, y>>
<1> DEFINE a == <<x>>
           b == <<y>>
           u == a \o b
           v == <<x, y>>
<1>1. a \in Seq(S) /\ Len(a) = 1 /\ a[1] = x
  OBVIOUS
<1>2. b \in Seq(S) /\ Len(b) = 1 /\ b[1] = y
  OBVIOUS
<1>3. v \in Seq(S) /\ Len(v) = 2 /\ v[1] = x /\ v[2] = y
  OBVIOUS
<1> HIDE DEF a, b
<1>4. /\ u \in Seq(S) /\ Len(u) = Len(a) + Len(b)
      /\ \A i \in 1 .. Len(a) + Len(b) : u[i] = IF i <= Len(a) THEN a[i] ELSE b[i - Len(a)]
  <2>1. a \in Seq(S) /\ b \in Seq(S)
    BY <1>1, <1>2
  <2>2. QED
    BY <2>1, ConcatProperties
<1> HIDE DEF u, v
<1>5. \A i \in 1 .. 2 : i = 1 \/ i = 2
  OBVIOUS
<1>6. \A i \in 1 .. 2 : u[i] = v[i]
  <2>1. 1 \in 1 .. Len(a) + Len(b) /\ 1 <= Len(a) /\ 2 \in 1 .. Len(a) + Len(b) /\ ~(2 <= Len(a)) /\ 2 - Len(a) = 1
    BY <1>1, <1>2
  <2>2. u[1] = x /\ u[2] = y
    BY <1>1, <1>2, <1>4, <2>1
  <2>3. QED
    BY <1>3, <1>5, <2>2
<1>7. u = v
  <2>1. Len(u) = 2
    BY <1>1, <1>2, <1>4
  <2>2. QED
    BY <1>3, <1>4, <1>6, <2>1, SeqEqual
<1>8. QED
  BY <1>7 DEF u, v, a, b

\* FlattenSeq puts one sequence after the other.
LEMMA FlattenTurns ==
  ASSUME NEW S, NEW ss \in Seq(Seq(S))
  PROVE  \E f \in [0 .. Len(ss) -> Seq(S)] :
           /\ f[0] = <<>>
           /\ \A k \in 1 .. Len(ss) : f[k] = f[k - 1] \o ss[k]
           /\ FlattenSeq(ss) = f[Len(ss)]
<1> DEFINE n == Len(ss)
           g == [k \in 1 .. n |-> [t \in Seq(S) |-> t \o ss[k]]]
           All(h) == [i \in 1 .. n |-> IF i = 1 THEN ss[i] ELSE h[i - 1] \o ss[i]]
<1>1. n \in Nat /\ \A k \in 1 .. n : ss[k] \in Seq(S)
  OBVIOUS
<1>2. <<>> \in Seq(S)
  OBVIOUS
<1>3. g \in [1 .. n -> [Seq(S) -> Seq(S)]]
  <2>1. ASSUME NEW k \in 1 .. n, NEW t \in Seq(S) PROVE t \o ss[k] \in Seq(S)
    BY <1>1
  <2>2. QED
    BY <2>1
<1> HIDE DEF n
<1>4. PICK f \in [0 .. n -> Seq(S)] : Turns(f, n, <<>>, g)
  <2> HIDE DEF g
  <2>1. QED
    BY <1>1, <1>2, <1>3, TurnsExist
<1>5. ASSUME NEW k \in 1 .. n PROVE f[k] = f[k - 1] \o ss[k]
  <2>1. k - 1 \in 0 .. n
    BY <1>1
  <2>2. f[k - 1] \in Seq(S)
    BY <2>1
  <2>3. QED
    BY <2>2, <1>4 DEF Turns
<1>6. f[0] = <<>>
  BY <1>4 DEF Turns
<1>7. CASE n = 0
  <2>1. ss = <<>> /\ FlattenSeq(ss) = ss
    BY <1>7 DEF FlattenSeq, n
  <2>2. QED
    BY <2>1, <1>5, <1>6, <1>7 DEF n
<1>8. CASE n # 0
  <2> DEFINE t == [k \in 1 .. n |-> f[k]]
  <2>1. t = All(t)
    <3>1. ASSUME NEW k \in 1 .. n PROVE t[k] = IF k = 1 THEN ss[k] ELSE t[k - 1] \o ss[k]
      <4>1. CASE k = 1
        <5>1. f[k] = f[k - 1] \o ss[k]
          BY <1>5
        <5>2. f[k - 1] = <<>>
          BY <4>1, <1>6
        <5>3. <<>> \o ss[k] = ss[k]
          BY <1>1
        <5>4. f[k] = ss[k]
          BY <5>1, <5>2, <5>3
        <5>5. QED
          BY <4>1, <5>4
      <4>2. CASE k # 1
        <5>1. k - 1 \in 1 .. n
          BY <1>1, <4>2
        <5>2. QED
          BY <5>1, <4>2, <1>5
      <4>3. QED
        BY <4>1, <4>2
    <3> HIDE DEF t
    <3>2. DOMAIN t = 1 .. n /\ t = [k \in 1 .. n |-> t[k]]
      BY DEF t
    <3>3. QED
      BY <3>1, <3>2
  <2> DEFINE flatten == CHOOSE h : h = All(h)
  <2>2. flatten = All(flatten)
    <3> HIDE DEF t
    <3>1. QED
      BY <2>1
  <2> HIDE DEF flatten
  <2>3. \A k \in 1 .. n : flatten[k] = IF k = 1 THEN ss[k] ELSE flatten[k - 1] \o ss[k]
    BY <2>2
  <2>4. FlattenSeq(ss) = flatten[n]
    BY <1>8 DEF FlattenSeq, flatten, n
  <2> DEFINE K == {k \in 0 .. n : k = 0 \/ flatten[k] = f[k]}
  <2>5. ASSUME NEW k \in 1 .. n, k - 1 \in K PROVE k \in K
    <3>1. CASE k = 1
      <4>1. f[k] = f[k - 1] \o ss[k]
        BY <1>5
      <4>2. f[k - 1] = <<>>
        BY <3>1, <1>6
      <4>3. <<>> \o ss[k] = ss[k]
        BY <1>1
      <4>4. flatten[k] = ss[k]
        BY <2>3, <3>1
      <4>5. f[k] = ss[k]
        BY <4>1, <4>2, <4>3
      <4>6. QED
        BY <4>4, <4>5, <1>1
    <3>2. CASE k # 1
      <4>1. flatten[k] = flatten[k - 1] \o ss[k] /\ f[k] = f[k - 1] \o ss[k]
        BY <1>5, <2>3, <3>2
      <4>2. flatten[k - 1] = f[k - 1]
        BY <2>5, <3>2
      <4>3. k \in 0 .. n
        BY <1>1
      <4>4. QED
        BY <4>1, <4>2, <4>3
    <3>3. QED
      BY <3>1, <3>2
  <2>6. 0 \in K /\ n \in 0 .. n
    BY <1>1
  <2>7. n \in K
    <3> HIDE DEF K
    <3>1. QED
      BY <1>1, <2>5, <2>6, TurnsKeep
  <2>8. FlattenSeq(ss) = f[n]
    BY <1>8, <2>4, <2>7
  <2>9. QED
    BY <1>5, <1>6, <2>8 DEF n
<1>9. QED
  BY <1>7, <1>8

\* A flattened sequence has the elements of the sequences it was made of.
LEMMA FlattenElements ==
  ASSUME NEW S, NEW ss \in Seq(Seq(S))
  PROVE  /\ FlattenSeq(ss) \in Seq(S)
         /\ \A k \in 1 .. Len(ss) : \A i \in 1 .. Len(ss[k]) :
              \E j \in 1 .. Len(FlattenSeq(ss)) : FlattenSeq(ss)[j] = ss[k][i]
         /\ \A j \in 1 .. Len(FlattenSeq(ss)) :
              \E k \in 1 .. Len(ss) : \E i \in 1 .. Len(ss[k]) : FlattenSeq(ss)[j] = ss[k][i]
<1> DEFINE n == Len(ss)
<1>1. PICK f \in [0 .. n -> Seq(S)] :
           /\ f[0] = <<>>
           /\ \A k \in 1 .. n : f[k] = f[k - 1] \o ss[k]
           /\ FlattenSeq(ss) = f[n]
  BY FlattenTurns
<1>2. n \in Nat /\ \A k \in 1 .. n : ss[k] \in Seq(S)
  OBVIOUS
<1> HIDE DEF n
<1> DEFINE Has(k, e) == \E j \in 1 .. Len(f[k]) : f[k][j] = e
           Given(k, e) == \E l \in 1 .. k : \E i \in 1 .. Len(ss[l]) : e = ss[l][i]
           K == {k \in 0 .. n : \A e \in S : Has(k, e) <=> Given(k, e)}
<1>3. 0 \in K
  BY <1>1, <1>2
<1>4. ASSUME NEW k \in 1 .. n, k - 1 \in K PROVE k \in K
  <2> DEFINE s == f[k - 1]
             t == ss[k]
  <2>1. s \in Seq(S) /\ t \in Seq(S) /\ f[k] = s \o t /\ Len(s) \in Nat /\ Len(t) \in Nat
    <3>1. k - 1 \in 0 .. n
      BY <1>2
    <3>2. f[k - 1] \in Seq(S) /\ ss[k] \in Seq(S) /\ f[k] = f[k - 1] \o ss[k]
      BY <3>1, <1>1, <1>2
    <3>3. s \in Seq(S) /\ t \in Seq(S) /\ f[k] = s \o t
      BY <3>2
    <3> HIDE DEF s, t
    <3>4. QED
      BY <3>3
  <2> HIDE DEF s, t
  <2>2. /\ Len(s \o t) = Len(s) + Len(t)
        /\ \A j \in 1 .. Len(s) + Len(t) :
             (s \o t)[j] = IF j <= Len(s) THEN s[j] ELSE t[j - Len(s)]
    BY <2>1, ConcatProperties
  <2>3. ASSUME NEW e \in S, Has(k, e) PROVE Given(k, e)
    <3>1. PICK j \in 1 .. Len(s) + Len(t) : (s \o t)[j] = e
      BY <2>1, <2>2, <2>3
    <3>2. CASE j <= Len(s)
      <4>1. Has(k - 1, e)
        BY <3>1, <3>2, <2>1, <2>2 DEF s
      <4>2. Given(k - 1, e)
        BY <4>1, <1>4
      <4>3. \A l \in 1 .. k - 1 : l \in 1 .. k
        BY <1>2
      <4>4. QED
        BY <4>2, <4>3
    <3>3. CASE ~(j <= Len(s))
      <4>1. j - Len(s) \in 1 .. Len(t) /\ t[j - Len(s)] = e
        BY <3>1, <3>3, <2>1, <2>2
      <4>2. k \in 1 .. k
        BY <1>2
      <4>3. QED
        BY <4>1, <4>2 DEF t
    <3>4. QED
      BY <3>2, <3>3
  <2>4. ASSUME NEW e \in S, Given(k, e) PROVE Has(k, e)
    <3>1. PICK l \in 1 .. k : \E i \in 1 .. Len(ss[l]) : e = ss[l][i]
      BY <2>4
    <3>2. CASE l = k
      <4>1. PICK i \in 1 .. Len(t) : e = t[i]
        BY <3>1, <3>2 DEF t
      <4>2. Len(s) + i \in 1 .. Len(s) + Len(t) /\ ~(Len(s) + i <= Len(s)) /\ Len(s) + i - Len(s) = i
        BY <2>1
      <4>3. (s \o t)[Len(s) + i] = e
        BY <4>1, <4>2, <2>2
      <4>4. QED
        BY <4>2, <4>3, <2>1, <2>2
    <3>3. CASE l # k
      <4>1. l \in 1 .. k - 1
        BY <1>2, <3>3
      <4>2. Given(k - 1, e)
        BY <4>1, <3>1
      <4>3. Has(k - 1, e)
        BY <4>2, <1>4
      <4>4. PICK j \in 1 .. Len(s) : s[j] = e
        BY <4>3 DEF s
      <4>5. j \in 1 .. Len(s) + Len(t) /\ j <= Len(s)
        BY <2>1
      <4>6. QED
        BY <4>4, <4>5, <2>1, <2>2
    <3>4. QED
      BY <3>2, <3>3
  <2>5. k \in 0 .. n
    BY <1>2
  <2>6. QED
    BY <2>3, <2>4, <2>5
<1>5. n \in K
  <2> HIDE DEF K
  <2>1. n \in 0 .. n
    BY <1>2
  <2>2. QED
    BY <1>2, <1>3, <1>4, <2>1, TurnsKeep
<1>6. f[n] \in Seq(S)
  BY <1>1, <1>2
<1>7. ASSUME NEW k \in 1 .. n, NEW i \in 1 .. Len(ss[k]) PROVE Has(n, ss[k][i])
  <2>1. ss[k][i] \in S
    BY <1>2
  <2>2. Given(n, ss[k][i])
    OBVIOUS
  <2>3. QED
    BY <2>1, <2>2, <1>5
<1>8. ASSUME NEW j \in 1 .. Len(f[n]) PROVE Given(n, f[n][j])
  <2>1. f[n][j] \in S
    BY <1>6
  <2>2. Has(n, f[n][j])
    OBVIOUS
  <2>3. QED
    BY <2>1, <2>2, <1>5
<1> DEFINE t == FlattenSeq(ss)
<1>9. t = f[n]
  BY <1>1
<1> HIDE DEF K, t
<1>10. t \in Seq(S)
  BY <1>6, <1>9
<1>11. \A k \in 1 .. n : \A i \in 1 .. Len(ss[k]) : \E j \in 1 .. Len(t) : t[j] = ss[k][i]
  BY <1>7, <1>9
<1>12. \A j \in 1 .. Len(t) : \E k \in 1 .. n : \E i \in 1 .. Len(ss[k]) : t[j] = ss[k][i]
  BY <1>8, <1>9
<1>13. QED
  BY <1>10, <1>11, <1>12 DEF n, t

\* Where each sequence stands in the flattened one
LEMMA FlattenPlaces ==
  ASSUME NEW S, NEW ss \in Seq(Seq(S))
  PROVE  /\ FlattenSeq(ss) \in Seq(S)
         /\ \E at \in [0 .. Len(ss) -> Nat] :
              /\ at[0] = 0 /\ at[Len(ss)] = Len(FlattenSeq(ss))
              /\ \A k \in 1 .. Len(ss) :
                   /\ at[k] = at[k - 1] + Len(ss[k])
                   /\ at[k] <= Len(FlattenSeq(ss))
                   /\ \A i \in 1 .. Len(ss[k]) : FlattenSeq(ss)[at[k - 1] + i] = ss[k][i]
<1> DEFINE n == Len(ss)
<1>1. PICK f \in [0 .. n -> Seq(S)] :
           /\ f[0] = <<>>
           /\ \A k \in 1 .. n : f[k] = f[k - 1] \o ss[k]
           /\ FlattenSeq(ss) = f[n]
  BY FlattenTurns
<1>2. n \in Nat /\ \A k \in 1 .. n : ss[k] \in Seq(S)
  OBVIOUS
<1> HIDE DEF n
<1> DEFINE at == [k \in 0 .. n |-> Len(f[k])]
           Good(k) == /\ \A l \in 1 .. k : at[l] <= at[k]
                      /\ \A l \in 1 .. k : \A i \in 1 .. Len(ss[l]) : f[k][at[l - 1] + i] = ss[l][i]
           K == {k \in 0 .. n : Good(k)}
<1>3. at \in [0 .. n -> Nat] /\ at[0] = 0 /\ \A k \in 0 .. n : at[k] = Len(f[k])
  BY <1>1, <1>2
<1>4. ASSUME NEW k \in 1 .. n
      PROVE  /\ at[k] = at[k - 1] + Len(ss[k])
             /\ \A i \in 1 .. at[k - 1] : f[k][i] = f[k - 1][i]
             /\ \A i \in 1 .. Len(ss[k]) : f[k][at[k - 1] + i] = ss[k][i]
  <2> DEFINE s == f[k - 1]
             t == ss[k]
  <2>1. k - 1 \in 0 .. n /\ k \in 0 .. n
    BY <1>2
  <2>2. f[k - 1] \in Seq(S) /\ f[k] = f[k - 1] \o ss[k] /\ ss[k] \in Seq(S)
    BY <2>1, <1>1, <1>2
  <2>3. at[k] = Len(f[k]) /\ at[k - 1] = Len(f[k - 1])
    BY <2>1
  <2>4. s \in Seq(S) /\ t \in Seq(S) /\ f[k] = s \o t /\ at[k] = Len(f[k]) /\ at[k - 1] = Len(s)
    BY <2>2, <2>3
  <2> HIDE DEF at, s, t
  <2>5. Len(s) \in Nat /\ Len(t) \in Nat
    BY <2>4
  <2>6. /\ Len(s \o t) = Len(s) + Len(t)
        /\ \A j \in 1 .. Len(s) + Len(t) :
             (s \o t)[j] = IF j <= Len(s) THEN s[j] ELSE t[j - Len(s)]
    BY <2>4, ConcatProperties
  <2>7. ASSUME NEW i \in 1 .. Len(s) PROVE (s \o t)[i] = s[i]
    <3>1. i \in 1 .. Len(s) + Len(t) /\ i <= Len(s)
      BY <2>5
    <3>2. QED
      BY <3>1, <2>6
  <2>8. ASSUME NEW i \in 1 .. Len(t) PROVE (s \o t)[Len(s) + i] = t[i]
    <3>1. /\ Len(s) + i \in 1 .. Len(s) + Len(t) /\ ~(Len(s) + i <= Len(s))
          /\ Len(s) + i - Len(s) = i
      BY <2>5
    <3>2. (s \o t)[Len(s) + i] = t[Len(s) + i - Len(s)]
      BY <3>1, <2>6
    <3>3. QED
      BY <3>1, <3>2
  <2>9. QED
    BY <2>4, <2>6, <2>7, <2>8 DEF s, t
<1> HIDE DEF at
<1>5. 0 \in K
  BY <1>2
<1>6. ASSUME NEW k \in 1 .. n, k - 1 \in K PROVE k \in K
  <2>1. k - 1 \in 0 .. n /\ k \in 0 .. n
    BY <1>2
  <2>2. at[k - 1] \in Nat /\ at[k] \in Nat /\ Len(ss[k]) \in Nat
    BY <1>2, <1>3, <2>1
  <2>3. ASSUME NEW l \in 1 .. k PROVE at[l] <= at[k]
    <3>1. CASE l = k
      BY <3>1, <2>2
    <3>2. CASE l # k
      <4>1. l \in 1 .. k - 1 /\ l \in 0 .. n
        BY <1>2, <3>2
      <4>2. at[l] <= at[k - 1] /\ at[l] \in Nat
        BY <4>1, <1>3, <1>6
      <4>3. QED
        BY <4>2, <1>4, <2>2
    <3>3. QED
      BY <3>1, <3>2
  <2>4. ASSUME NEW l \in 1 .. k, NEW i \in 1 .. Len(ss[l]) PROVE f[k][at[l - 1] + i] = ss[l][i]
    <3>1. CASE l = k
      BY <3>1, <1>4
    <3>2. CASE l # k
      <4>1. l \in 1 .. k - 1 /\ l \in 1 .. n /\ l \in 0 .. n /\ l - 1 \in 0 .. n
        BY <1>2, <3>2
      <4>2. f[k - 1][at[l - 1] + i] = ss[l][i] /\ at[l] <= at[k - 1]
        BY <4>1, <1>6
      <4>3. at[l] = at[l - 1] + Len(ss[l]) /\ at[l - 1] \in Nat /\ Len(ss[l]) \in Nat
        <5>1. at[l] = at[l - 1] + Len(ss[l])
          BY <4>1, <1>4
        <5>2. at[l - 1] \in Nat
          BY <4>1, <1>3
        <5>3. ss[l] \in Seq(S)
          BY <4>1, <1>2
        <5>4. Len(ss[l]) \in Nat
          BY <5>3
        <5>5. QED
          BY <5>1, <5>2, <5>4
      <4>4. at[l - 1] + i \in 1 .. at[k - 1]
        BY <4>2, <4>3, <2>2
      <4>5. f[k][at[l - 1] + i] = f[k - 1][at[l - 1] + i]
        BY <4>4, <1>4
      <4>6. QED
        BY <4>2, <4>5
    <3>3. QED
      BY <3>1, <3>2
  <2>5. QED
    BY <2>1, <2>3, <2>4
<1>7. n \in K
  <2>1. n \in 0 .. n
    BY <1>2
  <2> HIDE DEF K
  <2>2. QED
    BY <1>2, <1>5, <1>6, <2>1, TurnsKeep
<1>8. at[n] = Len(f[n]) /\ f[n] \in Seq(S)
  BY <1>1, <1>2, <1>3
<1> DEFINE t == FlattenSeq(ss)
<1>9. t = f[n]
  BY <1>1
<1> HIDE DEF t
<1>10. \A k \in 1 .. n :
         /\ at[k] = at[k - 1] + Len(ss[k])
         /\ at[k] <= Len(t)
         /\ \A i \in 1 .. Len(ss[k]) : t[at[k - 1] + i] = ss[k][i]
  BY <1>4, <1>7, <1>8, <1>9
<1>11. t \in Seq(S) /\ at[n] = Len(t)
  BY <1>8, <1>9
<1>12. QED
  BY <1>3, <1>10, <1>11 DEF n, t
=============================================================================
