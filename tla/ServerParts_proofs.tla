--------------------------- MODULE ServerParts_proofs ---------------------------
(***************************************************************************)
(* Proofs about the parts of the HTTP server, for every value of their     *)
(* constants: the ring of path buffers; the paths of the tracks, whose     *)
(* steps are parts of those of HttpServer; the names of the shares, for    *)
(* every list of shares and every order of the swaps; the encoding of a    *)
(* path for every byte; and the option with the list of shares, for every  *)
(* text in the documented form.                                            *)
(***************************************************************************)
EXTENDS BufferPool, TrackPaths, TextTools, ShareNames, DataLemmas, FiniteSetTheorems, TLAPS

-----------------------------------------------------------------------------
(* The ring of path buffers.                                               *)

\* A thread that was given a buffer by AcquireLook or AcquireTake has one.
GivenIsReal == \A u \in Users : poolPc[u] \in {"search", "store"} => got[u] # 0

\* The inductive type invariant.
TypeInv == PoolTypeOK /\ GivenIsReal

\* The thread u has passed the test of the mark and read the address got[u].
Pending(u) == poolPc[u] = "take" /\ got[u] # 0

\* The buffers somebody has.
Holding == UNION {InUse(v) : v \in Users}

\* The parts of the invariant behind BuffersAreExclusive.  No address is in the
\* ring twice.
RingDistinct ==
  \A i, j \in Entries : buffer[i] # 0 /\ buffer[i] = buffer[j] => i = j

\* What a thread is about to take is nowhere else in the ring ...
PendingInPlace ==
  \A u \in Users : Pending(u) => \A i \in Entries : buffer[i] = got[u] => i = cur[u]

\* ... others that are about to take it stand at the same position ...
PendingTogether ==
  \A u, v \in Users : Pending(u) /\ Pending(v) /\ got[u] = got[v] => cur[u] = cur[v]

\* ... and the position has its mark when somebody has the buffer by now ...
PendingMarked == \A u \in Users : Pending(u) /\ got[u] \in Holding => acquired[cur[u]]

\* ... which stays, as nobody has the buffer that replaced it there.
OneOfTwo ==
  \A u \in Users :
    Pending(u) /\ got[u] \in Holding /\ buffer[cur[u]] # got[u] => buffer[cur[u]] \notin Holding

\* A buffer of the ring that somebody has is marked.
HeldMarked == \A i \in Entries : buffer[i] \in Holding => acquired[i]

\* Nobody has the same buffer twice.
NoRepeats ==
  \A u \in Users :
    /\ \A i, j \in DOMAIN bufs[u] : bufs[u][i] = bufs[u][j] => i = j
    /\ poolPc[u] \in {"search", "store"} => got[u] \notin ToSet(bufs[u])

Exclusive == \A u, v \in Users : u # v => InUse(u) \cap InUse(v) = {}

Parts ==
  /\ RingDistinct
  /\ PendingInPlace
  /\ PendingTogether
  /\ PendingMarked
  /\ OneOfTwo
  /\ HeldMarked
  /\ NoRepeats
  /\ Exclusive

PoolInv == "twice" \notin races => Parts

\* The invariant behind QuietPoolIsFree.
MarkedIsHeld ==
  "replaced" \notin races => \A i \in Entries : acquired[i] => buffer[i] \in Holding

-----------------------------------------------------------------------------
(* Lemmas.                                                                  *)

\* The distance between two positions is a number.
LEMMA DistanceType ==
  ASSUME PoolTypeOK, NEW i \in Entries
  PROVE  Distance(i) \in Nat
<1>1. /\ PoolLen \in Nat /\ PoolLen > 0
      /\ i \in Int /\ pos \in Int
  BY BufferPoolAssumption DEF PoolTypeOK, Entries
<1>2. QED
  BY <1>1 DEF Distance

\* The position a thread stores is one of the ring: there is always one behind
\* the current position that is free, or the one it has just taken.
LEMMA NextPosInRing ==
  ASSUME PoolTypeOK, NEW u \in Users
  PROVE  NextPos(u) \in Entries
<1> DEFINE S == {i \in Entries : i = cur[u] \/ ~acquired[i]}
           T == {Distance(i) : i \in S}
<1>1. T \in SUBSET Nat
  BY DistanceType
<1>2. cur[u] \in S
  BY DEF PoolTypeOK
<1>3. T # {}
  BY <1>2
<1> HIDE DEF S
<1>4. PICK n \in T : \A k \in T : n <= k
  BY <1>1, <1>3, LeastNat
<1>5. PICK i \in S : n = Distance(i)
  OBVIOUS
<1>6. \A j \in S : Distance(i) <= Distance(j)
  BY <1>4, <1>5
<1>7. QED
  BY <1>5, <1>6 DEF S, NextPos

\* What is in a list with one element more, and with the first one taken out.
LEMMA AppendSet ==
  ASSUME NEW S, NEW s \in Seq(S), NEW e \in S
  PROVE  /\ Append(s, e) \in Seq(S)
         /\ ToSet(Append(s, e)) = ToSet(s) \cup {e}
<1> DEFINE t == Append(s, e)
<1>1. t \in Seq(S) /\ Len(t) = Len(s) + 1 /\ t[Len(s) + 1] = e
  OBVIOUS
<1>2. \A i \in 1 .. Len(s) : t[i] = s[i]
  OBVIOUS
<1>3. DOMAIN t = 1 .. Len(s) + 1 /\ DOMAIN s = 1 .. Len(s) /\ Len(s) \in Nat
  BY <1>1
<1> HIDE DEF t
<1>4. ToSet(t) \subseteq ToSet(s) \cup {e}
  BY <1>1, <1>2, <1>3 DEF ToSet
<1>5. ToSet(s) \cup {e} \subseteq ToSet(t)
  BY <1>1, <1>2, <1>3 DEF ToSet
<1>6. QED
  BY <1>1, <1>4, <1>5 DEF t

LEMMA TailSet ==
  ASSUME NEW S, NEW s \in Seq(S), s # <<>>
  PROVE  /\ Head(s) \in S
         /\ Tail(s) \in Seq(S)
         /\ ToSet(s) = ToSet(Tail(s)) \cup {Head(s)}
<1> DEFINE t == Tail(s)
<1>1. /\ t \in Seq(S) /\ Len(t) = Len(s) - 1
      /\ Len(s) \in Nat \ {0} /\ Head(s) = s[1] /\ s[1] \in S
  OBVIOUS
<1>2. \A i \in 1 .. Len(s) - 1 : t[i] = s[i + 1]
  OBVIOUS
<1>3. DOMAIN t = 1 .. Len(s) - 1 /\ DOMAIN s = 1 .. Len(s)
  BY <1>1
<1> HIDE DEF t
<1>4. ToSet(s) \subseteq ToSet(t) \cup {Head(s)}
  <2>1. SUFFICES ASSUME NEW i \in 1 .. Len(s), i # 1
                 PROVE  s[i] \in ToSet(t)
    BY <1>1, <1>3 DEF ToSet
  <2>2. i - 1 \in 1 .. Len(s) - 1 /\ t[i - 1] = s[i]
    BY <1>1, <1>2, <2>1
  <2>3. QED
    BY <1>3, <2>2 DEF ToSet
<1>5. ToSet(t) \cup {Head(s)} \subseteq ToSet(s)
  BY <1>1, <1>2, <1>3 DEF ToSet
<1>6. QED
  BY <1>1, <1>4, <1>5 DEF t

\* ... without repetitions before and after.
LEMMA AppendNoRepeats ==
  ASSUME NEW S, NEW s \in Seq(S), NEW e \in S, e \notin ToSet(s),
         \A i, j \in DOMAIN s : s[i] = s[j] => i = j
  PROVE  \A i, j \in DOMAIN Append(s, e) : Append(s, e)[i] = Append(s, e)[j] => i = j
BY DEF ToSet

LEMMA TailNoRepeats ==
  ASSUME NEW S, NEW s \in Seq(S), s # <<>>,
         \A i, j \in DOMAIN s : s[i] = s[j] => i = j
  PROVE  /\ \A i, j \in DOMAIN Tail(s) : Tail(s)[i] = Tail(s)[j] => i = j
         /\ Head(s) \notin ToSet(Tail(s))
BY DEF ToSet

\* What a thread can write to is never the NULL pointer.
LEMMA InUseType ==
  ASSUME TypeInv, NEW u \in Users
  PROVE  InUse(u) \subseteq Buffers /\ 0 \notin InUse(u)
<1>1. ToSet(bufs[u]) \subseteq Buffers
  BY DEF TypeInv, PoolTypeOK, ToSet
<1>2. poolPc[u] \in {"search", "store"} => got[u] \in Buffers
  BY DEF TypeInv, PoolTypeOK, GivenIsReal
<1>3. QED
  BY <1>1, <1>2, BufferPoolAssumption DEF InUse

\* malloc returns an address that is neither in the ring, nor with a thread.
LEMMA MallocIsNew ==
  ASSUME TypeInv, NEW b \in Buffers, Malloc(b)
  PROVE  /\ b # 0
         /\ \A i \in Entries : buffer[i] # b
         /\ \A u \in Users : got[u] # b /\ b \notin InUse(u)
<1>1. b \notin Allocated /\ b # 0
  BY BufferPoolAssumption DEF Malloc
<1>2. QED
  BY <1>1 DEF Allocated, InUse
-----------------------------------------------------------------------------
(* Type correctness.                                                        *)

LEMMA TypeInit == PoolInit => TypeInv
BY BufferPoolAssumption DEF PoolInit, TypeInv, PoolTypeOK, GivenIsReal, Entries

LEMMA TypeStep == TypeInv /\ [PoolNext]_poolVars => TypeInv'
<1> SUFFICES ASSUME TypeInv, [PoolNext]_poolVars PROVE TypeInv'
  OBVIOUS
<1> USE DEF TypeInv, PoolTypeOK, GivenIsReal
<1>1. ASSUME NEW u \in Users, AcquireLook(u) PROVE TypeInv'
  BY <1>1, BufferPoolAssumption DEF AcquireLook
<1>2. ASSUME NEW u \in Users, AcquireTake(u) PROVE TypeInv'
  BY <1>2, BufferPoolAssumption DEF AcquireTake
<1>3. ASSUME NEW u \in Users, AcquireSearch(u) PROVE TypeInv'
  BY <1>3, NextPosInRing DEF AcquireSearch
<1>4. ASSUME NEW u \in Users, AcquireStore(u) PROVE TypeInv'
  <2>1. got[u] \in Buffers /\ bufs[u] \in Seq(Buffers)
    BY <1>4 DEF AcquireStore
  <2>2. Append(bufs[u], got[u]) \in Seq(Buffers)
    BY <2>1
  <2>3. 0 \in Entries
    BY BufferPoolAssumption DEF Entries
  <2>4. QED
    BY <1>4, <2>2, <2>3 DEF AcquireStore
<1>5. ASSUME NEW u \in Users, Release(u) PROVE TypeInv'
  <2>1. Tail(bufs[u]) \in Seq(Buffers)
    BY <1>5 DEF Release
  <2>2. QED
    BY <1>5, <2>1 DEF Release
<1>6. CASE UNCHANGED poolVars
  BY <1>6 DEF poolVars
<1>7. QED
  BY <1>1, <1>2, <1>3, <1>4, <1>5, <1>6 DEF PoolNext, Acquire

\* Every variable of the pool keeps its type: in particular the current position
\* stays in the ring, where buffer_pool_aquire searches the next free one.
THEOREM PoolTypeCorrect == PoolSpec => []PoolTypeOK
<1>1. TypeInv => PoolTypeOK
  BY DEF TypeInv
<1>2. QED
  BY <1>1, TypeInit, TypeStep, PTL DEF PoolSpec

-----------------------------------------------------------------------------
(* What the steps do to the buffers that threads have.                      *)

\* A thread that finds no mark has nothing more yet ...
LEMMA LookUnmarked ==
  ASSUME TypeInv, NEW u \in Users, AcquireLook(u), ~acquired[pos]
  PROVE  /\ \A v \in Users : InUse(v)' = InUse(v)
         /\ \A v \in Users \ {u} : Pending(v)' = Pending(v) /\ got'[v] = got[v] /\ cur'[v] = cur[v]
         /\ cur'[u] = pos /\ got'[u] = buffer[pos]
BY DEF TypeInv, PoolTypeOK, AcquireLook, InUse, Pending

\* ... and one that finds a mark has a new buffer.
LEMMA LookMarked ==
  ASSUME TypeInv, NEW u \in Users, AcquireLook(u), acquired[pos]
  PROVE  \E b \in Buffers :
           /\ Malloc(b)
           /\ InUse(u)' = InUse(u) \cup {b}
           /\ \A v \in Users \ {u} : InUse(v)' = InUse(v)
           /\ \A v \in Users \ {u} : Pending(v)' = Pending(v) /\ got'[v] = got[v] /\ cur'[v] = cur[v]
           /\ ~Pending(u)' /\ got'[u] = b /\ poolPc'[u] = "search"
BY DEF TypeInv, PoolTypeOK, AcquireLook, InUse, Pending

\* The position taken has its mark from now on, and the thread the buffer.
LEMMA TakeHas ==
  ASSUME TypeInv, NEW u \in Users, AcquireTake(u)
  PROVE  /\ InUse(u)' = InUse(u) \cup {got'[u]}
         /\ \A v \in Users \ {u} : InUse(v)' = InUse(v)
         /\ \A v \in Users \ {u} : Pending(v)' = Pending(v) /\ got'[v] = got[v]
         /\ ~Pending(u)'
         /\ acquired'[cur[u]]
         /\ \A i \in Entries : acquired[i] => acquired'[i]
         /\ UNCHANGED cur
<1>1. /\ poolPc[u] = "take" /\ poolPc' = [poolPc EXCEPT ![u] = "search"]
      /\ UNCHANGED <<cur, bufs>>
      /\ acquired' = [acquired EXCEPT ![cur[u]] = TRUE]
      /\ \A v \in Users \ {u} : got'[v] = got[v]
  BY DEF AcquireTake, TypeInv, PoolTypeOK
<1>2. QED
  BY <1>1 DEF TypeInv, PoolTypeOK, InUse, Pending

\* Neither the search nor the step that follows it changes what threads have.
LEMMA SearchHas ==
  ASSUME TypeInv, NEW u \in Users, AcquireSearch(u)
  PROVE  /\ \A v \in Users : InUse(v)' = InUse(v)
         /\ \A v \in Users : Pending(v)' = Pending(v)
         /\ \A v \in Users : Pending(v) => cur'[v] = cur[v]
         /\ UNCHANGED <<buffer, acquired, got, bufs>>
BY DEF TypeInv, PoolTypeOK, AcquireSearch, InUse, Pending

LEMMA StoreHas ==
  ASSUME TypeInv, NEW u \in Users, AcquireStore(u)
  PROVE  /\ \A v \in Users : InUse(v)' = InUse(v)
         /\ \A v \in Users : Pending(v)' = Pending(v)
         /\ \A v \in Users : Pending(v) => cur'[v] = cur[v] /\ got'[v] = got[v]
         /\ UNCHANGED <<buffer, acquired>>
<1>1. got[u] \in Buffers /\ bufs[u] \in Seq(Buffers)
  BY DEF TypeInv, PoolTypeOK, GivenIsReal, AcquireStore
<1>2. ToSet(Append(bufs[u], got[u])) = ToSet(bufs[u]) \cup {got[u]}
  BY <1>1, AppendSet
<1>3. QED
  BY <1>2 DEF TypeInv, PoolTypeOK, AcquireStore, InUse, Pending

\* A thread that gives a buffer back has the others still; the one given back may
\* remain only in a thread that has it twice.
LEMMA ReleaseHas ==
  ASSUME TypeInv, NEW u \in Users, Release(u)
  PROVE  /\ InUse(u) = InUse(u)' \cup {Head(bufs[u])}
         /\ \A v \in Users \ {u} : InUse(v)' = InUse(v)
         /\ \A v \in Users : Pending(v)' = Pending(v)
         /\ UNCHANGED <<buffer, cur, got>>
<1>1. bufs[u] \in Seq(Buffers) /\ bufs[u] # <<>>
  BY DEF TypeInv, PoolTypeOK, Release
<1>2. ToSet(bufs[u]) = ToSet(Tail(bufs[u])) \cup {Head(bufs[u])}
  BY <1>1, TailSet
<1>3. QED
  BY <1>2 DEF TypeInv, PoolTypeOK, Release, InUse, Pending

-----------------------------------------------------------------------------
(* MarkedIsHeld, and QuietPoolIsFree from it.                               *)

LEMMA MarkedStep ==
  ASSUME TypeInv, MarkedIsHeld, [PoolNext]_poolVars
  PROVE  MarkedIsHeld'
<1> SUFFICES ASSUME "replaced" \notin races',
                    NEW i \in Entries, acquired'[i]
             PROVE  buffer'[i] \in Holding'
  BY DEF MarkedIsHeld
<1> DEFINE Before == acquired[i] /\ buffer'[i] = buffer[i] /\ "replaced" \notin races
<1>1. ASSUME NEW u \in Users, AcquireLook(u) PROVE buffer'[i] \in Holding'
  <2>1. Before
    BY <1>1 DEF AcquireLook
  <2>2. \A v \in Users : InUse(v) \subseteq InUse(v)'
    BY <1>1, LookMarked, LookUnmarked
  <2>3. QED
    BY <2>1, <2>2 DEF MarkedIsHeld, Holding
<1>2. ASSUME NEW u \in Users, AcquireTake(u) PROVE buffer'[i] \in Holding'
  <2>1. /\ "replaced" \notin races /\ buffer[cur[u]] = got[u]
        /\ cur[u] \in Entries
    BY <1>2 DEF AcquireTake, TypeInv, PoolTypeOK
  <2>2. buffer'[cur[u]] = got'[u]
    BY <1>2, <2>1 DEF AcquireTake, TypeInv, PoolTypeOK
  <2>3. CASE i = cur[u]
    BY <1>2, <2>2, <2>3, TakeHas DEF Holding
  <2>4. CASE i # cur[u]
    <3>1. Before
      BY <1>2, <2>1, <2>4 DEF AcquireTake, TypeInv, PoolTypeOK
    <3>2. \A v \in Users : InUse(v) \subseteq InUse(v)'
      BY <1>2, TakeHas
    <3>3. QED
      BY <3>1, <3>2 DEF MarkedIsHeld, Holding
  <2>5. QED
    BY <2>3, <2>4
<1>3. ASSUME NEW u \in Users, AcquireSearch(u) PROVE buffer'[i] \in Holding'
  <2>1. Before
    BY <1>3 DEF AcquireSearch
  <2>2. QED
    BY <1>3, <2>1, SearchHas DEF MarkedIsHeld, Holding
<1>4. ASSUME NEW u \in Users, AcquireStore(u) PROVE buffer'[i] \in Holding'
  <2>1. Before
    BY <1>4 DEF AcquireStore
  <2>2. QED
    BY <1>4, <2>1, StoreHas DEF MarkedIsHeld, Holding
<1>5. ASSUME NEW u \in Users, Release(u) PROVE buffer'[i] \in Holding'
  <2>1. Before /\ buffer[i] # Head(bufs[u])
    BY <1>5 DEF Release
  <2>2. PICK v \in Users : buffer[i] \in InUse(v)
    BY <2>1 DEF MarkedIsHeld, Holding
  <2>3. buffer'[i] \in InUse(v)'
    BY <1>5, <2>1, <2>2, ReleaseHas
  <2>4. QED
    BY <2>3 DEF Holding
<1>6. CASE UNCHANGED poolVars
  BY <1>6 DEF poolVars, MarkedIsHeld, Holding, InUse
<1>7. QED
  BY <1>1, <1>2, <1>3, <1>4, <1>5, <1>6 DEF PoolNext, Acquire

\* When no request is running every buffer of the ring can be taken again: no way
\* through buffer_pool_aquire and buffer_pool_release leaves a mark behind, unless
\* two threads replaced the buffer of one position.
THEOREM QuietPoolIsFreed == PoolSpec => []QuietPoolIsFree
<1>1. PoolInit => MarkedIsHeld
  BY DEF PoolInit, MarkedIsHeld
<1>2. TypeInv /\ MarkedIsHeld => QuietPoolIsFree
  <2>1. SUFFICES ASSUME MarkedIsHeld, "replaced" \notin races,
                        \A u \in Users : poolPc[u] = "out" /\ bufs[u] = <<>>
                 PROVE  \A u \in Users : InUse(u) = {}
    BY DEF MarkedIsHeld, Holding, QuietPoolIsFree
  <2>2. QED
    BY <2>1 DEF InUse, ToSet
<1>3. QED
  BY <1>1, <1>2, TypeInit, TypeStep, MarkedStep, PTL DEF PoolSpec

-----------------------------------------------------------------------------
(* PoolInv, and BuffersAreExclusive from it.                                *)

\* The test of a mark that is clear: nobody has the buffer of that position.
LEMMA LookUnmarkedStep ==
  ASSUME TypeInv, Parts, NEW u \in Users, AcquireLook(u), ~acquired[pos]
  PROVE  Parts'
<1> USE DEF Parts
<1>1. /\ UNCHANGED <<buffer, acquired, bufs>>
      /\ poolPc' = [poolPc EXCEPT ![u] = "take"]
      /\ pos \in Entries
  BY DEF AcquireLook, TypeInv, PoolTypeOK
<1>2. /\ \A b : b \in Holding' <=> b \in Holding
      /\ \A v \in Users : InUse(v)' = InUse(v)
  BY LookUnmarked DEF Holding
<1>3. /\ \A v \in Users \ {u} : Pending(v)' = Pending(v) /\ got'[v] = got[v] /\ cur'[v] = cur[v]
      /\ cur'[u] = pos /\ got'[u] = buffer[pos]
      /\ Pending(u)' => got'[u] # 0
  BY LookUnmarked DEF Pending
<1>4. buffer[pos] \notin Holding
  BY <1>1 DEF HeldMarked
<1>5. RingDistinct' /\ HeldMarked'
  BY <1>1, <1>2 DEF RingDistinct, HeldMarked
<1>6. PendingInPlace'
  BY <1>1, <1>3 DEF PendingInPlace, RingDistinct
<1>7. PendingTogether'
  BY <1>1, <1>3 DEF PendingTogether, PendingInPlace
<1>8. PendingMarked' /\ OneOfTwo'
  BY <1>1, <1>2, <1>3, <1>4 DEF PendingMarked, OneOfTwo
<1>9. NoRepeats' /\ Exclusive'
  BY <1>1, <1>2, <1>3 DEF NoRepeats, Exclusive, AcquireLook, TypeInv, PoolTypeOK
<1>10. QED
  BY <1>5, <1>6, <1>7, <1>8, <1>9

\* The test of a mark that is set: the thread has an address of its own.
LEMMA LookMarkedStep ==
  ASSUME TypeInv, Parts, NEW u \in Users, AcquireLook(u), acquired[pos]
  PROVE  Parts'
<1> USE DEF Parts
<1>1. /\ UNCHANGED <<buffer, acquired, bufs>>
      /\ poolPc' = [poolPc EXCEPT ![u] = "search"]
  BY DEF AcquireLook, TypeInv, PoolTypeOK
<1>2. PICK b \in Buffers :
        /\ Malloc(b)
        /\ InUse(u)' = InUse(u) \cup {b}
        /\ \A v \in Users \ {u} : InUse(v)' = InUse(v)
        /\ \A v \in Users \ {u} : Pending(v)' = Pending(v) /\ got'[v] = got[v] /\ cur'[v] = cur[v]
        /\ ~Pending(u)' /\ got'[u] = b /\ poolPc'[u] = "search"
  BY LookMarked
<1>3. /\ b # 0
      /\ \A i \in Entries : buffer[i] # b
      /\ \A v \in Users : got[v] # b /\ b \notin InUse(v)
  BY <1>2, MallocIsNew
<1>4. \A a : a # b => (a \in Holding' <=> a \in Holding)
  BY <1>2 DEF Holding
<1>5. RingDistinct' /\ HeldMarked'
  BY <1>1, <1>3, <1>4 DEF RingDistinct, HeldMarked
<1>6. PendingInPlace' /\ PendingTogether'
  BY <1>1, <1>2 DEF PendingInPlace, PendingTogether
<1>7. PendingMarked'
  BY <1>1, <1>2, <1>3, <1>4 DEF PendingMarked
<1>8. OneOfTwo'
  <2>1. SUFFICES ASSUME NEW v \in Users \ {u}, Pending(v), got'[v] \in Holding',
                        buffer[cur[v]] # got[v]
                 PROVE  buffer'[cur'[v]] \notin Holding'
    BY <1>1, <1>2 DEF OneOfTwo
  <2>2. got[v] \in Holding /\ cur[v] \in Entries
    BY <1>2, <1>3, <1>4, <2>1 DEF TypeInv, PoolTypeOK
  <2>3. QED
    BY <1>1, <1>2, <1>3, <1>4, <2>1, <2>2 DEF OneOfTwo
<1>9. NoRepeats'
  BY <1>1, <1>2, <1>3 DEF NoRepeats, AcquireLook, InUse, TypeInv, PoolTypeOK
<1>10. Exclusive'
  BY <1>2, <1>3 DEF Exclusive
<1>11. QED
  BY <1>5, <1>6, <1>7, <1>8, <1>9, <1>10

\* The buffer of a position is taken that has no mark yet.
LEMMA TakeStep ==
  ASSUME TypeInv, Parts, NEW u \in Users, AcquireTake(u), got[u] # 0,
         ~acquired[cur[u]]
  PROVE  Parts'
<1> USE DEF Parts
<1>1. /\ UNCHANGED <<buffer, got, cur, bufs>>
      /\ poolPc' = [poolPc EXCEPT ![u] = "search"]
      /\ Pending(u) /\ cur[u] \in Entries
  BY DEF AcquireTake, TypeInv, PoolTypeOK, Pending
<1>2. got[u] \notin Holding
  BY <1>1 DEF PendingMarked
<1>3. /\ InUse(u)' = InUse(u) \cup {got[u]}
      /\ \A v \in Users \ {u} : InUse(v)' = InUse(v)
      /\ \A v \in Users \ {u} : Pending(v)' = Pending(v)
      /\ ~Pending(u)'
      /\ acquired'[cur[u]]
      /\ \A i \in Entries : acquired[i] => acquired'[i]
  BY <1>1, TakeHas
<1>4. \A b : b \in Holding' <=> b \in Holding \/ b = got[u]
  BY <1>3 DEF Holding
<1>5. RingDistinct' /\ PendingInPlace' /\ PendingTogether'
  BY <1>1, <1>3 DEF RingDistinct, PendingInPlace, PendingTogether
<1>6. HeldMarked'
  BY <1>1, <1>3, <1>4 DEF HeldMarked, PendingInPlace
<1>7. PendingMarked'
  <2>1. SUFFICES ASSUME NEW v \in Users \ {u}, Pending(v), got'[v] \in Holding'
                 PROVE  acquired'[cur[v]]
    BY <1>1, <1>3 DEF PendingMarked
  <2>2. cur[v] \in Entries
    BY DEF TypeInv, PoolTypeOK
  <2>3. CASE got[v] = got[u]
    BY <1>1, <1>3, <2>1, <2>3 DEF PendingTogether
  <2>4. CASE got[v] # got[u]
    BY <1>1, <1>3, <1>4, <2>1, <2>2, <2>4 DEF PendingMarked
  <2>5. QED
    BY <2>3, <2>4
<1>8. OneOfTwo'
  <2>1. SUFFICES ASSUME NEW v \in Users \ {u}, Pending(v), got'[v] \in Holding',
                        buffer[cur[v]] # got[v]
                 PROVE  buffer'[cur'[v]] \notin Holding'
    BY <1>1, <1>3 DEF OneOfTwo
  <2>2. cur[v] \in Entries
    BY DEF TypeInv, PoolTypeOK
  <2>3. CASE got[v] = got[u]
    <3>1. cur[v] = cur[u]
      BY <1>1, <2>1, <2>3 DEF PendingTogether
    <3>2. buffer[cur[u]] \notin Holding
      BY <1>1 DEF HeldMarked
    <3>3. QED
      BY <1>1, <1>4, <2>1, <2>3, <3>1, <3>2
  <2>4. CASE got[v] # got[u]
    <3>1. got[v] \in Holding
      BY <1>1, <1>4, <2>1, <2>4
    <3>2. acquired[cur[v]] /\ buffer[cur[v]] \notin Holding
      BY <2>1, <3>1 DEF PendingMarked, OneOfTwo
    <3>3. buffer[cur[v]] # got[u]
      BY <1>1, <2>2, <3>2 DEF PendingInPlace
    <3>4. QED
      BY <1>1, <1>4, <3>2, <3>3
  <2>5. QED
    BY <2>3, <2>4
<1>9. NoRepeats'
  BY <1>1, <1>2 DEF NoRepeats, Holding, InUse, TypeInv, PoolTypeOK
<1>10. Exclusive'
  BY <1>2, <1>3 DEF Exclusive, Holding
<1>11. QED
  BY <1>5, <1>6, <1>7, <1>8, <1>9, <1>10

\* The position had no buffer when it was read: a new one is put there.
LEMMA TakeNewStep ==
  ASSUME TypeInv, Parts, NEW u \in Users, AcquireTake(u), got[u] = 0,
         ~acquired[cur[u]]
  PROVE  Parts'
<1> USE DEF Parts
<1>1. PICK b \in Buffers :
        /\ Malloc(b)
        /\ got' = [got EXCEPT ![u] = b]
        /\ buffer' = [buffer EXCEPT ![cur[u]] = b]
  BY DEF AcquireTake
<1>2. /\ UNCHANGED <<cur, bufs>>
      /\ poolPc' = [poolPc EXCEPT ![u] = "search"]
      /\ cur[u] \in Entries
      /\ buffer'[cur[u]] = b
      /\ \A i \in Entries \ {cur[u]} : buffer'[i] = buffer[i]
      /\ got'[u] = b
  BY <1>1 DEF AcquireTake, TypeInv, PoolTypeOK
<1>3. /\ b # 0
      /\ \A i \in Entries : buffer[i] # b
      /\ \A v \in Users : got[v] # b /\ b \notin InUse(v)
  BY <1>1, MallocIsNew
<1>4. /\ InUse(u)' = InUse(u) \cup {b}
      /\ \A v \in Users \ {u} : InUse(v)' = InUse(v)
      /\ \A v \in Users \ {u} : Pending(v)' = Pending(v) /\ got'[v] = got[v]
      /\ ~Pending(u)'
      /\ acquired'[cur[u]]
      /\ \A i \in Entries : acquired[i] => acquired'[i]
  BY <1>2, TakeHas
<1>5. \A a : a \in Holding' <=> a \in Holding \/ a = b
  BY <1>4 DEF Holding
<1>6. RingDistinct'
  BY <1>2, <1>3 DEF RingDistinct
<1>7. PendingInPlace' /\ PendingTogether'
  BY <1>2, <1>3, <1>4 DEF PendingInPlace, PendingTogether
<1>8. HeldMarked'
  BY <1>2, <1>3, <1>4, <1>5 DEF HeldMarked
<1>9. ASSUME NEW v \in Users \ {u}, Pending(v), got'[v] \in Holding'
      PROVE  got[v] \in Holding /\ acquired[cur[v]] /\ cur[v] # cur[u] /\ cur[v] \in Entries
  BY <1>4, <1>3, <1>5, <1>9 DEF PendingMarked, TypeInv, PoolTypeOK
<1>10. PendingMarked'
  BY <1>2, <1>4, <1>9 DEF PendingMarked
<1>11. OneOfTwo'
  <2>1. SUFFICES ASSUME NEW v \in Users \ {u}, Pending(v), got'[v] \in Holding',
                        buffer'[cur[v]] # got[v]
                 PROVE  buffer'[cur'[v]] \notin Holding'
    BY <1>2, <1>4 DEF OneOfTwo
  <2>2. got[v] \in Holding /\ buffer'[cur[v]] = buffer[cur[v]] /\ buffer[cur[v]] # b
    BY <1>2, <1>3, <1>9, <2>1
  <2>3. buffer[cur[v]] \notin Holding
    BY <2>1, <2>2 DEF OneOfTwo
  <2>4. QED
    BY <1>2, <1>5, <2>2, <2>3
<1>12. NoRepeats'
  BY <1>2, <1>3 DEF NoRepeats, InUse, AcquireTake, TypeInv, PoolTypeOK
<1>13. Exclusive'
  BY <1>3, <1>4 DEF Exclusive
<1>14. QED
  BY <1>6, <1>7, <1>8, <1>10, <1>11, <1>12, <1>13

\* A buffer is given back: its mark goes, and nobody has it any more.
LEMMA ReleaseStep ==
  ASSUME TypeInv, Parts, NEW u \in Users, Release(u)
  PROVE  Parts'
<1> USE DEF Parts
<1> DEFINE h == Head(bufs[u])
<1>1. /\ UNCHANGED <<buffer, poolPc, got, cur>>
      /\ acquired' = [i \in Entries |-> acquired[i] /\ buffer[i] # h]
      /\ bufs' = [bufs EXCEPT ![u] = Tail(@)]
      /\ bufs[u] \in Seq(Buffers) /\ bufs[u] # <<>>
      /\ poolPc[u] = "out"
  BY DEF Release, TypeInv, PoolTypeOK
<1>2. /\ InUse(u) = InUse(u)' \cup {h}
      /\ \A v \in Users \ {u} : InUse(v)' = InUse(v)
      /\ \A v \in Users : Pending(v)' = Pending(v)
  BY ReleaseHas
<1>3. /\ \A i, j \in DOMAIN bufs[u] : bufs[u][i] = bufs[u][j] => i = j
      /\ \A i, j \in DOMAIN Tail(bufs[u]) : Tail(bufs[u])[i] = Tail(bufs[u])[j] => i = j
      /\ h \notin ToSet(Tail(bufs[u]))
  BY <1>1, TailNoRepeats DEF NoRepeats
<1>4. InUse(u)' = ToSet(Tail(bufs[u]))
  BY <1>1 DEF InUse, TypeInv, PoolTypeOK
<1>5. h \in Holding /\ Holding' = Holding \ {h}
  BY <1>2, <1>3, <1>4 DEF Exclusive, Holding
<1>6. ASSUME NEW i \in Entries, acquired[i], buffer[i] # h
      PROVE  acquired'[i]
  BY <1>1, <1>6
<1> HIDE DEF h
<1>7. RingDistinct' /\ PendingInPlace' /\ PendingTogether'
  BY <1>1, <1>2 DEF RingDistinct, PendingInPlace, PendingTogether
<1>8. HeldMarked'
  BY <1>1, <1>5, <1>6 DEF HeldMarked
<1>9. PendingMarked'
  <2>1. SUFFICES ASSUME NEW v \in Users, Pending(v), got[v] \in Holding, got[v] # h
                 PROVE  acquired'[cur[v]]
    BY <1>1, <1>2, <1>5 DEF PendingMarked
  <2>2. acquired[cur[v]] /\ cur[v] \in Entries
    BY <2>1 DEF PendingMarked, TypeInv, PoolTypeOK
  <2>3. buffer[cur[v]] # h
    BY <1>5, <2>1 DEF OneOfTwo
  <2>4. QED
    BY <1>6, <2>2, <2>3
<1>10. OneOfTwo'
  BY <1>1, <1>2, <1>5 DEF OneOfTwo
<1>11. NoRepeats'
  BY <1>1, <1>3 DEF NoRepeats, TypeInv, PoolTypeOK
<1>12. Exclusive'
  BY <1>2 DEF Exclusive
<1>13. QED
  BY <1>7, <1>8, <1>9, <1>10, <1>11, <1>12

\* The steps that move the current position on change nothing of this.
LEMMA SearchStep ==
  ASSUME TypeInv, Parts, NEW u \in Users, AcquireSearch(u)
  PROVE  Parts'
<1> USE DEF Parts
<1>1. /\ \A v \in Users : InUse(v)' = InUse(v)
      /\ \A v \in Users : Pending(v)' = Pending(v)
      /\ \A v \in Users : Pending(v) => cur'[v] = cur[v]
      /\ UNCHANGED <<buffer, acquired, got, bufs>>
  BY SearchHas
<1>2. Holding' = Holding
  BY <1>1 DEF Holding
<1>3. RingDistinct' /\ PendingInPlace' /\ PendingTogether' /\ HeldMarked'
  BY <1>1, <1>2 DEF RingDistinct, PendingInPlace, PendingTogether, HeldMarked
<1>4. PendingMarked' /\ OneOfTwo'
  BY <1>1, <1>2 DEF PendingMarked, OneOfTwo
<1>5. NoRepeats' /\ Exclusive'
  BY <1>1 DEF NoRepeats, Exclusive, AcquireSearch, TypeInv, PoolTypeOK
<1>6. QED
  BY <1>3, <1>4, <1>5

LEMMA StoreStep ==
  ASSUME TypeInv, Parts, NEW u \in Users, AcquireStore(u)
  PROVE  Parts'
<1> USE DEF Parts
<1>1. /\ \A v \in Users : InUse(v)' = InUse(v)
      /\ \A v \in Users : Pending(v)' = Pending(v)
      /\ \A v \in Users : Pending(v) => cur'[v] = cur[v] /\ got'[v] = got[v]
      /\ UNCHANGED <<buffer, acquired>>
  BY StoreHas
<1>2. Holding' = Holding
  BY <1>1 DEF Holding
<1>3. RingDistinct' /\ PendingInPlace' /\ PendingTogether' /\ HeldMarked'
  BY <1>1, <1>2 DEF RingDistinct, PendingInPlace, PendingTogether, HeldMarked
<1>4. PendingMarked' /\ OneOfTwo'
  BY <1>1, <1>2 DEF PendingMarked, OneOfTwo
<1>5. NoRepeats'
  <2>1. /\ got[u] \in Buffers /\ bufs[u] \in Seq(Buffers)
        /\ got[u] \notin ToSet(bufs[u])
    BY DEF TypeInv, PoolTypeOK, GivenIsReal, NoRepeats, AcquireStore
  <2>2. /\ bufs' = [bufs EXCEPT ![u] = Append(@, got[u])]
        /\ poolPc' = [poolPc EXCEPT ![u] = "out"]
        /\ \A v \in Users \ {u} : got'[v] = got[v]
    BY DEF AcquireStore, TypeInv, PoolTypeOK
  <2>3. \A i, j \in DOMAIN Append(bufs[u], got[u]) :
          Append(bufs[u], got[u])[i] = Append(bufs[u], got[u])[j] => i = j
    BY <2>1, AppendNoRepeats DEF NoRepeats
  <2>4. QED
    BY <2>2, <2>3 DEF NoRepeats, TypeInv, PoolTypeOK
<1>6. Exclusive'
  BY <1>1 DEF Exclusive
<1>7. QED
  BY <1>3, <1>4, <1>5, <1>6

LEMMA PoolStep == TypeInv /\ PoolInv /\ [PoolNext]_poolVars => PoolInv'
<1> SUFFICES ASSUME TypeInv, PoolInv, [PoolNext]_poolVars, "twice" \notin races'
             PROVE  Parts'
  BY DEF PoolInv
<1>1. "twice" \notin races
  BY DEF PoolNext, Acquire, AcquireLook, AcquireTake, AcquireSearch, AcquireStore,
         Release, poolVars
<1>2. Parts
  BY <1>1 DEF PoolInv
<1>3. ASSUME NEW u \in Users, AcquireLook(u) PROVE Parts'
  BY <1>2, <1>3, LookMarkedStep, LookUnmarkedStep
<1>4. ASSUME NEW u \in Users, AcquireTake(u) PROVE Parts'
  <2>1. ~acquired[cur[u]]
    BY <1>4 DEF AcquireTake
  <2>2. QED
    BY <1>2, <1>4, <2>1, TakeStep, TakeNewStep
<1>5. ASSUME NEW u \in Users, AcquireSearch(u) PROVE Parts'
  BY <1>2, <1>5, SearchStep
<1>6. ASSUME NEW u \in Users, AcquireStore(u) PROVE Parts'
  BY <1>2, <1>6, StoreStep
<1>7. ASSUME NEW u \in Users, Release(u) PROVE Parts'
  BY <1>2, <1>7, ReleaseStep
<1>8. CASE UNCHANGED poolVars
  <2>1. /\ UNCHANGED <<buffer, acquired, poolPc, cur, got, bufs>>
        /\ \A u \in Users : InUse(u)' = InUse(u) /\ Pending(u)' = Pending(u)
    BY <1>8 DEF poolVars, InUse, Pending
  <2>2. Holding' = Holding
    BY <2>1 DEF Holding
  <2>3. RingDistinct' /\ PendingInPlace' /\ PendingTogether' /\ HeldMarked'
    BY <1>2, <2>1, <2>2 DEF Parts, RingDistinct, PendingInPlace, PendingTogether, HeldMarked
  <2>4. PendingMarked' /\ OneOfTwo' /\ NoRepeats' /\ Exclusive'
    BY <1>2, <2>1, <2>2 DEF Parts, PendingMarked, OneOfTwo, NoRepeats, Exclusive
  <2>5. QED
    BY <2>3, <2>4 DEF Parts
<1>9. QED
  BY <1>3, <1>4, <1>5, <1>6, <1>7, <1>8 DEF PoolNext, Acquire

LEMMA PoolInvInit == PoolInit => PoolInv
<1>1. SUFFICES ASSUME PoolInit PROVE Parts
  BY DEF PoolInv
<1>2. \A u \in Users : ToSet(bufs[u]) = {} /\ bufs[u] = <<>> /\ poolPc[u] = "out"
  BY <1>1 DEF PoolInit, ToSet
<1>3. \A u \in Users : InUse(u) = {} /\ ~Pending(u)
  BY <1>2 DEF InUse, Pending
<1>4. RingDistinct /\ Exclusive /\ HeldMarked
  BY <1>1, <1>3 DEF PoolInit, RingDistinct, Exclusive, HeldMarked, Holding
<1>5. PendingInPlace /\ PendingTogether /\ PendingMarked /\ OneOfTwo
  BY <1>3 DEF PendingInPlace, PendingTogether, PendingMarked, OneOfTwo
<1>6. NoRepeats
  BY <1>2 DEF NoRepeats
<1>7. QED
  BY <1>4, <1>5, <1>6 DEF Parts

\* Two requests never write to the same buffer, unless two threads passed the
\* test of one mark before either of them set it: the missing lock of
\* buffer_pool_aquire is the only way to share a buffer.
THEOREM PoolIsExclusive == PoolSpec => []BuffersAreExclusive
<1>1. PoolInv => BuffersAreExclusive
  BY DEF PoolInv, Parts, Exclusive, BuffersAreExclusive
<1>2. QED
  BY <1>1, PoolInvInit, TypeInit, TypeStep, PoolStep, PTL DEF PoolSpec

-----------------------------------------------------------------------------
(* The paths of the tracks.                                                *)

\* The types, and that mtp->current_directory lies in the current share.
TrackTypeOK ==
  /\ sharePath \in ShareMaps
  /\ shareDir \in [Shares -> Paths \cup {NoPath}]
  /\ curShare \in Shares \cup {NoPath}
  /\ curDir \in Paths \cup {NoPath}
  /\ pending \in Played \cup {NoPath}
  /\ playing \in Played \cup {NoPath}
  /\ browsed \in BOOLEAN

CurrentHoldsFolder ==
  /\ curShare = NoPath <=> curDir = NoPath
  /\ curShare # NoPath => Starts(sharePath, curShare, curDir)

\* A path that waits is the one of the file last started.
PendingIsLast == pending # NoPath => pending = playing

TrackInv == TrackTypeOK /\ CurrentHoldsFolder /\ PendingIsLast

\* The file last started has been taken over, and lies in a share as the code
\* understands it.
TakenOver ==
  /\ pending = NoPath
  /\ playing # NoPath
  /\ Exists(playing)
  /\ \E s \in Shares : Starts(sharePath, s, Dirname(playing))

\* CurrentShareFollows, with the comparison that the code makes.
ShareFollows ==
  TakenOver => curShare # NoPath /\ Starts(sharePath, curShare, Dirname(playing))

\* CurrentFolderFollows, with the comparison that the code makes.
FolderFollows ==
  curShare # NoPath /\ ~browsed =>
    /\ sharePath[curShare] \o shareDir[curShare] = curDir
    /\ TakenOver => curDir = Dirname(playing)

-----------------------------------------------------------------------------
(* Lemmas about sequences.                                                  *)

\* A prefix has the same elements.
LEMMA PrefixElements ==
  ASSUME NEW S, NEW p \in Seq(S), NEW d \in Seq(S), IsPrefix(p, d)
  PROVE  /\ Len(p) \in Nat /\ Len(d) \in Nat /\ Len(p) <= Len(d)
         /\ \A i \in 1 .. Len(p) : p[i] = d[i]
<1>1. /\ Len(p) \in Nat /\ Len(d) \in Nat /\ Len(p) <= Len(d)
      /\ SubSeq(p, 1, Len(p)) = SubSeq(d, 1, Len(p))
  BY DEF IsPrefix
<1>2. \A i \in 1 .. Len(p) : SubSeq(p, 1, Len(p))[i] = p[i]
  BY <1>1
<1>3. \A i \in 1 .. Len(p) : SubSeq(d, 1, Len(p))[i] = d[i]
  BY <1>1
<1>4. QED
  BY <1>1, <1>2, <1>3

\* A path is its prefix followed by what SubSeq leaves of it.
LEMMA PrefixSplits ==
  ASSUME NEW S, NEW p \in Seq(S), NEW d \in Seq(S), IsPrefix(p, d)
  PROVE  p \o SubSeq(d, Len(p) + 1, Len(d)) = d
<1>1. /\ Len(p) \in Nat /\ Len(d) \in Nat /\ Len(p) <= Len(d)
      /\ \A i \in 1 .. Len(p) : p[i] = d[i]
  BY PrefixElements
<1> DEFINE r == SubSeq(d, Len(p) + 1, Len(d))
<1>2. r \in Seq(S) /\ Len(r) = Len(d) - Len(p)
  BY <1>1
<1>3. \A i \in 1 .. Len(r) : r[i] = d[Len(p) + i]
  BY <1>1, <1>2
<1> HIDE DEF r
<1>4. p \o r \in Seq(S) /\ Len(p \o r) = Len(d)
  BY <1>1, <1>2
<1>5. \A i \in 1 .. Len(d) : (p \o r)[i] = d[i]
  BY <1>1, <1>2, <1>3
<1>6. p \o r = d
  BY <1>4, <1>5, SeqEqual
<1>7. QED
  BY <1>6 DEF r

\* What begins with p and "/" begins with p.
LEMMA LongerPrefix ==
  ASSUME NEW S, NEW p \in Seq(S), NEW e \in S, NEW d \in Seq(S),
         IsPrefix(p \o <<e>>, d)
  PROVE  IsPrefix(p, d)
<1>1. /\ p \o <<e>> \in Seq(S) /\ Len(p \o <<e>>) = Len(p) + 1
      /\ Len(p) \in Nat
      /\ \A i \in 1 .. Len(p) : (p \o <<e>>)[i] = p[i]
  OBVIOUS
<1>2. /\ Len(p) + 1 <= Len(d)
      /\ \A i \in 1 .. Len(p) + 1 : (p \o <<e>>)[i] = d[i]
  BY <1>1 DEF IsPrefix
<1>3. /\ Len(p) <= Len(d)
      /\ \A i \in 1 .. Len(p) : p[i] = d[i]
  BY <1>1, <1>2
<1>4. QED
  BY <1>1, <1>3 DEF IsPrefix

\* The last "/" of a path is one.
LEMMA LastSlashType ==
  ASSUME NEW p \in Paths, p # <<>>, Head(p) = "/"
  PROVE  LastSlash(p) \in DOMAIN p
<1> DEFINE T == {i \in DOMAIN p : p[i] = "/"}
<1>1. 1 \in DOMAIN p /\ p[1] = "/" /\ Len(p) \in Nat /\ DOMAIN p = 1 .. Len(p)
  BY DEF Paths
<1>2. T \in SUBSET (0 .. Len(p)) /\ T # {}
  BY <1>1
<1>3. PICK i \in T : \A k \in T : k <= i
  BY <1>1, <1>2, GreatestNat
<1>4. ASSUME NEW j \in i + 1 .. Len(p) PROVE p[j] # "/"
  <2>1. j \in DOMAIN p /\ ~(j <= i)
    BY <1>1, <1>2, <1>3
  <2>2. j \notin T
    BY <1>3, <2>1
  <2>3. QED
    BY <2>1, <2>2
<1>5. QED
  BY <1>3, <1>4 DEF LastSlash

LEMMA DirnameType ==
  ASSUME NEW p \in Paths, Exists(p)
  PROVE  Dirname(p) \in Paths /\ Dirname(p) # NoPath
<1>1. LastSlash(p) \in 1 .. Len(p) /\ Len(p) \in Nat
  BY LastSlashType, TrackPathsAssumption DEF Exists, Paths
<1>2. p \in Seq(Words) /\ "/" \in Words
  BY TrackPathsAssumption DEF Paths
<1>3. SubSeq(p, 1, LastSlash(p) - 1) \in Seq(Words)
  BY <1>1, <1>2
<1>4. <<"/">> \in Seq(Words)
  BY <1>2
<1>5. QED
  BY <1>3, <1>4, TrackPathsAssumption DEF Dirname, Paths

-----------------------------------------------------------------------------
(* The choice of a share.                                                   *)

LEMMA SharesType ==
  ASSUME TrackTypeOK
  PROVE  /\ sharePath \in Seq(Paths) /\ Shares \subseteq Nat /\ NoPath \notin Shares
         /\ \A s \in Shares : sharePath[s] \in Paths
BY TrackPathsAssumption DEF TrackTypeOK, Shares

\* When a share has a path that dir begins with, there is a first one.
LEMMA FirstMatchIsMatch ==
  ASSUME NEW paths \in Seq(Paths), NEW dir, \E s \in DOMAIN paths : Starts(paths, s, dir)
  PROVE  /\ FirstMatch(paths, dir) \in DOMAIN paths
         /\ Starts(paths, FirstMatch(paths, dir), dir)
<1> DEFINE T == {s \in DOMAIN paths : Starts(paths, s, dir)}
<1>1. T \in SUBSET Nat /\ T # {} /\ DOMAIN paths = 1 .. Len(paths) /\ Len(paths) \in Nat
  OBVIOUS
<1>2. PICK s \in T : \A r \in T : s <= r
  BY <1>1, LeastNat
<1>3. \A r \in 1 .. s - 1 : ~Starts(paths, r, dir)
  BY <1>1, <1>2
<1>4. QED
  BY <1>2, <1>3 DEF FirstMatch

\* Select finds a share whose path dir begins with, if there is one.
LEMMA SelectIsMatch ==
  ASSUME NEW paths \in Seq(Paths), NEW share \in DOMAIN paths \cup {NoPath}, NEW dir
  PROVE  LET s == Select(paths, share, dir) IN
         /\ s # NoPath => s \in DOMAIN paths /\ Starts(paths, s, dir)
         /\ s = NoPath => \A r \in DOMAIN paths : ~Starts(paths, r, dir)
<1>1. NoPath \notin DOMAIN paths
  BY TrackPathsAssumption
<1>2. QED
  BY <1>1, FirstMatchIsMatch DEF Select

\* A folder in a share begins with the share's path.
LEMMA InsideStarts ==
  ASSUME TrackTypeOK, NEW s \in Shares, NEW dir \in Paths, Inside(dir, s)
  PROVE  Starts(sharePath, s, dir)
<1>1. sharePath[s] \in Seq(Words) /\ dir \in Seq(Words)
  BY SharesType DEF Paths
<1>2. IsPrefix(dir, dir)
  BY <1>1 DEF IsPrefix
<1>3. CASE dir = sharePath[s]
  BY <1>2, <1>3 DEF Starts
<1>4. CASE IsPrefix(sharePath[s] \o <<"/">>, dir)
  <2>1. "/" \in Words
    BY TrackPathsAssumption
  <2>2. IsPrefix(sharePath[s], dir)
    BY <1>1, <1>4, <2>1, LongerPrefix
  <2>3. QED
    BY <2>2 DEF Starts
<1>5. QED
  BY <1>3, <1>4 DEF Inside

-----------------------------------------------------------------------------
(* The steps.                                                               *)

\* The update that TakePending makes changes the current share for a path that no
\* longer lies in it, and nothing when no share holds the path.
LEMMA UpdateSelects ==
  ASSUME TrackInv, NEW path \in Paths, Exists(path), Update(path)
  PROVE  LET dir == Dirname(path)
             s   == Updated(path)
         IN \/ /\ s \in Shares /\ Starts(sharePath, s, dir)
               /\ curShare' = s /\ curDir' = dir /\ browsed' = FALSE
               /\ shareDir' = [shareDir EXCEPT ![s] = Translate(sharePath, s, dir)]
            \/ /\ UNCHANGED <<curShare, curDir, shareDir, browsed>>
               /\ \/ dir = curDir
                  \/ \A r \in Shares : ~Starts(sharePath, r, dir)
<1>1. /\ sharePath \in Seq(Paths) /\ NoPath \notin Shares
      /\ curShare \in DOMAIN sharePath \cup {NoPath}
  BY SharesType DEF TrackInv, TrackTypeOK, Shares
<1> DEFINE s == Updated(path)
<1>2. CASE s = NoPath
  <2>1. UNCHANGED <<curShare, curDir, shareDir, browsed>>
    BY <1>2 DEF Update
  <2>2. Dirname(path) = curDir \/ \A r \in Shares : ~Starts(sharePath, r, Dirname(path))
    BY <1>1, <1>2, SelectIsMatch DEF Updated, Shares
  <2>3. QED
    BY <2>1, <2>2
<1>3. CASE s # NoPath
  <2>1. s \in Shares /\ Starts(sharePath, s, Dirname(path))
    BY <1>1, <1>3, SelectIsMatch DEF Updated, Shares
  <2>2. QED
    BY <1>3, <2>1 DEF Update
<1>4. QED
  BY <1>2, <1>3

\* A path without a file changes nothing.
LEMMA UpdateIgnores ==
  ASSUME NEW path, ~Exists(path), Update(path)
  PROVE  UNCHANGED <<curShare, curDir, shareDir, browsed>>
BY DEF Update, Updated

\* The rest of a folder's path behind that of its share is a path.
LEMMA TranslateType ==
  ASSUME NEW s, sharePath[s] \in Paths, NEW dir \in Paths, Starts(sharePath, s, dir)
  PROVE  /\ Translate(sharePath, s, dir) \in Paths
         /\ sharePath[s] \o Translate(sharePath, s, dir) = dir
<1>1. sharePath[s] \in Seq(Words) /\ dir \in Seq(Words)
  BY DEF Paths
<1>2. /\ Len(sharePath[s]) \in Nat /\ Len(dir) \in Nat
      /\ Len(sharePath[s]) <= Len(dir)
  BY <1>1, PrefixElements DEF Starts
<1>3. SubSeq(dir, Len(sharePath[s]) + 1, Len(dir)) \in Seq(Words)
  BY <1>1, <1>2
<1>4. QED
  BY <1>1, <1>3, PrefixSplits DEF Translate, Paths, Starts

LEMMA TakePendingStep ==
  ASSUME TrackInv, ShareFollows, FolderFollows, TakePending
  PROVE  TrackInv' /\ ShareFollows' /\ FolderFollows'
<1> DEFINE dir == Dirname(pending)
<1>1. /\ pending \in Paths /\ pending = playing /\ playing # NoPath
      /\ pending' = NoPath /\ UNCHANGED <<sharePath, playing>>
      /\ Update(pending)
  BY TrackPathsAssumption DEF TakePending, TrackInv, TrackTypeOK, PendingIsLast
<1>2. CASE ~Exists(pending)
  <2>1. UNCHANGED <<curShare, curDir, shareDir, browsed>>
    BY <1>1, <1>2, UpdateIgnores
  <2>2. ~TakenOver'
    BY <1>1, <1>2 DEF TakenOver, Exists
  <2>3. TrackInv'
    BY <1>1, <2>1 DEF TrackInv, TrackTypeOK, CurrentHoldsFolder, PendingIsLast, Starts, Shares
  <2>4. QED
    BY <1>1, <2>1, <2>2, <2>3 DEF ShareFollows, FolderFollows
<1>3. CASE Exists(pending)
  <2>1. dir \in Paths /\ dir # NoPath
    BY <1>1, <1>3, DirnameType
  <2>2. CASE /\ Updated(pending) \in Shares /\ Starts(sharePath, Updated(pending), dir)
             /\ curShare' = Updated(pending) /\ curDir' = dir /\ browsed' = FALSE
             /\ shareDir' = [shareDir EXCEPT ![Updated(pending)] =
                               Translate(sharePath, Updated(pending), dir)]
    <3> DEFINE s == Updated(pending)
    <3>1. /\ Translate(sharePath, s, dir) \in Paths
          /\ sharePath[s] \o Translate(sharePath, s, dir) = dir
          /\ s # NoPath
      BY <2>1, <2>2, TranslateType, SharesType DEF TrackInv
    <3> HIDE DEF s
    <3>2. /\ s \in Shares /\ Starts(sharePath, s, dir)
          /\ curShare' = s /\ curDir' = dir /\ browsed' = FALSE
          /\ shareDir' = [shareDir EXCEPT ![s] = Translate(sharePath, s, dir)]
      BY <2>2 DEF s
    <3>3. TrackTypeOK' /\ PendingIsLast'
      BY <1>1, <2>1, <3>1, <3>2 DEF TrackInv, TrackTypeOK, PendingIsLast, Shares
    <3>4. CurrentHoldsFolder'
      BY <1>1, <2>1, <3>1, <3>2 DEF CurrentHoldsFolder, Starts
    <3>5. shareDir'[s] = Translate(sharePath, s, dir)
      BY <3>2 DEF TrackInv, TrackTypeOK
    <3>6. Dirname(playing)' = dir /\ sharePath'[curShare'] = sharePath[s]
      BY <1>1, <3>2
    <3>7. ShareFollows' /\ FolderFollows'
      BY <1>1, <3>1, <3>2, <3>5, <3>6 DEF ShareFollows, FolderFollows, Starts
    <3>8. QED
      BY <3>3, <3>4, <3>7 DEF TrackInv
  <2>3. CASE /\ UNCHANGED <<curShare, curDir, shareDir, browsed>>
             /\ dir = curDir \/ \A r \in Shares : ~Starts(sharePath, r, dir)
    <3>1. TrackInv'
      BY <1>1, <2>3 DEF TrackInv, TrackTypeOK, CurrentHoldsFolder, PendingIsLast, Starts, Shares
    <3>2. TakenOver' => dir = curDir
      BY <1>1, <2>3 DEF TakenOver, Starts, Shares
    <3>3. ShareFollows'
      BY <1>1, <2>1, <2>3, <3>2 DEF ShareFollows, TrackInv, CurrentHoldsFolder, Starts
    <3>4. FolderFollows'
      BY <1>1, <2>3, <3>2 DEF FolderFollows
    <3>5. QED
      BY <3>1, <3>3, <3>4
  <2>4. QED
    BY <1>1, <1>3, <2>2, <2>3, UpdateSelects
<1>4. QED
  BY <1>2, <1>3

LEMMA StartFileStep ==
  ASSUME TrackInv, ShareFollows, FolderFollows, NEW path \in Played, StartFile(path)
  PROVE  TrackInv' /\ ShareFollows' /\ FolderFollows'
<1>1. /\ pending' = path /\ playing' = path /\ path # NoPath
      /\ UNCHANGED <<sharePath, shareDir, curShare, curDir, browsed>>
  BY TrackPathsAssumption DEF StartFile
<1>2. TrackInv'
  BY <1>1 DEF TrackInv, TrackTypeOK, CurrentHoldsFolder, PendingIsLast, Starts, Shares
<1>3. ~TakenOver'
  BY <1>1 DEF TakenOver
<1>4. QED
  BY <1>1, <1>2, <1>3 DEF ShareFollows, FolderFollows

LEMMA SetShareDirStep ==
  ASSUME TrackInv, ShareFollows, FolderFollows,
         NEW s \in Shares, NEW p \in Paths, SetShareDir(s, p)
  PROVE  TrackInv' /\ ShareFollows' /\ FolderFollows'
<1>1. /\ shareDir' = [shareDir EXCEPT ![s] = p]
      /\ browsed' = (browsed \/ s = curShare)
      /\ UNCHANGED <<sharePath, curShare, curDir, pending, playing>>
  BY DEF SetShareDir
<1>2. TrackInv'
  BY <1>1 DEF TrackInv, TrackTypeOK, CurrentHoldsFolder, PendingIsLast, Starts, Shares
<1>3. TakenOver' = TakenOver /\ ShareFollows'
  BY <1>1 DEF ShareFollows, TakenOver, Starts, Shares
<1>4. curShare # NoPath /\ ~browsed' => shareDir'[curShare] = shareDir[curShare]
  BY <1>1 DEF TrackInv, TrackTypeOK
<1>5. FolderFollows'
  BY <1>1, <1>3, <1>4 DEF FolderFollows
<1>6. QED
  BY <1>2, <1>3, <1>5

LEMMA TrackStutter ==
  ASSUME TrackInv, ShareFollows, FolderFollows, UNCHANGED trackVars
  PROVE  TrackInv' /\ ShareFollows' /\ FolderFollows'
BY DEF trackVars, TrackInv, TrackTypeOK, CurrentHoldsFolder, PendingIsLast, Starts, Shares,
   ShareFollows, FolderFollows, TakenOver

\* At the start the folder of the first share is the current one.
LEMMA TrackInitHolds == TrackInit => TrackInv /\ ShareFollows /\ FolderFollows
<1> SUFFICES ASSUME TrackInit PROVE TrackInv /\ ShareFollows /\ FolderFollows
  OBVIOUS
<1>1. /\ sharePath \in ShareMaps /\ sharePath \in Seq(Paths)
      /\ NoPath \notin Shares
      /\ pending = NoPath /\ playing = NoPath /\ browsed = FALSE
      /\ \A s \in Shares : sharePath[s] \in Seq(Words)
  BY TrackPathsAssumption DEF TrackInit, Shares, Paths
<1> DEFINE first == sharePath[1]
           s     == Select(sharePath, NoPath, first)
<1>2. CASE sharePath # <<>> /\ Exists(first)
  <2>1. /\ curShare = s /\ curDir = first
        /\ shareDir = [r \in Shares |->
             IF r = s THEN Translate(sharePath, s, first) ELSE NoPath]
    BY <1>2 DEF TrackInit
  <2>2. 1 \in Shares /\ first \in Seq(Words)
    BY <1>1, <1>2 DEF Shares, Paths
  <2>3. Starts(sharePath, 1, first)
    BY <2>2 DEF Starts, IsPrefix
  <2>4. s \in Shares /\ Starts(sharePath, s, first)
    BY <1>1, <2>2, <2>3, SelectIsMatch DEF Shares
  <2>5. /\ sharePath[s] \in Seq(Words)
        /\ IsPrefix(sharePath[s], first)
    BY <1>1, <2>4 DEF Starts
  <2> HIDE DEF s, first
  <2>6. /\ Translate(sharePath, s, first) \in Paths
        /\ sharePath[s] \o Translate(sharePath, s, first) = first
    BY <2>2, <2>4, <2>5, TranslateType DEF Paths
  <2>7. first # NoPath /\ s # NoPath /\ first \in Paths
    BY <1>1, <2>2, <2>4, TrackPathsAssumption DEF Paths
  <2>8. TrackInv
    BY <1>1, <2>1, <2>4, <2>6, <2>7
       DEF TrackInv, TrackTypeOK, CurrentHoldsFolder, PendingIsLast
  <2>9. QED
    BY <1>1, <2>1, <2>4, <2>6, <2>8 DEF ShareFollows, FolderFollows, TakenOver
<1>3. CASE ~(sharePath # <<>> /\ Exists(first))
  <2>1. /\ curShare = NoPath /\ curDir = NoPath
        /\ shareDir = [r \in Shares |-> NoPath]
    BY <1>3 DEF TrackInit
  <2>2. QED
    BY <1>1, <2>1 DEF TrackInv, TrackTypeOK, CurrentHoldsFolder, PendingIsLast,
       ShareFollows, FolderFollows, TakenOver
<1>4. QED
  BY <1>2, <1>3

-----------------------------------------------------------------------------
(* What the invariant says of the two properties.                           *)

\* A file in a share, by its name, is one as the code understands it.
LEMMA TakenOverWhenInside ==
  ASSUME TrackInv, pending = NoPath, playing # NoPath, Exists(playing),
         \E s \in Shares : Inside(Dirname(playing), s)
  PROVE  TakenOver
<1>1. playing \in Paths
  BY TrackPathsAssumption DEF TrackInv, TrackTypeOK
<1>2. Dirname(playing) \in Paths
  BY <1>1, DirnameType
<1>3. QED
  BY <1>2, InsideStarts DEF TrackInv, TakenOver

LEMMA CurrentShareIs == TrackInv /\ ShareFollows => CurrentShareFollows
<1> SUFFICES ASSUME TrackInv, ShareFollows, pending = NoPath, playing # NoPath,
                    Exists(playing), NamesSeparate(Dirname(playing)),
                    \E s \in Shares : Inside(Dirname(playing), s)
             PROVE  curShare # NoPath /\ Inside(Dirname(playing), curShare)
  BY DEF CurrentShareFollows
<1>1. curShare # NoPath /\ Starts(sharePath, curShare, Dirname(playing))
  BY TakenOverWhenInside DEF ShareFollows
<1>2. QED
  BY <1>1 DEF NamesSeparate, TrackInv, TrackTypeOK

LEMMA CurrentFolderIs == TrackInv /\ FolderFollows => CurrentFolderFollows
BY TakenOverWhenInside DEF FolderFollows, CurrentFolderFollows

-----------------------------------------------------------------------------
(* The names of the shares.                                                *)

\* The last digit of a number
LastDigit(n) == <<"0", "1", "2", "3", "4", "5", "6", "7", "8", "9">>[(n % 10) + 1]

\* The words that names are made of
Word == STRING \cup {"share", "0", "1", "2", "3", "4", "5", "6", "7", "8", "9"}

\* Division by ten
LEMMA Tens ==
  ASSUME NEW n \in Nat
  PROVE  /\ n \div 10 \in Nat /\ n % 10 \in 0 .. 9 /\ n = 10 * (n \div 10) + (n % 10)
         /\ n >= 10 => n \div 10 < n
OBVIOUS

\* The last digit is one of ten texts, and tells the rest of the division.
LEMMA LastDigitIs ==
  ASSUME NEW n \in Nat
  PROVE  /\ LastDigit(n) \in Word
         /\ \A k \in Nat : LastDigit(k) = LastDigit(n) => k % 10 = n % 10
<1> DEFINE d == <<"0", "1", "2", "3", "4", "5", "6", "7", "8", "9">>
<1>0. /\ d[1] = "0" /\ d[2] = "1" /\ d[3] = "2" /\ d[4] = "3" /\ d[5] = "4"
      /\ d[6] = "5" /\ d[7] = "6" /\ d[8] = "7" /\ d[9] = "8" /\ d[10] = "9"
  OBVIOUS
<1> HIDE DEF d
<1>1. ASSUME NEW i \in 1 .. 10 PROVE d[i] \in Word
  <2>1. i = 1 \/ i = 2 \/ i = 3 \/ i = 4 \/ i = 5 \/ i = 6 \/ i = 7 \/ i = 8 \/ i = 9 \/ i = 10
    OBVIOUS
  <2>2. QED
    BY <1>0, <2>1 DEF Word
<1>2. ASSUME NEW i \in 1 .. 10, NEW j \in 1 .. 10, i # j PROVE d[i] # d[j]
  <2>1. /\ i = 1 \/ i = 2 \/ i = 3 \/ i = 4 \/ i = 5 \/ i = 6 \/ i = 7 \/ i = 8 \/ i = 9 \/ i = 10
        /\ j = 1 \/ j = 2 \/ j = 3 \/ j = 4 \/ j = 5 \/ j = 6 \/ j = 7 \/ j = 8 \/ j = 9 \/ j = 10
    OBVIOUS
  <2>2. QED
    BY <1>0, <1>2, <2>1
<1>3. \A k \in Nat : (k % 10) + 1 \in 1 .. 10 /\ LastDigit(k) = d[(k % 10) + 1]
  BY Tens DEF LastDigit, d
<1>4. QED
  BY <1>1, <1>2, <1>3, Tens

\* A number is written by its digits.
LEMMA DecimalIs ==
  /\ Decimal \in [Nat -> Seq(Word)]
  /\ \A n \in Nat : Decimal[n] = IF n < 10 THEN <<LastDigit(n)>>
                                 ELSE Append(Decimal[n \div 10], LastDigit(n))
<1> DEFINE S == Seq(Word)
           B == 0 .. 9
           b == [n \in Nat |-> <<LastDigit(n)>>]
           m == [n \in Nat |-> n]
           p == [n \in Nat |-> n \div 10]
           g == [n \in Nat |-> [s \in S |-> Append(s, LastDigit(n))]]
           All(f) == [n \in Nat |-> IF n < 10 THEN <<LastDigit(n)>>
                                    ELSE Append(f[n \div 10], LastDigit(n))]
<1>1. b \in [Nat -> S]
  <2>1. ASSUME NEW n \in Nat PROVE <<LastDigit(n)>> \in S
    <3>1. LastDigit(n) \in Word
      BY LastDigitIs
    <3>2. QED
      BY <3>1
  <2>2. QED
    BY <2>1
<1>2. g \in [Nat -> [S -> S]]
  <2>1. ASSUME NEW n \in Nat, NEW s \in S PROVE Append(s, LastDigit(n)) \in S
    <3>1. LastDigit(n) \in Word
      BY LastDigitIs
    <3>2. QED
      BY <3>1, AppendProperties
  <2>2. QED
    BY <2>1
<1>3. m \in [Nat -> Nat] /\ p \in [Nat -> Nat] /\ \A n \in Nat : n \notin B => m[p[n]] < m[n]
  BY Tens
<1>4. PICK f \in [Nat -> S] : Computes(f, Nat, B, b, p, g)
  <2> HIDE DEF b, g, p, m, S
  <2>1. QED
    BY <1>1, <1>2, <1>3, RecursionExists
<1>5. f = All(f)
  <2>1. ASSUME NEW n \in Nat
        PROVE  f[n] = IF n < 10 THEN <<LastDigit(n)>> ELSE Append(f[n \div 10], LastDigit(n))
    <3>1. n \div 10 \in Nat /\ f[n \div 10] \in S
      BY Tens
    <3>2. f[n] = IF n \in B THEN b[n] ELSE g[n][f[p[n]]]
      BY <1>4 DEF Computes
    <3>3. p[n] = n \div 10
      OBVIOUS
    <3>4. n \in B <=> n < 10
      OBVIOUS
    <3>5. QED
      BY <3>1, <3>2, <3>3, <3>4
  <2>2. QED
    BY <2>1
<1>6. Decimal = CHOOSE h : h = All(h)
  BY DEF Decimal, LastDigit
<1> DEFINE c == CHOOSE h : h = All(h)
<1>7. c = All(c)
  BY <1>5
<1>8. Decimal = All(Decimal)
  BY <1>6, <1>7
<1>9. \A n \in Nat : Decimal[n] = IF n < 10 THEN <<LastDigit(n)>>
                                 ELSE Append(Decimal[n \div 10], LastDigit(n))
  BY <1>8
<1> HIDE DEF c, All
<1>10. ASSUME NEW n \in Nat PROVE Decimal[n] \in S
  <2> DEFINE K == {k \in Nat : \A i \in 0 .. k : Decimal[i] \in S}
  <2>1. ASSUME NEW k \in Nat, k < 10 \/ Decimal[k \div 10] \in S PROVE Decimal[k] \in S
    <3>1. LastDigit(k) \in Word
      BY LastDigitIs
    <3>2. CASE k < 10
      <4>1. Decimal[k] = <<LastDigit(k)>>
        BY <1>9, <3>2
      <4>2. <<LastDigit(k)>> \in Seq(Word)
        BY <3>1
      <4>3. QED
        BY <4>1, <4>2
    <3>3. CASE ~(k < 10)
      BY <1>9, <3>1, <3>3, <2>1, AppendProperties
    <3>4. QED
      BY <3>2, <3>3
  <2> HIDE DEF S
  <2>2. 0 \in K
    BY <2>1
  <2>3. ASSUME NEW k \in 1 .. n, k - 1 \in K PROVE k \in K
    <3>1. k \in Nat /\ (k < 10 \/ k \div 10 \in 0 .. k - 1)
      BY Tens
    <3>2. Decimal[k] \in S
      BY <2>1, <2>3, <3>1
    <3>3. \A i \in 0 .. k : i = k \/ i \in 0 .. k - 1
      OBVIOUS
    <3>4. QED
      BY <2>3, <3>1, <3>2, <3>3
  <2> HIDE DEF K
  <2>4. n \in K
    BY <2>2, <2>3, TurnsKeep
  <2>5. QED
    BY <2>4 DEF K
<1>11. Decimal \in [Nat -> S]
  BY <1>8, <1>10 DEF All
<1>12. QED
  BY <1>9, <1>11

\* Different numbers have different digits.
LEMMA DecimalsDiffer ==
  ASSUME NEW a \in Nat, NEW b \in Nat, Decimal[a] = Decimal[b]
  PROVE  a = b
<1> DEFINE K == {k \in Nat : \A i \in 0 .. k, j \in Nat : Decimal[i] = Decimal[j] => i = j}
<1>1. ASSUME NEW k \in Nat PROVE Decimal[k] \in Seq(Word) /\ LastDigit(k) \in Word
  BY DecimalIs, LastDigitIs
<1>2. ASSUME NEW k \in Nat, NEW j \in Nat, Decimal[k] = Decimal[j],
             \A i \in 0 .. k - 1 : Decimal[i] = Decimal[j \div 10] => i = j \div 10
      PROVE  k = j
  <2>1. ASSUME NEW i \in Nat
        PROVE  /\ i < 10 => Decimal[i] = <<LastDigit(i)>>
               /\ ~(i < 10) => /\ Decimal[i] = Append(Decimal[i \div 10], LastDigit(i))
                               /\ Len(Decimal[i \div 10]) >= 1
    <3>1. ASSUME NEW n \in Nat PROVE Len(Decimal[n]) >= 1 /\ Len(Decimal[n]) \in Nat
      <4>1. CASE n < 10
        <5>1. Decimal[n] = <<LastDigit(n)>>
          BY <4>1, DecimalIs
        <5>2. Len(<<LastDigit(n)>>) = 1
          OBVIOUS
        <5>3. QED
          BY <5>1, <5>2
      <4>2. CASE ~(n < 10)
        <5>1. n \div 10 \in Nat /\ Decimal[n \div 10] \in Seq(Word) /\ LastDigit(n) \in Word
          BY Tens, <1>1
        <5>2. Decimal[n] = Append(Decimal[n \div 10], LastDigit(n))
          BY <4>2, DecimalIs
        <5>3. QED
          BY <5>1, <5>2, AppendProperties
      <4>3. QED
        BY <4>1, <4>2
    <3>2. QED
      BY <3>1, Tens, DecimalIs
  <2>2. /\ k \div 10 \in Nat /\ j \div 10 \in Nat
        /\ LastDigit(k) \in Word /\ LastDigit(j) \in Word
        /\ Decimal[k \div 10] \in Seq(Word) /\ Decimal[j \div 10] \in Seq(Word)
    BY <1>1, Tens
  <2>3. \A s \in Seq(Word), e \in Word, d \in Word : Len(s) >= 1 => Append(s, e) # <<d>>
    <3>1. ASSUME NEW s \in Seq(Word), NEW e \in Word, NEW d \in Word, Len(s) >= 1
          PROVE  Append(s, e) # <<d>>
      <4>1. Len(Append(s, e)) = Len(s) + 1 /\ Len(s) \in Nat
        BY AppendProperties
      <4>2. Len(<<d>>) = 1
        OBVIOUS
      <4>3. QED
        BY <4>1, <4>2, <3>1
    <3>2. QED
      BY <3>1
  <2>4. CASE k < 10
    <3>1. j < 10
      BY <2>1, <2>2, <2>3, <2>4, <1>2
    <3>2. <<LastDigit(k)>> = <<LastDigit(j)>>
      BY <3>1, <2>1, <2>4, <1>2
    <3>3. LastDigit(k) = LastDigit(j)
      BY <3>2
    <3>4. k % 10 = j % 10
      BY <3>3, LastDigitIs
    <3>5. QED
      BY <2>4, <3>1, <3>4
  <2>5. CASE ~(k < 10)
    <3>1. ~(j < 10)
      BY <2>1, <2>2, <2>3, <2>5, <1>2
    <3>2. Append(Decimal[k \div 10], LastDigit(k)) = Append(Decimal[j \div 10], LastDigit(j))
      BY <3>1, <2>1, <2>5, <1>2
    <3>3. Decimal[k \div 10] = Decimal[j \div 10] /\ LastDigit(k) = LastDigit(j)
      BY <3>2, <2>2, AppendInjective
    <3>4. k \div 10 \in 0 .. k - 1
      BY <2>5, Tens
    <3>5. k \div 10 = j \div 10 /\ k % 10 = j % 10
      BY <1>2, <3>3, <3>4, LastDigitIs
    <3>6. QED
      BY <3>5, Tens
  <2>6. QED
    BY <2>4, <2>5
<1>3. ASSUME NEW k \in 0 .. a, \A i \in 0 .. k - 1 : i \in K PROVE k \in K
  <2>1. SUFFICES ASSUME NEW i \in 0 .. k, NEW j \in Nat, Decimal[i] = Decimal[j] PROVE i = j
    OBVIOUS
  <2>2. \A n \in 0 .. i - 1 : n \in 0 .. k - 1 /\ n \in 0 .. n
    OBVIOUS
  <2>3. i \in Nat /\ j \div 10 \in Nat
    BY Tens
  <2>4. \A n \in 0 .. i - 1 : Decimal[n] = Decimal[j \div 10] => n = j \div 10
    BY <1>3, <2>2, <2>3
  <2>5. QED
    BY <1>2, <2>1, <2>3, <2>4
<1>4. a \in K
  <2> DEFINE T == {k \in 0 .. a : k \notin K}
  <2>1. SUFFICES ASSUME T # {} PROVE FALSE
    BY DEF K
  <2>2. PICK k \in T : \A i \in T : k <= i
    <3>1. T \in SUBSET Nat
      OBVIOUS
    <3>2. QED
      BY <2>1, <3>1, LeastNat
  <2>3. ASSUME NEW i \in 0 .. k - 1 PROVE i \in K
    <3>1. i \in 0 .. a /\ ~(k <= i)
      OBVIOUS
    <3>2. QED
      BY <2>2, <3>1
  <2>4. QED
    BY <1>3, <2>3
<1>5. a \in 0 .. a
  OBVIOUS
<1>6. QED
  BY <1>4, <1>5

\* Enumerated names are not empty, and different numbers give different names.
LEMMA EnumeratedIs ==
  /\ \A n \in Nat : Enumerated(n) \in Seq(Word) /\ Enumerated(n) # <<>>
  /\ \A n, k \in Nat : Enumerated(n) = Enumerated(k) => n = k
<1> DEFINE w == <<"share">>
<1>1. w \in Seq(Word) /\ w # <<>>
  <2>1. "share" \in Word
    BY DEF Word
  <2>2. QED
    BY <2>1
<1>2. \A n \in Nat : Decimal[n] \in Seq(Word) /\ Enumerated(n) = w \o Decimal[n]
  BY DecimalIs DEF Enumerated
<1> HIDE DEF w
<1>3. ASSUME NEW n \in Nat PROVE Enumerated(n) \in Seq(Word) /\ Enumerated(n) # <<>>
  <2> DEFINE s == Decimal[n]
  <2>1. s \in Seq(Word) /\ Enumerated(n) = w \o s
    BY <1>2
  <2> HIDE DEF s
  <2>2. w \o s \in Seq(Word) /\ w \o s # <<>>
    BY <1>1, <2>1, ConcatProperties, ConcatEqualIffEmpty
  <2>3. QED
    BY <2>1, <2>2
<1>4. ASSUME NEW n \in Nat, NEW k \in Nat, Enumerated(n) = Enumerated(k) PROVE n = k
  <2>1. Decimal[n] = Decimal[k]
    <3> DEFINE s == Decimal[n]
               v == Decimal[k]
    <3>1. s \in Seq(Word) /\ v \in Seq(Word) /\ w \o s = w \o v
      BY <1>2, <1>4
    <3> HIDE DEF s, v
    <3>2. s = v
      BY <1>1, <3>1, ConcatSimplifications
    <3>3. QED
      BY <3>2 DEF s, v
  <2>2. QED
    BY <2>1, DecimalsDiffer
<1>5. QED
  BY <1>3, <1>4

Infos == [key : Seq(Word), enum : Seq(Word)]

\* The enumerated names are those of the beginning, each at one share.
ProperShares(infos) ==
  /\ infos \in Seq(Infos)
  /\ \A i \in 1 .. Len(infos) : \E j \in 1 .. Len(infos) : infos[i].enum = Enumerated(j)
  /\ \A i, j \in 1 .. Len(infos) : i # j => infos[i].enum # infos[j].enum

\* What __update_shared_folders makes of the option
LEMMA NewSharesAre ==
  ASSUME NEW c \in Configs
  PROVE  /\ NewShares(c) \in Seq(Infos)
         /\ \A i \in 1 .. Len(NewShares(c)) : NewShares(c)[i].enum = Enumerated(i)
<1> DEFINE n == Len(c)
           S == {s \in Seq(Infos) : \A i \in 1 .. Len(s) : s[i].enum = Enumerated(i)}
           g == [k \in 1 .. n |-> [s \in S |-> AddShare(s, c[k])]]
           All(f) == [k \in 0 .. n |-> IF k = 0 THEN <<>> ELSE AddShare(f[k - 1], c[k])]
<1>1. n \in Nat /\ \A k \in 1 .. n : c[k].key \in Seq(Word)
  <2>1. c \in Seq([key : Seq(STRING), readable : BOOLEAN])
    BY ShareNamesAssumption
  <2>2. ASSUME NEW k \in 1 .. n PROVE c[k].key \in Seq(Word)
    <3> DEFINE s == c[k].key
               X == Seq(STRING)
               R == [key : X, readable : BOOLEAN]
    <3>1. s \in X
      <4>1. c \in Seq(R)
        BY <2>1
      <4> HIDE DEF R, X
      <4>2. c[k] \in R
        BY <4>1
      <4>3. QED
        BY <4>2 DEF R
    <3>2. STRING \subseteq Word
      BY DEF Word
    <3> HIDE DEF s
    <3>3. s \in Seq(Word)
      BY <3>1, <3>2, SeqMonotonic
    <3>4. QED
      BY <3>3 DEF s
  <2>3. QED
    BY <2>1, <2>2
<1>2. <<>> \in S
  OBVIOUS
<1>3. ASSUME NEW s \in S, NEW k \in 1 .. n PROVE AddShare(s, c[k]) \in S
  <2> DEFINE e == [key |-> c[k].key, enum |-> Enumerated(Len(s) + 1)]
             t == Append(s, e)
  <2>1. s \in Seq(Infos) /\ Len(s) + 1 \in Nat /\ Len(s) \in Nat
    OBVIOUS
  <2>2. e \in Infos /\ e.enum = Enumerated(Len(s) + 1)
    BY <1>1, <2>1, EnumeratedIs DEF Infos
  <2>3. AddShare(s, c[k]) \in {s, t}
    BY DEF AddShare
  <2> HIDE DEF e
  <2>4. /\ t \in Seq(Infos) /\ Len(t) = Len(s) + 1
        /\ \A i \in 1 .. Len(s) : t[i] = s[i]
        /\ t[Len(s) + 1] = e
    BY <2>1, <2>2, AppendProperties
  <2> HIDE DEF t
  <2>5. ASSUME NEW i \in 1 .. Len(t) PROVE t[i].enum = Enumerated(i)
    <3>1. i = Len(s) + 1 \/ i \in 1 .. Len(s)
      BY <2>1, <2>4
    <3>2. QED
      BY <3>1, <2>2, <2>4
  <2>6. QED
    BY <2>3, <2>4, <2>5
<1>4. g \in [1 .. n -> [S -> S]]
  BY <1>3
<1> HIDE DEF S, g, n
<1>5. PICK f \in [0 .. n -> S] : Turns(f, n, <<>>, g)
  BY <1>1, <1>2, <1>4, TurnsExist
<1>6. f = All(f)
  <2>1. ASSUME NEW k \in 0 .. n PROVE f[k] = IF k = 0 THEN <<>> ELSE AddShare(f[k - 1], c[k])
    <3>1. CASE k = 0
      BY <3>1, <1>5 DEF Turns
    <3>2. CASE k # 0
      <4>1. k \in 1 .. n /\ k - 1 \in 0 .. n
        BY <1>1, <3>2
      <4>2. f[k - 1] \in S /\ f[k] = g[k][f[k - 1]]
        BY <4>1, <1>5 DEF Turns
      <4>3. QED
        BY <3>2, <4>1, <4>2 DEF g
    <3>3. QED
      BY <3>1, <3>2
  <2>2. QED
    BY <2>1
<1> DEFINE after == CHOOSE f_1 : f_1 = All(f_1)
<1>7. after = All(after)
  BY <1>6
<1>8. NewShares(c) = after[n]
  BY DEF NewShares, n
<1> HIDE DEF after
<1>9. /\ after[0] = <<>>
      /\ \A k \in 1 .. n : after[k] = AddShare(after[k - 1], c[k])
  BY <1>1, <1>7
<1> DEFINE K == {k \in 0 .. n : after[k] \in S}
<1>10. 0 \in K /\ \A k \in 1 .. n : k - 1 \in K => k \in K
  BY <1>1, <1>2, <1>3, <1>9
<1> HIDE DEF K
<1>11. n \in K
  <2>1. n \in 0 .. n
    BY <1>1
  <2>2. QED
    BY <2>1, <1>1, <1>10, TurnsKeep
<1>12. after[n] \in S
  BY <1>11 DEF K
<1>13. QED
  BY <1>8, <1>12 DEF S

-----------------------------------------------------------------------------
\* A function from 1 .. n to itself that takes no value twice takes every value.
LEMMA TakesAll ==
  ASSUME NEW n \in Nat, NEW f \in [1 .. n -> 1 .. n],
         \A i, j \in 1 .. n : i # j => f[i] # f[j],
         NEW a \in 1 .. n
  PROVE  \E i \in 1 .. n : f[i] = a
<1> DEFINE S == 1 .. n
           T == S \ {a}
<1>1. SUFFICES ASSUME \A i \in S : f[i] # a PROVE FALSE
  OBVIOUS
<1>2. IsFiniteSet(S) /\ Cardinality(S) = n
  BY FS_Interval
<1>3. IsFiniteSet(T) /\ Cardinality(T) = n - 1
  BY <1>2, FS_RemoveElement
<1>4. f \in [S -> T]
  BY <1>1
<1>5. Cardinality(T) < Cardinality(S)
  BY <1>2, <1>3
<1> HIDE DEF S, T
<1>6. \E x, y \in S : x # y /\ f[x] = f[y]
  BY <1>2, <1>3, <1>4, <1>5, FS_PigeonHole
<1>7. QED
  BY <1>6 DEF S

\* Of n + 1 values from 1 to n two are the same.
LEMMA TwoAreSame ==
  ASSUME NEW n \in Nat, NEW w \in [0 .. n -> 1 .. n]
  PROVE  \E i, j \in 0 .. n : i < j /\ w[i] = w[j]
<1> DEFINE S == 0 .. n
           T == 1 .. n
<1>1. IsFiniteSet(S) /\ Cardinality(S) = n + 1
  BY FS_Interval
<1>2. IsFiniteSet(T) /\ Cardinality(T) = n
  BY FS_Interval
<1>3. Cardinality(T) < Cardinality(S)
  BY <1>1, <1>2
<1>4. w \in [S -> T]
  OBVIOUS
<1>5. S \subseteq Nat
  OBVIOUS
<1> HIDE DEF S, T
<1>6. \E x, y \in S : x # y /\ w[x] = w[y]
  BY <1>1, <1>2, <1>3, <1>4, FS_PigeonHole
<1>7. PICK x \in S, y \in S : x # y /\ w[x] = w[y]
  BY <1>6
<1>8. x < y \/ y < x
  BY <1>5, <1>7
<1>9. QED
  BY <1>7, <1>8 DEF S

\* A walk along such a function comes to the place from which it goes back to its start.
LEMMA WalkReturns ==
  ASSUME NEW n \in Nat, NEW f \in [1 .. n -> 1 .. n],
         \A i, j \in 1 .. n : i # j => f[i] # f[j],
         NEW w \in [0 .. n -> 1 .. n], \A k \in 1 .. n : w[k] = f[w[k - 1]]
  PROVE  \E k \in 0 .. n : f[w[k]] = w[0]
<1> DEFINE S == 0 .. n
           Again(i) == \E j \in S : i < j /\ w[i] = w[j]
           R == {i \in S : Again(i)}
<1>2. R # {}
  BY TwoAreSame
<1>3. PICK i \in R : \A k \in R : i <= k
  <2>1. R \in SUBSET Nat
    OBVIOUS
  <2> HIDE DEF R
  <2>2. QED
    BY <1>2, <2>1, LeastNat
<1>4. PICK j \in S : i < j /\ w[i] = w[j]
  OBVIOUS
<1>5. j \in 1 .. n /\ j - 1 \in S /\ w[j] = f[w[j - 1]]
  <2>1. i \in 0 .. n
    OBVIOUS
  <2>2. j \in 1 .. n /\ j - 1 \in S
    BY <1>4, <2>1
  <2>3. QED
    BY <2>2
<1>6. CASE i = 0
  BY <1>4, <1>5, <1>6
<1>7. CASE i # 0
  <2>1. i \in 1 .. n /\ i - 1 \in S /\ w[i] = f[w[i - 1]]
    <3>1. i \in 0 .. n
      OBVIOUS
    <3>2. i \in 1 .. n /\ i - 1 \in S
      BY <1>7, <3>1
    <3>3. QED
      BY <3>2
  <2>2. w[i - 1] = w[j - 1]
    BY <1>4, <1>5, <2>1
  <2>3. i - 1 < j - 1 /\ ~(i <= i - 1)
    BY <1>4, <1>5, <2>1
  <2>4. i - 1 \in R
    BY <1>5, <2>1, <2>2, <2>3
  <2>5. QED
    BY <1>3, <2>3, <2>4
<1>8. QED
  BY <1>6, <1>7

Enums(infos) == {Enumerated(j) : j \in 1 .. Len(infos)}

\* The dictionary has each of the names of the beginning once.
LEMMA IndexIs ==
  ASSUME NEW infos \in Seq(Infos), NEW name \in Enums(infos)
  PROVE  /\ Index(infos, name) \in 1 .. Len(infos)
         /\ Enumerated(Index(infos, name)) = name
<1>1. DOMAIN infos = 1 .. Len(infos)
  OBVIOUS
<1>2. \E j \in DOMAIN infos : Enumerated(j) = name
  BY <1>1 DEF Enums
<1>3. QED
  BY <1>1, <1>2 DEF Index

\* The loop of __swap_enumerated_share_names ends at the share that has the name.
LEMMA HolderIs ==
  ASSUME NEW infos, ProperShares(infos), NEW name \in Enums(infos)
  PROVE  /\ Holder(infos, name) \in 1 .. Len(infos)
         /\ infos[Holder(infos, name)].enum = name
<1> DEFINE n == Len(infos)
           P == 1 .. n
           f == [i \in P |-> Index(infos, infos[i].enum)]
           a == Index(infos, name)
           g == [k \in 1 .. n |-> f]
           All(h) == [k \in 0 .. n |-> IF k = 0 THEN a ELSE Index(infos, infos[h[k - 1]].enum)]
<1>1. n \in Nat /\ infos \in Seq(Infos)
  BY DEF ProperShares
<1>2. \A i \in P : infos[i].enum \in Enums(infos)
  BY DEF ProperShares, Enums
<1>3. ASSUME NEW i \in P PROVE f[i] \in P /\ Enumerated(f[i]) = infos[i].enum
  BY <1>1, <1>2, IndexIs
<1>4. a \in P /\ Enumerated(a) = name
  BY <1>1, IndexIs
<1>5. f \in [P -> P]
  BY <1>3
<1>6. \A i \in P : f[i] = Index(infos, infos[i].enum)
  OBVIOUS
<1>7. ASSUME NEW i \in P, NEW j \in P, i # j PROVE f[i] # f[j]
  BY <1>3, <1>7 DEF ProperShares
<1> HIDE DEF f, a
<1>8. PICK w \in [0 .. n -> P] : Turns(w, n, a, g)
  <2>1. g \in [1 .. n -> [P -> P]]
    BY <1>5
  <2> HIDE DEF g, P, n
  <2>2. QED
    BY <2>1, <1>1, <1>4, TurnsExist
<1>9. w[0] = a /\ \A k \in 1 .. n : w[k] = f[w[k - 1]]
  BY <1>8 DEF Turns
<1>10. w = All(w)
  <2>1. ASSUME NEW k \in 0 .. n
        PROVE  w[k] = IF k = 0 THEN a ELSE Index(infos, infos[w[k - 1]].enum)
    <3>1. CASE k = 0
      BY <3>1, <1>9
    <3>2. CASE k # 0
      <4>1. k \in 1 .. n /\ k - 1 \in 0 .. n
        BY <1>1, <3>2
      <4>2. w[k - 1] \in P /\ w[k] = f[w[k - 1]]
        BY <4>1, <1>9
      <4>3. QED
        BY <3>2, <4>2, <1>6
    <3>3. QED
      BY <3>1, <3>2
  <2>2. QED
    BY <2>1
<1> DEFINE walk == CHOOSE h : h = All(h)
<1>11. walk = All(walk)
  BY <1>10
<1>12. Visited(infos, name) = walk
  BY DEF Visited, a
<1> HIDE DEF walk
<1>13. walk[0] = a /\ \A k \in 1 .. n : walk[k] = Index(infos, infos[walk[k - 1]].enum)
  BY <1>1, <1>11
<1> DEFINE K == {k \in 0 .. n : walk[k] \in P}
<1>14. \A k \in 0 .. n : walk[k] \in P
  <2>1. 0 \in K
    BY <1>1, <1>4, <1>13
  <2>2. ASSUME NEW k \in 1 .. n, k - 1 \in K PROVE k \in K
    <3>1. walk[k - 1] \in P
      BY <2>2
    <3>2. walk[k] = f[walk[k - 1]]
      BY <1>6, <1>13, <3>1
    <3>3. walk[k] \in P
      BY <1>5, <3>1, <3>2
    <3>4. k \in 0 .. n
      BY <1>1
    <3>5. QED
      BY <3>3, <3>4
  <2> HIDE DEF K
  <2>3. \A k \in 0 .. n : k \in K
    BY <1>1, <2>1, <2>2, TurnsKeep
  <2>4. QED
    BY <2>3 DEF K
<1>15. ASSUME NEW k \in 1 .. n PROVE walk[k] = f[walk[k - 1]]
  <2>1. k - 1 \in 0 .. n
    BY <1>1
  <2>2. QED
    BY <2>1, <1>6, <1>13, <1>14
<1>16. PICK k \in 0 .. n : f[walk[k]] = walk[0]
  <2>1. walk \in [0 .. n -> P]
    BY <1>11, <1>14
  <2> HIDE DEF n
  <2>2. QED
    BY <2>1, <1>1, <1>5, <1>7, <1>15, WalkReturns
<1>17. infos[walk[k]].enum = name
  BY <1>3, <1>4, <1>13, <1>14, <1>16
<1> DEFINE Here(i) == infos[walk[i]].enum = name
           T == {i \in 0 .. n : Here(i)}
<1>18. PICK i \in T : \A j \in T : i <= j
  <2>1. T # {} /\ T \in SUBSET Nat
    BY <1>17
  <2> HIDE DEF T
  <2>2. QED
    BY <2>1, LeastNat
<1>19. \A j \in 0 .. i - 1 : ~Here(j)
  <2>1. ASSUME NEW j \in 0 .. i - 1 PROVE ~Here(j)
    <3>1. i \in 0 .. n
      OBVIOUS
    <3>2. j \in 0 .. n /\ ~(i <= j)
      BY <3>1, <1>1
    <3>3. QED
      BY <3>2, <1>18
  <2>2. QED
    BY <2>1
<1> DEFINE last == CHOOSE l \in 0 .. n : Here(l) /\ \A j \in 0 .. l - 1 : ~Here(j)
<1>20. last \in 0 .. n /\ Here(last)
  BY <1>19
<1>21. Holder(infos, name) = walk[last]
  BY <1>12 DEF Holder
<1> HIDE DEF last
<1>22. QED
  BY <1>14, <1>20, <1>21

\* What __swap_enumerated_share_names does for the share i
LEMMA SwapDoes ==
  ASSUME NEW infos, ProperShares(infos), NEW i \in 1 .. Len(infos)
  PROVE  /\ ProperShares(Swap(infos, i))
         /\ Len(Swap(infos, i)) = Len(infos)
         /\ \A k \in 1 .. Len(infos) :
              /\ Swap(infos, i)[k].key = infos[k].key
              /\ k # i => \/ Swap(infos, i)[k].enum = infos[k].enum
                          \/ infos[k].enum = infos[i].key
         /\ infos[i].key \in Enums(infos) => Swap(infos, i)[i].enum = infos[i].key
<1> DEFINE n == Len(infos)
           name == infos[i].key
           j == Holder(infos, name)
<1>1. infos \in Seq(Infos) /\ n \in Nat /\ DOMAIN infos = 1 .. n
  BY DEF ProperShares
<1>2. CASE name \notin Enums(infos)
  <2>1. Swap(infos, i) = infos
    BY <1>1, <1>2 DEF Swap, Enums
  <2>2. QED
    BY <2>1, <1>2
<1>3. CASE name \in Enums(infos)
  <2>1. j \in 1 .. n /\ infos[j].enum = name
    BY <1>3, HolderIs
  <2> DEFINE t == [infos EXCEPT ![j].enum = infos[i].enum, ![i].enum = infos[j].enum]
             u == [k \in 1 .. n |->
                    [key |-> infos[k].key,
                     enum |-> IF k = i THEN name ELSE IF k = j THEN infos[i].enum ELSE infos[k].enum]]
  <2>2. Swap(infos, i) = t
    BY <1>1, <1>3 DEF Swap, Enums
  <2> HIDE DEF j
  <2>3. \A k \in 1 .. n : infos[k] = [key |-> infos[k].key, enum |-> infos[k].enum]
    <3>1. \A k \in 1 .. n : infos[k] \in Infos
      BY <1>1
    <3>2. \A e \in Infos : e = [key |-> e.key, enum |-> e.enum]
      BY DEF Infos
    <3>3. QED
      BY <3>1, <3>2
  <2>4. t = u
    <3>1. DOMAIN t = 1 .. n /\ t = [k \in 1 .. n |-> t[k]]
      BY <1>1
    <3>2. ASSUME NEW k \in 1 .. n PROVE t[k] = u[k]
      <4> DEFINE e == infos[k]
      <4>1. e = [key |-> e.key, enum |-> e.enum]
        BY <2>3
      <4>2. CASE k = i
        BY <1>1, <2>1, <2>3, <4>2
      <4>3. CASE k # i /\ k = j
        BY <1>1, <2>1, <2>3, <4>3
      <4>4. CASE k # i /\ k # j
        BY <1>1, <2>1, <2>3, <4>4
      <4>5. QED
        BY <4>2, <4>3, <4>4
    <3> HIDE DEF t
    <3>3. QED
      BY <3>1, <3>2
  <2> HIDE DEF t
  <2>5. \A k \in 1 .. n : infos[k].key \in Seq(Word) /\ infos[k].enum \in Seq(Word)
    <3>1. \A k \in 1 .. n : infos[k] \in Infos
      BY <1>1
    <3>2. \A e \in Infos : e.key \in Seq(Word) /\ e.enum \in Seq(Word)
      BY DEF Infos
    <3>3. QED
      BY <3>1, <3>2
  <2>6. u \in Seq(Infos) /\ Len(u) = n
    <3>1. \A k \in 1 .. n : u[k] \in Infos
      BY <2>1, <2>5 DEF Infos
    <3>2. u = [k \in 1 .. n |-> u[k]]
      OBVIOUS
    <3> HIDE DEF u
    <3>3. QED
      BY <1>1, <3>1, <3>2
  <2>7. \A k \in 1 .. n :
          /\ u[k].key = infos[k].key
          /\ u[k].enum = IF k = i THEN name ELSE IF k = j THEN infos[i].enum ELSE infos[k].enum
    OBVIOUS
  <2> HIDE DEF u
  <2>8. \A k \in 1 .. n : \E l \in 1 .. n : u[k].enum = infos[l].enum
    BY <2>1, <2>7
  <2>9. \A k \in 1 .. n : \E l \in 1 .. n : u[k].enum = Enumerated(l)
    <3>1. \A l \in 1 .. n : \E m \in 1 .. n : infos[l].enum = Enumerated(m)
      BY DEF ProperShares
    <3>2. QED
      BY <2>8, <3>1
  <2>10. ASSUME NEW k \in 1 .. n, NEW l \in 1 .. n, k # l PROVE u[k].enum # u[l].enum
    <3>1. \A x, y \in 1 .. n : x # y => infos[x].enum # infos[y].enum
      BY DEF ProperShares
    <3>2. QED
      BY <2>1, <2>7, <2>10, <3>1
  <2>11. ProperShares(u)
    BY <2>6, <2>9, <2>10 DEF ProperShares
  <2>12. QED
    BY <2>1, <2>2, <2>4, <2>6, <2>7, <2>11
<1>4. QED
  BY <1>2, <1>3

\* What the loop over the dictionary makes of the new shares
LEMMA NamedIs ==
  ASSUME NEW c \in Configs, NEW order \in Orders(NewShares(c))
  PROVE  /\ ProperShares(Named(c, order))
         /\ Len(Named(c, order)) = Len(order)
         /\ order \in [1 .. Len(order) -> 1 .. Len(order)]
         /\ \A i, j \in 1 .. Len(order) : i # j => order[i] # order[j]
         /\ KeysDiffer(Named(c, order)) =>
              \A i \in 1 .. Len(order) :
                Named(c, order)[i].key \in Enums(Named(c, order))
                  => Named(c, order)[i].enum = Named(c, order)[i].key
<1> DEFINE new == NewShares(c)
           n == Len(new)
           P == 1 .. n
           S == {s \in Seq(Infos) : ProperShares(s) /\ Len(s) = n /\ \A i \in P : s[i].key = new[i].key}
           g == [k \in P |-> [s \in S |-> Swap(s, order[k])]]
           All(f) == [k \in 0 .. n |-> IF k = 0 THEN new ELSE Swap(f[k - 1], order[k])]
<1>1. new \in Seq(Infos) /\ n \in Nat /\ DOMAIN new = P
  BY NewSharesAre
<1>2. /\ order \in [P -> P] /\ \A i, j \in P : i # j => order[i] # order[j]
      /\ Len(order) = n
  BY <1>1 DEF Orders
<1>3. new \in S
  <2>1. \A i \in P : new[i].enum = Enumerated(i)
    BY NewSharesAre
  <2>2. \A i, j \in P : i # j => new[i].enum # new[j].enum
    <3>1. \A i \in P : i \in Nat
      BY <1>1
    <3> HIDE DEF new, P
    <3>2. QED
      BY <2>1, <3>1, EnumeratedIs
  <2>3. QED
    BY <1>1, <2>1, <2>2 DEF ProperShares
<1>4. ASSUME NEW s \in S, NEW k \in P
      PROVE  /\ Swap(s, order[k]) \in S
             /\ \A l \in P :
                  l # order[k] => \/ Swap(s, order[k])[l].enum = s[l].enum
                                  \/ s[l].enum = s[order[k]].key
             /\ s[order[k]].key \in Enums(s) => Swap(s, order[k])[order[k]].enum = s[order[k]].key
  <2>1. order[k] \in 1 .. Len(s) /\ ProperShares(s) /\ Len(s) = n
    BY <1>2
  <2>2. ProperShares(Swap(s, order[k])) => Swap(s, order[k]) \in Seq(Infos)
    BY DEF ProperShares
  <2> DEFINE t == Swap(s, order[k])
             o == order[k]
  <2>3. /\ ProperShares(t)
        /\ Len(t) = Len(s)
        /\ \A l \in 1 .. Len(s) :
              /\ t[l].key = s[l].key
              /\ l # o => \/ t[l].enum = s[l].enum
                          \/ s[l].enum = s[o].key
        /\ s[o].key \in Enums(s) => t[o].enum = s[o].key
    BY <2>1, SwapDoes
  <2> HIDE DEF t, o
  <2>4. QED
    BY <2>1, <2>2, <2>3 DEF t, o
<1>5. g \in [P -> [S -> S]]
  BY <1>4
<1> HIDE DEF S, g, n, new
<1>6. PICK f \in [0 .. n -> S] : Turns(f, n, new, g)
  BY <1>1, <1>3, <1>5, TurnsExist
<1>7. f = All(f)
  <2>1. ASSUME NEW k \in 0 .. n PROVE f[k] = IF k = 0 THEN new ELSE Swap(f[k - 1], order[k])
    <3>1. CASE k = 0
      BY <3>1, <1>6 DEF Turns
    <3>2. CASE k # 0
      <4>1. k \in 1 .. n /\ k - 1 \in 0 .. n
        BY <1>1, <3>2
      <4>2. f[k - 1] \in S /\ f[k] = g[k][f[k - 1]]
        BY <4>1, <1>6 DEF Turns
      <4>3. QED
        BY <3>2, <4>1, <4>2 DEF g
    <3>3. QED
      BY <3>1, <3>2
  <2>2. QED
    BY <2>1
<1> DEFINE after == CHOOSE f_1 : f_1 = All(f_1)
<1>8. after = All(after)
  BY <1>7
<1>9. Named(c, order) = after[n]
  BY <1>2 DEF Named, new
<1> HIDE DEF after
<1>10. /\ after[0] = new
       /\ \A k \in 1 .. n : after[k] = Swap(after[k - 1], order[k])
  BY <1>1, <1>8
<1> DEFINE Seen(k) == \A i \in 1 .. k :
                         new[order[i]].key \in Enums(new) => after[k][order[i]].enum = new[order[i]].key
           K == {k \in 0 .. n : after[k] \in S /\ (KeysDiffer(new) => Seen(k))}
<1>11. 0 \in K
  <2>1. 0 \in 0 .. n /\ after[0] \in S
    BY <1>1, <1>3, <1>10
  <2>2. Seen(0)
    OBVIOUS
  <2> HIDE DEF Seen
  <2>3. QED
    BY <2>1, <2>2
<1>12. ASSUME NEW k \in 1 .. n, k - 1 \in K PROVE k \in K
  <2> DEFINE s == after[k - 1]
             t == after[k]
             o == order[k]
  <2>1. s \in S /\ t = Swap(s, o) /\ o \in P
    <3>1. s \in S
      BY <1>12
    <3>2. t = Swap(s, o)
      BY <1>10
    <3>3. o \in P
      BY <1>2
    <3>4. QED
      BY <3>1, <3>2, <3>3
  <2>2. /\ t \in S
        /\ \A l \in P : l # o => t[l].enum = s[l].enum \/ s[l].enum = s[o].key
        /\ s[o].key \in Enums(s) => t[o].enum = s[o].key
    <3>1. s \in S /\ k \in P
      BY <2>1
    <3>2. /\ Swap(s, order[k]) \in S
          /\ \A l \in P :
               l # order[k] => \/ Swap(s, order[k])[l].enum = s[l].enum
                               \/ s[l].enum = s[order[k]].key
          /\ s[order[k]].key \in Enums(s) => Swap(s, order[k])[order[k]].enum = s[order[k]].key
      <4> HIDE DEF s, P
      <4>1. QED
        BY <3>1, <1>4
    <3>3. t = Swap(s, order[k])
      BY <2>1
    <3> HIDE DEF s, t
    <3>4. QED
      BY <3>2, <3>3
  <2>3. \A l \in P : s[l].key = new[l].key
    BY <2>1 DEF S
  <2>4. Enums(s) = Enums(new)
    BY <2>1 DEF S, Enums, n
  <2>5. KeysDiffer(new) => Seen(k - 1)
    BY <1>12
  <2> HIDE DEF s, t
  <2>6. ASSUME KeysDiffer(new), NEW i \in 1 .. k, new[order[i]].key \in Enums(new)
        PROVE  t[order[i]].enum = new[order[i]].key
    <3>1. CASE i = k
      BY <3>1, <2>1, <2>2, <2>3, <2>4, <2>6
    <3>2. CASE i # k
      <4>1. i \in 1 .. k - 1 /\ i \in P /\ k \in P
        BY <1>1, <3>2
      <4>2. order[i] # o /\ order[i] \in P
        BY <1>2, <4>1, <3>2
      <4>3. s[order[i]].enum = new[order[i]].key
        BY <2>5, <2>6, <4>1 DEF s
      <4>4. new[order[i]].key # <<>>
        <5>1. \A j \in 1 .. Len(new) : Enumerated(j) # <<>>
          BY EnumeratedIs
        <5>2. QED
          BY <2>6, <5>1 DEF Enums
      <4>5. new[order[i]].key # new[o].key
        BY <1>1, <2>1, <2>6, <4>2, <4>4 DEF KeysDiffer
      <4>6. t[order[i]].enum = s[order[i]].enum
        BY <2>1, <2>2, <2>3, <4>2, <4>3, <4>5
      <4>7. QED
        BY <4>3, <4>6
    <3>3. QED
      BY <3>1, <3>2
  <2>7. KeysDiffer(new) => Seen(k)
    BY <2>6 DEF t
  <2>8. k \in 0 .. n
    BY <1>1
  <2>9. QED
    BY <2>2, <2>7, <2>8 DEF t
<1>13. n \in K
  <2>1. n \in 0 .. n
    BY <1>1
  <2> HIDE DEF K
  <2>2. QED
    BY <2>1, <1>1, <1>11, <1>12, TurnsKeep
<1> DEFINE infos == after[n]
<1>14. infos \in S /\ (KeysDiffer(new) => Seen(n))
  BY <1>13
<1> HIDE DEF K, infos
<1>15. ProperShares(infos) /\ Len(infos) = n /\ \A i \in P : infos[i].key = new[i].key
  BY <1>14 DEF S
<1>16. ASSUME KeysDiffer(infos), NEW i \in P, infos[i].key \in Enums(infos)
       PROVE  infos[i].enum = infos[i].key
  <2>1. Enums(infos) = Enums(new)
    BY <1>15 DEF Enums, n
  <2>2. KeysDiffer(new)
    <3>1. DOMAIN infos = P
      BY <1>15 DEF ProperShares
    <3>2. QED
      BY <1>1, <1>15, <1>16, <3>1 DEF KeysDiffer
  <2>3. PICK l \in P : order[l] = i
    <3>1. order \in [1 .. n -> 1 .. n] /\ i \in 1 .. n
      BY <1>2, <1>16
    <3>2. \A k, l \in 1 .. n : k # l => order[k] # order[l]
      BY <1>2
    <3>3. \E l \in 1 .. n : order[l] = i
      BY <1>1, <3>1, <3>2, TakesAll
    <3>4. QED
      BY <3>3
  <2>4. infos[order[l]].enum = new[order[l]].key
    BY <1>14, <1>15, <1>16, <2>1, <2>2, <2>3 DEF infos
  <2>5. QED
    BY <2>3, <2>4, <1>15
<1>17. QED
  BY <1>2, <1>9, <1>15, <1>16 DEF infos

\* Whatever the order of the dictionary and the keys, the enumerated names stay
\* different from each other and from the keys of other shares
\* (webui_onion_share_media_folders).
LEMMA NamesAlwaysDiffer == NamesDiffer
<1> SUFFICES ASSUME NEW c \in Configs, NEW order \in Orders(NewShares(c))
             PROVE  LET infos == Named(c, order) IN
                    /\ \A i, j \in DOMAIN infos : i # j => infos[i].enum # infos[j].enum
                    /\ KeysDiffer(infos) =>
                         \A i, j \in DOMAIN infos : i # j => infos[i].key # infos[j].enum
  BY DEF NamesDiffer
<1> DEFINE infos == Named(c, order)
<1>1. /\ ProperShares(infos) /\ Len(infos) = Len(order)
      /\ KeysDiffer(infos) =>
           \A i \in 1 .. Len(order) : infos[i].key \in Enums(infos) => infos[i].enum = infos[i].key
  BY NamedIs
<1> HIDE DEF infos
<1>2. DOMAIN infos = 1 .. Len(infos)
  BY <1>1 DEF ProperShares
<1>3. \A i, j \in DOMAIN infos : i # j => infos[i].enum # infos[j].enum
  BY <1>1, <1>2 DEF ProperShares
<1>4. ASSUME KeysDiffer(infos), NEW i \in DOMAIN infos, NEW j \in DOMAIN infos, i # j
      PROVE  infos[i].key # infos[j].enum
  <2>1. infos[j].enum \in Enums(infos)
    BY <1>1, <1>2 DEF ProperShares, Enums
  <2>2. QED
    BY <1>1, <1>2, <1>3, <1>4, <2>1
<1>5. QED
  BY <1>3, <1>4 DEF infos

\* A prefix is what has the same elements as far as it goes.
LEMMA PrefixIs ==
  ASSUME NEW S, NEW s \in Seq(S), NEW t \in Seq(S)
  PROVE  IsPrefix(s, t) <=> Len(s) <= Len(t) /\ \A i \in 1 .. Len(s) : s[i] = t[i]
<1>1. Len(s) \in Nat /\ Len(t) \in Nat
  OBVIOUS
<1>2. ASSUME Len(s) <= Len(t)
      PROVE  (SubSeq(s, 1, Len(s)) = SubSeq(t, 1, Len(s))) <=> \A i \in 1 .. Len(s) : s[i] = t[i]
  <2>1. SubSeq(s, 1, Len(s)) = [i \in 1 .. Len(s) |-> s[i]]
    BY <1>1
  <2>2. SubSeq(t, 1, Len(s)) = [i \in 1 .. Len(s) |-> t[i]]
    BY <1>1, <1>2
  <2>3. QED
    BY <2>1, <2>2
<1>3. QED
  BY <1>2 DEF IsPrefix

\* Of two sequences that begin a third one, one begins the other.
LEMMA PrefixesOfOne ==
  ASSUME NEW S, NEW s \in Seq(S), NEW r \in Seq(S), NEW t \in Seq(S), IsPrefix(r, s \o t)
  PROVE  IsPrefix(r, s) \/ IsPrefix(s, r)
<1> DEFINE p == s \o t
<1>1. /\ p \in Seq(S) /\ Len(p) = Len(s) + Len(t)
      /\ Len(s) \in Nat /\ Len(t) \in Nat /\ Len(r) \in Nat
      /\ \A i \in 1 .. Len(s) : p[i] = s[i]
  <2>1. /\ p \in Seq(S) /\ Len(p) = Len(s) + Len(t)
        /\ \A i \in 1 .. Len(s) + Len(t) : p[i] = IF i <= Len(s) THEN s[i] ELSE t[i - Len(s)]
    BY ConcatProperties
  <2>2. Len(s) \in Nat /\ Len(t) \in Nat /\ Len(r) \in Nat
    OBVIOUS
  <2> HIDE DEF p
  <2>3. \A i \in 1 .. Len(s) : i \in 1 .. Len(s) + Len(t) /\ i <= Len(s)
    BY <2>2
  <2>4. QED
    BY <2>1, <2>2, <2>3
<1> HIDE DEF p
<1>2. Len(r) <= Len(p) /\ \A i \in 1 .. Len(r) : r[i] = p[i]
  BY <1>1, PrefixIs DEF p
<1>3. CASE Len(r) <= Len(s)
  <2>1. \A i \in 1 .. Len(r) : r[i] = s[i]
    BY <1>1, <1>2, <1>3
  <2>2. QED
    BY <1>3, <2>1, PrefixIs
<1>4. CASE ~(Len(r) <= Len(s))
  <2>1. Len(s) <= Len(r) /\ \A i \in 1 .. Len(s) : s[i] = r[i]
    BY <1>1, <1>2, <1>4
  <2>2. QED
    BY <2>1, PrefixIs
<1>5. QED
  BY <1>3, <1>4

\* What follows the first part of a sequence
LEMMA RestOf ==
  ASSUME NEW S, NEW s \in Seq(S), NEW t \in Seq(S)
  PROVE  IsPrefix(s, s \o t) /\ SubSeq(s \o t, Len(s) + 1, Len(s \o t)) = t
<1> DEFINE p == s \o t
           u == SubSeq(p, Len(s) + 1, Len(p))
<1>1. /\ p \in Seq(S) /\ Len(p) = Len(s) + Len(t)
      /\ \A i \in 1 .. Len(s) + Len(t) : p[i] = IF i <= Len(s) THEN s[i] ELSE t[i - Len(s)]
  BY ConcatProperties
<1>2. Len(s) \in Nat /\ Len(t) \in Nat
  OBVIOUS
<1> HIDE DEF p
<1>3. Len(s) <= Len(p) /\ \A i \in 1 .. Len(s) : s[i] = p[i]
  BY <1>1, <1>2
<1>4. IsPrefix(s, p)
  BY <1>1, <1>3, PrefixIs
<1>5. /\ u \in Seq(S) /\ Len(u) = Len(t)
      /\ \A i \in 1 .. Len(t) : u[i] = p[Len(s) + i]
  <2>1. Len(s) + 1 \in 1 .. Len(p) + 1 /\ Len(p) \in Nat
    BY <1>1, <1>2
  <2>2. u = [i \in 1 .. Len(t) |-> p[Len(s) + i]]
    BY <1>1, <1>2, <2>1
  <2>3. \A i \in 1 .. Len(t) : p[Len(s) + i] \in S
    BY <1>1, <1>2
  <2> HIDE DEF u
  <2>4. QED
    BY <1>2, <2>2, <2>3
<1> HIDE DEF u
<1>6. ASSUME NEW i \in 1 .. Len(t) PROVE u[i] = t[i]
  <2>1. /\ Len(s) + i \in 1 .. Len(s) + Len(t) /\ ~(Len(s) + i <= Len(s))
        /\ Len(s) + i - Len(s) = i
    BY <1>2
  <2>2. p[Len(s) + i] = t[Len(s) + i - Len(s)]
    BY <1>1, <2>1
  <2>3. QED
    BY <1>5, <2>1, <2>2
<1>7. u = t
  BY <1>5, <1>6, SeqEqual
<1>8. QED
  BY <1>4, <1>7 DEF p, u

\* The handlers of __add_handler_for_shares: for each share its names that are not empty
LEMMA RoutesAre ==
  ASSUME NEW infos \in Seq(Infos), NEW n \in Nat, Len(infos) = n,
         \A i \in 1 .. n : infos[i].enum # <<>>,
         NEW order \in [1 .. n -> 1 .. n],
         \A i, j \in 1 .. n : i # j => order[i] # order[j]
  PROVE  /\ Routes(infos, order) \in Seq([name : Seq(Word), share : 1 .. n])
         /\ \A j \in 1 .. Len(Routes(infos, order)) :
              LET r == Routes(infos, order)[j]
              IN r.name # <<>> /\ r.name \in {infos[r.share].key, infos[r.share].enum}
         /\ \A i \in 1 .. n : \A name \in {infos[i].key, infos[i].enum} : name # <<>> =>
              \E j \in 1 .. Len(Routes(infos, order)) :
                Routes(infos, order)[j] = [name |-> name, share |-> i]
<1> DEFINE N == Seq(Word)
           R == [name : N, share : 1 .. n]
           named == [i \in 1 .. n |-> [name |-> infos[i].key, share |-> i]]
           enumerated == [i \in 1 .. n |-> [name |-> infos[i].enum, share |-> i]]
           of == [i \in 1 .. n |-> IF infos[i].key = <<>> THEN <<enumerated[i]>> ELSE <<named[i], enumerated[i]>>]
           ss == [k \in 1 .. n |-> of[order[k]]]
           routes == FlattenSeq(ss)
<1>1. \A i \in 1 .. n : infos[i].key \in N /\ infos[i].enum \in N
  <2>1. \A i \in 1 .. n : infos[i] \in Infos
    OBVIOUS
  <2>2. \A e \in Infos : e.key \in N /\ e.enum \in N
    BY DEF Infos
  <2>3. QED
    BY <2>1, <2>2
<1> HIDE DEF N
<1>2. \A i \in 1 .. n : named[i] \in R /\ enumerated[i] \in R
  BY <1>1
<1>3. DOMAIN order = 1 .. n
  OBVIOUS
<1>4. Routes(infos, order) = routes
  <2>1. \A k \in 1 .. n : ss[k] = LET i == order[k]
        d == [name |-> infos[i].key, share |-> i]
        e == [name |-> infos[i].enum, share |-> i]
    IN IF infos[i].key = <<>> THEN <<e>> ELSE <<d, e>>
    OBVIOUS
  <2>2. QED
    BY <1>3, <2>1 DEF Routes
<1>5. \A k \in 1 .. n : order[k] \in 1 .. n
  OBVIOUS
<1>6. \A i \in 1 .. n :
        /\ infos[i].key = <<>> => of[i] = <<enumerated[i]>>
        /\ infos[i].key # <<>> => of[i] = <<named[i], enumerated[i]>>
  OBVIOUS
<1>7. \A i \in 1 .. n :
        /\ named[i].name = infos[i].key /\ named[i].share = i
        /\ enumerated[i].name = infos[i].enum /\ enumerated[i].share = i
  OBVIOUS
<1> HIDE DEF named, enumerated, of, R
<1>8. ASSUME NEW i \in 1 .. n
      PROVE  /\ of[i] \in Seq(R)
             /\ \A l \in 1 .. Len(of[i]) :
                  \/ of[i][l] = named[i] /\ infos[i].key # <<>>
                  \/ of[i][l] = enumerated[i]
             /\ \E l \in 1 .. Len(of[i]) : of[i][l] = enumerated[i]
             /\ infos[i].key # <<>> => \E l \in 1 .. Len(of[i]) : of[i][l] = named[i]
  <2>1. CASE infos[i].key = <<>>
    <3>1. of[i] = <<enumerated[i]>>
      BY <1>6, <2>1
    <3> DEFINE e == enumerated[i]
               s == <<e>>
    <3>2. e \in R
      BY <1>2
    <3> HIDE DEF e
    <3>3. s \in Seq(R) /\ Len(s) = 1 /\ s[1] = e
      BY <3>2
    <3> HIDE DEF s
    <3>4. QED
      BY <2>1, <3>1, <3>3 DEF s, e
  <2>2. CASE infos[i].key # <<>>
    <3>1. of[i] = <<named[i], enumerated[i]>>
      BY <1>6, <2>2
    <3> DEFINE e == enumerated[i]
               d == named[i]
               s == <<d, e>>
    <3>2. e \in R /\ d \in R
      BY <1>2
    <3> HIDE DEF e, d
    <3>3. s \in Seq(R) /\ Len(s) = 2 /\ s[1] = d /\ s[2] = e
      BY <3>2
    <3> HIDE DEF s
    <3>4. of[i] = s
      BY <3>1 DEF s, d, e
    <3>5. \A l \in 1 .. 2 : l = 1 \/ l = 2
      OBVIOUS
    <3>6. 1 \in 1 .. Len(s) /\ 2 \in 1 .. Len(s)
      BY <3>3
    <3>7. d = named[i] /\ e = enumerated[i]
      BY DEF d, e
    <3>8. QED
      BY <2>2, <3>3, <3>4, <3>5, <3>6, <3>7
  <2>3. QED
    BY <2>1, <2>2
<1>9. ss \in Seq(Seq(R)) /\ Len(ss) = n /\ \A k \in 1 .. n : ss[k] = of[order[k]]
  <2>1. \A k \in 1 .. n : ss[k] \in Seq(R)
    BY <1>5, <1>8
  <2> DEFINE T == Seq(R)
  <2>2. ss \in [1 .. n -> T] /\ \A k \in 1 .. n : ss[k] = of[order[k]]
    BY <2>1
  <2> HIDE DEF T, ss
  <2>3. ss \in Seq(T) /\ Len(ss) = n
    BY <2>2
  <2>4. QED
    BY <2>2, <2>3 DEF T
<1> HIDE DEF ss
<1>10. /\ routes \in Seq(R)
       /\ \A k \in 1 .. n : \A i \in 1 .. Len(ss[k]) :
            \E j \in 1 .. Len(routes) : routes[j] = ss[k][i]
       /\ \A j \in 1 .. Len(routes) :
            \E k \in 1 .. n : \E i \in 1 .. Len(ss[k]) : routes[j] = ss[k][i]
  <2>1. /\ routes \in Seq(R)
        /\ \A k \in 1 .. Len(ss) : \A i \in 1 .. Len(ss[k]) :
             \E j \in 1 .. Len(routes) : routes[j] = ss[k][i]
        /\ \A j \in 1 .. Len(routes) :
             \E k \in 1 .. Len(ss) : \E i \in 1 .. Len(ss[k]) : routes[j] = ss[k][i]
    <3>1. ss \in Seq(Seq(R))
      BY <1>9
    <3> HIDE DEF ss
    <3>2. QED
      BY <3>1, FlattenElements
  <2> HIDE DEF routes
  <2>2. QED
    BY <2>1, <1>9
<1> HIDE DEF routes
<1>11. ASSUME NEW j \in 1 .. Len(routes)
       PROVE  /\ routes[j].name # <<>>
              /\ routes[j].name \in {infos[routes[j].share].key, infos[routes[j].share].enum}
  <2>1. PICK k \in 1 .. n : \E i \in 1 .. Len(ss[k]) : routes[j] = ss[k][i]
    BY <1>10
  <2>2. PICK i \in 1 .. n : i = order[k]
    BY <1>5
  <2>3. \/ routes[j] = named[i] /\ infos[i].key # <<>>
        \/ routes[j] = enumerated[i]
    <3>1. ss[k] = of[i]
      BY <1>9, <2>2
    <3>2. PICK l \in 1 .. Len(of[i]) : routes[j] = of[i][l]
      BY <2>1, <3>1
    <3>3. \/ of[i][l] = named[i] /\ infos[i].key # <<>>
          \/ of[i][l] = enumerated[i]
      BY <1>8
    <3>4. QED
      BY <3>2, <3>3
  <2> DEFINE r == routes[j]
  <2>4. CASE r = named[i] /\ infos[i].key # <<>>
    <3>1. r.name = infos[i].key /\ r.share = i
      BY <1>7, <2>4
    <3> HIDE DEF r
    <3>2. r.name # <<>> /\ r.name \in {infos[r.share].key, infos[r.share].enum}
      BY <3>1, <2>4
    <3>3. QED
      BY <3>2 DEF r
  <2>5. CASE r = enumerated[i]
    <3>1. r.name = infos[i].enum /\ r.share = i
      BY <1>7, <2>5
    <3>2. infos[i].enum # <<>>
      OBVIOUS
    <3> HIDE DEF r
    <3>3. r.name # <<>> /\ r.name \in {infos[r.share].key, infos[r.share].enum}
      BY <3>1, <3>2
    <3>4. QED
      BY <3>3 DEF r
  <2>6. QED
    BY <2>3, <2>4, <2>5
<1>12. ASSUME NEW i \in 1 .. n, NEW name \in {infos[i].key, infos[i].enum}, name # <<>>
       PROVE  \E j \in 1 .. Len(routes) : routes[j] = [name |-> name, share |-> i]
  <2>1. PICK k \in 1 .. n : order[k] = i
    BY TakesAll
  <2>2. ss[k] = of[i]
    BY <1>9, <2>1
  <2>3. \A l \in 1 .. Len(of[i]) : \E j \in 1 .. Len(routes) : routes[j] = of[i][l]
    <3>1. \A l \in 1 .. Len(ss[k]) : \E j \in 1 .. Len(routes) : routes[j] = ss[k][l]
      BY <1>10
    <3>2. QED
      BY <2>2, <3>1
  <2>4. CASE name = infos[i].enum
    <3>1. enumerated[i] = [name |-> name, share |-> i]
      BY <2>4 DEF enumerated
    <3>2. PICK l \in 1 .. Len(of[i]) : of[i][l] = enumerated[i]
      BY <1>8
    <3>3. PICK j \in 1 .. Len(routes) : routes[j] = of[i][l]
      BY <2>3
    <3>4. QED
      BY <3>1, <3>2, <3>3
  <2>5. CASE name = infos[i].key
    <3>1. named[i] = [name |-> name, share |-> i]
      BY <2>5 DEF named
    <3>2. PICK l \in 1 .. Len(of[i]) : of[i][l] = named[i]
      BY <2>5, <1>8, <1>12
    <3>3. PICK j \in 1 .. Len(routes) : routes[j] = of[i][l]
      BY <2>3
    <3>4. QED
      BY <3>1, <3>2, <3>3
  <2>6. QED
    BY <2>4, <2>5, <1>12
<1>13. routes \in Seq([name : Seq(Word), share : 1 .. n])
  BY <1>10 DEF R, N
<1>14. \A j \in 1 .. Len(routes) :
         LET r == routes[j]
         IN r.name # <<>> /\ r.name \in {infos[r.share].key, infos[r.share].enum}
  BY <1>11
<1>15. \A i \in 1 .. n : \A name \in {infos[i].key, infos[i].enum} : name # <<>> =>
         \E j \in 1 .. Len(routes) : routes[j] = [name |-> name, share |-> i]
  BY <1>12
<1>16. QED
  BY <1>4, <1>13, <1>14, <1>15, Zenon

\* Each share is reached under its names, unless a name continues another one or is
\* taken for ".current".
LEMMA NamesAlwaysReach == NamesReach
<1> SUFFICES ASSUME NEW c \in Configs, NEW order \in Orders(NewShares(c)),
                    KeysDiffer(Named(c, order)), NoNameContinues(Named(c, order)),
                    NEW i \in DOMAIN Named(c, order), NEW rest \in RelPaths,
                    NEW name \in {PreferredKey(Named(c, order)[i]), Named(c, order)[i].enum},
                    ~TakenForCurrent(name \o rest)
             PROVE  Route(Routes(Named(c, order), order), name \o rest) = [share |-> i, rest |-> rest]
  BY DEF NamesReach
<1> DEFINE infos == Named(c, order)
           n == Len(order)
           routes == Routes(infos, order)
           N == Seq(Word)
           R == [name : N, share : 1 .. n]
<1>1. /\ ProperShares(infos) /\ Len(infos) = n
      /\ order \in [1 .. n -> 1 .. n]
      /\ \A k, l \in 1 .. n : k # l => order[k] # order[l]
  BY NamedIs
<1>2. /\ \A k, l \in DOMAIN infos : k # l => infos[k].enum # infos[l].enum
      /\ \A k, l \in DOMAIN infos : k # l => infos[k].key # infos[l].enum
  BY NamesAlwaysDiffer DEF NamesDiffer
<1>3. KeysDiffer(infos) /\ NoNameContinues(infos) /\ i \in DOMAIN infos
  OBVIOUS
<1>4. name = PreferredKey(infos[i]) \/ name = infos[i].enum
  OBVIOUS
<1> HIDE DEF infos, n
<1>5. infos \in Seq(Infos) /\ n \in Nat /\ DOMAIN infos = 1 .. n
  BY <1>1 DEF ProperShares
<1>6. \A k \in 1 .. n : infos[k].enum # <<>>
  <2>1. \A k \in 1 .. n : \E j \in 1 .. n : infos[k].enum = Enumerated(j)
    BY <1>1 DEF ProperShares
  <2>2. \A j \in 1 .. n : Enumerated(j) # <<>>
    BY <1>5, EnumeratedIs
  <2>3. QED
    BY <2>1, <2>2
<1>7. /\ routes \in Seq(R)
      /\ \A j \in 1 .. Len(routes) :
           /\ routes[j].name # <<>>
           /\ routes[j].name \in {infos[routes[j].share].key, infos[routes[j].share].enum}
      /\ \A k \in 1 .. n : \A nm \in {infos[k].key, infos[k].enum} : nm # <<>> =>
           \E j \in 1 .. Len(routes) : routes[j] = [name |-> nm, share |-> k]
  BY <1>1, <1>5, <1>6, RoutesAre
<1> HIDE DEF routes
<1>8. name # <<>> /\ name \in {infos[i].key, infos[i].enum} /\ i \in 1 .. n
  BY <1>3, <1>4, <1>5, <1>6 DEF PreferredKey
<1>9. rest \in N
  <2> DEFINE X == Seq(STRING)
  <2>1. rest \in X
    BY ShareNamesAssumption
  <2>2. STRING \subseteq Word
    BY DEF Word
  <2> HIDE DEF X
  <2>3. X \subseteq N
    BY <2>2, SeqMonotonic DEF X
  <2>4. QED
    BY <2>1, <2>3
<1>10. \A k \in 1 .. n : infos[k].key \in N /\ infos[k].enum \in N
  <2>1. \A k \in 1 .. n : infos[k] \in Infos
    BY <1>1, <1>5
  <2>2. \A e \in Infos : e.key \in N /\ e.enum \in N
    BY DEF Infos
  <2>3. QED
    BY <2>1, <2>2
<1>11. name \in N
  BY <1>8, <1>10
<1> HIDE DEF N
<1> DEFINE path == name \o rest
           M == Matches(routes, path)
<1>a. ~TakenForCurrent(path)
  OBVIOUS
<1>12. DOMAIN routes = 1 .. Len(routes) /\ Len(routes) \in Nat
  BY <1>7
<1>13. M \in SUBSET Nat /\ M # {}
  <2>1. PICK j \in 1 .. Len(routes) : routes[j] = [name |-> name, share |-> i]
    BY <1>7, <1>8
  <2>2. routes[j].name = name
    BY <2>1
  <2>3. IsPrefix(name, path)
    BY <1>9, <1>11, RestOf DEF N
  <2>4. j \in M
    BY <1>12, <2>2, <2>3 DEF Matches
  <2>5. M \subseteq 1 .. Len(routes)
    BY <1>12 DEF Matches
  <2>6. QED
    BY <1>12, <2>4, <2>5
<1> DEFINE j == CHOOSE k \in M : \A l \in M : k <= l
<1>14. j \in M
  <2> HIDE DEF M
  <2>1. \E k \in M : \A l \in M : k <= l
    BY <1>13, LeastNat
  <2>2. QED
    BY <2>1
<1>15. Route(routes, path) = [share |-> routes[j].share,
                             rest |-> SubSeq(path, Len(routes[j].name) + 1, Len(path))]
  BY <1>13, <1>a DEF Route
<1> HIDE DEF j
<1>16. j \in 1 .. Len(routes) /\ IsPrefix(routes[j].name, path)
  BY <1>12, <1>14 DEF Matches
<1> DEFINE found == routes[j].name
           k == routes[j].share
<1>17. found \in N /\ k \in 1 .. n
  <2>1. routes[j] \in R
    <3> HIDE DEF R
    <3>1. QED
      BY <1>7, <1>16
  <2>2. QED
    BY <2>1
<1>18. found # <<>> /\ found \in {infos[k].key, infos[k].enum}
  BY <1>7, <1>16
<1> HIDE DEF found, k
<1>19. found = name
  <2>1. IsPrefix(found, name) \/ IsPrefix(name, found)
    BY <1>9, <1>11, <1>16, <1>17, PrefixesOfOne DEF found, N
  <2>2. found \in AllNames(infos) \ {<<>>} /\ name \in AllNames(infos) \ {<<>>}
    BY <1>5, <1>8, <1>17, <1>18 DEF AllNames
  <2>3. QED
    BY <1>3, <2>1, <2>2 DEF NoNameContinues
<1>20. k = i
  BY <1>2, <1>3, <1>5, <1>8, <1>17, <1>18, <1>19 DEF KeysDiffer
<1>21. SubSeq(path, Len(name) + 1, Len(path)) = rest
  BY <1>9, <1>11, RestOf DEF N
<1>22. QED
  BY <1>15, <1>19, <1>20, <1>21 DEF found, k, routes, infos

-----------------------------------------------------------------------------
(* The encoding of a path.                                                 *)

\* The bits of the bytes that the bitmaps consist of
LEMMA BitsOf ==
  ASSUME NEW n \in 0 .. 7
  PROVE
    /\ Bit(0, n) <=> n \in {}
    /\ Bit(1, n) <=> n \in {0}
    /\ Bit(31, n) <=> n \in {0, 1, 2, 3, 4}
    /\ Bit(37, n) <=> n \in {0, 2, 5}
    /\ Bit(80, n) <=> n \in {4, 6}
    /\ Bit(120, n) <=> n \in {3, 4, 5, 6}
    /\ Bit(125, n) <=> n \in {0, 2, 3, 4, 5, 6}
    /\ Bit(152, n) <=> n \in {3, 4, 7}
    /\ Bit(159, n) <=> n \in {0, 1, 2, 3, 4, 7}
    /\ Bit(184, n) <=> n \in {3, 4, 5, 7}
    /\ Bit(252, n) <=> n \in {2, 3, 4, 5, 6, 7}
    /\ Bit(255, n) <=> n \in {0, 1, 2, 3, 4, 5, 6, 7}
<1> DEFINE p == <<1, 2, 4, 8, 16, 32, 64, 128>>
<1>1. /\ p[1] = 1 /\ p[2] = 2 /\ p[3] = 4 /\ p[4] = 8
      /\ p[5] = 16 /\ p[6] = 32 /\ p[7] = 64 /\ p[8] = 128
  OBVIOUS
<1>2. \A b \in 0 .. 255 : Bit(b, n) <=> (b \div p[n + 1]) % 2 = 1
  BY DEF Bit
<1> HIDE DEF p
<1>3. n = 0 \/ n = 1 \/ n = 2 \/ n = 3 \/ n = 4 \/ n = 5 \/ n = 6 \/ n = 7
  OBVIOUS
<1>4. CASE n = 0
  <2>1. p[n + 1] = 1
    BY <1>1, <1>4
  <2>2. \A b \in 0 .. 255 : Bit(b, n) <=> (b \div 1) % 2 = 1
    BY <1>2, <2>1
  <2>3. QED
    BY <1>4, <2>2
<1>5. CASE n = 1
  <2>1. p[n + 1] = 2
    BY <1>1, <1>5
  <2>2. \A b \in 0 .. 255 : Bit(b, n) <=> (b \div 2) % 2 = 1
    BY <1>2, <2>1
  <2>3. QED
    BY <1>5, <2>2
<1>6. CASE n = 2
  <2>1. p[n + 1] = 4
    BY <1>1, <1>6
  <2>2. \A b \in 0 .. 255 : Bit(b, n) <=> (b \div 4) % 2 = 1
    BY <1>2, <2>1
  <2>3. QED
    BY <1>6, <2>2
<1>7. CASE n = 3
  <2>1. p[n + 1] = 8
    BY <1>1, <1>7
  <2>2. \A b \in 0 .. 255 : Bit(b, n) <=> (b \div 8) % 2 = 1
    BY <1>2, <2>1
  <2>3. QED
    BY <1>7, <2>2
<1>8. CASE n = 4
  <2>1. p[n + 1] = 16
    BY <1>1, <1>8
  <2>2. \A b \in 0 .. 255 : Bit(b, n) <=> (b \div 16) % 2 = 1
    BY <1>2, <2>1
  <2>3. QED
    BY <1>8, <2>2
<1>9. CASE n = 5
  <2>1. p[n + 1] = 32
    BY <1>1, <1>9
  <2>2. \A b \in 0 .. 255 : Bit(b, n) <=> (b \div 32) % 2 = 1
    BY <1>2, <2>1
  <2>3. QED
    BY <1>9, <2>2
<1>10. CASE n = 6
  <2>1. p[n + 1] = 64
    BY <1>1, <1>10
  <2>2. \A b \in 0 .. 255 : Bit(b, n) <=> (b \div 64) % 2 = 1
    BY <1>2, <2>1
  <2>3. QED
    BY <1>10, <2>2
<1>11. CASE n = 7
  <2>1. p[n + 1] = 128
    BY <1>1, <1>11
  <2>2. \A b \in 0 .. 255 : Bit(b, n) <=> (b \div 128) % 2 = 1
    BY <1>2, <2>1
  <2>3. QED
    BY <1>11, <2>2
<1>12. QED
  BY <1>3, <1>4, <1>5, <1>6, <1>7, <1>8, <1>9, <1>10, <1>11

\* What encodeURI leaves as it is
LEMMA EncodeURIIs ==
  ASSUME NEW c \in 0 .. 255
  PROVE  ~Includes("encodeURI", c) <=> c \in Documented["encodeURI"] \cup 128 .. 255
<1> DEFINE bytes == Bitmap["encodeURI"]
           kept == Documented["encodeURI"]
           r == c \div 8 - 3
           n == c % 8
<1>1. Includes("encodeURI", c) <=> c < 128 /\ (c < 32 \/ Bit(bytes[r], n))
  BY DEF Includes
<1>2. /\ bytes[1] = 37 /\ bytes[2] = 0 /\ bytes[3] = 0 /\ bytes[4] = 80 /\ bytes[5] = 0 /\ bytes[6] = 0
      /\ bytes[7] = 0 /\ bytes[8] = 120 /\ bytes[9] = 1 /\ bytes[10] = 0 /\ bytes[11] = 0 /\ bytes[12] = 184
  BY DEF Bitmap
<1>3. \A e \in 0 .. 255 : e \in kept <=> e \in {33, 35, 36, 38, 39, 40, 41, 42, 43, 44, 45, 46, 47, 58, 59, 61, 63, 64, 95, 126} \cup 48 .. 57 \cup 65 .. 90 \cup 97 .. 122
  BY DEF Documented, Letters, Mark, Reserved
<1> HIDE DEF bytes
<1>4. CASE c < 32
  BY <1>1, <1>3, <1>4
<1>5. CASE c >= 128
  BY <1>1, <1>3, <1>5
<1>6. CASE c >= 32 /\ c < 128
  <2>1. r \in 1 .. 12 /\ n \in 0 .. 7 /\ c = 8 * r + 24 + n
    BY <1>6
  <2> HIDE DEF r, n
  <2>2. CASE r = 1
    BY <1>1, <1>2, <1>3, <1>6, <2>1, <2>2, BitsOf
  <2>3. CASE r = 2
    BY <1>1, <1>2, <1>3, <1>6, <2>1, <2>3, BitsOf
  <2>4. CASE r = 3
    BY <1>1, <1>2, <1>3, <1>6, <2>1, <2>4, BitsOf
  <2>5. CASE r = 4
    BY <1>1, <1>2, <1>3, <1>6, <2>1, <2>5, BitsOf
  <2>6. CASE r = 5
    BY <1>1, <1>2, <1>3, <1>6, <2>1, <2>6, BitsOf
  <2>7. CASE r = 6
    BY <1>1, <1>2, <1>3, <1>6, <2>1, <2>7, BitsOf
  <2>8. CASE r = 7
    BY <1>1, <1>2, <1>3, <1>6, <2>1, <2>8, BitsOf
  <2>9. CASE r = 8
    BY <1>1, <1>2, <1>3, <1>6, <2>1, <2>9, BitsOf
  <2>10. CASE r = 9
    BY <1>1, <1>2, <1>3, <1>6, <2>1, <2>10, BitsOf
  <2>11. CASE r = 10
    BY <1>1, <1>2, <1>3, <1>6, <2>1, <2>11, BitsOf
  <2>12. CASE r = 11
    BY <1>1, <1>2, <1>3, <1>6, <2>1, <2>12, BitsOf
  <2>13. CASE r = 12
    BY <1>1, <1>2, <1>3, <1>6, <2>1, <2>13, BitsOf
  <2>14. r = 1 \/ r = 2 \/ r = 3 \/ r = 4 \/ r = 5 \/ r = 6 \/ r = 7 \/ r = 8 \/ r = 9 \/ r = 10 \/ r = 11 \/ r = 12
    BY <2>1
  <2>15. QED
    BY <2>2, <2>3, <2>4, <2>5, <2>6, <2>7, <2>8, <2>9, <2>10, <2>11, <2>12, <2>13, <2>14
<1>7. QED
  BY <1>4, <1>5, <1>6

\* What encodeURIComponent leaves as it is
LEMMA EncodeURIComponentIs ==
  ASSUME NEW c \in 0 .. 255
  PROVE  ~Includes("encodeURIComponent", c) <=> c \in Documented["encodeURIComponent"] \cup 128 .. 255
<1> DEFINE bytes == Bitmap["encodeURIComponent"]
           kept == Documented["encodeURIComponent"]
           r == c \div 8 - 3
           n == c % 8
<1>1. Includes("encodeURIComponent", c) <=> c < 128 /\ (c < 32 \/ Bit(bytes[r], n))
  BY DEF Includes
<1>2. /\ bytes[1] = 125 /\ bytes[2] = 152 /\ bytes[3] = 0 /\ bytes[4] = 252 /\ bytes[5] = 1 /\ bytes[6] = 0
      /\ bytes[7] = 0 /\ bytes[8] = 120 /\ bytes[9] = 1 /\ bytes[10] = 0 /\ bytes[11] = 0 /\ bytes[12] = 184
  BY DEF Bitmap
<1>3. \A e \in 0 .. 255 : e \in kept <=> e \in {33, 39, 40, 41, 42, 45, 46, 95, 126} \cup 48 .. 57 \cup 65 .. 90 \cup 97 .. 122
  BY DEF Documented, Letters, Mark, Reserved
<1> HIDE DEF bytes
<1>4. CASE c < 32
  BY <1>1, <1>3, <1>4
<1>5. CASE c >= 128
  BY <1>1, <1>3, <1>5
<1>6. CASE c >= 32 /\ c < 128
  <2>1. r \in 1 .. 12 /\ n \in 0 .. 7 /\ c = 8 * r + 24 + n
    BY <1>6
  <2> HIDE DEF r, n
  <2>2. CASE r = 1
    BY <1>1, <1>2, <1>3, <1>6, <2>1, <2>2, BitsOf
  <2>3. CASE r = 2
    BY <1>1, <1>2, <1>3, <1>6, <2>1, <2>3, BitsOf
  <2>4. CASE r = 3
    BY <1>1, <1>2, <1>3, <1>6, <2>1, <2>4, BitsOf
  <2>5. CASE r = 4
    BY <1>1, <1>2, <1>3, <1>6, <2>1, <2>5, BitsOf
  <2>6. CASE r = 5
    BY <1>1, <1>2, <1>3, <1>6, <2>1, <2>6, BitsOf
  <2>7. CASE r = 6
    BY <1>1, <1>2, <1>3, <1>6, <2>1, <2>7, BitsOf
  <2>8. CASE r = 7
    BY <1>1, <1>2, <1>3, <1>6, <2>1, <2>8, BitsOf
  <2>9. CASE r = 8
    BY <1>1, <1>2, <1>3, <1>6, <2>1, <2>9, BitsOf
  <2>10. CASE r = 9
    BY <1>1, <1>2, <1>3, <1>6, <2>1, <2>10, BitsOf
  <2>11. CASE r = 10
    BY <1>1, <1>2, <1>3, <1>6, <2>1, <2>11, BitsOf
  <2>12. CASE r = 11
    BY <1>1, <1>2, <1>3, <1>6, <2>1, <2>12, BitsOf
  <2>13. CASE r = 12
    BY <1>1, <1>2, <1>3, <1>6, <2>1, <2>13, BitsOf
  <2>14. r = 1 \/ r = 2 \/ r = 3 \/ r = 4 \/ r = 5 \/ r = 6 \/ r = 7 \/ r = 8 \/ r = 9 \/ r = 10 \/ r = 11 \/ r = 12
    BY <2>1
  <2>15. QED
    BY <2>2, <2>3, <2>4, <2>5, <2>6, <2>7, <2>8, <2>9, <2>10, <2>11, <2>12, <2>13, <2>14
<1>7. QED
  BY <1>4, <1>5, <1>6

\* What encodeAllReserved leaves as it is
LEMMA EncodeAllReservedIs ==
  ASSUME NEW c \in 0 .. 255
  PROVE  ~Includes("encodeAllReserved", c) <=> c \in Documented["encodeAllReserved"] \cup 128 .. 255
<1> DEFINE bytes == Bitmap["encodeAllReserved"]
           kept == Documented["encodeAllReserved"]
           r == c \div 8 - 3
           n == c % 8
<1>1. Includes("encodeAllReserved", c) <=> c < 128 /\ (c < 32 \/ Bit(bytes[r], n))
  BY DEF Includes
<1>2. /\ bytes[1] = 255 /\ bytes[2] = 159 /\ bytes[3] = 0 /\ bytes[4] = 252 /\ bytes[5] = 1 /\ bytes[6] = 0
      /\ bytes[7] = 0 /\ bytes[8] = 120 /\ bytes[9] = 1 /\ bytes[10] = 0 /\ bytes[11] = 0 /\ bytes[12] = 184
  BY DEF Bitmap
<1>3. \A e \in 0 .. 255 : e \in kept <=> e \in {45, 46, 95, 126} \cup 48 .. 57 \cup 65 .. 90 \cup 97 .. 122
  BY DEF Documented, Letters, Mark, Reserved
<1> HIDE DEF bytes
<1>4. CASE c < 32
  BY <1>1, <1>3, <1>4
<1>5. CASE c >= 128
  BY <1>1, <1>3, <1>5
<1>6. CASE c >= 32 /\ c < 128
  <2>1. r \in 1 .. 12 /\ n \in 0 .. 7 /\ c = 8 * r + 24 + n
    BY <1>6
  <2> HIDE DEF r, n
  <2>2. CASE r = 1
    BY <1>1, <1>2, <1>3, <1>6, <2>1, <2>2, BitsOf
  <2>3. CASE r = 2
    BY <1>1, <1>2, <1>3, <1>6, <2>1, <2>3, BitsOf
  <2>4. CASE r = 3
    BY <1>1, <1>2, <1>3, <1>6, <2>1, <2>4, BitsOf
  <2>5. CASE r = 4
    BY <1>1, <1>2, <1>3, <1>6, <2>1, <2>5, BitsOf
  <2>6. CASE r = 5
    BY <1>1, <1>2, <1>3, <1>6, <2>1, <2>6, BitsOf
  <2>7. CASE r = 6
    BY <1>1, <1>2, <1>3, <1>6, <2>1, <2>7, BitsOf
  <2>8. CASE r = 7
    BY <1>1, <1>2, <1>3, <1>6, <2>1, <2>8, BitsOf
  <2>9. CASE r = 8
    BY <1>1, <1>2, <1>3, <1>6, <2>1, <2>9, BitsOf
  <2>10. CASE r = 9
    BY <1>1, <1>2, <1>3, <1>6, <2>1, <2>10, BitsOf
  <2>11. CASE r = 10
    BY <1>1, <1>2, <1>3, <1>6, <2>1, <2>11, BitsOf
  <2>12. CASE r = 11
    BY <1>1, <1>2, <1>3, <1>6, <2>1, <2>12, BitsOf
  <2>13. CASE r = 12
    BY <1>1, <1>2, <1>3, <1>6, <2>1, <2>13, BitsOf
  <2>14. r = 1 \/ r = 2 \/ r = 3 \/ r = 4 \/ r = 5 \/ r = 6 \/ r = 7 \/ r = 8 \/ r = 9 \/ r = 10 \/ r = 11 \/ r = 12
    BY <2>1
  <2>15. QED
    BY <2>2, <2>3, <2>4, <2>5, <2>6, <2>7, <2>8, <2>9, <2>10, <2>11, <2>12, <2>13, <2>14
<1>7. QED
  BY <1>4, <1>5, <1>6

\* What encodeUnixPath leaves as it is
LEMMA EncodeUnixPathIs ==
  ASSUME NEW c \in 0 .. 255
  PROVE  ~Includes("encodeUnixPath", c) <=> c \in Documented["encodeUnixPath"] \cup 128 .. 255
<1> DEFINE bytes == Bitmap["encodeUnixPath"]
           kept == Documented["encodeUnixPath"]
           r == c \div 8 - 3
           n == c % 8
<1>1. Includes("encodeUnixPath", c) <=> c < 128 /\ (c < 32 \/ Bit(bytes[r], n))
  BY DEF Includes
<1>2. /\ bytes[1] = 255 /\ bytes[2] = 31 /\ bytes[3] = 0 /\ bytes[4] = 252 /\ bytes[5] = 1 /\ bytes[6] = 0
      /\ bytes[7] = 0 /\ bytes[8] = 120 /\ bytes[9] = 1 /\ bytes[10] = 0 /\ bytes[11] = 0 /\ bytes[12] = 184
  BY DEF Bitmap
<1>3. \A e \in 0 .. 255 : e \in kept <=> e \in {45, 46, 47, 95, 126} \cup 48 .. 57 \cup 65 .. 90 \cup 97 .. 122
  BY DEF Documented, Letters, Mark, Reserved
<1> HIDE DEF bytes
<1>4. CASE c < 32
  BY <1>1, <1>3, <1>4
<1>5. CASE c >= 128
  BY <1>1, <1>3, <1>5
<1>6. CASE c >= 32 /\ c < 128
  <2>1. r \in 1 .. 12 /\ n \in 0 .. 7 /\ c = 8 * r + 24 + n
    BY <1>6
  <2> HIDE DEF r, n
  <2>2. CASE r = 1
    BY <1>1, <1>2, <1>3, <1>6, <2>1, <2>2, BitsOf
  <2>3. CASE r = 2
    BY <1>1, <1>2, <1>3, <1>6, <2>1, <2>3, BitsOf
  <2>4. CASE r = 3
    BY <1>1, <1>2, <1>3, <1>6, <2>1, <2>4, BitsOf
  <2>5. CASE r = 4
    BY <1>1, <1>2, <1>3, <1>6, <2>1, <2>5, BitsOf
  <2>6. CASE r = 5
    BY <1>1, <1>2, <1>3, <1>6, <2>1, <2>6, BitsOf
  <2>7. CASE r = 6
    BY <1>1, <1>2, <1>3, <1>6, <2>1, <2>7, BitsOf
  <2>8. CASE r = 7
    BY <1>1, <1>2, <1>3, <1>6, <2>1, <2>8, BitsOf
  <2>9. CASE r = 8
    BY <1>1, <1>2, <1>3, <1>6, <2>1, <2>9, BitsOf
  <2>10. CASE r = 9
    BY <1>1, <1>2, <1>3, <1>6, <2>1, <2>10, BitsOf
  <2>11. CASE r = 10
    BY <1>1, <1>2, <1>3, <1>6, <2>1, <2>11, BitsOf
  <2>12. CASE r = 11
    BY <1>1, <1>2, <1>3, <1>6, <2>1, <2>12, BitsOf
  <2>13. CASE r = 12
    BY <1>1, <1>2, <1>3, <1>6, <2>1, <2>13, BitsOf
  <2>14. r = 1 \/ r = 2 \/ r = 3 \/ r = 4 \/ r = 5 \/ r = 6 \/ r = 7 \/ r = 8 \/ r = 9 \/ r = 10 \/ r = 11 \/ r = 12
    BY <2>1
  <2>15. QED
    BY <2>2, <2>3, <2>4, <2>5, <2>6, <2>7, <2>8, <2>9, <2>10, <2>11, <2>12, <2>13, <2>14
<1>7. QED
  BY <1>4, <1>5, <1>6

\* Each encoding leaves the documented characters as they are (__encode_by_map).
LEMMA EncodingAlwaysDocumented == EncodingIsDocumented
<1>1. DOMAIN Bitmap = {"encodeURI", "encodeURIComponent", "encodeAllReserved", "encodeUnixPath"}
  BY DEF Bitmap
<1>2. ASSUME NEW map \in DOMAIN Bitmap, NEW c \in 0 .. 255
      PROVE  ~Includes(map, c) <=> c \in Documented[map] \cup 128 .. 255
  BY <1>1, EncodeURIIs, EncodeURIComponentIs, EncodeAllReservedIs, EncodeUnixPathIs
<1>3. ASSUME NEW map \in DOMAIN Bitmap PROVE Includes(map, 37)
  <2>1. 37 \in 0 .. 255 /\ 37 \notin Documented[map] \cup 128 .. 255
    BY <1>1 DEF Documented, Letters, Mark, Reserved
  <2>2. QED
    BY <1>2, <2>1
<1>4. QED
  BY <1>2, <1>3 DEF EncodingIsDocumented

-----------------------------------------------------------------------------
(* The option with the list of shares.                                     *)

\* The characters that options are made of
Char == STRING \cup Delimiters

\* Where a token ends
LEMMA EndOfIs ==
  ASSUME NEW s \in Seq(Char), NEW i \in 1 .. Len(s) + 1, NEW stop,
         NEW e \in i - 1 .. Len(s), \A k \in i .. e : s[k] \notin stop,
         e = Len(s) \/ s[e + 1] \in stop
  PROVE  EndOf(s, i, stop) = e
<1> DEFINE Ends(d) == /\ \A k \in i .. d : s[k] \notin stop
                      /\ d = Len(s) \/ s[d + 1] \in stop
<1>1. Len(s) \in Nat
  OBVIOUS
<1>2. ASSUME NEW c \in i - 1 .. Len(s), NEW d \in i - 1 .. Len(s), Ends(c), Ends(d) PROVE ~(c < d)
  <2>1. SUFFICES ASSUME c < d PROVE FALSE
    OBVIOUS
  <2>2. c + 1 \in i .. d /\ c # Len(s)
    BY <1>1, <2>1
  <2>3. QED
    BY <1>2, <2>2
<1> DEFINE f == CHOOSE d \in i - 1 .. Len(s) : Ends(d)
<1>3. f \in i - 1 .. Len(s) /\ Ends(f) /\ Ends(e)
  OBVIOUS
<1>4. EndOf(s, i, stop) = f
  BY DEF EndOf
<1> HIDE DEF f, Ends
<1>5. ~(f < e) /\ ~(e < f)
  BY <1>2, <1>3
<1>6. f = e
  BY <1>1, <1>3, <1>5
<1>7. QED
  BY <1>4, <1>6

\* sscanf finds the end of a token in every text.
LEMMA EndOfExists ==
  ASSUME NEW s \in Seq(Char), NEW i \in 1 .. Len(s) + 1, NEW stop
  PROVE  EndOf(s, i, stop) \in i - 1 .. Len(s)
<1> DEFINE T == {d \in i - 1 .. Len(s) : d = Len(s) \/ s[d + 1] \in stop}
<1>1. Len(s) \in Nat
  OBVIOUS
<1>2. T \in SUBSET Nat /\ T # {}
  <2>1. Len(s) \in T
    BY <1>1
  <2>2. QED
    BY <1>1, <2>1
<1>3. PICK e \in T : \A d \in T : e <= d
  <2> HIDE DEF T
  <2>1. QED
    BY <1>2, LeastNat
<1>4. \A k \in i .. e : s[k] \notin stop
  <2>1. ASSUME NEW k \in i .. e PROVE k - 1 \in i - 1 .. Len(s) /\ ~(e <= k - 1) /\ k - 1 + 1 = k
    BY <1>1
  <2>2. QED
    BY <1>3, <2>1
<1>5. e \in i - 1 .. Len(s) /\ (e = Len(s) \/ s[e + 1] \in stop)
  OBVIOUS
<1> HIDE DEF T
<1>6. EndOf(s, i, stop) = e
  BY <1>4, <1>5, EndOfIs
<1>7. QED
  BY <1>5, <1>6

\* Where the next token begins
LEMMA SkipIs ==
  ASSUME NEW s \in Seq(Char), NEW i \in 1 .. Len(s) + 1,
         NEW k \in i .. Len(s) + 1, \A n \in i .. k - 1 : s[n] \in Delimiters,
         k = Len(s) + 1 \/ s[k] \notin Delimiters
  PROVE  Skip(s, i) = k
<1> DEFINE Begins(d) == /\ \A n \in i .. d - 1 : s[n] \in Delimiters
                        /\ d = Len(s) + 1 \/ s[d] \notin Delimiters
<1>1. Len(s) \in Nat
  OBVIOUS
<1>2. ASSUME NEW c \in i .. Len(s) + 1, NEW d \in i .. Len(s) + 1, Begins(c), Begins(d) PROVE ~(c < d)
  <2>1. SUFFICES ASSUME c < d PROVE FALSE
    OBVIOUS
  <2>2. c \in i .. d - 1 /\ c # Len(s) + 1
    BY <1>1, <2>1
  <2>3. QED
    BY <1>2, <2>2
<1> DEFINE f == CHOOSE d \in i .. Len(s) + 1 : Begins(d)
<1>3. f \in i .. Len(s) + 1 /\ Begins(f) /\ Begins(k)
  OBVIOUS
<1>4. Skip(s, i) = f
  BY DEF Skip
<1> HIDE DEF f, Begins
<1>5. ~(f < k) /\ ~(k < f)
  BY <1>2, <1>3
<1>6. f = k
  BY <1>1, <1>3, <1>5
<1>7. QED
  BY <1>4, <1>6

\* From every place there is one where the next token begins, or the end of the text.
LEMMA SkipExists ==
  ASSUME NEW s \in Seq(Char), NEW i \in 1 .. Len(s) + 1
  PROVE  Skip(s, i) \in i .. Len(s) + 1
<1> DEFINE T == {d \in i .. Len(s) + 1 : d = Len(s) + 1 \/ s[d] \notin Delimiters}
<1>1. Len(s) \in Nat
  OBVIOUS
<1>2. T \in SUBSET Nat /\ T # {}
  <2>1. Len(s) + 1 \in T
    BY <1>1
  <2>2. QED
    BY <1>1, <2>1
<1>3. PICK k \in T : \A d \in T : k <= d
  <2> HIDE DEF T
  <2>1. QED
    BY <1>2, LeastNat
<1>4. \A n \in i .. k - 1 : s[n] \in Delimiters
  <2>1. ASSUME NEW n \in i .. k - 1 PROVE n \in i .. Len(s) + 1 /\ ~(k <= n) /\ n # Len(s) + 1
    BY <1>1
  <2>2. QED
    BY <1>3, <2>1
<1>5. k \in i .. Len(s) + 1 /\ (k = Len(s) + 1 \/ s[k] \notin Delimiters)
  OBVIOUS
<1> HIDE DEF T
<1>6. Skip(s, i) = k
  BY <1>4, <1>5, SkipIs
<1>7. QED
  BY <1>5, <1>6

\* What the loop does at each place of the text: the entry it reads there, and the
\* place where it goes on
NextPlace(s, i) ==
  LET e == EndOf(s, i, Delimiters)
      valueEnd == EndOf(s, e + 2, Separators)
  IN IF s[e + 1] \in Separators \/ valueEnd < e + 2 THEN Skip(s, e + 1) ELSE Skip(s, valueEnd + 1)

\* The entries read from each place on
LEMMA ReadExists ==
  ASSUME NEW s \in Seq(Char)
  PROVE  \E from :
           /\ Split(s) = from[1]
           /\ \A i \in 1 .. Len(s) + 1 : 
               from[i] = LET e == EndOf(s, i, Delimiters)
                             token == SubSeq(s, i, e)
                             valueEnd == EndOf(s, e + 2, Separators)
                         IN IF e < i THEN <<>>
                            ELSE IF e = Len(s) THEN <<Entry(<<>>, token)>>
                            ELSE IF s[e + 1] \in Separators
                                 THEN <<Entry(<<>>, token)>> \o from[Skip(s, e + 1)]
                            ELSE IF valueEnd < e + 2 THEN from[Skip(s, e + 1)]
                            ELSE <<Entry(token, SubSeq(s, e + 2, valueEnd))>> \o from[Skip(s, valueEnd + 1)]
<1> DEFINE D == 1 .. Len(s) + 1
           R == [key : Seq(Char), val : Seq(Char)]
           S == Seq(R)
           end(i) == EndOf(s, i, Delimiters)
           token(i) == SubSeq(s, i, end(i))
           valueEnd(i) == EndOf(s, end(i) + 2, Separators)
           Body(f, i) ==
             LET e == EndOf(s, i, Delimiters)
                 tok == SubSeq(s, i, e)
                 vEnd == EndOf(s, e + 2, Separators)
             IN IF e < i THEN <<>>
                ELSE IF e = Len(s) THEN <<Entry(<<>>, tok)>>
                ELSE IF s[e + 1] \in Separators
                     THEN <<Entry(<<>>, tok)>> \o f[Skip(s, e + 1)]
                ELSE IF vEnd < e + 2 THEN f[Skip(s, e + 1)]
                ELSE <<Entry(tok, SubSeq(s, e + 2, vEnd))>> \o f[Skip(s, vEnd + 1)]
           All(f) == [i \in D |-> Body(f, i)]
           B == {i \in D : end(i) < i \/ end(i) = Len(s)}
           b == [i \in D |-> IF end(i) < i THEN <<>> ELSE <<Entry(<<>>, token(i))>>]
           m == [i \in D |-> Len(s) + 1 - i]
           p == [i \in D |-> IF i \in B THEN i ELSE NextPlace(s, i)]
           g == [i \in D |-> [t \in S |->
                  IF i \in B THEN t
                  ELSE IF s[end(i) + 1] \in Separators THEN <<Entry(<<>>, token(i))>> \o t
                  ELSE IF valueEnd(i) < end(i) + 2 THEN t
                  ELSE <<Entry(token(i), SubSeq(s, end(i) + 2, valueEnd(i)))>> \o t]]
<1>1. Len(s) \in Nat
  OBVIOUS
<1>2. ASSUME NEW i \in D PROVE end(i) \in i - 1 .. Len(s)
  BY EndOfExists
<1>3. ASSUME NEW i \in D, i \notin B
      PROVE  /\ end(i) \in i .. Len(s) - 1
             /\ valueEnd(i) \in end(i) + 1 .. Len(s)
             /\ NextPlace(s, i) \in i + 1 .. Len(s) + 1
  <2>1. end(i) \in i .. Len(s) - 1
    BY <1>1, <1>2, <1>3
  <2>2. end(i) + 2 \in 1 .. Len(s) + 1
    BY <1>1, <2>1
  <2>3. valueEnd(i) \in end(i) + 1 .. Len(s)
    <3> DEFINE j == end(i) + 2
    <3>1. EndOf(s, j, Separators) \in j - 1 .. Len(s)
      <4> HIDE DEF j
      <4>1. QED
        BY <2>2, EndOfExists DEF j
    <3>2. QED
      BY <3>1, <1>1, <2>1
  <2>4. Skip(s, end(i) + 1) \in end(i) + 1 .. Len(s) + 1
    BY <1>1, <2>1, SkipExists
  <2>5. Skip(s, valueEnd(i) + 1) \in valueEnd(i) + 1 .. Len(s) + 1
    BY <1>1, <2>1, <2>3, SkipExists
  <2>6. NextPlace(s, i) \in {Skip(s, end(i) + 1), Skip(s, valueEnd(i) + 1)}
    BY DEF NextPlace
  <2> HIDE DEF end, valueEnd
  <2>7. NextPlace(s, i) \in i + 1 .. Len(s) + 1
    BY <1>1, <2>1, <2>3, <2>4, <2>5, <2>6
  <2>8. QED
    BY <2>1, <2>3, <2>7
<1>4. ASSUME NEW k, NEW v, k \in Seq(Char), v \in Seq(Char)
      PROVE  <<Entry(k, v)>> \in S
  <2>1. Entry(k, v) \in R
    BY <1>4 DEF Entry
  <2> HIDE DEF R
  <2>2. QED
    BY <2>1
<1>5. ASSUME NEW i \in D, end(i) \in i .. Len(s) PROVE token(i) \in Seq(Char)
  BY <1>1, <1>5
<1>6. ASSUME NEW i \in D, i \notin B, ~(valueEnd(i) < end(i) + 2)
      PROVE  SubSeq(s, end(i) + 2, valueEnd(i)) \in Seq(Char)
  <2>1. end(i) \in Nat /\ valueEnd(i) \in end(i) + 2 .. Len(s)
    BY <1>1, <1>3, <1>6
  <2> HIDE DEF end, valueEnd
  <2>2. QED
    BY <1>1, <2>1
<1>7. <<>> \in Seq(Char) /\ <<>> \in S
  OBVIOUS
<1>8. b \in [D -> S]
  <2>1. ASSUME NEW i \in D PROVE (IF end(i) < i THEN <<>> ELSE <<Entry(<<>>, token(i))>>) \in S
    <3>1. CASE end(i) < i
      BY <1>7, <3>1
    <3>2. CASE ~(end(i) < i)
      <4>1. token(i) \in Seq(Char)
        BY <1>1, <1>2, <1>5, <3>2
      <4> HIDE DEF S, token
      <4>2. QED
        BY <1>4, <1>7, <3>2, <4>1
    <3>3. QED
      BY <3>1, <3>2
  <2>2. QED
    BY <2>1
<1>9. \A i \in D : m[i] \in Nat
  BY <1>1
<1>10. p \in [D -> D]
  BY <1>1, <1>3
<1>11. \A i \in D : i \notin B => m[p[i]] < m[i]
  <2>1. ASSUME NEW i \in D, i \notin B PROVE m[p[i]] < m[i]
    <3>1. p[i] = NextPlace(s, i) /\ p[i] \in i + 1 .. Len(s) + 1
      BY <1>3, <2>1
    <3> HIDE DEF p
    <3>2. QED
      BY <1>1, <3>1
  <2>2. QED
    BY <2>1
<1>12. g \in [D -> [S -> S]]
  <2>1. ASSUME NEW i \in D, i \notin B, NEW t \in S
        PROVE  (IF s[end(i) + 1] \in Separators THEN <<Entry(<<>>, token(i))>> \o t
                ELSE IF valueEnd(i) < end(i) + 2 THEN t
                ELSE <<Entry(token(i), SubSeq(s, end(i) + 2, valueEnd(i)))>> \o t) \in S
    <3>1. token(i) \in Seq(Char)
      BY <1>1, <1>3, <1>5, <2>1
    <3> DEFINE u == <<Entry(<<>>, token(i))>>
               v == <<Entry(token(i), SubSeq(s, end(i) + 2, valueEnd(i)))>>
    <3>2. u \in S
      <4> HIDE DEF S, token
      <4>1. QED
        BY <1>4, <1>7, <3>1
    <3>3. ASSUME ~(valueEnd(i) < end(i) + 2) PROVE v \in S
      <4> DEFINE w == SubSeq(s, end(i) + 2, valueEnd(i))
                 tk == token(i)
      <4>1. w \in Seq(Char) /\ tk \in Seq(Char)
        BY <1>6, <2>1, <3>1, <3>3
      <4> HIDE DEF S, w, tk
      <4>2. <<Entry(tk, w)>> \in S
        BY <1>4, <4>1
      <4>3. QED
        BY <4>2 DEF tk, w
    <3> HIDE DEF u, v, R
    <3>4. \A x, y \in S : x \o y \in S
      BY ConcatProperties
    <3> HIDE DEF S, end, valueEnd
    <3>5. /\ u \o t \in S
          /\ ~(valueEnd(i) < end(i) + 2) => v \o t \in S
      BY <3>2, <3>3, <3>4
    <3>6. QED
      BY <3>5 DEF u, v
  <2> DEFINE G(i, t) ==
        IF i \in B THEN t
        ELSE IF s[end(i) + 1] \in Separators THEN <<Entry(<<>>, token(i))>> \o t
        ELSE IF valueEnd(i) < end(i) + 2 THEN t
        ELSE <<Entry(token(i), SubSeq(s, end(i) + 2, valueEnd(i)))>> \o t
  <2>2. ASSUME NEW i \in D, NEW t \in S PROVE G(i, t) \in S
    <3>1. CASE i \in B
      BY <3>1, <2>2
    <3>2. CASE i \notin B
      BY <3>2, <2>1
    <3>3. QED
      BY <3>1, <3>2
  <2>3. g = [i \in D |-> [t \in S |-> G(i, t)]]
    OBVIOUS
  <2> HIDE DEF G, g, S, D
  <2>4. QED
    BY <2>2, <2>3
<1>13. PICK f \in [D -> S] : Computes(f, D, B, b, p, g)
  <2>1. m \in [D -> Nat]
    BY <1>9
  <2> HIDE DEF D, S, B, b, m, p, g
  <2>2. QED
    BY <1>8, <1>10, <1>11, <1>12, <2>1, RecursionExists
<1>14. ASSUME NEW i \in D PROVE f[i] = Body(f, i)
  <2>1. f[i] = IF i \in B THEN b[i] ELSE g[i][f[p[i]]]
    BY <1>13 DEF Computes
  <2>2. CASE i \in B
    <3>1. f[i] = IF end(i) < i THEN <<>> ELSE <<Entry(<<>>, token(i))>>
      BY <2>1, <2>2
    <3>2. QED
      BY <2>2, <3>1
  <2>3. CASE i \notin B
    <3>1. f[p[i]] \in S /\ p[i] = NextPlace(s, i)
      BY <1>10, <2>3
    <3>2. f[i] = g[i][f[NextPlace(s, i)]] /\ f[NextPlace(s, i)] \in S
      BY <2>1, <2>3, <3>1
    <3> DEFINE t == f[NextPlace(s, i)]
    <3>3. f[i] = IF s[end(i) + 1] \in Separators THEN <<Entry(<<>>, token(i))>> \o t
                 ELSE IF valueEnd(i) < end(i) + 2 THEN t
                 ELSE <<Entry(token(i), SubSeq(s, end(i) + 2, valueEnd(i)))>> \o t
      <4> HIDE DEF t, S, B
      <4>1. QED
        BY <2>3, <3>2 DEF t
    <3>4. ~(end(i) < i) /\ end(i) # Len(s)
      BY <2>3
    <3>5. t = IF s[end(i) + 1] \in Separators \/ valueEnd(i) < end(i) + 2
              THEN f[Skip(s, end(i) + 1)] ELSE f[Skip(s, valueEnd(i) + 1)]
      BY DEF NextPlace
    <3> HIDE DEF t
    <3>6. Body(f, i) = IF s[end(i) + 1] \in Separators
                       THEN <<Entry(<<>>, token(i))>> \o f[Skip(s, end(i) + 1)]
                       ELSE IF valueEnd(i) < end(i) + 2 THEN f[Skip(s, end(i) + 1)]
                       ELSE <<Entry(token(i), SubSeq(s, end(i) + 2, valueEnd(i)))>>
                              \o f[Skip(s, valueEnd(i) + 1)]
      BY <3>4
    <3> HIDE DEF end, token, valueEnd, Body
    <3>7. QED
      BY <3>3, <3>5, <3>6
  <2>4. QED
    BY <2>2, <2>3
<1>15. f = All(f)
  <2> HIDE DEF Body
  <2>1. QED
    BY <1>14
<1> DEFINE from == CHOOSE h : h = All(h)
<1>16. from = All(from)
  BY <1>15
<1>17. Split(s) = from[1]
  BY DEF Split
<1> HIDE DEF from
<1>18. \A i \in D : from[i] = Body(from, i)
  <2> HIDE DEF Body
  <2>1. QED
    BY <1>16
<1>19. QED
  BY <1>16, <1>17, <1>18

\* The entries of the documented form
LEMMA EntryIs ==
  ASSUME NEW list \in Lists, NEW i \in 1 .. Len(list)
  PROVE  /\ list[i].key \in Seq(Char) /\ list[i].val \in Seq(Char)
         /\ list[i].sep \in Separators /\ list[i].delim \in Delimiters \ Separators
         /\ Len(list[i].val) >= 1
         /\ list[i].key # <<>> => Len(list[i].key) >= 1
         /\ \A k \in 1 .. Len(list[i].key) : list[i].key[k] \notin Delimiters
         /\ \A k \in 1 .. Len(list[i].val) : list[i].val[k] \notin Separators
         /\ list[i].key = <<>> => \A k \in 1 .. Len(list[i].val) : list[i].val[k] \notin Delimiters
<1> DEFINE X == Seq(STRING)
           Y == Seq(Char)
           R == [key : X, val : X, sep : Separators, delim : Delimiters \ Separators]
           o == list[i]
<1>1. list \in Seq(R) /\ (i \in DOMAIN list => Writable(o))
  BY TextToolsAssumption
<1>2. X \subseteq Y
  BY SeqMonotonic DEF Char
<1>3. o \in R /\ Writable(o)
  <2> HIDE DEF R, o
  <2>1. i \in DOMAIN list
    BY <1>1
  <2>2. list[i] \in R
    BY <1>1
  <2>3. QED
    BY <2>1, <2>2, <1>1 DEF o
<1> HIDE DEF X, Y, o
<1>4. o.key \in Y /\ o.val \in Y /\ o.sep \in Separators /\ o.delim \in Delimiters \ Separators
  BY <1>2, <1>3
<1> DEFINE key == o.key
           val == o.val
<1>5. /\ val # <<>> /\ ToSet(key) \cap Delimiters = {}
      /\ ToSet(val) \cap (IF key = <<>> THEN Delimiters ELSE Separators) = {}
  BY <1>3 DEF Writable
<1>6. key \in Seq(Char) /\ val \in Seq(Char)
  BY <1>4 DEF Y
<1> HIDE DEF key, val
<1>7. Separators \subseteq Delimiters
  BY DEF Delimiters
<1>8. \A k \in 1 .. Len(key) : key[k] \in ToSet(key)
  BY <1>6 DEF ToSet
<1>9. \A k \in 1 .. Len(val) : val[k] \in ToSet(val)
  BY <1>6 DEF ToSet
<1>10. Len(val) >= 1 /\ (key # <<>> => Len(key) >= 1)
  BY <1>5, <1>6
<1>11. /\ \A k \in 1 .. Len(key) : key[k] \notin Delimiters
       /\ \A k \in 1 .. Len(val) : val[k] \notin Separators
       /\ key = <<>> => \A k \in 1 .. Len(val) : val[k] \notin Delimiters
  BY <1>5, <1>7, <1>8, <1>9
<1>12. QED
  BY <1>4, <1>6, <1>10, <1>11 DEF key, val, o

\* The length of what precedes the value of an entry
BeforeValue(o) == IF o.key = <<>> THEN 0 ELSE Len(o.key) + 1

\* Where the entries of a list stand in the option
LEMMA WrittenIs ==
  ASSUME NEW list \in Lists
  PROVE  /\ Written(list) \in Seq(Char)
         /\ \E at \in [0 .. Len(list) -> Nat] :
              /\ at[0] = 0 /\ at[Len(list)] = Len(Written(list))
              /\ \A k \in 1 .. Len(list) :
                   /\ at[k] = at[k - 1] + BeforeValue(list[k]) + Len(list[k].val)
                                + (IF k = Len(list) THEN 0 ELSE 1)
                   /\ at[k] <= Len(Written(list))
                   /\ list[k].key # <<>> =>
                        /\ \A i \in 1 .. Len(list[k].key) :
                             Written(list)[at[k - 1] + i] = list[k].key[i]
                        /\ Written(list)[at[k - 1] + BeforeValue(list[k])] = list[k].delim
                   /\ \A i \in 1 .. Len(list[k].val) :
                        Written(list)[at[k - 1] + BeforeValue(list[k]) + i] = list[k].val[i]
                   /\ k # Len(list) => Written(list)[at[k]] = list[k].sep
<1> DEFINE n == Len(list)
           front == [k \in 1 .. n |-> IF list[k].key = <<>> THEN <<>> ELSE list[k].key \o <<list[k].delim>>]
           back == [k \in 1 .. n |-> IF k = n THEN <<>> ELSE <<list[k].sep>>]
           ss == [k \in 1 .. n |-> front[k] \o list[k].val \o back[k]]
           s == FlattenSeq(ss)
<1>1. n \in Nat /\ DOMAIN list = 1 .. n
  BY TextToolsAssumption
<1>2. Written(list) = s
  BY <1>1 DEF Written
<1>3. ASSUME NEW k \in 1 .. n
      PROVE  /\ front[k] \in Seq(Char) /\ Len(front[k]) = BeforeValue(list[k])
             /\ list[k].key # <<>> =>
                  /\ \A i \in 1 .. Len(list[k].key) : front[k][i] = list[k].key[i]
                  /\ front[k][BeforeValue(list[k])] = list[k].delim
  <2> DEFINE key == list[k].key
             d == list[k].delim
             t == <<d>>
  <2>1. key \in Seq(Char) /\ d \in Char
    BY EntryIs DEF Char
  <2>2. front[k] = IF key = <<>> THEN <<>> ELSE key \o t
    OBVIOUS
  <2>3. BeforeValue(list[k]) = IF key = <<>> THEN 0 ELSE Len(key) + 1
    BY DEF BeforeValue
  <2> HIDE DEF key, d, front
  <2>4. t \in Seq(Char) /\ Len(t) = 1 /\ t[1] = d
    BY <2>1
  <2> HIDE DEF t
  <2>5. CASE key = <<>>
    BY <2>2, <2>3, <2>5 DEF key
  <2>6. CASE key # <<>>
    <3>1. /\ key \o t \in Seq(Char) /\ Len(key \o t) = Len(key) + 1
          /\ \A i \in 1 .. Len(key) + 1 : (key \o t)[i] = IF i <= Len(key) THEN key[i] ELSE t[i - Len(key)]
      <4>1. key \in Seq(Char) /\ t \in Seq(Char)
        BY <2>1, <2>4
      <4>2. /\ key \o t \in Seq(Char) /\ Len(key \o t) = Len(key) + Len(t)
            /\ \A i \in 1 .. Len(key) + Len(t) :
                 (key \o t)[i] = IF i <= Len(key) THEN key[i] ELSE t[i - Len(key)]
        BY <4>1, ConcatProperties
      <4>3. Len(t) = 1
        BY <2>4
      <4>4. QED
        BY <4>2, <4>3
    <3>2. Len(key) \in Nat
      BY <2>1
    <3>3. \A i \in 1 .. Len(key) : (key \o t)[i] = key[i]
      BY <3>1, <3>2
    <3>4. (key \o t)[Len(key) + 1] = d
      <4>1. Len(key) + 1 \in 1 .. Len(key) + 1 /\ ~(Len(key) + 1 <= Len(key)) /\ Len(key) + 1 - Len(key) = 1
        BY <3>2
      <4>2. QED
        BY <4>1, <3>1, <2>4
    <3>5. front[k] = key \o t /\ BeforeValue(list[k]) = Len(key) + 1
      BY <2>2, <2>3, <2>6
    <3>6. QED
      BY <3>1, <3>3, <3>4, <3>5 DEF key, d
  <2>7. QED
    BY <2>5, <2>6
<1>4. ASSUME NEW k \in 1 .. n
      PROVE  /\ back[k] \in Seq(Char) /\ Len(back[k]) = IF k = n THEN 0 ELSE 1
             /\ k # n => back[k][1] = list[k].sep
  <2> DEFINE d == list[k].sep
  <2>1. d \in Char
    BY EntryIs DEF Char, Delimiters
  <2>2. back[k] = IF k = n THEN <<>> ELSE <<d>>
    OBVIOUS
  <2> HIDE DEF d, back
  <2>3. <<d>> \in Seq(Char) /\ Len(<<d>>) = 1 /\ <<d>>[1] = d
    BY <2>1
  <2>4. QED
    BY <2>2, <2>3 DEF d
<1> HIDE DEF front, back
<1>5. ASSUME NEW k \in 1 .. n
      PROVE  /\ ss[k] \in Seq(Char)
             /\ Len(ss[k]) = BeforeValue(list[k]) + Len(list[k].val) + (IF k = n THEN 0 ELSE 1)
             /\ BeforeValue(list[k]) \in Nat /\ Len(list[k].val) \in Nat
             /\ list[k].key # <<>> =>
                  /\ \A i \in 1 .. Len(list[k].key) : ss[k][i] = list[k].key[i]
                  /\ ss[k][BeforeValue(list[k])] = list[k].delim
                  /\ BeforeValue(list[k]) = Len(list[k].key) + 1
                  /\ Len(list[k].key) \in Nat
             /\ \A i \in 1 .. Len(list[k].val) : ss[k][BeforeValue(list[k]) + i] = list[k].val[i]
             /\ k # n => ss[k][BeforeValue(list[k]) + Len(list[k].val) + 1] = list[k].sep
  <2> DEFINE h == front[k]
             v == list[k].val
             t == back[k]
             w == h \o v \o t
             key == list[k].key
  <2>1. h \in Seq(Char) /\ v \in Seq(Char) /\ t \in Seq(Char) /\ key \in Seq(Char)
    BY <1>3, <1>4, EntryIs
  <2>2. ss[k] = w
    OBVIOUS
  <2>3. /\ Len(h) = BeforeValue(list[k])
        /\ key # <<>> => /\ \A i \in 1 .. Len(key) : h[i] = key[i]
                         /\ h[BeforeValue(list[k])] = list[k].delim
        /\ Len(t) = IF k = n THEN 0 ELSE 1
        /\ k # n => t[1] = list[k].sep
    BY <1>3, <1>4
  <2>4. key # <<>> => BeforeValue(list[k]) = Len(key) + 1
    BY DEF BeforeValue
  <2> HIDE DEF h, v, t, ss, key
  <2>5. /\ w \in Seq(Char) /\ Len(w) = Len(h) + Len(v) + Len(t)
        /\ \A i \in 1 .. Len(h) : w[i] = h[i]
        /\ \A i \in 1 .. Len(v) : w[Len(h) + i] = v[i]
        /\ \A i \in 1 .. Len(t) : w[Len(h) + Len(v) + i] = t[i]
    BY <2>1, ThreeParts
  <2> HIDE DEF w
  <2>6. Len(h) \in Nat /\ Len(v) \in Nat /\ Len(key) \in Nat
    BY <2>1
  <2>7. ASSUME key # <<>>
        PROVE  /\ \A i \in 1 .. Len(key) : w[i] = key[i]
               /\ w[BeforeValue(list[k])] = list[k].delim
    <3>1. /\ BeforeValue(list[k]) \in 1 .. Len(h)
          /\ \A i \in 1 .. Len(key) : i \in 1 .. Len(h)
      BY <2>3, <2>4, <2>6, <2>7
    <3>2. QED
      BY <2>3, <2>5, <2>7, <3>1
  <2>8. k # n => w[Len(h) + Len(v) + 1] = list[k].sep
    BY <2>3, <2>5
  <2>9. Len(w) = BeforeValue(list[k]) + Len(v) + (IF k = n THEN 0 ELSE 1)
    BY <2>3, <2>5
  <2>10. QED
    BY <2>2, <2>3, <2>4, <2>5, <2>6, <2>7, <2>8, <2>9 DEF v, key
<1>6. ss \in Seq(Seq(Char)) /\ Len(ss) = n
  <2> DEFINE Y == Seq(Char)
  <2>1. ss = [k \in 1 .. n |-> ss[k]] /\ \A k \in 1 .. n : ss[k] \in Y
    BY <1>5
  <2> HIDE DEF ss, Y
  <2>2. ss \in Seq(Y) /\ Len(ss) = n
    BY <1>1, <2>1
  <2>3. QED
    BY <2>2 DEF Y
<1> HIDE DEF ss
<1>7. /\ s \in Seq(Char)
      /\ \E at \in [0 .. n -> Nat] :
           /\ at[0] = 0 /\ at[n] = Len(s)
           /\ \A k \in 1 .. n :
                /\ at[k] = at[k - 1] + Len(ss[k])
                /\ at[k] <= Len(s)
                /\ \A i \in 1 .. Len(ss[k]) : s[at[k - 1] + i] = ss[k][i]
  <2>1. /\ s \in Seq(Char)
        /\ \E at \in [0 .. Len(ss) -> Nat] :
             /\ at[0] = 0 /\ at[Len(ss)] = Len(s)
             /\ \A k \in 1 .. Len(ss) :
                  /\ at[k] = at[k - 1] + Len(ss[k])
                  /\ at[k] <= Len(s)
                  /\ \A i \in 1 .. Len(ss[k]) : s[at[k - 1] + i] = ss[k][i]
    BY <1>6, FlattenPlaces
  <2>2. Len(ss) = n
    BY <1>6
  <2> HIDE DEF s, n
  <2>3. QED
    BY <2>1, <2>2
<1> HIDE DEF s
<1>8. PICK at \in [0 .. n -> Nat] :
           /\ at[0] = 0 /\ at[n] = Len(s)
           /\ \A k \in 1 .. n :
                /\ at[k] = at[k - 1] + Len(ss[k])
                /\ at[k] <= Len(s)
                /\ \A i \in 1 .. Len(ss[k]) : s[at[k - 1] + i] = ss[k][i]
  BY <1>7
<1>9. ASSUME NEW k \in 1 .. n
      PROVE  /\ at[k] = at[k - 1] + BeforeValue(list[k]) + Len(list[k].val) + (IF k = n THEN 0 ELSE 1)
             /\ at[k] <= Len(s)
             /\ list[k].key # <<>> =>
                  /\ \A i \in 1 .. Len(list[k].key) : s[at[k - 1] + i] = list[k].key[i]
                  /\ s[at[k - 1] + BeforeValue(list[k])] = list[k].delim
             /\ \A i \in 1 .. Len(list[k].val) :
                  s[at[k - 1] + BeforeValue(list[k]) + i] = list[k].val[i]
             /\ k # n => s[at[k]] = list[k].sep
  <2> DEFINE a == at[k - 1]
             w == ss[k]
             z == BeforeValue(list[k])
             val == list[k].val
             key == list[k].key
  <2>1. a \in Nat
    <3>1. k - 1 \in 0 .. n
      BY <1>1
    <3>2. QED
      BY <3>1
  <2>2. at[k] = a + Len(w) /\ at[k] <= Len(s) /\ \A i \in 1 .. Len(w) : s[a + i] = w[i]
    BY <1>8
  <2>3. /\ Len(w) = z + Len(val) + (IF k = n THEN 0 ELSE 1)
        /\ z \in Nat /\ Len(val) \in Nat
        /\ key # <<>> =>
             /\ \A i \in 1 .. Len(key) : w[i] = key[i]
             /\ w[z] = list[k].delim
             /\ z = Len(key) + 1 /\ Len(key) \in Nat
        /\ \A i \in 1 .. Len(val) : w[z + i] = val[i]
        /\ k # n => w[z + Len(val) + 1] = list[k].sep
    <3>1. Len(w) = z + Len(val) + (IF k = n THEN 0 ELSE 1) /\ z \in Nat /\ Len(val) \in Nat
      BY <1>5
    <3>2. key # <<>> =>
            /\ \A i \in 1 .. Len(key) : w[i] = key[i]
            /\ w[z] = list[k].delim
            /\ z = Len(key) + 1 /\ Len(key) \in Nat
      BY <1>5
    <3>3. \A i \in 1 .. Len(val) : w[z + i] = val[i]
      BY <1>5
    <3>4. k # n => w[z + Len(val) + 1] = list[k].sep
      BY <1>5
    <3> HIDE DEF w, z, val, key
    <3>5. QED
      BY <3>1, <3>2, <3>3, <3>4
  <2> HIDE DEF a, w, z, val, key
  <2>4. at[k] = a + z + Len(val) + (IF k = n THEN 0 ELSE 1)
    <3>1. at[k] = a + Len(w)
      BY <2>2
    <3>2. Len(w) = z + Len(val) + (IF k = n THEN 0 ELSE 1) /\ z \in Nat /\ Len(val) \in Nat
      BY <2>3
    <3>3. QED
      BY <2>1, <3>1, <3>2
  <2>5. ASSUME key # <<>> PROVE /\ \A i \in 1 .. Len(key) : s[a + i] = key[i]
                                /\ s[a + z] = list[k].delim
    <3>1. z \in 1 .. Len(w) /\ \A i \in 1 .. Len(key) : i \in 1 .. Len(w)
      BY <2>3, <2>5
    <3>2. QED
      BY <2>2, <2>3, <2>5, <3>1
  <2>6. ASSUME NEW i \in 1 .. Len(val) PROVE s[a + z + i] = val[i]
    <3>1. z + i \in 1 .. Len(w) /\ a + z + i = a + (z + i)
      BY <2>1, <2>3
    <3>2. s[a + (z + i)] = w[z + i]
      BY <2>2, <3>1
    <3>3. QED
      BY <2>3, <3>1, <3>2
  <2>7. ASSUME k # n PROVE s[at[k]] = list[k].sep
    <3>1. Len(w) \in 1 .. Len(w) /\ Len(w) = z + Len(val) + 1
      BY <2>3, <2>7
    <3>2. s[a + Len(w)] = w[Len(w)]
      BY <2>2, <3>1
    <3>3. QED
      BY <2>2, <2>3, <2>7, <3>1, <3>2
  <2>8. QED
    BY <2>2, <2>4, <2>5, <2>6, <2>7 DEF a, z, val, key
<1>10. QED
  BY <1>2, <1>7, <1>8, <1>9 DEF n

\* Each folder that is written in the documented form is read with its name
\* (split_shared_folder_str).
LEMMA OptionAlwaysSplit == OptionIsSplit
<1> SUFFICES ASSUME NEW list \in Lists
             PROVE  Split(Written(list)) = [i \in DOMAIN list |-> Entry(list[i].key, list[i].val)]
  BY DEF OptionIsSplit
<1> DEFINE n == Len(list)
           s == Written(list)
           L == Len(s)
           R == [key : Seq(Char), val : Seq(Char)]
           read == [i \in 1 .. n |-> Entry(list[i].key, list[i].val)]
<1>1. n \in Nat /\ DOMAIN list = 1 .. n
  BY TextToolsAssumption
<1>2. /\ s \in Seq(Char)
      /\ \E at \in [0 .. n -> Nat] :
              /\ at[0] = 0 /\ at[n] = L
              /\ \A k \in 1 .. n :
                   /\ at[k] = at[k - 1] + BeforeValue(list[k]) + Len(list[k].val)
                                + (IF k = n THEN 0 ELSE 1)
                   /\ at[k] <= L
                   /\ list[k].key # <<>> =>
                        /\ \A i \in 1 .. Len(list[k].key) : s[at[k - 1] + i] = list[k].key[i]
                        /\ s[at[k - 1] + BeforeValue(list[k])] = list[k].delim
                   /\ \A i \in 1 .. Len(list[k].val) :
                        s[at[k - 1] + BeforeValue(list[k]) + i] = list[k].val[i]
                   /\ k # n => s[at[k]] = list[k].sep
  BY WrittenIs
<1> HIDE DEF s, n
<1>3. PICK at \in [0 .. n -> Nat] :
              /\ at[0] = 0 /\ at[n] = L
              /\ \A k \in 1 .. n :
                   /\ at[k] = at[k - 1] + BeforeValue(list[k]) + Len(list[k].val)
                                + (IF k = n THEN 0 ELSE 1)
                   /\ at[k] <= L
                   /\ list[k].key # <<>> =>
                        /\ \A i \in 1 .. Len(list[k].key) : s[at[k - 1] + i] = list[k].key[i]
                        /\ s[at[k - 1] + BeforeValue(list[k])] = list[k].delim
                   /\ \A i \in 1 .. Len(list[k].val) :
                        s[at[k - 1] + BeforeValue(list[k]) + i] = list[k].val[i]
                   /\ k # n => s[at[k]] = list[k].sep
  BY <1>2
<1>4. L \in Nat
  BY <1>2
<1> DEFINE Body(f, i) ==
             LET e == EndOf(s, i, Delimiters)
                 token == SubSeq(s, i, e)
                 valueEnd == EndOf(s, e + 2, Separators)
             IN IF e < i THEN <<>>
                ELSE IF e = Len(s) THEN <<Entry(<<>>, token)>>
                ELSE IF s[e + 1] \in Separators
                     THEN <<Entry(<<>>, token)>> \o f[Skip(s, e + 1)]
                ELSE IF valueEnd < e + 2 THEN f[Skip(s, e + 1)]
                ELSE <<Entry(token, SubSeq(s, e + 2, valueEnd))>> \o f[Skip(s, valueEnd + 1)]
<1>5. PICK from : Split(s) = from[1] /\ \A i \in 1 .. L + 1 : from[i] = Body(from, i)
  BY <1>2, ReadExists
<1>6. from[L + 1] = <<>>
  <2>1. EndOf(s, L + 1, Delimiters) = L
    BY <1>2, <1>4, EndOfIs
  <2>2. L + 1 \in 1 .. L + 1 /\ L < L + 1
    BY <1>4
  <2>3. from[L + 1] = Body(from, L + 1)
    BY <1>5, <2>2
  <2>4. QED
    BY <2>1, <2>2, <2>3
<1>7. ASSUME NEW k \in 1 .. n
      PROVE  /\ list[k].key \in Seq(Char) /\ list[k].val \in Seq(Char)
             /\ Entry(list[k].key, list[k].val) \in R
  BY EntryIs DEF Entry, n
\* The first character of an entry is not skipped.
<1>8. ASSUME NEW k \in 1 .. n PROVE s[at[k - 1] + 1] \notin Delimiters /\ at[k - 1] \in 0 .. L - 1
  <2> DEFINE a == at[k - 1]
             key == list[k].key
             val == list[k].val
             z == BeforeValue(list[k])
             tail == IF k = n THEN 0 ELSE 1
  <2>1. a \in Nat
    <3>1. k - 1 \in 0 .. n
      BY <1>1
    <3>2. QED
      BY <3>1
  <2>2. /\ at[k] = a + z + Len(val) + tail /\ at[k] <= L
        /\ key # <<>> => \A i \in 1 .. Len(key) : s[a + i] = key[i]
        /\ \A i \in 1 .. Len(val) : s[a + z + i] = val[i]
    BY <1>3
  <2>3. /\ key \in Seq(Char) /\ val \in Seq(Char) /\ Len(val) >= 1
        /\ key # <<>> => Len(key) >= 1
        /\ \A i \in 1 .. Len(key) : key[i] \notin Delimiters
        /\ key = <<>> => \A i \in 1 .. Len(val) : val[i] \notin Delimiters
    BY EntryIs DEF n
  <2>4. z = IF key = <<>> THEN 0 ELSE Len(key) + 1
    BY DEF BeforeValue
  <2>5. tail \in Nat
    OBVIOUS
  <2> HIDE DEF a, key, val, z, tail
  <2>6. Len(key) \in Nat /\ Len(val) \in Nat
    BY <2>3
  <2>7. a \in 0 .. L - 1
    BY <1>4, <2>1, <2>2, <2>3, <2>4, <2>5, <2>6
  <2>8. s[a + 1] \notin Delimiters
    <3>1. CASE key = <<>>
      <4>1. s[a + z + 1] = val[1] /\ z = 0 /\ val[1] \notin Delimiters
        BY <2>2, <2>3, <2>4, <2>6, <3>1
      <4>2. a + z + 1 = a + 1
        BY <2>1, <4>1
      <4>3. QED
        BY <4>1, <4>2
    <3>2. CASE key # <<>>
      BY <2>2, <2>3, <2>6, <3>2
    <3>3. QED
      BY <3>1, <3>2
  <2>9. QED
    BY <2>7, <2>8 DEF a
\* The loop goes on at the next entry.
<1>9. ASSUME NEW k \in 1 .. n, NEW e \in 0 .. L, e + 1 = IF k = n THEN L + 1 ELSE at[k]
      PROVE  Skip(s, e + 1) = at[k] + 1
  <2>1. CASE k = n
    <3>1. Skip(s, L + 1) = L + 1
      BY <1>2, <1>4, SkipIs
    <3>2. QED
      BY <1>3, <1>9, <2>1, <3>1
  <2>2. CASE k # n
    <3> DEFINE a == at[k]
    <3>1. k + 1 \in 1 .. n /\ k + 1 - 1 = k
      BY <1>1, <2>2
    <3>2. s[a + 1] \notin Delimiters /\ a \in 0 .. L - 1
      BY <1>8, <3>1
    <3>3. s[a] = list[k].sep /\ list[k].sep \in Delimiters
      <4>1. list[k].sep \in Separators
        BY EntryIs DEF n
      <4>2. QED
        BY <1>3, <2>2, <4>1 DEF Delimiters
    <3>4. e + 1 = a
      BY <1>9, <2>2
    <3> HIDE DEF a
    <3>5. a \in 1 .. L + 1 /\ a + 1 \in a .. L + 1 /\ \A i \in a .. a + 1 - 1 : i = a
      BY <1>4, <3>2, <3>4
    <3>6. Skip(s, a) = a + 1
      BY <1>2, <3>2, <3>3, <3>5, SkipIs
    <3>7. QED
      BY <3>4, <3>6 DEF a
  <2>3. QED
    BY <2>1, <2>2
\* One turn of the loop reads one entry.
<1>10. ASSUME NEW k \in 1 .. n
       PROVE  from[at[k - 1] + 1] = <<Entry(list[k].key, list[k].val)>> \o from[at[k] + 1]
  <2> DEFINE a == at[k - 1]
             key == list[k].key
             val == list[k].val
             z == BeforeValue(list[k])
             v == Len(val)
             tail == IF k = n THEN 0 ELSE 1
             next == at[k]
  <2>1. a \in 0 .. L - 1
    BY <1>8
  <2>2. /\ next = a + z + v + tail /\ next <= L
        /\ key # <<>> => /\ \A i \in 1 .. Len(key) : s[a + i] = key[i]
                         /\ s[a + z] = list[k].delim
        /\ \A i \in 1 .. v : s[a + z + i] = val[i]
        /\ k # n => s[next] = list[k].sep
        /\ k = n => next = L
    BY <1>3
  <2>3. /\ key \in Seq(Char) /\ val \in Seq(Char) /\ v >= 1 /\ v \in Nat /\ Len(key) \in Nat
        /\ list[k].sep \in Separators /\ list[k].delim \in Delimiters \ Separators
        /\ \A i \in 1 .. Len(key) : key[i] \notin Delimiters
        /\ \A i \in 1 .. v : val[i] \notin Separators
        /\ key = <<>> => \A i \in 1 .. v : val[i] \notin Delimiters
    BY EntryIs DEF n
  <2>4. z = IF key = <<>> THEN 0 ELSE Len(key) + 1
    BY DEF BeforeValue
  <2>5. a + 1 \in 1 .. L + 1
    BY <1>4, <2>1
  <2>6. from[a + 1] = Body(from, a + 1)
    BY <1>5, <2>5
  <2> DEFINE E == Entry(key, val)
             e1 == <<E>>
  <2>7. e1 \in Seq(R)
    <3>1. E \in R
      BY <1>7
    <3> HIDE DEF E, R
    <3>2. QED
      BY <3>1
  <2>8. k = n => from[next + 1] = <<>>
    BY <1>6, <2>2
  <2>9. tail \in {0, 1} /\ (k = n => tail = 0) /\ (k # n => tail = 1)
    OBVIOUS
  <2>10. ASSUME NEW e \in 0 .. L, e + 1 = IF k = n THEN L + 1 ELSE next PROVE Skip(s, e + 1) = next + 1
    BY <1>9, <2>10
  <2> HIDE DEF a, key, val, z, v, tail, next
  <2>11. CASE key = <<>>
    <3>1. z = 0 /\ \A i \in 1 .. v : s[a + i] = val[i]
      BY <2>1, <2>2, <2>4, <2>11
    <3> DEFINE e == a + v
    <3>2. e \in a + 1 .. L /\ (k = n => e = L) /\ (k # n => e + 1 = next /\ e < L)
      BY <1>4, <2>1, <2>2, <2>3, <2>9, <3>1
    <3>3. \A i \in a + 1 .. e : s[i] \notin Delimiters
      <4>1. ASSUME NEW i \in a + 1 .. e PROVE s[i] \notin Delimiters
        <5>1. i - a \in 1 .. v /\ a + (i - a) = i
          BY <2>1, <2>3
        <5>2. s[a + (i - a)] = val[i - a]
          BY <3>1, <5>1
        <5>3. QED
          BY <2>3, <2>11, <5>1, <5>2
      <4>2. QED
        BY <4>1
    <3>4. k # n => s[e + 1] \in Separators
      BY <2>2, <2>3, <3>2
    <3>5. SubSeq(s, a + 1, e) = val
      BY <1>2, <1>4, <2>1, <2>3, <3>1, <3>2, PieceIs DEF v
    <3> HIDE DEF e
    <3>6. EndOf(s, a + 1, Delimiters) = e
      <4> DEFINE j == a + 1
      <4>1. j \in 1 .. L + 1 /\ e \in j - 1 .. L
        BY <1>4, <2>1, <3>2
      <4>2. e = L \/ s[e + 1] \in Delimiters
        BY <3>2, <3>4 DEF Delimiters
      <4>3. \A i \in j .. e : s[i] \notin Delimiters
        BY <3>3
      <4> HIDE DEF j
      <4>4. EndOf(s, j, Delimiters) = e
        BY <1>2, <4>1, <4>2, <4>3, EndOfIs
      <4>5. QED
        BY <4>4 DEF j
    <3>7. ~(e < a + 1)
      BY <2>1, <3>2
    <3>8. CASE k = n
      <4>1. from[a + 1] = e1
        BY <2>6, <2>11, <3>2, <3>5, <3>6, <3>7, <3>8
      <4>2. e1 \o <<>> = e1
        BY <2>7, ConcatProperties
      <4>3. QED
        BY <2>8, <3>8, <4>1, <4>2 DEF a, key, val, next
    <3>9. CASE k # n
      <4>1. e # Len(s) /\ s[e + 1] \in Separators
        BY <1>4, <3>2, <3>4, <3>9
      <4>2. from[a + 1] = e1 \o from[Skip(s, e + 1)]
        BY <2>6, <2>11, <3>5, <3>6, <3>7, <4>1
      <4>3. Skip(s, e + 1) = next + 1
        BY <1>4, <2>1, <2>10, <3>2, <3>9
      <4>4. QED
        BY <4>2, <4>3 DEF a, key, val, next
    <3>10. QED
      BY <3>8, <3>9
  <2>12. CASE key # <<>>
    <3>1. z = Len(key) + 1
      BY <2>4, <2>12
    <3> DEFINE e == a + Len(key)
               f == a + z + v
    <3>2. /\ Len(key) >= 1
          /\ e \in a + 1 .. L - 1 /\ e + 1 = a + z /\ e + 2 = a + z + 1 /\ e + 2 \in 1 .. L + 1
          /\ f \in e + 2 .. L /\ (k = n => f = L) /\ (k # n => f + 1 = next /\ f < L)
      <4>1. Len(key) >= 1
        BY <2>3, <2>12
      <4>2. next = a + z + v + tail /\ next <= L /\ (k = n => next = L)
        BY <2>2
      <4>3. v >= 1 /\ v \in Nat /\ Len(key) \in Nat
        BY <2>3
      <4>4. QED
        BY <1>4, <2>1, <2>9, <3>1, <4>1, <4>2, <4>3
    <3>3. \A i \in a + 1 .. e : s[i] \notin Delimiters
      <4>1. ASSUME NEW i \in a + 1 .. e PROVE s[i] \notin Delimiters
        <5>1. i - a \in 1 .. Len(key) /\ a + (i - a) = i
          BY <2>1, <2>3
        <5>2. s[a + (i - a)] = key[i - a]
          BY <2>2, <2>12, <5>1
        <5>3. QED
          BY <2>3, <5>1, <5>2
      <4>2. QED
        BY <4>1
    <3>4. s[e + 1] \in Delimiters \ Separators
      BY <2>2, <2>3, <2>12, <3>2
    <3>5. \A i \in e + 2 .. f : s[i] \notin Separators
      <4>1. ASSUME NEW i \in e + 2 .. f PROVE s[i] \notin Separators
        <5>1. i - (a + z) \in 1 .. v /\ a + z + (i - (a + z)) = i
          BY <2>1, <2>3, <3>1, <3>2
        <5>2. s[a + z + (i - (a + z))] = val[i - (a + z)]
          BY <2>2, <5>1
        <5>3. QED
          BY <2>3, <5>1, <5>2
      <4>2. QED
        BY <4>1
    <3>6. SubSeq(s, a + 1, e) = key
      <4>1. a \in Nat /\ a + Len(key) <= L /\ \A i \in 1 .. Len(key) : s[a + i] = key[i]
        BY <1>4, <2>1, <2>2, <2>12, <3>2
      <4>2. QED
        BY <1>2, <2>3, <4>1, PieceIs
    <3>7. SubSeq(s, e + 2, f) = val
      <4> DEFINE c == a + z
      <4>1. Len(key) \in Nat /\ v \in Nat
        BY <2>3
      <4>2. e + 2 = c + 1 /\ f = c + v /\ c \in Nat /\ c + v <= L
        BY <1>4, <2>1, <3>1, <3>2, <4>1
      <4>3. \A i \in 1 .. v : s[c + i] = val[i]
        BY <2>2
      <4> HIDE DEF c
      <4>4. SubSeq(s, c + 1, c + v) = val
        BY <1>2, <2>3, <4>2, <4>3, PieceIs DEF v
      <4>5. QED
        BY <4>2, <4>4
    <3> HIDE DEF e, f
    <3>8. EndOf(s, a + 1, Delimiters) = e
      <4> DEFINE j == a + 1
      <4>1. j \in 1 .. L + 1 /\ e \in j - 1 .. L
        BY <1>4, <2>1, <3>2
      <4>2. s[e + 1] \in Delimiters
        BY <3>4
      <4>3. \A i \in j .. e : s[i] \notin Delimiters
        BY <3>3
      <4> HIDE DEF j
      <4>4. EndOf(s, j, Delimiters) = e
        BY <1>2, <4>1, <4>2, <4>3, EndOfIs
      <4>5. QED
        BY <4>4 DEF j
    <3>9. EndOf(s, e + 2, Separators) = f
      <4> DEFINE j == e + 2
      <4>1. j \in 1 .. L + 1 /\ f \in j - 1 .. L /\ (f = L \/ s[f + 1] \in Separators)
        BY <1>4, <2>1, <2>2, <2>3, <3>2
      <4>2. \A i \in j .. f : s[i] \notin Separators
        BY <3>5
      <4> HIDE DEF j
      <4>3. EndOf(s, j, Separators) = f
        BY <1>2, <4>1, <4>2, EndOfIs
      <4>4. QED
        BY <4>3 DEF j
    <3>10. ~(e < a + 1) /\ e # Len(s) /\ s[e + 1] \notin Separators /\ ~(f < e + 2)
      BY <1>4, <2>1, <3>2, <3>4
    <3>11. from[a + 1] = e1 \o from[Skip(s, f + 1)]
      BY <2>6, <3>6, <3>7, <3>8, <3>9, <3>10
    <3>12. Skip(s, f + 1) = next + 1
      <4>1. f \in 0 .. L /\ f + 1 = IF k = n THEN L + 1 ELSE next
        BY <1>4, <2>1, <3>2
      <4>2. QED
        BY <2>10, <4>1
    <3>13. QED
      BY <3>11, <3>12 DEF a, key, val, next
  <2>13. QED
    BY <2>11, <2>12
<1> HIDE DEF Body, L
<1> DEFINE h == [k \in 0 .. n |-> from[at[k] + 1]]
<1>11. read \in Seq(R) /\ Len(read) = n
  <2>1. read = [i \in 1 .. n |-> read[i]] /\ \A i \in 1 .. n : read[i] \in R
    BY <1>7
  <2> HIDE DEF read, R
  <2>2. QED
    BY <1>1, <2>1
<1>12. h[Len(read)] = <<>>
  <2>1. n \in 0 .. n
    BY <1>1
  <2>2. QED
    BY <1>3, <1>6, <1>11, <2>1
<1>13. \A k \in 1 .. Len(read) : h[k - 1] = <<read[k]>> \o h[k]
  <2>1. ASSUME NEW k \in 1 .. n PROVE h[k - 1] = <<read[k]>> \o h[k]
    <3>1. k \in 0 .. n /\ k - 1 \in 0 .. n
      BY <1>1
    <3>2. h[k - 1] = from[at[k - 1] + 1] /\ h[k] = from[at[k] + 1]
      BY <3>1
    <3>3. read[k] = Entry(list[k].key, list[k].val)
      OBVIOUS
    <3>4. QED
      BY <1>10, <3>2, <3>3
  <2>2. QED
    BY <1>11, <2>1
<1>14. h[0] = read
  <2> HIDE DEF h, read, R
  <2>1. QED
    BY <1>11, <1>12, <1>13, ReadBack
<1>15. h[0] = from[1]
  <2>1. 0 \in 0 .. n /\ at[0] + 1 = 1
    BY <1>1, <1>3
  <2>2. QED
    BY <2>1
<1>16. QED
  BY <1>1, <1>5, <1>14, <1>15 DEF s
=============================================================================
