------------------------------ MODULE BufferPool ------------------------------
(***************************************************************************)
(* The ring of path buffers shared by the threads of the HTTP server       *)
(* (buffer_pool.c).  buffer_pool_aquire takes the buffer at the current    *)
(* position, or a fresh one from malloc when that buffer is taken, and     *)
(* moves the position on; nothing protects the two steps from those of     *)
(* another thread.  A step of this module is a part of an operation between*)
(* two accesses to shared memory that another thread may separate.         *)
(*                                                                         *)
(* A buffer is a number, 0 is the NULL pointer.  The variables of the      *)
(* module are extended by HttpServer, whose threads are the Users.         *)
(***************************************************************************)
EXTENDS Integers, Sequences, FiniteSets, SequencesExt

CONSTANTS
  Users,     \* threads of the HTTP server
  PoolLen,   \* number of buffers of the ring
  Buffers    \* addresses malloc can return

ASSUME BufferPoolAssumption ==
  /\ IsFiniteSet(Users)
  /\ PoolLen \in Nat \ {0}
  /\ Buffers \subseteq Nat \ {0}

VARIABLES
  buffer,    \* pool->__buffer
  acquired,  \* pool->__aquired
  pos,       \* pool->__pos
  poolPc,    \* where a thread stands in buffer_pool_aquire
  cur,       \* its cur_pos, then its next_pos
  got,       \* its ret
  bufs,      \* the buffers it was given and has not released
  races      \* what went wrong between two threads (history)

poolVars == <<buffer, acquired, pos, poolPc, cur, got, bufs, races>>

Entries == 0 .. PoolLen - 1

PoolTypeOK ==
  /\ buffer \in [Entries -> Buffers \cup {0}]
  /\ acquired \in [Entries -> BOOLEAN]
  /\ pos \in Entries
  /\ poolPc \in [Users -> {"out", "take", "search", "store"}]
  /\ cur \in [Users -> Entries]
  /\ got \in [Users -> Buffers \cup {0}]
  /\ bufs \in [Users -> Seq(Buffers)]
  /\ races \subseteq {"twice", "replaced"}

PoolInit ==
  /\ buffer = [i \in Entries |-> 0]
  /\ acquired = [i \in Entries |-> FALSE]
  /\ pos = 0
  /\ poolPc = [u \in Users |-> "out"]
  /\ cur = [u \in Users |-> 0]
  /\ got = [u \in Users |-> 0]
  /\ bufs = [u \in Users |-> <<>>]
  /\ races = {}

-----------------------------------------------------------------------------
\* The buffers a thread can write to.
InUse(u) ==
  ToSet(bufs[u]) \cup (IF poolPc[u] \in {"search", "store"} THEN {got[u]} ELSE {})

Allocated ==
  {buffer[i] : i \in Entries} \cup {got[u] : u \in Users}
    \cup UNION {ToSet(bufs[u]) : u \in Users}

\* malloc returns b.  Which unused address it is makes no difference.  (Neither is
\* one that was freed while a thread is about to take it: where that can happen
\* the thread finds the mark set, and that is recorded as a race.)
Malloc(b) ==
  /\ b \in Buffers \ Allocated
  /\ \A a \in Buffers \ Allocated : b <= a

\* (D_Suffix before a definition D is a mutant of D.)
\* The position is read and its mark tested ...
AcquireLook(u) ==
  /\ poolPc[u] = "out"
  /\ cur' = [cur EXCEPT ![u] = pos]
  /\ IF acquired[pos]
     THEN /\ \E b \in Buffers : Malloc(b) /\ got' = [got EXCEPT ![u] = b]
          /\ poolPc' = [poolPc EXCEPT ![u] = "search"]
     ELSE /\ got' = [got EXCEPT ![u] = buffer[pos]]
          /\ poolPc' = [poolPc EXCEPT ![u] = "take"]
  /\ UNCHANGED <<buffer, acquired, pos, bufs, races>>

\* ... the buffer marked, and allocated when it is used for the first time ...
AcquireTake_NoMark(u) ==
  /\ poolPc[u] = "take"
  /\ UNCHANGED acquired
  /\ IF got[u] # 0
     THEN UNCHANGED <<got, buffer>>
     ELSE \E b \in Buffers :
            /\ Malloc(b)
            /\ got' = [got EXCEPT ![u] = b]
            /\ buffer' = [buffer EXCEPT ![cur[u]] = b]
  /\ poolPc' = [poolPc EXCEPT ![u] = "search"]
  /\ races' = races \cup (IF acquired[cur[u]] THEN {"twice"} ELSE {})
                    \cup (IF buffer[cur[u]] # got[u] THEN {"replaced"} ELSE {})
  /\ UNCHANGED <<pos, cur, bufs>>

AcquireTake(u) ==
  /\ poolPc[u] = "take"
  /\ acquired' = [acquired EXCEPT ![cur[u]] = TRUE]
  /\ IF got[u] # 0
     THEN UNCHANGED <<got, buffer>>
     ELSE \E b \in Buffers :
            /\ Malloc(b)
            /\ got' = [got EXCEPT ![u] = b]
            /\ buffer' = [buffer EXCEPT ![cur[u]] = b]
  /\ poolPc' = [poolPc EXCEPT ![u] = "search"]
  /\ races' = races \cup (IF acquired[cur[u]] THEN {"twice"} ELSE {})
                    \cup (IF buffer[cur[u]] # got[u] THEN {"replaced"} ELSE {})
  /\ UNCHANGED <<pos, cur, bufs>>

Distance(i) == (i + PoolLen - (pos + 1)) % PoolLen

\* ... and the next free position searched, from the one behind the current
\* position round to where this thread took its buffer.
NextPos_NoWrap(u) ==
  IF pos + 1 \in Entries /\ acquired[pos + 1] THEN cur[u] ELSE pos + 1

NextPos(u) ==
  CHOOSE i \in Entries :
    /\ i = cur[u] \/ ~acquired[i]
    /\ \A j \in Entries :
         j = cur[u] \/ ~acquired[j] => Distance(i) <= Distance(j)

AcquireSearch(u) ==
  /\ poolPc[u] = "search"
  /\ cur' = [cur EXCEPT ![u] = NextPos(u)]
  /\ poolPc' = [poolPc EXCEPT ![u] = "store"]
  /\ UNCHANGED <<buffer, acquired, pos, got, bufs, races>>

AcquireStore(u) ==
  /\ poolPc[u] = "store"
  /\ pos' = cur[u]
  /\ bufs' = [bufs EXCEPT ![u] = Append(@, got[u])]
  /\ got' = [got EXCEPT ![u] = 0]
  /\ cur' = [cur EXCEPT ![u] = 0]
  /\ poolPc' = [poolPc EXCEPT ![u] = "out"]
  /\ UNCHANGED <<buffer, acquired, races>>

Acquire(u) ==
  \/ AcquireTake(u)
  \/ AcquireSearch(u)
  \/ AcquireStore(u)

Release_NextEntry(u) ==
  /\ bufs[u] # <<>>
  /\ poolPc[u] = "out"
  /\ acquired' = [i \in Entries |->
       acquired[i] /\ buffer[(i + 1) % PoolLen] # Head(bufs[u])]
  /\ bufs' = [bufs EXCEPT ![u] = Tail(@)]
  /\ UNCHANGED <<buffer, pos, poolPc, cur, got, races>>

Release_Kept(u) ==
  /\ bufs[u] # <<>>
  /\ poolPc[u] = "out"
  /\ bufs' = [bufs EXCEPT ![u] = Tail(@)]
  /\ UNCHANGED <<buffer, acquired, pos, poolPc, cur, got, races>>

\* buffer_pool_release: a buffer of the ring loses its mark, any other is freed.
Release(u) ==
  /\ bufs[u] # <<>>
  /\ poolPc[u] = "out"
  /\ acquired' = [i \in Entries |-> acquired[i] /\ buffer[i] # Head(bufs[u])]
  /\ bufs' = [bufs EXCEPT ![u] = Tail(@)]
  /\ UNCHANGED <<buffer, pos, poolPc, cur, got, races>>

PoolNext ==
  \E u \in Users : AcquireLook(u) \/ Acquire(u) \/ Release(u)

PoolSpec == PoolInit /\ [][PoolNext]_poolVars

-----------------------------------------------------------------------------
\* Two requests never write to the same buffer, unless two threads have passed
\* the test of one mark before either of them set it.
BuffersAreExclusive ==
  "twice" \notin races =>
    \A u, v \in Users : u # v => InUse(u) \cap InUse(v) = {}

\* When no request is running every buffer of the ring is free again, unless
\* two threads have allocated the buffer of one position.
QuietPoolIsFree ==
  /\ "replaced" \notin races
  /\ \A u \in Users : poolPc[u] = "out" /\ bufs[u] = <<>>
  => \A i \in Entries : ~acquired[i]
=============================================================================
