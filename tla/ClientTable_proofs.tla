--------------------------- MODULE ClientTable_proofs ---------------------------
(***************************************************************************)
(* Proofs about ClientTable, for every number of connections and slots.    *)
(***************************************************************************)
EXTENDS ClientTable, FiniteSetTheorems, TLAPS

\* clients_close starts at the first slot.
CloseAtFirst == closePc = "off" => closeAt = 0

\* The inductive type invariant.
TypeInv == TypeOK /\ CloseAtFirst

\* The counter and the slots keep each other in step: CountIsExact needs to
\* know that the slot remove_client empties was occupied, which SlotsAreOwned
\* says as long as clients_close does not run.
TableInv ==
  /\ SlotsAreOwned
  /\ CountIsExact
  /\ CountNeverHigh

-----------------------------------------------------------------------------
(* Lemmas.                                                                  *)

\* The set of occupied slots is finite.
LEMMA OccupiedIsFinite == IsFiniteSet(Occupied) /\ Cardinality(Occupied) \in Nat
<1>1. IsFiniteSet(Slots)
  BY FS_Interval, ClientTableAssumption DEF Slots
<1>2. Occupied \subseteq Slots
  BY DEF Occupied
<1>3. IsFiniteSet(Occupied)
  BY <1>1, <1>2, FS_Subset
<1>4. QED
  BY <1>3, FS_CardinalityType

\* Filling a free slot adds one to the number of occupied ones.
LEMMA FillSlot ==
  ASSUME TypeOK, NEW n \in Slots, slot[n] = None, NEW c \in Conns,
         slot' = [slot EXCEPT ![n] = c]
  PROVE  Cardinality(Occupied') = Cardinality(Occupied) + 1
<1>1. Occupied' = Occupied \cup {n} /\ n \notin Occupied
  BY ClientTableAssumption DEF Occupied, TypeOK
<1>2. QED
  BY <1>1, OccupiedIsFinite, FS_AddElement

\* Emptying a slot takes one away if it was occupied.
LEMMA EmptySlot ==
  ASSUME TypeOK, NEW n \in Slots, slot' = [slot EXCEPT ![n] = None]
  PROVE  Cardinality(Occupied') =
           Cardinality(Occupied) - (IF slot[n] = None THEN 0 ELSE 1)
<1>1. Occupied' = Occupied \ {n} /\ (n \in Occupied <=> slot[n] # None)
  BY DEF Occupied, TypeOK
<1>2. QED
  BY <1>1, OccupiedIsFinite, FS_RemoveElement

\* The same slots occupied, the same number of them.
LEMMA SameSlots ==
  ASSUME slot' = slot
  PROVE  Occupied' = Occupied /\ Cardinality(Occupied') = Cardinality(Occupied)
BY DEF Occupied

-----------------------------------------------------------------------------
(* Type correctness.                                                        *)

\* clients_close never looks at a slot behind the last one, and no thread puts
\* anything but its websocket into a slot.
LEMMA TypeInvCorrect == Spec => []TypeInv
<1> USE ClientTableAssumption DEF TypeInv, TypeOK, CloseAtFirst, Slots
<1>1. Init => TypeInv
  <2> SUFFICES ASSUME Init
               PROVE  TypeInv
    OBVIOUS
  <2>1. /\ slot \in [Slots -> Conns \cup {None}]
        /\ numActive \in Int
        /\ index \in [Conns -> Slots]
        /\ phase \in [Conns -> {"out", "in", "removed"}]
    BY DEF Init, TableInit
  <2>2. closePc = "off" /\ closeAt = 0 /\ closeAt \in 0 .. MaxClients
    BY DEF Init, CloseInit
  <2>3. closeFault \in BOOLEAN /\ closeWs \in Conns \cup {None}
    BY DEF Init, CloseInit
  <2>4. QED
    BY <2>1, <2>2, <2>3
<1>2. TypeInv /\ [Next]_vars => TypeInv'
  <2> SUFFICES ASSUME TypeInv, [Next]_vars
               PROVE  TypeInv'
    OBVIOUS
  <2>1. ASSUME NEW c \in Conns, Connect(c)
        PROVE  TypeInv'
    BY <2>1 DEF Connect, Admit, IsFirstFree, closeVars
  <2>2. ASSUME NEW c \in Conns, Refuse(c)
        PROVE  TypeInv'
    BY <2>2 DEF Refuse, vars, tableVars, closeVars
  <2>3. ASSUME NEW c \in Conns, Disconnect(c)
        PROVE  TypeInv'
    BY <2>3 DEF Disconnect, Release, closeVars
  <2>4. ASSUME NEW c \in Conns, CheckLast(c)
        PROVE  TypeInv'
    BY <2>4 DEF CheckLast, Freed, tableVars
  <2>5. CASE CloseStart /\ UNCHANGED phase
    BY <2>5 DEF CloseStart, tableVars
  <2>6. CASE ClosePeek /\ UNCHANGED phase
    BY <2>6 DEF ClosePeek, CloseNext, tableVars
  <2>7. CASE CloseClear /\ UNCHANGED phase
    <3>1. closeAt \in Slots /\ UNCHANGED <<index, phase, closeAt, closeWs>>
      BY <2>7 DEF CloseClear, tableVars
    <3>2. CASE slot[closeAt] = None
      <4>1. UNCHANGED <<tableVars, closePc>> /\ closeFault' = TRUE
        BY <2>7, <3>2 DEF CloseClear
      <4>2. QED
        BY <3>1, <4>1 DEF tableVars
    <3>3. CASE slot[closeAt] # None
      <4>1. /\ slot' = [slot EXCEPT ![closeAt] = None]
            /\ numActive' = numActive - 1
            /\ closePc' = "bye" /\ closeFault' = closeFault
        BY <2>7, <3>3 DEF CloseClear
      <4>2. QED
        BY <3>1, <4>1
    <3>4. QED
      BY <3>2, <3>3
  <2>8. CASE CloseBye /\ UNCHANGED phase
    <3>1. closeAt \in Slots /\ closePc = "bye" /\ UNCHANGED <<tableVars, phase, closeWs>>
      BY <2>8 DEF CloseBye
    <3>2. /\ closeFault' \in BOOLEAN
          /\ CloseNext \/ (closePc' \in {"bye", "blocked"} /\ closeAt' = closeAt)
      BY <2>8 DEF CloseBye
    <3>3. /\ closeAt' \in 0 .. MaxClients
          /\ closePc' \in {"peek", "done", "bye", "blocked"}
          /\ closePc' # "done" => closeAt' \in Slots
      BY <3>1, <3>2 DEF CloseNext
    <3>4. QED
      BY <3>1, <3>2, <3>3 DEF tableVars
  <2>9. CASE UNCHANGED vars
    BY <2>9 DEF vars, tableVars, closeVars
  <2>10. QED
    BY <2>1, <2>2, <2>3, <2>4, <2>5, <2>6, <2>7, <2>8, <2>9 DEF Next, Close
<1>3. QED
  BY <1>1, <1>2, PTL DEF Spec

\* Every variable keeps its type.
THEOREM TypeCorrect == Spec => []TypeOK
BY TypeInvCorrect, PTL DEF TypeInv

-----------------------------------------------------------------------------
(* The table.                                                               *)

\* Every step keeps slots, indices and the counter in step.
LEMMA TableInvInductive ==
  ASSUME TypeInv, TableInv, [Next]_vars
  PROVE  TableInv'
<1> USE ClientTableAssumption DEF TypeInv, TypeOK, TableInv
<1>1. ASSUME NEW c \in Conns, Connect(c)
      PROVE  TableInv'
  <2>1. PICK n \in Slots : Admit(c, n)
    BY <1>1 DEF Connect
  <2>2. /\ slot[n] = None
        /\ slot' = [slot EXCEPT ![n] = c]
        /\ numActive' = numActive + 1
        /\ index' = [index EXCEPT ![c] = n]
        /\ phase[c] = "out" /\ phase' = [phase EXCEPT ![c] = "in"]
        /\ closePc' = closePc
    BY <1>1, <2>1 DEF Connect, Admit, IsFirstFree, closeVars
  <2>3. Cardinality(Occupied') = Cardinality(Occupied) + 1
    BY <2>2, FillSlot
  <2>4. SlotsAreOwned'
    <3> SUFFICES ASSUME closePc = "off"
                 PROVE  SlotsAreOwned'
      BY <2>2 DEF SlotsAreOwned
    <3>1. ASSUME NEW d \in Conns, phase'[d] = "in"
          PROVE  slot'[index'[d]] = d
      BY <2>2, <3>1 DEF SlotsAreOwned
    <3>2. ASSUME NEW i \in Slots, slot'[i] # None
          PROVE  phase'[slot'[i]] = "in" /\ index'[slot'[i]] = i
      BY <2>2, <3>2 DEF SlotsAreOwned
    <3>3. QED
      BY <3>1, <3>2 DEF SlotsAreOwned
  <2>5. QED
    BY <2>2, <2>3, <2>4, OccupiedIsFinite DEF CountIsExact, CountNeverHigh
<1>2. ASSUME NEW c \in Conns, Disconnect(c)
      PROVE  TableInv'
  <2> DEFINE n == index[c]
  <2>1. /\ n \in Slots
        /\ slot' = [slot EXCEPT ![n] = None]
        /\ numActive' = numActive - 1
        /\ index' = index
        /\ phase[c] = "in" /\ phase' = [phase EXCEPT ![c] = "removed"]
        /\ closePc' = closePc
    BY <1>2 DEF Disconnect, Release, closeVars
  <2>2. Cardinality(Occupied') = Cardinality(Occupied) - (IF slot[n] = None THEN 0 ELSE 1)
    BY <2>1, EmptySlot
  <2>3. closePc = "off" => slot[n] = c
    BY <2>1 DEF SlotsAreOwned
  <2>4. SlotsAreOwned'
    <3> SUFFICES ASSUME closePc = "off"
                 PROVE  SlotsAreOwned'
      BY <2>1 DEF SlotsAreOwned
    <3>1. ASSUME NEW d \in Conns, phase'[d] = "in"
          PROVE  slot'[index'[d]] = d
      BY <2>1, <2>3, <3>1 DEF SlotsAreOwned
    <3>2. ASSUME NEW i \in Slots, slot'[i] # None
          PROVE  phase'[slot'[i]] = "in" /\ index'[slot'[i]] = i
      BY <2>1, <2>3, <3>2 DEF SlotsAreOwned
    <3>3. QED
      BY <3>1, <3>2 DEF SlotsAreOwned
  <2>5. QED
    BY <2>1, <2>2, <2>3, <2>4, OccupiedIsFinite DEF CountIsExact, CountNeverHigh
<1>3. CASE CloseClear /\ UNCHANGED phase
  <2>1. closePc = "clear" /\ closeAt \in Slots
    BY <1>3 DEF CloseClear
  <2>2. closePc' # "off"
    BY <1>3, <2>1 DEF CloseClear
  <2>3. CASE slot[closeAt] = None
    BY <1>3, <2>2, <2>3, SameSlots
    DEF CloseClear, tableVars, SlotsAreOwned, CountIsExact, CountNeverHigh
  <2>4. CASE slot[closeAt] # None
    <3>1. slot' = [slot EXCEPT ![closeAt] = None] /\ numActive' = numActive - 1
      BY <1>3, <2>4 DEF CloseClear
    <3>2. Cardinality(Occupied') = Cardinality(Occupied) - 1
      BY <2>1, <2>4, <3>1, EmptySlot
    <3>3. QED
      BY <2>2, <3>1, <3>2, OccupiedIsFinite
      DEF SlotsAreOwned, CountIsExact, CountNeverHigh
  <2>5. QED
    BY <2>3, <2>4
<1>4. ASSUME NEW c \in Conns, CheckLast(c)
      PROVE  TableInv'
  <2>1. /\ UNCHANGED <<slot, numActive, index, closePc>>
        /\ phase[c] = "removed" /\ phase' = [phase EXCEPT ![c] = "out"]
    BY <1>4 DEF CheckLast, tableVars
  <2>2. SlotsAreOwned'
    BY <2>1 DEF SlotsAreOwned
  <2>3. QED
    BY <2>1, <2>2, SameSlots DEF CountIsExact, CountNeverHigh
<1>5. CASE UNCHANGED <<slot, numActive, index, phase>> /\ (closePc' # "off" \/ closePc' = closePc)
  BY <1>5, SameSlots DEF SlotsAreOwned, CountIsExact, CountNeverHigh
<1>6. QED
  <2>1. ASSUME NEW c \in Conns, Refuse(c)
        PROVE  TableInv'
    BY <2>1, <1>5 DEF Refuse, vars, tableVars, closeVars
  <2>2. CASE CloseStart /\ UNCHANGED phase
    BY <2>2, <1>5 DEF CloseStart, tableVars
  <2>3. CASE ClosePeek /\ UNCHANGED phase
    BY <2>3, <1>5 DEF ClosePeek, CloseNext, tableVars
  <2>4. CASE CloseBye /\ UNCHANGED phase
    BY <2>4, <1>5 DEF CloseBye, CloseNext, tableVars
  <2>5. CASE UNCHANGED vars
    BY <2>5, <1>5 DEF vars, tableVars, closeVars
  <2>6. QED
    BY <1>1, <1>2, <1>3, <1>4, <2>1, <2>2, <2>3, <2>4, <2>5 DEF Next, Close

LEMMA TableInvCorrect == Spec => []TableInv
<1>1. Init => TableInv
  <2> SUFFICES ASSUME Init
               PROVE  TableInv
    OBVIOUS
  <2>1. Occupied = {}
    BY DEF Init, TableInit, Occupied
  <2>2. Cardinality(Occupied) = 0
    BY <2>1, FS_EmptySet
  <2>3. QED
    BY <2>2
    DEF Init, TableInit, TableInv, SlotsAreOwned, CountIsExact, CountNeverHigh
<1>2. QED
  BY <1>1, TableInvInductive, TypeInvCorrect, PTL DEF Spec

\* Until the program ends, every connection that is in has a slot of its own and
\* every occupied slot its connection: the assertions on client->ws hold.
THEOREM SlotsCorrect == Spec => []SlotsAreOwned
BY TableInvCorrect, PTL DEF TableInv

\* Until the program ends, num_active_clients is the number of occupied slots.
THEOREM CountCorrect == Spec => []CountIsExact
BY TableInvCorrect, PTL DEF TableInv

\* Not even clients_close makes num_active_clients exceed it.
THEOREM CountBounded == Spec => []CountNeverHigh
BY TableInvCorrect, PTL DEF TableInv

-----------------------------------------------------------------------------
(* Who empties a slot.                                                      *)

\* A connection whose slot clients_close has not reached still has that slot:
\* the part of SlotsAreOwned that survives the start of clients_close.
OwnedAhead ==
  \A c \in Conns : phase[c] = "in" /\ ~Passed(index[c]) => slot[index[c]] = c

LEMMA OwnedAheadInductive ==
  ASSUME TypeInv, OwnedAhead, [Next]_vars
  PROVE  OwnedAhead'
<1> USE ClientTableAssumption DEF TypeInv, TypeOK, OwnedAhead
\* clients_close never comes back to a slot.
<1>1. ASSUME NEW i \in Slots, Passed(i)
      PROVE  Passed(i)'
  <2> USE DEF Slots, Passed
  <2>1. CASE Close
    BY <1>1, <2>1 DEF Close, CloseStart, ClosePeek, CloseClear, CloseBye, CloseNext
  <2>2. CASE UNCHANGED <<closePc, closeAt>>
    BY <1>1, <2>2
  <2>3. QED
    BY <2>1, <2>2
    DEF Next, Connect, Refuse, Disconnect, CheckLast, vars, closeVars
<1>2. CASE UNCHANGED <<slot, index, phase>>
  BY <1>1, <1>2
<1>3. ASSUME NEW c \in Conns, Connect(c)
      PROVE  OwnedAhead'
  <2>1. PICK n \in Slots : Admit(c, n)
    BY <1>3 DEF Connect
  <2>2. /\ slot[n] = None /\ slot' = [slot EXCEPT ![n] = c]
        /\ index' = [index EXCEPT ![c] = n]
        /\ phase' = [phase EXCEPT ![c] = "in"]
    BY <1>3, <2>1 DEF Connect, Admit, IsFirstFree
  <2>3. ASSUME NEW d \in Conns, d # c, phase'[d] = "in", ~Passed(index[d])'
        PROVE  slot'[index'[d]] = d
    <3>1. index'[d] = index[d] /\ phase[d] = "in"
      BY <2>2, <2>3
    <3>2. ~Passed(index[d])
      BY <1>1, <2>3, <3>1 DEF Passed
    <3>3. slot[index[d]] = d /\ index[d] # n
      BY <2>2, <3>1, <3>2
    <3>4. QED
      BY <2>2, <3>1, <3>3
  <2>4. slot'[index'[c]] = c
    BY <2>2
  <2>5. QED
    BY <2>3, <2>4
<1>4. ASSUME NEW c \in Conns, Disconnect(c)
      PROVE  OwnedAhead'
  <2>1. /\ slot' = [slot EXCEPT ![index[c]] = None] /\ index' = index
        /\ phase[c] = "in" /\ phase' = [phase EXCEPT ![c] = "removed"]
        /\ UNCHANGED <<closePc, closeAt>>
    BY <1>4 DEF Disconnect, Release, closeVars
  <2>2. ASSUME NEW d \in Conns, phase'[d] = "in", ~Passed(index[d])
        PROVE  slot'[index[d]] = d
    <3>1. d # c /\ phase[d] = "in" /\ slot[index[d]] = d
      BY <2>1, <2>2
    <3>2. index[c] # index[d]
      BY <2>1, <2>2, <3>1
    <3>3. QED
      BY <2>1, <3>1, <3>2
  <2>3. QED
    BY <2>1, <2>2 DEF Passed
<1>5. ASSUME NEW c \in Conns, CheckLast(c)
      PROVE  OwnedAhead'
  BY <1>1, <1>5 DEF CheckLast, tableVars
<1>6. CASE CloseClear /\ UNCHANGED phase
  <2>1. closeAt \in Slots /\ closeAt' = closeAt /\ UNCHANGED <<index, phase>>
    BY <1>6 DEF CloseClear, tableVars
  <2>2. CASE slot[closeAt] = None
    BY <1>2, <1>6, <2>1, <2>2 DEF CloseClear, tableVars
  <2>3. CASE slot[closeAt] # None
    <3>1. slot' = [slot EXCEPT ![closeAt] = None] /\ Passed(closeAt)'
      BY <1>6, <2>1, <2>3 DEF CloseClear, Passed
    <3>2. QED
      BY <1>1, <2>1, <3>1
  <2>4. QED
    BY <2>2, <2>3
<1>7. QED
  BY <1>2, <1>3, <1>4, <1>5, <1>6
  DEF Next, Close, CloseStart, ClosePeek, CloseBye, Refuse, vars, tableVars

LEMMA OwnedAheadCorrect == Spec => []OwnedAhead
<1>1. Init => OwnedAhead
  BY DEF Init, OwnedAhead
<1>2. QED
  BY <1>1, OwnedAheadInductive, TypeInvCorrect, PTL DEF Spec

\* A slot is emptied by its own connection or by clients_close standing at it,
\* and behind clients_close also by a connection that had the slot before.
THEOREM SlotFreedCorrect == Spec => SlotFreedByOwner
<1>1. ASSUME TypeInv, OwnedAhead, [Next]_vars,
             NEW i \in Slots, slot[i] # None, slot'[i] # slot[i]
      PROVE  /\ slot'[i] = None
             /\ \/ closePc = "clear" /\ closeAt = i
                \/ \E c \in Conns : /\ Leaves(c) /\ index[c] = i
                                    /\ c = slot[i] \/ Passed(i)
  <2> USE ClientTableAssumption DEF TypeInv, TypeOK
  <2>1. ASSUME NEW c \in Conns, Connect(c)
        PROVE  FALSE
    BY <1>1, <2>1 DEF Connect, Admit, IsFirstFree
  <2>2. ASSUME NEW c \in Conns, Disconnect(c)
        PROVE  /\ slot'[i] = None /\ Leaves(c) /\ index[c] = i
               /\ c = slot[i] \/ Passed(i)
    <3>1. i = index[c] /\ slot'[i] = None
      BY <1>1, <2>2 DEF Disconnect, Release
    <3>2. phase[c] = "in" /\ phase'[c] = "removed"
      BY <1>1, <2>2 DEF Disconnect
    <3>3. slot[i] = c \/ Passed(i)
      BY <1>1, <3>1, <3>2 DEF OwnedAhead
    <3>4. QED
      BY <3>1, <3>2, <3>3 DEF Leaves
  <2>3. CASE CloseClear
    <3>1. closePc = "clear" /\ slot[closeAt] # None
      BY <1>1, <2>3 DEF CloseClear, tableVars
    <3>2. slot' = [slot EXCEPT ![closeAt] = None]
      BY <2>3, <3>1 DEF CloseClear
    <3>3. QED
      BY <1>1, <3>1, <3>2
  <2>4. CASE slot' = slot
    BY <1>1, <2>4
  <2>5. QED
    BY <1>1, <2>1, <2>2, <2>3, <2>4
    DEF Next, Close, CloseStart, ClosePeek, CloseBye, Refuse, CheckLast, vars, tableVars
<1>2. TypeInv /\ OwnedAhead /\ [Next]_vars =>
        [\A i \in Slots : slot[i] # None /\ slot'[i] # slot[i] =>
           /\ slot'[i] = None
           /\ \/ closePc = "clear" /\ closeAt = i
              \/ \E c \in Conns : /\ Leaves(c) /\ index[c] = i
                                  /\ c = slot[i] \/ Passed(i)]_vars
  BY <1>1
<1>3. QED
  BY <1>2, TypeInvCorrect, OwnedAheadCorrect, PTL DEF Spec, SlotFreedByOwner
=============================================================================
