---------------------------- MODULE WsStatus_proofs ----------------------------
(***************************************************************************)
(* Proofs about WsStatus, for every number of connections, slots and       *)
(* properties, whatever mpv and the end of the program do.                 *)
(*                                                                         *)
(* The composition is first shown to implement its parts.  What is proved  *)
(* about ClientTable and PropertyStatus then holds here as well, and the   *)
(* invariants that relate the parts are proved on top of it.               *)
(***************************************************************************)
EXTENDS WsStatus, FiniteSetTheorems, TLAPS

\* The parts, with what is proved about them.
TableProofs == INSTANCE ClientTable_proofs
  WITH phase <- [c \in Conns |-> Phase(pc[c])]
StatusProofs == INSTANCE PropertyStatus_proofs
  WITH fault <- IF fault \in {"unobserve", "reset"} THEN fault ELSE "none"

\* Every thread is at one of its places.
PcOK == pc \in [Conns -> PcValues]

-----------------------------------------------------------------------------
(* What the steps leave alone.                                              *)

\* A connection thread that does not start or stop the observation leaves the
\* property status and the event loop alone, unless it fails.
LEMMA ThreadStep ==
  ASSUME NEW c \in Conns,
         \/ Connect(c) \/ Refuse(c) \/ Admit(c) \/ AssertOwner(c)
         \/ LockClient(c) \/ Hello(c) \/ LaterClient(c) \/ EndWait(c)
         \/ BuildFull(c) \/ PushStatus(c) \/ Receive(c) \/ Read(c) \/ Command(c)
         \/ Reply(c) \/ Leave(c) \/ Remove(c) \/ CheckLast(c)
  PROVE  UNCHANGED <<statusVars, mpvVars, loopVars>>
         /\ (fault' = fault \/ fault' \in {"owner", "nulljson", "push", "nullws"})
BY DEF Connect, Refuse, Admit, AssertOwner, LockClient, Hello, LaterClient, EndWait,
       BuildFull, PushStatus, Receive, Read, Command, Reply, Leave, Remove, CheckLast,
       Abort, eventVars

\* So do the deliveries and clients_close.
LEMMA DeliveryStep ==
  ASSUME Peek \/ Write \/ CloseStart \/ ClosePeek \/ CloseLock \/ CloseClear \/ CloseBye
  PROVE  UNCHANGED <<statusVars, mpvVars, loopVars>>
         /\ (fault' = fault \/ fault' = "nullws")
BY DEF Peek, Write, CloseStart, ClosePeek, CloseLock, CloseClear, CloseBye, Abort, eventVars

-----------------------------------------------------------------------------
(* The composition implements PropertyStatus.                               *)

\* The numbers of elements are the same in every instance.
LEMMA SameCardinality ==
  \A S : /\ Status!Cardinality(S) = Cardinality(S)
         /\ StatusRef!Cardinality(S) = Cardinality(S)
         /\ StatusProofs!Cardinality(S) = Cardinality(S)
         /\ Table!Cardinality(S) = Cardinality(S)
         /\ TableProofs!Cardinality(S) = Cardinality(S)
BY DEF Cardinality, Status!Cardinality, StatusRef!Cardinality,
       StatusProofs!Cardinality, Table!Cardinality, TableProofs!Cardinality

\* Every step is a step of the property status or leaves it alone.
LEMMA StatusStep ==
  ASSUME [Next]_vars
  PROVE  [StatusRef!Next]_(StatusRef!vars)
<1> USE DEF statusVars, mpvVars, loopVars, eventVars,
      Status!vars, Status!statusVars, Status!flagVars, Status!countVars,
      Status!mpvVars, Status!loopVars,
      StatusRef!vars, StatusRef!statusVars, StatusRef!flagVars,
      StatusRef!countVars, StatusRef!mpvVars, StatusRef!loopVars
<1>1. CASE UNCHANGED vars
  BY <1>1 DEF vars
<1>2. ASSUME fault = "none",
             UNCHANGED <<statusVars, mpvVars, loopVars>>,
             fault' = fault \/ fault' \in {"owner", "nulljson", "push", "nullws", "multiple"}
      PROVE  UNCHANGED StatusRef!vars
  BY <1>2
<1>3. ASSUME fault = "none", EventStep
      PROVE  StatusRef!Next
  <2> USE <1>3, SameCardinality DEF StatusRef!Next, StatusRef!EventThread
  <2>1. CASE Status!TakePause
    BY <2>1 DEF Status!TakePause, StatusRef!TakePause
  <2>2. CASE Status!TakeTrackSwitched
    BY <2>2 DEF Status!TakeTrackSwitched, StatusRef!TakeTrackSwitched,
                Status!Unobserved, StatusRef!Unobserved
  <2>3. CASE Status!Reobserve
    BY <2>3 DEF Status!Reobserve, StatusRef!Reobserve, Status!Observed, StatusRef!Observed
  <2>4. ASSUME NEW p \in Props, Status!TakeChange(p)
        PROVE  StatusRef!Next
    <3>1. StatusRef!TakeChange(p)
      BY <2>4 DEF Status!TakeChange, StatusRef!TakeChange
    <3>2. QED
      BY <3>1
  <2>5. CASE Status!SetInitialized
    BY <2>5 DEF Status!SetInitialized, StatusRef!SetInitialized
  <2>6. CASE Status!CheckUpdated
    BY <2>6 DEF Status!CheckUpdated, StatusRef!CheckUpdated
  <2>7. CASE Status!CheckInitialized
    BY <2>7 DEF Status!CheckInitialized, StatusRef!CheckInitialized
  <2>8. ASSUME NEW lapsed \in SUBSET held, Status!SearchReady(lapsed)
        PROVE  StatusRef!Next
    <3>1. Status!Due(lapsed) = StatusRef!Due(lapsed)
      BY DEF Status!Due, StatusRef!Due
    <3>2. StatusRef!SearchReady(lapsed)
      BY <2>8, <3>1 DEF Status!SearchReady, StatusRef!SearchReady
    <3>3. QED
      BY <3>2
  <2>9. CASE Status!CountReady
    BY <2>9 DEF Status!CountReady, StatusRef!CountReady
  <2>10. CASE Status!ResetReady
    BY <2>10 DEF Status!ResetReady, StatusRef!ResetReady
  <2>11. QED
    BY <2>1, <2>2, <2>3, <2>4, <2>5, <2>6, <2>7, <2>8, <2>9, <2>10 DEF EventStep
<1>4. ASSUME fault = "none", Update
      PROVE  StatusRef!Next
  <2>1. StatusRef!PropertyUpdate
    BY <1>4, SameCardinality
    DEF Update, Status!PropertyUpdate, StatusRef!PropertyUpdate, Status!IsFirst,
        StatusRef!IsFirst, Status!IsUpdate, StatusRef!IsUpdate,
        Status!AllInitialized, StatusRef!AllInitialized, Status!NoProp, StatusRef!NoProp
  <2>2. QED
    BY <1>4, <2>1 DEF StatusRef!Next, StatusRef!EventThread
<1>5. ASSUME fault = "none", BeginSend
      PROVE  StatusRef!Next
  BY <1>5 DEF BeginSend, Status!ParseReady, StatusRef!ParseReady, Status!Parsed,
              StatusRef!Parsed, StatusRef!Next, StatusRef!EventThread
<1>6. ASSUME fault = "none", EndSend
      PROVE  StatusRef!Next
  BY <1>6 DEF EndSend, Status!Delivered, StatusRef!Delivered,
              StatusRef!Next, StatusRef!EventThread
<1>7. ASSUME fault = "none", NEW c \in Conns, FirstClient(c)
      PROVE  [StatusRef!Next]_(StatusRef!vars)
  <2>1. CASE is_observed
    BY <1>2, <1>7, <2>1 DEF FirstClient, Abort
  <2>2. CASE ~is_observed
    <3>1. StatusRef!StatusObserve
      BY <1>7, <2>2 DEF FirstClient, Status!StatusObserve, StatusRef!StatusObserve,
                        Status!Observed, StatusRef!Observed
    <3>2. QED
      BY <1>7, <3>1 DEF StatusRef!Next, StatusRef!HttpThreads
  <2>3. QED
    BY <2>1, <2>2
<1>8. ASSUME fault = "none", NEW c \in Conns, Unobserve(c)
      PROVE  StatusRef!Next
  <2>1. StatusRef!StatusUnobserve
    BY <1>8 DEF Unobserve, Status!StatusUnobserve, StatusRef!StatusUnobserve,
                Status!Unobserved, StatusRef!Unobserved
  <2>2. QED
    BY <1>8, <2>1 DEF StatusRef!Next, StatusRef!HttpThreads
<1>9. ASSUME fault = "none", Environment
      PROVE  StatusRef!Next
  <2>1. ASSUME NEW p \in Props, Status!Change(p)
        PROVE  StatusRef!Change(p)
    BY <2>1 DEF Status!Change, StatusRef!Change
  <2>2. Status!TogglePause => StatusRef!TogglePause
    BY DEF Status!TogglePause, StatusRef!TogglePause
  <2>3. QED
    BY <1>9, <2>1, <2>2 DEF Environment, Status!Mpv, StatusRef!Mpv, StatusRef!Next
<1>10. QED
  <2> SUFFICES ASSUME Next
               PROVE  [StatusRef!Next]_(StatusRef!vars)
    BY <1>1
  <2>1. fault = "none"
    BY DEF Next
  <2>2. CASE Events
    BY <2>1, <2>2, <1>2, <1>3, <1>4, <1>5, <1>6, DeliveryStep DEF Events
  <2>3. ASSUME NEW c \in Conns,
               Connect(c) \/ Start(c) \/ Receive(c) \/ Answer(c) \/ Leave(c) \/ End(c)
        PROVE  [StatusRef!Next]_(StatusRef!vars)
    BY <2>1, <2>3, <1>2, <1>7, <1>8, ThreadStep DEF Start, Answer, End
  <2>4. QED
    BY <2>1, <2>2, <2>3, <1>9 DEF Next

\* The threads call the operations of the property status, and interleave with
\* the event loop, only in ways PropertyStatus allows: the deliveries, the
\* locks and the failures of the threads are stuttering steps of it.
THEOREM StatusImplemented == Spec => StatusSpec
<1>1. Init => StatusRef!Init
  BY DEF Init, Status!Init, StatusRef!Init, Status!NoProp, StatusRef!NoProp
<1>2. QED
  BY <1>1, StatusStep, PTL DEF Spec, StatusSpec, StatusRef!Spec

-----------------------------------------------------------------------------
(* The composition implements ClientTable.                                  *)

\* A thread that goes to another place of the same phase stutters there.
LEMMA SamePhase ==
  ASSUME PcOK, NEW c \in Conns, NEW to, pc' = [pc EXCEPT ![c] = to],
         Phase(to) = Phase(pc[c])
  PROVE  [d \in Conns |-> Phase(pc[d])]' = [d \in Conns |-> Phase(pc[d])]
<1>1. \A d \in Conns : Phase(pc'[d]) = Phase(pc[d])
  BY DEF PcOK
<1>2. QED
  BY <1>1

\* Otherwise its own phase changes and no other.
LEMMA NewPhase ==
  ASSUME PcOK, NEW c \in Conns, NEW to, pc' = [pc EXCEPT ![c] = to]
  PROVE  [d \in Conns |-> Phase(pc[d])]' =
           [[d \in Conns |-> Phase(pc[d])] EXCEPT ![c] = Phase(to)]
<1>1. \A d \in Conns : Phase(pc'[d]) = IF d = c THEN Phase(to) ELSE Phase(pc[d])
  BY DEF PcOK
<1>2. QED
  BY <1>1

\* The steps of one thread through its handlers.
LEMMA PcStep ==
  ASSUME PcOK, [Next]_vars
  PROVE  PcOK'
<1> USE DEF PcOK, PcValues, Goto
<1>1. CASE UNCHANGED pc
  BY <1>1
<1>2. ASSUME NEW c \in Conns,
             Connect(c) \/ Start(c) \/ Receive(c) \/ Answer(c) \/ Leave(c) \/ End(c)
      PROVE  PcOK'
  BY <1>2 DEF Start, Answer, End, Connect, Refuse, Admit, AssertOwner, LockClient, Hello,
    FirstClient, LaterClient, EndWait, BuildFull, PushStatus, Receive, Read, Command, Reply,
    Leave, Remove, CheckLast, Unobserve, Abort
<1>3. CASE Environment \/ Events
  BY <1>1, <1>3 DEF Environment, Events, EventStep, Update, BeginSend, Peek, Write, EndSend,
    CloseStart, ClosePeek, CloseLock, CloseClear, CloseBye, Abort
<1>4. QED
  BY <1>1, <1>2, <1>3 DEF Next, vars

LEMMA PcCorrect == Spec => []PcOK
<1>1. Init => PcOK
  BY DEF Init, PcOK, PcValues
<1>2. QED
  BY <1>1, PcStep, PTL DEF Spec

\* Every step is a step of the table or leaves it alone.
LEMMA TableStep ==
  ASSUME PcOK, [Next]_vars
  PROVE  [Table!Next]_(Table!vars)
<1> USE DEF tableVars, closeVars, Table!vars, Table!tableVars, Table!closeVars, Goto
<1>1. ASSUME UNCHANGED <<tableVars, closeVars, pc>>
      PROVE  UNCHANGED Table!vars
  BY <1>1
<1>2. ASSUME NEW c \in Conns, NEW to, UNCHANGED <<tableVars, closeVars>>,
             pc' = [pc EXCEPT ![c] = to], Phase(to) = Phase(pc[c])
      PROVE  UNCHANGED Table!vars
  BY <1>2, SamePhase
<1>3. ASSUME NEW c \in Conns, Connect(c) \/ Refuse(c)
      PROVE  UNCHANGED Table!vars
  BY <1>2, <1>3 DEF Connect, Refuse, Phase
<1>4. ASSUME ~closeFault, NEW c \in Conns, Admit(c)
      PROVE  Table!Next
  <2>1. PICK n \in Slots : Table!Admit(c, n)
    BY <1>4 DEF Admit
  <2>2. pc[c] = "adding" /\ pc' = [pc EXCEPT ![c] = "admitted"] /\ UNCHANGED closeVars
    BY <1>4 DEF Admit
  <2>3. Table!Connect(c)
    BY <2>1, <2>2, NewPhase DEF Table!Connect, Phase, Slots
  <2>4. QED
    BY <1>4, <2>3 DEF Table!Next
<1>5. ASSUME ~closeFault, NEW c \in Conns, Remove(c)
      PROVE  Table!Next
  <2>1. /\ pc[c] = "removing" /\ pc' = [pc EXCEPT ![c] = "removed"]
        /\ UNCHANGED closeVars /\ Table!Release(c)
    BY <1>5 DEF Remove
  <2>2. Table!Disconnect(c)
    BY <2>1, NewPhase DEF Table!Disconnect, Phase
  <2>3. QED
    BY <1>5, <2>2 DEF Table!Next
<1>6. ASSUME ~closeFault, NEW c \in Conns, Freed(c),
             UNCHANGED <<tableVars, closePc, closeAt, closeFault>>,
             pc[c] \in {"removed", "unobserve"}, pc' = [pc EXCEPT ![c] = "idle"]
      PROVE  Table!Next
  <2>1. Table!CheckLast(c)
    BY <1>6, NewPhase DEF Table!CheckLast, Freed, Phase
  <2>2. QED
    BY <1>6, <2>1 DEF Table!Next
<1>7. ASSUME ~closeFault, NEW c \in Conns, CheckLast(c) \/ Unobserve(c)
      PROVE  [Table!Next]_(Table!vars)
  <2>1. CASE CheckLast(c) /\ numActive = 0
    BY <1>2, <2>1 DEF CheckLast, Phase
  <2>2. CASE Unobserve(c) \/ (CheckLast(c) /\ numActive # 0)
    BY <1>6, <1>7, <2>2 DEF CheckLast, Unobserve
  <2>3. QED
    BY <1>7, <2>1, <2>2
<1>8. ASSUME NEW c \in Conns,
             \/ AssertOwner(c) \/ LockClient(c) \/ Hello(c) \/ FirstClient(c)
             \/ LaterClient(c) \/ EndWait(c) \/ BuildFull(c) \/ PushStatus(c)
             \/ Receive(c) \/ Read(c) \/ Command(c) \/ Reply(c) \/ Leave(c)
      PROVE  UNCHANGED Table!vars
  <2>1. CASE PushStatus(c)
    <3>1. UNCHANGED <<tableVars, closePc, closeAt, closeWs, closeFault>>
      BY <2>1 DEF PushStatus, Abort
    <3>2. CASE pc' = pc
      BY <3>1, <3>2
    <3>3. CASE pc' = [pc EXCEPT ![c] = "open"]
      BY <2>1, <3>1, <3>3, SamePhase DEF PushStatus, Phase
    <3>4. QED
      BY <2>1, <3>2, <3>3 DEF PushStatus, Abort
  <2>2. CASE Read(c)
    BY <1>1, <1>2, <2>2 DEF Read, Phase, Abort
  <2>3. CASE \/ AssertOwner(c) \/ LockClient(c) \/ Hello(c) \/ FirstClient(c)
             \/ LaterClient(c) \/ EndWait(c) \/ BuildFull(c)
             \/ Receive(c) \/ Command(c) \/ Reply(c) \/ Leave(c)
    BY <1>1, <1>2, <2>3
    DEF AssertOwner, LockClient, Hello, FirstClient, LaterClient, EndWait, BuildFull,
        Receive, Command, Reply, Leave, Phase, Abort
  <2>4. QED
    BY <1>8, <2>1, <2>2, <2>3
<1>9. ASSUME ~closeFault, Events
      PROVE  [Table!Next]_(Table!vars)
  <2>1. CASE CloseStart \/ ClosePeek \/ CloseClear \/ CloseBye
    BY <1>9, <2>1 DEF CloseStart, ClosePeek, CloseClear, CloseBye, Table!Next, Table!Close
  <2>2. CASE EventStep \/ Update \/ BeginSend \/ Peek \/ Write \/ EndSend \/ CloseLock
    BY <1>1, <2>2
    DEF EventStep, Update, BeginSend, Peek, Write, EndSend, CloseLock, Abort
  <2>3. QED
    BY <1>9, <2>1, <2>2 DEF Events
<1>10. CASE Environment \/ UNCHANGED vars
  BY <1>1, <1>10 DEF Environment, vars
<1>11. QED
  BY <1>3, <1>4, <1>5, <1>7, <1>8, <1>9, <1>10 DEF Next, Start, Answer, End

\* The handlers and clients_close use the table as ClientTable allows: the
\* locks and the messages are stuttering steps of it.
THEOREM TableImplemented == Spec => TableSpec
<1>1. Init => Table!Init
  <2>1. ASSUME Init
        PROVE  [c \in Conns |-> Phase(pc[c])] = [c \in Conns |-> "out"]
    BY <2>1 DEF Init, Phase
  <2>2. QED
    BY <2>1 DEF Init, Table!Init
<1>2. QED
  BY <1>1, TableStep, PcCorrect, PTL DEF Spec, TableSpec, Table!Spec

-----------------------------------------------------------------------------
(* What the parts are known to satisfy.                                     *)

LEMMA PartsAssumptions ==
  TableProofs!ClientTableAssumption /\ StatusProofs!PropsAssumption
BY WsStatusAssumption
DEF TableProofs!ClientTableAssumption, StatusProofs!PropsAssumption,
    StatusProofs!IsFiniteSet, IsFiniteSet

LEMMA SameTable == Table!Spec => TableProofs!Spec
<1> USE DEF Table!vars, Table!tableVars, Table!closeVars, Table!Slots,
      TableProofs!vars, TableProofs!tableVars, TableProofs!closeVars, TableProofs!Slots,
      Table!Occupied, TableProofs!Occupied
<1>1. Table!Init => TableProofs!Init
  BY DEF Table!Init, Table!TableInit, Table!CloseInit,
         TableProofs!Init, TableProofs!TableInit, TableProofs!CloseInit
<1>2. ASSUME Table!Next
      PROVE  TableProofs!Next
  <2>1. ASSUME NEW c, NEW n, Table!Admit(c, n)
        PROVE  TableProofs!Admit(c, n)
    BY <2>1 DEF Table!Admit, TableProofs!Admit, Table!IsFirstFree, TableProofs!IsFirstFree
  <2>2. ASSUME NEW c \in Conns, Table!Connect(c)
        PROVE  TableProofs!Connect(c)
    BY <2>1, <2>2 DEF Table!Connect, TableProofs!Connect
  <2>3. ASSUME NEW c \in Conns, Table!Refuse(c) \/ Table!CheckLast(c)
        PROVE  TableProofs!Refuse(c) \/ TableProofs!CheckLast(c)
    BY <2>3 DEF Table!Refuse, TableProofs!Refuse, Table!CheckLast,
                TableProofs!CheckLast, Table!Full, TableProofs!Full,
                Table!Freed, TableProofs!Freed
  <2>4. ASSUME NEW c \in Conns, Table!Disconnect(c)
        PROVE  TableProofs!Disconnect(c)
    BY <2>4 DEF Table!Disconnect, TableProofs!Disconnect, Table!Release, TableProofs!Release
  <2>5. Table!Close => TableProofs!Close
    BY DEF Table!Close, TableProofs!Close, Table!CloseStart, TableProofs!CloseStart,
           Table!ClosePeek, TableProofs!ClosePeek, Table!CloseClear,
           TableProofs!CloseClear, Table!CloseBye, TableProofs!CloseBye,
           Table!CloseNext, TableProofs!CloseNext
  <2>6. QED
    BY <1>2, <2>2, <2>3, <2>4, <2>5 DEF Table!Next, TableProofs!Next
<1>3. UNCHANGED Table!vars => UNCHANGED TableProofs!vars
  OBVIOUS
<1>4. QED
  BY <1>1, <1>2, <1>3, PTL DEF Table!Spec, TableProofs!Spec

LEMMA SameStatus == StatusRef!Spec => StatusProofs!Spec
<1> USE SameCardinality
    DEF StatusRef!vars, StatusRef!statusVars, StatusRef!flagVars,
      StatusRef!countVars, StatusRef!mpvVars, StatusRef!loopVars,
      StatusProofs!vars, StatusProofs!statusVars, StatusProofs!flagVars,
      StatusProofs!countVars, StatusProofs!mpvVars, StatusProofs!loopVars,
      StatusRef!Observed, StatusProofs!Observed, StatusRef!Unobserved,
      StatusProofs!Unobserved, StatusRef!NoProp, StatusProofs!NoProp
<1>1. StatusRef!Init => StatusProofs!Init
  BY DEF StatusRef!Init, StatusProofs!Init
<1>2. StatusRef!Mpv => StatusProofs!Mpv
  BY DEF StatusRef!Mpv, StatusProofs!Mpv, StatusRef!Change, StatusProofs!Change,
         StatusRef!TogglePause, StatusProofs!TogglePause
<1>3. StatusRef!HttpThreads => StatusProofs!HttpThreads
  BY DEF StatusRef!HttpThreads, StatusProofs!HttpThreads, StatusRef!StatusObserve,
         StatusProofs!StatusObserve, StatusRef!StatusUnobserve,
         StatusProofs!StatusUnobserve
<1>4. ASSUME StatusRef!EventThread
      PROVE  StatusProofs!EventThread
  <2> USE DEF StatusProofs!EventThread
  <2>1. CASE StatusRef!TakePause \/ StatusRef!TakeTrackSwitched \/ StatusRef!Reobserve
    BY <2>1
    DEF StatusRef!TakePause, StatusProofs!TakePause, StatusRef!TakeTrackSwitched,
        StatusProofs!TakeTrackSwitched, StatusRef!Reobserve, StatusProofs!Reobserve
  <2>2. ASSUME NEW p \in Props, StatusRef!TakeChange(p)
        PROVE  StatusProofs!TakeChange(p)
    BY <2>2 DEF StatusRef!TakeChange, StatusProofs!TakeChange
  <2>3. CASE StatusRef!PropertyUpdate
    <3>1. StatusProofs!PropertyUpdate
      BY <2>3 DEF StatusRef!PropertyUpdate, StatusProofs!PropertyUpdate,
        StatusRef!IsFirst, StatusProofs!IsFirst, StatusRef!IsUpdate,
        StatusProofs!IsUpdate, StatusRef!AllInitialized, StatusProofs!AllInitialized
    <3>2. QED
      BY <3>1
  <2>4. CASE StatusRef!SetInitialized \/ StatusRef!CheckUpdated \/ StatusRef!CheckInitialized
    BY <2>4
    DEF StatusRef!SetInitialized, StatusProofs!SetInitialized, StatusRef!CheckUpdated,
        StatusProofs!CheckUpdated, StatusRef!CheckInitialized, StatusProofs!CheckInitialized
  <2>5. ASSUME NEW lapsed \in SUBSET held, StatusRef!SearchReady(lapsed)
        PROVE  StatusProofs!SearchReady(lapsed)
    <3>1. StatusRef!Due(lapsed) = StatusProofs!Due(lapsed)
      BY DEF StatusRef!Due, StatusProofs!Due
    <3>2. QED
      BY <2>5, <3>1 DEF StatusRef!SearchReady, StatusProofs!SearchReady
  <2>6. CASE StatusRef!CountReady \/ StatusRef!ParseReady \/ StatusRef!Delivered
    BY <2>6
    DEF StatusRef!CountReady, StatusProofs!CountReady, StatusRef!ParseReady,
        StatusProofs!ParseReady, StatusRef!Parsed, StatusProofs!Parsed,
        StatusRef!Delivered, StatusProofs!Delivered
  <2>7. CASE StatusRef!ResetReady
    BY <2>7 DEF StatusRef!ResetReady, StatusProofs!ResetReady
  <2>8. QED
    BY <1>4, <2>1, <2>2, <2>3, <2>4, <2>5, <2>6, <2>7 DEF StatusRef!EventThread
<1>5. StatusRef!Next => StatusProofs!Next
  BY <1>2, <1>3, <1>4 DEF StatusRef!Next, StatusProofs!Next
<1>6. UNCHANGED StatusRef!vars => UNCHANGED StatusProofs!vars
  OBVIOUS
<1>7. QED
  BY <1>1, <1>5, <1>6, PTL DEF StatusRef!Spec, StatusProofs!Spec

\* A thread that is "in" the table.
In(c) == Phase(pc[c]) = "in"

\* What the proofs below need of the table ...
SlotsOwned ==
  closePc = "off" =>
    /\ \A c \in Conns : In(c) => slot[index[c]] = c
    /\ \A i \in Slots : slot[i] # None => In(slot[i]) /\ index[slot[i]] = i
    /\ numActive = Cardinality(Table!Occupied)

TableOK ==
  /\ PcOK
  /\ Table!TypeOK
  /\ SlotsOwned

\* ... and of the property status.
StatusOK ==
  /\ initialized \subseteq Props /\ updated \subseteq Props /\ ready \subseteq Props
  /\ json \in [Props -> {"null", "old", "stale", "current"}]
  /\ evpc = "update" => evt \in Props
  /\ StatusProofs!SendInv

LEMMA PartsCorrect == Spec => [](TableOK /\ StatusOK)
<1>1. Spec => [](TableProofs!TypeOK /\ TableProofs!SlotsAreOwned /\ TableProofs!CountIsExact)
  BY TableImplemented, SameTable, PartsAssumptions, TableProofs!TypeCorrect,
     TableProofs!SlotsCorrect, TableProofs!CountCorrect, PTL DEF TableSpec
<1>2. Spec => [](StatusProofs!TypeOK /\ StatusProofs!SendInv)
  BY StatusImplemented, SameStatus, PartsAssumptions, StatusProofs!TypeCorrect,
     StatusProofs!SendInvCorrect, PTL DEF StatusSpec
<1>3. ASSUME PcOK, TableProofs!TypeOK, TableProofs!SlotsAreOwned, TableProofs!CountIsExact
      PROVE  TableOK
  <2>1. Table!TypeOK
    BY <1>3 DEF Table!TypeOK, TableProofs!TypeOK, Table!Slots, TableProofs!Slots
  <2>2. Table!Occupied = TableProofs!Occupied
    BY DEF Table!Occupied, TableProofs!Occupied, Table!Slots, TableProofs!Slots
  <2>3. ASSUME closePc = "off"
        PROVE  /\ \A c \in Conns : In(c) => slot[index[c]] = c
               /\ \A i \in Slots : slot[i] # None => In(slot[i]) /\ index[slot[i]] = i
    <3>1. \A i \in Slots : slot[i] # None => slot[i] \in Conns
      BY <2>1 DEF Table!TypeOK, Slots
    <3>2. QED
      BY <1>3, <2>3, <3>1
      DEF TableProofs!SlotsAreOwned, In, Slots, Table!Slots, TableProofs!Slots
  <2>4. closePc = "off" => numActive = Cardinality(Table!Occupied)
    BY <1>3, <2>2, SameCardinality DEF TableProofs!CountIsExact
  <2>5. QED
    BY <1>3, <2>1, <2>3, <2>4 DEF TableOK, SlotsOwned
<1>4. StatusProofs!TypeOK /\ StatusProofs!SendInv => StatusOK
  BY DEF StatusProofs!TypeOK, StatusOK, StatusProofs!Json
<1>5. QED
  BY <1>1, <1>2, <1>3, <1>4, PcCorrect, PTL

-----------------------------------------------------------------------------
(* The locks.                                                               *)

\* The places at which a thread holds websockets->lock ...
WsLockIsHeld ==
  \A c \in Conns :
    pc[c] \in {"adding", "removing", "unobserve", "choose", "waiting", "build"} =>
      wsLock = c

\* ... and those at which it holds the lock of its slot.
ClientLockIsHeld ==
  \A c \in Conns :
    pc[c] \in {"hello", "choose", "waiting", "build", "push"} =>
      clientLock[index[c]] = c

\* The thread that stops the observation has seen the table empty, and holds
\* websockets->lock since then.
EmptyIsUnobserved ==
  closePc = "off" =>
    \A c \in Conns : pc[c] = "unobserve" => numActive = 0

LockInv ==
  /\ wsLock \in Threads \cup {None}
  /\ clientLock \in [Slots -> Threads \cup {None}]
  /\ WsLockIsHeld
  /\ ClientLockIsHeld
  /\ EmptyIsUnobserved

LEMMA LockInvInductive ==
  ASSUME TableOK, LockInv, [Next]_vars
  PROVE  LockInv'
<1> USE WsStatusAssumption
    DEF TableOK, PcOK, PcValues, LockInv, WsLockIsHeld, ClientLockIsHeld,
        EmptyIsUnobserved, Threads, EventThread, Goto, TakeWs, FreeWs,
        tableVars, closeVars, lockVars
<1>1. \A c \in Conns : index[c] \in Slots
  BY DEF Table!TypeOK, Slots
<1>2. index \in [Conns -> Slots]
  BY DEF Table!TypeOK, Slots
<1>3. CASE UNCHANGED <<slot, numActive, index, closePc, pc, wsLock, clientLock>>
  BY <1>3
<1>4. ASSUME NEW c \in Conns, Connect(c) \/ Refuse(c) \/ Leave(c) \/ Hello(c)
      PROVE  LockInv'
  BY <1>4 DEF Connect, Refuse, Leave, Hello
<1>5. ASSUME NEW c \in Conns, Admit(c)
      PROVE  LockInv'
  <2>1. PICK n \in Slots : Table!Admit(c, n)
    BY <1>5 DEF Admit
  <2>2. index' = [index EXCEPT ![c] = n]
    BY <2>1 DEF Table!Admit
  <2>3. QED
    BY <1>2, <1>5, <2>2 DEF Admit
<1>6. ASSUME NEW c \in Conns, LockClient(c)
      PROVE  LockInv'
  BY <1>2, <1>6 DEF LockClient, ClientIsFree
<1>7. ASSUME NEW c \in Conns,
             AssertOwner(c) \/ Receive(c) \/ Read(c) \/ Command(c) \/ Reply(c)
      PROVE  LockInv'
  BY <1>3, <1>7 DEF AssertOwner, Receive, Read, Command, Reply, Abort
<1>8. ASSUME NEW c \in Conns,
             FirstClient(c) \/ LaterClient(c) \/ EndWait(c) \/ BuildFull(c)
      PROVE  LockInv'
  BY <1>3, <1>8 DEF FirstClient, LaterClient, EndWait, BuildFull, Abort
<1>9. ASSUME NEW c \in Conns, PushStatus(c)
      PROVE  LockInv'
  BY <1>2, <1>3, <1>9 DEF PushStatus, Abort
<1>10. ASSUME NEW c \in Conns, Remove(c)
       PROVE  LockInv'
  <2>1. index' = index
    BY <1>10 DEF Remove, Table!Release
  <2>2. QED
    BY <1>10, <2>1 DEF Remove
<1>11. ASSUME NEW c \in Conns, CheckLast(c) \/ Unobserve(c)
       PROVE  LockInv'
  BY <1>11 DEF CheckLast, Unobserve
<1>12. CASE CloseStart \/ ClosePeek \/ CloseLock
  BY <1>12 DEF CloseStart, ClosePeek, CloseLock, Table!CloseStart, Table!ClosePeek,
               Table!CloseNext, Table!tableVars
<1>13. CASE CloseClear
  <2>1. index' = index /\ closePc' # "off"
    BY <1>13 DEF CloseClear, Table!CloseClear, Table!tableVars
  <2>2. QED
    BY <1>13, <2>1 DEF CloseClear
<1>14. CASE CloseBye
  BY <1>3, <1>14 DEF CloseBye, Table!CloseBye, Table!CloseNext, Table!tableVars
<1>15. CASE Environment \/ EventStep \/ Update \/ BeginSend \/ Peek \/ Write \/ EndSend
  BY <1>3, <1>15 DEF Environment, EventStep, Update, BeginSend, Peek, Write, EndSend, Abort
<1>16. QED
  BY <1>3, <1>4, <1>5, <1>6, <1>7, <1>8, <1>9, <1>10, <1>11, <1>12, <1>13, <1>14, <1>15
  DEF Next, Events, Start, Answer, End, vars

LEMMA LockInvCorrect == Spec => []LockInv
<1>1. Init => LockInv
  BY DEF Init, LockInv, WsLockIsHeld, ClientLockIsHeld, EmptyIsUnobserved
<1>2. QED
  BY <1>1, LockInvInductive, PartsCorrect, PTL DEF Spec

\* The observation is stopped only when nobody is connected: between the look
\* at num_active_clients and status_unobserve no client can come in.
THEOREM StopsWhenEmptyCorrect == Spec => StopsWhenEmpty
<1>1. ASSUME TableOK, LockInv, [Next]_vars,
             is_observed, ~is_observed', closePc = "off"
      PROVE  Table!Occupied = {}
  <2>1. PICK c \in Conns : Unobserve(c)
    <3>1. is_observed' # is_observed
      BY <1>1
    <3>2. ASSUME NEW c \in Conns, FirstClient(c)
          PROVE  FALSE
      BY <1>1, <3>2 DEF FirstClient, Abort, statusVars, Status!StatusObserve
    <3>3. ASSUME Environment \/ Update \/ BeginSend \/ EndSend
          PROVE  FALSE
      BY <3>1, <3>3
      DEF Environment, Status!Mpv, Status!Change, Status!TogglePause, Update, BeginSend,
          EndSend, Status!PropertyUpdate, Status!ParseReady, Status!Delivered,
          Status!statusVars
    <3>4. ASSUME EventStep
          PROVE  FALSE
      BY <3>1, <3>4
      DEF EventStep, Status!TakePause, Status!TakeTrackSwitched, Status!Reobserve,
          Status!TakeChange, Status!SetInitialized, Status!CheckUpdated,
          Status!CheckInitialized, Status!SearchReady, Status!CountReady,
          Status!ResetReady, Status!statusVars
    <3>5. QED
      BY <1>1, <3>1, <3>2, <3>3, <3>4, ThreadStep, DeliveryStep
      DEF Next, Events, Start, Answer, End, vars, eventVars, statusVars
  <2>2. numActive = 0
    BY <1>1, <2>1 DEF LockInv, EmptyIsUnobserved, Unobserve, Goto
  <2>3. Cardinality(Table!Occupied) = 0
    BY <1>1, <2>2 DEF TableOK, SlotsOwned
  <2>4. IsFiniteSet(Table!Occupied)
    <3>1. IsFiniteSet(Slots)
      BY FS_Interval, WsStatusAssumption DEF Slots, Table!Slots
    <3>2. QED
      BY <3>1, FS_Subset DEF Table!Occupied, Slots
  <2>5. QED
    BY <2>3, <2>4, FS_EmptySet
<1>2. TableOK /\ LockInv /\ [Next]_vars =>
        [is_observed /\ ~is_observed' /\ closePc = "off" => Table!Occupied = {}]_vars
  BY <1>1
<1>3. QED
  BY <1>2, PartsCorrect, LockInvCorrect, PTL DEF Spec, StopsWhenEmpty

-----------------------------------------------------------------------------
(* Type correctness, and the place of the delivery.                         *)

\* A delivery begins at the first slot and finds websockets only in slots.
DeliveryInPlace ==
  /\ evpc # "deliver" => sendAt = 0 /\ ~writing
  /\ writing => sendAt \in Slots

\* The types of the variables that are not of the table.
OwnTypes ==
  /\ statusHeld \in BOOLEAN
  /\ full \subseteq Props
  /\ diff \subseteq Props
  /\ sendAt \in 0 .. MaxClients
  /\ writing \in BOOLEAN
  /\ view \in [Conns -> SUBSET Props]
  /\ partial \in BOOLEAN
  /\ DeliveryInPlace

\* The steps of the event thread between two deliveries.
LEMMA EventStepKeeps ==
  ASSUME EventStep
  PROVE  /\ evpc # "deliver" /\ evpc' # "deliver"
         /\ UNCHANGED <<initialized, json, is_observed>>
         /\ evpc' = "reset" => UNCHANGED <<evpc, pause, ready, updated>>
         /\ \/ updated' = updated
            \/ /\ evpc = "reset"
               /\ updated' = updated \ (IF pause THEN updated ELSE ready)
<1> USE DEF Status!statusVars, Status!flagVars, Status!loopVars
<1>1. CASE Status!ResetReady
  BY <1>1 DEF Status!ResetReady
<1>2. ASSUME NEW p \in Props, Status!TakeChange(p)
      PROVE  /\ evpc # "deliver" /\ evpc' \notin {"deliver", "reset"}
             /\ UNCHANGED <<initialized, json, is_observed, updated>>
  BY <1>2 DEF Status!TakeChange
<1>3. ASSUME NEW lapsed \in SUBSET held, Status!SearchReady(lapsed)
      PROVE  /\ evpc # "deliver" /\ evpc' \notin {"deliver", "reset"}
             /\ UNCHANGED <<initialized, json, is_observed, updated>>
  BY <1>3 DEF Status!SearchReady
<1>4. CASE \/ Status!TakePause \/ Status!TakeTrackSwitched \/ Status!Reobserve
           \/ Status!SetInitialized \/ Status!CheckUpdated
           \/ Status!CheckInitialized \/ Status!CountReady
  BY <1>4 DEF Status!TakePause, Status!TakeTrackSwitched, Status!Reobserve,
    Status!SetInitialized, Status!CheckUpdated, Status!CheckInitialized, Status!CountReady
<1>5. QED
  BY <1>1, <1>2, <1>3, <1>4 DEF EventStep

\* What mpv does is not visible to the threads before they take the event.
LEMMA EnvironmentKeeps ==
  ASSUME Environment
  PROVE  UNCHANGED <<statusVars, loopVars, tableVars, closeVars, pc, lockVars, sendVars>>
BY DEF Environment, Status!Mpv, Status!Change, Status!TogglePause, statusVars, loopVars,
       Status!statusVars, Status!flagVars, Status!countVars, Status!loopVars

LEMMA OwnTypesInductive ==
  ASSUME TableOK, StatusOK, LockInv, OwnTypes, [Next]_vars
  PROVE  OwnTypes'
<1> USE WsStatusAssumption DEF OwnTypes, DeliveryInPlace, sendVars, lockVars, loopVars
<1>1. Slots = 0 .. MaxClients - 1
  BY DEF Slots, Table!Slots
<1>2. CASE UNCHANGED <<statusHeld, full, diff, sendAt, writing, view, partial, evpc>>
  BY <1>2
<1>3. ASSUME NEW c \in Conns,
             \/ Connect(c) \/ Refuse(c) \/ Admit(c) \/ AssertOwner(c)
             \/ LockClient(c) \/ Hello(c) \/ LaterClient(c) \/ EndWait(c)
             \/ Receive(c) \/ Read(c) \/ Command(c) \/ Reply(c) \/ Leave(c) \/ CheckLast(c)
      PROVE  OwnTypes'
  <2>1. evpc' = evpc
    BY <1>3, ThreadStep
  <2>2. UNCHANGED <<statusHeld, full, diff, sendAt, writing, view, partial>>
    BY <1>3 DEF Connect, Refuse, Admit, AssertOwner, LockClient, Hello, LaterClient,
      EndWait, Receive, Read, Command, Reply, Leave, CheckLast, Abort
  <2>3. QED
    BY <1>2, <2>1, <2>2
<1>4. ASSUME NEW c \in Conns, BuildFull(c) \/ PushStatus(c) \/ Remove(c)
      PROVE  OwnTypes'
  <2>1. evpc' = evpc
    BY <1>4, ThreadStep
  <2>2. CASE BuildFull(c)
    BY <2>1, <2>2 DEF BuildFull, Abort, StatusOK
  <2>3. CASE PushStatus(c)
    BY <2>1, <2>3 DEF PushStatus, Abort
  <2>4. CASE Remove(c)
    BY <2>1, <2>4 DEF Remove
  <2>5. QED
    BY <1>4, <2>2, <2>3, <2>4
<1>5. ASSUME NEW c \in Conns, FirstClient(c)
      PROVE  OwnTypes'
  BY <1>2, <1>5 DEF FirstClient, Abort, Status!StatusObserve, Status!loopVars
<1>6. ASSUME NEW c \in Conns, Unobserve(c)
      PROVE  OwnTypes'
  <2>1. evpc' = evpc
    BY <1>6 DEF Unobserve, Status!StatusUnobserve, Status!vars, Status!loopVars
  <2>2. QED
    BY <1>2, <1>6, <2>1 DEF Unobserve
<1>7. CASE Environment
  BY <1>2, <1>7, EnvironmentKeeps
<1>8. CASE EventStep
  BY <1>8, EventStepKeeps DEF EventStep
<1>9. CASE Update
  BY <1>9 DEF Update, Status!PropertyUpdate
<1>10. CASE BeginSend
  BY <1>10 DEF BeginSend, Status!ParseReady, StatusOK
<1>11. CASE Peek
  <2>1. /\ sendAt \in Slots /\ sendAt' \in {sendAt, sendAt + 1}
        /\ writing' => sendAt' = sendAt
    BY <1>11 DEF Peek
  <2>2. sendAt' \in 0 .. MaxClients /\ (writing' => sendAt' \in Slots)
    BY <1>1, <2>1
  <2>3. writing' \in BOOLEAN /\ evpc' = "deliver"
    BY <1>11 DEF Peek, eventVars
  <2>4. UNCHANGED <<statusHeld, full, diff, view, partial>>
    BY <1>11 DEF Peek
  <2>5. QED
    BY <2>2, <2>3, <2>4
<1>12. CASE Write
  <2>1. CASE slot[sendAt] = None
    BY <1>2, <1>12, <2>1 DEF Write, Abort
  <2>2. CASE slot[sendAt] # None
    <3>1. sendAt \in Slots /\ sendAt' = sendAt + 1 /\ writing' = FALSE
      BY <1>12, <2>2 DEF Write
    <3>2. sendAt' \in 0 .. MaxClients
      BY <1>1, <3>1
    <3>3. view' = [view EXCEPT ![slot[sendAt]] = @ \cup diff]
      BY <1>12, <2>2 DEF Write
    <3>4. view' \in [Conns -> SUBSET Props]
      BY <3>3
    <3>5. UNCHANGED <<statusHeld, full, diff, partial>> /\ evpc' = "deliver"
      BY <1>12, <2>2 DEF Write, eventVars
    <3>6. QED
      BY <3>1, <3>2, <3>4, <3>5
  <2>3. QED
    BY <2>1, <2>2
<1>13. CASE EndSend
  <2>1. ~writing
    BY <1>1, <1>13 DEF EndSend
  <2>2. evpc' = "reset"
    BY <1>13 DEF EndSend, Status!Delivered
  <2>3. QED
    <3>1. /\ statusHeld' = FALSE /\ diff' = {} /\ sendAt' = 0
          /\ UNCHANGED <<full, writing, view, partial>>
      BY <1>13 DEF EndSend
    <3>2. sendAt' \in 0 .. MaxClients /\ writing' = FALSE
      BY <2>1, <3>1
    <3>3. QED
      BY <2>2, <3>1, <3>2
<1>14. CASE CloseStart \/ ClosePeek \/ CloseLock \/ CloseClear \/ CloseBye
  BY <1>2, <1>14 DEF CloseStart, ClosePeek, CloseLock, CloseClear, CloseBye, eventVars
<1>15. CASE UNCHANGED vars
  BY <1>2, <1>15 DEF vars, eventVars
<1>16. QED
  BY <1>3, <1>4, <1>5, <1>6, <1>7, <1>8, <1>9, <1>10, <1>11, <1>12, <1>13, <1>14, <1>15
  DEF Next, Events, Start, Answer, End

LEMMA OwnTypesCorrect == Spec => []OwnTypes
<1>1. ASSUME Init
      PROVE  OwnTypes
  <2>1. view \in [Conns -> SUBSET Props]
    BY <1>1 DEF Init
  <2>2. sendAt = 0 /\ sendAt \in 0 .. MaxClients /\ writing = FALSE
    BY <1>1, WsStatusAssumption DEF Init
  <2>3. statusHeld = FALSE /\ full = {} /\ diff = {} /\ partial = FALSE
    BY <1>1 DEF Init
  <2>4. QED
    BY <2>1, <2>2, <2>3 DEF OwnTypes, DeliveryInPlace
<1>2. QED
  BY <1>1, OwnTypesInductive, PartsCorrect, LockInvCorrect, PTL DEF Spec

\* Only websockets that are in a slot get the callback.
CallbacksOK == callbacks \subseteq Conns

LEMMA CallbacksCorrect == Spec => []CallbacksOK
<1>1. Init => CallbacksOK
  BY DEF Init, CallbacksOK
<1>2. ASSUME TableOK, CallbacksOK, [Next]_vars
      PROVE  CallbacksOK'
  <2> USE DEF CallbacksOK, closeVars
  <2>1. ASSUME NEW c \in Conns, PushStatus(c)
        PROVE  CallbacksOK'
    <3>1. CASE slot[index[c]] = None
      BY <1>2, <2>1, <3>1 DEF PushStatus, Abort
    <3>2. CASE slot[index[c]] # None
      <4>1. slot[index[c]] \in Conns
        BY <1>2, <3>2 DEF TableOK, Table!TypeOK
      <4>2. callbacks' = callbacks \cup {slot[index[c]]}
        BY <2>1, <3>2 DEF PushStatus
      <4>3. QED
        BY <1>2, <4>1, <4>2
    <3>3. QED
      BY <3>1, <3>2
  <2>2. ASSUME NEW c \in Conns, CheckLast(c) \/ Unobserve(c)
        PROVE  CallbacksOK'
    BY <1>2, <2>2 DEF CheckLast, Unobserve, Freed
  <2>3. ASSUME NEW c \in Conns,
               \/ Connect(c) \/ Refuse(c) \/ Admit(c) \/ AssertOwner(c)
               \/ LockClient(c) \/ Hello(c) \/ FirstClient(c) \/ LaterClient(c)
               \/ EndWait(c) \/ BuildFull(c) \/ Receive(c) \/ Read(c)
               \/ Command(c) \/ Reply(c) \/ Leave(c) \/ Remove(c)
        PROVE  CallbacksOK'
    BY <1>2, <2>3 DEF Connect, Refuse, Admit, AssertOwner, LockClient, Hello, FirstClient,
      LaterClient, EndWait, BuildFull, Receive, Read, Command, Reply, Leave, Remove, Abort
  <2>4. CASE Environment \/ Events
    BY <1>2, <2>4
    DEF Environment, Events, EventStep, Update, BeginSend, Peek, Write, EndSend,
      CloseStart, ClosePeek, CloseLock, CloseClear, CloseBye, Abort
  <2>5. CASE UNCHANGED vars
    BY <1>2, <2>5 DEF vars
  <2>6. QED
    BY <1>2, <2>1, <2>2, <2>3, <2>4, <2>5 DEF Next, Start, Answer, End
<1>3. QED
  BY <1>1, <1>2, PartsCorrect, PTL DEF Spec

\* Every variable keeps its type: the delivery stays within the slots, also
\* while clients come and go, and every lock has at most one known owner.
THEOREM TypeCorrect == Spec => []TypeOK
<1>1. TableOK /\ LockInv /\ OwnTypes /\ CallbacksOK => TypeOK
  BY DEF TableOK, PcOK, LockInv, OwnTypes, CallbacksOK, TypeOK
<1>2. QED
  BY <1>1, PartsCorrect, LockInvCorrect, OwnTypesCorrect, CallbacksCorrect, PTL

-----------------------------------------------------------------------------
(* Nothing is missed: the invariant.                                        *)

\* The observations the property is about: the program runs, and no full
\* status was built before every property had a value.
Observing == closePc = "off" /\ is_observed /\ ~partial

\* A client that has, or is about to be sent, its full status.
Told(c) == Served(c) \/ pc[c] = "push"

\* A client that a delivery in progress has still to pass.
Ahead(c) == evpc = "deliver" /\ sendAt <= index[c]

\* The updates that __reset_ready_props will take away after the delivery.
Taken == ready \cap updated

\* No client is told anything before every property has a value ...
CompleteWhenTold ==
  \A c \in Conns : Told(c) => initialized = Props

\* ... since until then the first client waits or builds.  It holds the lock of
\* its slot, so that a delivery that began under an earlier observation, and
\* left texts of that time in prop->json, cannot pass it.
FirstWaits ==
  initialized # Props =>
    \E f \in Conns :
      /\ pc[f] \in {"waiting", "build"}
      /\ (evpc = "deliver" /\ \E p \in Props : json[p] = "old") => Ahead(f)

\* Texts of an earlier observation are gone with that delivery,
OldIsPassing ==
  \A p \in Props : json[p] = "old" => initialized # Props /\ evpc = "deliver"

\* and a property without a value has no text of this one.
NewIsUnparsed ==
  \A p \in Props \ initialized : json[p] \in {"null", "old"}

\* A client the delivery has passed was told what will be taken away, or will
\* be told it in its full status.
TakenIsTold ==
  evpc \in {"deliver", "reset"} =>
    \A c \in Conns :
      /\ Served(c) => Taken \subseteq view[c] \/ Ahead(c)
      /\ pc[c] = "push" => Taken \subseteq full \/ Ahead(c)

\* NothingMissed, and the same of the client whose status is built.
NothingLost ==
  \A c \in Conns :
    /\ Served(c) => initialized \subseteq view[c] \cup updated
    /\ pc[c] = "push" => initialized \subseteq full \cup updated

MissInv ==
  Observing =>
    /\ CompleteWhenTold
    /\ FirstWaits
    /\ OldIsPassing
    /\ NewIsUnparsed
    /\ TakenIsTold
    /\ NothingLost

\* What is sent, and what a forced send takes away, is what was selected.
TakenIsSent ==
  /\ evpc = "deliver" => diff = ready
  /\ evpc \in {"deliver", "reset"} /\ pause => updated \subseteq ready

\* Everything the steps below may rely on.
Known == TableOK /\ StatusOK /\ LockInv /\ OwnTypes /\ TakenIsSent

LEMMA TakenIsSentInductive ==
  ASSUME StatusOK, TakenIsSent, [Next]_vars
  PROVE  TakenIsSent'
<1> USE DEF TakenIsSent, loopVars, statusVars, sendVars, lockVars
<1>1. CASE UNCHANGED <<evpc, diff, ready, pause, updated>>
  BY <1>1
<1>2. ASSUME NEW c \in Conns,
             \/ Connect(c) \/ Refuse(c) \/ Admit(c) \/ AssertOwner(c)
             \/ LockClient(c) \/ Hello(c) \/ LaterClient(c) \/ EndWait(c)
             \/ BuildFull(c) \/ PushStatus(c) \/ Receive(c) \/ Read(c) \/ Command(c)
             \/ Reply(c) \/ Leave(c) \/ Remove(c) \/ CheckLast(c)
      PROVE  TakenIsSent'
  <2>1. UNCHANGED <<evpc, ready, pause, updated>>
    BY <1>2, ThreadStep
  <2>2. diff' = diff
    BY <1>2 DEF Connect, Refuse, Admit, AssertOwner, LockClient, Hello, LaterClient,
      EndWait, BuildFull, PushStatus, Receive, Read, Command, Reply, Leave, Remove, CheckLast,
      Abort
  <2>3. QED
    BY <1>1, <2>1, <2>2
<1>3. ASSUME NEW c \in Conns, FirstClient(c)
      PROVE  TakenIsSent'
  BY <1>1, <1>3 DEF FirstClient, Abort, Status!StatusObserve, Status!loopVars
<1>4. ASSUME NEW c \in Conns, Unobserve(c)
      PROVE  TakenIsSent'
  BY <1>1, <1>4
  DEF Unobserve, Status!StatusUnobserve, Status!vars, Status!loopVars,
      Status!statusVars, Status!flagVars
<1>5. CASE Environment
  BY <1>1, <1>5, EnvironmentKeeps
<1>6. CASE EventStep
  BY <1>6, EventStepKeeps
<1>7. CASE Update
  BY <1>7 DEF Update, Status!PropertyUpdate
<1>8. CASE BeginSend
  BY <1>8
  DEF BeginSend, Status!ParseReady, StatusOK, StatusProofs!SendInv, StatusProofs!DueIsReady
<1>9. CASE EndSend
  BY <1>9 DEF EndSend, Status!Delivered, Status!statusVars, Status!flagVars
<1>10. CASE Peek \/ Write \/ CloseStart \/ ClosePeek \/ CloseLock \/ CloseClear \/ CloseBye
  <2>1. UNCHANGED <<evpc, ready, pause, updated>>
    BY <1>10, DeliveryStep
  <2>2. diff' = diff
    BY <1>10 DEF Peek, Write, CloseStart, ClosePeek, CloseLock, CloseClear, CloseBye, Abort
  <2>3. QED
    BY <1>1, <2>1, <2>2
<1>11. CASE UNCHANGED vars
  BY <1>1, <1>11 DEF vars, eventVars
<1>12. QED
  BY <1>2, <1>3, <1>4, <1>5, <1>6, <1>7, <1>8, <1>9, <1>10, <1>11
  DEF Next, Events, Start, Answer, End

LEMMA KnownCorrect == Spec => []Known
<1>1. Init => TakenIsSent
  BY DEF Init, Status!Init, TakenIsSent
<1>2. QED
  BY <1>1, TakenIsSentInductive, PartsCorrect, LockInvCorrect, OwnTypesCorrect,
     PTL DEF Spec, Known

-----------------------------------------------------------------------------
(* Nothing is missed: the steps.                                            *)

\* Steps that let threads through, or send them home, but tell nobody anything.
LEMMA MissFrame ==
  ASSUME MissInv,
         closePc' = "off" => closePc = "off",
         UNCHANGED <<is_observed, partial, initialized, updated, ready, json, evpc,
                     full, sendAt>>,
         \A c \in Conns : Served(c)' =>
           Served(c) /\ view'[c] = view[c] /\ index'[c] = index[c],
         \A c \in Conns : pc'[c] = "push" => pc[c] = "push" /\ index'[c] = index[c],
         \A c \in Conns : pc[c] \in {"waiting", "build"} =>
           pc'[c] \in {"waiting", "build"} /\ index'[c] = index[c]
  PROVE  MissInv'
<1> SUFFICES ASSUME Observing'
             PROVE  (/\ CompleteWhenTold /\ FirstWaits /\ OldIsPassing
                     /\ NewIsUnparsed /\ TakenIsTold /\ NothingLost)'
  BY DEF MissInv
<1>1. /\ CompleteWhenTold /\ FirstWaits /\ OldIsPassing
      /\ NewIsUnparsed /\ TakenIsTold /\ NothingLost
  BY DEF MissInv, Observing
<1>2. CompleteWhenTold'
  BY <1>1 DEF CompleteWhenTold, Told
<1>3. FirstWaits'
  BY <1>1 DEF FirstWaits, Ahead
<1>4. OldIsPassing' /\ NewIsUnparsed'
  BY <1>1 DEF OldIsPassing, NewIsUnparsed
<1>5. TakenIsTold'
  BY <1>1 DEF TakenIsTold, Taken, Ahead
<1>6. NothingLost'
  BY <1>1 DEF NothingLost
<1>7. QED
  BY <1>2, <1>3, <1>4, <1>5, <1>6

\* The first client of an observation is alone in the table.
LEMMA FirstIsAlone ==
  ASSUME TableOK, closePc = "off", numActive = 1,
         NEW f \in Conns, In(f), NEW c \in Conns, In(c)
  PROVE  c = f
<1>1. Cardinality(Table!Occupied) = 1
  BY DEF TableOK, SlotsOwned
<1>2. IsFiniteSet(Table!Occupied)
  <2>1. IsFiniteSet(Slots)
    BY FS_Interval, WsStatusAssumption DEF Slots, Table!Slots
  <2>2. QED
    BY <2>1, FS_Subset DEF Table!Occupied, Slots
<1>3. PICK i : Table!Occupied = {i}
  BY <1>1, <1>2, FS_Singleton
<1>4. slot[index[f]] = f /\ slot[index[c]] = c /\ index[f] \in Slots /\ index[c] \in Slots
  BY DEF TableOK, SlotsOwned, Table!TypeOK, Slots
<1>5. index[f] \in Table!Occupied /\ index[c] \in Table!Occupied
  BY <1>4, WsStatusAssumption DEF Table!Occupied, Slots
<1>6. QED
  BY <1>3, <1>4, <1>5

\* The start of the observation: everything else begins with it.
LEMMA MissFirstClient ==
  ASSUME Known, NEW c \in Conns, FirstClient(c), ~is_observed
  PROVE  MissInv'
<1> SUFFICES ASSUME Observing'
             PROVE  (/\ CompleteWhenTold /\ FirstWaits /\ OldIsPassing
                     /\ NewIsUnparsed /\ TakenIsTold /\ NothingLost)'
  BY DEF MissInv
<1>1. /\ pc[c] = "choose" /\ pc' = [pc EXCEPT ![c] = "waiting"]
      /\ numActive = 1 /\ closePc' = closePc
      /\ initialized' = {} /\ json' = [p \in Props |-> "null"]
  BY DEF FirstClient, Status!StatusObserve, Goto, closeVars
<1>2. pc \in [Conns -> PcValues]
  BY DEF Known, TableOK, PcOK
<1>3. \A d \in Conns : ~Told(d)'
  <2> SUFFICES ASSUME NEW d \in Conns, Told(d)'
               PROVE  FALSE
    OBVIOUS
  <2>1. d # c /\ pc[d] \in {"open", "reading", "command", "reply", "push"}
    BY <1>1, <1>2 DEF Told, Served
  <2>2. In(c) /\ In(d)
    BY <1>1, <2>1 DEF In, Phase
  <2>3. closePc = "off"
    BY <1>1 DEF Observing
  <2>4. QED
    BY <1>1, <2>1, <2>2, <2>3, FirstIsAlone DEF Known
<1>4. CompleteWhenTold' /\ TakenIsTold' /\ NothingLost'
  BY <1>3 DEF CompleteWhenTold, TakenIsTold, NothingLost, Told
<1>5. \A p \in Props : json'[p] = "null"
  BY <1>1
<1>6. FirstWaits'
  BY <1>1, <1>2, <1>5 DEF FirstWaits
<1>7. OldIsPassing' /\ NewIsUnparsed'
  BY <1>5 DEF OldIsPassing, NewIsUnparsed
<1>8. QED
  BY <1>4, <1>6, <1>7

\* A full status that is complete holds every text the client will not be sent.
LEMMA MissBuildFull ==
  ASSUME Known, MissInv, NEW c \in Conns, BuildFull(c)
  PROVE  MissInv'
<1> SUFFICES ASSUME Observing'
             PROVE  (/\ CompleteWhenTold /\ FirstWaits /\ OldIsPassing
                     /\ NewIsUnparsed /\ TakenIsTold /\ NothingLost)'
  BY DEF MissInv
<1>1. UNCHANGED <<initialized, updated, ready, json, evpc, index, sendAt, view,
                  is_observed, closePc>>
  BY ThreadStep DEF BuildFull, Abort, statusVars, loopVars, tableVars, closeVars, sendVars
<1>2. CASE \E p \in initialized : json[p] = "null"
  BY <1>1, <1>2, MissFrame DEF BuildFull, Abort, sendVars, Served, MissInv
<1>3. CASE ~ \E p \in initialized : json[p] = "null"
  <2>1. /\ pc[c] = "build" /\ pc' = [pc EXCEPT ![c] = "push"]
        /\ full' = {p \in initialized : json[p] = "current"}
        /\ partial' = (partial \/ initialized # Props)
    BY <1>3 DEF BuildFull, Goto
  <2>2. initialized = Props /\ Observing
    BY <1>1, <2>1 DEF Observing
  <2>3. /\ CompleteWhenTold /\ FirstWaits /\ OldIsPassing
        /\ NewIsUnparsed /\ TakenIsTold /\ NothingLost
    BY <2>2 DEF MissInv
  <2>4. pc \in [Conns -> PcValues]
    BY DEF Known, TableOK, PcOK
  <2>5. CompleteWhenTold' /\ FirstWaits'
    BY <1>1, <2>2 DEF CompleteWhenTold, FirstWaits
  <2>6. OldIsPassing' /\ NewIsUnparsed'
    BY <1>1, <2>3 DEF OldIsPassing, NewIsUnparsed
  <2>7. \A p \in Props : p \in full' \/ p \in updated
    BY <1>3, <2>1, <2>2, <2>3
    DEF Known, StatusOK, StatusProofs!SendInv, StatusProofs!StaleIsPending, OldIsPassing
  <2>8. evpc \in {"deliver", "reset"} => Taken \subseteq full'
    BY <2>1, <2>2
    DEF Known, StatusOK, StatusProofs!SendInv, StatusProofs!ReadyIsCurrent, Taken
  <2>9. \A d \in Conns : Served(d)' => Served(d)
    BY <2>1, <2>4 DEF Served
  <2>10. TakenIsTold'
    BY <1>1, <2>3, <2>8, <2>9 DEF TakenIsTold, Taken, Ahead
  <2>11. NothingLost'
    BY <1>1, <2>2, <2>3, <2>7, <2>9 DEF NothingLost
  <2>12. QED
    BY <2>5, <2>6, <2>10, <2>11
<1>4. QED
  BY <1>2, <1>3

\* The full status is sent: what was true of it is now true of the client.
LEMMA MissPushStatus ==
  ASSUME Known, MissInv, NEW c \in Conns, PushStatus(c)
  PROVE  MissInv'
<1>1. UNCHANGED <<initialized, updated, ready, json, evpc, index, sendAt, full,
                  is_observed, closePc, partial>>
  BY ThreadStep DEF PushStatus, Abort, statusVars, loopVars, tableVars, closeVars, sendVars
<1>2. CASE slot[index[c]] = None
  BY <1>1, <1>2, MissFrame DEF PushStatus, Abort, sendVars, Served
<1>3. CASE slot[index[c]] # None
  <2> SUFFICES ASSUME Observing'
               PROVE  (/\ CompleteWhenTold /\ FirstWaits /\ OldIsPassing
                       /\ NewIsUnparsed /\ TakenIsTold /\ NothingLost)'
    BY DEF MissInv
  <2>1. /\ CompleteWhenTold /\ FirstWaits /\ OldIsPassing
        /\ NewIsUnparsed /\ TakenIsTold /\ NothingLost
    BY <1>1 DEF MissInv, Observing
  <2>2. /\ pc[c] = "push" /\ pc' = [pc EXCEPT ![c] = "open"]
        /\ view' = [view EXCEPT ![c] = full]
    <3>1. In(c) /\ closePc = "off"
      BY <1>1, <1>3 DEF PushStatus, Observing, In, Phase
    <3>2. slot[index[c]] = c
      BY <3>1 DEF Known, TableOK, SlotsOwned
    <3>3. QED
      BY <1>3, <3>2 DEF PushStatus, Goto
  <2>3. pc \in [Conns -> PcValues] /\ view \in [Conns -> SUBSET Props]
    BY DEF Known, TableOK, PcOK, OwnTypes
  <2>4. /\ view'[c] = full
        /\ \A d \in Conns \ {c} : view'[d] = view[d] /\ pc'[d] = pc[d]
    BY <2>2, <2>3
  <2>5. \A d \in Conns : Served(d)' => d = c \/ Served(d)
    BY <2>4 DEF Served
  <2>6. \A d \in Conns : pc'[d] = "push" => pc[d] = "push"
    BY <2>2, <2>3
  <2>7. CompleteWhenTold'
    BY <1>1, <2>1, <2>2, <2>5, <2>6 DEF CompleteWhenTold, Told
  <2>8. FirstWaits'
    BY <1>1, <2>1, <2>2, <2>4 DEF FirstWaits, Ahead
  <2>9. OldIsPassing' /\ NewIsUnparsed'
    BY <1>1, <2>1 DEF OldIsPassing, NewIsUnparsed
  <2>10. TakenIsTold'
    BY <1>1, <2>1, <2>2, <2>4, <2>5, <2>6 DEF TakenIsTold, Taken, Ahead
  <2>11. NothingLost'
    BY <1>1, <2>1, <2>2, <2>4, <2>5, <2>6 DEF NothingLost
  <2>12. QED
    BY <2>7, <2>8, <2>9, <2>10, <2>11
<1>4. QED
  BY <1>2, <1>3

\* Between two deliveries only __reset_ready_props takes updates away, and
\* every client has been told those.
LEMMA MissEventStep ==
  ASSUME Known, MissInv, EventStep
  PROVE  MissInv'
<1> SUFFICES ASSUME Observing'
             PROVE  (/\ CompleteWhenTold /\ FirstWaits /\ OldIsPassing
                     /\ NewIsUnparsed /\ TakenIsTold /\ NothingLost)'
  BY DEF MissInv
<1>1. UNCHANGED <<closePc, partial, is_observed, initialized, json, index, sendAt,
                  full, view, pc>>
  BY EventStepKeeps DEF EventStep, tableVars, closeVars, sendVars
<1>2. /\ CompleteWhenTold /\ FirstWaits /\ OldIsPassing
      /\ NewIsUnparsed /\ TakenIsTold /\ NothingLost
  BY <1>1 DEF MissInv, Observing
<1>3. evpc # "deliver" /\ evpc' # "deliver"
  BY EventStepKeeps
<1>4. CompleteWhenTold'
  BY <1>1, <1>2 DEF CompleteWhenTold, Told, Served
<1>5. FirstWaits'
  BY <1>1, <1>2, <1>3 DEF FirstWaits
<1>6. OldIsPassing' /\ NewIsUnparsed'
  BY <1>1, <1>2, <1>3 DEF OldIsPassing, NewIsUnparsed
<1>7. TakenIsTold'
  <2>1. evpc' = "reset" => UNCHANGED <<evpc, ready, updated>>
    BY EventStepKeeps
  <2>2. QED
    BY <1>1, <1>2, <1>3, <2>1 DEF TakenIsTold, Taken, Ahead, Served
<1>8. NothingLost'
  <2>1. CASE updated' = updated
    BY <1>1, <1>2, <2>1 DEF NothingLost, Served
  <2>2. CASE evpc = "reset" /\ updated' = updated \ (IF pause THEN updated ELSE ready)
    <3>1. updated \ Taken \subseteq updated'
      BY <2>2 DEF Taken, Known, TakenIsSent
    <3>2. \A c \in Conns : /\ Served(c) => Taken \subseteq view[c]
                           /\ pc[c] = "push" => Taken \subseteq full
      BY <1>2, <2>2 DEF TakenIsTold, Ahead
    <3>3. QED
      BY <1>1, <1>2, <3>1, <3>2 DEF NothingLost, Served
  <2>3. QED
    BY <2>1, <2>2, EventStepKeeps
<1>9. QED
  BY <1>4, <1>5, <1>6, <1>7, <1>8

\* A new value makes what was told of it worthless, and is marked as an update.
LEMMA MissUpdate ==
  ASSUME Known, MissInv, Update
  PROVE  MissInv'
<1> SUFFICES ASSUME Observing'
             PROVE  (/\ CompleteWhenTold /\ FirstWaits /\ OldIsPassing
                     /\ NewIsUnparsed /\ TakenIsTold /\ NothingLost)'
  BY DEF MissInv
<1>1. /\ evpc = "update" /\ evpc' \in {"setinit", "check"}
      /\ initialized' = initialized \cup {evt}
      /\ updated' = IF evt \notin initialized THEN updated ELSE updated \cup {evt}
      /\ json' = [json EXCEPT ![evt] = IF num_updated' = 0 THEN "current"
                                       ELSE IF json[evt] = "null" THEN "null"
                                       ELSE IF evt \notin initialized THEN "old" ELSE "stale"]
      /\ is_observed' = is_observed
  BY DEF Update, Status!PropertyUpdate, Status!IsFirst
<1>2. /\ full' = full \ {evt}
      /\ view' = [c \in Conns |-> view[c] \ {evt}]
      /\ UNCHANGED <<closePc, partial, pc>>
  BY DEF Update, closeVars
<1>3. /\ CompleteWhenTold /\ FirstWaits /\ OldIsPassing
      /\ NewIsUnparsed /\ TakenIsTold /\ NothingLost
  BY <1>1, <1>2 DEF MissInv, Observing
<1>4. evt \in Props /\ initialized \subseteq Props /\ json \in [Props -> Status!Json]
  BY <1>1 DEF Known, StatusOK, Status!Json
<1>5. \A c \in Conns : Told(c)' <=> Told(c)
  BY <1>2 DEF Told, Served
<1>6. CompleteWhenTold'
  BY <1>1, <1>3, <1>4, <1>5 DEF CompleteWhenTold
<1>7. FirstWaits'
  BY <1>1, <1>2, <1>3, <1>4 DEF FirstWaits
<1>8. \A p \in Props : json'[p] # "old"
  <2>1. \A p \in Props : json[p] # "old"
    BY <1>1, <1>3 DEF OldIsPassing
  <2>2. json'[evt] # "old"
    BY <1>1, <1>3, <1>4, <2>1 DEF NewIsUnparsed
  <2>3. QED
    BY <1>1, <1>4, <2>1, <2>2
<1>9. OldIsPassing'
  BY <1>8 DEF OldIsPassing
<1>10. NewIsUnparsed'
  BY <1>1, <1>3, <1>4 DEF NewIsUnparsed
<1>11. TakenIsTold'
  BY <1>1 DEF TakenIsTold
<1>12. NothingLost'
  <2> SUFFICES ASSUME NEW c \in Conns
               PROVE  /\ Served(c)' => initialized' \subseteq view'[c] \cup updated'
                      /\ pc'[c] = "push" => initialized' \subseteq full' \cup updated'
    BY DEF NothingLost
  <2>1. Told(c)' => initialized = Props
    BY <1>3, <1>5 DEF CompleteWhenTold
  <2>2. Told(c)' => initialized' = initialized /\ evt \in updated' /\ updated \subseteq updated'
    BY <1>1, <1>4, <2>1
  <2>3. /\ Served(c)' => initialized \subseteq view[c] \cup updated
        /\ pc'[c] = "push" => initialized \subseteq full \cup updated
    BY <1>2, <1>3 DEF NothingLost, Served
  <2>4. view'[c] = view[c] \ {evt}
    BY <1>2
  <2>5. QED
    BY <1>2, <2>2, <2>3, <2>4 DEF Told
<1>13. QED
  BY <1>6, <1>7, <1>9, <1>10, <1>11, <1>12

\* A delivery begins: nobody has been passed yet.
LEMMA MissBeginSend ==
  ASSUME Known, MissInv, BeginSend
  PROVE  MissInv'
<1> SUFFICES ASSUME Observing'
             PROVE  (/\ CompleteWhenTold /\ FirstWaits /\ OldIsPassing
                     /\ NewIsUnparsed /\ TakenIsTold /\ NothingLost)'
  BY DEF MissInv
<1>1. /\ evpc = "send" /\ evpc' = "deliver"
      /\ UNCHANGED <<initialized, updated, ready, is_observed>>
      /\ json' = [p \in Props |-> IF p \notin ready THEN json[p]
                                   ELSE IF p \in initialized THEN "current" ELSE "old"]
  BY DEF BeginSend, Status!ParseReady, Status!Parsed
<1>2. UNCHANGED <<closePc, partial, pc, index, full, view, sendAt>>
  BY DEF BeginSend, closeVars, tableVars
<1>3. /\ CompleteWhenTold /\ FirstWaits /\ OldIsPassing
      /\ NewIsUnparsed /\ TakenIsTold /\ NothingLost
  BY <1>1, <1>2 DEF MissInv, Observing
<1>4. \A c \in Conns : Ahead(c)'
  <2>1. sendAt' = 0
    BY <1>1, <1>2 DEF Known, OwnTypes, DeliveryInPlace
  <2>2. \A c \in Conns : index'[c] \in 0 .. MaxClients - 1
    BY <1>2 DEF Known, TableOK, Table!TypeOK, Table!Slots
  <2>3. QED
    BY <1>1, <2>1, <2>2, WsStatusAssumption DEF Ahead
<1>5. CompleteWhenTold' /\ NothingLost'
  BY <1>1, <1>2, <1>3 DEF CompleteWhenTold, NothingLost, Told, Served
<1>6. FirstWaits'
  BY <1>1, <1>2, <1>3, <1>4 DEF FirstWaits
<1>7. OldIsPassing'
  BY <1>1, <1>3 DEF OldIsPassing
<1>8. NewIsUnparsed'
  BY <1>1, <1>3 DEF NewIsUnparsed
<1>9. TakenIsTold'
  BY <1>4 DEF TakenIsTold
<1>10. QED
  BY <1>5, <1>6, <1>7, <1>8, <1>9

\* A delivery passes a slot without a websocket: nobody waits there.
LEMMA MissPeek ==
  ASSUME Known, MissInv, Peek
  PROVE  MissInv'
<1> SUFFICES ASSUME Observing'
             PROVE  (/\ CompleteWhenTold /\ FirstWaits /\ OldIsPassing
                     /\ NewIsUnparsed /\ TakenIsTold /\ NothingLost)'
  BY DEF MissInv
<1>1. UNCHANGED <<closePc, partial, is_observed, initialized, updated, ready, json,
                  evpc, index, full, view, pc>>
  BY DeliveryStep DEF Peek, statusVars, loopVars, tableVars, closeVars
<1>2. /\ CompleteWhenTold /\ FirstWaits /\ OldIsPassing
      /\ NewIsUnparsed /\ TakenIsTold /\ NothingLost
  BY <1>1 DEF MissInv, Observing
<1>3. ASSUME NEW c \in Conns, In(c), Ahead(c)
      PROVE  Ahead(c)'
  <2>1. slot[index[c]] = c /\ c # None /\ index[c] \in 0 .. MaxClients - 1
    BY <1>1, <1>3, WsStatusAssumption
    DEF Observing, Known, TableOK, SlotsOwned, Table!TypeOK, Table!Slots
  <2>2. CASE slot[sendAt] = None
    <3>1. sendAt # index[c] /\ sendAt <= index[c] /\ sendAt \in 0 .. MaxClients
      BY <1>3, <2>1, <2>2 DEF Ahead, Known, OwnTypes
    <3>2. sendAt' = sendAt + 1
      BY <2>2 DEF Peek
    <3>3. QED
      BY <1>1, <1>3, <2>1, <3>1, <3>2 DEF Ahead
  <2>3. CASE slot[sendAt] # None
    BY <1>1, <1>3, <2>3 DEF Peek, Ahead
  <2>4. QED
    BY <2>2, <2>3
<1>4. \A c \in Conns : Told(c) \/ pc[c] \in {"waiting", "build"} => In(c)
  BY DEF Told, Served, In, Phase
<1>5. CompleteWhenTold' /\ NothingLost'
  BY <1>1, <1>2 DEF CompleteWhenTold, NothingLost, Told, Served
<1>6. FirstWaits'
  BY <1>1, <1>2, <1>3, <1>4 DEF FirstWaits
<1>7. OldIsPassing' /\ NewIsUnparsed'
  BY <1>1, <1>2 DEF OldIsPassing, NewIsUnparsed
<1>8. TakenIsTold'
  BY <1>1, <1>2, <1>3, <1>4 DEF TakenIsTold, Taken, Told, Served
<1>9. QED
  BY <1>5, <1>6, <1>7, <1>8

\* The messages are written to a client, which has its full status already:
\* before that it would hold the lock of its slot.
LEMMA MissWrite ==
  ASSUME Known, MissInv, Write
  PROVE  MissInv'
<1>1. UNCHANGED <<closePc, partial, is_observed, initialized, updated, ready, json,
                  evpc, index, full, pc>>
  BY DeliveryStep DEF Write, Abort, statusVars, loopVars, tableVars, closeVars, sendVars
<1>2. CASE slot[sendAt] = None
  BY <1>1, <1>2, MissFrame DEF Write, Abort, sendVars, Served
<1>3. CASE slot[sendAt] # None
  <2> SUFFICES ASSUME Observing'
               PROVE  (/\ CompleteWhenTold /\ FirstWaits /\ OldIsPassing
                       /\ NewIsUnparsed /\ TakenIsTold /\ NothingLost)'
    BY DEF MissInv
  <2>1. /\ CompleteWhenTold /\ FirstWaits /\ OldIsPassing
        /\ NewIsUnparsed /\ TakenIsTold /\ NothingLost
    BY <1>1 DEF MissInv, Observing
  <2>2. /\ view' = [view EXCEPT ![slot[sendAt]] = @ \cup diff]
        /\ sendAt' = sendAt + 1
        /\ evpc = "deliver" /\ writing /\ clientLock[sendAt] = None
    BY <1>3 DEF Write, ClientIsFree
  <2>3. sendAt \in 0 .. MaxClients - 1 /\ sendAt \in Slots
    BY <2>2 DEF Known, OwnTypes, DeliveryInPlace, Slots, Table!Slots
  <2>4. view \in [Conns -> SUBSET Props] /\ diff = ready
    BY <2>2 DEF Known, OwnTypes, TakenIsSent
  <2>5. slot[sendAt] \in Conns
    BY <1>3, <2>3 DEF Known, TableOK, Table!TypeOK, Slots
  <2>6. \A c \in Conns : view[c] \subseteq view'[c]
    BY <2>2, <2>4, <2>5
  <2>7. ASSUME NEW c \in Conns, Ahead(c)
        PROVE  Ahead(c)' \/ sendAt = index[c]
    <3>1. sendAt <= index[c] /\ index[c] \in 0 .. MaxClients - 1
      BY <2>7 DEF Ahead, Known, TableOK, Table!TypeOK, Table!Slots
    <3>2. sendAt = index[c] \/ sendAt + 1 <= index[c]
      BY <2>3, <3>1
    <3>3. QED
      BY <1>1, <2>2, <3>2 DEF Ahead
  <2>8. ASSUME NEW c \in Conns, pc[c] \in {"waiting", "build", "push"}
        PROVE  sendAt # index[c]
    BY <2>2, <2>8, WsStatusAssumption DEF Known, LockInv, ClientLockIsHeld
  <2>9. ASSUME NEW c \in Conns, Served(c), sendAt = index[c]
        PROVE  Taken \subseteq view'[c]
    <3>1. slot[sendAt] = c
      BY <1>1, <2>9 DEF Observing, Known, TableOK, SlotsOwned, In, Phase, Served
    <3>2. view'[c] = view[c] \cup ready
      BY <2>2, <2>4, <3>1
    <3>3. QED
      BY <3>2 DEF Taken
  <2>10. CompleteWhenTold' /\ NothingLost'
    BY <1>1, <2>1, <2>6 DEF CompleteWhenTold, NothingLost, Told, Served
  <2>11. FirstWaits'
    BY <1>1, <2>1, <2>7, <2>8 DEF FirstWaits
  <2>12. OldIsPassing' /\ NewIsUnparsed'
    BY <1>1, <2>1 DEF OldIsPassing, NewIsUnparsed
  <2>13. TakenIsTold'
    <3> SUFFICES ASSUME NEW c \in Conns
                 PROVE  /\ Served(c) => Taken \subseteq view'[c] \/ Ahead(c)'
                        /\ pc[c] = "push" => Taken \subseteq full \/ Ahead(c)'
      BY <1>1 DEF TakenIsTold, Taken, Served
    <3>1. /\ Served(c) => Taken \subseteq view[c] \/ Ahead(c)
          /\ pc[c] = "push" => Taken \subseteq full \/ Ahead(c)
      BY <2>1, <2>2 DEF TakenIsTold
    <3>2. QED
      BY <2>6, <2>7, <2>8, <2>9, <3>1
  <2>14. QED
    BY <2>10, <2>11, <2>12, <2>13
<1>4. QED
  BY <1>2, <1>3

\* At the end of a delivery every client has been passed.
LEMMA MissEndSend ==
  ASSUME Known, MissInv, EndSend
  PROVE  MissInv'
<1> SUFFICES ASSUME Observing'
             PROVE  (/\ CompleteWhenTold /\ FirstWaits /\ OldIsPassing
                     /\ NewIsUnparsed /\ TakenIsTold /\ NothingLost)'
  BY DEF MissInv
<1>1. /\ evpc = "deliver" /\ evpc' = "reset" /\ sendAt = MaxClients
      /\ UNCHANGED <<closePc, partial, is_observed, initialized, updated, ready, json,
                     index, full, view, pc>>
  BY DEF EndSend, Status!Delivered, Status!statusVars, Status!flagVars, tableVars, closeVars
<1>2. /\ CompleteWhenTold /\ FirstWaits /\ OldIsPassing
      /\ NewIsUnparsed /\ TakenIsTold /\ NothingLost
  BY <1>1 DEF MissInv, Observing
<1>3. \A c \in Conns : ~Ahead(c)
  <2>1. \A c \in Conns : index[c] \in 0 .. MaxClients - 1
    BY DEF Known, TableOK, Table!TypeOK, Table!Slots
  <2>2. QED
    BY <1>1, <2>1, WsStatusAssumption DEF Ahead
<1>4. \A p \in Props : json[p] # "old"
  BY <1>1, <1>2, <1>3 DEF OldIsPassing, FirstWaits
<1>5. CompleteWhenTold' /\ NothingLost'
  BY <1>1, <1>2 DEF CompleteWhenTold, NothingLost, Told, Served
<1>6. FirstWaits'
  BY <1>1, <1>2 DEF FirstWaits
<1>7. OldIsPassing' /\ NewIsUnparsed'
  BY <1>1, <1>2, <1>4 DEF OldIsPassing, NewIsUnparsed
<1>8. TakenIsTold'
  BY <1>1, <1>2, <1>3 DEF TakenIsTold, Taken, Served
<1>9. QED
  BY <1>5, <1>6, <1>7, <1>8

LEMMA MissInvInductive ==
  ASSUME Known, MissInv, [Next]_vars
  PROVE  MissInv'
<1> USE DEF statusVars, loopVars, tableVars, closeVars, sendVars, lockVars
<1>1. pc \in [Conns -> PcValues] /\ index \in [Conns -> Slots]
      /\ view \in [Conns -> SUBSET Props]
  BY DEF Known, TableOK, PcOK, Table!TypeOK, Slots, OwnTypes
<1>2. ASSUME UNCHANGED <<closePc, is_observed, partial, initialized, updated, ready,
                         json, evpc, full, sendAt, view, index, pc>>
      PROVE  MissInv'
  BY <1>2, MissFrame DEF Served
<1>3. ASSUME NEW c \in Conns,
             \/ Connect(c) \/ Refuse(c) \/ AssertOwner(c) \/ LockClient(c)
             \/ Hello(c) \/ LaterClient(c) \/ EndWait(c) \/ Receive(c) \/ Read(c)
             \/ Command(c) \/ Reply(c) \/ Leave(c) \/ CheckLast(c)
      PROVE  MissInv'
  <2>1. UNCHANGED <<is_observed, initialized, updated, ready, json, evpc>>
    BY <1>3, ThreadStep
  <2>2. UNCHANGED <<closePc, partial, full, sendAt, view, index>>
    BY <1>3 DEF Connect, Refuse, AssertOwner, LockClient, Hello, LaterClient, EndWait,
      Receive, Read, Command, Reply, Leave, CheckLast, Abort
  <2>3. \A d \in Conns :
          /\ Served(d)' => Served(d)
          /\ pc'[d] = "push" => pc[d] = "push"
          /\ pc[d] \in {"waiting", "build"} => pc'[d] \in {"waiting", "build"}
    BY <1>1, <1>3 DEF Connect, Refuse, AssertOwner, LockClient, Hello, LaterClient,
      EndWait, Receive, Read, Command, Reply, Leave, CheckLast, Abort, Goto, Served
  <2>4. QED
    BY <2>1, <2>2, <2>3, MissFrame
<1>4. ASSUME NEW c \in Conns, Admit(c) \/ Remove(c)
      PROVE  MissInv'
  <2>1. UNCHANGED <<is_observed, initialized, updated, ready, json, evpc>>
    BY <1>4, ThreadStep
  <2>2. UNCHANGED <<closePc, partial, full, sendAt>>
    BY <1>4 DEF Admit, Remove
  <2>3. /\ pc[c] \in {"adding", "removing"}
        /\ pc' = [pc EXCEPT ![c] = "admitted"] \/ pc' = [pc EXCEPT ![c] = "removed"]
        /\ \A d \in Conns \ {c} : index'[d] = index[d] /\ view'[d] = view[d]
    BY <1>1, <1>4 DEF Admit, Remove, Table!Admit, Table!Release, Goto
  <2>4. \A d \in Conns :
          /\ Served(d)' => d # c /\ Served(d)
          /\ pc'[d] = "push" => d # c /\ pc[d] = "push"
          /\ pc[d] \in {"waiting", "build"} => d # c /\ pc'[d] \in {"waiting", "build"}
    BY <1>1, <2>3 DEF Served
  <2>5. QED
    BY <2>1, <2>2, <2>3, <2>4, MissFrame
<1>5. ASSUME NEW c \in Conns, FirstClient(c)
      PROVE  MissInv'
  BY <1>2, <1>5, MissFirstClient DEF FirstClient, Abort
<1>6. ASSUME NEW c \in Conns, Unobserve(c)
      PROVE  MissInv'
  <2>1. is_observed' => UNCHANGED <<is_observed, initialized, updated, ready, json, evpc>>
    BY <1>6 DEF Unobserve, Status!StatusUnobserve, Status!vars, Status!statusVars,
                Status!flagVars, Status!loopVars
  <2>2. UNCHANGED <<closePc, partial, full, sendAt, view, index>>
    BY <1>6 DEF Unobserve
  <2>3. \A d \in Conns :
          /\ Served(d)' => Served(d)
          /\ pc'[d] = "push" => pc[d] = "push"
          /\ pc[d] \in {"waiting", "build"} => pc'[d] \in {"waiting", "build"}
    BY <1>1, <1>6 DEF Unobserve, Goto, Served
  <2>4. CASE is_observed'
    BY <2>1, <2>2, <2>3, <2>4, MissFrame
  <2>5. CASE ~is_observed'
    BY <2>5 DEF MissInv, Observing
  <2>6. QED
    BY <2>4, <2>5
<1>7. CASE Environment
  BY <1>2, <1>7, EnvironmentKeeps
<1>8. CASE CloseStart \/ ClosePeek \/ CloseClear \/ CloseBye
  BY <1>8
  DEF CloseStart, ClosePeek, CloseClear, CloseBye, Table!CloseBye, Table!CloseStart, Table!ClosePeek,
      Table!CloseClear, Table!CloseNext, MissInv, Observing
<1>9. CASE CloseLock \/ UNCHANGED vars
  BY <1>2, <1>9 DEF CloseLock, vars, eventVars
<1>10. QED
  BY <1>3, <1>4, <1>5, <1>6, <1>7, <1>8, <1>9, MissBuildFull, MissPushStatus,
     MissEventStep, MissUpdate, MissBeginSend, MissPeek, MissWrite, MissEndSend
  DEF Next, Events, Start, Answer, End

LEMMA MissInvCorrect == Spec => []MissInv
<1>1. Init => MissInv
  BY DEF Init, Status!Init, MissInv, Observing
<1>2. QED
  BY <1>1, MissInvInductive, KnownCorrect, PTL DEF Spec

\* No change is missed: while the program runs, and unless a full status was
\* built too early, every value a served client has not been told is marked as
\* an update, however clients connect, leave and are delivered to meanwhile.
THEOREM NothingMissedCorrect == Spec => []NothingMissed
<1>1. MissInv => NothingMissed
  BY DEF MissInv, Observing, NothingLost, NothingMissed
<1>2. QED
  BY <1>1, MissInvCorrect, PTL
=============================================================================
