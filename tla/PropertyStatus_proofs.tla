------------------------- MODULE PropertyStatus_proofs -------------------------
(***************************************************************************)
(* Proofs about PropertyStatus, for every set of properties and every      *)
(* length of mpv's event queue.                                            *)
(***************************************************************************)
EXTENDS PropertyStatus, FiniteSetTheorems, TLAPS

-----------------------------------------------------------------------------
(* The strengthening under which StaleIsPending is inductive: what the      *)
(* event thread may rely on between the critical sections of               *)
(* status_send_update, although status_observe may run in between.         *)

\* Only a property with initial data can be updated.
UpdatedIsInitialized == updated \subseteq initialized

\* A forced send has selected every updated property.
DueIsReady ==
  evpc \in {"count", "send"} /\ pause => updated \subseteq ready

\* Once the messages are built, the properties whose flags will be reset have
\* their newest value in a message.
ReadyIsCurrent ==
  evpc \in {"deliver", "reset"} =>
    \A p \in updated : p \in ready \/ pause => json[p] = "current"

SendInv ==
  /\ StaleIsPending
  /\ UpdatedIsInitialized
  /\ DueIsReady
  /\ ReadyIsCurrent

-----------------------------------------------------------------------------
(* Lemmas.                                                                  *)

\* The flag sets are finite, so their cardinalities are natural numbers.
LEMMA SubsetOfProps ==
  ASSUME NEW S, S \subseteq Props
  PROVE  IsFiniteSet(S) /\ Cardinality(S) \in Nat
<1>1. IsFiniteSet(Props)
  BY PropsAssumption
<1>2. IsFiniteSet(S)
  BY <1>1, FS_Subset
<1>3. QED
  BY <1>2, FS_CardinalityType

\* Setting a flag that was not set adds one to the number of set flags.
LEMMA CountOneMore ==
  ASSUME NEW S, S \subseteq Props, NEW p
  PROVE  Cardinality(S \cup {p}) = Cardinality(S) + (IF p \in S THEN 0 ELSE 1)
<1>1. IsFiniteSet(S) /\ Cardinality(S) \in Nat
  BY SubsetOfProps
<1>2. Cardinality(S \cup {p}) = IF p \in S THEN Cardinality(S) ELSE Cardinality(S) + 1
  BY <1>1, FS_AddElement
<1>3. QED
  BY <1>1, <1>2

\* Clearing set flags takes as many from the number of set flags.
LEMMA CountFewer ==
  ASSUME NEW S, NEW T, S \subseteq Props, T \subseteq S
  PROVE  Cardinality(S \ T) = Cardinality(S) - Cardinality(T)
<1>1. IsFiniteSet(S)
  BY SubsetOfProps
<1>2. S \cap T = T
  OBVIOUS
<1>3. QED
  BY <1>1, <1>2, FS_Difference

\* Observing and giving up an observation keep the counts natural.
LEMMA ObservedType ==
  ASSUME NEW obs \in [Props -> Nat], NEW S
  PROVE  /\ Observed(obs, S) \in [Props -> Nat]
         /\ Unobserved(obs, S) \in [Props -> Nat]
BY DEF Observed, Unobserved

-----------------------------------------------------------------------------
(* Type correctness.                                                        *)

\* Every variable keeps its type, so that an event in the loop always names a
\* property of status->props.
THEOREM TypeCorrect == Spec => []TypeOK
<1>1. Init => TypeOK
  <2> SUFFICES ASSUME Init
               PROVE  TypeOK
    OBVIOUS
  <2>1. json \in [Props -> Json] /\ evpc \in EvPc
    BY DEF Init, Json, EvPc
  <2>2. observations \in [Props -> Nat] /\ pending \in [Props -> Nat]
    BY DEF Init
  <2>3. queue \in Seq(BOOLEAN)
    BY DEF Init
  <2>4. pause \in BOOLEAN /\ paused \in BOOLEAN
    BY DEF Init
  <2>5. is_initialized \in BOOLEAN /\ is_observed \in BOOLEAN
    BY DEF Init
  <2>6. num_initialized \in Int /\ num_updated \in Int /\ num_ready \in Int
    BY DEF Init
  <2>7. evpc = "update" => evt \in Props
    BY DEF Init
  <2>8. QED
    BY <2>1, <2>2, <2>3, <2>4, <2>5, <2>6, <2>7, Zenon DEF Init, TypeOK
<1>2. TypeOK /\ [Next]_vars => TypeOK'
  <2> SUFFICES ASSUME TypeOK, [Next]_vars
               PROVE  TypeOK'
    OBVIOUS
  <2> USE PropsAssumption DEF TypeOK, EvPc, Json
  <2>1. ASSUME NEW p \in Props, Change(p)
        PROVE  TypeOK'
    BY <2>1 DEF Change, statusVars, flagVars, countVars, loopVars
  <2>2. CASE TogglePause
    BY <2>2 DEF TogglePause, statusVars, flagVars, countVars, loopVars
  <2>3. CASE TakePause
    BY <2>3 DEF TakePause, statusVars, flagVars, countVars
  <2>4. CASE TakeTrackSwitched
    BY <2>4, ObservedType DEF TakeTrackSwitched, statusVars, flagVars, countVars
  <2>5. CASE Reobserve
    BY <2>5, ObservedType DEF Reobserve, statusVars, flagVars, countVars
  <2>6. ASSUME NEW p \in Props, TakeChange(p)
        PROVE  TypeOK'
    BY <2>6 DEF TakeChange, statusVars, flagVars, countVars
  <2>7. CASE PropertyUpdate
    BY <2>7 DEF PropertyUpdate, IsFirst, IsUpdate, AllInitialized, mpvVars, NoProp
  <2>8. CASE SetInitialized
    BY <2>8 DEF SetInitialized, mpvVars, flagVars, countVars
  <2>9. CASE CheckUpdated
    BY <2>9 DEF CheckUpdated, statusVars, flagVars, countVars, mpvVars
  <2>10. CASE CheckInitialized
    BY <2>10 DEF CheckInitialized, statusVars, flagVars, countVars, mpvVars
  <2>11. ASSUME NEW lapsed \in SUBSET held, SearchReady(lapsed)
         PROVE  TypeOK'
    <3>1. Due(lapsed) \subseteq Props
      BY DEF Due
    <3>2. Cardinality(Due(lapsed)) \in Nat
      BY <3>1, SubsetOfProps
    <3>3. QED
      BY <2>11, <3>1, <3>2 DEF SearchReady, mpvVars
  <2>12. CASE CountReady
    BY <2>12 DEF CountReady, statusVars, flagVars, countVars, mpvVars
  <2>13. CASE ParseReady
    BY <2>13 DEF ParseReady, Parsed, countVars, mpvVars
  <2>14. CASE Delivered
    BY <2>14 DEF Delivered, statusVars, flagVars, countVars, mpvVars
  <2>15. CASE ResetReady
    <3> DEFINE done == IF pause THEN updated ELSE ready
    <3>1. done \subseteq Props
      OBVIOUS
    <3>2. Cardinality(done) \in Nat
      <4> HIDE DEF done
      <4> QED BY <3>1, SubsetOfProps
    <3>3. CASE ~(done \subseteq updated)
      BY <2>15, <3>3 DEF ResetReady, statusVars, flagVars, countVars, loopVars, mpvVars
    <3>4. CASE done \subseteq updated
      <4>1. /\ ready' = ready \ done
            /\ updated' = updated \ done
            /\ num_updated' = num_updated - Cardinality(done)
            /\ num_ready' = 0
            /\ held' = held \cup (done \cap Throttled)
            /\ evpc' = "wait"
            /\ UNCHANGED <<initialized, json, num_initialized, is_initialized,
                           is_observed, evt, pause, mpvVars, fault>>
        BY <2>15, <3>4 DEF ResetReady
      <4> HIDE DEF done
      <4>2. QED
        BY <4>1, <3>1, <3>2 DEF mpvVars
    <3>5. QED
      BY <3>3, <3>4
  <2>16. CASE StatusObserve
    <3>1. observations' \in [Props -> Nat] /\ pending' \in [Props -> Nat]
      BY <2>16, ObservedType DEF StatusObserve
    <3>2. json' \in [Props -> Json]
      BY <2>16 DEF StatusObserve
    <3>3. is_initialized' \in BOOLEAN /\ is_observed' \in BOOLEAN
      BY <2>16 DEF StatusObserve
    <3>4. num_initialized' \in Int /\ num_updated' \in Int /\ num_ready' \in Int
      BY <2>16 DEF StatusObserve
    <3>5. UNCHANGED <<ready, evpc, evt, pause, queue, paused, fault>>
      BY <2>16 DEF StatusObserve, loopVars
    <3>6. initialized' = {} /\ updated' = {} /\ held' = {} /\ reported' = {}
      BY <2>16 DEF StatusObserve
    <3>7. QED
      BY <3>1, <3>2, <3>3, <3>4, <3>5, <3>6
  <2>17. CASE StatusUnobserve
    <3>1. CASE UNCHANGED vars
      BY <3>1 DEF vars, statusVars, flagVars, countVars, loopVars, mpvVars
    <3>2. CASE fault' = "unobserve" /\ UNCHANGED <<statusVars, mpvVars, loopVars>>
      BY <3>2 DEF statusVars, flagVars, countVars, loopVars, mpvVars
    <3>3. CASE /\ observations' = Unobserved(observations, Props)
               /\ pending' = Unobserved(pending, Props)
               /\ is_observed' = FALSE
               /\ is_initialized' = FALSE
               /\ num_initialized' = 0 /\ num_updated' = 0 /\ num_ready' = 0
               /\ UNCHANGED <<flagVars, loopVars, queue, paused, reported, fault>>
      <4>1. observations' \in [Props -> Nat] /\ pending' \in [Props -> Nat]
        BY <3>3, ObservedType
      <4>2. is_initialized' \in BOOLEAN /\ is_observed' \in BOOLEAN
        BY <3>3
      <4>3. QED
        BY <3>3, <4>1, <4>2 DEF flagVars, loopVars
    <3>4. QED
      BY <2>17, <3>1, <3>2, <3>3 DEF StatusUnobserve
  <2>18. CASE UNCHANGED vars
    BY <2>18 DEF vars, statusVars, flagVars, countVars, loopVars, mpvVars
  <2>19. QED
    BY <2>1, <2>2, <2>3, <2>4, <2>5, <2>6, <2>7, <2>8, <2>9, <2>10, <2>11, <2>12,
       <2>13, <2>14, <2>15, <2>16, <2>17, <2>18
    DEF Next, Mpv, EventThread, HttpThreads
<1>3. QED
  BY <1>1, <1>2, PTL DEF Spec

-----------------------------------------------------------------------------
(* The counters.                                                            *)

\* While the properties are observed, num_initialized and num_updated are the
\* numbers of initialized and updated properties: property_update,
\* __reset_ready_props, status_observe and status_unobserve keep them so.
THEOREM CountersCorrect == Spec => []CountersMatch
<1>1. Init => CountersMatch
  BY DEF Init, CountersMatch
<1>2. TypeOK /\ CountersMatch /\ [Next]_vars => CountersMatch'
  <2> SUFFICES ASSUME TypeOK, CountersMatch, [Next]_vars
               PROVE  CountersMatch'
    OBVIOUS
  <2>1. initialized \subseteq Props /\ updated \subseteq Props /\ ready \subseteq Props
    BY DEF TypeOK
  <2>2. CASE PropertyUpdate
    <3>1. CASE IsFirst(evt)
      <4>1. Cardinality(initialized \cup {evt}) = Cardinality(initialized) + 1
        BY <2>1, <3>1, CountOneMore DEF IsFirst
      <4>2. QED
        BY <2>2, <3>1, <4>1
        DEF PropertyUpdate, IsFirst, IsUpdate, CountersMatch, TypeOK
    <3>2. CASE ~IsFirst(evt)
      <4>1. initialized \cup {evt} = initialized
        BY <3>2 DEF IsFirst
      <4>2. Cardinality(updated \cup {evt}) =
              Cardinality(updated) + (IF evt \in updated THEN 0 ELSE 1)
        BY <2>1, CountOneMore
      <4>3. /\ initialized' = initialized
            /\ num_initialized' = num_initialized
            /\ is_observed' = is_observed
            /\ updated' = updated \cup {evt}
        BY <2>2, <3>2, <4>1 DEF PropertyUpdate, IsFirst, TypeOK
      <4>4. num_updated' = num_updated + (IF evt \in updated THEN 0 ELSE 1)
        BY <2>2, <3>2 DEF PropertyUpdate, IsFirst, IsUpdate
      <4>5. QED
        BY <4>2, <4>3, <4>4 DEF CountersMatch
    <3>3. QED
      BY <3>1, <3>2
  <2>3. CASE ResetReady
    <3> DEFINE done == IF pause THEN updated ELSE ready
    <3>1. CASE ~(done \subseteq updated)
      BY <2>3, <3>1 DEF ResetReady, statusVars, flagVars, countVars, CountersMatch
    <3>2. CASE done \subseteq updated
      <4>1. Cardinality(updated \ done) = Cardinality(updated) - Cardinality(done)
        <5> HIDE DEF done
        <5> QED BY <2>1, <3>2, CountFewer
      <4>2. /\ updated' = updated \ done
            /\ num_updated' = num_updated - Cardinality(done)
            /\ UNCHANGED <<initialized, num_initialized, is_observed>>
        BY <2>3, <3>2 DEF ResetReady
      <4>3. QED
        BY <4>1, <4>2 DEF CountersMatch
    <3>3. QED
      BY <3>1, <3>2
  <2>4. CASE StatusObserve
    BY <2>4, FS_EmptySet DEF StatusObserve, CountersMatch
  <2>5. CASE StatusUnobserve
    BY <2>5 DEF StatusUnobserve, CountersMatch, vars, statusVars, flagVars, countVars
  <2>6. CASE UNCHANGED <<initialized, updated, num_initialized, num_updated, is_observed>>
    BY <2>6 DEF CountersMatch
  <2>7. QED
    <3>1. ASSUME NEW p \in Props, Change(p) \/ TakeChange(p)
          PROVE  CountersMatch'
      BY <3>1, <2>6 DEF Change, TakeChange, statusVars, flagVars, countVars
    <3>2. CASE TogglePause \/ TakePause \/ TakeTrackSwitched \/ Reobserve
      BY <3>2, <2>6
      DEF TogglePause, TakePause, TakeTrackSwitched, Reobserve, statusVars,
          flagVars, countVars
    <3>3. CASE SetInitialized \/ CheckUpdated \/ CheckInitialized \/ CountReady \/ Delivered
      BY <3>3, <2>6
      DEF SetInitialized, CheckUpdated, CheckInitialized, CountReady, Delivered,
          statusVars, flagVars, countVars
    <3>4. ASSUME NEW lapsed \in SUBSET held, SearchReady(lapsed)
          PROVE  CountersMatch'
      BY <3>4, <2>6 DEF SearchReady
    <3>5. CASE ParseReady
      BY <3>5, <2>6 DEF ParseReady, countVars
    <3>6. CASE UNCHANGED vars
      BY <3>6, <2>6 DEF vars, statusVars, flagVars, countVars
    <3>7. QED
      BY <2>2, <2>3, <2>4, <2>5, <3>1, <3>2, <3>3, <3>4, <3>5, <3>6
      DEF Next, Mpv, EventThread, HttpThreads
<1>3. QED
  BY <1>1, <1>2, TypeCorrect, PTL DEF Spec

-----------------------------------------------------------------------------
(* The observations.                                                        *)

\* Every property but the track list has one observation while the plugin
\* observes and none otherwise, so that the assertion of status_unobserve can
\* only fail for the track list.
THEOREM ObservationsCorrect == Spec => []ObservedOnce
<1>1. Init => ObservedOnce
  BY DEF Init, ObservedOnce
<1>2. TypeOK /\ ObservedOnce /\ [Next]_vars => ObservedOnce'
  <2> SUFFICES ASSUME TypeOK, ObservedOnce, [Next]_vars,
                      NEW p \in Props \ {TrackList}
               PROVE  observations'[p] = IF is_observed' THEN 1 ELSE 0
    BY DEF ObservedOnce
  <2>1. observations[p] = IF is_observed THEN 1 ELSE 0
    BY DEF ObservedOnce
  <2>2. CASE StatusObserve
    BY <2>1, <2>2 DEF StatusObserve, Observed
  <2>3. CASE StatusUnobserve
    BY <2>1, <2>3 DEF StatusUnobserve, Unobserved, vars, statusVars, mpvVars
  <2>4. CASE TakeTrackSwitched \/ Reobserve
    BY <2>1, <2>4 DEF TakeTrackSwitched, Reobserve, Observed, Unobserved, statusVars
  <2>5. CASE UNCHANGED <<observations, is_observed>>
    BY <2>1, <2>5
  <2>6. QED
    <3>1. ASSUME NEW q \in Props, Change(q) \/ TakeChange(q)
          PROVE  UNCHANGED <<observations, is_observed>>
      BY <3>1 DEF Change, TakeChange, statusVars
    <3>2. CASE TogglePause \/ TakePause
      BY <3>2, <2>5 DEF TogglePause, TakePause, statusVars
    <3>3. CASE PropertyUpdate \/ SetInitialized \/ ParseReady
      BY <3>3, <2>5 DEF PropertyUpdate, SetInitialized, ParseReady, mpvVars
    <3>4. CASE CheckUpdated \/ CheckInitialized \/ CountReady \/ Delivered
      BY <3>4, <2>5
      DEF CheckUpdated, CheckInitialized, CountReady, Delivered, statusVars, mpvVars
    <3>5. ASSUME NEW lapsed \in SUBSET held, SearchReady(lapsed)
          PROVE  UNCHANGED <<observations, is_observed>>
      BY <3>5 DEF SearchReady, mpvVars
    <3>6. CASE ResetReady
      BY <3>6, <2>5 DEF ResetReady, statusVars, mpvVars
    <3>7. CASE UNCHANGED vars
      BY <3>7, <2>5 DEF vars, statusVars, mpvVars
    <3>8. QED
      BY <2>2, <2>3, <2>4, <2>5, <3>1, <3>2, <3>3, <3>4, <3>5, <3>6, <3>7
      DEF Next, Mpv, EventThread, HttpThreads
<1>3. QED
  BY <1>1, <1>2, TypeCorrect, PTL DEF Spec

-----------------------------------------------------------------------------
(* The updates.                                                             *)

\* The event thread's steps that leave the flags, the texts and `pause` alone.
LEMMA SendInvFrame ==
  ASSUME SendInv,
         UNCHANGED <<initialized, updated, ready, json>>,
         pause' = pause,
         evpc' \in {"wait", "update", "setinit", "check", "guard", "search", "reobserve"}
           \/ evpc' = evpc
  PROVE  SendInv'
BY DEF SendInv, StaleIsPending, UpdatedIsInitialized, DueIsReady, ReadyIsCurrent

\* A property that is put into a message has its newest value in it, and stays
\* marked as updated until then: what ties the four parts of SendInv together.
LEMMA SendInvInductive ==
  ASSUME TypeOK, SendInv, [Next]_vars
  PROVE  SendInv'
<1> USE DEF StaleIsPending, UpdatedIsInitialized, DueIsReady, ReadyIsCurrent
<1>1. CASE PropertyUpdate
  <2>1. evt \in Props
    BY <1>1 DEF PropertyUpdate, TypeOK
  <2>2. evpc' \in {"setinit", "check"}
    BY <1>1 DEF PropertyUpdate
  <2>3. /\ initialized' = initialized \cup {evt}
        /\ updated' = IF IsFirst(evt) THEN updated ELSE updated \cup {evt}
    BY <1>1 DEF PropertyUpdate
  <2>4. StaleIsPending'
    <3> SUFFICES ASSUME NEW p \in Props, json'[p] = "stale"
                 PROVE  p \in updated'
      OBVIOUS
    <3>1. CASE p # evt
      <4>1. json'[p] = json[p]
        BY <1>1, <3>1 DEF PropertyUpdate, TypeOK
      <4>2. QED
        BY <2>3, <4>1 DEF SendInv
    <3>2. CASE p = evt
      <4>1. ~IsFirst(evt)
        BY <1>1, <2>1, <3>2 DEF PropertyUpdate, TypeOK
      <4>2. QED
        BY <2>3, <3>2, <4>1
    <3>3. QED
      BY <3>1, <3>2
  <2>5. UpdatedIsInitialized'
    BY <2>3 DEF SendInv
  <2>6. QED
    BY <2>2, <2>4, <2>5 DEF SendInv
<1>2. ASSUME NEW lapsed \in SUBSET held, SearchReady(lapsed)
      PROVE  SendInv'
  <2>1. UNCHANGED <<initialized, updated, json, pause>>
    BY <1>2 DEF SearchReady
  <2>2. evpc' = "count" /\ ready' = ready \cup Due(lapsed)
    BY <1>2 DEF SearchReady
  <2>3. pause => updated \subseteq ready'
    BY <2>2 DEF Due
  <2>4. QED
    BY <2>1, <2>2, <2>3 DEF SendInv
<1>3. CASE CountReady
  <2>1. UNCHANGED <<initialized, updated, ready, json, pause>>
    BY <1>3 DEF CountReady, statusVars, flagVars
  <2>2. evpc = "count" /\ evpc' \in {"wait", "send"}
    BY <1>3 DEF CountReady
  <2>3. QED
    BY <2>1, <2>2 DEF SendInv
<1>4. CASE ParseReady
  <2>1. UNCHANGED <<initialized, updated, ready, pause>>
    BY <1>4 DEF ParseReady
  <2>2. evpc = "send" /\ evpc' = "deliver"
    BY <1>4 DEF ParseReady
  <2>3. \A p \in Props : json'[p] = IF p \notin ready THEN json[p]
                                   ELSE IF p \in initialized THEN "current" ELSE "old"
    BY <1>4 DEF ParseReady, Parsed
  <2>4. updated \subseteq Props
    BY DEF TypeOK
  <2>5. StaleIsPending'
    BY <2>1, <2>3 DEF SendInv
  <2>6. ReadyIsCurrent'
    BY <2>1, <2>2, <2>3, <2>4 DEF SendInv
  <2>7. QED
    BY <2>1, <2>2, <2>5, <2>6 DEF SendInv
<1>5. CASE Delivered
  <2>1. UNCHANGED <<initialized, updated, ready, json, pause>>
    BY <1>5 DEF Delivered, statusVars, flagVars
  <2>2. evpc = "deliver" /\ evpc' = "reset"
    BY <1>5 DEF Delivered
  <2>3. QED
    BY <2>1, <2>2 DEF SendInv
<1>6. CASE ResetReady
  <2> DEFINE done == IF pause THEN updated ELSE ready
  <2>1. CASE ~(done \subseteq updated)
    <3>1. UNCHANGED <<initialized, updated, ready, json, pause, evpc>>
      BY <1>6, <2>1 DEF ResetReady, statusVars, flagVars, loopVars
    <3>2. QED
      BY <3>1, SendInvFrame
  <2>2. CASE done \subseteq updated
    <3>1. /\ updated' = updated \ done
          /\ UNCHANGED <<initialized, json>>
          /\ evpc' = "wait"
      BY <1>6, <2>2 DEF ResetReady
    <3>2. \A p \in done : json[p] = "current"
      BY <1>6, <2>2 DEF ResetReady, SendInv
    <3> HIDE DEF done
    <3>3. StaleIsPending'
      BY <3>1, <3>2 DEF SendInv
    <3>4. QED
      BY <3>1, <3>3 DEF SendInv
  <2>3. QED
    BY <2>1, <2>2
<1>7. CASE StatusObserve
  <2>1. updated' = {} /\ \A p \in Props : json'[p] = "null"
    BY <1>7 DEF StatusObserve
  <2>2. QED
    BY <2>1 DEF SendInv
<1>8. CASE StatusUnobserve
  <2>1. UNCHANGED <<initialized, updated, ready, json, pause, evpc>>
    BY <1>8 DEF StatusUnobserve, vars, statusVars, flagVars, loopVars
  <2>2. QED
    BY <2>1, SendInvFrame
<1>9. ASSUME NEW p \in Props, Change(p) \/ TakeChange(p)
      PROVE  SendInv'
  <2>1. UNCHANGED <<initialized, updated, ready, json, pause>>
    BY <1>9 DEF Change, TakeChange, statusVars, flagVars, loopVars
  <2>2. evpc' = "update" \/ evpc' = evpc
    BY <1>9 DEF Change, TakeChange, loopVars
  <2>3. QED
    BY <2>1, <2>2, SendInvFrame
<1>10. CASE TakePause
  <2>1. evpc = "wait" /\ UNCHANGED <<initialized, updated, json, evpc>>
    BY <1>10 DEF TakePause, statusVars, flagVars
  <2>2. QED
    BY <2>1 DEF SendInv
<1>11. CASE TogglePause \/ TakeTrackSwitched \/ Reobserve
  <2>1. UNCHANGED <<initialized, updated, ready, json, pause>>
    BY <1>11 DEF TogglePause, TakeTrackSwitched, Reobserve, statusVars, flagVars, loopVars
  <2>2. evpc' \in {"wait", "reobserve"} \/ evpc' = evpc
    BY <1>11 DEF TogglePause, TakeTrackSwitched, Reobserve, loopVars
  <2>3. QED
    BY <2>1, <2>2, SendInvFrame
<1>12. CASE SetInitialized \/ CheckUpdated \/ CheckInitialized
  <2>1. UNCHANGED <<initialized, updated, ready, json, pause>>
    BY <1>12 DEF SetInitialized, CheckUpdated, CheckInitialized, statusVars, flagVars
  <2>2. evpc' \in {"check", "guard", "wait", "search"}
    BY <1>12 DEF SetInitialized, CheckUpdated, CheckInitialized
  <2>3. QED
    BY <2>1, <2>2, SendInvFrame
<1>13. CASE UNCHANGED vars
  BY <1>13, SendInvFrame DEF vars, statusVars, flagVars, loopVars
<1>14. QED
  BY <1>1, <1>2, <1>3, <1>4, <1>5, <1>6, <1>7, <1>8, <1>9, <1>10, <1>11, <1>12, <1>13
  DEF Next, Mpv, EventThread, HttpThreads

LEMMA SendInvCorrect == Spec => []SendInv
<1>1. Init => SendInv
  BY DEF Init, SendInv, StaleIsPending, UpdatedIsInitialized, DueIsReady, ReadyIsCurrent
<1>2. QED
  BY <1>1, SendInvInductive, TypeCorrect, PTL DEF Spec

\* A property whose text is out of date is marked as updated, whatever
\* status_observe and status_unobserve do in the middle of a send: no change
\* is forgotten.
THEOREM NoUpdateLost == Spec => []StaleIsPending
BY SendInvCorrect, PTL DEF SendInv

\* The mark of an update is taken away only by a new observation, or by
\* __reset_ready_props after the newest value has been put into a message.
THEOREM UpdatesAreSent == Spec => UpdateLeavesSent
<1>1. ASSUME SendInv, [Next]_vars,
             NEW p \in Props, p \in updated, p \notin updated'
      PROVE  \/ ~is_observed /\ is_observed'
             \/ evpc = "reset" /\ json[p] = "current"
  <2>1. CASE StatusObserve
    BY <2>1 DEF StatusObserve
  <2>2. CASE ResetReady
    BY <1>1, <2>2
    DEF ResetReady, SendInv, ReadyIsCurrent, statusVars, flagVars
  <2>3. CASE PropertyUpdate
    BY <1>1, <2>3 DEF PropertyUpdate
  <2>4. CASE StatusUnobserve
    BY <1>1, <2>4 DEF StatusUnobserve, vars, statusVars, flagVars
  <2>5. CASE UNCHANGED updated
    BY <1>1, <2>5
  <2>6. QED
    BY <1>1, <2>1, <2>2, <2>3, <2>4, <2>5
    DEF Next, Mpv, EventThread, HttpThreads, Change, TogglePause, TakePause,
        TakeTrackSwitched, Reobserve, TakeChange, SetInitialized, CheckUpdated,
        CheckInitialized, SearchReady, CountReady, ParseReady, Delivered,
        vars, statusVars, flagVars
<1>2. SendInv /\ [Next]_vars =>
        [\A p \in Props : p \in updated /\ p \notin updated' =>
           \/ ~is_observed /\ is_observed'
           \/ evpc = "reset" /\ json[p] = "current"]_vars
  BY <1>1
<1>3. QED
  BY <1>2, SendInvCorrect, PTL DEF Spec, UpdateLeavesSent
=============================================================================
