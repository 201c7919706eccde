---------------------------- MODULE PropertyStatus ----------------------------
(***************************************************************************)
(* The property status of the webui plugin: the structure `__status` of    *)
(* onion_ws_status.h, the operations onion_ws_status.c applies to it, and  *)
(* the event loop of mpv_plugin.c that drives them.                        *)
(*                                                                         *)
(* Two kinds of thread share the structure.  The event thread takes mpv's  *)
(* events one at a time and walks through status_update and                *)
(* status_send_update; its program counter is `evpc`.  The HTTP threads    *)
(* start and stop the observation (status_observe, status_unobserve) and   *)
(* build the full status.  Every critical section on status->lock is one   *)
(* action; what the code does between two critical sections, or reads      *)
(* without the lock, is an action of its own.                              *)
(*                                                                         *)
(* Who may call the operations of the HTTP threads, and when, is the       *)
(* business of WsStatus, which composes this module with ClientTable and   *)
(* the locks.  Here they may be called at any time.                        *)
(***************************************************************************)
EXTENDS Integers, FiniteSets, Sequences

CONSTANTS
  Props,        \* the observed properties (status->props)
  Throttled,    \* those with a positive minimal_update_diff
  Pause,        \* the property "pause" (a run may leave it out of Props)
  TrackList,    \* the property "track-list"
  MaxQueue,     \* bound: pause events mpv may hold in its queue
  EarlyChanges  \* may mpv report a second value of a property while other
                \* properties still wait for their first one?

ASSUME PropsAssumption ==
  /\ IsFiniteSet(Props)
  /\ Throttled \subseteq Props
  /\ TrackList \in Props
  /\ MaxQueue \in Nat
  /\ EarlyChanges \in BOOLEAN

VARIABLES
  \* status->props[]: the flags, one set per flag
  initialized,      \* got initial data
  updated,          \* got new data since the last send
  ready,            \* selected by __search_ready_props
  held,             \* next_update_time not yet seen reached
  json,             \* what prop->json holds, see Json
  \* the counters and flags of __status
  num_initialized, num_updated, num_ready,
  is_initialized, is_observed,
  \* the event thread
  evpc, evt, pause,
  \* mpv: observations and undelivered change notifications per property,
  \* queued pause events, the pause state and the set holding the last one reported
  observations, pending, queue, paused, reported,
  \* the assertion that stopped the process, or "none"
  fault

flagVars  == <<initialized, updated, ready, held, json>>
countVars == <<num_initialized, num_updated, num_ready>>
statusVars == <<flagVars, countVars, is_initialized, is_observed>>
mpvVars   == <<observations, pending, queue, paused, reported>>
loopVars  == <<evpc, evt, pause>>
vars      == <<statusVars, mpvVars, loopVars, fault>>

\* prop->json: NULL, a text of an earlier observation, a text built from an
\* older value of this one, a text built from the newest value
Json == {"null", "old", "stale", "current"}

\* Where the event thread stands.
EvPc == {"wait", "update", "setinit", "check", "guard", "search", "count",
         "send", "deliver", "reset", "reobserve"}

NoProp == "noprop"

TypeOK ==
  /\ initialized \subseteq Props
  /\ updated \subseteq Props
  /\ ready \subseteq Props
  /\ held \subseteq Props
  /\ json \in [Props -> Json]
  /\ num_initialized \in Int
  /\ num_updated \in Int
  /\ num_ready \in Int
  /\ is_initialized \in BOOLEAN
  /\ is_observed \in BOOLEAN
  /\ evpc \in EvPc
  /\ evt \in Props \cup {NoProp}
  /\ evpc = "update" => evt \in Props
  /\ pause \in BOOLEAN
  /\ observations \in [Props -> Nat]
  /\ pending \in [Props -> Nat]
  /\ queue \in Seq(BOOLEAN)
  /\ paused \in BOOLEAN
  /\ reported \subseteq BOOLEAN
  /\ fault \in {"none", "unobserve", "reset"}

Init ==
  /\ initialized = {} /\ updated = {} /\ ready = {} /\ held = {}
  /\ json = [p \in Props |-> "null"]
  /\ num_initialized = 0 /\ num_updated = 0 /\ num_ready = 0
  /\ is_initialized = FALSE /\ is_observed = FALSE
  /\ evpc = "wait" /\ evt = NoProp
  /\ observations = [p \in Props |-> 0]
  /\ pending = [p \in Props |-> 0]
  /\ queue = <<>>
  /\ paused \in BOOLEAN
  /\ pause = paused
  /\ reported = {}
  /\ fault = "none"

\* A definition D_Suffix that stands before a definition D is a mutant of D: a
\* plausible mistake in that piece of code, under which a property below fails.

-----------------------------------------------------------------------------
(* mpv, as the code uses it and include/mpv/client.h documents it.          *)

\* A value changes; every observation of it owes one (coalesced) event.
Change(p) ==
  /\ p # Pause
  /\ observations[p] > 0
  /\ EarlyChanges \/ initialized = Props
  /\ pending' = [pending EXCEPT ![p] = observations[p]]
  /\ UNCHANGED <<statusVars, loopVars, observations, queue, paused, reported, fault>>

\* Playback is paused or resumed: the event is queued, the property change is
\* owed only if the value differs from the one last reported.
TogglePause ==
  /\ Len(queue) < MaxQueue
  /\ paused' = ~paused
  /\ queue' = Append(queue, paused')
  /\ pending' = [p \in Props |-> IF p # Pause THEN pending[p]
                               ELSE IF paused' \in reported THEN 0
                               ELSE observations[p]]
  /\ UNCHANGED <<statusVars, loopVars, observations, reported, fault>>

Observed(obs, S) == [p \in Props |-> IF p \in S THEN obs[p] + 1 ELSE obs[p]]

Unobserved_Kept(obs, S) == obs

Unobserved(obs, S) == [p \in Props |-> IF p \in S THEN 0 ELSE obs[p]]

-----------------------------------------------------------------------------
(* The operations of the HTTP threads.                                      *)

\* status_observe, when nothing is observed yet (otherwise it returns 0).
\* `ready` keeps its value: the code does not reset it here.
StatusObserve ==
  /\ ~is_observed
  /\ initialized' = {} /\ updated' = {} /\ held' = {}
  /\ json' = [p \in Props |-> "null"]
  /\ observations' = Observed(observations, Props)
  /\ pending' = Observed(pending, Props)
  /\ reported' = {}
  /\ is_observed' = TRUE
  /\ is_initialized' = FALSE
  /\ num_initialized' = 0 /\ num_updated' = 0 /\ num_ready' = 0
  /\ UNCHANGED <<ready, loopVars, queue, paused, fault>>

\* status_unobserve: exactly one observation per property must be removed.
\* The flags of the properties keep their values.
StatusUnobserve ==
  \/ ~is_observed /\ UNCHANGED vars
  \/ /\ is_observed
     /\ \E p \in Props : observations[p] # 1
     /\ fault' = "unobserve"
     /\ UNCHANGED <<statusVars, mpvVars, loopVars>>
  \/ /\ is_observed
     /\ \A p \in Props : observations[p] = 1
     /\ observations' = Unobserved(observations, Props)
     /\ pending' = Unobserved(pending, Props)
     /\ is_observed' = FALSE
     /\ is_initialized' = FALSE
     /\ num_initialized' = 0 /\ num_updated' = 0 /\ num_ready' = 0
     /\ UNCHANGED <<flagVars, loopVars, queue, paused, reported, fault>>

-----------------------------------------------------------------------------
(* The event loop.                                                          *)

\* MPV_EVENT_PAUSE and MPV_EVENT_UNPAUSE
TakePause ==
  /\ evpc = "wait"
  /\ queue # <<>>
  /\ pause' = Head(queue)
  /\ queue' = Tail(queue)
  /\ UNCHANGED <<statusVars, evpc, evt, observations, pending, paused, reported, fault>>

\* MPV_EVENT_TRACK_SWITCHED: property_reobserve("track-list") removes the
\* observation of the track list ...
TakeTrackSwitched ==
  /\ evpc = "wait"
  /\ observations' = Unobserved(observations, {TrackList})
  /\ pending' = Unobserved(pending, {TrackList})
  /\ evpc' = "reobserve"
  /\ UNCHANGED <<statusVars, evt, pause, queue, paused, reported, fault>>

\* ... and then observes it again, whether or not it was observed before.
Reobserve ==
  /\ evpc = "reobserve"
  /\ observations' = Observed(observations, {TrackList})
  /\ pending' = Observed(pending, {TrackList})
  /\ evpc' = "wait"
  /\ UNCHANGED <<statusVars, evt, pause, queue, paused, reported, fault>>

\* MPV_EVENT_PROPERTY_CHANGE is returned once the event queue is empty.
\* status_update drops an event whose userdata names no property; mpv sends none.
TakeChange_AnyUserdata(p) ==
  /\ evpc = "wait" /\ queue = <<>> /\ pending[p] > 0
  /\ pending' = [pending EXCEPT ![p] = @ - 1]
  /\ evt' \in {p, NoProp}
  /\ evpc' = "update"
  /\ UNCHANGED <<statusVars, pause, observations, queue, paused, reported, fault>>

TakeChange(p) ==
  /\ evpc = "wait"
  /\ queue = <<>>
  /\ pending[p] > 0
  /\ pending' = [pending EXCEPT ![p] = @ - 1]
  /\ evt' = p
  /\ evpc' = "update"
  /\ reported' = IF p = Pause THEN {paused} ELSE reported
  /\ UNCHANGED <<statusVars, pause, observations, queue, paused, fault>>

\* The first value of an observation initializes the property, a later one
\* counts as an update unless one is waiting already.
IsFirst(p) == p \notin initialized

IsUpdate_CountsAll(p) == p \in initialized

IsUpdate(p) == p \in initialized /\ p \notin updated

\* Have all properties got their initial data?
AllInitialized_OffByOne(n) == n > Cardinality(Props)

AllInitialized(n) == n >= Cardinality(Props)

\* property_update, up to the release of status->lock.
PropertyUpdate ==
  LET first == IsFirst(evt)
  IN
  /\ evpc = "update"
  /\ initialized' = initialized \cup {evt}
  /\ num_initialized' = num_initialized + (IF first THEN 1 ELSE 0)
  /\ updated' = IF first THEN updated ELSE updated \cup {evt}
  /\ num_updated' = num_updated + (IF IsUpdate(evt) THEN 1 ELSE 0)
  \* parse_value only while no update is waiting
  /\ json' = [json EXCEPT ![evt] =
                IF num_updated' = 0 THEN "current"
                ELSE IF @ = "null" THEN "null"
                ELSE IF first THEN "old" ELSE "stale"]
  /\ evpc' = IF ~is_initialized /\ AllInitialized(num_initialized')
             THEN "setinit" ELSE "check"
  /\ evt' = NoProp          \* it is not looked at any more
  /\ UNCHANGED <<ready, held, num_ready, is_initialized, is_observed,
                 pause, mpvVars, fault>>

\* status_set_initialized, in a critical section of its own.
SetInitialized ==
  /\ evpc = "setinit"
  /\ is_initialized' = TRUE
  /\ evpc' = "check"
  /\ UNCHANGED <<flagVars, countVars, is_observed, evt, pause, mpvVars, fault>>

\* if (status->num_updated > 0) status_send_update(...), read without the lock
CheckUpdated ==
  /\ evpc = "check"
  /\ evpc' = IF num_updated > 0 THEN "guard" ELSE "wait"
  /\ UNCHANGED <<statusVars, evt, pause, mpvVars, fault>>

\* status_send_update returns at once before the initialisation is complete.
CheckInitialized ==
  /\ evpc = "guard"
  /\ evpc' = IF is_initialized THEN "search" ELSE "wait"
  /\ UNCHANGED <<statusVars, evt, pause, mpvVars, fault>>

\* __prop_weak_ready: the properties that may be sent now; `lapsed` as below.
Due_NotForced(lapsed) == updated \ (held \ lapsed)

Due(lapsed) == IF pause THEN updated ELSE updated \ (held \ lapsed)

\* __search_ready_props.  `lapsed` are the held properties whose update time
\* the clock has reached; a forced search does not look at the time.
SearchReady(lapsed) ==
  /\ evpc = "search"
  /\ pause => lapsed = {}
  /\ held' = held \ lapsed
  /\ ready' = ready \cup Due(lapsed)
  /\ num_ready' = num_ready + Cardinality(Due(lapsed))
  /\ evpc' = "count"
  /\ UNCHANGED <<initialized, updated, json, num_initialized, num_updated,
                 is_initialized, is_observed, evt, pause, mpvVars, fault>>

\* if (status->num_ready == 0) return, read without the lock
CountReady ==
  /\ evpc = "count"
  /\ evpc' = IF num_ready = 0 THEN "wait" ELSE "send"
  /\ UNCHANGED <<statusVars, evt, pause, mpvVars, fault>>

\* parse_value on every ready property
Parsed_Kept == json

Parsed ==
  [p \in Props |-> IF p \notin ready THEN json[p]
                  ELSE IF p \in initialized THEN "current" ELSE "old"]

\* The messages are built from the newest values.
ParseReady ==
  /\ evpc = "send"
  /\ json' = Parsed
  /\ evpc' = "deliver"
  /\ UNCHANGED <<initialized, updated, ready, held, countVars, is_initialized,
                 is_observed, evt, pause, mpvVars, fault>>

\* The messages have been written to every client.
Delivered ==
  /\ evpc = "deliver"
  /\ evpc' = "reset"
  /\ UNCHANGED <<statusVars, evt, pause, mpvVars, fault>>

\* __reset_ready_props
ResetReady ==
  LET done == IF pause THEN updated ELSE ready
  IN
  /\ evpc = "reset"
  /\ IF ~(done \subseteq updated)      \* assert(prop->updated)
     THEN fault' = "reset" /\ UNCHANGED <<statusVars, loopVars, mpvVars>>
     ELSE /\ ready' = ready \ done
          /\ updated' = updated \ done
          /\ num_updated' = num_updated - Cardinality(done)
          /\ num_ready' = 0
          /\ held' = held \cup (done \cap Throttled)
          /\ evpc' = "wait"
          /\ UNCHANGED <<initialized, json, num_initialized, is_initialized,
                         is_observed, evt, pause, mpvVars, fault>>

-----------------------------------------------------------------------------
Mpv ==
  \/ \E p \in Props : Change(p)
  \/ TogglePause

EventThread ==
  \/ TakePause
  \/ TakeTrackSwitched
  \/ Reobserve
  \/ \E p \in Props : TakeChange(p)
  \/ PropertyUpdate
  \/ SetInitialized
  \/ CheckUpdated
  \/ CheckInitialized
  \/ \E lapsed \in SUBSET held : SearchReady(lapsed)
  \/ CountReady
  \/ ParseReady
  \/ Delivered
  \/ ResetReady

HttpThreads ==
  \/ StatusObserve
  \/ StatusUnobserve

\* A failed assertion stops every thread.
Next ==
  /\ fault = "none"
  /\ Mpv \/ EventThread \/ HttpThreads

Spec == Init /\ [][Next]_vars

\* The event thread is a running POSIX thread, so each of its steps is taken
\* in the end.  mpv owes every observation its change notifications, whatever
\* else happens ("You always get an initial change notification"): TakeChange
\* is strongly fair because other events and a new observation disable it in
\* between.  TakePause is strongly fair because mpv's event queue is a FIFO.
Fairness ==
  /\ WF_vars(fault = "none" /\ EventThread)
  /\ SF_vars(fault = "none" /\ TakePause)
  /\ \A p \in Props : SF_vars(fault = "none" /\ TakeChange(p))

FairSpec == Spec /\ Fairness

-----------------------------------------------------------------------------
(* Properties.                                                              *)

\* While the properties are observed, the counters that steer the event loop
\* (num_updated) and the end of the initialisation (num_initialized) agree
\* with the flags, however status_observe and status_unobserve fall between
\* the critical sections of status_send_update.
CountersMatch ==
  is_observed => /\ num_initialized = Cardinality(initialized)
                 /\ num_updated = Cardinality(updated)

\* No update is lost: a property whose prop->json is older than its value is
\* marked as updated, so that a later status_send_update sends it.
StaleIsPending ==
  \A p \in Props : json[p] = "stale" => p \in updated

\* "just one observation for each userdata exists" (status_unobserve) is true
\* of every property but the track list, which property_reobserve observes
\* again without a look at is_observed.
ObservedOnce ==
  \A p \in Props \ {TrackList} :
    observations[p] = IF is_observed THEN 1 ELSE 0

\* An update stops waiting only when a new observation starts over, or when
\* __reset_ready_props runs after its newest value was put into a message.
UpdateLeavesSent ==
  [][\A p \in Props : p \in updated /\ p \notin updated' =>
       \/ ~is_observed /\ is_observed'
       \/ evpc = "reset" /\ json[p] = "current"]_vars

\* The initialisation of an observation that is not given up completes.
InitialisationCompletes ==
  is_observed ~> (is_initialized \/ ~is_observed \/ fault # "none")

-----------------------------------------------------------------------------
(* Statements of the source that the model refutes.                         *)

\* onion_ws_status.c:1381 asserts that a property selected for sending is
\* still marked as updated when its flags are reset.
ReadyIsUpdated == fault # "reset"

\* onion_ws_status.c:1125 asserts that "just one observation for each
\* userdata exists" when the observation stops.
OneObservation == fault # "unobserve"

\* onion_ws_status.c:896-899: values that arrive during the initialisation
\* are parsed directly, so that the full status finds a text to copy.
InitialValueParsed ==
  \A p \in initialized : json[p] \notin {"null", "old"}
=============================================================================
