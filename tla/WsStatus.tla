------------------------------- MODULE WsStatus -------------------------------
(***************************************************************************)
(* The websocket status service of the webui plugin: the threads of        *)
(* onion_ws_status.c and mpv_plugin.c, their locks, and the status each    *)
(* client has been told.                                                   *)
(*                                                                         *)
(* It composes ClientTable (the slots) and PropertyStatus (the properties  *)
(* and the event loop) and adds                                            *)
(*   - the handlers ws_status_start, ws_status_cont and ws_userdata_free,  *)
(*     one thread per connection, with the place of each thread in `pc`;   *)
(*   - the locks: websockets->lock (wsLock), the lock of every slot        *)
(*     (clientLock) and status->lock (statusHeld).  status->lock is held   *)
(*     over more than one step only in send_to_all_clients1; elsewhere its *)
(*     critical section takes no other lock and is one action.  mpv_lock   *)
(*     is held by the event thread exactly while evpc # "wait", and a      *)
(*     handler takes it only around a command to mpv;                      *)
(*   - the wait of the first client for init_done;                         *)
(*   - the delivery of a status_diff to the slots, one by one.             *)
(***************************************************************************)
EXTENDS Integers, FiniteSets, Sequences

CONSTANTS
  Conns, MaxClients, None,                          \* as in ClientTable
  Props, Throttled, Pause, TrackList,               \* as in PropertyStatus
  MaxQueue, EarlyChanges,
  TrackSwitches,  \* does mpv send MPV_EVENT_TRACK_SWITCHED?
  Shutdown        \* may the program end?

ASSUME WsStatusAssumption ==
  /\ IsFiniteSet(Conns)
  /\ MaxClients \in Nat \ {0}
  /\ None \notin Conns
  /\ "mpv" \notin Conns \cup {None}
  /\ IsFiniteSet(Props) /\ Throttled \subseteq Props
  /\ TrackList \in Props
  /\ MaxQueue \in Nat
  /\ {EarlyChanges, TrackSwitches, Shutdown} \subseteq BOOLEAN

VARIABLES
  \* ClientTable
  slot, numActive, index, closePc, closeAt, closeWs, closeFault,
  \* PropertyStatus
  initialized, updated, ready, held, json,
  num_initialized, num_updated, num_ready, is_initialized, is_observed,
  evpc, evt, pause, observations, pending, queue, paused, reported, fault,
  \* threads and locks
  pc,          \* where the thread of a connection stands
  wsLock,      \* owner of websockets->lock
  clientLock,  \* owner of each slot's lock
  statusHeld,  \* does send_to_all_clients1 hold status->lock?
  callbacks,   \* connections whose websocket has the callback ws_status_cont
  \* the messages
  full,        \* properties whose newest value is in status->json
  diff,        \* properties in the status_diff being sent
  sendAt,      \* the slot the event thread delivers to
  writing,     \* it has found a websocket there
  view,        \* properties whose newest value a client has been told
  partial      \* a full status of this observation was built before every
               \* property had a value

\* The event thread, which is also the one that runs clients_close.
EventThread == "mpv"
Threads == Conns \cup {EventThread}

\* The connection threads of ClientTable's phases.
Phase(p) ==
  CASE p \in {"idle", "adding"} -> "out"
    [] p \in {"removed", "unobserve"} -> "removed"
    [] OTHER -> "in"

Table == INSTANCE ClientTable WITH phase <- [c \in Conns |-> Phase(pc[c])]
Status == INSTANCE PropertyStatus

tableVars  == <<slot, numActive, index>>
closeVars  == <<closePc, closeAt, closeWs, closeFault, callbacks>>
statusVars == <<initialized, updated, ready, held, json, num_initialized,
                num_updated, num_ready, is_initialized, is_observed>>
mpvVars    == <<observations, pending, queue, paused, reported>>
loopVars   == <<evpc, evt, pause>>
eventVars  == <<statusVars, mpvVars, loopVars, fault>>
lockVars   == <<wsLock, clientLock, statusHeld>>
sendVars   == <<full, diff, sendAt, writing, view, partial>>
vars == <<tableVars, closeVars, eventVars, pc, lockVars, sendVars>>

PcValues == {"idle", "adding", "admitted", "tolock", "hello", "choose",
             "waiting", "build", "push", "open", "reading", "command",
             "reply", "removing", "removed", "unobserve"}

\* A client that got its first full status.
Served(c) == pc[c] \in {"open", "reading", "command", "reply"}

Slots == Table!Slots

TypeOK ==
  /\ Table!TypeOK
  /\ pc \in [Conns -> PcValues]
  /\ wsLock \in Threads \cup {None}
  /\ clientLock \in [Slots -> Threads \cup {None}]
  /\ statusHeld \in BOOLEAN
  /\ callbacks \subseteq Conns
  /\ full \subseteq Props
  /\ diff \subseteq Props
  /\ sendAt \in 0 .. MaxClients
  /\ writing \in BOOLEAN
  /\ view \in [Conns -> SUBSET Props]
  /\ partial \in BOOLEAN

Init ==
  /\ Table!TableInit /\ Table!CloseInit
  /\ Status!Init
  /\ pc = [c \in Conns |-> "idle"]
  /\ wsLock = None
  /\ clientLock = [i \in Slots |-> None]
  /\ statusHeld = FALSE
  /\ callbacks = {}
  /\ full = {} /\ diff = {}
  /\ sendAt = 0 /\ writing = FALSE
  /\ view = [c \in Conns |-> {}]
  /\ partial = FALSE

-----------------------------------------------------------------------------
(* Helpers of the threads.                                                  *)

Goto(c, from, to) ==
  /\ pc[c] = from
  /\ pc' = [pc EXCEPT ![c] = to]

TakeWs(t)  == wsLock = None /\ wsLock' = t
FreeWs(t)  == wsLock = t /\ wsLock' = None

\* pthread_mutex_lock followed by an unlock in the same action
ClientIsFree(i) == clientLock[i] = None
StatusIsFree    == ~statusHeld

\* An assert of the connection threads, or a NULL pointer, ends the process.
Abort(why) ==
  /\ fault' = why
  /\ UNCHANGED <<tableVars, closeVars, statusVars, mpvVars, loopVars, pc,
                 lockVars, sendVars>>

-----------------------------------------------------------------------------
(* ws_status_start                                                          *)

\* add_client takes websockets->lock and looks for a free slot ...
Connect(c) ==
  /\ Goto(c, "idle", "adding")
  /\ TakeWs(c)
  /\ UNCHANGED <<tableVars, closeVars, eventVars,
                 clientLock, statusHeld, sendVars>>

\* ... finds none and the client is turned away ...
Refuse(c) ==
  /\ Table!Full
  /\ Goto(c, "adding", "idle")
  /\ FreeWs(c)
  /\ UNCHANGED <<tableVars, closeVars, eventVars,
                 clientLock, statusHeld, sendVars>>

\* ... or fills it under the slot's lock.
Admit(c) ==
  /\ Goto(c, "adding", "admitted")
  /\ FreeWs(c)
  /\ \E n \in Slots : ClientIsFree(n) /\ Table!Admit(c, n)
  /\ UNCHANGED <<closeVars, eventVars, clientLock, statusHeld, sendVars>>

\* assert( client->ws == ws )
AssertOwner(c) ==
  /\ pc[c] = "admitted"
  /\ IF slot[index[c]] # c
     THEN Abort("owner")
     ELSE /\ Goto(c, "admitted", "tolock")
          /\ UNCHANGED <<tableVars, closeVars, eventVars, lockVars, sendVars>>

LockClient(c) ==
  /\ Goto(c, "tolock", "hello")
  /\ ClientIsFree(index[c])
  /\ clientLock' = [clientLock EXCEPT ![index[c]] = c]
  /\ UNCHANGED <<tableVars, closeVars, eventVars,
                 wsLock, statusHeld, sendVars>>

\* The hello message is out; websockets->lock is taken under client->lock.
Hello(c) ==
  /\ Goto(c, "hello", "choose")
  /\ TakeWs(c)
  /\ UNCHANGED <<tableVars, closeVars, eventVars,
                 clientLock, statusHeld, sendVars>>

\* The first client starts the observation; it must not be running yet.
FirstClient(c) ==
  /\ pc[c] = "choose"
  /\ numActive = 1
  /\ IF is_observed
     THEN Abort("multiple")
     ELSE /\ StatusIsFree
          /\ Status!StatusObserve
          /\ Goto(c, "choose", "waiting")
          /\ partial' = FALSE
          /\ UNCHANGED <<tableVars, closeVars, lockVars, full, diff, sendAt,
                         writing, view>>

\* (D_Suffix before a definition D is a mutant of D, as in PropertyStatus.)
LaterClient_NotRebuilt(c) ==
  /\ numActive # 1
  /\ Goto(c, "choose", "push")
  /\ FreeWs(c)
  /\ UNCHANGED <<tableVars, closeVars, eventVars, clientLock, statusHeld, sendVars>>

\* Any other client takes the values there are.
LaterClient(c) ==
  /\ numActive # 1
  /\ Goto(c, "choose", "build")
  /\ UNCHANGED <<tableVars, closeVars, eventVars,
                 lockVars, sendVars>>

\* pthread_cond_timedwait(init_done) returns after the signal, after five
\* seconds or spuriously.  The code goes on in the same way and looks at no
\* predicate; a signal sent before the wait began is lost.
EndWait(c) ==
  /\ Goto(c, "waiting", "build")
  /\ UNCHANGED <<tableVars, closeVars, eventVars, lockVars, sendVars>>

\* status_build_full_json copies prop->json of every initialized property.
BuildFull(c) ==
  /\ pc[c] = "build"
  /\ StatusIsFree
  /\ IF \E p \in initialized : json[p] = "null"
     THEN Abort("nulljson")
     ELSE /\ full' = {p \in initialized : json[p] = "current"}
          /\ Goto(c, "build", "push")
          /\ FreeWs(c)
          /\ partial' = (partial \/ initialized # Props)
          /\ UNCHANGED <<tableVars, closeVars, eventVars, clientLock,
                         statusHeld, diff, sendAt, writing, view>>

\* The status is sent to the websocket in the slot, its callback is set and
\* client->lock is released.
PushStatus(c) ==
  /\ pc[c] = "push"
  /\ StatusIsFree
  /\ IF slot[index[c]] = None         \* assert( client->ws != NULL )
     THEN Abort("push")
     ELSE /\ Goto(c, "push", "open")
          /\ view' = [view EXCEPT ![slot[index[c]]] = full]
          /\ callbacks' = callbacks \cup {slot[index[c]]}
          /\ clientLock' = [clientLock EXCEPT ![index[c]] = None]
          /\ UNCHANGED <<tableVars, closePc, closeAt, closeWs, closeFault,
                         eventVars, wsLock, statusHeld,
                         full, diff, sendAt, writing, partial>>

-----------------------------------------------------------------------------
(* ws_status_cont                                                           *)

\* A message arrives: libonion calls the callback, which compares its websocket
\* with the one in the slot, without a lock.
Receive(c) ==
  /\ pc[c] = "open"
  /\ c \in callbacks
  /\ IF slot[index[c]] # c
     THEN Abort("owner")
     ELSE /\ Goto(c, "open", "reading")
          /\ UNCHANGED <<tableVars, closeVars, eventVars, lockVars, sendVars>>

\* The message is read from the websocket that is in the slot by then, under
\* client->lock.  A pong, and a message that cannot be read, end here.
Read(c) ==
  /\ pc[c] = "reading"
  /\ ClientIsFree(index[c])
  /\ IF slot[index[c]] = None
     THEN Abort("nullws")
     ELSE /\ Goto(c, "reading", "command") \/ Goto(c, "reading", "open")
          /\ UNCHANGED <<tableVars, closeVars, eventVars, lockVars, sendVars>>

\* handle_command_p2 runs the command under mpv_lock.
Command(c) ==
  /\ Goto(c, "command", "reply")
  /\ evpc = "wait"
  /\ UNCHANGED <<tableVars, closeVars, eventVars,
                 lockVars, sendVars>>

Reply(c) ==
  /\ Goto(c, "reply", "open")
  /\ ClientIsFree(index[c])
  /\ UNCHANGED <<tableVars, closeVars, eventVars,
                 lockVars, sendVars>>

-----------------------------------------------------------------------------
(* ws_userdata_free                                                         *)

\* The connection ends: remove_client takes websockets->lock ...
Leave(c) ==
  /\ Goto(c, "open", "removing")
  /\ TakeWs(c)
  /\ UNCHANGED <<tableVars, closeVars, eventVars,
                 clientLock, statusHeld, sendVars>>

Remove_NotCounted(c) ==
  /\ Goto(c, "removing", "removed")
  /\ FreeWs(c)
  /\ ClientIsFree(index[c])
  /\ slot' = [slot EXCEPT ![index[c]] = None]
  /\ UNCHANGED <<numActive, index, closeVars, eventVars, clientLock, statusHeld, sendVars>>

\* ... and the slot's lock, and lets go of both.
Remove(c) ==
  /\ Goto(c, "removing", "removed")
  /\ FreeWs(c)
  /\ ClientIsFree(index[c])
  /\ Table!Release(c)
  /\ view' = [view EXCEPT ![c] = {}]
  /\ UNCHANGED <<closeVars, eventVars, clientLock, statusHeld,
                 full, diff, sendAt, writing, partial>>

\* libonion frees the websocket when ws_userdata_free has returned.
Freed(c) == Table!Freed(c) /\ callbacks' = callbacks \ {c}

CheckLast_OneLeft(c) ==
  /\ wsLock = None
  /\ IF numActive <= 1
     THEN Goto(c, "removed", "unobserve") /\ wsLock' = c /\ UNCHANGED <<closeWs, callbacks>>
     ELSE Goto(c, "removed", "idle") /\ Freed(c) /\ UNCHANGED wsLock
  /\ UNCHANGED <<tableVars, closePc, closeAt, closeFault, eventVars,
                 clientLock, statusHeld, sendVars>>

\* Back under websockets->lock: was it the last client?
CheckLast(c) ==
  /\ wsLock = None
  /\ IF numActive = 0
     THEN Goto(c, "removed", "unobserve") /\ wsLock' = c /\ UNCHANGED <<closeWs, callbacks>>
     ELSE Goto(c, "removed", "idle") /\ Freed(c) /\ UNCHANGED wsLock
  /\ UNCHANGED <<tableVars, closePc, closeAt, closeFault, eventVars,
                 clientLock, statusHeld, sendVars>>

Unobserve(c) ==
  /\ Goto(c, "unobserve", "idle")
  /\ FreeWs(c)
  /\ StatusIsFree
  /\ Status!StatusUnobserve
  /\ Freed(c)
  /\ UNCHANGED <<tableVars, closePc, closeAt, closeFault, clientLock, statusHeld,
                 sendVars>>

-----------------------------------------------------------------------------
(* The event thread.                                                        *)

\* Steps of PropertyStatus that touch nothing of this module.
EventStep ==
  /\ closePc = "off"
  /\ \/ Status!TakePause
     \/ TrackSwitches /\ Status!TakeTrackSwitched
     \/ Status!Reobserve
     \/ \E p \in Props : Status!TakeChange(p)
     \/ Status!SetInitialized
     \/ Status!CheckUpdated
     \/ Status!CheckInitialized
     \/ \E lapsed \in SUBSET held : Status!SearchReady(lapsed)
     \/ Status!CountReady
     \/ Status!ResetReady
  /\ UNCHANGED <<tableVars, closeVars, pc, lockVars, sendVars>>

\* A new value of evt makes every older message about it out of date.
Update ==
  /\ Status!PropertyUpdate
  /\ full' = full \ {evt}
  /\ view' = [c \in Conns |-> view[c] \ {evt}]
  /\ UNCHANGED <<tableVars, closeVars, pc, lockVars, diff, sendAt, writing,
                 partial>>

\* One ready property: send_to_all_clients1, which keeps status->lock.
\* Otherwise send_to_all_clients2, which builds the message and releases it.
BeginSend ==
  /\ Status!ParseReady
  /\ statusHeld' = (num_ready = 1)
  /\ diff' = ready
  /\ UNCHANGED <<tableVars, closeVars, pc, wsLock, clientLock,
                 full, sendAt, writing, view, partial>>

Peek_Stuck ==
  /\ evpc = "deliver" /\ ~writing
  /\ sendAt \in Slots
  /\ slot[sendAt] # None
  /\ writing' = TRUE
  /\ UNCHANGED <<tableVars, closeVars, eventVars, pc,
                 lockVars, full, diff, sendAt, view, partial>>

\* if ( pclient->ws ), read without the slot's lock
Peek ==
  /\ evpc = "deliver" /\ ~writing
  /\ sendAt \in Slots
  /\ IF slot[sendAt] = None
     THEN sendAt' = sendAt + 1 /\ UNCHANGED writing
     ELSE writing' = TRUE /\ UNCHANGED sendAt
  /\ UNCHANGED <<tableVars, closeVars, eventVars, pc,
                 lockVars, full, diff, view, partial>>

\* Under the slot's lock pclient->ws is read again, and used.
Write ==
  /\ evpc = "deliver" /\ writing
  /\ ClientIsFree(sendAt)
  /\ IF slot[sendAt] = None
     THEN Abort("nullws")
     ELSE /\ view' = [view EXCEPT ![slot[sendAt]] = @ \cup diff]
          /\ writing' = FALSE
          /\ sendAt' = sendAt + 1
          /\ UNCHANGED <<tableVars, closeVars, eventVars, pc,
                         lockVars, full, diff, partial>>

EndSend_NotReset ==
  /\ evpc = "deliver" /\ sendAt = MaxClients
  /\ evpc' = "wait"
  /\ statusHeld' = FALSE
  /\ diff' = {}
  /\ sendAt' = 0
  /\ UNCHANGED <<tableVars, closeVars, statusVars, mpvVars, evt, pause, fault, pc,
                 wsLock, clientLock, full, writing, view, partial>>

EndSend_KeepsLock ==
  /\ sendAt = MaxClients
  /\ Status!Delivered
  /\ diff' = {}
  /\ sendAt' = 0
  /\ UNCHANGED <<tableVars, closeVars, pc, lockVars, full, writing, view, partial>>

\* status->lock is released, if it was held.
EndSend ==
  /\ sendAt = MaxClients
  /\ Status!Delivered
  /\ statusHeld' = FALSE
  /\ diff' = {}
  /\ sendAt' = 0
  /\ UNCHANGED <<tableVars, closeVars, pc, wsLock, clientLock,
                 full, writing, view, partial>>

-----------------------------------------------------------------------------
(* clients_close, run by the event thread after MPV_EVENT_SHUTDOWN.         *)

CloseStart ==
  /\ Shutdown
  /\ evpc = "wait"
  /\ Table!CloseStart     \* and pthread_cond_signal(init_done), see EndWait
  /\ UNCHANGED <<callbacks, eventVars, pc, lockVars, sendVars>>

ClosePeek ==
  /\ Table!ClosePeek
  /\ UNCHANGED <<callbacks, eventVars, pc, lockVars, sendVars>>

CloseLock ==
  /\ closePc = "clear"
  /\ TakeWs(EventThread)
  /\ UNCHANGED <<tableVars, closeVars, eventVars, pc,
                 clientLock, statusHeld, sendVars>>

CloseClear_KeepsLock ==
  /\ closePc = "clear" /\ wsLock = EventThread
  /\ ClientIsFree(closeAt)
  /\ Table!CloseClear
  /\ callbacks' = callbacks \ {slot[closeAt]}
  /\ UNCHANGED <<eventVars, pc, lockVars, sendVars>>

\* The websocket that is in the slot by now loses its callback and the slot.
CloseClear ==
  /\ FreeWs(EventThread)
  /\ ClientIsFree(closeAt)
  /\ Table!CloseClear
  /\ callbacks' = callbacks \ {slot[closeAt]}
  /\ UNCHANGED <<eventVars, pc, clientLock, statusHeld, sendVars>>

\* No lock is held while the saved websocket is closed.
CloseBye ==
  /\ Table!CloseBye
  /\ UNCHANGED <<callbacks, eventVars, pc, lockVars, sendVars>>

-----------------------------------------------------------------------------
Environment ==
  /\ Status!Mpv
  /\ UNCHANGED <<tableVars, closeVars, pc, lockVars, sendVars>>

Events ==
  \/ EventStep
  \/ Update
  \/ BeginSend
  \/ Peek
  \/ Write
  \/ EndSend
  \/ CloseStart
  \/ ClosePeek
  \/ CloseLock
  \/ CloseClear
  \/ CloseBye

Start(c) ==
  \/ Refuse(c)
  \/ Admit(c)
  \/ AssertOwner(c)
  \/ LockClient(c)
  \/ Hello(c)
  \/ FirstClient(c)
  \/ LaterClient(c)
  \/ EndWait(c)
  \/ BuildFull(c)
  \/ PushStatus(c)

Answer(c) ==
  \/ Read(c)
  \/ Command(c)
  \/ Reply(c)

End(c) ==
  \/ Remove(c)
  \/ CheckLast(c)
  \/ Unobserve(c)

Next ==
  /\ fault = "none" /\ ~closeFault
  /\ \/ Environment
     \/ Events
     \/ \E c \in Conns : \/ Connect(c) \/ Start(c)
                         \/ Receive(c) \/ Answer(c)
                         \/ Leave(c) \/ End(c)

Spec == Init /\ [][Next]_vars

\* Every thread keeps running, and no thread is passed over forever by those
\* that compete with it for a lock: hence strong fairness.  What clients do
\* (Connect, Receive, Leave) is not fair, and closing a websocket may block
\* forever (CloseBye).  mpv serves its change notifications as in
\* PropertyStatus.
Live(A) == fault = "none" /\ ~closeFault /\ A

Fairness ==
  /\ SF_vars(Live(Events))
  /\ \A p \in Props : SF_vars(Live(EventStep /\ Status!TakeChange(p)))
  /\ \A c \in Conns : SF_vars(Live(Start(c) \/ Answer(c) \/ End(c)))

FairSpec == Spec /\ Fairness

-----------------------------------------------------------------------------
(* Properties.                                                              *)

\* The thread that keeps t waiting for a lock, or None.
Blocker(t) ==
  IF t = EventThread
  THEN IF evpc = "deliver" /\ writing THEN clientLock[sendAt]
       ELSE IF closePc = "clear" /\ wsLock # EventThread THEN wsLock
       ELSE IF closePc = "clear" THEN clientLock[closeAt]
       ELSE None
  ELSE IF pc[t] \in {"hello", "removed"} THEN wsLock
       ELSE IF pc[t] = "adding" /\ ~Table!Full
            THEN clientLock[CHOOSE n \in Slots : Table!IsFirstFree(n)]
       ELSE IF pc[t] \in {"tolock", "removing", "reading", "reply"} THEN clientLock[index[t]]
       ELSE IF pc[t] \in {"choose", "build", "push", "unobserve"} /\ statusHeld
            THEN EventThread
       ELSE IF pc[t] = "command" /\ evpc # "wait" THEN EventThread
       ELSE None

\* No set of threads waits for locks in a circle.
NoCircularWait ==
  ~ \E S \in SUBSET Threads \ {{}} : \A t \in S : Blocker(t) \in S

\* Whatever a served client has not been told is on its way: the value it
\* lacks is marked as updated, so that a later status_diff will carry it.  It
\* holds however connecting, building and delivering interleave, as long as
\* the wait for init_done ended with every property initialized and the end of
\* the program has not begun to take the slots away.
NothingMissed ==
  closePc = "off" /\ is_observed /\ ~partial =>
    \A c \in Conns : Served(c) => initialized \subseteq view[c] \cup updated

\* The observation stops only when no slot is occupied.
StopsWhenEmpty ==
  [][is_observed /\ ~is_observed' /\ closePc = "off" => Table!Occupied = {}]_vars

Stopped == fault # "none" \/ closeFault \/ ~NoCircularWait

\* A client that connects is served or turned away, and a thread that ends
\* comes to its end: unless the process has aborted or a circular wait has
\* formed, no thread waits forever, neither for a lock nor for init_done.
ConnectingIsServed ==
  \A c \in Conns : pc[c] = "adding" ~> Served(c) \/ pc[c] = "idle" \/ Stopped

\* So is every message: its command is run and its result sent.
CommandIsAnswered ==
  \A c \in Conns : pc[c] = "reading" ~> pc[c] = "open" \/ Stopped

\* The end of the program is not held up by the threads it takes the slots from:
\* it comes to its end, or to a websocket whose closing blocks.  Nor does
\* clients_close, even one that is blocked for good, hold up a connection that
\* leaves.
ClosingEnds ==
  /\ closePc # "off" ~> closePc \in {"done", "blocked"} \/ Stopped
  /\ \A c \in Conns : pc[c] = "removing" ~> pc[c] = "idle" \/ Stopped

\* The steps of the composition are steps of its parts: the HTTP threads
\* call the operations of the table and of the property status in an order
\* those modules allow, and the deliveries are stuttering steps of both.
StatusRef == INSTANCE PropertyStatus
  WITH fault <- IF fault \in {"unobserve", "reset"} THEN fault ELSE "none"

TableSpec == Table!Spec
StatusSpec == StatusRef!Spec

-----------------------------------------------------------------------------
(* Statements of the source that the model refutes.                         *)

\* onion_ws_status.c:364-366: the first client starts the observation, so a
\* client that has its status also gets the changes.
ServedIsObserved ==
  closePc = "off" /\ (\E c \in Conns : Served(c)) => is_observed

\* onion_ws_status.c:1381, :1125 and :896-899, see PropertyStatus: refuted
\* with the handlers in the order in which the threads really call them.
ReadyIsUpdated == Status!ReadyIsUpdated
OneObservation == Status!OneObservation
InitialValueParsed == Status!InitialValueParsed

\* mpv_plugin.c:119-122: the event loop must not wait without bound.
EventLoopGoesOn ==
  evpc # "wait" ~> evpc = "wait" \/ fault # "none" \/ closeFault
=============================================================================
