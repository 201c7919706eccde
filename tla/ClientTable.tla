----------------------------- MODULE ClientTable -----------------------------
(***************************************************************************)
(* The table of websocket clients: the structure `__clients` of            *)
(* onion_ws_status.h with the operations add_client, remove_client,        *)
(* ws_userdata_free and clients_close of onion_ws_status.c.                *)
(*                                                                         *)
(* A connection is served by one HTTP thread.  It is admitted to the first *)
(* free slot, remembers the slot's index in its userdata, and gives the    *)
(* slot back when libonion frees its websocket.  At the end of the program *)
(* clients_close walks over the slots and empties them from another thread.*)
(*                                                                         *)
(* add_client and remove_client hold clients->lock from their first access *)
(* to their last one, so each is one action; clients_close looks at a slot *)
(* before it takes the lock, and says goodbye to the websocket it saw there*)
(* after it let go of it.  The locks themselves are in WsStatus.           *)
(***************************************************************************)
EXTENDS Integers, FiniteSets

CONSTANTS
  Conns,       \* the connections (the threads that serve them)
  MaxClients,  \* MAX_ACTIVE_CLIENTS
  None         \* a NULL websocket

ASSUME ClientTableAssumption ==
  /\ MaxClients \in Nat \ {0}
  /\ None \notin Conns

Slots == 0 .. MaxClients - 1

VARIABLES
  slot,       \* clients[i].ws
  numActive,  \* num_active_clients
  index,      \* the index in the userdata of a websocket
  phase,      \* how far a connection has come
  closePc,    \* clients_close: "off", "peek", "clear", "bye", "blocked" or "done"
  closeAt,    \* the slot it is at
  closeWs,    \* the websocket it saved there, None once libonion has freed it
  closeFault  \* it used the websocket of a slot emptied in between, or a freed one

tableVars == <<slot, numActive, index>>
closeVars == <<closePc, closeAt, closeWs, closeFault>>
vars      == <<tableVars, phase, closeVars>>

Occupied == {i \in Slots : slot[i] # None}

TypeOK ==
  /\ slot \in [Slots -> Conns \cup {None}]
  /\ numActive \in Int
  /\ index \in [Conns -> Slots]
  /\ phase \in [Conns -> {"out", "in", "removed"}]
  /\ closePc \in {"off", "peek", "clear", "bye", "blocked", "done"}
  /\ closeAt \in 0 .. MaxClients
  /\ closePc \in {"peek", "clear", "bye", "blocked"} => closeAt \in Slots
  /\ closeWs \in Conns \cup {None}
  /\ closeFault \in BOOLEAN

TableInit ==
  /\ slot = [i \in Slots |-> None]
  /\ numActive = 0
  /\ index = [c \in Conns |-> 0]

CloseInit ==
  /\ closePc = "off"
  /\ closeAt = 0
  /\ closeWs = None
  /\ closeFault = FALSE

Init ==
  /\ TableInit
  /\ phase = [c \in Conns |-> "out"]
  /\ CloseInit

-----------------------------------------------------------------------------
(* The operations on the table.                                             *)

\* (D_Suffix before a definition D is a mutant of D, as in PropertyStatus.)

IsFirstFree_Unchecked(n) ==
  /\ n \in Slots
  /\ \A i \in Slots : i < n => slot[i] # None

\* The slot the search loop of add_client stops at.
IsFirstFree(n) ==
  /\ n \in Slots
  /\ slot[n] = None
  /\ \A i \in Slots : i < n => slot[i] # None

Admit_IndexLost(c, n) ==
  /\ IsFirstFree(n)
  /\ slot' = [slot EXCEPT ![n] = c]
  /\ numActive' = numActive + 1
  /\ UNCHANGED index

\* add_client, with a free slot n
Admit(c, n) ==
  /\ IsFirstFree(n)
  /\ slot' = [slot EXCEPT ![n] = c]
  /\ numActive' = numActive + 1
  /\ index' = [index EXCEPT ![c] = n]

\* add_client, without one: it returns NULL
Full == Occupied = Slots

Release_NotCounted(c) ==
  /\ slot' = [slot EXCEPT ![index[c]] = None]
  /\ UNCHANGED <<numActive, index>>

\* remove_client
Release(c) ==
  /\ index[c] <= MaxClients
  /\ slot' = [slot EXCEPT ![index[c]] = None]
  /\ numActive' = numActive - 1
  /\ UNCHANGED index

CloseNext_OneMore ==
  /\ closeAt' = closeAt + 1
  /\ closePc' = IF closeAt < MaxClients THEN "peek" ELSE "done"

\* clients_close goes on with the next slot.
CloseNext ==
  /\ closeAt' = closeAt + 1
  /\ closePc' = IF closeAt + 1 < MaxClients THEN "peek" ELSE "done"

CloseStart ==
  /\ closePc = "off"
  /\ closePc' = "peek"
  /\ UNCHANGED <<tableVars, closeAt, closeWs, closeFault>>

\* if ( pclient->ws ), read without a lock, and the websocket that is saved
\* next (the two reads are one step).
ClosePeek ==
  /\ closePc = "peek"
  /\ IF slot[closeAt] = None
     THEN CloseNext /\ UNCHANGED closeWs
     ELSE closePc' = "clear" /\ closeWs' = slot[closeAt] /\ UNCHANGED closeAt
  /\ UNCHANGED <<tableVars, closeFault>>

CloseClear_NotCounted ==
  /\ closePc = "clear"
  /\ slot' = [slot EXCEPT ![closeAt] = None]
  /\ closePc' = "bye"
  /\ UNCHANGED <<numActive, index, closeAt, closeWs, closeFault>>

\* The part under the locks uses pclient->ws again, which need not be the
\* websocket it saved, and then empties the slot.
CloseClear ==
  /\ closePc = "clear"
  /\ IF slot[closeAt] = None
     THEN closeFault' = TRUE /\ UNCHANGED <<tableVars, closePc>>
     ELSE /\ slot' = [slot EXCEPT ![closeAt] = None]
          /\ numActive' = numActive - 1
          /\ closePc' = "bye"
          /\ UNCHANGED <<index, closeFault>>
  /\ UNCHANGED <<closeAt, closeWs>>

\* Without any lock: onion_websocket_close on the saved websocket, which "can
\* block if connection is already closed".
CloseBye ==
  /\ closePc = "bye"
  /\ IF closeWs = None
     THEN closeFault' = TRUE /\ UNCHANGED <<closePc, closeAt>>
     ELSE /\ CloseNext \/ (closePc' = "blocked" /\ UNCHANGED closeAt)
          /\ UNCHANGED closeFault
  /\ UNCHANGED <<tableVars, closeWs>>

\* libonion frees the websocket of c after ws_userdata_free.
Freed(c) == closeWs' = IF closeWs = c THEN None ELSE closeWs

-----------------------------------------------------------------------------
(* The life of a connection.                                                *)

\* ws_status_start finds a slot ...
Connect(c) ==
  /\ phase[c] = "out"
  /\ \E n \in Slots : Admit(c, n)
  /\ phase' = [phase EXCEPT ![c] = "in"]
  /\ UNCHANGED closeVars

\* ... or turns the client away.
Refuse(c) ==
  /\ phase[c] = "out"
  /\ Full
  /\ UNCHANGED vars

\* ws_userdata_free: remove_client, and then a look at the number of clients
\* in a critical section of its own.
Disconnect(c) ==
  /\ phase[c] = "in"
  /\ Release(c)
  /\ phase' = [phase EXCEPT ![c] = "removed"]
  /\ UNCHANGED closeVars

CheckLast(c) ==
  /\ phase[c] = "removed"
  /\ phase' = [phase EXCEPT ![c] = "out"]
  /\ Freed(c)
  /\ UNCHANGED <<tableVars, closePc, closeAt, closeFault>>

Close ==
  /\ CloseStart \/ ClosePeek \/ CloseClear \/ CloseBye
  /\ UNCHANGED phase

Next ==
  /\ ~closeFault
  /\ \/ \E c \in Conns : Connect(c) \/ Refuse(c) \/ Disconnect(c) \/ CheckLast(c)
     \/ Close

Spec == Init /\ [][Next]_vars

-----------------------------------------------------------------------------
(* Properties.                                                              *)

\* Until the program ends, the counter that starts and stops the observation
\* is the number of occupied slots.
CountIsExact ==
  closePc = "off" => numActive = Cardinality(Occupied)

\* Even while clients_close and the threads of its victims both decrement it,
\* the counter never exceeds the number of occupied slots: the last client to
\* leave cannot be missed because a slot was counted twice.
CountNeverHigh ==
  numActive <= Cardinality(Occupied)

\* Until the program ends, the slots belong to the connections that are in,
\* one each: the assertions of ws_status_start and ws_status_cont hold.
SlotsAreOwned ==
  closePc = "off" =>
    /\ \A c \in Conns : phase[c] = "in" => slot[index[c]] = c
    /\ \A i \in Slots : slot[i] # None => phase[slot[i]] = "in" /\ index[slot[i]] = i

\* clients_close is through with slot i.
Passed(i) == closeAt > i \/ (closeAt = i /\ closePc \in {"bye", "blocked"})

\* In this step connection c gives a slot back.
Leaves(c) == phase[c] = "in" /\ phase'[c] = "removed"

\* A slot that a connection has is taken from it only to be emptied, and only
\* by the connection itself when it leaves (remove_client), or by clients_close
\* standing at the slot.  There is one exception, behind clients_close: a
\* connection whose slot it has emptied still holds the index and empties the
\* slot once more when it leaves, whoever has it by then.
SlotFreedByOwner ==
  [][\A i \in Slots : slot[i] # None /\ slot'[i] # slot[i] =>
       /\ slot'[i] = None
       /\ \/ closePc = "clear" /\ closeAt = i
          \/ \E c \in Conns : /\ Leaves(c) /\ index[c] = i
                              /\ c = slot[i] \/ Passed(i)]_vars
=============================================================================
