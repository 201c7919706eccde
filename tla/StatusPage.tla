----------------------------- MODULE StatusPage -----------------------------
(***************************************************************************)
(* The page in the browser as far as it shows the status of mpv            *)
(* (webui2.js, json-diff.js, playlist.js), with the websockets on which    *)
(* the status arrives and the commands leave.                              *)
(*                                                                         *)
(* The handlers of the websockets all use the global variable ws, whichever *)
(* socket calls them.  A socket is [state, wire, up]: the messages on their *)
(* way to the page and the commands on their way to the server.  Of what a *)
(* widget draws, Shows keeps what the widget tells the user.               *)
(***************************************************************************)
EXTENDS Player

CONSTANTS
  Titled       \* files whose title the playlist knows

VARIABLES
  told,       \* the texts the server holds: what it last sent of each property
  socks, ws,  \* the websockets, and the index of the one in use, 0 for null
  connected, hidden,
  restart,    \* number of timers that run for the next connection
  timer,      \* mpv_outstanding_status.timer: "null", "runs", "cleared"
  pending, updates,
  mpv_status,
  view, rows, \* the widgets, and the rows of the playlist
  block,      \* window.block of each slider: "null", "false", "timeout"
  switches,
  overtaken,  \* the last full status came while updates were outstanding (history)
  moved,      \* sliders that are not where the status had them (history)
  apart       \* drawn while the current entry was not started yet (history)

socketVars == <<told, socks, ws, restart>>
shownVars == <<mpv_status, view, rows, pending, updates, timer>>
pageHistory == <<overtaken, moved, apart>>
pageVars == <<socketVars, shownVars, connected, hidden, block, switches, pageHistory>>

-----------------------------------------------------------------------------
\* Widgets: the properties they are redrawn for, and what they show.

Triggers == [
  title       |-> {"metadata", "playlist", "filename"},
  tracks      |-> {"track-list"},
  duration    |-> {"duration"},
  speed       |-> {"speed"},
  speedReset  |-> {"speed"},
  subDelay    |-> {"sub-delay"},
  audioDelay  |-> {"audio-delay"},
  position    |-> {"time-pos", "duration"},
  volume      |-> {"volume"},
  loop        |-> {"loop-file", "loop-playlist"},
  fullscreen  |-> {"fullscreen"},
  chapter     |-> {"chapters", "chapter"},
  playPause   |-> {"pause"}]

Widgets == DOMAIN Triggers
Sliders == {"position", "volume"}

\* The page knows no other properties than those that are observed.
ASSUME PageAssumption == \A w \in Widgets : Triggers[w] \subseteq Props

\* setMetadata.  check_idle of the page never holds: no status has a property idle.
Title(s) ==
  LET pl == s["playlist"]
  IN IF pl.pos # -1 /\ pl.files[pl.pos + 1] \in Titled THEN pl.files[pl.pos + 1]
     ELSE IF s["metadata"] # "none" THEN s["metadata"] ELSE s["filename"]

\* setLoop
LoopValue(s) ==
  IF s["loop-file"] # "no" THEN "1" ELSE IF s["loop-playlist"] = "no" THEN "no" ELSE "a"

\* setChapter: the number of the chapter, counted from one
Chapter(s) ==
  IF s["chapters"] = 0 THEN <<0, 0>>
  ELSE <<(IF s["chapter"] \in -1 .. s["chapters"] - 1 THEN s["chapter"] ELSE 0) + 1, s["chapters"]>>

Shows(w, s) ==
  CASE w = "title"      -> Title(s)
    [] w = "tracks"     -> s["track-list"]
    [] w = "duration"   -> s["duration"]
    [] w \in {"speed", "speedReset"} -> s["speed"]
    [] w = "subDelay"   -> s["sub-delay"]
    [] w = "audioDelay" -> s["audio-delay"]
    [] w = "position"   -> s["time-pos"]
    [] w = "volume"     -> s["volume"]
    [] w = "loop"       -> LoopValue(s)
    [] w = "fullscreen" -> s["fullscreen"]
    [] w = "chapter"    -> Chapter(s)
    [] w = "playPause"  -> s["pause"]

\* window.block.active
Blocked(w) == w \in Sliders /\ block[w] # "null"

\* The widgets in W are redrawn; a slider in use is not moved.
Redrawn(W, s) == [w \in Widgets |-> IF w \in W /\ ~Blocked(w) THEN Shows(w, s) ELSE view[w]]

-----------------------------------------------------------------------------
\* The playlist.

Entries(pl) ==
  [i \in 1 .. Len(pl.files) |->
     [name |-> pl.files[i], current |-> i - 1 = pl.pos, playing |-> i - 1 = pl.pos /\ pl.playing]]

\* createPlaylistTable
Row(entry, id, pause) ==
  [name |-> entry.name, id |-> id,
   icon |-> IF ~entry.playing THEN "none" ELSE IF pause THEN "pause" ELSE "play"]

\* populatePlaylist
Populated(pl, pause) ==
  LET es == Entries(pl) IN [i \in DOMAIN es |-> Row(es[i], i - 1, pause)]

\* (D_Suffix before a definition D is a mutant of D.)
Same_NameOnly(new, i, old, j) ==
  i \in DOMAIN new /\ j \in DOMAIN old /\ new[i].name = old[j].name

\* The comparison of updatePlaylist, FALSE beyond the end of a list
Same(new, i, old, j) ==
  /\ i \in DOMAIN new /\ j \in DOMAIN old
  /\ new[i].name = old[j].name
  /\ new[i].current = old[j].current

Op(op, i, j) == <<[op |-> op, new |-> i, old |-> j]>>

\* A turn of the loops of get_diff: the positions in both lists and the operations
DiffStep(new, old, d) ==
  LET i == d.iNew
      j == d.iOld
      Goes(m, n, ops) == [iNew |-> i + m, iOld |-> j + n, ops |-> d.ops \o ops]
  IN IF i <= Len(new) /\ j <= Len(old) THEN
          IF Same(new, i, old, j) THEN Goes(1, 1, <<>>)
          ELSE IF Same(new, i + 1, old, j + 1) THEN Goes(2, 2, Op("replace", i, j))
          ELSE IF Same(new, i + 1, old, j) THEN Goes(2, 1, Op("add", i, j))
          ELSE IF Same(new, i, old, j + 1) THEN Goes(1, 2, Op("remove", 0, j))
          ELSE Goes(1, 1, Op("replace", i, j))
     ELSE IF j <= Len(old) THEN Goes(0, 1, Op("remove", 0, j))
     ELSE IF i <= Len(new) THEN Goes(1, 1, Op("add", i, j))
     ELSE d

DiffTurns(new, old) ==
  LET at[k \in 0 .. Len(new) + Len(old)] ==
        IF k = 0 THEN [iNew |-> 1, iOld |-> 1, ops |-> <<>>] ELSE DiffStep(new, old, at[k - 1])
  IN at

\* get_diff: the operations that make new of old
Diff(new, old) == DiffTurns(new, old)[Len(new) + Len(old)].ops

Renumbered_Not(rs) == rs

Renumbered(rs) == [i \in DOMAIN rs |-> [rs[i] EXCEPT !.id = i - 1]]

\* The rows of the table, and whether the handler ended with an error
Table(rs, failed) == [rows |-> rs, failed |-> failed]

\* updatePlaylist: t is the table with the offset of its rows to those of old.  A row
\* that is not there is neither replaced nor removed, but ends the handler.
ApplyOp(news, pause, t, x) ==
  LET at   == x.old + t.offset
      here == at \in DOMAIN t.rows
      row  == Row(news[x.new], x.old, pause)
  IN IF t.failed THEN t
     ELSE IF x.op = "add" THEN
       [t EXCEPT !.rows = InsertAt(@, IF here THEN at ELSE Len(@) + 1, row), !.offset = @ + 1]
     ELSE IF ~here THEN [t EXCEPT !.failed = TRUE]
     ELSE IF x.op = "replace" THEN [t EXCEPT !.rows[at] = row]
     ELSE [t EXCEPT !.rows = RemoveAt(@, at), !.offset = @ - 1]

TableTurns(rs, news, pause, ops) ==
  LET after[k \in 0 .. Len(ops)] ==
        IF k = 0 THEN [rows |-> rs, failed |-> FALSE, offset |-> 0]
        ELSE ApplyOp(news, pause, after[k - 1], ops[k])
  IN after

UpdatedPlaylist(new, old, pause) ==
  LET ops == Diff(Entries(new), Entries(old))
      all == TableTurns(rows, Entries(new), pause, ops)[Len(ops)]
  IN Table(IF all.failed THEN all.rows ELSE Renumbered(all.rows), all.failed)

\* updatePlaylistOnPause: the row of the current entry is made anew.
PauseUpdated(rs, pl, pause) ==
  IF pl.pos = -1 THEN Table(rs, FALSE)
  ELSE IF pl.pos + 1 \notin DOMAIN rs THEN Table(rs, TRUE)
  ELSE Table([rs EXCEPT ![pl.pos + 1] = Row(Entries(pl)[pl.pos + 1], pl.pos, pause)], FALSE)

-----------------------------------------------------------------------------
\* The status.

Drawn(s) ==
  /\ moved' = [w \in Sliders |-> Blocked(w)]
  /\ apart' = (s["playlist"].pos # -1 /\ ~s["playlist"].playing)

\* handleStatusResponse
ShowStatus(s) ==
  /\ mpv_status' = s
  /\ view' = Redrawn(Widgets, s)
  /\ rows' = Populated(s["playlist"], s["pause"])
  /\ Drawn(s)
  /\ overtaken' = pending

Merged_OldWins(D) == Over(mpv_status, D)

\* handleStatusUpdate
Merged(D) == Over(D, mpv_status)

\* Before the first status the handler ends with an error; the status draws anew what
\* was drawn by then.
TableAfter(D) ==
  IF mpv_status = <<>> THEN Table(rows, TRUE)
  ELSE IF "playlist" \in DOMAIN D
  THEN UpdatedPlaylist(D["playlist"], mpv_status["playlist"], Merged(D)["pause"])
  ELSE Table(rows, FALSE)

ShowUpdates(D) ==
  LET s == Merged(D)
      t == TableAfter(D)
      u == IF t.failed \/ "pause" \notin DOMAIN D \/ s["pause"] = mpv_status["pause"] THEN t
           ELSE PauseUpdated(t.rows, s["playlist"], s["pause"])
      W == {w \in Widgets : Triggers[w] \cap DOMAIN D # {}}
  IN /\ mpv_status' = IF u.failed THEN mpv_status ELSE s
     /\ rows' = u.rows
     /\ view' = IF mpv_status = <<>> THEN view
                ELSE Redrawn(IF t.failed THEN W \ {"playPause"} ELSE W, s)
     /\ pending' = FALSE
     /\ updates' = <<>>
     /\ timer' = "null"
     /\ moved' = [w \in Sliders |-> IF w \in W THEN Blocked(w) ELSE moved[w]]
     /\ apart' = IF t.failed \/ "playlist" \notin DOMAIN D THEN apart
                 ELSE apart \/ (s["playlist"].pos # -1 /\ ~s["playlist"].playing)
     /\ UNCHANGED overtaken

-----------------------------------------------------------------------------
\* The websockets.

\* What send_ws hands over leaves only on a socket that the page saw opened.
Opened(i) ==
  socks[i].state = "open" /\ \A k \in DOMAIN socks[i].wire : socks[i].wire[k].kind # "open"

Sends(cs) == IF ws # 0 /\ Opened(ws) THEN [socks EXCEPT ![ws].up = @ \o cs] ELSE socks

NewSocket == [state |-> "connecting", wire |-> <<>>, up |-> <<>>]

\* status_init_ws
InitWs ==
  /\ Len(socks) < bounds.sockets
  /\ socks' = Append(socks, NewSocket)
  /\ ws' = Len(socks) + 1

PageInit ==
  /\ told = FirstState
  /\ socks = <<NewSocket>> /\ ws = 1
  /\ connected = FALSE /\ hidden = FALSE
  /\ restart = 0 /\ timer = "null"
  /\ pending = FALSE /\ updates = <<>>
  /\ mpv_status = <<>>
  /\ view = [w \in Widgets |-> "empty"] /\ rows = <<>>
  /\ block = [w \in Sliders |-> "null"]
  /\ switches = 0
  /\ overtaken = FALSE /\ moved = [w \in Sliders |-> FALSE] /\ apart = FALSE

\* The server accepts the connection and sends the status (ws_status_start).
Accept(i) ==
  /\ socks[i].state = "connecting" /\ i <= bounds.accepted
  /\ LET news == <<[kind |-> "open"], [kind |-> "status", values |-> told]>>
     IN socks' = [socks EXCEPT ![i] = [state |-> "open", wire |-> news, up |-> @.up]]
  /\ UNCHANGED <<told, ws, restart, shownVars, connected, hidden, block, switches, pageHistory>>

\* The server sends updates to all its clients (status_send_update).
SendDiff(D) ==
  /\ D # {} /\ D \subseteq dirty
  /\ dirty' = dirty \ D
  /\ told' = [p \in Props |-> IF p \in D THEN mpv[p] ELSE told[p]]
  /\ LET diff == [kind |-> "status_diff", values |-> [p \in D |-> mpv[p]]]
     IN socks' = [i \in DOMAIN socks |->
          IF socks[i].state = "open" THEN [socks[i] EXCEPT !.wire = Append(@, diff)] ELSE socks[i]]
  /\ UNCHANGED <<ws, restart, shownVars, connected, hidden, block, switches, pageHistory>>

\* checkForStatusUpdate(false)
StartTimer == timer' = IF timer = "null" THEN "runs" ELSE timer

\* ws.onopen and ws.onmessage; without ws the handler of a message fails.
Receive(i) ==
  /\ socks[i].wire # <<>>
  /\ LET msg == Head(socks[i].wire)
     IN CASE msg.kind = "open" ->
               /\ connected' = TRUE
               /\ UNCHANGED <<shownVars, pageHistory>>
          [] msg.kind # "open" /\ ws = 0 ->
               UNCHANGED <<connected, shownVars, pageHistory>>
          [] msg.kind = "status" /\ ws # 0 ->
               /\ ShowStatus(msg.values)
               /\ UNCHANGED <<connected, pending, updates, timer>>
          [] msg.kind = "status_diff" /\ ws # 0 ->
               /\ updates' = Over(msg.values, updates)
               /\ pending' = TRUE
               /\ StartTimer
               /\ UNCHANGED <<connected, mpv_status, view, rows, pageHistory>>
  /\ socks' = [socks EXCEPT ![i].wire = Tail(@)]
  /\ UNCHANGED <<told, ws, restart, hidden, block, switches>>

\* The connection ends, or was never made (ws.onclose); what is under way is lost.
\* When the other side goes away, the page is left as it is.
Lose(i, goingAway) ==
  /\ socks[i].state # "closed"
  /\ socks' = [socks EXCEPT ![i] = [state |-> "closed", wire |-> <<>>, up |-> <<>>]]
  /\ ws' = 0
  /\ connected' = FALSE
  /\ IF connected /\ ~goingAway THEN
       /\ timer' = IF timer = "runs" THEN "cleared" ELSE timer
       /\ view' = [view EXCEPT !["title"] = "not connected", !["playPause"] = TRUE]
     ELSE UNCHANGED <<timer, view>>
  /\ restart' = IF hidden THEN restart ELSE restart + 1
  /\ UNCHANGED <<told, mpv_status, rows, pending, updates, hidden, block, switches, pageHistory>>

Restart ==
  /\ restart > 0
  /\ restart' = restart - 1
  /\ InitWs
  /\ UNCHANGED <<told, shownVars, connected, hidden, block, switches, pageHistory>>

\* The timer of checkForStatusUpdate; in a hidden tab it only starts again.
TimerFires ==
  /\ timer = "runs" /\ ~hidden
  /\ ShowUpdates(updates)
  /\ UNCHANGED <<socketVars, connected, hidden, block, switches>>

HideTab ==
  /\ ~hidden /\ switches < bounds.switches
  /\ hidden' = TRUE
  /\ switches' = switches + 1
  /\ UNCHANGED <<socketVars, shownVars, connected, block, pageHistory>>

\* visibilitychange, checkForStatusUpdate(true)
ShowTab ==
  /\ hidden
  /\ hidden' = FALSE
  /\ IF ~connected THEN
       /\ InitWs
       /\ restart' = Within(restart - 1, 0, restart)  \* the last one is cleared
       /\ UNCHANGED <<told, shownVars, pageHistory>>
     ELSE IF pending THEN ShowUpdates(updates) /\ UNCHANGED socketVars
     ELSE UNCHANGED <<socketVars, shownVars, pageHistory>>
  /\ UNCHANGED <<connected, block, switches>>

PageNext ==
  \/ \E i \in DOMAIN socks :
       \/ (Accept(i) \/ Receive(i)) /\ UNCHANGED playerVars
       \/ \E goingAway \in BOOLEAN : Lose(i, goingAway) /\ UNCHANGED playerVars
  \/ \E D \in SUBSET dirty : SendDiff(D) /\ UNCHANGED <<mpv, job, changes, bounds>>
  \/ (Restart \/ TimerFires \/ HideTab \/ ShowTab) /\ UNCHANGED playerVars
=============================================================================
