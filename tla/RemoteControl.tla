---------------------------- MODULE RemoteControl ----------------------------
(***************************************************************************)
(* The remote control as a whole: the page and the player (StatusPage,     *)
(* PageControls, SharesPage, Player), joined by the threads of the server  *)
(* that take the commands of the page from the websockets and from HTTP    *)
(* requests.                                                               *)
(***************************************************************************)
EXTENDS SharesPage, ApiMessages

vars == <<playerVars, pageVars, controlVars, sharesVars>>

Init == PlayerInit /\ PageInit /\ ControlsInit /\ SharesInit

\* The thread of a websocket takes the next command (handle_command_p2).
TakeCommand(i) ==
  /\ socks[i].up # <<>>
  /\ Start(Head(socks[i].up))
  /\ socks' = [socks EXCEPT ![i].up = Tail(@)]
  /\ UNCHANGED <<mpv, dirty, changes, bounds, told, ws, restart, shownVars, connected, hidden,
                 block, switches, pageHistory, controlVars, sharesVars>>

\* The thread of an HTTP request (media_api_load, handle_api_get_or_post_data)
TakeRequest(c) ==
  /\ Start(c)
  /\ http' = http \ {c}
  /\ UNCHANGED <<mpv, dirty, changes, bounds, pageVars, controlVars, listed, dir, selected,
                 selector, printed, asked, lastDir, missed, strayed>>

Next ==
  \/ PlayerNext /\ UNCHANGED <<pageVars, controlVars, sharesVars>>
  \/ PageNext /\ UNCHANGED <<controlVars, sharesVars>>
  \/ ControlsNext /\ UNCHANGED <<playerVars, sharesVars>>
  \/ SharesNext /\ UNCHANGED <<playerVars, pageVars>>
  \/ \E i \in DOMAIN socks : TakeCommand(i)
  \/ \E c \in http : TakeRequest(c)

Spec == Init /\ [][Next]_vars

-----------------------------------------------------------------------------
\* Every variable keeps its type; the rows of the page are those of its playlist.
TypeOK ==
  /\ DOMAIN mpv = Props /\ dirty \subseteq Props
  /\ Playlist.pos \in -1 .. Len(Playlist.files) - 1
  /\ Playlist.pos = -1 => ~Playlist.playing
  /\ ws \in 0 .. Len(socks)
  /\ timer \in {"null", "runs", "cleared"}
  /\ block \in [Sliders -> {"null", "false", "timeout"}]
  /\ mpv_status # <<>> /\ ~overtaken => Len(rows) = Len(mpv_status["playlist"].files)
  /\ lpTimer \in running \cup {0}
  /\ selected \in 0 .. NShares /\ selector \in 0 .. NShares

\* Nothing is under way between the page and the player.  The page reads a socket only
\* while ws is set: the end of another socket makes ws null (webui2.js:627).
Quiet ==
  /\ dirty = {} /\ job = NoJob
  /\ ws # 0 /\ socks[ws].state = "open"
  /\ connected /\ ~pending
  /\ \A i \in DOMAIN socks : socks[i].wire = <<>> /\ socks[i].up = <<>>
  /\ mpv_status # <<>>

RowIs(r, entry, i) ==
  /\ r.name = entry.name
  /\ r.id = i - 1
  /\ ~apart => r.icon = Row(entry, i - 1, mpv["pause"]).icon

\* When all was delivered, each widget and each row of the playlist shows what the
\* player is at, though every update redraws only the widgets it is known to
\* concern and only the rows that the comparison of two playlists finds changed
\* (handleStatusUpdate, updatePlaylist), and connections are lost and made anew.  Not
\* so when updates were still outstanding in the page while a full status came in
\* (webui2.js:590), for a slider since the user moved it or used it while an update
\* came, and for the icons when the page had drawn an entry before it was started.
PageFollows ==
  Quiet /\ ~overtaken =>
    /\ \A w \in Widgets : (w \in Sliders => ~moved[w]) => view[w] = Shows(w, mpv)
    /\ Len(rows) = Len(Playlist.files)
    /\ \A i \in DOMAIN rows : RowIs(rows[i], Entries(Playlist)[i], i)

\* A command sent from a row of the playlist, or from the menu of a button, does its
\* work on the entry that the user saw there, unless the playlist changed since;
\* the commands carry the index of the row only (playlist.js, touchmenu.js).
CommandsHitShownEntry ==
  job.step = "write" /\ job.cmd \in EntryCommands /\ job.shown = Playlist.files =>
    job.p1 + 1 \in DOMAIN job.shown /\ job.shown[job.p1 + 1] = job.meant

\* A file that is appended while mpv is idle is played at once and not paused,
\* unless the user of the window interferes between the calls of
\* cmd_media_playlist_add.
IdlePlayerStarts ==
  [][job.cmd = "playlist_add" /\ job.p1 = "append" /\ job.idle /\ ~job.touched
       /\ job' = NoJob /\ job.step # "fail" =>
       /\ Playlist'.pos = Len(Playlist'.files) - 1
       /\ Last(Playlist'.files) = job.p2
       /\ ~mpv'["pause"]]_vars

AtStart == socks = <<NewSocket>> /\ inputs = 0 /\ changes = 0

\* What the server quotes, the page parses to the same string; what it sends in
\* chunks arrives whole and leaves nothing behind that spoils the next message; what
\* the page sends as a command has the same parts at the server.  Each within the
\* limits of the code: no backslash in a string, not too few bytes around a quote
\* (Quotable), no length just below a multiple of the chunk size (Chunkable), no
\* empty first parameter (the texts are the same in every state).
MessagesIntact == AtStart => StringsArrive /\ MessagesArrive /\ CommandsArrive

\* A press on a button never fires more than one handler, of its own button or of the
\* one it is released on, and a press that is over fired one, unless the timer of another
\* press ran at the same time, another control was used while its own timer ran, or
\* a finished long press made its click be taken for the end of it (touchmenu.js:66).
OneHandlerPerPress ==
  \A p \in DOMAIN presses :
    /\ presses[p].fired <= 1
    /\ presses[p].alone /\ p \notin running /\ (held = NoButton \/ p < Len(presses)) =>
         presses[p].fired = 1

AllAnswered == asked = <<>> /\ printed # Nowhere

\* When all requests are answered, the folder that is shown is one of the selected share;
\* if none failed and all answers came in turn, the selector shows that share, unless it
\* was changed with nothing asked (touchmenu.js:73), and the links of the list start from
\* the folder that is shown, unless the server restored it (shares.js:126).
ListMatchesSelection ==
  AllAnswered =>
    /\ selected = printed.share
    /\ ~missed /\ ~strayed => selector = selected
    /\ ~missed /\ ~printed.restored => dir[selected] = printed.dir
=============================================================================
