---------------------------- MODULE PageControls ----------------------------
(***************************************************************************)
(* What the user does on the page: rows of the playlist, buttons and keys, *)
(* long presses with the menus they open, the sliders of position and      *)
(* volume (playlist.js, buttons.js, keybindings.js, touchmenu.js).         *)
(*                                                                         *)
(* Every control that buttons.js knows, the sliders among them, passes its *)
(* events through the same handler of the long press (fshort), which       *)
(* swallows one event after a long press and else stops its timer; rows,   *)
(* entries of menus and keys do not.                                       *)
(*                                                                         *)
(* options.swap_short_and_long_press is true: a short press opens the menu *)
(* of a button, a long press sends its command.                            *)
(***************************************************************************)
EXTENDS StatusPage

CONSTANTS
  UsedButtons,  \* buttons and keys in use, a set of commands
  UsedMenus,    \* buttons with a menu in use
  Positions     \* where a slider is dragged to

VARIABLES
  inputs,   \* number of things the user did
  done,     \* longpress.done: "null", "false", "true"
  lpTimer,  \* longpress.timer: the press it was set by, 0 for null
  running,  \* presses whose timer runs
  held,     \* the button is held down
  menu,     \* <<what the entries of the open menu send>>, or Closed
  presses,  \* what became of each press (history)
  dragging  \* the slider that is held, or "none"

pressVars == <<done, lpTimer, running, held, menu, presses, dragging>>
controlVars == <<inputs, pressVars>>

NoButton == "none"
Closed == <<>>

-----------------------------------------------------------------------------
\* The tables of the buttons and of the keys, where they send one command.

Numbered(c, xs) == {Command(c, x, 0) : x \in xs}
Plain(cs) == {Command(c, 0, 0) : c \in cs}

\* Buttons that send when the pointer is released on them ("pointerup"), and those
\* that send when it was pressed there, too ("click")
ReleaseCommands ==
  Numbered("seek", {-60, 120}) \cup Numbered("increase_playback_speed", {9, 11})
    \cup Numbered("add_sub_delay", {-50, 50}) \cup Numbered("add_audio_delay", {-50, 50})

ButtonCommands ==
  ReleaseCommands
    \cup Plain({"toggle_pause", "playlist_shuffle", "fullscreen", "reset_playback_speed"})

KeyCommands ==
  Plain({"toggle_pause", "fullscreen", "playlist_next", "playlist_prev",
         "reset_playback_speed", "toggle_mute"})
    \cup Numbered("seek", {-60, -5, -3, -1, 1, 3, 5, 60}) \cup Numbered("add_volume", {-2, 2})

\* Buttons with a menu, and the command that a long press sends
MenuButtons == [
  playlistPrev   |-> Command("playlist_prev", 0, 0),
  playlistNext   |-> Command("playlist_next", 0, 0),
  chapterBack    |-> Command("add_chapter", -1, 0),
  chapterForward |-> Command("add_chapter", 1, 0),
  seekBack1      |-> Command("seek", -5, 0),
  seekForward1   |-> Command("seek", 10, 0),
  cycleSub       |-> Command("cycle", "sub", 0),
  cycleAudio     |-> Command("cycle", "audio", 0),
  cycleVideo     |-> Command("cycle", "video", 0)]

ASSUME ControlsAssumption == UsedMenus \subseteq DOMAIN MenuButtons

\* A command for the entry i, by a user who sees a list of files and means one of them
AimedCommand(c, i, files, file) ==
  [cmd |-> c, p1 |-> i, p2 |-> 0, shown |-> files, meant |-> file]

EntryCommand(c, i, files) == AimedCommand(c, i, files, files[i + 1])

Play == Command("play", 0, 0)

Alone(cs) == {<<c>> : c \in cs}

\* The commands of each entry of the menu that belongs to the button b.  The menus of
\* both seek buttons are shown together; the menu of the audio tracks offers
\* set_subtitle, as touchmenu.js does.
MenuCommands(b) ==
  LET pl == mpv_status["playlist"]
      Jumps(S) == {<<EntryCommand("playlist_jump", i, pl.files), Play>> : i \in S}
      chapters == mpv_status["chapters"]
      chapter == mpv_status["chapter"]
  IN IF b \in {"seekBack1", "seekForward1"}
     THEN Alone(Numbered("seek", {-5, -30, -60, -180, -600, -1800, 10, 30, 60, 180, 600, 1800}))
     ELSE IF mpv_status = <<>> THEN {}
     ELSE
     CASE b = "playlistNext"   -> Jumps(pl.pos + 1 .. Len(pl.files) - 1)
       [] b = "playlistPrev"   -> Jumps(0 .. pl.pos)
       [] b = "chapterForward" -> Alone(Numbered("set_chapter", chapter + 1 .. chapters - 1))
       [] b = "chapterBack"    ->
            Alone(Numbered("set_chapter", IF chapters = 0 THEN {} ELSE 0 .. chapter))
       [] b = "cycleSub"       -> Alone(Numbered("set_subtitle", 0 .. 2))
       [] b = "cycleAudio"     -> {<<c, Play>> : c \in Numbered("set_subtitle", 1 .. 2)}
       [] b = "cycleVideo"     -> Alone(Numbered("set_video", 1 .. 2))

\* The menus of the tracks are not shown before the first status: their handlers fail.
MenuAfter(b) ==
  IF mpv_status = <<>> /\ b \in {"cycleSub", "cycleAudio", "cycleVideo"} THEN menu
  ELSE <<MenuCommands(b)>>

-----------------------------------------------------------------------------
ControlsInit ==
  /\ inputs = 0
  /\ done = "null" /\ lpTimer = 0 /\ running = {}
  /\ held = NoButton /\ menu = Closed
  /\ presses = <<>>
  /\ dragging = "none"

\* The user does something; while a menu is open, its entries are all he can click.
Input(kind) ==
  /\ kind \in bounds.uses /\ inputs < bounds.inputs
  /\ inputs' = inputs + 1

Reaches(kind) == Input(kind) /\ menu = Closed /\ held = NoButton /\ dragging = "none"

Send(cs) ==
  /\ socks' = Sends(cs)
  /\ UNCHANGED <<told, ws, restart, shownVars, connected, hidden, block, switches, pageHistory>>

\* The rows of the playlist (createPlaylistTable).  The row that is played has
\* another button than the others.
RowCommand(c, r) ==
  AimedCommand(c, rows[r].id, [k \in DOMAIN rows |-> rows[k].name], rows[r].name)

RowCommands(r) ==
  {IF rows[r].icon # "none" THEN <<Command("toggle_pause", 0, 0)>>
   ELSE <<RowCommand("playlist_jump", r), Play>>,
   <<RowCommand("playlist_move_up", r)>>,
   <<RowCommand("playlist_remove", r)>>}

ClickRow ==
  /\ Reaches("rows")
  /\ \E r \in DOMAIN rows : \E cs \in RowCommands(r) : Send(cs)
  /\ UNCHANGED pressVars

\* A key of the table; keys do not pass through the long press, and no menu holds them.
Key ==
  /\ Input("buttons")
  /\ \E c \in UsedButtons \cap KeyCommands : Send(<<c>>)
  /\ UNCHANGED pressVars

-----------------------------------------------------------------------------
\* Presses.

\* The press p fired a handler.
Fired(ps, p) == [ps EXCEPT ![p].fired = @ + 1]

\* Another control is used: the presses whose timers still run are not alone any more.
Disturbed == [p \in DOMAIN presses |-> [presses[p] EXCEPT !.alone = @ /\ p \notin running]]

\* A new press of b
Pressed(b, ok) == Append(Disturbed, [button |-> b, fired |-> 0, alone |-> ok /\ running = {}])

\* _abortLongpress
Abort == IF lpTimer = 0 THEN running ELSE running \ {lpTimer}

\* fshort takes an event for the end of a long press ...
Swallowed == done = "true" /\ done' = "null" /\ UNCHANGED <<lpTimer, running>>

\* ... or hands it to the handler of the control.
Passed == done # "true" /\ done' = "false" /\ lpTimer' = 0 /\ running' = Abort

\* A short press on a button without a long one, swallowed or passed on
ClickSwallowed == Swallowed /\ presses' = Pressed(NoButton, FALSE)
ClickPassed == Passed /\ presses' = Fired(Pressed(NoButton, TRUE), Len(presses) + 1)

\* A button that sends the command c; the one that resets the speed does not wait
\* for the answer.
Click(c) ==
  /\ \/ ClickSwallowed /\ UNCHANGED pageVars
     \/ /\ ClickPassed
        /\ socks' = Sends(<<c>>)
        /\ view' = IF c.cmd = "reset_playback_speed" THEN [view EXCEPT !["speedReset"] = 100] ELSE view
        /\ UNCHANGED <<told, ws, restart, mpv_status, rows, pending, updates, timer,
                       connected, hidden, block, switches, pageHistory>>
  /\ UNCHANGED <<held, menu, dragging>>

ClickButton ==
  /\ Reaches("presses")
  /\ \E c \in UsedButtons \cap ButtonCommands : Click(c)

\* playlist_loop_cycle: by the value the button shows
LoopCycle ==
  LET To(file, list) == <<Command("loop_file", file, 0), Command("loop_playlist", list, 0)>>
  IN CASE view["loop"] = "no" -> To("inf", "no")
       [] view["loop"] = "1"  -> To("no", "inf")
       [] view["loop"] = "a"  -> To("no", "no")
       [] OTHER               -> <<>>

CycleLoop ==
  /\ Reaches("buttons")
  /\ \/ ClickSwallowed /\ UNCHANGED pageVars
     \/ ClickPassed /\ Send(LoopCycle)
  /\ UNCHANGED <<held, menu, dragging>>

\* flong
Down(b) ==
  /\ Reaches("presses")
  /\ held' = b
  /\ presses' = Pressed(b, TRUE)
  /\ done' = "null"
  /\ lpTimer' = Len(presses) + 1
  /\ running' = running \cup {Len(presses) + 1}
  /\ UNCHANGED <<pageVars, menu, dragging>>

\* (D_Suffix before a definition D is a mutant of D.)
Up_IgnoresDone(b) ==
  /\ held # NoButton
  /\ held' = NoButton
  /\ done' = "false" /\ lpTimer' = 0 /\ running' = Abort
  /\ menu' = MenuAfter(b)
  /\ presses' = Fired(presses, Len(presses))
  /\ UNCHANGED <<pageVars, inputs, dragging>>

\* The pointer is released on a button with a menu, not always the one it was pressed
\* on: fshort, which opens the menu; flongAbort then has no timer left to stop.
Up(b) ==
  /\ held # NoButton
  /\ held' = NoButton
  /\ \/ Swallowed /\ UNCHANGED <<menu, presses>>
     \/ Passed /\ menu' = MenuAfter(b) /\ presses' = Fired(presses, Len(presses))
  /\ UNCHANGED <<pageVars, inputs, dragging>>

\* It is released on a button that sends the command c.
UpOnSender(c) ==
  /\ held # NoButton
  /\ held' = NoButton
  /\ \/ Swallowed /\ UNCHANGED <<pageVars, presses>>
     \/ Passed /\ Send(<<c>>) /\ presses' = Fired(presses, Len(presses))
  /\ UNCHANGED <<inputs, menu, dragging>>

\* It was pressed beside all buttons and is released on one with a menu.
ReleaseOnto(b) ==
  /\ Reaches("presses")
  /\ \/ ClickSwallowed /\ UNCHANGED menu
     \/ ClickPassed /\ menu' = MenuAfter(b)
  /\ UNCHANGED <<pageVars, held, dragging>>

\* It is released beside the buttons, or on one that wants a click.
UpBeside ==
  /\ held # NoButton
  /\ held' = NoButton
  /\ UNCHANGED <<pageVars, inputs, done, lpTimer, running, menu, presses, dragging>>

\* The timer of the press p ends: a long press.
LongPress(p) ==
  /\ running' = running \ {p}
  /\ lpTimer' = 0
  /\ IF done = "false" THEN
       /\ done' = "null"
       /\ UNCHANGED <<pageVars, presses>>
     ELSE
       /\ done' = "true"
       /\ presses' = Fired(presses, p)
       /\ Send(<<MenuButtons[presses[p].button]>>)
  /\ UNCHANGED <<inputs, held, menu, dragging>>

\* An entry of the menu; the menu stays open.
Choose ==
  /\ menu # Closed
  /\ Input("presses")
  /\ \E cs \in menu[1] : Send(cs)
  /\ UNCHANGED pressVars

\* A click beside the menu (observeEventsForTouchmenu)
CloseMenu ==
  /\ menu # Closed
  /\ menu' = Closed
  /\ UNCHANGED <<pageVars, inputs, done, lpTimer, running, held, presses, dragging>>

-----------------------------------------------------------------------------
\* The sliders ("input", "change", window.block).  A slider moves under the pointer
\* whether or not its event is swallowed.

SetBy == [position |-> "set_position", volume |-> "set_volume"]

Drag(w) ==
  /\ Input("buttons")
  /\ menu = Closed /\ held = NoButton /\ dragging \in {"none", w}
  /\ dragging' = w
  /\ \E t \in Positions : view' = [view EXCEPT ![w] = t]
  /\ moved' = [moved EXCEPT ![w] = TRUE]
  /\ presses' = Disturbed
  /\ \/ Swallowed /\ UNCHANGED block
     \/ Passed /\ block' = [block EXCEPT ![w] = "false"]
  /\ UNCHANGED <<socketVars, mpv_status, rows, pending, updates, timer, connected, hidden,
                 switches, overtaken, apart, held, menu>>

\* send fails while the socket is being opened, and block stays as it is.
Dropped(w) ==
  IF ws # 0 /\ ~Opened(ws) THEN UNCHANGED pageVars
  ELSE
    /\ socks' = Sends(<<Command(SetBy[w], view[w], 0)>>)
    /\ block' = [block EXCEPT ![w] = IF @ = "false" THEN "timeout" ELSE @]
    /\ UNCHANGED <<told, ws, restart, shownVars, connected, hidden, switches, pageHistory>>

Drop(w) ==
  /\ dragging = w
  /\ dragging' = "none"
  /\ presses' = Disturbed
  /\ \/ Swallowed /\ UNCHANGED pageVars
     \/ Passed /\ Dropped(w)
  /\ UNCHANGED <<inputs, held, menu>>

Unblock(w) ==
  /\ block[w] = "timeout"
  /\ block' = [block EXCEPT ![w] = "null"]
  /\ UNCHANGED <<socketVars, shownVars, connected, hidden, switches, pageHistory, controlVars>>

ControlsNext ==
  \/ ClickRow \/ CycleLoop \/ Key \/ ClickButton
  \/ \E b \in UsedMenus : Down(b) \/ Up(b) \/ ReleaseOnto(b)
  \/ \E c \in UsedButtons \cap ReleaseCommands : UpOnSender(c)
  \/ UpBeside
  \/ \E p \in running : LongPress(p)
  \/ Choose \/ CloseMenu
  \/ \E w \in Sliders : Drag(w) \/ Drop(w) \/ Unblock(w)
=============================================================================
