--------------------------- MODULE MCRemoteControl ---------------------------
(***************************************************************************)
(* RemoteControl for TLC: a player with three files, a page that loses its *)
(* websocket once, a user who does two things.                             *)
(***************************************************************************)
EXTENDS RemoteControl

CONSTANTS a, b, c

MCFiles == {a, b, c}

MCFirst ==
  ("playlist" :> [files |-> <<a, b>>, pos |-> 0, playing |-> TRUE]) @@
  ("pause" :> FALSE) @@ ("mute" :> FALSE) @@ ("fullscreen" :> FALSE) @@
  ("speed" :> 100) @@ ("time-pos" :> 3) @@ ("duration" :> 20) @@ ("volume" :> 100) @@
  ("chapter" :> 0) @@ ("chapters" :> 2) @@ ("loop-file" :> "no") @@ ("loop-playlist" :> "no") @@
  ("sub-delay" :> 0) @@ ("audio-delay" :> 0) @@
  ("track-list" :> [sub |-> 0, audio |-> 1, video |-> 1]) @@
  ("metadata" :> "none") @@ ("filename" :> a)

MCFileInfo == [f \in MCFiles |-> IF f = b THEN ("filename" :> b) @@ ("time-pos" :> 0) ELSE "filename" :> f]

List(fs, i, on) == "playlist" :> [files |-> fs, pos |-> i, playing |-> on]

Some == {
  List(<<>>, -1, FALSE),
  List(<<a, b>>, -1, FALSE) @@ ("pause" :> TRUE),
  List(<<c, a>>, 1, TRUE),
  "pause" :> TRUE,
  "time-pos" :> 9}

MCPositions == {15}

MCUsedMenus == {"playlistNext", "seekBack1"}

MCUsedButtons ==
  Plain({"reset_playback_speed", "playlist_shuffle", "toggle_mute", "playlist_prev"})
    \cup Numbered("increase_playback_speed", {11}) \cup Numbered("add_volume", {-2})

MCFolders == {<<>>, <<"x">>}
MCUrls == <<<<"s">>, <<"t">>>>
MCFirstDirs == <<<<>>, <<"x">>>>
MCInFolder == [d \in MCFolders |-> IF d = <<>> THEN {c} ELSE {"gone"}]

Limits(w, alt, so, ac, sw, n, uses) ==
  [window |-> w, alters |-> alt, sockets |-> so, accepted |-> ac, switches |-> sw,
   inputs |-> n, uses |-> uses]

\* The short playlists of three names
Lists == UNION {{List(fs, i, i # -1) : i \in -1 .. n - 1, fs \in [1 .. n -> MCFiles]} : n \in 0 .. 3}

\* Two playlists; lost connections; rows; presses; buttons, keys and sliders; shares;
\* all the controls that share the handlers of the long press
MCBounds == {
  Limits(2, Lists, 1, 1, 0, 0, {}),
  Limits(2, Some, 2, 2, 1, 0, {}),
  Limits(1, Some, 3, 3, 2, 0, {}),
  Limits(1, Some, 1, 1, 0, 1, {"rows"}),
  Limits(0, {}, 2, 2, 1, 1, {"rows"}),
  Limits(0, {}, 1, 0, 0, 3, {"presses"}),
  Limits(1, Some, 1, 1, 0, 2, {"buttons"}),
  Limits(0, {}, 2, 2, 0, 2, {"buttons"}),
  Limits(0, {}, 1, 0, 0, 4, {"shares"}),
  Limits(2, Some, 1, 0, 0, 2, {"shares"}),
  Limits(0, {}, 1, 0, 0, 3, {"presses", "buttons", "shares"}),
  Limits(0, {}, 1, 1, 0, 2, {"presses", "buttons", "shares"}),
  Limits(0, {}, 1, 0, 0, 4, {"presses", "shares"})}

\* Texts
Bytes == {"x", "q", "l", "b"}
MCStrings ==
  {<<>>, <<"x", "q">>, <<"q", "x", "x", "x", "q">>, <<"l", "c", "q", "x", "l", "c", "q">>,
   <<"x", "q", "b", "x", "x">>, <<"x", "x", "x">>, <<"l", "c", "l", "c", "q", "x">>,
   <<"q", "q", "q", "q">>, <<"x", "l", "c", "x", "q", "x">>}
MCLengths == 0 .. 60
MCTexts == {[cmd |-> <<"m">>, p1 |-> p, p2 |-> q] :
              p \in {<<>>, <<"x">>, <<"x", "/", "y">>}, q \in {<<>>, <<"y">>, <<"y", "/">>}}
=============================================================================
