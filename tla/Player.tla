------------------------------- MODULE Player -------------------------------
(***************************************************************************)
(* mpv with the commands of mpv_api_commands.c, which the threads of the   *)
(* server run one at a time under mpv_lock, while the user of mpv's own    *)
(* window changes what he likes at any moment.                             *)
(*                                                                         *)
(* mpv maps the observed properties to their values.  A playlist is        *)
(* [files, pos, playing]: the index of the current entry counts from zero, *)
(* -1 is none, and playing tells whether the current entry was started.    *)
(* Times are in seconds, delays in milliseconds, speeds in hundredths and  *)
(* the factor of increase_playback_speed in tenths.                        *)
(***************************************************************************)
EXTENDS Integers, Sequences, SequencesExt, FiniteSets

CONSTANTS
  Files,       \* what can be played
  FileInfo,    \* the properties that a file brings along when it starts
  FirstState,  \* mpv when the page is opened
  Bounds       \* bounds that are explored, see below

VARIABLES
  mpv,     \* the values of the properties
  dirty,   \* properties whose change the page was not told yet
  job,     \* the command that holds mpv_lock
  changes, \* number of changes in the window
  bounds   \* the bounds that hold, a member of Bounds

playerVars == <<mpv, dirty, job, changes, bounds>>

\* A member of Bounds is [window, alters, sockets, accepted, switches, inputs, uses]:
\* how many changes are made in mpv's window and which, how many websockets are opened,
\* connections accepted, tabs switched and things done by the user, and of which kinds.

Props == DOMAIN FirstState

IsPlaylist(pl) ==
  /\ pl \in [files : Seq(Files), pos : Int, playing : BOOLEAN]
  /\ pl.pos \in -1 .. Len(pl.files) - 1
  /\ pl.pos = -1 => ~pl.playing

\* Properties with their values
IsStatus(s) == DOMAIN s \subseteq Props /\ ("playlist" \in DOMAIN s => IsPlaylist(s["playlist"]))

\* What a file brings along does not replace the playlist.
ASSUME PlayerAssumption ==
  /\ {"playlist", "pause"} \subseteq Props /\ IsStatus(FirstState)
  /\ \A f \in Files : DOMAIN FileInfo[f] \subseteq Props \ {"playlist"}
  /\ \A b \in Bounds : \A ch \in b.alters : IsStatus(ch)

Playlist == mpv["playlist"]

\* The values of f, and those of g where f has none
Over(f, g) == [x \in DOMAIN f \cup DOMAIN g |-> IF x \in DOMAIN f THEN f[x] ELSE g[x]]

\* A command with what its sender saw: the list of files that was shown and the
\* file that was meant (history).
Command(c, p1, p2) == [cmd |-> c, p1 |-> p1, p2 |-> p2, shown |-> <<>>, meant |-> "none"]

NoJob == [cmd |-> "none", step |-> "none"]

EntryCommands == {"playlist_jump", "playlist_remove", "playlist_move_up"}

NumberCommands ==
  EntryCommands \cup {"seek", "set_position", "add_volume", "set_volume",
    "add_sub_delay", "set_sub_delay", "add_audio_delay", "set_audio_delay",
    "add_chapter", "set_chapter", "increase_playback_speed", "set_subtitle",
    "set_audio", "set_video"}

\* check_int_or_float, check_valid_param; NaN stands for every text that is no number
NaN == -1000000

Accepts(c) ==
  /\ c.cmd \in NumberCommands => c.p1 # NaN
  /\ c.cmd = "playlist_move" => NaN \notin {c.p1, c.p2}
  /\ c.cmd = "loop_file" => c.p1 \in {"inf", "no"}
  /\ c.cmd = "loop_playlist" => c.p1 \in {"inf", "no", "force"}
  /\ c.cmd = "playlist_add" => c.p2 \in Files

-----------------------------------------------------------------------------
\* What mpv does.

Within(x, lo, hi) == IF x < lo THEN lo ELSE IF x > hi THEN hi ELSE x

\* Setting playlist-pos
JumpTo(pl, i) ==
  [pl EXCEPT !.pos = IF i \in 0 .. Len(pl.files) - 1 THEN i ELSE -1, !.playing = FALSE]

\* playlist-next (1), playlist-prev (-1): refused at the ends
Neighbour(pl, d) ==
  IF pl.pos # -1 /\ pl.pos + d \in 0 .. Len(pl.files) - 1 THEN JumpTo(pl, pl.pos + d) ELSE pl

\* playlist-remove: the entry after the current one takes its place.
Without(pl, i) ==
  IF i \notin 0 .. Len(pl.files) - 1 THEN pl
  ELSE LET rest == [pl EXCEPT !.files = RemoveAt(pl.files, i + 1)]
       IN IF i = pl.pos THEN JumpTo(rest, i)
          ELSE IF i < pl.pos THEN [rest EXCEPT !.pos = @ - 1] ELSE rest

\* playlist-move: the entry i is put before the entry j.
Moved(pl, i, j) ==
  LET n    == Len(pl.files)
      to   == IF i < j THEN j - 1 ELSE j
      \* where the entry that was at k is then
      At(k) == IF k = i THEN to
               ELSE k - (IF k > i THEN 1 ELSE 0) + (IF k >= j THEN 1 ELSE 0)
  IN IF i \notin 0 .. n - 1 \/ i = j THEN pl
     ELSE [pl EXCEPT !.files = InsertAt(RemoveAt(@, i + 1), to + 1, pl.files[i + 1]),
                     !.pos = IF @ = -1 THEN -1 ELSE At(@)]

\* playlist-shuffle: the entry order[k] is put at k; the current one stays so.
Reordered(pl, order) ==
  [pl EXCEPT !.files = [k \in DOMAIN pl.files |-> pl.files[order[k]]],
             !.pos = IF @ = -1 THEN -1 ELSE (CHOOSE k \in DOMAIN pl.files : order[k] = @ + 1) - 1]

\* loadfile
Load(pl, flags, f) ==
  IF flags = "append" THEN [pl EXCEPT !.files = Append(@, f)]
  ELSE [files |-> <<f>>, pos |-> 0, playing |-> FALSE]

-----------------------------------------------------------------------------
\* cmd_increase_playback_speed: factors below 1 divide by 2 - factor; the result
\* is rounded to hundredths and kept in the range of mpv.
NewSpeed(speed, factor) ==
  LET d == IF factor < 10 THEN 20 - factor ELSE 10
      n == IF factor < 10 THEN 10 ELSE factor
  IN Within((2 * speed * n + d) \div (2 * d), 1, 10000)

Flag == [toggle_pause |-> "pause", toggle_mute |-> "mute", fullscreen |-> "fullscreen"]

\* The property a command reads before it changes something
ReadBy(c) ==
  CASE c \in DOMAIN Flag               -> {Flag[c]}
    [] c = "increase_playback_speed"   -> {"speed"}
    [] c = "playlist_prev"             -> {"time-pos"}
    [] OTHER                           -> {}

\* The commands that set one property p of m to a value that depends on p1
Adds == [add_volume |-> "volume", add_sub_delay |-> "sub-delay",
         add_audio_delay |-> "audio-delay", add_chapter |-> "chapter", seek |-> "time-pos"]
Sets == [set_volume |-> "volume", set_sub_delay |-> "sub-delay",
         set_audio_delay |-> "audio-delay", set_chapter |-> "chapter",
         set_position |-> "time-pos", loop_file |-> "loop-file",
         loop_playlist |-> "loop-playlist"]

\* The commands that select a track, and its kind; track-list maps the kinds to the
\* tracks in use.
Selects == [set_subtitle |-> "sub", set_audio |-> "audio", set_video |-> "video"]

Limit(m, p, x) ==
  CASE p = "volume"   -> Within(x, 0, 130)
    [] p = "time-pos" -> Within(x, 0, m["duration"])
    [] p = "chapter"  -> Within(x, -1, m["chapters"] - 1)
    [] OTHER          -> x

\* cycle: the next track, 0 after the last one; two of each kind
Cycled(x) == (x + 1) % 3

PlaylistAfter(j, m) ==
  LET pl == m["playlist"]
  IN CASE j.cmd = "playlist_next"    -> Neighbour(pl, 1)
       [] j.cmd = "playlist_prev"    -> Neighbour(pl, -1)
       [] j.cmd = "playlist_jump"    -> JumpTo(pl, j.p1)
       [] j.cmd = "playlist_remove"  -> Without(pl, j.p1)
       [] j.cmd = "playlist_move"    -> Moved(pl, j.p1, j.p2)
       [] j.cmd = "playlist_move_up" -> IF j.p1 > 0 THEN Moved(pl, j.p1, j.p1 - 1) ELSE pl
       [] OTHER                      -> pl

\* What the last call of the command j makes of the properties m; j.read is the
\* value that was read before.
Effect(j, m) ==
  CASE j.cmd \in {"play", "pause"} -> [m EXCEPT !["pause"] = j.cmd = "pause"]
    [] j.cmd \in DOMAIN Flag       -> [m EXCEPT ![Flag[j.cmd]] = ~j.read]
    [] j.cmd \in DOMAIN Adds       -> LET p == Adds[j.cmd]
                                      IN [m EXCEPT ![p] = Limit(m, p, @ + j.p1)]
    [] j.cmd \in DOMAIN Sets       -> LET p == Sets[j.cmd]
                                      IN [m EXCEPT ![p] = Limit(m, p, j.p1)]
    [] j.cmd \in DOMAIN Selects    -> [m EXCEPT !["track-list"][Selects[j.cmd]] = j.p1]
    [] j.cmd = "cycle"             -> [m EXCEPT !["track-list"][j.p1] = Cycled(@)]
    [] j.cmd = "increase_playback_speed" -> [m EXCEPT !["speed"] = NewSpeed(j.read, j.p1)]
    [] j.cmd = "reset_playback_speed"    -> [m EXCEPT !["speed"] = 100]
    \* more than five seconds into the file: back to its start
    [] j.cmd = "playlist_prev" /\ j.read > 5 ->
         [m EXCEPT !["time-pos"] = Within(@ - j.read, 0, m["duration"])]
    [] OTHER                       -> [m EXCEPT !["playlist"] = PlaylistAfter(j, m)]

-----------------------------------------------------------------------------
PlayerInit ==
  /\ mpv = FirstState
  /\ dirty = {}
  /\ job = NoJob
  /\ changes = 0
  /\ bounds \in Bounds

Become(m) ==
  /\ mpv' = m
  /\ dirty' = dirty \cup {p \in Props : m[p] # mpv[p]}

FirstStep(c) ==
  IF ~Accepts(c) THEN "fail"
  ELSE CASE c.cmd = "playlist_add"     -> "load"
         [] c.cmd = "playlist_shuffle" -> "shuffle"
         [] ReadBy(c.cmd) # {}         -> "read"
         [] OTHER                      -> "write"

\* A thread takes mpv_lock for the command c (handle_command_p2,
\* handle_api_get_or_post_data).
Start(c) ==
  /\ job = NoJob
  /\ job' = [cmd |-> c.cmd, p1 |-> c.p1, p2 |-> c.p2, shown |-> c.shown, meant |-> c.meant,
             step |-> FirstStep(c), read |-> 0, idle |-> Playlist.pos = -1, touched |-> FALSE]

Goto(step) == job' = [job EXCEPT !.step = step]

Release == job' = NoJob

Fail == job.step = "fail" /\ Release /\ UNCHANGED <<mpv, dirty, changes, bounds>>

Read ==
  /\ job.step = "read"
  /\ \E p \in ReadBy(job.cmd) : job' = [job EXCEPT !.read = mpv[p], !.step = "write"]
  /\ UNCHANGED <<mpv, dirty, changes, bounds>>

Write ==
  /\ job.step = "write"
  /\ Become(Effect(job, mpv))
  /\ Release
  /\ UNCHANGED <<changes, bounds>>

\* cmd_playlist_shuffle: any order of the entries
Shuffle ==
  /\ job.step = "shuffle"
  /\ \E order \in Bijection(DOMAIN Playlist.files, DOMAIN Playlist.files) :
       Become([mpv EXCEPT !["playlist"] = Reordered(@, order)])
  /\ Release
  /\ UNCHANGED <<changes, bounds>>

\* cmd_playlist_add, cmd_media_playlist_add
LoadFile ==
  /\ job.step = "load"
  /\ Become([mpv EXCEPT !["playlist"] = Load(@, job.p1, job.p2)])
  /\ Goto(IF job.p1 = "append" THEN "check_idle" ELSE "unpause")
  /\ UNCHANGED <<changes, bounds>>

CheckIdle ==
  /\ job.step = "check_idle"
  /\ IF Playlist.pos = -1 THEN Goto("count") ELSE Release
  /\ UNCHANGED <<mpv, dirty, changes, bounds>>

\* (D_Suffix before a definition D is a mutant of D.)
Count_Length ==
  /\ job.step = "count"
  /\ job' = [job EXCEPT !.read = Len(Playlist.files), !.step = "jump"]
  /\ UNCHANGED <<mpv, dirty, changes, bounds>>

\* The code gives up when the playlist is empty meanwhile.
Count ==
  /\ job.step = "count"
  /\ IF Playlist.files = <<>> THEN Release
     ELSE job' = [job EXCEPT !.read = Len(Playlist.files) - 1, !.step = "jump"]
  /\ UNCHANGED <<mpv, dirty, changes, bounds>>

Jump ==
  /\ job.step = "jump"
  /\ Become([mpv EXCEPT !["playlist"] = JumpTo(@, job.read)])
  /\ Goto("unpause")
  /\ UNCHANGED <<changes, bounds>>

Unpause ==
  /\ job.step = "unpause"
  /\ Become([mpv EXCEPT !["pause"] = FALSE])
  /\ Release
  /\ UNCHANGED <<changes, bounds>>

-----------------------------------------------------------------------------
\* mpv starts the current entry.
StartFile ==
  /\ Playlist.pos # -1 /\ ~Playlist.playing
  /\ LET f == Playlist.files[Playlist.pos + 1]
     IN Become([Over(FileInfo[f], mpv) EXCEPT !["playlist"].playing = TRUE])
  /\ UNCHANGED <<job, changes, bounds>>

\* The user of mpv's window does not ask for mpv_lock.
WindowChange(ch) ==
  /\ changes < bounds.window
  /\ Over(ch, mpv) # mpv
  /\ Become(Over(ch, mpv))
  /\ changes' = changes + 1
  /\ job' = IF job = NoJob THEN job ELSE [job EXCEPT !.touched = TRUE]
  /\ UNCHANGED bounds

PlayerNext ==
  \/ Fail \/ Read \/ Write \/ Shuffle \/ LoadFile \/ CheckIdle \/ Count \/ Jump \/ Unpause
  \/ StartFile
  \/ \E ch \in bounds.alters : WindowChange(ch)
=============================================================================
