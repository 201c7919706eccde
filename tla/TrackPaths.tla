------------------------------ MODULE TrackPaths ------------------------------
(***************************************************************************)
(* Which shared folder holds the file that mpv plays (media_track_paths.c).*)
(*                                                                         *)
(* The event thread leaves the path of a started file in mtp->pending.  The*)
(* thread of the HTTP server that next asks for the current share moves it *)
(* on to mtp->current_share_info, mtp->current_directory and the           *)
(* "current_directory" of that share.                                      *)
(*                                                                         *)
(* A path is a sequence of words, "/" being one of them, and two words that*)
(* follow each other make a longer name: <<"/", "m", "2">> stands for /m2. *)
(* So the string comparison of strstarts is a prefix of sequences.  Names  *)
(* of current files are stored by the code and read by nothing; they are   *)
(* left out.  A share is its number in the order of the dictionary.        *)
(***************************************************************************)
EXTENDS Integers, Sequences, SequencesExt

CONSTANTS
  ShareMaps,   \* the possible lists of shares: sequences of their paths
  Dirs, Files, \* the file system
  Played,      \* paths and URLs mpv may start to play
  Words,       \* the words of paths
  NoPath       \* the NULL pointer, also the number of no share

Paths == Seq(Words)

\* The names of folders and files are absolute.
ASSUME TrackPathsAssumption ==
  /\ "/" \in Words
  /\ ShareMaps \subseteq Seq(Paths)
  /\ Dirs \cup Files \cup Played \subseteq Paths
  /\ \A p \in Dirs \cup Files : p # <<>> /\ Head(p) = "/"
  /\ NoPath \notin Paths \cup Nat

VARIABLES
  sharePath,   \* path of each share; does not change
  shareDir,    \* "current_directory" of each share, relative to its path
  curShare,    \* mtp->current_share_info
  curDir,      \* mtp->current_directory
  pending,     \* mtp->pending
  playing,     \* the path last given to media_track_paths_set (history)
  browsed      \* a handler has stored a folder of curShare since curDir was
               \* set (history)

trackVars ==
  <<sharePath, shareDir, curShare, curDir, pending, playing, browsed>>

Shares == DOMAIN sharePath

\* realpath
Exists(p) == p \in Dirs \cup Files

\* The last "/" of an absolute path.
LastSlash(p) ==
  CHOOSE i \in DOMAIN p : p[i] = "/" /\ \A j \in i + 1 .. Len(p) : p[j] # "/"

Dirname(p) ==
  IF LastSlash(p) = 1 THEN <<"/">> ELSE SubSeq(p, 1, LastSlash(p) - 1)

\* strstarts
Starts(paths, s, dir) == IsPrefix(paths[s], dir)

\* translate_path
Translate_OffByOne(paths, s, dir) == SubSeq(dir, Len(paths[s]), Len(dir))

Translate(paths, s, dir) == SubSeq(dir, Len(paths[s]) + 1, Len(dir))

\* __update, called for one share after the other until one matches
FirstMatch(paths, dir) ==
  CHOOSE s \in DOMAIN paths :
    /\ Starts(paths, s, dir)
    /\ \A r \in 1 .. s - 1 : ~Starts(paths, r, dir)

\* The share that _media_track_paths_update selects for dir, or NoPath when
\* nothing changes: the current share as long as it holds dir.
Select_KeepsShare(paths, share, dir) ==
  IF share # NoPath THEN share
  ELSE IF \E s \in DOMAIN paths : Starts(paths, s, dir)
       THEN FirstMatch(paths, dir)
       ELSE NoPath

\* (D_Suffix before a definition D is a mutant of D.)
Select(paths, share, dir) ==
  IF share # NoPath /\ Starts(paths, share, dir) THEN share
  ELSE IF \E s \in DOMAIN paths : Starts(paths, s, dir)
       THEN FirstMatch(paths, dir)
       ELSE NoPath

\* The share whose "current_directory" _media_track_paths_update replaces for
\* the file path, or NoPath: a file in the folder of the one before, one in no
\* share and one that does not exist change nothing.
Updated(path) ==
  IF Exists(path) /\ Dirname(path) # curDir
  THEN Select(sharePath, curShare, Dirname(path))
  ELSE NoPath

\* _media_track_paths_update with a path to a file, as primed variables
Update(path) ==
  LET s == Updated(path) IN
  IF s = NoPath
  THEN UNCHANGED <<curShare, curDir, shareDir, browsed>>
  ELSE /\ curShare' = s
       /\ browsed' = FALSE
       /\ curDir' = Dirname(path)
       /\ shareDir' = [shareDir EXCEPT ![s] = Translate(sharePath, s, Dirname(path))]

\* webui_onion_share_media_folders makes the first share the current one with
\* media_track_paths_set_directory: the update with a directory.
TrackInit ==
  /\ sharePath \in ShareMaps
  /\ LET first == sharePath[1]
         s     == Select(sharePath, NoPath, first)
     IN IF sharePath # <<>> /\ Exists(first)
        THEN /\ curShare = s
             /\ curDir = first
             /\ shareDir = [r \in Shares |->
                  IF r = s THEN Translate(sharePath, s, first) ELSE NoPath]
        ELSE /\ curShare = NoPath
             /\ curDir = NoPath
             /\ shareDir = [r \in Shares |-> NoPath]
  /\ pending = NoPath
  /\ playing = NoPath
  /\ browsed = FALSE

\* MPV_EVENT_START_FILE: media_track_paths_set
StartFile(path) ==
  /\ pending' = path
  /\ playing' = path
  /\ UNCHANGED <<sharePath, shareDir, curShare, curDir, browsed>>

\* The critical section of media_track_paths_get_current_share
TakePending ==
  /\ pending # NoPath
  /\ Update(pending)
  /\ pending' = NoPath
  /\ UNCHANGED <<sharePath, playing>>

\* A handler stores the folder it was last asked for.
SetShareDir(s, rel) ==
  /\ shareDir' = [shareDir EXCEPT ![s] = rel]
  /\ browsed' = (browsed \/ s = curShare)
  /\ UNCHANGED <<sharePath, curShare, curDir, pending, playing>>

-----------------------------------------------------------------------------
\* dir is the folder of share s or below it.
Inside(dir, s) == dir = sharePath[s] \/ IsPrefix(sharePath[s] \o <<"/">>, dir)

\* The name of dir does not just continue the path of a share.
NamesSeparate(dir) ==
  \A s \in Shares : Starts(sharePath, s, dir) => Inside(dir, s)

\* When no path is pending, the current share holds the file last started, if
\* any share does: no start of a file is lost between the event thread and
\* several HTTP threads.  (With the shares /m and /m2 the code takes a file of
\* /m2 for one of /m.)
CurrentShareFollows ==
  /\ pending = NoPath
  /\ playing # NoPath
  /\ Exists(playing)
  /\ NamesSeparate(Dirname(playing))
  /\ \E s \in Shares : Inside(Dirname(playing), s)
  => curShare # NoPath /\ Inside(Dirname(playing), curShare)

\* "Stores for each share the latest viewed path and updates this value if mpv
\* starts new file, too" (media_track_paths.c:2): the current share shows the
\* folder of the file last started, as long as nobody has looked at another
\* folder of the share since mpv came to that folder.  (Not since it started
\* that file: the next file of the same folder does not bring the value back.)
CurrentFolderFollows ==
  /\ curShare # NoPath
  /\ ~browsed
  => /\ sharePath[curShare] \o shareDir[curShare] = curDir
     /\ pending = NoPath /\ playing # NoPath /\ Exists(playing)
          /\ (\E s \in Shares : Inside(Dirname(playing), s))
        => curDir = Dirname(playing)
=============================================================================
