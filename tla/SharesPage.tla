----------------------------- MODULE SharesPage -----------------------------
(***************************************************************************)
(* The list of shared folders in the page (shares.js).  Each request is    *)
(* answered by a handler of its own, in whatever order the answers come.   *)
(*                                                                         *)
(* A folder is a sequence of names below its share; Current stands for the *)
(* folder ".current", for which the server answers with the folder that    *)
(* was asked for last.  The server's part is TrackPaths and HttpServer.    *)
(***************************************************************************)
EXTENDS PageControls

CONSTANTS
  NShares,   \* number of shares; they are 1 .. NShares in the selector
  Urls,      \* the url of each share
  Folders,   \* the folders of each share
  FirstDirs, \* what was asked for last in each share when the page is opened
  InFolder   \* the files of a folder

\* The names in the folders
Names == UNION {ToSet(d) : d \in Folders}

ShareIds == 1 .. NShares

\* shares.list is an array, a folder is a sequence of names.  No url begins with another:
\* of two such shares the server itself takes one for the other (ShareNames).
ASSUME SharesAssumption ==
  /\ NShares \in Nat /\ Folders \subseteq Seq(Names)
  /\ FirstDirs \in [ShareIds -> Folders]
  /\ \A i, k \in ShareIds : IsPrefix(Urls[i], Urls[k]) => i = k

VARIABLES
  listed,    \* shares.list exists
  dir,       \* shares.list[i].dir
  selected,  \* shares.selected
  selector,  \* the share the selector shows, 0 for none
  printed,   \* the folder whose list is shown, and whether ".current" was asked for
  asked,     \* requests without an answer, in the order they were made
  lastDir,   \* the server: what was asked for last in each share
  http,      \* commands on their way in HTTP requests
  missed,    \* an answer failed, or came before an earlier one (history)
  strayed    \* the selector was changed and nothing asked, nor shown since (history)

sharesVars == <<listed, dir, selected, selector, printed, asked, lastDir, http, missed, strayed>>

Current == <<".current">>
Nowhere == [share |-> 0, dir |-> <<>>, restored |-> FALSE]

\* What is asked: the shares (kind "shares"), the list of a folder; share 0 is ".current"
Ask(kind, i, d) == Append(asked, [kind |-> kind, share |-> i, dir |-> d])

SharesInit ==
  /\ listed = FALSE
  /\ dir = [i \in ShareIds |-> Current]
  /\ selected = 0 /\ selector = 0
  /\ printed = Nowhere
  /\ asked = <<>>
  /\ lastDir = FirstDirs
  /\ http = {}
  /\ missed = FALSE /\ strayed = FALSE

\* toggleShares, refresh_share_list.  Whether the overlay is visible is left open: it
\* is asked for the list when it becomes so while there is none, also for a second time
\* before the first answer.
ToggledShares ==
  /\ \/ UNCHANGED asked
     \/ ~listed /\ asked' = Ask("shares", 0, <<>>)
  /\ UNCHANGED <<listed, dir, selected, selector, printed, lastDir, http, missed, strayed>>

\* With the button
ToggleShares ==
  /\ Reaches("shares")
  /\ \/ ClickSwallowed /\ UNCHANGED sharesVars
     \/ ClickPassed /\ ToggledShares
  /\ UNCHANGED <<held, menu, dragging>>

\* With a key or a swipe
ShowShares == Input("shares") /\ ToggledShares /\ UNCHANGED pressVars

\* share_change: asks for the folder of the share in the selector
ShareChange(i, dirs) == asked' = Ask("folder", i, IF i = 0 THEN Current ELSE dirs[i])

\* The user picks another share.  The selector shows it at once, but nothing is asked when
\* a menu is open or a long press swallows the event.
PickShare ==
  /\ listed
  /\ Input("shares") /\ held = NoButton /\ dragging = "none"
  /\ \E i \in ShareIds \ {selector} :
       /\ selector' = i
       /\ \/ menu # Closed /\ strayed' = TRUE /\ UNCHANGED <<asked, pressVars>>
          \/ menu = Closed /\ Swallowed /\ strayed' = TRUE /\ UNCHANGED asked
          \/ menu = Closed /\ Passed /\ ShareChange(i, dir) /\ UNCHANGED strayed
       /\ menu = Closed => presses' = Disturbed
  /\ UNCHANGED <<held, menu, dragging, listed, dir, selected, printed, lastDir, http, missed>>

\* cycle_share: a swipe with two fingers
CycleShare ==
  /\ listed /\ NShares > 0
  /\ Reaches("shares")
  /\ \E d \in {-1, 1} : selector' = 1 + ((NShares + selector - 1 + d) % NShares)
  /\ ShareChange(selector', dir)
  /\ UNCHANGED <<listed, dir, selected, printed, lastDir, http, missed, strayed, pressVars>>

\* A swipe down asks again.
Refresh ==
  /\ listed /\ selected # 0
  /\ Reaches("shares")
  /\ ShareChange(selector, dir)
  /\ UNCHANGED <<listed, dir, selected, selector, printed, lastDir, http, missed, strayed, pressVars>>

\* Links of the printed list: a folder in it, "..", "/".  They change the folder
\* of the share that shares.selected names (share_change_dir).
Parent(d) == SubSeq(d, 1, Len(d) - 1)

LinksTo ==
  {d \in Folders : d # <<>> /\ Parent(d) = printed.dir}
    \cup (IF printed.dir = <<>> THEN {} ELSE {Parent(dir[selected])})
    \cup (IF Len(printed.dir) < 2 THEN {} ELSE {<<>>})

ChangeDir ==
  /\ printed # Nowhere
  /\ Reaches("shares")
  /\ \E d \in LinksTo :
       /\ dir' = [dir EXCEPT ![selected] = d]
       /\ ShareChange(selector, dir')
  /\ UNCHANGED <<listed, selected, selector, printed, lastDir, http, missed, strayed, pressVars>>

\* share_add_file
AddFile ==
  /\ printed # Nowhere
  /\ Reaches("shares")
  /\ \E f \in InFolder[printed.dir], flags \in {"append", "replace"} :
       http' = http \cup {Command("playlist_add", flags, f)}
  /\ UNCHANGED <<listed, dir, selected, selector, printed, asked, lastDir, missed, strayed, pressVars>>

-----------------------------------------------------------------------------
\* The folder that the server lists for the request r
Resolved(r, i) ==
  [share |-> i, dir |-> IF r.dir = Current THEN lastDir[i] ELSE r.dir, restored |-> r.dir = Current]

\* update_selected_share: the first share whose url the folder of share i begins with
ListedAs(i) ==
  CHOOSE k \in ShareIds :
    IsPrefix(Urls[k], Urls[i]) /\ \A j \in 1 .. k - 1 : ~IsPrefix(Urls[j], Urls[i])

\* (D_Suffix before a definition D is a mutant of D.)
ShowFolder_KeepsSelector(f) ==
  /\ selected' = ListedAs(f.share)
  /\ dir' = dir
  /\ printed' = f
  /\ UNCHANGED <<selector, strayed>>

\* update_selected_share, print_share_list.  Only if the share is not the first one
\* (index 0), ".current" is replaced, and not by the folder but by the root of the
\* share: share_get_subdir finds no /media/api/list in front of json.dirpath.
ShowFolder(f) ==
  LET i == ListedAs(f.share)
  IN /\ selected' = i
     /\ selector' = i
     /\ strayed' = FALSE
     /\ dir' = IF i # 1 /\ dir[i] = Current THEN [dir EXCEPT ![i] = <<>>] ELSE dir
     /\ printed' = f

\* An answer arrives.
Answer(k) ==
  LET r == asked[k]
      left == RemoveAt(asked, k)
  IN /\ missed' = (missed \/ k > 1)
     /\ CASE r.kind = "shares" ->
               /\ listed' = TRUE
               /\ dir' = [i \in ShareIds |-> Current]
               /\ selector' = 0
               /\ asked' = Append(left, [kind |-> "folder", share |-> 0, dir |-> Current])
               /\ UNCHANGED <<selected, printed, lastDir, strayed>>
          [] r.kind = "folder" ->
               /\ \E i \in IF r.share = 0 THEN ShareIds ELSE {r.share} :
                    /\ ShowFolder(Resolved(r, i))
                    /\ lastDir' = [lastDir EXCEPT ![i] = Resolved(r, i).dir]
               /\ asked' = left
               /\ UNCHANGED listed
     /\ UNCHANGED http

\* A request fails; the page keeps what it had.
AnswerFails(k) ==
  /\ asked' = RemoveAt(asked, k)
  /\ missed' = TRUE
  /\ UNCHANGED <<listed, dir, selected, selector, printed, lastDir, http, strayed>>

SharesNext ==
  \/ ToggleShares \/ ShowShares \/ PickShare \/ CycleShare \/ Refresh \/ ChangeDir \/ AddFile
  \/ /\ \E k \in DOMAIN asked : Answer(k) \/ AnswerFails(k)
     /\ UNCHANGED controlVars
=============================================================================
