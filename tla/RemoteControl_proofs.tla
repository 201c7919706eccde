------------------------- MODULE RemoteControl_proofs -------------------------
(***************************************************************************)
(* Proofs about RemoteControl, for every playlist, number of shares,       *)
(* folders and websockets, whatever the user and mpv do: the list of       *)
(* shares follows its selection, a press fires once, a command keeps the   *)
(* entry it was meant for, an appended file is played, every variable      *)
(* keeps its type, and the page follows the player.                        *)
(*                                                                         *)
(* Each of them rests on an inductive invariant, stated where it is first  *)
(* needed: CommandInv says what may be on its way to mpv and what the page *)
(* may hold, FollowInv what is on its way to the page and what it shows.   *)
(***************************************************************************)
EXTENDS RemoteControl, ApiMessages_proofs

-----------------------------------------------------------------------------
(* The list of shares.                                                      *)

sharesKept == <<listed, dir, selected, selector, printed, asked, lastDir, missed, strayed>>

\* What a step does to the list of shares.
LEMMA SharesStep ==
  ASSUME [Next]_vars
  PROVE  \/ ToggledShares \/ PickShare \/ CycleShare \/ Refresh \/ ChangeDir
         \/ \E k \in DOMAIN asked : Answer(k) \/ AnswerFails(k)
         \/ UNCHANGED sharesKept
BY DEF Next, vars, SharesNext, ToggleShares, ShowShares, AddFile, TakeCommand, TakeRequest,
       sharesVars, sharesKept

Dirs == Seq(Names \cup {".current"})

Requests == [kind : {"shares", "folder"}, share : ShareIds \cup {0}, dir : Dirs]

SharesTypes ==
  /\ listed \in BOOLEAN /\ missed \in BOOLEAN /\ strayed \in BOOLEAN
  /\ dir \in [ShareIds -> Dirs] /\ lastDir \in [ShareIds -> Dirs]
  /\ selected \in ShareIds \cup {0} /\ selector \in ShareIds \cup {0}
  /\ printed \in [share : ShareIds \cup {0}, dir : Dirs, restored : BOOLEAN]
  /\ asked \in Seq(Requests)

\* The folder that is shown is one of the selected share.
ShownIsSelected ==
  /\ selected = printed.share
  /\ printed # Nowhere => selected # 0

\* The page keeps the folder that is asked for in r, unless it asks for ".current".
Fits(r) ==
  r.kind = "folder" /\ r.dir # Current => r.share \in ShareIds /\ dir[r.share] = r.dir

\* As long as the answers come in order, the last request is what the page is
\* about to show.
LastDecides ==
  ~missed =>
    /\ asked # <<>> => Fits(asked[Len(asked)])
    /\ asked = <<>> /\ printed # Nowhere =>
         /\ ~strayed => selector = selected
         /\ ~printed.restored => dir[selected] = printed.dir

SharesInv == SharesTypes /\ ShownIsSelected /\ LastDecides

\* The requests that are left when one was answered: the last one stays the last.
LEMMA LeftOver ==
  ASSUME NEW S, NEW q \in Seq(S), NEW k \in DOMAIN q
  PROVE  /\ RemoveAt(q, k) \in Seq(S)
         /\ Len(RemoveAt(q, k)) = Len(q) - 1
         /\ \A j \in DOMAIN RemoveAt(q, k) :
              RemoveAt(q, k)[j] = IF j < k THEN q[j] ELSE q[j + 1]
<1> DEFINE a == SubSeq(q, 1, k - 1)
           b == SubSeq(q, k + 1, Len(q))
<1>1. /\ k \in 1 .. Len(q) /\ Len(q) \in Nat
      /\ a \in Seq(S) /\ Len(a) = k - 1 /\ \A j \in 1 .. k - 1 : a[j] = q[j]
      /\ b \in Seq(S) /\ Len(b) = Len(q) - k /\ \A j \in 1 .. Len(q) - k : b[j] = q[j + k]
  OBVIOUS
<1> HIDE DEF a, b
<1>2. /\ a \o b \in Seq(S) /\ Len(a \o b) = Len(q) - 1
      /\ \A j \in 1 .. Len(q) - 1 : (a \o b)[j] = IF j < k THEN q[j] ELSE q[j + 1]
  <2>1. /\ a \o b \in Seq(S) /\ Len(a \o b) = Len(a) + Len(b)
        /\ \A j \in 1 .. Len(a) + Len(b) : (a \o b)[j] = IF j <= Len(a) THEN a[j] ELSE b[j - Len(a)]
    BY <1>1, ConcatProperties
  <2>2. SUFFICES ASSUME NEW j \in 1 .. Len(q) - 1
                 PROVE  (a \o b)[j] = IF j < k THEN q[j] ELSE q[j + 1]
    BY <1>1, <2>1
  <2>3. CASE j < k
    BY <1>1, <2>1, <2>3
  <2>4. CASE ~(j < k)
    <3>1. j - (k - 1) \in 1 .. Len(q) - k /\ (j - (k - 1)) + k = j + 1
      BY <1>1, <2>4
    <3>2. (a \o b)[j] = b[j - (k - 1)]
      BY <1>1, <2>1, <2>4
    <3>3. QED
      BY <1>1, <2>4, <3>1, <3>2
  <2>5. QED
    BY <2>3, <2>4
<1>3. RemoveAt(q, k) = a \o b
  BY DEF RemoveAt, a, b
<1> QED
  BY <1>1, <1>2, <1>3

LEMMA SharesInitially == Init => SharesInv
<1> SUFFICES ASSUME Init PROVE SharesInv
  OBVIOUS
<1>1. <<>> \in Dirs /\ Current \in Dirs /\ <<>> \in Seq(Requests)
  BY DEF Dirs, Current
<1>2. /\ listed = FALSE /\ missed = FALSE /\ strayed = FALSE
      /\ selected = 0 /\ selector = 0 /\ printed = Nowhere
      /\ asked = <<>> /\ dir = [i \in ShareIds |-> Current] /\ lastDir = FirstDirs
  BY DEF Init, SharesInit
<1>3. FirstDirs \in [ShareIds -> Dirs]
  <2>1. Folders \subseteq Dirs
    BY SharesAssumption DEF Dirs
  <2>2. QED
    BY <2>1, SharesAssumption
<1>4. SharesTypes
  BY <1>1, <1>2, <1>3 DEF SharesTypes, Nowhere
<1>5. ShownIsSelected /\ LastDecides
  BY <1>2 DEF ShownIsSelected, LastDecides, Nowhere
<1>6. QED
  BY <1>4, <1>5 DEF SharesInv

\* Another request: it is the last one, and names the folder of its share.
LEMMA AskMore ==
  ASSUME SharesInv, NEW i \in ShareIds \cup {0}, NEW dirs \in [ShareIds -> Dirs],
         ShareChange(i, dirs)
  PROVE  /\ asked' \in Seq(Requests)
         /\ asked' # <<>>
         /\ asked'[Len(asked')] =
              [kind |-> "folder", share |-> i, dir |-> IF i = 0 THEN Current ELSE dirs[i]]
<1> DEFINE r == [kind |-> "folder", share |-> i, dir |-> IF i = 0 THEN Current ELSE dirs[i]]
<1>1. Current \in Dirs
  BY DEF Dirs, Current
<1>2. r \in Requests
  BY <1>1 DEF Requests
<1>3. asked' = Append(asked, r) /\ asked \in Seq(Requests)
  BY DEF ShareChange, Ask, SharesInv, SharesTypes
<1> HIDE DEF r
<1>4. asked' \in Seq(Requests) /\ Len(asked') = Len(asked) + 1 /\ asked'[Len(asked')] = r
  BY <1>2, <1>3
<1>5. asked' # <<>>
  BY <1>3, <1>4
<1>6. QED
  BY <1>4, <1>5 DEF r

\* Steps that ask for the folder of a share, after they changed the selector or a folder.
LEMMA FolderAsked ==
  ASSUME SharesInv, NEW i \in ShareIds \cup {0}, ShareChange(i, dir'),
         dir' \in [ShareIds -> Dirs], selector' \in ShareIds \cup {0},
         UNCHANGED <<listed, selected, printed, lastDir, missed, strayed>>
  PROVE  SharesInv'
<1>1. /\ asked' \in Seq(Requests)
      /\ asked' # <<>>
      /\ asked'[Len(asked')] =
           [kind |-> "folder", share |-> i, dir |-> IF i = 0 THEN Current ELSE dir'[i]]
  BY AskMore
<1>2. SharesTypes'
  BY <1>1 DEF SharesInv, SharesTypes
<1>3. ShownIsSelected'
  BY DEF SharesInv, ShownIsSelected, Nowhere
<1>4. Fits(asked[Len(asked)])'
  BY <1>1 DEF Fits
<1>5. LastDecides'
  BY <1>1, <1>4 DEF LastDecides
<1>6. QED
  BY <1>2, <1>3, <1>5 DEF SharesInv

LEMMA SharesToggled == SharesInv /\ ToggledShares => SharesInv'
<1> SUFFICES ASSUME SharesInv, ToggledShares PROVE SharesInv'
  OBVIOUS
<1> DEFINE r == [kind |-> "shares", share |-> 0, dir |-> <<>>]
<1>1. UNCHANGED <<listed, dir, selected, selector, printed, lastDir, missed, strayed>>
  BY DEF ToggledShares
<1>2. CASE UNCHANGED asked
  BY <1>1, <1>2 DEF SharesInv, SharesTypes, ShownIsSelected, LastDecides, Fits
<1>3. CASE asked' = Append(asked, r)
  <2>1. r \in Requests
    BY DEF Requests, Dirs
  <2>2. asked \in Seq(Requests) /\ r.kind # "folder"
    BY DEF SharesInv, SharesTypes
  <2> HIDE DEF r
  <2>3. asked' \in Seq(Requests) /\ Len(asked') = Len(asked) + 1 /\ asked'[Len(asked')] = r
    BY <1>3, <2>1, <2>2
  <2>4. asked' # <<>>
    BY <2>2, <2>3
  <2>5. SharesTypes'
    BY <1>1, <2>3 DEF SharesInv, SharesTypes
  <2>6. ShownIsSelected' /\ LastDecides'
    BY <1>1, <2>2, <2>3, <2>4 DEF SharesInv, ShownIsSelected, LastDecides, Fits
  <2>7. QED
    BY <2>5, <2>6 DEF SharesInv
<1>4. QED
  BY <1>2, <1>3 DEF ToggledShares, Ask

LEMMA SharePicked == SharesInv /\ PickShare => SharesInv'
<1> SUFFICES ASSUME SharesInv, PickShare PROVE SharesInv'
  OBVIOUS
<1>1. PICK i \in ShareIds :
        /\ selector' = i
        /\ \/ strayed' = TRUE /\ UNCHANGED asked
           \/ ShareChange(i, dir) /\ UNCHANGED strayed
  BY DEF PickShare
<1>2. UNCHANGED <<listed, dir, selected, printed, lastDir, missed>>
  BY DEF PickShare
<1>3. CASE strayed' = TRUE /\ UNCHANGED asked
  <2>1. SharesTypes'
    BY <1>1, <1>2, <1>3 DEF SharesInv, SharesTypes
  <2>2. ShownIsSelected' /\ LastDecides'
    BY <1>2, <1>3 DEF SharesInv, ShownIsSelected, LastDecides, Fits
  <2>3. QED
    BY <2>1, <2>2 DEF SharesInv
<1>4. CASE ShareChange(i, dir) /\ UNCHANGED strayed
  <2>1. dir' \in [ShareIds -> Dirs] /\ ShareChange(i, dir')
    BY <1>2, <1>4 DEF SharesInv, SharesTypes
  <2>2. QED
    BY <1>1, <1>2, <1>4, <2>1, FolderAsked
<1>5. QED
  BY <1>1, <1>3, <1>4

LEMMA ShareCycled == SharesInv /\ CycleShare => SharesInv'
<1> SUFFICES ASSUME SharesInv, CycleShare PROVE SharesInv'
  OBVIOUS
<1>1. PICK d \in {-1, 1} : selector' = 1 + ((NShares + selector - 1 + d) % NShares)
  BY DEF CycleShare
<1>2. NShares \in Nat /\ NShares > 0 /\ selector \in Int
  BY SharesAssumption DEF CycleShare, SharesInv, SharesTypes, ShareIds
<1>3. (NShares + selector - 1 + d) % NShares \in 0 .. NShares - 1
  BY <1>2
<1>4. selector' \in ShareIds
  BY <1>1, <1>2, <1>3 DEF ShareIds
<1>5. UNCHANGED <<listed, dir, selected, printed, lastDir, missed, strayed>>
  BY DEF CycleShare
<1>6. dir' \in [ShareIds -> Dirs] /\ ShareChange(selector', dir')
  BY <1>5 DEF CycleShare, SharesInv, SharesTypes
<1> DEFINE i == selector'
<1>7. i \in ShareIds \cup {0} /\ ShareChange(i, dir')
  BY <1>4, <1>6
<1> HIDE DEF i
<1>8. QED
  BY <1>4, <1>5, <1>6, <1>7, FolderAsked

LEMMA FolderRefreshed == SharesInv /\ Refresh => SharesInv'
<1> SUFFICES ASSUME SharesInv, Refresh PROVE SharesInv'
  OBVIOUS
<1>1. UNCHANGED <<listed, dir, selected, selector, printed, lastDir, missed, strayed>>
  BY DEF Refresh
<1>2. /\ selector \in ShareIds \cup {0} /\ selector' \in ShareIds \cup {0}
      /\ dir' \in [ShareIds -> Dirs] /\ ShareChange(selector, dir')
  BY <1>1 DEF Refresh, SharesInv, SharesTypes
<1>3. QED
  BY <1>1, <1>2, FolderAsked

\* Every folder that a link leads to is a sequence of names.
LEMMA LinksAreFolders ==
  ASSUME SharesInv, selected \in ShareIds
  PROVE  LinksTo \subseteq Dirs
<1>1. dir[selected] \in Dirs
  BY DEF SharesInv, SharesTypes
<1>2. \A d \in Dirs : Parent(d) \in Dirs
  BY DEF Parent, Dirs
<1>3. <<>> \in Dirs /\ Folders \subseteq Dirs
  <2>1. Seq(Names) \subseteq Seq(Names \cup {".current"})
    OBVIOUS
  <2>2. QED
    BY <2>1, SharesAssumption DEF Dirs
<1>4. QED
  BY <1>1, <1>2, <1>3 DEF LinksTo

LEMMA DirChanged == SharesInv /\ ChangeDir => SharesInv'
<1> SUFFICES ASSUME SharesInv, ChangeDir PROVE SharesInv'
  OBVIOUS
<1>1. PICK d \in LinksTo : dir' = [dir EXCEPT ![selected] = d] /\ ShareChange(selector, dir')
  BY DEF ChangeDir
<1>2. /\ printed # Nowhere
      /\ UNCHANGED <<listed, selected, selector, printed, lastDir, missed, strayed>>
  BY DEF ChangeDir
<1>3. selected \in ShareIds /\ selector \in ShareIds \cup {0} /\ selector' \in ShareIds \cup {0}
  BY <1>2 DEF SharesInv, ShownIsSelected, SharesTypes
<1>4. dir' \in [ShareIds -> Dirs]
  BY <1>1, <1>3, LinksAreFolders DEF SharesInv, SharesTypes
<1>5. QED
  BY <1>1, <1>2, <1>3, <1>4, FolderAsked

\* As no url begins with another, the share that is found is the one of the folder.
LEMMA ListedAsItself ==
  ASSUME NEW i \in ShareIds
  PROVE  ListedAs(i) = i
<1> DEFINE P(k) == IsPrefix(Urls[k], Urls[i]) /\ \A j \in 1 .. k - 1 : ~IsPrefix(Urls[j], Urls[i])
<1>1. IsPrefix(Urls[i], Urls[i])
  BY DEF IsPrefix
<1>2. \A k \in ShareIds : IsPrefix(Urls[k], Urls[i]) => k = i
  BY SharesAssumption
<1>3. 1 .. i - 1 \subseteq ShareIds \ {i}
  BY SharesAssumption DEF ShareIds
<1>4. P(i)
  BY <1>1, <1>2, <1>3
<1>5. \A k \in ShareIds : P(k) => k = i
  BY <1>2
<1> HIDE DEF P
<1>6. (CHOOSE k \in ShareIds : P(k)) = i
  BY <1>4, <1>5
<1>7. QED
  BY <1>6 DEF ListedAs, P

\* The folder that the server lists, and what the page makes of it.
LEMMA FolderShown ==
  ASSUME SharesInv, NEW r \in Requests, NEW i \in ShareIds, ShowFolder(Resolved(r, i))
  PROVE  /\ Resolved(r, i) \in [share : ShareIds \cup {0}, dir : Dirs, restored : BOOLEAN]
         /\ selected' = i /\ selector' = i /\ strayed' = FALSE
         /\ printed'.share = i /\ printed'.restored = (r.dir = Current)
         /\ printed' = Resolved(r, i)
         /\ r.dir # Current => printed'.dir = r.dir
         /\ dir' \in [ShareIds -> Dirs]
         /\ \A j \in ShareIds : dir[j] # Current => dir'[j] = dir[j]
<1> DEFINE f == Resolved(r, i)
<1>1. /\ f.share = i /\ f.dir = (IF r.dir = Current THEN lastDir[i] ELSE r.dir)
      /\ f.restored = (r.dir = Current)
      /\ f \in [share : ShareIds \cup {0}, dir : Dirs, restored : BOOLEAN]
  BY DEF Resolved, Requests, SharesInv, SharesTypes
<1>2. <<>> \in Dirs
  BY DEF Dirs
<1>3. dir \in [ShareIds -> Dirs]
  BY DEF SharesInv, SharesTypes
<1> HIDE DEF f
<1>4. /\ selected' = i /\ selector' = i /\ strayed' = FALSE /\ printed' = f
      /\ dir' = IF i # 1 /\ dir[i] = Current THEN [dir EXCEPT ![i] = <<>>] ELSE dir
  BY <1>1, ListedAsItself DEF ShowFolder, f
<1>5. QED
  BY <1>1, <1>2, <1>3, <1>4 DEF f

LEMMA SharesAnswered ==
  ASSUME SharesInv, NEW k \in DOMAIN asked, Answer(k)
  PROVE  SharesInv'
<1> DEFINE r == asked[k]
           left == RemoveAt(asked, k)
<1>1. /\ asked \in Seq(Requests) /\ k \in 1 .. Len(asked) /\ Len(asked) \in Nat /\ r \in Requests
      /\ missed \in BOOLEAN /\ listed \in BOOLEAN
  BY DEF SharesInv, SharesTypes
<1>2. /\ left \in Seq(Requests) /\ Len(left) = Len(asked) - 1
      /\ \A j \in DOMAIN left : left[j] = IF j < k THEN asked[j] ELSE asked[j + 1]
  BY <1>1, LeftOver
<1>3. missed' = (missed \/ k > 1) /\ r.kind \in {"shares", "folder"}
  BY <1>1 DEF Answer, Requests
<1>4. CASE r.kind = "shares"
  <2> DEFINE new == [kind |-> "folder", share |-> 0, dir |-> Current]
  <2>1. Current \in Dirs
    BY DEF Dirs, Current
  <2>2. new \in Requests /\ new.dir = Current
    BY <2>1 DEF Requests
  <2>3. /\ listed' = TRUE /\ dir' = [i \in ShareIds |-> Current] /\ selector' = 0
        /\ asked' = Append(left, new)
        /\ UNCHANGED <<selected, printed, lastDir, strayed>>
    BY <1>4 DEF Answer
  <2> HIDE DEF new, r, left
  <2>4. asked' \in Seq(Requests) /\ Len(asked') = Len(left) + 1 /\ asked'[Len(asked')] = new
    BY <1>2, <2>2, <2>3
  <2>5. asked' # <<>>
    BY <1>1, <1>2, <2>4
  <2>6. SharesTypes'
    BY <1>1, <1>3, <2>1, <2>3, <2>4 DEF SharesInv, SharesTypes
  <2>7. ShownIsSelected'
    BY <2>3 DEF SharesInv, ShownIsSelected, Nowhere
  <2>8. LastDecides'
    BY <2>2, <2>4, <2>5 DEF LastDecides, Fits
  <2>9. QED
    BY <2>6, <2>7, <2>8 DEF SharesInv
<1>5. CASE r.kind = "folder"
  <2>1. PICK i \in IF r.share = 0 THEN ShareIds ELSE {r.share} :
          ShowFolder(Resolved(r, i)) /\ lastDir' = [lastDir EXCEPT ![i] = Resolved(r, i).dir]
    BY <1>5 DEF Answer
  <2>2. asked' = left /\ listed' = listed /\ i \in ShareIds
    BY <1>1, <1>5, <2>1 DEF Answer, Requests
  <2>3. /\ Resolved(r, i) \in [share : ShareIds \cup {0}, dir : Dirs, restored : BOOLEAN]
        /\ selected' = i /\ selector' = i /\ strayed' = FALSE
        /\ printed'.share = i /\ printed'.restored = (r.dir = Current)
        /\ printed' = Resolved(r, i)
        /\ r.dir # Current => printed'.dir = r.dir
        /\ dir' \in [ShareIds -> Dirs]
        /\ \A j \in ShareIds : dir[j] # Current => dir'[j] = dir[j]
    BY <1>1, <2>1, <2>2, FolderShown
  <2>4. 0 \notin ShareIds
    BY SharesAssumption DEF ShareIds
  <2> HIDE DEF r, left
  <2>5. SharesTypes'
    BY <1>1, <1>2, <1>3, <2>1, <2>2, <2>3 DEF SharesInv, SharesTypes
  <2>6. ShownIsSelected'
    BY <2>2, <2>3, <2>4 DEF ShownIsSelected
  <2>7. LastDecides'
    <3> SUFFICES ASSUME ~missed' PROVE LastDecides'
      BY DEF LastDecides
    <3>1. k = 1 /\ ~missed
      <4>1. ~(missed \/ k > 1)
        BY <1>3
      <4>2. QED
        BY <1>1, <4>1
    <3>2. Fits(asked[Len(asked)])
      <4>1. asked # <<>>
        BY <1>1
      <4>2. QED
        BY <3>1, <4>1 DEF SharesInv, LastDecides
    <3>3. ASSUME asked' # <<>> PROVE Fits(asked[Len(asked)])'
      <4>1. asked'[Len(asked')] = asked[Len(asked)]
        BY <1>1, <1>2, <2>2, <3>1, <3>3
      <4>2. QED
        BY <2>3, <3>2, <4>1 DEF Fits
    <3>4. ASSUME asked' = <<>>, r.dir # Current PROVE dir'[i] = printed'.dir
      <4>1. r = asked[Len(asked)]
        <5>1. Len(left) = 0 /\ k = 1
          BY <2>2, <3>1, <3>4
        <5>2. Len(asked) = 1
          BY <1>1, <1>2, <5>1
        <5>3. QED
          BY <5>1, <5>2 DEF r
      <4>2. r.share \in ShareIds /\ dir[r.share] = r.dir
        BY <1>5, <3>2, <3>4, <4>1 DEF Fits
      <4>3. i = r.share
        BY <2>1, <2>4, <4>2
      <4>4. QED
        BY <2>3, <3>4, <4>2, <4>3
    <3>5. QED
      BY <2>3, <3>3, <3>4 DEF LastDecides
  <2>8. QED
    BY <2>5, <2>6, <2>7 DEF SharesInv
<1>6. QED
  BY <1>3, <1>4, <1>5

LEMMA AnswerFailed ==
  ASSUME SharesInv, NEW k \in DOMAIN asked, AnswerFails(k)
  PROVE  SharesInv'
<1>1. asked \in Seq(Requests) /\ k \in 1 .. Len(asked) /\ Len(asked) \in Nat
  BY DEF SharesInv, SharesTypes
<1>2. asked' \in Seq(Requests)
  BY <1>1, LeftOver DEF AnswerFails
<1>3. missed' = TRUE /\ UNCHANGED <<listed, dir, selected, selector, printed, lastDir, strayed>>
  BY DEF AnswerFails
<1>4. SharesTypes'
  BY <1>2, <1>3 DEF SharesInv, SharesTypes
<1>5. ShownIsSelected' /\ LastDecides'
  BY <1>3 DEF SharesInv, ShownIsSelected, LastDecides, Nowhere
<1>6. QED
  BY <1>4, <1>5 DEF SharesInv

LEMMA SharesInvInductive == SharesInv /\ [Next]_vars => SharesInv'
<1> SUFFICES ASSUME SharesInv, [Next]_vars PROVE SharesInv'
  OBVIOUS
<1>1. CASE UNCHANGED sharesKept
  BY <1>1 DEF sharesKept, SharesInv, SharesTypes, ShownIsSelected, LastDecides, Fits
<1>2. QED
  BY <1>1, SharesStep, SharesToggled, SharePicked, ShareCycled, FolderRefreshed, DirChanged,
     SharesAnswered, AnswerFailed

LEMMA SharesInvCorrect == Spec => []SharesInv
BY SharesInitially, SharesInvInductive, PTL DEF Spec

\* What the page shows of the shares when every request is answered: always a folder of
\* the selected share, and, when no answer failed or overtook another, in the selector
\* that share and links that start from the folder (shares.js), with the two exceptions
\* that the property names.
THEOREM ListFollowsSelection == Spec => []ListMatchesSelection
<1>1. SharesInv => ListMatchesSelection
  BY DEF SharesInv, ShownIsSelected, LastDecides, ListMatchesSelection, AllAnswered
<1>2. QED
  BY <1>1, SharesInvCorrect, PTL

-----------------------------------------------------------------------------
(* Presses on the buttons.                                                  *)

pressKept == <<done, lpTimer, running, held, presses, dragging>>

\* A press that begins and ends at once
Clicked == held = NoButton /\ held' = held /\ dragging' = dragging /\ (ClickSwallowed \/ ClickPassed)

\* The button that is held down is released on one that listens.
Released ==
  /\ held # NoButton /\ held' = NoButton /\ dragging' = dragging
  /\ \/ Swallowed /\ UNCHANGED presses
     \/ Passed /\ presses' = Fired(presses, Len(presses))

\* Another control is used: a slider, or the selector of the shares.
Used ==
  /\ held' = held /\ presses' = Disturbed
  /\ held = NoButton \/ dragging # "none"
  /\ Swallowed \/ Passed

\* What a step does to the presses.
LEMMA PressStep ==
  ASSUME [Next]_vars
  PROVE  \/ Clicked \/ Released \/ Used
         \/ \E b \in UsedMenus : Down(b)
         \/ UpBeside
         \/ \E p \in running : LongPress(p)
         \/ UNCHANGED pressKept
<1> USE DEF pressKept, pressVars, controlVars
<1>1. ASSUME ClickButton \/ CycleLoop \/ (\E b \in UsedMenus : ReleaseOnto(b)) \/ ToggleShares
      PROVE  Clicked
  BY <1>1 DEF ClickButton, Click, CycleLoop, ReleaseOnto, ToggleShares, Reaches, Clicked
<1>2. ASSUME (\E b \in UsedMenus : Up(b)) \/ (\E c \in UsedButtons \cap ReleaseCommands : UpOnSender(c))
      PROVE  Released
  BY <1>2 DEF Up, UpOnSender, Released
<1>3. ASSUME NEW w \in Sliders, Drag(w) \/ Drop(w)
      PROVE  Used
  BY <1>3 DEF Drag, Drop, Sliders, Used
<1>4. ASSUME PickShare
      PROVE  Used \/ UNCHANGED pressKept
  BY <1>4 DEF PickShare, Used
<1>5. ASSUME ClickRow \/ Key \/ Choose \/ CloseMenu \/ (\E w \in Sliders : Unblock(w))
      PROVE  UNCHANGED pressKept
  BY <1>5 DEF ClickRow, Key, Choose, CloseMenu, Unblock
<1>6. ASSUME ControlsNext
      PROVE  \/ Clicked \/ Released \/ Used
             \/ \E b \in UsedMenus : Down(b)
             \/ UpBeside
             \/ \E p \in running : LongPress(p)
             \/ UNCHANGED pressKept
  BY <1>1, <1>2, <1>3, <1>5, <1>6, Zenon DEF ControlsNext
<1>7. ASSUME SharesNext
      PROVE  Clicked \/ Used \/ UNCHANGED pressKept
  BY <1>1, <1>4, <1>7 DEF SharesNext, ShowShares, CycleShare, Refresh, ChangeDir, AddFile
<1>8. QED
  BY <1>6, <1>7 DEF Next, vars, TakeCommand, TakeRequest

PressRecords == [button : UsedMenus \cup {NoButton}, fired : Nat, alone : BOOLEAN]

PressTypes ==
  /\ presses \in Seq(PressRecords)
  /\ running \subseteq 1 .. Len(presses)
  /\ lpTimer \in running \cup {0}
  /\ done \in {"null", "false", "true"}

\* While a button is held down, its press is the last one; its timer runs and can be
\* stopped, unless a long press ended meanwhile.
HeldIsLast ==
  held # NoButton =>
    /\ presses # <<>>
    /\ \/ done = "null" /\ lpTimer = Len(presses) /\ lpTimer \in running
       \/ done = "true" /\ lpTimer = 0

\* A press whose timer runs has fired nothing yet.  It is not alone if another press came
\* after it, nor if the next timer that ends only resets done.
RunningIsOpen ==
  \A p \in running :
    /\ presses[p].fired = 0
    /\ p < Len(presses) \/ done = "false" => ~presses[p].alone

FiredOnce ==
  \A p \in DOMAIN presses :
    /\ presses[p].fired <= 1
    /\ presses[p].alone /\ p \notin running => presses[p].fired = 1

\* No button is held down while a slider is.
OneIsHeld == dragging # "none" => held = NoButton

PressInv == PressTypes /\ HeldIsLast /\ RunningIsOpen /\ FiredOnce /\ OneIsHeld

\* A press with one field changed.
LEMMA PressField ==
  ASSUME NEW t \in PressRecords, NEW x \in BOOLEAN
  PROVE  /\ [t EXCEPT !.alone = x].alone = x
         /\ [t EXCEPT !.alone = x].fired = t.fired
         /\ [t EXCEPT !.alone = x] \in PressRecords
         /\ [t EXCEPT !.fired = @ + 1].fired = t.fired + 1
         /\ [t EXCEPT !.fired = @ + 1].alone = t.alone
         /\ [t EXCEPT !.fired = @ + 1] \in PressRecords
<1>1. [t EXCEPT !.alone = x].alone = x
  BY Zenon DEF PressRecords
<1>2. [t EXCEPT !.alone = x].fired = t.fired
  BY DEF PressRecords
<1>3. [t EXCEPT !.alone = x] \in PressRecords
  BY DEF PressRecords
<1>4. [t EXCEPT !.fired = @ + 1].fired = t.fired + 1
  BY DEF PressRecords
<1>5. [t EXCEPT !.fired = @ + 1].alone = t.alone
  BY Zenon DEF PressRecords
<1>6. [t EXCEPT !.fired = @ + 1] \in PressRecords
  BY DEF PressRecords
<1>7. QED
  BY <1>1, <1>2, <1>3, <1>4, <1>5, <1>6, Zenon

\* What the use of another control makes of the presses.
LEMMA DisturbedIs ==
  ASSUME PressTypes
  PROVE  /\ Disturbed \in Seq(PressRecords)
         /\ Len(Disturbed) = Len(presses)
         /\ \A p \in DOMAIN presses :
              Disturbed[p] = [presses[p] EXCEPT !.alone = @ /\ p \notin running]
<1>1. presses \in Seq(PressRecords) /\ DOMAIN presses = 1 .. Len(presses) /\ Len(presses) \in Nat
  BY DEF PressTypes
<1>2. \A t \in PressRecords : \A x \in BOOLEAN : [t EXCEPT !.alone = x] \in PressRecords
  BY PressField, Zenon
<1>3. \A p \in DOMAIN presses : presses[p] \in PressRecords
  BY <1>1
<1>4. \A p \in DOMAIN presses : (presses[p].alone /\ p \notin running) \in BOOLEAN
  OBVIOUS
<1> DEFINE old == [p \in DOMAIN presses |->
                     [presses[p] EXCEPT !.alone = @ /\ p \notin running]]
<1>5. \A p \in DOMAIN presses : old[p] \in PressRecords
  BY <1>2, <1>3, <1>4, Zenon
<1>6. old \in Seq(PressRecords) /\ Len(old) = Len(presses)
  BY <1>1, <1>5
<1>7. QED
  BY <1>6 DEF Disturbed

LEMMA DisturbedParts ==
  ASSUME PressTypes
  PROVE  /\ DOMAIN Disturbed = DOMAIN presses
         /\ \A p \in DOMAIN presses :
              /\ Disturbed[p].fired = presses[p].fired
              /\ Disturbed[p].alone = (presses[p].alone /\ p \notin running)
<1>1. ASSUME NEW p \in DOMAIN presses
      PROVE  /\ Disturbed[p].fired = presses[p].fired
             /\ Disturbed[p].alone = (presses[p].alone /\ p \notin running)
  <2> DEFINE x == presses[p].alone /\ p \notin running
  <2>1. Disturbed[p] = [presses[p] EXCEPT !.alone = x] /\ x \in BOOLEAN
    BY DisturbedIs
  <2>2. presses[p] \in PressRecords
    BY DEF PressTypes
  <2> HIDE DEF x
  <2>3. Disturbed[p].fired = presses[p].fired /\ Disturbed[p].alone = x
    BY <2>1, <2>2, PressField
  <2>4. QED
    BY <2>3 DEF x
<1>2. DOMAIN Disturbed = DOMAIN presses
  BY DEF Disturbed
<1>3. QED
  BY <1>1, <1>2

\* What a new press makes of the others.
LEMMA PressAdded ==
  ASSUME PressTypes, NEW b \in UsedMenus \cup {NoButton}, NEW ok \in BOOLEAN
  PROVE  LET ps == Pressed(b, ok) IN
         /\ ps \in Seq(PressRecords)
         /\ Len(ps) = Len(presses) + 1
         /\ ps[Len(presses) + 1] = [button |-> b, fired |-> 0, alone |-> ok /\ running = {}]
         /\ \A p \in DOMAIN presses : ps[p] = Disturbed[p]
<1> DEFINE old == Disturbed
           new == [button |-> b, fired |-> 0, alone |-> ok /\ running = {}]
<1>1. presses \in Seq(PressRecords) /\ DOMAIN presses = 1 .. Len(presses) /\ Len(presses) \in Nat
  BY DEF PressTypes
<1>2. new \in PressRecords
  BY DEF PressRecords
<1>3. old \in Seq(PressRecords) /\ Len(old) = Len(presses)
  BY DisturbedIs
<1>4. Pressed(b, ok) = Append(old, new)
  BY DEF Pressed
<1> HIDE DEF new, old
<1>5. /\ Append(old, new) \in Seq(PressRecords) /\ Len(Append(old, new)) = Len(presses) + 1
      /\ Append(old, new)[Len(presses) + 1] = new
      /\ \A p \in DOMAIN presses : Append(old, new)[p] = old[p]
  BY <1>1, <1>2, <1>3
<1>6. QED
  BY <1>4, <1>5 DEF new, old

\* The parts of a press after another one.
LEMMA PressParts ==
  ASSUME PressTypes, NEW b \in UsedMenus \cup {NoButton}, NEW ok \in BOOLEAN,
         NEW ps, ps = Pressed(b, ok)
  PROVE  /\ ps \in Seq(PressRecords)
         /\ DOMAIN ps = DOMAIN presses \cup {Len(presses) + 1} /\ Len(ps) = Len(presses) + 1
         /\ ps[Len(presses) + 1].fired = 0
         /\ ps[Len(presses) + 1].alone => ok /\ running = {}
         /\ \A p \in DOMAIN presses :
              /\ ps[p].fired = presses[p].fired
              /\ ps[p].alone => presses[p].alone /\ p \notin running
<1>1. /\ ps \in Seq(PressRecords)
      /\ Len(ps) = Len(presses) + 1
      /\ ps[Len(presses) + 1] = [button |-> b, fired |-> 0, alone |-> ok /\ running = {}]
      /\ \A p \in DOMAIN presses : ps[p] = Disturbed[p]
  BY PressAdded
<1>2. \A p \in DOMAIN presses : presses[p] \in PressRecords
  BY DEF PressTypes
<1>3. DOMAIN presses = 1 .. Len(presses) /\ Len(presses) \in Nat
  BY DEF PressTypes
<1>4. DOMAIN ps = DOMAIN presses \cup {Len(presses) + 1}
  BY <1>1, <1>3
<1>5. \A p \in DOMAIN presses :
        /\ ps[p].fired = presses[p].fired
        /\ ps[p].alone = (presses[p].alone /\ p \notin running)
  BY <1>1, DisturbedParts
<1>6. /\ ps[Len(presses) + 1].fired = 0
      /\ ps[Len(presses) + 1].alone = (ok /\ running = {})
  <2> DEFINE x == ok /\ running = {}
  <2>1. ps[Len(presses) + 1] = [button |-> b, fired |-> 0, alone |-> x]
    BY <1>1
  <2> HIDE DEF x
  <2>2. ps[Len(presses) + 1].fired = 0 /\ ps[Len(presses) + 1].alone = x
    BY <2>1
  <2>3. QED
    BY <2>2 DEF x
<1>7. QED
  BY <1>1, <1>4, <1>5, <1>6, Zenon

\* A press that fires.
LEMMA FiredParts ==
  ASSUME NEW ps \in Seq(PressRecords), NEW p \in DOMAIN ps
  PROVE  /\ Fired(ps, p) \in Seq(PressRecords)
         /\ DOMAIN Fired(ps, p) = DOMAIN ps /\ Len(Fired(ps, p)) = Len(ps)
         /\ \A q \in DOMAIN ps :
              /\ Fired(ps, p)[q].fired = IF q = p THEN ps[q].fired + 1 ELSE ps[q].fired
              /\ Fired(ps, p)[q].alone = ps[q].alone
<1> DEFINE x == [ps[p] EXCEPT !.fired = @ + 1]
<1>1. ps[p] \in PressRecords
  OBVIOUS
<1>2. x \in PressRecords /\ x.fired = ps[p].fired + 1 /\ x.alone = ps[p].alone
  BY <1>1, PressField, Zenon
<1>3. Fired(ps, p) = [ps EXCEPT ![p] = x]
  BY DEF Fired
<1> HIDE DEF x
<1>4. [ps EXCEPT ![p] = x] \in Seq(PressRecords) /\ Len([ps EXCEPT ![p] = x]) = Len(ps)
  BY <1>2
<1>5. \A q \in DOMAIN ps : [ps EXCEPT ![p] = x][q] = IF q = p THEN x ELSE ps[q]
  OBVIOUS
<1>6. QED
  BY <1>2, <1>3, <1>4, <1>5

\* The timer that is stopped
LEMMA AbortTypes ==
  ASSUME PressTypes
  PROVE  Abort = running \ {lpTimer} /\ Abort \subseteq running
<1>1. 0 \notin running
  BY DEF PressTypes
<1>2. QED
  BY <1>1 DEF Abort

LEMMA PressClick ==
  ASSUME PressInv, Clicked
  PROVE  PressInv'
<1> DEFINE n == Len(presses) + 1
<1>1. /\ PressTypes /\ presses \in Seq(PressRecords) /\ Len(presses) \in Nat
      /\ DOMAIN presses = 1 .. Len(presses) /\ running \subseteq DOMAIN presses
      /\ n \notin running
  BY DEF PressInv, PressTypes
<1>2. held' = held /\ held = NoButton /\ OneIsHeld'
  BY DEF Clicked, OneIsHeld
<1>3. CASE ClickSwallowed
  <2>1. /\ presses' = Pressed(NoButton, FALSE) /\ done' = "null"
        /\ UNCHANGED <<lpTimer, running>>
    BY <1>3 DEF ClickSwallowed, Swallowed
  <2>2. /\ presses' \in Seq(PressRecords) /\ Len(presses') = n
        /\ DOMAIN presses' = DOMAIN presses \cup {n}
        /\ presses'[n].fired = 0 /\ ~presses'[n].alone
        /\ \A p \in DOMAIN presses :
             /\ presses'[p].fired = presses[p].fired
             /\ presses'[p].alone => presses[p].alone /\ p \notin running
    BY <1>1, <2>1, PressParts
  <2> HIDE DEF n
  <2>3. PressTypes'
    <3>1. presses' \in Seq(PressRecords) /\ Len(presses') = n
      BY <2>2
    <3>2. running \subseteq 1 .. n
      <4>1. Len(presses) \in Nat /\ running \subseteq 1 .. Len(presses)
        BY <1>1
      <4>2. QED
        BY <4>1 DEF n
    <3>3. QED
      BY <1>1, <2>1, <3>1, <3>2 DEF PressTypes
  <2>4. HeldIsLast'
    BY <1>2, <2>1 DEF HeldIsLast
  <2>5. RunningIsOpen'
    BY <1>1, <2>1, <2>2 DEF PressInv, RunningIsOpen
  <2>6. FiredOnce'
    <3>1. SUFFICES ASSUME NEW p \in DOMAIN presses'
                   PROVE  /\ presses'[p].fired <= 1
                          /\ presses'[p].alone /\ p \notin running' => presses'[p].fired = 1
      BY DEF FiredOnce
    <3>2. CASE p = n
      BY <2>2, <3>2
    <3>3. CASE p \in DOMAIN presses
      BY <2>1, <2>2, <3>3 DEF PressInv, FiredOnce
    <3>4. QED
      BY <2>2, <3>2, <3>3
  <2>7. QED
    BY <1>2, <2>3, <2>4, <2>5, <2>6 DEF PressInv
<1>4. CASE ClickPassed
  <2> DEFINE ps == Pressed(NoButton, TRUE)
  <2>1. /\ presses' = Fired(ps, n) /\ done' = "false" /\ lpTimer' = 0 /\ running' = Abort
    BY <1>4 DEF ClickPassed, Passed
  <2>2. /\ ps \in Seq(PressRecords) /\ Len(ps) = n /\ DOMAIN ps = DOMAIN presses \cup {n}
        /\ ps[n].fired = 0 /\ (ps[n].alone => running = {})
        /\ \A p \in DOMAIN presses :
             /\ ps[p].fired = presses[p].fired
             /\ ps[p].alone => presses[p].alone /\ p \notin running
    BY <1>1, PressParts
  <2> HIDE DEF ps, n
  <2>3. /\ presses' \in Seq(PressRecords) /\ DOMAIN presses' = DOMAIN ps /\ Len(presses') = n
        /\ \A q \in DOMAIN ps :
             /\ presses'[q].fired = IF q = n THEN ps[q].fired + 1 ELSE ps[q].fired
             /\ presses'[q].alone = ps[q].alone
    BY <2>1, <2>2, FiredParts
  <2>4. running' \subseteq running
    BY <1>1, <2>1, AbortTypes
  <2>5. PressTypes'
    BY <1>1, <2>1, <2>2, <2>3, <2>4 DEF PressTypes, n
  <2>6. HeldIsLast'
    BY <1>2, <2>1 DEF HeldIsLast
  <2>7. RunningIsOpen'
    BY <1>1, <2>1, <2>2, <2>3, <2>4 DEF PressInv, RunningIsOpen
  <2>8. FiredOnce'
    BY <1>1, <2>1, <2>2, <2>3, <2>4 DEF PressInv, FiredOnce
  <2>9. QED
    BY <1>2, <2>5, <2>6, <2>7, <2>8 DEF PressInv
<1>5. QED
  BY <1>3, <1>4 DEF Clicked

LEMMA PressUsed ==
  ASSUME PressInv, Used
  PROVE  PressInv'
<1>1. /\ PressTypes /\ presses \in Seq(PressRecords) /\ Len(presses) \in Nat
      /\ DOMAIN presses = 1 .. Len(presses) /\ running \subseteq DOMAIN presses
  BY DEF PressInv, PressTypes
<1>2. /\ presses' \in Seq(PressRecords) /\ Len(presses') = Len(presses)
      /\ DOMAIN presses' = DOMAIN presses
      /\ \A p \in DOMAIN presses :
           /\ presses'[p].fired = presses[p].fired
           /\ presses'[p].alone = (presses[p].alone /\ p \notin running)
  BY <1>1, DisturbedIs, DisturbedParts DEF Used
<1>3. held = NoButton /\ held' = NoButton
  BY DEF PressInv, OneIsHeld, Used
<1>4. running' \subseteq running /\ lpTimer' \in running' \cup {0} /\ done' \in {"null", "false"}
  BY <1>1, AbortTypes DEF Used, Swallowed, Passed, PressTypes
<1>5. PressTypes'
  BY <1>1, <1>2, <1>4 DEF PressTypes
<1>6. HeldIsLast' /\ OneIsHeld'
  BY <1>3 DEF HeldIsLast, OneIsHeld
<1>7. RunningIsOpen'
  BY <1>1, <1>2, <1>4 DEF PressInv, RunningIsOpen
<1>8. FiredOnce'
  BY <1>1, <1>2, <1>4 DEF PressInv, FiredOnce
<1>9. QED
  BY <1>5, <1>6, <1>7, <1>8 DEF PressInv

LEMMA PressDown ==
  ASSUME PressInv, NEW b \in UsedMenus, Down(b)
  PROVE  PressInv'
<1> DEFINE n == Len(presses) + 1
<1>1. /\ PressTypes /\ presses \in Seq(PressRecords) /\ Len(presses) \in Nat
      /\ DOMAIN presses = 1 .. Len(presses) /\ running \subseteq DOMAIN presses
      /\ n \notin running
  BY DEF PressInv, PressTypes
<1>2. /\ presses' = Pressed(b, TRUE) /\ done' = "null" /\ lpTimer' = n
      /\ running' = running \cup {n}
  BY DEF Down
<1>3. /\ presses' \in Seq(PressRecords) /\ Len(presses') = n
      /\ DOMAIN presses' = DOMAIN presses \cup {n}
      /\ presses'[n].fired = 0
      /\ \A p \in DOMAIN presses :
           /\ presses'[p].fired = presses[p].fired
           /\ presses'[p].alone => presses[p].alone /\ p \notin running
  BY <1>1, <1>2, PressParts
<1> HIDE DEF n
<1>4. PressTypes'
  <2>1. presses' \in Seq(PressRecords) /\ Len(presses') = n
    BY <1>3
  <2>2. running' \subseteq 1 .. n
    <3>1. Len(presses) \in Nat /\ running \subseteq 1 .. Len(presses)
      BY <1>1
    <3>2. running \subseteq 1 .. n /\ n \in 1 .. n
      BY <3>1 DEF n
    <3>3. QED
      BY <1>2, <3>2
  <2>3. QED
    BY <1>2, <2>1, <2>2 DEF PressTypes
<1>5. presses' # <<>>
  BY <1>1, <1>3 DEF n
<1>6. HeldIsLast'
  BY <1>2, <1>3, <1>5 DEF HeldIsLast
<1>7. RunningIsOpen'
  <2>1. SUFFICES ASSUME NEW p \in running'
                 PROVE  /\ presses'[p].fired = 0
                        /\ p < Len(presses') \/ done' = "false" => ~presses'[p].alone
    BY DEF RunningIsOpen
  <2>2. CASE p = n
    <3>1. presses'[p].fired = 0 /\ Len(presses') = p /\ done' = "null"
      BY <1>2, <1>3, <2>2
    <3>2. p \in Nat
      BY <1>1, <2>2 DEF n
    <3>3. QED
      BY <3>1, <3>2
  <2>3. CASE p \in running
    <3>1. p \in DOMAIN presses /\ presses[p].fired = 0
      BY <1>1, <2>3 DEF PressInv, RunningIsOpen
    <3>2. QED
      BY <1>3, <2>3, <3>1
  <2>4. QED
    BY <1>2, <2>2, <2>3
<1>8. FiredOnce'
  <2>1. SUFFICES ASSUME NEW p \in DOMAIN presses'
                 PROVE  /\ presses'[p].fired <= 1
                        /\ presses'[p].alone /\ p \notin running' => presses'[p].fired = 1
    BY DEF FiredOnce
  <2>2. CASE p = n
    <3>1. presses'[p].fired = 0 /\ p \in running'
      BY <1>2, <1>3, <2>2
    <3>2. QED
      BY <3>1
  <2>3. CASE p \in DOMAIN presses
    BY <1>2, <1>3, <2>3 DEF PressInv, FiredOnce
  <2>4. QED
    BY <1>3, <2>2, <2>3
<1>9. OneIsHeld'
  BY DEF Down, Reaches, OneIsHeld
<1>10. QED
  BY <1>4, <1>6, <1>7, <1>8, <1>9 DEF PressInv

LEMMA PressUp ==
  ASSUME PressInv, Released
  PROVE  PressInv'
<1> DEFINE n == Len(presses)
<1>1. /\ PressTypes /\ presses \in Seq(PressRecords) /\ n \in Nat /\ DOMAIN presses = 1 .. n
      /\ running \subseteq DOMAIN presses /\ presses # <<>> /\ n \in DOMAIN presses
  BY DEF PressInv, PressTypes, HeldIsLast, Released
<1>2. held' = NoButton /\ OneIsHeld'
  BY DEF Released, OneIsHeld
<1>3. CASE Swallowed /\ UNCHANGED presses
  <2>1. done' = "null" /\ lpTimer' = lpTimer /\ running' = running /\ done = "true"
    BY <1>3 DEF Swallowed
  <2>2. PressTypes' /\ HeldIsLast'
    BY <1>1, <1>2, <1>3, <2>1 DEF PressTypes, HeldIsLast
  <2>3. RunningIsOpen' /\ FiredOnce'
    BY <1>3, <2>1 DEF PressInv, RunningIsOpen, FiredOnce
  <2>4. QED
    BY <1>2, <2>2, <2>3 DEF PressInv
<1>4. CASE Passed /\ presses' = Fired(presses, n)
  <2>1. /\ presses' = Fired(presses, n) /\ done' = "false" /\ lpTimer' = 0
        /\ lpTimer = n /\ n \in running /\ running' = running \ {n}
    BY <1>1, <1>4, AbortTypes DEF Released, Passed, PressInv, HeldIsLast
  <2> HIDE DEF n
  <2>2. /\ presses' \in Seq(PressRecords) /\ DOMAIN presses' = DOMAIN presses
        /\ Len(presses') = Len(presses)
        /\ \A q \in DOMAIN presses :
             /\ presses'[q].fired = IF q = n THEN presses[q].fired + 1 ELSE presses[q].fired
             /\ presses'[q].alone = presses[q].alone
    BY <1>1, <2>1, FiredParts
  <2>3. PressTypes'
    BY <1>1, <1>2, <2>1, <2>2 DEF PressTypes
  <2>4. HeldIsLast'
    BY <1>2 DEF HeldIsLast
  <2>5. RunningIsOpen'
    BY <1>1, <2>1, <2>2 DEF PressInv, RunningIsOpen, n
  <2>6. FiredOnce'
    BY <1>1, <2>1, <2>2 DEF PressInv, RunningIsOpen, FiredOnce
  <2>7. QED
    BY <1>2, <2>3, <2>4, <2>5, <2>6 DEF PressInv
<1>5. QED
  BY <1>3, <1>4 DEF Released

LEMMA PressLong ==
  ASSUME PressInv, NEW p \in running, LongPress(p)
  PROVE  PressInv'
<1>1. /\ PressTypes /\ presses \in Seq(PressRecords) /\ Len(presses) \in Nat
      /\ DOMAIN presses = 1 .. Len(presses)
      /\ running \subseteq DOMAIN presses /\ p \in DOMAIN presses
  BY DEF PressInv, PressTypes
<1>2. held' = held /\ lpTimer' = 0 /\ running' = running \ {p} /\ OneIsHeld'
  BY DEF LongPress, PressInv, OneIsHeld
<1>3. CASE done = "false"
  <2>1. UNCHANGED presses /\ done' = "null" /\ held = NoButton
    BY <1>3 DEF LongPress, PressInv, HeldIsLast
  <2>2. PressTypes'
    BY <1>1, <1>2, <2>1 DEF PressTypes
  <2>3. HeldIsLast' /\ RunningIsOpen'
    BY <1>2, <2>1 DEF PressInv, HeldIsLast, RunningIsOpen
  <2>4. FiredOnce'
    BY <1>2, <1>3, <2>1 DEF PressInv, RunningIsOpen, FiredOnce
  <2>5. QED
    BY <1>2, <2>2, <2>3, <2>4 DEF PressInv
<1>4. CASE done # "false"
  <2>1. presses' = Fired(presses, p) /\ done' = "true"
    BY <1>4 DEF LongPress
  <2>2. /\ presses' \in Seq(PressRecords) /\ DOMAIN presses' = DOMAIN presses
        /\ Len(presses') = Len(presses)
        /\ \A q \in DOMAIN presses :
             /\ presses'[q].fired = IF q = p THEN presses[q].fired + 1 ELSE presses[q].fired
             /\ presses'[q].alone = presses[q].alone
    BY <1>1, <2>1, FiredParts
  <2>3. PressTypes'
    BY <1>1, <1>2, <2>1, <2>2 DEF PressTypes
  <2>4. presses # <<>> => presses' # <<>>
    BY <1>1, <2>2
  <2>5. HeldIsLast'
    BY <1>2, <2>1, <2>2, <2>4 DEF PressInv, HeldIsLast
  <2>6. RunningIsOpen'
    BY <1>1, <1>2, <2>1, <2>2 DEF PressInv, RunningIsOpen
  <2>7. FiredOnce'
    BY <1>1, <1>2, <2>1, <2>2 DEF PressInv, RunningIsOpen, FiredOnce
  <2>8. QED
    BY <1>2, <2>3, <2>5, <2>6, <2>7 DEF PressInv
<1>5. QED
  BY <1>3, <1>4

LEMMA PressInvInductive == PressInv /\ [Next]_vars => PressInv'
<1> SUFFICES ASSUME PressInv, [Next]_vars PROVE PressInv'
  OBVIOUS
<1> USE DEF PressInv, PressTypes, HeldIsLast, RunningIsOpen, FiredOnce, OneIsHeld
<1>1. CASE UNCHANGED pressKept
  BY <1>1 DEF pressKept
<1>2. CASE UpBeside
  BY <1>2 DEF UpBeside
<1>3. QED
  BY <1>1, <1>2, PressStep, PressClick, PressUsed, PressDown, PressUp, PressLong

LEMMA PressInvCorrect == Spec => []PressInv
<1>1. Init => PressInv
  BY DEF Init, ControlsInit, PressInv, PressTypes, HeldIsLast, RunningIsOpen, FiredOnce, OneIsHeld
<1>2. QED
  BY <1>1, PressInvInductive, PTL DEF Spec

\* Whatever is pressed, released there, on another button or beside all, whatever other
\* controls are used in between, and in whatever order the timers of the presses end, no
\* press fires more than one handler, and one that nothing interferes with fires one
\* (touchmenu.js).
THEOREM EachPressFiresOnce == Spec => []OneHandlerPerPress
<1>1. PressInv => OneHandlerPerPress
  BY DEF PressInv, FiredOnce, OneHandlerPerPress
<1>2. QED
  BY <1>1, PressInvCorrect, PTL

-----------------------------------------------------------------------------
(* The comparison of two playlists.                                         *)

Least(x, y) == IF x <= y THEN x ELSE y

Alike(e, f) == e.name = f.name /\ e.current = f.current

Ops == [op : {"add", "remove", "replace"}, new : Nat, old : Nat]

DiffStates == [iNew : Nat, iOld : Nat, ops : Seq(Ops)]

\* From p to r, the entries of new are those of old, moved by o.
Shifted(new, old, p, r, o) ==
  \A k \in p .. r : k \in 1 .. Len(new) /\ k - o \in 1 .. Len(old) /\ Alike(new[k], old[k - o])

\* When the rows up to q are those of new and the others are moved by o, the operation x
\* makes them q1 and o1.
OpFits(new, old, x, o, q, o1, q1) ==
  LET n  == Len(old) + o
      at == x.old + o
      p  == IF x.op = "remove" THEN at ELSE x.new
  IN /\ q < p /\ Shifted(new, old, q + 1, p - 1, o)
     /\ x.op # "remove" => p \in 1 .. Len(new) /\ q1 = p
     /\ x.op = "remove" => p <= n /\ o1 = o - 1 /\ q1 = p - 1
     /\ x.op = "replace" => at = p /\ p <= n /\ o1 = o
     /\ x.op = "add" => p <= n + 1 /\ o1 = o + 1 /\ (at = p \/ (p = n + 1 /\ at > n))

\* o and q tell that after each of the operations.
Settles(new, old, ops, o, q) ==
  /\ o \in [0 .. Len(ops) -> Int] /\ q \in [0 .. Len(ops) -> Nat]
  /\ o[0] = 0 /\ q[0] = 0
  /\ \A m \in 1 .. Len(ops) : OpFits(new, old, ops[m], o[m - 1], q[m - 1], o[m], q[m])

\* The operations lead to the offset o1 and the row q1.
Achieves(new, old, ops, o1, q1) ==
  \E o, q : Settles(new, old, ops, o, q) /\ o[Len(ops)] = o1 /\ q[Len(ops)] = q1

\* With the rows up to q made, the entries from i of new and j of old are next.
NextAre(new, old, i, j, o, q) ==
  /\ i \in 1 .. Len(new) + 1 /\ j \in Nat \ {0}
  /\ o = i - Least(j, Len(old) + 1) /\ q < i
  /\ Shifted(new, old, q + 1, i - 1, o)

\* The operations found so far lead to the entry d.iNew of new and d.iOld of old.
Leads(new, old, d) ==
  \E o \in Int, q \in Nat :
    Achieves(new, old, d.ops, o, q) /\ NextAre(new, old, d.iNew, d.iOld, o, q)

\* One more operation that fits makes more rows those of new.
LEMMA OneMoreOp ==
  ASSUME NEW new, NEW old, NEW ops \in Seq(Ops), NEW o2 \in Int, NEW q2 \in Nat,
         Achieves(new, old, ops, o2, q2),
         NEW x \in Ops, NEW o1 \in Int, NEW q1 \in Nat, OpFits(new, old, x, o2, q2, o1, q1)
  PROVE  Achieves(new, old, ops \o <<x>>, o1, q1)
<1>0. PICK o, q : Settles(new, old, ops, o, q) /\ o[Len(ops)] = o2 /\ q[Len(ops)] = q2
  BY DEF Achieves
<1> DEFINE n == Len(ops)
           s == ops \o <<x>>
           oo == [m \in 0 .. n + 1 |-> IF m = n + 1 THEN o1 ELSE o[m]]
           qq == [m \in 0 .. n + 1 |-> IF m = n + 1 THEN q1 ELSE q[m]]
<1>1. n \in Nat
  OBVIOUS
<1>2. /\ s \in Seq(Ops) /\ Len(s) = n + 1
      /\ \A m \in 1 .. n + 1 : s[m] = IF m <= n THEN ops[m] ELSE x
  <2>1. <<x>> \in Seq(Ops) /\ Len(<<x>>) = 1 /\ <<x>>[1] = x
    OBVIOUS
  <2>2. /\ s \in Seq(Ops) /\ Len(s) = n + 1
        /\ \A m \in 1 .. n + 1 : s[m] = IF m <= n THEN ops[m] ELSE <<x>>[m - n]
    BY <2>1, ConcatProperties
  <2>3. \A m \in 1 .. n + 1 : ~(m <= n) => m - n = 1
    BY <1>1
  <2>4. QED
    BY <2>1, <2>2, <2>3
<1>3. o \in [0 .. n -> Int] /\ q \in [0 .. n -> Nat] /\ o[0] = 0 /\ q[0] = 0
  BY <1>0 DEF Settles
<1> HIDE DEF n, s
<1>4. oo \in [0 .. n + 1 -> Int] /\ qq \in [0 .. n + 1 -> Nat]
  BY <1>1, <1>3
<1>5. oo[0] = 0 /\ qq[0] = 0 /\ oo[n + 1] = o1 /\ qq[n + 1] = q1
  BY <1>1, <1>3
<1>6. \A m \in 0 .. n : oo[m] = o[m] /\ qq[m] = q[m]
  BY <1>1
<1> HIDE DEF oo, qq
<1>7. ASSUME NEW m \in 1 .. n + 1
      PROVE  OpFits(new, old, s[m], oo[m - 1], qq[m - 1], oo[m], qq[m])
  <2>1. m - 1 \in 0 .. n
    BY <1>1
  <2>2. oo[m - 1] = o[m - 1] /\ qq[m - 1] = q[m - 1]
    BY <2>1, <1>6
  <2>3. CASE m <= n
    <3>1. m \in 1 .. n /\ m \in 0 .. n
      BY <2>3, <1>1
    <3>2. OpFits(new, old, ops[m], o[m - 1], q[m - 1], o[m], q[m])
      BY <1>0, <3>1 DEF Settles, n
    <3>3. s[m] = ops[m] /\ oo[m] = o[m] /\ qq[m] = q[m]
      BY <3>1, <2>3, <1>2, <1>6
    <3>4. QED
      BY <3>2, <3>3, <2>2
  <2>4. CASE ~(m <= n)
    <3>1. m = n + 1 /\ m - 1 = n
      BY <2>4, <1>1
    <3>2. s[m] = x
      BY <2>4, <1>2
    <3>3. OpFits(new, old, x, o[n], q[n], o1, q1)
      BY <1>0 DEF n
    <3>4. QED
      BY <3>1, <3>2, <3>3, <2>2, <1>5
  <2>5. QED
    BY <2>3, <2>4
<1>8. Settles(new, old, s, oo, qq)
  BY <1>2, <1>4, <1>5, <1>7 DEF Settles
<1>9. QED
  BY <1>2, <1>5, <1>8 DEF Achieves, n, s

\* What was achieved at the positions i and j is a state of the comparison.
LEMMA AchievedLeads ==
  ASSUME NEW new, NEW old, NEW ops, NEW o \in Int, NEW q \in Nat, NEW i, NEW j,
         Achieves(new, old, ops, o, q), NextAre(new, old, i, j, o, q)
  PROVE  Leads(new, old, [iNew |-> i, iOld |-> j, ops |-> ops])
BY DEF Leads

\* A turn of the loops finds operations that fit.
LEMMA DiffStepLeads ==
  ASSUME NEW new, NEW old, Len(new) \in Nat, DOMAIN new = 1 .. Len(new),
         Len(old) \in Nat, DOMAIN old = 1 .. Len(old),
         NEW d \in DiffStates, Leads(new, old, d)
  PROVE  Leads(new, old, DiffStep(new, old, d))
<1> DEFINE i == d.iNew
           j == d.iOld
           m == Len(new)
           n == Len(old)
<1>1. i \in 1 .. m + 1 /\ j \in Nat \ {0} /\ m \in Nat /\ n \in Nat
  BY DEF Leads, NextAre
<1>2. \A k, l : Same(new, k, old, l) <=> k \in 1 .. m /\ l \in 1 .. n /\ Alike(new[k], old[l])
  BY DEF Same, Alike
<1>3. \A r, k, l : Op(r, k, l) = <<[op |-> r, new |-> k, old |-> l]>>
  BY DEF Op
<1> DEFINE To(k, l, ops) == [iNew |-> k, iOld |-> l, ops |-> d.ops \o ops]
<1>4. /\ i <= m /\ j <= n /\ Same(new, i, old, j) =>
           DiffStep(new, old, d) = To(i + 1, j + 1, <<>>)
      /\ i <= m /\ j <= n /\ ~Same(new, i, old, j) /\ Same(new, i + 1, old, j + 1) =>
           DiffStep(new, old, d) = To(i + 2, j + 2, Op("replace", i, j))
      /\ i <= m /\ j <= n /\ ~Same(new, i, old, j) /\ ~Same(new, i + 1, old, j + 1)
           /\ Same(new, i + 1, old, j) =>
           DiffStep(new, old, d) = To(i + 2, j + 1, Op("add", i, j))
      /\ i <= m /\ j <= n /\ ~Same(new, i, old, j) /\ ~Same(new, i + 1, old, j + 1)
           /\ ~Same(new, i + 1, old, j) /\ Same(new, i, old, j + 1) =>
           DiffStep(new, old, d) = To(i + 1, j + 2, Op("remove", 0, j))
      /\ i <= m /\ j <= n /\ ~Same(new, i, old, j) /\ ~Same(new, i + 1, old, j + 1)
           /\ ~Same(new, i + 1, old, j) /\ ~Same(new, i, old, j + 1) =>
           DiffStep(new, old, d) = To(i + 1, j + 1, Op("replace", i, j))
      /\ ~(i <= m /\ j <= n) /\ j <= n =>
           DiffStep(new, old, d) = To(i + 0, j + 1, Op("remove", 0, j))
      /\ ~(i <= m /\ j <= n) /\ ~(j <= n) /\ i <= m =>
           DiffStep(new, old, d) = To(i + 1, j + 1, Op("add", i, j))
      /\ ~(j <= n) /\ ~(i <= m) => DiffStep(new, old, d) = d
  BY DEF DiffStep
<1> HIDE DEF To
<1>5. \A k, l, ops : To(k, l, ops) = [iNew |-> k, iOld |-> l, ops |-> d.ops \o ops]
  BY DEF To
<1>6. PICK o \in Int, q \in Nat :
        Achieves(new, old, d.ops, o, q) /\ NextAre(new, old, i, j, o, q)
  BY DEF Leads
<1>7. o = i - Least(j, n + 1) /\ q < i /\ Shifted(new, old, q + 1, i - 1, o)
  BY <1>6 DEF NextAre
<1>8. d.ops \in Seq(Ops)
  BY DEF DiffStates
<1> HIDE DEF i, j
<1>9. CASE i <= m /\ j <= n /\ Same(new, i, old, j)
  <2>1. Least(j, n + 1) = j /\ Least(j + 1, n + 1) = j + 1
    BY <1>1, <1>9 DEF Least
  <2>2. Shifted(new, old, q + 1, i + 1 - 1, o)
    BY <2>1, <1>1, <1>2, <1>7, <1>9 DEF Shifted
  <2>3. NextAre(new, old, i + 1, j + 1, o, q)
    BY <2>1, <2>2, <1>1, <1>7, <1>9 DEF NextAre
  <2>4. Leads(new, old, [iNew |-> i + 1, iOld |-> j + 1, ops |-> d.ops])
    BY <2>3, <1>6, AchievedLeads
  <2>5. d.ops \o <<>> = d.ops
    BY <1>8
  <2>6. QED
    BY <2>4, <2>5, <1>4, <1>5, <1>9
<1>10. CASE i <= m /\ j <= n /\ ~Same(new, i, old, j) /\ Same(new, i + 1, old, j + 1)
  <2> DEFINE x == [op |-> "replace", new |-> i, old |-> j]
  <2>1. x \in Ops /\ x.op = "replace" /\ x.new = i /\ x.old = j
    BY <1>1 DEF Ops
  <2>2. i + 1 \in 1 .. m /\ j + 1 \in 1 .. n
    BY <1>2, <1>10
  <2> HIDE DEF x
  <2>3. Least(j, n + 1) = j /\ Least(j + 2, n + 1) = j + 2
    BY <1>1, <2>2 DEF Least
  <2>4. OpFits(new, old, x, o, q, o, i)
    BY <2>1, <2>3, <1>1, <1>7, <1>10 DEF OpFits
  <2>5. Shifted(new, old, i + 1, i + 2 - 1, o)
    BY <2>3, <1>1, <1>2, <1>7, <1>10 DEF Shifted
  <2>6. NextAre(new, old, i + 2, j + 2, o, i)
    BY <2>2, <2>3, <2>5, <1>1, <1>7 DEF NextAre
  <2>7. i \in Nat
    BY <1>1
  <2>8. Achieves(new, old, d.ops \o <<x>>, o, i)
    BY <2>1, <2>4, <2>7, <1>6, <1>8, OneMoreOp
  <2>9. Leads(new, old, [iNew |-> i + 2, iOld |-> j + 2, ops |-> d.ops \o <<x>>])
    BY <2>6, <2>7, <2>8, AchievedLeads
  <2>10. QED
    BY <2>9, <1>3, <1>4, <1>5, <1>10 DEF x
<1>11. CASE /\ i <= m /\ j <= n /\ ~Same(new, i, old, j) /\ ~Same(new, i + 1, old, j + 1)
             /\ Same(new, i + 1, old, j)
  <2> DEFINE x == [op |-> "add", new |-> i, old |-> j]
  <2>1. x \in Ops /\ x.op = "add" /\ x.new = i /\ x.old = j
    BY <1>1 DEF Ops
  <2>2. i + 1 \in 1 .. m /\ j \in 1 .. n
    BY <1>1, <1>2, <1>11
  <2> HIDE DEF x
  <2>3. Least(j, n + 1) = j /\ Least(j + 1, n + 1) = j + 1
    BY <1>1, <2>2 DEF Least
  <2>4. OpFits(new, old, x, o, q, o + 1, i)
    BY <2>1, <2>2, <2>3, <1>1, <1>7 DEF OpFits
  <2>5. Shifted(new, old, i + 1, i + 2 - 1, o + 1)
    BY <2>2, <2>3, <1>1, <1>2, <1>7, <1>11 DEF Shifted
  <2>6. NextAre(new, old, i + 2, j + 1, o + 1, i)
    BY <2>2, <2>3, <2>5, <1>1, <1>7 DEF NextAre
  <2>7. i \in Nat /\ o + 1 \in Int
    BY <1>1
  <2>8. Achieves(new, old, d.ops \o <<x>>, o + 1, i)
    BY <2>1, <2>4, <2>7, <1>6, <1>8, OneMoreOp
  <2>9. Leads(new, old, [iNew |-> i + 2, iOld |-> j + 1, ops |-> d.ops \o <<x>>])
    BY <2>6, <2>7, <2>8, AchievedLeads
  <2>10. QED
    BY <2>9, <1>3, <1>4, <1>5, <1>11 DEF x
<1>12. CASE /\ i <= m /\ j <= n /\ ~Same(new, i, old, j)
             /\ ~Same(new, i + 1, old, j + 1) /\ ~Same(new, i + 1, old, j)
             /\ Same(new, i, old, j + 1)
  <2> DEFINE x == [op |-> "remove", new |-> 0, old |-> j]
  <2>1. x \in Ops /\ x.op = "remove" /\ x.new = 0 /\ x.old = j
    BY <1>1 DEF Ops
  <2>2. i \in 1 .. m /\ j + 1 \in 1 .. n
    BY <1>1, <1>2, <1>12
  <2> HIDE DEF x
  <2>3. Least(j, n + 1) = j /\ Least(j + 2, n + 1) = j + 2
    BY <1>1, <2>2 DEF Least
  <2>4. OpFits(new, old, x, o, q, o - 1, i - 1)
    BY <2>1, <2>2, <2>3, <1>1, <1>7 DEF OpFits
  <2>5. Shifted(new, old, i - 1 + 1, i + 1 - 1, o - 1)
    BY <2>2, <2>3, <1>1, <1>2, <1>7, <1>12 DEF Shifted
  <2>6. NextAre(new, old, i + 1, j + 2, o - 1, i - 1)
    BY <2>2, <2>3, <2>5, <1>1, <1>7 DEF NextAre
  <2>7. i - 1 \in Nat /\ o - 1 \in Int
    BY <1>1
  <2>8. Achieves(new, old, d.ops \o <<x>>, o - 1, i - 1)
    BY <2>1, <2>4, <2>7, <1>6, <1>8, OneMoreOp
  <2>9. Leads(new, old, [iNew |-> i + 1, iOld |-> j + 2, ops |-> d.ops \o <<x>>])
    BY <2>6, <2>7, <2>8, AchievedLeads
  <2>10. QED
    BY <2>9, <1>3, <1>4, <1>5, <1>12 DEF x
<1>13. CASE /\ i <= m /\ j <= n /\ ~Same(new, i, old, j)
             /\ ~Same(new, i + 1, old, j + 1) /\ ~Same(new, i + 1, old, j)
             /\ ~Same(new, i, old, j + 1)
  <2> DEFINE x == [op |-> "replace", new |-> i, old |-> j]
  <2>1. x \in Ops /\ x.op = "replace" /\ x.new = i /\ x.old = j
    BY <1>1 DEF Ops
  <2>2. i \in 1 .. m /\ j \in 1 .. n
    BY <1>1, <1>2, <1>13
  <2> HIDE DEF x
  <2>3. Least(j, n + 1) = j /\ Least(j + 1, n + 1) = j + 1
    BY <1>1, <2>2 DEF Least
  <2>4. OpFits(new, old, x, o, q, o, i)
    BY <2>1, <2>2, <2>3, <1>1, <1>7 DEF OpFits
  <2>5. Shifted(new, old, i + 1, i + 1 - 1, o)
    BY <2>2, <2>3, <1>1, <1>2, <1>7, <1>13 DEF Shifted
  <2>6. NextAre(new, old, i + 1, j + 1, o, i)
    BY <2>2, <2>3, <2>5, <1>1, <1>7 DEF NextAre
  <2>7. i \in Nat /\ o \in Int
    BY <1>1
  <2>8. Achieves(new, old, d.ops \o <<x>>, o, i)
    BY <2>1, <2>4, <2>7, <1>6, <1>8, OneMoreOp
  <2>9. Leads(new, old, [iNew |-> i + 1, iOld |-> j + 1, ops |-> d.ops \o <<x>>])
    BY <2>6, <2>7, <2>8, AchievedLeads
  <2>10. QED
    BY <2>9, <1>3, <1>4, <1>5, <1>13 DEF x
<1>14. CASE /\ ~(i <= m /\ j <= n)
             /\ j <= n
  <2> DEFINE x == [op |-> "remove", new |-> 0, old |-> j]
  <2>1. x \in Ops /\ x.op = "remove" /\ x.new = 0 /\ x.old = j
    BY <1>1 DEF Ops
  <2>2. i = m + 1 /\ j \in 1 .. n
    BY <1>1, <1>2, <1>14
  <2> HIDE DEF x
  <2>3. Least(j, n + 1) = j /\ Least(j + 1, n + 1) = j + 1
    BY <1>1, <2>2 DEF Least
  <2>4. OpFits(new, old, x, o, q, o - 1, i - 1)
    BY <2>1, <2>2, <2>3, <1>1, <1>7 DEF OpFits
  <2>5. Shifted(new, old, i - 1 + 1, i + 0 - 1, o - 1)
    BY <2>2, <2>3, <1>1, <1>2, <1>7, <1>14 DEF Shifted
  <2>6. NextAre(new, old, i + 0, j + 1, o - 1, i - 1)
    BY <2>2, <2>3, <2>5, <1>1, <1>7 DEF NextAre
  <2>7. i - 1 \in Nat /\ o - 1 \in Int
    BY <1>1
  <2>8. Achieves(new, old, d.ops \o <<x>>, o - 1, i - 1)
    BY <2>1, <2>4, <2>7, <1>6, <1>8, OneMoreOp
  <2>9. Leads(new, old, [iNew |-> i + 0, iOld |-> j + 1, ops |-> d.ops \o <<x>>])
    BY <2>6, <2>7, <2>8, AchievedLeads
  <2>10. QED
    BY <2>9, <1>3, <1>4, <1>5, <1>14 DEF x
<1>15. CASE /\ ~(i <= m /\ j <= n) /\ ~(j <= n)
             /\ i <= m
  <2> DEFINE x == [op |-> "add", new |-> i, old |-> j]
  <2>1. x \in Ops /\ x.op = "add" /\ x.new = i /\ x.old = j
    BY <1>1 DEF Ops
  <2>2. i \in 1 .. m /\ j > n
    BY <1>1, <1>2, <1>15
  <2> HIDE DEF x
  <2>3. Least(j, n + 1) = n + 1 /\ Least(j + 1, n + 1) = n + 1
    BY <1>1, <2>2 DEF Least
  <2>4. OpFits(new, old, x, o, q, o + 1, i)
    BY <2>1, <2>2, <2>3, <1>1, <1>7 DEF OpFits
  <2>5. Shifted(new, old, i + 1, i + 1 - 1, o + 1)
    BY <2>2, <2>3, <1>1, <1>2, <1>7, <1>15 DEF Shifted
  <2>6. NextAre(new, old, i + 1, j + 1, o + 1, i)
    BY <2>2, <2>3, <2>5, <1>1, <1>7 DEF NextAre
  <2>7. i \in Nat /\ o + 1 \in Int
    BY <1>1
  <2>8. Achieves(new, old, d.ops \o <<x>>, o + 1, i)
    BY <2>1, <2>4, <2>7, <1>6, <1>8, OneMoreOp
  <2>9. Leads(new, old, [iNew |-> i + 1, iOld |-> j + 1, ops |-> d.ops \o <<x>>])
    BY <2>6, <2>7, <2>8, AchievedLeads
  <2>10. QED
    BY <2>9, <1>3, <1>4, <1>5, <1>15 DEF x
<1>16. CASE ~(j <= n) /\ ~(i <= m)
  BY <1>4, <1>16
<1>17. QED
  BY <1>9, <1>10, <1>11, <1>12, <1>13, <1>14, <1>15, <1>16

\* A turn of the loops comes nearer to the ends of both lists.
LEMMA DiffStepGoes ==
  ASSUME NEW new, NEW old, Len(new) \in Nat, Len(old) \in Nat, NEW d \in DiffStates
  PROVE  \/ d.iNew > Len(new) /\ d.iOld > Len(old) /\ DiffStep(new, old, d) = d
         \/ \E k \in 0 .. 2, l \in 1 .. 2, ops \in Seq(Ops) :
              /\ d.iOld <= Len(old) \/ k >= 1
              /\ DiffStep(new, old, d) =
                   [iNew |-> d.iNew + k, iOld |-> d.iOld + l, ops |-> d.ops \o ops]
<1> DEFINE i == d.iNew
           j == d.iOld
           To(k, l, ops) == [iNew |-> i + k, iOld |-> j + l, ops |-> d.ops \o ops]
           Ends == i > Len(new) /\ j > Len(old) /\ DiffStep(new, old, d) = d
           Goes == \E k \in 0 .. 2, l \in 1 .. 2, ops \in Seq(Ops) :
                     (j <= Len(old) \/ k >= 1) /\ DiffStep(new, old, d) = To(k, l, ops)
<1>1. i \in Nat /\ j \in Nat
  BY DEF DiffStates
<1>2. \A r \in {"add", "remove", "replace"}, k \in Nat, l \in Nat : Op(r, k, l) \in Seq(Ops)
  BY DEF Op, Ops
<1>3. <<>> \in Seq(Ops)
  OBVIOUS
<1>4. \/ Ends
      \/ /\ j <= Len(old)
         /\ \/ DiffStep(new, old, d) = To(1, 1, <<>>)
            \/ DiffStep(new, old, d) = To(2, 2, Op("replace", i, j))
            \/ DiffStep(new, old, d) = To(2, 1, Op("add", i, j))
            \/ DiffStep(new, old, d) = To(1, 2, Op("remove", 0, j))
            \/ DiffStep(new, old, d) = To(1, 1, Op("replace", i, j))
            \/ DiffStep(new, old, d) = To(0, 1, Op("remove", 0, j))
      \/ DiffStep(new, old, d) = To(1, 1, Op("add", i, j))
  <2>1. CASE i <= Len(new) /\ j <= Len(old)
    BY <2>1, <1>1 DEF DiffStep
  <2>2. CASE ~(i <= Len(new) /\ j <= Len(old)) /\ j <= Len(old)
    <3>1. DiffStep(new, old, d) = To(0, 1, Op("remove", 0, j))
      BY <2>2, <1>1 DEF DiffStep
    <3>2. QED
      BY <2>2, <3>1
  <2>3. CASE ~(j <= Len(old)) /\ i <= Len(new)
    <3>1. DiffStep(new, old, d) = To(1, 1, Op("add", i, j))
      BY <2>3, <1>1 DEF DiffStep
    <3>2. QED
      BY <3>1
  <2>4. CASE ~(j <= Len(old)) /\ ~(i <= Len(new))
    <3>1. DiffStep(new, old, d) = d
      BY <2>4, <1>1 DEF DiffStep
    <3>2. Ends
      BY <2>4, <3>1, <1>1
    <3>3. QED
      BY <3>2
  <2>5. QED
    BY <2>1, <2>2, <2>3, <2>4
<1> HIDE DEF To, Ends
<1>5. ASSUME NEW k \in 0 .. 2, NEW l \in 1 .. 2, NEW ops \in Seq(Ops),
             j <= Len(old) \/ k >= 1, DiffStep(new, old, d) = To(k, l, ops)
      PROVE  Goes
  BY <1>5
<1> HIDE DEF Goes
<1>6. 0 \in 0 .. 2 /\ 1 \in 0 .. 2 /\ 2 \in 0 .. 2 /\ 1 \in 1 .. 2 /\ 2 \in 1 .. 2 /\ 1 >= 1 /\ 2 >= 1
  OBVIOUS
<1>7. /\ Op("replace", i, j) \in Seq(Ops) /\ Op("add", i, j) \in Seq(Ops)
      /\ Op("remove", 0, j) \in Seq(Ops)
  BY <1>1, <1>2
<1>8. Ends \/ Goes
  BY <1>3, <1>4, <1>5, <1>6, <1>7
<1>9. QED
  BY <1>8 DEF Ends, Goes, To

\* The states of get_diff
LEMMA DiffTurnsAre ==
  ASSUME NEW new, NEW old, Len(new) \in Nat, Len(old) \in Nat
  PROVE  LET at == DiffTurns(new, old) IN
         /\ at[0] = [iNew |-> 1, iOld |-> 1, ops |-> <<>>]
         /\ \A k \in 1 .. Len(new) + Len(old) : at[k] = DiffStep(new, old, at[k - 1])
<1> DEFINE n == Len(new) + Len(old)
           first == [iNew |-> 1, iOld |-> 1, ops |-> <<>>]
           All(at) == [k \in 0 .. n |-> IF k = 0 THEN first ELSE DiffStep(new, old, at[k - 1])]
           g == [k \in 1 .. n |-> [d \in DiffStates |-> DiffStep(new, old, d)]]
<1>1. n \in Nat
  OBVIOUS
<1>2. first \in DiffStates
  BY DEF DiffStates
<1>3. ASSUME NEW d \in DiffStates PROVE DiffStep(new, old, d) \in DiffStates
  <2>1. d.iNew \in Nat /\ d.iOld \in Nat /\ d.ops \in Seq(Ops)
    BY DEF DiffStates
  <2>2. \A ops \in Seq(Ops) : d.ops \o ops \in Seq(Ops)
    BY <2>1
  <2>3. \A k \in 0 .. 2, l \in 1 .. 2 : d.iNew + k \in Nat /\ d.iOld + l \in Nat
    BY <2>1
  <2>4. CASE DiffStep(new, old, d) = d
    BY <2>4
  <2>5. ASSUME NEW k \in 0 .. 2, NEW l \in 1 .. 2, NEW ops \in Seq(Ops),
               DiffStep(new, old, d) =
                 [iNew |-> d.iNew + k, iOld |-> d.iOld + l, ops |-> d.ops \o ops]
        PROVE  DiffStep(new, old, d) \in DiffStates
    BY <2>2, <2>3, <2>5 DEF DiffStates
  <2>6. QED
    BY <2>4, <2>5, DiffStepGoes
<1>4. g \in [1 .. n -> [DiffStates -> DiffStates]]
  BY <1>3
<1> HIDE DEF first, g, n
<1>5. PICK f \in [0 .. n -> DiffStates] : Turns(f, n, first, g)
  BY <1>1, <1>2, <1>4, TurnsExist
<1>6. ASSUME NEW k \in 1 .. n PROVE f[k] = DiffStep(new, old, f[k - 1])
  <2>1. k - 1 \in 0 .. n
    BY <1>1
  <2>2. f[k - 1] \in DiffStates
    BY <2>1
  <2>3. QED
    BY <2>2, <1>5 DEF g, Turns
<1>7. f = All(f)
  <2>1. ASSUME NEW k \in 0 .. n
        PROVE  f[k] = IF k = 0 THEN first ELSE DiffStep(new, old, f[k - 1])
    BY <1>1, <1>5, <1>6 DEF Turns
  <2>2. QED
    BY <2>1
<1> DEFINE at == CHOOSE h : h = All(h)
<1>8. at = All(at)
  BY <1>7
<1>9. DiffTurns(new, old) = at
  BY DEF DiffTurns, n, first
<1> HIDE DEF at
<1>10. at[0] = first /\ \A k \in 1 .. n : at[k] = DiffStep(new, old, at[k - 1])
  BY <1>1, <1>8
<1>11. QED
  BY <1>9, <1>10 DEF n, first

\* get_diff ends, and its operations make the one list of the other.
LEMMA DiffCorrect ==
  ASSUME NEW new, NEW old, Len(new) \in Nat, DOMAIN new = 1 .. Len(new),
         Len(old) \in Nat, DOMAIN old = 1 .. Len(old)
  PROVE  /\ Diff(new, old) \in Seq(Ops)
         /\ \E q \in Nat :
              /\ Achieves(new, old, Diff(new, old), Len(new) - Len(old), q)
              /\ q <= Len(new) /\ Shifted(new, old, q + 1, Len(new), Len(new) - Len(old))
<1> DEFINE at == DiffTurns(new, old)
           n == Len(new) + Len(old)
           way(d) == d.iNew + Least(d.iOld, Len(old) + 1)
           Ended(d) == d.iNew > Len(new) /\ d.iOld > Len(old)
           Good(d, k) == d \in DiffStates /\ Leads(new, old, d) /\ (Ended(d) \/ way(d) >= k + 2)
           first == [iNew |-> 1, iOld |-> 1, ops |-> <<>>]
<1>1. n \in Nat
  OBVIOUS
<1>2. at[0] = first /\ \A k \in 1 .. n : at[k] = DiffStep(new, old, at[k - 1])
  BY DiffTurnsAre
<1> HIDE DEF at
<1>3. Good(first, 0)
  <2>1. first \in DiffStates
    BY DEF DiffStates
  <2>2. Least(1, Len(old) + 1) = 1
    BY DEF Least
  <2>3. Achieves(new, old, <<>>, 0, 0)
    <3> DEFINE z == [m \in 0 .. 0 |-> 0]
    <3>1. Settles(new, old, <<>>, z, z) /\ z[Len(<<>>)] = 0
      BY DEF Settles
    <3>2. QED
      BY <3>1 DEF Achieves
  <2>4. NextAre(new, old, 1, 1, 0, 0)
    BY <2>2 DEF NextAre, Shifted
  <2>5. Leads(new, old, first)
    BY <2>3, <2>4 DEF Leads
  <2>6. QED
    BY <2>1, <2>2, <2>5
<1>4. ASSUME NEW k \in 1 .. n, NEW d, Good(d, k - 1)
      PROVE  Good(DiffStep(new, old, d), k)
  <2> DEFINE e == DiffStep(new, old, d)
  <2>1. Leads(new, old, e)
    BY <1>4, DiffStepLeads
  <2>2. d.iNew \in Nat /\ d.iOld \in Nat /\ d.ops \in Seq(Ops)
    BY <1>4 DEF DiffStates
  <2>3. CASE Ended(d) /\ e = d
    BY <2>3, <1>4
  <2>4. ASSUME NEW i \in 0 .. 2, NEW j \in 1 .. 2, NEW ops \in Seq(Ops),
               d.iOld <= Len(old) \/ i >= 1,
               e = [iNew |-> d.iNew + i, iOld |-> d.iOld + j, ops |-> d.ops \o ops]
        PROVE  Good(e, k)
    <3>1. d.ops \o ops \in Seq(Ops) /\ d.iNew + i \in Nat /\ d.iOld + j \in Nat
      BY <2>2
    <3>2. /\ e.iNew = d.iNew + i /\ e.iOld = d.iOld + j
          /\ e \in DiffStates
      BY <2>4, <3>1 DEF DiffStates
    <3>3. CASE Ended(d)
      <4>1. Ended(e)
        BY <3>2, <3>3, <2>2
      <4>2. QED
        BY <3>2, <4>1, <2>1
    <3>4. CASE way(d) >= k - 1 + 2
      <4>1. way(e) >= way(d) + 1
        <5>1. CASE d.iOld <= Len(old)
          <6>1. /\ Least(d.iOld, Len(old) + 1) = d.iOld
                /\ Least(d.iOld + j, Len(old) + 1) >= d.iOld + 1
                /\ Least(d.iOld + j, Len(old) + 1) \in Int
            BY <5>1, <2>2 DEF Least
          <6>2. QED
            BY <6>1, <3>2, <2>2
        <5>2. CASE ~(d.iOld <= Len(old))
          <6>1. /\ Least(d.iOld, Len(old) + 1) = Len(old) + 1
                /\ Least(d.iOld + j, Len(old) + 1) = Len(old) + 1
            BY <5>2, <2>2 DEF Least
          <6>2. i >= 1
            BY <5>2, <2>4
          <6>3. QED
            BY <6>1, <6>2, <3>2, <2>2
        <5>3. QED
          BY <5>1, <5>2
      <4>2. way(e) \in Int /\ way(d) \in Int
        BY <3>2, <2>2 DEF Least
      <4>3. way(e) >= k + 2
        BY <3>4, <4>1, <4>2
      <4>4. QED
        BY <3>2, <4>3, <2>1
    <3>5. QED
      BY <3>3, <3>4, <1>4
  <2>5. QED
    BY <2>2, <2>3, <2>4, <1>4, DiffStepGoes
<1> HIDE DEF Good
<1> DEFINE K == {k \in 0 .. n : Good(at[k], k)}
<1>5. 0 \in K
  BY <1>1, <1>2, <1>3
<1>6. \A k \in 1 .. n : k - 1 \in K => k \in K
  BY <1>1, <1>2, <1>4
<1> HIDE DEF K
<1>7. \A k \in 0 .. n : k \in K
  BY <1>1, <1>5, <1>6, TurnsKeep
<1>8. Good(at[n], n)
  BY <1>1, <1>7 DEF K
<1> DEFINE d == at[n]
<1>9. Diff(new, old) = d.ops
  BY DEF Diff, at
<1>10. PICK o \in Int, q \in Nat :
         Achieves(new, old, d.ops, o, q) /\ NextAre(new, old, d.iNew, d.iOld, o, q)
  BY <1>8 DEF Good, Leads
<1>11. d.iNew \in 1 .. Len(new) + 1 /\ d.iOld \in Nat
  BY <1>10 DEF NextAre
<1>12. d.iNew = Len(new) + 1 /\ Least(d.iOld, Len(old) + 1) = Len(old) + 1
  BY <1>8, <1>11 DEF Good, Least
<1>13. /\ o = Len(new) - Len(old) /\ q <= Len(new)
       /\ Shifted(new, old, q + 1, Len(new) + 1 - 1, o) /\ Len(new) + 1 - 1 = Len(new)
  BY <1>10, <1>12 DEF NextAre
<1>14. d.ops \in Seq(Ops)
  BY <1>8 DEF Good, DiffStates
<1>15. QED
  BY <1>9, <1>10, <1>13, <1>14

-----------------------------------------------------------------------------
(* The rows of the playlist.                                                *)

RowRecords == [name : Files, id : Nat, icon : {"none", "pause", "play"}]

Tables == [rows : Seq(RowRecords), failed : BOOLEAN, offset : Int]

\* The row r was drawn for the entry new[k], or for one of old that is alike.
Serves(new, old, rs, pause, r, k) ==
  \/ r.name = Row(new[k], 0, pause).name /\ r.icon = Row(new[k], 0, pause).icon
  \/ \E l \in 1 .. Len(old) :
       r.name = rs[l].name /\ r.icon = rs[l].icon /\ Alike(new[k], old[l])

\* The table t, made of the rows rs of old, has the rows up to q of new.
Stands(new, old, rs, pause, t, o, q) ==
  /\ t \in Tables /\ ~t.failed /\ t.offset = o
  /\ Len(t.rows) = Len(old) + o /\ q <= Len(t.rows)
  /\ \A k \in 1 .. q : Serves(new, old, rs, pause, t.rows[k], k)
  /\ \A k \in q + 1 .. Len(t.rows) : k - o \in 1 .. Len(old) /\ t.rows[k] = rs[k - o]

\* createPlaylistTable makes a row; its number is given apart.
LEMMA RowsAre ==
  ASSUME NEW e, e.name \in Files, NEW id \in Nat, NEW pause
  PROVE  /\ Row(e, id, pause) \in RowRecords
         /\ Row(e, id, pause).name = Row(e, 0, pause).name
         /\ Row(e, id, pause).icon = Row(e, 0, pause).icon
BY DEF Row, RowRecords

\* The rows before the next operation's are settled.
LEMMA RowsBefore ==
  ASSUME NEW new, NEW old, NEW rs, NEW pause, NEW t, NEW o \in Int, NEW q \in Nat, NEW p \in Nat,
         Stands(new, old, rs, pause, t, o, q),
         Shifted(new, old, q + 1, p - 1, o), p - 1 <= Len(t.rows)
  PROVE  \A k \in 1 .. p - 1 : Serves(new, old, rs, pause, t.rows[k], k)
<1> SUFFICES ASSUME NEW k \in 1 .. p - 1
             PROVE  Serves(new, old, rs, pause, t.rows[k], k)
  OBVIOUS
<1>1. Len(t.rows) \in Nat
  BY DEF Stands, Tables
<1>2. CASE k <= q
  BY <1>2 DEF Stands
<1>3. CASE ~(k <= q)
  <2>1. k \in q + 1 .. p - 1 /\ k \in q + 1 .. Len(t.rows)
    BY <1>1, <1>3
  <2>2. k - o \in 1 .. Len(old) /\ Alike(new[k], old[k - o])
    BY <2>1 DEF Shifted
  <2>3. t.rows[k] = rs[k - o]
    BY <2>1 DEF Stands
  <2>4. QED
    BY <2>2, <2>3 DEF Serves
<1>4. QED
  BY <1>2, <1>3

\* An operation that fits is carried out.
LEMMA OpApplied ==
  ASSUME NEW new, NEW old, Len(new) \in Nat, Len(old) \in Nat,
         \A k \in 1 .. Len(new) : new[k].name \in Files,
         NEW rs, NEW pause, NEW t, NEW o \in Int, NEW q \in Nat, NEW x \in Ops,
         NEW o1 \in Int, NEW q1 \in Nat,
         Stands(new, old, rs, pause, t, o, q), OpFits(new, old, x, o, q, o1, q1)
  PROVE  Stands(new, old, rs, pause, ApplyOp(new, pause, t, x), o1, q1)
<1> DEFINE n  == Len(t.rows)
           at == x.old + o
           p  == IF x.op = "remove" THEN at ELSE x.new
           row == Row(new[x.new], x.old, pause)
           u  == ApplyOp(new, pause, t, x)
<1>1. /\ t \in Tables /\ t.rows \in Seq(RowRecords) /\ n \in Nat /\ n = Len(old) + o
      /\ ~t.failed /\ t.offset = o /\ DOMAIN t.rows = 1 .. n /\ q <= n
      /\ t = [rows |-> t.rows, failed |-> t.failed, offset |-> t.offset]
  BY DEF Stands, Tables
<1>a. n \in Nat /\ n = Len(old) + o /\ q <= n
  BY <1>1
<1>2. x.op \in {"add", "remove", "replace"} /\ x.new \in Nat /\ x.old \in Nat
  BY DEF Ops
<1>3. /\ p \in Nat /\ p > q /\ p - 1 <= n
      /\ Shifted(new, old, q + 1, p - 1, o)
      /\ x.op # "remove" => x.new \in 1 .. Len(new)
  BY <1>1, <1>2 DEF OpFits
<1> SUFFICES Stands(new, old, rs, pause, u, o1, q1)
  OBVIOUS
<1> HIDE DEF n, at, p, row, u
<1>4. \A k \in 1 .. p - 1 : Serves(new, old, rs, pause, t.rows[k], k)
  BY <1>1, <1>3, RowsBefore DEF n
<1>5. \A k \in q + 1 .. n : k - o \in 1 .. Len(old) /\ t.rows[k] = rs[k - o]
  BY DEF Stands, n
<1>6. CASE x.op = "replace"
  <2>1. at = p /\ p = x.new /\ p \in 1 .. n /\ o1 = o /\ q1 = p
    BY <1>1, <1>2, <1>3, <1>6 DEF OpFits, p, at
  <2>2. row \in RowRecords /\ row.name = Row(new[p], 0, pause).name
          /\ row.icon = Row(new[p], 0, pause).icon
    BY <1>2, <1>3, <1>6, <2>1, RowsAre DEF row
  <2> DEFINE r == [t.rows EXCEPT ![at] = row]
  <2>3. u = [rows |-> r, failed |-> t.failed, offset |-> o]
    BY <1>1, <1>6, <2>1 DEF ApplyOp, u, at, row
  <2>4. /\ r \in Seq(RowRecords) /\ Len(r) = n
        /\ \A k \in 1 .. n : r[k] = IF k = p THEN row ELSE t.rows[k]
    BY <1>1, <2>1, <2>2
  <2> HIDE DEF r
  <2>5. u \in Tables /\ ~u.failed /\ u.offset = o /\ u.rows = r
    BY <1>1, <2>3, <2>4 DEF Tables
  <2>6. ASSUME NEW k \in 1 .. p PROVE Serves(new, old, rs, pause, r[k], k)
    <3>1. CASE k = p
      BY <3>1, <2>1, <2>2, <2>4 DEF Serves
    <3>2. CASE k # p
      <4>1. k \in 1 .. p - 1 /\ k \in 1 .. n
        BY <3>2, <1>a, <1>3, <2>1
      <4>2. QED
        BY <3>2, <4>1, <2>4, <1>4
    <3>3. QED
      BY <3>1, <3>2
  <2>7. ASSUME NEW k \in p + 1 .. n PROVE k - o \in 1 .. Len(old) /\ r[k] = rs[k - o]
    <3>1. k \in q + 1 .. n /\ k \in 1 .. n /\ k # p
      BY <1>3
    <3>2. QED
      BY <3>1, <2>4, <1>5
  <2>8. QED
    BY <1>1, <2>1, <2>4, <2>5, <2>6, <2>7 DEF Stands
<1>7. CASE x.op = "add"
  <2>1. p = x.new /\ p \in 1 .. n + 1 /\ o1 = o + 1 /\ q1 = p
    BY <1>1, <1>2, <1>3, <1>7 DEF OpFits, p, at
  <2>2. (IF at \in 1 .. n THEN at ELSE n + 1) = p
    BY <1>1, <1>2, <1>3, <1>7, <2>1 DEF OpFits, p, at
  <2>3. row \in RowRecords /\ row.name = Row(new[p], 0, pause).name
          /\ row.icon = Row(new[p], 0, pause).icon
    BY <1>2, <1>3, <1>7, <2>1, RowsAre DEF row
  <2> DEFINE r == InsertAt(t.rows, p, row)
  <2>4. u = [rows |-> r, failed |-> t.failed, offset |-> o + 1]
    BY <1>1, <1>7, <2>2 DEF ApplyOp, u, at, row, n
  <2>5. /\ r \in Seq(RowRecords) /\ Len(r) = n + 1
        /\ \A k \in 1 .. n + 1 :
             r[k] = IF k < p THEN t.rows[k] ELSE IF k = p THEN row ELSE t.rows[k - 1]
    <3>1. t.rows \in Seq(RowRecords) /\ p \in 1 .. Len(t.rows) + 1 /\ row \in RowRecords
      BY <1>1, <2>1, <2>3 DEF n
    <3> DEFINE s == t.rows
    <3> HIDE DEF s
    <3> DEFINE S == RowRecords
               e == row
               i == p
    <3>2. s \in Seq(S) /\ i \in 1 .. Len(s) + 1 /\ e \in S
      BY <3>1 DEF s
    <3> HIDE DEF S, e, i, r
    <3>3. InsertAt(s, i, e) \in Seq(S) /\ Len(InsertAt(s, i, e)) = Len(s) + 1
      BY <3>2, Inserted
    <3>4. \A k \in 1 .. Len(s) + 1 :
            InsertAt(s, i, e)[k] = IF k < i THEN s[k] ELSE IF k = i THEN e ELSE s[k - 1]
      BY <3>2, Inserted
    <3>5. QED
      BY <3>3, <3>4 DEF n, s, e, i, S, r
  <2> HIDE DEF r
  <2>6. u \in Tables /\ ~u.failed /\ u.offset = o + 1 /\ u.rows = r
    BY <1>1, <2>4, <2>5 DEF Tables
  <2>7. ASSUME NEW k \in 1 .. p PROVE Serves(new, old, rs, pause, r[k], k)
    <3>1. CASE k = p
      BY <3>1, <2>1, <2>3, <2>5 DEF Serves
    <3>2. CASE k # p
      <4>1. k \in 1 .. p - 1 /\ k \in 1 .. n + 1 /\ k < p
        BY <3>2, <1>a, <1>3, <2>1
      <4>2. QED
        BY <4>1, <2>5, <1>4
    <3>3. QED
      BY <3>1, <3>2
  <2>8. ASSUME NEW k \in p + 1 .. n + 1
        PROVE  k - (o + 1) \in 1 .. Len(old) /\ r[k] = rs[k - (o + 1)]
    <3>1. /\ k - 1 \in q + 1 .. n /\ k \in 1 .. n + 1 /\ ~(k < p) /\ k # p
          /\ k - 1 - o = k - (o + 1)
      BY <1>1, <1>3
    <3>2. k - 1 - o \in 1 .. Len(old) /\ t.rows[k - 1] = rs[k - 1 - o]
      BY <3>1, <1>5
    <3>3. r[k] = t.rows[k - 1]
      BY <3>1, <2>5
    <3>4. QED
      BY <3>1, <3>2, <3>3
  <2>9. n + 1 = Len(old) + (o + 1) /\ p <= n + 1
    BY <1>1, <2>1
  <2>10. QED
    BY <2>1, <2>5, <2>6, <2>7, <2>8, <2>9 DEF Stands
<1>8. CASE x.op = "remove"
  <2>1. at = p /\ p \in 1 .. n /\ o1 = o - 1 /\ q1 = p - 1
    BY <1>1, <1>2, <1>3, <1>8 DEF OpFits, p, at
  <2> DEFINE r == RemoveAt(t.rows, p)
  <2>2. u = [rows |-> r, failed |-> t.failed, offset |-> o - 1]
    BY <1>1, <1>8, <2>1 DEF ApplyOp, u, at
  <2>3. /\ r \in Seq(RowRecords) /\ Len(r) = n - 1
        /\ \A k \in 1 .. n - 1 : r[k] = IF k < p THEN t.rows[k] ELSE t.rows[k + 1]
    BY <1>1, <2>1, Removed DEF n
  <2> HIDE DEF r
  <2>4. u \in Tables /\ ~u.failed /\ u.offset = o - 1 /\ u.rows = r
    BY <1>1, <2>2, <2>3 DEF Tables
  <2>5. ASSUME NEW k \in 1 .. p - 1 PROVE Serves(new, old, rs, pause, r[k], k)
    <3>1. k \in 1 .. n - 1 /\ k < p
      BY <1>1, <2>1
    <3>2. QED
      BY <3>1, <2>3, <1>4
  <2>6. ASSUME NEW k \in p - 1 + 1 .. n - 1
        PROVE  k - (o - 1) \in 1 .. Len(old) /\ r[k] = rs[k - (o - 1)]
    <3>1. /\ k + 1 \in q + 1 .. n /\ k \in 1 .. n - 1 /\ ~(k < p)
          /\ k + 1 - o = k - (o - 1)
      BY <1>a, <1>3, <2>1
    <3>2. k + 1 - o \in 1 .. Len(old) /\ t.rows[k + 1] = rs[k + 1 - o]
      BY <3>1, <1>5
    <3>3. r[k] = t.rows[k + 1]
      BY <3>1, <2>3
    <3>4. QED
      BY <3>1, <3>2, <3>3
  <2>7. n - 1 = Len(old) + (o - 1) /\ p - 1 <= n - 1
    BY <1>1, <2>1
  <2>8. QED
    BY <2>1, <2>3, <2>4, <2>5, <2>6, <2>7 DEF Stands
<1>9. QED
  BY <1>2, <1>6, <1>7, <1>8

\* The operations name entries that are there.
Named(new, ops) == \A m \in 1 .. Len(ops) : ops[m].op # "remove" => ops[m].new \in 1 .. Len(new)

\* An operation makes a table of a table.
LEMMA OpKeepsTable ==
  ASSUME NEW new, \A k \in 1 .. Len(new) : new[k].name \in Files,
         NEW pause, NEW t \in Tables, NEW x \in Ops,
         x.op # "remove" => x.new \in 1 .. Len(new)
  PROVE  ApplyOp(new, pause, t, x) \in Tables
<1> DEFINE n   == Len(t.rows)
           at  == x.old + t.offset
           row == Row(new[x.new], x.old, pause)
           u   == ApplyOp(new, pause, t, x)
<1>1. /\ t.rows \in Seq(RowRecords) /\ n \in Nat /\ t.offset \in Int /\ DOMAIN t.rows = 1 .. n
      /\ t.failed \in BOOLEAN
      /\ t = [rows |-> t.rows, failed |-> t.failed, offset |-> t.offset]
  BY DEF Tables
<1>2. x.op \in {"add", "remove", "replace"} /\ x.new \in Nat /\ x.old \in Nat /\ at \in Int
  BY <1>1 DEF Ops
<1>3. x.op # "remove" => row \in RowRecords
  BY <1>2, RowsAre
<1> SUFFICES u \in Tables
  OBVIOUS
<1> HIDE DEF row, u, n
<1>4. CASE t.failed
  BY <1>4 DEF ApplyOp, u
<1>5. CASE ~t.failed /\ x.op = "add"
  <2> DEFINE i == IF at \in 1 .. n THEN at ELSE n + 1
             r == InsertAt(t.rows, i, row)
  <2>1. i \in 1 .. n + 1
    BY <1>1, <1>2 DEF n
  <2>2. u = [rows |-> r, failed |-> t.failed, offset |-> t.offset + 1]
    BY <1>1, <1>5 DEF ApplyOp, u, row, n
  <2>3. r \in Seq(RowRecords)
    <3> HIDE DEF i
    <3>1. i \in 1 .. Len(t.rows) + 1 /\ t.rows \in Seq(RowRecords) /\ row \in RowRecords
      BY <1>1, <1>3, <1>5, <2>1 DEF n
    <3> DEFINE s == t.rows
    <3> HIDE DEF s
    <3>2. i \in 1 .. Len(s) + 1 /\ s \in Seq(RowRecords) /\ row \in RowRecords
      BY <3>1 DEF s
    <3>3. InsertAt(s, i, row) \in Seq(RowRecords)
      BY <3>2, Inserted
    <3>4. QED
      BY <3>3 DEF s
  <2>4. t.offset + 1 \in Int
    BY <1>1
  <2> HIDE DEF r
  <2>5. QED
    BY <1>1, <2>2, <2>3, <2>4 DEF Tables
<1>6. CASE ~t.failed /\ x.op # "add" /\ ~(at \in 1 .. n)
  <2>1. u = [rows |-> t.rows, failed |-> TRUE, offset |-> t.offset]
    BY <1>1, <1>6 DEF ApplyOp, u, n
  <2>2. QED
    BY <1>1, <2>1 DEF Tables
<1>7. CASE ~t.failed /\ x.op = "replace" /\ at \in 1 .. n
  <2> DEFINE r == [t.rows EXCEPT ![at] = row]
  <2>1. u = [rows |-> r, failed |-> t.failed, offset |-> t.offset]
    BY <1>1, <1>7 DEF ApplyOp, u, row, n
  <2>2. r \in Seq(RowRecords)
    BY <1>1, <1>3, <1>7
  <2> HIDE DEF r
  <2>3. QED
    BY <1>1, <2>1, <2>2 DEF Tables
<1>8. CASE ~t.failed /\ x.op = "remove" /\ at \in 1 .. n
  <2> DEFINE r == RemoveAt(t.rows, at)
  <2>1. u = [rows |-> r, failed |-> t.failed, offset |-> t.offset - 1]
    BY <1>1, <1>8 DEF ApplyOp, u, n
  <2>2. r \in Seq(RowRecords)
    <3> HIDE DEF at
    <3>1. at \in 1 .. Len(t.rows)
      BY <1>1, <1>8 DEF n
    <3> DEFINE s == t.rows
    <3> HIDE DEF s
    <3>2. at \in 1 .. Len(s) /\ s \in Seq(RowRecords)
      BY <1>1, <3>1 DEF s
    <3>3. RemoveAt(s, at) \in Seq(RowRecords)
      BY <3>2, Removed
    <3>4. QED
      BY <3>3 DEF s
  <2>3. t.offset - 1 \in Int
    BY <1>1
  <2> HIDE DEF r
  <2>4. QED
    BY <1>1, <2>1, <2>2, <2>3 DEF Tables
<1>9. QED
  BY <1>1, <1>2, <1>4, <1>5, <1>6, <1>7, <1>8

\* The states of the loop of updatePlaylist
LEMMA TableTurnsAre ==
  ASSUME NEW new, \A k \in 1 .. Len(new) : new[k].name \in Files,
         NEW rs \in Seq(RowRecords), NEW pause, NEW ops \in Seq(Ops), Named(new, ops)
  PROVE  LET after == TableTurns(rs, new, pause, ops) IN
         /\ after[0] = [rows |-> rs, failed |-> FALSE, offset |-> 0]
         /\ \A k \in 1 .. Len(ops) : after[k] = ApplyOp(new, pause, after[k - 1], ops[k])
<1> DEFINE n == Len(ops)
           first == [rows |-> rs, failed |-> FALSE, offset |-> 0]
           All(h) == [k \in 0 .. n |-> IF k = 0 THEN first ELSE ApplyOp(new, pause, h[k - 1], ops[k])]
           g == [k \in 1 .. n |-> [t \in Tables |-> ApplyOp(new, pause, t, ops[k])]]
<1>1. n \in Nat /\ \A k \in 1 .. n : ops[k] \in Ops
  OBVIOUS
<1>2. first \in Tables
  BY DEF Tables
<1>3. ASSUME NEW k \in 1 .. n, NEW t \in Tables PROVE ApplyOp(new, pause, t, ops[k]) \in Tables
  <2>1. ops[k] \in Ops /\ (ops[k].op # "remove" => ops[k].new \in 1 .. Len(new))
    BY <1>1 DEF Named
  <2>2. QED
    BY <2>1, OpKeepsTable
<1>4. g \in [1 .. n -> [Tables -> Tables]]
  BY <1>3
<1> HIDE DEF first, g, n
<1>5. PICK f \in [0 .. n -> Tables] : Turns(f, n, first, g)
  BY <1>1, <1>2, <1>4, TurnsExist
<1>6. ASSUME NEW k \in 1 .. n PROVE f[k] = ApplyOp(new, pause, f[k - 1], ops[k])
  <2>1. k - 1 \in 0 .. n
    BY <1>1
  <2>2. f[k - 1] \in Tables
    BY <2>1
  <2>3. QED
    BY <2>2, <1>5 DEF g, Turns
<1>7. f = All(f)
  <2>1. ASSUME NEW k \in 0 .. n
        PROVE  f[k] = IF k = 0 THEN first ELSE ApplyOp(new, pause, f[k - 1], ops[k])
    BY <1>1, <1>5, <1>6 DEF Turns
  <2>2. QED
    BY <2>1
<1> DEFINE after == CHOOSE h : h = All(h)
<1>8. after = All(after)
  BY <1>7
<1>9. TableTurns(rs, new, pause, ops) = after
  BY DEF TableTurns, n, first
<1> HIDE DEF after
<1>10. after[0] = first /\ \A k \in 1 .. n : after[k] = ApplyOp(new, pause, after[k - 1], ops[k])
  BY <1>1, <1>8
<1>11. QED
  BY <1>9, <1>10 DEF n, first

\* When the operations lead to the offset o1 and the row q1, so does carrying them out.
LEMMA OpsApplied ==
  ASSUME NEW new, NEW old, Len(new) \in Nat, Len(old) \in Nat,
         \A k \in 1 .. Len(new) : new[k].name \in Files,
         NEW rs \in Seq(RowRecords), Len(rs) = Len(old), NEW pause,
         NEW ops \in Seq(Ops), NEW o1, NEW q1, Achieves(new, old, ops, o1, q1)
  PROVE  Stands(new, old, rs, pause, TableTurns(rs, new, pause, ops)[Len(ops)], o1, q1)
<1> DEFINE n == Len(ops)
           after == TableTurns(rs, new, pause, ops)
           first == [rows |-> rs, failed |-> FALSE, offset |-> 0]
<1>1. n \in Nat /\ \A k \in 1 .. n : ops[k] \in Ops
  OBVIOUS
<1>2. PICK o, q : Settles(new, old, ops, o, q) /\ o[Len(ops)] = o1 /\ q[Len(ops)] = q1
  BY DEF Achieves
<1>3. /\ o \in [0 .. n -> Int] /\ q \in [0 .. n -> Nat] /\ o[0] = 0 /\ q[0] = 0
      /\ \A m \in 1 .. n : OpFits(new, old, ops[m], o[m - 1], q[m - 1], o[m], q[m])
  BY <1>2 DEF Settles
<1>4. Named(new, ops)
  <2>1. SUFFICES ASSUME NEW m \in 1 .. n, ops[m].op # "remove"
                 PROVE  ops[m].new \in 1 .. Len(new)
    BY DEF Named
  <2>2. OpFits(new, old, ops[m], o[m - 1], q[m - 1], o[m], q[m])
    BY <1>3
  <2>3. QED
    BY <2>1, <2>2 DEF OpFits
<1>5. after[0] = first /\ \A k \in 1 .. n : after[k] = ApplyOp(new, pause, after[k - 1], ops[k])
  BY <1>4, TableTurnsAre
<1> HIDE DEF after, n
<1> DEFINE K == {k \in 0 .. n : Stands(new, old, rs, pause, after[k], o[k], q[k])}
<1>6. 0 \in K
  <2>1. Stands(new, old, rs, pause, first, 0, 0)
    <3>1. DOMAIN rs = 1 .. Len(old)
      OBVIOUS
    <3>2. QED
      BY <3>1 DEF Stands, Tables
  <2>2. QED
    BY <2>1, <1>1, <1>3, <1>5
<1>7. ASSUME NEW k \in 1 .. n, k - 1 \in K PROVE k \in K
  <2>1. /\ k \in 0 .. n /\ o[k - 1] \in Int /\ q[k - 1] \in Nat /\ o[k] \in Int /\ q[k] \in Nat
        /\ ops[k] \in Ops /\ Stands(new, old, rs, pause, after[k - 1], o[k - 1], q[k - 1])
        /\ OpFits(new, old, ops[k], o[k - 1], q[k - 1], o[k], q[k])
    BY <1>1, <1>3, <1>7
  <2>2. Stands(new, old, rs, pause, ApplyOp(new, pause, after[k - 1], ops[k]), o[k], q[k])
    BY <2>1, OpApplied
  <2>3. QED
    BY <2>1, <2>2, <1>5
<1> HIDE DEF K
<1>8. n \in K
  <2>1. \A k \in 0 .. n : k \in K
    BY <1>1, <1>6, <1>7, TurnsKeep
  <2>2. QED
    BY <2>1, <1>1
<1>9. QED
  BY <1>2, <1>8 DEF K, n, after

\* The entries of a playlist, with the current one marked
LEMMA EntriesAre ==
  ASSUME NEW pl, IsPlaylist(pl)
  PROVE  /\ Len(pl.files) \in Nat /\ pl.files \in Seq(Files)
         /\ Len(Entries(pl)) = Len(pl.files) /\ DOMAIN Entries(pl) = 1 .. Len(pl.files)
         /\ \A k \in 1 .. Len(pl.files) :
              /\ Entries(pl)[k].name = pl.files[k] /\ pl.files[k] \in Files
              /\ Entries(pl)[k].current = (k - 1 = pl.pos)
              /\ Entries(pl)[k].playing = (k - 1 = pl.pos /\ pl.playing)
<1>1. pl.files \in Seq(Files)
  BY DEF IsPlaylist
<1>2. Len(pl.files) \in Nat /\ \A k \in 1 .. Len(pl.files) : pl.files[k] \in Files
  BY <1>1
<1> DEFINE E(k) == [name |-> pl.files[k], current |-> k - 1 = pl.pos,
                    playing |-> k - 1 = pl.pos /\ pl.playing]
<1>3. Entries(pl) = [k \in 1 .. Len(pl.files) |-> E(k)]
  BY DEF Entries
<1>4. ASSUME NEW k PROVE /\ E(k).name = pl.files[k] /\ E(k).current = (k - 1 = pl.pos)
                         /\ E(k).playing = (k - 1 = pl.pos /\ pl.playing)
  BY Zenon
<1> HIDE DEF E
<1>5. Len(Entries(pl)) = Len(pl.files) /\ DOMAIN Entries(pl) = 1 .. Len(pl.files)
  BY <1>2, <1>3
<1>6. QED
  BY <1>1, <1>2, <1>3, <1>4, <1>5

\* The rows are numbered anew; nothing else of them changes.
LEMMA RowsNumberedAnew ==
  ASSUME NEW s \in Seq(RowRecords)
  PROVE  /\ Renumbered(s) \in Seq(RowRecords) /\ Len(Renumbered(s)) = Len(s)
         /\ \A k \in 1 .. Len(s) :
              /\ Renumbered(s)[k].id = k - 1 /\ Renumbered(s)[k].name = s[k].name
              /\ Renumbered(s)[k].icon = s[k].icon
<1>1. Len(s) \in Nat /\ DOMAIN s = 1 .. Len(s) /\ \A k \in 1 .. Len(s) : s[k] \in RowRecords
  OBVIOUS
<1>2. Renumbered(s) = [k \in 1 .. Len(s) |-> [s[k] EXCEPT !.id = k - 1]]
  BY <1>1 DEF Renumbered
<1>3. ASSUME NEW k \in 1 .. Len(s)
      PROVE  /\ Renumbered(s)[k] \in RowRecords /\ Renumbered(s)[k].id = k - 1
             /\ Renumbered(s)[k].name = s[k].name /\ Renumbered(s)[k].icon = s[k].icon
  <2> DEFINE r == s[k]
             i == k - 1
  <2>1. r \in RowRecords /\ i \in Nat
    BY <1>1
  <2>2. Renumbered(s)[k] = [r EXCEPT !.id = i]
    BY <1>2
  <2> HIDE DEF r, i
  <2>3. /\ [r EXCEPT !.id = i] \in RowRecords /\ [r EXCEPT !.id = i].id = i
        /\ [r EXCEPT !.id = i].name = r.name /\ [r EXCEPT !.id = i].icon = r.icon
    BY <2>1 DEF RowRecords
  <2>4. QED
    BY <2>2, <2>3 DEF r, i
<1>4. Renumbered(s) \in Seq(RowRecords) /\ Len(Renumbered(s)) = Len(s)
  BY <1>1, <1>2, <1>3
<1>5. QED
  BY <1>3, <1>4

\* updatePlaylist makes the rows of the new playlist: as many, numbered, each with the
\* name of its entry, and with its icon or that of an alike one.
LEMMA PlaylistUpdated ==
  ASSUME NEW new, NEW old, IsPlaylist(new), IsPlaylist(old),
         rows \in Seq(RowRecords), Len(rows) = Len(old.files), NEW pause
  PROVE  LET t == UpdatedPlaylist(new, old, pause) IN
         /\ ~t.failed /\ t.rows \in Seq(RowRecords) /\ Len(t.rows) = Len(new.files)
         /\ \A k \in 1 .. Len(t.rows) :
              /\ t.rows[k].id = k - 1
              /\ Serves(Entries(new), Entries(old), rows, pause, t.rows[k], k)
<1> DEFINE N == Entries(new)
           O == Entries(old)
           ops == Diff(N, O)
           all == TableTurns(rows, N, pause, ops)[Len(ops)]
<1>1. /\ Len(N) \in Nat /\ Len(O) \in Nat /\ DOMAIN N = 1 .. Len(N) /\ DOMAIN O = 1 .. Len(O)
      /\ Len(N) = Len(new.files) /\ Len(O) = Len(old.files)
      /\ \A k \in 1 .. Len(N) : N[k].name \in Files
  BY EntriesAre
<1>2. UpdatedPlaylist(new, old, pause)
        = Table(IF all.failed THEN all.rows ELSE Renumbered(all.rows), all.failed)
  BY DEF UpdatedPlaylist
<1> HIDE DEF N, O
<1>3. ops \in Seq(Ops)
  BY <1>1, DiffCorrect
<1>4. PICK q \in Nat : /\ Achieves(N, O, ops, Len(N) - Len(O), q)
                       /\ q <= Len(N) /\ Shifted(N, O, q + 1, Len(N), Len(N) - Len(O))
  BY <1>1, DiffCorrect
<1> HIDE DEF ops
<1>5. Stands(N, O, rows, pause, all, Len(N) - Len(O), q)
  BY <1>1, <1>3, <1>4, OpsApplied
<1> HIDE DEF all
<1>6. ~all.failed /\ all \in Tables /\ all.rows \in Seq(RowRecords) /\ Len(all.rows) = Len(N)
  BY <1>1, <1>5 DEF Stands, Tables
<1>7. \A k \in 1 .. Len(N) : Serves(N, O, rows, pause, all.rows[k], k)
  <2> DEFINE m == Len(N) + 1
             o == Len(N) - Len(O)
  <2>1. m \in Nat /\ m - 1 = Len(N) /\ o \in Int /\ m - 1 <= Len(all.rows)
    BY <1>1, <1>6
  <2>2. Shifted(N, O, q + 1, m - 1, o) /\ Stands(N, O, rows, pause, all, o, q)
    BY <1>4, <1>5, <2>1
  <2> HIDE DEF m, o
  <2>3. \A k \in 1 .. m - 1 : Serves(N, O, rows, pause, all.rows[k], k)
    BY <2>1, <2>2, RowsBefore
  <2>4. QED
    BY <2>1, <2>3
<1> DEFINE rs == Renumbered(all.rows)
<1>8. /\ rs \in Seq(RowRecords) /\ Len(rs) = Len(N)
      /\ \A k \in 1 .. Len(N) : /\ rs[k].id = k - 1 /\ rs[k].name = all.rows[k].name
                                /\ rs[k].icon = all.rows[k].icon
  <2> DEFINE s == all.rows
  <2> HIDE DEF s
  <2>1. s \in Seq(RowRecords) /\ Len(s) = Len(N)
    BY <1>6 DEF s
  <2>2. QED
    BY <2>1, RowsNumberedAnew DEF s
<1> HIDE DEF rs
<1>9. UpdatedPlaylist(new, old, pause) = [rows |-> rs, failed |-> all.failed]
  BY <1>2, <1>6 DEF Table, rs
<1>10. \A k \in 1 .. Len(N) : Serves(N, O, rows, pause, rs[k], k)
  BY <1>7, <1>8 DEF Serves
<1>11. QED
  BY <1>1, <1>6, <1>8, <1>9, <1>10 DEF N, O

-----------------------------------------------------------------------------
(* What mpv does with its playlist.                                         *)

\* All properties
IsFull(s) == DOMAIN s = Props /\ IsPlaylist(s["playlist"])

Lists == [files : Seq(Files), pos : Int, playing : BOOLEAN]

AList(fs, i, on) == [files |-> fs, pos |-> i, playing |-> on]

\* Nothing follows of a playlist but these facts.
LEMMA PlaylistParts ==
  ASSUME NEW pl, IsPlaylist(pl)
  PROVE  /\ pl.files \in Seq(Files) /\ Len(pl.files) \in Nat /\ pl.playing \in BOOLEAN
         /\ pl.pos \in Int /\ -1 <= pl.pos /\ pl.pos < Len(pl.files)
         /\ pl.pos = -1 => ~pl.playing
         /\ pl \in Lists /\ pl = AList(pl.files, pl.pos, pl.playing)
<1>1. pl \in [files : Seq(Files), pos : Int, playing : BOOLEAN]
  BY DEF IsPlaylist
<1>2. pl.files \in Seq(Files) /\ Len(pl.files) \in Nat /\ pl.playing \in BOOLEAN /\ pl.pos \in Int
  BY <1>1
<1>3. pl = AList(pl.files, pl.pos, pl.playing)
  BY <1>1 DEF AList
<1>4. pl.pos \in -1 .. Len(pl.files) - 1 /\ (pl.pos = -1 => ~pl.playing)
  BY DEF IsPlaylist
<1>5. -1 <= pl.pos /\ pl.pos < Len(pl.files)
  BY <1>2, <1>4
<1>6. QED
  BY <1>1, <1>2, <1>3, <1>4, <1>5 DEF Lists

\* The parts of a playlist
LEMMA PlaylistMade ==
  ASSUME NEW fs \in Seq(Files), NEW i \in Int, -1 <= i, i < Len(fs), NEW on \in BOOLEAN,
         i = -1 => ~on
  PROVE  /\ IsPlaylist(AList(fs, i, on))
         /\ AList(fs, i, on).files = fs /\ AList(fs, i, on).pos = i
<1> DEFINE pl == AList(fs, i, on)
<1>1. pl.files = fs /\ pl.pos = i /\ pl.playing = on
  BY Zenon DEF AList
<1>2. pl \in [files : Seq(Files), pos : Int, playing : BOOLEAN]
  BY DEF AList
<1> HIDE DEF pl
<1>3. Len(fs) \in Nat
  OBVIOUS
<1>4. i \in -1 .. Len(fs) - 1
  BY <1>3
<1>5. IsPlaylist(pl)
  BY <1>1, <1>2, <1>4 DEF IsPlaylist
<1>6. QED
  BY <1>1, <1>5 DEF pl

\* A playlist whose current entry is not started
LEMMA PlaylistStopped ==
  ASSUME NEW fs \in Seq(Files), NEW i \in Int, -1 <= i, i < Len(fs)
  PROVE  /\ IsPlaylist(AList(fs, i, FALSE))
         /\ AList(fs, i, FALSE).files = fs /\ AList(fs, i, FALSE).pos = i
<1> DEFINE off == FALSE
<1>1. off \in BOOLEAN /\ (i = -1 => ~off)
  OBVIOUS
<1> HIDE DEF off
<1>2. /\ IsPlaylist(AList(fs, i, off))
      /\ AList(fs, i, off).files = fs /\ AList(fs, i, off).pos = i
  BY <1>1, PlaylistMade
<1>3. QED
  BY <1>2 DEF off

\* Playlists with other fields
WithFiles(pl, fs) == [pl EXCEPT !.files = fs]
WithPos(pl, i) == [pl EXCEPT !.pos = i]
WithPlaying(pl, on) == [pl EXCEPT !.playing = on]
WithPosPlaying(pl, i, on) == [pl EXCEPT !.pos = i, !.playing = on]
WithFilesPos(pl, fs, i) == [pl EXCEPT !.files = fs, !.pos = i]

\* A playlist with other files
LEMMA FilesChanged ==
  ASSUME NEW pl \in Lists, NEW fs \in Seq(Files)
  PROVE  WithFiles(pl, fs) = AList(fs, pl.pos, pl.playing)
BY DEF Lists, AList, WithFiles

\* A playlist with another current entry
LEMMA PosChanged ==
  ASSUME NEW pl \in Lists, NEW i \in Int
  PROVE  WithPos(pl, i) = AList(pl.files, i, pl.playing)
BY DEF Lists, AList, WithPos

\* A playlist whose current entry is started or stopped
LEMMA PlayingChanged ==
  ASSUME NEW pl \in Lists, NEW on \in BOOLEAN
  PROVE  WithPlaying(pl, on) = AList(pl.files, pl.pos, on)
BY DEF Lists, AList, WithPlaying

\* A playlist that goes to an entry that was not started yet
LEMMA PosStopped ==
  ASSUME NEW pl \in Lists, NEW i \in Int
  PROVE  WithPosPlaying(pl, i, FALSE) = AList(pl.files, i, FALSE)
<1> DEFINE q == WithPos(pl, i)
           off == FALSE
<1>1. q \in Lists /\ q.files = pl.files /\ q.pos = i /\ off \in BOOLEAN
  BY DEF Lists, WithPos
<1>2. WithPosPlaying(pl, i, off) = WithPlaying(q, off)
  BY SMT DEF WithPosPlaying, WithPos, WithPlaying
<1> HIDE DEF q, off
<1>3. WithPlaying(q, off) = AList(q.files, q.pos, off)
  BY <1>1, PlayingChanged
<1>4. WithPosPlaying(pl, i, off) = AList(pl.files, i, off)
  BY <1>1, <1>2, <1>3, Zenon
<1>5. QED
  BY <1>4 DEF off

\* A playlist with other files and another current entry
LEMMA FilesPosChanged ==
  ASSUME NEW pl \in Lists, NEW fs \in Seq(Files), NEW i \in Int
  PROVE  WithFilesPos(pl, fs, i) = AList(fs, i, pl.playing)
<1> DEFINE r == WithFiles(pl, fs)
<1>1. r \in Lists /\ r.files = fs /\ r.playing = pl.playing
  BY DEF Lists, WithFiles
<1>2. WithFilesPos(pl, fs, i) = WithPos(r, i)
  BY SMT DEF WithFilesPos, WithPos, WithFiles
<1> HIDE DEF r
<1>3. WithPos(r, i) = AList(r.files, i, r.playing)
  BY <1>1, PosChanged
<1>4. QED
  BY <1>1, <1>2, <1>3, Zenon

\* Setting playlist-pos leaves a playlist.
LEMMA JumpKeeps ==
  ASSUME NEW pl, IsPlaylist(pl), NEW i
  PROVE  /\ IsPlaylist(JumpTo(pl, i)) /\ JumpTo(pl, i).files = pl.files
         /\ i \in 0 .. Len(pl.files) - 1 => JumpTo(pl, i).pos = i
<1> DEFINE j == IF i \in 0 .. Len(pl.files) - 1 THEN i ELSE -1
<1>1. pl \in Lists /\ pl.files \in Seq(Files) /\ Len(pl.files) \in Nat
  BY PlaylistParts
<1>2. j \in Int /\ -1 <= j /\ j < Len(pl.files)
  BY <1>1
<1>3. JumpTo(pl, i) = AList(pl.files, j, FALSE)
  <2>1. JumpTo(pl, i) = WithPosPlaying(pl, j, FALSE)
    BY DEF JumpTo, WithPosPlaying
  <2> HIDE DEF j
  <2>2. QED
    BY <1>1, <1>2, <2>1, PosStopped
<1> HIDE DEF j
<1>4. IsPlaylist(JumpTo(pl, i)) /\ JumpTo(pl, i).files = pl.files /\ JumpTo(pl, i).pos = j
  BY <1>1, <1>2, <1>3, PlaylistStopped
<1>5. QED
  BY <1>4 DEF j

\* playlist-next and playlist-prev leave a playlist.
LEMMA NeighbourKeeps ==
  ASSUME NEW pl, IsPlaylist(pl), NEW d
  PROVE  IsPlaylist(Neighbour(pl, d))
BY JumpKeeps DEF Neighbour

\* playlist-remove leaves a playlist: the position stays within the files.
LEMMA WithoutKeeps ==
  ASSUME NEW pl, IsPlaylist(pl), NEW i
  PROVE  IsPlaylist(Without(pl, i))
<1> DEFINE n == Len(pl.files)
           fs == RemoveAt(pl.files, i + 1)
           rest == AList(fs, pl.pos, pl.playing)
<1>1. /\ pl.files \in Seq(Files) /\ n \in Nat /\ pl.pos \in Int /\ -1 <= pl.pos /\ pl.pos < n
      /\ pl.playing \in BOOLEAN /\ (pl.pos = -1 => ~pl.playing)
      /\ pl \in Lists /\ pl = AList(pl.files, pl.pos, pl.playing)
  BY PlaylistParts
<1>2. CASE i \notin 0 .. n - 1
  BY <1>2 DEF Without
<1>3. CASE i \in 0 .. n - 1
  <2>1. fs \in Seq(Files) /\ Len(fs) = n - 1
    <3> DEFINE s == pl.files
               k == i + 1
    <3> HIDE DEF s, k
    <3>1. s \in Seq(Files) /\ k \in 1 .. Len(s)
      BY <1>1, <1>3 DEF s, k
    <3>2. RemoveAt(s, k) \in Seq(Files) /\ Len(RemoveAt(s, k)) = Len(s) - 1
      BY <3>1, Removed
    <3>3. QED
      BY <3>2 DEF s, k
  <2>2. WithFiles(pl, fs) = rest
    BY <1>1, <2>1, FilesChanged
  <2> HIDE DEF fs
  <2>3. rest.files = fs /\ rest.pos = pl.pos /\ rest.playing = pl.playing
    BY Zenon DEF AList
  <2>8. rest \in Lists
    BY <1>1, <2>1 DEF Lists, AList
  <2>9. [pl EXCEPT !.files = RemoveAt(pl.files, i + 1)] = rest
    BY <2>2 DEF fs, WithFiles
  <2> HIDE DEF rest
  <2>4. CASE i = pl.pos
    <3> DEFINE j == IF i \in 0 .. n - 1 - 1 THEN i ELSE -1
    <3>1. Without(pl, i) = JumpTo(rest, i)
      BY <1>3, <2>9, <2>4 DEF Without
    <3>2. JumpTo(rest, i) = WithPosPlaying(rest, j, FALSE)
      BY <2>1, <2>3 DEF JumpTo, WithPosPlaying
    <3>3. j \in Int /\ -1 <= j /\ j < n - 1
      BY <1>1, <1>3
    <3> HIDE DEF j
    <3>5. JumpTo(rest, i) = AList(fs, j, FALSE)
      BY <2>3, <2>8, <3>2, <3>3, PosStopped
    <3>6. j < Len(fs)
      BY <1>1, <2>1, <3>3
    <3>7. IsPlaylist(AList(fs, j, FALSE))
      BY <2>1, <3>3, <3>6, PlaylistStopped
    <3>4. QED
      BY <3>1, <3>5, <3>7
  <2>5. CASE i < pl.pos
    <3>1. Without(pl, i) = WithPos(rest, rest.pos - 1)
      <4>1. i # pl.pos
        BY <1>1, <2>5
      <4>2. QED
        BY <1>3, <2>9, <2>5, <4>1, Zenon DEF Without, WithPos
    <3>2. WithPos(rest, rest.pos - 1)
            = AList(fs, pl.pos - 1, pl.playing)
      <4>1. rest.pos - 1 \in Int
        BY <1>1, <2>3
      <4>2. QED
        BY <2>3, <2>8, <4>1, PosChanged
    <3>3. pl.pos - 1 \in Int /\ -1 <= pl.pos - 1 /\ pl.pos - 1 < n - 1 /\ pl.pos - 1 # -1
      BY <1>1, <1>3, <2>5
    <3>4. QED
      BY <1>1, <2>1, <3>1, <3>2, <3>3, PlaylistMade
  <2>6. CASE ~(i = pl.pos) /\ ~(i < pl.pos)
    <3>1. Without(pl, i) = rest
      BY <1>3, <2>9, <2>6 DEF Without
    <3>2. pl.pos < n - 1
      BY <1>1, <1>3, <2>6
    <3>3. QED
      BY <1>1, <2>1, <3>1, <3>2, PlaylistMade DEF rest
  <2>7. QED
    BY <2>4, <2>5, <2>6
<1>4. QED
  BY <1>2, <1>3

\* playlist-move of an entry before the one above it leaves a playlist.
LEMMA MovedUpKeeps ==
  ASSUME NEW pl, IsPlaylist(pl), NEW i \in Int
  PROVE  IsPlaylist(Moved(pl, i, i - 1)) \/ ~(i > 0)
<1> DEFINE n == Len(pl.files)
           gone == RemoveAt(pl.files, i + 1)
           fs == InsertAt(gone, i, pl.files[i + 1])
           At(k) == IF k = i THEN i - 1
                    ELSE k - (IF k > i THEN 1 ELSE 0) + (IF k >= i - 1 THEN 1 ELSE 0)
           j == IF pl.pos = -1 THEN -1 ELSE At(pl.pos)
<1> SUFFICES ASSUME i > 0 PROVE IsPlaylist(Moved(pl, i, i - 1))
  OBVIOUS
<1>1. /\ pl.files \in Seq(Files) /\ n \in Nat /\ pl.pos \in Int /\ -1 <= pl.pos /\ pl.pos < n
      /\ pl.playing \in BOOLEAN /\ (pl.pos = -1 => ~pl.playing)
      /\ pl \in Lists /\ pl = AList(pl.files, pl.pos, pl.playing)
  BY PlaylistParts
<1>2. CASE i \notin 0 .. n - 1
  BY <1>2 DEF Moved
<1>3. CASE i \in 0 .. n - 1
  <2>1. gone \in Seq(Files) /\ Len(gone) = n - 1 /\ pl.files[i + 1] \in Files
    <3> DEFINE s == pl.files
               k == i + 1
    <3> HIDE DEF s, k
    <3>1. s \in Seq(Files) /\ k \in 1 .. Len(s)
      BY <1>1, <1>3 DEF s, k
    <3>2. RemoveAt(s, k) \in Seq(Files) /\ Len(RemoveAt(s, k)) = Len(s) - 1 /\ s[k] \in Files
      BY <3>1, Removed
    <3>3. QED
      BY <3>2 DEF s, k
  <2> HIDE DEF gone
  <2>2. fs \in Seq(Files) /\ Len(fs) = n
    <3>1. i \in 1 .. Len(gone) + 1
      BY <1>1, <1>3, <2>1
    <3>2. Len(gone) + 1 = n
      BY <1>1, <2>1
    <3> DEFINE e == pl.files[i + 1]
    <3>3. e \in Files /\ fs = InsertAt(gone, i, e)
      BY <2>1
    <3> HIDE DEF e, fs
    <3>4. InsertAt(gone, i, e) \in Seq(Files) /\ Len(InsertAt(gone, i, e)) = Len(gone) + 1
      BY <2>1, <3>1, <3>3, Inserted, ZenonT(30)
    <3>5. QED
      BY <3>2, <3>3, <3>4
  <2> HIDE DEF fs
  <2>3. j \in Int /\ -1 <= j /\ j < n /\ (j = -1 => pl.pos = -1)
    BY <1>1, <1>3
  <2>4. Moved(pl, i, i - 1) = WithFilesPos(pl, fs, j)
    <3>1. ~(i < i - 1) /\ i # i - 1 /\ i - 1 + 1 = i
      OBVIOUS
    <3>2. QED
      BY <1>3, <3>1 DEF Moved, fs, gone, WithFilesPos
  <2>5. WithFilesPos(pl, fs, j) = AList(fs, j, pl.playing)
    BY <1>1, <2>2, <2>3, FilesPosChanged
  <2> HIDE DEF j
  <2>6. QED
    BY <1>1, <2>2, <2>3, <2>4, <2>5, PlaylistMade
<1>4. QED
  BY <1>2, <1>3

\* loadfile leaves a playlist; appended, the file comes last.
LEMMA LoadKeeps ==
  ASSUME NEW pl, IsPlaylist(pl), NEW flags, NEW f \in Files
  PROVE  /\ IsPlaylist(Load(pl, flags, f))
         /\ flags = "append" => /\ Load(pl, flags, f).files = Append(pl.files, f)
                                /\ Load(pl, flags, f).pos = pl.pos
<1>1. /\ pl.files \in Seq(Files) /\ Len(pl.files) \in Nat /\ pl.pos \in Int /\ -1 <= pl.pos
      /\ pl.pos < Len(pl.files)
      /\ pl.playing \in BOOLEAN /\ (pl.pos = -1 => ~pl.playing)
      /\ pl \in Lists /\ pl = AList(pl.files, pl.pos, pl.playing)
  BY PlaylistParts
<1>2. CASE flags = "append"
  <2> DEFINE fs == Append(pl.files, f)
  <2>1. fs \in Seq(Files) /\ Len(fs) = Len(pl.files) + 1
    BY <1>1
  <2>2. Load(pl, flags, f) = AList(fs, pl.pos, pl.playing)
    <3>1. Load(pl, flags, f) = WithFiles(pl, fs)
      BY <1>2 DEF Load, WithFiles
    <3>2. QED
      BY <1>1, <2>1, <3>1, FilesChanged
  <2> HIDE DEF fs
  <2>3. pl.pos < Len(fs)
    BY <1>1, <2>1
  <2>4. QED
    <3>1. IsPlaylist(AList(fs, pl.pos, pl.playing)) /\ AList(fs, pl.pos, pl.playing).files = fs
            /\ AList(fs, pl.pos, pl.playing).pos = pl.pos
      BY <1>1, <2>1, <2>3, PlaylistMade
    <3>2. QED
      BY <2>2, <3>1 DEF fs
<1>3. CASE flags # "append"
  <2>1. Load(pl, flags, f) = AList(<<f>>, 0, FALSE)
    BY <1>3 DEF Load, AList
  <2>2. <<f>> \in Seq(Files) /\ 0 < Len(<<f>>)
    OBVIOUS
  <2>3. QED
    <3> DEFINE fs == <<f>>
               i == 0
    <3>1. fs \in Seq(Files) /\ i \in Int /\ -1 <= i /\ i < Len(fs)
      BY <2>2
    <3> HIDE DEF fs, i
    <3>2. IsPlaylist(AList(fs, i, FALSE))
      BY <3>1, PlaylistStopped
    <3>3. QED
      BY <1>3, <2>1, <3>2 DEF fs, i
<1>4. QED
  BY <1>2, <1>3

\* Another order of the entries; the current one stays so.
LEMMA ShuffleKeeps ==
  ASSUME NEW pl, IsPlaylist(pl), NEW order \in Bijection(DOMAIN pl.files, DOMAIN pl.files)
  PROVE  IsPlaylist(Reordered(pl, order))
<1> DEFINE n == Len(pl.files)
           fs == [k \in 1 .. n |-> pl.files[order[k]]]
           to == CHOOSE k \in 1 .. n : order[k] = pl.pos + 1
           j  == IF pl.pos = -1 THEN -1 ELSE to - 1
<1>1. /\ pl.files \in Seq(Files) /\ n \in Nat /\ pl.pos \in Int /\ -1 <= pl.pos /\ pl.pos < n
      /\ pl.playing \in BOOLEAN /\ (pl.pos = -1 => ~pl.playing) /\ pl \in Lists
      /\ DOMAIN pl.files = 1 .. n
  BY PlaylistParts
<1>2. order \in [1 .. n -> 1 .. n] /\ \A m \in 1 .. n : \E k \in 1 .. n : order[k] = m
  BY <1>1 DEF Bijection, Injection, Surjection
<1>3. fs \in Seq(Files) /\ Len(fs) = n
  <2>1. \A k \in 1 .. n : order[k] \in 1 .. n
    BY <1>2
  <2>3. \A k \in 1 .. n : pl.files[k] \in Files
    BY <1>1
  <2>4. \A k \in 1 .. n : pl.files[order[k]] \in Files
    BY <2>1, <2>3
  <2>2. QED
    BY <1>1, <2>4
<1>4. pl.pos # -1 => to \in 1 .. n
  <2>1. pl.pos # -1 => pl.pos + 1 \in 1 .. n
    BY <1>1
  <2>2. QED
    BY <1>2, <2>1
<1>5. j \in Int /\ -1 <= j /\ j < n /\ (j = -1 => pl.pos = -1)
  <2> HIDE DEF to
  <2>1. QED
    BY <1>1, <1>4
<1> HIDE DEF fs, j
<1>6. WithFilesPos(pl, fs, j) = AList(fs, j, pl.playing)
  BY <1>1, <1>3, <1>5, FilesPosChanged
<1>7. IsPlaylist(AList(fs, j, pl.playing))
  BY <1>1, <1>3, <1>5, PlaylistMade
<1>8. QED
  BY <1>1, <1>6, <1>7 DEF Reordered, WithFilesPos, fs, j

\* The start of the current entry leaves a playlist.
LEMMA StartKeeps ==
  ASSUME NEW pl, IsPlaylist(pl), pl.pos # -1
  PROVE  /\ IsPlaylist([pl EXCEPT !.playing = TRUE])
         /\ [pl EXCEPT !.playing = TRUE].files = pl.files
         /\ [pl EXCEPT !.playing = TRUE].pos = pl.pos
<1> DEFINE on == TRUE
<1>1. /\ pl.files \in Seq(Files) /\ pl.pos \in Int /\ -1 <= pl.pos /\ pl.pos < Len(pl.files)
      /\ pl \in Lists /\ on \in BOOLEAN
  BY PlaylistParts
<1> HIDE DEF on
<1>2. WithPlaying(pl, on) = AList(pl.files, pl.pos, on)
  BY <1>1, PlayingChanged
<1>3. /\ IsPlaylist(AList(pl.files, pl.pos, on)) /\ AList(pl.files, pl.pos, on).files = pl.files
      /\ AList(pl.files, pl.pos, on).pos = pl.pos
  BY <1>1, PlaylistMade
<1>4. QED
  BY <1>2, <1>3 DEF on, WithPlaying

-----------------------------------------------------------------------------
(* The player.                                                              *)

\* What every command on its way is like: a command for an entry carries the index of
\* the file that was meant in the list that was shown.
Formed(c) ==
  /\ c.cmd # "playlist_move"
  /\ c.cmd \in EntryCommands =>
       c.p1 \in Nat /\ c.p1 + 1 \in DOMAIN c.shown /\ c.shown[c.p1 + 1] = c.meant

WithValue(m, p, v) == [m EXCEPT ![p] = v]

\* Setting a property of mpv changes this one only.
LEMMA SetKeeps ==
  ASSUME NEW m, IsFull(m), NEW p, NEW v, p # "playlist" \/ IsPlaylist(v)
  PROVE  /\ IsFull(WithValue(m, p, v)) /\ (p \in Props => WithValue(m, p, v)[p] = v)
         /\ \A q \in Props \ {p} : WithValue(m, p, v)[q] = m[q]
BY PlayerAssumption DEF IsFull, WithValue

\* Every command of the page leaves a playlist.
LEMMA PlaylistAfterKeeps ==
  ASSUME NEW j, Formed(j), NEW m, IsFull(m)
  PROVE  IsPlaylist(PlaylistAfter(j, m))
<1> DEFINE pl == m["playlist"]
<1>1. IsPlaylist(pl)
  BY DEF IsFull
<1>2. CASE j.cmd = "playlist_move_up"
  <2>1. j.p1 \in Nat
    BY <1>2 DEF Formed, EntryCommands
  <2>2. PlaylistAfter(j, m) = IF j.p1 > 0 THEN Moved(pl, j.p1, j.p1 - 1) ELSE pl
    BY <1>2 DEF PlaylistAfter
  <2>3. QED
    BY <1>1, <2>1, <2>2, MovedUpKeeps
<1>3. CASE j.cmd # "playlist_move_up"
  <2>1. j.cmd # "playlist_move"
    BY DEF Formed
  <2> HIDE DEF pl
  <2>2. \/ PlaylistAfter(j, m) = Neighbour(pl, 1)
        \/ PlaylistAfter(j, m) = Neighbour(pl, -1)
        \/ PlaylistAfter(j, m) = JumpTo(pl, j.p1)
        \/ PlaylistAfter(j, m) = Without(pl, j.p1)
        \/ PlaylistAfter(j, m) = pl
    BY <1>3, <2>1 DEF PlaylistAfter, pl
  <2>3. QED
    BY <1>1, <2>2, NeighbourKeeps, JumpKeeps, WithoutKeeps
<1>4. QED
  BY <1>2, <1>3

\* A command sets one property, and the playlist only to what PlaylistAfter says.
LEMMA EffectSets ==
  ASSUME NEW j, Formed(j), NEW m
  PROVE  \/ Effect(j, m) = WithValue(m, "playlist", PlaylistAfter(j, m))
         \/ \E p, v : p # "playlist" /\ Effect(j, m) = WithValue(m, p, v)
<1>1. CASE j.cmd \in {"play", "pause"}
  <2>1. /\ "pause" # "playlist"
        /\ j.cmd \notin DOMAIN Flag
        /\ j.cmd \notin DOMAIN Adds
        /\ j.cmd \notin DOMAIN Sets
        /\ j.cmd \notin DOMAIN Selects
        /\ j.cmd # "cycle"
        /\ j.cmd \notin {"increase_playback_speed", "reset_playback_speed", "playlist_prev"}
    BY <1>1 DEF Flag, Adds, Sets, Selects
  <2>2. Effect(j, m) = WithValue(m, "pause", j.cmd = "pause")
    BY <1>1, <2>1, Zenon DEF Effect, WithValue
  <2>3. QED
    BY <2>1, <2>2, Zenon
<1>2. CASE j.cmd \in DOMAIN Flag
  <2>1. /\ Flag[j.cmd] # "playlist"
        /\ j.cmd \notin {"play", "pause"}
        /\ j.cmd \notin DOMAIN Adds
        /\ j.cmd \notin DOMAIN Sets
        /\ j.cmd \notin DOMAIN Selects
        /\ j.cmd # "cycle"
        /\ j.cmd \notin {"increase_playback_speed", "reset_playback_speed", "playlist_prev"}
    BY <1>2 DEF Flag, Adds, Sets, Selects
  <2>2. Effect(j, m) = WithValue(m, Flag[j.cmd], ~j.read)
    BY <1>2, <2>1, Zenon DEF Effect, WithValue
  <2>3. QED
    BY <2>1, <2>2, Zenon
<1>3. CASE j.cmd \in DOMAIN Adds
  <2>1. /\ Adds[j.cmd] # "playlist"
        /\ j.cmd \notin {"play", "pause"}
        /\ j.cmd \notin DOMAIN Flag
        /\ j.cmd \notin DOMAIN Sets
        /\ j.cmd \notin DOMAIN Selects
        /\ j.cmd # "cycle"
        /\ j.cmd \notin {"increase_playback_speed", "reset_playback_speed", "playlist_prev"}
    BY <1>3 DEF Flag, Adds, Sets, Selects
  <2>2. Effect(j, m) = WithValue(m, Adds[j.cmd], Limit(m, Adds[j.cmd], m[Adds[j.cmd]] + j.p1))
    BY <1>3, <2>1, Zenon DEF Effect, WithValue
  <2>3. QED
    BY <2>1, <2>2, Zenon
<1>4. CASE j.cmd \in DOMAIN Sets
  <2>1. /\ Sets[j.cmd] # "playlist"
        /\ j.cmd \notin {"play", "pause"}
        /\ j.cmd \notin DOMAIN Flag
        /\ j.cmd \notin DOMAIN Adds
        /\ j.cmd \notin DOMAIN Selects
        /\ j.cmd # "cycle"
        /\ j.cmd \notin {"increase_playback_speed", "reset_playback_speed", "playlist_prev"}
    BY <1>4 DEF Flag, Adds, Sets, Selects
  <2>2. Effect(j, m) = WithValue(m, Sets[j.cmd], Limit(m, Sets[j.cmd], j.p1))
    BY <1>4, <2>1, Zenon DEF Effect, WithValue
  <2>3. QED
    BY <2>1, <2>2, Zenon
<1>5. CASE j.cmd \in DOMAIN Selects
  <2>1. /\ "track-list" # "playlist"
        /\ j.cmd \notin {"play", "pause"}
        /\ j.cmd \notin DOMAIN Flag
        /\ j.cmd \notin DOMAIN Adds
        /\ j.cmd \notin DOMAIN Sets
        /\ j.cmd # "cycle"
        /\ j.cmd \notin {"increase_playback_speed", "reset_playback_speed", "playlist_prev"}
    BY <1>5 DEF Flag, Adds, Sets, Selects
  <2>2. Effect(j, m) =
          WithValue(m, "track-list", [m["track-list"] EXCEPT ![Selects[j.cmd]] = j.p1])
    BY <1>5, <2>1, Zenon DEF Effect, WithValue
  <2>3. QED
    BY <2>1, <2>2, Zenon
<1>6. CASE j.cmd = "cycle"
  <2>1. /\ "track-list" # "playlist"
        /\ j.cmd \notin {"play", "pause"}
        /\ j.cmd \notin DOMAIN Flag
        /\ j.cmd \notin DOMAIN Adds
        /\ j.cmd \notin DOMAIN Sets
        /\ j.cmd \notin DOMAIN Selects
        /\ j.cmd \notin {"increase_playback_speed", "reset_playback_speed", "playlist_prev"}
    BY <1>6 DEF Flag, Adds, Sets, Selects
  <2>2. Effect(j, m) =
          WithValue(m, "track-list", [m["track-list"] EXCEPT ![j.p1] = Cycled(m["track-list"][j.p1])])
    BY <1>6, <2>1, Zenon DEF Effect, WithValue
  <2>3. QED
    BY <2>1, <2>2, Zenon
<1>7. CASE /\ j.cmd \notin {"play", "pause"} /\ j.cmd \notin DOMAIN Flag
           /\ j.cmd \notin DOMAIN Adds /\ j.cmd \notin DOMAIN Sets
           /\ j.cmd \notin DOMAIN Selects /\ j.cmd # "cycle"
  <2>1. \/ Effect(j, m) = WithValue(m, "speed", NewSpeed(j.read, j.p1))
        \/ Effect(j, m) = WithValue(m, "speed", 100)
        \/ Effect(j, m) = WithValue(m, "time-pos", Within(m["time-pos"] - j.read, 0, m["duration"]))
        \/ Effect(j, m) = WithValue(m, "playlist", PlaylistAfter(j, m))
    BY <1>7, Zenon DEF Effect, WithValue
  <2>2. "speed" # "playlist" /\ "time-pos" # "playlist"
    OBVIOUS
  <2>3. QED
    BY <2>1, <2>2, Zenon
<1>8. QED
  BY <1>1, <1>2, <1>3, <1>4, <1>5, <1>6, <1>7

\* Every command leaves mpv with all its properties and a playlist.
LEMMA EffectKeeps ==
  ASSUME NEW j, Formed(j), NEW m, IsFull(m)
  PROVE  IsFull(Effect(j, m))
BY PlaylistAfterKeeps, EffectSets, SetKeeps

-----------------------------------------------------------------------------
(* The player and the command it runs.                                      *)

JobParts == {"cmd", "p1", "p2", "shown", "meant", "step", "read", "idle", "touched"}

PlayerTypes ==
  /\ IsFull(mpv) /\ dirty \subseteq Props /\ bounds \in Bounds
  /\ Formed(job) /\ (job # NoJob => DOMAIN job = JobParts)
  /\ job.step = "load" => job.p2 \in Files

\* A file is being appended to the playlist of an idle player.
Appending ==
  job.cmd = "playlist_add" /\ job.p1 = "append" /\ job.idle /\ ~job.touched /\ job.step # "fail"

AppendedLast ==
  Appending =>
    /\ job.step \in {"load", "check_idle", "count", "jump", "unpause"}
    /\ job.step # "unpause" => Playlist.pos = -1
    /\ job.step # "load" => Playlist.files # <<>> /\ Last(Playlist.files) = job.p2
    /\ job.step = "jump" => job.read = Len(Playlist.files) - 1
    /\ job.step = "unpause" => Playlist.pos = Len(Playlist.files) - 1

PlayerInv == PlayerTypes /\ AppendedLast

\* mpv changes; what changed is dirty.
LEMMA Became ==
  ASSUME PlayerTypes, NEW m, IsFull(m), Become(m)
  PROVE  IsFull(mpv)' /\ dirty' \subseteq Props /\ mpv' = m
BY DEF PlayerTypes, Become

\* Without a command there is nothing to keep.
LEMMA NoJobTypes ==
  ASSUME job' = NoJob
  PROVE  /\ Formed(job)' /\ (job # NoJob => DOMAIN job = JobParts)'
         /\ (job.step = "load" => job.p2 \in Files)'
         /\ ~Appending'
<1>1. job'.cmd = "none" /\ job'.step = "none"
  BY DEF NoJob
<1>2. QED
  BY <1>1 DEF Formed, EntryCommands, Appending

\* A command that is well formed starts in order.
LEMMA StartTypes ==
  ASSUME PlayerInv, NEW c, Formed(c), Start(c), UNCHANGED <<mpv, bounds>>, dirty' \subseteq dirty
  PROVE  PlayerInv'
<1>1. /\ job'.cmd = c.cmd /\ job'.p1 = c.p1 /\ job'.p2 = c.p2 /\ job'.shown = c.shown
      /\ job'.meant = c.meant /\ job'.step = FirstStep(c)
      /\ DOMAIN job' = JobParts
  BY DEF Start, JobParts
<1>2. job'.idle => Playlist.pos = -1
  BY Zenon DEF Start
<1>3. FirstStep(c) = "load" => c.p2 \in Files
  <2>1. FirstStep(c) = "load" => Accepts(c) /\ c.cmd = "playlist_add"
    BY DEF FirstStep
  <2>2. QED
    BY <2>1 DEF Accepts
<1>4. c.cmd = "playlist_add" => FirstStep(c) \in {"load", "fail"}
  <2>1. SUFFICES ASSUME c.cmd = "playlist_add", Accepts(c) PROVE FirstStep(c) = "load"
    BY DEF FirstStep
  <2>2. c.cmd \notin DOMAIN Flag
    BY <2>1 DEF Flag
  <2>3. ReadBy(c.cmd) = {} /\ c.cmd # "playlist_shuffle"
    BY <2>1, <2>2, Zenon DEF ReadBy
  <2>4. QED
    BY <2>1, <2>3, Zenon DEF FirstStep
<1>5. PlayerTypes'
  BY <1>1, <1>3 DEF PlayerInv, PlayerTypes, Formed, IsFull
<1>6. AppendedLast'
  BY <1>1, <1>2, <1>4 DEF AppendedLast, Appending, Playlist
<1>7. QED
  BY <1>5, <1>6 DEF PlayerInv

\* A command that goes on to another step
LEMMA GoesOn ==
  ASSUME PlayerTypes, job # NoJob, NEW st, Goto(st)
  PROVE  /\ job'.step = st /\ job'.cmd = job.cmd /\ job'.p1 = job.p1 /\ job'.p2 = job.p2
         /\ job'.shown = job.shown /\ job'.meant = job.meant /\ job'.read = job.read
         /\ job'.idle = job.idle /\ job'.touched = job.touched /\ DOMAIN job' = JobParts
         /\ Formed(job)'
<1>1. /\ job'.step = st /\ job'.cmd = job.cmd /\ job'.p1 = job.p1 /\ job'.p2 = job.p2
      /\ job'.shown = job.shown /\ job'.meant = job.meant /\ job'.read = job.read
      /\ job'.idle = job.idle /\ job'.touched = job.touched /\ DOMAIN job' = JobParts
  BY DEF Goto, PlayerTypes, JobParts
<1>2. QED
  BY <1>1 DEF PlayerTypes, Formed

\* The last element is the one that was appended.
LEMMA LastAppended ==
  ASSUME NEW S, NEW s \in Seq(S), NEW e \in S
  PROVE  Append(s, e) # <<>> /\ Last(Append(s, e)) = e
<1> DEFINE t == Append(s, e)
<1>1. Len(t) = Len(s) + 1 /\ Len(s) \in Nat /\ t[Len(s) + 1] = e
  OBVIOUS
<1> HIDE DEF t
<1>2. t # <<>> /\ Last(t) = e
  BY <1>1 DEF Last
<1>3. QED
  BY <1>2 DEF t

\* mpv keeps the list, or the command is over or not the one that appends.
LEMMA NotAppending == ~Appending' => AppendedLast'
BY DEF AppendedLast

\* What mpv and the command do keeps the types of the player, and the file of a
\* command that appends to an idle player last.
LEMMA PlayerActs ==
  ASSUME PlayerInv, PlayerNext
  PROVE  PlayerInv'
<1> USE DEF PlayerInv
<1>0. IsFull(mpv) /\ IsPlaylist(Playlist) /\ "pause" # "playlist"
  BY DEF PlayerTypes, IsFull, Playlist
<1>1. CASE Fail
  <2>1. job' = NoJob /\ UNCHANGED <<mpv, dirty, bounds>>
    BY <1>1 DEF Fail, Release
  <2>2. QED
    BY <2>1, NoJobTypes, NotAppending DEF PlayerTypes, IsFull
<1>2. CASE Read
  <2>1. job.step = "read" /\ UNCHANGED <<mpv, dirty, bounds>>
    BY <1>2 DEF Read
  <2>2. PICK p \in ReadBy(job.cmd) : job' = [job EXCEPT !.read = mpv[p], !.step = "write"]
    BY <1>2 DEF Read
  <2>3. DOMAIN job = JobParts /\ Formed(job)
    BY <2>1 DEF PlayerTypes, NoJob
  <2>4. /\ job'.step = "write" /\ job'.cmd = job.cmd /\ job'.p1 = job.p1
        /\ job'.p2 = job.p2 /\ job'.shown = job.shown /\ job'.meant = job.meant
        /\ job'.idle = job.idle /\ job'.touched = job.touched /\ DOMAIN job' = JobParts
    BY <2>2, <2>3 DEF JobParts
  <2>5. ~Appending'
    BY <2>1, <2>4 DEF AppendedLast, Appending
  <2>6. QED
    BY <2>1, <2>3, <2>4, <2>5, NotAppending DEF PlayerTypes, Formed, IsFull
<1>3. CASE Write
  <2>1. IsFull(Effect(job, mpv)) /\ job' = NoJob /\ bounds' = bounds
    BY <1>0, <1>3, EffectKeeps DEF Write, Release, PlayerTypes
  <2>2. IsFull(mpv)' /\ dirty' \subseteq Props
    BY <1>3, <2>1, Became DEF Write
  <2>3. QED
    BY <2>1, <2>2, NoJobTypes, NotAppending DEF PlayerTypes
<1>4. CASE Shuffle
  <2>1. PICK order \in Bijection(DOMAIN Playlist.files, DOMAIN Playlist.files) :
          Become(WithValue(mpv, "playlist", Reordered(Playlist, order)))
    BY <1>4 DEF Shuffle, WithValue, Playlist
  <2> DEFINE pl == Reordered(Playlist, order)
  <2>2. IsPlaylist(pl)
    BY <1>0, ShuffleKeeps
  <2> HIDE DEF pl
  <2>3. IsFull(WithValue(mpv, "playlist", pl))
    BY <1>0, <2>2, SetKeeps
  <2>4. IsFull(mpv)' /\ dirty' \subseteq Props
    BY <2>1, <2>3, Became DEF pl
  <2>5. job' = NoJob /\ bounds' = bounds
    BY <1>4 DEF Shuffle, Release
  <2>6. QED
    BY <2>4, <2>5, NoJobTypes, NotAppending DEF PlayerTypes
<1>5. CASE LoadFile
  <2> DEFINE pl == Load(Playlist, job.p1, job.p2)
             st == IF job.p1 = "append" THEN "check_idle" ELSE "unpause"
  <2>1. /\ Become(WithValue(mpv, "playlist", pl)) /\ bounds' = bounds /\ Goto(st)
        /\ job.step = "load" /\ job.p2 \in Files /\ job # NoJob
    BY <1>5 DEF LoadFile, WithValue, Playlist, PlayerTypes, NoJob
  <2>2. /\ IsPlaylist(pl)
        /\ job.p1 = "append" => pl.files = Append(Playlist.files, job.p2) /\ pl.pos = Playlist.pos
    BY <1>0, <2>1, LoadKeeps
  <2> HIDE DEF pl
  <2>3. /\ IsFull(WithValue(mpv, "playlist", pl))
        /\ WithValue(mpv, "playlist", pl)["playlist"] = pl
    BY <1>0, <2>2, SetKeeps, PlayerAssumption
  <2>4. IsFull(mpv)' /\ dirty' \subseteq Props /\ Playlist' = pl
    BY <2>1, <2>3, Became DEF Playlist
  <2>5. /\ job'.step = st /\ job'.cmd = job.cmd /\ job'.p1 = job.p1 /\ job'.p2 = job.p2
        /\ job'.idle = job.idle /\ job'.touched = job.touched /\ DOMAIN job' = JobParts
        /\ Formed(job)'
    <3> HIDE DEF st
    <3>1. QED
      BY <2>1, GoesOn
  <2>6. PlayerTypes'
    BY <2>1, <2>4, <2>5 DEF PlayerTypes
  <2>7. AppendedLast'
    <3>1. SUFFICES ASSUME Appending' PROVE AppendedLast'
      BY NotAppending
    <3>2. Appending /\ Playlist.pos = -1 /\ job.p1 = "append"
      BY <2>1, <2>5, <3>1 DEF Appending, AppendedLast
    <3>3. Playlist.files \in Seq(Files)
      BY <1>0, PlaylistParts
    <3>4. Playlist'.files # <<>> /\ Last(Playlist'.files) = job.p2 /\ Playlist'.pos = -1
      BY <2>1, <2>2, <2>4, <3>2, <3>3, LastAppended
    <3>5. job'.step = "check_idle" /\ job'.p2 = job.p2
      BY <2>5, <3>2
    <3>6. QED
      BY <3>4, <3>5 DEF AppendedLast
  <2>8. QED
    BY <2>6, <2>7
<1>6. CASE CheckIdle
  <2>1. UNCHANGED <<mpv, dirty, bounds>> /\ job.step = "check_idle" /\ job # NoJob
    BY <1>6 DEF CheckIdle, NoJob
  <2>2. CASE Playlist.pos = -1
    <3>1. Goto("count")
      BY <1>6, <2>2 DEF CheckIdle
    <3>2. /\ job'.step = "count" /\ job'.cmd = job.cmd /\ job'.p1 = job.p1 /\ job'.p2 = job.p2
          /\ job'.idle = job.idle /\ job'.touched = job.touched /\ DOMAIN job' = JobParts
          /\ Formed(job)'
      BY <2>1, <3>1, GoesOn
    <3>3. QED
      BY <2>1, <2>2, <3>2 DEF PlayerTypes, AppendedLast, Appending, Playlist, IsFull
  <2>3. CASE Playlist.pos # -1
    <3>1. job' = NoJob
      BY <1>6, <2>3 DEF CheckIdle, Release
    <3>2. QED
      BY <2>1, <3>1, NoJobTypes, NotAppending DEF PlayerTypes, IsFull
  <2>4. QED
    BY <2>2, <2>3
<1>7. CASE Count
  <2>1. UNCHANGED <<mpv, dirty, bounds>> /\ job.step = "count" /\ job # NoJob
    BY <1>7 DEF Count, NoJob
  <2>2. CASE Playlist.files # <<>>
    <3>1. job' = [job EXCEPT !.read = Len(Playlist.files) - 1, !.step = "jump"]
      BY <1>7, <2>2 DEF Count
    <3>2. /\ job'.step = "jump" /\ job'.cmd = job.cmd /\ job'.p1 = job.p1 /\ job'.p2 = job.p2
          /\ job'.shown = job.shown /\ job'.meant = job.meant
          /\ job'.read = Len(Playlist.files) - 1
          /\ job'.idle = job.idle /\ job'.touched = job.touched /\ DOMAIN job' = JobParts
      BY <2>1, <3>1 DEF PlayerTypes, JobParts
    <3>3. QED
      BY <2>1, <2>2, <3>2 DEF PlayerTypes, AppendedLast, Appending, Playlist, IsFull, Formed
  <2>3. CASE Playlist.files = <<>>
    <3>1. job' = NoJob
      BY <1>7, <2>3 DEF Count, Release
    <3>2. QED
      BY <2>1, <3>1, NoJobTypes, NotAppending DEF PlayerTypes, IsFull
  <2>4. QED
    BY <2>2, <2>3
<1>8. CASE Jump
  <2> DEFINE pl == JumpTo(Playlist, job.read)
  <2>1. /\ Become(WithValue(mpv, "playlist", pl)) /\ bounds' = bounds /\ Goto("unpause")
        /\ job.step = "jump" /\ job # NoJob
    BY <1>8 DEF Jump, WithValue, Playlist, NoJob
  <2>2. /\ IsPlaylist(pl) /\ pl.files = Playlist.files
        /\ job.read \in 0 .. Len(Playlist.files) - 1 => pl.pos = job.read
    BY <1>0, JumpKeeps
  <2> HIDE DEF pl
  <2>3. /\ IsFull(WithValue(mpv, "playlist", pl))
        /\ WithValue(mpv, "playlist", pl)["playlist"] = pl
    BY <1>0, <2>2, SetKeeps, PlayerAssumption
  <2>4. IsFull(mpv)' /\ dirty' \subseteq Props /\ Playlist' = pl
    BY <2>1, <2>3, Became DEF Playlist
  <2>5. /\ job'.step = "unpause" /\ job'.cmd = job.cmd /\ job'.p1 = job.p1 /\ job'.p2 = job.p2
        /\ job'.idle = job.idle /\ job'.touched = job.touched /\ DOMAIN job' = JobParts
        /\ Formed(job)'
    BY <2>1, GoesOn
  <2>6. PlayerTypes'
    BY <2>1, <2>4, <2>5 DEF PlayerTypes
  <2>7. AppendedLast'
    <3>1. SUFFICES ASSUME Appending' PROVE AppendedLast'
      BY NotAppending
    <3>2. Appending
      BY <2>1, <2>5, <3>1 DEF Appending
    <3>3. /\ Playlist.files # <<>> /\ Last(Playlist.files) = job.p2
          /\ job.read = Len(Playlist.files) - 1
      BY <2>1, <3>2 DEF AppendedLast
    <3>4. Len(Playlist.files) - 1 \in 0 .. Len(Playlist.files) - 1
      <4>1. Playlist.files \in Seq(Files)
        BY <1>0, PlaylistParts
      <4>2. QED
        BY <3>3, <4>1
    <3>5. Playlist'.pos = Len(Playlist'.files) - 1 /\ Playlist'.files = Playlist.files
      BY <2>2, <2>4, <3>3, <3>4
    <3>6. QED
      BY <2>5, <3>3, <3>5 DEF AppendedLast
  <2>8. QED
    BY <2>6, <2>7
<1>9. CASE Unpause
  <2> DEFINE off == FALSE
  <2>1. Become(WithValue(mpv, "pause", off)) /\ job' = NoJob /\ bounds' = bounds
    BY <1>9 DEF Unpause, WithValue, Release
  <2> HIDE DEF off
  <2>2. IsFull(WithValue(mpv, "pause", off))
    BY <1>0, SetKeeps
  <2>3. IsFull(mpv)' /\ dirty' \subseteq Props
    BY <2>1, <2>2, Became
  <2>4. QED
    BY <2>1, <2>3, NoJobTypes, NotAppending DEF PlayerTypes
<1>10. CASE StartFile
  <2>1. PICK f \in Files :
          Become([Over(FileInfo[f], mpv) EXCEPT !["playlist"].playing = TRUE])
    <3>1. /\ Playlist.files \in Seq(Files) /\ Playlist.pos \in Int /\ -1 <= Playlist.pos
          /\ Playlist.pos < Len(Playlist.files) /\ Len(Playlist.files) \in Nat
      BY <1>0, PlaylistParts
    <3>2. Playlist.pos # -1
      BY <1>10 DEF StartFile
    <3>3. Playlist.pos + 1 \in 1 .. Len(Playlist.files)
      BY <3>1, <3>2
    <3>4. Playlist.files[Playlist.pos + 1] \in Files
      BY <3>1, <3>3
    <3>5. QED
      BY <1>10, <3>4, Zenon DEF StartFile
  <2> DEFINE m == Over(FileInfo[f], mpv)
             pl == [Playlist EXCEPT !.playing = TRUE]
  <2>2. IsFull(m) /\ m["playlist"] = Playlist
    <3>1. DOMAIN FileInfo[f] \subseteq Props /\ "playlist" \notin DOMAIN FileInfo[f]
      BY PlayerAssumption
    <3>2. DOMAIN m = Props
      BY <1>0, <3>1 DEF Over, IsFull
    <3>3. m["playlist"] = mpv["playlist"]
      BY <1>0, <3>1, PlayerAssumption DEF Over, IsFull
    <3>4. QED
      BY <1>0, <3>2, <3>3 DEF IsFull, Playlist
  <2>3. /\ Playlist.pos # -1 /\ IsPlaylist(pl) /\ pl.files = Playlist.files
        /\ pl.pos = Playlist.pos /\ UNCHANGED <<job, bounds>>
    BY <1>0, <1>10, StartKeeps DEF StartFile
  <2>4. Become(WithValue(m, "playlist", pl))
    BY <2>1, <2>2, Zenon DEF WithValue
  <2> HIDE DEF m, pl
  <2>5. IsFull(WithValue(m, "playlist", pl)) /\ WithValue(m, "playlist", pl)["playlist"] = pl
    BY <2>2, <2>3, SetKeeps, PlayerAssumption
  <2>6. IsFull(mpv)' /\ dirty' \subseteq Props /\ Playlist' = pl
    BY <2>4, <2>5, Became DEF Playlist
  <2>7. PlayerTypes'
    BY <2>3, <2>6 DEF PlayerTypes, Formed
  <2>8. AppendedLast'
    BY <2>3, <2>6 DEF AppendedLast, Appending
  <2>9. QED
    BY <2>7, <2>8
<1>11. ASSUME NEW ch \in bounds.alters, WindowChange(ch) PROVE PlayerInv'
  <2> DEFINE m == Over(ch, mpv)
  <2>1. IsFull(m)
    <3>1. IsStatus(ch)
      BY PlayerAssumption DEF PlayerTypes
    <3>2. DOMAIN m = Props
      BY <1>0, <3>1 DEF Over, IsFull, IsStatus
    <3>3. m["playlist"] = IF "playlist" \in DOMAIN ch THEN ch["playlist"] ELSE mpv["playlist"]
      BY <1>0, PlayerAssumption DEF Over, IsFull
    <3>4. QED
      BY <1>0, <3>1, <3>2, <3>3 DEF IsFull, IsStatus
  <2>2. Become(m) /\ bounds' = bounds
    BY <1>11 DEF WindowChange
  <2> HIDE DEF m
  <2>3. IsFull(mpv)' /\ dirty' \subseteq Props
    BY <2>1, <2>2, Became
  <2>4. CASE job = NoJob
    <3>1. job' = NoJob
      BY <1>11, <2>4 DEF WindowChange
    <3>2. QED
      BY <2>2, <2>3, <3>1, NoJobTypes, NotAppending DEF PlayerTypes
  <2>5. CASE job # NoJob
    <3> DEFINE on == TRUE
    <3>1. job' = [job EXCEPT !.touched = on] /\ on
      BY <1>11, <2>5 DEF WindowChange
    <3>2. DOMAIN job = JobParts
      BY <2>5 DEF PlayerTypes
    <3> HIDE DEF on
    <3>3. /\ job'.step = job.step /\ job'.cmd = job.cmd /\ job'.p1 = job.p1 /\ job'.p2 = job.p2
          /\ job'.shown = job.shown /\ job'.meant = job.meant
          /\ DOMAIN job' = JobParts /\ job'.touched = on
      BY <3>1, <3>2 DEF JobParts
    <3>4. job'.touched
      BY <3>1, <3>3, Zenon
    <3>5. ~Appending'
      BY <3>4 DEF Appending
    <3>6. QED
      BY <2>2, <2>3, <3>3, <3>5, NotAppending DEF PlayerTypes, Formed
  <2>6. QED
    BY <2>4, <2>5
<1>12. QED
  BY <1>1, <1>2, <1>3, <1>4, <1>5, <1>6, <1>7, <1>8, <1>9, <1>10, <1>11 DEF PlayerNext

-----------------------------------------------------------------------------
(* The websockets.                                                          *)

AllFormed(cs) == IsQueue(cs) /\ \A c \in ToSet(cs) : Formed(c)

Sock(s, w, u) == [state |-> s, wire |-> w, up |-> u]

IsMessage(m) ==
  /\ m.kind \in {"open", "status", "status_diff"}
  /\ m.kind = "status" => IsFull(m.values)
  /\ m.kind = "status_diff" => IsStatus(m.values)

IsSock(k) ==
  /\ k = Sock(k.state, k.wire, k.up) /\ k.state \in {"connecting", "open", "closed"}
  /\ IsQueue(k.wire) /\ \A m \in ToSet(k.wire) : IsMessage(m)
  /\ AllFormed(k.up)

AreSocks(ss) == IsQueue(ss) /\ \A i \in DOMAIN ss : IsSock(ss[i])

\* The socket at i becomes k.
SockSet(ss, i, k) == [ss EXCEPT ![i] = k]

\* The fields of a socket
LEMMA SockParts ==
  ASSUME NEW s, NEW w, NEW u
  PROVE  Sock(s, w, u).state = s /\ Sock(s, w, u).wire = w /\ Sock(s, w, u).up = u
BY DEF Sock

\* A socket with other commands, or other messages
LEMMA SockChanged ==
  ASSUME NEW k, k = Sock(k.state, k.wire, k.up), NEW e
  PROVE  /\ [k EXCEPT !.up = e] = Sock(k.state, k.wire, e)
         /\ [k EXCEPT !.wire = e] = Sock(k.state, e, k.up)
<1>1. \A s, w, u : [Sock(s, w, u) EXCEPT !.up = e] = Sock(s, w, e)
  BY DEF Sock
<1>2. \A s, w, u : [Sock(s, w, u) EXCEPT !.wire = e] = Sock(s, e, u)
  BY DEF Sock
<1> DEFINE st == k.state
           w == k.wire
           u == k.up
<1>3. k = Sock(st, w, u)
  OBVIOUS
<1> HIDE DEF st, w, u
<1>4. [Sock(st, w, u) EXCEPT !.up = e] = Sock(st, w, e)
  BY <1>1
<1>5. [Sock(st, w, u) EXCEPT !.wire = e] = Sock(st, e, u)
  BY <1>2
<1>6. [k EXCEPT !.up = e] = Sock(st, w, e) /\ [k EXCEPT !.wire = e] = Sock(st, e, u)
  BY <1>3, <1>4, <1>5
<1>7. QED
  BY <1>6 DEF st, w, u

\* A socket of its parts
LEMMA SockMade ==
  ASSUME NEW s \in {"connecting", "open", "closed"}, NEW w, IsQueue(w),
         \A m \in ToSet(w) : IsMessage(m), NEW u, AllFormed(u)
  PROVE  IsSock(Sock(s, w, u))
BY SockParts DEF IsSock

\* The sockets with another one at i
LEMMA SockReplaced ==
  ASSUME NEW ss, AreSocks(ss), NEW i \in DOMAIN ss, NEW k, IsSock(k)
  PROVE  /\ AreSocks(SockSet(ss, i, k)) /\ DOMAIN SockSet(ss, i, k) = DOMAIN ss
         /\ Len(SockSet(ss, i, k)) = Len(ss)
         /\ \A j \in DOMAIN ss : SockSet(ss, i, k)[j] = IF j = i THEN k ELSE ss[j]
<1>1. /\ IsQueue(SockSet(ss, i, k)) /\ DOMAIN SockSet(ss, i, k) = DOMAIN ss
      /\ Len(SockSet(ss, i, k)) = Len(ss)
      /\ \A j \in DOMAIN ss : SockSet(ss, i, k)[j] = IF j = i THEN k ELSE ss[j]
  BY QueueChanged DEF AreSocks, SockSet
<1>2. QED
  BY <1>1 DEF AreSocks

\* One command that is well formed
LEMMA FormedOne ==
  ASSUME NEW c, Formed(c)
  PROVE  AllFormed(<<c>>)
BY QueueOne DEF AllFormed

\* Two commands that are well formed
LEMMA FormedTwo ==
  ASSUME NEW c, Formed(c), NEW d, Formed(d)
  PROVE  AllFormed(<<c, d>>)
BY QueueTwo DEF AllFormed

\* Commands that are well formed, after others
LEMMA FormedJoined ==
  ASSUME NEW cs, AllFormed(cs), NEW ds, AllFormed(ds)
  PROVE  AllFormed(cs \o ds)
BY QueueJoined DEF AllFormed

\* The first of the commands, and the others
LEMMA FormedTaken ==
  ASSUME NEW cs, AllFormed(cs), cs # <<>>
  PROVE  Formed(Head(cs)) /\ AllFormed(Tail(cs))
BY QueueTaken DEF AllFormed

\* What sending does to the sockets.
LEMMA Sent ==
  ASSUME AreSocks(socks), ws \in 0 .. Len(socks), NEW cs, AllFormed(cs)
  PROVE  /\ AreSocks(Sends(cs)) /\ Len(Sends(cs)) = Len(socks) /\ DOMAIN Sends(cs) = DOMAIN socks
         /\ \/ Sends(cs) = socks
            \/ /\ ws # 0 /\ ws \in DOMAIN socks
               /\ Sends(cs) = SockSet(socks, ws,
                    Sock(socks[ws].state, socks[ws].wire, socks[ws].up \o cs))
<1>1. Len(socks) \in Nat /\ DOMAIN socks = 1 .. Len(socks) /\ IsQueue(socks)
  BY QueueParts DEF AreSocks
<1>2. CASE ~(ws # 0 /\ Opened(ws))
  <2>1. Sends(cs) = socks
    BY <1>2 DEF Sends
  <2>2. QED
    BY <2>1
<1>3. CASE ws # 0 /\ Opened(ws)
  <2>1. ws \in DOMAIN socks
    BY <1>1, <1>3
  <2> DEFINE k == Sock(socks[ws].state, socks[ws].wire, socks[ws].up \o cs)
  <2>2. IsSock(socks[ws])
    BY <2>1 DEF AreSocks
  <2>3. IsSock(k)
    BY <2>2, FormedJoined, SockMade DEF IsSock
  <2>4. Sends(cs) = SockSet(socks, ws, k)
    <3>1. Sends(cs) = SockSet(socks, ws, [socks[ws] EXCEPT !.up = @ \o cs])
      BY <1>3 DEF Sends, SockSet
    <3>2. [socks[ws] EXCEPT !.up = @ \o cs] = k
      BY <2>2, SockChanged DEF IsSock
    <3>3. QED
      BY <3>1, <3>2
  <2> HIDE DEF k
  <2>5. /\ AreSocks(SockSet(socks, ws, k)) /\ DOMAIN SockSet(socks, ws, k) = DOMAIN socks
        /\ Len(SockSet(socks, ws, k)) = Len(socks)
    BY <2>1, <2>3, SockReplaced
  <2>6. QED
    BY <1>3, <2>1, <2>4, <2>5 DEF k
<1>4. QED
  BY <1>2, <1>3

-----------------------------------------------------------------------------
(* The rows of the playlist and what they show.                             *)

Icon(pl, k, pause) ==
  IF ~(k - 1 = pl.pos /\ pl.playing) THEN "none" ELSE IF pause THEN "pause" ELSE "play"

Started(pl) == pl.pos = -1 \/ pl.playing

\* The rows of the playlist, in its order
RowsNamed(rs, pl) ==
  /\ rs \in Seq(RowRecords) /\ Len(rs) = Len(pl.files)
  /\ \A k \in 1 .. Len(pl.files) : rs[k].id = k - 1 /\ rs[k].name = pl.files[k]

\* The icon of the row k is right.
IconRight(rs, pl, pause, k) == rs[k].icon = Icon(pl, k, pause)

IconsRight(rs, pl, pause) == \A k \in 1 .. Len(pl.files) : IconRight(rs, pl, pause, k)

\* The row that createPlaylistTable makes of an entry of the playlist
LEMMA RowOf ==
  ASSUME NEW pl, IsPlaylist(pl), NEW k \in 1 .. Len(pl.files), NEW id \in Nat, NEW pause
  PROVE  /\ Row(Entries(pl)[k], id, pause) \in RowRecords
         /\ Row(Entries(pl)[k], id, pause).id = id
         /\ Row(Entries(pl)[k], id, pause).name = pl.files[k]
         /\ Row(Entries(pl)[k], id, pause).icon = Icon(pl, k, pause)
<1> DEFINE e == Entries(pl)[k]
<1>1. /\ e.name = pl.files[k] /\ pl.files[k] \in Files
      /\ e.playing = (k - 1 = pl.pos /\ pl.playing)
  BY EntriesAre
<1> HIDE DEF e
<1>2. /\ Row(e, id, pause).id = id /\ Row(e, id, pause).name = e.name
      /\ Row(e, id, pause).icon
           = IF ~e.playing THEN "none" ELSE IF pause THEN "pause" ELSE "play"
  BY DEF Row
<1>3. Row(e, id, pause) \in RowRecords
  BY <1>1, RowsAre
<1>4. Row(e, id, pause).icon = Icon(pl, k, pause)
  BY <1>1, <1>2 DEF Icon
<1>5. QED
  BY <1>1, <1>2, <1>3, <1>4 DEF e

\* populatePlaylist draws the rows of the playlist with the right icons.
LEMMA RowsPopulated ==
  ASSUME NEW pl, IsPlaylist(pl), NEW pause
  PROVE  RowsNamed(Populated(pl, pause), pl) /\ IconsRight(Populated(pl, pause), pl, pause)
<1> DEFINE rs == Populated(pl, pause)
<1>1. /\ Len(pl.files) \in Nat /\ rs = [k \in 1 .. Len(pl.files) |-> Row(Entries(pl)[k], k - 1, pause)]
  BY EntriesAre DEF Populated
<1>2. ASSUME NEW k \in 1 .. Len(pl.files)
      PROVE  /\ rs[k] \in RowRecords /\ rs[k].id = k - 1 /\ rs[k].name = pl.files[k]
             /\ rs[k].icon = Icon(pl, k, pause)
  <2> DEFINE id == k - 1
  <2>1. rs[k] = Row(Entries(pl)[k], id, pause) /\ id \in Nat
    BY <1>1
  <2> HIDE DEF id, rs
  <2>2. QED
    BY <2>1, RowOf DEF id
<1> HIDE DEF rs
<1>3. rs \in Seq(RowRecords) /\ Len(rs) = Len(pl.files)
  <2> DEFINE n == Len(pl.files)
  <2>1. n \in Nat /\ DOMAIN rs = 1 .. n /\ rs = [k \in DOMAIN rs |-> rs[k]]
    BY <1>1
  <2>2. \A k \in 1 .. n : rs[k] \in RowRecords
    BY <1>2
  <2> HIDE DEF n
  <2>3. rs \in Seq(RowRecords)
    BY <2>1, <2>2
  <2>4. Len(rs) = n
    BY <2>1, <2>3
  <2>5. QED
    BY <2>3, <2>4 DEF n
<1>4. QED
  BY <1>2, <1>3 DEF RowsNamed, IconsRight, IconRight, rs

\* updatePlaylist keeps the icons right, but for the row of the current entry when the
\* player was paused or went on meanwhile.
LEMMA PlaylistDrawn ==
  ASSUME NEW new, NEW old, IsPlaylist(new), IsPlaylist(old), RowsNamed(rows, old),
         NEW before, NEW pause
  PROVE  LET t == UpdatedPlaylist(new, old, pause) IN
         /\ ~t.failed /\ RowsNamed(t.rows, new)
         /\ IconsRight(rows, old, before) /\ Started(old) /\ Started(new) =>
              \A k \in 1 .. Len(new.files) :
                k - 1 # new.pos \/ pause = before => IconRight(t.rows, new, pause, k)
<1> DEFINE t == UpdatedPlaylist(new, old, pause)
<1>1. rows \in Seq(RowRecords) /\ Len(rows) = Len(old.files) /\ Len(old.files) \in Nat
  BY EntriesAre DEF RowsNamed
<1>2. /\ ~t.failed /\ t.rows \in Seq(RowRecords) /\ Len(t.rows) = Len(new.files)
      /\ \A k \in 1 .. Len(t.rows) :
           /\ t.rows[k].id = k - 1
           /\ Serves(Entries(new), Entries(old), rows, pause, t.rows[k], k)
  BY <1>1, PlaylistUpdated
<1> HIDE DEF t
<1>3. /\ Len(Entries(old)) = Len(old.files) /\ Len(new.files) \in Nat
      /\ \A k \in 1 .. Len(new.files) :
           /\ Entries(new)[k].name = new.files[k]
           /\ Entries(new)[k].current = (k - 1 = new.pos)
      /\ \A k \in 1 .. Len(old.files) :
           /\ Entries(old)[k].name = old.files[k]
           /\ Entries(old)[k].current = (k - 1 = old.pos)
  BY EntriesAre
<1>4. ASSUME NEW k \in 1 .. Len(new.files)
      PROVE  /\ t.rows[k].name = new.files[k]
             /\ IconsRight(rows, old, before) /\ Started(old) /\ Started(new)
                  /\ (k - 1 # new.pos \/ pause = before) => IconRight(t.rows, new, pause, k)
  <2>1. CASE /\ t.rows[k].name = Row(Entries(new)[k], 0, pause).name
             /\ t.rows[k].icon = Row(Entries(new)[k], 0, pause).icon
    <3> DEFINE z == 0
    <3>1. z \in Nat
      OBVIOUS
    <3> HIDE DEF z
    <3>2. /\ Row(Entries(new)[k], z, pause).name = new.files[k]
          /\ Row(Entries(new)[k], z, pause).icon = Icon(new, k, pause)
      BY <3>1, RowOf
    <3>3. QED
      BY <2>1, <3>2 DEF z, IconRight
  <2>2. ASSUME NEW l \in 1 .. Len(old.files), t.rows[k].name = rows[l].name,
               t.rows[k].icon = rows[l].icon, Alike(Entries(new)[k], Entries(old)[l])
        PROVE  /\ t.rows[k].name = new.files[k]
               /\ IconsRight(rows, old, before) /\ Started(old) /\ Started(new)
                    /\ (k - 1 # new.pos \/ pause = before) => IconRight(t.rows, new, pause, k)
    <3>1. old.files[l] = new.files[k] /\ (k - 1 = new.pos <=> l - 1 = old.pos)
      BY <1>3, <2>2 DEF Alike
    <3>2. rows[l].name = old.files[l]
      BY DEF RowsNamed
    <3>3. ASSUME IconsRight(rows, old, before), Started(old), Started(new),
                 k - 1 # new.pos \/ pause = before
          PROVE  IconRight(t.rows, new, pause, k)
      <4>1. t.rows[k].icon = Icon(old, l, before)
        BY <2>2, <3>3 DEF IconsRight, IconRight
      <4>2. Icon(old, l, before) = Icon(new, k, pause)
        <5>1. CASE k - 1 # new.pos
          BY <3>1, <5>1 DEF Icon
        <5>2. CASE k - 1 = new.pos /\ pause = before
          <6>1. new.pos # -1 /\ old.pos # -1 /\ l - 1 = old.pos
            BY <3>1, <5>2
          <6>2. new.playing /\ old.playing
            BY <3>3, <6>1 DEF Started
          <6>3. QED
            BY <5>2, <6>1, <6>2 DEF Icon
        <5>3. QED
          BY <3>3, <5>1, <5>2
      <4>3. QED
        BY <4>1, <4>2 DEF IconRight
    <3>4. QED
      BY <2>2, <3>1, <3>2, <3>3
  <2>3. QED
    BY <1>2, <1>3, <2>1, <2>2 DEF Serves
<1>5. QED
  BY <1>2, <1>4 DEF RowsNamed, t

\* The fields of a table whose handler did not fail
LEMMA TableParts ==
  ASSUME NEW rs
  PROVE  Table(rs, FALSE).rows = rs /\ ~Table(rs, FALSE).failed
<1> DEFINE off == FALSE
<1>1. ~off
  OBVIOUS
<1> HIDE DEF off
<1>2. Table(rs, off).rows = rs /\ Table(rs, off).failed = off
  BY DEF Table
<1>3. QED
  BY <1>1, <1>2, Zenon DEF off

\* The row of the current entry is made anew.
LEMMA PauseDrawn ==
  ASSUME NEW pl, IsPlaylist(pl), NEW rs, RowsNamed(rs, pl), NEW pause
  PROVE  LET u == PauseUpdated(rs, pl, pause) IN
         /\ ~u.failed /\ RowsNamed(u.rows, pl)
         /\ (\A k \in 1 .. Len(pl.files) : k - 1 # pl.pos => IconRight(rs, pl, pause, k)) =>
              IconsRight(u.rows, pl, pause)
<1> DEFINE u == PauseUpdated(rs, pl, pause)
<1>1. /\ pl.pos \in Int /\ -1 <= pl.pos /\ pl.pos < Len(pl.files) /\ Len(pl.files) \in Nat
  BY PlaylistParts
<1>2. rs \in Seq(RowRecords) /\ Len(rs) = Len(pl.files) /\ DOMAIN rs = 1 .. Len(pl.files)
  BY <1>1 DEF RowsNamed
<1>3. CASE pl.pos = -1
  <2>1. u = Table(rs, FALSE)
    BY <1>3 DEF PauseUpdated
  <2>2. ~u.failed /\ u.rows = rs
    BY <2>1, TableParts
  <2> HIDE DEF u
  <2>3. \A k \in 1 .. Len(pl.files) : k - 1 # pl.pos
    BY <1>1, <1>3
  <2>4. QED
    BY <2>2, <2>3 DEF IconsRight, u
<1>4. CASE pl.pos # -1
  <2> DEFINE p == pl.pos + 1
             id == pl.pos
             row == Row(Entries(pl)[p], id, pause)
             new == [rs EXCEPT ![p] = row]
  <2>1. p \in 1 .. Len(pl.files) /\ id \in Nat /\ p - 1 = id
    BY <1>1, <1>4
  <2>2. u = Table(new, FALSE)
    BY <1>2, <1>4, <2>1 DEF PauseUpdated
  <2>3. ~u.failed /\ u.rows = new
    BY <2>2, TableParts
  <2> HIDE DEF u, p, id
  <2>4. /\ row \in RowRecords /\ row.id = id /\ row.name = pl.files[p]
        /\ row.icon = Icon(pl, p, pause)
    BY <2>1, RowOf
  <2> HIDE DEF row
  <2>5. /\ new \in Seq(RowRecords) /\ Len(new) = Len(rs)
        /\ \A k \in 1 .. Len(pl.files) : new[k] = IF k = p THEN row ELSE rs[k]
    BY <1>2, <2>1, <2>4
  <2> HIDE DEF new
  <2>6. RowsNamed(new, pl)
    BY <1>2, <2>1, <2>4, <2>5 DEF RowsNamed
  <2>7. ASSUME \A k \in 1 .. Len(pl.files) : k - 1 # pl.pos => IconRight(rs, pl, pause, k)
        PROVE  IconsRight(new, pl, pause)
    <3>1. SUFFICES ASSUME NEW k \in 1 .. Len(pl.files) PROVE new[k].icon = Icon(pl, k, pause)
      BY DEF IconsRight, IconRight
    <3>2. CASE k = p
      BY <2>4, <2>5, <3>2
    <3>3. CASE k # p
      <4>1. k - 1 # pl.pos
        BY <1>1, <3>3 DEF p
      <4>2. QED
        BY <2>5, <2>7, <3>3, <4>1 DEF IconRight
    <3>4. QED
      BY <3>2, <3>3
  <2>8. QED
    BY <2>3, <2>6, <2>7 DEF u
<1>5. QED
  BY <1>3, <1>4

\* Values over all properties are all properties.
LEMMA OverFull ==
  ASSUME NEW d, IsStatus(d), NEW s, IsFull(s)
  PROVE  /\ IsFull(Over(d, s))
         /\ \A p \in Props : Over(d, s)[p] = IF p \in DOMAIN d THEN d[p] ELSE s[p]
<1> DEFINE m == Over(d, s)
<1>1. DOMAIN m = Props /\ \A p \in Props : m[p] = IF p \in DOMAIN d THEN d[p] ELSE s[p]
  BY DEF Over, IsFull, IsStatus
<1> HIDE DEF m
<1>2. IsPlaylist(m["playlist"])
  BY <1>1, PlayerAssumption DEF IsFull, IsStatus
<1>3. QED
  BY <1>1, <1>2 DEF IsFull, m

\* Values over others are values of properties.
LEMMA OverStatus ==
  ASSUME NEW d, IsStatus(d), NEW e, IsStatus(e)
  PROVE  /\ IsStatus(Over(d, e)) /\ DOMAIN Over(d, e) = DOMAIN d \cup DOMAIN e
         /\ \A p \in DOMAIN d \cup DOMAIN e : Over(d, e)[p] = IF p \in DOMAIN d THEN d[p] ELSE e[p]
<1> DEFINE m == Over(d, e)
<1>1. /\ DOMAIN m = DOMAIN d \cup DOMAIN e
      /\ \A p \in DOMAIN d \cup DOMAIN e : m[p] = IF p \in DOMAIN d THEN d[p] ELSE e[p]
  BY DEF Over
<1> HIDE DEF m
<1>2. IsStatus(m)
  BY <1>1 DEF IsStatus
<1>3. QED
  BY <1>1, <1>2 DEF m

Drawable(D) ==
  /\ IsStatus(D) /\ mpv_status # <<>> /\ IsFull(mpv_status)
  /\ RowsNamed(rows, mpv_status["playlist"])

\* The icons are right, and the current entry was started.
IconsShow(rs, s) == IconsRight(rs, s["playlist"], s["pause"]) /\ Started(s["playlist"])

\* After updatePlaylist the rows are those of the new playlist, with the right icons when
\* they were right before, but for the current one when mpv was paused or unpaused.
LEMMA TableDrawn ==
  ASSUME NEW D, Drawable(D), NEW s, s = Merged(D)
  PROVE  /\ IsFull(s) /\ ~TableAfter(D).failed /\ RowsNamed(TableAfter(D).rows, s["playlist"])
         /\ IconsShow(rows, mpv_status) /\ Started(s["playlist"]) =>
              \A k \in 1 .. Len(s["playlist"].files) :
                k - 1 # s["playlist"].pos \/ s["pause"] = mpv_status["pause"] =>
                  IconRight(TableAfter(D).rows, s["playlist"], s["pause"], k)
<1> DEFINE t == TableAfter(D)
           old == mpv_status["playlist"]
           new == s["playlist"]
           before == mpv_status["pause"]
           pause == s["pause"]
<1>1. IsFull(s) /\ \A p \in Props : s[p] = IF p \in DOMAIN D THEN D[p] ELSE mpv_status[p]
  BY OverFull DEF Drawable, Merged
<1>2. IsPlaylist(old) /\ IsPlaylist(new) /\ RowsNamed(rows, old)
  BY <1>1 DEF Drawable, IsFull
<1>3. CASE "playlist" \in DOMAIN D
  <2>1. t = UpdatedPlaylist(new, old, pause)
    BY <1>1, <1>3, PlayerAssumption DEF Drawable, TableAfter
  <2> HIDE DEF t, old, new, before, pause
  <2>2. /\ ~t.failed /\ RowsNamed(t.rows, new)
        /\ IconsRight(rows, old, before) /\ Started(old) /\ Started(new) =>
             \A k \in 1 .. Len(new.files) :
               k - 1 # new.pos \/ pause = before => IconRight(t.rows, new, pause, k)
    BY <1>2, <2>1, PlaylistDrawn
  <2>3. QED
    BY <1>1, <2>2 DEF t, old, new, before, pause, IconsShow
<1>4. CASE "playlist" \notin DOMAIN D
  <2>1. t = Table(rows, FALSE) /\ new = old
    BY <1>1, <1>4, PlayerAssumption DEF Drawable, TableAfter
  <2>2. ~t.failed /\ t.rows = rows
    BY <2>1, TableParts
  <2> HIDE DEF t, old, new, before, pause
  <2>3. ASSUME NEW k \in 1 .. Len(old.files), IconRight(rows, old, before, k),
               k - 1 # old.pos \/ pause = before
        PROVE  IconRight(rows, old, pause, k)
    BY <2>3 DEF IconRight, Icon
  <2>4. QED
    BY <1>1, <1>2, <2>1, <2>2, <2>3 DEF t, old, new, before, pause, IconsShow, IconsRight
<1>5. QED
  BY <1>3, <1>4

-----------------------------------------------------------------------------
(* What the page holds, and the commands it sends.                          *)

SockTypes == AreSocks(socks) /\ ws \in 0 .. Len(socks)

StatusTypes ==
  /\ IsFull(told) /\ IsStatus(updates)
  /\ IF mpv_status = <<>> THEN rows = <<>>
     ELSE IsFull(mpv_status) /\ RowsNamed(rows, mpv_status["playlist"])

MenuTypes ==
  /\ menu # Closed => \A cs \in menu[1] : AllFormed(cs)
  /\ held \in UsedMenus \cup {NoButton}
  /\ \A p \in running : presses[p].button \in UsedMenus
  /\ \A c \in http : Formed(c)

BlockStates == {"null", "false", "timeout"}

SwitchTypes ==
  /\ timer \in {"null", "runs", "cleared"} /\ block \in [Sliders -> BlockStates]
  /\ DOMAIN view = Widgets /\ DOMAIN moved = Sliders

CommandInv == PlayerInv /\ SockTypes /\ StatusTypes /\ MenuTypes /\ SwitchTypes

\* A command without an entry is well formed.
LEMMA CommandFormed ==
  ASSUME NEW c, NEW x, NEW y, c \notin EntryCommands \cup {"playlist_move", "cycle"}
  PROVE  Formed(Command(c, x, y)) /\ Command(c, x, y).cmd = c
BY DEF Formed, Command

\* A command at an entry that was shown is well formed.
LEMMA AimedFormed ==
  ASSUME NEW c \in EntryCommands, NEW i \in Nat, NEW files, i + 1 \in DOMAIN files
  PROVE  Formed(AimedCommand(c, i, files, files[i + 1]))
BY DEF Formed, AimedCommand, EntryCommands

\* Commands with a number
LEMMA NumberedFormed ==
  ASSUME NEW c, NEW xs, c \notin EntryCommands \cup {"playlist_move", "cycle"}
  PROVE  \A d \in Numbered(c, xs) : Formed(d)
<1> DEFINE z == 0
<1>1. \A x \in xs : Formed(Command(c, x, z))
  <2> HIDE DEF z
  <2>1. QED
    BY CommandFormed
<1>2. QED
  BY <1>1 DEF Numbered

\* Commands without parameters
LEMMA PlainFormed ==
  ASSUME NEW cs, \A c \in cs : c \notin EntryCommands \cup {"playlist_move", "cycle"}
  PROVE  \A d \in Plain(cs) : Formed(d)
<1> DEFINE z == 0
<1>1. \A c \in cs : Formed(Command(c, z, z))
  <2> HIDE DEF z
  <2>1. QED
    BY CommandFormed
<1>2. QED
  BY <1>1 DEF Plain

\* What the buttons and the keys send is well formed.
LEMMA ButtonsFormed == \A c \in ButtonCommands \cup KeyCommands : Formed(c)
<1>1. \A c \in Plain({"toggle_pause", "playlist_shuffle", "fullscreen", "reset_playback_speed"}) : Formed(c)
  BY PlainFormed DEF EntryCommands
<1>2. \A c \in Plain({"toggle_pause", "fullscreen", "playlist_next", "playlist_prev",
                      "reset_playback_speed", "toggle_mute"}) : Formed(c)
  BY PlainFormed DEF EntryCommands
<1>3. \A xs : /\ \A c \in Numbered("seek", xs) : Formed(c)
              /\ \A c \in Numbered("increase_playback_speed", xs) : Formed(c)
              /\ \A c \in Numbered("add_sub_delay", xs) : Formed(c)
              /\ \A c \in Numbered("add_audio_delay", xs) : Formed(c)
              /\ \A c \in Numbered("add_volume", xs) : Formed(c)
  BY NumberedFormed DEF EntryCommands
<1>4. QED
  BY <1>1, <1>2, <1>3 DEF ButtonCommands, ReleaseCommands, KeyCommands

\* What the buttons with a menu send is well formed.
LEMMA MenuButtonsFormed == \A b \in UsedMenus : Formed(MenuButtons[b])
<1>1. \A b \in DOMAIN MenuButtons : Formed(MenuButtons[b])
  BY DEF MenuButtons, Formed, Command, EntryCommands
<1>2. QED
  BY <1>1, ControlsAssumption

\* Commands, each sent alone
LEMMA AloneFormed ==
  ASSUME NEW cs, \A c \in cs : Formed(c)
  PROVE  \A s \in Alone(cs) : AllFormed(s)
BY FormedOne DEF Alone

\* A click on the icon of a row: play or pause, for the current entry, or a jump to it.
LEMMA PlayFormed == Formed(Play)
BY DEF Formed, Play, Command, EntryCommands

\* The entries of a menu that starts an entry of the playlist
LEMMA JumpsFormed ==
  ASSUME NEW pl, IsPlaylist(pl), NEW i \in 0 .. Len(pl.files) - 1
  PROVE  AllFormed(<<EntryCommand("playlist_jump", i, pl.files), Play>>)
<1> DEFINE c == "playlist_jump"
<1>1. Len(pl.files) \in Nat /\ DOMAIN pl.files = 1 .. Len(pl.files)
  BY EntriesAre
<1>2. i \in Nat /\ i + 1 \in DOMAIN pl.files
  BY <1>1
<1>3. c \in EntryCommands
  BY DEF EntryCommands
<1> HIDE DEF c
<1>4. Formed(AimedCommand(c, i, pl.files, pl.files[i + 1]))
  BY <1>2, <1>3, AimedFormed
<1>5. QED
  BY <1>4, FormedTwo, PlayFormed DEF EntryCommand, c

\* The entries of a menu send commands that are well formed: they name rows that are there.
LEMMA MenuFormed ==
  ASSUME NEW b \in UsedMenus, mpv_status # <<>> => IsFull(mpv_status)
  PROVE  \A cs \in MenuCommands(b) : AllFormed(cs)
<1> DEFINE pl == mpv_status["playlist"]
           Jumps(S) == {<<EntryCommand("playlist_jump", i, pl.files), Play>> : i \in S}
           Plays(S) == {<<c, Play>> : c \in S}
<1>1. \A xs : /\ \A c \in Numbered("seek", xs) : Formed(c)
              /\ \A c \in Numbered("set_chapter", xs) : Formed(c)
              /\ \A c \in Numbered("set_subtitle", xs) : Formed(c)
              /\ \A c \in Numbered("set_video", xs) : Formed(c)
  BY NumberedFormed DEF EntryCommands
<1>2. \A xs : /\ \A cs \in Alone(Numbered("seek", xs)) : AllFormed(cs)
              /\ \A cs \in Alone(Numbered("set_chapter", xs)) : AllFormed(cs)
              /\ \A cs \in Alone(Numbered("set_subtitle", xs)) : AllFormed(cs)
              /\ \A cs \in Alone(Numbered("set_video", xs)) : AllFormed(cs)
  BY <1>1, AloneFormed
<1>3. \A xs : \A cs \in Plays(Numbered("set_subtitle", xs)) : AllFormed(cs)
  BY <1>1, FormedTwo, PlayFormed
<1>4. CASE b \in {"seekBack1", "seekForward1"}
  <2> DEFINE xs == {-5, -30, -60, -180, -600, -1800, 10, 30, 60, 180, 600, 1800}
  <2>1. MenuCommands(b) = Alone(Numbered("seek", xs))
    BY <1>4, Zenon DEF MenuCommands
  <2> HIDE DEF xs
  <2>2. QED
    BY <1>2, <2>1
<1>5. CASE b \notin {"seekBack1", "seekForward1"} /\ mpv_status = <<>>
  <2>1. MenuCommands(b) = {}
    BY <1>5 DEF MenuCommands
  <2>2. QED
    BY <2>1
<1>6. CASE b \notin {"seekBack1", "seekForward1"} /\ mpv_status # <<>>
  <2>1. /\ IsPlaylist(pl) /\ pl.pos \in Int /\ -1 <= pl.pos /\ pl.pos < Len(pl.files)
        /\ Len(pl.files) \in Nat
    BY <1>6, PlaylistParts DEF IsFull
  <2>2. ASSUME NEW S, S \subseteq 0 .. Len(pl.files) - 1
        PROVE  \A cs \in Jumps(S) : AllFormed(cs)
    <3> HIDE DEF pl
    <3>1. \A i \in S : AllFormed(<<EntryCommand("playlist_jump", i, pl.files), Play>>)
      BY <2>1, <2>2, JumpsFormed
    <3>2. QED
      BY <3>1
  <2>3. /\ pl.pos + 1 .. Len(pl.files) - 1 \subseteq 0 .. Len(pl.files) - 1
        /\ 0 .. pl.pos \subseteq 0 .. Len(pl.files) - 1
    BY <2>1
  <2>4. b \in {"playlistPrev", "playlistNext", "chapterBack", "chapterForward", "cycleSub",
               "cycleAudio", "cycleVideo"}
    BY <1>6, ControlsAssumption DEF MenuButtons
  <2>5. CASE b = "playlistNext"
    <3>1. MenuCommands(b) = Jumps(pl.pos + 1 .. Len(pl.files) - 1)
      BY <1>6, <2>5 DEF MenuCommands
    <3>2. QED
      BY <2>2, <2>3, <3>1
  <2>6. CASE b = "playlistPrev"
    <3>1. MenuCommands(b) = Jumps(0 .. pl.pos)
      BY <1>6, <2>6 DEF MenuCommands
    <3>2. QED
      BY <2>2, <2>3, <3>1
  <2>7. CASE b = "chapterForward"
    <3>1. \E xs : MenuCommands(b) = Alone(Numbered("set_chapter", xs))
      BY <1>6, <2>7 DEF MenuCommands
    <3>2. QED
      BY <1>2, <3>1
  <2>8. CASE b = "chapterBack"
    <3>1. \E xs : MenuCommands(b) = Alone(Numbered("set_chapter", xs))
      BY <1>6, <2>8 DEF MenuCommands
    <3>2. QED
      BY <1>2, <3>1
  <2>9. CASE b = "cycleSub"
    <3>1. \E xs : MenuCommands(b) = Alone(Numbered("set_subtitle", xs))
      BY <1>6, <2>9 DEF MenuCommands
    <3>2. QED
      BY <1>2, <3>1
  <2>10. CASE b = "cycleAudio"
    <3>1. \E xs : MenuCommands(b) = Plays(Numbered("set_subtitle", xs))
      BY <1>6, <2>10 DEF MenuCommands
    <3>2. QED
      BY <1>3, <3>1
  <2>11. CASE b = "cycleVideo"
    <3>1. \E xs : MenuCommands(b) = Alone(Numbered("set_video", xs))
      BY <1>6, <2>11 DEF MenuCommands
    <3>2. QED
      BY <1>2, <3>1
  <2>12. QED
    BY <2>4, <2>5, <2>6, <2>7, <2>8, <2>9, <2>10, <2>11
<1>7. QED
  BY <1>4, <1>5, <1>6

\* What the rows of the playlist send is well formed: they name the entries they show.
LEMMA RowsFormed ==
  ASSUME StatusTypes, NEW r \in DOMAIN rows
  PROVE  \A cs \in RowCommands(r) : AllFormed(cs)
<1>1. mpv_status # <<>> /\ rows \in Seq(RowRecords) /\ rows[r].id = r - 1 /\ r - 1 \in Nat
  <2>1. mpv_status # <<>>
    BY DEF StatusTypes
  <2>2. RowsNamed(rows, mpv_status["playlist"])
    BY <2>1 DEF StatusTypes
  <2>3. rows \in Seq(RowRecords) /\ Len(rows) = Len(mpv_status["playlist"].files)
    BY <2>2 DEF RowsNamed
  <2>4. r \in 1 .. Len(rows) /\ Len(rows) \in Nat
    BY <2>3
  <2>5. QED
    BY <2>1, <2>2, <2>3, <2>4 DEF RowsNamed
<1> DEFINE files == [k \in DOMAIN rows |-> rows[k].name]
           i == r - 1
<1>2. i + 1 = r /\ i + 1 \in DOMAIN files /\ rows[r].name = files[i + 1] /\ i \in Nat
  BY <1>1
<1>3. \A c : RowCommand(c, r) = AimedCommand(c, i, files, files[i + 1])
  BY <1>1, <1>2 DEF RowCommand
<1> HIDE DEF files, i
<1>4. \A c \in EntryCommands : Formed(RowCommand(c, r))
  BY <1>2, <1>3, AimedFormed
<1>5. /\ Formed(RowCommand("playlist_jump", r)) /\ Formed(RowCommand("playlist_move_up", r))
      /\ Formed(RowCommand("playlist_remove", r))
  BY <1>4 DEF EntryCommands
<1>6. Formed(Command("toggle_pause", 0, 0))
  BY DEF Formed, Command, EntryCommands
<1>7. /\ AllFormed(<<RowCommand("playlist_jump", r), Play>>)
      /\ AllFormed(<<RowCommand("playlist_move_up", r)>>)
      /\ AllFormed(<<RowCommand("playlist_remove", r)>>) /\ AllFormed(<<Command("toggle_pause", 0, 0)>>)
  BY <1>5, <1>6, FormedOne, FormedTwo, PlayFormed
<1>8. QED
  BY <1>7 DEF RowCommands

\* cycleLoop sends commands that are well formed.
LEMMA LoopFormed == AllFormed(LoopCycle)
<1>1. \A x : Formed(Command("loop_file", x, 0)) /\ Formed(Command("loop_playlist", x, 0))
  BY DEF Formed, Command, EntryCommands
<1>2. \A x, y : AllFormed(<<Command("loop_file", x, 0), Command("loop_playlist", y, 0)>>)
  BY <1>1, FormedTwo
<1>3. AllFormed(<<>>)
  BY QueueEmpty DEF AllFormed
<1>4. LoopCycle = <<>> \/ \E x, y : LoopCycle = <<Command("loop_file", x, 0), Command("loop_playlist", y, 0)>>
  BY DEF LoopCycle
<1>5. QED
  BY <1>2, <1>3, <1>4

\* Commands leave, and nothing else changes on the page but the button that resets the
\* speed.
CommandsSent(cs) ==
  /\ AllFormed(cs) /\ socks' = Sends(cs)
  /\ UNCHANGED <<told, ws, mpv_status, rows, pending, updates, timer, pageHistory>>
  /\ \/ view' = view
     \/ /\ view' = [view EXCEPT !["speedReset"] = 100]
        /\ \E c : cs = <<c>> /\ c.cmd = "reset_playback_speed"

statusKept == <<told, socks, ws, mpv_status, view, rows, pending, updates, timer, pageHistory>>

\* send of the page
LEMMA SendIsSent ==
  ASSUME NEW cs, AllFormed(cs), Send(cs)
  PROVE  CommandsSent(cs)
BY DEF Send, CommandsSent, shownVars

\* A click on a button that sends one command
LEMMA ClickSends ==
  ASSUME NEW c \in UsedButtons \cap ButtonCommands, Click(c)
  PROVE  (\E cs : CommandsSent(cs)) \/ UNCHANGED statusKept
<1>1. CASE ClickSwallowed /\ UNCHANGED pageVars
  BY <1>1 DEF pageVars, socketVars, shownVars, statusKept
<1>2. CASE /\ socks' = Sends(<<c>>)
           /\ view' = IF c.cmd = "reset_playback_speed" THEN [view EXCEPT !["speedReset"] = 100] ELSE view
           /\ UNCHANGED <<told, ws, restart, mpv_status, rows, pending, updates, timer,
                          connected, hidden, block, switches, pageHistory>>
  <2>1. Formed(c)
    BY ButtonsFormed
  <2>2. AllFormed(<<c>>)
    BY <2>1, FormedOne
  <2>3. CommandsSent(<<c>>)
    BY <1>2, <2>2 DEF CommandsSent
  <2>4. QED
    BY <2>3
<1>3. QED
  BY <1>1, <1>2 DEF Click

Dragged == \E w \in Sliders : Drag(w)

\* What the user does on the page
LEMMA ControlsStep ==
  ASSUME StatusTypes, MenuTypes, ControlsNext
  PROVE  (\E cs : CommandsSent(cs)) \/ UNCHANGED statusKept \/ Dragged
<1> USE DEF pageVars, socketVars, shownVars, statusKept
<1>1. CASE ClickRow
  <2>1. PICK r \in DOMAIN rows : \E cs \in RowCommands(r) : Send(cs)
    BY <1>1 DEF ClickRow
  <2>2. QED
    BY <2>1, RowsFormed, SendIsSent
<1>2. CASE CycleLoop
  BY <1>2, LoopFormed, SendIsSent DEF CycleLoop
<1>3. CASE Key
  <2>1. PICK c \in UsedButtons \cap KeyCommands : Send(<<c>>)
    BY <1>3 DEF Key
  <2>2. AllFormed(<<c>>)
    BY ButtonsFormed, FormedOne
  <2>3. QED
    BY <2>1, <2>2, SendIsSent
<1>4. CASE ClickButton
  BY <1>4, ClickSends DEF ClickButton
<1>5. ASSUME NEW b \in UsedMenus, Down(b) \/ Up(b) \/ ReleaseOnto(b) PROVE UNCHANGED statusKept
  BY <1>5 DEF Down, Up, ReleaseOnto
<1>6. ASSUME NEW c \in UsedButtons \cap ReleaseCommands, UpOnSender(c)
      PROVE  (\E cs : CommandsSent(cs)) \/ UNCHANGED statusKept
  <2>1. c \in ButtonCommands
    BY DEF ButtonCommands
  <2>2. AllFormed(<<c>>)
    BY <2>1, ButtonsFormed, FormedOne
  <2>3. Send(<<c>>) \/ UNCHANGED pageVars
    BY <1>6 DEF UpOnSender
  <2>4. QED
    BY <2>2, <2>3, SendIsSent
<1>7. ASSUME NEW p \in running, LongPress(p)
      PROVE  (\E cs : CommandsSent(cs)) \/ UNCHANGED statusKept
  <2>1. CASE done = "false"
    BY <1>7, <2>1 DEF LongPress
  <2>2. CASE done # "false"
    <3>1. Formed(MenuButtons[presses[p].button])
      BY MenuButtonsFormed DEF MenuTypes
    <3>2. AllFormed(<<MenuButtons[presses[p].button]>>)
      BY <3>1, FormedOne
    <3>3. QED
      BY <1>7, <2>2, <3>2, SendIsSent DEF LongPress
  <2>3. QED
    BY <2>1, <2>2
<1>8. CASE Choose
  <2>1. menu # Closed /\ \E cs \in menu[1] : Send(cs)
    BY <1>8 DEF Choose
  <2>2. QED
    BY <2>1, SendIsSent DEF MenuTypes
<1>9. ASSUME NEW w \in Sliders, Drop(w)
      PROVE  (\E cs : CommandsSent(cs)) \/ UNCHANGED statusKept
  <2> DEFINE c == Command(SetBy[w], view[w], 0)
  <2>1. CASE UNCHANGED pageVars
    BY <2>1
  <2>2. CASE Dropped(w) /\ ~UNCHANGED pageVars
    <3>1. SetBy[w] \notin EntryCommands \cup {"playlist_move", "cycle"}
      BY DEF Sliders, SetBy, EntryCommands
    <3>2. Formed(c)
      BY <3>1, CommandFormed
    <3>3. socks' = Sends(<<c>>) /\ UNCHANGED <<told, ws, shownVars, pageHistory>>
      BY <2>2 DEF Dropped
    <3> HIDE DEF c
    <3>4. AllFormed(<<c>>)
      BY <3>2, FormedOne
    <3>5. CommandsSent(<<c>>)
      BY <3>3, <3>4 DEF CommandsSent
    <3>6. QED
      BY <3>5
  <2>3. QED
    BY <1>9, <2>1, <2>2 DEF Drop
<1>10. CASE UpBeside \/ CloseMenu
  BY <1>10 DEF UpBeside, CloseMenu
<1>11. ASSUME NEW w \in Sliders, Unblock(w) PROVE UNCHANGED statusKept
  BY <1>11 DEF Unblock
<1> HIDE DEF pageVars, socketVars, shownVars, statusKept
<1>12. QED
  BY <1>1, <1>2, <1>3, <1>4, <1>5, <1>6, <1>7, <1>8, <1>9, <1>10, <1>11, Zenon DEF ControlsNext, Dragged

\* What a step makes of the blocks of the sliders
LEMMA BlockStep ==
  ASSUME block \in [Sliders -> BlockStates], [Next]_vars
  PROVE  block' \in [Sliders -> BlockStates]
<1> USE DEF pageVars
<1>1. ASSUME NEW cs, Send(cs) PROVE block' = block
  BY <1>1 DEF Send
<1>2. ASSUME NEW c, Click(c) PROVE block' = block
  BY <1>2 DEF Click
<1>3. ASSUME ClickRow \/ Key \/ ClickButton \/ CycleLoop \/ Choose PROVE block' = block
  BY <1>1, <1>2, <1>3 DEF ClickRow, Key, ClickButton, CycleLoop, Choose
<1>4. ASSUME NEW b, Down(b) \/ Up(b) \/ ReleaseOnto(b) \/ UpOnSender(b) PROVE block' = block
  BY <1>1, <1>4 DEF Down, Up, ReleaseOnto, UpOnSender
<1>5. ASSUME NEW p, LongPress(p) PROVE block' = block
  BY <1>1, <1>5 DEF LongPress
<1>6. ASSUME UpBeside \/ CloseMenu PROVE block' = block
  BY <1>6 DEF UpBeside, CloseMenu
<1>7. ASSUME NEW w \in Sliders, Drag(w) \/ Drop(w) \/ Unblock(w)
      PROVE  block' = block \/ \E x \in BlockStates : block' = [block EXCEPT ![w] = x]
  <2>1. CASE Drag(w)
    BY <2>1 DEF Drag, BlockStates
  <2>2. CASE Unblock(w)
    BY <2>2 DEF Unblock, BlockStates
  <2>3. CASE Drop(w)
    <3> DEFINE x == IF block[w] = "false" THEN "timeout" ELSE block[w]
    <3>1. x \in BlockStates
      BY DEF BlockStates
    <3>2. block' = block \/ block' = [block EXCEPT ![w] = x]
      BY <2>3 DEF Drop, Dropped
    <3> HIDE DEF x
    <3>3. QED
      BY <3>1, <3>2
  <2>4. QED
    BY <1>7, <2>1, <2>2, <2>3
<1>8. ASSUME ControlsNext
      PROVE  block' = block \/ \E w \in Sliders, x \in BlockStates : block' = [block EXCEPT ![w] = x]
  BY <1>3, <1>4, <1>5, <1>6, <1>7, <1>8, Zenon DEF ControlsNext
<1>9. PageNext => block' = block
  BY DEF PageNext, Accept, Receive, Lose, SendDiff, Restart, TimerFires, HideTab, ShowTab
<1>10. block' = block \/ \E w \in Sliders, x \in BlockStates : block' = [block EXCEPT ![w] = x]
  BY <1>8, <1>9 DEF Next, vars, TakeCommand, TakeRequest
<1>11. QED
  BY <1>10

-----------------------------------------------------------------------------
\* The buttons of the presses
LEMMA ButtonsDisturbed ==
  ASSUME PressTypes
  PROVE  \A p \in DOMAIN presses : Disturbed[p].button = presses[p].button
<1>1. \A t \in PressRecords : \A x \in BOOLEAN : [t EXCEPT !.alone = x].button = t.button
  BY DEF PressRecords
<1>2. ASSUME NEW p \in DOMAIN presses PROVE Disturbed[p].button = presses[p].button
  <2> DEFINE x == presses[p].alone /\ p \notin running
  <2>1. Disturbed[p] = [presses[p] EXCEPT !.alone = x] /\ x \in BOOLEAN
    BY DisturbedIs
  <2>2. presses[p] \in PressRecords
    BY DEF PressTypes
  <2> HIDE DEF x
  <2>3. QED
    BY <1>1, <2>1, <2>2
<1>3. QED
  BY <1>2

LEMMA ButtonsPressed ==
  ASSUME PressTypes, NEW b \in UsedMenus \cup {NoButton}, NEW ok \in BOOLEAN,
         NEW ps, ps = Pressed(b, ok)
  PROVE  /\ ps[Len(presses) + 1].button = b
         /\ \A p \in DOMAIN presses : ps[p].button = presses[p].button
<1>1. /\ ps[Len(presses) + 1] = [button |-> b, fired |-> 0, alone |-> ok /\ running = {}]
      /\ \A p \in DOMAIN presses : ps[p] = Disturbed[p]
  BY PressAdded
<1>2. ps[Len(presses) + 1].button = b
  <2> DEFINE x == ok /\ running = {}
  <2>1. ps[Len(presses) + 1] = [button |-> b, fired |-> 0, alone |-> x]
    BY <1>1
  <2> HIDE DEF x
  <2>2. QED
    BY <2>1
<1>3. QED
  BY <1>1, <1>2, ButtonsDisturbed

\* A press that fires keeps its button, like the others.
LEMMA ButtonsFired ==
  ASSUME NEW ps \in Seq(PressRecords), NEW p \in DOMAIN ps
  PROVE  \A q \in DOMAIN ps : Fired(ps, p)[q].button = ps[q].button
<1>1. ps[p] \in PressRecords
  OBVIOUS
<1>2. \A t \in PressRecords : [t EXCEPT !.fired = @ + 1].button = t.button
  BY DEF PressRecords
<1>3. \A q \in DOMAIN ps : Fired(ps, p)[q] = IF q = p THEN [ps[p] EXCEPT !.fired = @ + 1] ELSE ps[q]
  BY DEF Fired
<1>4. QED
  BY <1>1, <1>2, <1>3

\* The menu that is open
LEMMA MenuStep ==
  ASSUME StatusTypes, MenuTypes, [Next]_vars
  PROVE  menu' # Closed => \A cs \in menu'[1] : AllFormed(cs)
<1>1. CASE menu' = menu
  BY <1>1 DEF MenuTypes
<1>2. CASE menu' = Closed
  BY <1>2
<1>3. ASSUME NEW b \in UsedMenus, menu' = <<MenuCommands(b)>>
      PROVE  \A cs \in menu'[1] : AllFormed(cs)
  <2>1. menu'[1] = MenuCommands(b)
    BY <1>3
  <2>2. mpv_status # <<>> => IsFull(mpv_status)
    BY DEF StatusTypes
  <2>3. QED
    BY <2>1, <2>2, MenuFormed
<1>4. \/ menu' = menu \/ menu' = Closed
      \/ \E b \in UsedMenus : menu' = <<MenuCommands(b)>>
  <2>1. ASSUME ControlsNext
        PROVE  \/ menu' = menu \/ menu' = Closed
               \/ \E b \in UsedMenus : menu' = <<MenuCommands(b)>>
    <3>1. ASSUME NEW b \in UsedMenus, Up(b) \/ ReleaseOnto(b)
          PROVE  menu' = menu \/ menu' = <<MenuCommands(b)>>
      BY <3>1 DEF Up, ReleaseOnto, MenuAfter
    <3>2. ASSUME NEW c, Click(c) \/ UpOnSender(c) PROVE menu' = menu
      BY <3>2 DEF Click, UpOnSender
    <3>3. ASSUME NEW p, LongPress(p) PROVE menu' = menu
      BY <3>3 DEF LongPress
    <3>4. ASSUME NEW b, Down(b) PROVE menu' = menu
      BY <3>4 DEF Down
    <3>5. ASSUME NEW w, Drag(w) \/ Drop(w) \/ Unblock(w) PROVE menu' = menu
      BY <3>5 DEF Drag, Drop, Unblock, controlVars, pressVars
    <3>6. ASSUME ClickRow \/ CycleLoop \/ Key \/ ClickButton \/ UpBeside \/ Choose \/ CloseMenu
          PROVE  menu' = menu \/ menu' = Closed
      BY <3>2, <3>6 DEF ClickRow, CycleLoop, Key, ClickButton, UpBeside, Choose, CloseMenu, pressVars
    <3>7. QED
      BY <2>1, <3>1, <3>2, <3>3, <3>4, <3>5, <3>6, Zenon DEF ControlsNext
  <2>2. SharesNext => menu' = menu
    BY DEF SharesNext, pressVars, controlVars, ToggleShares, ShowShares, PickShare, CycleShare,
       Refresh, ChangeDir, AddFile
  <2>3. QED
    BY <2>1, <2>2 DEF Next, vars, controlVars, pressVars, TakeCommand, TakeRequest
<1>5. QED
  BY <1>1, <1>2, <1>3, <1>4

\* The buttons of the presses whose timers run
LEMMA RunningStep ==
  ASSUME MenuTypes, PressInv, [Next]_vars
  PROVE  /\ held' \in UsedMenus \cup {NoButton}
         /\ \A p \in running' : presses'[p].button \in UsedMenus
<1> DEFINE n == Len(presses) + 1
<1>1. /\ PressTypes /\ presses \in Seq(PressRecords) /\ Len(presses) \in Nat
      /\ DOMAIN presses = 1 .. Len(presses) /\ running \subseteq DOMAIN presses /\ n \notin running
  BY DEF PressInv, PressTypes
<1>2. /\ held \in UsedMenus \cup {NoButton} /\ \A p \in running : presses[p].button \in UsedMenus
  BY DEF MenuTypes
<1>3. ASSUME Clicked
      PROVE  held' = held /\ \A p \in running' : presses'[p].button \in UsedMenus
  <2>0. held' = held
    BY <1>3 DEF Clicked
  <2>1. CASE ClickSwallowed
    <3> DEFINE y == FALSE
               ps == Pressed(NoButton, y)
    <3>1. running' = running /\ presses' = ps /\ y \in BOOLEAN
      BY <2>1 DEF ClickSwallowed, Swallowed
    <3>a. ps = Pressed(NoButton, y) /\ NoButton \in UsedMenus \cup {NoButton}
      OBVIOUS
    <3> HIDE DEF y, ps
    <3>2. /\ ps[Len(presses) + 1].button = NoButton
          /\ \A p \in DOMAIN presses : ps[p].button = presses[p].button
      BY <1>1, <3>1, <3>a, ButtonsPressed
    <3>3. QED
      BY <1>1, <1>2, <2>0, <3>1, <3>2
  <2>2. CASE ClickPassed
    <3> DEFINE y == TRUE
               ps == Pressed(NoButton, y)
    <3>1. running' = Abort /\ presses' = Fired(ps, n)
      BY <2>2 DEF ClickPassed, Passed
    <3>a. /\ ps = Pressed(NoButton, y) /\ NoButton \in UsedMenus \cup {NoButton}
          /\ y \in BOOLEAN /\ PressTypes
      BY <1>1
    <3> HIDE DEF y, ps
    <3>2. /\ ps[Len(presses) + 1].button = NoButton
          /\ \A p \in DOMAIN presses : ps[p].button = presses[p].button
      BY <3>a, ButtonsPressed
    <3>3. ps \in Seq(PressRecords) /\ DOMAIN ps = DOMAIN presses \cup {n}
      BY <3>a, PressParts
    <3> HIDE DEF n
    <3>4. \A q \in DOMAIN ps : Fired(ps, n)[q].button = ps[q].button
      BY <3>3, ButtonsFired
    <3>5. running' \subseteq running
      BY <1>1, <3>1, AbortTypes
    <3>6. QED
      BY <1>1, <1>2, <2>0, <3>1, <3>2, <3>3, <3>4, <3>5
  <2>3. QED
    BY <1>3, <2>1, <2>2 DEF Clicked
<1>4. ASSUME NEW b \in UsedMenus, Down(b)
      PROVE  held' = b /\ \A p \in running' : presses'[p].button \in UsedMenus
  <2> DEFINE y == TRUE
             ps == Pressed(b, y)
  <2>1. y \in BOOLEAN /\ held' = b /\ presses' = ps /\ running' = running \cup {n}
    BY <1>4 DEF Down
  <2> HIDE DEF y
  <2>2. /\ ps[n].button = b
        /\ \A p \in DOMAIN presses : ps[p].button = presses[p].button
    BY <1>1, <2>1, ButtonsPressed
  <2>3. QED
    BY <1>1, <1>2, <2>1, <2>2
<1>5. ASSUME Released
      PROVE  held' = NoButton /\ \A p \in running' : presses'[p].button \in UsedMenus
  <2> DEFINE m == Len(presses)
  <2>1. held' = NoButton
    BY <1>5 DEF Released
  <2>2. running' \subseteq running
    BY <1>1, <1>5, AbortTypes DEF Released, Swallowed, Passed
  <2>3. m \in DOMAIN presses
    BY <1>1, <1>5 DEF PressInv, HeldIsLast, Released
  <2>4. presses' = presses \/ presses' = Fired(presses, m)
    BY <1>5 DEF Released
  <2> HIDE DEF m
  <2>5. \A q \in DOMAIN presses : presses'[q].button = presses[q].button
    BY <1>1, <2>3, <2>4, ButtonsFired
  <2>6. QED
    BY <1>1, <1>2, <2>1, <2>2, <2>5
<1>6. ASSUME NEW p \in running, LongPress(p)
      PROVE  held' = held /\ \A q \in running' : presses'[q].button \in UsedMenus
  <2>1. held' = held /\ running' = running \ {p} /\ p \in DOMAIN presses
    BY <1>1, <1>6 DEF LongPress
  <2>2. presses' = presses \/ presses' = Fired(presses, p)
    BY <1>6 DEF LongPress
  <2>3. \A q \in DOMAIN presses : presses'[q].button = presses[q].button
    BY <1>1, <2>1, <2>2, ButtonsFired
  <2>4. QED
    BY <1>1, <1>2, <2>1, <2>3
<1>7. ASSUME Used
      PROVE  held' = held /\ \A q \in running' : presses'[q].button \in UsedMenus
  <2>1. held' = held /\ presses' = Disturbed
    BY <1>7 DEF Used
  <2>2. running' \subseteq running
    BY <1>1, <1>7, AbortTypes DEF Used, Swallowed, Passed
  <2>3. \A q \in DOMAIN presses : Disturbed[q].button = presses[q].button
    BY <1>1, ButtonsDisturbed
  <2>4. QED
    BY <1>1, <1>2, <2>1, <2>2, <2>3
<1>8. CASE UpBeside
  BY <1>2, <1>8 DEF UpBeside
<1>9. CASE UNCHANGED pressKept
  BY <1>2, <1>9 DEF pressKept
<1> HIDE DEF n
<1>10. QED
  BY <1>2, <1>3, <1>4, <1>5, <1>6, <1>7, <1>8, <1>9, PressStep

\* The requests for a file are well formed.
LEMMA RequestStep ==
  ASSUME MenuTypes, [Next]_vars
  PROVE  \A c \in http' : Formed(c)
<1>1. \A x, y : Formed(Command("playlist_add", x, y))
  BY DEF Formed, Command, EntryCommands
<1>2. ASSUME AddFile PROVE \A c \in http' : Formed(c)
  BY <1>1, <1>2 DEF AddFile, MenuTypes
<1>3. CASE http' \subseteq http
  BY <1>3 DEF MenuTypes
<1>4. SharesNext => http' = http \/ AddFile
  BY DEF SharesNext, sharesVars, ToggleShares, ToggledShares, ShowShares, PickShare, CycleShare,
     Refresh, ChangeDir, Answer, AnswerFails
<1>5. http' \subseteq http \/ AddFile
  BY <1>4 DEF Next, vars, sharesVars, TakeRequest, TakeCommand
<1>6. QED
  BY <1>2, <1>3, <1>5

\* The sockets after a change of the one at i
LEMMA SocksChanged ==
  ASSUME AreSocks(socks), NEW i \in DOMAIN socks, NEW k, IsSock(k), socks' = SockSet(socks, i, k)
  PROVE  /\ AreSocks(socks)' /\ Len(socks') = Len(socks) /\ DOMAIN socks' = DOMAIN socks
         /\ socks'[i] = k /\ \A j \in DOMAIN socks : j # i => socks'[j] = socks[j]
BY SockReplaced DEF AreSocks, IsSock

\* Every socket has a state, messages on their way to the page, and commands on their
\* way to the server.
LEMMA SocksAre ==
  ASSUME AreSocks(socks)
  PROVE  /\ Len(socks) \in Nat /\ DOMAIN socks = 1 .. Len(socks)
         /\ \A i \in DOMAIN socks :
              /\ IsSock(socks[i]) /\ IsQueue(socks[i].wire) /\ AllFormed(socks[i].up)
              /\ socks[i] = Sock(socks[i].state, socks[i].wire, socks[i].up)
              /\ \A m \in ToSet(socks[i].wire) : IsMessage(m)
              /\ socks[i].state \in {"connecting", "open", "closed"}
BY QueueParts DEF AreSocks, IsSock

News(values) == <<[kind |-> "open"], [kind |-> "status", values |-> values]>>

\* The messages a new client is sent first
LEMMA NewsAre ==
  ASSUME NEW s, IsFull(s)
  PROVE  /\ IsQueue(News(s)) /\ \A m \in ToSet(News(s)) : IsMessage(m)
         /\ Len(News(s)) = 2 /\ News(s)[1].kind = "open"
         /\ News(s)[2].kind = "status" /\ News(s)[2].values = s
<1> DEFINE e == [kind |-> "open"]
           f == [kind |-> "status", values |-> s]
<1>1. e.kind = "open" /\ f.kind = "status" /\ f.values = s
  OBVIOUS
<1> HIDE DEF e, f
<1>2. News(s) = <<e, f>>
  BY DEF News, e, f
<1>3. /\ IsQueue(<<e, f>>) /\ ToSet(<<e, f>>) = {e, f} /\ Len(<<e, f>>) = 2
      /\ <<e, f>>[1] = e /\ <<e, f>>[2] = f
  BY QueueTwo
<1>4. IsMessage(e) /\ IsMessage(f)
  BY <1>1 DEF IsMessage
<1>5. QED
  BY <1>1, <1>2, <1>3, <1>4

\* ws_status_start: the socket opens, and the status is on its way.
LEMMA Accepted ==
  ASSUME AreSocks(socks), IsFull(told), NEW i \in DOMAIN socks, Accept(i)
  PROVE  /\ AreSocks(socks)' /\ DOMAIN socks' = DOMAIN socks /\ Len(socks') = Len(socks)
         /\ socks[i].state = "connecting"
         /\ socks'[i] = Sock("open", News(told), socks[i].up)
         /\ \A j \in DOMAIN socks : j # i => socks'[j] = socks[j]
<1> DEFINE st == "open"
           k == Sock(st, News(told), socks[i].up)
<1>1. socks' = SockSet(socks, i, k) /\ socks[i].state = "connecting"
  BY Zenon DEF Accept, SockSet, Sock, News
<1>2. st \in {"connecting", "open", "closed"}
  OBVIOUS
<1> HIDE DEF st
<1>3. IsQueue(News(told)) /\ \A m \in ToSet(News(told)) : IsMessage(m)
  BY NewsAre
<1>4. IsSock(k)
  BY <1>2, <1>3, SocksAre, SockMade
<1> HIDE DEF k
<1>5. /\ AreSocks(socks)' /\ Len(socks') = Len(socks) /\ DOMAIN socks' = DOMAIN socks
      /\ socks'[i] = k /\ \A j \in DOMAIN socks : j # i => socks'[j] = socks[j]
  BY <1>1, <1>4, SocksChanged
<1>6. QED
  BY <1>1, <1>5 DEF k, st

\* A message is taken from the socket.
LEMMA MessageReceived ==
  ASSUME AreSocks(socks), NEW i \in DOMAIN socks, Receive(i)
  PROVE  /\ AreSocks(socks)' /\ DOMAIN socks' = DOMAIN socks /\ Len(socks') = Len(socks)
         /\ socks[i].wire # <<>>
         /\ socks'[i] = Sock(socks[i].state, Tail(socks[i].wire), socks[i].up)
         /\ IsMessage(Head(socks[i].wire))
         /\ \A j \in DOMAIN socks : j # i => socks'[j] = socks[j]
<1> DEFINE w == Tail(socks[i].wire)
           k == Sock(socks[i].state, w, socks[i].up)
<1>1. socks[i].wire # <<>>
  BY DEF Receive
<1>2. socks' = SockSet(socks, i, [socks[i] EXCEPT !.wire = w])
  BY DEF Receive, SockSet
<1>3. /\ IsQueue(w) /\ ToSet(w) \subseteq ToSet(socks[i].wire)
      /\ Head(socks[i].wire) \in ToSet(socks[i].wire)
  BY <1>1, SocksAre, QueueTaken
<1> HIDE DEF w
<1>4. [socks[i] EXCEPT !.wire = w] = k
  BY SocksAre, SockChanged
<1>5. IsMessage(Head(socks[i].wire)) /\ \A m \in ToSet(w) : IsMessage(m)
  BY <1>3, SocksAre
<1>6. IsSock(k)
  BY <1>3, <1>5, SocksAre, SockMade
<1>7. socks' = SockSet(socks, i, k)
  BY <1>2, <1>4
<1> HIDE DEF k
<1>8. /\ AreSocks(socks)' /\ Len(socks') = Len(socks) /\ DOMAIN socks' = DOMAIN socks
      /\ socks'[i] = k /\ \A j \in DOMAIN socks : j # i => socks'[j] = socks[j]
  BY <1>6, <1>7, SocksChanged
<1>9. QED
  BY <1>1, <1>5, <1>8 DEF k, w

\* The socket is closed; what was on its way is lost.
LEMMA Lost ==
  ASSUME AreSocks(socks), NEW i \in DOMAIN socks, NEW goingAway, Lose(i, goingAway)
  PROVE  /\ AreSocks(socks)' /\ DOMAIN socks' = DOMAIN socks /\ Len(socks') = Len(socks)
         /\ socks'[i] = Sock("closed", <<>>, <<>>)
         /\ \A j \in DOMAIN socks : j # i => socks'[j] = socks[j]
<1> DEFINE st == "closed"
           none == <<>>
           k == Sock(st, none, none)
<1>1. socks' = SockSet(socks, i, k)
  BY DEF Lose, SockSet, Sock
<1>2. st \in {"connecting", "open", "closed"} /\ IsQueue(none) /\ ToSet(none) = {}
  BY QueueEmpty
<1> HIDE DEF st, none
<1>3. AllFormed(none) /\ \A m \in ToSet(none) : IsMessage(m)
  BY <1>2 DEF AllFormed
<1>4. IsSock(k)
  BY <1>2, <1>3, SockMade
<1> HIDE DEF k
<1>5. /\ AreSocks(socks)' /\ Len(socks') = Len(socks) /\ DOMAIN socks' = DOMAIN socks
      /\ socks'[i] = k /\ \A j \in DOMAIN socks : j # i => socks'[j] = socks[j]
  BY <1>1, <1>4, SocksChanged
<1>6. QED
  BY <1>5 DEF k, st, none

\* status_init_ws makes one more socket.
LEMMA SocketMade ==
  ASSUME AreSocks(socks), InitWs
  PROVE  /\ AreSocks(socks)' /\ Len(socks') = Len(socks) + 1 /\ ws' = Len(socks')
         /\ DOMAIN socks' = DOMAIN socks \cup {ws'} /\ ws' \notin DOMAIN socks
         /\ socks'[ws'] = Sock("connecting", <<>>, <<>>)
         /\ \A j \in DOMAIN socks : socks'[j] = socks[j]
<1> DEFINE st == "connecting"
           none == <<>>
           k == Sock(st, none, none)
<1>1. socks' = Append(socks, k) /\ ws' = Len(socks) + 1
  BY DEF InitWs, NewSocket, Sock
<1>2. st \in {"connecting", "open", "closed"} /\ IsQueue(none) /\ ToSet(none) = {}
  BY QueueEmpty
<1> HIDE DEF st, none
<1>3. AllFormed(none) /\ \A m \in ToSet(none) : IsMessage(m)
  BY <1>2 DEF AllFormed
<1>4. IsSock(k)
  BY <1>2, <1>3, SockMade
<1> HIDE DEF k
<1>5. /\ IsQueue(socks') /\ Len(socks') = Len(socks) + 1 /\ socks'[Len(socks) + 1] = k
      /\ \A j \in 1 .. Len(socks) : socks'[j] = socks[j]
  BY <1>1, QueueAppended DEF AreSocks
<1>6. Len(socks) \in Nat /\ DOMAIN socks = 1 .. Len(socks) /\ DOMAIN socks' = 1 .. Len(socks) + 1
  BY <1>5, SocksAre, QueueParts
<1>7. DOMAIN socks' = DOMAIN socks \cup {ws'} /\ ws' \notin DOMAIN socks /\ socks'[ws'] = k
  BY <1>1, <1>5, <1>6
<1>8. AreSocks(socks)'
  BY <1>4, <1>5, <1>6, <1>7 DEF AreSocks
<1>9. QED
  BY <1>1, <1>5, <1>6, <1>7, <1>8 DEF k, st, none

\* A command that a thread of the server takes from a socket is well formed.
LEMMA Taken ==
  ASSUME AreSocks(socks), NEW i \in DOMAIN socks, TakeCommand(i)
  PROVE  /\ AreSocks(socks)' /\ DOMAIN socks' = DOMAIN socks /\ Len(socks') = Len(socks)
         /\ socks[i].up # <<>> /\ Formed(Head(socks[i].up))
         /\ socks'[i] = Sock(socks[i].state, socks[i].wire, Tail(socks[i].up))
         /\ \A j \in DOMAIN socks : j # i => socks'[j] = socks[j]
<1> DEFINE u == Tail(socks[i].up)
           k == Sock(socks[i].state, socks[i].wire, u)
<1>1. socks[i].up # <<>>
  BY DEF TakeCommand
<1>2. socks' = SockSet(socks, i, [socks[i] EXCEPT !.up = u])
  BY DEF TakeCommand, SockSet
<1>3. Formed(Head(socks[i].up)) /\ AllFormed(u)
  BY <1>1, SocksAre, FormedTaken
<1> HIDE DEF u
<1>4. [socks[i] EXCEPT !.up = u] = k
  BY SocksAre, SockChanged
<1>5. IsSock(k)
  BY <1>3, SocksAre, SockMade
<1>6. socks' = SockSet(socks, i, k)
  BY <1>2, <1>4
<1> HIDE DEF k
<1>7. /\ AreSocks(socks)' /\ Len(socks') = Len(socks) /\ DOMAIN socks' = DOMAIN socks
      /\ socks'[i] = k /\ \A j \in DOMAIN socks : j # i => socks'[j] = socks[j]
  BY <1>5, <1>6, SocksChanged
<1>8. QED
  BY <1>1, <1>3, <1>7 DEF k, u

DiffMessage(D) == [kind |-> "status_diff", values |-> [p \in D |-> mpv[p]]]

\* The message of an update holds the values of mpv.
LEMMA DiffIs ==
  ASSUME IsFull(mpv), NEW D, D \subseteq Props
  PROVE  /\ IsMessage(DiffMessage(D)) /\ DiffMessage(D).kind = "status_diff"
         /\ DOMAIN DiffMessage(D).values = D
         /\ \A p \in D : DiffMessage(D).values[p] = mpv[p]
<1> DEFINE v == [p \in D |-> mpv[p]]
           d == DiffMessage(D)
<1>1. DOMAIN v = D /\ \A p \in D : v[p] = mpv[p]
  OBVIOUS
<1> HIDE DEF v
<1>2. IsStatus(v)
  BY <1>1 DEF IsStatus, IsFull
<1>3. d.kind = "status_diff" /\ d.values = v
  BY DEF DiffMessage, v
<1> HIDE DEF d
<1>4. IsMessage(d)
  BY <1>2, <1>3 DEF IsMessage
<1>5. QED
  BY <1>1, <1>3, <1>4 DEF d

\* status_send_update: the update is on its way on each open socket, and the server holds
\* what it sent.
LEMMA DiffSent ==
  ASSUME AreSocks(socks), IsFull(mpv), IsFull(told), dirty \subseteq Props, NEW D, SendDiff(D)
  PROVE  /\ AreSocks(socks)' /\ DOMAIN socks' = DOMAIN socks /\ Len(socks') = Len(socks)
         /\ \A i \in DOMAIN socks :
              /\ socks[i].state # "open" => socks'[i] = socks[i]
              /\ socks[i].state = "open" =>
                   socks'[i] = Sock("open", Append(socks[i].wire, DiffMessage(D)), socks[i].up)
         /\ IsFull(told)' /\ D \subseteq dirty /\ D \subseteq Props
         /\ \A p \in Props : told'[p] = IF p \in D THEN mpv[p] ELSE told[p]
<1> DEFINE d == DiffMessage(D)
           K(i) == IF socks[i].state = "open" THEN [socks[i] EXCEPT !.wire = Append(@, d)] ELSE socks[i]
<1>1. /\ D \subseteq dirty /\ D \subseteq Props
      /\ socks' = [i \in DOMAIN socks |-> K(i)]
      /\ told' = [p \in Props |-> IF p \in D THEN mpv[p] ELSE told[p]]
  BY DEF SendDiff, DiffMessage
<1>2. IsMessage(d)
  BY <1>1, DiffIs
<1> HIDE DEF d
<1>3. ASSUME NEW i \in DOMAIN socks
      PROVE  /\ IsSock(K(i)) /\ (socks[i].state # "open" => K(i) = socks[i])
             /\ socks[i].state = "open" => K(i) = Sock("open", Append(socks[i].wire, d), socks[i].up)
  <2> DEFINE w == Append(socks[i].wire, d)
             st == "open"
  <2>1. IsQueue(w) /\ ToSet(w) = ToSet(socks[i].wire) \cup {d}
    BY SocksAre, QueueAppended
  <2>2. \A m \in ToSet(w) : IsMessage(m)
    BY <1>2, <2>1, SocksAre
  <2>3. [socks[i] EXCEPT !.wire = w] = Sock(socks[i].state, w, socks[i].up)
    <3> HIDE DEF w
    <3>1. QED
      BY SocksAre, SockChanged
  <2>4. CASE socks[i].state = "open"
    <3>1. K(i) = Sock(st, w, socks[i].up) /\ st \in {"connecting", "open", "closed"}
      BY <2>3, <2>4
    <3> HIDE DEF w, st
    <3>2. IsSock(Sock(st, w, socks[i].up))
      BY <2>1, <2>2, <3>1, SocksAre, SockMade
    <3>3. QED
      BY <2>4, <3>1, <3>2 DEF w, st
  <2>5. CASE socks[i].state # "open"
    BY <2>5, SocksAre
  <2>6. QED
    BY <2>4, <2>5
<1> HIDE DEF K
<1>4. IsQueue(socks') /\ DOMAIN socks' = DOMAIN socks /\ Len(socks') = Len(socks)
  <2>1. IsQueue(socks) /\ socks' = [i \in DOMAIN socks |-> socks'[i]]
    BY <1>1 DEF AreSocks
  <2>2. QED
    BY <2>1, QueueMapped
<1>5. \A i \in DOMAIN socks : socks'[i] = K(i)
  BY <1>1
<1>6. AreSocks(socks)'
  BY <1>3, <1>4, <1>5 DEF AreSocks
<1>7. IsFull(told)' /\ \A p \in Props : told'[p] = IF p \in D THEN mpv[p] ELSE told[p]
  <2>1. DOMAIN told' = Props /\ \A p \in Props : told'[p] = IF p \in D THEN mpv[p] ELSE told[p]
    BY <1>1
  <2>2. IsPlaylist(told'["playlist"])
    BY <2>1, PlayerAssumption DEF IsFull
  <2>3. QED
    BY <2>1, <2>2 DEF IsFull
<1>8. QED
  BY <1>1, <1>3, <1>4, <1>5, <1>6, <1>7 DEF d

-----------------------------------------------------------------------------
\* What a step does to the status and the sockets.
LEMMA StatusStep ==
  ASSUME StatusTypes, MenuTypes, [Next]_vars
  PROVE  \/ UNCHANGED statusKept
         \/ \E cs : CommandsSent(cs)
         \/ Dragged
         \/ \E i \in DOMAIN socks : TakeCommand(i)
         \/ \E i \in DOMAIN socks : Accept(i) \/ Receive(i) \/ Lose(i, TRUE) \/ Lose(i, FALSE)
         \/ \E D \in SUBSET dirty : SendDiff(D) /\ mpv' = mpv /\ job' = job
         \/ InitWs /\ UNCHANGED <<told, shownVars, pageHistory>>
         \/ ShowUpdates(updates) /\ UNCHANGED socketVars
<1> USE DEF statusKept, shownVars, socketVars, pageVars
<1>1. CASE PageNext
  BY <1>1 DEF PageNext, Restart, TimerFires, HideTab, ShowTab
<1>2. CASE ControlsNext
  BY <1>2, ControlsStep
<1>3. QED
  BY <1>1, <1>2 DEF Next, vars, TakeRequest

RedrawnFor(D) == {w \in Widgets : Triggers[w] \cap DOMAIN D # {}}

\* What handleStatusUpdate makes of the page
LEMMA UpdatesShown ==
  ASSUME StatusTypes, ShowUpdates(updates), mpv_status # <<>>, NEW s, s = Merged(updates)
  PROVE  /\ IsFull(s) /\ mpv_status' = s /\ updates' = <<>> /\ pending' = FALSE
         /\ timer' = "null" /\ overtaken' = overtaken
         /\ RowsNamed(rows', s["playlist"])
         /\ IconsShow(rows, mpv_status) /\ Started(s["playlist"]) => IconsShow(rows', s)
         /\ view' = Redrawn(RedrawnFor(updates), s)
         /\ moved' = [w \in Sliders |-> IF w \in RedrawnFor(updates) THEN Blocked(w) ELSE moved[w]]
         /\ ~apart' => ~apart /\ ("playlist" \in DOMAIN updates => Started(s["playlist"]))
<1> DEFINE t == TableAfter(updates)
           u == IF t.failed \/ "pause" \notin DOMAIN updates \/ s["pause"] = mpv_status["pause"]
                THEN t ELSE PauseUpdated(t.rows, s["playlist"], s["pause"])
           pl == s["playlist"]
           pause == s["pause"]
<1>1. Drawable(updates)
  BY DEF Drawable, StatusTypes
<1>2. /\ IsFull(s) /\ ~t.failed /\ RowsNamed(t.rows, pl)
      /\ IconsShow(rows, mpv_status) /\ Started(pl) =>
           \A k \in 1 .. Len(pl.files) :
             k - 1 # pl.pos \/ pause = mpv_status["pause"] => IconRight(t.rows, pl, pause, k)
  BY <1>1, TableDrawn
<1>3. IsPlaylist(pl)
  BY <1>2 DEF IsFull
<1>4. "pause" \notin DOMAIN updates => pause = mpv_status["pause"]
  <2>1. \A p \in Props : Merged(updates)[p] = IF p \in DOMAIN updates THEN updates[p] ELSE mpv_status[p]
    BY <1>1, OverFull DEF Drawable, Merged
  <2>2. QED
    BY <2>1, PlayerAssumption
<1>5. /\ mpv_status' = IF u.failed THEN mpv_status ELSE s
      /\ rows' = u.rows
      /\ updates' = <<>> /\ pending' = FALSE /\ timer' = "null" /\ overtaken' = overtaken
      /\ moved' = [w \in Sliders |-> IF w \in RedrawnFor(updates) THEN Blocked(w) ELSE moved[w]]
  BY DEF ShowUpdates, RedrawnFor
<1>6. view' = Redrawn(RedrawnFor(updates), s)
  <2>1. view' = Redrawn(IF t.failed THEN RedrawnFor(updates) \ {"playPause"} ELSE RedrawnFor(updates), s)
    BY DEF ShowUpdates, RedrawnFor
  <2> HIDE DEF t
  <2>2. QED
    BY <1>2, <2>1
<1>7. ~apart' => ~apart /\ ("playlist" \in DOMAIN updates => Started(pl))
  <2>1. apart' = IF t.failed \/ "playlist" \notin DOMAIN updates THEN apart
                 ELSE apart \/ (pl.pos # -1 /\ ~pl.playing)
    BY DEF ShowUpdates
  <2> HIDE DEF t, pl
  <2>2. QED
    BY <1>2, <2>1 DEF Started
<1> HIDE DEF t, pl, pause
<1>8. /\ ~u.failed /\ RowsNamed(u.rows, pl)
      /\ IconsShow(rows, mpv_status) /\ Started(pl) => IconsRight(u.rows, pl, pause)
  <2>1. CASE pause = mpv_status["pause"]
    <3>1. u = t
      BY <2>1 DEF pause
    <3>2. QED
      BY <1>2, <2>1, <3>1 DEF IconsRight
  <2>2. CASE pause # mpv_status["pause"]
    <3>1. u = PauseUpdated(t.rows, pl, pause)
      BY <1>2, <1>4, <2>2 DEF pause, pl
    <3> HIDE DEF u
    <3> DEFINE rs == t.rows
    <3>2. RowsNamed(rs, pl) /\ u = PauseUpdated(rs, pl, pause)
      BY <1>2, <3>1
    <3>3. IconsShow(rows, mpv_status) /\ Started(pl) =>
            \A k \in 1 .. Len(pl.files) : k - 1 # pl.pos => IconRight(rs, pl, pause, k)
      BY <1>2
    <3> HIDE DEF rs
    <3>4. /\ ~u.failed /\ RowsNamed(u.rows, pl)
          /\ (\A k \in 1 .. Len(pl.files) : k - 1 # pl.pos => IconRight(rs, pl, pause, k)) =>
               IconsRight(u.rows, pl, pause)
      BY <1>3, <3>2, PauseDrawn
    <3>5. QED
      BY <3>3, <3>4
  <2>3. QED
    BY <2>1, <2>2
<1> HIDE DEF u
<1>9. mpv_status' = s /\ RowsNamed(rows', pl)
  BY <1>5, <1>8
<1>10. IconsShow(rows, mpv_status) /\ Started(pl) => IconsShow(rows', s)
  BY <1>5, <1>8 DEF IconsShow, pl, pause
<1>11. QED
  BY <1>2, <1>5, <1>6, <1>7, <1>9, <1>10 DEF pl

\* Before the first status the updates are dropped.
LEMMA UpdatesDropped ==
  ASSUME ShowUpdates(updates), mpv_status = <<>>
  PROVE  /\ mpv_status' = mpv_status /\ rows' = rows /\ view' = view
         /\ updates' = <<>> /\ pending' = FALSE /\ timer' = "null" /\ overtaken' = overtaken
<1> DEFINE on == TRUE
<1>1. TableAfter(updates) = Table(rows, on) /\ on
  BY DEF TableAfter
<1> HIDE DEF on
<1>2. Table(rows, on).rows = rows /\ Table(rows, on).failed = on
  BY DEF Table
<1>3. TableAfter(updates).failed /\ TableAfter(updates).rows = rows
  BY <1>1, <1>2, Zenon
<1>4. QED
  BY <1>3 DEF ShowUpdates

\* What a message does to the page
ShownOf(msg) ==
  \/ UNCHANGED <<shownVars, pageHistory>> /\ (msg.kind = "open" \/ ws = 0)
  \/ /\ msg.kind = "status" /\ ws # 0 /\ ShowStatus(msg.values) /\ IsFull(msg.values)
     /\ UNCHANGED <<pending, updates, timer>>
  \/ /\ msg.kind = "status_diff" /\ ws # 0 /\ IsStatus(msg.values)
     /\ updates' = Over(msg.values, updates) /\ pending' = TRUE /\ StartTimer
     /\ UNCHANGED <<mpv_status, view, rows, pageHistory>>

\* The handlers of ws.onopen and ws.onmessage do what ShownOf says.
LEMMA MessageShown ==
  ASSUME AreSocks(socks), NEW i \in DOMAIN socks, Receive(i)
  PROVE  UNCHANGED <<told, ws, block>> /\ ShownOf(Head(socks[i].wire))
<1> DEFINE msg == Head(socks[i].wire)
<1>1. IsMessage(msg)
  BY MessageReceived
<1>2. /\ UNCHANGED <<told, ws, block>>
      /\ CASE msg.kind = "open" ->
                connected' = TRUE /\ UNCHANGED <<shownVars, pageHistory>>
           [] msg.kind # "open" /\ ws = 0 -> UNCHANGED <<connected, shownVars, pageHistory>>
           [] msg.kind = "status" /\ ws # 0 ->
                ShowStatus(msg.values) /\ UNCHANGED <<connected, pending, updates, timer>>
           [] msg.kind = "status_diff" /\ ws # 0 ->
                /\ updates' = Over(msg.values, updates)
                /\ pending' = TRUE
                /\ StartTimer
                /\ UNCHANGED <<connected, mpv_status, view, rows, pageHistory>>
  BY DEF Receive
<1> HIDE DEF msg
<1>3. ASSUME msg.kind = "open" PROVE ShownOf(msg)
  BY <1>2, <1>3 DEF ShownOf
<1>4. ASSUME msg.kind # "open" /\ ws = 0 PROVE ShownOf(msg)
  BY <1>2, <1>4 DEF ShownOf
<1>5. ASSUME msg.kind = "status" /\ ws # 0 PROVE ShownOf(msg)
  BY <1>1, <1>2, <1>5 DEF IsMessage, ShownOf
<1>6. ASSUME msg.kind = "status_diff" /\ ws # 0 PROVE ShownOf(msg)
  BY <1>1, <1>2, <1>6 DEF IsMessage, ShownOf
<1>7. (msg.kind = "open") \/ (msg.kind # "open" /\ ws = 0) \/ (msg.kind = "status" /\ ws # 0)
        \/ (msg.kind = "status_diff" /\ ws # 0)
  BY <1>1 DEF IsMessage
<1>8. QED
  BY <1>2, <1>3, <1>4, <1>5, <1>6, <1>7 DEF msg

\* Every step leaves sockets with commands that are well formed, and ws one of them.
LEMMA SocksStep ==
  ASSUME PlayerTypes, SockTypes, StatusTypes, MenuTypes, [Next]_vars
  PROVE  SockTypes'
<1>1. AreSocks(socks) /\ ws \in 0 .. Len(socks) /\ Len(socks) \in Nat /\ DOMAIN socks = 1 .. Len(socks)
  BY SocksAre DEF SockTypes
<1>2. CASE UNCHANGED <<socks, ws>>
  BY <1>1, <1>2 DEF SockTypes, AreSocks
<1>3. ASSUME NEW cs, CommandsSent(cs) PROVE SockTypes'
  <2>1. socks' = Sends(cs) /\ ws' = ws /\ AllFormed(cs)
    BY <1>3 DEF CommandsSent
  <2>2. AreSocks(Sends(cs)) /\ Len(Sends(cs)) = Len(socks)
    BY <1>1, <2>1, Sent
  <2>3. QED
    BY <1>1, <2>1, <2>2 DEF SockTypes, AreSocks
<1>4. ASSUME NEW i \in DOMAIN socks, TakeCommand(i) PROVE SockTypes'
  <2>1. ws' = ws
    BY <1>4 DEF TakeCommand
  <2>2. QED
    BY <1>1, <1>4, <2>1, Taken DEF SockTypes
<1>5. ASSUME NEW i \in DOMAIN socks, Accept(i) PROVE SockTypes'
  <2>1. ws' = ws
    BY <1>5 DEF Accept
  <2>2. QED
    BY <1>1, <1>5, <2>1, Accepted DEF SockTypes, StatusTypes
<1>6. ASSUME NEW i \in DOMAIN socks, Receive(i) PROVE SockTypes'
  <2>1. ws' = ws
    BY <1>6 DEF Receive
  <2>2. QED
    BY <1>1, <1>6, <2>1, MessageReceived DEF SockTypes
<1>7. ASSUME NEW i \in DOMAIN socks, NEW goingAway, Lose(i, goingAway) PROVE SockTypes'
  <2>1. ws' = 0
    BY <1>7 DEF Lose
  <2>2. AreSocks(socks)' /\ Len(socks') = Len(socks)
    BY <1>1, <1>7, Lost
  <2>3. QED
    BY <1>1, <2>1, <2>2 DEF SockTypes
<1>8. ASSUME NEW D, SendDiff(D) PROVE SockTypes'
  <2>1. ws' = ws
    BY <1>8 DEF SendDiff
  <2>2. AreSocks(socks)' /\ Len(socks') = Len(socks)
    BY <1>1, <1>8, DiffSent DEF PlayerTypes, StatusTypes
  <2>3. QED
    BY <1>1, <2>1, <2>2 DEF SockTypes
<1>9. CASE InitWs
  <2>1. AreSocks(socks)' /\ Len(socks') = Len(socks) + 1 /\ ws' = Len(socks')
    BY <1>1, <1>9, SocketMade
  <2>2. QED
    BY <1>1, <2>1 DEF SockTypes
<1>10. Dragged \/ UNCHANGED statusKept \/ UNCHANGED socketVars => UNCHANGED <<socks, ws>>
  BY DEF Dragged, Drag, statusKept, socketVars
<1>11. QED
  BY <1>2, <1>3, <1>4, <1>5, <1>6, <1>7, <1>8, <1>9, <1>10, StatusStep

\* No properties at all
LEMMA NoStatus == IsStatus(<<>>)
<1> DEFINE s == <<>>
<1>1. DOMAIN s = {}
  OBVIOUS
<1> HIDE DEF s
<1>2. IsStatus(s)
  BY <1>1 DEF IsStatus
<1>3. QED
  BY <1>2 DEF s

\* All properties are more than none.
LEMMA FullIsNotEmpty ==
  ASSUME NEW s, IsFull(s)
  PROVE  s # <<>>
<1> DEFINE e == <<>>
<1>1. DOMAIN e = {}
  OBVIOUS
<1> HIDE DEF e
<1>2. s # e
  BY <1>1, PlayerAssumption DEF IsFull
<1>3. QED
  BY <1>2 DEF e

\* Every step leaves the page with a status, or none, and the rows of its playlist: the
\* operations of get_diff, applied to the rows of the old playlist, give those of the new.
LEMMA StatusTypesStep ==
  ASSUME PlayerTypes, SockTypes, StatusTypes, MenuTypes, [Next]_vars
  PROVE  StatusTypes'
<1>1. AreSocks(socks) /\ IsFull(mpv) /\ IsFull(told) /\ dirty \subseteq Props
  BY DEF SockTypes, PlayerTypes, StatusTypes
<1>2. CASE UNCHANGED <<told, updates, mpv_status, rows>>
  BY <1>2 DEF StatusTypes, IsFull, RowsNamed
<1>3. ASSUME NEW cs, CommandsSent(cs) PROVE UNCHANGED <<told, updates, mpv_status, rows>>
  BY <1>3 DEF CommandsSent
<1>4. ASSUME NEW i \in DOMAIN socks, TakeCommand(i) \/ Accept(i) \/ Lose(i, TRUE) \/ Lose(i, FALSE)
      PROVE  UNCHANGED <<told, updates, mpv_status, rows>>
  BY <1>4 DEF TakeCommand, Accept, Lose, shownVars
<1>5. ASSUME NEW i \in DOMAIN socks, Receive(i) PROVE StatusTypes'
  <2> DEFINE msg == Head(socks[i].wire)
             D == msg.values
  <2>1. /\ told' = told
        /\ \/ UNCHANGED <<shownVars, pageHistory>>
           \/ ShowStatus(D) /\ IsFull(D) /\ updates' = updates
           \/ IsStatus(D) /\ updates' = Over(D, updates) /\ UNCHANGED <<mpv_status, rows>>
    BY <1>1, <1>5, MessageShown DEF ShownOf
  <2> HIDE DEF D
  <2>2. CASE UNCHANGED <<shownVars, pageHistory>>
    BY <1>2, <2>1, <2>2 DEF shownVars
  <2>3. CASE ShowStatus(D) /\ IsFull(D) /\ updates' = updates
    <3>1. mpv_status' = D /\ rows' = Populated(D["playlist"], D["pause"]) /\ IsPlaylist(D["playlist"])
      BY <2>3 DEF ShowStatus, IsFull
    <3>2. RowsNamed(rows', D["playlist"])
      BY <3>1, RowsPopulated
    <3>3. D # <<>>
      BY <2>3, FullIsNotEmpty
    <3>4. QED
      BY <2>1, <2>3, <3>1, <3>2, <3>3 DEF StatusTypes
  <2>4. CASE IsStatus(D) /\ updates' = Over(D, updates) /\ UNCHANGED <<mpv_status, rows>>
    <3>1. IsStatus(Over(D, updates))
      BY <2>4, OverStatus DEF StatusTypes
    <3>2. QED
      BY <2>1, <2>4, <3>1 DEF StatusTypes, RowsNamed, IsFull
  <2>5. QED
    BY <2>1, <2>2, <2>3, <2>4
<1>6. ASSUME NEW D, SendDiff(D) PROVE StatusTypes'
  <2>1. UNCHANGED <<updates, mpv_status, rows>>
    BY <1>6 DEF SendDiff, shownVars
  <2>2. IsFull(told)'
    BY <1>1, <1>6, DiffSent
  <2>3. QED
    BY <2>1, <2>2 DEF StatusTypes, RowsNamed, IsFull
<1>7. CASE ShowUpdates(updates) /\ UNCHANGED socketVars
  <2>1. told' = told
    BY <1>7 DEF socketVars
  <2>2. CASE mpv_status = <<>>
    <3>1. /\ mpv_status' = mpv_status /\ rows' = rows /\ updates' = <<>>
      BY <1>7, <2>2, UpdatesDropped
    <3>2. QED
      BY <2>1, <2>2, <3>1, NoStatus DEF StatusTypes
  <2>3. CASE mpv_status # <<>>
    <3> DEFINE s == Merged(updates)
    <3>1. s = Merged(updates)
      OBVIOUS
    <3> HIDE DEF s
    <3>2. IsFull(s) /\ mpv_status' = s /\ updates' = <<>> /\ RowsNamed(rows', s["playlist"])
      BY <1>7, <2>3, <3>1, UpdatesShown
    <3>3. s # <<>>
      BY <3>2, FullIsNotEmpty
    <3>4. QED
      BY <2>1, <3>2, <3>3, NoStatus DEF StatusTypes
  <2>4. QED
    BY <2>2, <2>3
<1>8. Dragged \/ (UNCHANGED statusKept) \/ (InitWs /\ UNCHANGED <<told, shownVars, pageHistory>>)
      => UNCHANGED <<told, updates, mpv_status, rows>>
  BY DEF Dragged, Drag, statusKept, socketVars, shownVars
<1>9. QED
  BY <1>2, <1>3, <1>4, <1>5, <1>6, <1>7, <1>8, StatusStep

\* Every step leaves the timer and the blocks of the sliders in one of their states.
LEMMA SwitchTypesStep ==
  ASSUME StatusTypes, MenuTypes, SockTypes, SwitchTypes, [Next]_vars
  PROVE  SwitchTypes'
<1>1. block' \in [Sliders -> BlockStates]
  BY BlockStep DEF SwitchTypes
<1>2. DOMAIN view = Widgets /\ DOMAIN moved = Sliders /\ timer \in {"null", "runs", "cleared"}
  BY DEF SwitchTypes
<1>3. \A W, s : DOMAIN Redrawn(W, s) = Widgets
  BY DEF Redrawn
<1> DEFINE Kept == DOMAIN view' = Widgets /\ DOMAIN moved' = Sliders /\ timer' \in {"null", "runs", "cleared"}
<1>4. ASSUME UNCHANGED <<view, moved, timer>> PROVE Kept
  BY <1>2, <1>4
<1>5. ASSUME NEW cs, CommandsSent(cs) PROVE Kept
  BY <1>2, <1>5 DEF CommandsSent, pageHistory
<1>6. ASSUME Dragged PROVE Kept
  BY <1>2, <1>6 DEF Dragged, Drag
<1>7. ASSUME NEW i \in DOMAIN socks, NEW goingAway, Lose(i, goingAway) PROVE Kept
  <2>1. /\ \/ view' = view
           \/ view' = [view EXCEPT !["title"] = "not connected", !["playPause"] = TRUE]
        /\ timer' = timer \/ timer' = "cleared"
        /\ moved' = moved
    BY <1>7 DEF Lose, pageHistory
  <2>2. QED
    BY <1>2, <2>1
<1>8. ASSUME NEW i \in DOMAIN socks, Receive(i) PROVE Kept
  <2>1. ShownOf(Head(socks[i].wire))
    BY <1>8, MessageShown DEF SockTypes
  <2>2. /\ view' = view \/ \E s : view' = Redrawn(Widgets, s)
        /\ timer' = timer \/ timer' = "runs"
        /\ moved' = moved \/ moved' = [x \in Sliders |-> Blocked(x)]
    BY <2>1 DEF ShownOf, ShowStatus, Drawn, StartTimer, shownVars, pageHistory
  <2>3. QED
    BY <1>2, <1>3, <2>2
<1>9. ASSUME ShowUpdates(updates) PROVE Kept
  <2>1. timer' = "null" /\ (view' = view \/ \E W, s : view' = Redrawn(W, s)) /\ DOMAIN moved' = Sliders
    BY <1>9 DEF ShowUpdates
  <2>2. QED
    BY <1>2, <1>3, <2>1
<1>10. ASSUME NEW i \in DOMAIN socks, TakeCommand(i) \/ Accept(i) PROVE UNCHANGED <<view, moved, timer>>
  BY <1>10 DEF TakeCommand, Accept, shownVars, pageHistory
<1>11. ASSUME NEW D, SendDiff(D) PROVE UNCHANGED <<view, moved, timer>>
  BY <1>11 DEF SendDiff, shownVars, pageHistory
<1>12. (UNCHANGED statusKept) \/ (InitWs /\ UNCHANGED <<told, shownVars, pageHistory>>)
       => UNCHANGED <<view, moved, timer>>
  BY DEF statusKept, shownVars, pageHistory
<1>13. Kept
  <2> HIDE DEF Kept
  <2>1. QED
    BY <1>4, <1>5, <1>6, <1>7, <1>8, <1>9, <1>10, <1>11, <1>12, StatusStep
<1>14. QED
  BY <1>1, <1>13 DEF SwitchTypes

\* What a step does to the player and its command
LEMMA PlayerStep ==
  ASSUME PlayerTypes, SockTypes, MenuTypes, [Next]_vars
  PROVE  \/ PlayerNext /\ UNCHANGED pageVars
         \/ \E c : /\ Formed(c) /\ Start(c) /\ UNCHANGED <<mpv, bounds, dirty>>
         \/ /\ job' = job /\ mpv' = mpv /\ bounds' = bounds
            /\ dirty' = dirty \/ \E D : SendDiff(D)
<1>1. ASSUME NEW i \in DOMAIN socks, TakeCommand(i)
      PROVE  \E c : Formed(c) /\ Start(c) /\ UNCHANGED <<mpv, bounds, dirty>>
  <2>1. Formed(Head(socks[i].up))
    BY <1>1, Taken DEF SockTypes
  <2>2. QED
    BY <1>1, <2>1 DEF TakeCommand
<1>2. ASSUME NEW c \in http, TakeRequest(c)
      PROVE  \E d : Formed(d) /\ Start(d) /\ UNCHANGED <<mpv, bounds, dirty>>
  BY <1>2 DEF TakeRequest, MenuTypes
<1>3. ASSUME PageNext
      PROVE  /\ job' = job /\ mpv' = mpv /\ bounds' = bounds
             /\ dirty' = dirty \/ \E D : SendDiff(D)
  BY <1>3 DEF PageNext, playerVars
<1>4. QED
  BY <1>1, <1>2, <1>3 DEF Next, vars, playerVars

\* Every step keeps the invariant of the player.
LEMMA PlayerInvStep ==
  ASSUME PlayerInv, SockTypes, MenuTypes, [Next]_vars
  PROVE  PlayerInv'
<1>1. CASE PlayerNext
  BY <1>1, PlayerActs
<1>2. ASSUME NEW c, Formed(c), Start(c), UNCHANGED <<mpv, bounds, dirty>> PROVE PlayerInv'
  BY <1>2, StartTypes
<1>3. CASE job' = job /\ mpv' = mpv /\ bounds' = bounds /\ dirty' \subseteq dirty
  BY <1>3 DEF PlayerInv, PlayerTypes, AppendedLast, Appending, Formed, IsFull, Playlist
<1>4. \A D : SendDiff(D) => dirty' \subseteq dirty
  BY DEF SendDiff
<1>5. QED
  BY <1>1, <1>2, <1>3, <1>4, PlayerStep DEF PlayerInv

\* At the start no command is under way.
LEMMA CommandInvInitially == Init => CommandInv
<1> SUFFICES ASSUME Init PROVE CommandInv
  OBVIOUS
<1> USE DEF Init
<1>1. IsFull(FirstState)
  BY PlayerAssumption DEF IsFull, IsStatus, Props
<1>2. PlayerInv
  <2>1. mpv = FirstState /\ dirty = {} /\ job = NoJob /\ bounds \in Bounds
    BY DEF PlayerInit
  <2>2. NoJob.cmd = "none" /\ NoJob.step = "none"
    BY DEF NoJob
  <2>3. Formed(NoJob) /\ job.step # "load" /\ ~Appending
    BY <2>1, <2>2 DEF Formed, EntryCommands, Appending
  <2>4. QED
    BY <1>1, <2>1, <2>3 DEF PlayerInv, PlayerTypes, AppendedLast
<1>3. SockTypes
  <2> DEFINE st == "connecting"
             none == <<>>
             k == Sock(st, none, none)
  <2>1. socks = <<k>> /\ ws = 1
    BY DEF PageInit, NewSocket, Sock
  <2>2. st \in {"connecting", "open", "closed"} /\ IsQueue(none) /\ ToSet(none) = {}
    BY QueueEmpty
  <2> HIDE DEF st, none
  <2>3. AllFormed(none) /\ \A m \in ToSet(none) : IsMessage(m)
    BY <2>2 DEF AllFormed
  <2>4. IsSock(k)
    BY <2>2, <2>3, SockMade
  <2> HIDE DEF k
  <2>5. IsQueue(socks)
    BY <2>1, QueueOne
  <2>6. Len(socks) = 1 /\ \A i \in DOMAIN socks : socks[i] = k
    BY <2>1
  <2>7. QED
    BY <2>1, <2>4, <2>5, <2>6 DEF SockTypes, AreSocks
<1>4. StatusTypes
  BY <1>1, NoStatus DEF PageInit, StatusTypes
<1>5. MenuTypes
  BY DEF ControlsInit, SharesInit, MenuTypes
<1>6. SwitchTypes
  BY DEF PageInit, SwitchTypes, BlockStates
<1>7. QED
  BY <1>2, <1>3, <1>4, <1>5, <1>6 DEF CommandInv

\* Every step keeps the invariant of the commands.
LEMMA CommandInvInductive == PressInv /\ CommandInv /\ [Next]_vars => CommandInv'
<1> SUFFICES ASSUME PressInv, CommandInv, [Next]_vars PROVE CommandInv'
  OBVIOUS
<1>1. PlayerInv /\ PlayerTypes /\ SockTypes /\ StatusTypes /\ MenuTypes /\ SwitchTypes
  BY DEF CommandInv, PlayerInv
<1>2. MenuTypes'
  BY <1>1, MenuStep, RunningStep, RequestStep DEF MenuTypes
<1>3. QED
  BY <1>1, <1>2, PlayerInvStep, SocksStep, StatusTypesStep, SwitchTypesStep DEF CommandInv

\* The invariant of the commands holds in every reachable state.
LEMMA CommandInvCorrect == Spec => []CommandInv
BY PressInvCorrect, CommandInvInitially, CommandInvInductive, PTL DEF Spec

\* CommandsHitShownEntry for every playlist: a command from a row, or from the menu of a
\* button, carries the index that its entry had in the list that was shown, through the
\* sockets and up to the call of mpv (playlist.js, touchmenu.js, mpv_api_commands.c).
THEOREM CommandsAreMeant == Spec => []CommandsHitShownEntry
<1>1. CommandInv => CommandsHitShownEntry
  BY DEF CommandInv, PlayerInv, PlayerTypes, Formed, CommandsHitShownEntry
<1>2. QED
  BY <1>1, CommandInvCorrect, PTL

\* When the command that appends a file to an idle player ends, it was unpause that
\* ended it.
LEMMA AppendedStarts ==
  ASSUME CommandInv, [Next]_vars, Appending, job' = NoJob
  PROVE  /\ Playlist'.pos = Len(Playlist'.files) - 1
         /\ Last(Playlist'.files) = job.p2
         /\ ~mpv'["pause"]
<1>1. PlayerInv /\ PlayerTypes /\ AppendedLast /\ IsFull(mpv)
  BY DEF CommandInv, PlayerInv, PlayerTypes
<1>2. job.cmd = "playlist_add" /\ job # NoJob /\ job' # job /\ job'.cmd = "none"
  BY DEF Appending, NoJob
<1>3. DOMAIN job = JobParts
  BY <1>1, <1>2 DEF PlayerTypes
<1>4. PlayerNext
  BY <1>1, <1>2, PlayerStep DEF CommandInv, Start
<1>5. ~(\E st : Goto(st))
  BY <1>1, <1>2, GoesOn
<1>6. job.step \in {"load", "check_idle", "count", "jump", "unpause"}
  BY <1>1 DEF AppendedLast
<1>7. ~LoadFile /\ ~Jump
  BY <1>5 DEF LoadFile, Jump
<1>8. ~CheckIdle
  BY <1>1, <1>5 DEF CheckIdle, AppendedLast
<1>9. ~Count
  <2>1. job.step # "load" => Playlist.files # <<>>
    BY <1>1 DEF AppendedLast
  <2>2. SUFFICES ASSUME Count PROVE FALSE
    OBVIOUS
  <2>3. job' = [job EXCEPT !.read = Len(Playlist.files) - 1, !.step = "jump"]
    BY <2>1, <2>2 DEF Count
  <2>4. job'.cmd = job.cmd
    BY <1>3, <2>3 DEF JobParts
  <2>5. QED
    BY <1>2, <2>4
<1>10. ~StartFile /\ ~(\E ch \in bounds.alters : WindowChange(ch))
  <2>1. [job EXCEPT !.touched = TRUE].cmd = job.cmd
    BY <1>3 DEF JobParts
  <2>2. QED
    BY <1>2, <2>1 DEF StartFile, WindowChange
<1>11. Unpause
  BY <1>4, <1>6, <1>7, <1>8, <1>9, <1>10 DEF PlayerNext, Fail, Read, Write, Shuffle
<1>12. mpv' = [mpv EXCEPT !["pause"] = FALSE] /\ job.step = "unpause"
  BY <1>11 DEF Unpause, Become
<1>13. ~mpv'["pause"] /\ mpv'["playlist"] = mpv["playlist"]
  BY <1>1, <1>12, PlayerAssumption DEF IsFull
<1>14. QED
  BY <1>1, <1>12, <1>13 DEF AppendedLast, Playlist

\* IdlePlayerStarts for every playlist and every interleaving with mpv and its window:
\* cmd_media_playlist_add ends with the appended file current and mpv not paused.
THEOREM AppendedIsPlayed == Spec => IdlePlayerStarts
<1>1. CommandInv /\ [Next]_vars =>
        [job.cmd = "playlist_add" /\ job.p1 = "append" /\ job.idle /\ ~job.touched
           /\ job' = NoJob /\ job.step # "fail" =>
           /\ Playlist'.pos = Len(Playlist'.files) - 1
           /\ Last(Playlist'.files) = job.p2
           /\ ~mpv'["pause"]]_vars
  BY AppendedStarts DEF Appending
<1>2. QED
  BY <1>1, CommandInvCorrect, PTL DEF Spec, IdlePlayerStarts

\* TypeOK for every playlist, number of sockets and shares: updatePlaylist never loses
\* count of the rows.
THEOREM TypesHold == Spec => []TypeOK
<1>1. CommandInv /\ PressInv /\ SharesInv => TypeOK
  <2> SUFFICES ASSUME CommandInv, PressInv, SharesInv PROVE TypeOK
    OBVIOUS
  <2>1. DOMAIN mpv = Props /\ dirty \subseteq Props /\ IsPlaylist(Playlist)
    BY DEF CommandInv, PlayerInv, PlayerTypes, IsFull, Playlist
  <2>2. Playlist.pos \in -1 .. Len(Playlist.files) - 1 /\ (Playlist.pos = -1 => ~Playlist.playing)
    BY <2>1 DEF IsPlaylist
  <2>3. ws \in 0 .. Len(socks)
    BY DEF CommandInv, SockTypes
  <2>4. timer \in {"null", "runs", "cleared"} /\ block \in [Sliders -> {"null", "false", "timeout"}]
    BY DEF CommandInv, SwitchTypes, BlockStates
  <2>5. mpv_status # <<>> => Len(rows) = Len(mpv_status["playlist"].files)
    BY DEF CommandInv, StatusTypes, RowsNamed
  <2>6. lpTimer \in running \cup {0}
    BY DEF PressInv, PressTypes
  <2>7. selected \in 0 .. NShares /\ selector \in 0 .. NShares
    BY SharesAssumption DEF SharesInv, SharesTypes, ShareIds
  <2>8. QED
    BY <2>1, <2>2, <2>3, <2>4, <2>5, <2>6, <2>7 DEF TypeOK
<1>2. QED
  BY <1>1, CommandInvCorrect, PressInvCorrect, SharesInvCorrect, PTL

-----------------------------------------------------------------------------
(* What is on its way to the page.                                          *)

Mentions(m, p) == m.kind # "open" /\ p \in DOMAIN m.values

MentionedIn(w, p) == \E k \in DOMAIN w : Mentions(w[k], p)

\* The last message of w that has a value of p has the value v.
LastIs(w, p, v) ==
  \A k \in DOMAIN w :
    Mentions(w[k], p) /\ (\A l \in DOMAIN w : l > k => ~Mentions(w[l], p)) => w[k].values[p] = v

\* The page was told of the connection only if the status follows.
StatusFollows(w) ==
  \A k \in DOMAIN w : w[k].kind = "open" => k = 1 /\ 2 \in DOMAIN w /\ w[2].kind = "status"

AllDiffs(w) == \A k \in DOMAIN w : w[k].kind = "status_diff"

\* An empty wire
LEMMA WireEmpty ==
  /\ \A p : ~MentionedIn(<<>>, p)
  /\ \A p, v : LastIs(<<>>, p, v)
  /\ StatusFollows(<<>>)
BY DEF MentionedIn, LastIs, StatusFollows

\* A wire with one more message
LEMMA WireGrown ==
  ASSUME NEW w, IsQueue(w), NEW m
  PROVE  LET t == Append(w, m) IN
         /\ \A p : MentionedIn(t, p) <=> MentionedIn(w, p) \/ Mentions(m, p)
         /\ \A p : Mentions(m, p) => LastIs(t, p, m.values[p])
         /\ \A p, v : ~Mentions(m, p) /\ LastIs(w, p, v) => LastIs(t, p, v)
         /\ StatusFollows(w) /\ m.kind # "open" => StatusFollows(t)
         /\ AllDiffs(t) <=> AllDiffs(w) /\ m.kind = "status_diff"
<1> DEFINE t == Append(w, m)
           n == Len(w)
<1>1. n \in Nat /\ DOMAIN w = 1 .. n
  BY QueueParts
<1>2. /\ DOMAIN t = 1 .. n + 1 /\ t[n + 1] = m
      /\ \A k \in 1 .. n : t[k] = w[k]
  BY <1>1, QueueAppended, QueueParts
<1> HIDE DEF t, n
<1>3. \A p : MentionedIn(t, p) <=> MentionedIn(w, p) \/ Mentions(m, p)
  <2>1. \A k \in DOMAIN w : k \in DOMAIN t /\ t[k] = w[k]
    BY <1>1, <1>2
  <2>2. n + 1 \in DOMAIN t /\ \A k \in DOMAIN t : k = n + 1 \/ k \in DOMAIN w
    BY <1>1, <1>2
  <2>3. QED
    BY <1>2, <2>1, <2>2 DEF MentionedIn
<1>4. \A p : Mentions(m, p) => LastIs(t, p, m.values[p])
  <2>1. \A k \in DOMAIN t : k = n + 1 \/ n + 1 > k
    BY <1>1, <1>2
  <2>2. n + 1 \in DOMAIN t
    BY <1>1, <1>2
  <2>3. QED
    BY <1>2, <2>1, <2>2 DEF LastIs
<1>5. \A p, v : ~Mentions(m, p) /\ LastIs(w, p, v) => LastIs(t, p, v)
  <2>1. \A k \in DOMAIN w : k \in DOMAIN t /\ t[k] = w[k]
    BY <1>1, <1>2
  <2>2. n + 1 \in DOMAIN t /\ \A k \in DOMAIN t : k = n + 1 \/ k \in DOMAIN w
    BY <1>1, <1>2
  <2>3. QED
    BY <1>2, <2>1, <2>2 DEF LastIs
<1>6. StatusFollows(w) /\ m.kind # "open" => StatusFollows(t)
  BY <1>1, <1>2 DEF StatusFollows
<1>7. AllDiffs(t) <=> AllDiffs(w) /\ m.kind = "status_diff"
  <2>1. \A k \in DOMAIN w : k \in DOMAIN t /\ t[k] = w[k]
    BY <1>1, <1>2
  <2>2. n + 1 \in DOMAIN t /\ \A k \in DOMAIN t : k = n + 1 \/ k \in DOMAIN w
    BY <1>1, <1>2
  <2>3. QED
    BY <1>2, <2>1, <2>2 DEF AllDiffs
<1>8. QED
  BY <1>3, <1>4, <1>5, <1>6, <1>7 DEF t

\* A wire from which the first message is taken
LEMMA WireTaken ==
  ASSUME NEW w, IsQueue(w), w # <<>>
  PROVE  LET t == Tail(w)
             m == Head(w) IN
         /\ \A p : MentionedIn(w, p) <=> MentionedIn(t, p) \/ Mentions(m, p)
         /\ \A p, v : LastIs(w, p, v) =>
              /\ LastIs(t, p, v)
              /\ Mentions(m, p) /\ ~MentionedIn(t, p) => m.values[p] = v
         /\ StatusFollows(w) => StatusFollows(t) /\ (m.kind = "open" => ~AllDiffs(t))
         /\ AllDiffs(w) <=> AllDiffs(t) /\ m.kind = "status_diff"
<1> DEFINE t == Tail(w)
           m == Head(w)
           n == Len(w)
<1>1. n \in Nat /\ DOMAIN w = 1 .. n /\ m = w[1] /\ 1 \in DOMAIN w
  BY QueueParts, QueueTaken
<1>2. DOMAIN t = 1 .. n - 1 /\ \A k \in 1 .. n - 1 : t[k] = w[k + 1]
  BY <1>1, QueueTaken, QueueParts
<1> HIDE DEF t, m, n
<1>3. \A k \in DOMAIN t : k \in Nat /\ k + 1 \in DOMAIN w /\ t[k] = w[k + 1]
  BY <1>1, <1>2
<1>4. \A k \in DOMAIN w : k = 1 \/ (k - 1 \in DOMAIN t /\ t[k - 1] = w[k] /\ k > 1)
  BY <1>1, <1>2
<1>5. \A p : MentionedIn(w, p) <=> MentionedIn(t, p) \/ Mentions(m, p)
  BY <1>1, <1>3, <1>4 DEF MentionedIn
<1>6. ASSUME NEW p, NEW v, LastIs(w, p, v)
      PROVE  LastIs(t, p, v) /\ (Mentions(m, p) /\ ~MentionedIn(t, p) => m.values[p] = v)
  <2>1. LastIs(t, p, v)
    <3> SUFFICES ASSUME NEW k \in DOMAIN t, Mentions(t[k], p),
                        \A l \in DOMAIN t : l > k => ~Mentions(t[l], p)
                 PROVE  t[k].values[p] = v
      BY DEF LastIs
    <3>1. k + 1 \in DOMAIN w /\ t[k] = w[k + 1] /\ k \in Nat
      BY <1>3
    <3>2. \A l \in DOMAIN w : l > k + 1 => ~Mentions(w[l], p)
      <4> SUFFICES ASSUME NEW l \in DOMAIN w, l > k + 1 PROVE ~Mentions(w[l], p)
        OBVIOUS
      <4>1. l - 1 \in DOMAIN t /\ t[l - 1] = w[l] /\ l \in Nat
        BY <1>1, <1>4, <3>1
      <4>2. l - 1 > k
        BY <3>1, <4>1
      <4>3. QED
        BY <4>1, <4>2
    <3>3. QED
      BY <1>6, <3>1, <3>2 DEF LastIs
  <2>2. ASSUME Mentions(m, p), ~MentionedIn(t, p) PROVE m.values[p] = v
    <3>1. \A l \in DOMAIN w : l > 1 => ~Mentions(w[l], p)
      BY <1>4, <2>2 DEF MentionedIn
    <3>2. QED
      BY <1>1, <1>6, <2>2, <3>1 DEF LastIs
  <2>3. QED
    BY <2>1, <2>2
<1>7. ASSUME StatusFollows(w)
      PROVE  StatusFollows(t) /\ (m.kind = "open" => ~AllDiffs(t))
  <2>1. \A k \in DOMAIN t : t[k].kind # "open"
    BY <1>1, <1>2, <1>3, <1>7 DEF StatusFollows
  <2>2. ASSUME m.kind = "open" PROVE ~AllDiffs(t)
    <3>1. 2 \in DOMAIN w /\ w[2].kind = "status"
      BY <1>1, <1>7, <2>2 DEF StatusFollows
    <3>2. 1 \in DOMAIN t /\ t[1] = w[2]
      BY <1>1, <1>2, <3>1
    <3>3. QED
      BY <3>1, <3>2 DEF AllDiffs
  <2>3. QED
    BY <2>1, <2>2 DEF StatusFollows
<1>8. AllDiffs(w) <=> AllDiffs(t) /\ m.kind = "status_diff"
  BY <1>1, <1>3, <1>4 DEF AllDiffs
<1>9. QED
  BY <1>5, <1>6, <1>7, <1>8 DEF t, m

\* The wire of a new client: all properties are awaited, and have the value they are told.
LEMMA NewsWire ==
  ASSUME NEW s, IsFull(s)
  PROVE  /\ \A p \in Props : MentionedIn(News(s), p) /\ LastIs(News(s), p, s[p])
         /\ StatusFollows(News(s)) /\ ~AllDiffs(News(s))
<1> DEFINE w == News(s)
<1>1. /\ DOMAIN w = {1, 2} /\ w[1].kind = "open" /\ w[2].kind = "status" /\ w[2].values = s
  <2>1. IsQueue(w) /\ Len(w) = 2 /\ w[1].kind = "open" /\ w[2].kind = "status" /\ w[2].values = s
    BY NewsAre
  <2> HIDE DEF w
  <2>2. DOMAIN w = 1 .. 2
    BY <2>1, QueueParts
  <2>3. QED
    BY <2>1, <2>2
<1> HIDE DEF w
<1>2. \A p \in Props : Mentions(w[2], p) /\ ~Mentions(w[1], p)
  BY <1>1 DEF Mentions, IsFull
<1>3. \A p \in Props : MentionedIn(w, p) /\ LastIs(w, p, s[p])
  BY <1>1, <1>2 DEF MentionedIn, LastIs
<1>4. StatusFollows(w) /\ ~AllDiffs(w)
  BY <1>1 DEF StatusFollows, AllDiffs
<1>5. QED
  BY <1>3, <1>4 DEF w

-----------------------------------------------------------------------------
(* The page follows the player.                                             *)

\* A value of p is on its way to the page.
Awaited(p) == \E i \in DOMAIN socks : MentionedIn(socks[i].wire, p)

\* The page has the status on the socket in use.
Live == ws # 0 /\ socks[ws].state = "open" /\ AllDiffs(socks[ws].wire)

\* What the server last sent is what mpv is at, unless a change waits to be sent.
ToldIsTrue == \A p \in Props \ dirty : told[p] = mpv[p]

WiresAre ==
  \A i \in DOMAIN socks :
    /\ \A p \in Props : LastIs(socks[i].wire, p, told[p])
    /\ StatusFollows(socks[i].wire)
    /\ socks[i].state # "open" => socks[i].wire = <<>>

UpdatesWait == (~pending => updates = <<>>) /\ (Live => mpv_status # <<>>)

\* What the page knows of p, with the updates it has yet to draw
Known(p) == Over(updates, mpv_status)[p]

StatusIsTold == Live /\ ~overtaken => \A p \in Props : ~Awaited(p) => Known(p) = told[p]

\* Not a slider that the user has moved, or used when the status came
Untouched(w) == w \in Sliders => ~moved[w]

ViewIsStatus ==
  Live => \A w \in Widgets \ {"speedReset"} : Untouched(w) => view[w] = Shows(w, mpv_status)

IconsAreStatus ==
  mpv_status # <<>> /\ ~apart => IconsShow(rows, mpv_status)

PageShown == WiresAre /\ UpdatesWait /\ StatusIsTold /\ ViewIsStatus /\ IconsAreStatus

-----------------------------------------------------------------------------
\* A live page sends.
LEMMA LiveParts ==
  ASSUME SockTypes, Live
  PROVE  ws \in DOMAIN socks /\ Opened(ws)
<1>1. Len(socks) \in Nat /\ DOMAIN socks = 1 .. Len(socks) /\ ws \in 0 .. Len(socks)
  BY SocksAre DEF SockTypes
<1>2. ws \in DOMAIN socks
  BY <1>1 DEF Live
<1>3. QED
  BY <1>2 DEF Live, Opened, AllDiffs

\* The sockets bring what they brought.
WiresKept ==
  /\ DOMAIN socks' = DOMAIN socks
  /\ \A i \in DOMAIN socks : socks'[i].wire = socks[i].wire /\ socks'[i].state = socks[i].state

ViewKept ==
  \A w \in Widgets \ {"speedReset"} : Untouched(w)' => Untouched(w) /\ view'[w] = view[w]

\* Commands, the sliders and the speed button leave what the page shows of the status.
LEMMA KeptShown ==
  ASSUME SockTypes, PageShown, WiresKept, ViewKept,
         UNCHANGED <<told, ws, mpv_status, rows, pending, updates, overtaken, apart>>
  PROVE  PageShown' /\ (Live' <=> Live) /\ \A p : Awaited(p)' <=> Awaited(p)
<1>1. Live' <=> Live
  <2>1. ws # 0 => ws \in DOMAIN socks
    BY SocksAre DEF SockTypes
  <2>2. QED
    BY <2>1 DEF Live, WiresKept
<1>2. \A p : Awaited(p)' <=> Awaited(p)
  BY DEF Awaited, WiresKept
<1>3. WiresAre'
  BY DEF PageShown, WiresAre, WiresKept
<1>4. UpdatesWait' /\ StatusIsTold'
  BY <1>1, <1>2 DEF PageShown, UpdatesWait, StatusIsTold, Known
<1>5. ViewIsStatus'
  BY <1>1 DEF PageShown, ViewIsStatus, ViewKept
<1>6. IconsAreStatus'
  BY DEF PageShown, IconsAreStatus, IconsShow, Started, IconsRight, IconRight
<1>7. QED
  BY <1>1, <1>2, <1>3, <1>4, <1>5, <1>6 DEF PageShown

\* A new client waits for the status.
LEMMA AcceptShown ==
  ASSUME SockTypes, StatusTypes, PageShown, NEW i \in DOMAIN socks, Accept(i)
  PROVE  PageShown' /\ (Live' => Live) /\ \A p \in Props : Awaited(p)'
<1>1. /\ DOMAIN socks' = DOMAIN socks /\ socks[i].state = "connecting"
      /\ socks'[i] = Sock("open", News(told), socks[i].up)
      /\ \A j \in DOMAIN socks : j # i => socks'[j] = socks[j]
  BY Accepted DEF SockTypes, StatusTypes
<1>2. socks'[i].wire = News(told) /\ socks'[i].state = "open"
  BY <1>1, SockParts
<1>3. UNCHANGED <<told, ws, shownVars, pageHistory>>
  BY DEF Accept
<1>4. /\ \A p \in Props : MentionedIn(News(told), p) /\ LastIs(News(told), p, told[p])
      /\ StatusFollows(News(told)) /\ ~AllDiffs(News(told))
  BY NewsWire DEF StatusTypes
<1>5. \A p \in Props : Awaited(p)'
  BY <1>1, <1>2, <1>4 DEF Awaited
<1>6. Live' => Live
  <2>1. ws # 0 => ws \in DOMAIN socks
    BY SocksAre DEF SockTypes
  <2>2. QED
    BY <1>1, <1>2, <1>3, <1>4, <2>1 DEF Live
<1>7. WiresAre'
  BY <1>1, <1>2, <1>3, <1>4 DEF PageShown, WiresAre
<1>8. UpdatesWait' /\ StatusIsTold'
  BY <1>3, <1>5, <1>6 DEF PageShown, UpdatesWait, StatusIsTold, shownVars
<1>9. ViewIsStatus'
  BY <1>3, <1>6 DEF PageShown, ViewIsStatus, Untouched, shownVars, pageHistory
<1>10. IconsAreStatus'
  BY <1>3 DEF PageShown, IconsAreStatus, IconsShow, Started, IconsRight, IconRight, shownVars, pageHistory
<1>11. QED
  BY <1>5, <1>6, <1>7, <1>8, <1>9, <1>10 DEF PageShown

\* Without a socket, or with a new one, the page is not live.
LEMMA NotLiveShown ==
  ASSUME PageShown, ~Live', WiresAre',
         UNCHANGED <<mpv_status, rows, pending, updates, apart>>
  PROVE  PageShown'
BY DEF PageShown, UpdatesWait, StatusIsTold, ViewIsStatus, IconsAreStatus, IconsShow, IconsRight,
       IconRight

\* A page that lost its socket shows what it showed.
LEMMA LoseShown ==
  ASSUME SockTypes, PageShown, NEW i \in DOMAIN socks, NEW goingAway, Lose(i, goingAway)
  PROVE  PageShown' /\ ~Live'
<1>1. /\ DOMAIN socks' = DOMAIN socks /\ socks'[i] = Sock("closed", <<>>, <<>>)
      /\ \A j \in DOMAIN socks : j # i => socks'[j] = socks[j]
  BY Lost DEF SockTypes
<1>2. socks'[i].wire = <<>>
  BY <1>1, SockParts
<1>3. ws' = 0 /\ UNCHANGED <<told, mpv_status, rows, pending, updates, apart>>
  BY DEF Lose, pageHistory
<1>4. WiresAre'
  BY <1>1, <1>2, <1>3, WireEmpty DEF PageShown, WiresAre
<1>5. ~Live'
  BY <1>3 DEF Live
<1>6. QED
  BY <1>3, <1>4, <1>5, NotLiveShown

\* A page with a new socket shows what it showed, but for the title.
LEMMA SocketShown ==
  ASSUME SockTypes, PageShown, InitWs, UNCHANGED <<told, shownVars, pageHistory>>
  PROVE  PageShown' /\ ~Live'
<1>1. /\ DOMAIN socks' = DOMAIN socks \cup {ws'}
      /\ socks'[ws'] = Sock("connecting", <<>>, <<>>)
      /\ \A j \in DOMAIN socks : socks'[j] = socks[j]
  BY SocketMade DEF SockTypes
<1>2. socks'[ws'].wire = <<>> /\ socks'[ws'].state = "connecting"
  BY <1>1, SockParts
<1>3. WiresAre'
  BY <1>1, <1>2, WireEmpty DEF PageShown, WiresAre
<1>4. ~Live'
  BY <1>2 DEF Live
<1>5. QED
  BY <1>3, <1>4, NotLiveShown DEF shownVars, pageHistory

\* When an update is sent, the page awaits the values that changed.
LEMMA DiffShown ==
  ASSUME PlayerTypes, SockTypes, StatusTypes, PageShown, NEW D, SendDiff(D)
  PROVE  /\ PageShown' /\ (Live' => Live) /\ \A p : Awaited(p) => Awaited(p)'
         /\ Live => \A p \in D : Awaited(p)'
<1> DEFINE m == DiffMessage(D)
<1>1. /\ DOMAIN socks' = DOMAIN socks
      /\ \A i \in DOMAIN socks :
           /\ socks[i].state # "open" => socks'[i] = socks[i]
           /\ socks[i].state = "open" => socks'[i] = Sock("open", Append(socks[i].wire, m), socks[i].up)
      /\ D \subseteq Props
      /\ \A p \in Props : told'[p] = IF p \in D THEN mpv[p] ELSE told[p]
  BY DiffSent DEF SockTypes, PlayerTypes, StatusTypes
<1>2. ASSUME NEW i \in DOMAIN socks, socks[i].state = "open"
      PROVE  socks'[i].wire = Append(socks[i].wire, m) /\ socks'[i].state = "open"
  <2> DEFINE t == Append(socks[i].wire, m)
  <2>1. socks'[i] = Sock(socks[i].state, t, socks[i].up)
    BY <1>1, <1>2
  <2> HIDE DEF t
  <2>2. socks'[i].wire = t /\ socks'[i].state = socks[i].state
    BY <2>1, SockParts
  <2>3. QED
    BY <1>2, <2>2 DEF t
<1>3. /\ m.kind = "status_diff" /\ DOMAIN m.values = D /\ \A p \in D : m.values[p] = mpv[p]
  BY <1>1, DiffIs DEF PlayerTypes
<1> HIDE DEF m
<1>4. \A p : Mentions(m, p) <=> p \in D
  BY <1>3 DEF Mentions
<1>5. ASSUME NEW i \in DOMAIN socks, socks[i].state = "open"
      PROVE  /\ \A p : MentionedIn(socks'[i].wire, p) <=> MentionedIn(socks[i].wire, p) \/ p \in D
             /\ \A p \in D : LastIs(socks'[i].wire, p, mpv[p])
             /\ \A p, v : p \notin D /\ LastIs(socks[i].wire, p, v) => LastIs(socks'[i].wire, p, v)
             /\ StatusFollows(socks[i].wire) => StatusFollows(socks'[i].wire)
             /\ AllDiffs(socks'[i].wire) <=> AllDiffs(socks[i].wire)
  <2> DEFINE w == socks[i].wire
  <2>1. IsQueue(w) /\ socks'[i].wire = Append(w, m)
    BY <1>2, <1>5, SocksAre DEF SockTypes
  <2> HIDE DEF w
  <2> DEFINE t == Append(w, m)
  <2>2. /\ \A p : MentionedIn(t, p) <=> MentionedIn(w, p) \/ Mentions(m, p)
        /\ \A p : Mentions(m, p) => LastIs(t, p, m.values[p])
        /\ \A p, v : ~Mentions(m, p) /\ LastIs(w, p, v) => LastIs(t, p, v)
        /\ StatusFollows(w) /\ m.kind # "open" => StatusFollows(t)
        /\ AllDiffs(t) <=> AllDiffs(w) /\ m.kind = "status_diff"
    BY <2>1, WireGrown
  <2>3. socks'[i].wire = t
    BY <2>1
  <2> HIDE DEF t
  <2>4. \A p \in D : LastIs(t, p, mpv[p])
    BY <1>3, <1>4, <2>2
  <2>5. QED
    BY <1>3, <1>4, <2>2, <2>3, <2>4 DEF w
<1>6. UNCHANGED <<ws, shownVars, pageHistory>>
  BY DEF SendDiff
<1>7. \A p : Awaited(p) => Awaited(p)'
  BY <1>1, <1>5 DEF Awaited
<1>8. Live' <=> Live
  <2>1. ws # 0 => ws \in DOMAIN socks
    BY SocksAre DEF SockTypes
  <2>2. QED
    BY <1>1, <1>2, <1>5, <1>6, <2>1 DEF Live
<1>9. Live => \A p \in D : Awaited(p)'
  <2>1. Live => ws \in DOMAIN socks /\ socks[ws].state = "open"
    BY LiveParts DEF Live
  <2>2. QED
    BY <1>1, <1>5, <2>1 DEF Awaited
<1>10. WiresAre'
  <2> SUFFICES ASSUME NEW i \in DOMAIN socks'
               PROVE  /\ \A p \in Props : LastIs(socks'[i].wire, p, told'[p])
                      /\ StatusFollows(socks'[i].wire)
                      /\ socks'[i].state # "open" => socks'[i].wire = <<>>
    BY DEF WiresAre
  <2>1. i \in DOMAIN socks
    BY <1>1
  <2>2. /\ \A p \in Props : LastIs(socks[i].wire, p, told[p])
        /\ StatusFollows(socks[i].wire)
        /\ socks[i].state # "open" => socks[i].wire = <<>>
    BY <2>1 DEF PageShown, WiresAre
  <2>3. CASE socks[i].state = "open"
    BY <1>1, <1>2, <1>5, <2>1, <2>2, <2>3
  <2>4. CASE socks[i].state # "open"
    BY <1>1, <2>1, <2>2, <2>4, WireEmpty
  <2>5. QED
    BY <2>3, <2>4
<1>11. UpdatesWait'
  BY <1>6, <1>8 DEF PageShown, UpdatesWait, shownVars
<1>12. StatusIsTold'
  <2> SUFFICES ASSUME Live, ~overtaken, NEW p \in Props, ~Awaited(p)'
               PROVE  Known(p)' = told'[p]
    BY <1>6, <1>8 DEF StatusIsTold, pageHistory
  <2>1. p \notin D /\ ~Awaited(p)
    BY <1>7, <1>9
  <2>2. Known(p) = told[p]
    BY <2>1 DEF PageShown, StatusIsTold
  <2>3. QED
    BY <1>1, <1>6, <2>1, <2>2 DEF Known, shownVars
<1>13. ViewIsStatus'
  BY <1>6, <1>8 DEF PageShown, ViewIsStatus, Untouched, shownVars, pageHistory
<1>14. IconsAreStatus'
  BY <1>6 DEF PageShown, IconsAreStatus, IconsShow, Started, IconsRight, IconRight, shownVars, pageHistory
<1>15. QED
  BY <1>7, <1>8, <1>9, <1>10, <1>11, <1>12, <1>13, <1>14 DEF PageShown

-----------------------------------------------------------------------------
\* handleStatusResponse draws every widget and every row.
LEMMA StatusDrawn ==
  ASSUME NEW s, IsFull(s), ShowStatus(s)
  PROVE  /\ \A w \in Widgets : Untouched(w)' => view'[w] = Shows(w, s)
         /\ IconsAreStatus' /\ mpv_status' = s /\ overtaken' = pending /\ s # <<>>
<1>1. /\ mpv_status' = s /\ view' = Redrawn(Widgets, s) /\ overtaken' = pending
      /\ rows' = Populated(s["playlist"], s["pause"])
      /\ moved' = [w \in Sliders |-> Blocked(w)]
      /\ apart' = (s["playlist"].pos # -1 /\ ~s["playlist"].playing)
  BY DEF ShowStatus, Drawn
<1>2. ASSUME NEW w \in Widgets, Untouched(w)' PROVE view'[w] = Shows(w, s)
  <2>1. ~Blocked(w)
    BY <1>1, <1>2 DEF Untouched, Blocked
  <2>2. QED
    BY <1>1, <2>1 DEF Redrawn
<1>3. IconsAreStatus'
  <2>1. IconsRight(rows', s["playlist"], s["pause"])
    BY <1>1, RowsPopulated DEF IsFull
  <2>2. ~apart' => Started(s["playlist"])
    BY <1>1 DEF Started
  <2>3. QED
    BY <1>1, <2>1, <2>2 DEF IconsAreStatus, IconsShow
<1>4. QED
  BY <1>1, <1>2, <1>3, FullIsNotEmpty

\* The page is as it was, or drawn anew.
LEMMA ReceiveShown ==
  ASSUME SockTypes, StatusTypes, PageShown, NEW i \in DOMAIN socks, Receive(i)
  PROVE  /\ PageShown'
         /\ \/ Live' => view'["speedReset"] = mpv_status'["speed"]
            \/ /\ UNCHANGED <<view, mpv_status, overtaken>> /\ (Live' => Live)
               /\ \A p : Awaited(p) \/ p \in DOMAIN updates => Awaited(p)' \/ p \in DOMAIN updates'
<1> DEFINE w == socks[i].wire
           t == Tail(w)
           m == Head(w)
<1>1. /\ DOMAIN socks' = DOMAIN socks /\ w # <<>>
      /\ socks'[i] = Sock(socks[i].state, t, socks[i].up)
      /\ \A j \in DOMAIN socks : j # i => socks'[j] = socks[j]
  BY MessageReceived DEF SockTypes
<1>2. socks'[i].wire = t /\ socks'[i].state = socks[i].state
  BY <1>1, SockParts
<1>3. UNCHANGED <<told, ws, block>> /\ ShownOf(m) /\ IsMessage(m)
  BY MessageShown, MessageReceived DEF SockTypes
<1>4. IsQueue(w)
  BY SocksAre DEF SockTypes
<1>5. /\ \A p : MentionedIn(w, p) <=> MentionedIn(t, p) \/ Mentions(m, p)
      /\ \A p, v : LastIs(w, p, v) =>
           /\ LastIs(t, p, v)
           /\ Mentions(m, p) /\ ~MentionedIn(t, p) => m.values[p] = v
      /\ StatusFollows(w) => StatusFollows(t) /\ (m.kind = "open" => ~AllDiffs(t))
      /\ AllDiffs(w) <=> AllDiffs(t) /\ m.kind = "status_diff"
  <2>1. w # <<>>
    BY <1>1
  <2> HIDE DEF w
  <2>2. QED
    BY <1>4, <2>1, WireTaken
<1>6. /\ \A p \in Props : LastIs(w, p, told[p])
      /\ StatusFollows(w) /\ (socks[i].state # "open" => w = <<>>)
  BY DEF PageShown, WiresAre
<1>a. w = socks[i].wire
  OBVIOUS
<1> HIDE DEF w, t, m
<1>7. \A p : Awaited(p) <=> Awaited(p)' \/ Mentions(m, p)
  BY <1>1, <1>2, <1>5, <1>a DEF Awaited
<1>8. Live' => (m.kind # "open" /\ (m.kind # "status" => Live)) \/ (Live /\ i # ws)
  <2>1. ws # 0 => ws \in DOMAIN socks
    BY SocksAre DEF SockTypes
  <2>2. QED
    BY <1>1, <1>2, <1>3, <1>5, <1>6, <1>a, <2>1 DEF Live, IsMessage
<1>9. WiresAre'
  BY <1>1, <1>2, <1>3, <1>5, <1>6 DEF PageShown, WiresAre
<1>10. CASE UNCHANGED <<shownVars, pageHistory>> /\ (m.kind = "open" \/ ws = 0)
  <2>1. Live' => Live
    BY <1>3, <1>8, <1>10 DEF Live
  <2>2. m.kind = "open" => \A p : ~Mentions(m, p)
    BY DEF Mentions
  <2>3. \A p : Live' => (Awaited(p) => Awaited(p)')
    BY <1>3, <1>7, <1>10, <2>2 DEF Live
  <2>4. UpdatesWait' /\ StatusIsTold'
    BY <1>3, <1>10, <2>1, <2>3 DEF PageShown, UpdatesWait, StatusIsTold, Known, shownVars, pageHistory
  <2>5. ViewIsStatus'
    BY <1>10, <2>1 DEF PageShown, ViewIsStatus, Untouched, shownVars, pageHistory
  <2>6. IconsAreStatus'
    BY <1>10 DEF PageShown, IconsAreStatus, IconsShow, Started, IconsRight, IconRight, shownVars, pageHistory
  <2>7. UNCHANGED <<view, mpv_status, overtaken, updates>>
    BY <1>10 DEF shownVars, pageHistory
  <2>8. QED
    BY <1>9, <2>1, <2>3, <2>4, <2>5, <2>6, <2>7 DEF PageShown
<1>11. CASE /\ m.kind = "status" /\ ws # 0 /\ ShowStatus(m.values) /\ IsFull(m.values)
            /\ UNCHANGED <<pending, updates, timer>>
  <2> DEFINE s == m.values
  <2>1. /\ \A x \in Widgets : Untouched(x)' => view'[x] = Shows(x, s)
        /\ IconsAreStatus' /\ mpv_status' = s /\ overtaken' = pending /\ s # <<>>
    BY <1>11, StatusDrawn
  <2>2. \A p \in Props : Mentions(m, p)
    BY <1>11 DEF Mentions, IsFull
  <2>3. IsFull(s)
    BY <1>11
  <2> HIDE DEF s
  <2>4. ASSUME ~overtaken', NEW p \in Props, ~Awaited(p)' PROVE Known(p)' = told'[p]
    <3>1. updates' = <<>>
      BY <1>11, <2>1, <2>4 DEF PageShown, UpdatesWait
    <3>2. Known(p)' = s[p]
      <4> DEFINE none == <<>>
      <4>1. DOMAIN none = {} /\ IsStatus(none)
        BY NoStatus
      <4>2. Known(p)' = Over(none, s)[p]
        BY <2>1, <3>1 DEF Known
      <4> HIDE DEF none
      <4>3. QED
        BY <2>3, <4>1, <4>2, OverFull
    <3>3. ~MentionedIn(t, p)
      BY <1>1, <1>2, <2>4 DEF Awaited
    <3>4. s[p] = told[p]
      BY <1>5, <1>6, <2>2, <3>3 DEF s
    <3>5. QED
      BY <1>3, <3>2, <3>4
  <2>5. UpdatesWait' /\ StatusIsTold'
    BY <1>11, <2>1, <2>4 DEF PageShown, UpdatesWait, StatusIsTold
  <2>6. ViewIsStatus'
    BY <2>1 DEF ViewIsStatus
  <2>7. view'["speedReset"] = mpv_status'["speed"]
    BY <2>1 DEF Widgets, Triggers, Shows, Untouched, Sliders
  <2>8. QED
    BY <1>9, <2>1, <2>5, <2>6, <2>7 DEF PageShown
<1>12. CASE /\ m.kind = "status_diff" /\ ws # 0 /\ IsStatus(m.values)
            /\ updates' = Over(m.values, updates) /\ pending' = TRUE /\ StartTimer
            /\ UNCHANGED <<mpv_status, view, rows, pageHistory>>
  <2> DEFINE D == m.values
  <2>1. Live' => Live
    BY <1>8, <1>12
  <2>2. \A p : Mentions(m, p) <=> p \in DOMAIN D
    BY <1>12 DEF Mentions
  <2>3. D = m.values
    OBVIOUS
  <2> HIDE DEF D
  <2>4. /\ IsStatus(Over(D, updates)) /\ DOMAIN Over(D, updates) = DOMAIN D \cup DOMAIN updates
        /\ \A p \in DOMAIN D \cup DOMAIN updates :
             Over(D, updates)[p] = IF p \in DOMAIN D THEN D[p] ELSE updates[p]
    <3>1. IsStatus(D) /\ IsStatus(updates)
      BY <1>12, <2>3 DEF StatusTypes
    <3>2. IsStatus(Over(D, updates))
      BY <3>1, OverStatus
    <3>3. DOMAIN Over(D, updates) = DOMAIN D \cup DOMAIN updates
      BY <3>1, OverStatus
    <3>4. \A p \in DOMAIN D \cup DOMAIN updates :
             Over(D, updates)[p] = IF p \in DOMAIN D THEN D[p] ELSE updates[p]
      BY DEF Over
    <3>5. QED
      BY <3>2, <3>3, <3>4
  <2>5. \A p : Awaited(p) \/ p \in DOMAIN updates => Awaited(p)' \/ p \in DOMAIN updates'
    BY <1>7, <1>12, <2>2, <2>3, <2>4
  <2>6. UpdatesWait'
    BY <1>12, <2>1 DEF PageShown, UpdatesWait
  <2>7. StatusIsTold'
    <3> SUFFICES ASSUME Live', ~overtaken', NEW p \in Props, ~Awaited(p)'
                 PROVE  Known(p)' = told'[p]
      BY DEF StatusIsTold
    <3> DEFINE e == Over(D, updates)
    <3>1. Live /\ ~overtaken /\ IsFull(mpv_status)
      BY <1>12, <2>1 DEF PageShown, UpdatesWait, StatusTypes, pageHistory
    <3>2. Known(p)' = Over(e, mpv_status)[p] /\ IsStatus(e)
      BY <1>12, <2>3, <2>4 DEF Known
    <3>a. e = Over(D, updates)
      OBVIOUS
    <3> HIDE DEF e
    <3>3. Known(p)' = IF p \in DOMAIN e THEN e[p] ELSE mpv_status[p]
      BY <3>1, <3>2, OverFull
    <3>4. Known(p) = IF p \in DOMAIN updates THEN updates[p] ELSE mpv_status[p]
      BY <3>1, OverFull DEF Known, StatusTypes
    <3>5. CASE p \in DOMAIN D
      <4>1. ~MentionedIn(t, p)
        BY <1>1, <1>2 DEF Awaited
      <4>2. D[p] = told[p]
        BY <1>5, <1>6, <2>2, <2>3, <3>5, <4>1
      <4>3. Known(p)' = D[p]
        BY <2>4, <3>3, <3>5, <3>a
      <4>4. QED
        BY <1>3, <4>2, <4>3
    <3>6. CASE p \notin DOMAIN D
      <4>1. ~Awaited(p)
        BY <1>7, <2>2, <3>6
      <4>2. Known(p) = told[p]
        BY <3>1, <4>1 DEF PageShown, StatusIsTold
      <4>3. Known(p)' = Known(p)
        BY <2>4, <3>3, <3>4, <3>6, <3>a
      <4>4. QED
        BY <1>3, <4>2, <4>3
    <3>7. QED
      BY <3>5, <3>6
  <2>8. ViewIsStatus'
    BY <1>12, <2>1 DEF PageShown, ViewIsStatus, Untouched, pageHistory
  <2>9. IconsAreStatus'
    BY <1>12 DEF PageShown, IconsAreStatus, IconsShow, Started, IconsRight, IconRight, pageHistory
  <2>10. UNCHANGED <<view, mpv_status, overtaken>>
    BY <1>12 DEF pageHistory
  <2>11. QED
    BY <1>9, <2>1, <2>5, <2>6, <2>7, <2>8, <2>9, <2>10 DEF PageShown
<1>13. QED
  BY <1>3, <1>10, <1>11, <1>12 DEF ShownOf

\* A widget shows nothing but the properties it is redrawn for.
LEMMA ShowsItsProperties ==
  ASSUME NEW w \in Widgets, NEW s, NEW t, \A p \in Triggers[w] : s[p] = t[p]
  PROVE  Shows(w, s) = Shows(w, t)
<1> USE DEF Widgets, Triggers, Shows
<1>1. CASE w = "title"
  BY <1>1 DEF Title
<1>2. CASE w = "loop"
  BY <1>2 DEF LoopValue
<1>3. CASE w = "chapter"
  BY <1>3 DEF Chapter
<1>4. CASE w \in {"duration", "speed", "speedReset", "subDelay", "audioDelay", "position"}
  BY <1>4
<1>5. CASE w \in {"tracks", "volume", "fullscreen", "playPause"}
  BY <1>5
<1>6. QED
  BY <1>1, <1>2, <1>3, <1>4, <1>5

\* handleStatusUpdate draws the widgets that the updates concern, and these are enough.
LEMMA UpdatesAreShown ==
  ASSUME SockTypes, StatusTypes, PageShown, ShowUpdates(updates), UNCHANGED socketVars
  PROVE  /\ PageShown' /\ (Live' <=> Live) /\ overtaken' = overtaken
         /\ \A p : Awaited(p)' <=> Awaited(p)
         /\ Live => \/ view'["speedReset"] = mpv_status'["speed"]
                    \/ /\ "speed" \notin DOMAIN updates
                       /\ view'["speedReset"] = view["speedReset"]
                       /\ mpv_status'["speed"] = mpv_status["speed"]
<1>1. UNCHANGED <<socks, ws, told>>
  BY DEF socketVars
<1>2. (Live' <=> Live) /\ \A p : Awaited(p)' <=> Awaited(p)
  BY <1>1 DEF Live, Awaited
<1>3. WiresAre'
  BY <1>1 DEF PageShown, WiresAre
<1>4. CASE mpv_status = <<>>
  <2>1. /\ mpv_status' = mpv_status /\ updates' = <<>> /\ overtaken' = overtaken
    BY <1>4, UpdatesDropped
  <2>2. ~Live
    BY <1>4 DEF PageShown, UpdatesWait
  <2>3. QED
    BY <1>2, <1>3, <1>4, <2>1, <2>2
    DEF PageShown, UpdatesWait, StatusIsTold, ViewIsStatus, IconsAreStatus
<1>5. CASE mpv_status # <<>>
  <2> DEFINE s == Merged(updates)
             W == RedrawnFor(updates)
  <2>1. s = Merged(updates)
    OBVIOUS
  <2> HIDE DEF s
  <2>2. /\ IsFull(s) /\ mpv_status' = s /\ updates' = <<>> /\ overtaken' = overtaken
        /\ IconsShow(rows, mpv_status) /\ Started(s["playlist"]) => IconsShow(rows', s)
        /\ view' = Redrawn(W, s)
        /\ moved' = [w \in Sliders |-> IF w \in W THEN Blocked(w) ELSE moved[w]]
        /\ ~apart' => ~apart /\ ("playlist" \in DOMAIN updates => Started(s["playlist"]))
    BY <1>5, <2>1, UpdatesShown
  <2>3. IsFull(mpv_status) /\ IsStatus(updates)
    BY <1>5 DEF StatusTypes
  <2>4. \A p \in Props : s[p] = IF p \in DOMAIN updates THEN updates[p] ELSE mpv_status[p]
    BY <2>1, <2>3, OverFull DEF Merged
  <2>5. \A p \in Props : Known(p) = s[p]
    BY <2>1 DEF Known, Merged
  <2>6. \A p \in Props : Known(p)' = s[p]
    <3> DEFINE none == <<>>
    <3>1. DOMAIN none = {} /\ IsStatus(none)
      BY NoStatus
    <3>2. \A p : Known(p)' = Over(none, s)[p]
      BY <2>2 DEF Known
    <3> HIDE DEF none
    <3>3. QED
      BY <2>2, <3>1, <3>2, OverFull
  <2>7. UpdatesWait' /\ StatusIsTold'
    <3>1. s # <<>>
      BY <2>2, FullIsNotEmpty
    <3>2. \A p \in Props : Known(p)' = Known(p)
      BY <2>5, <2>6
    <3>3. QED
      BY <1>1, <1>2, <2>2, <3>1, <3>2 DEF PageShown, UpdatesWait, StatusIsTold
  <2>8. ASSUME NEW w \in Widgets, w \notin W PROVE Shows(w, s) = Shows(w, mpv_status)
    <3>1. \A p \in Triggers[w] : p \in Props /\ p \notin DOMAIN updates
      BY <2>8, PageAssumption DEF RedrawnFor
    <3>2. \A p \in Triggers[w] : s[p] = mpv_status[p]
      BY <2>4, <3>1
    <3>3. QED
      BY <3>2, ShowsItsProperties
  <2>9. \A w \in Widgets : view'[w] = IF w \in W /\ ~Blocked(w) THEN Shows(w, s) ELSE view[w]
    BY <2>2 DEF Redrawn
  <2>10. "speedReset" \in Widgets /\ ~Blocked("speedReset")
    BY DEF Widgets, Triggers, Blocked, Sliders
  <2> HIDE DEF W
  <2>11. ViewIsStatus'
    <3> SUFFICES ASSUME Live, NEW w \in Widgets \ {"speedReset"}, Untouched(w)'
                 PROVE  view'[w] = Shows(w, s)
      BY <1>2, <2>2 DEF ViewIsStatus
    <3>1. CASE w \in W
      <4>1. ~Blocked(w)
        BY <2>2, <3>1 DEF Untouched, Blocked
      <4>2. QED
        BY <2>9, <3>1, <4>1
    <3>2. CASE w \notin W
      <4>1. Untouched(w)
        BY <2>2, <3>2 DEF Untouched
      <4>2. view[w] = Shows(w, mpv_status)
        BY <4>1 DEF PageShown, ViewIsStatus
      <4>3. QED
        BY <2>8, <2>9, <3>2, <4>2
    <3>3. QED
      BY <3>1, <3>2
  <2>12. IconsAreStatus'
    <3> SUFFICES ASSUME ~apart' PROVE IconsShow(rows', s)
      BY <2>2 DEF IconsAreStatus
    <3>1. ~apart /\ ("playlist" \in DOMAIN updates => Started(s["playlist"]))
      BY <2>2
    <3>2. IconsShow(rows, mpv_status) /\ Started(mpv_status["playlist"])
      BY <1>5, <3>1 DEF PageShown, IconsAreStatus, IconsShow
    <3>3. "playlist" \notin DOMAIN updates => s["playlist"] = mpv_status["playlist"]
      BY <2>4, PlayerAssumption
    <3>4. Started(s["playlist"])
      BY <3>1, <3>2, <3>3
    <3>5. QED
      BY <2>2, <3>2, <3>4
  <2>13. \/ view'["speedReset"] = mpv_status'["speed"]
         \/ /\ "speed" \notin DOMAIN updates
            /\ view'["speedReset"] = view["speedReset"]
            /\ mpv_status'["speed"] = mpv_status["speed"]
    <3>1. CASE "speedReset" \in W
      BY <2>2, <2>9, <2>10, <3>1 DEF Shows
    <3>2. CASE "speedReset" \notin W
      <4>1. "speed" \in Triggers["speedReset"]
        BY DEF Triggers
      <4>2. "speed" \notin DOMAIN updates /\ "speed" \in Props
        BY <2>10, <3>2, <4>1, PageAssumption DEF W, RedrawnFor
      <4>3. QED
        BY <2>2, <2>4, <2>9, <2>10, <3>2, <4>2
    <3>3. QED
      BY <3>1, <3>2
  <2>14. QED
    BY <1>2, <1>3, <2>2, <2>7, <2>11, <2>12, <2>13 DEF PageShown
<1>6. QED
  BY <1>4, <1>5

-----------------------------------------------------------------------------
\* Commands leave the messages to the page alone.
LEMMA SentKeeps ==
  ASSUME SockTypes, SwitchTypes, NEW cs, CommandsSent(cs)
  PROVE  WiresKept /\ ViewKept
<1>1. WiresKept
  <2>1. AllFormed(cs) /\ socks' = Sends(cs)
    BY DEF CommandsSent
  <2>2. /\ DOMAIN Sends(cs) = DOMAIN socks
        /\ \/ Sends(cs) = socks
           \/ /\ ws \in DOMAIN socks
              /\ Sends(cs) = SockSet(socks, ws,
                   Sock(socks[ws].state, socks[ws].wire, socks[ws].up \o cs))
    BY <2>1, Sent DEF SockTypes
  <2>3. QED
    BY <2>1, <2>2, SockParts DEF WiresKept, SockSet
<1>2. ViewKept
  BY DEF CommandsSent, ViewKept, Untouched, pageHistory, SwitchTypes
<1>3. QED
  BY <1>1, <1>2

\* What the page shows, whatever happens
LEMMA PageShownStep ==
  ASSUME PlayerTypes, SockTypes, StatusTypes, MenuTypes, SwitchTypes, PageShown, [Next]_vars
  PROVE  PageShown'
<1>1. ASSUME UNCHANGED statusKept PROVE PageShown'
  BY <1>1, KeptShown DEF statusKept, WiresKept, ViewKept, Untouched, pageHistory
<1>2. ASSUME NEW cs, CommandsSent(cs) PROVE WiresKept /\ ViewKept
  BY <1>2, SentKeeps
<1>3. ASSUME NEW cs, CommandsSent(cs) PROVE PageShown'
  BY <1>2, <1>3, KeptShown DEF CommandsSent, pageHistory
<1>4. ASSUME NEW w \in Sliders, Drag(w) PROVE PageShown'
  <2>1. UNCHANGED <<socks, told, ws, mpv_status, rows, pending, updates, overtaken, apart>>
    BY <1>4 DEF Drag, socketVars
  <2>2. WiresKept
    BY <2>1 DEF WiresKept
  <2>3. ASSUME NEW x \in Widgets \ {"speedReset"}, Untouched(x)'
        PROVE  Untouched(x) /\ view'[x] = view[x]
    <3>1. moved' = [moved EXCEPT ![w] = TRUE] /\ DOMAIN moved = Sliders
      BY <1>4 DEF Drag, SwitchTypes
    <3>2. x # w /\ Untouched(x)
      BY <2>3, <3>1 DEF Untouched
    <3>3. \E t : view' = [view EXCEPT ![w] = t]
      BY <1>4 DEF Drag
    <3>4. QED
      BY <3>2, <3>3 DEF SwitchTypes
  <2>4. QED
    BY <2>1, <2>2, <2>3, KeptShown DEF ViewKept
<1>5. ASSUME NEW i \in DOMAIN socks, TakeCommand(i) PROVE PageShown'
  <2>1. /\ DOMAIN socks' = DOMAIN socks
        /\ socks'[i] = Sock(socks[i].state, socks[i].wire, Tail(socks[i].up))
        /\ \A j \in DOMAIN socks : j # i => socks'[j] = socks[j]
    BY <1>5, Taken DEF SockTypes
  <2>2. WiresKept
    BY <2>1, SockParts DEF WiresKept
  <2>3. QED
    BY <1>5, <2>2, KeptShown DEF TakeCommand, ViewKept, Untouched, shownVars, pageHistory
<1>6. ASSUME NEW i \in DOMAIN socks, Accept(i) \/ Receive(i) \/ Lose(i, TRUE) \/ Lose(i, FALSE)
      PROVE  PageShown'
  <2>1. ASSUME NEW g, Lose(i, g) PROVE PageShown'
    BY <2>1, LoseShown
  <2>2. QED
    BY <1>6, <2>1, AcceptShown, ReceiveShown
<1>7. ASSUME NEW D, SendDiff(D) PROVE PageShown'
  BY <1>7, DiffShown
<1>8. QED
  BY <1>1, <1>3, <1>4, <1>5, <1>6, <1>7, SocketShown, UpdatesAreShown, StatusStep DEF Dragged

\* A property whose value is changed waits to be sent.
LEMMA ChangesWait ==
  ASSUME PlayerNext
  PROVE  dirty \subseteq dirty' /\ \A p \in Props \ dirty' : mpv'[p] = mpv[p]
<1>1. ASSUME NEW m, Become(m) PROVE dirty \subseteq dirty' /\ \A p \in Props \ dirty' : mpv'[p] = mpv[p]
  BY <1>1 DEF Become
<1>2. (\E m : Become(m)) \/ UNCHANGED <<mpv, dirty>>
  BY DEF PlayerNext, Fail, Read, Write, Shuffle, LoadFile, CheckIdle, Count, Jump, Unpause, StartFile,
         WindowChange
<1>3. QED
  BY <1>1, <1>2

\* What the server holds stays what mpv is at, but for what is dirty.
LEMMA ToldStep ==
  ASSUME PlayerTypes, SockTypes, StatusTypes, MenuTypes, ToldIsTrue, [Next]_vars
  PROVE  ToldIsTrue'
<1>1. ASSUME NEW D, SendDiff(D), mpv' = mpv PROVE ToldIsTrue'
  <2>1. D \subseteq dirty /\ \A p \in Props : told'[p] = IF p \in D THEN mpv[p] ELSE told[p]
    BY <1>1, DiffSent DEF PlayerTypes, SockTypes, StatusTypes
  <2>2. dirty' = dirty \ D
    BY <1>1 DEF SendDiff
  <2>3. QED
    BY <1>1, <2>1, <2>2 DEF ToldIsTrue
<1>2. (\E D : SendDiff(D) /\ mpv' = mpv) \/ told' = told
  <2>1. ASSUME NEW i \in DOMAIN socks, Accept(i) \/ Receive(i) \/ Lose(i, TRUE) \/ Lose(i, FALSE)
        PROVE  told' = told
    BY <2>1 DEF Accept, Receive, Lose
  <2>2. QED
    BY <2>1, StatusStep DEF statusKept, CommandsSent, Dragged, Drag, socketVars, TakeCommand
<1>3. CASE told' = told /\ ~(\E D : SendDiff(D) /\ mpv' = mpv)
  <2>1. ASSUME PlayerNext PROVE ToldIsTrue'
    BY <1>3, <2>1, ChangesWait DEF ToldIsTrue
  <2>2. ASSUME mpv' = mpv, dirty' = dirty PROVE ToldIsTrue'
    BY <1>3, <2>2 DEF ToldIsTrue
  <2>3. QED
    BY <1>3, <2>1, <2>2, PlayerStep
<1>4. QED
  BY <1>1, <1>2, <1>3

-----------------------------------------------------------------------------
(* The button that resets the speed shows 100 before the player has it.     *)

Resets(cs) == \E c \in ToSet(cs) : c.cmd = "reset_playback_speed"

ResetUnderWay == job.cmd = "reset_playback_speed" \/ Resets(socks[ws].up)

ResetWrites == job.cmd = "reset_playback_speed" => job.step = "write"

\* A value of the speed has yet to be drawn.
SpeedOutstanding == "speed" \in dirty \/ Awaited("speed") \/ "speed" \in DOMAIN updates

ResetIsStatus ==
  Live /\ ~overtaken =>
    \/ view["speedReset"] = mpv_status["speed"]
    \/ view["speedReset"] = 100 /\ ResetUnderWay
    \/ SpeedOutstanding

\* The command of the button that resets the speed waits for nothing.
LEMMA ResetWritesStep ==
  ASSUME PlayerTypes, SockTypes, MenuTypes, ResetWrites, [Next]_vars
  PROVE  ResetWrites'
<1>1. ASSUME NEW c, Start(c) PROVE ResetWrites'
  <2>1. job'.cmd = c.cmd /\ job'.step = FirstStep(c)
    BY <1>1 DEF Start
  <2>2. c.cmd = "reset_playback_speed" => FirstStep(c) = "write"
    <3> SUFFICES ASSUME c.cmd = "reset_playback_speed" PROVE FirstStep(c) = "write"
      OBVIOUS
    <3>1. Accepts(c)
      BY DEF Accepts, NumberCommands, EntryCommands
    <3>2. c.cmd \notin DOMAIN Flag
      BY DEF Flag
    <3>3. ReadBy(c.cmd) = {}
      BY <3>2, Zenon DEF ReadBy
    <3>4. QED
      BY <3>1, <3>3 DEF FirstStep
  <2>3. QED
    BY <2>1, <2>2 DEF ResetWrites
<1>2. ASSUME PlayerNext PROVE ResetWrites'
  <2>1. NoJob.cmd # "reset_playback_speed"
    BY DEF NoJob
  <2>2. CASE job.cmd # "reset_playback_speed"
    <3>1. NoJob.step = "none" /\ (job.step # "none" => job # NoJob /\ DOMAIN job = JobParts)
      BY DEF NoJob, PlayerTypes
    <3>2. CASE LoadFile \/ CheckIdle \/ Jump
      <4>1. job # NoJob /\ (job' = NoJob \/ \E st : Goto(st))
        BY <3>1, <3>2 DEF LoadFile, CheckIdle, Jump, Release
      <4>2. QED
        BY <2>1, <2>2, <4>1, GoesOn DEF ResetWrites
    <3>3. CASE Read
      <4>1. PICK p \in ReadBy(job.cmd) : job' = [job EXCEPT !.read = mpv[p], !.step = "write"]
        BY <3>3 DEF Read
      <4>2. DOMAIN job = JobParts
        BY <3>1, <3>3 DEF Read
      <4>3. QED
        BY <2>2, <4>1, <4>2 DEF ResetWrites, JobParts
    <3>4. CASE Count
      <4>1. job' = NoJob \/ job' = [job EXCEPT !.read = Len(Playlist.files) - 1, !.step = "jump"]
        BY <3>4 DEF Count, Release
      <4>2. DOMAIN job = JobParts
        BY <3>1, <3>4 DEF Count
      <4>3. QED
        BY <2>1, <2>2, <4>1, <4>2 DEF ResetWrites, JobParts
    <3>5. CASE \E ch \in bounds.alters : WindowChange(ch)
      <4>1. job' = job \/ (job # NoJob /\ job' = [job EXCEPT !.touched = TRUE])
        BY <3>5 DEF WindowChange
      <4>2. QED
        BY <2>2, <4>1 DEF ResetWrites, JobParts, PlayerTypes
    <3>6. CASE Fail \/ Write \/ Shuffle \/ Unpause \/ StartFile
      <4>1. job' = job \/ job' = NoJob
        BY <3>6 DEF Fail, Write, Shuffle, Unpause, StartFile, Release
      <4>2. QED
        BY <2>1, <2>2, <4>1 DEF ResetWrites
    <3>7. QED
      BY <1>2, <3>2, <3>3, <3>4, <3>5, <3>6 DEF PlayerNext
  <2>3. CASE job.cmd = "reset_playback_speed"
    <3>1. job.step = "write" /\ job # NoJob /\ DOMAIN job = JobParts
      BY <2>1, <2>3 DEF ResetWrites, PlayerTypes
    <3>2. job' = job \/ job' = NoJob \/ job' = [job EXCEPT !.touched = TRUE]
      BY <1>2, <3>1 DEF PlayerNext, Fail, Read, Write, Shuffle, LoadFile, CheckIdle, Count, Jump, Unpause,
                  StartFile, WindowChange, Release
    <3>3. QED
      BY <2>1, <3>1, <3>2 DEF ResetWrites, JobParts
  <2>4. QED
    BY <2>2, <2>3
<1>3. ASSUME job' = job PROVE ResetWrites'
  BY <1>3 DEF ResetWrites
<1>4. QED
  BY <1>1, <1>2, <1>3, PlayerStep

\* reset_playback_speed makes the speed 100.
LEMMA SpeedReset ==
  ASSUME NEW j, j.cmd = "reset_playback_speed", NEW m, "speed" \in DOMAIN m
  PROVE  Effect(j, m)["speed"] = 100
<1>1. /\ j.cmd \notin DOMAIN Flag /\ j.cmd \notin DOMAIN Adds /\ j.cmd \notin DOMAIN Sets
      /\ j.cmd \notin DOMAIN Selects
      /\ j.cmd \notin {"play", "pause"} /\ j.cmd # "cycle" /\ j.cmd # "increase_playback_speed"
      /\ j.cmd # "playlist_prev"
  BY DEF Flag, Adds, Sets, Selects
<1>2. Effect(j, m) = [m EXCEPT !["speed"] = 100]
  BY <1>1, Zenon DEF Effect
<1>3. QED
  BY <1>2

FollowInv == ToldIsTrue /\ PageShown /\ ResetWrites /\ ResetIsStatus

\* The player has done what the button asked for, or still has to.
LEMMA PlayerResets ==
  ASSUME PlayerTypes, StatusTypes, FollowInv, PlayerNext, UNCHANGED pageVars
  PROVE  ResetIsStatus'
<1>1. UNCHANGED <<told, socks, ws, view, mpv_status, updates, overtaken>>
  BY DEF pageVars, socketVars, shownVars, pageHistory
<1>2. /\ (Live' <=> Live) /\ (Awaited("speed")' <=> Awaited("speed"))
  BY <1>1 DEF Live, Awaited
<1>3. dirty \subseteq dirty'
  BY ChangesWait
<1>4. SUFFICES ASSUME Live, ~overtaken, ~SpeedOutstanding'
               PROVE  \/ view["speedReset"] = mpv_status["speed"]
                      \/ view["speedReset"] = 100 /\ ResetUnderWay'
  BY <1>1, <1>2 DEF ResetIsStatus
<1>5. ~SpeedOutstanding /\ "speed" \notin dirty'
  BY <1>1, <1>2, <1>3, <1>4 DEF SpeedOutstanding
<1>6. \/ view["speedReset"] = mpv_status["speed"]
      \/ view["speedReset"] = 100 /\ ResetUnderWay
  BY <1>4, <1>5 DEF FollowInv, ResetIsStatus
<1>7. CASE job.cmd # "reset_playback_speed" \/ job'.cmd = "reset_playback_speed"
  BY <1>1, <1>6, <1>7 DEF ResetUnderWay
<1>8. CASE job.cmd = "reset_playback_speed" /\ job'.cmd # "reset_playback_speed"
  <2>1. job.step = "write" /\ job' # job
    BY <1>8 DEF FollowInv, ResetWrites
  <2>2. job # NoJob /\ DOMAIN job = JobParts
    BY <1>8 DEF NoJob, PlayerTypes
  <2>3. ~(\E ch \in bounds.alters : WindowChange(ch))
    BY <1>8, <2>2 DEF WindowChange, JobParts
  <2>4. Write
    BY <2>1, <2>3 DEF PlayerNext, Fail, Read, Shuffle, LoadFile, CheckIdle, Count, Jump, Unpause,
                      StartFile
  <2>5. "speed" \in Props
    BY PageAssumption DEF Widgets, Triggers
  <2>6. Effect(job, mpv)["speed"] = 100
    BY <1>8, <2>5, SpeedReset DEF PlayerTypes, IsFull
  <2>7. mpv' = Effect(job, mpv)
    BY <2>4 DEF Write, Become
  <2>8. mpv["speed"] = 100
    BY <1>5, <2>5, <2>6, <2>7, ChangesWait
  <2>9. told["speed"] = 100
    BY <1>5, <2>5, <2>8 DEF SpeedOutstanding, FollowInv, ToldIsTrue
  <2>10. Known("speed") = 100
    BY <1>4, <1>5, <2>5, <2>9 DEF SpeedOutstanding, FollowInv, PageShown, StatusIsTold
  <2>11. IsFull(mpv_status) /\ IsStatus(updates)
    BY <1>4 DEF FollowInv, PageShown, UpdatesWait, StatusTypes
  <2>12. mpv_status["speed"] = 100
    <3> DEFINE p == "speed"
    <3>1. p \in Props /\ p \notin DOMAIN updates /\ Known(p) = 100
      BY <1>5, <2>5, <2>10 DEF SpeedOutstanding
    <3> HIDE DEF p
    <3>2. Known(p) = mpv_status[p]
      BY <2>11, <3>1, OverFull DEF Known
    <3>3. QED
      BY <3>1, <3>2 DEF p
  <2>13. QED
    BY <1>6, <2>12
<1>9. QED
  BY <1>7, <1>8

\* Commands that are sent while the page is live are on their way.
LEMMA SentIsLast ==
  ASSUME SockTypes, NEW cs, AllFormed(cs), socks' = Sends(cs)
  PROVE  Live => \A c \in ToSet(socks[ws].up) \cup ToSet(cs) : c \in ToSet(socks'[ws].up)
<1> SUFFICES ASSUME Live
             PROVE  \A c \in ToSet(socks[ws].up) \cup ToSet(cs) : c \in ToSet(socks'[ws].up)
  OBVIOUS
<1>1. ws \in DOMAIN socks /\ ws # 0 /\ Opened(ws)
  BY LiveParts DEF Live
<1> DEFINE u == socks[ws].up
           v == u \o cs
<1>2. socks[ws] = Sock(socks[ws].state, socks[ws].wire, u) /\ AllFormed(u)
  BY <1>1, SocksAre DEF SockTypes
<1>3. socks' = SockSet(socks, ws, [socks[ws] EXCEPT !.up = v])
  BY <1>1 DEF Sends, SockSet
<1>4. ToSet(v) = ToSet(u) \cup ToSet(cs)
  BY <1>2, QueueJoined DEF AllFormed
<1> HIDE DEF v
<1>5. [socks[ws] EXCEPT !.up = v] = Sock(socks[ws].state, socks[ws].wire, v)
  BY <1>2, SockChanged
<1>6. socks'[ws].up = v
  BY <1>1, <1>3, <1>5, SockParts DEF SockSet
<1>7. QED
  BY <1>4, <1>6

\* A command of the button is not lost on its way.
ResetKept == (job.cmd = "reset_playback_speed" => job'.cmd = "reset_playback_speed") /\ dirty' = dirty

\* What the button shows was asked for, is on its way, or is the speed of mpv.
LEMMA ResetStep ==
  ASSUME PlayerTypes, SockTypes, StatusTypes, MenuTypes, SwitchTypes, FollowInv, [Next]_vars
  PROVE  ResetIsStatus'
<1>0. PageShown /\ "speedReset" \in Widgets /\ "speedReset" \notin Sliders
  BY DEF FollowInv, Widgets, Triggers, Sliders
<1>1. CASE PlayerNext /\ UNCHANGED pageVars
  BY <1>1, PlayerResets
<1>2. ASSUME NEW D, SendDiff(D), job' = job PROVE ResetIsStatus'
  <2>1. /\ (Live' => Live) /\ (Awaited("speed") => Awaited("speed")')
        /\ Live => \A p \in D : Awaited(p)'
    BY <1>0, <1>2, DiffShown
  <2>2. UNCHANGED <<view, mpv_status, updates, overtaken, ws>> /\ dirty' = dirty \ D
    BY <1>2 DEF SendDiff, shownVars, pageHistory
  <2>3. Live => socks'[ws].up = socks[ws].up
    <3>1. /\ \A i \in DOMAIN socks :
              /\ socks[i].state # "open" => socks'[i] = socks[i]
              /\ socks[i].state = "open" =>
                   socks'[i] = Sock("open", Append(socks[i].wire, DiffMessage(D)), socks[i].up)
      BY <1>2, DiffSent DEF PlayerTypes, SockTypes, StatusTypes
    <3>2. Live => ws \in DOMAIN socks
      BY LiveParts
    <3>3. QED
      BY <3>1, <3>2, SockParts
  <2>4. Live => (SpeedOutstanding => SpeedOutstanding')
    BY <2>1, <2>2 DEF SpeedOutstanding
  <2>5. Live => (ResetUnderWay => ResetUnderWay')
    BY <1>2, <2>2, <2>3 DEF ResetUnderWay
  <2>6. QED
    BY <2>1, <2>2, <2>4, <2>5 DEF FollowInv, ResetIsStatus
<1>3. ASSUME ResetKept PROVE ResetIsStatus'
  \* Nothing that the page knows of the speed is changed, and commands are not lost.
  <2> DEFINE Unmoved == /\ UNCHANGED <<mpv_status, updates, overtaken>>
                        /\ (Live' <=> Live) /\ (Awaited("speed")' <=> Awaited("speed"))
  <2>1. ASSUME Unmoved, view'["speedReset"] = view["speedReset"],
               Live => (ResetUnderWay => ResetUnderWay')
        PROVE  ResetIsStatus'
    <3>1. SpeedOutstanding' <=> SpeedOutstanding
      BY <1>3, <2>1 DEF SpeedOutstanding, ResetKept
    <3>2. QED
      BY <2>1, <3>1 DEF FollowInv, ResetIsStatus
  <2>2. CASE UNCHANGED statusKept
    <3>1. Unmoved
      BY <2>2 DEF statusKept, pageHistory, Live, Awaited
    <3>2. ResetUnderWay => ResetUnderWay'
      BY <1>3, <2>2 DEF statusKept, ResetUnderWay, ResetKept
    <3>3. view'["speedReset"] = view["speedReset"]
      BY <2>2 DEF statusKept
    <3>4. QED
      BY <2>1, <3>1, <3>2, <3>3
  <2>3. ASSUME NEW cs, CommandsSent(cs) PROVE ResetIsStatus'
    <3>1. AllFormed(cs) /\ socks' = Sends(cs) /\ UNCHANGED <<ws, mpv_status, updates, overtaken>>
      BY <2>3 DEF CommandsSent, pageHistory
    <3>2. WiresKept /\ ViewKept
      BY <2>3, SentKeeps
    <3>3. Unmoved
      BY <1>0, <2>3, <3>1, <3>2, KeptShown DEF CommandsSent, pageHistory
    <3>4. Live => \A c \in ToSet(socks[ws].up) \cup ToSet(cs) : c \in ToSet(socks'[ws].up)
      BY <3>1, SentIsLast
    <3>5. ResetUnderWay /\ Live => ResetUnderWay'
      BY <1>3, <3>1, <3>4 DEF ResetUnderWay, Resets, ResetKept
    <3>6. CASE view' = view
      BY <2>1, <3>3, <3>5, <3>6
    <3>7. CASE /\ view' = [view EXCEPT !["speedReset"] = 100]
               /\ \E c : cs = <<c>> /\ c.cmd = "reset_playback_speed"
      <4>1. view'["speedReset"] = 100
        BY <1>0, <3>7 DEF SwitchTypes
      <4>2. \E c \in ToSet(cs) : c.cmd = "reset_playback_speed"
        BY <3>7, QueueOne
      <4>3. Live => ResetUnderWay'
        BY <3>1, <3>4, <4>2 DEF ResetUnderWay, Resets
      <4>4. QED
        BY <3>3, <4>1, <4>3 DEF ResetIsStatus
    <3>8. QED
      BY <2>3, <3>6, <3>7 DEF CommandsSent
  <2>4. ASSUME NEW w \in Sliders, Drag(w) PROVE ResetIsStatus'
    <3>1. UNCHANGED <<socks, ws, mpv_status, updates, overtaken>>
      BY <2>4 DEF Drag, socketVars
    <3>2. Unmoved
      BY <3>1 DEF Live, Awaited
    <3>3. ResetUnderWay => ResetUnderWay'
      BY <1>3, <3>1 DEF ResetUnderWay, ResetKept
    <3>4. view'["speedReset"] = view["speedReset"]
      BY <1>0, <2>4 DEF Drag, SwitchTypes
    <3>5. QED
      BY <2>1, <3>2, <3>3, <3>4
  <2>5. ASSUME NEW i \in DOMAIN socks, TakeCommand(i) PROVE ResetIsStatus'
    <3>1. /\ DOMAIN socks' = DOMAIN socks /\ socks[i].up # <<>>
          /\ socks'[i] = Sock(socks[i].state, socks[i].wire, Tail(socks[i].up))
          /\ \A j \in DOMAIN socks : j # i => socks'[j] = socks[j]
      BY <2>5, Taken DEF SockTypes
    <3>2. /\ socks'[i].wire = socks[i].wire /\ socks'[i].state = socks[i].state
          /\ socks'[i].up = Tail(socks[i].up)
      <4> DEFINE u == Tail(socks[i].up)
      <4>1. socks'[i] = Sock(socks[i].state, socks[i].wire, u)
        BY <3>1
      <4> HIDE DEF u
      <4>2. socks'[i].wire = socks[i].wire /\ socks'[i].state = socks[i].state /\ socks'[i].up = u
        BY <4>1, SockParts
      <4>3. QED
        BY <4>2 DEF u
    <3>3. WiresKept /\ UNCHANGED <<told, ws, shownVars, pageHistory>>
      BY <2>5, <3>1, <3>2 DEF WiresKept, TakeCommand
    <3>4. Unmoved
      BY <1>0, <3>3, KeptShown DEF shownVars, pageHistory, ViewKept, Untouched
    <3>5. job'.cmd = Head(socks[i].up).cmd
      BY <2>5 DEF TakeCommand, Start
    <3>6. \A c \in ToSet(socks[i].up) : c = Head(socks[i].up) \/ c \in ToSet(Tail(socks[i].up))
      BY <3>1, SocksAre, HeadOrTail DEF SockTypes, AllFormed
    <3>7. Live => (ResetUnderWay => ResetUnderWay')
      <4>1. Live => ws \in DOMAIN socks
        BY LiveParts
      <4>2. QED
        BY <1>3, <3>1, <3>2, <3>3, <3>5, <3>6, <4>1 DEF ResetUnderWay, Resets, ResetKept
    <3>8. QED
      BY <2>1, <3>3, <3>4, <3>7 DEF shownVars
  <2>6. ASSUME NEW i \in DOMAIN socks, Accept(i) PROVE ResetIsStatus'
    <3>1. \A p \in Props : Awaited(p)'
      BY <1>0, <2>6, AcceptShown
    <3>2. "speed" \in Props
      BY PageAssumption DEF Widgets, Triggers
    <3>3. QED
      BY <3>1, <3>2 DEF ResetIsStatus, SpeedOutstanding
  <2>7. ASSUME NEW i \in DOMAIN socks, Receive(i) PROVE ResetIsStatus'
    <3>1. \/ Live' => view'["speedReset"] = mpv_status'["speed"]
          \/ /\ UNCHANGED <<view, mpv_status, overtaken>> /\ (Live' => Live)
             /\ \A p : Awaited(p) \/ p \in DOMAIN updates => Awaited(p)' \/ p \in DOMAIN updates'
      BY <1>0, <2>7, ReceiveShown
    <3>2. Live => socks'[ws].up = socks[ws].up /\ ws' = ws
      <4>1. /\ socks'[i] = Sock(socks[i].state, Tail(socks[i].wire), socks[i].up)
            /\ \A j \in DOMAIN socks : j # i => socks'[j] = socks[j]
        BY <2>7, MessageReceived DEF SockTypes
      <4>2. socks'[i].up = socks[i].up
        <5> DEFINE t == Tail(socks[i].wire)
        <5>1. socks'[i] = Sock(socks[i].state, t, socks[i].up)
          BY <4>1
        <5> HIDE DEF t
        <5>2. QED
          BY <5>1, SockParts
      <4>3. Live => ws \in DOMAIN socks
        BY LiveParts
      <4>4. QED
        BY <2>7, <4>1, <4>2, <4>3 DEF Receive
    <3>3. Live => (ResetUnderWay => ResetUnderWay')
      BY <1>3, <3>2 DEF ResetUnderWay, ResetKept
    <3>4. CASE Live' => view'["speedReset"] = mpv_status'["speed"]
      BY <3>4 DEF ResetIsStatus
    <3>5. CASE /\ UNCHANGED <<view, mpv_status, overtaken>> /\ (Live' => Live)
               /\ \A p : Awaited(p) \/ p \in DOMAIN updates => Awaited(p)' \/ p \in DOMAIN updates'
      <4>1. SpeedOutstanding => SpeedOutstanding'
        BY <1>3, <3>5 DEF SpeedOutstanding, ResetKept
      <4>2. QED
        BY <3>3, <3>5, <4>1 DEF FollowInv, ResetIsStatus
    <3>6. QED
      BY <3>1, <3>4, <3>5
  <2>8. ASSUME NEW i \in DOMAIN socks, NEW g, Lose(i, g) PROVE ResetIsStatus'
    BY <1>0, <2>8, LoseShown DEF ResetIsStatus
  <2>9. CASE InitWs /\ UNCHANGED <<told, shownVars, pageHistory>>
    BY <1>0, <2>9, SocketShown DEF ResetIsStatus
  <2>10. CASE ShowUpdates(updates) /\ UNCHANGED socketVars
    <3>1. /\ (Live' <=> Live) /\ overtaken' = overtaken /\ (Awaited("speed")' <=> Awaited("speed"))
          /\ Live => \/ view'["speedReset"] = mpv_status'["speed"]
                     \/ /\ "speed" \notin DOMAIN updates
                        /\ view'["speedReset"] = view["speedReset"]
                        /\ mpv_status'["speed"] = mpv_status["speed"]
      BY <1>0, <2>10, UpdatesAreShown
    <3>2. ResetUnderWay => ResetUnderWay'
      BY <1>3, <2>10 DEF ResetUnderWay, ResetKept, socketVars
    <3>3. "speed" \notin DOMAIN updates => (SpeedOutstanding => SpeedOutstanding')
      BY <1>3, <3>1 DEF SpeedOutstanding, ResetKept
    <3>4. QED
      BY <3>1, <3>2, <3>3 DEF FollowInv, ResetIsStatus
  <2> HIDE DEF Same
  <2>11. QED
    BY <1>2, <2>2, <2>3, <2>4, <2>5, <2>6, <2>7, <2>8, <2>9, <2>10, StatusStep DEF Dragged
<1>4. (PlayerNext /\ UNCHANGED pageVars) \/ ResetKept \/ \E D : SendDiff(D) /\ job' = job
  <2>1. ASSUME NEW c, Start(c), dirty' = dirty PROVE ResetKept
    <3>1. job.cmd = "none"
      BY <2>1 DEF Start, NoJob
    <3>2. QED
      BY <2>1, <3>1 DEF ResetKept
  <2>2. QED
    BY <2>1, PlayerStep DEF ResetKept
<1>5. QED
  BY <1>1, <1>2, <1>3, <1>4

\* At the start the page is not live.
LEMMA FollowInvInitially == Init => FollowInv
<1> SUFFICES ASSUME Init PROVE FollowInv
  OBVIOUS
<1> USE DEF Init
<1>1. socks = <<NewSocket>> /\ ws = 1 /\ told = FirstState /\ mpv = FirstState
      /\ mpv_status = <<>> /\ updates = <<>> /\ job = NoJob
  BY DEF PageInit, PlayerInit
<1>2. /\ DOMAIN socks = {1} /\ socks[1] = NewSocket
      /\ NewSocket.wire = <<>> /\ NewSocket.state = "connecting"
  BY <1>1 DEF NewSocket
<1>3. ~Live
  BY <1>1, <1>2 DEF Live
<1>4. WiresAre
  BY <1>2, WireEmpty DEF WiresAre
<1>5. UpdatesWait /\ StatusIsTold /\ ViewIsStatus /\ IconsAreStatus /\ ResetIsStatus
  BY <1>1, <1>3 DEF UpdatesWait, StatusIsTold, ViewIsStatus, IconsAreStatus, ResetIsStatus
<1>6. ToldIsTrue /\ ResetWrites
  BY <1>1 DEF ToldIsTrue, ResetWrites, NoJob
<1>7. QED
  BY <1>4, <1>5, <1>6 DEF FollowInv, PageShown

\* Every step keeps the invariant of the page.
LEMMA FollowInvInductive == CommandInv /\ FollowInv /\ [Next]_vars => FollowInv'
<1> SUFFICES ASSUME CommandInv, FollowInv, [Next]_vars PROVE FollowInv'
  OBVIOUS
<1>1. PlayerTypes /\ SockTypes /\ StatusTypes /\ MenuTypes /\ SwitchTypes
  BY DEF CommandInv, PlayerInv
<1>2. ToldIsTrue /\ PageShown /\ ResetWrites
  BY DEF FollowInv
<1>3. QED
  BY <1>1, <1>2, ToldStep, PageShownStep, ResetWritesStep, ResetStep DEF FollowInv

\* The invariant of the page holds in every reachable state.
LEMMA FollowInvCorrect == Spec => []FollowInv
BY CommandInvCorrect, FollowInvInitially, FollowInvInductive, PTL DEF Spec

\* When nothing is under way, the status of the page is that of mpv.
LEMMA QuietShows ==
  ASSUME CommandInv, FollowInv, Quiet, ~overtaken
  PROVE  /\ Live /\ \A p \in Props : mpv_status[p] = mpv[p]
         /\ IsFull(mpv_status) /\ RowsNamed(rows, mpv_status["playlist"])
         /\ view["speedReset"] = mpv["speed"]
<1> USE DEF Quiet
<1>1. SockTypes /\ StatusTypes /\ ToldIsTrue /\ PageShown /\ ResetIsStatus
  BY DEF CommandInv, FollowInv
<1>2. ws \in DOMAIN socks
  BY <1>1, SocksAre DEF SockTypes
<1>3. Live
  BY <1>2 DEF Live, AllDiffs
<1>4. \A p : ~Awaited(p)
  BY WireEmpty DEF Awaited
<1>5. updates = <<>> /\ IsFull(mpv_status) /\ RowsNamed(rows, mpv_status["playlist"])
  BY <1>1 DEF PageShown, UpdatesWait, StatusTypes
<1>6. \A p \in Props : Known(p) = mpv_status[p]
  <2> DEFINE none == <<>>
  <2>1. DOMAIN none = {} /\ IsStatus(none)
    BY NoStatus
  <2>2. \A p : Known(p) = Over(none, mpv_status)[p]
    BY <1>5 DEF Known
  <2> HIDE DEF none
  <2>3. QED
    BY <1>5, <2>1, <2>2, OverFull
<1>7. \A p \in Props : mpv_status[p] = mpv[p]
  BY <1>1, <1>3, <1>4, <1>6 DEF ToldIsTrue, PageShown, StatusIsTold
<1>8. ~SpeedOutstanding
  BY <1>4, <1>5 DEF SpeedOutstanding
<1>9. ~ResetUnderWay
  BY <1>2, QueueEmpty DEF ResetUnderWay, Resets, NoJob
<1>10. "speed" \in Props
  BY PageAssumption DEF Widgets, Triggers
<1>11. QED
  BY <1>1, <1>3, <1>5, <1>7, <1>8, <1>9, <1>10 DEF ResetIsStatus

\* When nothing is under way, the page shows what the player is at.
LEMMA QuietFollows == CommandInv /\ FollowInv => PageFollows
<1> SUFFICES ASSUME CommandInv, FollowInv, Quiet, ~overtaken
             PROVE  /\ \A w \in Widgets : (w \in Sliders => ~moved[w]) => view[w] = Shows(w, mpv)
                    /\ Len(rows) = Len(Playlist.files)
                    /\ \A i \in DOMAIN rows : RowIs(rows[i], Entries(Playlist)[i], i)
  BY DEF PageFollows
<1>1. /\ Live /\ \A p \in Props : mpv_status[p] = mpv[p]
      /\ IsFull(mpv_status) /\ RowsNamed(rows, mpv_status["playlist"])
      /\ view["speedReset"] = mpv["speed"]
  BY QuietShows
<1>2. ViewIsStatus /\ IconsAreStatus
  BY DEF FollowInv, PageShown
<1>3. \A w \in Widgets : Shows(w, mpv_status) = Shows(w, mpv)
  BY <1>1, PageAssumption, ShowsItsProperties
<1>4. Shows("speedReset", mpv) = mpv["speed"]
  BY DEF Shows
<1>5. ASSUME NEW w \in Widgets, w \in Sliders => ~moved[w] PROVE view[w] = Shows(w, mpv)
  <2>1. CASE w = "speedReset"
    BY <1>1, <1>4, <2>1
  <2>2. CASE w # "speedReset"
    BY <1>1, <1>2, <1>3, <1>5, <2>2 DEF ViewIsStatus, Untouched
  <2>3. QED
    BY <2>1, <2>2
<1>7. mpv_status["playlist"] = Playlist /\ mpv_status["pause"] = mpv["pause"] /\ mpv_status # <<>>
  BY <1>1, PlayerAssumption, FullIsNotEmpty DEF Playlist
<1>8. IsPlaylist(Playlist) /\ RowsNamed(rows, Playlist)
  BY <1>1, <1>7 DEF IsFull
<1>9. ~apart => IconsRight(rows, Playlist, mpv["pause"])
  BY <1>2, <1>7 DEF IconsAreStatus, IconsShow
<1>10. ASSUME NEW i \in DOMAIN rows PROVE RowIs(rows[i], Entries(Playlist)[i], i)
  <2> DEFINE pause == mpv["pause"]
             id == i - 1
             pl == Playlist
  <2>1. i \in 1 .. Len(pl.files) /\ rows[i].id = id /\ rows[i].name = pl.files[i] /\ id \in Nat
    BY <1>8, <1>10 DEF RowsNamed
  <2>2. ~apart => rows[i].icon = Icon(pl, i, pause)
    BY <1>9, <2>1 DEF IconsRight, IconRight
  <2>3. IsPlaylist(pl)
    BY <1>8
  <2> HIDE DEF pause, id, pl
  <2>4. Row(Entries(pl)[i], id, pause).icon = Icon(pl, i, pause)
    BY <2>1, <2>3, RowOf
  <2>5. Entries(pl)[i].name = pl.files[i]
    BY <2>1, <2>3, EntriesAre
  <2>6. QED
    BY <2>1, <2>2, <2>4, <2>5 DEF RowIs, pause, id, pl
<1>11. Len(rows) = Len(Playlist.files)
  BY <1>8 DEF RowsNamed
<1>12. QED
  BY <1>5, <1>10, <1>11

\* PageFollows for every playlist, number of sockets and of lost connections: once
\* everything was delivered, each widget and row shows what the player is at
\* (handleStatusResponse, handleStatusUpdate, updatePlaylist, status_send_update).
THEOREM PageFollowsPlayer == Spec => []PageFollows
BY CommandInvCorrect, FollowInvCorrect, QuietFollows, PTL

-----------------------------------------------------------------------------
(* The texts on the websocket.                                             *)

\* MessagesIntact for every string, command, length of two messages and size of the
\* buffers (utf8_quote_with_escape, __chunked_websocket_vprintf, handle_command_p2).
THEOREM MessagesStayIntact == Spec => []MessagesIntact
<1>1. MessagesIntact
  BY StringsAlwaysArrive, MessagesAlwaysArrive, CommandsAlwaysArrive DEF MessagesIntact
<1>2. QED
  BY <1>1, PTL
=============================================================================
