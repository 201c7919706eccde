------------------------------ MODULE HttpServer ------------------------------
(***************************************************************************)
(* The threads of the HTTP server while they answer requests for files     *)
(* (media_api_handler1.c, media_api_handler2.c, media_html_handler.c,      *)
(* fileserver.c), with what they share: the ring of path buffers           *)
(* (BufferPool), the current folder of each share and the path that the    *)
(* event thread left behind (TrackPaths).                                  *)
(*                                                                         *)
(* A buffer holds a path.  The string of a "current_directory" is freed    *)
(* when another one replaces it; stale holds the threads whose pointer to  *)
(* such a string does not point to the present one any more.  Undefined    *)
(* behaviour (a freed string, a NULL path) is recorded in fault, and then  *)
(* the program is gone.                                                    *)
(***************************************************************************)
EXTENDS BufferPool, TrackPaths, TextTools, ShareNames

CONSTANTS
  Requests,     \* what a client may ask for
  HiddenNames,  \* words that begin with a dot
  RootDir,      \* options "root_dir", the files of the pages
  Current,      \* the relative path ".current"
  MaxRequests,  \* bound: number of requests
  MaxStarts,    \* bound: number of files mpv starts
  MaxEvents     \* bound: number of both together

VARIABLES
  phase,     \* the next step of a thread
  req,       \* the request it answers
  rel,       \* its uri_rel_path
  real,      \* the path it resolved, or gave to mpv
  content,   \* the paths in the buffers
  stale,     \* threads that hold a pointer to a freed "current_directory"
  fault,     \* what ended the program (history)
  overlap,   \* two requests were served at the same time (history)
  requests, starts   \* number of requests and of started files

history == <<overlap, requests, starts>>
serverVars ==
  <<phase, req, rel, real, content, stale, fault, history>>
vars == <<poolVars, trackVars, serverVars>>

Phases == {"idle", "copy", "acquire", "write", "resolve", "save", "answer",
           "command", "release", "test", "update", "redirect"}

Folders == {"list", "page"}   \* media_api_list, list_share_page

NoRequest == [kind |-> "none", share |-> 0, path |-> <<>>]

\* path_available: no part of the path begins with a dot.
Available(p) == ToSet(p) \cap HiddenNames = {}

\* realpath.  The "/" at the end of a folder's name is ignored.
Strip(p) ==
  IF Len(p) > 1 /\ p[Len(p)] = "/" THEN SubSeq(p, 1, Len(p) - 1) ELSE p

RealPath(p) == IF Exists(Strip(p)) THEN Strip(p) ELSE NoPath

\* The folder of a folder or file exists; requests are about paths.
ASSUME HttpServerAssumption ==
  /\ \A p \in Dirs \cup Files : Exists(Strip(Dirname(p))) /\ Exists(Strip(p))
  /\ \A r \in Requests : r.path \in Paths

\* The path that the request r with the relative path p is about
Wanted(r, p) ==
  CASE r.kind \in Folders -> sharePath[r.share] \o p
    [] r.kind = "load"    -> sharePath[r.share] \o <<"/">> \o p
    [] r.kind = "static"  -> RootDir \o <<"/">> \o p

\* fileserver_page takes two buffers, the other handlers one.
BuffersNeeded(r) == IF r.kind = "static" THEN 2 ELSE 1

Init ==
  /\ PoolInit
  /\ TrackInit
  /\ phase = [u \in Users |-> "idle"]
  /\ req = [u \in Users |-> NoRequest]
  /\ rel = [u \in Users |-> <<>>]
  /\ real = [u \in Users |-> NoPath]
  /\ content = [b \in Buffers |-> NoPath]
  /\ stale = {}
  /\ fault = "none"
  /\ overlap = FALSE
  /\ requests = 0
  /\ starts = 0

-----------------------------------------------------------------------------
Goto(u, p) == phase' = [phase EXCEPT ![u] = p]

At(u, p) == fault = "none" /\ phase[u] = p

\* The threads whose pointer is to the "current_directory" of share s
PointsTo(s) ==
  {u \in Users : /\ phase[u] \in {"copy", "answer"}
                 /\ req[u].kind \in Folders
                 /\ req[u].share = s}

Accept(u, r, p) ==
  /\ req' = [req EXCEPT ![u] = r]
  /\ rel' = [rel EXCEPT ![u] = p]

\* The relative path of a folder or file of share s, from the rest of the URL:
\* "/.current" stands for the current folder of the share, whose string is
\* looked up here and copied later, or for "/" when there is none.
FindFolder(u, kind, s, tail) ==
  LET p == LeftSlashed(tail)
      r == [kind |-> kind, share |-> s, path |-> p]
  IN IF p = Current /\ shareDir[s] # NoPath
     THEN Goto(u, "copy") /\ Accept(u, r, <<>>)
     ELSE Goto(u, "acquire") /\ Accept(u, r, IF p = Current THEN <<"/">> ELSE p)

\* media_api_list
StartList(u, r) == FindFolder(u, "list", r.share, r.path)

\* list_share_page
StartPage(u, r) == FindFolder(u, "page", r.share, r.path)

\* media_api_loadfile
StartLoad(u, r) ==
  Goto(u, "acquire") /\ Accept(u, r, NoLeading(r.path))

\* fileserver_page
StartStatic(u, r) ==
  Goto(u, "acquire") /\ Accept(u, r, NoTrailing(r.path))

\* A request for the current share, of a list or of a page
StartCurrent(u, r) == Goto(u, "test") /\ Accept(u, r, <<>>)

Request(u) ==
  /\ At(u, "idle")
  /\ requests < MaxRequests /\ requests + starts < MaxEvents
  /\ requests' = requests + 1
  /\ overlap' = (overlap \/ \E v \in Users \ {u} : phase[v] # "idle")
  /\ \E r \in Requests :
       /\ r.kind \in {"list", "page", "load"} => r.share \in Shares
       /\ \/ r.kind = "list" /\ StartList(u, r)
          \/ r.kind = "page" /\ StartPage(u, r)
          \/ r.kind = "load" /\ StartLoad(u, r)
          \/ r.kind = "static" /\ StartStatic(u, r)
          \/ r.kind \in {"current list", "current page"} /\ StartCurrent(u, r)
  /\ UNCHANGED <<poolVars, trackVars, real, content, stale, fault, starts>>

\* media_track_paths_get_current_share looks at mtp->pending without the lock ...
TestPending_Always(u) ==
  /\ At(u, "test")
  /\ Goto(u, "update")
  /\ UNCHANGED <<poolVars, trackVars, req, rel, real, content, stale, fault, history>>

TestPending(u) ==
  /\ At(u, "test")
  /\ Goto(u, IF pending = NoPath THEN "redirect" ELSE "update")
  /\ UNCHANGED <<poolVars, trackVars, req, rel, real, content, stale, fault,
                 history>>

\* ... and processes it under the lock, where it may be NULL by then ...
UpdateCurrent(u) ==
  /\ At(u, "update")
  /\ IF pending = NoPath
     THEN /\ fault' = "null path"
          /\ UNCHANGED <<trackVars, phase, stale>>
     ELSE /\ TakePending
          /\ stale' = stale \cup PointsTo(Updated(pending))
          /\ Goto(u, "redirect")
          /\ UNCHANGED fault
  /\ UNCHANGED <<poolVars, req, rel, real, content, history>>

\* ... and without a current share the request is refused.
NoCurrentShare(u) ==
  /\ At(u, "redirect")
  /\ curShare = NoPath
  /\ Goto(u, "idle")
  /\ Accept(u, NoRequest, <<>>)
  /\ UNCHANGED <<poolVars, trackVars, real, content, stale, fault, history>>

\* media_api_list_redirect_current: the request goes on as one for that share.
RedirectList(u) ==
  /\ At(u, "redirect")
  /\ req[u].kind = "current list"
  /\ curShare # NoPath
  /\ FindFolder(u, "list", curShare, req[u].path)
  /\ UNCHANGED <<poolVars, trackVars, real, content, stale, fault, history>>

\* media_html_redirect_current
RedirectPage(u) ==
  /\ At(u, "redirect")
  /\ req[u].kind = "current page"
  /\ curShare # NoPath
  /\ FindFolder(u, "page", curShare, req[u].path)
  /\ UNCHANGED <<poolVars, trackVars, real, content, stale, fault, history>>

\* The string found is copied under the lock of the handler, which no other
\* handler of the share takes.
CopyCurrent(u) ==
  /\ At(u, "copy")
  /\ IF u \in stale
     THEN fault' = "freed string" /\ UNCHANGED <<rel, phase>>
     ELSE /\ rel' = [rel EXCEPT ![u] = shareDir[req[u].share]]
          /\ Goto(u, "acquire")
          /\ UNCHANGED fault
  /\ UNCHANGED <<poolVars, trackVars, req, real, content, stale, history>>

\* buffer_pool_aquire, once or twice
AcquireStep(u) ==
  /\ At(u, "acquire")
  /\ \/ AcquireLook(u) /\ UNCHANGED phase
     \/ AcquireTake(u) /\ UNCHANGED phase
     \/ AcquireSearch(u) /\ UNCHANGED phase
     \/ /\ AcquireStore(u)
        /\ Goto(u, IF Len(bufs[u]) + 1 = BuffersNeeded(req[u]) THEN "write" ELSE "acquire")
  /\ UNCHANGED <<trackVars, req, rel, real, content, stale, fault, history>>

WholeShare(u) == req[u].kind = "load" /\ rel[u] = <<>>

\* The snprintf of the path into the (first) buffer
WritePath(u) ==
  /\ At(u, "write")
  /\ ~WholeShare(u)
  /\ content' = [content EXCEPT ![Head(bufs[u])] = Wanted(req[u], rel[u])]
  /\ Goto(u, "resolve")
  /\ UNCHANGED <<poolVars, trackVars, req, rel, real, stale, fault, history>>

\* "Adding of whole share not supported."
RefuseShare(u) ==
  /\ At(u, "write")
  /\ WholeShare(u)
  /\ Goto(u, "release")
  /\ UNCHANGED <<poolVars, trackVars, req, rel, real, content, stale, fault, history>>

PathOf(u) == content[Head(bufs[u])]

ResolveFolder_Unchecked(u) ==
  /\ At(u, "resolve")
  /\ req[u].kind \in Folders
  /\ Goto(u, "save")
  /\ real' = [real EXCEPT ![u] = Strip(PathOf(u))]
  /\ UNCHANGED <<poolVars, trackVars, req, rel, content, stale, fault, history>>

\* path_available and realpath of the path in the buffer, for a folder or file of
\* a share ...
ResolveFolder(u) ==
  /\ At(u, "resolve")
  /\ req[u].kind \in Folders
  /\ IF Available(PathOf(u)) /\ RealPath(PathOf(u)) # NoPath
     THEN Goto(u, "save") /\ real' = [real EXCEPT ![u] = RealPath(PathOf(u))]
     ELSE Goto(u, "release") /\ UNCHANGED real
  /\ UNCHANGED <<poolVars, trackVars, req, rel, content, stale, fault, history>>

\* ... realpath, for a file of the pages ...
ResolveStatic(u) ==
  /\ At(u, "resolve")
  /\ req[u].kind = "static"
  /\ real' = [real EXCEPT ![u] = RealPath(PathOf(u))]
  /\ Goto(u, IF RealPath(PathOf(u)) # NoPath THEN "answer" ELSE "release")
  /\ UNCHANGED <<poolVars, trackVars, req, rel, content, stale, fault, history>>

\* ... and the search for "/." and access, before a file is given to mpv.
CheckLoad(u) ==
  /\ At(u, "resolve")
  /\ req[u].kind = "load"
  /\ Goto(u, IF Available(PathOf(u)) /\ Exists(Strip(PathOf(u)))
             THEN "command" ELSE "release")
  /\ UNCHANGED <<poolVars, trackVars, req, rel, real, content, stale, fault, history>>

\* "Save this subfolder as last used": the string uri_rel_path itself, of which
\* the handler keeps a pointer.  The string that it replaces is freed.
SaveFolder(u) ==
  /\ At(u, "save")
  /\ SetShareDir(req[u].share, rel[u])
  /\ stale' = stale \cup PointsTo(req[u].share)
  /\ Goto(u, "answer")
  /\ UNCHANGED <<poolVars, req, rel, real, content, fault, history>>

\* A name of a folder's entry, or a number, printed to a buffer
Scratch == <<"entry">>

\* The entries of a folder fill the template; the last buffer of the thread takes
\* the path of each entry, then its size.
ReadEntries(u) ==
  IF real[u] \in Dirs
  THEN content' = [content EXCEPT ![Last(bufs[u])] = Scratch]
  ELSE UNCHANGED content

\* The template of a folder of a share uses the name uri_rel_path, which may be
\* gone.  A file is sent, or refused, without it.
UseFolderName(u) ==
  fault' = IF real[u] \in Dirs /\ u \in stale THEN "freed string" ELSE fault

\* media_api_list
AnswerList(u) ==
  /\ At(u, "answer")
  /\ req[u].kind = "list"
  /\ ReadEntries(u)
  /\ UseFolderName(u)
  /\ stale' = stale \ {u}
  /\ Goto(u, "release")
  /\ UNCHANGED <<poolVars, trackVars, req, rel, real, history>>

\* list_share_page
AnswerPage(u) ==
  /\ At(u, "answer")
  /\ req[u].kind = "page"
  /\ ReadEntries(u)
  /\ UseFolderName(u)
  /\ stale' = stale \ {u}
  /\ Goto(u, "release")
  /\ UNCHANGED <<poolVars, trackVars, req, rel, real, history>>

\* fileserver_page
AnswerStatic(u) ==
  /\ At(u, "answer")
  /\ req[u].kind = "static"
  /\ ReadEntries(u)
  /\ Goto(u, "release")
  /\ UNCHANGED <<poolVars, trackVars, req, rel, real, stale, fault, history>>

\* media_api_loadfile: cmd_media_playlist_add runs with the path in the buffer.
LoadFile(u) ==
  /\ At(u, "command")
  /\ real' = [real EXCEPT ![u] = content[Head(bufs[u])]]
  /\ Goto(u, "release")
  /\ UNCHANGED <<poolVars, trackVars, req, rel, content, stale, fault, history>>

\* The buffers are given back one after the other.  (What a buffer holds that no
\* thread has is forgotten.)
GiveBack(u) ==
  /\ At(u, "release")
  /\ Release(u)
  /\ content' = IF \E v \in Users \ {u} : Head(bufs[u]) \in InUse(v)
                THEN content
                ELSE [content EXCEPT ![Head(bufs[u])] = NoPath]
  /\ IF Len(bufs[u]) > 1
     THEN UNCHANGED <<phase, req, rel, real>>
     ELSE /\ Goto(u, "idle")
          /\ req' = [req EXCEPT ![u] = NoRequest]
          /\ rel' = [rel EXCEPT ![u] = <<>>]
          /\ real' = [real EXCEPT ![u] = NoPath]
  /\ UNCHANGED <<trackVars, stale, fault, history>>

\* The event thread: MPV_EVENT_START_FILE
FileStarts ==
  /\ fault = "none"
  /\ starts < MaxStarts /\ requests + starts < MaxEvents
  /\ starts' = starts + 1
  /\ \E p \in Played : StartFile(p)
  /\ UNCHANGED <<poolVars, phase, req, rel, real, content, stale, fault, overlap,
                 requests>>

Next ==
  \/ \E u \in Users :
       \/ Request(u)        \/ TestPending(u)   \/ UpdateCurrent(u)
       \/ NoCurrentShare(u) \/ RedirectList(u)  \/ RedirectPage(u)
       \/ CopyCurrent(u)    \/ AcquireStep(u)   \/ WritePath(u)
       \/ RefuseShare(u)    \/ ResolveFolder(u) \/ ResolveStatic(u)
       \/ CheckLoad(u)      \/ SaveFolder(u)    \/ AnswerList(u)
       \/ AnswerPage(u)     \/ AnswerStatic(u)  \/ LoadFile(u)
       \/ GiveBack(u)
  \/ FileStarts

Spec == Init /\ [][Next]_vars

-----------------------------------------------------------------------------
TypeOK ==
  /\ PoolTypeOK
  /\ phase \in [Users -> Phases]
  /\ stale \subseteq Users
  /\ fault \in {"none", "freed string", "null path"}
  /\ \A u \in Users : phase[u] \in {"write", "resolve", "save", "answer", "command"}
       => Len(bufs[u]) = BuffersNeeded(req[u])

\* The path that a handler resolved, or gave to mpv (which resolves it itself), is
\* the one its own request is about, whatever the other threads write to their
\* buffers; unless two threads were given one buffer.
OwnPaths(u) == {Wanted(req[u], rel[u]), Strip(Wanted(req[u], rel[u]))}

AnswersOwnRequest ==
  "twice" \notin races =>
    \A u \in Users : real[u] # NoPath => real[u] \in OwnPaths(u)

\* The path stored for a share, of a folder or of a file (the handlers store it before
\* opendir tells which), is one that exists in the share, whoever stored it: for
\* "/.current" there is something to send, unless a part of its name is hidden or two
\* threads were given one buffer.
StoredPathExists ==
  "twice" \notin races =>
    \A s \in Shares :
      shareDir[s] # NoPath => RealPath(sharePath[s] \o shareDir[s]) # NoPath

\* Requests that are served one after the other never read a string that was
\* freed, take over a path that is not there or get a buffer twice, whatever mpv
\* starts in between: each of these needs two requests at the same time.
SafeOneByOne == ~overlap => fault = "none" /\ races = {}

-----------------------------------------------------------------------------
\* What the conversions of text promise does not change while the server runs; it
\* is checked where the server starts.
AtStart == requests = 0 /\ starts = 0

\* Folders written in the documented form are read with their names
\* (split_shared_folder_str).
FoldersAreSplit == AtStart => OptionIsSplit

\* However many slashes a URL has around a folder, it becomes one relative path
\* (left_slashed_string_if_not_empty).
FolderHasOneName == AtStart => FolderIsNormal

\* Each percent-encoding keeps exactly the documented characters (__encode_by_map).
EncodingAsDocumented == AtStart => EncodingIsDocumented

\* Sizes of files are shown rounded down (print_filesize_BIN64), and listed
\* exactly as long as they fit an int (media_api_list).
SizesAreTrue == AtStart => SizeIsTrue

\* Enumerated names stay different from each other and from the names users gave
\* to other shares (__swap_enumerated_share_names), for every order of the shares.
NamesCollisionFree == AtStart => NamesDiffer

\* The URL of a share leads to that share (__add_handler_for_shares), unless the
\* name of one share continues the name of another or is taken for ".current".
SharesReachable == AtStart => NamesReach
=============================================================================
