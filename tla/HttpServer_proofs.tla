--------------------------- MODULE HttpServer_proofs ---------------------------
(***************************************************************************)
(* Proofs about HttpServer, for every number of threads, every file system *)
(* and all requests: the threads use the ring as BufferPool says, and so   *)
(* its theorems hold of the server, no handler works with the path of      *)
(* another one, and the folders stored for the shares are those that the   *)
(* files mpv plays and the requests are about.  At the end two conversions *)
(* of text, for every text and every size.                                 *)
(***************************************************************************)
EXTENDS HttpServer, ServerParts_proofs

\* The steps of a handler that has all its buffers.
Serving == {"write", "resolve", "save", "answer", "command"}

\* A handler that is serving has its buffers.
ServingHasBuffers ==
  \A u \in Users : phase[u] \in Serving => Len(bufs[u]) = BuffersNeeded(req[u])

\* A resolved path is kept from the step that finds it to the end of the request.
ResolvedInTime ==
  \A u \in Users : real[u] # NoPath => phase[u] \in {"save", "answer", "release"}

ServerTypeOK ==
  /\ DOMAIN phase = Users
  /\ DOMAIN req = Users
  /\ DOMAIN rel = Users
  /\ DOMAIN real = Users
  /\ DOMAIN content = Buffers

\* The invariants that do not depend on the pool's.
ServerInv == ServerTypeOK /\ ServingHasBuffers /\ ResolvedInTime

\* Between writing its path and using it a handler finds that path in its buffer.
BufferHasOwnPath ==
  \A u \in Users :
    phase[u] \in {"resolve", "command"} => PathOf(u) = Wanted(req[u], rel[u])

ResolvedIsOwn ==
  \A u \in Users : real[u] # NoPath => real[u] \in OwnPaths(u)

OwnInv == "twice" \notin races => BufferHasOwnPath /\ ResolvedIsOwn

-----------------------------------------------------------------------------
(* The server implements the pool.                                          *)

LEMMA PoolIsUsed == [Next]_vars => [PoolNext]_poolVars
<1> SUFFICES ASSUME [Next]_vars PROVE [PoolNext]_poolVars
  OBVIOUS
<1>1. ASSUME NEW u \in Users,
             \/ Request(u)        \/ TestPending(u)   \/ UpdateCurrent(u)
             \/ NoCurrentShare(u) \/ RedirectList(u)  \/ RedirectPage(u)
             \/ CopyCurrent(u)
      PROVE  UNCHANGED poolVars
  BY <1>1 DEF Request, TestPending, UpdateCurrent, NoCurrentShare, RedirectList,
     RedirectPage, CopyCurrent
<1>2. ASSUME NEW u \in Users,
             \/ WritePath(u)      \/ RefuseShare(u)   \/ ResolveFolder(u)
             \/ ResolveStatic(u)  \/ CheckLoad(u)     \/ SaveFolder(u)
             \/ AnswerList(u)     \/ AnswerPage(u)    \/ AnswerStatic(u)
             \/ LoadFile(u)
      PROVE  UNCHANGED poolVars
  BY <1>2 DEF WritePath, RefuseShare, ResolveFolder, ResolveStatic, CheckLoad,
     SaveFolder, AnswerList, AnswerPage, AnswerStatic, LoadFile
<1>3. ASSUME NEW u \in Users, AcquireStep(u) PROVE PoolNext
  BY <1>3 DEF AcquireStep, PoolNext, Acquire
<1>4. ASSUME NEW u \in Users, GiveBack(u) PROVE PoolNext
  BY <1>4 DEF GiveBack, PoolNext
<1>5. CASE FileStarts
  BY <1>5 DEF FileStarts
<1>6. CASE UNCHANGED vars
  BY <1>6 DEF vars
<1>7. QED
  BY <1>1, <1>2, <1>3, <1>4, <1>5, <1>6 DEF Next

\* The threads of the server take and give back the buffers of the ring as
\* BufferPool says, in whatever order their handlers run.
THEOREM ServerUsesPool == Spec => PoolSpec
<1>1. Init => PoolInit
  BY DEF Init
<1>2. QED
  BY <1>1, PoolIsUsed, PTL DEF Spec, PoolSpec

\* Requests served at the same time never write to the same buffer, unless two
\* threads passed the test of one mark before either of them set it.
THEOREM ServerBuffersAreExclusive == Spec => []BuffersAreExclusive
BY ServerUsesPool, PoolIsExclusive

\* When no request is running no buffer of the ring is marked, unless two threads
\* replaced the buffer of one position: no way through a handler, also none that
\* ends in an error, keeps a buffer.
THEOREM ServerFreesBuffers == Spec => []QuietPoolIsFree
BY ServerUsesPool, QuietPoolIsFreed

-----------------------------------------------------------------------------
(* The phases of a handler.                                                 *)

LEMMA ServerInit == Init => ServerInv
BY DEF Init, ServerInv, ServerTypeOK, ServingHasBuffers, ResolvedInTime, Serving

\* The steps of a handler before it has buffers, and what they leave alone.
Early(u) ==
  \/ Request(u)        \/ TestPending(u)   \/ UpdateCurrent(u)
  \/ NoCurrentShare(u) \/ RedirectList(u)  \/ RedirectPage(u)
  \/ CopyCurrent(u)

\* The steps of a handler that keeps its request and its buffers.
Middle(u) ==
  \/ WritePath(u)      \/ RefuseShare(u)   \/ ResolveFolder(u)
  \/ ResolveStatic(u)  \/ CheckLoad(u)     \/ SaveFolder(u)
  \/ AnswerList(u)     \/ AnswerPage(u)    \/ AnswerStatic(u)
  \/ LoadFile(u)

LEMMA StepKinds ==
  Next <=> \/ \E u \in Users : Early(u) \/ AcquireStep(u) \/ Middle(u) \/ GiveBack(u)
           \/ FileStarts
BY DEF Next, Early, Middle

LEMMA EarlyStep ==
  ASSUME ServerTypeOK, NEW u \in Users, Early(u)
  PROVE  /\ phase[u] \in {"idle", "test", "update", "redirect", "copy"}
         /\ phase'[u] \in {"idle", "test", "update", "redirect", "copy", "acquire"}
         /\ \A v \in Users \ {u} :
              phase'[v] = phase[v] /\ req'[v] = req[v] /\ rel'[v] = rel[v]
         /\ UNCHANGED <<bufs, races, real, content, sharePath>>
         /\ ServerTypeOK'
<1> USE DEF ServerTypeOK, At, Goto, Accept, FindFolder
<1>1. CASE Request(u)
  BY <1>1 DEF Request, StartList, StartPage, StartLoad, StartStatic, StartCurrent,
     trackVars, poolVars
<1>2. CASE TestPending(u)
  BY <1>2 DEF TestPending, trackVars, poolVars
<1>3. CASE UpdateCurrent(u)
  BY <1>3 DEF UpdateCurrent, TakePending, trackVars, poolVars
<1>4. CASE NoCurrentShare(u)
  BY <1>4 DEF NoCurrentShare, trackVars, poolVars
<1>5. CASE RedirectList(u)
  BY <1>5 DEF RedirectList, trackVars, poolVars
<1>6. CASE RedirectPage(u)
  BY <1>6 DEF RedirectPage, trackVars, poolVars
<1>7. CASE CopyCurrent(u)
  BY <1>7 DEF CopyCurrent, trackVars, poolVars
<1>8. QED
  BY <1>1, <1>2, <1>3, <1>4, <1>5, <1>6, <1>7 DEF Early

\* The first and the last buffer of a thread are buffers it has.
LEMMA EndsInUse ==
  ASSUME TypeInv, NEW u \in Users, bufs[u] # <<>>
  PROVE  /\ Head(bufs[u]) \in InUse(u) /\ Head(bufs[u]) \in Buffers
         /\ Last(bufs[u]) \in InUse(u)
<1>1. /\ bufs[u] \in Seq(Buffers) /\ 1 \in DOMAIN bufs[u]
      /\ Len(bufs[u]) \in DOMAIN bufs[u]
      /\ Head(bufs[u]) = bufs[u][1]
  BY DEF TypeInv, PoolTypeOK
<1>2. QED
  BY <1>1 DEF InUse, ToSet, Last

LEMMA ResolvedPath == ASSUME NEW p PROVE RealPath(p) \in {NoPath, Strip(p)}
BY DEF RealPath

\* From one phase of the middle part to the next: the path is resolved from the
\* buffer, or given to mpv as it stands there.
Resolving(u) ==
  /\ phase[u] \in {"resolve", "command"}
  /\ real'[u] \in {NoPath, PathOf(u), Strip(PathOf(u))}
  /\ content' = content

LEMMA MiddleStep ==
  ASSUME ServerTypeOK, NEW u \in Users, Middle(u)
  PROVE  /\ \A v \in Users \ {u} : phase'[v] = phase[v] /\ real'[v] = real[v]
         /\ UNCHANGED <<req, rel, bufs, races, sharePath>>
         /\ phase[u] \in Serving
         /\ phase'[u] \in Serving \cup {"release"}
         /\ ServerTypeOK'
         /\ real'[u] = real[u] \/ Resolving(u)
         /\ phase'[u] \in {"write", "resolve", "command"} =>
              real'[u] = real[u] /\ phase[u] \in {"write", "resolve"}
<1> USE DEF ServerTypeOK, At, Goto, Serving, Resolving, trackVars, poolVars
<1>1. CASE WritePath(u)
  BY <1>1 DEF WritePath
<1>2. CASE RefuseShare(u)
  BY <1>2 DEF RefuseShare
<1>3. CASE ResolveFolder(u)
  BY <1>3, ResolvedPath DEF ResolveFolder
<1>4. CASE ResolveStatic(u)
  BY <1>4, ResolvedPath DEF ResolveStatic
<1>5. CASE CheckLoad(u)
  BY <1>5 DEF CheckLoad
<1>6. CASE SaveFolder(u)
  BY <1>6 DEF SaveFolder, SetShareDir
<1>7. CASE AnswerList(u)
  BY <1>7 DEF AnswerList, ReadEntries
<1>8. CASE AnswerPage(u)
  BY <1>8 DEF AnswerPage, ReadEntries
<1>9. CASE AnswerStatic(u)
  BY <1>9 DEF AnswerStatic, ReadEntries
<1>10. CASE LoadFile(u)
  BY <1>10 DEF LoadFile, PathOf
<1>11. QED
  BY <1>1, <1>2, <1>3, <1>4, <1>5, <1>6, <1>7, <1>8, <1>9, <1>10 DEF Middle

\* ... and a handler writes to its own buffers only.
LEMMA MiddleWrites ==
  ASSUME TypeInv, ServerTypeOK, NEW u \in Users, Middle(u), bufs[u] # <<>>
  PROVE  /\ \A b \in Buffers \ InUse(u) : content'[b] = content[b]
         /\ phase'[u] \in {"resolve", "command"} =>
              \/ phase[u] = "resolve" /\ content' = content
              \/ content'[Head(bufs[u])] = Wanted(req[u], rel[u])
<1> USE EndsInUse DEF ServerTypeOK, At, Goto
<1>1. CASE WritePath(u)
  BY <1>1 DEF WritePath
<1>2. CASE RefuseShare(u)
  BY <1>2 DEF RefuseShare
<1>3. CASE ResolveFolder(u)
  BY <1>3 DEF ResolveFolder
<1>4. CASE ResolveStatic(u)
  BY <1>4 DEF ResolveStatic
<1>5. CASE CheckLoad(u)
  BY <1>5 DEF CheckLoad
<1>6. CASE SaveFolder(u)
  BY <1>6 DEF SaveFolder
<1>7. CASE AnswerList(u)
  BY <1>7 DEF AnswerList, ReadEntries
<1>8. CASE AnswerPage(u)
  BY <1>8 DEF AnswerPage, ReadEntries
<1>9. CASE AnswerStatic(u)
  BY <1>9 DEF AnswerStatic, ReadEntries
<1>10. CASE LoadFile(u)
  BY <1>10 DEF LoadFile
<1>11. QED
  BY <1>1, <1>2, <1>3, <1>4, <1>5, <1>6, <1>7, <1>8, <1>9, <1>10 DEF Middle

\* A thread takes its buffers one after the other and starts to serve with the last.
LEMMA AcquireServerStep ==
  ASSUME TypeInv, ServerTypeOK, NEW u \in Users, AcquireStep(u)
  PROVE  /\ phase[u] = "acquire"
         /\ \A v \in Users \ {u} : phase'[v] = phase[v] /\ bufs'[v] = bufs[v]
         /\ UNCHANGED <<req, rel, real, content, sharePath>>
         /\ phase'[u] \in {"acquire", "write"}
         /\ phase'[u] = "write" => Len(bufs'[u]) = BuffersNeeded(req[u])
         /\ ServerTypeOK'
<1> USE DEF ServerTypeOK, AcquireStep, At, Goto, trackVars, TypeInv, PoolTypeOK
<1>1. CASE UNCHANGED <<phase, bufs>>
  BY <1>1
<1>2. CASE AcquireStore(u)
  <2>1. bufs[u] \in Seq(Buffers) /\ got[u] \in Buffers
    BY <1>2 DEF AcquireStore, GivenIsReal
  <2>2. Len(Append(bufs[u], got[u])) = Len(bufs[u]) + 1
    BY <2>1
  <2>3. bufs' = [bufs EXCEPT ![u] = Append(@, got[u])]
    BY <1>2 DEF AcquireStore
  <2>4. phase' = [phase EXCEPT ![u] = IF Len(bufs[u]) + 1 = BuffersNeeded(req[u])
                                      THEN "write" ELSE "acquire"]
    BY <1>2 DEF AcquireStore, AcquireLook, AcquireTake, AcquireSearch
  <2>5. QED
    BY <2>2, <2>3, <2>4
<1>3. QED
  BY <1>1, <1>2 DEF AcquireLook, AcquireTake, AcquireSearch

LEMMA GiveBackStep ==
  ASSUME TypeInv, ServerTypeOK, NEW u \in Users, GiveBack(u)
  PROVE  /\ phase[u] = "release" /\ phase'[u] \in {"release", "idle"}
         /\ \A v \in Users \ {u} : /\ phase'[v] = phase[v] /\ bufs'[v] = bufs[v]
                                   /\ req'[v] = req[v] /\ rel'[v] = rel[v]
                                   /\ real'[v] = real[v]
         /\ \/ real'[u] = NoPath
            \/ phase'[u] = "release" /\ UNCHANGED <<req, rel, real>>
         /\ UNCHANGED sharePath
         /\ \A b \in Buffers \ InUse(u) : content'[b] = content[b]
         /\ ServerTypeOK'
<1>1. /\ phase[u] = "release" /\ bufs[u] # <<>>
      /\ bufs' = [bufs EXCEPT ![u] = Tail(@)]
      /\ UNCHANGED sharePath
  BY DEF GiveBack, Release, At, trackVars
<1>2. \/ UNCHANGED <<phase, req, rel, real>>
      \/ /\ phase' = [phase EXCEPT ![u] = "idle"]
         /\ req' = [req EXCEPT ![u] = NoRequest]
         /\ rel' = [rel EXCEPT ![u] = <<>>]
         /\ real' = [real EXCEPT ![u] = NoPath]
  BY DEF GiveBack, Goto
<1>3. \/ content' = content
      \/ content' = [content EXCEPT ![Head(bufs[u])] = NoPath]
  BY DEF GiveBack
<1>4. QED
  BY <1>1, <1>2, <1>3, EndsInUse DEF ServerTypeOK, TypeInv, PoolTypeOK

\* The event thread and the stuttering steps touch nothing of a request.
LEMMA OtherStep ==
  ASSUME FileStarts \/ UNCHANGED vars
  PROVE  UNCHANGED <<phase, req, rel, real, content, bufs, races, sharePath>>
BY DEF FileStarts, StartFile, vars, serverVars, poolVars, trackVars

LEMMA ServerStep == TypeInv /\ ServerInv /\ [Next]_vars => ServerInv'
<1> SUFFICES ASSUME TypeInv, ServerInv, [Next]_vars PROVE ServerInv'
  OBVIOUS
<1> USE DEF ServerInv, ServingHasBuffers, ResolvedInTime, Serving
<1>1. ASSUME NEW u \in Users, Early(u) PROVE ServerInv'
  <2>1. real[u] = NoPath
    BY <1>1, EarlyStep
  <2>2. \A v \in Users \ {u} : phase'[v] = phase[v] /\ req'[v] = req[v]
    BY <1>1, EarlyStep
  <2>3. /\ phase'[u] \notin Serving
        /\ UNCHANGED <<bufs, real>>
        /\ ServerTypeOK'
    BY <1>1, EarlyStep
  <2>4. ServingHasBuffers'
    BY <2>2, <2>3 DEF BuffersNeeded
  <2>5. QED
    BY <2>1, <2>2, <2>3, <2>4
<1>2. ASSUME NEW u \in Users, AcquireStep(u) PROVE ServerInv'
  <2>1. real[u] = NoPath
    BY <1>2, AcquireServerStep
  <2>2. ServingHasBuffers'
    BY <1>2, AcquireServerStep DEF BuffersNeeded
  <2>3. ResolvedInTime'
    BY <1>2, <2>1, AcquireServerStep
  <2>4. QED
    BY <1>2, <2>2, <2>3, AcquireServerStep
<1>3. ASSUME NEW u \in Users, Middle(u) PROVE ServerInv'
  <2>1. ServingHasBuffers'
    BY <1>3, MiddleStep DEF BuffersNeeded
  <2>2. ResolvedInTime'
    BY <1>3, MiddleStep DEF Resolving
  <2>3. QED
    BY <1>3, <2>1, <2>2, MiddleStep
<1>4. ASSUME NEW u \in Users, GiveBack(u) PROVE ServerInv'
  <2>1. ServingHasBuffers'
    BY <1>4, GiveBackStep DEF BuffersNeeded
  <2>2. ResolvedInTime'
    BY <1>4, GiveBackStep
  <2>3. QED
    BY <1>4, <2>1, <2>2, GiveBackStep
<1>5. CASE FileStarts \/ UNCHANGED vars
  BY <1>5, OtherStep DEF ServerTypeOK, BuffersNeeded
<1>6. QED
  BY <1>1, <1>2, <1>3, <1>4, <1>5, StepKinds

LEMMA ServerTypeStep ==
  ASSUME TypeInv, TypeInv', ServerInv', TypeOK, [Next]_vars
  PROVE  TypeOK'
<1> USE DEF Goto, At, Phases
<1>1. /\ phase \in [Users -> Phases] /\ stale \subseteq Users
      /\ fault \in {"none", "freed string", "null path"}
  BY DEF TypeOK
<1> DEFINE Typed == /\ phase' \in [Users -> Phases] /\ stale' \subseteq Users
                    /\ fault' \in {"none", "freed string", "null path"}
<1>2. SUFFICES Typed
  BY DEF TypeOK, TypeInv, ServerInv, ServingHasBuffers, Serving
<1>3. ASSUME NEW u \in Users, Early(u) PROVE Typed
  BY <1>1, <1>3 DEF Early, Request, StartList, StartPage, StartLoad, StartStatic,
     StartCurrent, TestPending, UpdateCurrent, NoCurrentShare, RedirectList,
     RedirectPage, CopyCurrent, FindFolder, Accept, PointsTo
<1>4. ASSUME NEW u \in Users, AcquireStep(u) PROVE Typed
  BY <1>1, <1>4 DEF AcquireStep
<1>5. ASSUME NEW u \in Users, Middle(u) PROVE Typed
  <2>1. CASE WritePath(u) \/ RefuseShare(u) \/ ResolveFolder(u) \/ ResolveStatic(u)
    BY <1>1, <2>1 DEF WritePath, RefuseShare, ResolveFolder, ResolveStatic
  <2>2. CASE CheckLoad(u) \/ SaveFolder(u) \/ LoadFile(u)
    BY <1>1, <2>2 DEF CheckLoad, SaveFolder, LoadFile, PointsTo
  <2>3. CASE AnswerList(u) \/ AnswerPage(u) \/ AnswerStatic(u)
    BY <1>1, <2>3 DEF AnswerList, AnswerPage, AnswerStatic, UseFolderName
  <2>4. QED
    BY <1>5, <2>1, <2>2, <2>3 DEF Middle
<1>6. ASSUME NEW u \in Users, GiveBack(u) PROVE Typed
  BY <1>1, <1>6 DEF GiveBack
<1>7. CASE FileStarts
  BY <1>1, <1>7 DEF FileStarts
<1>8. CASE UNCHANGED vars
  BY <1>1, <1>8 DEF vars, serverVars
<1>9. QED
  BY <1>3, <1>4, <1>5, <1>6, <1>7, <1>8, StepKinds

\* The types of the server's variables; a handler has all its buffers before it
\* writes to the first.
THEOREM ServerTypeCorrect == Spec => []TypeOK
<1>1. Init => TypeInv
  BY TypeInit DEF Init
<1>2. Init => TypeOK
  BY <1>1 DEF Init, TypeOK, TypeInv, Phases
<1>3. QED
  BY <1>1, <1>2, ServerInit, TypeStep, PoolIsUsed, ServerStep, ServerTypeStep, PTL
     DEF Spec

-----------------------------------------------------------------------------
(* AnswersOwnRequest.                                                       *)

\* The path a request is about depends on the request and the shares alone.
LEMMA WantedStays ==
  ASSUME NEW u \in Users, UNCHANGED sharePath, req'[u] = req[u], rel'[u] = rel[u]
  PROVE  /\ Wanted(req[u], rel[u])' = Wanted(req[u], rel[u])
         /\ OwnPaths(u)' = OwnPaths(u)
BY DEF Wanted, OwnPaths, Folders

\* What another thread does leaves the buffer and the path of a thread alone.
LEMMA OthersStay ==
  ASSUME TypeInv, ServerInv, BufferHasOwnPath, ResolvedIsOwn, Exclusive,
         NEW u \in Users, NEW v \in Users \ {u},
         UNCHANGED sharePath,
         phase'[v] = phase[v], req'[v] = req[v], rel'[v] = rel[v],
         real'[v] = real[v], bufs'[v] = bufs[v],
         \A b \in Buffers \ InUse(u) : content'[b] = content[b]
  PROVE  /\ phase'[v] \in {"resolve", "command"} =>
              PathOf(v)' = Wanted(req[v], rel[v])'
         /\ real'[v] # NoPath => real'[v] \in OwnPaths(v)'
<1>1. /\ Wanted(req[v], rel[v])' = Wanted(req[v], rel[v])
      /\ OwnPaths(v)' = OwnPaths(v)
  BY WantedStays
<1>2. phase[v] \in {"resolve", "command"} => PathOf(v)' = PathOf(v)
  <2>1. SUFFICES ASSUME phase[v] \in {"resolve", "command"}
                 PROVE  content'[Head(bufs[v])] = content[Head(bufs[v])]
    BY DEF PathOf
  <2>2. bufs[v] # <<>>
    BY <2>1 DEF ServerInv, ServingHasBuffers, Serving, BuffersNeeded
  <2>3. Head(bufs[v]) \in Buffers \ InUse(u)
    BY <2>2, EndsInUse DEF Exclusive
  <2>4. QED
    BY <2>3
<1>3. QED
  BY <1>1, <1>2 DEF BufferHasOwnPath, ResolvedIsOwn

LEMMA OwnStep ==
  TypeInv /\ PoolInv /\ ServerInv /\ OwnInv /\ [Next]_vars => OwnInv'
<1> SUFFICES ASSUME TypeInv, PoolInv, ServerInv, OwnInv, [Next]_vars,
                    "twice" \notin races'
             PROVE  BufferHasOwnPath' /\ ResolvedIsOwn'
  BY DEF OwnInv
<1>1. "twice" \notin races
  BY PoolIsUsed DEF PoolNext, Acquire, AcquireLook, AcquireTake, AcquireSearch,
     AcquireStore, Release, poolVars
<1>2. /\ BufferHasOwnPath /\ ResolvedIsOwn /\ Exclusive
      /\ ServerTypeOK /\ ResolvedInTime
  BY <1>1 DEF OwnInv, PoolInv, Parts, ServerInv
<1> DEFINE Own(v) ==
      /\ phase'[v] \in {"resolve", "command"} => PathOf(v)' = Wanted(req[v], rel[v])'
      /\ real'[v] # NoPath => real'[v] \in OwnPaths(v)'
<1>3. SUFFICES \A v \in Users : Own(v)
  BY DEF BufferHasOwnPath, ResolvedIsOwn
<1>4. ASSUME NEW u \in Users, Early(u) PROVE \A v \in Users : Own(v)
  <2>1. \A v \in Users \ {u} : Own(v)
    BY <1>2, <1>4, EarlyStep, OthersStay
  <2>2. Own(u)
    BY <1>2, <1>4, EarlyStep DEF ResolvedInTime
  <2>3. QED
    BY <2>1, <2>2
<1>5. ASSUME NEW u \in Users, AcquireStep(u) PROVE \A v \in Users : Own(v)
  <2>1. \A v \in Users \ {u} : Own(v)
    BY <1>2, <1>5, AcquireServerStep, OthersStay
  <2>2. Own(u)
    BY <1>2, <1>5, AcquireServerStep DEF ResolvedInTime
  <2>3. QED
    BY <2>1, <2>2
<1>6. ASSUME NEW u \in Users, Middle(u) PROVE \A v \in Users : Own(v)
  <2>1. /\ UNCHANGED <<req, rel, bufs, sharePath>>
        /\ phase[u] \in Serving
        /\ real'[u] = real[u] \/ Resolving(u)
        /\ phase'[u] \in {"write", "resolve", "command"} => real'[u] = real[u]
    BY <1>2, <1>6, MiddleStep
  <2>2. bufs[u] # <<>>
    BY <2>1 DEF ServerInv, ServingHasBuffers, BuffersNeeded
  <2>3. \A v \in Users \ {u} : Own(v)
    BY <1>2, <1>6, <2>2, MiddleStep, MiddleWrites, OthersStay
  <2>4. /\ Wanted(req[u], rel[u])' = Wanted(req[u], rel[u])
        /\ OwnPaths(u)' = OwnPaths(u)
    BY <2>1, WantedStays
  <2>5. ASSUME phase'[u] \in {"resolve", "command"}
        PROVE  PathOf(u)' = Wanted(req[u], rel[u])'
    BY <1>2, <1>6, <2>1, <2>2, <2>4, <2>5, MiddleWrites DEF PathOf, BufferHasOwnPath
  <2>6. ASSUME real'[u] # NoPath PROVE real'[u] \in OwnPaths(u)'
    BY <1>2, <2>1, <2>4, <2>6 DEF Resolving, BufferHasOwnPath, ResolvedIsOwn, OwnPaths
  <2>7. QED
    BY <2>3, <2>5, <2>6
<1>7. ASSUME NEW u \in Users, GiveBack(u) PROVE \A v \in Users : Own(v)
  <2>1. \A v \in Users \ {u} : Own(v)
    BY <1>2, <1>7, GiveBackStep, OthersStay
  <2>2. Own(u)
    BY <1>2, <1>7, GiveBackStep, WantedStays DEF ResolvedIsOwn
  <2>3. QED
    BY <2>1, <2>2
<1>8. CASE FileStarts \/ UNCHANGED vars
  BY <1>2, <1>8, OtherStep, WantedStays DEF BufferHasOwnPath, ResolvedIsOwn, PathOf
<1>9. QED
  BY <1>4, <1>5, <1>6, <1>7, <1>8, StepKinds

\* The path a handler resolved, or gave to mpv, is the one of its own request: no
\* interleaving of the handlers lets one of them work with the path that another
\* wrote, unless two of them were given one buffer.
THEOREM HandlersAnswerOwnRequest == Spec => []AnswersOwnRequest
<1>1. Init => TypeInv /\ PoolInv
  BY TypeInit, PoolInvInit DEF Init
<1>2. Init => OwnInv
  BY DEF Init, OwnInv, BufferHasOwnPath, ResolvedIsOwn
<1>3. OwnInv => AnswersOwnRequest
  BY DEF OwnInv, ResolvedIsOwn, AnswersOwnRequest
<1>4. QED
  BY <1>1, <1>2, <1>3, ServerInit, TypeStep, PoolStep, PoolIsUsed, ServerStep,
     OwnStep, PTL DEF Spec

-----------------------------------------------------------------------------
(* The relative paths of folders.                                           *)

LEMMA NoLeadingType == ASSUME NEW p \in Paths PROVE NoLeading(p) \in Paths
<1> DEFINE T == {i \in 1 .. Len(p) + 1 : i = Len(p) + 1 \/ p[i] # "/"}
<1>1. p \in Seq(Words) /\ Len(p) \in Nat
  BY DEF Paths
<1>2. T \in SUBSET Nat /\ Len(p) + 1 \in T
  BY <1>1
<1>3. PICK i \in T : \A k \in T : i <= k
  BY <1>2, LeastNat
<1>4. \A k \in 1 .. i - 1 : p[k] = "/"
  <2>1. ASSUME NEW k \in 1 .. i - 1, p[k] # "/" PROVE FALSE
    <3>1. k \in 1 .. Len(p) + 1 /\ ~(i <= k)
      BY <1>1, <1>2, <1>3, <2>1
    <3>2. k \in T
      BY <2>1, <3>1
    <3>3. QED
      BY <1>3, <3>1, <3>2
  <2>2. QED
    BY <2>1
<1> DEFINE c == CHOOSE j \in 1 .. Len(p) + 1 :
                  /\ \A k \in 1 .. j - 1 : p[k] = "/"
                  /\ j = Len(p) + 1 \/ p[j] # "/"
<1>5. c \in 1 .. Len(p) + 1
  BY <1>3, <1>4
<1>6. SubSeq(p, c, Len(p)) \in Seq(Words)
  <2> HIDE DEF c
  <2>1. QED
    BY <1>1, <1>5
<1>7. QED
  BY <1>6 DEF NoLeading, Paths

LEMMA NoTrailingType == ASSUME NEW p \in Paths PROVE NoTrailing(p) \in Paths
<1> DEFINE T == {i \in 0 .. Len(p) : i = 0 \/ p[i] # "/"}
<1>1. p \in Seq(Words) /\ Len(p) \in Nat
  BY DEF Paths
<1>2. T \in SUBSET (0 .. Len(p)) /\ 0 \in T
  BY <1>1
<1>3. PICK i \in T : \A k \in T : k <= i
  BY <1>1, <1>2, GreatestNat
<1>4. \A k \in i + 1 .. Len(p) : p[k] = "/"
  <2>1. ASSUME NEW k \in i + 1 .. Len(p), p[k] # "/" PROVE FALSE
    <3>1. k \in 0 .. Len(p) /\ ~(k <= i)
      BY <1>1, <1>2, <1>3, <2>1
    <3>2. k \in T
      BY <2>1, <3>1
    <3>3. QED
      BY <1>3, <3>1, <3>2
  <2>2. QED
    BY <2>1
<1> DEFINE c == CHOOSE j \in 0 .. Len(p) :
                  /\ \A k \in j + 1 .. Len(p) : p[k] = "/"
                  /\ j = 0 \/ p[j] # "/"
<1>5. c \in 0 .. Len(p)
  BY <1>3, <1>4
<1>6. SubSeq(p, 1, c) \in Seq(Words)
  <2> HIDE DEF c
  <2>1. QED
    BY <1>1, <1>5
<1>7. QED
  BY <1>6 DEF NoTrailing, Paths

LEMMA LeftSlashedType == ASSUME NEW p \in Paths PROVE LeftSlashed(p) \in Paths
<1>1. "/" \in Words /\ NoLeading(p) \in Seq(Words)
  BY NoLeadingType, TrackPathsAssumption DEF Paths
<1>2. <<>> \in Paths /\ <<"/">> \o NoLeading(p) \in Paths
  BY <1>1 DEF Paths
<1>3. QED
  BY <1>2, NoTrailingType DEF LeftSlashed

-----------------------------------------------------------------------------
(* The requests for folders, and the paths of the tracks.                   *)

\* A request for a folder is about a share; its relative path is one, or will be
\* copied from the share that has one.
FolderRequests ==
  \A u \in Users :
    /\ phase[u] \in {"test", "update", "redirect"} => req[u].path \in Paths
    /\ phase[u] \in {"copy", "save"} => req[u].kind \in Folders
    /\ phase[u] = "copy" => shareDir[req[u].share] # NoPath
    /\ phase[u] \in {"copy", "acquire", "write", "resolve", "save"}
         /\ req[u].kind \in Folders => req[u].share \in Shares
    /\ phase[u] \in {"acquire", "write", "resolve", "save"}
         /\ req[u].kind \in Folders => rel[u] \in Paths

\* What FolderRequests says of the thread u, in the next state.
Proper(u) ==
  /\ phase'[u] \in {"test", "update", "redirect"} => req'[u].path \in Paths
  /\ phase'[u] \in {"copy", "save"} => req'[u].kind \in Folders
  /\ phase'[u] = "copy" => shareDir'[req'[u].share] # NoPath
  /\ phase'[u] \in {"copy", "acquire", "write", "resolve", "save"}
       /\ req'[u].kind \in Folders => req'[u].share \in Shares
  /\ phase'[u] \in {"acquire", "write", "resolve", "save"}
       /\ req'[u].kind \in Folders => rel'[u] \in Paths

TracksInv == TrackInv /\ ShareFollows /\ FolderFollows

LEMMA UpdateCurrentTracks ==
  ASSUME NEW u \in Users, UpdateCurrent(u)
  PROVE  TakePending \/ UNCHANGED trackVars
BY DEF UpdateCurrent

\* The steps that touch the paths of tracks.
LEMMA TrackSteps ==
  ASSUME [Next]_vars
  PROVE  \/ UNCHANGED trackVars
         \/ TakePending
         \/ \E u \in Users : SaveFolder(u)
         \/ FileStarts
<1>1. ASSUME NEW u \in Users, Early(u) PROVE TakePending \/ UNCHANGED trackVars
  BY <1>1, UpdateCurrentTracks DEF Early, Request, TestPending, NoCurrentShare,
     RedirectList, RedirectPage, CopyCurrent
<1>2. ASSUME NEW u \in Users, Middle(u) PROVE SaveFolder(u) \/ UNCHANGED trackVars
  BY <1>2 DEF Middle, WritePath, RefuseShare, ResolveFolder, ResolveStatic, CheckLoad,
     AnswerList, AnswerPage, AnswerStatic, LoadFile
<1>3. ASSUME NEW u \in Users, AcquireStep(u) \/ GiveBack(u) PROVE UNCHANGED trackVars
  BY <1>3 DEF AcquireStep, GiveBack
<1>4. CASE UNCHANGED vars
  BY <1>4 DEF vars
<1>5. QED
  BY <1>1, <1>2, <1>3, <1>4, StepKinds

\* The steps of the server on the paths of tracks are those of TrackPaths.
LEMMA TracksStep ==
  ASSUME TracksInv, FolderRequests, [Next]_vars
  PROVE  TracksInv'
<1> USE DEF TracksInv
<1>1. CASE UNCHANGED trackVars
  BY <1>1, TrackStutter
<1>2. CASE TakePending
  BY <1>2, TakePendingStep
<1>3. ASSUME NEW u \in Users, SaveFolder(u) PROVE TracksInv'
  <2>1. /\ req[u].share \in Shares /\ rel[u] \in Paths
        /\ SetShareDir(req[u].share, rel[u])
    BY <1>3 DEF SaveFolder, FolderRequests, At
  <2>2. QED
    BY <2>1, SetShareDirStep
<1>4. CASE FileStarts
  BY <1>4, StartFileStep DEF FileStarts
<1>5. QED
  BY <1>1, <1>2, <1>3, <1>4, TrackSteps

\* The folder of a share is replaced, but never taken away.
LEMMA FoldersStay ==
  ASSUME TracksInv, FolderRequests, [Next]_vars
  PROVE  /\ UNCHANGED sharePath
         /\ \A s \in Shares : shareDir[s] # NoPath => shareDir'[s] # NoPath
<1> DEFINE Stay == /\ UNCHANGED sharePath
                   /\ \A s \in Shares : shareDir[s] # NoPath => shareDir'[s] # NoPath
<1>1. CASE UNCHANGED trackVars
  BY <1>1 DEF trackVars
<1>2. CASE TakePending
  <2>1. /\ UNCHANGED sharePath /\ Update(pending) /\ pending \in Paths
    BY <1>2, TrackPathsAssumption DEF TakePending, TracksInv, TrackInv, TrackTypeOK
  <2>2. CASE UNCHANGED shareDir
    BY <2>1, <2>2
  <2>3. CASE shareDir' # shareDir
    <3> DEFINE dir == Dirname(pending)
               s == Updated(pending)
    <3>1. Exists(pending)
      BY <2>1, <2>3, UpdateIgnores
    <3>2. /\ s \in Shares /\ Starts(sharePath, s, dir)
          /\ shareDir' = [shareDir EXCEPT ![s] = Translate(sharePath, s, dir)]
      BY <2>1, <2>3, <3>1, UpdateSelects DEF TracksInv
    <3>3. dir \in Paths /\ sharePath[s] \in Paths
      BY <2>1, <3>1, <3>2, DirnameType, SharesType DEF TracksInv, TrackInv
    <3>4. Translate(sharePath, s, dir) \in Paths
      BY <3>2, <3>3, TranslateType
    <3> HIDE DEF s, dir
    <3>5. QED
      BY <2>1, <3>2, <3>4, TrackPathsAssumption DEF TracksInv, TrackInv, TrackTypeOK
  <2>4. QED
    BY <2>2, <2>3
<1>3. ASSUME NEW u \in Users, SaveFolder(u) PROVE Stay
  <2>1. /\ req[u].share \in Shares /\ rel[u] \in Paths /\ UNCHANGED sharePath
        /\ shareDir' = [shareDir EXCEPT ![req[u].share] = rel[u]]
    BY <1>3 DEF SaveFolder, FolderRequests, At, SetShareDir
  <2>2. QED
    BY <2>1, TrackPathsAssumption DEF TracksInv, TrackInv, TrackTypeOK
<1>4. CASE FileStarts
  BY <1>4 DEF FileStarts, StartFile
<1>5. QED
  BY <1>1, <1>2, <1>3, <1>4, TrackSteps

\* What FindFolder makes of the rest of a URL is a request for a folder of a share.
LEMMA FindFolderIsProper ==
  ASSUME ServerTypeOK, NEW u \in Users, NEW kind \in Folders, NEW s \in Shares,
         NEW tail \in Paths, FindFolder(u, kind, s, tail), UNCHANGED shareDir
  PROVE  Proper(u)
<1> DEFINE p == LeftSlashed(tail)
<1>1. p \in Paths /\ <<"/">> \in Paths
  BY LeftSlashedType, TrackPathsAssumption DEF Paths
<1> HIDE DEF p
<1>2. /\ req' = [req EXCEPT ![u] = [kind |-> kind, share |-> s, path |-> p]]
      /\ \/ /\ shareDir[s] # NoPath
            /\ phase' = [phase EXCEPT ![u] = "copy"]
         \/ /\ phase' = [phase EXCEPT ![u] = "acquire"]
            /\ rel' = [rel EXCEPT ![u] = IF p = Current THEN <<"/">> ELSE p]
  BY DEF FindFolder, Goto, Accept, p
<1>3. QED
  BY <1>1, <1>2 DEF Proper, ServerTypeOK

LEMMA FoldersStep ==
  ASSUME TypeInv, ServerInv, TracksInv, FolderRequests, [Next]_vars
  PROVE  FolderRequests'
<1>1. SUFFICES \A v \in Users : Proper(v)
  BY FoldersStay DEF FolderRequests, Proper, Shares
<1>2. /\ UNCHANGED sharePath
      /\ \A s \in Shares : shareDir[s] # NoPath => shareDir'[s] # NoPath
      /\ ServerTypeOK
  BY FoldersStay DEF ServerInv
<1>3. ASSUME NEW v \in Users, phase'[v] = phase[v], req'[v] = req[v], rel'[v] = rel[v]
      PROVE  Proper(v)
  BY <1>2, <1>3 DEF FolderRequests, Proper
<1>4. ASSUME NEW u \in Users, Early(u) PROVE \A v \in Users : Proper(v)
  <2>1. SUFFICES Proper(u)
    <3>1. \A v \in Users \ {u} : Proper(v)
      BY <1>2, <1>3, <1>4, EarlyStep
    <3>2. QED
      BY <3>1
  <2>2. CASE Request(u)
    <3>1. PICK r \in Requests :
            /\ r.kind \in {"list", "page", "load"} => r.share \in Shares
            /\ \/ r.kind = "list" /\ StartList(u, r)
               \/ r.kind = "page" /\ StartPage(u, r)
               \/ r.kind = "load" /\ StartLoad(u, r)
               \/ r.kind = "static" /\ StartStatic(u, r)
               \/ r.kind \in {"current list", "current page"} /\ StartCurrent(u, r)
      BY <2>2 DEF Request
    <3>2. r.path \in Paths /\ UNCHANGED shareDir
      BY <2>2, HttpServerAssumption DEF Request, trackVars
    <3>3. CASE r.kind = "list" /\ StartList(u, r)
      <4>1. FindFolder(u, "list", r.share, r.path) /\ r.share \in Shares
        BY <3>1, <3>3 DEF StartList
      <4>2. QED
        BY <1>2, <3>2, <4>1, FindFolderIsProper DEF Folders
    <3>4. CASE r.kind = "page" /\ StartPage(u, r)
      <4>1. FindFolder(u, "page", r.share, r.path) /\ r.share \in Shares
        BY <3>1, <3>4 DEF StartPage
      <4>2. QED
        BY <1>2, <3>2, <4>1, FindFolderIsProper DEF Folders
    <3>5. CASE r.kind \in {"load", "static"} /\ (StartLoad(u, r) \/ StartStatic(u, r))
      <4>1. /\ phase' = [phase EXCEPT ![u] = "acquire"]
            /\ req' = [req EXCEPT ![u] = r]
        BY <3>5 DEF StartLoad, StartStatic, Goto, Accept
      <4>2. phase'[u] = "acquire" /\ req'[u].kind \notin Folders
        BY <1>2, <3>5, <4>1 DEF ServerTypeOK, Folders
      <4>3. QED
        BY <4>2 DEF Proper
    <3>6. CASE StartCurrent(u, r)
      <4>1. /\ phase' = [phase EXCEPT ![u] = "test"]
            /\ req' = [req EXCEPT ![u] = r]
        BY <3>6 DEF StartCurrent, Goto, Accept
      <4>2. phase'[u] = "test" /\ req'[u].path \in Paths
        BY <1>2, <3>2, <4>1 DEF ServerTypeOK
      <4>3. QED
        BY <4>2 DEF Proper
    <3>7. QED
      BY <3>1, <3>3, <3>4, <3>5, <3>6
  <2>3. CASE TestPending(u)
    BY <1>2, <2>3 DEF TestPending, Proper, FolderRequests, ServerTypeOK, At, Goto
  <2>4. CASE UpdateCurrent(u)
    BY <1>2, <2>4 DEF UpdateCurrent, Proper, FolderRequests, ServerTypeOK, At, Goto
  <2>5. CASE NoCurrentShare(u)
    <3>1. phase' = [phase EXCEPT ![u] = "idle"]
      BY <2>5 DEF NoCurrentShare, Goto
    <3>2. phase'[u] = "idle"
      BY <1>2, <3>1 DEF ServerTypeOK
    <3>3. QED
      BY <3>2 DEF Proper
  <2>6. CASE RedirectList(u) \/ RedirectPage(u)
    <3>1. phase[u] = "redirect" /\ UNCHANGED shareDir /\ curShare # NoPath
      BY <2>6 DEF RedirectList, RedirectPage, trackVars, At
    <3>2. curShare \in Shares /\ req[u].path \in Paths
      BY <3>1 DEF TracksInv, TrackInv, TrackTypeOK, FolderRequests
    <3>3. \E k \in Folders : FindFolder(u, k, curShare, req[u].path)
      BY <2>6 DEF RedirectList, RedirectPage, Folders
    <3>4. QED
      BY <1>2, <3>1, <3>2, <3>3, FindFolderIsProper
  <2> USE <1>2 DEF ServerTypeOK, At, Goto, Accept
  <2>7. CASE CopyCurrent(u)
    <3>1. /\ req[u].share \in Shares /\ shareDir[req[u].share] # NoPath
          /\ phase[u] = "copy"
      BY <2>7 DEF CopyCurrent, FolderRequests
    <3>2. shareDir[req[u].share] \in Paths
      BY <3>1 DEF TracksInv, TrackInv, TrackTypeOK
    <3>3. CASE UNCHANGED <<rel, phase>>
      BY <2>7, <3>3, <1>3 DEF CopyCurrent
    <3>4. CASE /\ rel' = [rel EXCEPT ![u] = shareDir[req[u].share]]
               /\ phase' = [phase EXCEPT ![u] = "acquire"]
      BY <2>7, <3>1, <3>2, <3>4 DEF CopyCurrent, Proper, FolderRequests
    <3>5. QED
      BY <2>7, <3>3, <3>4 DEF CopyCurrent
  <2>8. QED
    BY <1>4, <2>2, <2>3, <2>4, <2>5, <2>6, <2>7 DEF Early
<1>5. ASSUME NEW u \in Users, AcquireStep(u) PROVE \A v \in Users : Proper(v)
  BY <1>2, <1>3, <1>5, AcquireServerStep DEF Proper, FolderRequests
<1>6. ASSUME NEW u \in Users, Middle(u) PROVE \A v \in Users : Proper(v)
  <2>1. /\ UNCHANGED <<req, rel>>
        /\ \A v \in Users \ {u} : phase'[v] = phase[v]
    BY <1>2, <1>6, MiddleStep
  <2>2. phase'[u] \notin {"test", "update", "redirect", "copy", "acquire"}
    BY <1>2, <1>6, MiddleStep DEF Serving
  <2>3. phase'[u] \in {"write", "resolve", "save"} => phase[u] \in {"write", "resolve", "save"}
    <3> USE <1>2 DEF ServerTypeOK, At, Goto
    <3>1. CASE WritePath(u) \/ RefuseShare(u) \/ ResolveFolder(u) \/ ResolveStatic(u)
      BY <3>1 DEF WritePath, RefuseShare, ResolveFolder, ResolveStatic
    <3>2. CASE CheckLoad(u) \/ SaveFolder(u) \/ LoadFile(u)
      BY <3>2 DEF CheckLoad, SaveFolder, LoadFile
    <3>3. CASE AnswerList(u) \/ AnswerPage(u) \/ AnswerStatic(u)
      BY <3>3 DEF AnswerList, AnswerPage, AnswerStatic
    <3>4. QED
      BY <1>6, <3>1, <3>2, <3>3 DEF Middle
  <2>4. phase'[u] = "save" => req[u].kind \in Folders
    <3> USE <1>2 DEF ServerTypeOK, At, Goto
    <3>1. CASE WritePath(u) \/ RefuseShare(u) \/ ResolveFolder(u) \/ ResolveStatic(u)
      BY <3>1 DEF WritePath, RefuseShare, ResolveFolder, ResolveStatic
    <3>2. CASE CheckLoad(u) \/ SaveFolder(u) \/ LoadFile(u)
      BY <3>2 DEF CheckLoad, SaveFolder, LoadFile
    <3>3. CASE AnswerList(u) \/ AnswerPage(u) \/ AnswerStatic(u)
      BY <3>3 DEF AnswerList, AnswerPage, AnswerStatic
    <3>4. QED
      BY <1>6, <3>1, <3>2, <3>3 DEF Middle
  <2>5. Proper(u)
    BY <1>2, <2>1, <2>2, <2>3, <2>4 DEF Proper, FolderRequests
  <2>6. QED
    BY <1>3, <2>1, <2>5
<1>7. ASSUME NEW u \in Users, GiveBack(u) PROVE \A v \in Users : Proper(v)
  <2>1. \A v \in Users \ {u} : Proper(v)
    BY <1>2, <1>3, <1>7, GiveBackStep
  <2>2. Proper(u)
    BY <1>2, <1>7, GiveBackStep DEF Proper
  <2>3. QED
    BY <2>1, <2>2
<1>8. CASE FileStarts \/ UNCHANGED vars
  BY <1>3, <1>8, OtherStep
<1>9. QED
  BY <1>4, <1>5, <1>6, <1>7, <1>8, StepKinds

LEMMA FoldersInit == Init => TracksInv /\ FolderRequests
BY TrackInitHolds DEF Init, TracksInv, FolderRequests

\* All that the server's invariants say before the contents of buffers.
LEMMA TracksHold == Spec => [](TypeInv /\ ServerInv /\ TracksInv /\ FolderRequests)
<1>1. Init => TypeInv
  BY TypeInit DEF Init
<1>2. TypeInv /\ ServerInv /\ TracksInv /\ FolderRequests /\ [Next]_vars
        => (TypeInv /\ ServerInv /\ TracksInv /\ FolderRequests)'
  BY TypeStep, PoolIsUsed, ServerStep, TracksStep, FoldersStep
<1>3. QED
  BY <1>1, <1>2, ServerInit, FoldersInit, PTL DEF Spec

\* When no path is pending the current share holds the file last started, if any
\* share does: no start of a file is lost between the event thread and any number
\* of HTTP threads, whatever they store in between.
THEOREM ShareFollowsPlayer == Spec => []CurrentShareFollows
<1>1. TracksInv => CurrentShareFollows
  BY CurrentShareIs DEF TracksInv
<1>2. QED
  BY <1>1, TracksHold, PTL

\* The current share shows the folder of the file last started, as long as nobody
\* has looked at another folder of it since mpv came to that folder.
THEOREM FolderFollowsPlayer == Spec => []CurrentFolderFollows
<1>1. TracksInv => CurrentFolderFollows
  BY CurrentFolderIs DEF TracksInv
<1>2. QED
  BY <1>1, TracksHold, PTL

-----------------------------------------------------------------------------
(* The stored folders exist.                                                *)

\* A folder that is about to be stored exists in its share, and so does each one
\* that is stored.
StoredExist ==
  /\ \A u \in Users :
       phase[u] = "save" => RealPath(sharePath[req[u].share] \o rel[u]) # NoPath
  /\ \A s \in Shares :
       shareDir[s] # NoPath => RealPath(sharePath[s] \o shareDir[s]) # NoPath

ExistInv == "twice" \notin races => StoredExist

\* The folder of a file that exists can be resolved.
LEMMA FolderIsReal ==
  ASSUME NEW p \in Dirs \cup Files
  PROVE  RealPath(p) # NoPath /\ RealPath(Dirname(p)) # NoPath
BY HttpServerAssumption, TrackPathsAssumption DEF RealPath, Exists

\* The update stores a folder that exists.
LEMMA UpdateExists ==
  ASSUME TracksInv, StoredExist, TakePending, NEW s \in Shares, shareDir'[s] # NoPath
  PROVE  RealPath(sharePath[s] \o shareDir'[s]) # NoPath
<1> DEFINE dir == Dirname(pending)
           r   == Updated(pending)
<1>1. pending \in Paths /\ Update(pending)
  BY TrackPathsAssumption DEF TakePending, TracksInv, TrackInv, TrackTypeOK
<1>2. CASE UNCHANGED shareDir
  BY <1>2 DEF StoredExist
<1>3. CASE shareDir' # shareDir
  <2>1. Exists(pending)
    BY <1>1, <1>3, UpdateIgnores
  <2>2. /\ r \in Shares /\ Starts(sharePath, r, dir)
        /\ shareDir' = [shareDir EXCEPT ![r] = Translate(sharePath, r, dir)]
    BY <1>1, <1>3, <2>1, UpdateSelects DEF TracksInv
  <2>3. dir \in Paths /\ sharePath[r] \in Paths /\ RealPath(dir) # NoPath
    BY <1>1, <2>1, <2>2, DirnameType, FolderIsReal, SharesType
       DEF TracksInv, TrackInv, Exists
  <2>4. sharePath[r] \o Translate(sharePath, r, dir) = dir
    BY <2>2, <2>3, TranslateType
  <2> HIDE DEF r, dir
  <2>5. s = r => sharePath[s] \o shareDir'[s] = dir
    BY <2>2, <2>4 DEF TracksInv, TrackInv, TrackTypeOK
  <2>6. s # r => shareDir'[s] = shareDir[s]
    BY <2>2 DEF TracksInv, TrackInv, TrackTypeOK
  <2>7. QED
    BY <2>3, <2>5, <2>6 DEF StoredExist
<1>4. QED
  BY <1>2, <1>3

LEMMA ExistStep ==
  ASSUME TypeInv, ServerInv, OwnInv, TracksInv, FolderRequests, ExistInv, [Next]_vars
  PROVE  ExistInv'
<1> SUFFICES ASSUME "twice" \notin races' PROVE StoredExist'
  BY DEF ExistInv
<1>1. "twice" \notin races
  BY PoolIsUsed DEF PoolNext, Acquire, AcquireLook, AcquireTake, AcquireSearch,
     AcquireStore, Release, poolVars
<1>2. /\ StoredExist /\ BufferHasOwnPath /\ ServerTypeOK
      /\ UNCHANGED sharePath
  BY <1>1, FoldersStay DEF ExistInv, OwnInv, ServerInv
<1>3. \A s \in Shares :
        shareDir'[s] # NoPath => RealPath(sharePath[s] \o shareDir'[s]) # NoPath
  <2>1. ASSUME NEW u \in Users, SaveFolder(u), NEW s \in Shares, shareDir'[s] # NoPath
        PROVE  RealPath(sharePath[s] \o shareDir'[s]) # NoPath
    BY <1>2, <2>1 DEF SaveFolder, SetShareDir, At, StoredExist, TracksInv, TrackInv,
       TrackTypeOK
  <2>2. CASE UNCHANGED trackVars
    BY <1>2, <2>2 DEF trackVars, StoredExist
  <2>3. CASE FileStarts
    BY <1>2, <2>3 DEF FileStarts, StartFile, StoredExist
  <2>4. CASE TakePending
    BY <1>2, <2>4, UpdateExists
  <2>5. QED
    BY <2>1, <2>2, <2>3, <2>4, TrackSteps
<1> DEFINE Ready(v) ==
      phase'[v] = "save" => RealPath(sharePath[req'[v].share] \o rel'[v]) # NoPath
<1>4. \A v \in Users : Ready(v)
  <2>1. ASSUME NEW v \in Users, phase'[v] = phase[v], req'[v] = req[v], rel'[v] = rel[v]
        PROVE  Ready(v)
    BY <1>2, <2>1 DEF StoredExist
  <2>2. ASSUME NEW u \in Users, Early(u) PROVE \A v \in Users : Ready(v)
    BY <1>2, <2>1, <2>2, EarlyStep
  <2>3. ASSUME NEW u \in Users, AcquireStep(u) PROVE \A v \in Users : Ready(v)
    BY <1>2, <2>1, <2>3, AcquireServerStep
  <2>4. ASSUME NEW u \in Users, Middle(u) PROVE \A v \in Users : Ready(v)
    <3>1. /\ UNCHANGED <<req, rel>>
          /\ \A v \in Users \ {u} : phase'[v] = phase[v]
      BY <1>2, <2>4, MiddleStep
    <3>2. phase'[u] = "save" => ResolveFolder(u)
      <4> USE <1>2 DEF ServerTypeOK, At, Goto
      <4>1. CASE WritePath(u) \/ RefuseShare(u) \/ ResolveStatic(u)
        BY <4>1 DEF WritePath, RefuseShare, ResolveStatic
      <4>2. CASE CheckLoad(u) \/ SaveFolder(u) \/ LoadFile(u)
        BY <4>2 DEF CheckLoad, SaveFolder, LoadFile
      <4>3. CASE AnswerList(u) \/ AnswerPage(u) \/ AnswerStatic(u)
        BY <4>3 DEF AnswerList, AnswerPage, AnswerStatic
      <4>4. QED
        BY <2>4, <4>1, <4>2, <4>3 DEF Middle
    <3>3. ASSUME phase'[u] = "save"
          PROVE  RealPath(sharePath[req[u].share] \o rel[u]) # NoPath
      <4>1. /\ phase[u] = "resolve" /\ req[u].kind \in Folders
            /\ RealPath(PathOf(u)) # NoPath
        BY <1>2, <3>2, <3>3 DEF ResolveFolder, At, Goto, ServerTypeOK
      <4>2. PathOf(u) = sharePath[req[u].share] \o rel[u]
        BY <1>2, <4>1 DEF BufferHasOwnPath, Wanted, Folders
      <4>3. QED
        BY <4>1, <4>2
    <3>4. QED
      BY <2>1, <3>1, <3>3
  <2>5. ASSUME NEW u \in Users, GiveBack(u) PROVE \A v \in Users : Ready(v)
    BY <1>2, <2>1, <2>5, GiveBackStep
  <2>6. CASE FileStarts \/ UNCHANGED vars
    BY <2>1, <2>6, OtherStep
  <2>7. QED
    BY <2>2, <2>3, <2>4, <2>5, <2>6, StepKinds
<1>5. QED
  BY <1>2, <1>3, <1>4 DEF StoredExist, RealPath, Exists, Shares

LEMMA ExistInit == Init => ExistInv
<1> SUFFICES ASSUME Init PROVE StoredExist
  BY DEF ExistInv
<1>1. TracksInv
  BY FoldersInit
<1>2. \A u \in Users : phase[u] = "idle"
  BY DEF Init
<1>3. ASSUME NEW s \in Shares, shareDir[s] # NoPath
      PROVE  RealPath(sharePath[s] \o shareDir[s]) # NoPath
  <2> DEFINE first == sharePath[1]
  <2>1. Exists(first) /\ curDir = first /\ curShare = Select(sharePath, NoPath, first)
    BY <1>3 DEF Init, TrackInit, Shares
  <2>2. s = curShare /\ curShare # NoPath /\ ~browsed
    BY <1>1, <1>3, <2>1, SharesType DEF Init, TrackInit, Shares, TracksInv, TrackInv
  <2>3. sharePath[s] \o shareDir[s] = first
    BY <1>1, <2>1, <2>2 DEF TracksInv, FolderFollows
  <2>4. QED
    BY <2>1, <2>3, FolderIsReal DEF Exists
<1>4. QED
  BY <1>2, <1>3 DEF StoredExist

\* The folder stored for a share can always be listed in it, whichever handlers
\* and updates stored it, unless two threads were given one buffer.
THEOREM StoredPathsExist == Spec => []StoredPathExists
<1>1. Init => TypeInv /\ PoolInv /\ OwnInv
  BY TypeInit, PoolInvInit DEF Init, OwnInv, BufferHasOwnPath, ResolvedIsOwn
<1>2. Spec => [](TypeInv /\ PoolInv /\ ServerInv /\ OwnInv)
  BY <1>1, ServerInit, TypeStep, PoolStep, PoolIsUsed, ServerStep, OwnStep, PTL
     DEF Spec
<1>3. TypeInv /\ ServerInv /\ OwnInv /\ TracksInv /\ FolderRequests /\ ExistInv
        /\ [Next]_vars => ExistInv'
  BY ExistStep
<1>4. ExistInv => StoredPathExists
  BY DEF ExistInv, StoredExist, StoredPathExists
<1>5. QED
  BY <1>2, <1>3, <1>4, ExistInit, TracksHold, PTL DEF Spec

-----------------------------------------------------------------------------
(* One request after the other.                                             *)

\* At most one thread is at work, and it finds everything as it left it.
Orderly ==
  /\ \A u, v \in Users : phase[u] # "idle" /\ phase[v] # "idle" => u = v
  /\ \A u \in Users : poolPc[u] # "out" => phase[u] = "acquire"
  /\ \A u \in Users : poolPc[u] = "take" => ~acquired[cur[u]] /\ buffer[cur[u]] = got[u]
  /\ \A u \in Users : phase[u] = "update" => pending # NoPath
  /\ stale = {} /\ races = {} /\ fault = "none"

OrderlyInv == ~overlap => Orderly

\* A thread at work is alone, and nobody holds a string that could be freed.
LEMMA WorksAlone ==
  ASSUME Orderly, NEW u \in Users, phase[u] # "idle"
  PROVE  /\ \A v \in Users \ {u} : phase[v] = "idle" /\ poolPc[v] = "out"
         /\ phase[u] \notin {"copy", "answer"} => \A s : PointsTo(s) = {}
<1>1. \A v \in Users \ {u} : phase[v] = "idle" /\ poolPc[v] = "out"
  BY DEF Orderly
<1>2. QED
  BY <1>1 DEF PointsTo

LEMMA OrderlyEarly ==
  ASSUME TypeInv, ServerTypeOK, TracksInv, Orderly, NEW u \in Users, Early(u), ~overlap'
  PROVE  Orderly'
<1> USE DEF ServerTypeOK, At, Goto, Accept, FindFolder, history, trackVars, poolVars
<1>1. CASE Request(u)
  <2>1. \A v \in Users \ {u} : phase[v] = "idle" /\ phase'[v] = "idle"
    BY <1>1, EarlyStep DEF Request
  <2>2. phase'[u] # "update"
    BY <1>1 DEF Request, StartList, StartPage, StartLoad, StartStatic, StartCurrent
  <2>3. UNCHANGED <<poolVars, trackVars, stale, fault>> /\ phase[u] = "idle"
    BY <1>1 DEF Request
  <2>4. QED
    BY <2>1, <2>2, <2>3 DEF Orderly
<1>2. CASE ~Request(u)
  <2>1. phase[u] \in {"test", "update", "redirect", "copy"}
    BY <1>2 DEF Early, TestPending, UpdateCurrent, NoCurrentShare, RedirectList,
       RedirectPage, CopyCurrent
  <2>2. \A v \in Users \ {u} : /\ phase[v] = "idle" /\ phase'[v] = "idle"
                               /\ poolPc[v] = "out"
    BY <2>1, WorksAlone, EarlyStep
  <2>3. poolPc[u] = "out"
    BY <2>1 DEF Orderly
  <2>4. UNCHANGED poolVars
    BY <1>2 DEF Early, TestPending, UpdateCurrent, NoCurrentShare, RedirectList,
       RedirectPage, CopyCurrent
  <2>5. stale' = {} /\ fault' = "none"
    <3>1. CASE UpdateCurrent(u)
      <4>1. phase[u] = "update" /\ pending # NoPath /\ stale = {} /\ fault = "none"
        BY <3>1 DEF UpdateCurrent, Orderly
      <4>2. PointsTo(Updated(pending)) = {}
        BY <4>1, WorksAlone
      <4>3. QED
        BY <3>1, <4>1, <4>2 DEF UpdateCurrent
    <3>2. CASE ~UpdateCurrent(u)
      BY <1>2, <3>2 DEF Early, TestPending, NoCurrentShare, RedirectList,
         RedirectPage, CopyCurrent, Orderly
    <3>3. QED
      BY <3>1, <3>2
  <2>6. phase'[u] = "update" => pending' # NoPath
    BY <1>2, <2>1 DEF Early, TestPending, UpdateCurrent, NoCurrentShare,
       RedirectList, RedirectPage, CopyCurrent, Orderly
  <2>7. QED
    BY <2>2, <2>3, <2>4, <2>5, <2>6 DEF Orderly
<1>3. QED
  BY <1>1, <1>2

LEMMA OrderlyAcquire ==
  ASSUME TypeInv, ServerTypeOK, Orderly, NEW u \in Users, AcquireStep(u)
  PROVE  Orderly'
<1>1. /\ phase[u] = "acquire" /\ phase'[u] \in {"acquire", "write"}
      /\ \A v \in Users \ {u} : phase'[v] = phase[v]
  BY AcquireServerStep
<1>2. \A v \in Users \ {u} : phase'[v] = "idle" /\ poolPc[v] = "out"
  BY <1>1, WorksAlone
<1>3. UNCHANGED <<pending, stale, fault>>
  BY DEF AcquireStep, trackVars
<1> USE DEF TypeInv, PoolTypeOK, Orderly
<1>4. \A v \in Users \ {u} : poolPc'[v] = "out"
  BY <1>2 DEF AcquireStep, AcquireLook, AcquireTake, AcquireSearch, AcquireStore
<1>5. races' = {}
  BY DEF AcquireStep, AcquireLook, AcquireTake, AcquireSearch, AcquireStore
<1>6. poolPc'[u] = "take" => ~acquired'[cur'[u]] /\ buffer'[cur'[u]] = got'[u]
  BY DEF AcquireStep, AcquireLook, AcquireTake, AcquireSearch, AcquireStore
<1>7. poolPc'[u] # "out" => phase'[u] = "acquire"
  BY <1>1 DEF AcquireStep, AcquireLook, AcquireTake, AcquireSearch, AcquireStore
<1>8. QED
  BY <1>1, <1>2, <1>3, <1>4, <1>5, <1>6, <1>7

LEMMA OrderlyMiddle ==
  ASSUME ServerTypeOK, Orderly, NEW u \in Users, Middle(u)
  PROVE  Orderly'
<1>1. /\ phase[u] \in Serving /\ phase'[u] \in Serving \cup {"release"}
      /\ \A v \in Users \ {u} : phase'[v] = phase[v]
  BY MiddleStep
<1>2. \A v \in Users \ {u} : phase'[v] = "idle" /\ poolPc[v] = "out"
  BY <1>1, WorksAlone DEF Serving
<1>3. poolPc[u] = "out" /\ stale = {} /\ races = {} /\ fault = "none"
  BY <1>1 DEF Orderly, Serving
<1>4. UNCHANGED poolVars
  BY DEF Middle, WritePath, RefuseShare, ResolveFolder, ResolveStatic, CheckLoad,
     SaveFolder, LoadFile, AnswerList, AnswerPage, AnswerStatic
<1>5. stale' = {} /\ fault' = "none"
  <2>1. CASE SaveFolder(u)
    BY <1>3, <2>1, WorksAlone DEF SaveFolder, At
  <2>2. CASE ~SaveFolder(u)
    BY <1>3, <2>2 DEF Middle, WritePath, RefuseShare, ResolveFolder, ResolveStatic,
       CheckLoad, LoadFile, AnswerList, AnswerPage, AnswerStatic, UseFolderName
  <2>3. QED
    BY <2>1, <2>2
<1>6. QED
  BY <1>1, <1>2, <1>3, <1>4, <1>5 DEF Orderly, Serving, poolVars

LEMMA OrderlyGiveBack ==
  ASSUME TypeInv, ServerTypeOK, Orderly, NEW u \in Users, GiveBack(u)
  PROVE  Orderly'
<1>1. /\ phase[u] = "release" /\ phase'[u] \in {"release", "idle"}
      /\ \A v \in Users \ {u} : phase'[v] = phase[v]
  BY GiveBackStep
<1>2. \A v \in Users \ {u} : phase'[v] = "idle" /\ poolPc[v] = "out"
  BY <1>1, WorksAlone
<1>3. UNCHANGED <<poolPc, races, stale, fault>> /\ poolPc[u] = "out"
  BY DEF GiveBack, Release
<1>4. QED
  BY <1>1, <1>2, <1>3 DEF Orderly

LEMMA OrderlyStep ==
  ASSUME TypeInv, ServerInv, TracksInv, OrderlyInv, [Next]_vars
  PROVE  OrderlyInv'
<1> SUFFICES ASSUME ~overlap' PROVE Orderly'
  BY DEF OrderlyInv
<1>1. ~overlap
  <2>1. ASSUME NEW u \in Users, Early(u) PROVE ~overlap
    BY <2>1 DEF Early, Request, TestPending, UpdateCurrent, NoCurrentShare,
       RedirectList, RedirectPage, CopyCurrent, history
  <2>2. ASSUME NEW u \in Users, Middle(u) PROVE ~overlap
    BY <2>2 DEF Middle, WritePath, RefuseShare, ResolveFolder, ResolveStatic,
       CheckLoad, SaveFolder, LoadFile, AnswerList, AnswerPage, AnswerStatic, history
  <2>3. ASSUME NEW u \in Users, AcquireStep(u) \/ GiveBack(u) PROVE ~overlap
    BY <2>3 DEF AcquireStep, GiveBack, history
  <2>4. CASE FileStarts \/ UNCHANGED vars
    BY <2>4 DEF FileStarts, vars, serverVars, history
  <2>5. QED
    BY <2>1, <2>2, <2>3, <2>4, StepKinds
<1>2. Orderly /\ ServerTypeOK
  BY <1>1 DEF OrderlyInv, ServerInv
<1>3. CASE FileStarts
  BY <1>2, <1>3, TrackPathsAssumption DEF FileStarts, StartFile, Orderly, poolVars
<1>4. CASE UNCHANGED vars
  BY <1>2, <1>4 DEF vars, serverVars, poolVars, trackVars, Orderly
<1>5. QED
  BY <1>2, <1>3, <1>4, StepKinds, OrderlyEarly, OrderlyAcquire, OrderlyMiddle,
     OrderlyGiveBack

\* Requests served one after the other never read a freed string, take over a
\* path that is not there or get a buffer twice, whatever mpv starts in between:
\* all that can go wrong needs two requests at the same time.
THEOREM OneByOneIsSafe == Spec => []SafeOneByOne
<1>1. Init => OrderlyInv
  BY DEF Init, PoolInit, OrderlyInv, Orderly
<1>2. TypeInv /\ ServerInv /\ TracksInv /\ OrderlyInv /\ [Next]_vars => OrderlyInv'
  BY OrderlyStep
<1>3. OrderlyInv => SafeOneByOne
  BY DEF OrderlyInv, Orderly, SafeOneByOne
<1>4. QED
  BY <1>1, <1>2, <1>3, TracksHold, PTL DEF Spec

-----------------------------------------------------------------------------
(* Conversions of text.                                                     *)

\* The text p has the part from f to l, with slashes only before and behind it.
PartIs(p, f, l) ==
  /\ f \in 1 .. Len(p) /\ l \in f .. Len(p) /\ p[f] # "/" /\ p[l] # "/"
  /\ \A k \in 1 .. Len(p) : k < f \/ k > l => p[k] = "/"

OnlySlashes(p) == \A k \in 1 .. Len(p) : p[k] = "/"

\* Every text has such a part, or consists of slashes.
LEMMA PartExists ==
  ASSUME NEW S, NEW p \in Seq(S), ~OnlySlashes(p)
  PROVE  \E f, l : PartIs(p, f, l)
<1> DEFINE n == Len(p)
           T == {k \in 1 .. n : p[k] # "/"}
<1>1. n \in Nat
  OBVIOUS
<1> HIDE DEF n
<1>2. T # {} /\ T \in SUBSET Nat /\ T \in SUBSET (0 .. n)
  BY <1>1 DEF OnlySlashes, n
<1>3. PICK f \in T : \A k \in T : f <= k
  BY <1>2, LeastNat
<1>4. PICK l \in T : \A k \in T : k <= l
  BY <1>1, <1>2, GreatestNat
<1>5. PartIs(p, f, l)
  BY <1>1, <1>3, <1>4 DEF PartIs, n
<1>6. QED
  BY <1>5

\* consume_leading_slashs
LEMMA LeadingTaken ==
  ASSUME NEW S, NEW p \in Seq(S)
  PROVE  /\ \A f, l : PartIs(p, f, l) => NoLeading(p) = SubSeq(p, f, Len(p))
         /\ OnlySlashes(p) => NoLeading(p) = <<>>
<1> DEFINE n == Len(p)
           Is(i) == /\ \A k \in 1 .. i - 1 : p[k] = "/"
                    /\ i = n + 1 \/ p[i] # "/"
           c == CHOOSE i \in 1 .. n + 1 : Is(i)
<1>1. n \in Nat /\ NoLeading(p) = SubSeq(p, c, n)
  BY DEF NoLeading
<1> HIDE DEF n
<1>2. ASSUME NEW i \in 1 .. n + 1, Is(i) PROVE c \in 1 .. n + 1 /\ Is(c)
  BY <1>2
<1>3. ASSUME NEW f, NEW l, PartIs(p, f, l) PROVE c = f
  <2>1. f \in 1 .. n /\ p[f] # "/" /\ \A k \in 1 .. f - 1 : p[k] = "/"
    BY <1>1, <1>3 DEF PartIs, n
  <2>2. f \in 1 .. n + 1 /\ Is(f)
    BY <1>1, <2>1
  <2>3. c \in 1 .. n + 1 /\ Is(c)
    BY <1>2, <2>2
  <2> HIDE DEF c
  <2>4. ~(c < f)
    <3>1. CASE c < f
      <4>1. c \in 1 .. f - 1 /\ c # n + 1
        BY <1>1, <2>1, <2>3, <3>1
      <4>2. QED
        BY <2>1, <2>3, <4>1
    <3>2. QED
      BY <3>1
  <2>5. ~(f < c)
    <3>1. CASE f < c
      <4>1. f \in 1 .. c - 1
        BY <1>1, <2>1, <2>3, <3>1
      <4>2. QED
        BY <2>1, <2>3, <4>1
    <3>2. QED
      BY <3>1
  <2>6. QED
    BY <1>1, <2>1, <2>3, <2>4, <2>5
<1>4. ASSUME OnlySlashes(p) PROVE NoLeading(p) = <<>>
  <2>1. n + 1 \in 1 .. n + 1 /\ Is(n + 1)
    BY <1>1, <1>4 DEF OnlySlashes, n
  <2>2. c \in 1 .. n + 1 /\ Is(c)
    BY <1>2, <2>1
  <2> HIDE DEF c
  <2>3. c = n + 1
    BY <1>1, <1>4, <2>2 DEF OnlySlashes, n
  <2>4. SubSeq(p, n + 1, n) = <<>>
    BY <1>1 DEF n
  <2>5. QED
    BY <1>1, <2>3, <2>4
<1>5. QED
  BY <1>1, <1>3, <1>4 DEF n

\* rstrip_slash
LEMMA TrailingTaken ==
  ASSUME NEW S, NEW p \in Seq(S), NEW l \in 0 .. Len(p), l = 0 \/ p[l] # "/",
         \A k \in l + 1 .. Len(p) : p[k] = "/"
  PROVE  NoTrailing(p) = SubSeq(p, 1, l)
<1> DEFINE n == Len(p)
           Is(i) == /\ \A k \in i + 1 .. n : p[k] = "/"
                    /\ i = 0 \/ p[i] # "/"
           c == CHOOSE i \in 0 .. n : Is(i)
<1>1. n \in Nat /\ NoTrailing(p) = SubSeq(p, 1, c)
  BY DEF NoTrailing
<1>2. l \in 0 .. n /\ Is(l)
  OBVIOUS
<1>3. c \in 0 .. n /\ Is(c)
  BY <1>2
<1> HIDE DEF c, n
<1>4. ~(c < l)
  <2>1. CASE c < l
    <3>1. l \in c + 1 .. n /\ l # 0
      BY <1>1, <1>2, <1>3, <2>1
    <3>2. QED
      BY <1>2, <1>3, <3>1
  <2>2. QED
    BY <2>1
<1>5. ~(l < c)
  <2>1. CASE l < c
    <3>1. c \in l + 1 .. n /\ c # 0
      BY <1>1, <1>2, <1>3, <2>1
    <3>2. QED
      BY <1>2, <1>3, <3>1
  <2>2. QED
    BY <2>1
<1>6. c = l
  BY <1>1, <1>2, <1>3, <1>4, <1>5
<1>7. QED
  BY <1>1, <1>6

\* left_slashed_string_if_not_empty puts one slash in front of the part.
LEMMA PartSlashed ==
  ASSUME NEW S, "/" \in S, NEW p \in Seq(S), NEW f, NEW l, PartIs(p, f, l)
  PROVE  LET n == LeftSlashed(p)
         IN /\ n \in Seq(S) /\ Len(n) = l - f + 2 /\ n[1] = "/"
            /\ \A k \in 2 .. l - f + 2 : n[k] = p[k + f - 2]
<1> DEFINE m == Len(p)
           t == SubSeq(p, f, m)
           r == <<"/">> \o t
           e == l - f + 2
<1>1. m \in Nat /\ f \in 1 .. m /\ l \in f .. m /\ p[f] # "/" /\ p[l] # "/"
      /\ \A k \in 1 .. m : k < f \/ k > l => p[k] = "/"
  BY DEF PartIs
<1>2. p \notin {<<>>, <<"/">>}
  BY <1>1
<1>3. LeftSlashed(p) = NoTrailing(r)
  BY <1>2, LeadingTaken DEF LeftSlashed
<1>4. t \in Seq(S) /\ Len(t) = m - f + 1 /\ \A k \in 1 .. m - f + 1 : t[k] = p[k + f - 1]
  BY <1>1
<1>5. <<"/">> \in Seq(S) /\ Len(<<"/">>) = 1 /\ <<"/">>[1] = "/"
  OBVIOUS
<1> HIDE DEF t, m
<1>6. r \in Seq(S) /\ Len(r) = m - f + 2 /\ r[1] = "/"
      /\ \A k \in 2 .. m - f + 2 : r[k] = p[k + f - 2]
  <2> DEFINE o == <<"/">>
  <2>1. /\ o \o t \in Seq(S) /\ Len(o \o t) = Len(o) + Len(t)
        /\ \A k \in 1 .. Len(o) + Len(t) :
             (o \o t)[k] = IF k <= Len(o) THEN o[k] ELSE t[k - Len(o)]
    BY <1>4, <1>5, ConcatProperties
  <2>2. Len(o) = 1 /\ o[1] = "/" /\ r = o \o t
    OBVIOUS
  <2> HIDE DEF o, r
  <2>3. ASSUME NEW k \in 2 .. m - f + 2 PROVE r[k] = p[k + f - 2]
    <3>1. k \in 1 .. Len(o) + Len(t) /\ ~(k <= Len(o)) /\ k - 1 \in 1 .. m - f + 1
          /\ k - 1 + f - 1 = k + f - 2
      BY <1>1, <1>4, <2>2
    <3>2. r[k] = t[k - 1] /\ t[k - 1] = p[k - 1 + f - 1]
      BY <1>4, <2>1, <2>2, <3>1
    <3>3. QED
      BY <3>1, <3>2
  <2>4. Len(r) = m - f + 2 /\ r[1] = "/"
    BY <1>1, <1>4, <2>1, <2>2
  <2>5. QED
    BY <2>1, <2>2, <2>3, <2>4
<1> HIDE DEF r
<1>7. e \in 0 .. Len(r) /\ e # 0 /\ r[e] # "/" /\ \A k \in e + 1 .. Len(r) : r[k] = "/"
  <2>1. e \in 2 .. m - f + 2 /\ e + f - 2 = l
    BY <1>1
  <2>2. ASSUME NEW k \in e + 1 .. Len(r) PROVE r[k] = "/"
    <3>1. k \in 2 .. m - f + 2 /\ k + f - 2 \in 1 .. m /\ k + f - 2 > l
      BY <1>1, <1>6
    <3>2. QED
      BY <1>1, <1>6, <3>1
  <2>3. QED
    BY <1>1, <1>6, <2>1, <2>2
<1>8. NoTrailing(r) = SubSeq(r, 1, e)
  BY <1>6, <1>7, TrailingTaken
<1>9. SubSeq(r, 1, e) \in Seq(S) /\ Len(SubSeq(r, 1, e)) = e
      /\ \A k \in 1 .. e : SubSeq(r, 1, e)[k] = r[k]
  BY <1>1, <1>6, <1>7
<1>10. 1 \in 1 .. e /\ \A k \in 2 .. e : k \in 1 .. e /\ k \in 2 .. m - f + 2
  BY <1>1
<1>11. QED
  BY <1>3, <1>6, <1>8, <1>9, <1>10

\* Nothing is left of slashes alone.
LEMMA SlashesVanish ==
  ASSUME NEW S, NEW p \in Seq(S), OnlySlashes(p)
  PROVE  LeftSlashed(p) = <<>>
<1> DEFINE r == <<"/">>
<1>1. NoLeading(p) = <<>>
  BY LeadingTaken
<1>2. r \in Seq({"/"}) /\ Len(r) = 1 /\ r[1] = "/" /\ r \o <<>> = r
  OBVIOUS
<1> HIDE DEF r
<1>3. NoTrailing(r) = SubSeq(r, 1, 0)
  <2>1. 0 \in 0 .. Len(r) /\ \A k \in 0 + 1 .. Len(r) : r[k] = "/"
    BY <1>2
  <2>2. QED
    BY <1>2, <2>1, TrailingTaken
<1>4. SubSeq(r, 1, 0) = <<>>
  BY <1>2
<1>5. QED
  BY <1>1, <1>2, <1>3, <1>4 DEF LeftSlashed, r

Slashes == {<<>>, <<"/">>, <<"/", "/">>}

\* The slashes that the property puts around a text
LEMMA SlashesAre ==
  ASSUME NEW S, "/" \in S, NEW a \in Slashes
  PROVE  a \in Seq(S) /\ Len(a) \in Nat /\ \A k \in 1 .. Len(a) : a[k] = "/"
<1>1. CASE a = <<>>
  BY <1>1
<1>2. CASE a = <<"/">>
  BY <1>2
<1>3. CASE a = <<"/", "/">>
  <2>1. a \in Seq(S) /\ Len(a) = 2 /\ a[1] = "/" /\ a[2] = "/"
    BY <1>3
  <2>2. ASSUME NEW k \in 1 .. 2 PROVE k = 1 \/ k = 2
    OBVIOUS
  <2>3. QED
    BY <2>1, <2>2
<1>4. QED
  BY <1>1, <1>2, <1>3 DEF Slashes

\* Slashes put around a text leave the part of it where it is.
LEMMA SlashesAround ==
  ASSUME NEW S, "/" \in S, NEW p \in Seq(S), NEW a \in Slashes, NEW b \in Slashes
  PROVE  LET q == a \o p \o b
         IN /\ q \in Seq(S) /\ Len(a) \in Nat
            /\ \A k \in 1 .. Len(p) : q[k + Len(a)] = p[k]
            /\ \A f, l : PartIs(p, f, l) => PartIs(q, f + Len(a), l + Len(a))
            /\ OnlySlashes(p) => OnlySlashes(q)
<1> DEFINE t == a \o p
           q == t \o b
           i == Len(a)
           n == Len(p)
           m == Len(b)
<1>1. /\ a \in Seq(S) /\ i \in Nat /\ \A k \in 1 .. i : a[k] = "/"
      /\ b \in Seq(S) /\ m \in Nat /\ \A k \in 1 .. m : b[k] = "/"
  BY SlashesAre
<1>2. n \in Nat
  OBVIOUS
<1>3. /\ t \in Seq(S) /\ Len(t) = i + n
      /\ \A k \in 1 .. i + n : t[k] = IF k <= i THEN a[k] ELSE p[k - i]
  BY <1>1, ConcatProperties
<1> HIDE DEF t, i, n, m
<1>4. /\ q \in Seq(S) /\ Len(q) = i + n + m
      /\ \A k \in 1 .. i + n + m : q[k] = IF k <= i + n THEN t[k] ELSE b[k - (i + n)]
  <2>1. /\ t \o b \in Seq(S) /\ Len(t \o b) = Len(t) + Len(b)
        /\ \A k \in 1 .. Len(t) + Len(b) :
             (t \o b)[k] = IF k <= Len(t) THEN t[k] ELSE b[k - Len(t)]
    BY <1>1, <1>3, ConcatProperties
  <2>2. QED
    BY <1>3, <2>1 DEF m
<1> HIDE DEF q
<1>5. ASSUME NEW k \in 1 .. n PROVE q[k + i] = p[k]
  <2>1. k + i \in 1 .. i + n + m /\ k + i \in 1 .. i + n /\ k + i <= i + n /\ ~(k + i <= i)
        /\ k + i - i = k
    BY <1>1, <1>2
  <2> DEFINE h == k + i
  <2>2. h \in 1 .. i + n + m /\ h \in 1 .. i + n /\ h <= i + n /\ ~(h <= i) /\ h - i = k
    BY <1>1, <1>2, <2>1
  <2> HIDE DEF h
  <2>3. q[h] = t[h] /\ t[h] = p[h - i]
    BY <1>3, <1>4, <2>2
  <2>4. q[h] = p[k]
    BY <2>2, <2>3
  <2>5. QED
    BY <2>4 DEF h
<1>6. ASSUME NEW k \in 1 .. i + n + m, k \notin i + 1 .. i + n PROVE q[k] = "/"
  <2>1. CASE k <= i
    <3>1. k \in 1 .. i /\ k \in 1 .. i + n /\ k <= i + n
      BY <1>1, <1>2, <2>1
    <3>2. q[k] = t[k] /\ t[k] = a[k]
      BY <1>3, <1>4, <1>6, <2>1, <3>1
    <3>3. QED
      BY <1>1, <3>1, <3>2
  <2>2. CASE k > i + n
    <3> DEFINE h == k - (i + n)
    <3>1. ~(k <= i + n) /\ h \in 1 .. m
      BY <1>1, <1>2, <2>2
    <3>2. q[k] = b[h]
      BY <1>4, <1>6, <3>1
    <3> HIDE DEF h
    <3>3. QED
      BY <1>1, <3>1, <3>2
  <2>3. QED
    BY <1>1, <1>2, <1>6, <2>1, <2>2
<1>7. ASSUME NEW f, NEW l, PartIs(p, f, l) PROVE PartIs(q, f + i, l + i)
  <2>1. f \in 1 .. n /\ l \in f .. n /\ p[f] # "/" /\ p[l] # "/"
        /\ \A k \in 1 .. n : k < f \/ k > l => p[k] = "/"
    BY <1>7 DEF PartIs, n
  <2>2. f + i \in 1 .. Len(q) /\ l + i \in f + i .. Len(q) /\ l \in 1 .. n
    BY <1>1, <1>2, <1>4, <2>1
  <2>3. q[f + i] # "/" /\ q[l + i] # "/"
    BY <1>5, <2>1, <2>2
  <2>4. ASSUME NEW k \in 1 .. Len(q), k < f + i \/ k > l + i PROVE q[k] = "/"
    <3>1. CASE k \in i + 1 .. i + n
      <4>1. k - i \in 1 .. n /\ (k - i < f \/ k - i > l) /\ k - i + i = k
        BY <1>1, <1>2, <2>1, <2>2, <2>4, <3>1
      <4>2. QED
        BY <1>5, <2>1, <4>1
    <3>2. CASE k \notin i + 1 .. i + n
      BY <1>4, <1>6, <3>2
    <3>3. QED
      BY <3>1, <3>2
  <2>5. QED
    BY <2>2, <2>3, <2>4 DEF PartIs
<1>8. ASSUME OnlySlashes(p) PROVE OnlySlashes(q)
  <2>1. ASSUME NEW k \in 1 .. Len(q) PROVE q[k] = "/"
    <3>1. CASE k \in i + 1 .. i + n
      <4>1. k - i \in 1 .. n /\ k - i + i = k
        BY <1>1, <1>2, <3>1
      <4>2. QED
        BY <1>5, <1>8, <4>1 DEF OnlySlashes, n
    <3>2. CASE k \notin i + 1 .. i + n
      BY <1>4, <1>6, <3>2
    <3>3. QED
      BY <3>1, <3>2
  <2>2. QED
    BY <2>1 DEF OnlySlashes
<1>9. QED
  BY <1>1, <1>4, <1>5, <1>7, <1>8 DEF q, t, i, n

\* left_slashed_string_if_not_empty, for every text
LEMMA FoldersHold == FolderIsNormal
<1> DEFINE S == STRING \cup {"/"}
<1>1. SUFFICES ASSUME NEW p \in Seq(S)
               PROVE  LET n == LeftSlashed(p) IN
                      /\ \A a, b \in Slashes : LeftSlashed(a \o p \o b) = n
                      /\ n # <<>> => n[1] = "/" /\ n[2] # "/" /\ n[Len(n)] # "/"
  <2>1. ASSUME NEW p \in Seq(STRING) PROVE p \in Seq(S)
    OBVIOUS
  <2>2. QED
    BY <2>1, TextToolsAssumption DEF FolderIsNormal, Slashes
<1>2. "/" \in S
  OBVIOUS
<1> HIDE DEF S
<1> DEFINE n == LeftSlashed(p)
<1>3. CASE OnlySlashes(p)
  <2>1. n = <<>>
    BY <1>3, SlashesVanish
  <2>2. ASSUME NEW a \in Slashes, NEW b \in Slashes PROVE LeftSlashed(a \o p \o b) = <<>>
    <3> DEFINE q == a \o p \o b
    <3>1. q \in Seq(S) /\ OnlySlashes(q)
      BY <1>2, <1>3, SlashesAround
    <3> HIDE DEF q
    <3>2. LeftSlashed(q) = <<>>
      BY <3>1, SlashesVanish
    <3>3. QED
      BY <3>2 DEF q
  <2>3. QED
    BY <2>1, <2>2
<1>4. ASSUME NEW f, NEW l, PartIs(p, f, l)
      PROVE  /\ \A a, b \in Slashes : LeftSlashed(a \o p \o b) = n
             /\ n[1] = "/" /\ n[2] # "/" /\ n[Len(n)] # "/"
  <2>1. Len(p) \in Nat /\ f \in 1 .. Len(p) /\ l \in f .. Len(p) /\ p[f] # "/" /\ p[l] # "/"
    BY <1>4 DEF PartIs
  <2>2. /\ n \in Seq(S) /\ Len(n) = l - f + 2 /\ n[1] = "/"
        /\ \A k \in 2 .. l - f + 2 : n[k] = p[k + f - 2]
    BY <1>2, <1>4, PartSlashed
  <2> HIDE DEF n
  <2>3. n[2] # "/" /\ n[Len(n)] # "/"
    <3>1. 2 \in 2 .. l - f + 2 /\ 2 + f - 2 = f
      BY <2>1
    <3>2. Len(n) \in 2 .. l - f + 2 /\ Len(n) + f - 2 = l
      BY <2>1, <2>2
    <3>3. n[2] = p[f] /\ n[Len(n)] = p[l]
      BY <2>2, <3>1, <3>2
    <3>4. QED
      BY <2>1, <3>3
  <2>4. ASSUME NEW a \in Slashes, NEW b \in Slashes PROVE LeftSlashed(a \o p \o b) = n
    <3> DEFINE q == a \o p \o b
               i == Len(a)
               v == LeftSlashed(q)
    <3>1. /\ q \in Seq(S) /\ i \in Nat /\ PartIs(q, f + i, l + i)
          /\ \A k \in 1 .. Len(p) : q[k + i] = p[k]
      BY <1>2, <1>4, SlashesAround
    <3> HIDE DEF q, i
    <3>2. /\ v \in Seq(S) /\ Len(v) = (l + i) - (f + i) + 2 /\ v[1] = "/"
          /\ \A k \in 2 .. (l + i) - (f + i) + 2 : v[k] = q[k + (f + i) - 2]
      BY <1>2, <3>1, PartSlashed
    <3> HIDE DEF v
    <3>3. (l + i) - (f + i) + 2 = l - f + 2
      BY <2>1, <3>1
    <3>4. ASSUME NEW k \in 1 .. l - f + 2 PROVE v[k] = n[k]
      <4>1. CASE k = 1
        BY <2>2, <3>2, <4>1
      <4>2. CASE k # 1
        <5>1. k \in 2 .. l - f + 2 /\ k + f - 2 \in 1 .. Len(p)
              /\ k + (f + i) - 2 = k + f - 2 + i
          BY <2>1, <3>1, <4>2
        <5>2. v[k] = q[k + f - 2 + i] /\ n[k] = p[k + f - 2]
          BY <2>2, <3>2, <3>3, <5>1
        <5>3. QED
          BY <3>1, <5>1, <5>2
      <4>3. QED
        BY <4>1, <4>2
    <3>5. v = n
      BY <2>2, <3>2, <3>3, <3>4
    <3>6. QED
      BY <3>5 DEF v, q
  <2>5. QED
    BY <2>2, <2>3, <2>4
<1>5. QED
  BY <1>3, <1>4, PartExists

\* FolderHasOneName for every text: a folder of a share has one relative path, however
\* many slashes a URL has around it (left_slashed_string_if_not_empty).
THEOREM FoldersHaveOneName == Spec => []FolderHasOneName
<1>1. FolderHasOneName
  BY FoldersHold DEF FolderHasOneName
<1>2. QED
  BY <1>1, PTL

\* A number of units and of their parts, rounded down to thousandths of the unit
LEMMA RoundedDown ==
  ASSUME NEW n \in Nat, NEW part \in Nat \ {0}, NEW unit, unit = part * Kilo,
         NEW milli, milli = 1000 * (n \div unit) + (1000 * ((n % unit) \div part)) \div Kilo
  PROVE  /\ milli * unit <= 1000 * n
         /\ 1000 * n < (milli + 2 + 1000 \div Kilo) * unit
<1> DEFINE q == n \div unit
           r == n % unit
           s == r \div part
           t == r % part
           m == (1000 * s) \div Kilo
           u == (1000 * s) % Kilo
           v == 1000 \div Kilo
           w == 1000 % Kilo
<1>1. Kilo \in Nat \ {0} /\ unit \in Nat \ {0}
  BY TextToolsAssumption
<1>2. q \in Nat /\ r \in Nat /\ n = unit * q + r
  BY <1>1, Divided, Zenon
<1> HIDE DEF q, r
<1>3. s \in Nat /\ t \in Nat /\ t < part /\ r = part * s + t
  BY <1>2, Divided, Zenon
<1> HIDE DEF s, t
<1>4. m \in Nat /\ u \in Nat /\ u < Kilo /\ 1000 * s = Kilo * m + u
  <2> DEFINE x == 1000 * s
  <2>1. x \in Nat
    BY <1>3
  <2> HIDE DEF x
  <2>2. x \div Kilo \in Nat /\ x % Kilo \in Nat /\ x % Kilo < Kilo
        /\ x = Kilo * (x \div Kilo) + (x % Kilo)
    BY <1>1, <2>1, Divided, Zenon
  <2>3. QED
    BY <2>2 DEF x
<1>5. v \in Nat /\ w \in Nat /\ w < Kilo /\ 1000 = Kilo * v + w
  BY <1>1
<1>6. milli = 1000 * q + m
  BY DEF q, r, s, m
<1> HIDE DEF m, u, v, w
<1>7. 1000 * n = 1000 * q * unit + part * (Kilo * m + u) + 1000 * t
  BY <1>1, <1>2, <1>3, <1>4
<1>8. part * (Kilo * m + u) = m * unit + part * u
  BY <1>1, <1>3, <1>4
<1>9. milli * unit = 1000 * q * unit + m * unit
  BY <1>1, <1>2, <1>4, <1>6
<1>10. 0 <= part * u /\ part * u < unit
  <2>1. part * u <= part * (Kilo - 1)
    BY <1>1, <1>4
  <2>2. part * (Kilo - 1) = unit - part
    BY <1>1
  <2>3. 0 <= part * u /\ part * u \in Nat
    BY <1>4
  <2>4. QED
    BY <1>1, <2>1, <2>2, <2>3
<1>11. 1000 * t < v * unit + unit
  <2>1. 1000 * t <= 1000 * part /\ 1000 * part \in Nat
    BY <1>3
  <2>2. 1000 * part = v * unit + part * w
    <3>1. 1000 * part = (Kilo * v + w) * part
      BY <1>5
    <3>2. (Kilo * v + w) * part = v * unit + part * w
      BY <1>1, <1>5
    <3>3. QED
      BY <3>1, <3>2
  <2>3. part * w < unit /\ part * w \in Nat
    <3>1. part * w <= part * (Kilo - 1)
      BY <1>1, <1>5
    <3>2. part * (Kilo - 1) = unit - part /\ part * w \in Nat
      BY <1>1, <1>5
    <3>3. QED
      BY <1>1, <3>1, <3>2
  <2>4. v * unit \in Nat
    BY <1>1, <1>5
  <2>5. QED
    BY <1>1, <1>3, <2>1, <2>2, <2>3, <2>4
<1>12. (milli + 2 + v) * unit = milli * unit + unit + unit + v * unit
  BY <1>1, <1>2, <1>4, <1>5, <1>6
<1> DEFINE a == 1000 * q * unit
           b == m * unit
           c == part * u
           d == v * unit
<1>13. a \in Nat /\ b \in Nat /\ c \in Nat /\ d \in Nat
  BY <1>1, <1>2, <1>4, <1>5
<1>14. /\ 1000 * n = a + (b + c) + 1000 * t /\ milli * unit = a + b
       /\ c < unit /\ 1000 * t < d + unit
       /\ (milli + 2 + v) * unit = a + b + unit + unit + d
  BY <1>7, <1>8, <1>9, <1>10, <1>11, <1>12
<1> HIDE DEF a, b, c, d
<1>15. milli * unit <= 1000 * n /\ 1000 * n < (milli + 2 + v) * unit
  BY <1>1, <1>3, <1>13, <1>14
<1>16. QED
  BY <1>15 DEF v

\* print_filesize_BIN64 and "int s = st.st_size", for every size
LEMMA SizesHold == SizeIsTrue
<1> SUFFICES ASSUME NEW n \in Nat
             PROVE  /\ FileSize(n).milli * FileSize(n).unit <= 1000 * n
                    /\ 1000 * n < (FileSize(n).milli + 2 + 1000 \div Kilo) * FileSize(n).unit
                    /\ ListedSize(n) = n <=> n <= MaxInt
  BY TextToolsAssumption DEF SizeIsTrue
<1>1. /\ Kilo \in Nat \ {0} /\ Mega \in Nat \ {0} /\ Giga \in Nat \ {0} /\ MaxInt \in Nat
      /\ Kilo = 1 * Kilo /\ Mega = Kilo * Kilo /\ Giga = Mega * Kilo
  BY TextToolsAssumption DEF Mega, Giga
<1>2. Kilo \div Kilo = 1 /\ Mega \div Kilo = Kilo /\ Giga \div Kilo = Mega
  <2>1. ASSUME NEW k \in Nat PROVE (k * Kilo) \div Kilo = k
    BY <1>1
  <2>2. QED
    BY <1>1, <2>1
<1> DEFINE Rounds(x) == /\ x.milli * x.unit <= 1000 * n
                        /\ 1000 * n < (x.milli + 2 + 1000 \div Kilo) * x.unit
           Of(unit) ==
             [unit |-> unit,
              milli |-> 1000 * (n \div unit)
                          + (1000 * ((n % unit) \div (unit \div Kilo))) \div Kilo]
<1>3. Rounds(Of(Kilo)) /\ Rounds(Of(Mega)) /\ Rounds(Of(Giga))
  <2>1. ASSUME NEW part \in Nat \ {0}, NEW unit, unit = part * Kilo, unit \div Kilo = part
        PROVE  Rounds(Of(unit))
    BY <2>1, RoundedDown
  <2> HIDE DEF Rounds, Of
  <2>2. Rounds(Of(Kilo))
    <3>1. 1 \in Nat \ {0}
      OBVIOUS
    <3>2. QED
      BY <1>1, <1>2, <2>1, <3>1
  <2>3. Rounds(Of(Mega)) /\ Rounds(Of(Giga))
    BY <1>1, <1>2, <2>1
  <2>4. QED
    BY <2>2, <2>3
<1>4. Rounds([unit |-> 1, milli |-> 1000 * n])
  <2>1. 1000 \div Kilo \in Nat
    BY <1>1
  <2>2. QED
    BY <2>1
<1>5. FileSize(n) \in {Of(Kilo), Of(Mega), Of(Giga), [unit |-> 1, milli |-> 1000 * n]}
  BY DEF FileSize
<1>6. Rounds(FileSize(n))
  <2> HIDE DEF Rounds, Of
  <2>1. QED
    BY <1>3, <1>4, <1>5
<1>7. ListedSize(n) = n <=> n <= MaxInt
  <2> DEFINE M == 2 * (MaxInt + 1)
             low == n % M
             z == n \div M
  <2>1. M \in Nat \ {0} /\ z \in Nat /\ low \in 0 .. M - 1 /\ n = M * z + low
    <3>1. M \in Nat \ {0}
      BY <1>1
    <3> HIDE DEF M
    <3>2. z \in Nat /\ low \in Nat /\ low < M /\ n = M * z + low
      BY <3>1, Divided, Zenon
    <3>3. QED
      BY <3>1, <3>2
  <2>2. ListedSize(n) = IF low <= MaxInt THEN low ELSE low - M
    BY DEF ListedSize
  <2> HIDE DEF low, z
  <2>3. n < M => z = 0
    BY <2>1
  <2>4. n < M => low = n
    BY <2>1, <2>3
  <2>5. QED
    BY <1>1, <2>1, <2>2, <2>4
<1>8. QED
  BY <1>6, <1>7

\* SizesAreTrue for every size, with the real 1024 and the real range of int as well as
\* with others (print_filesize_BIN64, media_api_list).
THEOREM SizesShownAreTrue == Spec => []SizesAreTrue
<1>1. SizesAreTrue
  BY SizesHold DEF SizesAreTrue
<1>2. QED
  BY <1>1, PTL

\* NamesCollisionFree for every list of shares and every order in which the dictionary
\* yields them (__update_shared_folders, __swap_enumerated_share_names).
THEOREM NamesNeverCollide == Spec => []NamesCollisionFree
<1>1. NamesCollisionFree
  BY NamesAlwaysDiffer DEF NamesCollisionFree
<1>2. QED
  BY <1>1, PTL

\* SharesReachable for every list of shares, every order of the swaps and every path
\* below a share (__add_handler_for_shares).
THEOREM SharesAreReached == Spec => []SharesReachable
<1>1. SharesReachable
  BY NamesAlwaysReach DEF SharesReachable
<1>2. QED
  BY <1>1, PTL

\* FoldersAreSplit for every list of folders in the documented form
\* (split_shared_folder_str).
THEOREM FoldersAlwaysSplit == Spec => []FoldersAreSplit
<1>1. FoldersAreSplit
  BY OptionAlwaysSplit DEF FoldersAreSplit
<1>2. QED
  BY <1>1, PTL

\* EncodingAsDocumented: each bit of the bitmaps is right (__encode_by_map).
THEOREM EncodingIsRight == Spec => []EncodingAsDocumented
<1>1. EncodingAsDocumented
  BY EncodingAlwaysDocumented DEF EncodingAsDocumented
<1>2. QED
  BY <1>1, PTL
=============================================================================
