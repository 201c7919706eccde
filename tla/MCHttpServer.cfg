SPECIFICATION Spec
CONSTANTS
  Users = {u1, u2}
  u1 = u1
  u2 = u2
  PoolLen = 2
  Buffers <- MCBuffers
  ShareMaps <- MCShareMaps
  Dirs <- MCDirs
  Files <- MCFiles
  Played <- MCPlayed
  Words <- MCWords
  NoPath = NoPath
  Requests <- MCRequests
  HiddenNames <- MCHidden
  RootDir <- MCRoot
  Current <- MCCurrent
  MaxRequests = 3
  MaxStarts = 2
  MaxEvents = 4
  Configs <- MCConfigs
  RelPaths <- MCRelPaths
  SingleChars <- MCSingleChars
  Lists <- MCLists
  UrlTails <- MCUrlTails
  Sizes <- MCSizes
  Kilo = 64
  MaxInt = 511
INVARIANTS TypeOK BuffersAreExclusive QuietPoolIsFree CurrentShareFollows CurrentFolderFollows AnswersOwnRequest StoredPathExists SafeOneByOne NamesCollisionFree SharesReachable FoldersAreSplit FolderHasOneName EncodingAsDocumented SizesAreTrue
SYMMETRY const_Symmetry
\* undefined behaviour ends the program
CHECK_DEADLOCK FALSE
