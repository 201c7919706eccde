SPECIFICATION Spec
CONSTANTS
  a = a
  b = b
  c = c
  Files <- MCFiles
  FileInfo <- MCFileInfo
  FirstState <- MCFirst
  Bounds <- MCBounds
  Titled = {a}
  UsedButtons <- MCUsedButtons
  UsedMenus <- MCUsedMenus
  Positions <- MCPositions
  NShares = 2
  Urls <- MCUrls
  FirstDirs <- MCFirstDirs
  Folders <- MCFolders
  InFolder <- MCInFolder
  Strings <- MCStrings
  Lengths <- MCLengths
  MaxWrite = 20
  ShortLen = 10
  MetaLen = 4
  CommandTexts <- MCTexts
INVARIANTS TypeOK PageFollows CommandsHitShownEntry MessagesIntact OneHandlerPerPress ListMatchesSelection
PROPERTIES IdlePlayerStarts
\* A behaviour stops when the bounds are used up: the lost websocket is not replaced,
\* the user does nothing more.
CHECK_DEADLOCK FALSE
