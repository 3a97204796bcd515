SPECIFICATION FairSpec
CONSTANTS
  pkgA = pkgA  pkgB = pkgB  repoU = repoU  repoW = repoW
  x = x  lib = lib  folderX = folderX  folderLib = folderLib  folderXLib = folderXLib
  Root = Root
  Nothing = Nothing  NoRev = NoRev  Trunk = Trunk  Unreadable = Unreadable
  NameOrder <- Order
  Urls = {repoU, repoW}
  Folders = {folderX, folderLib, folderXLib}
  Paths = {x, lib}
  Lands <- SomeLands
  Offers <- SomeOffers
  Manifest <- Needs
  MaxCommit = 2
  MaxMoves = 3
CHECK_DEADLOCK FALSE
INVARIANTS LockIsCheckout Closed UpdateFollowsTip
PROPERTIES LockObeyed InstallSettles Ends
