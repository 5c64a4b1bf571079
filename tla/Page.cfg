SPECIFICATION Spec
CONSTANTS
  home = home
  list = list
  old = old
  Urls <- MCUrls
  Home = home
  Moved <- MCMoved
  CacheSize = 1
  MaxMoves = 3
  NoState = NoState
  NoRequest = NoRequest
  MaxSent = 2
  NoText = NoText
  NoButton = NoButton
  Toggles = {t1, t2}
  Navbar = {t2}
  Radios = {r1, r2}
  MaxItems = 3
  Options <- MCOptions
  Alt <- MCAlt
  Handlers = {f, g}
  Xhrs = {x1, x2}
  MaxOps = 5
  Gone = Gone
  Depth = 3
  Listeners = {fn1, fn2}
  Places <- MCPlaces
  fn1 = fn1
  fn2 = fn2
  AtLoad <- MCLoaded
  MaxEvents = 3
  NoSelector = NoSelector
  AnyFunction = AnyFunction
  NoItem = NoItem
  NoChoice = NoChoice
INVARIANTS PagesInPlace LinksComeBack WidgetsAgree CallbacksKept
PROPERTY PageSettles
CHECK_DEADLOCK FALSE
