\* A browser with two tabs; the server is started anew once.
\* Time and tokens are bounded, so that everything may end: no deadlock check.
CONSTANTS
  b1 = b1
  t1 = t1
  t2 = t2
  Nothing = Nothing
  Browsers = {b1}
  Tabs = {t1, t2}
  BrowserOf <- OneBrowser
  MaxAge = 1
  Window = 1
  MaxClock = 3
  MaxTokens = 3
  MaxFaults = 1
  MaxPlays = 1
SPECIFICATION Spec
INVARIANTS TypeOK CookieHolds LiveExact
PROPERTIES KeepsSession ColourSticks
CHECK_DEADLOCK FALSE
