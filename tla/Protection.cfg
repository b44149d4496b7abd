SPECIFICATION Spec
CONSTANTS
  c1 = c1  c2 = c2
  w1 = w1  w2 = w2  w3 = w3
  None = None
  Unreadable = Unreadable
  Calls = {c1, c2}
  Watchers = {w1, w2, w3}
  MaxTokens = 2
  MaxEdits = 1
  MaxRestarts = 1
INVARIANTS OneCallPerChallenge PausedIsDown NoStrayWatcher AsSaved SettingsStay
PROPERTIES ComesUp
CHECK_DEADLOCK FALSE
