\* The queue or the polling, with runners that die and answers that are lost.
SPECIFICATION Spec
CONSTANTS
  j1 = j1
  j2 = j2
  c1 = c1
  c2 = c2
  c3 = c3
  Job = {j1, j2}
  Runner = {n1, n2}
  Limit = 2
  MaxAttempts <- OnceOrTwice
  Watched = {j2}
  MaxDeaths = 1
  Change = {c1, c2, c3}
  Past = c1
  Counting = {c3}
  Screen = {s1}
  Page = 1
  NoToken = NoToken
  MaxClock = 2
  MaxLost = 1
CHECK_DEADLOCK FALSE
INVARIANTS
  QueueSound
  ScreensSound
PROPERTIES
  EventuallySettled
  EventuallyShown
