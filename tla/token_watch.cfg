SPECIFICATION FairSpec
CONSTANTS
  r1 = r1
  r2 = r2
  c1 = c1
  u1 = u1
  Reader = {r1, r2}
  Card = {c1, u1}
  Unnumbered = {u1}
  Empty = Empty
  Debounce = 2
  MaxSwaps = 4
INVARIANT ShownTogetherWereSeenTogether
INVARIANT QueuedEventHasSource
PROPERTY ViewSettles
CHECK_DEADLOCK FALSE
