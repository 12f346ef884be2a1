\* A player and a page with two connections, a queue of one frame, two placements, two messages.
\* Placements, connections and messages are bounded, so that everything ends: no deadlock check.
CONSTANTS
  p1 = p1
  c1 = c1
  c2 = c2
  k1 = k1
  black = black
  white = white
  a = a
  Nothing = Nothing
  Players = {p1}
  Conns = {c1, c2}
  First = c1
  Colours = {black, white}
  TeamOf <- PageIsWhite
  Cells = {a}
  Chunks = {k1}
  ChunkOf <- OneForAll
  StartBoards <- AllWhite
  Moves <- OneCell
  Capacity = 1
  MaxCommits = 2
  MaxMessages = 2
SPECIFICATION FairSpec
INVARIANTS TypeOK StaleIsMarked SubscriptionsAgree
PROPERTIES ClicksAnswered
CHECK_DEADLOCK FALSE
