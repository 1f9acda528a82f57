SPECIFICATION FairSpec
CONSTANTS
  a = a
  b = b
  c = c
  h1 = h1
  h2 = h2
  k1 = k1
  k2 = k2
  k3 = k3
  Datasets = {a, b, c}
  Runs = {k1, k2, k3}
  Events <- MCEvents
  Posts = {h1, h2}
  cycleMaxDepth = 2
  crossProductCap = 3
INVARIANTS TypeOK CyclesNeedARace EdgesUnique EdgesHaveAnEvent AnswersAreTrue
PROPERTIES EventAnswered
