SPECIFICATION FairSpec
CONSTANTS
  w1 = w1
  w2 = w2
  w3 = w3
  p1 = p1
  p2 = p2
  t1 = t1
  t2 = t2
  t3 = t3
  Workers = {w1}
  Posters = {p1, p2}
  Temps = {t1, t2}
  NoWorker = NoWorker
  MaxSize = 2
  MaxPosts = 1
  PressureLimit = 1
  Known <- MCKnown
PROPERTIES Delivers PoolShrinks
