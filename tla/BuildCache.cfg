SPECIFICATION Spec
CONSTANTS
  NoContent = NoContent
  c1 = c1
  c2 = c2
  p1 = p1
  p2 = p2
  p3 = p3
  Outputs = {o1, o2}
  Contents = {x, y}
  Caches = {c1, c2}
  Callers = {p1, p2, p3}
  cache_of <- MCCacheOf
  version_of <- MCVersionOf
  MaxUnsynced = 1
SYMMETRY Symmetry
INVARIANTS
  ContentInPlace
  ServedWhole
  NoGarbage
