SPECIFICATION Spec
CONSTANTS
  main = main
  filtro = filtro
  muxer = muxer
  e1 = e1
  e2 = e2
  Threads = {main, filtro, muxer}
  Entries = {e1, e2}
  MaxRefs = 2
INVARIANTS
  MemorySafe
PROPERTIES
  NoLeak
