\* Three threads, three pushes, three addresses.
SPECIFICATION Spec
CONSTANTS
  t1 = t1
  t2 = t2
  t3 = t3
  d1 = d1
  d2 = d2
  d3 = d3
  a1 = a1
  a2 = a2
  a3 = a3
  Thread <- ThreeThreads
  Data <- ThreeItems
  Addr <- ThreeAddrs
  Null = Null
  Garbage = Garbage
  Tags = 7
SYMMETRY Symmetry
INVARIANTS NodesAccountedFor
PROPERTIES ImplementsLifo
