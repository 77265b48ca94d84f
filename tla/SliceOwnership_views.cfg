SPECIFICATION Spec
CONSTANTS
  a1 = a1
  a2 = a2
  k1 = k1
  q1 = q1
  Agents = {a1, a2}
  Snapshots = {k1}
  Lent = {q1}
  MaxCap = 2
SYMMETRY Symmetry
VIEW Reachable
INVARIANTS
  ViewsArePrivate
