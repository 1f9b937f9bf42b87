SPECIFICATION Spec
CONSTANTS
  Keys = {k1, k2, k3}
  TTL = 2
  MaxTime = 6
INVARIANTS Inv
PROPERTIES OncePerTTL
