SPECIFICATION ISpec
CONSTANTS
  k1 = k1
  k2 = k2
  k3 = k3
  k4 = k4
  c1 = c1
  NoKey = NoKey
  Bad = Bad
  Keys <- FourKeys
  Calls <- OneCall
  Overlap = FALSE
SYMMETRY KeySymmetry
INVARIANTS SecretsReadable MemoryIsDurable OpenVaultIsTimed
