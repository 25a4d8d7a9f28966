SPECIFICATION Spec
CONSTANTS
  t1 = t1  t2 = t2  i1 = i1  i2 = i2  i3 = i3  i4 = i4
  Savers = {s1, s2}
  Tokens <- MCTokens
  Inodes <- MCInodes
  None = None
  Partial = Partial
  Exclusive = TRUE
  SilentWriteErrors = FALSE
INVARIANTS TypeOK NoTorn AckedIsDurable
PROPERTY AtomicFile
