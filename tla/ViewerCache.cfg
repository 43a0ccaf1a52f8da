SPECIFICATION Spec
CONSTANTS
    a = a  b = b
    m1 = m1  m2 = m2
    None = None
    Conv = {a, b}
    Message = {m1, m2}
    Reader = {r1, r2}
    Writer = {w1, w2}
    Snapshot <- SmallSnapshots
SYMMETRY Processes
CONSTRAINT Untorn
INVARIANTS
    NeverLost
    ArchiveInPlace
    CacheIsOneArchive
