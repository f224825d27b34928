CONSTANTS
    Cmd = Cmd
    NoCmd = NoCmd
    Log <- MCLog
    Allocators = {a1, a2}
    MaxAllocations = 2

SPECIFICATION Spec

INVARIANT UniqueSegmentIDs
PROPERTY IndexNeverRegresses
PROPERTY AllocationsReturn
PROPERTY AtomicRefinement

\* The bounded log and allocation budget run out: the store then sits idle,
\* as the real one does between raft entries and handler calls.
CHECK_DEADLOCK FALSE
