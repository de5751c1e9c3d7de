SPECIFICATION CodecsSpec
CONSTANTS
    Jobs <- MCJobs
    LineSize = 14
    PairSize = 7
    BlockSize = 4
    Word = 32
    ByteBase = 8
INVARIANT TextStoredWhole
\* a finished job has nothing more to do
CHECK_DEADLOCK FALSE
