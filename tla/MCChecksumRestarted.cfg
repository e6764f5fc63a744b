\* One table, three calls that are accepted.
CONSTANTS
    t1 = t1
    Tables = {t1}
    MaxStarts = 3
SPECIFICATION ChecksumSpec
INVARIANT DoneResultIsRight
