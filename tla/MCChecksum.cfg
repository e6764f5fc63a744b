\* Two tables, three calls that are accepted.
CONSTANTS
    t1 = t1
    t2 = t2
    Tables = {t1, t2}
    MaxStarts = 3
SPECIFICATION FairChecksumSpec
INVARIANTS
    ChecksumTypeOK
    CorrectIsTrue
PROPERTY StartedIsDone
