SPECIFICATION Spec
CONSTANTS
    Topics = {t1, t2, t3}
    Maxima = {2}
    SendMax = 4
    Oversized = {FALSE}
    MaxPublishes = 4
    MaxConnects = 2
SYMMETRY TopicSymmetry
INVARIANTS RightTopic AliasesKnown
PROPERTIES EvictsOldest
CHECK_DEADLOCK FALSE
