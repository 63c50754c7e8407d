SPECIFICATION FairSpec
CONSTANTS
    s1 = s1
    s2 = s2
    Senders = {s1, s2}
    Plans <- MCPlans
    MaxHeard = 1
INVARIANTS ReturnedOnce GivesUpLate
PROPERTIES DeafOnlyByRace
CHECK_DEADLOCK FALSE
