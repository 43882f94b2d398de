SPECIFICATION FairSpec
CONSTANTS
    b1 = b1
    b2 = b2
    b3 = b3
    s1 = s1
    s2 = s2
    Nobody = Nobody
    Former = Former
    Bot = {b1, b2, b3}
    Script = {s1, s2}
    Overlap = FALSE
    MaxKills = 2
INVARIANTS OneBot WorkingBotIsRecorded HealthIsEarned
PROPERTIES RestartEnds ShutdownEnds
CHECK_DEADLOCK FALSE
