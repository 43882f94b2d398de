SPECIFICATION Spec
CONSTANTS
    b1 = b1
    b2 = b2
    b3 = b3
    s1 = s1
    s2 = s2
    Nobody = Nobody
    Former = Former
    Bot = {b1, b2, b3}
    Script = {s1, s2}
    Overlap = TRUE
    MaxKills = 1
INVARIANT OneBot
CHECK_DEADLOCK FALSE
