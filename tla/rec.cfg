CONSTANTS
    r1 = r1
    r2 = r2
    r3 = r3
    a1 = a1
    a2 = a2
    Recs = {r1, r2, r3}
    Rich = {r1}
    Apps = {a1, a2}
    Uses <- TogetherOrApart
    MaxThreads = 2
    Nobody = Nobody
SPECIFICATION Spec
INVARIANTS DeviceHeld RecordingNotCut FlagAndThreadAgree EndTold OutlivesOnlyByAFlag
CHECK_DEADLOCK FALSE
