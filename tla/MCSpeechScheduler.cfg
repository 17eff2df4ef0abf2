CONSTANTS
    r1 = r1  r1b = r1b  n2 = n2  a1 = a1
    Items = {r1, r1b, n2, a1}
    KeyOf <- ItemKey
    RoleOf <- ItemRole
    None = None
    MaxUtterances = 3
SPECIFICATION SpeechSpec
SYMMETRY Symmetry
CHECK_DEADLOCK FALSE
INVARIANTS RecordsAgree SpeechOnce AcksAccountedFor DiscardedForGood OwnAudioOnly OneTerminal
