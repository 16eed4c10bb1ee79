SPECIFICATION Spec
CONSTANTS
    r1 = r1
    r2 = r2
    Requests = {r1, r2}
    Kinds = {"rewrite", "synthesize", "replay"}
    Narrator = Narrator
    Web = Web
    Promoters = {Narrator, Web}
    None = None
    MaxFaults = 1
    MaxLine = 3
    MaxBefore = 1
    MaxLines = 2
    Limits = {0, 1}
    MaxSettings = 1
    MaxKills = 1
    MaxEvents = 2
    Apart = TRUE
SYMMETRY MCSymmetry
CHECK_DEADLOCK FALSE
INVARIANTS JobsEnd HitIsPlayable ListedHasAudio
PROPERTIES NewestStays
