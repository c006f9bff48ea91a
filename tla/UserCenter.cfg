\* Two handlers at a time and one answer that goes wrong; addresses of up to
\* three runs.
CONSTANTS
    Caller = {h1, h2}
    Operation = {"login", "accept", "confirm", "reason", "secure", "submit", "revoke", "status", "roles", "verify"}
    Guarded = {"login"}
    MaxTrouble = 1
    Lengths = {1, 3, 6, 9, 13}
    MaxRuns = 3
    Address <- Addresses
SPECIFICATION MCSpec
INVARIANTS
    TypeOK
    ChallengeHeeded
    VerifiedFirst
    SuccessIsTrue
    SymbolSpellsAddress
    NoLargerThanPlain
PROPERTIES
    KeepsContract
    JobsEnd
