SPECIFICATION Spec
CONSTANTS
    w1 = w1
    w2 = w2
    u1 = u1
    u2 = u2
    u3 = u3
    v1 = v1
    v2 = v2
    Users = {u1, u2, u3}
    Owner = Owner
    Workers = {w1, w2}
    Sweepers = {v1}
    MaxSpeakers = 2
    ModeratorMay = {"requests", "mute", "remove", "ban"}
SYMMETRY Symmetric
INVARIANTS
    TypeOK
    SeatIsFree
    StageIsConsistent
    PendingIsServable
    MutedIsSilent
    SpeakersAreSeated
PROPERTIES
    RolesAreGiven
    ImplementsStage
CHECK_DEADLOCK FALSE
