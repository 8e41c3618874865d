SPECIFICATION MCSpec
CONSTANTS
    None = None
    Absent = Absent
    FirstId <- OwnIds
    NumStages = 3
    Names <- AB
INVARIANTS
    IdsTell
    StageJudged
    StagesAgree
    ChosenApart
    ReflectsUses
    MembersApart
    PreciseExactly
CHECK_DEADLOCK FALSE
