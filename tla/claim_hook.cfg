SPECIFICATION FairSpec
CONSTANTS
    Opener <- TwoCommands
    Migrations = 4
    Rerunnable <- Third
    Kilo = 2
    MaxBytes = 40
    DefaultBatch = 8
    DefaultAttempts = 3
    DefaultBudget = 12
    DefaultLogSize = 4
    PipeSize = 1
    MaxKids = 1
    MaxOutput = 5
    MaxChunk = 2
    Self = "work"
    BaseName <- Spellings
    Branch <- Branches
    Layout <- Layouts
    Source <- Sources
    MaxQueued = 2
    MaxTicks = 1
    GiveUpAfter = 2
PROPERTY
    HookIsBounded
CHECK_DEADLOCK FALSE
