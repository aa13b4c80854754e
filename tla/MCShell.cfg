SPECIFICATION Spec
CONSTANTS
    Word <- MCWord
    Inputs <- MCInputs
    Options = {"-o"}
    Missing = {"m"}
    Filters = {"b", "c"}
    Failing = {"f"}
    FirstFiles <- MCFiles
    Units = 2
    PipeSize = 1
INVARIANTS
    TypeOK
    ParsesAsMeant
    ReadsAsInSequence
    EndsAsInSequence
PROPERTY EverythingEnds
CHECK_DEADLOCK FALSE
