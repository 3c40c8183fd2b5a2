\* One failing write, one change of the file from outside, a log of two responses.
SPECIFICATION Spec
CONSTANTS
    None = None
    Rests = {"plain"}
    DefaultRest = "plain"
    DaysAsked = {5, 9}
    ThresholdsAsked <- MCThresholdsAsked
    ForeignFiles <- MCForeignFiles
    MaxLogBytes = 1
    EntrySizes = {1}
    MaxFailures = 1
    MaxEdits = 1
INVARIANTS
    ConsentIsTheUsers
    CopiesAgree
    WizardOffersOnce
    DebugLogIsBounded
