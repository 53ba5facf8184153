\* The web frontend: members and an officer at one browser.
SPECIFICATION Spec
CONSTANTS
    None = None
    Casts <- MCCasts
    MaxRows = 2
    MaxPasswords = 2
    MaxEdits = 2
INVARIANTS
    ShownIsStored
    ToolAgreesWithEngine
    UnverifiedOnlyHolds
PROPERTIES
    OnlyLateAnswersMix
    ButtonsRelease
    BetterNeverWorsens
