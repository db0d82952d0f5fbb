SPECIFICATION Spec
CONSTANTS
    Actors = {a, b}
    Choices = {x, y}
    NoChoice = NoChoice
    Pages = 2
    MaxAttempts = 2
    MaxLost = 1
SYMMETRY NameSymmetry
INVARIANTS
    NoStartInDoubt
    ConfirmedAnswerHolds
    CursorNeverAhead
    SubmittedIsVerified
    NeverAnOlderAttempt
PROPERTIES
    ImplementsLedger
