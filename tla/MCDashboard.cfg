\* Two applications, one click that changes something, one change by others.
CONSTANTS
    App <- MCApp
    InitRows <- MCInitRows
    MaxCalls = 2
    MaxClicks = 1
    MaxChanges = 1
SPECIFICATION Spec
INVARIANTS TypeOK IdleIsNotLoading
PROPERTIES DetailSettles
