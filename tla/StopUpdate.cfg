CONSTANTS
    Top = 3
    Transient = FALSE
    Lossy = TRUE
    Ratchet = FALSE
SPECIFICATION Spec
INVARIANTS ExecutedIsTrue BeliefIsBacked 
