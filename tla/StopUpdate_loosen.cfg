CONSTANTS
    Top = 3
    Transient = TRUE
    Lossy = TRUE
    Ratchet = TRUE
SPECIFICATION Spec
PROPERTIES NeverLoosen
