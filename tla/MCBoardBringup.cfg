CONSTANTS
    ATTEMPTS = 5
SPECIFICATION Spec
INVARIANTS
    BoardTypeOK
    CleanBootWorks
    NacksAreSurvived
