CONSTANTS
    Temps = {0, 1, 2}
    Hums = {0, 1, 2}
    Limits <- MCLimits
    Speeds = {50, 100}
    Drop <- MCDrop
    Period = 1
SPECIFICATION Spec
INVARIANTS UpdateTellsChanges
