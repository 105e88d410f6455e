SPECIFICATION DiffSpec
CONSTANTS
    Outpoint = {o1, o2}
    Score = {1, 2, 3}
INVARIANTS Faithful NeverPanics
