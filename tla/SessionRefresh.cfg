SPECIFICATION Spec
CONSTANTS
    Command = {c1, c2}
    Phone = {a, b}
    None = None
    Legacy = Legacy
    Alias = Alias
    MaxPairings = 3
    MaxTokens = 3
    MaxJars = 2
SYMMETRY Symmetry
PROPERTIES
    NeverOlder
CHECK_DEADLOCK FALSE
