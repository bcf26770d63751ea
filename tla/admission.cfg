SPECIFICATION Spec
CONSTANTS
    None = None
    Addresses = {a1, a2}
    MaxAttempts = 2
    Window = 2
    Expected = secret
    Tokens = {secret, guess, None}
    MaxNow = 5
INVARIANTS
    WindowBound
    RefusedForCause
