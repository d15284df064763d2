SPECIFICATION Spec
CONSTANTS
    p1 = p1
    p2 = p2
    p3 = p3
    Passwords <- MCPasswords
    Initial = p1
    MaxGeneration = 5
    Outcomes = {"ok", "lost", "late", "torn"}
INVARIANTS
    SlotAlwaysValid
    PasswordInForce
