SPECIFICATION Spec
CONSTANTS
    Width = 3
    Height = 2
    TerminalLeft = 1
    TerminalTop = 0
    TerminalWidth = 2
    TerminalHeight = 2
INVARIANTS
    DirtyCoversStale
PROPERTY NeverTears
