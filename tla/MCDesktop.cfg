SPECIFICATION Spec
CONSTANTS
    Modulus = 14
    ScreenWidth = 7
    DockWidth = 1
    FilesX = 2
    FilesWidth = 5
    SettingsX = 3
    SettingsWidth = 5
    TerminalX = 3
    TerminalWidth = 4
    MinWidth = 3
    MaxWidth = 5
    PointerColumns = {0, 2, 4}
    Apps = {"settings", "files", "terminal"}
INVARIANTS
    FocusIsVisible
    OneGesture
    OnlyTheLauncherListens
