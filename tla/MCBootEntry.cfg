CONSTANTS
    h0 = h0
    h1 = h1
    h2 = h2
    shell = shell
    idle = idle
    Harts = {h0, h1, h2}
    BootHart = h0
    Shell = shell
    Idle = idle
    NoProc = NoProc
    SlowBoot = TRUE
SPECIFICATION Spec
INVARIANT ShellStartsAtEntry
