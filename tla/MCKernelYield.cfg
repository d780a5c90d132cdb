CONSTANTS
    h0 = h0
    h1 = h1
    shell = shell
    idle = idle
    Harts = {h0, h1}
    BootHart = h0
    Shell = shell
    Idle = idle
    Interval = 3
    MaxSleep = 5
SPECIFICATION Spec
INVARIANT NoProcessLost
