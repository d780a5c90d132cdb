CONSTANTS
    NUL = NUL
    CR = CR
    NL = NL
    y = y
    z = z
    dollar = dollar
    Chars = {NUL, CR, NL, y, z, dollar}
    Prompt <- MCPrompt
    Cmd <- MCCmd
    MAXLEN = 4
    INPUT_BUF_SIZE = 8
    USER_END_VA = 32
    BufAddrs = {20, 24}
    FifoSize = 1
SPECIFICATION Spec
CHECK_DEADLOCK FALSE
INVARIANT InBounds
INVARIANT EchoExact
INVARIANT YieldOnlyWhenTyped
