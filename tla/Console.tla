------------------------------- MODULE Console -------------------------------
(***************************************************************************)
(* The console: uart_gets and uart_putsn (uart.c), sys_read and sys_write  *)
(* (syscall.c) with the copies of user_copy.h, and the shell's loop        *)
(* (shell.c), which together decide what the shell reads, obeys and        *)
(* echoes.  Characters are typed at any time.  The kernel's buffer is a    *)
(* new, uninitialized one in every call; the shell's keeps what earlier    *)
(* lines have left in it.                                                  *)
(***************************************************************************)
EXTENDS Integers, Sequences, FiniteSetsExt

CONSTANTS
    Chars,            \* the characters
    NUL, CR, NL,      \* three of them
    Prompt,           \* "$ "
    Cmd,              \* cmd_yield, without its NUL
    MAXLEN,
    INPUT_BUF_SIZE,
    USER_END_VA,
    BufAddrs,         \* where the compiler and the stack may put the shell's buf
    FifoSize          \* the characters the UART holds

ASSUME ConsoleAssumption ==
    /\ {NUL, CR, NL} \subseteq Chars
    /\ Cmd \in Seq(Chars \ {NUL, CR, NL}) /\ Cmd # <<>>
    /\ Prompt \in Seq(Chars \ {NUL, CR, NL}) /\ Prompt # <<>>
    /\ MAXLEN \in Nat /\ INPUT_BUF_SIZE \in Nat /\ USER_END_VA \in Nat
    /\ Len(Cmd) < MAXLEN /\ Len(Prompt) + MAXLEN <= INPUT_BUF_SIZE   \* 5, 64, 2 and 128
    /\ \A va \in BufAddrs : va \in Nat /\ va + INPUT_BUF_SIZE <= USER_END_VA

VARIABLES
    fifo,    \* what the UART has received
    kbuf,    \* the part of sys_read's buf that uart_gets has filled
    maxlen,  \* uart_gets' argument
    buf,     \* the shell's buf
    n,       \* what read returned
    at,      \* &buf
    screen,  \* what the last write put on the console
    typed,   \* the characters uart_getc has returned in this read (bookkeeping)
    pc       \* where the shell is

vars == <<fifo, kbuf, maxlen, buf, n, at, screen, typed, pc>>

Init ==
    /\ fifo = <<>>
    /\ kbuf = <<>>
    /\ maxlen = 0
    /\ buf = Prompt \o [k \in 1 .. INPUT_BUF_SIZE - Len(Prompt) |-> NUL]
    /\ n = 0
    /\ at \in BufAddrs
    /\ screen = <<>>
    /\ typed = <<>>
    /\ pc = "prompt"

------------------------------------------------------------------------------
(* The system calls.                                                       *)

Clamp_None(len) == len

Clamp(len) == IF len > MAXLEN THEN MAXLEN ELSE len

is_user_addr(va, len) == len # 0 /\ va < USER_END_VA /\ len < USER_END_VA - va

\* What uart_putsn prints of s: it stops in front of a NUL.
Printed(s) == SubSeq(s, 1, Min({k - 1 : k \in {j \in 1 .. Len(s) : s[j] = NUL}} \cup {Len(s)}))

\* The output of sys_write(1, va, len) when s is at va: nothing if it is refused.
sys_write(va, len, s) ==
    IF is_user_addr(va, Clamp(len)) THEN Printed(SubSeq(s, 1, Clamp(len))) ELSE <<>>

\* A character is typed; one for which there is no room is lost.
Type(c) ==
    /\ Len(fifo) < FifoSize
    /\ fifo' = Append(fifo, c)
    /\ UNCHANGED <<kbuf, maxlen, buf, n, at, screen, typed, pc>>

\* "if (c == '\r') c = '\n'"
ToNewline(c) == IF c = CR THEN NL ELSE c

LineEnds == kbuf # <<>> /\ kbuf[Len(kbuf)] = NL

\* One round of uart_gets' loop, with uart_getc's wait for a character.
GetChar ==
    /\ pc = "gets" /\ ~LineEnds /\ Len(kbuf) < maxlen - 1 /\ fifo # <<>>
    /\ fifo' = Tail(fifo)
    /\ kbuf' = Append(kbuf, ToNewline(Head(fifo)))
    /\ typed' = Append(typed, Head(fifo))
    /\ UNCHANGED <<maxlen, buf, n, at, screen, pc>>

CopyLen_LineOnly(s) == Len(SelectSeq(s, LAMBDA c : c # NL))

\* The length uart_gets returns: the newline counts, the NUL behind it does not.
CopyLen(s) == Len(s)

\* s copied to &buf[2].
CopiedToUser(s) ==
    [k \in 1 .. INPUT_BUF_SIZE |->
        IF k - Len(Prompt) \in 1 .. Len(s) THEN s[k - Len(Prompt)] ELSE buf[k]]

\* The end of uart_gets and of sys_read: copy_to_user refuses an empty line.
ReadReturns ==
    /\ pc = "gets" /\ (LineEnds \/ Len(kbuf) >= maxlen - 1)
    /\ LET read == CopyLen(kbuf) IN
        IF is_user_addr(at + Len(Prompt), read)
        THEN /\ buf' = CopiedToUser(SubSeq(kbuf, 1, read))
             /\ n' = read
             /\ pc' = "sleep"
        ELSE n' = -1 /\ pc' = "prompt" /\ UNCHANGED buf
    /\ UNCHANGED <<fifo, kbuf, maxlen, at, screen, typed>>

------------------------------------------------------------------------------
(* user_shell_main.                                                        *)

\* write(prompt, 2) and the call of read.  The length asked for is one more than
\* the room behind the prompt; uart_gets reads at most one byte less than that.
PromptAndRead ==
    /\ pc = "prompt"
    /\ screen' = Prompt
    /\ maxlen' = Clamp(INPUT_BUF_SIZE - 1)
    /\ kbuf' = <<>>
    /\ typed' = <<>>
    /\ pc' = "gets"
    /\ UNCHANGED <<fifo, buf, n, at>>

\* sleep(1000)
Sleep ==
    /\ pc = "sleep"
    /\ pc' = "compare"
    /\ UNCHANGED <<fifo, kbuf, maxlen, buf, n, at, screen, typed>>

streq(s1, s2) == \A k \in 1 .. Len(s2) : s1[k] = s2[k] /\ s1[k] # NUL

\* A shell that yields does not come back: no other process exists, see Kernel.
Compare ==
    /\ pc = "compare"
    /\ pc' = IF streq(SubSeq(buf, Len(Prompt) + 1, INPUT_BUF_SIZE), Cmd) THEN "lost" ELSE "echo"
    /\ UNCHANGED <<fifo, kbuf, maxlen, buf, n, at, screen, typed>>

ReplyLen_NoPrompt(k) == k

\* "n + 2"
ReplyLen(k) == k + Len(Prompt)

Echo ==
    /\ pc = "echo"
    /\ screen' = sys_write(at, ReplyLen(n), buf)
    /\ pc' = "prompt"
    /\ UNCHANGED <<fifo, kbuf, maxlen, buf, n, at, typed>>

------------------------------------------------------------------------------
Shell == PromptAndRead \/ GetChar \/ ReadReturns \/ Sleep \/ Compare \/ Echo

Next == Shell \/ \E c \in Chars : Type(c)

Spec == Init /\ [][Next]_vars

------------------------------------------------------------------------------
(* Correctness.                                                            *)

\* The line as typed.
Line == [k \in 1 .. Len(typed) |-> IF typed[k] = CR THEN NL ELSE typed[k]]

CmdTyped == Len(Line) >= Len(Cmd) /\ SubSeq(Line, 1, Len(Cmd)) = Cmd

\* No buffer overruns: the line and uart_gets' terminating NUL fit into sys_read's
\* buf, which its limit MAXLEN is for; the line fits into the shell's, which asks
\* for one byte more than it has room for and gets at least one less; and
\* sys_write reads no further than the shell's.
InBounds ==
    /\ Len(kbuf) < MAXLEN
    /\ Len(Prompt) + n <= INPUT_BUF_SIZE
    /\ pc = "echo" => Clamp(ReplyLen(n)) <= INPUT_BUF_SIZE

\* The shell answers every line with the prompt and the line, cut off at the
\* first NUL and at MAXLEN characters: nothing of an earlier, longer line shows,
\* and no call is refused wherever the buffer is on the stack.
EchoExact ==
    pc = "prompt" /\ typed # <<>> =>
        screen = Printed(SubSeq(Prompt \o Line, 1, IF Len(Prompt \o Line) > MAXLEN THEN MAXLEN
                                                   ELSE Len(Prompt \o Line)))

\* The shell yields exactly when the line just typed begins with the command,
\* although buf is not terminated after a read and streq may look at what
\* earlier lines have left there.
YieldOnlyWhenTyped ==
    /\ pc = "lost" => CmdTyped
    /\ pc = "echo" => ~CmdTyped
==============================================================================
