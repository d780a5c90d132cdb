---------------------------- MODULE ConsoleProofs ----------------------------
(***************************************************************************)
(* Proofs about Console, for all lines, buffer sizes, prompts and commands *)
(* that satisfy ConsoleAssumption.                                         *)
(***************************************************************************)
EXTENDS Console, SequenceTheorems, TLAPS

(* The inductive invariant, in parts. *)

ShapeOK ==
    /\ fifo \in Seq(Chars) /\ kbuf \in Seq(Chars) /\ typed \in Seq(Chars)
    /\ buf \in Seq(Chars) /\ Len(buf) = INPUT_BUF_SIZE
    /\ n \in Int /\ n < MAXLEN
    /\ at \in BufAddrs
    /\ pc \in {"prompt", "gets", "sleep", "compare", "echo", "lost"}
    /\ pc = "gets" => maxlen = MAXLEN

\* The shell never writes over its prompt.
PromptOK == \A k \in 1 .. Len(Prompt) : buf[k] = Prompt[k]

\* sys_read's buffer holds what was typed, and its NUL still fits.
KbufOK ==
    /\ Len(kbuf) = Len(typed) /\ Len(kbuf) < MAXLEN
    /\ \A k \in 1 .. Len(typed) : kbuf[k] = ToNewline(typed[k])

\* Between read and the answer the shell has the line behind its prompt.  A line
\* that is not full ends in a newline.
LineOK ==
    pc \in {"sleep", "compare", "echo", "lost"} =>
        /\ n = Len(kbuf) /\ n > 0
        /\ \A k \in 1 .. n : buf[Len(Prompt) + k] = kbuf[k]
        /\ n = MAXLEN - 1 \/ kbuf[n] = NL

\* The inductive invariant: what every step of read, the shell and write
\* preserves.
IInv == ShapeOK /\ PromptOK /\ KbufOK /\ LineOK /\ YieldOnlyWhenTyped /\ EchoExact

------------------------------------------------------------------------------
(* The constants, and what the model's operators return.                   *)

\* The sizes of the prompt, the command and the buffers.
LEMMA Sizes ==
    /\ Len(Prompt) \in Nat /\ Len(Prompt) > 0
    /\ Len(Cmd) \in Nat /\ Len(Cmd) > 0 /\ Len(Cmd) < MAXLEN
    /\ MAXLEN \in Nat /\ INPUT_BUF_SIZE \in Nat
    /\ Len(Prompt) + MAXLEN <= INPUT_BUF_SIZE
    /\ Prompt \in Seq(Chars) /\ Cmd \in Seq(Chars)
    /\ NUL \in Chars /\ CR \in Chars /\ NL \in Chars
<1>1. Prompt \in Seq(Chars \ {NUL, CR, NL}) /\ Prompt # <<>>
  BY ConsoleAssumption
<1>2. Len(Prompt) \in Nat /\ Len(Prompt) > 0 /\ Prompt \in Seq(Chars)
  BY <1>1
<1>3. Cmd \in Seq(Chars \ {NUL, CR, NL}) /\ Cmd # <<>>
  BY ConsoleAssumption
<1>4. Len(Cmd) \in Nat /\ Len(Cmd) > 0 /\ Cmd \in Seq(Chars)
  BY <1>3
<1> QED
  BY <1>2, <1>4, ConsoleAssumption

\* The command has no NUL, no carriage return and no newline in it.
LEMMA CmdChars == \A k \in 1 .. Len(Cmd) : Cmd[k] # NUL /\ Cmd[k] # NL
<1>1. Cmd \in Seq(Chars \ {NUL, CR, NL})
  BY ConsoleAssumption
<1> QED
  BY <1>1

\* The shell's read asks for more than MAXLEN characters, sys_read cuts that.
LEMMA ClampRead == Clamp(INPUT_BUF_SIZE - 1) = MAXLEN
  BY Sizes DEF Clamp

\* copy_to_user accepts the line, copy_from_user the answer, wherever buf is.
LEMMA UserRange ==
    ASSUME at \in BufAddrs, NEW off \in Nat, NEW len \in Nat,
           len > 0, off + len < INPUT_BUF_SIZE
    PROVE  is_user_addr(at + off, len)
  BY ConsoleAssumption DEF is_user_addr

\* The line is a sequence of characters.
LEMMA LineIsSeq ==
    ASSUME typed \in Seq(Chars)
    PROVE  /\ Line \in Seq(Chars) /\ Len(Line) = Len(typed)
           /\ \A k \in 1 .. Len(typed) : Line[k] = ToNewline(typed[k])
<1>1. Len(typed) \in Nat /\ \A k \in 1 .. Len(typed) : typed[k] \in Chars
  BY LenProperties
<1>2. \A k \in 1 .. Len(typed) : (IF typed[k] = CR THEN NL ELSE typed[k]) \in Chars
  BY <1>1, Sizes
<1>3. Line \in [1 .. Len(typed) -> Chars]
  BY <1>2 DEF Line
<1>4. Line \in Seq(Chars)
  BY <1>1, <1>3, SeqDef
<1>5. Len(Line) = Len(typed)
  BY <1>1, <1>3, <1>4, LenProperties
<1> QED
  BY <1>1, <1>4, <1>5 DEF Line, ToNewline

------------------------------------------------------------------------------
(* The steps.                                                              *)

\* The invariant holds when the shell starts.
LEMMA InitIInv == Init => IInv
<1> SUFFICES ASSUME Init
             PROVE  IInv
  OBVIOUS
<1> DEFINE rest == [k \in 1 .. INPUT_BUF_SIZE - Len(Prompt) |-> NUL]
<1>1. rest \in Seq(Chars) /\ Len(rest) = INPUT_BUF_SIZE - Len(Prompt)
  <2>1. INPUT_BUF_SIZE - Len(Prompt) \in Nat
    BY Sizes
  <2>2. rest \in [1 .. INPUT_BUF_SIZE - Len(Prompt) -> Chars]
    BY Sizes
  <2>3. rest \in Seq(Chars)
    BY <2>1, <2>2, SeqDef
  <2> HIDE DEF rest
  <2> QED
    BY <2>1, <2>2, <2>3, LenProperties
<1>2. buf = Prompt \o rest
  BY DEF Init
<1> HIDE DEF rest
<1>3. buf \in Seq(Chars) /\ Len(buf) = INPUT_BUF_SIZE /\ PromptOK
  BY <1>1, <1>2, Sizes, ConcatProperties DEF PromptOK
<1>4. ShapeOK
  BY <1>3, Sizes DEF Init, ShapeOK
<1>5. KbufOK
  BY Sizes DEF Init, KbufOK
<1> QED
  BY <1>3, <1>4, <1>5 DEF Init, IInv, LineOK, YieldOnlyWhenTyped, EchoExact

\* What depends on what was typed, the place and the screen alone.
LEMMA SameAnswer ==
    ASSUME YieldOnlyWhenTyped, EchoExact, UNCHANGED <<typed, screen, pc>>
    PROVE  YieldOnlyWhenTyped' /\ EchoExact'
<1>1. Line' = Line
  BY DEF Line
<1>2. CmdTyped' = CmdTyped
  BY <1>1 DEF CmdTyped
<1>3. YieldOnlyWhenTyped'
  BY <1>2 DEF YieldOnlyWhenTyped
<1>4. EchoExact'
  BY <1>1 DEF EchoExact, Printed
<1> QED
  BY <1>3, <1>4

\* Nothing changes.
LEMMA StutterIInv == IInv /\ UNCHANGED vars => IInv'
<1> SUFFICES ASSUME IInv, UNCHANGED vars
             PROVE  IInv'
  OBVIOUS
<1>1. YieldOnlyWhenTyped' /\ EchoExact'
  BY SameAnswer DEF IInv, vars
<1>2. (ShapeOK /\ PromptOK /\ KbufOK /\ LineOK)'
  BY DEF IInv, vars, ShapeOK, PromptOK, KbufOK, LineOK
<1> QED
  BY <1>1, <1>2 DEF IInv

\* A character is typed.
LEMMA TypeIInv ==
    ASSUME IInv, NEW c \in Chars, Type(c)
    PROVE  IInv'
<1>1. YieldOnlyWhenTyped' /\ EchoExact'
  BY SameAnswer DEF IInv, Type
<1>2. fifo' \in Seq(Chars)
  BY AppendProperties DEF IInv, ShapeOK, Type
<1>3. (ShapeOK /\ PromptOK /\ KbufOK /\ LineOK)'
  BY <1>2 DEF IInv, Type, ShapeOK, PromptOK, KbufOK, LineOK
<1> QED
  BY <1>1, <1>3 DEF IInv

\* The shell prints its prompt and calls sys_read.
LEMMA PromptAndReadIInv == IInv /\ PromptAndRead => IInv'
<1> SUFFICES ASSUME IInv, PromptAndRead
             PROVE  IInv'
  OBVIOUS
<1>1. ShapeOK'
  BY ClampRead, EmptySeq DEF IInv, PromptAndRead, ShapeOK
<1>2. KbufOK'
  BY Sizes DEF PromptAndRead, KbufOK
<1> QED
  BY <1>1, <1>2 DEF IInv, PromptAndRead, PromptOK, LineOK, YieldOnlyWhenTyped, EchoExact

\* sys_read takes a character.
LEMMA GetCharIInv == IInv /\ GetChar => IInv'
<1> SUFFICES ASSUME IInv, GetChar
             PROVE  IInv'
  OBVIOUS
<1>1. Head(fifo) \in Chars /\ Tail(fifo) \in Seq(Chars)
  BY HeadTailProperties DEF IInv, ShapeOK, GetChar
<1>2. ToNewline(Head(fifo)) \in Chars
  BY <1>1, Sizes DEF ToNewline
<1>3. /\ typed' \in Seq(Chars) /\ Len(typed') = Len(typed) + 1
      /\ \A k \in 1 .. Len(typed) : typed'[k] = typed[k]
      /\ typed'[Len(typed) + 1] = Head(fifo)
  BY <1>1, AppendProperties DEF IInv, ShapeOK, GetChar
<1>4. /\ kbuf' \in Seq(Chars) /\ Len(kbuf') = Len(kbuf) + 1
      /\ \A k \in 1 .. Len(kbuf) : kbuf'[k] = kbuf[k]
      /\ kbuf'[Len(kbuf) + 1] = ToNewline(Head(fifo))
  BY <1>2, AppendProperties DEF IInv, ShapeOK, GetChar
<1>5. ShapeOK'
  BY <1>1, <1>3, <1>4 DEF IInv, ShapeOK, GetChar
<1>6. KbufOK'
  <2>1. Len(kbuf) \in Nat /\ Len(typed) = Len(kbuf) /\ Len(kbuf) < MAXLEN - 1
    BY LenProperties DEF IInv, ShapeOK, KbufOK, GetChar
  <2>2. \A k \in 1 .. Len(typed) + 1 : kbuf'[k] = ToNewline(typed'[k])
    BY <1>3, <1>4, <2>1 DEF IInv, KbufOK
  <2> QED
    BY <1>3, <1>4, <2>1, <2>2, Sizes DEF KbufOK
<1> QED
  BY <1>5, <1>6 DEF IInv, GetChar, PromptOK, LineOK, YieldOnlyWhenTyped, EchoExact

\* sys_read returns.
LEMMA ReadReturnsIInv == IInv /\ ReadReturns => IInv'
<1> SUFFICES ASSUME IInv, ReadReturns
             PROVE  IInv'
  OBVIOUS
<1> DEFINE len == Len(kbuf)
<1>1. /\ kbuf \in Seq(Chars) /\ len \in Nat /\ len < MAXLEN /\ len > 0
      /\ len = MAXLEN - 1 \/ kbuf[len] = NL
  BY Sizes, LenProperties DEF IInv, ShapeOK, KbufOK, ReadReturns, LineEnds
<1>2. is_user_addr(at + Len(Prompt), len)
  BY <1>1, Sizes, UserRange DEF IInv, ShapeOK
<1>3. SubSeq(kbuf, 1, len) = kbuf
  BY <1>1, SubSeqFull
<1>4. buf' = CopiedToUser(kbuf) /\ n' = len /\ pc' = "sleep"
  BY <1>2, <1>3 DEF ReadReturns, CopyLen
<1>5. /\ buf' \in [1 .. INPUT_BUF_SIZE -> Chars]
      /\ \A k \in 1 .. Len(Prompt) : buf'[k] = buf[k]
      /\ \A k \in 1 .. len : buf'[Len(Prompt) + k] = kbuf[k]
  <2>1. buf \in [1 .. INPUT_BUF_SIZE -> Chars] /\ kbuf \in [1 .. len -> Chars]
    BY LenProperties DEF IInv, ShapeOK
  <2> QED
    BY <1>1, <1>4, <2>1, Sizes DEF CopiedToUser
<1>6. buf' \in Seq(Chars) /\ Len(buf') = INPUT_BUF_SIZE
  <2>1. buf' \in Seq(Chars)
    BY <1>5, Sizes, SeqDef
  <2> QED
    BY <1>5, <2>1, Sizes, LenProperties
<1>7. ShapeOK'
  BY <1>1, <1>4, <1>6 DEF IInv, ShapeOK, ReadReturns
<1>8. PromptOK' /\ KbufOK' /\ LineOK'
  BY <1>1, <1>4, <1>5 DEF IInv, PromptOK, KbufOK, LineOK, ReadReturns
<1> QED
  BY <1>4, <1>7, <1>8 DEF IInv, YieldOnlyWhenTyped, EchoExact

\* The sleep behind the read.
LEMMA SleepIInv == IInv /\ Sleep => IInv'
  BY DEF IInv, Sleep, ShapeOK, PromptOK, KbufOK, LineOK, YieldOnlyWhenTyped, EchoExact

\* What streq sees: behind the prompt is the line typed, and a line that is
\* shorter than the command ends in a newline, which the command does not have.
LEMMA CompareIsExact ==
    ASSUME IInv, pc = "compare"
    PROVE  streq(SubSeq(buf, Len(Prompt) + 1, INPUT_BUF_SIZE), Cmd) <=> CmdTyped
<1> DEFINE seen == SubSeq(buf, Len(Prompt) + 1, INPUT_BUF_SIZE)
           LP == Len(Prompt)
           LC == Len(Cmd)
<1>1. /\ n \in Nat /\ n > 0 /\ n < MAXLEN /\ n = Len(typed)
      /\ n = MAXLEN - 1 \/ kbuf[n] = NL
      /\ \A k \in 1 .. n : buf[LP + k] = kbuf[k] /\ kbuf[k] = ToNewline(typed[k])
  BY DEF IInv, ShapeOK, KbufOK, LineOK
<1>2. /\ Line \in Seq(Chars) /\ Len(Line) = n
      /\ \A k \in 1 .. n : Line[k] = kbuf[k]
  BY <1>1, LineIsSeq DEF IInv, ShapeOK
<1>3. \A k \in 1 .. INPUT_BUF_SIZE - LP : seen[k] = buf[LP + k]
  <2>1. \A i \in LP + 1 .. INPUT_BUF_SIZE : buf[i] \in Chars
    BY Sizes, ElementOfSeq DEF IInv, ShapeOK
  <2>2. \A i \in 1 .. INPUT_BUF_SIZE - (LP + 1) + 1 : seen[i] = buf[LP + 1 + i - 1]
    BY <2>1, Sizes, SubSeqProperties
  <2> HIDE DEF seen
  <2> QED
    BY <2>2, Sizes
<1>4. \A k \in 1 .. LC : seen[k] = buf[LP + k]
  BY <1>3, Sizes
<1> HIDE DEF seen
<1>5. ASSUME streq(seen, Cmd)
      PROVE  CmdTyped
  <2>1. \A k \in 1 .. LC : seen[k] = Cmd[k]
    BY <1>5 DEF streq
  <2>2. LC <= n
    <3> SUFFICES ASSUME n < LC
                 PROVE  FALSE
      BY <1>1, Sizes
    <3>1. kbuf[n] = NL /\ n \in 1 .. LC
      BY <1>1, Sizes
    <3>2. Cmd[n] = NL
      BY <1>1, <1>4, <2>1, <3>1
    <3> QED
      BY <3>1, <3>2, CmdChars
  <2>3. \A i \in 1 .. LC : Line[i] = Cmd[i]
    BY <1>1, <1>2, <1>4, <2>1, <2>2, Sizes
  <2>4. /\ SubSeq(Line, 1, LC) \in Seq(Chars)
        /\ Len(SubSeq(Line, 1, LC)) = LC
        /\ \A i \in 1 .. LC : SubSeq(Line, 1, LC)[i] = Line[i]
    <3>1. \A i \in 1 .. LC : Line[i] \in Chars
      BY <2>3, Sizes, ElementOfSeq
    <3> QED
      BY <3>1, Sizes, SubSeqProperties
  <2>5. SubSeq(Line, 1, LC) = Cmd
    BY <2>3, <2>4, Sizes, SeqEqual
  <2> QED
    BY <1>2, <2>2, <2>5 DEF CmdTyped
<1>6. ASSUME CmdTyped
      PROVE  streq(seen, Cmd)
  <2>1. LC <= n /\ SubSeq(Line, 1, LC) = Cmd
    BY <1>2, <1>6 DEF CmdTyped
  <2>2. \A i \in 1 .. LC : SubSeq(Line, 1, LC)[i] = Line[i]
    <3>1. \A i \in 1 .. LC : Line[i] \in Chars
      BY <1>1, <1>2, <2>1, Sizes, ElementOfSeq
    <3> QED
      BY <3>1, Sizes, SubSeqProperties
  <2>3. \A i \in 1 .. LC : Line[i] = Cmd[i]
    BY <2>1, <2>2
  <2>4. \A i \in 1 .. LC : i \in 1 .. n
    BY <1>1, <2>1, Sizes
  <2>5. \A i \in 1 .. LC : seen[i] = Line[i]
    BY <1>1, <1>2, <1>4, <2>4
  <2>6. \A i \in 1 .. LC : seen[i] = Cmd[i]
    BY <2>3, <2>5
  <2> QED
    BY <2>6, CmdChars DEF streq
<1> QED
  BY <1>5, <1>6 DEF seen

\* streq decides whether the shell yields.
LEMMA CompareIInv == IInv /\ Compare => IInv'
<1> SUFFICES ASSUME IInv, Compare
             PROVE  IInv'
  OBVIOUS
<1>1. pc' = IF CmdTyped THEN "lost" ELSE "echo"
  BY CompareIsExact DEF Compare
<1>2. Line' = Line
  BY DEF Line, Compare
<1>3. CmdTyped' = CmdTyped
  BY <1>2 DEF CmdTyped
<1>4. YieldOnlyWhenTyped'
  BY <1>1, <1>3 DEF YieldOnlyWhenTyped
<1>5. ShapeOK' /\ PromptOK' /\ KbufOK'
  BY <1>1 DEF IInv, ShapeOK, PromptOK, KbufOK, Compare
<1>6. LineOK' /\ EchoExact'
  BY <1>1 DEF IInv, LineOK, EchoExact, Compare
<1> QED
  BY <1>4, <1>5, <1>6 DEF IInv

\* What write prints: the shell's buf begins with the prompt and the line, and
\* sys_write reads no further.
LEMMA AnswerIsExact ==
    ASSUME IInv, pc = "echo"
    PROVE  LET whole == Prompt \o Line
               m == IF Len(whole) > MAXLEN THEN MAXLEN ELSE Len(whole)
           IN  /\ Clamp(ReplyLen(n)) = m
               /\ SubSeq(buf, 1, Clamp(ReplyLen(n))) = SubSeq(whole, 1, m)
               /\ is_user_addr(at, Clamp(ReplyLen(n)))
               /\ Clamp(ReplyLen(n)) <= INPUT_BUF_SIZE
<1> DEFINE whole == Prompt \o Line
           m == IF Len(whole) > MAXLEN THEN MAXLEN ELSE Len(whole)
           LP == Len(Prompt)
<1>1. /\ n \in Nat /\ n > 0 /\ n < MAXLEN /\ n = Len(typed)
      /\ \A k \in 1 .. n : buf[LP + k] = kbuf[k] /\ kbuf[k] = ToNewline(typed[k])
  <2>1. /\ n = Len(kbuf) /\ n > 0
        /\ \A k \in 1 .. n : buf[LP + k] = kbuf[k]
    BY Zenon DEF IInv, LineOK
  <2>2. /\ Len(kbuf) = Len(typed) /\ Len(kbuf) < MAXLEN
        /\ \A k \in 1 .. Len(typed) : kbuf[k] = ToNewline(typed[k])
    BY Zenon DEF IInv, KbufOK
  <2>3. kbuf \in Seq(Chars)
    BY Zenon DEF IInv, ShapeOK
  <2>4. Len(kbuf) \in Nat
    BY <2>3, LenProperties
  <2> QED
    BY <2>1, <2>2, <2>4, Zenon
<1>2. /\ Line \in Seq(Chars) /\ Len(Line) = n
      /\ \A k \in 1 .. n : Line[k] = kbuf[k]
  BY <1>1, LineIsSeq DEF IInv, ShapeOK
<1>3. /\ whole \in Seq(Chars) /\ Len(whole) = LP + n
      /\ \A i \in 1 .. LP + n : whole[i] = IF i <= LP THEN Prompt[i] ELSE Line[i - LP]
  BY <1>2, Sizes, ConcatProperties
<1> HIDE DEF whole
<1>4. Clamp(ReplyLen(n)) = m
  BY <1>1, <1>3, Sizes DEF Clamp, ReplyLen
<1>5. m \in Nat /\ m > 0 /\ m <= LP + n /\ m < INPUT_BUF_SIZE
  BY <1>1, <1>3, Sizes
<1>6. \A i \in 1 .. LP + n : buf[i] = whole[i]
  <2> SUFFICES ASSUME NEW i \in 1 .. LP + n
               PROVE  buf[i] = whole[i]
    OBVIOUS
  <2>1. CASE i <= LP
    BY <1>3, <2>1 DEF IInv, PromptOK
  <2>2. CASE i > LP
    <3>1. i - LP \in 1 .. n
      BY <1>1, <2>2, Sizes
    <3>2. buf[LP + (i - LP)] = Line[i - LP]
      BY <1>1, <1>2, <3>1
    <3>3. LP + (i - LP) = i /\ ~(i <= LP)
      BY <2>2, Sizes
    <3> QED
      BY <1>3, <3>2, <3>3
  <2> QED
    BY <2>1, <2>2, Sizes
<1> HIDE DEF m
<1>7. SubSeq(buf, 1, m) = SubSeq(whole, 1, m)
  <2>1. \A i \in 1 .. m : whole[i] \in Chars
    BY <1>3, <1>5, <1>1, Sizes, ElementOfSeq
  <2>2. \A i \in 1 .. m : buf[i] = whole[i]
    BY <1>1, <1>5, <1>6, Sizes
  <2>3. /\ SubSeq(whole, 1, m) \in Seq(Chars) /\ Len(SubSeq(whole, 1, m)) = m
        /\ \A i \in 1 .. m : SubSeq(whole, 1, m)[i] = whole[i]
    BY <1>5, <2>1, SubSeqProperties
  <2>4. /\ SubSeq(buf, 1, m) \in Seq(Chars) /\ Len(SubSeq(buf, 1, m)) = m
        /\ \A i \in 1 .. m : SubSeq(buf, 1, m)[i] = buf[i]
    BY <1>5, <2>1, <2>2, SubSeqProperties
  <2> QED
    BY <2>2, <2>3, <2>4, SeqEqual
<1>8. is_user_addr(at, m)
  <2>1. is_user_addr(at + 0, m)
    BY <1>5, Sizes, UserRange DEF IInv, ShapeOK
  <2>2. at + 0 = at
    BY ConsoleAssumption DEF IInv, ShapeOK
  <2> QED
    BY <2>1, <2>2
<1> QED
  BY <1>4, <1>5, <1>7, <1>8, Sizes DEF whole, m

\* The reply: the prompt and the line.
LEMMA EchoIInv == IInv /\ Echo => IInv'
<1> SUFFICES ASSUME IInv, Echo
             PROVE  IInv'
  OBVIOUS
<1>1. Line' = Line
  BY DEF Line, Echo
<1>2. EchoExact'
  <2>1. screen' = Printed(SubSeq(buf, 1, Clamp(ReplyLen(n))))
    BY AnswerIsExact DEF Echo, sys_write
  <2>2. screen' = Printed(SubSeq(Prompt \o Line, 1, IF Len(Prompt \o Line) > MAXLEN THEN MAXLEN
                                                    ELSE Len(Prompt \o Line)))
    BY <2>1, AnswerIsExact DEF Echo
  <2> QED
    BY <1>1, <2>2 DEF EchoExact, Printed
<1>3. ShapeOK' /\ PromptOK' /\ KbufOK'
  BY DEF IInv, ShapeOK, PromptOK, KbufOK, Echo
<1> QED
  BY <1>2, <1>3 DEF IInv, LineOK, YieldOnlyWhenTyped, Echo

------------------------------------------------------------------------------
(* The theorems.                                                           *)

\* Every step of the console and of the shell preserves the invariant.
THEOREM Invariance == Spec => []IInv
<1>1. IInv /\ [Next]_vars => IInv'
  BY PromptAndReadIInv, GetCharIInv, ReadReturnsIInv, SleepIInv, CompareIInv, EchoIInv,
     TypeIInv, StutterIInv
     DEF Next, Shell
<1> QED
  BY <1>1, InitIInv, PTL DEF Spec

\* No buffer of uart_gets, sys_read, sys_write or the shell overruns, whatever
\* is typed, for all sizes that satisfy ConsoleAssumption.
THEOREM BuffersHold == Spec => []InBounds
<1>1. IInv => InBounds
  <2> SUFFICES ASSUME IInv
               PROVE  InBounds
    OBVIOUS
  <2>1. Len(kbuf) < MAXLEN /\ Len(Prompt) + n <= INPUT_BUF_SIZE
    BY Sizes DEF IInv, ShapeOK, KbufOK
  <2> QED
    BY <2>1, AnswerIsExact DEF InBounds
<1> QED
  BY <1>1, Invariance, PTL

\* The shell's answer is the prompt and the line just typed, and nothing of an
\* earlier line.
THEOREM AnswerIsTheLine == Spec => []EchoExact
<1>1. IInv => EchoExact
  BY DEF IInv
<1> QED
  BY <1>1, Invariance, PTL

\* The shell yields exactly when the line just typed begins with the command,
\* although streq may compare with what is behind the line in buf.
THEOREM YieldIsAsked == Spec => []YieldOnlyWhenTyped
<1>1. IInv => YieldOnlyWhenTyped
  BY DEF IInv
<1> QED
  BY <1>1, Invariance, PTL
==============================================================================
