-------------------------------- MODULE Tty --------------------------------
(***************************************************************************)
(* The line discipline of a terminal: fs/tty.c from tty_push_char to       *)
(* tty_poll, and the ioctls that change the mode or drop the input.  The   *)
(* input arrives byte by byte, as real_tty_read_thread delivers it.  A     *)
(* flag marks the end of a line in buf; the flags of places past the end   *)
(* of buf stay what they were.  Echo and output are left out.              *)
(***************************************************************************)
EXTENDS Naturals, Sequences, FiniteSets, SequencesExt

CONSTANTS Readers,
          Size,        \* sizeof(tty->buf)
          Mins         \* values of VMIN that are tried

\* A terminal begins with a VMIN of one.
ASSUME TtyAssumption == Size \in Nat /\ Mins \subseteq Nat /\ 1 \in Mins

Chars == {"x", "cr", "nl", "erase", "kill", "eof", "intr"}
Iflags == {{"ICRNL"}, {"INLCR", "IGNCR"}}

VARIABLES buf,         \* the first bufsize bytes of tty->buf: "NUL", an end of file, or "x"
          flag,        \* tty->buf_flag, all Size of it
          canon, iflags, min,   \* the termios: ICANON, the iflags, VMIN
          mode, want,  \* what a reader does; the bytes it asked for, its VMIN
          crossed,     \* readers under whose call ICANON was changed
          overrun      \* a byte was stored past the end of buf

lineVars == <<buf, flag, canon, iflags, min, mode, want, crossed, overrun>>
input == <<buf, flag, overrun>>
termios == <<canon, iflags, min>>

Asleep(r) == mode[r] \in {"canon", "raw"}
Ends(f, n) == {i \in 1 .. n : f[i]}
Finished == LET e == Ends(flag, Len(buf)) IN
            IF e = {} THEN <<>> ELSE SubSeq(buf, 1, CHOOSE i \in e : \A j \in e : j <= i)
Edited == SubSeq(buf, Len(Finished) + 1, Len(buf))

LineInit ==
    /\ buf = <<>> /\ flag = [i \in 1 .. Size |-> FALSE] /\ overrun = FALSE
    /\ canon = TRUE /\ iflags = {"ICRNL"} /\ min = 1
    /\ mode = [r \in Readers |-> "idle"] /\ want = [r \in Readers |-> <<1, min>>]
    /\ crossed = {}

\* The byte that a typed one becomes; "none" is dropped.
InputChar(ch) ==
    LET c == CASE "INLCR" \in iflags /\ ch = "nl" -> "cr"
               [] "ICRNL" \in iflags /\ ch = "cr" -> "nl"
               [] OTHER -> ch
    IN IF "IGNCR" \in iflags /\ c = "cr" THEN "none" ELSE c

\* tty_push_char: a byte that finds the buffer full is dropped.
PushChar(ch, isEnd) ==
    IF Len(buf) >= Size THEN UNCHANGED <<buf, flag>>
    ELSE /\ buf' = Append(buf, ch)
         /\ flag' = [flag EXCEPT ![Len(buf) + 1] = isEnd]

\* A slip: erasing does not stop at the end of a line.
ErasedPast(count) == IF Len(buf) < count THEN 0 ELSE Len(buf) - count

\* The length that erasing up to count bytes leaves: not past a flag.
ErasedTo(count) ==
    LET e == Ends(flag, Len(buf))
        kept == IF e = {} THEN 0 ELSE CHOOSE i \in e : \A j \in e : j <= i
    IN IF Len(buf) < count + kept THEN kept ELSE Len(buf) - count

\* tty_wake notifies every reader that waits.
WakeReaders ==
    mode' = [r \in Readers |-> CASE mode[r] = "canon" -> "canonUp"
                                 [] mode[r] = "raw" -> "rawUp"
                                 [] OTHER -> mode[r]]

\* A slip: an end of file wakes nobody.
CanonInputQuietEof(ch) ==
    LET c == InputChar(ch) IN
    /\ canon
    /\ CASE c \in {"none", "erase", "kill"} -> UNCHANGED <<buf, flag, mode>>
         [] c = "eof" -> PushChar("NUL", TRUE) /\ UNCHANGED mode
         [] c = "nl" -> PushChar("x", TRUE) /\ WakeReaders
         [] OTHER -> PushChar("x", FALSE) /\ UNCHANGED mode
    /\ UNCHANGED overrun

CanonInput(ch) ==
    LET c == InputChar(ch) IN
    /\ canon
    /\ CASE c = "none" -> UNCHANGED <<buf, flag, mode>>
         [] c \in {"erase", "kill"} ->
              /\ buf' = SubSeq(buf, 1, ErasedTo(IF c = "erase" /\ buf # <<>> THEN 1 ELSE Len(buf)))
              /\ UNCHANGED <<flag, mode>>
         [] c = "eof" -> PushChar("NUL", TRUE) /\ WakeReaders
         [] c = "nl" -> PushChar("x", TRUE) /\ WakeReaders
         [] OTHER -> PushChar("x", FALSE) /\ UNCHANGED mode
    /\ UNCHANGED overrun

\* A slip: a byte is stored however full the buffer is.
RawInputUnchecked ==
    /\ ~canon
    /\ overrun' = (Len(buf) >= Size - 1)
    /\ buf' = IF overrun' THEN buf ELSE Append(buf, "x")
    /\ UNCHANGED flag
    /\ WakeReaders

\* size_t arithmetic: with the buffer full, Size - 1 - bufsize is not negative
\* but huge, and the byte goes past the end.
RawInput ==
    /\ ~canon
    /\ IF Len(buf) = Size - 1 THEN UNCHANGED <<buf, overrun>>
       ELSE IF Len(buf) = Size THEN overrun' = TRUE /\ UNCHANGED buf
       ELSE buf' = Append(buf, "x") /\ UNCHANGED overrun
    /\ UNCHANGED flag
    /\ WakeReaders

\* tty_input of one byte; with ISIG the interrupt character becomes a signal to
\* fg_group and is no input: the empty rest of the chunk still wakes raw readers.
Type(ch) ==
    /\ ~overrun
    /\ IF ch = "intr" THEN UNCHANGED input /\ IF canon THEN UNCHANGED mode ELSE WakeReaders
       ELSE CanonInput(ch) \/ RawInput
    /\ UNCHANGED <<termios, want, crossed>>

\* tty_read_into_buf, then the removal of an end of file that comes next.
Take(n) ==
    LET rest == SubSeq(buf, n + 1, Len(buf))
        down == [i \in 1 .. Size |-> IF i <= Len(rest) THEN flag[i + n] ELSE flag[i]]
        eofNext == rest # <<>> /\ Head(rest) = "NUL" /\ down[1]
    IN /\ buf' = IF eofNext THEN Tail(rest) ELSE rest
       /\ flag' = IF eofNext
                  THEN [i \in 1 .. Size |-> IF i < Len(rest) THEN down[i + 1] ELSE down[i]]
                  ELSE down

Smaller(a, b) == IF a < b THEN a ELSE b

\* A slip: the read is not cut at the end of the line.
ReadCanonPast(r, n) ==
    IF Ends(flag, Len(buf)) # {}
    THEN /\ Take(Smaller(n, Len(buf)))
         /\ mode' = [mode EXCEPT ![r] = "idle"]
    ELSE mode' = [mode EXCEPT ![r] = "canon"] /\ UNCHANGED <<buf, flag>>

\* The loop of a canonical read: the first line, without its end of file.
ReadCanon(r, n) ==
    LET e == Ends(flag, Len(buf))
        size == CHOOSE i \in e : \A j \in e : i <= j
        line == IF buf[size] = "NUL" THEN size - 1 ELSE size
    IN IF e # {}
       THEN /\ Take(Smaller(n, line))
            /\ mode' = [mode EXCEPT ![r] = "idle"]
       ELSE mode' = [mode EXCEPT ![r] = "canon"] /\ UNCHANGED <<buf, flag>>

ReadRaw(r, n, least) ==
    IF Len(buf) >= least
    THEN Take(Smaller(n, Len(buf))) /\ mode' = [mode EXCEPT ![r] = "idle"]
    ELSE mode' = [mode EXCEPT ![r] = "raw"] /\ UNCHANGED <<buf, flag>>

\* tty_read, which looks at ICANON and VMIN once.
Read(r, n) ==
    /\ mode[r] = "idle" /\ ~overrun
    /\ IF canon THEN ReadCanon(r, n) ELSE ReadRaw(r, n, min)
    /\ want' = [want EXCEPT ![r] = IF mode'[r] = "idle" THEN @ ELSE <<n, min>>]
    /\ UNCHANGED <<termios, crossed, overrun>>

Wakes(r) ==
    /\ ~overrun
    /\ \/ mode[r] = "canonUp" /\ ReadCanon(r, want[r][1])
       \/ mode[r] = "rawUp" /\ ReadRaw(r, want[r][1], want[r][2])
    /\ crossed' = IF mode'[r] = "idle" THEN crossed \ {r} ELSE crossed
    /\ UNCHANGED <<termios, want, overrun>>

\* wait_for is interrupted: EINTR.
Interrupted(r) ==
    /\ Asleep(r) /\ mode' = [mode EXCEPT ![r] = "idle"]
    /\ crossed' = crossed \ {r}
    /\ UNCHANGED <<input, termios, want>>

\* TCSETS and TCSETSW; with flush, TCSETSF.
SetTermios(c, f, m, flush) ==
    /\ ~overrun
    /\ canon' = c /\ iflags' = f /\ min' = m
    /\ buf' = IF flush THEN <<>> ELSE buf
    /\ crossed' = IF c = canon THEN crossed ELSE {r \in Readers : mode[r] # "idle"}
    /\ UNCHANGED <<flag, mode, want, overrun>>

\* TCFLSH of the input.
Flush ==
    /\ ~overrun /\ buf' = <<>>
    /\ UNCHANGED <<flag, termios, mode, want, crossed, overrun>>

\* What the store past the end of buf spoils is not followed.
AfterOverrun == overrun /\ UNCHANGED lineVars

LineNext ==
    \/ \E ch \in Chars : Type(ch)
    \/ \E r \in Readers : (\E n \in 1 .. 2 : Read(r, n)) \/ Wakes(r) \/ Interrupted(r)
    \/ \E c, flush \in BOOLEAN, f \in Iflags, m \in Mins : SetTermios(c, f, m, flush)
    \/ Flush \/ AfterOverrun

LineSpec == LineInit /\ [][LineNext]_lineVars

\* A slip: any byte makes the terminal readable, in ICANON too.
PollAnything == buf # <<>>

\* tty_poll: POLL_READ.  VMIN is not looked at.
PollRead == IF canon THEN Ends(flag, Len(buf)) # {} ELSE buf # <<>>
-----------------------------------------------------------------------------
LineTypeOK ==
    /\ buf \in Seq({"x", "NUL"}) /\ Len(buf) <= Size /\ flag \in [1 .. Size -> BOOLEAN]
    /\ {canon, overrun} \subseteq BOOLEAN /\ iflags \in Iflags /\ min \in Mins
    /\ mode \in [Readers -> {"idle", "canon", "raw", "canonUp", "rawUp"}]
    /\ want \in [Readers -> (1 .. 2) \X Mins] /\ crossed \subseteq Readers

\* A reader of lines never sleeps on a buffer that holds the end of one, and,
\* unless the mode was changed under it, a reader of bytes never on as many as
\* it waits for (fs/tty.c:273-276, 289-292; only ends of lines wake in ICANON).
NoSleepOnInput ==
    \A r \in Readers :
        /\ mode[r] = "canon" => Ends(flag, Len(buf)) = {}
        /\ mode[r] = "raw" /\ r \notin crossed => Len(buf) < want[r][2]

\* The rest are actions, what every step must be.
\* What was typed up to the end of a line stays as it was typed, whatever is
\* erased or killed after it, until it is read or flushed (fs/tty.c:204-206).
FinishedInputStays ==
    (\E ch \in Chars : Type(ch)) => IsPrefix(Finished, Finished')

\* A read in ICANON returns nothing of a line that is still edited.
ReadsLinesOnly ==
    \A r \in Readers :
        \/ canon /\ \E n \in 1 .. 2 : Read(r, n)
        \/ mode[r] = "canonUp" /\ Wakes(r)
        => Edited' = Edited

\* After poll has called the terminal readable a read does not sleep, but for a
\* VMIN above one, which tty_poll does not look at (fs/tty.c:341-347).
PollMeansRead ==
    PollRead /\ min <= 1 =>
        \A r \in Readers, n \in 1 .. 2 : Read(r, n) => mode'[r] = "idle"

\* A byte is stored past the end of buf only in raw mode with a buffer that
\* lines filled to the last byte: bytes typed in raw mode never fill it.
OverrunNeedsFullLines == ~overrun /\ overrun' => ~canon /\ Len(buf) = Size
=============================================================================
