-------------------------------- MODULE Shell -------------------------------
(***************************************************************************)
(* shell/shell.c: a line is typed into a buffer (getline), split into      *)
(* arguments in place (shell_execute_command) and its command is run.      *)
(***************************************************************************)
EXTENDS Integers, Sequences, SequencesExt

CONSTANTS Keys,             \* the characters that may be typed
          Lines,            \* the lines to split: [args, quote, sep, lead, trail]
          Commands,         \* the names in shell_commands
          SHELL_MAXSIZE, SHELL_MAX_ARGS
VARIABLES st,    \* [pc, buf, typed]: the buffer up to its terminating 0
          out    \* [ret, argv, line]: the last command

vars == <<st, out>>
Quotes == {"'", "dq"}
ALT == "alt"   \* SHELL_ALT_SPACE

\* getline gets one byte less than the buffer has, and keeps one for the 0.
Size_Whole == SHELL_MAXSIZE
Size == SHELL_MAXSIZE - 1
Typed(buf, c) ==
    IF c = "bs" THEN (IF buf = <<>> THEN buf ELSE Front(buf)) ELSE Append(buf, c)
getline ==
    /\ st.pc = "getline"
    /\ \E c \in Keys :
        \/ /\ c = "nl" /\ st.buf # <<>>
           /\ st' = [st EXCEPT !.pc = "execute"]
        \/ /\ c # "nl" \/ st.buf = <<>>   \* a return on an empty line is kept
           /\ LET buf == Typed(st.buf, c) IN
              st' = [st EXCEPT !.buf = buf, !.pc = IF Len(buf) >= Size - 1 THEN "execute" ELSE @]
    /\ UNCHANGED out

---------------------------------------------------------------------------
(* shell_execute_command *)

\* strcat(cmd, "nl"), then every blank a space.
Blanks == {"cr", "nl", "tab"}
WithNewline(cmd) == IF Last(cmd) = "nl" THEN cmd ELSE Append(cmd, "nl")
Spaced(cmd) == [i \in DOMAIN cmd |-> IF cmd[i] \in Blanks THEN " " ELSE cmd[i]]

\* The quote open after each character, "" outside.
Opens(cmd) ==
    LET q[i \in 0 .. Len(cmd)] ==
            IF i = 0 THEN ""
            ELSE IF cmd[i] \in Quotes /\ q[i - 1] \in {"", cmd[i]}
                 THEN (IF q[i - 1] = "" THEN cmd[i] ELSE "")
                 ELSE q[i - 1]
    IN  q
Hidden(cmd) == [i \in DOMAIN cmd |-> IF cmd[i] = " " /\ Opens(cmd)[i] # "" THEN ALT ELSE cmd[i]]

\* One space for a run of them, none in front.
Keep(cmd, i) == ~(cmd[i] = " " /\ i > 1 /\ cmd[i - 1] = " ")
Numbers(n) == [i \in 1 .. n |-> i]
Collapsed(cmd) == LET keep == SelectSeq(Numbers(Len(cmd)), LAMBDA i : Keep(cmd, i)) IN [k \in DOMAIN keep |-> cmd[keep[k]]]
Skipped(cmd) == IF Head(cmd) = " " THEN Tail(cmd) ELSE cmd

\* The pieces between spaces; the hidden ones come back, and a pair of quotes goes.
Split(cmd) ==
    LET ends == SelectSeq(Numbers(Len(cmd)), LAMBDA i : cmd[i] = " ") IN
    [k \in DOMAIN ends |-> SubSeq(cmd, IF k = 1 THEN 1 ELSE ends[k - 1] + 1, ends[k] - 1)]
Unquoted_OneSide(arg) ==
    LET a == [i \in DOMAIN arg |-> IF arg[i] = ALT THEN " " ELSE arg[i]] IN
    IF a # <<>> /\ Head(a) \in Quotes THEN Tail(a) ELSE a
Unquoted(arg) ==
    LET a == [i \in DOMAIN arg |-> IF arg[i] = ALT THEN " " ELSE arg[i]] IN
    IF a # <<>> /\ Head(a) \in Quotes /\ Head(a) = Last(a) THEN Tail(Front(a)) ELSE a

\* shell_execute_command_in_commands: the first command of that name, or -128.
RunCommand(argv) == IF argv[1] \in Commands THEN 0 ELSE -128

TooMany(argv) == Len(argv) > SHELL_MAX_ARGS
shell_execute_command(cmd, rc) ==
    IF cmd = <<>> THEN [ret |-> rc, argv |-> <<>>]
    ELSE LET c == Spaced(WithNewline(cmd)) IN
         IF Opens(c)[Len(c)] # "" THEN [ret |-> -126, argv |-> <<>>]
         ELSE LET short == Collapsed(Hidden(c)) IN
              IF short = <<" ">> THEN [ret |-> rc, argv |-> <<>>]
              ELSE LET argv == Split(Skipped(short)) IN
                   IF TooMany(argv) THEN [ret |-> -124, argv |-> <<>>]
                   ELSE LET a == [k \in DOMAIN argv |-> Unquoted(argv[k])] IN [ret |-> RunCommand(a), argv |-> a]

\* shell_loop, with a line that was typed or one of Lines.
shell_loop ==
    /\ st.pc = "execute"
    /\ out' = shell_execute_command(st.buf, out.ret)
    /\ st' = [st EXCEPT !.pc = "getline", !.buf = <<>>]

\* External: how a user writes a line.  A quoted argument has the quote around it.
Written(arg, q) == IF q = "" THEN arg ELSE <<q>> \o arg \o <<q>>
Render(l) ==
    l.lead \o FlattenSeq([k \in DOMAIN l.args |-> (IF k = 1 THEN <<>> ELSE l.sep) \o Written(l.args[k], l.quote[k])])
        \o l.trail
Give ==
    /\ st.pc = "given"
    /\ out' = shell_execute_command(Render(st.line), 7)
    /\ st' = [st EXCEPT !.pc = "done"]

Next == getline \/ shell_loop \/ Give \/ (st.pc = "done" /\ UNCHANGED vars)
Init ==
    /\ \/ st = [pc |-> "getline", buf |-> <<>>]
       \/ \E l \in Lines : st = [pc |-> "given", buf |-> <<>>, line |-> l]
    /\ out = [ret |-> 0, argv |-> <<>>]

---------------------------------------------------------------------------

\* The line, the newline strcat adds and the terminating 0 fit the buffer, and no more
\* arguments are handed on than argv has places.
BufferFits ==
    /\ st.pc = "execute" => Len(WithNewline(st.buf)) + 1 <= SHELL_MAXSIZE
    /\ Len(out.argv) <= SHELL_MAX_ARGS

\* A line written from arguments, quoted where they need it and with any blanks between
\* them, gives those arguments back; one too many is refused.
ArgvTrue ==
    st.pc = "done" =>
        IF Len(st.line.args) > SHELL_MAX_ARGS THEN out.ret = -124
        ELSE IF st.line.args = <<>> THEN out.ret = 7
        ELSE out.argv = st.line.args
=============================================================================
