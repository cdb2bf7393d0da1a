-------------------------------- MODULE AtCmd --------------------------------
(***************************************************************************)
(* src/atcmd/atcmd.c: AT commands to a modem and their replies, and the    *)
(* TCP data the modem mixes into the same serial line.                     *)
(*                                                                         *)
(* Three actors: the serial receiver (interrupt or thread) runs            *)
(* atcmd_recv_serial_byte for every byte, inside the critical section; one *)
(* task issues commands and waits for their replies; one task reads the    *)
(* received data.  The modem and the line are external: the modem answers  *)
(* a command after any delay or not at all, sends data frames and          *)
(* unsolicited lines whenever it likes, and the line keeps their order.    *)
(*                                                                         *)
(* A text such as "SEND_OK" counts as one byte; the bytes the receiver     *)
(* tells apart (line end, "IPD", digits, ':') are single.  Each byte       *)
(* remembers in "of" where it comes from: n > 0 is the answer to command   *)
(* n, -n the n-th byte of data, 0 anything else.                           *)
(* Time is abstract: wherever the code compares the clock with a deadline  *)
(* that is still open, both outcomes are possible.                         *)
(***************************************************************************)
EXTENDS Integers, Sequences, FiniteSets

CONSTANTS Plans,        \* sequences of calls, [call, times], the command task may make
          BlankLines,   \* whether the modem starts its answers with an empty line (by plan)
          Frames,       \* payloads the modem may send (sequences of data bytes)
          RbCap, IpdCap,\* capacities of the two rings
          ReadLen,      \* length the reading task asks for
          MaxFrames,    \* bound: data frames and unsolicited lines
          MaxLate       \* bound: bytes that come after the receiver's gap timeout

ASSUME BoundsAssumption == RbCap \in Nat /\ IpdCap \in Nat /\ ReadLen \in Nat
\* A frame's length is one digit, and an announced frame is not empty.
Payload == UNION {{p[i] : i \in DOMAIN p} : p \in Frames}
ASSUME FramesAssumption == \A p \in Frames : p \in Seq(Payload) /\ Len(p) \in 1..9

\* what the modem writes
Text == {"NL", "I", "P", "D", ":", "0", "1", "2", "3", "4", "5", "6", "7", "8", "9",
         "RING", "OK", "ERROR", "SEND_OK", "SEND_FAIL", "CONNECT_OK", "CONNECT_FAIL",
         "ALREADY_CONNECT", "CLOSE_OK", "89860012345678901234", "868120000000000",
         "+CREG:1", "+CREG:0", "+CREG:cell", "+CSQ:28", "+CSQ:40",
         "+QISACK:9-9-0", "+QISACK:9", "+COPS:CHINA"} \cup Payload
Byte == [ch : Text \cup {"NUL"}, of : Int]
B(ch) == [ch |-> ch, of |-> 0]
NUL == B("NUL")
NL == B("NL")

VARIABLES
  rb, sem,                                   \* reply ring and its semaphore
  ipd_rb,                                    \* data ring
  serial_recv, auto_prefix, ipd_length, ipd_recv_index,
  op, pc, step, times,                       \* the command task
  line, res,                                 \* the line it read last, what its last call returned
  rwant, delivered,                          \* the reading task: bytes it still wants, all it got
  wire, pending,                             \* external: bytes under way, commands not yet answered
  sent,                                      \* history: bytes of data sent by the modem
  id, plan, blank,                           \* id of the last command, calls yet to be made, modem's setting
  frames, late,                              \* counters of what MaxFrames and MaxLate bound
  quiet,                                     \* history: nothing was under way when the call cleared the ring
  expired,                                   \* history: a send found its deadline passed, and returned 1 for it
  stale, overflow                            \* history: tokens without lines; a full ring dropped a byte

receiver == <<rb, sem, ipd_rb, serial_recv, auto_prefix, ipd_length, ipd_recv_index>>
task == <<op, pc, step, times, line, res, id, plan, quiet, expired>>
reader == <<rwant, delivered>>
modem == <<wire, pending, sent, frames, blank>>
vars == <<receiver, task, reader, modem, late, stale, overflow>>

\* mutant: the length is not compared with the capacity
Put_Unbounded(r, b, cap) == Append(r, b)

\* ringbuffer_put of one byte: a full ring drops it
Put(r, b, cap) == IF Len(r) < cap THEN Append(r, b) ELSE r

Init ==
  /\ rb = <<>> /\ sem = 0 /\ ipd_rb = <<>>
  /\ serial_recv = "default" /\ auto_prefix = <<>> /\ ipd_length = 0 /\ ipd_recv_index = 0
  /\ op = "none" /\ pc = "idle" /\ step = 1 /\ times = 0
  /\ line = <<>> /\ res = [ok |-> FALSE, own |-> TRUE]
  /\ rwant = 0 /\ delivered = <<>>
  /\ wire = <<>> /\ pending = <<>> /\ sent = 0
  /\ id = 0 /\ plan \in Plans /\ blank = BlankLines[plan] /\ frames = 0 /\ late = 0
  /\ quiet = TRUE /\ expired = FALSE /\ stale = FALSE /\ overflow = FALSE

-----------------------------------------------------------------------------
(***************************************************************************)
(* The receiver: atcmd_recv_serial_byte.                                   *)
(***************************************************************************)
Digits == <<"0", "1", "2", "3", "4", "5", "6", "7", "8", "9">>
IsDigit(b) == \E i \in 1..10 : Digits[i] = b.ch
Value(b) == (CHOOSE i \in 1..10 : Digits[i] = b.ch) - 1

\* mutant: the count of received bytes is compared with ">"
ContentDone_OneMore == ipd_recv_index + 1 > ipd_length

ContentDone == ipd_recv_index + 1 >= ipd_length

serial_recv_ipd_content(b) ==
  /\ ipd_rb' = Put(ipd_rb, b, IpdCap)
  /\ overflow' = (overflow \/ Len(ipd_rb) = IpdCap)
  /\ ipd_recv_index' = ipd_recv_index + 1
  /\ serial_recv' = IF ContentDone THEN "default" ELSE "content"
  /\ UNCHANGED <<rb, sem, auto_prefix, ipd_length, stale>>

serial_recv_ipd_length(b) ==
  /\ IF b.ch = ":"
       THEN serial_recv' = "content" /\ ipd_recv_index' = 0 /\ ipd_length' = ipd_length
       ELSE /\ ipd_length' = IF IsDigit(b) THEN (ipd_length * 10 + Value(b)) % 65536 ELSE ipd_length
            /\ serial_recv' = "length" /\ ipd_recv_index' = ipd_recv_index
  /\ UNCHANGED <<rb, sem, ipd_rb, auto_prefix, stale, overflow>>

\* The end of a line is stored as its terminator and announced; "IPD" at the
\* start of a line throws the replies away and starts a data frame.
serial_recv_serial_default(b) ==
  \/ /\ b.ch = "NL"
     /\ auto_prefix' = <<>>
     /\ rb' = Put(rb, NUL, RbCap) /\ overflow' = (overflow \/ Len(rb) = RbCap)
     /\ sem' = sem + 1
     /\ serial_recv' = "default"
     /\ UNCHANGED <<ipd_rb, ipd_length, ipd_recv_index, stale>>
  \/ /\ b.ch = "CR"
     /\ serial_recv' = "default"
     /\ UNCHANGED <<rb, sem, ipd_rb, auto_prefix, ipd_length, ipd_recv_index, stale, overflow>>
  \/ /\ b.ch \notin {"NL", "CR"}
     /\ LET prefix == IF Len(auto_prefix) < 5 THEN Append(auto_prefix, b.ch) ELSE auto_prefix
        IN  IF prefix = <<"I", "P", "D">>
              THEN /\ rb' = <<>>
                   /\ stale' = (stale \/ sem > 0 \/ pc = "read")
                   /\ serial_recv' = "length" /\ ipd_length' = 0 /\ auto_prefix' = <<>>
                   /\ UNCHANGED overflow
              ELSE /\ auto_prefix' = prefix
                   /\ rb' = Put(rb, b, RbCap) /\ overflow' = (overflow \/ Len(rb) = RbCap)
                   /\ serial_recv' = "default"
                   /\ UNCHANGED <<ipd_length, stale>>
     /\ UNCHANGED <<sem, ipd_rb, ipd_recv_index>>

\* A byte that comes after time_to_default is read in the default state.
atcmd_recv_serial_byte ==
  /\ wire # <<>> /\ wire' = Tail(wire)
  /\ \E in_time \in BOOLEAN :
       /\ in_time \/ (serial_recv # "default" /\ late < MaxLate)
       /\ late' = IF in_time THEN late ELSE late + 1
       /\ \/ in_time /\ serial_recv = "content" /\ serial_recv_ipd_content(Head(wire))
          \/ in_time /\ serial_recv = "length" /\ serial_recv_ipd_length(Head(wire))
          \/ (~in_time \/ serial_recv = "default") /\ serial_recv_serial_default(Head(wire))
  /\ UNCHANGED <<task, reader, pending, sent, frames, blank>>

-----------------------------------------------------------------------------
(***************************************************************************)
(* The command task.  A call is a script of atcmd_exec_command calls: what *)
(* each sends and which reply it waits for ("any" is the prefix "", "none" *)
(* a NULL exp, a sleep).                                                   *)
(***************************************************************************)
Exec(cmd, exp) == [cmd |-> cmd, exp |-> exp]

Script ==
  [reply   |-> <<Exec("AT", "OK")>>,                                      \* atcmd_retry_until_reply
   replys  |-> <<Exec("AT+CREG?", "none"), Exec("NULL", "any")>>,                \* atcmd_retry_until_replys
   ccid    |-> <<Exec("AT+QCCID", "none"), Exec("NULL", "any")>>,
   imei    |-> <<Exec("AT+GSN", "none"), Exec("NULL", "any")>>,
   csq     |-> <<Exec("AT+CSQ", "+CSQ:")>>,                               \* atcmd_get_signal_quality
   sack    |-> <<Exec("AT+QISACK", "+QISACK:")>>,                         \* atcmd_get_data_sent_info
   ops     |-> <<Exec("AT+COPS?", "+COPS:")>>,
   lacci   |-> <<Exec("AT+CREG?", "+CREG:")>>,
   connect |-> <<Exec("AT+QIDNSIP", "OK"), Exec("AT+QIOPEN", "any"), Exec("NULL", "CONNECT")>>,
   close   |-> <<Exec("AT+QICLOSE", "CLOSE_OK")>>,
   send    |-> <<Exec("AT+QISEND", "none"), Exec("data", "any")>>]           \* atcmd_send_tcp(_cb)

ASSUME PlansAssumption == \A p \in Plans : p \in Seq([call : DOMAIN Script, times : Nat])

\* what goes to the modem
Commands == {"AT", "AT+CREG?", "AT+QCCID", "AT+GSN", "AT+CSQ", "AT+QISACK", "AT+COPS?",
             "AT+QIDNSIP", "AT+QIOPEN", "AT+QICLOSE", "AT+QISEND", "data"}

\* the calls that parse the one line they asked for
Queries == {"csq", "sack", "ops", "lacci"}

Now == Script[op][step]

\* Texts by the prefix a command may ask for.
StartsWith(text, exp) ==
  \/ exp = "any" \/ text = exp
  \/ exp = "CONNECT" /\ text \in {"CONNECT_OK", "CONNECT_FAIL"}
  \/ exp = "+CSQ:" /\ text \in {"+CSQ:28", "+CSQ:40"}
  \/ exp = "+QISACK:" /\ text \in {"+QISACK:9-9-0", "+QISACK:9"}
  \/ exp = "+COPS:" /\ text = "+COPS:CHINA"
  \/ exp = "+CREG:" /\ text \in {"+CREG:1", "+CREG:0", "+CREG:cell"}

\* mutant: commands go out without clearing what is left of earlier replies
AfterStart_NoClear(s) == IF s.cmd = "NULL" THEN "pend" ELSE "send"

\* A NULL cmd neither clears nor sends; the data of a send goes out as it is.
AfterStart(s) == IF s.cmd = "NULL" THEN "pend" ELSE IF s.cmd = "data" THEN "send" ELSE "clear"

Start(call) ==
  /\ pc = "idle" /\ plan # <<>> /\ Head(plan).call = call
  /\ plan' = Tail(plan)
  /\ op' = call /\ step' = 1 /\ times' = Head(plan).times
  /\ pc' = IF call = "send" THEN "preclear" ELSE AfterStart(Script[call][1])
  /\ quiet' = TRUE /\ expired' = FALSE /\ line' = <<>>
  /\ UNCHANGED <<receiver, reader, modem, late, stale, overflow, res, id>>

atcmd_retry_until_reply == Start("reply")
atcmd_retry_until_replys == Start("replys")
atcmd_get_ccid == Start("ccid")
atcmd_get_imei == Start("imei")
atcmd_get_signal_quality == Start("csq")
atcmd_get_data_sent_info == Start("sack")
atcmd_get_ops == Start("ops")
atcmd_get_lacci == Start("lacci")
atcmd_connect_tcp == Start("connect")
atcmd_disconnect_tcp == Start("close")
atcmd_send_tcp == Start("send") /\ Head(plan).times = 1
\* "times" is the number of chunks
atcmd_send_tcp_cb == Start("send") /\ Head(plan).times > 1

\* mutant: the semaphore is cleared first and the ring after it
ClearOrder_SemFirst == <<"sem", "ring">>

\* clear_recv_buffer: the ring in the critical section, the semaphore after it
ClearOrder == <<"ring", "sem">>

Clear(part) ==
  /\ rb' = IF part = "ring" THEN <<>> ELSE rb
  /\ sem' = IF part = "sem" THEN 0 ELSE sem
  /\ stale' = (stale /\ part # "sem")
  /\ UNCHANGED <<ipd_rb, serial_recv, auto_prefix, ipd_length, ipd_recv_index, reader, modem,
                 late, overflow, op, step, times, line, res, id, plan, expired>>

\* atcmd_send_tcp clears once before atcmd_exec_command does.
ClearFirst ==
  /\ pc \in {"preclear", "clear"} /\ Clear(ClearOrder[1])
  /\ pc' = IF pc = "preclear" THEN "preclear_half" ELSE "clear_half"
  /\ quiet' = (quiet /\ wire = <<>> /\ pending = <<>>)

ClearSecond ==
  /\ pc \in {"preclear_half", "clear_half"} /\ Clear(ClearOrder[2])
  /\ pc' = IF pc = "preclear_half" THEN "clear" ELSE "send"
  /\ quiet' = quiet

\* send_string, and on to the reply or, after os_sleep, to the next command.
Send ==
  /\ pc = "send"
  /\ id' = id + 1
  /\ pending' = Append(pending, [cmd |-> Now.cmd, id |-> id + 1])
  /\ IF Now.exp = "none"
       THEN step' = step + 1 /\ pc' = AfterStart(Script[op][step + 1])
       ELSE step' = step /\ pc' = "pend"
  /\ UNCHANGED <<receiver, reader, wire, sent, frames, blank, late, stale, overflow,
                 op, times, line, res, plan, quiet, expired>>

\* After a gap a byte of data is read like a reply.
DataForReply(str) == late > 0 /\ str # <<>> /\ str[1].of < 0

\* The call returns: r, and whether a success is backed by a reply to its own
\* last command (not claimed of a send that found its deadline passed, and of a
\* line that is data).
Finish(r) ==
  /\ res' = [ok |-> r, own |-> r /\ quiet /\ ~expired' /\ ~DataForReply(line')
                                => line' # <<>> /\ line'[1].of = id]
  /\ pc' = "idle" /\ op' = "none" /\ step' = 1 /\ times' = 0

\* "while (times--)": the same script again, or give up
RetryOrFail ==
  IF op \in {"reply", "replys"} \/ (op = "connect" /\ step = 1)
    THEN IF times > 1
           THEN /\ times' = times - 1 /\ step' = 1 /\ pc' = AfterStart(Script[op][1])
                /\ UNCHANGED <<op, res>>
           ELSE Finish(FALSE)
    ELSE Finish(FALSE)

\* The end of one chunk of a send, of the other calls the end.
Confirmed ==
  IF op = "send" /\ times > 1
    THEN times' = times - 1 /\ step' = 1 /\ pc' = "preclear" /\ UNCHANGED <<op, res>>
    ELSE Finish(TRUE)

\* The wait ended at its deadline without a (matching) reply.
Again(timeout) == IF timeout THEN RetryOrFail ELSE pc' = "pend" /\ UNCHANGED <<op, step, times, res>>

\* expect: wait for a token ...
Pend ==
  /\ pc = "pend" /\ sem > 0
  /\ sem' = sem - 1 /\ pc' = "read"
  /\ UNCHANGED <<rb, ipd_rb, serial_recv, auto_prefix, ipd_length, ipd_recv_index, reader, modem,
                 late, stale, overflow, op, step, times, line, res, id, plan, quiet, expired>>

\* mutant: the wait has no deadline
PendTimeout_Never == pc = "pend" /\ sem = 0 /\ UNCHANGED vars

PendTimeout ==
  /\ pc = "pend" /\ sem = 0
  /\ line' = <<>> /\ expired' = expired
  /\ RetryOrFail
  /\ UNCHANGED <<receiver, reader, modem, late, stale, overflow, id, plan, quiet>>

\* The loops of atcmd_send_tcp, of its cb and of atcmd_retry_until_replys test
\* the clock before every wait, the first one too.  The sends leave the loop as
\* if they had read "SEND OK": atcmd_send_tcp, which sets its deadline before it
\* sleeps 250 ms for the prompt, may do so without having read a line.
DeadlinePassed ==
  /\ pc = "pend" /\ op \in {"send", "replys"}
  /\ line' = <<>> /\ expired' = (expired \/ op = "send")
  /\ IF op = "send" THEN Confirmed ELSE RetryOrFail
  /\ UNCHANGED <<receiver, reader, modem, late, stale, overflow, id, plan, quiet>>

\* What a line's text says to the call that reads it.
Good(text) ==
  \/ op \in {"reply", "close"}
  \/ op = "replys" /\ text = "+CREG:1"
  \/ op = "ccid" /\ text = "89860012345678901234"
  \/ op = "imei" /\ text = "868120000000000"
  \/ op \in Queries /\ text \in {"+CSQ:28", "+QISACK:9-9-0", "+COPS:CHINA",
                              "+CREG:cell"}
  \/ op = "connect" /\ step = 2 /\ text = "ALREADY_CONNECT"
  \/ op = "connect" /\ step = 3 /\ text = "CONNECT_OK"
  \/ op = "send" /\ text = "SEND_OK"
GoOn(text) == op = "connect" /\ (step = 1 \/ (step = 2 /\ text = "OK"))
\* such a line ends the call; any other is skipped while there is time
Bad(text) == op \in Queries \cup {"connect"} \/ (op = "send" /\ text \in {"SEND_FAIL", "ERROR"})

\* Where the first string of the ring ends: at its terminator, or with the ring.
StringEnd(r) ==
  LET ends == {i \in DOMAIN r : r[i] = NUL}
  IN  IF ends = {} THEN Len(r) + 1 ELSE CHOOSE i \in ends : \A j \in ends : i <= j

\* ... and read one string, of which atcmd_retry_until_replys compares the start.
Read ==
  LET n == StringEnd(rb)
      str == SubSeq(rb, 1, n - 1)
      text == IF str = <<>> THEN "empty" ELSE IF Len(str) = 1 \/ op = "replys" THEN str[1].ch ELSE "garbled"
      first == IF str = <<>> THEN "empty" ELSE str[1].ch
  IN  /\ pc = "read"
      /\ rb' = SubSeq(rb, n + 1, Len(rb))
      /\ line' = str
      /\ \E timeout \in BOOLEAN :
           \/ /\ ~StartsWith(first, Now.exp)
              /\ expired' = expired /\ Again(timeout)
           \/ /\ StartsWith(first, Now.exp) /\ GoOn(text)
              /\ step' = step + 1 /\ pc' = AfterStart(Script[op][step + 1])
              /\ timeout /\ UNCHANGED <<op, times, res, expired>>
           \/ /\ StartsWith(first, Now.exp) /\ ~GoOn(text) /\ Good(text)
              /\ expired' = expired /\ timeout /\ Confirmed
           \/ /\ StartsWith(first, Now.exp) /\ ~GoOn(text) /\ ~Good(text) /\ Bad(text)
              /\ expired' = expired /\ timeout /\ Finish(FALSE)
           \* another reply: the loop goes on (DeadlinePassed), or its deadline ends the call
           \/ /\ StartsWith(first, Now.exp) /\ ~GoOn(text) /\ ~Good(text) /\ ~Bad(text)
              /\ expired' = expired /\ Again(timeout /\ op \notin {"send", "replys"})
      /\ UNCHANGED <<sem, ipd_rb, serial_recv, auto_prefix, ipd_length, ipd_recv_index, reader, modem,
                     late, stale, overflow, id, plan, quiet>>

Command == ClearFirst \/ ClearSecond \/ Send \/ Pend \/ PendTimeout \/ DeadlinePassed \/ Read

-----------------------------------------------------------------------------
(***************************************************************************)
(* The reading task: atcmd_recv_tcp, through dtum35_tcp_read.              *)
(***************************************************************************)
Rest(r, n) == SubSeq(r, n + 1, Len(r))

\* One turn of the loop, the first one of a call when rwant is 0; at the
\* deadline the call returns with what it has.
atcmd_recv_tcp ==
  /\ LET want == IF rwant = 0 THEN ReadLen ELSE rwant
         n == IF Len(ipd_rb) < want THEN Len(ipd_rb) ELSE want
     IN  /\ delivered' = delivered \o SubSeq(ipd_rb, 1, n)
         /\ ipd_rb' = Rest(ipd_rb, n)
         /\ \E timeout \in BOOLEAN : rwant' = IF timeout THEN 0 ELSE want - n
  /\ UNCHANGED <<rb, sem, serial_recv, auto_prefix, ipd_length, ipd_recv_index, task, modem,
                 late, stale, overflow>>

-----------------------------------------------------------------------------
(***************************************************************************)
(* External: the modem.                                                    *)
(***************************************************************************)
Answers(cmd) ==
  {<<>>, <<"ERROR">>} \cup
  CASE cmd = "AT" -> {<<"OK">>}
    [] cmd = "AT+CREG?" -> {<<"+CREG:1", "OK">>, <<"+CREG:0", "OK">>, <<"+CREG:cell", "OK">>}
    [] cmd = "AT+QCCID" -> {<<"89860012345678901234", "OK">>}
    [] cmd = "AT+GSN" -> {<<"868120000000000", "OK">>}
    [] cmd = "AT+QISACK" -> {<<"+QISACK:9-9-0", "OK">>, <<"+QISACK:9", "OK">>}
    [] cmd = "AT+COPS?" -> {<<"+COPS:CHINA", "OK">>}
    [] cmd = "AT+CSQ" -> {<<"+CSQ:28", "OK">>, <<"+CSQ:40", "OK">>}
    [] cmd = "AT+QIDNSIP" -> {<<"OK">>}
    [] cmd = "AT+QIOPEN" -> {<<"OK", "CONNECT_OK">>, <<"OK", "CONNECT_FAIL">>, <<"ALREADY_CONNECT">>}
    [] cmd = "AT+QICLOSE" -> {<<"CLOSE_OK">>}
    [] cmd = "AT+QISEND" -> {}
    [] cmd = "data" -> {<<"SEND_OK">>, <<"SEND_FAIL">>}

\* A line for each text.
Lines(texts, n) ==
  [i \in 1..(2 * Len(texts)) |-> IF i % 2 = 1 THEN [ch |-> texts[(i + 1) \div 2], of |-> n] ELSE NL]

\* The modem answers the oldest command; answers may start with an empty line.
Answer ==
  /\ pending # <<>> /\ pending' = Tail(pending)
  /\ \E a \in Answers(Head(pending).cmd) :
       wire' = wire \o (IF blank /\ a # <<>> THEN <<NL>> ELSE <<>>) \o Lines(a, Head(pending).id)
  /\ UNCHANGED <<receiver, task, reader, sent, frames, blank, late, stale, overflow>>

\* "IPD", the length, ':' and the data, whose bytes are numbered on.
Frame(p) ==
  LET head == <<B("I"), B("P"), B("D"), B(Digits[Len(p) + 1]), B(":")>>
  IN  [i \in 1..(5 + Len(p)) |-> IF i <= 5 THEN head[i] ELSE [ch |-> p[i - 5], of |-> -(sent + i - 5)]]

\* Data from the peer, or a line nobody asked for.
Unsolicited ==
  /\ frames < MaxFrames /\ frames' = frames + 1
  /\ \/ \E p \in Frames : wire' = wire \o Frame(p) /\ sent' = sent + Len(p)
     \/ wire' = wire \o Lines(<<"RING">>, 0) /\ UNCHANGED sent
  /\ UNCHANGED <<receiver, task, reader, pending, blank, late, stale, overflow>>

-----------------------------------------------------------------------------
Next ==
  \/ atcmd_recv_serial_byte
  \/ atcmd_retry_until_reply \/ atcmd_retry_until_replys
  \/ atcmd_get_ccid \/ atcmd_get_imei \/ atcmd_get_signal_quality
  \/ atcmd_get_data_sent_info \/ atcmd_get_ops \/ atcmd_get_lacci
  \/ atcmd_connect_tcp \/ atcmd_disconnect_tcp \/ atcmd_send_tcp \/ atcmd_send_tcp_cb
  \/ Command
  \/ atcmd_recv_tcp
  \/ Answer \/ Unsolicited

Spec == Init /\ [][Next]_vars

\* The OS runs the command task, and its waits have deadlines; nothing is
\* assumed of the modem, the line or the readers.
FairSpec == Spec /\ WF_vars(Command)

-----------------------------------------------------------------------------
Count(s, b) == Cardinality({i \in DOMAIN s : s[i] = b})

\* The receiver and its rings.
ReceiverOK ==
  /\ rb \in Seq(Byte) /\ Len(rb) <= RbCap /\ sem \in Nat
  /\ ipd_rb \in Seq(Byte) /\ Len(ipd_rb) <= IpdCap
  /\ serial_recv \in {"default", "length", "content"}
  /\ auto_prefix \in Seq(Text \cup {"NUL"}) /\ Len(auto_prefix) <= 5
  /\ ipd_length \in Nat /\ ipd_length < 65536 /\ ipd_recv_index \in Nat
  /\ late \in Nat /\ stale \in BOOLEAN /\ overflow \in BOOLEAN

\* A call is at a step of its script, and waits only in one that expects a reply.
CallOK ==
  /\ op \in DOMAIN Script \cup {"none"} /\ (op # "none" => step \in DOMAIN Script[op])
  /\ pc \in {"idle", "preclear", "preclear_half", "clear", "clear_half", "send", "pend", "read"}
  /\ (pc = "idle" <=> op = "none") /\ (pc \in {"pend", "read"} => Now.exp # "none")
  /\ times \in Nat /\ plan \in Seq([call : DOMAIN Script, times : Nat])
  /\ id \in Nat /\ quiet \in BOOLEAN /\ expired \in BOOLEAN

\* The reading task, the line and the modem.
OutsideOK ==
  /\ rwant \in 0..ReadLen /\ delivered \in Seq(Byte)
  /\ wire \in Seq(Byte) /\ pending \in Seq([cmd : Commands, id : Nat \ {0}])
  /\ sent \in Nat

\* Types and capacities.
TypeOK == ReceiverOK /\ CallOK /\ OutsideOK

\* Every token of the semaphore, and the one expect has just taken, stands for
\* a complete line in the reply ring, so a reply is never read before its end:
\* unless a data frame threw lines away or a ring overflowed.  It is why
\* clear_recv_buffer clears the ring before the semaphore: the other order
\* leaves a token without its line when a line ends in between.
TokensBacked ==
  ~stale /\ ~overflow /\ pc \notin {"preclear_half", "clear_half"} =>
    sem + (IF pc = "read" THEN 1 ELSE 0) <= Count(rb, NUL)

\* A call that reports success has read a reply to its own command: whatever
\* earlier calls left unread is not taken for an answer.  Two cases are not
\* covered, both the code's own: an answer to an earlier command still under way
\* when the call cleared the ring, and a send that meets its deadline before a
\* reply (DeadlinePassed), which returns 1 whatever it has read.
OwnAnswer == res.own

\* The bytes of data among those under way.
DataOnWire == {i \in DOMAIN wire : wire[i].of < 0}

\* Nothing of the peer's data is lost, duplicated, reordered or mixed with
\* replies on its way through the receiver's states, the data ring and
\* atcmd_recv_tcp, as long as no byte is late and no ring overflows: what has
\* been received are the first bytes sent, and the others are under way.
DataIntact ==
  late = 0 /\ ~overflow =>
    LET received == delivered \o ipd_rb
    IN  /\ \A i \in DOMAIN received : received[i].of = -i
        /\ {wire[i].of : i \in DataOnWire} = {-n : n \in (Len(received) + 1)..sent}
        /\ \A i, j \in DataOnWire : i < j => wire[i].of > wire[j].of

\* Every call returns: retries are counted, waits have deadlines.
CallReturns == (pc # "idle") ~> (pc = "idle")

\* The two streams the receiver separates, replies and data, both stay whole.
StreamsWhole == TypeOK /\ TokensBacked /\ DataIntact
=============================================================================
