------------------------------- MODULE DtuM35 -------------------------------
(***************************************************************************)
(* src/dtu_m35/dtu_m35.c: the thread that owns the GSM modem and the tasks *)
(* that ask it to connect, send and disconnect.                            *)
(*                                                                         *)
(* A task writes a command into cmd_rb and posts cmd_sem in one critical   *)
(* section, then spins on a variable of its own stack frame until the      *)
(* modem thread has stored an answer through the pointer in the command.   *)
(* The modem thread touches cmd_rb WITHOUT the critical section: its read  *)
(* loop and its clear are therefore modelled store by store, and a task's  *)
(* critical section may run between any two of them.                       *)
(*                                                                         *)
(* The ring is counted in cells: one for the cmd_info of a command and     *)
(* ParamLen of them, numbered, for its parameters (sizeof gives 2, 16, 12  *)
(* and 4 bytes on the 32-bit targets, in a ring of 100).                   *)
(***************************************************************************)
EXTENDS Integers, Sequences, FiniteSets

CONSTANTS Clients,    \* tasks that call dtum35_tcp_*
          Cap,        \* cells of cmd_rb_buffer
          SendLen, ConnectLen, DisconnectLen,  \* cells of the parameters of each kind of command
          MaxCalls,   \* bound: calls started
          MaxRestarts \* bound: configurations of the modem that fail

Kinds == {"send", "connect", "disconnect"}

ParamLen == [send |-> SendLen, connect |-> ConnectLen, disconnect |-> DisconnectLen]

ASSUME ParamAssumption == {SendLen, ConnectLen, DisconnectLen} \subseteq Nat \ {0}
ASSUME CapAssumption == Cap \in Nat \ {0}
ASSUME ClientsAssumption == IsFiniteSet(Clients)

VARIABLES buf, rin, rout, rlen,  \* cmd_rb
          cmd_sem,
          cpc, kind, ret,        \* per task: where it is, what it asks, its stack variable
          mpc,                   \* where the modem thread is
          runtime_status,
          wait_time_index,       \* wait_time_index_for_restart
          need, got, tmp,        \* the read in progress: cells asked for, cells read, rb->len as loaded
          hdr,                   \* cmd_info as read
          calls,                 \* number of calls so far (bound)
          raced,                 \* history: a task wrote between two stores of the thread,
                                 \* or into less room than it had checked for
          lost                   \* history: a clear threw cells away

ring == <<buf, rin, rout, rlen>>
thread == <<mpc, need, got, tmp, hdr>>
status == <<runtime_status, wait_time_index>>
tasks == <<cpc, kind, ret>>
vars == <<ring, cmd_sem, tasks, thread, status, calls, raced, lost>>

\* what a task's ret holds until it is answered (0x7F)
Pending == 127

NoCell == [of |-> "none", cmd |-> "none", at |-> 0]
\* cells of one command: cmd_info at 0, the parameters after it
Info(c, k) == [of |-> c, cmd |-> k, at |-> 0]
Params(c, k) == [i \in 1..ParamLen[k] |-> [of |-> c, cmd |-> k, at |-> i]]

\* union cmd_param is as large as its largest member
UnionLen == CHOOSE n \in {ParamLen[k] : k \in Kinds} : \A k \in Kinds : ParamLen[k] <= n

Cell == [of : Clients, cmd : Kinds, at : 0..UnionLen]

\* wait_time_table_for_restart has 7 entries
LastWait == 6

-----------------------------------------------------------------------------
\* dtum35_init
Init ==
  /\ buf = [i \in 0..(Cap - 1) |-> NoCell]
  /\ rin = 0 /\ rout = 0 /\ rlen = 0
  /\ cmd_sem = 0
  /\ cpc = [c \in Clients |-> "idle"]
  /\ kind = [c \in Clients |-> "send"]
  /\ ret = [c \in Clients |-> 0]
  /\ mpc = "config" /\ need = 0 /\ got = <<>> /\ tmp = 0 /\ hdr = NoCell
  /\ runtime_status = "UNKNOWN" /\ wait_time_index = 0
  /\ calls = 0 /\ raced = FALSE /\ lost = FALSE

-----------------------------------------------------------------------------
(***************************************************************************)
(* The tasks.                                                              *)
(***************************************************************************)

\* Room for the whole command: looked for in one critical section, relied on
\* in the next.
Fits(k) == Cap - rlen >= ParamLen[k] + 1

\* The first critical section.
Check(c, k) ==
  /\ cpc[c] = "idle" /\ calls < MaxCalls
  /\ calls' = calls + 1
  /\ IF ~Fits(k)
       THEN UNCHANGED tasks                        \* "Command buffer full": return 0
       ELSE /\ kind' = [kind EXCEPT ![c] = k]
            /\ cpc' = [cpc EXCEPT ![c] = "write"]
            /\ ret' = [ret EXCEPT ![c] = Pending]
  /\ UNCHANGED <<ring, cmd_sem, thread, status, raced, lost>>

\* ringbuffer_write of dat, as a function of the ring: all of it or nothing
Written(r, dat) ==
  IF Cap - r.len < Len(dat) THEN r
  ELSE [buf |-> [i \in 0..(Cap - 1) |->
                   LET j == (i - r.in + Cap) % Cap IN IF j < Len(dat) THEN dat[j + 1] ELSE r.buf[i]],
        in  |-> (r.in + Len(dat)) % Cap,
        len |-> r.len + Len(dat)]

\* between these two stores of the thread a write is lost or misplaced
InStore == mpc \in {"store", "clear_in", "clear_out"}

\* mutant: a post for each of the two writes
Post_EachWrite == cmd_sem' = cmd_sem + 2

Post == cmd_sem' = cmd_sem + 1

\* The second critical section: both writes and the post.
Write(c) ==
  LET r == Written(Written([buf |-> buf, in |-> rin, len |-> rlen],
                           <<Info(c, kind[c])>>), Params(c, kind[c]))
  IN  /\ cpc[c] = "write"
      /\ buf' = r.buf /\ rin' = r.in /\ rlen' = r.len
      /\ Post
      /\ cpc' = [cpc EXCEPT ![c] = "spin"]
      /\ raced' = (raced \/ InStore \/ ~Fits(kind[c]))
      /\ UNCHANGED <<rout, kind, ret, thread, status, calls, lost>>

\* while (ret == 0x7F) os_sleep(2); then the call returns and its
\* frame is gone
Return(c) ==
  /\ cpc[c] = "spin" /\ ret[c] # Pending
  /\ cpc' = [cpc EXCEPT ![c] = "idle"]
  /\ kind' = [kind EXCEPT ![c] = "send"] /\ ret' = [ret EXCEPT ![c] = 0]
  /\ UNCHANGED <<ring, cmd_sem, thread, status, calls, raced, lost>>

dtum35_tcp_write(c) == Check(c, "send")
dtum35_tcp_connect(c) == Check(c, "connect")
dtum35_tcp_disconnect(c) == Check(c, "disconnect")

-----------------------------------------------------------------------------
(***************************************************************************)
(* The modem thread: dtum35_run.                                           *)
(***************************************************************************)

\* start_and_config_modem: each stage sets runtime_status; the commands of a
\* stage end with an answer or, after their retries, with the error exit.
Stages == <<"POWERUP", "CONFIGURE", "SIM_INIT", "WAIT_REGISTER">>

ConfigStage ==
  /\ mpc = "config"
  /\ \/ /\ runtime_status \notin {Stages[i] : i \in 1..4}
        /\ runtime_status' = Stages[1] /\ mpc' = mpc
     \/ \E i \in 1..3 : /\ runtime_status = Stages[i]
                        /\ runtime_status' = Stages[i + 1] /\ mpc' = mpc
     \/ /\ runtime_status = Stages[4] /\ mpc' = "pend"
        /\ UNCHANGED runtime_status
     \/ /\ runtime_status \in {Stages[i] : i \in 2..4} /\ mpc' = "restart"
        /\ wait_time_index < MaxRestarts
        /\ runtime_status' = "DELAT_TO_RESTART"
  /\ UNCHANGED <<ring, cmd_sem, tasks, need, got, tmp, hdr, wait_time_index, calls, raced, lost>>

\* stop_modem and wait_to_restart
Restart ==
  /\ mpc = "restart"
  /\ wait_time_index' = IF wait_time_index < LastWait THEN wait_time_index + 1 ELSE wait_time_index
  /\ mpc' = "config"
  /\ UNCHANGED <<ring, cmd_sem, tasks, need, got, tmp, hdr, runtime_status, calls, raced, lost>>

\* The guard of ringbuffer_read compares the request with the free space.
Reading(n, next) == IF Cap - rlen < n THEN mpc' = "clear_len" /\ need' = 0 ELSE mpc' = next /\ need' = n

PendOk ==
  /\ mpc = "pend" /\ cmd_sem > 0
  /\ cmd_sem' = cmd_sem - 1
  /\ Reading(1, "fetch")
  /\ UNCHANGED <<ring, tasks, got, hdr, tmp, status, calls, raced, lost>>

\* five seconds without a command
PendTimeout ==
  /\ mpc = "pend" /\ cmd_sem = 0
  /\ mpc' = "clear_len"
  /\ UNCHANGED <<ring, cmd_sem, tasks, need, got, tmp, hdr, status, calls, raced, lost>>

\* mutant: "out" runs past the end of the buffer
Step_NoWrap(i) == i + 1

Step(i) == (i + 1) % Cap

\* One turn of ringbuffer_try_read's loop: the byte is taken, out steps, and
\* rb->len is loaded ...
Fetch ==
  /\ mpc = "fetch" /\ Len(got) < need /\ rlen > 0
  /\ got' = Append(got, buf[rout])
  /\ rout' = Step(rout)
  /\ tmp' = rlen
  /\ mpc' = "store"
  /\ UNCHANGED <<buf, rin, rlen, cmd_sem, tasks, need, hdr, status, calls, raced, lost>>

\* ... and stored decremented.
StoreLen ==
  /\ mpc = "store"
  /\ rlen' = tmp - 1 /\ tmp' = 0
  /\ mpc' = "fetch"
  /\ UNCHANGED <<buf, rin, rout, cmd_sem, tasks, need, got, hdr, status, calls, raced, lost>>

\* What cmd_info says when its bytes are those of a parameter: any command of
\* its length, or one that the tests below refuse (NoCell; so are zero bytes).
InfoOf(cell) ==
  IF cell = NoCell \/ cell.at = 0 THEN {cell}
  ELSE {Info(cell.of, k) : k \in Kinds} \cup {NoCell}

\* mutant: the size of the union is read, whatever the command
SizeOfParams_Union(k) == UnionLen

\* cmd_info.param_len, which a task sets to the size of its own parameters
SizeOfParams(k) == ParamLen[k]

\* The read of cmd_info has ended: too short, too long a parameter, or go on.
\* get_cmd_handle knows every kind, and no other (NoCell).
GotInfo ==
  /\ mpc = "fetch" /\ hdr = NoCell /\ (Len(got) = need \/ rlen = 0)
  /\ IF Len(got) # need THEN mpc' = "clear_len" /\ UNCHANGED <<need, hdr, got>>
     ELSE \E h \in InfoOf(got[1]) :
            IF h = NoCell THEN mpc' = "clear_len" /\ UNCHANGED <<need, hdr, got>>
            ELSE /\ hdr' = h /\ got' = <<>> /\ Reading(SizeOfParams(h.cmd), "fetch")
  /\ UNCHANGED <<ring, cmd_sem, tasks, tmp, status, calls, raced, lost>>

\* The read of the parameters has ended.
GotParams ==
  /\ mpc = "fetch" /\ hdr # NoCell /\ (Len(got) = need \/ rlen = 0)
  /\ mpc' = IF Len(got) = need THEN "handle" ELSE "clear_len"
  /\ UNCHANGED <<ring, cmd_sem, tasks, need, got, tmp, hdr, status, calls, raced, lost>>

\* The pointer that the parameters hold: the last cell is the address of ret.
AnswersTo == got[Len(got)].of
\* The parameters are those of one command, in order.
Framed == got = Params(hdr.of, hdr.cmd)

\* mutant: a handler that returns without storing through p->ret
Answer_NotStored(c, r) == IF hdr.cmd = "disconnect" THEN ret ELSE [ret EXCEPT ![c] = r]

Answer(c, r) == [ret EXCEPT ![c] = r]

\* handle_connect_tcp, handle_disconnect_tcp, handle_send_tcp: *(p->ret) = ...
Handle ==
  /\ mpc = "handle"
  /\ \E r \in {0, 1} :
       ret' = IF AnswersTo \in Clients THEN Answer(AnswersTo, r) ELSE ret
  /\ mpc' = "pend" /\ need' = 0 /\ got' = <<>> /\ hdr' = NoCell
  /\ UNCHANGED <<ring, cmd_sem, cpc, kind, tmp, status, calls, raced, lost>>

\* _clear_rb: ringbuffer_clear as its three stores.
ClearLen ==
  /\ mpc = "clear_len"
  /\ rlen' = 0 /\ mpc' = "clear_in"
  /\ lost' = (lost \/ rlen > 0 \/ hdr # NoCell \/ got # <<>>)
  /\ need' = 0 /\ got' = <<>> /\ hdr' = NoCell
  /\ UNCHANGED <<buf, rin, rout, cmd_sem, tasks, tmp, status, calls, raced>>

ClearIn ==
  /\ mpc = "clear_in"
  /\ rin' = 0 /\ mpc' = "clear_out"
  /\ UNCHANGED <<buf, rout, rlen, cmd_sem, tasks, need, got, tmp, hdr, status, calls, raced, lost>>

ClearOut ==
  /\ mpc = "clear_out"
  /\ rout' = 0 /\ mpc' = "pend"
  /\ UNCHANGED <<buf, rin, rlen, cmd_sem, tasks, need, got, tmp, hdr, status, calls, raced, lost>>

CommandLoop == PendOk \/ PendTimeout \/ Fetch \/ StoreLen \/ GotInfo \/ GotParams
               \/ Handle \/ ClearLen \/ ClearIn \/ ClearOut
dtum35_run == ConfigStage \/ Restart \/ CommandLoop

Next ==
  \/ \E c \in Clients : dtum35_tcp_write(c) \/ dtum35_tcp_connect(c) \/ dtum35_tcp_disconnect(c)
  \/ \E c \in Clients : Write(c) \/ Return(c)
  \/ dtum35_run

Spec == Init /\ [][Next]_vars

\* The OS runs every ready thread; the AT commands the thread waits for have
\* deadlines of their own.
FairSpec == Spec /\ WF_vars(dtum35_run) /\ \A c \in Clients : WF_vars(Write(c)) /\ WF_vars(Return(c))

-----------------------------------------------------------------------------
\* Types; a wait before a restart is looked up inside its table, and the length
\* that the thread has loaded and will store decremented is not 0, nor is
\* the length it reads.
TypeOK ==
  /\ buf \in [0..(Cap - 1) -> Cell \cup {NoCell}]
  /\ rin \in 0..(Cap - 1) /\ rout \in 0..(Cap - 1) /\ rlen \in 0..Cap
  /\ cmd_sem \in Nat
  /\ cpc \in [Clients -> {"idle", "write", "spin"}]
  /\ kind \in [Clients -> Kinds]
  /\ ret \in [Clients -> {0, 1, Pending}]
  /\ mpc \in {"config", "restart", "pend", "fetch", "store", "handle",
              "clear_len", "clear_in", "clear_out"}
  /\ need \in 0..UnionLen /\ got \in Seq(Cell \cup {NoCell}) /\ hdr \in Cell \cup {NoCell}
  /\ tmp \in 0..Cap /\ (mpc = "store" => tmp > 0) /\ (mpc \in {"fetch", "store"} => need > 0)
  /\ wait_time_index \in 0..LastWait
  /\ calls \in Nat /\ raced \in BOOLEAN /\ lost \in BOOLEAN

Unanswered(c) == cpc[c] = "spin" /\ ret[c] = Pending

\* The answer the modem thread is about to store goes to the stack variable of
\* a task that is still waiting in the very call the command came from, as
\* long as no task wrote between two stores of the thread or into room that
\* was gone: a command is never executed twice, never with another command's
\* parameters, and never answered into a frame that is gone (handle_*,
\* dtum35_tcp_*).
AnswerInPlace ==
  mpc = "handle" /\ ~raced =>
    /\ Framed
    /\ Unanswered(hdr.of) /\ kind[hdr.of] = hdr.cmd

\* How far behind out a cell of the buffer lies, and the cells in the ring: one
\* has just been taken and is still counted at "store".
Offset(a) == IF a >= rout THEN a - rout ELSE a - rout + Cap
Count == IF mpc = "store" THEN rlen - 1 ELSE rlen
Held == {a \in 0..(Cap - 1) : Offset(a) < Count}
\* The cmd_infos in the ring.
Infos == {a \in Held : buf[a].at = 0}
QueuedBy(c) == {a \in Infos : buf[a].of = c}
\* A command from whose cells the thread is reading, or which it is handling.
InHandBy(c) ==
  /\ mpc \in {"fetch", "store", "handle"}
  /\ IF hdr # NoCell THEN hdr.of = c ELSE got # <<>> /\ got[1].of = c
\* A token that has been taken and whose command is still in the ring.
TokenTaken == IF mpc = "fetch" /\ hdr = NoCell /\ got = <<>> THEN 1 ELSE 0

\* Until a race or a clear of a ring that was not empty, every task that spins
\* has exactly one command on its way and nobody else has one, and the
\* semaphore counts the commands in the ring: none is lost, duplicated or left
\* without a token (cmd_rb and cmd_sem, dtum35_tcp_* against dtum35_run).
OneCommandEach ==
  ~raced /\ ~lost /\ mpc \notin {"clear_len", "clear_in", "clear_out"} =>
    /\ \A c \in Clients :
         Cardinality(QueuedBy(c)) = IF Unanswered(c) /\ ~InHandBy(c) THEN 1 ELSE 0
    /\ \A c \in Clients : InHandBy(c) => Unanswered(c)
    /\ Cardinality(Infos) = cmd_sem + TokenTaken

\* A call made to a configured modem returns, unless its command was cleared
\* away or garbled by one of the races (do { } while (ret == 0x7F)).
CallReturns ==
  \A c \in Clients :
    (Unanswered(c) /\ mpc \notin {"config", "restart"}) ~> (~Unanswered(c) \/ raced \/ lost)

\* The command ring and its semaphore account for every call.
CallsAccounted == TypeOK /\ OneCommandEach
=============================================================================
