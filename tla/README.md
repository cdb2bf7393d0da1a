# Formal models of embedded_template

TLA+ models of this repository, TLC runs that check them on small instances,
and TLAPS proofs of the main invariants for every instance. `PROJECT.json`
lists components, runs, mutants, the mapping from definitions to source lines,
findings, hazards and theorems. Paths below are relative to the repository's
`src/` directory.

## 1. The system

The repository is a toolbox for small controllers: an event loop, a byte ring,
an allocator, an MQTT client over a GSM modem, bus and device drivers, an OS
layer for POSIX, FreeRTOS and uC/OS, and an adapted Lua (with tables in
read-only memory and precompiled chunks). What is hard to test sits where
threads or interrupts meet over a ring buffer, where a device fails between
two transfers, and in Lua's compiler and its incremental collector.

| Component | State | Operations | Interacts with | What is hard | What makes it correct |
|---|---|---|---|---|---|
| `ringbuffer` | `buf`, `len`, `in`, `out` | init, clear, put, (try_)write, (try_)read, read until, string reads with prefix, drop | under `async`, `atcmd`, `dtu_m35`; callers lock | wrap, full ring, resynchronisation on strings | it is a bounded FIFO; writes are all or nothing; strings stay framed |
| `async` | event pool, per-looper list, command ring, semaphore | register, trigger, cancel, set_timeout, create, loop, exit | tasks ↔ looper thread over ring and semaphore; callbacks; `platform_os` | two locks, post after unlock, ring full, exit against callers, time wrap | one owner per slot, no lost wakeup, deadlines kept, commands executed |
| `mem_pool` | chain of free segments in the managed memory | add_buffer, malloc, free, two queries | `j1939` | order of frees, exact fit, poison | no overlap, nothing lost, always joined |
| MQTT client | connection flag, packet id, ping flag, handler table | connect, (un)subscribe, publish, disconnect, yield | network (modem), broker, `misc/timer` | late and lost answers, reconnects, id wrap | a success is backed by its own answer; one ping at a time |
| MQTTPacket | transport state of the non-blocking reader | serialise, deserialise, read, readnb | MQTT client | two computations of one length, bytes that trickle in | deserialising undoes serialising; framing survives |
| `dtu_m35` | command ring, semaphore, runtime status | run (modem thread), tcp write, connect, disconnect | clients ↔ modem thread over a ring and a pointer to the caller's stack; `atcmd` | clearing against writing, replies that never come | every call is answered once, by its own command |
| `atcmd` | reply ring, data ring, receive state | receive byte (interrupt or thread), commands, TCP calls | serial port, `dtu_m35` | data arriving amid replies, stale tokens, deadlines | a reply belongs to its command; no data byte is lost |
| `i2c`, `spi`, `hcs12_*` | bus flags, transfer indices | acquire, transfer, interrupt, release | drivers, interrupts | two tasks on one bus, a slave that holds the clock | mutual exclusion, transfers stay in their buffers, every call returns |
| drivers (`ad5259` … `sd2405al`) | copies of chip registers | set up, read, write | `i2c`, `spi`, `gpio` | a failure between two transfers | driver and chip agree; the pins show nothing they should not |
| `misc/timer`, `second_datetime`, `bcd_code`, `pidcontrol` | start and wait time; errors | conversions, countdown | drivers, MQTT client | wraps and boundaries | they compute what they are named for |
| `misc/list.h`, `shell` | pointers; line buffer | list operations and loops; line editing, splitting | everything; terminal | deletion inside a loop; limits of the buffer | both chains agree; the arguments are those typed |
| Lua tables and libraries | array and hash parts | get, set, next, length; match, gsub; sort | virtual machine | in-place rehash, backtracking, comparisons that are no order | a table is a map; the match is the preferred one |
| Lua chunks | buffer | dump for a target, load | compiler, read-only memory | byte order, sizes, alignment | what is loaded is what was dumped |
| Lua compiler and virtual machine | function states; stack, calls, upvalues | parse, generate, execute | tables, collector | jump lists, register allocation, closures over loops | a program computes what it means |
| Lua collector | marks, gray lists, sweep position, string table | single step, barriers, full collection, finalizers, close | virtual machine between any two steps | the program changes what is being marked | nothing reachable is freed, garbage is |
| `platform_os` | semaphore and mutex pools, clock | create, post, pend, time | everything | pool limits, POSIX clock arithmetic | time does not go back |
| `j1939` | frame pool, event | receive callback, looper callback | `async`, `mem_pool`, CAN interrupt | no lock, missing `addition_data` | each frame freed once |
| `rs485_bus`, `gpio`, `mmcsd`, `ringstorage`, `logger` | registers or stubs | — | — | — | — |

The hazards these parts are exposed to, each at its line, are listed in
`PROJECT.json` under `hazards`, with the properties that watch them.

## 2. Modules

| Module | Models | Checked by |
|---|---|---|
| `ByteFifo` | abstract: what a byte ring promises | refined by `RingBuffer` |
| `RingBuffer` | `ringbuffer/ringbuffer.c` | `MCRingBuffer`, `RingBuffer_proofs` |
| `AsyncLooper` | `async/looper.c`, `async/event.c` | `MCAsyncLooper.cfg`, `MCAsyncLooperTimed.cfg`, `AsyncLooper_proofs` |
| `MemPool` | `mem_pool/mem_pool.c` | `MCMemPool`, `MemPool_proofs` |
| `MqttClient` | `mqtt/MQTTClient-C/src/MQTTClient.c` | `MCMqttClient.cfg`, `MCMqttClientLateAck.cfg`, `MqttClient_proofs` |
| `MqttPacket` | `mqtt/MQTTPacket/src/*.c` | `MCMqttPacket`, `MqttPacket_proofs` |
| `DtuM35` | `dtu_m35/dtu_m35.c` | `MCDtuM35.cfg`, `DtuM35_proofs` |
| `AtCmd` | `atcmd/atcmd.c` | `MCAtCmd`, `AtCmd_proofs` |
| `Hcs12I2c` | `platform_hw/hcs12/hcs12_i2c.c` | `MCHcs12I2c.cfg`, `Hcs12I2c_proofs` |
| `SoftBus` | `i2c/softi2c.c`, `spi/softspi.c`, `spi/spi.c` | `MCParts` |
| `Sd2405`, `Pcf212x`, `Dac816x`, `Dac856x`, `Ad5259`, `Hcf4052`, `Ads1015`, `Ltc6804` | the driver of that name in `drivers/` | `MCParts` |
| `SecondDatetime`, `Conversions` | `misc/second_datetime.c`, `misc/bcd_code.c`, `pidcontrol/pidcontrol.c`, `ads8317.c`, millivolts and baud rates | `MCParts` |
| `LinkedList`, `Shell`, `Timer` | `misc/list.h`, `shell/shell.c`, `misc/timer.c` | `MCParts` |
| `LuaTable`, `LuaPattern`, `LuaTableLib` | `lua/ltable.c`, `lua/lstrlib.c`, `lua/ltablib.c` | `MCParts` |
| `LuaDump` | `lua/ldump.c`, `lua/lundump.c`, `lua/lzio.c` | `MCParts` |
| `LuaCode`, `LuaParser`, `LuaVm` | `lua/lcode.c`; `lua/lparser.c`; `lua/lvm.c`, `lua/ldo.c`, `lua/lfunc.c`, `luaG_checkcode` of `lua/ldebug.c` | `MCParts` |
| `LuaReference` | abstract: what a Lua program means | compared with the three above on the programs of `MCParts` |
| `LuaGc` | `lua/lgc.c` with `lstring.c`, `lstate.c`, `lfunc.c` | `MCLuaGc` |

Definitions carry the names of the C functions they translate. Alternatives
named `<definition>_<Change>` next to a definition are deliberate faults: each
breaks the property that watches the definition, and shows that the property
would notice that mistake in the code.

### RingBuffer

The four C fields are four variables; `ret` and `got` record what a call hands
back. One action per function, with any argument, NULL destinations included.
The byte loops become their net effect (`Store`, `Take`, `PopUntil`), because
callers hold their lock around a call. `Contents` reads the ring from `out`; it
is the refinement mapping to `ByteFifo`. The guard of `ringbuffer_read`, which
tests the free space, is modelled as written; it is also what `AsyncLooper`
(`HasRoom`) and `DtuM35` use. The two drop functions, which have no callers,
are left out: they raise a request that is smaller than `len` to `len`
(`ringbuffer.c:240`, `258`), and a larger one makes `len` wrap.

### AsyncLooper

Tasks (`tpc`, `tcmd`) go through an API call in up to three steps: take an
event under `async_g_lock`, write the command under `looper->lock`
(`NotifyWrite`), post the semaphore outside it (`NotifyPost`). A failed
register puts its event back (`PutBack`). A task that finds the looper gone
dereferences NULL (`NullHandle`, state `"fault"`). The looper thread (`pc`) is
`LoopTop`, the scan of expired events one entry per step (`ExpireOne`,
`ExpireDone`), the timed wait (`PendOk`, `PendTimeout`), `ReadCommand` and one
dispatch action per command type. `DispatchExit` and `Recreate` end and renew
its life. Callbacks are their return value, so each callback site has a
disjunct for "keep" and one for "free". A callback that calls the API is a task
that happens to run then. `os_time_t` keeps its width (`TimeMod`), so sums
wrap. `due` is a history variable with the unwrapped deadline. The model's
clock never goes back, as in the FreeRTOS and uC/OS ports.

Left out: the build with several loopers (it adds a list of loopers, and the
same loop for each), and the setters of callback and user data, which are
opaque here.

### MemPool

The chain is sorted by address, so it is a set of segments plus `tail`, what
the last `next` holds. That field matters: appending a freed block leaves it at
`MEM_POOL_POISON` (`mem_pool.c:42-46`), and then a walk faults (`Walk`).
`splite` shows the other peculiarity: an exact fit replaces the rest of the
chain by 0. Callers are assumed to free what they were given, once; buffers are
static and hold at least a header; sizes are reduced modulo `SizeMod`, 2^16.

### MqttClient and MqttPacket

`request` is the API call in progress (the client is single threaded), and
`Cycle` processes one incoming packet: acknowledge it, complete the request if
its type matches, run `keepalive`. `CycleFails` is the early exit when an
acknowledgement cannot be sent, `Expire` the end of the request's timer. `up`
and `down` are the packets on the connection. `NetDrop`, `NetConnect`, `Broker`
and `BrokerPublish` are external: the broker answers every packet at any later
time, and a dropped connection loses any suffix of what is on its way.

`MqttPacket` is one level below: packets are bytes. Serialisers and
deserialisers are operators between messages and byte sequences; the state is
one packet being collected by `MQTTPacket_readnb` from a transport that, at
each call, fails, has nothing, or hands over one byte or the rest. In both
modules `CharSigned` says how the compiler takes `char`, which `readChar`
returns, and `IsMessage` what a caller may pass.

### DtuM35 and AtCmd

In `DtuM35` a task writes a command and posts the semaphore in one critical
section (`Write`), then spins (`Return`). The modem thread accesses the ring
without it, so its read loop (`fetch`, `store`) and its clear (`clear_len`,
`clear_in`, `clear_out`) are single loads and stores with task steps in
between. Cells stand for the words of a command, so a header that is really
the middle of another command can be seen. The answers of the modem are any.
The space check (`Check`) and the write are two critical sections, so two tasks
may both count on the same room (`Fits`).

In `AtCmd` every command of the API is a script of steps (clear, send, expect,
loop), and `Command` is the next of them; `atcmd_recv_serial_byte` is the
receiver's state machine for one byte; `atcmd_recv_tcp` the reader. The modem
answers in order, late or never, with blank lines or not, and mixes a data
frame or an unsolicited line in. A text such as "SEND OK" is one byte; each
byte remembers in `of` where it comes from: which command it answers, or which
byte of the peer's data it is. A send sets its deadline, then sleeps 250 ms for
the prompt: `DeadlinePassed` is the loop of `atcmd.c:374` found or left with the
deadline behind, which the code reports as a success. `DtuM35` sees `AtCmd` as calls that end with
either result, which `CallReturns` of `AtCmd` justifies.

### Buses and drivers

`Hcs12I2c` has the driver's structure (`i2c`), the controller (`regs`) and, per
task, the place in its call. `hcs12_i2c_isr` is the interrupt after a byte,
acknowledged or not; it never has to come. `SoftBus` computes the waveform a
transfer puts on the pins, where the slave may refuse a byte and hold the clock
(`Stretched`), and a listener written from the rules of the bus reads it back.

Each stateful driver has the same four variables: `dev` (its structure), `chip`
(the registers), `job` (the call in progress, one step per transfer, frame or
pin) and `out` (the last answer and history). A transfer may break off after
any byte. `Ltc6804` and `Conversions` are single calls over a set of jobs.

### Lua

`LuaTable` keeps the node vector with its chains, `lastfree` and the array
part, and rehashes by moving nodes in place as the code does. `LuaPattern`
keeps the backtracking matcher with its shared captures; the reference is the
set of all ways to match in order of preference. `str_gsub` replaces by text
(`add_s`); a function or a table in its place (`lstrlib.c:615-634`) is left out.
`LuaTableLib` has quicksort
step by step with both comparisons. `LuaDump` writes and reads bytes.

`LuaCode` and `LuaParser` are functions on the compiler's state `X`; jump lists
run through the instructions as in the code, and the operand limits
(`MAXINDEXRK`, `MAXARG_C`, `LFIELDS_PER_FLUSH`) are constants, set to 2 so that
programs of a few lines pass them. `LuaVm` runs the result, after
`luaG_checkcode` has judged it. `LuaReference` evaluates the syntax tree with
cells and closures; a program is printed to tokens, compiled, run and compared.

`LuaGc` is the collector's `singlestep` with the mutator (stores with their
barriers, allocation, calls, closing of upvalues, coroutines that end) between
any two steps. A pool holds two or three objects besides the main thread and
the globals. `st.bad` collects what `lua_assert` would have caught.

Left out of the Lua models: lines and names for the debugger, the characters of
the lexer, a `\0` inside a string, metatables (but `__gc` and `__mode`), hooks, yields and run-time
errors, limits on counts, memory thresholds, prototypes and environments in the
collector, errors in finalizers, and `legc.c`'s emergency collection.

## 3. Runs

| Run | Bounds | Shows |
|---|---|---|
| `ringbuffer` | capacity 3, 3 byte values, writes of every string up to 2 and some of 4 and 5, requests 0..4, 5 prefixes; no bound on the number of calls | `IndexInv`; the ring implements `ByteFifo` (`RefinesFifo`); a write is whole or nothing, and a string read takes exactly one string (`CallsWhole`) |
| `async_looper` | 2 tasks, 2 events, ring of 100 bytes with 24-byte commands (4 fit, as in the 64-bit build), 5 calls, 2 lives, clock held near its wrap | `SlotOwnership`, `NoLostWakeup`, `SemBounded` with the ring filling up and being wiped |
| `async_timed` | 1 task, 2 events, timeouts 0 and 2, clock 0..3, a ring for 3 commands, 3 calls, which fill it; fairness | `NoMissedDeadline`, `NoEarlyTimeout`, `NoEventLost` (only the wipe of a full ring loses a slot), `CommandsTaken` (every queued command is executed and an EXIT ends the loop, unless the full ring is wiped) |
| `mem_pool` | 3 buffers of 9, 7 and 8 bytes, two adjacent; header 2; requests 0 and 3 (one splits, one fits exactly in places); no bound on the number of calls | `NoOverlap`, `ChainSound`, `BlockLargeEnough`, `Conserved` |
| `mqtt` | 4 requests, QoS 0..2, one incoming message, one timeout, one lost connection, packet ids that wrap at 3 | `ClientSound` (ids in range, one ping); `AnswersTrue` up to the first fault |
| `mqtt_late_ack` | as `mqtt`, QoS 1, no losses | the violation: a late PUBACK acknowledges the next publish |
| `dtu_m35` | 2 tasks, ring of 5 words, commands of 2 and 3 words, 3 calls, 1 failed configuration; fairness | `AnswerInPlace`, `CallsAccounted`, `CallReturns` |
| `atcmd` | 12 plans of commands, each with a modem of its own; reply ring 6, data ring 2, one data frame of 2 bytes, one late answer; fairness | `StreamsWhole`, `OwnAnswer`, `CallReturns` |
| `i2c` | 2 tasks, 4 kinds of calls, 3 calls, counters modulo 3, one repeated try; fairness | `BusSound`, `TransfersTrue`, `CallReturns` |
| `mqtt_packet` | 460 messages of all 14 types, buffer of 132 bytes, so that lengths of one and of two bytes and packets too large occur; fairness | `PacketsTrue`, `GoodPacketRead`, `ReaderFinishes` |
| `parts` | one instance per part, below | `DriversTrue`, `NoGlitch`, `WiresTrue`, `ConversionsTrue`, `LuaDataTrue`, `ProgramsTrue`, `ListsAndLinesTrue` |
| `lua_gc` | 8 pools of two or three objects, one or two registers, sweeping one object per step; fairness; no bound on the number of steps | `HeapSound`, `StringsInterned`, `FinalizersTrue`, `GarbageFreed` |

Why the bounds are enough. A ring of capacity 3 has every relation of `in`,
`out` and `len`, strings cut at every place and requests on both sides of the
capacity; the proofs remove the bound. Five calls fill the looper's ring and
make one more; two tasks are enough for one to sit between write and post while
the other fills the ring or exits. Three segments in a row with both neighbours
free is the largest case `add_segment` distinguishes. Four requests allow
connect, a publish that times out, another one, and a disconnect or second
connect. In `dtu_m35` two commands fit as in the build, the second fills the
ring up to the guard of `ringbuffer_read`, and the clear has a task between any
two of its stores, and two tasks can pass the space check with room for one of
them. In `atcmd` a plan is the longest sequence whose commands
interfere: an answer is late into the next command only. In `i2c` a counter
modulo 3 makes a length of 2 what 255 is in the code. In `lua_gc` an
object, something that refers to it and the main stack or globals are the
parties of every barrier; three are needed for a dead coroutine whose open
upvalue a closure still has.

The instances of `parts`: up to 4 calls of each kind to every chip (6 for the
`dac816x`, 5 for the `hcf4052`), each transfer failing after any
byte; every bit of an LTC6804 answer flipped; dates over four years and around
2068; tables of up to 4 array and 4 hash slots and every order of six keys, two
of which collide; all patterns of up to two items (three behind a capture) over
strings of up to three letters; arrays of up to six; functions dumped for eleven
targets and loaded on seven machines; 23 programs, 725 expressions in three places
each and 19 texts that are no program (in `MCParts`), with six lists of
arguments; every sequence of list
operations on two heads and three entries; every line up to the end of a
seven-byte buffer; a 16-tick clock. These parts compute: nothing interleaves
with them, so what matters is the range of inputs and, for the drivers, the
place of a failure. For dumped chunks and compiled programs the step only takes
the input, and `ProgramsTrue` is about what the operators make of it.

Some models stop when their bounds on calls, requests or the clock are used up,
and a looper that has exited stays so; their runs do not check for deadlock.
That nobody waits forever is what the liveness properties say.

### Conditions

Some properties hold under a condition. The models show that it is needed when
it is lifted, in the property or in the configuration:

* `CallsWhole` says what `ringbuffer.c` does. `ringbuffer_try_read_util` hands
  over the bytes of a ring that holds fewer than asked for, where
  `ringbuffer.h:102` says that it then reads nothing and returns 0. Nothing in
  the repository calls it.
* `CommandsTaken` and `NoEventLost` except one step, named `WipesRing`. A looper
  that finds the ring full gets nothing from `ringbuffer_read`, which tests the
  free space where `ringbuffer.h:92` speaks of the bytes to read, and wipes the
  ring: an ADD goes with its slot, an EXIT that was accepted never happens.
  Three calls fill the ring of the run, so both properties are checked before,
  during and after a wipe.
* `NoLostWakeup` and `CommandsTaken` are about one life. With `MaxLives = 2` a
  command queued behind EXIT survives into the next life, whose semaphore
  starts at 0, and stays queued. EXIT may also run on another task's token and
  destroy the semaphore before its caller posts it.
* `NoEarlyTimeout` needs sums that do not wrap. With `Start = 14`,
  `MaxClock = 17` and a timeout of 3 (clock modulo 16) the deadline wraps to 1
  and the event expires at once; a timeout of `OS_TIME_FOREVER`, which
  `j1939/transport.c:56` uses, wraps at any time.
* `Conserved` exempts an exact fit in front of other segments (`CutsChain`):
  the segments behind it are lost (`mem_pool.c:73`). `Walk` is the fault of
  running into the poison that a block freed at the end leaves behind.
* `AnswersTrue` ends with the first timeout or lost connection: then a late
  acknowledgement answers another request (run `mqtt_late_ack`), and
  `isconnected` outlives its connection.
* `dtu_m35`: `raced` and `lost` mark the races the code leaves open: a task
  that writes between two stores of the modem thread, or into room that another
  task has taken since the check (`dtu_m35.c:399`), and the clear of a ring
  that just got a command (`dtu_m35.c:376`). After any of them a task may spin
  for ever.
* `atcmd`: a data frame empties the reply ring and leaves its tokens (`stale`);
  a ring that overflows loses the byte (`overflow`); an answer still under way
  when the ring is cleared (`quiet`) may pass for the answer to another command.
  A send that meets its deadline in the loop returns 1 (`DeadlinePassed`,
  `expired`): between two replies, and before the first one too, since
  `atcmd_send_tcp` sets the deadline (`atcmd.c:363`) before it sleeps 250 ms
  (`:371`) and tests it first (`:374`); with a timeout of 250 ms or less it
  reports success without having read a line. After a gap in
  the line (`late`) the receiver takes the rest of a frame for a reply, so data
  may be stored as a reply and taken for one (`DataForReply`).
* `i2c`: `hcs12_i2c_write` clears the flag byte that holds `acquired`
  (`hcs12_i2c.c:149`), so another task may come in (`opened`), and what it moves
  is then counted for neither; a length of 255 is one the tick counter never
  passes. `ResultTrue` is exact where `wait_txing` and `wait_rxing` take the
  count, and an upper bound where the call returns: the transfer is still on,
  so interrupts between the count (`hcs12_i2c.c:79`, `:99`) and `release_i2c`
  (`:57`) may move bytes of the caller that the call does not report.
* `mqtt_packet`: the server's serialisers check for up to two bytes too few; a
  packet without a body is never completed by `MQTTPacket_readnb`; empty
  answers in the middle of a length are counted as length bytes.

### Fairness

* `AsyncLooper`: weak fairness of the looper thread and of the rest of a call a
  task has begun (`Continue`). Loop and calls contain no wait other than the
  semaphore and mutexes held for a bounded time, and the OS schedules every
  ready thread. Nothing forces a task to start a call, and time need not
  advance.
* `DtuM35`: weak fairness of the modem thread, of a task's write once it has
  begun a call, and of its return. The modem's answers are any.
* `AtCmd`: weak fairness of the commanding thread only. Its waits time out; the
  modem may never answer.
* `Hcs12I2c`: weak fairness of each task's steps and of the bus becoming free
  after a STOP, strong fairness of `WaitBus`, whose loop samples a bus that
  other masters use. The interrupt need not come.
* `MqttPacket`: strong fairness of the calls that get a byte: a transport that
  is alive hands over something again and again, with any number of empty
  answers between.
* `LuaGc`: weak fairness of the collector's step; `luaC_step` is called from
  every allocation. Without allocations there is no new garbage either.

## 4. Proofs

Eight modules hold theorems, proved for every value of the constants under the
named assumptions of the modules.

* `RingBuffer_proofs`. `IndexSafety`: `TypeOK` and `IndexInv` hold for every
  capacity in 1..65535. `Refinement`: the ring implements `ByteFifo`. `TypeOK`
  alone is not inductive; with `IndexInv` it is. The lemmas `StoreAppends` and
  `TakeRemoves` say what the two loops do to `Contents`, each splitting on
  whether the copied range wraps; every function is then an `Enqueue`, a
  `Dequeue` or a stutter. `WholeCalls`: `CallsWhole`, from the same invariant.
  A loop that stops at a byte is counted by the positions it passes; as these
  have no gap (`Passed`), the count is the position of the first such byte
  (`PopUntilStops`) or of the first difference from the prefix (`Compared`).
* `AsyncLooper_proofs`, for any finite set of tasks, any events, ring and
  command size, timeouts and clock width. `TypeCorrect`. `OwnershipSafety`:
  `SlotOwnership`, inductive once a scan is known to visit listed events only.
  `WakeupSafety` and `TokenBound`: the two sides of the balance between
  commands and tokens, from one invariant (`TokenInv`) that also ties the
  existence of the handles to the looper's state. Wiping the ring is harmless
  for the balance because it clears both. `DeadlineSafety`: `NoMissedDeadline`,
  with the fact that a looper that exited has no listed events. `SlotsKept`:
  `NoEventLost`, step by step from `TypeOK`: the wipe of a full ring is the only
  step that loses a slot. `TimeoutSafety`: `NoEarlyTimeout`, in
  every behaviour in which the clock plus a timeout in use stays below the wrap
  (`ClearOfWrap`); a scan compares with a time read at its start, and
  `set_timeout` may store during the scan.
* `DtuM35_proofs`, for any finite set of tasks, any capacity, any sizes of the
  three commands. `AnswersSafety`: `AnswerInPlace`. `CallsSafety`:
  `CallsAccounted`. The invariant says that the cells in the ring follow one
  another, from where the thread has read to (`Framing`, `Follows`,
  `ReadSoFar`), that each command belongs to one waiting task (`Owners`), and
  that there are as many headers as tokens and waiting tasks (`Accounts`).
  Cells are counted by their distance from `out`, which makes the wrap
  disappear.
* `AtCmd_proofs`, for any plans, frames, capacities and bounds. `StreamsSafety`:
  `StreamsWhole`. `OwnAnswerSafety`: `OwnAnswer`. Four facts carry them, all
  inductive together (`IInv`). `Framing`: as long as no byte is late, the bytes
  under way parse as whole lines and frames, starting from what the receiver's
  state expects (`Path`, `Receiving`), so data is read as data only and replies
  as replies only (`Follow`). `DataHeld`: data bytes are numbered without gap
  through what was delivered, the data ring and the line. `Fresh`: once a
  call has cleared the ring with nothing under way, every answer in the ring,
  on the line or still to come is its own. `Plainness`: what is no answer
  cannot look like a success. `TokensBacked` is inductive with the types; its
  case for `ClearSecond` is where the order in `clear_recv_buffer` matters.
* `MemPool_proofs`. `MemorySafety`: `NoOverlap`, for any buffers and requests.
  The invariant adds that segments are segments and `asked` is a request. Its
  core is `CombineFacts` and `InsertedFacts`: joining never invents a byte. It
  holds despite the cut chain and the poison. `LargeEnough`:
  `BlockLargeEnough`; the assumption that a request plus a header fits in 16
  bits is needed. `ChainSafety`: `ChainSound`, from both invariants above. A
  freed block is thick enough because `BlockLargeEnough`, and joining leaves
  nothing to join because segments are disjoint (`InsertedChain`). It assumes
  `Small`: all buffers within 64K of each other. Otherwise the size of joined
  neighbours wraps (`mem_pool.c:19`), and memory is lost, though never handed
  out twice. `Conservation`: `Conserved`, both halves, under the same
  assumption and from all three invariants. For the bytes, disjointness is what
  makes a new block new, so that an exact fit that cuts nothing is told from
  one that does. For the free size, `HeldCounts` says that the sizes of disjoint
  segments add up to the number of bytes they hold (by a smallest
  counterexample, with finiteness as the invariant `Counted`), and `FreeBelow`
  that under `Small` this sum cannot wrap.
* `Hcs12I2c_proofs`, for any tasks, calls, counter width and number of tries.
  `BusSafety`: `BusSound`, that is exclusion and the bounds of both buffers
  under an interrupt that comes between any two steps, also after its task gave
  up. The invariant adds what neither the task nor the handler checks: whoever
  is inside holds the flag and is alone (`Held`), a released bus has none of
  the handler's flags set (`Quiet`), and a set flag means that there are bytes
  to move (`Pending`). `TransferSafety`: `TransfersTrue`, about late stores,
  the NACK of the last byte, the count when it is taken and, as a bound, when it
  is returned. It adds that the
  driver's index is the number of bytes moved for the task inside (`Carried`)
  and that the controller is told to refuse before the last byte (`Nacking`).
* `MqttClient_proofs`, for any topics, handlers, packet ids, return codes and
  number of requests, messages and faults. `ClientSafety`: `ClientSound`. A
  ping and its answer are one token that moves from `up` to `down`; the
  invariant `Pings` says that there is at most one, and none while
  `ping_outstanding` is clear. `AnswersSafety`: `AnswersTrue`. `waitfor`
  compares packet types only, so what makes its answer the right one is that
  before the first fault at most one packet of a request is on its way, and it
  belongs to the request in progress (`Exchange`). Where `char` is signed there
  is one exception, in the statement too: a refused subscription (`RefusalMissed`,
  section 5). For `isconnected` it also
  takes that no DISCONNECT is left behind a CONNECT or an accepted CONNACK
  (`Linked`). Both are stated with `Absent`, `Once` and `Behind` on queues, and
  the lemmas `Appended`, `Taken` and `Cut` say what the queue operations do to
  them.
* `MqttPacket_proofs`, for any messages that a caller may pass, any buffer and
  either `char`. `PacketsSafety`: `PacketsTrue`, that is the announced length,
  the size check, the contents that come back and the framing. `GoodReads`:
  `GoodPacketRead`. A buffer is described by `Holds`, a sequence occurs in it
  from some position on, so that writing one field after the other and reading
  them back meet in the same facts; `Framed` gives header and length, and there
  is one round trip lemma for each packet type. The encoding of the length is
  four cases; the loops over topic filters are functions whose values are found
  by a smallest counterexample (`Induct`, `Iterated`), since the library's
  induction theorems cannot be used. For the non-blocking reader the invariant
  `Reading` says what was read so far: nothing; the header and some digits of
  the length, with as many attempts counted as digits and empty answers; or a
  prefix of a packet that fits.

Assumptions: capacity and sizes as the C types allow them; timeouts are values
of `os_time_t`; finitely many tasks; frames of 1 to 9 bytes (a length is one
digit in the model); buffers disjoint, at least a header long
and below 2^16; requests that do not wrap with their header; I2C calls with at
least one byte; a positive largest packet id and qualities of service 0 to 2. For packets
(`MessageAssumption`): a string is a C string or a counted one, not both, and
below 2^16 bytes; codes are bytes and ids 16 bit words; a password comes with a
user name, and neither is present but empty; the length is below 2^28.

Only model-checked: everything under fairness (the prover handles neither it
nor `ENABLED`); the invariants of `MCParts` (drivers, wires, conversions, lists
and lines, Lua's data and programs), since their modules declare `RECURSIVE`
operators, in whose presence the prover has no SMT backend; and, for the same
reason, `LuaGc`, whose marking and reachability are recursive.

## 5. What the models show of the code

Besides the conditions above, reading the code closely enough to model it shows
the following. The models take each as written.

* `MQTTPacket`: the deserialisers of acknowledgements and of CONNACK return 1
  for a packet that is too short; the size checks of CONNACK, SUBACK and UNSUBACK
  forget the header and the length (`WrittenFits`); `MQTTstrlen` and
  `writeMQTTString` disagree on a string that is set both ways; SUBACK
  accepts one code more than `maxcount`, SUBSCRIBE and UNSUBSCRIBE ignore it; `bufptr` of `MQTTPacket_readnb` is
  shared by all transports.
* Where `char` is signed, the code 0x80 of a refused subscription is stored as
  -128 (`MQTTSubscribeClient.c:124`), so the comparison with 0x80 in
  `MQTTClient.c:424` fails: the handler is installed and `MQTTSubscribe`
  returns 0.
* Drivers: `hcf4052_get_current_channel` tests `ctrl_a` twice and never
  `ctrl_b`; `pcf212x` passes NULL and the register's value as the length when
  it clears `POR_OVRD` (`:46`), and leaves the interrupt on over half an alarm
  when a `set_alarm` that replaces one breaks off in its first transfer
  (`:157-159`, the exception `ReplacementBroke` of `ArmedLast`; after a failed
  call `AlarmSet` claims nothing);
  position 256 of the `ad5259` wraps to 0; `locked_i2c.c:34` returns 0 exactly
  when the bus is there; `baud << 4` of `hcs12_rs485_bus.c` leaves 16 bits from
  4096 on; the errors of `pidcontrol` wrap at 16 bits.
* `softi2c.c:42-46` waits for a slave that holds SCL with an inverted test: it
  leaves the loop at once while SCL is low, and polls 100 times when it is high.
  A bit, START or STOP that the slave holds the clock over is never on the bus,
  and the master goes on; `I2cWave` says that nothing else is missing.
* `hcs12_i2c.c`: the counter of the wait for a free bus is never incremented.
  The retry of `acquire_i2c` (`:46-51`) sleeps and enters the critical section
  again without having left it, so the task goes on with its interrupts masked.
  The model lets the interrupt come between any two turns, as it does while
  another task runs; the code has no more orders than that.
* Lua: `lvm.c:162` leaves a value on the stack when a read-only table is
  assigned to; an error unblocks the collector wherever it is thrown
  (`ldo.c:98`), also inside a region that blocked it before; a
  userdata that waits for its finalizer is still black after the sweep, and
  giving it a metatable through a weak table runs into an assertion
  (`AssertsHold` excludes exactly that).
* `ldump.c`: a dump that has met a value its target cannot hold neither writes
  nor counts any more, so that the next `Align4` (`:47-50`) loops for ever unless
  the length is a multiple of four (`hangs`); the status that reports the value
  is then never returned. The header does not tell ARM FPA targets apart.
* `timer.c`: `timer_is_expired` compares sums that wrap; `timer_left_ms` does
  not, and `ConversionsTrue` is about the former only before the wrap.
  `platform_posix.h:94` adds the nanoseconds of the clock, and not
  those of the difference, so that time can go back; `:101` never gives a
  destroyed mutex back to its pool.

Hazards that no property covers: the two drop functions (`ringbuffer.c`, no
callers); a stale event handle (`event.c:118`) and `addition_data` that is never
stored (`event.c:139`); a request near 65535 that wraps (`mem_pool.c:94`,
excluded by `RequestAssumption`); reads and writes cut short inside a packet,
PUBREL, an unanswered ping and the handler table of `MQTTClient.c` (`:28`, `:36`,
`:119`, `:222`, `:272`, `:426`); the missing lock of `j1939/transport.c:29`.

## 6. Not modelled

* `j1939`: a skeleton that never assembles a frame, and frees a pointer that
  `async_event_trigger` does not pass on.
* `mmcsd`, `ringstorage`: stubs. `logger`, `gpio`, `rs485_bus` (but its divisor)
  and `hcs12_misc`: register access and output without state of their own.
* `locked_i2c.c`, `locked_spi.c`: a mutex around each call; the first never gets
  to it, see above.
* `bms_mqtt` and the examples: applications; their reconnect loop is part of
  the environment of `MqttClient`.
* `platform_os`: the ports call the operating system; semaphores, mutexes and
  time appear inside the modules that use them.
* Lua: the API of the embedder and the auxiliary, base, io, os, math and debug
  libraries (stack manipulation, argument checks and I/O around the parts that
  are modelled), `string.format`, and what section 2 lists; number formatting
  and floating point are beyond TLC.
* MQTT below the packet in the client: topic matching and the `MQTT_TASK` build.
