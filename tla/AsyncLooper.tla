---------------------------- MODULE AsyncLooper -----------------------------
(***************************************************************************)
(* src/async: the event loop (looper.c) and its event pool (event.c), in   *)
(* the build with one looper (ASYNC_LOOPER_SIZE 1).                        *)
(*                                                                         *)
(* Tasks call async_event_register, _trigger, _cancel, _set_timeout and    *)
(* async_looper_exit from their own threads (or from a callback, which is  *)
(* one more thread of control here).  All but _set_timeout end in          *)
(* async_notify_loop: a command is written to a ring under looper->lock,   *)
(* and only after the lock is released is looper->sem posted.  The looper  *)
(* thread waits on the semaphore with a timeout, takes one command per     *)
(* token and runs expired events in between.                               *)
(*                                                                         *)
(* A section under looper->lock or async_g_lock is one step.  Callbacks,   *)
(* user data and addition_data are opaque; a callback is its return value. *)
(* free_list and looper->events are sets: no property depends on the order *)
(* in which slots are reused or expired events are visited.                *)
(***************************************************************************)
EXTENDS Integers, Sequences, FiniteSets, TLC

CONSTANTS Task,       \* threads that use the API
          Event,      \* events_pool
          RingBytes,  \* sizeof(looper->buf)
          CmdBytes,   \* sizeof(struct async_looper_command)
          Timeout,    \* timeouts the tasks use
          TimeMod,    \* number of values of os_time_t
          Start,      \* the time at which the model starts
          MaxClock,   \* bound: the clock stops here
          MaxCalls,   \* bound: API calls in a behaviour
          MaxLives    \* bound: times the looper is created

ASSUME RingAssumption == RingBytes \in Nat /\ CmdBytes \in Nat \ {0}
ASSUME TimeAssumption == TimeMod \in Nat \ {0} /\ Timeout \subseteq 0..(TimeMod - 1)
ASSUME BoundAssumption == /\ Start \in Nat /\ MaxClock \in Nat
                          /\ MaxCalls \in Nat /\ MaxLives \in Nat \ {0}
ASSUME PoolAssumption == IsFiniteSet(Task)

VARIABLES
  created,         \* looper->lock and looper->sem are not NULL
  sem,             \* count of looper->sem
  ring,            \* commands in looper->rb
  free,            \* free_list
  listed,          \* looper->events
  timeout, next,   \* event->timeout and event->next_timestamp
  due,             \* history: when an event's timeout really ends
  pc, cmd,         \* the looper thread and the command it is executing
  next_timestamp,  \* local of async_looper_loop
  visiting, scanned, now,  \* locals of async_event_exec_timeout
  wake,            \* when os_pend_sem gives up
  tpc, tcmd,       \* what a task is doing, with which command
  known,           \* handles async_event_register has returned
  exiting,         \* async_looper_exit has been called
  clock, calls, lives

looperVars == <<pc, cmd, next_timestamp, visiting, scanned, now, wake>>
eventVars == <<free, listed, timeout, next, due>>
taskVars == <<tpc, tcmd, known, exiting>>
vars == <<created, sem, ring, eventVars, looperVars, taskVars, clock, calls, lives>>

-----------------------------------------------------------------------------
Time == 0..(TimeMod - 1)
Forever == TimeMod - 1                     \* OS_TIME_FOREVER
os_get_time == clock % TimeMod
\* mutant: the sum is kept in a wider type
Sum_Wide(a, b) == a + b
Sum(a, b) == (a + b) % TimeMod
Earlier(a, b) == IF a < b THEN a ELSE b
RealTime(at) == clock - ((os_get_time - at) % TimeMod)

Command == [type : {"CANCEL", "TRIGGER", "ADD"}, event : Event]
             \cup [type : {"EXIT"}]

\* ringbuffer_write and ringbuffer_read both ask for one command of free space.
HasRoom == RingBytes - Len(ring) * CmdBytes >= CmdBytes

\* A task between list_del and the hand-over of its new event.
Holds(t, e) ==
  /\ tpc[t] \in {"notify", "putback"}
  /\ tcmd[t].type = "ADD" /\ tcmd[t].event = e
Adds(c, e) == c.type = "ADD" /\ c.event = e
InHand(e) == pc = "dispatch" /\ Adds(cmd, e)
Posting == {t \in Task : tpc[t] = "post"}
Token == IF pc = "read" THEN 1 ELSE 0

Init ==
  /\ created = TRUE /\ sem = 0 /\ ring = <<>>
  /\ free = Event /\ listed = {}
  /\ timeout = [e \in Event |-> 0]
  /\ next = [e \in Event |-> 0]
  /\ due = [e \in Event |-> 0]
  /\ pc = "top" /\ cmd = [type |-> "EXIT"]
  /\ next_timestamp = Forever
  /\ visiting = {} /\ scanned = Forever /\ now = 0 /\ wake = 0
  /\ tpc = [t \in Task |-> "idle"]
  /\ tcmd = [t \in Task |-> [type |-> "EXIT"]]
  /\ known = {} /\ exiting = FALSE
  /\ clock = Start /\ calls = 0 /\ lives = 1

-----------------------------------------------------------------------------
(***************************************************************************)
(* The calling tasks.                                                      *)
(***************************************************************************)

\* The caller has filled its command and enters async_notify_loop; a looper that
\* is gone is not called any more.
StartCall(t, c) ==
  /\ tpc[t] = "idle"
  /\ created
  /\ calls < MaxCalls
  /\ calls' = calls + 1
  /\ tpc' = [tpc EXCEPT ![t] = "notify"]
  /\ tcmd' = [tcmd EXCEPT ![t] = c]

\* With free_list empty the call returns an error and changes nothing.
async_event_register(t, e, to) ==
  /\ e \in free
  /\ free' = free \ {e}
  /\ timeout' = [timeout EXCEPT ![e] = to]
  /\ StartCall(t, [type |-> "ADD", event |-> e])
  /\ UNCHANGED <<created, sem, ring, listed, next, due, looperVars, known, exiting, clock, lives>>

async_event_trigger(t, e) ==
  /\ e \in known
  /\ StartCall(t, [type |-> "TRIGGER", event |-> e])
  /\ UNCHANGED <<created, sem, ring, eventVars, looperVars, known, exiting, clock, lives>>

async_event_cancel(t, e) ==
  /\ e \in known
  /\ StartCall(t, [type |-> "CANCEL", event |-> e])
  /\ UNCHANGED <<created, sem, ring, eventVars, looperVars, known, exiting, clock, lives>>

\* One task shuts the looper down, once; the others may be in mid-call.
async_looper_exit(t) ==
  /\ ~exiting
  /\ exiting' = TRUE
  /\ StartCall(t, [type |-> "EXIT"])
  /\ UNCHANGED <<created, sem, ring, eventVars, looperVars, known, clock, lives>>

\* A plain store, under no lock.
async_event_set_timeout(t, e, to) ==
  /\ tpc[t] = "idle" /\ e \in known /\ calls < MaxCalls
  /\ calls' = calls + 1
  /\ timeout' = [timeout EXCEPT ![e] = to]
  /\ UNCHANGED <<created, sem, ring, free, listed, next, due, looperVars, taskVars,
                 clock, lives>>

\* async_notify_loop up to os_unlock_mutex.  Without room the call fails, and
\* register goes on to put the event back.
NotifyWrite(t) ==
  /\ tpc[t] = "notify" /\ created
  /\ \/ /\ HasRoom
        /\ ring' = Append(ring, tcmd[t])
        /\ tpc' = [tpc EXCEPT ![t] = "post"]
     \/ /\ ~HasRoom
        /\ ring' = ring
        /\ tpc' = [tpc EXCEPT ![t] =
                     IF tcmd[t].type = "ADD" THEN "putback" ELSE "idle"]
  /\ UNCHANGED <<created, sem, eventVars, looperVars, tcmd, known, exiting, clock, calls, lives>>

\* mutant: a binary semaphore
NotifyPost_Binary(t) ==
  /\ tpc[t] = "post" /\ created
  /\ sem' = 1
  /\ tpc' = [tpc EXCEPT ![t] = "idle"]
  /\ known' = IF tcmd[t].type = "ADD" THEN known \cup {tcmd[t].event} ELSE known
  /\ UNCHANGED <<created, ring, eventVars, looperVars, tcmd, exiting, clock, calls, lives>>

\* os_post_sem and the successful return.
NotifyPost(t) ==
  /\ tpc[t] = "post" /\ created
  /\ sem' = sem + 1
  /\ tpc' = [tpc EXCEPT ![t] = "idle"]
  /\ known' = IF tcmd[t].type = "ADD" THEN known \cup {tcmd[t].event} ELSE known
  /\ UNCHANGED <<created, ring, eventVars, looperVars, tcmd, exiting, clock, calls, lives>>

PutBack(t) ==
  /\ tpc[t] = "putback"
  /\ free' = free \cup {tcmd[t].event}
  /\ tpc' = [tpc EXCEPT ![t] = "idle"]
  /\ UNCHANGED <<created, sem, ring, listed, timeout, next, due, looperVars, tcmd, known, exiting,
                 clock, calls, lives>>

\* The looper went away during the call: looper->lock or looper->sem is NULL.
NullHandle(t) ==
  /\ tpc[t] \in {"notify", "post"} /\ ~created
  /\ tpc' = [tpc EXCEPT ![t] = "fault"]
  /\ UNCHANGED <<created, sem, ring, eventVars, looperVars, tcmd, known, exiting, clock, calls,
                 lives>>

-----------------------------------------------------------------------------
(***************************************************************************)
(* The looper thread.                                                      *)
(***************************************************************************)

\* Either sleep until next_timestamp, at least one tick, or run the expired
\* events first.
PendUntil(ts) ==
  /\ pc' = "pend"
  /\ wake' = clock + (IF ts <= os_get_time THEN 1 ELSE ts - os_get_time)

LoopTop ==
  /\ pc = "top"
  /\ \/ /\ next_timestamp <= os_get_time
        /\ pc' = "expire"
        /\ visiting' = listed
        /\ scanned' = Forever
        /\ now' = os_get_time
        /\ wake' = wake
     \/ /\ next_timestamp > os_get_time
        /\ PendUntil(next_timestamp)
        /\ UNCHANGED <<visiting, scanned, now>>
  /\ UNCHANGED <<created, sem, ring, eventVars, cmd, next_timestamp, taskVars, clock,
                 calls, lives>>

\* What follows a callback that returned rc for e at time at.
FreeEvent(e) ==
  /\ listed' = listed \ {e}
  /\ free' = free \cup {e}
  /\ UNCHANGED <<timeout, next, due>>

Rearm(e, at) ==
  /\ listed' = listed \cup {e}
  /\ next' = [next EXCEPT ![e] = Sum(at, timeout[e])]
  /\ due' = [due EXCEPT ![e] = RealTime(at) + timeout[e]]
  /\ UNCHANGED <<free, timeout>>

\* mutant: the test of next_timestamp is gone
ExpireOne_Always(e) ==
  /\ pc = "expire" /\ e \in visiting
  /\ visiting' = visiting \ {e}
  /\ Rearm(e, now) /\ scanned' = Earlier(Sum(now, timeout[e]), scanned)
  /\ UNCHANGED <<created, sem, ring, pc, cmd, next_timestamp, now, wake, taskVars, clock,
                 calls, lives>>

\* async_event_exec_timeout, one list entry per step.
ExpireOne(e) ==
  /\ pc = "expire" /\ e \in visiting
  /\ visiting' = visiting \ {e}
  /\ \/ next[e] > now /\ UNCHANGED eventVars /\ scanned' = Earlier(next[e], scanned)
     \/ next[e] <= now /\ FreeEvent(e) /\ scanned' = scanned
     \/ next[e] <= now /\ Rearm(e, now) /\ scanned' = Earlier(Sum(now, timeout[e]), scanned)
  /\ UNCHANGED <<created, sem, ring, pc, cmd, next_timestamp, now, wake, taskVars, clock,
                 calls, lives>>

ExpireDone ==
  /\ pc = "expire" /\ visiting = {}
  /\ next_timestamp' = scanned
  /\ PendUntil(scanned)
  /\ UNCHANGED <<created, sem, ring, eventVars, cmd, visiting, scanned, now, taskVars,
                 clock, calls, lives>>

PendTimeout ==
  /\ pc = "pend" /\ sem = 0 /\ clock >= wake
  /\ pc' = "top"
  /\ UNCHANGED <<created, sem, ring, eventVars, cmd, next_timestamp, visiting, scanned,
                 now, wake, taskVars, clock, calls, lives>>

PendOk ==
  /\ pc = "pend" /\ sem > 0
  /\ sem' = sem - 1
  /\ pc' = "read"
  /\ UNCHANGED <<created, ring, eventVars, cmd, next_timestamp, visiting, scanned, now,
                 wake, taskVars, clock, calls, lives>>

\* mutant: os_clear_sem is forgotten
ReadCommand_KeepsTokens ==
  /\ pc = "read"
  /\ \/ /\ HasRoom /\ ring # <<>>
        /\ cmd' = Head(ring)
        /\ ring' = Tail(ring)
        /\ pc' = "dispatch"
     \/ /\ ~HasRoom \/ ring = <<>>
        /\ ring' = <<>>
        /\ pc' = "top"
        /\ cmd' = cmd
  /\ UNCHANGED <<created, sem, eventVars, next_timestamp, visiting, scanned, now, wake,
                 taskVars, clock, calls, lives>>

\* One command is taken; when ringbuffer_read refuses, because the ring is
\* empty or because it has no room for one more command, everything in the
\* ring and all tokens are thrown away.
ReadCommand ==
  /\ pc = "read"
  /\ \/ /\ HasRoom /\ ring # <<>>
        /\ cmd' = Head(ring)
        /\ ring' = Tail(ring)
        /\ pc' = "dispatch"
        /\ sem' = sem
     \/ /\ ~HasRoom \/ ring = <<>>
        /\ ring' = <<>>
        /\ sem' = 0
        /\ pc' = "top"
        /\ cmd' = cmd
  /\ UNCHANGED <<created, eventVars, next_timestamp, visiting, scanned, now, wake, taskVars,
                 clock, calls, lives>>

Dispatched(type) ==
  /\ pc = "dispatch" /\ cmd.type = type
  /\ pc' = "top"
  /\ UNCHANGED <<created, sem, ring, cmd, visiting, scanned, now, wake, taskVars, clock,
                 calls, lives>>

\* mutant: the looper's own next_timestamp is not lowered
ArmFromNow_KeepsSleep(e) ==
  /\ Rearm(e, os_get_time)
  /\ next_timestamp' = next_timestamp

ArmFromNow(e) ==
  /\ Rearm(e, os_get_time)
  /\ next_timestamp' = Earlier(Sum(os_get_time, timeout[e]), next_timestamp)

\* async_event_exec_trigger: only an event still in the list is called.
DispatchTrigger ==
  LET e == cmd.event
  IN  /\ Dispatched("TRIGGER")
      /\ \/ e \notin listed /\ UNCHANGED <<eventVars, next_timestamp>>
         \/ e \in listed /\ FreeEvent(e) /\ UNCHANGED next_timestamp
         \/ e \in listed /\ ArmFromNow(e)

\* mutant: an event whose first callback ends it is not put back
DispatchAdd_Leaks ==
  LET e == cmd.event
  IN  /\ Dispatched("ADD")
      /\ \/ timeout[e] = 0 /\ UNCHANGED <<eventVars, next_timestamp>>
         \/ ArmFromNow(e)

\* async_event_add_to_looper_event_list: a zero timeout calls back at once.
DispatchAdd ==
  LET e == cmd.event
  IN  /\ Dispatched("ADD")
      /\ \/ timeout[e] = 0 /\ FreeEvent(e) /\ UNCHANGED next_timestamp
         \/ ArmFromNow(e)

\* mutant: the event is freed without being looked up in the list
DispatchCancel_Blind ==
  /\ Dispatched("CANCEL")
  /\ FreeEvent(cmd.event)
  /\ UNCHANGED next_timestamp

\* async_event_free_from_looper_event_list.
DispatchCancel ==
  LET e == cmd.event
  IN  /\ Dispatched("CANCEL")
      /\ \/ e \notin listed /\ UNCHANGED eventVars
         \/ e \in listed /\ FreeEvent(e)
      /\ UNCHANGED next_timestamp

\* async_event_free_all, then lock and sem are destroyed.  The ring keeps
\* whatever was queued behind the command.
DispatchExit ==
  /\ pc = "dispatch" /\ cmd.type = "EXIT"
  /\ pc' = "exited"
  /\ free' = free \cup listed
  /\ listed' = {}
  /\ created' = FALSE
  /\ sem' = 0
  /\ UNCHANGED <<ring, timeout, next, due, cmd, next_timestamp, visiting, scanned, now, wake,
                 taskVars, clock, calls, lives>>

\* async_looper_create and async_looper_loop again.  (When os_create_mutex or
\* os_create_sem fails, create undoes what it did.)
Recreate ==
  /\ pc = "exited" /\ lives < MaxLives
  /\ lives' = lives + 1
  /\ created' = TRUE
  /\ pc' = "top"
  /\ next_timestamp' = Forever
  /\ exiting' = FALSE
  /\ UNCHANGED <<sem, ring, eventVars, cmd, visiting, scanned, now, wake, tpc, tcmd, known,
                 clock, calls>>

Tick ==
  /\ clock < MaxClock
  /\ clock' = clock + 1
  /\ UNCHANGED <<created, sem, ring, eventVars, looperVars, taskVars, calls, lives>>

-----------------------------------------------------------------------------
Call(t) ==
  \/ \E e \in Event, to \in Timeout : async_event_register(t, e, to)
  \/ \E e \in Event : async_event_trigger(t, e)
  \/ \E e \in Event : async_event_cancel(t, e)
  \/ async_looper_exit(t)
  \/ \E e \in Event, to \in Timeout : async_event_set_timeout(t, e, to)

Continue(t) == NotifyWrite(t) \/ NotifyPost(t) \/ PutBack(t) \/ NullHandle(t)

Loop ==
  \/ LoopTop
  \/ \E e \in Event : ExpireOne(e)
  \/ ExpireDone
  \/ PendTimeout
  \/ PendOk
  \/ ReadCommand
  \/ DispatchTrigger
  \/ DispatchAdd
  \/ DispatchCancel
  \/ DispatchExit

Next ==
  \/ \E t \in Task : Call(t) \/ Continue(t)
  \/ Loop
  \/ Recreate
  \/ Tick

Spec == Init /\ [][Next]_vars

\* Tasks and events are interchangeable.
Symmetric == Permutations(Task) \cup Permutations(Event)

\* Every thread is scheduled; nobody has to start a call.
FairSpec ==
  /\ Spec
  /\ WF_vars(Loop)
  /\ \A t \in Task : WF_vars(Continue(t))

-----------------------------------------------------------------------------
\* Every field holds a value of its C type, times are reduced to the width of
\* os_time_t, and only a failed async_event_register puts an event back.
TypeOK ==
  /\ created \in BOOLEAN
  /\ sem \in Nat
  /\ ring \in Seq(Command)
  /\ free \subseteq Event /\ listed \subseteq Event
  /\ timeout \in [Event -> Time]
  /\ next \in [Event -> Time]
  /\ due \in [Event -> Int]
  /\ pc \in {"top", "expire", "pend", "read", "dispatch", "exited"}
  /\ cmd \in Command
  /\ next_timestamp \in Time
  /\ visiting \subseteq Event /\ scanned \in Time /\ now \in Time /\ wake \in Nat
  /\ tpc \in [Task -> {"idle", "notify", "post", "putback", "fault"}]
  /\ tcmd \in [Task -> Command]
  /\ \A t \in Task : tpc[t] = "putback" => tcmd[t].type = "ADD"
  /\ known \subseteq Event /\ exiting \in BOOLEAN
  /\ clock \in Nat /\ calls \in Nat /\ lives \in Nat

\* An event slot has one owner at a time: the free list, the looper's list,
\* one registering task, one ADD command in the ring, or the looper that is
\* executing that command.  Two owners would link one list_head into two
\* lists.
SlotOwnership ==
  /\ free \cap listed = {}
  /\ \A e \in Event :
       /\ e \in free \cup listed =>
            /\ \A i \in 1..Len(ring) : ~Adds(ring[i], e)
            /\ \A t \in Task : ~Holds(t, e)
            /\ ~InHand(e)
       /\ InHand(e) =>
            /\ \A i \in 1..Len(ring) : ~Adds(ring[i], e)
            /\ \A t \in Task : ~Holds(t, e)
       /\ \A i \in 1..Len(ring) : Adds(ring[i], e) =>
            /\ \A j \in 1..Len(ring) : Adds(ring[j], e) => i = j
            /\ \A t \in Task : ~Holds(t, e)
       /\ \A t, u \in Task : Holds(t, e) /\ Holds(u, e) => t = u

\* In the looper's first life every queued command has a wakeup: a token in
\* the semaphore, one just taken by the looper, or one about to be posted by
\* a task that has already written its command.
NoLostWakeup ==
  lives = 1 /\ pc # "exited" =>
    Len(ring) <= sem + Cardinality(Posting) + Token

\* Tokens exceed commands by at most one per task, so the semaphore never
\* comes near the 65535 at which os_post_sem would fail after the command
\* has been queued.
SemBounded ==
  sem + Cardinality(Posting) + Token <= Len(ring) + Cardinality(Task)

\* The looper never sleeps past a deadline: next_timestamp is not later than
\* that of any listed event (of any already scanned one, during a scan).
NoMissedDeadline ==
  /\ pc \notin {"expire", "exited"} => \A e \in listed : next_timestamp <= next[e]
  /\ pc = "expire" => \A e \in listed \ visiting : scanned <= next[e]

\* An event that a scan visits has been called back when it is freed or gets a
\* new deadline.
CalledBack(e) ==
  /\ e \in visiting /\ e \notin visiting'
  /\ e \notin listed' \/ due'[e] # due[e]

\* A timeout callback does not run before the event's timeout has elapsed.
\* Holds while the clock and the timeouts stay clear of the wrap of os_time_t.
NoEarlyTimeout ==
  [][\A e \in Event : CalledBack(e) => clock >= due[e]]_vars

\* An event slot is in the looper's list or back in free_list, or on its way
\* there: in a registering task's hands (a task that faulted took its event
\* with it), in an ADD command, or in the looper's hands.
Accounted(e) ==
  \/ e \in free \cup listed
  \/ \E i \in 1..Len(ring) : Adds(ring[i], e)
  \/ \E t \in Task : Holds(t, e) \/ (tpc[t] = "fault" /\ Adds(tcmd[t], e))
  \/ InHand(e)

\* The looper has a token and finds the ring full: ringbuffer_read refuses, and
\* everything in the ring goes.
WipesRing == pc = "read" /\ ~HasRoom

\* No step loses an event slot that async_event_register took, but the one in
\* which the looper throws a full ring away: failed registrations put the slot
\* back, and what leaves a list, a command or a task's hands arrives somewhere.
NoEventLost ==
  [][WipesRing \/ \A e \in Event : Accounted(e) => Accounted(e)']_vars

Queued(c) == \E i \in 1..Len(ring) : ring[i] = c
Executing(c) == pc = "dispatch" /\ cmd = c

\* What the loop owes its callers in its first life: each command in the ring is
\* executed, and an EXIT in it ends the loop, unless the looper exits before or
\* throws the ring away because it is full.
CommandsTaken ==
  /\ \A c \in Command : Queued(c) ~> (Executing(c) \/ ~created \/ WipesRing)
  /\ Queued([type |-> "EXIT"]) ~> (~created \/ WipesRing)
=============================================================================
