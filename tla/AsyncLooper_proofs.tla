------------------------- MODULE AsyncLooper_proofs -------------------------
(***************************************************************************)
(* Invariants of the looper for any number of tasks and events, any ring   *)
(* and command size, any timeouts and any bounds.                          *)
(***************************************************************************)
EXTENDS AsyncLooper, FiniteSetTheorems, TLAPS

-----------------------------------------------------------------------------
(***************************************************************************)
(* Type correctness.                                                       *)
(***************************************************************************)

\* Any integer reduced to the width of os_time_t is a time.
LEMMA ModTime == ASSUME NEW a \in Int PROVE a % TimeMod \in Time
BY TimeAssumption DEF Time

\* Constants and sums of times are times.
LEMMA TimeFacts ==
  /\ TimeMod \in Nat \ {0}
  /\ Forever \in Time
  /\ \A to \in Timeout : to \in Time
  /\ \A a, b \in Time : Earlier(a, b) \in Time /\ Sum(a, b) \in Time
  /\ \A a \in Time : a \in Nat
<1>1. TimeMod \in Nat \ {0} /\ Forever \in Time /\ \A to \in Timeout : to \in Time
  BY TimeAssumption DEF Forever, Time
<1>2. \A a \in Time : a \in Nat
  BY <1>1 DEF Time
<1>3. ASSUME NEW a \in Time, NEW b \in Time
      PROVE  Earlier(a, b) \in Time /\ Sum(a, b) \in Time
  <2>1. a + b \in Int
    BY <1>2
  <2> QED BY <2>1, ModTime DEF Earlier, Sum
<1> QED BY <1>1, <1>2, <1>3

\* What os_get_time returns, and the real time of a past reading.
LEMMA ClockFacts ==
  ASSUME TypeOK
  PROVE  /\ os_get_time \in Time
         /\ \A at \in Time : RealTime(at) \in Int
<1>1. os_get_time \in Time
  BY ModTime DEF TypeOK, os_get_time
<1>2. ASSUME NEW at \in Time PROVE RealTime(at) \in Int
  <2>1. os_get_time - at \in Int
    BY <1>1, TimeFacts
  <2>2. (os_get_time - at) % TimeMod \in Nat
    BY <2>1, ModTime, TimeFacts
  <2> QED BY <2>2 DEF TypeOK, RealTime
<1> QED BY <1>1, <1>2

\* The records the API calls build are commands, and name an event unless EXIT.
LEMMA CommandFacts ==
  /\ \A c \in Command : c.type # "EXIT" => c.event \in Event
  /\ \A e \in Event : /\ [type |-> "ADD", event |-> e] \in Command
                      /\ [type |-> "TRIGGER", event |-> e] \in Command
                      /\ [type |-> "CANCEL", event |-> e] \in Command
  /\ [type |-> "EXIT"] \in Command
<1>1. ASSUME NEW c \in Command, c.type # "EXIT" PROVE c.event \in Event
  <2>1. CASE c \in [type : {"CANCEL", "TRIGGER", "ADD"}, event : Event]
    BY <2>1
  <2>2. CASE c \in [type : {"EXIT"}]
    BY <2>2, <1>1
  <2> QED BY <2>1, <2>2 DEF Command
<1>2. ASSUME NEW e \in Event, NEW ty \in {"CANCEL", "TRIGGER", "ADD"}
      PROVE  [type |-> ty, event |-> e] \in Command
  BY DEF Command
<1>3. [type |-> "EXIT"] \in Command
  <2>1. [type |-> "EXIT"] \in [type : {"EXIT"}]
    OBVIOUS
  <2> QED BY <2>1 DEF Command
<1> QED BY <1>1, <1>2, <1>3

\* The state after async_init and async_looper_create is well typed.
LEMMA InitType == Init => TypeOK
<1> SUFFICES ASSUME Init PROVE TypeOK
  OBVIOUS
<1>1. cmd \in Command /\ tcmd \in [Task -> Command]
  BY CommandFacts DEF Init
<1>2. ring \in Seq(Command)
  BY DEF Init
<1>3. 0 \in Time
  BY TimeAssumption DEF Time
<1>4. /\ timeout \in [Event -> Time] /\ next \in [Event -> Time]
      /\ due \in [Event -> Int]
  BY <1>3 DEF Init
<1>5. /\ tpc \in [Task -> {"idle", "notify", "post", "putback", "fault"}]
      /\ \A t \in Task : tpc[t] = "putback" => tcmd[t].type = "ADD"
  BY DEF Init
<1>6. /\ clock \in Nat /\ calls \in Nat /\ lives \in Nat /\ wake \in Nat /\ sem \in Nat
      /\ next_timestamp \in Time /\ scanned \in Time /\ now \in Time
  BY <1>3, TimeFacts, BoundAssumption DEF Init
<1> QED BY <1>1, <1>2, <1>4, <1>5, <1>6 DEF Init, TypeOK

\* Starting an API call keeps the types.
LEMMA CallType ==
  ASSUME TypeOK, NEW t \in Task, Call(t)
  PROVE  TypeOK'
<1>1. ASSUME NEW c \in Command, StartCall(t, c)
      PROVE  /\ calls' \in Nat
             /\ tpc' \in [Task -> {"idle", "notify", "post", "putback", "fault"}]
             /\ tcmd' \in [Task -> Command]
             /\ \A u \in Task : tpc'[u] = "putback" => tcmd'[u].type = "ADD"
  BY <1>1 DEF StartCall, TypeOK
<1>2. ASSUME NEW e \in Event, NEW to \in Timeout, async_event_register(t, e, to)
      PROVE  TypeOK'
  <2>1. timeout' \in [Event -> Time]
    BY <1>2, TimeFacts DEF async_event_register, TypeOK
  <2> QED BY <1>1, <1>2, <2>1, CommandFacts
          DEF async_event_register, TypeOK, looperVars
<1>3. ASSUME NEW e \in Event, async_event_trigger(t, e) PROVE TypeOK'
  BY <1>1, <1>3, CommandFacts DEF async_event_trigger, TypeOK, looperVars, eventVars
<1>4. ASSUME NEW e \in Event, async_event_cancel(t, e) PROVE TypeOK'
  BY <1>1, <1>4, CommandFacts DEF async_event_cancel, TypeOK, looperVars, eventVars
<1>5. CASE async_looper_exit(t)
  BY <1>1, <1>5, CommandFacts DEF async_looper_exit, TypeOK, looperVars, eventVars
<1>6. ASSUME NEW e \in Event, NEW to \in Timeout, async_event_set_timeout(t, e, to)
      PROVE  TypeOK'
  <2>1. timeout' \in [Event -> Time]
    BY <1>6, TimeFacts DEF async_event_set_timeout, TypeOK
  <2> QED BY <1>6, <2>1 DEF async_event_set_timeout, TypeOK, looperVars, taskVars
<1> QED BY <1>2, <1>3, <1>4, <1>5, <1>6 DEF Call

\* The later steps of an API call keep the types.
LEMMA ContinueType ==
  ASSUME TypeOK, NEW t \in Task, Continue(t)
  PROVE  TypeOK'
<1>1. CASE NotifyWrite(t)
  <2>1. tcmd[t] \in Command
    BY DEF TypeOK
  <2>2. ring' \in Seq(Command)
    <3>1. ring \in Seq(Command)
      BY DEF TypeOK
    <3>2. Append(ring, tcmd[t]) \in Seq(Command)
      BY <2>1, <3>1
    <3>3. ring' = ring \/ ring' = Append(ring, tcmd[t])
      BY <1>1 DEF NotifyWrite
    <3> QED BY <3>1, <3>2, <3>3
  <2>3. /\ tpc' \in [Task -> {"idle", "notify", "post", "putback", "fault"}]
        /\ \A u \in Task : tpc'[u] = "putback" => tcmd'[u].type = "ADD"
    BY <1>1 DEF NotifyWrite, TypeOK
  <2> QED BY <1>1, <2>2, <2>3 DEF NotifyWrite, TypeOK, looperVars, eventVars
<1>2. CASE NotifyPost(t)
  <2>1. tcmd[t].type = "ADD" => tcmd[t].event \in Event
    BY CommandFacts DEF TypeOK
  <2>2. known' \subseteq Event
    BY <1>2, <2>1 DEF NotifyPost, TypeOK
  <2>3. tpc' \in [Task -> {"idle", "notify", "post", "putback", "fault"}]
    BY <1>2 DEF NotifyPost, TypeOK
  <2> QED BY <1>2, <2>2, <2>3 DEF NotifyPost, TypeOK, looperVars, eventVars
<1>3. CASE PutBack(t)
  <2>1. tcmd[t] \in Command /\ tcmd[t].type = "ADD"
    BY <1>3 DEF PutBack, TypeOK
  <2>2. tcmd[t].event \in Event
    BY <2>1, CommandFacts
  <2> QED BY <1>3, <2>2 DEF PutBack, TypeOK, looperVars
<1>4. CASE NullHandle(t)
  BY <1>4 DEF NullHandle, TypeOK, looperVars, eventVars
<1> QED BY <1>1, <1>2, <1>3, <1>4 DEF Continue

\* So does giving an event its next deadline ...
LEMMA RearmType ==
  ASSUME TypeOK, NEW e \in Event, NEW at \in Time, Rearm(e, at)
  PROVE  /\ free' \subseteq Event /\ listed' \subseteq Event
         /\ timeout' \in [Event -> Time]
         /\ next' \in [Event -> Time]
         /\ due' \in [Event -> Int]
         /\ Sum(at, timeout[e]) \in Time
<1>1. timeout[e] \in Time
  BY DEF TypeOK
<1>2. Sum(at, timeout[e]) \in Time /\ RealTime(at) + timeout[e] \in Int
  BY <1>1, TimeFacts, ClockFacts
<1> QED BY <1>2 DEF Rearm, TypeOK

\* ... returning it to free_list ...
LEMMA FreeEventType ==
  ASSUME TypeOK, NEW e \in Event, FreeEvent(e)
  PROVE  /\ free' \subseteq Event /\ listed' \subseteq Event
         /\ timeout' \in [Event -> Time]
         /\ next' \in [Event -> Time]
         /\ due' \in [Event -> Int]
BY DEF FreeEvent, TypeOK

\* ... and computing how long to sleep.
LEMMA PendType ==
  ASSUME TypeOK, NEW ts \in Time, PendUntil(ts)
  PROVE  pc' = "pend" /\ wake' \in Nat
<1>1. os_get_time \in Nat /\ ts \in Nat /\ clock \in Nat
  BY TimeFacts, ClockFacts DEF TypeOK
<1> QED BY <1>1 DEF PendUntil

\* Every step of the looper thread keeps the types.
LEMMA LoopType ==
  ASSUME TypeOK, Loop
  PROVE  TypeOK'
<1>1. CASE LoopTop
  <2>1. os_get_time \in Time /\ Forever \in Time /\ next_timestamp \in Time
    BY TimeFacts, ClockFacts DEF TypeOK
  <2>2. CASE next_timestamp <= os_get_time
    BY <1>1, <2>1, <2>2, TimeFacts DEF LoopTop, TypeOK, eventVars, taskVars
  <2>3. CASE next_timestamp > os_get_time
    <3>1. pc' = "pend" /\ wake' \in Nat /\ UNCHANGED <<visiting, scanned, now>>
      BY <1>1, <2>1, <2>3, TimeFacts, PendType DEF LoopTop
    <3> QED BY <1>1, <3>1 DEF LoopTop, TypeOK, eventVars, taskVars
  <2> QED BY <2>1, <2>2, <2>3, TimeFacts
<1>2. ASSUME NEW e \in Event, ExpireOne(e) PROVE TypeOK'
  <2>1. next[e] \in Time /\ now \in Time /\ scanned \in Time
    BY DEF TypeOK
  <2>2. CASE UNCHANGED eventVars /\ scanned' = Earlier(next[e], scanned)
    BY <1>2, <2>1, <2>2, TimeFacts DEF ExpireOne, TypeOK, eventVars, taskVars
  <2>3. CASE FreeEvent(e) /\ scanned' = scanned
    BY <1>2, <2>1, <2>3, FreeEventType DEF ExpireOne, TypeOK, taskVars
  <2>4. CASE Rearm(e, now) /\ scanned' = Earlier(Sum(now, timeout[e]), scanned)
    <3>1. scanned' \in Time
      BY <2>1, <2>4, RearmType, TimeFacts
    <3> QED BY <1>2, <2>1, <2>4, <3>1, RearmType DEF ExpireOne, TypeOK, taskVars
  <2> QED BY <1>2, <2>2, <2>3, <2>4 DEF ExpireOne
<1>3. CASE ExpireDone
  <2>1. pc' = "pend" /\ wake' \in Nat /\ next_timestamp' \in Time
    BY <1>3, PendType DEF ExpireDone, TypeOK
  <2> QED BY <1>3, <2>1 DEF ExpireDone, TypeOK, eventVars, taskVars
<1>4. CASE PendTimeout
  BY <1>4 DEF PendTimeout, TypeOK, eventVars, taskVars
<1>5. CASE PendOk
  BY <1>5 DEF PendOk, TypeOK, eventVars, taskVars
<1>6. CASE ReadCommand
  <2>1. ring' \in Seq(Command) /\ cmd' \in Command
    <3>1. ring \in Seq(Command) /\ cmd \in Command /\ <<>> \in Seq(Command)
      BY DEF TypeOK
    <3>2. ring # <<>> => Head(ring) \in Command /\ Tail(ring) \in Seq(Command)
      BY <3>1
    <3> QED BY <1>6, <3>1, <3>2 DEF ReadCommand
  <2> QED BY <1>6, <2>1 DEF ReadCommand, TypeOK, eventVars, taskVars
<1>7. ASSUME cmd.type # "EXIT" PROVE cmd.event \in Event
  BY <1>7, CommandFacts DEF TypeOK
<1>8. ASSUME NEW e \in Event, ArmFromNow(e)
      PROVE  /\ free' \subseteq Event /\ listed' \subseteq Event
             /\ timeout' \in [Event -> Time]
             /\ next' \in [Event -> Time]
             /\ due' \in [Event -> Int]
             /\ next_timestamp' \in Time
  <2>1. os_get_time \in Time /\ next_timestamp \in Time
    BY ClockFacts DEF TypeOK
  <2>2. Sum(os_get_time, timeout[e]) \in Time
    BY <1>8, <2>1, RearmType DEF ArmFromNow
  <2> QED BY <1>8, <2>1, <2>2, RearmType, TimeFacts DEF ArmFromNow
<1>9. CASE DispatchTrigger
  <2>1. cmd.event \in Event
    BY <1>7, <1>9 DEF DispatchTrigger, Dispatched
  <2>2. CASE UNCHANGED <<eventVars, next_timestamp>>
    BY <1>9, <2>2 DEF DispatchTrigger, Dispatched, TypeOK, eventVars, taskVars
  <2>3. CASE FreeEvent(cmd.event) /\ UNCHANGED next_timestamp
    BY <1>9, <2>1, <2>3, FreeEventType DEF DispatchTrigger, Dispatched, TypeOK, taskVars
  <2>4. CASE ArmFromNow(cmd.event)
    BY <1>8, <1>9, <2>1, <2>4 DEF DispatchTrigger, Dispatched, TypeOK, taskVars
  <2> QED BY <1>9, <2>2, <2>3, <2>4 DEF DispatchTrigger
<1>10. CASE DispatchAdd
  <2>1. cmd.event \in Event
    BY <1>7, <1>10 DEF DispatchAdd, Dispatched
  <2>2. CASE FreeEvent(cmd.event) /\ UNCHANGED next_timestamp
    BY <1>10, <2>1, <2>2, FreeEventType DEF DispatchAdd, Dispatched, TypeOK, taskVars
  <2>3. CASE ArmFromNow(cmd.event)
    BY <1>8, <1>10, <2>1, <2>3 DEF DispatchAdd, Dispatched, TypeOK, taskVars
  <2> QED BY <1>10, <2>2, <2>3 DEF DispatchAdd
<1>11. CASE DispatchCancel
  <2>1. cmd.event \in Event
    BY <1>7, <1>11 DEF DispatchCancel, Dispatched
  <2>2. CASE UNCHANGED eventVars
    BY <1>11, <2>2 DEF DispatchCancel, Dispatched, TypeOK, eventVars, taskVars
  <2>3. CASE FreeEvent(cmd.event)
    BY <1>11, <2>1, <2>3, FreeEventType DEF DispatchCancel, Dispatched, TypeOK, taskVars
  <2> QED BY <1>11, <2>2, <2>3 DEF DispatchCancel
<1>12. CASE DispatchExit
  BY <1>12 DEF DispatchExit, TypeOK, taskVars
<1> QED
  BY <1>1, <1>2, <1>3, <1>4, <1>5, <1>6, <1>9, <1>10, <1>11, <1>12 DEF Loop

\* TypeOK is inductive.
LEMMA TypeStep == TypeOK /\ [Next]_vars => TypeOK'
<1> SUFFICES ASSUME TypeOK, [Next]_vars PROVE TypeOK'
  OBVIOUS
<1>1. ASSUME NEW t \in Task, Call(t) \/ Continue(t) PROVE TypeOK'
  BY <1>1, CallType, ContinueType
<1>2. CASE Recreate
  <2>1. next_timestamp' \in Time /\ lives' \in Nat
    BY <1>2, TimeFacts DEF Recreate, TypeOK
  <2>2. created' \in BOOLEAN /\ exiting' \in BOOLEAN /\ pc' = "top"
    BY <1>2 DEF Recreate
  <2> QED BY <1>2, <2>1, <2>2 DEF Recreate, TypeOK, eventVars
<1>3. CASE Tick
  BY <1>3 DEF Tick, TypeOK, eventVars, looperVars, taskVars
<1>4. CASE UNCHANGED vars
  BY <1>4 DEF vars, TypeOK, eventVars, looperVars, taskVars
<1> QED BY <1>1, <1>2, <1>3, <1>4, LoopType DEF Next

\* Every state of looper.c and event.c is of its type: in particular the
\* semaphore count never goes negative and every command that is taken names
\* a slot of the pool.
THEOREM TypeCorrect == Spec => []TypeOK
BY InitType, TypeStep, PTL DEF Spec

-----------------------------------------------------------------------------
(***************************************************************************)
(* Slot ownership.  It is inductive once the events that a scan still has  *)
(* to visit are known to be in the list.                                   *)
(***************************************************************************)

OwnInv ==
  /\ SlotOwnership
  /\ pc = "expire" => visiting \subseteq listed

\* A step that gives no event a new owner keeps every event's ownership.
LEMMA OwnKept ==
  ASSUME TypeOK, OwnInv,
         free' = free, listed' = listed, ring' = ring,
         \A t \in Task, e \in Event : Holds(t, e)' => Holds(t, e),
         \A e \in Event : InHand(e)' => InHand(e),
         pc' = "expire" => visiting' \subseteq listed
  PROVE  OwnInv'
BY DEF OwnInv, SlotOwnership

\* An API call takes an event from free_list only, and becomes its one owner.
LEMMA CallOwn ==
  ASSUME TypeOK, OwnInv, NEW t \in Task, Call(t)
  PROVE  OwnInv'
<1>1. ASSUME NEW c, c.type # "ADD", StartCall(t, c)
      PROVE  \A u \in Task, e \in Event : Holds(u, e)' => Holds(u, e)
  BY <1>1 DEF StartCall, Holds, TypeOK
<1>2. ASSUME NEW x \in Event, NEW to \in Timeout, async_event_register(t, x, to)
      PROVE  OwnInv'
  <2>1. /\ x \in free /\ free' = free \ {x}
        /\ UNCHANGED <<listed, ring, pc, cmd, visiting>>
    BY <1>2 DEF async_event_register, looperVars
  <2>2. \A u \in Task, e \in Event :
           Holds(u, e)' => Holds(u, e) \/ (u = t /\ e = x)
    BY <1>2 DEF async_event_register, StartCall, Holds, TypeOK
  <2> QED BY <2>1, <2>2 DEF OwnInv, SlotOwnership, InHand
<1>3. ASSUME NEW e \in Event, async_event_trigger(t, e) PROVE OwnInv'
  <2>1. \A u \in Task, x \in Event : Holds(u, x)' => Holds(u, x)
    BY <1>1, <1>3 DEF async_event_trigger
  <2> QED BY <1>3, <2>1, OwnKept
          DEF async_event_trigger, looperVars, eventVars, InHand, OwnInv
<1>4. ASSUME NEW e \in Event, async_event_cancel(t, e) PROVE OwnInv'
  <2>1. \A u \in Task, x \in Event : Holds(u, x)' => Holds(u, x)
    BY <1>1, <1>4 DEF async_event_cancel
  <2> QED BY <1>4, <2>1, OwnKept
          DEF async_event_cancel, looperVars, eventVars, InHand, OwnInv
<1>5. CASE async_looper_exit(t)
  <2>1. \A u \in Task, x \in Event : Holds(u, x)' => Holds(u, x)
    BY <1>1, <1>5 DEF async_looper_exit
  <2> QED BY <1>5, <2>1, OwnKept
          DEF async_looper_exit, looperVars, eventVars, InHand, OwnInv
<1>6. ASSUME NEW e \in Event, NEW to \in Timeout, async_event_set_timeout(t, e, to)
      PROVE  OwnInv'
  BY <1>6, OwnKept
     DEF async_event_set_timeout, looperVars, taskVars, InHand, Holds, OwnInv
<1> QED BY <1>2, <1>3, <1>4, <1>5, <1>6 DEF Call

\* async_notify_loop hands the event on to the ring, or back.
LEMMA ContinueOwn ==
  ASSUME TypeOK, OwnInv, NEW t \in Task, Continue(t)
  PROVE  OwnInv'
<1>1. CASE NotifyWrite(t) /\ HasRoom
  <2> DEFINE n == Len(ring)
  <2>1. /\ UNCHANGED <<free, listed, pc, cmd, visiting>>
        /\ tpc[t] = "notify"
        /\ ring' = Append(ring, tcmd[t])
    BY <1>1 DEF NotifyWrite, looperVars, eventVars
  <2>2. ring \in Seq(Command) /\ n \in Nat
    BY DEF TypeOK
  <2>3. /\ Len(ring') = n + 1
        /\ ring'[n + 1] = tcmd[t]
        /\ \A i \in 1..n : ring'[i] = ring[i]
    BY <2>1, <2>2
  <2>4. \A u \in Task, e \in Event : Holds(u, e)' => Holds(u, e) /\ u # t
    BY <1>1 DEF NotifyWrite, Holds, TypeOK
  <2>5. \A e \in Event : Adds(ring'[n + 1], e) => Holds(t, e)
    BY <2>1, <2>3 DEF Holds, Adds
  <2>6. \A i \in 1..(n + 1), e \in Event :
           Adds(ring'[i], e) => \/ i \in 1..n /\ Adds(ring[i], e)
                                \/ i = n + 1 /\ Holds(t, e)
    BY <2>2, <2>3, <2>5
  <2> HIDE DEF n
  <2>7. \A e \in Event : InHand(e)' <=> InHand(e)
    BY <2>1 DEF InHand
  <2>8. Len(ring) = n /\ Len(ring') = n + 1
    BY <2>3 DEF n
  <2> QED BY <2>1, <2>2, <2>4, <2>6, <2>7, <2>8 DEF OwnInv, SlotOwnership
<1>2. CASE NotifyWrite(t) /\ ~HasRoom
  <2>1. \A u \in Task, e \in Event : Holds(u, e)' => Holds(u, e)
    BY <1>2 DEF NotifyWrite, Holds, TypeOK
  <2> QED BY <1>2, <2>1, OwnKept
          DEF NotifyWrite, looperVars, eventVars, InHand, OwnInv
<1>3. CASE NotifyPost(t)
  <2>1. \A u \in Task, e \in Event : Holds(u, e)' => Holds(u, e)
    BY <1>3 DEF NotifyPost, Holds, TypeOK
  <2> QED BY <1>3, <2>1, OwnKept
          DEF NotifyPost, looperVars, eventVars, InHand, OwnInv
<1>4. CASE PutBack(t)
  <2> DEFINE x == tcmd[t].event
  <2>1. /\ UNCHANGED <<listed, ring, pc, cmd, visiting>>
        /\ free' = free \cup {x}
        /\ x \in Event
        /\ Holds(t, x)
    BY <1>4, CommandFacts DEF PutBack, looperVars, TypeOK, Holds
  <2>2. \A u \in Task, e \in Event : Holds(u, e)' => Holds(u, e) /\ u # t
    BY <1>4 DEF PutBack, Holds, TypeOK
  <2>3. \A e \in Event : InHand(e)' <=> InHand(e)
    BY <2>1 DEF InHand
  <2> HIDE DEF x
  <2> QED BY <2>1, <2>2, <2>3 DEF OwnInv, SlotOwnership
<1>5. CASE NullHandle(t)
  <2>1. \A u \in Task, e \in Event : Holds(u, e)' => Holds(u, e)
    BY <1>5 DEF NullHandle, Holds, TypeOK
  <2> QED BY <1>5, <2>1, OwnKept
          DEF NullHandle, looperVars, eventVars, InHand, OwnInv
<1> QED BY <1>1, <1>2, <1>3, <1>4, <1>5 DEF Continue

\* A callback that ends its event moves it from the list to free_list, one
\* that keeps it leaves it in the list.
LEMMA CallbackOwn ==
  ASSUME TypeOK, OwnInv, NEW x \in listed,
         FreeEvent(x) \/ \E at \in Time : Rearm(x, at),
         UNCHANGED <<ring, tpc, tcmd>>,
         \A e \in Event : InHand(e)' => InHand(e),
         pc' = "expire" => pc = "expire" /\ visiting' = visiting \ {x}
  PROVE  OwnInv'
<1>1. \/ listed' = listed \ {x} /\ free' = free \cup {x}
      \/ listed' = listed /\ free' = free
  BY DEF FreeEvent, Rearm
<1>2. \A u \in Task, e \in Event : Holds(u, e)' <=> Holds(u, e)
  BY DEF Holds
<1>3. x \in Event /\ x \notin free
  BY DEF TypeOK, OwnInv, SlotOwnership
<1>4. SlotOwnership'
  <2>1. CASE listed' = listed \ {x} /\ free' = free \cup {x}
    BY <1>2, <1>3, <2>1 DEF OwnInv, SlotOwnership
  <2>2. CASE listed' = listed /\ free' = free
    BY <1>2, <2>2 DEF OwnInv, SlotOwnership
  <2> QED BY <1>1, <2>1, <2>2
<1> QED BY <1>1, <1>4 DEF OwnInv

\* The looper takes an event out of the ring before it lists or frees it.
LEMMA LoopOwn ==
  ASSUME TypeOK, OwnInv, Loop
  PROVE  OwnInv'
<1>0. ASSUME UNCHANGED <<tpc, tcmd>>
      PROVE  \A u \in Task, e \in Event : Holds(u, e)' <=> Holds(u, e)
  BY <1>0 DEF Holds
<1>1. CASE LoopTop
  <2>1. pc' # "dispatch" /\ (pc' = "expire" => visiting' \subseteq listed)
    BY <1>1 DEF LoopTop, PendUntil
  <2> QED BY <1>0, <1>1, <2>1, OwnKept DEF LoopTop, eventVars, taskVars, InHand
<1>2. ASSUME NEW x \in Event, ExpireOne(x) PROVE OwnInv'
  <2>1. x \in listed /\ now \in Time
    BY <1>2 DEF ExpireOne, OwnInv, TypeOK
  <2>2. /\ pc = "expire" /\ pc' = pc /\ visiting' = visiting \ {x}
        /\ UNCHANGED <<ring, tpc, tcmd>>
        /\ \A e \in Event : ~InHand(e)'
    BY <1>2 DEF ExpireOne, taskVars, InHand
  <2>3. CASE UNCHANGED eventVars
    BY <1>0, <2>2, <2>3, OwnKept DEF eventVars, OwnInv
  <2>4. CASE FreeEvent(x) \/ Rearm(x, now)
    BY <2>1, <2>2, <2>4, CallbackOwn
  <2> QED BY <1>2, <2>3, <2>4 DEF ExpireOne
<1>3. CASE ExpireDone
  <2>1. pc' = "pend"
    BY <1>3 DEF ExpireDone, PendUntil
  <2> QED BY <1>0, <1>3, <2>1, OwnKept DEF ExpireDone, eventVars, taskVars, InHand
<1>4. CASE PendTimeout
  BY <1>0, <1>4, OwnKept DEF PendTimeout, eventVars, taskVars, InHand
<1>5. CASE PendOk
  BY <1>0, <1>5, OwnKept DEF PendOk, eventVars, taskVars, InHand
<1>6. CASE ReadCommand
  <2>1. /\ UNCHANGED <<free, listed, visiting>>
        /\ pc = "read"
        /\ \A u \in Task, e \in Event : Holds(u, e)' <=> Holds(u, e)
    BY <1>0, <1>6 DEF ReadCommand, eventVars, taskVars
  <2>2. CASE ring' = <<>> /\ pc' = "top"
    BY <2>1, <2>2 DEF OwnInv, SlotOwnership, InHand
  <2>3. CASE /\ ring # <<>>
             /\ cmd' = Head(ring)
             /\ ring' = Tail(ring)
             /\ pc' = "dispatch"
    <3> DEFINE n == Len(ring)
    <3>1. ring \in Seq(Command) /\ n \in Nat /\ n > 0
      BY <2>3 DEF TypeOK
    <3>2. /\ cmd' = ring[1]
          /\ Len(ring') = n - 1
          /\ \A i \in 1..(n - 1) : ring'[i] = ring[i + 1]
      BY <2>3, <3>1
    <3>3. \A e \in Event : InHand(e)' <=> Adds(ring[1], e)
      BY <2>3, <3>2 DEF InHand
    <3>4. \A i \in 1..(n - 1) : \A e \in Event :
             Adds(ring'[i], e) <=> Adds(ring[i + 1], e)
      BY <3>2
    <3> HIDE DEF n
    <3>5. /\ Len(ring) = n /\ Len(ring') = n - 1 /\ 1 \in 1..n
          /\ \A i \in 1..(n - 1) : i + 1 \in 1..n /\ i + 1 # 1
      BY <3>1, <3>2 DEF n
    <3>6. \A e \in Event : Adds(ring[1], e) => \A i \in 1..(n - 1) : ~Adds(ring'[i], e)
      BY <3>4, <3>5 DEF OwnInv, SlotOwnership
    <3>7. SlotOwnership'
      <4>1. ASSUME NEW e \in Event, NEW i \in 1..(n - 1), NEW j \in 1..(n - 1),
                   Adds(ring'[i], e), Adds(ring'[j], e)
            PROVE  i = j
        <5>1. i + 1 = j + 1
          BY <3>4, <3>5, <4>1 DEF OwnInv, SlotOwnership
        <5> QED BY <3>1, <5>1
      <4>2. ASSUME NEW e \in Event, NEW i \in 1..(n - 1), Adds(ring'[i], e)
            PROVE  e \notin free \cup listed /\ \A u \in Task : ~Holds(u, e)
        BY <3>4, <3>5, <4>2 DEF OwnInv, SlotOwnership
      <4>3. ASSUME NEW e \in Event, Adds(ring[1], e)
            PROVE  e \notin free \cup listed /\ \A u \in Task : ~Holds(u, e)
        BY <3>5, <4>3 DEF OwnInv, SlotOwnership
      <4>4. \A e \in Event : e \in free \cup listed => \A u \in Task : ~Holds(u, e)
        BY DEF OwnInv, SlotOwnership
      <4>5. \A e \in Event : \A t, u \in Task : Holds(t, e) /\ Holds(u, e) => t = u
        BY DEF OwnInv, SlotOwnership
      <4>6. free \cap listed = {}
        BY DEF OwnInv, SlotOwnership
      <4> QED
        BY <2>1, <3>3, <3>5, <3>6, <4>1, <4>2, <4>3, <4>4, <4>5, <4>6
        DEF SlotOwnership
    <3> QED BY <2>3, <3>7 DEF OwnInv
  <2> QED BY <1>6, <2>2, <2>3 DEF ReadCommand
<1>7. os_get_time \in Time
  BY ClockFacts
<1>8. CASE DispatchTrigger
  <2>1. /\ pc' = "top" /\ UNCHANGED <<ring, tpc, tcmd>>
        /\ \A e \in Event : ~InHand(e)'
    BY <1>8 DEF DispatchTrigger, Dispatched, taskVars, InHand
  <2>2. CASE cmd.event \notin listed
    BY <1>0, <1>8, <2>1, <2>2, OwnKept DEF DispatchTrigger, eventVars
  <2>3. CASE cmd.event \in listed
    BY <1>7, <1>8, <2>1, <2>3, CallbackOwn DEF DispatchTrigger, ArmFromNow
  <2> QED BY <2>2, <2>3
<1>9. CASE DispatchAdd
  <2> DEFINE x == cmd.event
  <2>1. /\ pc' = "top" /\ UNCHANGED <<ring, tpc, tcmd>>
        /\ \A e \in Event : ~InHand(e)'
    BY <1>9 DEF DispatchAdd, Dispatched, taskVars, InHand
  <2>2. x \in Event /\ InHand(x)
    BY <1>9, CommandFacts DEF DispatchAdd, Dispatched, InHand, Adds, TypeOK
  <2>3. \/ listed' = listed \ {x} /\ free' = free \cup {x}
        \/ listed' = listed \cup {x} /\ free' = free
    BY <1>9 DEF DispatchAdd, FreeEvent, ArmFromNow, Rearm
  <2>4. \A u \in Task, e \in Event : Holds(u, e)' <=> Holds(u, e)
    BY <1>0, <2>1
  <2> HIDE DEF x
  <2>5. SlotOwnership'
    <3>1. CASE listed' = listed \ {x} /\ free' = free \cup {x}
      BY <2>1, <2>2, <2>4, <3>1 DEF OwnInv, SlotOwnership
    <3>2. CASE listed' = listed \cup {x} /\ free' = free
      BY <2>1, <2>2, <2>4, <3>2 DEF OwnInv, SlotOwnership
    <3> QED BY <2>3, <3>1, <3>2
  <2> QED BY <2>1, <2>5 DEF OwnInv
<1>10. CASE DispatchCancel
  <2>1. /\ pc' = "top" /\ UNCHANGED <<ring, tpc, tcmd>>
        /\ \A e \in Event : ~InHand(e)'
    BY <1>10 DEF DispatchCancel, Dispatched, taskVars, InHand
  <2>2. CASE cmd.event \notin listed
    BY <1>0, <1>10, <2>1, <2>2, OwnKept DEF DispatchCancel, eventVars
  <2>3. CASE cmd.event \in listed
    BY <1>10, <2>1, <2>3, CallbackOwn DEF DispatchCancel
  <2> QED BY <2>2, <2>3
<1>11. CASE DispatchExit
  <2>1. /\ pc' = "exited" /\ UNCHANGED <<ring, tpc, tcmd>>
        /\ free' = free \cup listed /\ listed' = {}
        /\ \A e \in Event : ~InHand(e)'
    BY <1>11 DEF DispatchExit, taskVars, InHand
  <2> QED BY <1>0, <2>1 DEF OwnInv, SlotOwnership
<1> QED
  BY <1>1, <1>2, <1>3, <1>4, <1>5, <1>6, <1>8, <1>9, <1>10, <1>11 DEF Loop

\* Initially every event is in free_list.
LEMMA OwnInit == Init => OwnInv
BY DEF Init, OwnInv, SlotOwnership, Holds, InHand

\* OwnInv is inductive, given the types.
LEMMA OwnStep == TypeOK /\ OwnInv /\ [Next]_vars => OwnInv'
<1> SUFFICES ASSUME TypeOK, OwnInv, [Next]_vars PROVE OwnInv'
  OBVIOUS
<1>1. ASSUME NEW t \in Task, Call(t) \/ Continue(t) PROVE OwnInv'
  BY <1>1, CallOwn, ContinueOwn
<1>2. CASE Recreate
  BY <1>2, OwnKept DEF Recreate, eventVars, Holds, InHand
<1>3. CASE Tick
  BY <1>3, OwnKept DEF Tick, eventVars, looperVars, taskVars, Holds, InHand, OwnInv
<1>4. CASE UNCHANGED vars
  BY <1>4, OwnKept DEF vars, eventVars, looperVars, taskVars, Holds, InHand, OwnInv
<1> QED BY <1>1, <1>2, <1>3, <1>4, LoopOwn DEF Next

\* An event slot is never in two places: whatever the tasks call and however
\* they interleave with the looper, with commands wiped, slots reused and the
\* looper exiting and being created again, no list_head of event.c is linked
\* into two lists.
THEOREM OwnershipSafety == Spec => []SlotOwnership
<1>1. OwnInv => SlotOwnership
  BY DEF OwnInv
<1> QED BY InitType, TypeStep, OwnInit, OwnStep, <1>1, PTL DEF Spec

-----------------------------------------------------------------------------
(***************************************************************************)
(* Tokens against commands.  Both bounds need to know when the looper's    *)
(* handles exist; a task that finds them gone drops its token.             *)
(***************************************************************************)

TokenInv ==
  /\ created <=> pc # "exited"
  /\ lives >= 1
  /\ SemBounded
  /\ NoLostWakeup

\* The tasks about to post are finitely many, at most all of them.
LEMMA PostingFacts ==
  /\ IsFiniteSet(Posting)
  /\ Cardinality(Posting) \in Nat
  /\ Cardinality(Task) \in Nat
  /\ Cardinality(Posting) <= Cardinality(Task)
<1>1. Posting \subseteq Task
  BY DEF Posting
<1> QED BY <1>1, PoolAssumption, FS_Subset, FS_CardinalityType

\* Their number stays when no task starts or ends a post,
LEMMA PostingKept ==
  ASSUME \A u \in Task : tpc'[u] = "post" <=> tpc[u] = "post"
  PROVE  Cardinality(Posting)' = Cardinality(Posting)
<1>1. Posting' = Posting
  BY DEF Posting
<1> QED BY <1>1

\* grows by one when a command has been written,
LEMMA PostingBegins ==
  ASSUME TypeOK, NEW t \in Task, tpc[t] # "post", tpc' = [tpc EXCEPT ![t] = "post"]
  PROVE  Cardinality(Posting)' = Cardinality(Posting) + 1
<1>1. Posting' = Posting \cup {t} /\ t \notin Posting
  BY DEF Posting, TypeOK
<1> QED BY <1>1, PostingFacts, FS_AddElement

\* and shrinks by one when its token is posted or dropped.
LEMMA PostingEnds ==
  ASSUME TypeOK, NEW t \in Task, tpc[t] = "post", NEW v, v # "post",
         tpc' = [tpc EXCEPT ![t] = v]
  PROVE  Cardinality(Posting)' = Cardinality(Posting) - 1
<1>1. Posting' = Posting \ {t} /\ t \in Posting
  BY DEF Posting, TypeOK
<1> QED BY <1>1, PostingFacts, FS_RemoveElement

\* A step that leaves tokens, commands and the looper's life alone.
LEMMA TokenKept ==
  ASSUME TypeOK, TokenInv,
         UNCHANGED <<created, sem, ring, lives>>,
         pc' = pc \/ (pc' \notin {"read", "exited"} /\ pc \notin {"read", "exited"}),
         \A u \in Task : tpc'[u] = "post" <=> tpc[u] = "post"
  PROVE  TokenInv'
BY PostingKept DEF TokenInv, SemBounded, NoLostWakeup, Token

\* The tasks' steps keep the balance of tokens and commands.
LEMMA TokenTask ==
  ASSUME TypeOK, TokenInv, NEW t \in Task, Call(t) \/ Continue(t)
  PROVE  TokenInv'
<1> DEFINE p == Cardinality(Posting)
<1>0. p \in Nat /\ Len(ring) \in Nat /\ sem \in Nat /\ Cardinality(Task) \in Nat
  BY PostingFacts DEF TypeOK
<1>1. CASE Call(t)
  <2>1. \A u \in Task : tpc'[u] = "post" <=> tpc[u] = "post"
    BY <1>1 DEF Call, async_event_register, async_event_trigger, async_event_cancel,
                async_looper_exit, async_event_set_timeout, StartCall, taskVars, TypeOK
  <2>2. UNCHANGED <<created, sem, ring, lives, pc>>
    BY <1>1 DEF Call, async_event_register, async_event_trigger, async_event_cancel,
                async_looper_exit, async_event_set_timeout, looperVars
  <2> QED BY <2>1, <2>2, TokenKept
<1>2. CASE NotifyWrite(t) /\ HasRoom
  <2>1. /\ UNCHANGED <<created, sem, lives, pc>>
        /\ Len(ring') = Len(ring) + 1
    BY <1>2 DEF NotifyWrite, looperVars, TypeOK
  <2>2. p' = p + 1
    BY <1>2, PostingBegins DEF NotifyWrite
  <2> HIDE DEF p
  <2>3. p = Cardinality(Posting)
    BY DEF p
  <2> QED BY <1>0, <2>1, <2>2, <2>3 DEF TokenInv, SemBounded, NoLostWakeup, Token, p
<1>3. CASE NotifyWrite(t) /\ ~HasRoom
  <2>1. \A u \in Task : tpc'[u] = "post" <=> tpc[u] = "post"
    BY <1>3 DEF NotifyWrite, TypeOK
  <2> QED BY <1>3, <2>1, TokenKept DEF NotifyWrite, looperVars
<1>4. CASE NotifyPost(t)
  <2>1. UNCHANGED <<created, ring, lives, pc>> /\ sem' = sem + 1
    BY <1>4 DEF NotifyPost, looperVars
  <2>2. p' = p - 1
    BY <1>4, PostingEnds DEF NotifyPost
  <2> QED BY <1>0, <2>1, <2>2 DEF TokenInv, SemBounded, NoLostWakeup, Token
<1>5. CASE PutBack(t)
  <2>1. \A u \in Task : tpc'[u] = "post" <=> tpc[u] = "post"
    BY <1>5 DEF PutBack, TypeOK
  <2> QED BY <1>5, <2>1, TokenKept DEF PutBack, looperVars
<1>6. CASE NullHandle(t)
  <2>1. UNCHANGED <<created, sem, ring, lives, pc>> /\ pc = "exited"
    BY <1>6 DEF NullHandle, looperVars, TokenInv
  <2>2. p' \in {p - 1, p}
    <3>1. CASE tpc[t] = "post"
      BY <1>6, <3>1, PostingEnds DEF NullHandle
    <3>2. CASE tpc[t] = "notify"
      <4>1. \A u \in Task : tpc'[u] = "post" <=> tpc[u] = "post"
        BY <1>6, <3>2 DEF NullHandle, TypeOK
      <4> QED BY <4>1, PostingKept
    <3> QED BY <1>6, <3>1, <3>2 DEF NullHandle
  <2> QED BY <1>0, <2>1, <2>2 DEF TokenInv, SemBounded, NoLostWakeup, Token
<1> QED BY <1>1, <1>2, <1>3, <1>4, <1>5, <1>6 DEF Continue

\* The looper's steps keep it too.
LEMMA TokenLoop ==
  ASSUME TypeOK, TokenInv, Loop
  PROVE  TokenInv'
<1> DEFINE p == Cardinality(Posting)
<1>0. /\ p \in Nat /\ Len(ring) \in Nat /\ sem \in Nat /\ Cardinality(Task) \in Nat
      /\ p <= Cardinality(Task)
  BY PostingFacts DEF TypeOK
<1>1. ASSUME UNCHANGED taskVars
      PROVE  p' = p /\ \A u \in Task : tpc'[u] = "post" <=> tpc[u] = "post"
  BY <1>1, PostingKept DEF taskVars
<1>2. CASE LoopTop
  <2>1. pc' \in {"expire", "pend"} /\ pc = "top"
    BY <1>2 DEF LoopTop, PendUntil
  <2> QED BY <1>1, <1>2, <2>1, TokenKept DEF LoopTop
<1>3. CASE \E e \in Event : ExpireOne(e)
  BY <1>1, <1>3, TokenKept DEF ExpireOne
<1>4. CASE ExpireDone
  <2>1. pc' = "pend" /\ pc = "expire"
    BY <1>4 DEF ExpireDone, PendUntil
  <2> QED BY <1>1, <1>4, <2>1, TokenKept DEF ExpireDone
<1>5. CASE PendTimeout
  BY <1>1, <1>5, TokenKept DEF PendTimeout
<1>6. CASE PendOk
  <2>1. /\ UNCHANGED <<created, ring, lives>> /\ sem' = sem - 1
        /\ pc = "pend" /\ pc' = "read" /\ p' = p
    BY <1>1, <1>6 DEF PendOk
  <2> QED BY <1>0, <2>1 DEF TokenInv, SemBounded, NoLostWakeup, Token
<1>7. CASE ReadCommand
  <2>1. UNCHANGED <<created, lives>> /\ pc = "read" /\ p' = p
    BY <1>1, <1>7 DEF ReadCommand
  <2>2. CASE ring # <<>> /\ ring' = Tail(ring) /\ pc' = "dispatch" /\ sem' = sem
    <3>1. Len(ring') = Len(ring) - 1
      BY <2>2 DEF TypeOK
    <3> QED BY <1>0, <2>1, <2>2, <3>1 DEF TokenInv, SemBounded, NoLostWakeup, Token
  <2>3. CASE ring' = <<>> /\ pc' = "top" /\ sem' = 0
    <3>1. Len(ring') = 0
      BY <2>3
    <3> QED BY <1>0, <2>1, <2>3, <3>1 DEF TokenInv, SemBounded, NoLostWakeup, Token
  <2> QED BY <1>7, <2>2, <2>3 DEF ReadCommand
<1>8. CASE DispatchTrigger \/ DispatchAdd \/ DispatchCancel
  <2>1. pc = "dispatch" /\ pc' = "top" /\ UNCHANGED <<created, sem, ring, lives, taskVars>>
    BY <1>8 DEF DispatchTrigger, DispatchAdd, DispatchCancel, Dispatched
  <2> QED BY <1>1, <2>1, TokenKept
<1>9. CASE DispatchExit
  <2>1. /\ UNCHANGED <<ring, lives>> /\ p' = p /\ sem' = 0
        /\ pc' = "exited" /\ ~created'
    BY <1>1, <1>9 DEF DispatchExit
  <2> QED BY <1>0, <2>1 DEF TokenInv, SemBounded, NoLostWakeup, Token
<1> QED BY <1>2, <1>3, <1>4, <1>5, <1>6, <1>7, <1>8, <1>9 DEF Loop

\* TokenInv is inductive, given the types.
LEMMA TokenStep == TypeOK /\ TokenInv /\ [Next]_vars => TokenInv'
<1> SUFFICES ASSUME TypeOK, TokenInv, [Next]_vars PROVE TokenInv'
  OBVIOUS
<1>1. CASE Recreate
  <2>1. /\ UNCHANGED <<sem, ring, tpc>> /\ pc = "exited" /\ pc' = "top" /\ created'
        /\ lives' = lives + 1
    BY <1>1 DEF Recreate
  <2>2. Cardinality(Posting)' = Cardinality(Posting)
    BY <2>1, PostingKept
  <2>3. lives' > 1 /\ lives' >= 1
    BY <2>1 DEF TokenInv, TypeOK
  <2> QED BY <2>1, <2>2, <2>3 DEF TokenInv, SemBounded, NoLostWakeup, Token
<1>2. CASE Tick
  BY <1>2, TokenKept DEF Tick, looperVars, taskVars
<1>3. CASE UNCHANGED vars
  BY <1>3, TokenKept DEF vars, looperVars, taskVars
<1> QED BY <1>1, <1>2, <1>3, TokenTask, TokenLoop DEF Next

\* Initially there are neither tokens nor commands.
LEMMA TokenInit == Init => TokenInv
<1> SUFFICES ASSUME Init PROVE TokenInv
  OBVIOUS
<1>1. Len(ring) = 0 /\ sem = 0 /\ Token = 0 /\ lives = 1
  BY DEF Init, Token
<1>2. Posting = {}
  BY DEF Init, Posting
<1>3. Cardinality(Posting) = 0
  BY <1>2, FS_EmptySet
<1> QED BY <1>1, <1>3, PostingFacts DEF Init, TokenInv, SemBounded, NoLostWakeup

\* async_notify_loop posts after it has released looper->lock, and the looper
\* throws tokens away when a read fails: still, in the looper's first life,
\* no queued command is ever left without a token, for any number of tasks.
THEOREM WakeupSafety == Spec => []NoLostWakeup
<1>1. TokenInv => NoLostWakeup
  BY DEF TokenInv
<1> QED BY InitType, TypeStep, TokenInit, TokenStep, <1>1, PTL DEF Spec

\* The semaphore of looper.c cannot creep up to its limit: surplus tokens are
\* bounded by the number of tasks, also across async_looper_create.
THEOREM TokenBound == Spec => []SemBounded
<1>1. TokenInv => SemBounded
  BY DEF TokenInv
<1> QED BY InitType, TypeStep, TokenInit, TokenStep, <1>1, PTL DEF Spec

-----------------------------------------------------------------------------
(***************************************************************************)
(* Deadlines.  A looper that is created again starts from OS_TIME_FOREVER, *)
(* which is right because async_event_free_all has emptied its list.       *)
(***************************************************************************)

DeadlineInv ==
  /\ NoMissedDeadline
  /\ pc = "exited" => listed = {}

\* The smaller of two times.
LEMMA EarlierFacts ==
  ASSUME NEW a \in Time, NEW b \in Time
  PROVE  /\ Earlier(a, b) <= a /\ Earlier(a, b) <= b
         /\ \A c \in Time : b <= c => Earlier(a, b) <= c
BY DEF Earlier, Time

\* A step that touches neither the events nor the looper's deadline.
LEMMA DeadlineKept ==
  ASSUME TypeOK, DeadlineInv, UNCHANGED <<listed, next, next_timestamp, scanned, visiting>>,
         pc' = pc \/ (pc' \notin {"expire", "exited"} /\ pc \notin {"expire", "exited"})
  PROVE  DeadlineInv'
BY DEF DeadlineInv, NoMissedDeadline

\* After a trigger or an add, next_timestamp covers the new deadline.
LEMMA DeadlineArmed ==
  ASSUME TypeOK, DeadlineInv, NEW x \in Event, ArmFromNow(x),
         pc \notin {"expire", "exited"}, pc' = "top"
  PROVE  DeadlineInv'
<1> DEFINE d == Sum(os_get_time, timeout[x])
<1>1. d \in Time /\ next_timestamp \in Time /\ \A e \in Event : next[e] \in Time
  BY RearmType, ClockFacts DEF ArmFromNow, TypeOK
<1>2. /\ listed' = listed \cup {x}
      /\ \A e \in Event : next'[e] = IF e = x THEN d ELSE next[e]
      /\ next_timestamp' = Earlier(d, next_timestamp)
  BY DEF ArmFromNow, Rearm, TypeOK
<1> HIDE DEF d
<1>3. ASSUME NEW e \in listed' PROVE next_timestamp' <= next'[e]
  <2>1. e \in Event /\ listed \subseteq Event
    BY <1>2 DEF TypeOK
  <2>2. CASE e = x
    BY <1>1, <1>2, <2>1, <2>2, EarlierFacts
  <2>3. CASE e # x
    <3>1. next_timestamp <= next[e]
      BY <1>2, <2>3 DEF DeadlineInv, NoMissedDeadline
    <3> QED BY <1>1, <1>2, <2>1, <2>3, <3>1, EarlierFacts
  <2> QED BY <2>2, <2>3
<1> QED BY <1>3 DEF DeadlineInv, NoMissedDeadline

\* Visiting one event of async_event_exec_timeout covers its deadline.
LEMMA DeadlineScan ==
  ASSUME TypeOK, DeadlineInv, NEW x \in Event, ExpireOne(x)
  PROVE  DeadlineInv'
<1>0. /\ pc = "expire" /\ pc' = "expire" /\ visiting' = visiting \ {x}
      /\ scanned \in Time /\ now \in Time /\ listed \subseteq Event
      /\ \A e \in Event : next[e] \in Time
      /\ \A e \in listed \ visiting : scanned <= next[e]
  BY DEF ExpireOne, TypeOK, DeadlineInv, NoMissedDeadline
<1>1. CASE UNCHANGED eventVars /\ scanned' = Earlier(next[x], scanned)
  <2>1. ASSUME NEW e \in listed' \ visiting' PROVE scanned' <= next'[e]
    <3>1. /\ e \in listed /\ e \in Event /\ next' = next
          /\ e = x \/ e \in listed \ visiting
      BY <1>0, <1>1 DEF eventVars
    <3> QED BY <1>0, <1>1, <3>1, EarlierFacts
  <2> QED BY <1>0, <2>1 DEF DeadlineInv, NoMissedDeadline
<1>2. CASE FreeEvent(x) /\ scanned' = scanned
  BY <1>0, <1>2 DEF FreeEvent, DeadlineInv, NoMissedDeadline
<1>3. CASE Rearm(x, now) /\ scanned' = Earlier(Sum(now, timeout[x]), scanned)
  <2> DEFINE d == Sum(now, timeout[x])
  <2>1. /\ d \in Time
        /\ listed' = listed \cup {x}
        /\ \A e \in Event : next'[e] = IF e = x THEN d ELSE next[e]
        /\ scanned' = Earlier(d, scanned)
    BY <1>0, <1>3, RearmType DEF Rearm, TypeOK
  <2> HIDE DEF d
  <2>2. ASSUME NEW e \in listed' \ visiting' PROVE scanned' <= next'[e]
    <3>1. e \in Event /\ (e = x \/ e \in listed \ visiting)
      BY <1>0, <2>1
    <3>2. CASE e = x
      BY <1>0, <2>1, <3>1, <3>2, EarlierFacts
    <3>3. CASE e # x
      BY <1>0, <2>1, <3>1, <3>3, EarlierFacts
    <3> QED BY <3>2, <3>3
  <2> QED BY <1>0, <2>2 DEF DeadlineInv, NoMissedDeadline
<1> QED BY <1>1, <1>2, <1>3 DEF ExpireOne

\* Every step of the looper thread keeps the deadlines covered.
LEMMA DeadlineLoop ==
  ASSUME TypeOK, DeadlineInv, Loop
  PROVE  DeadlineInv'
<1>1. CASE LoopTop
  <2>1. CASE pc' = "expire"
    BY <1>1, <2>1 DEF LoopTop, PendUntil, eventVars, DeadlineInv, NoMissedDeadline
  <2>2. CASE pc' = "pend" /\ UNCHANGED <<visiting, scanned>>
    BY <1>1, <2>2, DeadlineKept DEF LoopTop, eventVars
  <2> QED BY <1>1, <2>1, <2>2 DEF LoopTop, PendUntil
<1>2. CASE ExpireDone
  BY <1>2 DEF ExpireDone, PendUntil, eventVars, DeadlineInv, NoMissedDeadline
<1>3. CASE PendTimeout
  BY <1>3, DeadlineKept DEF PendTimeout, eventVars
<1>4. CASE PendOk
  BY <1>4, DeadlineKept DEF PendOk, eventVars
<1>5. CASE ReadCommand
  <2>1. pc = "read" /\ pc' \in {"dispatch", "top"}
    BY <1>5 DEF ReadCommand
  <2> QED BY <1>5, <2>1, DeadlineKept DEF ReadCommand, eventVars
<1>6. ASSUME cmd.type # "EXIT" PROVE cmd.event \in Event
  BY <1>6, CommandFacts DEF TypeOK
<1>7. ASSUME NEW type, Dispatched(type)
      PROVE  pc = "dispatch" /\ pc' = "top" /\ UNCHANGED <<scanned, visiting>>
  BY <1>7 DEF Dispatched
<1>8. ASSUME pc = "dispatch", pc' = "top", FreeEvent(cmd.event), UNCHANGED next_timestamp
      PROVE  DeadlineInv'
  BY <1>8 DEF FreeEvent, DeadlineInv, NoMissedDeadline
<1>9. CASE DispatchTrigger
  <2>1. cmd.event \in Event
    BY <1>6, <1>9 DEF DispatchTrigger, Dispatched
  <2>2. CASE UNCHANGED <<eventVars, next_timestamp>>
    BY <1>7, <1>9, <2>2, DeadlineKept DEF DispatchTrigger, eventVars
  <2>3. CASE FreeEvent(cmd.event) /\ UNCHANGED next_timestamp
    BY <1>7, <1>8, <1>9, <2>3 DEF DispatchTrigger
  <2>4. CASE ArmFromNow(cmd.event)
    BY <1>7, <1>9, <2>1, <2>4, DeadlineArmed DEF DispatchTrigger
  <2> QED BY <1>9, <2>2, <2>3, <2>4 DEF DispatchTrigger
<1>10. CASE DispatchAdd
  <2>1. cmd.event \in Event
    BY <1>6, <1>10 DEF DispatchAdd, Dispatched
  <2>2. CASE FreeEvent(cmd.event) /\ UNCHANGED next_timestamp
    BY <1>7, <1>8, <1>10, <2>2 DEF DispatchAdd
  <2>3. CASE ArmFromNow(cmd.event)
    BY <1>7, <1>10, <2>1, <2>3, DeadlineArmed DEF DispatchAdd
  <2> QED BY <1>10, <2>2, <2>3 DEF DispatchAdd
<1>11. CASE DispatchCancel
  <2>1. CASE UNCHANGED eventVars
    BY <1>7, <1>11, <2>1, DeadlineKept DEF DispatchCancel, eventVars
  <2>2. CASE FreeEvent(cmd.event)
    BY <1>7, <1>8, <1>11, <2>2 DEF DispatchCancel
  <2> QED BY <1>11, <2>1, <2>2 DEF DispatchCancel
<1>12. CASE DispatchExit
  BY <1>12 DEF DispatchExit, DeadlineInv, NoMissedDeadline
<1> QED
  BY <1>1, <1>2, <1>3, <1>4, <1>5, <1>9, <1>10, <1>11, <1>12, DeadlineScan DEF Loop

\* DeadlineInv is inductive, given the types.
LEMMA DeadlineStep == TypeOK /\ DeadlineInv /\ [Next]_vars => DeadlineInv'
<1> SUFFICES ASSUME TypeOK, DeadlineInv, [Next]_vars PROVE DeadlineInv'
  OBVIOUS
<1>1. ASSUME NEW t \in Task, Call(t) PROVE DeadlineInv'
  <2>1. UNCHANGED <<listed, next, looperVars>>
    BY <1>1 DEF Call, async_event_register, async_event_trigger, async_event_cancel,
                async_looper_exit, async_event_set_timeout, eventVars
  <2> QED BY <2>1, DeadlineKept DEF looperVars
<1>2. ASSUME NEW t \in Task, Continue(t) PROVE DeadlineInv'
  <2>1. UNCHANGED <<listed, next, looperVars>>
    BY <1>2 DEF Continue, NotifyWrite, NotifyPost, PutBack, NullHandle, eventVars
  <2> QED BY <2>1, DeadlineKept DEF looperVars
<1>3. CASE Recreate
  BY <1>3 DEF Recreate, eventVars, DeadlineInv, NoMissedDeadline
<1>4. CASE Tick
  BY <1>4, DeadlineKept DEF Tick, eventVars, looperVars
<1>5. CASE UNCHANGED vars
  BY <1>5, DeadlineKept DEF vars, eventVars, looperVars
<1> QED BY <1>1, <1>2, <1>3, <1>4, <1>5, DeadlineLoop DEF Next

\* The looper's next_timestamp never lies behind the deadline of an event in
\* its list, whatever mixture of expiries, triggers, registrations and
\* cancellations produced it: os_pend_sem is never given too long a timeout.
THEOREM DeadlineSafety == Spec => []NoMissedDeadline
<1>1. Init => DeadlineInv
  BY DEF Init, DeadlineInv, NoMissedDeadline
<1>2. DeadlineInv => NoMissedDeadline
  BY DEF DeadlineInv
<1> QED BY InitType, TypeStep, <1>1, <1>2, DeadlineStep, PTL DEF Spec

-----------------------------------------------------------------------------
(***************************************************************************)
(* No slot is lost.  Every step but the one that wipes a full ring keeps   *)
(* each event slot accounted for; TypeOK is the only invariant it needs.   *)
(***************************************************************************)

Kept == \A e \in Event : Accounted(e) => Accounted(e)'

\* A task that has, or had when it faulted, the event.
Carries(t, e) == Holds(t, e) \/ (tpc[t] = "fault" /\ Adds(tcmd[t], e))

\* A step that takes no event from where it is accounted for.
LEMMA AccountedKept ==
  ASSUME TypeOK, ring' = ring,
         \A e \in Event : e \in free \cup listed => e \in free' \cup listed',
         \A t \in Task, e \in Event : Carries(t, e) => Carries(t, e)',
         \A e \in Event : InHand(e) => InHand(e)'
  PROVE  Kept
BY DEF Kept, Accounted, Carries

\* An event that leaves free_list is in the hands of the registering task.
LEMMA CallAccounted ==
  ASSUME TypeOK, NEW t \in Task, Call(t)
  PROVE  Kept
<1>1. ASSUME NEW c, StartCall(t, c)
      PROVE  \A u \in Task, e \in Event : Carries(u, e) => Carries(u, e)'
  BY <1>1 DEF StartCall, Carries, Holds, TypeOK
<1>2. ASSUME NEW x \in Event, NEW to \in Timeout, async_event_register(t, x, to)
      PROVE  Kept
  <2>1. /\ free' = free \ {x}
        /\ UNCHANGED <<listed, ring, pc, cmd>>
    BY <1>2 DEF async_event_register, looperVars
  <2>2. Holds(t, x)'
    BY <1>2 DEF async_event_register, StartCall, Holds, TypeOK
  <2>3. \A u \in Task, e \in Event : Carries(u, e) => Carries(u, e)'
    BY <1>1, <1>2 DEF async_event_register
  <2>4. \A e \in Event : InHand(e)' <=> InHand(e)
    BY <2>1 DEF InHand
  <2> QED BY <2>1, <2>2, <2>3, <2>4 DEF Kept, Accounted, Carries
<1>3. ASSUME NEW c, StartCall(t, c), UNCHANGED <<ring, free, listed, pc, cmd>>
      PROVE  Kept
  <2>1. \A u \in Task, e \in Event : Carries(u, e) => Carries(u, e)'
    BY <1>1, <1>3
  <2> QED BY <1>3, <2>1, AccountedKept DEF InHand
<1>4. ASSUME NEW e \in Event, async_event_trigger(t, e) PROVE Kept
  BY <1>3, <1>4 DEF async_event_trigger, looperVars, eventVars
<1>5. ASSUME NEW e \in Event, async_event_cancel(t, e) PROVE Kept
  BY <1>3, <1>5 DEF async_event_cancel, looperVars, eventVars
<1>6. CASE async_looper_exit(t)
  BY <1>3, <1>6 DEF async_looper_exit, looperVars, eventVars
<1>7. ASSUME NEW e \in Event, NEW to \in Timeout, async_event_set_timeout(t, e, to)
      PROVE  Kept
  BY <1>7, AccountedKept
     DEF async_event_set_timeout, looperVars, taskVars, InHand, Carries, Holds
<1> QED BY <1>2, <1>4, <1>5, <1>6, <1>7 DEF Call

\* The task's event goes into the ring or back to free_list; only a task that
\* faults keeps it.
LEMMA ContinueAccounted ==
  ASSUME TypeOK, NEW t \in Task, Continue(t)
  PROVE  Kept
<1>1. CASE NotifyWrite(t) /\ HasRoom
  <2> DEFINE n == Len(ring)
  <2>1. /\ UNCHANGED <<free, listed, pc, cmd>>
        /\ tpc[t] = "notify"
        /\ ring' = Append(ring, tcmd[t])
    BY <1>1 DEF NotifyWrite, looperVars, eventVars
  <2>2. ring \in Seq(Command) /\ n \in Nat
    BY DEF TypeOK
  <2>3. /\ Len(ring') = n + 1
        /\ ring'[n + 1] = tcmd[t]
        /\ \A i \in 1..n : ring'[i] = ring[i]
    BY <2>1, <2>2
  <2>4. \A u \in Task, e \in Event : Carries(u, e) /\ u # t => Carries(u, e)'
    BY <1>1 DEF NotifyWrite, Carries, Holds, TypeOK
  <2>5. \A e \in Event : Carries(t, e) => Adds(ring'[n + 1], e)
    BY <2>1, <2>3 DEF Carries, Holds, Adds
  <2>6. \A e \in Event : InHand(e)' <=> InHand(e)
    BY <2>1 DEF InHand
  <2> HIDE DEF n
  <2>7. /\ Len(ring) = n /\ Len(ring') = n + 1 /\ n + 1 \in 1..(n + 1)
        /\ \A i \in 1..n : i \in 1..(n + 1)
    BY <2>2, <2>3 DEF n
  <2>8. ASSUME NEW e \in Event, Accounted(e) PROVE Accounted(e)'
    <3>1. CASE e \in free \cup listed \/ InHand(e)
      BY <2>1, <2>6, <3>1 DEF Accounted
    <3>2. ASSUME NEW i \in 1..n, Adds(ring[i], e) PROVE Accounted(e)'
      BY <2>3, <2>7, <3>2 DEF Accounted
    <3>3. ASSUME NEW u \in Task, Carries(u, e) PROVE Accounted(e)'
      BY <2>4, <2>5, <2>7, <3>3 DEF Accounted, Carries
    <3> QED BY <2>7, <2>8, <3>1, <3>2, <3>3 DEF Accounted, Carries
  <2> QED BY <2>8 DEF Kept
<1>2. CASE NotifyWrite(t) /\ ~HasRoom
  <2>1. \A u \in Task, e \in Event : Carries(u, e) => Carries(u, e)'
    BY <1>2 DEF NotifyWrite, Carries, Holds, TypeOK
  <2> QED BY <1>2, <2>1, AccountedKept DEF NotifyWrite, looperVars, eventVars, InHand
<1>3. CASE NotifyPost(t)
  <2>1. \A u \in Task, e \in Event : Carries(u, e) => Carries(u, e)'
    BY <1>3 DEF NotifyPost, Carries, Holds, TypeOK
  <2> QED BY <1>3, <2>1, AccountedKept DEF NotifyPost, looperVars, eventVars, InHand
<1>4. CASE PutBack(t)
  <2>1. /\ UNCHANGED <<listed, ring, pc, cmd>>
        /\ free' = free \cup {tcmd[t].event}
    BY <1>4 DEF PutBack, looperVars
  <2>2. \A u \in Task, e \in Event :
           Carries(u, e) => Carries(u, e)' \/ e = tcmd[t].event
    BY <1>4 DEF PutBack, Carries, Holds, TypeOK
  <2>3. \A e \in Event : InHand(e)' <=> InHand(e)
    BY <2>1 DEF InHand
  <2> QED BY <2>1, <2>2, <2>3 DEF Kept, Accounted, Carries
<1>5. CASE NullHandle(t)
  <2>1. \A u \in Task, e \in Event : Carries(u, e) => Carries(u, e)'
    BY <1>5 DEF NullHandle, Carries, Holds, Adds, TypeOK
  <2> QED BY <1>5, <2>1, AccountedKept DEF NullHandle, looperVars, eventVars, InHand
<1> QED BY <1>1, <1>2, <1>3, <1>4, <1>5 DEF Continue

\* ringbuffer_read hands the first command to the looper; with room for a
\* command it refuses an empty ring only, and wiping that loses nothing.
LEMMA ReadAccounted ==
  ASSUME TypeOK, HasRoom, ReadCommand
  PROVE  Kept
<1>1. /\ UNCHANGED <<free, listed, tpc, tcmd>>
      /\ pc = "read"
  BY DEF ReadCommand, eventVars, taskVars
<1>2. \A u \in Task, e \in Event : Carries(u, e)' <=> Carries(u, e)
  BY <1>1 DEF Carries, Holds
<1>3. CASE ring = <<>> /\ ring' = <<>>
  BY <1>1, <1>2, <1>3, AccountedKept DEF InHand
<1>4. CASE /\ ring # <<>>
           /\ cmd' = Head(ring)
           /\ ring' = Tail(ring)
           /\ pc' = "dispatch"
  <2> DEFINE n == Len(ring)
  <2>1. ring \in Seq(Command) /\ n \in Nat /\ n > 0
    BY <1>4 DEF TypeOK
  <2>2. /\ cmd' = ring[1]
        /\ Len(ring') = n - 1
        /\ \A i \in 1..(n - 1) : ring'[i] = ring[i + 1]
    BY <1>4, <2>1
  <2>3. \A e \in Event : InHand(e)' <=> Adds(ring[1], e)
    BY <1>4, <2>2 DEF InHand
  <2>4. ASSUME NEW e \in Event, NEW i \in 1..n, Adds(ring[i], e) PROVE Accounted(e)'
    <3>1. CASE i = 1
      BY <2>3, <2>4, <3>1 DEF Accounted
    <3>2. CASE i # 1
      <4>1. i - 1 \in 1..(n - 1) /\ (i - 1) + 1 = i
        BY <2>1, <3>2
      <4>2. Adds(ring'[i - 1], e)
        BY <2>2, <2>4, <4>1
      <4> QED BY <2>2, <4>1, <4>2 DEF Accounted
    <3> QED BY <3>1, <3>2
  <2>5. \A e \in Event : ~InHand(e)
    BY <1>1 DEF InHand
  <2> QED BY <1>1, <1>2, <2>4, <2>5 DEF Kept, Accounted, Carries
<1> QED BY <1>3, <1>4 DEF ReadCommand

\* A command the looper dispatches leaves its event listed or free.
LEMMA LoopAccounted ==
  ASSUME TypeOK, ~WipesRing, Loop
  PROVE  Kept
<1>1. ASSUME UNCHANGED <<ring, free, listed, tpc, tcmd>>, pc # "dispatch"
      PROVE  Kept
  BY <1>1, AccountedKept DEF Carries, Holds, InHand
<1>2. ASSUME NEW x \in Event, UNCHANGED <<ring, tpc, tcmd>>,
             FreeEvent(x) \/ \E at \in Time : Rearm(x, at),
             \A e \in Event : InHand(e) => e = x
      PROVE  Kept
  <2>1. /\ \A e \in free \cup listed : e \in free' \cup listed'
        /\ x \in free' \cup listed'
    BY <1>2 DEF FreeEvent, Rearm
  <2>2. \A u \in Task, e \in Event : Carries(u, e)' <=> Carries(u, e)
    BY <1>2 DEF Carries, Holds
  <2> QED BY <1>2, <2>1, <2>2 DEF Kept, Accounted, Carries
<1>3. CASE LoopTop
  BY <1>1, <1>3 DEF LoopTop, eventVars, taskVars
<1>4. ASSUME NEW x \in Event, ExpireOne(x) PROVE Kept
  <2>1. /\ pc = "expire" /\ now \in Time /\ UNCHANGED <<ring, tpc, tcmd>>
    BY <1>4 DEF ExpireOne, TypeOK, taskVars
  <2>2. CASE UNCHANGED eventVars
    BY <1>1, <2>1, <2>2 DEF eventVars
  <2>3. CASE FreeEvent(x) \/ Rearm(x, now)
    BY <1>2, <2>1, <2>3 DEF InHand
  <2> QED BY <1>4, <2>2, <2>3 DEF ExpireOne
<1>5. CASE ExpireDone
  BY <1>1, <1>5 DEF ExpireDone, eventVars, taskVars
<1>6. CASE PendTimeout
  BY <1>1, <1>6 DEF PendTimeout, eventVars, taskVars
<1>7. CASE PendOk
  BY <1>1, <1>7 DEF PendOk, eventVars, taskVars
<1>8. CASE ReadCommand
  BY <1>8, ReadAccounted DEF WipesRing, ReadCommand
<1>9. ASSUME NEW type, Dispatched(type)
      PROVE  /\ UNCHANGED <<ring, tpc, tcmd>>
             /\ type # "ADD" => \A e \in Event : ~InHand(e)
             /\ type = "ADD" => \A e \in Event : InHand(e) => e = cmd.event
             /\ type # "EXIT" => cmd.event \in Event
  BY <1>9, CommandFacts DEF Dispatched, taskVars, InHand, Adds, TypeOK
<1>10. ASSUME UNCHANGED <<ring, tpc, tcmd, free, listed>>, \A e \in Event : ~InHand(e)
       PROVE  Kept
  BY <1>10, AccountedKept DEF Carries, Holds
<1>11. os_get_time \in Time
  BY ClockFacts
<1>12. CASE DispatchTrigger
  <2>1. CASE UNCHANGED eventVars
    BY <1>9, <1>10, <1>12, <2>1 DEF DispatchTrigger, eventVars
  <2>2. CASE FreeEvent(cmd.event) \/ ArmFromNow(cmd.event)
    BY <1>2, <1>9, <1>11, <1>12, <2>2 DEF DispatchTrigger, ArmFromNow
  <2> QED BY <1>12, <2>1, <2>2 DEF DispatchTrigger
<1>13. CASE DispatchAdd
  BY <1>2, <1>9, <1>11, <1>13 DEF DispatchAdd, ArmFromNow
<1>14. CASE DispatchCancel
  <2>1. CASE UNCHANGED eventVars
    BY <1>9, <1>10, <1>14, <2>1 DEF DispatchCancel, eventVars
  <2>2. CASE FreeEvent(cmd.event)
    BY <1>2, <1>9, <1>14, <2>2 DEF DispatchCancel
  <2> QED BY <1>14, <2>1, <2>2 DEF DispatchCancel
<1>15. CASE DispatchExit
  <2>1. /\ UNCHANGED <<ring, tpc, tcmd>>
        /\ free' = free \cup listed /\ listed' = {}
        /\ \A e \in Event : ~InHand(e)
    BY <1>15 DEF DispatchExit, taskVars, InHand, Adds
  <2> QED BY <2>1, AccountedKept DEF Carries, Holds
<1> QED
  BY <1>3, <1>4, <1>5, <1>6, <1>7, <1>8, <1>12, <1>13, <1>14, <1>15 DEF Loop

\* Any step but the wipe of a full ring.
LEMMA AccountedStep == TypeOK /\ [Next]_vars => WipesRing \/ Kept
<1> SUFFICES ASSUME TypeOK, [Next]_vars, ~WipesRing PROVE Kept
  OBVIOUS
<1>1. ASSUME UNCHANGED <<ring, free, listed, tpc, tcmd>>,
             \A e \in Event : InHand(e) => InHand(e)'
      PROVE  Kept
  BY <1>1, AccountedKept DEF Carries, Holds
<1>2. CASE Recreate
  BY <1>1, <1>2 DEF Recreate, eventVars, InHand
<1>3. CASE Tick
  BY <1>1, <1>3 DEF Tick, eventVars, looperVars, taskVars, InHand
<1>4. CASE UNCHANGED vars
  BY <1>1, <1>4 DEF vars, eventVars, looperVars, taskVars, InHand
<1> QED BY <1>2, <1>3, <1>4, CallAccounted, ContinueAccounted, LoopAccounted DEF Next

\* Every event slot stays accounted for, through failed registrations,
\* callbacks, cancellations, the looper's exit and its next life.  A full ring,
\* which async_notify_loop allows and ringbuffer_read then refuses to read, is
\* the only way in which a slot is lost to anything but a faulting task.
THEOREM SlotsKept == Spec => NoEventLost
<1>1. TypeOK /\ [Next]_vars => [WipesRing \/ Kept]_vars
  BY AccountedStep
<1> QED BY InitType, TypeStep, <1>1, PTL DEF Spec, NoEventLost, Kept

-----------------------------------------------------------------------------
(***************************************************************************)
(* No callback comes early.  While no deadline wraps, the reduced time     *)
(* next_timestamp of a listed event is its real deadline, and the time     *)
(* that a scan compares it with was read at the start of the scan.         *)
(***************************************************************************)

ClearOfWrap == \A e \in Event : clock + timeout[e] < TimeMod

EarlyInv ==
  /\ \A e \in listed : next[e] = due[e]
  /\ pc = "expire" => now <= clock
  /\ pc # "expire" => visiting = {}

\* A reading of at most the present time, and its sum with a timeout, are
\* exact while no deadline wraps.
LEMMA ExactTimes ==
  ASSUME TypeOK, ClearOfWrap, NEW x \in Event, NEW at \in Time, at <= clock
  PROVE  /\ os_get_time = clock
         /\ RealTime(at) = at
         /\ Sum(at, timeout[x]) = at + timeout[x]
<1>1. /\ clock \in Nat /\ at \in Nat /\ timeout[x] \in Nat /\ TimeMod \in Nat \ {0}
      /\ clock + timeout[x] < TimeMod
  BY TimeFacts DEF TypeOK, ClearOfWrap
<1>2. \A n \in Nat : n < TimeMod => n % TimeMod = n
  BY <1>1
<1>3. /\ clock < TimeMod
      /\ clock - at \in Nat /\ clock - at < TimeMod
      /\ at + timeout[x] \in Nat /\ at + timeout[x] < TimeMod
  BY <1>1
<1>4. os_get_time = clock
  BY <1>1, <1>2, <1>3 DEF os_get_time
<1>5. (os_get_time - at) % TimeMod = clock - at
  BY <1>2, <1>3, <1>4
<1>6. RealTime(at) = at
  BY <1>1, <1>5 DEF RealTime
<1> QED BY <1>2, <1>3, <1>4, <1>6 DEF Sum

\* A new deadline is recorded as it really is.
LEMMA RearmExact ==
  ASSUME TypeOK, ClearOfWrap, EarlyInv, NEW x \in Event, NEW at \in Time, at <= clock,
         Rearm(x, at)
  PROVE  \A e \in listed' : next'[e] = due'[e]
<1>1. /\ listed' = listed \cup {x} /\ listed \subseteq Event
      /\ \A e \in Event : next'[e] = IF e = x THEN Sum(at, timeout[x]) ELSE next[e]
      /\ \A e \in Event : due'[e] = IF e = x THEN RealTime(at) + timeout[x] ELSE due[e]
  BY DEF Rearm, TypeOK
<1>2. Sum(at, timeout[x]) = RealTime(at) + timeout[x]
  BY ExactTimes
<1> QED BY <1>1, <1>2 DEF EarlyInv

\* The looper's steps keep the deadlines exact.
LEMMA EarlyLoop ==
  ASSUME TypeOK, ClearOfWrap, EarlyInv, Loop
  PROVE  EarlyInv'
<1>1. ASSUME UNCHANGED <<listed, next, due, visiting, now, clock>>,
             pc' = pc \/ (pc # "expire" /\ pc' # "expire")
      PROVE  EarlyInv'
  BY <1>1 DEF EarlyInv
<1>2. /\ os_get_time \in Time /\ os_get_time <= clock
  <2>1. clock \in Nat /\ TimeMod \in Nat \ {0}
    BY TimeFacts DEF TypeOK
  <2>2. clock % TimeMod <= clock
    BY <2>1
  <2> QED BY <2>2, ClockFacts DEF os_get_time
<1>3. CASE LoopTop
  <2>1. UNCHANGED <<listed, next, due, clock>> /\ pc = "top"
    BY <1>3 DEF LoopTop, eventVars
  <2>2. CASE pc' = "expire" /\ now' = os_get_time
    BY <1>2, <2>1, <2>2 DEF EarlyInv
  <2>3. CASE pc' = "pend" /\ UNCHANGED <<visiting, now>>
    BY <1>1, <2>1, <2>3
  <2> QED BY <1>3, <2>2, <2>3 DEF LoopTop, PendUntil
<1>4. ASSUME NEW x \in Event, ExpireOne(x) PROVE EarlyInv'
  <2>1. /\ pc = "expire" /\ UNCHANGED <<pc, now, clock>>
        /\ now \in Time /\ now <= clock
    BY <1>4 DEF ExpireOne, EarlyInv, TypeOK
  <2>2. \A e \in listed' : next'[e] = due'[e]
    <3>1. CASE UNCHANGED eventVars
      BY <3>1 DEF eventVars, EarlyInv
    <3>2. CASE FreeEvent(x)
      BY <3>2 DEF FreeEvent, EarlyInv
    <3>3. CASE Rearm(x, now)
      BY <2>1, <3>3, RearmExact
    <3> QED BY <1>4, <3>1, <3>2, <3>3 DEF ExpireOne
  <2> QED BY <2>1, <2>2 DEF EarlyInv
<1>5. CASE ExpireDone
  BY <1>5 DEF ExpireDone, PendUntil, eventVars, EarlyInv
<1>6. CASE PendTimeout
  BY <1>1, <1>6 DEF PendTimeout, eventVars
<1>7. CASE PendOk
  BY <1>1, <1>7 DEF PendOk, eventVars
<1>8. CASE ReadCommand
  <2>1. pc = "read" /\ pc' \in {"dispatch", "top"}
    BY <1>8 DEF ReadCommand
  <2> QED BY <1>1, <1>8, <2>1 DEF ReadCommand, eventVars
<1>9. ASSUME NEW type, type # "EXIT", Dispatched(type),
             \/ UNCHANGED eventVars
             \/ FreeEvent(cmd.event)
             \/ ArmFromNow(cmd.event)
      PROVE  EarlyInv'
  <2>1. /\ pc = "dispatch" /\ pc' = "top" /\ UNCHANGED <<visiting, now, clock>>
        /\ cmd.event \in Event
    BY <1>9, CommandFacts DEF Dispatched, TypeOK
  <2>2. \A e \in listed' : next'[e] = due'[e]
    <3>1. CASE UNCHANGED eventVars
      BY <3>1 DEF eventVars, EarlyInv
    <3>2. CASE FreeEvent(cmd.event)
      BY <3>2 DEF FreeEvent, EarlyInv
    <3>3. CASE ArmFromNow(cmd.event)
      BY <1>2, <2>1, <3>3, RearmExact DEF ArmFromNow
    <3> QED BY <1>9, <3>1, <3>2, <3>3
  <2> QED BY <2>1, <2>2 DEF EarlyInv
<1>10. CASE DispatchTrigger
  BY <1>9, <1>10 DEF DispatchTrigger
<1>11. CASE DispatchAdd
  BY <1>9, <1>11 DEF DispatchAdd
<1>12. CASE DispatchCancel
  BY <1>9, <1>12 DEF DispatchCancel
<1>13. CASE DispatchExit
  BY <1>13 DEF DispatchExit, EarlyInv
<1> QED
  BY <1>3, <1>4, <1>5, <1>6, <1>7, <1>8, <1>10, <1>11, <1>12, <1>13 DEF Loop

\* EarlyInv is inductive while no deadline wraps.
LEMMA EarlyStep == TypeOK /\ ClearOfWrap /\ EarlyInv /\ [Next]_vars => EarlyInv'
<1> SUFFICES ASSUME TypeOK, ClearOfWrap, EarlyInv, [Next]_vars PROVE EarlyInv'
  OBVIOUS
<1>1. ASSUME UNCHANGED <<listed, next, due, looperVars, clock>> PROVE EarlyInv'
  BY <1>1 DEF EarlyInv, looperVars
<1>2. ASSUME NEW t \in Task, Call(t) PROVE EarlyInv'
  BY <1>1, <1>2
     DEF Call, async_event_register, async_event_trigger, async_event_cancel,
         async_looper_exit, async_event_set_timeout, eventVars
<1>3. ASSUME NEW t \in Task, Continue(t) PROVE EarlyInv'
  BY <1>1, <1>3 DEF Continue, NotifyWrite, NotifyPost, PutBack, NullHandle, eventVars
<1>4. CASE Recreate
  BY <1>4 DEF Recreate, eventVars, EarlyInv
<1>5. CASE Tick
  <2>1. now <= clock => now <= clock + 1
    BY TimeFacts DEF TypeOK
  <2> QED BY <1>5, <2>1 DEF Tick, eventVars, looperVars, EarlyInv
<1>6. CASE UNCHANGED vars
  BY <1>1, <1>6 DEF vars, eventVars
<1> QED BY <1>2, <1>3, <1>4, <1>5, <1>6, EarlyLoop DEF Next

\* An event that a scan frees or rearms was due.
LEMMA CallbackDue ==
  ASSUME TypeOK, OwnInv, EarlyInv, [Next]_vars, NEW e \in Event, CalledBack(e)
  PROVE  clock >= due[e]
<1>1. e \in visiting /\ e \notin visiting' /\ pc = "expire" /\ e \in listed
  BY DEF CalledBack, EarlyInv, OwnInv
<1>2. visiting' # visiting /\ pc = "expire"
  BY <1>1
<1>3. \E x \in Event : ExpireOne(x)
  BY <1>2 DEF Next, Call, Continue, Loop, async_event_register, async_event_trigger,
     async_event_cancel, async_looper_exit, async_event_set_timeout, NotifyWrite,
     NotifyPost, PutBack, NullHandle, LoopTop, ExpireDone, PendTimeout, PendOk,
     ReadCommand, DispatchTrigger, DispatchAdd, DispatchCancel, Dispatched, DispatchExit,
     Recreate, Tick, vars, looperVars
<1>4. ExpireOne(e)
  <2>1. PICK x \in Event : ExpireOne(x)
    BY <1>3
  <2>2. x = e
    BY <1>1, <2>1 DEF ExpireOne
  <2> QED BY <2>1, <2>2
<1>5. next[e] <= now
  <2>1. ~ UNCHANGED eventVars
    BY <1>1 DEF CalledBack, eventVars
  <2> QED BY <1>4, <2>1 DEF ExpireOne
<1>6. next[e] = due[e] /\ now <= clock
  BY <1>1 DEF EarlyInv
<1>7. next[e] \in Int /\ now \in Int /\ clock \in Int
  BY TimeFacts DEF TypeOK
<1> QED BY <1>5, <1>6, <1>7

\* While the clock plus every timeout in use stays below the wrap of
\* os_time_t, async_event_exec_timeout calls no event back before its timeout
\* has really elapsed, even when set_timeout stores a new timeout during the
\* scan.
THEOREM TimeoutSafety == Spec /\ []ClearOfWrap => NoEarlyTimeout
<1>1. Init => EarlyInv
  BY DEF Init, EarlyInv
<1>2. TypeOK /\ OwnInv /\ EarlyInv /\ [Next]_vars
        => [\A e \in Event : CalledBack(e) => clock >= due[e]]_vars
  BY CallbackDue
<1> QED BY InitType, TypeStep, OwnInit, OwnStep, <1>1, EarlyStep, <1>2, PTL
        DEF Spec, NoEarlyTimeout
=============================================================================
