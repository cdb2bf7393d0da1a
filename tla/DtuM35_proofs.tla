--------------------------- MODULE DtuM35_proofs ----------------------------
(***************************************************************************)
(* The modem's command ring for any number of tasks, any ring and          *)
(* parameter sizes and any number of calls.  Until one of the races marks  *)
(* a behaviour, the cells in the ring form a stream of whole commands that *)
(* continues what the thread has read; each belongs to one waiting task.   *)
(***************************************************************************)
EXTENDS DtuM35, FiniteSetTheorems, TLAPS

-----------------------------------------------------------------------------
(***************************************************************************)
(* Cells, and arithmetic on addresses of the ring.                         *)
(***************************************************************************)

Entry == Cell \cup {NoCell}
Address == 0..(Cap - 1)

\* Every kind of command has parameters, and the union is as large as any.
LEMMA ParamFacts ==
  /\ \A k \in Kinds : ParamLen[k] \in Nat \ {0} /\ ParamLen[k] <= UnionLen
  /\ UnionLen \in Nat
<1> DEFINE L == {ParamLen[k] : k \in Kinds}
<1>1. \A k \in Kinds : ParamLen[k] \in Nat \ {0}
  BY ParamAssumption DEF ParamLen, Kinds
<1>2. \E n \in L : \A k \in Kinds : ParamLen[k] <= n
  <2>1. L = {SendLen, ConnectLen, DisconnectLen}
    BY DEF ParamLen, Kinds
  <2>2. \A k \in Kinds : ParamLen[k] \in {SendLen, ConnectLen, DisconnectLen}
    BY DEF ParamLen, Kinds
  <2>3. \E n \in {SendLen, ConnectLen, DisconnectLen} :
           \A m \in {SendLen, ConnectLen, DisconnectLen} : m <= n
    BY ParamAssumption
  <2> QED BY <2>1, <2>2, <2>3
<1>3. UnionLen \in L /\ \A k \in Kinds : ParamLen[k] <= UnionLen
  BY <1>2 DEF UnionLen
<1> QED BY <1>1, <1>3

\* The fields of a cell, and which records are cells.
LEMMA CellFacts ==
  /\ \A x \in Cell : x.of \in Clients /\ x.cmd \in Kinds /\ x.at \in Nat
  /\ NoCell \notin Cell
  /\ \A c \in Clients, k \in Kinds :
       \A i \in 0..ParamLen[k] : [of |-> c, cmd |-> k, at |-> i] \in Cell
  /\ \A c \in Clients, k \in Kinds : Info(c, k) \in Cell
<1>1. \A x \in Cell : x.of \in Clients /\ x.cmd \in Kinds /\ x.at \in Nat
  BY ParamFacts DEF Cell
<1>2. NoCell \notin Cell
  BY DEF Cell, NoCell, Kinds
<1>3. ASSUME NEW c \in Clients, NEW k \in Kinds, NEW i \in 0..ParamLen[k]
      PROVE  [of |-> c, cmd |-> k, at |-> i] \in Cell
  <2>1. i \in 0..UnionLen
    BY ParamFacts
  <2> QED BY <2>1 DEF Cell
<1>4. ASSUME NEW c \in Clients, NEW k \in Kinds PROVE Info(c, k) \in Cell
  BY <1>3, ParamFacts DEF Info
<1> QED BY <1>1, <1>2, <1>3, <1>4

\* The parameters of a command are cells numbered from one.
LEMMA ParamsFacts ==
  ASSUME NEW c \in Clients, NEW k \in Kinds
  PROVE  /\ Params(c, k) \in Seq(Entry)
         /\ Len(Params(c, k)) = ParamLen[k]
         /\ \A i \in 1..ParamLen[k] : Params(c, k)[i] = [of |-> c, cmd |-> k, at |-> i]
<1>1. ParamLen[k] \in Nat
  BY ParamFacts
<1>2. \A i \in 1..ParamLen[k] : [of |-> c, cmd |-> k, at |-> i] \in Entry
  BY <1>1, CellFacts DEF Entry
<1> QED BY <1>1, <1>2 DEF Params

\* The remainder, for what is at most once too large.
LEMMA Wraps ==
  /\ Cap \in Nat \ {0}
  /\ \A x \in Nat : x < Cap => x % Cap = x
  /\ \A x \in Nat : Cap <= x /\ x < 2 * Cap => x % Cap = x - Cap
<1>1. Cap \in Nat \ {0}
  BY CapAssumption
<1>2. \A x \in Nat : x < Cap => x % Cap = x
  BY <1>1
<1>3. ASSUME NEW x \in Nat, Cap <= x, x < 2 * Cap PROVE x % Cap = x - Cap
  BY <1>1, <1>3
<1> QED BY <1>1, <1>2, <1>3

\* One step around the ring.
LEMMA StepFacts ==
  ASSUME NEW a \in Address
  PROVE  Step(a) = (IF a + 1 < Cap THEN a + 1 ELSE a + 1 - Cap) /\ Step(a) \in Address
<1>1. a \in Nat /\ a < Cap /\ Cap \in Nat
  BY Wraps DEF Address
<1>2. CASE a + 1 < Cap
  BY <1>1, <1>2, Wraps DEF Step, Address
<1>3. CASE ~(a + 1 < Cap)
  BY <1>1, <1>3, Wraps DEF Step, Address
<1> QED BY <1>2, <1>3

\* How far behind in an address lies.
Ahead(a, in) == IF a >= in THEN a - in ELSE a - in + Cap

\* ringbuffer_write keeps the types; with room it stores all of dat behind in.
LEMMA WrittenFacts ==
  ASSUME NEW r \in [buf : [Address -> Entry], in : Address, len : 0..Cap], NEW dat \in Seq(Entry)
  PROVE  /\ Written(r, dat) \in [buf : [Address -> Entry], in : Address, len : 0..Cap]
         /\ Cap - r.len >= Len(dat) =>
              /\ Written(r, dat).len = r.len + Len(dat)
              /\ Written(r, dat).in = (r.in + Len(dat)) % Cap
              /\ \A a \in Address :
                   Written(r, dat).buf[a] =
                     IF Ahead(a, r.in) < Len(dat) THEN dat[Ahead(a, r.in) + 1] ELSE r.buf[a]
<1>1. /\ Cap \in Nat \ {0} /\ Len(dat) \in Nat /\ r.in \in Address /\ r.len \in 0..Cap
      /\ r.buf \in [Address -> Entry]
  BY Wraps
<1>2. CASE Cap - r.len < Len(dat)
  BY <1>1, <1>2 DEF Written
<1>3. CASE ~(Cap - r.len < Len(dat))
  <2> DEFINE w == Written(r, dat)
             put(a) == LET j == (a - r.in + Cap) % Cap IN IF j < Len(dat) THEN dat[j + 1] ELSE r.buf[a]
  <2>1. w = [buf |-> [a \in 0..(Cap - 1) |-> put(a)], in |-> (r.in + Len(dat)) % Cap,
             len |-> r.len + Len(dat)]
    BY <1>3 DEF Written
  <2>2. ASSUME NEW a \in Address PROVE (a - r.in + Cap) % Cap = Ahead(a, r.in) /\ Ahead(a, r.in) \in Address
    <3>1. a \in Nat /\ a < Cap /\ r.in \in Nat /\ r.in < Cap /\ Cap \in Nat
      BY <1>1 DEF Address
    <3>2. CASE a >= r.in
      <4>1. a - r.in + Cap \in Nat /\ Cap <= a - r.in + Cap /\ a - r.in + Cap < 2 * Cap
        BY <3>1, <3>2
      <4>2. (a - r.in + Cap) % Cap = (a - r.in + Cap) - Cap
        BY <4>1, Wraps
      <4> QED BY <3>1, <3>2, <4>2 DEF Ahead, Address
    <3>3. CASE ~(a >= r.in)
      <4>1. a - r.in + Cap \in Nat /\ a - r.in + Cap < Cap
        BY <3>1, <3>3
      <4>2. (a - r.in + Cap) % Cap = a - r.in + Cap
        BY <4>1, Wraps
      <4> QED BY <3>1, <3>3, <4>1, <4>2 DEF Ahead, Address
    <3> QED BY <3>2, <3>3
  <2>3. ASSUME NEW a \in Address
        PROVE  /\ put(a) = IF Ahead(a, r.in) < Len(dat) THEN dat[Ahead(a, r.in) + 1] ELSE r.buf[a]
               /\ put(a) \in Entry
    <3>1. put(a) = IF Ahead(a, r.in) < Len(dat) THEN dat[Ahead(a, r.in) + 1] ELSE r.buf[a]
      BY <2>2
    <3>2. Ahead(a, r.in) < Len(dat) => Ahead(a, r.in) + 1 \in 1..Len(dat)
      <4>1. Ahead(a, r.in) \in Address
        BY <2>2
      <4>2. Ahead(a, r.in) \in Nat /\ Len(dat) \in Nat
        BY <1>1, <4>1 DEF Address
      <4> QED BY <4>2
    <3> HIDE DEF put
    <3> QED BY <1>1, <3>1, <3>2
  <2>4. (r.in + Len(dat)) % Cap \in Address
    BY <1>1 DEF Address
  <2>5. r.len + Len(dat) \in 0..Cap
    BY <1>1, <1>3
  <2> HIDE DEF put
  <2>6. [a \in 0..(Cap - 1) |-> put(a)] \in [Address -> Entry]
    BY <2>3 DEF Address
  <2>7. w \in [buf : [Address -> Entry], in : Address, len : 0..Cap]
    BY <2>1, <2>4, <2>5, <2>6
  <2>8. /\ w.len = r.len + Len(dat) /\ w.in = (r.in + Len(dat)) % Cap
        /\ \A a \in Address : w.buf[a] = put(a)
    BY <2>1 DEF Address
  <2> QED BY <2>3, <2>7, <2>8
<1> QED BY <1>2, <1>3

\* The two writes of a call: whatever the room, the ring's fields keep their
\* types; with room for the whole command all of its cells go behind in.
LEMMA WriteFacts ==
  ASSUME TypeOK, NEW c \in Clients, Write(c)
  PROVE  /\ buf' \in [Address -> Entry] /\ rin' \in Address /\ rlen' \in 0..Cap
         /\ Fits(kind[c]) =>
              /\ rlen' = rlen + ParamLen[kind[c]] + 1
              /\ rin' = (IF rin + ParamLen[kind[c]] + 1 < Cap THEN rin + ParamLen[kind[c]] + 1
                         ELSE rin + ParamLen[kind[c]] + 1 - Cap)
              /\ \A a \in Address :
                   buf'[a] = IF Ahead(a, rin) <= ParamLen[kind[c]]
                             THEN [of |-> c, cmd |-> kind[c], at |-> Ahead(a, rin)]
                             ELSE buf[a]
<1> DEFINE k == kind[c]
           n == ParamLen[k]
           R == [buf : [Address -> Entry], in : Address, len : 0..Cap]
           r0 == [buf |-> buf, in |-> rin, len |-> rlen]
           r1 == Written(r0, <<Info(c, k)>>)
           r2 == Written(r1, Params(c, k))
<1>1. /\ k \in Kinds /\ n \in Nat \ {0} /\ Cap \in Nat \ {0}
      /\ rin \in Nat /\ rin < Cap /\ rlen \in Nat /\ rlen <= Cap
  BY ParamFacts, Wraps DEF TypeOK
<1>2. r0 \in R
  BY DEF TypeOK, Address, Entry
<1>3. /\ <<Info(c, k)>> \in Seq(Entry) /\ Len(<<Info(c, k)>>) = 1
      /\ <<Info(c, k)>>[1] = [of |-> c, cmd |-> k, at |-> 0]
  <2>1. Info(c, k) \in Entry
    BY <1>1, CellFacts DEF Entry
  <2> QED BY <2>1 DEF Info
<1>4. /\ Params(c, k) \in Seq(Entry) /\ Len(Params(c, k)) = n
      /\ \A i \in 1..n : Params(c, k)[i] = [of |-> c, cmd |-> k, at |-> i]
  BY <1>1, ParamsFacts
<1>5. buf' = r2.buf /\ rin' = r2.in /\ rlen' = r2.len
  BY DEF Write
<1>6. r1 \in R
  <2> HIDE DEF r0, k
  <2> QED BY <1>2, <1>3, WrittenFacts
<1>7. r2 \in R
  <2> HIDE DEF r1, k
  <2> QED BY <1>4, <1>6, WrittenFacts
<1>8. buf' \in [Address -> Entry] /\ rin' \in Address /\ rlen' \in 0..Cap
  <2> HIDE DEF r2
  <2> QED BY <1>5, <1>7
<1>9. ASSUME Fits(k)
      PROVE  /\ rlen' = rlen + n + 1
             /\ rin' = (IF rin + n + 1 < Cap THEN rin + n + 1 ELSE rin + n + 1 - Cap)
             /\ \A a \in Address :
                  buf'[a] = IF Ahead(a, rin) <= n
                            THEN [of |-> c, cmd |-> k, at |-> Ahead(a, rin)]
                            ELSE buf[a]
  <2>1. Cap - rlen >= n + 1
    BY <1>9 DEF Fits
  <2>2. r0.len = rlen /\ r0.in = rin /\ r0.buf = buf
    OBVIOUS
  <2>3. /\ r1.len = rlen + 1 /\ r1.in = (rin + 1) % Cap
        /\ \A a \in Address :
             r1.buf[a] = IF Ahead(a, rin) < 1 THEN <<Info(c, k)>>[Ahead(a, rin) + 1] ELSE buf[a]
    <3>1. Cap - r0.len >= Len(<<Info(c, k)>>)
      BY <1>1, <1>3, <2>1, <2>2
    <3> HIDE DEF r0, k
    <3>2. /\ r1.len = r0.len + 1 /\ r1.in = (r0.in + 1) % Cap
          /\ \A a \in Address :
               r1.buf[a] = IF Ahead(a, r0.in) < 1 THEN <<Info(c, k)>>[Ahead(a, r0.in) + 1]
                           ELSE r0.buf[a]
      BY <1>2, <1>3, <3>1, WrittenFacts
    <3> QED BY <2>2, <3>2
  <2>4. r1.in = IF rin + 1 < Cap THEN rin + 1 ELSE rin + 1 - Cap
    <3>1. rin \in Address
      BY DEF TypeOK, Address
    <3> QED BY <2>3, <3>1, StepFacts DEF Step
  <2>5. /\ r2.len = rlen + 1 + n /\ r2.in = (r1.in + n) % Cap
        /\ \A a \in Address :
             r2.buf[a] = IF Ahead(a, r1.in) < n THEN Params(c, k)[Ahead(a, r1.in) + 1] ELSE r1.buf[a]
    <3>1. Cap - r1.len >= Len(Params(c, k))
      BY <1>1, <1>4, <2>1, <2>3
    <3> HIDE DEF r1, k
    <3> QED BY <1>4, <1>6, <2>3, <3>1, WrittenFacts
  <2> HIDE DEF r1, r2, k
  <2>6. rin' = (IF rin + n + 1 < Cap THEN rin + n + 1 ELSE rin + n + 1 - Cap)
    <3>0. n \in Nat /\ n < Cap
      BY <1>1, <2>1
    <3> HIDE DEF n
    <3>1. r1.in \in Nat /\ r1.in < Cap
      BY <1>1, <2>4
    <3>2. r1.in + n < Cap => (r1.in + n) % Cap = r1.in + n
      BY <3>0, <3>1, Wraps
    <3>3. r1.in + n >= Cap => (r1.in + n) % Cap = r1.in + n - Cap
      BY <3>0, <3>1, Wraps
    <3>4. (r1.in + n) % Cap = IF rin + n + 1 < Cap THEN rin + n + 1 ELSE rin + n + 1 - Cap
      BY <1>1, <2>1, <2>4, <3>0, <3>1, <3>2, <3>3
    <3> QED BY <1>5, <2>5, <3>4
  <2>7. ASSUME NEW a \in Address
        PROVE  buf'[a] = IF Ahead(a, rin) <= n
                         THEN [of |-> c, cmd |-> k, at |-> Ahead(a, rin)] ELSE buf[a]
    <3>0. n \in Nat /\ n < Cap
      BY <1>1, <2>1
    <3> HIDE DEF n
    <3>1. /\ a \in Nat /\ a < Cap
          /\ Ahead(a, rin) \in Nat /\ Ahead(a, rin) < Cap
          /\ Ahead(a, r1.in) = IF Ahead(a, rin) = 0 THEN Cap - 1 ELSE Ahead(a, rin) - 1
      BY <1>1, <2>4 DEF Ahead, Address
    <3>2. CASE Ahead(a, rin) = 0
      <4>1. ~(Ahead(a, r1.in) < n)
        BY <3>0, <3>1, <3>2, <1>1
      <4>2. r1.buf[a] = [of |-> c, cmd |-> k, at |-> 0]
        BY <1>3, <2>3, <3>2
      <4> QED BY <1>5, <2>5, <3>0, <3>2, <4>1, <4>2
    <3>3. CASE Ahead(a, rin) # 0 /\ Ahead(a, rin) <= n
      <4>1. /\ Ahead(a, r1.in) < n /\ Ahead(a, r1.in) + 1 = Ahead(a, rin)
            /\ Ahead(a, rin) \in 1..n
        BY <3>0, <3>1, <3>3
      <4>2. r2.buf[a] = Params(c, k)[Ahead(a, rin)]
        BY <2>5, <4>1
      <4> QED BY <1>4, <1>5, <3>3, <4>1, <4>2
    <3>4. CASE ~(Ahead(a, rin) <= n)
      <4>1. ~(Ahead(a, r1.in) < n) /\ ~(Ahead(a, rin) < 1)
        BY <3>0, <3>1, <3>4
      <4> QED BY <1>5, <2>3, <2>5, <3>4, <4>1
    <3> QED BY <3>2, <3>3, <3>4
  <2>8. rlen' = rlen + n + 1
    BY <1>1, <1>5, <2>5
  <2> QED BY <2>6, <2>7, <2>8
<1> QED BY <1>8, <1>9

-----------------------------------------------------------------------------
(***************************************************************************)
(* Type correctness, races or not.                                         *)
(***************************************************************************)

\* The state after dtum35_init is well typed.
LEMMA InitType == Init => TypeOK
<1> SUFFICES ASSUME Init PROVE TypeOK
  OBVIOUS
<1>1. buf \in [0..(Cap - 1) -> Cell \cup {NoCell}]
  BY DEF Init
<1>2. 0 \in 0..(Cap - 1) /\ 0 \in 0..Cap /\ 0 \in 0..UnionLen /\ 0 \in 0..LastWait
  BY Wraps, ParamFacts DEF LastWait
<1>3. got \in Seq(Cell \cup {NoCell})
  BY DEF Init
<1>4. /\ cpc \in [Clients -> {"idle", "write", "spin"}] /\ kind \in [Clients -> Kinds]
      /\ ret \in [Clients -> {0, 1, Pending}]
  BY DEF Init, Kinds
<1> QED BY <1>1, <1>2, <1>3, <1>4 DEF Init, TypeOK

\* The calling tasks keep the types.
LEMMA TaskType ==
  ASSUME TypeOK, NEW c \in Clients,
         (\E k \in Kinds : Check(c, k)) \/ Write(c) \/ Return(c)
  PROVE  TypeOK'
<1>1. ASSUME NEW k \in Kinds, Check(c, k) PROVE TypeOK'
  <2>1. /\ cpc' \in [Clients -> {"idle", "write", "spin"}] /\ kind' \in [Clients -> Kinds]
        /\ ret' \in [Clients -> {0, 1, Pending}] /\ calls' \in Nat
    BY <1>1 DEF Check, TypeOK, tasks
  <2> QED BY <1>1, <2>1 DEF Check, TypeOK, ring, thread, status
<1>2. CASE Write(c)
  <2>1. buf' \in [Address -> Entry] /\ rin' \in Address /\ rlen' \in 0..Cap
    BY <1>2, WriteFacts
  <2>2. cpc' \in [Clients -> {"idle", "write", "spin"}] /\ cmd_sem' \in Nat
    BY <1>2 DEF Write, Post, TypeOK
  <2>3. raced' \in BOOLEAN
    BY <1>2 DEF Write
  <2> QED BY <1>2, <2>1, <2>2, <2>3 DEF Write, TypeOK, thread, status, Address, Entry
<1>3. CASE Return(c)
  <2>1. /\ cpc' \in [Clients -> {"idle", "write", "spin"}] /\ kind' \in [Clients -> Kinds]
        /\ ret' \in [Clients -> {0, 1, Pending}]
    BY <1>3 DEF Return, TypeOK, Kinds
  <2> QED BY <1>3, <2>1 DEF Return, TypeOK, ring, thread, status
<1> QED BY <1>1, <1>2, <1>3

\* The modem thread keeps the types.
LEMMA ThreadType ==
  ASSUME TypeOK, dtum35_run
  PROVE  TypeOK'
<1>1. CASE ConfigStage
  <2>1. mpc' \in {"config", "pend", "restart"}
    BY <1>1 DEF ConfigStage
  <2> QED BY <1>1, <2>1 DEF ConfigStage, TypeOK, ring, tasks
<1>2. CASE Restart
  <2>1. wait_time_index' \in 0..LastWait
    BY <1>2 DEF Restart, TypeOK, LastWait
  <2> QED BY <1>2, <2>1 DEF Restart, TypeOK, ring, tasks
<1>3. ASSUME NEW n \in 1..UnionLen, Reading(n, "fetch")
      PROVE  /\ mpc' \in {"clear_len", "fetch"} /\ need' \in 0..UnionLen
             /\ mpc' = "fetch" => need' > 0
  BY <1>3, ParamFacts DEF Reading
<1>4. CASE PendOk
  <2>1. 1 \in 1..UnionLen
    <3>1. "send" \in Kinds
      BY DEF Kinds
    <3> QED BY <3>1, ParamFacts
  <2>2. /\ mpc' \in {"clear_len", "fetch"} /\ need' \in 0..UnionLen
        /\ mpc' = "fetch" => need' > 0
    BY <1>3, <1>4, <2>1 DEF PendOk
  <2>3. cmd_sem' \in Nat
    BY <1>4 DEF PendOk, TypeOK
  <2> QED BY <1>4, <2>2, <2>3 DEF PendOk, TypeOK, ring, tasks, status
<1>5. CASE PendTimeout
  BY <1>5 DEF PendTimeout, TypeOK, ring, tasks, status
<1>6. CASE Fetch
  <2>1. rout \in Address /\ buf[rout] \in Cell \cup {NoCell}
    BY DEF TypeOK, Address
  <2>2. rout' \in 0..(Cap - 1)
    BY <1>6, <2>1, StepFacts DEF Fetch, Address
  <2>3. got' \in Seq(Cell \cup {NoCell})
    <3>1. got \in Seq(Cell \cup {NoCell})
      BY DEF TypeOK
    <3>2. Append(got, buf[rout]) \in Seq(Cell \cup {NoCell})
      BY <2>1, <3>1
    <3> QED BY <1>6, <3>2 DEF Fetch
  <2>4. tmp' \in 0..Cap /\ tmp' > 0
    BY <1>6 DEF Fetch, TypeOK
  <2> QED BY <1>6, <2>2, <2>3, <2>4 DEF Fetch, TypeOK, tasks, status
<1>7. CASE StoreLen
  <2>1. rlen' \in 0..Cap /\ tmp' \in 0..Cap
    BY <1>7, Wraps DEF StoreLen, TypeOK
  <2> QED BY <1>7, <2>1 DEF StoreLen, TypeOK, tasks, status
<1>8. CASE GotInfo
  <2>1. UNCHANGED <<ring, cmd_sem, tasks, tmp, status, calls, raced, lost>>
    BY <1>8 DEF GotInfo
  <2>2. CASE mpc' = "clear_len" /\ UNCHANGED <<need, hdr, got>>
    BY <2>1, <2>2 DEF TypeOK, ring, tasks, status
  <2>3. ASSUME Len(got) = need, NEW h \in InfoOf(got[1]), h # NoCell,
               hdr' = h, got' = <<>>, Reading(SizeOfParams(h.cmd), "fetch")
        PROVE  TypeOK'
    <3>1. h \in Cell
      <4>1. got \in Seq(Cell \cup {NoCell}) /\ Len(got) > 0
        BY <1>8, <2>3 DEF GotInfo, TypeOK
      <4>2. got[1] \in Cell \cup {NoCell}
        BY <4>1
      <4>3. CASE got[1] = NoCell
        BY <2>3, <4>3 DEF InfoOf
      <4>4. CASE got[1] \in Cell
        <5>1. got[1].of \in Clients
          BY <4>4, CellFacts
        <5>2. h = got[1] \/ \E k \in Kinds : h = Info(got[1].of, k)
          BY <2>3 DEF InfoOf
        <5> QED BY <4>4, <5>1, <5>2, CellFacts
      <4> QED BY <4>2, <4>3, <4>4
    <3>2. h.cmd \in Kinds
      BY <3>1, CellFacts
    <3>3. /\ mpc' \in {"clear_len", "fetch"} /\ need' \in 0..UnionLen
          /\ mpc' = "fetch" => need' > 0
      <4>1. SizeOfParams(h.cmd) \in 1..UnionLen
        BY <3>2, ParamFacts DEF SizeOfParams
      <4> QED BY <1>3, <2>3, <4>1
    <3>4. got' \in Seq(Cell \cup {NoCell})
      BY <2>3
    <3> QED BY <2>1, <2>3, <3>1, <3>3, <3>4 DEF TypeOK, ring, tasks, status
  <2> QED BY <1>8, <2>2, <2>3 DEF GotInfo
<1>9. CASE GotParams
  BY <1>9 DEF GotParams, TypeOK, ring, tasks, status
<1>10. CASE Handle
  <2>1. ret' \in [Clients -> {0, 1, Pending}]
    BY <1>10 DEF Handle, Answer, TypeOK
  <2>2. got' \in Seq(Cell \cup {NoCell}) /\ need' \in 0..UnionLen
    BY <1>10, ParamFacts DEF Handle
  <2> QED BY <1>10, <2>1, <2>2 DEF Handle, TypeOK, ring, status
<1>11. CASE ClearLen
  <2>1. got' \in Seq(Cell \cup {NoCell}) /\ need' \in 0..UnionLen /\ rlen' \in 0..Cap
    BY <1>11, ParamFacts, Wraps DEF ClearLen
  <2>2. lost' \in BOOLEAN
    BY <1>11 DEF ClearLen
  <2> QED BY <1>11, <2>1, <2>2 DEF ClearLen, TypeOK, tasks, status
<1>12. CASE ClearIn
  <2>1. rin' \in 0..(Cap - 1)
    BY <1>12, Wraps DEF ClearIn
  <2> QED BY <1>12, <2>1 DEF ClearIn, TypeOK, tasks, status
<1>13. CASE ClearOut
  <2>1. rout' \in 0..(Cap - 1)
    BY <1>13, Wraps DEF ClearOut
  <2> QED BY <1>13, <2>1 DEF ClearOut, TypeOK, tasks, status
<1> QED
  BY <1>1, <1>2, <1>4, <1>5, <1>6, <1>7, <1>8, <1>9, <1>10, <1>11, <1>12, <1>13
  DEF dtum35_run, CommandLoop

\* TypeOK is inductive.
LEMMA TypeStep == TypeOK /\ [Next]_vars => TypeOK'
<1> SUFFICES ASSUME TypeOK, [Next]_vars PROVE TypeOK'
  OBVIOUS
<1>1. ASSUME NEW c \in Clients,
             dtum35_tcp_write(c) \/ dtum35_tcp_connect(c) \/ dtum35_tcp_disconnect(c)
      PROVE  \E k \in Kinds : Check(c, k)
  BY <1>1 DEF dtum35_tcp_write, dtum35_tcp_connect, dtum35_tcp_disconnect, Kinds
<1>2. CASE UNCHANGED vars
  BY <1>2 DEF vars, TypeOK, ring, tasks, thread, status
<1> QED BY <1>1, <1>2, TaskType, ThreadType DEF Next

-----------------------------------------------------------------------------
(***************************************************************************)
(* The inductive invariant.                                                *)
(***************************************************************************)

Steady == mpc \in {"config", "restart", "pend", "fetch", "store", "handle"}

\* The tasks that wait for an answer.
Spinning == {c \in Clients : Unanswered(c)}

\* Nothing of a command has been taken from the ring.
Between == hdr = NoCell /\ got = <<>>
\* The last cell that the thread has taken of the command in hand.
LastRead == IF hdr # NoCell THEN [of |-> hdr.of, cmd |-> hdr.cmd, at |-> Len(got)] ELSE got[1]

\* b is what comes after a in a stream of whole commands.
Follows(a, b) ==
  \/ a.at < ParamLen[a.cmd] /\ b = [of |-> a.of, cmd |-> a.cmd, at |-> a.at + 1]
  \/ a.at = ParamLen[a.cmd] /\ b.at = 0

\* The ring holds whole commands, but for the cells already taken of the first.
Framing ==
  /\ rin = (IF rout + Count < Cap THEN rout + Count ELSE rout + Count - Cap)
  /\ \A a \in Held : /\ buf[a] \in Cell
                     /\ Offset(a) = Count - 1 => buf[a].at = ParamLen[buf[a].cmd]
  /\ \A a, b \in Held : Offset(b) = Offset(a) + 1 => Follows(buf[a], buf[b])
  /\ Count > 0 => IF Between THEN buf[rout].at = 0 ELSE Follows(LastRead, buf[rout])
  /\ Count = 0 /\ ~Between => LastRead.at = ParamLen[LastRead.cmd]

\* Each cmd_info in the ring, and the command in hand, is that of a task which
\* waits for its answer, and a task has only one.
Owners ==
  /\ \A a \in Infos : buf[a].of \in Spinning /\ kind[buf[a].of] = buf[a].cmd
  /\ \A a, b \in Infos : buf[a].of = buf[b].of => a = b
  /\ ~Between => /\ LastRead.of \in Spinning /\ kind[LastRead.of] = LastRead.cmd
                 /\ \A a \in Infos : buf[a].of # LastRead.of

\* The thread's locals agree with the step it is at.
ReadSoFar ==
  /\ hdr # NoCell => /\ hdr.at = 0 /\ Len(got) <= ParamLen[hdr.cmd]
                     /\ \A j \in 1..Len(got) : got[j] = [of |-> hdr.of, cmd |-> hdr.cmd, at |-> j]
  /\ hdr = NoCell /\ got # <<>> => Len(got) = 1 /\ got[1] \in Cell /\ got[1].at = 0
  /\ mpc \in {"fetch", "store"} => need = IF hdr = NoCell THEN 1 ELSE ParamLen[hdr.cmd]
  /\ mpc = "handle" => hdr # NoCell /\ Len(got) = ParamLen[hdr.cmd]
  /\ mpc = "store" => tmp = rlen /\ got # <<>>
  /\ mpc \in {"config", "restart", "pend", "clear_in", "clear_out"} => Between

\* A call that has not written its command has not been answered.
Waiting == \A c \in Clients : cpc[c] = "write" => ret[c] = Pending

Clearing ==
  /\ mpc \in {"clear_in", "clear_out"} => rlen = 0
  /\ mpc = "clear_out" => rin = 0

Nobody == cmd_sem = 0 /\ Spinning = {}

\* Every waiting task has a command, and every command in the ring a token.
Accounts ==
  /\ Steady =>
       /\ \A c \in Spinning : (\E a \in Infos : buf[a].of = c) \/ (~Between /\ LastRead.of = c)
       /\ Cardinality(Infos) = cmd_sem + TokenTaken
  /\ mpc = "clear_len" /\ rlen = 0 /\ Between => Nobody
  /\ mpc \in {"clear_in", "clear_out"} => Nobody

Inv ==
  ~raced =>
    /\ ReadSoFar /\ Waiting /\ Clearing
    /\ Steady => Framing /\ Owners
    /\ ~lost => Accounts

\* The command in hand belongs to a task.
LEMMA LastReadCell ==
  ASSUME TypeOK, ReadSoFar, ~Between
  PROVE  LastRead.of \in Clients /\ LastRead.cmd \in Kinds
<1>1. CASE hdr # NoCell
  BY <1>1, CellFacts DEF TypeOK, LastRead
<1>2. CASE hdr = NoCell
  BY <1>2, CellFacts DEF ReadSoFar, Between, LastRead
<1> QED BY <1>1, <1>2

\* The ring's fields, as integers.
LEMMA RingFacts ==
  ASSUME TypeOK
  PROVE  /\ Cap \in Nat \ {0} /\ rout \in Nat /\ rout < Cap /\ rlen \in Nat /\ rlen <= Cap
         /\ Count \in Int /\ Count <= Cap
         /\ rout \in Address /\ Offset(rout) = 0
         /\ \A a \in Address : Offset(a) \in Nat /\ Offset(a) < Cap
         /\ \A a, b \in Address : Offset(a) = Offset(b) => a = b
         /\ Held \subseteq Address /\ Infos \subseteq Held
         /\ \A a \in Address : a \in Held <=> Offset(a) < Count
<1>1. /\ Cap \in Nat \ {0} /\ rout \in Nat /\ rout < Cap /\ rlen \in Nat /\ rlen <= Cap
      /\ rout \in Address
  BY Wraps DEF TypeOK, Address
<1>2. Count \in Int /\ Count <= Cap
  BY <1>1 DEF Count
<1>3. ASSUME NEW a \in Address PROVE Offset(a) \in Nat /\ Offset(a) < Cap
  BY <1>1 DEF Offset, Address
<1>4. ASSUME NEW a \in Address, NEW b \in Address, Offset(a) = Offset(b) PROVE a = b
  BY <1>1, <1>4 DEF Offset, Address
<1>5. Offset(rout) = 0
  BY <1>1 DEF Offset
<1>6. /\ Held \subseteq Address /\ Infos \subseteq Held
      /\ \A a \in Address : a \in Held <=> Offset(a) < Count
  BY DEF Held, Infos, Address
<1> QED BY <1>1, <1>2, <1>3, <1>4, <1>5, <1>6

\* The cmd_infos in the ring can be counted.
LEMMA InfosFinite ==
  ASSUME TypeOK
  PROVE  IsFiniteSet(Infos) /\ Cardinality(Infos) \in Nat
<1>1. IsFiniteSet(0..(Cap - 1))
  BY Wraps, FS_Interval
<1>2. Infos \subseteq 0..(Cap - 1)
  BY DEF Infos, Held
<1>3. IsFiniteSet(Infos)
  BY <1>1, <1>2, FS_Subset
<1> QED BY <1>3, FS_CardinalityType

\* An empty ring holds no cmd_info.
LEMMA EmptyInfos ==
  ASSUME TypeOK, Count = 0
  PROVE  Infos = {} /\ Held = {} /\ Cardinality(Infos) = 0
<1>1. Held = {}
  BY RingFacts
<1>2. Infos = {}
  BY <1>1 DEF Infos
<1> QED BY <1>1, <1>2, FS_EmptySet

\* A step that leaves the cells and the reader's place alone.
LEMMA SameCells ==
  ASSUME UNCHANGED <<buf, rout>>, Count' = Count
  PROVE  /\ Held' = Held /\ Infos' = Infos
         /\ \A a : Offset(a)' = Offset(a)
         /\ \A a \in Held : buf'[a] = buf[a]
BY DEF Held, Infos, Offset

\* The stream still holds whole commands.
LEMMA FramingKept ==
  ASSUME Framing, UNCHANGED <<buf, rin, rout>>, Count' = Count,
         Between' <=> Between, ~Between => LastRead' = LastRead
  PROVE  Framing'
<1>1. /\ Held' = Held /\ \A a : Offset(a)' = Offset(a)
  BY SameCells
<1> QED BY <1>1 DEF Framing

\* The commands still belong to the tasks that wait for them.
LEMMA OwnersKept ==
  ASSUME Owners, UNCHANGED <<buf, rout>>, Count' = Count,
         Between' <=> Between, ~Between => LastRead' = LastRead,
         \A d \in Spinning : d \in Spinning' /\ kind'[d] = kind[d]
  PROVE  Owners'
<1>1. Infos' = Infos /\ buf' = buf
  BY SameCells
<1> QED BY <1>1 DEF Owners

\* The commands still match the waiting tasks and the tokens.
LEMMA AccountsKept ==
  ASSUME Accounts, Steady, Steady', UNCHANGED <<buf, rout>>, Count' = Count,
         Between' <=> Between, ~Between => LastRead' = LastRead,
         Spinning' \subseteq Spinning,
         cmd_sem' + TokenTaken' = cmd_sem + TokenTaken
  PROVE  Accounts'
<1>1. Infos' = Infos /\ buf' = buf
  BY SameCells
<1>2. mpc' # "clear_len" /\ mpc' \notin {"clear_in", "clear_out"}
  BY DEF Steady
<1> QED BY <1>1, <1>2 DEF Accounts

-----------------------------------------------------------------------------
(***************************************************************************)
(* The tasks.                                                              *)
(***************************************************************************)

\* Everything that the invariant says of the thread and the ring survives a
\* step that changes neither them nor who waits.
LEMMA QuietInv ==
  ASSUME TypeOK, Inv, UNCHANGED <<ring, thread, cmd_sem, raced, lost>>,
         Spinning' = Spinning, \A d \in Spinning : kind'[d] = kind[d],
         ~raced => Waiting'
  PROVE  Inv'
<1> SUFFICES ASSUME ~raced
             PROVE  /\ ReadSoFar' /\ Waiting' /\ Clearing'
                    /\ Steady' => Framing' /\ Owners'
                    /\ ~lost' => Accounts'
  BY DEF Inv
<1>1. /\ ReadSoFar /\ Clearing /\ (Steady => Framing /\ Owners) /\ (~lost => Accounts)
  BY DEF Inv
<1>2. /\ UNCHANGED <<buf, rin, rout, rlen, mpc, need, got, tmp, hdr, cmd_sem, lost>>
  BY DEF ring, thread
<1>3. Count' = Count /\ (Between' <=> Between) /\ LastRead' = LastRead /\ (Steady' <=> Steady)
  BY <1>2 DEF Count, Between, LastRead, Steady
<1>4. ReadSoFar' /\ Clearing'
  BY <1>1, <1>2, <1>3 DEF ReadSoFar, Clearing
<1>5. Steady => Framing' /\ Owners'
  BY <1>1, <1>2, <1>3, FramingKept, OwnersKept
<1>6. ASSUME ~lost PROVE Accounts'
  <2>1. Infos' = Infos /\ buf' = buf
    BY <1>2, <1>3, SameCells
  <2>2. TokenTaken' = TokenTaken /\ (Nobody' <=> Nobody)
    BY <1>2 DEF TokenTaken, Nobody
  <2> QED BY <1>1, <1>2, <1>3, <1>6, <2>1, <2>2 DEF Accounts
<1> QED BY <1>2, <1>3, <1>4, <1>5, <1>6

\* A call that begins or is refused, and one that returns.
LEMMA CheckInv ==
  ASSUME TypeOK, Inv, NEW c \in Clients, NEW k \in Kinds, Check(c, k)
  PROVE  Inv'
<1>1. UNCHANGED <<ring, thread, cmd_sem, raced, lost>>
  BY DEF Check
<1>2. CASE UNCHANGED tasks
  BY <1>1, <1>2, QuietInv DEF tasks, Spinning, Unanswered, Waiting, Inv
<1>3. CASE /\ cpc[c] = "idle"
           /\ kind' = [kind EXCEPT ![c] = k]
           /\ cpc' = [cpc EXCEPT ![c] = "write"]
           /\ ret' = [ret EXCEPT ![c] = Pending]
  <2>1. Spinning' = Spinning
    BY <1>3 DEF Spinning, Unanswered, TypeOK
  <2>2. \A d \in Spinning : kind'[d] = kind[d]
    BY <1>3 DEF Spinning, Unanswered, TypeOK
  <2>3. ~raced => Waiting'
    BY <1>3 DEF Inv, Waiting, TypeOK
  <2> QED BY <1>1, <2>1, <2>2, <2>3, QuietInv
<1> QED BY <1>2, <1>3 DEF Check

\* Returning from an answered call leaves every other call alone.
LEMMA ReturnInv ==
  ASSUME TypeOK, Inv, NEW c \in Clients, Return(c)
  PROVE  Inv'
<1>1. /\ UNCHANGED <<ring, thread, cmd_sem, raced, lost>>
      /\ cpc[c] = "spin" /\ ret[c] # Pending
      /\ cpc' = [cpc EXCEPT ![c] = "idle"]
      /\ kind' = [kind EXCEPT ![c] = "send"] /\ ret' = [ret EXCEPT ![c] = 0]
  BY DEF Return
<1>2. Spinning' = Spinning
  BY <1>1 DEF Spinning, Unanswered, TypeOK
<1>3. \A d \in Spinning : kind'[d] = kind[d]
  BY <1>1 DEF Spinning, Unanswered, TypeOK
<1>4. ~raced => Waiting'
  BY <1>1 DEF Inv, Waiting, TypeOK
<1> QED BY <1>1, <1>2, <1>3, <1>4, QuietInv

\* A whole command behind a stream of whole commands.
LEMMA WriteSteady ==
  ASSUME TypeOK, NEW c \in Clients, Write(c), Fits(kind[c]), mpc # "store",
         ReadSoFar, Waiting, Framing, Owners
  PROVE  /\ Framing' /\ Owners'
         /\ rin \notin Infos /\ Infos' = Infos \cup {rin} /\ buf'[rin].of = c
         /\ \A a \in Infos : buf'[a] = buf[a]
<1> DEFINE k == kind[c]
           n == ParamLen[k]
<1>1. /\ rlen' = rlen + n + 1
      /\ rin' = (IF rin + n + 1 < Cap THEN rin + n + 1 ELSE rin + n + 1 - Cap)
      /\ \A a \in Address :
           buf'[a] = IF Ahead(a, rin) <= n THEN [of |-> c, cmd |-> k, at |-> Ahead(a, rin)]
                     ELSE buf[a]
  BY WriteFacts
<1>2. /\ UNCHANGED <<rout, hdr, got, mpc, kind, ret>>
      /\ cpc[c] = "write" /\ cpc' = [cpc EXCEPT ![c] = "spin"]
  BY DEF Write, thread
<1>3. k \in Kinds /\ n \in Nat \ {0} /\ rlen + n + 1 <= Cap
  <2>1. k \in Kinds /\ n \in Nat \ {0} /\ Cap - rlen >= n + 1
    BY ParamFacts DEF TypeOK, Fits
  <2> QED BY <2>1, RingFacts
<1>4. Count = rlen /\ Count' = rlen + n + 1
  BY <1>1, <1>2 DEF Count
<1>5. \A a : Offset(a)' = Offset(a)
  BY <1>2 DEF Offset
<1>0. rlen \in Nat /\ Cap \in Nat /\ rout \in Nat /\ rout < Cap
  BY RingFacts
<1> HIDE DEF k, n
<1>6. rin = (IF rout + rlen < Cap THEN rout + rlen ELSE rout + rlen - Cap) /\ rin \in Address
  BY <1>4 DEF Framing, TypeOK, Address
<1>7. ASSUME NEW a \in Address
      PROVE  Ahead(a, rin) = IF Offset(a) >= rlen THEN Offset(a) - rlen ELSE Offset(a) - rlen + Cap
  BY <1>3, <1>6, RingFacts DEF Ahead, Offset, Address
<1>8. \A a \in Address : a \in Held' <=> Offset(a) < rlen + n + 1
  BY <1>4, <1>5 DEF Held, Address
<1>9. \A a \in Address : a \in Held <=> Offset(a) < rlen
  BY <1>4, RingFacts
<1>10. ASSUME NEW a \in Held PROVE a \in Address /\ buf'[a] = buf[a] /\ a \in Held'
  <2>1. a \in Address /\ Offset(a) < rlen /\ Offset(a) \in Nat
    BY <1>9, RingFacts
  <2>2. ~(Ahead(a, rin) <= n) /\ Offset(a) < rlen + n + 1
    BY <1>3, <1>7, <2>1, RingFacts
  <2> QED BY <1>1, <1>8, <2>1, <2>2
<1>11. ASSUME NEW a \in Held', a \notin Held
       PROVE  /\ a \in Address
              /\ Offset(a) \in Nat /\ Offset(a) >= rlen /\ Offset(a) - rlen \in 0..n
              /\ buf'[a] = [of |-> c, cmd |-> k, at |-> Offset(a) - rlen]
              /\ buf'[a].of = c /\ buf'[a].cmd = k /\ buf'[a].at = Offset(a) - rlen
  <2>1. a \in Address
    BY DEF Held, Address
  <2>2. /\ Offset(a) \in Nat /\ Offset(a) >= rlen /\ Offset(a) < rlen + n + 1
    BY <1>8, <1>9, <1>11, <2>1, RingFacts
  <2>3. Ahead(a, rin) = Offset(a) - rlen /\ Offset(a) - rlen <= n /\ Offset(a) - rlen \in 0..n
    BY <1>0, <1>3, <1>7, <2>1, <2>2
  <2>4. buf'[a] = [of |-> c, cmd |-> k, at |-> Offset(a) - rlen]
    BY <1>1, <2>1, <2>3
  <2>5. buf'[a].of = c /\ buf'[a].cmd = k /\ buf'[a].at = Offset(a) - rlen
    BY <2>4
  <2> QED BY <2>1, <2>2, <2>3, <2>4, <2>5
<1>12. \A i \in 0..n : [of |-> c, cmd |-> k, at |-> i] \in Cell
  BY <1>3, CellFacts DEF n
<1>13. n = ParamLen[k]
  BY DEF n
<1>14. (Between' <=> Between) /\ LastRead' = LastRead
  BY <1>2 DEF Between, LastRead
<1>15. Framing'
  <2>1. rin' = (IF rout + Count' < Cap THEN rout + Count' ELSE rout + Count' - Cap)
    BY <1>1, <1>3, <1>4, <1>6, RingFacts
  <2>2. ASSUME NEW a \in Held'
        PROVE  buf'[a] \in Cell /\ (Offset(a) = Count' - 1 => buf'[a].at = ParamLen[buf'[a].cmd])
    <3>1. CASE a \in Held
      <4>1. Offset(a) # Count' - 1
        BY <1>3, <1>4, <1>9, <1>10, <3>1, RingFacts
      <4> QED BY <1>10, <3>1, <4>1 DEF Framing
    <3>2. CASE a \notin Held
      <4>1. /\ Offset(a) \in Nat /\ Offset(a) - rlen \in 0..n
            /\ buf'[a] = [of |-> c, cmd |-> k, at |-> Offset(a) - rlen]
        BY <1>11, <3>2
      <4>2. Offset(a) = Count' - 1 => Offset(a) - rlen = n
        BY <1>0, <1>3, <1>4, <4>1
      <4>3. buf'[a] \in Cell
        BY <1>12, <4>1
      <4> QED BY <1>13, <4>1, <4>2, <4>3
    <3> QED BY <3>1, <3>2
  <2>3. ASSUME NEW a \in Held', NEW b \in Held', Offset(b) = Offset(a) + 1
        PROVE  Follows(buf'[a], buf'[b])
    <3>1. CASE a \in Held /\ b \in Held
      BY <1>10, <2>3, <3>1 DEF Framing
    <3>2. CASE a \in Held /\ b \notin Held
      <4>0. /\ Offset(a) \in Nat /\ Offset(a) < rlen
            /\ Offset(b) \in Nat /\ Offset(b) >= rlen
        BY <1>9, <1>10, <1>11, <3>2, RingFacts
      <4>1. Offset(a) = Count - 1 /\ Offset(b) - rlen = 0
        BY <1>0, <1>4, <2>3, <4>0
      <4>2. buf'[a].at = ParamLen[buf'[a].cmd]
        BY <1>10, <3>2, <4>1 DEF Framing
      <4>3. buf'[b].at = 0
        BY <1>11, <3>2, <4>1
      <4> QED BY <4>2, <4>3 DEF Follows
    <3>3. CASE a \notin Held /\ b \notin Held
      <4>0. /\ Offset(a) \in Nat /\ Offset(b) \in Nat
            /\ Offset(a) - rlen \in 0..n /\ Offset(b) - rlen \in 0..n
        BY <1>11, <3>3
      <4>1. /\ Offset(a) - rlen < n /\ Offset(b) - rlen = (Offset(a) - rlen) + 1
        BY <1>0, <1>3, <2>3, <4>0
      <4>2. /\ buf'[a].of = c /\ buf'[a].cmd = k /\ buf'[a].at = Offset(a) - rlen
            /\ buf'[b] = [of |-> c, cmd |-> k, at |-> Offset(b) - rlen]
        BY <1>11, <3>3
      <4> QED BY <1>13, <4>1, <4>2 DEF Follows
    <3>4. CASE a \notin Held /\ b \in Held
      <4>1. /\ Offset(a) \in Nat /\ Offset(a) >= rlen
            /\ Offset(b) \in Nat /\ Offset(b) < rlen
        BY <1>9, <1>10, <1>11, <3>4, RingFacts
      <4> QED BY <1>0, <2>3, <4>1
    <3> QED BY <3>1, <3>2, <3>3, <3>4
  <2>4. IF Between THEN buf'[rout].at = 0 ELSE Follows(LastRead, buf'[rout])
    <3>1. CASE rlen > 0
      <4>1. rout \in Held
        BY <1>9, <3>1, RingFacts
      <4> QED BY <1>4, <1>10, <3>1, <4>1 DEF Framing
    <3>2. CASE rlen = 0
      <4>1. rout \in Held' /\ rout \notin Held /\ Offset(rout) - rlen = 0
        <5>1. rout \in Address /\ Offset(rout) = 0
          BY RingFacts
        <5> QED BY <1>0, <1>3, <1>8, <1>9, <3>2, <5>1
      <4>2. buf'[rout].at = 0
        BY <1>11, <4>1
      <4>3. ~Between => LastRead.at = ParamLen[LastRead.cmd]
        BY <1>4, <3>2 DEF Framing
      <4> QED BY <4>2, <4>3 DEF Follows
    <3> QED BY <3>1, <3>2, RingFacts
  <2>5. Count' # 0
    BY <1>3, <1>4, RingFacts
  <2> QED BY <1>2, <1>5, <1>14, <2>1, <2>2, <2>3, <2>4, <2>5 DEF Framing
<1>16. Offset(rin) = rlen
  BY <1>3, <1>6, RingFacts DEF Offset
<1>17. rin \notin Held /\ rin \in Held' /\ buf'[rin] = [of |-> c, cmd |-> k, at |-> 0]
  <2>1. rin \notin Held /\ rin \in Held'
    BY <1>3, <1>6, <1>8, <1>9, <1>16, RingFacts
  <2>2. Offset(rin) - rlen = 0
    BY <1>16, RingFacts
  <2> QED BY <1>11, <2>1, <2>2
<1>18. rin \notin Infos /\ Infos' = Infos \cup {rin} /\ \A a \in Infos : buf'[a] = buf[a]
  <2>1. ASSUME NEW a \in Held', a \notin Held, buf'[a].at = 0 PROVE a = rin
    <3>0. /\ a \in Address /\ Offset(a) \in Nat
          /\ buf'[a] = [of |-> c, cmd |-> k, at |-> Offset(a) - rlen]
      BY <1>11, <2>1
    <3>1. Offset(a) = Offset(rin)
      BY <1>0, <1>16, <2>1, <3>0
    <3> QED BY <1>6, <3>0, <3>1, RingFacts
  <2> QED BY <1>10, <1>17, <2>1 DEF Infos
<1>19. c \notin Spinning /\ Spinning' = Spinning \cup {c} /\ kind'[c] = k /\ kind' = kind
  BY <1>2 DEF Spinning, Unanswered, Waiting, TypeOK, k
<1>20. /\ \A a \in Infos : /\ buf[a].of \in Spinning /\ kind[buf[a].of] = buf[a].cmd
                          /\ buf'[a] = buf[a]
       /\ buf'[rin].of = c /\ buf'[rin].cmd = k
  BY <1>17, <1>18 DEF Owners
<1>21. Owners'
  <2>1. \A a \in Infos' : buf'[a].of \in Spinning' /\ kind'[buf'[a].of] = buf'[a].cmd
    BY <1>18, <1>19, <1>20
  <2>2. \A a, b \in Infos' : buf'[a].of = buf'[b].of => a = b
    BY <1>18, <1>19, <1>20 DEF Owners
  <2>3. ASSUME ~Between
        PROVE  /\ LastRead.of \in Spinning' /\ kind'[LastRead.of] = LastRead.cmd
               /\ \A a \in Infos' : buf'[a].of # LastRead.of
    <3>1. /\ LastRead.of \in Spinning /\ kind[LastRead.of] = LastRead.cmd
          /\ \A a \in Infos : buf[a].of # LastRead.of
      BY <2>3 DEF Owners
    <3> QED BY <1>18, <1>19, <1>20, <3>1
  <2> QED BY <1>14, <2>1, <2>2, <2>3 DEF Owners
<1> QED BY <1>15, <1>17, <1>18, <1>21

\* A task's second critical section: in a race anything may follow, otherwise
\* the ring gains one command with its token.
LEMMA WriteInv ==
  ASSUME TypeOK, Inv, NEW c \in Clients, Write(c)
  PROVE  Inv'
<1> SUFFICES ASSUME ~raced'
             PROVE  /\ ReadSoFar' /\ Waiting' /\ Clearing'
                    /\ Steady' => Framing' /\ Owners'
                    /\ ~lost' => Accounts'
  BY DEF Inv
<1>1. ~raced /\ ~InStore /\ Fits(kind[c])
  BY DEF Write
<1>2. /\ ReadSoFar /\ Waiting /\ Clearing /\ (Steady => Framing /\ Owners) /\ (~lost => Accounts)
  BY <1>1 DEF Inv
<1>3. /\ UNCHANGED <<rout, kind, ret, mpc, need, got, tmp, hdr, lost>>
      /\ cmd_sem' = cmd_sem + 1
      /\ cpc[c] = "write" /\ cpc' = [cpc EXCEPT ![c] = "spin"]
      /\ mpc \notin {"store", "clear_in", "clear_out"}
  BY <1>1 DEF Write, Post, thread, InStore
<1>4. /\ Between' <=> Between
      /\ LastRead' = LastRead
      /\ Steady' <=> Steady
      /\ TokenTaken' = TokenTaken
  BY <1>3 DEF Between, LastRead, Steady, TokenTaken
<1>5. ReadSoFar'
  BY <1>2, <1>3, <1>4 DEF ReadSoFar
<1>6. Waiting' /\ Clearing'
  BY <1>2, <1>3 DEF Waiting, Clearing, TypeOK
<1>7. CASE Steady
  <2>1. /\ Framing' /\ Owners'
        /\ rin \notin Infos /\ Infos' = Infos \cup {rin} /\ buf'[rin].of = c
        /\ \A a \in Infos : buf'[a] = buf[a]
    BY <1>1, <1>2, <1>3, <1>7, WriteSteady
  <2>2. Spinning' = Spinning \cup {c}
    BY <1>2, <1>3 DEF Spinning, Unanswered, Waiting, TypeOK
  <2>3. ASSUME ~lost PROVE Accounts'
    <3>1. Cardinality(Infos') = Cardinality(Infos) + 1
      BY <2>1, InfosFinite, FS_AddElement
    <3>2. /\ Cardinality(Infos) = cmd_sem + TokenTaken
          /\ \A d \in Spinning : (\E a \in Infos : buf[a].of = d) \/ (~Between /\ LastRead.of = d)
      BY <1>2, <1>7, <2>3 DEF Accounts
    <3>3. \A d \in Spinning' : (\E a \in Infos' : buf'[a].of = d) \/ (~Between /\ LastRead.of = d)
      BY <2>1, <2>2, <3>2
    <3>4. Cardinality(Infos') = cmd_sem' + TokenTaken'
      <4>1. TokenTaken \in {0, 1} /\ cmd_sem \in Nat
        BY DEF TokenTaken, TypeOK
      <4> QED BY <1>3, <1>4, <3>1, <3>2, <4>1
    <3>5. mpc' # "clear_len" /\ mpc' \notin {"clear_in", "clear_out"}
      BY <1>3, <1>7 DEF Steady
    <3> QED BY <1>4, <3>3, <3>4, <3>5 DEF Accounts
  <2> QED BY <1>3, <1>4, <1>5, <1>6, <2>1, <2>3
<1>8. CASE ~Steady
  <2>1. mpc = "clear_len"
    BY <1>3, <1>8 DEF TypeOK, Steady
  <2>2. rlen' # 0
    <3>1. rlen' = rlen + ParamLen[kind[c]] + 1
      BY <1>1, WriteFacts
    <3>2. rlen \in Nat /\ ParamLen[kind[c]] \in Nat
      BY ParamFacts DEF TypeOK
    <3> QED BY <3>1, <3>2
  <2>3. Accounts'
    BY <1>3, <1>4, <1>8, <2>1, <2>2 DEF Accounts
  <2> QED BY <1>4, <1>5, <1>6, <1>8, <2>3
<1> QED BY <1>7, <1>8

-----------------------------------------------------------------------------
(***************************************************************************)
(* The modem thread.                                                       *)
(***************************************************************************)

\* Configuring the modem does not concern the commands that already queue.
LEMMA ConfigInv ==
  ASSUME TypeOK, Inv, ConfigStage \/ Restart
  PROVE  Inv'
<1>1. /\ UNCHANGED <<buf, rin, rout, rlen, cmd_sem, cpc, kind, ret, need, got, tmp, hdr, raced, lost>>
      /\ mpc \in {"config", "restart"} /\ mpc' \in {"config", "pend", "restart"}
  BY DEF ConfigStage, Restart, ring, tasks
<1> SUFFICES ASSUME ~raced
             PROVE  /\ ReadSoFar' /\ Waiting' /\ Clearing' /\ Framing' /\ Owners'
                    /\ ~lost' => Accounts'
  BY <1>1 DEF Inv
<1>2. /\ ReadSoFar /\ Waiting /\ Clearing /\ Framing /\ Owners /\ (~lost => Accounts)
  BY <1>1 DEF Inv, Steady
<1>3. /\ Between /\ Between' /\ Count' = Count /\ Spinning' = Spinning
      /\ TokenTaken' = TokenTaken /\ Steady /\ Steady'
  BY <1>1, <1>2 DEF ReadSoFar, Between, Count, Spinning, Unanswered, TokenTaken, Steady
<1>4. ReadSoFar'
  BY <1>1, <1>2, <1>3 DEF ReadSoFar
<1>5. Waiting' /\ Clearing'
  BY <1>1, <1>2 DEF Waiting, Clearing
<1>6. Framing' /\ Owners'
  BY <1>1, <1>2, <1>3, FramingKept, OwnersKept
<1>7. ~lost => Accounts'
  BY <1>1, <1>2, <1>3, AccountsKept
<1> QED BY <1>1, <1>4, <1>5, <1>6, <1>7

\* A token taken stands for a command in the ring; a full ring cannot be read
\* and is cleared.
LEMMA PendOkInv ==
  ASSUME TypeOK, Inv, PendOk
  PROVE  Inv'
<1>1. /\ UNCHANGED <<buf, rin, rout, rlen, cpc, kind, ret, got, hdr, tmp, raced, lost>>
      /\ mpc = "pend" /\ cmd_sem' = cmd_sem - 1
      /\ \/ mpc' = "clear_len" /\ Cap - rlen < 1
         \/ mpc' = "fetch" /\ need' = 1
  BY DEF PendOk, Reading, ring, tasks
<1> SUFFICES ASSUME ~raced
             PROVE  /\ ReadSoFar' /\ Waiting' /\ Clearing'
                    /\ Steady' => Framing' /\ Owners'
                    /\ ~lost' => Accounts'
  BY <1>1 DEF Inv
<1>2. /\ ReadSoFar /\ Waiting /\ Framing /\ Owners /\ (~lost => Accounts) /\ Steady
  BY <1>1 DEF Inv, Steady
<1>3. /\ Between /\ Between' /\ Count' = Count /\ Spinning' = Spinning /\ hdr = NoCell /\ got = <<>>
  BY <1>1, <1>2 DEF ReadSoFar, Between, Count, Spinning, Unanswered
<1>4. ReadSoFar'
  BY <1>1, <1>2, <1>3 DEF ReadSoFar
<1>5. Waiting' /\ Clearing'
  BY <1>1, <1>2 DEF Waiting, Clearing
<1>6. Framing' /\ Owners'
  BY <1>1, <1>2, <1>3, FramingKept, OwnersKept
<1>7. CASE mpc' = "clear_len"
  <2>1. rlen' # 0
    BY <1>1, <1>7, RingFacts
  <2> QED BY <1>4, <1>5, <1>6, <1>7, <2>1 DEF Accounts, Steady
<1>8. CASE mpc' = "fetch"
  <2>1. Steady' /\ TokenTaken = 0 /\ TokenTaken' = 1
    BY <1>1, <1>3, <1>8 DEF Steady, TokenTaken
  <2>2. cmd_sem' + TokenTaken' = cmd_sem + TokenTaken
    BY <1>1, <2>1 DEF TypeOK
  <2>3. ~lost => Accounts'
    BY <1>1, <1>2, <1>3, <2>1, <2>2, AccountsKept
  <2> QED BY <1>1, <1>4, <1>5, <1>6, <2>3
<1> QED BY <1>1, <1>7, <1>8

\* After five idle seconds without a token no task waits.
LEMMA PendTimeoutInv ==
  ASSUME TypeOK, Inv, PendTimeout
  PROVE  Inv'
<1>1. /\ UNCHANGED <<buf, rin, rout, rlen, cmd_sem, cpc, kind, ret, need, got, hdr, tmp, raced, lost>>
      /\ mpc = "pend" /\ cmd_sem = 0 /\ mpc' = "clear_len"
  BY DEF PendTimeout, ring, tasks
<1> SUFFICES ASSUME ~raced
             PROVE  /\ ReadSoFar' /\ Waiting' /\ Clearing'
                    /\ Steady' => Framing' /\ Owners'
                    /\ ~lost' => Accounts'
  BY <1>1 DEF Inv
<1>2. /\ ReadSoFar /\ Waiting /\ (~lost => Accounts) /\ Steady /\ ~Steady'
  BY <1>1 DEF Inv, Steady
<1>3. /\ Between /\ Between' /\ Spinning' = Spinning
  BY <1>1, <1>2 DEF ReadSoFar, Between, Spinning, Unanswered
<1>4. ReadSoFar' /\ Waiting' /\ Clearing'
  BY <1>1, <1>2, <1>3 DEF ReadSoFar, Waiting, Clearing
<1>5. ASSUME ~lost, rlen = 0 PROVE Nobody'
  <2>1. Infos = {}
    BY <1>1, <1>5, EmptyInfos DEF Count
  <2>2. Spinning = {}
    BY <1>2, <1>3, <1>5, <2>1 DEF Accounts
  <2> QED BY <1>1, <1>3, <2>2 DEF Nobody
<1>6. ~lost' => Accounts'
  BY <1>1, <1>2, <1>5 DEF Accounts
<1> QED BY <1>2, <1>4, <1>6

\* The cell that is taken continues the command in hand, and the next one
\* continues it in turn.
LEMMA FetchInv ==
  ASSUME TypeOK, Inv, Fetch
  PROVE  Inv'
<1>1. /\ UNCHANGED <<buf, rin, rlen, cmd_sem, cpc, kind, ret, need, hdr, raced, lost>>
      /\ mpc = "fetch" /\ Len(got) < need /\ rlen > 0
      /\ got' = Append(got, buf[rout]) /\ rout' = Step(rout) /\ tmp' = rlen /\ mpc' = "store"
  BY DEF Fetch, tasks
<1> SUFFICES ASSUME ~raced
             PROVE  /\ ReadSoFar' /\ Waiting' /\ Clearing' /\ Framing' /\ Owners'
                    /\ ~lost' => Accounts'
  BY <1>1 DEF Inv
<1>2. /\ ReadSoFar /\ Waiting /\ Framing /\ Owners /\ (~lost => Accounts) /\ Steady /\ Steady'
  BY <1>1 DEF Inv, Steady
<1>3. Waiting' /\ Clearing' /\ Spinning' = Spinning
  BY <1>1, <1>2 DEF Waiting, Clearing, Spinning, Unanswered
<1>4. /\ rlen \in Nat /\ rlen <= Cap /\ Cap \in Nat /\ rout \in Nat /\ rout < Cap
      /\ Count = rlen /\ Count' = rlen - 1
      /\ rout' = (IF rout + 1 < Cap THEN rout + 1 ELSE rout + 1 - Cap) /\ rout' \in Address
  <2>1. rlen \in Nat /\ rlen <= Cap /\ Cap \in Nat /\ rout \in Nat /\ rout < Cap /\ rout \in Address
    BY RingFacts
  <2>2. Count = rlen /\ Count' = rlen - 1
    BY <1>1 DEF Count
  <2> QED BY <1>1, <2>1, <2>2, StepFacts
<1>5. rout \in Address /\ Offset(rout) = 0 /\ rout \in Held
  BY <1>1, <1>4, RingFacts
<1>6. ASSUME NEW a \in Address
      PROVE  /\ Offset(a) \in Nat /\ Offset(a) < Cap
             /\ Offset(a)' = IF Offset(a) = 0 THEN Cap - 1 ELSE Offset(a) - 1
             /\ Offset(a) = 0 => a = rout
             /\ a \in Held <=> Offset(a) < rlen
             /\ a \in Held' <=> Offset(a)' < rlen - 1
  <2>1. a \in Nat /\ a < Cap
    BY <1>4 DEF Address
  <2>2. /\ Offset(a) \in Nat /\ Offset(a) < Cap /\ (Offset(a) = 0 => a = rout)
        /\ Offset(a)' = IF Offset(a) = 0 THEN Cap - 1 ELSE Offset(a) - 1
    BY <1>4, <2>1 DEF Offset
  <2>3. (a \in Held <=> Offset(a) < rlen) /\ (a \in Held' <=> Offset(a)' < rlen - 1)
    BY <1>4 DEF Held, Address
  <2> QED BY <2>2, <2>3
<1>7. /\ Held' = Held \ {rout}
      /\ \A a \in Held' : a \in Address /\ Offset(a) \in Nat /\ Offset(a)' = Offset(a) - 1
  <2>1. Held \subseteq Address /\ Held' \subseteq Address
    BY DEF Held, Address
  <2>2. ASSUME NEW a \in Address
        PROVE  /\ a \in Held' <=> a \in Held /\ a # rout
               /\ a \in Held' => Offset(a) \in Nat /\ Offset(a)' = Offset(a) - 1
    BY <1>4, <1>5, <1>6
  <2> QED BY <2>1, <2>2
<1>8. Infos' = Infos \ {rout}
  BY <1>1, <1>7 DEF Infos
<1>9. buf[rout] \in Cell /\ (rlen = 1 => buf[rout].at = ParamLen[buf[rout].cmd])
  BY <1>2, <1>4, <1>5 DEF Framing
<1>10. got \in Seq(Entry) /\ Len(got) \in Nat /\ need \in Nat
  BY ParamFacts DEF TypeOK, Entry
<1>11. /\ got' \in Seq(Entry) /\ Len(got') = Len(got) + 1 /\ got' # <<>>
       /\ got'[Len(got) + 1] = buf[rout]
       /\ \A j \in 1..Len(got) : got'[j] = got[j]
  <2>1. buf[rout] \in Entry
    BY <1>9 DEF Entry
  <2> DEFINE x == buf[rout]
  <2>2. x \in Entry /\ got' = Append(got, x)
    BY <1>1, <2>1
  <2> HIDE DEF x
  <2>3. /\ got' \in Seq(Entry) /\ Len(got') = Len(got) + 1
        /\ got'[Len(got) + 1] = x
        /\ \A j \in 1..Len(got) : got'[j] = got[j]
    BY <1>10, <2>2
  <2>4. got' # <<>>
    BY <1>10, <2>3
  <2> QED BY <2>3, <2>4 DEF x
<1>12. /\ ~Between' /\ LastRead' = buf[rout] /\ ReadSoFar' /\ Owners'
       /\ ~lost => Accounts'
  <2>1. CASE hdr = NoCell
    <3>1. need = 1 /\ got = <<>> /\ Between /\ Len(got) = 0
      BY <1>1, <1>2, <1>10, <2>1 DEF ReadSoFar, Between
    <3>2. /\ ~Between' /\ LastRead' = buf[rout] /\ got'[1] = buf[rout] /\ Len(got') = 1
      BY <1>1, <1>11, <2>1, <3>1 DEF Between, LastRead
    <3>3. buf[rout].at = 0 /\ rout \in Infos
      BY <1>1, <1>2, <1>4, <1>5, <3>1 DEF Framing, Infos
    <3>4. ReadSoFar'
      BY <1>1, <1>9, <1>11, <2>1, <3>1, <3>2, <3>3 DEF ReadSoFar
    <3>5. Owners'
      BY <1>1, <1>2, <1>3, <1>8, <3>2, <3>3 DEF Owners
    <3>6. ASSUME ~lost PROVE Accounts'
      <4>1. /\ Cardinality(Infos) = cmd_sem + 1
            /\ \A d \in Spinning : \E a \in Infos : buf[a].of = d
        BY <1>1, <1>2, <2>1, <3>1, <3>6 DEF Accounts, TokenTaken
      <4>2. Cardinality(Infos') = Cardinality(Infos) - 1
        BY <1>8, <3>3, InfosFinite, FS_RemoveElement
      <4>3. Cardinality(Infos') = cmd_sem' + TokenTaken'
        <5>1. TokenTaken' = 0
          BY <1>1 DEF TokenTaken
        <5>2. cmd_sem \in Nat
          BY DEF TypeOK
        <5> QED BY <1>1, <4>1, <4>2, <5>1, <5>2
      <4>4. \A d \in Spinning' : (\E a \in Infos' : buf'[a].of = d) \/ (~Between' /\ LastRead'.of = d)
        BY <1>1, <1>3, <1>8, <3>2, <4>1
      <4> QED BY <1>1, <4>3, <4>4 DEF Accounts
    <3> QED BY <3>2, <3>4, <3>5, <3>6
  <2>2. CASE hdr # NoCell
    <3>1. /\ hdr \in Cell /\ hdr.of \in Clients /\ hdr.cmd \in Kinds /\ need = ParamLen[hdr.cmd] /\ ~Between
          /\ LastRead = [of |-> hdr.of, cmd |-> hdr.cmd, at |-> Len(got)]
          /\ LastRead.of = hdr.of /\ LastRead.cmd = hdr.cmd /\ LastRead.at = Len(got)
      BY <1>1, <1>2, <2>2, CellFacts DEF ReadSoFar, Between, LastRead, TypeOK
    <3>2. Follows(LastRead, buf[rout])
      BY <1>1, <1>2, <1>4, <3>1 DEF Framing
    <3>3. buf[rout] = [of |-> hdr.of, cmd |-> hdr.cmd, at |-> Len(got) + 1]
      BY <1>1, <1>10, <3>1, <3>2 DEF Follows
    <3>4. buf[rout].at # 0 /\ buf[rout].of = hdr.of /\ buf[rout].cmd = hdr.cmd
      BY <1>10, <3>3
    <3>5. ~Between' /\ LastRead' = buf[rout]
      BY <1>1, <1>11, <2>2, <3>3 DEF Between, LastRead
    <3>6. Infos' = Infos
      BY <1>8, <3>4 DEF Infos
    <3>7. ReadSoFar'
      <4>1. /\ hdr.at = 0 /\ Len(got) + 1 <= ParamLen[hdr.cmd]
            /\ \A j \in 1..Len(got) : got[j] = [of |-> hdr.of, cmd |-> hdr.cmd, at |-> j]
        BY <1>1, <1>2, <1>10, <2>2, <3>1 DEF ReadSoFar
      <4>2. \A j \in 1..(Len(got) + 1) : got'[j] = [of |-> hdr.of, cmd |-> hdr.cmd, at |-> j]
        <5>1. ASSUME NEW j \in 1..(Len(got) + 1)
              PROVE  got'[j] = [of |-> hdr.of, cmd |-> hdr.cmd, at |-> j]
          <6>1. CASE j = Len(got) + 1
            BY <1>11, <3>3, <6>1
          <6>2. CASE j # Len(got) + 1
            <7>1. j \in 1..Len(got)
              BY <1>10, <6>2
            <7> QED BY <1>11, <4>1, <7>1
          <6> QED BY <6>1, <6>2
        <5> QED BY <5>1
      <4> QED BY <1>1, <1>11, <2>2, <3>1, <4>1, <4>2 DEF ReadSoFar
    <3>8. Owners'
      BY <1>1, <1>2, <1>3, <3>1, <3>4, <3>5, <3>6 DEF Owners
    <3>9. ASSUME ~lost PROVE Accounts'
      <4>1. TokenTaken = 0 /\ TokenTaken' = 0
        BY <1>1, <2>2 DEF TokenTaken
      <4> QED BY <1>1, <1>2, <1>3, <3>1, <3>4, <3>5, <3>6, <3>9, <4>1 DEF Accounts
    <3> QED BY <3>5, <3>7, <3>8, <3>9
  <2> QED BY <2>1, <2>2
<1>13. ~Between' /\ LastRead' = buf[rout]
  BY <1>12
<1>14. Framing'
  <2>1. rin' = (IF rout' + Count' < Cap THEN rout' + Count' ELSE rout' + Count' - Cap)
    <3>1. rin = (IF rout + rlen < Cap THEN rout + rlen ELSE rout + rlen - Cap)
      BY <1>2, <1>4 DEF Framing
    <3> QED BY <1>1, <1>4, <3>1
  <2>2. ASSUME NEW a \in Held'
        PROVE  /\ buf'[a] \in Cell
               /\ Offset(a)' = Count' - 1 => buf'[a].at = ParamLen[buf'[a].cmd]
    <3>1. a \in Held /\ buf'[a] = buf[a] /\ Offset(a) \in Nat /\ Offset(a)' = Offset(a) - 1
      BY <1>1, <1>7
    <3>2. Offset(a)' = Count' - 1 => Offset(a) = Count - 1
      BY <1>4, <3>1
    <3> QED BY <1>2, <3>1, <3>2 DEF Framing
  <2>3. ASSUME NEW a \in Held', NEW b \in Held', Offset(b)' = Offset(a)' + 1
        PROVE  Follows(buf'[a], buf'[b])
    <3>1. /\ a \in Held /\ b \in Held /\ buf' = buf
          /\ Offset(a) \in Nat /\ Offset(a)' = Offset(a) - 1
          /\ Offset(b) \in Nat /\ Offset(b)' = Offset(b) - 1
      BY <1>1, <1>7
    <3>2. Offset(b) = Offset(a) + 1
      BY <2>3, <3>1
    <3> QED BY <1>2, <3>1, <3>2 DEF Framing
  <2>4. ASSUME Count' > 0 PROVE Follows(buf[rout], buf'[rout'])
    <3>1. rlen > 1
      BY <1>4, <2>4
    <3>2. Offset(rout') = 1 /\ rout' \in Held
      <4>1. rout' \in Address /\ rout' # rout
        BY <1>4, <3>1
      <4>2. Offset(rout') = 1
        BY <1>4, <3>1 DEF Offset
      <4> QED BY <1>4, <1>6, <3>1, <4>1, <4>2
    <3>3. Follows(buf[rout], buf[rout'])
      BY <1>2, <1>5, <3>2 DEF Framing
    <3> QED BY <1>1, <3>3
  <2>5. Count' = 0 => buf[rout].at = ParamLen[buf[rout].cmd]
    BY <1>4, <1>9
  <2> QED BY <1>13, <2>1, <2>2, <2>3, <2>4, <2>5 DEF Framing
<1> QED BY <1>1, <1>3, <1>12, <1>14

\* Storing the length that was loaded brings the count up to date.
LEMMA StoreLenInv ==
  ASSUME TypeOK, Inv, StoreLen
  PROVE  Inv'
<1>1. /\ UNCHANGED <<buf, rin, rout, cmd_sem, cpc, kind, ret, need, got, hdr, raced, lost>>
      /\ mpc = "store" /\ rlen' = tmp - 1 /\ mpc' = "fetch"
  BY DEF StoreLen, tasks
<1> SUFFICES ASSUME ~raced
             PROVE  /\ ReadSoFar' /\ Waiting' /\ Clearing' /\ Framing' /\ Owners'
                    /\ ~lost' => Accounts'
  BY <1>1 DEF Inv
<1>2. /\ ReadSoFar /\ Waiting /\ Framing /\ Owners /\ (~lost => Accounts) /\ Steady /\ Steady'
  BY <1>1 DEF Inv, Steady
<1>3. tmp = rlen /\ got # <<>>
  BY <1>1, <1>2 DEF ReadSoFar
<1>4. /\ Count' = Count /\ (Between' <=> Between) /\ LastRead' = LastRead
      /\ Spinning' = Spinning /\ TokenTaken' = 0 /\ TokenTaken = 0
  BY <1>1, <1>3 DEF Count, Between, LastRead, Spinning, Unanswered, TokenTaken
<1>5. ReadSoFar'
  BY <1>1, <1>2, <1>4 DEF ReadSoFar
<1>6. Waiting' /\ Clearing'
  BY <1>1, <1>2 DEF Waiting, Clearing
<1>7. Framing' /\ Owners'
  BY <1>1, <1>2, <1>4, FramingKept, OwnersKept
<1>8. ~lost => Accounts'
  BY <1>1, <1>2, <1>4, AccountsKept
<1> QED BY <1>1, <1>5, <1>6, <1>7, <1>8

\* What was read first is the cmd_info of a command, and it says how much
\* there is to read.
LEMMA GotInfoInv ==
  ASSUME TypeOK, Inv, GotInfo
  PROVE  Inv'
<1>1. /\ UNCHANGED <<buf, rin, rout, rlen, cmd_sem, cpc, kind, ret, tmp, raced, lost>>
      /\ mpc = "fetch" /\ hdr = NoCell
  BY DEF GotInfo, ring, tasks
<1> SUFFICES ASSUME ~raced
             PROVE  /\ ReadSoFar' /\ Waiting' /\ Clearing'
                    /\ Steady' => Framing' /\ Owners'
                    /\ ~lost' => Accounts'
  BY <1>1 DEF Inv
<1>2. /\ ReadSoFar /\ Waiting /\ Framing /\ Owners /\ (~lost => Accounts) /\ Steady
  BY <1>1 DEF Inv, Steady
<1>3. /\ need = 1 /\ Spinning' = Spinning
      /\ got # <<>> => Len(got) = 1 /\ got[1] \in Cell /\ got[1].at = 0
  BY <1>1, <1>2 DEF ReadSoFar, Spinning, Unanswered
<1>4. Waiting'
  BY <1>1, <1>2 DEF Waiting
<1>5. CASE Len(got) # need
  <2>1. mpc' = "clear_len" /\ UNCHANGED <<need, hdr, got>> /\ rlen = 0 /\ got = <<>>
    BY <1>3, <1>5 DEF GotInfo
  <2>2. ReadSoFar' /\ Clearing' /\ ~Steady'
    BY <1>1, <1>2, <2>1 DEF ReadSoFar, Clearing, Between, Steady
  <2>3. ~lost => FALSE
    <3>1. Cardinality(Infos) = 0
      BY <1>1, <2>1, EmptyInfos DEF Count
    <3>2. ~lost => Cardinality(Infos) = cmd_sem + 1
      BY <1>1, <1>2, <2>1 DEF Accounts, TokenTaken
    <3>3. cmd_sem \in Nat
      BY DEF TypeOK
    <3> QED BY <3>1, <3>2, <3>3
  <2> QED BY <1>1, <1>4, <2>2, <2>3
<1>6. CASE Len(got) = need
  <2>0. got # <<>>
    BY <1>3, <1>6
  <2>1. InfoOf(got[1]) = {got[1]} /\ got[1] # NoCell /\ got[1].cmd \in Kinds /\ got[1].of \in Clients
    BY <1>3, <2>0, CellFacts DEF InfoOf
  <2>2. hdr' = got[1] /\ got' = <<>> /\ Reading(SizeOfParams(got[1].cmd), "fetch")
    BY <1>6, <2>1 DEF GotInfo
  <2>3. /\ hdr' # NoCell /\ Len(got') = 0
        /\ \/ mpc' = "clear_len"
           \/ mpc' = "fetch" /\ need' = ParamLen[hdr'.cmd]
    BY <2>1, <2>2 DEF Reading, SizeOfParams
  <2>4. ~Between' /\ ~Between /\ LastRead = got[1] /\ LastRead' = got[1]
    <3>1. got[1] = [of |-> got[1].of, cmd |-> got[1].cmd, at |-> 0]
      BY <1>3, <2>0 DEF Cell
    <3> QED BY <1>1, <2>0, <2>2, <2>3, <3>1 DEF Between, LastRead
  <2>5. ReadSoFar'
    <3>1. hdr'.at = 0 /\ hdr'.cmd \in Kinds /\ 0 <= ParamLen[hdr'.cmd]
      BY <1>3, <2>0, <2>1, <2>2, ParamFacts
    <3>2. \A j \in 1..Len(got') : got'[j] = [of |-> hdr'.of, cmd |-> hdr'.cmd, at |-> j]
      BY <2>3
    <3> QED BY <2>3, <3>1, <3>2 DEF ReadSoFar
  <2>6. Clearing' /\ Count' = Count
    BY <1>1, <2>3 DEF Clearing, Count
  <2>7. Framing' /\ Owners'
    BY <1>1, <1>2, <1>3, <2>4, <2>6, FramingKept, OwnersKept
  <2>8. ASSUME ~lost PROVE Accounts'
    <3>1. CASE mpc' = "clear_len"
      BY <2>4, <3>1 DEF Accounts, Steady
    <3>2. CASE mpc' = "fetch"
      <4>1. Steady' /\ TokenTaken = 0 /\ TokenTaken' = 0
        BY <2>0, <2>3, <3>2 DEF Steady, TokenTaken
      <4> QED BY <1>1, <1>2, <1>3, <2>4, <2>6, <2>8, <4>1, AccountsKept
    <3> QED BY <2>3, <3>1, <3>2
  <2> QED BY <1>1, <1>4, <2>5, <2>6, <2>7, <2>8
<1> QED BY <1>5, <1>6

\* All parameters have been read, or the command is given up.
LEMMA GotParamsInv ==
  ASSUME TypeOK, Inv, GotParams
  PROVE  Inv'
<1>1. /\ UNCHANGED <<buf, rin, rout, rlen, cmd_sem, cpc, kind, ret, need, got, tmp, hdr, raced, lost>>
      /\ mpc = "fetch" /\ hdr # NoCell
      /\ mpc' = IF Len(got) = need THEN "handle" ELSE "clear_len"
  BY DEF GotParams, ring, tasks
<1> SUFFICES ASSUME ~raced
             PROVE  /\ ReadSoFar' /\ Waiting' /\ Clearing'
                    /\ Steady' => Framing' /\ Owners'
                    /\ ~lost' => Accounts'
  BY <1>1 DEF Inv
<1>2. /\ ReadSoFar /\ Waiting /\ Framing /\ Owners /\ (~lost => Accounts) /\ Steady
  BY <1>1 DEF Inv, Steady
<1>3. /\ need = ParamLen[hdr.cmd] /\ Spinning' = Spinning /\ Count' = Count
      /\ ~Between /\ ~Between' /\ LastRead' = LastRead
  BY <1>1, <1>2 DEF ReadSoFar, Spinning, Unanswered, Count, Between, LastRead
<1>4. Waiting' /\ Clearing' /\ ReadSoFar'
  BY <1>1, <1>2, <1>3 DEF Waiting, Clearing, ReadSoFar
<1>5. Framing' /\ Owners'
  BY <1>1, <1>2, <1>3, FramingKept, OwnersKept
<1>6. ASSUME ~lost PROVE Accounts'
  <2>1. CASE mpc' = "clear_len"
    BY <1>3, <2>1 DEF Accounts, Steady
  <2>2. CASE mpc' = "handle"
    <3>1. Steady' /\ TokenTaken = 0 /\ TokenTaken' = 0
      BY <1>1, <2>2 DEF Steady, TokenTaken
    <3> QED BY <1>1, <1>2, <1>3, <1>6, <3>1, AccountsKept
  <2> QED BY <1>1, <2>1, <2>2
<1> QED BY <1>1, <1>4, <1>5, <1>6

\* The answer ends the command in hand: its task no longer waits, and the next
\* cell begins a command.
LEMMA HandleInv ==
  ASSUME TypeOK, Inv, Handle
  PROVE  Inv'
<1>1. /\ UNCHANGED <<buf, rin, rout, rlen, cmd_sem, cpc, kind, tmp, raced, lost>>
      /\ mpc = "handle" /\ mpc' = "pend" /\ got' = <<>> /\ hdr' = NoCell
  BY DEF Handle, ring
<1> SUFFICES ASSUME ~raced
             PROVE  /\ ReadSoFar' /\ Waiting' /\ Clearing' /\ Framing' /\ Owners'
                    /\ ~lost' => Accounts'
  BY <1>1 DEF Inv
<1>2. /\ ReadSoFar /\ Waiting /\ Framing /\ Owners /\ (~lost => Accounts) /\ Steady /\ Steady'
  BY <1>1 DEF Inv, Steady
<1>3. /\ hdr # NoCell /\ hdr \in Cell /\ hdr.of \in Clients /\ hdr.cmd \in Kinds
      /\ Len(got) = ParamLen[hdr.cmd] /\ Len(got) \in 1..Len(got)
  BY <1>1, <1>2, CellFacts, ParamFacts DEF ReadSoFar, TypeOK
<1>4. AnswersTo = hdr.of
  <2>1. got[Len(got)] = [of |-> hdr.of, cmd |-> hdr.cmd, at |-> Len(got)]
    BY <1>2, <1>3 DEF ReadSoFar
  <2> QED BY <2>1 DEF AnswersTo
<1>5. PICK r \in {0, 1} : ret' = [ret EXCEPT ![hdr.of] = r]
  BY <1>3, <1>4 DEF Handle, Answer
<1>6. /\ Between' /\ ~Between /\ Count' = Count /\ TokenTaken = 0 /\ TokenTaken' = 0
      /\ LastRead = [of |-> hdr.of, cmd |-> hdr.cmd, at |-> Len(got)]
      /\ LastRead.of = hdr.of /\ LastRead.cmd = hdr.cmd /\ LastRead.at = Len(got)
  BY <1>1, <1>3 DEF Between, Count, TokenTaken, LastRead
<1>7. hdr.of \in Spinning /\ Spinning' = Spinning \ {hdr.of}
  <2>1. hdr.of \in Spinning
    BY <1>2, <1>6 DEF Owners
  <2>2. r # Pending
    BY DEF Pending
  <2> QED BY <1>1, <1>3, <1>5, <2>1, <2>2 DEF Spinning, Unanswered, TypeOK
<1>8. ReadSoFar'
  BY <1>1, <1>6 DEF ReadSoFar
<1>9. Waiting' /\ Clearing'
  <2>1. cpc[hdr.of] = "spin"
    BY <1>7 DEF Spinning, Unanswered
  <2> QED BY <1>1, <1>2, <1>3, <1>5, <2>1 DEF Waiting, Clearing, TypeOK
<1>10. Held' = Held /\ Infos' = Infos /\ \A a : Offset(a)' = Offset(a)
  BY <1>1, <1>6, SameCells
<1>11. Framing'
  <2>1. Count > 0 => buf[rout].at = 0
    <3>1. Count > 0 => Follows(LastRead, buf[rout])
      BY <1>2, <1>6 DEF Framing
    <3>2. LastRead.at = ParamLen[LastRead.cmd] /\ LastRead.at \in Nat
      BY <1>3, <1>6, ParamFacts
    <3> QED BY <3>1, <3>2 DEF Follows
  <2> QED BY <1>1, <1>2, <1>6, <1>10, <2>1 DEF Framing
<1>12. Owners'
  BY <1>1, <1>2, <1>6, <1>7, <1>10 DEF Owners
<1>13. ASSUME ~lost PROVE Accounts'
  <2>1. \A d \in Spinning' : \E a \in Infos' : buf'[a].of = d
    BY <1>1, <1>2, <1>6, <1>7, <1>10, <1>13 DEF Accounts
  <2>2. Cardinality(Infos') = cmd_sem' + TokenTaken'
    BY <1>1, <1>2, <1>6, <1>10, <1>13 DEF Accounts
  <2> QED BY <1>1, <2>1, <2>2 DEF Accounts
<1> QED BY <1>1, <1>8, <1>9, <1>11, <1>12, <1>13

-----------------------------------------------------------------------------
(***************************************************************************)
(* ringbuffer_clear, store by store.                                       *)
(***************************************************************************)

\* A clear that throws nothing away leaves no task waiting.
LEMMA ClearLenInv ==
  ASSUME TypeOK, Inv, ClearLen
  PROVE  Inv'
<1>1. /\ UNCHANGED <<cmd_sem, cpc, kind, ret, raced>>
      /\ mpc = "clear_len" /\ mpc' = "clear_in" /\ rlen' = 0 /\ got' = <<>> /\ hdr' = NoCell
      /\ lost' = (lost \/ rlen > 0 \/ hdr # NoCell \/ got # <<>>)
  BY DEF ClearLen, tasks
<1> SUFFICES ASSUME ~raced
             PROVE  /\ ReadSoFar' /\ Waiting' /\ Clearing' /\ ~Steady'
                    /\ ~lost' => Accounts'
  BY <1>1 DEF Inv
<1>2. Waiting /\ (~lost => Accounts)
  BY DEF Inv
<1>3. Between' /\ Spinning' = Spinning /\ ~Steady'
  BY <1>1 DEF Between, Spinning, Unanswered, Steady
<1>4. ReadSoFar' /\ Waiting' /\ Clearing'
  BY <1>1, <1>2, <1>3 DEF ReadSoFar, Waiting, Clearing
<1>5. ASSUME ~lost' PROVE Accounts'
  <2>1. ~lost /\ rlen = 0 /\ Between
    <3>1. ~lost /\ ~(rlen > 0) /\ hdr = NoCell /\ got = <<>>
      BY <1>1, <1>5
    <3> QED BY <3>1 DEF Between, TypeOK
  <2>2. Nobody'
    BY <1>1, <1>2, <1>3, <2>1 DEF Accounts, Nobody
  <2> QED BY <1>1, <1>3, <2>2 DEF Accounts
<1> QED BY <1>3, <1>4, <1>5

\* The writer's place is reset.
LEMMA ClearInInv ==
  ASSUME TypeOK, Inv, ClearIn
  PROVE  Inv'
<1>1. /\ UNCHANGED <<rlen, cmd_sem, cpc, kind, ret, got, hdr, raced, lost>>
      /\ mpc = "clear_in" /\ mpc' = "clear_out" /\ rin' = 0
  BY DEF ClearIn, tasks
<1> SUFFICES ASSUME ~raced
             PROVE  /\ ReadSoFar' /\ Waiting' /\ Clearing' /\ ~Steady'
                    /\ ~lost' => Accounts'
  BY <1>1 DEF Inv
<1>2. ReadSoFar /\ Waiting /\ Clearing /\ (~lost => Accounts)
  BY DEF Inv
<1>3. Between /\ Between' /\ Spinning' = Spinning /\ ~Steady'
  BY <1>1, <1>2 DEF ReadSoFar, Between, Spinning, Unanswered, Steady
<1>4. ReadSoFar' /\ Waiting' /\ Clearing'
  BY <1>1, <1>2, <1>3 DEF ReadSoFar, Waiting, Clearing
<1>5. ASSUME ~lost PROVE Accounts'
  BY <1>1, <1>2, <1>3, <1>5 DEF Accounts, Nobody
<1> QED BY <1>1, <1>3, <1>4, <1>5

\* The reader's place is reset, and the ring is as after dtum35_init.
LEMMA ClearOutInv ==
  ASSUME TypeOK, Inv, ClearOut
  PROVE  Inv'
<1>1. /\ UNCHANGED <<rin, rlen, cmd_sem, cpc, kind, ret, got, hdr, raced, lost>>
      /\ mpc = "clear_out" /\ mpc' = "pend" /\ rout' = 0
  BY DEF ClearOut, tasks
<1> SUFFICES ASSUME ~raced
             PROVE  /\ ReadSoFar' /\ Waiting' /\ Clearing' /\ Framing' /\ Owners'
                    /\ ~lost' => Accounts'
  BY <1>1 DEF Inv
<1>2. ReadSoFar /\ Waiting /\ Clearing /\ (~lost => Accounts)
  BY DEF Inv
<1>3. /\ Between /\ Between' /\ Spinning' = Spinning /\ Steady' /\ TokenTaken' = 0
      /\ rin' = 0 /\ Count' = 0
  BY <1>1, <1>2 DEF ReadSoFar, Between, Spinning, Unanswered, Steady, TokenTaken, Clearing, Count
<1>4. ReadSoFar' /\ Waiting' /\ Clearing'
  BY <1>1, <1>2, <1>3 DEF ReadSoFar, Waiting, Clearing
<1>5. Held' = {} /\ Infos' = {} /\ Cardinality(Infos') = 0
  <2>1. Held' = {}
    BY <1>1, <1>3, Wraps DEF Held, Offset
  <2>2. Infos' = {}
    BY <2>1 DEF Infos
  <2> QED BY <2>1, <2>2, FS_EmptySet
<1>6. Framing' /\ Owners'
  BY <1>1, <1>3, <1>5, Wraps DEF Framing, Owners
<1>7. ASSUME ~lost PROVE Accounts'
  <2>1. cmd_sem' = 0 /\ Spinning' = {}
    BY <1>1, <1>2, <1>3, <1>7 DEF Accounts, Nobody
  <2> QED BY <1>1, <1>3, <1>5, <2>1 DEF Accounts
<1> QED BY <1>1, <1>4, <1>6, <1>7

-----------------------------------------------------------------------------
(***************************************************************************)
(* The invariant holds, and with it the properties.                        *)
(***************************************************************************)

\* After dtum35_init the ring is empty and nobody waits.
LEMMA InitInv == Init => Inv
<1> SUFFICES ASSUME Init PROVE Inv
  OBVIOUS
<1>0. TypeOK
  BY InitType
<1>1. Between /\ Spinning = {} /\ Count = 0 /\ TokenTaken = 0 /\ cmd_sem = 0 /\ mpc = "config"
  BY DEF Init, Between, Spinning, Unanswered, Count, TokenTaken
<1>2. Held = {} /\ Infos = {} /\ Cardinality(Infos) = 0
  BY <1>0, <1>1, EmptyInfos
<1>3. ReadSoFar /\ Waiting /\ Clearing
  BY <1>1 DEF Init, Between, ReadSoFar, Waiting, Clearing
<1>4. Framing /\ Owners
  BY <1>1, <1>2, Wraps DEF Init, Framing, Owners
<1>5. Accounts
  BY <1>1, <1>2 DEF Accounts
<1> QED BY <1>3, <1>4, <1>5 DEF Inv

\* Every step of a task or of the modem thread keeps it.
LEMMA InvStep == TypeOK /\ Inv /\ [Next]_vars => Inv'
<1> SUFFICES ASSUME TypeOK, Inv, [Next]_vars PROVE Inv'
  OBVIOUS
<1>1. ASSUME NEW c \in Clients,
             dtum35_tcp_write(c) \/ dtum35_tcp_connect(c) \/ dtum35_tcp_disconnect(c)
      PROVE  Inv'
  <2>1. PICK k \in Kinds : Check(c, k)
    BY <1>1 DEF dtum35_tcp_write, dtum35_tcp_connect, dtum35_tcp_disconnect, Kinds
  <2> QED BY <2>1, CheckInv
<1>2. ASSUME NEW c \in Clients, Write(c) \/ Return(c)
      PROVE  Inv'
  BY <1>2, WriteInv, ReturnInv
<1>3. ASSUME CommandLoop PROVE Inv'
  BY <1>3, PendOkInv, PendTimeoutInv, FetchInv, StoreLenInv, GotInfoInv, GotParamsInv,
     HandleInv, ClearLenInv, ClearInInv, ClearOutInv DEF CommandLoop
<1>4. CASE UNCHANGED vars
  <2>1. UNCHANGED <<ring, thread, cmd_sem, cpc, kind, ret, raced, lost>>
    BY <1>4 DEF vars, tasks
  <2>2. Spinning' = Spinning /\ (Waiting => Waiting')
    BY <2>1 DEF Spinning, Unanswered, Waiting
  <2> QED BY <2>1, <2>2, QuietInv DEF Inv
<1> QED BY <1>1, <1>2, <1>3, <1>4, ConfigInv DEF Next, dtum35_run

\* The parameters in hand are those of the command in hand, whose task waits.
LEMMA AnswerFollows == TypeOK /\ Inv => AnswerInPlace
<1> SUFFICES ASSUME TypeOK, Inv, mpc = "handle", ~raced
             PROVE  /\ Framed
                    /\ Unanswered(hdr.of) /\ kind[hdr.of] = hdr.cmd
  BY DEF AnswerInPlace
<1>1. ReadSoFar /\ Owners
  BY DEF Inv, Steady
<1>2. /\ hdr # NoCell /\ Len(got) = ParamLen[hdr.cmd]
      /\ \A j \in 1..Len(got) : got[j] = [of |-> hdr.of, cmd |-> hdr.cmd, at |-> j]
  BY <1>1 DEF ReadSoFar
<1>3. Framed
  <2>1. got = [j \in 1..Len(got) |-> got[j]]
    BY DEF TypeOK
  <2> QED BY <1>2, <2>1 DEF Framed, Params
<1>4. hdr.of \in Spinning /\ kind[hdr.of] = hdr.cmd
  <2>1. ~Between /\ LastRead.of = hdr.of /\ LastRead.cmd = hdr.cmd
    BY <1>2 DEF Between, LastRead
  <2> QED BY <1>1, <2>1 DEF Owners
<1> QED BY <1>3, <1>4 DEF Spinning

\* A task that waits has one command, in the ring or in hand, and no other task
\* has one.
LEMMA OneCommandFollows == TypeOK /\ Inv => OneCommandEach
<1> SUFFICES ASSUME TypeOK, Inv, ~raced, ~lost, mpc \notin {"clear_len", "clear_in", "clear_out"}
             PROVE  /\ \A c \in Clients :
                         Cardinality(QueuedBy(c)) = IF Unanswered(c) /\ ~InHandBy(c) THEN 1 ELSE 0
                    /\ \A c \in Clients : InHandBy(c) => Unanswered(c)
                    /\ Cardinality(Infos) = cmd_sem + TokenTaken
  BY DEF OneCommandEach
<1>1. Steady
  BY DEF Steady, TypeOK
<1>2. ReadSoFar /\ Owners /\ Accounts
  BY <1>1 DEF Inv
<1>3. ASSUME NEW c \in Clients PROVE InHandBy(c) <=> (~Between /\ LastRead.of = c)
  <2>1. mpc \in {"config", "restart", "pend"} => Between
    BY <1>2 DEF ReadSoFar
  <2>2. CASE hdr # NoCell
    BY <1>1, <2>1, <2>2 DEF InHandBy, Between, LastRead, Steady
  <2>3. CASE hdr = NoCell
    BY <1>1, <2>1, <2>3 DEF InHandBy, Between, LastRead, Steady
  <2> QED BY <2>2, <2>3
<1>4. ASSUME NEW c \in Clients, InHandBy(c) PROVE Unanswered(c)
  BY <1>2, <1>3, <1>4 DEF Owners, Spinning
<1>5. ASSUME NEW c \in Clients
      PROVE  Cardinality(QueuedBy(c)) = IF Unanswered(c) /\ ~InHandBy(c) THEN 1 ELSE 0
  <2>1. CASE Unanswered(c) /\ ~InHandBy(c)
    <3>1. c \in Spinning
      BY <2>1 DEF Spinning
    <3>2. PICK a \in Infos : buf[a].of = c
      BY <1>1, <1>2, <1>3, <2>1, <3>1 DEF Accounts
    <3>3. QueuedBy(c) = {a}
      BY <1>2, <3>2 DEF Owners, QueuedBy
    <3> QED BY <2>1, <3>3, FS_Singleton
  <2>2. CASE ~(Unanswered(c) /\ ~InHandBy(c))
    <3>1. QueuedBy(c) = {}
      BY <1>2, <1>3, <2>2 DEF Owners, QueuedBy, Spinning
    <3> QED BY <2>2, <3>1, FS_EmptySet
  <2> QED BY <2>1, <2>2
<1>6. Cardinality(Infos) = cmd_sem + TokenTaken
  BY <1>1, <1>2 DEF Accounts
<1> QED BY <1>4, <1>5, <1>6

\* The modem thread never answers into a frame that is gone, never carries out
\* a command with the parameters of another and never carries one out twice,
\* as long as no task wrote between two stores of the thread or into room that
\* was gone (handle_connect_tcp, handle_disconnect_tcp, handle_send_tcp): for
\* any number of tasks, sizes of the ring and of the parameters, and calls.
THEOREM AnswersSafety == Spec => []AnswerInPlace
<1>1. Spec => [](TypeOK /\ Inv)
  BY InitType, InitInv, TypeStep, InvStep, PTL DEF Spec
<1> QED BY <1>1, AnswerFollows, PTL

\* cmd_rb and cmd_sem account for every call: until a race or a clear of a ring
\* that held something, a waiting task has exactly one command on its way, no
\* other task has one, and the semaphore counts the commands in the ring
\* (dtum35_tcp_* against dtum35_run), for all values of the constants.
THEOREM CallsSafety == Spec => []CallsAccounted
<1>1. Spec => [](TypeOK /\ Inv)
  BY InitType, InitInv, TypeStep, InvStep, PTL DEF Spec
<1>2. TypeOK /\ Inv => CallsAccounted
  BY OneCommandFollows DEF CallsAccounted
<1> QED BY <1>1, <1>2, PTL
=============================================================================
