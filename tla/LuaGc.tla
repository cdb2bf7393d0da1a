-------------------------------- MODULE LuaGc --------------------------------
(***************************************************************************)
(* The incremental collector of lgc.c with the parts of lfunc.c, lstring.c *)
(* and lstate.c it works on, and the mutator between its steps: the        *)
(* virtual machine reads and writes through its stack, and the collector   *)
(* takes one singlestep whenever an allocation lets it.                    *)
(*                                                                         *)
(* st holds every object of a small pool: its kind ("free" when it is not  *)
(* allocated), its mark (one of two whites, gray or black) and two         *)
(* references.  A table has one entry (key, val); a userdata's val is its  *)
(* metatable, which has a __gc field; a closure's val is its upvalue; an   *)
(* open upvalue has key = its thread and at = its stack slot, a closed one *)
(* key = Nil and its value in val.  A table is weak when Mode says so.     *)
(***************************************************************************)
EXTENDS Integers, Sequences, SequencesExt, FiniteSetsExt

CONSTANTS Scenarios,   \* initial pools: [kind, mode, stack] (object -> kind, weak mode, slots)
          GCSWEEPMAX, MINSTRTABSIZE

AllObjects == UNION {DOMAIN sc.kind : sc \in Scenarios}

VARIABLES st, out
vars == <<st, out>>

Nil == "nil"
Main == "main"
Globals == "G"
HashOf(s) == CASE s = "s1" -> 1 [] s = "s2" -> 2 [] OTHER -> 4

Other(w) == IF w = "w0" THEN "w1" ELSE "w0"
iswhite(S, o) == S.obj[o].mark \in {"w0", "w1"}
isblack(S, o) == S.obj[o].mark = "black"
isgray(S, o) == S.obj[o].mark = "gray"
isdead(S, o) == S.obj[o].mark = Other(S.white)
Colour(S, o, c) == [S EXCEPT !.obj[o].mark = c]
makewhite(S, o) == Colour(S, o, S.white)
Kind(S, o) == S.obj[o].k
Free == [k |-> "free", mark |-> "w0", key |-> Nil, val |-> Nil, at |-> 0, fin |-> FALSE]
Freed(S, o) == [S EXCEPT !.obj[o] = Free]
\* lua_assert: its failures are kept
lua_assert(S, cond) == [S EXCEPT !.bad = @ \cup (IF cond THEN {} ELSE {"assert"})]

-----------------------------------------------------------------------------
(* Marking *)

IsOpen(S, u) == S.obj[u].key # Nil
UpvalValue(S, u) == IF IsOpen(S, u) THEN S.stack[S.obj[u].key][S.obj[u].at] ELSE S.obj[u].val

RECURSIVE reallymarkobject(_, _)
Mark(S, o) == IF o # Nil /\ iswhite(S, o) THEN reallymarkobject(S, o) ELSE S
reallymarkobject(S, o) ==
    LET gray == Colour(lua_assert(S, iswhite(S, o) /\ ~isdead(S, o)), o, "gray")
    IN  CASE Kind(S, o) = "string" -> gray
          [] Kind(S, o) = "udata" -> Mark(Colour(gray, o, "black"), S.obj[o].val)
          [] Kind(S, o) = "upval" ->
                LET marked == Mark(gray, UpvalValue(S, o))
                IN  IF IsOpen(S, o) THEN marked ELSE Colour(marked, o, "black")
          [] Kind(S, o) = "free" -> lua_assert(gray, FALSE)
          [] OTHER -> [gray EXCEPT !.gray = <<o>> \o @]

MarkAll(S, list) == FoldLeft(LAMBDA s, o : Mark(s, o), S, list)

\* an entry without a value loses its key
traversetable(S, h) ==
    LET weakkey == S.mode[h] \in {"k", "kv"}
        weakvalue == S.mode[h] \in {"v", "kv"}
        listed == IF S.mode[h] = "" THEN S ELSE [S EXCEPT !.weak = <<h>> \o @]
        e == S.obj[h]
        keyed == IF weakkey THEN listed ELSE Mark(listed, e.key)
    IN  IF weakkey /\ weakvalue THEN listed
        ELSE IF e.val = Nil THEN [listed EXCEPT !.obj[h].key = Nil]
        ELSE IF weakvalue THEN keyed ELSE Mark(keyed, e.val)

propagatemark(S) ==
    LET o == Head(S.gray)
        S1 == [Colour(lua_assert(S, isgray(S, o)), o, "black") EXCEPT !.gray = Tail(@)]
    IN  CASE Kind(S, o) = "table" ->
                IF S.mode[o] = "" THEN traversetable(S1, o) ELSE Colour(traversetable(S1, o), o, "gray")
          [] Kind(S, o) = "closure" -> Mark(S1, S.obj[o].val)
          [] Kind(S, o) = "thread" ->
                MarkAll([Colour(S1, o, "gray") EXCEPT !.again = <<o>> \o @], S.stack[o])
          [] OTHER -> lua_assert(S1, FALSE)

RECURSIVE propagateall(_)
propagateall(S) == IF S.gray = <<>> THEN S ELSE propagateall(propagatemark(S))

\* external roots: the main thread and the table of globals
markroot(S) ==
    MarkAll([S EXCEPT !.gray = <<>>, !.again = <<>>, !.weak = <<>>, !.state = "propagate"], <<Main, Globals>>)

OpenUpvals(S) == FlattenSeq(SetToSeq({S.openup[t] : t \in {t \in DOMAIN S.openup : Kind(S, t) = "thread"}}))
remarkupvals_Skipped(S) == S
remarkupvals(S) ==
    MarkAll(S, [i \in DOMAIN OpenUpvals(S) |->
                    LET u == OpenUpvals(S)[i] IN IF isgray(S, u) THEN UpvalValue(S, u) ELSE Nil])

\* the udata follow the main thread in the list
Udata(S) == SelectSeq(S.root, LAMBDA o : Kind(S, o) = "udata")
luaC_separateudata_Again(S, all) ==
    LET dead == SelectSeq(Udata(S), LAMBDA u : (all \/ iswhite(S, u)) /\ S.obj[u].val # Nil)
    IN  [S EXCEPT !.root = SelectSeq(@, LAMBDA o : o \notin Range(dead)), !.tmu = @ \o dead]
luaC_separateudata(S, all) ==
    LET seen == SelectSeq(Udata(S), LAMBDA u : (all \/ iswhite(S, u)) /\ ~S.obj[u].fin)
        dead == SelectSeq(seen, LAMBDA u : S.obj[u].val # Nil)      \* its metatable has __gc
    IN  [S EXCEPT !.obj = [o \in DOMAIN @ |-> IF o \in Range(seen) THEN [@[o] EXCEPT !.fin = TRUE] ELSE @[o]],
                  !.root = SelectSeq(@, LAMBDA o : o \notin Range(dead)),
                  !.tmu = @ \o dead]

\* may be marked, if left from the previous collection
marktmu(S) == FoldLeft(LAMBDA s, u : reallymarkobject(makewhite(s, u), u), S, S.tmu)

\* strings are values: they stay, and are marked
iscleared(S, o, iskey) ==
    /\ o # Nil /\ Kind(S, o) # "string"
    /\ iswhite(S, o) \/ (Kind(S, o) = "udata" /\ ~iskey /\ S.obj[o].fin)
stringmark(S, o) == IF o # Nil /\ Kind(S, o) = "string" THEN Colour(S, o, "gray") ELSE S
cleartable(S) ==
    FoldLeft(LAMBDA s, h : LET e == s.obj[h] IN
                 IF e.val = Nil THEN s
                 ELSE IF iscleared(s, e.key, TRUE) \/ iscleared(s, e.val, FALSE)
                      THEN [s EXCEPT !.obj[h].val = Nil, !.obj[h].key = Nil]
                      ELSE stringmark(stringmark(s, e.key), e.val),
             S, S.weak)

\* three stages, so that each is computed before the next
AtomicMarks(S) == propagateall(remarkupvals(S))
AtomicWeak(S) == propagateall(Mark([S EXCEPT !.gray = S.weak, !.weak = <<>>], Main))
AtomicAgain_Skipped(S) == [S EXCEPT !.again = <<>>]
AtomicAgain(S) == propagateall([S EXCEPT !.gray = S.again, !.again = <<>>])
AtomicUdata(S) == propagateall(marktmu(luaC_separateudata(S, FALSE)))
atomic_NoFlip(S) ==
    [cleartable(AtomicUdata(AtomicAgain(AtomicWeak(AtomicMarks(S)))))
        EXCEPT !.sweepstr = 1, !.sweep = Nil, !.state = "sweepstring"]
atomic(S) ==
    [cleartable(AtomicUdata(AtomicAgain(AtomicWeak(AtomicMarks(S)))))
        EXCEPT !.white = Other(@), !.sweepstr = 1, !.sweep = Nil, !.state = "sweepstring"]

-----------------------------------------------------------------------------
(* Barriers and new objects *)

luaC_barrierf(S, o, v) ==
    LET late == S.state \in {"finalize", "pause"}     \* the code asserts that it is not
        waiting == o \in Range(S.tmu)
        S1 == [lua_assert(S, ~isdead(S, v) /\ ~isdead(S, o) /\ Kind(S, o) # "table" /\ (late => waiting))
                  EXCEPT !.bad = @ \cup (IF late THEN {"late barrier"} ELSE {})]
    IN  IF S.state = "propagate" THEN reallymarkobject(S1, v) ELSE makewhite(S1, o)
luaC_barrier(S, p, v) == IF v # Nil /\ iswhite(S, v) /\ isblack(S, p) THEN luaC_barrierf(S, p, v) ELSE S

luaC_barrierback(S, t) ==
    [Colour(lua_assert(S, ~isdead(S, t) /\ S.state \notin {"finalize", "pause"}), t, "gray")
        EXCEPT !.again = <<t>> \o @]
luaC_barriert_None(S, t, v) == S
luaC_barriert(S, t, v) == IF v # Nil /\ iswhite(S, v) /\ isblack(S, t) THEN luaC_barrierback(S, t) ELSE S

Created(S, o, k) == [S EXCEPT !.obj[o] = [Free EXCEPT !.k = k, !.mark = S.white], !.runs[o] = 0]
luaC_link(S, o, k) == [Created(S, o, k) EXCEPT !.root = <<o>> \o @]
luaC_marknew(S, o) == IF S.state = "propagate" THEN reallymarkobject(S, o) ELSE S

PutAfterMain(list, o) == InsertAt(list, 1 + CHOOSE i \in DOMAIN list : list[i] = Main, o)
luaS_newudata(S, o) == [Created(S, o, "udata") EXCEPT !.root = PutAfterMain(@, o)]

luaC_linkupval_White(S, u) ==
    [makewhite(S, u) EXCEPT !.root = <<u>> \o @]
luaC_linkupval(S, u) ==
    LET S1 == [S EXCEPT !.root = <<u>> \o @]
    IN  IF ~isgray(S, u) THEN S1
        ELSE IF S.state = "propagate" THEN luaC_barrier(Colour(S1, u, "black"), u, S.obj[u].val)
        ELSE makewhite(lua_assert(S1, S.state \notin {"finalize", "pause"}), u)

\* the open upvalue of a slot is shared, and comes back to life when it was dead
Placed(S, list, u) ==      \* by falling level
    LET above == Cardinality({i \in DOMAIN list : S.obj[list[i]].at > S.obj[u].at})
    IN  InsertAt(list, above + 1, u)
luaF_findupval(S, t, level, u) ==
    LET found == {i \in DOMAIN S.openup[t] : S.obj[S.openup[t][i]].at = level}
        old == S.openup[t][Min(found)]
        new == [Created(S, u, "upval") EXCEPT !.obj[u].key = t, !.obj[u].at = level]
    IN  IF found # {} THEN [s |-> IF isdead(S, old) THEN Colour(S, old, S.white) ELSE S, u |-> old]
        ELSE [s |-> luaC_marknew([new EXCEPT !.openup[t] = Placed(new, @, u)], u), u |-> u]

RECURSIVE luaF_close(_, _, _)
luaF_close(S, t, level) ==
    IF S.openup[t] = <<>> \/ S.obj[Head(S.openup[t])].at < level THEN S
    ELSE LET u == Head(S.openup[t])
             S1 == [lua_assert(S, ~isblack(S, u)) EXCEPT !.openup[t] = Tail(@)]
             closed == [S1 EXCEPT !.obj[u].val = UpvalValue(S, u), !.obj[u].key = Nil, !.obj[u].at = 0]
         IN  luaF_close(IF isdead(S, u) THEN Freed(S1, u) ELSE luaC_linkupval(closed, u), t, level)

-----------------------------------------------------------------------------
(* Strings: strt is a hash table of lists *)

nuse(S) == FoldLeft(LAMBDA n, b : n + Len(b), 0, S.strt)
Bucket(S, s) == 1 + (HashOf(s) % Len(S.strt))
SweepBucket(S, i) ==
    LET dead == {s \in Range(S.strt[i]) : isdead(S, s)}
    IN  [S EXCEPT !.strt[i] = SelectSeq(@, LAMBDA s : s \notin dead),
                  !.obj = [o \in DOMAIN @ |-> IF o \in dead THEN Free
                                              ELSE IF o \in Range(S.strt[i]) THEN [@[o] EXCEPT !.mark = S.white]
                                              ELSE @[o]]]
sweepstrstep(S) ==
    [SweepBucket(S, S.sweepstr) EXCEPT !.sweepstr = @ + 1,
                                       !.state = IF S.sweepstr >= Len(S.strt) THEN "sweep" ELSE @]

\* no resizing in the middle of the sweep of the strings
luaS_resize(S, size) ==
    LET swept == IF S.state = "sweepstring" THEN sweepstrstep(S) ELSE S
        all == FlattenSeq(swept.strt)
    IN  IF swept.state = "sweepstring" \/ size = Len(S.strt) THEN swept
        ELSE [swept EXCEPT !.strt = [i \in 1..size |-> SelectSeq(all, LAMBDA s : 1 + (HashOf(s) % size) = i)]]

newlstr_OldBucket(S, s) ==
    LET S1 == IF nuse(S) + 1 > Len(S.strt) THEN luaS_resize(S, 2 * Len(S.strt)) ELSE S
    IN  Created([S1 EXCEPT !.strt[Bucket(S, s)] = <<s>> \o @], s, "string")
newlstr(S, s) ==
    LET S1 == IF nuse(S) + 1 > Len(S.strt) THEN luaS_resize(S, 2 * Len(S.strt)) ELSE S
        S2 == [S1 EXCEPT !.strt[Bucket(S1, s)] = <<s>> \o @]
    IN  Created(S2, s, "string")

luaS_newlstr(S, s) ==
    IF s \notin Range(S.strt[Bucket(S, s)]) THEN newlstr(S, s)
    ELSE IF isdead(S, s) THEN Colour(S, s, S.white) ELSE S

checkSizes(S) ==
    IF nuse(S) < Len(S.strt) \div 4 /\ Len(S.strt) > 2 * MINSTRTABSIZE
    THEN luaS_resize(S, Len(S.strt) \div 2) ELSE S

-----------------------------------------------------------------------------
(* Sweeping and finalizers *)

\* a freed thread closes its upvalues
freeobj(S, o) == IF Kind(S, o) = "thread" THEN Freed(luaF_close(S, o, 1), o) ELSE Freed(S, o)

SweepOpen(S, t) ==
    LET dead == {u \in Range(S.openup[t]) : isdead(S, u)}
    IN  [S EXCEPT !.openup[t] = SelectSeq(@, LAMBDA u : u \notin dead),
                  !.obj = [o \in DOMAIN @ |-> IF o \in dead THEN Free
                                              ELSE IF o \in Range(S.openup[t]) THEN [@[o] EXCEPT !.mark = S.white]
                                              ELSE @[o]]]

\* sweep is the object whose next field sweepgc points to, Nil for rootgc itself
At(S) == 1 + (IF S.sweep = Nil THEN 0 ELSE CHOOSE i \in DOMAIN S.root : S.root[i] = S.sweep)
RECURSIVE sweeplist(_, _)
sweeplist(S, count) ==
    IF At(S) > Len(S.root) \/ count = 0 THEN S
    ELSE LET curr == S.root[At(S)]
             S1 == IF Kind(S, curr) = "thread" THEN SweepOpen(S, curr) ELSE S
         IN  sweeplist(IF ~isdead(S, curr) \/ curr = Main
                       THEN [makewhite(S1, curr) EXCEPT !.sweep = curr]
                       ELSE freeobj([S1 EXCEPT !.root = RemoveAt(@, At(S))], curr),
                       count - 1)

SweepStep(S) ==
    LET S1 == sweeplist(S, GCSWEEPMAX)
    IN  IF At(S1) > Len(S1.root) THEN [checkSizes(S1) EXCEPT !.state = "finalize"] ELSE S1

\* the finalizer may keep its userdata in the globals
Stored(S, t, k, v) == luaC_barriert([luaC_barriert(S, t, k) EXCEPT !.obj[t].key = k, !.obj[t].val = v], t, v)
GCTM(S, keep) ==
    LET u == Head(S.tmu)
        S1 == [makewhite(S, u) EXCEPT !.tmu = Tail(@), !.root = PutAfterMain(@, u)]
        ran == [S1 EXCEPT !.runs[u] = @ + 1]
    IN  IF S.obj[u].val = Nil THEN S1 ELSE IF keep THEN Stored(ran, Globals, Nil, u) ELSE ran

singlestep(S, keep) ==
    CASE S.state = "pause" -> markroot(S)
      [] S.state = "propagate" -> IF S.gray # <<>> THEN propagatemark(S) ELSE atomic(S)
      [] S.state = "sweepstring" -> sweepstrstep(S)
      [] S.state = "sweep" -> SweepStep(S)
      [] S.state = "finalize" -> IF S.tmu # <<>> THEN GCTM(S, keep) ELSE [S EXCEPT !.state = "pause"]

RECURSIVE StepUntil(_, _)
StepUntil(S, state) == IF S.state = state THEN S ELSE StepUntil(singlestep(S, FALSE), state)
luaC_fullgc(S) ==
    LET reset == IF S.state \in {"pause", "propagate"}
                 THEN [S EXCEPT !.sweepstr = 1, !.sweep = Nil, !.gray = <<>>, !.again = <<>>, !.weak = <<>>,
                                !.state = "sweepstring"]
                 ELSE S
    IN  StepUntil(markroot(StepUntil(reset, "finalize")), "pause")

RECURSIVE luaC_callGCTM(_)
luaC_callGCTM(S) == IF S.tmu = <<>> THEN S ELSE luaC_callGCTM(GCTM(S, FALSE))
luaC_freeall(S) ==
    LET all == Range(S.root) \cup Range(FlattenSeq(S.strt)) \cup Range(OpenUpvals(S))
    IN  [S EXCEPT !.obj = [o \in DOMAIN @ |-> IF o \in all \ {Main} THEN Free ELSE @[o]],
                  !.root = <<Main>>, !.strt = <<<<>>>>, !.openup = [t \in DOMAIN @ |-> <<>>]]
lua_close_NoFinalizers(S) ==
    [luaC_freeall(luaC_separateudata(luaF_close(S, Main, 1), TRUE)) EXCEPT !.state = "closed"]
lua_close(S) ==
    [luaC_freeall(luaC_callGCTM(luaC_separateudata(luaF_close(S, Main, 1), TRUE))) EXCEPT !.state = "closed"]

-----------------------------------------------------------------------------
(* The mutator: what it works on is on the main stack, or the globals *)

Ready == st.state # "closed"
Do(S) == st' = S /\ UNCHANGED out
Slots == DOMAIN st.stack[Main]
\* a global is read into a register of the instruction that uses it
Operands(k) == {o \in Range(st.stack[Main]) \cup {Globals, st.obj[Globals].val} : o # Nil /\ Kind(st, o) = k}
Values == Range(st.stack[Main]) \cup {Nil}
Unused(k) == {o \in DOMAIN st.obj : st.kind[o] = k /\ Kind(st, o) = "free"}
Push(S, i, v) == [S EXCEPT !.stack[Main][i] = v]

NewTable == Ready /\ \E i \in Slots, o \in Unused("table") : Do(Push(luaC_link(st, o, "table"), i, o))
NewUdata == Ready /\ \E i \in Slots, o \in Unused("udata") : Do(Push(luaS_newudata(st, o), i, o))
NewString == Ready /\ \E i \in Slots, s \in {o \in DOMAIN st.obj : st.kind[o] = "string"} :
                 Do(Push(luaS_newlstr(st, s), i, s))
NewThread == Ready /\ \E i \in Slots, o \in Unused("thread") :
                 Do([Push(luaC_link(st, o, "thread"), i, o) EXCEPT !.stack[o] = <<Nil>>, !.openup[o] = <<>>])
Clear == Ready /\ \E i \in Slots : st.stack[Main][i] # Nil /\ Do(Push(st, i, Nil))

SetTable == Ready /\ \E t \in Operands("table"), k, v \in Values \cup {Globals} :
                /\ st.mode[t] \notin {"k", "kv"} => k = Nil
                /\ k # Globals /\ (st.mode[t] = "" => v # Globals)     \* a live value for a weak table
                /\ Do(Stored(st, t, k, v))
GetTable == Ready /\ \E t \in Operands("table"), i \in Slots :
                \/ Do(Push(st, i, st.obj[t].val))
                \/ st.obj[t].val # Nil /\ Do(Push(st, i, st.obj[t].key))    \* next
lua_setmetatable == Ready /\ \E u \in Operands("udata"), t \in Operands("table") :
                        st.mode[t] = "" /\ Do(luaC_barrier([st EXCEPT !.obj[u].val = t], u, t))

\* OP_CLOSURE in a thread, its closure handed to the main stack
MakeClosure == Ready /\ \E t \in Operands("thread") \cup {Main}, i \in Slots, c \in Unused("closure"),
                           u \in Unused("upval") \cup {Nil} :
    \E level \in DOMAIN st.stack[t] :
        /\ (u = Nil) <=> \E x \in Range(st.openup[t]) : st.obj[x].at = level
        /\ LET r == luaF_findupval(luaC_link(st, c, "closure"), t, level, u)
           IN  Do([Push(r.s, i, c) EXCEPT !.obj[c].val = r.u])
SetUpval == Ready /\ \E c \in Operands("closure"), v \in Values :
    LET u == st.obj[c].val
    IN  Do(luaC_barrier(IF IsOpen(st, u) THEN [st EXCEPT !.stack[st.obj[u].key][st.obj[u].at] = v]
                        ELSE [st EXCEPT !.obj[u].val = v], u, v))
GetUpval == Ready /\ \E c \in Operands("closure"), i \in Slots : Do(Push(st, i, UpvalValue(st, st.obj[c].val)))
CloseUpvals == Ready /\ \E level \in Slots : st.openup[Main] # <<>> /\ Do(luaF_close(st, Main, level))

\* lua_xmove, both ways
MoveTo == Ready /\ \E t \in Operands("thread"), v \in Values : Do([st EXCEPT !.stack[t][1] = v])
MoveFrom == Ready /\ \E t \in Operands("thread"), i \in Slots : Do(Push(st, i, st.stack[t][1]))

FullGc == Ready /\ Do(luaC_fullgc(st))
Step == Ready /\ \E keep \in BOOLEAN : (keep => st.state = "finalize" /\ st.tmu # <<>>) /\ Do(singlestep(st, keep))
Close == Ready /\ Do(lua_close(st))

Mutator == \/ NewTable \/ NewUdata \/ NewString \/ NewThread \/ Clear \/ SetTable \/ GetTable
           \/ lua_setmetatable \/ MakeClosure \/ SetUpval \/ GetUpval \/ CloseUpvals \/ MoveTo \/ MoveFrom
Next == Mutator \/ FullGc \/ Step \/ Close \/ (~Ready /\ UNCHANGED vars)

Init ==
    /\ \E sc \in Scenarios :
        st = [kind |-> sc.kind, mode |-> sc.mode, obj |-> [o \in DOMAIN sc.kind |->
                  IF o \in {Main, Globals} THEN [Free EXCEPT !.k = sc.kind[o]] ELSE Free],
              stack |-> [t \in {o \in DOMAIN sc.kind : sc.kind[o] = "thread"} |->
                            IF t = Main THEN [i \in 1..sc.slots |-> Nil] ELSE <<Nil>>],
              openup |-> [t \in {o \in DOMAIN sc.kind : sc.kind[o] = "thread"} |-> <<>>],
              root |-> <<Globals, Main>>, strt |-> <<<<>>>>, sweepstr |-> 1, sweep |-> Nil,
              gray |-> <<>>, again |-> <<>>, weak |-> <<>>, tmu |-> <<>>, state |-> "pause", white |-> "w0",
              runs |-> [o \in DOMAIN sc.kind |-> 0], bad |-> {}]
    /\ out = <<>>

-----------------------------------------------------------------------------

\* what the program can get at from an object, through weak entries too or not
Refs(S, o, weak) ==
    LET e == S.obj[o]
    IN  (CASE e.k = "thread" -> Range(S.stack[o])
           [] e.k = "upval" -> {UpvalValue(S, o)}
           [] e.k = "table" -> IF e.val = Nil THEN {}
                               ELSE (IF weak \/ S.mode[o] \notin {"k", "kv"} THEN {e.key} ELSE {})
                                    \cup (IF weak \/ S.mode[o] \notin {"v", "kv"} THEN {e.val} ELSE {})
           [] OTHER -> {e.val}) \ {Nil}
RECURSIVE Reach(_, _, _)
Reach(S, set, weak) ==
    LET more == set \cup UNION {Refs(S, o, weak) : o \in set}
    IN  IF more = set THEN set ELSE Reach(S, more, weak)
Live(S, weak) == Reach(S, {Main, Globals}, weak)

(* Nothing the program can still get at is freed: not through its stacks,  *)
(* closed or open upvalues, weak tables, or a userdata waiting for its     *)
(* finalizer; and the list of open upvalues holds no freed one.            *)
NoDangling ==
    Ready => /\ \A o \in Reach(st, {Main, Globals} \cup Range(st.tmu), TRUE) : Kind(st, o) # "free"
             /\ \A u \in Range(OpenUpvals(st)) : Kind(st, u) # "free"

(* While marking, no black object refers to a white one.                   *)
TriColour ==
    st.state = "propagate" =>
        \A o \in DOMAIN st.obj : (Kind(st, o) # "free" /\ isblack(st, o)) =>
            \A r \in Refs(st, o, TRUE) : ~iswhite(st, r)

(* Every lua_assert of the collector and of the barriers holds, but for    *)
(* one: a userdata that waits for its finalizer is still black after the   *)
(* sweep, a weak table keeps it as a key, and giving it a metatable then   *)
(* runs into the assertion that there is no barrier between two cycles.    *)
AssertsHold == "assert" \notin st.bad

(* A finalizer runs once at most, and only for a userdata the program had  *)
(* no way left to reach.                                                   *)
FinalizedOnce == \A o \in DOMAIN st.runs : st.runs[o] <= 1
FinalizedDead ==
    [][\A u \in Range(st'.tmu) \ Range(st.tmu) : st'.state # "closed" => u \notin Live(st, FALSE)]_st

(* Equal strings are one object: a string is found in the bucket its hash  *)
(* names, once, as long as the program has it.                             *)
StringsInterned ==
    Ready => \A s \in DOMAIN st.obj : Kind(st, s) = "string" =>
        \A i \in DOMAIN st.strt : Len(SelectSeq(st.strt[i], LAMBDA x : x = s)) = IF i = Bucket(st, s) THEN 1 ELSE 0

(* No object stays garbage: what the program cannot reach any more is      *)
(* freed some day, cycles and finalized userdata too, as long as the       *)
(* collector takes its steps (luaC_step is called from every allocation).  *)
Garbage(o) == Ready /\ o \in DOMAIN st.obj /\ Kind(st, o) # "free" /\ o \notin Live(st, TRUE)
GarbageFreed == \A o \in AllObjects \ {Main, Globals} : []<>~Garbage(o)

\* Step is enabled, and changes st, as long as the state is open: this is WF_vars(Step),
\* in the form whose evaluation needs no ENABLED.
FairStep == []<>(~Ready) \/ []<><<Step>>_vars

(* Closing the state frees every object, after every finalizer has run.    *)
AllFreed == ~Ready => \A o \in DOMAIN st.obj \ {Main} : Kind(st, o) = "free"

(* The heap is sound between any two steps of collector and program, and   *)
(* empty when the state has been closed.                                   *)
HeapSound == NoDangling /\ TriColour /\ AssertsHold /\ AllFreed

(* Finalizers run for the dead only, and once.                             *)
FinalizersTrue == []FinalizedOnce /\ FinalizedDead
=============================================================================
