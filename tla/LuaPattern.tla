----------------------------- MODULE LuaPattern -----------------------------
(***************************************************************************)
(* Pattern matching in lstrlib.c.  A pattern is a sequence of items and    *)
(* not of characters: classend, match_class and matchbracketclass become   *)
(* the set of characters a single-character item stands for.  What is kept *)
(* is the backtracking itself, with the one MatchState that all branches   *)
(* write to and must undo.                                                 *)
(***************************************************************************)
EXTENDS Integers, Sequences, SequencesExt, FiniteSets

CONSTANTS Sources,        \* strings to search
          Patterns,       \* patterns to search for
          LUA_MAXCAPTURES

VARIABLES st,    \* the call: [s, p, init]
          out    \* what it returned
vars == <<st, out>>

CAP_UNFINISHED == -1
CAP_POSITION == -2
NULL == 0          \* no match; a match is a position 1 .. Len(s) + 1
FAIL == -1         \* luaL_error

Single(set, rep) == [op |-> "single", set |-> set, rep |-> rep]

-----------------------------------------------------------------------------
(* match: r is what the C function returns, caps the captures it leaves in *)
(* the MatchState.                                                         *)

Res(r, caps) == [r |-> r, caps |-> caps]
singlematch(s, i, item) == i <= Len(s) /\ s[i] \in item.set

capture_to_close(caps) ==
    LET open == {l \in DOMAIN caps : caps[l].len = CAP_UNFINISHED}
    IN  IF open = {} THEN 0 ELSE CHOOSE l \in open : \A k \in open : k <= l

check_capture(caps, l) == l \in DOMAIN caps /\ caps[l].len # CAP_UNFINISHED

\* the position after the balanced text, NULL when the string ends first
matchbalance(s, i, b, e) ==
    LET depth[j \in i..Len(s)] ==
            IF j = i THEN 1
            ELSE depth[j - 1] + (IF s[j] = e THEN -1 ELSE IF s[j] = b THEN 1 ELSE 0)
        ends == {j \in (i + 1)..Len(s) : depth[j] = 0}
    IN  IF i > Len(s) \/ s[i] # b \/ ends = {} THEN NULL
        ELSE 1 + CHOOSE j \in ends : \A k \in ends : j <= k

RECURSIVE match(_, _, _, _), max_expand(_, _, _, _, _, _), min_expand(_, _, _, _)

max_expand(s, i, p, ep, n, caps) ==
    IF n < 0 THEN Res(NULL, caps)
    ELSE LET m == match(s, i + n, ep, caps)
         IN  IF m.r # NULL THEN m ELSE max_expand(s, i, p, ep, n - 1, m.caps)

min_expand(s, i, p, caps) ==
    LET m == match(s, i, Tail(p), caps)
    IN  IF m.r # NULL THEN m
        ELSE IF singlematch(s, i, Head(p)) THEN min_expand(s, i + 1, p, m.caps)
        ELSE m

Repeats(s, i, item) ==
    CHOOSE n \in 0..Len(s) : /\ \A k \in 0..(n - 1) : singlematch(s, i + k, item)
                             /\ ~singlematch(s, i + n, item)

start_capture(s, i, p, what, caps) ==
    IF Len(caps) >= LUA_MAXCAPTURES THEN Res(FAIL, caps)
    ELSE LET m == match(s, i, p, Append(caps, [init |-> i, len |-> what]))
         IN  IF m.r = NULL THEN Res(NULL, Front(m.caps)) ELSE m

Undo_Forgotten(caps, l) == caps
\* a failed branch opens the capture again
Undo(caps, l) == [caps EXCEPT ![l].len = CAP_UNFINISHED]

end_capture(s, i, p, caps) ==
    LET l == capture_to_close(caps)
    IN  IF l = 0 THEN Res(FAIL, caps)
        ELSE LET m == match(s, i, p, [caps EXCEPT ![l].len = i - caps[l].init])
             IN  IF m.r = NULL THEN Res(NULL, Undo(m.caps, l)) ELSE m

match_capture(s, i, l, caps) ==
    LET c == caps[l]
        n == IF c.len = CAP_POSITION THEN Len(s) + 2 ELSE c.len
    IN  IF n <= Len(s) + 1 - i
           /\ SubSeq(s, c.init, c.init + n - 1) = SubSeq(s, i, i + n - 1)
        THEN i + n ELSE NULL

match(s, i, p, caps) ==
    IF p = <<>> THEN Res(i, caps)
    ELSE LET item == Head(p)
             rest == Tail(p)
             Go(j) == IF j = NULL THEN Res(NULL, caps) ELSE match(s, j, rest, caps)
             m == singlematch(s, i, item)
         IN  CASE item.op = "(" -> start_capture(s, i, rest, CAP_UNFINISHED, caps)
               [] item.op = "()" -> start_capture(s, i, rest, CAP_POSITION, caps)
               [] item.op = ")" -> end_capture(s, i, rest, caps)
               [] item.op = "%b" -> Go(matchbalance(s, i, item.b, item.e))
               [] item.op = "%f" ->
                    IF \/ i > 1 /\ s[i - 1] \in item.set
                       \/ i = 1 /\ "nul" \in item.set
                       \/ (IF i <= Len(s) THEN s[i] ELSE "nul") \notin item.set
                    THEN Res(NULL, caps) ELSE Go(i)
               [] item.op = "%1" ->
                    IF check_capture(caps, item.l)
                    THEN Go(match_capture(s, i, item.l, caps)) ELSE Res(FAIL, caps)
               [] item.op = "$" -> Res(IF i = Len(s) + 1 THEN i ELSE NULL, caps)
               [] item.op = "single" /\ item.rep = "?" ->
                    LET one == match(s, i + 1, rest, caps)
                    IN  IF m /\ one.r # NULL THEN one
                        ELSE match(s, i, rest, IF m THEN one.caps ELSE caps)
               [] item.op = "single" /\ item.rep = "*" ->
                    max_expand(s, i, p, rest, Repeats(s, i, item), caps)
               [] item.op = "single" /\ item.rep = "+" ->
                    IF ~m THEN Res(NULL, caps)
                    ELSE max_expand(s, i + 1, p, rest, Repeats(s, i + 1, item), caps)
               [] item.op = "single" /\ item.rep = "-" -> min_expand(s, i, p, caps)
               [] OTHER -> IF m THEN Go(i + 1) ELSE Res(NULL, caps)

-----------------------------------------------------------------------------
(* The library functions on top of it *)

Caught(s, c) == IF c.len = CAP_POSITION THEN <<c.init>>
                ELSE SubSeq(s, c.init, c.init + c.len - 1)

\* push_captures: an error when a capture was never closed
push_captures(s, caps) ==
    IF \E l \in DOMAIN caps : caps[l].len = CAP_UNFINISHED THEN "error"
    ELSE [l \in DOMAIN caps |-> Caught(s, caps[l])]

\* the first start at which the pattern matches
RECURSIVE str_find_aux(_, _, _, _)
str_find_aux(s, p, anchor, i) ==
    LET m == match(s, i, p, <<>>)
    IN  IF m.r = FAIL THEN [at |-> FAIL]
        ELSE IF m.r # NULL
        THEN [at |-> i, end |-> m.r, caps |-> push_captures(s, m.caps)]
        ELSE IF i > Len(s) \/ anchor THEN [at |-> NULL]
        ELSE str_find_aux(s, p, anchor, i + 1)

\* gmatch_aux: the matches an iteration yields, as <<start, end>>
NextStart(i, e) == IF e = i THEN e + 1 ELSE e
RECURSIVE gmatch_aux(_, _, _)
gmatch_aux(s, p, i) ==
    IF i > Len(s) + 1 THEN <<>>
    ELSE LET m == match(s, i, p, <<>>)
         IN  IF m.r = FAIL THEN <<>>
             ELSE IF m.r = NULL THEN gmatch_aux(s, p, i + 1)
             ELSE <<<<i, m.r>>>> \o gmatch_aux(s, p, NextStart(i, m.r))

\* add_s: a replacement is literal text and captures; number 0, and number 1 when
\* the pattern has no capture, is the whole match
add_s(s, i, e, caps, news) ==
    FlattenSeq([k \in DOMAIN news |->
        IF "lit" \in DOMAIN news[k] THEN <<news[k].lit>>
        ELSE IF news[k].cap = 0 \/ (news[k].cap = 1 /\ caps = <<>>)
        THEN SubSeq(s, i, e - 1)
        ELSE Caught(s, caps[news[k].cap])])

Copied_Lost(s, i) == <<>>
\* str_gsub: every match is replaced; after an empty one the next character is
\* copied, and the rest of the string at the end.  An anchored pattern gets one
\* turn of the loop.
Copied(s, i) == <<s[i]>>
RECURSIVE str_gsub(_, _, _, _, _, _)
str_gsub(s, p, anchor, news, i, n) ==
    LET m == match(s, i, p, <<>>)
        text == IF m.r > NULL THEN add_s(s, i, m.r, m.caps, news) ELSE <<>>
        left == IF m.r > NULL THEN n - 1 ELSE n
        Rest(j) == IF anchor THEN SubSeq(s, j, Len(s)) ELSE str_gsub(s, p, anchor, news, j, left)
    IN  IF n = 0 \/ m.r = FAIL THEN SubSeq(s, i, Len(s))
        ELSE IF m.r > i THEN text \o Rest(m.r)
        ELSE IF i <= Len(s) THEN text \o Copied(s, i) \o Rest(i + 1)
        ELSE text

posrelat(pos, len) ==
    LET q == IF pos < 0 THEN pos + len + 1 ELSE pos IN IF q >= 0 THEN q ELSE 0

str_sub_NoClamp(s, from, to) ==
    LET start == IF posrelat(from, Len(s)) < 1 THEN 1 ELSE posrelat(from, Len(s))
        end == posrelat(to - 1, Len(s))
    IN  SubSeq(s, start, end)
str_sub(s, from, to) ==
    LET start == IF posrelat(from, Len(s)) < 1 THEN 1 ELSE posrelat(from, Len(s))
        end == IF posrelat(to, Len(s)) > Len(s) THEN Len(s) ELSE posrelat(to, Len(s))
    IN  SubSeq(s, start, end)

\* lmemfind: memchr for the first character, memcmp for the others
RECURSIVE lmemfind(_, _, _)
lmemfind(s1, s2, from) ==
    LET last == Len(s1) - Len(s2) + 1
        hits == {j \in from..last : s1[j] = s2[1]}
        j == CHOOSE x \in hits : \A y \in hits : x <= y
    IN  IF s2 = <<>> THEN from
        ELSE IF hits = {} THEN NULL
        ELSE IF SubSeq(s1, j + 1, j + Len(s2) - 1) = Tail(s2) THEN j
        ELSE lmemfind(s1, s2, j + 1)

-----------------------------------------------------------------------------

Init == /\ \E s \in Sources, p \in Patterns, anchor \in BOOLEAN :
               st = [s |-> s, p |-> p, anchor |-> anchor, done |-> FALSE]
        /\ out = <<>>

Itself == <<[cap |-> 0]>>
Next == \/ /\ ~st.done
           /\ st' = [st EXCEPT !.done = TRUE]
           /\ out' = [find |-> str_find_aux(st.s, st.p, st.anchor, 1),
                      all |-> gmatch_aux(st.s, st.p, 1),
                      same |-> str_gsub(st.s, st.p, st.anchor, Itself, 1, Len(st.s) + 1),
                      without |-> str_gsub(st.s, st.p, st.anchor, <<>>, 1, Len(st.s) + 1)]
        \/ st.done /\ UNCHANGED vars

-----------------------------------------------------------------------------
(* What a pattern means, without a shared state to undo: all the ways it   *)
(* can match from a position, the preferred ones first.                    *)

RECURSIVE Ways(_, _, _, _)
Ways(s, i, p, caps) ==
    IF p = <<>> THEN <<Res(i, caps)>>
    ELSE LET item == Head(p)
             rest == Tail(p)
             From(j) == Ways(s, j, rest, caps)
             max == Repeats(s, i, item)
             open == capture_to_close(caps)
         IN  CASE item.op = "(" ->
                    Ways(s, i, rest, Append(caps, [init |-> i, len |-> CAP_UNFINISHED]))
               [] item.op = "()" ->
                    Ways(s, i, rest, Append(caps, [init |-> i, len |-> CAP_POSITION]))
               [] item.op = ")" ->
                    Ways(s, i, rest, [caps EXCEPT ![open].len = i - caps[open].init])
               [] item.op = "%1" ->
                    LET c == Caught(s, caps[item.l])
                    IN  IF IsPrefix(c, SubSeq(s, i, Len(s))) THEN From(i + Len(c)) ELSE <<>>
               [] item.op = "$" -> IF i = Len(s) + 1 THEN From(i) ELSE <<>>
               [] item.op = "single" ->
                    LET counts == CASE item.rep = "" -> IF max > 0 THEN <<1>> ELSE <<>>
                                    [] item.rep = "?" -> IF max > 0 THEN <<1, 0>> ELSE <<0>>
                                    [] item.rep = "*" -> [k \in 1..(max + 1) |-> max + 1 - k]
                                    [] item.rep = "+" -> [k \in 1..max |-> max + 1 - k]
                                    [] item.rep = "-" -> [k \in 1..(max + 1) |-> k - 1]
                    IN  FlattenSeq([k \in DOMAIN counts |-> From(i + counts[k])])

\* patterns the meaning above covers: no %b or %f, captures closed, and no
\* reference to one that is not
Plain(p) ==
    /\ \A k \in DOMAIN p : p[k].op \notin {"%b", "%f"}
    /\ match(<<>>, 1, SelectSeq(p, LAMBDA x : x.op \in {"(", ")", "()", "%1"}), <<>>).r # FAIL
    /\ \A k \in DOMAIN p : p[k].op = "%1" =>
          ~\E j \in 1..k : p[j].op = "()"

(* The backtracking matcher finds the first position at which the pattern  *)
(* can match, takes the preferred way, and reports the captures of that    *)
(* way: nothing a failed branch wrote is left in them.                     *)
MatchTrue ==
    (st.done /\ Plain(st.p)) =>
        LET Start(i) == Ways(st.s, i, st.p, <<>>)
            starts == {i \in 1..(IF st.anchor THEN 1 ELSE Len(st.s) + 1) : Start(i) # <<>>}
            first == CHOOSE i \in starts : \A j \in starts : i <= j
        IN  IF starts = {} THEN out.find.at = NULL
            ELSE /\ out.find.at = first
                 /\ out.find.end = Start(first)[1].r
                 /\ out.find.caps = push_captures(st.s, Start(first)[1].caps)

(* Replacing every match by itself gives the string back, replacing it by  *)
(* nothing leaves what no match covers (an anchored pattern has the match  *)
(* at the first character only), and an iteration yields matches that do   *)
(* not overlap and ends, also when a pattern matches the empty string.     *)
Uncovered ==
    LET taken == {m \in Range(out.all) : st.anchor => m[1] = 1}
        kept == {i \in DOMAIN st.s : \A m \in taken : i \notin m[1]..(m[2] - 1)}
        order == SetToSortSeq(kept, <)
    IN  [k \in DOMAIN order |-> st.s[order[k]]]
WalkTrue ==
    st.done => /\ out.same = st.s
               /\ out.without = Uncovered
               /\ \A k \in 1..(Len(out.all) - 1) :
                     /\ out.all[k][2] <= out.all[k + 1][1]
                     /\ out.all[k][1] < out.all[k + 1][1]

(* string.sub with positions counted from either end, and the plain search *)
SubTrue ==
    st.done =>
        /\ \A from, to \in (-4)..4 :
              LET Pos(x) == IF x < 0 THEN Len(st.s) + 1 + x ELSE x
                  keep == {i \in DOMAIN st.s : Pos(from) <= i /\ i <= Pos(to)}
                  low == CHOOSE i \in keep : \A j \in keep : i <= j
              IN  str_sub(st.s, from, to) =
                      [k \in 1..Cardinality(keep) |-> st.s[low + k - 1]]
        /\ \A q \in Sources :
              LET at == {i \in 1..(Len(st.s) + 1) :
                            IsPrefix(q, SubSeq(st.s, i, Len(st.s)))}
              IN  lmemfind(st.s, q, 1) =
                      IF at = {} THEN NULL ELSE CHOOSE i \in at : \A j \in at : i <= j
=============================================================================
