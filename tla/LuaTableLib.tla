----------------------------- MODULE LuaTableLib ----------------------------
(***************************************************************************)
(* The table library, ltablib.c, on arrays that hold numbers: quicksort    *)
(* with a comparison that may not be an order, insertion, removal and      *)
(* concatenation.  An array is a sequence; reading past it gives nil,      *)
(* which no comparison accepts.                                            *)
(***************************************************************************)
EXTENDS Integers, Sequences, SequencesExt

CONSTANTS Arrays,     \* the arrays to work on
          Elements    \* what is inserted
VARIABLES st, out
vars == <<st, out>>

nil == 0
rawgeti(a, i) == IF i \in DOMAIN a THEN a[i] ELSE nil
set2(a, i, j) == [a EXCEPT ![i] = a[j], ![j] = a[i]]

-----------------------------------------------------------------------------
(* sort *)

\* "<" is an order; "<=" is the mistake programs make; nil raises an error
Comparable(x, y) == x # nil /\ y # nil
sort_comp(lt, x, y) == IF lt = "<" THEN x < y ELSE x <= y

\* repeat ++i until a[i] >= P, 0 for an error
RECURSIVE ScanUp(_, _, _, _, _)
ScanUp(lt, a, i, u, P) ==
    IF ~Comparable(rawgeti(a, i), P) THEN 0
    ELSE IF ~sort_comp(lt, a[i], P) THEN i
    ELSE IF i > u THEN 0
    ELSE ScanUp(lt, a, i + 1, u, P)

\* repeat --j until a[j] <= P
RECURSIVE ScanDown(_, _, _, _, _)
ScanDown(lt, a, j, l, P) ==
    IF ~Comparable(rawgeti(a, j), P) THEN 0
    ELSE IF ~sort_comp(lt, P, a[j]) THEN j
    ELSE IF j < l THEN 0
    ELSE ScanDown(lt, a, j - 1, l, P)

RECURSIVE Partition(_, _, _, _, _, _, _)
Partition(lt, a, l, u, i0, j0, P) ==
    LET i == ScanUp(lt, a, i0 + 1, u, P)
        j == ScanDown(lt, a, j0 - 1, l, P)
    IN  IF i = 0 \/ j = 0 THEN [a |-> a, i |-> 0]
        ELSE IF j < i THEN [a |-> a, i |-> i]
        ELSE Partition(lt, set2(a, i, j), l, u, i, j, P)

\* the two ends and the middle, in order; with three elements that is all
Ordered(lt, a, i, j) == IF sort_comp(lt, a[j], a[i]) THEN set2(a, i, j) ELSE a
MedianOfThree_EndsOnly(lt, a, l, m, u) ==
    LET ends == Ordered(lt, a, l, u)
    IN  IF u - l = 1 THEN ends ELSE Ordered(lt, ends, l, m)

MedianOfThree(lt, a, l, m, u) ==
    LET ends == Ordered(lt, a, l, u)
    IN  IF u - l = 1 THEN ends
        ELSE IF sort_comp(lt, ends[m], ends[l]) THEN set2(ends, m, l)
        ELSE Ordered(lt, ends, m, u)

\* the smaller half first, by recursion, then the larger one, by the loop
RECURSIVE auxsort(_, _, _, _)
auxsort(lt, r, l, u) ==
    IF r.err \/ l >= u THEN r
    ELSE LET m == (l + u) \div 2
             three == MedianOfThree(lt, r.a, l, m, u)
             P == three[m]
             part == Partition(lt, set2(three, m, u - 1), l, u, l, u - 1, P)
             i == part.i
             placed == [err |-> FALSE, a |-> set2(part.a, u - 1, i)]
         IN  IF u - l <= 2 THEN [r EXCEPT !.a = three]
             ELSE IF i = 0 THEN [err |-> TRUE, a |-> part.a]
             ELSE IF i - l < u - i
             THEN auxsort(lt, auxsort(lt, placed, l, i - 1), i + 1, u)
             ELSE auxsort(lt, auxsort(lt, placed, i + 1, u), l, i - 1)

sort(lt, a) == auxsort(lt, [err |-> FALSE, a |-> a], 1, Len(a))

-----------------------------------------------------------------------------
(* insert, remove, concat *)

\* a position past the end leaves a hole, here filled with nil
tinsert(a, pos, v) ==
    LET e == IF pos > Len(a) + 1 THEN pos ELSE Len(a) + 1
    IN  [i \in 1..e |-> IF i = pos THEN v
                        ELSE IF i > pos THEN rawgeti(a, i - 1) ELSE rawgeti(a, i)]

tremove_Shifted(a, pos) == [i \in 1..(Len(a) - 1) |-> a[IF i > pos THEN i + 1 ELSE i]]
tremove(a, pos) ==
    IF pos \notin DOMAIN a THEN a
    ELSE [i \in 1..(Len(a) - 1) |-> a[IF i >= pos THEN i + 1 ELSE i]]

\* the elements from i to last with the separator between them, an error at nil
RECURSIVE tconcat(_, _, _, _)
tconcat(a, sep, i, last) ==
    IF i > last THEN <<>>
    ELSE IF rawgeti(a, i) = nil THEN <<"error">>
    ELSE IF i = last THEN <<a[i]>>
    ELSE <<a[i]>> \o sep \o tconcat(a, sep, i + 1, last)

-----------------------------------------------------------------------------
(* One array, one call *)

Init == (\E a \in Arrays : st = [a |-> a, call |-> "none"]) /\ out = <<>>

Sort(lt) ==
    /\ st.call = "none"
    /\ st' = [st EXCEPT !.call = lt]
    /\ out' = sort(lt, st.a)

InsertRemove(pos, v) ==
    /\ st.call = "none"
    /\ st' = [st EXCEPT !.call = "insert"]
    /\ out' = tremove(tinsert(st.a, pos, v), pos)

Next == \/ \E lt \in {"<", "<="} : Sort(lt)
        \/ \E v \in Elements : \E pos \in 1..(Len(st.a) + 1) : InsertRemove(pos, v)
        \/ st.call # "none" /\ UNCHANGED vars

-----------------------------------------------------------------------------

(* With an order the result is sorted.  With a comparison that is not one  *)
(* the sort may stop with an error, but the array still holds every        *)
(* element it held, none lost and none twice.                              *)
SortTrue ==
    /\ st.call = "<" => /\ ~out.err
                        /\ \A i \in 1..(Len(out.a) - 1) : out.a[i] <= out.a[i + 1]
    /\ st.call \in {"<", "<="} =>
          \A e \in Range(st.a) \cup Range(out.a) :
              /\ Len(out.a) = Len(st.a)
              /\ Len(SelectSeq(out.a, LAMBDA x : x = e)) = Len(SelectSeq(st.a, LAMBDA x : x = e))

(* Removing at a position what was inserted there gives the array back.    *)
InsertUndone == st.call = "insert" => out = st.a
=============================================================================
