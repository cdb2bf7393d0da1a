------------------------------ MODULE LinkedList ----------------------------
(***************************************************************************)
(* misc/list.h: circular doubly linked lists through two pointers per      *)
(* node.  Every operation is its pointer assignments, in order; the lists  *)
(* they should amount to are kept beside them as sequences.                *)
(***************************************************************************)
EXTENDS Integers, Sequences, SequencesExt

CONSTANTS Heads, Entries
VARIABLES st,    \* [next, prev]: the pointers; [walk]: a loop over a list, or NoWalk
          out    \* the sequence of each head, Stale when its pointers are not to be used

vars == <<st, out>>
Nodes == Heads \cup Entries
POISON == "poison"
NoWalk == [head |-> POISON]
Stale == <<POISON>>

\* The assignments p->next = v and p->prev = v on a heap.
SetNext(s, p, v) == [s EXCEPT !.next[p] = v]
SetPrev(s, p, v) == [s EXCEPT !.prev[p] = v]

INIT_LIST_HEAD(s, l) == SetPrev(SetNext(s, l, l), l, l)
__list_add_NoBack(s, new, prev, next) == SetNext(SetPrev(SetNext(s, new, next), new, prev), prev, new)
__list_add(s, new, prev, next) ==
    SetNext(SetPrev(SetNext(SetPrev(s, next, new), new, next), new, prev), prev, new)
list_add(s, new, head) == __list_add(s, new, head, s.next[head])
list_add_tail(s, new, head) == __list_add(s, new, s.prev[head], head)
__list_del(s, prev, next) == SetNext(SetPrev(s, next, prev), prev, next)
__list_del_entry(s, e) == __list_del(s, s.prev[e], s.next[e])
list_del(s, e) == SetPrev(SetNext(__list_del_entry(s, e), e, POISON), e, POISON)
list_del_init(s, e) == INIT_LIST_HEAD(__list_del_entry(s, e), e)
list_replace(s, old, new) ==
    LET s1 == SetNext(s, new, s.next[old])
        s2 == SetPrev(s1, s1.next[new], new)
        s3 == SetPrev(s2, new, s2.prev[old])
    IN  SetNext(s3, s3.prev[new], new)
list_replace_init(s, old, new) == INIT_LIST_HEAD(list_replace(s, old, new), old)
list_move(s, e, head) == list_add(__list_del_entry(s, e), e, head)
list_move_tail(s, e, head) == list_add_tail(__list_del_entry(s, e), e, head)
list_empty(s, head) == s.next[head] = head
list_is_singular(s, head) == ~list_empty(s, head) /\ s.next[head] = s.prev[head]
list_rotate_left(s, head) == IF list_empty(s, head) THEN s ELSE list_move_tail(s, s.next[head], head)
__list_cut_position(s, list, head, entry) ==
    LET first == s.next[entry]
        s1 == SetNext(s, list, s.next[head])
        s2 == SetPrev(s1, s1.next[list], list)
        s3 == SetNext(SetPrev(s2, list, entry), entry, list)
    IN  SetPrev(SetNext(s3, head, first), first, head)
list_cut_position(s, list, head, entry) ==
    IF list_empty(s, head) \/ (list_is_singular(s, head) /\ s.next[head] # entry /\ head # entry) THEN s
    ELSE IF entry = head THEN INIT_LIST_HEAD(s, list)
    ELSE __list_cut_position(s, list, head, entry)
__list_splice(s, list, prev, next) ==
    LET first == s.next[list]
        last == s.prev[list]
    IN  SetPrev(SetNext(SetNext(SetPrev(s, first, prev), prev, first), last, next), next, last)
list_splice(s, list, head) == IF list_empty(s, list) THEN s ELSE __list_splice(s, list, head, s.next[head])
list_splice_tail(s, list, head) == IF list_empty(s, list) THEN s ELSE __list_splice(s, list, s.prev[head], head)
list_splice_init(s, list, head) ==
    IF list_empty(s, list) THEN s ELSE INIT_LIST_HEAD(__list_splice(s, list, head, s.next[head]), list)
list_splice_tail_init(s, list, head) ==
    IF list_empty(s, list) THEN s ELSE INIT_LIST_HEAD(__list_splice(s, list, s.prev[head], head), list)

---------------------------------------------------------------------------

Usable(h) == out[h] # Stale
Linked == UNION {IF Usable(h) THEN Range(out[h]) ELSE {} : h \in Heads}
Without(s, e) == SelectSeq(s, LAMBDA x : x # e)
NoLoop == st.walk = NoWalk

Insert ==
    \E h \in Heads, e \in Entries \ Linked :
        /\ NoLoop /\ Usable(h)
        /\ \/ st' = list_add(st, e, h) /\ out' = [out EXCEPT ![h] = <<e>> \o @]
           \/ st' = list_add_tail(st, e, h) /\ out' = [out EXCEPT ![h] = Append(@, e)]
           \/ \E p \in Range(out[h]) :
                /\ st' = list_add(st, e, p)
                /\ out' = [out EXCEPT ![h] = InsertAt(@, 1 + CHOOSE i \in DOMAIN @ : @[i] = p, e)]
Delete ==
    \E h \in Heads : Usable(h) /\ \E e \in Range(out[h]) :
        /\ NoLoop
        /\ st' \in {list_del(st, e), list_del_init(st, e)}
        /\ out' = [out EXCEPT ![h] = Without(@, e)]
Replace ==
    \E h \in Heads : Usable(h) /\ \E old \in Range(out[h]), new \in Entries \ Linked :
        /\ NoLoop
        /\ st' \in {list_replace(st, old, new), list_replace_init(st, old, new)}
        /\ out' = [out EXCEPT ![h] = [i \in DOMAIN @ |-> IF @[i] = old THEN new ELSE @[i]]]
Move ==
    \E h, g \in Heads : Usable(h) /\ Usable(g) /\ \E e \in Range(out[h]) :
        /\ NoLoop
        /\ LET rest == [out EXCEPT ![h] = Without(@, e)] IN
           \/ st' = list_move(st, e, g) /\ out' = [rest EXCEPT ![g] = <<e>> \o @]
           \/ st' = list_move_tail(st, e, g) /\ out' = [rest EXCEPT ![g] = Append(@, e)]
Rotate ==
    \E h \in Heads :
        /\ NoLoop /\ Usable(h)
        /\ st' = list_rotate_left(st, h)
        /\ out' = [out EXCEPT ![h] = IF @ = <<>> THEN @ ELSE Append(Tail(@), Head(@))]
\* The list the entries go to is one whose own entries do not matter: empty, or stale.
Cut ==
    \E h, l \in Heads : h # l /\ Usable(h) /\ out[l] \in {<<>>, Stale} /\ \E e \in Range(out[h]) \cup {h} :
        /\ NoLoop
        /\ st' = list_cut_position(st, l, h, e)
        /\ LET n == IF e = h THEN 0 ELSE CHOOSE i \in DOMAIN out[h] : out[h][i] = e IN
           out' = [out EXCEPT ![l] = IF out[h] = <<>> THEN @ ELSE SubSeq(out[h], 1, n),
                              ![h] = SubSeq(@, n + 1, Len(@))]
\* The plain forms leave the emptied head's pointers behind.
Splice ==
    \E l, h \in Heads :
        /\ NoLoop /\ h # l /\ Usable(h) /\ Usable(l)
        /\ \/ /\ st' = list_splice(st, l, h)
              /\ out' = [out EXCEPT ![h] = out[l] \o @, ![l] = IF @ = <<>> THEN @ ELSE Stale]
           \/ /\ st' = list_splice_tail(st, l, h)
              /\ out' = [out EXCEPT ![h] = @ \o out[l], ![l] = IF @ = <<>> THEN @ ELSE Stale]
           \/ st' = list_splice_init(st, l, h) /\ out' = [out EXCEPT ![h] = out[l] \o @, ![l] = <<>>]
           \/ st' = list_splice_tail_init(st, l, h) /\ out' = [out EXCEPT ![h] = @ \o out[l], ![l] = <<>>]
Reinit ==
    \E h \in Heads : out[h] = Stale /\ NoLoop /\ st' = INIT_LIST_HEAD(st, h) /\ out' = [out EXCEPT ![h] = <<>>]

\* list_for_each_entry_safe: the next entry is read before the body, which may delete this one.
WalkStart ==
    \E h \in Heads :
        /\ NoLoop /\ Usable(h) /\ out[h] # <<>>
        /\ st' = [st EXCEPT !.walk = [head |-> h, pos |-> st.next[h], n |-> st.next[st.next[h]],
                                      seen |-> <<>>, all |-> out[h]]]
        /\ UNCHANGED out
Advance_Late(s) == [s EXCEPT !.walk.seen = Append(@, s.walk.pos), !.walk.pos = s.next[s.walk.pos], !.walk.n = POISON]
Advance(s) ==
    [s EXCEPT !.walk.seen = Append(@, s.walk.pos), !.walk.pos = s.walk.n,
              !.walk.n = IF s.walk.n \in Nodes THEN s.next[s.walk.n] ELSE POISON]
WalkStep ==
    /\ ~NoLoop /\ st.walk.pos \in Entries
    /\ \/ st' = Advance(st) /\ UNCHANGED out
       \/ /\ st' = Advance(list_del(st, st.walk.pos))
          /\ out' = [out EXCEPT ![st.walk.head] = Without(@, st.walk.pos)]
WalkEnd ==
    /\ ~NoLoop /\ st.walk.pos = st.walk.head
    /\ st' = [st EXCEPT !.walk = NoWalk] /\ UNCHANGED out

Next == Insert \/ Delete \/ Replace \/ Move \/ Rotate \/ Cut \/ Splice \/ Reinit \/ WalkStart \/ WalkStep \/ WalkEnd
Init ==
    /\ st = [next |-> [n \in Nodes |-> IF n \in Heads THEN n ELSE POISON],
             prev |-> [n \in Nodes |-> IF n \in Heads THEN n ELSE POISON], walk |-> NoWalk]
    /\ out = [h \in Heads |-> <<>>]

---------------------------------------------------------------------------

\* Following next from a head gives its entries in order and following prev gives them
\* backwards, both ending at the head, after any sequence of operations on several lists.
ListTrue ==
    \A h \in Heads : Usable(h) =>
        LET ring == <<h>> \o out[h] \o <<h>> IN
        \A i \in 1 .. Len(ring) - 1 : st.next[ring[i]] = ring[i + 1] /\ st.prev[ring[i + 1]] = ring[i]

\* A safe loop visits every entry once, in order, whatever its body deletes on the way.
WalkTrue ==
    st.walk # NoWalk =>
        /\ IsPrefix(st.walk.seen, st.walk.all)
        /\ st.walk.pos = st.walk.head <=> st.walk.seen = st.walk.all
=============================================================================
