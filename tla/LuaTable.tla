------------------------------ MODULE LuaTable ------------------------------
(***************************************************************************)
(* Lua tables, ltable.c: an array part, a hash part whose collisions are   *)
(* chained through the nodes themselves, and a rehash that moves the nodes *)
(* inside the vector they already live in.  It is this in-place rehash,    *)
(* and a traversal that goes on over entries cleared and collected under   *)
(* it, that no short test reaches.                                         *)
(*                                                                         *)
(* Keys are integers: the ones of StringKeys stand for interned strings    *)
(* (collectable, hashed by their stored hash), the others are numbers.     *)
(* The value stored under key k is k itself and nil is 0, so that a value  *)
(* which ends up under another key shows.  A node's next field is an       *)
(* index, 0 for NULL; a dead key is the negative of what it was.           *)
(***************************************************************************)
EXTENDS Integers, Sequences, FiniteSetsExt

CONSTANTS NumberKeys, StringKeys,
          Word(_),          \* a number's words added up, or a string's hash
          MaxArray, MaxNodes

Keys == NumberKeys \cup StringKeys
nil == 0
EmptyNode == [k |-> nil, v |-> nil, nx |-> 0]

sizenode(t) == Len(t.node)
sizearray(t) == Len(t.array)
ceillog2(n) == CHOOSE i \in 0..n : 2^i >= n /\ (i = 0 \/ 2^(i - 1) < n)

-----------------------------------------------------------------------------
(* Where a key lives *)

\* hashnum uses a modulus that is not a power of two, hashstr a mask
mainposition(t, k) ==
    1 + IF k \in StringKeys
        THEN Word(k) % sizenode(t)
        ELSE Word(k) % (IF sizenode(t) = 1 THEN 1 ELSE sizenode(t) - 1)

InArray(t, k) == k \in 1..sizearray(t)

RECURSIVE ChainFind(_, _, _)
ChainFind(t, n, match) ==
    IF n = 0 \/ t.node[n].k \in match THEN n
    ELSE ChainFind(t, t.node[n].nx, match)

luaH_get(t, k) ==
    IF InArray(t, k) THEN t.array[k]
    ELSE LET n == ChainFind(t, mainposition(t, k), {k})
         IN  IF n = 0 THEN nil ELSE t.node[n].v

-----------------------------------------------------------------------------
(* Free nodes and the node vector *)

\* the node a free place was found in, 0 when there is none; lastfree only
\* ever goes down
getfreepos(t) ==
    LET free == {j \in 1..sizenode(t) : j < t.lastfree /\ t.node[j].k = nil}
        n == IF free = {} THEN 0 ELSE Max(free)
    IN  [n |-> n, t |-> [t EXCEPT !.lastfree = n]]

resizenodevector(t, newsize) ==
    IF newsize = 0
    THEN [t EXCEPT !.node = <<EmptyNode>>, !.dummy = TRUE, !.lastfree = 1]
    ELSE LET size == 2^ceillog2(newsize)
             old == IF t.dummy THEN 0 ELSE sizenode(t)
         IN  [t EXCEPT !.node = [i \in 1..size |->
                           IF i <= old THEN t.node[i] ELSE EmptyNode],
                       !.dummy = FALSE, !.lastfree = size + 1]

setarrayvector(t, size) ==
    [t EXCEPT !.array = [i \in 1..size |->
        IF i <= sizearray(t) THEN t.array[i] ELSE nil]]

luaH_new(narray, nhash) ==
    resizenodevector(
        setarrayvector([array |-> <<>>, node |-> <<EmptyNode>>,
                        dummy |-> TRUE, lastfree |-> 1], narray), nhash)

-----------------------------------------------------------------------------
(* Rehash *)

RECURSIVE find_prev_node(_, _, _)
find_prev_node(t, prev, next) ==
    IF prev = 0 \/ t.node[prev].nx = next THEN prev
    ELSE find_prev_node(t, t.node[prev].nx, next)

\* without the swap a node out of its place keeps the place
move_node_NoSwap(t, i) ==
    LET node == t.node
        mp == mainposition(t, node[i].k)
        Done(nodes) == [t |-> [t EXCEPT !.node = nodes], done |-> TRUE]
    IN  IF mp = i \/ find_prev_node(t, mp, i) # 0
        THEN Done(node)
        ELSE IF node[mp].v = nil
        THEN Done([node EXCEPT ![mp] = node[i], ![i] = EmptyNode])
        ELSE Done([node EXCEPT ![i].nx = node[mp].nx, ![mp].nx = i])
\* one try at putting the node at i where its key belongs; done is FALSE
\* when another node came to i instead
move_node(t, i) ==
    LET node == t.node
        mp == mainposition(t, node[i].k)
        other == mainposition(t, node[mp].k)
        prev == find_prev_node(t, other, mp)
        Done(nodes) == [t |-> [t EXCEPT !.node = nodes], done |-> TRUE]
    IN  IF mp = i \/ find_prev_node(t, mp, i) # 0
        THEN Done(node)
        ELSE IF node[mp].v = nil
        THEN Done([node EXCEPT ![mp] = node[i], ![i] = EmptyNode])
        ELSE IF other = mp
        THEN Done([node EXCEPT ![i].nx = node[mp].nx, ![mp].nx = i])
        ELSE LET relinked == IF prev = 0 THEN node
                             ELSE [node EXCEPT ![prev].nx = i]
             IN  [t |-> [t EXCEPT !.node = [relinked EXCEPT
                                               ![i] = relinked[mp],
                                               ![mp] = node[i]]],
                  done |-> prev # 0]

RECURSIVE MoveUntilDone(_, _)
MoveUntilDone(t, i) ==
    LET r == move_node(t, i)
    IN  IF r.done THEN r.t ELSE MoveUntilDone(r.t, i)

\* first pass: break the chain at i, drop empty entries, move integers that
\* now fit into the array part, and pull a node past the new size under it
Compact(t, i, nhsize) ==
    LET old == t.node[i]
        bare == [t EXCEPT !.node[i].nx = 0]
        free == getfreepos(bare)
    IN  IF old.v = nil THEN [bare EXCEPT !.node[i].k = nil]
        ELSE IF InArray(t, old.k)
        THEN [bare EXCEPT !.array[old.k] = old.v, !.node[i] = EmptyNode]
        ELSE IF i > nhsize
        THEN [free.t EXCEPT !.node[free.n] = bare.node[i]]
        ELSE bare

RECURSIVE CompactAll(_, _, _, _)
CompactAll(t, i, last, nhsize) ==
    IF i > last THEN t ELSE CompactAll(Compact(t, i, nhsize), i + 1, last, nhsize)

RECURSIVE PlaceAll(_, _)
PlaceAll(t, i) ==
    IF i > sizenode(t) THEN t
    ELSE PlaceAll(IF t.node[i].v = nil THEN t ELSE MoveUntilDone(t, i), i + 1)

\* a hash part asked for with no node still gets one: twoto(0) is 1
resize_hashpart(t, n) ==
    LET old == IF t.dummy THEN 0 ELSE sizenode(t)
        nhsize == IF n = 0 THEN 1 ELSE 2^ceillog2(n)
        room == IF old < nhsize THEN resizenodevector(t, nhsize)
                ELSE [t EXCEPT !.lastfree = nhsize + 1]
        packed == CompactAll(room, 1, old, nhsize)
    IN  PlaceAll(IF old > nhsize THEN resizenodevector(packed, nhsize)
                 ELSE packed, 1)

(* How the new sizes are chosen: the array part gets the largest power of  *)
(* two that is more than half used.                                        *)
Present(t) == {k \in NumberKeys : luaH_get(t, k) # nil}
Slice(ks, i) == {k \in ks : ceillog2(k) = i}

computesizes(ks) ==
    LET fits == {i \in 0..Cardinality(ks) :
                    /\ 2^i \div 2 < Cardinality(ks)
                    /\ Slice(ks, i) # {}
                    /\ Cardinality({k \in ks : k <= 2^i}) > 2^i \div 2}
    IN  IF fits = {} THEN 0 ELSE 2^Max(fits)

RECURSIVE luaH_set(_, _, _)
RECURSIVE Reinsert(_, _, _)

\* elements of the array slice that vanishes go to the hash part
Reinsert(t, array, i) ==
    IF i > Len(array) THEN t
    ELSE Reinsert(IF array[i] = nil THEN t ELSE luaH_set(t, i, array[i]),
                  array, i + 1)

resize(t, nasize, nhsize) ==
    LET grown == IF nasize > sizearray(t) THEN setarrayvector(t, nasize) ELSE t
        hashed == resize_hashpart(grown, nhsize)
    IN  IF nasize < sizearray(t)
        THEN Reinsert(setarrayvector(hashed, nasize), hashed.array, nasize + 1)
        ELSE hashed

luaH_resizearray(t, nasize) ==
    resize(t, nasize, IF t.dummy THEN 0 ELSE sizenode(t))

rehash(t, ek) ==
    LET used == Present(t) \cup ({ek} \cap NumberKeys)
        total == Cardinality({k \in Keys : luaH_get(t, k) # nil}) + 1
        nasize == computesizes(used)
        na == Cardinality({k \in used : k <= nasize})
    IN  resize(t, nasize, total - na)

-----------------------------------------------------------------------------
(* Insertion *)

\* a colliding node out of its main position moves to the free place;
\* one in its main position keeps it and the new key takes the free place
newkey(t, k, v) ==
    LET mp == mainposition(t, k)
        free == getfreepos(t)
        n == free.n
        other == mainposition(t, t.node[mp].k)
        prev == find_prev_node(t, other, mp)
        At(tt, nodes) == [tt EXCEPT !.node = nodes]
    IN  IF t.node[mp].v = nil /\ ~t.dummy
        THEN At(t, [t.node EXCEPT ![mp].k = k, ![mp].v = v])
        ELSE IF n = 0
        THEN luaH_set(rehash(free.t, k), k, v)
        ELSE IF other # mp
        THEN At(free.t, [t.node EXCEPT ![prev].nx = n, ![n] = t.node[mp],
                                       ![mp] = [k |-> k, v |-> v, nx |-> 0]])
        ELSE At(free.t, [t.node EXCEPT
                            ![n] = [k |-> k, v |-> v, nx |-> t.node[mp].nx],
                            ![mp].nx = n])

luaH_set(t, k, v) ==
    LET n == ChainFind(t, mainposition(t, k), {k})
    IN  IF InArray(t, k) THEN [t EXCEPT !.array[k] = v]
        ELSE IF n # 0 THEN [t EXCEPT !.node[n].v = v]
        ELSE newkey(t, k, v)

-----------------------------------------------------------------------------
(* Traversal and length *)

findindex_LiveOnly(t, k) ==
    IF k = nil THEN 0
    ELSE IF InArray(t, k) THEN k
    ELSE LET n == ChainFind(t, mainposition(t, k), {k})
         IN  IF n = 0 THEN -1 ELSE sizearray(t) + n
\* a dead key still names its node, so that next can go on after its entry
\* was cleared and collected; -1 when the key is not there at all
findindex(t, k) ==
    IF k = nil THEN 0
    ELSE IF InArray(t, k) THEN k
    ELSE LET match == IF k \in StringKeys THEN {k, -k} ELSE {k}
             n == ChainFind(t, mainposition(t, k), match)
         IN  IF n = 0 THEN -1 ELSE sizearray(t) + n

\* the key after k, nil at the end
luaH_next(t, k) ==
    LET Full(i) == IF i <= sizearray(t) THEN t.array[i] # nil
                   ELSE t.node[i - sizearray(t)].v # nil
        after == {i \in (findindex(t, k) + 1)..(sizearray(t) + sizenode(t)) :
                     Full(i)}
    IN  IF after = {} THEN nil
        ELSE IF Min(after) <= sizearray(t) THEN Min(after)
        ELSE t.node[Min(after) - sizearray(t)].k

RECURSIVE BinarySearch(_, _, _)
BinarySearch(t, i, j) ==
    IF j - i <= 1 THEN i
    ELSE LET m == (i + j) \div 2
         IN  IF luaH_get(t, m) = nil THEN BinarySearch(t, i, m)
             ELSE BinarySearch(t, m, j)

RECURSIVE unbound_search(_, _, _)
unbound_search(t, i, j) ==
    IF luaH_get(t, j) # nil THEN unbound_search(t, j, j * 2)
    ELSE BinarySearch(t, i, j)

luaH_getn_ArrayOnly(t) ==
    LET j == sizearray(t)
    IN  IF j > 0 /\ t.array[j] = nil THEN BinarySearch(t, 0, j) ELSE j

luaH_getn(t) ==
    LET j == sizearray(t)
    IN  IF j > 0 /\ t.array[j] = nil THEN BinarySearch(t, 0, j)
        ELSE IF t.dummy THEN j
        ELSE unbound_search(t, j, j + 1)

-----------------------------------------------------------------------------
(* A program that works on one table; present is the table it should see   *)

VARIABLES st     \* the table, the keys it should hold, and a traversal

vars == st

NoWalk == [on |-> FALSE, key |-> nil, seen |-> {}, must |-> {}, bad |-> FALSE]

Init == \E na \in {0, 2}, nh \in {0, 1, 3} :
            st = [t |-> luaH_new(na, nh), present |-> {}, walk |-> NoWalk]

Small(t) == sizearray(t) <= MaxArray /\ sizenode(t) <= MaxNodes

\* assigning to a field that is not there ends what next promises
Set(k) ==
    /\ ~st.walk.on
    /\ st' = [st EXCEPT !.t = luaH_set(st.t, k, k), !.present = @ \cup {k}]
    /\ Small(st'.t)

\* t[k] = nil finds the slot luaH_set would write; clearing is allowed in
\* a traversal
Clear(k) ==
    /\ k \in st.present
    /\ st' = [st EXCEPT !.t = luaH_set(st.t, k, nil), !.present = @ \ {k},
                        !.walk.must = @ \ {k}]

\* the collector marks the keys of empty entries dead (lgc.c removeentry)
Collect ==
    /\ st' = [st EXCEPT !.t.node = [i \in DOMAIN @ |->
          IF @[i].v = nil /\ @[i].k \in StringKeys
          THEN [@[i] EXCEPT !.k = -@] ELSE @[i]]]
    /\ st' # st

ResizeArray(n) ==
    /\ ~st.walk.on /\ n > sizearray(st.t)
    /\ st' = [st EXCEPT !.t = luaH_resizearray(st.t, n)]
    /\ Small(st'.t)

StartWalk ==
    /\ ~st.walk.on
    /\ st' = [st EXCEPT !.walk = [NoWalk EXCEPT !.on = TRUE,
                                                !.must = st.present]]

StepWalk ==
    /\ st.walk.on
    /\ LET w == st.walk
           k == luaH_next(st.t, w.key)
       IN  st' = [st EXCEPT !.walk =
               IF k = nil
               THEN [NoWalk EXCEPT !.bad = ~(w.must \subseteq w.seen)]
               ELSE [w EXCEPT !.key = k, !.seen = @ \cup {k},
                              !.bad = @ \/ k \in w.seen]]

Next == \/ \E k \in Keys : Set(k) \/ Clear(k)
        \/ Collect
        \/ \E n \in 1..MaxArray : ResizeArray(n)
        \/ StartWalk \/ StepWalk

-----------------------------------------------------------------------------

(* Every key reads back what was last stored under it, whatever rehashes,  *)
(* shrinks and collections happened since.                                 *)
TableTrue ==
    \A k \in Keys : luaH_get(st.t, k) = IF k \in st.present THEN k ELSE nil

(* next never shows a key bad, never fails on a key whose entry was      *)
(* cleared and collected during the traversal, and does not end before     *)
(* every key that stayed in the table was shown.                           *)
TraversalTrue ==
    /\ ~st.walk.bad
    /\ st.walk.on => findindex(st.t, st.walk.key) # -1

(* The length of a table with holes is any border, but it is a border.     *)
LengthIsBorder ==
    LET n == luaH_getn(st.t)
    IN  /\ n = 0 \/ luaH_get(st.t, n) # nil
        /\ luaH_get(st.t, n + 1) = nil
=============================================================================
