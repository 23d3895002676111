------------------------------ MODULE ListPool ------------------------------
(***************************************************************************)
(* lib/list_pool/src/lib.rs: the small lists that hold an instruction's    *)
(* arguments, results and uses. All lists of a pool live in one vector of  *)
(* words, in blocks of 4, 8, 16, ... words: the length, the elements, and  *)
(* room to grow. Freed blocks of a size are linked through their second    *)
(* word. A handle is the index of its first element, 0 when it is empty.   *)
(*                                                                         *)
(* A handle belongs to one owner. Aliases made by Clone, and handles kept  *)
(* over ListPool::clear, are misuse that the source warns of.              *)
(***************************************************************************)
EXTENDS Integers, Sequences, FiniteSets

CONSTANTS Handle,
          Elem,       \* the entities that lists hold
          Reserved,   \* T::reserved_value()
          MaxLen,     \* longest list
          MaxWords    \* the vector is not grown beyond

ASSUME ListPoolAssumption ==
  /\ MaxLen \in Nat /\ MaxWords \in Nat
  /\ Elem \cap Nat = {} /\ Reserved \notin Elem \cup Nat

VARIABLES data,    \* the vector: a function on 0 .. size - 1
          free,    \* free[c]: one above the first free block of class c, or 0
          index    \* the handles

pool_vars == <<data, free, index>>

Class == 0 .. MaxLen
Word  == Elem \cup {Reserved} \cup 0 .. MaxWords

size(p)      == Cardinality(DOMAIN p.data)
Block(p, i, n) == [k \in 1 .. n |-> p.data[i + k - 1]]

\* The words s are written from i on.
Write(p, i, s) ==
  [p EXCEPT !.data = [w \in DOMAIN @ |-> IF w - i + 1 \in DOMAIN s THEN s[w - i + 1] ELSE @[w]]]

\* 1 << n
pow2[n \in Nat] == IF n = 0 THEN 1 ELSE 2 * pow2[n - 1]

sclass_size(c) == 4 * pow2[c]

\* 30 - leading_zeros(len | 3).
sclass_for_length(len) ==
  CHOOSE c \in 0 .. len : LET m == IF len < 4 THEN 3 ELSE len
                          IN  pow2[c + 1] <= m /\ m < pow2[c + 2]

is_sclass_min_length(len) == len > 3 /\ \E k \in 0 .. len : len = pow2[k]

-----------------------------------------------------------------------------
(* ListPool: blocks. A pool p is a record of data and free.                *)

alloc(p, c) ==
  IF p.free[c] > 0
  THEN [pool |-> [p EXCEPT !.free[c] = p.data[p.free[c]]], block |-> p.free[c] - 1]
  ELSE [pool |-> [p EXCEPT !.data = [w \in 0 .. size(p) + sclass_size(c) - 1 |->
                                       IF w < size(p) THEN @[w] ELSE Reserved]],
        block |-> size(p)]

\* Mutant: the block replaces the free list instead of heading it.
free_block_Lost(p, block, c) ==
  [Write(p, block, <<0, 0>>) EXCEPT !.free[c] = block + 1]

\* ListPool::free
free_block(p, block, c) ==
  [Write(p, block, <<0, p.free[c]>>) EXCEPT !.free[c] = block + 1]

\* Mutant: the length is not counted as a word to copy.
realloc_Short(p, block, from, to, n) ==
  LET a == alloc(p, to)
  IN  [pool  |-> free_block(Write(a.pool, a.block, Block(p, block, n - 1)), block, from),
       block |-> a.block]

realloc(p, block, from, to, n) ==
  LET a == alloc(p, to)
  IN  [pool  |-> free_block(Write(a.pool, a.block, Block(p, block, n)), block, from),
       block |-> a.block]

\* The block of a list that goes from len to new_len elements, n words kept.
resize(p, idx, len, new_len, n) ==
  IF sclass_for_length(len) = sclass_for_length(new_len)
  THEN [pool |-> p, block |-> idx - 1]
  ELSE realloc(p, idx - 1, sclass_for_length(len), sclass_for_length(new_len), n)

-----------------------------------------------------------------------------
(* ListHandle: each operation gives the pool and the handle's new index.   *)

\* len_of, and as_slice. There is no word in front of index 0.
len(p, idx)      == IF idx = 0 THEN 0 ELSE p.data[idx - 1]
as_slice(p, idx) == Block(p, idx, len(p, idx))

Result(p, idx) == [pool |-> p, idx |-> idx]

from_slice(p, s) ==
  IF s = <<>> THEN Result(p, 0)
  ELSE LET a == alloc(p, sclass_for_length(Len(s)))
       IN  Result(Write(a.pool, a.block, <<Len(s)>> \o s), a.block + 1)

deep_clone(p, idx) == from_slice(p, as_slice(p, idx))

clear(p, idx) ==
  IF idx = 0 THEN Result(p, 0)
  ELSE Result(free_block(p, idx - 1, sclass_for_length(len(p, idx))), 0)

push(p, idx, e) ==
  IF idx = 0
  THEN LET a == alloc(p, sclass_for_length(1))
       IN  Result(Write(a.pool, a.block, <<1, e>>), a.block + 1)
  ELSE LET n == len(p, idx) + 1
           r == IF is_sclass_min_length(n)
                THEN realloc(p, idx - 1, sclass_for_length(n - 1), sclass_for_length(n - 1) + 1, n)
                ELSE [pool |-> p, block |-> idx - 1]
       IN  Result(Write(Write(r.pool, r.block + n, <<e>>), r.block, <<n>>), r.block + 1)

\* The new elements keep whatever the block held.
grow(p, idx, count) ==
  IF idx = 0 /\ count = 0 THEN Result(p, 0)
  ELSE LET n == len(p, idx) + count
           r == IF idx = 0 THEN alloc(p, sclass_for_length(n))
                ELSE resize(p, idx, len(p, idx), n, len(p, idx) + 1)
       IN  Result(Write(r.pool, r.block, <<n>>), r.block + 1)

\* An iterator that knows its length is copied into the grown list.
extend(p, idx, s) ==
  LET g == grow(p, idx, Len(s))
  IN  Result(Write(g.pool, g.idx + len(g.pool, g.idx) - Len(s), s), g.idx)

\* Mutant: the tail is moved from its front, which copies one element on and on.
insert_Forwards(p, idx, k, e) ==
  LET r == push(p, idx, e)
      n == len(r.pool, r.idx)
  IN  Result(Write(r.pool, r.idx + k, <<e>> \o [j \in 1 .. n - k - 1 |-> r.pool.data[r.idx + k]]),
             r.idx)

\* k counts from 0, as in the source. The tail moves up, its back first.
insert(p, idx, k, e) ==
  LET r == push(p, idx, e)
      n == len(r.pool, r.idx)
  IN  Result(Write(r.pool, r.idx + k, <<e>> \o Block(r.pool, r.idx + k, n - k - 1)), r.idx)

remove_last(p, idx, n) ==
  IF n = 1 THEN clear(p, idx)
  ELSE LET r == IF is_sclass_min_length(n)
                THEN realloc(p, idx - 1, sclass_for_length(n), sclass_for_length(n) - 1, n)
                ELSE [pool |-> p, block |-> idx - 1]
       IN  Result(Write(r.pool, r.block, <<n - 1>>), r.block + 1)

remove(p, idx, k) ==
  LET n == len(p, idx)
  IN  remove_last(Write(p, idx + k, Block(p, idx + k + 1, n - k - 1)), idx, n)

swap_remove(p, idx, k) ==
  LET n == len(p, idx)
      last == p.data[idx + n - 1]
  IN  remove_last(Write(Write(p, idx + n - 1, <<p.data[idx + k]>>), idx + k, <<last>>), idx, n)

truncate(p, idx, n) ==
  IF n = 0 THEN clear(p, idx)
  ELSE IF len(p, idx) <= n THEN Result(p, idx)
  ELSE LET r == resize(p, idx, len(p, idx), n, n + 1)
       IN  Result(Write(r.pool, r.block, <<n>>), r.block + 1)

\* What follows k moves up by count; the gap is for the caller to fill.
grow_at(p, idx, k, count) ==
  LET g == grow(p, idx, count)
      n == len(g.pool, g.idx)
  IN  Result(Write(g.pool, g.idx + k + count, Block(g.pool, g.idx + k, n - k - count)), g.idx)

-----------------------------------------------------------------------------
PoolInit ==
  /\ data = [w \in {} |-> Reserved] /\ free = [c \in Class |-> 0]
  /\ index = [h \in Handle |-> 0]

pool    == [data |-> data, free |-> free]
elems(h) == as_slice(pool, index[h])

\* A call on h has the result r.
Call(h, r) ==
  /\ size(r.pool) <= MaxWords
  /\ data' = r.pool.data /\ free' = r.pool.free
  /\ index' = [index EXCEPT ![h] = r.idx]

\* What callers pass as a slice or an iterator.
Slice == [1 .. 2 -> Elem]

Push(h)      == \E e \in Elem : len(pool, index[h]) < MaxLen /\ Call(h, push(pool, index[h], e))
Clear(h)     == Call(h, clear(pool, index[h]))
Truncate(h)  == \E n \in 0 .. MaxLen : Call(h, truncate(pool, index[h], n))

Insert(h) ==
  \E k \in 0 .. len(pool, index[h]), e \in Elem :
    len(pool, index[h]) < MaxLen /\ Call(h, insert(pool, index[h], k, e))

Delete(h)     == \E k \in 0 .. len(pool, index[h]) - 1 : Call(h, remove(pool, index[h], k))
SwapRemove(h) == \E k \in 0 .. len(pool, index[h]) - 1 : Call(h, swap_remove(pool, index[h], k))

Extend(h) ==
  \E s \in Slice :
    len(pool, index[h]) + Len(s) <= MaxLen /\ Call(h, extend(pool, index[h], s))

\* grow_at, and the caller fills the gap.
GrowAt(h) ==
  \E s \in Slice, k \in 0 .. len(pool, index[h]) :
    /\ len(pool, index[h]) + Len(s) <= MaxLen
    /\ LET g == grow_at(pool, index[h], k, Len(s))
       IN  Call(h, Result(Write(g.pool, g.idx + k, s), g.idx))

\* as_mut_slice, get_mut
Assign(h) ==
  \E k \in 0 .. len(pool, index[h]) - 1, e \in Elem :
    Call(h, Result(Write(pool, index[h] + k, <<e>>), index[h]))

\* The handle of an empty list gets a copy.
FromSlice(h) ==
  \E s \in Slice : index[h] = 0 /\ Len(s) <= MaxLen /\ Call(h, from_slice(pool, s))
DeepClone(h) == \E g \in Handle : index[h] = 0 /\ Call(h, deep_clone(pool, index[g]))

Take(h) ==
  \E g \in Handle \ {h} :
    /\ index[h] = 0
    /\ index' = [index EXCEPT ![h] = index[g], ![g] = 0] /\ UNCHANGED <<data, free>>

\* ListPool::clear, and the owners drop their handles.
ClearPool ==
  /\ data' = [w \in {} |-> Reserved] /\ free' = [c \in Class |-> 0]
  /\ index' = [h \in Handle |-> 0]

PoolNext ==
  \/ ClearPool
  \/ \E h \in Handle :
       \/ Push(h) \/ Clear(h) \/ Truncate(h) \/ Insert(h) \/ Delete(h) \/ SwapRemove(h)
       \/ Extend(h) \/ GrowAt(h) \/ Assign(h) \/ FromSlice(h) \/ DeepClone(h) \/ Take(h)

PoolSpec == PoolInit /\ [][PoolNext]_pool_vars

-----------------------------------------------------------------------------
PoolTypeOK ==
  /\ data \in [0 .. size(pool) - 1 -> Word]
  /\ free \in [Class -> 0 .. MaxWords] /\ index \in [Handle -> 0 .. MaxWords]

\* The blocks of the free list of class c; a list with a cycle, or one that
\* leaves the vector, has more than there are words.
FreeBlocks(c) ==
  LET link[n \in Nat] == IF n = 0 THEN free[c]
                         ELSE IF link[n - 1] \in DOMAIN data \ {0} THEN data[link[n - 1]] ELSE 0
  IN  {link[n] - 1 : n \in {m \in 0 .. size(pool) : link[m] \in Nat \ {0}}}

Extents ==
  {<<index[h] - 1, sclass_for_length(Len(elems(h)))>> : h \in {g \in Handle : index[g] # 0}}
  \cup UNION {FreeBlocks(c) \X {c} : c \in Class}

\* Every word belongs to one block, and every block to one list or to the free
\* list of its size: nothing is shared, nothing leaks, and a list's block is the
\* smallest that holds it.
BlocksPartition ==
  /\ \A x \in Extents : x[1] .. x[1] + sclass_size(x[2]) - 1 \subseteq DOMAIN data
  /\ \A w \in DOMAIN data :
       Cardinality({x \in Extents : w \in x[1] .. x[1] + sclass_size(x[2]) - 1}) = 1
  /\ \A g, h \in Handle : index[g] = index[h] => g = h \/ index[g] = 0

\* A handle is empty if and only if its list is: first() and is_empty() look at
\* the handle alone.
EmptyHandles == \A h \in Handle : index[h] = 0 <=> elems(h) = <<>>

\* What the pool and its owners hold together.
PoolOK == PoolTypeOK /\ BlocksPartition /\ EmptyHandles

=============================================================================
