------------------------- MODULE ListPoolRefinement -------------------------
(***************************************************************************)
(* The blocks of ListPool implement the separate lists of AbstractLists.   *)
(***************************************************************************)
EXTENDS ListPool, SequencesExt

Abstract == INSTANCE AbstractLists WITH list <- [h \in Handle |-> elems(h)], Word <- Elem

\* Read through its handle each list is a sequence that only operations on that
\* handle change, whatever blocks are reused, moved or left behind.
RefinesLists == Abstract!Spec

\* A call on h turns its list into s and touches no other.
Makes(h, r, s) ==
  /\ as_slice(r.pool, r.idx) = s
  /\ \A g \in Handle \ {h} : as_slice(r.pool, index[g]) = elems(g)

\* In every state of the pool every operation does to its list what the
\* operation of its name does to a sequence.
OperationsAgree ==
  \A h \in Handle :
    LET i == index[h]
        s == elems(h)
        before(k) == SubSeq(s, 1, k)
        after(k)  == SubSeq(s, k + 1, Len(s))
    IN  /\ \A n \in 0 .. MaxLen : Makes(h, truncate(pool, i, n), before(IF n < Len(s) THEN n ELSE Len(s)))
        /\ \A e \in Elem : /\ Makes(h, push(pool, i, e), Append(s, e))
                           /\ \A k \in 0 .. Len(s) : Makes(h, insert(pool, i, k, e), InsertAt(s, k + 1, e))
        /\ \A k \in 0 .. Len(s) - 1 :
             /\ Makes(h, remove(pool, i, k), before(k) \o after(k + 1))
             /\ Makes(h, swap_remove(pool, i, k), Front(ReplaceAt(s, k + 1, Last(s))))
        /\ \A t \in Slice : Makes(h, extend(pool, i, t), s \o t)

\* No word of the pool is lost or in two blocks, and every call that could come
\* next would do what it is named for (ListPool::alloc, free, realloc).
PoolSound == PoolOK /\ OperationsAgree

\* Handles and elements are interchangeable.
Symmetry == Permutations(Handle) \cup Permutations(Elem)

=============================================================================
