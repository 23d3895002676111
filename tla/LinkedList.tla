----------------------------- MODULE LinkedList -----------------------------
(***************************************************************************)
(* Doubly linked lists threaded through tables, the shape of every ordered *)
(* structure of the MIR (block order, instruction order, use lists): an    *)
(* element's links are PackedOption keys in prv and nxt, the two ends are  *)
(* kept by the owner.                                                      *)
(***************************************************************************)
EXTENDS Naturals, FiniteSets, Sequences

CONSTANT None    \* PackedOption's None

\* Whoever starts at start and follows step meets all of M.
Complete(step, start, M) ==
  \A T \in SUBSET M :
     (start \in T /\ \A y \in T : step[y] # None => step[y] \in T) => T = M

\* The links of the members of M agree with each other and with the ends.
Linked(prv, nxt, first, last, M) ==
  \A x \in M :
    /\ prv[x] = None <=> x = first
    /\ nxt[x] = None <=> x = last
    /\ nxt[x] # None => nxt[x] \in M /\ prv[nxt[x]] = x
    /\ prv[x] # None => prv[x] \in M /\ nxt[prv[x]] = x

\* prv and nxt hold one list whose elements are exactly M.
IsList(prv, nxt, first, last, M) ==
  /\ M = {} => first = None /\ last = None
  /\ M # {} => first \in M /\ last \in M
  /\ Linked(prv, nxt, first, last, M)
  /\ Complete(nxt, first, M)
  /\ Complete(prv, last, M)

\* The elements a cursor visits that starts at head, follows step and stops
\* after tail or at None: the least set that holds head and is closed under
\* the cursor's step.
Walk(S, step, head, tail) ==
  {x \in S : \A T \in SUBSET S :
     (/\ head \in S => head \in T
      /\ \A y \in T : (y # tail /\ step[y] # None) => step[y] \in T) => x \in T}

\* The elements in the order a cursor meets them: Elements(nxt, head)[n] is the
\* n-th from head, counted from 0, and None once the list has ended.
Elements(nxt, head) ==
  LET at[n \in Nat] == IF n = 0 THEN head
                       ELSE IF at[n - 1] = None THEN None ELSE nxt[at[n - 1]]
  IN  at

\* The list that starts at head, as a sequence. A list with a cycle shows as
\* one with more elements than there are keys in S.
Listing(S, nxt, head) ==
  LET at     == Elements(nxt, head)
      length == Cardinality({n \in 0 .. Cardinality(S) : at[n] # None})
  IN  [n \in 1 .. length |-> at[n - 1]]

\* bwd is fwd read from its end.
Mirrors(bwd, fwd) ==
  /\ Len(fwd) = Len(bwd)
  /\ \A k \in DOMAIN fwd : bwd[Len(fwd) + 1 - k] = fwd[k]

-----------------------------------------------------------------------------
(* How the links change: (prv, nxt) before and (prv2, nxt2) after.         *)

\* x fills the gap between p and n; p or n is None at an end of the list.
GapFilled(prv, nxt, prv2, nxt2, first, last, M, x, p, n) ==
  /\ x \notin M /\ x # None
  /\ p # None => p \in M /\ nxt[p] = n
  /\ p = None => n = first
  /\ n # None => n \in M /\ prv[n] = p
  /\ n = None => p = last
  /\ nxt2[x] = n /\ prv2[x] = p
  /\ \A y \in M : nxt2[y] = IF y = p THEN x ELSE nxt[y]
  /\ \A y \in M : prv2[y] = IF y = n THEN x ELSE prv[y]

\* x is taken out, its neighbours are linked to each other.
TakenOut(prv, nxt, prv2, nxt2, M, x) ==
  /\ x \in M
  /\ \A y \in M \ {x} : nxt2[y] = IF y = prv[x] THEN nxt[x] ELSE nxt[y]
  /\ \A y \in M \ {x} : prv2[y] = IF y = nxt[x] THEN prv[x] ELSE prv[y]

\* firstB is hung behind lastA.
Joined(prv, nxt, prv2, nxt2, lastA, firstB, N) ==
  /\ \A y \in N : nxt2[y] = IF y = lastA THEN firstB ELSE nxt[y]
  /\ \A y \in N : prv2[y] = IF y = firstB THEN lastA ELSE prv[y]

\* The link between x and its predecessor is gone.
CutBefore(prv, nxt, prv2, nxt2, M, x) ==
  /\ x \in M
  /\ \A y \in M : prv2[y] = IF y = x THEN None ELSE prv[y]
  /\ \A y \in M : nxt2[y] = IF y = prv[x] THEN None ELSE nxt[y]

=============================================================================
