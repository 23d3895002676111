------------------------- MODULE LinkedListTheorems -------------------------
(***************************************************************************)
(* What the pointer updates of the MIR do to a linked list, for lists of   *)
(* any length: inserting into a gap, taking an element out, joining two    *)
(* lists, cutting one in two, what a walk over a list visits, and which    *)
(* sequence the list is before and after.                                  *)
(***************************************************************************)
EXTENDS LinkedList, Integers, Sequences, FiniteSetTheorems, SequenceTheorems,
        WellFoundedInduction, TLAPS

\* An update that touches no link of a member keeps the list.
LEMMA ListFrame ==
  ASSUME NEW prv, NEW nxt, NEW prv2, NEW nxt2, NEW first, NEW last, NEW M,
         IsList(prv, nxt, first, last, M),
         \A x \in M : prv2[x] = prv[x] /\ nxt2[x] = nxt[x]
  PROVE  IsList(prv2, nxt2, first, last, M)
<1>1. Linked(prv2, nxt2, first, last, M)
  BY DEF IsList, Linked
<1>2. Complete(nxt2, first, M)
  BY DEF IsList, Complete
<1>3. Complete(prv2, last, M)
  BY DEF IsList, Complete
<1>4. QED
  BY <1>1, <1>2, <1>3 DEF IsList

\* The empty list.
LEMMA EmptyList ==
  ASSUME NEW prv, NEW nxt
  PROVE  IsList(prv, nxt, None, None, {})
BY DEF IsList, Linked, Complete

\* Filling the gap between p and n (None at either end) with x.
LEMMA InsertIntoList ==
  ASSUME NEW prv, NEW nxt, NEW prv2, NEW nxt2, NEW first, NEW last, NEW M,
         NEW x, NEW p, NEW n, NEW first2, NEW last2,
         IsList(prv, nxt, first, last, M), None \notin M,
         GapFilled(prv, nxt, prv2, nxt2, first, last, M, x, p, n),
         first2 = IF p = None THEN x ELSE first,
         last2 = IF n = None THEN x ELSE last
  PROVE  IsList(prv2, nxt2, first2, last2, M \cup {x})
<1> USE DEF GapFilled
<1> DEFINE N  == M \cup {x}
           f2 == IF p = None THEN x ELSE first
           l2 == IF n = None THEN x ELSE last
<1>1. Linked(prv2, nxt2, f2, l2, N)
  <2> SUFFICES ASSUME NEW y \in N
               PROVE  /\ prv2[y] = None <=> y = f2
                      /\ nxt2[y] = None <=> y = l2
                      /\ nxt2[y] # None => nxt2[y] \in N /\ prv2[nxt2[y]] = y
                      /\ prv2[y] # None => prv2[y] \in N /\ nxt2[prv2[y]] = y
    BY DEF Linked
  <2>1. CASE y = x
    BY <2>1 DEF IsList, Linked
  <2>2. CASE y \in M
    BY <2>2 DEF IsList, Linked
  <2>3. QED
    BY <2>1, <2>2
<1>2. Complete(nxt2, f2, N)
  <2> SUFFICES ASSUME NEW T \in SUBSET N, f2 \in T,
                      \A y \in T : nxt2[y] # None => nxt2[y] \in T
               PROVE  T = N
    BY DEF Complete
  <2> DEFINE U == T \ {x}
  <2>1. first \in U \/ M = {}
    BY DEF IsList, Linked
  <2>2. \A y \in U : nxt[y] # None => nxt[y] \in U
    BY DEF IsList, Linked
  <2>3. U = M
    BY <2>1, <2>2 DEF IsList, Complete
  <2>4. x \in T
    BY <2>3 DEF IsList
  <2>5. QED
    BY <2>3, <2>4
<1>3. Complete(prv2, l2, N)
  <2> SUFFICES ASSUME NEW T \in SUBSET N, l2 \in T,
                      \A y \in T : prv2[y] # None => prv2[y] \in T
               PROVE  T = N
    BY DEF Complete
  <2> DEFINE U == T \ {x}
  <2>1. last \in U \/ M = {}
    BY DEF IsList, Linked
  <2>2. \A y \in U : prv[y] # None => prv[y] \in U
    BY DEF IsList, Linked
  <2>3. U = M
    BY <2>1, <2>2 DEF IsList, Complete
  <2>4. x \in T
    BY <2>3 DEF IsList
  <2>5. QED
    BY <2>3, <2>4
<1>4. /\ N # {}
      /\ f2 \in N /\ l2 \in N
  BY DEF IsList
<1>5. QED
  BY <1>1, <1>2, <1>3, <1>4 DEF IsList

\* Taking x out: its neighbours are linked to each other.
LEMMA RemoveFromList ==
  ASSUME NEW prv, NEW nxt, NEW prv2, NEW nxt2, NEW first, NEW last, NEW M,
         NEW x, NEW first2, NEW last2,
         IsList(prv, nxt, first, last, M), None \notin M,
         TakenOut(prv, nxt, prv2, nxt2, M, x),
         first2 = IF prv[x] = None THEN nxt[x] ELSE first,
         last2 = IF nxt[x] = None THEN prv[x] ELSE last
  PROVE  IsList(prv2, nxt2, first2, last2, M \ {x})
<1> USE DEF TakenOut
<1> DEFINE N  == M \ {x}
           f2 == IF prv[x] = None THEN nxt[x] ELSE first
           l2 == IF nxt[x] = None THEN prv[x] ELSE last
<1>0. x # prv[x] /\ x # nxt[x]
  <2>1. ASSUME x = nxt[x] PROVE FALSE
    <3>1. x # first /\ first \in M
      BY <2>1 DEF IsList, Linked
    <3>2. \A y \in M \ {x} : nxt[y] # None => nxt[y] \in M \ {x}
      BY <2>1 DEF IsList, Linked
    <3>3. M \ {x} = M
      BY <3>1, <3>2 DEF IsList, Complete
    <3>4. QED
      BY <3>3
  <2>2. QED
    BY <2>1 DEF IsList, Linked
<1>1. Linked(prv2, nxt2, f2, l2, N)
  <2> SUFFICES ASSUME NEW y \in N
               PROVE  /\ prv2[y] = None <=> y = f2
                      /\ nxt2[y] = None <=> y = l2
                      /\ nxt2[y] # None => nxt2[y] \in N /\ prv2[nxt2[y]] = y
                      /\ prv2[y] # None => prv2[y] \in N /\ nxt2[prv2[y]] = y
    BY DEF Linked
  <2>1. y \in M /\ y # x
    OBVIOUS
  <2>2. /\ nxt2[y] = None <=> y = l2
        /\ nxt2[y] # None => nxt2[y] \in N /\ prv2[nxt2[y]] = y
    BY <1>0, <2>1 DEF IsList, Linked
  <2>3. /\ prv2[y] = None <=> y = f2
        /\ prv2[y] # None => prv2[y] \in N /\ nxt2[prv2[y]] = y
    BY <1>0, <2>1 DEF IsList, Linked
  <2>4. QED
    BY <2>2, <2>3
<1>2. Complete(nxt2, f2, N)
  <2> SUFFICES ASSUME NEW T \in SUBSET N, f2 \in T,
                      \A y \in T : nxt2[y] # None => nxt2[y] \in T
               PROVE  T = N
    BY DEF Complete
  <2> DEFINE U == IF prv[x] = None \/ prv[x] \in T THEN T \cup {x} ELSE T
  <2>1. U \in SUBSET M /\ first \in U
    BY DEF IsList, Linked
  <2>2. \A y \in U : nxt[y] # None => nxt[y] \in U
    BY <1>0 DEF IsList, Linked
  <2>3. U = M
    BY <2>1, <2>2 DEF IsList, Complete
  <2>4. QED
    BY <2>3
<1>3. Complete(prv2, l2, N)
  <2> SUFFICES ASSUME NEW T \in SUBSET N, l2 \in T,
                      \A y \in T : prv2[y] # None => prv2[y] \in T
               PROVE  T = N
    BY DEF Complete
  <2> DEFINE U == IF nxt[x] = None \/ nxt[x] \in T THEN T \cup {x} ELSE T
  <2>1. U \in SUBSET M /\ last \in U
    BY DEF IsList, Linked
  <2>2. \A y \in U : prv[y] # None => prv[y] \in U
    BY <1>0 DEF IsList, Linked
  <2>3. U = M
    BY <2>1, <2>2 DEF IsList, Complete
  <2>4. QED
    BY <2>3
<1>4. ASSUME prv[x] = None, nxt[x] = None
      PROVE  N = {}
  <2>1. {x} \in SUBSET M /\ first \in {x}
    BY <1>4 DEF IsList, Linked
  <2>2. \A y \in {x} : nxt[y] # None => nxt[y] \in {x}
    BY <1>4
  <2>3. Complete(nxt, first, M)
    BY DEF IsList
  <2>4. {x} = M
    BY <2>1, <2>2, <2>3 DEF Complete
  <2>5. QED
    BY <2>4
<1>5. N = {} => f2 = None /\ l2 = None
  BY <1>0 DEF IsList, Linked
<1>6. N # {} => f2 \in N /\ l2 \in N
  BY <1>0, <1>4 DEF IsList, Linked
<1>7. QED
  BY <1>1, <1>2, <1>3, <1>5, <1>6 DEF IsList

\* Hanging the list B behind the list A, neither of them empty.
LEMMA JoinLists ==
  ASSUME NEW prv, NEW nxt, NEW prv2, NEW nxt2, NEW A, NEW B,
         NEW firstA, NEW lastA, NEW firstB, NEW lastB,
         IsList(prv, nxt, firstA, lastA, A),
         IsList(prv, nxt, firstB, lastB, B),
         A # {}, B # {}, A \cap B = {}, None \notin A, None \notin B,
         Joined(prv, nxt, prv2, nxt2, lastA, firstB, A \cup B)
  PROVE  IsList(prv2, nxt2, firstA, lastB, A \cup B)
<1> USE DEF Joined
<1> DEFINE N == A \cup B
<1>1. Linked(prv2, nxt2, firstA, lastB, N)
  <2> SUFFICES ASSUME NEW y \in N
               PROVE  /\ prv2[y] = None <=> y = firstA
                      /\ nxt2[y] = None <=> y = lastB
                      /\ nxt2[y] # None => nxt2[y] \in N /\ prv2[nxt2[y]] = y
                      /\ prv2[y] # None => prv2[y] \in N /\ nxt2[prv2[y]] = y
    BY DEF Linked
  <2>1. CASE y \in A
    BY <2>1 DEF IsList, Linked
  <2>2. CASE y \in B
    BY <2>2 DEF IsList, Linked
  <2>3. QED
    BY <2>1, <2>2
<1>2. Complete(nxt2, firstA, N)
  <2> SUFFICES ASSUME NEW T \in SUBSET N, firstA \in T,
                      \A y \in T : nxt2[y] # None => nxt2[y] \in T
               PROVE  T = N
    BY DEF Complete
  <2>1. /\ firstA \in T \cap A
        /\ \A y \in T \cap A : nxt[y] # None => nxt[y] \in T \cap A
    BY DEF IsList, Linked
  <2>2. T \cap A = A
    BY <2>1 DEF IsList, Complete
  <2>3. firstB \in T \cap B
    BY <2>2 DEF IsList, Linked
  <2>4. \A y \in T \cap B : nxt[y] # None => nxt[y] \in T \cap B
    BY DEF IsList, Linked
  <2>5. T \cap B = B
    BY <2>3, <2>4 DEF IsList, Complete
  <2>6. QED
    BY <2>2, <2>5
<1>3. Complete(prv2, lastB, N)
  <2> SUFFICES ASSUME NEW T \in SUBSET N, lastB \in T,
                      \A y \in T : prv2[y] # None => prv2[y] \in T
               PROVE  T = N
    BY DEF Complete
  <2>1. /\ lastB \in T \cap B
        /\ \A y \in T \cap B : prv[y] # None => prv[y] \in T \cap B
    BY DEF IsList, Linked
  <2>2. T \cap B = B
    BY <2>1 DEF IsList, Complete
  <2>3. lastA \in T \cap A
    BY <2>2 DEF IsList, Linked
  <2>4. \A y \in T \cap A : prv[y] # None => prv[y] \in T \cap A
    BY DEF IsList, Linked
  <2>5. T \cap A = A
    BY <2>3, <2>4 DEF IsList, Complete
  <2>6. QED
    BY <2>2, <2>5
<1>4. QED
  BY <1>1, <1>2, <1>3 DEF IsList

\* A walk never leaves a set that holds its head and is closed under its
\* step, and it goes on until its tail.
LEMMA WalkFacts ==
  ASSUME NEW S, NEW step, NEW head \in S, NEW tail
  PROVE  /\ Walk(S, step, head, tail) \subseteq S
         /\ head \in Walk(S, step, head, tail)
         /\ \A y \in Walk(S, step, head, tail) :
              (y # tail /\ step[y] # None /\ step[y] \in S)
                 => step[y] \in Walk(S, step, head, tail)
         /\ \A T \in SUBSET S :
              (head \in T /\ \A y \in T : (y # tail /\ step[y] # None) => step[y] \in T)
                 => Walk(S, step, head, tail) \subseteq T
BY DEF Walk

\* Walking from the head of a list, up to its last element or up to None,
\* visits its members and nothing else; an empty list is left at once.
LEMMA WalkList ==
  ASSUME NEW S, NEW M \in SUBSET S, NEW prv, NEW nxt, NEW first, NEW last,
         NEW tail \in {last, None},
         IsList(prv, nxt, first, last, M), None \notin S
  PROVE  Walk(S, nxt, first, tail) = M
<1> DEFINE W == Walk(S, nxt, first, tail)
<1>1. CASE M = {}
  <2>1. first = None
    BY <1>1 DEF IsList
  <2>2. W = {}
    <3>1. /\ {} \in SUBSET S
          /\ first \in S => first \in {}
          /\ \A y \in {} : (y # tail /\ nxt[y] # None) => nxt[y] \in {}
      BY <2>1
    <3>2. QED
      BY <3>1 DEF Walk
  <2>3. QED
    BY <1>1, <2>2
<1>2. CASE M # {}
  <2>1. first \in M /\ first \in S
    BY <1>2 DEF IsList
  <2>2. W \subseteq M
    <3>1. \A y \in M : nxt[y] # None => nxt[y] \in M
      BY DEF IsList, Linked
    <3>2. QED
      BY <2>1, <3>1, WalkFacts
  <2>3. first \in W
    BY <2>1, WalkFacts
  <2>4. \A y \in W : nxt[y] # None => nxt[y] \in W
    <3> SUFFICES ASSUME NEW y \in W, nxt[y] # None
                 PROVE  nxt[y] \in W
      OBVIOUS
    <3>1. y \in M /\ y # last /\ nxt[y] \in M /\ y # None
      BY <2>2 DEF IsList, Linked
    <3>2. y # tail
      BY <3>1
    <3>3. QED
      BY <2>1, <3>1, <3>2, WalkFacts
  <2>5. QED
    BY <2>2, <2>3, <2>4 DEF IsList, Complete
<1>3. QED
  BY <1>1, <1>2

\* A list read backwards is a list.
LEMMA ReverseList ==
  ASSUME NEW prv, NEW nxt, NEW first, NEW last, NEW M,
         IsList(prv, nxt, first, last, M)
  PROVE  IsList(nxt, prv, last, first, M)
BY DEF IsList, Linked, Complete

\* Cutting a list before x: a walk from x visits the rear part, and both
\* parts are lists once the link across the cut is gone.
LEMMA CutList ==
  ASSUME NEW S, NEW M \in SUBSET S, NEW prv, NEW nxt, NEW prv2, NEW nxt2,
         NEW first, NEW last, NEW x, NEW first2,
         IsList(prv, nxt, first, last, M), None \notin S,
         CutBefore(prv, nxt, prv2, nxt2, M, x),
         first2 = IF prv[x] = None THEN None ELSE first
  PROVE  /\ Walk(S, nxt, x, None) \subseteq M
         /\ IsList(prv2, nxt2, first2, prv[x], M \ Walk(S, nxt, x, None))
         /\ IsList(prv2, nxt2, x, last, Walk(S, nxt, x, None))
<1> USE DEF CutBefore
<1> DEFINE W  == Walk(S, nxt, x, None)
           H  == M \ W
           f2 == IF prv[x] = None THEN None ELSE first
<1>1. W \subseteq M
  <2>1. \A y \in M : nxt[y] # None => nxt[y] \in M
    BY DEF IsList, Linked
  <2>2. QED
    BY <2>1, WalkFacts
<1>2. x \in W
  BY WalkFacts
<1>3. \A y \in W : nxt[y] # None => nxt[y] \in W
  <2>1. \A y \in W : y # None /\ (nxt[y] # None => nxt[y] \in S)
    BY <1>1 DEF IsList, Linked
  <2>2. QED
    BY <2>1, WalkFacts
<1>4. \A T \in SUBSET W : (x \in T /\ \A y \in T : nxt[y] # None => nxt[y] \in T) => T = W
  <2> SUFFICES ASSUME NEW T \in SUBSET W, x \in T,
                      \A y \in T : nxt[y] # None => nxt[y] \in T
               PROVE  W \subseteq T
    OBVIOUS
  <2>1. T \in SUBSET S
    BY <1>1
  <2>2. QED
    BY <2>1, WalkFacts
\* Only the predecessor of x leads from the front part into the rear part.
<1>5. \A y \in H : nxt[y] \in W => nxt[y] = x
  <2> SUFFICES ASSUME NEW y \in H, nxt[y] \in W, nxt[y] # x
               PROVE  FALSE
    OBVIOUS
  <2> DEFINE T == W \ {nxt[y]}
  <2>1. \A z \in T : nxt[z] # None => nxt[z] \in T
    BY <1>1, <1>3 DEF IsList, Linked
  <2>2. T = W
    BY <1>2, <1>4, <2>1
  <2>3. QED
    BY <2>2
\* The rear part reaches to the end of the list.
<1>6. last \in W
  <2> SUFFICES ASSUME last \notin W PROVE FALSE
    OBVIOUS
  <2>1. last \in H
    BY DEF IsList
  <2>2. \A y \in H : prv[y] # None => prv[y] \in H
    BY <1>3 DEF IsList, Linked
  <2>3. H = M
    BY <2>1, <2>2 DEF IsList, Complete
  <2>4. QED
    BY <1>2, <2>3
\* The front part keeps the head of the list, unless the cut is there.
<1>7. ASSUME prv[x] # None
      PROVE  first \in H /\ prv[x] \in H
  <2>1. first \in H
    <3> SUFFICES ASSUME first \in W PROVE FALSE
      BY DEF IsList
    <3>1. x # first
      BY <1>7 DEF IsList, Linked
    <3>2. \A z \in W \ {first} : nxt[z] # None => nxt[z] \in W \ {first}
      BY <1>1, <1>3 DEF IsList, Linked
    <3>3. W \ {first} = W
      BY <1>2, <1>4, <3>1, <3>2
    <3>4. QED
      BY <3>3
  <2>2. prv[x] \in H
    <3> SUFFICES ASSUME prv[x] \in W PROVE FALSE
      BY <1>7 DEF IsList, Linked
    <3>1. \A y \in H : nxt[y] # None => nxt[y] \in H
      BY <1>5 DEF IsList, Linked
    <3>2. H = M
      BY <2>1, <3>1 DEF IsList, Complete
    <3>3. QED
      BY <1>2, <3>2
  <2>3. QED
    BY <2>1, <2>2
<1>8. ASSUME prv[x] = None
      PROVE  W = M
  <2>1. x = first
    BY <1>8 DEF IsList, Linked
  <2>2. QED
    BY <1>1, <1>2, <1>3, <2>1 DEF IsList, Complete
<1>9. IsList(prv2, nxt2, f2, prv[x], H)
  <2>1. CASE prv[x] = None
    <3>1. H = {} /\ f2 = None
      BY <1>8, <2>1
    <3>2. QED
      BY <2>1, <3>1, EmptyList
  <2>2. CASE prv[x] # None
    <3>1. H # {} /\ f2 = first /\ first \in H /\ prv[x] \in H
      BY <1>7, <2>2
    <3>2. Linked(prv2, nxt2, f2, prv[x], H)
      <4> SUFFICES ASSUME NEW y \in H
                   PROVE  /\ prv2[y] = None <=> y = f2
                          /\ nxt2[y] = None <=> y = prv[x]
                          /\ nxt2[y] # None => nxt2[y] \in H /\ prv2[nxt2[y]] = y
                          /\ prv2[y] # None => prv2[y] \in H /\ nxt2[prv2[y]] = y
        BY DEF Linked
      <4>1. y \in M /\ y # x /\ y # last /\ x \notin H
        BY <1>2, <1>6
      <4>2. prv2[y] = None <=> y = f2
        BY <3>1, <4>1 DEF IsList, Linked
      <4>3. /\ nxt2[y] = None <=> y = prv[x]
            /\ nxt2[y] # None => nxt2[y] \in H /\ prv2[nxt2[y]] = y
        BY <1>5, <4>1 DEF IsList, Linked
      <4>4. prv2[y] # None => prv2[y] \in H /\ nxt2[prv2[y]] = y
        BY <1>3, <4>1 DEF IsList, Linked
      <4>5. QED
        BY <4>2, <4>3, <4>4
    <3>3. Complete(nxt2, f2, H)
      <4> SUFFICES ASSUME NEW T \in SUBSET H, f2 \in T,
                          \A y \in T : nxt2[y] # None => nxt2[y] \in T
                   PROVE  T = H
        BY DEF Complete
      <4>1. \A y \in T \cup W : nxt[y] # None => nxt[y] \in T \cup W
        BY <1>2, <1>3 DEF IsList, Linked
      <4>2. T \cup W = M
        BY <1>1, <3>1, <4>1 DEF IsList, Complete
      <4>3. QED
        BY <4>2
    <3>4. Complete(prv2, prv[x], H)
      <4> SUFFICES ASSUME NEW T \in SUBSET H, prv[x] \in T,
                          \A y \in T : prv2[y] # None => prv2[y] \in T
                   PROVE  T = H
        BY DEF Complete
      <4>1. \A y \in T \cup W : prv[y] # None => prv[y] \in T \cup W
        <5> SUFFICES ASSUME NEW y \in T \cup W, prv[y] # None, prv[y] \notin W
                     PROVE  prv[y] \in T
          OBVIOUS
        <5>1. CASE y \in T
          BY <1>2, <5>1
        <5>2. CASE y \in W
          <6>1. prv[y] \in H /\ nxt[prv[y]] = y
            BY <1>1, <5>2 DEF IsList, Linked
          <6>2. y = x
            BY <1>5, <5>2, <6>1
          <6>3. QED
            BY <6>2
        <5>3. QED
          BY <5>1, <5>2
      <4>2. last \in T \cup W /\ T \cup W \in SUBSET M
        BY <1>1, <1>6
      <4>3. T \cup W = M
        BY <4>1, <4>2 DEF IsList, Complete
      <4>4. QED
        BY <4>3
    <3>5. QED
      BY <3>1, <3>2, <3>3, <3>4 DEF IsList
  <2>3. QED
    BY <2>1, <2>2
<1>10. IsList(prv2, nxt2, x, last, W)
  <2>1. W # {} /\ x \in W /\ last \in W
    BY <1>2, <1>6
  <2>2. prv[x] \notin W
    BY <1>7, <1>1
  <2>3. \A y \in W : y # x => prv[y] \in W
    <3> SUFFICES ASSUME NEW y \in W, y # x, prv[y] \notin W
                 PROVE  FALSE
      OBVIOUS
    <3>1. CASE prv[y] = None
      <4>1. y = first
        BY <1>1, <3>1 DEF IsList, Linked
      <4>2. prv[x] # None
        BY <1>1, <4>1 DEF IsList, Linked
      <4>3. QED
        BY <1>7, <4>1, <4>2
    <3>2. CASE prv[y] # None
      <4>1. prv[y] \in H /\ nxt[prv[y]] = y
        BY <1>1, <3>2 DEF IsList, Linked
      <4>2. QED
        BY <1>5, <4>1
    <3>3. QED
      BY <3>1, <3>2
  <2>4. Linked(prv2, nxt2, x, last, W)
    BY <1>1, <1>2, <1>3, <2>2, <2>3 DEF IsList, Linked
  <2>5. Complete(nxt2, x, W)
    BY <1>1, <1>4, <2>2 DEF Complete
  <2>6. Complete(prv2, last, W)
    <3> SUFFICES ASSUME NEW T \in SUBSET W, last \in T,
                        \A y \in T : prv2[y] # None => prv2[y] \in T
                 PROVE  T = W
      BY DEF Complete
    <3>1. \A y \in T \cup H : prv[y] # None => prv[y] \in T \cup H
      <4> SUFFICES ASSUME NEW y \in T \cup H, prv[y] # None
                   PROVE  prv[y] \in T \cup H
        OBVIOUS
      <4>1. y \in M /\ prv[y] \in M /\ nxt[prv[y]] = y
        BY <1>1 DEF IsList, Linked
      <4>2. CASE y \in T
        BY <1>1, <2>2, <4>1, <4>2
      <4>3. CASE y \in H
        BY <1>3, <4>1, <4>3
      <4>4. QED
        BY <4>2, <4>3
    <3>2. T \cup H = M
      BY <1>1, <3>1 DEF IsList, Complete
    <3>3. QED
      BY <1>1, <3>2
  <2>7. QED
    BY <2>1, <2>4, <2>5, <2>6 DEF IsList
<1>11. QED
  BY <1>1, <1>9, <1>10

-----------------------------------------------------------------------------
(* Lists as sequences.                                                     *)

\* A set of numbers that is not empty has a least one.
LEMMA LeastNat ==
  ASSUME NEW T \in SUBSET Nat, T # {}
  PROVE  \E m \in T : \A k \in T : m <= k
<1>1. IsWellFoundedOn(OpToRel(<, Nat), Nat)
  BY NatLessThanWellFounded
<1>2. PICK m \in T : \A k \in T : ~(<<k, m>> \in OpToRel(<, Nat))
  BY <1>1, WFMin
<1>3. \A k \in T : ~(k < m)
  BY <1>2 DEF OpToRel
<1>4. QED
  BY <1>3

\* Elements is what its recursive definition says.
LEMMA ElementsDef ==
  ASSUME NEW nxt, NEW head
  PROVE  /\ Elements(nxt, head)[0] = head
         /\ \A n \in Nat : Elements(nxt, head)[n + 1] =
              IF Elements(nxt, head)[n] = None THEN None ELSE nxt[Elements(nxt, head)[n]]
<1> DEFINE step(x)    == IF x = None THEN None ELSE nxt[x]
           upto(g, n) == g[0] = head /\ \A i \in 1 .. n : g[i] = step(g[i - 1])
           pre(n)     == CHOOSE g : upto(g, n)
           f          == [n \in Nat |-> pre(n)[n]]
<1>1. \A n \in Nat : \E g : upto(g, n)
  <2> DEFINE T == {n \in Nat : ~\E g : upto(g, n)}
  <2> SUFFICES ASSUME T # {} PROVE FALSE
    OBVIOUS
  <2>1. PICK m \in T : \A k \in T : m <= k
    <3> HIDE DEF T
    <3>1. T \in SUBSET Nat
      BY DEF T
    <3>2. QED
      BY <3>1, LeastNat
  <2>2. CASE m = 0
    <3>1. upto([i \in {0} |-> head], 0)
      OBVIOUS
    <3>2. QED
      BY <2>2, <3>1
  <2>3. CASE m # 0
    <3>1. m - 1 \in Nat /\ m - 1 \notin T
      <4>1. m \in Nat
        OBVIOUS
      <4> HIDE DEF T
      <4>2. QED
        BY <2>1, <2>3, <4>1
    <3>2. PICK g : upto(g, m - 1)
      BY <3>1
    <3> DEFINE h == [i \in 0 .. m |-> IF i = m THEN step(g[m - 1]) ELSE g[i]]
    <3>0. m \in 0 .. m /\ (\A i \in 0 .. m - 1 : i \in 0 .. m /\ i # m) /\ m - 1 \in 0 .. m - 1
      BY <2>3, <3>1
    <3>a. h[m] = step(g[m - 1]) /\ \A i \in 0 .. m - 1 : h[i] = g[i]
      <4> HIDE DEF step
      <4>1. QED
        BY <3>0
    <3> HIDE DEF h, step
    <3>3. h[m] = step(h[m - 1]) /\ h[0] = head /\ \A i \in 1 .. m - 1 : h[i] = g[i] /\ h[i - 1] = g[i - 1]
      BY <2>3, <3>0, <3>1, <3>2, <3>a
    <3> USE DEF step
    <3>4. ASSUME NEW i \in 1 .. m
          PROVE  h[i] = step(h[i - 1])
      <4>1. i = m \/ i \in 1 .. m - 1
        BY <3>1
      <4>2. CASE i \in 1 .. m - 1
        <5>1. g[i] = step(g[i - 1])
          BY <3>2, <4>2
        <5>2. QED
          BY <3>3, <4>2, <5>1
      <4>3. QED
        BY <3>3, <4>1, <4>2
    <3>5. upto(h, m)
      BY <3>3, <3>4
    <3>6. QED
      BY <3>5
  <2>4. QED
    BY <2>2, <2>3
<1>2. \A n \in Nat : upto(pre(n), n)
  BY <1>1
<1>3. ASSUME NEW g, NEW h, NEW n \in Nat, upto(g, n), upto(h, n)
      PROVE  \A i \in 0 .. n : g[i] = h[i]
  <2> DEFINE T == {i \in 0 .. n : g[i] # h[i]}
  <2> SUFFICES ASSUME T # {} PROVE FALSE
    OBVIOUS
  <2>1. PICK m \in T : \A k \in T : m <= k
    <3>1. T \in SUBSET Nat
      OBVIOUS
    <3> HIDE DEF T
    <3>2. QED
      BY <3>1, LeastNat
  <2>2. m # 0 /\ m \in 1 .. n
    BY <1>3
  <2>3. m - 1 \notin T /\ m - 1 \in 0 .. n
    BY <2>1, <2>2
  <2>4. QED
    BY <1>3, <2>2, <2>3
<1> HIDE DEF pre
<1>4. f = [n \in Nat |-> IF n = 0 THEN head ELSE IF f[n - 1] = None THEN None ELSE nxt[f[n - 1]]]
  <2> SUFFICES ASSUME NEW n \in Nat
               PROVE  f[n] = IF n = 0 THEN head
                             ELSE IF f[n - 1] = None THEN None ELSE nxt[f[n - 1]]
    OBVIOUS
  <2>1. CASE n = 0
    BY <1>2, <2>1
  <2>2. CASE n # 0
    <3>1. n - 1 \in Nat /\ upto(pre(n - 1), n - 1) /\ upto(pre(n), n)
      BY <1>2, <2>2
    <3>2. upto(pre(n), n - 1)
      BY <3>1
    <3>3. pre(n)[n - 1] = pre(n - 1)[n - 1]
      BY <1>3, <3>1, <3>2
    <3>4. pre(n)[n] = step(pre(n)[n - 1])
      BY <2>2, <3>1
    <3>5. QED
      BY <2>2, <3>1, <3>3, <3>4
  <2>3. QED
    BY <2>1, <2>2
<1> HIDE DEF f
<1>5. Elements(nxt, head) =
        [n \in Nat |-> IF n = 0 THEN head
                       ELSE IF Elements(nxt, head)[n - 1] = None THEN None
                       ELSE nxt[Elements(nxt, head)[n - 1]]]
  BY <1>4 DEF Elements
<1>6. PICK at : at = Elements(nxt, head)
  OBVIOUS
<1>7. /\ at[0] = head
      /\ \A n \in Nat : at[n + 1] = IF at[n] = None THEN None ELSE nxt[at[n]]
  <2>1. at = [n \in Nat |-> IF n = 0 THEN head
                            ELSE IF at[n - 1] = None THEN None ELSE nxt[at[n - 1]]]
    BY <1>5, <1>6
  <2>2. ASSUME NEW n \in Nat
        PROVE  at[n + 1] = IF at[n] = None THEN None ELSE nxt[at[n]]
    <3>1. n + 1 \in Nat /\ n + 1 # 0 /\ (n + 1) - 1 = n
      OBVIOUS
    <3>2. at[n + 1] = IF at[(n + 1) - 1] = None THEN None ELSE nxt[at[(n + 1) - 1]]
      BY <2>1, <3>1
    <3>3. QED
      BY <3>1, <3>2
  <2>3. QED
    BY <2>1, <2>2
<1>8. QED
  BY <1>6, <1>7

\* The elements of a finite list: each member once, then None.
LEMMA ListElements ==
  ASSUME NEW prv, NEW nxt, NEW first, NEW last, NEW M,
         IsList(prv, nxt, first, last, M), None \notin M, IsFiniteSet(M)
  PROVE  LET at == Elements(nxt, first)
         IN  /\ \A n \in Nat : IF n < Cardinality(M) THEN at[n] \in M ELSE at[n] = None
             /\ \A x \in M : \E n \in 0 .. Cardinality(M) - 1 : at[n] = x
             /\ \A i, j \in 0 .. Cardinality(M) - 1 : at[i] = at[j] => i = j
<1>1. PICK at : at = Elements(nxt, first)
  OBVIOUS
<1>2. /\ at[0] = first
      /\ \A n \in Nat : at[n + 1] = IF at[n] = None THEN None ELSE nxt[at[n]]
  BY <1>1, ElementsDef
<1>3. \A n \in Nat : at[n] \in M \cup {None}
  <2> DEFINE T == {n \in Nat : at[n] \notin M \cup {None}}
  <2> SUFFICES ASSUME T # {} PROVE FALSE
    OBVIOUS
  <2>1. PICK m \in T : \A k \in T : m <= k
    <3>1. T \in SUBSET Nat
      OBVIOUS
    <3> HIDE DEF T
    <3>2. QED
      BY <3>1, LeastNat
  <2>2. m # 0
    BY <1>2 DEF IsList
  <2>3. m - 1 \in Nat /\ m - 1 \notin T
    BY <2>1, <2>2
  <2>4. at[m] = IF at[m - 1] = None THEN None ELSE nxt[at[m - 1]]
    BY <1>2, <2>3
  <2>5. QED
    BY <2>3, <2>4 DEF IsList, Linked
<1>4. \A i, j \in Nat : i < j /\ at[i] = at[j] => at[j] = None
  <2> DEFINE T == {i \in Nat : \E j \in Nat : i < j /\ at[i] = at[j] /\ at[j] # None}
  <2> SUFFICES ASSUME T # {} PROVE FALSE
    OBVIOUS
  <2>1. PICK i \in T : \A k \in T : i <= k
    <3>1. T \in SUBSET Nat
      OBVIOUS
    <3> HIDE DEF T
    <3>2. QED
      BY <3>1, LeastNat
  <2>2. PICK j \in Nat : i < j /\ at[i] = at[j] /\ at[j] # None
    OBVIOUS
  <2>3. /\ j - 1 \in Nat /\ at[j] = IF at[j - 1] = None THEN None ELSE nxt[at[j - 1]]
    BY <1>2, <2>2
  <2>4. at[j - 1] \in M /\ nxt[at[j - 1]] = at[j]
    BY <1>3, <2>2, <2>3
  <2>5. prv[at[j]] = at[j - 1] /\ at[j] \in M
    BY <2>2, <2>4 DEF IsList, Linked
  <2>6. i # 0
    BY <1>2, <2>2, <2>4, <2>5 DEF IsList, Linked
  <2>7. i - 1 \in Nat /\ at[i] = IF at[i - 1] = None THEN None ELSE nxt[at[i - 1]]
    BY <1>2, <2>6
  <2>8. at[i - 1] \in M /\ nxt[at[i - 1]] = at[i]
    BY <1>3, <2>2, <2>7
  <2>9. prv[at[i]] = at[i - 1]
    BY <2>2, <2>8 DEF IsList, Linked
  <2>10. i - 1 < j - 1 /\ at[i - 1] = at[j - 1] /\ at[j - 1] # None /\ i - 1 \in Nat /\ j - 1 \in Nat
    BY <2>2, <2>3, <2>4, <2>5, <2>7, <2>9
  <2>11. i - 1 \in T
    BY <2>10
  <2>12. QED
    BY <2>1, <2>11
<1>5. \A x \in M : \E n \in Nat : at[n] = x
  <2> DEFINE T == {x \in M : \E n \in Nat : at[n] = x}
  <2>1. CASE M = {}
    BY <2>1
  <2>2. CASE M # {}
    <3>1. first \in T
      BY <1>2, <2>2 DEF IsList
    <3>2. ASSUME NEW y \in T, nxt[y] # None
          PROVE  nxt[y] \in T
      <4>1. PICK n \in Nat : at[n] = y
        OBVIOUS
      <4>2. at[n + 1] = nxt[y] /\ nxt[y] \in M /\ n + 1 \in Nat
        BY <1>2, <3>2, <4>1 DEF IsList, Linked
      <4>3. QED
        BY <4>2
    <3>3. T = M
      BY <3>1, <3>2 DEF IsList, Complete
    <3>4. QED
      BY <3>3
  <2>3. QED
    BY <2>1, <2>2
<1>6. Cardinality(M) \in Nat
  BY FS_CardinalityType
\* The sequence ends: members do not repeat.
<1>7. \E n \in Nat : at[n] = None
  <2> SUFFICES ASSUME \A n \in Nat : at[n] \in M PROVE FALSE
    BY <1>3
  <2> DEFINE f == [n \in 0 .. Cardinality(M) |-> at[n]]
  <2>1. f \in [0 .. Cardinality(M) -> M]
    BY <1>6
  <2>2. IsFiniteSet(0 .. Cardinality(M)) /\ Cardinality(0 .. Cardinality(M)) = Cardinality(M) + 1
    BY <1>6, FS_Interval
  <2>3. PICK x, y \in 0 .. Cardinality(M) : x # y /\ f[x] = f[y]
    <3> HIDE DEF f
    <3>1. Cardinality(M) < Cardinality(0 .. Cardinality(M))
      BY <1>6, <2>2
    <3>2. QED
      BY <2>1, <2>2, <3>1, FS_PigeonHole
  <2>4. at[x] = at[y] /\ (x < y \/ y < x) /\ x \in Nat /\ y \in Nat
    BY <1>6, <2>3
  <2>5. QED
    BY <1>4, <2>4
<1>8. PICK L \in Nat : at[L] = None /\ \A n \in Nat : at[n] = None => L <= n
  <2> DEFINE T == {n \in Nat : at[n] = None}
  <2>1. T \in SUBSET Nat /\ T # {}
    BY <1>7
  <2>2. PICK m \in T : \A k \in T : m <= k
    <3> HIDE DEF T
    <3>1. QED
      BY <2>1, LeastNat
  <2>3. QED
    BY <2>2
<1>9. \A n \in Nat : n >= L => at[n] = None
  <2> DEFINE T == {n \in Nat : n >= L /\ at[n] # None}
  <2> SUFFICES ASSUME T # {} PROVE FALSE
    OBVIOUS
  <2>1. PICK m \in T : \A k \in T : m <= k
    <3>1. T \in SUBSET Nat
      OBVIOUS
    <3> HIDE DEF T
    <3>2. QED
      BY <3>1, LeastNat
  <2>2. m # L /\ m - 1 \in Nat /\ m - 1 >= L
    BY <1>8
  <2>3. at[m - 1] = None
    BY <2>1, <2>2
  <2>4. at[(m - 1) + 1] = None
    BY <1>2, <2>2, <2>3
  <2>5. QED
    BY <2>4
<1>10. \A n \in Nat : n < L => at[n] \in M
  BY <1>3, <1>8
<1>11. Cardinality(M) = L
  <2> DEFINE f == [n \in 1 .. L |-> at[n - 1]]
  <2>1. f \in [1 .. L -> M]
    BY <1>10
  <2>2. \A x, y \in 1 .. L : f[x] = f[y] => x = y
    <3> SUFFICES ASSUME NEW x \in 1 .. L, NEW y \in 1 .. L, f[x] = f[y], x # y
                 PROVE  FALSE
      OBVIOUS
    <3>1. /\ x - 1 \in Nat /\ y - 1 \in Nat /\ at[x - 1] = at[y - 1] /\ at[x - 1] # None
          /\ x - 1 < y - 1 \/ y - 1 < x - 1
      BY <1>8
    <3>2. QED
      BY <1>4, <3>1
  <2>3. \A x \in M : \E n \in 1 .. L : f[n] = x
    <3> SUFFICES ASSUME NEW x \in M PROVE \E n \in 1 .. L : f[n] = x
      OBVIOUS
    <3>1. PICK n \in Nat : at[n] = x
      BY <1>5
    <3>2. n < L
      BY <1>9, <3>1
    <3>3. n + 1 \in 1 .. L /\ f[n + 1] = x
      BY <3>1, <3>2
    <3>4. QED
      BY <3>3
  <2> HIDE DEF f
  <2>4. ExistsBijection(1 .. L, M)
    BY <2>1, <2>2, <2>3 DEF ExistsBijection, Bijection, Injection, Surjection, IsInjective
  <2>5. QED
    BY <2>4, FS_CountingElements
<1>12. QED
  <2>1. \A n \in Nat : IF n < L THEN at[n] \in M ELSE at[n] = None
    BY <1>9, <1>10
  <2>2. \A x \in M : \E n \in 0 .. L - 1 : at[n] = x
    <3> SUFFICES ASSUME NEW x \in M PROVE \E n \in 0 .. L - 1 : at[n] = x
      OBVIOUS
    <3>1. PICK n \in Nat : at[n] = x
      BY <1>5
    <3>2. n < L
      BY <1>9, <3>1
    <3>3. QED
      BY <3>1, <3>2
  <2>3. \A i, j \in 0 .. L - 1 : at[i] = at[j] => i = j
    <3> SUFFICES ASSUME NEW i \in 0 .. L - 1, NEW j \in 0 .. L - 1, at[i] = at[j], i # j
                 PROVE  FALSE
      OBVIOUS
    <3>1. i \in Nat /\ j \in Nat /\ (i < j \/ j < i) /\ at[i] # None
      BY <1>8
    <3>2. QED
      BY <1>4, <3>1
  <2>4. QED
    BY <1>1, <1>11, <2>1, <2>2, <2>3

\* s holds every member of M once, starting at head and following nxt.
Reads(s, nxt, head, M) ==
  /\ s \in Seq(M)
  /\ \A x \in M : \E k \in 1 .. Len(s) : s[k] = x
  /\ \A j, k \in 1 .. Len(s) : s[j] = s[k] => j = k
  /\ head = IF Len(s) = 0 THEN None ELSE s[1]
  /\ \A k \in 1 .. Len(s) : nxt[s[k]] = IF k = Len(s) THEN None ELSE s[k + 1]

\* The listing of a list reads its members.
LEMMA ListingReads ==
  ASSUME NEW S, NEW M \in SUBSET S, IsFiniteSet(S), None \notin S,
         NEW prv, NEW nxt, NEW first, NEW last, IsList(prv, nxt, first, last, M)
  PROVE  Reads(Listing(S, nxt, first), nxt, first, M)
<1>1. /\ IsFiniteSet(M) /\ None \notin M
      /\ Cardinality(M) \in Nat /\ Cardinality(S) \in Nat /\ Cardinality(M) <= Cardinality(S)
  BY FS_Subset, FS_CardinalityType
<1>2. PICK at : at = Elements(nxt, first)
  OBVIOUS
<1>3. PICK L \in Nat : L = Cardinality(M)
  BY <1>1
<1>4. /\ \A n \in Nat : IF n < L THEN at[n] \in M ELSE at[n] = None
      /\ \A x \in M : \E n \in 0 .. L - 1 : at[n] = x
      /\ \A i, j \in 0 .. L - 1 : at[i] = at[j] => i = j
  BY <1>1, <1>2, <1>3, ListElements
<1>5. /\ at[0] = first
      /\ \A n \in Nat : at[n + 1] = IF at[n] = None THEN None ELSE nxt[at[n]]
  BY <1>2, ElementsDef
<1>6. {n \in 0 .. Cardinality(S) : at[n] # None} = 0 .. L - 1
  BY <1>1, <1>3, <1>4
<1>7. Cardinality(0 .. L - 1) = L
  BY FS_Interval
<1>8. PICK s : s = [n \in 1 .. L |-> at[n - 1]]
  OBVIOUS
<1>9. Listing(S, nxt, first) = s
  BY <1>2, <1>6, <1>7, <1>8 DEF Listing
<1>10. s \in Seq(M) /\ Len(s) = L
  BY <1>4, <1>8
<1>11. \A x \in M : \E k \in 1 .. L : s[k] = x
  <2> SUFFICES ASSUME NEW x \in M PROVE \E k \in 1 .. L : s[k] = x
    OBVIOUS
  <2>1. PICK n \in 0 .. L - 1 : at[n] = x
    BY <1>4
  <2>2. n + 1 \in 1 .. L /\ s[n + 1] = x
    BY <1>8, <2>1
  <2>3. QED
    BY <2>2
<1>12. \A j, k \in 1 .. L : s[j] = s[k] => j = k
  BY <1>4, <1>8
<1>13. first = IF L = 0 THEN None ELSE s[1]
  BY <1>4, <1>5, <1>8
<1>14. \A k \in 1 .. L : nxt[s[k]] = IF k = L THEN None ELSE s[k + 1]
  <2> SUFFICES ASSUME NEW k \in 1 .. L
               PROVE  nxt[s[k]] = IF k = L THEN None ELSE s[k + 1]
    OBVIOUS
  <2>1. k - 1 \in Nat /\ s[k] = at[k - 1] /\ at[k - 1] # None /\ (k - 1) + 1 = k
    BY <1>1, <1>4, <1>8
  <2>2. at[k] = nxt[s[k]]
    BY <1>5, <2>1
  <2>3. QED
    BY <1>4, <1>8, <2>2
<1>15. QED
  BY <1>9, <1>10, <1>11, <1>12, <1>13, <1>14 DEF Reads

\* Nothing else reads them.
LEMMA ReadsListing ==
  ASSUME NEW S, NEW M \in SUBSET S, IsFiniteSet(S), None \notin S,
         NEW nxt, NEW first, NEW s, Reads(s, nxt, first, M)
  PROVE  s = Listing(S, nxt, first)
<1>1. PICK L \in Nat : L = Len(s)
  BY DEF Reads
<1>2. /\ s = [n \in 1 .. L |-> s[n]] /\ \A n \in 1 .. L : s[n] \in M
      /\ \A j, k \in 1 .. L : s[j] = s[k] => j = k
      /\ first = IF L = 0 THEN None ELSE s[1]
      /\ \A k \in 1 .. L : nxt[s[k]] = IF k = L THEN None ELSE s[k + 1]
  BY <1>1 DEF Reads
<1>3. PICK at : at = Elements(nxt, first)
  OBVIOUS
<1>4. /\ at[0] = first
      /\ \A n \in Nat : at[n + 1] = IF at[n] = None THEN None ELSE nxt[at[n]]
  BY <1>3, ElementsDef
<1>5. \A n \in Nat : at[n] = IF n < L THEN s[n + 1] ELSE None
  <2> DEFINE T == {n \in Nat : at[n] # IF n < L THEN s[n + 1] ELSE None}
  <2> SUFFICES ASSUME T # {} PROVE FALSE
    OBVIOUS
  <2>1. PICK m \in T : \A k \in T : m <= k
    <3>1. T \in SUBSET Nat
      OBVIOUS
    <3> HIDE DEF T
    <3>2. QED
      BY <3>1, LeastNat
  <2>2. m # 0
    BY <1>2, <1>4
  <2>3. m - 1 \in Nat /\ m - 1 \notin T /\ (m - 1) + 1 = m
    BY <2>1, <2>2
  <2>4. at[m] = IF at[m - 1] = None THEN None ELSE nxt[at[m - 1]]
    BY <1>4, <2>3
  <2>5. at[m - 1] = IF m - 1 < L THEN s[m] ELSE None
    BY <2>3
  <2>6. CASE m - 1 < L
    <3>1. m \in 1 .. L /\ s[m] # None
      BY <1>2, <2>2, <2>6
    <3>2. QED
      BY <1>2, <2>4, <2>5, <2>6, <3>1
  <2>7. CASE ~(m - 1 < L)
    BY <2>4, <2>5, <2>7
  <2>8. QED
    BY <2>6, <2>7
<1>6. L <= Cardinality(S) /\ Cardinality(S) \in Nat
  <2>1. s \in Injection(1 .. L, S)
    BY <1>2 DEF Injection, IsInjective
  <2>2. Cardinality(1 .. L) = L
    BY FS_Interval
  <2>3. QED
    BY <2>1, <2>2, FS_Injection, FS_CardinalityType
<1>7. {n \in 0 .. Cardinality(S) : at[n] # None} = 0 .. L - 1
  BY <1>2, <1>5, <1>6
<1>8. Cardinality(0 .. L - 1) = L
  BY FS_Interval
<1>9. Listing(S, nxt, first) = [n \in 1 .. L |-> at[n - 1]]
  BY <1>3, <1>7, <1>8 DEF Listing
<1>10. \A n \in 1 .. L : at[n - 1] = s[n]
  BY <1>5
<1>11. QED
  BY <1>2, <1>9, <1>10

\* The listing depends on the links of the members only.
LEMMA ListingFrame ==
  ASSUME NEW S, NEW M \in SUBSET S, IsFiniteSet(S), None \notin S,
         NEW prv, NEW nxt, NEW first, NEW last, NEW nxt2,
         IsList(prv, nxt, first, last, M),
         \A x \in M : nxt2[x] = nxt[x]
  PROVE  Listing(S, nxt2, first) = Listing(S, nxt, first)
<1>1. PICK s : s = Listing(S, nxt, first)
  OBVIOUS
<1>2. Reads(s, nxt, first, M)
  BY <1>1, ListingReads
<1>3. Reads(s, nxt2, first, M)
  <2>1. \A k \in 1 .. Len(s) : s[k] \in M
    BY <1>2 DEF Reads
  <2>2. QED
    BY <1>2, <2>1 DEF Reads
<1>4. QED
  BY <1>1, <1>3, ReadsListing

\* The empty list lists nothing.
LEMMA ListingEmpty ==
  ASSUME NEW S, IsFiniteSet(S), None \notin S, NEW nxt
  PROVE  Listing(S, nxt, None) = <<>>
<1>1. Reads(<<>>, nxt, None, {})
  BY DEF Reads
<1>2. QED
  BY <1>1, ReadsListing

\* A list read from its end is the listing reversed.
LEMMA ListingBackwards ==
  ASSUME NEW S, NEW M \in SUBSET S, IsFiniteSet(S), None \notin S,
         NEW prv, NEW nxt, NEW first, NEW last, IsList(prv, nxt, first, last, M)
  PROVE  Mirrors(Listing(S, prv, last), Listing(S, nxt, first))
<1>1. PICK s : s = Listing(S, nxt, first)
  OBVIOUS
<1>2. Reads(s, nxt, first, M)
  BY <1>1, ListingReads
<1>3. PICK L \in Nat : L = Len(s)
  BY <1>2 DEF Reads
<1>4. PICK r : r = [k \in 1 .. L |-> s[L + 1 - k]]
  OBVIOUS
<1>5. /\ \A k \in 1 .. L : s[k] \in M
      /\ \A x \in M : \E k \in 1 .. L : s[k] = x
      /\ \A j, k \in 1 .. L : s[j] = s[k] => j = k
      /\ first = IF L = 0 THEN None ELSE s[1]
      /\ \A k \in 1 .. L : nxt[s[k]] = IF k = L THEN None ELSE s[k + 1]
  BY <1>2, <1>3 DEF Reads
<1>6. Reads(r, prv, last, M)
  <2>1. r \in Seq(M) /\ Len(r) = L
    BY <1>4, <1>5
  <2>2. \A x \in M : \E k \in 1 .. L : r[k] = x
    <3> SUFFICES ASSUME NEW x \in M PROVE \E k \in 1 .. L : r[k] = x
      OBVIOUS
    <3>1. PICK k \in 1 .. L : s[k] = x
      BY <1>5
    <3>2. L + 1 - k \in 1 .. L /\ r[L + 1 - k] = x
      BY <1>4, <3>1
    <3>3. QED
      BY <3>2
  <2>3. \A j, k \in 1 .. L : r[j] = r[k] => j = k
    <3> SUFFICES ASSUME NEW j \in 1 .. L, NEW k \in 1 .. L, r[j] = r[k]
                 PROVE  j = k
      OBVIOUS
    <3>1. L + 1 - j \in 1 .. L /\ L + 1 - k \in 1 .. L
      OBVIOUS
    <3>2. s[L + 1 - j] = s[L + 1 - k]
      BY <1>4
    <3>3. L + 1 - j = L + 1 - k
      BY <1>5, <3>1, <3>2
    <3>4. QED
      BY <3>3
  <2>4. last = IF L = 0 THEN None ELSE r[1]
    <3>1. CASE L = 0
      BY <1>5, <3>1 DEF IsList
    <3>2. CASE L # 0
      <4>1. L \in 1 .. L /\ s[L] \in M /\ nxt[s[L]] = None /\ r[1] = s[L]
        BY <1>4, <1>5, <3>2
      <4>2. QED
        BY <3>2, <4>1 DEF IsList, Linked
    <3>3. QED
      BY <3>1, <3>2
  <2>5. ASSUME NEW k \in 1 .. L
        PROVE  prv[r[k]] = IF k = L THEN None ELSE r[k + 1]
    <3>1. CASE k = L
      <4>1. r[k] = s[1] /\ s[1] \in M /\ first = s[1]
        BY <1>4, <1>5, <3>1
      <4>2. QED
        BY <3>1, <4>1 DEF IsList, Linked
    <3>2. CASE k # L
      <4>1. PICK j \in 1 .. L : j = L - k
        BY <3>2
      <4>2. r[k + 1] = s[j] /\ r[k] = s[j + 1] /\ j # L /\ j + 1 \in 1 .. L
        BY <1>4, <3>2, <4>1
      <4>3. nxt[s[j]] = s[j + 1] /\ s[j] \in M /\ s[j + 1] \in M
        BY <1>5, <4>2
      <4>4. prv[s[j + 1]] = s[j]
        BY <4>3 DEF IsList, Linked
      <4>5. QED
        BY <3>2, <4>2, <4>4
    <3>3. QED
      BY <3>1, <3>2
  <2>6. QED
    BY <2>1, <2>2, <2>3, <2>4, <2>5 DEF Reads
<1>7. r = Listing(S, prv, last)
  BY <1>6, ReadsListing
<1>8. Len(s) = Len(r) /\ \A k \in DOMAIN s : r[Len(s) + 1 - k] = s[k]
  <2>1. Len(r) = L /\ DOMAIN s = 1 .. L
    BY <1>2, <1>3, <1>4 DEF Reads
  <2>2. QED
    BY <1>3, <1>4, <2>1
<1>9. QED
  BY <1>1, <1>7, <1>8 DEF Mirrors

\* The sequence with x at place k.
LEMMA InsertedAt ==
  ASSUME NEW S, NEW s \in Seq(S), NEW x \in S, NEW k \in 1 .. Len(s) + 1,
         NEW r, r = [j \in 1 .. Len(s) + 1 |-> IF j < k THEN s[j] ELSE IF j = k THEN x ELSE s[j - 1]]
  PROVE  r = SubSeq(s, 1, k - 1) \o <<x>> \o SubSeq(s, k, Len(s))
<1>1. PICK L \in Nat : L = Len(s)
  OBVIOUS
<1>2. PICK a : a = SubSeq(s, 1, k - 1)
  OBVIOUS
<1>3. /\ a \in Seq(S) /\ Len(a) = k - 1
      /\ \A j \in 1 .. k - 1 : a[j] = s[j]
  BY <1>1, <1>2
<1>4. PICK b : b = SubSeq(s, k, L)
  OBVIOUS
<1>5. /\ b \in Seq(S) /\ Len(b) = L + 1 - k
      /\ \A j \in 1 .. L + 1 - k : b[j] = s[j + k - 1]
  BY <1>1, <1>4
<1>6. PICK c : c = a \o <<x>>
  OBVIOUS
<1>7. /\ c \in Seq(S) /\ Len(c) = k
      /\ \A j \in 1 .. k : c[j] = IF j < k THEN s[j] ELSE x
  BY <1>3, <1>6
<1>8. PICK d : d = c \o b
  OBVIOUS
<1>9. /\ d \in Seq(S) /\ Len(d) = L + 1
      /\ \A j \in 1 .. L + 1 : d[j] = IF j <= k THEN c[j] ELSE b[j - k]
  <2>1. /\ d \in Seq(S) /\ Len(d) = Len(c) + Len(b)
        /\ \A j \in 1 .. Len(c) + Len(b) : d[j] = IF j <= Len(c) THEN c[j] ELSE b[j - Len(c)]
    <3>1. /\ c \o b \in Seq(S) /\ Len(c \o b) = Len(c) + Len(b)
          /\ \A j \in 1 .. Len(c) + Len(b) :
               (c \o b)[j] = IF j <= Len(c) THEN c[j] ELSE b[j - Len(c)]
      BY <1>5, <1>7, ConcatProperties
    <3>2. QED
      BY <1>8, <3>1
  <2>2. Len(c) + Len(b) = L + 1
    BY <1>1, <1>5, <1>7
  <2>3. QED
    BY <1>7, <2>1, <2>2
<1>10. ASSUME NEW j \in 1 .. L + 1
       PROVE  d[j] = IF j < k THEN s[j] ELSE IF j = k THEN x ELSE s[j - 1]
  <2>1. CASE j <= k
    BY <1>1, <1>7, <1>9, <2>1
  <2>2. CASE j > k
    <3>1. j - k \in 1 .. L + 1 - k /\ (j - k) + k - 1 = j - 1
      BY <1>1, <2>2
    <3>2. b[j - k] = s[j - 1]
      BY <1>5, <3>1
    <3>3. QED
      BY <1>1, <1>9, <2>2, <3>2
  <2>3. QED
    BY <1>1, <2>1, <2>2
<1>11. d = [j \in 1 .. L + 1 |-> IF j < k THEN s[j] ELSE IF j = k THEN x ELSE s[j - 1]]
  BY <1>9, <1>10
<1>12. QED
  BY <1>1, <1>2, <1>4, <1>6, <1>8, <1>11

\* The sequence without its place k.
LEMMA RemovedAt ==
  ASSUME NEW S, NEW s \in Seq(S), NEW k \in 1 .. Len(s)
  PROVE  SubSeq(s, 1, k - 1) \o SubSeq(s, k + 1, Len(s))
           = [j \in 1 .. Len(s) - 1 |-> IF j < k THEN s[j] ELSE s[j + 1]]
<1>1. PICK L \in Nat : L = Len(s)
  OBVIOUS
<1>2. PICK a : a = SubSeq(s, 1, k - 1)
  OBVIOUS
<1>3. /\ a \in Seq(S) /\ Len(a) = k - 1
      /\ \A j \in 1 .. k - 1 : a[j] = s[j]
  BY <1>1, <1>2
<1>4. PICK b : b = SubSeq(s, k + 1, L)
  OBVIOUS
<1>5. /\ b \in Seq(S) /\ Len(b) = L - k
      /\ \A j \in 1 .. L - k : b[j] = s[j + k]
  BY <1>1, <1>4
<1>6. PICK d : d = a \o b
  OBVIOUS
<1>7. /\ d \in Seq(S) /\ Len(d) = L - 1
      /\ \A j \in 1 .. L - 1 : d[j] = IF j < k THEN a[j] ELSE b[j - (k - 1)]
  <2>1. /\ d \in Seq(S) /\ Len(d) = Len(a) + Len(b)
        /\ \A j \in 1 .. Len(a) + Len(b) : d[j] = IF j <= Len(a) THEN a[j] ELSE b[j - Len(a)]
    <3>1. /\ a \o b \in Seq(S) /\ Len(a \o b) = Len(a) + Len(b)
          /\ \A j \in 1 .. Len(a) + Len(b) :
               (a \o b)[j] = IF j <= Len(a) THEN a[j] ELSE b[j - Len(a)]
      BY <1>3, <1>5, ConcatProperties
    <3>2. QED
      BY <1>6, <3>1
  <2>2. Len(a) + Len(b) = L - 1
    BY <1>1, <1>3, <1>5
  <2>3. \A j \in 1 .. L - 1 : j <= k - 1 <=> j < k
    BY <1>1
  <2>4. QED
    BY <1>3, <2>1, <2>2, <2>3
<1>8. ASSUME NEW j \in 1 .. L - 1
      PROVE  d[j] = IF j < k THEN s[j] ELSE s[j + 1]
  <2>1. CASE j < k
    BY <1>1, <1>3, <1>7, <2>1
  <2>2. CASE j >= k
    <3>1. j - (k - 1) \in 1 .. L - k /\ (j - (k - 1)) + k = j + 1
      BY <1>1, <2>2
    <3>2. b[j - (k - 1)] = s[j + 1]
      BY <1>5, <3>1
    <3>3. QED
      BY <1>1, <1>7, <2>2, <3>2
  <2>3. QED
    BY <1>1, <2>1, <2>2
<1>9. d = [j \in 1 .. L - 1 |-> IF j < k THEN s[j] ELSE s[j + 1]]
  BY <1>7, <1>8
<1>10. QED
  BY <1>1, <1>2, <1>4, <1>6, <1>9

\* list2 is list with x in between, right behind p when p is not None.
InsertedIn(list, list2, x, p) ==
  \E k \in 1 .. Len(list) + 1 :
     /\ list2 = SubSeq(list, 1, k - 1) \o <<x>> \o SubSeq(list, k, Len(list))
     /\ p # None => k > 1 /\ list[k - 1] = p

\* list2 is list without x, which has the successor n in it.
RemovedFrom(list, list2, x, n) ==
  \E k \in 1 .. Len(list) :
     /\ list2 = SubSeq(list, 1, k - 1) \o SubSeq(list, k + 1, Len(list))
     /\ list[k] = x
     /\ n = None <=> k = Len(list)

\* list2 is list followed by tail.
AppendedTo(list, list2, tail) == list2 = list \o tail

\* front and rear are what comes before x in list, and the rest.
CutAt(list, front, rear, x) ==
  \E k \in 1 .. Len(list) :
     /\ list[k] = x
     /\ front = SubSeq(list, 1, k - 1)
     /\ rear = SubSeq(list, k, Len(list))

\* Filling a gap inserts the element behind p, at the front when p is None.
LEMMA ListingInsert ==
  ASSUME NEW S, NEW M \in SUBSET S, IsFiniteSet(S), None \notin S,
         NEW prv, NEW nxt, NEW prv2, NEW nxt2, NEW first, NEW last,
         NEW x \in S, NEW p, NEW n, NEW first2,
         IsList(prv, nxt, first, last, M),
         GapFilled(prv, nxt, prv2, nxt2, first, last, M, x, p, n),
         first2 = IF p = None THEN x ELSE first
  PROVE  InsertedIn(Listing(S, nxt, first), Listing(S, nxt2, first2), x, p)
<1> USE DEF GapFilled
<1>1. PICK s : s = Listing(S, nxt, first)
  OBVIOUS
<1>2. Reads(s, nxt, first, M)
  BY <1>1, ListingReads
<1>3. PICK L \in Nat : L = Len(s)
  BY <1>2 DEF Reads
<1>4. /\ \A k \in 1 .. L : s[k] \in M /\ s[k] # None
      /\ \A y \in M : \E k \in 1 .. L : s[k] = y
      /\ \A j, k \in 1 .. L : s[j] = s[k] => j = k
      /\ first = IF L = 0 THEN None ELSE s[1]
      /\ \A k \in 1 .. L : nxt[s[k]] = IF k = L THEN None ELSE s[k + 1]
  BY <1>2, <1>3 DEF Reads
\* The place of the gap.
<1>5. PICK k \in 1 .. L + 1 : /\ p = IF k = 1 THEN None ELSE s[k - 1]
                             /\ n = IF k = L + 1 THEN None ELSE s[k]
  <2>1. CASE p = None
    BY <1>4, <2>1
  <2>2. CASE p # None
    <3>1. PICK j \in 1 .. L : s[j] = p
      BY <1>4, <2>2
    <3>2. n = IF j = L THEN None ELSE s[j + 1]
      BY <1>4, <2>2, <3>1
    <3>3. j + 1 \in 1 .. L + 1 /\ (j + 1) - 1 = j /\ j + 1 # 1
      OBVIOUS
    <3>4. QED
      BY <3>1, <3>2, <3>3
  <2>3. QED
    BY <2>1, <2>2
<1>6. PICK r : r = [j \in 1 .. L + 1 |-> IF j < k THEN s[j] ELSE IF j = k THEN x ELSE s[j - 1]]
  OBVIOUS
<1>7. r = SubSeq(s, 1, k - 1) \o <<x>> \o SubSeq(s, k, L)
  <2>1. s \in Seq(S) /\ k \in 1 .. Len(s) + 1
    BY <1>2, <1>3 DEF Reads
  <2>2. r = [j \in 1 .. Len(s) + 1 |-> IF j < k THEN s[j] ELSE IF j = k THEN x ELSE s[j - 1]]
    BY <1>3, <1>6
  <2>3. r = SubSeq(s, 1, k - 1) \o <<x>> \o SubSeq(s, k, Len(s))
    BY <2>1, <2>2, InsertedAt, ZenonT(40)
  <2>4. QED
    BY <1>3, <2>3
<1>8. Reads(r, nxt2, first2, M \cup {x})
  <2>1. r \in Seq(M \cup {x}) /\ Len(r) = L + 1
    BY <1>4, <1>6
  <2>2. \A y \in M \cup {x} : \E j \in 1 .. L + 1 : r[j] = y
    <3>1. r[k] = x
      BY <1>6
    <3>2. ASSUME NEW y \in M PROVE \E j \in 1 .. L + 1 : r[j] = y
      <4>1. PICK j \in 1 .. L : s[j] = y
        BY <1>4
      <4>2. IF j < k THEN r[j] = y ELSE r[j + 1] = y
        BY <1>6, <4>1
      <4>3. QED
        BY <4>2
    <3>3. QED
      BY <3>1, <3>2
  <2>3. \A i, j \in 1 .. L + 1 : r[i] = r[j] => i = j
    <3>1. ASSUME NEW j \in 1 .. L + 1
          PROVE  r[j] = IF j < k THEN s[j] ELSE IF j = k THEN x ELSE s[j - 1]
      BY <1>6
    <3>2. QED
      BY <1>4, <3>1
  <2>4. first2 = r[1]
    BY <1>4, <1>5, <1>6
  <2>5. ASSUME NEW j \in 1 .. L + 1
        PROVE  nxt2[r[j]] = IF j = L + 1 THEN None ELSE r[j + 1]
    <3>1. CASE j + 1 < k
      <4>1. r[j] = s[j] /\ r[j + 1] = s[j + 1] /\ j \in 1 .. L /\ j # L /\ s[j] # p
        BY <1>4, <1>5, <1>6, <3>1
      <4>2. QED
        BY <1>4, <3>1, <4>1
    <3>2. CASE j + 1 = k
      <4>1. r[j] = p /\ p \in M /\ r[j + 1] = x /\ j # L + 1
        BY <1>4, <1>5, <1>6, <3>2
      <4>2. QED
        BY <4>1
    <3>3. CASE j = k
      <4>1. r[j] = x /\ (j # L + 1 => r[j + 1] = s[j])
        BY <1>6, <3>3
      <4>2. QED
        BY <1>5, <3>3, <4>1
    <3>4. CASE j > k
      <4>1. PICK i \in 1 .. L : i = j - 1
        BY <3>4
      <4>2. r[j] = s[i] /\ (j # L + 1 => r[j + 1] = s[i + 1]) /\ s[i] # p
        BY <1>4, <1>5, <1>6, <3>4, <4>1
      <4>3. QED
        BY <1>4, <4>1, <4>2
    <3>5. QED
      BY <3>1, <3>2, <3>3, <3>4
  <2>6. QED
    BY <2>1, <2>2, <2>3, <2>4, <2>5 DEF Reads
<1>9. r = Listing(S, nxt2, first2)
  <2>1. M \cup {x} \in SUBSET S
    OBVIOUS
  <2>2. QED
    BY <1>8, <2>1, ReadsListing
<1>10. p # None => k > 1 /\ s[k - 1] = p
  BY <1>5
<1>11. Listing(S, nxt2, first2) = SubSeq(s, 1, k - 1) \o <<x>> \o SubSeq(s, k, Len(s))
  BY <1>3, <1>7, <1>9
<1>12. k \in 1 .. Len(s) + 1
  BY <1>3
<1>13. QED
  BY <1>1, <1>10, <1>11, <1>12 DEF InsertedIn

\* Taking an element out removes it from its place, the last place when it
\* has no successor.
LEMMA ListingRemove ==
  ASSUME NEW S, NEW M \in SUBSET S, IsFiniteSet(S), None \notin S,
         NEW prv, NEW nxt, NEW prv2, NEW nxt2, NEW first, NEW last, NEW x, NEW first2,
         IsList(prv, nxt, first, last, M),
         TakenOut(prv, nxt, prv2, nxt2, M, x),
         first2 = IF prv[x] = None THEN nxt[x] ELSE first
  PROVE  RemovedFrom(Listing(S, nxt, first), Listing(S, nxt2, first2), x, nxt[x])
<1> USE DEF TakenOut
<1>1. PICK s : s = Listing(S, nxt, first)
  OBVIOUS
<1>2. Reads(s, nxt, first, M)
  BY <1>1, ListingReads
<1>3. PICK L \in Nat : L = Len(s)
  BY <1>2 DEF Reads
<1>4. /\ \A k \in 1 .. L : s[k] \in M /\ s[k] # None
      /\ \A y \in M : \E k \in 1 .. L : s[k] = y
      /\ \A j, k \in 1 .. L : s[j] = s[k] => j = k
      /\ first = IF L = 0 THEN None ELSE s[1]
      /\ \A k \in 1 .. L : nxt[s[k]] = IF k = L THEN None ELSE s[k + 1]
  BY <1>2, <1>3 DEF Reads
<1>5. PICK k \in 1 .. L : s[k] = x
  BY <1>4
<1>6. nxt[x] = IF k = L THEN None ELSE s[k + 1]
  BY <1>4, <1>5
<1>7. prv[x] = IF k = 1 THEN None ELSE s[k - 1]
  <2>1. CASE k = 1
    BY <1>4, <1>5, <2>1 DEF IsList, Linked
  <2>2. CASE k # 1
    <3>1. k - 1 \in 1 .. L /\ nxt[s[k - 1]] = x /\ s[k - 1] \in M /\ x # None
      BY <1>4, <1>5, <2>2
    <3>2. prv[x] = s[k - 1]
      BY <3>1 DEF IsList, Linked
    <3>3. QED
      BY <2>2, <3>2
  <2>3. QED
    BY <2>1, <2>2
<1>8. PICK r : r = [j \in 1 .. L - 1 |-> IF j < k THEN s[j] ELSE s[j + 1]]
  OBVIOUS
<1>9. r = SubSeq(s, 1, k - 1) \o SubSeq(s, k + 1, L)
  <2>1. s \in Seq(S) /\ k \in 1 .. Len(s)
    BY <1>2, <1>3 DEF Reads
  <2>2. QED
    BY <1>3, <1>8, <2>1, RemovedAt
<1>10. Reads(r, nxt2, first2, M \ {x})
  <2>1. r \in Seq(M \ {x}) /\ Len(r) = L - 1
    <3>1. \A j \in 1 .. L - 1 : r[j] \in M \ {x}
      BY <1>4, <1>5, <1>8
    <3>2. QED
      BY <1>8, <3>1
  <2>2. \A y \in M \ {x} : \E j \in 1 .. L - 1 : r[j] = y
    <3> SUFFICES ASSUME NEW y \in M \ {x} PROVE \E j \in 1 .. L - 1 : r[j] = y
      OBVIOUS
    <3>1. PICK j \in 1 .. L : s[j] = y
      BY <1>4
    <3>2. j # k
      BY <1>5, <3>1
    <3>3. IF j < k THEN j \in 1 .. L - 1 /\ r[j] = y ELSE j - 1 \in 1 .. L - 1 /\ r[j - 1] = y
      BY <1>8, <3>1, <3>2
    <3>4. QED
      BY <3>3
  <2>3. \A i, j \in 1 .. L - 1 : r[i] = r[j] => i = j
    <3>1. \A j \in 1 .. L - 1 : r[j] = IF j < k THEN s[j] ELSE s[j + 1]
      BY <1>8
    <3>2. QED
      BY <1>4, <3>1
  <2>4. first2 = IF L - 1 = 0 THEN None ELSE r[1]
    BY <1>4, <1>5, <1>6, <1>7, <1>8
  <2>5. ASSUME NEW j \in 1 .. L - 1
        PROVE  nxt2[r[j]] = IF j = L - 1 THEN None ELSE r[j + 1]
    <3>0. r[j] \in M \ {x}
      BY <2>1
    <3>1. CASE j + 1 < k
      <4>1. r[j] = s[j] /\ r[j + 1] = s[j + 1] /\ j \in 1 .. L /\ j # L - 1 /\ j # L /\ s[j] # prv[x]
        BY <1>4, <1>7, <1>8, <3>1
      <4>2. QED
        BY <1>4, <3>0, <4>1
    <3>2. CASE j + 1 = k
      <4>1. r[j] = prv[x] /\ (j # L - 1 => r[j + 1] = s[k + 1]) /\ (j = L - 1 <=> k = L)
        BY <1>7, <1>8, <3>2
      <4>2. QED
        BY <1>6, <3>0, <4>1
    <3>3. CASE j >= k
      <4>1. PICK i \in 1 .. L : i = j + 1
        OBVIOUS
      <4>2. r[j] = s[i] /\ (j # L - 1 => r[j + 1] = s[i + 1]) /\ s[i] # prv[x]
        BY <1>4, <1>7, <1>8, <3>3, <4>1
      <4>3. QED
        BY <1>4, <3>0, <4>1, <4>2
    <3>4. QED
      BY <3>1, <3>2, <3>3
  <2>6. QED
    BY <2>1, <2>2, <2>3, <2>4, <2>5 DEF Reads
<1>11. r = Listing(S, nxt2, first2)
  <2>1. M \ {x} \in SUBSET S
    OBVIOUS
  <2>2. QED
    BY <1>10, <2>1, ReadsListing
<1>12. nxt[x] = None <=> k = L
  <2>1. k # L => s[k + 1] # None
    BY <1>4
  <2>2. QED
    BY <1>6, <2>1
<1>13. QED
  BY <1>1, <1>3, <1>5, <1>9, <1>11, <1>12 DEF RemovedFrom

\* Hanging one list behind another appends its listing.
LEMMA ListingJoin ==
  ASSUME NEW S, NEW A \in SUBSET S, NEW B \in SUBSET S, IsFiniteSet(S), None \notin S,
         NEW prv, NEW nxt, NEW prv2, NEW nxt2,
         NEW firstA, NEW lastA, NEW firstB, NEW lastB,
         IsList(prv, nxt, firstA, lastA, A), IsList(prv, nxt, firstB, lastB, B),
         A # {}, B # {}, A \cap B = {},
         Joined(prv, nxt, prv2, nxt2, lastA, firstB, A \cup B)
  PROVE  AppendedTo(Listing(S, nxt, firstA), Listing(S, nxt2, firstA), Listing(S, nxt, firstB))
<1> USE DEF Joined
<1>1. PICK s : s = Listing(S, nxt, firstA)
  OBVIOUS
<1>2. PICK t : t = Listing(S, nxt, firstB)
  OBVIOUS
<1>3. Reads(s, nxt, firstA, A) /\ Reads(t, nxt, firstB, B)
  BY <1>1, <1>2, ListingReads
<1>4. PICK K \in Nat : K = Len(s)
  BY <1>3 DEF Reads
<1>5. PICK L \in Nat : L = Len(t)
  BY <1>3 DEF Reads
<1>6. /\ \A k \in 1 .. K : s[k] \in A /\ s[k] # None
      /\ \A y \in A : \E k \in 1 .. K : s[k] = y
      /\ \A j, k \in 1 .. K : s[j] = s[k] => j = k
      /\ firstA = IF K = 0 THEN None ELSE s[1]
      /\ \A k \in 1 .. K : nxt[s[k]] = IF k = K THEN None ELSE s[k + 1]
  BY <1>3, <1>4 DEF Reads
<1>7. /\ \A k \in 1 .. L : t[k] \in B /\ t[k] # None
      /\ \A y \in B : \E k \in 1 .. L : t[k] = y
      /\ \A j, k \in 1 .. L : t[j] = t[k] => j = k
      /\ firstB = IF L = 0 THEN None ELSE t[1]
      /\ \A k \in 1 .. L : nxt[t[k]] = IF k = L THEN None ELSE t[k + 1]
  BY <1>3, <1>5 DEF Reads
<1>8. K # 0 /\ L # 0
  BY <1>6, <1>7
<1>9. lastA = s[K]
  <2>1. K \in 1 .. K
    BY <1>8
  <2>2. nxt[s[K]] = None /\ s[K] \in A
    BY <1>6, <2>1
  <2>3. QED
    BY <2>2 DEF IsList, Linked
<1>10. PICK r : r = s \o t
  OBVIOUS
<1>11. /\ r \in Seq(A \cup B) /\ Len(r) = K + L
       /\ \A j \in 1 .. K + L : r[j] = IF j <= K THEN s[j] ELSE t[j - K]
  <2>1. /\ s \o t \in Seq(A \cup B) /\ Len(s \o t) = Len(s) + Len(t)
        /\ \A j \in 1 .. Len(s) + Len(t) : (s \o t)[j] = IF j <= Len(s) THEN s[j] ELSE t[j - Len(s)]
    <3>1. s \in Seq(A \cup B) /\ t \in Seq(A \cup B)
      <4>1. s \in Seq(A) /\ t \in Seq(B) /\ A \subseteq A \cup B /\ B \subseteq A \cup B
        BY <1>3 DEF Reads
      <4>2. QED
        BY <4>1, SeqMonotonic
    <3>2. QED
      BY <3>1, ConcatProperties
  <2>2. QED
    BY <1>4, <1>5, <1>10, <2>1
<1>12. Reads(r, nxt2, firstA, A \cup B)
  <2>1. \A y \in A \cup B : \E j \in 1 .. K + L : r[j] = y
    <3>1. ASSUME NEW y \in A PROVE \E j \in 1 .. K + L : r[j] = y
      <4>1. PICK j \in 1 .. K : s[j] = y
        BY <1>6
      <4>2. QED
        BY <1>11, <4>1
    <3>2. ASSUME NEW y \in B PROVE \E j \in 1 .. K + L : r[j] = y
      <4>1. PICK j \in 1 .. L : t[j] = y
        BY <1>7
      <4>2. j + K \in 1 .. K + L /\ ~(j + K <= K) /\ (j + K) - K = j
        OBVIOUS
      <4>3. r[j + K] = y
        BY <1>11, <4>1, <4>2
      <4>4. QED
        BY <4>2, <4>3
    <3>3. QED
      BY <3>1, <3>2
  <2>2. ASSUME NEW i \in 1 .. K + L, NEW j \in 1 .. K + L, r[i] = r[j]
        PROVE  i = j
    <3>1. CASE i <= K /\ j <= K
      BY <1>6, <1>11, <2>2, <3>1
    <3>2. CASE i > K /\ j > K
      <4>1. i - K \in 1 .. L /\ j - K \in 1 .. L /\ t[i - K] = t[j - K]
        BY <1>11, <2>2, <3>2
      <4>2. i - K = j - K
        BY <1>7, <4>1
      <4>3. QED
        BY <4>2
    <3>3. CASE i <= K /\ j > K
      <4>1. r[i] = s[i] /\ i \in 1 .. K /\ j - K \in 1 .. L /\ r[j] = t[j - K]
        BY <1>11, <3>3
      <4>2. s[i] \in A /\ t[j - K] \in B
        BY <1>6, <1>7, <4>1
      <4>3. QED
        BY <2>2, <4>1, <4>2
    <3>4. CASE i > K /\ j <= K
      <4>1. r[j] = s[j] /\ j \in 1 .. K /\ i - K \in 1 .. L /\ r[i] = t[i - K]
        BY <1>11, <3>4
      <4>2. s[j] \in A /\ t[i - K] \in B
        BY <1>6, <1>7, <4>1
      <4>3. QED
        BY <2>2, <4>1, <4>2
    <3>5. QED
      BY <3>1, <3>2, <3>3, <3>4
  <2>3. firstA = r[1] /\ K + L # 0
    BY <1>6, <1>8, <1>11
  <2>4. ASSUME NEW j \in 1 .. K + L
        PROVE  nxt2[r[j]] = IF j = K + L THEN None ELSE r[j + 1]
    <3>1. CASE j < K
      <4>1. r[j] = s[j] /\ r[j + 1] = s[j + 1] /\ j \in 1 .. K /\ s[j] # lastA
        BY <1>6, <1>9, <1>11, <3>1
      <4>2. QED
        BY <1>6, <3>1, <4>1
    <3>2. CASE j = K
      <4>1. K + 1 \in 1 .. K + L /\ ~(K + 1 <= K) /\ (K + 1) - K = 1 /\ K \in 1 .. K
        BY <1>8
      <4>2. r[j] = lastA /\ r[j + 1] = firstB /\ lastA \in A
        BY <1>6, <1>7, <1>8, <1>9, <1>11, <3>2, <4>1
      <4>3. QED
        BY <1>8, <3>2, <4>2
    <3>3. CASE j > K
      <4>1. PICK i \in 1 .. L : i = j - K
        BY <3>3
      <4>2. r[j] = t[i] /\ (j # K + L => r[j + 1] = t[i + 1]) /\ (j = K + L <=> i = L)
        BY <1>11, <3>3, <4>1
      <4>3. t[i] \in B /\ t[i] # lastA
        <5>1. K \in 1 .. K
          BY <1>8
        <5>2. QED
          BY <1>6, <1>7, <1>9, <5>1
      <4>4. QED
        BY <1>7, <4>2, <4>3
    <3>4. QED
      BY <3>1, <3>2, <3>3
  <2>5. QED
    BY <1>11, <2>1, <2>2, <2>3, <2>4 DEF Reads
<1>13. r = Listing(S, nxt2, firstA)
  <2>1. A \cup B \in SUBSET S
    OBVIOUS
  <2>2. QED
    BY <1>12, <2>1, ReadsListing
<1>14. QED
  BY <1>1, <1>2, <1>10, <1>13 DEF AppendedTo

\* Cutting a list before x cuts its listing there.
LEMMA ListingCut ==
  ASSUME NEW S, NEW M \in SUBSET S, IsFiniteSet(S), None \notin S,
         NEW prv, NEW nxt, NEW prv2, NEW nxt2, NEW first, NEW last, NEW x, NEW first2,
         IsList(prv, nxt, first, last, M),
         CutBefore(prv, nxt, prv2, nxt2, M, x),
         first2 = IF prv[x] = None THEN None ELSE first
  PROVE  CutAt(Listing(S, nxt, first), Listing(S, nxt2, first2), Listing(S, nxt2, x), x)
<1> USE DEF CutBefore
<1>1. PICK s : s = Listing(S, nxt, first)
  OBVIOUS
<1>2. Reads(s, nxt, first, M)
  BY <1>1, ListingReads
<1>3. PICK L \in Nat : L = Len(s)
  BY <1>2 DEF Reads
<1>4. /\ \A k \in 1 .. L : s[k] \in M /\ s[k] # None
      /\ \A y \in M : \E k \in 1 .. L : s[k] = y
      /\ \A j, k \in 1 .. L : s[j] = s[k] => j = k
      /\ first = IF L = 0 THEN None ELSE s[1]
      /\ \A k \in 1 .. L : nxt[s[k]] = IF k = L THEN None ELSE s[k + 1]
  BY <1>2, <1>3 DEF Reads
<1>5. PICK k \in 1 .. L : s[k] = x
  BY <1>4
<1>6. prv[x] = IF k = 1 THEN None ELSE s[k - 1]
  <2>1. CASE k = 1
    BY <1>4, <1>5, <2>1 DEF IsList, Linked
  <2>2. CASE k # 1
    <3>1. k - 1 \in 1 .. L /\ nxt[s[k - 1]] = x /\ s[k - 1] \in M /\ x # None
      BY <1>4, <1>5, <2>2
    <3>2. prv[x] = s[k - 1]
      BY <3>1 DEF IsList, Linked
    <3>3. QED
      BY <2>2, <3>2
  <2>3. QED
    BY <2>1, <2>2
<1>7. first2 = IF k = 1 THEN None ELSE s[1]
  BY <1>4, <1>6
<1>8. \A j \in 1 .. L : nxt2[s[j]] = IF j = k - 1 \/ j = L THEN None ELSE s[j + 1]
  <2> SUFFICES ASSUME NEW j \in 1 .. L
               PROVE  nxt2[s[j]] = IF j = k - 1 \/ j = L THEN None ELSE s[j + 1]
    OBVIOUS
  <2>1. s[j] = prv[x] <=> j = k - 1
    BY <1>4, <1>6
  <2>2. QED
    BY <1>4, <2>1
\* The front part.
<1>9. PICK a : a = SubSeq(s, 1, k - 1)
  OBVIOUS
<1>10. PICK A : A = {s[j] : j \in 1 .. k - 1}
  OBVIOUS
<1>11. /\ Len(a) = k - 1 /\ a \in Seq(A)
       /\ \A j \in 1 .. k - 1 : a[j] = s[j]
  <2>1. /\ a \in Seq(M) /\ Len(a) = k - 1
        /\ \A j \in 1 .. k - 1 : a[j] = s[j]
    BY <1>2, <1>3, <1>9 DEF Reads
  <2>2. \A j \in 1 .. k - 1 : a[j] \in A
    BY <1>10, <2>1
  <2>3. QED
    BY <2>1, <2>2
<1>12. Reads(a, nxt2, first2, A)
  <2>1. \A y \in A : \E j \in 1 .. k - 1 : a[j] = y
    BY <1>10, <1>11
  <2>2. \A i, j \in 1 .. k - 1 : a[i] = a[j] => i = j
    BY <1>4, <1>11
  <2>3. first2 = IF k - 1 = 0 THEN None ELSE a[1]
    BY <1>7, <1>11
  <2>4. \A j \in 1 .. k - 1 : nxt2[a[j]] = IF j = k - 1 THEN None ELSE a[j + 1]
    BY <1>8, <1>11
  <2>5. QED
    BY <1>11, <2>1, <2>2, <2>3, <2>4 DEF Reads
<1>13. a = Listing(S, nxt2, first2)
  <2>1. A \in SUBSET S
    BY <1>4, <1>10
  <2>2. QED
    BY <1>12, <2>1, ReadsListing
\* The rear part.
<1>14. PICK b : b = SubSeq(s, k, L)
  OBVIOUS
<1>15. PICK B : B = {s[j] : j \in k .. L}
  OBVIOUS
<1>16. PICK N \in Nat : N = L + 1 - k
  OBVIOUS
<1>17. /\ Len(b) = N /\ b \in Seq(B)
       /\ \A j \in 1 .. N : b[j] = s[j + k - 1]
  <2>1. /\ b \in Seq(M) /\ Len(b) = N
        /\ \A j \in 1 .. N : b[j] = s[j + k - 1]
    BY <1>2, <1>3, <1>14, <1>16 DEF Reads
  <2>2. \A j \in 1 .. N : b[j] \in B
    BY <1>15, <1>16, <2>1
  <2>3. QED
    BY <2>1, <2>2
<1>18. Reads(b, nxt2, x, B)
  <2>1. \A y \in B : \E j \in 1 .. N : b[j] = y
    <3> SUFFICES ASSUME NEW y \in B PROVE \E j \in 1 .. N : b[j] = y
      OBVIOUS
    <3>1. PICK j \in k .. L : s[j] = y
      BY <1>15
    <3>2. j + 1 - k \in 1 .. N /\ (j + 1 - k) + k - 1 = j
      BY <1>16
    <3>3. QED
      BY <1>17, <3>1, <3>2
  <2>2. ASSUME NEW i \in 1 .. N, NEW j \in 1 .. N, b[i] = b[j]
        PROVE  i = j
    <3>1. i + k - 1 \in 1 .. L /\ j + k - 1 \in 1 .. L
      BY <1>16
    <3>2. s[i + k - 1] = s[j + k - 1]
      BY <1>17, <2>2
    <3>3. i + k - 1 = j + k - 1
      BY <1>4, <3>1, <3>2
    <3>4. QED
      BY <3>3
  <2>3. N # 0 /\ x = b[1]
    BY <1>5, <1>16, <1>17
  <2>4. ASSUME NEW j \in 1 .. N
        PROVE  nxt2[b[j]] = IF j = N THEN None ELSE b[j + 1]
    <3>1. PICK i \in 1 .. L : i = j + k - 1
      BY <1>16
    <3>2. b[j] = s[i]
      BY <1>17, <3>1
    <3>3. i # k - 1 /\ (i = L <=> j = N)
      BY <1>16, <3>1
    <3>4. ASSUME j # N
          PROVE  b[j + 1] = s[i + 1]
      <4>1. PICK h \in 1 .. N : h = j + 1
        BY <3>4
      <4>2. h + k - 1 = i + 1
        BY <3>1, <4>1
      <4>3. b[h] = s[h + k - 1]
        BY <1>17
      <4>4. QED
        BY <4>1, <4>2, <4>3
    <3>5. nxt2[s[i]] = IF i = L THEN None ELSE s[i + 1]
      BY <1>8, <3>3
    <3>6. QED
      BY <3>2, <3>3, <3>4, <3>5
  <2>5. QED
    BY <1>17, <2>1, <2>2, <2>3, <2>4 DEF Reads
<1>19. b = Listing(S, nxt2, x)
  <2>1. B \in SUBSET S
    BY <1>4, <1>15
  <2>2. QED
    BY <1>18, <2>1, ReadsListing
<1>20. QED
  BY <1>1, <1>3, <1>5, <1>9, <1>13, <1>14, <1>19 DEF CutAt

=============================================================================
