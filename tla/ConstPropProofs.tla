-------------------------- MODULE ConstPropProofs --------------------------
(***************************************************************************)
(* The solver of constant propagation is right for every function in       *)
(* static single assignment form, where no phi is left with an operand it  *)
(* knows nothing of: a run enters executable blocks only, and computes for *)
(* a value the constant that the value is taken for.                       *)
(***************************************************************************)
EXTENDS Optimize, FiniteSetTheorems, WellFoundedInduction, TLAPS

-----------------------------------------------------------------------------
(* Folds over sequences, one element after the other                       *)

\* A set of numbers has a smallest one.
LEMMA LeastNat ==
  ASSUME NEW T \in SUBSET Nat, T # {}
  PROVE  \E m \in T : \A k \in T : m <= k
<1>1. IsWellFoundedOn(OpToRel(<, Nat), Nat)
  BY NatLessThanWellFounded
<1>2. PICK m \in T : \A k \in T : ~(<<k, m>> \in OpToRel(<, Nat))
  BY <1>1, WFMin
<1>3. \A k \in T : ~(k < m)
  BY <1>2 DEF OpToRel
<1>4. QED
  BY <1>3

\* The last number of a set of numbers.
LEMMA MaxIsTop ==
  ASSUME NEW n \in Nat, NEW s \in SUBSET (1 .. n), n \in s
  PROVE  Max(s) = n
<1>1. \A y \in s : n >= y
  OBVIOUS
<1>2. \A x \in s : (\A y \in s : x >= y) => x = n
  BY <1>1
<1>3. QED
  BY <1>1, <1>2 DEF Max

\* The four operators that are folded: Exec, eval_phi, eval_inst and the join of
\* eval_phi.
Join(s, phi, l, p) ==
  LET x == s.vals[func.edges[phi][p]]
  IN  IF l = Top \/ x = Top \/ (Elem(x) /\ Elem(l) /\ x # l) THEN Top ELSE x

Step(kind, s, c, acc, x) ==
  IF kind = "exec" THEN Exec(acc, x)
  ELSE IF kind = "phi" THEN eval_phi(acc, x, c)
  ELSE IF kind = "inst" THEN eval_inst(acc, x)
  ELSE Join(s, c, acc, x)

\* The function by which a fold is defined.
Iter(kind, s, c, base, seq, m, g) ==
  g = [S \in SUBSET (1 .. m) |->
         IF S = {} THEN base ELSE Step(kind, s, c, g[S \ {Max(S)}], seq[Max(S)])]

LEMMA IterExists ==
  ASSUME NEW kind, NEW s, NEW c, NEW base, NEW seq, NEW n \in Nat
  PROVE  \E g : Iter(kind, s, c, base, seq, n, g)
<1> DEFINE T == {m \in Nat : ~\E g : Iter(kind, s, c, base, seq, m, g)}
<1>1. \E g : Iter(kind, s, c, base, seq, 0, g)
  <2>1. Iter(kind, s, c, base, seq, 0, [S \in SUBSET (1 .. 0) |-> base])
    BY DEF Iter
  <2>2. QED
    BY <2>1
<1>2. ASSUME NEW m \in Nat \ {0}, NEW g, Iter(kind, s, c, base, seq, m - 1, g)
      PROVE  \E f : Iter(kind, s, c, base, seq, m, f)
  <2>1. PICK f : f = [S \in SUBSET (1 .. m) |-> IF m \in S THEN Step(kind, s, c, g[S \ {m}], seq[m]) ELSE g[S]]
    OBVIOUS
  <2>2. g = [S \in SUBSET (1 .. m - 1) |->
              IF S = {} THEN base ELSE Step(kind, s, c, g[S \ {Max(S)}], seq[Max(S)])]
    BY <1>2 DEF Iter
  <2>3. ASSUME NEW S \in SUBSET (1 .. m)
        PROVE  f[S] = IF S = {} THEN base ELSE Step(kind, s, c, f[S \ {Max(S)}], seq[Max(S)])
    <3>1. CASE m \in S
      <4>1. Max(S) = m
        BY <3>1, MaxIsTop
      <4>2. S \ {m} \in SUBSET (1 .. m) /\ m \notin S \ {m}
        OBVIOUS
      <4>3. f[S \ {m}] = g[S \ {m}]
        BY <2>1, <4>2
      <4>4. f[S] = Step(kind, s, c, g[S \ {m}], seq[m])
        BY <2>1, <3>1
      <4>5. QED
        BY <3>1, <4>1, <4>3, <4>4
    <3>2. CASE m \notin S
      <4>1. S \in SUBSET (1 .. m - 1) /\ f[S] = g[S]
        BY <2>1, <3>2
      <4>2. CASE S = {}
        BY <2>2, <4>1, <4>2
      <4>3. CASE S # {}
        <5>1. S \ {Max(S)} \in SUBSET (1 .. m) /\ m \notin S \ {Max(S)}
          BY <3>2
        <5>2. f[S \ {Max(S)}] = g[S \ {Max(S)}]
          BY <2>1, <5>1
        <5>3. QED
          BY <2>2, <4>1, <4>3, <5>2
      <4>4. QED
        BY <4>2, <4>3
    <3>3. QED
      BY <3>1, <3>2
  <2>4. f = [S \in SUBSET (1 .. m) |-> f[S]]
    BY <2>1
  <2>5. Iter(kind, s, c, base, seq, m, f)
    BY <2>3, <2>4 DEF Iter
  <2>6. QED
    BY <2>5
<1>3. \E g : Iter(kind, s, c, base, seq, n, g)
  <2> SUFFICES ASSUME ~\E g : Iter(kind, s, c, base, seq, n, g) PROVE FALSE
    OBVIOUS
  <2>1. T \in SUBSET Nat /\ n \in T
    OBVIOUS
  <2>2. PICK m \in T : \A k \in T : m <= k
    <3> HIDE DEF T
    <3>1. QED
      BY <2>1, LeastNat
  <2>3. m \in Nat /\ ~\E g : Iter(kind, s, c, base, seq, m, g)
    OBVIOUS
  <2>4. m # 0
    BY <1>1, <2>3
  <2>5. m - 1 \in Nat /\ m - 1 \notin T
    <3> HIDE DEF T
    <3>1. QED
      BY <2>2, <2>3, <2>4
  <2>6. PICK g : Iter(kind, s, c, base, seq, m - 1, g)
    BY <2>5
  <2>7. QED
    BY <1>2, <2>3, <2>4, <2>6
<1>4. QED
  BY <1>3

\* What such a function builds up, step by step.
Steps(kind, s, c, base, seq, n, h) ==
  h[0] = base /\ \A k \in 1 .. n : h[k] = Step(kind, s, c, h[k - 1], seq[k])

LEMMA IterSteps ==
  ASSUME NEW kind, NEW s, NEW c, NEW base, NEW seq, NEW n \in Nat,
         NEW g, Iter(kind, s, c, base, seq, n, g)
  PROVE  \E h : Steps(kind, s, c, base, seq, n, h) /\ h[n] = g[1 .. n]
<1>1. PICK h : h = [k \in 0 .. n |-> g[1 .. k]]
  OBVIOUS
<1>2. \A S \in SUBSET (1 .. n) :
        g[S] = IF S = {} THEN base ELSE Step(kind, s, c, g[S \ {Max(S)}], seq[Max(S)])
  BY DEF Iter
<1>3. h[0] = base
  <2>1. {} \in SUBSET (1 .. n) /\ 1 .. 0 = {} /\ 0 \in 0 .. n
    OBVIOUS
  <2>2. h[0] = g[1 .. 0]
    BY <1>1, <2>1
  <2>3. g[{}] = base
    BY <1>2, <2>1
  <2>4. QED
    BY <2>1, <2>2, <2>3
<1>4. ASSUME NEW k \in 1 .. n
      PROVE  h[k] = Step(kind, s, c, h[k - 1], seq[k])
  <2>1. PICK S : S = 1 .. k
    OBVIOUS
  <2>2. S \in SUBSET (1 .. k) /\ S \in SUBSET (1 .. n) /\ k \in S /\ S \ {k} = 1 .. k - 1 /\ k \in Nat
    BY <2>1
  <2>3. Max(S) = k
    BY <2>2, MaxIsTop
  <2>4. h[k] = g[S] /\ h[k - 1] = g[S \ {k}]
    <3>1. k \in 0 .. n /\ k - 1 \in 0 .. n
      OBVIOUS
    <3>2. h[k] = g[1 .. k] /\ h[k - 1] = g[1 .. k - 1]
      BY <1>1, <3>1
    <3>3. QED
      BY <2>1, <2>2, <3>2
  <2>5. S # {}
    BY <2>2
  <2>6. QED
    BY <1>2, <2>2, <2>3, <2>4, <2>5
<1>5. h[n] = g[1 .. n]
  <2>1. n \in 0 .. n
    OBVIOUS
  <2>2. QED
    BY <1>1, <2>1
<1>6. QED
  BY <1>3, <1>4, <1>5 DEF Steps

\* A block runs one instruction after the other.
ExecInTurn(base, seq, n, h) ==
  /\ h[0] = base /\ h[n] = FoldLeft(Exec, base, seq)
  /\ \A k \in 1 .. n : h[k] = Exec(h[k - 1], seq[k])

LEMMA ExecFold ==
  ASSUME NEW seq, NEW n \in Nat, DOMAIN seq = 1 .. n, NEW base
  PROVE  \E h : ExecInTurn(base, seq, n, h)
<1> DEFINE E(g) == g = [S \in SUBSET (1 .. n) |->
                          IF S = {} THEN base ELSE Exec(g[S \ {Max(S)}], seq[Max(S)])]
<1>1. \A a, x : Step("exec", 0, 0, a, x) = Exec(a, x)
  BY DEF Step
<1>2. PICK g0 : Iter("exec", 0, 0, base, seq, n, g0)
  BY IterExists
<1>3. E(g0)
  BY <1>1, <1>2 DEF Iter
<1>4. PICK g : g = CHOOSE x : E(x)
  OBVIOUS
<1>5. E(g)
  <2> HIDE DEF E
  <2>1. QED
    BY <1>3, <1>4
<1>6. FoldLeft(Exec, base, seq) = g[1 .. n]
  BY <1>4 DEF FoldLeft, MapThenFoldSet
<1>7. Iter("exec", 0, 0, base, seq, n, g)
  BY <1>1, <1>5 DEF Iter
<1>8. PICK h : Steps("exec", 0, 0, base, seq, n, h) /\ h[n] = g[1 .. n]
  BY <1>7, IterSteps
<1>9. QED
  BY <1>1, <1>6, <1>8 DEF Steps, ExecInTurn

\* The phis of a block are evaluated one after the other.
PhisInTurn(s, b, n, h) ==
  /\ h[0] = s /\ h[n] = eval_phis(s, b)
  /\ \A k \in 1 .. n : h[k] = eval_phi(h[k - 1], func.phis[b][k], b)

LEMMA PhiFold ==
  ASSUME NEW s, NEW b, NEW n \in Nat, DOMAIN func.phis[b] = 1 .. n
  PROVE  \E h : PhisInTurn(s, b, n, h)
<1> DEFINE E(g) == g = [S \in SUBSET (1 .. n) |->
                          IF S = {} THEN s ELSE eval_phi(g[S \ {Max(S)}], func.phis[b][Max(S)], b)]
<1>1. \A a, x : Step("phi", 0, b, a, x) = eval_phi(a, x, b)
  BY DEF Step
<1>2. PICK g0 : Iter("phi", 0, b, s, func.phis[b], n, g0)
  BY IterExists
<1>3. E(g0)
  BY <1>1, <1>2 DEF Iter
<1>4. PICK g : g = CHOOSE x : E(x)
  OBVIOUS
<1>5. E(g)
  <2> HIDE DEF E
  <2>1. QED
    BY <1>3, <1>4
<1>6. eval_phis(s, b) = g[1 .. n]
  BY <1>4 DEF eval_phis, FoldLeft, MapThenFoldSet
<1>7. Iter("phi", 0, b, s, func.phis[b], n, g)
  BY <1>1, <1>5 DEF Iter
<1>8. PICK h : Steps("phi", 0, b, s, func.phis[b], n, h) /\ h[n] = g[1 .. n]
  BY <1>7, IterSteps
<1>9. QED
  BY <1>1, <1>6, <1>8 DEF Steps, PhisInTurn

\* So are its other instructions.
InstsInTurn(s, b, n, h) ==
  /\ h[0] = s /\ h[n] = FoldLeft(eval_inst, s, func.body[b])
  /\ \A k \in 1 .. n : h[k] = eval_inst(h[k - 1], func.body[b][k])

LEMMA InstFold ==
  ASSUME NEW base, NEW b, NEW n \in Nat, DOMAIN func.body[b] = 1 .. n
  PROVE  \E h : InstsInTurn(base, b, n, h)
<1> DEFINE E(g) == g = [S \in SUBSET (1 .. n) |->
                          IF S = {} THEN base ELSE eval_inst(g[S \ {Max(S)}], func.body[b][Max(S)])]
<1>1. \A a, x : Step("inst", 0, 0, a, x) = eval_inst(a, x)
  BY DEF Step
<1>2. PICK g0 : Iter("inst", 0, 0, base, func.body[b], n, g0)
  BY IterExists
<1>3. E(g0)
  BY <1>1, <1>2 DEF Iter
<1>4. PICK g : g = CHOOSE x : E(x)
  OBVIOUS
<1>5. E(g)
  <2> HIDE DEF E
  <2>1. QED
    BY <1>3, <1>4
<1>6. FoldLeft(eval_inst, base, func.body[b]) = g[1 .. n]
  BY <1>4 DEF FoldLeft, MapThenFoldSet
<1>7. Iter("inst", 0, 0, base, func.body[b], n, g)
  BY <1>1, <1>5 DEF Iter
<1>8. PICK h : Steps("inst", 0, 0, base, func.body[b], n, h) /\ h[n] = g[1 .. n]
  BY <1>7, IterSteps
<1>9. QED
  BY <1>1, <1>6, <1>8 DEF Steps, InstsInTurn

\* The predecessors of a phi's block whose edges are feasible.
Feasible(s, phi, b) == {p \in DOMAIN func.edges[phi] : b \in s.edges[p]}

Ways(s, phi, b) == InOrder(Feasible(s, phi, b))

\* So are the operands of a phi that come over feasible edges.
LEMMA JoinFold ==
  ASSUME NEW s, NEW phi, NEW b, NEW n \in Nat, DOMAIN Ways(s, phi, b) = 1 .. n
  PROVE  \E h : /\ h[0] = s.vals[phi]
                /\ \A k \in 1 .. n : h[k] = Join(s, phi, h[k - 1], Ways(s, phi, b)[k])
                /\ Meet(s, phi, b) = h[n]
<1> DEFINE E(g) == g = [S \in SUBSET (1 .. n) |->
                          IF S = {} THEN s.vals[phi] ELSE Join(s, phi, g[S \ {Max(S)}], Ways(s, phi, b)[Max(S)])]
<1>1. \A a, x : Step("join", s, phi, a, x) = Join(s, phi, a, x)
  BY DEF Step
<1>2. PICK g0 : Iter("join", s, phi, s.vals[phi], Ways(s, phi, b), n, g0)
  BY IterExists
<1>3. E(g0)
  BY <1>1, <1>2 DEF Iter
<1>4. PICK g : g = CHOOSE x : E(x)
  OBVIOUS
<1>5. E(g)
  <2> HIDE DEF E
  <2>1. QED
    BY <1>3, <1>4, Zenon
<1>6. Meet(s, phi, b) = g[1 .. n]
  BY <1>4 DEF FoldLeft, MapThenFoldSet, Meet, Join, Ways, Feasible
<1>7. Iter("join", s, phi, s.vals[phi], Ways(s, phi, b), n, g)
  BY <1>1, <1>5, ZenonT(60) DEF Iter
<1>8. PICK h : Steps("join", s, phi, s.vals[phi], Ways(s, phi, b), n, h) /\ h[n] = g[1 .. n]
  BY <1>7, IterSteps
<1>9. QED
  BY <1>1, <1>6, <1>8 DEF Steps

\* A finite set of numbers in order: each of them, and nothing else.
LEMMA InOrderLists ==
  ASSUME NEW S \in SUBSET Nat, IsFiniteSet(S)
  PROVE  /\ Cardinality(S) \in Nat
         /\ DOMAIN InOrder(S) = 1 .. Cardinality(S)
         /\ \A k \in 1 .. Cardinality(S) : InOrder(S)[k] \in S
         /\ \A p \in S : \E k \in 1 .. Cardinality(S) : InOrder(S)[k] = p
<1>1. PICK n \in Nat : n = Cardinality(S)
  BY FS_CardinalityType
<1>2. PICK B : B = [p \in S |-> {y \in S : y < p}]
  OBVIOUS
<1>3. PICK r : r = [p \in S |-> Cardinality(B[p]) + 1]
  OBVIOUS
<1>4. ASSUME NEW p \in S
      PROVE  IsFiniteSet(B[p]) /\ Cardinality(B[p]) \in Nat /\ r[p] = Cardinality(B[p]) + 1
             /\ B[p] = {y \in S : y < p}
  <2>1. B[p] \in SUBSET S /\ B[p] = {y \in S : y < p}
    BY <1>2
  <2>2. IsFiniteSet(B[p])
    BY <2>1, FS_Subset
  <2>3. Cardinality(B[p]) \in Nat
    BY <2>2, FS_CardinalityType
  <2>4. QED
    BY <1>3, <2>1, <2>2, <2>3
<1>5. ASSUME NEW p \in S, NEW q \in S, p < q
      PROVE  r[p] < r[q]
  <2>1. IsFiniteSet(B[p] \cup {p}) /\ Cardinality(B[p] \cup {p}) = Cardinality(B[p]) + 1
    <3>1. p \notin B[p]
      BY <1>4
    <3>2. QED
      BY <1>4, <3>1, FS_AddElement
  <2>2. B[p] \cup {p} \in SUBSET B[q]
    <3>1. B[p] = {y \in S : y < p} /\ B[q] = {y \in S : y < q}
      BY <1>4
    <3>2. \A y \in S : y < p => y < q
      BY <1>5
    <3>3. p \in B[q]
      BY <1>5, <3>1
    <3>4. B[p] \in SUBSET B[q]
      BY <3>1, <3>2
    <3>5. QED
      BY <3>3, <3>4
  <2>3. Cardinality(B[p] \cup {p}) <= Cardinality(B[q])
    BY <1>4, <2>2, FS_Subset
  <2>4. QED
    BY <1>4, <2>1, <2>3
<1>6. \A p, q \in S : r[p] = r[q] => p = q
  <2> SUFFICES ASSUME NEW p \in S, NEW q \in S, r[p] = r[q], p # q PROVE FALSE
    OBVIOUS
  <2>1. p < q \/ q < p
    OBVIOUS
  <2>2. r[p] \in Nat /\ r[q] \in Nat
    BY <1>4
  <2>3. QED
    BY <1>5, <2>1, <2>2
<1>7. r \in [S -> 1 .. n]
  <2>1. ASSUME NEW p \in S PROVE r[p] \in 1 .. n
    <3>1. B[p] \cup {p} \in SUBSET S /\ p \notin B[p]
      BY <1>4
    <3>2. Cardinality(B[p] \cup {p}) = Cardinality(B[p]) + 1
      BY <1>4, <3>1, FS_AddElement
    <3>3. Cardinality(B[p] \cup {p}) <= n
      BY <1>1, <3>1, FS_Subset
    <3>4. QED
      BY <1>4, <3>2, <3>3
  <2>2. QED
    BY <1>3, <2>1
<1>8. \A k \in 1 .. n : \E p \in S : r[p] = k
  <2>1. r \in Injection(S, 1 .. n)
    BY <1>6, <1>7 DEF Injection, IsInjective
  <2>2. IsFiniteSet(1 .. n) /\ Cardinality(1 .. n) = n
    BY FS_Interval
  <2>3. r \in Surjection(S, 1 .. n)
    BY <1>1, <2>1, <2>2, FS_Injection
  <2>4. QED
    BY <2>3 DEF Surjection
<1>9. PICK o : o = InOrder(S)
  OBVIOUS
<1>10. o = [k \in 1 .. n |-> CHOOSE x \in S : Cardinality({y \in S : y < x}) = k - 1]
  BY <1>1, <1>9 DEF InOrder
<1>11. ASSUME NEW k \in 1 .. n
       PROVE  o[k] \in S /\ r[o[k]] = k
  <2>1. PICK p \in S : r[p] = k
    BY <1>8
  <2>2. Cardinality(B[p]) = k - 1
    BY <1>4, <2>1
  <2>3. Cardinality({y \in S : y < p}) = k - 1
    BY <1>4, <2>2
  <2>4. o[k] \in S /\ Cardinality({y \in S : y < o[k]}) = k - 1
    BY <1>10, <2>3
  <2>5. Cardinality(B[o[k]]) = k - 1
    BY <1>4, <2>4
  <2>6. r[o[k]] = Cardinality(B[o[k]]) + 1
    BY <1>4, <2>4
  <2>7. r[o[k]] = (k - 1) + 1 /\ (k - 1) + 1 = k
    BY <2>5, <2>6
  <2>8. QED
    BY <2>4, <2>7
<1>12. \A p \in S : \E k \in 1 .. n : o[k] = p
  BY <1>6, <1>7, <1>11
<1>13. DOMAIN o = 1 .. n
  BY <1>10
<1>14. QED
  BY <1>1, <1>9, <1>11, <1>12, <1>13

-----------------------------------------------------------------------------
(* What the solver knows of a value                                        *)

Lattice == Consts \cup {Bottom, Top}

\* The operand a phi has for a predecessor.
Operand(phi, p) == func.edges[phi][p]

LEMMA LatticeFacts ==
  /\ Bottom \in Lattice /\ Top \in Lattice /\ Bottom # Top /\ Consts \subseteq Lattice
  /\ ~Elem(Bottom) /\ ~Elem(Top)
  /\ \A x \in Lattice : Elem(x) \/ x = Bottom \/ x = Top
BY DEF Lattice, Consts, Bottom, Top, Elem, FalseVal, TrueVal

\* A phi that is not overdefined by its operands has none that is; if they are all
\* known, they are the same constant, which it may have had before.
LEMMA MeetKnows ==
  ASSUME NEW s, NEW phi, NEW b,
         Feasible(s, phi, b) \in SUBSET Nat, IsFiniteSet(Feasible(s, phi, b)),
         s.vals[phi] \in Lattice \ {Top},
         \A p \in Feasible(s, phi, b) : s.vals[Operand(phi, p)] \in Lattice,
         Meet(s, phi, b) # Top
  PROVE  /\ Meet(s, phi, b) \in Lattice
         /\ \A p \in Feasible(s, phi, b) : s.vals[Operand(phi, p)] # Top
         /\ (\A p \in Feasible(s, phi, b) : s.vals[Operand(phi, p)] # Bottom) =>
              \A p \in Feasible(s, phi, b) :
                /\ s.vals[Operand(phi, p)] = Meet(s, phi, b)
                /\ Elem(s.vals[phi]) => s.vals[phi] = Meet(s, phi, b)
<1>1. PICK P : P = Feasible(s, phi, b)
  OBVIOUS
<1>2. PICK o : o = Ways(s, phi, b)
  OBVIOUS
<1>3. PICK n \in Nat : /\ DOMAIN o = 1 .. n
                       /\ \A k \in 1 .. n : o[k] \in P
                       /\ \A p \in P : \E k \in 1 .. n : o[k] = p
  <2>1. o = InOrder(P) /\ P \in SUBSET Nat /\ IsFiniteSet(P)
    BY <1>1, <1>2 DEF Ways
  <2>2. QED
    BY <2>1, InOrderLists
<1>4. PICK h : /\ h[0] = s.vals[phi]
               /\ \A k \in 1 .. n : h[k] = Join(s, phi, h[k - 1], o[k])
               /\ Meet(s, phi, b) = h[n]
  <2>1. DOMAIN Ways(s, phi, b) = 1 .. n
    BY <1>2, <1>3
  <2>2. PICK h : /\ h[0] = s.vals[phi]
                 /\ \A k \in 1 .. n : h[k] = Join(s, phi, h[k - 1], Ways(s, phi, b)[k])
                 /\ Meet(s, phi, b) = h[n]
    BY <2>1, JoinFold
  <2>3. QED
    BY <1>2, <2>2
<1>5. PICK x : x = [p \in P |-> s.vals[Operand(phi, p)]]
  OBVIOUS
<1>6. \A k \in 1 .. n : h[k] = IF h[k - 1] = Top \/ x[o[k]] = Top
                                  \/ (Elem(x[o[k]]) /\ Elem(h[k - 1]) /\ x[o[k]] # h[k - 1])
                               THEN Top ELSE x[o[k]]
  BY <1>3, <1>4, <1>5 DEF Join, Operand
<1>7. \A k \in 0 .. n : h[k] # Top
  <2> SUFFICES ASSUME NEW j \in 0 .. n, h[j] = Top PROVE FALSE
    OBVIOUS
  <2>1. PICK T : T = {k \in Nat : j <= k /\ k <= n /\ h[k] # Top}
    OBVIOUS
  <2>2. T \in SUBSET Nat /\ n \in T
    BY <1>4, <2>1
  <2>3. PICK m \in T : \A k \in T : m <= k
    BY <2>2, LeastNat
  <2>4. m \in Nat /\ j <= m /\ m <= n /\ h[m] # Top
    BY <2>1, <2>3
  <2>5. m # j
    BY <2>4
  <2>6. m - 1 \in Nat /\ j <= m - 1 /\ m - 1 <= n /\ m \in 1 .. n /\ ~(m <= m - 1)
    BY <2>4, <2>5
  <2>7. m - 1 \notin T
    BY <2>3, <2>6
  <2>8. h[m - 1] = Top
    BY <2>1, <2>6, <2>7
  <2>9. QED
    BY <1>6, <2>4, <2>6, <2>8
<1>8. ASSUME NEW k \in 1 .. n
      PROVE  /\ h[k] = x[o[k]] /\ x[o[k]] # Top
             /\ Elem(x[o[k]]) /\ Elem(h[k - 1]) => x[o[k]] = h[k - 1]
  <2>1. k \in 0 .. n /\ h[k] # Top
    BY <1>7
  <2>2. QED
    BY <1>6, <2>1
<1>9. \A p \in P : x[p] # Top /\ x[p] = s.vals[Operand(phi, p)] /\ x[p] \in Lattice
  <2> SUFFICES ASSUME NEW p \in P
               PROVE  x[p] # Top /\ x[p] = s.vals[Operand(phi, p)] /\ x[p] \in Lattice
    OBVIOUS
  <2>1. PICK k \in 1 .. n : o[k] = p
    BY <1>3
  <2>2. x[p] # Top
    BY <1>8, <2>1
  <2>3. x[p] = s.vals[Operand(phi, p)]
    BY <1>5
  <2>4. QED
    BY <1>1, <2>2, <2>3
<1>10. Meet(s, phi, b) \in Lattice
  <2>1. CASE n = 0
    BY <1>4, <2>1
  <2>2. CASE n # 0
    <3>1. n \in 1 .. n
      BY <2>2
    <3>2. o[n] \in P /\ h[n] = x[o[n]]
      BY <1>3, <1>8, <3>1
    <3>3. QED
      BY <1>4, <1>9, <3>2
  <2>3. QED
    BY <2>1, <2>2
<1>11. ASSUME \A p \in P : x[p] # Bottom, NEW q \in P
       PROVE  x[q] = Meet(s, phi, b) /\ (Elem(h[0]) => h[0] = Meet(s, phi, b))
  <2>1. \A k \in 1 .. n : Elem(x[o[k]])
    <3> SUFFICES ASSUME NEW k \in 1 .. n PROVE Elem(x[o[k]])
      OBVIOUS
    <3>1. o[k] \in P
      BY <1>3
    <3>2. QED
      BY <1>9, <1>11, <3>1, LatticeFacts
  <2>2. PICK i \in 1 .. n : o[i] = q
    BY <1>3
  <2>3. ASSUME NEW k \in 1 .. n
        PROVE  h[k] = h[1]
    <3> SUFFICES ASSUME h[k] # h[1] PROVE FALSE
      OBVIOUS
    <3>1. PICK T : T = {m \in Nat : 1 <= m /\ m <= n /\ h[m] # h[1]}
      OBVIOUS
    <3>2. T \in SUBSET Nat /\ k \in T
      BY <3>1
    <3>3. PICK m \in T : \A l \in T : m <= l
      BY <3>2, LeastNat
    <3>4. m \in Nat /\ 1 <= m /\ m <= n /\ h[m] # h[1]
      BY <3>1, <3>3
    <3>5. m # 1
      BY <3>4
    <3>6. m - 1 \in 1 .. n /\ m \in 1 .. n /\ ~(m <= m - 1)
      BY <3>4, <3>5
    <3>7. h[m - 1] = h[1]
      BY <3>1, <3>3, <3>6
    <3>8. Elem(h[m - 1])
      BY <1>8, <2>1, <3>6
    <3>9. h[m] = h[m - 1]
      BY <1>8, <2>1, <3>6, <3>8
    <3>10. QED
      BY <3>4, <3>7, <3>9
  <2>4. n \in 1 .. n /\ 1 \in 1 .. n
    BY <2>2
  <2>5. h[n] = h[1] /\ h[i] = h[1]
    BY <2>3, <2>4
  <2>6. x[q] = h[i]
    BY <1>8, <2>2
  <2>7. Elem(h[0]) => h[0] = h[1]
    <3>1. 1 - 1 = 0
      OBVIOUS
    <3>2. QED
      BY <1>8, <2>1, <2>4, <3>1
  <2>8. QED
    BY <1>4, <2>5, <2>6, <2>7
<1>12. QED
  BY <1>1, <1>4, <1>9, <1>10, <1>11

-----------------------------------------------------------------------------
(* The solver's invariant                                                  *)

\* The function is as the front end leaves it.
Fn == Formed(func) /\ Strict(func, Available(func))

Values == AllResults(func) \cup Given

\* The indices of a block's negations.
Nots(b) == {k \in DOMAIN func.body[b] : IsBnot(func.body[b][k])}

PhiItem(phi) == Work("phi", phi)
NotItem(b, k) == Work("bnot", func.body[b][k].res)
BrItem(b)    == Work("br", b)

PhiItems(b) == {PhiItem(phi) : phi \in Phis(func, b)}
NotItems(b) == {NotItem(b, k) : k \in Nots(b)}
Items(b)    == PhiItems(b) \cup NotItems(b) \cup {BrItem(b)}
AllItems    == UNION {Items(b) : b \in Blocks(func)}

Solvers ==
  [vals : [Values -> Lattice], over : SUBSET AllItems, insts : SUBSET AllItems,
   blocks : SUBSET Blocks(func), turn : {"over", "insts", "blocks"},
   edges : [DOMAIN func.term -> SUBSET Blocks(func)], exec : SUBSET Blocks(func)]

Typed(s) ==
  /\ s \in Solvers /\ s.blocks \subseteq s.exec /\ entry_block(func) \in s.exec
  /\ \A p \in Blocks(func) : s.edges[p] \subseteq ToSet(func.term[p].dst) \cap s.exec
  /\ \A c \in Consts : s.vals[c] = c
  /\ \A p \in Params : s.vals[p] = Top

\* What is known of a negation follows from what is known of its argument.
Negated(s) ==
  \A b \in Blocks(func) : \A k \in Nots(b) :
    LET x == s.vals[func.body[b][k].arg]  y == s.vals[func.body[b][k].res]
    IN  y = Bottom \/ x = Top \/ (Elem(x) /\ y = Bnot(x))

\* An instruction would not change anything, if it were evaluated now.
PhiSettled(s, phi, b) ==
  \/ s.vals[phi] = Top
  \/ /\ \A p \in Feasible(s, phi, b) : s.vals[Operand(phi, p)] # Top
     /\ (\A p \in Feasible(s, phi, b) : s.vals[Operand(phi, p)] # Bottom) =>
          \A p \in Feasible(s, phi, b) : s.vals[Operand(phi, p)] = s.vals[phi]

NotSettled(s, i) ==
  LET x == s.vals[i.arg]
  IN  \/ x = Bottom
      \/ x = Top /\ s.vals[i.res] = Top
      \/ Elem(x) /\ s.vals[i.res] = Bnot(x)

Chosen(s, b, d) ==
  IsBranch(func, b) /\ Elem(s.vals[func.term[b].cond]) =>
    d = func.term[b].dst[IF s.vals[func.term[b].cond] = TrueVal THEN 1 ELSE 2]

BrSettled(s, b) == \A d \in ToSet(func.term[b].dst) : Chosen(s, b, d) => d \in s.edges[b]

\* In a block that has been evaluated every instruction is settled, or in a list, or
\* among those that are about to be evaluated.
Queued(s, X) == s.over \cup s.insts \cup X

Good(s, X) ==
  \A b \in s.exec \ s.blocks :
    /\ \A phi \in Phis(func, b) : PhiSettled(s, phi, b) \/ PhiItem(phi) \in Queued(s, X)
    /\ \A k \in Nots(b) : NotSettled(s, func.body[b][k]) \/ NotItem(b, k) \in Queued(s, X)
    /\ BrSettled(s, b) \/ BrItem(b) \in Queued(s, X)

Sound(s, X) == Typed(s) /\ Negated(s) /\ Good(s, X)

\* Evaluating adds to what is known, and puts who reads a changed value in a list.
Grows(s, t) ==
  /\ s.over \subseteq t.over /\ s.insts \subseteq t.insts
  /\ s.exec \subseteq t.exec /\ s.blocks \subseteq t.blocks /\ t.exec \ s.exec \subseteq t.blocks
  /\ \A p \in Blocks(func) : s.edges[p] \subseteq t.edges[p]
  /\ \A v \in Values : \/ t.vals[v] = s.vals[v]
                       \/ /\ s.vals[v] = Bottom \/ t.vals[v] = Top
                          /\ Users(func, v) \subseteq t.over \cup t.insts

\* Only values may have changed, and the lists of work.
SamePlaces(s, t) == t.edges = s.edges /\ t.exec = s.exec /\ t.blocks = s.blocks /\ t.turn = s.turn

LEMMA GrowsFurther ==
  ASSUME NEW s, NEW t, NEW u, Grows(s, t), Grows(t, u)
  PROVE  Grows(s, u)
<1>1. \A v \in Values : \/ u.vals[v] = s.vals[v]
                        \/ /\ s.vals[v] = Bottom \/ u.vals[v] = Top
                           /\ Users(func, v) \subseteq u.over \cup u.insts
  <2> SUFFICES ASSUME NEW v \in Values, u.vals[v] # s.vals[v]
               PROVE  /\ s.vals[v] = Bottom \/ u.vals[v] = Top
                      /\ Users(func, v) \subseteq u.over \cup u.insts
    OBVIOUS
  <2>1. \/ t.vals[v] = s.vals[v]
        \/ (s.vals[v] = Bottom \/ t.vals[v] = Top) /\ Users(func, v) \subseteq t.over \cup t.insts
    BY DEF Grows
  <2>2. \/ u.vals[v] = t.vals[v]
        \/ (t.vals[v] = Bottom \/ u.vals[v] = Top) /\ Users(func, v) \subseteq u.over \cup u.insts
    BY DEF Grows
  <2>3. t.over \subseteq u.over /\ t.insts \subseteq u.insts
    BY DEF Grows
  <2>4. QED
    BY <2>1, <2>2, <2>3, LatticeFacts
<1>2. /\ s.over \subseteq u.over /\ s.insts \subseteq u.insts
      /\ s.exec \subseteq u.exec /\ s.blocks \subseteq u.blocks /\ u.exec \ s.exec \subseteq u.blocks
  BY DEF Grows
<1>3. \A p \in Blocks(func) : s.edges[p] \subseteq u.edges[p]
  BY DEF Grows
<1>4. QED
  BY <1>1, <1>2, <1>3 DEF Grows

LEMMA GrowsSelf ==
  ASSUME NEW s PROVE Grows(s, s)
BY DEF Grows

\* The function's parts are blocks, values and items.
LEMMA FnFacts ==
  ASSUME Fn
  PROVE  /\ IsFiniteSet(Blocks(func)) /\ Blocks(func) \in SUBSET Nat
         /\ None \notin Blocks(func) /\ entry_block(func) \in Blocks(func)
         /\ Blocks(func) \subseteq DOMAIN func.term
         /\ \A b \in Blocks(func) :
              /\ \E n \in Nat : DOMAIN func.phis[b] = 1 .. n
              /\ \E n \in Nat : DOMAIN func.body[b] = 1 .. n
              /\ \A k \in DOMAIN func.body[b] :
                   func.body[b][k].op \in {"bnot", "call"} /\ func.body[b][k].arg \in Values
              /\ \A k \in Nots(b) : func.body[b][k].res \in AllResults(func)
              /\ \A phi \in Phis(func, b) :
                   phi \in AllResults(func) /\ DOMAIN func.edges[phi] \subseteq Blocks(func)
              /\ IsBranch(func, b) => func.term[b].cond \in Values
              /\ ToSet(func.term[b].dst) \subseteq Blocks(func)
<1>1. func.layout \in Seq(Nat \ {None}) /\ func.layout # <<>>
  BY DEF Fn, Formed
<1>2. PICK n \in Nat : n = Len(func.layout) /\ DOMAIN func.layout = 1 .. n /\ n # 0
  BY <1>1
<1>3. \A k \in 1 .. n : func.layout[k] \in Nat \ {None}
  BY <1>1, <1>2
<1>4. Blocks(func) = {func.layout[k] : k \in 1 .. n}
  BY <1>2 DEF Blocks, ToSet
<1>5. IsFiniteSet(Blocks(func))
  <2>1. IsFiniteSet(1 .. n)
    BY FS_Interval
  <2>2. PICK f : f = [k \in 1 .. n |-> func.layout[k]]
    OBVIOUS
  <2>3. f \in Surjection(1 .. n, Blocks(func))
    BY <1>4, <2>2 DEF Surjection
  <2>4. QED
    BY <2>1, <2>3, FS_Surjection
<1>6. Blocks(func) \in SUBSET Nat /\ None \notin Blocks(func)
  BY <1>3, <1>4
<1>7. entry_block(func) \in Blocks(func)
  BY <1>2, <1>4 DEF entry_block
<1>8. Blocks(func) \subseteq DOMAIN func.term
  BY DEF Fn, Formed
<1>9. ASSUME NEW b \in Blocks(func)
      PROVE  /\ \E m \in Nat : DOMAIN func.phis[b] = 1 .. m
             /\ \E m \in Nat : DOMAIN func.body[b] = 1 .. m
             /\ \A k \in DOMAIN func.body[b] :
                  func.body[b][k].op \in {"bnot", "call"} /\ func.body[b][k].arg \in Values
             /\ \A k \in Nots(b) : func.body[b][k].res \in AllResults(func)
             /\ \A phi \in Phis(func, b) :
                  phi \in AllResults(func) /\ DOMAIN func.edges[phi] \subseteq Blocks(func)
             /\ IsBranch(func, b) => func.term[b].cond \in Values
             /\ ToSet(func.term[b].dst) \subseteq Blocks(func)
  <2>1. /\ func.phis[b] \in Seq(Int) /\ func.term[b].dst \in Seq(Blocks(func))
        /\ func.body[b] \in Seq([op : {"bnot", "call"}, arg : Int, res : Int])
    BY DEF Fn, Formed
  <2>2. /\ \E m \in Nat : DOMAIN func.phis[b] = 1 .. m
        /\ \E m \in Nat : DOMAIN func.body[b] = 1 .. m
    <3>1. Len(func.phis[b]) \in Nat /\ DOMAIN func.phis[b] = 1 .. Len(func.phis[b])
      BY <2>1
    <3>2. Len(func.body[b]) \in Nat /\ DOMAIN func.body[b] = 1 .. Len(func.body[b])
      <4>1. func.body[b] \in Seq([op : {"bnot", "call"}, arg : Int, res : Int])
        BY <2>1
      <4>2. PICK q, R : q = func.body[b] /\ R = [op : {"bnot", "call"}, arg : Int, res : Int]
        OBVIOUS
      <4>3. q \in Seq(R)
        BY <4>1, <4>2
      <4>4. Len(q) \in Nat /\ DOMAIN q = 1 .. Len(q)
        BY <4>3
      <4>5. QED
        BY <4>2, <4>4
    <3>3. QED
      BY <3>1, <3>2
  <2>3. ToSet(func.term[b].dst) \subseteq Blocks(func)
    BY <2>1 DEF ToSet
  <2>4. \A k \in DOMAIN func.body[b] : func.body[b][k].op \in {"bnot", "call"}
    <3>1. PICK R : R = [op : {"bnot", "call"}, arg : Int, res : Int]
      OBVIOUS
    <3>2. func.body[b] \in Seq(R)
      BY <2>1, <3>1
    <3>3. \A k \in DOMAIN func.body[b] : func.body[b][k] \in R
      BY <3>2
    <3>4. \A i \in R : i.op \in {"bnot", "call"}
      BY <3>1
    <3>5. QED
      BY <3>3, <3>4
  <2>5. Results(func, b) \subseteq AllResults(func)
    BY DEF AllResults
  <2>6. \A k \in Nots(b) : func.body[b][k].res \in Results(func, b)
    BY DEF Nots, IsBnot, Results
  <2>7. Phis(func, b) \subseteq Results(func, b)
    BY DEF Results
  <2>8. /\ \A phi \in Phis(func, b) : DOMAIN func.edges[phi] \subseteq Blocks(func)
        /\ IsBranch(func, b) => func.term[b].cond \in Available(func)[b] \cup Results(func, b)
        /\ Available(func)[b] \subseteq AllResults(func) \cup Given
        /\ \A k \in DOMAIN func.body[b] :
             func.body[b][k].arg \in Available(func)[b] \cup Phis(func, b)
               \cup {func.body[b][j].res : j \in {j \in 1 .. k - 1 : IsBnot(func.body[b][j])}}
    BY DEF Fn, Strict
  <2>9. ASSUME NEW k \in DOMAIN func.body[b]
        PROVE  func.body[b][k].arg \in Values
    <3>1. {func.body[b][j].res : j \in {j \in 1 .. k - 1 : IsBnot(func.body[b][j])}} \subseteq Results(func, b)
      <4>1. \A j \in 1 .. k - 1 : j \in DOMAIN func.body[b]
        BY <2>2
      <4>2. QED
        BY <4>1 DEF Results, IsBnot
    <3>2. QED
      BY <2>5, <2>7, <2>8, <3>1 DEF Values
  <2>10. QED
    BY <2>2, <2>3, <2>4, <2>5, <2>6, <2>7, <2>8, <2>9 DEF Values
<1>10. QED
  BY <1>5, <1>6, <1>7, <1>8, <1>9

\* An instruction is in the lists once, and belongs to one block.
Owned ==
  /\ \A b, c \in Blocks(func) : \A phi \in Phis(func, b) : phi \in Phis(func, c) => b = c
  /\ \A b, c \in Blocks(func) : \A j \in Nots(b) : \A k \in Nots(c) :
       func.body[b][j].res = func.body[c][k].res => b = c /\ j = k
  /\ \A b, c \in Blocks(func) : \A phi \in Phis(func, b) : \A k \in Nots(c) :
       phi # func.body[c][k].res

LEMMA ItemOwner ==
  ASSUME Fn
  PROVE  Owned
<1>1. /\ \A b, c \in Blocks(func) : Results(func, b) \cap Results(func, c) # {} => b = c
      /\ \A b \in Blocks(func) :
           /\ \A j, k \in DOMAIN func.body[b] :
                IsBnot(func.body[b][j]) /\ IsBnot(func.body[b][k])
                  /\ func.body[b][j].res = func.body[b][k].res => j = k
           /\ \A k \in DOMAIN func.body[b] :
                IsBnot(func.body[b][k]) => func.body[b][k].res \notin Phis(func, b)
  BY DEF Fn, Formed
<1>2. \A b \in Blocks(func) : Phis(func, b) \subseteq Results(func, b)
  BY DEF Results
<1>3. \A b \in Blocks(func) : \A k \in Nots(b) :
        /\ k \in DOMAIN func.body[b] /\ IsBnot(func.body[b][k])
        /\ func.body[b][k].res \in Results(func, b)
  BY DEF Nots, IsBnot, Results
<1>4. \A b, c \in Blocks(func) : \A phi \in Phis(func, b) : phi \in Phis(func, c) => b = c
  <2>1. \A b, c \in Blocks(func) : \A phi \in Phis(func, b) : phi \in Phis(func, c) =>
          phi \in Results(func, b) \cap Results(func, c)
    BY <1>2
  <2>2. QED
    BY <1>1, <2>1
<1>5. ASSUME NEW b \in Blocks(func), NEW c \in Blocks(func), NEW j \in Nots(b), NEW k \in Nots(c),
             func.body[b][j].res = func.body[c][k].res
      PROVE  b = c /\ j = k
  <2>1. func.body[b][j].res \in Results(func, b) \cap Results(func, c)
    BY <1>3, <1>5
  <2>2. b = c
    BY <1>1, <2>1
  <2>3. QED
    BY <1>1, <1>3, <1>5, <2>2
<1>6. ASSUME NEW b \in Blocks(func), NEW c \in Blocks(func), NEW phi \in Phis(func, b), NEW k \in Nots(c),
             phi = func.body[c][k].res
      PROVE  FALSE
  <2>1. phi \in Results(func, b) \cap Results(func, c)
    BY <1>2, <1>3, <1>6
  <2>2. b = c
    BY <1>1, <2>1
  <2>3. QED
    BY <1>1, <1>3, <1>6, <2>2
<1>7. QED
  BY <1>4, <1>5, <1>6 DEF Owned

\* Items are equal where what they stand for is.
LEMMA ItemsDiffer ==
  /\ \A phi, psi : PhiItem(phi) = PhiItem(psi) => phi = psi
  /\ \A b, j, c, k : NotItem(b, j) = NotItem(c, k) => func.body[b][j].res = func.body[c][k].res
  /\ \A b, c : BrItem(b) = BrItem(c) => b = c
  /\ \A phi, b, k : PhiItem(phi) # NotItem(b, k)
  /\ \A phi, b : PhiItem(phi) # BrItem(b)
  /\ \A b, k, c : NotItem(b, k) # BrItem(c)
<1>1. \A x, y, p, q : Work(x, p) = Work(y, q) => x = y /\ p = q
  BY DEF Work
<1>2. "phi" # "bnot" /\ "phi" # "br" /\ "bnot" # "br"
  OBVIOUS
<1>3. QED
  BY <1>1, <1>2 DEF PhiItem, NotItem, BrItem

\* Who reads a value is among its users.
Reading ==
  /\ \A b \in Blocks(func) :
       /\ \A phi \in Phis(func, b) : \A p \in DOMAIN func.edges[phi] :
            PhiItem(phi) \in Users(func, Operand(phi, p))
       /\ \A k \in Nots(b) : NotItem(b, k) \in Users(func, func.body[b][k].arg)
       /\ IsBranch(func, b) => BrItem(b) \in Users(func, func.term[b].cond)
  /\ \A v : Users(func, v) \subseteq AllItems

LEMMA UsersRead ==
  ASSUME Fn
  PROVE  Reading
<1>1. \A v, w : w \in Users(func, v) <=>
        \/ \E phi \in UsingPhis(func, v) : w = PhiItem(phi)
        \/ \E b \in Blocks(func) : \E k \in UsingInsts(func, b, v) :
             func.body[b][k].op = "bnot" /\ w = NotItem(b, k)
        \/ \E b \in Blocks(func) : func.term[b].use = v /\ w = BrItem(b)
  <2> SUFFICES ASSUME NEW v, NEW w
               PROVE  w \in Users(func, v) <=>
                        \/ \E phi \in UsingPhis(func, v) : w = PhiItem(phi)
                        \/ \E b \in Blocks(func) : \E k \in UsingInsts(func, b, v) :
                             func.body[b][k].op = "bnot" /\ w = NotItem(b, k)
                        \/ \E b \in Blocks(func) : func.term[b].use = v /\ w = BrItem(b)
    OBVIOUS
  <2>1. PICK N : N = UNION {{Work("bnot", func.body[b][k].res) :
                               k \in {k \in UsingInsts(func, b, v) : func.body[b][k].op = "bnot"}}
                              : b \in Blocks(func)}
    OBVIOUS
  <2>2. w \in N <=> \E b \in Blocks(func) :
          w \in {Work("bnot", func.body[b][k].res) :
                   k \in {k \in UsingInsts(func, b, v) : func.body[b][k].op = "bnot"}}
    BY <2>1
  <2>3. w \in N <=> \E b \in Blocks(func) : \E k \in UsingInsts(func, b, v) :
          func.body[b][k].op = "bnot" /\ w = NotItem(b, k)
    BY <2>2 DEF NotItem
  <2>4. w \in {Work("phi", phi) : phi \in UsingPhis(func, v)} <=>
          \E phi \in UsingPhis(func, v) : w = PhiItem(phi)
    BY DEF PhiItem
  <2>5. w \in {Work("br", b) : b \in {b \in Blocks(func) : func.term[b].use = v}} <=>
          \E b \in Blocks(func) : func.term[b].use = v /\ w = BrItem(b)
    BY DEF BrItem
  <2>6. w \in Users(func, v) <=>
          \/ w \in {Work("phi", phi) : phi \in UsingPhis(func, v)}
          \/ w \in UNION {{Work("bnot", func.body[b][k].res) :
                             k \in {k \in UsingInsts(func, b, v) : func.body[b][k].op = "bnot"}}
                            : b \in Blocks(func)}
          \/ w \in {Work("br", b) : b \in {b \in Blocks(func) : func.term[b].use = v}}
    BY Zenon DEF Users
  <2>7. QED
    BY <2>1, <2>3, <2>4, <2>5, <2>6
<1>2. ASSUME NEW b \in Blocks(func), NEW phi \in Phis(func, b), NEW p \in DOMAIN func.edges[phi]
      PROVE  PhiItem(phi) \in Users(func, Operand(phi, p))
  <2>1. phi \in AllPhis(func)
    BY DEF AllPhis
  <2>2. phi \in UsingPhis(func, Operand(phi, p))
    BY <2>1 DEF UsingPhis, Operand
  <2>3. QED
    BY <1>1, <2>2
<1>3. ASSUME NEW b \in Blocks(func), NEW k \in Nots(b)
      PROVE  NotItem(b, k) \in Users(func, func.body[b][k].arg)
  <2>1. k \in UsingInsts(func, b, func.body[b][k].arg) /\ func.body[b][k].op = "bnot"
    BY DEF UsingInsts, Nots, IsBnot
  <2>2. QED
    BY <1>1, <2>1
<1>4. ASSUME NEW b \in Blocks(func), IsBranch(func, b)
      PROVE  BrItem(b) \in Users(func, func.term[b].cond)
  <2>1. func.term[b].use = func.term[b].cond
    BY <1>4 DEF Fn, Strict
  <2>2. QED
    BY <1>1, <2>1
<1>5. ASSUME NEW v
      PROVE  Users(func, v) \subseteq AllItems
  <2>1. {PhiItem(phi) : phi \in UsingPhis(func, v)} \subseteq AllItems
    <3>1. UsingPhis(func, v) \subseteq AllPhis(func)
      BY DEF UsingPhis
    <3>2. QED
      BY <3>1 DEF AllPhis, AllItems, Items, PhiItems
  <2>2. \A b \in Blocks(func) : \A k \in UsingInsts(func, b, v) :
          func.body[b][k].op = "bnot" => NotItem(b, k) \in AllItems
    BY DEF UsingInsts, Nots, IsBnot, AllItems, Items, NotItems
  <2>3. \A b \in Blocks(func) : BrItem(b) \in AllItems
    BY DEF AllItems, Items
  <2>4. QED
    BY <1>1, <2>1, <2>2, <2>3
<1>6. QED
  BY <1>2, <1>3, <1>4, <1>5 DEF Reading

\* What a phi takes over a feasible edge is a value.
LEMMA OperandTyped ==
  ASSUME Fn, NEW s, Typed(s), NEW b \in Blocks(func), NEW phi \in Phis(func, b),
         NEW p \in Feasible(s, phi, b)
  PROVE  p \in Blocks(func) /\ b \in ToSet(func.term[p].dst) /\ Operand(phi, p) \in Values
<1>1. p \in DOMAIN func.edges[phi] /\ b \in s.edges[p]
  BY DEF Feasible
<1>2. p \in Blocks(func)
  BY <1>1, FnFacts
<1>3. b \in ToSet(func.term[p].dst)
  BY <1>1, <1>2 DEF Typed
<1>4. func.edges[phi][p] \in Available(func)[p] \cup Results(func, p)
  BY <1>2, <1>3 DEF Fn, Strict
<1>5. Available(func)[p] \subseteq AllResults(func) \cup Given
  BY <1>2 DEF Fn, Strict
<1>6. Results(func, p) \subseteq AllResults(func)
  BY <1>2 DEF AllResults
<1>7. QED
  BY <1>2, <1>3, <1>4, <1>5, <1>6 DEF Operand, Values

\* What changed is in a list, or still to be evaluated.
Noted(s, t, X, Y) ==
  /\ X \subseteq Queued(t, Y)
  /\ t.exec \ t.blocks \subseteq s.exec \ s.blocks
  /\ \A b \in Blocks(func) \cap (t.exec \ t.blocks) :
       /\ \A phi \in Phis(func, b) :
            t.vals[phi] # s.vals[phi] \/ Feasible(t, phi, b) # Feasible(s, phi, b) =>
              PhiItem(phi) \in Queued(t, Y)
       /\ \A k \in Nots(b) :
            t.vals[func.body[b][k].res] # s.vals[func.body[b][k].res] => NotItem(b, k) \in Queued(t, Y)

LEMMA KeepsGood ==
  ASSUME Fn, NEW s, NEW t, NEW X, NEW Y, Typed(s), Grows(s, t), Good(s, X), Noted(s, t, X, Y)
  PROVE  Good(t, Y)
<1> SUFFICES ASSUME NEW b \in t.exec \ t.blocks
             PROVE  /\ \A phi \in Phis(func, b) : PhiSettled(t, phi, b) \/ PhiItem(phi) \in Queued(t, Y)
                    /\ \A k \in Nots(b) : NotSettled(t, func.body[b][k]) \/ NotItem(b, k) \in Queued(t, Y)
                    /\ BrSettled(t, b) \/ BrItem(b) \in Queued(t, Y)
  BY DEF Good
<1>1. b \in s.exec \ s.blocks /\ b \in Blocks(func)
  BY DEF Noted, Typed, Solvers
<1>2. /\ \A phi \in Phis(func, b) : PhiSettled(s, phi, b) \/ PhiItem(phi) \in Queued(s, X)
      /\ \A k \in Nots(b) : NotSettled(s, func.body[b][k]) \/ NotItem(b, k) \in Queued(s, X)
      /\ BrSettled(s, b) \/ BrItem(b) \in Queued(s, X)
  BY <1>1 DEF Good
<1>3. Queued(s, X) \subseteq Queued(t, Y)
  BY DEF Noted, Queued, Grows
<1>4. \A v \in Values : t.vals[v] = s.vals[v] \/ Users(func, v) \subseteq Queued(t, Y)
  BY DEF Grows, Queued
<1>5. Reading
  BY UsersRead
<1>6. ASSUME NEW phi \in Phis(func, b), PhiItem(phi) \notin Queued(t, Y)
      PROVE  PhiSettled(t, phi, b)
  <2>1. t.vals[phi] = s.vals[phi] /\ Feasible(t, phi, b) = Feasible(s, phi, b)
    BY <1>1, <1>6 DEF Noted
  <2>2. PhiSettled(s, phi, b)
    BY <1>2, <1>3, <1>6
  <2>3. ASSUME NEW p \in Feasible(s, phi, b)
        PROVE  t.vals[Operand(phi, p)] = s.vals[Operand(phi, p)]
    <3>1. p \in DOMAIN func.edges[phi]
      BY DEF Feasible
    <3>2. PhiItem(phi) \in Users(func, Operand(phi, p))
      BY <1>1, <1>5, <3>1 DEF Reading
    <3>3. Operand(phi, p) \in Values
      BY <1>1, OperandTyped
    <3>4. QED
      BY <1>4, <1>6, <3>2, <3>3
  <2>4. QED
    BY <2>1, <2>2, <2>3 DEF PhiSettled
<1>7. ASSUME NEW k \in Nots(b), NotItem(b, k) \notin Queued(t, Y)
      PROVE  NotSettled(t, func.body[b][k])
  <2>1. t.vals[func.body[b][k].res] = s.vals[func.body[b][k].res]
    BY <1>1, <1>7 DEF Noted
  <2>2. NotSettled(s, func.body[b][k])
    BY <1>2, <1>3, <1>7
  <2>3. func.body[b][k].arg \in Values
    BY <1>1, FnFacts DEF Nots
  <2>4. t.vals[func.body[b][k].arg] = s.vals[func.body[b][k].arg]
    BY <1>1, <1>4, <1>5, <1>7, <2>3 DEF Reading
  <2>5. QED
    BY <2>1, <2>2, <2>4 DEF NotSettled
<1>8. ASSUME BrItem(b) \notin Queued(t, Y)
      PROVE  BrSettled(t, b)
  <2>1. BrSettled(s, b)
    BY <1>2, <1>3, <1>8
  <2>2. s.edges[b] \subseteq t.edges[b]
    BY <1>1 DEF Grows
  <2>3. CASE IsBranch(func, b)
    <3>1. func.term[b].cond \in Values
      BY <1>1, <2>3, FnFacts
    <3>2. t.vals[func.term[b].cond] = s.vals[func.term[b].cond]
      BY <1>1, <1>4, <1>5, <1>8, <2>3, <3>1 DEF Reading
    <3>3. QED
      BY <2>1, <2>2, <3>2 DEF BrSettled, Chosen
  <2>4. CASE ~IsBranch(func, b)
    BY <2>1, <2>2, <2>4 DEF BrSettled, Chosen
  <2>5. QED
    BY <2>3, <2>4
<1>9. QED
  BY <1>6, <1>7, <1>8

-----------------------------------------------------------------------------
(* Marking a value                                                         *)

\* Nothing but v has another value than before.
Marked(s, t, v, x) ==
  /\ Typed(t) /\ Grows(s, t) /\ SamePlaces(s, t) /\ t.vals[v] = x
  /\ \A w \in Values : w # v => t.vals[w] = s.vals[w]
  /\ t.vals[v] # s.vals[v] => Users(func, v) \subseteq t.over \cup t.insts

LEMMA MarkTop ==
  ASSUME Fn, NEW s, Typed(s), NEW v \in AllResults(func)
  PROVE  Marked(s, mark_overdefinied(s, v), v, Top)
<1>1. CASE s.vals[v] = Top
  BY <1>1, GrowsSelf DEF Marked, mark_overdefinied, SamePlaces
<1>2. CASE s.vals[v] # Top
  <2>1. PICK t : t = [s EXCEPT !.vals[v] = Top, !.over = @ \cup Users(func, v)]
    OBVIOUS
  <2>2. s \in Solvers /\ v \in Values /\ Top \in Lattice
    BY LatticeFacts DEF Typed, Values
  <2>3. Users(func, v) \in SUBSET AllItems
    BY UsersRead DEF Reading
  <2>4. s.vals \in [Values -> Lattice] /\ s.over \in SUBSET AllItems
    BY <2>2 DEF Solvers
  <2>5. /\ t.vals = [s.vals EXCEPT ![v] = Top] /\ t.over = s.over \cup Users(func, v)
        /\ t.insts = s.insts /\ SamePlaces(s, t)
    BY <2>1, <2>2 DEF Solvers, SamePlaces
  <2>6. t \in Solvers
    <3>1. t.vals \in [Values -> Lattice]
      BY <2>2, <2>4, <2>5
    <3>2. t.over \in SUBSET AllItems
      BY <2>3, <2>4, <2>5
    <3>3. t = [s EXCEPT !.vals = t.vals, !.over = t.over]
      BY <2>1, <2>2, <2>5 DEF Solvers
    <3>4. QED
      BY <2>2, <3>1, <3>2, <3>3 DEF Solvers
  <2>7. t.vals[v] = Top /\ \A w \in Values : w # v => t.vals[w] = s.vals[w]
    BY <2>2, <2>4, <2>5
  <2>8. v \notin Consts /\ v \notin Params
    BY DEF Fn, Formed, Given
  <2>9. Typed(t)
    <3>1. Consts \subseteq Values /\ Params \subseteq Values
      BY DEF Values, Given
    <3>2. QED
      BY <2>5, <2>6, <2>7, <2>8, <3>1 DEF Typed, SamePlaces
  <2>10. Grows(s, t)
    BY <2>5, <2>7 DEF Grows, SamePlaces
  <2>11. mark_overdefinied(s, v) = t
    BY <1>2, <2>1 DEF mark_overdefinied
  <2>12. QED
    BY <2>5, <2>7, <2>9, <2>10, <2>11 DEF Marked
<1>3. QED
  BY <1>1, <1>2

LEMMA MarkConst ==
  ASSUME Fn, NEW s, Typed(s), NEW v \in AllResults(func), s.vals[v] # Top, NEW c \in Consts
  PROVE  Marked(s, mark_const(s, v, c), v, IF Elem(s.vals[v]) THEN s.vals[v] ELSE c)
<1>1. CASE Elem(s.vals[v])
  BY <1>1, GrowsSelf DEF Marked, mark_const, SamePlaces
<1>2. CASE ~Elem(s.vals[v])
  <2>1. PICK t : t = [s EXCEPT !.vals[v] = c, !.insts = @ \cup Users(func, v)]
    OBVIOUS
  <2>2. s \in Solvers /\ v \in Values /\ c \in Lattice
    BY LatticeFacts DEF Typed, Values
  <2>3. Users(func, v) \in SUBSET AllItems
    BY UsersRead DEF Reading
  <2>4. s.vals \in [Values -> Lattice] /\ s.insts \in SUBSET AllItems
    BY <2>2 DEF Solvers
  <2>5. /\ t.vals = [s.vals EXCEPT ![v] = c] /\ t.insts = s.insts \cup Users(func, v)
        /\ t.over = s.over /\ SamePlaces(s, t)
    BY <2>1, <2>2 DEF Solvers, SamePlaces
  <2>6. t \in Solvers
    <3>1. t.vals \in [Values -> Lattice]
      BY <2>2, <2>4, <2>5
    <3>2. t.insts \in SUBSET AllItems
      BY <2>3, <2>4, <2>5
    <3>3. t = [s EXCEPT !.vals = t.vals, !.insts = t.insts]
      BY <2>1, <2>2, <2>5 DEF Solvers
    <3>4. QED
      BY <2>2, <3>1, <3>2, <3>3 DEF Solvers
  <2>7. t.vals[v] = c /\ \A w \in Values : w # v => t.vals[w] = s.vals[w]
    BY <2>2, <2>4, <2>5
  <2>8. v \notin Consts /\ v \notin Params
    BY DEF Fn, Formed, Given
  <2>9. Typed(t)
    <3>1. Consts \subseteq Values /\ Params \subseteq Values
      BY DEF Values, Given
    <3>2. QED
      BY <2>5, <2>6, <2>7, <2>8, <3>1 DEF Typed, SamePlaces
  <2>10. Grows(s, t)
    <3>1. s.vals[v] = Bottom
      BY <1>2, <2>2, <2>4, LatticeFacts
    <3>2. QED
      BY <2>5, <2>7, <3>1 DEF Grows, SamePlaces
  <2>11. mark_const(s, v, c) = t
    BY <1>2, <2>1 DEF mark_const
  <2>12. QED
    BY <1>2, <2>5, <2>7, <2>9, <2>10, <2>11 DEF Marked
<1>3. QED
  BY <1>1, <1>2

\* Marking a phi, or the result of a negation as its argument has it, keeps what is
\* known of negations.
LEMMA NegatedKept ==
  ASSUME Fn, NEW s, NEW t, NEW v, NEW x, Typed(s), Negated(s), Marked(s, t, v, x),
         \A b \in Blocks(func) : \A k \in Nots(b) :
           v = func.body[b][k].res =>
             \/ t.vals[v] = s.vals[v]
             \/ t.vals[func.body[b][k].arg] = Top
             \/ Elem(t.vals[func.body[b][k].arg]) /\ t.vals[v] = Bnot(t.vals[func.body[b][k].arg])
  PROVE  Negated(t)
<1> SUFFICES ASSUME NEW b \in Blocks(func), NEW k \in Nots(b)
             PROVE  LET x1 == t.vals[func.body[b][k].arg]  y1 == t.vals[func.body[b][k].res]
                    IN  y1 = Bottom \/ x1 = Top \/ (Elem(x1) /\ y1 = Bnot(x1))
  BY DEF Negated
<1>1. PICK a, r : a = func.body[b][k].arg /\ r = func.body[b][k].res
  OBVIOUS
<1>2. a \in Values /\ r \in Values
  BY <1>1, FnFacts DEF Nots, Values
<1>3. s.vals[r] = Bottom \/ s.vals[a] = Top \/ (Elem(s.vals[a]) /\ s.vals[r] = Bnot(s.vals[a]))
  BY <1>1 DEF Negated
<1>4. t.vals[a] = s.vals[a] \/ s.vals[a] = Bottom \/ t.vals[a] = Top
  BY <1>2, SMTT(40) DEF Marked, Grows
<1>5. CASE t.vals[r] = s.vals[r]
  BY <1>1, <1>3, <1>4, <1>5, LatticeFacts
<1>6. CASE t.vals[r] # s.vals[r]
  <2>1. r = v
    BY <1>2, <1>6 DEF Marked
  <2>2. QED
    BY <1>1, <1>6, <2>1
<1>7. QED
  BY <1>1, <1>5, <1>6

-----------------------------------------------------------------------------
(* Evaluating an instruction                                               *)

\* What evaluating some instructions does: they need not be evaluated again.
Evaluated(s, t, X) == Sound(t, X) /\ Grows(s, t) /\ SamePlaces(s, t)

LEMMA EvalPhi ==
  ASSUME Fn, NEW s, NEW X, Sound(s, X), NEW b \in Blocks(func), NEW phi \in Phis(func, b)
  PROVE  Evaluated(s, eval_phi(s, phi, b), X \ {PhiItem(phi)})
<1>1. PICK t, l : t = eval_phi(s, phi, b) /\ l = Meet(s, phi, b)
  OBVIOUS
<1>2. phi \in AllResults(func) /\ phi \in Values /\ s.vals \in [Values -> Lattice] /\ Typed(s)
  BY FnFacts DEF Values, Sound, Typed, Solvers
<1>3. s.vals[phi] \in Lattice
  BY <1>2
<1>4. \A p \in Feasible(s, phi, b) : Operand(phi, p) \in Values /\ s.vals[Operand(phi, p)] \in Lattice
  BY <1>2, OperandTyped
<1>5. Feasible(s, phi, b) \in SUBSET Nat /\ IsFiniteSet(Feasible(s, phi, b))
  <2>1. Feasible(s, phi, b) \subseteq Blocks(func)
    BY <1>2, OperandTyped
  <2>2. QED
    BY <2>1, FnFacts, FS_Subset
<1>6. PICK x : Marked(s, t, phi, x)
  <2>1. CASE s.vals[phi] = Top
    <3>1. t = s
      BY <1>1, <2>1 DEF eval_phi
    <3>2. QED
      BY <1>2, <3>1, GrowsSelf DEF Marked, SamePlaces
  <2>2. CASE s.vals[phi] # Top /\ l = Top
    <3>1. t = mark_overdefinied(s, phi)
      BY <1>1, <2>2 DEF eval_phi
    <3>2. QED
      BY <1>2, <3>1, MarkTop
  <2>3. CASE s.vals[phi] # Top /\ l # Top /\ Elem(l)
    <3>1. t = mark_const(s, phi, l) /\ l \in Consts
      BY <1>1, <2>3 DEF eval_phi, Elem
    <3>2. QED
      BY <1>2, <2>3, <3>1, MarkConst
  <2>4. CASE s.vals[phi] # Top /\ l # Top /\ ~Elem(l)
    <3>1. t = s
      BY <1>1, <2>4 DEF eval_phi
    <3>2. QED
      BY <1>2, <3>1, GrowsSelf DEF Marked, SamePlaces
  <2>5. QED
    BY <2>1, <2>2, <2>3, <2>4
<1>7. Feasible(t, phi, b) = Feasible(s, phi, b)
  BY <1>6 DEF Marked, SamePlaces, Feasible
<1>8. Owned
  BY ItemOwner
<1>9. Negated(t)
  <2>1. \A c \in Blocks(func) : \A k \in Nots(c) : phi # func.body[c][k].res
    BY <1>8 DEF Owned
  <2>2. Negated(s)
    BY DEF Sound
  <2>3. QED
    BY <1>2, <1>6, <2>1, <2>2, NegatedKept
<1>10. PhiSettled(t, phi, b) \/ PhiItem(phi) \in t.over \cup t.insts
  <2> SUFFICES ASSUME PhiItem(phi) \notin t.over \cup t.insts, t.vals[phi] # Top
               PROVE  PhiSettled(t, phi, b)
    BY DEF PhiSettled
  <2>1. s.vals[phi] # Top
    BY <1>2, <1>6, LatticeFacts DEF Marked, Grows
  <2>2. l # Top
    <3> SUFFICES ASSUME l = Top PROVE FALSE
      OBVIOUS
    <3>1. t = mark_overdefinied(s, phi)
      BY <1>1, <2>1 DEF eval_phi
    <3>2. t.vals[phi] = Top
      BY <1>2, <3>1, MarkTop DEF Marked
    <3>3. QED
      BY <3>2
  <2>3. /\ l \in Lattice
        /\ \A p \in Feasible(s, phi, b) : s.vals[Operand(phi, p)] # Top
        /\ (\A p \in Feasible(s, phi, b) : s.vals[Operand(phi, p)] # Bottom) =>
             \A p \in Feasible(s, phi, b) :
               /\ s.vals[Operand(phi, p)] = l
               /\ Elem(s.vals[phi]) => s.vals[phi] = l
    <3>1. s.vals[phi] \in Lattice \ {Top} /\ Meet(s, phi, b) # Top
      BY <1>1, <1>3, <2>1, <2>2
    <3>2. \A p \in Feasible(s, phi, b) : s.vals[Operand(phi, p)] \in Lattice
      BY <1>4
    <3>3. QED
      BY <1>1, <1>5, <3>1, <3>2, MeetKnows
  <2>4. \A p \in Feasible(s, phi, b) : t.vals[Operand(phi, p)] = s.vals[Operand(phi, p)]
    <3> SUFFICES ASSUME NEW p \in Feasible(s, phi, b), t.vals[Operand(phi, p)] # s.vals[Operand(phi, p)]
                 PROVE  FALSE
      OBVIOUS
    <3>1. Operand(phi, p) = phi
      BY <1>4, <1>6 DEF Marked
    <3>2. p \in DOMAIN func.edges[phi]
      BY DEF Feasible
    <3>3. PhiItem(phi) \in Users(func, phi)
      BY <3>1, <3>2, UsersRead DEF Reading
    <3>4. QED
      BY <1>6, <3>1, <3>3 DEF Marked
  <2>5. CASE \E p \in Feasible(s, phi, b) : s.vals[Operand(phi, p)] = Bottom
    BY <1>7, <2>3, <2>4, <2>5 DEF PhiSettled
  <2>6. CASE Feasible(s, phi, b) = {}
    BY <1>7, <2>6 DEF PhiSettled
  <2>7. CASE /\ \A p \in Feasible(s, phi, b) : s.vals[Operand(phi, p)] # Bottom
             /\ Feasible(s, phi, b) # {}
    <3>1. PICK q \in Feasible(s, phi, b) : TRUE
      BY <2>7
    <3>2. s.vals[Operand(phi, q)] = l /\ (Elem(s.vals[phi]) => s.vals[phi] = l)
      BY <2>3, <2>7
    <3>3. Elem(l)
      BY <2>2, <2>3, <2>7, <3>2, LatticeFacts
    <3>4. t = mark_const(s, phi, l) /\ l \in Consts
      BY <1>1, <2>1, <2>2, <3>3 DEF eval_phi, Elem
    <3>5. Marked(s, t, phi, IF Elem(s.vals[phi]) THEN s.vals[phi] ELSE l)
      BY <1>2, <2>1, <3>4, MarkConst
    <3>6. t.vals[phi] = l
      BY <3>2, <3>5 DEF Marked
    <3>7. QED
      BY <1>7, <2>3, <2>4, <2>7, <3>6 DEF PhiSettled
  <2>8. QED
    BY <2>5, <2>6, <2>7
<1>11. Good(t, X \cup {PhiItem(phi)})
  <2>1. Good(s, X)
    BY DEF Sound
  <2>2. Noted(s, t, X, X \cup {PhiItem(phi)})
    <3>1. \A c \in Blocks(func) : \A psi \in Phis(func, c) :
            \/ psi = phi
            \/ t.vals[psi] = s.vals[psi] /\ Feasible(t, psi, c) = Feasible(s, psi, c)
      BY <1>6, FnFacts, SMTT(40) DEF Marked, SamePlaces, Feasible, Values
    <3>2. \A c \in Blocks(func) : \A k \in Nots(c) :
            t.vals[func.body[c][k].res] = s.vals[func.body[c][k].res]
      BY <1>6, <1>8, FnFacts, SMTT(40) DEF Owned, Marked, Values
    <3>3. QED
      BY <1>6, <3>1, <3>2 DEF Noted, Marked, SamePlaces, Queued
  <2>3. QED
    BY <1>2, <1>6, <2>1, <2>2, KeepsGood DEF Marked
<1>12. Good(t, X \ {PhiItem(phi)})
  <2> SUFFICES ASSUME NEW c \in t.exec \ t.blocks
               PROVE  /\ \A psi \in Phis(func, c) :
                           PhiSettled(t, psi, c) \/ PhiItem(psi) \in Queued(t, X \ {PhiItem(phi)})
                      /\ \A k \in Nots(c) :
                           NotSettled(t, func.body[c][k]) \/ NotItem(c, k) \in Queued(t, X \ {PhiItem(phi)})
                      /\ BrSettled(t, c) \/ BrItem(c) \in Queued(t, X \ {PhiItem(phi)})
    BY DEF Good
  <2>1. c \in Blocks(func)
    BY <1>6 DEF Marked, Typed, Solvers
  <2>2. /\ \A psi \in Phis(func, c) :
             PhiSettled(t, psi, c) \/ PhiItem(psi) \in Queued(t, X \cup {PhiItem(phi)})
        /\ \A k \in Nots(c) :
             NotSettled(t, func.body[c][k]) \/ NotItem(c, k) \in Queued(t, X \cup {PhiItem(phi)})
        /\ BrSettled(t, c) \/ BrItem(c) \in Queued(t, X \cup {PhiItem(phi)})
    BY <1>11 DEF Good
  <2>3. \A w : w \in Queued(t, X \cup {PhiItem(phi)}) =>
          w \in Queued(t, X \ {PhiItem(phi)}) \/ w = PhiItem(phi)
    BY DEF Queued
  <2>4. /\ \A k \in Nots(c) : NotItem(c, k) # PhiItem(phi)
        /\ BrItem(c) # PhiItem(phi)
        /\ \A psi \in Phis(func, c) : PhiItem(psi) = PhiItem(phi) => psi = phi /\ c = b
    BY <1>8, <2>1, ItemsDiffer DEF Owned
  <2>5. PhiSettled(t, phi, b) \/ PhiItem(phi) \in Queued(t, X \ {PhiItem(phi)})
    BY <1>10 DEF Queued
  <2>6. QED
    BY <2>2, <2>3, <2>4, <2>5
<1>13. QED
  BY <1>1, <1>6, <1>9, <1>12 DEF Evaluated, Sound, Marked

\* What is settled, or in a list, need not be evaluated.
LEMMA Dropped ==
  ASSUME NEW t, NEW X, NEW Z, Good(t, X \cup Z),
         \A b \in t.exec \ t.blocks :
           /\ \A phi \in Phis(func, b) :
                PhiItem(phi) \in Z => PhiSettled(t, phi, b) \/ PhiItem(phi) \in t.over \cup t.insts
           /\ \A k \in Nots(b) :
                NotItem(b, k) \in Z => NotSettled(t, func.body[b][k]) \/ NotItem(b, k) \in t.over \cup t.insts
           /\ BrItem(b) \in Z => BrSettled(t, b) \/ BrItem(b) \in t.over \cup t.insts
  PROVE  Good(t, X \ Z)
<1> SUFFICES ASSUME NEW b \in t.exec \ t.blocks
             PROVE  /\ \A phi \in Phis(func, b) : PhiSettled(t, phi, b) \/ PhiItem(phi) \in Queued(t, X \ Z)
                    /\ \A k \in Nots(b) : NotSettled(t, func.body[b][k]) \/ NotItem(b, k) \in Queued(t, X \ Z)
                    /\ BrSettled(t, b) \/ BrItem(b) \in Queued(t, X \ Z)
  BY DEF Good
<1>1. \A w : w \in Queued(t, X \cup Z) => w \in Queued(t, X \ Z) \/ w \in Z
  BY DEF Queued
<1>2. t.over \cup t.insts \subseteq Queued(t, X \ Z)
  BY DEF Queued
<1>3. /\ \A phi \in Phis(func, b) : PhiSettled(t, phi, b) \/ PhiItem(phi) \in Queued(t, X \cup Z)
      /\ \A k \in Nots(b) : NotSettled(t, func.body[b][k]) \/ NotItem(b, k) \in Queued(t, X \cup Z)
      /\ BrSettled(t, b) \/ BrItem(b) \in Queued(t, X \cup Z)
  BY DEF Good
<1>4. QED
  BY <1>1, <1>2, <1>3

\* To have more to evaluate is no harm.
LEMMA GoodMore ==
  ASSUME NEW s, NEW X, NEW Y, Good(s, X), X \subseteq Y
  PROVE  Good(s, Y)
<1>1. Queued(s, X) \subseteq Queued(s, Y)
  BY DEF Queued
<1>2. QED
  BY <1>1 DEF Good

LEMMA EvaluatedFurther ==
  ASSUME NEW s, NEW t, NEW u, NEW X, NEW Y, Evaluated(s, t, X), Evaluated(t, u, Y)
  PROVE  Evaluated(s, u, Y)
BY GrowsFurther DEF Evaluated, SamePlaces

LEMMA EvalUnary ==
  ASSUME Fn, NEW s, NEW X, Sound(s, X), NEW b \in Blocks(func), NEW k \in Nots(b)
  PROVE  Evaluated(s, eval_unary(s, func.body[b][k]), X \ {NotItem(b, k)})
<1>1. PICK i : i = func.body[b][k]
  OBVIOUS
<1>2. PICK t, x : t = eval_unary(s, i) /\ x = s.vals[i.arg]
  OBVIOUS
<1>3. /\ i.res \in AllResults(func) /\ i.res \in Values /\ i.arg \in Values
      /\ s.vals \in [Values -> Lattice] /\ Typed(s) /\ Negated(s)
  BY <1>1, FnFacts DEF Values, Nots, Sound, Typed, Solvers
<1>4. x \in Lattice /\ s.vals[i.res] \in Lattice
  BY <1>2, <1>3
<1>5. s.vals[i.res] = Bottom \/ x = Top \/ (Elem(x) /\ s.vals[i.res] = Bnot(x))
  BY <1>1, <1>2, <1>3 DEF Negated
<1>6. \A y \in Consts : Bnot(y) \in Consts /\ Bnot(y) # y
  BY DEF Consts, FalseVal, TrueVal, Bnot, Poison
<1>7. /\ \E y : Marked(s, t, i.res, y)
      /\ t.vals[i.arg] = x
      /\ NotSettled(t, i)
      /\ t.vals[i.res] = s.vals[i.res] \/ x = Top \/ (Elem(x) /\ t.vals[i.res] = Bnot(x))
  <2>1. CASE x = Bottom
    <3>1. t = s
      BY <1>2, <2>1 DEF eval_unary
    <3>2. Marked(s, t, i.res, s.vals[i.res])
      BY <1>3, <3>1, GrowsSelf DEF Marked, SamePlaces
    <3>3. QED
      BY <1>2, <2>1, <3>1, <3>2 DEF NotSettled
  <2>2. CASE x = Top
    <3>1. t = mark_overdefinied(s, i.res)
      BY <1>2, <2>2, LatticeFacts DEF eval_unary
    <3>2. Marked(s, t, i.res, Top)
      BY <1>3, <3>1, MarkTop
    <3>3. t.vals[i.res] = Top /\ t.vals[i.arg] = Top
      BY <1>2, <1>3, <2>2, <3>2 DEF Marked
    <3>4. QED
      BY <2>2, <3>2, <3>3 DEF NotSettled
  <2>3. CASE Elem(x)
    <3>1. t = mark_const(s, i.res, Bnot(x)) /\ x \in Consts
      BY <1>2, <2>3, LatticeFacts DEF eval_unary, Elem
    <3>2. s.vals[i.res] # Top
      BY <1>5, <1>6, <2>3, <3>1, LatticeFacts DEF Elem
    <3>3. Marked(s, t, i.res, IF Elem(s.vals[i.res]) THEN s.vals[i.res] ELSE Bnot(x))
      BY <1>3, <1>6, <3>1, <3>2, MarkConst
    <3>4. t.vals[i.res] = Bnot(x)
      BY <1>5, <2>3, <3>3, LatticeFacts DEF Marked
    <3>5. t.vals[i.arg] = x
      <4>1. CASE i.arg = i.res
        <5>1. s.vals[i.res] = x
          BY <1>2, <4>1
        <5>2. QED
          BY <2>3, <3>3, <4>1, <5>1 DEF Marked
      <4>2. CASE i.arg # i.res
        BY <1>2, <1>3, <3>3, <4>2 DEF Marked
      <4>3. QED
        BY <4>1, <4>2
    <3>6. QED
      BY <2>3, <3>3, <3>4, <3>5 DEF NotSettled
  <2>4. QED
    BY <1>4, <2>1, <2>2, <2>3, LatticeFacts
<1>8. PICK y : Marked(s, t, i.res, y)
  BY <1>7
<1>9. Owned
  BY ItemOwner
<1>10. Negated(t)
  <2>1. \A c \in Blocks(func) : \A j \in Nots(c) : i.res = func.body[c][j].res => func.body[c][j] = i
    BY <1>1, <1>9 DEF Owned
  <2>2. \A c \in Blocks(func) : \A j \in Nots(c) :
          i.res = func.body[c][j].res =>
             \/ t.vals[i.res] = s.vals[i.res]
             \/ t.vals[func.body[c][j].arg] = Top
             \/ Elem(t.vals[func.body[c][j].arg]) /\ t.vals[i.res] = Bnot(t.vals[func.body[c][j].arg])
    BY <1>7, <2>1
  <2>3. QED
    BY <1>3, <1>8, <2>2, NegatedKept
<1>11. Good(t, X \cup {NotItem(b, k)})
  <2>1. Good(s, X)
    BY DEF Sound
  <2>2. \A c \in Blocks(func) : \A psi \in Phis(func, c) :
          t.vals[psi] = s.vals[psi] /\ Feasible(t, psi, c) = Feasible(s, psi, c)
    <3>1. \A c \in Blocks(func) : \A psi \in Phis(func, c) : psi \in Values /\ psi # i.res
      BY <1>1, <1>9, FnFacts DEF Owned, Values
    <3>2. QED
      BY <1>8, <3>1 DEF Marked, SamePlaces, Feasible
  <2>3. \A c \in Blocks(func) : \A j \in Nots(c) :
          t.vals[func.body[c][j].res] # s.vals[func.body[c][j].res] => NotItem(c, j) = NotItem(b, k)
    <3>1. \A c \in Blocks(func) : \A j \in Nots(c) : func.body[c][j].res \in Values
      BY FnFacts DEF Values
    <3>2. \A c \in Blocks(func) : \A j \in Nots(c) :
            t.vals[func.body[c][j].res] # s.vals[func.body[c][j].res] => func.body[c][j].res = i.res
      BY <1>8, <3>1 DEF Marked
    <3>3. QED
      BY <1>1, <3>2 DEF NotItem
  <2>4. Noted(s, t, X, X \cup {NotItem(b, k)})
    BY <1>8, <2>2, <2>3 DEF Noted, Marked, SamePlaces, Queued
  <2>5. QED
    BY <1>3, <1>8, <2>1, <2>4, KeepsGood DEF Marked
<1>12. Good(t, X \ {NotItem(b, k)})
  <2>1. \A c \in t.exec \ t.blocks : c \in Blocks(func)
    BY <1>8 DEF Marked, Typed, Solvers
  <2>2. \A c \in Blocks(func) : \A j \in Nots(c) : NotItem(c, j) = NotItem(b, k) => func.body[c][j] = i
    BY <1>1, <1>9, ItemsDiffer DEF Owned
  <2>3. \A phi : PhiItem(phi) # NotItem(b, k)
    BY ItemsDiffer
  <2>4. \A c : BrItem(c) # NotItem(b, k)
    BY ItemsDiffer
  <2>5. PICK w : w = NotItem(b, k)
    OBVIOUS
  <2>6. \A c \in t.exec \ t.blocks :
          /\ \A phi \in Phis(func, c) :
               PhiItem(phi) \in {w} => PhiSettled(t, phi, c) \/ PhiItem(phi) \in t.over \cup t.insts
          /\ \A j \in Nots(c) :
               NotItem(c, j) \in {w} => NotSettled(t, func.body[c][j]) \/ NotItem(c, j) \in t.over \cup t.insts
          /\ BrItem(c) \in {w} => BrSettled(t, c) \/ BrItem(c) \in t.over \cup t.insts
    BY <1>7, <2>1, <2>2, <2>3, <2>4, <2>5
  <2>7. Good(t, X \cup {w})
    BY <1>11, <2>5
  <2>8. Good(t, X \ {w})
    BY <2>6, <2>7, Dropped
  <2>9. QED
    BY <2>5, <2>8
<1>13. QED
  BY <1>1, <1>2, <1>8, <1>10, <1>12 DEF Evaluated, Sound, Marked

\* The phis of a block.
LEMMA EvalPhis ==
  ASSUME Fn, NEW s, NEW X, Sound(s, X), NEW b \in Blocks(func)
  PROVE  Evaluated(s, eval_phis(s, b), X \ PhiItems(b))
<1>1. PICK q : q = func.phis[b]
  OBVIOUS
<1>2. PICK n \in Nat : DOMAIN q = 1 .. n
  BY <1>1, FnFacts
<1>3. PICK h : PhisInTurn(s, b, n, h)
  BY <1>1, <1>2, PhiFold
<1>4. h[0] = s /\ \A k \in 1 .. n : h[k] = eval_phi(h[k - 1], q[k], b)
  BY <1>1, <1>3 DEF PhisInTurn
<1>5. Phis(func, b) = {q[k] : k \in 1 .. n}
  BY <1>1, <1>2 DEF Phis, ToSet
<1> DEFINE Done(k) == {PhiItem(q[j]) : j \in 1 .. k}
           P(k) == k <= n => Evaluated(s, h[k], X \ Done(k))
<1>6. P(0)
  <2>1. X \ Done(0) = X
    OBVIOUS
  <2>2. Evaluated(s, s, X)
    BY GrowsSelf DEF Evaluated, SamePlaces
  <2>3. QED
    BY <1>4, <2>1, <2>2
<1>7. ASSUME NEW k \in Nat, P(k), k + 1 <= n
      PROVE  Evaluated(s, h[k + 1], X \ Done(k + 1))
  <2>1. k + 1 \in 1 .. n /\ (k + 1) - 1 = k /\ k <= n
    BY <1>7
  <2>2. h[k + 1] = eval_phi(h[k], q[k + 1], b)
    BY <1>4, <2>1
  <2>3. Evaluated(s, h[k], X \ Done(k))
    BY <1>7, <2>1
  <2>4. q[k + 1] \in Phis(func, b)
    BY <1>5, <2>1
  <2>5. Evaluated(h[k], h[k + 1], (X \ Done(k)) \ {PhiItem(q[k + 1])})
    <3> HIDE DEF Done
    <3>1. Sound(h[k], X \ Done(k))
      BY <2>3 DEF Evaluated
    <3>2. QED
      BY <2>2, <2>4, <3>1, EvalPhi
  <2>6. (X \ Done(k)) \ {PhiItem(q[k + 1])} = X \ Done(k + 1)
    <3>1. \A j : j \in 1 .. k + 1 <=> j \in 1 .. k \/ j = k + 1
      OBVIOUS
    <3>2. QED
      BY <3>1
  <2>7. QED
    BY <2>3, <2>5, <2>6, EvaluatedFurther
<1>8. \A k \in Nat : P(k)
  <2> SUFFICES ASSUME NEW k0 \in Nat, ~P(k0) PROVE FALSE
    OBVIOUS
  <2> DEFINE T == {k \in Nat : ~P(k)}
  <2>1. T \in SUBSET Nat /\ k0 \in T
    OBVIOUS
  <2>2. PICK m \in T : \A k \in T : m <= k
    <3> HIDE DEF T
    <3>1. QED
      BY <2>1, LeastNat
  <2>3. m \in Nat /\ ~P(m) /\ m # 0
    <3> HIDE DEF P
    <3>1. QED
      BY <1>6
  <2>4. m - 1 \in Nat /\ m - 1 \notin T /\ (m - 1) + 1 = m
    <3> HIDE DEF T
    <3>1. QED
      BY <2>2, <2>3
  <2>5. P(m - 1)
    <3> HIDE DEF P
    <3>1. QED
      BY <2>4
  <2>6. m <= n
    BY <2>3
  <2>7. Evaluated(s, h[m], X \ Done(m))
    <3> HIDE DEF P, Done
    <3>1. Evaluated(s, h[(m - 1) + 1], X \ Done((m - 1) + 1))
      BY <1>7, <2>4, <2>5, <2>6
    <3>2. QED
      BY <2>4, <3>1
  <2>8. QED
    BY <2>3, <2>7
<1>9. Evaluated(s, h[n], X \ Done(n))
  <2>1. P(n)
    <3> HIDE DEF P
    <3>1. QED
      BY <1>8
  <2>2. QED
    BY <2>1
<1>10. Done(n) = PhiItems(b)
  BY <1>5 DEF PhiItems
<1>11. QED
  BY <1>3, <1>9, <1>10 DEF PhisInTurn

-----------------------------------------------------------------------------
(* Evaluating a terminator, a block and an entry of a list                 *)

\* The destinations of a block.
LEMMA TermShape ==
  ASSUME Fn, NEW b \in Blocks(func)
  PROVE  \/ IsExit(func, b) /\ ~IsJump(func, b) /\ ~IsBranch(func, b) /\ ToSet(func.term[b].dst) = {}
         \/ /\ ~IsExit(func, b) /\ IsJump(func, b) /\ ~IsBranch(func, b)
            /\ ToSet(func.term[b].dst) = {func.term[b].dst[1]}
         \/ /\ ~IsExit(func, b) /\ ~IsJump(func, b) /\ IsBranch(func, b)
            /\ ToSet(func.term[b].dst) = {func.term[b].dst[1], func.term[b].dst[2]}
<1>1. PICK q : q = func.term[b].dst
  OBVIOUS
<1>2. q \in Seq(Blocks(func)) /\ Len(q) \in 0 .. 2
  BY <1>1 DEF Fn, Formed
<1>3. ToSet(q) = {q[k] : k \in 1 .. Len(q)}
  BY <1>2 DEF ToSet
<1>4. CASE Len(q) = 0
  <2>1. q = <<>> /\ ToSet(q) = {}
    BY <1>2, <1>3, <1>4
  <2>2. QED
    BY <1>1, <1>4, <2>1 DEF IsExit, IsJump, IsBranch
<1>5. CASE Len(q) = 1
  <2>1. q # <<>> /\ ToSet(q) = {q[1]}
    BY <1>2, <1>3, <1>5
  <2>2. QED
    BY <1>1, <1>5, <2>1 DEF IsExit, IsJump, IsBranch
<1>6. CASE Len(q) = 2
  <2>1. q # <<>> /\ ToSet(q) = {q[1], q[2]}
    <3>1. 1 .. 2 = {1, 2}
      OBVIOUS
    <3>2. ToSet(q) = {q[k] : k \in {1, 2}}
      BY <1>3, <1>6, <3>1
    <3>3. QED
      BY <1>2, <1>6, <3>2
  <2>2. QED
    BY <1>1, <1>6, <2>1 DEF IsExit, IsJump, IsBranch
<1>7. QED
  BY <1>2, <1>4, <1>5, <1>6

\* An edge that can be taken: its end is executable, and its phis are evaluated
\* again if they were before.
LEMMA MarkEdge ==
  ASSUME Fn, NEW s, NEW X, Sound(s, X), NEW b \in s.exec, NEW d \in ToSet(func.term[b].dst)
  PROVE  /\ Sound(mark_edge_feasible(s, b, d), X)
         /\ Grows(s, mark_edge_feasible(s, b, d))
         /\ d \in mark_edge_feasible(s, b, d).edges[b]
<1>1. CASE d \in s.edges[b]
  BY <1>1, GrowsSelf DEF mark_edge_feasible
<1>2. CASE d \notin s.edges[b]
  <2>1. PICK u, t : /\ u = [s EXCEPT !.edges[b] = @ \cup {d}]
                    /\ t = mark_edge_feasible(s, b, d)
    OBVIOUS
  <2>2. s \in Solvers /\ Typed(s) /\ Negated(s) /\ Good(s, X)
    BY DEF Sound, Typed
  <2>3. b \in Blocks(func) /\ d \in Blocks(func) /\ b \in DOMAIN func.term
    <3>1. b \in Blocks(func)
      BY <2>2 DEF Solvers
    <3>2. QED
      BY <3>1, FnFacts
  <2>4. /\ u.edges = [s.edges EXCEPT ![b] = @ \cup {d}]
        /\ u.vals = s.vals /\ u.over = s.over /\ u.insts = s.insts /\ u.blocks = s.blocks
        /\ u.turn = s.turn /\ u.exec = s.exec
    BY <2>1, <2>2 DEF Solvers
  <2>5. s.edges \in [DOMAIN func.term -> SUBSET Blocks(func)]
    BY <2>2 DEF Solvers
  <2>6. /\ u.edges \in [DOMAIN func.term -> SUBSET Blocks(func)]
        /\ u.edges[b] = s.edges[b] \cup {d}
        /\ \A p \in DOMAIN func.term : p # b => u.edges[p] = s.edges[p]
    BY <2>3, <2>4, <2>5
  <2>7. u \in Solvers
    <3>1. u = [s EXCEPT !.edges = u.edges]
      BY <2>1, <2>2, <2>4 DEF Solvers
    <3>2. QED
      BY <2>2, <2>6, <3>1 DEF Solvers
  <2>8. \A p \in Blocks(func) : p \in DOMAIN func.term
    BY FnFacts
  <2>9. \A p \in Blocks(func) : s.edges[p] \subseteq u.edges[p] /\ u.edges[p] \subseteq s.edges[p] \cup {d}
    BY <2>6, <2>8
  <2>10. \A p \in Blocks(func) : u.edges[p] \subseteq ToSet(func.term[p].dst)
    BY <2>2, <2>6, <2>8 DEF Typed
  <2>11. \A c \in Blocks(func) : c # d =>
           \A phi \in Phis(func, c) : Feasible(u, phi, c) = Feasible(s, phi, c)
    <3> SUFFICES ASSUME NEW c \in Blocks(func), c # d, NEW phi \in Phis(func, c)
                 PROVE  Feasible(u, phi, c) = Feasible(s, phi, c)
      OBVIOUS
    <3>1. DOMAIN func.edges[phi] \subseteq Blocks(func)
      BY FnFacts
    <3>2. \A p \in Blocks(func) : c \in u.edges[p] <=> c \in s.edges[p]
      BY <2>9
    <3>3. QED
      BY <3>1, <3>2 DEF Feasible
  <2>12. CASE d \in s.exec
    <3>1. t = eval_phis(u, d)
      BY <1>2, <2>1, <2>4, <2>12 DEF mark_edge_feasible
    <3>2. Typed(u)
      BY <2>2, <2>4, <2>7, <2>9, <2>10, <2>12 DEF Typed
    <3>3. Negated(u)
      BY <2>2, <2>4 DEF Negated
    <3>4. Grows(s, u)
      BY <2>4, <2>9 DEF Grows
    <3>5. Noted(s, u, X, X \cup PhiItems(d))
      BY <2>4, <2>11 DEF Noted, Queued, PhiItems
    <3>6. Sound(u, X \cup PhiItems(d))
      BY <2>2, <3>2, <3>3, <3>4, <3>5, KeepsGood DEF Sound
    <3>7. Evaluated(u, t, (X \cup PhiItems(d)) \ PhiItems(d))
      BY <2>3, <3>1, <3>6, EvalPhis
    <3>8. Good(t, X)
      <4>1. (X \cup PhiItems(d)) \ PhiItems(d) \subseteq X
        OBVIOUS
      <4>2. QED
        BY <3>7, <4>1, GoodMore DEF Evaluated, Sound
    <3>9. Sound(t, X) /\ Grows(u, t) /\ t.edges = u.edges
      BY <3>7, <3>8 DEF Evaluated, Sound, SamePlaces
    <3>10. QED
      BY <2>1, <2>6, <3>4, <3>9, GrowsFurther
  <2>13. CASE d \notin s.exec
    <3>1. t = [u EXCEPT !.exec = @ \cup {d}, !.blocks = @ \cup {d}]
      BY <1>2, <2>1, <2>4, <2>13 DEF mark_edge_feasible
    <3>2. /\ t.edges = u.edges /\ t.vals = s.vals /\ t.over = s.over /\ t.insts = s.insts
          /\ t.turn = s.turn /\ t.exec = s.exec \cup {d} /\ t.blocks = s.blocks \cup {d}
      BY <2>4, <2>7, <3>1 DEF Solvers
    <3>3. t \in Solvers
      <4>1. t.exec \in SUBSET Blocks(func) /\ t.blocks \in SUBSET Blocks(func)
        BY <2>2, <2>3, <3>2 DEF Solvers
      <4>2. t = [u EXCEPT !.exec = t.exec, !.blocks = t.blocks]
        BY <2>4, <2>7, <3>1, <3>2 DEF Solvers
      <4>3. QED
        BY <2>7, <4>1, <4>2 DEF Solvers
    <3>4. Typed(t)
      BY <2>2, <2>9, <2>10, <3>2, <3>3 DEF Typed
    <3>5. Negated(t)
      BY <2>2, <3>2 DEF Negated
    <3>6. Grows(s, t)
      BY <2>9, <3>2 DEF Grows
    <3>7. \A c \in t.exec \ t.blocks : c # d
      BY <3>2
    <3>8. \A c \in Blocks(func) \cap (t.exec \ t.blocks) : \A phi \in Phis(func, c) :
            Feasible(t, phi, c) = Feasible(s, phi, c)
      BY <2>11, <3>2, <3>7 DEF Feasible
    <3>9. Noted(s, t, X, X)
      BY <3>2, <3>8 DEF Noted, Queued
    <3>10. Good(t, X)
      BY <2>2, <3>6, <3>9, KeepsGood
    <3>11. QED
      BY <2>1, <2>6, <3>2, <3>4, <3>5, <3>6, <3>10 DEF Sound
  <2>14. QED
    BY <2>12, <2>13
<1>3. QED
  BY <1>1, <1>2

LEMMA EvalTerm ==
  ASSUME Fn, NEW s, NEW X, Sound(s, X), NEW b \in s.exec
  PROVE  Sound(eval_term(s, b), X \ {BrItem(b)}) /\ Grows(s, eval_term(s, b))
<1>1. PICK t, T : t = eval_term(s, b) /\ T = func.term[b]
  OBVIOUS
<1>2. b \in Blocks(func) /\ s.vals \in [Values -> Lattice]
  BY DEF Sound, Typed, Solvers
<1>3. /\ Sound(t, X) /\ Grows(s, t)
      /\ BrSettled(t, b) \/ BrItem(b) \in t.over \cup t.insts
  <2>1. CASE IsExit(func, b)
    <3>1. t = s
      BY <1>1, <2>1 DEF eval_term
    <3>2. ToSet(func.term[b].dst) = {}
      BY <1>2, <2>1, TermShape
    <3>3. QED
      BY <3>1, <3>2, GrowsSelf DEF BrSettled
  <2>2. CASE IsJump(func, b)
    <3>1. ToSet(T.dst) = {T.dst[1]} /\ ~IsExit(func, b)
      BY <1>1, <1>2, <2>2, TermShape
    <3>2. t = mark_edge_feasible(s, b, T.dst[1])
      BY <1>1, <2>2, <3>1 DEF eval_term
    <3>3. Sound(t, X) /\ Grows(s, t) /\ T.dst[1] \in t.edges[b]
      BY <1>1, <3>1, <3>2, MarkEdge
    <3>4. QED
      BY <1>1, <3>1, <3>3 DEF BrSettled
  <2>3. CASE IsBranch(func, b)
    <3>1. ToSet(T.dst) = {T.dst[1], T.dst[2]} /\ ~IsExit(func, b) /\ ~IsJump(func, b)
      BY <1>1, <1>2, <2>3, TermShape
    <3>2. T.cond \in Values /\ BrItem(b) \in Users(func, T.cond)
      BY <1>1, <1>2, <2>3, FnFacts, UsersRead, SMTT(40) DEF Reading
    <3>3. CASE Elem(s.vals[T.cond])
      <4>1. PICK d : d = T.dst[IF s.vals[T.cond] = TrueVal THEN 1 ELSE 2]
        OBVIOUS
      <4>2. t = mark_edge_feasible(s, b, d) /\ d \in ToSet(T.dst)
        BY <1>1, <3>1, <3>3, <4>1 DEF eval_term
      <4>3. Sound(t, X) /\ Grows(s, t) /\ d \in t.edges[b]
        BY <1>1, <4>2, MarkEdge
      <4>4. t.vals[T.cond] = s.vals[T.cond] \/ BrItem(b) \in t.over \cup t.insts
        BY <3>2, <4>3 DEF Grows
      <4>5. t.vals[T.cond] = s.vals[T.cond] => BrSettled(t, b)
        BY <1>1, <2>3, <3>3, <4>1, <4>3 DEF BrSettled, Chosen
      <4>6. QED
        BY <4>3, <4>4, <4>5
    <3>4. CASE ~Elem(s.vals[T.cond])
      <4>1. PICK u : u = mark_edge_feasible(s, b, T.dst[2])
        OBVIOUS
      <4>2. t = mark_edge_feasible(u, b, T.dst[1])
        BY <1>1, <3>1, <3>4, <4>1 DEF eval_term
      <4>3. Sound(u, X) /\ Grows(s, u) /\ T.dst[2] \in u.edges[b]
        BY <1>1, <3>1, <4>1, MarkEdge
      <4>4. b \in u.exec
        BY <4>3 DEF Grows
      <4>5. Sound(t, X) /\ Grows(u, t) /\ T.dst[1] \in t.edges[b]
        BY <1>1, <3>1, <4>2, <4>3, <4>4, MarkEdge
      <4>6. T.dst[2] \in t.edges[b]
        BY <1>2, <4>3, <4>5 DEF Grows
      <4>7. BrSettled(t, b)
        BY <1>1, <3>1, <4>5, <4>6 DEF BrSettled
      <4>8. QED
        BY <4>3, <4>5, <4>7, GrowsFurther
    <3>5. QED
      BY <3>3, <3>4
  <2>4. QED
    BY <1>2, <2>1, <2>2, <2>3, TermShape
<1>4. Good(t, X \ {BrItem(b)})
  <2>1. PICK w : w = BrItem(b)
    OBVIOUS
  <2>2. /\ \A phi : PhiItem(phi) # w
        /\ \A c, k : NotItem(c, k) # w
        /\ \A c : BrItem(c) = w => c = b
    BY <2>1, ItemsDiffer
  <2>3. Good(t, X \cup {w})
    BY <1>3, GoodMore DEF Sound
  <2>4. \A c \in t.exec \ t.blocks :
          /\ \A phi \in Phis(func, c) :
               PhiItem(phi) \in {w} => PhiSettled(t, phi, c) \/ PhiItem(phi) \in t.over \cup t.insts
          /\ \A k \in Nots(c) :
               NotItem(c, k) \in {w} => NotSettled(t, func.body[c][k]) \/ NotItem(c, k) \in t.over \cup t.insts
          /\ BrItem(c) \in {w} => BrSettled(t, c) \/ BrItem(c) \in t.over \cup t.insts
    BY <1>3, <2>2
  <2>5. QED
    BY <2>1, <2>3, <2>4, Dropped
<1>5. QED
  BY <1>1, <1>3, <1>4 DEF Sound

\* The other instructions of a block.
LEMMA EvalInsts ==
  ASSUME Fn, NEW s, NEW X, Sound(s, X), NEW b \in Blocks(func)
  PROVE  Evaluated(s, FoldLeft(eval_inst, s, func.body[b]), X \ NotItems(b))
<1>1. PICK n \in Nat : DOMAIN func.body[b] = 1 .. n
  BY FnFacts
<1>2. PICK h : InstsInTurn(s, b, n, h)
  BY <1>1, InstFold
<1>3. h[0] = s /\ \A k \in 1 .. n : h[k] = eval_inst(h[k - 1], func.body[b][k])
  BY <1>2 DEF InstsInTurn
<1>4. Nots(b) \subseteq 1 .. n /\ \A k \in 1 .. n : k \in Nots(b) <=> func.body[b][k].op = "bnot"
  BY <1>1 DEF Nots, IsBnot
<1> DEFINE Done(k) == {NotItem(b, j) : j \in Nots(b) \cap (1 .. k)}
           P(k) == k <= n => Evaluated(s, h[k], X \ Done(k))
<1>5. P(0)
  <2>1. X \ Done(0) = X
    OBVIOUS
  <2>2. Evaluated(s, s, X)
    BY GrowsSelf DEF Evaluated, SamePlaces
  <2>3. QED
    BY <1>3, <2>1, <2>2
<1>6. ASSUME NEW k \in Nat, P(k), k + 1 <= n
      PROVE  Evaluated(s, h[k + 1], X \ Done(k + 1))
  <2>1. k + 1 \in 1 .. n /\ (k + 1) - 1 = k /\ k <= n
    BY <1>6
  <2>2. h[k + 1] = eval_inst(h[k], func.body[b][k + 1])
    BY <1>3, <2>1
  <2>3. Evaluated(s, h[k], X \ Done(k))
    BY <1>6, <2>1
  <2>4. \A j : j \in 1 .. k + 1 <=> j \in 1 .. k \/ j = k + 1
    OBVIOUS
  <2>5. CASE k + 1 \in Nots(b)
    <3>1. h[k + 1] = eval_unary(h[k], func.body[b][k + 1])
      BY <1>4, <2>1, <2>2, <2>5 DEF eval_inst
    <3>2. Evaluated(h[k], h[k + 1], (X \ Done(k)) \ {NotItem(b, k + 1)})
      <4> HIDE DEF Done
      <4>1. PICK u, Y, j : u = h[k] /\ Y = X \ Done(k) /\ j = k + 1
        OBVIOUS
      <4>2. Sound(u, Y) /\ j \in Nots(b)
        BY <2>3, <2>5, <4>1 DEF Evaluated
      <4>3. Evaluated(u, eval_unary(u, func.body[b][j]), Y \ {NotItem(b, j)})
        BY <4>2, EvalUnary, SMTT(40)
      <4>4. QED
        BY <3>1, <4>1, <4>3
    <3>3. (X \ Done(k)) \ {NotItem(b, k + 1)} = X \ Done(k + 1)
      BY <2>4, <2>5
    <3>4. Evaluated(h[k], h[k + 1], X \ Done(k + 1))
      BY <3>2, <3>3
    <3>5. QED
      <4> HIDE DEF Done
      <4>1. QED
        BY <2>3, <3>4, EvaluatedFurther
  <2>6. CASE k + 1 \notin Nots(b)
    <3>1. h[k + 1] = h[k]
      BY <1>4, <2>1, <2>2, <2>6 DEF eval_inst
    <3>2. Done(k + 1) = Done(k)
      BY <2>4, <2>6
    <3>3. QED
      BY <2>3, <3>1, <3>2
  <2>7. QED
    BY <2>5, <2>6
<1>7. \A k \in Nat : P(k)
  <2> SUFFICES ASSUME NEW k0 \in Nat, ~P(k0) PROVE FALSE
    OBVIOUS
  <2> DEFINE T == {k \in Nat : ~P(k)}
  <2>1. T \in SUBSET Nat /\ k0 \in T
    OBVIOUS
  <2>2. PICK m \in T : \A k \in T : m <= k
    <3> HIDE DEF T
    <3>1. QED
      BY <2>1, LeastNat
  <2>3. m \in Nat /\ ~P(m) /\ m # 0
    <3> HIDE DEF P
    <3>1. QED
      BY <1>5
  <2>4. m - 1 \in Nat /\ m - 1 \notin T /\ (m - 1) + 1 = m
    <3> HIDE DEF T
    <3>1. QED
      BY <2>2, <2>3
  <2>5. P(m - 1)
    <3> HIDE DEF P
    <3>1. QED
      BY <2>4
  <2>6. m <= n
    BY <2>3
  <2>7. Evaluated(s, h[m], X \ Done(m))
    <3> HIDE DEF P, Done
    <3>1. Evaluated(s, h[(m - 1) + 1], X \ Done((m - 1) + 1))
      BY <1>6, <2>4, <2>5, <2>6
    <3>2. QED
      BY <2>4, <3>1
  <2>8. QED
    BY <2>3, <2>7
<1>8. Evaluated(s, h[n], X \ Done(n))
  <2>1. P(n)
    <3> HIDE DEF P
    <3>1. QED
      BY <1>7
  <2>2. QED
    BY <2>1
<1>9. Done(n) = NotItems(b)
  <2>1. Nots(b) \cap (1 .. n) = Nots(b)
    BY <1>4
  <2>2. QED
    BY <2>1 DEF NotItems
<1>10. QED
  BY <1>2, <1>8, <1>9 DEF InstsInTurn

LEMMA EvaluateBlock ==
  ASSUME Fn, NEW s, Sound(s, {}), NEW b \in s.blocks
  PROVE  Sound(EvalBlock(s, b), {})
<1>1. PICK t : t = [s EXCEPT !.blocks = @ \ {b}]
  OBVIOUS
<1>2. s \in Solvers /\ Typed(s) /\ Negated(s) /\ Good(s, {}) /\ b \in s.exec /\ b \in Blocks(func)
  BY DEF Sound, Typed, Solvers
<1>3. /\ t.blocks = s.blocks \ {b} /\ t.vals = s.vals /\ t.over = s.over /\ t.insts = s.insts
      /\ t.edges = s.edges /\ t.turn = s.turn /\ t.exec = s.exec
  BY <1>1, <1>2 DEF Solvers
<1>4. t \in Solvers
  <2>1. t.blocks \in SUBSET Blocks(func)
    BY <1>2, <1>3 DEF Solvers
  <2>2. t = [s EXCEPT !.blocks = t.blocks]
    BY <1>1, <1>2, <1>3 DEF Solvers
  <2>3. QED
    BY <1>2, <2>1, <2>2 DEF Solvers
<1>5. Typed(t) /\ Negated(t)
  BY <1>2, <1>3, <1>4 DEF Typed, Negated
<1>6. Good(t, Items(b))
  <2> SUFFICES ASSUME NEW c \in t.exec \ t.blocks
               PROVE  /\ \A phi \in Phis(func, c) :
                           PhiSettled(t, phi, c) \/ PhiItem(phi) \in Queued(t, Items(b))
                      /\ \A k \in Nots(c) :
                           NotSettled(t, func.body[c][k]) \/ NotItem(c, k) \in Queued(t, Items(b))
                      /\ BrSettled(t, c) \/ BrItem(c) \in Queued(t, Items(b))
    BY DEF Good
  <2>1. CASE c = b
    BY <2>1 DEF Items, PhiItems, NotItems, Queued
  <2>2. CASE c # b
    <3>1. c \in s.exec \ s.blocks
      BY <1>3, <2>2
    <3>2. /\ \A phi \in Phis(func, c) : PhiSettled(s, phi, c) \/ PhiItem(phi) \in Queued(s, {})
          /\ \A k \in Nots(c) : NotSettled(s, func.body[c][k]) \/ NotItem(c, k) \in Queued(s, {})
          /\ BrSettled(s, c) \/ BrItem(c) \in Queued(s, {})
      BY <1>2, <3>1 DEF Good
    <3>3. Queued(s, {}) \subseteq Queued(t, Items(b))
      BY <1>3 DEF Queued
    <3>4. \A phi \in Phis(func, c) : PhiSettled(s, phi, c) => PhiSettled(t, phi, c)
      BY <1>3 DEF PhiSettled, Feasible
    <3>5. \A k \in Nots(c) : NotSettled(s, func.body[c][k]) => NotSettled(t, func.body[c][k])
      BY <1>3 DEF NotSettled
    <3>6. BrSettled(s, c) => BrSettled(t, c)
      BY <1>3 DEF BrSettled, Chosen
    <3>7. QED
      BY <3>2, <3>3, <3>4, <3>5, <3>6
  <2>3. QED
    BY <2>1, <2>2
<1>7. Sound(t, Items(b))
  BY <1>5, <1>6 DEF Sound
<1>8. PICK u : u = eval_phis(t, b)
  OBVIOUS
<1>9. Evaluated(t, u, Items(b) \ PhiItems(b))
  BY <1>2, <1>7, <1>8, EvalPhis
<1>10. PICK v : v = FoldLeft(eval_inst, u, func.body[b])
  OBVIOUS
<1>11. Evaluated(u, v, (Items(b) \ PhiItems(b)) \ NotItems(b))
  <2>1. Sound(u, Items(b) \ PhiItems(b))
    BY <1>9 DEF Evaluated
  <2>2. QED
    BY <1>2, <1>10, <2>1, EvalInsts
<1>12. Sound(v, (Items(b) \ PhiItems(b)) \ NotItems(b)) /\ b \in v.exec
  BY <1>2, <1>3, <1>9, <1>11 DEF Evaluated, SamePlaces
<1>13. PICK r : r = eval_term(v, b)
  OBVIOUS
<1>14. Sound(r, ((Items(b) \ PhiItems(b)) \ NotItems(b)) \ {BrItem(b)})
  BY <1>12, <1>13, EvalTerm
<1>15. ((Items(b) \ PhiItems(b)) \ NotItems(b)) \ {BrItem(b)} = {}
  BY DEF Items
<1>16. EvalBlock(s, b) = r
  BY <1>1, <1>8, <1>10, <1>13 DEF EvalBlock
<1>17. QED
  BY <1>14, <1>15, <1>16

\* The block of an entry of a list.
Home(w) == CHOOSE b \in Blocks(func) : IF w.kind = "br" THEN b = w.at ELSE w.at \in Results(func, b)

Negation(b, r) == CHOOSE i \in ToSet(func.body[b]) : i.op = "bnot" /\ i.res = r

LEMMA EvalWorkHome ==
  ASSUME NEW s, NEW w
  PROVE  EvalWork(s, w) =
           IF Home(w) \notin s.exec THEN s
           ELSE IF w.kind = "br" THEN eval_term(s, Home(w))
           ELSE IF w.kind = "phi" THEN eval_phi(s, w.at, Home(w))
           ELSE eval_unary(s, Negation(Home(w), w.at))
BY DEF EvalWork, Home, Negation

\* An entry that was taken from a list.
LEMMA EvaluateWork ==
  ASSUME Fn, NEW s, NEW w \in AllItems, Sound(s, {w})
  PROVE  Sound(EvalWork(s, w), {})
<1>1. Typed(s) /\ Negated(s) /\ Good(s, {w})
  BY DEF Sound
<1>2. Owned
  BY ItemOwner
<1>3. \A b, c \in Blocks(func) : Results(func, b) \cap Results(func, c) # {} => b = c
  BY DEF Fn, Formed
<1>4. s.exec \subseteq Blocks(func)
  BY <1>1 DEF Typed, Solvers
<1> DEFINE Of(b) == IF w.kind = "br" THEN b = w.at ELSE w.at \in Results(func, b)
<1>5. PICK b \in Blocks(func) : w \in Items(b)
  BY DEF AllItems
<1>6. ASSUME Of(b), \A d \in Blocks(func) : Of(d) => d = b
      PROVE  Home(w) = b
  BY <1>6 DEF Home
\* If the block is not executable the entry is dropped.
<1>7. ASSUME b \notin s.exec
      PROVE  Sound(s, {})
  <2>1. \A c \in s.exec \ s.blocks :
          /\ \A phi \in Phis(func, c) : PhiItem(phi) # w
          /\ \A k \in Nots(c) : NotItem(c, k) # w
          /\ BrItem(c) # w
    <3> SUFFICES ASSUME NEW c \in Blocks(func), c # b
                 PROVE  /\ \A phi \in Phis(func, c) : PhiItem(phi) # w
                        /\ \A k \in Nots(c) : NotItem(c, k) # w
                        /\ BrItem(c) # w
      BY <1>4, <1>7
    <3>1. \/ \E phi \in Phis(func, b) : w = PhiItem(phi)
          \/ \E k \in Nots(b) : w = NotItem(b, k)
          \/ w = BrItem(b)
      BY <1>5 DEF Items, PhiItems, NotItems
    <3>2. CASE \E phi \in Phis(func, b) : w = PhiItem(phi)
      <4>1. PICK psi \in Phis(func, b) : w = PhiItem(psi)
        BY <3>2
      <4>2. QED
        BY <1>2, <4>1, ItemsDiffer DEF Owned
    <3>3. CASE \E k \in Nots(b) : w = NotItem(b, k)
      <4>1. PICK j \in Nots(b) : w = NotItem(b, j)
        BY <3>3
      <4>2. \A k \in Nots(c) : NotItem(c, k) # w
        BY <1>2, <4>1, ItemsDiffer DEF Owned
      <4>3. QED
        BY <4>1, <4>2, ItemsDiffer
    <3>4. CASE w = BrItem(b)
      BY <3>4, ItemsDiffer
    <3>5. QED
      BY <3>1, <3>2, <3>3, <3>4
  <2>2. Good(s, {} \cup {w})
    BY <1>1, GoodMore
  <2>3. Good(s, {} \ {w})
    BY <2>1, <2>2, Dropped
  <2>4. {} \ {w} = {}
    OBVIOUS
  <2>5. QED
    BY <1>1, <2>3, <2>4 DEF Sound
<1>8. {w} \ {w} = {}
  OBVIOUS
<1>9. CASE \E phi \in Phis(func, b) : w = PhiItem(phi)
  <2>1. PICK phi \in Phis(func, b) : w = PhiItem(phi)
    BY <1>9
  <2>2. w.kind = "phi" /\ w.at = phi
    BY <2>1 DEF PhiItem, Work
  <2>3. phi \in Results(func, b)
    BY DEF Results
  <2>4. Home(w) = b
    <3>1. Of(b) /\ \A d \in Blocks(func) : Of(d) => d = b
      BY <1>3, <2>2, <2>3
    <3> HIDE DEF Of
    <3>2. QED
      BY <1>6, <3>1
  <2>5. EvalWork(s, w) = IF b \notin s.exec THEN s ELSE eval_phi(s, phi, b)
    BY <2>2, <2>4, EvalWorkHome
  <2>6. Evaluated(s, eval_phi(s, phi, b), {w} \ {w})
    BY <2>1, EvalPhi
  <2>7. QED
    BY <1>7, <1>8, <2>5, <2>6 DEF Evaluated
<1>10. CASE \E k \in Nots(b) : w = NotItem(b, k)
  <2>1. PICK k \in Nots(b) : w = NotItem(b, k)
    BY <1>10
  <2>2. w.kind = "bnot" /\ w.at = func.body[b][k].res
    BY <2>1 DEF NotItem, Work
  <2>3. func.body[b][k].res \in Results(func, b)
    BY DEF Results, Nots, IsBnot
  <2>4. Home(w) = b
    <3>1. Of(b) /\ \A d \in Blocks(func) : Of(d) => d = b
      BY <1>3, <2>2, <2>3
    <3> HIDE DEF Of
    <3>2. QED
      BY <1>6, <3>1
  <2>5. Negation(b, w.at) = func.body[b][k]
    <3>1. func.body[b][k] \in ToSet(func.body[b]) /\ func.body[b][k].op = "bnot"
      BY DEF ToSet, Nots, IsBnot
    <3>2. ASSUME NEW i \in ToSet(func.body[b]), i.op = "bnot", i.res = w.at
          PROVE  i = func.body[b][k]
      <4>1. PICK j \in DOMAIN func.body[b] : i = func.body[b][j]
        BY DEF ToSet
      <4>2. j \in Nots(b)
        BY <3>2, <4>1 DEF Nots, IsBnot
      <4>3. j = k
        BY <1>2, <2>2, <3>2, <4>1, <4>2 DEF Owned
      <4>4. QED
        BY <4>1, <4>3
    <3>3. QED
      BY <2>2, <3>1, <3>2 DEF Negation
  <2>6. EvalWork(s, w) = IF b \notin s.exec THEN s ELSE eval_unary(s, func.body[b][k])
    BY <2>2, <2>4, <2>5, EvalWorkHome
  <2>7. Evaluated(s, eval_unary(s, func.body[b][k]), {w} \ {w})
    BY <2>1, EvalUnary
  <2>8. QED
    BY <1>7, <1>8, <2>6, <2>7 DEF Evaluated
<1>11. CASE w = BrItem(b)
  <2>1. w.kind = "br" /\ w.at = b
    BY <1>11 DEF BrItem, Work
  <2>2. Home(w) = b
    <3>1. Of(b) /\ \A d \in Blocks(func) : Of(d) => d = b
      BY <2>1
    <3> HIDE DEF Of
    <3>2. QED
      BY <1>6, <3>1
  <2>3. EvalWork(s, w) = IF b \notin s.exec THEN s ELSE eval_term(s, b)
    BY <2>1, <2>2, EvalWorkHome
  <2>4. b \in s.exec => Sound(eval_term(s, b), {w} \ {w})
    BY <1>11, EvalTerm
  <2>5. QED
    BY <1>7, <1>8, <2>3, <2>4
<1>12. QED
  BY <1>5, <1>9, <1>10, <1>11 DEF Items, PhiItems, NotItems

-----------------------------------------------------------------------------
(* The steps of the solver                                                 *)

\* At the start nothing is known, and nothing has been evaluated.
LEMMA StartIsSound ==
  ASSUME Fn
  PROVE  Sound(StartSolver(func, Params), {})
<1>1. PICK s : s = StartSolver(func, Params)
  OBVIOUS
<1>2. AllResults(func) \cup Consts \cup Params = Values
  BY DEF Values, Given
<1>3. /\ s.vals = [v \in Values |-> IF v \in Consts THEN v ELSE IF v \in Params THEN Top ELSE Bottom]
      /\ s.over = {} /\ s.insts = {} /\ s.blocks = {entry_block(func)} /\ s.turn = "blocks"
      /\ s.edges = [b \in DOMAIN func.term |-> {}] /\ s.exec = {entry_block(func)}
  BY <1>1, <1>2 DEF StartSolver, Idle
<1>4. entry_block(func) \in Blocks(func)
  BY FnFacts
<1>5. s.vals \in [Values -> Lattice]
  BY <1>3, LatticeFacts
<1>6. s \in Solvers
  <2>1. s = [vals |-> s.vals, over |-> s.over, insts |-> s.insts, blocks |-> s.blocks,
             turn |-> s.turn, edges |-> s.edges, exec |-> s.exec]
    BY <1>1 DEF StartSolver, Idle
  <2>2. /\ s.over \in SUBSET AllItems /\ s.insts \in SUBSET AllItems
        /\ s.blocks \in SUBSET Blocks(func) /\ s.exec \in SUBSET Blocks(func)
        /\ s.turn \in {"over", "insts", "blocks"}
        /\ s.edges \in [DOMAIN func.term -> SUBSET Blocks(func)]
    BY <1>3, <1>4
  <2>3. QED
    BY <1>5, <2>1, <2>2 DEF Solvers
<1>7. Typed(s)
  <2>1. \A p \in Blocks(func) : s.edges[p] = {}
    BY <1>3, FnFacts
  <2>2. \A c \in Consts : s.vals[c] = c
    BY <1>3 DEF Values, Given
  <2>3. \A p \in Params : s.vals[p] = Top
    BY <1>3, OptimizeAssumption DEF Values, Given
  <2>4. QED
    BY <1>3, <1>6, <2>1, <2>2, <2>3 DEF Typed
<1>8. Negated(s)
  <2>1. \A b \in Blocks(func) : \A k \in Nots(b) : s.vals[func.body[b][k].res] = Bottom
    <3>1. \A v \in AllResults(func) : v \in Values /\ v \notin Consts /\ v \notin Params
      BY DEF Fn, Formed, Given, Values
    <3>2. \A b \in Blocks(func) : \A k \in Nots(b) : func.body[b][k].res \in AllResults(func)
      BY FnFacts
    <3>3. QED
      BY <1>3, <3>1, <3>2
  <2>2. QED
    BY <2>1 DEF Negated
<1>9. Good(s, {})
  BY <1>3 DEF Good
<1>10. QED
  BY <1>1, <1>7, <1>8, <1>9 DEF Sound

\* Whose turn it is makes no difference.
LEMMA TurnIsSound ==
  ASSUME NEW s, Sound(s, {})
  PROVE  Sound(Turn(s), {})
<1>1. s \in Solvers /\ Typed(s) /\ Negated(s) /\ Good(s, {})
  BY DEF Sound, Typed
<1>2. s.turn \in {"over", "insts", "blocks"}
  BY <1>1 DEF Solvers
<1>3. PICK x : Turn(s) = [s EXCEPT !.turn = x] /\ x \in {"over", "insts", "blocks"}
  <2>1. PICK next : next = Behind[s.turn]
    OBVIOUS
  <2>2. PICK last : last = Behind[next]
    OBVIOUS
  <2>3. next \in {"over", "insts", "blocks"} /\ last \in {"over", "insts", "blocks"}
    BY <1>2, <2>1, <2>2 DEF Behind
  <2>4. PICK x : x = IF s[s.turn] # {} THEN s.turn ELSE IF s[next] # {} THEN next ELSE last
    OBVIOUS
  <2>5. Turn(s) = [s EXCEPT !.turn = x]
    BY <1>1, <2>1, <2>2, <2>4 DEF Turn, Solvers
  <2>6. QED
    BY <1>2, <2>3, <2>4, <2>5
<1>4. PICK t : t = Turn(s)
  OBVIOUS
<1>5. /\ t.vals = s.vals /\ t.over = s.over /\ t.insts = s.insts /\ t.blocks = s.blocks
      /\ t.edges = s.edges /\ t.exec = s.exec /\ t \in Solvers
  BY <1>1, <1>3, <1>4 DEF Solvers
<1>6. Typed(t) /\ Negated(t)
  BY <1>1, <1>5 DEF Typed, Negated
<1>7. Good(t, {})
  BY <1>1, <1>5 DEF Good, Queued, PhiSettled, Feasible, NotSettled, BrSettled, Chosen
<1>8. QED
  BY <1>4, <1>6, <1>7 DEF Sound

\* An entry that is taken from a list is to be evaluated.
LEMMA Taken ==
  ASSUME NEW s, NEW t, NEW w, Sound(s, {}), t \in Solvers,
         t.over \cup t.insts \cup {w} = s.over \cup s.insts \cup {w},
         t.vals = s.vals, t.edges = s.edges, t.exec = s.exec, t.blocks = s.blocks
  PROVE  Sound(t, {w})
<1>1. Typed(t) /\ Negated(t)
  BY DEF Sound, Typed, Negated
<1>2. Queued(s, {}) \subseteq Queued(t, {w})
  BY DEF Queued
<1>3. ASSUME NEW b \in t.exec \ t.blocks
      PROVE  /\ \A phi \in Phis(func, b) : PhiSettled(t, phi, b) \/ PhiItem(phi) \in Queued(t, {w})
             /\ \A k \in Nots(b) : NotSettled(t, func.body[b][k]) \/ NotItem(b, k) \in Queued(t, {w})
             /\ BrSettled(t, b) \/ BrItem(b) \in Queued(t, {w})
  <2>1. /\ \A phi \in Phis(func, b) : PhiSettled(s, phi, b) \/ PhiItem(phi) \in Queued(s, {})
        /\ \A k \in Nots(b) : NotSettled(s, func.body[b][k]) \/ NotItem(b, k) \in Queued(s, {})
        /\ BrSettled(s, b) \/ BrItem(b) \in Queued(s, {})
    BY DEF Sound, Good
  <2>2. \A phi \in Phis(func, b) : PhiSettled(s, phi, b) => PhiSettled(t, phi, b)
    BY DEF PhiSettled, Feasible
  <2>3. \A k \in Nots(b) : NotSettled(s, func.body[b][k]) => NotSettled(t, func.body[b][k])
    BY DEF NotSettled
  <2>4. BrSettled(s, b) => BrSettled(t, b)
    BY DEF BrSettled, Chosen
  <2>5. QED
    BY <1>2, <2>1, <2>2, <2>3, <2>4
<1>4. Good(t, {w})
  BY <1>3 DEF Good
<1>5. QED
  BY <1>1, <1>4 DEF Sound

\* What holds of the solver's state holds while the function stays as it is.
LEMMA SoundStays ==
  ASSUME func' = func, NEW s, Sound(s, {})
  PROVE  Sound(s, {})'
<1>1. Values' = Values
  BY DEF Values
<1>2. \A b : Nots(b)' = Nots(b)
  BY DEF Nots
<1>3. AllItems' = AllItems
  <2>1. \A b : PhiItems(b)' = PhiItems(b)
    BY DEF PhiItems, PhiItem
  <2>2. \A b : NotItems(b)' = NotItems(b)
    BY <1>2 DEF NotItems, NotItem
  <2>3. \A b : Items(b)' = Items(b)
    BY <2>1, <2>2 DEF Items, BrItem
  <2>4. QED
    BY <2>3 DEF AllItems
<1>4. Typed(s)'
  BY <1>1, <1>3 DEF Sound, Typed, Solvers
<1>5. Negated(s)'
  BY <1>2 DEF Sound, Negated
<1>6. \A b : \A phi : PhiSettled(s, phi, b)' <=> PhiSettled(s, phi, b)
  BY DEF PhiSettled, Feasible, Operand
<1>7. \A i : NotSettled(s, i)' <=> NotSettled(s, i)
  BY DEF NotSettled
<1>8. \A b : BrSettled(s, b)' <=> BrSettled(s, b)
  BY DEF BrSettled, Chosen
<1>9. Queued(s, {})' = Queued(s, {})
  BY DEF Queued
<1>10. \A b, k : NotItem(b, k)' = NotItem(b, k)
  BY DEF NotItem
<1>11. Good(s, {})'
  BY <1>2, <1>6, <1>7, <1>8, <1>9, <1>10 DEF Sound, Good, PhiItem, BrItem
<1>12. QED
  BY <1>4, <1>5, <1>11 DEF Sound

\* Before the solver has started, while it works, and after the rewriting.
Started == phase = "sccp" /\ \E s : s = Solver /\ Sound(s, {})

IInv ==
  \/ phase = "next" /\ passes = <<"sccp">> /\ Fn
  \/ Started /\ passes = <<>> /\ Fn
  \/ phase = "next" /\ passes = <<>>

\* What is stored is the solver's next state.
LEMMA Stored ==
  ASSUME NEW s, s \in Solvers, StoreSolver(s)
  PROVE  Solver' = s
<1>1. s = [vals |-> s.vals, over |-> s.over, insts |-> s.insts, blocks |-> s.blocks,
           turn |-> s.turn, edges |-> s.edges, exec |-> s.exec]
  BY DEF Solvers
<1>2. QED
  BY <1>1 DEF StoreSolver, Solver

LEMMA StartedNext ==
  ASSUME NEW s, Sound(s, {}), StoreSolver(s), func' = func, phase' = "sccp"
  PROVE  Started'
<1>1. Solver' = s
  BY Stored DEF Sound, Typed
<1>2. Sound(s, {})'
  BY SoundStays
<1>3. QED
  BY <1>1, <1>2 DEF Started

LEMMA FnStays ==
  ASSUME Fn, func' = func
  PROVE  Fn'
BY DEF Fn

\* The solver's state is sound before and after every step.
LEMMA Inductive ==
  ASSUME IInv, SolverNext \/ UNCHANGED vars
  PROVE  IInv'
<1>1. CASE UNCHANGED vars
  <2>1. /\ func' = func /\ phase' = phase /\ passes' = passes
        /\ vals' = vals /\ overdef_work_list' = overdef_work_list /\ inst_work_list' = inst_work_list
        /\ block_work_list' = block_work_list /\ draining' = draining
        /\ feasible_edges' = feasible_edges /\ executable_blocks' = executable_blocks
    BY <1>1 DEF vars, solver
  <2>2. CASE phase = "next" /\ passes = <<"sccp">> /\ Fn
    BY <2>1, <2>2, FnStays DEF IInv
  <2>3. CASE Started /\ passes = <<>> /\ Fn
    <3>1. PICK s : s = Solver /\ Sound(s, {})
      BY <2>3 DEF Started
    <3>2. Solver' = s /\ phase' = "sccp"
      BY <2>1, <2>3, <3>1 DEF Solver, Started
    <3>3. Sound(s, {})'
      BY <2>1, <3>1, SoundStays
    <3>4. Started'
      BY <3>2, <3>3 DEF Started
    <3>5. QED
      BY <2>1, <2>3, <3>4, FnStays DEF IInv
  <2>4. CASE phase = "next" /\ passes = <<>>
    BY <2>1, <2>4 DEF IInv
  <2>5. QED
    BY <2>2, <2>3, <2>4 DEF IInv
<1>2. CASE StartConstProp
  <2>1. /\ phase = "next" /\ passes # <<>> /\ passes' = Tail(passes) /\ phase' = "sccp"
        /\ func' = func /\ StoreSolver(StartSolver(func, Params))
    BY <1>2 DEF StartConstProp, Starts
  <2>2. passes = <<"sccp">> /\ Fn
    BY <2>1 DEF IInv, Started
  <2>3. passes' = <<>>
    BY <2>1, <2>2
  <2>4. PICK s : s = StartSolver(func, Params)
    OBVIOUS
  <2>5. Sound(s, {}) /\ StoreSolver(s)
    BY <2>1, <2>2, <2>4, StartIsSound
  <2>6. Started'
    BY <2>1, <2>5, StartedNext
  <2>7. QED
    BY <2>1, <2>2, <2>3, <2>6, FnStays DEF IInv
<1>3. ASSUME ConstPropNext, passes' = passes
      PROVE  IInv'
  <2>1. Started /\ passes = <<>> /\ Fn
    BY <1>3 DEF IInv, ConstPropNext, PopOverdef, PopInst, PopBlock, Propagate, Solving
  <2>2. PICK s : s = Solver /\ Sound(s, {})
    BY <2>1 DEF Started
  <2>3. s \in Solvers
    BY <2>2 DEF Sound, Typed
  <2>4. /\ s.vals = vals /\ s.over = overdef_work_list /\ s.insts = inst_work_list
        /\ s.blocks = block_work_list /\ s.turn = draining
        /\ s.edges = feasible_edges /\ s.exec = executable_blocks
    BY <2>2 DEF Solver
  <2>5. ASSUME NEW r, Sound(r, {}), StoreSolver(Turn(r)), func' = func, phase' = phase
        PROVE  IInv'
    <3>1. PICK t : t = Turn(r)
      OBVIOUS
    <3>2. Sound(t, {}) /\ StoreSolver(t)
      BY <2>5, <3>1, TurnIsSound
    <3>3. Started'
      BY <2>1, <2>5, <3>2, StartedNext DEF Started
    <3>4. QED
      BY <1>3, <2>1, <2>5, <3>3, FnStays DEF IInv
  <2>6. CASE PopOverdef
    <3>1. PICK w \in overdef_work_list :
            StoreSolver(Turn(EvalWork([Solver EXCEPT !.over = @ \ {w}], w)))
      BY <2>6 DEF PopOverdef
    <3>2. func' = func /\ phase' = phase
      BY <2>6 DEF PopOverdef
    <3>3. PICK t : t = [s EXCEPT !.over = @ \ {w}]
      OBVIOUS
    <3>4. /\ t.over = s.over \ {w} /\ t.insts = s.insts /\ t.vals = s.vals /\ t.edges = s.edges
          /\ t.exec = s.exec /\ t.blocks = s.blocks /\ w \in AllItems
      BY <2>3, <2>4, <3>1, <3>3 DEF Solvers
    <3>5. t \in Solvers
      <4>1. t.over \in SUBSET AllItems
        BY <2>3, <3>4 DEF Solvers
      <4>2. t = [s EXCEPT !.over = t.over]
        BY <2>3, <3>3, <3>4 DEF Solvers
      <4>3. QED
        BY <2>3, <4>1, <4>2 DEF Solvers
    <3>6. Sound(t, {w})
      BY <2>2, <3>4, <3>5, Taken
    <3>7. Sound(EvalWork(t, w), {})
      BY <2>1, <3>4, <3>6, EvaluateWork
    <3>8. StoreSolver(Turn(EvalWork(t, w)))
      BY <2>2, <3>1, <3>3
    <3>9. QED
      BY <2>5, <3>2, <3>7, <3>8
  <2>7. CASE PopInst
    <3>1. PICK w \in inst_work_list :
            StoreSolver(Turn(EvalWork([Solver EXCEPT !.insts = @ \ {w}], w)))
      BY <2>7 DEF PopInst
    <3>2. func' = func /\ phase' = phase
      BY <2>7 DEF PopInst
    <3>3. PICK t : t = [s EXCEPT !.insts = @ \ {w}]
      OBVIOUS
    <3>4. /\ t.over = s.over /\ t.insts = s.insts \ {w} /\ t.vals = s.vals /\ t.edges = s.edges
          /\ t.exec = s.exec /\ t.blocks = s.blocks /\ w \in AllItems
      BY <2>3, <2>4, <3>1, <3>3 DEF Solvers
    <3>5. t \in Solvers
      <4>1. t.insts \in SUBSET AllItems
        BY <2>3, <3>4 DEF Solvers
      <4>2. t = [s EXCEPT !.insts = t.insts]
        BY <2>3, <3>3, <3>4 DEF Solvers
      <4>3. QED
        BY <2>3, <4>1, <4>2 DEF Solvers
    <3>6. Sound(t, {w})
      BY <2>2, <3>4, <3>5, Taken
    <3>7. Sound(EvalWork(t, w), {})
      BY <2>1, <3>4, <3>6, EvaluateWork
    <3>8. StoreSolver(Turn(EvalWork(t, w)))
      BY <2>2, <3>1, <3>3
    <3>9. QED
      BY <2>5, <3>2, <3>7, <3>8
  <2>8. CASE PopBlock
    <3>1. PICK b \in block_work_list : StoreSolver(Turn(EvalBlock(Solver, b)))
      BY <2>8 DEF PopBlock
    <3>2. func' = func /\ phase' = phase
      BY <2>8 DEF PopBlock
    <3>3. Sound(EvalBlock(s, b), {})
      BY <2>1, <2>2, <2>4, <3>1, EvaluateBlock
    <3>4. StoreSolver(Turn(EvalBlock(s, b)))
      BY <2>2, <3>1
    <3>5. QED
      BY <2>5, <3>2, <3>3, <3>4
  <2>9. CASE Propagate
    BY <1>3, <2>1, <2>9 DEF Propagate, IInv
  <2>10. QED
    BY <1>3, <2>6, <2>7, <2>8, <2>9 DEF ConstPropNext
<1>4. QED
  BY <1>1, <1>2, <1>3 DEF SolverNext

-----------------------------------------------------------------------------
(* What a run computes                                                     *)

\* When the lists are empty every instruction of an executable block is settled.
Settled(s) ==
  \A b \in s.exec :
    /\ \A phi \in Phis(func, b) : PhiSettled(s, phi, b)
    /\ \A k \in Nots(b) : NotSettled(s, func.body[b][k])
    /\ BrSettled(s, b)

\* Of what a phi can take it knows something.
OperandsKnown(s) ==
  \A b \in s.exec : \A phi \in Phis(func, b) : \A p \in Feasible(s, phi, b) :
    s.vals[Operand(phi, p)] # Bottom

Solution(s) == Typed(s) /\ Settled(s) /\ OperandsKnown(s)

\* The values of a run are what the solver takes them for.
Right(s, x) ==
  \A v \in DOMAIN x : v \in Values /\ x[v] \in Consts /\ (s.vals[v] = Top \/ s.vals[v] = x[v])

IsRun(r) == r = [at |-> r.at, from |-> r.from, out |-> r.out, bad |-> r.bad, vals |-> r.vals]

Before(b) == Available(func)[b]

\* A run that is on its way to an executable block, over a feasible edge.
OnTrack(s, r) ==
  /\ IsRun(r) /\ r.bad = FALSE /\ Right(s, r.vals) /\ Given \subseteq DOMAIN r.vals
  /\ \/ r.at = None
     \/ /\ r.at \in s.exec
        /\ \/ r.from = None /\ r.at = entry_block(func)
           \/ /\ r.from \in s.exec /\ r.at \in s.edges[r.from]
              /\ Before(r.from) \cup Results(func, r.from) \subseteq DOMAIN r.vals

\* Values that were computed take the place of older ones.
LEMMA TableIs ==
  ASSUME NEW g
  PROVE  Table(g) = g
BY DEF Table

LEMMA Overriding ==
  ASSUME NEW s, NEW x, NEW y, Right(s, x), Right(s, y), NEW w, w = Override(x, y)
  PROVE  Right(s, w) /\ DOMAIN w = DOMAIN x \cup DOMAIN y
<1>1. Override(x, y) = [v \in DOMAIN x \cup DOMAIN y |-> IF v \in DOMAIN x THEN x[v] ELSE y[v]]
  BY TableIs DEF Override
<1>2. /\ DOMAIN w = DOMAIN x \cup DOMAIN y
      /\ \A v \in DOMAIN x \cup DOMAIN y : w[v] = IF v \in DOMAIN x THEN x[v] ELSE y[v]
  BY <1>1
<1>3. Right(s, w)
  BY <1>2 DEF Right
<1>4. QED
  BY <1>2, <1>3

\* What has been computed where a run is.
LEMMA HasBefore ==
  ASSUME Fn, NEW s, Typed(s), NEW r, OnTrack(s, r), r.at # None
  PROVE  Before(r.at) \subseteq DOMAIN r.vals
<1>1. CASE r.from = None /\ r.at = entry_block(func)
  BY <1>1 DEF OnTrack, Before, Fn, Strict
<1>2. CASE /\ r.from \in s.exec /\ r.at \in s.edges[r.from]
           /\ Before(r.from) \cup Results(func, r.from) \subseteq DOMAIN r.vals
  <2>1. r.from \in Blocks(func) /\ r.at \in ToSet(func.term[r.from].dst)
    BY <1>2 DEF Typed, Solvers
  <2>2. Available(func)[r.at] \subseteq Available(func)[r.from] \cup Results(func, r.from)
    BY <2>1 DEF Fn, Strict
  <2>3. QED
    BY <1>2, <2>2 DEF Before
<1>3. QED
  BY <1>1, <1>2 DEF OnTrack

\* What the phis of a block take.
PhiValues(r) ==
  [phi \in Phis(func, r.at) |->
     IF r.from \in DOMAIN func.edges[phi] THEN Read(r.vals, func.edges[phi][r.from]) ELSE Poison]

LEMMA PhisRight ==
  ASSUME Fn, NEW s, Solution(s), NEW r, OnTrack(s, r), r.at # None
  PROVE  Right(s, PhiValues(r))
<1>1. PICK b, p, x : b = r.at /\ p = r.from /\ x = PhiValues(r)
  OBVIOUS
<1>2. b \in s.exec /\ b \in Blocks(func)
  BY <1>1 DEF OnTrack, Solution, Typed, Solvers
<1>3. CASE p = None /\ b = entry_block(func)
  <2>1. Phis(func, b) = {}
    <3>1. func.phis[b] = <<>>
      BY <1>3 DEF Fn, Strict
    <3>2. QED
      BY <3>1 DEF Phis, ToSet
  <2>2. DOMAIN x = {}
    BY <1>1, <2>1 DEF PhiValues
  <2>3. QED
    BY <1>1, <2>2 DEF Right
<1>4. CASE /\ p \in s.exec /\ b \in s.edges[p]
           /\ Before(p) \cup Results(func, p) \subseteq DOMAIN r.vals
  <2>1. p \in Blocks(func) /\ b \in ToSet(func.term[p].dst)
    BY <1>4 DEF Solution, Typed, Solvers
  <2>2. ASSUME NEW phi \in Phis(func, b)
        PROVE  phi \in Values /\ x[phi] \in Consts /\ (s.vals[phi] = Top \/ s.vals[phi] = x[phi])
    <3>1. /\ p \in DOMAIN func.edges[phi]
          /\ Operand(phi, p) \in Available(func)[p] \cup Results(func, p)
      BY <2>1 DEF Fn, Strict, Operand
    <3>2. Operand(phi, p) \in DOMAIN r.vals
      BY <1>4, <3>1 DEF Before
    <3>3. x[phi] = r.vals[Operand(phi, p)]
      BY <1>1, <3>1, <3>2 DEF PhiValues, Read, Operand
    <3>4. /\ x[phi] \in Consts
          /\ s.vals[Operand(phi, p)] = Top \/ s.vals[Operand(phi, p)] = x[phi]
      BY <3>2, <3>3 DEF OnTrack, Right
    <3>5. p \in Feasible(s, phi, b)
      BY <1>4, <3>1 DEF Feasible
    <3>6. PhiSettled(s, phi, b) /\ \A q \in Feasible(s, phi, b) : s.vals[Operand(phi, q)] # Bottom
      BY <1>2 DEF Solution, Settled, OperandsKnown
    <3>7. phi \in Values
      BY <1>2, FnFacts DEF Values
    <3>8. QED
      BY <3>4, <3>5, <3>6, <3>7 DEF PhiSettled
  <2>3. DOMAIN x = Phis(func, b)
    BY <1>1 DEF PhiValues
  <2>4. QED
    BY <1>1, <2>2, <2>3 DEF Right
<1>5. QED
  BY <1>1, <1>3, <1>4 DEF OnTrack

\* One instruction.
LEMMA ExecRight ==
  ASSUME Fn, NEW s, Solution(s), NEW b \in s.exec, NEW k \in DOMAIN func.body[b],
         NEW r, IsRun(r), Right(s, r.vals), func.body[b][k].arg \in DOMAIN r.vals
  PROVE  LET t == Exec(r, func.body[b][k])
         IN  /\ IsRun(t) /\ Right(s, t.vals) /\ DOMAIN r.vals \subseteq DOMAIN t.vals
             /\ t.at = r.at /\ t.from = r.from /\ t.bad = r.bad
             /\ k \in Nots(b) => func.body[b][k].res \in DOMAIN t.vals
<1>1. PICK i, t : i = func.body[b][k] /\ t = Exec(r, i)
  OBVIOUS
<1>2. b \in Blocks(func)
  BY DEF Solution, Typed, Solvers
<1>3. i.op \in {"bnot", "call"}
  BY <1>1, <1>2, FnFacts
<1>4. CASE i.op = "call"
  <2>1. PICK o : o = Append(r.out, <<i.res, Read(r.vals, i.arg)>>)
    OBVIOUS
  <2>2. t = [r EXCEPT !.out = o]
    BY <1>1, <1>4, <2>1 DEF Exec
  <2>3. t = [at |-> r.at, from |-> r.from, out |-> o, bad |-> r.bad, vals |-> r.vals]
    BY <2>2 DEF IsRun
  <2>4. k \notin Nots(b)
    BY <1>1, <1>4 DEF Nots, IsBnot
  <2>5. t.vals = r.vals /\ t.at = r.at /\ t.from = r.from /\ t.bad = r.bad /\ IsRun(t)
    BY <2>3 DEF IsRun
  <2>6. QED
    BY <1>1, <2>4, <2>5
<1>5. CASE i.op = "bnot"
  <2>1. PICK x : x = r.vals[i.arg]
    OBVIOUS
  <2>2. Read(r.vals, i.arg) = x /\ x \in Consts /\ (s.vals[i.arg] = Top \/ s.vals[i.arg] = x)
    BY <1>1, <2>1 DEF Read, Right
  <2>3. PICK y : y = Bnot(x)
    OBVIOUS
  <2>4. y \in Consts
    BY <2>2, <2>3 DEF Consts, FalseVal, TrueVal, Bnot, Poison
  <2>5. PICK w : w = [v \in DOMAIN r.vals \cup {i.res} |-> IF v = i.res THEN y ELSE r.vals[v]]
    OBVIOUS
  <2>6. t = [r EXCEPT !.vals = Table([v \in DOMAIN r.vals \cup {i.res} |-> IF v = i.res THEN y ELSE r.vals[v]])]
    BY <1>1, <1>5, <2>2, <2>3 DEF Exec
  <2>7. t = [r EXCEPT !.vals = w]
    BY <2>5, <2>6, TableIs
  <2>8. k \in Nots(b)
    BY <1>1, <1>5 DEF Nots, IsBnot
  <2>9. NotSettled(s, i)
    BY <1>1, <2>8 DEF Solution, Settled
  <2>10. s.vals[i.res] = Top \/ s.vals[i.res] = y
    BY <2>2, <2>3, <2>9, LatticeFacts DEF NotSettled, Elem
  <2>11. i.res \in Values
    BY <1>1, <1>2, <2>8, FnFacts DEF Values
  <2>12. DOMAIN w = DOMAIN r.vals \cup {i.res} /\ \A v \in DOMAIN w : w[v] = IF v = i.res THEN y ELSE r.vals[v]
    BY <2>5
  <2>13. \A v \in DOMAIN w : v \in Values /\ w[v] \in Consts /\ (s.vals[v] = Top \/ s.vals[v] = w[v])
    BY <2>4, <2>10, <2>11, <2>12 DEF Right
  <2>14. Right(s, w) /\ DOMAIN w = {i.res} \cup DOMAIN r.vals
    BY <2>12, <2>13 DEF Right
  <2>15. t = [at |-> r.at, from |-> r.from, out |-> r.out, bad |-> r.bad, vals |-> w]
    BY <2>7 DEF IsRun
  <2>16. t.vals = w /\ t.at = r.at /\ t.from = r.from /\ t.bad = r.bad /\ IsRun(t)
    BY <2>15 DEF IsRun
  <2>17. QED
    BY <1>1, <2>14, <2>16
<1>6. QED
  BY <1>3, <1>4, <1>5

\* A block, from behind its phis to its terminator.
Ran(s, b, base, k, t) ==
  /\ IsRun(t) /\ Right(s, t.vals) /\ DOMAIN base.vals \subseteq DOMAIN t.vals
  /\ t.at = base.at /\ t.from = base.from /\ t.bad = base.bad
  /\ \A j \in Nots(b) : j <= k => func.body[b][j].res \in DOMAIN t.vals

LEMMA BodyRight ==
  ASSUME Fn, NEW s, Solution(s), NEW b \in s.exec,
         NEW base, IsRun(base), Right(s, base.vals), Before(b) \cup Phis(func, b) \subseteq DOMAIN base.vals
  PROVE  \E n \in Nat : /\ DOMAIN func.body[b] = 1 .. n
                        /\ Ran(s, b, base, n, FoldLeft(Exec, base, func.body[b]))
<1>1. b \in Blocks(func)
  BY DEF Solution, Typed, Solvers
<1>2. PICK n \in Nat : DOMAIN func.body[b] = 1 .. n
  BY <1>1, FnFacts
<1>3. PICK h : /\ h[0] = base
               /\ \A k \in 1 .. n : h[k] = Exec(h[k - 1], func.body[b][k])
               /\ FoldLeft(Exec, base, func.body[b]) = h[n]
  <2>1. PICK h : ExecInTurn(base, func.body[b], n, h)
    BY <1>2, ExecFold
  <2>2. QED
    BY <2>1 DEF ExecInTurn
<1>4. \A j \in Nots(b) : j \in 1 .. n /\ IsBnot(func.body[b][j])
  BY <1>2 DEF Nots
<1>5. Ran(s, b, base, 0, h[0])
  BY <1>3, <1>4 DEF Ran
<1>6. ASSUME NEW k \in 1 .. n, Ran(s, b, base, k - 1, h[k - 1])
      PROVE  Ran(s, b, base, k, h[k])
  <2>1. PICK i, u, t : i = func.body[b][k] /\ u = h[k - 1] /\ t = h[k]
    OBVIOUS
  <2>2. t = Exec(u, i)
    BY <1>3, <2>1
  <2>3. i.arg \in DOMAIN u.vals
    <3>1. i.arg \in Before(b) \cup Phis(func, b)
            \cup {func.body[b][j].res : j \in {j \in 1 .. k - 1 : IsBnot(func.body[b][j])}}
      BY <1>1, <1>2, <2>1 DEF Fn, Strict, Before
    <3>2. Before(b) \cup Phis(func, b) \subseteq DOMAIN u.vals
      BY <1>6, <2>1 DEF Ran
    <3>3. ASSUME NEW j \in 1 .. k - 1, IsBnot(func.body[b][j])
          PROVE  func.body[b][j].res \in DOMAIN u.vals
      <4>1. j \in 1 .. n /\ j <= k - 1
        OBVIOUS
      <4>2. j \in Nots(b)
        BY <1>2, <3>3, <4>1 DEF Nots
      <4>3. QED
        BY <1>6, <2>1, <4>1, <4>2 DEF Ran
    <3>4. QED
      BY <3>1, <3>2, <3>3
  <2>4. IsRun(u) /\ Right(s, u.vals)
    BY <1>6, <2>1 DEF Ran
  <2>5. /\ IsRun(t) /\ Right(s, t.vals) /\ DOMAIN u.vals \subseteq DOMAIN t.vals
        /\ t.at = u.at /\ t.from = u.from /\ t.bad = u.bad
        /\ k \in Nots(b) => i.res \in DOMAIN t.vals
    BY <1>2, <2>1, <2>2, <2>3, <2>4, ExecRight
  <2>6. \A j \in Nots(b) : j <= k => j <= k - 1 \/ j = k
    BY <1>4
  <2>7. /\ DOMAIN base.vals \subseteq DOMAIN u.vals
        /\ u.at = base.at /\ u.from = base.from /\ u.bad = base.bad
        /\ \A j \in Nots(b) : j <= k - 1 => func.body[b][j].res \in DOMAIN u.vals
    BY <1>6, <2>1 DEF Ran
  <2>8. \A j \in Nots(b) : j <= k => func.body[b][j].res \in DOMAIN t.vals
    BY <2>1, <2>5, <2>6, <2>7
  <2>9. Ran(s, b, base, k, t)
    BY <2>5, <2>7, <2>8 DEF Ran
  <2>10. QED
    BY <2>1, <2>9
<1>7. Ran(s, b, base, n, h[n])
  <2> SUFFICES ASSUME ~Ran(s, b, base, n, h[n]) PROVE FALSE
    OBVIOUS
  <2>1. PICK T : T = {k \in Nat : k <= n /\ ~Ran(s, b, base, k, h[k])}
    OBVIOUS
  <2>2. T \in SUBSET Nat /\ n \in T
    BY <2>1
  <2>3. PICK m \in T : \A k \in T : m <= k
    BY <2>2, LeastNat
  <2>4. m \in Nat /\ m <= n /\ ~Ran(s, b, base, m, h[m])
    BY <2>1, <2>3
  <2>5. m # 0
    BY <1>5, <2>4
  <2>6. m - 1 \in Nat /\ m - 1 <= n /\ m \in 1 .. n /\ ~(m <= m - 1)
    BY <2>4, <2>5
  <2>7. Ran(s, b, base, m - 1, h[m - 1])
    BY <2>1, <2>3, <2>6
  <2>8. QED
    BY <1>6, <2>4, <2>6, <2>7
<1>8. QED
  BY <1>2, <1>3, <1>7

\* What a block computes: its phis and negations.
LEMMA ResultsComputed ==
  ASSUME NEW b, NEW n \in Nat, DOMAIN func.body[b] = 1 .. n, NEW D, Phis(func, b) \subseteq D,
         \A j \in Nots(b) : j <= n => func.body[b][j].res \in D
  PROVE  Results(func, b) \subseteq D
<1>1. \A j \in DOMAIN func.body[b] : func.body[b][j].op = "bnot" => j \in Nots(b) /\ j <= n
  BY DEF Nots, IsBnot
<1>2. QED
  BY <1>1 DEF Results

\* Where a run goes next.
Target(r, t) ==
  IF IsExit(func, r.at) THEN None
  ELSE IF IsJump(func, r.at) THEN func.term[r.at].dst[1]
  ELSE func.term[r.at].dst[IF Read(t.vals, func.term[r.at].cond) = TrueVal THEN 1 ELSE 2]

LEMMA TargetRight ==
  ASSUME Fn, NEW s, Solution(s), NEW r, r.at \in s.exec, NEW t, Right(s, t.vals),
         Before(r.at) \cup Results(func, r.at) \subseteq DOMAIN t.vals
  PROVE  /\ Target(r, t) = None \/ Target(r, t) \in s.edges[r.at]
         /\ IsBranch(func, r.at) => Read(t.vals, func.term[r.at].cond) # Poison
<1>1. PICK b : b = r.at
  OBVIOUS
<1>2. b \in s.exec /\ b \in Blocks(func)
  BY <1>1 DEF Solution, Typed, Solvers
<1>3. BrSettled(s, b)
  BY <1>2 DEF Solution, Settled
<1>4. CASE IsExit(func, b)
  <2>1. ~IsBranch(func, b)
    BY <1>2, <1>4, TermShape
  <2>2. QED
    BY <1>1, <1>4, <2>1 DEF Target
<1>5. CASE IsJump(func, b)
  <2>1. /\ ~IsBranch(func, b) /\ ~IsExit(func, b)
        /\ func.term[b].dst[1] \in ToSet(func.term[b].dst)
    BY <1>2, <1>5, TermShape
  <2>2. func.term[b].dst[1] \in s.edges[b]
    BY <1>3, <2>1 DEF BrSettled, Chosen
  <2>3. QED
    BY <1>1, <1>5, <2>1, <2>2 DEF Target
<1>6. CASE IsBranch(func, b)
  <2>1. /\ ~IsJump(func, b) /\ ~IsExit(func, b)
        /\ func.term[b].dst[1] \in ToSet(func.term[b].dst)
        /\ func.term[b].dst[2] \in ToSet(func.term[b].dst)
    BY <1>2, <1>6, TermShape
  <2>2. PICK c : c = func.term[b].cond
    OBVIOUS
  <2>3. c \in DOMAIN t.vals
    <3>1. c \in Available(func)[b] \cup Results(func, b)
      BY <1>2, <1>6, <2>2 DEF Fn, Strict
    <3>2. QED
      BY <1>1, <3>1 DEF Before
  <2>4. PICK x : x = t.vals[c]
    OBVIOUS
  <2>5. Read(t.vals, c) = x /\ x \in Consts /\ (s.vals[c] = Top \/ s.vals[c] = x)
    BY <2>3, <2>4 DEF Read, Right
  <2>6. PICK d : d = func.term[b].dst[IF x = TrueVal THEN 1 ELSE 2]
    OBVIOUS
  <2>7. d \in ToSet(func.term[b].dst)
    BY <2>1, <2>6
  <2>8. Chosen(s, b, d)
    BY <2>2, <2>5, <2>6, LatticeFacts DEF Chosen
  <2>9. d \in s.edges[b]
    BY <1>3, <2>7, <2>8 DEF BrSettled
  <2>10. Target(r, t) = d
    BY <1>1, <2>1, <2>2, <2>5, <2>6 DEF Target
  <2>11. x # Poison
    BY <2>5 DEF Consts, FalseVal, TrueVal, Poison
  <2>12. QED
    BY <1>1, <2>2, <2>5, <2>9, <2>10, <2>11
<1>7. QED
  BY <1>1, <1>2, <1>4, <1>5, <1>6, TermShape

\* A block keeps a run on its track.
LEMMA RunBlockRight ==
  ASSUME Fn, NEW s, Solution(s), NEW r, OnTrack(s, r), r.at # None
  PROVE  OnTrack(s, RunBlock(func, r))
<1>1. PICK b : b = r.at
  OBVIOUS
<1>2. b \in s.exec /\ b \in Blocks(func)
  BY <1>1 DEF OnTrack, Solution, Typed, Solvers
<1>3. PICK w : w = Override(PhiValues(r), r.vals)
  OBVIOUS
<1>4. Right(s, w) /\ DOMAIN w = Phis(func, b) \cup DOMAIN r.vals
  <2>1. PICK x, y : x = PhiValues(r) /\ y = r.vals
    OBVIOUS
  <2>2. DOMAIN x = Phis(func, b)
    BY <1>1, <2>1 DEF PhiValues
  <2>3. Right(s, x) /\ Right(s, y)
    BY <2>1, PhisRight DEF OnTrack
  <2>4. w = Override(x, y)
    BY <1>3, <2>1
  <2>5. Right(s, w) /\ DOMAIN w = DOMAIN x \cup DOMAIN y
    BY <2>3, <2>4, Overriding
  <2>6. QED
    BY <2>1, <2>2, <2>5
<1>5. PICK base : base = [r EXCEPT !.vals = w]
  OBVIOUS
<1>6. base.vals = w /\ base.at = b /\ base.from = r.from /\ base.bad = FALSE /\ IsRun(base)
  <2>1. IsRun(r) /\ r.bad = FALSE
    BY DEF OnTrack
  <2>2. base = [at |-> r.at, from |-> r.from, out |-> r.out, bad |-> r.bad, vals |-> w]
    BY <1>5, <2>1 DEF IsRun
  <2>3. QED
    BY <1>1, <2>1, <2>2 DEF IsRun
<1>7. Before(b) \cup Phis(func, b) \subseteq DOMAIN base.vals
  BY <1>1, <1>4, <1>6, HasBefore DEF Solution
<1>8. PICK t : t = FoldLeft(Exec, base, func.body[b])
  OBVIOUS
<1>9. PICK n \in Nat : DOMAIN func.body[b] = 1 .. n /\ Ran(s, b, base, n, t)
  BY <1>2, <1>4, <1>6, <1>7, <1>8, BodyRight
<1>10. /\ IsRun(t) /\ Right(s, t.vals) /\ DOMAIN base.vals \subseteq DOMAIN t.vals
       /\ t.at = b /\ t.from = r.from /\ t.bad = FALSE
  BY <1>6, <1>9 DEF Ran
<1>11. Results(func, b) \subseteq DOMAIN t.vals
  <2>1. Phis(func, b) \subseteq DOMAIN t.vals
    BY <1>7, <1>10
  <2>2. \A j \in Nots(b) : j <= n => func.body[b][j].res \in DOMAIN t.vals
    BY <1>9 DEF Ran
  <2>3. QED
    BY <1>9, <2>1, <2>2, ResultsComputed
<1>12. Before(b) \cup Results(func, b) \subseteq DOMAIN t.vals
  BY <1>7, <1>10, <1>11
<1>13. PICK to : to = Target(r, t)
  OBVIOUS
<1>14. /\ to = None \/ to \in s.edges[b]
       /\ IsBranch(func, b) => Read(t.vals, func.term[b].cond) # Poison
  BY <1>1, <1>2, <1>10, <1>12, <1>13, TargetRight
<1>15. to = None \/ to \in s.exec
  <2>1. s.edges[b] \subseteq s.exec
    BY <1>2 DEF Solution, Typed
  <2>2. QED
    BY <1>14, <2>1
<1>16. to \in Blocks(func) \cup {None}
  BY <1>15 DEF Solution, Typed, Solvers
<1>17. PICK u : u = RunBlock(func, r)
  OBVIOUS
<1>18. u = [t EXCEPT !.at = to, !.from = b, !.bad = FALSE]
  <2>1. Table(PhiValues(r)) = PhiValues(r)
    BY TableIs
  <2>2. base = [r EXCEPT !.vals = Override(Table(PhiValues(r)), r.vals)]
    BY <1>3, <1>5, <2>1
  <2>3. u = [t EXCEPT !.at = to, !.from = b,
                      !.bad = t.bad \/ (IsBranch(func, b) /\ Read(t.vals, func.term[b].cond) = Poison)
                              \/ to \notin Blocks(func) \cup {None}]
    BY <1>1, <1>8, <1>13, <1>17, <2>2 DEF RunBlock, PhiValues, Target
  <2>4. (t.bad \/ (IsBranch(func, b) /\ Read(t.vals, func.term[b].cond) = Poison)
               \/ to \notin Blocks(func) \cup {None}) = FALSE
    BY <1>10, <1>14, <1>16
  <2>5. QED
    BY <2>3, <2>4
<1>19. u = [at |-> to, from |-> b, out |-> t.out, bad |-> FALSE, vals |-> t.vals]
  BY <1>10, <1>18 DEF IsRun
<1>20. u.at = to /\ u.from = b /\ u.bad = FALSE /\ u.vals = t.vals /\ IsRun(u)
  BY <1>19 DEF IsRun
<1>21. Given \subseteq DOMAIN t.vals
  BY <1>4, <1>6, <1>10 DEF OnTrack
<1>22. u.at = None \/ (u.at \in s.exec /\ u.from \in s.exec /\ u.at \in s.edges[u.from])
  BY <1>2, <1>14, <1>15, <1>20
<1>23. Before(u.from) \cup Results(func, u.from) \subseteq DOMAIN u.vals
  BY <1>12, <1>20
<1>24. OnTrack(s, u)
  BY <1>10, <1>20, <1>21, <1>22, <1>23 DEF OnTrack
<1>25. QED
  BY <1>17, <1>24

\* A run starts on its track.
StartOf(e) == [at |-> entry_block(func), from |-> None, out |-> <<>>, bad |-> FALSE,
               vals |-> Override(e, [c \in Consts |-> c])]

LEMMA StartRight ==
  ASSUME Fn, NEW s, Typed(s), NEW e \in Valuations
  PROVE  OnTrack(s, StartOf(e))
<1>1. PICK y : y = [c \in Consts |-> c]
  OBVIOUS
<1>2. PICK w : w = Override(e, y)
  OBVIOUS
<1>3. PICK r : r = StartOf(e)
  OBVIOUS
<1>4. r = [at |-> entry_block(func), from |-> None, out |-> <<>>, bad |-> FALSE, vals |-> w]
  BY <1>1, <1>2, <1>3 DEF StartOf
<1>5. /\ r.at = entry_block(func) /\ r.from = None /\ r.bad = FALSE /\ r.vals = w /\ IsRun(r)
  BY <1>4 DEF IsRun
<1>6. Right(s, e) /\ DOMAIN e = Params
  <2>1. DOMAIN e = Params /\ \A p \in Params : e[p] \in {FalseVal, TrueVal}
    BY DEF Valuations
  <2>2. \A p \in Params : p \in Values /\ s.vals[p] = Top
    BY DEF Typed, Values, Given
  <2>3. QED
    BY <2>1, <2>2 DEF Right, Consts
<1>7. Right(s, y) /\ DOMAIN y = Consts
  <2>1. DOMAIN y = Consts /\ \A c \in Consts : y[c] = c
    BY <1>1
  <2>2. \A c \in Consts : c \in Values /\ s.vals[c] = c
    BY DEF Typed, Values, Given
  <2>3. QED
    BY <2>1, <2>2 DEF Right
<1>8. Right(s, w) /\ DOMAIN w = Params \cup Consts
  BY <1>2, <1>6, <1>7, Overriding
<1>9. entry_block(func) \in s.exec
  BY DEF Typed
<1>10. QED
  BY <1>3, <1>5, <1>8, <1>9 DEF OnTrack, Given

\* The blocks a run goes through, one after the other.
Advance(x) == IF x.at = None \/ x.bad THEN x ELSE RunBlock(func, x)

Trace(e, m, g) == g = [n \in 0 .. m |-> IF n = 0 THEN StartOf(e) ELSE Advance(g[n - 1])]

LEMMA TraceExists ==
  ASSUME NEW e, NEW n \in Nat
  PROVE  \E g : Trace(e, n, g)
<1> DEFINE T == {m \in Nat : ~\E g : Trace(e, m, g)}
<1>1. \E g : Trace(e, 0, g)
  <2>1. PICK g : g = [k \in 0 .. 0 |-> StartOf(e)]
    OBVIOUS
  <2>2. Trace(e, 0, g)
    BY <2>1 DEF Trace
  <2>3. QED
    BY <2>2
<1>2. ASSUME NEW m \in Nat \ {0}, NEW g, Trace(e, m - 1, g)
      PROVE  \E f : Trace(e, m, f)
  <2>1. PICK f : f = [k \in 0 .. m |-> IF k = m THEN Advance(g[m - 1]) ELSE g[k]]
    OBVIOUS
  <2>2. \A k \in 0 .. m - 1 : g[k] = IF k = 0 THEN StartOf(e) ELSE Advance(g[k - 1])
    BY <1>2 DEF Trace
  <2>3. \A k \in 0 .. m - 1 : f[k] = g[k]
    BY <2>1
  <2>4. f[m] = Advance(g[m - 1]) /\ m # 0 /\ m - 1 \in 0 .. m - 1
    BY <2>1
  <2>5. ASSUME NEW k \in 0 .. m
        PROVE  f[k] = IF k = 0 THEN StartOf(e) ELSE Advance(f[k - 1])
    <3>1. CASE k = m
      BY <2>3, <2>4, <3>1
    <3>2. CASE k # m
      <4>1. k \in 0 .. m - 1 /\ (k # 0 => k - 1 \in 0 .. m - 1)
        BY <3>2
      <4>2. QED
        BY <2>2, <2>3, <4>1
    <3>3. QED
      BY <3>1, <3>2
  <2>6. f = [k \in 0 .. m |-> f[k]]
    BY <2>1
  <2>7. Trace(e, m, f)
    BY <2>5, <2>6 DEF Trace
  <2>8. QED
    BY <2>7
<1>3. \E g : Trace(e, n, g)
  <2> SUFFICES ASSUME ~\E g : Trace(e, n, g) PROVE FALSE
    OBVIOUS
  <2>1. T \in SUBSET Nat /\ n \in T
    OBVIOUS
  <2>2. PICK m \in T : \A k \in T : m <= k
    <3> HIDE DEF T
    <3>1. QED
      BY <2>1, LeastNat
  <2>3. m \in Nat /\ ~\E g : Trace(e, m, g)
    OBVIOUS
  <2>4. m # 0
    BY <1>1, <2>3
  <2>5. m - 1 \in Nat /\ m - 1 \notin T
    <3> HIDE DEF T
    <3>1. QED
      BY <2>2, <2>3, <2>4
  <2>6. PICK g : Trace(e, m - 1, g)
    BY <2>5
  <2>7. QED
    BY <1>2, <2>3, <2>4, <2>6
<1>4. QED
  BY <1>3

LEMMA RunTraced ==
  ASSUME NEW e
  PROVE  \E u : Trace(e, Fuel, u) /\ Run(func, e, Fuel) = u[Fuel]
<1>1. PICK g : Trace(e, Fuel, g)
  BY TraceExists, OptimizeAssumption
<1>2. PICK u : u = CHOOSE f : Trace(e, Fuel, f)
  OBVIOUS
<1>3. Trace(e, Fuel, u)
  BY <1>1, <1>2
<1>4. Run(func, e, Fuel) = u[Fuel]
  BY <1>2 DEF Run, Trace, StartOf, Advance
<1>5. QED
  BY <1>3, <1>4

\* No run leaves its track.
LEMMA RunRight ==
  ASSUME Fn, NEW s, Solution(s), NEW e \in Valuations
  PROVE  OnTrack(s, Run(func, e, Fuel))
<1>1. Fuel \in Nat
  BY OptimizeAssumption
<1>2. PICK u : Trace(e, Fuel, u) /\ Run(func, e, Fuel) = u[Fuel]
  BY RunTraced
<1>3. /\ u[0] = StartOf(e)
      /\ \A k \in 1 .. Fuel : u[k] = Advance(u[k - 1])
  <2>1. \A k \in 0 .. Fuel : u[k] = IF k = 0 THEN StartOf(e) ELSE Advance(u[k - 1])
    BY <1>2 DEF Trace
  <2>2. 0 \in 0 .. Fuel /\ \A k \in 1 .. Fuel : k \in 0 .. Fuel /\ k # 0
    BY <1>1
  <2>3. QED
    BY <2>1, <2>2
<1>4. OnTrack(s, u[0])
  BY <1>3, StartRight DEF Solution
<1>5. ASSUME NEW x, OnTrack(s, x)
      PROVE  OnTrack(s, Advance(x))
  <2>1. x.bad = FALSE
    BY <1>5 DEF OnTrack
  <2>2. CASE x.at = None
    BY <1>5, <2>2 DEF Advance
  <2>3. CASE x.at # None
    BY <1>5, <2>1, <2>3, RunBlockRight DEF Advance
  <2>4. QED
    BY <2>2, <2>3
<1>6. OnTrack(s, u[Fuel])
  <2> SUFFICES ASSUME ~OnTrack(s, u[Fuel]) PROVE FALSE
    OBVIOUS
  <2>1. PICK T : T = {k \in Nat : k <= Fuel /\ ~OnTrack(s, u[k])}
    OBVIOUS
  <2>2. T \in SUBSET Nat /\ Fuel \in T
    BY <1>1, <2>1
  <2>3. PICK m \in T : \A k \in T : m <= k
    BY <2>2, LeastNat
  <2>4. m \in Nat /\ m <= Fuel /\ ~OnTrack(s, u[m])
    BY <2>1, <2>3
  <2>5. m # 0
    BY <1>4, <2>4
  <2>6. m - 1 \in Nat /\ m - 1 <= Fuel /\ m \in 1 .. Fuel /\ ~(m <= m - 1)
    BY <1>1, <2>4, <2>5
  <2>7. OnTrack(s, u[m - 1])
    BY <2>1, <2>3, <2>6
  <2>8. u[m] = Advance(u[m - 1])
    BY <1>3, <2>6
  <2>9. QED
    BY <1>5, <2>4, <2>7, <2>8
<1>7. QED
  BY <1>2, <1>6

-----------------------------------------------------------------------------
(* The solver's result                                                     *)

\* With its lists empty, and every phi knowing its operands, the solver has come to
\* a solution.
LEMMA SolvedIsSolution ==
  ASSUME NEW s, s = Solver, Sound(s, {}), Solved, ~OperandUnknown
  PROVE  Solution(s)
<1>1. /\ s.vals = vals /\ s.edges = feasible_edges /\ s.exec = executable_blocks
      /\ s.over = {} /\ s.insts = {} /\ s.blocks = {}
  BY DEF Solver, Solved
<1>2. Typed(s) /\ Good(s, {})
  BY DEF Sound
<1>3. Queued(s, {}) = {} /\ s.exec \ s.blocks = s.exec
  BY <1>1 DEF Queued
<1>4. Settled(s)
  BY <1>2, <1>3 DEF Good, Settled
<1>5. OperandsKnown(s)
  <2> SUFFICES ASSUME NEW b \in s.exec, NEW phi \in Phis(func, b), NEW p \in Feasible(s, phi, b)
               PROVE  s.vals[Operand(phi, p)] # Bottom
    BY DEF OperandsKnown
  <2>1. p \in DOMAIN func.edges[phi] /\ b \in s.edges[p]
    BY DEF Feasible
  <2>2. QED
    BY <1>1, <2>1 DEF OperandUnknown, Operand
<1>6. QED
  BY <1>2, <1>4, <1>5 DEF Solution

LEMMA Implied ==
  ASSUME IInv
  PROVE  ConstantsRight
<1> SUFFICES ASSUME Solved, ~OperandUnknown, NEW e \in Valuations
             PROVE  LET r == Run(func, e, Fuel)
                    IN  /\ ~r.bad /\ r.at \in executable_blocks \cup {None}
                        /\ \A v \in DOMAIN vals \cap DOMAIN r.vals : Elem(vals[v]) => r.vals[v] = vals[v]
  BY DEF ConstantsRight
<1>1. Started /\ Fn
  BY DEF IInv, Solved
<1>2. PICK s : s = Solver /\ Sound(s, {})
  BY <1>1 DEF Started
<1>3. Solution(s)
  BY <1>2, SolvedIsSolution
<1>4. PICK r : r = Run(func, e, Fuel)
  OBVIOUS
<1>5. OnTrack(s, r)
  BY <1>1, <1>3, <1>4, RunRight
<1>6. s.vals = vals /\ s.exec = executable_blocks
  BY <1>2 DEF Solver
<1>7. ~r.bad /\ r.at \in s.exec \cup {None}
  BY <1>5 DEF OnTrack
<1>8. \A v \in DOMAIN r.vals : Elem(s.vals[v]) => r.vals[v] = s.vals[v]
  BY <1>5, LatticeFacts DEF OnTrack, Right
<1>9. QED
  BY <1>4, <1>6, <1>7, <1>8

\* The solver's lists, values and edges agree with each other between any two steps.
THEOREM SolverIsSound == SolverSpec => []IInv
<1>1. SolverInit => IInv
  BY DEF SolverInit, Init, IInv, Fn
<1>2. IInv /\ [SolverNext]_vars => IInv'
  BY Inductive
<1>3. QED
  BY <1>1, <1>2, PTL DEF SolverSpec

\* When the lists are empty and the phis know their operands, no run enters a block
\* that constant propagation takes for dead, and a value has the constant it is taken
\* for: whatever the function, the parameters, and the order in which the entries of a
\* list were taken.
THEOREM ConstantsAreRight == SolverSpec => []ConstantsRight
<1>1. IInv => ConstantsRight
  BY Implied
<1>2. QED
  BY <1>1, SolverIsSound, PTL
=============================================================================
