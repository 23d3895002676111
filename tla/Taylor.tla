------------------------------- MODULE Taylor -------------------------------
(***************************************************************************)
(* What derivatives are: the reference for mir_autodiff. A function is run *)
(* with a jet in place of every real number, that is with the number and   *)
(* its derivatives to some order. The rules are those of Leibniz for the   *)
(* arithmetic operations, and for the others the equations that define     *)
(* them (a root times itself, a quotient times its divisor). A call that   *)
(* asks for a derivative reads it off its argument's jet.                  *)
(*                                                                         *)
(* A jet is a function from multi-indices; multi-index m stands for the    *)
(* derivative that is taken m[u] times by unknown u.                       *)
(***************************************************************************)
EXTENDS Expressions

Total(m) == FoldFunction(LAMBDA x, y : x + y, 0, m)
Indices(unknowns, order) == {m \in [1 .. unknowns -> 0 .. order] : Total(m) <= order}

Leq(k, m)   == \A u \in DOMAIN m : k[u] <= m[u]
Minus(m, k) == [u \in DOMAIN m |-> m[u] - k[u]]
One(m, u)   == [v \in DOMAIN m |-> IF v = u THEN 1 ELSE 0]
IsZero(m)   == \A u \in DOMAIN m : m[u] = 0
FirstOf(m)  == CHOOSE u \in DOMAIN m : m[u] > 0 /\ \A v \in 1 .. u - 1 : m[v] = 0

Fact(n) == CASE n = 0 -> 1 [] n = 1 -> 1 [] n = 2 -> 2 [] n = 3 -> 6
Ways(m, k) ==
  FoldFunction(LAMBDA x, y : x * y, 1,
               [u \in DOMAIN m |-> Fact(m[u]) \div (Fact(k[u]) * Fact(m[u] - k[u]))])

\* The field's own operations, on what may have no value.
Both(x, y, z) == IF Undef \in {x, y} THEN Undef ELSE z
plus(x, y)    == Both(x, y, F(x + y))
minus(x, y)   == Both(x, y, F(x - y))
times(x, y)   == Both(x, y, F(x * y))
divided(x, y) == Both(x, y, Quotient(x, y))

\* The sum over k <= m of the ways to choose k from m, times x[k], times y[m - k].
Leibniz(x, y, m, ks) ==
  MapThenFoldSet(plus, 0, LAMBDA k : times(F(Ways(m, k)), times(x[k], y[Minus(m, k)])),
                 LAMBDA S : CHOOSE k \in S : TRUE, ks)
Below(m) == {k \in [DOMAIN m -> 0 .. Total(m)] : Leq(k, m)}

Const(M, c)   == [m \in M |-> IF IsZero(m) THEN c ELSE 0]
JPlus(x, y)   == Table([m \in DOMAIN x |-> plus(x[m], y[m])])
JMinus(x, y)  == Table([m \in DOMAIN x |-> minus(x[m], y[m])])
JTimes(x, y)  == Table([m \in DOMAIN x |-> Leibniz(x, y, m, Below(m))])
Scale(c, x)   == Table([m \in DOMAIN x |-> times(c, x[m])])

\* x * q = y, solved from the lowest order up.
JQuotient(y, x) ==
  LET zero == CHOOSE m \in DOMAIN x : IsZero(m)
      q[m \in DOMAIN x] ==
        divided(minus(y[m], Leibniz(q, x, m, Below(m) \ {m})), x[zero])
  IN  Table(q)

\* r * r = x.
JSqrt(x) ==
  LET zero == CHOOSE m \in DOMAIN x : IsZero(m)
      root == Eval1("sqrt", x[zero])
      r[m \in DOMAIN x] ==
        IF IsZero(m) THEN root
        ELSE divided(minus(x[m], Leibniz(r, r, m, Below(m) \ {m, zero})), times(2, root))
  IN  Table(r)

\* The derivative of x by the first unknown of m, with as many others as m has.
Step(m)     == Minus(m, One(m, FirstOf(m)))
Diff(x, m) ==
  [k \in Below(Step(m)) |-> x[[v \in DOMAIN m |-> k[v] + One(m, FirstOf(m))[v]]]]

\* A function with a given value whose derivative is `outer` times that of x.
Chain(value, outer, x) ==
  Table([m \in DOMAIN x |->
           IF IsZero(m) THEN value
           ELSE Leibniz(outer, Diff(x, m), Step(m), Below(Step(m)))])

\* The function that is its own derivative, times x'.
JExp(value, x) ==
  LET e[m \in DOMAIN x] ==
        IF IsZero(m) THEN value
        ELSE Leibniz(e, Diff(x, m), Step(m), Below(Step(m)))
  IN  Table(e)

\* Cosine and sine (sign = -1), or their hyperbolic counterparts (sign = 1), as a
\* function to pairs: even' = sign * odd * x', odd' = even * x'.
JPair(even0, odd0, sign, x) ==
  LET p[m \in DOMAIN x] ==
        IF IsZero(m) THEN <<even0, odd0>>
        ELSE LET ks == Below(Step(m))
                 along(i) == Leibniz([k \in ks |-> p[k][i]], Diff(x, m), Step(m), ks)
             IN  <<times(F(sign), along(2)), along(1)>>
  IN  Table(p)

Even(p) == Table([m \in DOMAIN p |-> p[m][1]])
Odd(p)  == Table([m \in DOMAIN p |-> p[m][2]])
OfPair(op, p) ==
  CASE op \in {"cos", "cosh"} -> Even(p)
    [] op \in {"sin", "sinh"} -> Odd(p)
    [] op \in {"tan", "tanh"} -> JQuotient(Odd(p), Even(p))

\* The derivative of these functions is one over this (for acos, minus one).
Divisor(op, x) ==
  LET one   == Const(DOMAIN x, 1)
      sq    == JTimes(x, x)
      under == CASE op \in {"asin", "acos", "atanh"} -> JMinus(one, sq)
                 [] op \in {"atan", "asinh"} -> JPlus(one, sq)
                 [] op = "acosh" -> JMinus(sq, one)
  IN  CASE op = "ln" -> x
        [] op \in {"atan", "atanh"} -> under
        [] OTHER -> JSqrt(under)

-----------------------------------------------------------------------------

JUnary(op, x) ==
  LET M == DOMAIN x
      v == x[CHOOSE m \in M : IsZero(m)]
  IN  CASE op = "fneg"  -> Scale(F(-1), x)
        [] op = "optbarrier" -> x
        [] op = "exp"   -> JExp(Eval1(op, v), x)
        [] op = "sqrt"  -> JSqrt(x)
        [] op \in {"sin", "cos", "tan"} -> OfPair(op, JPair(Eval1("cos", v), Eval1("sin", v), -1, x))
        [] op \in {"sinh", "cosh", "tanh"} -> OfPair(op, JPair(Eval1("cosh", v), Eval1("sinh", v), 1, x))
        [] op \in {"ln", "asin", "acos", "atan", "asinh", "acosh", "atanh"} ->
             Chain(Eval1(op, v),
                   JQuotient(Const(M, IF op = "acos" THEN F(-1) ELSE 1), Divisor(op, x)), x)
        [] OTHER -> Const(M, Eval1(op, v))           \* integers, Booleans, casts

JBinary(op, x, y) ==
  LET M    == DOMAIN x
      zero == CHOOSE m \in M : IsZero(m)
      v    == Eval2(op, x[zero], y[zero])
  IN  CASE op = "fadd" -> JPlus(x, y)
        [] op = "fsub" -> JMinus(x, y)
        [] op = "fmul" -> JTimes(x, y)
        [] op = "fdiv" -> JQuotient(x, y)
        [] op = "hypot" -> JSqrt(JPlus(JTimes(x, x), JTimes(y, y)))
        \* exp(ln(x) * y); the derivative at zero is taken to be zero, as the compiler says.
        [] op = "pow"  -> IF x[zero] = 0 THEN Const(M, v)
                          ELSE JExp(v, JTimes(JUnary("ln", x), y))
        [] op = "atan2" ->                           \* (x' * y - y' * x) / (x^2 + y^2)
             LET r == JPlus(JTimes(x, x), JTimes(y, y))
             IN  JPlus(Chain(v, JQuotient(y, r), x), Chain(0, JQuotient(Scale(F(-1), x), r), y))
        [] OTHER -> Const(M, v)

-----------------------------------------------------------------------------
(* Runs                                                                    *)

\* The derivative by some unknowns, less that by others; one order is lost.
JDdx(x, pos, neg) ==
  LET by(u) == [m \in DOMAIN x |-> LET n == [v \in DOMAIN m |-> m[v] + One(m, u)[v]]
                                  IN  IF n \in DOMAIN x THEN x[n] ELSE Undef]
      sum(S) == FoldSet(LAMBDA u, y : JPlus(y, by(u)), Const(DOMAIN x, 0), S)
  IN  JMinus(sum(pos), sum(neg))

JDatum(M, vals, v) ==
  IF IsConst(v) THEN Const(M, v) ELSE IF v \in DOMAIN vals THEN vals[v] ELSE Const(M, Undef)

JCompute(M, f, vals, ddx, i) ==
  LET x == f.inst[i]
      a == [k \in DOMAIN x.args |-> JDatum(M, vals, x.args[k])]
      zero == CHOOSE m \in M : IsZero(m)
  IN  IF x.op = "call"
      THEN IF x.key \in DOMAIN ddx THEN JDdx(a[1], ddx[x.key].pos, ddx[x.key].neg)
           ELSE Const(M, EvalCall(x.key, [k \in DOMAIN a |-> a[k][zero]]))
      ELSE IF Len(a) = 1 THEN JUnary(x.op, a[1]) ELSE JBinary(x.op, a[1], a[2])

JLeave(M, f, b, vals) ==
  LET t    == f.term[b]
      zero == CHOOSE m \in M : IsZero(m)
      to   == IF t.dst = <<>> THEN 0
              ELSE IF Len(t.dst) = 1 THEN t.dst[1]
              ELSE t.dst[IF JDatum(M, vals, t.cond)[zero] = B(TRUE) THEN 1 ELSE 2]
  IN  [at |-> to, from |-> b, vals |-> vals]

JRunBlock(M, f, ddx, s) ==
  LET phis == {i \in ToSet(f.body[s.at]) : IsPhi(f, i)}
      in   == [v \in {Res(i) : i \in phis} |-> JDatum(M, s.vals, Edge(f, InstOf(v), s.from))]
      compute(vs, i) == IF i \in phis THEN vs
                        ELSE (Res(i) :> Table(JCompute(M, f, vs, ddx, i))) @@ vs
  IN  JLeave(M, f, s.at, FoldLeft(compute, in @@ s.vals, f.body[s.at]))

\* At most `fuel` blocks.
JRun(M, f, ddx, start, fuel) ==
  FoldLeft(LAMBDA s, n : IF s.at = 0 THEN s ELSE JRunBlock(M, f, ddx, s), start, [n \in 1 .. fuel |-> n])

JOutputs(M, f, end) ==
  [k \in DOMAIN f.outs |-> IF end.at = 0 THEN JDatum(M, end.vals, f.outs[k]) ELSE Const(M, Undef)]

\* The jets of the outputs; unknowns are parameters, numbered by their place.
Jets(f, unknowns, order, ddx, params, fuel) ==
  LET M == Indices(Len(unknowns), order)
      seed(p) ==
        [m \in M |-> IF IsZero(m) THEN params[p]
                     ELSE IF Total(m) = 1 /\ unknowns[FirstOf(m)] = Param(p) THEN 1 ELSE 0]
      start == [at |-> f.layout[1], from |-> 0,
                vals |-> [v \in {Param(p) : p \in DOMAIN params} |-> seed(ParamOf(v))]]
  IN  JOutputs(M, f, JRun(M, f, ddx, start, fuel))

=============================================================================
