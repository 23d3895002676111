------------------------------ MODULE Simplify ------------------------------
(***************************************************************************)
(* The algebraic rules of openvaf/mir_opt/src/simplify.rs: the value that  *)
(* an instruction is equal to, or Nothing. No instruction is made; the     *)
(* rules look through the operands' instructions, to a limited depth, and  *)
(* see every operand through `lead` (map_val): the identity for            *)
(* inst_combine, the leaders of the classes for value numbering.           *)
(***************************************************************************)
EXTENDS Expressions

Nothing == -1

\* The first rule that applies; when(c, v) is a rule.
a ?? b == IF a # Nothing THEN a ELSE b
when(c, v) == IF c THEN v ELSE Nothing

\* The context: instructions and map_val.
Context(inst, lead) == [inst |-> inst, lead |-> lead]
map_val(c, v) == IF v \in DOMAIN c.lead THEN c.lead[v] ELSE v

\* The operands of the instruction that defines v, if it has this operation.
Operands(c, v, op) ==
  IF IsRes(v) /\ c.inst[InstOf(v)].op = op
  THEN LET a == c.inst[InstOf(v)].args IN [k \in DOMAIN a |-> map_val(c, a[k])]
  ELSE <<>>

\* The trait Arithmetic.
Real == [neg |-> "fneg", add |-> "fadd", sub |-> "fsub", mul |-> "fmul", div |-> "fdiv",
         zero |-> F(0), one |-> F(1), n_one |-> F(-1), div_exact |-> TRUE, has_sqrt |-> TRUE]
Int32 == [neg |-> "ineg", add |-> "iadd", sub |-> "isub", mul |-> "imul", div |-> "idiv",
          zero |-> I(0), one |-> I(1), n_one |-> I(-1), div_exact |-> FALSE, has_sqrt |-> FALSE]

Arith(op) == IF op \in {Real.add, Real.sub, Real.mul, Real.div, Real.neg} THEN Real ELSE Int32

is_neg(c, A, lhs, rhs) ==
  \/ Operands(c, lhs, A.neg) = <<rhs>>
  \/ Operands(c, rhs, A.neg) = <<lhs>>
  \/ LET l == Operands(c, lhs, A.sub)
         r == Operands(c, rhs, A.sub)
     IN  l # <<>> /\ r # <<>> /\ l[1] = r[2] /\ l[2] = r[1]

\* fold_or_commute_consts: two constants are folded, one goes to the right.
both_const(lhs, rhs) == IsConst(lhs) /\ IsConst(rhs)
commute(op, lhs, rhs) == IF IsConst(lhs) /\ Commutative(op) THEN <<rhs, lhs>> ELSE <<lhs, rhs>>

RECURSIVE simplify_binop(_, _, _, _, _)

\* Two parts of a sum or product that simplify together: op applied to what they
\* make and to the third part; `self` when op leaves `part` as it is.
Regroup(c, op, x, y, part, self, third, left, d) ==
  LET v == simplify_binop(c, op, x, y, d)
  IN  IF v = Nothing THEN Nothing
      ELSE IF v = part THEN self
      ELSE IF left THEN simplify_binop(c, op, third, v, d) ELSE simplify_binop(c, op, v, third, d)

assoc_left(c, op, lhs, rhs, d) ==
  LET p == Operands(c, lhs, op)
  IN  IF p = <<>> THEN Nothing
      ELSE Regroup(c, op, p[2], rhs, p[2], lhs, p[1], TRUE, d)
           ?? IF ~Commutative(op) THEN Nothing
              ELSE Regroup(c, op, rhs, p[1], p[1], lhs, p[2], FALSE, d)

\* When the last product is the third part, the code gives lhs, not rhs.
assoc_right(c, op, lhs, rhs, d) ==
  LET p == Operands(c, rhs, op)
  IN  IF p = <<>> THEN Nothing
      ELSE Regroup(c, op, lhs, p[1], p[1], rhs, p[2], FALSE, d)
           ?? IF ~Commutative(op) THEN Nothing
              ELSE Regroup(c, op, p[2], lhs, p[2], lhs, p[1], TRUE, d)

\* recurse: d is max_recurse.
simplify_assoc_binop(c, op, lhs, rhs, d) ==
  IF d = 0 THEN Nothing
  ELSE assoc_left(c, op, lhs, rhs, d - 1) ?? assoc_right(c, op, lhs, rhs, d - 1)

simplify_add_inst(c, A, x, y, d) ==
  LET o == commute(A.add, x, y)
      lhs == o[1]  rhs == o[2]
      l == Operands(c, lhs, A.sub)
      r == Operands(c, rhs, A.sub)
  IN  when(rhs = A.zero, lhs)
      ?? when(is_neg(c, A, lhs, rhs), A.zero)
      ?? when(r # <<>> /\ r[2] = lhs, r[1])      \* X + (Y - X) -> Y
      ?? when(l # <<>> /\ l[2] = rhs, l[1])      \* (Y - X) + X -> Y
      ?? simplify_assoc_binop(c, A.add, lhs, rhs, d)

\* Two steps that both have to simplify: first, then op on its result.
Then(c, first, op, left, x, d) ==
  IF first = Nothing THEN Nothing
  ELSE IF left THEN simplify_binop(c, op, x, first, d) ELSE simplify_binop(c, op, first, x, d)

simplify_sub_inst_inner(c, A, lhs, rhs, d) ==
  LET sub(x, y) == simplify_binop(c, A.sub, x, y, d)
      l == Operands(c, lhs, A.add)
      r == Operands(c, rhs, A.add)
      n == Operands(c, rhs, A.neg)
      s == IF Operands(c, rhs, A.sub) # <<>> THEN Operands(c, rhs, A.sub)
           ELSE IF n # <<>> THEN <<A.zero, n[1]>> ELSE <<>>
  IN  (IF l = <<>> THEN Nothing                  \* (X + Y) - Z
       ELSE Then(c, sub(l[2], rhs), A.add, TRUE, l[1], d)
            ?? Then(c, sub(l[1], rhs), A.add, TRUE, l[2], d))
      ?? (IF r = <<>> THEN Nothing               \* X - (Y + Z)
          ELSE Then(c, sub(lhs, r[1]), A.sub, FALSE, r[2], d)
               ?? Then(c, sub(lhs, r[2]), A.sub, FALSE, r[1], d))
      ?? (IF s = <<>> THEN Nothing               \* Z - (X - Y)
          ELSE Then(c, sub(lhs, s[1]), A.add, FALSE, s[2], d))

simplify_sub_inst(c, A, lhs, rhs, d) ==
  when(rhs = A.zero, lhs)
  ?? when(lhs = rhs, A.zero)
  ?? IF d = 0 THEN Nothing ELSE simplify_sub_inst_inner(c, A, lhs, rhs, d - 1)

\* (a + b) * x: the code multiplies the two products instead of adding them.
expand_add_over_mul(c, A, val, other, d) ==
  LET p == Operands(c, val, A.add)
      l == simplify_binop(c, A.mul, p[1], other, d)
      r == simplify_binop(c, A.mul, p[2], other, d)
  IN  IF p = <<>> THEN Nothing
      ELSE IF l = Nothing THEN Nothing
      ELSE IF r = Nothing THEN Nothing
      ELSE IF <<l, r>> \in {<<p[1], p[2]>>, <<p[2], p[1]>>} THEN val
      ELSE simplify_binop(c, A.mul, l, r, d)

simplify_mul_inst(c, A, x, y, d) ==
  LET o == commute(A.mul, x, y)
      lhs == o[1]  rhs == o[2]
      l == Operands(c, lhs, A.div)
      r == Operands(c, rhs, A.div)
      root == Operands(c, lhs, "sqrt")
  IN  when(rhs = A.one, lhs)
      ?? when(rhs = A.zero, A.zero)
      ?? when(A.div_exact /\ r # <<>> /\ r[2] = lhs, r[1])      \* Y * (X / Y) -> X
      ?? when(A.div_exact /\ l # <<>> /\ l[2] = rhs, l[1])
      ?? when(A.has_sqrt /\ root # <<>> /\ root = Operands(c, rhs, "sqrt"), root[1])
      ?? simplify_assoc_binop(c, A.mul, lhs, rhs, d)
      ?? IF d = 0 THEN Nothing
         ELSE expand_add_over_mul(c, A, lhs, rhs, d - 1)
              ?? expand_add_over_mul(c, A, rhs, lhs, d - 1)

\* (X * Y) / Y -> X is never found: the code compares Y with the product.
simplify_div_inst(c, A, lhs, rhs) ==
  LET l == Operands(c, lhs, A.mul)
  IN  when(lhs = A.zero, A.zero)
      ?? when(rhs = A.one, lhs)
      ?? when(is_neg(c, A, lhs, rhs), A.n_one)
      ?? IF ~A.div_exact THEN Nothing
         ELSE when(lhs = rhs, A.one)
              ?? when(l # <<>> /\ l[2] = lhs, l[1])
              ?? when(l # <<>> /\ l[1] = rhs, l[2])

simplify_binop(c, op, lhs, rhs, d) ==
  IF op = "pow" /\ rhs = FZero THEN FOne
  ELSE IF both_const(lhs, rhs) THEN Eval2(op, lhs, rhs)
  ELSE LET A == Arith(op)
       IN  CASE op = A.add -> simplify_add_inst(c, A, lhs, rhs, d)
             [] op = A.sub -> simplify_sub_inst(c, A, lhs, rhs, d)
             [] op = A.mul -> simplify_mul_inst(c, A, lhs, rhs, d)
             [] op = A.div -> simplify_div_inst(c, A, lhs, rhs)
             [] op = "pow" -> when(lhs = FZero, FZero) ?? when(rhs = FOne, lhs)
             [] OTHER -> Nothing                 \* comparisons and bits: constants only

Inverse1(op) ==
  CASE op \in {"inot", "bnot"} -> op
    [] op = "exp" -> "ln"
    [] op = "ln"  -> "exp"
    [] op = "ibcast" -> "bicast"
    [] OTHER -> "none"                           \* casts that lose something, barriers

simplify_unary_op(c, op, arg, d) ==
  IF IsConst(arg) /\ op # "optbarrier" THEN Eval1(op, arg)
  ELSE IF op = "fneg" THEN simplify_binop(c, "fsub", FZero, arg, d)
  ELSE IF op = "ineg" THEN simplify_binop(c, "isub", I(0), arg, d)
  ELSE IF op = "sqrt"
       THEN LET m == Operands(c, arg, "fmul")
                p == Operands(c, arg, "pow")
            IN  when(m # <<>> /\ m[1] = m[2], m[1]) ?? when(p # <<>> /\ p[2] = FTwo, p[1])
  ELSE LET x == Operands(c, arg, Inverse1(op)) IN when(x # <<>>, x[1])

simplify_phi(c, args) ==
  LET m == {map_val(c, args[k]) : k \in DOMAIN args}
  IN  when(Cardinality(m) = 1, CHOOSE v \in m : TRUE)

max_recurse == 3

simplify_inst(c, x) ==
  CASE x.op = "phi"      -> simplify_phi(c, x.args)
    [] x.op = "call"     -> Nothing
    [] Len(x.args) = 1   -> simplify_unary_op(c, x.op, x.args[1], max_recurse)
    [] OTHER             -> simplify_binop(c, x.op, x.args[1], x.args[2], max_recurse)

=============================================================================
