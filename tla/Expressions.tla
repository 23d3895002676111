---------------------------- MODULE Expressions ----------------------------
(***************************************************************************)
(* Functions of the intermediate representation with arithmetic, and what  *)
(* they compute. Real numbers are replaced by the field of P elements: the *)
(* rules of simplification and the derivatives are identities of rational  *)
(* functions, which a field keeps; rounding, order and sign are lost.      *)
(* Integers have two bits and wrap around. What has no value (a division   *)
(* by zero) is Undef.                                                      *)
(*                                                                         *)
(* A value of the function is a number: constants first, each standing for *)
(* itself as data, then parameters, then the results of instructions.      *)
(***************************************************************************)
EXTENDS Integers, Sequences, FiniteSets, SequencesExt

P == 7
F(k) == k % P                            \* real constants: 0 .. 6
I(k) == 10 + (k % 4)                     \* integer constants, in two bits
B(b) == IF b THEN 21 ELSE 20             \* mir::TRUE and mir::FALSE
Undef == 22
Param(k) == 30 + k
Res(i)   == 40 + i

IsConst(v) == v < 30
IsRes(v)   == v > 40
InstOf(v)  == v - 40
ParamOf(v) == v - 30
FZero == F(0)  FOne == F(1)  FTwo == F(2)

Signed(x) == IF x - 10 > 1 THEN x - 14 ELSE x - 10

\* The same function, evaluated at once.
Table(g) == g @@ <<>>

\* An instruction: key is the callee of a call, 0 for others; from are the
\* predecessors of a phi, in the order of its arguments.
Op(op, args)     == [op |-> op, args |-> args, key |-> 0, from |-> <<>>]
Call(fn, args)   == [op |-> "call", args |-> args, key |-> fn, from |-> <<>>]
Phi(from, args)  == [op |-> "phi", args |-> args, key |-> 0, from |-> from]

\* A function: instructions by number, the blocks in layout order, what is in them,
\* terminators (a condition when there are two destinations), and the operands of
\* the optimisation barriers that make up its outputs.
Func(inst, layout, body, term, outs) ==
  [inst |-> inst, layout |-> layout, body |-> body, term |-> term, outs |-> outs]
Term(cond, dst) == [cond |-> cond, dst |-> dst]

Blocks(f)    == ToSet(f.layout)
Succs(f, b)  == ToSet(f.term[b].dst)
Placed(f)    == UNION {ToSet(f.body[b]) : b \in Blocks(f)}
BlockOf(f, i) == CHOOSE b \in Blocks(f) : i \in ToSet(f.body[b])
Uses(f, v)   == {i \in Placed(f) : v \in ToSet(f.inst[i].args)}

Commutative(op) ==
  op \in {"fmul", "fadd", "iadd", "imul", "ieq", "feq", "ine", "fne", "beq", "bne"}

\* replace_uses, zap_inst and remove_inst.
Subst(v, w, x) == IF x = v THEN w ELSE x
Replace(f, v, w) ==
  [f EXCEPT !.inst = [i \in DOMAIN @ |->
                        IF i \in Placed(f)
                        THEN [@[i] EXCEPT !.args = [k \in DOMAIN @ |-> Subst(v, w, @[k])]]
                        ELSE @[i]],
            !.term = [b \in DOMAIN @ |-> [@[b] EXCEPT !.cond = Subst(v, w, @)]],
            !.outs = [k \in DOMAIN @ |-> Subst(v, w, @[k])]]
RemoveInst(f, i) ==
  [f EXCEPT !.body = [b \in DOMAIN @ |-> SelectSeq(@[b], LAMBDA j : j # i)]]

-----------------------------------------------------------------------------
(* What the operations do; eval_unary and eval_binary fold constants so    *)

Inv(x) == CHOOSE y \in 1 .. P - 1 : (x * y) % P = 1
RECURSIVE PowF(_, _)
PowF(x, n) == IF n = 0 THEN 1 ELSE (x * PowF(x, n - 1)) % P

\* exp and ln are a pair of inverse functions, and nothing else is used of them.
Exp(x) == PowF(F(x + 2), 5)
Ln(x)  == F(PowF(x, 5) - 2)

\* The smaller root, if there is one.
Sqrt(x) == IF \E y \in 0 .. 3 : F(y * y) = x THEN CHOOSE y \in 0 .. 3 : F(y * y) = x ELSE Undef

\* Points on the circle x^2 + y^2 = 1 and on the hyperbola x^2 - y^2 = 1 of the field.
Circle    == <<<<1, 0>>, <<2, 2>>, <<0, 1>>, <<5, 2>>, <<6, 0>>, <<5, 5>>, <<2, 5>>>>
Hyperbola == <<<<1, 0>>, <<3, 1>>, <<4, 6>>, <<6, 0>>, <<4, 1>>, <<3, 6>>, <<3, 1>>>>

\* The inverse functions: some functions.
Some(x, y) == F(x * x * x + 2 * y + 1)

Trunc(x, y) == LET q == (IF x < 0 THEN -x ELSE x) \div (IF y < 0 THEN -y ELSE y)
               IN  IF (x < 0) = (y < 0) THEN q ELSE -q

Quotient(x, y) == IF y = 0 THEN Undef ELSE F(x * Inv(y))

Eval1(op, x) ==
  IF x = Undef THEN Undef
  ELSE CASE op = "fneg" -> F(-x)
         [] op = "sqrt" -> Sqrt(x)
         [] op = "exp"  -> Exp(x)
         [] op = "ln"   -> Ln(x)
         [] op = "cos"  -> Circle[x + 1][1]
         [] op = "sin"  -> Circle[x + 1][2]
         [] op = "tan"  -> Quotient(Circle[x + 1][2], Circle[x + 1][1])
         [] op = "cosh" -> Hyperbola[x + 1][1]
         [] op = "sinh" -> Hyperbola[x + 1][2]
         [] op = "tanh" -> Quotient(Hyperbola[x + 1][2], Hyperbola[x + 1][1])
         [] op \in {"asin", "acos", "atan", "asinh", "acosh", "atanh"} -> Some(x, 0)
         [] op = "ineg" -> I(-Signed(x))
         [] op = "inot" -> I(-Signed(x) - 1)
         [] op = "bnot" -> B(x = B(FALSE))
         [] op = "ifcast" -> F(Signed(x))
         [] op = "bicast" -> I(IF x = B(TRUE) THEN 1 ELSE 0)
         [] op = "ibcast" -> B(x # I(0))
         [] op = "optbarrier" -> x

\* 0 to the power of 0 is left open: the comment in simplify_pow_inst says that the
\* libraries disagree about the cases that it takes away.
Eval2(op, x, y) ==
  IF x = Undef \/ y = Undef THEN Undef
  ELSE CASE op = "fadd" -> F(x + y)
         [] op = "fsub" -> F(x - y)
         [] op = "fmul" -> F(x * y)
         [] op = "fdiv" -> Quotient(x, y)
         [] op = "hypot" -> Sqrt(F(x * x + y * y))
         [] op = "atan2" -> Some(x, y)
         [] op = "pow"  -> IF x = 0 THEN (IF y = 0 THEN Undef ELSE 0) ELSE PowF(x, y)
         [] op = "iadd" -> I(x + y)
         [] op = "isub" -> I(Signed(x) - Signed(y))
         [] op = "imul" -> I(Signed(x) * Signed(y))
         [] op = "idiv" -> IF y = I(0) THEN Undef ELSE I(Trunc(Signed(x), Signed(y)))
         [] op = "flt"  -> B(x < y)
         [] op \in {"feq", "ieq", "beq"} -> B(x = y)

\* A pure callback: some function of its arguments.
EvalCall(fn, xs) ==
  IF Undef \in ToSet(xs) THEN Undef
  ELSE F(FoldLeft(LAMBDA a, x : 3 * a + x * x + fn, fn, xs))

-----------------------------------------------------------------------------
(* Runs: phis together, instructions, the terminator                       *)

Datum(vals, v) == IF IsConst(v) THEN v ELSE IF v \in DOMAIN vals THEN vals[v] ELSE Undef

Compute(f, vals, i) ==
  LET x == f.inst[i]
      a == [k \in DOMAIN x.args |-> Datum(vals, x.args[k])]
  IN  IF x.op = "call" THEN EvalCall(x.key, a)
      ELSE IF Len(a) = 1 THEN Eval1(x.op, a[1]) ELSE Eval2(x.op, a[1], a[2])

Edge(f, i, from) == f.inst[i].args[CHOOSE k \in DOMAIN f.inst[i].from : f.inst[i].from[k] = from]

IsPhi(f, i) == f.inst[i].op = "phi"

RunBlock(f, s) ==
  LET b    == s.at
      phis == {i \in ToSet(f.body[b]) : IsPhi(f, i)}
      old  == s.vals
      in   == [v \in {Res(i) : i \in phis} |-> Datum(old, Edge(f, InstOf(v), s.from))]
      vals == FoldLeft(LAMBDA vs, i : IF i \in phis THEN vs ELSE (Res(i) :> Compute(f, vs, i)) @@ vs,
                       in @@ old, f.body[b])
      t    == f.term[b]
      to   == IF t.dst = <<>> THEN 0
              ELSE IF Len(t.dst) = 1 THEN t.dst[1]
              ELSE t.dst[IF Datum(vals, t.cond) = B(TRUE) THEN 1 ELSE 2]
  IN  [at |-> to, from |-> b, vals |-> vals]

\* The outputs for some parameters; Undef when the run takes more than `fuel` blocks.
Outputs(f, params, fuel) ==
  LET start == [at |-> f.layout[1], from |-> 0,
                vals |-> [v \in {Param(k) : k \in DOMAIN params} |-> params[ParamOf(v)]]]
      state[n \in 0 .. fuel] ==
        IF n = 0 THEN start
        ELSE LET s == state[n - 1] IN IF s.at = 0 THEN s ELSE RunBlock(f, s)
      end == state[fuel]
  IN  [k \in DOMAIN f.outs |-> IF end.at = 0 THEN Datum(end.vals, f.outs[k]) ELSE Undef]

\* Whatever the first computes, so does the second.
Agree(before, after) == \A k \in DOMAIN before : before[k] # Undef => after[k] = before[k]

=============================================================================
