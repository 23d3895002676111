----------------------------- MODULE MCAutoDiff -----------------------------
(***************************************************************************)
(* The functions that are differentiated: two real operations behind each  *)
(* other, with the Jacobian of the result and with a ddx call in between,  *)
(* diamonds, loops, powers, and a chain long enough for a subgraph.        *)
(***************************************************************************)
EXTENDS MCValueNumbering, AutoDiff

c == Param(2)

\* ddx by one unknown, by two together (a potential of two branches), and by the
\* difference of two.
MCDdx == (11 :> [pos |-> {1}, neg |-> {}]) @@ (12 :> [pos |-> {2}, neg |-> {}]) @@
         (13 :> [pos |-> {1, 2}, neg |-> {}]) @@ (14 :> [pos |-> {1}, neg |-> {2}])

Problem(func, unknowns, extras, order) ==
  [func |-> func, unknowns |-> unknowns, ddx |-> MCDdx, extras |-> extras, order |-> order]

\* A barrier behind the last value of a block makes the output.
OneOutput(insts) ==
  LET n == Len(insts) + 1
  IN  Func(Append(insts, Op("optbarrier", <<Res(n - 1)>>)), <<1>>, <<[k \in 1 .. n |-> k]>>,
           <<Term(0, <<>>)>>, <<Res(n)>>)
Jacobian(insts, order) == Problem(OneOutput(insts), <<a, b>>, <<<<1, 1>>, <<1, 2>>>>, order)

\* No root of a product: sqrt(x * x) is simplified to x, whatever sign it has.
Functions1 == {"fneg", "exp", "ln", "sin", "cos", "tan", "asin", "acos", "atan", "sinh", "cosh",
               "tanh", "asinh", "acosh", "atanh", "sqrt"}
Inner == Binary(RealOps, {a}, {a, b, FTwo}) \cup Binary(RealOps, {b, FOne}, {a}) \cup
         Unary({"exp", "sin"}, {a})
Outer == Binary(RealOps, {Res(1)}, {a, b, Res(1)}) \cup Binary({"fdiv", "pow", "fsub"}, {b}, {Res(1)})

FirstOrder ==
  {Jacobian(<<x, y>>, 1) : x \in Inner, y \in Outer} \cup
  {Jacobian(<<x, y>>, 1) : x \in Binary({"fadd", "fdiv"}, {a}, {b}), y \in Unary(Functions1, {Res(1)})}

\* A derivative in the output: its own derivatives are of the second order.
SecondOrder ==
  LET In == Binary({"fmul", "fdiv"}, {a}, {a, b}) \cup Unary({"exp"}, {a})
      Out == Binary({"fmul", "fdiv", "pow"}, {Res(1)}, {a, b}) \cup
             Unary({"exp", "ln", "sin", "atan"}, {Res(1)})
  IN  {Jacobian(<<x, y, Call(d, <<Res(2)>>)>>, 2) : x \in In, y \in Out, d \in {11, 12}} \cup
      {Jacobian(<<x, y, Call(11, <<Res(2)>>), Op("fmul", <<Res(3), Res(1)>>)>>, 2) :
         x \in Binary({"fmul"}, {a}, {a, b}), y \in Unary({"exp", "sin", "cos"}, {Res(1)})}

\* Several unknowns: the output is the derivative.
Sums ==
  {Problem(OneOutput(<<x, y, Call(d, <<Res(2)>>)>>), <<a, b>>, <<>>, 1) :
     x \in Inner, y \in Binary({"fmul", "fsub"}, {Res(1)}, {a, b}), d \in {13, 14}}

\* Blocks 1; 2, 3; 4 and 1, 2 (header), 3 (body), 4, with a barrier in the last one.
DiffDiamonds ==
  LET func(then, else, last) ==
        Func(<<then, else, Phi(<<2, 3>>, <<Res(1), Res(2)>>), last, Op("optbarrier", <<Res(4)>>),
               Op("flt", <<a, b>>)>>, <<1, 2, 3, 4>>, <<<<6>>, <<1>>, <<2>>, <<3, 4, 5>>>>,
             <<Term(Res(6), <<2, 3>>), Term(0, <<4>>), Term(0, <<4>>), Term(0, <<>>)>>, <<Res(5)>>)
  IN  {Problem(func(x, y, z), <<a, b>>, <<<<1, 1>>, <<1, 2>>>>, 1) :
         x \in Binary({"fmul", "pow"}, {a}, {a, b}), y \in Binary({"fdiv"}, {a}, {b}) \cup Unary({"exp"}, {b}),
         z \in Binary({"fmul", "pow"}, {Res(3)}, {a, Res(3)})}

DiffLoops ==
  LET func(start, step, last) ==
        Func(<<Phi(<<1, 3>>, <<FZero, Res(3)>>), Phi(<<1, 3>>, <<start, Res(4)>>),
               Op("fadd", <<Res(1), FOne>>), step, Op("flt", <<Res(1), FTwo>>), last,
               Op("optbarrier", <<Res(6)>>)>>, <<1, 2, 3, 4>>,
             <<<<>>, <<1, 2, 5>>, <<3, 4>>, <<6, 7>>>>,
             <<Term(0, <<2>>), Term(Res(5), <<3, 4>>), Term(0, <<2>>), Term(0, <<>>)>>, <<Res(7)>>)
  IN  {Problem(func(s, x, y), <<a, b>>, <<<<1, 1>>, <<1, 2>>>>, 2) :
         s \in {a}, x \in Binary({"fmul", "fdiv"}, {Res(2)}, {b, Res(2)}),
         y \in {Call(11, <<Res(2)>>), Op("fmul", <<Res(2), a>>)}}

\* Four operations behind an entry that depends on three unknowns.
Subgraphs ==
  LET entry == Op("fadd", <<Res(1), c>>)
      third == <<<<1, 1>>, <<1, 2>>, <<1, 3>>>>
  IN  {Problem(OneOutput(<<x, entry, Op(p, <<Res(2), Res(2)>>), Op("exp", <<Res(3)>>),
                           Op("fmul", <<Res(4), Res(2)>>), y>>), <<a, b, c>>, third, 1) :
         x \in Binary({"fmul", "fdiv"}, {a}, {b}), p \in {"fmul", "pow"},
         y \in Unary({"sin"}, {Res(5)}) \cup Binary({"fmul"}, {Res(5)}, {a, Res(3)})}

MCProblems ==
  FirstOrder \cup SecondOrder \cup Sums \cup DiffDiamonds \cup DiffLoops \cup Subgraphs

\* The angle of a point; second derivatives by a difference; and second derivatives
\* through a subgraph: each is wrong, see the README.
MCAngle == {Jacobian(<<Op("atan2", <<a, b>>)>>, 1)}
MCDifference == {Jacobian(<<Op("fmul", <<a, b>>), Call(14, <<Res(1)>>)>>, 2)}
MCNested ==
  {Jacobian(<<Op("fmul", <<a, b>>), Op("fneg", <<Res(1)>>), Op("exp", <<Res(2)>>),
              Op("fmul", <<Res(3), Res(1)>>), Op("fneg", <<Res(4)>>), Call(11, <<Res(5)>>)>>, 2)}
=============================================================================
