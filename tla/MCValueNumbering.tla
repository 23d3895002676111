-------------------------- MODULE MCValueNumbering --------------------------
(***************************************************************************)
(* The functions that are simplified and numbered: every sequence of two   *)
(* instructions over real numbers, and chosen ones of more, in one block,  *)
(* in a diamond and in a loop; integers, calls and square roots.           *)
(***************************************************************************)
EXTENDS ValueNumbering

a == Param(0)
b == Param(1)

Binary(ops, A, C) == {Op(o, <<x, y>>) : o \in ops, x \in A, y \in C}
Unary(ops, A)     == {Op(o, <<x>>) : o \in ops, x \in A}

\* One block; every result is an output.
Straight(insts) ==
  Func(insts, <<1>>, <<[k \in DOMAIN insts |-> k]>>, <<Term(0, <<>>)>>,
       [k \in DOMAIN insts |-> Res(k)])

RealOps == {"fadd", "fsub", "fmul", "fdiv", "pow"}
Two ==
  LET A == {a, b, FOne}
      First == Binary(RealOps, A, A) \cup Unary({"fneg", "exp", "ln"}, {a})
      Second == Binary(RealOps, {Res(1)}, A \cup {Res(1), FZero}) \cup
                Binary({"fsub", "fmul", "fdiv"}, A \cup {FZero}, {Res(1)}) \cup
                Unary({"fneg", "exp", "ln"}, {Res(1)})
  IN  {Straight(<<x, y>>) : x \in First, y \in Second}

\* Three real instructions, the last over the second and any value; no division:
\* a product of a sum with one is not simplified to an equal value.
Three ==
  LET A == {a, b, FOne}
      First == Binary({"fadd", "fsub", "fmul"}, {a}, {a, b}) \cup Unary({"fneg"}, {a})
      Second == Binary({"fadd", "fsub", "fmul"}, {Res(1)}, A) \cup
                Binary({"fsub", "fadd"}, {b}, {Res(1)}) \cup Unary({"fneg"}, {Res(1)})
      Third == Binary({"fadd", "fsub", "fmul"}, {Res(2)}, {a, b, Res(1)}) \cup
               Binary({"fsub", "fadd"}, {a, Res(1)}, {Res(2)})
  IN  {Straight(<<x, y, z>>) : x \in First, y \in Second, z \in Third}

\* A branch on a < b: an instruction before it, one in each arm, a phi, and two behind.
\* Blocks 1, 2 and 3, 4.
Diamond(first, then, else, phi, x, y) ==
  Func(<<first, then, else, phi, x, y, Op("flt", <<a, b>>)>>, <<1, 2, 3, 4>>,
       <<<<7, 1>>, <<2>>, <<3>>, <<4, 5, 6>>>>,
       <<Term(Res(7), <<2, 3>>), Term(0, <<4>>), Term(0, <<4>>), Term(0, <<>>)>>,
       <<Res(4), Res(5), Res(6)>>)

Diamonds ==
  LET Arm(k) == Binary({"fadd", "fmul"}, {a}, {b, Res(1)})
  IN  {Diamond(first, then, else, Phi(<<2, 3>>, <<v, w>>), x, y) :
         first \in Binary({"fadd", "fmul"}, {b}, {a}), then \in Arm(1), else \in Arm(2),
         v \in {a, Res(1), Res(2)}, w \in {a, Res(1), Res(3)},
         x \in Binary({"fadd", "fsub"}, {Res(4)}, {a}),
         y \in Binary({"fadd", "fmul"}, {Res(1), Res(5)}, {a})}

\* A loop that counts to three: the counter, two phis with their steps, and an
\* instruction behind the loop. Blocks 1, 2 (header), 3 (body), 4.
Loop(v, w, m, n, out) ==
  Func(<<Phi(<<1, 3>>, <<FZero, Res(4)>>), Phi(<<1, 3>>, <<v, Res(5)>>),
         Phi(<<1, 3>>, <<w, Res(6)>>), Op("fadd", <<Res(1), FOne>>), m, n,
         Op("flt", <<Res(1), F(3)>>), out>>, <<1, 2, 3, 4>>,
       <<<<>>, <<1, 2, 3, 7>>, <<4, 5, 6>>, <<8>>>>,
       <<Term(0, <<2>>), Term(Res(7), <<3, 4>>), Term(0, <<2>>), Term(0, <<>>)>>,
       <<Res(2), Res(3), Res(8)>>)

Loops ==
  LET Step == Binary({"fadd", "fmul"}, {Res(2), Res(3)}, {FZero, FOne, a}) \cup
              Binary({"fsub"}, {Res(2), Res(3)}, {Res(2), Res(3)})
  IN  {Loop(v, w, m, n, out) : v \in {a}, w \in {a, b, FZero}, m \in Step, n \in Step,
         out \in Binary({"fsub"}, {Res(2)}, {Res(3), a})}

\* A flag and the integer it is; integers behind it, but no division: a number divided
\* by its opposite is simplified to -1 even for the least one.
Integers ==
  LET I1 == {Res(2), I(1), I(0), I(-1)}
      First == Binary({"iadd", "isub", "imul"}, {Res(2)}, I1) \cup Unary({"ineg", "inot"}, {Res(2)})
      Second == Binary({"iadd", "isub"}, {Res(3)}, {Res(2), Res(3)}) \cup
                Binary({"isub", "imul"}, {Res(2)}, {Res(3)}) \cup
                Unary({"ineg", "inot", "ibcast"}, {Res(3)})
  IN  {Straight(<<Op("flt", <<a, b>>), Op("bicast", <<Res(1)>>), x, y>>) : x \in First, y \in Second}
      \cup {Straight(<<Op("flt", <<a, b>>), Op("bicast", <<Res(1)>>), Op("ibcast", <<Res(2)>>),
                       Op("bnot", <<Res(3)>>), Op("bnot", <<Res(4)>>)>>)}

\* Pure callbacks over two operands that may turn out equal, and square roots.
Calls ==
  LET Sum == Binary({"fadd", "fsub"}, {a, b}, {a, b})
  IN  {Straight(<<x, y, Call(m, <<Res(1), b>>), Call(n, <<Res(2), b>>),
                  Op("fsub", <<Res(3), Res(4)>>)>>) :
         x \in Sum, y \in Sum, m \in {1}, n \in {1, 2}}
      \cup {Straight(<<x, Op("sqrt", <<Res(1)>>), Op("sqrt", <<Res(1)>>),
                       Op("fmul", <<Res(2), Res(3)>>)>>) : x \in Sum}

MCSamples == {<<2, 3, 4>>, <<3, 5, 1>>, <<5, 4, 6>>, <<6, 2, 2>>, <<4, 4, 5>>, <<0, 6, 1>>, <<3, 0, 3>>}
MCSamp == {[k \in 0 .. 2 |-> s[k + 1]] : s \in MCSamples}

MCJobs == Two \cup Three \cup Diamonds \cup Loops \cup Integers \cup Calls

\* (1 / a + 1) * a
MCDistribute ==
  {Straight(<<Op("fdiv", <<FOne, a>>), Op("fadd", <<Res(1), FOne>>), Op("fmul", <<Res(2), a>>)>>)}
=============================================================================
