----------------------------- MODULE MCOptimize -----------------------------
(***************************************************************************)
(* Functions as lowering makes them: the flow graphs of if, case, while    *)
(* and their nestings, with blocks in the order they are filled; one       *)
(* variable, which blocks assign, negate or write; conditions that are     *)
(* parameters or the variable. Only phis that something reads are there,   *)
(* as SSABuilder makes them.                                               *)
(***************************************************************************)
EXTENDS Optimize

\* A flow graph: the destinations of every block; what each block may do to the
\* variable; what branches may test.
Shape(succ, acts, tests) == [succ |-> succ, acts |-> acts, tests |-> tests]

P == 2  Q == 3
PhiOf(b) == 10 + b
NotOf(b) == 30 + b
CondOf(b) == 50 + b

\* "op" writes the parameter P, "notop" negates the variable first; "all" writes
\* the variable, P and Q.
All   == {"keep", "one", "param", "not", "write"}
Some  == {"keep", "one", "write"}
Assign == {"keep", "one"}
Off   == {"keep"}
Wrote == {"write"}
Writing == {"write", "all"}
Var   == 99
NotQ  == 98    \* the negation of Q, which is no variable
Tests == {P, Var}

IfElse == Shape(<< <<2, 3>>, <<4>>, <<4>>, <<>> >>, <<All, All, All, Wrote>>, Tests)
While  == Shape(<< <<2>>, <<3, 4>>, <<2>>, <<>> >>, <<All, All, All, Wrote>>, Tests)

\* `if (..) $fatal; ..`: the block behind the call to $fatal is never entered.
Fatal == Shape(<< <<2, 4>>, <<>>, <<5>>, <<5>>, <<>> >>,
               <<All, {"write"}, Assign, All, Wrote>>, Tests)

\* A case with two arms and a default.
Case == Shape(<< <<2, 3>>, <<6>>, <<4, 5>>, <<6>>, <<6>>, <<>> >>,
              <<Assign, Some, Off, Some, Some, Wrote>>, {P, Q, Var})

\* An if in the first branch of another, two in a row, and one in a loop.
Nested == Shape(<< <<2, 6>>, <<3, 4>>, <<5>>, <<5>>, <<7>>, <<7>>, <<>> >>,
                <<Off, Assign, Some, Some, Some, Some, Wrote>>, {P, Q, Var})
Twice  == Shape(<< <<2, 3>>, <<4>>, <<4>>, <<5, 6>>, <<7>>, <<7>>, <<>> >>,
                <<Off, Some, Some, Assign, Some, Some, Wrote>>, {P, Q, Var})
Inner  == Shape(<< <<2>>, <<3, 7>>, <<4, 5>>, <<6>>, <<6>>, <<2>>, <<>> >>,
                <<Assign, Off, Off, Some, Some, Some, Wrote>>, Tests)

Branching(s) == {b \in DOMAIN s.succ : Len(s.succ[b]) = 2}
PredsOf(s, b) == {p \in DOMAIN s.succ : b \in ToSet(s.succ[p])}

\* Loop headers: blocks with a predecessor behind them.
IsLoop(s, b) == \E p \in PredsOf(s, b) : p > b

\* The variable before and after every block.
Before(s, act) ==
  LET out[b \in DOMAIN s.succ] ==
        LET in == IF b = 1 \/ PredsOf(s, b) = {} THEN FalseVal
                  ELSE IF Cardinality(PredsOf(s, b)) > 1 THEN PhiOf(b)
                  ELSE out[CHOOSE p \in PredsOf(s, b) : TRUE].after
        IN  [before |-> in,
             after |-> IF act[b] = "one" THEN TrueVal ELSE IF act[b] = "param" THEN P
                       ELSE IF act[b] \in {"not", "notop"} THEN NotOf(b) ELSE in]
  IN  out

Function(s, act, test) ==
  LET x == Before(s, act)
      n == Len(s.succ)
      B == 1 .. n
      when(c, i) == IF c THEN <<i>> ELSE <<>>
      cond(b) == IF test[b] = Var THEN x[b].after ELSE IF test[b] = NotQ THEN CondOf(b) ELSE test[b]
      term(b) == IF b \in Branching(s) THEN Branch(cond(b), s.succ[b][1], s.succ[b][2], IsLoop(s, b))
                 ELSE IF s.succ[b] = <<>> THEN Exit ELSE Jump(s.succ[b][1])
      joins == {b \in B : Cardinality(PredsOf(s, b)) > 1}
      edges(v) == IF \E b \in joins : v = PhiOf(b)
                  THEN [p \in PredsOf(s, v - 10) |-> x[p].after] ELSE <<>>
      \* What is read, from calls and conditions back through phis and negations.
      reads(v) == IF \E b \in joins : v = PhiOf(b) THEN {edges(v)[p] : p \in DOMAIN edges(v)}
                  ELSE IF \E b \in B : v = NotOf(b) THEN {x[v - 30].before} ELSE {}
      needed[k \in 0 .. 2 * n] ==
        IF k = 0 THEN {cond(b) : b \in Branching(s)}
                      \cup {x[b].before : b \in {b \in B : act[b] \in Writing}}
        ELSE LET r == needed[k - 1] IN r \cup UNION {reads(v) : v \in r}
      live == needed[2 * n]
      body(b) == when(x[b].after = NotOf(b) /\ NotOf(b) \in live, Inst("bnot", x[b].before, NotOf(b)))
                 \o when(act[b] = "all", Inst("call", Q, 80)) \o when(act[b] = "all", Inst("call", P, 81))
                 \o when(act[b] \in {"op", "notop"}, Inst("call", P, b))
                 \o when(act[b] \in Writing, Inst("call", x[b].before, b))
                 \o when(b \in Branching(s) /\ test[b] = NotQ, Inst("bnot", Q, CondOf(b)))
  IN  [layout |-> [b \in B |-> b], panicked |-> FALSE,
       phis |-> [b \in B |-> IF b \in joins /\ PhiOf(b) \in live THEN <<PhiOf(b)>> ELSE <<>>],
       edges |-> [v \in {PhiOf(b) : b \in joins} |-> IF v \in live THEN edges(v) ELSE <<>>],
       body |-> [b \in B |-> body(b)],
       term |-> [b \in B |-> term(b)]]

FunctionsOf(shapes) ==
  UNION {{Function(s, act, test) :
            act \in {a \in [DOMAIN s.succ -> UNION ToSet(s.acts)] :
                       \A b \in DOMAIN s.succ : a[b] \in s.acts[b]},
            test \in [Branching(s) -> s.tests]} : s \in shapes}

\* What was in block 2 of Fatal has moved to the initialisation.
Moved == [Fatal EXCEPT !.acts[2] = Off]

MCJobs ==
  [func : FunctionsOf({IfElse, While, Fatal, Case, Nested, Twice, Inner}),
   passes : {<<"sccp", "simplify_cfg_no_phi_merge", "adce", "simplify_cfg">>,
             <<"simplify_cfg", "sccp", "simplify_cfg">>}]
  \cup [func : FunctionsOf({Moved}), passes : {<<"adce", "simplify_cfg">>}]

\* Constant propagation alone (SolverSpec).
MCSolverJobs ==
  [func : FunctionsOf({IfElse, While, Fatal, Inner}), passes : {<<"sccp">>}]

\* Two tests of one variable, and a loop behind the second that starts from what is
\* computed between them:
\*   b = 0; while (P) { if (b) { x = !0; if (b) { a = 1; while (a) { x = !x; a = 0; }
\*                                             if (!Q) x = 1; write(x); } }  b = Q; }
MCBottomJobs ==
  LET b == PhiOf(2)  x == PhiOf(6)  a == 60  y == PhiOf(11)
      empty == [n \in 1 .. 16 |-> <<>>]
  IN  {[passes |-> <<"sccp">>,
        func |->
          [layout |-> [n \in 1 .. 16 |-> n], panicked |-> FALSE,
           phis  |-> [empty EXCEPT ![2] = <<b>>, ![6] = <<x, a>>, ![11] = <<y>>],
           edges |-> b :> (1 :> FalseVal @@ 15 :> Q)
                     @@ x :> (5 :> NotOf(4) @@ 7 :> NotOf(7))
                     @@ a :> (5 :> TrueVal @@ 7 :> FalseVal)
                     @@ y :> (9 :> x @@ 10 :> TrueVal),
           body  |-> [empty EXCEPT ![4] = <<Inst("bnot", FalseVal, NotOf(4))>>,
                                   ![7] = <<Inst("bnot", x, NotOf(7))>>,
                                   ![11] = <<Inst("call", y, 11)>>],
           term  |-> <<Jump(2), Branch(P, 3, 16, TRUE), Branch(b, 4, 14, FALSE),
                       Branch(b, 5, 12, FALSE), Jump(6), Branch(a, 7, 8, TRUE), Jump(6),
                       Branch(Q, 9, 10, FALSE), Jump(11), Jump(11), Jump(13), Jump(13),
                       Jump(15), Jump(15), Jump(2), Exit>>]]}
=============================================================================
