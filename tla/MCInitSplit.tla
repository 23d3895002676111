---------------------------- MODULE MCInitSplit ----------------------------
(***************************************************************************)
(* Functions of MCOptimize's kind, P a quantity of the simulation and Q a  *)
(* parameter of the instance, with the passes of a module in their order.  *)
(* Loops write P in their body only in the jobs of the second run.         *)
(***************************************************************************)
EXTENDS InitSplit, MCOptimize

Flows == {"keep", "one", "param", "not", "op"}
Few   == {"one", "not", "op"}
End   == {"all"}
Conds == {P, NotQ, Var}

IfElse2 == Shape(IfElse.succ, <<Flows, Flows, Flows \cup {"write"}, End>>, Conds)
While2  == Shape(While.succ, <<Flows, Off, All, End>>, Conds)
Fatal2  == Shape(Fatal.succ, <<{"op"}, {"write", "op"}, Few, Flows, End>>, Conds)
Twice2  == Shape(Twice.succ, <<Off, Few, Few, Assign, Few, Few, End>>, Conds)
Inner2  == Shape(Inner.succ, <<Assign, Off, Off, {"keep", "one", "not"}, {"not", "write"}, Off, End>>, Conds)

SplitPasses == <<"sccp", "simplify_cfg_no_phi_merge", "split", "adce", "cache", "simplify_cfg",
                 "init", "adce_init", "simplify_cfg">>

MCSplitJobs ==
  MCJobs \cup
  [func : FunctionsOf({IfElse2, While2, Fatal2, Twice2, Inner2}), passes : {SplitPasses}]

\* A loop over the parameters of the instance whose body writes P.
Counting == Shape(While.succ, <<Assign, Off, {"op", "notop", "write"}, End>>, {Q, Var})
MCLoopJobs == [func : FunctionsOf({Counting}), passes : {SplitPasses}]

\* A test of the instance's parameters, and nothing but writes of P behind it.
Check == Shape(IfElse.succ, <<Off, {"write"}, Off, {"op"}>>, {Q})
MCExitJobs == [func : FunctionsOf({Check}), passes : {SplitPasses}]

MCParams == {P, Q}
MCDependent == {P}
MCTagged == {PhiOf(b) : b \in 1 .. 7} \cup {NotOf(b) : b \in 1 .. 7}
=============================================================================
