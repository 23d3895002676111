------------------------------ MODULE Optimize ------------------------------
(***************************************************************************)
(* The passes in the orders the back end runs them, on functions as        *)
(* lowering makes them. How Initialization splits a function between two   *)
(* of the passes is the subject of InitSplit, which completes the          *)
(* specification. SolverSpec is constant propagation alone, of which       *)
(* ConstPropProofs shows that its constants are right.                     *)
(***************************************************************************)
EXTENDS AggressiveDeadCode

CONSTANTS Jobs,        \* functions, each with the passes that are run on it
          Params,      \* parameters, which are values too
          Fuel         \* blocks a run may take before it counts as endless

ASSUME OptimizeAssumption == Fuel \in Nat /\ Params \cap Consts = {}

VARIABLES passes,      \* still to run
          expected     \* what the function writes, for all values of the parameters

vars == <<func, cfg, phase, simplify, solver, adce, passes, expected>>

Valuations == [Params -> {FalseVal, TrueVal}]

\* What is written before the end, if the run comes to the end of the layout.
Writes(f) ==
  [e \in Valuations |->
     LET r == Run(f, e, Fuel)
         ends == r.at = None /\ ~r.bad /\ r.from = last_block(f)
     IN  [ends |-> ends, out |-> IF ends THEN r.out ELSE <<>>]]

Init ==
  /\ \E j \in Jobs : func = j.func /\ passes = j.passes
  /\ cfg = compute(func) /\ phase = "next"
  /\ cursor = None /\ local_changed = FALSE /\ vals_changed = {} /\ merge_phis = FALSE
  /\ vals = Idle.vals /\ overdef_work_list = {} /\ inst_work_list = {}
  /\ block_work_list = {} /\ draining = "blocks" /\ feasible_edges = <<>> /\ executable_blocks = {}
  /\ live_insts = {} /\ live_blocks = {} /\ live_predecessors = {} /\ live_control_flow = {}
  /\ live_work_list = {} /\ bb_work_list = {} /\ marking = "work"
  /\ pdom_frontiers = <<>>
  /\ expected = Writes(func)
  /\ \E e \in Valuations : expected[e].ends

-----------------------------------------------------------------------------

Starts(pass) ==
  /\ phase = "next" /\ passes # <<>> /\ Head(passes) = pass /\ ~func.panicked
  /\ passes' = Tail(passes)
  /\ UNCHANGED expected

StartConstProp ==
  /\ Starts("sccp") /\ phase' = "sccp" /\ StoreSolver(StartSolver(func, Params))
  /\ UNCHANGED <<func, cfg, simplify, adce>>

StartSimplifyCfg ==
  /\ \/ Starts("simplify_cfg") /\ StartSimplify(func, cfg, TRUE)
     \/ Starts("simplify_cfg_no_phi_merge") /\ StartSimplify(func, cfg, FALSE)
  /\ phase' = "simplify"
  /\ UNCHANGED <<solver, adce>>

StartDeadCode ==
  /\ Starts("adce") /\ phase' = "adce"
  /\ StoreAdce(StartAdce) /\ pdom_frontiers' = compute_postdom_frontiers(func, cfg)
  /\ UNCHANGED <<func, cfg, simplify, solver>>

Finish ==
  /\ phase = "next" /\ passes = <<>> /\ phase' = "done"
  /\ UNCHANGED <<func, cfg, simplify, solver, adce, passes, expected>>

Next ==
  \/ StartConstProp \/ StartSimplifyCfg \/ StartDeadCode \/ Finish
  \/ SimplifyNext /\ UNCHANGED <<solver, adce, passes, expected>>
  \/ ConstPropNext /\ UNCHANGED <<adce, passes, expected>>
  \/ AdceNext /\ UNCHANGED <<passes, expected>>


-----------------------------------------------------------------------------
(* Constant propagation alone, on a function in static single assignment   *)
(* form                                                                    *)

\* Values that are no result of an instruction.
Given == Consts \cup Params

IsBnot(i) == i.op = "bnot"

\* The values that every way to a block computes: a block has what each of its
\* predecessors has and computes.
PredBlocks(f, b) == {p \in Blocks(f) : b \in ToSet(f.term[p].dst)}

Available(f) ==
  LET start == Table([b \in Blocks(f) |->
                 IF b = entry_block(f) THEN Given ELSE AllResults(f) \cup Given])
      narrow(has, b) ==
        {v \in has[b] : \A p \in PredBlocks(f, b) : v \in has[p] \cup Results(f, p)}
      round(has, n) == Table([b \in Blocks(f) |-> narrow(has, b)])
  IN  FoldLeft(round, start, f.layout)

\* The parts are where they belong, and no value is the result of two of them.
Formed(f) ==
  /\ f.layout \in Seq(Nat \ {None}) /\ f.layout # <<>> /\ Blocks(f) \subseteq DOMAIN f.term
  /\ \A b \in Blocks(f) :
       /\ f.phis[b] \in Seq(Int) /\ f.term[b].dst \in Seq(Blocks(f)) /\ Len(f.term[b].dst) \in 0 .. 2
       /\ f.body[b] \in Seq([op : {"bnot", "call"}, arg : Int, res : Int])
  /\ AllResults(f) \cap Given = {}
  /\ \A b, c \in Blocks(f) : Results(f, b) \cap Results(f, c) # {} => b = c
  /\ \A b \in Blocks(f) :
       /\ \A j, k \in DOMAIN f.body[b] :
            IsBnot(f.body[b][j]) /\ IsBnot(f.body[b][k]) /\ f.body[b][j].res = f.body[b][k].res => j = k
       /\ \A k \in DOMAIN f.body[b] : IsBnot(f.body[b][k]) => f.body[b][k].res \notin Phis(f, b)

\* Whatever is read has been computed, on every way to the reader.
Strict(f, before) ==
  /\ before[entry_block(f)] \subseteq Given /\ f.phis[entry_block(f)] = <<>>
  /\ \A b \in Blocks(f) :
       LET ready(k) == before[b] \cup Phis(f, b)
                       \cup {f.body[b][j].res : j \in {j \in 1 .. k - 1 : IsBnot(f.body[b][j])}}
       IN  /\ before[b] \subseteq AllResults(f) \cup Given
           /\ \A k \in DOMAIN f.body[b] : f.body[b][k].arg \in ready(k)
           /\ IsBranch(f, b) => /\ f.term[b].cond \in before[b] \cup Results(f, b)
                                /\ f.term[b].use = f.term[b].cond
           /\ \A c \in ToSet(f.term[b].dst) :
                /\ before[c] \subseteq before[b] \cup Results(f, b)
                /\ \A phi \in Phis(f, c) : /\ b \in DOMAIN f.edges[phi]
                                           /\ f.edges[phi][b] \in before[b] \cup Results(f, b)
           /\ \A phi \in Phis(f, b) : DOMAIN f.edges[phi] \subseteq Blocks(f)

SolverInit ==
  /\ Init /\ passes = <<"sccp">> /\ ~func.panicked
  /\ Formed(func) /\ Strict(func, Available(func))

SolverNext ==
  \/ StartConstProp
  \/ ConstPropNext /\ UNCHANGED <<adce, passes, expected>>

SolverSpec == SolverInit /\ [][SolverNext]_vars

-----------------------------------------------------------------------------
(* Properties                                                              *)

\* Blocks of the layout are blocks, each once, with at most two destinations;
\* blocks outside it are empty; the passes visit blocks of the layout.
TypeOK ==
  /\ Blocks(func) \subseteq DOMAIN func.term /\ Cardinality(Blocks(func)) = Len(func.layout)
  /\ \A b \in DOMAIN func.term \ Blocks(func) : func.phis[b] = <<>> /\ func.body[b] = <<>>
  /\ \A b \in DOMAIN func.term : Len(func.term[b].dst) \in 0 .. 2
  /\ phase \in {"next", "simplify", "sccp", "adce", "done"}
  /\ cursor \in Blocks(func) \cup {None}
  /\ vals_changed \subseteq DOMAIN func.term
  /\ executable_blocks \subseteq Blocks(func) /\ live_blocks \subseteq Blocks(func)

\* Between passes, whatever is written before the end of the layout is written
\* as before, whatever the parameters are; no pass leaves a value that is read
\* without being computed.
SamePrints ==
  phase \in {"next", "done"} /\ ~func.panicked =>
    LET now == Writes(func)
    IN  \A e \in Valuations : expected[e].ends => now[e] = expected[e]

\* Between two visits of simplify_cfg and between passes, the flow graph that is
\* updated piece by piece is the one `compute` would build, slot by slot but for
\* a branch that goes to one block twice.
CfgMatches ==
  LET fresh == compute(func)
  IN  \A b \in Blocks(func) :
        cfg.pred[b] = fresh.pred[b] /\ ToSet(cfg.succ[b]) = ToSet(fresh.succ[b])

\* A phi has one edge for every predecessor and no other (validate: "is not a
\* predecessor of").
PhiPerPredecessor ==
  \A b \in Blocks(func) : \A v \in Phis(func, b) : DOMAIN func.edges[v] = cfg.pred[b]

\* Terminators name blocks of the layout.
DestinationsInLayout ==
  \A b \in Blocks(func) : ToSet(func.term[b].dst) \subseteq Blocks(func)

\* A use in a list stands for an argument: a branch that became a jump has left
\* the list of its condition, so that no replacement writes through it.
UsesHaveArguments ==
  /\ ~func.panicked
  /\ \A b \in DOMAIN func.term : func.term[b].use # NoValue => IsBranch(func, b)

Solved == phase = "sccp" /\ overdef_work_list = {} /\ inst_work_list = {} /\ block_work_list = {}

\* An edge that can be taken brings a phi a value the solver knows nothing of.
OperandUnknown ==
  \E b \in executable_blocks : \E phi \in Phis(func, b) : \E p \in DOMAIN func.edges[phi] :
    b \in feasible_edges[p] /\ vals[func.edges[phi][p]] = Bottom

\* When the lists are empty and the phis know their operands, no run enters a
\* block the solver takes for dead, and a value has the constant it is taken for.
ConstantsRight ==
  Solved /\ ~OperandUnknown =>
    \A e \in Valuations :
      LET r == Run(func, e, Fuel)
      IN  /\ ~r.bad /\ r.at \in executable_blocks \cup {None}
          /\ \A v \in DOMAIN vals \cap DOMAIN r.vals : Elem(vals[v]) => r.vals[v] = vals[v]

\* The same without the condition, which the code does not keep (MCBottomJobs).
SolverSound ==
  Solved =>
    \A e \in Valuations :
      LET r == Run(func, e, Fuel)
      IN  \A v \in DOMAIN vals \cap DOMAIN r.vals : Elem(vals[v]) => r.vals[v] = vals[v]

\* After simplify_cfg no branch is left whose condition aggressive dead code
\* elimination has taken away.
NoZappedBranch ==
  phase = "done" => \A b \in Blocks(func) : IsBranch(func, b) => func.term[b].use = func.term[b].cond

\* What the passes rely on in each other's results.
WellFormed ==
  /\ TypeOK /\ CfgMatches /\ PhiPerPredecessor /\ DestinationsInLayout
  /\ UsesHaveArguments /\ NoZappedBranch

\* The passes end: none repeats its walk or refills its lists for ever.
Terminates == <>(phase = "done")

=============================================================================
