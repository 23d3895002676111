----------------------------- MODULE InitSplit -----------------------------
(***************************************************************************)
(* The split of a module's function into what can be computed once, before *)
(* the simulation (init), and what depends on the operating point (eval):  *)
(* refresh_op_dependent_insts and propagate_taint decide, Initialization   *)
(* of openvaf/sim_back/src/init.rs copies the independent instructions,    *)
(* takes the tagged ones out of eval, whose readers get a slot of the      *)
(* cache instead, and lets the passes of Optimize clean up both functions. *)
(***************************************************************************)
EXTENDS Optimize

CONSTANTS Dependent,   \* the parameters that change with the operating point
          Tagged       \* the values that were assigned to a variable of the source

ASSUME InitSplitAssumption == Dependent \subseteq Params

VARIABLES init, eval,      \* the two functions while the other one is in `func`
          op_dependent_insts,
          cached_vals,     \* values that eval reads from the cache
          control_dep      \* the frontiers eval's dead code elimination used

split == <<init, eval, op_dependent_insts, cached_vals, control_dep>>
all   == <<vars, split>>

SplitInit ==
  /\ Init /\ init = <<>> /\ eval = <<>>
  /\ op_dependent_insts = {} /\ cached_vals = {} /\ control_dep = <<>>

-----------------------------------------------------------------------------
(* propagate_taint                                                         *)

Insts(f, b) ==
  {Work("phi", v) : v \in Phis(f, b)} \cup {Work(i.op, i.res) : i \in ToSet(f.body[b])}
  \cup {Work("br", b)}

InstUses(f, v) ==
  {Work("phi", phi) : phi \in UsingPhis(f, v)}
  \cup UNION {{Work(f.body[b][k].op, f.body[b][k].res) : k \in UsingInsts(f, b, v)} :
                b \in Blocks(f)}
  \cup {Work("br", b) : b \in {b \in Blocks(f) : f.term[b].use = v}}

\* taint_block: the blocks a walk from b meets before `end`.
tainted_blocks(f, g, b, end) ==
  LET grow[n \in 0 .. Len(f.layout)] ==
        IF n = 0 THEN {b} \ {end}
        ELSE LET r == grow[n - 1] IN r \cup UNION {ToSet(g.succ[c]) \ {end} : c \in r}
  IN  grow[Len(f.layout)]

\* Everything between a branch and where its two sides meet.
taint_branch(f, g, b, end) ==
  UNION {Insts(f, c) : c \in UNION {tainted_blocks(f, g, d, end) : d \in ToSet(f.term[b].dst)}}

taint_jump(f, b) == {Work("phi", v) : v \in UNION {Phis(f, d) : d \in ToSet(f.term[b].dst)}}

\* loop_block_map: a loop should be tainted as a whole, but the map that is
\* built holds no block of a loop other than its header.
loop_blocks(f, header) == {header}

taint_loops(f, T) ==
  LET insts(b) == UNION {Insts(f, c) : c \in loop_blocks(f, b)}
  IN  UNION {insts(b) : b \in {b \in Blocks(f) : f.term[b].loop_entry /\ insts(b) \cap T # {}}}

taint_inst(f, g, idom, w) ==
  IF w.kind # "br" THEN IF w.kind = "call" THEN {} ELSE InstUses(f, w.at)
  ELSE IF IsBranch(f, w.at) THEN taint_branch(f, g, w.at, idom[w.at])
  ELSE taint_jump(f, w.at)

\* The least set that contains the readers of dependent parameters and is closed.
propagate_taint(f, g) ==
  LET idom == ipdom(f, g)
      step(T) == T \cup taint_loops(f, T) \cup UNION {taint_inst(f, g, idom, w) : w \in T}
      insts == UNION {Insts(f, b) : b \in Blocks(f)}
      solve[n \in 0 .. Cardinality(insts)] ==
        IF n = 0 THEN UNION {InstUses(f, v) : v \in Dependent}
        ELSE LET T == solve[n - 1] IN step(T)
  IN  solve[Cardinality(insts)]

-----------------------------------------------------------------------------
(* split_block, copy_instruction                                           *)

\* Mutant: terminators are copied as they are.
copy_term_Same(f, T, b) == f.term[b]

\* A branch that depends on the operating point goes to its else side in init.
copy_term(f, T, b) ==
  IF Work("br", b) \in T /\ IsBranch(f, b) THEN Jump(f.term[b].dst[2]) ELSE f.term[b]

InitOf(f, T) ==
  [f EXCEPT
     !.phis  = [b \in DOMAIN @ |-> SelectSeq(@[b], LAMBDA v : Work("phi", v) \notin T)],
     !.edges = [v \in DOMAIN @ |-> IF Work("phi", v) \in T THEN <<>> ELSE @[v]],
     !.body  = [b \in DOMAIN @ |-> SelectSeq(@[b], LAMBDA i : Work(i.op, i.res) \notin T)],
     !.term  = [b \in DOMAIN @ |-> copy_term(f, T, b)]]

\* The instructions in the order the cursor meets them.
InstOrder(f) ==
  FlattenSeq([k \in DOMAIN f.layout |->
    LET b == f.layout[k]
    IN  [j \in DOMAIN f.phis[b] |-> Work("phi", f.phis[b][j])]
        \o [j \in DOMAIN f.body[b] |-> Work(f.body[b][j].op, f.body[b][j].res)]])

\* A copy that was tagged, or that nothing reads, leaves eval.
EvalOf(f, T) ==
  FoldLeft(LAMBDA h, w : IF w \notin T /\ (w.at \in Tagged \/ w.kind = "call" \/ InstUses(h, w.at) = {})
                         THEN RemoveResult(h, w.at) ELSE h,
           f, InstOrder(f))

SplitBlocks ==
  /\ Starts("split")
  /\ LET T == propagate_taint(func, cfg)
     IN  /\ op_dependent_insts' = T
         /\ init' = InitOf(func, T) /\ func' = EvalOf(func, T)
         /\ control_dep' = compute_postdom_frontiers(func, cfg)
  /\ UNCHANGED <<cfg, phase, simplify, solver, adce, eval, cached_vals>>

-----------------------------------------------------------------------------
(* build_init_cache, after dead code elimination has run over eval         *)

Slot(v) == 100 + v

\* ensure_optbarrier keeps the value alive in init: behind the phis, or behind
\* the instruction.
ensure_optbarrier(f, v) ==
  LET b == CHOOSE b \in Blocks(f) : v \in Results(f, b)
      at == IF v \in Phis(f, b) THEN 1 ELSE 1 + CHOOSE k \in DOMAIN f.body[b] : f.body[b][k].res = v
  IN  [f EXCEPT !.body[b] = InsertAt(@, at, Inst("optbarrier", v, Slot(v)))]

\* A value that left eval and is still read there.
cacheable(v) == v \in AllResults(init) \cap Tagged /\ InstUses(func, v) # {}

BuildCache ==
  /\ Starts("cache")
  /\ cached_vals' = {v \in AllResults(init) : cacheable(v)}
  /\ init' = FoldLeft(ensure_optbarrier, init, InOrder(cached_vals'))
  /\ UNCHANGED <<func, cfg, phase, simplify, solver, adce, eval, op_dependent_insts, control_dep>>

\* The second half of optimize: the flow graph is computed anew, for init.
SwitchToInit ==
  /\ Starts("init")
  /\ eval' = func /\ func' = init /\ cfg' = compute(init)
  /\ UNCHANGED <<phase, simplify, solver, adce, init, op_dependent_insts, cached_vals, control_dep>>

\* Dead code elimination over init, with the control dependence of eval.
StartInitDeadCode ==
  /\ Starts("adce_init") /\ phase' = "adce"
  /\ StoreAdce(StartAdce) /\ pdom_frontiers' = control_dep
  /\ UNCHANGED <<func, cfg, simplify, solver, split>>

SplitNext ==
  \/ Next /\ UNCHANGED split
  \/ SplitBlocks \/ BuildCache \/ SwitchToInit \/ StartInitDeadCode

\* The passes are through: not a deadlock.
Done == phase = "done" /\ UNCHANGED all

\* One thread runs the passes and nothing blocks it: it never rests before the
\* end. (The same as WF_all(SplitNext) where a step is possible, which is what the
\* absence of deadlocks says; without ENABLED, which is slow on these tables.)
Runs == []<>(phase = "done") \/ []<><<TRUE>>_all

Spec == SplitInit /\ [][SplitNext \/ Done]_all /\ Runs

-----------------------------------------------------------------------------
(* Properties                                                              *)

\* The passes alone, before a split, change nothing of what is written.
PassesPreserve == init = <<>> => SamePrints

Ends(f, r) == r.at = None /\ ~r.bad /\ r.from = last_block(f)

\* What init leaves in the cache: without the parameters it may not read.
InitRun(e) == Run(func, [p \in Params \ Dependent |-> e[p]], Fuel)
Cache(r)   == [v \in cached_vals |-> Read(r.vals, Slot(v))]

\* Whatever the function would have written is written, in order, by init where it
\* does not depend on the operating point, and otherwise by eval, which reads the
\* values init has left in the cache.
SplitPreserves ==
  phase = "done" /\ init # <<>> =>
    \A e \in Valuations : expected[e].ends =>
      LET i == InitRun(e)
          r == Run(eval, e @@ Cache(i), Fuel)
          dependent(c) == Work("call", c[1]) \in op_dependent_insts
      IN  /\ Ends(func, i) /\ i.out = SelectSeq(expected[e].out, LAMBDA c : ~dependent(c))
          /\ Ends(eval, r) /\ r.out = SelectSeq(expected[e].out, dependent)

\* Init reads nothing that depends on the operating point, nor what eval computes.
InitIndependent ==
  init # <<>> =>
    LET f == IF eval = <<>> THEN init ELSE func
        known == Consts \cup (Params \ Dependent) \cup AllResults(f)
    IN  \A b \in Blocks(f) :
          /\ \A v \in Phis(f, b) : \A p \in DOMAIN f.edges[v] : f.edges[v][p] \in known
          /\ \A k \in DOMAIN f.body[b] : f.body[b][k].arg \in known
          /\ IsBranch(f, b) /\ f.term[b].use # NoValue => f.term[b].cond \in known

\* The two functions do together what the one did, and the first can run before there
\* is an operating point.
SplitSound == SplitPreserves /\ InitIndependent

=============================================================================
