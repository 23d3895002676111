------------------------- MODULE AggressiveDeadCode -------------------------
(***************************************************************************)
(* aggressive_dead_code_elimination of                                     *)
(* openvaf/mir_opt/src/dead_code_aggressive.rs: everything is dead until   *)
(* something alive needs it, a branch included, which is needed by the     *)
(* blocks whose execution it decides: the rows of the post-dominance       *)
(* frontiers. The frontiers are built from the immediate post-dominators   *)
(* as compute_postdom_frontiers builds them; that the tree is right is the *)
(* subject of Dominators.                                                  *)
(***************************************************************************)
EXTENDS ConstProp

VARIABLES live_insts,         \* instructions, as in the work lists
          live_blocks, live_predecessors, live_control_flow,
          live_work_list, bb_work_list,
          marking,            \* the list that is emptied
          pdom_frontiers      \* rows, made when the pass starts

adce == <<live_insts, live_blocks, live_predecessors, live_control_flow, live_work_list,
          bb_work_list, marking, pdom_frontiers>>

-----------------------------------------------------------------------------
(* Post-dominators of the blocks that reach the end of the layout          *)

\* The blocks that reach `end` without passing `wall`.
reaching(f, g, end, wall) ==
  LET grow[n \in 0 .. Len(f.layout)] ==
        IF n = 0 THEN {end} \ {wall}
        ELSE LET r == grow[n - 1]
             IN  r \cup {b \in Blocks(f) \ {wall} : \E c \in ToSet(g.succ[b]) : c \in r}
  IN  grow[Len(f.layout)]

ipdom(f, g) ==
  LET end == last_block(f)
      all == reaching(f, g, end, None)
      over == Table([c \in all |-> all \ reaching(f, g, end, c)])  \* post-dominated by c
      strict(b) == {c \in all \ {b} : b \in over[c]}
  IN  Table([b \in DOMAIN f.term |->
               IF b \notin all \/ strict(b) = {} THEN None
               ELSE CHOOSE c \in strict(b) : \A d \in strict(b) : c \in over[d]])

\* propagate_dom_frontiers: from a successor up to the dominator of the block.
climb(idom, from, b) ==
  LET up[n \in 0 .. Cardinality(DOMAIN idom)] ==
        IF n = 0 THEN from
        ELSE LET c == up[n - 1] IN IF c = None \/ c = idom[b] THEN None ELSE idom[c]
  IN  {up[n] : n \in DOMAIN up} \ {None, idom[b]}

\* Mutant: only the first successor of a branch.
compute_postdom_frontiers_First(f, g) ==
  LET idom == ipdom(f, g)
  IN  [c \in DOMAIN f.term |->
         {b \in DOMAIN f.term : Len(g.succ[b]) = 2 /\ c \in climb(idom, g.succ[b][1], b)}]

compute_postdom_frontiers(f, g) ==
  LET idom == ipdom(f, g)
  IN  [c \in DOMAIN f.term |->
         {b \in DOMAIN f.term : /\ Len(g.succ[b]) = 2
                                /\ c \in UNION {climb(idom, d, b) : d \in ToSet(g.succ[b])}}]

-----------------------------------------------------------------------------
(* The solver, on its state as a record                                    *)

Adce == [insts |-> live_insts, blocks |-> live_blocks, preds |-> live_predecessors,
         flow |-> live_control_flow, work |-> live_work_list, bbs |-> bb_work_list,
         turn |-> marking]

StoreAdce(s) ==
  /\ live_insts' = s.insts /\ live_blocks' = s.blocks /\ live_predecessors' = s.preds
  /\ live_control_flow' = s.flow /\ live_work_list' = s.work /\ bb_work_list' = s.bbs
  /\ marking' = s.turn

Asleep == [insts |-> {}, blocks |-> {}, preds |-> {}, flow |-> {}, work |-> {}, bbs |-> {},
           turn |-> "work"]

\* A list is emptied before the other one has its turn.
Switch(s) ==
  IF s[s.turn] # {} THEN s ELSE [s EXCEPT !.turn = IF @ = "work" THEN "bbs" ELSE "work"]

mark_bb_live(s, b) ==
  IF b \in s.blocks THEN s
  ELSE [s EXCEPT !.blocks = @ \cup {b}, !.flow = @ \cup {b},
                 !.bbs = IF b \in s.flow THEN @ ELSE @ \cup {b},
                 !.insts = IF IsJump(func, b) THEN @ \cup {Work("br", b)} ELSE @]

\* The branches that decide which predecessor a live phi's block is entered from.
mark_preds_live(s, g, b) ==
  IF b \in s.preds THEN s
  ELSE [s EXCEPT !.preds = @ \cup {b}, !.flow = @ \cup g.pred[b],
                 !.bbs = @ \cup (g.pred[b] \ s.flow)]

mark_inst_live(s, w, b) ==
  IF w \in s.insts THEN s
  ELSE LET t == mark_bb_live([s EXCEPT !.insts = @ \cup {w}, !.work = @ \cup {w}], b)
       IN  IF w.kind = "phi" THEN mark_preds_live(t, cfg, b) ELSE t

mark_term_live(s, b) ==
  IF ~IsBranch(func, b) \/ Work("br", b) \in s.insts THEN s
  ELSE FoldLeft(mark_bb_live, mark_inst_live(s, Work("br", b), b), func.term[b].dst)

-----------------------------------------------------------------------------

\* Everything with a side effect is alive, the calls, and what `is_live` names,
\* the barriers. The entry block is alive from the start, and is never queued.
StartAdce ==
  LET roots(s, b) == FoldLeft(LAMBDA t, i : IF i.op # "bnot"
                                            THEN mark_inst_live(t, Work(i.op, i.res), b)
                                            ELSE t,
                              s, func.body[b])
  IN  Switch(FoldLeft(roots, [Asleep EXCEPT !.blocks = {entry_block(func)}], func.layout))

\* The values an instruction reads.
Args(w) ==
  IF w.kind = "phi" THEN {func.edges[w.at][p] : p \in DOMAIN func.edges[w.at]}
  ELSE IF w.kind = "br" THEN {func.term[w.at].cond} \ {NoValue}
  ELSE {i.arg : i \in {i \in UNION {ToSet(func.body[b]) : b \in Blocks(func)} :
                         i.op = w.kind /\ i.res = w.at}}

\* value_def: a result's instruction; parameters and constants have none.
mark_def_live(s, v) ==
  LET at == {b \in Blocks(func) : v \in Results(func, b)}
  IN  IF at = {} THEN s
      ELSE LET b == CHOOSE b \in at : TRUE
           IN  mark_inst_live(s, Work(IF v \in Phis(func, b) THEN "phi" ELSE "bnot", v), b)

MarkArgs ==
  /\ phase = "adce" /\ marking = "work"
  /\ \E w \in live_work_list :
       StoreAdce(Switch(FoldLeft(mark_def_live, [Adce EXCEPT !.work = @ \ {w}],
                                 InOrder(Args(w)))))
  /\ UNCHANGED <<func, cfg, phase, simplify, solver, pdom_frontiers>>

MarkBranches ==
  /\ phase = "adce" /\ marking = "bbs"
  /\ \E b \in bb_work_list :
       StoreAdce(Switch(FoldLeft(mark_term_live, [Adce EXCEPT !.bbs = @ \ {b}],
                                 InOrder(pdom_frontiers[b]))))
  /\ UNCHANGED <<func, cfg, phase, simplify, solver, pdom_frontiers>>

\* Dead instructions go; dead branches lose their uses and stay; a dead block
\* goes on to the else side of its branch.
Sweep(f) ==
  LET keep(kind, r) == Work(kind, r) \in live_insts
      t(b) == IF IsBranch(f, b) /\ ~keep("br", b) THEN zap_term(f, b).term[b] ELSE f.term[b]
  IN  [f EXCEPT
         !.phis = [b \in DOMAIN @ |-> SelectSeq(@[b], LAMBDA v : keep("phi", v))],
         !.edges = [v \in DOMAIN @ |-> IF keep("phi", v) THEN @[v] ELSE <<>>],
         !.body = [b \in DOMAIN @ |-> SelectSeq(@[b], LAMBDA i : keep(i.op, i.res))],
         !.term = [b \in DOMAIN @ |->
                     IF b \notin Blocks(f) THEN @[b]
                     ELSE IF b \notin live_blocks /\ IsBranch(f, b) THEN Jump(@[b].dst[2])
                     ELSE t(b)]]

SweepDead ==
  /\ phase = "adce" /\ live_work_list = {} /\ bb_work_list = {}
  /\ LET f == Sweep(func)
         dead == InOrder({b \in Blocks(func) \ live_blocks : IsBranch(func, b)})
     IN  /\ func' = f
         /\ cfg' = FoldLeft(LAMBDA g, b : recompute_block(g, f, b), cfg, dead)
  /\ phase' = "next" /\ StoreAdce(Asleep) /\ pdom_frontiers' = <<>>
  /\ UNCHANGED <<simplify, solver>>

AdceNext == MarkArgs \/ MarkBranches \/ SweepDead

=============================================================================
