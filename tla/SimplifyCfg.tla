---------------------------- MODULE SimplifyCfg ----------------------------
(***************************************************************************)
(* simplify_cfg of openvaf/mir_opt/src/simplify_cfg.rs: one step per       *)
(* visited block. A cursor walks the layout; a block that is removed has   *)
(* no successor in the layout, so a removal ends the walk, and the next    *)
(* one starts at the entry because something changed.                      *)
(***************************************************************************)
EXTENDS Mir

VARIABLES func, cfg,
          phase,          \* what runs: a pass, "next" between passes, "done"
          cursor,         \* the block to visit, None at the end of a walk
          local_changed,
          vals_changed,   \* blocks whose phis have to be looked at
          merge_phis      \* FALSE in simplify_cfg_no_phi_merge

simplify == <<cursor, local_changed, vals_changed, merge_phis>>

\* What simplify_bb works on before it moves blocks around.
State(f, g, changed, vals) == [f |-> f, g |-> g, changed |-> changed, vals |-> vals]

StartSimplify(f, g, merge) ==
  /\ func' = f /\ cfg' = g
  /\ cursor' = entry_block(f) /\ local_changed' = FALSE
  /\ vals_changed' = DOMAIN f.term
  /\ merge_phis' = merge

-----------------------------------------------------------------------------
(* const_fold_terminator                                                   *)

\* Mutant: a branch with one destination is noticed, and left as it is.
FoldTerminator_Notices(s, b) ==
  LET t == s.f.term[b]
  IN  IF IsBranch(s.f, b) /\ t.dst[1] = t.dst[2] THEN [s EXCEPT !.changed = TRUE] ELSE s

FoldTerminator(s, b) ==
  LET t == s.f.term[b]
      k == IF t.cond = TrueVal THEN 1 ELSE 2
      f == [s.f EXCEPT !.term[b] = Jump(t.dst[k])]
      dead == t.dst[3 - k]
  IN  IF ~IsBranch(s.f, b) THEN s
      ELSE IF t.dst[1] = t.dst[2]
      THEN [s EXCEPT !.f.term[b] = Jump(t.dst[1]), !.changed = TRUE]
      ELSE IF t.cond \notin Consts THEN s
      ELSE [s EXCEPT !.f = remove_phi_edges(f, dead, b),
                     !.g = recompute_block(@, f, b), !.vals = @ \cup {dead}]

-----------------------------------------------------------------------------
(* simplify_trivial_phis, simplify_duplicates_phis                         *)

\* The readers of v are looked at again, read w, and v's phi goes.
ReplacePhi(s, b, v, w) ==
  [s EXCEPT !.vals = @ \cup UsingBlocks(s.f, v),
            !.f = RemovePhi(replace_uses(@, v, w), b, v), !.changed = TRUE]

\* The one value of a phi apart from the phi itself.
trivial(f, v) ==
  LET other == {f.edges[v][p] : p \in DOMAIN f.edges[v]} \ {v}
  IN  IF Cardinality(other) = 1 THEN CHOOSE w \in other : TRUE ELSE NoValue

TrivialPhis(s, b) ==
  IF b = entry_block(s.f) THEN s
  ELSE FoldLeft(LAMBDA t, v : LET w == trivial(t.f, v)
                              IN  IF w = NoValue THEN t ELSE ReplacePhi(t, b, v, w),
                s, s.f.phis[b])

\* Of equal phis the first stays.
After(ph, v) == LET k == CHOOSE k \in DOMAIN ph : ph[k] = v IN SubSeq(ph, k + 1, Len(ph))

DuplicatePhis(s, b) ==
  FoldLeft(LAMBDA t, v :
             IF v \notin Phis(t.f, b) THEN t
             ELSE FoldLeft(LAMBDA u, w : IF u.f.edges[v] = u.f.edges[w]
                                         THEN ReplacePhi(u, b, w, v) ELSE u,
                           t, After(t.f.phis[b], v)),
           s, s.f.phis[b])

-----------------------------------------------------------------------------
(* merge_block_into_predecessor                                            *)

MergesUp(s, b) ==
  LET pred == single_predecessor(s.g, b)
  IN  /\ pred # None /\ ~self_loop(s.g, b)
      /\ unique_succ(s.g, pred) /\ s.f.phis[b] = <<>>

MergeUp(s, b) ==
  LET pred == single_predecessor(s.g, b)
      f1 == FoldLeft(LAMBDA f, c : update_phi_edges(f, c, b, pred), s.f, s.g.succ[b])
      f2 == [f1 EXCEPT !.body[pred] = @ \o f1.body[b], !.term[pred] = f1.term[b],
                       !.term[b] = Exit]
      f3 == remove_and_clear_block(f2, b)
  IN  [s EXCEPT !.f = f3, !.changed = TRUE, !.vals = @ \cup ToSet(s.g.succ[b]),
                !.g = recompute_block(recompute_block(@, f3, pred), f3, b)]

-----------------------------------------------------------------------------
(* simplify_unconditional_jmp_term: a block of phis and a jump gives its   *)
(* edges to the phis of its successor                                      *)

OnlyFeeds(f, b, dst) ==
  /\ f.body[b] = <<>>
  /\ \A v \in Phis(f, b) :
       /\ UsingPhis(f, v) \subseteq Phis(f, dst)
       /\ \A c \in DOMAIN f.term : UsingInsts(f, c, v) = {} /\ f.term[c].use # v

\* What phi, in the successor of b, gets from the predecessors of b instead.
passed(f, g, b, phi) ==
  LET v == f.edges[phi][b] IN IF v \in Phis(f, b) THEN f.edges[v] ELSE [p \in g.pred[b] |-> v]

CanMergePhis(f, g, b, dst) ==
  \A phi \in Phis(f, dst) :
    LET new == passed(f, g, b, phi)
    IN  \A p \in DOMAIN new \cap DOMAIN f.edges[phi] : f.edges[phi][p] = new[p]

MergesPhis(s, b) ==
  LET dst == s.f.term[b].dst[1]
  IN  /\ merge_phis /\ IsJump(s.f, b)
      /\ single_predecessor(s.g, dst) = None
      /\ b # entry_block(s.f)
      /\ OnlyFeeds(s.f, b, dst)
      /\ CanMergePhis(s.f, s.g, b, dst)

\* Mutant: always the first destination.
retarget_First(t, b, dst) == [t EXCEPT !.dst[1] = dst]

\* One destination of a branch, the first that is b.
retarget(t, b, dst) ==
  LET k == CHOOSE k \in DOMAIN t.dst : t.dst[k] = b /\ \A j \in 1 .. k - 1 : t.dst[j] # b
  IN  [t EXCEPT !.dst[k] = dst]

MergePhis(s, b) ==
  LET f   == s.f
      dst == f.term[b].dst[1]
      merged(phi) == Restrict(f.edges[phi], DOMAIN f.edges[phi] \ {b})
                     @@ passed(f, s.g, b, phi)
      f1 == [f EXCEPT
               !.edges = Table([v \in DOMAIN @ |-> IF v \in Phis(f, dst) THEN merged(v)
                                                   ELSE IF v \in Phis(f, b) THEN <<>> ELSE @[v]]),
               !.term = Table([c \in DOMAIN @ |-> IF c \in s.g.pred[b] THEN retarget(@[c], b, dst)
                                                  ELSE @[c]])]
  IN  [s EXCEPT !.f = remove_and_clear_block(f1, b), !.g = replace(@, b, dst),
                !.vals = @ \cup {dst}, !.changed = TRUE]

-----------------------------------------------------------------------------
(* simplify_bb                                                             *)

\* The walk goes on behind the visited block, or starts again.
Store(s, b) ==
  /\ func' = s.f /\ cfg' = s.g /\ local_changed' = s.changed /\ vals_changed' = s.vals
  /\ cursor' = next_block(s.f, b)
  /\ UNCHANGED <<phase, merge_phis>>

Here(b) ==
  /\ phase = "simplify" /\ cursor # None /\ b = cursor /\ ~func.panicked

Current == State(func, cfg, local_changed, vals_changed)

\* No predecessors but itself: not the entry, and never the last of the layout.
Unreachable(b) ==
  self_loop(cfg, b) /\ b # entry_block(func) /\ b # last_block(func)

RemoveUnreachable(b) ==
  /\ Here(b) /\ Unreachable(b)
  /\ LET f == FoldLeft(LAMBDA h, c : IF c = b THEN h ELSE remove_phi_edges(h, c, b),
                       func, cfg.succ[b])
         g == remove_and_clear_block(
                [f EXCEPT !.term[b] = Exit,
                          !.edges = [v \in DOMAIN @ |-> IF v \in Phis(f, b) THEN <<>> ELSE @[v]]], b)
     IN  Store(State(g, recompute_block(cfg, g, b), TRUE, vals_changed), b)

\* A branch to a block that only exits goes to the other side; the use of its
\* condition stays where it is.
is_empty_exit_bb(f, b) ==
  b \in Blocks(f) /\ f.phis[b] = <<>> /\ f.body[b] = <<>> /\ IsExit(f, b)

ToExit(b) == IsBranch(func, b) /\ \E d \in ToSet(func.term[b].dst) : is_empty_exit_bb(func, d)

SkipExit(b) ==
  /\ Here(b) /\ ~Unreachable(b) /\ ToExit(b)
  /\ LET t == func.term[b]
         d == IF is_empty_exit_bb(func, t.dst[1]) THEN t.dst[2] ELSE t.dst[1]
         f == [func EXCEPT !.term[b].dst = <<d>>]
     IN  Store(State(f, recompute_block(cfg, f, b), local_changed, vals_changed), b)

\* const_fold_terminator, and the phis if something they read has changed.
Tidied(b) ==
  LET s == FoldTerminator(Current, b)
  IN  IF b \in s.vals THEN DuplicatePhis(TrivialPhis([s EXCEPT !.vals = @ \ {b}], b), b) ELSE s

SimplifyBlock(b) ==
  /\ Here(b) /\ ~Unreachable(b) /\ ~ToExit(b)
  /\ LET s == Tidied(b)
     IN  \/ MergesUp(s, b) /\ Store(MergeUp(s, b), b)
         \/ ~MergesUp(s, b) /\ MergesPhis(s, b) /\ Store(MergePhis(s, b), b)
         \/ ~MergesUp(s, b) /\ ~MergesPhis(s, b) /\ Store(s, b)

\* The end of a walk of iteratively_simplify_cfg.
WalkAgain ==
  /\ phase = "simplify" /\ cursor = None /\ local_changed /\ ~func.panicked
  /\ cursor' = entry_block(func) /\ local_changed' = FALSE
  /\ UNCHANGED <<func, cfg, phase, vals_changed, merge_phis>>

SimplifyEnds ==
  /\ phase = "simplify" /\ cursor = None /\ ~local_changed /\ ~func.panicked
  /\ phase' = "next" /\ vals_changed' = {} /\ merge_phis' = FALSE
  /\ UNCHANGED <<func, cfg, cursor, local_changed>>

SimplifyNext ==
  \/ \E b \in DOMAIN func.term : RemoveUnreachable(b) \/ SkipExit(b) \/ SimplifyBlock(b)
  \/ WalkAgain \/ SimplifyEnds

=============================================================================
