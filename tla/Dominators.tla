----------------------------- MODULE Dominators -----------------------------
(***************************************************************************)
(* DominatorTree::compute of openvaf/mir/src/dominators.rs: a post-order   *)
(* of the blocks, numbers in reverse post-order, and Cooper's iteration    *)
(* for the immediate dominators; forwards from the first block of the      *)
(* layout, or backwards (REVERSE) from the last one for post-dominators.   *)
(* The two traversals differ: the forward one marks a block when it enters *)
(* it, the backward one when it pushes it, so that its order is not a      *)
(* depth-first post-order. Dominance frontiers are read off the result.    *)
(*                                                                         *)
(* Blocks are 1 .. N, the first the entry, the last the end of the layout. *)
(***************************************************************************)
EXTENDS Integers, Sequences, FiniteSets

CONSTANTS N,       \* number of blocks
          Graphs   \* the flow graphs: successors of every block, in order

Block == 1 .. N
None  == 0

ASSUME DominatorsAssumption ==
  /\ N \in Nat \ {0}
  /\ \A g \in Graphs : g \in [Block -> Seq(Block)]

VARIABLES succ,       \* the flow graph: Successors of every block
          reverse,    \* REVERSE: post-dominators
          pc,         \* "order", "number", "iterate", "done"
          rpo,        \* rpo_number of every node
          idom,       \* idom of every node
          postorder,
          stack,      \* blocks, with the successors that are still to visit
          pos,        \* postorder[1 .. pos] is still to do in this pass
          cand,       \* compute_idom: the dominator so far
          other,      \* common_dominator: the other block, None outside
          todo,       \* compute_idom: predecessors to come
          changed,
          panicked    \* an expect() met None

graph == <<succ, reverse>>
order == <<postorder, stack>>
fold  == <<cand, other, todo>>
vars  == <<succ, reverse, pc, rpo, idom, postorder, stack, pos, cand, other, todo,
           changed, panicked>>

UNDEF == 0
DONE  == 1
SEEN  == 2

Succs(b) == {succ[b][k] : k \in 1 .. Len(succ[b])}
Preds(b) == {p \in Block : b \in Succs(p)}

\* The blocks compute_idom folds over, and those a traversal goes on to.
Incoming(b) == IF reverse THEN Succs(b) ELSE Preds(b)
Outgoing(b) == IF reverse THEN Preds(b) ELSE Succs(b)

Root == IF reverse THEN N ELSE 1

Frame(b, rest) == [bb |-> b, rest |-> rest]

Init ==
  /\ succ \in Graphs /\ reverse \in BOOLEAN
  /\ pc = "order" /\ postorder = <<>>
  /\ rpo = [b \in Block |-> IF b = Root THEN SEEN ELSE UNDEF]
  /\ idom = [b \in Block |-> None]
  /\ stack = <<Frame(Root, IF reverse THEN <<>> ELSE succ[Root])>>
  /\ pos = 0 /\ cand = None /\ other = None /\ todo = {}
  /\ changed = FALSE /\ panicked = FALSE

Top == stack[Len(stack)]
Pop == SubSeq(stack, 1, Len(stack) - 1)

-----------------------------------------------------------------------------
(* compute_postorder                                                       *)

\* The top of the stack has a successor left: Successors::pop takes the last.
Enter ==
  /\ pc = "order" /\ ~reverse /\ stack # <<>> /\ Top.rest # <<>>
  /\ LET k == Len(Top.rest)
         b == Top.rest[k]
         shrunk == Append(Pop, Frame(Top.bb, SubSeq(Top.rest, 1, k - 1)))
     IN  \/ /\ rpo[b] = UNDEF
            /\ rpo' = [rpo EXCEPT ![b] = SEEN]
            /\ stack' = Append(shrunk, Frame(b, succ[b]))
         \/ /\ rpo[b] # UNDEF
            /\ stack' = shrunk /\ UNCHANGED rpo
  /\ UNCHANGED <<graph, pc, idom, postorder, pos, fold, changed, panicked>>

Leave ==
  /\ pc = "order" /\ ~reverse /\ stack # <<>> /\ Top.rest = <<>>
  /\ rpo' = [rpo EXCEPT ![Top.bb] = DONE]
  /\ postorder' = Append(postorder, Top.bb)
  /\ stack' = Pop
  /\ UNCHANGED <<graph, pc, idom, pos, fold, changed, panicked>>

(* compute_reverse_postorder                                               *)

\* First visit: the block stays, its unseen predecessors go on top in the order
\* of the set that holds them.
Expand ==
  /\ pc = "order" /\ reverse /\ stack # <<>> /\ rpo[Top.bb] = SEEN
  /\ LET new == {p \in Preds(Top.bb) : rpo[p] = UNDEF}
     IN  /\ rpo' = [b \in Block |-> IF b = Top.bb THEN DONE
                                    ELSE IF b \in new THEN SEEN ELSE rpo[b]]
         /\ \E more \in [1 .. Cardinality(new) -> new] :
              /\ \A b \in new : \E k \in DOMAIN more : more[k] = b
              /\ \A j, k \in DOMAIN more : j < k => more[j] < more[k]
              /\ stack' = stack \o [k \in DOMAIN more |-> Frame(more[k], <<>>)]
  /\ UNCHANGED <<graph, pc, idom, postorder, pos, fold, changed, panicked>>

\* Second visit.
Retire ==
  /\ pc = "order" /\ reverse /\ stack # <<>> /\ rpo[Top.bb] = DONE
  /\ postorder' = Append(postorder, Top.bb)
  /\ stack' = Pop
  /\ UNCHANGED <<graph, pc, rpo, idom, pos, fold, changed, panicked>>

-----------------------------------------------------------------------------
(* compute_domtree                                                         *)

\* The root gets number 2; it is the last of the post-order and is skipped.
StartNumbers ==
  /\ pc = "order" /\ stack = <<>>
  /\ pc' = "number" /\ pos' = Len(postorder) - 1
  /\ rpo' = [rpo EXCEPT ![postorder[Len(postorder)]] = 2]
  /\ UNCHANGED <<graph, idom, order, fold, changed, panicked>>

Current == postorder[pos]

\* Mutant: every predecessor counts, numbered or not.
ready_All(b) == Incoming(b)

\* The predecessors that compute_idom sees: reachable and numbered.
ready(b) == {p \in Incoming(b) : rpo[p] > 1}

\* compute_idom: the first predecessor; there must be one.
First ==
  /\ pc \in {"number", "iterate"} /\ pos > 0 /\ cand = None /\ ~panicked
  /\ \/ /\ ready(Current) = {}
        /\ panicked' = TRUE /\ UNCHANGED <<cand, todo>>
     \/ \E p \in ready(Current) :
          /\ \A q \in ready(Current) : p <= q
          /\ cand' = p /\ todo' = ready(Current) \ {p}
          /\ UNCHANGED panicked
  /\ UNCHANGED <<graph, pc, rpo, idom, order, pos, other, changed>>

\* compute_idom: common_dominator is called with the next one.
Another ==
  /\ cand # None /\ other = None /\ todo # {} /\ ~panicked
  /\ \E p \in todo :
       /\ \A q \in todo : p <= q
       /\ other' = p /\ todo' = todo \ {p}
  /\ UNCHANGED <<graph, pc, rpo, idom, order, pos, cand, changed, panicked>>

\* common_dominator: the block with the larger number goes to its immediate
\* dominator, which must be there.
Climb ==
  /\ other # None /\ ~panicked
  /\ \/ /\ rpo[cand] < rpo[other] /\ idom[other] # None
        /\ other' = idom[other] /\ UNCHANGED <<cand, panicked>>
     \/ /\ rpo[cand] > rpo[other] /\ idom[cand] # None
        /\ cand' = idom[cand] /\ UNCHANGED <<other, panicked>>
     \/ /\ rpo[cand] < rpo[other] /\ idom[other] = None
        /\ panicked' = TRUE /\ UNCHANGED <<cand, other>>
     \/ /\ rpo[cand] > rpo[other] /\ idom[cand] = None
        /\ panicked' = TRUE /\ UNCHANGED <<cand, other>>
     \/ /\ rpo[cand] = rpo[other]
        /\ other' = None /\ UNCHANGED <<cand, panicked>>
  /\ UNCHANGED <<graph, pc, rpo, idom, order, pos, todo, changed>>

Folded == cand # None /\ other = None /\ todo = {} /\ ~panicked

\* Mutant: numbers grow with the post-order, not against it.
Number_PostOrder ==
  /\ pc = "number" /\ Folded
  /\ rpo' = [rpo EXCEPT ![Current] = pos + 2]
  /\ idom' = [idom EXCEPT ![Current] = cand]
  /\ cand' = None /\ pos' = pos - 1
  /\ UNCHANGED <<graph, pc, order, other, todo, changed, panicked>>

\* The first pass numbers the block and sets its immediate dominator.
Number ==
  /\ pc = "number" /\ Folded
  /\ rpo' = [rpo EXCEPT ![Current] = Len(postorder) - pos + 2]
  /\ idom' = [idom EXCEPT ![Current] = cand]
  /\ cand' = None /\ pos' = pos - 1
  /\ UNCHANGED <<graph, pc, order, other, todo, changed, panicked>>

\* Later passes correct it.
Correct ==
  /\ pc = "iterate" /\ Folded
  /\ changed' = (changed \/ idom[Current] # cand)
  /\ idom' = [idom EXCEPT ![Current] = cand]
  /\ cand' = None /\ pos' = pos - 1
  /\ UNCHANGED <<graph, pc, rpo, order, other, todo, panicked>>

\* Mutant: one pass is enough.
EndPass_Once ==
  /\ pc \in {"number", "iterate"} /\ pos = 0
  /\ pc' = "done" /\ pos' = pos
  /\ changed' = FALSE
  /\ UNCHANGED <<graph, rpo, idom, order, fold, panicked>>

\* Mutant: the flag is never taken back.
EndPass_Sticky ==
  /\ pc \in {"number", "iterate"} /\ pos = 0
  /\ LET again == pc = "number" \/ changed
     IN  /\ pc' = IF again THEN "iterate" ELSE "done"
         /\ pos' = IF again THEN Len(postorder) - 1 ELSE 0
  /\ UNCHANGED <<graph, rpo, idom, order, fold, changed, panicked>>

\* A pass ends: another one follows the first, and every one that changed.
EndPass ==
  /\ pc \in {"number", "iterate"} /\ pos = 0
  /\ LET again == pc = "number" \/ changed
     IN  /\ pc' = IF again THEN "iterate" ELSE "done"
         /\ pos' = IF again THEN Len(postorder) - 1 ELSE 0
  /\ changed' = FALSE
  /\ UNCHANGED <<graph, rpo, idom, order, fold, panicked>>

Next ==
  \/ Enter \/ Leave \/ Expand \/ Retire
  \/ StartNumbers \/ First \/ Another \/ Climb \/ Number \/ Correct \/ EndPass

Spec     == Init /\ [][Next]_vars
FairSpec == Spec /\ WF_vars(Next)

-----------------------------------------------------------------------------
(* What is read off the result.                                            *)

\* The way up from a block, None above the root.
Up(b) == LET up[k \in 0 .. N] ==
               IF k = 0 THEN b
               ELSE IF up[k - 1] = None THEN None ELSE idom[up[k - 1]]
         IN  up

\* dominates_: block climbs while its number is the larger one.
dominates(block, dominator) ==
  \E k \in 0 .. N :
    /\ Up(block)[k] = dominator
    /\ \A j \in 0 .. k - 1 : rpo[Up(block)[j]] > rpo[dominator]

\* propagate_dom_frontiers: the blocks from start up to, but without, end.
Climbed(start, end) ==
  {Up(start)[k] : k \in {j \in 0 .. N : \A i \in 0 .. j : Up(start)[i] \notin {end, None}}}

\* compute_dom_frontiers looks at blocks with two predecessors or more,
\* compute_postdom_frontiers at those with two successors.
JoinOrFork(bb) == Cardinality(Incoming(bb)) > 1

\* row(b) of the matrix of frontiers.
frontier(b) ==
  {bb \in Block : JoinOrFork(bb) /\ \E p \in Incoming(bb) : b \in Climbed(p, idom[bb])}

-----------------------------------------------------------------------------
(* Dominance by its definition.                                            *)

\* The blocks that a path from the root reaches without entering avoid.
ReachedWithout(avoid) ==
  LET reach[k \in 0 .. N] ==
        IF k = 0 THEN {Root} \ avoid
        ELSE reach[k - 1] \cup ((UNION {Outgoing(b) : b \in reach[k - 1]}) \ avoid)
  IN  reach[N]

Reached == ReachedWithout({})
Dom(a, b)       == b \notin ReachedWithout({a})
StrictDom(a, b) == a # b /\ Dom(a, b)

TypeOK ==
  /\ succ \in Graphs /\ reverse \in BOOLEAN /\ pc \in {"order", "number", "iterate", "done"}
  /\ rpo \in [Block -> Nat] /\ idom \in [Block -> Block \cup {None}]
  /\ postorder \in Seq(Block) /\ pos \in 0 .. Len(postorder)
  /\ stack \in Seq([bb : Block, rest : Seq(Block)])
  /\ cand \in Block \cup {None} /\ other \in Block \cup {None} /\ todo \subseteq Block
  /\ changed \in BOOLEAN /\ panicked \in BOOLEAN

\* "block node must have one reachable predecessor", "Unreachable basic block?":
\* compute_idom always finds a numbered predecessor and common_dominator never
\* climbs past the root, in whatever order the traversal has left the blocks.
NoPanic == ~panicked

\* The immediate dominator of a block has a smaller number than the block: the
\* climb of common_dominator comes to an end.
ClimbsDown ==
  \A b \in Block : idom[b] # None => 1 < rpo[idom[b]] /\ rpo[idom[b]] < rpo[b]

\* In the end a block has a number of its own if and only if a path joins it and
\* the root, and its immediate dominator is the nearest of the blocks that are
\* on every such path.
ImmediateDominators ==
  pc = "done" =>
    /\ \A b \in Block : rpo[b] > 1 <=> b \in Reached
    /\ \A a, b \in Reached : rpo[a] = rpo[b] => a = b
    /\ \A b \in Reached \ {Root} :
         /\ StrictDom(idom[b], b)
         /\ \A d \in Reached : StrictDom(d, b) => Dom(d, idom[b])

\* The walk of dominates() answers what dominance means.
DominatesAnswers ==
  pc = "done" => \A a, b \in Reached : dominates(b, a) <=> Dom(a, b)

\* The rows of the frontiers are where dominance ends: b dominates a neighbour
\* of bb but not, strictly, bb. Backwards this is control dependence.
Frontiers ==
  pc = "done" => \A b, bb \in Reached :
    bb \in frontier(b) <=> /\ \E p \in Incoming(bb) \cap Reached : Dom(b, p)
                           /\ ~StrictDom(b, bb)

\* The trees are those of the definition, and what clients ask of them is answered as
\* dominance and control dependence are defined.
Dominance == ImmediateDominators /\ DominatesAnswers /\ Frontiers

\* The iteration reaches its fixed point, on irreducible graphs too.
Terminates == <>(pc = "done")

=============================================================================
