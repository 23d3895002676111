-------------------------- MODULE DominatorsProofs --------------------------
(***************************************************************************)
(* compute_idom always finds a numbered predecessor, common_dominator      *)
(* never climbs past the root, and every immediate dominator has a smaller *)
(* number than its block: for any number of blocks and any flow graph,     *)
(* forwards and backwards. The argument needs of the traversal only that   *)
(* every block but the root has, later in the post-order, a neighbour that *)
(* leads to it; it does not need a depth-first order, which the backward   *)
(* traversal does not produce.                                             *)
(*                                                                         *)
(* The second part proves the tree right. Every pass keeps a one-sided     *)
(* error: what dominates a block is an ancestor of it (DomsUp). A pass     *)
(* that changes nothing makes the ancestors of a block's immediate         *)
(* dominator ancestors of all its predecessors (Settled), so that in the   *)
(* end a path to a block passes all its ancestors. Walks and frontiers are *)
(* read off the ancestors.                                                 *)
(***************************************************************************)
EXTENDS Dominators, SequenceTheorems, FiniteSetTheorems, WellFoundedInduction, TLAPS

\* In graph g the traversal goes from block a on to block b.
Leads(g, r, a, b) == IF r THEN \E k \in 1 .. Len(g[b]) : g[b][k] = a
                     ELSE \E k \in 1 .. Len(g[a]) : g[a][k] = b

\* The traversal: no block twice, the numbers say which blocks were visited,
\* the root is below all, and a block on the stack is led to from below.
Traversal ==
  pc = "order" =>
    /\ \A j, k \in 1 .. Len(stack) : stack[j].bb = stack[k].bb => j = k
    /\ \A i, j \in 1 .. Len(postorder) : postorder[i] = postorder[j] => i = j
    /\ \A i \in 1 .. Len(postorder), k \in 1 .. Len(stack) : postorder[i] # stack[k].bb
    /\ \A b \in Block : rpo[b] # UNDEF =>
         \/ \E k \in 1 .. Len(stack) : stack[k].bb = b
         \/ \E i \in 1 .. Len(postorder) : postorder[i] = b
    /\ \A k \in 1 .. Len(stack) : rpo[stack[k].bb] # UNDEF
    /\ \A i \in 1 .. Len(postorder) : rpo[postorder[i]] = DONE

Parents ==
  pc = "order" =>
    /\ stack # <<>> => stack[1].bb = Root
    /\ stack = <<>> => postorder # <<>> /\ postorder[Len(postorder)] = Root
    /\ ~reverse => \A k \in 1 .. Len(stack) : \A m \in 1 .. Len(stack[k].rest) :
                     Leads(succ, reverse, stack[k].bb, stack[k].rest[m])
    /\ \A k \in 2 .. Len(stack) :
         \E j \in 1 .. k - 1 : Leads(succ, reverse, stack[j].bb, stack[k].bb)
    /\ \A i \in 1 .. Len(postorder) :
         \/ i = Len(postorder) /\ stack = <<>>
         \/ \E k \in 1 .. Len(stack) : Leads(succ, reverse, stack[k].bb, postorder[i])
         \/ \E j \in i + 1 .. Len(postorder) : Leads(succ, reverse, postorder[j], postorder[i])

\* The passes: the blocks behind pos are numbered in reverse post-order.
Numbered(i) == pc # "number" \/ pos < i

Numbers ==
  pc # "order" =>
    /\ postorder # <<>> /\ postorder[Len(postorder)] = Root /\ pos < Len(postorder)
    /\ \A i, j \in 1 .. Len(postorder) : postorder[i] = postorder[j] => i = j
    /\ \A i \in 1 .. Len(postorder) - 1 :
         \E j \in i + 1 .. Len(postorder) : Leads(succ, reverse, postorder[j], postorder[i])
    /\ \A i \in 1 .. Len(postorder) :
         rpo[postorder[i]] = IF Numbered(i) THEN Len(postorder) - i + 2 ELSE DONE
    /\ \A b \in Block : rpo[b] > 1 => \E i \in 1 .. Len(postorder) : postorder[i] = b
    /\ \A i \in 1 .. Len(postorder) - 1 : Numbered(i) => idom[postorder[i]] # None

Trees ==
  /\ pc = "order" => \A b \in Block : idom[b] = None
  /\ ClimbsDown

\* compute_idom: all blocks it holds are numbered, and one of them has a
\* smaller number than the block it works for.
Fold ==
  /\ cand = None => other = None /\ todo = {}
  /\ cand # None =>
       /\ pc \in {"number", "iterate"} /\ pos > 0
       /\ rpo[cand] > 1
       /\ other # None => rpo[other] > 1
       /\ \A p \in todo : rpo[p] > 1
       /\ \E p \in {cand, other} \cup todo :
            p # None /\ rpo[p] < Len(postorder) - pos + 2

IInv == TypeOK /\ Traversal /\ Parents /\ Numbers /\ Trees /\ Fold /\ NoPanic

-----------------------------------------------------------------------------
(* Types.                                                                  *)

\* The flow graph maps blocks to sequences of blocks.
LEMMA GraphType ==
  ASSUME TypeOK
  PROVE  /\ succ \in [Block -> Seq(Block)] /\ N \in Nat \ {0}
         /\ Root \in Block /\ None \notin Block /\ Block \subseteq Nat
         /\ \A b \in Block : Succs(b) \subseteq Block /\ Preds(b) \subseteq Block
         /\ \A b \in Block : Incoming(b) \subseteq Block /\ Outgoing(b) \subseteq Block
<1>1. succ \in [Block -> Seq(Block)] /\ N \in Nat \ {0}
  BY DominatorsAssumption DEF TypeOK
<1>2. Root \in Block /\ None \notin Block /\ Block \subseteq Nat
  BY <1>1 DEF Root, Block, None
<1>3. \A b \in Block : Succs(b) \subseteq Block /\ Preds(b) \subseteq Block
  BY <1>1 DEF Succs, Preds
<1>4. QED
  BY <1>1, <1>2, <1>3 DEF Incoming, Outgoing

\* Popping the stack keeps what is below the top.
LEMMA PopStack ==
  ASSUME TypeOK, stack # <<>>
  PROVE  /\ Len(stack) \in Nat \ {0} /\ Top \in [bb : Block, rest : Seq(Block)]
         /\ Pop \in Seq([bb : Block, rest : Seq(Block)]) /\ Len(Pop) = Len(stack) - 1
         /\ \A k \in 1 .. Len(stack) - 1 : Pop[k] = stack[k]
<1> DEFINE F == [bb : Block, rest : Seq(Block)]
<1> HIDE DEF F
<1>1. stack \in Seq(F)
  BY DEF TypeOK, F
<1>2. Len(stack) \in Nat /\ Len(stack) # 0
  BY <1>1, EmptySeq
<1>3. Top \in F
  BY <1>1, <1>2 DEF Top
<1>4. Pop \in Seq(F) /\ Len(Pop) = Len(stack) - 1
      /\ \A k \in 1 .. Len(stack) - 1 : Pop[k] = stack[k]
  <2>1. \A k \in 1 .. Len(stack) - 1 : stack[k] \in F
    BY <1>1, <1>2
  <2>2. PICK n \in Nat : Len(stack) = n + 1
    BY <1>2
  <2>3. /\ SubSeq(stack, 1, n) \in Seq(F)
        /\ Len(SubSeq(stack, 1, n)) = IF 1 <= n THEN n - 1 + 1 ELSE 0
        /\ \A k \in 1 .. n - 1 + 1 : SubSeq(stack, 1, n)[k] = stack[1 + k - 1]
    BY <2>1, <2>2, SubSeqProperties
  <2>4. Pop = SubSeq(stack, 1, n)
    BY <2>2 DEF Pop
  <2>5. QED
    BY <2>2, <2>3, <2>4
<1>5. QED
  BY <1>2, <1>3, <1>4 DEF F

\* What is on the stack and in the post-order.
LEMMA Blocks ==
  ASSUME TypeOK
  PROVE  /\ \A k \in 1 .. Len(stack) : stack[k].bb \in Block
         /\ \A i \in 1 .. Len(postorder) : postorder[i] \in Block
         /\ Len(stack) \in Nat /\ Len(postorder) \in Nat /\ UNDEF # DONE
<1> DEFINE F == [bb : Block, rest : Seq(Block)]
<1>1. \A f \in F : f.bb \in Block
  OBVIOUS
<1> HIDE DEF F
<1>2. stack \in Seq(F) /\ postorder \in Seq(Block)
  BY DEF TypeOK, F
<1>3. \A k \in 1 .. Len(stack) : stack[k] \in F
  BY <1>2
<1>4. QED
  BY <1>1, <1>2, <1>3 DEF UNDEF, DONE

\* The initial state.
LEMMA InitType == Init => TypeOK
<1> SUFFICES ASSUME Init PROVE TypeOK
  OBVIOUS
<1> DEFINE F == [bb : Block, rest : Seq(Block)]
<1>1. succ \in [Block -> Seq(Block)] /\ Root \in Block
  BY DominatorsAssumption DEF Init, Root, Block
<1>2. Frame(Root, IF reverse THEN <<>> ELSE succ[Root]) \in F
  BY <1>1 DEF Frame
<1>3. stack \in Seq(F)
  BY <1>2 DEF Init
<1>4. postorder \in Seq(Block) /\ Len(postorder) = 0 /\ pos = 0
  BY DEF Init
<1>5. rpo \in [Block -> Nat] /\ idom \in [Block -> Block \cup {None}]
  BY DEF Init, UNDEF, SEEN, None
<1>6. /\ cand \in Block \cup {None} /\ other \in Block \cup {None} /\ todo \subseteq Block
      /\ changed \in BOOLEAN /\ panicked \in BOOLEAN /\ succ \in Graphs
      /\ reverse \in BOOLEAN /\ pc = "order"
  BY DEF Init
<1>7. pos \in 0 .. Len(postorder)
  BY <1>4
<1>8. QED
  BY <1>3, <1>4, <1>5, <1>6, <1>7 DEF TypeOK

\* Every step keeps the types.
LEMMA TypeStep ==
  ASSUME IInv, [Next]_vars
  PROVE  TypeOK'
<1> DEFINE F == [bb : Block, rest : Seq(Block)]
<1>0. TypeOK
  BY DEF IInv
<1>1. /\ succ \in [Block -> Seq(Block)] /\ None \notin Block
      /\ \A b \in Block : Preds(b) \subseteq Block /\ Incoming(b) \subseteq Block
  BY <1>0, GraphType
<1>2. CASE Enter
  <2>1. Top \in F /\ Pop \in Seq(F) /\ Top.rest # <<>>
    BY <1>0, <1>2, PopStack DEF Enter
  <2>2. Len(Top.rest) \in Nat \ {0} /\ Top.rest \in Seq(Block)
    BY <2>1, EmptySeq
  <2> DEFINE k == Len(Top.rest)
             b == Top.rest[k]
             shrunk == Append(Pop, Frame(Top.bb, SubSeq(Top.rest, 1, k - 1)))
  <2>3. b \in Block /\ SubSeq(Top.rest, 1, k - 1) \in Seq(Block)
    BY <2>2
  <2>4. shrunk \in Seq(F) /\ Append(shrunk, Frame(b, succ[b])) \in Seq(F)
    BY <1>1, <2>1, <2>3 DEF Frame
  <2>5. stack' \in Seq(F)
    BY <1>2, <2>4 DEF Enter
  <2>6. rpo' \in [Block -> Nat]
    <3>1. rpo' = rpo \/ rpo' = [rpo EXCEPT ![b] = SEEN]
      BY <1>2 DEF Enter
    <3>2. QED
      BY <1>0, <3>1 DEF TypeOK, SEEN
  <2>7. QED
    BY <1>0, <1>2, <2>5, <2>6 DEF Enter, TypeOK, graph, fold
<1>3. CASE Leave
  <2>1. Top \in F /\ Pop \in Seq(F)
    BY <1>0, <1>3, PopStack DEF Leave
  <2>2. postorder' \in Seq(Block) /\ pos \in 0 .. Len(postorder')
    BY <1>0, <1>3, <2>1 DEF Leave, TypeOK
  <2>3. QED
    BY <1>0, <1>3, <2>1, <2>2 DEF Leave, TypeOK, graph, fold, DONE
<1>4. CASE Expand
  <2> DEFINE new == {p \in Preds(Top.bb) : rpo[p] = UNDEF}
  <2>1. Top \in F /\ new \subseteq Block
    BY <1>0, <1>1, <1>4, PopStack DEF Expand
  <2>2. PICK more \in [1 .. Cardinality(new) -> new] :
          stack' = stack \o [k \in DOMAIN more |-> Frame(more[k], <<>>)]
    BY <1>4 DEF Expand
  <2>3. Cardinality(new) \in Nat
    <3>1. IsFiniteSet(Block)
      BY <1>0, GraphType, FS_Interval DEF Block
    <3>2. QED
      BY <3>1, <2>1, FS_Subset, FS_CardinalityType
  <2>4. [k \in DOMAIN more |-> Frame(more[k], <<>>)] \in Seq(F)
    <3>1. \A k \in 1 .. Cardinality(new) : more[k] \in Block
      BY <2>1, <2>2
    <3>2. \A k \in 1 .. Cardinality(new) : Frame(more[k], <<>>) \in F
      BY <3>1 DEF Frame
    <3>3. DOMAIN more = 1 .. Cardinality(new)
      BY <2>2
    <3> DEFINE pushed == [k \in 1 .. Cardinality(new) |-> Frame(more[k], <<>>)]
    <3>4. \A n \in Nat : (\A k \in 1 .. n : Frame(more[k], <<>>) \in F) =>
            [k \in 1 .. n |-> Frame(more[k], <<>>)] \in Seq(F)
      OBVIOUS
    <3>5. pushed \in Seq(F)
      BY <2>3, <3>2, <3>4
    <3>6. QED
      BY <3>3, <3>5
  <2>5. stack' \in Seq(F)
    BY <1>0, <2>2, <2>4, ConcatProperties DEF TypeOK
  <2>6. rpo' \in [Block -> Nat]
    BY <1>0, <1>4 DEF Expand, TypeOK, DONE, SEEN
  <2>7. QED
    BY <1>0, <1>4, <2>5, <2>6 DEF Expand, TypeOK, graph, fold
<1>5. CASE Retire
  <2>1. Top \in F /\ Pop \in Seq(F)
    BY <1>0, <1>5, PopStack DEF Retire
  <2>2. postorder' \in Seq(Block) /\ pos \in 0 .. Len(postorder')
    BY <1>0, <1>5, <2>1 DEF Retire, TypeOK
  <2>3. QED
    BY <1>0, <1>5, <2>1, <2>2 DEF Retire, TypeOK, graph, fold
<1>6. CASE StartNumbers
  <2>1. postorder' = postorder /\ Len(postorder) \in Nat /\ Len(postorder) > 0
    BY <1>0, <1>6, EmptySeq DEF StartNumbers, order, TypeOK, IInv, Parents
  <2>2. pos' \in 0 .. Len(postorder)
    BY <1>6, <2>1 DEF StartNumbers
  <2>3. rpo' \in [Block -> Nat]
    BY <1>0, <1>6 DEF StartNumbers, TypeOK
  <2>4. QED
    BY <1>0, <1>6, <2>1, <2>2, <2>3 DEF StartNumbers, TypeOK, graph, order, fold
<1>7. CASE First
  <2>1. Current \in Block
    BY <1>0, <1>7 DEF First, TypeOK, Current
  <2>2. ready(Current) \subseteq Block
    BY <1>1, <2>1 DEF ready
  <2>3. cand' \in Block \cup {None} /\ todo' \subseteq Block /\ panicked' \in BOOLEAN
    BY <1>0, <1>7, <2>2 DEF First, TypeOK
  <2>4. QED
    BY <1>0, <1>7, <2>3 DEF First, TypeOK, graph, order
<1>8. CASE Another
  BY <1>0, <1>8 DEF Another, TypeOK, graph, order
<1>9. CASE Climb
  <2>1. cand' \in Block \cup {None} /\ other' \in Block \cup {None} /\ panicked' \in BOOLEAN
    <3>1. other \in Block /\ idom[other] \in Block \cup {None}
      BY <1>0, <1>9 DEF Climb, TypeOK
    <3>2. cand \in Block
      BY <1>0, <1>9 DEF Climb, IInv, Fold, TypeOK
    <3>3. idom[cand] \in Block \cup {None}
      BY <1>0, <3>2 DEF TypeOK
    <3>4. QED
      BY <1>0, <1>9, <3>1, <3>2, <3>3 DEF Climb, TypeOK
  <2>2. QED
    BY <1>0, <1>9, <2>1 DEF Climb, TypeOK, graph, order
<1>10. CASE Number
  <2>1. pos \in 1 .. Len(postorder) /\ postorder' = postorder
    BY <1>0, <1>10 DEF Number, Folded, IInv, Fold, TypeOK, order
  <2>2. Len(postorder) - pos + 2 \in Nat /\ pos - 1 \in 0 .. Len(postorder)
    BY <1>0, <2>1 DEF TypeOK
  <2>3. rpo' \in [Block -> Nat] /\ idom' \in [Block -> Block \cup {None}]
    BY <1>0, <1>10, <2>2 DEF Number, TypeOK
  <2>4. QED
    BY <1>0, <1>10, <2>1, <2>2, <2>3 DEF Number, TypeOK, graph, order
<1>11. CASE Correct
  <2>1. pos \in 1 .. Len(postorder) /\ postorder' = postorder
    BY <1>0, <1>11 DEF Correct, Folded, IInv, Fold, TypeOK, order
  <2>2. pos - 1 \in 0 .. Len(postorder)
    BY <1>0, <2>1 DEF TypeOK
  <2>3. idom' \in [Block -> Block \cup {None}] /\ changed' \in BOOLEAN
    BY <1>0, <1>11 DEF Correct, TypeOK
  <2>4. QED
    BY <1>0, <1>11, <2>1, <2>2, <2>3 DEF Correct, TypeOK, graph, order
<1>12. CASE EndPass
  <2>1. Len(postorder) \in Nat /\ Len(postorder) > 0 /\ postorder' = postorder
    BY <1>0, <1>12, EmptySeq DEF EndPass, IInv, Numbers, TypeOK, order
  <2>2. pos' \in 0 .. Len(postorder)
    BY <1>12, <2>1 DEF EndPass
  <2>3. QED
    BY <1>0, <1>12, <2>1, <2>2 DEF EndPass, TypeOK, graph, order, fold
<1>13. CASE UNCHANGED vars
  BY <1>0, <1>13 DEF vars, TypeOK
<1>14. QED
  BY <1>2, <1>3, <1>4, <1>5, <1>6, <1>7, <1>8, <1>9, <1>10, <1>11, <1>12, <1>13 DEF Next

-----------------------------------------------------------------------------
(* The traversal.                                                          *)

\* What a step that pushes does, forwards or backwards: new blocks, not visited
\* before and led to from the top, go on the stack.
LEMMA PushEffect ==
  ASSUME IInv, Enter \/ Expand
  PROVE  /\ Len(stack) \in Nat \ {0} /\ Len(stack') \in Nat /\ Len(stack') >= Len(stack)
         /\ \A k \in 1 .. Len(stack) : stack'[k].bb = stack[k].bb
         /\ \A k \in Len(stack) + 1 .. Len(stack') :
              /\ Leads(succ, reverse, stack[Len(stack)].bb, stack'[k].bb) /\ stack'[k].bb \in Block
              /\ rpo[stack'[k].bb] = UNDEF
         /\ \A j, k \in Len(stack) + 1 .. Len(stack') : stack'[j].bb = stack'[k].bb => j = k
         /\ \A b \in Block : rpo'[b] = UNDEF =>
              rpo[b] = UNDEF /\ \A k \in Len(stack) + 1 .. Len(stack') : stack'[k].bb # b
         /\ \A b \in Block : rpo[b] # UNDEF => rpo'[b] # UNDEF
         /\ \A b \in Block : rpo[b] = UNDEF /\ rpo'[b] # UNDEF =>
              \E k \in Len(stack) + 1 .. Len(stack') : stack'[k].bb = b
         /\ \A b \in Block \ {Top.bb} : rpo[b] # UNDEF => rpo'[b] = rpo[b]
         /\ ~reverse => \A k \in 1 .. Len(stack') : \A m \in 1 .. Len(stack'[k].rest) :
                          Leads(succ, reverse, stack'[k].bb, stack'[k].rest[m])
         /\ pc = "order" /\ UNCHANGED <<succ, reverse, pc, idom, postorder, pos, fold, panicked>>
<1> DEFINE F == [bb : Block, rest : Seq(Block)]
<1>0. /\ TypeOK /\ Traversal /\ Parents /\ pc = "order" /\ stack # <<>>
      /\ UNCHANGED <<succ, reverse, pc, idom, postorder, pos, fold, panicked>>
  BY DEF IInv, Enter, Expand, graph
<1>1. /\ Len(stack) \in Nat \ {0} /\ Top \in F /\ Top = stack[Len(stack)]
      /\ Pop \in Seq(F) /\ Len(Pop) = Len(stack) - 1
      /\ \A k \in 1 .. Len(stack) - 1 : Pop[k] = stack[k]
      /\ stack \in Seq(F)
  BY <1>0, PopStack DEF Top, TypeOK
<1>2. /\ succ \in [Block -> Seq(Block)] /\ rpo \in [Block -> Nat]
      /\ \A b \in Block : Preds(b) \subseteq Block
  BY <1>0, GraphType DEF TypeOK
<1>3. CASE Enter
  <2> DEFINE n == Len(Top.rest)
             b == Top.rest[n]
             shrunk == Append(Pop, Frame(Top.bb, SubSeq(Top.rest, 1, n - 1)))
  <2>0. ~reverse /\ Top.rest # <<>>
    BY <1>3 DEF Enter
  <2>1. n \in Nat \ {0} /\ Top.rest \in Seq(Block) /\ Top.bb \in Block
    BY <1>1, <2>0, EmptySeq
  <2>2. /\ SubSeq(Top.rest, 1, n - 1) \in Seq(Block) /\ Len(SubSeq(Top.rest, 1, n - 1)) = n - 1
        /\ \A m \in 1 .. n - 1 : SubSeq(Top.rest, 1, n - 1)[m] = Top.rest[m]
        /\ b \in Block
    BY <2>1
  <2>3. /\ shrunk \in Seq(F) /\ Len(shrunk) = Len(stack)
        /\ \A k \in 1 .. Len(stack) - 1 : shrunk[k] = stack[k]
        /\ shrunk[Len(stack)] = Frame(Top.bb, SubSeq(Top.rest, 1, n - 1))
    <3> DEFINE f == Frame(Top.bb, SubSeq(Top.rest, 1, n - 1))
    <3>1. f \in F
      BY <2>1, <2>2 DEF Frame
    <3> HIDE DEF f, F
    <3>2. Append(Pop, f) \in Seq(F) /\ Len(Append(Pop, f)) = Len(Pop) + 1
          /\ Append(Pop, f)[Len(Pop) + 1] = f
          /\ \A k \in 1 .. Len(Pop) : Append(Pop, f)[k] = Pop[k]
      BY <1>1, <3>1
    <3>3. QED
      BY <1>1, <3>2 DEF f
  <2>4. Leads(succ, reverse, Top.bb, b)
    <3>1. Len(stack) \in 1 .. Len(stack)
      BY <1>1
    <3>2. \A m \in 1 .. Len(stack[Len(stack)].rest) :
            Leads(succ, reverse, stack[Len(stack)].bb, stack[Len(stack)].rest[m])
      BY <1>0, <2>0, <3>1 DEF Parents
    <3>3. \A m \in 1 .. n : Leads(succ, reverse, Top.bb, Top.rest[m])
      BY <1>1, <3>2
    <3>4. n \in 1 .. n
      BY <2>1
    <3>5. QED
      BY <3>3, <3>4
  <2> HIDE DEF shrunk
  <2>5. /\ \A k \in 1 .. Len(stack) : shrunk[k].bb = stack[k].bb
        /\ \A k \in 1 .. Len(stack) : \A m \in 1 .. Len(shrunk[k].rest) :
             Leads(succ, reverse, shrunk[k].bb, shrunk[k].rest[m])
    <3>1. \A k \in 1 .. Len(stack) : \A m \in 1 .. Len(stack[k].rest) :
            Leads(succ, reverse, stack[k].bb, stack[k].rest[m])
      BY <1>0, <2>0 DEF Parents
    <3>2. SUFFICES ASSUME NEW k \in 1 .. Len(stack)
                   PROVE  /\ shrunk[k].bb = stack[k].bb
                          /\ \A m \in 1 .. Len(shrunk[k].rest) :
                               Leads(succ, reverse, shrunk[k].bb, shrunk[k].rest[m])
      OBVIOUS
    <3>3. CASE k # Len(stack)
      <4>1. k \in 1 .. Len(stack) - 1
        BY <1>1, <3>3
      <4>2. shrunk[k] = stack[k]
        BY <2>3, <4>1
      <4>3. QED
        BY <3>1, <4>2
    <3>4. CASE k = Len(stack)
      <4>1. shrunk[k].bb = Top.bb /\ shrunk[k].rest = SubSeq(Top.rest, 1, n - 1)
        BY <2>3, <3>4 DEF Frame
      <4>2. \A m \in 1 .. n : Leads(succ, reverse, Top.bb, Top.rest[m])
        BY <1>1, <3>1
      <4>3. \A m \in 1 .. Len(shrunk[k].rest) : m \in 1 .. n /\ shrunk[k].rest[m] = Top.rest[m]
        BY <2>1, <2>2, <4>1
      <4>4. QED
        BY <1>1, <3>4, <4>1, <4>2, <4>3
    <3>5. QED
      BY <3>3, <3>4
  <2>7. CASE rpo[b] # UNDEF
    <3>1. stack' = shrunk /\ rpo' = rpo
      BY <1>3, <2>7 DEF Enter, shrunk
    <3>2. QED
      BY <1>0, <1>1, <2>3, <2>5, <3>1
  <2>8. CASE rpo[b] = UNDEF
    <3>1. stack' = Append(shrunk, Frame(b, succ[b])) /\ rpo' = [rpo EXCEPT ![b] = SEEN]
      BY <1>3, <2>8 DEF Enter, shrunk
    <3>2. /\ Len(stack') = Len(stack) + 1
          /\ \A k \in 1 .. Len(stack) : stack'[k] = shrunk[k]
          /\ stack'[Len(stack) + 1] = Frame(b, succ[b])
      <4> DEFINE f == Frame(b, succ[b])
      <4>1. f \in F
        BY <1>2, <2>2 DEF Frame
      <4> HIDE DEF f, F
      <4>2. Len(Append(shrunk, f)) = Len(shrunk) + 1 /\ Append(shrunk, f)[Len(shrunk) + 1] = f
            /\ \A k \in 1 .. Len(shrunk) : Append(shrunk, f)[k] = shrunk[k]
        BY <2>3, <4>1
      <4>3. QED
        BY <1>1, <2>3, <3>1, <4>2 DEF f
    <3>3. /\ stack'[Len(stack) + 1].bb = b
          /\ \A m \in 1 .. Len(stack'[Len(stack) + 1].rest) :
               Leads(succ, reverse, b, stack'[Len(stack) + 1].rest[m])
      BY <2>0, <3>2 DEF Leads, Frame
    <3>4. \A k \in 1 .. Len(stack') : k \in 1 .. Len(stack) \/ k = Len(stack) + 1
      BY <1>1, <3>2
    <3>5. \A k \in 1 .. Len(stack') : \A m \in 1 .. Len(stack'[k].rest) :
            Leads(succ, reverse, stack'[k].bb, stack'[k].rest[m])
      BY <2>5, <3>2, <3>3, <3>4
    <3>6. \A x \in Block : rpo'[x] = IF x = b THEN SEEN ELSE rpo[x]
      BY <1>2, <3>1
    <3>7. \A k \in Len(stack) + 1 .. Len(stack') : k = Len(stack) + 1
      BY <1>1, <3>2
    <3>8. \A k \in 1 .. Len(stack) : stack'[k].bb = stack[k].bb
      BY <2>5, <3>2
    <3>9. Len(stack) + 1 \in Len(stack) + 1 .. Len(stack') /\ SEEN # UNDEF
      BY <1>1, <3>2 DEF SEEN, UNDEF
    <3> HIDE DEF b
    <3>10. QED
      BY <1>0, <1>1, <2>2, <2>4, <2>8, <3>2, <3>3, <3>5, <3>6, <3>7, <3>8, <3>9
  <2>9. QED
    BY <2>7, <2>8
<1>4. CASE Expand
  <2> DEFINE new == {p \in Preds(Top.bb) : rpo[p] = UNDEF}
             c == Cardinality(new)
  <2>0. reverse
    BY <1>4 DEF Expand
  <2>1. PICK more \in [1 .. c -> new] :
          /\ \A x \in new : \E k \in DOMAIN more : more[k] = x
          /\ \A j, k \in DOMAIN more : j < k => more[j] < more[k]
          /\ stack' = stack \o [k \in DOMAIN more |-> Frame(more[k], <<>>)]
    BY <1>4 DEF Expand
  <2>2. c \in Nat /\ new \subseteq Block
    <3>1. new \subseteq Block
      BY <1>1, <1>2
    <3>2. IsFiniteSet(Block)
      BY <1>0, GraphType, FS_Interval DEF Block
    <3>3. QED
      BY <3>1, <3>2, FS_Subset, FS_CardinalityType
  <2> HIDE DEF c
  <2> DEFINE pushed == [k \in 1 .. c |-> Frame(more[k], <<>>)]
  <2>3. pushed \in Seq(F) /\ Len(pushed) = c /\ \A k \in 1 .. c : pushed[k] = Frame(more[k], <<>>)
    <3>1. \A k \in 1 .. c : Frame(more[k], <<>>) \in F
      BY <2>1, <2>2 DEF Frame
    <3>2. \A n \in Nat : (\A k \in 1 .. n : Frame(more[k], <<>>) \in F) =>
            [k \in 1 .. n |-> Frame(more[k], <<>>)] \in Seq(F)
      OBVIOUS
    <3>3. pushed \in Seq(F)
      BY <2>2, <3>1, <3>2
    <3>4. QED
      BY <2>2, <3>3
  <2>4. stack' = stack \o pushed
    BY <2>1
  <2> HIDE DEF pushed
  <2>5. /\ Len(stack') = Len(stack) + c
        /\ \A k \in 1 .. Len(stack) : stack'[k] = stack[k]
        /\ \A k \in Len(stack) + 1 .. Len(stack) + c : stack'[k] = pushed[k - Len(stack)]
    <3> HIDE DEF F
    <3>1. /\ Len(stack \o pushed) = Len(stack) + Len(pushed)
          /\ \A k \in 1 .. Len(stack) + Len(pushed) :
               (stack \o pushed)[k] = IF k <= Len(stack) THEN stack[k] ELSE pushed[k - Len(stack)]
      BY <1>1, <2>3, ConcatProperties
    <3>2. QED
      BY <1>1, <2>2, <2>3, <2>4, <3>1
  <2>6. \A k \in Len(stack) + 1 .. Len(stack) + c :
          k - Len(stack) \in 1 .. c /\ stack'[k].bb = more[k - Len(stack)]
    BY <1>1, <2>2, <2>3, <2>5 DEF Frame
  <2>7. \A k \in Len(stack) + 1 .. Len(stack') :
          /\ Leads(succ, reverse, Top.bb, stack'[k].bb)
          /\ stack'[k].bb \in Block /\ rpo[stack'[k].bb] = UNDEF
    <3>1. \A k \in 1 .. c : more[k] \in new
      BY <2>1 DEF c
    <3>2. \A x \in new : Leads(succ, reverse, Top.bb, x) /\ x \in Block /\ rpo[x] = UNDEF
      BY <2>0, <2>2 DEF Leads, Preds, Succs
    <3>3. QED
      BY <2>2, <2>5, <2>6, <3>1, <3>2
  <2>8. \A j, k \in Len(stack) + 1 .. Len(stack') : stack'[j].bb = stack'[k].bb => j = k
    <3>1. \A j, k \in 1 .. c : more[j] = more[k] => j = k
      <4>1. \A j \in 1 .. c : more[j] \in Nat
        BY <1>0, <2>1, <2>2, GraphType
      <4>2. QED
        BY <2>1, <2>2, <4>1
    <3>2. SUFFICES ASSUME NEW j \in Len(stack) + 1 .. Len(stack'),
                          NEW k \in Len(stack) + 1 .. Len(stack'), stack'[j].bb = stack'[k].bb
                   PROVE  j = k
      OBVIOUS
    <3>3. j - Len(stack) = k - Len(stack)
      BY <2>5, <2>6, <3>1, <3>2
    <3>4. QED
      BY <1>1, <2>2, <2>5, <3>3
  <2>9. \A x \in Block : rpo'[x] = IF x = Top.bb THEN DONE
                                   ELSE IF x \in new THEN SEEN ELSE rpo[x]
    BY <1>4 DEF Expand
  <2>10. \A x \in new : \E k \in Len(stack) + 1 .. Len(stack') : stack'[k].bb = x
    <3>1. SUFFICES ASSUME NEW x \in new
                   PROVE  \E k \in Len(stack) + 1 .. Len(stack') : stack'[k].bb = x
      OBVIOUS
    <3>2. PICK k \in 1 .. c : more[k] = x
      BY <2>1
    <3>3. k + Len(stack) \in Len(stack) + 1 .. Len(stack') /\ (k + Len(stack)) - Len(stack) = k
      BY <1>1, <2>2, <2>5
    <3>4. QED
      BY <2>5, <2>6, <3>2, <3>3
  <2>11. \A x \in Block : rpo[x] = UNDEF /\ rpo'[x] # UNDEF =>
           \E k \in Len(stack) + 1 .. Len(stack') : stack'[k].bb = x
    <3>1. rpo[Top.bb] # UNDEF
      BY <1>4 DEF Expand, SEEN, UNDEF
    <3>2. QED
      BY <2>9, <2>10, <3>1
  <2>12. \A x \in Block : rpo'[x] = UNDEF =>
           rpo[x] = UNDEF /\ \A k \in Len(stack) + 1 .. Len(stack') : stack'[k].bb # x
    <3>1. \A k \in Len(stack) + 1 .. Len(stack') : stack'[k].bb \in new
      <4>1. \A k \in 1 .. c : more[k] \in new
        BY <2>1 DEF c
      <4>2. QED
        BY <2>5, <2>6, <4>1
    <3>2. QED
      BY <2>9, <3>1 DEF UNDEF, DONE, SEEN
  <2>13. \A x \in Block : rpo[x] # UNDEF =>
           rpo'[x] # UNDEF /\ (x # Top.bb => rpo'[x] = rpo[x])
    BY <2>9 DEF UNDEF, DONE, SEEN
  <2>14. Len(stack') \in Nat /\ Len(stack') >= Len(stack)
    BY <1>1, <2>2, <2>5
  <2> HIDE DEF new
  <2>15. QED
    BY <1>0, <1>1, <2>0, <2>5, <2>7, <2>8, <2>11, <2>12, <2>13, <2>14
<1>5. QED
  BY <1>3, <1>4

\* What a step that pops does: the top goes to the end of the post-order.
LEMMA PopEffect ==
  ASSUME IInv, Leave \/ Retire
  PROVE  /\ Len(stack) \in Nat \ {0} /\ Len(stack') = Len(stack) - 1
         /\ \A k \in 1 .. Len(stack') : stack'[k] = stack[k]
         /\ Len(postorder) \in Nat /\ Len(postorder') = Len(postorder) + 1
         /\ \A i \in 1 .. Len(postorder) : postorder'[i] = postorder[i]
         /\ postorder'[Len(postorder) + 1] = stack[Len(stack)].bb
         /\ stack[Len(stack)].bb \in Block
         /\ rpo'[stack[Len(stack)].bb] = DONE
         /\ \A b \in Block : b # stack[Len(stack)].bb => rpo'[b] = rpo[b]
         /\ stack' \in Seq([bb : Block, rest : Seq(Block)]) /\ postorder' \in Seq(Block)
         /\ pc = "order" /\ UNCHANGED <<succ, reverse, pc, idom, pos, fold, panicked>>
<1>1. /\ TypeOK /\ stack # <<>> /\ pc = "order" /\ stack' = Pop
      /\ UNCHANGED <<succ, reverse, pc, idom, pos, fold, panicked>>
      /\ postorder' = Append(postorder, Top.bb)
  BY DEF IInv, Leave, Retire, graph
<1>2. /\ Len(stack) \in Nat \ {0} /\ Len(stack') = Len(stack) - 1 /\ Top.bb \in Block
      /\ Top = stack[Len(stack)]
      /\ \A k \in 1 .. Len(stack) - 1 : stack'[k] = stack[k]
      /\ stack' \in Seq([bb : Block, rest : Seq(Block)])
  BY <1>1, PopStack DEF Top
<1>3. /\ Len(postorder) \in Nat /\ Len(postorder') = Len(postorder) + 1
      /\ \A i \in 1 .. Len(postorder) : postorder'[i] = postorder[i]
      /\ postorder'[Len(postorder) + 1] = Top.bb /\ postorder' \in Seq(Block)
  BY <1>1, <1>2 DEF TypeOK
<1>4. rpo'[Top.bb] = DONE /\ \A b \in Block : b # Top.bb => rpo'[b] = rpo[b]
  BY <1>1, <1>2 DEF Leave, Retire, TypeOK
<1>5. QED
  BY <1>1, <1>2, <1>3, <1>4

\* Pushing keeps the traversal's invariants, ...
LEMMA PushStep ==
  ASSUME IInv, Enter \/ Expand
  PROVE  Traversal' /\ Parents'
<1> DEFINE n == Len(stack)
<1>0. TypeOK /\ Traversal /\ Parents /\ pc = "order"
  BY PushEffect DEF IInv
<1>1. /\ n \in Nat \ {0} /\ Len(stack') \in Nat /\ Len(stack') >= n
      /\ \A k \in 1 .. n : stack'[k].bb = stack[k].bb
      /\ \A k \in n + 1 .. Len(stack') :
           /\ Leads(succ, reverse, stack[n].bb, stack'[k].bb) /\ stack'[k].bb \in Block
           /\ rpo[stack'[k].bb] = UNDEF
      /\ \A j, k \in n + 1 .. Len(stack') : stack'[j].bb = stack'[k].bb => j = k
  BY PushEffect
<1>2. /\ \A b \in Block : rpo'[b] = UNDEF =>
           rpo[b] = UNDEF /\ \A k \in n + 1 .. Len(stack') : stack'[k].bb # b
      /\ \A b \in Block : rpo[b] # UNDEF => rpo'[b] # UNDEF
      /\ \A b \in Block : rpo[b] = UNDEF /\ rpo'[b] # UNDEF =>
           \E k \in n + 1 .. Len(stack') : stack'[k].bb = b
      /\ \A b \in Block \ {Top.bb} : rpo[b] # UNDEF => rpo'[b] = rpo[b]
  BY PushEffect
<1>3. UNCHANGED <<succ, reverse, pc, postorder>>
  BY PushEffect
<1>4. ~reverse => \A k \in 1 .. Len(stack') : \A m \in 1 .. Len(stack'[k].rest) :
                    Leads(succ, reverse, stack'[k].bb, stack'[k].rest[m])
  BY PushEffect
<1>5. /\ \A k \in 1 .. n : stack[k].bb \in Block
      /\ \A i \in 1 .. Len(postorder) : postorder[i] \in Block
      /\ Len(postorder) \in Nat /\ Top = stack[n] /\ UNDEF # DONE
  BY <1>0, Blocks DEF Top
<1>6. \A k \in 1 .. Len(stack') : k \in 1 .. n \/ k \in n + 1 .. Len(stack')
  BY <1>1
<1>7. \A k \in 1 .. n : k \in 1 .. Len(stack')
  BY <1>1
<1>8. \A j, k \in 1 .. Len(stack') : stack'[j].bb = stack'[k].bb => j = k
  BY <1>0, <1>1, <1>6 DEF Traversal
<1>9. \A i \in 1 .. Len(postorder), k \in 1 .. Len(stack') : postorder[i] # stack'[k].bb
  <2>1. \A i \in 1 .. Len(postorder) : rpo[postorder[i]] # UNDEF
    BY <1>0, <1>5 DEF Traversal
  <2>2. QED
    BY <1>0, <1>1, <1>6, <2>1 DEF Traversal
<1>10. \A b \in Block : rpo'[b] # UNDEF =>
         \/ \E k \in 1 .. Len(stack') : stack'[k].bb = b
         \/ \E i \in 1 .. Len(postorder) : postorder[i] = b
  <2> SUFFICES ASSUME NEW b \in Block, rpo'[b] # UNDEF
               PROVE  \/ \E k \in 1 .. Len(stack') : stack'[k].bb = b
                      \/ \E i \in 1 .. Len(postorder) : postorder[i] = b
    OBVIOUS
  <2>1. CASE rpo[b] = UNDEF
    <3>1. PICK k \in n + 1 .. Len(stack') : stack'[k].bb = b
      BY <1>2, <2>1
    <3>2. k \in 1 .. Len(stack')
      BY <1>1
    <3>3. QED
      BY <3>1, <3>2
  <2>2. CASE rpo[b] # UNDEF
    BY <1>0, <1>1, <1>7, <2>2 DEF Traversal
  <2>3. QED
    BY <2>1, <2>2
<1>11. \A k \in 1 .. Len(stack') : rpo'[stack'[k].bb] # UNDEF
  BY <1>0, <1>1, <1>2, <1>5, <1>6 DEF Traversal
<1>12. \A i \in 1 .. Len(postorder) : rpo'[postorder[i]] = DONE
  <2>1. \A i \in 1 .. Len(postorder) : postorder[i] # Top.bb
    BY <1>0, <1>1, <1>5 DEF Traversal
  <2>2. QED
    BY <1>0, <1>2, <1>5, <2>1 DEF Traversal
<1>13. Traversal'
  BY <1>0, <1>3, <1>8, <1>9, <1>10, <1>11, <1>12 DEF Traversal
<1>14. stack' # <<>> /\ stack # <<>>
  BY <1>1
<1>15. stack'[1].bb = Root /\ Root' = Root
  BY <1>0, <1>1, <1>3, <1>14 DEF Parents, Root
<1>16. \A k \in 2 .. Len(stack') :
         \E j \in 1 .. k - 1 : Leads(succ, reverse, stack'[j].bb, stack'[k].bb)
  <2> SUFFICES ASSUME NEW k \in 2 .. Len(stack')
               PROVE  \E j \in 1 .. k - 1 : Leads(succ, reverse, stack'[j].bb, stack'[k].bb)
    OBVIOUS
  <2>1. CASE k <= n
    <3>1. PICK j \in 1 .. k - 1 : Leads(succ, reverse, stack[j].bb, stack[k].bb)
      BY <1>0, <1>1, <2>1 DEF Parents
    <3>2. j \in 1 .. n /\ k \in 1 .. n
      BY <1>1, <2>1
    <3>3. QED
      BY <1>1, <3>1, <3>2
  <2>2. CASE k > n
    <3>1. k \in n + 1 .. Len(stack') /\ n \in 1 .. k - 1 /\ n \in 1 .. n
      BY <1>1, <2>2
    <3>2. QED
      BY <1>1, <3>1
  <2>3. QED
    BY <1>1, <2>1, <2>2
<1>17. \A i \in 1 .. Len(postorder) :
         \/ \E k \in 1 .. Len(stack') : Leads(succ, reverse, stack'[k].bb, postorder[i])
         \/ \E j \in i + 1 .. Len(postorder) : Leads(succ, reverse, postorder[j], postorder[i])
  BY <1>0, <1>1, <1>7, <1>14 DEF Parents
<1>18. QED
  BY <1>0, <1>3, <1>4, <1>13, <1>14, <1>15, <1>16, <1>17 DEF Parents

\* ... and so does popping.
LEMMA PopStep ==
  ASSUME IInv, Leave \/ Retire
  PROVE  Traversal' /\ Parents'
<1> DEFINE n == Len(stack)
           l == Len(postorder)
<1>0. TypeOK /\ Traversal /\ Parents /\ pc = "order"
  BY PopEffect DEF IInv
<1>1. /\ n \in Nat \ {0} /\ Len(stack') = n - 1
      /\ \A k \in 1 .. Len(stack') : stack'[k] = stack[k]
      /\ l \in Nat /\ Len(postorder') = l + 1
      /\ \A i \in 1 .. l : postorder'[i] = postorder[i]
      /\ postorder'[l + 1] = stack[n].bb
      /\ stack[n].bb \in Block
      /\ UNCHANGED <<succ, reverse, pc>>
      /\ stack' \in Seq([bb : Block, rest : Seq(Block)]) /\ postorder' \in Seq(Block)
  BY PopEffect
<1>2. /\ rpo'[stack[n].bb] = DONE
      /\ \A b \in Block : b # stack[n].bb => rpo'[b] = rpo[b]
  BY PopEffect
<1>3. /\ \A k \in 1 .. n : stack[k].bb \in Block
      /\ \A i \in 1 .. l : postorder[i] \in Block
      /\ UNDEF # DONE
  BY <1>0, Blocks
<1>4. \A k \in 1 .. Len(stack') : k \in 1 .. n /\ k # n
  BY <1>1
<1>5. \A i \in 1 .. Len(postorder') : i \in 1 .. l \/ i = l + 1
  BY <1>1
<1>6. n \in 1 .. n /\ \A k \in 1 .. n : k = n \/ k \in 1 .. Len(stack')
  BY <1>1
<1>7. l + 1 \in 1 .. Len(postorder') /\ \A i \in 1 .. l : i \in 1 .. Len(postorder')
  BY <1>1
<1>8. \A j, k \in 1 .. Len(stack') : stack'[j].bb = stack'[k].bb => j = k
  BY <1>0, <1>1, <1>4 DEF Traversal
<1>9. \A i, j \in 1 .. Len(postorder') : postorder'[i] = postorder'[j] => i = j
  <2>1. \A i \in 1 .. l : postorder'[i] # postorder'[l + 1]
    BY <1>0, <1>1, <1>6 DEF Traversal
  <2>2. \A i, j \in 1 .. l : postorder'[i] = postorder'[j] => i = j
    BY <1>0, <1>1 DEF Traversal
  <2>3. QED
    BY <1>5, <2>1, <2>2
<1>10. \A i \in 1 .. Len(postorder'), k \in 1 .. Len(stack') : postorder'[i] # stack'[k].bb
  <2>1. \A i \in 1 .. l, k \in 1 .. Len(stack') : postorder'[i] # stack'[k].bb
    BY <1>0, <1>1, <1>4 DEF Traversal
  <2>2. \A k \in 1 .. Len(stack') : postorder'[l + 1] # stack'[k].bb
    BY <1>0, <1>1, <1>4, <1>6 DEF Traversal
  <2>3. QED
    BY <1>5, <2>1, <2>2
<1>11. \A b \in Block : rpo'[b] # UNDEF =>
         \/ \E k \in 1 .. Len(stack') : stack'[k].bb = b
         \/ \E i \in 1 .. Len(postorder') : postorder'[i] = b
  <2> SUFFICES ASSUME NEW b \in Block, rpo'[b] # UNDEF, b # stack[n].bb
               PROVE  \/ \E k \in 1 .. Len(stack') : stack'[k].bb = b
                      \/ \E i \in 1 .. Len(postorder') : postorder'[i] = b
    BY <1>1, <1>7
  <2>1. rpo[b] # UNDEF
    BY <1>2
  <2>2. CASE \E k \in 1 .. n : stack[k].bb = b
    BY <1>1, <1>6, <2>2
  <2>3. CASE \E i \in 1 .. l : postorder[i] = b
    BY <1>1, <1>7, <2>3
  <2>4. QED
    BY <1>0, <2>1, <2>2, <2>3 DEF Traversal
<1>12. \A k \in 1 .. Len(stack') : rpo'[stack'[k].bb] # UNDEF
  <2>1. \A k \in 1 .. n : rpo[stack[k].bb] # UNDEF
    BY <1>0 DEF Traversal
  <2>2. \A k \in 1 .. n : rpo'[stack[k].bb] # UNDEF
    BY <1>2, <1>3, <2>1
  <2>3. QED
    BY <1>1, <1>4, <2>2
<1>13. \A i \in 1 .. Len(postorder') : rpo'[postorder'[i]] = DONE
  BY <1>0, <1>1, <1>2, <1>3, <1>5 DEF Traversal
<1>14. Traversal'
  BY <1>0, <1>1, <1>8, <1>9, <1>10, <1>11, <1>12, <1>13 DEF Traversal
<1>15. stack[1].bb = Root /\ Root' = Root
  BY <1>0, <1>1, EmptySeq DEF Parents, Root
<1>16. stack' # <<>> => stack'[1].bb = Root
  <2>1. stack' # <<>> => 1 \in 1 .. Len(stack')
    BY <1>1, EmptySeq
  <2>2. QED
    BY <1>1, <1>15, <2>1
<1>17. stack' = <<>> => postorder' # <<>> /\ postorder'[Len(postorder')] = Root
  <2>1. stack' = <<>> => n = 1
    <3>1. Len(<<>>) = 0
      OBVIOUS
    <3>2. QED
      BY <1>1, <3>1
  <2>2. postorder' # <<>>
    BY <1>1, EmptySeq
  <2>3. QED
    BY <1>1, <1>15, <2>1, <2>2
<1>18. ~reverse => \A k \in 1 .. Len(stack') : \A m \in 1 .. Len(stack'[k].rest) :
                     Leads(succ, reverse, stack'[k].bb, stack'[k].rest[m])
  BY <1>0, <1>1, <1>4 DEF Parents
<1>19. \A k \in 2 .. Len(stack') :
         \E j \in 1 .. k - 1 : Leads(succ, reverse, stack'[j].bb, stack'[k].bb)
  <2> SUFFICES ASSUME NEW k \in 2 .. Len(stack')
               PROVE  \E j \in 1 .. k - 1 : Leads(succ, reverse, stack'[j].bb, stack'[k].bb)
    OBVIOUS
  <2>1. k \in 2 .. n /\ k \in 1 .. Len(stack') /\ \A j \in 1 .. k - 1 : j \in 1 .. Len(stack')
    BY <1>1
  <2>2. PICK j \in 1 .. k - 1 : Leads(succ, reverse, stack[j].bb, stack[k].bb)
    BY <1>0, <2>1 DEF Parents
  <2>3. QED
    BY <1>1, <2>1, <2>2
<1>20. \A i \in 1 .. Len(postorder') :
         \/ i = Len(postorder') /\ stack' = <<>>
         \/ \E k \in 1 .. Len(stack') : Leads(succ, reverse, stack'[k].bb, postorder'[i])
         \/ \E j \in i + 1 .. Len(postorder') :
              Leads(succ, reverse, postorder'[j], postorder'[i])
  <2> SUFFICES ASSUME NEW i \in 1 .. Len(postorder')
               PROVE  \/ i = Len(postorder') /\ stack' = <<>>
                      \/ \E k \in 1 .. Len(stack') : Leads(succ, reverse, stack'[k].bb, postorder'[i])
                      \/ \E j \in i + 1 .. Len(postorder') :
                           Leads(succ, reverse, postorder'[j], postorder'[i])
    OBVIOUS
  <2>1. CASE i = l + 1
    <3>1. CASE n = 1
      BY <1>1, <2>1, <3>1, EmptySeq
    <3>2. CASE n # 1
      <4>1. n \in 2 .. n
        BY <1>1, <3>2
      <4>2. PICK j \in 1 .. n - 1 : Leads(succ, reverse, stack[j].bb, stack[n].bb)
        BY <1>0, <4>1 DEF Parents
      <4>3. QED
        BY <1>1, <2>1, <4>2
    <3>3. QED
      BY <3>1, <3>2
  <2>2. CASE i \in 1 .. l
    <3>1. stack # <<>> /\ postorder'[i] = postorder[i] /\ l + 1 \in i + 1 .. Len(postorder')
      BY <1>1, <2>2
    <3>2. CASE \E k \in 1 .. n : Leads(succ, reverse, stack[k].bb, postorder[i])
      <4>1. PICK k \in 1 .. n : Leads(succ, reverse, stack[k].bb, postorder[i])
        BY <3>2
      <4>2. CASE k = n
        BY <1>1, <3>1, <4>1, <4>2
      <4>3. CASE k # n
        BY <1>1, <1>6, <3>1, <4>1, <4>3
      <4>4. QED
        BY <4>2, <4>3
    <3>3. CASE \E j \in i + 1 .. l : Leads(succ, reverse, postorder[j], postorder[i])
      <4>1. PICK j \in i + 1 .. l : Leads(succ, reverse, postorder[j], postorder[i])
        BY <3>3
      <4>2. j \in 1 .. l /\ j \in i + 1 .. Len(postorder')
        BY <1>1, <2>2
      <4>3. QED
        BY <1>1, <3>1, <4>1, <4>2
    <3>4. QED
      BY <1>0, <2>2, <3>1, <3>2, <3>3 DEF Parents
  <2>3. QED
    BY <1>5, <2>1, <2>2
<1>21. QED
  BY <1>0, <1>1, <1>14, <1>15, <1>16, <1>17, <1>18, <1>19, <1>20 DEF Parents

\* A step of the traversal touches nothing else.
LEMMA OrderStep ==
  ASSUME IInv, Enter \/ Expand \/ Leave \/ Retire
  PROVE  Traversal' /\ Parents' /\ Numbers' /\ Trees' /\ Fold' /\ NoPanic'
<1>1. Traversal' /\ Parents'
  BY PushStep, PopStep
<1>2. pc = "order" /\ UNCHANGED <<pc, idom, cand, other, todo, panicked>>
  BY PushEffect, PopEffect DEF fold
<1>3. cand = None /\ other = None /\ todo = {} /\ ~panicked
  BY <1>2 DEF IInv, Fold, NoPanic
<1>4. Numbers' /\ Fold' /\ NoPanic'
  BY <1>2, <1>3 DEF Numbers, Fold, NoPanic
<1>5. Trees'
  BY <1>2 DEF IInv, Trees, ClimbsDown
<1>6. QED
  BY <1>1, <1>4, <1>5

-----------------------------------------------------------------------------
(* The passes.                                                             *)

\* The passes start on a post-order whose every block has a number to come.
LEMMA StartStep ==
  ASSUME IInv, StartNumbers
  PROVE  Traversal' /\ Parents' /\ Numbers' /\ Trees' /\ Fold' /\ NoPanic'
<1> DEFINE l == Len(postorder)
<1>0. TypeOK /\ Traversal /\ Parents /\ Trees /\ Fold /\ NoPanic
  BY DEF IInv
<1>1. /\ pc = "order" /\ stack = <<>> /\ pc' = "number" /\ pos' = l - 1
      /\ rpo' = [rpo EXCEPT ![postorder[l]] = 2]
      /\ UNCHANGED <<succ, reverse, idom, postorder, stack, cand, other, todo, panicked>>
  BY DEF StartNumbers, graph, order, fold
<1>2. Traversal' /\ Parents'
  BY <1>1 DEF Traversal, Parents
<1>3. /\ l \in Nat /\ l > 0 /\ postorder # <<>> /\ postorder[l] = Root
      /\ \A i \in 1 .. l : postorder[i] \in Block
  BY <1>0, <1>1, Blocks, EmptySeq DEF Parents, TypeOK
<1>4. \A i, j \in 1 .. l : postorder[i] = postorder[j] => i = j
  BY <1>0, <1>1 DEF Traversal
<1>5. Len(stack) = 0
  BY <1>1
<1>6. \A i \in 1 .. l - 1 :
        \E j \in i + 1 .. l : Leads(succ, reverse, postorder[j], postorder[i])
  BY <1>0, <1>1, <1>3, <1>5 DEF Parents
<1>7. \A i \in 1 .. l : Numbered(i)' <=> i = l
  BY <1>1, <1>3 DEF Numbered
<1>8. \A i \in 1 .. l : rpo'[postorder[i]] = IF i = l THEN 2 ELSE DONE
  <2>1. \A i \in 1 .. l : rpo[postorder[i]] = DONE
    BY <1>0, <1>1 DEF Traversal
  <2>2. l \in 1 .. l
    BY <1>3
  <2>3. \A i \in 1 .. l : rpo'[postorder[i]] = IF postorder[i] = postorder[l] THEN 2 ELSE DONE
    BY <1>0, <1>1, <1>3, <2>1 DEF TypeOK
  <2>4. QED
    BY <1>4, <2>2, <2>3
<1>9. \A b \in Block : rpo'[b] > 1 => \E i \in 1 .. l : postorder[i] = b
  <2> SUFFICES ASSUME NEW b \in Block, rpo'[b] > 1, b # postorder[l]
               PROVE  \E i \in 1 .. l : postorder[i] = b
    BY <1>3
  <2>1. rpo[b] # UNDEF
    BY <1>0, <1>1 DEF TypeOK, UNDEF
  <2>2. QED
    BY <1>0, <1>1, <1>5, <2>1 DEF Traversal
<1>10. Numbers'
  <2>1. Root' = Root
    BY <1>1 DEF Root
  <2>2. \A i \in 1 .. l : rpo'[postorder[i]] = IF Numbered(i)' THEN l - i + 2 ELSE DONE
    BY <1>3, <1>7, <1>8
  <2>3. \A i \in 1 .. l - 1 : ~Numbered(i)'
    BY <1>3, <1>7
  <2>4. pos' < l
    BY <1>1, <1>3
  <2>5. QED
    BY <1>1, <1>3, <1>4, <1>6, <1>9, <2>1, <2>2, <2>3, <2>4 DEF Numbers, Numbered
<1>11. Trees'
  BY <1>0, <1>1 DEF Trees, ClimbsDown
<1>12. Fold' /\ NoPanic'
  BY <1>0, <1>1 DEF Fold, NoPanic
<1>13. QED
  BY <1>2, <1>10, <1>11, <1>12

\* A numbered block that is not the root has an immediate dominator above it.
LEMMA HasIdom ==
  ASSUME IInv, pc # "order", NEW b \in Block, rpo[b] > 2
  PROVE  idom[b] \in Block /\ rpo[idom[b]] > 1 /\ rpo[idom[b]] < rpo[b]
<1>0. TypeOK /\ Numbers /\ ClimbsDown
  BY DEF IInv, Trees
<1>1. rpo[b] \in Nat /\ rpo[b] > 1
  BY <1>0 DEF TypeOK
<1>2. PICK i \in 1 .. Len(postorder) : postorder[i] = b
  BY <1>0, <1>1 DEF Numbers
<1>3. Numbered(i) /\ i # Len(postorder)
  BY <1>0, <1>2 DEF Numbers, TypeOK, DONE
<1>4. i \in 1 .. Len(postorder) - 1
  BY <1>0, <1>2, <1>3 DEF TypeOK
<1>5. idom[b] # None
  BY <1>0, <1>2, <1>3, <1>4 DEF Numbers
<1>6. QED
  BY <1>0, <1>5 DEF ClimbsDown, TypeOK

\* What the steps of compute_idom leave alone.
LEMMA FoldKeeps ==
  ASSUME IInv, UNCHANGED <<graph, pc, rpo, idom, order, pos>>
  PROVE  Traversal' /\ Parents' /\ Numbers' /\ Trees'
<1>1. UNCHANGED <<succ, reverse, pc, rpo, idom, postorder, stack, pos>>
  BY DEF graph, order
<1>2. Traversal /\ Parents /\ Numbers /\ Trees
  BY DEF IInv
<1>3. Traversal' /\ Parents'
  BY <1>1, <1>2 DEF Traversal, Parents, Root
<1>4. Numbers'
  <2>1. \A i \in Nat : Numbered(i)' = Numbered(i)
    BY <1>1 DEF Numbered
  <2>2. QED
    BY <1>1, <1>2, <2>1 DEF Numbers, Numbered, Root
<1>5. Trees'
  BY <1>1, <1>2 DEF Trees, ClimbsDown
<1>6. QED
  BY <1>3, <1>4, <1>5

\* compute_idom finds a first predecessor.
LEMMA FirstStep ==
  ASSUME IInv, First
  PROVE  Fold' /\ NoPanic'
<1> DEFINE l == Len(postorder)
<1>0. /\ TypeOK /\ Numbers /\ Fold /\ NoPanic /\ pos > 0 /\ pc \in {"number", "iterate"}
      /\ UNCHANGED <<pc, rpo, postorder, pos, other>> /\ cand = None
  BY DEF IInv, First, order
<1>1. pos \in 1 .. l - 1 /\ l \in Nat /\ Current \in Block
  BY <1>0 DEF TypeOK, Numbers, Current
<1>2. PICK j \in pos + 1 .. l : Leads(succ, reverse, postorder[j], Current)
  BY <1>0, <1>1 DEF Numbers, Current
<1>3. postorder[j] \in Block /\ j \in 1 .. l
  BY <1>0, <1>1 DEF TypeOK
<1>4. rpo[postorder[j]] = l - j + 2
  BY <1>0, <1>1, <1>3 DEF Numbers, Numbered
<1>5. postorder[j] \in ready(Current) /\ rpo[postorder[j]] < l - pos + 2
  <2>1. postorder[j] \in Incoming(Current)
    BY <1>2, <1>3 DEF Leads, Incoming, Succs, Preds
  <2>2. QED
    BY <1>1, <1>3, <1>4, <2>1 DEF ready
<1>6. PICK p \in ready(Current) :
        cand' = p /\ todo' = ready(Current) \ {p} /\ UNCHANGED panicked
  BY <1>5 DEF First
<1>7. /\ ready(Current) \subseteq Block /\ None \notin Block
      /\ \A q \in ready(Current) : rpo[q] > 1
  BY <1>0, <1>1, GraphType DEF ready
<1>8. other' = None
  BY <1>0 DEF Fold
<1>9. \E q \in {cand', other'} \cup todo' : q # None /\ rpo'[q] < l - pos + 2
  BY <1>0, <1>5, <1>6, <1>7
<1>10. Fold'
  BY <1>0, <1>6, <1>7, <1>8, <1>9 DEF Fold
<1>11. QED
  BY <1>0, <1>6, <1>10 DEF NoPanic

\* common_dominator keeps a candidate above the block.
LEMMA ClimbStep ==
  ASSUME IInv, Climb
  PROVE  Fold' /\ NoPanic'
<1> DEFINE m == Len(postorder) - pos + 2
<1>0. /\ TypeOK /\ Fold /\ NoPanic /\ other # None
      /\ UNCHANGED <<pc, rpo, postorder, pos, todo>>
  BY DEF IInv, Climb, order
<1>1. /\ cand # None /\ pc \in {"number", "iterate"} /\ pos > 0 /\ pc # "order"
      /\ rpo[cand] > 1 /\ rpo[other] > 1 /\ \A p \in todo : rpo[p] > 1
      /\ \E p \in {cand, other} \cup todo : p # None /\ rpo[p] < m
  BY <1>0 DEF Fold
<1>2. cand \in Block /\ other \in Block /\ None \notin Block
  BY <1>0, <1>1, GraphType DEF TypeOK
<1>3. rpo[cand] \in Nat /\ rpo[other] \in Nat /\ m \in Int
  BY <1>0, <1>2 DEF TypeOK
<1>4. CASE rpo[cand] < rpo[other]
  <2>1. idom[other] \in Block /\ rpo[idom[other]] > 1 /\ rpo[idom[other]] < rpo[other]
    BY <1>1, <1>2, <1>3, <1>4, HasIdom
  <2>2. other' = idom[other] /\ UNCHANGED <<cand, panicked>>
    BY <1>2, <1>3, <1>4, <2>1 DEF Climb
  <2>3. rpo[idom[other]] \in Nat
    BY <1>0, <2>1 DEF TypeOK
  <2>4. \E p \in {cand', other'} \cup todo' : p # None /\ rpo'[p] < m
    <3>1. rpo[other] < m => rpo[idom[other]] < m
      BY <1>3, <2>1, <2>3
    <3>2. QED
      BY <1>0, <1>1, <1>2, <2>1, <2>2, <3>1
  <2>5. Fold'
    BY <1>0, <1>1, <2>1, <2>2, <2>4 DEF Fold
  <2>6. QED
    BY <1>0, <2>2, <2>5 DEF NoPanic
<1>5. CASE rpo[cand] > rpo[other]
  <2>1. idom[cand] \in Block /\ rpo[idom[cand]] > 1 /\ rpo[idom[cand]] < rpo[cand]
    BY <1>1, <1>2, <1>3, <1>5, HasIdom
  <2>2. cand' = idom[cand] /\ UNCHANGED <<other, panicked>>
    BY <1>2, <1>3, <1>5, <2>1 DEF Climb
  <2>3. rpo[idom[cand]] \in Nat
    BY <1>0, <2>1 DEF TypeOK
  <2>4. \E p \in {cand', other'} \cup todo' : p # None /\ rpo'[p] < m
    <3>1. rpo[cand] < m => rpo[idom[cand]] < m
      BY <1>3, <2>1, <2>3
    <3>2. QED
      BY <1>0, <1>1, <1>2, <2>1, <2>2, <3>1
  <2>5. Fold'
    BY <1>0, <1>1, <1>2, <2>1, <2>2, <2>4 DEF Fold
  <2>6. QED
    BY <1>0, <2>2, <2>5 DEF NoPanic
<1>6. CASE rpo[cand] = rpo[other]
  <2>1. other' = None /\ UNCHANGED <<cand, panicked>>
    BY <1>3, <1>6 DEF Climb
  <2>2. \E p \in {cand', other'} \cup todo' : p # None /\ rpo'[p] < m
    BY <1>0, <1>1, <1>6, <2>1
  <2>3. Fold'
    BY <1>0, <1>1, <2>1, <2>2 DEF Fold
  <2>4. QED
    BY <1>0, <2>1, <2>3 DEF NoPanic
<1>7. QED
  BY <1>3, <1>4, <1>5, <1>6

\* The end of compute_idom: what it has found is above the block.
LEMMA FoldedFacts ==
  ASSUME IInv, Folded
  PROVE  /\ pos \in 1 .. Len(postorder) - 1 /\ Len(postorder) \in Nat
         /\ Current \in Block /\ cand \in Block /\ None \notin Block
         /\ rpo[cand] \in Nat /\ rpo[cand] > 1 /\ rpo[cand] < Len(postorder) - pos + 2
<1>0. TypeOK /\ Numbers /\ Fold /\ cand # None /\ other = None /\ todo = {}
  BY DEF IInv, Folded
<1>1. /\ pc \in {"number", "iterate"} /\ pos > 0 /\ rpo[cand] > 1
      /\ rpo[cand] < Len(postorder) - pos + 2
  BY <1>0 DEF Fold
<1>2. pos \in 1 .. Len(postorder) - 1 /\ Len(postorder) \in Nat
  BY <1>0, <1>1 DEF TypeOK, Numbers
<1>3. Current \in Block /\ cand \in Block /\ rpo[cand] \in Nat /\ None \notin Block
  BY <1>0, <1>2, GraphType DEF Current, TypeOK
<1>4. QED
  BY <1>1, <1>2, <1>3

\* The first pass numbers the blocks in reverse post-order.
LEMMA NumberStep ==
  ASSUME IInv, Number
  PROVE  Traversal' /\ Parents' /\ Numbers' /\ Trees' /\ Fold' /\ NoPanic'
<1> DEFINE l == Len(postorder)
<1>0. TypeOK /\ Numbers /\ Trees /\ NoPanic
  BY DEF IInv
<1>1. /\ pc = "number" /\ Folded /\ pc' = "number" /\ pos' = pos - 1 /\ cand' = None
      /\ rpo' = [rpo EXCEPT ![Current] = l - pos + 2]
      /\ idom' = [idom EXCEPT ![Current] = cand]
      /\ UNCHANGED <<succ, reverse, postorder, stack, other, todo, panicked>>
  BY DEF Number, graph, order
<1>2. /\ pos \in 1 .. l - 1 /\ l \in Nat /\ Current \in Block /\ cand \in Block
      /\ None \notin Block
      /\ rpo[cand] \in Nat /\ rpo[cand] > 1 /\ rpo[cand] < l - pos + 2
  BY <1>1, FoldedFacts
<1>3. /\ \A b \in Block : rpo'[b] = IF b = Current THEN l - pos + 2 ELSE rpo[b]
      /\ \A b \in Block : idom'[b] = IF b = Current THEN cand ELSE idom[b]
  BY <1>0, <1>1, <1>2 DEF TypeOK
<1>4. rpo[Current] = DONE
  BY <1>0, <1>1, <1>2 DEF Numbers, Numbered, Current
<1>5. Traversal' /\ Parents'
  BY <1>1 DEF Traversal, Parents
<1>6. \A i \in 1 .. l : /\ postorder[i] \in Block /\ (postorder[i] = Current <=> i = pos)
                        /\ Numbered(i)' <=> Numbered(i) \/ i = pos
  <2>1. \A i \in 1 .. l : Numbered(i)' <=> Numbered(i) \/ i = pos
    BY <1>1, <1>2 DEF Numbered
  <2>2. \A i \in 1 .. l : postorder[i] = Current <=> i = pos
    BY <1>0, <1>1, <1>2 DEF Numbers, Current
  <2>3. \A i \in 1 .. l : postorder[i] \in Block
    BY <1>0, Blocks
  <2>4. QED
    BY <2>1, <2>2, <2>3
<1>7. Numbers'
  <2>0. /\ postorder # <<>> /\ postorder[l] = Root /\ Root' = Root /\ pos' < l
        /\ \A i, j \in 1 .. l : postorder[i] = postorder[j] => i = j
        /\ \A i \in 1 .. l - 1 :
             \E j \in i + 1 .. l : Leads(succ, reverse, postorder[j], postorder[i])
    BY <1>0, <1>1, <1>2 DEF Numbers, Root
  <2>1. \A i \in 1 .. l : rpo[postorder[i]] = IF Numbered(i) THEN l - i + 2 ELSE DONE
    BY <1>0, <1>1 DEF Numbers
  <2>2. \A i \in 1 .. l : rpo'[postorder[i]] = IF Numbered(i)' THEN l - i + 2 ELSE DONE
    BY <1>3, <1>6, <2>1
  <2>3. \A b \in Block : rpo'[b] > 1 => \E i \in 1 .. l : postorder[i] = b
    <3>1. \A b \in Block : rpo[b] > 1 => \E i \in 1 .. l : postorder[i] = b
      BY <1>0, <1>1 DEF Numbers
    <3>2. pos \in 1 .. l /\ postorder[pos] = Current
      BY <1>2 DEF Current
    <3>3. QED
      BY <1>3, <3>1, <3>2
  <2>4. \A i \in 1 .. l - 1 : Numbered(i)' => idom'[postorder[i]] # None
    <3>1. \A i \in 1 .. l - 1 : Numbered(i) => idom[postorder[i]] # None
      BY <1>0, <1>1 DEF Numbers
    <3>2. \A i \in 1 .. l - 1 : i \in 1 .. l
      BY <1>2
    <3>3. QED
      BY <1>2, <1>3, <1>6, <3>1, <3>2
  <2>5. QED
    BY <1>1, <2>0, <2>2, <2>3, <2>4 DEF Numbers, Numbered
<1>8. ClimbsDown'
  <2> SUFFICES ASSUME NEW b \in Block, idom'[b] # None
               PROVE  1 < rpo'[idom'[b]] /\ rpo'[idom'[b]] < rpo'[b]
    BY DEF ClimbsDown
  <2>1. CASE b = Current
    BY <1>2, <1>3, <1>4, <2>1 DEF DONE
  <2>2. CASE b # Current
    <3>1. idom[b] # None /\ idom'[b] = idom[b] /\ idom[b] \in Block
      BY <1>0, <1>3, <2>2 DEF TypeOK
    <3>2. 1 < rpo[idom[b]] /\ rpo[idom[b]] < rpo[b]
      BY <1>0, <3>1 DEF Trees, ClimbsDown
    <3>3. idom[b] # Current
      BY <1>4, <3>2 DEF DONE
    <3>4. QED
      BY <1>3, <2>2, <3>1, <3>2, <3>3
  <2>3. QED
    BY <2>1, <2>2
<1>9. Fold' /\ NoPanic' /\ Trees'
  BY <1>0, <1>1, <1>8 DEF Fold, NoPanic, Trees, Folded
<1>10. QED
  BY <1>5, <1>7, <1>9

\* Later passes leave the numbers alone.
LEMMA CorrectStep ==
  ASSUME IInv, Correct
  PROVE  Traversal' /\ Parents' /\ Numbers' /\ Trees' /\ Fold' /\ NoPanic'
<1> DEFINE l == Len(postorder)
<1>0. TypeOK /\ Numbers /\ Trees /\ NoPanic
  BY DEF IInv
<1>1. /\ pc = "iterate" /\ Folded /\ pc' = "iterate" /\ pos' = pos - 1 /\ cand' = None
      /\ idom' = [idom EXCEPT ![Current] = cand]
      /\ UNCHANGED <<succ, reverse, rpo, postorder, stack, other, todo, panicked>>
  BY DEF Correct, graph, order
<1>2. /\ pos \in 1 .. l - 1 /\ l \in Nat /\ Current \in Block /\ cand \in Block
      /\ None \notin Block
      /\ rpo[cand] \in Nat /\ rpo[cand] > 1 /\ rpo[cand] < l - pos + 2
  BY <1>1, FoldedFacts
<1>3. \A b \in Block : idom'[b] = IF b = Current THEN cand ELSE idom[b]
  BY <1>0, <1>1, <1>2 DEF TypeOK
<1>4. rpo[Current] = l - pos + 2
  BY <1>0, <1>1, <1>2 DEF Numbers, Numbered, Current
<1>5. Traversal' /\ Parents'
  BY <1>1 DEF Traversal, Parents
<1>6. \A i \in 1 .. l : Numbered(i) /\ Numbered(i)' /\ postorder[i] \in Block
  BY <1>0, <1>1, Blocks DEF Numbered
<1>7. Numbers'
  <2>1. \A i \in 1 .. l - 1 : idom[postorder[i]] # None /\ postorder[i] \in Block
    BY <1>0, <1>1, <1>2, <1>6 DEF Numbers
  <2>2. \A i \in 1 .. l - 1 : idom'[postorder[i]] # None
    BY <1>2, <1>3, <2>1
  <2>3. Root' = Root /\ pos' < l
    BY <1>1, <1>2 DEF Root
  <2>4. QED
    BY <1>0, <1>1, <1>6, <2>2, <2>3 DEF Numbers
<1>8. ClimbsDown'
  BY <1>0, <1>1, <1>2, <1>3, <1>4 DEF Trees, ClimbsDown
<1>9. Fold' /\ NoPanic' /\ Trees'
  BY <1>0, <1>1, <1>8 DEF Fold, NoPanic, Trees, Folded
<1>10. QED
  BY <1>5, <1>7, <1>9

\* The end of a pass.
LEMMA EndPassStep ==
  ASSUME IInv, EndPass
  PROVE  Traversal' /\ Parents' /\ Numbers' /\ Trees' /\ Fold' /\ NoPanic'
<1> DEFINE l == Len(postorder)
<1>0. TypeOK /\ Numbers /\ Trees /\ Fold /\ NoPanic
  BY DEF IInv
<1>1. /\ pc \in {"number", "iterate"} /\ pos = 0 /\ pc' \in {"iterate", "done"}
      /\ pos' \in {l - 1, 0}
      /\ UNCHANGED <<succ, reverse, rpo, idom, postorder, stack, cand, other, todo, panicked>>
  BY DEF EndPass, graph, order, fold
<1>2. Traversal' /\ Parents'
  BY <1>1 DEF Traversal, Parents
<1>3. \A i \in 1 .. l : Numbered(i) /\ Numbered(i)'
  BY <1>0, <1>1 DEF Numbered, TypeOK
<1>4. l \in Nat /\ l > 0
  BY <1>0, <1>1, EmptySeq DEF TypeOK, Numbers
<1>5. Numbers'
  <2>1. Root' = Root /\ pos' < l
    BY <1>1, <1>4 DEF Root
  <2>2. \A i \in 1 .. l - 1 : Numbered(i) /\ Numbered(i)'
    BY <1>3, <1>4
  <2>3. QED
    BY <1>0, <1>1, <1>3, <2>1, <2>2 DEF Numbers
<1>6. cand = None
  BY <1>0, <1>1 DEF Fold
<1>7. Fold' /\ NoPanic' /\ Trees'
  BY <1>0, <1>1, <1>6 DEF Fold, NoPanic, Trees, ClimbsDown
<1>8. QED
  BY <1>2, <1>5, <1>7

-----------------------------------------------------------------------------
(* The theorems.                                                           *)

\* The first state: the root alone is on the stack.
LEMMA InitInv == Init => IInv
<1> SUFFICES ASSUME Init PROVE IInv
  OBVIOUS
<1> DEFINE f == Frame(Root, IF reverse THEN <<>> ELSE succ[Root])
<1>0. TypeOK
  BY InitType
<1>1. /\ pc = "order" /\ postorder = <<>> /\ stack = <<f>> /\ f.bb = Root
      /\ rpo = [b \in Block |-> IF b = Root THEN SEEN ELSE UNDEF]
      /\ idom = [b \in Block |-> None] /\ cand = None /\ other = None /\ todo = {}
      /\ panicked = FALSE
  BY DEF Init, Frame
<1>2. Len(stack) = 1 /\ Len(postorder) = 0 /\ stack[1] = f /\ Root \in Block
  BY <1>0, <1>1, GraphType
<1> HIDE DEF f
<1>3. Traversal
  <2>1. \A b \in Block : rpo[b] # UNDEF => stack[1].bb = b
    BY <1>1, <1>2
  <2>2. \A k \in 1 .. Len(stack) : k = 1
    BY <1>2
  <2>3. rpo[Root] # UNDEF
    BY <1>1, <1>2 DEF SEEN, UNDEF
  <2>4. QED
    BY <1>1, <1>2, <2>1, <2>2, <2>3 DEF Traversal
<1>4. Parents
  <2>1. ~reverse => \A m \in 1 .. Len(f.rest) : Leads(succ, reverse, f.bb, f.rest[m])
    BY DEF Leads, f, Frame
  <2>2. \A k \in 1 .. Len(stack) : k = 1
    BY <1>2
  <2>3. stack # <<>>
    BY <1>2
  <2>4. QED
    BY <1>1, <1>2, <2>1, <2>2, <2>3 DEF Parents
<1>5. Numbers /\ Trees /\ Fold /\ NoPanic
  BY <1>1 DEF Numbers, Trees, ClimbsDown, Fold, NoPanic
<1>6. QED
  BY <1>0, <1>3, <1>4, <1>5 DEF IInv

\* Every step keeps the invariant.
LEMMA NextInv ==
  ASSUME IInv, [Next]_vars
  PROVE  IInv'
<1>1. TypeOK'
  BY TypeStep
<1>2. Traversal' /\ Parents' /\ Numbers' /\ Trees' /\ Fold' /\ NoPanic'
  <2>1. CASE Enter \/ Leave \/ Expand \/ Retire
    BY <2>1, OrderStep
  <2>2. CASE StartNumbers
    BY <2>2, StartStep
  <2>3. CASE First
    <3>1. UNCHANGED <<graph, pc, rpo, idom, order, pos>>
      BY <2>3 DEF First
    <3>2. QED
      BY <2>3, <3>1, FirstStep, FoldKeeps
  <2>4. CASE Another
    <3>1. /\ UNCHANGED <<graph, pc, rpo, idom, order, pos>>
          /\ UNCHANGED <<cand, panicked, postorder>>
      BY <2>4 DEF Another, order
    <3>2. PICK p \in todo : other' = p /\ todo' = todo \ {p}
      BY <2>4 DEF Another
    <3>3. Fold /\ NoPanic /\ cand # None /\ other = None
      BY <2>4 DEF IInv, Another
    <3>4. Fold'
      BY <3>1, <3>2, <3>3 DEF Fold
    <3>5. QED
      BY <3>1, <3>3, <3>4, FoldKeeps DEF NoPanic
  <2>5. CASE Climb
    <3>1. UNCHANGED <<graph, pc, rpo, idom, order, pos>>
      BY <2>5 DEF Climb
    <3>2. QED
      BY <2>5, <3>1, ClimbStep, FoldKeeps
  <2>6. CASE Number
    BY <2>6, NumberStep
  <2>7. CASE Correct
    BY <2>7, CorrectStep
  <2>8. CASE EndPass
    BY <2>8, EndPassStep
  <2>9. CASE UNCHANGED vars
    <3>1. /\ UNCHANGED <<graph, pc, rpo, idom, order, pos>>
          /\ UNCHANGED <<cand, other, todo, panicked, postorder>>
      BY <2>9 DEF vars, graph, order
    <3>2. Fold /\ NoPanic
      BY DEF IInv
    <3>3. QED
      BY <3>1, <3>2, FoldKeeps DEF Fold, NoPanic
  <2>10. QED
    BY <2>1, <2>2, <2>3, <2>4, <2>5, <2>6, <2>7, <2>8, <2>9 DEF Next
<1>3. QED
  BY <1>1, <1>2 DEF IInv

\* DominatorTree::compute keeps its invariant in every flow graph.
LEMMA Invariant == Spec => []IInv
<1>1. QED
  BY InitInv, NextInv, PTL DEF Spec

\* Every variable of the computation keeps to its type: the post-order holds
\* blocks, and pos never leaves it.
THEOREM TypeCorrect == Spec => []TypeOK
<1>1. IInv => TypeOK
  BY DEF IInv
<1>2. QED
  BY <1>1, Invariant, PTL

\* No expect() of compute_idom and common_dominator fails: the first
\* predecessor is there, and the climb does not pass the root.
THEOREM NoPanicCorrect == Spec => []NoPanic
<1>1. IInv => NoPanic
  BY DEF IInv
<1>2. QED
  BY <1>1, Invariant, PTL

\* Immediate dominators have smaller numbers than their blocks, so every climb
\* (common_dominator, dominates, the frontiers) ends.
THEOREM ClimbsDownCorrect == Spec => []ClimbsDown
<1>1. IInv => ClimbsDown
  BY DEF IInv, Trees
<1>2. QED
  BY <1>1, Invariant, PTL

-----------------------------------------------------------------------------
(* That the tree is right: what the passes keep.                           *)

\* The ancestors of a block in the tree of immediate dominators, itself included.
Anc(b) == {a \in Block : \A S \in SUBSET Block :
             (b \in S /\ \A x \in S : idom[x] # None => idom[x] \in S) => a \in S}

\* The traversal meets what the root reaches, and nothing else: what a finished
\* block leads to has been visited, what one on the stack leads to is still to come.
Explored ==
  /\ \A b \in Block : rpo[b] # UNDEF => b \in Reached
  /\ pc = "order" => \A b, c \in Block :
       rpo[b] = DONE /\ Leads(succ, reverse, b, c) => rpo[c] # UNDEF
  /\ pc = "order" /\ ~reverse => \A k \in 1 .. Len(stack), c \in Block :
       Leads(succ, reverse, stack[k].bb, c) =>
         rpo[c] # UNDEF \/ \E m \in 1 .. Len(stack[k].rest) : stack[k].rest[m] = c
  /\ pc # "order" => \A b \in Reached : \E i \in 1 .. Len(postorder) : postorder[i] = b

\* In every pass idom errs on one side only: what dominates a block strictly
\* dominates the immediate dominator it has.
DomsUp ==
  pc # "order" => \A b \in Block : idom[b] # None =>
    \A d \in Block : StrictDom(d, b) => Dom(d, idom[b])

\* compute_idom: what dominates the block dominates the candidate (and the other
\* block that climbs), whose ancestors are those of all predecessors it has met.
Meet ==
  cand # None =>
    /\ \A d \in Block : StrictDom(d, Current) => Dom(d, cand) /\ (other # None => Dom(d, other))
    /\ todo \subseteq ready(Current)
    /\ \A p \in ready(Current) \ todo, a \in Anc(cand) :
         (other # None => a \in Anc(other)) => a \in Anc(p)

\* A pass that has changed nothing so far has left, behind pos, blocks whose
\* immediate dominator is above all their predecessors.
Settled ==
  /\ pc = "done" => pos = 0
  /\ (pc = "iterate" /\ ~changed) \/ pc = "done" =>
       \A i \in pos + 1 .. Len(postorder) - 1 :
         \A p \in ready(postorder[i]) : Anc(idom[postorder[i]]) \subseteq Anc(p)

DInv == Explored /\ DomsUp /\ Meet /\ Settled

-----------------------------------------------------------------------------
(* Functions defined by recursion over 0 .. N, without induction: a set of *)
(* numbers has a least element.                                            *)

\* A set of numbers that is not empty has a least one.
LEMMA LeastNat ==
  ASSUME NEW T \in SUBSET Nat, T # {}
  PROVE  \E m \in T : \A k \in T : m <= k
<1>1. IsWellFoundedOn(OpToRel(<, Nat), Nat)
  BY NatLessThanWellFounded
<1>2. PICK m \in T : \A k \in T : ~(<<k, m>> \in OpToRel(<, Nat))
  BY <1>1, WFMin
<1>3. \A k \in T : ~(k < m)
  BY <1>2 DEF OpToRel
<1>4. QED
  BY <1>3

\* f iterates step from start on, n times.
Iterates(f, n, start, step) == f = [k \in 0 .. n |-> IF k = 0 THEN start ELSE step[f[k - 1]]]

\* A function can be iterated any number of times.
LEMMA IterateOn ==
  ASSUME NEW D, NEW start \in D, NEW step \in [D -> D], NEW n \in Nat
  PROVE  \E f \in [0 .. n -> D] : Iterates(f, n, start, step)
<1> DEFINE T == {m \in Nat : ~\E f \in [0 .. m -> D] : Iterates(f, m, start, step)}
<1> SUFFICES ASSUME T # {} PROVE FALSE
  OBVIOUS
<1>1. PICK m \in T : \A k \in T : m <= k
  <2>1. T \in SUBSET Nat
    OBVIOUS
  <2> HIDE DEF T
  <2>2. QED
    BY <2>1, LeastNat
<1>2. m \in Nat /\ ~\E f \in [0 .. m -> D] : Iterates(f, m, start, step)
  OBVIOUS
<1>3. CASE m = 0
  <2>1. PICK f : f = [k \in 0 .. 0 |-> start]
    OBVIOUS
  <2>2. f \in [0 .. 0 -> D] /\ f = [k \in 0 .. 0 |-> IF k = 0 THEN start ELSE step[f[k - 1]]]
    BY <2>1
  <2>3. QED
    BY <1>2, <1>3, <2>2 DEF Iterates
<1>4. CASE m # 0
  <2>1. m - 1 \in Nat /\ m - 1 \notin T
    <3> HIDE DEF T
    <3>1. QED
      BY <1>1, <1>2, <1>4
  <2>2. PICK g \in [0 .. m - 1 -> D] : Iterates(g, m - 1, start, step)
    BY <2>1
  <2>3. g = [k \in 0 .. m - 1 |-> IF k = 0 THEN start ELSE step[g[k - 1]]]
    BY <2>2 DEF Iterates
  <2>4. PICK f : f = [k \in 0 .. m |-> IF k = m THEN step[g[m - 1]] ELSE g[k]]
    OBVIOUS
  <2>5. g[m - 1] \in D
    BY <2>1, <2>2
  <2>6. f \in [0 .. m -> D]
    BY <1>2, <2>1, <2>2, <2>4, <2>5
  <2>7. \A k \in 0 .. m - 1 : f[k] = g[k]
    BY <1>2, <2>4
  <2>8. ASSUME NEW k \in 0 .. m
        PROVE  f[k] = IF k = 0 THEN start ELSE step[f[k - 1]]
    <3>1. CASE k = m
      BY <1>2, <1>4, <2>1, <2>4, <2>7, <3>1
    <3>2. CASE k # m
      <4>1. k \in 0 .. m - 1 /\ (k # 0 => k - 1 \in 0 .. m - 1)
        BY <1>2, <3>2
      <4>2. g[k] = IF k = 0 THEN start ELSE step[g[k - 1]]
        BY <2>3, <4>1
      <4>3. QED
        BY <2>7, <4>1, <4>2
    <3>3. QED
      BY <3>1, <3>2
  <2>9. f = [k \in 0 .. m |-> IF k = 0 THEN start ELSE step[f[k - 1]]]
    BY <2>6, <2>8
  <2>10. QED
    BY <1>2, <2>6, <2>9 DEF Iterates
<1>5. QED
  BY <1>3, <1>4

\* f is a function on 0 .. n.
FunctionTo(f, n) == f = [k \in 0 .. n |-> f[k]]

\* Two functions that start alike and go on alike are alike.
LEMMA SameSteps ==
  ASSUME NEW n \in Nat, NEW f, NEW g,
         FunctionTo(f, n), FunctionTo(g, n), f[0] = g[0],
         \A k \in 1 .. n : f[k - 1] = g[k - 1] => f[k] = g[k]
  PROVE  f = g
<1> DEFINE T == {k \in 0 .. n : f[k] # g[k]}
<1> SUFFICES ASSUME T # {} PROVE FALSE
  BY DEF FunctionTo
<1>1. T \in SUBSET Nat
  OBVIOUS
<1>2. PICK m \in T : \A k \in T : m <= k
  <2> HIDE DEF T
  <2>1. QED
    BY <1>1, LeastNat
<1>3. m \in 0 .. n /\ f[m] # g[m]
  OBVIOUS
<1>4. m \in 1 .. n /\ m - 1 \in 0 .. n /\ m - 1 \notin T
  <2> HIDE DEF T
  <2>1. QED
    BY <1>2, <1>3
<1>5. QED
  BY <1>3, <1>4 DEF FunctionTo

-----------------------------------------------------------------------------
(* Reachability, dominance and ancestors.                                  *)

\* Up is what its recursive definition says.
LEMMA UpDef ==
  ASSUME TypeOK, NEW b \in Block
  PROVE  /\ Up(b) \in [0 .. N -> Block \cup {None}] /\ Up(b)[0] = b
         /\ \A k \in 1 .. N : Up(b)[k] = IF Up(b)[k - 1] = None THEN None ELSE idom[Up(b)[k - 1]]
<1> DEFINE D == Block \cup {None}
           body(f) == [k \in 0 .. N |-> IF k = 0 THEN b
                                         ELSE IF f[k - 1] = None THEN None ELSE idom[f[k - 1]]]
<1>1. N \in Nat /\ idom \in [Block -> D] /\ b \in D /\ None \in D
  BY GraphType DEF TypeOK
<1>2. PICK step : step = [x \in D |-> IF x = None THEN None ELSE idom[x]]
  OBVIOUS
<1>3. step \in [D -> D]
  BY <1>1, <1>2
<1>4. PICK f \in [0 .. N -> D] : Iterates(f, N, b, step)
  <2> HIDE DEF D
  <2>1. QED
    BY <1>1, <1>3, IterateOn
<1>5. f = [k \in 0 .. N |-> IF k = 0 THEN b ELSE step[f[k - 1]]]
  BY <1>4 DEF Iterates
<1>6. \A k \in 1 .. N : f[k - 1] \in D
  BY <1>1, <1>4
<1>7. f = body(f)
  <2>1. f[0] = b
    BY <1>1, <1>5
  <2>2. ASSUME NEW k \in 1 .. N
        PROVE  f[k] = IF f[k - 1] = None THEN None ELSE idom[f[k - 1]]
    <3>1. f[k] = step[f[k - 1]]
      BY <1>1, <1>5
    <3>2. QED
      BY <1>2, <1>6, <3>1
  <2>3. \A k \in 0 .. N : f[k] = body(f)[k]
    <3>1. \A k \in 0 .. N : k = 0 \/ k \in 1 .. N
      BY <1>1
    <3> HIDE DEF D
    <3>2. QED
      BY <2>1, <2>2, <3>1
  <2>4. QED
    BY <1>4, <2>3
<1>8. \E g : g = body(g)
  BY <1>7
<1>9. Up(b) = body(Up(b))
  <2>1. Up(b) = CHOOSE g : g = body(g)
    BY DEF Up
  <2>2. QED
    BY <1>8, <2>1
<1> HIDE DEF D
<1>10. PICK u : u = Up(b)
  OBVIOUS
<1>11. u = body(u)
  BY <1>9, <1>10
<1>12. ASSUME NEW k \in 1 .. N, u[k - 1] = f[k - 1]
       PROVE  u[k] = f[k]
  BY <1>1, <1>7, <1>11, <1>12
<1>13. u = f
  <2>1. u[0] = b /\ f[0] = b
    BY <1>1, <1>7, <1>11
  <2>2. FunctionTo(u, N)
    BY <1>11 DEF FunctionTo
  <2>3. FunctionTo(f, N) /\ u[0] = f[0]
    BY <1>4, <2>1 DEF FunctionTo
  <2>4. QED
    BY <1>1, <1>12, <2>1, <2>2, <2>3, SameSteps
<1>14. QED
  BY <1>1, <1>4, <1>7, <1>10, <1>13 DEF D

\* The states of the computation of ReachedWithout.
LEMMA ReachDef ==
  ASSUME TypeOK, NEW A
  PROVE  \E reach \in [0 .. N -> SUBSET Block] :
           /\ reach[0] = {Root} \ A /\ reach[N] = ReachedWithout(A)
           /\ \A k \in 1 .. N :
                reach[k] = reach[k - 1] \cup ((UNION {Outgoing(b) : b \in reach[k - 1]}) \ A)
<1> DEFINE D == SUBSET Block
           more(X) == X \cup ((UNION {Outgoing(b) : b \in X}) \ A)
           body(f) == [k \in 0 .. N |-> IF k = 0 THEN {Root} \ A ELSE more(f[k - 1])]
<1>1. N \in Nat /\ {Root} \ A \in D /\ \A X \in D : more(X) \in D
  BY GraphType
<1> HIDE DEF D, more
<1>0. 0 \in 0 .. N /\ \A k \in 1 .. N : k # 0 /\ k \in 0 .. N /\ k - 1 \in 0 .. N
  BY <1>1
<1>2. PICK step : step = [X \in D |-> more(X)]
  OBVIOUS
<1>3. step \in [D -> D]
  BY <1>1, <1>2
<1>4. PICK f \in [0 .. N -> D] : Iterates(f, N, {Root} \ A, step)
  BY <1>1, <1>3, IterateOn
<1>5. f = [k \in 0 .. N |-> IF k = 0 THEN {Root} \ A ELSE step[f[k - 1]]]
  BY <1>4 DEF Iterates
<1>6. f = body(f)
  <2>1. f[0] = {Root} \ A
    BY <1>1, <1>5
  <2>2. ASSUME NEW k \in 1 .. N
        PROVE  f[k] = more(f[k - 1])
    <3>1. f[k] = step[f[k - 1]] /\ f[k - 1] \in D
      BY <1>0, <1>4, <1>5
    <3>2. QED
      BY <1>2, <3>1
  <2>3. \A k \in 0 .. N : f[k] = body(f)[k]
    <3>1. \A k \in 0 .. N : k = 0 \/ k \in 1 .. N
      BY <1>1
    <3>2. QED
      BY <2>1, <2>2, <3>1
  <2>4. QED
    BY <1>4, <2>3
<1>7. PICK u : u = CHOOSE g : g = body(g)
  OBVIOUS
<1>8. u = body(u)
  BY <1>6, <1>7
<1>9. u[N] = ReachedWithout(A)
  BY <1>7 DEF ReachedWithout, more
<1>10. u = f
  <2>1. u[0] = {Root} \ A /\ f[0] = {Root} \ A
    BY <1>0, <1>6, <1>8
  <2>2. FunctionTo(u, N) /\ FunctionTo(f, N)
    BY <1>4, <1>8 DEF FunctionTo
  <2>3. ASSUME NEW k \in 1 .. N, u[k - 1] = f[k - 1]
        PROVE  u[k] = f[k]
    BY <1>0, <1>6, <1>8, <2>3
  <2>4. QED
    <3>1. f[0] = u[0]
      BY <2>1
    <3> HIDE <1>5, <1>6, <1>8
    <3>2. QED
      BY <1>1, <2>2, <2>3, <3>1, SameSteps
<1>11. f[0] = {Root} \ A /\ \A k \in 1 .. N : f[k] = more(f[k - 1])
  BY <1>0, <1>6
<1>12. QED
  BY <1>4, <1>9, <1>10, <1>11 DEF D, more

\* N steps are enough: ReachedWithout(A) is closed under the edges that do not
\* enter A ...
LEMMA ReachClosed ==
  ASSUME TypeOK, NEW A
  PROVE  /\ ReachedWithout(A) \subseteq Block \ A
         /\ Root \notin A => Root \in ReachedWithout(A)
         /\ \A a \in ReachedWithout(A) : Outgoing(a) \ A \subseteq ReachedWithout(A)
<1>1. PICK r \in [0 .. N -> SUBSET Block] :
        /\ r[0] = {Root} \ A /\ r[N] = ReachedWithout(A)
        /\ \A k \in 1 .. N : r[k] = r[k - 1] \cup ((UNION {Outgoing(b) : b \in r[k - 1]}) \ A)
  BY ReachDef
<1>2. N \in Nat \ {0} /\ Root \in Block /\ \A b \in Block : Outgoing(b) \subseteq Block
  BY GraphType
<1>2a. Block = 1 .. N
  BY DEF Block
<1> HIDE DEF Block
<1> DEFINE more(X) == X \cup ((UNION {Outgoing(b) : b \in X}) \ A)
<1>3. \A k \in 1 .. N : r[k] = more(r[k - 1]) /\ r[k - 1] \subseteq r[k] /\ k - 1 \in 0 .. N /\ k \in 0 .. N
  BY <1>1, <1>2
<1> HIDE DEF more
<1>4. \A k \in 0 .. N : r[k] \subseteq Block \ A /\ {Root} \ A \subseteq r[k]
  <2> DEFINE T == {k \in 0 .. N : ~(r[k] \subseteq Block \ A /\ {Root} \ A \subseteq r[k])}
  <2> SUFFICES ASSUME T # {} PROVE FALSE
    OBVIOUS
  <2>1. PICK m \in T : \A k \in T : m <= k
    <3>1. T \in SUBSET Nat
      BY <1>2
    <3> HIDE DEF T
    <3>2. QED
      BY <3>1, LeastNat
  <2>2. m \in 0 .. N /\ ~(r[m] \subseteq Block \ A /\ {Root} \ A \subseteq r[m])
    OBVIOUS
  <2>3. m # 0
    BY <1>1, <1>2, <2>2
  <2>4. m \in 1 .. N /\ m - 1 \in 0 .. N /\ m - 1 \notin T
    <3> HIDE DEF T
    <3>1. QED
      BY <1>2, <2>1, <2>2, <2>3
  <2>5. r[m - 1] \subseteq Block \ A /\ {Root} \ A \subseteq r[m - 1]
    BY <2>4
  <2>6. \A X \in SUBSET Block : X \subseteq Block \ A => more(X) \subseteq Block \ A /\ X \subseteq more(X)
    BY <1>2 DEF more
  <2>7. r[m] = more(r[m - 1]) /\ r[m - 1] \in SUBSET Block
    BY <1>1, <1>3, <2>4
  <2>8. QED
    BY <2>2, <2>5, <2>6, <2>7
<1>5. ASSUME NEW k \in 1 .. N, r[k] = r[k - 1]
      PROVE  r[N] = r[k]
  <2> DEFINE T == {j \in k .. N : r[j] # r[k]}
  <2> SUFFICES ASSUME T # {} PROVE FALSE
    BY <1>2
  <2>1. PICK m \in T : \A j \in T : m <= j
    <3>1. T \in SUBSET Nat
      BY <1>2
    <3> HIDE DEF T
    <3>2. QED
      BY <3>1, LeastNat
  <2>2. m \in k .. N /\ r[m] # r[k]
    OBVIOUS
  <2>3. m - 1 \in k .. N /\ m \in 1 .. N /\ m - 1 \notin T
    <3> HIDE DEF T
    <3>1. QED
      BY <1>2, <2>1, <2>2
  <2>4. r[m - 1] = r[k - 1]
    BY <1>5, <2>3
  <2>5. r[m] = more(r[m - 1]) /\ r[k] = more(r[k - 1])
    BY <1>3, <2>3
  <2>6. QED
    BY <2>2, <2>4, <2>5
<1>6. CASE \E k \in 1 .. N : r[k] = r[k - 1]
  <2>1. PICK k \in 1 .. N : r[k] = r[k - 1]
    BY <1>6
  <2>2. r[N] = r[k] /\ r[k] = more(r[k])
    BY <1>3, <1>5, <2>1
  <2>3. \A a \in r[N] : Outgoing(a) \ A \subseteq r[N]
    BY <2>2 DEF more
  <2>4. N \in 0 .. N
    BY <1>2
  <2>5. QED
    BY <1>1, <1>4, <2>3, <2>4
<1>7. CASE \A k \in 1 .. N : r[k] # r[k - 1]
  <2>1. IsFiniteSet(Block) /\ Cardinality(Block) = N
    BY <1>2, <1>2a, FS_Interval
  <2>2. \A k \in 0 .. N : IsFiniteSet(r[k]) /\ Cardinality(r[k]) \in Nat /\ Cardinality(r[k]) <= N
                            /\ (Cardinality(r[k]) = N => r[k] = Block)
    BY <1>1, <2>1, FS_Subset, FS_CardinalityType
  <2>3. \A k \in 1 .. N : Cardinality(r[k - 1]) < Cardinality(r[k])
    <3> TAKE k \in 1 .. N
    <3>1. k - 1 \in 0 .. N /\ k \in 0 .. N /\ r[k - 1] \in SUBSET r[k] /\ r[k] # r[k - 1]
      BY <1>3, <1>7
    <3>2. /\ Cardinality(r[k - 1]) <= Cardinality(r[k])
          /\ Cardinality(r[k]) = Cardinality(r[k - 1]) => r[k] = r[k - 1]
      BY <2>2, <3>1, FS_Subset
    <3>3. QED
      BY <2>2, <3>1, <3>2
  <2>4. \A k \in 0 .. N : Cardinality(r[k]) >= k
    <3> DEFINE T == {k \in 0 .. N : ~(Cardinality(r[k]) >= k)}
    <3> SUFFICES ASSUME T # {} PROVE FALSE
      OBVIOUS
    <3>1. PICK m \in T : \A k \in T : m <= k
      <4>1. T \in SUBSET Nat
        BY <1>2
      <4> HIDE DEF T
      <4>2. QED
        BY <4>1, LeastNat
    <3>2. m \in 0 .. N /\ ~(Cardinality(r[m]) >= m)
      OBVIOUS
    <3>3. m # 0 /\ m \in 1 .. N /\ m - 1 \in 0 .. N
      BY <1>2, <2>2, <3>2
    <3>4. m - 1 \notin T
      <4> HIDE DEF T
      <4>1. QED
        BY <3>1, <3>3
    <3>5. Cardinality(r[m - 1]) >= m - 1
      BY <3>3, <3>4
    <3>6. QED
      BY <2>2, <2>3, <3>2, <3>3, <3>5
  <2>5. N \in 0 .. N
    BY <1>2
  <2>6. r[N] = Block
    BY <1>2, <2>2, <2>4, <2>5
  <2>7. QED
    BY <1>1, <1>2, <1>4, <2>5, <2>6
<1>8. QED
  BY <1>6, <1>7

\* ... and the smallest set that is and holds the root.
LEMMA ReachLeast ==
  ASSUME TypeOK, NEW A, NEW S, {Root} \ A \subseteq S, \A a \in S : Outgoing(a) \ A \subseteq S
  PROVE  ReachedWithout(A) \subseteq S
<1>1. PICK r \in [0 .. N -> SUBSET Block] :
        /\ r[0] = {Root} \ A /\ r[N] = ReachedWithout(A)
        /\ \A k \in 1 .. N : r[k] = r[k - 1] \cup ((UNION {Outgoing(b) : b \in r[k - 1]}) \ A)
  BY ReachDef
<1>2. N \in Nat /\ N \in 0 .. N
  BY GraphType
<1> DEFINE T == {k \in 0 .. N : ~(r[k] \subseteq S)}
<1> SUFFICES ASSUME T # {} PROVE FALSE
  BY <1>1, <1>2
<1>3. PICK m \in T : \A k \in T : m <= k
  <2>1. T \in SUBSET Nat
    BY <1>2
  <2> HIDE DEF T
  <2>2. QED
    BY <2>1, LeastNat
<1>4. m \in 0 .. N /\ ~(r[m] \subseteq S)
  OBVIOUS
<1>5. m # 0 /\ m \in 1 .. N /\ m - 1 \in 0 .. N
  BY <1>1, <1>2, <1>4
<1>6. m - 1 \notin T
  <2> HIDE DEF T
  <2>1. QED
    BY <1>2, <1>3, <1>5
<1>7. r[m - 1] \subseteq S
  BY <1>5, <1>6
<1>8. r[m] = r[m - 1] \cup ((UNION {Outgoing(b) : b \in r[m - 1]}) \ A)
  BY <1>1, <1>5
<1>9. \A b \in r[m - 1] : Outgoing(b) \ A \subseteq S
  BY <1>7
<1>10. QED
  BY <1>4, <1>7, <1>8, <1>9

\* The blocks a traversal goes on to are those it is led to.
LEMMA OutgoingLeads ==
  ASSUME TypeOK, NEW a \in Block, NEW b \in Block
  PROVE  /\ b \in Outgoing(a) <=> Leads(succ, reverse, a, b)
         /\ a \in Incoming(b) <=> Leads(succ, reverse, a, b)
BY DEF Outgoing, Incoming, Succs, Preds, Leads

\* ReachedWithout(A) is the smallest set that holds the root and is closed.
ReachFacts ==
  \A A \in SUBSET Block :
    /\ ReachedWithout(A) \subseteq Block \ A
    /\ Root \notin A => Root \in ReachedWithout(A)
    /\ \A a \in ReachedWithout(A) : Outgoing(a) \ A \subseteq ReachedWithout(A)
    /\ \A S \in SUBSET Block :
         (Root \in S \cup A /\ \A a \in S : Outgoing(a) \ A \subseteq S) => ReachedWithout(A) \subseteq S

\* For every set of blocks the two facts above hold, ...
LEMMA ReachSmallest == TypeOK => ReachFacts
<1> SUFFICES ASSUME TypeOK, NEW A \in SUBSET Block
             PROVE  /\ ReachedWithout(A) \subseteq Block \ A
                    /\ Root \notin A => Root \in ReachedWithout(A)
                    /\ \A a \in ReachedWithout(A) : Outgoing(a) \ A \subseteq ReachedWithout(A)
                    /\ \A S \in SUBSET Block :
                         (Root \in S \cup A /\ \A a \in S : Outgoing(a) \ A \subseteq S)
                           => ReachedWithout(A) \subseteq S
  BY DEF ReachFacts
<1>1. ASSUME NEW S \in SUBSET Block, Root \in S \cup A, \A a \in S : Outgoing(a) \ A \subseteq S
      PROVE  ReachedWithout(A) \subseteq S
  BY <1>1, ReachLeast
<1>2. QED
  BY <1>1, ReachClosed

\* ... and after a step they do.
LEMMA ReachSmallestNext == TypeOK' => ReachFacts'
BY ReachSmallest, PTL

\* What is reached depends on the graph alone.
LEMMA SameReach ==
  ASSUME TypeOK, TypeOK', UNCHANGED graph, NEW A \in SUBSET Block
  PROVE  ReachedWithout(A)' = ReachedWithout(A)
<1>1. UNCHANGED <<succ, reverse>>
  BY DEF graph
<1>2. Root' = Root
  BY <1>1 DEF Root
<1>3. \A b \in Block : Outgoing(b)' = Outgoing(b)
  BY <1>1 DEF Outgoing, Succs, Preds
<1>4. PICK R : R = ReachedWithout(A)
  OBVIOUS
<1>5. PICK Q : Q = ReachedWithout(A)'
  OBVIOUS
<1>6. /\ R \subseteq Block \ A /\ (Root \notin A => Root \in R) /\ \A a \in R : Outgoing(a) \ A \subseteq R
      /\ \A S \in SUBSET Block : (Root \in S \cup A /\ \A a \in S : Outgoing(a) \ A \subseteq S) => R \subseteq S
  BY <1>4, ReachSmallest DEF ReachFacts
<1>7. /\ Q \subseteq Block \ A /\ (Root' \notin A => Root' \in Q) /\ \A a \in Q : Outgoing(a)' \ A \subseteq Q
      /\ \A S \in SUBSET Block : (Root' \in S \cup A /\ \A a \in S : Outgoing(a)' \ A \subseteq S) => Q \subseteq S
  BY <1>5, ReachSmallestNext DEF ReachFacts
<1>8. R \subseteq Q
  BY <1>2, <1>3, <1>6, <1>7
<1>9. Q \subseteq R
  BY <1>2, <1>3, <1>6, <1>7
<1>10. QED
  BY <1>4, <1>5, <1>8, <1>9

\* Dominance, spelled out. The root is dominated by itself alone, ...
LEMMA DomRoot ==
  ASSUME TypeOK, NEW d \in Block, Dom(d, Root)
  PROVE  d = Root
<1>1. Root \notin {d} => Root \in ReachedWithout({d})
  BY ReachClosed
<1>2. QED
  BY <1>1 DEF Dom

\* ... and what strictly dominates a block dominates what leads to it.
LEMMA DomIncoming ==
  ASSUME TypeOK, NEW b \in Block, NEW p \in Incoming(b), NEW d \in Block, StrictDom(d, b)
  PROVE  Dom(d, p)
<1>1. p \in Block /\ b \in Outgoing(p)
  BY GraphType, OutgoingLeads
<1>2. \A a \in ReachedWithout({d}) : Outgoing(a) \ {d} \subseteq ReachedWithout({d})
  BY ReachClosed
<1>3. QED
  BY <1>1, <1>2 DEF Dom, StrictDom

\* The ancestors of a block in the tree of immediate dominators.
LEMMA AncLeast ==
  ASSUME NEW b, NEW S \in SUBSET Block, b \in S, \A x \in S : idom[x] # None => idom[x] \in S
  PROVE  Anc(b) \subseteq S
BY DEF Anc

\* They hold the block, and with a block its immediate dominator; ...
LEMMA AncUp ==
  ASSUME NEW b \in Block
  PROVE  /\ Anc(b) \subseteq Block /\ b \in Anc(b)
         /\ \A x \in Anc(b) : idom[x] \in Block => idom[x] \in Anc(b)
<1>1. None \notin Block
  BY DEF None, Block
<1>2. QED
  BY <1>1 DEF Anc

\* ... a block, that is, and the ancestors of its immediate dominator.
LEMMA AncUnfold ==
  ASSUME TypeOK, NEW b \in Block
  PROVE  /\ idom[b] = None => Anc(b) = {b}
         /\ idom[b] # None => Anc(b) = {b} \cup Anc(idom[b])
<1>1. idom \in [Block -> Block \cup {None}]
  BY DEF TypeOK
<1>2. CASE idom[b] = None
  <2>1. Anc(b) \subseteq {b}
    BY <1>2, AncLeast
  <2>2. QED
    BY <1>2, <2>1, AncUp
<1>3. CASE idom[b] # None
  <2>1. idom[b] \in Block
    BY <1>1, <1>3
  <2>2. /\ Anc(idom[b]) \subseteq Block /\ idom[b] \in Anc(idom[b])
        /\ \A x \in Anc(idom[b]) : idom[x] \in Block => idom[x] \in Anc(idom[b])
    BY <2>1, AncUp
  <2>3. Anc(b) \subseteq {b} \cup Anc(idom[b])
    <3>1. PICK S : S = {b} \cup Anc(idom[b])
      OBVIOUS
    <3>2. \A x \in S : idom[x] # None => idom[x] \in S
      BY <1>1, <2>1, <2>2, <3>1
    <3>3. QED
      BY <2>2, <3>1, <3>2, AncLeast
  <2>4. Anc(idom[b]) \subseteq Anc(b)
    <3>1. /\ Anc(b) \subseteq Block /\ idom[b] \in Anc(b)
          /\ \A x \in Anc(b) : idom[x] # None => idom[x] \in Anc(b)
      BY <1>1, <2>1, AncUp
    <3>2. QED
      BY <3>1, AncLeast
  <2>5. QED
    BY <1>3, <2>3, <2>4, AncUp
<1>4. QED
  BY <1>2, <1>3

\* Ancestors of ancestors are ancestors.
LEMMA AncTrans ==
  ASSUME TypeOK, NEW b \in Block, NEW a \in Anc(b)
  PROVE  Anc(a) \subseteq Anc(b)
<1>1. /\ Anc(b) \subseteq Block
      /\ \A x \in Anc(b) : idom[x] # None => idom[x] \in Anc(b)
  BY AncUp DEF TypeOK
<1>2. QED
  BY <1>1, AncLeast

\* Ancestors have smaller numbers.
LEMMA AncBelow ==
  ASSUME TypeOK, ClimbsDown, NEW b \in Block, NEW a \in Anc(b)
  PROVE  a \in Block /\ (a = b \/ (1 < rpo[a] /\ rpo[a] < rpo[b]))
<1>1. idom \in [Block -> Block \cup {None}] /\ rpo \in [Block -> Nat] /\ None \notin Block
  BY GraphType DEF TypeOK
<1>2. PICK S : S = {x \in Block : x = b \/ (1 < rpo[x] /\ rpo[x] < rpo[b])}
  OBVIOUS
<1>3. ASSUME NEW x \in S, idom[x] # None
      PROVE  idom[x] \in S
  <2>1. x \in Block /\ idom[x] \in Block /\ 1 < rpo[idom[x]] /\ rpo[idom[x]] < rpo[x]
    BY <1>1, <1>2, <1>3 DEF ClimbsDown
  <2>2. rpo[x] = rpo[b] \/ rpo[x] < rpo[b]
    BY <1>2
  <2>3. rpo[idom[x]] < rpo[b]
    BY <1>1, <2>1, <2>2
  <2>4. QED
    BY <1>2, <2>1, <2>3
<1>4. Anc(b) \subseteq S
  <2>1. b \in S
    BY <1>2
  <2>2. S \in SUBSET Block
    BY <1>2
  <2>3. QED
    BY <1>3, <2>1, <2>2, AncLeast
<1>5. QED
  BY <1>2, <1>4

\* Ancestors are a matter of the tree.
LEMMA SameAnc ==
  ASSUME UNCHANGED idom, NEW b
  PROVE  Anc(b)' = Anc(b)
BY DEF Anc

\* Dominance depends on the graph alone.
LEMMA SameDom ==
  ASSUME TypeOK, TypeOK', UNCHANGED graph
  PROVE  /\ Reached' = Reached
         /\ \A d \in Block : \A b : Dom(d, b)' = Dom(d, b) /\ StrictDom(d, b)' = StrictDom(d, b)
         /\ \A b \in Block : Incoming(b)' = Incoming(b)
         /\ Root' = Root
<1>1. \A d \in Block : ReachedWithout({d})' = ReachedWithout({d})
  BY SameReach
<1>2. ReachedWithout({})' = ReachedWithout({})
  BY SameReach
<1>3. \A d \in Block : \A b : Dom(d, b)' = Dom(d, b)
  BY <1>1 DEF Dom
<1>4. \A b \in Block : Incoming(b)' = Incoming(b)
  BY DEF graph, Incoming, Succs, Preds
<1>5. Root' = Root
  BY DEF graph, Root
<1>6. QED
  BY <1>2, <1>3, <1>4, <1>5 DEF Reached, StrictDom

\* The root is reached, and so is what a reached block leads to.
LEMMA ReachedClosed ==
  ASSUME TypeOK
  PROVE  /\ Reached \subseteq Block /\ Root \in Reached
         /\ \A a \in Reached, b \in Block : Leads(succ, reverse, a, b) => b \in Reached
<1>1. /\ Reached \subseteq Block /\ Root \in Reached
      /\ \A a \in Reached : Outgoing(a) \subseteq Reached
  BY ReachClosed DEF Reached
<1>2. QED
  BY <1>1, OutgoingLeads

-----------------------------------------------------------------------------
(* The invariant is kept.                                                  *)

\* At first only the root has been visited.
LEMMA DInit == Init => DInv
<1> SUFFICES ASSUME Init PROVE DInv
  OBVIOUS
<1>1. TypeOK /\ IInv
  BY InitInv, InitType
<1>2. /\ pc = "order" /\ cand = None /\ rpo = [b \in Block |-> IF b = Root THEN SEEN ELSE UNDEF]
      /\ stack = <<Frame(Root, IF reverse THEN <<>> ELSE succ[Root])>>
  BY DEF Init
<1>3. Root \in Reached
  BY <1>1, ReachedClosed
<1>4. \A k \in 1 .. Len(stack) : k = 1 /\ stack[k].bb = Root /\ (~reverse => stack[k].rest = succ[Root])
  BY <1>2 DEF Frame
<1>5. Explored
  BY <1>2, <1>3, <1>4 DEF Explored, UNDEF, SEEN, DONE, Leads
<1>6. QED
  BY <1>2, <1>5 DEF DInv, DomsUp, Meet, Settled

\* What Enter leaves to do: the top lost its last successor, which is visited
\* now and may be on the stack with all of its own.
LEMMA EnterEffect ==
  ASSUME IInv, Enter
  PROVE  /\ Len(stack) \in Nat \ {0} /\ Len(stack) <= Len(stack')
         /\ \A k \in 1 .. Len(stack) - 1 : stack'[k] = stack[k]
         /\ stack'[Len(stack)].bb = stack[Len(stack)].bb
         /\ \A m \in 1 .. Len(stack[Len(stack)].rest) :
              \/ rpo'[stack[Len(stack)].rest[m]] # UNDEF
              \/ /\ m \in 1 .. Len(stack'[Len(stack)].rest)
                 /\ stack'[Len(stack)].rest[m] = stack[Len(stack)].rest[m]
         /\ \A k \in Len(stack) + 1 .. Len(stack') : stack'[k].rest = succ[stack'[k].bb]
         /\ \A b \in Block : rpo[b] # UNDEF => rpo'[b] # UNDEF
         /\ \A b \in Block : rpo'[b] = rpo[b] \/ rpo'[b] = SEEN
<1> DEFINE F == [bb : Block, rest : Seq(Block)]
           n == Len(Top.rest)
           b == Top.rest[n]
           shrunk == Append(Pop, Frame(Top.bb, SubSeq(Top.rest, 1, n - 1)))
<1>0. TypeOK /\ stack # <<>> /\ ~reverse /\ Top.rest # <<>>
  BY DEF IInv, Enter
<1>1. /\ Len(stack) \in Nat \ {0} /\ Top \in F /\ Top = stack[Len(stack)]
      /\ Pop \in Seq(F) /\ Len(Pop) = Len(stack) - 1
      /\ \A k \in 1 .. Len(stack) - 1 : Pop[k] = stack[k]
  BY <1>0, PopStack DEF Top
<1>2. /\ succ \in [Block -> Seq(Block)] /\ rpo \in [Block -> Nat]
  BY <1>0, GraphType DEF TypeOK
<1>3. n \in Nat \ {0} /\ Top.rest \in Seq(Block) /\ Top.bb \in Block
  BY <1>0, <1>1, EmptySeq
<1>4. /\ SubSeq(Top.rest, 1, n - 1) \in Seq(Block) /\ Len(SubSeq(Top.rest, 1, n - 1)) = n - 1
      /\ \A m \in 1 .. n - 1 : SubSeq(Top.rest, 1, n - 1)[m] = Top.rest[m]
      /\ b \in Block
  BY <1>3
<1>5. /\ shrunk \in Seq(F) /\ Len(shrunk) = Len(stack)
      /\ \A k \in 1 .. Len(stack) - 1 : shrunk[k] = stack[k]
      /\ shrunk[Len(stack)] = Frame(Top.bb, SubSeq(Top.rest, 1, n - 1))
  <2> DEFINE f == Frame(Top.bb, SubSeq(Top.rest, 1, n - 1))
  <2>1. f \in F
    BY <1>3, <1>4 DEF Frame
  <2> HIDE DEF f, F
  <2>2. Append(Pop, f) \in Seq(F) /\ Len(Append(Pop, f)) = Len(Pop) + 1
        /\ Append(Pop, f)[Len(Pop) + 1] = f
        /\ \A k \in 1 .. Len(Pop) : Append(Pop, f)[k] = Pop[k]
    BY <1>1, <2>1
  <2>3. QED
    BY <1>1, <2>2 DEF f
<1> HIDE DEF shrunk
<1>6. /\ rpo'[b] # UNDEF /\ \A x \in Block : rpo'[x] = rpo[x] \/ rpo'[x] = SEEN
      /\ \A x \in Block : rpo[x] # UNDEF => rpo'[x] # UNDEF
  <2>1. \/ rpo[b] = UNDEF /\ rpo' = [rpo EXCEPT ![b] = SEEN]
        \/ rpo[b] # UNDEF /\ rpo' = rpo
    BY DEF Enter
  <2>2. b \in Block
    BY <1>4
  <2> HIDE DEF b
  <2>3. QED
    BY <1>2, <2>1, <2>2 DEF UNDEF, SEEN
<1>7. /\ Len(stack) <= Len(stack') /\ \A k \in 1 .. Len(stack) : stack'[k] = shrunk[k]
      /\ \A k \in Len(stack) + 1 .. Len(stack') : stack'[k].rest = succ[stack'[k].bb]
  <2>1. CASE stack' = shrunk
    BY <1>1, <1>5, <2>1
  <2>2. CASE stack' = Append(shrunk, Frame(b, succ[b]))
    <3> DEFINE f == Frame(b, succ[b])
    <3>1. f \in F /\ f.bb = b /\ f.rest = succ[b]
      BY <1>2, <1>4 DEF Frame
    <3> HIDE DEF f, F, b
    <3>2. Len(Append(shrunk, f)) = Len(shrunk) + 1 /\ Append(shrunk, f)[Len(shrunk) + 1] = f
          /\ \A k \in 1 .. Len(shrunk) : Append(shrunk, f)[k] = shrunk[k]
      BY <1>5, <3>1
    <3>3. QED
      BY <1>1, <1>5, <2>2, <3>1, <3>2 DEF f
  <2>3. QED
    BY <2>1, <2>2 DEF Enter, shrunk
<1>8. stack'[Len(stack)].bb = Top.bb /\ stack'[Len(stack)].rest = SubSeq(Top.rest, 1, n - 1)
  BY <1>1, <1>5, <1>7 DEF Frame
<1>9. \A m \in 1 .. n : m = n \/ m \in 1 .. n - 1
  BY <1>3
<1>10. \A m \in 1 .. n : \/ rpo'[Top.rest[m]] # UNDEF
                        \/ /\ m \in 1 .. Len(stack'[Len(stack)].rest)
                           /\ stack'[Len(stack)].rest[m] = Top.rest[m]
  BY <1>3, <1>4, <1>6, <1>8, <1>9
<1>11. \A k \in 1 .. Len(stack) - 1 : stack'[k] = stack[k]
  BY <1>1, <1>5, <1>7
<1>12. QED
  BY <1>1, <1>6, <1>7, <1>8, <1>10, <1>11

\* The traversal: what a finished block leads to has been visited.
LEMMA ExploreStep ==
  ASSUME IInv, IInv', DInv, Enter \/ Leave \/ Expand \/ Retire
  PROVE  DInv'
<1>0. /\ TypeOK /\ TypeOK' /\ Traversal /\ Parents /\ Fold /\ Explored
  BY DEF IInv, DInv
<1>1. /\ pc = "order" /\ pc' = "order" /\ cand' = cand /\ UNCHANGED graph
  BY DEF Enter, Leave, Expand, Retire, fold, graph
<1>2. cand' = None
  BY <1>0, <1>1 DEF Fold
<1>3. DomsUp' /\ Meet' /\ Settled'
  BY <1>1, <1>2 DEF DomsUp, Meet, Settled
<1>4. /\ Reached' = Reached /\ UNCHANGED <<succ, reverse>>
      /\ \A b, c \in Block : Leads(succ, reverse, b, c)' <=> Leads(succ, reverse, b, c)
  BY <1>0, <1>1, SameDom DEF graph
<1>5. Len(stack) \in Nat /\ \A k \in 1 .. Len(stack) : stack[k].bb \in Block /\ rpo[stack[k].bb] # UNDEF
  BY <1>0, <1>1, Blocks DEF Traversal
<1>5a. ASSUME NEW c \in Block, rpo[c] # UNDEF
       PROVE  rpo'[c] # UNDEF
  <2>1. CASE Enter \/ Expand
    BY <1>5a, <2>1, PushEffect
  <2>2. CASE Leave \/ Retire
    BY <1>5a, <2>2, PopEffect DEF UNDEF, DONE
  <2>3. QED
    BY <2>1, <2>2
<1>6. ASSUME NEW b \in Block, rpo'[b] # UNDEF
      PROVE  b \in Reached
  <2>1. CASE rpo[b] # UNDEF
    BY <1>0, <2>1 DEF Explored
  <2>2. CASE rpo[b] = UNDEF
    <3>1. CASE Enter \/ Expand
      <4>1. PICK k \in Len(stack) + 1 .. Len(stack') : stack'[k].bb = b
        BY <1>6, <2>2, <3>1, PushEffect
      <4>2. Leads(succ, reverse, stack[Len(stack)].bb, b) /\ Len(stack) \in Nat \ {0}
        BY <3>1, <4>1, PushEffect
      <4>3. stack[Len(stack)].bb \in Reached
        BY <1>0, <1>5, <4>2 DEF Explored
      <4>4. QED
        BY <1>0, <4>2, <4>3, ReachedClosed
    <3>2. CASE Leave \/ Retire
      <4>1. b = stack[Len(stack)].bb /\ Len(stack) \in Nat \ {0}
        BY <1>6, <2>2, <3>2, PopEffect
      <4>2. QED
        BY <1>5, <2>2, <4>1
    <3>3. QED
      BY <3>1, <3>2
  <2>3. QED
    BY <2>1, <2>2
<1>7. ASSUME NEW b \in Block, NEW c \in Block, rpo'[b] = DONE, Leads(succ, reverse, b, c)
      PROVE  rpo'[c] # UNDEF
  <2>1. rpo[c] # UNDEF => rpo'[c] # UNDEF
    BY <1>5a
  <2>2. CASE rpo[b] = DONE
    BY <1>0, <1>1, <1>7, <2>1, <2>2 DEF Explored
  <2>3. CASE rpo[b] # DONE
    <3>1. CASE Enter
      BY <1>7, <2>3, <3>1, EnterEffect DEF DONE, SEEN
    <3>2. CASE Leave
      <4>1. /\ b = Top.bb /\ Top.rest = <<>> /\ Top = stack[Len(stack)] /\ Len(stack) \in Nat \ {0}
            /\ ~reverse
        BY <1>7, <2>3, <3>2, PopEffect DEF Leave, Top
      <4>2. Len(stack) \in 1 .. Len(stack) /\ Len(stack[Len(stack)].rest) = 0
        BY <4>1
      <4>3. QED
        BY <1>0, <1>1, <1>7, <2>1, <4>1, <4>2 DEF Explored
    <3>3. CASE Expand
      <4>1. PICK new : /\ new = {p \in Preds(Top.bb) : rpo[p] = UNDEF}
                       /\ rpo' = [a \in Block |-> IF a = Top.bb THEN DONE
                                                   ELSE IF a \in new THEN SEEN ELSE rpo[a]]
        BY <3>3 DEF Expand
      <4>2. b = Top.bb
        BY <1>7, <2>3, <4>1 DEF SEEN, DONE
      <4>3. reverse
        BY <3>3 DEF Expand
      <4>4. c \in Preds(Top.bb)
        BY <1>7, <4>2, <4>3 DEF Leads, Preds, Succs
      <4>5. QED
        BY <2>1, <4>1, <4>4 DEF SEEN, DONE, UNDEF
    <3>4. CASE Retire
      BY <1>7, <2>3, <3>4 DEF Retire
    <3>5. QED
      BY <3>1, <3>2, <3>3, <3>4
  <2>4. QED
    BY <2>2, <2>3
<1>8. ASSUME ~reverse, NEW k \in 1 .. Len(stack'), NEW c \in Block, Leads(succ, reverse, stack'[k].bb, c)
      PROVE  rpo'[c] # UNDEF \/ \E m \in 1 .. Len(stack'[k].rest) : stack'[k].rest[m] = c
  <2>0. rpo[c] # UNDEF => rpo'[c] # UNDEF
    BY <1>5a
  <2>1. CASE Leave
    <3>1. stack'[k] = stack[k] /\ k \in 1 .. Len(stack)
      BY <2>1, PopEffect
    <3>2. QED
      BY <1>0, <1>1, <1>8, <2>0, <3>1 DEF Explored
  <2>2. CASE Enter
    <3>1. CASE k \in 1 .. Len(stack) - 1
      <4>1. stack'[k] = stack[k] /\ k \in 1 .. Len(stack)
        BY <1>5, <2>2, <3>1, EnterEffect
      <4>2. QED
        BY <1>0, <1>1, <1>8, <2>0, <4>1 DEF Explored
    <3>2. CASE k = Len(stack)
      <4>1. stack'[k].bb = stack[k].bb /\ k \in 1 .. Len(stack)
        BY <2>2, <3>2, EnterEffect
      <4>2. rpo[c] # UNDEF \/ \E m \in 1 .. Len(stack[k].rest) : stack[k].rest[m] = c
        BY <1>0, <1>1, <1>8, <4>1 DEF Explored
      <4>3. \A m \in 1 .. Len(stack[k].rest) :
              \/ rpo'[stack[k].rest[m]] # UNDEF
              \/ m \in 1 .. Len(stack'[k].rest) /\ stack'[k].rest[m] = stack[k].rest[m]
        BY <2>2, <3>2, EnterEffect
      <4>4. QED
        BY <2>0, <4>2, <4>3
    <3>3. CASE k \in Len(stack) + 1 .. Len(stack')
      <4>1. stack'[k].rest = succ[stack'[k].bb]
        BY <2>2, <3>3, EnterEffect
      <4>2. QED
        BY <1>8, <4>1 DEF Leads
    <3>4. QED
      BY <1>5, <1>8, <3>1, <3>2, <3>3
  <2>3. QED
    BY <1>8, <2>1, <2>2 DEF Expand, Retire
<1>9. Explored'
  BY <1>1, <1>4, <1>6, <1>7, <1>8 DEF Explored
<1>10. QED
  BY <1>3, <1>9 DEF DInv

\* When the traversal is over it has met all that is reached.
LEMMA StartDInv ==
  ASSUME IInv, IInv', DInv, StartNumbers
  PROVE  DInv'
<1>0. /\ TypeOK /\ TypeOK' /\ Traversal /\ Parents /\ Trees /\ Fold /\ Explored
  BY DEF IInv, DInv
<1>1. /\ pc = "order" /\ stack = <<>> /\ pc' = "number" /\ UNCHANGED graph
      /\ rpo' = [rpo EXCEPT ![postorder[Len(postorder)]] = 2]
      /\ UNCHANGED <<succ, reverse, idom, postorder, cand>>
  BY DEF StartNumbers, graph, order, fold
<1>2. Reached' = Reached
  BY <1>0, <1>1, SameDom
<1>3. cand' = None /\ \A b \in Block : idom'[b] = None
  BY <1>0, <1>1 DEF Fold, Trees
<1>4. DomsUp' /\ Meet' /\ Settled'
  BY <1>1, <1>3 DEF DomsUp, Meet, Settled
<1>5. /\ Len(postorder) \in 1 .. Len(postorder) /\ postorder[Len(postorder)] = Root
      /\ \A i \in 1 .. Len(postorder) : postorder[i] \in Block /\ rpo[postorder[i]] = DONE
  BY <1>0, <1>1, Blocks, EmptySeq DEF Parents, Traversal, TypeOK
<1>6. \A b \in Block : rpo[b] # UNDEF => \E i \in 1 .. Len(postorder) : postorder[i] = b
  BY <1>0, <1>1 DEF Traversal
<1>7. \A b \in Reached : \E i \in 1 .. Len(postorder) : postorder[i] = b
  <2>1. PICK S : S = {b \in Block : rpo[b] # UNDEF}
    OBVIOUS
  <2>2. Root \in S
    BY <1>5, <2>1 DEF DONE, UNDEF
  <2>3. ASSUME NEW a \in S, NEW b \in Outgoing(a)
        PROVE  b \in S
    <3>1. a \in Block /\ b \in Block /\ Leads(succ, reverse, a, b)
      BY <1>0, <2>1, GraphType, OutgoingLeads
    <3>2. rpo[a] = DONE
      BY <1>5, <1>6, <2>1, <3>1
    <3>3. QED
      BY <1>0, <1>1, <2>1, <3>1, <3>2 DEF Explored
  <2>4. Reached \subseteq S
    BY <1>0, <2>2, <2>3, ReachLeast DEF Reached
  <2>5. QED
    BY <1>6, <2>1, <2>4
<1>8. \A b \in Block : rpo'[b] # UNDEF => rpo[b] # UNDEF
  BY <1>0, <1>1, <1>5 DEF TypeOK, UNDEF, DONE
<1>9. Explored'
  BY <1>0, <1>1, <1>2, <1>7, <1>8 DEF Explored
<1>10. QED
  BY <1>4, <1>9 DEF DInv

\* Whatever dominates a numbered block is an ancestor of it, in every phase.
LEMMA DominatorIsAncestor ==
  ASSUME IInv, DInv, pc # "order", NEW b \in Block, rpo[b] > 1, NEW d \in Block, Dom(d, b)
  PROVE  d \in Anc(b)
<1>0. TypeOK /\ ClimbsDown /\ DomsUp /\ Numbers
  BY DEF IInv, DInv, Trees
<1>1. idom \in [Block -> Block \cup {None}] /\ rpo \in [Block -> Nat] /\ None \notin Block /\ Root \in Block
  BY <1>0, GraphType DEF TypeOK
<1> SUFFICES ASSUME d \notin Anc(b) PROVE FALSE
  OBVIOUS
<1>2. PICK S : S = {x \in Block : rpo[x] > 1 /\ Dom(d, x) /\ d \notin Anc(x)}
  OBVIOUS
<1>3. b \in S /\ S \in SUBSET Block
  BY <1>2
<1>4. ASSUME NEW x \in S, idom[x] # None
      PROVE  idom[x] \in S
  <2>1. x \in Block /\ rpo[x] > 1 /\ Dom(d, x) /\ d \notin Anc(x)
    BY <1>2
  <2>2. d # x
    BY <2>1, AncUp
  <2>3. Dom(d, idom[x])
    BY <1>0, <1>4, <2>1, <2>2 DEF DomsUp, StrictDom
  <2>4. idom[x] \in Block /\ rpo[idom[x]] > 1
    BY <1>0, <1>1, <1>4, <2>1 DEF ClimbsDown
  <2>5. d \notin Anc(idom[x])
    BY <1>0, <1>4, <2>1, AncUnfold
  <2>6. QED
    BY <1>2, <2>3, <2>4, <2>5
<1>5. PICK low : low = {n \in Nat : \E x \in S : rpo[x] = n}
  OBVIOUS
<1>6. PICK m \in low : \A k \in low : m <= k
  <2>1. low \in SUBSET Nat /\ low # {}
    BY <1>1, <1>3, <1>5
  <2>2. QED
    BY <2>1, LeastNat
<1>7. PICK x \in S : rpo[x] = m
  BY <1>5
<1>8. x \in Block /\ rpo[x] > 1 /\ Dom(d, x) /\ d \notin Anc(x)
  BY <1>2
<1>9. idom[x] = None
  <2> SUFFICES ASSUME idom[x] # None PROVE FALSE
    OBVIOUS
  <2>1. idom[x] \in S /\ idom[x] \in Block /\ rpo[idom[x]] < rpo[x]
    BY <1>0, <1>1, <1>4, <1>8 DEF ClimbsDown
  <2>2. rpo[idom[x]] \in low
    BY <1>1, <1>5, <2>1
  <2>3. rpo[idom[x]] \in Nat /\ m <= rpo[idom[x]] /\ rpo[x] \in Nat
    BY <1>1, <1>6, <1>8, <2>1, <2>2
  <2>4. QED
    BY <1>7, <2>1, <2>3
<1>10. x = Root
  <2>1. ~(rpo[x] > 2)
    BY <1>1, <1>8, <1>9, HasIdom
  <2>2. rpo[x] = 2
    BY <1>1, <1>8, <2>1
  <2>3. PICK i \in 1 .. Len(postorder) : postorder[i] = x
    BY <1>0, <1>8 DEF Numbers
  <2>4. i = Len(postorder)
    BY <1>0, <2>2, <2>3 DEF Numbers, DONE, TypeOK
  <2>5. QED
    BY <1>0, <2>3, <2>4 DEF Numbers
<1>11. d = Root
  BY <1>0, <1>8, <1>10, DomRoot
<1>12. QED
  BY <1>1, <1>8, <1>10, <1>11, AncUp

\* The steps of compute_idom keep everything but the candidate.
LEMMA FoldKeepsDInv ==
  ASSUME IInv, IInv', DInv, UNCHANGED <<graph, pc, rpo, idom, order, pos, changed>>
  PROVE  Explored' /\ DomsUp' /\ Settled'
<1>0. TypeOK /\ TypeOK' /\ Explored /\ DomsUp /\ Settled
  BY DEF IInv, DInv
<1>1. UNCHANGED <<succ, reverse, pc, rpo, idom, postorder, stack, pos, changed>> /\ UNCHANGED graph
  BY DEF graph, order
<1>2. /\ Reached' = Reached
      /\ \A d \in Block : \A b : Dom(d, b)' = Dom(d, b) /\ StrictDom(d, b)' = StrictDom(d, b)
      /\ \A b \in Block : Incoming(b)' = Incoming(b)
  BY <1>0, <1>1, SameDom
<1>3. Explored'
  BY <1>0, <1>1, <1>2 DEF Explored, Leads
<1>4. DomsUp'
  BY <1>0, <1>1, <1>2 DEF DomsUp
<1>5. Settled'
  <2>1. \A b : Anc(b)' = Anc(b)
    BY <1>1, SameAnc
  <2>2. \A i \in 1 .. Len(postorder) : postorder[i] \in Block
    BY <1>0, Blocks
  <2>3. \A i \in pos + 1 .. Len(postorder) - 1 : i \in 1 .. Len(postorder)
    BY <1>0 DEF TypeOK
  <2>4. \A b \in Block : ready(b)' = ready(b)
    BY <1>1, <1>2 DEF ready
  <2>5. QED
    BY <1>0, <1>1, <2>1, <2>2, <2>3, <2>4 DEF Settled
<1>6. QED
  BY <1>3, <1>4, <1>5

\* What holds of the block that compute_idom works for.
LEMMA CurrentFacts ==
  ASSUME IInv, pc \in {"number", "iterate"}, pos > 0
  PROVE  /\ pos \in 1 .. Len(postorder) - 1 /\ Len(postorder) \in Nat /\ Current \in Block /\ Current # Root
         /\ ready(Current) \subseteq Incoming(Current) /\ Incoming(Current) \subseteq Block
         /\ \A p \in ready(Current) : rpo[p] > 1
<1>0. TypeOK /\ Numbers
  BY DEF IInv
<1>1. pos \in 1 .. Len(postorder) - 1 /\ Len(postorder) \in Nat /\ Current \in Block
  BY <1>0 DEF TypeOK, Numbers, Current
<1>2. Current # Root
  BY <1>0, <1>1 DEF Numbers, Current
<1>3. QED
  BY <1>0, <1>1, <1>2, GraphType DEF ready

\* compute_idom starts with a predecessor, ...
LEMMA FirstMeets ==
  ASSUME IInv, IInv', DInv, First
  PROVE  DInv'
<1>0. TypeOK /\ TypeOK' /\ Fold /\ NoPanic /\ NoPanic'
  BY DEF IInv
<1>1. /\ pc \in {"number", "iterate"} /\ pos > 0 /\ cand = None
      /\ UNCHANGED <<graph, pc, rpo, idom, order, pos, other, changed>>
  BY DEF First
<1>2. Explored' /\ DomsUp' /\ Settled'
  BY <1>1, FoldKeepsDInv
<1>3. PICK p \in ready(Current) : cand' = p /\ todo' = ready(Current) \ {p}
  BY <1>0 DEF First, NoPanic
<1>4. other' = None
  BY <1>0, <1>1 DEF Fold
<1>5. /\ Current \in Block /\ ready(Current) \subseteq Incoming(Current) /\ Incoming(Current) \subseteq Block
  BY <1>1, CurrentFacts
<1>6. /\ Current' = Current
      /\ \A d \in Block : \A b : Dom(d, b)' = Dom(d, b) /\ StrictDom(d, b)' = StrictDom(d, b)
      /\ ready(Current)' = ready(Current)
  <2>1. Current' = Current
    BY <1>1 DEF Current, order
  <2>2. Incoming(Current)' = Incoming(Current)
    BY <1>0, <1>1, <2>1 DEF Incoming, Succs, Preds, graph
  <2>3. QED
    BY <1>0, <1>1, <2>1, <2>2, SameDom DEF ready
<1>7. \A d \in Block : StrictDom(d, Current) => Dom(d, p)
  BY <1>0, <1>3, <1>5, DomIncoming
<1>8. Meet'
  BY <1>3, <1>4, <1>6, <1>7 DEF Meet
<1>9. QED
  BY <1>2, <1>8 DEF DInv

\* ... goes on to the next, ...
LEMMA AnotherMeets ==
  ASSUME IInv, IInv', DInv, Another
  PROVE  DInv'
<1>0. TypeOK /\ TypeOK' /\ Fold /\ Meet
  BY DEF IInv, DInv
<1>1. /\ cand # None /\ other = None /\ cand' = cand
      /\ UNCHANGED <<graph, pc, rpo, idom, order, pos, changed>>
  BY DEF Another
<1>2. Explored' /\ DomsUp' /\ Settled'
  BY <1>1, FoldKeepsDInv
<1>3. PICK p \in todo : other' = p /\ todo' = todo \ {p}
  BY DEF Another
<1>4. pc \in {"number", "iterate"} /\ pos > 0
  BY <1>0, <1>1 DEF Fold
<1>5. /\ Current \in Block /\ ready(Current) \subseteq Incoming(Current) /\ Incoming(Current) \subseteq Block
  BY <1>4, CurrentFacts
<1>6. /\ Current' = Current
      /\ \A d \in Block : \A b : Dom(d, b)' = Dom(d, b) /\ StrictDom(d, b)' = StrictDom(d, b)
      /\ ready(Current)' = ready(Current) /\ \A b : Anc(b)' = Anc(b)
  <2>1. Current' = Current
    BY <1>1 DEF Current, order
  <2>2. Incoming(Current)' = Incoming(Current)
    BY <1>0, <1>1, <2>1 DEF Incoming, Succs, Preds, graph
  <2>3. QED
    BY <1>0, <1>1, <2>1, <2>2, SameDom, SameAnc DEF ready
<1>7. p \in ready(Current)
  BY <1>0, <1>1 DEF Meet
<1>8. \A d \in Block : StrictDom(d, Current) => Dom(d, p)
  BY <1>0, <1>5, <1>7, DomIncoming
<1>9. Meet'
  <2>1. \A d \in Block : StrictDom(d, Current) => Dom(d, cand)
    BY <1>0, <1>1 DEF Meet
  <2>2. \A q \in ready(Current) \ todo' : q = p \/ q \in ready(Current) \ todo
    BY <1>3
  <2>3. \A q \in ready(Current) \ todo, a \in Anc(cand) : a \in Anc(q)
    BY <1>0, <1>1 DEF Meet
  <2>4. todo' \subseteq ready(Current)
    BY <1>0, <1>1, <1>3 DEF Meet
  <2>5. \A q \in ready(Current) \ todo', a \in Anc(cand) : (other' # None => a \in Anc(other')) => a \in Anc(q)
    <3>1. p # None
      BY <1>0, <1>5, <1>7, GraphType
    <3>2. QED
      BY <1>3, <2>2, <2>3, <3>1
  <2>6. QED
    BY <1>1, <1>3, <1>6, <1>8, <2>1, <2>4, <2>5 DEF Meet
<1>10. QED
  BY <1>2, <1>9 DEF DInv

\* ... and climbs: what both have above them stays above them, and what
\* dominates the block is passed by neither.
LEMMA ClimbMeets ==
  ASSUME IInv, IInv', DInv, Climb
  PROVE  DInv'
<1>0. TypeOK /\ TypeOK' /\ Fold /\ Meet /\ DomsUp /\ ClimbsDown /\ Numbers /\ NoPanic'
  BY DEF IInv, DInv, Trees
<1>1. /\ other # None /\ UNCHANGED <<graph, pc, rpo, idom, order, pos, changed, todo>>
  BY DEF Climb
<1>2. Explored' /\ DomsUp' /\ Settled'
  BY <1>1, FoldKeepsDInv
<1>3. cand # None /\ pc \in {"number", "iterate"} /\ pos > 0 /\ rpo[cand] > 1 /\ rpo[other] > 1
  BY <1>0, <1>1 DEF Fold
<1>4. /\ cand \in Block /\ other \in Block /\ None \notin Block
      /\ idom \in [Block -> Block \cup {None}] /\ rpo \in [Block -> Nat]
  BY <1>0, <1>1, <1>3, GraphType DEF TypeOK
<1>6. /\ Current' = Current
      /\ \A d \in Block : \A b : Dom(d, b)' = Dom(d, b) /\ StrictDom(d, b)' = StrictDom(d, b)
      /\ ready(Current)' = ready(Current) /\ \A b : Anc(b)' = Anc(b)
  <2>1. Current' = Current
    BY <1>1 DEF Current, order
  <2>2. Incoming(Current)' = Incoming(Current)
    BY <1>0, <1>1, <2>1 DEF Incoming, Succs, Preds, graph
  <2>3. QED
    BY <1>0, <1>1, <2>1, <2>2, SameDom, SameAnc DEF ready
<1>7. /\ \A d \in Block : StrictDom(d, Current) => Dom(d, cand) /\ Dom(d, other)
      /\ todo \subseteq ready(Current)
      /\ \A p \in ready(Current) \ todo, a \in Anc(cand) : a \in Anc(other) => a \in Anc(p)
  BY <1>0, <1>1, <1>3 DEF Meet
<1>8. \A x, y \in Block : rpo[x] < rpo[y] /\ rpo[x] > 1 /\ idom[y] # None =>
        \A d \in Block : Dom(d, x) /\ Dom(d, y) => Dom(d, idom[y])
  <2> SUFFICES ASSUME NEW x \in Block, NEW y \in Block, rpo[x] < rpo[y], rpo[x] > 1, idom[y] # None,
                      NEW d \in Block, Dom(d, x), Dom(d, y)
               PROVE  Dom(d, idom[y])
    OBVIOUS
  <2>1. d \in Anc(x)
    BY <1>3, DominatorIsAncestor
  <2>2. d = x \/ rpo[d] < rpo[x]
    BY <1>0, <2>1, AncBelow
  <2>3. d # y
    BY <1>4, <2>2
  <2>4. QED
    BY <1>0, <1>3, <2>3 DEF DomsUp, StrictDom
<1>9. \A y \in Block : idom[y] # None => Anc(idom[y]) \subseteq Anc(y)
  BY <1>0, AncUnfold
<1>10. CASE rpo[cand] < rpo[other]
  <2>1. idom[other] # None /\ other' = idom[other] /\ cand' = cand
    BY <1>0, <1>4, <1>10 DEF Climb, NoPanic
  <2>2. \A d \in Block : StrictDom(d, Current) => Dom(d, cand) /\ Dom(d, idom[other])
    BY <1>3, <1>4, <1>7, <1>8, <1>10, <2>1
  <2>3. Anc(idom[other]) \subseteq Anc(other)
    BY <1>4, <1>9, <2>1
  <2>4. Meet'
    BY <1>1, <1>6, <1>7, <2>1, <2>2, <2>3 DEF Meet
  <2>5. QED
    BY <1>2, <2>4 DEF DInv
<1>11. CASE rpo[cand] > rpo[other]
  <2>1. idom[cand] # None /\ cand' = idom[cand] /\ other' = other
    BY <1>0, <1>4, <1>11 DEF Climb, NoPanic
  <2>2. \A d \in Block : StrictDom(d, Current) => Dom(d, other) /\ Dom(d, idom[cand])
    BY <1>3, <1>4, <1>7, <1>8, <1>11, <2>1
  <2>3. Anc(idom[cand]) \subseteq Anc(cand)
    BY <1>4, <1>9, <2>1
  <2>4. Meet'
    BY <1>1, <1>6, <1>7, <2>1, <2>2, <2>3 DEF Meet
  <2>5. QED
    BY <1>2, <2>4 DEF DInv
<1>12. CASE rpo[cand] = rpo[other]
  <2>1. other' = None /\ cand' = cand
    BY <1>4, <1>12 DEF Climb
  <2>2. cand = other
    <3>1. PICK i \in 1 .. Len(postorder) : postorder[i] = cand
      BY <1>0, <1>3, <1>4 DEF Numbers
    <3>2. PICK j \in 1 .. Len(postorder) : postorder[j] = other
      BY <1>0, <1>3, <1>4 DEF Numbers
    <3>3. /\ rpo[cand] = IF Numbered(i) THEN Len(postorder) - i + 2 ELSE DONE
          /\ rpo[other] = IF Numbered(j) THEN Len(postorder) - j + 2 ELSE DONE
      BY <1>0, <1>3, <3>1, <3>2 DEF Numbers
    <3>4. rpo[cand] = Len(postorder) - i + 2 /\ rpo[other] = Len(postorder) - j + 2
      BY <1>3, <3>3 DEF DONE
    <3>5. Len(postorder) \in Nat
      BY <1>0 DEF TypeOK
    <3>6. i = j
      <4>1. Len(postorder) - i + 2 = Len(postorder) - j + 2
        BY <1>12, <3>4
      <4>2. i \in Nat /\ j \in Nat
        BY <3>1, <3>2
      <4>3. QED
        BY <3>5, <4>1, <4>2
    <3>7. QED
      BY <3>1, <3>2, <3>6
  <2>3. Meet'
    BY <1>1, <1>6, <1>7, <2>1, <2>2 DEF Meet
  <2>4. QED
    BY <1>2, <2>3 DEF DInv
<1>13. QED
  BY <1>4, <1>10, <1>11, <1>12

\* compute_domtree writes an immediate dominator below what dominates the block.
LEMMA WriteKeepsDomsUp ==
  ASSUME IInv, IInv', DInv, Number \/ Correct
  PROVE  Explored' /\ DomsUp' /\ Meet'
<1>0. TypeOK /\ TypeOK' /\ Fold /\ Meet /\ DomsUp /\ Explored /\ Numbers
  BY DEF IInv, DInv
<1>1. /\ Folded /\ cand' = None /\ idom' = [idom EXCEPT ![Current] = cand]
      /\ pc \in {"number", "iterate"} /\ UNCHANGED <<graph, pc, postorder>>
  BY DEF Number, Correct, order
<1>2. /\ Current \in Block /\ cand \in Block /\ pos \in 1 .. Len(postorder)
  BY <1>1, FoldedFacts
<1>3. /\ Reached' = Reached
      /\ \A d \in Block : \A b : Dom(d, b)' = Dom(d, b) /\ StrictDom(d, b)' = StrictDom(d, b)
  BY <1>0, <1>1, SameDom
<1>4. Meet'
  BY <1>1 DEF Meet
<1>5. \A d \in Block : StrictDom(d, Current) => Dom(d, cand)
  BY <1>0, <1>1 DEF Meet, Folded
<1>6. \A b \in Block : idom'[b] = IF b = Current THEN cand ELSE idom[b]
  BY <1>0, <1>1 DEF TypeOK
<1>7. DomsUp'
  BY <1>0, <1>1, <1>3, <1>5, <1>6 DEF DomsUp
<1>8. rpo[Current] # UNDEF
  <2>1. Len(postorder) \in Nat
    BY <1>0 DEF TypeOK
  <2>2. rpo[Current] = IF Numbered(pos) THEN Len(postorder) - pos + 2 ELSE DONE
    BY <1>0, <1>1, <1>2 DEF Numbers, Current
  <2>3. QED
    BY <1>2, <2>1, <2>2 DEF UNDEF, DONE
<1>9. \A b \in Block : rpo'[b] # UNDEF => rpo[b] # UNDEF
  <2>1. \A b \in Block : b # Current => rpo'[b] = rpo[b]
    BY <1>0 DEF Number, Correct, TypeOK
  <2>2. QED
    BY <1>8, <2>1
<1>10. Explored'
  BY <1>0, <1>1, <1>3, <1>9 DEF Explored
<1>11. QED
  BY <1>4, <1>7, <1>10

\* In the first pass nothing is settled, ...
LEMMA NumberDInv ==
  ASSUME IInv, IInv', DInv, Number
  PROVE  DInv'
<1>1. pc' = "number"
  BY DEF Number
<1>2. Settled'
  BY <1>1 DEF Settled
<1>3. QED
  BY <1>2, WriteKeepsDomsUp DEF DInv

\* ... in a pass that has changed nothing the blocks behind pos are, ...
LEMMA CorrectDInv ==
  ASSUME IInv, IInv', DInv, Correct
  PROVE  DInv'
<1>0. TypeOK /\ TypeOK' /\ Meet /\ Settled
  BY DEF IInv, DInv
<1>1. /\ pc = "iterate" /\ Folded /\ changed' = (changed \/ idom[Current] # cand)
      /\ idom' = [idom EXCEPT ![Current] = cand] /\ pos' = pos - 1
      /\ UNCHANGED <<graph, pc, rpo, postorder>>
  BY DEF Correct, order
<1>2. /\ pos \in 1 .. Len(postorder) - 1 /\ Len(postorder) \in Nat /\ Current \in Block /\ cand \in Block
  BY <1>1, FoldedFacts
<1>3. CASE changed'
  <2>1. Settled'
    BY <1>1, <1>3 DEF Settled
  <2>2. QED
    BY <2>1, WriteKeepsDomsUp DEF DInv
<1>4. CASE ~changed'
  <2>1. ~changed /\ idom[Current] = cand
    BY <1>0, <1>1, <1>4 DEF TypeOK
  <2>2. idom' = idom
    BY <1>0, <1>1, <1>2, <2>1 DEF TypeOK
  <2>3. \A b : Anc(b)' = Anc(b)
    BY <2>2, SameAnc
  <2>4. \A b \in Block : ready(b)' = ready(b)
    BY <1>0, <1>1, SameDom DEF ready
  <2>5. \A p \in ready(Current) : Anc(idom[Current]) \subseteq Anc(p)
    BY <1>0, <1>1, <2>1 DEF Meet, Folded
  <2>6. ASSUME NEW i \in pos' + 1 .. Len(postorder) - 1, NEW p \in ready(postorder[i])
        PROVE  Anc(idom[postorder[i]]) \subseteq Anc(p)
    <3>1. CASE i = pos
      BY <2>5, <2>6, <3>1 DEF Current
    <3>2. CASE i # pos
      <4>1. i \in pos + 1 .. Len(postorder) - 1
        BY <1>1, <1>2, <3>2
      <4>2. QED
        BY <1>0, <1>1, <2>1, <2>6, <4>1 DEF Settled
    <3>3. QED
      BY <3>1, <3>2
  <2>7. \A i \in pos' + 1 .. Len(postorder) - 1 : postorder[i] \in Block
    <3>1. \A i \in pos' + 1 .. Len(postorder) - 1 : i \in 1 .. Len(postorder)
      BY <1>1, <1>2
    <3>2. QED
      BY <1>0, <3>1, Blocks
  <2>8. Settled'
    BY <1>1, <2>2, <2>3, <2>4, <2>6, <2>7 DEF Settled
  <2>9. QED
    BY <2>8, WriteKeepsDomsUp DEF DInv
<1>5. QED
  BY <1>3, <1>4

\* ... and when such a pass ends all are.
LEMMA EndPassDInv ==
  ASSUME IInv, IInv', DInv, EndPass
  PROVE  DInv'
<1>0. TypeOK /\ TypeOK' /\ Meet /\ Settled /\ Explored /\ DomsUp /\ Fold
  BY DEF IInv, DInv
<1>1. /\ pc \in {"number", "iterate"} /\ pos = 0 /\ pc' \in {"iterate", "done"}
      /\ pc' = "iterate" => pos' = Len(postorder) - 1
      /\ pc' = "done" => pos' = 0 /\ pc = "iterate" /\ ~changed
      /\ UNCHANGED <<graph, rpo, idom, postorder, cand, other, todo>>
  BY DEF EndPass, order, fold
<1>2. cand = None
  BY <1>0, <1>1 DEF Fold
<1>3. Meet'
  BY <1>1, <1>2 DEF Meet
<1>4. /\ Reached' = Reached
      /\ \A d \in Block : \A b : Dom(d, b)' = Dom(d, b) /\ StrictDom(d, b)' = StrictDom(d, b)
      /\ \A b \in Block : Incoming(b)' = Incoming(b)
  BY <1>0, <1>1, SameDom
<1>5. Explored' /\ DomsUp'
  BY <1>0, <1>1, <1>4 DEF Explored, DomsUp
<1>6. Settled'
  <2>0. Len(postorder) \in Nat /\ \A i \in 1 .. Len(postorder) - 1 : postorder[i] \in Block
    BY <1>0, Blocks
  <2>1. CASE pc' = "iterate"
    <3>1. \A i \in pos' + 1 .. Len(postorder') - 1 : FALSE
      BY <1>1, <2>0, <2>1
    <3>2. QED
      BY <2>1, <3>1 DEF Settled
  <2>2. CASE pc' = "done"
    <3>1. \A b : Anc(b)' = Anc(b)
      BY <1>1, SameAnc
    <3>2. \A b \in Block : ready(b)' = ready(b)
      BY <1>1, <1>4 DEF ready
    <3>3. \A i \in 1 .. Len(postorder) - 1 :
            \A p \in ready(postorder[i]) : Anc(idom[postorder[i]]) \subseteq Anc(p)
      BY <1>0, <1>1, <2>2 DEF Settled
    <3>4. \A i \in 1 .. Len(postorder) - 1 :
            \A p \in ready(postorder[i])' : Anc(idom[postorder[i]])' \subseteq Anc(p)'
      <4>1. \A i \in 1 .. Len(postorder) - 1 : ready(postorder[i])' = ready(postorder[i])
        BY <1>1, <2>0, <3>2
      <4>2. \A i \in 1 .. Len(postorder) - 1 : Anc(idom[postorder[i]])' = Anc(idom[postorder[i]])
        BY <1>1, <3>1
      <4>3. QED
        BY <3>1, <3>3, <4>1, <4>2
    <3>5. QED
      BY <1>1, <2>2, <3>4 DEF Settled
  <2>3. QED
    BY <1>1, <2>1, <2>2
<1>7. QED
  BY <1>3, <1>5, <1>6 DEF DInv

\* The whole step.
LEMMA NextDInv ==
  ASSUME IInv, IInv', DInv, [Next]_vars
  PROVE  DInv'
<1>1. CASE UNCHANGED vars
  <2>1. /\ UNCHANGED <<graph, pc, rpo, idom, order, pos, changed>>
        /\ UNCHANGED <<cand, other, todo, postorder, succ, reverse, rpo, idom>>
    BY <1>1 DEF vars, graph, order
  <2>2. /\ \A d \in Block : \A b : Dom(d, b)' = Dom(d, b) /\ StrictDom(d, b)' = StrictDom(d, b)
        /\ \A b : Anc(b)' = Anc(b)
    BY <2>1, SameDom, SameAnc DEF IInv
  <2>3. ready(Current)' = ready(Current)
    BY <2>1 DEF ready, Current, Incoming, Succs, Preds
  <2>4. Current' = Current
    BY <2>1 DEF Current
  <2>5. Meet'
    BY <2>1, <2>2, <2>3, <2>4 DEF DInv, Meet
  <2>6. QED
    BY <2>1, <2>5, FoldKeepsDInv DEF DInv
<1>2. CASE Next
  BY <1>2, ExploreStep, StartDInv, FirstMeets, AnotherMeets, ClimbMeets, NumberDInv, CorrectDInv, EndPassDInv
     DEF Next
<1>3. QED
  BY <1>1, <1>2

\* DominatorTree::compute keeps both invariants.
LEMMA TreeInvariant == Spec => [](IInv /\ DInv)
<1>1. Init => IInv /\ DInv
  BY InitInv, DInit
<1>2. IInv /\ DInv /\ [Next]_vars => IInv' /\ DInv'
  BY NextInv, NextDInv
<1>3. QED
  BY <1>1, <1>2, PTL DEF Spec

-----------------------------------------------------------------------------
(* The result.                                                             *)

\* In the end the numbered blocks are the reached ones, and every block meets
\* its neighbours at its immediate dominator.
LEMMA AtEnd ==
  ASSUME IInv, DInv, pc = "done"
  PROVE  /\ \A b \in Block : rpo[b] > 1 <=> b \in Reached
         /\ \A a, b \in Reached : rpo[a] = rpo[b] => a = b
         /\ \A b \in Reached \ {Root} : /\ idom[b] \in Reached /\ rpo[idom[b]] < rpo[b]
                                      /\ \A p \in Incoming(b) \cap Reached : Anc(idom[b]) \subseteq Anc(p)
         /\ Anc(Root) = {Root} /\ Reached \subseteq Block /\ Root \in Reached
         /\ \A b \in Block : rpo[b] <= N + 1
<1>0. TypeOK /\ Numbers /\ ClimbsDown /\ Explored /\ Settled
  BY DEF IInv, DInv, Trees
<1>1. /\ Reached \subseteq Block /\ Root \in Reached /\ None \notin Block
      /\ rpo \in [Block -> Nat] /\ idom \in [Block -> Block \cup {None}] /\ Len(postorder) \in Nat
      /\ postorder \in Seq(Block)
  BY <1>0, ReachedClosed, GraphType DEF TypeOK
<1>2. /\ postorder[Len(postorder)] = Root /\ Len(postorder) > 0
      /\ \A i, j \in 1 .. Len(postorder) : postorder[i] = postorder[j] => i = j
      /\ \A i \in 1 .. Len(postorder) : rpo[postorder[i]] = Len(postorder) - i + 2
      /\ \A b \in Block : rpo[b] > 1 => \E i \in 1 .. Len(postorder) : postorder[i] = b
  BY <1>0, <1>1, EmptySeq DEF Numbers, Numbered
<1>3. \A b \in Block : rpo[b] > 1 <=> b \in Reached
  <2>1. ASSUME NEW b \in Reached
        PROVE  rpo[b] > 1
    <3>1. PICK i \in 1 .. Len(postorder) : postorder[i] = b
      BY <1>0 DEF Explored
    <3>2. QED
      BY <1>1, <1>2, <3>1
  <2>2. QED
    BY <1>0, <2>1 DEF Explored, UNDEF
<1>4. ASSUME NEW a \in Reached, NEW b \in Reached, rpo[a] = rpo[b]
      PROVE  a = b
  <2>1. PICK i \in 1 .. Len(postorder) : postorder[i] = a
    BY <1>0 DEF Explored
  <2>2. PICK j \in 1 .. Len(postorder) : postorder[j] = b
    BY <1>0 DEF Explored
  <2>3. Len(postorder) - i + 2 = Len(postorder) - j + 2
    BY <1>2, <1>4, <2>1, <2>2
  <2>4. i = j
    BY <1>1, <2>3
  <2>5. QED
    BY <2>1, <2>2, <2>4
<1>5. ASSUME NEW b \in Reached \ {Root}
      PROVE  /\ idom[b] \in Reached /\ rpo[idom[b]] < rpo[b]
             /\ \A p \in Incoming(b) \cap Reached : Anc(idom[b]) \subseteq Anc(p)
  <2>1. PICK i \in 1 .. Len(postorder) : postorder[i] = b
    BY <1>0 DEF Explored
  <2>2. i # Len(postorder)
    BY <1>2, <2>1
  <2>3. i \in 1 .. Len(postorder) - 1
    BY <1>1, <2>2
  <2>4. idom[b] # None
    BY <1>0, <2>1, <2>3 DEF Numbers, Numbered
  <2>5. idom[b] \in Block /\ rpo[idom[b]] > 1 /\ rpo[idom[b]] < rpo[b]
    BY <1>0, <1>1, <2>4 DEF ClimbsDown
  <2>6. pos = 0
    BY <1>0 DEF Settled
  <2>7. \A p \in ready(b) : Anc(idom[b]) \subseteq Anc(p)
    BY <1>0, <2>1, <2>3, <2>6 DEF Settled
  <2>8. \A p \in Incoming(b) \cap Reached : p \in ready(b)
    BY <1>1, <1>3 DEF ready
  <2>9. QED
    BY <1>3, <2>5, <2>7, <2>8
<1>6. Anc(Root) = {Root}
  <2>1. rpo[Root] = 2
    BY <1>1, <1>2
  <2>2. idom[Root] = None
    BY <1>0, <1>1, <2>1 DEF ClimbsDown
  <2>3. QED
    BY <1>0, <1>1, <2>2, AncUnfold
<1>7. Len(postorder) <= N
  <2>1. N \in Nat /\ Block = 1 .. N
    BY <1>0, GraphType DEF Block
  <2>2. IsFiniteSet(Block) /\ Cardinality(Block) = N
    BY <2>1, FS_Interval
  <2>3. /\ IsFiniteSet(1 .. Len(postorder)) /\ Cardinality(1 .. Len(postorder)) = Len(postorder)
    BY <1>1, <1>2, FS_Interval
  <2>4. postorder \in [1 .. Len(postorder) -> Block]
    BY <1>1
  <2>5. ~(Cardinality(Block) < Cardinality(1 .. Len(postorder)))
    BY <1>2, <2>2, <2>3, <2>4, FS_PigeonHole
  <2>6. QED
    BY <1>1, <2>1, <2>2, <2>3, <2>5
<1>8. \A b \in Block : rpo[b] <= N + 1
  <2> SUFFICES ASSUME NEW b \in Block PROVE rpo[b] <= N + 1
    OBVIOUS
  <2>0. N \in Nat
    BY <1>0, GraphType
  <2>1. CASE rpo[b] > 1
    BY <1>1, <1>2, <1>7, <2>0, <2>1
  <2>2. CASE ~(rpo[b] > 1)
    BY <1>1, <2>0, <2>2
  <2>3. QED
    BY <2>1, <2>2
<1>9. QED
  BY <1>1, <1>3, <1>4, <1>5, <1>6, <1>8

\* In the end the ancestors of a block are what dominates it.
LEMMA AncestorsDominate ==
  ASSUME IInv, DInv, pc = "done", NEW b \in Reached, NEW a \in Block
  PROVE  Dom(a, b) <=> a \in Anc(b)
<1>0. TypeOK /\ Reached \subseteq Block /\ Root \in Reached /\ Anc(Root) = {Root}
  BY AtEnd DEF IInv
<1>1. b \in Block /\ rpo[b] > 1
  BY <1>0, AtEnd
<1>2. Dom(a, b) => a \in Anc(b)
  BY <1>1, DominatorIsAncestor
<1>3. ASSUME a \in Anc(b)
      PROVE  Dom(a, b)
  <2>1. PICK S : S = {x \in Reached : a \notin Anc(x)}
    OBVIOUS
  <2>2. {Root} \ {a} \subseteq S
    BY <1>0, <2>1
  <2>3. ASSUME NEW x \in S, NEW y \in Outgoing(x), y # a
        PROVE  y \in S
    <3>1. x \in Reached /\ a \notin Anc(x) /\ x \in Block /\ y \in Block
      BY <1>0, <2>1, GraphType
    <3>2. y \in Reached /\ x \in Incoming(y)
      BY <1>0, <3>1, ReachedClosed, OutgoingLeads
    <3>3. CASE y = Root
      BY <1>0, <2>1, <2>3, <3>3
    <3>4. CASE y # Root
      <4>1. Anc(idom[y]) \subseteq Anc(x) /\ idom[y] \in Block
        BY <1>0, <3>1, <3>2, <3>4, AtEnd
      <4>2. Anc(y) \subseteq {y} \cup Anc(idom[y])
        BY <1>0, <3>1, AncUnfold
      <4>3. QED
        BY <2>1, <2>3, <3>1, <3>2, <4>1, <4>2
    <3>5. QED
      BY <3>3, <3>4
  <2>4. ReachedWithout({a}) \subseteq S
    <3>1. \A x \in S : Outgoing(x) \ {a} \subseteq S
      BY <2>3
    <3>2. QED
      BY <1>0, <2>2, <3>1, ReachLeast
  <2>5. QED
    BY <1>3, <2>1, <2>4 DEF Dom
<1>4. QED
  BY <1>2, <1>3

\* The way up of Up is the way to the ancestors: from a step on it passes only
\* ancestors of the block it has come to, which lie at least as many numbers
\* below as it takes steps.
LEMMA UpWalk ==
  ASSUME TypeOK, ClimbsDown, NEW b \in Block, NEW j \in 0 .. N, NEW k \in j .. N, Up(b)[k] # None
  PROVE  /\ Up(b)[j] \in Block /\ Up(b)[k] \in Block
         /\ Up(b)[k] \in Anc(Up(b)[j])
         /\ rpo[Up(b)[k]] + (k - j) <= rpo[Up(b)[j]]
<1>1. PICK u : u = Up(b)
  OBVIOUS
<1>2. /\ u \in [0 .. N -> Block \cup {None}] /\ u[0] = b
      /\ \A i \in 1 .. N : u[i] = IF u[i - 1] = None THEN None ELSE idom[u[i - 1]]
  BY <1>1, UpDef
<1>3. /\ idom \in [Block -> Block \cup {None}] /\ rpo \in [Block -> Nat] /\ N \in Nat
  BY GraphType DEF TypeOK
<1> DEFINE Fine(i) == u[i] # None =>
                        /\ u[j] \in Block /\ u[i] \in Block /\ u[i] \in Anc(u[j])
                        /\ rpo[u[i]] + (i - j) <= rpo[u[j]]
<1>4. Fine(j)
  <2>1. u[j] \in Block \cup {None} /\ j - j = 0
    BY <1>2
  <2>2. CASE u[j] # None
    BY <1>3, <2>1, <2>2, AncUp
  <2>3. QED
    BY <2>2
<1>5. ASSUME NEW i \in j + 1 .. N, Fine(i - 1)
      PROVE  Fine(i)
  <2> SUFFICES ASSUME u[i] # None
               PROVE  /\ u[j] \in Block /\ u[i] \in Block /\ u[i] \in Anc(u[j])
                      /\ rpo[u[i]] + (i - j) <= rpo[u[j]]
    OBVIOUS
  <2>1. i \in 1 .. N /\ i \in 0 .. N /\ i - 1 \in 0 .. N /\ i \in Nat
    BY <1>3
  <2>2. u[i - 1] # None /\ u[i] = idom[u[i - 1]] /\ u[i] \in Block
    BY <1>2, <2>1
  <2>3. /\ u[j] \in Block /\ u[i - 1] \in Block /\ u[i - 1] \in Anc(u[j])
        /\ rpo[u[i - 1]] + ((i - 1) - j) <= rpo[u[j]]
    BY <1>5, <2>2
  <2>4. rpo[u[i]] < rpo[u[i - 1]]
    BY <2>2, <2>3 DEF ClimbsDown
  <2>5. u[i] \in Anc(u[j])
    BY <2>2, <2>3, AncUp
  <2>6. PICK x, y, z \in Nat : x = rpo[u[i]] /\ y = rpo[u[i - 1]] /\ z = rpo[u[j]]
    BY <1>3, <2>2, <2>3
  <2>7. x + (i - j) <= z
    <3>1. x < y /\ y + ((i - 1) - j) <= z
      BY <2>3, <2>4, <2>6
    <3>2. QED
      BY <2>1, <2>6, <3>1
  <2>8. QED
    BY <2>2, <2>3, <2>5, <2>6, <2>7
<1>6. Fine(k)
  <2> HIDE DEF Fine
  <2> DEFINE T == {i \in j .. N : ~Fine(i)}
  <2> SUFFICES ASSUME T # {} PROVE FALSE
    OBVIOUS
  <2>1. PICK m \in T : \A i \in T : m <= i
    <3>1. T \in SUBSET Nat
      BY <1>3
    <3> HIDE DEF T
    <3>2. QED
      BY <3>1, LeastNat
  <2>2. m \in j .. N /\ ~Fine(m)
    OBVIOUS
  <2>3. m \in j + 1 .. N /\ m - 1 \in j .. N
    <3>1. m # j
      BY <1>4, <2>2
    <3>2. QED
      BY <1>3, <2>2, <3>1
  <2>4. m - 1 \notin T
    <3> HIDE DEF T
    <3>1. QED
      BY <2>1, <2>3
  <2>5. QED
    BY <1>5, <2>2, <2>3, <2>4
<1>7. QED
  BY <1>1, <1>6

\* Every ancestor is on the way up, and N steps are enough to come to it.
LEMMA UpFinds ==
  ASSUME TypeOK, ClimbsDown, NEW b \in Block, rpo[b] <= N + 1, NEW a \in Anc(b)
  PROVE  \E k \in 0 .. N : Up(b)[k] = a
<1>1. PICK u : u = Up(b)
  OBVIOUS
<1>2. /\ u \in [0 .. N -> Block \cup {None}] /\ u[0] = b
      /\ \A i \in 1 .. N : u[i] = IF u[i - 1] = None THEN None ELSE idom[u[i - 1]]
  BY <1>1, UpDef
<1>3. /\ idom \in [Block -> Block \cup {None}] /\ rpo \in [Block -> Nat] /\ N \in Nat /\ None \notin Block
  BY GraphType DEF TypeOK
<1>4. PICK S : S = {x \in Block : \E k \in 0 .. N : u[k] = x}
  OBVIOUS
<1>5. b \in S /\ S \in SUBSET Block
  BY <1>2, <1>3, <1>4
<1>6. ASSUME NEW x \in S, idom[x] # None
      PROVE  idom[x] \in S
  <2>1. PICK k \in 0 .. N : u[k] = x
    BY <1>4
  <2>2. x \in Block /\ x # None /\ idom[x] \in Block /\ rpo[x] > 1 + 1
    <3>1. x \in Block /\ idom[x] \in Block
      BY <1>3, <1>4, <1>6
    <3>2. 1 < rpo[idom[x]] /\ rpo[idom[x]] < rpo[x]
      BY <1>6, <3>1 DEF ClimbsDown
    <3>3. rpo[x] \in Nat /\ rpo[idom[x]] \in Nat
      BY <1>3, <3>1
    <3>4. QED
      BY <1>3, <3>1, <3>2, <3>3
  <2>3. rpo[x] + k <= rpo[b]
    <3>1. 0 \in 0 .. N /\ k \in 0 .. N /\ k - 0 = k
      BY <1>3
    <3>2. QED
      BY <1>1, <1>2, <2>1, <2>2, <3>1, UpWalk
  <2>4. k + 1 \in 1 .. N /\ (k + 1) - 1 = k
    <3>1. PICK v, w \in Nat : v = rpo[x] /\ w = rpo[b]
      BY <1>3, <2>2
    <3>2. v > 1 + 1 /\ v + k <= w /\ w <= N + 1
      BY <2>2, <2>3, <3>1
    <3>3. QED
      BY <1>3, <3>2
  <2>5. u[k + 1] = idom[x]
    BY <1>2, <2>1, <2>2, <2>4
  <2>6. k + 1 \in 0 .. N
    BY <2>4
  <2>7. QED
    BY <1>4, <2>2, <2>5, <2>6
<1>7. Anc(b) \subseteq S
  BY <1>5, <1>6, AncLeast
<1>8. QED
  BY <1>1, <1>4, <1>7

\* In the end every block has a small number, and unreached ones have no
\* immediate dominator.
LEMMA Unreached ==
  ASSUME IInv, DInv, pc = "done", NEW p \in Block \ Reached
  PROVE  Anc(p) = {p}
<1>1. TypeOK /\ ClimbsDown /\ rpo \in [Block -> Nat] /\ idom \in [Block -> Block \cup {None}]
  BY DEF IInv, Trees, TypeOK
<1>2. ~(rpo[p] > 1)
  BY AtEnd
<1>3. idom[p] = None
  <2> SUFFICES ASSUME idom[p] # None PROVE FALSE
    OBVIOUS
  <2>1. idom[p] \in Block /\ 1 < rpo[idom[p]] /\ rpo[idom[p]] < rpo[p]
    BY <1>1 DEF ClimbsDown
  <2>2. rpo[idom[p]] \in Nat /\ rpo[p] \in Nat
    BY <1>1, <2>1
  <2>3. QED
    BY <1>2, <2>1, <2>2
<1>4. QED
  BY <1>1, <1>3, AncUnfold

\* ImmediateDominators is a consequence of the invariants.
LEMMA TreeIsRight ==
  ASSUME IInv, DInv
  PROVE  ImmediateDominators
<1> SUFFICES ASSUME pc = "done" PROVE ImmediateDominators
  BY DEF ImmediateDominators
<1>1. TypeOK /\ DomsUp /\ rpo \in [Block -> Nat] /\ Reached \subseteq Block /\ None \notin Block
  BY AtEnd, GraphType DEF IInv, DInv, TypeOK
<1>2. ASSUME NEW b \in Reached \ {Root}
      PROVE  /\ StrictDom(idom[b], b)
             /\ \A d \in Reached : StrictDom(d, b) => Dom(d, idom[b])
  <2>1. idom[b] \in Block /\ rpo[idom[b]] < rpo[b] /\ b \in Block
    BY <1>1, AtEnd
  <2>2. idom[b] # b
    BY <1>1, <2>1
  <2>3. idom[b] \in Anc(b)
    BY <2>1, AncUp
  <2>4. Dom(idom[b], b)
    BY <2>1, <2>3, AncestorsDominate
  <2>5. \A d \in Block : StrictDom(d, b) => Dom(d, idom[b])
    BY <1>1, <2>1 DEF DomsUp
  <2>6. QED
    BY <1>1, <2>2, <2>4, <2>5 DEF StrictDom
<1>3. QED
  BY <1>2, AtEnd DEF ImmediateDominators

\* So is DominatesAnswers: the walk meets an ancestor, and before it only blocks
\* with larger numbers.
LEMMA WalkIsRight ==
  ASSUME IInv, DInv
  PROVE  DominatesAnswers
<1> SUFFICES ASSUME pc = "done", NEW a \in Reached, NEW b \in Reached
             PROVE  dominates(b, a) <=> Dom(a, b)
  BY DEF DominatesAnswers
<1>1. /\ TypeOK /\ ClimbsDown /\ rpo \in [Block -> Nat] /\ None \notin Block
      /\ a \in Block /\ b \in Block /\ rpo[b] <= N + 1 /\ N \in Nat
  BY AtEnd, GraphType DEF IInv, Trees, TypeOK
<1>2. Up(b)[0] = b
  BY <1>1, UpDef
<1>3. ASSUME dominates(b, a)
      PROVE  a \in Anc(b)
  <2>1. PICK k \in 0 .. N : Up(b)[k] = a
    BY <1>3 DEF dominates
  <2>2. 0 \in 0 .. N /\ Up(b)[k] # None
    BY <1>1, <2>1
  <2>3. Up(b)[k] \in Anc(Up(b)[0])
    BY <1>1, <2>2, UpWalk
  <2>4. QED
    BY <1>2, <2>1, <2>3
<1>4. ASSUME a \in Anc(b)
      PROVE  dominates(b, a)
  <2>1. PICK k \in 0 .. N : Up(b)[k] = a
    BY <1>1, <1>4, UpFinds
  <2>2. ASSUME NEW j \in 0 .. k - 1
        PROVE  rpo[Up(b)[j]] > rpo[a]
    <3>1. j \in 0 .. N /\ k \in j .. N /\ Up(b)[k] # None
      BY <1>1, <2>1
    <3>2. Up(b)[j] \in Block /\ rpo[a] + (k - j) <= rpo[Up(b)[j]]
      BY <1>1, <2>1, <3>1, UpWalk
    <3>3. PICK x, y \in Nat : x = rpo[a] /\ y = rpo[Up(b)[j]]
      BY <1>1, <3>2
    <3>4. x + (k - j) <= y
      BY <3>2, <3>3
    <3>5. y > x
      BY <2>2, <3>1, <3>4
    <3>6. QED
      BY <3>3, <3>5
  <2>3. QED
    BY <2>1, <2>2 DEF dominates
<1>5. Dom(a, b) <=> a \in Anc(b)
  BY <1>1, AncestorsDominate
<1>6. QED
  BY <1>3, <1>4, <1>5

\* The climb of propagate_dom_frontiers passes the ancestors of its start that
\* are none of its end.
LEMMA ClimbedBetween ==
  ASSUME TypeOK, ClimbsDown, NEW p \in Block, rpo[p] <= N + 1, NEW e \in Block \cup {None},
         e # None => e \in Anc(p), NEW x \in Block
  PROVE  x \in Climbed(p, e) <=> x \in Anc(p) /\ (e # None => x \notin Anc(e))
<1>1. PICK u : u = Up(p)
  OBVIOUS
<1>2. /\ rpo \in [Block -> Nat] /\ N \in Nat /\ None \notin Block /\ u[0] = p
      /\ u \in [0 .. N -> Block \cup {None}]
  BY <1>1, GraphType, UpDef DEF TypeOK
<1>3. \A j \in 0 .. N : \A k \in j .. N : u[k] # None =>
        /\ u[j] \in Block /\ u[k] \in Anc(u[j]) /\ rpo[u[k]] + (k - j) <= rpo[u[j]]
  BY <1>1, UpWalk
<1>4. \A a \in Anc(p) : \E k \in 0 .. N : u[k] = a
  BY <1>1, UpFinds
<1>5. x \in Climbed(p, e) <=> \E k \in 0 .. N : u[k] = x /\ \A i \in 0 .. k : u[i] \notin {e, None}
  BY <1>1 DEF Climbed
<1>6. ASSUME NEW k \in 0 .. N, u[k] = x, \A i \in 0 .. k : u[i] \notin {e, None}
      PROVE  x \in Anc(p) /\ (e # None => x \notin Anc(e))
  <2>1. x \in Anc(p)
    <3>1. 0 \in 0 .. N /\ k \in 0 .. N
      BY <1>2
    <3>2. QED
      BY <1>2, <1>3, <1>6, <3>1
  <2>2. ASSUME e # None, x \in Anc(e)
        PROVE  FALSE
    <3>1. PICK m \in 0 .. N : u[m] = e
      BY <1>4, <2>2
    <3>2. m \notin 0 .. k
      BY <1>6, <3>1
    <3>3. m \in k .. N /\ m - k > 0
      BY <1>2, <3>2
    <3>4. rpo[e] + (m - k) <= rpo[x]
      BY <1>3, <1>6, <2>2, <3>1, <3>3
    <3>5. e \in Block /\ (x = e \/ rpo[x] < rpo[e])
      BY <2>2, AncBelow
    <3>6. PICK v, w \in Nat : v = rpo[e] /\ w = rpo[x]
      BY <1>2, <3>5
    <3>7. v + (m - k) <= w /\ w <= v
      BY <1>2, <3>4, <3>5, <3>6
    <3>8. QED
      BY <3>1, <3>3, <3>6, <3>7
  <2>3. QED
    BY <2>1, <2>2
<1>7. ASSUME x \in Anc(p), e # None => x \notin Anc(e)
      PROVE  \E k \in 0 .. N : u[k] = x /\ \A i \in 0 .. k : u[i] \notin {e, None}
  <2>1. PICK k \in 0 .. N : u[k] = x
    BY <1>4, <1>7
  <2>2. ASSUME NEW i \in 0 .. k
        PROVE  u[i] \notin {e, None}
    <3>1. i \in 0 .. N /\ k \in i .. N /\ u[k] # None
      BY <1>2, <2>1
    <3>2. u[i] \in Block /\ x \in Anc(u[i])
      BY <1>3, <2>1, <3>1
    <3>3. QED
      BY <1>2, <1>7, <3>2
  <2>3. QED
    BY <2>1, <2>2
<1>8. QED
  BY <1>5, <1>6, <1>7

\* A reached block that a single block leads to is dominated by it.
LEMMA OnlyWayIn ==
  ASSUME TypeOK, NEW b \in Reached \ {Root}, NEW p \in Block, Incoming(b) = {p}
  PROVE  p # b /\ Dom(p, b)
<1>1. ReachFacts /\ Reached \subseteq Block /\ Root \in Reached
  BY ReachSmallest, ReachedClosed
<1>2. \A a \in Block : b \in Outgoing(a) => a = p
  BY <1>1, OutgoingLeads
<1>3. \A A \in SUBSET Block :
        /\ ReachedWithout(A) \subseteq Block
        /\ \A a \in ReachedWithout(A) : Outgoing(a) \ A \subseteq ReachedWithout(A)
        /\ Root \notin A => Root \in ReachedWithout(A)
  BY <1>1 DEF ReachFacts
<1>4. ASSUME NEW A \in SUBSET Block, p \notin ReachedWithout(A) \ {b}
      PROVE  b \notin ReachedWithout(A)
  <2>1. PICK S : S = ReachedWithout(A) \ {b}
    OBVIOUS
  <2>2. S \in SUBSET Block /\ Root \in S \cup A /\ \A a \in S : Outgoing(a) \ A \subseteq S
    BY <1>2, <1>3, <1>4, <2>1
  <2>3. ReachedWithout(A) \subseteq S
    BY <1>1, <2>2 DEF ReachFacts
  <2>4. QED
    BY <2>1, <2>3
<1>5. p # b
  <2> SUFFICES ASSUME p = b PROVE FALSE
    OBVIOUS
  <2>1. b \notin ReachedWithout({})
    BY <1>4
  <2>2. QED
    BY <2>1 DEF Reached
<1>6. Dom(p, b)
  <2>1. {p} \in SUBSET Block /\ p \notin ReachedWithout({p})
    BY <1>1 DEF ReachFacts
  <2>2. QED
    BY <1>4, <2>1 DEF Dom
<1>7. QED
  BY <1>5, <1>6

\* compute_dom_frontiers passes over a block that one block alone leads to. For
\* the root that is right only if no block does: it has itself in its frontier.
PlainRoot == Cardinality(Incoming(Root)) # 1

\* A set of blocks with an element and no second one is that element alone.
LEMMA OneOnly ==
  ASSUME NEW S \in SUBSET Block, NEW p \in S, N \in Nat
  PROVE  /\ Cardinality(S) \in Nat /\ (Cardinality(S) = 1 <=> S = {p})
         /\ Cardinality(S) > 1 <=> S # {p}
<1>1. IsFiniteSet(S)
  <2>1. IsFiniteSet(Block)
    BY FS_Interval DEF Block
  <2>2. QED
    BY <2>1, FS_Subset
<1>2. /\ Cardinality(S) \in Nat /\ Cardinality(S) # 0
      /\ Cardinality(S) = 1 => \E x : S = {x}
  BY <1>1, FS_CardinalityType, FS_EmptySet, FS_Singleton
<1>3. S = {p} => Cardinality(S) = 1
  BY FS_Singleton
<1>4. QED
  BY <1>2, <1>3

\* The frontiers are where dominance ends.
LEMMA FrontiersAreRight ==
  ASSUME IInv, DInv, PlainRoot
  PROVE  Frontiers
<1> SUFFICES ASSUME pc = "done", NEW b \in Reached, NEW bb \in Reached
             PROVE  bb \in frontier(b) <=> /\ \E p \in Incoming(bb) \cap Reached : Dom(b, p)
                                          /\ ~StrictDom(b, bb)
  BY DEF Frontiers
<1>1. /\ TypeOK /\ ClimbsDown /\ rpo \in [Block -> Nat] /\ idom \in [Block -> Block \cup {None}]
      /\ None \notin Block /\ b \in Block /\ bb \in Block /\ Root \in Block /\ N \in Nat
      /\ Reached \subseteq Block /\ Incoming(bb) \subseteq Block /\ Anc(Root) = {Root}
  BY AtEnd, GraphType DEF IInv, Trees, TypeOK
<1>2. \A p \in Reached, a \in Block : Dom(a, p) <=> a \in Anc(p)
  BY AncestorsDominate
<1> DEFINE e == idom[bb]
<1>3. ASSUME NEW p \in Incoming(bb) \cap Reached, e # None => e \in Anc(p)
      PROVE  b \in Climbed(p, e) <=> b \in Anc(p) /\ (e # None => b \notin Anc(e))
  BY <1>1, <1>3, ClimbedBetween, AtEnd
<1>4. ASSUME NEW p \in Incoming(bb) \ Reached
      PROVE  b \notin Climbed(p, e)
  <2>1. p \in Block /\ Anc(p) = {p} /\ Up(p) \in [0 .. N -> Block \cup {None}] /\ Up(p)[0] = p
    BY <1>1, Unreached, UpDef
  <2>2. ASSUME NEW k \in 0 .. N, Up(p)[k] = b
        PROVE  FALSE
    <3>1. 0 \in 0 .. N /\ k \in 0 .. N /\ Up(p)[k] # None
      BY <1>1, <2>2
    <3>2. b \in Anc(p)
      BY <1>1, <2>1, <2>2, <3>1, UpWalk
    <3>3. QED
      BY <2>1, <3>2
  <2>3. QED
    BY <2>2 DEF Climbed
<1>5. CASE bb = Root
  <2>1. e = None
    <3> SUFFICES ASSUME e # None PROVE FALSE
      OBVIOUS
    <3>1. e \in Block /\ e \in Anc(Root) /\ rpo[e] < rpo[Root]
      BY <1>1, <1>5, AncUp DEF ClimbsDown
    <3>2. e = Root
      BY <1>1, <3>1
    <3>3. QED
      BY <1>1, <3>1, <3>2
  <2>2. ~StrictDom(b, bb)
    BY <1>1, <1>5, DomRoot DEF StrictDom
  <2>3. \A p \in Incoming(bb) \cap Reached : b \in Climbed(p, e) <=> Dom(b, p)
    BY <1>1, <1>2, <1>3, <2>1
  <2>4. \A p \in Incoming(bb) : JoinOrFork(bb)
    BY <1>1, <1>5, OneOnly DEF PlainRoot, JoinOrFork
  <2>5. QED
    BY <1>1, <1>4, <2>2, <2>3, <2>4 DEF frontier
<1>6. CASE bb # Root
  <2>1. /\ e \in Block /\ e # None /\ e \in Anc(e) /\ rpo[e] < rpo[bb] /\ Anc(bb) = {bb} \cup Anc(e)
        /\ \A p \in Incoming(bb) \cap Reached : Anc(e) \subseteq Anc(p)
    <3>1. /\ e \in Block /\ rpo[e] < rpo[bb]
          /\ \A p \in Incoming(bb) \cap Reached : Anc(e) \subseteq Anc(p)
      BY <1>1, <1>6, AtEnd
    <3>2. QED
      BY <1>1, <3>1, AncUp, AncUnfold
  <2>2. bb \notin Anc(e)
    <3>1. bb \in Anc(e) => (bb = e \/ rpo[bb] < rpo[e])
      BY <1>1, <2>1, AncBelow
    <3>2. rpo[bb] \in Nat /\ rpo[e] \in Nat
      BY <1>1, <2>1
    <3>3. QED
      BY <2>1, <3>1, <3>2
  <2>3. StrictDom(b, bb) <=> b \in Anc(e)
    BY <1>1, <1>2, <2>1, <2>2 DEF StrictDom
  <2>4. \A p \in Incoming(bb) \cap Reached : b \in Climbed(p, e) <=> Dom(b, p) /\ ~StrictDom(b, bb)
    BY <1>1, <1>2, <1>3, <2>1, <2>3
  <2>5. ASSUME NEW p \in Incoming(bb) \cap Reached, Dom(b, p), ~StrictDom(b, bb)
        PROVE  JoinOrFork(bb)
    <3> SUFFICES ASSUME ~JoinOrFork(bb) PROVE FALSE
      OBVIOUS
    <3>1. Incoming(bb) = {p}
      BY <1>1, OneOnly DEF JoinOrFork
    <3>2. p # bb /\ Dom(p, bb)
      BY <1>1, <1>6, <3>1, OnlyWayIn
    <3>3. p \in Anc(e)
      BY <1>1, <1>2, <2>1, <3>2
    <3>4. Anc(p) \subseteq Anc(e)
      BY <1>1, <2>1, <3>3, AncTrans
    <3>5. QED
      BY <1>1, <1>2, <2>3, <2>5, <3>4
  <2>6. QED
    BY <1>1, <1>4, <2>4, <2>5 DEF frontier
<1>7. QED
  BY <1>5, <1>6

-----------------------------------------------------------------------------
\* DominatorTree::compute, forwards and backwards, on every flow graph: when it is
\* done the numbers tell the blocks a path joins with the root from the others, and
\* idom holds, for each of them, the nearest of the blocks that are on all those
\* paths. The backward traversal leaves no depth-first order; none is needed.
THEOREM TheDominatorTree == Spec => []ImmediateDominators
BY TreeInvariant, TreeIsRight, PTL

\* dominates_ climbs by the numbers alone, and answers what dominance means.
THEOREM DominatesCorrect == Spec => []DominatesAnswers
BY TreeInvariant, WalkIsRight, PTL

\* Everything that is read off the result, compute_dom_frontiers and
\* compute_postdom_frontiers with propagate_dom_frontiers included, is as dominance
\* and control dependence are defined: whenever not exactly one block leads to the root.
THEOREM DominanceCorrect == Spec => [](PlainRoot => Dominance)
<1>1. IInv /\ DInv => (PlainRoot => Dominance)
  BY TreeIsRight, WalkIsRight, FrontiersAreRight DEF Dominance
<1>2. QED
  BY <1>1, TreeInvariant, PTL

=============================================================================
