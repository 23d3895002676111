---------------------------- MODULE LayoutProofs ----------------------------
(***************************************************************************)
(* The layout's lists are intact after every sequence of operations, for   *)
(* any number of blocks and instructions.                                  *)
(***************************************************************************)
EXTENDS LayoutRefinement, LinkedListTheorems

\* The inductive invariant: each part needs the others. The walks of
\* clear_block, merge_blocks and split_block visit the right instructions only
\* because the instruction lists are lists, and a fresh block can be linked
\* only because a block outside the layout holds nothing.
IInv == TypeOK /\ BlockList /\ InstLists

Inserted  == {b \in Block : is_block_inserted(b)}
Members(b) == {i \in Inst : inst_block[i] = b}

\* The layout as the abstract specification sees it.
Order   == Listing(Block, next_block, first_block)
Body(b) == Listing(Inst, next_inst, first_inst[b])

\* A step that links b into the gap between the blocks p and n, None at
\* either end of the layout.
BlockGapFilled(b, p, n) ==
  /\ p \in Block \cup {None} /\ n \in Block \cup {None}
  /\ p # None => p \in Inserted /\ next_block[p] = n
  /\ p = None => n = first_block
  /\ n # None => n \in Inserted /\ prev_block[n] = p
  /\ n = None => p = last_block
  /\ \A x \in Block : next_block'[x] = IF x = b THEN n ELSE IF x = p THEN b ELSE next_block[x]
  /\ \A x \in Block : prev_block'[x] = IF x = b THEN p ELSE IF x = n THEN b ELSE prev_block[x]
  /\ first_block' = IF p = None THEN b ELSE first_block
  /\ last_block' = IF n = None THEN b ELSE last_block

\* A step that links i into the gap between p and n of block b.
InstGapFilled(i, b, p, n) ==
  /\ p \in Inst \cup {None} /\ n \in Inst \cup {None}
  /\ p # None => inst_block[p] = b /\ next_inst[p] = n
  /\ p = None => n = first_inst[b]
  /\ n # None => inst_block[n] = b /\ prev_inst[n] = p
  /\ n = None => p = last_inst[b]
  /\ \A x \in Inst : inst_block'[x] = IF x = i THEN b ELSE inst_block[x]
  /\ \A x \in Inst : next_inst'[x] = IF x = i THEN n ELSE IF x = p THEN i ELSE next_inst[x]
  /\ \A x \in Inst : prev_inst'[x] = IF x = i THEN p ELSE IF x = n THEN i ELSE prev_inst[x]
  /\ first_inst'[b] = IF p = None THEN i ELSE first_inst[b]
  /\ last_inst'[b] = IF n = None THEN i ELSE last_inst[b]
  /\ \A c \in Block \ {b} : first_inst'[c] = first_inst[c] /\ last_inst'[c] = last_inst[c]

-----------------------------------------------------------------------------
(* The block list.                                                         *)

\* Linking a block outside the list into a gap keeps the list.
LEMMA FillBlockGap ==
  ASSUME TypeOK, BlockList, NEW b \in Block, ~is_block_inserted(b),
         NEW p, NEW n, BlockGapFilled(b, p, n)
  PROVE  /\ Inserted' = Inserted \cup {b}
         /\ IsList(prev_block', next_block', first_block', last_block', Inserted')
         /\ \A c \in Block : ~is_block_inserted(c)' => next_block'[c] = None
<1> USE LayoutAssumption DEF BlockGapFilled
<1>1. /\ IsList(prev_block, next_block, first_block, last_block, Inserted)
      /\ None \notin Inserted /\ b \notin Inserted /\ b # None
  BY DEF BlockList, Inserted
<1>2. IsList(prev_block', next_block', first_block', last_block', Inserted \cup {b})
  <2>1. GapFilled(prev_block, next_block, prev_block', next_block',
                  first_block, last_block, Inserted, b, p, n)
    BY <1>1 DEF Inserted, GapFilled
  <2>2. QED
    BY <1>1, <2>1, InsertIntoList
<1>3. Inserted' = Inserted \cup {b}
  <2>1. \A c \in Block : is_block_inserted(c)' <=> is_block_inserted(c) \/ c = b
    BY <1>1 DEF is_block_inserted, TypeOK, IsList, Inserted
  <2>2. QED
    BY <2>1 DEF Inserted
<1>4. \A c \in Block : ~is_block_inserted(c)' => next_block'[c] = None
  BY <1>1, <1>3 DEF Inserted, BlockList
<1>5. QED
  BY <1>2, <1>3, <1>4

\* Unlinking any block of the list, the sole one included.
LEMMA UnlinkBlockKeepsList ==
  ASSUME TypeOK, BlockList, NEW b \in Block, is_block_inserted(b), UnlinkBlock(b)
  PROVE  /\ Inserted' = Inserted \ {b}
         /\ IsList(prev_block', next_block', first_block', last_block', Inserted')
         /\ \A c \in Block : ~is_block_inserted(c)' => next_block'[c] = None
<1> USE LayoutAssumption
<1>1. /\ IsList(prev_block, next_block, first_block, last_block, Inserted)
      /\ None \notin Inserted /\ b \in Inserted
  BY DEF BlockList, Inserted
<1> DEFINE last == IF next_block[b] = None THEN prev_block[b] ELSE last_block
           head == IF prev_block[b] = None THEN next_block[b] ELSE first_block
<1>2. IsList(prev_block', next_block', head, last, Inserted \ {b})
  <2>1. TakenOut(prev_block, next_block, prev_block', next_block', Inserted, b)
    BY <1>1 DEF UnlinkBlock, TypeOK, Inserted, TakenOut
  <2>2. QED
    BY <1>1, <2>1, RemoveFromList
<1>3. last # b
  BY <1>1, <1>2 DEF IsList
<1>4. first_block' = head /\ last_block' = last
  BY <1>3 DEF UnlinkBlock
<1>5. Inserted' = Inserted \ {b}
  <2>1. \A c \in Block : is_block_inserted(c)' <=> is_block_inserted(c) /\ c # b
    <3> SUFFICES ASSUME NEW c \in Block
                 PROVE  is_block_inserted(c)' <=> is_block_inserted(c) /\ c # b
      OBVIOUS
    <3>1. head # b
      BY <1>1, <1>2 DEF IsList
    <3>2. CASE c = b
      BY <3>1, <3>2, <1>4 DEF UnlinkBlock, is_block_inserted, TypeOK
    <3>3. CASE c # b /\ c \in Inserted
      <4>1. c \in Inserted \ {b}
        BY <3>3
      <4>2. prev_block'[c] = None <=> c = head
        BY <1>2, <4>1 DEF IsList, Linked
      <4>3. QED
        BY <1>4, <3>3, <4>2 DEF is_block_inserted, Inserted
    <3>4. CASE c # b /\ c \notin Inserted
      <4>1. c # head
        BY <1>2, <3>4 DEF IsList
      <4>2. c # next_block[b]
        BY <1>1, <3>4 DEF IsList, Linked
      <4>3. prev_block'[c] = None
        BY <3>4, <4>2 DEF UnlinkBlock, TypeOK, is_block_inserted, Inserted
      <4>4. QED
        BY <1>4, <3>4, <4>1, <4>3 DEF is_block_inserted, Inserted
    <3>5. QED
      BY <3>2, <3>3, <3>4
  <2>2. QED
    BY <2>1 DEF Inserted
<1>6. \A c \in Block : ~is_block_inserted(c)' => next_block'[c] = None
  <2> SUFFICES ASSUME NEW c \in Block, c \notin Inserted \ {b}
               PROVE  next_block'[c] = None
    BY <1>5 DEF Inserted
  <2>1. CASE c = b
    BY <2>1 DEF UnlinkBlock, TypeOK
  <2>2. CASE c # b
    <3>1. c \notin Inserted /\ next_block[c] = None
      BY <2>2 DEF Inserted, BlockList
    <3>2. c # prev_block[b]
      BY <1>1, <3>1 DEF IsList, Linked
    <3>3. QED
      BY <2>2, <3>1, <3>2 DEF UnlinkBlock, TypeOK
  <2>3. QED
    BY <2>1, <2>2
<1>7. QED
  BY <1>2, <1>4, <1>5, <1>6

\* What is left of BlockList once the links are right: a block that entered
\* the layout was made, a block outside it has no instruction.
LEMMA BlockListFrom ==
  ASSUME IsList(prev_block', next_block', first_block', last_block', Inserted'),
         \A c \in Block : ~is_block_inserted(c)' => next_block'[c] = None,
         \A c \in Inserted' : c \in made',
         \A c \in Block : c \notin Inserted' => first_inst'[c] = None /\ last_inst'[c] = None
  PROVE  BlockList'
BY DEF BlockList, Inserted

-----------------------------------------------------------------------------
(* The instruction lists.                                                  *)

\* A step that touches no link of a block keeps what the block lists.
LEMMA BodyKept ==
  ASSUME InstLists, NEW c \in Block, first_inst'[c] = first_inst[c],
         \A y \in Members(c) : next_inst'[y] = next_inst[y]
  PROVE  Body(c)' = Body(c)
<1> USE LayoutAssumption, KeysAssumption
<1>1. IsList(prev_inst, next_inst, first_inst[c], last_inst[c], Members(c)) /\ Members(c) \in SUBSET Inst
  BY DEF InstLists, Members
<1>2. Listing(Inst, next_inst', first_inst[c]) = Listing(Inst, next_inst, first_inst[c])
  BY <1>1, ListingFrame
<1>3. QED
  BY <1>2 DEF Body

\* Linking an instruction outside the layout into a gap keeps the lists.
LEMMA FillInstGap ==
  ASSUME TypeOK, InstLists, NEW i \in Inst, inst_block[i] = None, NEW b \in Block,
         NEW p, NEW n, InstGapFilled(i, b, p, n)
  PROVE  InstLists'
<1> USE LayoutAssumption DEF InstGapFilled
<1>1. \A c \in Block : IsList(prev_inst, next_inst, first_inst[c], last_inst[c], Members(c))
  BY DEF InstLists, Members
<1>2. \A c \in Block : Members(c)' = IF c = b THEN Members(c) \cup {i} ELSE Members(c)
  BY DEF Members, TypeOK
<1>3. ASSUME NEW c \in Block
      PROVE  IsList(prev_inst', next_inst', first_inst'[c], last_inst'[c], Members(c)')
  <2>1. CASE c = b
    <3>1. None \notin Members(b)
      BY DEF Members
    <3>2. GapFilled(prev_inst, next_inst, prev_inst', next_inst',
                    first_inst[b], last_inst[b], Members(b), i, p, n)
      BY DEF Members, GapFilled
    <3>3. /\ first_inst'[b] = IF p = None THEN i ELSE first_inst[b]
          /\ last_inst'[b] = IF n = None THEN i ELSE last_inst[b]
      BY DEF TypeOK
    <3>4. IsList(prev_inst, next_inst, first_inst[b], last_inst[b], Members(b))
      BY <1>1
    <3>5. IsList(prev_inst', next_inst', first_inst'[b], last_inst'[b], Members(b) \cup {i})
      BY <3>1, <3>2, <3>3, <3>4, InsertIntoList
    <3>6. QED
      BY <1>2, <2>1, <3>5
  <2>2. CASE c # b
    <3>1. \A y \in Members(c) : prev_inst'[y] = prev_inst[y] /\ next_inst'[y] = next_inst[y]
      BY <2>2 DEF Members
    <3>2. first_inst'[c] = first_inst[c] /\ last_inst'[c] = last_inst[c]
      BY <2>2 DEF TypeOK
    <3>3. IsList(prev_inst, next_inst, first_inst[c], last_inst[c], Members(c))
      BY <1>1
    <3>4. IsList(prev_inst', next_inst', first_inst[c], last_inst[c], Members(c))
      BY <3>1, <3>3, ListFrame
    <3>5. QED
      BY <1>2, <2>2, <3>2, <3>4
  <2>3. QED
    BY <2>1, <2>2
<1>4. \A x \in Inst : inst_block'[x] = None => prev_inst'[x] = None /\ next_inst'[x] = None
  BY DEF InstLists, TypeOK
<1>5. QED
  BY <1>3, <1>4 DEF InstLists, Members

\* Taking an instruction out of its block.
LEMMA UnlinkInstKeepsLists ==
  ASSUME TypeOK, InstLists, NEW i \in Inst, inst_block[i] # None, UnlinkInst(i)
  PROVE  /\ InstLists'
         /\ \A c \in Block : c # inst_block[i] => /\ first_inst'[c] = first_inst[c]
                                                  /\ last_inst'[c] = last_inst[c]
<1> USE LayoutAssumption
<1> DEFINE b == inst_block[i]
<1>0. b \in Block /\ i \in Members(b)
  BY DEF TypeOK, Members
<1>1. \A c \in Block : IsList(prev_inst, next_inst, first_inst[c], last_inst[c], Members(c))
  BY DEF InstLists, Members
<1>2. \A c \in Block : Members(c)' = IF c = b THEN Members(c) \ {i} ELSE Members(c)
  BY <1>0 DEF Members, TypeOK, UnlinkInst
<1>3. \A c \in Block : c # b => first_inst'[c] = first_inst[c] /\ last_inst'[c] = last_inst[c]
  BY <1>0 DEF TypeOK, UnlinkInst
<1>4. \A x \in Inst : inst_block[x] # b => x # prev_inst[i] /\ x # next_inst[i]
  <2>1. IsList(prev_inst, next_inst, first_inst[b], last_inst[b], Members(b))
    BY <1>0, <1>1
  <2>2. \A x \in Inst : x = prev_inst[i] \/ x = next_inst[i] => x \in Members(b)
    BY <1>0, <2>1 DEF IsList, Linked
  <2>3. QED
    BY <2>2 DEF Members
<1>5. ASSUME NEW c \in Block
      PROVE  IsList(prev_inst', next_inst', first_inst'[c], last_inst'[c], Members(c)')
  <2>1. CASE c = b
    <3>1. None \notin Members(b) /\ TakenOut(prev_inst, next_inst, prev_inst', next_inst', Members(b), i)
      BY <1>0 DEF Members, UnlinkInst, TakenOut
    <3>2. /\ first_inst'[b] = IF prev_inst[i] = None THEN next_inst[i] ELSE first_inst[b]
          /\ last_inst'[b] = IF next_inst[i] = None THEN prev_inst[i] ELSE last_inst[b]
      BY <1>0 DEF TypeOK, UnlinkInst
    <3>3. IsList(prev_inst, next_inst, first_inst[b], last_inst[b], Members(b))
      BY <1>0, <1>1
    <3>4. IsList(prev_inst', next_inst', first_inst'[b], last_inst'[b], Members(b) \ {i})
      BY <1>0, <3>1, <3>2, <3>3, RemoveFromList
    <3>5. QED
      BY <1>2, <2>1, <3>4
  <2>2. CASE c # b
    <3>1. \A y \in Members(c) : prev_inst'[y] = prev_inst[y] /\ next_inst'[y] = next_inst[y]
      BY <1>0, <1>4, <2>2 DEF Members, UnlinkInst
    <3>2. IsList(prev_inst, next_inst, first_inst[c], last_inst[c], Members(c))
      BY <1>1
    <3>3. IsList(prev_inst', next_inst', first_inst[c], last_inst[c], Members(c))
      BY <3>1, <3>2, ListFrame
    <3>4. QED
      BY <1>2, <1>3, <2>2, <3>3
  <2>3. QED
    BY <2>1, <2>2
<1>6. \A x \in Inst : inst_block'[x] = None => prev_inst'[x] = None /\ next_inst'[x] = None
  BY <1>0, <1>4 DEF InstLists, TypeOK, UnlinkInst
<1>7. QED
  BY <1>3, <1>5, <1>6 DEF InstLists, Members

\* clear_block resets exactly the instructions of b.
LEMMA ResetInstsKeepsLists ==
  ASSUME TypeOK, InstLists, NEW b \in Block, ResetInsts(b)
  PROVE  /\ InstLists'
         /\ first_inst'[b] = None /\ last_inst'[b] = None
         /\ \A c \in Block : c # b => /\ first_inst'[c] = first_inst[c]
                                      /\ last_inst'[c] = last_inst[c]
<1> USE LayoutAssumption
<1> DEFINE gone == Walk(Inst, next_inst, first_inst[b], None)
<1>1. \A c \in Block : IsList(prev_inst, next_inst, first_inst[c], last_inst[c], Members(c))
  BY DEF InstLists, Members
<1>2. gone = Members(b)
  <2>1. Members(b) \in SUBSET Inst /\ None \in {last_inst[b], None} /\ None \notin Inst
    BY DEF Members
  <2>2. IsList(prev_inst, next_inst, first_inst[b], last_inst[b], Members(b))
    BY <1>1
  <2>3. QED
    BY <2>1, <2>2, WalkList
<1>3. /\ inst_block' = [i \in Inst |-> IF i \in Members(b) THEN None ELSE inst_block[i]]
      /\ prev_inst'  = [i \in Inst |-> IF i \in Members(b) THEN None ELSE prev_inst[i]]
      /\ next_inst'  = [i \in Inst |-> IF i \in Members(b) THEN None ELSE next_inst[i]]
      /\ first_inst' = [first_inst EXCEPT ![b] = None]
      /\ last_inst'  = [last_inst EXCEPT ![b] = None]
  BY <1>2 DEF ResetInsts
<1>4. /\ first_inst'[b] = None /\ last_inst'[b] = None
      /\ \A c \in Block : c # b => first_inst'[c] = first_inst[c] /\ last_inst'[c] = last_inst[c]
  BY <1>3 DEF TypeOK
<1>5. \A c \in Block : Members(c)' = IF c = b THEN {} ELSE Members(c)
  BY <1>3 DEF Members, TypeOK
<1>6. ASSUME NEW c \in Block
      PROVE  IsList(prev_inst', next_inst', first_inst'[c], last_inst'[c], Members(c)')
  <2>1. CASE c = b
    BY <1>4, <1>5, <2>1, EmptyList
  <2>2. CASE c # b
    <3>1. \A y \in Members(c) : prev_inst'[y] = prev_inst[y] /\ next_inst'[y] = next_inst[y]
      BY <1>3, <2>2 DEF Members
    <3>2. IsList(prev_inst, next_inst, first_inst[c], last_inst[c], Members(c))
      BY <1>1
    <3>3. IsList(prev_inst', next_inst', first_inst[c], last_inst[c], Members(c))
      BY <3>1, <3>2, ListFrame
    <3>4. QED
      BY <1>4, <1>5, <2>2, <3>3
  <2>3. QED
    BY <2>1, <2>2
<1>7. \A x \in Inst : inst_block'[x] = None => prev_inst'[x] = None /\ next_inst'[x] = None
  BY <1>3 DEF InstLists
<1>8. QED
  BY <1>4, <1>6, <1>7 DEF InstLists, Members

\* The splice of merge_blocks: take the terminator out of pred, hang succ's
\* list behind the rest.
LEMMA SpliceKeepsLists ==
  ASSUME TypeOK, InstLists, NEW pred \in Block, NEW succ \in Block, pred # succ,
         first_inst[pred] # None, first_inst[succ] # None, SpliceInsts(pred, succ)
  PROVE  /\ InstLists'
         /\ first_inst'[succ] = None /\ last_inst'[succ] = None
         /\ \A c \in Block \ {pred, succ} : /\ first_inst'[c] = first_inst[c]
                                             /\ last_inst'[c] = last_inst[c]
                                             /\ Body(c)' = Body(c)
         /\ Body(succ)' = <<>>
         /\ \E rest : /\ RemovedFrom(Body(pred), rest, last_inst[pred], None)
                      /\ Body(pred)' = rest \o Body(succ)
<1> USE LayoutAssumption, KeysAssumption
<1> DEFINE jmp   == last_inst[pred]
           start == first_inst[succ]
           pend  == prev_inst[jmp]
           A     == Members(pred) \ {jmp}
           B     == Members(succ)
           prv1  == [i \in Inst |-> IF i = jmp THEN None ELSE prev_inst[i]]
           nxt1  == [i \in Inst |-> IF i = jmp \/ i = pend THEN None ELSE next_inst[i]]
           first1 == IF pend = None THEN None ELSE first_inst[pred]
<1>1. \A c \in Block : IsList(prev_inst, next_inst, first_inst[c], last_inst[c], Members(c))
  BY DEF InstLists, Members
<1>2. IsList(prev_inst, next_inst, first_inst[pred], jmp, Members(pred))
  BY <1>1
<1>3. IsList(prev_inst, next_inst, start, last_inst[succ], B)
  BY <1>1
<1>4. /\ jmp \in Members(pred) /\ next_inst[jmp] = None
      /\ pend = None <=> first_inst[pred] = jmp
      /\ pend # None => pend \in A
      /\ start \in B
  <2>1. jmp \in Members(pred) /\ next_inst[jmp] = None
    BY <1>2 DEF IsList, Linked
  <2>2. pend = None <=> first_inst[pred] = jmp
    BY <1>2, <2>1 DEF IsList, Linked
  <2>3. pend # None => pend \in Members(pred) /\ next_inst[pend] = jmp
    BY <1>2, <2>1 DEF IsList, Linked
  <2>4. pend # None => pend # jmp
    BY <2>1, <2>3 DEF Members
  <2>5. start \in B
    BY <1>3 DEF IsList
  <2>6. QED
    BY <2>1, <2>2, <2>3, <2>4, <2>5
<1>5. block_insts(succ) = B
  <2>1. B \in SUBSET Inst /\ last_inst[succ] \in {last_inst[succ], None} /\ None \notin Inst
    BY DEF Members
  <2>2. QED
    BY <1>3, <2>1, WalkList DEF block_insts
<1>6. /\ inst_block' = [i \in Inst |-> IF i \in B THEN pred
                                      ELSE IF i = jmp THEN None ELSE inst_block[i]]
      /\ next_inst' = [i \in Inst |-> IF i = pend THEN start
                                     ELSE IF i = jmp THEN None ELSE next_inst[i]]
      /\ prev_inst' = [i \in Inst |-> IF i = start /\ pend # None THEN pend
                                     ELSE IF i = jmp THEN None ELSE prev_inst[i]]
      /\ first_inst' = [first_inst EXCEPT ![pred] = IF pend = None THEN start ELSE @,
                                          ![succ] = None]
      /\ last_inst' = [last_inst EXCEPT ![pred] = last_inst[succ], ![succ] = None]
  <2>1. (IF first_inst[pred] = jmp THEN None ELSE prev_inst[jmp]) = pend
    BY <1>4
  <2>2. QED
    BY <1>5, <2>1 DEF SpliceInsts
<1>7. /\ first_inst'[pred] = IF pend = None THEN start ELSE first_inst[pred]
      /\ last_inst'[pred] = last_inst[succ]
      /\ first_inst'[succ] = None /\ last_inst'[succ] = None
      /\ \A c \in Block \ {pred, succ} : /\ first_inst'[c] = first_inst[c]
                                          /\ last_inst'[c] = last_inst[c]
  BY <1>6 DEF TypeOK
<1>8. /\ Members(pred)' = A \cup B /\ Members(succ)' = {}
      /\ \A c \in Block \ {pred, succ} : Members(c)' = Members(c)
  BY <1>4, <1>6 DEF Members, TypeOK
\* pred without its terminator, and succ, under the links in between.
<1>9. IsList(prv1, nxt1, first1, pend, A)
  <2>1. TakenOut(prev_inst, next_inst, prv1, nxt1, Members(pred), jmp)
    BY <1>4 DEF TakenOut, Members
  <2>2. /\ None \notin Members(pred)
        /\ first1 = IF prev_inst[jmp] = None THEN next_inst[jmp] ELSE first_inst[pred]
        /\ pend = IF next_inst[jmp] = None THEN prev_inst[jmp] ELSE jmp
    BY <1>4 DEF Members
  <2>3. QED
    BY <1>2, <2>1, <2>2, RemoveFromList
<1>10. IsList(prv1, nxt1, start, last_inst[succ], B)
  <2>1. \A y \in B : prv1[y] = prev_inst[y] /\ nxt1[y] = next_inst[y]
    BY <1>4 DEF Members
  <2>2. QED
    BY <1>3, <2>1, ListFrame
<1>11. IsList(prev_inst', next_inst', first_inst'[pred], last_inst'[pred], A \cup B)
  <2>1. CASE pend = None
    <3>1. A = {}
      BY <1>9, <2>1 DEF IsList, Members
    <3>2. \A y \in B : prev_inst'[y] = prev_inst[y] /\ next_inst'[y] = next_inst[y]
      BY <1>4, <1>6, <2>1 DEF Members
    <3>3. IsList(prev_inst', next_inst', start, last_inst[succ], B)
      BY <1>3, <3>2, ListFrame
    <3>4. QED
      BY <1>7, <2>1, <3>1, <3>3
  <2>2. CASE pend # None
    <3>1. /\ A # {} /\ B # {} /\ A \cap B = {} /\ None \notin A /\ None \notin B
      BY <1>4, <2>2 DEF Members
    <3>2. Joined(prv1, nxt1, prev_inst', next_inst', pend, start, A \cup B)
      BY <1>4, <1>6, <2>2 DEF Joined, Members
    <3>3. IsList(prv1, nxt1, first_inst[pred], pend, A)
      BY <1>9, <2>2
    <3>4. IsList(prev_inst', next_inst', first_inst[pred], last_inst[succ], A \cup B)
      BY <1>10, <3>1, <3>2, <3>3, JoinLists
    <3>5. QED
      BY <1>7, <2>2, <3>4
  <2>3. QED
    BY <2>1, <2>2
<1>12. ASSUME NEW c \in Block
       PROVE  IsList(prev_inst', next_inst', first_inst'[c], last_inst'[c], Members(c)')
  <2>1. CASE c = pred
    BY <1>8, <1>11, <2>1
  <2>2. CASE c = succ
    BY <1>7, <1>8, <2>2, EmptyList
  <2>3. CASE c \notin {pred, succ}
    <3>1. \A y \in Members(c) : prev_inst'[y] = prev_inst[y] /\ next_inst'[y] = next_inst[y]
      BY <1>4, <1>6, <2>3 DEF Members
    <3>2. IsList(prev_inst, next_inst, first_inst[c], last_inst[c], Members(c))
      BY <1>1
    <3>3. IsList(prev_inst', next_inst', first_inst[c], last_inst[c], Members(c))
      BY <3>1, <3>2, ListFrame
    <3>4. QED
      BY <1>7, <1>8, <2>3, <3>3
  <2>4. QED
    BY <2>1, <2>2, <2>3
<1>13. \A x \in Inst : inst_block'[x] = None => prev_inst'[x] = None /\ next_inst'[x] = None
  BY <1>4, <1>6 DEF InstLists, Members
\* What the blocks list.
<1>14. ASSUME NEW c \in Block \ {pred, succ}
       PROVE  Body(c)' = Body(c)
  <2>1. \A y \in Members(c) : next_inst'[y] = next_inst[y]
    BY <1>4, <1>6 DEF Members
  <2>2. QED
    BY <1>7, <2>1, BodyKept
<1>15. Body(succ)' = <<>>
  BY <1>7, ListingEmpty DEF Body
<1>16. RemovedFrom(Body(pred), Listing(Inst, nxt1, first1), jmp, None)
  <2>1. TakenOut(prev_inst, next_inst, prv1, nxt1, Members(pred), jmp)
    BY <1>4 DEF TakenOut, Members
  <2>2. Members(pred) \in SUBSET Inst /\ first1 = IF prev_inst[jmp] = None THEN next_inst[jmp] ELSE first_inst[pred]
    BY <1>4 DEF Members
  <2>3. RemovedFrom(Body(pred), Listing(Inst, nxt1, first1), jmp, next_inst[jmp])
    <3> HIDE DEF nxt1, prv1, first1
    <3>1. QED
      BY <1>2, <2>1, <2>2, ListingRemove DEF Body
  <2>4. QED
    BY <1>4, <2>3
<1>17. Body(pred)' = Listing(Inst, nxt1, first1) \o Body(succ)
  <2>0. A \in SUBSET Inst /\ B \in SUBSET Inst
    BY DEF Members
  <2>1. CASE pend = None
    <3>1. \A y \in B : next_inst'[y] = next_inst[y]
      BY <1>4, <1>6, <2>1 DEF Members
    <3>2. Body(pred)' = Body(succ)
      <4>1. Listing(Inst, next_inst', start) = Listing(Inst, next_inst, start)
        BY <1>3, <2>0, <3>1, ListingFrame
      <4>2. QED
        BY <1>7, <2>1, <4>1 DEF Body
    <3>3. Listing(Inst, nxt1, first1) = <<>>
      BY <2>1, ListingEmpty
    <3>4. Body(succ) \in Seq(B)
      BY <1>3, <2>0, ListingReads DEF Body, Reads
    <3>5. <<>> \o Body(succ) = Body(succ)
      BY <3>4, ConcatEmptySeq
    <3>6. QED
      BY <3>2, <3>3, <3>5
  <2>2. CASE pend # None
    <3>1. A # {} /\ B # {} /\ A \cap B = {}
      BY <1>4, <2>2 DEF Members
    <3>2. Joined(prv1, nxt1, prev_inst', next_inst', pend, start, A \cup B)
      BY <1>4, <1>6, <2>2 DEF Joined, Members
    <3>3. Listing(Inst, nxt1, start) = Listing(Inst, next_inst, start)
      <4>1. \A y \in B : nxt1[y] = next_inst[y]
        BY <1>4 DEF Members
      <4>2. QED
        BY <1>3, <2>0, <4>1, ListingFrame
    <3>4. AppendedTo(Listing(Inst, nxt1, first1), Listing(Inst, next_inst', first1), Listing(Inst, nxt1, start))
      <4> HIDE DEF nxt1, prv1, first1, A, B, jmp, start, pend
      <4>1. QED
        BY <1>9, <1>10, <2>0, <3>1, <3>2, ListingJoin
    <3>5. first_inst'[pred] = first1
      BY <1>7, <2>2
    <3>6. QED
      BY <3>3, <3>4, <3>5 DEF Body, AppendedTo
  <2>3. QED
    BY <2>1, <2>2
<1>18. QED
  BY <1>7, <1>12, <1>13, <1>14, <1>15, <1>16, <1>17 DEF InstLists, Members

\* The instruction half of split_block.
LEMMA SplitKeepsInstLists ==
  ASSUME TypeOK, BlockList, InstLists, NEW nb \in Block, NEW before \in Inst,
         split_block(nb, before), NEW old \in Block, inst_block[before] = old
  PROVE  /\ InstLists'
         /\ \A c \in Block \ {nb, old} :
              /\ first_inst'[c] = first_inst[c] /\ last_inst'[c] = last_inst[c]
              /\ Body(c)' = Body(c)
         /\ CutAt(Body(old), Body(old)', Body(nb)', before)
<1> USE LayoutAssumption, KeysAssumption
<1> DEFINE pi == prev_inst[before]
           M  == Members(old)
           W  == Walk(Inst, next_inst, before, None)
<1>1. \A c \in Block : IsList(prev_inst, next_inst, first_inst[c], last_inst[c], Members(c))
  BY DEF InstLists, Members
<1>2. before \in M /\ M \in SUBSET Inst /\ ~is_block_inserted(nb)
  BY DEF TypeOK, Members, split_block
<1>3. Members(nb) = {} /\ nb # old
  <2>1. first_inst[nb] = None
    BY <1>2 DEF BlockList
  <2>2. IsList(prev_inst, next_inst, first_inst[nb], last_inst[nb], Members(nb))
    BY <1>1
  <2>3. Members(nb) = {}
    BY <2>1, <2>2 DEF IsList, Members
  <2>4. QED
    BY <1>2, <2>3
<1>4. /\ inst_block' = [i \in Inst |-> IF i \in W THEN nb ELSE inst_block[i]]
      /\ prev_inst' = [prev_inst EXCEPT ![before] = None]
      /\ next_inst' = [x \in Inst |-> IF x = pi THEN None ELSE next_inst[x]]
      /\ first_inst' = [first_inst EXCEPT ![nb] = before, ![old] = IF pi = None THEN None ELSE @]
      /\ last_inst' = [last_inst EXCEPT ![nb] = last_inst[old], ![old] = pi]
  BY DEF split_block
<1>5. /\ first_inst'[nb] = before /\ last_inst'[nb] = last_inst[old]
      /\ first_inst'[old] = IF pi = None THEN None ELSE first_inst[old]
      /\ last_inst'[old] = pi
      /\ \A c \in Block \ {nb, old} : first_inst'[c] = first_inst[c] /\ last_inst'[c] = last_inst[c]
  BY <1>2, <1>3, <1>4 DEF TypeOK
<1>6. CutBefore(prev_inst, next_inst, prev_inst', next_inst', M, before)
  BY <1>2, <1>4 DEF CutBefore, TypeOK, Members
<1>7. IsList(prev_inst, next_inst, first_inst[old], last_inst[old], M)
  BY <1>1, <1>2
<1>8. /\ W \subseteq M
      /\ IsList(prev_inst', next_inst', first_inst'[old], pi, M \ W)
      /\ IsList(prev_inst', next_inst', before, last_inst[old], W)
  BY <1>2, <1>5, <1>6, <1>7, CutList
<1>9. /\ Members(old)' = M \ W /\ Members(nb)' = W
      /\ \A c \in Block \ {nb, old} : Members(c)' = Members(c)
  BY <1>2, <1>3, <1>4, <1>8 DEF Members
<1>10. ASSUME NEW c \in Block
       PROVE  IsList(prev_inst', next_inst', first_inst'[c], last_inst'[c], Members(c)')
  <2>1. CASE c = old
    BY <1>5, <1>8, <1>9, <2>1
  <2>2. CASE c = nb
    BY <1>5, <1>8, <1>9, <2>2
  <2>3. CASE c \notin {nb, old}
    <3>1. pi # None => pi \in M
      BY <1>2, <1>7 DEF IsList, Linked
    <3>2. \A y \in Members(c) : prev_inst'[y] = prev_inst[y] /\ next_inst'[y] = next_inst[y]
      BY <1>2, <1>4, <2>3, <3>1 DEF Members, TypeOK
    <3>3. IsList(prev_inst, next_inst, first_inst[c], last_inst[c], Members(c))
      BY <1>1
    <3>4. IsList(prev_inst', next_inst', first_inst[c], last_inst[c], Members(c))
      BY <3>2, <3>3, ListFrame
    <3>5. QED
      BY <1>5, <1>9, <2>3, <3>4
  <2>4. QED
    BY <2>1, <2>2, <2>3
<1>11. \A x \in Inst : inst_block'[x] = None => prev_inst'[x] = None /\ next_inst'[x] = None
  BY <1>4 DEF InstLists, TypeOK
\* What the blocks list.
<1>12. CutAt(Body(old), Body(old)', Body(nb)', before)
  BY <1>2, <1>5, <1>6, <1>7, ListingCut DEF Body
<1>13. ASSUME NEW c \in Block \ {nb, old}
       PROVE  Body(c)' = Body(c)
  <2>1. pi # None => pi \in M
    BY <1>2, <1>7 DEF IsList, Linked
  <2>2. \A y \in Members(c) : next_inst'[y] = next_inst[y]
    BY <1>4, <2>1 DEF Members
  <2>3. QED
    BY <1>5, <2>2, BodyKept
<1>14. QED
  BY <1>5, <1>10, <1>11, <1>12, <1>13 DEF InstLists, Members

-----------------------------------------------------------------------------
(* The operations.                                                         *)

\* Instructions only live in blocks of the layout.
LEMMA PlacedInInserted ==
  ASSUME IInv, NEW i \in Inst, inst_block[i] # None
  PROVE  inst_block[i] \in Inserted /\ first_inst[inst_block[i]] # None
<1> USE LayoutAssumption
<1>1. inst_block[i] \in Block
  BY DEF IInv, TypeOK
<1>2. IsList(prev_inst, next_inst, first_inst[inst_block[i]], last_inst[inst_block[i]],
             Members(inst_block[i]))
  BY <1>1 DEF IInv, InstLists, Members
<1>3. first_inst[inst_block[i]] # None
  BY <1>2 DEF IsList, Members
<1>4. QED
  BY <1>1, <1>3 DEF IInv, BlockList, Inserted

\* No operation leaves the types.
LEMMA TypePreserved ==
  ASSUME IInv, [Next]_vars
  PROVE  TypeOK'
<1> USE LayoutAssumption DEF TypeOK
<1>0. TypeOK
  BY DEF IInv
<1>1. CASE clear
  BY <1>0, <1>1 DEF clear
<1>2. ASSUME NEW b \in Block,
             \/ make_block(b) \/ append_block(b) \/ append_new_block(b)
      PROVE  TypeOK'
  BY <1>0, <1>2 DEF make_block, append_block, append_new_block, LinkLast, blockLinks, blockEnds, instLinks
<1>3. ASSUME NEW b \in Block, remove_empty_block(b)
      PROVE  TypeOK'
  BY <1>0, <1>3 DEF remove_empty_block, UnlinkBlock, blockEnds, instLinks
<1>4. ASSUME NEW b \in Block, clear_block(b)
      PROVE  TypeOK'
  BY <1>0, <1>4 DEF clear_block, ResetInsts, blockLinks
<1>5. ASSUME NEW b \in Block, remove_and_clear_block(b)
      PROVE  TypeOK'
  BY <1>0, <1>5 DEF remove_and_clear_block, ResetInsts, UnlinkBlock
<1>6. ASSUME NEW b \in Block, NEW c \in Block, insert_block(b, c) \/ insert_block_after(b, c)
      PROVE  TypeOK'
  BY <1>0, <1>6 DEF insert_block, insert_block_after, blockEnds, instLinks
<1>7. ASSUME NEW i \in Inst, remove_inst(i)
      PROVE  TypeOK'
  BY <1>0, <1>7 DEF remove_inst, UnlinkInst, blockLinks
<1>8. ASSUME NEW i \in Inst, NEW b \in Block, append_inst_to_bb(i, b)
      PROVE  TypeOK'
  BY <1>0, <1>8 DEF append_inst_to_bb, blockLinks
<1>9. ASSUME NEW i \in Inst, NEW j \in Inst, prepend_inst(i, j) \/ append_inst(i, j)
      PROVE  TypeOK'
  BY <1>0, <1>9 DEF prepend_inst, append_inst, blockLinks
<1>10. ASSUME NEW b \in Block, NEW c \in Block, merge_blocks(b, c)
       PROVE  TypeOK'
  <2>1. /\ inst_block' \in [Inst -> Block \cup {None}]
        /\ prev_inst' \in [Inst -> Inst \cup {None}]
        /\ next_inst' \in [Inst -> Inst \cup {None}]
        /\ first_inst' \in [Block -> Inst \cup {None}]
        /\ last_inst' \in [Block -> Inst \cup {None}]
    <3>0. last_inst[b] \in Inst
      BY <1>0, <1>10 DEF IInv, InstLists, IsList, merge_blocks
    <3>1. CASE first_inst[c] # None /\ SpliceInsts(b, c)
      BY <1>0, <3>0, <3>1 DEF SpliceInsts
    <3>2. CASE first_inst[c] = None /\ UnlinkInst(last_inst[b])
      BY <1>0, <3>0, <3>2 DEF UnlinkInst
    <3>3. QED
      BY <1>10, <3>1, <3>2 DEF merge_blocks
  <2>2. QED
    BY <1>0, <1>10, <2>1 DEF merge_blocks, UnlinkBlock
<1>11. ASSUME NEW b \in Block, NEW i \in Inst, split_block(b, i)
       PROVE  TypeOK'
  BY <1>0, <1>11 DEF split_block
<1>12. CASE UNCHANGED vars
  BY <1>0, <1>12 DEF vars, blockLinks, blockEnds, instLinks
<1>13. QED
  BY <1>1, <1>2, <1>3, <1>4, <1>5, <1>6, <1>7, <1>8, <1>9, <1>10, <1>11, <1>12
     DEF Next, BlockOp, InstOp, SplitOrMerge

\* append_block fills the gap at the end of the layout.
LEMMA AppendBlockGap ==
  ASSUME IInv, NEW b \in Block, append_block(b) \/ append_new_block(b)
  PROVE  /\ ~is_block_inserted(b) /\ made' = made \cup {b}
         /\ BlockGapFilled(b, last_block, None)
         /\ UNCHANGED <<blockEnds, instLinks>>
<1> USE LayoutAssumption DEF IInv
<1>1. /\ ~is_block_inserted(b) /\ LinkLast(b) /\ UNCHANGED <<blockEnds, instLinks>>
      /\ made' = made \cup {b}
  BY DEF append_block, append_new_block, BlockList
<1>2. IsList(prev_block, next_block, first_block, last_block, Inserted)
  BY DEF BlockList, Inserted
<1>3. /\ last_block # None => last_block \in Inserted /\ next_block[last_block] = None
      /\ last_block = None => None = first_block
  BY <1>2 DEF IsList, Linked
<1>4. BlockGapFilled(b, last_block, None)
  BY <1>1, <1>3 DEF BlockGapFilled, LinkLast, TypeOK
<1>5. QED
  BY <1>1, <1>4

\* insert_block fills the gap before the block it is given.
LEMMA InsertBlockGap ==
  ASSUME IInv, NEW b \in Block, NEW before \in Block, insert_block(b, before)
  PROVE  /\ b \in made /\ ~is_block_inserted(b)
         /\ BlockGapFilled(b, prev_block[before], before)
         /\ UNCHANGED <<made, blockEnds, instLinks>>
<1> USE LayoutAssumption DEF IInv
<1> DEFINE after == prev_block[before]
<1>1. /\ b \in made /\ ~is_block_inserted(b) /\ before \in Inserted
      /\ UNCHANGED <<made, blockEnds, instLinks>>
      /\ next_block' = [x \in Block |-> IF x = b THEN before
                                       ELSE IF x = after THEN b ELSE next_block[x]]
      /\ prev_block' = [prev_block EXCEPT ![b] = after, ![before] = b]
      /\ first_block' = IF after = None THEN b ELSE first_block
      /\ last_block' = last_block
  BY DEF insert_block, Inserted
<1>2. IsList(prev_block, next_block, first_block, last_block, Inserted)
  BY DEF BlockList, Inserted
<1>3. /\ after \in Block \cup {None} /\ before # None
      /\ after # None => after \in Inserted /\ next_block[after] = before
      /\ after = None => before = first_block
  BY <1>1, <1>2 DEF IsList, Linked, TypeOK
<1>4. b # before
  BY <1>1 DEF Inserted
<1>5. BlockGapFilled(b, after, before)
  BY <1>1, <1>3, <1>4 DEF TypeOK, BlockGapFilled
<1>6. QED
  BY <1>1, <1>5

\* insert_block_after fills the gap after the block it is given.
LEMMA InsertBlockAfterGap ==
  ASSUME IInv, NEW b \in Block, NEW after \in Block, insert_block_after(b, after)
  PROVE  /\ b \in made /\ ~is_block_inserted(b)
         /\ BlockGapFilled(b, after, next_block[after])
         /\ UNCHANGED <<made, blockEnds, instLinks>>
<1> USE LayoutAssumption DEF IInv
<1> DEFINE before == next_block[after]
<1>1. /\ b \in made /\ ~is_block_inserted(b) /\ after \in Inserted
      /\ UNCHANGED <<made, blockEnds, instLinks>>
      /\ next_block' = [next_block EXCEPT ![b] = before, ![after] = b]
      /\ prev_block' = [x \in Block |-> IF x = b THEN after
                                       ELSE IF x = before THEN b ELSE prev_block[x]]
      /\ first_block' = first_block
      /\ last_block' = IF before = None THEN b ELSE last_block
  BY DEF insert_block_after, Inserted
<1>2. IsList(prev_block, next_block, first_block, last_block, Inserted)
  BY DEF BlockList, Inserted
<1>3. /\ before \in Block \cup {None} /\ after # None
      /\ before # None => before \in Inserted /\ prev_block[before] = after
      /\ before = None => after = last_block
      /\ next_block[after] = before
  BY <1>1, <1>2 DEF IsList, Linked, TypeOK
<1>4. b # after
  BY <1>1 DEF Inserted
<1>5. BlockGapFilled(b, after, before)
  BY <1>1, <1>3, <1>4 DEF TypeOK, BlockGapFilled
<1>6. QED
  BY <1>1, <1>5

\* split_block fills the gap after the block it splits.
LEMMA SplitBlockGap ==
  ASSUME IInv, NEW nb \in Block, NEW before \in Inst, split_block(nb, before),
         NEW old, old = inst_block[before]
  PROVE  /\ nb \in made /\ ~is_block_inserted(nb) /\ made' = made
         /\ old \in Block /\ old \in Inserted /\ old # nb
         /\ BlockGapFilled(nb, old, next_block[old])
<1> USE LayoutAssumption DEF IInv
<1> DEFINE following == next_block[old]
<1>1. /\ old # None /\ nb \in made /\ ~is_block_inserted(nb) /\ UNCHANGED made
      /\ next_block' = [next_block EXCEPT ![nb] = following, ![old] = nb]
      /\ prev_block' = [x \in Block |-> IF x = nb THEN old
                                       ELSE IF old # last_block /\ x = following
                                       THEN nb ELSE prev_block[x]]
      /\ last_block' = IF old = last_block THEN nb ELSE last_block
      /\ first_block' = first_block
  BY DEF split_block
<1>2. old \in Block /\ old \in Inserted /\ old # nb
  BY <1>1, PlacedInInserted DEF Inserted
<1>3. IsList(prev_block, next_block, first_block, last_block, Inserted)
  BY DEF BlockList, Inserted
<1>4. /\ following \in Block \cup {None}
      /\ following # None => following \in Inserted /\ prev_block[following] = old
      /\ following = None <=> old = last_block
  BY <1>2, <1>3 DEF IsList, Linked, TypeOK
<1>5. BlockGapFilled(nb, old, following)
  BY <1>1, <1>2, <1>4 DEF TypeOK, BlockGapFilled
<1>6. QED
  BY <1>1, <1>2, <1>5

\* append_inst_to_bb fills the gap at the end of the block.
LEMMA AppendToBlockGap ==
  ASSUME IInv, NEW i \in Inst, NEW b \in Block, append_inst_to_bb(i, b)
  PROVE  /\ inst_block[i] = None /\ b \in Inserted
         /\ InstGapFilled(i, b, last_inst[b], None)
         /\ UNCHANGED <<made, blockLinks>>
<1> USE LayoutAssumption DEF IInv
<1>1. /\ inst_block[i] = None /\ b \in Inserted /\ UNCHANGED <<made, blockLinks>>
      /\ inst_block' = [inst_block EXCEPT ![i] = b]
      /\ prev_inst' = [prev_inst EXCEPT ![i] = last_inst[b]]
      /\ next_inst' = [x \in Inst |-> IF first_inst[b] # None /\ x = last_inst[b]
                                     THEN i ELSE next_inst[x]]
      /\ first_inst' = [first_inst EXCEPT ![b] = IF @ = None THEN i ELSE @]
      /\ last_inst' = [last_inst EXCEPT ![b] = i]
  BY DEF append_inst_to_bb, Inserted
<1>2. IsList(prev_inst, next_inst, first_inst[b], last_inst[b], Members(b))
  BY DEF InstLists, Members
<1>3. /\ last_inst[b] \in Inst \cup {None}
      /\ first_inst[b] = None <=> last_inst[b] = None
      /\ last_inst[b] # None => inst_block[last_inst[b]] = b /\ next_inst[last_inst[b]] = None
      /\ next_inst[i] = None
  BY <1>1, <1>2 DEF IsList, Linked, Members, TypeOK, InstLists
<1>4. InstGapFilled(i, b, last_inst[b], None)
  BY <1>1, <1>3 DEF TypeOK, InstGapFilled
<1>5. QED
  BY <1>1, <1>4

\* prepend_inst fills the gap before the instruction it is given.
LEMMA PrependGap ==
  ASSUME IInv, NEW i \in Inst, NEW before \in Inst, prepend_inst(i, before),
         NEW b, b = inst_block[before]
  PROVE  /\ inst_block[i] = None /\ b \in Block /\ b \in Inserted
         /\ InstGapFilled(i, b, prev_inst[before], before)
         /\ UNCHANGED <<made, blockLinks>>
<1> USE LayoutAssumption DEF IInv
<1> DEFINE after == prev_inst[before]
<1>1. /\ inst_block[i] = None /\ b # None /\ UNCHANGED <<made, blockLinks, last_inst>>
      /\ inst_block' = [inst_block EXCEPT ![i] = b]
      /\ next_inst' = [x \in Inst |-> IF x = i THEN before
                                     ELSE IF x = after THEN i ELSE next_inst[x]]
      /\ prev_inst' = [prev_inst EXCEPT ![i] = after, ![before] = i]
      /\ first_inst' = [first_inst EXCEPT ![b] = IF after = None THEN i ELSE @]
  BY DEF prepend_inst
<1>2. b \in Block /\ b \in Inserted
  BY <1>1, PlacedInInserted DEF Inserted
<1>3. IsList(prev_inst, next_inst, first_inst[b], last_inst[b], Members(b)) /\ before \in Members(b)
  BY <1>2 DEF InstLists, Members
<1>4. /\ after \in Inst \cup {None}
      /\ after # None => inst_block[after] = b /\ next_inst[after] = before
      /\ after = None => before = first_inst[b]
      /\ before # None /\ before # i
  BY <1>1, <1>3 DEF IsList, Linked, Members, TypeOK
<1>5. InstGapFilled(i, b, after, before)
  BY <1>1, <1>2, <1>4 DEF TypeOK, InstGapFilled
<1>6. QED
  BY <1>1, <1>2, <1>5

\* append_inst fills the gap after the instruction it is given.
LEMMA AppendGap ==
  ASSUME IInv, NEW i \in Inst, NEW after \in Inst, append_inst(i, after),
         NEW b, b = inst_block[after]
  PROVE  /\ inst_block[i] = None /\ b \in Block /\ b \in Inserted
         /\ InstGapFilled(i, b, after, next_inst[after])
         /\ UNCHANGED <<made, blockLinks>>
<1> USE LayoutAssumption DEF IInv
<1> DEFINE before == next_inst[after]
<1>1. /\ inst_block[i] = None /\ b # None /\ UNCHANGED <<made, blockLinks, first_inst>>
      /\ inst_block' = [inst_block EXCEPT ![i] = b]
      /\ next_inst' = [next_inst EXCEPT ![i] = before, ![after] = i]
      /\ prev_inst' = [x \in Inst |-> IF x = i THEN after
                                     ELSE IF x = before THEN i ELSE prev_inst[x]]
      /\ last_inst' = [last_inst EXCEPT ![b] = IF before = None THEN i ELSE @]
  BY DEF append_inst
<1>2. b \in Block /\ b \in Inserted
  BY <1>1, PlacedInInserted DEF Inserted
<1>3. IsList(prev_inst, next_inst, first_inst[b], last_inst[b], Members(b)) /\ after \in Members(b)
  BY <1>2 DEF InstLists, Members
<1>4. /\ before \in Inst \cup {None}
      /\ before # None => inst_block[before] = b /\ prev_inst[before] = after
      /\ before = None => after = last_inst[b]
      /\ after # None /\ after # i
  BY <1>1, <1>3 DEF IsList, Linked, Members, TypeOK
<1>5. InstGapFilled(i, b, after, before)
  BY <1>1, <1>2, <1>4 DEF TypeOK, InstGapFilled
<1>6. QED
  BY <1>1, <1>2, <1>5

\* Every operation keeps the lists.
LEMMA ListsPreserved ==
  ASSUME IInv, [Next]_vars
  PROVE  BlockList' /\ InstLists'
<1> USE LayoutAssumption
<1>0. TypeOK /\ BlockList /\ InstLists
  BY DEF IInv
<1>a. IsList(prev_block, next_block, first_block, last_block, Inserted)
  BY <1>0 DEF BlockList, Inserted
<1>b. \A c \in Block : /\ c \in Inserted => c \in made
                       /\ c \notin Inserted => first_inst[c] = None /\ last_inst[c] = None
  BY <1>0 DEF BlockList, Inserted
\* A step that leaves a half of the layout alone keeps that half's lists.
<1>c. UNCHANGED <<blockEnds, instLinks>> => InstLists'
  BY <1>0 DEF InstLists, blockEnds, instLinks
<1>d. UNCHANGED blockLinks =>
        /\ Inserted' = Inserted
        /\ IsList(prev_block', next_block', first_block', last_block', Inserted')
        /\ \A c \in Block : ~is_block_inserted(c)' => next_block'[c] = None
  BY <1>0, <1>a DEF blockLinks, BlockList, Inserted, is_block_inserted
\* A step that fills a gap of the block list with a block that was made.
<1>e. ASSUME NEW b \in Block, NEW p, NEW n, ~is_block_inserted(b), BlockGapFilled(b, p, n),
             b \in made', made \subseteq made', UNCHANGED <<blockEnds, instLinks>>
      PROVE  BlockList'
  <2>1. /\ Inserted' = Inserted \cup {b}
        /\ IsList(prev_block', next_block', first_block', last_block', Inserted')
        /\ \A c \in Block : ~is_block_inserted(c)' => next_block'[c] = None
    BY <1>0, <1>e, FillBlockGap
  <2>2. QED
    BY <1>b, <1>e, <2>1, BlockListFrom DEF blockEnds, Inserted
<1>1. CASE clear
  <2>1. Inserted' = {} /\ \A c \in Block : Members(c)' = {}
    BY <1>1 DEF clear, Inserted, is_block_inserted, Members
  <2>2. BlockList'
    <3>1. IsList(prev_block', next_block', first_block', last_block', Inserted')
      BY <1>1, <2>1, EmptyList DEF clear
    <3>2. QED
      BY <1>1, <2>1, <3>1, BlockListFrom DEF clear
  <2>3. InstLists'
    <3>1. \A c \in Block : IsList(prev_inst', next_inst', first_inst'[c], last_inst'[c], Members(c)')
      BY <1>1, <2>1, EmptyList DEF clear
    <3>2. QED
      BY <1>1, <3>1 DEF clear, InstLists, Members
  <2>4. QED
    BY <2>2, <2>3
<1>2. ASSUME NEW b \in Block, make_block(b)
      PROVE  BlockList' /\ InstLists'
  <2>1. UNCHANGED <<blockLinks, blockEnds, instLinks>>
    BY <1>2 DEF make_block
  <2>2. BlockList'
    BY <1>2, <1>b, <1>d, <2>1, BlockListFrom DEF make_block, blockEnds, Inserted
  <2>3. QED
    BY <1>c, <2>1, <2>2
<1>3. ASSUME NEW b \in Block, append_block(b) \/ append_new_block(b)
      PROVE  BlockList' /\ InstLists'
  <2>1. /\ ~is_block_inserted(b) /\ BlockGapFilled(b, last_block, None)
        /\ UNCHANGED <<blockEnds, instLinks>> /\ made' = made \cup {b}
    BY <1>3, AppendBlockGap
  <2>2. BlockList'
    BY <1>b, <1>e, <2>1
  <2>3. QED
    BY <1>c, <2>1, <2>2
<1>4. ASSUME NEW b \in Block, remove_empty_block(b)
      PROVE  BlockList' /\ InstLists'
  <2>1. is_block_inserted(b) /\ UnlinkBlock(b) /\ UNCHANGED <<made, blockEnds, instLinks>>
    BY <1>4 DEF remove_empty_block
  <2>2. /\ Inserted' = Inserted \ {b}
        /\ IsList(prev_block', next_block', first_block', last_block', Inserted')
        /\ \A c \in Block : ~is_block_inserted(c)' => next_block'[c] = None
    BY <1>0, <2>1, UnlinkBlockKeepsList
  <2>3. first_inst[b] = None /\ last_inst[b] = None
    <3>1. IsList(prev_inst, next_inst, first_inst[b], last_inst[b], Members(b))
      BY <1>0 DEF InstLists, Members
    <3>2. QED
      BY <1>4, <3>1 DEF remove_empty_block, IsList, Members
  <2>4. BlockList'
    BY <1>b, <2>1, <2>2, <2>3, BlockListFrom DEF blockEnds, Inserted
  <2>5. QED
    BY <1>c, <2>1, <2>4
<1>5. ASSUME NEW b \in Block, clear_block(b)
      PROVE  BlockList' /\ InstLists'
  <2>1. ResetInsts(b) /\ UNCHANGED <<made, blockLinks>>
    BY <1>5 DEF clear_block
  <2>2. /\ InstLists'
        /\ first_inst'[b] = None /\ last_inst'[b] = None
        /\ \A c \in Block : c # b => first_inst'[c] = first_inst[c] /\ last_inst'[c] = last_inst[c]
    BY <1>0, <2>1, ResetInstsKeepsLists
  <2>3. BlockList'
    BY <1>b, <1>d, <2>1, <2>2, BlockListFrom DEF Inserted
  <2>4. QED
    BY <2>2, <2>3
<1>6. ASSUME NEW b \in Block, remove_and_clear_block(b)
      PROVE  BlockList' /\ InstLists'
  <2>1. is_block_inserted(b) /\ ResetInsts(b) /\ UnlinkBlock(b) /\ UNCHANGED made
    BY <1>6 DEF remove_and_clear_block
  <2>2. /\ InstLists'
        /\ first_inst'[b] = None /\ last_inst'[b] = None
        /\ \A c \in Block : c # b => first_inst'[c] = first_inst[c] /\ last_inst'[c] = last_inst[c]
    BY <1>0, <2>1, ResetInstsKeepsLists
  <2>3. /\ Inserted' = Inserted \ {b}
        /\ IsList(prev_block', next_block', first_block', last_block', Inserted')
        /\ \A c \in Block : ~is_block_inserted(c)' => next_block'[c] = None
    BY <1>0, <2>1, UnlinkBlockKeepsList
  <2>4. BlockList'
    BY <1>b, <2>1, <2>2, <2>3, BlockListFrom DEF Inserted
  <2>5. QED
    BY <2>2, <2>4
<1>7. ASSUME NEW b \in Block, NEW before \in Block, insert_block(b, before)
      PROVE  BlockList' /\ InstLists'
  <2>1. /\ b \in made /\ ~is_block_inserted(b) /\ BlockGapFilled(b, prev_block[before], before)
        /\ UNCHANGED <<made, blockEnds, instLinks>>
    BY <1>7, InsertBlockGap
  <2>2. BlockList'
    BY <1>e, <2>1
  <2>3. QED
    BY <1>c, <2>1, <2>2
<1>8. ASSUME NEW b \in Block, NEW after \in Block, insert_block_after(b, after)
      PROVE  BlockList' /\ InstLists'
  <2>1. /\ b \in made /\ ~is_block_inserted(b) /\ BlockGapFilled(b, after, next_block[after])
        /\ UNCHANGED <<made, blockEnds, instLinks>>
    BY <1>8, InsertBlockAfterGap
  <2>2. BlockList'
    BY <1>e, <2>1
  <2>3. QED
    BY <1>c, <2>1, <2>2
<1>9. ASSUME NEW i \in Inst, remove_inst(i)
      PROVE  BlockList' /\ InstLists'
  <2>1. inst_block[i] # None /\ UnlinkInst(i) /\ UNCHANGED <<made, blockLinks>>
    BY <1>9 DEF remove_inst
  <2>2. /\ InstLists'
        /\ \A c \in Block : c # inst_block[i] => /\ first_inst'[c] = first_inst[c]
                                                 /\ last_inst'[c] = last_inst[c]
    BY <1>0, <2>1, UnlinkInstKeepsLists
  <2>3. inst_block[i] \in Inserted
    BY <2>1, PlacedInInserted
  <2>4. BlockList'
    BY <1>b, <1>d, <2>1, <2>2, <2>3, BlockListFrom DEF Inserted
  <2>5. QED
    BY <2>2, <2>4
<1>10. ASSUME NEW i \in Inst, NEW b \in Block, append_inst_to_bb(i, b)
       PROVE  BlockList' /\ InstLists'
  <2>1. /\ inst_block[i] = None /\ b \in Block /\ b \in Inserted
        /\ InstGapFilled(i, b, last_inst[b], None)
        /\ UNCHANGED <<made, blockLinks>>
    BY <1>10, AppendToBlockGap
  <2>2. InstLists'
    BY <1>0, <2>1, FillInstGap
  <2>3. \A c \in Block \ {b} : first_inst'[c] = first_inst[c] /\ last_inst'[c] = last_inst[c]
    BY <2>1 DEF InstGapFilled
  <2>4. BlockList'
    BY <1>b, <1>d, <2>1, <2>3, BlockListFrom DEF Inserted
  <2>5. QED
    BY <2>2, <2>4
<1>11. ASSUME NEW i \in Inst, NEW before \in Inst, prepend_inst(i, before)
       PROVE  BlockList' /\ InstLists'
  <2>0. PICK b : b = inst_block[before]
    OBVIOUS
  <2>1. /\ inst_block[i] = None /\ b \in Block /\ b \in Inserted
        /\ InstGapFilled(i, b, prev_inst[before], before)
        /\ UNCHANGED <<made, blockLinks>>
    BY <1>11, <2>0, PrependGap
  <2>2. InstLists'
    BY <1>0, <2>1, FillInstGap
  <2>3. \A c \in Block \ {b} : first_inst'[c] = first_inst[c] /\ last_inst'[c] = last_inst[c]
    BY <2>1 DEF InstGapFilled
  <2>4. BlockList'
    BY <1>b, <1>d, <2>1, <2>3, BlockListFrom DEF Inserted
  <2>5. QED
    BY <2>2, <2>4
<1>12. ASSUME NEW i \in Inst, NEW after \in Inst, append_inst(i, after)
       PROVE  BlockList' /\ InstLists'
  <2>0. PICK b : b = inst_block[after]
    OBVIOUS
  <2>1. /\ inst_block[i] = None /\ b \in Block /\ b \in Inserted
        /\ InstGapFilled(i, b, after, next_inst[after])
        /\ UNCHANGED <<made, blockLinks>>
    BY <1>12, <2>0, AppendGap
  <2>2. InstLists'
    BY <1>0, <2>1, FillInstGap
  <2>3. \A c \in Block \ {b} : first_inst'[c] = first_inst[c] /\ last_inst'[c] = last_inst[c]
    BY <2>1 DEF InstGapFilled
  <2>4. BlockList'
    BY <1>b, <1>d, <2>1, <2>3, BlockListFrom DEF Inserted
  <2>5. QED
    BY <2>2, <2>4
<1>13. ASSUME NEW pred \in Block, NEW succ \in Block, merge_blocks(pred, succ)
       PROVE  BlockList' /\ InstLists'
  <2>1. /\ pred # succ /\ pred \in Inserted /\ is_block_inserted(succ)
        /\ first_inst[pred] # None /\ UnlinkBlock(succ) /\ UNCHANGED made
    BY <1>13 DEF merge_blocks, Inserted
  <2>2. /\ InstLists'
        /\ first_inst'[succ] = None /\ last_inst'[succ] = None
        /\ \A c \in Block \ {pred, succ} : /\ first_inst'[c] = first_inst[c]
                                            /\ last_inst'[c] = last_inst[c]
    <3>1. CASE first_inst[succ] # None /\ SpliceInsts(pred, succ)
      BY <1>0, <2>1, <3>1, SpliceKeepsLists
    <3>2. CASE first_inst[succ] = None /\ UnlinkInst(last_inst[pred])
      <4>1. IsList(prev_inst, next_inst, first_inst[pred], last_inst[pred], Members(pred))
        BY <1>0 DEF InstLists, Members
      <4>2. last_inst[pred] \in Inst /\ inst_block[last_inst[pred]] = pred
        BY <2>1, <4>1 DEF IsList, Members
      <4>3. /\ InstLists'
            /\ \A c \in Block : c # pred => /\ first_inst'[c] = first_inst[c]
                                            /\ last_inst'[c] = last_inst[c]
        BY <1>0, <3>2, <4>2, UnlinkInstKeepsLists
      <4>4. IsList(prev_inst, next_inst, first_inst[succ], last_inst[succ], Members(succ))
        BY <1>0 DEF InstLists, Members
      <4>5. last_inst[succ] = None
        BY <3>2, <4>4 DEF IsList, Members
      <4>6. QED
        BY <2>1, <3>2, <4>3, <4>5
    <3>3. QED
      BY <1>13, <3>1, <3>2 DEF merge_blocks
  <2>3. /\ Inserted' = Inserted \ {succ}
        /\ IsList(prev_block', next_block', first_block', last_block', Inserted')
        /\ \A c \in Block : ~is_block_inserted(c)' => next_block'[c] = None
    BY <1>0, <2>1, UnlinkBlockKeepsList
  <2>4. BlockList'
    BY <1>b, <2>1, <2>2, <2>3, BlockListFrom DEF Inserted
  <2>5. QED
    BY <2>2, <2>4
<1>14. ASSUME NEW nb \in Block, NEW before \in Inst, split_block(nb, before)
       PROVE  BlockList' /\ InstLists'
  <2>1. PICK old : old = inst_block[before]
    OBVIOUS
  <2>2. /\ nb \in made /\ ~is_block_inserted(nb) /\ made' = made
        /\ old \in Block /\ old \in Inserted /\ old # nb
        /\ BlockGapFilled(nb, old, next_block[old])
    BY <1>14, <2>1, SplitBlockGap
  <2>3. /\ Inserted' = Inserted \cup {nb}
        /\ IsList(prev_block', next_block', first_block', last_block', Inserted')
        /\ \A c \in Block : ~is_block_inserted(c)' => next_block'[c] = None
    BY <1>0, <2>2, FillBlockGap
  <2>4. /\ InstLists'
        /\ \A c \in Block \ {nb, old} :
             first_inst'[c] = first_inst[c] /\ last_inst'[c] = last_inst[c]
    BY <1>0, <1>14, <2>1, <2>2, SplitKeepsInstLists
  <2>5. BlockList'
    BY <1>b, <2>2, <2>3, <2>4, BlockListFrom DEF Inserted
  <2>6. QED
    BY <2>4, <2>5
<1>15. CASE UNCHANGED vars
  <2>1. UNCHANGED <<made, blockLinks, blockEnds, instLinks>>
    BY <1>15 DEF vars
  <2>2. BlockList'
    BY <1>b, <1>d, <2>1, BlockListFrom DEF blockEnds, Inserted
  <2>3. QED
    BY <1>c, <2>1, <2>2
<1>16. QED
  BY <1>1, <1>2, <1>3, <1>4, <1>5, <1>6, <1>7, <1>8, <1>9, <1>10, <1>11, <1>12, <1>13, <1>14, <1>15
     DEF Next, BlockOp, InstOp, SplitOrMerge

-----------------------------------------------------------------------------
(* The theorems.                                                           *)

\* Whatever sequence of layout.rs operations runs, every link keeps its type,
\* the inserted blocks form one list and the instructions of each block form
\* one list: the inductive invariant.
THEOREM LayoutInvariant == Spec => []IInv
<1> USE LayoutAssumption
<1>1. Init => IInv
  <2> SUFFICES ASSUME Init PROVE IInv
    OBVIOUS
  <2>1. TypeOK
    BY DEF Init, TypeOK
  <2>2. Inserted = {} /\ \A b \in Block : Members(b) = {}
    BY DEF Init, Inserted, is_block_inserted, Members
  <2>3. IsList(prev_block, next_block, first_block, last_block, Inserted)
    BY <2>2, EmptyList DEF Init
  <2>4. \A b \in Block : IsList(prev_inst, next_inst, first_inst[b], last_inst[b], Members(b))
    BY <2>2, EmptyList DEF Init
  <2>5. BlockList
    BY <2>2, <2>3 DEF Init, BlockList, Inserted
  <2>6. InstLists
    BY <2>4 DEF Init, InstLists, Members
  <2>7. QED
    BY <2>1, <2>5, <2>6 DEF IInv
<1>2. IInv /\ [Next]_vars => IInv'
  BY TypePreserved, ListsPreserved DEF IInv
<1>3. QED
  BY <1>1, <1>2, PTL DEF Spec

\* Every link of the layout is None or a key of the right kind.
THEOREM LayoutTypes == Spec => []TypeOK
<1>1. IInv => TypeOK
  BY DEF IInv
<1>2. QED
  BY <1>1, LayoutInvariant, PTL

\* is_block_inserted tells exactly the blocks that a walk over the layout
\* meets, in either direction.
THEOREM LayoutBlocksReachable == Spec => []BlocksReachable
<1> USE LayoutAssumption
<1>1. IInv => BlocksReachable
  <2> SUFFICES ASSUME IInv PROVE BlocksReachable
    OBVIOUS
  <2>1. IsList(prev_block, next_block, first_block, last_block, Inserted)
    BY DEF IInv, BlockList, Inserted
  <2>2. Inserted \in SUBSET Block /\ None \notin Block
    BY DEF Inserted
  <2>3. blocks = Inserted
    BY <2>1, <2>2, WalkList DEF blocks
  <2>4. IsList(next_block, prev_block, last_block, first_block, Inserted)
    BY <2>1, ReverseList
  <2>5. rev_blocks = Inserted
    BY <2>2, <2>4, WalkList DEF rev_blocks
  <2>6. QED
    BY <2>3, <2>5 DEF BlocksReachable, Inserted
<1>2. QED
  BY <1>1, LayoutInvariant, PTL

\* inst_block tells exactly the instructions that a cursor over the block
\* meets, in either direction.
THEOREM LayoutInstsReachable == Spec => []InstsReachable
<1> USE LayoutAssumption
<1>1. IInv => InstsReachable
  <2> SUFFICES ASSUME IInv, NEW b \in Block
               PROVE  block_insts(b) = Members(b) /\ rev_block_insts(b) = Members(b)
    BY DEF InstsReachable, Members
  <2>1. IsList(prev_inst, next_inst, first_inst[b], last_inst[b], Members(b))
    BY DEF IInv, InstLists, Members
  <2>2. Members(b) \in SUBSET Inst /\ None \notin Inst
    BY DEF Members
  <2>3. block_insts(b) = Members(b)
    BY <2>1, <2>2, WalkList DEF block_insts
  <2>4. IsList(next_inst, prev_inst, last_inst[b], first_inst[b], Members(b))
    BY <2>1, ReverseList
  <2>5. rev_block_insts(b) = Members(b)
    BY <2>2, <2>4, WalkList DEF rev_block_insts
  <2>6. QED
    BY <2>3, <2>5
<1>2. QED
  BY <1>1, LayoutInvariant, PTL

\* Read back to front, the block list and every instruction list are the
\* reverse of what they are front to back: rev_blocks_cursor and next_back
\* return the same elements in the opposite order.
THEOREM LayoutBackwardReading == Spec => []BackwardReading
<1> USE LayoutAssumption, KeysAssumption
<1>1. IInv => BackwardReading
  <2> SUFFICES ASSUME IInv PROVE BackwardReading
    OBVIOUS
  <2>1. Mirrors(Listing(Block, prev_block, last_block), Listing(Block, next_block, first_block))
    <3>1. IsList(prev_block, next_block, first_block, last_block, Inserted)
      BY DEF IInv, BlockList, Inserted
    <3>2. Inserted \in SUBSET Block
      BY DEF Inserted
    <3>3. QED
      BY <3>1, <3>2, ListingBackwards
  <2>2. ASSUME NEW b \in Block
        PROVE  Mirrors(Listing(Inst, prev_inst, last_inst[b]),
                       Listing(Inst, next_inst, first_inst[b]))
    <3>1. IsList(prev_inst, next_inst, first_inst[b], last_inst[b], Members(b))
      BY DEF IInv, InstLists, Members
    <3>2. Members(b) \in SUBSET Inst
      BY DEF Members
    <3>3. QED
      BY <3>1, <3>2, ListingBackwards
  <2>3. QED
    BY <2>1, <2>2 DEF BackwardReading
<1>2. QED
  BY <1>1, LayoutInvariant, PTL

(***************************************************************************)
(* The refinement: what the lists read as moves as AbstractLayout says.    *)
(***************************************************************************)

\* No block's instructions change.
SameBodies == \A c \in Block : Body(c)' = Body(c)

\* The listings hold what the membership tests say.
LEMMA ListingsHold ==
  ASSUME IInv
  PROVE  /\ Order \in Seq(Block) /\ \A b \in Block : is_block_inserted(b) <=> \E k \in 1 .. Len(Order) : Order[k] = b
         /\ \A b \in Block : /\ Body(b) \in Seq(Inst)
                             /\ \A i \in Inst : inst_block[i] = b <=> \E k \in 1 .. Len(Body(b)) : Body(b)[k] = i
<1> USE LayoutAssumption, KeysAssumption
<1>1. IsList(prev_block, next_block, first_block, last_block, Inserted) /\ Inserted \in SUBSET Block
  BY DEF IInv, BlockList, Inserted
<1>2. Reads(Order, next_block, first_block, Inserted)
  BY <1>1, ListingReads DEF Order
<1>3. Order \in Seq(Inserted) /\ \A x \in Inserted : \E k \in 1 .. Len(Order) : Order[k] = x
  BY <1>2 DEF Reads
<1>3a. \A k \in 1 .. Len(Order) : Order[k] \in Inserted
  BY <1>3
<1>3b. Order \in Seq(Block)
  BY <1>1, <1>3, SeqMonotonic
<1>4. ASSUME NEW b \in Block
      PROVE  /\ Body(b) \in Seq(Inst)
             /\ \A i \in Inst : inst_block[i] = b <=> \E k \in 1 .. Len(Body(b)) : Body(b)[k] = i
  <2>1. IsList(prev_inst, next_inst, first_inst[b], last_inst[b], Members(b)) /\ Members(b) \in SUBSET Inst
    BY DEF IInv, InstLists, Members
  <2>2. Reads(Body(b), next_inst, first_inst[b], Members(b))
    BY <2>1, ListingReads DEF Body
  <2>3. Body(b) \in Seq(Members(b)) /\ \A x \in Members(b) : \E k \in 1 .. Len(Body(b)) : Body(b)[k] = x
    BY <2>2 DEF Reads
  <2>4. \A k \in 1 .. Len(Body(b)) : Body(b)[k] \in Members(b)
    BY <2>3
  <2>5. Body(b) \in Seq(Inst)
    BY <2>1, <2>3, SeqMonotonic
  <2>6. QED
    BY <2>3, <2>4, <2>5 DEF Members
<1>5. QED
  BY <1>3, <1>3a, <1>3b, <1>4 DEF Inserted

\* Filling a gap of the block list puts the block right after the block before
\* the gap.
LEMMA BlockPlaced ==
  ASSUME IInv, NEW b \in Block, ~is_block_inserted(b), NEW p, NEW n, BlockGapFilled(b, p, n)
  PROVE  InsertedIn(Order, Order', b, p)
<1> USE LayoutAssumption, KeysAssumption DEF BlockGapFilled
<1>1. IsList(prev_block, next_block, first_block, last_block, Inserted) /\ Inserted \in SUBSET Block
  BY DEF IInv, BlockList, Inserted
<1>2. GapFilled(prev_block, next_block, prev_block', next_block',
                first_block, last_block, Inserted, b, p, n)
  BY DEF Inserted, GapFilled
<1>3. first_block' = IF p = None THEN b ELSE first_block
  OBVIOUS
<1>4. QED
  BY <1>1, <1>2, <1>3, ListingInsert DEF Order

\* Unlinking a block takes its one entry out of the order.
LEMMA BlockDropped ==
  ASSUME IInv, NEW b \in Block, is_block_inserted(b), UnlinkBlock(b)
  PROVE  RemovedFrom(Order, Order', b, next_block[b])
<1> USE LayoutAssumption, KeysAssumption
<1>1. /\ IsList(prev_block, next_block, first_block, last_block, Inserted)
      /\ Inserted \in SUBSET Block /\ b \in Inserted
  BY DEF IInv, BlockList, Inserted
<1>2. TakenOut(prev_block, next_block, prev_block', next_block', Inserted, b)
  BY <1>1 DEF UnlinkBlock, Inserted, TakenOut
<1>3. first_block' = IF prev_block[b] = None THEN next_block[b] ELSE first_block
  BY DEF UnlinkBlock
<1>4. QED
  BY <1>1, <1>2, <1>3, ListingRemove DEF Order

\* Filling a gap of a block's instruction list puts the instruction right after
\* the one before the gap, and no other block's listing changes.
LEMMA InstPlaced ==
  ASSUME IInv, NEW i \in Inst, inst_block[i] = None, NEW b \in Block,
         NEW p, NEW n, InstGapFilled(i, b, p, n)
  PROVE  /\ InsertedIn(Body(b), Body(b)', i, p)
         /\ \A c \in Block \ {b} : Body(c)' = Body(c)
<1> USE LayoutAssumption, KeysAssumption DEF InstGapFilled
<1>1. IsList(prev_inst, next_inst, first_inst[b], last_inst[b], Members(b)) /\ Members(b) \in SUBSET Inst
  BY DEF IInv, InstLists, Members
<1>2. GapFilled(prev_inst, next_inst, prev_inst', next_inst',
                first_inst[b], last_inst[b], Members(b), i, p, n)
  BY DEF Members, GapFilled
<1>3. first_inst'[b] = IF p = None THEN i ELSE first_inst[b]
  OBVIOUS
<1>4. InsertedIn(Body(b), Body(b)', i, p)
  BY <1>1, <1>2, <1>3, ListingInsert DEF Body
<1>5. ASSUME NEW c \in Block \ {b}
      PROVE  Body(c)' = Body(c)
  <2>1. first_inst'[c] = first_inst[c] /\ \A y \in Members(c) : next_inst'[y] = next_inst[y]
    BY DEF Members
  <2>2. QED
    BY <2>1, BodyKept DEF IInv
<1>6. QED
  BY <1>4, <1>5

\* Unlinking an instruction takes its one entry out of its block's listing.
LEMMA InstDropped ==
  ASSUME IInv, NEW i \in Inst, UnlinkInst(i), NEW b \in Block, inst_block[i] = b
  PROVE  /\ RemovedFrom(Body(b), Body(b)', i, next_inst[i])
         /\ \A c \in Block \ {b} : Body(c)' = Body(c)
<1> USE LayoutAssumption, KeysAssumption DEF IInv
<1>1. /\ IsList(prev_inst, next_inst, first_inst[b], last_inst[b], Members(b))
      /\ Members(b) \in SUBSET Inst /\ i \in Members(b)
  BY DEF InstLists, Members
<1>2. TakenOut(prev_inst, next_inst, prev_inst', next_inst', Members(b), i)
  BY <1>1 DEF Members, UnlinkInst, TakenOut
<1>3. first_inst'[b] = IF prev_inst[i] = None THEN next_inst[i] ELSE first_inst[b]
  BY DEF TypeOK, UnlinkInst
<1>4. RemovedFrom(Body(b), Body(b)', i, next_inst[i])
  BY <1>1, <1>2, <1>3, ListingRemove DEF Body
<1>5. ASSUME NEW c \in Block \ {b}
      PROVE  Body(c)' = Body(c)
  <2>1. prev_inst[i] # None => inst_block[prev_inst[i]] = b
    BY <1>1 DEF IsList, Linked, Members
  <2>2. first_inst'[c] = first_inst[c] /\ \A y \in Members(c) : next_inst'[y] = next_inst[y]
    BY <2>1 DEF Members, UnlinkInst, TypeOK
  <2>3. QED
    BY <2>2, BodyKept DEF IInv
<1>6. QED
  BY <1>4, <1>5

\* Clearing a block empties its listing and leaves the others.
LEMMA BodyEmptied ==
  ASSUME IInv, NEW b \in Block, ResetInsts(b)
  PROVE  \A c \in Block : Body(c)' = IF c = b THEN <<>> ELSE Body(c)
<1> USE LayoutAssumption, KeysAssumption DEF IInv
<1>1. first_inst'[b] = None /\ \A c \in Block \ {b} : first_inst'[c] = first_inst[c]
  BY DEF ResetInsts, TypeOK
<1>2. Body(b)' = <<>>
  BY <1>1, ListingEmpty DEF Body
<1>3. Walk(Inst, next_inst, first_inst[b], None) = Members(b)
  <2>1. /\ Members(b) \in SUBSET Inst /\ None \in {last_inst[b], None}
        /\ IsList(prev_inst, next_inst, first_inst[b], last_inst[b], Members(b))
    BY DEF InstLists, Members
  <2>2. QED
    BY <2>1, WalkList
<1>4. ASSUME NEW c \in Block \ {b}
      PROVE  Body(c)' = Body(c)
  <2>1. \A y \in Members(c) : next_inst'[y] = next_inst[y]
    BY <1>3 DEF Members, ResetInsts
  <2>2. QED
    BY <1>1, <2>1, BodyKept
<1>5. QED
  BY <1>2, <1>4

\* An insertion into the block order, with every body kept, is one of the
\* abstract block insertions.
LEMMA PlaceBlockStep ==
  ASSUME IInv, NEW b \in Block, ~is_block_inserted(b), NEW p, InsertedIn(Order, Order', b, p), SameBodies
  PROVE  Abstract!Next
<1>1. PICK k \in 1 .. Len(Order) + 1 : Order' = SubSeq(Order, 1, k - 1) \o <<b>> \o SubSeq(Order, k, Len(Order))
  BY DEF InsertedIn
<1>2. b \notin Abstract!Laid
  <2>1. Order \in Seq(Block) /\ \A j \in 1 .. Len(Order) : Order[j] # b
    BY ListingsHold
  <2>2. QED
    BY <2>1 DEF Abstract!Laid, Abstract!Range, Order
<1>3. Abstract!PlaceBlock(b, k)
  BY <1>1, <1>2 DEF Abstract!PlaceBlock, Abstract!InsertAt, Order, Body, SameBodies
<1>4. QED
  BY <1>1, <1>3 DEF Abstract!Next, Order

\* A removal from the block order that leaves the block empty is DropBlock.
LEMMA DropBlockStep ==
  ASSUME IInv, NEW b \in Block, NEW n, RemovedFrom(Order, Order', b, n),
         \A c \in Block : Body(c)' = IF c = b THEN <<>> ELSE Body(c)
  PROVE  Abstract!Next
<1>1. PICK k \in 1 .. Len(Order) :
        Order[k] = b /\ Order' = SubSeq(Order, 1, k - 1) \o SubSeq(Order, k + 1, Len(Order))
  BY DEF RemovedFrom
<1>2. DOMAIN Order = 1 .. Len(Order)
  BY ListingsHold
<1>3. Abstract!DropBlock(b)
  BY <1>1, <1>2 DEF Abstract!DropBlock, Abstract!RemoveAt, Order, Body
<1>4. QED
  BY <1>3 DEF Abstract!Next

\* Emptying a block in place is EmptyBlock.
LEMMA EmptyBlockStep ==
  ASSUME NEW b \in Block, Order' = Order, \A c \in Block : Body(c)' = IF c = b THEN <<>> ELSE Body(c)
  PROVE  Abstract!Next
<1>1. Abstract!EmptyBlock(b)
  BY DEF Abstract!EmptyBlock, Order, Body
<1>2. QED
  BY <1>1 DEF Abstract!Next

\* An insertion into one body is PlaceInst.
LEMMA PlaceInstStep ==
  ASSUME IInv, NEW i \in Inst, inst_block[i] = None, NEW b \in Block, is_block_inserted(b), Order' = Order,
         NEW p, InsertedIn(Body(b), Body(b)', i, p), \A c \in Block \ {b} : Body(c)' = Body(c)
  PROVE  Abstract!Next
<1> USE LayoutAssumption
<1>1. PICK k \in 1 .. Len(Body(b)) + 1 :
        Body(b)' = SubSeq(Body(b), 1, k - 1) \o <<i>> \o SubSeq(Body(b), k, Len(Body(b)))
  BY DEF InsertedIn
<1>2. i \notin Abstract!Placed
  <2>1. ASSUME NEW c \in Block
        PROVE  Body(c) \in Seq(Inst) /\ \A j \in 1 .. Len(Body(c)) : Body(c)[j] # i
    <3>1. inst_block[i] # c
      OBVIOUS
    <3>2. QED
      BY <3>1, ListingsHold
  <2>2. QED
    BY <2>1 DEF Abstract!Placed, Abstract!Range, Body
<1>3. b \in Abstract!Laid
  <2>1. Order \in Seq(Block) /\ \E j \in 1 .. Len(Order) : Order[j] = b
    BY ListingsHold
  <2>2. QED
    BY <2>1 DEF Abstract!Laid, Abstract!Range, Order
<1>4. Abstract!PlaceInst(i, b, k)
  BY <1>1, <1>2, <1>3 DEF Abstract!PlaceInst, Abstract!InsertAt, Order, Body
<1>5. QED
  BY <1>1, <1>4 DEF Abstract!Next, Body

\* A removal from one body is DropInst.
LEMMA DropInstStep ==
  ASSUME IInv, NEW i \in Inst, NEW b \in Block, Order' = Order,
         NEW n, RemovedFrom(Body(b), Body(b)', i, n), \A c \in Block \ {b} : Body(c)' = Body(c)
  PROVE  Abstract!Next
<1>1. PICK k \in 1 .. Len(Body(b)) :
        Body(b)[k] = i /\ Body(b)' = SubSeq(Body(b), 1, k - 1) \o SubSeq(Body(b), k + 1, Len(Body(b)))
  BY DEF RemovedFrom
<1>2. DOMAIN Body(b) = 1 .. Len(Body(b))
  BY ListingsHold
<1>3. [c \in Block |-> Body(c)'] = [[c \in Block |-> Body(c)] EXCEPT ![b] =
                                    SubSeq(Body(b), 1, k - 1) \o SubSeq(Body(b), k + 1, Len(Body(b)))]
  BY <1>1
<1>4. Abstract!DropInst(i)
  <2>1. k \in DOMAIN Body(b) /\ Body(b)[k] = i
    BY <1>1, <1>2
  <2>2. QED
    BY <1>3, <2>1 DEF Abstract!DropInst, Abstract!RemoveAt, Order, Body
<1>5. QED
  BY <1>4 DEF Abstract!Next

\* Dropping the jump and appending the successor's body is Merge.
LEMMA MergeStep ==
  ASSUME IInv, NEW p \in Block, NEW s \in Block, p # s, is_block_inserted(p),
         NEW n, RemovedFrom(Order, Order', s, n),
         NEW rest, NEW i, RemovedFrom(Body(p), rest, i, None), Body(p)' = rest \o Body(s),
         Body(s)' = <<>>, \A c \in Block \ {p, s} : Body(c)' = Body(c)
  PROVE  Abstract!Next
<1>1. PICK j \in 1 .. Len(Order) :
        Order[j] = s /\ Order' = SubSeq(Order, 1, j - 1) \o SubSeq(Order, j + 1, Len(Order))
  BY DEF RemovedFrom
<1>2. DOMAIN Order = 1 .. Len(Order)
  BY ListingsHold
<1>3. p \in Abstract!Laid
  <2>1. Order \in Seq(Block) /\ \E k \in 1 .. Len(Order) : Order[k] = p
    BY ListingsHold
  <2>2. QED
    BY <2>1 DEF Abstract!Laid, Abstract!Range, Order
<1>4. rest = SubSeq(Body(p), 1, Len(Body(p)) - 1) /\ Body(p) # <<>>
  <2>1. PICK k \in 1 .. Len(Body(p)) : /\ rest = SubSeq(Body(p), 1, k - 1) \o SubSeq(Body(p), k + 1, Len(Body(p)))
                                      /\ k = Len(Body(p))
    BY DEF RemovedFrom
  <2>2. PICK s0 \in Seq(Inst) : s0 = Body(p)
    BY ListingsHold
  <2>3. PICK L \in Nat : L = Len(s0) /\ k = L
    <3>1. Len(s0) \in Nat
      OBVIOUS
    <3>2. k = Len(s0)
      BY <2>1, <2>2
    <3>3. QED
      BY <3>1, <3>2
  <2>4. SubSeq(s0, L + 1, L) = <<>>
    BY <2>3, SubSeqEmpty
  <2>5. SubSeq(s0, 1, L - 1) \in Seq(Inst)
    BY <2>1, <2>2, <2>3
  <2>6. SubSeq(s0, 1, L - 1) \o <<>> = SubSeq(s0, 1, L - 1)
    BY <2>5, ConcatEmptySeq
  <2>7. L # 0
    BY <2>1, <2>2, <2>3
  <2>8. QED
    BY <2>1, <2>2, <2>3, <2>4, <2>6, <2>7
<1>5. Abstract!Merge(p, s)
  BY <1>1, <1>2, <1>3, <1>4 DEF Abstract!Merge, Abstract!RemoveAt, Abstract!Front, Order, Body
<1>6. QED
  BY <1>5 DEF Abstract!Next

\* Cutting a body in two around a new block that follows the old is Split.
LEMMA SplitStep ==
  ASSUME IInv, NEW n \in Block, ~is_block_inserted(n), NEW b \in Block, is_block_inserted(b), b # None,
         InsertedIn(Order, Order', n, b),
         NEW i, CutAt(Body(b), Body(b)', Body(n)', i), \A c \in Block \ {n, b} : Body(c)' = Body(c)
  PROVE  Abstract!Next
<1>1. PICK j \in 1 .. Len(Order) + 1 : /\ Order' = SubSeq(Order, 1, j - 1) \o <<n>> \o SubSeq(Order, j, Len(Order))
                                      /\ j > 1 /\ Order[j - 1] = b
  BY DEF InsertedIn
<1>2. PICK p \in 1 .. Len(Order) : /\ Order[p] = b
                                  /\ Order' = SubSeq(Order, 1, (p + 1) - 1) \o <<n>> \o SubSeq(Order, p + 1, Len(Order))
  <2>1. PICK s0 \in Seq(Block) : s0 = Order
    BY ListingsHold
  <2>2. j - 1 \in 1 .. Len(s0) /\ (j - 1) + 1 = j
    BY <1>1, <2>1
  <2>3. QED
    BY <1>1, <2>1, <2>2
<1>3. DOMAIN Order = 1 .. Len(Order) /\ DOMAIN Body(b) = 1 .. Len(Body(b))
  BY ListingsHold
<1>4. n \notin Abstract!Laid /\ b \in Abstract!Laid
  <2>1. /\ Order \in Seq(Block) /\ \E k \in 1 .. Len(Order) : Order[k] = b
        /\ \A k \in 1 .. Len(Order) : Order[k] # n
    BY ListingsHold
  <2>2. QED
    BY <2>1 DEF Abstract!Laid, Abstract!Range, Order
<1>5. n # b
  OBVIOUS
<1>6. PICK k \in 1 .. Len(Body(b)) : /\ Body(b)' = SubSeq(Body(b), 1, k - 1)
                                    /\ Body(n)' = SubSeq(Body(b), k, Len(Body(b)))
  BY DEF CutAt
<1>7. Abstract!Split(n, b, k)
  BY <1>2, <1>3, <1>4, <1>5, <1>6 DEF Abstract!Split, Abstract!InsertAt, Order, Body
<1>8. QED
  BY <1>3, <1>6, <1>7 DEF Abstract!Next, Body

\* Every step of the layout is a step of the abstract specification or leaves
\* the sequences as they are.
LEMMA StepsAreAbstract ==
  ASSUME IInv, [Next]_vars
  PROVE  Abstract!Next \/ UNCHANGED Abstract!vars
<1> USE LayoutAssumption, KeysAssumption
<1>0. TypeOK /\ BlockList /\ InstLists
  BY DEF IInv
<1>a. UNCHANGED blockLinks => Order' = Order
  BY DEF blockLinks, Order
<1>b. UNCHANGED <<blockEnds, instLinks>> => SameBodies
  BY DEF blockEnds, instLinks, SameBodies, Body
<1>c. Order' = Order /\ SameBodies => UNCHANGED Abstract!vars
  BY DEF Order, Body, SameBodies, Abstract!vars
<1>1. CASE clear
  <2>1. Order' = <<>> /\ \A c \in Block : Body(c)' = <<>>
    BY <1>1, ListingEmpty DEF clear, Order, Body
  <2>2. Abstract!Reset
    BY <2>1 DEF Abstract!Reset, Order, Body
  <2>3. QED
    BY <2>2 DEF Abstract!Next
<1>2. ASSUME NEW b \in Block, make_block(b)
      PROVE  UNCHANGED Abstract!vars
  BY <1>2, <1>a, <1>b, <1>c DEF make_block
<1>3. ASSUME NEW b \in Block, append_block(b) \/ append_new_block(b)
      PROVE  Abstract!Next
  <2>1. /\ ~is_block_inserted(b) /\ BlockGapFilled(b, last_block, None)
        /\ UNCHANGED <<blockEnds, instLinks>>
    BY <1>3, AppendBlockGap
  <2>2. InsertedIn(Order, Order', b, last_block)
    BY <2>1, BlockPlaced
  <2>3. QED
    BY <1>b, <2>1, <2>2, PlaceBlockStep
<1>4. ASSUME NEW b \in Block, remove_empty_block(b)
      PROVE  Abstract!Next
  <2>1. /\ is_block_inserted(b) /\ first_inst[b] = None /\ UnlinkBlock(b)
        /\ UNCHANGED <<blockEnds, instLinks>>
    BY <1>4 DEF remove_empty_block
  <2>2. Body(b) = <<>>
    BY <2>1, ListingEmpty DEF Body
  <2>3. \A c \in Block : Body(c)' = IF c = b THEN <<>> ELSE Body(c)
    BY <1>b, <2>1, <2>2 DEF SameBodies
  <2>4. RemovedFrom(Order, Order', b, next_block[b])
    BY <2>1, BlockDropped
  <2>5. QED
    BY <2>3, <2>4, DropBlockStep
<1>5. ASSUME NEW b \in Block, clear_block(b)
      PROVE  Abstract!Next
  <2>1. ResetInsts(b) /\ Order' = Order
    BY <1>5, <1>a DEF clear_block
  <2>2. \A c \in Block : Body(c)' = IF c = b THEN <<>> ELSE Body(c)
    BY <2>1, BodyEmptied
  <2>3. QED
    BY <2>1, <2>2, EmptyBlockStep
<1>6. ASSUME NEW b \in Block, remove_and_clear_block(b)
      PROVE  Abstract!Next
  <2>1. is_block_inserted(b) /\ ResetInsts(b) /\ UnlinkBlock(b)
    BY <1>6 DEF remove_and_clear_block
  <2>2. \A c \in Block : Body(c)' = IF c = b THEN <<>> ELSE Body(c)
    BY <2>1, BodyEmptied
  <2>3. RemovedFrom(Order, Order', b, next_block[b])
    BY <2>1, BlockDropped
  <2>4. QED
    BY <2>2, <2>3, DropBlockStep
<1>7. ASSUME NEW b \in Block, NEW before \in Block, insert_block(b, before)
      PROVE  Abstract!Next
  <2>1. /\ ~is_block_inserted(b) /\ BlockGapFilled(b, prev_block[before], before)
        /\ UNCHANGED <<blockEnds, instLinks>>
    BY <1>7, InsertBlockGap
  <2>2. InsertedIn(Order, Order', b, prev_block[before])
    BY <2>1, BlockPlaced
  <2>3. QED
    BY <1>b, <2>1, <2>2, PlaceBlockStep
<1>8. ASSUME NEW b \in Block, NEW after \in Block, insert_block_after(b, after)
      PROVE  Abstract!Next
  <2>1. /\ ~is_block_inserted(b) /\ BlockGapFilled(b, after, next_block[after])
        /\ UNCHANGED <<blockEnds, instLinks>>
    BY <1>8, InsertBlockAfterGap
  <2>2. InsertedIn(Order, Order', b, after)
    BY <2>1, BlockPlaced
  <2>3. QED
    BY <1>b, <2>1, <2>2, PlaceBlockStep
<1>9. ASSUME NEW i \in Inst, remove_inst(i)
      PROVE  Abstract!Next
  <2>1. PICK b \in Block : inst_block[i] = b
    BY <1>0, <1>9 DEF remove_inst, TypeOK
  <2>2. UnlinkInst(i) /\ Order' = Order
    BY <1>9, <1>a DEF remove_inst
  <2>3. RemovedFrom(Body(b), Body(b)', i, next_inst[i]) /\ \A c \in Block \ {b} : Body(c)' = Body(c)
    BY <2>1, <2>2, InstDropped
  <2>4. QED
    BY <2>2, <2>3, DropInstStep
\* A step that fills a gap of an instruction list.
<1>d. ASSUME NEW i \in Inst, NEW b \in Block, NEW p, NEW n, inst_block[i] = None, b \in Inserted,
             InstGapFilled(i, b, p, n), UNCHANGED blockLinks
      PROVE  Abstract!Next
  <2>1. InsertedIn(Body(b), Body(b)', i, p) /\ \A c \in Block \ {b} : Body(c)' = Body(c)
    BY <1>d, InstPlaced
  <2>2. QED
    BY <1>a, <1>d, <2>1, PlaceInstStep DEF Inserted
<1>10. ASSUME NEW i \in Inst, NEW b \in Block, append_inst_to_bb(i, b)
       PROVE  Abstract!Next
  BY <1>10, <1>d, AppendToBlockGap
<1>11. ASSUME NEW i \in Inst, NEW before \in Inst, prepend_inst(i, before)
       PROVE  Abstract!Next
  BY <1>11, <1>d, PrependGap
<1>12. ASSUME NEW i \in Inst, NEW after \in Inst, append_inst(i, after)
       PROVE  Abstract!Next
  BY <1>12, <1>d, AppendGap
<1>13. ASSUME NEW pred \in Block, NEW succ \in Block, merge_blocks(pred, succ)
       PROVE  Abstract!Next
  <2>1. /\ pred # succ /\ is_block_inserted(pred) /\ is_block_inserted(succ)
        /\ first_inst[pred] # None /\ UnlinkBlock(succ)
    BY <1>13 DEF merge_blocks
  <2>2. RemovedFrom(Order, Order', succ, next_block[succ])
    BY <2>1, BlockDropped
  <2>3. CASE first_inst[succ] # None /\ SpliceInsts(pred, succ)
    <3>1. /\ \A c \in Block \ {pred, succ} : Body(c)' = Body(c)
          /\ Body(succ)' = <<>>
          /\ \E rest : /\ RemovedFrom(Body(pred), rest, last_inst[pred], None)
                       /\ Body(pred)' = rest \o Body(succ)
      BY <1>0, <2>1, <2>3, SpliceKeepsLists
    <3>2. PICK rest : /\ RemovedFrom(Body(pred), rest, last_inst[pred], None)
                      /\ Body(pred)' = rest \o Body(succ)
      BY <3>1
    <3>3. QED
      BY <2>1, <2>2, <3>1, <3>2, MergeStep
  <2>4. CASE first_inst[succ] = None /\ UnlinkInst(last_inst[pred])
    <3>1. PICK i : i = last_inst[pred]
      OBVIOUS
    <3>2. i \in Inst /\ inst_block[i] = pred /\ next_inst[i] = None
      <4>1. IsList(prev_inst, next_inst, first_inst[pred], last_inst[pred], Members(pred))
        BY <1>0 DEF InstLists, Members
      <4>2. QED
        BY <2>1, <3>1, <4>1 DEF IsList, Linked, Members
    <3>3. /\ RemovedFrom(Body(pred), Body(pred)', i, None)
          /\ \A c \in Block \ {pred} : Body(c)' = Body(c)
      <4>1. UnlinkInst(i)
        BY <2>4, <3>1
      <4>2. QED
        BY <3>2, <4>1, InstDropped
    <3>4. Body(succ) = <<>>
      BY <2>4, ListingEmpty DEF Body
    <3>5. Body(pred)' \in Seq(Inst)
      <4>1. PICK s0 \in Seq(Inst) : s0 = Body(pred)
        BY ListingsHold
      <4>2. PICK k \in 1 .. Len(s0) : Body(pred)' = SubSeq(s0, 1, k - 1) \o SubSeq(s0, k + 1, Len(s0))
        BY <3>3, <4>1 DEF RemovedFrom
      <4>3. SubSeq(s0, 1, k - 1) \in Seq(Inst) /\ SubSeq(s0, k + 1, Len(s0)) \in Seq(Inst)
        OBVIOUS
      <4>4. QED
        BY <4>2, <4>3, ConcatProperties
    <3>6. Body(pred)' \o <<>> = Body(pred)'
      BY <3>5, ConcatEmptySeq
    <3>7. PICK rest : rest = Body(pred)'
      OBVIOUS
    <3>8. RemovedFrom(Body(pred), rest, i, None) /\ Body(pred)' = rest \o Body(succ)
      BY <3>3, <3>4, <3>6, <3>7
    <3>9. Body(succ)' = <<>> /\ \A c \in Block \ {pred, succ} : Body(c)' = Body(c)
      BY <2>1, <3>3, <3>4
    <3>10. QED
      BY <2>1, <2>2, <3>8, <3>9, MergeStep
  <2>5. QED
    BY <1>13, <2>3, <2>4 DEF merge_blocks
<1>14. ASSUME NEW nb \in Block, NEW before \in Inst, split_block(nb, before)
       PROVE  Abstract!Next
  <2>1. PICK old : old = inst_block[before]
    OBVIOUS
  <2>2. /\ ~is_block_inserted(nb) /\ old \in Block /\ old \in Inserted
        /\ BlockGapFilled(nb, old, next_block[old])
    BY <1>14, <2>1, SplitBlockGap
  <2>3. /\ \A c \in Block \ {nb, old} : Body(c)' = Body(c)
        /\ CutAt(Body(old), Body(old)', Body(nb)', before)
    BY <1>0, <1>14, <2>1, <2>2, SplitKeepsInstLists
  <2>4. InsertedIn(Order, Order', nb, old)
    BY <2>2, BlockPlaced
  <2>5. is_block_inserted(old) /\ old # None
    BY <2>2 DEF Inserted
  <2>6. QED
    BY <2>2, <2>3, <2>4, <2>5, SplitStep
<1>15. CASE UNCHANGED vars
  BY <1>15, <1>a, <1>b, <1>c DEF vars
<1>16. QED
  BY <1>1, <1>2, <1>3, <1>4, <1>5, <1>6, <1>7, <1>8, <1>9, <1>10, <1>11, <1>12, <1>13, <1>14, <1>15
     DEF Next, BlockOp, InstOp, SplitOrMerge

\* The layout implements the abstract one: whatever is called on layout.rs,
\* clients that read it front to back see a sequence of blocks of sequences of
\* instructions, and each operation does to them what its documentation says.
THEOREM LayoutRefines == Spec => RefinesAbstractLayout
<1> USE LayoutAssumption, KeysAssumption
<1>1. Init => Abstract!Init
  <2> SUFFICES ASSUME Init PROVE Abstract!Init
    OBVIOUS
  <2>1. Order = <<>> /\ \A c \in Block : Body(c) = <<>>
    BY ListingEmpty DEF Init, Order, Body
  <2>2. QED
    BY <2>1 DEF Abstract!Init, Order, Body
<1>2. IInv /\ [Next]_vars => [Abstract!Next]_(Abstract!vars)
  BY StepsAreAbstract
<1>3. QED
  BY <1>1, <1>2, LayoutInvariant, PTL DEF Spec, RefinesAbstractLayout, Abstract!Spec

=============================================================================
