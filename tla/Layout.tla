------------------------------- MODULE Layout -------------------------------
(***************************************************************************)
(* The layout of a MIR function (openvaf/mir/src/layout.rs): the order of  *)
(* its blocks and the order of the instructions inside each block, kept as *)
(* doubly linked lists threaded through side tables.                       *)
(*                                                                         *)
(* The Rust struct                          The variables below            *)
(*   blocks[b].prev / .next                 prev_block[b], next_block[b]   *)
(*   blocks[b].first_inst / .last_inst      first_inst[b], last_inst[b]    *)
(*   insts[i].block / .prev / .next         inst_block[i], prev_inst[i],   *)
(*                                          next_inst[i]                   *)
(*   first_block, last_block                first_block, last_block        *)
(*   keys handed out by make_block          made                           *)
(*                                                                         *)
(* An operation's debug_assert!s and expect()s are its guard, with one     *)
(* exception: the unwrap() at the end of remove_empty_block, which a call  *)
(* that satisfies every assertion can reach, is modelled by panicked.      *)
(***************************************************************************)
EXTENDS LinkedList

CONSTANTS Block,   \* the block keys
          Inst     \* the instruction keys

ASSUME LayoutAssumption == None \notin Block /\ None \notin Inst

VARIABLES made, prev_block, next_block, first_inst, last_inst,
          inst_block, prev_inst, next_inst, first_block, last_block, panicked

blockLinks == <<prev_block, next_block, first_block, last_block>>
blockEnds  == <<first_inst, last_inst>>
instLinks  == <<inst_block, prev_inst, next_inst>>
vars == <<made, blockLinks, blockEnds, instLinks, panicked>>

-----------------------------------------------------------------------------
(* Walking a list.                                                         *)

\* blocks(), blocks_cursor(): from first_block until None.
blocks == Walk(Block, next_block, first_block, None)

\* rev_blocks_cursor(): from last_block until None.
rev_blocks == Walk(Block, prev_block, last_block, None)

\* block_insts(b), read front to back and back to front.
block_insts(b) == Walk(Inst, next_inst, first_inst[b], last_inst[b])

rev_block_insts(b) == Walk(Inst, prev_inst, last_inst[b], first_inst[b])

is_block_inserted(b) == b = first_block \/ prev_block[b] # None

-----------------------------------------------------------------------------
Init ==
  /\ made = {}
  /\ prev_block = [b \in Block |-> None] /\ next_block = [b \in Block |-> None]
  /\ first_inst = [b \in Block |-> None] /\ last_inst  = [b \in Block |-> None]
  /\ inst_block = [i \in Inst |-> None]
  /\ prev_inst  = [i \in Inst |-> None]  /\ next_inst  = [i \in Inst |-> None]
  /\ first_block = None /\ last_block = None
  /\ panicked = FALSE

\* clear(): both tables emptied, the keys start over.
clear ==
  /\ ~panicked
  /\ made' = {}
  /\ prev_block' = [b \in Block |-> None] /\ next_block' = [b \in Block |-> None]
  /\ first_inst' = [b \in Block |-> None] /\ last_inst'  = [b \in Block |-> None]
  /\ inst_block' = [i \in Inst |-> None]
  /\ prev_inst'  = [i \in Inst |-> None]  /\ next_inst'  = [i \in Inst |-> None]
  /\ first_block' = None /\ last_block' = None
  /\ UNCHANGED panicked

make_block(b) ==
  /\ ~panicked
  /\ b \notin made
  /\ made' = made \cup {b}
  /\ UNCHANGED <<blockLinks, blockEnds, instLinks, panicked>>

\* The links of append_block: b behind the current last block.
LinkLast(b) ==
  /\ prev_block' = [prev_block EXCEPT ![b] = last_block]
  /\ next_block' = [x \in Block |-> IF x = b THEN None
                                    ELSE IF x = last_block THEN b
                                    ELSE next_block[x]]
  /\ first_block' = IF last_block = None THEN b ELSE first_block
  /\ last_block' = b

append_block(b) ==
  /\ ~panicked
  /\ b \in made /\ ~is_block_inserted(b)
  /\ first_inst[b] = None /\ last_inst[b] = None
  /\ LinkLast(b)
  /\ UNCHANGED <<made, blockEnds, instLinks, panicked>>

append_new_block(b) ==
  /\ ~panicked
  /\ b \notin made
  /\ made' = made \cup {b}
  /\ LinkLast(b)
  /\ UNCHANGED <<blockEnds, instLinks, panicked>>

\* Mutant: the new front block is not recorded.
insert_block_KeepsFirst(b, before) ==
  /\ ~panicked
  /\ b \in made /\ ~is_block_inserted(b) /\ is_block_inserted(before)
  /\ LET after == prev_block[before]
     IN  /\ next_block' = [x \in Block |-> IF x = b THEN before
                                           ELSE IF x = after THEN b
                                           ELSE next_block[x]]
         /\ prev_block' = [prev_block EXCEPT ![b] = after, ![before] = b]
  /\ UNCHANGED <<made, first_block, last_block, blockEnds, instLinks, panicked>>

insert_block(b, before) ==
  /\ ~panicked
  /\ b \in made /\ ~is_block_inserted(b) /\ is_block_inserted(before)
  /\ LET after == prev_block[before]
     IN  /\ next_block' = [x \in Block |-> IF x = b THEN before
                                           ELSE IF x = after THEN b
                                           ELSE next_block[x]]
         /\ prev_block' = [prev_block EXCEPT ![b] = after, ![before] = b]
         /\ first_block' = IF after = None THEN b ELSE first_block
  /\ UNCHANGED <<made, last_block, blockEnds, instLinks, panicked>>

\* Mutant: the block that follows keeps its old predecessor.
insert_block_after_NoBackLink(b, after) ==
  /\ ~panicked
  /\ b \in made /\ ~is_block_inserted(b) /\ is_block_inserted(after)
  /\ LET before == next_block[after]
     IN  /\ next_block' = [next_block EXCEPT ![b] = before, ![after] = b]
         /\ prev_block' = [prev_block EXCEPT ![b] = after]
         /\ last_block' = IF before = None THEN b ELSE last_block
  /\ UNCHANGED <<made, first_block, blockEnds, instLinks, panicked>>

insert_block_after(b, after) ==
  /\ ~panicked
  /\ b \in made /\ ~is_block_inserted(b) /\ is_block_inserted(after)
  /\ LET before == next_block[after]
     IN  /\ next_block' = [next_block EXCEPT ![b] = before, ![after] = b]
         /\ prev_block' = [x \in Block |-> IF x = b THEN after
                                           ELSE IF x = before THEN b
                                           ELSE prev_block[x]]
         /\ last_block' = IF before = None THEN b ELSE last_block
  /\ UNCHANGED <<made, first_block, blockEnds, instLinks, panicked>>

\* The links of remove_empty_block. Its last statement unwraps last_block,
\* which is None when the layout's only block has just been unlinked.
UnlinkBlock(b) ==
  LET prev == prev_block[b]
      next == next_block[b]
      last == IF next = None THEN prev ELSE last_block
  IN  /\ prev_block' = [x \in Block |-> IF x = b THEN None
                                        ELSE IF x = next THEN prev
                                        ELSE prev_block[x]]
      /\ next_block' = [x \in Block |-> IF x = b THEN None
                                        ELSE IF x = prev THEN next
                                        ELSE next_block[x]]
      /\ first_block' = IF prev = None THEN next ELSE first_block
      /\ last_block' = IF last = b THEN prev ELSE last
      /\ panicked' = (last = None)

remove_empty_block(b) ==
  /\ ~panicked
  /\ is_block_inserted(b) /\ first_inst[b] = None
  /\ UnlinkBlock(b)
  /\ UNCHANGED <<made, blockEnds, instLinks>>

\* The instruction nodes and block ends that clear_block leaves: every node
\* from the first instruction on is reset.
ResetInsts(b) ==
  LET gone == Walk(Inst, next_inst, first_inst[b], None)
  IN  /\ inst_block' = [i \in Inst |-> IF i \in gone THEN None ELSE inst_block[i]]
      /\ prev_inst'  = [i \in Inst |-> IF i \in gone THEN None ELSE prev_inst[i]]
      /\ next_inst'  = [i \in Inst |-> IF i \in gone THEN None ELSE next_inst[i]]
      /\ first_inst' = [first_inst EXCEPT ![b] = None]
      /\ last_inst'  = [last_inst EXCEPT ![b] = None]

clear_block(b) ==
  /\ ~panicked
  /\ b \in made
  /\ ResetInsts(b)
  /\ UNCHANGED <<made, blockLinks, panicked>>

remove_and_clear_block(b) ==
  /\ ~panicked
  /\ is_block_inserted(b)
  /\ ResetInsts(b)
  /\ UnlinkBlock(b)
  /\ UNCHANGED made

-----------------------------------------------------------------------------
(* Instructions.                                                           *)

append_inst_to_bb(i, b) ==
  /\ ~panicked
  /\ inst_block[i] = None /\ is_block_inserted(b)
  /\ inst_block' = [inst_block EXCEPT ![i] = b]
  /\ prev_inst' = [prev_inst EXCEPT ![i] = last_inst[b]]
  /\ next_inst' = [x \in Inst |-> IF first_inst[b] # None /\ x = last_inst[b]
                                  THEN i ELSE next_inst[x]]
  /\ first_inst' = [first_inst EXCEPT ![b] = IF @ = None THEN i ELSE @]
  /\ last_inst' = [last_inst EXCEPT ![b] = i]
  /\ UNCHANGED <<made, blockLinks, panicked>>

prepend_inst(i, before) ==
  /\ ~panicked
  /\ inst_block[i] = None /\ inst_block[before] # None
  /\ LET block == inst_block[before]
         after == prev_inst[before]
     IN  /\ inst_block' = [inst_block EXCEPT ![i] = block]
         /\ next_inst' = [x \in Inst |-> IF x = i THEN before
                                         ELSE IF x = after THEN i
                                         ELSE next_inst[x]]
         /\ prev_inst' = [prev_inst EXCEPT ![i] = after, ![before] = i]
         /\ first_inst' = [first_inst EXCEPT ![block] = IF after = None THEN i ELSE @]
  /\ UNCHANGED <<made, blockLinks, last_inst, panicked>>

append_inst(i, after) ==
  /\ ~panicked
  /\ inst_block[i] = None /\ inst_block[after] # None
  /\ LET block  == inst_block[after]
         before == next_inst[after]
     IN  /\ inst_block' = [inst_block EXCEPT ![i] = block]
         /\ next_inst' = [next_inst EXCEPT ![i] = before, ![after] = i]
         /\ prev_inst' = [x \in Inst |-> IF x = i THEN after
                                         ELSE IF x = before THEN i
                                         ELSE prev_inst[x]]
         /\ last_inst' = [last_inst EXCEPT ![block] = IF before = None THEN i ELSE @]
  /\ UNCHANGED <<made, blockLinks, first_inst, panicked>>

\* The node resets and link repairs of remove_inst.
UnlinkInst(i) ==
  LET block == inst_block[i]
      prev  == prev_inst[i]
      next  == next_inst[i]
  IN  /\ inst_block' = [inst_block EXCEPT ![i] = None]
      /\ prev_inst' = [x \in Inst |-> IF x = i THEN None
                                      ELSE IF x = next THEN prev
                                      ELSE prev_inst[x]]
      /\ next_inst' = [x \in Inst |-> IF x = i THEN None
                                      ELSE IF x = prev THEN next
                                      ELSE next_inst[x]]
      /\ first_inst' = [first_inst EXCEPT ![block] = IF prev = None THEN next ELSE @]
      /\ last_inst' = [last_inst EXCEPT ![block] = IF next = None THEN prev ELSE @]

remove_inst(i) ==
  /\ ~panicked
  /\ inst_block[i] # None
  /\ UnlinkInst(i)
  /\ UNCHANGED <<made, blockLinks, panicked>>

\* Mutant: only the first instruction of succ learns its new block.
SpliceInsts_FirstOnly(pred, succ) ==
  LET jmp_branch == last_inst[pred]
      succ_start == first_inst[succ]
      pred_end   == IF first_inst[pred] = jmp_branch THEN None ELSE prev_inst[jmp_branch]
  IN  /\ inst_block' = [inst_block EXCEPT ![succ_start] = pred, ![jmp_branch] = None]
      /\ next_inst' = [i \in Inst |-> IF i = pred_end THEN succ_start
                                      ELSE IF i = jmp_branch THEN None
                                      ELSE next_inst[i]]
      /\ prev_inst' = [i \in Inst |-> IF i = succ_start /\ pred_end # None THEN pred_end
                                      ELSE IF i = jmp_branch THEN None
                                      ELSE prev_inst[i]]
      /\ first_inst' = [first_inst EXCEPT ![pred] = IF pred_end = None THEN succ_start ELSE @,
                                          ![succ] = None]
      /\ last_inst' = [last_inst EXCEPT ![pred] = last_inst[succ], ![succ] = None]

\* Mutant: the terminator of pred stays.
SpliceInsts_KeepsJump(pred, succ) ==
  LET pred_end == last_inst[pred]
      moved    == block_insts(succ)
  IN  /\ inst_block' = [i \in Inst |-> IF i \in moved THEN pred ELSE inst_block[i]]
      /\ next_inst' = [next_inst EXCEPT ![pred_end] = first_inst[succ]]
      /\ prev_inst' = [prev_inst EXCEPT ![first_inst[succ]] = pred_end]
      /\ first_inst' = [first_inst EXCEPT ![succ] = None]
      /\ last_inst' = [last_inst EXCEPT ![pred] = last_inst[succ], ![succ] = None]

\* merge_blocks for a successor with instructions: pred's terminator is
\* dropped and succ's whole list is spliced behind what is left of pred.
SpliceInsts(pred, succ) ==
  LET jmp_branch == last_inst[pred]
      succ_start == first_inst[succ]
      pred_end   == IF first_inst[pred] = jmp_branch THEN None ELSE prev_inst[jmp_branch]
      moved      == block_insts(succ)
  IN  /\ inst_block' = [i \in Inst |-> IF i \in moved THEN pred
                                       ELSE IF i = jmp_branch THEN None
                                       ELSE inst_block[i]]
      /\ next_inst' = [i \in Inst |-> IF i = pred_end THEN succ_start
                                      ELSE IF i = jmp_branch THEN None
                                      ELSE next_inst[i]]
      /\ prev_inst' = [i \in Inst |-> IF i = succ_start /\ pred_end # None THEN pred_end
                                      ELSE IF i = jmp_branch THEN None
                                      ELSE prev_inst[i]]
      /\ first_inst' = [first_inst EXCEPT ![pred] = IF pred_end = None THEN succ_start ELSE @,
                                          ![succ] = None]
      /\ last_inst' = [last_inst EXCEPT ![pred] = last_inst[succ], ![succ] = None]

\* merge_blocks(pred, succ). Callers pass a block that ends in a jump to a
\* different block.
merge_blocks(pred, succ) ==
  /\ ~panicked
  /\ pred # succ /\ is_block_inserted(pred) /\ is_block_inserted(succ)
  /\ first_inst[pred] # None
  /\ \/ first_inst[succ] # None /\ SpliceInsts(pred, succ)
     \/ first_inst[succ] = None /\ UnlinkInst(last_inst[pred])
  /\ UnlinkBlock(succ)
  /\ UNCHANGED made

split_block(new_block, before) ==
  /\ ~panicked
  /\ inst_block[before] # None
  /\ new_block \in made /\ ~is_block_inserted(new_block)
  /\ LET old_block == inst_block[before]
         following == next_block[old_block]
         before_it == prev_inst[before]
         moved     == Walk(Inst, next_inst, before, None)
     IN  /\ next_block' = [next_block EXCEPT ![new_block] = following,
                                             ![old_block] = new_block]
         /\ prev_block' = [x \in Block |-> IF x = new_block THEN old_block
                                           ELSE IF old_block # last_block /\ x = following
                                           THEN new_block
                                           ELSE prev_block[x]]
         /\ last_block' = IF old_block = last_block THEN new_block ELSE last_block
         /\ first_inst' = [first_inst EXCEPT ![new_block] = before,
                                             ![old_block] = IF before_it = None THEN None ELSE @]
         /\ last_inst' = [last_inst EXCEPT ![new_block] = last_inst[old_block],
                                           ![old_block] = before_it]
         /\ prev_inst' = [prev_inst EXCEPT ![before] = None]
         /\ next_inst' = [x \in Inst |-> IF x = before_it THEN None ELSE next_inst[x]]
         /\ inst_block' = [i \in Inst |-> IF i \in moved THEN new_block ELSE inst_block[i]]
  /\ UNCHANGED <<made, first_block, panicked>>

-----------------------------------------------------------------------------
BlockOp ==
  \/ clear
  \/ \E b \in Block : \/ make_block(b) \/ append_block(b) \/ append_new_block(b)
                      \/ remove_empty_block(b) \/ clear_block(b)
                      \/ remove_and_clear_block(b)
  \/ \E b, c \in Block : insert_block(b, c) \/ insert_block_after(b, c)

InstOp ==
  \/ \E i \in Inst : remove_inst(i)
  \/ \E i \in Inst, b \in Block : append_inst_to_bb(i, b)
  \/ \E i, j \in Inst : prepend_inst(i, j) \/ append_inst(i, j)

SplitOrMerge ==
  \/ \E b, c \in Block : merge_blocks(b, c)
  \/ \E b \in Block, i \in Inst : split_block(b, i)

Next == BlockOp \/ InstOp \/ SplitOrMerge

Spec == Init /\ [][Next]_vars

-----------------------------------------------------------------------------
(* What the layout promises.                                               *)

\* Every link is None or a key of the right table.
TypeOK ==
  /\ made \subseteq Block
  /\ prev_block \in [Block -> Block \cup {None}]
  /\ next_block \in [Block -> Block \cup {None}]
  /\ first_inst \in [Block -> Inst \cup {None}]
  /\ last_inst  \in [Block -> Inst \cup {None}]
  /\ inst_block \in [Inst -> Block \cup {None}]
  /\ prev_inst  \in [Inst -> Inst \cup {None}]
  /\ next_inst  \in [Inst -> Inst \cup {None}]
  /\ first_block \in Block \cup {None} /\ last_block \in Block \cup {None}
  /\ panicked \in BOOLEAN

\* The block list: the blocks for which is_block_inserted holds, which looks
\* at two links only, form one list; a block outside it has no link, no
\* instruction, and is never mistaken for the last block.
BlockList ==
  /\ IsList(prev_block, next_block, first_block, last_block,
            {b \in Block : is_block_inserted(b)})
  /\ \A b \in Block :
       /\ is_block_inserted(b) => b \in made
       /\ ~is_block_inserted(b) => /\ next_block[b] = None
                                   /\ first_inst[b] = None /\ last_inst[b] = None

\* The instruction lists: the instructions that name b as their block form
\* one list between b's first_inst and last_inst; an instruction outside the
\* layout has no link.
InstLists ==
  /\ \A b \in Block : IsList(prev_inst, next_inst, first_inst[b], last_inst[b],
                             {i \in Inst : inst_block[i] = b})
  /\ \A i \in Inst : inst_block[i] = None => prev_inst[i] = None /\ next_inst[i] = None

\* is_block_inserted is the same as being met by a walk over the layout, in
\* either direction.
BlocksReachable ==
  \A b \in Block : /\ is_block_inserted(b) <=> b \in blocks
                   /\ is_block_inserted(b) <=> b \in rev_blocks

\* An instruction whose inst_block is b is met by a walk over b in either
\* direction, and only such instructions are: no instruction is lost, shared
\* between two blocks, or hidden in a cycle.
InstsReachable ==
  \A b \in Block : \A i \in Inst :
     /\ inst_block[i] = b <=> i \in block_insts(b)
     /\ inst_block[i] = b <=> i \in rev_block_insts(b)

=============================================================================
