-------------------------- MODULE LayoutRefinement --------------------------
(***************************************************************************)
(* The linked lists of Layout implement the sequences of AbstractLayout.   *)
(***************************************************************************)
EXTENDS Layout

\* Keys are 32-bit numbers.
ASSUME KeysAssumption == IsFiniteSet(Block) /\ IsFiniteSet(Inst)

Abstract == INSTANCE AbstractLayout WITH
  order <- Listing(Block, next_block, first_block),
  body  <- [b \in Block |-> Listing(Inst, next_inst, first_inst[b])]

\* Read front to back, the layout is a sequence of blocks of sequences of
\* instructions, and each operation of layout.rs is the sequence operation its
\* documentation describes: insertion at a place, removal, split, merge.
RefinesAbstractLayout == Abstract!Spec

\* Read back to front it is the reverse of the same sequences (what
\* rev_blocks_cursor and next_back return).
BackwardReading ==
  /\ Mirrors(Listing(Block, prev_block, last_block), Listing(Block, next_block, first_block))
  /\ \A b \in Block :
       Mirrors(Listing(Inst, prev_inst, last_inst[b]), Listing(Inst, next_inst, first_inst[b]))

=============================================================================
