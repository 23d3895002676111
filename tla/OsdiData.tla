------------------------------ MODULE OsdiData ------------------------------
(***************************************************************************)
(* osdi/src/{bitfield,inst_data,model_data}.rs: how the emitted library    *)
(* keeps a device. Model and instance are structs without names: a field   *)
(* is found by its element number, a parameter's given flag by its bit in  *)
(* an array of words, an output by its slot. A struct is a function from   *)
(* element numbers.                                                        *)
(***************************************************************************)
EXTENDS OsdiModule

CONSTANT WordBits   \* 32 in the source

VARIABLE eval_outputs   \* the values that have a slot: sequence, slot 0 first

ASSUME OsdiDataAssumption == WordBits \in Nat \ {0}

NUM_CONST_FIELDS    == 8
PARAM_GIVEN         == 0
JACOBIAN_PTR_RESIST == 1
JACOBIAN_PTR_REACT  == 2
NODE_MAPPING        == 3
COLLAPSED           == 4
TEMPERATURE         == 5
CONNECTED           == 6
STATE_IDX           == 7

-----------------------------------------------------------------------------
(* Bitfields: a word is the set of its bits that are one.                  *)

word_cnt(len) == (len + WordBits - 1) \div WordBits

arr_ty(len) == [0 .. word_cnt(len) - 1 -> SUBSET (0 .. WordBits - 1)]

is_set(words, pos) ==
  LET w == pos \div WordBits IN w \in DOMAIN words /\ pos % WordBits \in words[w]

\* Mutant: the bit replaces the word instead of joining it.
set_bit_Store(words, pos) == [words EXCEPT ![pos \div WordBits] = {pos % WordBits}]

set_bit(words, pos) == [words EXCEPT ![pos \div WordBits] = @ \cup {pos % WordBits}]

-----------------------------------------------------------------------------
(* Where things are. Positions and slots count from 0.                     *)

Pos(seq, x) == (CHOOSE i \in DOMAIN seq : seq[i] = x) - 1

NumInst  == Len(module.inst)
NumModel == Len(module.model)

nth_param_elem(pos)            == NUM_CONST_FIELDS + pos
cache_slot_elem(slot)          == NUM_CONST_FIELDS + NumInst + slot
eval_output_slot_elem(slot)    == NUM_CONST_FIELDS + NumInst + Len(module.cached) + slot
model_nth_param_elem(pos)      == 1 + pos
model_nth_inst_param_elem(pos) == 1 + NumModel + pos

model_inst_bit(pos) == pos + NumModel

\* EvalOutput::new: only the values that are not stored elsewhere get a slot.
Calculated(v) == v.kind \in {"given", "voltage", "result"}

\* The outputs with a slot: operating point variables also when they are
\* constants, residuals unless they are zero, the bound always.
HasSlot(o) ==
  LET v == OutputValue(o) IN
  CASE o.kind \in {"resist", "react", "limResist", "limReact"} -> v # F_ZERO
    [] o.kind = "opvar" -> Calculated(v) \/ v.kind = "const"
    [] o.kind = "bound" -> TRUE
    [] OTHER -> Calculated(v)

\* One slot for each value, however many outputs have it (TiMap::insert_full).
\* Slots are numbered as their values are met; nothing depends on the order.
SlotValues     == {OutputValue(o) : o \in {o \in Outputs : HasSlot(o)}}
NewEvalOutputs == SetToSeq(SlotValues)

slot_elem(v) == eval_output_slot_elem(Pos(eval_outputs, v))

\* residual_off, lim_rhs_off: where the descriptor says a residual is.
residual_off(n, part) ==
  LET v == module.residual[n][part] IN
  IF v = F_ZERO THEN None
  ELSE NUM_CONST_FIELDS + NumInst + Len(module.cached) + Pos(eval_outputs, v)

\* MatrixEntry::react_off: the entry's number among those with a reactive part.
react_off(e) == Cardinality({d \in 1 .. e - 1 : module.jacobian[d].react # F_ZERO})

NumReact == Cardinality({e \in DOMAIN module.jacobian : module.jacobian[e].react # F_ZERO})

\* OsdiInstanceData::new and OsdiModelData::new, in zeroed memory.
NewInstance ==
  [e \in 0 .. NUM_CONST_FIELDS + NumInst + Len(module.cached) + Len(eval_outputs) - 1 |->
     CASE e = PARAM_GIVEN         -> [w \in 0 .. word_cnt(NumInst) - 1 |-> {}]
       [] e = JACOBIAN_PTR_RESIST -> [i \in DOMAIN module.jacobian |-> <<0, 0>>]
       [] e = JACOBIAN_PTR_REACT  -> [i \in 1 .. NumReact |-> <<0, 0>>]
       [] e = NODE_MAPPING        -> [n \in Unknowns |-> 0]
       [] e = COLLAPSED           -> {}
       [] OTHER                   -> 0]

NewModel ==
  [e \in 0 .. NumModel + NumInst |->
     IF e = PARAM_GIVEN THEN [w \in 0 .. word_cnt(NumInst + NumModel) - 1 |-> {}] ELSE 0]

-----------------------------------------------------------------------------
(* Reading. An operator's arguments are the memories it reads.             *)

\* param_loc: the instance's copy if it has one, else the model's.
read_param(inst, mod) ==
  [p \in InstParams \cup ModelParams \cup {Temp} |->
     IF p = Temp THEN inst[TEMPERATURE]
     ELSE IF p \in InstParams THEN inst[nth_param_elem(Pos(module.inst, p))]
     ELSE mod[model_nth_param_elem(Pos(module.model, p))]]

load_cache(inst) == [s \in DOMAIN module.cached |-> inst[cache_slot_elem(s - 1)]]

\* read_node_voltage.
read_node_voltage(inst, solution) == [n \in Unknowns |-> solution[inst[NODE_MAPPING][n]]]

\* load_eval_output.
load_eval_output(v, inst, mod) ==
  CASE v.kind = "const" -> v.of
    [] v.kind = "param" -> read_param(inst, mod)[v.of]
    [] v.kind = "cache" -> load_cache(inst)[v.of]
    [] OTHER            -> inst[slot_elem(v)]

\* read_residual, read_lim_rhs: by slot, whatever the value is.
read_slot(v, inst) == IF v = F_ZERO THEN 0 ELSE inst[slot_elem(v)]
=============================================================================
