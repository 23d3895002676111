------------------------ MODULE FunctionBuilderProofs ------------------------
(***************************************************************************)
(* The finished function is well formed (WellFormed), and every lookup of  *)
(* the SSA builder returns (LookupsNest), for any number of blocks,        *)
(* variables and instructions.                                             *)
(*                                                                         *)
(* The inductive invariant IInv has three parts that neither property has: *)
(*   - Waiting, Apart, Awaited: every value without a definition is the    *)
(*     sentinel of exactly one entry of undef_phis, of the list that       *)
(*     seal_one_block works through, or of a lookup under way, which will  *)
(*     define it, so that none is left when all blocks are sealed;         *)
(*   - AliasOrder: what a value is an alias of becomes an alias later than *)
(*     the value does, so that no chain of aliases is a cycle;             *)
(*   - Levels: the results that the calls above a scheduled lookup leave,  *)
(*     counted from the bottom; a sentinel is never below the results of   *)
(*     its own lookup, so that one lookup cannot redefine what another has *)
(*     put there.                                                          *)
(* Functions by recursion are handled by least elements of sets of numbers.*)
(*                                                                         *)
(* The second half proves that the reads of the finished function see      *)
(* their variables (ReadsSeeVariable). Its invariant, Seen, says of the    *)
(* function under construction which value stands for which variable       *)
(* where:                                                                  *)
(*   - Representatives: every value stands for the end of its aliases;     *)
(*   - History: in every block a variable has a line of values, one before *)
(*     each instruction; the first of them is a sentinel that somebody     *)
(*     waits for, or is what the predecessors agree on, or a phi of theirs;*)
(*   - Scheduled: the result stack that nested lookups share holds, for    *)
(*     each of them, what its predecessors have found, in their order, or  *)
(*     a call above will put it there (Plan);                              *)
(*   - Run: in the finished function the lines are joined at the edges,    *)
(*     and the value that stands for a variable where the run is holds     *)
(*     what the variable holds.                                            *)
(***************************************************************************)
EXTENDS FunctionBuilder, Integers, FiniteSetTheorems, SequenceTheorems,
        WellFoundedInduction, TLAPS

-----------------------------------------------------------------------------
(* Functions defined by recursion over 0 .. N, without induction: a set of *)
(* numbers has a least element.                                            *)

\* A set of numbers that is not empty has a least one.
LEMMA LeastNat ==
  ASSUME NEW T \in SUBSET Nat, T # {}
  PROVE  \E m \in T : \A k \in T : m <= k
<1>1. IsWellFoundedOn(OpToRel(<, Nat), Nat)
  BY NatLessThanWellFounded
<1>2. PICK m \in T : \A k \in T : ~(<<k, m>> \in OpToRel(<, Nat))
  BY <1>1, WFMin
<1>3. \A k \in T : ~(k < m)
  BY <1>2 DEF OpToRel
<1>4. QED
  BY <1>3

\* f iterates step from start on, n times.
Iterates(f, n, start, step) == f = [k \in 0 .. n |-> IF k = 0 THEN start ELSE step[f[k - 1]]]

\* A function can be iterated any number of times.
LEMMA IterateOn ==
  ASSUME NEW D, NEW start \in D, NEW step \in [D -> D], NEW n \in Nat
  PROVE  \E f \in [0 .. n -> D] : Iterates(f, n, start, step)
<1> DEFINE T == {m \in Nat : ~\E f \in [0 .. m -> D] : Iterates(f, m, start, step)}
<1> SUFFICES ASSUME T # {} PROVE FALSE
  OBVIOUS
<1>1. PICK m \in T : \A k \in T : m <= k
  <2>1. T \in SUBSET Nat
    OBVIOUS
  <2> HIDE DEF T
  <2>2. QED
    BY <2>1, LeastNat
<1>2. m \in Nat /\ ~\E f \in [0 .. m -> D] : Iterates(f, m, start, step)
  OBVIOUS
<1>3. CASE m = 0
  <2>1. PICK f : f = [k \in 0 .. 0 |-> start]
    OBVIOUS
  <2>2. f \in [0 .. 0 -> D] /\ f = [k \in 0 .. 0 |-> IF k = 0 THEN start ELSE step[f[k - 1]]]
    BY <2>1
  <2>3. QED
    BY <1>2, <1>3, <2>2 DEF Iterates
<1>4. CASE m # 0
  <2>1. m - 1 \in Nat /\ m - 1 \notin T
    <3> HIDE DEF T
    <3>1. QED
      BY <1>1, <1>2, <1>4
  <2>2. PICK g \in [0 .. m - 1 -> D] : Iterates(g, m - 1, start, step)
    BY <2>1
  <2>3. g = [k \in 0 .. m - 1 |-> IF k = 0 THEN start ELSE step[g[k - 1]]]
    BY <2>2 DEF Iterates
  <2>4. PICK f : f = [k \in 0 .. m |-> IF k = m THEN step[g[m - 1]] ELSE g[k]]
    OBVIOUS
  <2>5. g[m - 1] \in D
    BY <2>1, <2>2
  <2>6. f \in [0 .. m -> D]
    BY <1>2, <2>1, <2>2, <2>4, <2>5
  <2>7. \A k \in 0 .. m - 1 : f[k] = g[k]
    BY <1>2, <2>4
  <2>8. ASSUME NEW k \in 0 .. m
        PROVE  f[k] = IF k = 0 THEN start ELSE step[f[k - 1]]
    <3>1. CASE k = m
      BY <1>2, <1>4, <2>1, <2>4, <2>7, <3>1
    <3>2. CASE k # m
      <4>1. k \in 0 .. m - 1 /\ (k # 0 => k - 1 \in 0 .. m - 1)
        BY <1>2, <3>2
      <4>2. g[k] = IF k = 0 THEN start ELSE step[g[k - 1]]
        BY <2>3, <4>1
      <4>3. QED
        BY <2>7, <4>1, <4>2
    <3>3. QED
      BY <3>1, <3>2
  <2>9. f = [k \in 0 .. m |-> IF k = 0 THEN start ELSE step[f[k - 1]]]
    BY <2>6, <2>8
  <2>10. QED
    BY <1>2, <2>6, <2>9 DEF Iterates
<1>5. QED
  BY <1>3, <1>4

\* f is a function on 0 .. n.
FunctionTo(f, n) == f = [k \in 0 .. n |-> f[k]]

\* Two functions that start alike and go on alike are alike.
LEMMA SameSteps ==
  ASSUME NEW n \in Nat, NEW f, NEW g,
         FunctionTo(f, n), FunctionTo(g, n), f[0] = g[0],
         \A k \in 1 .. n : f[k - 1] = g[k - 1] => f[k] = g[k]
  PROVE  f = g
<1> DEFINE T == {k \in 0 .. n : f[k] # g[k]}
<1> SUFFICES ASSUME T # {} PROVE FALSE
  BY DEF FunctionTo
<1>1. T \in SUBSET Nat
  OBVIOUS
<1>2. PICK m \in T : \A k \in T : m <= k
  <2> HIDE DEF T
  <2>1. QED
    BY <1>1, LeastNat
<1>3. m \in 0 .. n /\ f[m] # g[m]
  OBVIOUS
<1>4. m \in 1 .. n /\ m - 1 \in 0 .. n /\ m - 1 \notin T
  <2> HIDE DEF T
  <2>1. QED
    BY <1>2, <1>3
<1>5. QED
  BY <1>3, <1>4 DEF FunctionTo

-----------------------------------------------------------------------------
(* The inductive invariant.                                                *)

Operation == [op : {"write", "read"}, place : Place, val : Nat]
             \cup [op : {"copy"}, place : Place, from : Place, val : Nat]

Definition == {Invalid, Inst} \cup [ty : {"alias"}, to : Nat]
              \cup UNION {[ty : {"phi"}, block : Nat, args : [D -> Nat]] : D \in SUBSET Nat}

Call == [call : {"use"}, block : Nat] \cup [call : {"finish"}, block : Nat, sentinel : Nat]

Entries == Seq(Place \X Nat)

\* Blocks, edges, and where the builder is.
Graph ==
  /\ created \in 2 .. NumBlocks /\ position \in Block /\ phase \in {"build", "run"}
  /\ preds \in [1 .. NumBlocks -> Seq(Block)]
  /\ \A b \in 1 .. NumBlocks : \A i, j \in 1 .. Len(preds[b]) : i < j => preds[b][i] < preds[b][j]
  /\ succs \in [1 .. NumBlocks -> SUBSET Block]
  /\ sealed \subseteq Block /\ filled \subseteq touched /\ touched \subseteq Block

\* The edges of a function that is being built, from both sides.
Edges ==
  phase = "build" =>
    /\ \A b \in 1 .. NumBlocks : ToSet(preds[b]) = {p \in Block : b \in succs[p]}
    /\ \A p \in 1 .. NumBlocks : succs[p] # {} => p \in filled

\* Values, and a phi for every predecessor of its block.
Values ==
  /\ vals \in Seq(Definition) /\ GRAVESTONE \in Value /\ vals[GRAVESTONE] = Inst
  /\ \A x \in Value : vals[x].ty = "alias" => vals[x].to \in Value

Phis ==
  \A x \in Value : vals[x].ty = "phi" =>
    /\ vals[x].block \in Block
    /\ DOMAIN vals[x].args = {p \in Block : vals[x].block \in succs[p]}
    /\ \A p \in DOMAIN vals[x].args : vals[x].args[p] \in Value
    /\ phase = "build" => vals[x].block \in sealed \cup {sealing.block}

AliasValues == {x \in Value : vals[x].ty = "alias"}

\* Every alias with the number of aliases that were made before it: what a value is
\* an alias of becomes an alias later, or never.
InOrder(made) ==
  \A x \in AliasValues : /\ made[x] < Cardinality(AliasValues)
                         /\ vals[x].to \in AliasValues => made[x] < made[vals[x].to]

AliasOrder == \E made \in [AliasValues -> Nat] : InOrder(made)

\* What the builder knows of the variables, and the code so far.
Tables ==
  /\ variables \in [Place -> [1 .. NumBlocks -> 0 .. Len(vals)]]
  /\ code \in [1 .. NumBlocks -> Seq(Operation)]
  /\ \A b \in 1 .. NumBlocks : \A k \in 1 .. Len(code[b]) : code[b][k].val \in Value
  /\ pending \in Operation \cup {NoCaller}

\* Who runs the machine: a read, or the sealing of a block.
Stages ==
  /\ pending # NoCaller => /\ sealing = NotSealing /\ phase = "build"
                           /\ calls = <<>> => Len(results) = 1
  /\ sealing # NotSealing => /\ phase = "build" /\ sealing.block \in Block \ sealed
                             /\ undef_phis[sealing.block] = <<>>
  /\ calls # <<>> => /\ pending # NoCaller \/ sealing # NotSealing
                     /\ var \in Place
                     /\ sealing # NotSealing => variables[var][sealing.block] # None

\* The lookups under way: each is in a block of its own and has a sentinel of its own.
Frames ==
  /\ calls \in Seq(Call)
  /\ \A k \in 1 .. Len(calls) : /\ calls[k].block \in Block
                                /\ calls[k].call = "use" => calls[k].block \in touched
  /\ \A i \in Finishing : /\ calls[i].block \in sealed \cup {sealing.block}
                          /\ variables[var][calls[i].block] # None
                          /\ calls[i].sentinel \in Value /\ vals[calls[i].sentinel].ty = "invalid"
  /\ \A i, j \in Finishing :
       calls[i].block = calls[j].block \/ calls[i].sentinel = calls[j].sentinel => i = j

\* level[k] is how many results there are when the calls above the k-th are done.
\* What a lookup finds below its own results stays there until it has ended, and is
\* not its sentinel.
Levels(level) ==
  /\ level[0] = 1 /\ level[Len(calls)] = Len(results)
  /\ \A k \in 1 .. Len(calls) : level[k - 1] >= 1 /\ level[k] = (level[k - 1] + Takes(calls[k])) - 1
  /\ \A i \in Finishing : /\ \A j \in i .. Len(calls) - 1 : level[j] >= level[i - 1]
                          /\ \A k \in 1 .. level[i - 1] - 1 : results[k] # calls[i].sentinel

Stack ==
  /\ results \in Seq(Value)
  /\ calls # <<>> => /\ \E level \in [0 .. Len(calls) -> Nat] : Levels(level)
                     /\ \A k \in 1 .. Len(results) : vals[results[k]].ty # "alias"

\* An entry of a list of variables that wait for the predecessors of b.
Requested(e, b) ==
  /\ e[1] \in Place /\ variables[e[1]][b] # None
  /\ e[2] \in Value /\ vals[e[2]].ty = "invalid"

Waiting ==
  /\ undef_phis \in [1 .. NumBlocks -> Entries] /\ sealing \in [block : 0 .. NumBlocks, todo : Entries]
  /\ \A b \in 1 .. NumBlocks : \A k \in 1 .. Len(undef_phis[b]) :
       Requested(undef_phis[b][k], b) /\ b \in touched \ sealed
  /\ \A k \in 1 .. Len(sealing.todo) : Requested(sealing.todo[k], sealing.block)

\* No two of those who wait for a sentinel wait for the same one.
Apart ==
  /\ \A b, c \in 1 .. NumBlocks : \A k \in 1 .. Len(undef_phis[b]), l \in 1 .. Len(undef_phis[c]) :
       undef_phis[b][k][2] = undef_phis[c][l][2] => b = c /\ k = l
  /\ \A k, l \in 1 .. Len(sealing.todo) : sealing.todo[k][2] = sealing.todo[l][2] => k = l
  /\ \A b \in 1 .. NumBlocks : \A k \in 1 .. Len(undef_phis[b]) :
       /\ \A l \in 1 .. Len(sealing.todo) : undef_phis[b][k][2] # sealing.todo[l][2]
       /\ \A i \in Finishing : undef_phis[b][k][2] # calls[i].sentinel
  /\ \A l \in 1 .. Len(sealing.todo) : \A i \in Finishing : sealing.todo[l][2] # calls[i].sentinel

InPhis(x)  == \E b \in 1 .. NumBlocks : \E k \in 1 .. Len(undef_phis[b]) : undef_phis[b][k][2] = x
InTodo(x)  == \E k \in 1 .. Len(sealing.todo) : sealing.todo[k][2] = x
InCalls(x) == \E i \in Finishing : calls[i].sentinel = x

\* Every value without a definition is a sentinel that somebody will define.
Awaited == \A x \in Value : vals[x].ty = "invalid" => InPhis(x) \/ InTodo(x) \/ InCalls(x)

IInv ==
  /\ Graph /\ Edges /\ Values /\ Phis /\ AliasOrder /\ Tables /\ Stages
  /\ Frames /\ Stack /\ Waiting /\ Apart /\ Awaited /\ OperandsDefined

-----------------------------------------------------------------------------
(* The operators.                                                          *)

\* resolve_alias follows the links of an alias for as long as there are any.
LEMMA ChainExists ==
  ASSUME Values, NEW v \in Value
  PROVE  \E c \in [0 .. Len(vals) -> Value] :
           /\ c[0] = v /\ resolve_alias(v) = c[Len(vals)]
           /\ \A k \in 1 .. Len(vals) : c[k] = link(c[k - 1])
<1> DEFINE body(c) == [n \in 0 .. Len(vals) |-> IF n = 0 THEN v ELSE link(c[n - 1])]
           c       == CHOOSE c : c = body(c)
<1>1. Len(vals) \in Nat
  BY DEF Values
<1>2. PICK step : step = [x \in Value |-> link(x)]
  OBVIOUS
<1>3. step \in [Value -> Value]
  BY <1>2 DEF Values, link
<1>4. PICK f \in [0 .. Len(vals) -> Value] : Iterates(f, Len(vals), v, step)
  BY <1>1, <1>3, IterateOn
<1>5. f = [n \in 0 .. Len(vals) |-> IF n = 0 THEN v ELSE step[f[n - 1]]]
  BY <1>4 DEF Iterates
<1>6. \A n \in 1 .. Len(vals) : step[f[n - 1]] = link(f[n - 1])
  BY <1>1, <1>2, <1>4
<1>7. f = body(f)
  BY <1>1, <1>5, <1>6
<1>8. c = body(c)
  BY <1>7
<1>9. resolve_alias(v) = c[Len(vals)]
  BY DEF resolve_alias
<1> HIDE DEF c
<1>10. FunctionTo(c, Len(vals)) /\ c[0] = v /\ \A k \in 1 .. Len(vals) : c[k] = link(c[k - 1])
  BY <1>1, <1>8 DEF FunctionTo
<1>11. FunctionTo(f, Len(vals)) /\ f[0] = v /\ \A k \in 1 .. Len(vals) : f[k] = link(f[k - 1])
  BY <1>1, <1>7 DEF FunctionTo
<1>12. f = c
  BY <1>1, <1>10, <1>11, SameSteps
<1>13. QED
  BY <1>4, <1>9, <1>10, <1>12

\* The aliases are finitely many, and not more than there are values.
LEMMA AliasCount ==
  ASSUME Values
  PROVE  IsFiniteSet(AliasValues) /\ Cardinality(AliasValues) \in 0 .. Len(vals)
<1>1. Len(vals) \in Nat /\ AliasValues \subseteq 1 .. Len(vals)
  BY DEF Values, AliasValues, Value
<1>2. IsFiniteSet(1 .. Len(vals)) /\ Cardinality(1 .. Len(vals)) = Len(vals)
  BY <1>1, FS_Interval
<1>3. AliasValues \in SUBSET (1 .. Len(vals))
  BY <1>1
<1>4. IsFiniteSet(AliasValues) /\ Cardinality(AliasValues) <= Cardinality(1 .. Len(vals))
  BY <1>2, <1>3, FS_Subset
<1>5. Cardinality(AliasValues) \in Nat
  BY <1>4, FS_CardinalityType
<1>6. QED
  BY <1>1, <1>2, <1>4, <1>5

\* Every alias chain ends at a value that is none.
LEMMA ResolveEnds ==
  ASSUME Values, AliasOrder, NEW v \in Value
  PROVE  resolve_alias(v) \in Value /\ vals[resolve_alias(v)].ty # "alias"
<1>1. Len(vals) \in Nat /\ Cardinality(AliasValues) \in 0 .. Len(vals)
  BY AliasCount DEF Values
<1>2. PICK made \in [AliasValues -> Nat] : InOrder(made)
  BY DEF AliasOrder
<1>3. PICK c \in [0 .. Len(vals) -> Value] :
           /\ c[0] = v /\ resolve_alias(v) = c[Len(vals)]
           /\ \A k \in 1 .. Len(vals) : c[k] = link(c[k - 1])
  BY ChainExists
<1> DEFINE T == {k \in 0 .. Len(vals) : c[k] \in AliasValues /\ made[c[k]] < k}
<1>4. T = {}
  <2> SUFFICES ASSUME T # {} PROVE FALSE
    OBVIOUS
  <2>1. T \in SUBSET Nat
    OBVIOUS
  <2>2. PICK m \in T : \A k \in T : m <= k
    <3> HIDE DEF T
    <3>1. QED
      BY <2>1, LeastNat
  <2>3. m \in 0 .. Len(vals) /\ c[m] \in AliasValues /\ made[c[m]] < m
    OBVIOUS
  <2>4. m # 0 /\ m - 1 \in 0 .. Len(vals) /\ m \in 1 .. Len(vals)
    BY <1>1, <1>2, <2>3
  <2>5. m - 1 \notin T
    <3> HIDE DEF T
    <3>1. QED
      BY <1>1, <2>2, <2>3, <2>4
  <2>6. c[m] = link(c[m - 1]) /\ c[m - 1] \in Value
    BY <1>3, <2>4
  <2>7. c[m - 1] \in AliasValues /\ vals[c[m - 1]].to = c[m]
    <3>1. CASE vals[c[m - 1]].ty = "alias"
      BY <2>6, <3>1 DEF link, AliasValues
    <3>2. CASE vals[c[m - 1]].ty # "alias"
      BY <2>3, <2>6, <3>2 DEF link, AliasValues
    <3>3. QED
      BY <3>1, <3>2
  <2>8. made[c[m - 1]] < made[c[m]]
    BY <1>2, <2>3, <2>7 DEF InOrder
  <2>9. made[c[m - 1]] \in Nat /\ made[c[m]] \in Nat
    BY <1>2, <2>3, <2>7
  <2>10. made[c[m - 1]] < m - 1
    BY <2>3, <2>4, <2>8, <2>9
  <2>11. QED
    BY <2>4, <2>5, <2>7, <2>10
<1>5. ASSUME c[Len(vals)] \in AliasValues PROVE FALSE
  <2>1. made[c[Len(vals)]] < Cardinality(AliasValues) /\ made[c[Len(vals)]] \in Nat
    BY <1>2, <1>5 DEF InOrder
  <2>2. Len(vals) \in T
    BY <1>1, <1>5, <2>1
  <2>3. QED
    BY <1>4, <2>2
<1>6. QED
  BY <1>1, <1>3, <1>5 DEF AliasValues

\* The first element of a sequence that passes a test: its index is 0 if there is none.
First(I) == IF I # {} THEN Min(I) ELSE 0

\* First is the least element of a set of numbers, or 0.
LEMMA FirstIs ==
  ASSUME NEW I \in SUBSET Nat
  PROVE  /\ I = {} => First(I) = 0
         /\ I # {} => First(I) \in I /\ \A k \in I : First(I) <= k
<1>1. CASE I = {}
  BY <1>1 DEF First
<1>2. CASE I # {}
  <2>1. \E m \in I : \A k \in I : m <= k
    BY <1>2, LeastNat
  <2>2. QED
    BY <1>2, <2>1 DEF First, Min
<1>3. QED
  BY <1>1, <1>2

\* add_predecessor puts a new predecessor where the order has its place.
LEMMA AddPredecessor ==
  ASSUME NEW S \in SUBSET Nat, NEW s \in Seq(S), NEW p \in S, p \notin ToSet(s),
         \A i, j \in 1 .. Len(s) : i < j => s[i] < s[j]
  PROVE  /\ add_predecessor(s, p) \in Seq(S)
         /\ ToSet(add_predecessor(s, p)) = ToSet(s) \cup {p}
         /\ \A i, j \in 1 .. Len(add_predecessor(s, p)) :
              i < j => add_predecessor(s, p)[i] < add_predecessor(s, p)[j]
<1> DEFINE I == {k \in 1 .. Len(s) : s[k] >= p}
           t == add_predecessor(s, p)
<1>1. Len(s) \in Nat /\ \A k \in 1 .. Len(s) : s[k] \in S /\ s[k] \in Nat /\ s[k] # p
  <2>1. Len(s) \in Nat /\ DOMAIN s = 1 .. Len(s) /\ \A k \in 1 .. Len(s) : s[k] \in S
    OBVIOUS
  <2>2. \A k \in 1 .. Len(s) : s[k] # p
    BY <2>1 DEF ToSet
  <2>3. QED
    BY <2>1, <2>2
<1>2. SelectInSeq(s, LAMBDA e : e >= p) = First(I)
  BY DEF SelectInSeq, First
<1>3. I \in SUBSET Nat
  OBVIOUS
<1>4. \E i \in 1 .. Len(s) + 1 :
        /\ t \in Seq(S) /\ Len(t) = Len(s) + 1
        /\ \A k \in 1 .. i - 1 : t[k] = s[k] /\ s[k] < p
        /\ t[i] = p
        /\ \A k \in i + 1 .. Len(s) + 1 : t[k] = s[k - 1] /\ p < s[k - 1]
  <2>1. CASE I = {}
    <3>1. First(I) = 0
      BY <1>3, <2>1, FirstIs
    <3>2. t = Append(s, p)
      BY <1>2, <3>1 DEF add_predecessor
    <3>3. \A k \in 1 .. Len(s) : s[k] < p
      BY <1>1, <2>1
    <3>4. /\ t \in Seq(S) /\ Len(t) = Len(s) + 1 /\ t[Len(s) + 1] = p
          /\ \A k \in 1 .. Len(s) : t[k] = s[k]
      BY <1>1, <3>2
    <3> HIDE DEF t
    <3>5. WITNESS Len(s) + 1 \in 1 .. Len(s) + 1
    <3>6. QED
      BY <1>1, <3>3, <3>4
  <2>2. CASE I # {}
    <3>1. PICK i \in I : i = First(I) /\ \A k \in I : i <= k
      <4> HIDE DEF I
      <4>1. QED
        BY <1>3, <2>2, FirstIs
    <3>2. i \in 1 .. Len(s) /\ s[i] >= p
      OBVIOUS
    <3>3. t = SubSeq(s, 1, i - 1) \o <<p>> \o SubSeq(s, i, Len(s))
      <4>1. SelectInSeq(s, LAMBDA e : e >= p) = i /\ i # 0
        BY <1>2, <3>1, <3>2
      <4>2. QED
        BY <4>1 DEF add_predecessor, InsertAt
    <3>4. \A k \in 1 .. i - 1 : s[k] < p
      <4> SUFFICES ASSUME NEW k \in 1 .. i - 1 PROVE s[k] < p
        OBVIOUS
      <4>1. k \in 1 .. Len(s) /\ ~(i <= k)
        BY <3>2
      <4>2. k \notin I
        <5> HIDE DEF I
        <5>1. QED
          BY <3>1, <4>1
      <4>3. QED
        BY <1>1, <4>1, <4>2
    <3>5. \A k \in i .. Len(s) : p < s[k]
      <4> SUFFICES ASSUME NEW k \in i .. Len(s) PROVE p < s[k]
        OBVIOUS
      <4>1. k \in 1 .. Len(s) /\ (k = i \/ i < k)
        BY <1>1, <3>2
      <4>2. s[i] <= s[k]
        BY <1>1, <3>2, <4>1
      <4>3. s[k] # p /\ s[k] \in Nat /\ s[i] \in Nat /\ p \in Nat
        BY <1>1, <3>2, <4>1
      <4>4. QED
        BY <3>2, <4>2, <4>3
    <3> HIDE DEF t
    <3>6. PICK a : a = SubSeq(s, 1, i - 1)
      OBVIOUS
    <3>7. a \in Seq(S) /\ Len(a) = i - 1 /\ \A k \in 1 .. i - 1 : a[k] = s[k]
      BY <1>1, <3>2, <3>6
    <3>8. PICK c : c = SubSeq(s, i, Len(s))
      OBVIOUS
    <3>9. c \in Seq(S) /\ Len(c) = (Len(s) - i) + 1
          /\ \A k \in 1 .. (Len(s) - i) + 1 : c[k] = s[(i + k) - 1]
      BY <1>1, <3>2, <3>8
    <3>10. PICK d : d = a \o <<p>>
      OBVIOUS
    <3>11. d \in Seq(S) /\ Len(d) = i /\ d[i] = p /\ \A k \in 1 .. i - 1 : d[k] = s[k]
      BY <1>1, <3>2, <3>7, <3>10, SMTT(30)
    <3>12. t = d \o c
      BY <3>3, <3>6, <3>8, <3>10
    <3>13. t \in Seq(S) /\ Len(t) = Len(s) + 1
      <4>1. t \in Seq(S) /\ Len(t) = Len(d) + Len(c)
        <5>1. d \in Seq(S) /\ c \in Seq(S)
          BY <3>9, <3>11
        <5>2. QED
          BY <3>12, <5>1, ConcatProperties
      <4>2. QED
        BY <1>1, <3>2, <3>9, <3>11, <4>1
    <3>14. \A k \in 1 .. i : t[k] = d[k]
      BY <1>1, <3>2, <3>9, <3>11, <3>12
    <3>15. \A k \in i + 1 .. Len(s) + 1 : t[k] = s[k - 1]
      <4> SUFFICES ASSUME NEW k \in i + 1 .. Len(s) + 1 PROVE t[k] = s[k - 1]
        OBVIOUS
      <4>1. t[k] = c[k - i] /\ k - i \in 1 .. (Len(s) - i) + 1
        BY <1>1, <3>2, <3>9, <3>11, <3>12
      <4>2. (i + (k - i)) - 1 = k - 1
        BY <3>2
      <4>3. QED
        BY <3>9, <4>1, <4>2
    <3>16. WITNESS i \in 1 .. Len(s) + 1
    <3>17. QED
      BY <1>1, <3>2, <3>4, <3>5, <3>11, <3>13, <3>14, <3>15
  <2>3. QED
    BY <2>1, <2>2
<1> HIDE DEF t, I
<1>5. PICK i \in 1 .. Len(s) + 1 :
        /\ t \in Seq(S) /\ Len(t) = Len(s) + 1
        /\ \A k \in 1 .. i - 1 : t[k] = s[k] /\ s[k] < p
        /\ t[i] = p
        /\ \A k \in i + 1 .. Len(s) + 1 : t[k] = s[k - 1] /\ p < s[k - 1]
  BY <1>4
<1>6. ToSet(t) = ToSet(s) \cup {p}
  <2>1. \A k \in 1 .. Len(t) : t[k] \in ToSet(s) \cup {p}
    <3> SUFFICES ASSUME NEW k \in 1 .. Len(t) PROVE t[k] \in ToSet(s) \cup {p}
      OBVIOUS
    <3>1. CASE k < i
      BY <1>1, <1>5, <3>1 DEF ToSet
    <3>2. CASE k = i
      BY <1>5, <3>2
    <3>3. CASE k > i
      <4>1. k - 1 \in 1 .. Len(s) /\ t[k] = s[k - 1]
        BY <1>1, <1>5, <3>3
      <4>2. QED
        BY <4>1 DEF ToSet
    <3>4. QED
      BY <1>1, <1>5, <3>1, <3>2, <3>3
  <2>2. \A k \in 1 .. Len(s) : \E l \in 1 .. Len(t) : t[l] = s[k]
    <3> SUFFICES ASSUME NEW k \in 1 .. Len(s) PROVE \E l \in 1 .. Len(t) : t[l] = s[k]
      OBVIOUS
    <3>1. CASE k < i
      BY <1>1, <1>5, <3>1
    <3>2. CASE k >= i
      <4>1. k + 1 \in i + 1 .. Len(s) + 1 /\ k + 1 \in 1 .. Len(t) /\ (k + 1) - 1 = k
        BY <1>1, <1>5, <3>2
      <4>2. QED
        BY <1>5, <4>1
    <3>3. QED
      BY <1>1, <1>5, <3>1, <3>2
  <2>3. i \in 1 .. Len(t) /\ t[i] = p
    BY <1>1, <1>5
  <2>4. DOMAIN t = 1 .. Len(t) /\ DOMAIN s = 1 .. Len(s)
    BY <1>5
  <2>5. QED
    BY <2>1, <2>2, <2>3, <2>4 DEF ToSet
<1>7. ASSUME NEW j \in 1 .. Len(t), NEW k \in 1 .. Len(t), j < k
      PROVE  t[j] < t[k]
  <2>1. CASE k < i
    BY <1>1, <1>5, <1>7, <2>1
  <2>2. CASE k = i
    BY <1>1, <1>5, <1>7, <2>2
  <2>3. CASE k > i
    <3>1. k \in i + 1 .. Len(s) + 1 /\ k - 1 \in 1 .. Len(s)
      BY <1>1, <1>5, <2>3
    <3>2. t[k] = s[k - 1] /\ p < s[k - 1] /\ s[k - 1] \in Nat /\ p \in Nat
      BY <1>1, <1>5, <3>1
    <3>3. CASE j < i
      <4>1. j \in 1 .. i - 1 /\ j \in 1 .. Len(s)
        BY <1>1, <1>5, <3>3
      <4>2. t[j] = s[j] /\ s[j] < p /\ s[j] \in Nat
        BY <1>1, <1>5, <4>1
      <4>3. QED
        BY <3>2, <4>2
    <3>4. CASE j = i
      BY <1>5, <3>2, <3>4
    <3>5. CASE j > i
      <4>1. j \in i + 1 .. Len(s) + 1 /\ j - 1 \in 1 .. Len(s) /\ j - 1 < k - 1
        BY <1>1, <1>5, <1>7, <3>1, <3>5
      <4>2. t[j] = s[j - 1] /\ s[j - 1] < s[k - 1]
        BY <1>1, <1>5, <3>1, <4>1
      <4>3. QED
        BY <3>2, <4>2
    <3>6. QED
      BY <1>1, <1>5, <3>3, <3>4, <3>5
  <2>4. QED
    BY <1>1, <1>5, <2>1, <2>2, <2>3
<1>8. QED
  BY <1>5, <1>6, <1>7 DEF t

\* A lookup is never optimised: its search would have to visit the block twice.
LEMMA NeverOptimised ==
  ASSUME NEW b
  PROVE  ~can_optimize_var_lookup(b)
BY DEF can_optimize_var_lookup

\* What a lookup schedules: its own end, below a lookup in every predecessor.
LEMMA BeginLookup ==
  ASSUME NEW s \in Nat, NEW b \in Nat, preds[b] \in Seq(Nat)
  PROVE  /\ begin_predecessors_lookup(s, b) \in Seq(Call)
         /\ Len(begin_predecessors_lookup(s, b)) = Len(preds[b]) + 1
         /\ begin_predecessors_lookup(s, b)[1] = FinishPredecessorsLookup(s, b)
         /\ \A k \in 2 .. Len(preds[b]) + 1 :
              \E p \in ToSet(preds[b]) : begin_predecessors_lookup(s, b)[k] = UseVar(p)
<1> DEFINE n == Len(preds[b])
           uses == [k \in 1 .. n |-> UseVar(Reverse(preds[b])[k])]
           begin == begin_predecessors_lookup(s, b)
<1>1. n \in Nat /\ DOMAIN preds[b] = 1 .. n /\ \A k \in 1 .. n : preds[b][k] \in Nat
  OBVIOUS
<1>2. ASSUME NEW k \in 1 .. n
      PROVE  Reverse(preds[b])[k] \in ToSet(preds[b]) /\ Reverse(preds[b])[k] \in Nat
  <2>1. (n - k) + 1 \in 1 .. n
    BY <1>1
  <2>2. Reverse(preds[b])[k] = preds[b][(n - k) + 1]
    BY DEF Reverse
  <2>3. QED
    BY <1>1, <2>1, <2>2 DEF ToSet
<1>3. uses \in [1 .. n -> Call]
  BY <1>2 DEF UseVar, Call
<1>4. uses \in Seq(Call) /\ Len(uses) = n /\ \A k \in 1 .. n : uses[k] = UseVar(Reverse(preds[b])[k])
  <2>1. \A k \in 1 .. n : uses[k] = UseVar(Reverse(preds[b])[k])
    OBVIOUS
  <2> HIDE DEF uses, n
  <2>2. QED
    BY <1>1, <1>3, <2>1
<1>5. FinishPredecessorsLookup(s, b) \in Call
  BY DEF FinishPredecessorsLookup, Call
<1>6. PICK one : one = <<FinishPredecessorsLookup(s, b)>>
  OBVIOUS
<1>7. one \in Seq(Call) /\ Len(one) = 1 /\ one[1] = FinishPredecessorsLookup(s, b)
  BY <1>5, <1>6
<1>8. begin = one \o uses
  BY <1>6 DEF begin_predecessors_lookup
<1> HIDE DEF begin, uses, n
<1>8a. /\ begin \in Seq(Call) /\ Len(begin) = Len(one) + Len(uses)
       /\ \A k \in 1 .. Len(one) + Len(uses) : begin[k] = IF k <= Len(one) THEN one[k] ELSE uses[k - Len(one)]
  BY <1>4, <1>7, <1>8, ConcatProperties
<1>9. begin \in Seq(Call) /\ Len(begin) = n + 1 /\ begin[1] = FinishPredecessorsLookup(s, b)
  BY <1>1, <1>4, <1>7, <1>8a
<1>10. ASSUME NEW k \in 2 .. n + 1 PROVE \E p \in ToSet(preds[b]) : begin[k] = UseVar(p)
  <2>1. begin[k] = uses[k - 1] /\ k - 1 \in 1 .. n
    BY <1>1, <1>4, <1>7, <1>8a
  <2>2. QED
    BY <1>2, <1>4, <2>1
<1>11. QED
  BY <1>9, <1>10 DEF begin, n

-----------------------------------------------------------------------------
(* What a step leaves as it was.                                           *)

\* A definition has one of four forms.
LEMMA Forms ==
  ASSUME Values, NEW x \in Value
  PROVE  /\ vals[x].ty \in {"invalid", "inst", "alias", "phi"}
         /\ vals[x].ty = "invalid" => vals[x] = Invalid
         /\ vals[x].ty = "inst" => vals[x] = Inst
         /\ vals[x].ty = "alias" => vals[x] = Alias(vals[x].to)
         /\ vals[x].ty = "phi" =>
              \E D \in SUBSET Nat : vals[x] \in [ty : {"phi"}, block : Nat, args : [D -> Nat]]
<1>1. vals[x] \in Definition
  BY DEF Values, Value
<1>2. CASE vals[x] = Invalid
  BY <1>2 DEF Invalid
<1>3. CASE vals[x] = Inst
  BY <1>3 DEF Inst
<1>4. CASE vals[x] \in [ty : {"alias"}, to : Nat]
  BY <1>4 DEF Alias
<1>5. CASE \E D \in SUBSET Nat : vals[x] \in [ty : {"phi"}, block : Nat, args : [D -> Nat]]
  BY <1>5
<1>6. QED
  BY <1>1, <1>2, <1>3, <1>4, <1>5 DEF Definition

\* The same values are in the same order.
LEMMA ValuesKept ==
  ASSUME Values, AliasOrder, vals' = vals
  PROVE  Values' /\ AliasOrder'
<1>1. Value' = Value
  BY DEF Value
<1>2. AliasValues' = AliasValues
  BY <1>1 DEF AliasValues
<1>3. Values'
  BY <1>1 DEF Values
<1>4. PICK made \in [AliasValues -> Nat] : InOrder(made)
  BY DEF AliasOrder
<1>5. InOrder(made)'
  BY <1>2, <1>4 DEF InOrder
<1>6. QED
  BY <1>2, <1>3, <1>4, <1>5 DEF AliasOrder

\* A new value, and what it does to the others.
Appended(d) ==
  /\ Len(vals) \in Nat \ {0} /\ Len(vals') = Len(vals) + 1
  /\ Value' = Value \cup {Len(vals) + 1} /\ Len(vals) + 1 \notin Value
  /\ \A x \in Value : vals'[x] = vals[x]
  /\ vals'[Len(vals) + 1] = d

\* make_inst_results and make_invalid_value allocate the next value and leave the
\* others, and their aliases, as they are.
LEMMA ValueAppended ==
  ASSUME Values, AliasOrder, NEW d \in {Inst, Invalid}, vals' = Append(vals, d)
  PROVE  Appended(d) /\ Values' /\ AliasOrder'
<1>1. vals \in Seq(Definition) /\ d \in Definition /\ Len(vals) \in Nat \ {0}
  BY DEF Values, Definition, Value, GRAVESTONE
<1>2. /\ vals' \in Seq(Definition) /\ Len(vals') = Len(vals) + 1
      /\ \A x \in 1 .. Len(vals) : vals'[x] = vals[x]
      /\ vals'[Len(vals) + 1] = d
  BY <1>1, AppendProperties
<1>3. Value' = 1 .. Len(vals') /\ Value = 1 .. Len(vals)
  BY DEF Value
<1>4. Appended(d)
  BY <1>1, <1>2, <1>3 DEF Appended
<1>5. d.ty # "alias"
  BY DEF Inst, Invalid
<1>6. Values'
  <2>1. \A x \in Value' : vals'[x].ty = "alias" => x \in Value /\ vals'[x] = vals[x]
    BY <1>4, <1>5 DEF Appended
  <2>2. GRAVESTONE \in Value' /\ vals'[GRAVESTONE] = Inst
    BY <1>4 DEF Appended, Values
  <2>3. \A x \in Value' : vals'[x].ty = "alias" => vals'[x].to \in Value'
    BY <1>4, <2>1 DEF Appended, Values
  <2>4. GRAVESTONE' = GRAVESTONE /\ Inst' = Inst
    BY DEF GRAVESTONE, Inst
  <2>5. QED
    BY <1>2, <2>2, <2>3, <2>4 DEF Values
<1>7. AliasValues' = AliasValues /\ \A x \in AliasValues : vals'[x] = vals[x]
  BY <1>4, <1>5 DEF Appended, AliasValues
<1>8. PICK made \in [AliasValues -> Nat] : InOrder(made)
  BY DEF AliasOrder
<1>9. InOrder(made)'
  BY <1>7, <1>8 DEF InOrder
<1>10. QED
  BY <1>4, <1>6, <1>7, <1>8, <1>9 DEF AliasOrder

\* Phis stay right as long as the edges into their blocks do.
LEMMA PhisKept ==
  ASSUME Graph, Phis, Value \subseteq Value', created' = created, phase' = phase, succs' = succs,
         \A x \in Value' : vals'[x].ty = "phi" => x \in Value /\ vals'[x] = vals[x],
         (sealed \cup {sealing.block}) \ {0} \subseteq sealed' \cup {sealing'.block}
  PROVE  Phis'
<1>1. Block' = Block
  BY DEF Block
<1> SUFFICES ASSUME NEW x \in Value', vals'[x].ty = "phi"
             PROVE  /\ vals'[x].block \in Block
                    /\ DOMAIN vals'[x].args = {p \in Block : vals'[x].block \in succs[p]}
                    /\ \A p \in DOMAIN vals'[x].args : vals'[x].args[p] \in Value'
                    /\ phase = "build" => vals'[x].block \in sealed' \cup {sealing'.block}
  BY <1>1 DEF Phis
<1>2. x \in Value /\ vals'[x] = vals[x] /\ vals[x].ty = "phi"
  OBVIOUS
<1>3. /\ vals[x].block \in Block
      /\ DOMAIN vals[x].args = {p \in Block : vals[x].block \in succs[p]}
      /\ \A p \in DOMAIN vals[x].args : vals[x].args[p] \in Value
      /\ phase = "build" => vals[x].block \in sealed \cup {sealing.block}
  BY <1>2 DEF Phis
<1>4. vals[x].block # 0
  BY <1>3 DEF Block, Graph
<1>5. QED
  BY <1>2, <1>3, <1>4

\* Without a call under way there is nothing to say of calls.
LEMMA NoCalls ==
  ASSUME calls' = <<>>
  PROVE  Frames' /\ Finishing' = {}
<1>1. Len(calls') = 0 /\ calls' \in Seq(Call)
  OBVIOUS
<1>2. Finishing' = {}
  BY <1>1 DEF Finishing
<1>3. QED
  BY <1>1, <1>2 DEF Frames

-----------------------------------------------------------------------------
(* The first state, and the operations of the builder.                     *)

\* FunctionBuilder::new: two blocks without edges, one value, nothing under way.
LEMMA InitInvariant ==
  ASSUME BuilderInit
  PROVE  IInv
<1> USE SSABuilderAssumption DEF BuilderInit, SSAInit
<1>1. vals = <<Inst>> /\ Len(vals) = 1 /\ vals[1] = Inst /\ Value = {1}
  BY DEF Value
<1>2. Graph
  <2>1. Block = 1 .. 2
    BY DEF Block
  <2>2. preds \in [1 .. NumBlocks -> Seq(Block)] /\ \A b \in 1 .. NumBlocks : Len(preds[b]) = 0
    OBVIOUS
  <2>3. created \in 2 .. NumBlocks /\ position \in Block /\ phase \in {"build", "run"}
    BY <2>1 DEF Entry
  <2>4. \A b \in 1 .. NumBlocks : \A i, j \in 1 .. Len(preds[b]) : i < j => preds[b][i] < preds[b][j]
    BY <2>2
  <2>5. succs \in [1 .. NumBlocks -> SUBSET Block] /\ sealed \subseteq Block
        /\ filled \subseteq touched /\ touched \subseteq Block
    BY <2>1
  <2>6. QED
    BY <2>2, <2>3, <2>4, <2>5 DEF Graph
<1>3. Edges
  <2>1. \A b \in 1 .. NumBlocks : preds[b] = <<>> /\ succs[b] = {}
    OBVIOUS
  <2>2. Block \subseteq 1 .. NumBlocks
    BY <1>2 DEF Graph, Block
  <2>3. ToSet(<<>>) = {}
    BY DEF ToSet
  <2>4. QED
    BY <2>1, <2>2, <2>3 DEF Edges
<1>4. Values
  <2>1. vals \in Seq(Definition)
    BY <1>1 DEF Definition
  <2>2. QED
    BY <1>1, <2>1 DEF Values, GRAVESTONE, Inst
<1>5. Phis
  BY <1>1 DEF Phis, Inst
<1>6. AliasOrder
  <2>1. AliasValues = {}
    BY <1>1 DEF AliasValues, Inst
  <2>2. PICK made : made = [x \in AliasValues |-> 0]
    OBVIOUS
  <2>3. made \in [AliasValues -> Nat] /\ InOrder(made)
    BY <2>1, <2>2 DEF InOrder
  <2>4. QED
    BY <2>3 DEF AliasOrder
<1>7. Tables
  <2>1. variables \in [Place -> [1 .. NumBlocks -> 0 .. Len(vals)]]
    BY <1>1 DEF None
  <2>2. code \in [1 .. NumBlocks -> Seq(Operation)] /\ \A b \in 1 .. NumBlocks : Len(code[b]) = 0
    OBVIOUS
  <2>3. \A b \in 1 .. NumBlocks : \A k \in 1 .. Len(code[b]) : code[b][k].val \in Value
    BY <2>2
  <2>4. pending = NoCaller
    OBVIOUS
  <2>5. QED
    BY <2>1, <2>2, <2>3, <2>4 DEF Tables
<1>8. Stages
  BY DEF Stages
<1>9. Frames /\ Stack /\ Finishing = {}
  <2>1. Len(calls) = 0 /\ calls \in Seq(Call) /\ results \in Seq(Value)
    OBVIOUS
  <2>2. Finishing = {}
    BY <2>1 DEF Finishing
  <2>3. QED
    BY <2>1, <2>2 DEF Frames, Stack
<1>10. /\ \A b \in 1 .. NumBlocks : Len(undef_phis[b]) = 0
       /\ Len(sealing.todo) = 0 /\ sealing \in [block : 0 .. NumBlocks, todo : Entries]
       /\ undef_phis \in [1 .. NumBlocks -> Entries]
  BY DEF NotSealing, None, Entries
<1>11. Waiting
  BY <1>10 DEF Waiting
<1>12. Apart
  BY <1>10 DEF Apart
<1>13. Awaited
  BY <1>1 DEF Awaited, Inst
<1>14. OperandsDefined
  BY DEF OperandsDefined
<1>15. QED
  BY <1>2, <1>3, <1>4, <1>5, <1>6, <1>7, <1>8, <1>9, <1>11, <1>12, <1>13, <1>14 DEF IInv

\* What holds between two calls of the API.
LEMMA WhenBuilding ==
  ASSUME IInv, Building
  PROVE  /\ phase = "build" /\ calls = <<>> /\ results = <<>> /\ pending = NoCaller
         /\ sealing = NotSealing /\ sealing.block = 0 /\ sealing.todo = <<>>
         /\ Finishing = {} /\ position \in Block /\ Block \subseteq 1 .. NumBlocks
<1>1. Len(calls) = 0
  BY DEF Building, Idle
<1>2. Finishing = {}
  BY <1>1 DEF Finishing
<1>3. position \in Block /\ Block \subseteq 1 .. NumBlocks
  BY SSABuilderAssumption DEF IInv, Graph, Block
<1>4. QED
  BY <1>2, <1>3 DEF Building, Idle, NotSealing, None

\* A step that only moves the builder about.
LEMMA SwitchInvariant ==
  ASSUME IInv, NEW b \in Block, switch_to_block(b)
  PROVE  IInv'
<1> USE DEF switch_to_block, ssaVars, cfgVars, machine
<1>1. Block' = Block /\ Value' = Value /\ Finishing' = Finishing
  BY DEF Block, Value, Finishing
<1>2. Graph' /\ Edges' /\ Phis' /\ Tables' /\ Stages'
  BY <1>1 DEF IInv, Graph, Edges, Phis, Tables, Stages
<1>3. Values' /\ AliasOrder'
  BY ValuesKept DEF IInv
<1>4. Frames'
  BY <1>1 DEF IInv, Frames
<1>5. Stack'
  BY <1>1 DEF IInv, Stack, Levels, Takes
<1>6. Waiting'
  BY <1>1 DEF IInv, Waiting, Requested
<1>7. Apart'
  BY <1>1 DEF IInv, Apart
<1>8. Awaited'
  BY <1>1 DEF IInv, Awaited, InPhis, InTodo, InCalls
<1>9. OperandsDefined'
  BY <1>1 DEF IInv, OperandsDefined
<1>10. QED
  BY <1>2, <1>3, <1>4, <1>5, <1>6, <1>7, <1>8, <1>9 DEF IInv

\* A step between two calls of the API that leaves the waiting variables alone.
LEMMA BuildStep ==
  ASSUME IInv, Building,
         phase' = "build", pending' = NoCaller,
         UNCHANGED <<calls, results, undef_phis, sealing, sealed>>,
         Value \subseteq Value', touched \subseteq touched',
         \A x \in Value : vals'[x] = vals[x],
         \A x \in Value' \ Value : vals'[x].ty # "invalid",
         \A v \in Place : \A b \in 1 .. NumBlocks : variables[v][b] # None => variables'[v][b] # None
  PROVE  Stages' /\ Frames' /\ Stack' /\ Waiting' /\ Apart' /\ Awaited' /\ OperandsDefined'
<1>1. /\ phase = "build" /\ calls = <<>> /\ results = <<>> /\ pending = NoCaller
      /\ sealing = NotSealing /\ sealing.block = 0 /\ sealing.todo = <<>>
      /\ Finishing = {}
  BY WhenBuilding
<1>2. Frames' /\ Finishing' = {}
  BY <1>1, NoCalls
<1>3. Stages' /\ OperandsDefined'
  BY <1>1 DEF Stages, OperandsDefined
<1>4. Stack'
  BY <1>1 DEF Stack
<1>5. Len(sealing.todo) = 0
  BY <1>1
<1>6. Waiting'
  BY <1>5 DEF IInv, Waiting, Requested
<1>7. Apart'
  BY <1>2, <1>5 DEF IInv, Apart
<1>8. Awaited'
  BY <1>1, <1>2 DEF IInv, Awaited, InPhis, InTodo, InCalls
<1>9. QED
  BY <1>2, <1>3, <1>4, <1>6, <1>7, <1>8

\* create_block
LEMMA CreateInvariant ==
  ASSUME IInv, CreateFirst
  PROVE  IInv'
<1> USE DEF CreateFirst, create_blocks, machine, builder, running
<1>1. Building /\ created' = created + 1 /\ created + 1 <= NumBlocks /\ touched = {}
  OBVIOUS
<1>2. phase = "build" /\ pending = NoCaller /\ position \in Block /\ Block \subseteq 1 .. NumBlocks
  BY <1>1, WhenBuilding
<1>3. created \in 2 .. NumBlocks /\ Block = 1 .. created /\ Block' = 1 .. created + 1
  BY <1>1 DEF IInv, Graph, Block
<1>4. Block \subseteq Block' /\ Value' = Value
  BY <1>3 DEF Value
<1>5. \A p \in 1 .. NumBlocks : succs[p] = {}
  BY <1>1, <1>2 DEF IInv, Graph, Edges
<1>6. Graph'
  <2>1. \A b \in 1 .. NumBlocks : preds[b] \in Seq(Block')
    BY <1>4, SeqMonotonic DEF IInv, Graph
  <2>2. preds' \in [1 .. NumBlocks -> Seq(Block')]
    BY <2>1 DEF IInv, Graph
  <2>3. succs' \in [1 .. NumBlocks -> SUBSET Block']
    BY <1>4 DEF IInv, Graph
  <2>4. created' \in 2 .. NumBlocks /\ position' \in Block'
    BY <1>1, <1>3, <1>4, SSABuilderAssumption DEF IInv, Graph
  <2>5. QED
    BY <1>4, <2>2, <2>3, <2>4 DEF IInv, Graph
<1>7. Edges'
  <2>1. Block' \subseteq 1 .. NumBlocks
    BY <1>1, <1>3, SSABuilderAssumption
  <2>2. \A b \in 1 .. NumBlocks : {p \in Block' : b \in succs[p]} = {} /\ {p \in Block : b \in succs[p]} = {}
    BY <1>2, <1>5, <2>1
  <2>3. \A b \in 1 .. NumBlocks : ToSet(preds[b]) = {}
    BY <1>2, <2>2 DEF IInv, Edges
  <2>4. QED
    BY <1>5, <2>2, <2>3 DEF Edges
<1>8. Values' /\ AliasOrder'
  BY ValuesKept DEF IInv
<1>9. Phis'
  <2>1. Value' = {1} /\ vals'[1] = Inst
    BY <1>4 DEF Value
  <2>2. QED
    BY <2>1 DEF Phis, Inst
<1>10. Tables'
  BY <1>4 DEF IInv, Tables
<1>11. Stages' /\ Frames' /\ Stack' /\ Waiting' /\ Apart' /\ Awaited' /\ OperandsDefined'
  BY <1>1, <1>2, <1>4, BuildStep
<1>12. QED
  BY <1>6, <1>7, <1>8, <1>9, <1>10, <1>11 DEF IInv

\* def_var, and the initialisation of a variable in the entry block: a new value, an
\* instruction at one end of a block.
LEMMA DefinitionInvariant ==
  ASSUME IInv, Building, NEW v \in Place, NEW b \in Block,
         vals' = Append(vals, Inst),
         variables' = [variables EXCEPT ![v][b] = Len(vals) + 1],
         code' = [code EXCEPT ![b] = Append(@, Write(v, Len(vals) + 1))]
           \/ code' = [code EXCEPT ![b] = <<Write(v, Len(vals) + 1)>> \o @],
         touched' \in {touched, touched \cup {b}},
         UNCHANGED <<cfgVars, undef_phis, machine, sealing, position, filled, succs, pending, phase>>
  PROVE  IInv'
<1> USE DEF cfgVars, machine
<1>1. phase = "build" /\ pending = NoCaller /\ position \in Block /\ b \in 1 .. NumBlocks /\ sealing.block = 0
  BY WhenBuilding
<1>2. Appended(Inst) /\ Values' /\ AliasOrder'
  BY ValueAppended DEF IInv
<1>3. Block' = Block
  BY DEF Block
<1>4. Graph' /\ Edges'
  BY <1>3 DEF IInv, Graph, Edges
<1>5. Value \subseteq Value' /\ \A x \in Value' \ Value : vals'[x] = Inst
  BY <1>2 DEF Appended
<1>5a. Inst.ty = "inst"
  BY DEF Inst
<1>6. Phis'
  <2>1. \A x \in Value' : vals'[x].ty = "phi" => x \in Value /\ vals'[x] = vals[x]
    BY <1>2, <1>5, <1>5a DEF Appended
  <2>2. QED
    BY <1>5, <2>1, PhisKept DEF IInv
<1>7. Tables'
  <2>1. variables' \in [Place -> [1 .. NumBlocks -> 0 .. Len(vals')]]
    <3>1. Len(vals) + 1 \in 0 .. Len(vals') /\ 0 .. Len(vals) \subseteq 0 .. Len(vals')
      BY <1>2 DEF Appended
    <3>2. QED
      BY <1>1, <3>1 DEF IInv, Tables
  <2> DEFINE w == Write(v, Len(vals) + 1)
  <2>2. w \in Operation /\ w.val \in Value'
    BY <1>2 DEF Appended, Write, Operation
  <2> HIDE DEF w
  <2>3. code[b] \in Seq(Operation) /\ \A k \in 1 .. Len(code[b]) : code[b][k].val \in Value
    BY <1>1 DEF IInv, Tables
  <2>4. PICK s : code' = [code EXCEPT ![b] = s] /\ (s = Append(code[b], w) \/ s = <<w>> \o code[b])
    BY <1>1 DEF IInv, Tables, w
  <2>5. s \in Seq(Operation) /\ \A k \in 1 .. Len(s) : s[k].val \in Value'
    <3>1. CASE s = Append(code[b], w)
      <4>1. /\ s \in Seq(Operation) /\ Len(s) = Len(code[b]) + 1 /\ s[Len(code[b]) + 1] = w
            /\ \A k \in 1 .. Len(code[b]) : s[k] = code[b][k]
        BY <2>2, <2>3, <3>1, AppendProperties
      <4>2. QED
        BY <1>5, <2>2, <2>3, <4>1
    <3>2. CASE s = <<w>> \o code[b]
      <4>1. PICK one : one = <<w>>
        OBVIOUS
      <4>2. one \in Seq(Operation) /\ Len(one) = 1 /\ one[1] = w
        BY <2>2, <4>1
      <4>3. /\ s \in Seq(Operation) /\ Len(s) = 1 + Len(code[b])
            /\ \A k \in 1 .. 1 + Len(code[b]) : s[k] = IF k <= 1 THEN one[k] ELSE code[b][k - 1]
        BY <2>3, <3>2, <4>1, <4>2, ConcatProperties
      <4>4. ASSUME NEW k \in 1 .. Len(s) PROVE s[k].val \in Value'
        <5>1. CASE k = 1
          BY <2>2, <2>3, <4>2, <4>3, <5>1
        <5>2. CASE k # 1
          <6>1. k - 1 \in 1 .. Len(code[b]) /\ s[k] = code[b][k - 1]
            BY <2>3, <4>3, <5>2
          <6>2. QED
            BY <1>5, <2>3, <6>1
        <5>3. QED
          BY <5>1, <5>2
      <4>5. QED
        BY <4>3, <4>4
    <3>3. QED
      BY <2>4, <3>1, <3>2
  <2>6. \A c \in 1 .. NumBlocks : code'[c] = IF c = b THEN s ELSE code[c]
    BY <1>1, <2>4 DEF IInv, Tables
  <2>7. code' \in [1 .. NumBlocks -> Seq(Operation)]
    BY <2>4, <2>5 DEF IInv, Tables
  <2>8. \A c \in 1 .. NumBlocks : \A k \in 1 .. Len(code'[c]) : code'[c][k].val \in Value'
    BY <1>5, <2>5, <2>6 DEF IInv, Tables
  <2>9. QED
    BY <1>1, <2>1, <2>7, <2>8 DEF Tables
<1>8. Stages' /\ Frames' /\ Stack' /\ Waiting' /\ Apart' /\ Awaited' /\ OperandsDefined'
  <2>1. \A x \in Value : vals'[x] = vals[x]
    BY <1>2 DEF Appended
  <2>2. \A x \in Value' \ Value : vals'[x].ty # "invalid"
    BY <1>5, <1>5a
  <2>3. \A w \in Place : \A c \in 1 .. NumBlocks : variables[w][c] # None => variables'[w][c] # None
    <3>1. Len(vals) + 1 # 0
      BY <1>2 DEF Appended
    <3>2. QED
      BY <3>1 DEF IInv, Tables, None
  <2>4. touched \subseteq touched'
    OBVIOUS
  <2>5. QED
    BY <1>1, <1>5, <2>1, <2>2, <2>3, <2>4, BuildStep
<1>9. QED
  BY <1>2, <1>4, <1>6, <1>7, <1>8 DEF IInv

\* The builder's definitions of variables, and the reads' results.
LEMMA DefVarInvariant ==
  ASSUME IInv, NEW v \in Place, def_var(v) \/ def_var_at_entry(v)
  PROVE  IInv'
<1>1. CASE def_var(v)
  <2>1. Building /\ position \in Block
    BY <1>1, WhenBuilding DEF def_var
  <2>2. QED
    BY <1>1, <2>1, DefinitionInvariant DEF def_var
<1>2. CASE def_var_at_entry(v)
  <2>1. Building /\ Entry \in Block
    BY <1>2, SSABuilderAssumption DEF def_var_at_entry, IInv, Graph, Block, Entry
  <2>2. QED
    BY <1>2, <2>1, DefinitionInvariant DEF def_var_at_entry
<1>3. QED
  BY <1>1, <1>2

\* A jump adds edges to blocks that are not sealed, from a block that had none.
LEMMA TerminateInvariant ==
  ASSUME IInv, Terminate
  PROVE  IInv'
<1>1. PICK dests \in SUBSET Block : MayJump(dests) /\ insert_terminator(dests)
  BY DEF Terminate
<1>2. /\ Building /\ position \notin filled /\ dests \cap sealed = {}
      /\ succs' = [succs EXCEPT ![position] = dests]
      /\ preds' = [b \in 1 .. NumBlocks |->
                     IF b \in dests THEN add_predecessor(preds[b], position) ELSE preds[b]]
      /\ filled' = filled \cup {position} /\ touched' = touched \cup {position}
      /\ UNCHANGED <<created, sealed, undef_phis, variables, vals, calls, results, var, sealing,
                     position, code, pending, phase>>
  BY <1>1 DEF MayJump, insert_terminator, machine
<1>3. /\ phase = "build" /\ pending = NoCaller /\ sealing.block = 0
      /\ position \in Block /\ Block \subseteq 1 .. NumBlocks
  BY <1>2, WhenBuilding
<1>4. Block' = Block /\ Value' = Value
  BY <1>2 DEF Block, Value
<1>5. succs[position] = {} /\ Block \in SUBSET Nat
  BY <1>2, <1>3 DEF IInv, Edges, Block
<1>6. \A b \in 1 .. NumBlocks :
        /\ preds[b] \in Seq(Block) /\ position \notin ToSet(preds[b])
        /\ \A i, j \in 1 .. Len(preds[b]) : i < j => preds[b][i] < preds[b][j]
  BY <1>3, <1>5 DEF IInv, Graph, Edges
<1>7. ASSUME NEW b \in 1 .. NumBlocks
      PROVE  /\ preds'[b] \in Seq(Block)
             /\ ToSet(preds'[b]) = IF b \in dests THEN ToSet(preds[b]) \cup {position} ELSE ToSet(preds[b])
             /\ \A i, j \in 1 .. Len(preds'[b]) : i < j => preds'[b][i] < preds'[b][j]
  <2>1. CASE b \in dests
    <3>1. preds'[b] = add_predecessor(preds[b], position)
      BY <1>2, <2>1
    <3>2. QED
      BY <1>3, <1>5, <1>6, <2>1, <3>1, AddPredecessor, SMTT(30)
  <2>2. CASE b \notin dests
    BY <1>2, <1>6, <2>2
  <2>3. QED
    BY <2>1, <2>2
<1>8. preds' \in [1 .. NumBlocks -> Seq(Block)]
  <2>1. DOMAIN preds' = 1 .. NumBlocks /\ preds' = [b \in 1 .. NumBlocks |-> preds'[b]]
    BY <1>2
  <2>2. QED
    BY <1>7, <2>1
<1>9. Graph'
  <2>1. succs' \in [1 .. NumBlocks -> SUBSET Block]
    BY <1>2, <1>3 DEF IInv, Graph
  <2>2. created' \in 2 .. NumBlocks /\ position' \in Block /\ phase' \in {"build", "run"}
        /\ sealed' \subseteq Block /\ filled' \subseteq touched' /\ touched' \subseteq Block
    BY <1>2, <1>3 DEF IInv, Graph
  <2>3. QED
    BY <1>4, <1>7, <1>8, <2>1, <2>2 DEF Graph
<1>10. Edges'
  <2>1. \A p \in 1 .. NumBlocks : succs'[p] = IF p = position THEN dests ELSE succs[p]
    BY <1>2, <1>3 DEF IInv, Graph
  <2>2. \A b \in 1 .. NumBlocks : ToSet(preds[b]) = {p \in Block : b \in succs[p]}
    BY <1>3 DEF IInv, Edges
  <2>3. ASSUME NEW b \in 1 .. NumBlocks PROVE ToSet(preds'[b]) = {p \in Block : b \in succs'[p]}
    <3>1. ToSet(preds[b]) = {p \in Block : b \in succs[p]}
      BY <2>2
    <3>2. \A p \in Block : succs'[p] = IF p = position THEN dests ELSE succs[p]
      BY <1>3, <2>1
    <3>3. CASE b \in dests
      <4>1. ToSet(preds'[b]) = ToSet(preds[b]) \cup {position}
        BY <1>7, <3>3
      <4>2. \A p \in Block : b \in succs'[p] <=> p = position \/ b \in succs[p]
        BY <1>5, <3>2, <3>3
      <4>3. QED
        BY <1>3, <3>1, <4>1, <4>2
    <3>4. CASE b \notin dests
      <4>1. ToSet(preds'[b]) = ToSet(preds[b])
        BY <1>7, <3>4
      <4>2. \A p \in Block : b \in succs'[p] <=> b \in succs[p]
        BY <1>5, <3>2, <3>4
      <4>3. QED
        BY <3>1, <4>1, <4>2
    <3>5. QED
      BY <3>3, <3>4
  <2>4. \A p \in 1 .. NumBlocks : succs'[p] # {} => p \in filled'
    BY <1>2, <1>3, <2>1 DEF IInv, Edges
  <2>5. QED
    BY <1>4, <2>3, <2>4 DEF Edges
<1>11. Values' /\ AliasOrder'
  BY <1>2, ValuesKept DEF IInv
<1>12. Phis'
  <2> SUFFICES ASSUME NEW x \in Value, vals[x].ty = "phi"
               PROVE  /\ vals[x].block \in Block
                      /\ DOMAIN vals[x].args = {p \in Block : vals[x].block \in succs'[p]}
                      /\ \A p \in DOMAIN vals[x].args : vals[x].args[p] \in Value
                      /\ vals[x].block \in sealed \cup {sealing.block}
    BY <1>2, <1>4 DEF Phis
  <2>1. /\ vals[x].block \in Block
        /\ DOMAIN vals[x].args = {p \in Block : vals[x].block \in succs[p]}
        /\ \A p \in DOMAIN vals[x].args : vals[x].args[p] \in Value
        /\ vals[x].block \in sealed \cup {sealing.block}
    BY <1>3 DEF IInv, Phis
  <2>2. vals[x].block \notin dests
    BY <1>2, <1>3, <2>1 DEF Block
  <2>3. \A p \in Block : vals[x].block \in succs'[p] <=> vals[x].block \in succs[p]
    BY <1>2, <1>3, <1>5, <2>2 DEF IInv, Graph
  <2>4. QED
    BY <2>1, <2>3
<1>13. Tables'
  BY <1>2, <1>4 DEF IInv, Tables
<1>14. Stages' /\ Frames' /\ Stack' /\ Waiting' /\ Apart' /\ Awaited' /\ OperandsDefined'
  BY <1>2, <1>3, <1>4, BuildStep
<1>15. QED
  BY <1>9, <1>10, <1>11, <1>12, <1>13, <1>14 DEF IInv

\* The sealing of a block starts: who waited for its predecessors is now to be served.
LEMMA SealInvariant ==
  ASSUME IInv, SealAny
  PROVE  IInv'
<1>1. PICK b \in Block : b \notin sealed /\ Seal(b)
  BY DEF SealAny, MaySeal
<1>2. /\ Building /\ sealing' = [block |-> b, todo |-> undef_phis[b]]
      /\ undef_phis' = [undef_phis EXCEPT ![b] = <<>>]
      /\ UNCHANGED <<created, preds, sealed, variables, vals, calls, results, var,
                     position, filled, touched, code, succs, pending, phase>>
  BY <1>1 DEF Seal, seal_block, cfgVars, machine, builder
<1>3. /\ phase = "build" /\ pending = NoCaller /\ sealing.block = 0 /\ sealing.todo = <<>>
      /\ calls = <<>> /\ results = <<>> /\ Block \subseteq 1 .. NumBlocks
  BY <1>2, WhenBuilding
<1>4. Block' = Block /\ Value' = Value /\ b \in 1 .. NumBlocks
  BY <1>2, <1>3 DEF Block, Value
<1>5. Graph' /\ Edges' /\ Tables'
  BY <1>2, <1>4 DEF IInv, Graph, Edges, Tables
<1>6. Values' /\ AliasOrder'
  BY <1>2, ValuesKept DEF IInv
<1>7. Phis'
  BY <1>2, <1>3, <1>4, PhisKept DEF IInv
<1>8. Frames' /\ Finishing' = {} /\ Stack' /\ OperandsDefined'
  BY <1>2, <1>3, NoCalls DEF Stack, OperandsDefined
<1>9. /\ undef_phis \in [1 .. NumBlocks -> Entries] /\ undef_phis[b] \in Entries
      /\ Len(sealing.todo) = 0
      /\ sealing'.block = b /\ sealing'.todo = undef_phis[b]
  BY <1>2, <1>3, <1>4 DEF IInv, Waiting
<1>10. \A c \in 1 .. NumBlocks : undef_phis'[c] = IF c = b THEN <<>> ELSE undef_phis[c]
  BY <1>2, <1>4, <1>9
<1>11. undef_phis' \in [1 .. NumBlocks -> Entries] /\ Len(undef_phis'[b]) = 0
  BY <1>2, <1>4, <1>9, <1>10 DEF Entries
<1>12. Stages'
  BY <1>1, <1>2, <1>3, <1>4, <1>9, <1>10 DEF Stages, NotSealing, None
<1>13. Waiting'
  <2>1. sealing' \in [block : 0 .. NumBlocks, todo : Entries]
    BY <1>2, <1>4, <1>9
  <2>2. \A c \in 1 .. NumBlocks : \A k \in 1 .. Len(undef_phis'[c]) :
          c # b /\ k \in 1 .. Len(undef_phis[c]) /\ undef_phis'[c][k] = undef_phis[c][k]
    BY <1>10, <1>11
  <2>3. \A c \in 1 .. NumBlocks : \A k \in 1 .. Len(undef_phis'[c]) :
          /\ undef_phis'[c][k][1] \in Place /\ variables'[undef_phis'[c][k][1]][c] # None
          /\ undef_phis'[c][k][2] \in Value' /\ vals'[undef_phis'[c][k][2]].ty = "invalid"
          /\ c \in touched' \ sealed'
    BY <1>2, <1>4, <2>2 DEF IInv, Waiting, Requested
  <2>4. \A k \in 1 .. Len(sealing'.todo) :
          /\ sealing'.todo[k][1] \in Place /\ variables'[sealing'.todo[k][1]][sealing'.block] # None
          /\ sealing'.todo[k][2] \in Value' /\ vals'[sealing'.todo[k][2]].ty = "invalid"
    BY <1>2, <1>4, <1>9 DEF IInv, Waiting, Requested
  <2>5. QED
    BY <1>11, <2>1, <2>3, <2>4 DEF Waiting, Requested
<1>14. Apart'
  <2>1. \A c \in 1 .. NumBlocks : \A k \in 1 .. Len(undef_phis'[c]) :
          c # b /\ k \in 1 .. Len(undef_phis[c]) /\ undef_phis'[c][k] = undef_phis[c][k]
    BY <1>10, <1>11
  <2>2. \A c, d \in 1 .. NumBlocks : \A k \in 1 .. Len(undef_phis[c]), l \in 1 .. Len(undef_phis[d]) :
          undef_phis[c][k][2] = undef_phis[d][l][2] => c = d /\ k = l
    BY DEF IInv, Apart
  <2>3. \A c, d \in 1 .. NumBlocks : \A k \in 1 .. Len(undef_phis'[c]), l \in 1 .. Len(undef_phis'[d]) :
          undef_phis'[c][k][2] = undef_phis'[d][l][2] => c = d /\ k = l
    <3> SUFFICES ASSUME NEW c \in 1 .. NumBlocks, NEW d \in 1 .. NumBlocks,
                        NEW k \in 1 .. Len(undef_phis'[c]), NEW l \in 1 .. Len(undef_phis'[d]),
                        undef_phis'[c][k][2] = undef_phis'[d][l][2]
                 PROVE  c = d /\ k = l
      OBVIOUS
    <3>1. k \in 1 .. Len(undef_phis[c]) /\ undef_phis'[c][k] = undef_phis[c][k]
      BY <2>1
    <3>2. l \in 1 .. Len(undef_phis[d]) /\ undef_phis'[d][l] = undef_phis[d][l]
      BY <2>1
    <3>3. QED
      BY <2>2, <3>1, <3>2
  <2>4. \A k, l \in 1 .. Len(undef_phis[b]) : undef_phis[b][k][2] = undef_phis[b][l][2] => k = l
    BY <1>4, <2>2
  <2>5. \A c \in 1 .. NumBlocks : \A k \in 1 .. Len(undef_phis'[c]) : \A l \in 1 .. Len(undef_phis[b]) :
          undef_phis'[c][k][2] # undef_phis[b][l][2]
    BY <1>4, <2>1, <2>2, SMTT(30)
  <2>6. QED
    BY <1>8, <1>9, <2>3, <2>4, <2>5 DEF Apart
<1>15. Awaited'
  <2> SUFFICES ASSUME NEW x \in Value, vals[x].ty = "invalid" PROVE InPhis(x)' \/ InTodo(x)'
    BY <1>2, <1>4 DEF Awaited
  <2>1. Finishing = {} /\ (InPhis(x) \/ InTodo(x) \/ InCalls(x))
    BY <1>2, WhenBuilding DEF IInv, Awaited
  <2>2. PICK c \in 1 .. NumBlocks : \E k \in 1 .. Len(undef_phis[c]) : undef_phis[c][k][2] = x
    BY <1>9, <2>1 DEF InPhis, InTodo, InCalls
  <2>3. CASE c = b
    BY <1>9, <2>2, <2>3 DEF InTodo
  <2>4. CASE c # b
    BY <1>10, <2>2, <2>4 DEF InPhis
  <2>5. QED
    BY <2>3, <2>4
<1>16. QED
  BY <1>5, <1>6, <1>7, <1>8, <1>12, <1>13, <1>14, <1>15 DEF IInv

\* The caller of use_var takes the result.
LEMMA TakeInvariant ==
  ASSUME IInv, TakeResult
  PROVE  IInv'
<1>1. /\ pending # NoCaller /\ calls = <<>> /\ Len(results) = 1
      /\ code' = [code EXCEPT ![position] = Append(@, [pending EXCEPT !.val = results[1]])]
      /\ variables' = IF pending.op = "copy"
                      THEN [variables EXCEPT ![pending.place][position] = results[1]] ELSE variables
      /\ results' = <<>> /\ pending' = NoCaller
      /\ UNCHANGED <<created, preds, sealed, undef_phis, vals, calls, sealing, position, filled,
                     touched, succs, phase>>
  BY DEF TakeResult, Returned, cfgVars
<1>2. /\ phase = "build" /\ sealing = NotSealing /\ sealing.block = 0 /\ sealing.todo = <<>>
      /\ Block \subseteq 1 .. NumBlocks /\ position \in Block /\ position \in 1 .. NumBlocks
  BY <1>1, SSABuilderAssumption DEF IInv, Stages, NotSealing, None, Graph, Block
<1>3. Block' = Block /\ Value' = Value
  BY <1>1 DEF Block, Value
<1>4. results[1] \in Value /\ results[1] \in 1 .. Len(vals)
  BY <1>1 DEF IInv, Stack, Value
<1>5. Graph' /\ Edges'
  BY <1>1, <1>3 DEF IInv, Graph, Edges
<1>6. Values' /\ AliasOrder'
  BY <1>1, ValuesKept DEF IInv
<1>7. Phis'
  BY <1>1, <1>3, PhisKept DEF IInv
<1>8. variables' \in [Place -> [1 .. NumBlocks -> 0 .. Len(vals)]]
      /\ \A v \in Place : \A b \in 1 .. NumBlocks : variables[v][b] # None => variables'[v][b] # None
  <2>1. variables \in [Place -> [1 .. NumBlocks -> 0 .. Len(vals)]]
    BY DEF IInv, Tables
  <2>2. results[1] \in 0 .. Len(vals) /\ results[1] # 0
    BY <1>4
  <2>3. QED
    BY <1>1, <1>2, <2>1, <2>2 DEF None
<1>9. Tables'
  <2>1. pending \in Operation
    BY <1>1 DEF IInv, Tables
  <2>2. PICK w : w = [pending EXCEPT !.val = results[1]]
    OBVIOUS
  <2>3. w \in Operation /\ w.val \in Value
    <3>1. results[1] \in Nat
      BY <1>4
    <3>2. CASE pending \in [op : {"write", "read"}, place : Place, val : Nat]
      BY <1>4, <2>2, <3>1, <3>2 DEF Operation
    <3>3. CASE pending \in [op : {"copy"}, place : Place, from : Place, val : Nat]
      BY <1>4, <2>2, <3>1, <3>3 DEF Operation
    <3>4. QED
      BY <2>1, <3>2, <3>3 DEF Operation
  <2>4. code[position] \in Seq(Operation) /\ \A k \in 1 .. Len(code[position]) : code[position][k].val \in Value
    BY <1>2 DEF IInv, Tables
  <2>5. PICK s : s = Append(code[position], w)
    OBVIOUS
  <2>6. s \in Seq(Operation) /\ \A k \in 1 .. Len(s) : s[k].val \in Value
    <3>1. /\ s \in Seq(Operation) /\ Len(s) = Len(code[position]) + 1 /\ s[Len(code[position]) + 1] = w
          /\ \A k \in 1 .. Len(code[position]) : s[k] = code[position][k]
      BY <2>3, <2>4, <2>5, AppendProperties
    <3>2. QED
      BY <2>3, <2>4, <3>1
  <2>7. code' = [code EXCEPT ![position] = s]
    BY <1>1, <1>2, <2>2, <2>5 DEF IInv, Tables
  <2>8. code' \in [1 .. NumBlocks -> Seq(Operation)]
    BY <2>6, <2>7 DEF IInv, Tables
  <2>9. \A b \in 1 .. NumBlocks : \A k \in 1 .. Len(code'[b]) : code'[b][k].val \in Value
    BY <1>2, <2>6, <2>7 DEF IInv, Tables
  <2>10. QED
    BY <1>1, <1>3, <1>8, <2>8, <2>9 DEF Tables
<1>10. Stages' /\ OperandsDefined'
  BY <1>1, <1>2 DEF Stages, OperandsDefined
<1>11. Frames' /\ Stack' /\ Finishing' = {} /\ Finishing = {}
  <2>1. Len(calls) = 0
    BY <1>1
  <2>2. QED
    BY <1>1, <2>1, NoCalls DEF Stack, Finishing
<1>12. Waiting'
  <2>1. Len(sealing.todo) = 0
    BY <1>2
  <2>2. QED
    BY <1>1, <1>3, <1>8, <2>1 DEF IInv, Waiting, Requested
<1>13. Apart' /\ Awaited'
  BY <1>1, <1>3, <1>11 DEF IInv, Apart, Awaited, InPhis, InTodo, InCalls
<1>14. QED
  BY <1>5, <1>6, <1>7, <1>9, <1>10, <1>11, <1>12, <1>13 DEF IInv

-----------------------------------------------------------------------------
(* The stacks of the machine.                                              *)

FinishesIn(cs) == {i \in 1 .. Len(cs) : cs[i].call = "finish"}

\* The calls cs with the results rs, when the one result is still missing that the
\* last of cs waits for.
Resting(level, cs, rs) ==
  /\ level[0] = 1 /\ level[Len(cs)] = Len(rs) + 1
  /\ \A k \in 1 .. Len(cs) : level[k - 1] >= 1 /\ level[k] = (level[k - 1] + Takes(cs[k])) - 1
  /\ \A i \in FinishesIn(cs) : /\ \A j \in i .. Len(cs) : level[j] >= level[i - 1]
                               /\ \A k \in 1 .. level[i - 1] - 1 : rs[k] # cs[i].sentinel

\* What stays on the stacks when a call of a lookup of v is taken off.
Below(cs, rs, v) ==
  /\ cs \in Seq(Call) /\ rs \in Seq(Value)
  /\ \A k \in 1 .. Len(cs) : cs[k].block \in Block /\ (cs[k].call = "use" => cs[k].block \in touched)
  /\ \A i \in FinishesIn(cs) : /\ cs[i].block \in sealed \cup {sealing.block}
                               /\ variables[v][cs[i].block] # None
                               /\ cs[i].sentinel \in Value /\ vals[cs[i].sentinel].ty = "invalid"
  /\ \A i, j \in FinishesIn(cs) : cs[i].block = cs[j].block \/ cs[i].sentinel = cs[j].sentinel => i = j
  /\ \E level \in [0 .. Len(cs) -> Nat] : Resting(level, cs, rs)
  /\ \A k \in 1 .. Len(rs) : vals[rs[k]].ty # "alias"

\* The stacks are empty when a lookup starts.
LEMMA BelowNothing ==
  ASSUME NEW v
  PROVE  Below(<<>>, <<>>, v)
<1>1. Len(<<>>) = 0 /\ <<>> \in Seq(Call) /\ <<>> \in Seq(Value) /\ FinishesIn(<<>>) = {}
  BY DEF FinishesIn
<1>2. PICK level : level = [k \in 0 .. 0 |-> 1]
  OBVIOUS
<1>3. level \in [0 .. Len(<<>>) -> Nat] /\ Resting(level, <<>>, <<>>)
  BY <1>1, <1>2 DEF Resting
<1>4. QED
  BY <1>1, <1>3 DEF Below

\* Takes, for the two calls that there are.
LEMMA TakesIs ==
  ASSUME Graph, NEW c \in Call, c.block \in Block
  PROVE  /\ c.call \in {"use", "finish"}
         /\ c.call = "use" => Takes(c) = 0
         /\ c.call = "finish" => /\ Takes(c) = Len(preds[c.block])
                                 /\ c \in [call : {"finish"}, block : Nat, sentinel : Nat]
         /\ Takes(c) \in Nat
<1>1. c.call \in {"use", "finish"}
  BY DEF Call
<1>2. c.call = "use" => Takes(c) = 0
  BY DEF Takes
<1>3. c.call = "finish" => Takes(c) = Len(preds[c.block])
  BY DEF Takes
<1>4. Len(preds[c.block]) \in Nat
  <2>1. c.block \in 1 .. NumBlocks
    BY SSABuilderAssumption DEF Graph, Block
  <2>2. preds[c.block] \in Seq(Block)
    BY <2>1 DEF Graph
  <2>3. QED
    BY <2>2
<1>5. c.call = "finish" => c \in [call : {"finish"}, block : Nat, sentinel : Nat]
  BY DEF Call
<1>6. QED
  BY <1>1, <1>2, <1>3, <1>4, <1>5

\* The call on top has its results on top.
LEMMA BelowTop ==
  ASSUME IInv, calls # <<>>
  PROVE  /\ Len(calls) \in Nat \ {0} /\ Front(calls) \in Seq(Call) /\ Len(Front(calls)) = Len(calls) - 1
         /\ \A k \in 1 .. Len(calls) - 1 : Front(calls)[k] = calls[k]
         /\ Top = calls[Len(calls)] /\ Top \in Call /\ Top.block \in Block
         /\ Takes(Top) \in Nat /\ Takes(Top) <= Len(results)
         /\ Below(Front(calls), SubSeq(results, 1, Len(results) - Takes(Top)), var)
         /\ Top.call = "finish" =>
              \A k \in 1 .. Len(results) - Takes(Top) : results[k] # Top.sentinel
<1> DEFINE n == Len(calls)
           cs == Front(calls)
<1>1. calls \in Seq(Call) /\ n \in Nat \ {0}
  BY DEF IInv, Frames
<1>2. cs \in Seq(Call) /\ Len(cs) = n - 1 /\ \A k \in 1 .. n - 1 : cs[k] = calls[k]
  <2>1. \A k \in 1 .. n - 1 : calls[k] \in Call
    BY <1>1
  <2>2. cs = SubSeq(calls, 1, n - 1) /\ 1 \in Int /\ n - 1 \in Int
    BY <1>1 DEF Front
  <2> HIDE DEF cs, n
  <2>3. /\ cs \in Seq(Call) /\ Len(cs) = IF 1 <= n - 1 THEN ((n - 1) - 1) + 1 ELSE 0
        /\ \A k \in 1 .. ((n - 1) - 1) + 1 : cs[k] = calls[(1 + k) - 1]
    BY <2>1, <2>2, SubSeqProperties
  <2>4. QED
    BY <1>1, <2>3
<1>3. Top = calls[n] /\ Top \in Call /\ Top.block \in Block
  <2>1. n \in 1 .. Len(calls)
    BY <1>1
  <2>2. Top = calls[n]
    BY DEF Top, Last
  <2>3. QED
    BY <1>1, <2>1, <2>2 DEF IInv, Frames
<1>4. Takes(Top) \in Nat
  BY <1>3, TakesIs DEF IInv
<1>5. results \in Seq(Value) /\ Len(results) \in Nat
  BY DEF IInv, Stack
<1>6. PICK level \in [0 .. n -> Nat] : Levels(level)
  BY DEF IInv, Stack
<1>7. n \in 1 .. n /\ n - 1 \in 0 .. n /\ n \in 0 .. n
  BY <1>1
<1>8. level[n - 1] \in Nat /\ level[n - 1] >= 1 /\ Len(results) = (level[n - 1] + Takes(Top)) - 1
  BY <1>3, <1>6, <1>7 DEF Levels
<1>9. Takes(Top) <= Len(results) /\ Len(results) - Takes(Top) = level[n - 1] - 1
      /\ Len(results) - Takes(Top) \in Nat
  BY <1>4, <1>5, <1>8
<1>10. PICK rs : rs = SubSeq(results, 1, Len(results) - Takes(Top))
  OBVIOUS
<1>11. /\ rs \in Seq(Value) /\ Len(rs) = level[n - 1] - 1
       /\ \A k \in 1 .. level[n - 1] - 1 : rs[k] = results[k] /\ k \in 1 .. Len(results)
  BY <1>4, <1>5, <1>9, <1>10
<1> HIDE DEF cs, n
<1>12. FinishesIn(cs) = {i \in Finishing : i # n} /\ \A i \in FinishesIn(cs) : cs[i] = calls[i] /\ i \in 1 .. n - 1
  BY <1>1, <1>2 DEF FinishesIn, Finishing, n
<1>13. PICK low : low = [k \in 0 .. n - 1 |-> level[k]]
  OBVIOUS
<1>14. low \in [0 .. Len(cs) -> Nat]
  BY <1>1, <1>2, <1>6, <1>13
<1>15. Resting(low, cs, rs)
  <2>1. low[0] = 1 /\ low[Len(cs)] = Len(rs) + 1
    BY <1>1, <1>2, <1>6, <1>8, <1>11, <1>13 DEF Levels
  <2>2. ASSUME NEW k \in 1 .. Len(cs)
        PROVE  low[k - 1] >= 1 /\ low[k] = (low[k - 1] + Takes(cs[k])) - 1
    <3>1. k \in 1 .. n /\ k \in 0 .. n - 1 /\ k - 1 \in 0 .. n - 1 /\ cs[k] = calls[k]
      BY <1>1, <1>2
    <3>2. level[k - 1] >= 1 /\ level[k] = (level[k - 1] + Takes(calls[k])) - 1
      BY <1>6, <3>1 DEF Levels, n
    <3>3. QED
      BY <1>13, <3>1, <3>2
  <2>3. ASSUME NEW i \in FinishesIn(cs)
        PROVE  /\ \A j \in i .. Len(cs) : low[j] >= low[i - 1]
               /\ \A k \in 1 .. low[i - 1] - 1 : rs[k] # cs[i].sentinel
    <3>1. i \in Finishing /\ i \in 1 .. n - 1 /\ cs[i] = calls[i]
      BY <1>12
    <3>2. /\ \A j \in i .. n - 1 : level[j] >= level[i - 1]
          /\ \A k \in 1 .. level[i - 1] - 1 : results[k] # calls[i].sentinel
      BY <1>6, <3>1 DEF Levels, n
    <3>3. low[i - 1] = level[i - 1] /\ level[i - 1] \in Nat
      BY <1>1, <1>6, <1>13, <3>1
    <3>4. \A j \in i .. n - 1 : low[j] = level[j]
      BY <1>1, <1>13, <3>1
    <3>5. level[n - 1] >= level[i - 1]
      BY <1>1, <3>1, <3>2
    <3>6. \A k \in 1 .. level[i - 1] - 1 : rs[k] = results[k]
      BY <1>8, <1>11, <3>3, <3>5
    <3>7. QED
      BY <1>2, <3>1, <3>2, <3>3, <3>4, <3>6
  <2>4. QED
    BY <2>1, <2>2, <2>3 DEF Resting
<1>16. Below(cs, rs, var)
  <2>1. \A k \in 1 .. Len(cs) : cs[k].block \in Block /\ (cs[k].call = "use" => cs[k].block \in touched)
    <3>1. \A k \in 1 .. Len(cs) : k \in 1 .. Len(calls) /\ cs[k] = calls[k]
      BY <1>1, <1>2 DEF n
    <3>2. QED
      BY <3>1 DEF IInv, Frames
  <2>2. \A i \in FinishesIn(cs) : /\ cs[i].block \in sealed \cup {sealing.block}
                                  /\ variables[var][cs[i].block] # None
                                  /\ cs[i].sentinel \in Value /\ vals[cs[i].sentinel].ty = "invalid"
    BY <1>12 DEF IInv, Frames
  <2>3. \A i, j \in FinishesIn(cs) : cs[i].block = cs[j].block \/ cs[i].sentinel = cs[j].sentinel => i = j
    BY <1>12 DEF IInv, Frames
  <2>4. \A k \in 1 .. Len(rs) : vals[rs[k]].ty # "alias"
    BY <1>11 DEF IInv, Stack
  <2>5. QED
    BY <1>2, <1>11, <1>14, <1>15, <2>1, <2>2, <2>3, <2>4 DEF Below
<1>17. Top.call = "finish" => \A k \in 1 .. Len(results) - Takes(Top) : results[k] # Top.sentinel
  <2>1. Top.call = "finish" => n \in Finishing
    BY <1>3, <1>7 DEF Finishing, n
  <2>2. QED
    BY <1>3, <1>6, <1>9, <2>1 DEF Levels
<1>18. QED
  BY <1>1, <1>2, <1>3, <1>4, <1>9, <1>10, <1>16, <1>17 DEF cs, n

\* What a step of a lookup leaves alone, and how the tables grow.
Steady(cs, rs, v) ==
  /\ created' = created /\ preds' = preds /\ sealed' = sealed
  /\ Value \subseteq Value' /\ touched \subseteq touched'
  /\ sealed \cup {sealing.block} \subseteq sealed' \cup {sealing'.block}
  /\ var' = v
  /\ \A b \in 1 .. NumBlocks : variables[v][b] # None => variables'[v][b] # None
  /\ \A i \in FinishesIn(cs) : vals'[cs[i].sentinel].ty = "invalid"
  /\ \A k \in 1 .. Len(rs) : vals'[rs[k]].ty # "alias"

\* A call that ends leaves its result w.
LEMMA ReturnStack ==
  ASSUME Graph, NEW cs, NEW rs, NEW v, NEW w \in Value', Below(cs, rs, v), Steady(cs, rs, v),
         calls' = cs, results' = Append(rs, w), cs # <<>> => vals'[w].ty # "alias"
  PROVE  /\ Frames' /\ Stack' /\ Finishing' = FinishesIn(cs)
         /\ cs = <<>> => Len(results') = 1
<1>1. /\ cs \in Seq(Call) /\ rs \in Seq(Value) /\ Len(cs) \in Nat /\ Len(rs) \in Nat
      /\ Block' = Block /\ Block \subseteq 1 .. NumBlocks
  BY SSABuilderAssumption, SMTT(30) DEF Below, Steady, Graph, Block
<1>2. Finishing' = FinishesIn(cs)
  BY DEF Finishing, FinishesIn
<1>3. Frames'
  <2>1. \A k \in 1 .. Len(cs) : cs[k].block \in Block /\ (cs[k].call = "use" => cs[k].block \in touched')
    BY DEF Below, Steady
  <2>2. \A i \in FinishesIn(cs) : /\ cs[i].block \in sealed' \cup {sealing'.block}
                                  /\ variables'[v][cs[i].block] # None
                                  /\ cs[i].sentinel \in Value' /\ vals'[cs[i].sentinel].ty = "invalid"
    <3> SUFFICES ASSUME NEW i \in FinishesIn(cs)
                 PROVE  /\ cs[i].block \in sealed' \cup {sealing'.block}
                        /\ variables'[v][cs[i].block] # None
                        /\ cs[i].sentinel \in Value' /\ vals'[cs[i].sentinel].ty = "invalid"
      OBVIOUS
    <3>1. cs[i].block \in Block
      BY DEF Below, FinishesIn
    <3>2. QED
      BY <1>1, <3>1 DEF Below, Steady
  <2>3. \A i, j \in FinishesIn(cs) : cs[i].block = cs[j].block \/ cs[i].sentinel = cs[j].sentinel => i = j
    BY DEF Below
  <2>4. var' = v
    BY DEF Steady
  <2>5. QED
    BY <1>1, <1>2, <2>1, <2>2, <2>3, <2>4 DEF Frames
<1>4. PICK level \in [0 .. Len(cs) -> Nat] : Resting(level, cs, rs)
  BY DEF Below
<1>5. rs \in Seq(Value')
  BY <1>1, SeqMonotonic DEF Steady
<1>6. /\ results' \in Seq(Value') /\ Len(results') = Len(rs) + 1 /\ results'[Len(rs) + 1] = w
      /\ \A k \in 1 .. Len(rs) : results'[k] = rs[k]
  BY <1>5, AppendProperties
<1>7. \A c : Takes(c)' = Takes(c)
  BY DEF Steady, Takes
<1>8. cs # <<>> => Levels(level)'
  <2> SUFFICES ASSUME cs # <<>> PROVE Levels(level)'
    OBVIOUS
  <2>1. level[0] = 1 /\ level[Len(cs)] = Len(results')
    BY <1>4, <1>6 DEF Resting
  <2>2. \A k \in 1 .. Len(cs) : level[k - 1] >= 1 /\ level[k] = (level[k - 1] + Takes(cs[k])') - 1
    BY <1>4, <1>7 DEF Resting
  <2>3. ASSUME NEW i \in FinishesIn(cs)
        PROVE  /\ \A j \in i .. Len(cs) - 1 : level[j] >= level[i - 1]
               /\ \A k \in 1 .. level[i - 1] - 1 : results'[k] # cs[i].sentinel
    <3>1. i \in 1 .. Len(cs) /\ i - 1 \in 0 .. Len(cs)
      BY <1>1 DEF FinishesIn
    <3>2. /\ \A j \in i .. Len(cs) : level[j] >= level[i - 1]
          /\ \A k \in 1 .. level[i - 1] - 1 : rs[k] # cs[i].sentinel
      BY <1>4 DEF Resting
    <3>3. level[i - 1] \in Nat /\ level[Len(cs)] >= level[i - 1] /\ level[Len(cs)] = Len(rs) + 1
      BY <1>1, <1>4, <3>1, <3>2, SMTT(30) DEF Resting
    <3>4. \A k \in 1 .. level[i - 1] - 1 : results'[k] = rs[k]
      BY <1>1, <1>6, <3>3
    <3>5. \A j \in i .. Len(cs) - 1 : j \in i .. Len(cs)
      BY <1>1
    <3>6. QED
      BY <3>2, <3>4, <3>5
  <2>4. QED
    BY <1>2, <2>1, <2>2, <2>3 DEF Levels, Takes
<1>9. cs # <<>> => \A k \in 1 .. Len(results') : vals'[results'[k]].ty # "alias"
  <2> SUFFICES ASSUME cs # <<>>, NEW k \in 1 .. Len(rs) + 1 PROVE vals'[results'[k]].ty # "alias"
    BY <1>6
  <2>1. CASE k = Len(rs) + 1
    BY <1>6, <2>1
  <2>2. CASE k # Len(rs) + 1
    BY <1>1, <1>6, <2>2 DEF Steady
  <2>3. QED
    BY <2>1, <2>2
<1>10. cs = <<>> => Len(results') = 1
  <2>1. cs = <<>> => Len(cs) = 0
    OBVIOUS
  <2>2. cs = <<>> => Len(rs) + 1 = 1
    BY <1>4, <2>1 DEF Resting
  <2>3. QED
    BY <1>1, <1>6, <2>2
<1>11. Stack'
  BY <1>4, <1>6, <1>8, <1>9 DEF Stack
<1>12. QED
  BY <1>2, <1>3, <1>10, <1>11

\* The lookup of v in the predecessors of b is scheduled above the calls cs.
Pushes(cs, rs, v, b, s) ==
  /\ v \in Place /\ b \in Block /\ s \in Value'
  /\ Below(cs, rs, v) /\ Steady(cs, rs, v)
  /\ calls' = cs \o begin_predecessors_lookup(s, b) /\ results' = rs
  /\ b \in sealed' \cup {sealing'.block} /\ variables'[v][b] # None
  /\ vals'[s].ty = "invalid" /\ ToSet(preds[b]) \subseteq touched
  /\ \A i \in FinishesIn(cs) : cs[i].block # b /\ cs[i].sentinel # s
  /\ \A k \in 1 .. Len(rs) : rs[k] # s

\* begin_predecessors_lookup leaves a stack of calls on which every lookup has its
\* results: the new one takes as many as it has predecessors.
LEMMA PushStack ==
  ASSUME Graph, NEW cs, NEW rs, NEW v, NEW b, NEW s, Pushes(cs, rs, v, b, s)
  PROVE  /\ Frames' /\ Stack' /\ calls' # <<>>
         /\ Finishing' = FinishesIn(cs) \cup {Len(cs) + 1}
         /\ \A i \in FinishesIn(cs) : calls'[i] = cs[i]
         /\ calls'[Len(cs) + 1].sentinel = s
<1> DEFINE m == Len(cs)
           p == Len(preds[b])
           begin == begin_predecessors_lookup(s, b)
<1>0. /\ v \in Place /\ b \in Block /\ s \in Value'
      /\ Below(cs, rs, v) /\ Steady(cs, rs, v)
      /\ calls' = cs \o begin_predecessors_lookup(s, b) /\ results' = rs
      /\ b \in sealed' \cup {sealing'.block} /\ variables'[v][b] # None
      /\ vals'[s].ty = "invalid" /\ ToSet(preds[b]) \subseteq touched
      /\ \A i \in FinishesIn(cs) : cs[i].block # b /\ cs[i].sentinel # s
      /\ \A k \in 1 .. Len(rs) : rs[k] # s
      /\ touched \subseteq Block
  BY DEF Pushes, Graph
<1> USE <1>0
<1>1. /\ cs \in Seq(Call) /\ rs \in Seq(Value) /\ m \in Nat /\ Len(rs) \in Nat
      /\ Block' = Block /\ Block \subseteq 1 .. NumBlocks /\ Block \in SUBSET Nat
  BY SSABuilderAssumption DEF Below, Steady, Graph, Block
<1>2. preds[b] \in Seq(Block) /\ preds[b] \in Seq(Nat) /\ p \in Nat /\ b \in Nat /\ s \in Nat
  <2>1. preds[b] \in Seq(Block)
    BY <1>1 DEF Graph
  <2>2. preds[b] \in Seq(Nat)
    BY <1>1, <2>1, SeqMonotonic
  <2>3. QED
    BY <1>1, <2>1, <2>2 DEF Value
<1>3. /\ begin \in Seq(Call) /\ Len(begin) = p + 1 /\ begin[1] = FinishPredecessorsLookup(s, b)
      /\ \A k \in 2 .. p + 1 : \E q \in ToSet(preds[b]) : begin[k] = UseVar(q)
  BY <1>2, BeginLookup
<1> HIDE DEF begin, p, m
<1>4. /\ calls' \in Seq(Call) /\ Len(calls') = m + (p + 1)
      /\ \A k \in 1 .. m + (p + 1) : calls'[k] = IF k <= m THEN cs[k] ELSE begin[k - m]
  <2>1. calls' = cs \o begin
    BY DEF begin
  <2>2. /\ calls' \in Seq(Call) /\ Len(calls') = Len(cs) + Len(begin)
        /\ \A k \in 1 .. Len(cs) + Len(begin) : calls'[k] = IF k <= Len(cs) THEN cs[k] ELSE begin[k - Len(cs)]
    <3>1. cs \in Seq(Call) /\ begin \in Seq(Call)
      BY <1>1, <1>3
    <3>2. QED
      BY <2>1, <3>1, ConcatProperties
  <2>3. QED
    BY <1>3, <2>2 DEF m
<1>5. \A k \in 1 .. m : k \in 1 .. Len(calls') /\ calls'[k] = cs[k]
  BY <1>1, <1>2, <1>4
<1>6. calls'[m + 1] = FinishPredecessorsLookup(s, b) /\ m + 1 \in 1 .. Len(calls')
  <2>1. m + 1 \in 1 .. m + (p + 1) /\ ~(m + 1 <= m) /\ (m + 1) - m = 1
    BY <1>1, <1>2
  <2>2. calls'[m + 1] = begin[1]
    BY <1>4, <2>1
  <2>3. QED
    BY <1>3, <1>4, <2>1, <2>2
<1>7. \A k \in m + 2 .. Len(calls') : \E q \in ToSet(preds[b]) : calls'[k] = UseVar(q)
  <2> SUFFICES ASSUME NEW k \in m + 2 .. Len(calls')
               PROVE  \E q \in ToSet(preds[b]) : calls'[k] = UseVar(q)
    OBVIOUS
  <2>1. calls'[k] = begin[k - m] /\ k - m \in 2 .. p + 1
    BY <1>1, <1>2, <1>4, SMTT(30)
  <2>2. QED
    BY <1>3, <2>1
<1>7a. \A q : UseVar(q).call = "use" /\ UseVar(q).block = q
  BY DEF UseVar
<1>8. \A k \in 1 .. Len(calls') : k \in 1 .. m \/ k = m + 1 \/ k \in m + 2 .. Len(calls')
  BY <1>1, <1>2, <1>4
<1>9. Finishing' = FinishesIn(cs) \cup {m + 1}
  <2>1. calls'[m + 1].call = "finish"
    BY <1>6 DEF FinishPredecessorsLookup
  <2>2. \A k \in m + 2 .. Len(calls') : calls'[k].call # "finish"
    BY <1>7, <1>7a
  <2>3. \A i \in FinishesIn(cs) : i \in 1 .. m /\ cs[i].call = "finish"
    BY DEF FinishesIn, m
  <2>4. \A i \in 1 .. m : cs[i].call = "finish" => i \in FinishesIn(cs)
    BY DEF FinishesIn, m
  <2>5. \A i \in Finishing' : i \in 1 .. Len(calls') /\ calls'[i].call = "finish"
    BY DEF Finishing
  <2>6. \A i \in 1 .. Len(calls') : calls'[i].call = "finish" => i \in Finishing'
    BY DEF Finishing
  <2>7. ASSUME NEW i \in Finishing' PROVE i \in FinishesIn(cs) \cup {m + 1}
    BY <1>5, <1>8, <2>2, <2>4, <2>5
  <2>8. ASSUME NEW i \in FinishesIn(cs) \cup {m + 1} PROVE i \in Finishing'
    BY <1>5, <1>6, <2>1, <2>3, <2>6
  <2>9. QED
    BY <2>7, <2>8
<1>10. \A i \in FinishesIn(cs) : i \in 1 .. m /\ calls'[i] = cs[i]
  BY <1>5 DEF FinishesIn, m
<1>11. calls'[m + 1].sentinel = s /\ calls'[m + 1].block = b
  BY <1>6 DEF FinishPredecessorsLookup
<1>12. Frames'
  <2>1. ASSUME NEW k \in 1 .. Len(calls')
        PROVE  calls'[k].block \in Block /\ (calls'[k].call = "use" => calls'[k].block \in touched')
    <3>1. CASE k \in 1 .. m
      BY <1>5, <3>1 DEF Below, Steady, m
    <3>2. CASE k = m + 1
      BY <1>6, <3>2 DEF FinishPredecessorsLookup
    <3>3. CASE k \in m + 2 .. Len(calls')
      <4>1. PICK q \in ToSet(preds[b]) : calls'[k] = UseVar(q)
        BY <1>7, <3>3
      <4>2. q \in touched' /\ q \in Block
        BY DEF Steady
      <4>3. QED
        BY <1>7a, <4>1, <4>2
    <3>4. QED
      BY <1>8, <3>1, <3>2, <3>3
  <2>2. ASSUME NEW i \in Finishing'
        PROVE  /\ calls'[i].block \in sealed' \cup {sealing'.block}
               /\ variables'[v][calls'[i].block] # None
               /\ calls'[i].sentinel \in Value' /\ vals'[calls'[i].sentinel].ty = "invalid"
    <3>1. CASE i = m + 1
      BY <1>11, <3>1
    <3>2. CASE i \in FinishesIn(cs)
      <4>1. calls'[i] = cs[i] /\ cs[i].block \in Block
        BY <1>10, <3>2 DEF Below, m
      <4>2. QED
        BY <1>1, <3>2, <4>1 DEF Below, Steady
    <3>3. QED
      BY <1>9, <3>1, <3>2
  <2>3. ASSUME NEW i \in Finishing', NEW j \in Finishing',
               calls'[i].block = calls'[j].block \/ calls'[i].sentinel = calls'[j].sentinel
        PROVE  i = j
    <3>1. CASE i = m + 1
      BY <1>9, <1>10, <1>11, <2>3, <3>1
    <3>2. CASE j = m + 1
      BY <1>9, <1>10, <1>11, <2>3, <3>2
    <3>3. CASE i \in FinishesIn(cs) /\ j \in FinishesIn(cs)
      BY <1>10, <2>3, <3>3 DEF Below
    <3>4. QED
      BY <1>9, <3>1, <3>2, <3>3
  <2>4. var' = v
    BY DEF Steady
  <2>5. QED
    BY <1>1, <1>4, <2>1, <2>2, <2>3, <2>4 DEF Frames
<1>13. PICK low \in [0 .. m -> Nat] : Resting(low, cs, rs)
  BY DEF Below, m
<1>14. low[m] \in Nat /\ low[m] = Len(rs) + 1 /\ low[0] = 1 /\ low[m] >= 1
  BY <1>1, <1>13 DEF Resting, m
<1>15. PICK level : level = [k \in 0 .. Len(calls') |-> IF k <= m THEN low[k] ELSE ((low[m] + p) + m) - k]
  OBVIOUS
<1>16. level \in [0 .. Len(calls') -> Nat]
  <2> SUFFICES ASSUME NEW k \in 0 .. Len(calls')
               PROVE  (IF k <= m THEN low[k] ELSE ((low[m] + p) + m) - k) \in Nat
    BY <1>15
  <2>1. CASE k <= m
    BY <1>1, <1>13, <2>1
  <2>2. CASE ~(k <= m)
    <3>1. k <= m + (p + 1) /\ k \in Int
      BY <1>1, <1>2, <1>4
    <3>2. QED
      BY <1>1, <1>2, <1>14, <2>2, <3>1
  <2>3. QED
    BY <2>1, <2>2
<1>17. /\ \A k \in 0 .. m : level[k] = low[k]
       /\ \A k \in m + 1 .. Len(calls') : level[k] = ((low[m] + p) + m) - k
  BY <1>1, <1>2, <1>4, <1>15
<1>18. \A c : Takes(c)' = Takes(c)
  BY DEF Steady, Takes
<1>19. Takes(calls'[m + 1]) = p /\ \A k \in m + 2 .. Len(calls') : Takes(calls'[k]) = 0
  <2>1. Takes(FinishPredecessorsLookup(s, b)) = p
    BY DEF Takes, FinishPredecessorsLookup, p
  <2>2. \A q : Takes(UseVar(q)) = 0
    BY DEF Takes, UseVar
  <2>3. QED
    BY <1>6, <1>7, <2>1, <2>2
<1>20. level[0] = 1 /\ level[Len(calls')] = Len(rs)
  <2>1. 0 \in 0 .. m /\ Len(calls') \in m + 1 .. Len(calls')
    BY <1>1, <1>2, <1>4
  <2>2. level[Len(calls')] = ((low[m] + p) + m) - (m + (p + 1))
    BY <1>4, <1>17, <2>1
  <2>3. QED
    BY <1>1, <1>2, <1>14, <1>17, <2>1, <2>2
<1>21. ASSUME NEW k \in 1 .. Len(calls')
       PROVE  level[k - 1] >= 1 /\ level[k] = (level[k - 1] + Takes(calls'[k])) - 1
  <2>1. CASE k \in 1 .. m
    <3>1. k \in 0 .. m /\ k - 1 \in 0 .. m
      BY <1>1, <2>1
    <3>2. low[k - 1] >= 1 /\ low[k] = (low[k - 1] + Takes(cs[k])) - 1
      BY <1>13, <2>1 DEF Resting, m
    <3>3. QED
      BY <1>5, <1>17, <2>1, <3>1, <3>2
  <2>2. CASE k = m + 1
    <3>1. k - 1 = m /\ m \in 0 .. m /\ k \in m + 1 .. Len(calls')
      BY <1>1, <1>6, <2>2
    <3>2. level[k - 1] = low[m] /\ level[k] = ((low[m] + p) + m) - k
      BY <1>17, <3>1
    <3>3. QED
      <4>1. Takes(calls'[k]) = p
        BY <1>19, <2>2
      <4>2. level[k] = (low[m] + p) - 1
        BY <1>1, <1>2, <1>14, <2>2, <3>2
      <4>3. QED
        BY <1>14, <3>2, <4>1, <4>2
  <2>3. CASE k \in m + 2 .. Len(calls')
    <3>1. k - 1 \in m + 1 .. Len(calls') /\ k \in m + 1 .. Len(calls')
      BY <1>1, <1>2, <1>4, <2>3
    <3>2. level[k - 1] = ((low[m] + p) + m) - (k - 1) /\ level[k] = ((low[m] + p) + m) - k
      BY <1>17, <3>1
    <3>3. k <= m + (p + 1) /\ k \in Int
      BY <1>1, <1>2, <1>4, <2>3
    <3>4. Takes(calls'[k]) = 0
      BY <1>19, <2>3
    <3>5. QED
      BY <1>1, <1>2, <1>14, <3>2, <3>3, <3>4
  <2>4. QED
    BY <1>8, <2>1, <2>2, <2>3
<1>22. ASSUME NEW i \in Finishing'
       PROVE  /\ \A j \in i .. Len(calls') - 1 : level[j] >= level[i - 1]
              /\ \A k \in 1 .. level[i - 1] - 1 : rs[k] # calls'[i].sentinel
  <2>1. \A j \in m + 1 .. Len(calls') - 1 : level[j] >= low[m]
    <3> SUFFICES ASSUME NEW j \in m + 1 .. Len(calls') - 1 PROVE level[j] >= low[m]
      OBVIOUS
    <3>1. j \in m + 1 .. Len(calls') /\ j <= m + p /\ j \in Int
      BY <1>1, <1>2, <1>4
    <3>2. level[j] = ((low[m] + p) + m) - j
      BY <1>17, <3>1
    <3>3. QED
      BY <1>1, <1>2, <1>14, <3>1, <3>2
  <2>2. CASE i = m + 1
    <3>1. i - 1 = m /\ level[i - 1] = low[m]
      <4>1. i - 1 = m /\ m \in 0 .. m
        BY <1>1, <2>2
      <4>2. QED
        BY <1>17, <4>1
    <3>2. \A k \in 1 .. low[m] - 1 : rs[k] # s
      BY <1>1, <1>14
    <3>3. QED
      BY <1>11, <2>1, <2>2, <3>1, <3>2
  <2>3. CASE i \in FinishesIn(cs)
    <3>1. i \in 1 .. m /\ i - 1 \in 0 .. m /\ calls'[i] = cs[i]
      <4>1. i \in 1 .. m /\ calls'[i] = cs[i]
        BY <1>10, <2>3
      <4>2. QED
        BY <1>1, <4>1
    <3>2. /\ \A j \in i .. m : low[j] >= low[i - 1]
          /\ \A k \in 1 .. low[i - 1] - 1 : rs[k] # cs[i].sentinel
      BY <1>13, <2>3 DEF Resting, m
    <3>3. level[i - 1] = low[i - 1] /\ low[i - 1] \in Nat /\ low[m] >= low[i - 1]
      BY <1>1, <1>13, <1>17, <3>1, <3>2
    <3>4. ASSUME NEW j \in i .. Len(calls') - 1 PROVE level[j] >= level[i - 1]
      <4>1. CASE j <= m
        BY <1>1, <1>17, <3>1, <3>2, <3>3, <4>1
      <4>2. CASE j > m
        <5>1. j \in m + 1 .. Len(calls') - 1 /\ j \in 0 .. Len(calls')
          BY <1>1, <1>4, <1>2, <3>1, <4>2
        <5>2. level[j] >= low[m] /\ level[j] \in Nat
          BY <1>16, <2>1, <5>1
        <5>3. QED
          BY <1>14, <3>3, <5>2
      <4>3. QED
        BY <1>1, <3>1, <4>1, <4>2
    <3>5. QED
      BY <3>1, <3>2, <3>3, <3>4
  <2>4. QED
    BY <1>9, <2>2, <2>3
<1>23. Levels(level)'
  BY <1>18, <1>20, <1>21, <1>22 DEF Levels, Takes
<1>24. Stack'
  <2>1. results' \in Seq(Value')
    BY <1>1, SeqMonotonic DEF Steady
  <2>2. \A k \in 1 .. Len(results') : vals'[results'[k]].ty # "alias"
    BY DEF Steady
  <2>3. QED
    BY <1>16, <1>23, <2>1, <2>2 DEF Stack
<1>25. calls' # <<>>
  <2>1. Len(calls') # 0
    BY <1>1, <1>2, <1>4
  <2>2. QED
    BY <2>1
<1>26. QED
  BY <1>9, <1>10, <1>11, <1>12, <1>24, <1>25 DEF m

-----------------------------------------------------------------------------
(* The steps of a lookup.                                                  *)

\* A block without a definition of v gets a sentinel, and either its predecessors are
\* looked up or the sentinel waits for them.
LEMMA NonlocalStep ==
  ASSUME IInv, phase = "build", NEW v \in Place, NEW b \in Block, NEW cs,
         Below(cs, results, v), Finishing = FinishesIn(cs), \A i \in FinishesIn(cs) : cs[i] = calls[i],
         variables[v][b] = None, use_var_nonlocal(cs, v, b), var' = v,
         UNCHANGED <<created, preds, sealed, sealing, position, filled, succs, code, phase>>,
         touched' \in {touched, touched \cup {b}}, b \in touched',
         pending' \in Operation \cup {NoCaller},
         IF pending' = NoCaller THEN sealing # NotSealing ELSE sealing = NotSealing,
         sealing # NotSealing => variables[v][sealing.block] # None
  PROVE  IInv'
<1> DEFINE s == Len(vals) + 1
<1>1. /\ vals' = Append(vals, Invalid) /\ variables' = [variables EXCEPT ![v][b] = s]
      /\ b \in sealed => /\ calls' = cs \o begin_predecessors_lookup(s, b)
                         /\ UNCHANGED <<undef_phis, results>>
      /\ b \notin sealed => /\ undef_phis' = [undef_phis EXCEPT ![b] = Append(@, <<v, s>>)]
                            /\ results' = Append(results, s) /\ calls' = cs
  BY NeverOptimised DEF use_var_nonlocal
<1>2. Appended(Invalid) /\ Values' /\ AliasOrder'
  BY <1>1, ValueAppended DEF IInv
<1> HIDE DEF s
<1>3. /\ s \in Nat \ {0} /\ s = Len(vals) + 1 /\ Len(vals) \in Nat /\ Len(vals') = s
      /\ s \notin Value /\ Value' = Value \cup {s} /\ Value \subseteq Value'
      /\ \A x \in Value : vals'[x] = vals[x]
      /\ vals'[s].ty = "invalid"
  BY <1>2 DEF Appended, Invalid, s
<1>4. Block' = Block /\ Block \subseteq 1 .. NumBlocks /\ Block \in SUBSET Nat /\ b \in 1 .. NumBlocks
  BY SSABuilderAssumption DEF IInv, Graph, Block
<1>5. /\ variables \in [Place -> [1 .. NumBlocks -> 0 .. Len(vals)]]
      /\ \A w \in Place : \A c \in 1 .. NumBlocks :
           variables'[w][c] = IF w = v /\ c = b THEN s ELSE variables[w][c]
  BY <1>1, <1>4 DEF IInv, Tables
<1>6. /\ \A w \in Place : \A c \in 1 .. NumBlocks : variables[w][c] # None => variables'[w][c] # None
      /\ variables'[v][b] # None
  BY <1>3, <1>4, <1>5 DEF None
<1>7. touched \subseteq touched' /\ touched' \subseteq Block
  BY DEF IInv, Graph
<1>8. Graph' /\ Edges'
  BY <1>4, <1>7 DEF IInv, Graph, Edges
<1>9. Phis'
  <2>1. \A x \in Value' : vals'[x].ty = "phi" => x \in Value /\ vals'[x] = vals[x]
    BY <1>3
  <2>2. QED
    BY <1>3, <2>1, PhisKept DEF IInv
<1>10. Tables'
  <2>1. variables' \in [Place -> [1 .. NumBlocks -> 0 .. Len(vals')]]
    <3>1. s \in 0 .. Len(vals') /\ 0 .. Len(vals) \subseteq 0 .. Len(vals')
      BY <1>3
    <3>2. QED
      BY <1>1, <1>4, <1>5, <3>1
  <2>2. code' \in [1 .. NumBlocks -> Seq(Operation)]
        /\ \A c \in 1 .. NumBlocks : \A k \in 1 .. Len(code'[c]) : code'[c][k].val \in Value'
    BY <1>3 DEF IInv, Tables
  <2>3. QED
    BY <2>1, <2>2 DEF Tables
<1>11. /\ cs \in Seq(Call) /\ results \in Seq(Value) /\ Len(cs) \in Nat
       /\ \A i \in FinishesIn(cs) : cs[i].sentinel \in Value /\ vals[cs[i].sentinel].ty = "invalid"
       /\ \A k \in 1 .. Len(results) : results[k] \in Value /\ vals[results[k]].ty # "alias"
  BY DEF Below
<1>12. Steady(cs, results, v)
  <2>1. v \in Place
    OBVIOUS
  <2>2. \A i \in FinishesIn(cs) : vals'[cs[i].sentinel].ty = "invalid"
    BY <1>3, <1>11
  <2>3. \A k \in 1 .. Len(results) : vals'[results[k]].ty # "alias"
    BY <1>3, <1>11
  <2>4. QED
    BY <1>3, <1>6, <1>7, <2>1, <2>2, <2>3 DEF Steady
<1>13. /\ undef_phis \in [1 .. NumBlocks -> Entries]
       /\ \A c \in 1 .. NumBlocks : \A k \in 1 .. Len(undef_phis[c]) :
            /\ undef_phis[c][k][1] \in Place /\ variables[undef_phis[c][k][1]][c] # None
            /\ undef_phis[c][k][2] \in Value /\ vals[undef_phis[c][k][2]].ty = "invalid"
            /\ c \in touched \ sealed
       /\ sealing \in [block : 0 .. NumBlocks, todo : Entries]
       /\ \A k \in 1 .. Len(sealing.todo) :
            /\ sealing.todo[k][1] \in Place /\ variables[sealing.todo[k][1]][sealing.block] # None
            /\ sealing.todo[k][2] \in Value /\ vals[sealing.todo[k][2]].ty = "invalid"
  BY DEF IInv, Waiting, Requested
<1>14. sealing.todo # <<>> => sealing # NotSealing
  BY DEF NotSealing
<1>15. sealing # NotSealing => /\ sealing.block \in Block \ sealed /\ undef_phis[sealing.block] = <<>>
                               /\ sealing.block # b
  BY DEF IInv, Stages
<1>16. \A k \in 1 .. Len(sealing.todo) : sealing # NotSealing
  <2>1. sealing = NotSealing => Len(sealing.todo) = 0
    BY DEF NotSealing
  <2>2. QED
    BY <2>1
<1>17. \A k \in 1 .. Len(sealing.todo) :
         /\ sealing.todo[k][1] \in Place /\ variables'[sealing.todo[k][1]][sealing.block] # None
         /\ sealing.todo[k][2] \in Value' /\ vals'[sealing.todo[k][2]].ty = "invalid"
  <2> SUFFICES ASSUME NEW k \in 1 .. Len(sealing.todo)
               PROVE  /\ sealing.todo[k][1] \in Place /\ variables'[sealing.todo[k][1]][sealing.block] # None
                      /\ sealing.todo[k][2] \in Value' /\ vals'[sealing.todo[k][2]].ty = "invalid"
    OBVIOUS
  <2>1. sealing.block \in 1 .. NumBlocks
    BY <1>4, <1>15, <1>16
  <2>2. /\ sealing.todo[k][1] \in Place /\ variables[sealing.todo[k][1]][sealing.block] # None
        /\ sealing.todo[k][2] \in Value /\ vals[sealing.todo[k][2]].ty = "invalid"
    BY <1>13
  <2>3. QED
    BY <1>3, <1>6, <2>1, <2>2
<1>18. OperandsDefined'
  BY DEF OperandsDefined
<1>19. CASE b \in sealed
  <2>1. calls' = cs \o begin_predecessors_lookup(s, b) /\ results' = results /\ undef_phis' = undef_phis
    BY <1>1, <1>19
  <2>2. ToSet(preds[b]) \subseteq touched
    <3>1. ToSet(preds[b]) = {p \in Block : b \in succs[p]} /\ filled \subseteq touched
      BY <1>4 DEF IInv, Edges, Graph
    <3>2. \A p \in Block : b \in succs[p] => p \in filled
      BY <1>4 DEF IInv, Edges
    <3>3. QED
      BY <3>1, <3>2
  <2>3. \A i \in FinishesIn(cs) : cs[i].block # b /\ cs[i].sentinel # s
    BY <1>3, <1>11 DEF Below
  <2>4. \A k \in 1 .. Len(results) : results[k] # s
    BY <1>3, <1>11
  <2>5. /\ Frames' /\ Stack' /\ calls' # <<>>
        /\ Finishing' = FinishesIn(cs) \cup {Len(cs) + 1}
        /\ \A i \in FinishesIn(cs) : calls'[i] = cs[i]
        /\ calls'[Len(cs) + 1].sentinel = s
    <3>1. Graph /\ touched \subseteq Block /\ s \in Value' /\ b \in sealed' \cup {sealing'.block}
      BY <1>3, <1>19 DEF IInv, Graph
    <3>2. QED
      <4>1. Pushes(cs, results, v, b, s)
        BY <1>3, <1>6, <1>12, <2>1, <2>2, <2>3, <2>4, <3>1 DEF Pushes
      <4>2. QED
        BY <3>1, <4>1, PushStack
  <2>6. Stages'
    BY <1>4, <1>6, <1>15, <2>1, <2>5 DEF Stages
  <2>7. Waiting'
    <3>1. \A c \in 1 .. NumBlocks : \A k \in 1 .. Len(undef_phis[c]) :
            /\ undef_phis[c][k][1] \in Place /\ variables'[undef_phis[c][k][1]][c] # None
            /\ undef_phis[c][k][2] \in Value' /\ vals'[undef_phis[c][k][2]].ty = "invalid"
            /\ c \in touched' \ sealed
      <4> SUFFICES ASSUME NEW c \in 1 .. NumBlocks, NEW k \in 1 .. Len(undef_phis[c])
                   PROVE  /\ undef_phis[c][k][1] \in Place /\ variables'[undef_phis[c][k][1]][c] # None
                          /\ undef_phis[c][k][2] \in Value' /\ vals'[undef_phis[c][k][2]].ty = "invalid"
                          /\ c \in touched' \ sealed
        OBVIOUS
      <4>1. /\ undef_phis[c][k][1] \in Place /\ variables[undef_phis[c][k][1]][c] # None
            /\ undef_phis[c][k][2] \in Value /\ vals[undef_phis[c][k][2]].ty = "invalid"
            /\ c \in touched \ sealed
        BY <1>13
      <4>2. QED
        BY <1>3, <1>6, <1>7, <4>1
    <3>2. QED
      BY <1>13, <1>17, <2>1, <3>1 DEF Waiting, Requested
  <2>8. Apart'
    <3>1. \A c \in 1 .. NumBlocks : \A k \in 1 .. Len(undef_phis[c]) :
            \A i \in Finishing' : undef_phis[c][k][2] # calls'[i].sentinel
      BY <1>3, <1>13, <2>5, SMTT(30) DEF IInv, Apart
    <3>2. \A l \in 1 .. Len(sealing.todo) : \A i \in Finishing' : sealing.todo[l][2] # calls'[i].sentinel
      <4>1. \A l \in 1 .. Len(sealing.todo) : \A i \in Finishing : sealing.todo[l][2] # calls[i].sentinel
        BY DEF IInv, Apart
      <4>2. \A l \in 1 .. Len(sealing.todo) : sealing.todo[l][2] # s
        BY <1>3, <1>13
      <4>3. QED
        BY <2>5, <4>1, <4>2
    <3>3. \A c, d \in 1 .. NumBlocks : \A k \in 1 .. Len(undef_phis[c]), l \in 1 .. Len(undef_phis[d]) :
            undef_phis[c][k][2] = undef_phis[d][l][2] => c = d /\ k = l
      BY DEF IInv, Apart
    <3>4. \A k, l \in 1 .. Len(sealing.todo) : sealing.todo[k][2] = sealing.todo[l][2] => k = l
      BY DEF IInv, Apart
    <3>5. \A c \in 1 .. NumBlocks : \A k \in 1 .. Len(undef_phis[c]) :
            \A l \in 1 .. Len(sealing.todo) : undef_phis[c][k][2] # sealing.todo[l][2]
      BY DEF IInv, Apart
    <3>6. QED
      <4>1. \A c, d \in 1 .. NumBlocks : \A k \in 1 .. Len(undef_phis'[c]), l \in 1 .. Len(undef_phis'[d]) :
              undef_phis'[c][k][2] = undef_phis'[d][l][2] => c = d /\ k = l
        BY <2>1, <3>3
      <4>2. \A k, l \in 1 .. Len(sealing'.todo) : sealing'.todo[k][2] = sealing'.todo[l][2] => k = l
        BY <3>4
      <4>3. \A c \in 1 .. NumBlocks : \A k \in 1 .. Len(undef_phis'[c]) :
              \A l \in 1 .. Len(sealing'.todo) : undef_phis'[c][k][2] # sealing'.todo[l][2]
        BY <2>1, <3>5
      <4>4. \A c \in 1 .. NumBlocks : \A k \in 1 .. Len(undef_phis'[c]) :
              \A i \in Finishing' : undef_phis'[c][k][2] # calls'[i].sentinel
        BY <2>1, <3>1
      <4>5. \A l \in 1 .. Len(sealing'.todo) : \A i \in Finishing' : sealing'.todo[l][2] # calls'[i].sentinel
        BY <3>2
      <4>6. QED
        BY <4>1, <4>2, <4>3, <4>4, <4>5 DEF Apart
  <2>9. Awaited'
    <3> SUFFICES ASSUME NEW x \in Value', vals'[x].ty = "invalid" PROVE InPhis(x)' \/ InTodo(x)' \/ InCalls(x)'
      BY DEF Awaited
    <3>1. CASE x = s
      BY <2>5, <3>1 DEF InCalls
    <3>2. CASE x # s
      <4>1. x \in Value /\ vals[x].ty = "invalid"
        BY <1>3, <3>2
      <4>2. CASE InPhis(x)
        BY <2>1, <4>2 DEF InPhis
      <4>3. CASE InTodo(x)
        BY <4>3 DEF InTodo
      <4>4. CASE InCalls(x)
        BY <2>5, <4>4 DEF InCalls
      <4>5. QED
        BY <4>1, <4>2, <4>3, <4>4 DEF IInv, Awaited
    <3>3. QED
      BY <3>1, <3>2
  <2>10. QED
    BY <1>2, <1>8, <1>9, <1>10, <1>18, <2>5, <2>6, <2>7, <2>8, <2>9 DEF IInv
<1>20. CASE b \notin sealed
  <2>1. calls' = cs /\ results' = Append(results, s)
        /\ undef_phis' = [undef_phis EXCEPT ![b] = Append(@, <<v, s>>)]
    BY <1>1, <1>20
  <2>2. Frames' /\ Stack' /\ Finishing' = FinishesIn(cs) /\ (cs = <<>> => Len(results') = 1)
    BY <1>3, <1>12, <2>1, ReturnStack DEF IInv
  <2>3. \A i \in Finishing' : i \in Finishing /\ calls'[i] = calls[i]
    BY <2>1, <2>2
  <2>4. PICK u : undef_phis'[b] = u /\ u = Append(undef_phis[b], <<v, s>>)
    BY <1>4, <1>13, <2>1
  <2>5. undef_phis[b] \in Entries /\ <<v, s>> \in Place \X Nat
    BY <1>3, <1>4, <1>13
  <2>6. /\ u \in Entries /\ Len(undef_phis[b]) \in Nat /\ Len(u) = Len(undef_phis[b]) + 1
        /\ \A k \in 1 .. Len(undef_phis[b]) : u[k] = undef_phis[b][k]
        /\ u[Len(undef_phis[b]) + 1] = <<v, s>>
    BY <2>4, <2>5, AppendProperties DEF Entries
  <2>7. \A c \in 1 .. NumBlocks : undef_phis'[c] = IF c = b THEN u ELSE undef_phis[c]
    BY <1>4, <1>13, <2>1, <2>4
  <2>8. undef_phis' \in [1 .. NumBlocks -> Entries]
    BY <1>4, <1>13, <2>1, <2>4, <2>6
  <2>9. ASSUME NEW c \in 1 .. NumBlocks, NEW k \in 1 .. Len(undef_phis'[c])
        PROVE  \/ k \in 1 .. Len(undef_phis[c]) /\ undef_phis'[c][k] = undef_phis[c][k]
               \/ c = b /\ k = Len(undef_phis[b]) + 1 /\ undef_phis'[c][k] = <<v, s>>
    BY <2>6, <2>7, SMTT(30)
  <2>10. Stages'
    <3>1. calls' = <<>> => Len(results') = 1
      BY <2>1, <2>2
    <3>2. sealing # NotSealing => undef_phis'[sealing.block] = <<>>
      BY <1>4, <1>15, <2>7
    <3>3. QED
      BY <1>4, <1>6, <1>15, <3>1, <3>2 DEF Stages
  <2>11. Waiting'
    <3>1. ASSUME NEW c \in 1 .. NumBlocks, NEW k \in 1 .. Len(undef_phis'[c])
          PROVE  /\ undef_phis'[c][k][1] \in Place /\ variables'[undef_phis'[c][k][1]][c] # None
                 /\ undef_phis'[c][k][2] \in Value' /\ vals'[undef_phis'[c][k][2]].ty = "invalid"
                 /\ c \in touched' \ sealed
      <4>1. CASE k \in 1 .. Len(undef_phis[c]) /\ undef_phis'[c][k] = undef_phis[c][k]
        BY <1>3, <1>6, <1>7, <1>13, <4>1, SMTT(30)
      <4>2. CASE c = b /\ undef_phis'[c][k] = <<v, s>>
        BY <1>3, <1>6, <1>20, <4>2
      <4>3. QED
        BY <2>9, <4>1, <4>2
    <3>2. QED
      BY <1>13, <1>17, <2>8, <3>1 DEF Waiting, Requested
  <2>12. Apart'
    <3>1. \A c, d \in 1 .. NumBlocks : \A k \in 1 .. Len(undef_phis[c]), l \in 1 .. Len(undef_phis[d]) :
            undef_phis[c][k][2] = undef_phis[d][l][2] => c = d /\ k = l
      BY DEF IInv, Apart
    <3>2. ASSUME NEW c \in 1 .. NumBlocks, NEW d \in 1 .. NumBlocks,
                 NEW k \in 1 .. Len(undef_phis'[c]), NEW l \in 1 .. Len(undef_phis'[d]),
                 undef_phis'[c][k][2] = undef_phis'[d][l][2]
          PROVE  c = d /\ k = l
      <4>1. \/ k \in 1 .. Len(undef_phis[c]) /\ undef_phis'[c][k] = undef_phis[c][k]
            \/ c = b /\ k = Len(undef_phis[b]) + 1 /\ undef_phis'[c][k][2] = s
        BY <2>9
      <4>2. \/ l \in 1 .. Len(undef_phis[d]) /\ undef_phis'[d][l] = undef_phis[d][l]
            \/ d = b /\ l = Len(undef_phis[b]) + 1 /\ undef_phis'[d][l][2] = s
        BY <2>9
      <4>3. \A e \in 1 .. NumBlocks : \A j \in 1 .. Len(undef_phis[e]) : undef_phis[e][j][2] # s
        BY <1>3, <1>13
      <4>4. CASE k \in 1 .. Len(undef_phis[c]) /\ undef_phis'[c][k] = undef_phis[c][k]
        <5>1. l \in 1 .. Len(undef_phis[d]) /\ undef_phis'[d][l] = undef_phis[d][l]
          BY <3>2, <4>2, <4>3, <4>4
        <5>2. QED
          BY <3>1, <3>2, <4>4, <5>1, SMTT(30)
      <4>5. CASE c = b /\ k = Len(undef_phis[b]) + 1 /\ undef_phis'[c][k][2] = s
        <5>1. d = b /\ l = Len(undef_phis[b]) + 1
          BY <3>2, <4>2, <4>3, <4>5
        <5>2. QED
          BY <4>5, <5>1
      <4>6. QED
        BY <4>1, <4>4, <4>5
    <3>3. ASSUME NEW c \in 1 .. NumBlocks, NEW k \in 1 .. Len(undef_phis'[c])
          PROVE  /\ \A l \in 1 .. Len(sealing.todo) : undef_phis'[c][k][2] # sealing.todo[l][2]
                 /\ \A i \in Finishing' : undef_phis'[c][k][2] # calls'[i].sentinel
      <4>1. CASE k \in 1 .. Len(undef_phis[c]) /\ undef_phis'[c][k] = undef_phis[c][k]
        BY <2>3, <4>1 DEF IInv, Apart
      <4>2. CASE undef_phis'[c][k] = <<v, s>>
        <5>1. undef_phis'[c][k][2] = s
          BY <4>2
        <5>2. \A i \in Finishing' : calls'[i].sentinel # s
          BY <1>3, <1>11, <2>1, <2>2
        <5>3. \A l \in 1 .. Len(sealing.todo) : sealing.todo[l][2] # s
          BY <1>3, <1>13, SMTT(30)
        <5>4. QED
          BY <5>1, <5>2, <5>3
      <4>3. QED
        BY <2>9, <4>1, <4>2
    <3>4. \A l \in 1 .. Len(sealing.todo) : \A i \in Finishing' : sealing.todo[l][2] # calls'[i].sentinel
      BY <2>3 DEF IInv, Apart
    <3>5. \A k, l \in 1 .. Len(sealing.todo) : sealing.todo[k][2] = sealing.todo[l][2] => k = l
      BY DEF IInv, Apart
    <3>6. QED
      BY <3>2, <3>3, <3>4, <3>5 DEF Apart
  <2>13. Awaited'
    <3> SUFFICES ASSUME NEW x \in Value', vals'[x].ty = "invalid" PROVE InPhis(x)' \/ InTodo(x)' \/ InCalls(x)'
      BY DEF Awaited
    <3>1. CASE x = s
      <4>1. Len(undef_phis[b]) + 1 \in 1 .. Len(undef_phis'[b]) /\ undef_phis'[b][Len(undef_phis[b]) + 1][2] = s
        BY <1>4, <2>6, <2>7
      <4>2. QED
        BY <1>4, <3>1, <4>1 DEF InPhis
    <3>2. CASE x # s
      <4>1. x \in Value /\ vals[x].ty = "invalid"
        BY <1>3, <3>2
      <4>2. CASE InPhis(x)
        <5>1. PICK c \in 1 .. NumBlocks : \E k \in 1 .. Len(undef_phis[c]) : undef_phis[c][k][2] = x
          BY <4>2 DEF InPhis
        <5>2. \A k \in 1 .. Len(undef_phis[c]) : k \in 1 .. Len(undef_phis'[c]) /\ undef_phis'[c][k] = undef_phis[c][k]
          BY <2>6, <2>7
        <5>3. QED
          BY <5>1, <5>2 DEF InPhis
      <4>3. CASE InTodo(x)
        BY <4>3 DEF InTodo
      <4>4. CASE InCalls(x)
        BY <2>1, <2>2, <4>4 DEF InCalls
      <4>5. QED
        BY <4>1, <4>2, <4>3, <4>4 DEF IInv, Awaited
    <3>3. QED
      BY <3>1, <3>2
  <2>14. QED
    BY <1>2, <1>8, <1>9, <1>10, <1>18, <2>2, <2>10, <2>11, <2>12, <2>13 DEF IInv
<1>21. QED
  BY <1>19, <1>20

\* use_var, by a read or a copy.
LEMMA StartInvariant ==
  ASSUME IInv, NEW v \in Place, Building, use_var(v, position),
         pending' \in Operation, pending' # NoCaller, touched' = touched \cup {position},
         UNCHANGED <<position, filled, code, succs, phase>>
  PROVE  IInv'
<1>1. /\ phase = "build" /\ calls = <<>> /\ results = <<>> /\ pending = NoCaller
      /\ sealing = NotSealing /\ sealing.block = 0 /\ sealing.todo = <<>>
      /\ Finishing = {} /\ position \in Block /\ Block \subseteq 1 .. NumBlocks
  BY WhenBuilding
<1>2. var' = v /\ UNCHANGED <<created, preds, sealed, sealing>>
  BY DEF use_var, cfgVars
<1>3. CASE variables[v][position] # None
  <2>1. results' = <<variables[v][position]>> /\ UNCHANGED <<calls, vals, variables, undef_phis>>
    BY <1>3 DEF use_var
  <2>2. Block' = Block /\ Value' = Value
    BY <1>2, <2>1 DEF Block, Value
  <2>3. Graph' /\ Edges'
    <3>1. Graph /\ Edges
      BY DEF IInv
    <3>2. touched' \subseteq Block /\ filled \subseteq touched'
      BY <1>1, <3>1 DEF Graph
    <3>3. /\ UNCHANGED <<created, position, phase, succs, filled>>
          /\ preds' = preds /\ sealed' = sealed
      BY <1>2
    <3>4. Graph'
      BY <2>2, <3>1, <3>2, <3>3 DEF Graph
    <3>5. Edges'
      BY <2>2, <3>1, <3>3 DEF Edges
    <3>6. QED
      BY <3>4, <3>5
  <2>4. Values' /\ AliasOrder'
    BY <2>1, ValuesKept DEF IInv
  <2>5. Phis'
    BY <1>2, <2>1, <2>2, PhisKept DEF IInv
  <2>6. Tables'
    BY <2>1, <2>2 DEF IInv, Tables
  <2>7. results' \in Seq(Value) /\ Len(results') = 1
    <3>1. variables[v][position] \in Value
      <4>1. variables \in [Place -> [1 .. NumBlocks -> 0 .. Len(vals)]] /\ Len(vals) \in Nat
        BY DEF IInv, Tables, Values
      <4>2. variables[v] \in [1 .. NumBlocks -> 0 .. Len(vals)] /\ position \in 1 .. NumBlocks
        BY <1>1, <4>1
      <4>3. variables[v][position] \in 0 .. Len(vals)
        BY <4>2
      <4>4. QED
        BY <1>3, <4>1, <4>3 DEF Value, None
    <3>2. QED
      BY <2>1, <3>1
  <2>8. Stages' /\ OperandsDefined'
    BY <1>1, <1>2, <2>1, <2>7 DEF Stages, OperandsDefined
  <2>9. Frames' /\ Stack' /\ Finishing' = {}
    BY <1>1, <2>1, <2>2, <2>7, NoCalls DEF Stack
  <2>10. Waiting'
    <3>1. touched \subseteq touched'
      OBVIOUS
    <3>2. QED
      BY <1>2, <2>1, <2>2, <3>1 DEF IInv, Waiting, Requested
  <2>11. Apart' /\ Awaited'
    BY <1>1, <1>2, <2>1, <2>2, <2>9 DEF IInv, Apart, Awaited, InPhis, InTodo, InCalls
  <2>12. QED
    BY <2>3, <2>4, <2>5, <2>6, <2>8, <2>9, <2>10, <2>11 DEF IInv
<1>4. CASE variables[v][position] = None
  <2>1. use_var_nonlocal(<<>>, v, position)
    BY <1>4 DEF use_var
  <2>2. Below(<<>>, results, v)
    BY <1>1, BelowNothing
  <2>3. FinishesIn(<<>>) = {}
    BY DEF FinishesIn
  <2>4. position \in touched' /\ touched' \in {touched, touched \cup {position}}
    OBVIOUS
  <2>5. QED
    BY <1>1, <1>2, <1>4, <2>1, <2>2, <2>3, <2>4, NonlocalStep
<1>5. QED
  BY <1>3, <1>4

\* The instructions: a definition, or a read that starts a lookup.
LEMMA ReadInvariant ==
  ASSUME IInv, Insert
  PROVE  IInv'
<1>1. CASE \E v \in Place : def_var(v)
  BY <1>1, DefVarInvariant
<1>2. CASE \E v \in Place : StartRead(v)
  <2>1. PICK v \in Place : StartRead(v)
    BY <1>2
  <2>2. /\ Building /\ use_var(v, position) /\ pending' = Read(v, None) /\ touched' = touched \cup {position}
        /\ UNCHANGED <<position, filled, code, succs, phase>>
    BY <2>1 DEF StartRead
  <2>3. pending' \in Operation /\ pending' # NoCaller
    BY <2>2 DEF Read, None, Operation, NoCaller
  <2>4. QED
    BY <2>2, <2>3, StartInvariant
<1>3. CASE \E v \in Place : \E w \in Place \ {v} : StartCopy(v, w)
  <2>1. PICK v \in Place, w \in Place : StartCopy(v, w)
    BY <1>3
  <2>2. /\ Building /\ use_var(w, position) /\ pending' = Copy(v, w, None) /\ touched' = touched \cup {position}
        /\ UNCHANGED <<position, filled, code, succs, phase>>
    BY <2>1 DEF StartCopy
  <2>3. pending' \in Operation /\ pending' # NoCaller
    BY <2>2 DEF Copy, None, Operation, NoCaller
  <2>4. QED
    BY <2>2, <2>3, StartInvariant
<1>4. QED
  BY <1>1, <1>2, <1>3 DEF Insert

\* While a lookup is under way the function is being built.
LEMMA WhenLooking ==
  ASSUME IInv, calls # <<>>
  PROVE  /\ phase = "build" /\ var \in Place
         /\ sealing # NotSealing => variables[var][sealing.block] # None
         /\ IF pending = NoCaller THEN sealing # NotSealing ELSE sealing = NotSealing
         /\ pending \in Operation \cup {NoCaller}
BY DEF IInv, Stages, Tables

\* A step of a lookup under way that returns w from its block, with no new values.
LEMMA ReturnInvariant ==
  ASSUME IInv, calls # <<>>, NEW rs, NEW w \in Value, calls' = Front(calls),
         Below(Front(calls), rs, var), results' = Append(rs, w), vals[w].ty # "alias",
         Top.call = "use",
         UNCHANGED <<created, preds, sealed, sealing, position, filled, succs, code, phase, vals,
                     variables, undef_phis, touched, pending, var>>
  PROVE  IInv'
<1> DEFINE cs == Front(calls)
<1>1. /\ Len(calls) \in Nat \ {0} /\ cs \in Seq(Call) /\ Len(cs) = Len(calls) - 1
      /\ \A k \in 1 .. Len(calls) - 1 : cs[k] = calls[k]
      /\ Top = calls[Len(calls)]
  BY BelowTop
<1> HIDE DEF cs
<1>2. Finishing = FinishesIn(cs) /\ \A i \in FinishesIn(cs) : cs[i] = calls[i]
  <2>1. \A i \in 1 .. Len(calls) : calls[i].call = "finish" => i # Len(calls)
    BY <1>1
  <2>2. QED
    BY <1>1, <2>1 DEF Finishing, FinishesIn
<1>3. Block' = Block /\ Value' = Value
  BY DEF Block, Value
<1>4. Steady(cs, rs, var)
  BY <1>3 DEF Steady, Below, cs
<1>5. Frames' /\ Stack' /\ Finishing' = FinishesIn(cs) /\ (cs = <<>> => Len(results') = 1)
  BY <1>3, <1>4, ReturnStack DEF cs, IInv
<1>6. Graph' /\ Edges' /\ Tables' /\ OperandsDefined'
  BY <1>3 DEF IInv, Graph, Edges, Tables, OperandsDefined
<1>7. Values' /\ AliasOrder'
  BY ValuesKept DEF IInv
<1>8. Phis'
  BY <1>3, PhisKept DEF IInv
<1>9. Stages'
  BY <1>3, <1>5 DEF IInv, Stages, cs
<1>10. Waiting'
  BY <1>3 DEF IInv, Waiting, Requested
<1>11. \A i \in Finishing' : i \in Finishing /\ calls'[i] = calls[i]
  BY <1>2, <1>5 DEF cs
<1>12. Apart'
  BY <1>11 DEF IInv, Apart
<1>13. Awaited'
  BY <1>2, <1>3, <1>5, <1>11 DEF IInv, Awaited, InPhis, InTodo, InCalls
<1>14. QED
  BY <1>5, <1>6, <1>7, <1>8, <1>9, <1>10, <1>12, <1>13 DEF IInv

\* One round of run_state_machine at a use: the local definition, or a lookup more.
LEMMA LookupUseInvariant ==
  ASSUME IInv, LookupUse, UNCHANGED builder, UNCHANGED phase
  PROVE  IInv'
<1> DEFINE cs == Front(calls)
           b  == Top.block
<1>1. /\ calls # <<>> /\ Top.call = "use" /\ UNCHANGED <<created, preds, sealed, var, sealing>>
      /\ UNCHANGED <<position, filled, touched, code, succs, pending, phase>>
  BY DEF LookupUse, cfgVars, builder
<1>2. /\ phase = "build" /\ var \in Place
      /\ sealing # NotSealing => variables[var][sealing.block] # None
      /\ IF pending = NoCaller THEN sealing # NotSealing ELSE sealing = NotSealing
      /\ pending \in Operation \cup {NoCaller}
  BY <1>1, WhenLooking
<1>3. /\ Len(calls) \in Nat \ {0} /\ cs \in Seq(Call) /\ Len(cs) = Len(calls) - 1
      /\ \A k \in 1 .. Len(calls) - 1 : cs[k] = calls[k]
      /\ Top = calls[Len(calls)] /\ Top \in Call /\ b \in Block
      /\ Below(cs, SubSeq(results, 1, Len(results) - Takes(Top)), var)
  BY <1>1, BelowTop
<1>4. Takes(Top) = 0
  BY <1>1, <1>3, TakesIs DEF IInv
<1>5. SubSeq(results, 1, Len(results) - Takes(Top)) = results
  <2>1. results \in Seq(Value) /\ Len(results) \in Nat
    BY DEF IInv, Stack
  <2>2. Len(results) - Takes(Top) = Len(results)
    BY <1>4, <2>1
  <2>3. QED
    BY <2>1, <2>2, SubSeqFull
<1>6. Below(cs, results, var)
  BY <1>3, <1>5
<1>7. b \in touched /\ b \in 1 .. NumBlocks
  <2>1. Len(calls) \in 1 .. Len(calls)
    BY <1>3
  <2>2. b \in touched
    BY <1>1, <1>3, <2>1 DEF IInv, Frames
  <2>3. QED
    BY <1>3, <2>2, SSABuilderAssumption DEF IInv, Graph, Block
<1>8. CASE variables[var][b] # None
  <2>1. /\ results' = Append(results, resolve_alias(variables[var][b])) /\ calls' = cs
        /\ UNCHANGED <<vals, variables, undef_phis>>
    BY <1>1, <1>8 DEF LookupUse
  <2>2. variables[var][b] \in Value
    <3>1. variables \in [Place -> [1 .. NumBlocks -> 0 .. Len(vals)]] /\ Len(vals) \in Nat
      BY DEF IInv, Tables, Values
    <3>2. variables[var][b] \in 0 .. Len(vals)
      BY <1>2, <1>7, <3>1
    <3> HIDE DEF b
    <3>3. QED
      BY <1>8, <3>1, <3>2 DEF Value, None
  <2>3. resolve_alias(variables[var][b]) \in Value /\ vals[resolve_alias(variables[var][b])].ty # "alias"
    BY <2>2, ResolveEnds DEF IInv
  <2>4. QED
    BY <1>1, <1>6, <2>1, <2>3, ReturnInvariant
<1>9. CASE variables[var][b] = None
  <2>1. use_var_nonlocal(cs, var, b)
    BY <1>1, <1>9 DEF LookupUse
  <2>2. Finishing = FinishesIn(cs) /\ \A i \in FinishesIn(cs) : cs[i] = calls[i]
    <3>1. \A i \in 1 .. Len(calls) : calls[i].call = "finish" => i # Len(calls)
      BY <1>1, <1>3
    <3> HIDE DEF cs
    <3>2. QED
      BY <1>3, <3>1 DEF Finishing, FinishesIn
  <2>3. pending' \in Operation \cup {NoCaller}
        /\ IF pending' = NoCaller THEN sealing # NotSealing ELSE sealing = NotSealing
    BY <1>1, <1>2
  <2>4. touched' \in {touched, touched \cup {b}} /\ b \in touched'
    BY <1>1, <1>7
  <2> HIDE DEF cs, b
  <2>5. QED
    BY <1>1, <1>2, <1>3, <1>6, <1>9, <2>1, <2>2, <2>3, <2>4, NonlocalStep
<1>10. QED
  BY <1>8, <1>9

\* What a lookup makes of its sentinel s: an alias of a value that is none and not s
\* itself, or a phi with an argument for every predecessor.
Resolved(def, s, b) ==
  /\ def \in Definition
  /\ \/ /\ def.ty = "alias" /\ def.to \in Value \ {s} /\ vals[def.to].ty # "alias"
     \/ /\ def.ty = "phi" /\ def.block = b /\ DOMAIN def.args = ToSet(preds[b])
        /\ \A p \in ToSet(preds[b]) : def.args[p] \in Value

\* finish_predecessors_lookup makes an alias of another value that is none itself, or
\* a phi with an argument for each predecessor.
LEMMA FinishIs ==
  ASSUME Graph, Values, NEW b \in Block, NEW s \in Value, vals[s].ty = "invalid",
         NEW found \in Seq(Value), Len(found) = Len(preds[b]),
         \A k \in 1 .. Len(found) : vals[found[k]].ty # "alias"
  PROVE  Resolved(finish_predecessors_lookup(s, b, found), s, b)
<1> DEFINE yielded == {found[k] : k \in 1 .. Len(found)} \ {s}
           arg(p)  == found[SelectInSeq(preds[b], LAMBDA e : e = p)]
           def     == finish_predecessors_lookup(s, b, found)
<1>1. preds[b] \in Seq(Block) /\ Block \in SUBSET Nat /\ Len(vals) \in Nat
  <2>1. b \in 1 .. NumBlocks /\ Block \in SUBSET Nat
    BY SSABuilderAssumption DEF Graph, Block
  <2>2. preds[b] \in Seq(Block)
    BY <2>1 DEF Graph
  <2>3. QED
    BY <2>1, <2>2 DEF Values
<1>2. \A x \in Value : x \in Nat
  BY <1>1 DEF Value
<1>3. ASSUME NEW p \in ToSet(preds[b]) PROVE arg(p) \in Value /\ p \in Nat
  <2> DEFINE I == {i \in 1 .. Len(preds[b]) : preds[b][i] = p}
  <2>1. SelectInSeq(preds[b], LAMBDA e : e = p) = First(I)
    BY DEF SelectInSeq, First
  <2>2. DOMAIN preds[b] = 1 .. Len(preds[b]) /\ Len(preds[b]) \in Nat
    BY <1>1
  <2>3. PICK k \in 1 .. Len(preds[b]) : p = preds[b][k]
    BY <2>2 DEF ToSet
  <2>4. k \in I /\ I \in SUBSET Nat
    BY <2>3
  <2>5. First(I) \in I
    <3> HIDE DEF I
    <3>1. QED
      BY <2>4, FirstIs
  <2>6. First(I) \in 1 .. Len(found)
    BY <2>5
  <2> HIDE DEF I
  <2>7. found[First(I)] \in Value
    BY <2>6
  <2>8. p \in Block
    BY <1>1, <2>3
  <2>9. QED
    BY <1>1, <2>1, <2>7, <2>8
<1>4. CASE yielded = {}
  <2>1. def = Alias(GRAVESTONE)
    BY <1>4 DEF finish_predecessors_lookup
  <2>2. GRAVESTONE \in Value /\ vals[GRAVESTONE].ty = "inst" /\ GRAVESTONE # s
    BY DEF Values, Inst
  <2>3. def.ty = "alias" /\ def.to = GRAVESTONE /\ def \in Definition
    BY <1>2, <2>1, <2>2 DEF Alias, Definition
  <2>4. QED
    BY <2>2, <2>3 DEF Resolved
<1>5. CASE yielded # {} /\ Cardinality(yielded) = 1
  <2>1. def = Alias(CHOOSE v \in yielded : TRUE)
    BY <1>5 DEF finish_predecessors_lookup
  <2>2. PICK w \in yielded : def = Alias(w)
    BY <1>5, <2>1
  <2>3. w \in Value \ {s} /\ vals[w].ty # "alias"
    OBVIOUS
  <2>4. def.ty = "alias" /\ def.to = w /\ def \in Definition
    BY <1>2, <2>2, <2>3 DEF Alias, Definition
  <2>5. QED
    BY <2>3, <2>4 DEF Resolved
<1>6. CASE yielded # {} /\ Cardinality(yielded) # 1
  <2>1. def = PhiNode(b, [p \in ToSet(preds[b]) |-> arg(p)])
    BY <1>6 DEF finish_predecessors_lookup
  <2> HIDE DEF arg, def
  <2>2. PICK args : args = [p \in ToSet(preds[b]) |-> arg(p)]
    OBVIOUS
  <2>3. DOMAIN args = ToSet(preds[b]) /\ \A p \in ToSet(preds[b]) : args[p] \in Value
    BY <1>3, <2>2
  <2>4. ToSet(preds[b]) \in SUBSET Nat /\ args \in [ToSet(preds[b]) -> Nat] /\ b \in Nat
    BY <1>1, <1>2, <1>3, <2>2
  <2>5. def.ty = "phi" /\ def.block = b /\ def.args = args
    BY <2>1, <2>2 DEF PhiNode
  <2>6. def \in [ty : {"phi"}, block : Nat, args : [ToSet(preds[b]) -> Nat]]
    BY <2>1, <2>2, <2>4 DEF PhiNode
  <2>7. def \in Definition
    BY <2>4, <2>6 DEF Definition
  <2>8. QED
    BY <2>3, <2>5, <2>7 DEF Resolved, def
<1>7. QED
  BY <1>4, <1>5, <1>6

\* The values after a sentinel s of block b has got its definition.
LEMMA ValuesResolved ==
  ASSUME Values, AliasOrder, NEW s \in Value, NEW b, NEW def, vals[s].ty = "invalid",
         Resolved(def, s, b), vals' = [vals EXCEPT ![s] = def]
  PROVE  /\ Values' /\ AliasOrder' /\ Value' = Value
         /\ \A x \in Value : vals'[x] = IF x = s THEN def ELSE vals[x]
<1>1. vals \in Seq(Definition) /\ def \in Definition /\ s \in 1 .. Len(vals)
  BY DEF Values, Resolved, Value
<1>2. /\ vals' \in Seq(Definition) /\ Len(vals') = Len(vals)
      /\ \A x \in 1 .. Len(vals) : vals'[x] = IF x = s THEN def ELSE vals[x]
  BY <1>1, ExceptSeq
<1>3. Value' = Value /\ \A x \in Value : vals'[x] = IF x = s THEN def ELSE vals[x]
  BY <1>2 DEF Value
<1>4. Values'
  <2>1. GRAVESTONE \in Value /\ GRAVESTONE # s /\ vals[GRAVESTONE] = Inst
    BY DEF Values, Inst
  <2>2. \A x \in Value : vals'[x].ty = "alias" => vals'[x].to \in Value
    BY <1>3 DEF Values, Resolved
  <2>3. QED
    BY <1>2, <1>3, <2>1, <2>2 DEF Values
<1>5. IsFiniteSet(AliasValues) /\ Cardinality(AliasValues) \in Nat /\ s \notin AliasValues
  BY AliasCount DEF AliasValues, Values
<1>6. PICK made \in [AliasValues -> Nat] : InOrder(made)
  BY DEF AliasOrder
<1>7. CASE def.ty = "alias"
  <2>1. AliasValues' = AliasValues \cup {s}
    BY <1>3, <1>7 DEF AliasValues
  <2>2. Cardinality(AliasValues') = Cardinality(AliasValues) + 1
    BY <1>5, <2>1, FS_AddElement
  <2>3. PICK N \in Nat : N = Cardinality(AliasValues)
    BY <1>5
  <2>4. PICK made2 : made2 = [x \in AliasValues \cup {s} |-> IF x = s THEN N ELSE made[x]]
    OBVIOUS
  <2>5. made2 \in [AliasValues' -> Nat]
    BY <1>6, <2>1, <2>3, <2>4
  <2>6. def.to \in Value \ {s} /\ def.to \notin AliasValues
    BY <1>7 DEF Resolved, AliasValues
  <2>7. ASSUME NEW x \in AliasValues'
        PROVE  made2[x] < N + 1 /\ (vals'[x].to \in AliasValues' => made2[x] < made2[vals'[x].to])
    <3>1. CASE x = s
      <4>1. vals'[x].to = def.to /\ def.to \notin AliasValues'
        BY <1>3, <2>1, <2>6, <3>1
      <4>2. made2[x] = N
        BY <2>4, <3>1
      <4>3. QED
        BY <2>3, <4>1, <4>2
    <3>2. CASE x # s
      <4>1. x \in AliasValues /\ x \in Value /\ vals'[x] = vals[x]
        BY <1>3, <2>1, <3>2 DEF AliasValues
      <4>2. made2[x] = made[x] /\ made[x] \in Nat /\ made[x] < N
        BY <1>6, <2>3, <2>4, <3>2, <4>1 DEF InOrder
      <4>3. CASE vals[x].to = s
        <5>1. made2[vals'[x].to] = N
          BY <2>4, <4>1, <4>3
        <5>2. QED
          BY <2>3, <4>2, <5>1
      <4>4. CASE vals[x].to # s
        <5>1. vals'[x].to \in AliasValues' => vals[x].to \in AliasValues /\ made2[vals[x].to] = made[vals[x].to]
          BY <2>1, <2>4, <4>1, <4>4
        <5>2. vals[x].to \in AliasValues => made[x] < made[vals[x].to]
          BY <1>6, <4>1 DEF InOrder
        <5>3. QED
          BY <2>3, <4>1, <4>2, <5>1, <5>2
      <4>5. QED
        BY <4>3, <4>4
    <3>3. QED
      BY <3>1, <3>2
  <2>8. InOrder(made2)'
    BY <2>2, <2>3, <2>7 DEF InOrder
  <2>9. QED
    BY <1>3, <1>4, <2>5, <2>8 DEF AliasOrder
<1>8. CASE def.ty # "alias"
  <2>1. AliasValues' = AliasValues /\ \A x \in AliasValues : vals'[x] = vals[x]
    BY <1>3, <1>5, <1>8 DEF AliasValues
  <2>2. InOrder(made)'
    BY <1>6, <2>1 DEF InOrder
  <2>3. QED
    BY <1>3, <1>4, <1>6, <2>1, <2>2 DEF AliasOrder
<1>9. QED
  BY <1>7, <1>8

\* The predecessors of a block are known: its sentinel gets a definition.
LEMMA LookupFinishInvariant ==
  ASSUME IInv, LookupFinish, UNCHANGED builder, UNCHANGED phase
  PROVE  IInv'
<1> DEFINE cs    == Front(calls)
           b     == Top.block
           s     == Top.sentinel
           n     == Len(calls)
           kept  == Len(results) - Len(preds[Top.block])
           found == SubSeq(results, kept + 1, Len(results))
           rs    == SubSeq(results, 1, kept)
           def   == finish_predecessors_lookup(s, b, found)
           w     == IF def.ty = "alias" THEN def.to ELSE s
<1>1. /\ calls # <<>> /\ Top.call # "use" /\ calls' = cs
      /\ UNCHANGED <<created, preds, sealed, undef_phis, var, sealing>>
      /\ UNCHANGED <<position, filled, touched, code, succs, pending, phase>>
  BY DEF LookupFinish, cfgVars, builder
<1>2. /\ phase = "build" /\ var \in Place
      /\ sealing # NotSealing => variables[var][sealing.block] # None
      /\ IF pending = NoCaller THEN sealing # NotSealing ELSE sealing = NotSealing
      /\ pending \in Operation \cup {NoCaller}
  BY <1>1, WhenLooking
<1>3. /\ n \in Nat \ {0} /\ cs \in Seq(Call) /\ Len(cs) = n - 1
      /\ \A k \in 1 .. n - 1 : cs[k] = calls[k]
      /\ Top = calls[n] /\ Top \in Call /\ b \in Block
      /\ Takes(Top) \in Nat /\ Takes(Top) <= Len(results)
      /\ Below(cs, SubSeq(results, 1, Len(results) - Takes(Top)), var)
      /\ Top.call = "finish" => \A k \in 1 .. Len(results) - Takes(Top) : results[k] # s
  BY <1>1, BelowTop
<1>4. Top.call = "finish" /\ Takes(Top) = Len(preds[b]) /\ Len(results) - Takes(Top) = kept
  BY <1>1, <1>3, TakesIs DEF IInv
<1>5. n \in Finishing
  BY <1>3, <1>4 DEF Finishing
<1>6. s \in Value /\ vals[s].ty = "invalid" /\ b \in sealed \cup {sealing.block}
  BY <1>3, <1>5 DEF IInv, Frames
<1>7. /\ results \in Seq(Value) /\ Len(results) \in Nat /\ kept \in Nat /\ kept <= Len(results)
      /\ \A k \in 1 .. Len(results) : results[k] \in Value /\ vals[results[k]].ty # "alias"
  <2>1. /\ results \in Seq(Value) /\ Len(results) \in Nat
        /\ \A k \in 1 .. Len(results) : results[k] \in Value /\ vals[results[k]].ty # "alias"
    BY <1>1 DEF IInv, Stack
  <2> HIDE DEF kept, b
  <2>2. QED
    BY <1>3, <1>4, <2>1
<1>8. /\ found \in Seq(Value) /\ Len(found) = Len(preds[b])
      /\ \A k \in 1 .. Len(found) : vals[found[k]].ty # "alias"
  <2>1. Len(results) - kept = Takes(Top) /\ Takes(Top) \in Nat
    <3> HIDE DEF kept
    <3>1. QED
      BY <1>3, <1>4, <1>7
  <2> HIDE DEF kept, b
  <2>2. /\ found \in Seq(Value) /\ Len(found) = IF kept + 1 <= Len(results) THEN (Len(results) - (kept + 1)) + 1 ELSE 0
        /\ \A k \in 1 .. (Len(results) - (kept + 1)) + 1 : found[k] = results[((kept + 1) + k) - 1]
    <3>1. kept + 1 \in Int /\ Len(results) \in Int /\ \A k \in kept + 1 .. Len(results) : results[k] \in Value
      BY <1>7
    <3>2. QED
      BY <3>1, SubSeqProperties
  <2> HIDE DEF found
  <2>3. Len(found) = Len(results) - kept
    BY <1>7, <2>2
  <2>4. ASSUME NEW k \in 1 .. Len(found) PROVE vals[found[k]].ty # "alias"
    <3>1. found[k] = results[((kept + 1) + k) - 1] /\ ((kept + 1) + k) - 1 \in 1 .. Len(results)
      BY <1>7, <2>2, <2>3
    <3>2. QED
      BY <1>7, <3>1
  <2>5. QED
    BY <1>4, <2>1, <2>2, <2>3, <2>4
<1> HIDE DEF found
<1>9. Resolved(def, s, b)
  BY <1>3, <1>6, <1>8, FinishIs DEF IInv
<1>10. /\ vals' = [vals EXCEPT ![s] = def] /\ results' = Append(rs, w) /\ variables' = variables
  BY <1>1, <1>4 DEF LookupFinish, found
<1>11. Below(cs, rs, var)
  BY <1>3, <1>4
<1> HIDE DEF cs, b, s, n, kept, def
<1>12. /\ Values' /\ AliasOrder' /\ Value' = Value
       /\ \A x \in Value : vals'[x] = IF x = s THEN def ELSE vals[x]
  <2>1. Values /\ AliasOrder
    BY DEF IInv
  <2>2. s \in Value /\ vals[s].ty = "invalid" /\ vals' = [vals EXCEPT ![s] = def]
    BY <1>6, <1>10
  <2>3. QED
    BY <1>9, <2>1, <2>2, ValuesResolved
<1>13. w \in Value /\ vals'[w].ty # "alias"
  BY <1>6, <1>9, <1>12 DEF Resolved
<1> HIDE DEF w
<1>14. /\ rs \in Seq(Value) /\ Len(rs) = kept
       /\ \A k \in 1 .. kept : rs[k] = results[k] /\ rs[k] # s /\ rs[k] \in Value
  <2>1. rs \in Seq(Value) /\ Len(rs) = kept /\ \A k \in 1 .. kept : rs[k] = results[k] /\ rs[k] \in Value
    BY <1>7
  <2>2. QED
    BY <1>3, <1>4, <2>1
<1> HIDE DEF rs
<1>15. Finishing = FinishesIn(cs) \cup {n} /\ \A i \in FinishesIn(cs) : cs[i] = calls[i] /\ i # n
  BY <1>3, <1>5 DEF Finishing, FinishesIn, n
<1>16. \A i \in FinishesIn(cs) : /\ cs[i].sentinel \in Value /\ cs[i].sentinel # s
                                 /\ vals[cs[i].sentinel].ty = "invalid"
  BY <1>3, <1>15 DEF IInv, Frames, s
<1>17. Block' = Block
  BY <1>1 DEF Block
<1>18. Steady(cs, rs, var)
  <2>1. \A i \in FinishesIn(cs) : vals'[cs[i].sentinel].ty = "invalid"
    BY <1>12, <1>16
  <2>2. \A k \in 1 .. Len(rs) : vals'[rs[k]].ty # "alias"
    BY <1>7, <1>11, <1>12, <1>14 DEF Below
  <2>3. QED
    BY <1>1, <1>10, <1>12, <2>1, <2>2 DEF Steady
<1>19. Frames' /\ Stack' /\ Finishing' = FinishesIn(cs) /\ (cs = <<>> => Len(results') = 1)
  BY <1>1, <1>10, <1>11, <1>12, <1>13, <1>18, ReturnStack DEF IInv
<1>20. \A i \in Finishing' : i \in Finishing /\ i # n /\ calls'[i] = calls[i]
  BY <1>1, <1>15, <1>19
<1>21. Graph' /\ Edges' /\ OperandsDefined'
  BY <1>1, <1>2, <1>17 DEF IInv, Graph, Edges, OperandsDefined
<1>22. Phis'
  <2> SUFFICES ASSUME NEW x \in Value, vals'[x].ty = "phi"
               PROVE  /\ vals'[x].block \in Block
                      /\ DOMAIN vals'[x].args = {p \in Block : vals'[x].block \in succs[p]}
                      /\ \A p \in DOMAIN vals'[x].args : vals'[x].args[p] \in Value
                      /\ vals'[x].block \in sealed \cup {sealing.block}
    BY <1>1, <1>12, <1>17 DEF Phis
  <2>1. CASE x = s
    <3>1. /\ vals'[x] = def /\ def.block = b /\ DOMAIN def.args = ToSet(preds[b])
          /\ \A p \in ToSet(preds[b]) : def.args[p] \in Value
      BY <1>9, <1>12, <2>1 DEF Resolved
    <3>2. b \in Block /\ b \in 1 .. NumBlocks
      BY <1>3, SSABuilderAssumption DEF IInv, Graph, Block
    <3>3. ToSet(preds[b]) = {p \in Block : b \in succs[p]}
      BY <1>2, <3>2 DEF IInv, Edges
    <3>4. QED
      BY <1>6, <3>1, <3>2, <3>3
  <2>2. CASE x # s
    <3>1. vals'[x] = vals[x]
      BY <1>12, <2>2
    <3>2. QED
      BY <1>2, <3>1 DEF IInv, Phis
  <2>3. QED
    BY <2>1, <2>2
<1>23. Tables'
  <2>1. Len(vals') = Len(vals)
    BY <1>6, <1>10 DEF IInv, Values, Value
  <2>2. QED
    BY <1>1, <1>10, <1>12, <2>1 DEF IInv, Tables
<1>24. Stages'
  BY <1>1, <1>2, <1>10, <1>17, <1>19 DEF IInv, Stages
<1>25. /\ \A c \in 1 .. NumBlocks : \A k \in 1 .. Len(undef_phis[c]) : undef_phis[c][k][2] # s
       /\ \A k \in 1 .. Len(sealing.todo) : sealing.todo[k][2] # s
  BY <1>3, <1>5 DEF IInv, Apart, s
<1>26. Waiting'
  BY <1>1, <1>10, <1>12, <1>25 DEF IInv, Waiting, Requested
<1>27. Apart'
  BY <1>1, <1>20 DEF IInv, Apart
<1>28. Awaited'
  <2> SUFFICES ASSUME NEW x \in Value, vals'[x].ty = "invalid" PROVE InPhis(x)' \/ InTodo(x)' \/ InCalls(x)'
    BY <1>12 DEF Awaited
  <2>1. x # s
    BY <1>9, <1>12 DEF Resolved
  <2>2. vals[x].ty = "invalid"
    BY <1>12, <2>1
  <2>3. CASE InPhis(x)
    BY <1>1, <2>3 DEF InPhis
  <2>4. CASE InTodo(x)
    BY <1>1, <2>4 DEF InTodo
  <2>5. CASE InCalls(x)
    <3>1. PICK i \in Finishing : calls[i].sentinel = x
      BY <2>5 DEF InCalls
    <3>2. i # n
      BY <1>3, <2>1, <3>1 DEF s
    <3>3. i \in Finishing' /\ calls'[i].sentinel = x
      BY <1>15, <1>19, <1>20, <3>1, <3>2
    <3>4. QED
      BY <3>3 DEF InCalls
  <2>6. QED
    BY <2>2, <2>3, <2>4, <2>5 DEF IInv, Awaited
<1>29. QED
  BY <1>12, <1>19, <1>21, <1>22, <1>23, <1>24, <1>26, <1>27, <1>28 DEF IInv

\* A block's predecessors have code.
LEMMA PredsTouched ==
  ASSUME IInv, phase = "build", NEW b \in Block
  PROVE  ToSet(preds[b]) \subseteq touched
<1>1. b \in 1 .. NumBlocks /\ Block \subseteq 1 .. NumBlocks
  BY SSABuilderAssumption DEF IInv, Graph, Block
<1>2. ToSet(preds[b]) = {p \in Block : b \in succs[p]} /\ filled \subseteq touched
  BY <1>1 DEF IInv, Edges, Graph
<1>3. \A p \in Block : b \in succs[p] => p \in filled
  BY <1>1 DEF IInv, Edges
<1>4. QED
  BY <1>2, <1>3

\* The next variable that waits for the predecessors of the block that is being sealed.
LEMMA SealNextInvariant ==
  ASSUME IInv, SealNext, UNCHANGED builder, UNCHANGED phase
  PROVE  IInv'
<1> DEFINE v == sealing.todo[1][1]
           s == sealing.todo[1][2]
           b == sealing.block
           T == sealing.todo
<1>1. /\ T # <<>> /\ calls = <<>> /\ var' = v /\ results' = <<>>
      /\ calls' = begin_predecessors_lookup(s, b) /\ sealing' = [sealing EXCEPT !.todo = Tail(@)]
      /\ UNCHANGED <<created, preds, sealed, undef_phis, variables, vals>>
      /\ UNCHANGED <<position, filled, touched, code, succs, pending, phase>>
  BY DEF SealNext, cfgVars, builder
<1>2. sealing # NotSealing /\ phase = "build" /\ pending = NoCaller /\ b \in Block \ sealed
      /\ undef_phis[b] = <<>>
  <2>1. sealing # NotSealing
    BY <1>1 DEF NotSealing
  <2>2. QED
    BY <2>1 DEF IInv, Stages
<1>3. Block' = Block /\ Value' = Value /\ Block \subseteq 1 .. NumBlocks
  BY <1>1, SSABuilderAssumption DEF Block, Value, IInv, Graph
<1>4. /\ sealing \in [block : 0 .. NumBlocks, todo : Entries]
      /\ T \in Entries /\ Len(T) \in Nat \ {0}
      /\ sealing'.block = b /\ sealing'.todo = Tail(T)
      /\ sealing' \in [block : 0 .. NumBlocks, todo : Entries]
  <2>1. sealing \in [block : 0 .. NumBlocks, todo : Entries]
    BY DEF IInv, Waiting
  <2>2. T \in Entries
    BY <2>1
  <2>3. Len(T) \in Nat \ {0} /\ Tail(T) \in Entries
    BY <1>1, <2>2 DEF Entries
  <2>4. sealing' = [sealing EXCEPT !.todo = Tail(T)]
    BY <1>1
  <2> HIDE DEF T
  <2>5. sealing'.todo = Tail(T) /\ sealing'.block = b /\ sealing' \in [block : 0 .. NumBlocks, todo : Entries]
    BY <2>1, <2>3, <2>4
  <2>6. QED
    BY <2>1, <2>2, <2>3, <2>5
<1>5. /\ Len(Tail(T)) = Len(T) - 1
      /\ \A k \in 1 .. Len(Tail(T)) : k + 1 \in 2 .. Len(T) /\ Tail(T)[k] = T[k + 1]
  <2>1. T # <<>> /\ T \in Seq(Place \X Nat)
    BY <1>1, <1>4 DEF Entries
  <2> HIDE DEF T
  <2>2. Len(Tail(T)) = Len(T) - 1 /\ \A k \in 1 .. Len(Tail(T)) : Tail(T)[k] = T[k + 1]
    BY <2>1, HeadTailProperties
  <2>3. QED
    BY <1>4, <2>2
<1>6. \A k \in 1 .. Len(T) : /\ T[k][1] \in Place /\ variables[T[k][1]][b] # None
                             /\ T[k][2] \in Value /\ vals[T[k][2]].ty = "invalid"
  BY DEF IInv, Waiting, Requested
<1>7. 1 \in 1 .. Len(T) /\ v \in Place /\ variables[v][b] # None /\ s \in Value /\ vals[s].ty = "invalid"
  BY <1>4, <1>6
<1>8. /\ \A k, l \in 1 .. Len(T) : T[k][2] = T[l][2] => k = l
      /\ \A c \in 1 .. NumBlocks : \A k \in 1 .. Len(undef_phis[c]) :
           \A l \in 1 .. Len(T) : undef_phis[c][k][2] # T[l][2]
      /\ \A c, d \in 1 .. NumBlocks : \A k \in 1 .. Len(undef_phis[c]), l \in 1 .. Len(undef_phis[d]) :
           undef_phis[c][k][2] = undef_phis[d][l][2] => c = d /\ k = l
  BY SMTT(30) DEF IInv, Apart
<1>9. Finishing = {} /\ FinishesIn(<<>>) = {} /\ Len(<<>>) = 0
  <2>1. Len(calls) = 0
    BY <1>1
  <2>2. QED
    BY <2>1 DEF Finishing, FinishesIn
<1>10. Graph /\ Graph' /\ Edges' /\ Tables' /\ OperandsDefined'
  BY <1>1, <1>2, <1>3 DEF IInv, Graph, Edges, Tables, OperandsDefined
<1>11. Values' /\ AliasOrder'
  BY <1>1, ValuesKept DEF IInv
<1>12. Phis'
  BY <1>1, <1>3, <1>4, PhisKept DEF IInv
<1> HIDE DEF v, s, b, T
<1>13. Pushes(<<>>, <<>>, v, b, s)
  <2>1. Below(<<>>, <<>>, v)
    BY BelowNothing
  <2>2. Steady(<<>>, <<>>, v)
    BY <1>1, <1>3, <1>4, <1>9 DEF Steady, b
  <2>3. calls' = <<>> \o begin_predecessors_lookup(s, b)
    <3>1. preds[b] \in Seq(Nat) /\ b \in Nat /\ s \in Nat
      <4>1. b \in 1 .. NumBlocks /\ Block \subseteq Nat
        BY <1>2, <1>3, SSABuilderAssumption
      <4>2. preds[b] \in Seq(Block)
        BY <1>10, <4>1 DEF Graph
      <4>3. preds[b] \in Seq(Nat)
        BY <4>1, <4>2, SeqMonotonic
      <4>4. QED
        BY <1>7, <4>1, <4>3 DEF Value
    <3>2. begin_predecessors_lookup(s, b) \in Seq(Call)
      BY <3>1, BeginLookup
    <3>3. <<>> \o begin_predecessors_lookup(s, b) = begin_predecessors_lookup(s, b)
      BY <3>2, ConcatEmptySeq
    <3>4. QED
      BY <1>1, <3>3
  <2>4. ToSet(preds[b]) \subseteq touched
    BY <1>2, PredsTouched
  <2>5. QED
    BY <1>1, <1>2, <1>3, <1>4, <1>7, <1>9, <2>1, <2>2, <2>3, <2>4 DEF Pushes
<1>14. /\ Frames' /\ Stack' /\ calls' # <<>>
       /\ Finishing' = {1} /\ calls'[1].sentinel = s
  <2>1. /\ Frames' /\ Stack' /\ calls' # <<>>
        /\ Finishing' = FinishesIn(<<>>) \cup {Len(<<>>) + 1}
        /\ calls'[Len(<<>>) + 1].sentinel = s
    BY <1>10, <1>13, PushStack
  <2>2. Len(<<>>) + 1 = 1
    BY <1>9
  <2>3. QED
    BY <1>9, <2>1, <2>2
<1>15. Stages'
  <2>1. sealing'.block # 0 /\ sealing' # NotSealing
    BY <1>2, <1>4 DEF NotSealing, None, Block
  <2>2. QED
    BY <1>1, <1>2, <1>3, <1>4, <1>7, <2>1 DEF Stages
<1>16. Waiting'
  <2>1. \A k \in 1 .. Len(Tail(T)) : /\ Tail(T)[k][1] \in Place /\ variables[Tail(T)[k][1]][b] # None
                                     /\ Tail(T)[k][2] \in Value /\ vals[Tail(T)[k][2]].ty = "invalid"
    BY <1>4, <1>5, <1>6
  <2>2. QED
    BY <1>1, <1>3, <1>4, <2>1 DEF IInv, Waiting, Requested
<1>17. Apart'
  <2>1. \A k, l \in 1 .. Len(Tail(T)) : Tail(T)[k][2] = Tail(T)[l][2] => k = l
    <3> SUFFICES ASSUME NEW k \in 1 .. Len(Tail(T)), NEW l \in 1 .. Len(Tail(T)),
                        Tail(T)[k][2] = Tail(T)[l][2]
                 PROVE  k = l
      OBVIOUS
    <3>1. k + 1 \in 1 .. Len(T) /\ l + 1 \in 1 .. Len(T) /\ T[k + 1][2] = T[l + 1][2]
      BY <1>4, <1>5
    <3>2. k + 1 = l + 1
      BY <1>8, <3>1
    <3>3. QED
      BY <1>4, <1>5, <3>2
  <2>2. \A c \in 1 .. NumBlocks : \A k \in 1 .. Len(undef_phis[c]) :
          /\ \A l \in 1 .. Len(Tail(T)) : undef_phis[c][k][2] # Tail(T)[l][2]
          /\ undef_phis[c][k][2] # s
    BY <1>4, <1>5, <1>7, <1>8 DEF s, T
  <2>3. \A l \in 1 .. Len(Tail(T)) : Tail(T)[l][2] # s
    <3> SUFFICES ASSUME NEW l \in 1 .. Len(Tail(T)), Tail(T)[l][2] = s PROVE FALSE
      OBVIOUS
    <3>1. l + 1 \in 1 .. Len(T) /\ T[l + 1][2] = T[1][2] /\ l + 1 # 1
      BY <1>4, <1>5 DEF s, T
    <3>2. QED
      BY <1>7, <1>8, <3>1
  <2>4. undef_phis' = undef_phis /\ sealing'.todo = Tail(T) /\ \A i \in Finishing' : calls'[i].sentinel = s
    BY <1>1, <1>4, <1>14
  <2>5. \A c, d \in 1 .. NumBlocks : \A k \in 1 .. Len(undef_phis'[c]), l \in 1 .. Len(undef_phis'[d]) :
          undef_phis'[c][k][2] = undef_phis'[d][l][2] => c = d /\ k = l
    BY <1>8, <2>4
  <2>6. \A k, l \in 1 .. Len(sealing'.todo) : sealing'.todo[k][2] = sealing'.todo[l][2] => k = l
    BY <2>1, <2>4
  <2>7. \A c \in 1 .. NumBlocks : \A k \in 1 .. Len(undef_phis'[c]) :
          /\ \A l \in 1 .. Len(sealing'.todo) : undef_phis'[c][k][2] # sealing'.todo[l][2]
          /\ \A i \in Finishing' : undef_phis'[c][k][2] # calls'[i].sentinel
    BY <2>2, <2>4
  <2>8. \A l \in 1 .. Len(sealing'.todo) : \A i \in Finishing' : sealing'.todo[l][2] # calls'[i].sentinel
    BY <2>3, <2>4
  <2>9. QED
    BY <2>5, <2>6, <2>7, <2>8 DEF Apart
<1>18. Awaited'
  <2> SUFFICES ASSUME NEW x \in Value, vals[x].ty = "invalid" PROVE InPhis(x)' \/ InTodo(x)' \/ InCalls(x)'
    BY <1>1, <1>3 DEF Awaited
  <2>1. CASE InPhis(x)
    BY <1>1, <2>1 DEF InPhis
  <2>2. CASE InTodo(x)
    <3>1. PICK k \in 1 .. Len(T) : T[k][2] = x
      BY <2>2 DEF InTodo, T
    <3>2. CASE k = 1
      BY <1>14, <3>1, <3>2 DEF InCalls, s, T
    <3>3. CASE k # 1
      <4>1. k - 1 \in 1 .. Len(Tail(T)) /\ (k - 1) + 1 = k
        BY <1>4, <1>5, <3>3
      <4>2. Tail(T)[k - 1][2] = x
        BY <1>5, <3>1, <4>1
      <4>3. QED
        BY <1>4, <4>1, <4>2 DEF InTodo
    <3>4. QED
      BY <3>2, <3>3
  <2>3. CASE InCalls(x)
    BY <1>9, <2>3 DEF InCalls
  <2>4. QED
    BY <2>1, <2>2, <2>3 DEF IInv, Awaited
<1>19. QED
  BY <1>10, <1>11, <1>12, <1>14, <1>15, <1>16, <1>17, <1>18 DEF IInv

\* Nobody waits for the predecessors of the block any more: it is sealed.
LEMMA SealEndInvariant ==
  ASSUME IInv, SealEnd, UNCHANGED builder, UNCHANGED phase
  PROVE  IInv'
<1>1. /\ sealing.block # None /\ sealing.todo = <<>> /\ calls = <<>>
      /\ sealed' = sealed \cup {sealing.block} /\ results' = <<>> /\ sealing' = NotSealing
      /\ UNCHANGED <<created, preds, undef_phis, variables, vals, calls>>
      /\ UNCHANGED <<position, filled, touched, code, succs, pending, phase>>
  BY DEF SealEnd, builder
<1>2. sealing # NotSealing
  BY <1>1 DEF NotSealing, None
<1>3. phase = "build" /\ pending = NoCaller /\ sealing.block \in Block \ sealed
      /\ undef_phis[sealing.block] = <<>>
  BY <1>2 DEF IInv, Stages
<1>4. Block' = Block /\ Value' = Value
  BY <1>1 DEF Block, Value
<1>5. sealing'.block = 0 /\ sealing'.todo = <<>> /\ Len(sealing'.todo) = 0 /\ Len(sealing.todo) = 0
      /\ sealing' \in [block : 0 .. NumBlocks, todo : Entries]
  BY <1>1, SSABuilderAssumption DEF NotSealing, None, Entries
<1>6. Graph' /\ Edges' /\ Tables'
  BY <1>1, <1>3, <1>4 DEF IInv, Graph, Edges, Tables
<1>7. Values' /\ AliasOrder'
  BY <1>1, ValuesKept DEF IInv
<1>8. Phis'
  BY <1>1, <1>4, PhisKept DEF IInv
<1>9. Frames' /\ Finishing' = {} /\ Finishing = {}
  <2>1. Len(calls) = 0
    BY <1>1
  <2>2. QED
    BY <1>1, <2>1, NoCalls DEF Finishing
<1>10. Stack' /\ Stages' /\ OperandsDefined'
  BY <1>1, <1>3 DEF Stack, Stages, OperandsDefined
<1>11. Waiting'
  <2>1. \A c \in 1 .. NumBlocks : \A k \in 1 .. Len(undef_phis[c]) :
          Requested(undef_phis[c][k], c) /\ c \in touched \ sealed
    BY DEF IInv, Waiting
  <2>2. \A c \in 1 .. NumBlocks : \A k \in 1 .. Len(undef_phis[c]) : c # sealing.block
    <3>1. Len(undef_phis[sealing.block]) = 0
      BY <1>3
    <3>2. QED
      BY <3>1
  <2>3. \A c \in 1 .. NumBlocks : \A k \in 1 .. Len(undef_phis[c]) :
          Requested(undef_phis[c][k], c) /\ c \in touched \ sealed'
    BY <1>1, <2>1, <2>2
  <2>4. QED
    BY <1>1, <1>4, <1>5, <2>3 DEF IInv, Waiting, Requested
<1>12. Apart'
  BY <1>1, <1>5, <1>9 DEF IInv, Apart
<1>13. Awaited'
  BY <1>1, <1>4, <1>5, <1>9 DEF IInv, Awaited, InPhis, InTodo, InCalls
<1>14. QED
  BY <1>6, <1>7, <1>8, <1>9, <1>10, <1>11, <1>12, <1>13 DEF IInv

\* finalize: everything that was waited for has come, and no operand is an alias.
LEMMA FinishInvariant ==
  ASSUME IInv, Finish
  PROVE  IInv'
<1>1. /\ Building /\ touched \subseteq sealed
      /\ code' = [b \in DOMAIN code |-> [k \in 1 .. Len(code[b]) |->
                    [code[b][k] EXCEPT !.val = resolve_alias(@)]]]
      /\ vals' = [v \in 1 .. Len(vals) |->
                    IF vals[v].ty = "phi"
                    THEN [vals[v] EXCEPT !.args = [p \in DOMAIN @ |-> resolve_alias(@[p])]]
                    ELSE vals[v]]
      /\ variables' = [v \in Place |-> [b \in 1 .. NumBlocks |-> None]]
      /\ preds' = [b \in 1 .. NumBlocks |-> <<>>] /\ sealed' = {}
      /\ undef_phis' = [b \in 1 .. NumBlocks |-> <<>>]
      /\ position' = Entry /\ filled' = {} /\ touched' = {} /\ phase' = "run"
      /\ UNCHANGED <<created, calls, results, var, sealing, succs, pending>>
  BY DEF Finish, MayFinalize, finalize, strip_alias, machine
<1>2. /\ phase = "build" /\ calls = <<>> /\ results = <<>> /\ pending = NoCaller
      /\ sealing = NotSealing /\ sealing.block = 0 /\ sealing.todo = <<>>
      /\ Finishing = {} /\ position \in Block /\ Block \subseteq 1 .. NumBlocks
  BY <1>1, WhenBuilding
<1>3. vals \in Seq(Definition) /\ Len(vals) \in Nat /\ Value = 1 .. Len(vals) /\ Value \subseteq Nat
  <2>1. vals \in Seq(Definition) /\ Value = 1 .. Len(vals)
    BY DEF IInv, Values, Value
  <2>2. QED
    BY <2>1
<1>4. \A x \in Value : vals[x].ty # "invalid"
  <2>1. \A b \in 1 .. NumBlocks : \A k \in 1 .. Len(undef_phis[b]) : FALSE
    BY <1>1 DEF IInv, Waiting
  <2>2. \A x \in Value : ~InPhis(x) /\ ~InTodo(x) /\ ~InCalls(x)
    <3>1. Len(sealing.todo) = 0
      BY <1>2
    <3>2. QED
      BY <1>2, <2>1, <3>1 DEF InPhis, InTodo, InCalls
  <2>3. QED
    BY <2>2 DEF IInv, Awaited
<1>5. ASSUME NEW x \in Value
      PROVE  resolve_alias(x) \in Value /\ vals[resolve_alias(x)].ty \in {"inst", "phi"}
  <2>1. resolve_alias(x) \in Value /\ vals[resolve_alias(x)].ty # "alias"
    BY ResolveEnds DEF IInv
  <2>2. vals[resolve_alias(x)].ty \in {"invalid", "inst", "alias", "phi"}
    BY <2>1, Forms DEF IInv
  <2>3. QED
    BY <1>4, <2>1, <2>2
<1>6. ASSUME NEW x \in Value, vals[x].ty = "phi"
      PROVE  /\ vals'[x] \in Definition /\ vals'[x].ty = "phi" /\ vals'[x].block = vals[x].block
             /\ DOMAIN vals'[x].args = DOMAIN vals[x].args
             /\ \A p \in DOMAIN vals[x].args : vals'[x].args[p] = resolve_alias(vals[x].args[p])
  <2>1. PICK D \in SUBSET Nat : vals[x] \in [ty : {"phi"}, block : Nat, args : [D -> Nat]]
    BY <1>6, Forms DEF IInv
  <2>2. vals'[x] = [vals[x] EXCEPT !.args = [p \in DOMAIN vals[x].args |-> resolve_alias(vals[x].args[p])]]
    BY <1>1, <1>3, <1>6
  <2>3. PICK g : g = [p \in DOMAIN vals[x].args |-> resolve_alias(vals[x].args[p])]
    OBVIOUS
  <2>4. DOMAIN vals[x].args = D
    BY <2>1
  <2>5. \A p \in D : vals[x].args[p] \in Value
    BY <1>6, <2>4 DEF IInv, Phis
  <2>6. \A p \in D : resolve_alias(vals[x].args[p]) \in Nat
    BY <1>3, <1>5, <2>5
  <2>7. g \in [D -> Nat]
    BY <2>3, <2>4, <2>6
  <2>8. vals'[x] = [vals[x] EXCEPT !.args = g]
    BY <2>2, <2>3
  <2>9. vals'[x] \in [ty : {"phi"}, block : Nat, args : [D -> Nat]]
        /\ vals'[x].block = vals[x].block /\ vals'[x].args = g
    BY <2>1, <2>7, <2>8
  <2>10. vals'[x] \in Definition
    BY <2>1, <2>9 DEF Definition
  <2>11. vals'[x].ty = "phi"
    BY <2>9
  <2>12. QED
    BY <2>3, <2>4, <2>9, <2>10, <2>11
<1>7. \A x \in Value : vals[x].ty # "phi" => vals'[x] = vals[x]
  BY <1>1, <1>3
<1>8. \A x \in Value : vals'[x].ty = vals[x].ty
  BY <1>6, <1>7
<1>9. vals' \in Seq(Definition) /\ Len(vals') = Len(vals) /\ Value' = Value
  <2>1. \A x \in 1 .. Len(vals) : vals'[x] \in Definition
    BY <1>3, <1>6, <1>7
  <2>2. vals' = [x \in 1 .. Len(vals) |-> vals'[x]]
    BY <1>1
  <2>3. vals' \in [1 .. Len(vals) -> Definition]
    BY <2>1, <2>2
  <2>4. vals' \in Seq(Definition) /\ Len(vals') = Len(vals)
    BY <1>3, <2>3
  <2>5. QED
    BY <2>4 DEF Value
<1>10. Values'
  <2>1. GRAVESTONE \in Value /\ vals[GRAVESTONE].ty = "inst" /\ vals[GRAVESTONE] = Inst
    BY DEF IInv, Values, Inst
  <2>2. vals'[GRAVESTONE] = Inst
    BY <1>7, <2>1
  <2>3. \A x \in Value : vals'[x].ty = "alias" => vals'[x].to \in Value
    BY <1>7, <1>8 DEF IInv, Values
  <2>4. QED
    BY <1>9, <2>1, <2>2, <2>3 DEF Values
<1>11. AliasOrder'
  <2>1. AliasValues' = AliasValues /\ \A x \in AliasValues : vals'[x] = vals[x]
    BY <1>7, <1>8, <1>9 DEF AliasValues
  <2>2. PICK made \in [AliasValues -> Nat] : InOrder(made)
    BY DEF IInv, AliasOrder
  <2>3. InOrder(made)'
    BY <2>1, <2>2 DEF InOrder
  <2>4. QED
    BY <2>1, <2>2, <2>3 DEF AliasOrder
<1>12. Block' = Block
  BY <1>1 DEF Block
<1>13. Graph' /\ Edges'
  <2>1. \A b \in 1 .. NumBlocks : preds'[b] = <<>> /\ Len(preds'[b]) = 0
    BY <1>1
  <2>2. preds' \in [1 .. NumBlocks -> Seq(Block)]
    BY <1>1
  <2>3. created \in 2 .. NumBlocks /\ Entry \in Block /\ succs \in [1 .. NumBlocks -> SUBSET Block]
    BY SSABuilderAssumption DEF IInv, Graph, Block, Entry
  <2>4. \A b \in 1 .. NumBlocks : \A i, j \in 1 .. Len(preds'[b]) : i < j => preds'[b][i] < preds'[b][j]
    BY <2>1
  <2>5. QED
    BY <1>1, <1>12, <2>2, <2>3, <2>4 DEF Graph, Edges
<1>14. Phis'
  <2>1. ASSUME NEW x \in Value', vals'[x].ty = "phi"
        PROVE  /\ vals'[x].block \in Block'
               /\ DOMAIN vals'[x].args = {p \in Block' : vals'[x].block \in succs'[p]}
               /\ \A p \in DOMAIN vals'[x].args : vals'[x].args[p] \in Value'
    <3>1. x \in Value /\ vals[x].ty = "phi"
      BY <1>8, <1>9, <2>1
    <3>2. /\ vals[x].block \in Block
          /\ DOMAIN vals[x].args = {p \in Block : vals[x].block \in succs[p]}
          /\ \A p \in DOMAIN vals[x].args : vals[x].args[p] \in Value
      BY <3>1 DEF IInv, Phis
    <3>3. /\ vals'[x].block = vals[x].block /\ DOMAIN vals'[x].args = DOMAIN vals[x].args
          /\ \A p \in DOMAIN vals[x].args : vals'[x].args[p] = resolve_alias(vals[x].args[p])
      BY <1>6, <3>1
    <3>4. \A p \in DOMAIN vals[x].args : resolve_alias(vals[x].args[p]) \in Value
      BY <1>5, <3>2
    <3>5. succs' = succs
      BY <1>1
    <3>6. QED
      BY <1>9, <1>12, <3>2, <3>3, <3>4, <3>5
  <2>2. phase' # "build"
    BY <1>1
  <2>3. QED
    BY <2>1, <2>2 DEF Phis
<1>15. ASSUME NEW b \in 1 .. NumBlocks
       PROVE  /\ code'[b] \in Seq(Operation) /\ Len(code'[b]) = Len(code[b])
              /\ \A k \in 1 .. Len(code[b]) : code'[b][k].val \in Value /\ vals'[code'[b][k].val].ty \in {"inst", "phi"}
  <2>1. /\ code[b] \in Seq(Operation) /\ Len(code[b]) \in Nat /\ b \in DOMAIN code
        /\ \A k \in 1 .. Len(code[b]) : code[b][k] \in Operation /\ code[b][k].val \in Value
    BY DEF IInv, Tables
  <2>2. code'[b] = [k \in 1 .. Len(code[b]) |-> [code[b][k] EXCEPT !.val = resolve_alias(code[b][k].val)]]
    BY <1>1, <2>1
  <2>3. ASSUME NEW k \in 1 .. Len(code[b])
        PROVE  code'[b][k] \in Operation /\ code'[b][k].val = resolve_alias(code[b][k].val)
    <3>1. PICK y : y = resolve_alias(code[b][k].val)
      OBVIOUS
    <3>2. y \in Nat
      BY <1>3, <1>5, <2>1, <3>1
    <3>3. code'[b][k] = [code[b][k] EXCEPT !.val = y]
      BY <2>2, <3>1
    <3>4. CASE code[b][k] \in [op : {"write", "read"}, place : Place, val : Nat]
      BY <3>1, <3>2, <3>3, <3>4 DEF Operation
    <3>5. CASE code[b][k] \in [op : {"copy"}, place : Place, from : Place, val : Nat]
      BY <3>1, <3>2, <3>3, <3>5 DEF Operation
    <3>6. QED
      BY <2>1, <3>4, <3>5 DEF Operation
  <2>4. code'[b] \in [1 .. Len(code[b]) -> Operation]
    <3>1. code'[b] = [k \in 1 .. Len(code[b]) |-> code'[b][k]]
      BY <2>2
    <3>2. QED
      BY <2>3, <3>1
  <2>5. code'[b] \in Seq(Operation) /\ Len(code'[b]) = Len(code[b])
    BY <2>1, <2>4
  <2>6. QED
    BY <1>5, <1>8, <2>1, <2>3, <2>5
<1>16. Tables'
  <2>1. code' \in [1 .. NumBlocks -> Seq(Operation)]
    <3>1. DOMAIN code = 1 .. NumBlocks
      BY DEF IInv, Tables
    <3>2. code' = [b \in 1 .. NumBlocks |-> code'[b]]
      BY <1>1, <3>1
    <3>3. QED
      BY <1>15, <3>2
  <2>2. \A b \in 1 .. NumBlocks : \A k \in 1 .. Len(code'[b]) : code'[b][k].val \in Value
    BY <1>15
  <2>3. variables' \in [Place -> [1 .. NumBlocks -> 0 .. Len(vals')]]
    BY <1>1, <1>3, <1>9 DEF None
  <2>4. pending' = NoCaller /\ pending' \in Operation \cup {NoCaller}
    BY <1>1, <1>2
  <2>5. \A b \in 1 .. NumBlocks : \A k \in 1 .. Len(code'[b]) : code'[b][k].val \in Value'
    BY <1>9, <2>2
  <2>6. QED
    BY <2>1, <2>3, <2>4, <2>5 DEF Tables
<1>17. Stages'
  BY <1>1, <1>2 DEF Stages
<1>18. Frames' /\ Finishing' = {}
  BY <1>1, <1>2, NoCalls
<1>19. Stack'
  BY <1>1, <1>2 DEF Stack
<1>20. /\ \A b \in 1 .. NumBlocks : undef_phis'[b] = <<>> /\ Len(undef_phis'[b]) = 0
       /\ undef_phis' \in [1 .. NumBlocks -> Entries] /\ Len(sealing'.todo) = 0
  BY <1>1, <1>2 DEF Entries
<1>21. Waiting'
  BY <1>1, <1>20 DEF IInv, Waiting
<1>22. Apart'
  BY <1>18, <1>20 DEF Apart
<1>23. Awaited'
  BY <1>4, <1>8, <1>9 DEF Awaited
<1>24. OperandsDefined'
  <2>1. \A b \in Block : \A k \in 1 .. Len(code'[b]) : vals'[code'[b][k].val].ty \in {"inst", "phi"}
    BY <1>2, <1>15
  <2>2. ASSUME NEW x \in Value, vals'[x].ty = "phi", NEW p \in DOMAIN vals'[x].args
        PROVE  vals'[vals'[x].args[p]].ty \in {"inst", "phi"}
    <3>1. vals[x].ty = "phi" /\ p \in DOMAIN vals[x].args /\ vals'[x].args[p] = resolve_alias(vals[x].args[p])
      BY <1>6, <1>8, <2>2
    <3>2. vals[x].args[p] \in Value
      BY <3>1 DEF IInv, Phis
    <3>3. QED
      BY <1>5, <1>8, <3>1, <3>2
  <2>3. QED
    BY <1>3, <1>9, <1>12, <2>1, <2>2 DEF OperandsDefined
<1>25. QED
  BY <1>10, <1>11, <1>13, <1>14, <1>16, <1>17, <1>18, <1>19, <1>21, <1>22, <1>23, <1>24 DEF IInv

\* A step that changes nothing that the builder knows.
LEMMA UnchangedInvariant ==
  ASSUME IInv, UNCHANGED ssaVars, UNCHANGED builder, UNCHANGED phase
  PROVE  IInv'
<1> USE DEF ssaVars, cfgVars, machine, builder
<1>1. Block' = Block /\ Value' = Value /\ Finishing' = Finishing
  BY DEF Block, Value, Finishing
<1>2. Graph' /\ Edges' /\ Phis' /\ Tables' /\ Stages'
  BY <1>1 DEF IInv, Graph, Edges, Phis, Tables, Stages
<1>3. Values' /\ AliasOrder'
  BY ValuesKept DEF IInv
<1>4. Frames'
  BY <1>1 DEF IInv, Frames
<1>5. Stack'
  BY <1>1 DEF IInv, Stack, Levels, Takes
<1>6. Waiting'
  BY <1>1 DEF IInv, Waiting, Requested
<1>7. Apart'
  BY <1>1 DEF IInv, Apart
<1>8. Awaited'
  BY <1>1 DEF IInv, Awaited, InPhis, InTodo, InCalls
<1>9. OperandsDefined'
  BY <1>1 DEF IInv, OperandsDefined
<1>10. QED
  BY <1>2, <1>3, <1>4, <1>5, <1>6, <1>7, <1>8, <1>9 DEF IInv

\* IInv is an invariant of the builder.
LEMMA BuilderInvariant ==
  Spec => []IInv
<1>1. BuilderInit => IInv
  BY InitInvariant
<1>2. IInv /\ [Next]_vars => IInv'
  <2> SUFFICES ASSUME IInv, [Next]_vars PROVE IInv'
    OBVIOUS
  <2>1. CASE CreateFirst
    BY <2>1, CreateInvariant
  <2>2. CASE Insert
    BY <2>2, ReadInvariant
  <2>3. CASE Initialise
    BY <2>3, DefVarInvariant DEF Initialise
  <2>4. CASE TakeResult
    BY <2>4, TakeInvariant
  <2>5. CASE Terminate
    BY <2>5, TerminateInvariant
  <2>6. CASE Switch
    BY <2>6, SwitchInvariant DEF Switch
  <2>7. CASE SealAny
    BY <2>7, SealInvariant
  <2>8. CASE RunMachine
    BY <2>8, LookupUseInvariant, LookupFinishInvariant, SealNextInvariant, SealEndInvariant
       DEF RunMachine, Machine, running
  <2>9. CASE Finish
    BY <2>9, FinishInvariant
  <2>10. CASE Running
    BY <2>10, UnchangedInvariant DEF Running, RunInst, RunJump
  <2>11. CASE UNCHANGED vars
    BY <2>11, UnchangedInvariant DEF vars
  <2>12. QED
    BY <2>1, <2>2, <2>3, <2>4, <2>5, <2>6, <2>7, <2>8, <2>9, <2>10, <2>11 DEF Next
<1>3. QED
  BY <1>1, <1>2, PTL DEF Spec

-----------------------------------------------------------------------------
(* What the invariant says to a client.                                    *)

\* The entry of a value is one of four, with operands that are values.
LEMMA Definitions ==
  ASSUME IInv, NEW x \in 1 .. Len(vals)
  PROVE  \/ vals[x] \in ValueDefs
         \/ vals[x].ty = "phi" /\ vals[x].block \in Block /\ \A p \in DOMAIN vals[x].args : vals[x].args[p] \in Value
<1>1. x \in Value /\ vals[x] \in Definition
  BY DEF IInv, Values, Value
<1>2. CASE vals[x] \in {Invalid, Inst}
  BY <1>2 DEF ValueDefs
<1>3. CASE vals[x] \in [ty : {"alias"}, to : Nat]
  <2>1. vals[x].to \in Value
    BY <1>1, <1>3 DEF IInv, Values
  <2>2. vals[x] = Alias(vals[x].to)
    BY <1>3 DEF Alias
  <2>3. QED
    BY <2>1, <2>2 DEF ValueDefs
<1>4. CASE \E D \in SUBSET Nat : vals[x] \in [ty : {"phi"}, block : Nat, args : [D -> Nat]]
  <2>1. vals[x].ty = "phi"
    BY <1>4
  <2>2. QED
    BY <1>1, <2>1 DEF IInv, Phis
<1>5. QED
  BY <1>1, <1>2, <1>3, <1>4 DEF Definition

\* IInv gives every table its type.
LEMMA TypesHold ==
  ASSUME IInv
  PROVE  TypeOK
<1>1. /\ created \in 2 .. NumBlocks /\ position \in Block
      /\ preds \in [1 .. NumBlocks -> Seq(Block)] /\ succs \in [1 .. NumBlocks -> SUBSET Block]
      /\ sealed \subseteq Block /\ filled \subseteq Block /\ touched \subseteq Block
      /\ phase \in {"build", "run"} /\ results \in Seq(Value)
  BY DEF IInv, Graph, Stack
<1>2. \A b \in Block : IsSorted(preds[b], <)
  <2>1. Block \subseteq 1 .. NumBlocks
    BY <1>1, SSABuilderAssumption DEF Block
  <2> SUFFICES ASSUME NEW b \in Block PROVE IsSorted(preds[b], <)
    OBVIOUS
  <2>2. preds[b] \in Seq(Block) /\ \A i, j \in 1 .. Len(preds[b]) : i < j => preds[b][i] < preds[b][j]
    BY <1>1, <2>1 DEF IInv, Graph
  <2>3. QED
    BY <2>2 DEF IsSorted
<1>3. \A v \in Place : variables[v] \in [1 .. NumBlocks -> Value \cup {None}]
  <2>1. 0 .. Len(vals) = Value \cup {None}
    <3>1. Len(vals) \in Nat
      BY DEF IInv, Values
    <3>2. QED
      BY <3>1 DEF Value, None
  <2>2. QED
    BY <2>1 DEF IInv, Tables
<1>4. \A x \in 1 .. Len(vals) :
        \/ vals[x] \in ValueDefs
        \/ vals[x].ty = "phi" /\ vals[x].block \in Block /\ \A p \in DOMAIN vals[x].args : vals[x].args[p] \in Value
  BY Definitions
<1>5. \A k \in 1 .. Len(calls) : calls[k].block \in Block
  BY DEF IInv, Frames
<1>6. QED
  BY <1>1, <1>2, <1>3, <1>4, <1>5 DEF TypeOK

\* The results a lookup will leave are the levels of the invariant: both are counted
\* up from the bottom of the stack of calls.
LEMMA LevelsAreResults ==
  ASSUME IInv, NEW level \in [0 .. Len(calls) -> Nat], Levels(level)
  PROVE  ResultsAt = level
<1> DEFINE body(need) == [k \in 0 .. Len(calls) |->
                            IF k = 0 THEN 1 ELSE (need[k - 1] + Takes(calls[k])) - 1]
           need       == CHOOSE need : need = body(need)
<1>1. Len(calls) \in Nat
  BY DEF IInv, Frames
<1>2. level[0] = 1 /\ \A k \in 1 .. Len(calls) : level[k] = (level[k - 1] + Takes(calls[k])) - 1
  BY DEF Levels
<1>3. level = body(level)
  BY <1>1, <1>2
<1>4. need = body(need)
  BY <1>3
<1>5. ResultsAt = need
  BY DEF ResultsAt
<1> HIDE DEF need
<1>6. /\ FunctionTo(need, Len(calls)) /\ need[0] = 1
      /\ \A k \in 1 .. Len(calls) : need[k] = (need[k - 1] + Takes(calls[k])) - 1
  <2>1. need = [k \in 0 .. Len(calls) |-> IF k = 0 THEN 1 ELSE (need[k - 1] + Takes(calls[k])) - 1]
    BY <1>4
  <2>2. FunctionTo(need, Len(calls))
    BY <2>1 DEF FunctionTo
  <2>3. need[0] = 1
    BY <1>1, <2>1
  <2>4. ASSUME NEW k \in 1 .. Len(calls)
        PROVE  need[k] = (need[k - 1] + Takes(calls[k])) - 1
    <3>1. k \in 0 .. Len(calls) /\ k # 0
      BY <1>1
    <3>2. need[k] = IF k = 0 THEN 1 ELSE (need[k - 1] + Takes(calls[k])) - 1
      BY <2>1, <3>1
    <3>3. QED
      BY <3>1, <3>2
  <2>5. QED
    BY <2>2, <2>3, <2>4
<1>7. FunctionTo(level, Len(calls))
  BY <1>1 DEF FunctionTo
<1>8. need = level
  BY <1>1, <1>2, <1>6, <1>7, SameSteps
<1>9. QED
  BY <1>5, <1>8

\* What the builder leaves to code generation: every table has its type, a phi of the
\* finished function (SSABuilder::finish_predecessors_lookup) has an argument for each
\* block that jumps to its block and for no other, and no operand is an alias that
\* strip_alias has missed or a sentinel that nobody has defined.
THEOREM FunctionsAreWellFormed ==
  Spec => []WellFormed
<1>1. IInv => WellFormed
  <2> SUFFICES ASSUME IInv PROVE WellFormed
    OBVIOUS
  <2>1. PhiPerPredecessor
    BY DEF IInv, Phis, PhiPerPredecessor, Value
  <2>2. QED
    BY <2>1, TypesHold DEF IInv, WellFormed
<1>2. QED
  BY <1>1, BuilderInvariant, PTL

\* run_state_machine returns: no lookup enters a block whose lookup is under way,
\* every one finds its own results on the stack they share, and the aliases that
\* they leave behind end at a value.
THEOREM TheLookupsNest ==
  Spec => []LookupsNest
<1>1. IInv => LookupsNest
  <2> SUFFICES ASSUME IInv PROVE LookupsNest
    OBVIOUS
  <2>1. NoReentry
    BY DEF IInv, Frames, NoReentry
  <2>2. ResultsBalanced
    <3> SUFFICES ASSUME calls # <<>>
                 PROVE  /\ Len(results) = ResultsAt[Len(calls)]
                        /\ \A k \in 0 .. Len(calls) - 1 : ResultsAt[k] >= 1
      BY DEF ResultsBalanced
    <3>1. PICK level \in [0 .. Len(calls) -> Nat] : Levels(level)
      BY DEF IInv, Stack
    <3>2. ResultsAt = level
      BY <3>1, LevelsAreResults
    <3>3. level[Len(calls)] = Len(results) /\ \A k \in 1 .. Len(calls) : level[k - 1] >= 1
      BY <3>1 DEF Levels
    <3>4. Len(calls) \in Nat
      BY DEF IInv, Frames
    <3>5. \A k \in 0 .. Len(calls) - 1 : k + 1 \in 1 .. Len(calls) /\ (k + 1) - 1 = k
      BY <3>4
    <3>6. \A k \in 0 .. Len(calls) - 1 : level[k] >= 1
      BY <3>3, <3>5
    <3>7. QED
      BY <3>2, <3>3, <3>6
  <2>3. AliasesEnd
    BY ResolveEnds DEF IInv, AliasesEnd
  <2>4. QED
    BY <2>1, <2>2, <2>3 DEF LookupsNest
<1>2. QED
  BY <1>1, BuilderInvariant, PTL

-----------------------------------------------------------------------------
(* Whose result is where: the plan of the shared result stack.             *)

\* The results that a call takes, as Takes, for predecessors pd.
Room(pd, c) == IF c.call = "finish" THEN Len(pd[c.block]) ELSE 0

\* level[k] is how many results there are when the calls of cs above the k-th are done.
Leveled(pd, level, cs) ==
  /\ level[0] = 1
  /\ \A k \in 0 .. Len(cs) : level[k] \in Nat /\ (k < Len(cs) => level[k] >= 1)
  /\ \A k \in 1 .. Len(cs) : level[k] = (level[k - 1] + Room(pd, cs[k])) - 1

\* Where the i-th call takes the result of its m-th predecessor.
Slot(level, i, m) == (level[i - 1] + m) - 1

\* A call above it will put it there, after all that are above that one, ...
Coming(pd, cs, level, i, m) ==
  \E k \in i + 1 .. Len(cs) :
    /\ level[k - 1] = Slot(level, i, m) /\ cs[k].block = pd[cs[i].block][m]
    /\ \A l \in i + 1 .. k - 1 : level[l - 1] > Slot(level, i, m)

\* ... or it is there, below all that the calls above take.
Come(pd, cs, rs, level, good, i, m) ==
  /\ Slot(level, i, m) \in 1 .. Len(rs)
  /\ <<rs[Slot(level, i, m)], pd[cs[i].block][m]>> \in good
  /\ \A l \in i + 1 .. Len(cs) : level[l - 1] > Slot(level, i, m)

\* Every scheduled lookup finds the results of its predecessors in their order; good
\* are the pairs of a value and a block that the value is right for.
Plan(pd, cs, rs, level, good) ==
  \A i \in FinishesIn(cs) : \A m \in 1 .. Len(pd[cs[i].block]) :
    Coming(pd, cs, level, i, m) \/ Come(pd, cs, rs, level, good, i, m)

\* The last call of cs leaves its result on what was below the results it took.
Returns(cs, cs2, rs, rs2, level, good, good2) ==
  /\ Len(cs) \in Nat \ {0} /\ Len(cs2) = Len(cs) - 1 /\ \A k \in 1 .. Len(cs) - 1 : cs2[k] = cs[k]
  /\ Len(rs2) = level[Len(cs) - 1] /\ Len(rs) \in Nat
  /\ \A q \in 1 .. Len(rs2) - 1 : rs2[q] = rs[q]
  /\ good \subseteq good2 /\ <<rs2[Len(rs2)], cs[Len(cs)].block>> \in good2

\* A call that returns leaves the plan in order.
LEMMA PlanReturn ==
  ASSUME NEW pd, NEW cs, NEW cs2, NEW rs, NEW rs2, NEW level, NEW good, NEW good2,
         Leveled(pd, level, cs), Plan(pd, cs, rs, level, good),
         Returns(cs, cs2, rs, rs2, level, good, good2)
  PROVE  Leveled(pd, level, cs2) /\ Plan(pd, cs2, rs2, level, good2)
<1>1. PICK n : n = Len(cs)
  OBVIOUS
<1>2. /\ n \in Nat \ {0} /\ Len(cs2) = n - 1 /\ \A k \in 1 .. n - 1 : cs2[k] = cs[k]
      /\ Len(rs2) = level[n - 1] /\ Len(rs) \in Nat
      /\ \A q \in 1 .. Len(rs2) - 1 : rs2[q] = rs[q]
      /\ good \subseteq good2 /\ <<rs2[Len(rs2)], cs[n].block>> \in good2
  BY <1>1 DEF Returns
<1>3. /\ \A k \in 0 .. n : level[k] \in Nat /\ (k < n => level[k] >= 1) /\ level[0] = 1
      /\ \A k \in 1 .. n : level[k] = (level[k - 1] + Room(pd, cs[k])) - 1
  BY <1>1, <1>2 DEF Leveled
<1>4. Leveled(pd, level, cs2)
  <2>1. \A k \in 1 .. n - 1 : Room(pd, cs2[k]) = Room(pd, cs[k])
    BY <1>2
  <2>2. QED
    BY <1>2, <1>3, <2>1 DEF Leveled
<1>5. ASSUME NEW i \in FinishesIn(cs2), NEW m \in 1 .. Len(pd[cs2[i].block])
      PROVE  Coming(pd, cs2, level, i, m) \/ Come(pd, cs2, rs2, level, good2, i, m)
  <2>1. i \in 1 .. n - 1 /\ i \in FinishesIn(cs) /\ cs2[i] = cs[i] /\ m \in 1 .. Len(pd[cs[i].block])
    BY <1>1, <1>2 DEF FinishesIn
  <2>2. PICK q : q = Slot(level, i, m)
    OBVIOUS
  <2>3. q \in Nat \ {0}
    <3>1. level[i - 1] \in Nat /\ level[i - 1] >= 1 /\ m \in Nat \ {0}
      BY <1>2, <1>3, <2>1
    <3>2. QED
      BY <2>2, <3>1 DEF Slot
  <2>4. CASE Coming(pd, cs, level, i, m)
    <3>1. PICK k \in i + 1 .. n : /\ level[k - 1] = q /\ cs[k].block = pd[cs[i].block][m]
                                  /\ \A l \in i + 1 .. k - 1 : level[l - 1] > q
      BY <1>1, <2>2, <2>4 DEF Coming
    <3>2. CASE k = n
      <4>1. Len(rs2) = q /\ <<rs2[q], pd[cs2[i].block][m]>> \in good2
        BY <1>2, <2>1, <3>1, <3>2
      <4>2. \A l \in i + 1 .. n - 1 : level[l - 1] > q
        BY <3>1, <3>2
      <4>3. q \in 1 .. Len(rs2)
        BY <2>3, <4>1
      <4>4. QED
        BY <1>2, <2>2, <4>1, <4>2, <4>3 DEF Come
    <3>3. CASE k # n
      <4>1. k \in i + 1 .. n - 1 /\ k \in 1 .. n - 1
        BY <1>2, <2>1, <3>1, <3>3
      <4>2. cs2[k].block = pd[cs2[i].block][m]
        BY <1>2, <2>1, <3>1, <4>1
      <4>3. QED
        BY <1>2, <2>2, <3>1, <4>1, <4>2 DEF Coming
    <3>4. QED
      BY <3>2, <3>3
  <2>5. CASE Come(pd, cs, rs, level, good, i, m)
    <3>1. /\ q \in 1 .. Len(rs) /\ <<rs[q], pd[cs[i].block][m]>> \in good
          /\ \A l \in i + 1 .. n : level[l - 1] > q
      BY <1>1, <2>2, <2>5 DEF Come
    <3>2. level[n - 1] > q /\ level[n - 1] \in Nat
      BY <1>2, <1>3, <2>1, <3>1
    <3>3. q \in 1 .. Len(rs2) - 1 /\ q \in 1 .. Len(rs2)
      BY <1>2, <2>3, <3>2
    <3>4. <<rs2[q], pd[cs2[i].block][m]>> \in good2
      BY <1>2, <2>1, <3>1, <3>3
    <3>5. \A l \in i + 1 .. n - 1 : level[l - 1] > q
      BY <1>2, <2>1, <3>1
    <3>6. QED
      BY <1>2, <2>2, <3>3, <3>4, <3>5 DEF Come
  <2>6. QED
    BY <2>1, <2>4, <2>5 DEF Plan
<1>6. QED
  BY <1>4, <1>5 DEF Plan

\* cs2 is cs with the lookup of b's predecessors on top, top is cs with that of b.
Pushed(pd, cs2, top, s, b) ==
  /\ Len(top) \in Nat \ {0} /\ top[Len(top)].call = "use" /\ top[Len(top)].block = b
  /\ Len(pd[b]) \in Nat /\ Len(cs2) = Len(top) + Len(pd[b])
  /\ \A k \in 1 .. Len(top) - 1 : cs2[k] = top[k]
  /\ cs2[Len(top)] = FinishPredecessorsLookup(s, b)
  /\ \A j \in 1 .. Len(pd[b]) : cs2[Len(top) + j] = UseVar(pd[b][(Len(pd[b]) + 1) - j])

\* What is right for good is right for good2.
Within(good, good2) == good \subseteq good2

\* A use that becomes a lookup of the predecessors of its block keeps the plan.
LEMMA PlanPush ==
  ASSUME NEW pd, NEW top, NEW cs2, NEW rs, NEW level, NEW good, NEW good2, NEW s, NEW b,
         Leveled(pd, level, top), Plan(pd, top, rs, level, good),
         Pushed(pd, cs2, top, s, b), Within(good, good2)
  PROVE  \E level2 : /\ Leveled(pd, level2, cs2) /\ Plan(pd, cs2, rs, level2, good2)
                     /\ level2[Len(cs2)] = level[Len(top)]
<1>1. PICK n, p : n = Len(top) /\ p = Len(pd[b])
  OBVIOUS
<1>2. /\ n \in Nat \ {0} /\ top[n].call = "use" /\ top[n].block = b /\ p \in Nat /\ Len(cs2) = n + p
      /\ \A k \in 1 .. n - 1 : cs2[k] = top[k]
      /\ cs2[n].call = "finish" /\ cs2[n].block = b
      /\ \A j \in 1 .. p : cs2[n + j].call = "use" /\ cs2[n + j].block = pd[b][(p + 1) - j]
  <2>1. /\ cs2[n] = FinishPredecessorsLookup(s, b)
        /\ \A j \in 1 .. p : cs2[n + j] = UseVar(pd[b][(p + 1) - j])
    BY <1>1 DEF Pushed
  <2>2. ASSUME NEW j \in 1 .. p PROVE cs2[n + j].call = "use" /\ cs2[n + j].block = pd[b][(p + 1) - j]
    <3>1. PICK q : q = pd[b][(p + 1) - j]
      OBVIOUS
    <3>2. cs2[n + j] = UseVar(q)
      BY <2>1, <3>1
    <3>3. UseVar(q).call = "use" /\ UseVar(q).block = q
      BY DEF UseVar
    <3>4. QED
      BY <3>1, <3>2, <3>3
  <2>3. QED
    BY <1>1, <2>1, <2>2 DEF Pushed, FinishPredecessorsLookup
<1>3. /\ \A k \in 0 .. n : level[k] \in Nat /\ (k < n => level[k] >= 1) /\ level[0] = 1
      /\ \A k \in 1 .. n : level[k] = (level[k - 1] + Room(pd, top[k])) - 1
  BY <1>1, <1>2 DEF Leveled
<1>4. PICK up : up = [k \in 0 .. n + p |-> IF k < n THEN level[k] ELSE ((level[n - 1] + p) + (n - 1)) - k]
  OBVIOUS
<1>5. /\ \A k \in 0 .. n - 1 : up[k] = level[k]
      /\ \A j \in 0 .. p : up[n + j] = ((level[n - 1] + p) - 1) - j
  <2>1. \A k \in 0 .. n - 1 : k \in 0 .. n + p /\ k < n
    BY <1>2
  <2>2. ASSUME NEW j \in 0 .. p PROVE up[n + j] = ((level[n - 1] + p) - 1) - j
    <3>1. n + j \in 0 .. n + p /\ ~(n + j < n) /\ n - 1 \in 0 .. n
      BY <1>2
    <3>2. up[n + j] = ((level[n - 1] + p) + (n - 1)) - (n + j)
      BY <1>4, <3>1
    <3>3. QED
      BY <1>2, <1>3, <3>1, <3>2
  <2>3. QED
    BY <1>4, <2>1, <2>2
<1>6. level[n - 1] \in Nat /\ level[n - 1] >= 1 /\ level[n] = level[n - 1] - 1
  <2>1. n - 1 \in 0 .. n /\ n - 1 < n /\ n \in 1 .. n
    BY <1>2
  <2>2. Room(pd, top[n]) = 0
    BY <1>2 DEF Room
  <2>3. QED
    BY <1>3, <2>1, <2>2
<1>7. \A k \in 1 .. Len(cs2) : k \in 1 .. n - 1 \/ k = n \/ \E j \in 1 .. p : k = n + j
  <2> SUFFICES ASSUME NEW k \in 1 .. Len(cs2), ~(k < n), k # n PROVE \E j \in 1 .. p : k = n + j
    BY <1>2
  <2>1. k - n \in 1 .. p /\ k = n + (k - n)
    BY <1>2
  <2>2. QED
    BY <2>1
<1>8. Leveled(pd, up, cs2)
  <2>1. up[0] = 1
    BY <1>2, <1>3, <1>5
  <2>2. ASSUME NEW k \in 0 .. Len(cs2) PROVE up[k] \in Nat /\ (k < Len(cs2) => up[k] >= 1)
    <3>1. CASE k < n
      <4>1. k \in 0 .. n - 1 /\ k \in 0 .. n
        BY <1>2, <3>1
      <4>2. QED
        BY <1>3, <1>5, <3>1, <4>1
    <3>2. CASE ~(k < n)
      <4>1. k - n \in 0 .. p /\ k = n + (k - n)
        BY <1>2, <3>2
      <4>2. up[k] = ((level[n - 1] + p) - 1) - (k - n)
        BY <1>5, <4>1
      <4>3. QED
        BY <1>2, <1>6, <4>1, <4>2
    <3>3. QED
      BY <3>1, <3>2
  <2>3. ASSUME NEW k \in 1 .. Len(cs2) PROVE up[k] = (up[k - 1] + Room(pd, cs2[k])) - 1
    <3>1. CASE k \in 1 .. n - 1
      <4>1. k - 1 \in 0 .. n - 1 /\ k \in 0 .. n - 1 /\ k \in 1 .. n
        BY <1>2, <3>1
      <4>2. QED
        BY <1>2, <1>3, <1>5, <3>1, <4>1
    <3>2. CASE k = n
      <4>1. Room(pd, cs2[k]) = p
        BY <1>1, <1>2, <3>2 DEF Room
      <4>2. up[k] = (level[n - 1] + p) - 1
        <5>1. 0 \in 0 .. p /\ n + 0 = n
          BY <1>2
        <5>2. up[n + 0] = ((level[n - 1] + p) - 1) - 0
          BY <1>5, <5>1
        <5>3. QED
          BY <1>2, <1>6, <3>2, <5>1, <5>2
      <4>3. up[k - 1] = level[n - 1]
        BY <1>2, <1>5, <3>2
      <4>4. QED
        BY <4>1, <4>2, <4>3
    <3>3. CASE \E j \in 1 .. p : k = n + j
      <4>1. PICK j \in 1 .. p : k = n + j
        BY <3>3
      <4>2. Room(pd, cs2[k]) = 0
        BY <1>2, <4>1 DEF Room
      <4>3. j - 1 \in 0 .. p /\ j \in 0 .. p /\ k - 1 = n + (j - 1)
        BY <1>2, <4>1
      <4>4. up[k] = ((level[n - 1] + p) - 1) - j /\ up[k - 1] = ((level[n - 1] + p) - 1) - (j - 1)
        BY <1>5, <4>1, <4>3
      <4>5. QED
        BY <1>2, <1>6, <4>2, <4>3, <4>4
    <3>4. QED
      BY <1>7, <3>1, <3>2, <3>3
  <2>4. QED
    BY <2>1, <2>2, <2>3 DEF Leveled
<1>9. FinishesIn(cs2) \subseteq {i \in 1 .. n - 1 : top[i].call = "finish"} \cup {n}
  <2> SUFFICES ASSUME NEW i \in 1 .. Len(cs2), cs2[i].call = "finish"
               PROVE  i = n \/ (i \in 1 .. n - 1 /\ top[i].call = "finish")
    BY DEF FinishesIn
  <2>1. QED
    BY <1>2, <1>7
<1>10. ASSUME NEW m \in 1 .. p PROVE Coming(pd, cs2, up, n, m)
  <2>1. PICK j : j = (p + 1) - m
    OBVIOUS
  <2>2. j \in 1 .. p /\ (p + 1) - j = m /\ j - 1 \in 0 .. p /\ (n + j) - 1 = n + (j - 1)
    <3>1. n \in Int /\ p \in Int /\ m \in Int /\ 1 <= m /\ m <= p
      BY <1>2
    <3>2. j \in Int /\ 1 <= j /\ j <= p /\ (p + 1) - j = m
      BY <2>1, <3>1
    <3>3. QED
      BY <3>1, <3>2
  <2>3. up[n - 1] = level[n - 1] /\ Slot(up, n, m) = (level[n - 1] + m) - 1
    BY <1>2, <1>5 DEF Slot
  <2>4. up[(n + j) - 1] = Slot(up, n, m)
    <3>1. up[n + (j - 1)] = ((level[n - 1] + p) - 1) - (j - 1)
      BY <1>5, <2>2
    <3>2. QED
      BY <1>2, <1>6, <2>1, <2>2, <2>3, <3>1
  <2>5. n + j \in n + 1 .. Len(cs2) /\ cs2[n + j].block = pd[cs2[n].block][m]
    <3>1. n + j \in n + 1 .. n + p
      BY <1>2, <2>2
    <3>2. cs2[n + j].block = pd[b][(p + 1) - j]
      BY <1>2, <2>2
    <3>3. QED
      BY <1>2, <2>2, <3>1, <3>2
  <2>6. ASSUME NEW l \in n + 1 .. (n + j) - 1 PROVE up[l - 1] > Slot(up, n, m)
    <3>1. (l - 1) - n \in 0 .. p /\ l - 1 = n + ((l - 1) - n) /\ (l - 1) - n < j - 1
      BY <1>2, <2>2
    <3>2. up[l - 1] = ((level[n - 1] + p) - 1) - ((l - 1) - n)
      BY <1>5, <3>1
    <3>3. QED
      BY <1>2, <1>6, <2>1, <2>3, <3>1, <3>2
  <2>7. QED
    BY <2>4, <2>5, <2>6 DEF Coming
<1>11. ASSUME NEW i \in 1 .. n - 1, top[i].call = "finish", NEW m \in 1 .. Len(pd[cs2[i].block])
       PROVE  Coming(pd, cs2, up, i, m) \/ Come(pd, cs2, rs, up, good2, i, m)
  <2>1. /\ i \in FinishesIn(top) /\ cs2[i] = top[i] /\ m \in 1 .. Len(pd[top[i].block])
        /\ i - 1 \in 0 .. n - 1 /\ i \in 1 .. n
    BY <1>1, <1>2, <1>11 DEF FinishesIn
  <2>2. PICK q : q = Slot(level, i, m)
    OBVIOUS
  <2>3. Slot(up, i, m) = q /\ q \in Nat
    <3>1. up[i - 1] = level[i - 1] /\ level[i - 1] \in Nat
      BY <1>2, <1>3, <1>5, <2>1
    <3>2. QED
      BY <2>2, <3>1 DEF Slot
  <2>4. CASE Coming(pd, top, level, i, m)
    <3>1. PICK k \in i + 1 .. n : /\ level[k - 1] = q /\ top[k].block = pd[top[i].block][m]
                                  /\ \A l \in i + 1 .. k - 1 : level[l - 1] > q
      BY <1>1, <2>2, <2>4 DEF Coming
    <3>2. k - 1 \in 0 .. n - 1 /\ k \in i + 1 .. Len(cs2) /\ up[k - 1] = q
      <4>1. k - 1 \in 0 .. n - 1 /\ k \in i + 1 .. Len(cs2)
        BY <1>2, <2>1, <3>1
      <4>2. QED
        BY <1>5, <3>1, <4>1
    <3>3. cs2[k].block = pd[cs2[i].block][m]
      <4>1. CASE k = n
        BY <1>2, <2>1, <3>1, <4>1
      <4>2. CASE k # n
        <5>1. k \in 1 .. n - 1
          BY <1>2, <2>1, <3>1, <4>2
        <5>2. QED
          BY <1>2, <2>1, <3>1, <5>1
      <4>3. QED
        BY <4>1, <4>2
    <3>4. ASSUME NEW l \in i + 1 .. k - 1 PROVE up[l - 1] > q
      <4>1. l - 1 \in 0 .. n - 1
        BY <1>2, <2>1, <3>1
      <4>2. QED
        BY <1>5, <3>1, <4>1
    <3>5. QED
      BY <2>3, <3>2, <3>3, <3>4 DEF Coming
  <2>5. CASE Come(pd, top, rs, level, good, i, m)
    <3>0. good \subseteq good2
      BY DEF Within
    <3>1. /\ q \in 1 .. Len(rs) /\ <<rs[q], pd[top[i].block][m]>> \in good
          /\ \A l \in i + 1 .. n : level[l - 1] > q
      BY <1>1, <2>2, <2>5 DEF Come
    <3>2. level[n - 1] > q
      BY <1>2, <2>1, <3>1
    <3>3. ASSUME NEW l \in i + 1 .. Len(cs2) PROVE up[l - 1] > q
      <4>1. CASE l <= n
        <5>1. l - 1 \in 0 .. n - 1 /\ l \in i + 1 .. n
          BY <1>2, <2>1, <4>1
        <5>2. QED
          BY <1>5, <3>1, <5>1
      <4>2. CASE ~(l <= n)
        <5>1. (l - 1) - n \in 0 .. p /\ l - 1 = n + ((l - 1) - n) /\ (l - 1) - n <= p - 1
          BY <1>2, <2>1, <4>2
        <5>2. up[l - 1] = ((level[n - 1] + p) - 1) - ((l - 1) - n)
          BY <1>5, <5>1
        <5>3. QED
          BY <1>2, <1>6, <2>3, <3>2, <5>1, <5>2
      <4>3. QED
        BY <4>1, <4>2
    <3>4. QED
      BY <2>1, <2>3, <3>0, <3>1, <3>3 DEF Come
  <2>6. QED
    BY <2>1, <2>4, <2>5 DEF Plan
<1>12. Plan(pd, cs2, rs, up, good2)
  <2> SUFFICES ASSUME NEW i \in FinishesIn(cs2), NEW m \in 1 .. Len(pd[cs2[i].block])
               PROVE  Coming(pd, cs2, up, i, m) \/ Come(pd, cs2, rs, up, good2, i, m)
    BY DEF Plan
  <2>1. CASE i = n
    <3>1. m \in 1 .. p
      BY <1>1, <1>2, <2>1
    <3>2. QED
      BY <1>10, <2>1, <3>1
  <2>2. CASE i # n
    BY <1>9, <1>11, <2>2
  <2>3. QED
    BY <2>1, <2>2
<1>13. up[Len(cs2)] = level[n]
  <2>1. p \in 0 .. p
    BY <1>2
  <2>2. up[n + p] = ((level[n - 1] + p) - 1) - p
    BY <1>5, <2>1
  <2>3. QED
    BY <1>2, <1>6, <2>2
<1>14. QED
  BY <1>1, <1>8, <1>12, <1>13

-----------------------------------------------------------------------------
(* What the values stand for while the function is built.                  *)

\* The instruction c gives v a value; a read or a copy reads its source.
Sets(c, v) == c.op # "read" /\ c.place = v
Source(c)  == IF c.op = "copy" THEN c.from ELSE c.place

\* rep is the value at the end of each chain of aliases.
Representatives(rep) ==
  /\ rep \in [Value -> Value]
  /\ \A x \in Value : /\ vals[rep[x]].ty # "alias"
                      /\ vals[x].ty # "alias" => rep[x] = x
                      /\ vals[x].ty = "alias" => rep[x] = rep[vals[x].to]

\* What rep takes for one value, rep2 does.
Coarser(rep, rep2) == \A x, y \in Value : rep[x] = rep[y] => rep2[x] = rep2[y]

\* The pairs of a value and a block at whose end the value stands for v.
Agree(rep, v) ==
  {e \in Value \X Block : variables[v][e[2]] # None /\ rep[e[1]] = rep[variables[v][e[2]]]}

\* d[k] is the value that stands for v before the k-th instruction of b, if one has
\* been asked for: a read of v has the value that is there.
Track(rep, d, v, b) ==
  /\ d[Len(code[b]) + 1] = variables[v][b]
  /\ \A k \in 1 .. Len(code[b]) + 1 : d[k] \in 0 .. Len(vals) /\ (d[k] # None => variables[v][b] # None)
  /\ \A k \in 1 .. Len(code[b]) :
       /\ d[k + 1] = IF Sets(code[b][k], v) THEN code[b][k].val ELSE d[k]
       /\ code[b][k].op # "write" /\ Source(code[b][k]) = v =>
            d[k] # None /\ rep[d[k]] = rep[code[b][k].val]

\* The sentinel x of v at the start of b waits for the predecessors of b, ...
Asked(v, b, x) ==
  \/ \E k \in 1 .. Len(undef_phis[b]) : undef_phis[b][k] = <<v, x>>
  \/ sealing.block = b /\ \E k \in 1 .. Len(sealing.todo) : sealing.todo[k] = <<v, x>>
  \/ var = v /\ \E i \in Finishing : calls[i].block = b /\ calls[i].sentinel = x

\* ... or they have been looked up: x is what they agree on, or a phi of theirs.
Answered(rep, v, b, x) ==
  /\ b \in sealed \cup {sealing.block}
  /\ \A p \in ToSet(preds[b]) : variables[v][p] # None
  /\ \/ /\ \A p \in ToSet(preds[b]) : rep[variables[v][p]] = rep[x]
        /\ preds[b] = <<>> => rep[x] = GRAVESTONE
     \/ /\ vals[x].ty = "phi" /\ vals[x].block = b /\ preds[b] # <<>>
        /\ \A p \in ToSet(preds[b]) : rep[vals[x].args[p]] = rep[variables[v][p]]

\* x stands for v at the start of b, if anything does.
Origin(rep, x, v, b) ==
  /\ \A y : Asked(v, b, y) => x = y
  /\ x # None => Asked(v, b, x) \/ Answered(rep, v, b, x)

\* Every block has a history of every variable.
History(rep) ==
  \A v \in Place : \A b \in 1 .. NumBlocks : \E d : Track(rep, d, v, b) /\ Origin(rep, d[1], v, b)

\* The lookups under way find the values of the blocks that they ask.
Scheduled(rep) ==
  calls # <<>> => \E level : /\ Leveled(preds, level, calls) /\ level[Len(calls)] = Len(results)
                             /\ Plan(preds, calls, results, level, Agree(rep, var))

\* What a lookup has returned stands for the variable in the block that asked.
Found(rep) == pending # NoCaller /\ calls = <<>> => <<results[1], position>> \in Agree(rep, var)

Meaning(rep) == Representatives(rep) /\ History(rep) /\ Scheduled(rep) /\ Found(rep)

\* Every write has a value of its own.
Writes ==
  /\ \A b \in 1 .. NumBlocks : \A k \in 1 .. Len(code[b]) :
       code[b][k].op = "write" => vals[code[b][k].val].ty = "inst" /\ code[b][k].val # GRAVESTONE
  /\ \A b, c \in 1 .. NumBlocks : \A k \in 1 .. Len(code[b]), l \in 1 .. Len(code[c]) :
       code[b][k].op = "write" /\ code[c][l].op = "write" /\ code[b][k].val = code[c][l].val => b = c /\ k = l

\* An instruction, or the one that waits for a lookup, has to do with v.
Mentioned(v) ==
  \/ \E b \in Block : \E k \in 1 .. Len(code[b]) : Mentions(code[b][k], v)
  \/ pending # NoCaller /\ Mentions(pending, v)

\* Nothing jumps to the entry; only what is mentioned is looked up; a lookup starts in
\* an open block; its sentinels are known as definitions of the variable, but for the one
\* that a sealing asks for, which may have been overwritten.
Lookups ==
  /\ Entry \in sealed /\ preds[Entry] = <<>>
  /\ \A v \in Place : \A b \in 1 .. NumBlocks : variables[v][b] # None => Mentioned(v)
  /\ pending # NoCaller => /\ pending.op # "write" /\ var = Source(pending)
                           /\ variables[var][position] # None /\ position \notin filled
                           /\ calls # <<>> => calls[1].block = position
  /\ \A i \in Finishing : i > 1 \/ pending # NoCaller => variables[var][calls[i].block] = calls[i].sentinel

\* The representatives of a function that is being built, in the invariant of the reads.
Build == phase = "build" => Lookups /\ \E rep : Meaning(rep)

-----------------------------------------------------------------------------
(* Representatives.                                                        *)

\* A step that leaves the values as they are leaves the representatives.
LEMMA RepKept ==
  ASSUME NEW rep, Representatives(rep), vals' = vals
  PROVE  Representatives(rep)' /\ Coarser(rep, rep) /\ Value' = Value
<1>1. Value' = Value
  BY DEF Value
<1>2. QED
  BY <1>1 DEF Representatives, Coarser

\* A new value stands for itself.
LEMMA RepAppended ==
  ASSUME Values, NEW rep, Representatives(rep), NEW d \in {Inst, Invalid}, Appended(d)
  PROVE  \E rep2 : /\ Representatives(rep2)' /\ Coarser(rep, rep2)
                   /\ rep2[Len(vals) + 1] = Len(vals) + 1 /\ \A x \in Value : rep2[x] = rep[x]
<1>1. PICK n : n = Len(vals) + 1
  OBVIOUS
<1>2. /\ Value' = Value \cup {n} /\ n \notin Value /\ vals'[n] = d
      /\ \A x \in Value : vals'[x] = vals[x]
  BY <1>1 DEF Appended
<1>3. d.ty # "alias"
  BY DEF Inst, Invalid
<1>4. PICK rep2 : rep2 = [x \in Value \cup {n} |-> IF x = n THEN n ELSE rep[x]]
  OBVIOUS
<1>5. rep2[n] = n /\ \A x \in Value : rep2[x] = rep[x] /\ rep[x] \in Value
  BY <1>2, <1>4 DEF Representatives
<1>6. rep2 \in [Value' -> Value']
  BY <1>2, <1>4, <1>5
<1>7. ASSUME NEW x \in Value'
      PROVE  /\ vals'[rep2[x]].ty # "alias"
             /\ vals'[x].ty # "alias" => rep2[x] = x
             /\ vals'[x].ty = "alias" => rep2[x] = rep2[vals'[x].to]
  <2>1. CASE x = n
    BY <1>2, <1>3, <1>5, <2>1
  <2>2. CASE x # n
    <3>1. x \in Value /\ rep2[x] = rep[x] /\ rep[x] \in Value /\ vals'[x] = vals[x] /\ vals'[rep[x]] = vals[rep[x]]
      BY <1>2, <1>5, <2>2
    <3>2. vals[x].ty = "alias" => vals[x].to \in Value /\ rep2[vals[x].to] = rep[vals[x].to]
      BY <1>5, <3>1 DEF Values
    <3>3. QED
      BY <3>1, <3>2 DEF Representatives
  <2>3. QED
    BY <2>1, <2>2
<1>8. Representatives(rep2)'
  BY <1>6, <1>7 DEF Representatives
<1>9. QED
  BY <1>1, <1>5, <1>8 DEF Coarser

\* A sentinel that becomes an alias of w hands w those it stood for.
LEMMA RepAliased ==
  ASSUME Values, NEW rep, Representatives(rep), NEW s \in Value, NEW w \in Value \ {s}, NEW def,
         vals[s].ty = "invalid", vals[w].ty # "alias", def.ty = "alias", def.to = w, Value' = Value,
         \A x \in Value : vals'[x] = IF x = s THEN def ELSE vals[x]
  PROVE  \E rep2 : Representatives(rep2)' /\ Coarser(rep, rep2) /\ rep2[s] = rep2[w]
<1>1. PICK rep2 : rep2 = [x \in Value |-> IF rep[x] = s THEN w ELSE rep[x]]
  OBVIOUS
<1>2. \A x \in Value : rep[x] \in Value /\ rep2[x] = (IF rep[x] = s THEN w ELSE rep[x]) /\ rep2[x] \in Value \ {s}
  BY <1>1 DEF Representatives
<1>3. rep[s] = s /\ rep[w] = w
  BY DEF Representatives
<1>4. ASSUME NEW x \in Value
      PROVE  /\ vals'[rep2[x]].ty # "alias"
             /\ vals'[x].ty # "alias" => rep2[x] = x
             /\ vals'[x].ty = "alias" => rep2[x] = rep2[vals'[x].to]
  <2>1. vals'[rep2[x]] = vals[rep2[x]] /\ vals[rep2[x]].ty # "alias"
    BY <1>2 DEF Representatives
  <2>2. CASE x = s
    BY <1>2, <1>3, <2>1, <2>2
  <2>3. CASE x # s
    <3>1. vals'[x] = vals[x]
      BY <2>3
    <3>2. vals[x].ty # "alias" => rep2[x] = x
      BY <1>2, <2>3 DEF Representatives
    <3>3. vals[x].ty = "alias" => vals[x].to \in Value /\ rep[x] = rep[vals[x].to]
      BY DEF Values, Representatives
    <3>4. QED
      BY <1>2, <2>1, <3>1, <3>2, <3>3
  <2>4. QED
    BY <2>2, <2>3
<1>5. rep2 \in [Value' -> Value']
  BY <1>1, <1>2
<1>6. Representatives(rep2)'
  BY <1>4, <1>5 DEF Representatives
<1>7. QED
  BY <1>2, <1>3, <1>6 DEF Coarser

\* A sentinel that becomes a phi stands for itself, as before.
LEMMA RepPhi ==
  ASSUME Values, NEW rep, Representatives(rep), NEW s \in Value, NEW def,
         vals[s].ty = "invalid", def.ty = "phi", Value' = Value,
         \A x \in Value : vals'[x] = IF x = s THEN def ELSE vals[x]
  PROVE  Representatives(rep)' /\ Coarser(rep, rep)
<1>1. \A x \in Value : rep[x] \in Value /\ (vals'[x].ty = "alias" <=> vals[x].ty = "alias")
  BY DEF Representatives
<1>2. \A x \in Value : vals[x].ty = "alias" => vals'[x] = vals[x]
  OBVIOUS
<1>3. QED
  BY <1>1, <1>2 DEF Representatives, Coarser

\* resolve_alias finds the representative.
LEMMA ResolveIsRep ==
  ASSUME Values, AliasOrder, NEW rep, Representatives(rep), NEW v \in Value
  PROVE  resolve_alias(v) = rep[v]
<1>1. Len(vals) \in Nat
  BY DEF Values
<1>2. PICK c \in [0 .. Len(vals) -> Value] :
           /\ c[0] = v /\ resolve_alias(v) = c[Len(vals)]
           /\ \A k \in 1 .. Len(vals) : c[k] = link(c[k - 1])
  BY ChainExists
<1>3. \A x \in Value : rep[link(x)] = rep[x]
  BY DEF link, Representatives
<1>4. PICK f, g : f = [k \in 0 .. Len(vals) |-> rep[c[k]]] /\ g = [k \in 0 .. Len(vals) |-> rep[v]]
  OBVIOUS
<1>5. \A k \in 0 .. Len(vals) : f[k] = rep[c[k]] /\ g[k] = rep[v]
  BY <1>4
<1>6. FunctionTo(f, Len(vals)) /\ FunctionTo(g, Len(vals))
  BY <1>4, <1>5 DEF FunctionTo
<1>7. f[0] = g[0]
  BY <1>1, <1>2, <1>5
<1>8. ASSUME NEW k \in 1 .. Len(vals), f[k - 1] = g[k - 1] PROVE f[k] = g[k]
  <2>1. k - 1 \in 0 .. Len(vals) /\ k \in 0 .. Len(vals)
    BY <1>1
  <2>2. c[k - 1] \in Value /\ c[k] = link(c[k - 1])
    BY <1>2, <2>1
  <2>3. QED
    BY <1>3, <1>5, <1>8, <2>1, <2>2
<1>9. f = g
  BY <1>1, <1>6, <1>7, <1>8, SameSteps
<1>10. rep[c[Len(vals)]] = rep[v]
  BY <1>1, <1>5, <1>9
<1>11. resolve_alias(v) \in Value /\ vals[resolve_alias(v)].ty # "alias"
  BY ResolveEnds
<1>12. QED
  BY <1>2, <1>10, <1>11 DEF Representatives

-----------------------------------------------------------------------------
(* What a step leaves as it was.                                           *)

\* From rep to rep2: values are added, and what was one value stays one.
Grown(rep, rep2) ==
  /\ Representatives(rep) /\ Representatives(rep2)' /\ Coarser(rep, rep2)
  /\ Values /\ Values' /\ Value \subseteq Value'
  /\ \A x \in Value : vals[x].ty = "phi" => vals'[x] = vals[x]

\* The step has nothing to do with v at the start of b.
Undisturbed(v, b) ==
  /\ b \in sealed \cup {sealing.block} => b \in sealed' \cup {sealing'.block} /\ preds'[b] = preds[b]
  /\ \A p \in ToSet(preds[b]) : variables[v][p] # None => variables'[v][p] = variables[v][p]
  /\ \A y : Asked(v, b, y)' <=> Asked(v, b, y)

\* A step that leaves the values leaves what they stand for.
LEMMA GrownKept ==
  ASSUME Values, NEW rep, Representatives(rep), vals' = vals
  PROVE  Grown(rep, rep)
<1>1. Value' = Value
  BY DEF Value
<1>2. Values'
  BY <1>1 DEF Values
<1>3. QED
  BY <1>1, <1>2, RepKept DEF Grown

\* The history of a variable in a block goes on as it was.
LEMMA TrackKept ==
  ASSUME Tables, NEW rep, NEW rep2, Grown(rep, rep2), NEW v \in Place, NEW b \in 1 .. NumBlocks,
         NEW d, Track(rep, d, v, b), variables'[v][b] = variables[v][b], code'[b] = code[b]
  PROVE  Track(rep2, d, v, b)'
<1>1. Len(vals) \in Nat /\ Len(vals') \in Nat /\ 0 .. Len(vals) \subseteq 0 .. Len(vals')
  <2>1. Len(vals) \in Nat /\ Len(vals') \in Nat /\ 1 .. Len(vals) \subseteq 1 .. Len(vals')
    BY DEF Grown, Values, Value
  <2>2. QED
    BY <2>1
<1>2. d[Len(code[b]) + 1] = variables[v][b]
  BY DEF Track
<1>3. \A k \in 1 .. Len(code[b]) + 1 : d[k] \in 0 .. Len(vals) /\ (d[k] # None => variables[v][b] # None)
  BY DEF Track
<1>4. ASSUME NEW k \in 1 .. Len(code[b])
      PROVE  /\ d[k + 1] = IF Sets(code[b][k], v) THEN code[b][k].val ELSE d[k]
             /\ code[b][k].op # "write" /\ Source(code[b][k]) = v =>
                  d[k] # None /\ rep2[d[k]] = rep2[code[b][k].val]
  <2>1. /\ d[k + 1] = IF Sets(code[b][k], v) THEN code[b][k].val ELSE d[k]
        /\ code[b][k].op # "write" /\ Source(code[b][k]) = v =>
             d[k] # None /\ rep[d[k]] = rep[code[b][k].val]
    BY DEF Track
  <2>2. code[b][k].val \in Value
    BY DEF Tables
  <2>3. k \in 1 .. Len(code[b]) + 1
    <3>1. Len(code[b]) \in Nat
      BY DEF Tables
    <3>2. QED
      BY <3>1
  <2>4. d[k] # None => d[k] \in Value
    BY <1>1, <1>3, <2>3 DEF Value, None
  <2>5. QED
    BY <2>1, <2>2, <2>4 DEF Grown, Coarser
<1>5. d[Len(code'[b]) + 1] = variables'[v][b]
  BY <1>2
<1>6. \A k \in 1 .. Len(code'[b]) + 1 : d[k] \in 0 .. Len(vals') /\ (d[k] # None => variables'[v][b] # None)
  BY <1>1, <1>3
<1>7. \A k \in 1 .. Len(code'[b]) :
        /\ d[k + 1] = IF Sets(code'[b][k], v) THEN code'[b][k].val ELSE d[k]
        /\ code'[b][k].op # "write" /\ Source(code'[b][k]) = v =>
             d[k] # None /\ rep2[d[k]] = rep2[code'[b][k].val]
  BY <1>4
<1>8. QED
  BY <1>5, <1>6, <1>7 DEF Track

\* What has been answered stays answered.
LEMMA AnsweredKept ==
  ASSUME IInv, phase = "build", NEW rep, NEW rep2, Grown(rep, rep2), NEW v \in Place, NEW b \in 1 .. NumBlocks,
         NEW x \in Value, Answered(rep, v, b, x), preds'[b] = preds[b],
         b \in sealed' \cup {sealing'.block},
         \A p \in ToSet(preds[b]) : variables[v][p] # None => variables'[v][p] = variables[v][p]
  PROVE  Answered(rep2, v, b, x)'
<1>1. ToSet(preds[b]) \subseteq 1 .. NumBlocks
  <2>1. Block \subseteq 1 .. NumBlocks
    BY SSABuilderAssumption DEF IInv, Graph, Block
  <2>2. preds[b] \in Seq(Block)
    BY DEF IInv, Graph
  <2>3. DOMAIN preds[b] = 1 .. Len(preds[b]) /\ \A i \in 1 .. Len(preds[b]) : preds[b][i] \in Block
    BY <2>2
  <2>4. QED
    BY <2>1, <2>3 DEF ToSet
<1>2. \A p \in ToSet(preds[b]) : /\ variables'[v][p] = variables[v][p] /\ variables[v][p] # None
                                 /\ variables[v][p] \in Value
  <2> SUFFICES ASSUME NEW p \in ToSet(preds[b])
               PROVE  variables[v][p] # None /\ variables[v][p] \in Value
    OBVIOUS
  <2>1. variables[v][p] # None
    BY DEF Answered
  <2>2. variables \in [Place -> [1 .. NumBlocks -> 0 .. Len(vals)]] /\ Len(vals) \in Nat
    BY DEF IInv, Tables, Values
  <2>3. variables[v][p] \in 0 .. Len(vals)
    BY <1>1, <2>2
  <2>4. QED
    BY <2>1, <2>2, <2>3 DEF Value, None
<1>3. \A x1, x2 \in Value : rep[x1] = rep[x2] => rep2[x1] = rep2[x2]
  BY DEF Grown, Coarser
<1>4. ToSet(preds[b])' = ToSet(preds[b])
  BY DEF ToSet
<1>5. CASE /\ \A p \in ToSet(preds[b]) : rep[variables[v][p]] = rep[x]
           /\ preds[b] = <<>> => rep[x] = GRAVESTONE
  <2>1. \A p \in ToSet(preds[b]) : rep2[variables'[v][p]] = rep2[x]
    BY <1>2, <1>3, <1>5
  <2>2. preds[b] = <<>> => rep2[x] = GRAVESTONE
    <3>1. GRAVESTONE \in Value /\ rep[GRAVESTONE] = GRAVESTONE
      BY DEF Grown, Values, Representatives, Inst
    <3>2. rep2[GRAVESTONE] = GRAVESTONE
      <4>1. (GRAVESTONE \in Value)' /\ (vals[GRAVESTONE] = Inst)' /\ GRAVESTONE' = GRAVESTONE
        BY DEF Grown, Values, GRAVESTONE
      <4>2. GRAVESTONE \in Value' /\ vals'[GRAVESTONE].ty # "alias"
        BY <4>1 DEF Inst, GRAVESTONE
      <4>3. QED
        BY <4>2 DEF Grown, Representatives
    <3>3. QED
      BY <1>3, <1>5, <3>1, <3>2
  <2>3. QED
    BY <1>2, <1>4, <2>1, <2>2 DEF Answered, GRAVESTONE
<1>6. CASE /\ vals[x].ty = "phi" /\ vals[x].block = b /\ preds[b] # <<>>
           /\ \A p \in ToSet(preds[b]) : rep[vals[x].args[p]] = rep[variables[v][p]]
  <2>1. vals'[x] = vals[x]
    BY <1>6 DEF Grown
  <2>2. \A p \in ToSet(preds[b]) : vals[x].args[p] \in Value
    <3>1. ToSet(preds[b]) = DOMAIN vals[x].args
      BY <1>6 DEF IInv, Edges, Phis
    <3>2. QED
      BY <1>6, <3>1 DEF IInv, Phis
  <2>3. \A p \in ToSet(preds[b]) : rep2[vals'[x].args[p]] = rep2[variables'[v][p]]
    BY <1>2, <1>3, <1>6, <2>1, <2>2
  <2>4. QED
    BY <1>2, <1>4, <1>6, <2>1, <2>3 DEF Answered
<1>7. QED
  BY <1>5, <1>6 DEF Answered

\* What stands for a variable at the start of a block that a step has nothing to do with.
LEMMA OriginKept ==
  ASSUME IInv, phase = "build", NEW rep, NEW rep2, Grown(rep, rep2), NEW v \in Place, NEW b \in 1 .. NumBlocks,
         NEW x \in 0 .. Len(vals), Origin(rep, x, v, b), Undisturbed(v, b)
  PROVE  Origin(rep2, x, v, b)'
<1>1. Len(vals) \in Nat
  BY DEF IInv, Values
<1>2. \A y : Asked(v, b, y)' => x = y
  BY DEF Origin, Undisturbed
<1>3. ASSUME x # None PROVE Asked(v, b, x)' \/ Answered(rep2, v, b, x)'
  <2>1. x \in Value
    BY <1>1, <1>3 DEF Value, None
  <2>2. CASE Asked(v, b, x)
    BY <2>2 DEF Undisturbed
  <2>3. CASE Answered(rep, v, b, x)
    <3>1. /\ b \in sealed' \cup {sealing'.block} /\ preds'[b] = preds[b]
          /\ \A p \in ToSet(preds[b]) : variables[v][p] # None => variables'[v][p] = variables[v][p]
      BY <2>3 DEF Answered, Undisturbed
    <3>2. QED
      BY <2>1, <2>3, <3>1, AnsweredKept
  <2>4. QED
    BY <1>3, <2>2, <2>3 DEF Origin
<1>4. QED
  BY <1>2, <1>3 DEF Origin, None

\* The first value of a history is one of those there are, or none.
LEMMA TrackStarts ==
  ASSUME IInv, NEW rep, NEW v \in Place, NEW b \in 1 .. NumBlocks, NEW d, Track(rep, d, v, b)
  PROVE  d[1] \in 0 .. Len(vals)
<1>1. Len(code[b]) \in Nat
  BY DEF IInv, Tables
<1>2. 1 \in 1 .. Len(code[b]) + 1
  BY <1>1
<1>3. QED
  BY <1>2 DEF Track

\* A variable keeps its history in a block that a step has nothing to do with.
LEMMA LineKept ==
  ASSUME IInv, phase = "build", NEW rep, NEW rep2, Grown(rep, rep2), NEW v \in Place, NEW b \in 1 .. NumBlocks,
         NEW d, Track(rep, d, v, b), Origin(rep, d[1], v, b), Undisturbed(v, b),
         variables'[v][b] = variables[v][b], code'[b] = code[b]
  PROVE  Track(rep2, d, v, b)' /\ Origin(rep2, d[1], v, b)'
<1>1. Track(rep2, d, v, b)'
  BY TrackKept DEF IInv
<1>2. PICK x : x = d[1]
  OBVIOUS
<1>3. x \in 0 .. Len(vals)
  BY <1>2, TrackStarts
<1>4. Origin(rep, x, v, b)
  BY <1>2
<1>5. Origin(rep2, x, v, b)'
  BY <1>3, <1>4, OriginKept
<1>6. QED
  BY <1>1, <1>2, <1>5

\* A step that leaves the code and the variables leaves their history.
LEMMA HistoryKept ==
  ASSUME IInv, phase = "build", NEW rep, NEW rep2, Grown(rep, rep2), History(rep),
         UNCHANGED <<variables, code>>, \A v \in Place : \A b \in 1 .. NumBlocks : Undisturbed(v, b)
  PROVE  History(rep2)'
<1> SUFFICES ASSUME NEW v \in Place, NEW b \in 1 .. NumBlocks
             PROVE  \E d : Track(rep2, d, v, b)' /\ Origin(rep2, d[1], v, b)'
  BY DEF History
<1>1. PICK d : Track(rep, d, v, b) /\ Origin(rep, d[1], v, b)
  BY DEF History
<1>2. Undisturbed(v, b)
  OBVIOUS
<1>3. QED
  BY <1>1, <1>2, LineKept

\* A value that is right for a block stays right as long as the variable is not redefined.
LEMMA AgreeGrows ==
  ASSUME IInv, NEW rep, NEW rep2, Grown(rep, rep2), NEW v \in Place, Block \subseteq Block',
         \A b \in Block : variables[v][b] # None => variables'[v][b] = variables[v][b]
  PROVE  Agree(rep, v) \subseteq Agree(rep2, v)'
<1> SUFFICES ASSUME NEW x \in Value, NEW b \in Block, variables[v][b] # None, rep[x] = rep[variables[v][b]]
             PROVE  /\ x \in Value' /\ b \in Block' /\ variables'[v][b] # None
                    /\ rep2[x] = rep2[variables'[v][b]]
  BY DEF Agree
<1>1. variables[v][b] \in Value
  <2>1. b \in 1 .. NumBlocks
    BY SSABuilderAssumption DEF IInv, Graph, Block
  <2>2. variables \in [Place -> [1 .. NumBlocks -> 0 .. Len(vals)]] /\ Len(vals) \in Nat
    BY DEF IInv, Tables, Values
  <2>3. variables[v][b] \in 0 .. Len(vals)
    BY <2>1, <2>2
  <2>4. QED
    BY <2>2, <2>3 DEF Value, None
<1>2. QED
  BY <1>1 DEF Grown, Coarser

-----------------------------------------------------------------------------
(* Steps between the lookups.                                              *)

\* A step outside of the lookups that leaves values, variables and code.
LEMMA QuietStep ==
  ASSUME IInv, Build, phase = "build", pending = NoCaller, UNCHANGED <<vals, variables, code>>,
         calls' = <<>>, pending' = NoCaller, Block \subseteq Block', Entry \in sealed', preds'[Entry] = <<>>,
         \A v \in Place : \A b \in 1 .. NumBlocks : Undisturbed(v, b)
  PROVE  Build'
<1>1. PICK rep : Meaning(rep)
  BY DEF Build
<1>2. Representatives(rep) /\ History(rep)
  BY <1>1 DEF Meaning
<1>3. Grown(rep, rep)
  BY <1>2, GrownKept DEF IInv
<1>4. Representatives(rep)' /\ History(rep)'
  BY <1>2, <1>3, HistoryKept DEF Grown
<1>5. Scheduled(rep)' /\ Found(rep)'
  BY DEF Scheduled, Found, NoCaller
<1>6. Finishing' = {}
  BY NoCalls
<1>7. \A v \in Place : \A b \in 1 .. NumBlocks : variables'[v][b] # None => Mentioned(v)'
  <2> SUFFICES ASSUME NEW v \in Place, NEW b \in 1 .. NumBlocks, variables'[v][b] # None
               PROVE  Mentioned(v)'
    OBVIOUS
  <2>1. Mentioned(v)
    BY DEF Build, Lookups
  <2>2. PICK c \in Block : \E k \in 1 .. Len(code[c]) : Mentions(code[c][k], v)
    BY <2>1 DEF Mentioned
  <2>3. c \in Block' /\ \E k \in 1 .. Len(code'[c]) : Mentions(code'[c][k], v)
    BY <2>2
  <2>4. QED
    BY <2>3 DEF Mentioned, Mentions
<1>8. Lookups'
  BY <1>6, <1>7 DEF Lookups, NoCaller, Entry, None
<1>9. QED
  BY <1>4, <1>5, <1>8 DEF Build, Meaning

\* Where nothing that a history speaks of changes.
LEMMA UndisturbedSame ==
  ASSUME UNCHANGED <<sealed, preds, sealing, undef_phis, variables, calls, var>>, NEW v, NEW b
  PROVE  Undisturbed(v, b)
<1>1. \A y : Asked(v, b, y)' <=> Asked(v, b, y)
  BY DEF Asked, Finishing
<1>2. QED
  BY <1>1 DEF Undisturbed

\* create_block and switch_to_block.
LEMMA MoveReads ==
  ASSUME IInv, Build, CreateFirst \/ Switch
  PROVE  Build'
<1>1. Building /\ UNCHANGED <<sealed, preds, sealing, undef_phis, variables, calls, var, vals, code, pending, phase>>
      /\ created' \in {created, created + 1}
  BY DEF CreateFirst, create_blocks, Switch, switch_to_block, ssaVars, cfgVars, machine, builder
<1>2. phase = "build" /\ calls = <<>> /\ pending = NoCaller
  BY <1>1, WhenBuilding
<1>3. Block \subseteq Block'
  <2>1. created \in Nat
    BY SSABuilderAssumption DEF IInv, Graph
  <2>2. QED
    BY <1>1, <2>1 DEF Block
<1>4. \A v \in Place : \A b \in 1 .. NumBlocks : Undisturbed(v, b)
  BY <1>1, UndisturbedSame
<1>5. Entry \in sealed' /\ preds'[Entry] = <<>>
  BY <1>1, <1>2 DEF Build, Lookups
<1>6. QED
  BY <1>1, <1>2, <1>3, <1>4, <1>5, QuietStep

\* insert_terminator: no block gets a predecessor after it has been sealed.
LEMMA TerminateReads ==
  ASSUME IInv, Build, Terminate
  PROVE  Build'
<1>1. PICK dests \in SUBSET Block : MayJump(dests) /\ insert_terminator(dests)
  BY DEF Terminate
<1>2. /\ Building /\ dests \cap sealed = {}
      /\ preds' = [b \in 1 .. NumBlocks |->
                     IF b \in dests THEN add_predecessor(preds[b], position) ELSE preds[b]]
      /\ UNCHANGED <<created, sealed, sealing, undef_phis, variables, calls, var, vals, code, pending, phase>>
  BY <1>1 DEF MayJump, insert_terminator, machine
<1>3. phase = "build" /\ calls = <<>> /\ pending = NoCaller /\ sealing.block = 0
  BY <1>2, WhenBuilding
<1>4. \A b \in 1 .. NumBlocks : b \in sealed => preds'[b] = preds[b]
  BY <1>2
<1>5. ASSUME NEW v \in Place, NEW b \in 1 .. NumBlocks PROVE Undisturbed(v, b)
  <2>1. \A y : Asked(v, b, y)' <=> Asked(v, b, y)
    BY <1>2 DEF Asked, Finishing
  <2>2. b # 0
    OBVIOUS
  <2>3. QED
    BY <1>2, <1>3, <1>4, <2>1, <2>2 DEF Undisturbed
<1>6. Entry \in sealed' /\ preds'[Entry] = <<>>
  <2>1. Entry \in sealed /\ preds[Entry] = <<>>
    BY <1>3 DEF Build, Lookups
  <2>2. Entry \in 1 .. NumBlocks
    BY SSABuilderAssumption DEF Entry
  <2>3. QED
    BY <1>2, <1>4, <2>1, <2>2
<1>7. Block' = Block
  BY <1>2 DEF Block
<1>8. QED
  BY <1>2, <1>3, <1>5, <1>6, <1>7, QuietStep

\* seal_one_block takes over those who wait for the predecessors of its block.
LEMMA SealReads ==
  ASSUME IInv, Build, SealAny
  PROVE  Build'
<1>1. PICK c \in Block : MaySeal(c) /\ Seal(c)
  BY DEF SealAny
<1>2. /\ Building /\ sealing' = [block |-> c, todo |-> undef_phis[c]]
      /\ undef_phis' = [undef_phis EXCEPT ![c] = <<>>]
      /\ UNCHANGED <<created, preds, sealed, variables, calls, var, vals, code, pending, phase>>
  BY <1>1 DEF Seal, seal_block, cfgVars, machine, builder
<1>3. /\ phase = "build" /\ calls = <<>> /\ pending = NoCaller /\ sealing.block = 0
      /\ sealing.todo = <<>> /\ Finishing = {}
  BY <1>2, WhenBuilding
<1>4. Finishing' = {}
  BY <1>2, <1>3, NoCalls
<1>5. undef_phis \in [1 .. NumBlocks -> Entries]
  BY DEF IInv, Waiting
<1>6. ASSUME NEW v \in Place, NEW b \in 1 .. NumBlocks PROVE Undisturbed(v, b)
  <2>0. b # 0 /\ sealing'.block = c /\ sealing'.todo = undef_phis[c]
    BY <1>2
  <2>1. ASSUME NEW y PROVE Asked(v, b, y)' <=> Asked(v, b, y)
    <3>1. Asked(v, b, y) <=> \E k \in 1 .. Len(undef_phis[b]) : undef_phis[b][k] = <<v, y>>
      BY <1>3, <2>0 DEF Asked
    <3>2. CASE b = c
      <4>1. undef_phis'[b] = <<>> /\ Len(undef_phis'[b]) = 0
        BY <1>2, <1>5, <3>2
      <4>2. Asked(v, b, y)' <=> \E k \in 1 .. Len(undef_phis[b]) : undef_phis[b][k] = <<v, y>>
        BY <1>4, <2>0, <3>2, <4>1 DEF Asked
      <4>3. QED
        BY <3>1, <4>2
    <3>3. CASE b # c
      <4>1. undef_phis'[b] = undef_phis[b]
        BY <1>2, <1>5, <3>3
      <4>2. Asked(v, b, y)' <=> \E k \in 1 .. Len(undef_phis[b]) : undef_phis[b][k] = <<v, y>>
        BY <1>4, <2>0, <3>3, <4>1 DEF Asked
      <4>3. QED
        BY <3>1, <4>2
    <3>4. QED
      BY <3>2, <3>3
  <2>2. b \in sealed \cup {sealing.block} => b \in sealed' \cup {sealing'.block} /\ preds'[b] = preds[b]
    BY <1>2, <1>3, <2>0
  <2>3. QED
    BY <1>2, <2>1, <2>2 DEF Undisturbed
<1>7. Entry \in sealed' /\ preds'[Entry] = <<>> /\ Block' = Block
  BY <1>2, <1>3 DEF Build, Lookups, Block
<1>8. QED
  BY <1>2, <1>3, <1>6, <1>7, QuietStep

\* seal_one_block marks its block when nobody waits any more.
LEMMA SealEndReads ==
  ASSUME IInv, Build, SealEnd, UNCHANGED builder, UNCHANGED phase
  PROVE  Build'
<1>1. /\ sealing.block # None /\ sealing.todo = <<>> /\ calls = <<>>
      /\ sealed' = sealed \cup {sealing.block} /\ sealing' = NotSealing
      /\ UNCHANGED <<created, preds, undef_phis, variables, vals, calls>>
      /\ UNCHANGED <<code, pending, phase>>
  BY DEF SealEnd, builder
<1>2. sealing # NotSealing /\ sealing'.block = 0 /\ sealing'.todo = <<>>
  BY <1>1 DEF NotSealing, None
<1>3. phase = "build" /\ pending = NoCaller
  BY <1>2 DEF IInv, Stages
<1>4. Finishing = {} /\ Finishing' = {}
  <2>1. Finishing' = {}
    BY <1>1, NoCalls
  <2>2. QED
    BY <1>1, <2>1 DEF Finishing
<1>5. ASSUME NEW v \in Place, NEW b \in 1 .. NumBlocks PROVE Undisturbed(v, b)
  <2>1. \A y : Asked(v, b, y)' <=> Asked(v, b, y)
    <3>1. Len(sealing.todo) = 0 /\ Len(sealing'.todo) = 0
      BY <1>1, <1>2
    <3>2. QED
      BY <1>1, <1>4, <3>1 DEF Asked
  <2>2. QED
    BY <1>1, <2>1 DEF Undisturbed
<1>6. Entry \in sealed' /\ preds'[Entry] = <<>> /\ Block' = Block
  BY <1>1, <1>3 DEF Build, Lookups, Block
<1>7. QED
  BY <1>1, <1>3, <1>5, <1>6, QuietStep

-----------------------------------------------------------------------------
(* Instructions.                                                           *)

\* A predecessor is filled: what the open block defines is not what one has found.
LEMMA OpenIsNoPredecessor ==
  ASSUME IInv, phase = "build", NEW b \in 1 .. NumBlocks, NEW p \in ToSet(preds[b])
  PROVE  p \in filled /\ p \in 1 .. NumBlocks
<1>1. p \in {q \in Block : b \in succs[q]}
  BY DEF IInv, Edges
<1>2. p \in 1 .. NumBlocks /\ succs[p] # {}
  BY <1>1, SSABuilderAssumption DEF IInv, Graph, Block
<1>3. QED
  BY <1>2 DEF IInv, Edges

\* One more instruction at the end of the block, with what it defines.
Inserts(c) ==
  /\ c \in Operation /\ c.val \in Value' /\ position \notin filled
  /\ code' = [code EXCEPT ![position] = Append(@, c)]
  /\ \A w \in Place : \A b \in 1 .. NumBlocks :
       variables'[w][b] = IF Sets(c, w) /\ b = position THEN c.val ELSE variables[w][b]
  /\ calls = <<>> /\ UNCHANGED <<calls, undef_phis, sealing, sealed, preds>>

\* The last instruction of a block goes on with what stood for each variable before it.
LEMMA InsertHistory ==
  ASSUME IInv, phase = "build", NEW rep, NEW rep2, Grown(rep, rep2), History(rep), NEW c, Inserts(c),
         c.op # "write" => /\ variables[Source(c)][position] # None
                           /\ rep2[variables[Source(c)][position]] = rep2[c.val]
  PROVE  History(rep2)'
<1>1. /\ c \in Operation /\ c.val \in Value' /\ position \notin filled
      /\ code' = [code EXCEPT ![position] = Append(@, c)]
      /\ \A w \in Place : \A b \in 1 .. NumBlocks :
           variables'[w][b] = IF Sets(c, w) /\ b = position THEN c.val ELSE variables[w][b]
      /\ calls = <<>> /\ UNCHANGED <<calls, undef_phis, sealing, sealed, preds>>
  BY DEF Inserts
<1>2. /\ position \in 1 .. NumBlocks /\ code \in [1 .. NumBlocks -> Seq(Operation)]
      /\ \A b \in 1 .. NumBlocks : \A k \in 1 .. Len(code[b]) : code[b][k].val \in Value
      /\ Len(vals) \in Nat /\ Len(vals') \in Nat
  BY SSABuilderAssumption DEF IInv, Graph, Block, Tables, Values, Grown
<1>3. 0 .. Len(vals) \subseteq 0 .. Len(vals') /\ \A x \in Value' : x \in 0 .. Len(vals') /\ x # None
  <2>1. 1 .. Len(vals) \subseteq 1 .. Len(vals')
    BY DEF Grown, Value
  <2>2. QED
    BY <1>2, <2>1 DEF Value, None
<1>4. PICK n : n = Len(code[position])
  OBVIOUS
<1>5. /\ n \in Nat /\ Len(code'[position]) = n + 1
      /\ \A k \in 1 .. n : code'[position][k] = code[position][k]
      /\ code'[position][n + 1] = c
  <2>1. code'[position] = Append(code[position], c) /\ code[position] \in Seq(Operation)
    BY <1>1, <1>2
  <2>2. QED
    BY <1>1, <1>4, <2>1, AppendProperties
<1>6. ASSUME NEW v \in Place, NEW b \in 1 .. NumBlocks PROVE Undisturbed(v, b)
  <2>1. Finishing = {} /\ Finishing' = {}
    <3>1. Finishing' = {}
      BY <1>1, NoCalls
    <3>2. QED
      BY <1>1, <3>1 DEF Finishing
  <2>2. \A y : Asked(v, b, y)' <=> Asked(v, b, y)
    BY <1>1, <2>1 DEF Asked
  <2>3. \A p \in ToSet(preds[b]) : variables'[v][p] = variables[v][p]
    BY <1>1, OpenIsNoPredecessor
  <2>4. QED
    BY <1>1, <2>2, <2>3 DEF Undisturbed
<1>7. ASSUME NEW v \in Place, NEW b \in 1 .. NumBlocks
      PROVE  \E d : Track(rep2, d, v, b)' /\ Origin(rep2, d[1], v, b)'
  <2>1. PICK d : Track(rep, d, v, b) /\ Origin(rep, d[1], v, b)
    BY DEF History
  <2>2. CASE b # position
    <3>1. variables'[v][b] = variables[v][b] /\ code'[b] = code[b]
      BY <1>1, <1>2, <2>2
    <3>2. QED
      BY <1>6, <2>1, <3>1, LineKept
  <2>3. CASE b = position
    <3>1. PICK e : e = [k \in 1 .. n + 2 |-> IF k = n + 2 THEN variables'[v][b] ELSE d[k]]
      OBVIOUS
    <3>2. e[n + 2] = variables'[v][b] /\ \A k \in 1 .. n + 1 : e[k] = d[k]
      BY <1>5, <3>1
    <3>3. e[1] = d[1]
      BY <1>5, <3>2
    <3>4. /\ d[n + 1] = variables[v][b]
          /\ \A k \in 1 .. n + 1 : d[k] \in 0 .. Len(vals) /\ (d[k] # None => variables[v][b] # None)
      BY <1>4, <2>1, <2>3 DEF Track
    <3>5. \A k \in 1 .. n :
            /\ d[k + 1] = IF Sets(code[b][k], v) THEN code[b][k].val ELSE d[k]
            /\ code[b][k].op # "write" /\ Source(code[b][k]) = v =>
                 d[k] # None /\ rep[d[k]] = rep[code[b][k].val]
      BY <1>4, <2>1, <2>3 DEF Track
    <3>6. variables'[v][b] = IF Sets(c, v) THEN c.val ELSE variables[v][b]
      BY <1>1, <2>3
    <3>7. variables[v][b] \in 0 .. Len(vals) /\ variables'[v][b] \in 0 .. Len(vals')
          /\ (variables[v][b] # None => variables'[v][b] # None)
      <4>1. n + 1 \in 1 .. n + 1
        BY <1>5
      <4>2. variables[v][b] \in 0 .. Len(vals)
        BY <3>4, <4>1
      <4>3. QED
        BY <1>1, <1>3, <3>6, <4>2
    <3>8. ASSUME NEW k \in 1 .. n + 2 PROVE e[k] \in 0 .. Len(vals') /\ (e[k] # None => variables'[v][b] # None)
      <4>1. CASE k = n + 2
        BY <3>2, <3>7, <4>1
      <4>2. CASE k # n + 2
        <5>1. k \in 1 .. n + 1
          BY <1>5, <4>2
        <5>2. QED
          BY <1>3, <3>2, <3>4, <3>7, <5>1
      <4>3. QED
        BY <4>1, <4>2
    <3>9. ASSUME NEW k \in 1 .. n + 1
          PROVE  /\ e[k + 1] = IF Sets(code'[b][k], v) THEN code'[b][k].val ELSE e[k]
                 /\ code'[b][k].op # "write" /\ Source(code'[b][k]) = v =>
                      e[k] # None /\ rep2[e[k]] = rep2[code'[b][k].val]
      <4>1. CASE k = n + 1
        <5>1. code'[b][k] = c /\ e[k + 1] = variables'[v][b] /\ e[k] = variables[v][b]
          <6>1. k + 1 = n + 2
            BY <1>5, <4>1
          <6>2. QED
            BY <1>5, <2>3, <3>2, <3>4, <4>1, <6>1
        <5>2. QED
          BY <2>3, <3>6, <5>1
      <4>2. CASE k # n + 1
        <5>1. k \in 1 .. n /\ k \in 1 .. n + 1 /\ k + 1 \in 1 .. n + 1
          BY <1>5, <4>2
        <5>2. code'[b][k] = code[b][k] /\ e[k + 1] = d[k + 1] /\ e[k] = d[k]
          BY <1>5, <2>3, <3>2, <5>1
        <5>3. code[b][k].val \in Value
          BY <1>2, <1>4, <2>3, <5>1
        <5>4. d[k] # None => d[k] \in Value
          BY <1>2, <3>4, <5>1 DEF Value, None
        <5>5. QED
          BY <3>5, <5>1, <5>2, <5>3, <5>4 DEF Grown, Coarser
      <4>3. QED
        BY <4>1, <4>2
    <3>10. Track(rep2, e, v, b)'
      <4>1. Len(code'[b]) = n + 1 /\ Len(code'[b]) + 1 = n + 2
        BY <1>5, <2>3
      <4>2. e[Len(code'[b]) + 1] = variables'[v][b]
        BY <3>2, <4>1
      <4>3. \A k \in 1 .. Len(code'[b]) + 1 : e[k] \in 0 .. Len(vals') /\ (e[k] # None => variables'[v][b] # None)
        BY <3>8, <4>1
      <4>4. \A k \in 1 .. Len(code'[b]) :
              /\ e[k + 1] = IF Sets(code'[b][k], v) THEN code'[b][k].val ELSE e[k]
              /\ code'[b][k].op # "write" /\ Source(code'[b][k]) = v =>
                   e[k] # None /\ rep2[e[k]] = rep2[code'[b][k].val]
        BY <3>9, <4>1
      <4>5. QED
        BY <4>2, <4>3, <4>4 DEF Track
    <3>11. PICK x : x = d[1]
      OBVIOUS
    <3>12. x \in 0 .. Len(vals) /\ Origin(rep, x, v, b)
      BY <2>1, <3>11, TrackStarts
    <3>13. Origin(rep2, x, v, b)'
      BY <1>6, <3>12, OriginKept
    <3>14. QED
      BY <3>3, <3>10, <3>11, <3>13
  <2>4. QED
    BY <2>2, <2>3
<1>8. QED
  BY <1>7 DEF History

\* An instruction is still there, perhaps at another place.
LEMMA MentionedKept ==
  ASSUME IInv, pending = NoCaller, created' = created, NEW v, Mentioned(v),
         \A b \in Block : \A k \in 1 .. Len(code[b]) : \E l \in 1 .. Len(code'[b]) : code'[b][l] = code[b][k]
  PROVE  Mentioned(v)'
<1>1. PICK b \in Block : \E k \in 1 .. Len(code[b]) : Mentions(code[b][k], v)
  BY DEF Mentioned
<1>2. PICK k \in 1 .. Len(code[b]) : Mentions(code[b][k], v)
  BY <1>1
<1>3. PICK l \in 1 .. Len(code'[b]) : code'[b][l] = code[b][k]
  OBVIOUS
<1>4. b \in Block'
  BY DEF Block
<1>5. Mentions(code'[b][l], v)
  BY <1>2, <1>3 DEF Mentions
<1>6. QED
  BY <1>4, <1>5 DEF Mentioned, Mentions

\* An instruction is inserted, and nothing is under way.
LEMMA InsertReads ==
  ASSUME IInv, phase = "build", Lookups, NEW rep, NEW rep2, Grown(rep, rep2), Meaning(rep), NEW c, Inserts(c),
         c.op # "write" => /\ variables[Source(c)][position] # None
                           /\ rep2[variables[Source(c)][position]] = rep2[c.val],
         pending # NoCaller => \A v : Mentions(pending, v) => Mentions(c, v),
         pending' = NoCaller, created' = created
  PROVE  Build'
<1>1. History(rep2)'
  BY InsertHistory DEF Meaning
<1>2. /\ c \in Operation /\ code' = [code EXCEPT ![position] = Append(@, c)]
      /\ \A w \in Place : \A b \in 1 .. NumBlocks :
           variables'[w][b] = IF Sets(c, w) /\ b = position THEN c.val ELSE variables[w][b]
      /\ calls' = <<>> /\ UNCHANGED <<sealed, preds>>
  BY DEF Inserts
<1>3. position \in Block /\ position \in 1 .. NumBlocks /\ code \in [1 .. NumBlocks -> Seq(Operation)]
      /\ Block' = Block /\ Block \subseteq 1 .. NumBlocks
  BY SSABuilderAssumption DEF IInv, Graph, Block, Tables
<1>4. PICK n : n = Len(code[position])
  OBVIOUS
<1>5. /\ n \in Nat /\ Len(code'[position]) = n + 1
      /\ \A k \in 1 .. n : code'[position][k] = code[position][k]
      /\ code'[position][n + 1] = c
  <2>1. code'[position] = Append(code[position], c) /\ code[position] \in Seq(Operation)
    BY <1>2, <1>3
  <2>2. QED
    BY <1>2, <1>4, <2>1, AppendProperties
<1>6. Scheduled(rep2)' /\ Found(rep2)'
  BY <1>2 DEF Scheduled, Found, NoCaller
<1>7. Finishing' = {}
  BY <1>2, NoCalls
<1>8. ASSUME NEW v, Mentions(c, v) PROVE Mentioned(v)'
  <2>1. n + 1 \in 1 .. Len(code'[position]) /\ Mentions(code'[position][n + 1], v)
    BY <1>5, <1>8
  <2>2. QED
    BY <1>3, <2>1 DEF Mentioned, Mentions
<1>9. ASSUME NEW v, Mentioned(v) PROVE Mentioned(v)'
  <2>1. CASE pending # NoCaller /\ Mentions(pending, v)
    BY <1>8, <2>1
  <2>2. CASE \E b \in Block : \E k \in 1 .. Len(code[b]) : Mentions(code[b][k], v)
    <3>1. PICK b \in Block : \E k \in 1 .. Len(code[b]) : Mentions(code[b][k], v)
      BY <2>2
    <3>2. PICK k \in 1 .. Len(code[b]) : Mentions(code[b][k], v)
      BY <3>1
    <3>3. k \in 1 .. Len(code'[b]) /\ code'[b][k] = code[b][k]
      <4>1. CASE b = position
        BY <1>4, <1>5, <4>1
      <4>2. CASE b # position
        BY <1>2, <1>3, <4>2
      <4>3. QED
        BY <4>1, <4>2
    <3>4. Mentions(code'[b][k], v)
      BY <3>2, <3>3
    <3>5. QED
      BY <1>3, <3>3, <3>4 DEF Mentioned, Mentions
  <2>3. QED
    BY <1>9, <2>1, <2>2 DEF Mentioned
<1>10. \A v \in Place : \A b \in 1 .. NumBlocks : variables'[v][b] # None => Mentioned(v)'
  <2> SUFFICES ASSUME NEW v \in Place, NEW b \in 1 .. NumBlocks, variables'[v][b] # None
               PROVE  Mentioned(v)'
    OBVIOUS
  <2>1. CASE Sets(c, v)
    BY <1>8, <2>1 DEF Sets, Mentions
  <2>2. CASE ~Sets(c, v)
    BY <1>2, <1>9, <2>2 DEF Lookups
  <2>3. QED
    BY <2>1, <2>2
<1>11. Lookups'
  BY <1>2, <1>7, <1>10 DEF Lookups, NoCaller, Entry, None
<1>12. Representatives(rep2)'
  BY DEF Grown
<1>13. QED
  BY <1>1, <1>6, <1>11, <1>12 DEF Build, Meaning

\* The last instruction of the block defines v.
LEMMA DefVarReads ==
  ASSUME IInv, IInv', Build, Open, NEW v \in Place, def_var(v)
  PROVE  Build'
<1> DEFINE n == Len(vals) + 1
           c == Write(v, n)
<1>1. /\ Building /\ vals' = Append(vals, Inst) /\ variables' = [variables EXCEPT ![v][position] = n]
      /\ code' = [code EXCEPT ![position] = Append(@, c)]
      /\ UNCHANGED <<created, preds, sealed, undef_phis, calls, sealing, pending, phase>>
  BY DEF def_var, cfgVars, machine
<1>2. phase = "build" /\ calls = <<>> /\ pending = NoCaller /\ position \in 1 .. NumBlocks
  <2>1. position \in Block /\ Block \subseteq 1 .. NumBlocks
    BY <1>1, WhenBuilding
  <2>2. QED
    BY <1>1, <2>1, WhenBuilding
<1>3. Appended(Inst) /\ Values'
  BY <1>1, ValueAppended DEF IInv
<1>4. PICK rep : Meaning(rep)
  BY <1>2 DEF Build
<1>5. PICK rep2 : Representatives(rep2)' /\ Coarser(rep, rep2)
  BY <1>3, <1>4, RepAppended DEF IInv, Meaning
<1>6. Grown(rep, rep2)
  BY <1>3, <1>4, <1>5 DEF Grown, Meaning, Appended, IInv
<1>7. n \in Value' /\ n \in Nat
  BY <1>3 DEF Appended
<1>8. /\ c.op = "write" /\ c.place = v /\ c.val = n
      /\ c \in Operation
  BY <1>7 DEF Write, Operation
<1>9. \A w \in Place : \A b \in 1 .. NumBlocks :
        variables'[w][b] = IF Sets(c, w) /\ b = position THEN c.val ELSE variables[w][b]
  <2>1. variables \in [Place -> [1 .. NumBlocks -> 0 .. Len(vals)]]
    BY DEF IInv, Tables
  <2>2. \A w \in Place : Sets(c, w) <=> w = v
    BY <1>8 DEF Sets
  <2> HIDE DEF c, n
  <2>3. QED
    BY <1>1, <1>2, <1>8, <2>1, <2>2
<1> HIDE DEF c, n
<1>10. Inserts(c)
  BY <1>1, <1>2, <1>7, <1>8, <1>9 DEF Inserts, Open
<1>11. Lookups
  BY <1>2 DEF Build
<1>12. QED
  BY <1>1, <1>2, <1>4, <1>6, <1>8, <1>10, <1>11, InsertReads

\* The instruction that has waited for the lookup reads what it has found.
LEMMA TakeReads ==
  ASSUME IInv, Build, TakeResult
  PROVE  Build'
<1> DEFINE c == [pending EXCEPT !.val = results[1]]
<1>1. /\ pending # NoCaller /\ calls = <<>> /\ Len(results) = 1
      /\ code' = [code EXCEPT ![position] = Append(@, c)]
      /\ variables' = IF pending.op = "copy"
                      THEN [variables EXCEPT ![pending.place][position] = results[1]] ELSE variables
      /\ pending' = NoCaller
      /\ UNCHANGED <<created, preds, sealed, undef_phis, vals, calls, sealing>>
  BY DEF TakeResult, Returned, cfgVars
<1>2. phase = "build" /\ position \in 1 .. NumBlocks
  BY <1>1, SSABuilderAssumption DEF IInv, Stages, Graph, Block
<1>3. PICK rep : Meaning(rep) /\ Lookups
  BY <1>2 DEF Build
<1>4. Grown(rep, rep)
  BY <1>1, <1>3, GrownKept DEF IInv, Meaning
<1>5. results[1] \in Value /\ results[1] \in Nat
  <2>1. results \in Seq(Value)
    BY DEF IInv, Stack
  <2>2. results[1] \in Value
    BY <1>1, <2>1
  <2>3. QED
    BY <2>2 DEF Value
<1>6. pending \in Operation
  BY <1>1 DEF IInv, Tables
<1>7. /\ c \in Operation /\ c.op = pending.op /\ c.place = pending.place /\ c.val = results[1]
      /\ pending.op = "copy" => c.from = pending.from /\ pending.place \in Place
  BY <1>5, <1>6 DEF Operation
<1> HIDE DEF c
<1>8. /\ <<results[1], position>> \in Agree(rep, var) /\ var = Source(pending)
      /\ position \notin filled
  BY <1>1, <1>3 DEF Meaning, Found, Lookups
<1>9. variables[var][position] # None /\ rep[results[1]] = rep[variables[var][position]]
  BY <1>8 DEF Agree
<1>10. Source(c) = var /\ \A v : Mentions(pending, v) => Mentions(c, v)
  BY <1>7, <1>8 DEF Source, Mentions
<1>11. ASSUME pending.op # "write" PROVE Build'
  <2>1. \A w \in Place : \A b \in 1 .. NumBlocks :
          variables'[w][b] = IF Sets(c, w) /\ b = position THEN c.val ELSE variables[w][b]
    <3>1. variables \in [Place -> [1 .. NumBlocks -> 0 .. Len(vals)]]
      BY DEF IInv, Tables
    <3>2. \A w \in Place : Sets(c, w) <=> pending.op = "copy" /\ pending.place = w
      BY <1>6, <1>7, <1>11 DEF Sets, Operation
    <3>3. CASE pending.op = "copy"
      BY <1>1, <1>2, <1>7, <3>1, <3>2, <3>3
    <3>4. CASE pending.op # "copy"
      BY <1>1, <3>2, <3>4
    <3>5. QED
      BY <3>3, <3>4
  <2>2. Value' = Value
    BY <1>1 DEF Value
  <2>3. Inserts(c)
    BY <1>1, <1>5, <1>7, <1>8, <2>1, <2>2 DEF Inserts
  <2>4. QED
    BY <1>1, <1>2, <1>3, <1>4, <1>7, <1>9, <1>10, <2>3, InsertReads
<1>12. QED
  BY <1>1, <1>3, <1>11 DEF Lookups

\* The first instruction of the entry defines v, of which nobody has asked yet.
LEMMA DefVarAtEntryReads ==
  ASSUME IInv, IInv', Build, NEW v \in Place, def_var_at_entry(v)
  PROVE  Build'
<1> DEFINE s == Len(vals) + 1
           c == Write(v, s)
<1>1. /\ Building /\ Unmentioned(v) /\ vals' = Append(vals, Inst) /\ variables' = [variables EXCEPT ![v][Entry] = s]
      /\ code' = [code EXCEPT ![Entry] = <<c>> \o @]
      /\ UNCHANGED <<created, preds, sealed, undef_phis, calls, sealing, pending, phase>>
  BY DEF def_var_at_entry, cfgVars, machine
<1>2. phase = "build" /\ calls = <<>> /\ pending = NoCaller
  BY <1>1, WhenBuilding
<1>3. /\ Entry \in 1 .. NumBlocks /\ code \in [1 .. NumBlocks -> Seq(Operation)]
      /\ Entry \in Block /\ Block' = Block /\ Block \subseteq 1 .. NumBlocks
      /\ \A b \in 1 .. NumBlocks : \A k \in 1 .. Len(code[b]) : code[b][k].val \in Value
      /\ variables \in [Place -> [1 .. NumBlocks -> 0 .. Len(vals)]]
      /\ Len(vals) \in Nat
  <2>1. created \in 2 .. NumBlocks /\ NumBlocks \in Nat /\ NumBlocks >= 2
    BY SSABuilderAssumption DEF IInv, Graph
  <2>2. Entry \in 1 .. NumBlocks /\ Entry \in Block /\ Block' = Block /\ Block \subseteq 1 .. NumBlocks
    BY <1>1, <2>1 DEF Block, Entry
  <2>3. QED
    BY <2>2 DEF IInv, Tables, Values
<1>4. Appended(Inst) /\ Values'
  BY <1>1, ValueAppended DEF IInv
<1>5. PICK rep : Meaning(rep) /\ Lookups
  BY <1>2 DEF Build
<1>6. PICK rep2 : Representatives(rep2)' /\ Coarser(rep, rep2)
  BY <1>4, <1>5, RepAppended DEF IInv, Meaning
<1>7. Grown(rep, rep2)
  BY <1>4, <1>5, <1>6 DEF Grown, Meaning, Appended, IInv
<1>8. /\ s \in Value' /\ s \in Nat /\ s # None /\ s \in 0 .. Len(vals')
      /\ Len(vals') = s /\ 0 .. Len(vals) \subseteq 0 .. Len(vals')
  BY <1>3, <1>4 DEF Appended, None
<1>9. c.op = "write" /\ c.place = v /\ c.val = s /\ c \in Operation
  BY <1>8 DEF Write, Operation
<1> HIDE DEF c, s
<1>10. PICK n : n = Len(code[Entry])
  OBVIOUS
<1>11. /\ n \in Nat /\ Len(code'[Entry]) = n + 1
       /\ code'[Entry][1] = c
       /\ \A k \in 1 .. n : code'[Entry][k + 1] = code[Entry][k]
  <2>1. code'[Entry] = <<c>> \o code[Entry] /\ code[Entry] \in Seq(Operation)
    BY <1>1, <1>3
  <2>2. PICK one : one = <<c>>
    OBVIOUS
  <2>3. one \in Seq(Operation) /\ Len(one) = 1 /\ one[1] = c
    BY <1>9, <2>2
  <2>4. /\ Len(one \o code[Entry]) = Len(one) + Len(code[Entry])
        /\ \A k \in 1 .. Len(one) + Len(code[Entry]) :
             (one \o code[Entry])[k] = IF k <= Len(one) THEN one[k] ELSE code[Entry][k - Len(one)]
    BY <2>1, <2>3, ConcatProperties
  <2>5. n \in Nat
    BY <1>10, <2>1
  <2>6. \A k \in 1 .. n : k + 1 \in 1 .. 1 + n /\ ~(k + 1 <= 1) /\ (k + 1) - 1 = k
    BY <2>5
  <2>7. Len(code'[Entry]) = n + 1
    BY <1>10, <2>1, <2>2, <2>3, <2>4, <2>5
  <2>8. code'[Entry][1] = c
    BY <1>10, <2>1, <2>2, <2>3, <2>4, <2>5
  <2>9. \A k \in 1 .. n : code'[Entry][k + 1] = code[Entry][k]
    BY <1>10, <2>1, <2>2, <2>3, <2>4, <2>6
  <2>10. QED
    BY <2>5, <2>7, <2>8, <2>9
<1>12. \A b \in 1 .. NumBlocks : variables[v][b] = None
  <2>1. ~Mentioned(v)
    <3>1. \A b \in Block : \A k \in 1 .. Len(code[b]) : ~Mentions(code[b][k], v)
      <4>1. \A b \in Block : DOMAIN code[b] = 1 .. Len(code[b])
        BY <1>3
      <4>2. QED
        BY <1>1, <4>1 DEF Unmentioned
    <3>2. QED
      BY <1>2, <3>1 DEF Mentioned
  <2>2. QED
    BY <1>5, <2>1 DEF Lookups
<1>13. \A w \in Place : \A b \in 1 .. NumBlocks :
         variables'[w][b] = IF w = v /\ b = Entry THEN s ELSE variables[w][b]
  BY <1>1, <1>3
<1>14. \A b \in 1 .. NumBlocks : b # Entry => code'[b] = code[b]
  BY <1>1, <1>3
<1>15. ASSUME NEW w \in Place, NEW b \in 1 .. NumBlocks PROVE Undisturbed(w, b)
  <2>1. Finishing = {} /\ Finishing' = {}
    <3>1. Finishing' = {}
      BY <1>1, <1>2, NoCalls
    <3>2. QED
      BY <1>1, <3>1 DEF Finishing
  <2>2. \A y : Asked(w, b, y)' <=> Asked(w, b, y)
    BY <1>1, <2>1 DEF Asked
  <2>3. \A p \in ToSet(preds[b]) : variables[w][p] # None => variables'[w][p] = variables[w][p]
    BY <1>2, <1>12, <1>13, OpenIsNoPredecessor
  <2>4. QED
    BY <1>1, <2>2, <2>3 DEF Undisturbed
<1>16. ASSUME NEW w \in Place, NEW b \in 1 .. NumBlocks
       PROVE  \E d : Track(rep2, d, w, b)' /\ Origin(rep2, d[1], w, b)'
  <2>1. PICK d : Track(rep, d, w, b) /\ Origin(rep, d[1], w, b)
    BY <1>5 DEF Meaning, History
  <2>2. CASE b # Entry
    BY <1>2, <1>7, <1>13, <1>14, <1>15, <2>1, <2>2, LineKept
  <2>3. CASE b = Entry
    <3>1. PICK e : e = [k \in 1 .. n + 2 |-> IF k = 1 THEN d[1] ELSE IF w = v THEN s ELSE d[k - 1]]
      OBVIOUS
    <3>2. /\ e[1] = d[1]
          /\ \A k \in 1 .. n + 1 : e[k + 1] = IF w = v THEN s ELSE d[k]
      BY <1>11, <3>1
    <3>3. /\ d[n + 1] = variables[w][b]
          /\ \A k \in 1 .. n + 1 : d[k] \in 0 .. Len(vals) /\ (d[k] # None => variables[w][b] # None)
      BY <1>10, <2>1, <2>3 DEF Track
    <3>4. \A k \in 1 .. n :
            /\ d[k + 1] = IF Sets(code[b][k], w) THEN code[b][k].val ELSE d[k]
            /\ code[b][k].op # "write" /\ Source(code[b][k]) = w =>
                 d[k] # None /\ rep[d[k]] = rep[code[b][k].val]
      BY <1>10, <2>1, <2>3 DEF Track
    <3>5. variables'[w][b] = IF w = v THEN s ELSE variables[w][b]
      BY <1>13, <2>3
    <3>6. ASSUME w = v PROVE \A k \in 1 .. n : ~Mentions(code[b][k], v)
      <4>1. DOMAIN code[b] = 1 .. n
        BY <1>3, <1>10, <2>3
      <4>2. QED
        BY <1>1, <1>3, <2>3, <4>1 DEF Unmentioned
    <3>7. w = v => d[1] = None
      <4>1. 1 \in 1 .. n + 1
        BY <1>11
      <4>2. QED
        BY <1>12, <3>3, <4>1
    <3>8. e[n + 2] = variables'[w][b]
      <4>1. n + 1 \in 1 .. n + 1 /\ (n + 1) + 1 = n + 2
        BY <1>11
      <4>2. QED
        BY <3>2, <3>3, <3>5, <4>1
    <3>9. ASSUME NEW k \in 1 .. n + 2 PROVE e[k] \in 0 .. Len(vals') /\ (e[k] # None => variables'[w][b] # None)
      <4>1. CASE k = 1
        <5>1. 1 \in 1 .. n + 1
          BY <1>11
        <5>2. QED
          BY <1>8, <3>2, <3>3, <3>5, <4>1, <5>1
      <4>2. CASE k # 1
        <5>1. k - 1 \in 1 .. n + 1 /\ (k - 1) + 1 = k
          BY <1>11, <4>2
        <5>2. e[k] = IF w = v THEN s ELSE d[k - 1]
          BY <3>2, <5>1
        <5>3. QED
          BY <1>8, <3>3, <3>5, <5>1, <5>2
      <4>3. QED
        BY <4>1, <4>2
    <3>10. ASSUME NEW k \in 1 .. n + 1
           PROVE  /\ e[k + 1] = IF Sets(code'[b][k], w) THEN code'[b][k].val ELSE e[k]
                  /\ code'[b][k].op # "write" /\ Source(code'[b][k]) = w =>
                       e[k] # None /\ rep2[e[k]] = rep2[code'[b][k].val]
      <4>1. CASE k = 1
        <5>1. code'[b][k] = c /\ e[k] = d[1]
          BY <1>11, <2>3, <3>2, <4>1
        <5>2. e[k + 1] = IF w = v THEN s ELSE d[1]
          BY <1>11, <3>2, <4>1
        <5>3. QED
          BY <1>9, <5>1, <5>2 DEF Sets
      <4>2. CASE k # 1
        <5>1. PICK j \in 1 .. n : k = j + 1
          <6>1. k - 1 \in 1 .. n /\ k = (k - 1) + 1
            BY <1>11, <4>2
          <6>2. QED
            BY <6>1
        <5>2. j \in 1 .. n + 1 /\ j + 1 \in 1 .. n + 1
          BY <1>11
        <5>3. /\ code'[b][k] = code[b][j] /\ e[k] = (IF w = v THEN s ELSE d[j])
              /\ e[k + 1] = (IF w = v THEN s ELSE d[j + 1])
          BY <1>11, <2>3, <3>2, <5>1, <5>2
        <5>4. code[b][j].val \in Value
          BY <1>3, <1>10, <2>3
        <5>5. d[j] # None => d[j] \in Value
          BY <1>3, <3>3, <5>2 DEF Value, None
        <5>6. w = v => ~Sets(code[b][j], w) /\ (code[b][j].op # "write" => Source(code[b][j]) # w)
          BY <3>6 DEF Sets, Source, Mentions
        <5>7. CASE w = v
          BY <5>3, <5>6, <5>7
        <5>8. CASE w # v
          BY <1>7, <3>4, <5>3, <5>4, <5>5, <5>8 DEF Grown, Coarser
        <5>9. QED
          BY <5>7, <5>8
      <4>3. QED
        BY <4>1, <4>2
    <3>11. Track(rep2, e, w, b)'
      <4>1. Len(code'[b]) = n + 1 /\ Len(code'[b]) + 1 = n + 2
        BY <1>11, <2>3
      <4>2. e[Len(code'[b]) + 1] = variables'[w][b]
        BY <3>8, <4>1
      <4>3. \A k \in 1 .. Len(code'[b]) + 1 : e[k] \in 0 .. Len(vals') /\ (e[k] # None => variables'[w][b] # None)
        BY <3>9, <4>1
      <4>4. \A k \in 1 .. Len(code'[b]) :
              /\ e[k + 1] = IF Sets(code'[b][k], w) THEN code'[b][k].val ELSE e[k]
              /\ code'[b][k].op # "write" /\ Source(code'[b][k]) = w =>
                   e[k] # None /\ rep2[e[k]] = rep2[code'[b][k].val]
        BY <3>10, <4>1
      <4>5. QED
        BY <4>2, <4>3, <4>4 DEF Track
    <3>12. PICK x : x = d[1]
      OBVIOUS
    <3>13. x \in 0 .. Len(vals) /\ Origin(rep, x, w, b)
      BY <2>1, <3>12, TrackStarts
    <3>14. Origin(rep2, x, w, b)'
      BY <1>2, <1>7, <1>15, <3>13, OriginKept
    <3>15. QED
      BY <3>2, <3>11, <3>12, <3>14
  <2>4. QED
    BY <2>2, <2>3
<1>17. Finishing' = {}
  BY <1>1, <1>2, NoCalls
<1>18. \A w \in Place : \A b \in 1 .. NumBlocks : variables'[w][b] # None => Mentioned(w)'
  <2> SUFFICES ASSUME NEW w \in Place, NEW b \in 1 .. NumBlocks, variables'[w][b] # None
               PROVE  Mentioned(w)'
    OBVIOUS
  <2>1. CASE w = v
    <3>1. 1 \in 1 .. Len(code'[Entry]) /\ Mentions(code'[Entry][1], w)
      BY <1>9, <1>11, <2>1 DEF Mentions
    <3>2. QED
      BY <1>3, <3>1 DEF Mentioned, Mentions
  <2>2. CASE w # v
    <3>1. Mentioned(w)
      BY <1>5, <1>13, <2>2 DEF Lookups
    <3>2. ASSUME NEW a \in Block, NEW k \in 1 .. Len(code[a])
          PROVE  \E l \in 1 .. Len(code'[a]) : code'[a][l] = code[a][k]
      <4>1. CASE a = Entry
        <5>1. k + 1 \in 1 .. Len(code'[a]) /\ code'[a][k + 1] = code[a][k]
          BY <1>10, <1>11, <4>1
        <5>2. QED
          BY <5>1
      <4>2. CASE a # Entry
        BY <1>3, <1>14, <4>2
      <4>3. QED
        BY <4>1, <4>2
    <3>3. QED
      BY <1>1, <1>2, <3>1, <3>2, MentionedKept
  <2>3. QED
    BY <2>1, <2>2
<1>19. Lookups'
  BY <1>1, <1>2, <1>5, <1>17, <1>18 DEF Lookups, NoCaller, Entry, None
<1>20. History(rep2)' /\ Scheduled(rep2)' /\ Found(rep2)'
  BY <1>1, <1>2, <1>16 DEF History, Scheduled, Found
<1>21. QED
  BY <1>6, <1>19, <1>20 DEF Build, Meaning

-----------------------------------------------------------------------------
(* Lookups.                                                                *)

\* The lookups that are under way after one has been pushed.
LEMMA PushedFinishes ==
  ASSUME NEW pd, NEW cs2, NEW top, NEW s, NEW b, Pushed(pd, cs2, top, s, b)
  PROVE  /\ FinishesIn(cs2) = FinishesIn(top) \cup {Len(top)}
         /\ \A i \in FinishesIn(top) : i # Len(top) /\ cs2[i] = top[i]
         /\ cs2[Len(top)].block = b /\ cs2[Len(top)].sentinel = s
         /\ cs2[1].block = top[1].block /\ Len(cs2) \in Nat \ {0}
<1>1. PICK n, p : n = Len(top) /\ p = Len(pd[b])
  OBVIOUS
<1>2. /\ n \in Nat \ {0} /\ top[n].call = "use" /\ top[n].block = b /\ p \in Nat /\ Len(cs2) = n + p
      /\ \A k \in 1 .. n - 1 : cs2[k] = top[k]
      /\ cs2[n] = FinishPredecessorsLookup(s, b)
      /\ \A j \in 1 .. p : cs2[n + j] = UseVar(pd[b][(p + 1) - j])
  BY <1>1 DEF Pushed
<1>3. cs2[n].call = "finish" /\ cs2[n].block = b /\ cs2[n].sentinel = s
  BY <1>2 DEF FinishPredecessorsLookup
<1>4. ASSUME NEW i \in 1 .. n + p, ~(i <= n) PROVE cs2[i].call = "use"
  <2>1. PICK j \in 1 .. p : i = n + j
    <3>1. i - n \in 1 .. p /\ i = n + (i - n)
      BY <1>2, <1>4
    <3>2. QED
      BY <3>1
  <2>2. PICK q : q = pd[b][(p + 1) - j]
    OBVIOUS
  <2>3. cs2[i] = UseVar(q)
    BY <1>2, <2>1, <2>2
  <2>4. UseVar(q).call = "use"
    BY DEF UseVar
  <2>5. QED
    BY <2>3, <2>4
<1>5. \A i \in FinishesIn(top) : i \in 1 .. n - 1 /\ top[i].call = "finish"
  <2> SUFFICES ASSUME NEW i \in 1 .. n, top[i].call = "finish" PROVE i \in 1 .. n - 1
    BY <1>1 DEF FinishesIn
  <2>1. i # n
    BY <1>2
  <2>2. QED
    BY <1>2, <2>1
<1>6. \A i \in FinishesIn(top) : i # n /\ cs2[i] = top[i]
  BY <1>2, <1>5
<1>7. ASSUME NEW i PROVE i \in FinishesIn(cs2) <=> i \in FinishesIn(top) \cup {n}
  <2>1. ASSUME i \in FinishesIn(cs2) PROVE i \in FinishesIn(top) \cup {n}
    <3>1. i \in 1 .. n + p /\ cs2[i].call = "finish"
      BY <1>2, <2>1 DEF FinishesIn
    <3>2. i <= n
      BY <1>4, <3>1
    <3>3. CASE i # n
      <4>1. i \in 1 .. n - 1 /\ i \in 1 .. n
        BY <1>2, <3>1, <3>2, <3>3
      <4>2. QED
        BY <1>1, <1>2, <3>1, <4>1 DEF FinishesIn
    <3>4. QED
      BY <3>3
  <2>2. ASSUME i \in FinishesIn(top) PROVE i \in FinishesIn(cs2)
    <3>1. i \in 1 .. n + p /\ cs2[i].call = "finish"
      BY <1>2, <1>5, <2>2
    <3>2. QED
      BY <1>2, <3>1 DEF FinishesIn
  <2>3. n \in FinishesIn(cs2)
    BY <1>2, <1>3 DEF FinishesIn
  <2>4. QED
    BY <2>1, <2>2, <2>3
<1>8. cs2[1].block = top[1].block
  <2>1. CASE n = 1
    BY <1>2, <1>3, <2>1
  <2>2. CASE n # 1
    <3>1. 1 \in 1 .. n - 1
      BY <1>2, <2>2
    <3>2. QED
      BY <1>2, <3>1
  <2>3. QED
    BY <2>1, <2>2
<1>9. Len(cs2) \in Nat \ {0}
  BY <1>2
<1>10. QED
  BY <1>1, <1>3, <1>6, <1>7, <1>8, <1>9

\* top is cs with a use of b on it.
Topped(cs, top, b) ==
  /\ cs \in Seq(Call) /\ Len(top) = Len(cs) + 1 /\ \A k \in 1 .. Len(cs) : top[k] = cs[k]
  /\ top[Len(top)].call = "use" /\ top[Len(top)].block = b

\* The lookup of the predecessors of b takes the place of a use of b.
LEMMA BeginPushed ==
  ASSUME NEW s \in Nat, NEW b \in Nat, preds[b] \in Seq(Nat), NEW cs, NEW top, Topped(cs, top, b)
  PROVE  Pushed(preds, cs \o begin_predecessors_lookup(s, b), top, s, b)
<1> DEFINE begin == begin_predecessors_lookup(s, b)
<1>1. PICK n, p : n = Len(top) /\ p = Len(preds[b])
  OBVIOUS
<1>2. /\ cs \in Seq(Call) /\ n = Len(cs) + 1 /\ \A k \in 1 .. Len(cs) : top[k] = cs[k]
      /\ top[n].call = "use" /\ top[n].block = b /\ Len(cs) \in Nat /\ p \in Nat /\ n \in Nat \ {0}
      /\ Len(cs) = n - 1
  BY <1>1 DEF Topped
<1>3. begin \in Seq(Call) /\ Len(begin) = p + 1 /\ begin[1] = FinishPredecessorsLookup(s, b)
  BY <1>1, BeginLookup
<1>4. ASSUME NEW j \in 1 .. p PROVE begin[1 + j] = UseVar(preds[b][(p + 1) - j])
  <2> DEFINE uses == [k \in 1 .. p |-> UseVar(Reverse(preds[b])[k])]
  <2>1. PICK one : one = <<FinishPredecessorsLookup(s, b)>>
    OBVIOUS
  <2>2. begin = one \o uses
    BY <1>1, <2>1 DEF begin_predecessors_lookup
  <2>3. FinishPredecessorsLookup(s, b) \in Call
    BY DEF FinishPredecessorsLookup, Call
  <2>4. one \in Seq(Call) /\ Len(one) = 1
    BY <2>1, <2>3
  <2>5. ASSUME NEW k \in 1 .. p
        PROVE  uses[k] = UseVar(preds[b][(p - k) + 1]) /\ preds[b][(p - k) + 1] \in Nat
    <3>1. (p - k) + 1 \in 1 .. p
      BY <1>2
    <3>2. preds[b][(p - k) + 1] \in Nat
      <4>1. \A i \in 1 .. Len(preds[b]) : preds[b][i] \in Nat
        OBVIOUS
      <4> HIDE DEF uses, begin
      <4>2. QED
        BY <1>1, <3>1, <4>1
    <3>3. Reverse(preds[b])[k] = preds[b][(p - k) + 1]
      BY <1>1 DEF Reverse
    <3>4. QED
      BY <3>2, <3>3
  <2>6. \A k \in 1 .. p : uses[k] \in Call
    BY <2>5 DEF UseVar, Call
  <2> HIDE DEF uses, begin
  <2>7. uses \in Seq(Call) /\ Len(uses) = p
    <3>1. uses \in [1 .. p -> Call]
      BY <2>6 DEF uses
    <3>2. QED
      BY <1>2, <3>1
  <2>8. \A k \in 1 .. Len(one) + Len(uses) : begin[k] = IF k <= Len(one) THEN one[k] ELSE uses[k - Len(one)]
    BY <2>2, <2>4, <2>7, ConcatProperties
  <2>9. 1 + j \in 1 .. 1 + p /\ ~(1 + j <= 1) /\ (1 + j) - 1 = j
    BY <1>2
  <2>10. begin[1 + j] = uses[j]
    BY <2>4, <2>7, <2>8, <2>9
  <2>11. (p - j) + 1 = (p + 1) - j
    BY <1>2
  <2>12. QED
    BY <2>5, <2>10, <2>11
<1> HIDE DEF begin
<1>5. PICK cs2 : cs2 = cs \o begin
  OBVIOUS
<1>6. /\ Len(cs2) = Len(cs) + Len(begin)
      /\ \A k \in 1 .. Len(cs) + Len(begin) : cs2[k] = IF k <= Len(cs) THEN cs[k] ELSE begin[k - Len(cs)]
  BY <1>2, <1>3, <1>5, ConcatProperties
<1>7. Len(cs2) = n + p
  BY <1>2, <1>3, <1>6
<1>8. \A k \in 1 .. n - 1 : cs2[k] = top[k]
  <2> SUFFICES ASSUME NEW k \in 1 .. n - 1 PROVE cs2[k] = top[k]
    OBVIOUS
  <2>1. k \in 1 .. Len(cs) /\ k \in 1 .. Len(cs) + Len(begin) /\ k <= Len(cs)
    BY <1>2, <1>3
  <2>2. QED
    BY <1>2, <1>6, <2>1
<1>9. cs2[n] = FinishPredecessorsLookup(s, b)
  <2>1. n \in 1 .. Len(cs) + Len(begin) /\ ~(n <= Len(cs)) /\ n - Len(cs) = 1
    BY <1>2, <1>3
  <2>2. QED
    BY <1>3, <1>6, <2>1
<1>10. ASSUME NEW j \in 1 .. p PROVE cs2[n + j] = UseVar(preds[b][(p + 1) - j])
  <2>1. n + j \in 1 .. Len(cs) + Len(begin) /\ ~(n + j <= Len(cs)) /\ (n + j) - Len(cs) = 1 + j
    BY <1>2, <1>3
  <2>2. QED
    BY <1>4, <1>6, <2>1
<1>11. Pushed(preds, cs2, top, s, b)
  BY <1>1, <1>2, <1>7, <1>8, <1>9, <1>10 DEF Pushed
<1>12. QED
  BY <1>5, <1>11 DEF begin

\* A call that returns leaves the lookups below in order, and the last one its result.
LEMMA ReturnSchedule ==
  ASSUME NEW rep2, NEW top, NEW level, NEW good, Leveled(preds, level, top), Plan(preds, top, results, level, good),
         Returns(top, calls', results, results', level, good, Agree(rep2, var)'), preds' = preds,
         calls' \in Seq(Call),
         pending' # NoCaller => top[1].block = position'
  PROVE  Scheduled(rep2)' /\ Found(rep2)'
<1>1. /\ Len(top) \in Nat \ {0} /\ Len(calls') = Len(top) - 1
      /\ Len(results') = level[Len(top) - 1]
      /\ <<results'[Len(results')], top[Len(top)].block>> \in Agree(rep2, var)'
  BY DEF Returns
<1>2. ASSUME calls' # <<>>
      PROVE  \E lv : /\ Leveled(preds, lv, calls') /\ lv[Len(calls')] = Len(results')
                     /\ Plan(preds, calls', results', lv, Agree(rep2, var)')
  <2>1. Leveled(preds, level, calls') /\ Plan(preds, calls', results', level, Agree(rep2, var)')
    BY PlanReturn
  <2>2. QED
    BY <1>1, <2>1
<1>3. Scheduled(rep2)'
  BY <1>2 DEF Scheduled
<1>4. ASSUME pending' # NoCaller, calls' = <<>>
      PROVE  <<results'[1], position'>> \in Agree(rep2, var)'
  <2>1. Len(top) = 1
    BY <1>1, <1>4
  <2>2. level[0] = 1
    BY DEF Leveled
  <2>3. QED
    BY <1>1, <1>4, <2>1, <2>2
<1>5. Found(rep2)'
  BY <1>4 DEF Found, NoCaller
<1>6. QED
  BY <1>3, <1>5

\* Nobody asks for a variable in a block that does not know it.
LEMMA NobodyAsks ==
  ASSUME IInv, NEW v \in Place, NEW b \in 1 .. NumBlocks, variables[v][b] = None, NEW y
  PROVE  ~Asked(v, b, y)
<1>1. ASSUME NEW k \in 1 .. Len(undef_phis[b]), undef_phis[b][k] = <<v, y>> PROVE FALSE
  <2>1. Requested(undef_phis[b][k], b)
    BY DEF IInv, Waiting
  <2>2. undef_phis[b][k][1] = v
    BY <1>1
  <2>3. QED
    BY <2>1, <2>2 DEF Requested
<1>2. ASSUME sealing.block = b, NEW k \in 1 .. Len(sealing.todo), sealing.todo[k] = <<v, y>> PROVE FALSE
  <2>1. Requested(sealing.todo[k], sealing.block)
    BY DEF IInv, Waiting
  <2>2. sealing.todo[k][1] = v
    BY <1>2
  <2>3. QED
    BY <1>2, <2>1, <2>2 DEF Requested
<1>3. ASSUME var = v, NEW i \in Finishing, calls[i].block = b PROVE FALSE
  BY <1>3 DEF IInv, Frames
<1>4. QED
  BY <1>1, <1>2, <1>3 DEF Asked

\* A block that does not know v gets the sentinel s for it.
SentinelAdded(v, b, s) ==
  /\ variables[v][b] = None /\ s = Len(vals) + 1 /\ Appended(Invalid)
  /\ variables' = [variables EXCEPT ![v][b] = s]
  /\ UNCHANGED <<preds, sealed, sealing, code>>
  /\ \A w \in Place : \A c \in 1 .. NumBlocks : \A y :
       Asked(w, c, y)' <=> Asked(w, c, y) \/ (w = v /\ c = b /\ y = s)

\* The sentinel stands for the variable in all of the block, where nothing has set or
\* read it; the other histories go on.
LEMMA SentinelHistory ==
  ASSUME IInv, phase = "build", NEW rep, NEW rep2, Grown(rep, rep2), History(rep),
         NEW v \in Place, NEW b \in 1 .. NumBlocks, NEW s, SentinelAdded(v, b, s)
  PROVE  History(rep2)'
<1>1. /\ variables[v][b] = None /\ s = Len(vals) + 1 /\ Appended(Invalid)
      /\ variables' = [variables EXCEPT ![v][b] = s]
      /\ UNCHANGED <<preds, sealed, sealing, code>>
      /\ \A w \in Place : \A c \in 1 .. NumBlocks : \A y :
           Asked(w, c, y)' <=> Asked(w, c, y) \/ (w = v /\ c = b /\ y = s)
  BY DEF SentinelAdded
<1>2. s \in 0 .. Len(vals') /\ s # None /\ Len(vals) \in Nat
  BY <1>1 DEF Appended, None
<1>3. /\ variables \in [Place -> [1 .. NumBlocks -> 0 .. Len(vals)]]
      /\ code \in [1 .. NumBlocks -> Seq(Operation)]
      /\ \A c \in 1 .. NumBlocks : \A k \in 1 .. Len(code[c]) : code[c][k].val \in Value
  BY DEF IInv, Tables
<1>4. \A w \in Place : \A c \in 1 .. NumBlocks :
        variables'[w][c] = IF w = v /\ c = b THEN s ELSE variables[w][c]
  BY <1>1, <1>3
<1>5. ASSUME NEW w \in Place, NEW c \in 1 .. NumBlocks
      PROVE  \E d : Track(rep2, d, w, c)' /\ Origin(rep2, d[1], w, c)'
  <2>1. PICK d : Track(rep, d, w, c) /\ Origin(rep, d[1], w, c)
    BY DEF History
  <2>2. CASE ~(w = v /\ c = b)
    <3>1. \A y : Asked(w, c, y)' <=> Asked(w, c, y)
      BY <1>1, <2>2
    <3>2. \A p \in ToSet(preds[c]) : variables[w][p] # None => variables'[w][p] = variables[w][p]
      <4>1. ASSUME NEW p \in ToSet(preds[c]) PROVE p \in 1 .. NumBlocks
        BY OpenIsNoPredecessor
      <4>2. QED
        BY <1>1, <1>4, <4>1
    <3>3. Undisturbed(w, c)
      BY <1>1, <3>1, <3>2 DEF Undisturbed
    <3>4. variables'[w][c] = variables[w][c] /\ code'[c] = code[c]
      BY <1>1, <1>4, <2>2
    <3>5. QED
      BY <2>1, <3>3, <3>4, LineKept
  <2>3. CASE w = v /\ c = b
    <3>1. PICK n : n = Len(code[c])
      OBVIOUS
    <3>2. n \in Nat /\ code'[c] = code[c] /\ variables'[w][c] = s
      BY <1>1, <1>3, <1>4, <2>3, <3>1
    <3>3. \A k \in 1 .. n + 1 : d[k] = None
      BY <1>1, <2>1, <2>3, <3>1 DEF Track
    <3>4. \A k \in 1 .. n : ~Sets(code[c][k], w) /\ (code[c][k].op # "write" => Source(code[c][k]) # w)
      <4> SUFFICES ASSUME NEW k \in 1 .. n
                   PROVE  ~Sets(code[c][k], w) /\ (code[c][k].op # "write" => Source(code[c][k]) # w)
        OBVIOUS
      <4>1. k \in 1 .. n + 1 /\ k + 1 \in 1 .. n + 1
        BY <3>2
      <4>2. d[k] = None /\ d[k + 1] = None
        BY <3>3, <4>1
      <4>3. /\ d[k + 1] = IF Sets(code[c][k], w) THEN code[c][k].val ELSE d[k]
            /\ code[c][k].op # "write" /\ Source(code[c][k]) = w => d[k] # None
        BY <2>1, <3>1 DEF Track
      <4>4. code[c][k].val # None
        BY <1>3, <3>1 DEF Value, None
      <4>5. QED
        BY <4>2, <4>3, <4>4
    <3>5. PICK e : e = [k \in 1 .. n + 1 |-> s]
      OBVIOUS
    <3>6. \A k \in 1 .. n + 1 : e[k] = s
      BY <3>5
    <3>7. \A k \in 1 .. n : k \in 1 .. n + 1 /\ k + 1 \in 1 .. n + 1
      BY <3>2
    <3>8. 1 \in 1 .. n + 1 /\ n + 1 \in 1 .. n + 1
      BY <3>2
    <3>9. Track(rep2, e, w, c)'
      <4>1. Len(code'[c]) = n
        BY <3>1, <3>2
      <4>2. e[Len(code'[c]) + 1] = variables'[w][c]
        BY <3>2, <3>6, <3>8, <4>1
      <4>3. \A k \in 1 .. Len(code'[c]) + 1 : e[k] \in 0 .. Len(vals') /\ (e[k] # None => variables'[w][c] # None)
        BY <1>2, <3>2, <3>6, <4>1
      <4>4. \A k \in 1 .. Len(code'[c]) :
              /\ e[k + 1] = IF Sets(code'[c][k], w) THEN code'[c][k].val ELSE e[k]
              /\ code'[c][k].op # "write" /\ Source(code'[c][k]) = w =>
                   e[k] # None /\ rep2[e[k]] = rep2[code'[c][k].val]
        BY <3>2, <3>4, <3>6, <3>7, <4>1
      <4>5. QED
        BY <4>2, <4>3, <4>4 DEF Track
    <3>10. Origin(rep2, s, w, c)'
      <4>1. \A y : ~Asked(w, c, y)
        BY <1>1, <2>3, NobodyAsks
      <4>2. \A y : Asked(w, c, y)' <=> y = s
        BY <1>1, <2>3, <4>1
      <4>3. QED
        BY <4>2 DEF Origin
    <3>11. QED
      BY <3>6, <3>8, <3>9, <3>10
  <2>4. QED
    BY <2>2, <2>3
<1>6. QED
  BY <1>5 DEF History

\* v is to be looked up in b, on top of what is scheduled.
Asks(rep, v, b, cs, top) ==
  /\ Topped(cs, top, b) /\ variables[v][b] = None /\ use_var_nonlocal(cs, v, b) /\ var' = v
  /\ \E level : /\ Leveled(preds, level, top) /\ level[Len(top)] = Len(results)
                /\ Plan(preds, top, results, level, Agree(rep, v))
  /\ Finishing = FinishesIn(top) /\ \A i \in Finishing : calls[i] = top[i]
  /\ Finishing # {} => var = v
  /\ UNCHANGED <<created, preds, sealed, sealing, code>>
  /\ pending' # NoCaller => top[1].block = position'
  /\ \A i \in Finishing : i > 1 \/ pending' # NoCaller => variables[v][calls[i].block] = calls[i].sentinel

\* The sentinel asks the predecessors, or waits for them.
LEMMA NonlocalReads ==
  ASSUME IInv, IInv', phase = "build", NEW rep, Representatives(rep), History(rep),
         NEW v \in Place, NEW b \in Block, NEW cs, NEW top, Asks(rep, v, b, cs, top)
  PROVE  /\ \E rep2 : Meaning(rep2)'
         /\ \A i \in Finishing' : i > 1 \/ pending' # NoCaller => variables'[v][calls'[i].block] = calls'[i].sentinel
         /\ calls' # <<>> => calls'[1].block = top[1].block
         /\ variables'[v][b] # None
         /\ \A w \in Place : \A c \in 1 .. NumBlocks : w # v \/ c # b => variables'[w][c] = variables[w][c]
<1> DEFINE s == Len(vals) + 1
<1>1. /\ vals' = Append(vals, Invalid) /\ variables' = [variables EXCEPT ![v][b] = s]
      /\ b \in sealed => /\ calls' = cs \o begin_predecessors_lookup(s, b)
                         /\ UNCHANGED <<undef_phis, results>>
      /\ b \notin sealed => /\ undef_phis' = [undef_phis EXCEPT ![b] = Append(@, <<v, s>>)]
                            /\ results' = Append(results, s) /\ calls' = cs
  BY NeverOptimised DEF use_var_nonlocal, Asks
<1>2. Appended(Invalid) /\ Values'
  BY <1>1, ValueAppended DEF IInv
<1> HIDE DEF s
<1>3. /\ s \in Nat \ {0} /\ s = Len(vals) + 1 /\ s \notin Value /\ Value' = Value \cup {s} /\ s # None
      /\ Len(vals) \in Nat
  BY <1>2 DEF Appended, s, None
<1>4. /\ b \in 1 .. NumBlocks /\ b \in Nat /\ Block' = Block /\ Block \subseteq 1 .. NumBlocks
      /\ variables \in [Place -> [1 .. NumBlocks -> 0 .. Len(vals)]]
      /\ preds \in [1 .. NumBlocks -> Seq(Block)]
  <2>1. Block' = Block
    BY DEF Asks, Block
  <2>2. created \in 2 .. NumBlocks /\ NumBlocks \in Nat
    BY SSABuilderAssumption DEF IInv, Graph
  <2>3. Block \subseteq 1 .. NumBlocks /\ b \in 1 .. NumBlocks /\ b \in Nat
    BY <2>2 DEF Block
  <2>4. variables \in [Place -> [1 .. NumBlocks -> 0 .. Len(vals)]] /\ preds \in [1 .. NumBlocks -> Seq(Block)]
    BY DEF IInv, Graph, Tables
  <2>5. QED
    BY <2>1, <2>3, <2>4
<1>5. \A w \in Place : \A c \in 1 .. NumBlocks :
        variables'[w][c] = IF w = v /\ c = b THEN s ELSE variables[w][c]
  BY <1>1, <1>4
<1>6. /\ Topped(cs, top, b) /\ variables[v][b] = None /\ var' = v
      /\ Finishing = FinishesIn(top) /\ \A i \in Finishing : calls[i] = top[i]
      /\ Finishing # {} => var = v
      /\ UNCHANGED <<created, preds, sealed, sealing, code>>
      /\ pending' # NoCaller => top[1].block = position'
      /\ \A i \in Finishing : i > 1 \/ pending' # NoCaller => variables[v][calls[i].block] = calls[i].sentinel
  BY DEF Asks
<1>7. PICK level : /\ Leveled(preds, level, top) /\ level[Len(top)] = Len(results)
                   /\ Plan(preds, top, results, level, Agree(rep, v))
  BY DEF Asks
<1>8. PICK rep2 : Representatives(rep2)' /\ Coarser(rep, rep2) /\ rep2[s] = s
  <2>1. \E r : Representatives(r)' /\ Coarser(rep, r) /\ r[Len(vals) + 1] = Len(vals) + 1
    BY <1>2, RepAppended DEF IInv
  <2>2. QED
    BY <1>3, <2>1
<1>9. Grown(rep, rep2)
  BY <1>2, <1>8 DEF Grown, Appended, IInv
<1>10. Agree(rep, v) \subseteq Agree(rep2, v)' /\ Agree(rep2, var)' = Agree(rep2, v)'
  <2>1. \A c \in Block : variables[v][c] # None => variables'[v][c] = variables[v][c]
    BY <1>4, <1>5, <1>6
  <2>2. Agree(rep, v) \subseteq Agree(rep2, v)'
    BY <1>4, <1>9, <2>1, AgreeGrows
  <2>3. Agree(rep2, var)' = Agree(rep2, v)'
    BY <1>6 DEF Agree
  <2>4. QED
    BY <2>2, <2>3
<1>11. ASSUME NEW i \in Finishing
       PROVE  /\ i \in 1 .. Len(top) /\ top[i].block \in 1 .. NumBlocks /\ top[i].block # b
              /\ i > 1 \/ pending' # NoCaller => variables'[v][top[i].block] = top[i].sentinel
  <2>1. i \in 1 .. Len(top)
    BY <1>6 DEF FinishesIn
  <2>2. calls[i].block \in Block /\ variables[var][calls[i].block] # None /\ var = v
    BY <1>6 DEF IInv, Frames, Finishing
  <2>3. top[i] = calls[i] /\ variables[v][b] = None
    BY <1>6
  <2>4. top[i].block \in 1 .. NumBlocks /\ top[i].block # b
    BY <1>4, <2>2, <2>3
  <2>5. variables'[v][top[i].block] = variables[v][top[i].block]
    BY <1>5, <2>4
  <2>6. i > 1 \/ pending' # NoCaller => variables[v][top[i].block] = top[i].sentinel
    BY <1>6, <2>3
  <2>7. QED
    BY <2>1, <2>4, <2>5, <2>6
<1>12. ASSUME \A w \in Place : \A c \in 1 .. NumBlocks : \A y :
                Asked(w, c, y)' <=> Asked(w, c, y) \/ (w = v /\ c = b /\ y = s)
       PROVE  History(rep2)'
  <2>1. SentinelAdded(v, b, s)
    BY <1>1, <1>2, <1>3, <1>6, <1>12 DEF SentinelAdded
  <2>2. QED
    BY <1>4, <1>9, <2>1, SentinelHistory
<1>13. CASE b \in sealed
  <2>1. preds[b] \in Seq(Nat)
    <3>1. Block \subseteq Nat
      BY <1>4
    <3>2. QED
      BY <1>4, <3>1, SeqMonotonic
  <2>2. Pushed(preds, calls', top, s, b)
    <3>1. s \in Nat /\ b \in Nat /\ Topped(cs, top, b)
      BY <1>3, <1>4, <1>6
    <3>2. Pushed(preds, cs \o begin_predecessors_lookup(s, b), top, s, b)
      BY <2>1, <3>1, BeginPushed
    <3>3. QED
      BY <1>1, <1>13, <3>2
  <2>3. /\ FinishesIn(calls') = FinishesIn(top) \cup {Len(top)}
        /\ \A i \in FinishesIn(top) : i # Len(top) /\ calls'[i] = top[i]
        /\ calls'[Len(top)].block = b /\ calls'[Len(top)].sentinel = s
        /\ calls'[1].block = top[1].block /\ Len(calls') \in Nat \ {0}
    BY <2>2, PushedFinishes
  <2>4. Finishing' = Finishing \cup {Len(top)}
    BY <1>6, <2>3 DEF Finishing, FinishesIn
  <2>5. ASSUME NEW w \in Place, NEW c \in 1 .. NumBlocks, NEW y
        PROVE  Asked(w, c, y)' <=> Asked(w, c, y) \/ (w = v /\ c = b /\ y = s)
    <3>1. (var = w /\ \E i \in Finishing : calls[i].block = c /\ calls[i].sentinel = y) <=>
            (v = w /\ \E i \in Finishing : top[i].block = c /\ top[i].sentinel = y)
      BY <1>6
    <3>2. (var' = w /\ \E i \in Finishing' : calls'[i].block = c /\ calls'[i].sentinel = y) <=>
            (v = w /\ \E i \in Finishing : top[i].block = c /\ top[i].sentinel = y) \/ (w = v /\ c = b /\ y = s)
      BY <1>6, <2>3, <2>4
    <3>3. undef_phis' = undef_phis /\ sealing' = sealing
      BY <1>1, <1>6, <1>13
    <3>4. QED
      BY <3>1, <3>2, <3>3 DEF Asked
  <2>6. History(rep2)'
    BY <1>12, <2>5
  <2>7. PICK level2 : /\ Leveled(preds, level2, calls') /\ Plan(preds, calls', results, level2, Agree(rep2, v)')
                      /\ level2[Len(calls')] = level[Len(top)]
    <3>1. PICK good, good2, cs2 : good = Agree(rep, v) /\ good2 = Agree(rep2, v)' /\ cs2 = calls'
      OBVIOUS
    <3>2. /\ Leveled(preds, level, top) /\ Plan(preds, top, results, level, good)
          /\ Pushed(preds, cs2, top, s, b) /\ Within(good, good2)
      BY <1>7, <1>10, <2>2, <3>1 DEF Within
    <3>3. \E lv : /\ Leveled(preds, lv, cs2) /\ Plan(preds, cs2, results, lv, good2)
                  /\ lv[Len(cs2)] = level[Len(top)]
      BY <3>2, PlanPush
    <3>4. QED
      BY <3>1, <3>3
  <2>8. Scheduled(rep2)'
    BY <1>1, <1>6, <1>7, <1>10, <1>13, <2>7 DEF Scheduled
  <2>9. calls' # <<>>
    BY <2>3
  <2>10. Found(rep2)'
    BY <2>9 DEF Found
  <2>11. ASSUME NEW i \in Finishing', i > 1 \/ pending' # NoCaller
         PROVE  variables'[v][calls'[i].block] = calls'[i].sentinel
    <3>1. CASE i = Len(top)
      BY <1>4, <1>5, <2>3, <3>1
    <3>2. CASE i # Len(top)
      <4>1. i \in Finishing /\ calls'[i] = top[i]
        BY <1>6, <2>3, <2>4, <3>2
      <4>2. QED
        BY <1>11, <2>11, <4>1
    <3>3. QED
      BY <3>1, <3>2
  <2>12. QED
    BY <1>3, <1>4, <1>5, <1>8, <2>3, <2>6, <2>8, <2>10, <2>11 DEF Meaning
<1>14. CASE b \notin sealed
  <2>1. /\ calls' = cs /\ results' = Append(results, s)
        /\ undef_phis' = [undef_phis EXCEPT ![b] = Append(@, <<v, s>>)]
    BY <1>1, <1>14
  <2>2. PICK n : n = Len(top)
    OBVIOUS
  <2>3. /\ cs \in Seq(Call) /\ n = Len(cs) + 1 /\ \A k \in 1 .. Len(cs) : top[k] = cs[k]
        /\ top[n].call = "use" /\ top[n].block = b /\ Len(cs) \in Nat /\ n \in Nat \ {0} /\ Len(cs) = n - 1
    BY <1>6, <2>2 DEF Topped
  <2>4. Finishing' = Finishing /\ \A i \in Finishing : calls'[i] = top[i] /\ i \in 1 .. Len(cs)
    <3>1. Finishing' = {i \in 1 .. Len(cs) : cs[i].call = "finish"}
      BY <2>1 DEF Finishing
    <3>2. Finishing = {i \in 1 .. n : top[i].call = "finish"}
      BY <1>6, <2>2 DEF FinishesIn
    <3>3. \A i \in 1 .. n : i = n \/ i \in 1 .. Len(cs)
      BY <2>3
    <3>4. \A i \in 1 .. Len(cs) : i \in 1 .. n
      BY <2>3
    <3>5. \A i \in 1 .. n : top[i].call = "finish" => i \in 1 .. Len(cs) /\ cs[i] = top[i]
      BY <2>3, <3>3
    <3>6. QED
      BY <2>1, <2>3, <3>1, <3>2, <3>4, <3>5
  <2>5. ASSUME NEW w \in Place, NEW c \in 1 .. NumBlocks, NEW y
        PROVE  Asked(w, c, y)' <=> Asked(w, c, y) \/ (w = v /\ c = b /\ y = s)
    <3>1. (var = w /\ \E i \in Finishing : calls[i].block = c /\ calls[i].sentinel = y) <=>
            (v = w /\ \E i \in Finishing : top[i].block = c /\ top[i].sentinel = y)
      BY <1>6
    <3>2. (var' = w /\ \E i \in Finishing' : calls'[i].block = c /\ calls'[i].sentinel = y) <=>
            (v = w /\ \E i \in Finishing : top[i].block = c /\ top[i].sentinel = y)
      BY <1>6, <2>4
    <3>3. undef_phis \in [1 .. NumBlocks -> Entries]
      BY DEF IInv, Waiting
    <3>4. (\E k \in 1 .. Len(undef_phis'[c]) : undef_phis'[c][k] = <<w, y>>) <=>
            (\E k \in 1 .. Len(undef_phis[c]) : undef_phis[c][k] = <<w, y>>) \/ (w = v /\ c = b /\ y = s)
      <4>1. CASE c # b
        BY <1>4, <2>1, <3>3, <4>1
      <4>2. CASE c = b
        <5>1. PICK t : t = undef_phis[b]
          OBVIOUS
        <5>2. t \in Entries /\ undef_phis'[b] = Append(t, <<v, s>>)
          BY <1>4, <2>1, <3>3, <5>1
        <5>3. t \in Seq(Place \X Nat) /\ <<v, s>> \in Place \X Nat
          BY <1>3, <5>2 DEF Entries
        <5>4. /\ Len(t) \in Nat /\ Len(Append(t, <<v, s>>)) = Len(t) + 1
              /\ \A k \in 1 .. Len(t) : Append(t, <<v, s>>)[k] = t[k]
              /\ Append(t, <<v, s>>)[Len(t) + 1] = <<v, s>>
          BY <5>3, AppendProperties
        <5>5. \A k \in 1 .. Len(t) + 1 : k \in 1 .. Len(t) \/ k = Len(t) + 1
          BY <5>4
        <5>6. \A k \in 1 .. Len(t) : k \in 1 .. Len(t) + 1
          BY <5>4
        <5>7. Len(t) + 1 \in 1 .. Len(t) + 1
          BY <5>4
        <5>8. (\E k \in 1 .. Len(t) + 1 : Append(t, <<v, s>>)[k] = <<w, y>>) <=>
                (\E k \in 1 .. Len(t) : t[k] = <<w, y>>) \/ <<v, s>> = <<w, y>>
          BY <5>4, <5>5, <5>6, <5>7
        <5>9. <<v, s>> = <<w, y>> <=> w = v /\ y = s
          OBVIOUS
        <5>10. QED
          BY <4>2, <5>1, <5>2, <5>4, <5>8, <5>9
      <4>3. QED
        BY <4>1, <4>2
    <3>5. sealing' = sealing
      BY <1>6
    <3>6. QED
      BY <3>1, <3>2, <3>4, <3>5 DEF Asked
  <2>6. History(rep2)'
    BY <1>12, <2>5
  <2>7. Returns(top, calls', results, results', level, Agree(rep, v), Agree(rep2, var)')
    <3>1. results \in Seq(Value) /\ Len(results) \in Nat
      BY DEF IInv, Stack
    <3>2. /\ Len(results') = Len(results) + 1
          /\ \A q \in 1 .. Len(results) : results'[q] = results[q]
          /\ results'[Len(results) + 1] = s
      <4>1. results \in Seq(Nat)
        <5>1. Value \subseteq Nat
          BY DEF Value
        <5>2. QED
          BY <3>1, <5>1, SeqMonotonic
      <4>2. QED
        BY <1>3, <2>1, <4>1, AppendProperties
    <3>3. level[n - 1] = Len(results) + 1
      <4>1. n \in 1 .. n /\ n - 1 \in 0 .. n
        BY <2>3
      <4>2. level[n] = (level[n - 1] + Room(preds, top[n])) - 1 /\ level[n - 1] \in Nat
        BY <1>7, <2>2, <4>1 DEF Leveled
      <4>3. Room(preds, top[n]) = 0
        BY <2>3 DEF Room
      <4>4. QED
        BY <1>7, <2>2, <3>1, <4>2, <4>3
    <3>4. Len(results') - 1 = Len(results)
      BY <3>1, <3>2
    <3>5. <<s, b>> \in Agree(rep2, v)'
      BY <1>3, <1>4, <1>5 DEF Agree
    <3>6. <<results'[Len(results')], top[n].block>> \in Agree(rep2, var)'
      BY <1>10, <2>3, <3>2, <3>5
    <3>7. \A k \in 1 .. n - 1 : calls'[k] = top[k]
      BY <2>1, <2>3
    <3>8. /\ n \in Nat \ {0} /\ Len(calls') = n - 1 /\ Len(results') = level[n - 1]
          /\ \A q \in 1 .. Len(results') - 1 : results'[q] = results[q]
      BY <2>1, <2>3, <3>2, <3>3, <3>4
    <3>9. QED
      BY <1>10, <2>2, <3>1, <3>6, <3>7, <3>8 DEF Returns
  <2>8. Scheduled(rep2)' /\ Found(rep2)'
    <3>1. calls' \in Seq(Call)
      BY <2>1, <2>3
    <3>2. QED
      BY <1>6, <1>7, <2>7, <3>1, ReturnSchedule
  <2>9. ASSUME NEW i \in Finishing', i > 1 \/ pending' # NoCaller
        PROVE  variables'[v][calls'[i].block] = calls'[i].sentinel
    BY <1>11, <2>4, <2>9
  <2>10. calls' # <<>> => calls'[1].block = top[1].block
    <3>1. calls' # <<>> => 1 \in 1 .. Len(cs)
      BY <2>1, <2>3
    <3>2. QED
      BY <2>1, <2>3, <3>1
  <2>11. QED
    BY <1>3, <1>4, <1>5, <1>8, <2>6, <2>8, <2>9, <2>10 DEF Meaning
<1>15. QED
  BY <1>13, <1>14

\* A use of b alone, on empty stacks.
LEMMA AloneIsPlanned ==
  ASSUME NEW b, NEW rs, NEW good
  PROVE  /\ Topped(<<>>, <<UseVar(b)>>, b) /\ FinishesIn(<<UseVar(b)>>) = {} /\ <<UseVar(b)>>[1].block = b
         /\ \E level : /\ Leveled(preds, level, <<UseVar(b)>>) /\ level[Len(<<UseVar(b)>>)] = 0
                       /\ Plan(preds, <<UseVar(b)>>, rs, level, good)
<1>1. PICK top : top = <<UseVar(b)>>
  OBVIOUS
<1>2. Len(top) = 1 /\ top[1] = UseVar(b)
  BY <1>1
<1>3. top[1].call = "use" /\ top[1].block = b
  BY <1>2 DEF UseVar
<1>4. FinishesIn(top) = {}
  BY <1>2, <1>3 DEF FinishesIn
<1>5. Topped(<<>>, top, b)
  BY <1>2, <1>3 DEF Topped
<1>6. PICK level : level = [k \in 0 .. 1 |-> 1 - k]
  OBVIOUS
<1>7. level[0] = 1 /\ level[1] = 0
  BY <1>6
<1>8. Leveled(preds, level, top)
  <2>1. Room(preds, top[1]) = 0
    BY <1>3 DEF Room
  <2>2. \A k \in 0 .. 1 : k = 0 \/ k = 1
    OBVIOUS
  <2>3. \A k \in 0 .. 1 : level[k] \in Nat /\ (k < 1 => level[k] >= 1)
    BY <1>7, <2>2
  <2>4. \A k \in 1 .. 1 : level[k] = (level[k - 1] + Room(preds, top[k])) - 1
    BY <1>7, <2>1
  <2>5. QED
    BY <1>2, <1>7, <2>3, <2>4 DEF Leveled
<1>9. Plan(preds, top, rs, level, good)
  BY <1>4 DEF Plan
<1>10. QED
  BY <1>1, <1>2, <1>3, <1>4, <1>5, <1>7, <1>8, <1>9

\* use_var, by an instruction of the open block.
LEMMA StartReads ==
  ASSUME IInv, IInv', Build, Building, Open, NEW v \in Place, use_var(v, position),
         pending' # NoCaller, pending'.op # "write", Source(pending') = v, Mentions(pending', v),
         UNCHANGED <<position, filled, code, phase>>
  PROVE  Build'
<1>1. /\ phase = "build" /\ calls = <<>> /\ results = <<>> /\ pending = NoCaller
      /\ Finishing = {} /\ position \in Block /\ Block \subseteq 1 .. NumBlocks
  BY WhenBuilding
<1>2. var' = v /\ UNCHANGED <<created, preds, sealed, sealing>>
  BY DEF use_var, cfgVars
<1>3. PICK rep : Meaning(rep) /\ Lookups
  BY <1>1 DEF Build
<1>4. Representatives(rep) /\ History(rep)
  BY <1>3 DEF Meaning
<1>5. \A w : Mentioned(w) => Mentioned(w)'
  <2>1. Block' = Block
    BY <1>2 DEF Block
  <2>2. QED
    BY <1>1, <2>1 DEF Mentioned, Mentions
<1>6. Mentioned(v)'
  BY DEF Mentioned, NoCaller, Mentions
<1>7. CASE variables[v][position] # None
  <2>1. results' = <<variables[v][position]>> /\ UNCHANGED <<calls, vals, variables, undef_phis>>
    BY <1>7 DEF use_var
  <2>2. Grown(rep, rep)
    BY <1>4, <2>1, GrownKept DEF IInv
  <2>3. Finishing' = {}
    BY <1>1, <2>1, NoCalls
  <2>4. ASSUME NEW w \in Place, NEW b \in 1 .. NumBlocks PROVE Undisturbed(w, b)
    <3>1. \A y : Asked(w, b, y)' <=> Asked(w, b, y)
      BY <1>1, <1>2, <2>1, <2>3 DEF Asked
    <3>2. QED
      BY <1>2, <2>1, <3>1 DEF Undisturbed
  <2>5. History(rep)'
    BY <1>1, <1>4, <2>1, <2>2, <2>4, HistoryKept
  <2>6. Scheduled(rep)'
    BY <1>1, <2>1 DEF Scheduled
  <2>7. Found(rep)'
    <3>1. variables \in [Place -> [1 .. NumBlocks -> 0 .. Len(vals)]] /\ Len(vals) \in Nat
      BY DEF IInv, Tables, Values
    <3>2. variables[v][position] \in 0 .. Len(vals)
      BY <1>1, <3>1
    <3>3. variables[v][position] \in Value
      BY <1>7, <3>1, <3>2 DEF Value, None
    <3>4. variables[v][position] \in Value' /\ position \in Block'
      BY <1>1, <1>2, <2>1, <3>3 DEF Value, Block
    <3>5. <<variables[v][position], position>> \in Agree(rep, var)'
      BY <1>2, <1>7, <2>1, <3>4 DEF Agree, None
    <3>6. results'[1] = variables[v][position]
      BY <2>1
    <3>7. QED
      BY <3>5, <3>6 DEF Found
  <2>8. Lookups'
    <3>1. /\ Entry \in sealed' /\ preds'[Entry] = <<>>
      BY <1>2, <1>3 DEF Lookups
    <3>2. \A w \in Place : \A b \in 1 .. NumBlocks : variables'[w][b] # None => Mentioned(w)'
      BY <1>3, <1>5, <2>1 DEF Lookups
    <3>3. /\ pending'.op # "write" /\ var' = Source(pending')
          /\ variables'[var'][position'] # None /\ position' \notin filled'
          /\ calls' # <<>> => calls'[1].block = position'
      BY <1>1, <1>2, <1>7, <2>1 DEF Open
    <3>4. QED
      BY <2>3, <3>1, <3>2, <3>3 DEF Lookups, Entry, None, Source
  <2>9. QED
    BY <2>2, <2>5, <2>6, <2>7, <2>8 DEF Build, Meaning, Grown
<1>8. CASE variables[v][position] = None
  <2>1. use_var_nonlocal(<<>>, v, position)
    BY <1>8 DEF use_var
  <2>2. PICK top : top = <<UseVar(position)>>
    OBVIOUS
  <2>3. /\ Topped(<<>>, top, position) /\ FinishesIn(top) = {} /\ top[1].block = position
        /\ \E level : /\ Leveled(preds, level, top) /\ level[Len(top)] = 0
                      /\ Plan(preds, top, results, level, Agree(rep, v))
    BY <2>2, AloneIsPlanned
  <2>4. Len(results) = 0
    BY <1>1
  <2>5. Asks(rep, v, position, <<>>, top)
    BY <1>1, <1>2, <1>8, <2>1, <2>3, <2>4 DEF Asks
  <2>6. /\ \E rep2 : Meaning(rep2)'
        /\ \A i \in Finishing' : i > 1 \/ pending' # NoCaller => variables'[v][calls'[i].block] = calls'[i].sentinel
        /\ calls' # <<>> => calls'[1].block = top[1].block
        /\ variables'[v][position] # None
        /\ \A w \in Place : \A c \in 1 .. NumBlocks : w # v \/ c # position => variables'[w][c] = variables[w][c]
    BY <1>1, <1>4, <2>5, NonlocalReads
  <2>7. Lookups'
    <3>1. /\ Entry \in sealed' /\ preds'[Entry] = <<>>
      BY <1>2, <1>3 DEF Lookups
    <3>2. ASSUME NEW w \in Place, NEW b \in 1 .. NumBlocks, variables'[w][b] # None PROVE Mentioned(w)'
      <4>1. CASE w = v
        BY <1>6, <4>1
      <4>2. CASE w # v
        <5>1. Mentioned(w)
          BY <1>3, <2>6, <3>2, <4>2 DEF Lookups
        <5>2. QED
          BY <1>5, <5>1
      <4>3. QED
        BY <4>1, <4>2
    <3>3. /\ pending'.op # "write" /\ var' = Source(pending')
          /\ variables'[var'][position'] # None /\ position' \notin filled'
          /\ calls' # <<>> => calls'[1].block = position'
      BY <1>1, <1>2, <2>3, <2>6 DEF Open
    <3>4. QED
      BY <1>2, <2>6, <3>1, <3>2, <3>3 DEF Lookups, Entry, None, Source
  <2>8. QED
    BY <2>6, <2>7 DEF Build
<1>9. QED
  BY <1>7, <1>8

\* The instructions of the client.
LEMMA InsertsReads ==
  ASSUME IInv, IInv', Build, Insert
  PROVE  Build'
<1>1. Open
  BY DEF Insert
<1>2. CASE \E v \in Place : def_var(v)
  BY <1>1, <1>2, DefVarReads
<1>3. CASE \E v \in Place : StartRead(v)
  <2>1. PICK v \in Place : StartRead(v)
    BY <1>3
  <2>2. /\ Building /\ use_var(v, position) /\ pending' = Read(v, None)
        /\ UNCHANGED <<position, filled, code, phase>>
    BY <2>1 DEF StartRead
  <2>3. pending' # NoCaller /\ pending'.op # "write" /\ Source(pending') = v /\ Mentions(pending', v)
    BY <2>2 DEF Read, NoCaller, Source, Mentions
  <2>4. QED
    BY <1>1, <2>2, <2>3, StartReads
<1>4. CASE \E v \in Place : \E w \in Place \ {v} : StartCopy(v, w)
  <2>1. PICK v \in Place, w \in Place : StartCopy(v, w)
    BY <1>4
  <2>2. /\ Building /\ use_var(w, position) /\ pending' = Copy(v, w, None)
        /\ UNCHANGED <<position, filled, code, phase>>
    BY <2>1 DEF StartCopy
  <2>3. pending' # NoCaller /\ pending'.op # "write" /\ Source(pending') = w /\ Mentions(pending', w)
    BY <2>2 DEF Copy, NoCaller, Source, Mentions
  <2>4. QED
    BY <1>1, <2>2, <2>3, StartReads
<1>5. QED
  BY <1>2, <1>3, <1>4 DEF Insert

\* What there is on the stacks when a use is on top.
LEMMA UseOnTop ==
  ASSUME IInv, calls # <<>>, Top.call = "use"
  PROVE  /\ Topped(Front(calls), calls, Top.block) /\ Top.block \in Block /\ Finishing = FinishesIn(calls)
         /\ \A i \in Finishing : i \in 1 .. Len(calls) - 1
<1>1. /\ Len(calls) \in Nat \ {0} /\ Front(calls) \in Seq(Call) /\ Len(Front(calls)) = Len(calls) - 1
      /\ \A k \in 1 .. Len(calls) - 1 : Front(calls)[k] = calls[k]
      /\ Top = calls[Len(calls)] /\ Top.block \in Block
  BY BelowTop
<1>2. Topped(Front(calls), calls, Top.block)
  BY <1>1 DEF Topped
<1>3. Finishing = FinishesIn(calls)
  BY DEF Finishing, FinishesIn
<1>4. \A i \in 1 .. Len(calls) : calls[i].call = "finish" => i \in 1 .. Len(calls) - 1
  BY <1>1
<1>5. QED
  BY <1>1, <1>2, <1>3, <1>4 DEF Finishing

\* The local definition of the variable is the result, or the predecessors are asked.
LEMMA LookupUseReads ==
  ASSUME IInv, IInv', Build, LookupUse, UNCHANGED builder, UNCHANGED phase
  PROVE  Build'
<1>1. /\ calls # <<>> /\ Top.call = "use" /\ UNCHANGED <<created, preds, sealed, var, sealing>>
      /\ UNCHANGED <<position, filled, touched, code, succs, pending, phase>>
  BY DEF LookupUse, cfgVars, builder
<1>2. /\ phase = "build" /\ var \in Place
      /\ sealing # NotSealing => variables[var][sealing.block] # None
      /\ IF pending = NoCaller THEN sealing # NotSealing ELSE sealing = NotSealing
  BY <1>1, WhenLooking
<1>3. PICK b, cs : b = Top.block /\ cs = Front(calls)
  OBVIOUS
<1>4. /\ Topped(cs, calls, b) /\ b \in Block /\ Finishing = FinishesIn(calls)
      /\ \A i \in Finishing : i \in 1 .. Len(calls) - 1
  BY <1>1, <1>3, UseOnTop
<1>5. PICK rep : Meaning(rep) /\ Lookups
  BY <1>2 DEF Build
<1>6. Representatives(rep) /\ History(rep)
  BY <1>5 DEF Meaning
<1>7. PICK level : /\ Leveled(preds, level, calls) /\ level[Len(calls)] = Len(results)
                   /\ Plan(preds, calls, results, level, Agree(rep, var))
  BY <1>1, <1>5 DEF Meaning, Scheduled
<1>8. /\ Block \subseteq 1 .. NumBlocks /\ Block' = Block
      /\ variables \in [Place -> [1 .. NumBlocks -> 0 .. Len(vals)]] /\ Len(vals) \in Nat
  <2>1. created \in 2 .. NumBlocks /\ NumBlocks \in Nat
    BY SSABuilderAssumption DEF IInv, Graph
  <2>2. Block \subseteq 1 .. NumBlocks /\ Block' = Block
    BY <1>1, <2>1 DEF Block
  <2>3. QED
    BY <2>2 DEF IInv, Tables, Values
<1>9. \A w : Mentioned(w) => Mentioned(w)'
  BY <1>1, <1>8 DEF Mentioned, Mentions
<1>10. pending # NoCaller => calls[1].block = position
  BY <1>1, <1>5 DEF Lookups
<1>11. CASE variables[var][b] # None
  <2>1. /\ results' = Append(results, resolve_alias(variables[var][b])) /\ calls' = cs
        /\ UNCHANGED <<vals, variables, undef_phis>>
    BY <1>1, <1>3, <1>11 DEF LookupUse
  <2>2. PICK x : x = variables[var][b]
    OBVIOUS
  <2>3. x \in Value
    <3>1. x \in 0 .. Len(vals)
      BY <1>2, <1>4, <1>8, <2>2
    <3>2. QED
      BY <1>8, <1>11, <2>2, <3>1 DEF Value, None
  <2>4. resolve_alias(x) = rep[x] /\ rep[x] \in Value /\ rep[rep[x]] = rep[x]
    <3>1. resolve_alias(x) = rep[x]
      BY <1>6, <2>3, ResolveIsRep DEF IInv
    <3>2. QED
      BY <1>6, <2>3, <3>1 DEF Representatives
  <2>5. Grown(rep, rep)
    BY <1>6, <2>1, GrownKept DEF IInv
  <2>6. /\ cs \in Seq(Call) /\ Len(calls) = Len(cs) + 1 /\ Len(cs) \in Nat
        /\ \A k \in 1 .. Len(cs) : calls[k] = cs[k]
        /\ calls[Len(calls)].call = "use" /\ calls[Len(calls)].block = b
    BY <1>4 DEF Topped
  <2>7. Finishing' = Finishing /\ \A i \in Finishing : calls'[i] = calls[i]
    <3>1. Finishing' = {i \in 1 .. Len(cs) : cs[i].call = "finish"}
      BY <2>1 DEF Finishing
    <3>2. \A i \in 1 .. Len(cs) : i \in 1 .. Len(calls)
      BY <2>6
    <3>3. Len(calls) - 1 = Len(cs)
      BY <2>6
    <3>4. \A i \in Finishing : i \in 1 .. Len(cs) /\ calls[i].call = "finish"
      BY <1>4, <3>3 DEF Finishing
    <3>5. Finishing = {i \in 1 .. Len(cs) : calls[i].call = "finish"}
      BY <3>2, <3>4 DEF Finishing
    <3>6. QED
      BY <2>1, <2>6, <3>1, <3>4, <3>5
  <2>8. ASSUME NEW w \in Place, NEW c \in 1 .. NumBlocks PROVE Undisturbed(w, c)
    <3>1. \A y : Asked(w, c, y)' <=> Asked(w, c, y)
      BY <1>1, <2>1, <2>7 DEF Asked
    <3>2. QED
      BY <1>1, <2>1, <3>1 DEF Undisturbed
  <2>9. History(rep)'
    BY <1>1, <1>2, <1>6, <2>1, <2>5, <2>8, HistoryKept
  <2>10. Agree(rep, var)' = Agree(rep, var)
    BY <1>1, <1>8, <2>1 DEF Agree, Value
  <2>11. Returns(calls, calls', results, results', level, Agree(rep, var), Agree(rep, var)')
    <3>1. PICK n : n = Len(calls)
      OBVIOUS
    <3>2. n \in Nat \ {0} /\ Len(calls') = n - 1 /\ \A k \in 1 .. n - 1 : calls'[k] = calls[k]
      BY <2>1, <2>6, <3>1
    <3>3. results \in Seq(Value) /\ Len(results) \in Nat
      BY DEF IInv, Stack
    <3>4. /\ Len(results') = Len(results) + 1
          /\ \A q \in 1 .. Len(results) : results'[q] = results[q]
          /\ results'[Len(results) + 1] = rep[x]
      BY <2>1, <2>2, <2>4, <3>3, AppendProperties
    <3>5. level[n - 1] = Len(results) + 1
      <4>1. n \in 1 .. n /\ n - 1 \in 0 .. n
        BY <3>2
      <4>2. level[n] = (level[n - 1] + Room(preds, calls[n])) - 1 /\ level[n - 1] \in Nat
        BY <1>7, <3>1, <4>1 DEF Leveled
      <4>3. Room(preds, calls[n]) = 0
        BY <2>6, <3>1 DEF Room
      <4>4. QED
        BY <1>7, <3>1, <3>3, <4>2, <4>3
    <3>6. Len(results') - 1 = Len(results)
      BY <3>3, <3>4
    <3>7. <<rep[x], b>> \in Agree(rep, var)
      BY <1>4, <1>11, <2>2, <2>4 DEF Agree
    <3>8. <<results'[Len(results')], calls[n].block>> \in Agree(rep, var)'
      BY <2>6, <2>10, <3>1, <3>4, <3>7
    <3>9. QED
      BY <2>10, <3>1, <3>2, <3>3, <3>4, <3>5, <3>6, <3>8 DEF Returns
  <2>12. Scheduled(rep)' /\ Found(rep)'
    BY <1>1, <1>7, <1>10, <2>1, <2>6, <2>11, ReturnSchedule
  <2>13. Lookups'
    <3>1. /\ Entry \in sealed' /\ preds'[Entry] = <<>>
      BY <1>1, <1>5 DEF Lookups
    <3>2. \A w \in Place : \A c \in 1 .. NumBlocks : variables'[w][c] # None => Mentioned(w)'
      BY <1>5, <1>9, <2>1 DEF Lookups
    <3>3. pending' # NoCaller => /\ pending'.op # "write" /\ var' = Source(pending')
                                 /\ variables'[var'][position'] # None /\ position' \notin filled'
      BY <1>1, <1>5, <2>1 DEF Lookups, Source
    <3>4. calls' # <<>> => calls'[1] = calls[1]
      <4>1. calls' # <<>> => 1 \in 1 .. Len(cs)
        BY <2>1, <2>6
      <4>2. QED
        BY <2>1, <2>6, <4>1
    <3>5. \A i \in Finishing' : i > 1 \/ pending' # NoCaller => variables'[var'][calls'[i].block] = calls'[i].sentinel
      BY <1>1, <1>5, <2>1, <2>7 DEF Lookups
    <3>6. QED
      BY <1>1, <1>10, <3>1, <3>2, <3>3, <3>4, <3>5 DEF Lookups, Entry, None, Source, NoCaller
  <2>14. QED
    BY <2>5, <2>9, <2>12, <2>13 DEF Build, Meaning, Grown
<1>12. CASE variables[var][b] = None
  <2>1. use_var_nonlocal(cs, var, b)
    BY <1>1, <1>3, <1>12 DEF LookupUse
  <2>2. \A i \in Finishing : i > 1 \/ pending' # NoCaller => variables[var][calls[i].block] = calls[i].sentinel
    BY <1>1, <1>5 DEF Lookups
  <2>3. Asks(rep, var, b, cs, calls)
    BY <1>1, <1>4, <1>7, <1>10, <1>12, <2>1, <2>2 DEF Asks
  <2>4. PICK v : v = var
    OBVIOUS
  <2>5. /\ \E rep2 : Meaning(rep2)'
        /\ \A i \in Finishing' : i > 1 \/ pending' # NoCaller => variables'[v][calls'[i].block] = calls'[i].sentinel
        /\ calls' # <<>> => calls'[1].block = calls[1].block
        /\ variables'[v][b] # None
        /\ \A w \in Place : \A c \in 1 .. NumBlocks : w # v \/ c # b => variables'[w][c] = variables[w][c]
    <3>1. Asks(rep, v, b, cs, calls) /\ v \in Place
      BY <1>2, <2>3, <2>4
    <3>2. QED
      BY <1>2, <1>4, <1>6, <3>1, NonlocalReads
  <2>6. Mentioned(v)
    <3>1. CASE pending = NoCaller
      <4>1. sealing.block \in 1 .. NumBlocks
        BY <1>2, <1>8, <3>1 DEF IInv, Stages
      <4>2. QED
        BY <1>2, <1>5, <2>4, <3>1, <4>1 DEF Lookups
    <3>2. CASE pending # NoCaller
      <4>1. var = Source(pending) /\ position \in 1 .. NumBlocks /\ variables[var][position] # None
        BY <1>5, <1>8, <3>2 DEF Lookups, IInv, Graph
      <4>2. QED
        BY <1>2, <1>5, <2>4, <4>1 DEF Lookups
    <3>3. QED
      BY <3>1, <3>2
  <2>7. Lookups'
    <3>1. /\ Entry \in sealed' /\ preds'[Entry] = <<>>
      BY <1>1, <1>5 DEF Lookups
    <3>2. ASSUME NEW w \in Place, NEW c \in 1 .. NumBlocks, variables'[w][c] # None PROVE Mentioned(w)'
      <4>1. CASE w = v
        BY <1>9, <2>6, <4>1
      <4>2. CASE w # v
        <5>1. Mentioned(w)
          BY <1>5, <2>5, <3>2, <4>2 DEF Lookups
        <5>2. QED
          BY <1>9, <5>1
      <4>3. QED
        BY <4>1, <4>2
    <3>3. ASSUME pending' # NoCaller
          PROVE  /\ pending'.op # "write" /\ var' = Source(pending')
                 /\ variables'[var'][position'] # None /\ position' \notin filled'
                 /\ calls' # <<>> => calls'[1].block = position'
      <4>1. /\ pending.op # "write" /\ var = Source(pending) /\ variables[var][position] # None
            /\ position \notin filled /\ position \in 1 .. NumBlocks
        BY <1>1, <1>5, <1>8, <3>3 DEF Lookups, IInv, Graph
      <4>2. variables'[var'][position'] # None
        <5>1. position # b
          BY <1>12, <4>1
        <5>2. QED
          BY <1>1, <1>2, <2>4, <2>5, <4>1, <5>1
      <4>3. QED
        BY <1>1, <1>10, <2>5, <3>3, <4>1, <4>2 DEF Source
    <3>4. \A i \in Finishing' : i > 1 \/ pending' # NoCaller => variables'[var'][calls'[i].block] = calls'[i].sentinel
      BY <1>1, <2>4, <2>5
    <3>5. QED
      BY <3>1, <3>2, <3>3, <3>4 DEF Lookups, Entry, None, Source, NoCaller
  <2>8. QED
    BY <2>5, <2>7 DEF Build
<1>13. QED
  BY <1>11, <1>12

\* seal_one_block looks up the next variable that waits for the predecessors of its block.
LEMMA SealNextReads ==
  ASSUME IInv, IInv', Build, SealNext, UNCHANGED builder, UNCHANGED phase
  PROVE  Build'
<1>1. PICK v, s, b, T : T = sealing.todo /\ v = T[1][1] /\ s = T[1][2] /\ b = sealing.block
  OBVIOUS
<1>2. /\ T # <<>> /\ calls = <<>> /\ var' = v /\ results' = <<>>
      /\ calls' = begin_predecessors_lookup(s, b) /\ sealing' = [sealing EXCEPT !.todo = Tail(@)]
      /\ UNCHANGED <<created, preds, sealed, undef_phis, variables, vals>>
      /\ UNCHANGED <<position, filled, touched, code, succs, pending, phase>>
  BY <1>1 DEF SealNext, cfgVars, builder
<1>3. sealing # NotSealing /\ phase = "build" /\ pending = NoCaller /\ b \in Block /\ T \in Entries
  <2>1. sealing # NotSealing
    BY <1>1, <1>2 DEF NotSealing
  <2>2. QED
    BY <1>1, <2>1 DEF IInv, Stages, Waiting
<1>4. Len(T) \in Nat \ {0} /\ T \in Seq(Place \X Nat)
  BY <1>2, <1>3 DEF Entries
<1>5. /\ T[1] = <<v, s>> /\ v \in Place /\ s \in Nat /\ Len(Tail(T)) = Len(T) - 1
      /\ \A k \in 1 .. Len(T) - 1 : Tail(T)[k] = T[k + 1]
  <2>1. T[1] \in Place \X Nat
    BY <1>4
  <2>2. T[1] = <<v, s>> /\ v \in Place /\ s \in Nat
    BY <1>1, <2>1
  <2>3. QED
    BY <1>2, <1>4, <2>2, HeadTailProperties
<1>6. sealing' = [block |-> b, todo |-> Tail(T)]
  <2>1. sealing \in [block : 0 .. NumBlocks, todo : Entries]
    BY DEF IInv, Waiting
  <2>2. QED
    BY <1>1, <1>2, <2>1
<1>7. PICK rep : Meaning(rep) /\ Lookups
  BY <1>3 DEF Build
<1>8. Representatives(rep) /\ History(rep)
  BY <1>7 DEF Meaning
<1>9. Grown(rep, rep)
  BY <1>2, <1>8, GrownKept DEF IInv
<1>10. /\ Block \subseteq 1 .. NumBlocks /\ Block' = Block /\ Block \subseteq Nat
       /\ preds \in [1 .. NumBlocks -> Seq(Block)]
  <2>1. created \in 2 .. NumBlocks /\ NumBlocks \in Nat
    BY SSABuilderAssumption DEF IInv, Graph
  <2>2. Block \subseteq 1 .. NumBlocks /\ Block' = Block /\ Block \subseteq Nat
    BY <1>2, <2>1 DEF Block
  <2>3. QED
    BY <2>2 DEF IInv, Graph
<1>11. PICK top : top = <<UseVar(b)>>
  OBVIOUS
<1>12. PICK good, level : /\ good = Agree(rep, var)' /\ Leveled(preds, level, top) /\ level[Len(top)] = 0
                          /\ Plan(preds, top, results, level, good)
  BY <1>11, AloneIsPlanned
<1>13. Topped(<<>>, top, b) /\ FinishesIn(top) = {} /\ Len(top) = 1
  BY <1>11, AloneIsPlanned
<1>14. Pushed(preds, calls', top, s, b)
  <2>1. preds[b] \in Seq(Nat) /\ b \in Nat
    BY <1>3, <1>10, SeqMonotonic
  <2>2. Pushed(preds, <<>> \o begin_predecessors_lookup(s, b), top, s, b)
    BY <1>5, <1>13, <2>1, BeginPushed
  <2>3. begin_predecessors_lookup(s, b) \in Seq(Call)
    BY <1>5, <2>1, BeginLookup
  <2>4. <<>> \o begin_predecessors_lookup(s, b) = begin_predecessors_lookup(s, b)
    BY <2>3, ConcatEmptySeq
  <2>5. QED
    BY <1>2, <2>2, <2>4
<1>15. /\ FinishesIn(calls') = {1} /\ calls'[1].block = b /\ calls'[1].sentinel = s
       /\ Len(calls') \in Nat \ {0}
  <2>1. /\ FinishesIn(calls') = FinishesIn(top) \cup {Len(top)}
        /\ calls'[Len(top)].block = b /\ calls'[Len(top)].sentinel = s /\ Len(calls') \in Nat \ {0}
    BY <1>14, PushedFinishes
  <2>2. QED
    BY <1>13, <2>1
<1>16. Finishing' = {1} /\ Finishing = {}
  <2>1. Finishing' = {1}
    BY <1>15 DEF Finishing, FinishesIn
  <2>2. QED
    BY <1>2, <2>1 DEF Finishing
<1>17. ASSUME NEW w \in Place, NEW c \in 1 .. NumBlocks PROVE Undisturbed(w, c)
  <2>1. ASSUME NEW y PROVE Asked(w, c, y)' <=> Asked(w, c, y)
    <3>1. (\E k \in 1 .. Len(T) : T[k] = <<w, y>>) <=>
            (w = v /\ y = s) \/ \E k \in 1 .. Len(Tail(T)) : Tail(T)[k] = <<w, y>>
      <4>1. \A k \in 1 .. Len(T) : k = 1 \/ (k - 1 \in 1 .. Len(T) - 1 /\ (k - 1) + 1 = k)
        BY <1>4
      <4>2. \A k \in 1 .. Len(T) - 1 : k + 1 \in 1 .. Len(T)
        BY <1>4
      <4>3. 1 \in 1 .. Len(T)
        BY <1>4
      <4>4. <<v, s>> = <<w, y>> <=> w = v /\ y = s
        OBVIOUS
      <4>5. ASSUME NEW k \in 1 .. Len(T), T[k] = <<w, y>>
            PROVE  (w = v /\ y = s) \/ \E l \in 1 .. Len(Tail(T)) : Tail(T)[l] = <<w, y>>
        <5>1. CASE k = 1
          BY <1>5, <4>4, <4>5, <5>1
        <5>2. CASE k # 1
          <6>1. k - 1 \in 1 .. Len(T) - 1 /\ T[(k - 1) + 1] = <<w, y>>
            BY <4>1, <4>5, <5>2
          <6>2. k - 1 \in 1 .. Len(Tail(T)) /\ Tail(T)[k - 1] = <<w, y>>
            BY <1>5, <6>1
          <6>3. QED
            BY <6>2
        <5>3. QED
          BY <5>1, <5>2
      <4>6. ASSUME NEW k \in 1 .. Len(Tail(T)), Tail(T)[k] = <<w, y>>
            PROVE  \E l \in 1 .. Len(T) : T[l] = <<w, y>>
        <5>1. k + 1 \in 1 .. Len(T) /\ T[k + 1] = <<w, y>>
          BY <1>5, <4>2, <4>6
        <5>2. QED
          BY <5>1
      <4>7. ASSUME w = v, y = s PROVE \E l \in 1 .. Len(T) : T[l] = <<w, y>>
        BY <1>5, <4>3, <4>7
      <4>8. QED
        BY <4>5, <4>6, <4>7
    <3>2. (var' = w /\ \E i \in Finishing' : calls'[i].block = c /\ calls'[i].sentinel = y) <=>
            (w = v /\ y = s /\ c = b)
      BY <1>2, <1>15, <1>16
    <3>3. (sealing'.block = c /\ \E k \in 1 .. Len(sealing'.todo) : sealing'.todo[k] = <<w, y>>) <=>
            (c = b /\ \E k \in 1 .. Len(Tail(T)) : Tail(T)[k] = <<w, y>>)
      BY <1>6
    <3>4. (sealing.block = c /\ \E k \in 1 .. Len(sealing.todo) : sealing.todo[k] = <<w, y>>) <=>
            (c = b /\ \E k \in 1 .. Len(T) : T[k] = <<w, y>>)
      BY <1>1
    <3>5. QED
      BY <1>2, <1>16, <3>1, <3>2, <3>3, <3>4 DEF Asked
  <2>2. sealing'.block = sealing.block
    BY <1>1, <1>6
  <2>3. QED
    BY <1>2, <2>1, <2>2 DEF Undisturbed
<1>18. History(rep)'
  BY <1>2, <1>3, <1>8, <1>9, <1>17, HistoryKept
<1>19. Scheduled(rep)'
  <2>1. Within(good, good)
    BY DEF Within
  <2>2. \A rs : Plan(preds, top, rs, level, good)
    BY <1>13 DEF Plan
  <2>3. PICK rs, cs2 : rs = results' /\ cs2 = calls'
    OBVIOUS
  <2>4. \E lv : /\ Leveled(preds, lv, cs2) /\ Plan(preds, cs2, rs, lv, good)
                /\ lv[Len(cs2)] = level[Len(top)]
    <3>1. Plan(preds, top, rs, level, good) /\ Pushed(preds, cs2, top, s, b)
      BY <1>14, <2>2, <2>3
    <3>2. QED
      BY <1>12, <2>1, <3>1, PlanPush
  <2>5. Len(results') = 0 /\ preds' = preds
    BY <1>2
  <2>6. QED
    BY <1>12, <2>3, <2>4, <2>5 DEF Scheduled
<1>20. Found(rep)'
  <2>1. calls' # <<>>
    BY <1>15
  <2>2. QED
    BY <2>1 DEF Found
<1>21. Lookups'
  <2>1. Entry \in sealed' /\ preds'[Entry] = <<>>
    BY <1>2, <1>7 DEF Lookups
  <2>2. \A w \in Place : \A c \in 1 .. NumBlocks : variables'[w][c] # None => Mentioned(w)'
    <3>1. \A w : Mentioned(w) => Mentioned(w)'
      BY <1>2, <1>10 DEF Mentioned, Mentions
    <3>2. QED
      BY <1>2, <1>7, <3>1 DEF Lookups
  <2>3. pending' = NoCaller
    BY <1>2, <1>3
  <2>4. \A i \in Finishing' : ~(i > 1)
    BY <1>16
  <2>5. QED
    BY <2>1, <2>2, <2>3, <2>4 DEF Lookups, Entry, None, NoCaller
<1>22. QED
  BY <1>8, <1>9, <1>18, <1>19, <1>20, <1>21 DEF Build, Meaning, Grown

\* finish_predecessors_lookup makes an alias of the one value that the predecessors have
\* found beside s, or a phi of what each has found.
LEMMA FinishMeans ==
  ASSUME Graph, Values, NEW b \in Block, NEW s \in Value,
         NEW found \in Seq(Value), Len(found) = Len(preds[b])
  PROVE  LET def == finish_predecessors_lookup(s, b, found)
         IN  \/ /\ def.ty = "alias" /\ \A m \in 1 .. Len(found) : found[m] \in {s, def.to}
                /\ preds[b] = <<>> => def.to = GRAVESTONE
             \/ /\ def.ty = "phi" /\ def.block = b /\ preds[b] # <<>>
                /\ \A m \in 1 .. Len(found) : def.args[preds[b][m]] = found[m]
<1> DEFINE yielded == {found[k] : k \in 1 .. Len(found)} \ {s}
           arg(p)  == found[SelectInSeq(preds[b], LAMBDA e : e = p)]
           def     == finish_predecessors_lookup(s, b, found)
<1>1. /\ preds[b] \in Seq(Block) /\ Block \in SUBSET Nat /\ Len(vals) \in Nat /\ Len(preds[b]) \in Nat
      /\ \A i, j \in 1 .. Len(preds[b]) : i < j => preds[b][i] < preds[b][j]
  <2>1. b \in 1 .. NumBlocks /\ Block \in SUBSET Nat
    BY SSABuilderAssumption DEF Graph, Block
  <2>2. preds[b] \in Seq(Block)
    BY <2>1 DEF Graph
  <2>3. QED
    BY <2>1, <2>2 DEF Values, Graph
<1>2. ASSUME NEW m \in 1 .. Len(found) PROVE arg(preds[b][m]) = found[m] /\ preds[b][m] \in ToSet(preds[b])
  <2> DEFINE I == {i \in 1 .. Len(preds[b]) : preds[b][i] = preds[b][m]}
  <2>1. SelectInSeq(preds[b], LAMBDA e : e = preds[b][m]) = First(I)
    BY DEF SelectInSeq, First
  <2>2. m \in 1 .. Len(preds[b]) /\ m \in I /\ I \in SUBSET Nat
    OBVIOUS
  <2>3. First(I) \in I
    <3> HIDE DEF I
    <3>1. QED
      BY <2>2, FirstIs
  <2>4. PICK k \in 1 .. Len(preds[b]) : k = First(I) /\ preds[b][k] = preds[b][m]
    BY <2>3
  <2> HIDE DEF I
  <2>5. \A i \in 1 .. Len(preds[b]) : preds[b][i] \in Nat
    <3>1. \A i \in 1 .. Len(preds[b]) : preds[b][i] \in Block
      BY <1>1
    <3>2. QED
      BY <1>1, <3>1
  <2>6. k = m
    <3>1. k < m => preds[b][k] < preds[b][m]
      BY <1>1, <2>2, <2>4
    <3>2. m < k => preds[b][m] < preds[b][k]
      BY <1>1, <2>2, <2>4
    <3>3. preds[b][k] \in Nat /\ preds[b][m] \in Nat /\ k \in Nat /\ m \in Nat
      BY <2>2, <2>5, <2>4
    <3>4. QED
      BY <2>4, <3>1, <3>2, <3>3
  <2>7. preds[b][m] \in ToSet(preds[b])
    <3>1. DOMAIN preds[b] = 1 .. Len(preds[b])
      BY <1>1
    <3>2. QED
      BY <2>2, <3>1 DEF ToSet
  <2>8. QED
    BY <2>1, <2>4, <2>6, <2>7
<1>3. ASSUME preds[b] = <<>> PROVE Len(found) = 0 /\ yielded = {}
  <2>1. Len(found) = 0
    BY <1>3
  <2>2. QED
    BY <2>1
<1>4. CASE yielded = {}
  <2>1. def = Alias(GRAVESTONE)
    BY <1>4 DEF finish_predecessors_lookup
  <2>2. \A m \in 1 .. Len(found) : found[m] = s
    BY <1>4
  <2>3. def.ty = "alias" /\ def.to = GRAVESTONE
    BY <2>1 DEF Alias
  <2> HIDE DEF def
  <2>4. QED
    BY <2>2, <2>3 DEF def
<1>5. CASE yielded # {} /\ Cardinality(yielded) = 1
  <2>1. def = Alias(CHOOSE v \in yielded : TRUE)
    BY <1>5 DEF finish_predecessors_lookup
  <2>2. PICK w \in yielded : def = Alias(w)
    BY <1>5, <2>1
  <2>3. \E x : yielded = {x}
    <3>1. yielded \in SUBSET (1 .. Len(vals))
      BY DEF Value
    <3>2. IsFiniteSet(1 .. Len(vals))
      BY <1>1, FS_Interval
    <3> HIDE DEF yielded
    <3>3. IsFiniteSet(yielded)
      BY <3>1, <3>2, FS_Subset
    <3>4. QED
      BY <1>5, <3>3, FS_Singleton
  <2>4. \A m \in 1 .. Len(found) : found[m] \in {s, w}
    BY <2>3
  <2>5. def.ty = "alias" /\ def.to = w
    BY <2>2 DEF Alias
  <2> HIDE DEF def
  <2>6. QED
    BY <1>3, <1>5, <2>4, <2>5 DEF def
<1>6. CASE yielded # {} /\ Cardinality(yielded) # 1
  <2>1. def = PhiNode(b, [p \in ToSet(preds[b]) |-> arg(p)])
    BY <1>6 DEF finish_predecessors_lookup
  <2>2. def.ty = "phi" /\ def.block = b /\ def.args = [p \in ToSet(preds[b]) |-> arg(p)]
    <3> HIDE DEF arg, def
    <3>1. QED
      BY <2>1 DEF PhiNode
  <2>3. \A m \in 1 .. Len(found) : def.args[preds[b][m]] = found[m]
    <3> HIDE DEF arg, def
    <3>1. QED
      BY <1>2, <2>2
  <2> HIDE DEF def
  <2>4. QED
    BY <1>3, <1>6, <2>2, <2>3 DEF def
<1>7. QED
  BY <1>4, <1>5, <1>6

\* The lookup on top of the stacks, with what its predecessors have found.
TopFound(b, s, kept, found) ==
  /\ Top.call = "finish" /\ b = Top.block /\ s = Top.sentinel
  /\ b \in Block /\ b \in sealed \cup {sealing.block}
  /\ s \in Value /\ vals[s].ty = "invalid" /\ Top = calls[Len(calls)] /\ Len(calls) \in Finishing
  /\ kept \in Nat /\ kept = Len(results) - Len(preds[b]) /\ Len(results) \in Nat /\ Len(preds[b]) \in Nat
  /\ found \in Seq(Value) /\ Len(found) = Len(preds[b])
  /\ \A m \in 1 .. Len(found) : found[m] = results[kept + m] /\ vals[found[m]].ty # "alias"

\* The sentinel s of a lookup in b becomes def.
Settled(s, b, def) ==
  /\ s \in Value /\ vals[s].ty = "invalid" /\ Resolved(def, s, b)
  /\ vals' = [vals EXCEPT ![s] = def]

\* What the lookup on top makes of its sentinel.
LEMMA FinishSteps ==
  ASSUME IInv, LookupFinish
  PROVE  \E b, s, kept, found, def, rs, w :
           /\ TopFound(b, s, kept, found)
           /\ def = finish_predecessors_lookup(s, b, found) /\ Settled(s, b, def) /\ variables' = variables
           /\ results' = Append(rs, w) /\ w = (IF def.ty = "alias" THEN def.to ELSE s) /\ w \in Value
           /\ rs \in Seq(Value) /\ Len(rs) = kept /\ \A k \in 1 .. kept : rs[k] = results[k]
<1>1. calls # <<>> /\ Top.call # "use"
  BY DEF LookupFinish
<1>2. PICK b, s, kept : b = Top.block /\ s = Top.sentinel /\ kept = Len(results) - Len(preds[b])
  OBVIOUS
<1>3. /\ Len(calls) \in Nat \ {0} /\ Top = calls[Len(calls)] /\ Top \in Call /\ b \in Block
      /\ Takes(Top) \in Nat /\ Takes(Top) <= Len(results)
  BY <1>1, <1>2, BelowTop
<1>4. Top.call = "finish" /\ Takes(Top) = Len(preds[b])
  BY <1>1, <1>2, <1>3, TakesIs DEF IInv
<1>5. Len(calls) \in Finishing
  BY <1>3, <1>4 DEF Finishing
<1>6. s \in Value /\ vals[s].ty = "invalid" /\ b \in sealed \cup {sealing.block}
  BY <1>2, <1>3, <1>5 DEF IInv, Frames
<1>7. /\ results \in Seq(Value) /\ Len(results) \in Nat
      /\ \A k \in 1 .. Len(results) : results[k] \in Value /\ vals[results[k]].ty # "alias"
  BY <1>1 DEF IInv, Stack
<1>8. kept \in Nat /\ kept <= Len(results) /\ Len(preds[b]) \in Nat /\ Len(results) - kept = Len(preds[b])
  BY <1>2, <1>3, <1>4, <1>7
<1>9. PICK found, rs : found = SubSeq(results, kept + 1, Len(results)) /\ rs = SubSeq(results, 1, kept)
  OBVIOUS
<1>10. /\ found \in Seq(Value) /\ Len(found) = IF kept + 1 <= Len(results) THEN (Len(results) - (kept + 1)) + 1 ELSE 0
       /\ \A k \in 1 .. (Len(results) - (kept + 1)) + 1 : found[k] = results[((kept + 1) + k) - 1]
  <2>1. kept + 1 \in Int /\ Len(results) \in Int /\ \A k \in kept + 1 .. Len(results) : results[k] \in Value
    BY <1>7, <1>8
  <2>2. QED
    BY <1>9, <2>1, SubSeqProperties
<1>11. Len(found) = Len(preds[b])
  BY <1>7, <1>8, <1>10
<1>12. ASSUME NEW m \in 1 .. Len(found) PROVE found[m] = results[kept + m] /\ vals[found[m]].ty # "alias"
  <2>1. m \in 1 .. (Len(results) - (kept + 1)) + 1 /\ ((kept + 1) + m) - 1 = kept + m /\ kept + m \in 1 .. Len(results)
    BY <1>7, <1>8, <1>11
  <2>2. QED
    BY <1>7, <1>10, <2>1
<1>13. TopFound(b, s, kept, found)
  BY <1>2, <1>3, <1>4, <1>5, <1>6, <1>7, <1>8, <1>10, <1>11, <1>12 DEF TopFound
<1>14. PICK def, w : def = finish_predecessors_lookup(s, b, found) /\ w = IF def.ty = "alias" THEN def.to ELSE s
  OBVIOUS
<1>15. Resolved(def, s, b)
  BY <1>3, <1>6, <1>10, <1>11, <1>12, <1>14, FinishIs DEF IInv
<1>16. rs \in Seq(Value) /\ Len(rs) = kept /\ \A k \in 1 .. kept : rs[k] = results[k]
  <2>1. 1 \in Int /\ kept \in Int /\ \A k \in 1 .. kept : results[k] \in Value
    BY <1>7, <1>8
  <2>2. QED
    BY <1>7, <1>8, <1>9, <2>1
<1>17. vals' = [vals EXCEPT ![s] = def] /\ results' = Append(rs, w) /\ variables' = variables
  BY <1>1, <1>2, <1>4, <1>9, <1>14 DEF LookupFinish
<1>18. w \in Value
  BY <1>6, <1>14, <1>15 DEF Resolved
<1>19. Settled(s, b, def)
  BY <1>6, <1>15, <1>17 DEF Settled
<1>20. QED
  BY <1>13, <1>14, <1>16, <1>17, <1>18, <1>19

\* The representatives after the lookup on top has ended: the sentinel stands for what
\* the predecessors have found.
LEMMA FinishGrows ==
  ASSUME IInv, NEW rep, Representatives(rep), NEW s, NEW b, NEW def, Settled(s, b, def)
  PROVE  /\ \E rep2 : Grown(rep, rep2) /\ (def.ty = "alias" => rep2[s] = rep2[def.to])
         /\ Value' = Value /\ vals'[s] = def
<1> USE DEF Settled
<1>1. /\ Values' /\ AliasOrder' /\ Value' = Value
      /\ \A x \in Value : vals'[x] = IF x = s THEN def ELSE vals[x]
  BY ValuesResolved DEF IInv
<1>2. \A x \in Value : vals[x].ty = "phi" => vals'[x] = vals[x]
  BY <1>1
<1>3. CASE def.ty = "alias"
  <2>1. def.to \in Value \ {s} /\ vals[def.to].ty # "alias"
    BY <1>3 DEF Resolved
  <2>2. PICK w \in Value \ {s} : w = def.to
    BY <2>1
  <2>3. PICK rep2 : Representatives(rep2)' /\ Coarser(rep, rep2) /\ rep2[s] = rep2[w]
    BY <1>1, <1>3, <2>1, <2>2, RepAliased DEF IInv
  <2>4. QED
    BY <1>1, <1>2, <2>2, <2>3 DEF Grown, IInv
<1>4. CASE def.ty = "phi"
  <2>1. Representatives(rep)' /\ Coarser(rep, rep)
    BY <1>1, <1>4, RepPhi DEF IInv
  <2>2. QED
    BY <1>1, <1>2, <1>4, <2>1 DEF Grown, IInv
<1>5. QED
  BY <1>1, <1>3, <1>4 DEF Resolved

\* The lookup on top finds what stands for the variable at the end of each predecessor.
LEMMA FoundAgrees ==
  ASSUME IInv, NEW rep, NEW b, NEW s, NEW kept, NEW found, TopFound(b, s, kept, found),
         NEW level, Leveled(preds, level, calls), level[Len(calls)] = Len(results),
         Plan(preds, calls, results, level, Agree(rep, var))
  PROVE  /\ level[Len(calls) - 1] = kept + 1
         /\ \A m \in 1 .. Len(preds[b]) : <<found[m], preds[b][m]>> \in Agree(rep, var)
<1>1. PICK n : n = Len(calls)
  OBVIOUS
<1>2. /\ n \in Finishing /\ calls[n].call = "finish" /\ calls[n].block = b
      /\ kept \in Nat /\ kept = Len(results) - Len(preds[b]) /\ Len(results) \in Nat /\ Len(preds[b]) \in Nat
      /\ Len(found) = Len(preds[b]) /\ \A m \in 1 .. Len(found) : found[m] = results[kept + m]
  BY <1>1 DEF TopFound
<1>3. n \in Nat \ {0}
  <2>1. n \in Nat
    BY <1>1 DEF IInv, Frames
  <2>2. QED
    BY <1>1, <1>2, <2>1 DEF Finishing
<1>4. level[n - 1] = kept + 1
  <2>1. n \in 1 .. Len(calls) /\ n - 1 \in 0 .. Len(calls)
    BY <1>1, <1>3
  <2>2. level[n] = (level[n - 1] + Room(preds, calls[n])) - 1 /\ level[n - 1] \in Nat
    BY <2>1 DEF Leveled
  <2>3. Room(preds, calls[n]) = Len(preds[b])
    BY <1>2 DEF Room
  <2>4. level[n] = Len(results)
    BY <1>1
  <2>5. kept = Len(results) - Len(preds[b]) /\ Len(results) \in Nat /\ Len(preds[b]) \in Nat
    BY <1>2
  <2>6. level[n] = (level[n - 1] + Len(preds[b])) - 1
    BY <2>2, <2>3
  <2>7. QED
    BY <2>2, <2>4, <2>5, <2>6
<1>5. ASSUME NEW m \in 1 .. Len(preds[b]) PROVE <<found[m], preds[b][m]>> \in Agree(rep, var)
  <2>1. n \in FinishesIn(calls)
    BY <1>2 DEF Finishing, FinishesIn
  <2>2. Coming(preds, calls, level, n, m) \/ Come(preds, calls, results, level, Agree(rep, var), n, m)
    BY <1>2, <2>1 DEF Plan
  <2>3. ~Coming(preds, calls, level, n, m)
    <3>1. n + 1 .. Len(calls) = {}
      BY <1>1, <1>3
    <3>2. QED
      BY <3>1 DEF Coming
  <2>4. Slot(level, n, m) = kept + m
    BY <1>2, <1>4 DEF Slot
  <2>5. <<results[Slot(level, n, m)], preds[calls[n].block][m]>> \in Agree(rep, var)
    BY <2>2, <2>3 DEF Come
  <2>6. QED
    BY <1>2, <2>4, <2>5
<1>6. QED
  BY <1>1, <1>4, <1>5

\* What the lookup on top has found is an answer for its sentinel.
LEMMA FinishAnswers ==
  ASSUME IInv, phase = "build", NEW rep, NEW rep2, Grown(rep, rep2),
         NEW b, NEW s, NEW kept, NEW found, TopFound(b, s, kept, found),
         NEW def, def = finish_predecessors_lookup(s, b, found),
         vals'[s] = def, vals'[GRAVESTONE] = Inst, GRAVESTONE \in Value', variables' = variables, preds' = preds,
         UNCHANGED <<sealed, sealing, var>>, Block' = Block,
         def.ty = "alias" => rep2[s] = rep2[def.to],
         \A m \in 1 .. Len(preds[b]) : <<found[m], preds[b][m]>> \in Agree(rep, var)
  PROVE  Answered(rep2, var, b, s)'
<1>1. /\ b \in Block /\ b \in sealed' \cup {sealing'.block} /\ s \in Value /\ found \in Seq(Value)
      /\ Len(found) = Len(preds[b]) /\ Len(preds[b]) \in Nat /\ \A m \in 1 .. Len(found) : found[m] \in Value
  BY DEF TopFound
<1>2. b \in 1 .. NumBlocks /\ preds[b] \in Seq(Block)
  BY <1>1, SSABuilderAssumption DEF IInv, Graph, Block
<1>3. DOMAIN preds[b] = 1 .. Len(preds[b])
  BY <1>2
<1>4. PICK v : v = var
  OBVIOUS
<1>5. ASSUME NEW p \in ToSet(preds[b])
      PROVE  \E m \in 1 .. Len(preds[b]) : /\ p = preds[b][m] /\ variables[v][p] # None
                                           /\ rep2[found[m]] = rep2[variables[v][p]]
  <2>1. PICK m \in 1 .. Len(preds[b]) : p = preds[b][m]
    BY <1>3 DEF ToSet
  <2>2. variables[v][p] # None /\ rep[found[m]] = rep[variables[v][p]] /\ found[m] \in Value
    BY <1>1, <1>4, <2>1 DEF Agree
  <2>3. v \in Place /\ p \in 1 .. NumBlocks /\ variables[v][p] \in Value
    <3>1. v \in Place
      <4>1. calls # <<>>
        BY DEF TopFound, Finishing
      <4>2. QED
        BY <1>4, <4>1, WhenLooking
    <3>2. p \in 1 .. NumBlocks
      BY <1>2, <2>1, SSABuilderAssumption DEF IInv, Graph, Block
    <3>3. variables \in [Place -> [1 .. NumBlocks -> 0 .. Len(vals)]] /\ Len(vals) \in Nat
      BY DEF IInv, Tables, Values
    <3>4. variables[v][p] \in 0 .. Len(vals)
      BY <3>1, <3>2, <3>3
    <3>5. QED
      BY <2>2, <3>1, <3>2, <3>3, <3>4 DEF Value, None
  <2>4. rep2[found[m]] = rep2[variables[v][p]]
    BY <2>2, <2>3 DEF Grown, Coarser
  <2>5. QED
    BY <2>1, <2>2, <2>4
<1>6. \A p \in ToSet(preds'[b]) : variables'[v][p] # None
  BY <1>5
<1>7. \/ /\ def.ty = "alias" /\ \A m \in 1 .. Len(found) : found[m] \in {s, def.to}
         /\ preds[b] = <<>> => def.to = GRAVESTONE
      \/ /\ def.ty = "phi" /\ def.block = b /\ preds[b] # <<>>
         /\ \A m \in 1 .. Len(found) : def.args[preds[b][m]] = found[m]
  BY <1>1, FinishMeans DEF IInv
<1>8. CASE def.ty = "alias"
  <2>1. \A p \in ToSet(preds'[b]) : rep2[variables'[v][p]] = rep2[s]
    BY <1>1, <1>5, <1>7, <1>8
  <2>2. rep2[GRAVESTONE] = GRAVESTONE
    BY DEF Grown, Representatives, Inst
  <2>3. preds'[b] = <<>> => rep2[s] = GRAVESTONE
    BY <1>7, <1>8, <2>2
  <2>4. QED
    BY <1>1, <1>4, <1>6, <2>1, <2>3 DEF Answered, GRAVESTONE
<1>9. CASE def.ty = "phi"
  <2>1. \A p \in ToSet(preds'[b]) : rep2[vals'[s].args[p]] = rep2[variables'[v][p]]
    BY <1>1, <1>5, <1>7, <1>9
  <2>2. QED
    BY <1>1, <1>4, <1>6, <1>7, <1>9, <2>1 DEF Answered
<1>10. QED
  BY <1>7, <1>8, <1>9

\* The lookup on top of the stacks ends.
LEMMA LookupFinishReads ==
  ASSUME IInv, IInv', Build, LookupFinish, UNCHANGED builder, UNCHANGED phase
  PROVE  Build'
<1>1. /\ calls # <<>> /\ calls' = Front(calls)
      /\ UNCHANGED <<created, preds, sealed, undef_phis, var, sealing>>
      /\ UNCHANGED <<position, filled, touched, code, succs, pending, phase>>
  BY DEF LookupFinish, cfgVars, builder
<1>2. /\ phase = "build" /\ var \in Place
      /\ sealing # NotSealing => variables[var][sealing.block] # None
      /\ IF pending = NoCaller THEN sealing # NotSealing ELSE sealing = NotSealing
  BY <1>1, WhenLooking
<1>3. PICK b, s, kept, found, def, rs, w :
        /\ TopFound(b, s, kept, found)
        /\ def = finish_predecessors_lookup(s, b, found) /\ Settled(s, b, def) /\ variables' = variables
        /\ results' = Append(rs, w) /\ w = (IF def.ty = "alias" THEN def.to ELSE s) /\ w \in Value
        /\ rs \in Seq(Value) /\ Len(rs) = kept /\ \A k \in 1 .. kept : rs[k] = results[k]
  BY FinishSteps
<1>4. PICK rep : Meaning(rep) /\ Lookups
  BY <1>2 DEF Build
<1>5. Representatives(rep) /\ History(rep)
  BY <1>4 DEF Meaning
<1>6. PICK level : /\ Leveled(preds, level, calls) /\ level[Len(calls)] = Len(results)
                   /\ Plan(preds, calls, results, level, Agree(rep, var))
  BY <1>1, <1>4 DEF Meaning, Scheduled
<1>7. s \in Value /\ vals[s].ty = "invalid" /\ b \in Block /\ b \in sealed \cup {sealing.block}
  BY <1>3 DEF TopFound
<1>8. PICK rep2 : Grown(rep, rep2) /\ (def.ty = "alias" => rep2[s] = rep2[def.to])
  BY <1>3, <1>5, FinishGrows
<1>9. /\ level[Len(calls) - 1] = kept + 1
      /\ \A m \in 1 .. Len(preds[b]) : <<found[m], preds[b][m]>> \in Agree(rep, var)
  BY <1>3, <1>6, FoundAgrees
<1>10. /\ Block \subseteq 1 .. NumBlocks /\ Block' = Block
       /\ variables \in [Place -> [1 .. NumBlocks -> 0 .. Len(vals)]] /\ Len(vals) \in Nat
  <2>1. created \in 2 .. NumBlocks /\ NumBlocks \in Nat
    BY SSABuilderAssumption DEF IInv, Graph
  <2>2. Block \subseteq 1 .. NumBlocks /\ Block' = Block
    BY <1>1, <2>1 DEF Block
  <2>3. QED
    BY <2>2 DEF IInv, Tables, Values
<1>11. vals'[s] = def /\ vals'[GRAVESTONE] = Inst /\ GRAVESTONE \in Value' /\ Value' = Value
  <2>1. Value' = Value /\ vals'[s] = def
    BY <1>3, <1>5, FinishGrows
  <2>2. Values'
    BY DEF IInv
  <2>3. QED
    BY <2>1, <2>2 DEF Values, GRAVESTONE, Inst
<1>12. Answered(rep2, var, b, s)'
  BY <1>1, <1>2, <1>3, <1>8, <1>9, <1>10, <1>11, FinishAnswers
<1>13. PICK n : n = Len(calls)
  OBVIOUS
<1>14. /\ n \in Nat \ {0} /\ calls' \in Seq(Call) /\ Len(calls') = n - 1
       /\ \A k \in 1 .. n - 1 : calls'[k] = calls[k]
       /\ calls[n].block = b /\ calls[n].sentinel = s /\ n \in Finishing
  <2>1. /\ n \in Nat \ {0} /\ calls' \in Seq(Call) /\ Len(calls') = n - 1
        /\ \A k \in 1 .. n - 1 : calls'[k] = calls[k]
    BY <1>1, <1>13, BelowTop
  <2>2. QED
    BY <1>3, <1>13, <2>1 DEF TopFound
<1>15. Finishing' = Finishing \ {n} /\ \A i \in Finishing' : calls'[i] = calls[i]
  <2>1. \A i : i \in 1 .. n - 1 <=> i \in 1 .. n /\ i # n
    BY <1>14
  <2>2. Finishing' = {i \in 1 .. n - 1 : calls[i].call = "finish"}
    BY <1>14 DEF Finishing
  <2>3. Finishing = {i \in 1 .. n : calls[i].call = "finish"}
    BY <1>13 DEF Finishing
  <2>4. QED
    BY <1>14, <2>1, <2>2, <2>3
<1>16. \A v, c, y : Asked(v, c, y)' => Asked(v, c, y)
  BY <1>1, <1>15 DEF Asked
<1>17. \A v, c, y : Asked(v, c, y) => Asked(v, c, y)' \/ (v = var /\ c = b)
  BY <1>1, <1>14, <1>15 DEF Asked
<1>18. Asked(var, b, s)
  BY <1>14 DEF Asked
<1>19. PICK v : v = var
  OBVIOUS
<1>20. History(rep2)'
  <2> SUFFICES ASSUME NEW u \in Place, NEW c \in 1 .. NumBlocks
               PROVE  \E d : Track(rep2, d, u, c)' /\ Origin(rep2, d[1], u, c)'
    BY DEF History
  <2>1. PICK d : Track(rep, d, u, c) /\ Origin(rep, d[1], u, c)
    BY <1>5 DEF History
  <2>2. CASE u = v /\ c = b
    <3>1. Track(rep2, d, u, c)'
      BY <1>1, <1>3, <1>8, <2>1, TrackKept DEF IInv
    <3>2. d[1] = s
      BY <1>18, <1>19, <2>1, <2>2 DEF Origin
    <3>3. \A y : Asked(u, c, y)' => d[1] = y
      BY <1>16, <2>1 DEF Origin
    <3>4. Answered(rep2, u, c, d[1])'
      BY <1>1, <1>12, <1>19, <2>2, <3>2 DEF Answered
    <3>5. QED
      BY <3>1, <3>3, <3>4 DEF Origin
  <2>3. CASE ~(u = v /\ c = b)
    <3>1. \A y : Asked(u, c, y)' <=> Asked(u, c, y)
      BY <1>16, <1>17, <1>19, <2>3
    <3>2. Undisturbed(u, c)
      BY <1>1, <1>3, <3>1 DEF Undisturbed
    <3>3. variables'[u][c] = variables[u][c] /\ code'[c] = code[c]
      BY <1>1, <1>3
    <3>4. QED
      BY <1>2, <1>8, <2>1, <3>2, <3>3, LineKept
  <2>4. QED
    BY <2>2, <2>3
<1>21. Lookups'
  <2>1. \A u : Mentioned(u) => Mentioned(u)'
    BY <1>1, <1>10 DEF Mentioned, Mentions
  <2>2. /\ Entry \in sealed' /\ preds'[Entry] = <<>>
    BY <1>1, <1>4 DEF Lookups
  <2>3. \A u \in Place : \A c \in 1 .. NumBlocks : variables'[u][c] # None => Mentioned(u)'
    BY <1>3, <1>4, <2>1 DEF Lookups
  <2>4. pending' # NoCaller => /\ pending'.op # "write" /\ var' = Source(pending')
                               /\ variables'[var'][position'] # None /\ position' \notin filled'
    BY <1>1, <1>3, <1>4 DEF Lookups, Source
  <2>5. calls' # <<>> => calls'[1] = calls[1]
    <3>1. calls' # <<>> => 1 \in 1 .. n - 1
      BY <1>14
    <3>2. QED
      BY <1>14, <3>1
  <2>6. \A i \in Finishing' : i > 1 \/ pending' # NoCaller => variables'[var'][calls'[i].block] = calls'[i].sentinel
    BY <1>1, <1>3, <1>4, <1>15 DEF Lookups
  <2>7. pending' # NoCaller /\ calls' # <<>> => calls'[1].block = position'
    BY <1>1, <1>4, <2>5 DEF Lookups
  <2>8. QED
    BY <2>2, <2>3, <2>4, <2>6, <2>7 DEF Lookups, Entry, None, Source, NoCaller
<1>22. Scheduled(rep2)' /\ Found(rep2)'
  <2>1. CASE pending = NoCaller /\ n = 1
    <3>1. calls' = <<>>
      BY <1>14, <2>1
    <3>2. QED
      BY <1>1, <2>1, <3>1 DEF Scheduled, Found, NoCaller
  <2>2. CASE ~(pending = NoCaller /\ n = 1)
    <3>1. variables[v][b] = s
      BY <1>4, <1>14, <1>19, <2>2 DEF Lookups
    <3>2. rep2[w] = rep2[s]
      BY <1>3, <1>8
    <3>3. <<w, b>> \in Agree(rep2, var)'
      <4>1. variables'[var'][b] = s /\ s # None
        BY <1>1, <1>3, <1>7, <1>10, <1>19, <3>1 DEF Value, None
      <4>2. w \in Value' /\ b \in Block'
        BY <1>3, <1>7, <1>10, <1>11
      <4>3. QED
        BY <3>2, <4>1, <4>2 DEF Agree, None
    <3>4. Agree(rep, var) \subseteq Agree(rep2, var)'
      <4>1. Agree(rep, v) \subseteq Agree(rep2, v)'
        BY <1>2, <1>3, <1>8, <1>10, <1>19, AgreeGrows
      <4>2. Agree(rep2, var)' = Agree(rep2, v)'
        BY <1>1, <1>19 DEF Agree
      <4>3. QED
        BY <1>19, <4>1, <4>2
    <3>5. Returns(calls, calls', results, results', level, Agree(rep, var), Agree(rep2, var)')
      <4>1. /\ Len(results') = kept + 1 /\ results'[kept + 1] = w
            /\ \A q \in 1 .. kept : results'[q] = results[q]
        <5>1. /\ Len(results') = Len(rs) + 1 /\ \A q \in 1 .. Len(rs) : results'[q] = rs[q]
              /\ results'[Len(rs) + 1] = w
          BY <1>3, AppendProperties
        <5>2. QED
          BY <1>3, <5>1
      <4>2. kept \in Nat /\ (kept + 1) - 1 = kept /\ Len(results) \in Nat
        BY <1>3 DEF TopFound
      <4>3. <<results'[Len(results')], calls[n].block>> \in Agree(rep2, var)'
        BY <1>14, <3>3, <4>1
      <4>4. QED
        BY <1>9, <1>13, <1>14, <3>4, <4>1, <4>2, <4>3 DEF Returns
    <3>6. pending' # NoCaller => calls[1].block = position'
      BY <1>1, <1>4 DEF Lookups
    <3>7. QED
      BY <1>1, <1>6, <1>14, <3>5, <3>6, ReturnSchedule
  <2>3. QED
    BY <2>1, <2>2
<1>23. QED
  BY <1>8, <1>20, <1>21, <1>22 DEF Build, Meaning, Grown

-----------------------------------------------------------------------------
(* Every step of the builder keeps what it knows.                          *)

\* In the first state no variable is known anywhere.
LEMMA InitReads ==
  ASSUME BuilderInit
  PROVE  Build
<1> USE SSABuilderAssumption DEF BuilderInit, SSAInit
<1>1. Len(vals) = 1 /\ Value = {1} /\ vals[1] = Inst
  BY DEF Value
<1>2. PICK rep : rep = [x \in {1} |-> 1]
  OBVIOUS
<1>3. Representatives(rep)
  BY <1>1, <1>2 DEF Representatives, Inst
<1>4. Len(calls) = 0 /\ Finishing = {} /\ Len(sealing.todo) = 0
  BY DEF Finishing, NotSealing
<1>5. History(rep)
  <2> SUFFICES ASSUME NEW v \in Place, NEW b \in 1 .. NumBlocks
               PROVE  \E d : Track(rep, d, v, b) /\ Origin(rep, d[1], v, b)
    BY DEF History
  <2>1. PICK d : d = [k \in 1 .. 1 |-> None]
    OBVIOUS
  <2>2. Len(code[b]) = 0 /\ Len(undef_phis[b]) = 0 /\ variables[v][b] = None /\ d[1] = None
    BY <2>1
  <2>3. Track(rep, d, v, b)
    BY <1>1, <2>1, <2>2 DEF Track, None
  <2>4. \A y : ~Asked(v, b, y)
    BY <1>4, <2>2 DEF Asked
  <2>5. Origin(rep, d[1], v, b)
    BY <2>2, <2>4 DEF Origin
  <2>6. QED
    BY <2>3, <2>5
<1>6. Scheduled(rep) /\ Found(rep)
  BY DEF Scheduled, Found
<1>7. Lookups
  <2>1. Entry \in sealed /\ preds[Entry] = <<>>
    BY DEF Entry
  <2>2. QED
    BY <1>4, <2>1 DEF Lookups
<1>8. QED
  BY <1>3, <1>5, <1>6, <1>7 DEF Build, Meaning

\* A step that changes nothing that the builder knows.
LEMMA UnchangedReads ==
  ASSUME IInv, Build, UNCHANGED ssaVars, UNCHANGED builder, UNCHANGED phase
  PROVE  Build'
<1> USE DEF ssaVars, cfgVars, machine, builder
<1>1. Block' = Block /\ Value' = Value /\ Finishing' = Finishing
  BY DEF Block, Value, Finishing
<1>2. SUFFICES ASSUME phase = "build" PROVE Build'
  BY DEF Build
<1>3. PICK rep : Meaning(rep) /\ Lookups
  BY <1>2 DEF Build
<1>4. Representatives(rep) /\ History(rep)
  BY <1>3 DEF Meaning
<1>5. Grown(rep, rep)
  BY <1>4, GrownKept DEF IInv
<1>6. \A v \in Place : \A b \in 1 .. NumBlocks : Undisturbed(v, b)
  BY UndisturbedSame
<1>7. History(rep)'
  BY <1>2, <1>4, <1>5, <1>6, HistoryKept
<1>9. Scheduled(rep)' /\ Found(rep)'
  <2>1. Agree(rep, var)' = Agree(rep, var)
    BY <1>1 DEF Agree
  <2>2. QED
    BY <1>3, <2>1 DEF Meaning, Scheduled, Found
<1>10. Lookups'
  <2>1. \A v : Mentioned(v) => Mentioned(v)'
    BY <1>1 DEF Mentioned, Mentions
  <2>2. QED
    BY <1>1, <1>3, <2>1 DEF Lookups, Source
<1>11. QED
  BY <1>5, <1>7, <1>9, <1>10 DEF Build, Meaning, Grown

\* Build is kept by every step.
LEMMA BuildKept ==
  ASSUME IInv, IInv', Build, [Next]_vars
  PROVE  Build'
<1>1. CASE CreateFirst \/ Switch
  BY <1>1, MoveReads
<1>2. CASE Insert
  BY <1>2, InsertsReads
<1>3. CASE Initialise
  BY <1>3, DefVarAtEntryReads DEF Initialise
<1>4. CASE TakeResult
  BY <1>4, TakeReads
<1>5. CASE Terminate
  BY <1>5, TerminateReads
<1>6. CASE SealAny
  BY <1>6, SealReads
<1>7. CASE RunMachine
  BY <1>7, LookupUseReads, LookupFinishReads, SealNextReads, SealEndReads DEF RunMachine, Machine
<1>8. CASE Finish
  BY <1>8 DEF Finish, finalize, Build
<1>9. CASE Running
  BY <1>9 DEF Running, RunInst, RunJump, Build
<1>10. CASE UNCHANGED vars
  BY <1>10, UnchangedReads DEF vars
<1>11. QED
  BY <1>1, <1>2, <1>3, <1>4, <1>5, <1>6, <1>7, <1>8, <1>9, <1>10 DEF Next

-----------------------------------------------------------------------------
(* Every write has a value of its own.                                     *)

\* Where the k-th instruction of b is after one has been put at place pos of block host.
Moved(host, pos, b, k) == IF b = host /\ k > pos THEN k - 1 ELSE k

\* The code with one more instruction: the k-th of b is the new one, or an old one.
OneMore(host, pos) ==
  /\ \A b \in 1 .. NumBlocks : \A k \in 1 .. Len(code'[b]) :
       ~(b = host /\ k = pos) => /\ Moved(host, pos, b, k) \in 1 .. Len(code[b])
                               /\ code'[b][k] = code[b][Moved(host, pos, b, k)]
  /\ host \in 1 .. NumBlocks /\ pos \in Nat
  /\ \A x \in Value : vals[x].ty = "inst" => vals'[x].ty = "inst"
  /\ code'[host][pos].op = "write" =>
       /\ vals'[code'[host][pos].val].ty = "inst" /\ code'[host][pos].val \notin Value

\* A write that is added has a new value.
LEMMA WritesAdded ==
  ASSUME IInv, Writes, NEW host, NEW pos, OneMore(host, pos)
  PROVE  Writes'
<1>1. \A b \in 1 .. NumBlocks : \A k \in 1 .. Len(code[b]) : code[b][k].val \in Value
  BY DEF IInv, Tables
<1>2. GRAVESTONE \in Value
  BY DEF IInv, Values
<1>3. ASSUME NEW b \in 1 .. NumBlocks, NEW k \in 1 .. Len(code'[b]), code'[b][k].op = "write", ~(b = host /\ k = pos)
      PROVE  /\ Moved(host, pos, b, k) \in 1 .. Len(code[b]) /\ code'[b][k] = code[b][Moved(host, pos, b, k)]
             /\ code'[b][k].val \in Value /\ vals'[code'[b][k].val].ty = "inst" /\ code'[b][k].val # GRAVESTONE
  <2>1. PICK o \in 1 .. Len(code[b]) : o = Moved(host, pos, b, k) /\ code'[b][k] = code[b][o]
    BY <1>3 DEF OneMore
  <2>2. code[b][o].op = "write" /\ code[b][o].val \in Value
    BY <1>1, <1>3, <2>1
  <2>3. vals[code[b][o].val].ty = "inst" /\ code[b][o].val # GRAVESTONE
    BY <2>2 DEF Writes
  <2>4. QED
    BY <2>1, <2>2, <2>3 DEF OneMore
<1>4. ASSUME NEW b \in 1 .. NumBlocks, NEW k \in 1 .. Len(code'[b]), code'[b][k].op = "write"
      PROVE  vals'[code'[b][k].val].ty = "inst" /\ code'[b][k].val # GRAVESTONE
  <2>1. CASE b = host /\ k = pos
    BY <1>2, <1>4, <2>1 DEF OneMore
  <2>2. CASE ~(b = host /\ k = pos)
    BY <1>3, <1>4, <2>2
  <2>3. QED
    BY <2>1, <2>2
<1>5. ASSUME NEW b \in 1 .. NumBlocks, NEW c \in 1 .. NumBlocks,
             NEW k \in 1 .. Len(code'[b]), NEW l \in 1 .. Len(code'[c]),
             code'[b][k].op = "write", code'[c][l].op = "write", code'[b][k].val = code'[c][l].val
      PROVE  b = c /\ k = l
  <2>1. CASE b = host /\ k = pos
    <3>1. code'[b][k].val \notin Value
      BY <1>5, <2>1 DEF OneMore
    <3>2. QED
      BY <1>3, <1>5, <2>1, <3>1
  <2>2. CASE c = host /\ l = pos
    <3>1. code'[c][l].val \notin Value
      BY <1>5, <2>2 DEF OneMore
    <3>2. QED
      BY <1>3, <1>5, <2>2, <3>1
  <2>3. CASE ~(b = host /\ k = pos) /\ ~(c = host /\ l = pos)
    <3>1. PICK o \in 1 .. Len(code[b]) : o = Moved(host, pos, b, k) /\ code'[b][k] = code[b][o]
      BY <1>3, <1>5, <2>3
    <3>2. PICK p \in 1 .. Len(code[c]) : p = Moved(host, pos, c, l) /\ code'[c][l] = code[c][p]
      BY <1>3, <1>5, <2>3
    <3>3. b = c /\ o = p
      BY <1>5, <3>1, <3>2 DEF Writes
    <3>4. k \in Int /\ l \in Int /\ pos \in Int
      BY DEF OneMore
    <3>5. k = l
      BY <2>3, <3>1, <3>2, <3>3, <3>4 DEF Moved
    <3>6. QED
      BY <3>3, <3>5
  <2>4. QED
    BY <2>1, <2>2, <2>3
<1>6. \A b \in 1 .. NumBlocks : \A k \in 1 .. Len(code'[b]) :
        code'[b][k].op = "write" => vals'[code'[b][k].val].ty = "inst" /\ code'[b][k].val # GRAVESTONE
  BY <1>4
<1>7. \A b, c \in 1 .. NumBlocks : \A k \in 1 .. Len(code'[b]), l \in 1 .. Len(code'[c]) :
        code'[b][k].op = "write" /\ code'[c][l].op = "write" /\ code'[b][k].val = code'[c][l].val => b = c /\ k = l
  BY <1>5
<1>8. QED
  BY <1>6, <1>7 DEF Writes, GRAVESTONE

\* A step that leaves the code and the values of instructions.
LEMMA WritesKept ==
  ASSUME IInv, Writes, code' = code, \A x \in Value : vals[x].ty = "inst" => vals'[x].ty = "inst"
  PROVE  Writes'
<1>1. \A b \in 1 .. NumBlocks : \A k \in 1 .. Len(code[b]) : code[b][k].val \in Value
  BY DEF IInv, Tables
<1>2. QED
  BY <1>1 DEF Writes, GRAVESTONE

\* An instruction at the end of its block, or at its start.
LEMMA CodeAdded ==
  ASSUME code \in [1 .. NumBlocks -> Seq(Operation)], NEW b \in 1 .. NumBlocks, NEW c \in Operation,
         \/ code' = [code EXCEPT ![b] = Append(@, c)]
         \/ code' = [code EXCEPT ![b] = <<c>> \o @],
         \A x \in Value : vals[x].ty = "inst" => vals'[x].ty = "inst",
         c.op = "write" => vals'[c.val].ty = "inst" /\ c.val \notin Value
  PROVE  \E pos : OneMore(b, pos)
<1>1. PICK s, n : s = code[b] /\ n = Len(s)
  OBVIOUS
<1>2. s \in Seq(Operation) /\ n \in Nat /\ \A d \in 1 .. NumBlocks : Len(code[d]) \in Nat
  BY <1>1
<1>3. \A d \in 1 .. NumBlocks : d # b => code'[d] = code[d]
  OBVIOUS
<1>4. CASE code' = [code EXCEPT ![b] = Append(@, c)]
  <2>1. code'[b] = Append(s, c)
    BY <1>1, <1>4
  <2>2. /\ Len(code'[b]) = n + 1 /\ code'[b][n + 1] = c
        /\ \A k \in 1 .. n : code'[b][k] = s[k]
    BY <1>1, <1>2, <2>1, AppendProperties
  <2>3. ASSUME NEW d \in 1 .. NumBlocks, NEW k \in 1 .. Len(code'[d]), ~(d = b /\ k = n + 1)
        PROVE  Moved(b, n + 1, d, k) \in 1 .. Len(code[d]) /\ code'[d][k] = code[d][Moved(b, n + 1, d, k)]
    <3>1. CASE d = b
      <4>1. k \in 1 .. n /\ ~(k > n + 1)
        BY <1>2, <2>2, <2>3, <3>1
      <4>2. QED
        BY <1>1, <2>2, <3>1, <4>1 DEF Moved
    <3>2. CASE d # b
      BY <1>3, <3>2 DEF Moved
    <3>3. QED
      BY <3>1, <3>2
  <2>4. OneMore(b, n + 1)
    <3>1. n + 1 \in Nat
      BY <1>2
    <3>2. QED
      BY <2>2, <2>3, <3>1 DEF OneMore
  <2>5. QED
    BY <2>4
<1>5. CASE code' = [code EXCEPT ![b] = <<c>> \o @]
  <2>1. PICK one : one = <<c>>
    OBVIOUS
  <2>2. one \in Seq(Operation) /\ Len(one) = 1 /\ one[1] = c /\ code'[b] = one \o s
    BY <1>1, <1>5, <2>1
  <2>3. /\ Len(code'[b]) = 1 + n
        /\ \A k \in 1 .. 1 + n : code'[b][k] = IF k <= 1 THEN one[k] ELSE s[k - 1]
    <3>1. /\ Len(one \o s) = Len(one) + Len(s)
          /\ \A k \in 1 .. Len(one) + Len(s) : (one \o s)[k] = IF k <= Len(one) THEN one[k] ELSE s[k - Len(one)]
      <4>1. one \in Seq(Operation) /\ s \in Seq(Operation)
        BY <1>2, <2>2
      <4>2. QED
        BY <4>1, ConcatProperties, SMTT(30)
    <3>2. QED
      BY <1>1, <2>2, <3>1
  <2>4. code'[b][1] = c
    BY <1>2, <2>2, <2>3, SMTT(30)
  <2>5. ASSUME NEW d \in 1 .. NumBlocks, NEW k \in 1 .. Len(code'[d]), ~(d = b /\ k = 1)
        PROVE  Moved(b, 1, d, k) \in 1 .. Len(code[d]) /\ code'[d][k] = code[d][Moved(b, 1, d, k)]
    <3>1. CASE d = b
      <4>1. k \in 1 .. 1 + n /\ k > 1 /\ ~(k <= 1) /\ k - 1 \in 1 .. n
        BY <1>2, <2>3, <2>5, <3>1
      <4>2. QED
        BY <1>1, <2>3, <3>1, <4>1 DEF Moved
    <3>2. CASE d # b
      BY <1>3, <3>2 DEF Moved
    <3>3. QED
      BY <3>1, <3>2
  <2>6. OneMore(b, 1)
    BY <2>4, <2>5 DEF OneMore
  <2>7. QED
    BY <2>6
<1>6. QED
  BY <1>4, <1>5

\* A lookup does not touch the values of instructions.
LEMMA InstKept ==
  ASSUME IInv, vals' = vals \/ vals' = Append(vals, Invalid)
  PROVE  \A x \in Value : vals[x].ty = "inst" => vals'[x].ty = "inst"
<1>1. CASE vals' = Append(vals, Invalid)
  <2>1. Appended(Invalid)
    BY <1>1, ValueAppended DEF IInv
  <2>2. QED
    BY <2>1 DEF Appended
<1>2. QED
  BY <1>1

\* finalize writes the values at the ends of the aliases.
LEMMA FinishFacts ==
  ASSUME IInv, Finish, NEW rep, Representatives(rep)
  PROVE  /\ phase = "build" /\ phase' = "run" /\ Value' = Value /\ Len(vals') = Len(vals)
         /\ \A x \in Value : vals[x].ty # "phi" => vals'[x] = vals[x]
         /\ \A x \in Value : vals[x].ty = "phi" =>
              /\ vals'[x].ty = "phi" /\ vals'[x].block = vals[x].block
              /\ \A p \in DOMAIN vals[x].args : vals'[x].args[p] = rep[vals[x].args[p]]
         /\ \A b \in 1 .. NumBlocks :
              /\ Len(code'[b]) = Len(code[b])
              /\ \A k \in 1 .. Len(code[b]) :
                   /\ code'[b][k].op = code[b][k].op /\ code'[b][k].place = code[b][k].place
                   /\ code[b][k].op = "copy" => code'[b][k].from = code[b][k].from
                   /\ code'[b][k].val = rep[code[b][k].val]
<1>1. /\ Building /\ phase' = "run"
      /\ code' = [b \in DOMAIN code |-> [k \in 1 .. Len(code[b]) |->
                    [code[b][k] EXCEPT !.val = resolve_alias(@)]]]
      /\ vals' = [v \in 1 .. Len(vals) |->
                    IF vals[v].ty = "phi"
                    THEN [vals[v] EXCEPT !.args = [p \in DOMAIN @ |-> resolve_alias(@[p])]]
                    ELSE vals[v]]
  BY DEF Finish, finalize, strip_alias
<1>2. vals \in Seq(Definition) /\ Len(vals) \in Nat /\ Value = 1 .. Len(vals)
  <2>1. vals \in Seq(Definition) /\ Value = 1 .. Len(vals)
    BY DEF IInv, Values, Value
  <2>2. QED
    BY <2>1
<1>3. phase = "build"
  BY <1>1 DEF Building
<1>4. \A x \in Value : resolve_alias(x) = rep[x] /\ rep[x] \in Value
  BY ResolveIsRep DEF IInv, Representatives
<1>5. \A x \in Value : vals[x].ty # "phi" => vals'[x] = vals[x]
  BY <1>1, <1>2
<1>6. ASSUME NEW x \in Value, vals[x].ty = "phi"
      PROVE  /\ vals'[x].ty = "phi" /\ vals'[x].block = vals[x].block
             /\ \A p \in DOMAIN vals[x].args : vals'[x].args[p] = rep[vals[x].args[p]]
  <2>1. PICK D \in SUBSET Nat : vals[x] \in [ty : {"phi"}, block : Nat, args : [D -> Nat]]
    BY <1>6, Forms DEF IInv
  <2>2. vals'[x] = [vals[x] EXCEPT !.args = [p \in DOMAIN vals[x].args |-> resolve_alias(vals[x].args[p])]]
    BY <1>1, <1>2, <1>6
  <2>3. PICK g : g = [p \in DOMAIN vals[x].args |-> resolve_alias(vals[x].args[p])]
    OBVIOUS
  <2>4. DOMAIN vals[x].args = D
    BY <2>1
  <2>5. \A p \in D : vals[x].args[p] \in Value
    BY <1>6, <2>4 DEF IInv, Phis
  <2>6. \A p \in D : g[p] = rep[vals[x].args[p]]
    BY <1>4, <2>3, <2>4, <2>5
  <2>7. vals'[x] = [vals[x] EXCEPT !.args = g]
    BY <2>2, <2>3
  <2>8. vals'[x].ty = "phi" /\ vals'[x].block = vals[x].block /\ vals'[x].args = g
    BY <2>1, <2>7
  <2>9. QED
    BY <2>4, <2>6, <2>8
<1>7. vals' = [x \in 1 .. Len(vals) |-> vals'[x]]
  BY <1>1
<1>8. Value' = Value /\ Len(vals') = Len(vals)
  <2>1. ASSUME NEW x \in 1 .. Len(vals) PROVE vals'[x] \in Definition
    <3>1. IInv' => vals' \in Seq(Definition)
      BY DEF IInv, Values
    <3>2. vals' \in Seq(Definition)
      BY <3>1, FinishInvariant
    <3>3. DOMAIN vals' = 1 .. Len(vals') /\ DOMAIN vals' = 1 .. Len(vals)
      BY <1>7, <3>2
    <3>4. QED
      BY <3>2, <3>3
  <2>2. vals' \in [1 .. Len(vals) -> Definition]
    BY <1>7, <2>1
  <2>3. Len(vals') = Len(vals)
    BY <1>2, <2>2
  <2>4. QED
    BY <2>3 DEF Value
<1>9. ASSUME NEW b \in 1 .. NumBlocks
      PROVE  /\ Len(code'[b]) = Len(code[b])
             /\ \A k \in 1 .. Len(code[b]) :
                  /\ code'[b][k].op = code[b][k].op /\ code'[b][k].place = code[b][k].place
                  /\ code[b][k].op = "copy" => code'[b][k].from = code[b][k].from
                  /\ code'[b][k].val = rep[code[b][k].val]
  <2>1. /\ code[b] \in Seq(Operation) /\ Len(code[b]) \in Nat /\ b \in DOMAIN code
        /\ \A k \in 1 .. Len(code[b]) : code[b][k] \in Operation /\ code[b][k].val \in Value
    BY DEF IInv, Tables
  <2>2. code'[b] = [k \in 1 .. Len(code[b]) |-> [code[b][k] EXCEPT !.val = resolve_alias(code[b][k].val)]]
    BY <1>1, <2>1
  <2>3. Len(code'[b]) = Len(code[b])
    <3>1. IInv' => code'[b] \in Seq(Operation)
      BY DEF IInv, Tables
    <3>2. code'[b] \in Seq(Operation)
      BY <3>1, FinishInvariant
    <3>3. DOMAIN code'[b] = 1 .. Len(code'[b]) /\ DOMAIN code'[b] = 1 .. Len(code[b]) /\ Len(code'[b]) \in Nat
      BY <2>2, <3>2
    <3>4. QED
      BY <2>1, <3>3
  <2>4. ASSUME NEW k \in 1 .. Len(code[b])
        PROVE  /\ code'[b][k].op = code[b][k].op /\ code'[b][k].place = code[b][k].place
               /\ code[b][k].op = "copy" => code'[b][k].from = code[b][k].from
               /\ code'[b][k].val = rep[code[b][k].val]
    <3>1. PICK y : y = rep[code[b][k].val]
      OBVIOUS
    <3>2. code'[b][k] = [code[b][k] EXCEPT !.val = y]
      BY <1>4, <2>1, <2>2, <3>1
    <3>3. CASE code[b][k] \in [op : {"write", "read"}, place : Place, val : Nat]
      BY <3>1, <3>2, <3>3
    <3>4. CASE code[b][k] \in [op : {"copy"}, place : Place, from : Place, val : Nat]
      BY <3>1, <3>2, <3>4
    <3>5. QED
      BY <2>1, <3>3, <3>4 DEF Operation
  <2>5. QED
    BY <2>3, <2>4
<1>10. QED
  BY <1>1, <1>3, <1>5, <1>6, <1>8, <1>9

\* finalize leaves a write its value, which is not an alias.
LEMMA FinishWrites ==
  ASSUME IInv, Build, Writes, Finish
  PROVE  Writes'
<1>1. PICK rep : Representatives(rep)
  <2>1. phase = "build"
    BY DEF Finish, finalize, Building
  <2>2. QED
    BY <2>1 DEF Build, Meaning
<1>2. /\ \A x \in Value : vals[x].ty # "phi" => vals'[x] = vals[x]
      /\ \A b \in 1 .. NumBlocks :
           /\ Len(code'[b]) = Len(code[b])
           /\ \A k \in 1 .. Len(code[b]) :
                code'[b][k].op = code[b][k].op /\ code'[b][k].val = rep[code[b][k].val]
  BY <1>1, FinishFacts
<1>3. \A b \in 1 .. NumBlocks : \A k \in 1 .. Len(code[b]) : code[b][k].val \in Value
  BY DEF IInv, Tables
<1>4. ASSUME NEW b \in 1 .. NumBlocks, NEW k \in 1 .. Len(code[b]), code'[b][k].op = "write"
      PROVE  /\ code[b][k].op = "write" /\ code'[b][k].val = code[b][k].val
             /\ vals'[code'[b][k].val].ty = "inst" /\ code'[b][k].val # GRAVESTONE
  <2>1. code[b][k].op = "write" /\ code[b][k].val \in Value
    BY <1>2, <1>3, <1>4
  <2>2. vals[code[b][k].val].ty = "inst" /\ code[b][k].val # GRAVESTONE
    BY <2>1 DEF Writes
  <2>3. code'[b][k].val = code[b][k].val
    BY <1>1, <1>2, <2>1, <2>2 DEF Representatives
  <2>4. QED
    BY <1>2, <2>1, <2>2, <2>3
<1>5. QED
  BY <1>2, <1>4 DEF Writes, GRAVESTONE

\* Every step keeps the values of the writes apart.
LEMMA WritesHold ==
  ASSUME IInv, Build, Writes, [Next]_vars
  PROVE  Writes'
<1>1. code \in [1 .. NumBlocks -> Seq(Operation)] /\ Entry \in 1 .. NumBlocks /\ position \in 1 .. NumBlocks
  BY SSABuilderAssumption DEF IInv, Tables, Graph, Block, Entry
<1>2. ASSUME NEW v \in Place, NEW b \in 1 .. NumBlocks, vals' = Append(vals, Inst),
             \/ code' = [code EXCEPT ![b] = Append(@, Write(v, Len(vals) + 1))]
             \/ code' = [code EXCEPT ![b] = <<Write(v, Len(vals) + 1)>> \o @]
      PROVE  Writes'
  <2>1. PICK c : c = Write(v, Len(vals) + 1)
    OBVIOUS
  <2>2. Appended(Inst)
    BY <1>2, ValueAppended DEF IInv
  <2>3. /\ \A x \in Value : vals[x].ty = "inst" => vals'[x].ty = "inst"
        /\ vals'[Len(vals) + 1].ty = "inst" /\ Len(vals) + 1 \notin Value /\ Len(vals) + 1 \in Nat
    BY <2>2 DEF Appended, Inst
  <2>4. c \in Operation /\ c.val = Len(vals) + 1
    BY <2>1, <2>3 DEF Write, Operation
  <2>5. \E pos : OneMore(b, pos)
    BY <1>1, <1>2, <2>1, <2>3, <2>4, CodeAdded
  <2>6. QED
    BY <2>5, WritesAdded
<1>3. CASE CreateFirst \/ Terminate \/ Switch \/ SealAny \/ Running \/ UNCHANGED vars
  <2>1. code' = code /\ vals' = vals
    BY <1>3 DEF CreateFirst, create_blocks, Terminate, insert_terminator, Switch, switch_to_block, SealAny, Seal,
                seal_block, Running, RunInst, RunJump, vars, ssaVars, builder
  <2>2. QED
    BY <2>1, WritesKept
<1>4. CASE Insert
  <2>1. ASSUME NEW v \in Place, def_var(v) PROVE Writes'
    BY <1>1, <1>2, <2>1 DEF def_var
  <2>2. ASSUME NEW v \in Place, use_var(v, position), code' = code PROVE Writes'
    <3>1. vals' = vals \/ vals' = Append(vals, Invalid)
      BY <2>2 DEF use_var, use_var_nonlocal
    <3>2. QED
      BY <2>2, <3>1, InstKept, WritesKept
  <2>3. QED
    BY <1>4, <2>1, <2>2 DEF Insert, StartRead, StartCopy
<1>5. CASE Initialise
  BY <1>1, <1>2, <1>5 DEF Initialise, def_var_at_entry
<1>6. CASE TakeResult
  <2>1. /\ pending # NoCaller /\ Len(results) = 1 /\ vals' = vals
        /\ code' = [code EXCEPT ![position] = Append(@, [pending EXCEPT !.val = results[1]])]
    BY <1>6 DEF TakeResult, Returned
  <2>2. PICK c : c = [pending EXCEPT !.val = results[1]]
    OBVIOUS
  <2>3. results[1] \in Nat
    <3>1. results \in Seq(Value)
      BY DEF IInv, Stack
    <3>2. results[1] \in Value
      BY <2>1, <3>1
    <3>3. QED
      BY <3>2 DEF Value
  <2>4. pending \in Operation /\ phase = "build"
    BY <2>1 DEF IInv, Tables, Stages
  <2>5. c \in Operation /\ c.op = pending.op
    BY <2>2, <2>3, <2>4 DEF Operation
  <2>6. pending.op # "write"
    BY <2>1, <2>4 DEF Build, Lookups
  <2>7. \E pos : OneMore(position, pos)
    BY <1>1, <2>1, <2>2, <2>5, <2>6, CodeAdded
  <2>8. QED
    BY <2>7, WritesAdded
<1>7. CASE RunMachine
  <2>1. code' = code
    BY <1>7 DEF RunMachine, builder
  <2>2. CASE LookupUse
    <3>1. vals' = vals \/ vals' = Append(vals, Invalid)
      BY <2>2 DEF LookupUse, use_var_nonlocal
    <3>2. QED
      BY <2>1, <3>1, InstKept, WritesKept
  <2>3. CASE LookupFinish
    <3>1. PICK s, b, def : Settled(s, b, def)
      BY <2>3, FinishSteps
    <3>2. \A x \in Value : x # s => vals'[x] = vals[x]
      BY <3>1 DEF Settled, IInv, Values
    <3>3. vals[s].ty = "invalid"
      BY <3>1 DEF Settled
    <3>4. \A x \in Value : vals[x].ty = "inst" => vals'[x].ty = "inst"
      BY <3>2, <3>3
    <3>5. QED
      BY <2>1, <3>4, WritesKept
  <2>4. CASE SealNext \/ SealEnd
    <3>1. vals' = vals
      BY <2>4 DEF SealNext, SealEnd
    <3>2. QED
      BY <2>1, <3>1, WritesKept
  <2>5. QED
    BY <1>7, <2>2, <2>3, <2>4 DEF RunMachine, Machine
<1>8. CASE Finish
  BY <1>8, FinishWrites
<1>9. QED
  BY <1>3, <1>4, <1>5, <1>6, <1>7, <1>8 DEF Next

-----------------------------------------------------------------------------
(* The finished function.                                                  *)

\* d[k] is the value that stands for v before the k-th instruction of b, if there is one.
Line(d, v, b) ==
  /\ \A k \in 1 .. Len(code[b]) + 1 : d[k] \in 0 .. Len(vals)
  /\ \A k \in 1 .. Len(code[b]) :
       /\ d[k + 1] = IF Sets(code[b][k], v) THEN code[b][k].val ELSE d[k]
       /\ code[b][k].op # "write" /\ Source(code[b][k]) = v => d[k] = code[b][k].val

\* What stands for v at the start of b is what stands for it at the end of each block
\* that jumps there, or a phi of these.
Out(def, v, b)    == def[v][b][Len(code[b]) + 1]
Passes(def, v, b) == \A p \in Block : b \in succs[p] => Out(def, v, p) = def[v][b][1]
Merges(def, v, b) ==
  /\ vals[def[v][b][1]].ty = "phi" /\ vals[def[v][b][1]].block = b
  /\ \A p \in Block : b \in succs[p] => Out(def, v, p) = vals[def[v][b][1]].args[p]

Finished(def) ==
  /\ \A v \in Place : \A b \in Block : /\ Line(def[v][b], v, b)
                                       /\ def[v][b][1] # None => Passes(def, v, b) \/ Merges(def, v, b)
  /\ \A v \in Place : def[v][Entry][1] \in {None, GRAVESTONE}
  /\ \A p \in Block : Entry \notin succs[p]

\* The value x is computed in b.
Home(x, b) ==
  \/ vals[x].ty = "phi" /\ vals[x].block = b
  \/ \E k \in 1 .. Len(code[b]) : code[b][k].op = "write" /\ code[b][k].val = x

\* seen are the blocks that the run has come through: what stands for a variable at the
\* start of one has not been computed in it, if it is not a phi of the variable.
Visited(def, seen) ==
  /\ seen \subseteq Block /\ at[1] \in seen
  /\ at \in Block \X Nat /\ at[2] \in 1 .. Len(code[at[1]]) + 1
  /\ \A v \in Place : \A b \in seen :
       def[v][b][1] # None /\ Home(def[v][b][1], b) => Merges(def, v, b)

\* What stands for v where the run is has been computed, holds what v holds, and is not
\* written again in the rest of the block.
Stands(def, seen, v) ==
  LET x == def[v][at[1]][at[2]]
  IN  x # None => /\ x = GRAVESTONE \/ \E b \in seen : Home(x, b)
                  /\ mem[v] # Undef => ssa[x] = mem[v]
                  /\ \A k \in at[2] .. Len(code[at[1]]) :
                       code[at[1]][k].op = "write" => code[at[1]][k].val # x

Run ==
  phase = "run" =>
    /\ mem = [v \in Place |-> mem[v]] /\ ssa = [x \in Value |-> ssa[x]]
    /\ \E def, seen : Finished(def) /\ Visited(def, seen) /\ \A v \in Place : Stands(def, seen, v)

\* When all blocks are sealed, every block has had its answer.
LEMMA AllAnswered ==
  ASSUME IInv, Finish, NEW rep, NEW x, NEW v \in Place, NEW b \in 1 .. NumBlocks, Origin(rep, x, v, b), x # None
  PROVE  Answered(rep, v, b, x)
<1>1. Building /\ touched \subseteq sealed
  BY DEF Finish, MayFinalize, finalize
<1>2. sealing.block = 0 /\ Finishing = {}
  BY <1>1, WhenBuilding
<1>3. \A k \in 1 .. Len(undef_phis[b]) : FALSE
  BY <1>1 DEF IInv, Waiting
<1>4. ~Asked(v, b, x)
  BY <1>2, <1>3 DEF Asked
<1>5. QED
  BY <1>4 DEF Origin

\* The history of v in b, with the values that are left of it.
Settles(d, e, rep, b) ==
  \A k \in 1 .. Len(code[b]) + 1 : e[k] = IF d[k] = None THEN None ELSE rep[d[k]]

\* What a history becomes when the aliases are gone.
LEMMA LineFinished ==
  ASSUME IInv, Finish, NEW rep, Representatives(rep), NEW v \in Place, NEW b \in 1 .. NumBlocks,
         NEW d, Track(rep, d, v, b), NEW e, Settles(d, e, rep, b)
  PROVE  Line(e, v, b)'
<1>1. /\ Len(vals') = Len(vals) /\ Len(code'[b]) = Len(code[b])
      /\ \A k \in 1 .. Len(code[b]) :
           /\ code'[b][k].op = code[b][k].op /\ code'[b][k].place = code[b][k].place
           /\ code[b][k].op = "copy" => code'[b][k].from = code[b][k].from
           /\ code'[b][k].val = rep[code[b][k].val]
  BY FinishFacts
<1>2. /\ Len(code[b]) \in Nat /\ Len(vals) \in Nat /\ Value = 1 .. Len(vals)
      /\ \A k \in 1 .. Len(code[b]) : code[b][k].val \in Value
  <2>1. code[b] \in Seq(Operation) /\ vals \in Seq(Definition)
    BY DEF IInv, Tables, Values
  <2>2. QED
    BY <2>1 DEF IInv, Tables, Value
<1>3. \A x \in Value : rep[x] \in Value
  BY DEF Representatives
<1>4. \A k \in 1 .. Len(code[b]) + 1 : d[k] \in 0 .. Len(vals)
  BY DEF Track
<1>5. ASSUME NEW k \in 1 .. Len(code[b]) + 1 PROVE e[k] \in 0 .. Len(vals)
  <2>1. d[k] \in 0 .. Len(vals) /\ e[k] = IF d[k] = None THEN None ELSE rep[d[k]]
    BY <1>4 DEF Settles
  <2>2. CASE d[k] = None
    BY <1>2, <2>1, <2>2 DEF None
  <2>3. CASE d[k] # None
    <3>1. d[k] \in Value
      BY <1>2, <2>1, <2>3 DEF None
    <3>2. rep[d[k]] \in 1 .. Len(vals)
      BY <1>2, <1>3, <3>1
    <3>3. QED
      BY <1>2, <2>1, <2>3, <3>2
  <2>4. QED
    BY <2>2, <2>3
<1>6. ASSUME NEW k \in 1 .. Len(code[b])
      PROVE  /\ e[k + 1] = IF Sets(code'[b][k], v) THEN code'[b][k].val ELSE e[k]
             /\ code'[b][k].op # "write" /\ Source(code'[b][k]) = v => e[k] = code'[b][k].val
  <2>1. k \in 1 .. Len(code[b]) + 1 /\ k + 1 \in 1 .. Len(code[b]) + 1
    BY <1>2
  <2>2. /\ e[k] = (IF d[k] = None THEN None ELSE rep[d[k]])
        /\ e[k + 1] = (IF d[k + 1] = None THEN None ELSE rep[d[k + 1]])
    BY <2>1 DEF Settles
  <2>3. /\ Sets(code'[b][k], v) <=> Sets(code[b][k], v)
        /\ Source(code'[b][k]) = Source(code[b][k])
    BY <1>1 DEF Sets, Source
  <2>4. /\ d[k + 1] = IF Sets(code[b][k], v) THEN code[b][k].val ELSE d[k]
        /\ code[b][k].op # "write" /\ Source(code[b][k]) = v =>
             d[k] # None /\ rep[d[k]] = rep[code[b][k].val]
    BY DEF Track
  <2>5. code[b][k].val # None
    BY <1>2 DEF None
  <2>6. code'[b][k].op = code[b][k].op /\ code'[b][k].val = rep[code[b][k].val]
    BY <1>1
  <2>7. e[k + 1] = IF Sets(code'[b][k], v) THEN code'[b][k].val ELSE e[k]
    BY <2>2, <2>3, <2>4, <2>5, <2>6
  <2>8. code'[b][k].op # "write" /\ Source(code'[b][k]) = v => e[k] = code'[b][k].val
    BY <2>2, <2>3, <2>4, <2>6
  <2>9. QED
    BY <2>7, <2>8
<1>7. QED
  BY <1>1, <1>5, <1>6 DEF Line

\* What the finished function has of the histories.
Kept(def, rep) ==
  \A v \in Place : \A b \in 1 .. NumBlocks :
    \E d : Track(rep, d, v, b) /\ Origin(rep, d[1], v, b) /\ Settles(d, def[v][b], rep, b)

LEMMA HistoriesKept ==
  ASSUME NEW rep, History(rep)
  PROVE  \E def : Kept(def, rep)
<1> DEFINE D(v, b) == CHOOSE d : Track(rep, d, v, b) /\ Origin(rep, d[1], v, b)
<1>1. \A v \in Place : \A b \in 1 .. NumBlocks : Track(rep, D(v, b), v, b) /\ Origin(rep, D(v, b)[1], v, b)
  BY DEF History
<1> HIDE DEF D
<1>2. PICK def : def = [v \in Place |-> [b \in 1 .. NumBlocks |-> [k \in 1 .. Len(code[b]) + 1 |->
                          IF D(v, b)[k] = None THEN None ELSE rep[D(v, b)[k]]]]]
  OBVIOUS
<1>3. ASSUME NEW v \in Place, NEW b \in 1 .. NumBlocks PROVE Settles(D(v, b), def[v][b], rep, b)
  <2>1. def[v][b] = [k \in 1 .. Len(code[b]) + 1 |-> IF D(v, b)[k] = None THEN None ELSE rep[D(v, b)[k]]]
    BY <1>2
  <2>2. QED
    BY <2>1 DEF Settles
<1>4. Kept(def, rep)
  <2> SUFFICES ASSUME NEW v \in Place, NEW b \in 1 .. NumBlocks
               PROVE  \E d : Track(rep, d, v, b) /\ Origin(rep, d[1], v, b) /\ Settles(d, def[v][b], rep, b)
    BY DEF Kept
  <2>1. PICK d : d = D(v, b)
    OBVIOUS
  <2>2. Track(rep, d, v, b) /\ Origin(rep, d[1], v, b) /\ Settles(d, def[v][b], rep, b)
    BY <1>1, <1>3, <2>1
  <2>3. QED
    BY <2>2
<1>5. QED
  BY <1>4

\* The answers make the finished function consistent.
LEMMA FunctionFinished ==
  ASSUME IInv, Lookups, Finish, NEW rep, Representatives(rep), NEW def, Kept(def, rep)
  PROVE  Finished(def)'
<1>1. /\ phase = "build" /\ Value' = Value
      /\ \A x \in Value : vals[x].ty # "phi" => vals'[x] = vals[x]
      /\ \A x \in Value : vals[x].ty = "phi" =>
           /\ vals'[x].ty = "phi" /\ vals'[x].block = vals[x].block
           /\ \A p \in DOMAIN vals[x].args : vals'[x].args[p] = rep[vals[x].args[p]]
      /\ \A b \in 1 .. NumBlocks : Len(code'[b]) = Len(code[b])
  BY FinishFacts
<1>2. Block' = Block /\ succs' = succs
  BY DEF Finish, finalize, Block
<1>3. /\ Block \subseteq 1 .. NumBlocks /\ Entry \in Block
      /\ \A b \in 1 .. NumBlocks : ToSet(preds[b]) = {p \in Block : b \in succs[p]}
      /\ \A b \in 1 .. NumBlocks : Len(code[b]) \in Nat
      /\ Len(vals) \in Nat /\ Value = 1 .. Len(vals)
  <2>1. created \in 2 .. NumBlocks /\ NumBlocks \in Nat
    BY SSABuilderAssumption DEF IInv, Graph
  <2>2. Block \subseteq 1 .. NumBlocks /\ Entry \in Block
    BY <2>1 DEF Block, Entry
  <2>3. \A b \in 1 .. NumBlocks : code[b] \in Seq(Operation)
    BY DEF IInv, Tables
  <2>4. vals \in Seq(Definition)
    BY DEF IInv, Values
  <2>5. QED
    BY <1>1, <2>2, <2>3, <2>4 DEF IInv, Edges, Value
<1>4. ASSUME NEW v \in Place, NEW p \in 1 .. NumBlocks
      PROVE  Out(def, v, p)' = IF variables[v][p] = None THEN None ELSE rep[variables[v][p]]
  <2>1. PICK d : Track(rep, d, v, p) /\ Settles(d, def[v][p], rep, p)
    BY DEF Kept
  <2>2. Len(code[p]) + 1 \in 1 .. Len(code[p]) + 1
    BY <1>3
  <2>3. d[Len(code[p]) + 1] = variables[v][p]
    BY <2>1 DEF Track
  <2>4. def[v][p][Len(code[p]) + 1] = IF variables[v][p] = None THEN None ELSE rep[variables[v][p]]
    BY <2>1, <2>2, <2>3 DEF Settles
  <2>5. QED
    BY <1>1, <2>4 DEF Out
<1>5. ASSUME NEW v \in Place, NEW b \in Block
      PROVE  /\ Line(def[v][b], v, b)'
             /\ def[v][b][1] # None =>
                  \E x \in Value : x # None /\ Answered(rep, v, b, x) /\ def[v][b][1] = rep[x]
  <2>1. b \in 1 .. NumBlocks
    BY <1>3
  <2>2. PICK d : Track(rep, d, v, b) /\ Origin(rep, d[1], v, b) /\ Settles(d, def[v][b], rep, b)
    BY <2>1 DEF Kept
  <2>3. Line(def[v][b], v, b)'
    BY <2>1, <2>2, LineFinished
  <2>4. ASSUME def[v][b][1] # None PROVE \E x \in Value : x # None /\ Answered(rep, v, b, x) /\ def[v][b][1] = rep[x]
    <3>1. 1 \in 1 .. Len(code[b]) + 1 /\ d[1] \in 0 .. Len(vals)
      BY <1>3, <2>1, <2>2, TrackStarts
    <3>2. d[1] # None /\ def[v][b][1] = rep[d[1]]
      BY <2>2, <2>4, <3>1 DEF Settles
    <3>3. d[1] \in Value
      BY <1>3, <3>1, <3>2 DEF None
    <3>4. Answered(rep, v, b, d[1])
      BY <2>1, <2>2, <3>2, AllAnswered
    <3>5. QED
      BY <3>2, <3>3, <3>4
  <2>5. QED
    BY <2>3, <2>4
<1>6. ASSUME NEW v \in Place, NEW b \in Block, def[v][b][1] # None
      PROVE  Passes(def, v, b)' \/ Merges(def, v, b)'
  <2>1. b \in 1 .. NumBlocks /\ ToSet(preds[b]) = {p \in Block : b \in succs[p]}
    BY <1>3
  <2>2. PICK x \in Value : Answered(rep, v, b, x) /\ def[v][b][1] = rep[x]
    BY <1>5, <1>6
  <2>3. \A p \in Block : b \in succs[p] => variables[v][p] # None
    BY <2>1, <2>2 DEF Answered
  <2>4. \A p \in Block : b \in succs[p] => Out(def, v, p)' = rep[variables[v][p]]
    BY <1>3, <1>4, <2>3
  <2>5. CASE \A p \in ToSet(preds[b]) : rep[variables[v][p]] = rep[x]
    <3>1. \A p \in Block : b \in succs[p] => Out(def, v, p)' = def[v][b][1]
      BY <2>1, <2>2, <2>4, <2>5
    <3>2. QED
      BY <1>2, <3>1 DEF Passes, Out
  <2>6. CASE /\ vals[x].ty = "phi" /\ vals[x].block = b
             /\ \A p \in ToSet(preds[b]) : rep[vals[x].args[p]] = rep[variables[v][p]]
    <3>1. rep[x] = x
      BY <2>6 DEF Representatives
    <3>2. DOMAIN vals[x].args = {p \in Block : b \in succs[p]}
      BY <2>6 DEF IInv, Phis
    <3>3. /\ vals'[x].ty = "phi" /\ vals'[x].block = b
          /\ \A p \in DOMAIN vals[x].args : vals'[x].args[p] = rep[vals[x].args[p]]
      BY <1>1, <2>6
    <3>4. \A p \in Block : b \in succs[p] => Out(def, v, p)' = vals'[x].args[p]
      BY <2>1, <2>4, <2>6, <3>2, <3>3
    <3>5. QED
      BY <1>2, <2>2, <3>1, <3>3, <3>4 DEF Merges, Out
  <2>7. QED
    BY <2>2, <2>5, <2>6 DEF Answered
<1>7. \A p \in Block : Entry \notin succs[p]
  <2>1. ToSet(preds[Entry]) = {}
    BY DEF Lookups, ToSet
  <2>2. QED
    BY <1>3, <2>1
<1>8. ASSUME NEW v \in Place PROVE def[v][Entry][1] \in {None, GRAVESTONE}
  <2>1. SUFFICES ASSUME def[v][Entry][1] # None PROVE def[v][Entry][1] = GRAVESTONE
    OBVIOUS
  <2>2. PICK x \in Value : Answered(rep, v, Entry, x) /\ def[v][Entry][1] = rep[x]
    BY <1>3, <1>5, <2>1
  <2>3. preds[Entry] = <<>>
    BY DEF Lookups
  <2>4. QED
    BY <2>2, <2>3 DEF Answered
<1>9. QED
  <2>1. \A p \in Block' : Entry \notin succs'[p]
    BY <1>2, <1>7
  <2>2. (\A v \in Place : def[v][Entry][1] \in {None, GRAVESTONE})'
    BY <1>8 DEF None, GRAVESTONE, Entry
  <2>3. (\A p \in Block : Entry \notin succs[p])'
    BY <2>1 DEF Entry
  <2>4. (\A v \in Place : \A b \in Block : /\ Line(def[v][b], v, b)
                                           /\ def[v][b][1] # None => Passes(def, v, b) \/ Merges(def, v, b))'
    <3> SUFFICES ASSUME NEW v \in Place, NEW b \in Block
                 PROVE  /\ Line(def[v][b], v, b)'
                        /\ def[v][b][1] # None => Passes(def, v, b)' \/ Merges(def, v, b)'
      BY <1>2 DEF None
    <3>1. QED
      BY <1>5, <1>6
  <2>5. QED
    BY <2>2, <2>3, <2>4 DEF Finished

\* The run starts at the entry, where no variable has a value.
LEMMA FinishReads ==
  ASSUME IInv, IInv', Build, Writes', Finish
  PROVE  Run'
<1>1. /\ phase = "build" /\ at' = <<Entry, 1>> /\ mem' = [v \in Place |-> Undef]
      /\ ssa' = [v \in 1 .. Len(vals) |-> Undef]
  BY DEF Finish, finalize, Building
<1>2. PICK rep : Representatives(rep) /\ History(rep) /\ Lookups
  BY <1>1 DEF Build, Meaning
<1>3. PICK def : Kept(def, rep)
  BY <1>2, HistoriesKept
<1>4. Finished(def)'
  BY <1>2, <1>3, FunctionFinished
<1>5. /\ Value' = 1 .. Len(vals) /\ Entry \in Block' /\ Entry \in 1 .. NumBlocks
      /\ Len(code'[Entry]) \in Nat /\ vals'[GRAVESTONE] = Inst
  <2>1. Value' = Value
    BY <1>2, FinishFacts
  <2>2. Entry \in Block' /\ Entry \in 1 .. NumBlocks
    BY SSABuilderAssumption DEF IInv, Graph, Block, Entry
  <2>3. code'[Entry] \in Seq(Operation)
    BY <2>2 DEF IInv, Tables
  <2>4. vals'[GRAVESTONE] = Inst
    BY DEF IInv, Values, GRAVESTONE, Inst
  <2>5. QED
    BY <2>1, <2>2, <2>3, <2>4 DEF Value
<1>6. \A k \in 1 .. Len(code'[Entry]) : code'[Entry][k].op = "write" => code'[Entry][k].val # GRAVESTONE
  BY <1>5 DEF Writes, GRAVESTONE
<1>7. \A v \in Place : def[v][Entry][1] \in {None, GRAVESTONE}
  BY <1>4 DEF Finished, Entry, None, GRAVESTONE
<1>8. PICK seen : seen = {Entry}
  OBVIOUS
<1>9. Visited(def, seen)'
  <2>1. at' \in Block' \X Nat /\ at'[1] = Entry /\ at'[2] = 1 /\ 1 \in 1 .. Len(code'[Entry]) + 1
    BY <1>1, <1>5
  <2>2. ~Home(GRAVESTONE, Entry)'
    BY <1>5, <1>6 DEF Home, Inst
  <2>3. ASSUME NEW v \in Place, NEW b \in seen, def[v][b][1] # None PROVE ~Home(def[v][b][1], b)'
    <3>1. b = Entry /\ def[v][b][1] = GRAVESTONE
      BY <1>7, <1>8, <2>3
    <3>2. Home(GRAVESTONE, Entry)' = Home(def[v][b][1], b)'
      BY <3>1 DEF Home, GRAVESTONE, Entry
    <3>3. QED
      BY <2>2, <3>2
  <2>4. QED
    BY <1>5, <1>8, <2>1, <2>3 DEF Visited, None
<1>10. ASSUME NEW v \in Place PROVE Stands(def, seen, v)'
  <2>1. at'[1] = Entry /\ at'[2] = 1 /\ mem'[v] = Undef
    BY <1>1
  <2>2. def[v][Entry][1] \in {None, GRAVESTONE}
    BY <1>7
  <2>3. QED
    BY <1>6, <2>1, <2>2 DEF Stands, None, GRAVESTONE, Undef
<1>11. mem' = [v \in Place |-> mem'[v]] /\ ssa' = [x \in Value' |-> ssa'[x]]
  BY <1>1, <1>5
<1>12. QED
  BY <1>4, <1>9, <1>10, <1>11 DEF Run

\* An instruction runs: it gives a variable a value, and the value that stands for it.
LEMMA InstReads ==
  ASSUME IInv, Writes, Run, RunInst
  PROVE  Run'
<1>1. /\ phase = "run" /\ UNCHANGED <<created, preds, sealed, vals, code, succs, phase>>
      /\ at' = [at EXCEPT ![2] = @ + 1] /\ at[2] <= Len(code[at[1]])
  BY DEF RunInst, ssaVars, cfgVars, builder
<1>2. PICK def, seen : Finished(def) /\ Visited(def, seen) /\ \A v \in Place : Stands(def, seen, v)
  BY <1>1 DEF Run
<1>3. mem = [v \in Place |-> mem[v]] /\ ssa = [x \in Value |-> ssa[x]]
  BY <1>1 DEF Run
<1>4. PICK b, k : b = at[1] /\ k = at[2]
  OBVIOUS
<1>5. /\ b \in Block /\ b \in seen /\ k \in Nat /\ k \in 1 .. Len(code[b]) /\ b \in 1 .. NumBlocks
      /\ at'[1] = b /\ at'[2] = k + 1 /\ at' \in Block \X Nat /\ k + 1 \in 1 .. Len(code[b]) + 1
      /\ Len(code[b]) \in Nat
  <2>1. at \in Block \X Nat /\ at[1] \in seen /\ k \in 1 .. Len(code[b]) + 1
    BY <1>2, <1>4 DEF Visited
  <2>2. b \in 1 .. NumBlocks
    BY <1>4, <2>1, SSABuilderAssumption DEF IInv, Graph, Block
  <2>3. Len(code[b]) \in Nat
    <3>1. code[b] \in Seq(Operation)
      BY <2>2 DEF IInv, Tables
    <3>2. QED
      BY <3>1
  <2>4. k \in Nat /\ k \in 1 .. Len(code[b]) /\ k + 1 \in 1 .. Len(code[b]) + 1
    BY <1>1, <1>4, <2>1, <2>3
  <2>5. QED
    BY <1>1, <1>4, <2>1, <2>2, <2>3, <2>4
<1>6. PICK c : c = code[b][k]
  OBVIOUS
<1>7. c \in Operation /\ c.val \in Value /\ c.val # None
  <2>1. code \in [1 .. NumBlocks -> Seq(Operation)] /\ c.val \in Value
    BY <1>5, <1>6 DEF IInv, Tables
  <2>2. code[b] \in Seq(Operation)
    BY <1>5, <2>1
  <2>3. QED
    BY <1>5, <1>6, <2>1, <2>2 DEF Value, None
<1>8. PICK new \in Contents :
        /\ mem' = CASE c.op = "write" -> [mem EXCEPT ![c.place] = new]
                    [] c.op = "copy"  -> [mem EXCEPT ![c.place] = mem[c.from]]
                    [] OTHER          -> mem
        /\ ssa' = IF c.op = "write" THEN [ssa EXCEPT ![c.val] = new] ELSE ssa
  BY <1>4, <1>6 DEF RunInst, Instruction
<1>9. Value' = Value /\ Block' = Block
  BY <1>1 DEF Value, Block
<1>10. mem' = [v \in Place |-> mem'[v]] /\ ssa' = [x \in Value' |-> ssa'[x]]
  <2>1. c.op \in {"write", "read", "copy"}
    BY <1>7 DEF Operation
  <2>2. CASE c.op = "write"
    BY <1>3, <1>8, <1>9, <2>2
  <2>3. CASE c.op = "copy"
    BY <1>3, <1>8, <1>9, <2>3
  <2>4. CASE c.op = "read"
    BY <1>3, <1>8, <1>9, <2>4
  <2>5. QED
    BY <2>1, <2>2, <2>3, <2>4
<1>11. Finished(def)'
  BY <1>1, <1>2, <1>9 DEF Finished, Line, Passes, Merges, Out, Sets, Source
<1>12. Visited(def, seen)'
  <2>1. seen \subseteq Block /\ at[1] \in seen /\ at'[1] = at[1] /\ at' \in Block \X Nat /\ at'[2] \in 1 .. Len(code[b]) + 1
    BY <1>2, <1>4, <1>5 DEF Visited
  <2>2. \A x, e : Home(x, e)' <=> Home(x, e)
    BY <1>1 DEF Home
  <2>3. \A v, e : Merges(def, v, e)' <=> Merges(def, v, e)
    BY <1>1, <1>9 DEF Merges, Out
  <2>4. \A v \in Place : \A e \in seen : def[v][e][1] # None /\ Home(def[v][e][1], e) => Merges(def, v, e)
    BY <1>2 DEF Visited
  <2>5. QED
    BY <1>1, <1>4, <1>9, <2>1, <2>2, <2>3, <2>4 DEF Visited, None
<1>13. ASSUME NEW v \in Place PROVE Stands(def, seen, v)'
  <2>1. PICK x, y : x = def[v][b][k] /\ y = def[v][b][k + 1]
    OBVIOUS
  <2>2. /\ y = IF Sets(c, v) THEN c.val ELSE x
        /\ c.op # "write" /\ Source(c) = v => x = c.val
    BY <1>2, <1>5, <1>6, <2>1 DEF Finished, Line
  <2>3. ASSUME NEW w \in Place, def[w][b][k] # None
        PROVE  /\ def[w][b][k] = GRAVESTONE \/ \E e \in seen : Home(def[w][b][k], e)
               /\ mem[w] # Undef => ssa[def[w][b][k]] = mem[w]
               /\ \A l \in k .. Len(code[b]) : code[b][l].op = "write" => code[b][l].val # def[w][b][k]
    <3>1. Stands(def, seen, w)
      BY <1>2
    <3>2. QED
      BY <1>4, <2>3, <3>1 DEF Stands
  <2>4. ASSUME y # None
        PROVE  /\ y = GRAVESTONE \/ \E e \in seen : Home(y, e)
               /\ mem'[v] # Undef => ssa'[y] = mem'[v]
               /\ \A l \in k + 1 .. Len(code[b]) : code[b][l].op = "write" => code[b][l].val # y
    <3>1. k \in k .. Len(code[b]) /\ \A l \in k + 1 .. Len(code[b]) : l \in k .. Len(code[b]) /\ l \in 1 .. Len(code[b]) /\ l # k
      BY <1>5
    <3>2. CASE ~Sets(c, v)
      <4>1. y = x /\ mem'[v] = mem[v]
        BY <1>3, <1>7, <1>8, <2>2, <3>2 DEF Sets, Operation
      <4>2. /\ x = GRAVESTONE \/ \E e \in seen : Home(x, e)
            /\ mem[v] # Undef => ssa[x] = mem[v]
            /\ \A l \in k .. Len(code[b]) : code[b][l].op = "write" => code[b][l].val # x
        BY <2>1, <2>3, <2>4, <4>1
      <4>3. ssa'[x] = ssa[x]
        <5>1. c.op = "write" => c.val # x
          BY <1>6, <3>1, <4>2
        <5>2. QED
          BY <1>3, <1>8, <5>1
      <4>4. QED
        BY <3>1, <4>1, <4>2, <4>3
    <3>3. CASE Sets(c, v) /\ c.op = "write"
      <4>1. y = c.val /\ c.place = v
        BY <2>2, <3>3 DEF Sets
      <4>2. mem'[v] = new /\ ssa'[y] = new
        BY <1>3, <1>7, <1>8, <3>3, <4>1
      <4>3. Home(y, b)
        BY <1>5, <1>6, <3>3, <4>1 DEF Home
      <4>4. \A l \in k + 1 .. Len(code[b]) : code[b][l].op = "write" => code[b][l].val # y
        BY <1>5, <1>6, <3>1, <3>3, <4>1 DEF Writes
      <4>5. QED
        BY <1>5, <4>2, <4>3, <4>4
    <3>4. CASE Sets(c, v) /\ c.op = "copy"
      <4>1. PICK w \in Place : w = c.from /\ w = Source(c)
        BY <1>7, <3>4 DEF Operation, Source
      <4>2. y = c.val /\ c.place = v /\ def[w][b][k] = c.val
        <5>1. c.op # "write" /\ Source(c) = w => def[w][b][k] = c.val
          BY <1>2, <1>5, <1>6 DEF Finished, Line
        <5>2. QED
          BY <2>2, <3>4, <4>1, <5>1 DEF Sets
      <4>3. mem'[v] = mem[w] /\ ssa' = ssa
        BY <1>3, <1>8, <3>4, <4>1, <4>2
      <4>4. QED
        BY <1>7, <2>3, <3>1, <4>2, <4>3
    <3>5. QED
      BY <1>7, <3>2, <3>3, <3>4 DEF Sets, Operation
  <2>5. \A e : Home(y, e)' <=> Home(y, e)
    BY <1>1 DEF Home
  <2>6. QED
    BY <1>1, <1>5, <2>1, <2>4, <2>5 DEF Stands, GRAVESTONE, None, Undef
<1>14. QED
  BY <1>10, <1>11, <1>12, <1>13 DEF Run

\* A value is computed in one block.
LEMMA OneHome ==
  ASSUME IInv, Writes, NEW x, NEW b \in Block, NEW c \in Block, Home(x, b), Home(x, c)
  PROVE  b = c /\ x # GRAVESTONE
<1>1. Block \subseteq 1 .. NumBlocks
  BY SSABuilderAssumption DEF IInv, Graph, Block
<1>2. vals[GRAVESTONE].ty = "inst"
  BY DEF IInv, Values, Inst
<1>3. ASSUME NEW e \in Block, NEW k \in 1 .. Len(code[e]), code[e][k].op = "write", code[e][k].val = x
      PROVE  vals[x].ty = "inst" /\ x # GRAVESTONE
  BY <1>1, <1>3 DEF Writes
<1>4. CASE vals[x].ty = "phi"
  <2>1. vals[x].block = b /\ vals[x].block = c
    BY <1>3, <1>4 DEF Home
  <2>2. QED
    BY <1>2, <1>4, <2>1
<1>5. CASE vals[x].ty # "phi"
  <2>1. PICK k \in 1 .. Len(code[b]) : code[b][k].op = "write" /\ code[b][k].val = x
    BY <1>5 DEF Home
  <2>2. PICK l \in 1 .. Len(code[c]) : code[c][l].op = "write" /\ code[c][l].val = x
    BY <1>5 DEF Home
  <2>3. b = c
    BY <1>1, <2>1, <2>2 DEF Writes
  <2>4. QED
    BY <1>3, <2>1, <2>3
<1>6. QED
  BY <1>4, <1>5

\* The run goes on at a block: its phis take what the block that jumps has.
LEMMA JumpReads ==
  ASSUME IInv, Writes, Run, RunJump
  PROVE  Run'
<1>1. phase = "run" /\ UNCHANGED <<created, vals, code, succs, phase, mem>> /\ at[2] > Len(code[at[1]])
  BY DEF RunJump, ssaVars, cfgVars, builder
<1>2. PICK def, seen : Finished(def) /\ Visited(def, seen) /\ \A v \in Place : Stands(def, seen, v)
  BY <1>1 DEF Run
<1>3. mem = [v \in Place |-> mem[v]] /\ ssa = [x \in Value |-> ssa[x]]
  BY <1>1 DEF Run
<1>4. PICK a : a = at[1]
  OBVIOUS
<1>5. PICK d \in succs[a] :
        /\ at' = <<d, 1>>
        /\ ssa' = [x \in DOMAIN ssa |->
                     IF vals[x].ty = "phi" /\ vals[x].block = d THEN ssa[vals[x].args[a]] ELSE ssa[x]]
  BY <1>4 DEF RunJump
<1>6. /\ a \in Block /\ a \in seen /\ a \in 1 .. NumBlocks /\ d \in Block /\ d \in 1 .. NumBlocks
      /\ at[2] = Len(code[a]) + 1 /\ Len(code[d]) \in Nat /\ Value = 1 .. Len(vals) /\ Len(vals) \in Nat
  <2>1. at \in Block \X Nat /\ at[1] \in seen /\ at[2] \in 1 .. Len(code[a]) + 1
    BY <1>2, <1>4 DEF Visited
  <2>2. Block \subseteq 1 .. NumBlocks
    BY SSABuilderAssumption DEF IInv, Graph, Block
  <2>3. succs[a] \subseteq Block
    BY <1>4, <2>1, <2>2 DEF IInv, Graph
  <2>4. \A b \in 1 .. NumBlocks : Len(code[b]) \in Nat
    <3>1. \A b \in 1 .. NumBlocks : code[b] \in Seq(Operation)
      BY DEF IInv, Tables
    <3>2. QED
      BY <3>1
  <2>5. Value = 1 .. Len(vals) /\ Len(vals) \in Nat
    <3>1. vals \in Seq(Definition)
      BY DEF IInv, Values
    <3>2. QED
      BY <3>1 DEF Value
  <2>6. at[2] = Len(code[a]) + 1
    BY <1>1, <1>4, <2>1, <2>2, <2>4
  <2>7. QED
    BY <1>4, <1>5, <2>1, <2>2, <2>3, <2>4, <2>5, <2>6
<1>7. at'[1] = d /\ at'[2] = 1 /\ at' \in Block \X Nat /\ 1 \in 1 .. Len(code[d]) + 1
  BY <1>5, <1>6
<1>8. Value' = Value /\ Block' = Block
  BY <1>1 DEF Value, Block
<1>9. mem' = [v \in Place |-> mem'[v]] /\ ssa' = [x \in Value' |-> ssa'[x]]
  BY <1>1, <1>3, <1>5, <1>8
<1>10. Finished(def)'
  BY <1>1, <1>2, <1>8 DEF Finished, Line, Passes, Merges, Out, Sets, Source
<1>11. /\ \A x, e : Home(x, e)' <=> Home(x, e)
       /\ \A v, e : Merges(def, v, e)' <=> Merges(def, v, e)
  BY <1>1, <1>8 DEF Home, Merges, Out
<1>12. PICK seen2 : seen2 = seen \cup {d}
  OBVIOUS
<1>13. ASSUME NEW v \in Place, NEW y, y = Out(def, v, a), y # None
       PROVE  (y = GRAVESTONE \/ \E b \in seen : Home(y, b)) /\ (mem[v] # Undef => ssa[y] = mem[v])
  BY <1>2, <1>4, <1>6, <1>13 DEF Stands, Out
<1>14. ASSUME NEW v \in Place, NEW x, x = def[v][d][1], x # None
       PROVE  /\ Home(x, d) => Merges(def, v, d)
              /\ Merges(def, v, d) \/ x = Out(def, v, a)
  <2>1. Passes(def, v, d) \/ Merges(def, v, d)
    BY <1>2, <1>6, <1>14 DEF Finished
  <2>2. SUFFICES ASSUME ~Merges(def, v, d) PROVE x = Out(def, v, a) /\ ~Home(x, d)
    OBVIOUS
  <2>3. x = Out(def, v, a)
    BY <1>5, <1>6, <1>14, <2>1, <2>2 DEF Passes
  <2>4. ASSUME Home(x, d) PROVE FALSE
    <3>1. d \notin seen
      BY <1>2, <1>14, <2>2, <2>4 DEF Visited
    <3>2. x # GRAVESTONE
      BY <1>6, <2>4, OneHome
    <3>3. PICK b \in seen : Home(x, b)
      BY <1>13, <1>14, <2>3, <3>2
    <3>4. b \in Block
      BY <1>2 DEF Visited
    <3>5. QED
      BY <1>6, <2>4, <3>1, <3>3, <3>4, OneHome
  <2>5. QED
    BY <2>3, <2>4
<1>15. Visited(def, seen2)'
  <2>1. ASSUME NEW v \in Place, NEW b \in seen2, def[v][b][1] # None, Home(def[v][b][1], b)
        PROVE  Merges(def, v, b)
    <3>1. CASE b = d
      BY <1>14, <2>1, <3>1
    <3>2. CASE b # d
      BY <1>2, <1>12, <2>1, <3>2 DEF Visited
    <3>3. QED
      BY <3>1, <3>2
  <2>2. seen2 \subseteq Block /\ at'[1] \in seen2
    BY <1>2, <1>6, <1>7, <1>12 DEF Visited
  <2>3. QED
    BY <1>1, <1>7, <1>8, <1>11, <2>1, <2>2 DEF Visited, None
<1>16. ASSUME NEW v \in Place PROVE Stands(def, seen2, v)'
  <2>1. PICK x : x = def[v][d][1]
    OBVIOUS
  <2>2. ASSUME x # None
        PROVE  /\ x = GRAVESTONE \/ \E b \in seen2 : Home(x, b)
               /\ mem[v] # Undef => ssa'[x] = mem[v]
               /\ \A k \in 1 .. Len(code[d]) : code[d][k].op = "write" => code[d][k].val # x
    <3>1. x \in Value
      <4>1. Line(def[v][d], v, d)
        BY <1>2, <1>6 DEF Finished
      <4>2. x \in 0 .. Len(vals)
        BY <1>7, <2>1, <4>1 DEF Line
      <4>3. QED
        BY <1>6, <2>2, <4>2 DEF None
    <3>2. \A k \in 1 .. Len(code[d]) : code[d][k].op = "write" => code[d][k].val # x
      <4>1. ASSUME NEW k \in 1 .. Len(code[d]), code[d][k].op = "write", code[d][k].val = x PROVE FALSE
        <5>1. Merges(def, v, d)
          <6>1. Home(x, d)
            BY <4>1 DEF Home
          <6>2. QED
            BY <1>14, <2>1, <2>2, <6>1
        <5>2. vals[x].ty = "phi" /\ vals[x].ty = "inst"
          BY <1>6, <2>1, <4>1, <5>1 DEF Merges, Writes
        <5>3. QED
          BY <5>2
      <4>2. QED
        BY <4>1
    <3>3. CASE Merges(def, v, d)
      <4>1. /\ vals[x].ty = "phi" /\ vals[x].block = d
            /\ Out(def, v, a) = vals[x].args[a]
        BY <1>5, <1>6, <2>1, <3>3 DEF Merges
      <4>2. vals[x].args[a] \in Value
        BY <1>5, <1>6, <3>1, <4>1 DEF IInv, Phis
      <4>3. ssa'[x] = ssa[Out(def, v, a)]
        BY <1>3, <1>5, <3>1, <4>1
      <4>4. Home(x, d)
        BY <4>1 DEF Home
      <4>5. Out(def, v, a) # None
        BY <1>6, <4>1, <4>2 DEF None
      <4>6. QED
        BY <1>12, <1>13, <3>2, <4>3, <4>4, <4>5
    <3>4. CASE ~Merges(def, v, d)
      <4>1. x = Out(def, v, a) /\ ~Home(x, d)
        BY <1>14, <2>1, <2>2, <3>4
      <4>2. ssa'[x] = ssa[x]
        BY <1>3, <1>5, <3>1, <4>1 DEF Home
      <4>3. QED
        BY <1>12, <1>13, <2>2, <3>2, <4>1, <4>2
    <3>5. QED
      BY <3>3, <3>4
  <2>3. QED
    BY <1>1, <1>7, <1>11, <2>1, <2>2 DEF Stands, GRAVESTONE, None, Undef
<1>17. QED
  BY <1>9, <1>10, <1>15, <1>16 DEF Run

\* What is known of the reads, in every state.
Seen == Build /\ Writes /\ Run

\* Every step keeps it.
LEMMA SeenKept ==
  ASSUME IInv, IInv', Seen, [Next]_vars
  PROVE  Seen'
<1>1. Build' /\ Writes'
  BY BuildKept, WritesHold DEF Seen
<1>2. CASE Finish
  BY <1>1, <1>2, FinishReads DEF Seen
<1>3. CASE Running
  BY <1>1, <1>3, InstReads, JumpReads DEF Running, Seen
<1>4. CASE UNCHANGED vars
  <2>1. /\ UNCHANGED <<created, vals, code, succs, phase, mem, at, ssa>>
    BY <1>4 DEF vars, ssaVars, cfgVars, builder, running
  <2>2. Value' = Value /\ Block' = Block
    BY <2>1 DEF Value, Block
  <2>3. \A def : Finished(def) => Finished(def)'
    BY <2>1, <2>2 DEF Finished, Line, Passes, Merges, Out, Sets, Source
  <2>4. /\ \A x, e : Home(x, e)' <=> Home(x, e)
        /\ \A def, v, e : Merges(def, v, e)' <=> Merges(def, v, e)
    BY <2>1, <2>2 DEF Home, Merges, Out
  <2>5. \A def, seen : Visited(def, seen) => Visited(def, seen)'
    BY <2>1, <2>2, <2>4 DEF Visited
  <2>6. \A def, seen, v : Stands(def, seen, v) => Stands(def, seen, v)'
    BY <2>1, <2>4 DEF Stands
  <2>7. SUFFICES ASSUME phase = "run" PROVE Run'
    BY <1>1, <2>1 DEF Run, Seen
  <2>8. PICK def, seen : Finished(def) /\ Visited(def, seen) /\ \A v \in Place : Stands(def, seen, v)
    BY <2>7 DEF Seen, Run
  <2>9. mem = [v \in Place |-> mem[v]] /\ ssa = [x \in Value |-> ssa[x]]
    BY <2>7 DEF Seen, Run
  <2>10. QED
    BY <2>1, <2>2, <2>3, <2>5, <2>6, <2>8, <2>9 DEF Run
<1>5. CASE CreateFirst \/ Insert \/ Initialise \/ TakeResult \/ Terminate \/ Switch \/ SealAny \/ RunMachine
  <2>1. phase' = phase /\ phase = "build"
    <3>1. CASE TakeResult
      BY <3>1 DEF TakeResult, IInv, Stages
    <3>2. CASE RunMachine
      <4>1. Machine /\ phase' = phase
        BY <3>2 DEF RunMachine
      <4>2. calls # <<>> \/ sealing # NotSealing
        <5>1. LookupUse \/ LookupFinish => calls # <<>>
          BY DEF LookupUse, LookupFinish
        <5>2. SealNext => sealing # NotSealing
          BY DEF SealNext, NotSealing
        <5>3. SealEnd => sealing # NotSealing
          BY DEF SealEnd, NotSealing, None
        <5>4. QED
          BY <4>1, <5>1, <5>2, <5>3 DEF Machine
      <4>3. QED
        BY <4>1, <4>2, WhenLooking DEF IInv, Stages
    <3>3. CASE CreateFirst \/ Insert \/ Initialise \/ Terminate \/ Switch \/ SealAny
      <4>1. Building /\ phase' = phase
        BY <3>3 DEF CreateFirst, create_blocks, Insert, def_var, StartRead, StartCopy, Initialise, def_var_at_entry,
                    Terminate, insert_terminator, Switch, switch_to_block, SealAny, Seal, Building, use_var
      <4>2. QED
        BY <4>1 DEF Building
    <3>4. QED
      BY <1>5, <3>1, <3>2, <3>3
  <2>2. QED
    BY <1>1, <2>1 DEF Seen, Run
<1>6. QED
  BY <1>1, <1>2, <1>3, <1>4, <1>5 DEF Next, Seen

\* Where the run is, the value of a read holds what its variable holds.
LEMMA SeenReads ==
  ASSUME IInv, Seen
  PROVE  ReadsSeeVariable
<1>1. SUFFICES ASSUME phase = "run", at[2] <= Len(code[at[1]]), Instruction.op # "write",
                      NEW v, v = Source(Instruction), mem[v] # Undef
               PROVE  ssa[Instruction.val] = mem[v]
  BY DEF ReadsSeeVariable, Source
<1>2. PICK def, seen : Finished(def) /\ Visited(def, seen) /\ \A w \in Place : Stands(def, seen, w)
  BY <1>1 DEF Seen, Run
<1>3. PICK b, k : b = at[1] /\ k = at[2]
  OBVIOUS
<1>4. b \in Block /\ b \in 1 .. NumBlocks /\ k \in 1 .. Len(code[b])
  <2>1. at \in Block \X Nat /\ k \in 1 .. Len(code[b]) + 1 /\ k <= Len(code[b])
    BY <1>1, <1>2, <1>3 DEF Visited
  <2>2. b \in Block /\ b \in 1 .. NumBlocks
    BY <1>3, <2>1, SSABuilderAssumption DEF IInv, Graph, Block
  <2>3. code[b] \in Seq(Operation)
    BY <2>2 DEF IInv, Tables
  <2>4. Len(code[b]) \in Nat
    BY <2>3
  <2>5. QED
    BY <2>1, <2>2, <2>4
<1>5. PICK c : c = Instruction /\ c = code[b][k]
  BY <1>3 DEF Instruction
<1>6. c \in Operation /\ c.val \in Value /\ c.val # None
  <2>1. code \in [1 .. NumBlocks -> Seq(Operation)] /\ c.val \in Value
    BY <1>4, <1>5 DEF IInv, Tables
  <2>2. code[b] \in Seq(Operation)
    BY <1>4, <2>1
  <2>3. QED
    BY <1>4, <1>5, <2>1, <2>2 DEF Value, None
<1>7. v \in Place
  BY <1>1, <1>5, <1>6 DEF Source, Operation
<1>8. def[v][b][k] = c.val
  <2>1. Line(def[v][b], v, b)
    BY <1>2, <1>4, <1>7 DEF Finished
  <2>2. QED
    BY <1>1, <1>4, <1>5, <2>1 DEF Line
<1>9. Stands(def, seen, v)
  BY <1>2, <1>7
<1>10. QED
  BY <1>1, <1>3, <1>5, <1>6, <1>8, <1>9 DEF Stands

\* A read or a copy of a variable in the finished function has the value that the
\* variable holds, on every way through the function that any client can build: the
\* sentinels, aliases and phis of the builder stand for the variables that they are for.
THEOREM TheReadsSeeTheirVariables ==
  Spec => []ReadsSeeVariable
<1>1. BuilderInit => Seen
  <2> SUFFICES ASSUME BuilderInit PROVE Seen
    OBVIOUS
  <2>1. Build
    BY InitReads
  <2>2. \A b \in 1 .. NumBlocks : code[b] = <<>> /\ Len(code[b]) = 0
    BY DEF BuilderInit
  <2>3. Writes
    BY <2>2 DEF Writes
  <2>4. Run
    BY DEF BuilderInit, Run
  <2>5. QED
    BY <2>1, <2>3, <2>4 DEF Seen
<1>2. IInv /\ IInv' /\ Seen /\ [Next]_vars => Seen'
  BY SeenKept
<1>3. IInv /\ Seen => ReadsSeeVariable
  BY SeenReads
<1>4. QED
  BY <1>1, <1>2, <1>3, BuilderInvariant, PTL DEF Spec

=============================================================================
