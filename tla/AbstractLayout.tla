--------------------------- MODULE AbstractLayout ---------------------------
(***************************************************************************)
(* What a function layout promises its clients: a sequence of blocks, and  *)
(* for each of them a sequence of instructions. An instruction lives in at *)
(* most one place, a block that is not laid out has no instructions.       *)
(***************************************************************************)
EXTENDS SequencesExt

CONSTANTS Block, Inst

VARIABLES order,   \* the blocks, in layout order
          body     \* body[b]: the instructions of b, in order

vars == <<order, body>>

Laid    == Range(order)
Placed  == UNION {Range(body[b]) : b \in Block}

Init == order = <<>> /\ body = [b \in Block |-> <<>>]

Reset == order' = <<>> /\ body' = [b \in Block |-> <<>>]

\* b becomes the k-th block.
PlaceBlock(b, k) ==
  /\ b \notin Laid
  /\ order' = InsertAt(order, k, b)
  /\ UNCHANGED body

\* b leaves the layout together with its instructions.
DropBlock(b) ==
  /\ \E k \in DOMAIN order : order[k] = b /\ order' = RemoveAt(order, k)
  /\ body' = [body EXCEPT ![b] = <<>>]

EmptyBlock(b) ==
  /\ body' = [body EXCEPT ![b] = <<>>]
  /\ UNCHANGED order

\* i becomes the k-th instruction of b.
PlaceInst(i, b, k) ==
  /\ i \notin Placed /\ b \in Laid
  /\ body' = [body EXCEPT ![b] = InsertAt(@, k, i)]
  /\ UNCHANGED order

DropInst(i) ==
  /\ \E b \in Block : \E k \in DOMAIN body[b] :
       body[b][k] = i /\ body' = [body EXCEPT ![b] = RemoveAt(@, k)]
  /\ UNCHANGED order

\* p loses its last instruction and gets everything s has; s disappears.
Merge(p, s) ==
  /\ p # s /\ p \in Laid /\ body[p] # <<>>
  /\ body' = [body EXCEPT ![p] = Front(@) \o body[s], ![s] = <<>>]
  /\ \E k \in DOMAIN order : order[k] = s /\ order' = RemoveAt(order, k)

\* n comes right behind b and takes b's instructions from the k-th on.
Split(n, b, k) ==
  /\ n \notin Laid /\ b \in Laid
  /\ body' = [body EXCEPT ![b] = SubSeq(@, 1, k - 1), ![n] = SubSeq(body[b], k, Len(body[b]))]
  /\ \E p \in DOMAIN order : order[p] = b /\ order' = InsertAt(order, p + 1, n)

Next ==
  \/ Reset
  \/ \E b \in Block : \/ DropBlock(b) \/ EmptyBlock(b)
                      \/ \E k \in 1 .. Len(order) + 1 : PlaceBlock(b, k)
  \/ \E i \in Inst : \/ DropInst(i)
                     \/ \E b \in Block : \E k \in 1 .. Len(body[b]) + 1 : PlaceInst(i, b, k)
  \/ \E b, c \in Block : \/ Merge(b, c)
                         \/ \E k \in DOMAIN body[c] : Split(b, c, k)

Spec == Init /\ [][Next]_vars

=============================================================================
