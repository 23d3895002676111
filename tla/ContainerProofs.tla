-------------------------- MODULE ContainerProofs --------------------------
(***************************************************************************)
(* Dead code elimination over its work queue removes no instruction twice, *)
(* and at its end it has removed exactly the dead instructions, for        *)
(* functions of any size. The words of a list pool are always divided into  *)
(* the blocks of its lists and of its free lists, and through its handle   *)
(* each list is a sequence of its own, for pools of any size.              *)
(***************************************************************************)
EXTENDS DeadCode, ListPoolRefinement, SequenceTheorems, FiniteSetTheorems,
        WellFoundedInduction, TLAPS

InQueue(i) == \E k \in 1 .. Len(deque) : deque[k] = i

\* Arguments of the removed instruction that the loop has yet to insert.
Pending(i) == cur # 0 /\ \E k \in 1 .. Len(args[cur]) : k >= at /\ args[cur][k] = i

\* What the bit of an instruction in the set means: once the scan has passed
\* an instruction of the layout, the bit says that it is in the queue; the bit
\* of a removed instruction stays set, which is why it is never queued again.
Queue ==
  /\ \A k \in 1 .. Len(deque) : deque[k] \in set /\ deque[k] \in placed /\ deque[k] > pos
  /\ \A j, k \in 1 .. Len(deque) : deque[j] = deque[k] => j = k
  /\ \A i \in Inst \ set : i \in placed /\ i > pos
  /\ \A i \in placed : i > pos /\ i \in set => InQueue(i)

\* An instruction that died after the scan has passed it will be looked at.
DeadQueued == \A i \in placed : i > pos /\ inst_dead(i) => InQueue(i) \/ Pending(i)

\* What has been removed was not to be kept and is read by nobody.
Removed ==
  /\ placed \subseteq placed0 /\ attached \subseteq attached0
  /\ attached0 \ attached \subseteq placed0 \ placed
  /\ \A i \in placed0 \ placed : i \notin keep /\ \A x \in attached : ~Reads(x, i)

\* The inductive invariant.
DeadCodeInv == TypeOK /\ NeverRemovedTwice /\ Queue /\ DeadQueued /\ Removed /\ OnlyDeadRemoved

-----------------------------------------------------------------------------
\* Removed and OnlyDeadRemoved are about the function, the layout and the use
\* lists alone.
LEMMA FrameRemoved ==
  ASSUME Removed, OnlyDeadRemoved, args' = args, keep' = keep,
         placed0' = placed0, attached0' = attached0, placed' = placed, attached' = attached
  PROVE  Removed' /\ OnlyDeadRemoved'
<1>1. \A x, y : Reads(x, y)' <=> Reads(x, y)
  BY DEF Reads
<1>2. Removed'
  BY <1>1 DEF Removed
<1>3. \A S \in SUBSET Inst : Closed(S)' <=> Closed(S)
  BY <1>1 DEF Closed
<1>4. OnlyDeadRemoved'
  BY <1>3 DEF OnlyDeadRemoved
<1>5. QED
  BY <1>2, <1>4

LEMMA InitInv == Init => DeadCodeInv
<1> SUFFICES ASSUME Init PROVE DeadCodeInv
  OBVIOUS
<1> USE DeadCodeAssumption
<1>1. TypeOK
  <2>1. PICK f \in Functions : args = f.args /\ keep = f.keep
                               /\ placed = f.placed /\ attached = f.attached
    BY DEF Init
  <2>2. /\ f.args \in [Inst -> UNION {[1 .. n -> Inst] : n \in 0 .. MaxArgs}]
        /\ f.keep \subseteq Inst /\ f.placed \subseteq Inst /\ f.attached \subseteq Inst
    BY DEF Functions
  <2>3. UNION {[1 .. n -> Inst] : n \in 0 .. MaxArgs} \subseteq Seq(Inst)
    OBVIOUS
  <2>4. args \in [Inst -> Seq(Inst)]
    BY <2>1, <2>2, <2>3
  <2>5. /\ pos = N /\ cur = 0 /\ at = 1 /\ panicked = FALSE
        /\ set = Inst /\ placed0 = placed /\ attached0 = attached
    BY DEF Init
  <2>6. deque \in Seq(Inst)
    BY DEF Init
  <2>7. pos \in 0 .. N /\ cur \in 0 .. N /\ at \in Nat \ {0}
    BY <2>5
  <2>8. panicked \in BOOLEAN
    BY <2>5
  <2>9. /\ keep \subseteq Inst /\ placed \subseteq Inst /\ attached \subseteq Inst
        /\ placed0 \subseteq Inst /\ attached0 \subseteq Inst /\ set \subseteq Inst
    BY <2>1, <2>2, <2>5
  <2>10. QED
    BY <2>4, <2>6, <2>7, <2>8, <2>9 DEF TypeOK
<1>2. /\ deque = <<>> /\ set = Inst /\ pos = N /\ ~panicked
      /\ placed0 = placed /\ attached0 = attached
  BY DEF Init
<1>3. \A i \in Inst : ~(i > pos)
  BY <1>2 DEF Inst
<1>4. Queue /\ DeadQueued
  BY <1>1, <1>2, <1>3 DEF Queue, DeadQueued, TypeOK
<1>5. Removed /\ OnlyDeadRemoved /\ NeverRemovedTwice
  BY <1>2 DEF Removed, OnlyDeadRemoved, NeverRemovedTwice
<1>6. QED
  BY <1>1, <1>4, <1>5 DEF DeadCodeInv

-----------------------------------------------------------------------------
(* One look at an instruction, by the scan or from the queue.              *)

\* The instruction i of the layout is processed; afterwards the scan has
\* passed i as well, and the queue holds what it held, without i.
Visit(i) ==
  /\ i \in placed /\ cur = 0 /\ process(i)
  /\ args' = args /\ keep' = keep /\ placed0' = placed0 /\ attached0' = attached0
  /\ pos' \in 0 .. N
  /\ \A x \in Inst : x > pos' <=> (x > pos \/ x = i)
  /\ deque' \in Seq(Inst)
  /\ \A k \in 1 .. Len(deque') : deque'[k] # i /\ \E m \in 1 .. Len(deque) : deque'[k] = deque[m]
  /\ \A j, k \in 1 .. Len(deque') : deque'[j] = deque'[k] => j = k
  /\ \A m \in 1 .. Len(deque) : deque[m] # i => \E k \in 1 .. Len(deque') : deque'[k] = deque[m]

LEMMA RetainKeeps ==
  ASSUME DeadCodeInv, NEW i \in Inst, Visit(i), retain(i)
  PROVE  DeadCodeInv'
<1> USE DeadCodeAssumption
<1>1. /\ ~inst_dead(i) /\ set' = set \ {i} /\ attached' = attached /\ placed' = placed
      /\ panicked' = panicked /\ cur' = cur /\ at' = at
      /\ args' = args /\ keep' = keep /\ placed0' = placed0 /\ attached0' = attached0
      /\ cur = 0 /\ i \in placed
  BY DEF retain, Visit
<1>2. TypeOK' /\ NeverRemovedTwice'
  BY <1>1 DEF DeadCodeInv, TypeOK, NeverRemovedTwice, Visit
<1>3. ASSUME NEW x \in Inst PROVE InQueue(x)' <=> InQueue(x) /\ x # i
  <2>1. ASSUME InQueue(x)' PROVE InQueue(x) /\ x # i
    BY <2>1 DEF Visit, InQueue
  <2>2. ASSUME InQueue(x), x # i PROVE InQueue(x)'
    BY <2>2 DEF Visit, InQueue
  <2>3. QED
    BY <2>1, <2>2
<1>4. \A x \in Inst : inst_dead(x)' <=> inst_dead(x)
  BY <1>1 DEF inst_dead, Reads
<1>5. Queue'
  <2>1. ASSUME NEW k \in 1 .. Len(deque')
        PROVE  deque'[k] \in set' /\ deque'[k] \in placed' /\ deque'[k] > pos'
    <3>1. PICK m \in 1 .. Len(deque) : deque'[k] = deque[m]
      BY DEF Visit
    <3>2. /\ deque[m] \in set /\ deque[m] \in placed /\ deque[m] > pos /\ deque[m] \in Inst
          /\ deque[m] # i
      BY <3>1 DEF DeadCodeInv, Queue, TypeOK, Visit
    <3>3. QED
      BY <1>1, <3>1, <3>2 DEF Visit
  <2>2. \A x \in Inst \ set' : x \in placed' /\ x > pos'
    BY <1>1 DEF DeadCodeInv, Queue, Visit
  <2>3. \A x \in placed' : x > pos' /\ x \in set' => InQueue(x)'
    BY <1>1, <1>3 DEF DeadCodeInv, Queue, TypeOK, Visit
  <2>4. QED
    BY <2>1, <2>2, <2>3 DEF Queue, Visit
<1>6. DeadQueued'
  <2>1. \A x \in placed : x > pos /\ inst_dead(x) => InQueue(x)
    BY <1>1 DEF DeadCodeInv, DeadQueued, Pending
  <2>2. QED
    BY <1>1, <1>3, <1>4, <2>1 DEF DeadCodeInv, DeadQueued, TypeOK, Visit
<1>7. Removed' /\ OnlyDeadRemoved'
  BY <1>1, FrameRemoved DEF DeadCodeInv
<1>8. QED
  BY <1>2, <1>5, <1>6, <1>7 DEF DeadCodeInv

LEMMA RemoveKeeps ==
  ASSUME DeadCodeInv, NEW i \in Inst, Visit(i), zap_inst(i)
  PROVE  DeadCodeInv'
<1> USE DeadCodeAssumption
<1>1. /\ inst_dead(i) /\ set' = set /\ attached' = attached \ {i} /\ placed' = placed \ {i}
      /\ panicked' = (i \notin placed) /\ cur' = i /\ at' = 1
      /\ args' = args /\ keep' = keep /\ placed0' = placed0 /\ attached0' = attached0
      /\ cur = 0 /\ i \in placed
  BY DEF zap_inst, Visit
<1>2. TypeOK' /\ NeverRemovedTwice'
  BY <1>1 DEF DeadCodeInv, TypeOK, NeverRemovedTwice, Visit, Inst
<1>3. \A x \in Inst : InQueue(x)' <=> InQueue(x) /\ x # i
  BY DEF Visit, InQueue
<1>4. \A x, y \in Inst : Reads(x, y)' <=> Reads(x, y)
  BY <1>1 DEF Reads
<1>5. Queue'
  <2>1. ASSUME NEW k \in 1 .. Len(deque')
        PROVE  deque'[k] \in set' /\ deque'[k] \in placed' /\ deque'[k] > pos'
    <3>1. PICK m \in 1 .. Len(deque) : deque'[k] = deque[m]
      BY DEF Visit
    <3>2. /\ deque[m] \in set /\ deque[m] \in placed /\ deque[m] > pos /\ deque[m] \in Inst
          /\ deque[m] # i
      BY <3>1 DEF DeadCodeInv, Queue, TypeOK, Visit
    <3>3. QED
      BY <1>1, <3>1, <3>2 DEF Visit
  <2>2. i \in set
    <3>1. CASE i > pos
      <4>1. ~Pending(i)
        BY <1>1 DEF Pending
      <4>2. InQueue(i)
        BY <1>1, <3>1, <4>1 DEF DeadCodeInv, DeadQueued
      <4>3. QED
        BY <4>2 DEF DeadCodeInv, Queue, InQueue
    <3>2. CASE ~(i > pos)
      BY <3>2 DEF DeadCodeInv, Queue
    <3>3. QED
      BY <3>1, <3>2
  <2>3. \A x \in Inst \ set' : x \in placed' /\ x > pos'
    BY <1>1, <2>2 DEF DeadCodeInv, Queue, Visit
  <2>4. \A x \in placed' : x > pos' /\ x \in set' => InQueue(x)'
    BY <1>1, <1>3 DEF DeadCodeInv, Queue, TypeOK, Visit
  <2>5. QED
    BY <2>1, <2>3, <2>4 DEF Queue, Visit
<1>6. DeadQueued'
  <2> SUFFICES ASSUME NEW x \in placed', x > pos', inst_dead(x)'
               PROVE  InQueue(x)' \/ Pending(x)'
    BY DEF DeadQueued
  <2>1. x \in Inst /\ x \in placed /\ x # i /\ x > pos
    BY <1>1 DEF DeadCodeInv, TypeOK, Visit
  <2>2. CASE Reads(i, x)
    <3>1. PICK k \in 1 .. Len(args[i]) : args[i][k] = x
      BY <2>2 DEF Reads
    <3>2. i # 0 /\ k >= 1
      BY DEF Inst
    <3>3. QED
      BY <1>1, <3>1, <3>2 DEF Pending
  <2>3. CASE ~Reads(i, x)
    <3>1. inst_dead(x)
      BY <1>1, <1>4, <2>1, <2>3 DEF inst_dead, DeadCodeInv, TypeOK
    <3>2. InQueue(x)
      BY <1>1, <2>1, <3>1 DEF DeadCodeInv, DeadQueued, Pending
    <3>3. QED
      BY <1>3, <2>1, <3>2
  <2>4. QED
    BY <2>2, <2>3
<1>7. Removed'
  <2>1. /\ placed' \subseteq placed0' /\ attached' \subseteq attached0'
        /\ attached0' \ attached' \subseteq placed0' \ placed'
    BY <1>1 DEF DeadCodeInv, Removed
  <2>2. ASSUME NEW y \in placed0 \ placed'
        PROVE  y \notin keep /\ \A x \in attached' : ~Reads(x, y)'
    <3>1. y \in Inst /\ attached' \subseteq Inst
      BY <1>2 DEF DeadCodeInv, TypeOK
    <3>2. y \notin keep /\ \A x \in attached : ~Reads(x, y)
      <4>1. CASE y = i
        BY <1>1, <4>1 DEF inst_dead
      <4>2. CASE y # i
        BY <1>1, <4>2 DEF DeadCodeInv, Removed
      <4>3. QED
        BY <4>1, <4>2
    <3>3. QED
      BY <1>1, <1>4, <3>1, <3>2
  <2>3. QED
    BY <1>1, <2>1, <2>2 DEF Removed
<1>8. OnlyDeadRemoved'
  <2> SUFFICES ASSUME NEW S \in SUBSET Inst, Closed(S)'
               PROVE  placed0' \ placed' \subseteq S
    BY DEF OnlyDeadRemoved
  <2>1. Closed(S)
    BY <1>1 DEF Closed, Reads
  <2>2. placed0 \ placed \subseteq S
    BY <2>1 DEF DeadCodeInv, OnlyDeadRemoved
  <2>3. i \in placed0 \ keep
    BY <1>1 DEF DeadCodeInv, Removed, inst_dead
  <2>4. \A x \in attached0 : Reads(x, i) => x \in S
    BY <1>1, <2>2 DEF DeadCodeInv, Removed, inst_dead
  <2>5. i \in S
    BY <2>1, <2>3, <2>4 DEF Closed
  <2>6. QED
    BY <1>1, <2>2, <2>5
<1>9. QED
  BY <1>2, <1>5, <1>6, <1>7, <1>8 DEF DeadCodeInv

-----------------------------------------------------------------------------
(* The steps of the pass.                                                  *)

LEMMA ScanKeeps ==
  ASSUME DeadCodeInv, Scan
  PROVE  DeadCodeInv'
<1> USE DeadCodeAssumption
<1>1. /\ cur = 0 /\ pos \in Nat /\ pos > 0 /\ pos \in Inst /\ pos' = pos - 1 /\ deque' = deque
      /\ args' = args /\ keep' = keep /\ placed0' = placed0 /\ attached0' = attached0
  BY DEF Scan, idle, func, DeadCodeInv, TypeOK, Inst
<1>2. \A x \in Inst : x > pos' <=> (x > pos \/ x = pos)
  BY <1>1 DEF Inst
<1>3. CASE pos \in placed /\ process(pos)
  <2>1. \A k \in 1 .. Len(deque) : deque[k] > pos /\ deque[k] # pos
    BY <1>1 DEF DeadCodeInv, Queue, TypeOK, Inst
  <2>2. Visit(pos)
    <3>1. pos' \in 0 .. N /\ deque' \in Seq(Inst)
      BY <1>1 DEF DeadCodeInv, TypeOK
    <3>2. \A j, k \in 1 .. Len(deque') : deque'[j] = deque'[k] => j = k
      BY <1>1 DEF DeadCodeInv, Queue
    <3>3. QED
      BY <1>1, <1>2, <1>3, <2>1, <3>1, <3>2 DEF Visit
  <2>3. QED
    BY <1>1, <1>3, <2>2, RetainKeeps, RemoveKeeps DEF process
<1>4. CASE pos \notin placed /\ UNCHANGED <<placed, attached, set, cur, at, panicked>>
  <2>1. /\ placed' = placed /\ attached' = attached /\ set' = set /\ cur' = cur
        /\ at' = at /\ panicked' = panicked
    BY <1>4
  <2>2. TypeOK' /\ NeverRemovedTwice'
    BY <1>1, <2>1 DEF DeadCodeInv, TypeOK, NeverRemovedTwice
  <2>3. \A x \in placed : x \in Inst /\ (x > pos' <=> x > pos)
    BY <1>2, <1>4 DEF DeadCodeInv, TypeOK
  <2>4. \A x : InQueue(x)' <=> InQueue(x)
    BY <1>1 DEF InQueue
  <2>5. Queue'
    BY <1>1, <2>1, <2>3, <2>4 DEF DeadCodeInv, Queue
  <2>6. DeadQueued'
    BY <1>1, <2>1, <2>3, <2>4 DEF DeadCodeInv, DeadQueued, Pending, inst_dead, Reads
  <2>7. Removed' /\ OnlyDeadRemoved'
    BY <1>1, <2>1, FrameRemoved DEF DeadCodeInv
  <2>8. QED
    BY <2>2, <2>5, <2>6, <2>7 DEF DeadCodeInv
<1>5. QED
  BY <1>3, <1>4 DEF Scan

LEMMA TakeKeeps ==
  ASSUME DeadCodeInv, TakeNext
  PROVE  DeadCodeInv'
<1> USE DeadCodeAssumption
<1>1. /\ cur = 0 /\ pos = 0 /\ pos' = pos /\ deque \in Seq(Inst) /\ deque # <<>>
      /\ deque' = Tail(deque)
      /\ args' = args /\ keep' = keep /\ placed0' = placed0 /\ attached0' = attached0
  BY DEF TakeNext, idle, func, DeadCodeInv, TypeOK
<1>2. PICK i \in Inst : i = Head(deque)
  BY <1>1, HeadTailProperties
<1>3. /\ Len(deque) \in Nat \ {0} /\ deque[1] = i
      /\ Tail(deque) \in Seq(Inst) /\ Len(Tail(deque)) = Len(deque) - 1
      /\ \A k \in 1 .. Len(Tail(deque)) : Tail(deque)[k] = deque[k + 1]
  BY <1>1, <1>2, HeadTailProperties, EmptySeq
<1>4. i \in placed /\ i > pos
  BY <1>3 DEF DeadCodeInv, Queue
<1>5. Visit(i)
  <2>1. \A j, k \in 1 .. Len(deque) : deque[j] = deque[k] => j = k
    BY DEF DeadCodeInv, Queue
  <2>2. \A k \in 1 .. Len(deque') : k + 1 \in 1 .. Len(deque) /\ k + 1 # 1 /\ deque'[k] = deque[k + 1]
    BY <1>1, <1>3
  <2>3. \A k \in 1 .. Len(deque') : deque'[k] # i /\ \E m \in 1 .. Len(deque) : deque'[k] = deque[m]
    <3> SUFFICES ASSUME NEW k \in 1 .. Len(deque')
                 PROVE  deque'[k] # i /\ \E m \in 1 .. Len(deque) : deque'[k] = deque[m]
      OBVIOUS
    <3>1. 1 \in 1 .. Len(deque)
      BY <1>3
    <3>2. QED
      BY <1>3, <2>1, <2>2, <3>1
  <2>4. \A j, k \in 1 .. Len(deque') : deque'[j] = deque'[k] => j = k
    <3> SUFFICES ASSUME NEW j \in 1 .. Len(deque'), NEW k \in 1 .. Len(deque'),
                        deque'[j] = deque'[k]
                 PROVE  j = k
      OBVIOUS
    <3>1. j + 1 = k + 1
      BY <2>1, <2>2
    <3>2. QED
      BY <3>1
  <2>5. \A m \in 1 .. Len(deque) : deque[m] # i => \E k \in 1 .. Len(deque') : deque'[k] = deque[m]
    <3> SUFFICES ASSUME NEW m \in 1 .. Len(deque), deque[m] # i
                 PROVE  \E k \in 1 .. Len(deque') : deque'[k] = deque[m]
      OBVIOUS
    <3>1. m - 1 \in 1 .. Len(deque') /\ (m - 1) + 1 = m
      BY <1>1, <1>3
    <3>2. QED
      BY <2>2, <3>1
  <2>6. /\ process(i) /\ pos' \in 0 .. N /\ deque' \in Seq(Inst)
        /\ \A x \in Inst : x > pos' <=> (x > pos \/ x = i)
    BY <1>1, <1>2, <1>3, <1>4 DEF TakeNext
  <2>7. QED
    BY <1>1, <1>4, <2>3, <2>4, <2>5, <2>6 DEF Visit
<1>6. process(i)
  BY <1>2 DEF TakeNext
<1>7. QED
  BY <1>5, <1>6, RetainKeeps, RemoveKeeps DEF process

LEMMA ArgumentKeeps ==
  ASSUME DeadCodeInv, Argument
  PROVE  DeadCodeInv'
<1> USE DeadCodeAssumption
<1>1. /\ cur # 0 /\ cur \in Inst /\ at \in Nat \ {0} /\ at' = at + 1
      /\ placed' = placed /\ attached' = attached /\ pos' = pos /\ cur' = cur
      /\ panicked' = panicked
      /\ args' = args /\ keep' = keep /\ placed0' = placed0 /\ attached0' = attached0
      /\ at <= Len(args[cur])
  BY DEF Argument, func, DeadCodeInv, TypeOK, Inst
<1>2. args[cur] \in Seq(Inst) /\ Len(args[cur]) \in Nat /\ deque \in Seq(Inst) /\ Len(deque) \in Nat
  BY <1>1, LenProperties DEF DeadCodeInv, TypeOK
<1>3. PICK i \in Inst : i = args[cur][at]
  BY <1>1, <1>2, ElementOfSeq
<1>4. set' = set \cup {i} /\ deque' = IF i \in set THEN deque ELSE Append(deque, i)
  BY <1>3 DEF Argument, insert_work
<1>5. /\ deque' \in Seq(Inst)
      /\ i \in set => deque' = deque
      /\ i \notin set => /\ Len(deque') = Len(deque) + 1 /\ deque'[Len(deque) + 1] = i
                         /\ \A k \in 1 .. Len(deque) : deque'[k] = deque[k]
  BY <1>2, <1>4
<1>6. TypeOK' /\ NeverRemovedTwice'
  BY <1>1, <1>4, <1>5 DEF DeadCodeInv, TypeOK, NeverRemovedTwice
<1>7. \A x \in Inst : InQueue(x)' <=> InQueue(x) \/ (x = i /\ i \notin set)
  <2>1. CASE i \in set
    BY <1>5, <2>1 DEF InQueue
  <2>2. CASE i \notin set
    BY <1>2, <1>5, <2>2 DEF InQueue
  <2>3. QED
    BY <2>1, <2>2
<1>8. Queue'
  <2>1. CASE i \in set
    BY <1>1, <1>4, <1>5, <2>1 DEF DeadCodeInv, Queue, InQueue
  <2>2. CASE i \notin set
    <3>1. i \in placed /\ i > pos
      BY <2>2 DEF DeadCodeInv, Queue
    <3>2. \A k \in 1 .. Len(deque) : deque[k] # i
      BY <2>2 DEF DeadCodeInv, Queue
    <3>3. \A k \in 1 .. Len(deque') : deque'[k] \in set' /\ deque'[k] \in placed' /\ deque'[k] > pos'
      BY <1>1, <1>2, <1>4, <1>5, <2>2, <3>1 DEF DeadCodeInv, Queue
    <3>4. \A j, k \in 1 .. Len(deque') : deque'[j] = deque'[k] => j = k
      BY <1>2, <1>5, <2>2, <3>2 DEF DeadCodeInv, Queue
    <3>5. \A x \in Inst \ set' : x \in placed' /\ x > pos'
      BY <1>1, <1>4 DEF DeadCodeInv, Queue
    <3>6. \A x \in placed' : x > pos' /\ x \in set' => InQueue(x)'
      BY <1>1, <1>4, <1>7, <2>2 DEF DeadCodeInv, Queue, TypeOK
    <3>7. QED
      BY <3>3, <3>4, <3>5, <3>6 DEF Queue
  <2>3. QED
    BY <2>1, <2>2
<1>9. DeadQueued'
  <2> SUFFICES ASSUME NEW x \in placed, x > pos, inst_dead(x)
               PROVE  InQueue(x)' \/ Pending(x)'
    BY <1>1 DEF DeadQueued, inst_dead, Reads
  <2>1. x \in Inst
    BY DEF DeadCodeInv, TypeOK
  <2>2. CASE x = i
    <3>1. InQueue(x) \/ x \notin set
      BY DEF DeadCodeInv, Queue
    <3>2. QED
      BY <1>7, <2>1, <2>2, <3>1
  <2>3. CASE InQueue(x)
    BY <1>7, <2>1, <2>3
  <2>4. CASE x # i /\ Pending(x)
    <3>1. PICK k \in 1 .. Len(args[cur]) : k >= at /\ args[cur][k] = x
      BY <2>4 DEF Pending
    <3>2. k >= at + 1
      BY <1>1, <1>2, <1>3, <2>4, <3>1
    <3>3. QED
      BY <1>1, <3>1, <3>2 DEF Pending
  <2>5. QED
    BY <2>2, <2>3, <2>4 DEF DeadCodeInv, DeadQueued
<1>10. Removed' /\ OnlyDeadRemoved'
  BY <1>1, FrameRemoved DEF DeadCodeInv
<1>11. QED
  BY <1>6, <1>8, <1>9, <1>10 DEF DeadCodeInv

LEMMA ArgumentsDoneKeeps ==
  ASSUME DeadCodeInv, ArgumentsDone
  PROVE  DeadCodeInv'
<1> USE DeadCodeAssumption
<1>1. /\ cur # 0 /\ cur \in Inst /\ at \in Nat /\ cur' = 0 /\ at' = 1
      /\ placed' = placed /\ attached' = attached /\ pos' = pos /\ deque' = deque
      /\ set' = set /\ panicked' = panicked
      /\ args' = args /\ keep' = keep /\ placed0' = placed0 /\ attached0' = attached0
      /\ at > Len(args[cur])
  BY DEF ArgumentsDone, func, queue, DeadCodeInv, TypeOK, Inst
<1>2. Len(args[cur]) \in Nat
  BY <1>1, LenProperties DEF DeadCodeInv, TypeOK
<1>3. TypeOK' /\ NeverRemovedTwice'
  BY <1>1 DEF DeadCodeInv, TypeOK, NeverRemovedTwice
<1>4. \A x : ~Pending(x)
  BY <1>1, <1>2 DEF Pending
<1>5. Queue' /\ DeadQueued'
  BY <1>1, <1>4 DEF DeadCodeInv, Queue, DeadQueued, InQueue, inst_dead, Reads
<1>6. Removed' /\ OnlyDeadRemoved'
  BY <1>1, FrameRemoved DEF DeadCodeInv
<1>7. QED
  BY <1>3, <1>5, <1>6 DEF DeadCodeInv

LEMMA StutterKeeps ==
  ASSUME DeadCodeInv, UNCHANGED vars
  PROVE  DeadCodeInv'
<1>1. /\ args' = args /\ keep' = keep /\ placed0' = placed0 /\ attached0' = attached0
      /\ placed' = placed /\ attached' = attached /\ pos' = pos /\ deque' = deque
      /\ set' = set /\ panicked' = panicked /\ cur' = cur /\ at' = at
  BY DEF vars, func, queue
<1>2. TypeOK' /\ NeverRemovedTwice'
  BY <1>1 DEF DeadCodeInv, TypeOK, NeverRemovedTwice
<1>3. Queue' /\ DeadQueued'
  BY <1>1 DEF DeadCodeInv, Queue, DeadQueued, InQueue, Pending, inst_dead, Reads
<1>4. Removed' /\ OnlyDeadRemoved'
  BY <1>1, FrameRemoved DEF DeadCodeInv
<1>5. QED
  BY <1>2, <1>3, <1>4 DEF DeadCodeInv

-----------------------------------------------------------------------------
(* The theorems.                                                           *)

\* The inductive invariant holds at every step of the pass.
THEOREM DeadCodeInvariant == Spec => []DeadCodeInv
<1>1. DeadCodeInv /\ [Next]_vars => DeadCodeInv'
  BY ScanKeeps, TakeKeeps, ArgumentKeeps, ArgumentsDoneKeeps, StutterKeeps DEF Next
<1>2. QED
  BY InitInv, <1>1, PTL DEF Spec

\* remove_inst never panics with "Instruction already removed."
THEOREM DeadCodeNoPanic == Spec => []NeverRemovedTwice
<1>1. DeadCodeInv => NeverRemovedTwice
  BY DEF DeadCodeInv
<1>2. QED
  BY DeadCodeInvariant, <1>1, PTL

\* What a remaining instruction reads remains.
THEOREM DeadCodeSound == Spec => []NoReaderLeft
<1>1. DeadCodeInv => NoReaderLeft
  BY DEF DeadCodeInv, Removed, NoReaderLeft, Reads
<1>2. QED
  BY DeadCodeInvariant, <1>1, PTL

\* At the end of the pass no instruction of the layout is dead.
THEOREM DeadCodeComplete == Spec => []NothingDeadLeft
<1>1. DeadCodeInv => NothingDeadLeft
  <2> SUFFICES ASSUME DeadCodeInv, Done, NEW i \in placed, inst_dead(i) PROVE FALSE
    BY DEF NothingDeadLeft
  <2>1. i > pos /\ pos = 0 /\ cur = 0 /\ deque = <<>>
    BY DeadCodeAssumption DEF Done, idle, DeadCodeInv, TypeOK, Inst
  <2>2. InQueue(i) \/ Pending(i)
    BY <2>1 DEF DeadCodeInv, DeadQueued
  <2>3. QED
    BY <2>1, <2>2 DEF InQueue, Pending
<1>2. QED
  BY DeadCodeInvariant, <1>1, PTL

\* Only instructions of the smallest closed set are ever removed.
THEOREM DeadCodeMinimal == Spec => []OnlyDeadRemoved
<1>1. DeadCodeInv => OnlyDeadRemoved
  BY DEF DeadCodeInv
<1>2. QED
  BY DeadCodeInvariant, <1>1, PTL

-----------------------------------------------------------------------------
(* Induction and recursion over the natural numbers.                       *)

\* A set of numbers that is not empty has a least one.
LEMMA LeastNat ==
  ASSUME NEW T, T \subseteq Nat, T # {}
  PROVE  \E m \in T : \A k \in T : m <= k
<1>1. IsWellFoundedOn(OpToRel(<, Nat), Nat)
  BY NatLessThanWellFounded
<1>2. PICK m \in T : \A k \in T : ~(<<k, m>> \in OpToRel(<, Nat))
  BY <1>1, WFMin
<1>3. \A k \in T : ~(k < m)
  BY <1>2 DEF OpToRel
<1>4. QED
  BY <1>3

\* A set of numbers with 0 and the successors of its elements has all of them.
LEMMA AllNat ==
  ASSUME NEW T, T \subseteq Nat, 0 \in T, \A n \in T : n + 1 \in T
  PROVE  T = Nat
<1>1. SUFFICES ASSUME Nat \ T # {} PROVE FALSE
  OBVIOUS
<1>2. PICK m \in Nat \ T : \A k \in Nat \ T : m <= k
  <2>1. Nat \ T \subseteq Nat
    OBVIOUS
  <2>2. QED
    BY <1>1, <2>1, LeastNat
<1>3. m # 0
  OBVIOUS
<1>4. m - 1 \in Nat /\ ~(m <= m - 1) /\ (m - 1) + 1 = m
  BY <1>3
<1>5. m - 1 \in T
  BY <1>2, <1>4
<1>6. QED
  BY <1>4, <1>5

\* The first n + 1 values of a recursion.
Runs(D, start, step, n) ==
  {f \in [0 .. n -> D] : f[0] = start /\ \A k \in 1 .. n : f[k] = step[f[k - 1]]}

\* There are such values.
LEMMA RunsExist ==
  ASSUME NEW D, NEW start \in D, NEW step \in [D -> D]
  PROVE  \A n \in Nat : \E f : f \in Runs(D, start, step, n)
<1>1. PICK T : T = {n \in Nat : \E f : f \in Runs(D, start, step, n)}
  OBVIOUS
<1>2. 0 \in T
  <2>1. [k \in 0 .. 0 |-> start] \in Runs(D, start, step, 0)
    BY DEF Runs
  <2>2. QED
    BY <1>1, <2>1
<1>3. ASSUME NEW n \in T PROVE n + 1 \in T
  <2>1. n \in Nat
    BY <1>1
  <2>2. PICK f : f \in Runs(D, start, step, n)
    BY <1>1
  <2>3. f \in [0 .. n -> D] /\ f[0] = start /\ \A k \in 1 .. n : f[k] = step[f[k - 1]]
    BY <2>2 DEF Runs
  <2>4. PICK g : g = [k \in 0 .. n + 1 |-> IF k = n + 1 THEN step[f[n]] ELSE f[k]]
    OBVIOUS
  <2>5. g \in [0 .. n + 1 -> D]
    <3>1. n \in 0 .. n /\ \A k \in 0 .. n + 1 : k = n + 1 \/ k \in 0 .. n
      BY <2>1
    <3>2. \A k \in 0 .. n + 1 : g[k] \in D
      BY <2>3, <2>4, <3>1
    <3>3. QED
      BY <2>4, <3>2
  <2>6. g[0] = start
    <3>1. 0 \in 0 .. n + 1 /\ 0 # n + 1
      BY <2>1
    <3>2. QED
      BY <2>3, <2>4, <3>1
  <2>7. ASSUME NEW k \in 1 .. n + 1 PROVE g[k] = step[g[k - 1]]
    <3>1. k - 1 \in 0 .. n + 1 /\ k - 1 # n + 1 /\ k \in 0 .. n + 1
      BY <2>1
    <3>2. g[k - 1] = f[k - 1]
      BY <2>4, <3>1
    <3>3. CASE k = n + 1
      <4>1. k - 1 = n
        BY <2>1, <3>3
      <4>2. QED
        BY <2>4, <3>1, <3>2, <3>3, <4>1
    <3>4. CASE k # n + 1
      <4>1. k \in 1 .. n
        BY <2>1, <3>4
      <4>2. g[k] = f[k]
        BY <2>4, <3>1, <3>4
      <4>3. QED
        BY <2>3, <3>2, <4>1, <4>2
    <3>5. QED
      BY <3>3, <3>4
  <2>8. g \in Runs(D, start, step, n + 1)
    BY <2>5, <2>6, <2>7 DEF Runs
  <2>9. QED
    BY <1>1, <2>1, <2>8
<1>4. T \subseteq Nat
  BY <1>1
<1>5. T = Nat
  BY <1>2, <1>3, <1>4, AllNat
<1>6. QED
  BY <1>1, <1>5

\* They are the same however far they go.
LEMMA RunsAgree ==
  ASSUME NEW D, NEW start, NEW step, NEW m \in Nat, NEW f \in Runs(D, start, step, m),
         NEW n \in Nat, NEW g \in Runs(D, start, step, n)
  PROVE  \A k \in Nat : k <= m /\ k <= n => f[k] = g[k]
<1>1. /\ f[0] = start /\ \A k \in 1 .. m : f[k] = step[f[k - 1]]
      /\ g[0] = start /\ \A k \in 1 .. n : g[k] = step[g[k - 1]]
  BY DEF Runs
<1>2. PICK T : T = {k \in Nat : k <= m /\ k <= n => f[k] = g[k]}
  OBVIOUS
<1>3. 0 \in T
  BY <1>1, <1>2
<1>4. ASSUME NEW k \in T PROVE k + 1 \in T
  <2>1. k \in Nat /\ (k <= m /\ k <= n => f[k] = g[k])
    BY <1>2
  <2>2. ASSUME k + 1 <= m, k + 1 <= n PROVE f[k + 1] = g[k + 1]
    <3>1. k + 1 \in 1 .. m /\ k + 1 \in 1 .. n /\ (k + 1) - 1 = k /\ k <= m /\ k <= n
      BY <2>1, <2>2
    <3>2. f[k + 1] = step[f[(k + 1) - 1]] /\ g[k + 1] = step[g[(k + 1) - 1]]
      BY <1>1, <3>1
    <3>3. QED
      BY <2>1, <3>1, <3>2
  <2>3. QED
    BY <1>2, <2>1, <2>2
<1>5. T \subseteq Nat
  BY <1>2
<1>6. T = Nat
  BY <1>3, <1>4, <1>5, AllNat
<1>7. QED
  BY <1>2, <1>6

\* f is the function that the recursion defines.
Recurses(f, D, start, step) ==
  f \in [Nat -> D] /\ \A n \in Nat : f[n] = IF n = 0 THEN start ELSE step[f[n - 1]]

\* A recursion defines a function on all numbers.
LEMMA Recursion ==
  ASSUME NEW D, NEW start \in D, NEW step \in [D -> D]
  PROVE  \E f : Recurses(f, D, start, step)
<1>1. PICK r : r = [n \in Nat |-> CHOOSE f : f \in Runs(D, start, step, n)]
  OBVIOUS
<1>2. \A n \in Nat : r[n] \in Runs(D, start, step, n)
  <2>1. SUFFICES ASSUME NEW n \in Nat PROVE r[n] \in Runs(D, start, step, n)
    OBVIOUS
  <2>2. \E f : f \in Runs(D, start, step, n)
    BY RunsExist
  <2>3. r[n] = CHOOSE f : f \in Runs(D, start, step, n)
    BY <1>1
  <2>4. QED
    BY <2>2, <2>3
<1>3. PICK f : f = [n \in Nat |-> r[n][n]]
  OBVIOUS
<1>4. \A n \in Nat : /\ r[n] \in [0 .. n -> D] /\ r[n][0] = start
                     /\ \A k \in 1 .. n : r[n][k] = step[r[n][k - 1]]
  BY <1>2 DEF Runs
<1>5. f \in [Nat -> D]
  <2>1. \A n \in Nat : r[n][n] \in D
    BY <1>4
  <2>2. QED
    BY <1>3, <2>1
<1>6. ASSUME NEW n \in Nat PROVE f[n] = IF n = 0 THEN start ELSE step[f[n - 1]]
  <2>1. CASE n = 0
    BY <1>3, <1>4, <2>1
  <2>2. CASE n # 0
    <3>1. PICK m \in Nat : m = n - 1
      BY <2>2
    <3>2. n \in 1 .. n /\ m <= m /\ m <= n
      BY <2>2, <3>1
    <3>3. r[n][n] = step[r[n][m]]
      BY <1>4, <3>1, <3>2
    <3>4. r[n][m] = r[m][m]
      BY <1>2, <3>2, RunsAgree
    <3>5. f[n] = r[n][n] /\ f[m] = r[m][m]
      BY <1>3
    <3>6. QED
      BY <2>2, <3>1, <3>3, <3>4, <3>5
  <2>3. QED
    BY <2>1, <2>2
<1>7. QED
  BY <1>5, <1>6 DEF Recurses

-----------------------------------------------------------------------------
(* Size classes.                                                           *)

\* The powers of two are what their recursive definition says.
LEMMA Pow2 ==
  ASSUME NEW n \in Nat
  PROVE  /\ pow2[n] \in Nat /\ pow2[n] >= 1 /\ pow2[0] = 1 /\ pow2[n + 1] = 2 * pow2[n]
<1>1. PICK double : double = [x \in Nat |-> 2 * x]
  OBVIOUS
<1>2. double \in [Nat -> Nat] /\ \A x \in Nat : double[x] = 2 * x
  BY <1>1
<1>3. PICK f \in [Nat -> Nat] : \A k \in Nat : f[k] = IF k = 0 THEN 1 ELSE double[f[k - 1]]
  <2>1. PICK D, one : D = Nat /\ one = 1
    OBVIOUS
  <2>2. one \in D /\ double \in [D -> D]
    BY <1>2, <2>1
  <2>3. PICK f : Recurses(f, D, one, double)
    BY <2>2, Recursion
  <2>4. QED
    BY <2>1, <2>3 DEF Recurses
<1>4. \A k \in Nat : f[k] = IF k = 0 THEN 1 ELSE 2 * f[k - 1]
  <2>1. SUFFICES ASSUME NEW k \in Nat PROVE f[k] = IF k = 0 THEN 1 ELSE 2 * f[k - 1]
    OBVIOUS
  <2>2. CASE k = 0
    BY <1>3, <2>2
  <2>3. CASE k # 0
    <3>1. k - 1 \in Nat
      BY <2>3
    <3>2. double[f[k - 1]] = 2 * f[k - 1]
      BY <1>2, <3>1
    <3>3. QED
      BY <1>3, <2>3, <3>2
  <2>4. QED
    BY <2>2, <2>3
<1>5. f = [k \in Nat |-> IF k = 0 THEN 1 ELSE 2 * f[k - 1]]
  BY <1>4
<1>6. pow2 = [k \in Nat |-> IF k = 0 THEN 1 ELSE 2 * pow2[k - 1]]
  BY <1>5, Zenon DEF pow2
<1>7. \A k \in Nat : pow2[k] = IF k = 0 THEN 1 ELSE 2 * pow2[k - 1]
  BY <1>6, Zenon
<1>8. pow2[0] = 1 /\ \A k \in Nat : pow2[k + 1] = 2 * pow2[k]
  <2>1. \A k \in Nat : k + 1 \in Nat /\ k + 1 # 0 /\ (k + 1) - 1 = k
    OBVIOUS
  <2>2. QED
    BY <1>7, <2>1
<1>9. PICK T : T = {k \in Nat : pow2[k] \in Nat /\ pow2[k] >= 1}
  OBVIOUS
<1>10. T = Nat
  <2>1. T \subseteq Nat /\ 0 \in T
    BY <1>8, <1>9
  <2>2. ASSUME NEW k \in T PROVE k + 1 \in T
    <3>1. PICK x \in Nat : x = pow2[k] /\ x >= 1
      BY <1>9
    <3>2. k \in Nat /\ pow2[k + 1] = 2 * x /\ 2 * x \in Nat /\ 2 * x >= 1
      BY <1>8, <1>9, <3>1
    <3>3. QED
      BY <1>9, <3>2
  <2>3. QED
    BY <2>1, <2>2, AllNat
<1>11. n \in T
  BY <1>10
<1>12. QED
  BY <1>8, <1>9, <1>11

\* They grow without bound.
LEMMA Pow2Exceeds == \A n \in Nat : n < pow2[n]
<1>1. PICK T : T = {n \in Nat : n < pow2[n]}
  OBVIOUS
<1>2. 0 \in T
  <2>1. 0 \in Nat
    OBVIOUS
  <2>2. pow2[0] = 1
    BY <2>1, Pow2
  <2>3. QED
    BY <1>1, <2>2
<1>3. ASSUME NEW n \in T PROVE n + 1 \in T
  <2>1. n \in Nat /\ n < pow2[n]
    BY <1>1
  <2>2. PICK x \in Nat : x = pow2[n] /\ pow2[n + 1] = 2 * x
    BY <2>1, Pow2
  <2>3. n < x
    BY <2>1, <2>2
  <2>4. n + 1 \in Nat /\ n + 1 < 2 * x
    BY <2>1, <2>3
  <2>5. QED
    BY <1>1, <2>2, <2>4
<1>4. T \subseteq Nat
  BY <1>1
<1>5. T = Nat
  BY <1>2, <1>3, <1>4, AllNat
<1>6. QED
  BY <1>1, <1>5

\* They grow.
LEMMA Pow2Grows ==
  ASSUME NEW m \in Nat, NEW n \in Nat, m <= n
  PROVE  pow2[m] <= pow2[n]
<1>1. PICK T : T = {d \in Nat : pow2[m] <= pow2[m + d]}
  OBVIOUS
<1>2. 0 \in T
  <2>1. m + 0 = m /\ pow2[m] \in Nat
    BY Pow2
  <2>2. QED
    BY <1>1, <2>1
<1>3. ASSUME NEW d \in T PROVE d + 1 \in T
  <2>1. d \in Nat /\ pow2[m] <= pow2[m + d]
    BY <1>1
  <2>2. PICK i \in Nat : i = m + d
    BY <2>1
  <2>3. m + (d + 1) = i + 1
    BY <2>1, <2>2
  <2>4. PICK x, y \in Nat : x = pow2[m] /\ y = pow2[i] /\ pow2[i + 1] = 2 * y
    BY <2>2, Pow2
  <2>5. x <= y
    BY <2>1, <2>2, <2>4
  <2>6. x <= 2 * y
    BY <2>5
  <2>7. pow2[m] <= pow2[m + (d + 1)]
    BY <2>3, <2>4, <2>6
  <2>8. QED
    BY <1>1, <2>1, <2>7
<1>4. T \subseteq Nat
  BY <1>1
<1>5. T = Nat
  BY <1>2, <1>3, <1>4, AllNat
<1>6. n - m \in Nat /\ m + (n - m) = n
  OBVIOUS
<1>7. QED
  BY <1>1, <1>5, <1>6

\* The size of a block.
LEMMA BlockSize ==
  ASSUME NEW c \in Nat
  PROVE  sclass_size(c) \in Nat /\ sclass_size(c) >= 4 /\ sclass_size(c) = pow2[c + 2]
<1>1. PICK x \in Nat : x = pow2[c] /\ x >= 1 /\ pow2[c + 1] = 2 * x
  BY Pow2
<1>2. c + 1 \in Nat /\ (c + 1) + 1 = c + 2
  OBVIOUS
<1>3. pow2[(c + 1) + 1] = 2 * pow2[c + 1]
  BY <1>2, Pow2
<1>4. pow2[c + 2] = 4 * x /\ sclass_size(c) = 4 * x
  BY <1>1, <1>2, <1>3 DEF sclass_size
<1>5. QED
  BY <1>1, <1>4

\* m has c + 2 binary digits.
InClass(m, c) == pow2[c + 1] <= m /\ m < pow2[c + 2]

\* len | 3, as far as its leading digit goes.
AtLeast3(n) == IF n < 4 THEN 3 ELSE n

\* A number has one class.
LEMMA ClassUnique ==
  ASSUME NEW m \in Nat, NEW c \in Nat, NEW d \in Nat, InClass(m, c), InClass(m, d)
  PROVE  c = d
<1>1. \A i, j \in Nat : i < j /\ InClass(m, i) /\ InClass(m, j) => FALSE
  <2>1. SUFFICES ASSUME NEW i \in Nat, NEW j \in Nat, i < j, InClass(m, i), InClass(m, j)
                 PROVE  FALSE
    OBVIOUS
  <2>2. PICK a, b \in Nat : a = i + 2 /\ b = j + 1
    OBVIOUS
  <2>3. a <= b
    BY <2>1, <2>2
  <2>4. pow2[a] <= pow2[b]
    BY <2>3, Pow2Grows
  <2>5. PICK x, y \in Nat : x = pow2[a] /\ y = pow2[b]
    BY Pow2
  <2>6. m < x /\ y <= m /\ x <= y
    BY <2>1, <2>2, <2>4, <2>5 DEF InClass
  <2>7. QED
    BY <2>6
<1>2. c < d \/ d < c \/ c = d
  OBVIOUS
<1>3. QED
  BY <1>1, <1>2

\* A number from 3 on has a class, which is less than the number.
LEMMA ClassExists ==
  ASSUME NEW m \in Nat, m >= 3
  PROVE  \E c \in Nat : InClass(m, c) /\ c + 2 <= m
<1>1. PICK T : T = {k \in Nat : m < pow2[k]}
  OBVIOUS
<1>2. m \in T
  BY <1>1, Pow2Exceeds
<1>3. PICK j \in T : \A k \in T : j <= k
  <2>1. T \subseteq Nat /\ T # {}
    BY <1>1, <1>2
  <2>2. QED
    BY <2>1, LeastNat
<1>4. j \in Nat /\ m < pow2[j] /\ j <= m
  BY <1>1, <1>2, <1>3
<1>5. j # 0 /\ j # 1
  <2>1. 0 \in Nat /\ 0 + 1 = 1
    OBVIOUS
  <2>2. pow2[0] = 1 /\ pow2[0 + 1] = 2 * pow2[0]
    BY <2>1, Pow2
  <2>3. pow2[0] = 1 /\ pow2[1] = 2
    BY <2>1, <2>2
  <2>4. QED
    BY <1>4, <2>3
<1>6. PICK c \in Nat : c = j - 2 /\ c + 2 = j /\ c + 1 < j /\ c + 1 \in Nat
  <2>1. j - 2 \in Nat /\ (j - 2) + 2 = j /\ (j - 2) + 1 < j /\ (j - 2) + 1 \in Nat
    BY <1>4, <1>5
  <2>2. QED
    BY <2>1
<1>7. pow2[c + 1] <= m
  <2>1. ~(j <= c + 1)
    BY <1>4, <1>6
  <2>2. c + 1 \notin T
    BY <1>3, <2>1
  <2>3. PICK x \in Nat : x = pow2[c + 1]
    BY <1>6, Pow2
  <2>4. ~(m < x)
    BY <1>1, <1>6, <2>2, <2>3
  <2>5. QED
    BY <2>3, <2>4
<1>8. InClass(m, c) /\ c + 2 <= m
  BY <1>4, <1>6, <1>7 DEF InClass
<1>9. QED
  BY <1>8

\* sclass_for_length: the class of a length, and that its blocks hold the list
\* and its length.
LEMMA ClassOfLength ==
  ASSUME NEW n \in Nat
  PROVE  /\ sclass_for_length(n) \in Nat
         /\ InClass(AtLeast3(n), sclass_for_length(n))
         /\ n + 1 <= sclass_size(sclass_for_length(n))
         /\ n <= 3 => sclass_for_length(n) = 0
         /\ n > 3 => sclass_for_length(n) + 2 <= n
<1>1. PICK m \in Nat : m = AtLeast3(n)
  BY DEF AtLeast3
<1>2. m >= 3 /\ n <= m /\ (n > 3 => m = n) /\ (n <= 3 => m = 3)
  BY <1>1 DEF AtLeast3
<1>3. PICK c \in Nat : InClass(m, c) /\ c + 2 <= m
  BY <1>2, ClassExists
<1>4. c \in 0 .. n /\ (n <= 3 => c = 0)
  <2>1. CASE n <= 3
    <3>1. c + 2 <= 3
      BY <1>2, <1>3, <2>1
    <3>2. c = 0 \/ c = 1
      BY <3>1
    <3>3. c # 1
      <4>1. /\ 0 \in Nat /\ 0 + 1 = 1 /\ 1 \in Nat /\ 1 + 1 = 2
        OBVIOUS
      <4>2. pow2[0] = 1 /\ pow2[0 + 1] = 2 * pow2[0] /\ pow2[1 + 1] = 2 * pow2[1]
        BY <4>1, Pow2
      <4>3. pow2[2] = 4
        BY <4>1, <4>2
      <4>4. c = 1 => pow2[2] <= m
        BY <1>3, <4>1 DEF InClass
      <4>5. QED
        BY <1>2, <2>1, <4>3, <4>4
    <3>4. QED
      BY <3>2, <3>3
  <2>2. CASE n > 3
    BY <1>2, <1>3, <2>2
  <2>3. QED
    BY <2>1, <2>2
<1>5. sclass_for_length(n) = CHOOSE i \in 0 .. n : InClass(m, i)
  BY <1>1 DEF sclass_for_length, InClass, AtLeast3
<1>6. PICK d : d = sclass_for_length(n)
  OBVIOUS
<1>7. d \in 0 .. n /\ InClass(m, d)
  BY <1>3, <1>4, <1>5, <1>6
<1>8. d = c
  BY <1>3, <1>7, ClassUnique
<1>9. n + 1 <= sclass_size(c)
  <2>1. PICK z \in Nat : z = sclass_size(c) /\ z = pow2[c + 2]
    BY BlockSize
  <2>2. m < z
    BY <1>3, <2>1 DEF InClass
  <2>3. QED
    BY <1>2, <2>1, <2>2
<1>10. QED
  BY <1>1, <1>2, <1>3, <1>4, <1>6, <1>8, <1>9

\* A length that InClass puts into a class has this class.
LEMMA ClassIs ==
  ASSUME NEW n \in Nat, NEW m \in Nat, m = AtLeast3(n), NEW c \in Nat, InClass(m, c)
  PROVE  sclass_for_length(n) = c
<1>1. sclass_for_length(n) \in Nat /\ InClass(m, sclass_for_length(n))
  BY ClassOfLength
<1>2. QED
  BY <1>1, ClassUnique

\* is_sclass_min_length says when the n-th element goes to the next class.
LEMMA ClassStep ==
  ASSUME NEW n \in Nat, n >= 1
  PROVE  sclass_for_length(n) = IF is_sclass_min_length(n) THEN sclass_for_length(n - 1) + 1
                                ELSE sclass_for_length(n - 1)
<1>1. PICK l \in Nat : l = n - 1 /\ n = l + 1
  OBVIOUS
<1>2. CASE is_sclass_min_length(n)
  <2>1. PICK k \in 0 .. n : n = pow2[k]
    BY <1>2 DEF is_sclass_min_length
  <2>2. n > 3 /\ k \in Nat
    BY <1>2 DEF is_sclass_min_length
  <2>3. k # 0 /\ k # 1
    <3>1. 0 \in Nat /\ 0 + 1 = 1
      OBVIOUS
    <3>2. pow2[0] = 1 /\ pow2[0 + 1] = 2 * pow2[0]
      BY <3>1, Pow2
    <3>3. pow2[0] = 1 /\ pow2[1] = 2
      BY <3>1, <3>2
    <3>4. QED
      BY <2>1, <2>2, <3>3
  <2>4. PICK c \in Nat : c = k - 2 /\ c + 2 = k
    <3>1. k - 2 \in Nat /\ (k - 2) + 2 = k
      BY <2>2, <2>3
    <3>2. QED
      BY <3>1
  <2>5. c + 1 \in Nat /\ (c + 1) + 1 = c + 2 /\ c + 2 \in Nat /\ (c + 1) + 2 = (c + 2) + 1
    OBVIOUS
  <2>6. PICK x \in Nat : x = pow2[c + 1] /\ x >= 1
    BY <2>5, Pow2
  <2>7. pow2[(c + 1) + 1] = 2 * pow2[c + 1] /\ pow2[(c + 2) + 1] = 2 * pow2[c + 2]
    BY <2>5, Pow2
  <2>8. n = 2 * x /\ pow2[c + 2] = n /\ pow2[(c + 1) + 2] = 2 * n /\ pow2[(c + 1) + 1] = n
    BY <2>1, <2>4, <2>5, <2>6, <2>7
  <2>9. InClass(n, c + 1)
    BY <2>2, <2>8 DEF InClass
  <2>10. InClass(l, c)
    <3>1. x <= l /\ l < n
      BY <1>1, <2>6, <2>8
    <3>2. QED
      BY <2>6, <2>8, <3>1 DEF InClass
  <2>11. n = AtLeast3(n) /\ l = AtLeast3(l)
    BY <1>1, <2>2 DEF AtLeast3
  <2>12. sclass_for_length(n) = c + 1 /\ sclass_for_length(l) = c
    BY <2>5, <2>9, <2>10, <2>11, ClassIs
  <2>13. QED
    BY <1>1, <1>2, <2>12
<1>3. CASE ~is_sclass_min_length(n) /\ n <= 3
  <2>1. l <= 3
    BY <1>1, <1>3
  <2>2. sclass_for_length(n) = 0 /\ sclass_for_length(l) = 0
    BY <1>3, <2>1, ClassOfLength
  <2>3. QED
    BY <1>1, <1>3, <2>2
<1>4. CASE ~is_sclass_min_length(n) /\ n > 3
  <2>1. PICK c \in Nat : c = sclass_for_length(n)
    BY ClassOfLength
  <2>2. InClass(AtLeast3(n), c) /\ c + 2 <= n
    BY <1>4, <2>1, ClassOfLength
  <2>3. n = AtLeast3(n) /\ l = AtLeast3(l)
    BY <1>1, <1>4 DEF AtLeast3
  <2>4. c + 1 \in Nat /\ c + 2 \in Nat /\ c + 1 \in 0 .. n
    BY <2>2
  <2>5. PICK x, y \in Nat : x = pow2[c + 1] /\ y = pow2[c + 2]
    BY <2>4, Pow2
  <2>6. x <= n /\ n < y
    BY <2>2, <2>3, <2>5 DEF InClass
  <2>7. n # x
    BY <1>4, <2>4, <2>5 DEF is_sclass_min_length
  <2>8. x <= l /\ l < y
    BY <1>1, <2>6, <2>7
  <2>9. InClass(l, c)
    BY <2>5, <2>8 DEF InClass
  <2>10. sclass_for_length(l) = c
    BY <2>3, <2>9, ClassIs
  <2>11. QED
    BY <1>1, <1>4, <2>1, <2>10
<1>5. QED
  BY <1>2, <1>3, <1>4

-----------------------------------------------------------------------------
(* The blocks of a pool. A block is a pair of its first word and its class; *)
(* X is the set of all blocks, O the set of those that lists own, and the   *)
(* free blocks of class c are G[c][1] .. G[c][K[c]], first the one that was *)
(* freed first.                                                             *)

\* The words of the block x.
Cover(x) == x[1] .. x[1] + sclass_size(x[2]) - 1

Words(p) == Elem \cup {Reserved} \cup 0 .. size(p)

\* What kind of thing a pool is.
Shape(p) ==
  /\ p = [data |-> p.data, free |-> p.free]
  /\ size(p) \in Nat /\ p.data \in [0 .. size(p) - 1 -> Words(p)] /\ p.free \in [Class -> Nat]

\* The blocks X divide the words below n.
Tiling(n, X) ==
  /\ X \subseteq Nat \X Class
  /\ \A x \in X : x[1] + sclass_size(x[2]) <= n
  /\ \A w \in 0 .. n - 1 : \E x \in X : w \in Cover(x)
  /\ \A x, y \in X : \A w \in Cover(x) : w \in Cover(y) => x = y

\* The free lists of p, linked through the second words of their blocks.
FreeLists(p, X, K, G) ==
  /\ K \in [Class -> Nat] /\ G \in [Class -> [Nat -> Nat]]
  /\ \A c \in Class : \A i \in 1 .. K[c] : <<G[c][i], c>> \in X
  /\ \A c \in Class : \A i, j \in 1 .. K[c] : G[c][i] = G[c][j] => i = j
  /\ \A c \in Class : p.free[c] = IF K[c] = 0 THEN 0 ELSE G[c][K[c]] + 1
  /\ \A c \in Class : \A i \in 1 .. K[c] :
       p.data[G[c][i] + 1] = IF i = 1 THEN 0 ELSE G[c][i - 1] + 1

IsFree(x, K, G) == \E i \in 1 .. K[x[2]] : x[1] = G[x[2]][i]

Tiled(p, O, X, K, G) ==
  /\ Shape(p) /\ Tiling(size(p), X) /\ FreeLists(p, X, K, G)
  /\ O \subseteq X /\ \A x \in X : x \in O <=> ~IsFree(x, K, G)

\* The blocks of O are in use, all others are free.
Good(p, O) == \E X, K, G : Tiled(p, O, X, K, G)

\* The words of the blocks of O are the same in p and in q.
Same(p, q, O) == \A x \in O : \A w \in Cover(x) : q.data[w] = p.data[w]

\* q is p with the words s from i on.
Written(p, q, i, s) ==
  /\ size(q) = size(p)
  /\ \A w \in 0 .. size(p) - 1 :
       q.data[w] = IF i <= w /\ w < i + Len(s) THEN s[w - i + 1] ELSE p.data[w]

\* The words s, written from i on, stay inside a block in use.
Fits(p, O, b, c, i, s) ==
  /\ <<b, c>> \in O /\ i \in Nat /\ s \in Seq(Words(p))
  /\ b <= i /\ i + Len(s) <= b + sclass_size(c)

\* The vector of q goes on where that of p ends.
Extends(p, q) ==
  /\ size(p) \in Nat /\ size(q) \in Nat /\ size(p) <= size(q)
  /\ \A w \in 0 .. size(p) - 1 : q.data[w] = p.data[w]

-----------------------------------------------------------------------------
(* The words.                                                              *)

\* The number of words of a vector.
LEMMA SizeIs ==
  ASSUME NEW p, NEW n \in Nat, DOMAIN p.data = 0 .. n - 1
  PROVE  size(p) = n
<1>1. Cardinality(0 .. n - 1) = n
  <2>1. 0 \in Int /\ n - 1 \in Int
    OBVIOUS
  <2>2. Cardinality(0 .. n - 1) = IF 0 > n - 1 THEN 0 ELSE (n - 1) - 0 + 1
    BY <2>1, FS_Interval
  <2>3. QED
    BY <2>2
<1>2. QED
  BY <1>1 DEF size

\* What Write does.
LEMMA WriteWords ==
  ASSUME NEW p, Shape(p), NEW i \in Nat, NEW s \in Seq(Words(p)), i + Len(s) <= size(p),
         NEW q, q = Write(p, i, s)
  PROVE  Shape(q) /\ q.free = p.free /\ Written(p, q, i, s)
<1>1. q = Write(p, i, s)
  OBVIOUS
<1>2. PICK n \in Nat : n = size(p)
  BY DEF Shape
<1>3. PICK m \in Nat : m = Len(s)
  BY LenProperties
<1>4. DOMAIN s = 1 .. m /\ \A k \in 1 .. m : s[k] \in Words(p)
  BY <1>3, LenProperties, ElementOfSeq
<1>5. /\ p = [data |-> p.data, free |-> p.free]
      /\ DOMAIN p.data = 0 .. n - 1 /\ \A w \in 0 .. n - 1 : p.data[w] \in Words(p)
  BY <1>2 DEF Shape
<1>6. /\ q = [data |-> q.data, free |-> q.free] /\ q.free = p.free
      /\ q.data = [w \in 0 .. n - 1 |-> IF w - i + 1 \in 1 .. m THEN s[w - i + 1] ELSE p.data[w]]
  BY <1>1, <1>4, <1>5 DEF Write
<1>7. size(q) = n
  BY <1>6, SizeIs
<1>8. \A w \in 0 .. n - 1 : q.data[w] = IF i <= w /\ w < i + m THEN s[w - i + 1] ELSE p.data[w]
  BY <1>6
<1>9. Words(q) = Words(p)
  BY <1>2, <1>7 DEF Words
<1>10. \A w \in 0 .. n - 1 : q.data[w] \in Words(q)
  <2>1. SUFFICES ASSUME NEW w \in 0 .. n - 1 PROVE q.data[w] \in Words(p)
    BY <1>9
  <2>2. CASE i <= w /\ w < i + m
    <3>1. w - i + 1 \in 1 .. m
      BY <2>2
    <3>2. QED
      BY <1>4, <1>8, <2>2, <3>1
  <2>3. CASE ~(i <= w /\ w < i + m)
    BY <1>5, <1>8, <2>3
  <2>4. QED
    BY <2>2, <2>3
<1>11. Shape(q)
  <2>1. DOMAIN q.data = 0 .. n - 1 /\ q.data = [w \in 0 .. n - 1 |-> q.data[w]]
    BY <1>6
  <2>2. q.data \in [0 .. n - 1 -> Words(q)]
    BY <1>10, <2>1
  <2>3. q.free \in [Class -> Nat]
    BY <1>6 DEF Shape
  <2>4. QED
    BY <1>6, <1>7, <2>2, <2>3 DEF Shape
<1>12. QED
  BY <1>2, <1>3, <1>6, <1>7, <1>8, <1>11 DEF Written

\* What Block reads.
LEMMA BlockWords ==
  ASSUME NEW p, Shape(p), NEW i \in Nat, NEW n \in Nat, i + n <= size(p)
  PROVE  /\ Block(p, i, n) \in Seq(Words(p)) /\ Len(Block(p, i, n)) = n
         /\ \A k \in 1 .. n : Block(p, i, n)[k] = p.data[i + k - 1]
<1>1. PICK s : s = Block(p, i, n)
  OBVIOUS
<1>2. PICK m \in Nat : m = size(p)
  BY DEF Shape
<1>3. s = [k \in 1 .. n |-> p.data[i + k - 1]]
  BY <1>1 DEF Block
<1>4. \A k \in 1 .. n : p.data[i + k - 1] \in Words(p)
  <2>1. \A k \in 1 .. n : i + k - 1 \in 0 .. m - 1
    BY <1>2
  <2>2. QED
    BY <1>2, <2>1 DEF Shape
<1>5. s \in [1 .. n -> Words(p)]
  BY <1>3, <1>4
<1>6. s \in Seq(Words(p)) /\ Len(s) = n
  BY <1>5, SeqDef, LenProperties
<1>7. QED
  BY <1>1, <1>3, <1>6

\* The first two words of a block are its own, and which words those are.
LEMMA CoverWords ==
  ASSUME NEW x \in Nat \X Class
  PROVE  /\ sclass_size(x[2]) \in Nat /\ sclass_size(x[2]) >= 4 /\ x[1] \in Nat
         /\ \A w \in Nat : w \in Cover(x) <=> x[1] <= w /\ w < x[1] + sclass_size(x[2])
         /\ x[1] \in Cover(x) /\ x[1] + 1 \in Cover(x) /\ Cover(x) \subseteq Nat
<1>1. x[2] \in Nat /\ x[1] \in Nat
  BY ListPoolAssumption DEF Class
<1>2. PICK z, b \in Nat : z = sclass_size(x[2]) /\ z >= 4 /\ b = x[1]
  BY <1>1, BlockSize
<1>3. Cover(x) = b .. b + z - 1
  BY <1>2 DEF Cover
<1>4. b \in b .. b + z - 1 /\ b + 1 \in b .. b + z - 1 /\ b .. b + z - 1 \subseteq Nat
  BY <1>2
<1>5. \A w \in Nat : w \in b .. b + z - 1 <=> b <= w /\ w < b + z
  BY <1>2
<1>6. QED
  BY <1>2, <1>3, <1>4, <1>5

\* A block of the vector.
LEMMA BlockInside ==
  ASSUME NEW n \in Nat, NEW X, Tiling(n, X), NEW x \in X
  PROVE  /\ x \in Nat \X Class /\ x[1] + sclass_size(x[2]) <= n
         /\ Cover(x) \subseteq 0 .. n - 1
<1>1. x \in Nat \X Class /\ x[1] + sclass_size(x[2]) <= n
  BY DEF Tiling
<1>2. PICK z, b \in Nat : z = sclass_size(x[2]) /\ b = x[1]
  BY <1>1, CoverWords
<1>3. b + z <= n
  BY <1>1, <1>2
<1>4. Cover(x) = b .. b + z - 1
  BY <1>2 DEF Cover
<1>5. b .. b + z - 1 \subseteq 0 .. n - 1
  BY <1>3
<1>6. QED
  BY <1>1, <1>4, <1>5

\* The i-th free block of class c is a block, and is not in use; its second word
\* is one of the vector.
LEMMA FreePlace ==
  ASSUME NEW p, NEW O, NEW X, NEW K, NEW G, Tiled(p, O, X, K, G),
         NEW c \in Class, NEW i, i \in 1 .. K[c]
  PROVE  /\ <<G[c][i], c>> \in X /\ <<G[c][i], c>> \notin O /\ G[c][i] \in Nat
         /\ G[c][i] + 1 \in Cover(<<G[c][i], c>>) /\ G[c][i] + 1 \in 0 .. size(p) - 1
<1>1. PICK y : y = <<G[c][i], c>>
  OBVIOUS
<1>2. y \in X /\ y[1] = G[c][i] /\ y[2] = c
  BY <1>1 DEF Tiled, FreeLists
<1>3. IsFree(y, K, G)
  BY <1>2 DEF IsFree
<1>4. y \notin O
  BY <1>2, <1>3 DEF Tiled
<1>5. PICK n \in Nat : n = size(p)
  BY DEF Tiled, Shape
<1>6. Tiling(n, X)
  BY <1>5 DEF Tiled
<1>7. y \in Nat \X Class /\ Cover(y) \subseteq 0 .. n - 1
  BY <1>2, <1>5, <1>6, BlockInside
<1>8. G[c][i] \in Nat /\ G[c][i] + 1 \in Cover(y)
  BY <1>2, <1>7, CoverWords
<1>9. QED
  BY <1>1, <1>2, <1>4, <1>5, <1>7, <1>8

\* And no block in use has it.
LEMMA FreeApart ==
  ASSUME NEW p, NEW O, NEW X, NEW K, NEW G, Tiled(p, O, X, K, G),
         NEW c \in Class, NEW i, i \in 1 .. K[c], NEW x, x \in O
  PROVE  G[c][i] + 1 \notin Cover(x)
<1>1. PICK y : y = <<G[c][i], c>>
  OBVIOUS
<1>2. y \in X /\ y \notin O /\ G[c][i] + 1 \in Cover(y)
  BY <1>1, FreePlace
<1>3. x \in X /\ x # y
  BY <1>2 DEF Tiled
<1>4. QED
  BY <1>2, <1>3 DEF Tiled, Tiling

\* Words that are in no free block do not matter to the division into blocks.
LEMMA TiledData ==
  ASSUME NEW p, NEW O, NEW X, NEW K, NEW G, Tiled(p, O, X, K, G),
         NEW q, Shape(q), size(q) = size(p), q.free = p.free,
         \A c \in Class : \A i \in 1 .. K[c] : q.data[G[c][i] + 1] = p.data[G[c][i] + 1]
  PROVE  Tiled(q, O, X, K, G)
<1>1. FreeLists(q, X, K, G)
  <2>1. FreeLists(p, X, K, G)
    BY DEF Tiled
  <2>2. \A c \in Class : \A i \in 1 .. K[c] :
          q.data[G[c][i] + 1] = IF i = 1 THEN 0 ELSE G[c][i - 1] + 1
    BY <2>1 DEF FreeLists
  <2>3. \A c \in Class : q.free[c] = IF K[c] = 0 THEN 0 ELSE G[c][K[c]] + 1
    BY <2>1 DEF FreeLists
  <2>4. QED
    BY <2>1, <2>2, <2>3 DEF FreeLists
<1>2. QED
  BY <1>1 DEF Tiled

\* Words written into a block in use.
LEMMA WriteTiled ==
  ASSUME NEW p, NEW O, NEW X, NEW K, NEW G, Tiled(p, O, X, K, G),
         NEW b, NEW c, NEW i, NEW s, Fits(p, O, b, c, i, s), NEW q, q = Write(p, i, s)
  PROVE  Tiled(q, O, X, K, G) /\ Same(p, q, O \ {<<b, c>>}) /\ Written(p, q, i, s)
<1>1. PICK y : y = <<b, c>>
  OBVIOUS
<1>2. /\ y \in O /\ y \in X /\ y[1] = b /\ y[2] = c /\ i \in Nat /\ s \in Seq(Words(p))
      /\ b <= i /\ i + Len(s) <= b + sclass_size(c)
  BY <1>1 DEF Fits, Tiled
<1>3. PICK n \in Nat : n = size(p)
  BY DEF Tiled, Shape
<1>4. Shape(p) /\ Tiling(n, X) /\ O \subseteq X
  BY <1>3 DEF Tiled
<1>5. y \in Nat \X Class /\ b + sclass_size(c) <= n
  BY <1>2, <1>4, BlockInside
<1>6. PICK z \in Nat : /\ z = sclass_size(c)
                       /\ \A w \in Nat : w \in Cover(y) <=> b <= w /\ w < b + z
  BY <1>2, <1>5, CoverWords
<1>7. PICK m \in Nat : m = Len(s)
  BY <1>2, LenProperties
<1>8. b \in Nat /\ i + m <= b + z /\ b + z <= n /\ i + m <= n
  BY <1>2, <1>5, <1>6, <1>7
<1>9. Shape(q) /\ q.free = p.free /\ Written(p, q, i, s)
  BY <1>2, <1>3, <1>4, <1>7, <1>8, WriteWords
<1>10. \A w \in 0 .. n - 1 : w \notin Cover(y) => q.data[w] = p.data[w]
  <2>1. SUFFICES ASSUME NEW w \in 0 .. n - 1, w \notin Cover(y) PROVE q.data[w] = p.data[w]
    OBVIOUS
  <2>2. ~(b <= w /\ w < b + z)
    BY <1>6, <2>1
  <2>3. ~(i <= w /\ w < i + m)
    BY <1>2, <1>8, <2>2
  <2>4. q.data[w] = IF i <= w /\ w < i + m THEN s[w - i + 1] ELSE p.data[w]
    BY <1>3, <1>7, <1>9 DEF Written
  <2>5. QED
    BY <2>3, <2>4
<1>11. Tiled(q, O, X, K, G)
  <2>1. ASSUME NEW d \in Class, NEW j \in 1 .. K[d]
        PROVE  q.data[G[d][j] + 1] = p.data[G[d][j] + 1]
    <3>1. G[d][j] + 1 \notin Cover(y)
      BY <1>2, FreeApart
    <3>2. <<G[d][j], d>> \in X /\ G[d][j] + 1 \in 0 .. size(p) - 1
      BY FreePlace
    <3>3. QED
      BY <1>3, <1>10, <3>1, <3>2
  <2>2. size(q) = size(p)
    BY <1>9 DEF Written
  <2>3. QED
    BY <1>9, <2>1, <2>2, TiledData
<1>12. Same(p, q, O \ {y})
  <2>1. SUFFICES ASSUME NEW x \in O \ {y}, NEW w \in Cover(x) PROVE q.data[w] = p.data[w]
    BY DEF Same
  <2>2. x \in X
    BY <1>4
  <2>3. w \in 0 .. n - 1
    BY <1>4, <2>2, BlockInside
  <2>4. w \notin Cover(y)
    BY <1>2, <1>4, <2>1, <2>2 DEF Tiling
  <2>5. QED
    BY <1>10, <2>3, <2>4
<1>13. QED
  BY <1>1, <1>9, <1>11, <1>12

\* The same of any division into blocks.
LEMMA WriteGood ==
  ASSUME NEW p, NEW O, Good(p, O), NEW b, NEW c, NEW i, NEW s, Fits(p, O, b, c, i, s),
         NEW q, q = Write(p, i, s)
  PROVE  Good(q, O) /\ Same(p, q, O \ {<<b, c>>}) /\ Written(p, q, i, s)
<1>1. PICK X, K, G : Tiled(p, O, X, K, G)
  BY DEF Good
<1>2. Tiled(q, O, X, K, G) /\ Same(p, q, O \ {<<b, c>>}) /\ Written(p, q, i, s)
  BY <1>1, WriteTiled
<1>3. QED
  BY <1>2 DEF Good

\* ListPool::alloc, from the free list of the class.
LEMMA ReuseTiled ==
  ASSUME NEW p, NEW O, NEW X, NEW K, NEW G, Tiled(p, O, X, K, G), NEW c \in Class, K[c] # 0,
         NEW a, a = alloc(p, c)
  PROVE  /\ a.block \in Nat /\ <<a.block, c>> \notin O
         /\ Good(a.pool, O \cup {<<a.block, c>>}) /\ Extends(p, a.pool)
<1>1. Shape(p) /\ FreeLists(p, X, K, G) /\ O \subseteq X
  BY DEF Tiled
<1>2. PICK n \in Nat : n = size(p)
  BY <1>1 DEF Shape
<1>3. K \in [Class -> Nat] /\ G \in [Class -> [Nat -> Nat]]
  BY <1>1 DEF FreeLists
<1>4. PICK k \in Nat : k = K[c] /\ k # 0
  BY <1>3
<1>5. PICK l \in Nat : l = k - 1 /\ k = l + 1
  <2>1. k - 1 \in Nat /\ k = (k - 1) + 1
    BY <1>4
  <2>2. QED
    BY <2>1
<1>6. k \in 1 .. K[c]
  BY <1>4
<1>7. PICK b \in Nat : b = G[c][k]
  BY <1>3, <1>4
<1>8. PICK y : y = <<b, c>>
  OBVIOUS
<1>9. y \in X /\ y \notin O /\ b + 1 \in 0 .. n - 1
  BY <1>2, <1>6, <1>7, <1>8, FreePlace
<1>10. PICK e : e = p.data[b + 1]
  OBVIOUS
<1>11. e = IF k = 1 THEN 0 ELSE G[c][l] + 1
  BY <1>1, <1>5, <1>6, <1>7, <1>10 DEF FreeLists
<1>12. p.free[c] = b + 1 /\ b + 1 > 0 /\ (b + 1) - 1 = b
  BY <1>1, <1>4, <1>7 DEF FreeLists
<1>13. PICK q : q = [p EXCEPT !.free[c] = e]
  OBVIOUS
<1>14. a.pool = q /\ a.block = b
  BY <1>10, <1>12, <1>13 DEF alloc
<1>15. /\ p = [data |-> p.data, free |-> p.free] /\ p.free \in [Class -> Nat]
       /\ p.data \in [0 .. n - 1 -> Words(p)]
  BY <1>1, <1>2 DEF Shape
<1>16. /\ q = [data |-> q.data, free |-> q.free] /\ q.data = p.data
       /\ q.free = [p.free EXCEPT ![c] = e]
  BY <1>13, <1>15
<1>17. size(q) = n
  BY <1>2, <1>16 DEF size
<1>18. e \in Nat
  BY <1>3, <1>11
<1>19. Shape(q)
  <2>1. q.free \in [Class -> Nat]
    BY <1>15, <1>16, <1>18
  <2>2. Words(q) = Words(p)
    BY <1>2, <1>17 DEF Words
  <2>3. QED
    BY <1>15, <1>16, <1>17, <2>1, <2>2 DEF Shape
<1>20. PICK K1 : K1 = [K EXCEPT ![c] = l]
  OBVIOUS
<1>21. K1 \in [Class -> Nat] /\ K1[c] = l /\ \A d \in Class : d # c => K1[d] = K[d]
  BY <1>3, <1>20
<1>22. \A d \in Class : \A i \in 1 .. K1[d] : i \in 1 .. K[d]
  <2>1. SUFFICES ASSUME NEW d \in Class, NEW i \in 1 .. K1[d] PROVE i \in 1 .. K[d]
    OBVIOUS
  <2>2. CASE d # c
    BY <1>21, <2>1, <2>2
  <2>3. CASE d = c
    <3>1. i \in 1 .. l
      BY <1>21, <2>3
    <3>2. \A j \in 1 .. l : j \in 1 .. k
      BY <1>5
    <3>3. K[d] = k
      BY <1>4, <2>3
    <3>4. QED
      BY <3>1, <3>2, <3>3
  <2>4. QED
    BY <2>2, <2>3
<1>23. FreeLists(q, X, K1, G)
  <2>1. \A d \in Class : q.free[d] = IF K1[d] = 0 THEN 0 ELSE G[d][K1[d]] + 1
    <3>1. SUFFICES ASSUME NEW d \in Class
                   PROVE  q.free[d] = IF K1[d] = 0 THEN 0 ELSE G[d][K1[d]] + 1
      OBVIOUS
    <3>2. CASE d # c
      <4>1. q.free[d] = p.free[d]
        BY <1>15, <1>16, <3>2
      <4>2. QED
        BY <1>1, <1>21, <3>2, <4>1 DEF FreeLists
    <3>3. CASE d = c
      <4>1. q.free[c] = e
        BY <1>15, <1>16
      <4>2. k = 1 <=> l = 0
        BY <1>5
      <4>3. QED
        BY <1>11, <1>21, <3>3, <4>1, <4>2
    <3>4. QED
      BY <3>2, <3>3
  <2>2. QED
    BY <1>1, <1>16, <1>21, <1>22, <2>1 DEF FreeLists
<1>24. O \cup {y} \subseteq X
  BY <1>1, <1>9
<1>25. ASSUME NEW x \in X PROVE x \in O \cup {y} <=> ~IsFree(x, K1, G)
  <2>1. PICK m \in Nat : m = size(p) /\ Tiling(m, X)
    BY <1>2 DEF Tiled
  <2>2. x \in Nat \X Class
    BY <2>1, BlockInside
  <2>3. x \in O <=> ~IsFree(x, K, G)
    BY DEF Tiled
  <2>4. CASE x[2] # c
    <3>1. x # y
      BY <1>8, <2>4
    <3>2. IsFree(x, K1, G) <=> IsFree(x, K, G)
      BY <1>21, <2>2, <2>4 DEF IsFree
    <3>3. QED
      BY <2>3, <3>1, <3>2
  <2>5. CASE x[2] = c
    <3>1. x = y <=> x[1] = b
      BY <1>8, <2>2, <2>5
    <3>2. IsFree(x, K, G) <=> \E i \in 1 .. k : x[1] = G[c][i]
      BY <1>4, <2>5 DEF IsFree
    <3>3. IsFree(x, K1, G) <=> \E i \in 1 .. l : x[1] = G[c][i]
      BY <1>21, <2>5 DEF IsFree
    <3>4. (\A i : i \in 1 .. k <=> i \in 1 .. l \/ i = k) /\ k \notin 1 .. l
      BY <1>5
    <3>5. IsFree(x, K, G) <=> IsFree(x, K1, G) \/ x[1] = b
      BY <1>7, <3>2, <3>3, <3>4
    <3>6. x[1] = b => ~IsFree(x, K1, G)
      <4>1. \A i, j \in 1 .. k : G[c][i] = G[c][j] => i = j
        BY <1>1, <1>4 DEF FreeLists
      <4>2. \A i \in 1 .. l : i \in 1 .. k /\ i # k
        BY <1>5
      <4>3. k \in 1 .. k
        BY <1>4
      <4>4. \A i \in 1 .. l : G[c][i] # b
        BY <1>7, <4>1, <4>2, <4>3
      <4>5. QED
        BY <3>3, <4>4
    <3>7. QED
      BY <2>3, <3>1, <3>5, <3>6
  <2>6. QED
    BY <2>4, <2>5
<1>26. Tiled(q, O \cup {y}, X, K1, G)
  <2>1. Tiling(size(q), X)
    BY <1>2, <1>17 DEF Tiled
  <2>2. QED
    BY <1>19, <1>23, <1>24, <1>25, <2>1 DEF Tiled
<1>27. Extends(p, q)
  BY <1>2, <1>16, <1>17 DEF Extends
<1>28. QED
  BY <1>8, <1>9, <1>14, <1>26, <1>27 DEF Good

\* ListPool::alloc, at the end of the vector.
LEMMA GrowTiled ==
  ASSUME NEW p, NEW O, NEW X, NEW K, NEW G, Tiled(p, O, X, K, G), NEW c \in Class, K[c] = 0,
         NEW a, a = alloc(p, c)
  PROVE  /\ a.block \in Nat /\ <<a.block, c>> \notin O
         /\ Good(a.pool, O \cup {<<a.block, c>>}) /\ Extends(p, a.pool)
<1>1. Shape(p) /\ FreeLists(p, X, K, G) /\ O \subseteq X
  BY DEF Tiled
<1>2. PICK n \in Nat : n = size(p)
  BY <1>1 DEF Shape
<1>3. Tiling(n, X)
  BY <1>2 DEF Tiled
<1>4. PICK y : y = <<n, c>>
  OBVIOUS
<1>5. y \in Nat \X Class /\ y[1] = n /\ y[2] = c
  BY <1>4
<1>6. PICK z \in Nat : z = sclass_size(c) /\ z >= 4 /\ \A w \in Nat : w \in Cover(y) <=> n <= w /\ w < n + z
  BY <1>5, CoverWords
<1>7. PICK m \in Nat : m = n + z
  OBVIOUS
<1>8. p.free[c] = 0 /\ ~(p.free[c] > 0)
  BY <1>1 DEF FreeLists
<1>9. PICK q : q = a.pool
  OBVIOUS
<1>10. /\ p = [data |-> p.data, free |-> p.free] /\ p.free \in [Class -> Nat]
       /\ p.data \in [0 .. n - 1 -> Words(p)]
  BY <1>1, <1>2 DEF Shape
<1>11. /\ a.block = n
       /\ q = [p EXCEPT !.data = [w \in 0 .. m - 1 |-> IF w < n THEN p.data[w] ELSE Reserved]]
  <2>1. a = [pool |-> [p EXCEPT !.data = [w \in 0 .. size(p) + sclass_size(c) - 1 |->
                                           IF w < size(p) THEN p.data[w] ELSE Reserved]],
             block |-> size(p)]
    BY <1>8, <1>10 DEF alloc
  <2>2. size(p) + sclass_size(c) - 1 = m - 1
    BY <1>2, <1>6, <1>7
  <2>3. [w \in 0 .. size(p) + sclass_size(c) - 1 |-> IF w < size(p) THEN p.data[w] ELSE Reserved]
        = [w \in 0 .. m - 1 |-> IF w < n THEN p.data[w] ELSE Reserved]
    BY <1>2, <2>2
  <2>4. PICK f : f = [w \in 0 .. m - 1 |-> IF w < n THEN p.data[w] ELSE Reserved]
    OBVIOUS
  <2>5. a = [pool |-> [p EXCEPT !.data = f], block |-> n]
    BY <1>2, <2>1, <2>3, <2>4
  <2>6. a.block = n /\ q = [p EXCEPT !.data = f]
    BY <1>9, <2>5
  <2>7. QED
    BY <2>4, <2>6
<1>12. /\ q = [data |-> q.data, free |-> q.free] /\ q.free = p.free
       /\ q.data = [w \in 0 .. m - 1 |-> IF w < n THEN p.data[w] ELSE Reserved]
  BY <1>10, <1>11
<1>13. size(q) = m
  BY <1>12, SizeIs
<1>14. n <= m /\ \A w \in 0 .. n - 1 : w \in 0 .. m - 1 /\ w < n
  BY <1>7
<1>15. \A w \in 0 .. n - 1 : q.data[w] = p.data[w]
  BY <1>12, <1>14
<1>16. Shape(q)
  <2>1. Words(p) \subseteq Words(q)
    BY <1>2, <1>13, <1>14 DEF Words
  <2>2. \A w \in 0 .. m - 1 : w \in 0 .. n - 1 \/ ~(w < n)
    OBVIOUS
  <2>3. \A w \in 0 .. m - 1 : q.data[w] \in Words(q)
    <3>1. Reserved \in Words(q)
      BY DEF Words
    <3>2. SUFFICES ASSUME NEW w \in 0 .. m - 1 PROVE q.data[w] \in Words(q)
      OBVIOUS
    <3>3. CASE w \in 0 .. n - 1
      BY <1>10, <1>15, <2>1, <3>3
    <3>4. CASE ~(w < n)
      BY <1>12, <3>1, <3>2, <3>4
    <3>5. QED
      BY <2>2, <3>3, <3>4
  <2>4. q.data \in [0 .. m - 1 -> Words(q)]
    BY <1>12, <2>3
  <2>5. QED
    BY <1>10, <1>12, <1>13, <2>4 DEF Shape
<1>17. Extends(p, q)
  BY <1>2, <1>13, <1>14, <1>15 DEF Extends
<1>18. PICK X1 : X1 = X \cup {y}
  OBVIOUS
<1>19. \A x \in X : Cover(x) \subseteq 0 .. n - 1
  BY <1>3, BlockInside
<1>20. \A w \in Cover(y) : w \notin 0 .. n - 1
  <2>1. Cover(y) \subseteq Nat
    BY <1>5, CoverWords
  <2>2. QED
    BY <1>6, <2>1
<1>21. y \notin X
  <2>1. n \in Cover(y)
    BY <1>5, CoverWords
  <2>2. QED
    BY <1>19, <1>20, <2>1
<1>22. Tiling(m, X1)
  <2>1. X1 \subseteq Nat \X Class
    BY <1>3, <1>5, <1>18 DEF Tiling
  <2>2. ASSUME NEW x \in X1 PROVE x[1] + sclass_size(x[2]) <= m
    <3>1. CASE x = y
      BY <1>5, <1>6, <1>7, <3>1
    <3>2. CASE x \in X
      <4>1. x \in Nat \X Class /\ x[1] + sclass_size(x[2]) <= n
        BY <1>3, <3>2, BlockInside
      <4>2. PICK i, j \in Nat : i = x[1] /\ j = sclass_size(x[2])
        BY <4>1, CoverWords
      <4>3. i + j <= n
        BY <4>1, <4>2
      <4>4. i + j <= m
        BY <1>14, <4>3
      <4>5. QED
        BY <4>2, <4>4
    <3>3. QED
      BY <1>18, <2>2, <3>1, <3>2
  <2>3. ASSUME NEW w \in 0 .. m - 1 PROVE \E x \in X1 : w \in Cover(x)
    <3>1. CASE w < n
      <4>1. w \in 0 .. n - 1
        BY <3>1
      <4>2. PICK x \in X : w \in Cover(x)
        BY <1>3, <4>1 DEF Tiling
      <4>3. QED
        BY <1>18, <4>2
    <3>2. CASE ~(w < n)
      <4>1. n <= w /\ w < n + z
        BY <1>7, <3>2
      <4>2. w \in Cover(y)
        BY <1>6, <4>1
      <4>3. QED
        BY <1>18, <4>2
    <3>3. QED
      BY <3>1, <3>2
  <2>4. ASSUME NEW x \in X1, NEW v \in X1, NEW w \in Cover(x), w \in Cover(v) PROVE x = v
    <3>1. (x \in X \/ x = y) /\ (v \in X \/ v = y)
      BY <1>18
    <3>2. CASE x \in X /\ v \in X
      BY <1>3, <2>4, <3>2 DEF Tiling
    <3>3. CASE x = y /\ v \in X
      BY <1>19, <1>20, <2>4, <3>3
    <3>4. CASE x \in X /\ v = y
      BY <1>19, <1>20, <2>4, <3>4
    <3>5. QED
      BY <3>1, <3>2, <3>3, <3>4
  <2>5. QED
    BY <2>1, <2>2, <2>3, <2>4 DEF Tiling
<1>23. FreeLists(q, X1, K, G)
  <2>1. \A d \in Class : \A i \in 1 .. K[d] : <<G[d][i], d>> \in X1
    BY <1>1, <1>18 DEF FreeLists
  <2>2. ASSUME NEW d \in Class, NEW i \in 1 .. K[d]
        PROVE  q.data[G[d][i] + 1] = IF i = 1 THEN 0 ELSE G[d][i - 1] + 1
    <3>1. <<G[d][i], d>> \in X
      BY <1>1 DEF FreeLists
    <3>2. <<G[d][i], d>> \in X /\ G[d][i] + 1 \in 0 .. n - 1
      BY <1>2, <3>1, FreePlace
    <3>3. q.data[G[d][i] + 1] = p.data[G[d][i] + 1]
      BY <1>15, <3>2
    <3>4. p.data[G[d][i] + 1] = IF i = 1 THEN 0 ELSE G[d][i - 1] + 1
      BY <1>1 DEF FreeLists
    <3>5. QED
      BY <3>3, <3>4
  <2>3. q.free = p.free
    BY <1>12
  <2>4. QED
    BY <1>1, <2>1, <2>2, <2>3 DEF FreeLists
<1>24. ~IsFree(y, K, G)
  <2>1. \A i \in 1 .. K[c] : FALSE
    OBVIOUS
  <2>2. QED
    BY <1>5, <2>1 DEF IsFree
<1>25. \A x \in X1 : x \in O \cup {y} <=> ~IsFree(x, K, G)
  BY <1>18, <1>21, <1>24 DEF Tiled
<1>26. Tiled(q, O \cup {y}, X1, K, G)
  <2>1. O \cup {y} \subseteq X1
    BY <1>1, <1>18
  <2>2. QED
    BY <1>13, <1>16, <1>22, <1>23, <1>25, <2>1 DEF Tiled
<1>27. y \notin O
  BY <1>1, <1>21
<1>28. Good(q, O \cup {y})
  BY <1>26 DEF Good
<1>29. QED
  BY <1>4, <1>9, <1>11, <1>17, <1>27, <1>28

\* ListPool::alloc gives a block that was not in use.
LEMMA AllocGood ==
  ASSUME NEW p, NEW O, Good(p, O), NEW c \in Class, NEW a, a = alloc(p, c)
  PROVE  /\ a.block \in Nat /\ <<a.block, c>> \notin O
         /\ Good(a.pool, O \cup {<<a.block, c>>}) /\ Extends(p, a.pool)
<1>1. PICK X, K, G : Tiled(p, O, X, K, G)
  BY DEF Good
<1>2. CASE K[c] # 0
  BY <1>1, <1>2, ReuseTiled
<1>3. CASE K[c] = 0
  BY <1>1, <1>3, GrowTiled
<1>4. QED
  BY <1>2, <1>3

\* ListPool::free puts a block in use at the head of a free list.
LEMMA FreeGood ==
  ASSUME NEW p, NEW O, Good(p, O), NEW b, NEW c, <<b, c>> \in O,
         NEW q, q = free_block(p, b, c)
  PROVE  Good(q, O \ {<<b, c>>}) /\ Same(p, q, O \ {<<b, c>>})
<1>1. PICK X, K, G : Tiled(p, O, X, K, G)
  BY DEF Good
<1>2. PICK y : y = <<b, c>>
  OBVIOUS
<1>3. PICK n \in Nat : n = size(p)
  BY <1>1 DEF Tiled, Shape
<1>4. /\ y \in O /\ y \in X /\ y[1] = b /\ y[2] = c /\ Shape(p) /\ Tiling(n, X)
      /\ FreeLists(p, X, K, G) /\ ~IsFree(y, K, G)
  BY <1>1, <1>2, <1>3 DEF Tiled
<1>5. y \in Nat \X Class /\ b + sclass_size(c) <= n
  BY <1>4, BlockInside
<1>6. b \in Nat /\ c \in Class
  BY <1>4, <1>5
<1>7. PICK z \in Nat : z = sclass_size(c) /\ z >= 4 /\ b + z <= n
  BY <1>4, <1>5, CoverWords
<1>8. PICK k \in Nat : k = K[c]
  BY <1>4, <1>6 DEF FreeLists
<1>9. \A i \in 1 .. k : G[c][i] # b
  BY <1>4, <1>8 DEF IsFree
<1>10. PICK f : f = p.free[c]
  OBVIOUS
<1>11. f \in 0 .. n /\ f = IF k = 0 THEN 0 ELSE G[c][k] + 1
  <2>1. f = IF k = 0 THEN 0 ELSE G[c][k] + 1
    BY <1>4, <1>6, <1>8, <1>10 DEF FreeLists
  <2>2. CASE k = 0
    BY <2>1, <2>2
  <2>3. CASE k # 0
    <3>1. k \in 1 .. K[c]
      BY <1>8, <2>3
    <3>2. G[c][k] + 1 \in 0 .. n - 1
      BY <1>1, <1>3, <1>6, <3>1, FreePlace
    <3>3. QED
      BY <2>1, <2>3, <3>2
  <2>4. QED
    BY <2>2, <2>3
<1>12. PICK s : s = <<0, f>>
  OBVIOUS
<1>13. s \in Seq(Words(p)) /\ Len(s) = 2 /\ s[2] = f
  <2>1. 0 \in Words(p) /\ f \in Words(p)
    BY <1>3, <1>11 DEF Words
  <2>2. QED
    BY <1>12, <2>1
<1>14. Fits(p, O, b, c, b, s)
  <2>1. b <= b /\ b + 2 <= b + z
    BY <1>6, <1>7
  <2>2. QED
    BY <1>2, <1>4, <1>6, <1>7, <1>13, <2>1 DEF Fits
<1>15. PICK v : v = Write(p, b, s)
  OBVIOUS
<1>16. Tiled(v, O, X, K, G) /\ Same(p, v, O \ {y}) /\ Written(p, v, b, s)
  BY <1>1, <1>2, <1>14, <1>15, WriteTiled
<1>17. Shape(v) /\ FreeLists(v, X, K, G) /\ size(v) = n
  BY <1>3, <1>16 DEF Tiled, Written
<1>18. q = [v EXCEPT !.free[c] = b + 1]
  BY <1>10, <1>12, <1>15 DEF free_block
<1>19. /\ v = [data |-> v.data, free |-> v.free] /\ v.free \in [Class -> Nat]
       /\ v.data \in [0 .. n - 1 -> Words(v)]
  BY <1>17 DEF Shape
<1>20. /\ q = [data |-> q.data, free |-> q.free] /\ q.data = v.data
       /\ q.free = [v.free EXCEPT ![c] = b + 1]
  BY <1>18, <1>19
<1>21. size(q) = n
  BY <1>17, <1>20 DEF size
<1>22. Shape(q)
  <2>1. q.free \in [Class -> Nat]
    BY <1>6, <1>19, <1>20
  <2>2. Words(q) = Words(v)
    BY <1>17, <1>21 DEF Words
  <2>3. QED
    BY <1>19, <1>20, <1>21, <2>1, <2>2 DEF Shape
<1>23. v.data[b + 1] = f
  <2>1. b + 1 \in 0 .. n - 1 /\ b <= b + 1 /\ b + 1 < b + 2 /\ (b + 1) - b + 1 = 2
    BY <1>6, <1>7
  <2>2. PICK w : w = b + 1
    OBVIOUS
  <2>3. v.data[w] = IF b <= w /\ w < b + 2 THEN s[w - b + 1] ELSE p.data[w]
    BY <1>3, <1>13, <1>16, <2>1, <2>2 DEF Written
  <2>4. QED
    BY <1>13, <2>1, <2>2, <2>3
<1>24. PICK K1, G1 : /\ K1 = [K EXCEPT ![c] = k + 1]
                     /\ G1 = [G EXCEPT ![c] = [G[c] EXCEPT ![k + 1] = b]]
  OBVIOUS
<1>25. K \in [Class -> Nat] /\ G \in [Class -> [Nat -> Nat]]
  BY <1>4 DEF FreeLists
<1>26. /\ K1 \in [Class -> Nat] /\ G1 \in [Class -> [Nat -> Nat]]
       /\ K1[c] = k + 1 /\ G1[c][k + 1] = b
       /\ \A i \in 1 .. k : G1[c][i] = G[c][i]
       /\ \A d \in Class : d # c => K1[d] = K[d] /\ G1[d] = G[d]
  <2>1. PICK g : g = [G[c] EXCEPT ![k + 1] = b]
    OBVIOUS
  <2>2. G[c] \in [Nat -> Nat] /\ k + 1 \in Nat
    BY <1>6, <1>25
  <2>3. g \in [Nat -> Nat] /\ g[k + 1] = b /\ \A i \in 1 .. k : g[i] = G[c][i]
    <3>1. \A i \in 1 .. k : i \in Nat /\ i # k + 1
      OBVIOUS
    <3>2. QED
      BY <1>6, <2>1, <2>2, <3>1
  <2>4. G1 = [G EXCEPT ![c] = g]
    BY <1>24, <2>1
  <2>5. /\ G1 \in [Class -> [Nat -> Nat]] /\ G1[c] = g
        /\ \A d \in Class : d # c => G1[d] = G[d]
    BY <1>6, <1>25, <2>3, <2>4
  <2>6. /\ K1 \in [Class -> Nat] /\ K1[c] = k + 1
        /\ \A d \in Class : d # c => K1[d] = K[d]
    BY <1>6, <1>24, <1>25, <2>2
  <2>7. QED
    BY <2>3, <2>5, <2>6
<1>27. FreeLists(q, X, K1, G1)
  <2>1. ASSUME NEW d \in Class, NEW i \in 1 .. K1[d] PROVE <<G1[d][i], d>> \in X
    <3>1. CASE d # c
      BY <1>4, <1>26, <2>1, <3>1 DEF FreeLists
    <3>2. CASE d = c /\ i = k + 1
      BY <1>2, <1>4, <1>26, <3>2
    <3>3. CASE d = c /\ i # k + 1
      <4>1. i \in 1 .. k
        <5>1. i \in 1 .. k + 1
          BY <1>26, <3>3
        <5>2. QED
          BY <3>3, <5>1
      <4>2. QED
        BY <1>4, <1>8, <1>26, <2>1, <3>3, <4>1 DEF FreeLists
    <3>4. QED
      BY <3>1, <3>2, <3>3
  <2>2. ASSUME NEW d \in Class, NEW i \in 1 .. K1[d], NEW j \in 1 .. K1[d], G1[d][i] = G1[d][j]
        PROVE  i = j
    <3>1. CASE d # c
      BY <1>4, <1>26, <2>2, <3>1 DEF FreeLists
    <3>2. CASE d = c
      <4>1. \A l \in 1 .. k + 1 : l = k + 1 \/ l \in 1 .. k
        OBVIOUS
      <4>2. (i = k + 1 \/ i \in 1 .. k) /\ (j = k + 1 \/ j \in 1 .. k)
        BY <1>26, <2>2, <3>2, <4>1
      <4>3. \A l, m \in 1 .. k : G[c][l] = G[c][m] => l = m
        BY <1>4, <1>6, <1>8 DEF FreeLists
      <4>4. G1[c][i] = G1[c][j]
        BY <2>2, <3>2
      <4>5. QED
        BY <1>9, <1>26, <4>2, <4>3, <4>4
    <3>3. QED
      BY <3>1, <3>2
  <2>3. ASSUME NEW d \in Class
        PROVE  q.free[d] = IF K1[d] = 0 THEN 0 ELSE G1[d][K1[d]] + 1
    <3>1. CASE d # c
      <4>1. q.free[d] = v.free[d]
        BY <1>19, <1>20, <3>1
      <4>2. v.free[d] = IF K[d] = 0 THEN 0 ELSE G[d][K[d]] + 1
        BY <1>17 DEF FreeLists
      <4>3. QED
        BY <1>26, <3>1, <4>1, <4>2
    <3>2. CASE d = c
      <4>1. q.free[c] = b + 1
        BY <1>6, <1>19, <1>20
      <4>2. k + 1 # 0
        OBVIOUS
      <4>3. QED
        BY <1>26, <3>2, <4>1, <4>2
    <3>3. QED
      BY <3>1, <3>2
  <2>4. ASSUME NEW d \in Class, NEW i \in 1 .. K1[d]
        PROVE  q.data[G1[d][i] + 1] = IF i = 1 THEN 0 ELSE G1[d][i - 1] + 1
    <3>1. CASE d # c
      <4>1. i \in 1 .. K[d]
        BY <1>26, <2>4, <3>1
      <4>2. v.data[G[d][i] + 1] = IF i = 1 THEN 0 ELSE G[d][i - 1] + 1
        BY <1>17, <4>1 DEF FreeLists
      <4>3. QED
        BY <1>20, <1>26, <3>1, <4>2
    <3>2. CASE d = c /\ i = k + 1
      <4>1. q.data[G1[d][i] + 1] = f
        BY <1>20, <1>23, <1>26, <3>2
      <4>2. CASE k = 0
        BY <1>11, <3>2, <4>1, <4>2
      <4>3. CASE k # 0
        <5>1. k \in 1 .. k /\ i # 1 /\ i - 1 = k
          BY <3>2, <4>3
        <5>2. G1[d][i - 1] = G[c][k]
          BY <1>26, <3>2, <5>1
        <5>3. QED
          BY <1>11, <4>1, <4>3, <5>1, <5>2
      <4>4. QED
        BY <4>2, <4>3
    <3>3. CASE d = c /\ i # k + 1
      <4>1. i \in 1 .. k /\ (i # 1 => i - 1 \in 1 .. k)
        BY <1>26, <2>4, <3>3
      <4>2. v.data[G[c][i] + 1] = IF i = 1 THEN 0 ELSE G[c][i - 1] + 1
        BY <1>6, <1>8, <1>17, <4>1 DEF FreeLists
      <4>3. G1[c][i] = G[c][i] /\ (i # 1 => G1[c][i - 1] = G[c][i - 1])
        BY <1>26, <4>1
      <4>4. QED
        BY <1>20, <3>3, <4>2, <4>3
    <3>4. QED
      BY <3>1, <3>2, <3>3
  <2>5. QED
    BY <1>26, <2>1, <2>2, <2>3, <2>4 DEF FreeLists
<1>28. O \ {y} \subseteq X
  BY <1>1 DEF Tiled
<1>29. ASSUME NEW x \in X PROVE x \in O \ {y} <=> ~IsFree(x, K1, G1)
  <2>1. x \in Nat \X Class
    BY <1>4, BlockInside
  <2>2. x \in O <=> ~IsFree(x, K, G)
    BY <1>1 DEF Tiled
  <2>3. CASE x[2] # c
    <3>1. x # y
      BY <1>4, <2>3
    <3>2. IsFree(x, K1, G1) <=> IsFree(x, K, G)
      BY <1>26, <2>1, <2>3 DEF IsFree
    <3>3. QED
      BY <2>2, <3>1, <3>2
  <2>4. CASE x[2] = c
    <3>1. x = y <=> x[1] = b
      BY <1>4, <1>5, <2>1, <2>4
    <3>2. IsFree(x, K, G) <=> \E i \in 1 .. k : x[1] = G[c][i]
      BY <1>8, <2>4 DEF IsFree
    <3>3. IsFree(x, K1, G1) <=> \E i \in 1 .. k + 1 : x[1] = G1[c][i]
      BY <1>26, <2>4 DEF IsFree
    <3>4. \A i : i \in 1 .. k + 1 <=> i \in 1 .. k \/ i = k + 1
      OBVIOUS
    <3>5. IsFree(x, K1, G1) <=> IsFree(x, K, G) \/ x[1] = b
      BY <1>26, <3>2, <3>3, <3>4
    <3>6. QED
      BY <2>2, <3>1, <3>5
  <2>5. QED
    BY <2>3, <2>4
<1>30. Tiled(q, O \ {y}, X, K1, G1)
  BY <1>4, <1>21, <1>22, <1>27, <1>28, <1>29 DEF Tiled
<1>31. Same(p, q, O \ {y})
  BY <1>16, <1>20 DEF Same
<1>32. QED
  BY <1>2, <1>30, <1>31 DEF Good

-----------------------------------------------------------------------------
(* Lists in their blocks.                                                  *)

\* The block of a list of n elements.
BlockOf(idx, n) == IF idx = 0 THEN {} ELSE {<<idx - 1, sclass_for_length(n)>>}

\* Handle idx has the list s, in a block of O.
Listed(p, O, idx, s) ==
  /\ idx \in Nat /\ s \in Seq(Words(p)) /\ (idx = 0 <=> Len(s) = 0)
  /\ BlockOf(idx, Len(s)) \subseteq O
  /\ idx # 0 => p.data[idx - 1] = Len(s)
  /\ \A k \in 1 .. Len(s) : p.data[idx + k - 1] = s[k]

\* The result r of a call turns the list s of idx into t: its block is new or
\* its own, and no other list is touched.
Turns(p, O, idx, s, r, t) ==
  LET rest == O \ BlockOf(idx, Len(s))
      now  == rest \cup BlockOf(r.idx, Len(t))
  IN  /\ BlockOf(r.idx, Len(t)) \cap rest = {}
      /\ Good(r.pool, now) /\ Same(p, r.pool, rest) /\ Listed(r.pool, now, r.idx, t)

\* The first n words of block b of p are in block d of q, and the other blocks
\* are the same.
Moves(p, rest, b, q, d, e, n) ==
  /\ d \in Nat /\ <<d, e>> \notin rest /\ Good(q, rest \cup {<<d, e>>}) /\ Same(p, q, rest)
  /\ \A j \in 0 .. n - 1 : q.data[d + j] = p.data[b + j]

\* The list s of idx has n elements, in block b of class c.
InBlock(p, O, idx, s, b, n, c) ==
  /\ idx = b + 1 /\ n = Len(s) /\ n > 0 /\ c = sclass_for_length(n) /\ c \in Class
  /\ <<b, c>> \in O /\ BlockOf(idx, Len(s)) = {<<b, c>>}
  /\ b + n + 1 <= size(p) /\ n + 1 <= sclass_size(c) /\ b + sclass_size(c) <= size(p)
  /\ p.data[b] = n /\ \A k \in 1 .. n : p.data[b + k] = s[k]

\* Every length that a list can have has a class.
LEMMA ClassInRange ==
  ASSUME NEW n \in Nat, n <= MaxLen + 2
  PROVE  sclass_for_length(n) \in Class
<1>1. PICK c \in Nat : c = sclass_for_length(n)
  BY ClassOfLength
<1>2. MaxLen \in Nat
  BY ListPoolAssumption
<1>3. n <= 3 => c = 0
  BY <1>1, ClassOfLength
<1>4. n > 3 => c + 2 <= n
  BY <1>1, ClassOfLength
<1>5. c <= MaxLen
  BY <1>2, <1>3, <1>4
<1>6. QED
  BY <1>1, <1>2, <1>5 DEF Class

\* What a pool whose words are divided into blocks is like.
LEMMA GoodShape ==
  ASSUME NEW p, NEW O, Good(p, O)
  PROVE  /\ Shape(p) /\ size(p) \in Nat
         /\ \A x \in O : /\ x \in Nat \X Class /\ x[1] + sclass_size(x[2]) <= size(p)
                         /\ Cover(x) \subseteq 0 .. size(p) - 1
         /\ \A x, y \in O : x[1] = y[1] => x = y
<1>1. PICK X, K, G : Tiled(p, O, X, K, G)
  BY DEF Good
<1>2. Shape(p) /\ O \subseteq X
  BY <1>1 DEF Tiled
<1>3. PICK n \in Nat : n = size(p)
  BY <1>2 DEF Shape
<1>4. Tiling(n, X)
  BY <1>1, <1>3 DEF Tiled
<1>5. \A x \in O : /\ x \in Nat \X Class /\ x[1] + sclass_size(x[2]) <= n
                   /\ Cover(x) \subseteq 0 .. n - 1
  BY <1>2, <1>4, BlockInside
<1>6. ASSUME NEW x \in O, NEW y \in O, x[1] = y[1] PROVE x = y
  <2>1. x \in Nat \X Class /\ y \in Nat \X Class
    BY <1>5
  <2>2. x[1] \in Cover(x) /\ y[1] \in Cover(y)
    BY <2>1, CoverWords
  <2>3. QED
    BY <1>2, <1>4, <1>6, <2>2 DEF Tiling
<1>7. QED
  BY <1>2, <1>3, <1>5, <1>6

\* A list that is not empty is in its block.
LEMMA ListedBlock ==
  ASSUME NEW p, NEW O, Good(p, O), NEW idx, NEW s, Listed(p, O, idx, s), idx # 0
  PROVE  \E b, n, c \in Nat : InBlock(p, O, idx, s, b, n, c)
<1>1. PICK n \in Nat : n = Len(s)
  BY LenProperties DEF Listed
<1>2. /\ idx \in Nat /\ n # 0 /\ BlockOf(idx, n) \subseteq O /\ p.data[idx - 1] = n
      /\ \A k \in 1 .. n : p.data[idx + k - 1] = s[k]
  BY <1>1 DEF Listed
<1>3. PICK b \in Nat : b = idx - 1 /\ idx = b + 1
  <2>1. idx - 1 \in Nat /\ idx = (idx - 1) + 1
    BY <1>2
  <2>2. QED
    BY <2>1
<1>4. PICK c \in Nat : c = sclass_for_length(n)
  BY <1>1, ClassOfLength
<1>5. BlockOf(idx, n) = {<<b, c>>}
  BY <1>2, <1>3, <1>4 DEF BlockOf
<1>6. PICK y : y = <<b, c>>
  OBVIOUS
<1>7. y \in O /\ y[1] = b /\ y[2] = c
  BY <1>2, <1>5, <1>6
<1>8. PICK m \in Nat : m = size(p)
  BY GoodShape
<1>9. y \in Nat \X Class /\ y[1] + sclass_size(y[2]) <= m
  BY <1>7, <1>8, GoodShape
<1>10. c \in Class
  BY <1>7, <1>9
<1>11. PICK z \in Nat : z = sclass_size(c)
  BY BlockSize
<1>12. b + z <= m /\ n + 1 <= z
  BY <1>1, <1>4, <1>7, <1>9, <1>11, ClassOfLength
<1>13. b + n + 1 <= m /\ n > 0
  BY <1>2, <1>12
<1>14. \A k \in 1 .. n : p.data[b + k] = s[k]
  <2>1. \A k \in 1 .. n : idx + k - 1 = b + k
    BY <1>3
  <2>2. QED
    BY <1>2, <2>1
<1>15. InBlock(p, O, idx, s, b, n, c)
  BY <1>1, <1>2, <1>3, <1>4, <1>5, <1>6, <1>7, <1>8, <1>10, <1>11, <1>12, <1>13, <1>14 DEF InBlock
<1>16. QED
  BY <1>15

\* What a handle reads.
LEMMA ListedReads ==
  ASSUME NEW p, NEW O, Good(p, O), NEW idx, NEW s, Listed(p, O, idx, s)
  PROVE  len(p, idx) = Len(s) /\ as_slice(p, idx) = s
<1>1. PICK n \in Nat : n = Len(s)
  BY LenProperties DEF Listed
<1>2. len(p, idx) = n
  BY <1>1 DEF len, Listed
<1>3. s = [k \in 1 .. n |-> s[k]]
  <2>1. DOMAIN s = 1 .. n /\ s = [k \in DOMAIN s |-> s[k]]
    BY <1>1, LenProperties DEF Listed
  <2>2. QED
    BY <2>1
<1>4. [k \in 1 .. n |-> p.data[idx + k - 1]] = [k \in 1 .. n |-> s[k]]
  BY <1>1 DEF Listed
<1>5. as_slice(p, idx) = s
  BY <1>2, <1>3, <1>4 DEF as_slice, Block
<1>6. QED
  BY <1>1, <1>2, <1>5

\* What stays the same in two steps stays the same.
LEMMA SameThrough ==
  ASSUME NEW p, NEW q, NEW r, NEW N1, NEW N2, NEW O,
         Same(p, q, N1), Same(q, r, N2), O \subseteq N1, O \subseteq N2
  PROVE  Same(p, r, O)
BY DEF Same

\* A list of n elements may be in block b.
Owns(O, b, n) == n \in Nat /\ n > 0 /\ <<b, sclass_for_length(n)>> \in O

\* The block of a handle above its block.
LEMMA BlockOfAbove ==
  ASSUME NEW b \in Nat, NEW n
  PROVE  BlockOf(b + 1, n) = {<<b, sclass_for_length(n)>>}
<1>1. b + 1 # 0 /\ (b + 1) - 1 = b
  OBVIOUS
<1>2. QED
  BY <1>1 DEF BlockOf

\* A length written in front of what a block holds makes a list of it.
LEMMA WriteLen ==
  ASSUME NEW p, NEW O, Good(p, O), NEW b, NEW n, Owns(O, b, n),
         NEW q, q = Write(p, b, <<n>>), NEW t, t = Block(p, b + 1, n)
  PROVE  /\ Good(q, O) /\ Same(p, q, O \ {<<b, sclass_for_length(n)>>})
         /\ Listed(q, O, b + 1, t) /\ Len(t) = n
<1>1. n \in Nat /\ n > 0 /\ <<b, sclass_for_length(n)>> \in O
  BY DEF Owns
<1>2. PICK c \in Nat : c = sclass_for_length(n)
  BY <1>1, ClassOfLength
<1>3. PICK y : y = <<b, c>>
  OBVIOUS
<1>4. y \in O /\ y[1] = b /\ y[2] = c
  BY <1>1, <1>2, <1>3
<1>5. PICK m \in Nat : m = size(p)
  BY GoodShape
<1>6. Shape(p) /\ y \in Nat \X Class /\ y[1] + sclass_size(y[2]) <= m
  BY <1>4, <1>5, GoodShape
<1>7. b \in Nat /\ c \in Class
  BY <1>4, <1>6
<1>8. PICK z \in Nat : z = sclass_size(c)
  BY BlockSize
<1>9. b + z <= m /\ n + 1 <= z
  BY <1>1, <1>2, <1>4, <1>6, <1>8, ClassOfLength
<1>10. PICK u : u = <<n>>
  OBVIOUS
<1>11. u \in Seq(Words(p)) /\ Len(u) = 1 /\ u[1] = n
  <2>1. n \in 0 .. m
    BY <1>1, <1>7, <1>9
  <2>2. n \in Words(p)
    BY <1>5, <2>1 DEF Words
  <2>3. QED
    BY <1>10, <2>2
<1>12. Fits(p, O, b, c, b, u)
  <2>1. b <= b /\ b + 1 <= b + z
    BY <1>1, <1>7, <1>9
  <2>2. QED
    BY <1>3, <1>4, <1>7, <1>8, <1>11, <2>1 DEF Fits
<1>13. q = Write(p, b, u)
  BY <1>10
<1>14. Good(q, O) /\ Same(p, q, O \ {<<b, c>>}) /\ Written(p, q, b, u)
  BY <1>12, <1>13, WriteGood
<1>15. size(q) = m /\ \A w \in 0 .. m - 1 : q.data[w] = IF b <= w /\ w < b + 1 THEN u[w - b + 1] ELSE p.data[w]
  BY <1>5, <1>11, <1>14 DEF Written
<1>16. (b + 1) + n <= m
  BY <1>1, <1>7, <1>9
<1>17. /\ t \in Seq(Words(p)) /\ Len(t) = n
       /\ \A k \in 1 .. n : t[k] = p.data[(b + 1) + k - 1]
  <2>1. PICK i \in Nat : i = b + 1
    BY <1>7
  <2>2. i + n <= size(p)
    BY <1>5, <1>16, <2>1
  <2>3. t = Block(p, i, n)
    BY <2>1
  <2>4. /\ Block(p, i, n) \in Seq(Words(p)) /\ Len(Block(p, i, n)) = n
        /\ \A k \in 1 .. n : Block(p, i, n)[k] = p.data[i + k - 1]
    BY <1>1, <1>6, <2>2, BlockWords
  <2>5. QED
    BY <2>1, <2>3, <2>4
<1>18. Words(q) = Words(p)
  BY <1>5, <1>15 DEF Words
<1>19. \A k \in 1 .. n : q.data[(b + 1) + k - 1] = t[k]
  <2>1. SUFFICES ASSUME NEW k \in 1 .. n PROVE q.data[(b + 1) + k - 1] = t[k]
    OBVIOUS
  <2>2. PICK w : w = (b + 1) + k - 1
    OBVIOUS
  <2>3. w \in 0 .. m - 1 /\ ~(w < b + 1)
    BY <1>1, <1>7, <1>9, <2>2
  <2>4. q.data[w] = p.data[w]
    BY <1>15, <2>3
  <2>5. QED
    BY <1>17, <2>2, <2>4
<1>20. q.data[(b + 1) - 1] = n
  <2>1. b \in 0 .. m - 1 /\ b <= b /\ b < b + 1 /\ b - b + 1 = 1 /\ (b + 1) - 1 = b
    BY <1>1, <1>7, <1>9
  <2>2. QED
    BY <1>11, <1>15, <2>1
<1>21. BlockOf(b + 1, n) = {y}
  BY <1>2, <1>3, <1>7, BlockOfAbove
<1>22. Listed(q, O, b + 1, t)
  <2>1. b + 1 \in Nat /\ b + 1 # 0 /\ n # 0
    BY <1>1, <1>7
  <2>2. QED
    BY <1>4, <1>17, <1>18, <1>19, <1>20, <1>21, <2>1 DEF Listed
<1>23. QED
  BY <1>2, <1>14, <1>17, <1>22

\* s with the elements u after the first k.
Over(s, k, u) ==
  [j \in 1 .. Len(s) |-> IF k < j /\ j <= k + Len(u) THEN u[j - k] ELSE s[j]]

\* Elements of a list are overwritten.
LEMMA InPlace ==
  ASSUME NEW p, NEW O, Good(p, O), NEW idx, NEW s, Listed(p, O, idx, s), idx # 0,
         NEW k \in Nat, NEW u \in Seq(Words(p)), k + Len(u) <= Len(s),
         NEW t, t = Over(s, k, u)
  PROVE  /\ Turns(p, O, idx, s, Result(Write(p, idx + k, u), idx), t) /\ Len(t) = Len(s)
         /\ size(Write(p, idx + k, u)) = size(p)
<1>1. PICK b, n, c \in Nat : InBlock(p, O, idx, s, b, n, c)
  BY ListedBlock
<1>2. PICK y : y = <<b, c>>
  OBVIOUS
<1>3. /\ idx = b + 1 /\ n = Len(s) /\ n > 0 /\ c \in Class /\ y \in O
      /\ BlockOf(idx, n) = {y} /\ p.data[b] = n
      /\ \A j \in 1 .. n : p.data[b + j] = s[j]
  BY <1>1, <1>2 DEF InBlock
<1>4. PICK m, z, l \in Nat : m = size(p) /\ z = sclass_size(c) /\ l = Len(u)
  BY BlockSize, GoodShape, LenProperties
<1>5. b + n + 1 <= m /\ n + 1 <= z /\ k + l <= n
  BY <1>1, <1>3, <1>4 DEF InBlock
<1>6. PICK i \in Nat : i = b + 1 + k
  OBVIOUS
<1>7. Fits(p, O, b, c, i, u)
  <2>1. b <= i /\ i + l <= b + z
    BY <1>5, <1>6
  <2>2. QED
    BY <1>2, <1>3, <1>4, <1>6, <2>1 DEF Fits
<1>8. PICK q : q = Write(p, i, u)
  OBVIOUS
<1>9. Good(q, O) /\ Same(p, q, O \ {<<b, c>>}) /\ Written(p, q, i, u)
  BY <1>7, <1>8, WriteGood
<1>10. /\ size(q) = m
       /\ \A w \in 0 .. m - 1 : q.data[w] = IF i <= w /\ w < i + l THEN u[w - i + 1] ELSE p.data[w]
  BY <1>4, <1>9 DEF Written
<1>11. Words(q) = Words(p)
  BY <1>4, <1>10 DEF Words
<1>12. t = [j \in 1 .. n |-> IF k < j /\ j <= k + l THEN u[j - k] ELSE s[j]]
  BY <1>3, <1>4 DEF Over
<1>13. s \in Seq(Words(p))
  BY DEF Listed
<1>14. t \in Seq(Words(q)) /\ Len(t) = n
  <2>1. ASSUME NEW j \in 1 .. n PROVE t[j] \in Words(p)
    <3>1. CASE k < j /\ j <= k + l
      <4>1. j - k \in 1 .. l
        BY <3>1
      <4>2. u[j - k] \in Words(p)
        BY <1>4, <4>1, ElementOfSeq
      <4>3. QED
        BY <1>12, <3>1, <4>2
    <3>2. CASE ~(k < j /\ j <= k + l)
      <4>1. s[j] \in Words(p)
        BY <1>3, <1>13, ElementOfSeq
      <4>2. QED
        BY <1>12, <3>2, <4>1
    <3>3. QED
      BY <3>1, <3>2
  <2>2. t \in [1 .. n -> Words(q)]
    BY <1>11, <1>12, <2>1
  <2>3. QED
    BY <2>2, SeqDef, LenProperties
<1>15. \A j \in 1 .. n : q.data[idx + j - 1] = t[j]
  <2>1. SUFFICES ASSUME NEW j \in 1 .. n PROVE q.data[idx + j - 1] = t[j]
    OBVIOUS
  <2>2. PICK w : w = b + j /\ w = idx + j - 1
    BY <1>3
  <2>3. w \in 0 .. m - 1
    BY <1>5, <2>2
  <2>4. q.data[w] = IF i <= w /\ w < i + l THEN u[w - i + 1] ELSE p.data[w]
    BY <1>10, <2>3
  <2>5. (i <= w /\ w < i + l) <=> (k < j /\ j <= k + l)
    BY <1>6, <2>2
  <2>6. w - i + 1 = j - k
    BY <1>6, <2>2
  <2>7. p.data[w] = s[j]
    BY <1>3, <2>2
  <2>8. t[j] = IF k < j /\ j <= k + l THEN u[j - k] ELSE s[j]
    BY <1>12
  <2>9. QED
    BY <2>2, <2>4, <2>5, <2>6, <2>7, <2>8
<1>16. q.data[idx - 1] = n
  <2>1. b \in 0 .. m - 1 /\ ~(i <= b) /\ idx - 1 = b
    BY <1>3, <1>5, <1>6
  <2>2. QED
    BY <1>3, <1>10, <2>1
<1>17. Listed(q, O, idx, t)
  <2>1. idx \in Nat /\ idx # 0 /\ n # 0
    BY <1>3
  <2>2. QED
    BY <1>3, <1>14, <1>15, <1>16, <2>1 DEF Listed
<1>18. PICK r : r = Result(q, idx)
  OBVIOUS
<1>19. r.pool = q /\ r.idx = idx
  BY <1>18 DEF Result
<1>20. (O \ {y}) \cup {y} = O /\ {y} \cap (O \ {y}) = {}
  BY <1>3
<1>21. Turns(p, O, idx, s, r, t)
  BY <1>2, <1>3, <1>9, <1>14, <1>17, <1>19, <1>20 DEF Turns
<1>22. idx + k = i
  BY <1>3, <1>6
<1>23. QED
  BY <1>3, <1>4, <1>8, <1>10, <1>14, <1>18, <1>21, <1>22

\* Wherever j has the list t in q, the call with the result r turns it into u.
Leads(q, j, t, r, u) == \A O : Good(q, O) /\ Listed(q, O, j, t) => Turns(q, O, j, t, r, u)

\* Two calls in a row.
LEMMA TurnsThrough ==
  ASSUME NEW p, NEW O, NEW idx, NEW s, NEW g, NEW t, Turns(p, O, idx, s, g, t),
         NEW r, NEW u, Leads(g.pool, g.idx, t, r, u)
  PROVE  Turns(p, O, idx, s, r, u)
<1>1. PICK rest, B1, B2, now : /\ rest = O \ BlockOf(idx, Len(s)) /\ B1 = BlockOf(g.idx, Len(t))
                               /\ B2 = BlockOf(r.idx, Len(u)) /\ now = rest \cup B1
  OBVIOUS
<1>2. /\ B1 \cap rest = {} /\ Good(g.pool, now) /\ Same(p, g.pool, rest)
      /\ Listed(g.pool, now, g.idx, t)
  BY <1>1 DEF Turns
<1>3. Turns(g.pool, now, g.idx, t, r, u)
  BY <1>2 DEF Leads
<1>4. now \ B1 = rest
  BY <1>1, <1>2
<1>5. /\ B2 \cap rest = {} /\ Good(r.pool, rest \cup B2) /\ Same(g.pool, r.pool, rest)
      /\ Listed(r.pool, rest \cup B2, r.idx, u)
  BY <1>1, <1>3, <1>4 DEF Turns
<1>6. Same(p, r.pool, rest)
  BY <1>2, <1>5, SameThrough
<1>7. QED
  BY <1>1, <1>5, <1>6 DEF Turns

\* A longer vector has room for greater lengths.
LEMMA WordsGrow ==
  ASSUME NEW p, NEW q, size(p) \in Nat, size(q) \in Nat, size(p) <= size(q)
  PROVE  Words(p) \subseteq Words(q)
<1>1. 0 .. size(p) \subseteq 0 .. size(q)
  OBVIOUS
<1>2. QED
  BY <1>1 DEF Words

\* ListPool::realloc copies n words and frees the old block.
LEMMA ReallocMoves ==
  ASSUME NEW p, NEW O, Good(p, O), NEW b, NEW from, <<b, from>> \in O, NEW to \in Class,
         NEW n \in Nat, n <= sclass_size(from), n <= sclass_size(to),
         NEW r, r = realloc(p, b, from, to, n)
  PROVE  Moves(p, O \ {<<b, from>>}, b, r.pool, r.block, to, n)
<1>1. PICK x : x = <<b, from>>
  OBVIOUS
<1>2. x \in O /\ x[1] = b /\ x[2] = from
  BY <1>1
<1>3. PICK m \in Nat : m = size(p)
  BY GoodShape
<1>4. Shape(p) /\ x \in Nat \X Class /\ x[1] + sclass_size(x[2]) <= m
  BY <1>2, <1>3, GoodShape
<1>5. b \in Nat /\ from \in Class
  BY <1>2, <1>4
<1>6. PICK z1, z2 \in Nat : z1 = sclass_size(from) /\ z2 = sclass_size(to)
  BY <1>5, BlockSize DEF Class
<1>7. b + z1 <= m /\ n <= z1 /\ n <= z2 /\ b + n <= m
  BY <1>2, <1>4, <1>5, <1>6
<1>8. PICK a : a = alloc(p, to)
  OBVIOUS
<1>9. PICK P, d : P = a.pool /\ d = a.block
  OBVIOUS
<1>10. PICK y : y = <<d, to>>
  OBVIOUS
<1>11. d \in Nat /\ y \notin O /\ Good(P, O \cup {y}) /\ Extends(p, P)
  BY <1>8, <1>9, <1>10, AllocGood
<1>12. PICK u : u = Block(p, b, n)
  OBVIOUS
<1>13. u \in Seq(Words(p)) /\ Len(u) = n /\ \A k \in 1 .. n : u[k] = p.data[b + k - 1]
  <2>1. b + n <= size(p)
    BY <1>3, <1>7
  <2>2. /\ Block(p, b, n) \in Seq(Words(p)) /\ Len(Block(p, b, n)) = n
        /\ \A k \in 1 .. n : Block(p, b, n)[k] = p.data[b + k - 1]
    BY <1>4, <1>5, <2>1, BlockWords
  <2>3. QED
    BY <1>12, <2>2
<1>14. u \in Seq(Words(P))
  <2>1. Words(p) \subseteq Words(P)
    BY <1>11, WordsGrow DEF Extends
  <2>2. QED
    BY <1>13, <2>1, SeqMonotonic
<1>15. Fits(P, O \cup {y}, d, to, d, u)
  <2>1. d <= d /\ d + n <= d + z2
    BY <1>7, <1>11
  <2>2. QED
    BY <1>6, <1>10, <1>11, <1>13, <1>14, <2>1 DEF Fits
<1>16. PICK v : v = Write(P, d, u)
  OBVIOUS
<1>17. Good(v, O \cup {y}) /\ Same(P, v, (O \cup {y}) \ {y}) /\ Written(P, v, d, u)
  BY <1>10, <1>11, <1>15, <1>16, WriteGood
<1>18. PICK q : q = free_block(v, b, from)
  OBVIOUS
<1>19. Good(q, (O \cup {y}) \ {x}) /\ Same(v, q, (O \cup {y}) \ {x})
  <2>1. <<b, from>> \in O \cup {y}
    BY <1>1, <1>2
  <2>2. QED
    BY <1>1, <1>17, <1>18, <2>1, FreeGood
<1>20. r.pool = q /\ r.block = d
  BY <1>8, <1>9, <1>12, <1>16, <1>18 DEF realloc
<1>21. PICK rest : rest = O \ {x}
  OBVIOUS
<1>22. /\ (O \cup {y}) \ {x} = rest \cup {y} /\ rest \subseteq (O \cup {y}) \ {y}
       /\ rest \subseteq rest \cup {y} /\ rest \subseteq O /\ y \notin rest
  BY <1>2, <1>11, <1>21
<1>23. Same(p, P, rest)
  <2>1. SUFFICES ASSUME NEW w, NEW i, w \in rest, i \in Cover(w) PROVE P.data[i] = p.data[i]
    BY DEF Same
  <2>2. w \in O
    BY <1>22, <2>1
  <2>3. i \in 0 .. m - 1
    BY <1>3, <2>1, <2>2, GoodShape
  <2>4. QED
    BY <1>3, <1>11, <2>3 DEF Extends
<1>24. Same(P, v, rest)
  BY <1>17, <1>22 DEF Same
<1>25. Same(v, q, rest \cup {y})
  BY <1>19, <1>22
<1>26. Same(p, q, rest)
  <2>1. Same(p, v, rest)
    BY <1>23, <1>24, SameThrough
  <2>2. QED
    BY <1>22, <1>25, <2>1, SameThrough
<1>27. ASSUME NEW j \in 0 .. n - 1 PROVE q.data[d + j] = p.data[b + j]
  <2>1. PICK Nq : Nq = size(P) /\ Nq \in Nat
    BY <1>11 DEF Extends
  <2>2. y \in O \cup {y} /\ y[1] = d /\ y[2] = to
    BY <1>10
  <2>3. y \in Nat \X Class /\ y[1] + sclass_size(y[2]) <= Nq
    BY <1>11, <2>1, <2>2, GoodShape
  <2>4. PICK w \in Nat : w = d + j
    BY <1>11
  <2>5. d <= w /\ w < d + z2 /\ w < d + n /\ d + z2 <= Nq
    BY <1>6, <1>7, <1>11, <2>2, <2>3, <2>4
  <2>6. w \in Cover(y)
    BY <1>6, <2>2, <2>3, <2>5, CoverWords
  <2>7. q.data[w] = v.data[w]
    BY <1>25, <2>6 DEF Same
  <2>8. w \in 0 .. Nq - 1 /\ w - d + 1 = j + 1
    BY <1>11, <2>1, <2>4, <2>5
  <2>9. v.data[w] = IF d <= w /\ w < d + n THEN u[w - d + 1] ELSE P.data[w]
    BY <1>13, <1>17, <2>1, <2>8 DEF Written
  <2>10. v.data[w] = u[j + 1]
    BY <2>5, <2>8, <2>9
  <2>11. j + 1 \in 1 .. n /\ b + (j + 1) - 1 = b + j
    BY <1>5
  <2>12. u[j + 1] = p.data[b + j]
    BY <1>13, <2>11
  <2>13. QED
    BY <2>4, <2>7, <2>10, <2>12
<1>28. Good(q, rest \cup {y})
  BY <1>19, <1>22
<1>29. Moves(p, rest, b, q, d, to, n)
  BY <1>10, <1>11, <1>22, <1>26, <1>27, <1>28 DEF Moves
<1>30. QED
  BY <1>1, <1>20, <1>21, <1>29

\* Nothing is moved.
LEMMA StayMoves ==
  ASSUME NEW p, NEW O, Good(p, O), NEW b \in Nat, NEW c, <<b, c>> \in O, NEW n \in Nat
  PROVE  Moves(p, O \ {<<b, c>>}, b, p, b, c, n)
<1>1. (O \ {<<b, c>>}) \cup {<<b, c>>} = O
  OBVIOUS
<1>2. QED
  BY <1>1 DEF Moves, Same

\* resize: a list of k elements gets a block for l, and n words are kept.
LEMMA ResizeMoves ==
  ASSUME NEW p, NEW O, Good(p, O), NEW b \in Nat, NEW k \in Nat, NEW l \in Nat, NEW n \in Nat,
         <<b, sclass_for_length(k)>> \in O, l <= MaxLen + 2, n <= k + 1, n <= l + 1,
         NEW r, r = resize(p, b + 1, k, l, n)
  PROVE  Moves(p, O \ {<<b, sclass_for_length(k)>>}, b, r.pool, r.block, sclass_for_length(l), n)
<1>1. PICK c, d \in Nat : c = sclass_for_length(k) /\ d = sclass_for_length(l)
  BY ClassOfLength
<1>2. <<b, c>> \in O /\ d \in Class
  BY <1>1, ClassInRange
<1>3. (b + 1) - 1 = b
  OBVIOUS
<1>4. CASE c = d
  <2>1. r.pool = p /\ r.block = b
    BY <1>1, <1>3, <1>4 DEF resize
  <2>2. Moves(p, O \ {<<b, c>>}, b, p, b, c, n)
    BY <1>2, StayMoves
  <2>3. QED
    BY <1>1, <1>4, <2>1, <2>2
<1>5. CASE c # d
  <2>1. r = realloc(p, b, c, d, n)
    BY <1>1, <1>3, <1>5 DEF resize
  <2>2. PICK z1, z2 \in Nat : /\ z1 = sclass_size(c) /\ k + 1 <= z1
                              /\ z2 = sclass_size(d) /\ l + 1 <= z2
    BY <1>1, BlockSize, ClassOfLength
  <2>3. n <= z1 /\ n <= z2
    BY <2>2
  <2>4. n <= sclass_size(c) /\ n <= sclass_size(d)
    BY <2>2, <2>3
  <2>5. Moves(p, O \ {<<b, c>>}, b, r.pool, r.block, d, n)
    BY <1>2, <2>1, <2>4, ReallocMoves
  <2>6. QED
    BY <1>1, <2>5
<1>6. QED
  BY <1>4, <1>5

\* push and remove_last step to the next class exactly when there is one.
LEMMA StepIsResize ==
  ASSUME NEW p, NEW idx, NEW n \in Nat, n >= 1
  PROVE  /\ (IF is_sclass_min_length(n)
             THEN realloc(p, idx - 1, sclass_for_length(n - 1), sclass_for_length(n - 1) + 1, n)
             ELSE [pool |-> p, block |-> idx - 1]) = resize(p, idx, n - 1, n, n)
         /\ (IF is_sclass_min_length(n)
             THEN realloc(p, idx - 1, sclass_for_length(n), sclass_for_length(n) - 1, n)
             ELSE [pool |-> p, block |-> idx - 1]) = resize(p, idx, n, n - 1, n)
<1>1. n - 1 \in Nat
  OBVIOUS
<1>2. PICK c, d \in Nat : c = sclass_for_length(n - 1) /\ d = sclass_for_length(n)
  BY <1>1, ClassOfLength
<1>3. d = IF is_sclass_min_length(n) THEN c + 1 ELSE c
  BY <1>2, ClassStep
<1>4. CASE is_sclass_min_length(n)
  <2>1. c # d /\ c + 1 = d /\ d - 1 = c
    BY <1>3, <1>4
  <2>2. QED
    BY <1>2, <1>4, <2>1 DEF resize
<1>5. CASE ~is_sclass_min_length(n)
  BY <1>2, <1>3, <1>5 DEF resize
<1>6. QED
  BY <1>4, <1>5

\* A new block.
LEMMA AllocMoves ==
  ASSUME NEW p, NEW O, Good(p, O), NEW c \in Class, NEW a, a = alloc(p, c), NEW b
  PROVE  Moves(p, O, b, a.pool, a.block, c, 0)
<1>1. /\ a.block \in Nat /\ <<a.block, c>> \notin O
      /\ Good(a.pool, O \cup {<<a.block, c>>}) /\ Extends(p, a.pool)
  BY AllocGood
<1>2. Same(p, a.pool, O)
  <2>1. SUFFICES ASSUME NEW x, NEW w, x \in O, w \in Cover(x) PROVE a.pool.data[w] = p.data[w]
    BY DEF Same
  <2>2. w \in 0 .. size(p) - 1
    BY <2>1, GoodShape
  <2>3. QED
    BY <1>1, <2>2 DEF Extends
<1>3. \A j \in 0 .. 0 - 1 : FALSE
  OBVIOUS
<1>4. QED
  BY <1>1, <1>2, <1>3 DEF Moves

\* Words written after what was moved.
LEMMA MoveWrite ==
  ASSUME NEW p, NEW rest, NEW b, NEW q, NEW d, NEW e, NEW n \in Nat, Moves(p, rest, b, q, d, e, n),
         NEW i, NEW u, Fits(q, rest \cup {<<d, e>>}, d, e, i, u), d + n <= i,
         NEW v, v = Write(q, i, u)
  PROVE  Moves(p, rest, b, v, d, e, n) /\ Written(q, v, i, u)
<1>1. PICK y, now : y = <<d, e>> /\ now = rest \cup {y}
  OBVIOUS
<1>2. d \in Nat /\ y \notin rest /\ Good(q, now) /\ Same(p, q, rest) /\ y \in now
  BY <1>1 DEF Moves
<1>3. Fits(q, now, d, e, i, u)
  BY <1>1
<1>4. Good(v, now) /\ Same(q, v, now \ {y}) /\ Written(q, v, i, u)
  BY <1>1, <1>2, <1>3, WriteGood
<1>5. i \in Nat /\ u \in Seq(Words(q)) /\ i + Len(u) <= d + sclass_size(e)
  BY <1>3 DEF Fits
<1>6. PICK m \in Nat : m = size(q)
  BY <1>2, GoodShape
<1>7. y \in Nat \X Class /\ y[1] + sclass_size(y[2]) <= m
  BY <1>2, <1>6, GoodShape
<1>8. PICK z, l \in Nat : z = sclass_size(e) /\ l = Len(u)
  <2>1. y[2] = e
    BY <1>1
  <2>2. QED
    BY <1>5, <1>7, <2>1, CoverWords, LenProperties
<1>9. d + z <= m /\ i + l <= d + z
  BY <1>1, <1>5, <1>7, <1>8
<1>10. ASSUME NEW j \in 0 .. n - 1 PROVE v.data[d + j] = p.data[b + j]
  <2>1. PICK w \in Nat : w = d + j
    BY <1>2
  <2>2. w \in 0 .. m - 1 /\ ~(i <= w)
    BY <1>2, <1>5, <1>9, <2>1
  <2>3. v.data[w] = q.data[w]
    BY <1>4, <1>6, <2>2 DEF Written
  <2>4. q.data[d + j] = p.data[b + j]
    BY DEF Moves
  <2>5. QED
    BY <2>1, <2>3, <2>4
<1>11. Same(p, v, rest)
  <2>1. rest \subseteq now \ {y} /\ rest \subseteq rest
    BY <1>1, <1>2
  <2>2. QED
    BY <1>2, <1>4, <2>1, SameThrough
<1>12. QED
  BY <1>1, <1>2, <1>4, <1>10, <1>11 DEF Moves

\* Words moved for the list of idx, and a length written in front of them.
LEMMA MoveLen ==
  ASSUME NEW p, NEW O, NEW idx, NEW s, NEW b, NEW q, NEW d, NEW m, NEW n \in Nat, n > 0,
         Moves(p, O \ BlockOf(idx, Len(s)), b, q, d, sclass_for_length(n), m),
         NEW t, t = Block(q, d + 1, n)
  PROVE  Turns(p, O, idx, s, Result(Write(q, d, <<n>>), d + 1), t) /\ Len(t) = n
<1>1. PICK y, rest, now : /\ y = <<d, sclass_for_length(n)>> /\ rest = O \ BlockOf(idx, Len(s))
                          /\ now = rest \cup {y}
  OBVIOUS
<1>2. d \in Nat /\ y \notin rest /\ Good(q, now) /\ Same(p, q, rest) /\ y \in now
  BY <1>1 DEF Moves
<1>3. Owns(now, d, n)
  BY <1>1, <1>2 DEF Owns
<1>4. PICK v : v = Write(q, d, <<n>>)
  OBVIOUS
<1>5. Good(v, now) /\ Same(q, v, now \ {y}) /\ Listed(v, now, d + 1, t) /\ Len(t) = n
  BY <1>1, <1>2, <1>3, <1>4, WriteLen
<1>6. BlockOf(d + 1, n) = {y}
  BY <1>1, <1>2, BlockOfAbove
<1>7. Same(p, v, rest)
  <2>1. rest \subseteq now \ {y} /\ rest \subseteq rest
    BY <1>1, <1>2
  <2>2. QED
    BY <1>2, <1>5, <2>1, SameThrough
<1>8. PICK r : r = Result(v, d + 1)
  OBVIOUS
<1>9. r.pool = v /\ r.idx = d + 1
  BY <1>8 DEF Result
<1>10. {y} \cap rest = {}
  BY <1>2
<1>11. Turns(p, O, idx, s, r, t)
  BY <1>1, <1>5, <1>6, <1>7, <1>9, <1>10 DEF Turns
<1>12. QED
  BY <1>4, <1>5, <1>8, <1>11

\* The words of a list are the list.
LEMMA BlockIs ==
  ASSUME NEW q, NEW d \in Nat, NEW S, NEW t \in Seq(S),
         \A k \in 1 .. Len(t) : q.data[d + k] = t[k]
  PROVE  Block(q, d + 1, Len(t)) = t
<1>1. PICK n \in Nat : n = Len(t)
  BY LenProperties
<1>2. DOMAIN t = 1 .. n /\ t = [k \in DOMAIN t |-> t[k]]
  BY <1>1, LenProperties
<1>3. \A k \in 1 .. n : (d + 1) + k - 1 = d + k
  OBVIOUS
<1>4. [k \in 1 .. n |-> q.data[(d + 1) + k - 1]] = [k \in 1 .. n |-> t[k]]
  BY <1>1, <1>3
<1>5. QED
  BY <1>1, <1>2, <1>4 DEF Block

\* The empty list is in no block.
LEMMA EmptyListed ==
  ASSUME NEW p, NEW O
  PROVE  Listed(p, O, 0, <<>>) /\ BlockOf(0, 0) = {}
<1>1. <<>> \in Seq(Words(p)) /\ Len(<<>>) = 0
  OBVIOUS
<1>2. BlockOf(0, 0) = {}
  BY DEF BlockOf
<1>3. QED
  BY <1>1, <1>2 DEF Listed

\* ListHandle::clear
LEMMA ClearTurns ==
  ASSUME NEW p, NEW O, Good(p, O), NEW idx, NEW s, Listed(p, O, idx, s)
  PROVE  Turns(p, O, idx, s, clear(p, idx), <<>>)
<1>1. PICK r : r = clear(p, idx)
  OBVIOUS
<1>2. CASE idx = 0
  <2>1. r.pool = p /\ r.idx = 0
    BY <1>1, <1>2 DEF clear, Result
  <2>2. BlockOf(idx, Len(s)) = {}
    BY <1>2 DEF BlockOf
  <2>3. BlockOf(r.idx, Len(<<>>)) = {}
    BY <2>1 DEF BlockOf
  <2>4. Same(p, p, O) /\ O \ {} = O /\ O \cup {} = O
    BY DEF Same
  <2>5. Turns(p, O, idx, s, r, <<>>)
    BY <2>1, <2>2, <2>3, <2>4, EmptyListed DEF Turns
  <2>6. QED
    BY <1>1, <2>5
<1>3. CASE idx # 0
  <2>1. PICK b, n, c \in Nat : InBlock(p, O, idx, s, b, n, c)
    BY <1>3, ListedBlock
  <2>2. /\ idx = b + 1 /\ n = Len(s) /\ c = sclass_for_length(n) /\ <<b, c>> \in O
        /\ BlockOf(idx, Len(s)) = {<<b, c>>} /\ idx - 1 = b
    BY <2>1 DEF InBlock
  <2>3. len(p, idx) = n
    BY <2>2, ListedReads
  <2>4. PICK q : q = free_block(p, b, c)
    OBVIOUS
  <2>5. r.pool = q /\ r.idx = 0
    BY <1>1, <1>3, <2>2, <2>3, <2>4 DEF clear, Result
  <2>6. Good(q, O \ {<<b, c>>}) /\ Same(p, q, O \ {<<b, c>>})
    BY <2>2, <2>4, FreeGood
  <2>7. BlockOf(r.idx, Len(<<>>)) = {}
    BY <2>5 DEF BlockOf
  <2>8. Turns(p, O, idx, s, r, <<>>)
    BY <2>2, <2>5, <2>6, <2>7, EmptyListed DEF Turns
  <2>9. QED
    BY <1>1, <2>8
<1>4. QED
  BY <1>2, <1>3

\* A new block with a length and the elements.
LEMMA FreshTurns ==
  ASSUME NEW p, NEW O, Good(p, O), NEW s, NEW t \in Seq(Words(p)), 0 < Len(t), Len(t) <= MaxLen + 2,
         NEW a, a = alloc(p, sclass_for_length(Len(t)))
  PROVE  Turns(p, O, 0, s, Result(Write(a.pool, a.block, <<Len(t)>> \o t), a.block + 1), t)
<1>1. PICK n \in Nat : n = Len(t)
  BY LenProperties
<1>2. PICK c \in Class : c = sclass_for_length(n)
  BY <1>1, ClassInRange
<1>3. PICK P, d : P = a.pool /\ d = a.block
  OBVIOUS
<1>4. PICK y, now : y = <<d, c>> /\ now = O \cup {y}
  OBVIOUS
<1>5. a = alloc(p, c)
  BY <1>1, <1>2
<1>6. d \in Nat /\ y \notin O /\ Good(P, now) /\ Extends(p, P)
  BY <1>3, <1>4, <1>5, AllocGood
<1>7. Moves(p, O, 0, P, d, c, 0)
  BY <1>3, <1>5, AllocMoves
<1>8. y \in now /\ y[1] = d /\ y[2] = c
  BY <1>4
<1>9. PICK m \in Nat : m = size(P)
  BY <1>6, GoodShape
<1>10. PICK z \in Nat : z = sclass_size(c) /\ n + 1 <= z
  BY <1>1, <1>2, BlockSize, ClassOfLength DEF Class
<1>11. d + z <= m
  BY <1>6, <1>8, <1>9, <1>10, GoodShape
<1>12. PICK u : u = <<n>> \o t
  OBVIOUS
<1>13. u \in Seq(Words(P)) /\ Len(u) = n + 1 /\ u[1] = n /\ \A k \in 1 .. n : u[k + 1] = t[k]
  <2>1. Words(p) \subseteq Words(P)
    BY <1>6, WordsGrow DEF Extends
  <2>2. n \in Words(P)
    <3>1. n \in 0 .. m
      BY <1>6, <1>10, <1>11
    <3>2. QED
      BY <1>9, <3>1 DEF Words
  <2>3. PICK e : e = <<n>>
    OBVIOUS
  <2>4. e \in Seq(Words(P)) /\ Len(e) = 1 /\ e[1] = n
    BY <2>2, <2>3
  <2>5. t \in Seq(Words(P))
    BY <2>1, SeqMonotonic
  <2>6. PICK x : x = e \o t
    OBVIOUS
  <2>7. /\ x \in Seq(Words(P)) /\ Len(x) = Len(e) + Len(t)
        /\ \A i \in 1 .. Len(e) + Len(t) : x[i] = IF i <= Len(e) THEN e[i] ELSE t[i - Len(e)]
    BY <2>4, <2>5, <2>6, ConcatProperties
  <2>8. Len(x) = n + 1 /\ \A i \in 1 .. n + 1 : x[i] = IF i <= 1 THEN e[i] ELSE t[i - 1]
    <3>1. 1 + n = n + 1
      OBVIOUS
    <3>2. QED
      BY <1>1, <2>4, <2>7, <3>1
  <2>9. x[1] = n
    BY <2>4, <2>8
  <2>10. \A k \in 1 .. n : x[k + 1] = t[k]
    <3>1. \A k \in 1 .. n : k + 1 \in 1 .. n + 1 /\ ~(k + 1 <= 1) /\ (k + 1) - 1 = k
      OBVIOUS
    <3>2. QED
      BY <2>8, <3>1
  <2>11. x = u
    BY <1>12, <2>3, <2>6
  <2>12. QED
    BY <2>7, <2>8, <2>9, <2>10, <2>11
<1>14. Fits(P, now, d, c, d, u)
  <2>1. d <= d /\ d + (n + 1) <= d + z
    BY <1>6, <1>10
  <2>2. QED
    BY <1>4, <1>6, <1>8, <1>10, <1>13, <2>1 DEF Fits
<1>15. PICK v : v = Write(P, d, u)
  OBVIOUS
<1>16. Moves(p, O, 0, v, d, c, 0) /\ Written(P, v, d, u)
  <2>1. Fits(P, O \cup {<<d, c>>}, d, c, d, u) /\ d + 0 <= d
    BY <1>4, <1>6, <1>14
  <2>2. QED
    BY <1>7, <1>15, <2>1, MoveWrite
<1>17. Good(v, now) /\ Same(p, v, O)
  BY <1>4, <1>16 DEF Moves
<1>18. /\ size(v) = m
       /\ \A w \in 0 .. m - 1 : v.data[w] = IF d <= w /\ w < d + (n + 1) THEN u[w - d + 1] ELSE P.data[w]
  BY <1>9, <1>13, <1>16 DEF Written
<1>19. v.data[d] = n
  <2>1. d \in 0 .. m - 1 /\ d <= d /\ d < d + (n + 1) /\ d - d + 1 = 1
    BY <1>6, <1>10, <1>11
  <2>2. QED
    BY <1>13, <1>18, <2>1
<1>20. ASSUME NEW k \in 1 .. n PROVE v.data[(d + 1) + k - 1] = t[k]
  <2>1. PICK w \in Nat : w = d + k
    BY <1>6
  <2>2. w \in 0 .. m - 1 /\ d <= w /\ w < d + (n + 1) /\ w - d + 1 = k + 1 /\ (d + 1) + k - 1 = w
    BY <1>6, <1>10, <1>11, <2>1
  <2>3. v.data[w] = u[k + 1]
    BY <1>18, <2>2
  <2>4. QED
    BY <1>13, <2>2, <2>3
<1>21. BlockOf(d + 1, n) = {y}
  BY <1>2, <1>4, <1>6, BlockOfAbove
<1>22. Listed(v, now, d + 1, t)
  <2>1. d + 1 \in Nat /\ d + 1 # 0 /\ n # 0 /\ (d + 1) - 1 = d
    BY <1>1, <1>6
  <2>2. Words(p) \subseteq Words(v)
    <3>1. Words(v) = Words(P)
      BY <1>9, <1>18 DEF Words
    <3>2. QED
      BY <1>6, <3>1, WordsGrow DEF Extends
  <2>3. t \in Seq(Words(v))
    BY <2>2, SeqMonotonic
  <2>4. QED
    BY <1>1, <1>8, <1>19, <1>20, <1>21, <2>1, <2>3 DEF Listed
<1>23. PICK r : r = Result(v, d + 1)
  OBVIOUS
<1>24. r.pool = v /\ r.idx = d + 1
  BY <1>23 DEF Result
<1>25. BlockOf(0, Len(s)) = {} /\ O \ {} = O /\ {y} \cap O = {}
  BY <1>6 DEF BlockOf
<1>26. Turns(p, O, 0, s, r, t)
  BY <1>1, <1>4, <1>17, <1>21, <1>22, <1>24, <1>25 DEF Turns
<1>27. QED
  BY <1>1, <1>3, <1>12, <1>15, <1>23, <1>26

\* Sequences with the same elements.
LEMMA SameSeq ==
  ASSUME NEW S, NEW R, NEW t \in Seq(S), NEW u \in Seq(R), Len(t) = Len(u),
         \A k \in 1 .. Len(t) : t[k] = u[k]
  PROVE  t = u
<1>1. PICK T : T = S \cup R
  OBVIOUS
<1>2. S \subseteq T /\ R \subseteq T
  BY <1>1
<1>3. t \in Seq(T) /\ u \in Seq(T)
  BY <1>2, SeqMonotonic
<1>4. QED
  BY <1>3, SeqEqual

\* A sequence with the first elements of another.
LEMMA PrefixIs ==
  ASSUME NEW S, NEW s \in Seq(S), NEW n \in Nat, n <= Len(s), NEW R, NEW t \in Seq(R),
         Len(t) = n, \A k \in 1 .. n : t[k] = s[k]
  PROVE  t = SubSeq(s, 1, n)
<1>1. PICK m \in Nat : m = Len(s)
  BY LenProperties
<1>2. \A k \in 1 .. n : s[k] \in S
  <2>1. \A k \in 1 .. n : k \in 1 .. m
    BY <1>1
  <2>2. QED
    BY <1>1, <2>1, ElementOfSeq
<1>3. PICK u : u = SubSeq(s, 1, n)
  OBVIOUS
<1>4. /\ SubSeq(s, 1, n) \in Seq(S) /\ Len(SubSeq(s, 1, n)) = IF 1 <= n THEN n - 1 + 1 ELSE 0
      /\ \A k \in 1 .. n - 1 + 1 : SubSeq(s, 1, n)[k] = s[1 + k - 1]
  BY <1>2, SubSeqProperties
<1>5. (IF 1 <= n THEN n - 1 + 1 ELSE 0) = n /\ n - 1 + 1 = n /\ \A k \in 1 .. n : 1 + k - 1 = k
  OBVIOUS
<1>6. u \in Seq(S) /\ Len(u) = n /\ \A k \in 1 .. n : u[k] = s[k]
  BY <1>3, <1>4, <1>5
<1>7. t = u
  BY <1>6, SameSeq
<1>8. QED
  BY <1>3, <1>7

\* A list that is not empty goes from its length to l > 0, n words kept.
LEMMA ResizeTurns ==
  ASSUME NEW p, NEW O, Good(p, O), NEW idx, NEW s, Listed(p, O, idx, s), idx # 0,
         NEW l \in Nat, l > 0, l <= MaxLen + 2,
         NEW n \in Nat, n <= Len(s) + 1, n <= l + 1,
         NEW r, r = resize(p, idx, Len(s), l, n),
         NEW t, t = Block(r.pool, r.block + 1, l)
  PROVE  /\ Turns(p, O, idx, s, Result(Write(r.pool, r.block, <<l>>), r.block + 1), t)
         /\ Len(t) = l /\ \A k \in 1 .. n - 1 : t[k] = s[k]
<1>1. PICK b, m, c \in Nat : InBlock(p, O, idx, s, b, m, c)
  BY ListedBlock
<1>2. /\ idx = b + 1 /\ m = Len(s) /\ c = sclass_for_length(m) /\ <<b, c>> \in O
      /\ BlockOf(idx, Len(s)) = {<<b, c>>} /\ \A k \in 1 .. m : p.data[b + k] = s[k]
  BY <1>1 DEF InBlock
<1>3. PICK q, d : q = r.pool /\ d = r.block
  OBVIOUS
<1>4. Moves(p, O \ {<<b, c>>}, b, q, d, sclass_for_length(l), n)
  <2>1. r = resize(p, b + 1, m, l, n) /\ <<b, sclass_for_length(m)>> \in O /\ n <= m + 1
    BY <1>2
  <2>2. Moves(p, O \ {<<b, sclass_for_length(m)>>}, b, r.pool, r.block, sclass_for_length(l), n)
    BY <2>1, ResizeMoves
  <2>3. QED
    BY <1>2, <1>3, <2>2
<1>5. Moves(p, O \ BlockOf(idx, Len(s)), b, q, d, sclass_for_length(l), n)
  BY <1>2, <1>4
<1>6. t = Block(q, d + 1, l)
  BY <1>3
<1>7. Turns(p, O, idx, s, Result(Write(q, d, <<l>>), d + 1), t) /\ Len(t) = l
  BY <1>5, <1>6, MoveLen
<1>8. ASSUME NEW k \in 1 .. n - 1 PROVE t[k] = s[k]
  <2>1. d \in Nat /\ \A j \in 0 .. n - 1 : q.data[d + j] = p.data[b + j]
    BY <1>5 DEF Moves
  <2>2. k \in 0 .. n - 1 /\ k \in 1 .. m /\ k \in 1 .. l
    BY <1>2
  <2>3. (d + 1) + k - 1 = d + k
    BY <2>1
  <2>4. t[k] = q.data[(d + 1) + k - 1]
    BY <1>6, <2>2 DEF Block
  <2>5. QED
    BY <1>2, <2>1, <2>2, <2>3, <2>4
<1>9. QED
  BY <1>3, <1>7, <1>8

\* ListHandle::remove_last
LEMMA RemoveLastTurns ==
  ASSUME NEW p, NEW O, Good(p, O), NEW idx, NEW s, Listed(p, O, idx, s), idx # 0,
         NEW n \in Nat, n = Len(s), n <= MaxLen + 2
  PROVE  Turns(p, O, idx, s, remove_last(p, idx, n), SubSeq(s, 1, n - 1))
<1>1. s \in Seq(Words(p)) /\ n > 0
  BY DEF Listed
<1>2. CASE n = 1
  <2>1. SubSeq(s, 1, n - 1) = <<>>
    <3>1. 1 \in Int /\ n - 1 \in Int /\ n - 1 < 1
      BY <1>2
    <3>2. QED
      BY <3>1, SubSeqEmpty
  <2>2. remove_last(p, idx, n) = clear(p, idx)
    BY <1>2 DEF remove_last
  <2>3. QED
    BY <2>1, <2>2, ClearTurns
<1>3. CASE n # 1
  <2>1. PICK l \in Nat : l = n - 1 /\ l > 0 /\ l <= MaxLen + 2 /\ n <= l + 1 /\ n <= n + 1 /\ n >= 1
    <3>1. n - 1 \in Nat /\ n - 1 > 0 /\ n <= (n - 1) + 1 /\ n >= 1
      BY <1>1, <1>3
    <3>2. n - 1 <= MaxLen + 2
      BY ListPoolAssumption
    <3>3. QED
      BY <3>1, <3>2
  <2>2. PICK r : r = resize(p, idx, n, l, n)
    OBVIOUS
  <2>3. PICK t : t = Block(r.pool, r.block + 1, l)
    OBVIOUS
  <2>4. n <= Len(s) + 1
    BY <2>1
  <2>5. r = resize(p, idx, Len(s), l, n)
    BY <2>2
  <2>6. /\ Turns(p, O, idx, s, Result(Write(r.pool, r.block, <<l>>), r.block + 1), t)
        /\ Len(t) = l /\ \A k \in 1 .. n - 1 : t[k] = s[k]
    BY <2>1, <2>3, <2>4, <2>5, ResizeTurns
  <2>7. remove_last(p, idx, n) = Result(Write(r.pool, r.block, <<l>>), r.block + 1)
    <3>1. r = IF is_sclass_min_length(n)
              THEN realloc(p, idx - 1, sclass_for_length(n), sclass_for_length(n) - 1, n)
              ELSE [pool |-> p, block |-> idx - 1]
      BY <2>1, <2>2, StepIsResize
    <3>2. QED
      BY <1>3, <2>1, <3>1 DEF remove_last
  <2>8. t = SubSeq(s, 1, l)
    <3>1. t \in Seq(Words(Result(Write(r.pool, r.block, <<l>>), r.block + 1).pool))
      BY <2>6 DEF Turns, Listed
    <3>2. l <= Len(s) /\ \A k \in 1 .. l : t[k] = s[k]
      BY <2>1, <2>6
    <3>3. QED
      BY <1>1, <2>6, <3>1, <3>2, PrefixIs
  <2>9. QED
    BY <2>1, <2>6, <2>7, <2>8
<1>4. QED
  BY <1>2, <1>3

\* A call that changes nothing.
LEMMA StayTurns ==
  ASSUME NEW p, NEW O, Good(p, O), NEW idx, NEW s, Listed(p, O, idx, s)
  PROVE  Turns(p, O, idx, s, Result(p, idx), s)
<1>1. PICK B, r : B = BlockOf(idx, Len(s)) /\ r = Result(p, idx)
  OBVIOUS
<1>2. r.pool = p /\ r.idx = idx
  BY <1>1 DEF Result
<1>3. (O \ B) \cup B = O /\ B \cap (O \ B) = {}
  BY <1>1 DEF Listed
<1>4. Same(p, p, O \ B)
  BY DEF Same
<1>5. QED
  BY <1>1, <1>2, <1>3, <1>4 DEF Turns

\* ListHandle::truncate
LEMMA TruncateTurns ==
  ASSUME NEW p, NEW O, Good(p, O), NEW idx, NEW s, Listed(p, O, idx, s), NEW n \in 0 .. MaxLen
  PROVE  Turns(p, O, idx, s, truncate(p, idx, n), SubSeq(s, 1, IF n < Len(s) THEN n ELSE Len(s)))
<1>1. PICK m \in Nat : m = Len(s)
  BY LenProperties DEF Listed
<1>2. len(p, idx) = m
  BY <1>1, ListedReads
<1>3. s \in Seq(Words(p))
  BY DEF Listed
<1>4. CASE n >= m
  <2>1. SubSeq(s, 1, IF n < Len(s) THEN n ELSE Len(s)) = s
    BY <1>1, <1>3, <1>4, SubSeqFull
  <2>2. CASE n = 0
    <3>1. Len(s) = 0
      BY <1>1, <1>4, <2>2
    <3>2. s = <<>>
      BY <1>3, <3>1, EmptySeq
    <3>3. truncate(p, idx, n) = clear(p, idx)
      BY <2>2 DEF truncate
    <3>4. Turns(p, O, idx, s, clear(p, idx), <<>>)
      BY ClearTurns
    <3>5. QED
      BY <2>1, <3>2, <3>3, <3>4
  <2>3. CASE n # 0
    <3>1. truncate(p, idx, n) = Result(p, idx)
      BY <1>2, <1>4, <2>3 DEF truncate
    <3>2. Turns(p, O, idx, s, Result(p, idx), s)
      BY StayTurns
    <3>3. QED
      BY <2>1, <3>1, <3>2
  <2>4. QED
    BY <2>2, <2>3
<1>5. CASE n < m /\ n = 0
  <2>1. SubSeq(s, 1, IF n < Len(s) THEN n ELSE Len(s)) = <<>>
    <3>1. (IF n < Len(s) THEN n ELSE Len(s)) = 0
      BY <1>1, <1>5
    <3>2. SubSeq(s, 1, 0) = <<>>
      BY SubSeqEmpty
    <3>3. QED
      BY <3>1, <3>2
  <2>2. truncate(p, idx, n) = clear(p, idx)
    BY <1>5 DEF truncate
  <2>3. QED
    BY <2>1, <2>2, ClearTurns
<1>6. CASE n < m /\ n # 0
  <2>1. idx # 0
    BY <1>1, <1>6 DEF Listed
  <2>2. PICK w \in Nat : w = n + 1 /\ w <= m + 1 /\ w - 1 = n
    BY <1>6
  <2>3. PICK r : r = resize(p, idx, Len(s), n, w)
    OBVIOUS
  <2>4. PICK t : t = Block(r.pool, r.block + 1, n)
    OBVIOUS
  <2>5. n \in Nat /\ n > 0 /\ n <= MaxLen + 2 /\ w <= Len(s) + 1 /\ w <= n + 1
    BY <1>1, <1>6, <2>2, ListPoolAssumption
  <2>6. /\ Turns(p, O, idx, s, Result(Write(r.pool, r.block, <<n>>), r.block + 1), t)
        /\ Len(t) = n /\ \A k \in 1 .. w - 1 : t[k] = s[k]
    BY <2>1, <2>3, <2>4, <2>5, ResizeTurns
  <2>7. truncate(p, idx, n) = Result(Write(r.pool, r.block, <<n>>), r.block + 1)
    BY <1>1, <1>2, <1>6, <2>2, <2>3 DEF truncate
  <2>8. t = SubSeq(s, 1, n)
    <3>1. t \in Seq(Words(Result(Write(r.pool, r.block, <<n>>), r.block + 1).pool))
      BY <2>6 DEF Turns, Listed
    <3>2. n <= Len(s) /\ \A k \in 1 .. n : t[k] = s[k]
      BY <1>1, <1>6, <2>2, <2>6
    <3>3. QED
      BY <1>3, <2>5, <2>6, <3>1, <3>2, PrefixIs
  <2>9. (IF n < Len(s) THEN n ELSE Len(s)) = n
    BY <1>1, <1>6
  <2>10. QED
    BY <2>6, <2>7, <2>8, <2>9
<1>7. QED
  BY <1>1, <1>4, <1>5, <1>6

\* ListHandle::push
LEMMA PushTurns ==
  ASSUME NEW p, NEW O, Good(p, O), NEW idx, NEW s, Listed(p, O, idx, s), NEW x \in Elem,
         Len(s) <= MaxLen + 1
  PROVE  Turns(p, O, idx, s, push(p, idx, x), Append(s, x))
<1>1. PICK m \in Nat : m = Len(s)
  BY LenProperties DEF Listed
<1>2. s \in Seq(Words(p)) /\ x \in Words(p)
  BY DEF Listed, Words
<1>3. MaxLen \in Nat
  BY ListPoolAssumption
<1>4. PICK e : e = <<x>>
  OBVIOUS
<1>5. CASE idx = 0
  <2>1. Len(s) = 0 /\ s = <<>>
    <3>1. Len(s) = 0
      BY <1>5 DEF Listed
    <3>2. QED
      BY <1>2, <3>1, EmptySeq
  <2>2. e \in Seq(Words(p)) /\ Len(e) = 1 /\ 0 < 1 /\ 1 <= MaxLen + 2
    BY <1>2, <1>3, <1>4
  <2>3. PICK a : a = alloc(p, sclass_for_length(1))
    OBVIOUS
  <2>4. Turns(p, O, 0, s, Result(Write(a.pool, a.block, <<Len(e)>> \o e), a.block + 1), e)
    <3>1. a = alloc(p, sclass_for_length(Len(e))) /\ 0 < Len(e) /\ Len(e) <= MaxLen + 2
      BY <2>2, <2>3
    <3>2. QED
      BY <2>2, <3>1, FreshTurns
  <2>5. <<1>> \o <<x>> = <<1, x>>
    <3>1. PICK S : S = Elem \cup Nat
      OBVIOUS
    <3>2. PICK f, g, h : f = <<1>> /\ g = f \o e /\ h = <<1, x>>
      OBVIOUS
    <3>3. f \in Seq(S) /\ Len(f) = 1 /\ f[1] = 1 /\ e \in Seq(S) /\ Len(e) = 1 /\ e[1] = x
      BY <1>4, <3>1, <3>2
    <3>4. /\ g \in Seq(S) /\ Len(g) = Len(f) + Len(e)
          /\ \A i \in 1 .. Len(f) + Len(e) : g[i] = IF i <= Len(f) THEN f[i] ELSE e[i - Len(f)]
      BY <3>2, <3>3, ConcatProperties
    <3>5. Len(g) = 2 /\ \A i \in 1 .. 2 : g[i] = IF i <= 1 THEN f[i] ELSE e[i - 1]
      <4>1. 1 + 1 = 2
        OBVIOUS
      <4>2. QED
        BY <3>3, <3>4, <4>1
    <3>6. g[1] = 1 /\ g[2] = x
      <4>1. 1 \in 1 .. 2 /\ 2 \in 1 .. 2 /\ 1 <= 1 /\ ~(2 <= 1) /\ 2 - 1 = 1
        OBVIOUS
      <4>2. QED
        BY <3>3, <3>5, <4>1
    <3>7. h \in Seq(S) /\ Len(h) = 2 /\ h[1] = 1 /\ h[2] = x
      BY <3>1, <3>2
    <3>8. \A i \in 1 .. 2 : i = 1 \/ i = 2
      OBVIOUS
    <3>9. \A i \in 1 .. Len(g) : g[i] = h[i]
      BY <3>5, <3>6, <3>7, <3>8
    <3>10. g = h
      BY <3>4, <3>5, <3>7, <3>9, SeqEqual
    <3>11. QED
      BY <1>4, <3>2, <3>10
  <2>6. push(p, idx, x) = Result(Write(a.pool, a.block, <<1, x>>), a.block + 1)
    BY <1>5, <2>3 DEF push
  <2>7. Append(s, x) = e
    BY <1>4, <2>1
  <2>8. <<Len(e)>> \o e = <<1, x>>
    BY <1>4, <2>2, <2>5
  <2>9. QED
    BY <1>5, <2>4, <2>6, <2>7, <2>8
<1>6. CASE idx # 0
  <2>1. PICK b, i, c \in Nat : InBlock(p, O, idx, s, b, i, c)
    BY <1>6, ListedBlock
  <2>2. /\ idx = b + 1 /\ i = m /\ c = sclass_for_length(m) /\ <<b, c>> \in O
        /\ BlockOf(idx, Len(s)) = {<<b, c>>} /\ \A k \in 1 .. m : p.data[b + k] = s[k]
    BY <1>1, <2>1 DEF InBlock
  <2>3. PICK n \in Nat : n = m + 1 /\ n - 1 = m /\ n > 0 /\ n >= 1 /\ n <= MaxLen + 2 /\ n <= n + 1
    BY <1>1, <1>3
  <2>4. PICK r : r = resize(p, b + 1, m, n, n)
    OBVIOUS
  <2>5. PICK q, d : q = r.pool /\ d = r.block
    OBVIOUS
  <2>6. PICK g \in Nat : g = sclass_for_length(n)
    BY ClassOfLength
  <2>7. PICK rest : rest = O \ {<<b, c>>}
    OBVIOUS
  <2>8. Moves(p, rest, b, q, d, g, n)
    <3>1. <<b, sclass_for_length(m)>> \in O /\ n <= m + 1
      BY <2>2, <2>3
    <3>2. Moves(p, O \ {<<b, sclass_for_length(m)>>}, b, r.pool, r.block, sclass_for_length(n), n)
      BY <2>3, <2>4, <3>1, ResizeMoves
    <3>3. QED
      BY <2>2, <2>5, <2>6, <2>7, <3>2
  <2>9. PICK y, now : y = <<d, g>> /\ now = rest \cup {y}
    OBVIOUS
  <2>10. d \in Nat /\ Good(q, now) /\ y \in now /\ y[1] = d /\ y[2] = g
    BY <2>8, <2>9 DEF Moves
  <2>11. PICK Nq, z, j \in Nat : Nq = size(q) /\ z = sclass_size(g) /\ j = d + n
    <3>1. size(q) \in Nat
      BY <2>10, GoodShape
    <3>2. sclass_size(g) \in Nat
      BY BlockSize
    <3>3. d + n \in Nat
      BY <2>10
    <3>4. QED
      BY <3>1, <3>2, <3>3
  <2>12. d + z <= Nq /\ n + 1 <= z
    <3>1. y[1] + sclass_size(y[2]) <= Nq
      BY <2>10, <2>11, GoodShape
    <3>2. QED
      BY <2>6, <2>10, <2>11, <3>1, ClassOfLength
  <2>13. e \in Seq(Words(q)) /\ Len(e) = 1 /\ e[1] = x
    BY <1>4 DEF Words
  <2>14. Fits(q, now, d, g, j, e)
    <3>1. d <= j /\ j + 1 <= d + z
      BY <2>10, <2>11, <2>12
    <3>2. QED
      BY <2>9, <2>10, <2>11, <2>13, <3>1 DEF Fits
  <2>15. PICK v : v = Write(q, j, e)
    OBVIOUS
  <2>16. Moves(p, rest, b, v, d, g, n) /\ Written(q, v, j, e)
    <3>1. Fits(q, rest \cup {<<d, g>>}, d, g, j, e) /\ d + n <= j
      BY <2>9, <2>10, <2>11, <2>14
    <3>2. QED
      BY <2>8, <2>15, <3>1, MoveWrite
  <2>17. PICK t : t = Block(v, d + 1, n)
    OBVIOUS
  <2>18. Turns(p, O, idx, s, Result(Write(v, d, <<n>>), d + 1), t) /\ Len(t) = n
    <3>1. Moves(p, O \ BlockOf(idx, Len(s)), b, v, d, sclass_for_length(n), n)
      BY <2>2, <2>6, <2>7, <2>16
    <3>2. QED
      BY <2>3, <2>17, <3>1, MoveLen
  <2>19. \A k \in 1 .. n : t[k] = v.data[d + k]
    <3>1. \A k \in 1 .. n : (d + 1) + k - 1 = d + k
      BY <2>10
    <3>2. QED
      BY <2>17, <3>1 DEF Block
  <2>20. \A k \in 1 .. m : t[k] = s[k]
    <3>1. \A k \in 1 .. m : k \in 1 .. n /\ k \in 0 .. n - 1
      BY <2>3
    <3>2. \A k \in 0 .. n - 1 : v.data[d + k] = p.data[b + k]
      BY <2>16 DEF Moves
    <3>3. QED
      BY <2>2, <2>19, <3>1, <3>2
  <2>21. t[m + 1] = x
    <3>1. j \in 0 .. Nq - 1 /\ j <= j /\ j < j + 1 /\ j - j + 1 = 1
      BY <2>10, <2>11, <2>12
    <3>2. v.data[j] = x
      BY <2>11, <2>13, <2>16, <3>1 DEF Written
    <3>3. n \in 1 .. n /\ n = m + 1
      BY <2>3
    <3>4. QED
      BY <2>11, <2>19, <3>2, <3>3
  <2>22. t = Append(s, x)
    <3>1. t \in Seq(Words(Result(Write(v, d, <<n>>), d + 1).pool))
      BY <2>18 DEF Turns, Listed
    <3>2. PICK u : u = Append(s, x)
      OBVIOUS
    <3>3. /\ u \in Seq(Words(p)) /\ Len(u) = Len(s) + 1 /\ \A k \in 1 .. Len(s) : u[k] = s[k]
          /\ u[Len(s) + 1] = x
      BY <1>2, <3>2, AppendProperties
    <3>4. Len(u) = n /\ u[m + 1] = x /\ \A k \in 1 .. m : u[k] = s[k]
      BY <1>1, <2>3, <3>3
    <3>5. \A k \in 1 .. n : k \in 1 .. m \/ k = m + 1
      BY <2>3
    <3>6. \A k \in 1 .. Len(t) : t[k] = u[k]
      BY <2>18, <2>20, <2>21, <3>4, <3>5
    <3>7. Len(t) = Len(u)
      BY <2>18, <3>4
    <3>8. t = u
      BY <3>1, <3>3, <3>6, <3>7, SameSeq
    <3>9. QED
      BY <3>2, <3>8
  <2>23. push(p, idx, x) = Result(Write(v, d, <<n>>), d + 1)
    <3>1. r = IF is_sclass_min_length(n)
              THEN realloc(p, idx - 1, sclass_for_length(n - 1), sclass_for_length(n - 1) + 1, n)
              ELSE [pool |-> p, block |-> idx - 1]
      <4>1. r = resize(p, idx, n - 1, n, n)
        BY <2>2, <2>3, <2>4
      <4>2. QED
        BY <2>3, <4>1, StepIsResize
    <3>2. len(p, idx) + 1 = n
      BY <1>1, <2>3, ListedReads
    <3>3. v = Write(r.pool, r.block + n, <<x>>)
      BY <1>4, <2>5, <2>11, <2>15
    <3>4. push(p, idx, x) = Result(Write(Write(r.pool, r.block + n, <<x>>), r.block, <<n>>), r.block + 1)
      BY <1>6, <3>1, <3>2 DEF push
    <3>5. QED
      BY <2>5, <3>3, <3>4
  <2>24. QED
    BY <2>18, <2>22, <2>23
<1>7. QED
  BY <1>5, <1>6

\* The list s grows to n elements, and keeps those that it has.
Grown(p, O, idx, s, r, t, n) ==
  Turns(p, O, idx, s, r, t) /\ Len(t) = n /\ \A k \in 1 .. Len(s) : t[k] = s[k]

\* ListHandle::grow
LEMMA GrowTurns ==
  ASSUME NEW p, NEW O, Good(p, O), NEW idx, NEW s, Listed(p, O, idx, s),
         NEW count \in Nat, count > 0, Len(s) + count <= MaxLen + 2
  PROVE  \E t : Grown(p, O, idx, s, grow(p, idx, count), t, Len(s) + count)
<1>1. PICK m \in Nat : m = Len(s)
  BY LenProperties DEF Listed
<1>2. PICK n \in Nat : n = m + count
  OBVIOUS
<1>3. len(p, idx) = m
  BY <1>1, ListedReads
<1>4. n > 0 /\ n <= MaxLen + 2 /\ n = Len(s) + count
  BY <1>1, <1>2
<1>5. CASE idx = 0
  <2>1. PICK a : a = alloc(p, sclass_for_length(n))
    OBVIOUS
  <2>2. PICK c \in Class : c = sclass_for_length(n)
    BY <1>4, ClassInRange
  <2>3. a = alloc(p, c)
    BY <2>1, <2>2
  <2>4. PICK q, d : q = a.pool /\ d = a.block
    OBVIOUS
  <2>5. Moves(p, O, 0, q, d, c, 0)
    BY <2>3, <2>4, AllocMoves
  <2>6. BlockOf(idx, Len(s)) = {} /\ O \ {} = O
    BY <1>5 DEF BlockOf
  <2>7. Moves(p, O \ BlockOf(idx, Len(s)), 0, q, d, sclass_for_length(n), 0)
    BY <2>2, <2>5, <2>6
  <2>8. PICK t : t = Block(q, d + 1, n)
    OBVIOUS
  <2>9. Turns(p, O, idx, s, Result(Write(q, d, <<n>>), d + 1), t) /\ Len(t) = n
    BY <1>4, <2>7, <2>8, MoveLen
  <2>10. grow(p, idx, count) = Result(Write(q, d, <<n>>), d + 1)
    <3>1. ~(idx = 0 /\ count = 0)
      OBVIOUS
    <3>2. QED
      BY <1>2, <1>3, <1>5, <2>1, <2>4, <3>1 DEF grow
  <2>11. m = 0
    BY <1>1, <1>5 DEF Listed
  <2>12. \A k \in 1 .. Len(s) : t[k] = s[k]
    BY <1>1, <2>11
  <2>13. QED
    BY <1>4, <2>9, <2>10, <2>12 DEF Grown
<1>6. CASE idx # 0
  <2>1. PICK w \in Nat : w = m + 1 /\ w - 1 = m /\ w <= n + 1
    BY <1>2
  <2>2. PICK r : r = resize(p, idx, Len(s), n, w)
    OBVIOUS
  <2>3. PICK t : t = Block(r.pool, r.block + 1, n)
    OBVIOUS
  <2>4. w <= Len(s) + 1
    BY <1>1, <2>1
  <2>5. /\ Turns(p, O, idx, s, Result(Write(r.pool, r.block, <<n>>), r.block + 1), t)
        /\ Len(t) = n /\ \A k \in 1 .. w - 1 : t[k] = s[k]
    BY <1>4, <1>6, <2>1, <2>2, <2>3, <2>4, ResizeTurns
  <2>6. grow(p, idx, count) = Result(Write(r.pool, r.block, <<n>>), r.block + 1)
    <3>1. ~(idx = 0 /\ count = 0)
      BY <1>6
    <3>2. QED
      BY <1>1, <1>2, <1>3, <1>6, <2>1, <2>2, <3>1 DEF grow
  <2>7. QED
    BY <1>1, <1>4, <2>1, <2>5, <2>6 DEF Grown
<1>7. QED
  BY <1>5, <1>6

\* from_slice
LEMMA FromSliceTurns ==
  ASSUME NEW p, NEW O, Good(p, O), NEW s, Listed(p, O, 0, s),
         NEW t \in Seq(Words(p)), Len(t) <= MaxLen + 2
  PROVE  Turns(p, O, 0, s, from_slice(p, t), t)
<1>1. CASE t = <<>>
  <2>1. s \in Seq(Words(p)) /\ Len(s) = 0
    BY DEF Listed
  <2>2. s = <<>>
    BY <2>1, EmptySeq
  <2>3. Turns(p, O, 0, s, Result(p, 0), s)
    BY StayTurns
  <2>4. from_slice(p, t) = Result(p, 0)
    BY <1>1 DEF from_slice
  <2>5. QED
    BY <1>1, <2>2, <2>3, <2>4
<1>2. CASE t # <<>>
  <2>1. 0 < Len(t)
    <3>1. Len(t) \in Nat \ {0}
      BY <1>2, EmptySeq
    <3>2. QED
      BY <3>1
  <2>2. PICK a : a = alloc(p, sclass_for_length(Len(t)))
    OBVIOUS
  <2>3. Turns(p, O, 0, s, Result(Write(a.pool, a.block, <<Len(t)>> \o t), a.block + 1), t)
    BY <2>1, <2>2, FreshTurns
  <2>4. from_slice(p, t) = Result(Write(a.pool, a.block, <<Len(t)>> \o t), a.block + 1)
    BY <1>2, <2>2 DEF from_slice
  <2>5. QED
    BY <2>3, <2>4
<1>3. QED
  BY <1>1, <1>2

\* After a call the words are divided into blocks again.
LEMMA TurnsTo ==
  ASSUME NEW p, NEW O, NEW idx, NEW s, NEW g, NEW t, Turns(p, O, idx, s, g, t)
  PROVE  \E Now : Good(g.pool, Now) /\ Listed(g.pool, Now, g.idx, t)
BY DEF Turns

\* After a call elements are overwritten.
LEMMA WriteLater ==
  ASSUME NEW p, NEW O, NEW idx, NEW s, NEW g, NEW t, Turns(p, O, idx, s, g, t), Len(t) > 0,
         NEW k \in Nat, NEW u \in Seq(Words(g.pool)), k + Len(u) <= Len(t)
  PROVE  /\ Turns(p, O, idx, s, Result(Write(g.pool, g.idx + k, u), g.idx), Over(t, k, u))
         /\ Len(Over(t, k, u)) = Len(t) /\ size(Write(g.pool, g.idx + k, u)) = size(g.pool)
<1>1. PICK P, i : P = g.pool /\ i = g.idx
  OBVIOUS
<1>2. PICK v, q, r : v = Over(t, k, u) /\ q = Write(P, i + k, u) /\ r = Result(q, i)
  OBVIOUS
<1>3. ASSUME NEW Now, Good(P, Now), Listed(P, Now, i, t)
      PROVE  Turns(P, Now, i, t, r, v) /\ Len(v) = Len(t) /\ size(q) = size(P)
  <2>1. i # 0
    BY <1>3 DEF Listed
  <2>2. u \in Seq(Words(P))
    BY <1>1
  <2>3. v = Over(t, k, u)
    BY <1>2
  <2>4. /\ Turns(P, Now, i, t, Result(Write(P, i + k, u), i), v) /\ Len(v) = Len(t)
        /\ size(Write(P, i + k, u)) = size(P)
    BY <1>3, <2>1, <2>2, <2>3, InPlace
  <2>5. QED
    BY <1>2, <2>4
<1>4. PICK Now : Good(P, Now) /\ Listed(P, Now, i, t)
  BY <1>1, TurnsTo
<1>5. Len(v) = Len(t) /\ size(q) = size(P)
  BY <1>3, <1>4
<1>6. Leads(g.pool, g.idx, t, r, v)
  BY <1>1, <1>3 DEF Leads
<1>7. Turns(p, O, idx, s, r, v)
  BY <1>6, TurnsThrough
<1>8. QED
  BY <1>1, <1>2, <1>5, <1>7

\* v is the m elements of s after the first k.
Part(S, s, k, v, m) == v \in Seq(S) /\ Len(v) = m /\ \A j \in 1 .. m : v[j] = s[k + j]

\* Elements of a list, read from its block.
LEMMA ReadWords ==
  ASSUME NEW p, NEW O, Good(p, O), NEW idx, NEW s, Listed(p, O, idx, s),
         NEW k \in Nat, NEW m \in Nat, k + m <= Len(s), NEW v, v = Block(p, idx + k, m)
  PROVE  Part(Words(p), s, k, v, m)
<1>1. PICK n \in Nat : n = Len(s)
  BY LenProperties DEF Listed
<1>2. PICK N1 \in Nat : N1 = size(p)
  BY GoodShape
<1>3. idx \in Nat /\ k + m <= n /\ \A j \in 1 .. n : p.data[idx + j - 1] = s[j]
  BY <1>1 DEF Listed
<1>4. PICK i \in Nat : i = idx + k
  BY <1>3
<1>5. i + m <= N1
  <2>1. CASE idx = 0
    <3>1. n = 0
      BY <1>1, <2>1 DEF Listed
    <3>2. QED
      BY <1>3, <1>4, <2>1, <3>1
  <2>2. CASE idx # 0
    <3>1. PICK b, l, c \in Nat : InBlock(p, O, idx, s, b, l, c)
      BY <2>2, ListedBlock
    <3>2. idx = b + 1 /\ l = n /\ b + l + 1 <= N1
      BY <1>1, <1>2, <3>1 DEF InBlock
    <3>3. QED
      BY <1>3, <1>4, <3>2
  <2>3. QED
    BY <2>1, <2>2
<1>6. Shape(p) /\ i + m <= size(p)
  BY <1>2, <1>5, GoodShape
<1>7. /\ Block(p, i, m) \in Seq(Words(p)) /\ Len(Block(p, i, m)) = m
      /\ \A j \in 1 .. m : Block(p, i, m)[j] = p.data[i + j - 1]
  BY <1>6, BlockWords
<1>8. v = Block(p, i, m)
  BY <1>4
<1>9. \A j \in 1 .. m : v[j] = s[k + j]
  <2>1. SUFFICES ASSUME NEW j \in 1 .. m PROVE v[j] = s[k + j]
    OBVIOUS
  <2>2. PICK w \in Nat : w = k + j
    OBVIOUS
  <2>3. w \in 1 .. n /\ i + j - 1 = idx + w - 1
    BY <1>3, <1>4, <2>2
  <2>4. QED
    BY <1>3, <1>7, <1>8, <2>2, <2>3
<1>10. QED
  BY <1>7, <1>8, <1>9 DEF Part

\* as_mut_slice, get_mut
LEMMA AssignTurns ==
  ASSUME NEW p, NEW O, Good(p, O), NEW idx, NEW s, Listed(p, O, idx, s),
         NEW k \in 0 .. Len(s) - 1, NEW x \in Elem
  PROVE  Turns(p, O, idx, s, Result(Write(p, idx + k, <<x>>), idx), ReplaceAt(s, k + 1, x))
<1>1. PICK n \in Nat : n = Len(s)
  BY LenProperties DEF Listed
<1>2. k \in Nat /\ k + 1 <= n /\ n # 0
  BY <1>1
<1>3. idx # 0
  BY <1>1, <1>2 DEF Listed
<1>4. PICK u : u = <<x>>
  OBVIOUS
<1>5. u \in Seq(Words(p)) /\ Len(u) = 1 /\ u[1] = x
  BY <1>4 DEF Words
<1>6. PICK t : t = Over(s, k, u)
  OBVIOUS
<1>7. Turns(p, O, idx, s, Result(Write(p, idx + k, u), idx), t)
  <2>1. k + Len(u) <= Len(s)
    BY <1>1, <1>2, <1>5
  <2>2. QED
    BY <1>2, <1>3, <1>5, <1>6, <2>1, InPlace
<1>8. t = ReplaceAt(s, k + 1, x)
  <2>1. DOMAIN s = 1 .. n /\ s = [j \in DOMAIN s |-> s[j]]
    BY <1>1, LenProperties DEF Listed
  <2>2. t = [j \in 1 .. n |-> IF k < j /\ j <= k + 1 THEN u[j - k] ELSE s[j]]
    BY <1>1, <1>5, <1>6 DEF Over
  <2>3. \A j \in 1 .. n : (k < j /\ j <= k + 1 <=> j = k + 1) /\ (k + 1) - k = 1
    BY <1>2
  <2>4. \A j \in 1 .. n : (IF k < j /\ j <= k + 1 THEN u[j - k] ELSE s[j])
                          = (IF j = k + 1 THEN x ELSE s[j])
    BY <1>5, <2>3
  <2>5. t = [j \in 1 .. n |-> IF j = k + 1 THEN x ELSE s[j]]
    BY <2>2, <2>4
  <2>6. [s EXCEPT ![k + 1] = x] = [j \in 1 .. n |-> IF j = k + 1 THEN x ELSE s[j]]
    BY <2>1
  <2>7. QED
    BY <2>5, <2>6 DEF ReplaceAt
<1>9. QED
  BY <1>4, <1>7, <1>8

-----------------------------------------------------------------------------
(* Sequences cut and put together.                                         *)

\* z is x followed by y, which have m and n elements.
Join(S, x, y, z, m, n) ==
  /\ z \in Seq(S) /\ Len(z) = m + n
  /\ \A j \in 1 .. m + n : z[j] = IF j <= m THEN x[j] ELSE y[j - m]

\* The elements of s after the first k, up to the l-th.
LEMMA PartIs ==
  ASSUME NEW S, NEW s \in Seq(S), NEW k \in Nat, NEW m \in Nat, k + m <= Len(s)
  PROVE  Part(S, s, k, SubSeq(s, k + 1, k + m), m)
<1>1. PICK n \in Nat : n = Len(s)
  BY LenProperties
<1>2. PICK i, l \in Nat : i = k + 1 /\ l = k + m
  OBVIOUS
<1>3. \A j \in i .. l : j \in 1 .. n
  BY <1>1, <1>2
<1>4. \A j \in i .. l : s[j] \in S
  BY <1>1, <1>3, ElementOfSeq
<1>5. PICK v : v = SubSeq(s, i, l)
  OBVIOUS
<1>6. /\ SubSeq(s, i, l) \in Seq(S)
      /\ Len(SubSeq(s, i, l)) = IF i <= l THEN l - i + 1 ELSE 0
      /\ \A j \in 1 .. l - i + 1 : SubSeq(s, i, l)[j] = s[i + j - 1]
  BY <1>4, SubSeqProperties
<1>7. (IF i <= l THEN l - i + 1 ELSE 0) = m /\ l - i + 1 = m /\ \A j \in 1 .. m : i + j - 1 = k + j
  BY <1>2
<1>8. Part(S, s, k, v, m)
  BY <1>5, <1>6, <1>7 DEF Part
<1>9. QED
  BY <1>2, <1>5, <1>8

\* One sequence after the other.
LEMMA JoinIs ==
  ASSUME NEW S, NEW x \in Seq(S), NEW y \in Seq(S), NEW m, NEW n, m = Len(x), n = Len(y)
  PROVE  Join(S, x, y, x \o y, m, n)
<1>1. PICK z : z = x \o y
  OBVIOUS
<1>2. /\ z \in Seq(S) /\ Len(z) = Len(x) + Len(y)
      /\ \A j \in 1 .. Len(x) + Len(y) : z[j] = IF j <= Len(x) THEN x[j] ELSE y[j - Len(x)]
  BY <1>1, ConcatProperties
<1>3. Join(S, x, y, z, m, n)
  BY <1>2 DEF Join
<1>4. QED
  BY <1>1, <1>3

\* s with the elements u put in after the first k.
Splice(s, k, u) == SubSeq(s, 1, k) \o u \o SubSeq(s, k + 1, Len(s))

IsSplice(t, s, k, u) ==
  /\ Len(t) = Len(s) + Len(u)
  /\ \A j \in 1 .. Len(t) :
       t[j] = IF j <= k THEN s[j] ELSE IF j <= k + Len(u) THEN u[j - k] ELSE s[j - Len(u)]

\* A sequence with these elements.
LEMMA SpliceIs ==
  ASSUME NEW S, NEW s \in Seq(S), NEW u \in Seq(S), NEW k \in Nat, k <= Len(s),
         NEW R, NEW t \in Seq(R), IsSplice(t, s, k, u)
  PROVE  t = Splice(s, k, u)
<1>1. PICK n, l \in Nat : n = Len(s) /\ l = Len(u)
  BY LenProperties
<1>2. PICK d \in Nat : d = n - k /\ k + d = n
  <2>1. n - k \in Nat /\ k + (n - k) = n
    BY <1>1
  <2>2. QED
    BY <2>1
<1>3. PICK a, b : a = SubSeq(s, 1, k) /\ b = SubSeq(s, k + 1, n)
  OBVIOUS
<1>4. Part(S, s, 0, a, k)
  <2>1. 0 + k <= Len(s) /\ 0 + 1 = 1 /\ 0 + k = k
    OBVIOUS
  <2>2. Part(S, s, 0, SubSeq(s, 0 + 1, 0 + k), k)
    BY <2>1, PartIs
  <2>3. QED
    BY <1>3, <2>1, <2>2
<1>5. Part(S, s, k, b, d)
  <2>1. k + d <= Len(s)
    BY <1>1, <1>2
  <2>2. Part(S, s, k, SubSeq(s, k + 1, k + d), d)
    BY <2>1, PartIs
  <2>3. QED
    BY <1>2, <1>3, <2>2
<1>6. a \in Seq(S) /\ Len(a) = k /\ \A j \in 1 .. k : a[j] = s[j]
  <2>1. \A j \in 1 .. k : 0 + j = j
    OBVIOUS
  <2>2. QED
    BY <1>4, <2>1 DEF Part
<1>7. b \in Seq(S) /\ Len(b) = d /\ \A j \in 1 .. d : b[j] = s[k + j]
  BY <1>5 DEF Part
<1>8. PICK x : x = a \o u
  OBVIOUS
<1>9. Join(S, a, u, x, k, l)
  BY <1>1, <1>6, <1>8, JoinIs
<1>10. PICK i \in Nat : i = k + l
  OBVIOUS
<1>11. x \in Seq(S) /\ Len(x) = i /\ \A j \in 1 .. i : x[j] = IF j <= k THEN a[j] ELSE u[j - k]
  BY <1>9, <1>10 DEF Join
<1>12. PICK y : y = x \o b
  OBVIOUS
<1>13. Join(S, x, b, y, i, d)
  BY <1>7, <1>11, <1>12, JoinIs
<1>14. PICK h \in Nat : h = i + d /\ h = n + l
  <2>1. i + d = n + l
    BY <1>2, <1>10
  <2>2. QED
    BY <2>1
<1>15. y \in Seq(S) /\ Len(y) = h /\ \A j \in 1 .. h : y[j] = IF j <= i THEN x[j] ELSE b[j - i]
  BY <1>13, <1>14 DEF Join
<1>16. /\ Len(t) = h
       /\ \A j \in 1 .. h : t[j] = IF j <= k THEN s[j] ELSE IF j <= i THEN u[j - k] ELSE s[j - l]
  BY <1>1, <1>10, <1>14 DEF IsSplice
<1>17. ASSUME NEW j \in 1 .. h PROVE t[j] = y[j]
  <2>1. CASE j <= k
    <3>1. j <= i /\ j \in 1 .. i /\ j \in 1 .. k
      BY <1>10, <2>1
    <3>2. QED
      BY <1>6, <1>11, <1>15, <1>16, <2>1, <3>1
  <2>2. CASE ~(j <= k) /\ j <= i
    <3>1. j \in 1 .. i
      BY <2>2
    <3>2. QED
      BY <1>11, <1>15, <1>16, <2>2, <3>1
  <2>3. CASE ~(j <= i)
    <3>1. ~(j <= k) /\ j - i \in 1 .. d /\ k + (j - i) = j - l
      BY <1>10, <1>14, <2>3
    <3>2. PICK w : w = j - i /\ w \in 1 .. d
      BY <3>1
    <3>3. b[w] = s[k + w]
      BY <1>7, <3>2
    <3>4. QED
      BY <1>15, <1>16, <2>3, <3>1, <3>2, <3>3
  <2>4. QED
    BY <2>1, <2>2, <2>3
<1>18. t = y
  BY <1>15, <1>16, <1>17, SameSeq
<1>19. QED
  BY <1>1, <1>3, <1>8, <1>12, <1>18 DEF Splice

IsCut(t, s, k) ==
  /\ Len(t) + 1 = Len(s)
  /\ \A j \in 1 .. Len(t) : t[j] = IF j <= k THEN s[j] ELSE s[j + 1]

\* A sequence with the elements of s but one.
LEMMA CutIs ==
  ASSUME NEW S, NEW s \in Seq(S), NEW k \in Nat, k < Len(s), NEW R, NEW t \in Seq(R), IsCut(t, s, k)
  PROVE  t = SubSeq(s, 1, k) \o SubSeq(s, (k + 1) + 1, Len(s))
<1>1. PICK n \in Nat : n = Len(s)
  BY LenProperties
<1>2. PICK d, i \in Nat : i = k + 1 /\ d = n - i /\ i + d = n
  <2>1. k + 1 \in Nat /\ n - (k + 1) \in Nat /\ (k + 1) + (n - (k + 1)) = n
    BY <1>1
  <2>2. QED
    BY <2>1
<1>3. PICK a, b : a = SubSeq(s, 1, k) /\ b = SubSeq(s, i + 1, n)
  OBVIOUS
<1>4. Part(S, s, 0, a, k)
  <2>1. 0 + k <= Len(s) /\ 0 + 1 = 1 /\ 0 + k = k
    BY <1>1
  <2>2. Part(S, s, 0, SubSeq(s, 0 + 1, 0 + k), k)
    BY <2>1, PartIs
  <2>3. QED
    BY <1>3, <2>1, <2>2
<1>5. Part(S, s, i, b, d)
  <2>1. i + d <= Len(s)
    BY <1>1, <1>2
  <2>2. Part(S, s, i, SubSeq(s, i + 1, i + d), d)
    BY <2>1, PartIs
  <2>3. QED
    BY <1>2, <1>3, <2>2
<1>6. a \in Seq(S) /\ Len(a) = k /\ \A j \in 1 .. k : a[j] = s[j]
  <2>1. \A j \in 1 .. k : 0 + j = j
    OBVIOUS
  <2>2. QED
    BY <1>4, <2>1 DEF Part
<1>7. b \in Seq(S) /\ Len(b) = d /\ \A j \in 1 .. d : b[j] = s[i + j]
  BY <1>5 DEF Part
<1>8. PICK x : x = a \o b
  OBVIOUS
<1>9. Join(S, a, b, x, k, d)
  BY <1>6, <1>7, <1>8, JoinIs
<1>10. PICK h \in Nat : h = k + d /\ h + 1 = n
  <2>1. k + d \in Nat /\ (k + d) + 1 = n
    BY <1>2
  <2>2. QED
    BY <2>1
<1>11. x \in Seq(S) /\ Len(x) = h /\ \A j \in 1 .. h : x[j] = IF j <= k THEN a[j] ELSE b[j - k]
  BY <1>9, <1>10 DEF Join
<1>12. Len(t) = h
  <2>1. PICK l \in Nat : l = Len(t) /\ l + 1 = n
    BY <1>1, LenProperties DEF IsCut
  <2>2. QED
    BY <1>10, <2>1
<1>13. \A j \in 1 .. h : t[j] = IF j <= k THEN s[j] ELSE s[j + 1]
  BY <1>12 DEF IsCut
<1>14. ASSUME NEW j \in 1 .. h PROVE t[j] = x[j]
  <2>1. CASE j <= k
    <3>1. j \in 1 .. k
      BY <2>1
    <3>2. QED
      BY <1>6, <1>11, <1>13, <2>1, <3>1
  <2>2. CASE ~(j <= k)
    <3>1. j - k \in 1 .. d /\ i + (j - k) = j + 1
      BY <1>2, <1>10, <2>2
    <3>2. PICK w : w = j - k /\ w \in 1 .. d
      BY <3>1
    <3>3. b[w] = s[i + w]
      BY <1>7, <3>2
    <3>4. QED
      BY <1>11, <1>13, <2>2, <3>1, <3>2, <3>3
  <2>3. QED
    BY <2>1, <2>2
<1>15. t = x
  BY <1>11, <1>12, <1>14, SameSeq
<1>16. QED
  BY <1>1, <1>2, <1>3, <1>8, <1>15

-----------------------------------------------------------------------------
(* Operations of more than one step.                                       *)

\* The list after a call.
LEMMA TurnsSeq ==
  ASSUME NEW p, NEW O, NEW idx, NEW s, NEW g, NEW t, Turns(p, O, idx, s, g, t)
  PROVE  t \in Seq(Words(g.pool)) /\ (Len(t) = 0 <=> g.idx = 0)
BY DEF Turns, Listed

\* After a call the last element is removed.
LEMMA RemoveLastLater ==
  ASSUME NEW p, NEW O, NEW idx, NEW s, NEW g, NEW t, Turns(p, O, idx, s, g, t),
         NEW n \in Nat, n = Len(t), n > 0, n <= MaxLen + 2
  PROVE  Turns(p, O, idx, s, remove_last(g.pool, g.idx, n), SubSeq(t, 1, n - 1))
<1>1. PICK P, i, r, u : /\ P = g.pool /\ i = g.idx
                        /\ r = remove_last(P, i, n) /\ u = SubSeq(t, 1, n - 1)
  OBVIOUS
<1>2. ASSUME NEW Now, Good(P, Now), Listed(P, Now, i, t)
      PROVE  Turns(P, Now, i, t, r, u)
  <2>1. i # 0
    BY <1>2 DEF Listed
  <2>2. Turns(P, Now, i, t, remove_last(P, i, n), SubSeq(t, 1, n - 1))
    BY <1>2, <2>1, RemoveLastTurns
  <2>3. QED
    BY <1>1, <2>2
<1>3. Leads(g.pool, g.idx, t, r, u)
  BY <1>1, <1>2 DEF Leads
<1>4. Turns(p, O, idx, s, r, u)
  BY <1>3, TurnsThrough
<1>5. QED
  BY <1>1, <1>4

\* ListHandle::insert
LEMMA InsertTurns ==
  ASSUME NEW p, NEW O, Good(p, O), NEW idx, NEW s, Listed(p, O, idx, s), NEW x \in Elem,
         Len(s) <= MaxLen + 1, NEW k \in 0 .. Len(s)
  PROVE  Turns(p, O, idx, s, insert(p, idx, k, x), InsertAt(s, k + 1, x))
<1>1. PICK m \in Nat : m = Len(s)
  BY LenProperties DEF Listed
<1>2. k \in Nat /\ k <= m
  BY <1>1
<1>3. PICK n, d \in Nat : n = m + 1 /\ d = n - k - 1 /\ k + d = m /\ k + (d + 1) = n /\ n > 0
  <2>1. m + 1 \in Nat /\ m + 1 > 0
    OBVIOUS
  <2>2. (m + 1) - k - 1 \in Nat /\ k + ((m + 1) - k - 1) = m /\ k + (((m + 1) - k - 1) + 1) = m + 1
    BY <1>2
  <2>3. QED
    BY <2>1, <2>2
<1>4. PICK r, w : r = push(p, idx, x) /\ w = Append(s, x)
  OBVIOUS
<1>5. Turns(p, O, idx, s, r, w)
  BY <1>4, PushTurns
<1>6. s \in Seq(Words(p)) /\ x \in Words(p)
  BY DEF Listed, Words
<1>7. Len(w) = n /\ \A j \in 1 .. m : w[j] = s[j]
  <2>1. /\ Len(w) = Len(s) + 1 /\ \A j \in 1 .. Len(s) : w[j] = s[j]
    BY <1>4, <1>6, AppendProperties
  <2>2. QED
    BY <1>1, <1>3, <2>1
<1>8. PICK P, i : P = r.pool /\ i = r.idx
  OBVIOUS
<1>9. PICK Now : Good(P, Now) /\ Listed(P, Now, i, w)
  BY <1>5, <1>8, TurnsTo
<1>10. len(P, i) = n
  BY <1>7, <1>9, ListedReads
<1>11. PICK v : v = Block(P, i + k, d)
  OBVIOUS
<1>12. v \in Seq(Words(P)) /\ Len(v) = d /\ \A j \in 1 .. d : v[j] = w[k + j]
  <2>1. k + d <= Len(w)
    BY <1>3, <1>7
  <2>2. QED
    BY <1>2, <1>9, <1>11, <2>1, ReadWords DEF Part
<1>13. PICK e : e = <<x>>
  OBVIOUS
<1>14. e \in Seq(Words(P)) /\ Len(e) = 1 /\ e[1] = x
  BY <1>13 DEF Words
<1>15. PICK u : u = e \o v
  OBVIOUS
<1>16. u \in Seq(Words(P)) /\ Len(u) = 1 + d /\ \A j \in 1 .. 1 + d : u[j] = IF j <= 1 THEN e[j] ELSE v[j - 1]
  <2>1. Join(Words(P), e, v, u, 1, d)
    BY <1>12, <1>14, <1>15, JoinIs
  <2>2. QED
    BY <2>1 DEF Join
<1>17. PICK t : t = Over(w, k, u)
  OBVIOUS
<1>18. Turns(p, O, idx, s, Result(Write(P, i + k, u), i), t) /\ Len(t) = n
  <2>1. k + Len(u) <= Len(w) /\ Len(w) > 0
    BY <1>2, <1>3, <1>7, <1>16
  <2>2. u \in Seq(Words(r.pool))
    BY <1>8, <1>16
  <2>3. /\ Turns(p, O, idx, s, Result(Write(r.pool, r.idx + k, u), r.idx), Over(w, k, u))
        /\ Len(Over(w, k, u)) = Len(w)
    BY <1>2, <1>5, <2>1, <2>2, WriteLater
  <2>4. QED
    BY <1>7, <1>8, <1>17, <2>3
<1>19. insert(p, idx, k, x) = Result(Write(P, i + k, u), i)
  BY <1>3, <1>4, <1>8, <1>10, <1>11, <1>13, <1>15 DEF insert
<1>20. \A j \in 1 .. n : t[j] = IF k < j /\ j <= n THEN u[j - k] ELSE w[j]
  <2>1. k + Len(u) = n
    BY <1>2, <1>3, <1>16
  <2>2. QED
    BY <1>7, <1>17, <2>1 DEF Over
<1>21. ASSUME NEW j \in 1 .. n
       PROVE  t[j] = IF j <= k THEN s[j] ELSE IF j <= k + 1 THEN e[j - k] ELSE s[j - 1]
  <2>1. CASE j <= k
    <3>1. ~(k < j) /\ j \in 1 .. m
      BY <1>2, <2>1
    <3>2. QED
      BY <1>7, <1>20, <2>1, <3>1
  <2>2. CASE ~(j <= k) /\ j <= k + 1
    <3>1. k < j /\ j <= n /\ j - k = 1 /\ 1 \in 1 .. 1 + d /\ 1 <= 1
      BY <1>2, <2>2
    <3>2. QED
      BY <1>16, <1>20, <2>2, <3>1
  <2>3. CASE ~(j <= k + 1)
    <3>1. k < j /\ j <= n /\ ~(j <= k)
      BY <1>2, <2>3
    <3>2. PICK l : l = j - k /\ l \in 1 .. 1 + d /\ ~(l <= 1) /\ l - 1 \in 1 .. d /\ k + (l - 1) = j - 1
      <4>1. j - k \in 1 .. 1 + d /\ ~(j - k <= 1) /\ (j - k) - 1 \in 1 .. d /\ k + ((j - k) - 1) = j - 1
        BY <1>2, <1>3, <2>3
      <4>2. QED
        BY <4>1
    <3>3. t[j] = u[l]
      BY <1>20, <3>1, <3>2
    <3>4. u[l] = v[l - 1]
      BY <1>16, <3>2
    <3>5. PICK h : h = l - 1 /\ h \in 1 .. d /\ k + h = j - 1
      BY <3>2
    <3>6. v[h] = w[k + h]
      BY <1>12, <3>5
    <3>7. j - 1 \in 1 .. m
      BY <1>2, <1>3, <2>3
    <3>8. t[j] = s[j - 1]
      BY <1>7, <3>3, <3>4, <3>5, <3>6, <3>7
    <3>9. QED
      BY <2>3, <3>1, <3>8
  <2>4. QED
    BY <2>1, <2>2, <2>3
<1>22. IsSplice(t, s, k, e)
  BY <1>1, <1>3, <1>14, <1>18, <1>21 DEF IsSplice
<1>23. t = Splice(s, k, e)
  <2>1. PICK R : R = Words(Result(Write(P, i + k, u), i).pool)
    OBVIOUS
  <2>2. t \in Seq(R)
    BY <1>18, <2>1, TurnsSeq
  <2>3. e \in Seq(Words(p)) /\ k <= Len(s)
    BY <1>1, <1>2, <1>6, <1>13
  <2>4. QED
    BY <1>2, <1>6, <1>22, <2>2, <2>3, SpliceIs
<1>24. InsertAt(s, k + 1, x) = Splice(s, k, e)
  <2>1. (k + 1) - 1 = k
    BY <1>2
  <2>2. QED
    BY <1>13, <2>1 DEF InsertAt, Splice
<1>25. QED
  BY <1>18, <1>19, <1>23, <1>24

\* ListHandle::remove
LEMMA RemoveTurns ==
  ASSUME NEW p, NEW O, Good(p, O), NEW idx, NEW s, Listed(p, O, idx, s),
         Len(s) <= MaxLen + 2, NEW k \in 0 .. Len(s) - 1
  PROVE  Turns(p, O, idx, s, remove(p, idx, k), SubSeq(s, 1, k) \o SubSeq(s, (k + 1) + 1, Len(s)))
<1>1. PICK n \in Nat : n = Len(s)
  BY LenProperties DEF Listed
<1>2. k \in Nat /\ k < n /\ n > 0
  BY <1>1
<1>3. PICK i, d \in Nat : i = k + 1 /\ d = n - k - 1 /\ i + d = n /\ k + d = n - 1
  <2>1. k + 1 \in Nat /\ n - k - 1 \in Nat /\ (k + 1) + (n - k - 1) = n /\ k + (n - k - 1) = n - 1
    BY <1>2
  <2>2. QED
    BY <2>1
<1>4. idx \in Nat /\ idx # 0 /\ s \in Seq(Words(p))
  BY <1>1, <1>2 DEF Listed
<1>5. PICK v : v = Block(p, idx + i, d)
  OBVIOUS
<1>6. v \in Seq(Words(p)) /\ Len(v) = d /\ \A j \in 1 .. d : v[j] = s[i + j]
  <2>1. i + d <= Len(s)
    BY <1>1, <1>3
  <2>2. QED
    BY <1>5, <2>1, ReadWords DEF Part
<1>7. PICK t : t = Over(s, k, v)
  OBVIOUS
<1>8. PICK q : q = Write(p, idx + k, v)
  OBVIOUS
<1>9. Turns(p, O, idx, s, Result(q, idx), t) /\ Len(t) = n
  <2>1. k + Len(v) <= Len(s)
    BY <1>1, <1>2, <1>3, <1>6
  <2>2. v \in Seq(Words(p)) /\ k \in Nat /\ idx # 0
    BY <1>2, <1>4, <1>6
  <2>3. /\ Turns(p, O, idx, s, Result(Write(p, idx + k, v), idx), Over(s, k, v))
        /\ Len(Over(s, k, v)) = Len(s)
    BY <2>1, <2>2, InPlace
  <2>4. QED
    BY <1>1, <1>7, <1>8, <2>3
<1>10. PICK g : g = Result(q, idx)
  OBVIOUS
<1>11. g.pool = q /\ g.idx = idx
  BY <1>10 DEF Result
<1>12. PICK r, u : r = remove_last(q, idx, n) /\ u = SubSeq(t, 1, n - 1)
  OBVIOUS
<1>13. Turns(p, O, idx, s, r, u)
  <2>1. Turns(p, O, idx, s, g, t) /\ n = Len(t) /\ n <= MaxLen + 2
    BY <1>1, <1>9, <1>10
  <2>2. Turns(p, O, idx, s, remove_last(g.pool, g.idx, n), SubSeq(t, 1, n - 1))
    BY <1>2, <2>1, RemoveLastLater
  <2>3. QED
    BY <1>11, <1>12, <2>2
<1>14. remove(p, idx, k) = r
  <2>1. len(p, idx) = n
    BY <1>1, ListedReads
  <2>2. idx + k + 1 = idx + i
    BY <1>2, <1>3, <1>4
  <2>3. QED
    BY <1>3, <1>5, <1>8, <1>12, <2>1, <2>2 DEF remove
<1>15. PICK l \in Nat : l = n - 1 /\ l + 1 = n
  <2>1. n - 1 \in Nat /\ (n - 1) + 1 = n
    BY <1>2
  <2>2. QED
    BY <2>1
<1>16. Len(u) = l /\ \A j \in 1 .. l : u[j] = t[j]
  <2>1. t \in Seq(Words(g.pool))
    BY <1>9, <1>10, TurnsSeq
  <2>2. 0 + l <= Len(t) /\ 0 + 1 = 1 /\ 0 + l = l
    BY <1>9, <1>15
  <2>3. Part(Words(g.pool), t, 0, SubSeq(t, 0 + 1, 0 + l), l)
    BY <2>1, <2>2, PartIs
  <2>4. Part(Words(g.pool), t, 0, u, l)
    BY <1>12, <1>15, <2>2, <2>3
  <2>5. \A j \in 1 .. l : 0 + j = j
    OBVIOUS
  <2>6. QED
    BY <2>4, <2>5 DEF Part
<1>17. ASSUME NEW j \in 1 .. l PROVE u[j] = IF j <= k THEN s[j] ELSE s[j + 1]
  <2>1. u[j] = t[j] /\ j \in 1 .. n
    BY <1>15, <1>16
  <2>2. t[j] = IF k < j /\ j <= l THEN v[j - k] ELSE s[j]
    <3>1. k + Len(v) = l
      BY <1>3, <1>6, <1>15
    <3>2. QED
      BY <1>1, <1>7, <2>1, <3>1 DEF Over
  <2>3. CASE j <= k
    <3>1. ~(k < j)
      BY <1>2, <2>3
    <3>2. QED
      BY <2>1, <2>2, <2>3, <3>1
  <2>4. CASE ~(j <= k)
    <3>1. PICK h : h = j - k /\ h \in 1 .. d /\ i + h = j + 1
      <4>1. j - k \in 1 .. d /\ i + (j - k) = j + 1
        BY <1>2, <1>3, <1>15, <2>4
      <4>2. QED
        BY <4>1
    <3>2. k < j /\ j <= l
      BY <1>2, <2>4
    <3>3. v[h] = s[i + h]
      BY <1>6, <3>1
    <3>4. QED
      BY <2>1, <2>2, <2>4, <3>1, <3>2, <3>3
  <2>5. QED
    BY <2>3, <2>4
<1>18. IsCut(u, s, k)
  BY <1>1, <1>15, <1>16, <1>17 DEF IsCut
<1>19. u = SubSeq(s, 1, k) \o SubSeq(s, (k + 1) + 1, Len(s))
  <2>1. u \in Seq(Words(r.pool)) /\ k < Len(s)
    BY <1>1, <1>2, <1>13, TurnsSeq
  <2>2. QED
    BY <1>2, <1>4, <1>18, <2>1, CutIs
<1>20. QED
  BY <1>13, <1>14, <1>19

\* The first elements of a sequence.
LEMMA FirstElements ==
  ASSUME NEW S, NEW t \in Seq(S), NEW l \in Nat, l <= Len(t)
  PROVE  Part(S, t, 0, SubSeq(t, 1, l), l)
<1>1. 0 + l <= Len(t) /\ 0 + 1 = 1 /\ 0 + l = l
  OBVIOUS
<1>2. Part(S, t, 0, SubSeq(t, 0 + 1, 0 + l), l)
  BY <1>1, PartIs
<1>3. QED
  BY <1>1, <1>2

\* ListHandle::swap_remove
LEMMA SwapRemoveTurns ==
  ASSUME NEW p, NEW O, Good(p, O), NEW idx, NEW s, Listed(p, O, idx, s),
         Len(s) <= MaxLen + 2, NEW k \in 0 .. Len(s) - 1
  PROVE  Turns(p, O, idx, s, swap_remove(p, idx, k), Front(ReplaceAt(s, k + 1, Last(s))))
<1>1. PICK n \in Nat : n = Len(s)
  BY LenProperties DEF Listed
<1>2. k \in Nat /\ k < n /\ n > 0
  BY <1>1
<1>3. PICK l \in Nat : l = n - 1 /\ l + 1 = n /\ k <= l
  <2>1. n - 1 \in Nat /\ (n - 1) + 1 = n /\ k <= n - 1
    BY <1>2
  <2>2. QED
    BY <2>1
<1>4. idx \in Nat /\ idx # 0 /\ s \in Seq(Words(p)) /\ \A j \in 1 .. n : p.data[idx + j - 1] = s[j]
  BY <1>1, <1>2 DEF Listed
<1>5. len(p, idx) = n
  BY <1>1, ListedReads
<1>6. p.data[idx + k] = s[k + 1] /\ p.data[idx + n - 1] = s[n]
  <2>1. k + 1 \in 1 .. n /\ n \in 1 .. n /\ idx + (k + 1) - 1 = idx + k
    BY <1>2, <1>4
  <2>2. QED
    BY <1>4, <2>1
<1>7. s[k + 1] \in Words(p) /\ s[n] \in Words(p)
  <2>1. k + 1 \in 1 .. n /\ n \in 1 .. n
    BY <1>2
  <2>2. QED
    BY <1>1, <1>4, <2>1, ElementOfSeq
<1>8. PICK u1, u2 : u1 = <<s[k + 1]>> /\ u2 = <<s[n]>>
  OBVIOUS
<1>9. /\ u1 \in Seq(Words(p)) /\ Len(u1) = 1 /\ u2 \in Seq(Words(p)) /\ Len(u2) = 1 /\ u2[1] = s[n]
  BY <1>7, <1>8
<1>10. PICK t1 : t1 = Over(s, l, u1)
  OBVIOUS
<1>11. PICK q : q = Write(p, idx + l, u1)
  OBVIOUS
<1>12. PICK g : g = Result(q, idx)
  OBVIOUS
<1>13. g.pool = q /\ g.idx = idx
  BY <1>12 DEF Result
<1>14. Turns(p, O, idx, s, g, t1) /\ Len(t1) = n /\ size(q) = size(p)
  <2>1. l + Len(u1) <= Len(s)
    BY <1>1, <1>3, <1>9
  <2>2. /\ Turns(p, O, idx, s, Result(Write(p, idx + l, u1), idx), t1) /\ Len(t1) = Len(s)
        /\ size(Write(p, idx + l, u1)) = size(p)
    <3>1. idx # 0 /\ u1 \in Seq(Words(p)) /\ t1 = Over(s, l, u1)
      BY <1>4, <1>9, <1>10
    <3>2. QED
      BY <2>1, <3>1, InPlace
  <2>3. QED
    BY <1>1, <1>11, <1>12, <2>2
<1>15. \A j \in 1 .. l : t1[j] = s[j]
  <2>1. \A j \in 1 .. l : j \in 1 .. n /\ ~(l < j)
    BY <1>3
  <2>2. QED
    BY <1>1, <1>10, <2>1 DEF Over
<1>16. PICK t2 : t2 = Over(t1, k, u2)
  OBVIOUS
<1>17. PICK h : h = Result(Write(q, idx + k, u2), idx)
  OBVIOUS
<1>18. h.pool = Write(q, idx + k, u2) /\ h.idx = idx
  BY <1>17 DEF Result
<1>19. Turns(p, O, idx, s, h, t2) /\ Len(t2) = n
  <2>1. u2 \in Seq(Words(g.pool))
    BY <1>9, <1>13, <1>14 DEF Words
  <2>2. k + Len(u2) <= Len(t1) /\ Len(t1) > 0
    BY <1>2, <1>9, <1>14
  <2>3. /\ Turns(p, O, idx, s, Result(Write(g.pool, g.idx + k, u2), g.idx), Over(t1, k, u2))
        /\ Len(Over(t1, k, u2)) = Len(t1)
    BY <1>2, <1>14, <2>1, <2>2, WriteLater
  <2>4. QED
    BY <1>13, <1>14, <1>16, <1>17, <2>3
<1>20. PICK r, u : r = remove_last(h.pool, idx, n) /\ u = SubSeq(t2, 1, n - 1)
  OBVIOUS
<1>21. Turns(p, O, idx, s, r, u)
  <2>1. n = Len(t2) /\ n <= MaxLen + 2
    BY <1>1, <1>19
  <2>2. Turns(p, O, idx, s, remove_last(h.pool, h.idx, n), SubSeq(t2, 1, n - 1))
    BY <1>2, <1>19, <2>1, RemoveLastLater
  <2>3. QED
    BY <1>18, <1>20, <2>2
<1>22. swap_remove(p, idx, k) = r
  <2>1. idx + n - 1 = idx + l
    BY <1>3, <1>4
  <2>2. q = Write(p, idx + n - 1, <<p.data[idx + k]>>) /\ u2 = <<p.data[idx + n - 1]>>
    BY <1>6, <1>8, <1>11, <2>1
  <2>3. QED
    BY <1>5, <1>18, <1>20, <2>2 DEF swap_remove
<1>23. Len(u) = l /\ \A j \in 1 .. l : u[j] = t2[j]
  <2>1. t2 \in Seq(Words(h.pool)) /\ l <= Len(t2)
    BY <1>3, <1>19, TurnsSeq
  <2>2. Part(Words(h.pool), t2, 0, SubSeq(t2, 1, l), l)
    BY <2>1, FirstElements
  <2>3. Part(Words(h.pool), t2, 0, u, l) /\ \A j \in 1 .. l : 0 + j = j
    BY <1>3, <1>20, <2>2
  <2>4. QED
    BY <2>3 DEF Part
<1>24. PICK e : e = ReplaceAt(s, k + 1, s[n])
  OBVIOUS
<1>25. e \in Seq(Words(p)) /\ Len(e) = n /\ \A j \in 1 .. n : e[j] = IF j = k + 1 THEN s[n] ELSE s[j]
  <2>1. PICK i, x : i = k + 1 /\ x = s[n] /\ i \in 1 .. Len(s) /\ x \in Words(p)
    BY <1>1, <1>2, <1>7
  <2>2. /\ [s EXCEPT ![i] = x] \in Seq(Words(p)) /\ Len([s EXCEPT ![i] = x]) = Len(s)
        /\ \A j \in 1 .. Len(s) : [s EXCEPT ![i] = x][j] = IF j = i THEN x ELSE s[j]
    BY <1>4, <2>1, ExceptSeq
  <2>3. e = [s EXCEPT ![i] = x]
    BY <1>24, <2>1 DEF ReplaceAt
  <2>4. QED
    BY <1>1, <2>1, <2>2, <2>3
<1>26. ASSUME NEW j \in 1 .. l PROVE u[j] = e[j]
  <2>1. j \in 1 .. n
    BY <1>3
  <2>2. t2[j] = IF k < j /\ j <= k + 1 THEN u2[j - k] ELSE t1[j]
    BY <1>9, <1>14, <1>16, <2>1 DEF Over
  <2>3. (k < j /\ j <= k + 1) <=> j = k + 1
    BY <1>2
  <2>4. j = k + 1 => j - k = 1
    BY <1>2
  <2>5. QED
    BY <1>9, <1>15, <1>23, <1>25, <2>1, <2>2, <2>3, <2>4
<1>27. u = SubSeq(e, 1, l)
  <2>1. u \in Seq(Words(r.pool)) /\ l <= Len(e)
    BY <1>3, <1>21, <1>25, TurnsSeq
  <2>2. QED
    BY <1>23, <1>25, <1>26, <2>1, PrefixIs
<1>28. Front(ReplaceAt(s, k + 1, Last(s))) = SubSeq(e, 1, l)
  <2>1. Last(s) = s[n] /\ Len(e) - 1 = l
    BY <1>1, <1>3, <1>25 DEF Last
  <2>2. QED
    BY <1>24, <2>1 DEF Front
<1>29. QED
  BY <1>21, <1>22, <1>27, <1>28

\* ListHandle::extend
LEMMA ExtendTurns ==
  ASSUME NEW p, NEW O, Good(p, O), NEW idx, NEW s, Listed(p, O, idx, s),
         NEW u \in Seq(Elem), Len(u) > 0, Len(s) + Len(u) <= MaxLen + 2
  PROVE  Turns(p, O, idx, s, extend(p, idx, u), s \o u)
<1>1. PICK m, l \in Nat : m = Len(s) /\ l = Len(u)
  BY LenProperties DEF Listed
<1>2. l > 0 /\ Len(s) + l <= MaxLen + 2
  BY <1>1
<1>3. PICK n \in Nat : n = m + l /\ n > 0 /\ n - l = m
  <2>1. m + l \in Nat /\ m + l > 0 /\ (m + l) - l = m
    BY <1>2
  <2>2. QED
    BY <2>1
<1>4. PICK g : g = grow(p, idx, l)
  OBVIOUS
<1>5. PICK t : Grown(p, O, idx, s, g, t, n)
  <2>1. \E t : Grown(p, O, idx, s, grow(p, idx, l), t, Len(s) + l)
    BY <1>2, GrowTurns
  <2>2. QED
    BY <1>1, <1>3, <1>4, <2>1
<1>6. Turns(p, O, idx, s, g, t) /\ Len(t) = n /\ \A j \in 1 .. m : t[j] = s[j]
  BY <1>1, <1>5 DEF Grown
<1>7. PICK Now : Good(g.pool, Now) /\ Listed(g.pool, Now, g.idx, t)
  BY <1>6, TurnsTo
<1>8. len(g.pool, g.idx) = n /\ g.idx \in Nat
  <2>1. g.idx \in Nat
    BY <1>7 DEF Listed
  <2>2. len(g.pool, g.idx) = Len(t)
    BY <1>7, ListedReads
  <2>3. QED
    BY <1>6, <2>1, <2>2
<1>9. PICK v : v = Over(t, m, u)
  OBVIOUS
<1>10. PICK r : r = Result(Write(g.pool, g.idx + m, u), g.idx)
  OBVIOUS
<1>11. Turns(p, O, idx, s, r, v) /\ Len(v) = n
  <2>1. Elem \subseteq Words(g.pool)
    BY DEF Words
  <2>2. u \in Seq(Words(g.pool))
    BY <2>1, SeqMonotonic
  <2>3. m + Len(u) <= Len(t) /\ Len(t) > 0
    BY <1>1, <1>3, <1>6
  <2>4. /\ Turns(p, O, idx, s, Result(Write(g.pool, g.idx + m, u), g.idx), Over(t, m, u))
        /\ Len(Over(t, m, u)) = Len(t)
    BY <1>6, <2>2, <2>3, WriteLater
  <2>5. QED
    BY <1>6, <1>9, <1>10, <2>4
<1>12. extend(p, idx, u) = r
  <2>1. g.idx + n - l = g.idx + m
    BY <1>3, <1>8
  <2>2. QED
    BY <1>1, <1>4, <1>8, <1>10, <2>1 DEF extend
<1>13. PICK S : S = Words(p)
  OBVIOUS
<1>14. s \in Seq(S) /\ u \in Seq(S)
  <2>1. Elem \subseteq S
    BY <1>13 DEF Words
  <2>2. u \in Seq(S)
    BY <2>1, SeqMonotonic
  <2>3. QED
    BY <1>13, <2>2 DEF Listed
<1>15. PICK x : x = s \o u
  OBVIOUS
<1>16. Join(S, s, u, x, m, l)
  BY <1>1, <1>14, <1>15, JoinIs
<1>17. x \in Seq(S) /\ Len(x) = n /\ \A j \in 1 .. n : x[j] = IF j <= m THEN s[j] ELSE u[j - m]
  BY <1>3, <1>16 DEF Join
<1>18. \A j \in 1 .. n : v[j] = IF m < j /\ j <= m + l THEN u[j - m] ELSE t[j]
  BY <1>1, <1>6, <1>9 DEF Over
<1>19. ASSUME NEW j \in 1 .. n PROVE v[j] = x[j]
  <2>1. j <= m => j \in 1 .. m /\ ~(m < j)
    OBVIOUS
  <2>2. ~(j <= m) => m < j /\ j <= m + l
    BY <1>3
  <2>3. QED
    BY <1>6, <1>17, <1>18, <2>1, <2>2
<1>20. v = x
  <2>1. v \in Seq(Words(r.pool))
    BY <1>11, TurnsSeq
  <2>2. QED
    BY <1>11, <1>17, <1>19, <2>1, SameSeq
<1>21. QED
  BY <1>11, <1>12, <1>15, <1>20

\* ListHandle::grow_at, and the gap filled.
LEMMA GrowAtTurns ==
  ASSUME NEW p, NEW O, Good(p, O), NEW idx, NEW s, Listed(p, O, idx, s),
         NEW u \in Seq(Elem), Len(u) > 0, Len(s) + Len(u) <= MaxLen + 2, NEW k \in 0 .. Len(s),
         NEW g, g = grow_at(p, idx, k, Len(u))
  PROVE  Turns(p, O, idx, s, Result(Write(g.pool, g.idx + k, u), g.idx), Splice(s, k, u))
<1>1. PICK m, l \in Nat : m = Len(s) /\ l = Len(u)
  BY LenProperties DEF Listed
<1>2. l > 0 /\ Len(s) + l <= MaxLen + 2 /\ k \in Nat /\ k <= m
  BY <1>1
<1>3. PICK n \in Nat : n = m + l /\ n > 0
  <2>1. m + l \in Nat /\ m + l > 0
    BY <1>2
  <2>2. QED
    BY <2>1
<1>4. PICK d, i \in Nat : d = n - k - l /\ k + d = m /\ i = k + l /\ i + d = n
  <2>1. n - k - l \in Nat /\ k + (n - k - l) = m /\ k + l \in Nat /\ (k + l) + (n - k - l) = n
    BY <1>2, <1>3
  <2>2. QED
    BY <2>1
<1>5. PICK f : f = grow(p, idx, l)
  OBVIOUS
<1>6. PICK t : Grown(p, O, idx, s, f, t, n)
  <2>1. \E t : Grown(p, O, idx, s, grow(p, idx, l), t, Len(s) + l)
    BY <1>2, GrowTurns
  <2>2. QED
    BY <1>1, <1>3, <1>5, <2>1
<1>7. Turns(p, O, idx, s, f, t) /\ Len(t) = n /\ \A j \in 1 .. m : t[j] = s[j]
  BY <1>1, <1>6 DEF Grown
<1>8. PICK P, h : P = f.pool /\ h = f.idx
  OBVIOUS
<1>9. PICK Now : Good(P, Now) /\ Listed(P, Now, h, t)
  BY <1>7, <1>8, TurnsTo
<1>10. len(P, h) = n /\ h \in Nat
  <2>1. h \in Nat
    BY <1>9 DEF Listed
  <2>2. len(P, h) = Len(t)
    BY <1>9, ListedReads
  <2>3. QED
    BY <1>7, <2>1, <2>2
<1>11. PICK v : v = Block(P, h + k, d)
  OBVIOUS
<1>12. v \in Seq(Words(P)) /\ Len(v) = d /\ \A j \in 1 .. d : v[j] = t[k + j]
  <2>1. k + d <= Len(t)
    BY <1>3, <1>4, <1>7
  <2>2. k \in Nat
    BY <1>2
  <2>3. Part(Words(P), t, k, v, d)
    BY <1>9, <1>11, <2>1, <2>2, ReadWords
  <2>4. QED
    BY <2>3 DEF Part
<1>13. PICK t1 : t1 = Over(t, i, v)
  OBVIOUS
<1>14. PICK q : q = Write(P, h + i, v)
  OBVIOUS
<1>15. g = Result(q, h)
  <2>1. h + k + l = h + i /\ n - k - l = d
    BY <1>2, <1>4, <1>10
  <2>2. QED
    BY <1>1, <1>5, <1>8, <1>10, <1>11, <1>14, <2>1 DEF grow_at
<1>16. g.pool = q /\ g.idx = h
  BY <1>15 DEF Result
<1>17. Turns(p, O, idx, s, g, t1) /\ Len(t1) = n /\ size(q) = size(P)
  <2>1. i + Len(v) <= Len(t) /\ Len(t) > 0
    BY <1>3, <1>4, <1>7, <1>12
  <2>2. v \in Seq(Words(f.pool))
    BY <1>8, <1>12
  <2>3. /\ Turns(p, O, idx, s, Result(Write(f.pool, f.idx + i, v), f.idx), Over(t, i, v))
        /\ Len(Over(t, i, v)) = Len(t) /\ size(Write(f.pool, f.idx + i, v)) = size(f.pool)
    BY <1>7, <2>1, <2>2, WriteLater
  <2>4. QED
    BY <1>7, <1>8, <1>13, <1>14, <1>15, <2>3
<1>18. PICK t2 : t2 = Over(t1, k, u)
  OBVIOUS
<1>19. PICK r : r = Result(Write(q, h + k, u), h)
  OBVIOUS
<1>20. Turns(p, O, idx, s, r, t2) /\ Len(t2) = n
  <2>1. Elem \subseteq Words(g.pool)
    BY DEF Words
  <2>2. u \in Seq(Words(g.pool))
    BY <2>1, SeqMonotonic
  <2>3. k + Len(u) <= Len(t1) /\ Len(t1) > 0
    BY <1>1, <1>2, <1>3, <1>17
  <2>4. /\ Turns(p, O, idx, s, Result(Write(g.pool, g.idx + k, u), g.idx), Over(t1, k, u))
        /\ Len(Over(t1, k, u)) = Len(t1)
    BY <1>2, <1>17, <2>2, <2>3, WriteLater
  <2>5. QED
    BY <1>16, <1>17, <1>18, <1>19, <2>4
<1>21. \A j \in 1 .. n : t1[j] = IF i < j /\ j <= n THEN v[j - i] ELSE t[j]
  <2>1. i + Len(v) = n
    BY <1>4, <1>12
  <2>2. QED
    BY <1>7, <1>13, <2>1 DEF Over
<1>22. \A j \in 1 .. n : t2[j] = IF k < j /\ j <= i THEN u[j - k] ELSE t1[j]
  BY <1>1, <1>4, <1>17, <1>18 DEF Over
<1>23. ASSUME NEW j \in 1 .. n
       PROVE  t2[j] = IF j <= k THEN s[j] ELSE IF j <= i THEN u[j - k] ELSE s[j - l]
  <2>1. CASE j <= k
    <3>1. ~(k < j) /\ ~(i < j) /\ j \in 1 .. m
      BY <1>2, <1>4, <2>1
    <3>2. QED
      BY <1>7, <1>21, <1>22, <2>1, <3>1
  <2>2. CASE ~(j <= k) /\ j <= i
    <3>1. k < j
      BY <1>2, <2>2
    <3>2. QED
      BY <1>22, <2>2, <3>1
  <2>3. CASE ~(j <= i)
    <3>1. i < j /\ j <= n /\ ~(j <= k)
      BY <1>2, <1>4, <2>3
    <3>2. PICK w : w = j - i /\ w \in 1 .. d /\ k + w = j - l
      <4>1. j - i \in 1 .. d /\ k + (j - i) = j - l
        BY <1>2, <1>4, <2>3
      <4>2. QED
        BY <4>1
    <3>3. v[w] = t[k + w]
      BY <1>12, <3>2
    <3>4. j - l \in 1 .. m
      BY <1>2, <1>3, <1>4, <2>3
    <3>5. t1[j] = s[j - l]
      BY <1>7, <1>21, <3>1, <3>2, <3>3, <3>4
    <3>6. QED
      BY <1>22, <2>3, <3>1, <3>5
  <2>4. QED
    BY <2>1, <2>2, <2>3
<1>24. IsSplice(t2, s, k, u)
  BY <1>1, <1>3, <1>4, <1>20, <1>23 DEF IsSplice
<1>25. t2 = Splice(s, k, u)
  <2>1. Elem \subseteq Words(p)
    BY DEF Words
  <2>2. u \in Seq(Words(p)) /\ k <= Len(s)
    BY <1>1, <1>2, <2>1, SeqMonotonic
  <2>3. t2 \in Seq(Words(r.pool)) /\ s \in Seq(Words(p))
    BY <1>20, TurnsSeq DEF Listed
  <2>4. QED
    BY <1>2, <1>24, <2>2, <2>3, SpliceIs
<1>26. QED
  BY <1>16, <1>19, <1>20, <1>25

-----------------------------------------------------------------------------
(* All handles of a pool.                                                  *)

\* The blocks that the handles ix own.
Owning(p, ix) == UNION {BlockOf(ix[f], Len(as_slice(p, ix[f]))) : f \in Handle}

\* Every handle of ix owns a list of p, no two the same, and all other words
\* are in free blocks.
Sound(p, ix) ==
  /\ ix \in [Handle -> Nat] /\ Good(p, Owning(p, ix)) /\ size(p) <= MaxWords
  /\ \A f \in Handle : /\ Listed(p, Owning(p, ix), ix[f], as_slice(p, ix[f]))
                       /\ as_slice(p, ix[f]) \in Seq(Elem) /\ Len(as_slice(p, ix[f])) <= MaxLen
  /\ \A f, g \in Handle : ix[f] = ix[g] => f = g \/ ix[f] = 0

\* The call on h with the result r turns its list into t.
Acts(p, ix, h, r, t) == Turns(p, Owning(p, ix), ix[h], as_slice(p, ix[h]), r, t)

\* A list is the same when the words of its block are.
LEMMA ListedSame ==
  ASSUME NEW p, NEW O, Good(p, O), NEW idx, NEW s \in Seq(Elem), Listed(p, O, idx, s),
         NEW q, NEW rest, Same(p, q, rest), BlockOf(idx, Len(s)) \subseteq rest,
         NEW Now, rest \subseteq Now
  PROVE  Listed(q, Now, idx, s) /\ as_slice(q, idx) = s
<1>1. PICK n \in Nat : n = Len(s)
  BY LenProperties
<1>2. s \in Seq(Words(q))
  <2>1. Elem \subseteq Words(q)
    BY DEF Words
  <2>2. QED
    BY <2>1, SeqMonotonic
<1>3. idx \in Nat /\ (idx = 0 <=> n = 0) /\ BlockOf(idx, n) \subseteq Now
  BY <1>1 DEF Listed
<1>4. (idx # 0 => q.data[idx - 1] = n) /\ \A k \in 1 .. n : q.data[idx + k - 1] = s[k]
  <2>1. CASE idx = 0
    BY <1>3, <2>1
  <2>2. CASE idx # 0
    <3>1. PICK b, m, c \in Nat : InBlock(p, O, idx, s, b, m, c)
      BY <2>2, ListedBlock
    <3>2. PICK y : y = <<b, c>>
      OBVIOUS
    <3>3. /\ idx = b + 1 /\ m = n /\ c \in Class /\ y \in rest /\ p.data[b] = n
          /\ n + 1 <= sclass_size(c) /\ \A k \in 1 .. n : p.data[b + k] = s[k]
      BY <1>1, <3>1, <3>2 DEF InBlock
    <3>4. y \in Nat \X Class /\ y[1] = b /\ y[2] = c
      BY <3>2, <3>3
    <3>5. PICK z \in Nat : /\ z = sclass_size(c)
                           /\ \A w \in Nat : w \in Cover(y) <=> b <= w /\ w < b + z
      BY <3>4, CoverWords
    <3>6. \A k \in 0 .. n : b + k \in Nat /\ b <= b + k /\ b + k < b + z
      BY <3>3, <3>5
    <3>7. \A k \in 0 .. n : b + k \in Cover(y)
      BY <3>5, <3>6
    <3>8. \A k \in 0 .. n : q.data[b + k] = p.data[b + k]
      BY <3>3, <3>7 DEF Same
    <3>9. b + 0 = b /\ idx - 1 = b /\ 0 \in 0 .. n
      BY <3>3
    <3>10. \A k \in 1 .. n : k \in 0 .. n /\ idx + k - 1 = b + k
      BY <3>3
    <3>11. q.data[b] = n
      <4>1. q.data[b + 0] = p.data[b + 0]
        BY <3>8, <3>9
      <4>2. QED
        BY <3>3, <3>9, <4>1
    <3>12. \A k \in 1 .. n : q.data[b + k] = s[k]
      BY <3>3, <3>8, <3>10
    <3>13. QED
      BY <3>9, <3>10, <3>11, <3>12
  <2>3. QED
    BY <2>1, <2>2
<1>5. Listed(q, Now, idx, s)
  BY <1>1, <1>2, <1>3, <1>4 DEF Listed
<1>6. as_slice(q, idx) = s
  <2>1. len(q, idx) = n
    BY <1>3, <1>4 DEF len
  <2>2. DOMAIN s = 1 .. n /\ s = [k \in DOMAIN s |-> s[k]]
    BY <1>1, LenProperties
  <2>3. [k \in 1 .. n |-> q.data[idx + k - 1]] = [k \in 1 .. n |-> s[k]]
    BY <1>4
  <2>4. QED
    BY <2>1, <2>2, <2>3 DEF as_slice, Block
<1>7. QED
  BY <1>5, <1>6

\* The other lists own blocks that are not touched.
LEMMA OthersOwn ==
  ASSUME NEW p, NEW ix, Sound(p, ix), NEW h \in Handle, NEW f \in Handle, f # h
  PROVE  BlockOf(ix[f], Len(as_slice(p, ix[f])))
           \subseteq Owning(p, ix) \ BlockOf(ix[h], Len(as_slice(p, ix[h])))
<1>1. PICK i, j \in Nat : i = ix[f] /\ j = ix[h] /\ (i = j => i = 0)
  BY DEF Sound
<1>2. BlockOf(ix[f], Len(as_slice(p, ix[f]))) \subseteq Owning(p, ix)
  BY DEF Owning
<1>3. CASE i = 0 \/ j = 0
  BY <1>1, <1>2, <1>3 DEF BlockOf
<1>4. CASE i # 0 /\ j # 0
  <2>1. i - 1 # j - 1
    BY <1>1, <1>4
  <2>2. \A c, d : <<i - 1, c>> # <<j - 1, d>>
    BY <2>1
  <2>3. QED
    BY <1>1, <1>2, <1>4, <2>2 DEF BlockOf
<1>5. QED
  BY <1>3, <1>4

\* A call turns one list into another and touches no other.
LEMMA CallMakes ==
  ASSUME NEW p, NEW ix, Sound(p, ix), NEW h \in Handle, NEW r, NEW t, Acts(p, ix, h, r, t)
  PROVE  /\ as_slice(r.pool, r.idx) = t
         /\ \A g \in Handle \ {h} : as_slice(r.pool, ix[g]) = as_slice(p, ix[g])
<1>1. PICK O, s, rest, Now : /\ O = Owning(p, ix) /\ s = as_slice(p, ix[h])
                             /\ rest = O \ BlockOf(ix[h], Len(s))
                             /\ Now = rest \cup BlockOf(r.idx, Len(t))
  OBVIOUS
<1>2. Good(r.pool, Now) /\ Same(p, r.pool, rest) /\ Listed(r.pool, Now, r.idx, t)
  BY <1>1 DEF Acts, Turns
<1>3. as_slice(r.pool, r.idx) = t
  BY <1>2, ListedReads
<1>4. ASSUME NEW g \in Handle \ {h} PROVE as_slice(r.pool, ix[g]) = as_slice(p, ix[g])
  <2>1. PICK i, u : i = ix[g] /\ u = as_slice(p, ix[g])
    OBVIOUS
  <2>2. Good(p, O) /\ Listed(p, O, i, u) /\ u \in Seq(Elem)
    BY <1>1, <2>1 DEF Sound
  <2>3. BlockOf(i, Len(u)) \subseteq rest /\ rest \subseteq Now
    BY <1>1, <2>1, OthersOwn
  <2>4. as_slice(r.pool, i) = u
    BY <1>2, <2>2, <2>3, ListedSame
  <2>5. QED
    BY <2>1, <2>4
<1>5. QED
  BY <1>3, <1>4

\* After a call every handle owns a list again.
LEMMA CallSound ==
  ASSUME NEW p, NEW ix, Sound(p, ix), NEW h \in Handle, NEW r, NEW t, Acts(p, ix, h, r, t),
         t \in Seq(Elem), Len(t) <= MaxLen, size(r.pool) <= MaxWords,
         NEW jx, jx = [ix EXCEPT ![h] = r.idx]
  PROVE  Sound(r.pool, jx)
<1>1. PICK O, s, rest, B, Now : /\ O = Owning(p, ix) /\ s = as_slice(p, ix[h])
                                /\ rest = O \ BlockOf(ix[h], Len(s))
                                /\ B = BlockOf(r.idx, Len(t)) /\ Now = rest \cup B
  OBVIOUS
<1>2. PICK q : q = r.pool
  OBVIOUS
<1>3. B \cap rest = {} /\ Good(q, Now) /\ Same(p, q, rest) /\ Listed(q, Now, r.idx, t)
  BY <1>1, <1>2 DEF Acts, Turns
<1>4. /\ ix \in [Handle -> Nat] /\ Good(p, O)
      /\ \A f \in Handle : /\ Listed(p, O, ix[f], as_slice(p, ix[f]))
                           /\ as_slice(p, ix[f]) \in Seq(Elem) /\ Len(as_slice(p, ix[f])) <= MaxLen
      /\ \A f, g \in Handle : ix[f] = ix[g] => f = g \/ ix[f] = 0
  BY <1>1 DEF Sound
<1>5. jx \in [Handle -> Nat] /\ jx[h] = r.idx /\ \A g \in Handle \ {h} : jx[g] = ix[g]
  <2>1. r.idx \in Nat
    BY <1>3 DEF Listed
  <2>2. QED
    BY <1>4, <2>1
<1>6. as_slice(q, jx[h]) = t /\ \A g \in Handle \ {h} : as_slice(q, jx[g]) = as_slice(p, ix[g])
  BY <1>2, <1>5, CallMakes
<1>7. \A g \in Handle \ {h} : BlockOf(ix[g], Len(as_slice(p, ix[g]))) \subseteq rest
  BY <1>1, OthersOwn
<1>8. Owning(q, jx) = Now
  <2>1. ASSUME NEW x \in Owning(q, jx) PROVE x \in Now
    <3>1. PICK f \in Handle : x \in BlockOf(jx[f], Len(as_slice(q, jx[f])))
      BY DEF Owning
    <3>2. CASE f = h
      BY <1>1, <1>5, <1>6, <3>1, <3>2
    <3>3. CASE f # h
      BY <1>1, <1>5, <1>6, <1>7, <3>1, <3>3
    <3>4. QED
      BY <3>2, <3>3
  <2>2. ASSUME NEW x \in B PROVE x \in Owning(q, jx)
    BY <1>1, <1>5, <1>6 DEF Owning
  <2>3. ASSUME NEW x \in rest PROVE x \in Owning(q, jx)
    <3>1. x \in O /\ x \notin BlockOf(ix[h], Len(s))
      BY <1>1
    <3>2. PICK f \in Handle : x \in BlockOf(ix[f], Len(as_slice(p, ix[f])))
      BY <1>1, <3>1 DEF Owning
    <3>3. f # h
      BY <1>1, <3>1, <3>2
    <3>4. x \in BlockOf(jx[f], Len(as_slice(q, jx[f])))
      BY <1>5, <1>6, <3>2, <3>3
    <3>5. QED
      BY <3>4 DEF Owning
  <2>4. QED
    BY <1>1, <2>1, <2>2, <2>3
<1>9. ASSUME NEW f \in Handle
      PROVE  /\ Listed(q, Now, jx[f], as_slice(q, jx[f]))
             /\ as_slice(q, jx[f]) \in Seq(Elem) /\ Len(as_slice(q, jx[f])) <= MaxLen
  <2>1. CASE f = h
    BY <1>3, <1>5, <1>6, <2>1
  <2>2. CASE f # h
    <3>1. PICK i, u : i = ix[f] /\ u = as_slice(p, ix[f])
      OBVIOUS
    <3>2. Listed(p, O, i, u) /\ u \in Seq(Elem) /\ Len(u) <= MaxLen
      BY <1>4, <3>1
    <3>3. BlockOf(i, Len(u)) \subseteq rest /\ rest \subseteq Now
      BY <1>1, <1>7, <2>2, <3>1
    <3>4. Listed(q, Now, i, u)
      BY <1>3, <1>4, <3>2, <3>3, ListedSame
    <3>5. QED
      BY <1>5, <1>6, <2>2, <3>1, <3>2, <3>4
  <2>3. QED
    BY <2>1, <2>2
<1>10. ASSUME NEW g \in Handle, g # h, ix[g] = r.idx PROVE ix[g] = 0
  <2>1. SUFFICES ASSUME ix[g] # 0 PROVE FALSE
    OBVIOUS
  <2>2. PICK b, c, d : b = ix[g] - 1 /\ c = sclass_for_length(Len(as_slice(p, ix[g])))
                       /\ d = sclass_for_length(Len(t))
    OBVIOUS
  <2>3. PICK x, y : x = <<b, c>> /\ y = <<b, d>>
    OBVIOUS
  <2>4. x \in rest
    BY <1>7, <1>10, <2>1, <2>2, <2>3 DEF BlockOf
  <2>5. y \in B
    BY <1>1, <1>10, <2>1, <2>2, <2>3 DEF BlockOf
  <2>6. x \in Now /\ y \in Now /\ x[1] = y[1]
    BY <1>1, <2>3, <2>4, <2>5
  <2>7. x = y
    BY <1>3, <2>6, GoodShape
  <2>8. QED
    BY <1>3, <2>4, <2>5, <2>7
<1>11. \A f, g \in Handle : jx[f] = jx[g] => f = g \/ jx[f] = 0
  BY <1>4, <1>5, <1>10
<1>12. Sound(q, jx)
  BY <1>2, <1>3, <1>5, <1>8, <1>9, <1>11 DEF Sound
<1>13. QED
  BY <1>2, <1>12

-----------------------------------------------------------------------------
(* What the operations make of a list, as AbstractLists says it.           *)

Changed(s) ==
  UNION {Abstract!Inserted(s), Abstract!Spliced(s), Abstract!Assigned(s),
         Abstract!Removed(s), Abstract!Swapped(s), Abstract!Truncated(s)}

\* t is a list that fits and that an operation makes of s.
Made(s, t) == t \in Seq(Elem) /\ Len(t) <= MaxLen /\ t \in Changed(s)

\* What is inserted as a whole has two elements.
LEMMA SliceSeq ==
  ASSUME NEW u \in Slice
  PROVE  u \in Seq(Elem) /\ Len(u) = 2
<1>1. u \in [1 .. 2 -> Elem]
  BY DEF Slice
<1>2. u \in Seq(Elem)
  <2>1. PICK n \in Nat : n = 2
    OBVIOUS
  <2>2. u \in [1 .. n -> Elem]
    BY <1>1, <2>1
  <2>3. QED
    BY <2>2
<1>3. PICK n \in Nat : n = Len(u) /\ DOMAIN u = 1 .. n /\ DOMAIN u = 1 .. 2
  BY <1>1, <1>2, LenProperties
<1>4. n = 2
  <2>1. 1 .. n = 1 .. 2
    BY <1>3
  <2>2. n \in 1 .. 2 \/ n = 0
    BY <2>1
  <2>3. 2 \in 1 .. n
    BY <2>1
  <2>4. QED
    BY <2>2, <2>3
<1>5. QED
  BY <1>2, <1>3, <1>4

\* The elements before and from a place.
LEMMA Halves ==
  ASSUME NEW s \in Seq(Elem), NEW k \in 0 .. Len(s)
  PROVE  /\ SubSeq(s, 1, k) \in Seq(Elem) /\ Len(SubSeq(s, 1, k)) = k
         /\ SubSeq(s, k + 1, Len(s)) \in Seq(Elem) /\ Len(SubSeq(s, k + 1, Len(s))) = Len(s) - k
<1>1. PICK n \in Nat : n = Len(s)
  BY LenProperties
<1>2. k \in Nat /\ k <= n
  BY <1>1
<1>3. Part(Elem, s, 0, SubSeq(s, 1, k), k)
  BY <1>1, <1>2, FirstElements
<1>4. PICK d \in Nat : d = n - k /\ k + d = n
  <2>1. n - k \in Nat /\ k + (n - k) = n
    BY <1>2
  <2>2. QED
    BY <2>1
<1>5. Part(Elem, s, k, SubSeq(s, k + 1, k + d), d)
  <2>1. k + d <= Len(s)
    BY <1>1, <1>4
  <2>2. QED
    BY <1>2, <2>1, PartIs
<1>6. QED
  BY <1>1, <1>3, <1>4, <1>5 DEF Part

\* Elements put in.
LEMMA SpliceSeq ==
  ASSUME NEW s \in Seq(Elem), NEW u \in Seq(Elem), NEW k \in 0 .. Len(s)
  PROVE  Splice(s, k, u) \in Seq(Elem) /\ Len(Splice(s, k, u)) = Len(s) + Len(u)
<1>1. PICK n, l \in Nat : n = Len(s) /\ l = Len(u)
  BY LenProperties
<1>2. PICK a, b : a = SubSeq(s, 1, k) /\ b = SubSeq(s, k + 1, Len(s))
  OBVIOUS
<1>3. a \in Seq(Elem) /\ Len(a) = k /\ b \in Seq(Elem) /\ Len(b) = n - k
  BY <1>1, <1>2, Halves
<1>4. a \o u \in Seq(Elem) /\ Len(a \o u) = k + l
  BY <1>1, <1>3, ConcatProperties
<1>5. (a \o u) \o b \in Seq(Elem) /\ Len((a \o u) \o b) = (k + l) + (n - k)
  <2>1. PICK v : v = a \o u
    OBVIOUS
  <2>2. v \in Seq(Elem) /\ Len(v) = k + l
    BY <1>4, <2>1
  <2>3. v \o b \in Seq(Elem) /\ Len(v \o b) = Len(v) + Len(b)
    BY <1>3, <2>2, ConcatProperties
  <2>4. QED
    BY <1>3, <2>1, <2>2, <2>3
<1>6. k \in Int /\ (k + l) + (n - k) = n + l
  BY <1>1
<1>7. QED
  BY <1>1, <1>2, <1>5, <1>6 DEF Splice

\* A slice put in anywhere, or one element.
LEMMA SpliceMade ==
  ASSUME NEW s \in Seq(Elem), NEW u \in Slice, NEW k \in 0 .. Len(s), Len(s) + 2 <= MaxLen
  PROVE  Made(s, Splice(s, k, u))
<1>1. u \in Seq(Elem) /\ Len(u) = 2
  BY SliceSeq
<1>2. Splice(s, k, u) \in Seq(Elem) /\ Len(Splice(s, k, u)) <= MaxLen
  BY <1>1, SpliceSeq
<1>3. PICK j : j = k + 1
  OBVIOUS
<1>4. j \in 1 .. Len(s) + 1 /\ j - 1 = k
  BY <1>3, LenProperties
<1>5. Abstract!Before(s, j) \o u \o Abstract!From(s, j) = Splice(s, k, u)
  BY <1>3, <1>4 DEF Splice, Abstract!Before, Abstract!From
<1>6. Splice(s, k, u) \in Abstract!Spliced(s)
  <2>1. Abstract!SpliceAt(s, j, u) = Splice(s, k, u)
    BY <1>5 DEF Abstract!SpliceAt
  <2>2. Abstract!SpliceAt(s, j, u) \in Abstract!Spliced(s)
    BY <1>4 DEF Abstract!Spliced
  <2>3. QED
    BY <2>1, <2>2
<1>7. QED
  BY <1>2, <1>6 DEF Made, Changed

LEMMA InsertMade ==
  ASSUME NEW s \in Seq(Elem), NEW x \in Elem, NEW k \in 0 .. Len(s), Len(s) < MaxLen
  PROVE  Made(s, InsertAt(s, k + 1, x))
<1>1. PICK n \in Nat : n = Len(s)
  BY LenProperties
<1>2. PICK u : u = <<x>>
  OBVIOUS
<1>3. u \in Seq(Elem) /\ Len(u) = 1
  BY <1>2
<1>4. PICK j : j = k + 1
  OBVIOUS
<1>5. j \in 1 .. Len(s) + 1 /\ j - 1 = k
  BY <1>1, <1>4
<1>6. InsertAt(s, j, x) = Splice(s, k, u)
  BY <1>2, <1>4, <1>5 DEF InsertAt, Splice
<1>7. Splice(s, k, u) \in Seq(Elem) /\ Len(Splice(s, k, u)) = n + 1
  BY <1>1, <1>3, SpliceSeq
<1>8. n + 1 <= MaxLen
  BY <1>1, ListPoolAssumption
<1>9. InsertAt(s, j, x) \in Abstract!Inserted(s)
  <2>1. Abstract!InsertAt(s, j, x) = InsertAt(s, j, x)
    BY DEF Abstract!InsertAt, InsertAt
  <2>2. Abstract!InsertAt(s, j, x) \in Abstract!Inserted(s)
    BY <1>5 DEF Abstract!Inserted
  <2>3. QED
    BY <2>1, <2>2
<1>10. QED
  BY <1>4, <1>6, <1>7, <1>8, <1>9 DEF Made, Changed

\* At the end nothing follows.
LEMMA SpliceLast ==
  ASSUME NEW s \in Seq(Elem), NEW u \in Seq(Elem)
  PROVE  Splice(s, Len(s), u) = s \o u
<1>1. PICK n \in Nat : n = Len(s)
  BY LenProperties
<1>2. SubSeq(s, 1, n) = s
  BY <1>1, SubSeqFull
<1>3. SubSeq(s, n + 1, n) = <<>>
  <2>1. n + 1 \in Int /\ n \in Int /\ n < n + 1
    OBVIOUS
  <2>2. QED
    BY <2>1, SubSeqEmpty
<1>4. s \o u \in Seq(Elem)
  BY ConcatProperties
<1>5. (s \o u) \o <<>> = s \o u
  BY <1>4, ConcatEmptySeq
<1>6. QED
  BY <1>1, <1>2, <1>3, <1>5 DEF Splice

LEMMA ExtendMade ==
  ASSUME NEW s \in Seq(Elem), NEW u \in Slice, Len(s) + 2 <= MaxLen
  PROVE  Made(s, s \o u)
<1>1. Len(s) \in 0 .. Len(s) /\ u \in Seq(Elem)
  BY LenProperties, SliceSeq
<1>2. Made(s, Splice(s, Len(s), u))
  BY <1>1, SpliceMade
<1>3. QED
  BY <1>1, <1>2, SpliceLast

LEMMA PushMade ==
  ASSUME NEW s \in Seq(Elem), NEW x \in Elem, Len(s) < MaxLen
  PROVE  Made(s, Append(s, x))
<1>1. PICK n \in Nat : n = Len(s)
  BY LenProperties
<1>2. PICK u : u = <<x>>
  OBVIOUS
<1>3. u \in Seq(Elem) /\ n \in 0 .. Len(s) /\ (n + 1) - 1 = n
  BY <1>1, <1>2
<1>4. Splice(s, n, u) = s \o u
  BY <1>1, <1>3, SpliceLast
<1>5. InsertAt(s, n + 1, x) = Splice(s, n, u)
  BY <1>2, <1>3 DEF InsertAt, Splice
<1>6. s \o u = Append(s, x)
  BY <1>2, AppendIsConcat
<1>7. Made(s, InsertAt(s, n + 1, x))
  BY <1>3, InsertMade
<1>8. QED
  BY <1>4, <1>5, <1>6, <1>7

\* An element replaced.
LEMMA AssignMade ==
  ASSUME NEW s \in Seq(Elem), NEW x \in Elem, NEW k \in 0 .. Len(s) - 1, Len(s) <= MaxLen
  PROVE  Made(s, ReplaceAt(s, k + 1, x))
<1>1. PICK j : j = k + 1
  OBVIOUS
<1>2. j \in 1 .. Len(s) /\ DOMAIN s = 1 .. Len(s)
  BY <1>1, LenProperties
<1>3. ReplaceAt(s, j, x) \in Seq(Elem) /\ Len(ReplaceAt(s, j, x)) = Len(s)
  BY <1>2, ExceptSeq DEF ReplaceAt
<1>4. ReplaceAt(s, j, x) \in Abstract!Assigned(s)
  <2>1. Abstract!ReplaceAt(s, j, x) = ReplaceAt(s, j, x)
    BY DEF Abstract!ReplaceAt, ReplaceAt
  <2>2. Abstract!ReplaceAt(s, j, x) \in Abstract!Assigned(s)
    BY <1>2 DEF Abstract!Assigned
  <2>3. QED
    BY <2>1, <2>2
<1>5. QED
  BY <1>1, <1>3, <1>4 DEF Made, Changed

\* An element removed, and the others moved up or the last one put there.
LEMMA RemoveMade ==
  ASSUME NEW s \in Seq(Elem), NEW k \in 0 .. Len(s) - 1, Len(s) <= MaxLen
  PROVE  Made(s, SubSeq(s, 1, k) \o SubSeq(s, (k + 1) + 1, Len(s)))
<1>1. PICK n \in Nat : n = Len(s)
  BY LenProperties
<1>2. PICK j : j = k + 1
  OBVIOUS
<1>3. k \in 0 .. Len(s) /\ j \in 0 .. Len(s) /\ j - 1 = k /\ j \in 1 .. Len(s)
  BY <1>1, <1>2
<1>4. PICK a, b : a = SubSeq(s, 1, k) /\ b = SubSeq(s, j + 1, Len(s))
  OBVIOUS
<1>5. a \in Seq(Elem) /\ Len(a) = k
  BY <1>3, <1>4, Halves
<1>6. b \in Seq(Elem) /\ Len(b) = n - j
  BY <1>1, <1>3, <1>4, Halves
<1>7. a \o b \in Seq(Elem) /\ Len(a \o b) = k + (n - j)
  BY <1>5, <1>6, ConcatProperties
<1>8. k + (n - j) <= MaxLen
  BY <1>1, <1>2, <1>3, ListPoolAssumption
<1>9. j \in DOMAIN s
  BY <1>3, LenProperties
<1>10. a \o b = RemoveAt(s, j)
  BY <1>3, <1>4 DEF RemoveAt
<1>11. a \o b \in Abstract!Removed(s)
  BY <1>9, <1>10 DEF Abstract!Removed, Abstract!RemoveAt, RemoveAt
<1>12. QED
  BY <1>2, <1>4, <1>7, <1>8, <1>11 DEF Made, Changed

LEMMA SwapMade ==
  ASSUME NEW s \in Seq(Elem), NEW k \in 0 .. Len(s) - 1, Len(s) <= MaxLen
  PROVE  Made(s, Front(ReplaceAt(s, k + 1, Last(s))))
<1>1. PICK n \in Nat : n = Len(s) /\ n > 0
  BY LenProperties
<1>2. PICK j : j = k + 1
  OBVIOUS
<1>3. j \in 1 .. Len(s) /\ j \in DOMAIN s
  BY <1>1, <1>2, LenProperties
<1>4. PICK x \in Elem : x = Last(s)
  <2>1. n \in 1 .. Len(s)
    BY <1>1
  <2>2. s[n] \in Elem
    BY <2>1, ElementOfSeq
  <2>3. QED
    BY <1>1, <2>2 DEF Last
<1>5. PICK t : t = ReplaceAt(s, j, x)
  OBVIOUS
<1>6. t \in Seq(Elem) /\ Len(t) = n
  BY <1>1, <1>3, <1>5, ExceptSeq DEF ReplaceAt
<1>7. n - 1 \in 0 .. Len(t) /\ n - 1 <= MaxLen
  BY <1>1, <1>6, ListPoolAssumption
<1>8. SubSeq(t, 1, n - 1) \in Seq(Elem) /\ Len(SubSeq(t, 1, n - 1)) = n - 1
  BY <1>6, <1>7, Halves
<1>9. Front(t) = SubSeq(t, 1, n - 1)
  BY <1>6 DEF Front
<1>10. Front(t) \in Abstract!Swapped(s)
  BY <1>3, <1>4, <1>5 DEF Abstract!Swapped, Abstract!Front, Abstract!ReplaceAt, Abstract!Last,
                             Front, ReplaceAt, Last
<1>11. QED
  BY <1>2, <1>4, <1>5, <1>7, <1>8, <1>9, <1>10 DEF Made, Changed

\* Elements cut off at the end.
LEMMA TruncateMade ==
  ASSUME NEW s \in Seq(Elem), NEW k \in 0 .. Len(s), Len(s) <= MaxLen
  PROVE  Made(s, SubSeq(s, 1, k))
<1>1. PICK n \in Nat : n = Len(s)
  BY LenProperties
<1>2. PICK j : j = k + 1
  OBVIOUS
<1>3. j \in 1 .. Len(s) + 1 /\ j - 1 = k /\ k <= MaxLen
  BY <1>1, <1>2, ListPoolAssumption
<1>4. SubSeq(s, 1, k) = Abstract!Before(s, j)
  BY <1>3 DEF Abstract!Before
<1>5. SubSeq(s, 1, k) \in Abstract!Truncated(s)
  BY <1>3, <1>4 DEF Abstract!Truncated
<1>6. SubSeq(s, 1, k) \in Seq(Elem) /\ Len(SubSeq(s, 1, k)) = k
  BY Halves
<1>7. QED
  BY <1>3, <1>5, <1>6 DEF Made, Changed

LEMMA ClearMade ==
  ASSUME NEW s \in Seq(Elem), Len(s) <= MaxLen
  PROVE  Made(s, <<>>)
<1>1. 0 \in 0 .. Len(s)
  BY LenProperties
<1>2. Made(s, SubSeq(s, 1, 0))
  BY <1>1, TruncateMade
<1>3. SubSeq(s, 1, 0) = <<>>
  BY SubSeqEmpty
<1>4. QED
  BY <1>2, <1>3

-----------------------------------------------------------------------------
(* The operations, called through a handle.                                *)

\* What a handle of a sound pool is like.
LEMMA HandleIs ==
  ASSUME NEW p, NEW ix, Sound(p, ix), NEW h \in Handle, NEW i, NEW s, i = ix[h], s = as_slice(p, i)
  PROVE  /\ Good(p, Owning(p, ix)) /\ Listed(p, Owning(p, ix), i, s) /\ i \in Nat
         /\ s \in Seq(Elem) /\ Len(s) \in 0 .. MaxLen /\ len(p, i) = Len(s)
<1>1. Good(p, Owning(p, ix)) /\ Listed(p, Owning(p, ix), i, s) /\ s \in Seq(Elem) /\ Len(s) <= MaxLen
  BY DEF Sound
<1>2. len(p, i) = Len(s)
  BY <1>1, ListedReads
<1>3. Len(s) \in Nat
  BY <1>1, LenProperties
<1>4. Len(s) \in 0 .. MaxLen
  BY <1>1, <1>3, ListPoolAssumption
<1>5. i \in Nat
  BY <1>1 DEF Listed
<1>6. QED
  BY <1>1, <1>2, <1>4, <1>5

\* truncate
LEMMA TruncateActs ==
  ASSUME NEW p, NEW ix, Sound(p, ix), NEW h \in Handle, NEW i, NEW s, i = ix[h], s = as_slice(p, i),
         NEW n \in 0 .. MaxLen
  PROVE  Acts(p, ix, h, truncate(p, i, n), SubSeq(s, 1, IF n < Len(s) THEN n ELSE Len(s)))
<1>1. PICK O : O = Owning(p, ix)
  OBVIOUS
<1>2. Good(p, O) /\ Listed(p, O, i, s)
  BY <1>1, HandleIs
<1>3. Turns(p, O, i, s, truncate(p, i, n), SubSeq(s, 1, IF n < Len(s) THEN n ELSE Len(s)))
  BY <1>2, TruncateTurns
<1>4. QED
  BY <1>1, <1>3 DEF Acts

\* clear
LEMMA ClearActs ==
  ASSUME NEW p, NEW ix, Sound(p, ix), NEW h \in Handle, NEW i, NEW s, i = ix[h], s = as_slice(p, i)
  PROVE  Acts(p, ix, h, clear(p, i), <<>>)
<1>1. PICK O : O = Owning(p, ix)
  OBVIOUS
<1>2. Good(p, O) /\ Listed(p, O, i, s)
  BY <1>1, HandleIs
<1>3. Turns(p, O, i, s, clear(p, i), <<>>)
  BY <1>2, ClearTurns
<1>4. QED
  BY <1>1, <1>3 DEF Acts

\* push
LEMMA PushActs ==
  ASSUME NEW p, NEW ix, Sound(p, ix), NEW h \in Handle, NEW i, NEW s, i = ix[h], s = as_slice(p, i),
         NEW x \in Elem
  PROVE  Acts(p, ix, h, push(p, i, x), Append(s, x))
<1>1. PICK O : O = Owning(p, ix)
  OBVIOUS
<1>2. Good(p, O) /\ Listed(p, O, i, s)
  BY <1>1, HandleIs
<1>3. Len(s) <= MaxLen + 1
  BY HandleIs, ListPoolAssumption
<1>4. Turns(p, O, i, s, push(p, i, x), Append(s, x))
  BY <1>2, <1>3, PushTurns
<1>5. QED
  BY <1>1, <1>4 DEF Acts

\* insert
LEMMA InsertActs ==
  ASSUME NEW p, NEW ix, Sound(p, ix), NEW h \in Handle, NEW i, NEW s, i = ix[h], s = as_slice(p, i),
         NEW x \in Elem, NEW k \in 0 .. Len(s)
  PROVE  Acts(p, ix, h, insert(p, i, k, x), InsertAt(s, k + 1, x))
<1>1. PICK O : O = Owning(p, ix)
  OBVIOUS
<1>2. Good(p, O) /\ Listed(p, O, i, s)
  BY <1>1, HandleIs
<1>3. Len(s) <= MaxLen + 1
  BY HandleIs, ListPoolAssumption
<1>4. Turns(p, O, i, s, insert(p, i, k, x), InsertAt(s, k + 1, x))
  BY <1>2, <1>3, InsertTurns
<1>5. QED
  BY <1>1, <1>4 DEF Acts

\* remove
LEMMA RemoveActs ==
  ASSUME NEW p, NEW ix, Sound(p, ix), NEW h \in Handle, NEW i, NEW s, i = ix[h], s = as_slice(p, i),
         NEW k \in 0 .. Len(s) - 1
  PROVE  Acts(p, ix, h, remove(p, i, k), SubSeq(s, 1, k) \o SubSeq(s, (k + 1) + 1, Len(s)))
<1>1. PICK O : O = Owning(p, ix)
  OBVIOUS
<1>2. Good(p, O) /\ Listed(p, O, i, s)
  BY <1>1, HandleIs
<1>3. Len(s) <= MaxLen + 2
  BY HandleIs, ListPoolAssumption
<1>4. Turns(p, O, i, s, remove(p, i, k), SubSeq(s, 1, k) \o SubSeq(s, (k + 1) + 1, Len(s)))
  BY <1>2, <1>3, RemoveTurns
<1>5. QED
  BY <1>1, <1>4 DEF Acts

\* swap_remove
LEMMA SwapRemoveActs ==
  ASSUME NEW p, NEW ix, Sound(p, ix), NEW h \in Handle, NEW i, NEW s, i = ix[h], s = as_slice(p, i),
         NEW k \in 0 .. Len(s) - 1
  PROVE  Acts(p, ix, h, swap_remove(p, i, k), Front(ReplaceAt(s, k + 1, Last(s))))
<1>1. PICK O : O = Owning(p, ix)
  OBVIOUS
<1>2. Good(p, O) /\ Listed(p, O, i, s)
  BY <1>1, HandleIs
<1>3. Len(s) <= MaxLen + 2
  BY HandleIs, ListPoolAssumption
<1>4. Turns(p, O, i, s, swap_remove(p, i, k), Front(ReplaceAt(s, k + 1, Last(s))))
  BY <1>2, <1>3, SwapRemoveTurns
<1>5. QED
  BY <1>1, <1>4 DEF Acts

\* extend
LEMMA ExtendActs ==
  ASSUME NEW p, NEW ix, Sound(p, ix), NEW h \in Handle, NEW i, NEW s, i = ix[h], s = as_slice(p, i),
         NEW u \in Slice
  PROVE  Acts(p, ix, h, extend(p, i, u), s \o u)
<1>1. PICK O : O = Owning(p, ix)
  OBVIOUS
<1>2. Good(p, O) /\ Listed(p, O, i, s)
  BY <1>1, HandleIs
<1>3. u \in Seq(Elem) /\ Len(u) = 2
  BY SliceSeq
<1>4. Len(s) + Len(u) <= MaxLen + 2 /\ Len(u) > 0
  BY <1>3, HandleIs, ListPoolAssumption
<1>5. Turns(p, O, i, s, extend(p, i, u), s \o u)
  BY <1>2, <1>3, <1>4, ExtendTurns
<1>6. QED
  BY <1>1, <1>5 DEF Acts

\* grow_at, and the gap is filled
LEMMA GrowAtActs ==
  ASSUME NEW p, NEW ix, Sound(p, ix), NEW h \in Handle, NEW i, NEW s, i = ix[h], s = as_slice(p, i),
         NEW u \in Slice, NEW k \in 0 .. Len(s), NEW g, g = grow_at(p, i, k, Len(u))
  PROVE  Acts(p, ix, h, Result(Write(g.pool, g.idx + k, u), g.idx), Splice(s, k, u))
<1>1. PICK O : O = Owning(p, ix)
  OBVIOUS
<1>2. Good(p, O) /\ Listed(p, O, i, s)
  BY <1>1, HandleIs
<1>3. u \in Seq(Elem) /\ Len(u) = 2
  BY SliceSeq
<1>4. Len(s) + Len(u) <= MaxLen + 2 /\ Len(u) > 0
  BY <1>3, HandleIs, ListPoolAssumption
<1>5. Turns(p, O, i, s, Result(Write(g.pool, g.idx + k, u), g.idx), Splice(s, k, u))
  BY <1>2, <1>3, <1>4, GrowAtTurns
<1>6. QED
  BY <1>1, <1>5 DEF Acts

\* as_mut_slice, get_mut
LEMMA AssignActs ==
  ASSUME NEW p, NEW ix, Sound(p, ix), NEW h \in Handle, NEW i, NEW s, i = ix[h], s = as_slice(p, i),
         NEW k \in 0 .. Len(s) - 1, NEW x \in Elem
  PROVE  Acts(p, ix, h, Result(Write(p, i + k, <<x>>), i), ReplaceAt(s, k + 1, x))
<1>1. PICK O : O = Owning(p, ix)
  OBVIOUS
<1>2. Good(p, O) /\ Listed(p, O, i, s)
  BY <1>1, HandleIs
<1>3. Turns(p, O, i, s, Result(Write(p, i + k, <<x>>), i), ReplaceAt(s, k + 1, x))
  BY <1>2, AssignTurns
<1>4. QED
  BY <1>1, <1>3 DEF Acts

\* from_slice, by an empty handle
LEMMA FromSliceActs ==
  ASSUME NEW p, NEW ix, Sound(p, ix), NEW h \in Handle, ix[h] = 0,
         NEW u \in Seq(Elem), Len(u) <= MaxLen
  PROVE  Acts(p, ix, h, from_slice(p, u), u) /\ as_slice(p, ix[h]) = <<>>
<1>1. PICK O, i, s : O = Owning(p, ix) /\ i = ix[h] /\ s = as_slice(p, i)
  OBVIOUS
<1>2. Good(p, O) /\ Listed(p, O, i, s) /\ i = 0 /\ s \in Seq(Elem)
  BY <1>1, HandleIs
<1>3. u \in Seq(Words(p))
  <2>1. Elem \subseteq Words(p)
    BY DEF Words
  <2>2. QED
    BY <2>1, SeqMonotonic
<1>4. Len(u) <= MaxLen + 2
  BY LenProperties, ListPoolAssumption
<1>5. Listed(p, O, 0, s)
  BY <1>2
<1>6. Turns(p, O, 0, s, from_slice(p, u), u)
  BY <1>2, <1>3, <1>4, <1>5, FromSliceTurns
<1>7. s = <<>>
  <2>1. Len(s) = 0
    BY <1>2 DEF Listed
  <2>2. QED
    BY <1>2, <2>1, EmptySeq
<1>8. QED
  BY <1>1, <1>2, <1>6, <1>7 DEF Acts

\* A pool without words, and handles without lists.
LEMMA EmptySound ==
  ASSUME NEW p, p = [data |-> [w \in {} |-> Reserved], free |-> [c \in Class |-> 0]],
         NEW ix, ix = [h \in Handle |-> 0]
  PROVE  Sound(p, ix) /\ \A h \in Handle : as_slice(p, ix[h]) = <<>>
<1>1. size(p) = 0
  <2>1. DOMAIN p.data = 0 .. 0 - 1
    OBVIOUS
  <2>2. QED
    BY <2>1, SizeIs
<1>2. PICK K, G : K = [c \in Class |-> 0] /\ G = [c \in Class |-> [n \in Nat |-> 0]]
  OBVIOUS
<1>3. Shape(p)
  <2>1. p.data \in [0 .. size(p) - 1 -> Words(p)] /\ p.free \in [Class -> Nat]
    BY <1>1
  <2>2. p = [data |-> p.data, free |-> p.free]
    OBVIOUS
  <2>3. QED
    BY <1>1, <2>1, <2>2 DEF Shape
<1>4. Tiling(0, {})
  BY DEF Tiling
<1>5. FreeLists(p, {}, K, G)
  <2>1. K \in [Class -> Nat] /\ G \in [Class -> [Nat -> Nat]] /\ \A c \in Class : K[c] = 0
    BY <1>2
  <2>2. \A c \in Class : p.free[c] = 0 /\ 1 .. K[c] = {}
    BY <2>1
  <2>3. QED
    BY <2>1, <2>2 DEF FreeLists
<1>6. Good(p, {})
  <2>1. Tiled(p, {}, {}, K, G)
    BY <1>1, <1>3, <1>4, <1>5 DEF Tiled
  <2>2. QED
    BY <2>1 DEF Good
<1>7. PICK e : e = <<>>
  OBVIOUS
<1>8. Listed(p, {}, 0, e) /\ BlockOf(0, Len(e)) = {} /\ e \in Seq(Elem) /\ Len(e) = 0
  BY <1>7, EmptyListed
<1>9. as_slice(p, 0) = e
  BY <1>6, <1>8, ListedReads
<1>10. \A h \in Handle : ix[h] = 0 /\ as_slice(p, ix[h]) = e
  BY <1>9
<1>11. Owning(p, ix) = {}
  BY <1>8, <1>10 DEF Owning
<1>12. Sound(p, ix)
  <2>1. ix \in [Handle -> Nat] /\ 0 <= MaxWords /\ 0 <= MaxLen
    BY ListPoolAssumption
  <2>2. QED
    BY <1>1, <1>6, <1>8, <1>10, <1>11, <2>1 DEF Sound
<1>13. QED
  BY <1>7, <1>10, <1>12

\* The list of g went to h, which had none.
Taken(p, ix, jx, h, g) ==
  /\ Sound(p, jx) /\ as_slice(p, jx[h]) = as_slice(p, ix[g])
  /\ as_slice(p, ix[h]) = <<>> /\ as_slice(p, jx[g]) = <<>>
  /\ \A f \in Handle \ {g, h} : jx[f] = ix[f]

\* A list that goes from one handle to another.
LEMMA TakeSound ==
  ASSUME NEW p, NEW ix, Sound(p, ix), NEW h \in Handle, NEW g \in Handle, g # h, ix[h] = 0,
         NEW jx, jx = [ix EXCEPT ![h] = ix[g], ![g] = 0]
  PROVE  Taken(p, ix, jx, h, g)
<1>1. PICK O : O = Owning(p, ix)
  OBVIOUS
<1>2. /\ ix \in [Handle -> Nat] /\ Good(p, O) /\ size(p) <= MaxWords
      /\ \A f \in Handle : /\ Listed(p, O, ix[f], as_slice(p, ix[f]))
                           /\ as_slice(p, ix[f]) \in Seq(Elem) /\ Len(as_slice(p, ix[f])) <= MaxLen
      /\ \A f, e \in Handle : ix[f] = ix[e] => f = e \/ ix[f] = 0
  BY <1>1 DEF Sound
<1>3. /\ jx \in [Handle -> Nat] /\ jx[h] = ix[g] /\ jx[g] = ix[h] /\ ix[h] = 0
      /\ \A f \in Handle \ {g, h} : jx[f] = ix[f]
  BY <1>2
<1>4. PICK turn : turn = [f \in Handle |-> IF f = h THEN g ELSE IF f = g THEN h ELSE f]
  OBVIOUS
<1>5. \A f \in Handle : turn[f] \in Handle /\ turn[turn[f]] = f /\ jx[f] = ix[turn[f]]
  BY <1>3, <1>4
<1>6. Owning(p, jx) = O
  <2>1. ASSUME NEW x \in Owning(p, jx) PROVE x \in O
    <3>1. PICK f \in Handle : x \in BlockOf(jx[f], Len(as_slice(p, jx[f])))
      BY DEF Owning
    <3>2. turn[f] \in Handle /\ x \in BlockOf(ix[turn[f]], Len(as_slice(p, ix[turn[f]])))
      BY <1>5, <3>1
    <3>3. QED
      BY <1>1, <3>2 DEF Owning
  <2>2. ASSUME NEW x \in O PROVE x \in Owning(p, jx)
    <3>1. PICK f \in Handle : x \in BlockOf(ix[f], Len(as_slice(p, ix[f])))
      BY <1>1 DEF Owning
    <3>2. PICK e \in Handle : jx[e] = ix[f]
      <4>1. turn[f] \in Handle /\ turn[turn[f]] = f /\ jx[turn[f]] = ix[turn[turn[f]]]
        BY <1>5
      <4>2. QED
        BY <4>1
    <3>3. x \in BlockOf(jx[e], Len(as_slice(p, jx[e])))
      BY <3>1, <3>2
    <3>4. QED
      BY <3>3 DEF Owning
  <2>3. QED
    BY <2>1, <2>2
<1>7. \A f \in Handle : /\ Listed(p, O, jx[f], as_slice(p, jx[f]))
                        /\ as_slice(p, jx[f]) \in Seq(Elem) /\ Len(as_slice(p, jx[f])) <= MaxLen
  BY <1>2, <1>5
<1>8. \A f, e \in Handle : jx[f] = jx[e] => f = e \/ jx[f] = 0
  BY <1>2, <1>5
<1>9. Sound(p, jx)
  BY <1>2, <1>3, <1>6, <1>7, <1>8 DEF Sound
<1>10. as_slice(p, 0) = <<>>
  <2>1. Listed(p, O, 0, <<>>)
    BY EmptyListed
  <2>2. QED
    BY <1>2, <2>1, ListedReads
<1>11. QED
  BY <1>3, <1>9, <1>10 DEF Taken

-----------------------------------------------------------------------------
(* The steps.                                                              *)

\* What the pool and its handles hold together, as the invariant of all steps.
PoolInv == Sound(pool, index)

\* A call on h makes t of its list.
Steps(h, r, t) ==
  Call(h, r) /\ Acts(pool, index, h, r, t) /\ t \in Seq(Elem) /\ Len(t) <= MaxLen

\* The state after a call.
LEMMA StepMakes ==
  ASSUME PoolInv, NEW h \in Handle, NEW r, NEW t, Steps(h, r, t)
  PROVE  PoolInv' /\ elems(h)' = t /\ \A g \in Handle \ {h} : elems(g)' = elems(g)
<1>1. PICK p, ix, O : p = pool /\ ix = index /\ O = Owning(p, ix)
  OBVIOUS
<1>2. /\ Sound(p, ix) /\ Acts(p, ix, h, r, t) /\ t \in Seq(Elem) /\ Len(t) <= MaxLen
      /\ size(r.pool) <= MaxWords /\ data' = r.pool.data /\ free' = r.pool.free
      /\ index' = [ix EXCEPT ![h] = r.idx]
  BY <1>1 DEF PoolInv, Steps, Call
<1>3. PICK Now : Good(r.pool, Now)
  BY <1>2 DEF Acts, Turns
<1>4. r.pool = [data |-> r.pool.data, free |-> r.pool.free]
  BY <1>3, GoodShape DEF Shape
<1>5. pool' = r.pool
  BY <1>2, <1>4 DEF pool
<1>6. PICK jx : jx = [ix EXCEPT ![h] = r.idx]
  OBVIOUS
<1>7. Sound(r.pool, jx)
  BY <1>2, <1>6, CallSound
<1>8. as_slice(r.pool, r.idx) = t /\ \A g \in Handle \ {h} : as_slice(r.pool, ix[g]) = as_slice(p, ix[g])
  BY <1>2, CallMakes
<1>9. ix \in [Handle -> Nat]
  BY <1>2 DEF Sound
<1>10. jx[h] = r.idx /\ \A g \in Handle \ {h} : jx[g] = ix[g]
  BY <1>6, <1>9
<1>11. index' = jx
  BY <1>2, <1>6
<1>12. PoolInv'
  BY <1>5, <1>7, <1>11 DEF PoolInv
<1>13. elems(h)' = t
  BY <1>5, <1>8, <1>10, <1>11 DEF elems
<1>14. \A g \in Handle \ {h} : elems(g)' = elems(g)
  BY <1>1, <1>5, <1>8, <1>10, <1>11 DEF elems
<1>15. QED
  BY <1>12, <1>13, <1>14

\* A call that makes of a list what an operation of lists makes.
Changes(h) == \E r, t : Steps(h, r, t) /\ t \in Changed(elems(h))

LEMMA MadeChanges ==
  ASSUME PoolInv, NEW h \in Handle, NEW r, NEW t, Call(h, r), Acts(pool, index, h, r, t),
         Made(elems(h), t)
  PROVE  Changes(h)
BY DEF Changes, Steps, Made

\* Every operation that changes a list is such a call.
LEMMA ChangesList ==
  ASSUME PoolInv, NEW h \in Handle,
         \/ Push(h) \/ Clear(h) \/ Truncate(h) \/ Insert(h) \/ Delete(h) \/ SwapRemove(h)
         \/ Extend(h) \/ GrowAt(h) \/ Assign(h) \/ FromSlice(h)
  PROVE  Changes(h)
<1>1. PICK p, ix, i, s : p = pool /\ ix = index /\ i = ix[h] /\ s = elems(h)
  OBVIOUS
<1>2. Sound(p, ix) /\ s = as_slice(p, i)
  BY <1>1 DEF PoolInv, elems
<1>3. s \in Seq(Elem) /\ Len(s) \in 0 .. MaxLen /\ len(p, i) = Len(s) /\ Len(s) <= MaxLen
  BY <1>1, <1>2, HandleIs
<1>4. CASE Push(h)
  <2>1. PICK x \in Elem : Len(s) < MaxLen /\ Call(h, push(p, i, x))
    BY <1>1, <1>3, <1>4 DEF Push
  <2>2. Acts(p, ix, h, push(p, i, x), Append(s, x))
    BY <1>1, <1>2, PushActs
  <2>3. Made(s, Append(s, x))
    BY <1>3, <2>1, PushMade
  <2>4. QED
    BY <1>1, <2>1, <2>2, <2>3, MadeChanges
<1>5. CASE Clear(h)
  <2>1. Call(h, clear(p, i))
    BY <1>1, <1>5 DEF Clear
  <2>2. Acts(p, ix, h, clear(p, i), <<>>)
    BY <1>1, <1>2, ClearActs
  <2>3. Made(s, <<>>)
    BY <1>3, ClearMade
  <2>4. QED
    BY <1>1, <2>1, <2>2, <2>3, MadeChanges
<1>6. CASE Truncate(h)
  <2>1. PICK n \in 0 .. MaxLen : Call(h, truncate(p, i, n))
    BY <1>1, <1>6 DEF Truncate
  <2>2. PICK k : k = IF n < Len(s) THEN n ELSE Len(s)
    OBVIOUS
  <2>3. Acts(p, ix, h, truncate(p, i, n), SubSeq(s, 1, k))
    BY <1>1, <1>2, <2>2, TruncateActs
  <2>4. k \in 0 .. Len(s)
    BY <1>3, <2>2
  <2>5. Made(s, SubSeq(s, 1, k))
    BY <1>3, <2>4, TruncateMade
  <2>6. QED
    BY <1>1, <2>1, <2>3, <2>5, MadeChanges
<1>7. CASE Insert(h)
  <2>1. PICK k \in 0 .. Len(s), x \in Elem : Len(s) < MaxLen /\ Call(h, insert(p, i, k, x))
    BY <1>1, <1>3, <1>7 DEF Insert
  <2>2. Acts(p, ix, h, insert(p, i, k, x), InsertAt(s, k + 1, x))
    BY <1>1, <1>2, InsertActs
  <2>3. Made(s, InsertAt(s, k + 1, x))
    BY <1>3, <2>1, InsertMade
  <2>4. QED
    BY <1>1, <2>1, <2>2, <2>3, MadeChanges
<1>8. CASE Delete(h)
  <2>1. PICK k \in 0 .. Len(s) - 1 : Call(h, remove(p, i, k))
    BY <1>1, <1>3, <1>8 DEF Delete
  <2>2. PICK t : t = SubSeq(s, 1, k) \o SubSeq(s, (k + 1) + 1, Len(s))
    OBVIOUS
  <2>3. Acts(p, ix, h, remove(p, i, k), t)
    BY <1>1, <1>2, <2>2, RemoveActs
  <2>4. Made(s, t)
    BY <1>3, <2>2, RemoveMade
  <2>5. QED
    BY <1>1, <2>1, <2>3, <2>4, MadeChanges
<1>9. CASE SwapRemove(h)
  <2>1. PICK k \in 0 .. Len(s) - 1 : Call(h, swap_remove(p, i, k))
    BY <1>1, <1>3, <1>9 DEF SwapRemove
  <2>2. PICK t : t = Front(ReplaceAt(s, k + 1, Last(s)))
    OBVIOUS
  <2>3. Acts(p, ix, h, swap_remove(p, i, k), t)
    BY <1>1, <1>2, <2>2, SwapRemoveActs
  <2>4. Made(s, t)
    BY <1>3, <2>2, SwapMade
  <2>5. QED
    BY <1>1, <2>1, <2>3, <2>4, MadeChanges
<1>10. CASE Extend(h)
  <2>1. PICK u \in Slice : Len(s) + Len(u) <= MaxLen /\ Call(h, extend(p, i, u))
    BY <1>1, <1>3, <1>10 DEF Extend
  <2>2. Len(s) + 2 <= MaxLen
    BY <2>1, SliceSeq
  <2>3. Acts(p, ix, h, extend(p, i, u), s \o u)
    BY <1>1, <1>2, ExtendActs
  <2>4. Made(s, s \o u)
    BY <1>3, <2>2, ExtendMade
  <2>5. QED
    BY <1>1, <2>1, <2>3, <2>4, MadeChanges
<1>11. CASE GrowAt(h)
  <2>1. PICK u \in Slice, k \in 0 .. Len(s) :
          /\ Len(s) + Len(u) <= MaxLen
          /\ LET g == grow_at(p, i, k, Len(u))
             IN  Call(h, Result(Write(g.pool, g.idx + k, u), g.idx))
    BY <1>1, <1>3, <1>11 DEF GrowAt
  <2>2. PICK g : g = grow_at(p, i, k, Len(u))
    OBVIOUS
  <2>3. PICK r : r = Result(Write(g.pool, g.idx + k, u), g.idx)
    OBVIOUS
  <2>4. Call(h, r)
    BY <2>1, <2>2, <2>3
  <2>5. Len(s) + 2 <= MaxLen
    BY <2>1, SliceSeq
  <2>6. Acts(p, ix, h, r, Splice(s, k, u))
    BY <1>1, <1>2, <2>2, <2>3, GrowAtActs
  <2>7. Made(s, Splice(s, k, u))
    BY <1>3, <2>5, SpliceMade
  <2>8. QED
    BY <1>1, <2>4, <2>6, <2>7, MadeChanges
<1>12. CASE Assign(h)
  <2>1. PICK k \in 0 .. Len(s) - 1, x \in Elem : Call(h, Result(Write(p, i + k, <<x>>), i))
    BY <1>1, <1>3, <1>12 DEF Assign
  <2>2. Acts(p, ix, h, Result(Write(p, i + k, <<x>>), i), ReplaceAt(s, k + 1, x))
    BY <1>1, <1>2, AssignActs
  <2>3. Made(s, ReplaceAt(s, k + 1, x))
    BY <1>3, AssignMade
  <2>4. QED
    BY <1>1, <2>1, <2>2, <2>3, MadeChanges
<1>13. CASE FromSlice(h)
  <2>1. PICK u \in Slice : i = 0 /\ Len(u) <= MaxLen /\ Call(h, from_slice(p, u))
    BY <1>1, <1>13 DEF FromSlice
  <2>2. u \in Seq(Elem) /\ Len(u) = 2
    BY SliceSeq
  <2>3. Acts(p, ix, h, from_slice(p, u), u) /\ s = <<>>
    BY <1>1, <1>2, <2>1, <2>2, FromSliceActs
  <2>4. Len(s) + 2 <= MaxLen
    BY <2>1, <2>2, <2>3, EmptySeq
  <2>5. s \o u = u
    BY <2>2, <2>3, ConcatEmptySeq
  <2>6. Made(s, s \o u)
    BY <1>3, <2>4, ExtendMade
  <2>7. QED
    BY <1>1, <2>1, <2>3, <2>5, <2>6, MadeChanges
<1>14. QED
  BY <1>4, <1>5, <1>6, <1>7, <1>8, <1>9, <1>10, <1>11, <1>12, <1>13

\* deep_clone, by an empty handle
LEMMA ClonesList ==
  ASSUME PoolInv, NEW h \in Handle, DeepClone(h)
  PROVE  \E g \in Handle : \E r : Steps(h, r, elems(g)) /\ elems(h) = <<>>
<1>1. PICK g \in Handle : index[h] = 0 /\ Call(h, deep_clone(pool, index[g]))
  BY DEF DeepClone
<1>2. PICK p, ix, u, r : p = pool /\ ix = index /\ u = as_slice(p, ix[g]) /\ r = deep_clone(p, ix[g])
  OBVIOUS
<1>3. Sound(p, ix) /\ ix[h] = 0
  BY <1>1, <1>2 DEF PoolInv
<1>4. u \in Seq(Elem) /\ Len(u) <= MaxLen
  BY <1>2, <1>3 DEF Sound
<1>5. r = from_slice(p, u)
  BY <1>2 DEF deep_clone
<1>6. Acts(p, ix, h, from_slice(p, u), u) /\ as_slice(p, ix[h]) = <<>>
  BY <1>3, <1>4, FromSliceActs
<1>7. elems(g) = u /\ elems(h) = <<>>
  BY <1>2, <1>6 DEF elems
<1>8. Steps(h, r, u)
  BY <1>1, <1>2, <1>4, <1>5, <1>6 DEF Steps
<1>9. QED
  BY <1>7, <1>8

\* A list taken by an empty handle.
LEMMA TakesList ==
  ASSUME PoolInv, NEW h \in Handle, Take(h)
  PROVE  /\ PoolInv'
         /\ \E g \in Handle \ {h} : /\ elems(h) = <<>> /\ elems(h)' = elems(g) /\ elems(g)' = <<>>
                                    /\ \A f \in Handle \ {g, h} : elems(f)' = elems(f)
<1>1. PICK g \in Handle \ {h} :
        /\ index[h] = 0
        /\ index' = [index EXCEPT ![h] = index[g], ![g] = 0] /\ UNCHANGED <<data, free>>
  BY DEF Take
<1>2. PICK p, ix, jx : p = pool /\ ix = index /\ jx = [ix EXCEPT ![h] = ix[g], ![g] = 0]
  OBVIOUS
<1>3. pool' = p /\ index' = jx
  BY <1>1, <1>2 DEF pool
<1>4. Sound(p, ix) /\ g \in Handle /\ g # h /\ ix[h] = 0 /\ jx = [ix EXCEPT ![h] = ix[g], ![g] = 0]
  BY <1>1, <1>2 DEF PoolInv
<1>5. Taken(p, ix, jx, h, g)
  BY <1>4, TakeSound
<1>6. PoolInv'
  BY <1>3, <1>5 DEF Taken, PoolInv
<1>7. /\ elems(h) = <<>> /\ elems(h)' = elems(g) /\ elems(g)' = <<>>
      /\ \A f \in Handle \ {g, h} : elems(f)' = elems(f)
  BY <1>2, <1>3, <1>5 DEF Taken, elems
<1>8. QED
  BY <1>6, <1>7

\* The pool at first, and after ListPool::clear.
LEMMA ClearsPool ==
  ASSUME ClearPool
  PROVE  PoolInv' /\ \A h \in Handle : elems(h)' = <<>>
<1>1. PICK p, ix : /\ p = [data |-> [w \in {} |-> Reserved], free |-> [c \in Class |-> 0]]
                   /\ ix = [h \in Handle |-> 0]
  OBVIOUS
<1>2. pool' = p /\ index' = ix
  BY <1>1 DEF ClearPool, pool
<1>3. Sound(p, ix) /\ \A h \in Handle : as_slice(p, ix[h]) = <<>>
  BY <1>1, EmptySound
<1>4. QED
  BY <1>2, <1>3 DEF PoolInv, elems

LEMMA StartsPool ==
  ASSUME PoolInit
  PROVE  PoolInv /\ \A h \in Handle : elems(h) = <<>>
<1>1. PICK p, ix : /\ p = [data |-> [w \in {} |-> Reserved], free |-> [c \in Class |-> 0]]
                   /\ ix = [h \in Handle |-> 0]
  OBVIOUS
<1>2. pool = p /\ index = ix
  BY <1>1 DEF PoolInit, pool
<1>3. Sound(p, ix) /\ \A h \in Handle : as_slice(p, ix[h]) = <<>>
  BY <1>1, EmptySound
<1>4. QED
  BY <1>2, <1>3 DEF PoolInv, elems

\* What a step can be.
PoolSteps ==
  \/ \A h \in Handle : elems(h)' = <<>>
  \/ \E h \in Handle : Changes(h)
  \/ \E h \in Handle, g \in Handle : \E r : Steps(h, r, elems(g)) /\ elems(h) = <<>>
  \/ \E h \in Handle, g \in Handle :
       /\ g # h /\ elems(h) = <<>> /\ elems(h)' = elems(g) /\ elems(g)' = <<>>
       /\ \A f \in Handle \ {g, h} : elems(f)' = elems(f)

LEMMA PoolStep ==
  ASSUME PoolInv, PoolNext
  PROVE  PoolInv' /\ PoolSteps
<1>1. CASE ClearPool
  BY <1>1, ClearsPool DEF PoolSteps
<1>2. ASSUME NEW h \in Handle,
             \/ Push(h) \/ Clear(h) \/ Truncate(h) \/ Insert(h) \/ Delete(h) \/ SwapRemove(h)
             \/ Extend(h) \/ GrowAt(h) \/ Assign(h) \/ FromSlice(h)
      PROVE  PoolInv' /\ PoolSteps
  <2>1. Changes(h)
    BY <1>2, ChangesList
  <2>2. PICK r, t : Steps(h, r, t)
    BY <2>1 DEF Changes
  <2>3. PoolInv'
    BY <2>2, StepMakes
  <2>4. QED
    BY <2>1, <2>3 DEF PoolSteps
<1>3. ASSUME NEW h \in Handle, DeepClone(h) PROVE PoolInv' /\ PoolSteps
  <2>1. PICK g \in Handle : \E r : Steps(h, r, elems(g)) /\ elems(h) = <<>>
    BY <1>3, ClonesList
  <2>2. PICK r : Steps(h, r, elems(g))
    BY <2>1
  <2>3. PoolInv'
    BY <2>2, StepMakes
  <2>4. QED
    BY <2>1, <2>3 DEF PoolSteps
<1>4. ASSUME NEW h \in Handle, Take(h) PROVE PoolInv' /\ PoolSteps
  <2>1. PICK g \in Handle \ {h} :
          /\ elems(h) = <<>> /\ elems(h)' = elems(g) /\ elems(g)' = <<>>
          /\ \A f \in Handle \ {g, h} : elems(f)' = elems(f)
    BY <1>4, TakesList
  <2>2. PoolInv'
    BY <1>4, TakesList
  <2>3. QED
    BY <2>1, <2>2 DEF PoolSteps
<1>5. QED
  BY <1>1, <1>2, <1>3, <1>4 DEF PoolNext

\* The steps keep the invariant.
LEMMA PoolInvariant == PoolSpec => []PoolInv
<1>1. PoolInit => PoolInv
  BY StartsPool
<1>2. PoolInv /\ [PoolNext]_pool_vars => PoolInv'
  <2>1. SUFFICES ASSUME PoolInv, [PoolNext]_pool_vars PROVE PoolInv'
    OBVIOUS
  <2>2. CASE PoolNext
    BY <2>1, <2>2, PoolStep
  <2>3. CASE UNCHANGED pool_vars
    BY <2>1, <2>3 DEF pool_vars, PoolInv, pool
  <2>4. QED
    BY <2>1, <2>2, <2>3
<1>3. QED
  BY <1>1, <1>2, PTL DEF PoolSpec

-----------------------------------------------------------------------------
(* The separate lists.                                                     *)

\* The lists behind the handles.
lists == [h \in Handle |-> elems(h)]

\* A change of one list is a change of the separate lists.
LEMMA ChangesAbstract ==
  ASSUME PoolInv, NEW h \in Handle, Changes(h)
  PROVE  Abstract!Change(h)
<1>1. PICK r, t : Steps(h, r, t) /\ t \in Changed(elems(h))
  BY DEF Changes
<1>2. elems(h)' = t /\ \A g \in Handle \ {h} : elems(g)' = elems(g)
  BY <1>1, StepMakes
<1>3. lists[h] = elems(h) /\ lists'[h] = elems(h)'
  BY DEF lists
<1>4. \A g \in Handle \ {h} : lists'[g] = lists[g]
  BY <1>2 DEF lists
<1>5. lists'[h] \in Changed(lists[h])
  BY <1>1, <1>2, <1>3
<1>6. QED
  BY <1>4, <1>5 DEF Abstract!Change, Changed, lists

\* A step of the pool is a step of the separate lists.
LEMMA StepAbstract ==
  ASSUME PoolInv, PoolNext
  PROVE  Abstract!Next
<1>1. PoolSteps
  BY PoolStep
<1>2. CASE \A h \in Handle : elems(h)' = <<>>
  <2>1. lists' = [h \in Handle |-> <<>>]
    BY <1>2 DEF lists
  <2>2. QED
    BY <2>1 DEF lists, Abstract!Next, Abstract!Reset
<1>3. CASE \E h \in Handle : Changes(h)
  BY <1>3, ChangesAbstract DEF Abstract!Next
<1>4. CASE \E h \in Handle, g \in Handle : \E r : Steps(h, r, elems(g)) /\ elems(h) = <<>>
  <2>1. PICK h \in Handle, g \in Handle : \E r : Steps(h, r, elems(g)) /\ elems(h) = <<>>
    BY <1>4
  <2>2. PICK r, t : Steps(h, r, t) /\ t = elems(g)
    BY <2>1
  <2>3. elems(h)' = t /\ \A f \in Handle \ {h} : elems(f)' = elems(f)
    BY <2>1, <2>2, StepMakes
  <2>4. lists' = [lists EXCEPT ![h] = t] /\ lists[h] = <<>> /\ lists[g] = t
    BY <2>1, <2>2, <2>3 DEF lists
  <2>5. Abstract!Clone(h, g)
    BY <2>4 DEF lists, Abstract!Clone
  <2>6. QED
    BY <2>5 DEF Abstract!Next
<1>5. CASE \E h \in Handle, g \in Handle :
             /\ g # h /\ elems(h) = <<>> /\ elems(h)' = elems(g) /\ elems(g)' = <<>>
             /\ \A f \in Handle \ {g, h} : elems(f)' = elems(f)
  <2>1. PICK h \in Handle, g \in Handle :
          /\ g # h /\ elems(h) = <<>> /\ elems(h)' = elems(g) /\ elems(g)' = <<>>
          /\ \A f \in Handle \ {g, h} : elems(f)' = elems(f)
    BY <1>5
  <2>2. lists' = [lists EXCEPT ![h] = lists[g], ![g] = <<>>] /\ lists[h] = <<>>
    BY <2>1 DEF lists
  <2>3. Abstract!Take(h, g)
    BY <2>2 DEF lists, Abstract!Take
  <2>4. QED
    BY <2>3 DEF Abstract!Next
<1>6. QED
  BY <1>1, <1>2, <1>3, <1>4, <1>5 DEF PoolSteps

\* The blocks of a pool are, for those that hold its handles, separate lists:
\* no call on one handle is seen through another, whatever blocks are reused,
\* moved or left behind (ListHandle, ListPool::alloc, free, realloc).
THEOREM PoolIsLists == PoolSpec => RefinesLists
<1>1. PoolInit => Abstract!Init
  <2>1. SUFFICES ASSUME PoolInit PROVE Abstract!Init
    OBVIOUS
  <2>2. \A h \in Handle : elems(h) = <<>>
    BY <2>1, StartsPool
  <2>3. QED
    BY <2>2 DEF Abstract!Init
<1>2. PoolInv /\ [PoolNext]_pool_vars => [Abstract!Next]_lists
  <2>1. SUFFICES ASSUME PoolInv, [PoolNext]_pool_vars PROVE [Abstract!Next]_lists
    OBVIOUS
  <2>2. CASE PoolNext
    BY <2>1, <2>2, StepAbstract
  <2>3. CASE UNCHANGED pool_vars
    BY <2>3 DEF pool_vars, lists, elems, pool
  <2>4. QED
    BY <2>1, <2>2, <2>3
<1>3. QED
  BY <1>1, <1>2, PoolInvariant, PTL DEF PoolSpec, RefinesLists, Abstract!Spec, lists

-----------------------------------------------------------------------------
(* What every call would do.                                               *)

LEMMA ActsMakes ==
  ASSUME PoolInv, NEW h \in Handle, NEW r, NEW t, Acts(pool, index, h, r, t)
  PROVE  Makes(h, r, t)
<1>1. PICK p, ix : p = pool /\ ix = index
  OBVIOUS
<1>2. Sound(p, ix) /\ Acts(p, ix, h, r, t)
  BY <1>1 DEF PoolInv
<1>3. as_slice(r.pool, r.idx) = t /\ \A g \in Handle \ {h} : as_slice(r.pool, ix[g]) = as_slice(p, ix[g])
  BY <1>2, CallMakes
<1>4. QED
  BY <1>1, <1>3 DEF Makes, elems

\* In every state every operation does what the one of its name does to a
\* sequence.
LEMMA AllAgree ==
  ASSUME PoolInv
  PROVE  OperationsAgree
<1>1. SUFFICES
        ASSUME NEW h \in Handle, NEW i, NEW s, i = index[h], s = elems(h)
        PROVE  /\ \A n \in 0 .. MaxLen :
                    Makes(h, truncate(pool, i, n), SubSeq(s, 1, IF n < Len(s) THEN n ELSE Len(s)))
               /\ \A e \in Elem : /\ Makes(h, push(pool, i, e), Append(s, e))
                                  /\ \A k \in 0 .. Len(s) :
                                       Makes(h, insert(pool, i, k, e), InsertAt(s, k + 1, e))
               /\ \A k \in 0 .. Len(s) - 1 :
                    /\ Makes(h, remove(pool, i, k),
                             SubSeq(s, 1, k) \o SubSeq(s, (k + 1) + 1, Len(s)))
                    /\ Makes(h, swap_remove(pool, i, k), Front(ReplaceAt(s, k + 1, Last(s))))
               /\ \A t \in Slice : Makes(h, extend(pool, i, t), s \o t)
  BY DEF OperationsAgree
<1>2. PICK p, ix : p = pool /\ ix = index
  OBVIOUS
<1>3. Sound(p, ix) /\ i = ix[h] /\ s = as_slice(p, i)
  BY <1>1, <1>2 DEF PoolInv, elems
<1>4. \A r, t : Acts(p, ix, h, r, t) => Makes(h, r, t)
  BY <1>2, ActsMakes
<1>5. ASSUME NEW n \in 0 .. MaxLen
      PROVE  Makes(h, truncate(pool, i, n), SubSeq(s, 1, IF n < Len(s) THEN n ELSE Len(s)))
  <2>1. Acts(p, ix, h, truncate(p, i, n), SubSeq(s, 1, IF n < Len(s) THEN n ELSE Len(s)))
    BY <1>3, TruncateActs
  <2>2. QED
    BY <1>2, <1>4, <2>1
<1>6. ASSUME NEW e \in Elem PROVE Makes(h, push(pool, i, e), Append(s, e))
  <2>1. Acts(p, ix, h, push(p, i, e), Append(s, e))
    BY <1>3, PushActs
  <2>2. QED
    BY <1>2, <1>4, <2>1
<1>7. ASSUME NEW e \in Elem, NEW k \in 0 .. Len(s)
      PROVE  Makes(h, insert(pool, i, k, e), InsertAt(s, k + 1, e))
  <2>1. Acts(p, ix, h, insert(p, i, k, e), InsertAt(s, k + 1, e))
    BY <1>3, InsertActs
  <2>2. QED
    BY <1>2, <1>4, <2>1
<1>8. ASSUME NEW k \in 0 .. Len(s) - 1
      PROVE  Makes(h, remove(pool, i, k), SubSeq(s, 1, k) \o SubSeq(s, (k + 1) + 1, Len(s)))
  <2>1. Acts(p, ix, h, remove(p, i, k), SubSeq(s, 1, k) \o SubSeq(s, (k + 1) + 1, Len(s)))
    BY <1>3, RemoveActs
  <2>2. QED
    BY <1>2, <1>4, <2>1
<1>9. ASSUME NEW k \in 0 .. Len(s) - 1
      PROVE  Makes(h, swap_remove(pool, i, k), Front(ReplaceAt(s, k + 1, Last(s))))
  <2>1. Acts(p, ix, h, swap_remove(p, i, k), Front(ReplaceAt(s, k + 1, Last(s))))
    BY <1>3, SwapRemoveActs
  <2>2. QED
    BY <1>2, <1>4, <2>1
<1>10. ASSUME NEW t \in Slice PROVE Makes(h, extend(pool, i, t), s \o t)
  <2>1. Acts(p, ix, h, extend(p, i, t), s \o t)
    BY <1>3, ExtendActs
  <2>2. QED
    BY <1>2, <1>4, <2>1
<1>11. QED
  BY <1>5, <1>6, <1>7, <1>8, <1>9, <1>10

-----------------------------------------------------------------------------
(* The free lists, and the blocks of all lists.                            *)

\* A free list has no more blocks than there are words.
LEMMA FreeFits ==
  ASSUME NEW p, NEW O, NEW X, NEW K, NEW G, Tiled(p, O, X, K, G), NEW c \in Class
  PROVE  K[c] \in Nat /\ K[c] <= size(p)
<1>1. PICK n \in Nat : n = size(p)
  BY DEF Tiled, Shape
<1>2. PICK k \in Nat : k = K[c]
  BY DEF Tiled, FreeLists
<1>3. PICK f : f = [i \in 1 .. k |-> G[c][i]]
  OBVIOUS
<1>4. ASSUME NEW i \in 1 .. k PROVE G[c][i] \in 0 .. n - 1
  <2>1. G[c][i] \in Nat /\ G[c][i] + 1 \in 0 .. n - 1
    <3>1. i \in 1 .. K[c]
      BY <1>2
    <3>2. /\ <<G[c][i], c>> \in X /\ <<G[c][i], c>> \notin O /\ G[c][i] \in Nat
          /\ G[c][i] + 1 \in Cover(<<G[c][i], c>>) /\ G[c][i] + 1 \in 0 .. size(p) - 1
      BY <3>1, FreePlace
    <3>3. QED
      BY <1>1, <3>2
  <2>2. PICK g \in Nat : g = G[c][i]
    BY <2>1
  <2>3. QED
    BY <2>1, <2>2
<1>5. \A i, j \in 1 .. k : G[c][i] = G[c][j] => i = j
  BY <1>2 DEF Tiled, FreeLists
<1>6. f \in Injection(1 .. k, 0 .. n - 1)
  BY <1>3, <1>4, <1>5 DEF Injection, IsInjective
<1>7. IsFiniteSet(0 .. n - 1) /\ Cardinality(0 .. n - 1) = n
  <2>1. 0 \in Int /\ n - 1 \in Int /\ (IF 0 > n - 1 THEN 0 ELSE (n - 1) - 0 + 1) = n
    OBVIOUS
  <2>2. /\ IsFiniteSet(0 .. n - 1)
        /\ Cardinality(0 .. n - 1) = IF 0 > n - 1 THEN 0 ELSE (n - 1) - 0 + 1
    BY <2>1, FS_Interval
  <2>3. QED
    BY <2>1, <2>2
<1>8. Cardinality(1 .. k) = k
  <2>1. 1 \in Int /\ k \in Int /\ (IF 1 > k THEN 0 ELSE k - 1 + 1) = k
    OBVIOUS
  <2>2. Cardinality(1 .. k) = IF 1 > k THEN 0 ELSE k - 1 + 1
    BY <2>1, FS_Interval
  <2>3. QED
    BY <2>1, <2>2
<1>9. Cardinality(1 .. k) <= Cardinality(0 .. n - 1)
  BY <1>6, <1>7, FS_Injection
<1>10. QED
  BY <1>1, <1>2, <1>7, <1>8, <1>9

\* l follows the links of the free list of class c.
Follows(l, p, c) ==
  /\ l[0] = p.free[c]
  /\ \A n \in Nat : l[n + 1] = IF l[n] \in DOMAIN p.data \ {0} THEN p.data[l[n]] ELSE 0

\* The links lead from the block freed last to the one freed first.
LEMMA FollowsFree ==
  ASSUME NEW p, NEW O, NEW X, NEW K, NEW G, Tiled(p, O, X, K, G), NEW c \in Class,
         NEW l, Follows(l, p, c)
  PROVE  \A n \in Nat : l[n] = IF n < K[c] THEN G[c][K[c] - n] + 1 ELSE 0
<1>1. PICK z \in Nat : z = size(p)
  BY DEF Tiled, Shape
<1>2. PICK k \in Nat : k = K[c]
  BY FreeFits
<1>3. PICK g : g = G[c]
  OBVIOUS
<1>4. DOMAIN p.data = 0 .. z - 1
  BY <1>1 DEF Tiled, Shape
<1>5. ASSUME NEW i \in 1 .. k
      PROVE  /\ g[i] \in Nat /\ g[i] + 1 \in 0 .. z - 1
             /\ p.data[g[i] + 1] = IF i = 1 THEN 0 ELSE g[i - 1] + 1
  <2>1. g[i] \in Nat /\ g[i] + 1 \in 0 .. z - 1
    <3>1. i \in 1 .. K[c]
      BY <1>2
    <3>2. <<G[c][i], c>> \in X /\ G[c][i] \in Nat /\ G[c][i] + 1 \in 0 .. z - 1
      BY <1>1, <3>1, FreePlace
    <3>3. QED
      BY <1>3, <3>2
  <2>2. p.data[g[i] + 1] = IF i = 1 THEN 0 ELSE g[i - 1] + 1
    BY <1>2, <1>3 DEF Tiled, FreeLists
  <2>3. QED
    BY <2>1, <2>2
<1>6. PICK T : T = {n \in Nat : l[n] = IF n < k THEN g[k - n] + 1 ELSE 0}
  OBVIOUS
<1>7. T \subseteq Nat
  BY <1>6
<1>8. 0 \in T
  <2>1. l[0] = IF k = 0 THEN 0 ELSE g[k] + 1
    BY <1>2, <1>3 DEF Follows, Tiled, FreeLists
  <2>2. k - 0 = k /\ (0 < k <=> k # 0)
    OBVIOUS
  <2>3. QED
    BY <1>6, <2>1, <2>2
<1>9. ASSUME NEW n \in T PROVE n + 1 \in T
  <2>1. n \in Nat /\ l[n] = IF n < k THEN g[k - n] + 1 ELSE 0
    BY <1>6
  <2>2. l[n + 1] = IF l[n] \in DOMAIN p.data \ {0} THEN p.data[l[n]] ELSE 0
    BY <2>1 DEF Follows
  <2>3. CASE n < k
    <3>1. PICK i \in 1 .. k : i = k - n
      BY <2>1, <2>3
    <3>2. l[n] = g[i] + 1
      BY <2>1, <2>3, <3>1
    <3>3. PICK a \in Nat : a = g[i]
      BY <1>5
    <3>4. a + 1 \in 0 .. z - 1 /\ a + 1 # 0
      BY <1>5, <3>3
    <3>5. l[n + 1] = p.data[g[i] + 1]
      BY <1>4, <2>2, <3>2, <3>3, <3>4
    <3>6. l[n + 1] = IF i = 1 THEN 0 ELSE g[i - 1] + 1
      BY <1>5, <3>5
    <3>7. (i = 1 <=> ~(n + 1 < k)) /\ k - (n + 1) = i - 1
      BY <2>1, <2>3, <3>1
    <3>8. l[n + 1] = IF n + 1 < k THEN g[k - (n + 1)] + 1 ELSE 0
      BY <3>6, <3>7
    <3>9. n + 1 \in Nat
      BY <2>1
    <3>10. QED
      BY <1>6, <3>8, <3>9
  <2>4. CASE ~(n < k)
    <3>1. ~(n + 1 < k) /\ n + 1 \in Nat
      BY <2>1, <2>4
    <3>2. l[n] = 0
      BY <2>1, <2>4
    <3>3. l[n + 1] = 0
      BY <2>2, <3>2
    <3>4. QED
      BY <1>6, <3>1, <3>3
  <2>5. QED
    BY <2>3, <2>4
<1>10. T = Nat
  BY <1>7, <1>8, <1>9, AllNat
<1>11. \A n \in Nat : l[n] = IF n < k THEN g[k - n] + 1 ELSE 0
  BY <1>6, <1>10
<1>12. QED
  BY <1>2, <1>3, <1>11

\* What FreeBlocks finds.
LEMMA FreeBlocksAre ==
  ASSUME NEW O, NEW X, NEW K, NEW G, Tiled(pool, O, X, K, G), NEW c \in Class
  PROVE  FreeBlocks(c) = {G[c][i] : i \in 1 .. K[c]}
<1> DEFINE link[n \in Nat] == IF n = 0 THEN free[c]
                              ELSE IF link[n - 1] \in DOMAIN data \ {0} THEN data[link[n - 1]] ELSE 0
<1>1. PICK z \in Nat : z = size(pool)
  BY DEF Tiled, Shape
<1>2. PICK k \in Nat : k = K[c] /\ k <= z
  BY <1>1, FreeFits
<1>3. pool.data = data /\ pool.free = free
  BY DEF pool
<1>4. /\ data \in [0 .. z - 1 -> Words(pool)] /\ free[c] \in Nat
  BY <1>1, <1>3 DEF Tiled, Shape
<1>5. PICK D : D = Nat \cup Words(pool)
  OBVIOUS
<1>6. PICK step : step = [x \in D |-> IF x \in DOMAIN data \ {0} THEN data[x] ELSE 0]
  OBVIOUS
<1>7. PICK start : start = free[c]
  OBVIOUS
<1>8. start \in D /\ step \in [D -> D]
  BY <1>4, <1>5, <1>6, <1>7
<1>9. PICK f : Recurses(f, D, start, step)
  BY <1>8, Recursion
<1>10. f \in [Nat -> D] /\ \A n \in Nat : f[n] = IF n = 0 THEN start ELSE step[f[n - 1]]
  BY <1>9 DEF Recurses
<1>11. ASSUME NEW n \in Nat
       PROVE  f[n] = IF n = 0 THEN free[c]
                     ELSE IF f[n - 1] \in DOMAIN data \ {0} THEN data[f[n - 1]] ELSE 0
  <2>1. CASE n = 0
    BY <1>7, <1>10, <2>1
  <2>2. CASE n # 0
    <3>1. PICK m \in Nat : m = n - 1
      BY <2>2
    <3>2. f[n] = step[f[m]] /\ f[m] \in D
      BY <1>10, <2>2, <3>1
    <3>3. step[f[m]] = IF f[m] \in DOMAIN data \ {0} THEN data[f[m]] ELSE 0
      BY <1>6, <3>2
    <3>4. QED
      BY <2>2, <3>1, <3>2, <3>3
  <2>3. QED
    BY <2>1, <2>2
<1>12. f = [n \in Nat |-> IF n = 0 THEN free[c]
                          ELSE IF f[n - 1] \in DOMAIN data \ {0} THEN data[f[n - 1]] ELSE 0]
  BY <1>10, <1>11
<1>13. link = [n \in Nat |-> IF n = 0 THEN free[c]
                             ELSE IF link[n - 1] \in DOMAIN data \ {0} THEN data[link[n - 1]] ELSE 0]
  BY <1>12, Zenon DEF link
<1>14. PICK l : l = link
  OBVIOUS
<1>15. \A n \in Nat : l[n] = IF n = 0 THEN free[c]
                             ELSE IF l[n - 1] \in DOMAIN data \ {0} THEN data[l[n - 1]] ELSE 0
  BY <1>13, <1>14, Zenon
<1>16. Follows(l, pool, c)
  <2>1. l[0] = free[c]
    BY <1>15
  <2>2. ASSUME NEW n \in Nat
        PROVE  l[n + 1] = IF l[n] \in DOMAIN data \ {0} THEN data[l[n]] ELSE 0
    <3>1. n + 1 \in Nat /\ n + 1 # 0 /\ (n + 1) - 1 = n
      OBVIOUS
    <3>2. QED
      BY <1>15, <3>1
  <2>3. QED
    BY <1>3, <2>1, <2>2 DEF Follows
<1>17. \A n \in Nat : l[n] = IF n < k THEN G[c][k - n] + 1 ELSE 0
  BY <1>2, <1>16, FollowsFree
<1>18. FreeBlocks(c) = {l[n] - 1 : n \in {m \in 0 .. z : l[m] \in Nat \ {0}}}
  BY <1>1, <1>14 DEF FreeBlocks
<1>19. ASSUME NEW i \in 1 .. k PROVE G[c][i] \in Nat
  <2>1. i \in 1 .. K[c]
    BY <1>2
  <2>2. /\ <<G[c][i], c>> \in X /\ <<G[c][i], c>> \notin O /\ G[c][i] \in Nat
        /\ G[c][i] + 1 \in Cover(<<G[c][i], c>>) /\ G[c][i] + 1 \in 0 .. size(pool) - 1
    BY <2>1, FreePlace
  <2>3. QED
    BY <2>2
<1>20. ASSUME NEW x \in FreeBlocks(c) PROVE x \in {G[c][i] : i \in 1 .. k}
  <2>1. PICK m \in 0 .. z : x = l[m] - 1 /\ l[m] \in Nat \ {0}
    BY <1>18
  <2>2. m < k
    BY <1>17, <2>1
  <2>3. PICK i \in 1 .. k : i = k - m
    BY <2>2
  <2>4. PICK a \in Nat : a = G[c][i]
    BY <1>19
  <2>5. l[m] = a + 1
    BY <1>17, <2>2, <2>3, <2>4
  <2>6. x = a
    BY <2>1, <2>4, <2>5
  <2>7. QED
    BY <2>3, <2>4, <2>6
<1>21. ASSUME NEW i \in 1 .. k PROVE G[c][i] \in FreeBlocks(c)
  <2>1. PICK m \in 0 .. z : m = k - i /\ m < k /\ k - m = i
    <3>1. k - i \in 0 .. z /\ k - i < k /\ k - (k - i) = i
      BY <1>2
    <3>2. QED
      BY <3>1
  <2>2. PICK a \in Nat : a = G[c][i]
    BY <1>19
  <2>3. l[m] = a + 1
    BY <1>17, <2>1, <2>2
  <2>4. l[m] \in Nat \ {0} /\ l[m] - 1 = a
    BY <2>2, <2>3
  <2>5. QED
    BY <1>18, <2>2, <2>4
<1>22. QED
  BY <1>2, <1>20, <1>21


\* The blocks that Extents names are all blocks of the vector.
LEMMA ExtentsAre ==
  ASSUME NEW X, NEW K, NEW G, Tiled(pool, Owning(pool, index), X, K, G)
  PROVE  Extents = X
<1>1. PICK O : O = Owning(pool, index)
  OBVIOUS
<1>2. O \subseteq X /\ \A x \in X : x \in O <=> ~IsFree(x, K, G)
  BY <1>1 DEF Tiled
<1>3. \A c \in Class : FreeBlocks(c) = {G[c][i] : i \in 1 .. K[c]}
  BY FreeBlocksAre
<1>4. PICK held : held = {<<index[h] - 1, sclass_for_length(Len(elems(h)))>> : h \in {g \in Handle : index[g] # 0}}
  OBVIOUS
<1>5. held = O
  <2>1. ASSUME NEW x \in held PROVE x \in O
    <3>1. PICK h \in Handle : index[h] # 0 /\ x = <<index[h] - 1, sclass_for_length(Len(elems(h)))>>
      BY <1>4
    <3>2. x \in BlockOf(index[h], Len(as_slice(pool, index[h])))
      BY <3>1 DEF BlockOf, elems
    <3>3. QED
      BY <1>1, <3>2 DEF Owning
  <2>2. ASSUME NEW x \in O PROVE x \in held
    <3>1. PICK h \in Handle : x \in BlockOf(index[h], Len(as_slice(pool, index[h])))
      BY <1>1 DEF Owning
    <3>2. index[h] # 0 /\ x = <<index[h] - 1, sclass_for_length(Len(elems(h)))>>
      BY <3>1 DEF BlockOf, elems
    <3>3. QED
      BY <1>4, <3>2
  <2>3. QED
    BY <2>1, <2>2
<1>6. PICK unused : unused = UNION {FreeBlocks(c) \X {c} : c \in Class}
  OBVIOUS
<1>7. ASSUME NEW x \in unused PROVE x \in X
  <2>1. PICK c \in Class : x \in FreeBlocks(c) \X {c}
    BY <1>6
  <2>2. PICK i \in 1 .. K[c] : x = <<G[c][i], c>>
    BY <1>3, <2>1
  <2>3. <<G[c][i], c>> \in X
    BY FreePlace
  <2>4. QED
    BY <2>2, <2>3
<1>8. ASSUME NEW x \in X, x \notin O PROVE x \in unused
  <2>1. IsFree(x, K, G)
    BY <1>2, <1>8
  <2>2. x \in Nat \X Class
    BY DEF Tiled, Tiling
  <2>3. PICK c \in Class : c = x[2]
    BY <2>2
  <2>4. PICK i \in 1 .. K[c] : x[1] = G[c][i]
    BY <2>1, <2>3 DEF IsFree
  <2>5. x[1] \in FreeBlocks(c)
    BY <1>3, <2>4
  <2>6. x = <<x[1], x[2]>>
    BY <2>2
  <2>7. x \in FreeBlocks(c) \X {c}
    BY <2>3, <2>5, <2>6
  <2>8. QED
    BY <1>6, <2>7
<1>9. Extents = held \cup unused
  BY <1>4, <1>6 DEF Extents
<1>10. QED
  BY <1>2, <1>5, <1>7, <1>8, <1>9

\* The words divided into blocks, as BlocksPartition says it.
LEMMA InvPartition ==
  ASSUME PoolInv
  PROVE  BlocksPartition
<1>1. PICK O : O = Owning(pool, index)
  OBVIOUS
<1>2. Good(pool, O) /\ \A g, h \in Handle : index[g] = index[h] => g = h \/ index[g] = 0
  BY <1>1 DEF PoolInv, Sound
<1>3. PICK X, K, G : Tiled(pool, O, X, K, G)
  BY <1>2 DEF Good
<1>4. PICK z \in Nat : z = size(pool)
  BY <1>3 DEF Tiled, Shape
<1>5. Tiling(z, X)
  BY <1>3, <1>4 DEF Tiled
<1>6. Extents = X
  BY <1>1, <1>3, ExtentsAre
<1>7. DOMAIN data = 0 .. z - 1
  BY <1>3, <1>4 DEF Tiled, Shape, pool
<1>8. \A x : x[1] .. x[1] + sclass_size(x[2]) - 1 = Cover(x)
  BY DEF Cover
<1>9. ASSUME NEW x \in Extents
      PROVE  x[1] .. x[1] + sclass_size(x[2]) - 1 \subseteq DOMAIN data
  <2>1. Cover(x) \subseteq 0 .. z - 1
    BY <1>5, <1>6, BlockInside
  <2>2. QED
    BY <1>7, <2>1 DEF Cover
<1>10. ASSUME NEW w \in DOMAIN data
       PROVE  Cardinality({x \in Extents : w \in x[1] .. x[1] + sclass_size(x[2]) - 1}) = 1
  <2>1. PICK y \in X : w \in Cover(y)
    BY <1>5, <1>7 DEF Tiling
  <2>2. \A x \in X : w \in Cover(x) => x = y
    BY <1>5, <2>1 DEF Tiling
  <2>3. {x \in Extents : w \in x[1] .. x[1] + sclass_size(x[2]) - 1} = {y}
    BY <1>6, <1>8, <2>1, <2>2
  <2>4. Cardinality({y}) = 1
    BY FS_Singleton
  <2>5. QED
    BY <2>3, <2>4
<1>11. QED
  BY <1>2, <1>9, <1>10 DEF BlocksPartition

\* The types, and the empty handles.
LEMMA InvTypes ==
  ASSUME PoolInv
  PROVE  PoolTypeOK /\ EmptyHandles
<1>1. PICK O : O = Owning(pool, index)
  OBVIOUS
<1>2. /\ index \in [Handle -> Nat] /\ Good(pool, O) /\ size(pool) <= MaxWords
      /\ \A h \in Handle : Listed(pool, O, index[h], elems(h)) /\ elems(h) \in Seq(Elem)
  BY <1>1 DEF PoolInv, Sound, elems
<1>3. PICK X, K, G : Tiled(pool, O, X, K, G)
  BY <1>2 DEF Good
<1>4. PICK z \in Nat : z = size(pool) /\ z <= MaxWords
  BY <1>2, <1>3 DEF Tiled, Shape
<1>5. data \in [0 .. z - 1 -> Word]
  <2>1. data \in [0 .. z - 1 -> Words(pool)]
    BY <1>3, <1>4 DEF Tiled, Shape, pool
  <2>2. Words(pool) \subseteq Word
    BY <1>4, ListPoolAssumption DEF Words, Word
  <2>3. QED
    BY <2>1, <2>2
<1>6. free \in [Class -> 0 .. MaxWords]
  <2>1. free \in [Class -> Nat]
    BY <1>3 DEF Tiled, Shape, pool
  <2>2. ASSUME NEW c \in Class PROVE free[c] \in 0 .. MaxWords
    <3>1. PICK k \in Nat : k = K[c]
      BY <1>3, FreeFits
    <3>2. free[c] = IF k = 0 THEN 0 ELSE G[c][k] + 1
      BY <1>3, <3>1 DEF Tiled, FreeLists, pool
    <3>3. CASE k = 0
      BY <3>2, <3>3, ListPoolAssumption
    <3>4. CASE k # 0
      <4>1. k \in 1 .. K[c]
        BY <3>1, <3>4
      <4>2. G[c][k] + 1 \in 0 .. z - 1
        BY <1>3, <1>4, <4>1, FreePlace
      <4>3. QED
        BY <1>4, <3>2, <3>4, <4>2, ListPoolAssumption
    <3>5. QED
      BY <3>3, <3>4
  <2>3. QED
    BY <2>1, <2>2
<1>7. ASSUME NEW h \in Handle PROVE index[h] \in 0 .. MaxWords
  <2>1. CASE index[h] = 0
    BY <2>1, ListPoolAssumption
  <2>2. CASE index[h] # 0
    <3>1. PICK i, s : i = index[h] /\ s = elems(h)
      OBVIOUS
    <3>2. Listed(pool, O, i, s) /\ i # 0
      BY <1>2, <2>2, <3>1
    <3>3. PICK b, n, c \in Nat : InBlock(pool, O, i, s, b, n, c)
      BY <1>2, <3>2, ListedBlock
    <3>4. i = b + 1 /\ b + n + 1 <= z
      BY <1>4, <3>3 DEF InBlock
    <3>5. QED
      BY <1>4, <3>1, <3>4, ListPoolAssumption
  <2>3. QED
    BY <2>1, <2>2
<1>8. PoolTypeOK
  BY <1>2, <1>4, <1>5, <1>6, <1>7 DEF PoolTypeOK
<1>9. ASSUME NEW h \in Handle PROVE index[h] = 0 <=> elems(h) = <<>>
  <2>1. elems(h) \in Seq(Elem) /\ (index[h] = 0 <=> Len(elems(h)) = 0)
    BY <1>2 DEF Listed
  <2>2. Len(elems(h)) = 0 <=> elems(h) = <<>>
    BY <2>1, EmptySeq
  <2>3. QED
    BY <2>1, <2>2
<1>10. QED
  BY <1>8, <1>9 DEF EmptyHandles

\* In every state of the pool each word belongs to one block, and each block to
\* one list or to the free list of its size; a handle is empty if and only if
\* its list is; and every call that could come next would do to its list what
\* the operation of its name does to a sequence, and touch no other list
\* (ListHandle and ListPool::alloc, free, realloc).
THEOREM PoolIsSound == PoolSpec => []PoolSound
<1>1. PoolInv => PoolSound
  BY AllAgree, InvPartition, InvTypes DEF PoolOK, PoolSound
<1>2. QED
  BY <1>1, PoolInvariant, PTL

=============================================================================
