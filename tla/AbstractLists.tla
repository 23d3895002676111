---------------------------- MODULE AbstractLists ----------------------------
(***************************************************************************)
(* What list_pool promises to the holders of its handles: every handle is  *)
(* a list of its own, and an operation on one changes no other.            *)
(***************************************************************************)
EXTENDS Integers, SequencesExt

CONSTANTS Handle,
          Word,    \* what a list can hold
          Slice    \* the sequences that are inserted as a whole

VARIABLE list      \* the elements behind every handle

Before(s, k) == SubSeq(s, 1, k - 1)
From(s, k)   == SubSeq(s, k, Len(s))

SpliceAt(s, k, t) == Before(s, k) \o t \o From(s, k)

\* What one operation can make of the list s.
Inserted(s)  == {InsertAt(s, k, e) : k \in 1 .. Len(s) + 1, e \in Word}
Spliced(s)   == {SpliceAt(s, k, t) : k \in 1 .. Len(s) + 1, t \in Slice}
Assigned(s)  == {ReplaceAt(s, k, e) : k \in DOMAIN s, e \in Word}
Removed(s)   == {RemoveAt(s, k) : k \in DOMAIN s}
Swapped(s)   == {Front(ReplaceAt(s, k, Last(s))) : k \in DOMAIN s}
Truncated(s) == {Before(s, k) : k \in 1 .. Len(s) + 1}

Init == list = [h \in Handle |-> <<>>]

Reset == list' = [h \in Handle |-> <<>>]

Change(h) ==
  /\ \A g \in Handle \ {h} : list'[g] = list[g]
  /\ list'[h] \in UNION {Inserted(list[h]), Spliced(list[h]), Assigned(list[h]),
                         Removed(list[h]), Swapped(list[h]), Truncated(list[h])}

\* The list of g goes, or is copied, to h, which held nothing.
Clone(h, g) == list[h] = <<>> /\ list' = [list EXCEPT ![h] = list[g]]
Take(h, g)  == list[h] = <<>> /\ list' = [list EXCEPT ![h] = list[g], ![g] = <<>>]

Next == \/ Reset
        \/ \E h \in Handle : Change(h) \/ \E g \in Handle : Clone(h, g) \/ Take(h, g)

Spec == Init /\ [][Next]_list
=============================================================================
