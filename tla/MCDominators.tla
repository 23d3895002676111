---------------------------- MODULE MCDominators ----------------------------
(* All flow graphs of MCN blocks: nothing jumps to the entry, the entry    *)
(* does not end the function, the last block does; any other block jumps,  *)
(* branches, or ends the function ($finish). A branch visits the larger    *)
(* successor first: renaming the blocks in between gives the other order.  *)
EXTENDS Dominators

CONSTANT MCN

LOCAL Jumps    == {<<b>> : b \in 2 .. MCN}
LOCAL Branches == {br \in (2 .. MCN) \X (2 .. MCN) : br[1] < br[2]}

MCGraphs ==
  {g \in [1 .. MCN -> Jumps \cup Branches \cup {<<>>}] : g[1] # <<>> /\ g[MCN] = <<>>}

=============================================================================
