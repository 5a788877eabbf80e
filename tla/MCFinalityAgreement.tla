------------------------- MODULE MCFinalityAgreement ------------------------
(***************************************************************************)
(* `Fork' lies in one epoch of four equal validators: a chain 1 to 5 and a *)
(* branch 6, 7, 8 that leaves it above block 1.                            *)
(* `Handover' opens with the first block of epoch 1, whose set is {a, b};  *)
(* it parts above block 3, one branch, 4 and 5, ending in that epoch, the  *)
(* other, 6 to 9, entering epoch 2, whose set is {c, d}, with its third    *)
(* block, EpochBlocks above the first.                                     *)
(***************************************************************************)
EXTENDS FinalityAgreement, TLC

CONSTANTS a, b, c, d

Four(epoch) == [epoch |-> epoch, weights |-> a :> 1 @@ b :> 1 @@ c :> 1 @@ d :> 1]
ForkAncestors ==
    <<{1}, {1, 2}, 1..3, 1..4, 1..5, {1, 6}, {1, 6, 7}, {1, 6, 7, 8}>>
ForkHeight == <<1, 2, 3, 4, 5, 2, 3, 4>>
ForkSet == LET s == Four(0) IN <<s, s, s, s, s, s, s, s>>
ForkSuccessor == LET s == Four(1) IN <<s, s, s, s, s, s, s, s>>
Alike == Permutations({a, b, c})

HandoverAncestors ==
    <<{1}, 1..2, 1..3, 1..4, 1..5,
      1..3 \cup {6}, 1..3 \cup 6..7, 1..3 \cup 6..8, 1..3 \cup 6..9>>
HandoverHeight == <<6, 7, 8, 9, 10, 9, 10, 11, 12>>
Epoch1 == [epoch |-> 1, weights |-> a :> 1 @@ b :> 1]
Epoch2 == [epoch |-> 2, weights |-> c :> 1 @@ d :> 1]
Epoch3 == [epoch |-> 3, weights |-> c :> 1 @@ d :> 1]
HandoverSet ==
    <<Epoch1, Epoch1, Epoch1, Epoch1, Epoch1, Epoch1, Epoch1, Epoch2, Epoch2>>
HandoverSuccessor ==
    <<Epoch2, Epoch2, Epoch2, Epoch2, Epoch2, Epoch2, Epoch2, Epoch3, Epoch3>>
=============================================================================
