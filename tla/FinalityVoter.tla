---------------------------- MODULE FinalityVoter ---------------------------
(***************************************************************************)
(* What a finality signer promises the network, whatever chain it follows  *)
(* and however often it crashes: its votes, in the order they become       *)
(* visible, name strictly rising heights, in non-decreasing epochs, and    *)
(* the votes of one epoch are all cast as a member of one validator set.   *)
(* One vote per height is what a certificate's quorum intersection needs.  *)
(***************************************************************************)
EXTENDS Integers, Sequences

CONSTANT Checkpoint   \* records with at least height, epoch and signing

VARIABLE votes        \* the votes cast so far, in order

MayFollow(cp, previous) ==
    /\ cp.height > previous.height
    /\ cp.epoch >= previous.epoch
    /\ cp.epoch = previous.epoch => cp.signing = previous.signing

Cast(cp) ==
    /\ \A i \in 1..Len(votes) : MayFollow(cp, votes[i])
    /\ votes' = Append(votes, cp)

Init == votes = <<>>
Next == \E cp \in Checkpoint : Cast(cp)
Spec == Init /\ [][Next]_votes
=============================================================================
