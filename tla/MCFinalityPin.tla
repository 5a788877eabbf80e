---------------------------- MODULE MCFinalityPin ----------------------------
(***************************************************************************)
(* A trunk of one block and two branches.  Branch 0 pins the trunk block   *)
(* and then its own second block; branch 1 holds a certificate that        *)
(* conflicts with the latter.                                              *)
(***************************************************************************)
EXTENDS FinalityPin

Zero == <<0, 0, 0, 0>>
One == <<0, 1, 0, 0>>
Tree(a, b) == {SubSeq(Zero, 1, n) : n \in 0..a} \cup {SubSeq(One, 1, n) : n \in 0..b}

MCBlocks == Tree(4, 4)
MCCertificate ==
    [b \in MCBlocks |->
        CASE b = <<0, 0, 0>> -> <<0>>
          [] b = <<0, 0, 0, 0>> -> <<0, 0>>
          [] b = <<0, 1, 0, 0>> -> <<0, 1, 0>>
          [] OTHER -> NoBlock]

\* The same without the conflicting certificate.
SmallBlocks == Tree(4, 3)
SmallCertificate ==
    [b \in SmallBlocks |-> IF b = Zero THEN <<0, 0>> ELSE NoBlock]
==============================================================================
