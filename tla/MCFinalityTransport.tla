------------------------ MODULE MCFinalityTransport -------------------------
(***************************************************************************)
(* Two chains that fork above block 2, checkpoints at 1 and 3, burial of   *)
(* one block.  The node stands below, at and above checkpoint 3 of A, and  *)
(* at and above that of B.  Each checkpoint has a vote by the first        *)
(* validator; checkpoint 3 of A also has one by the second and a forgery   *)
(* at the index of the first.                                              *)
(***************************************************************************)
EXTENDS FinalityTransport, FinalityEpochs

CONSTANTS v1, v2, Nobody, p1, p2

MCPeers == {p1, p2}

MCOrder == <<v1, v2>>
Registry == [v \in {v1, v2} |-> 1]
Plain(hash) == [hash |-> hash, cert |-> NoCert, registry |-> Registry]
ChainA == <<Plain(1), Plain(2), Plain(13), Plain(14)>>
ChainB == <<Plain(1), Plain(2), Plain(23), Plain(24)>>

ViewOf(chain, n) ==
    LET blocks == SubSeq(chain, 1, n)
    IN  [block |-> [h \in 1..n |-> blocks[h].hash],
         state |-> StateFrom(blocks, Registry, 0, InitialState, n)]
MCViews == {ViewOf(ChainA, 2), ViewOf(ChainA, 3), ViewOf(ChainA, 4),
            ViewOf(ChainB, 4)}

Vote(chain, h, i, by) ==
    [epoch |-> 0, height |-> h, index |-> i,
     signature |-> [by |-> by, over |-> Expected(ViewOf(chain, 4), <<0, h>>)]]
MCMessages == {Vote(ChainA, 3, 1, v1), Vote(ChainA, 3, 2, v2),
               Vote(ChainA, 3, 1, Nobody), Vote(ChainB, 3, 1, v1)}
=============================================================================
