-------------------------- MODULE MCFinalityRelay ---------------------------
(***************************************************************************)
(* Two chains of four blocks that fork above block 2, checkpoints at 1 and *)
(* 3.  The node's own validator votes for checkpoint 1 and for both blocks *)
(* at 3; a peer's votes for 1 and for 3 of the first chain.                *)
(***************************************************************************)
EXTENDS FinalityRelay, FinalityEpochs

CONSTANTS v1, v2, p1, p2

MCPeers == {p1, p2}
MCOrder == <<v1, v2>>
Registry == [v \in {v1, v2} |-> 1]
Plain(hash) == [hash |-> hash, cert |-> NoCert, registry |-> Registry]
ChainA == <<Plain(1), Plain(2), Plain(13), Plain(14)>>
ChainB == <<Plain(1), Plain(2), Plain(23), Plain(24)>>

ViewOf(chain) ==
    [block |-> [h \in DOMAIN chain |-> chain[h].hash],
     state |-> StateFrom(chain, Registry, 0, InitialState, Len(chain))]
MCViews == {ViewOf(ChainA), ViewOf(ChainB)}

Vote(chain, h, i, by) ==
    [epoch |-> 0, height |-> h, index |-> i,
     signature |-> [by |-> by, over |-> Expected(ViewOf(chain), <<0, h>>)]]
MCOwnVotes == {Vote(ChainA, 3, 1, v1), Vote(ChainB, 3, 1, v1)}
MCMessages == MCOwnVotes \cup {Vote(ChainA, 1, 1, v1), Vote(ChainA, 3, 2, v2)}
=============================================================================
