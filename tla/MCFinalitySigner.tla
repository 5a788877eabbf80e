-------------------------- MODULE MCFinalitySigner --------------------------
(* FinalitySigner on real chains.  Three chains fork above block 1: A carries
   no certificate, B certifies its block 23 in block 24 and so rotates to
   epoch 1 at height 5, C follows B up to 23 and then goes on without.  Every
   prefix of a chain is a view, with the epoch state its blocks give. *)
EXTENDS FinalitySigner, FinalityEpochs

CONSTANTS v1, v2, v3, v4

Registry == [v \in {v1, v2, v3, v4} |-> 1]
Smaller == [v \in {v1, v2, v3} |-> 1]
Set(epoch) == [epoch |-> epoch, weights |-> Registry]

Plain(hash) == [hash |-> hash, cert |-> NoCert, registry |-> Registry]
Certified(hash, height, block) ==
    [hash |-> hash, registry |-> Registry,
     cert |-> [height |-> height, block |-> block, epoch |-> 0,
               successor |-> Set(1), signers |-> {v2, v3, v4}]]

ChainA == <<Plain(1), Plain(12), Plain(13), Plain(14), Plain(15)>>
ChainB == <<Plain(1), Plain(22), Plain(23),
            [Certified(24, 3, 23) EXCEPT !.registry = Smaller],
            Plain(25), Plain(26)>>
ChainC == <<Plain(1), Plain(22), Plain(23), Plain(34), Plain(35)>>

\* Two chains that part above a certified block, one of them certifying on.
Trunk == <<Plain(1), Plain(2), Certified(3, 2, 2)>>
ForkA == Trunk \o <<Plain(14), Plain(15)>>
ForkB == Trunk \o <<Certified(24, 3, 3), Plain(25)>>

Chains == {ChainA, ChainB, ChainC}
Forks == {ForkA, ForkB}

Hashes(chain) == [h \in 1..Len(chain) |-> chain[h].hash]
StateOf(chain) == StateFrom(chain, Registry, 0, InitialState, Len(chain))
ViewOf(chain) == [block |-> Hashes(chain), state |-> StateOf(chain)]
ViewsOf(chains, shortest) ==
    UNION {{ViewOf(SubSeq(chain, 1, n)) : n \in shortest..Len(chain)} :
              chain \in chains}
MCViews == ViewsOf(Chains, 1)
ForkViews == ViewsOf(Forks, Len(Trunk))

\* The certificates of these chains are the ones consensus accepts.
ASSUME ChainsAreValid ==
    \A chain \in Chains \cup Forks : \A n \in 1..Len(chain) :
        LET below == SubSeq(chain, 1, n - 1)
        IN  JudgeCoinbaseCertificate(chain[n].cert, n,
                Projected(StateOf(below), n, RegistryOf(chain, Registry, n - 1)),
                Hashes(below))

MCBlock == UNION {{chain[h].hash : h \in 1..Len(chain)} : chain \in Chains \cup Forks}
MCSetHash == [epoch : 0..3, weights : {Registry, Smaller}]

\* A vote orphaned on A and a buried checkpoint of epoch 0 on another chain.
Incident(height, block) ==
    [height |-> height, block |-> block, epoch |-> 0,
     signing |-> Set(0), successor |-> Set(1)]
MCPinned == {[incident |-> Incident(3, 13), hardened |-> TRUE,
              anchor |-> [height |-> 4, block |-> 24]]}
MCOperator == {[incident |-> Incident(2, 12), hardened |-> FALSE,
                anchor |-> [height |-> 3, block |-> 23]]}
NoRecoveries == {}
=============================================================================
