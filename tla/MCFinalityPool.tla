--------------------------- MODULE MCFinalityPool ---------------------------
(***************************************************************************)
(* Two chains that fork above block 1.  A carries no certificate.  B       *)
(* certifies blocks 1 and 23 and rotates at heights 3 and 5, the second    *)
(* time to a set without the first validator, so that the indices shift.   *)
(* The node moves between a short and a long prefix of each, B with its    *)
(* first rotation and with both; every member votes for every checkpoint,  *)
(* and one vote per checkpoint is a forgery.                               *)
(***************************************************************************)
EXTENDS FinalityPool, FinalityEpochs

CONSTANTS v1, v2, v3, Nobody

MCOrder == <<v1, v2, v3>>
Registry == [v \in {v1, v2, v3} |-> 1]
Smaller == [v \in {v2, v3} |-> 1]

Plain(hash) == [hash |-> hash, cert |-> NoCert, registry |-> Registry]
ChainA == <<Plain(1), Plain(12), Plain(13), Plain(14), Plain(15)>>
Certified(hash, height, block, epoch, successor, reg) ==
    [hash |-> hash, registry |-> reg,
     cert |-> [height |-> height, block |-> block, epoch |-> epoch,
               successor |-> [epoch |-> epoch + 1, weights |-> successor],
               signers |-> DOMAIN Registry]]
ChainB == <<Plain(1), Certified(22, 1, 1, 0, Registry, Smaller),
            Plain(23), Certified(24, 3, 23, 1, Smaller, Registry),
            Plain(25), Plain(26)>>

Hashes(chain) == [h \in 1..Len(chain) |-> chain[h].hash]
StateOf(chain) == StateFrom(chain, Registry, 0, InitialState, Len(chain))
ViewOf(chain, n) ==
    [block |-> Hashes(SubSeq(chain, 1, n)), state |-> StateOf(SubSeq(chain, 1, n))]
MCViews == {ViewOf(ChainA, 3), ViewOf(ChainA, 5),
            ViewOf(ChainB, 3), ViewOf(ChainB, 6)}

\* The certificates in B are the ones consensus accepts, and B rotates twice.
ASSUME CertificatesAreValid ==
    /\ StateOf(ChainB).epoch_starts = <<1, 3, 5>>
    /\ \A n \in 1..Len(ChainB) :
          LET below == SubSeq(ChainB, 1, n - 1)
          IN  JudgeCoinbaseCertificate(ChainB[n].cert, n,
                  Projected(StateOf(below), n, RegistryOf(ChainB, Registry, n - 1)),
                  Hashes(below))

\* A vote for every checkpoint a view has, by each member and by nobody.
Vote(v, h, i, by) ==
    [epoch |-> EpochAt(v, h), height |-> h, index |-> i,
     signature |-> [by |-> by, over |-> Expected(v, <<EpochAt(v, h), h>>)]]
VotesAt(v, h) ==
    LET members == MemberOrder(SetOfKey(v, <<EpochAt(v, h), h>>))
    IN  {Vote(v, h, i, members[i]) : i \in DOMAIN members}
            \cup {Vote(v, h, 1, Nobody)}
MCMessages ==
    UNION {UNION {VotesAt(v, h) : h \in {g \in DOMAIN v.block :
                                           Signable(v, <<EpochAt(v, g), g>>)}} :
              v \in Views}
=============================================================================
