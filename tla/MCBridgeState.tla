---------------------------- MODULE MCBridgeState ----------------------------
(* An Ethereum chain of eight blocks in periods of four, two deposits and the
   blocks that take the bridge through its whole life. *)
EXTENDS BridgeState

Block(time, records) == [time |-> time, records |-> records]

Boot == [kind |-> "BOOTSTRAP"]
Update(finalized, attested, signature, next) ==
    [kind |-> "UPDATE", finalized |-> finalized, attested |-> attested,
     signature |-> signature, next |-> next]
Backfill(from, to) == [kind |-> "BACKFILL", from |-> from, to |-> to]
Mint(from, deposit) == [kind |-> "MINT", from |-> from, deposit |-> deposit]
Burn(source) == [kind |-> "BURN", source |-> source]

MCDeposits == [d1 |-> [block |-> 1, amount |-> 1],
               d2 |-> [block |-> 4, amount |-> 1],
               d3 |-> [block |-> 1, amount |-> 2]]

MCBlocks ==
    {Block(4, << >>),
     Block(4, << Boot >>),
     Block(4, << Boot, Update(2, 2, 3, TRUE) >>),
     Block(5, << Boot, Update(2, 2, 3, TRUE), Update(4, 5, 6, TRUE), Update(6, 6, 7, FALSE) >>),
     Block(5, << Update(1, 2, 3, TRUE) >>),
     Block(5, << Update(4, 5, 6, TRUE) >>),
     Block(5, << Update(6, 6, 7, FALSE) >>),
     Block(5, << Update(8, 9, 10, TRUE) >>),
     Block(5, << Update(4, 5, 6, TRUE), Update(6, 6, 7, FALSE) >>),
     Block(5, << Backfill(4, 3) >>),
     Block(5, << Backfill(2, 1), Mint(1, "d1") >>),
     Block(5, << Mint(2, "d1") >>),
     Block(5, << Mint(4, "d2") >>),
     Block(5, << Mint(2, "d1"), Mint(4, "d2") >>),
     Block(5, << Mint(4, "d2"), Mint(4, "d2") >>),
     Block(9, << Mint(2, "d3") >>),
     Block(5, << Burn("w1") >>),
     Block(5, << Burn("w2"), Burn("w1") >>)}

MCMempool ==
    {[time |-> 5, packages |-> << << Boot, Update(2, 2, 3, TRUE), Burn("w1") >>,
                                  << Mint(2, "d1"), Mint(2, "d1") >>,
                                  << Mint(2, "d1") >>, << Burn("w2") >> >>],
     [time |-> 5, packages |-> << << Update(4, 5, 6, FALSE), Mint(4, "d1") >>,
                                  << Mint(4, "d2") >> >>]}
=============================================================================
