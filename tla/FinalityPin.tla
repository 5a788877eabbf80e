----------------------------- MODULE FinalityPin -----------------------------
(***************************************************************************)
(* The finality pin: a node's memory of the highest checkpoint certified   *)
(* on its active chain, kept in finality_pin.dat beside the block files,   *)
(* and the rules by which fork choice respects it (validation.cpp,         *)
(* node/blockstorage.cpp, node/finality_pin.cpp).                          *)
(*                                                                         *)
(* A block is the path that leads to it: the sequence of the ranks of its  *)
(* ancestors and itself, genesis the empty one.  The rank stands for the   *)
(* recovery round and the hash that order two blocks of one parent, lower  *)
(* first; the proof of a modern block is constant, so work is height.      *)
(* Header and body of a block arrive together, and every block is valid.   *)
(* `disk' is the block index and the best block as last flushed; the pin   *)
(* is written at once, so a crash takes back blocks but not the pin.       *)
(***************************************************************************)
EXTENDS Integers, Sequences, SequencesExt

CONSTANTS
    Blocks,           \* the block tree, a prefix-closed set of paths
    Certificate,      \* the checkpoint that the certificate in a block names
    NoBlock,
    ReorgHorizon,     \* modern_pos.reorg_horizon
    PinWriteMayFail,  \* writing the pin file may fail
    INVALID           \* a pin file that cannot be validated

\* A certificate names an ancestor, and advances on those before it.
ASSUME TreeAssumption ==
    /\ <<>> \in Blocks /\ Blocks \subseteq Seq(Int)
    /\ \A b \in Blocks \ {<<>>} : Front(b) \in Blocks
    /\ Certificate \in [Blocks -> Blocks \cup {NoBlock}]
    /\ \A b \in Blocks :
          Certificate[b] # NoBlock =>
             /\ IsStrictPrefix(Certificate[b], b)
             /\ \A c \in Blocks :
                   IsStrictPrefix(c, b) /\ Certificate[c] # NoBlock
                      => Len(Certificate[c]) < Len(Certificate[b])

ASSUME PinAssumption ==
    /\ ReorgHorizon \in Nat \ {0}
    /\ PinWriteMayFail \in BOOLEAN
    /\ NoBlock \notin Blocks /\ INVALID \notin Blocks /\ NoBlock # INVALID

Genesis == <<>>
Parent(b) == Front(b)
Height(b) == Len(b)

\* CChain::FindFork: where the chains of two blocks part.
ForkHeight(b, c) ==
    CHOOSE h \in 0..Height(b) :
        /\ IsPrefix(SubSeq(b, 1, h), c)
        /\ \A g \in (h + 1)..Height(b) : ~IsPrefix(SubSeq(b, 1, g), c)

\* CBlockIndexWorkComparator: height, then the rank of the first blocks apart.
Better(b, c) ==
    \/ Height(b) > Height(c)
    \/ /\ Height(b) = Height(c) /\ b # c
       /\ LET n == ForkHeight(b, c) + 1 IN b[n] < c[n]

\* Mutant: blocks above the anchor are all eligible.
OffAnchorBelow(b, a) == Height(b) <= Height(a) /\ ~IsPrefix(b, a)

OffAnchor(b, a) == ~IsPrefix(b, a) /\ ~IsPrefix(a, b)

\* The tracker's finalized checkpoint of the chain that ends in a block.
Finalized(b) ==
    LET certified == {Certificate[SubSeq(b, 1, h)] : h \in 0..Height(b)}
                        \ {NoBlock}
    IN  IF certified = {} THEN NoBlock
        ELSE CHOOSE c \in certified : \A d \in certified : Height(d) <= Height(c)

VARIABLES
    up,       \* the node runs
    loading,  \* LoadingBlocks: a reindex reads the block files
    fatal,    \* fatalError was called, a shutdown is under way
    index,    \* m_block_index
    failed,   \* blocks with BLOCK_FAILED_VALID
    tip,      \* the active chain's tip
    phase,    \* ActivateBestChain: "idle", "unwind", "select", "step"
    target,   \* pindexMostWork
    start,    \* the tip ActivateBestChainStep began from
    dropped,  \* candidates the defensive check erased
    anchor,   \* m_finality_anchor
    pin,      \* the pin file
    disk,     \* the flushed index and best block
    stored,   \* the blocks in the block files
    pinned    \* history: the pin last written

vars == <<up, loading, fatal, index, failed, tip, phase, target, start,
          dropped, anchor, pin, disk, stored, pinned>>
activation == <<phase, target, start, dropped>>

-----------------------------------------------------------------------------
(* Raising and writing the pin.                                            *)

HigherThan(checkpoint, known) ==
    known # NoBlock => Height(checkpoint) > Height(known)

\* WriteFinalityPin never goes back, and never replaces an invalid file.
WriteFinalityPin(checkpoint) ==
    \/ /\ pin # INVALID
       /\ HigherThan(checkpoint, pin)
       /\ pin' = checkpoint /\ pinned' = checkpoint
       /\ UNCHANGED fatal
    \/ /\ pin # INVALID
       /\ ~HigherThan(checkpoint, pin)
       /\ UNCHANGED <<pin, pinned, fatal>>
    \/ /\ pin # INVALID => PinWriteMayFail /\ HigherThan(checkpoint, pin)
       /\ fatal' = TRUE
       /\ UNCHANGED <<pin, pinned>>

RaiseFinalityAnchor(checkpoint) ==
    IF checkpoint = NoBlock \/ ~HigherThan(checkpoint, anchor)
    THEN UNCHANGED <<anchor, pin, pinned, fatal>>
    ELSE anchor' = checkpoint /\ WriteFinalityPin(checkpoint)

\* RefreshFinalityAnchor, and the raise in ConnectTip: nothing is raised while the
\* trackers are not in step with the block.
RefreshFinalityAnchor(b) ==
    \E checkpoint \in {Finalized(b), NoBlock} : RaiseFinalityAnchor(checkpoint)

\* A pin whose block is not in the index excludes nothing.
IsAnchorIneligible(b, a) == a \in index /\ OffAnchor(b, a)

ReorgViolatesFinality(fork_height) ==
    anchor # NoBlock /\ fork_height < Height(anchor)

-----------------------------------------------------------------------------
(* Blocks arrive.                                                          *)

\* The contextual header check, skipped while loading: not below the horizon,
\* not on a branch that leaves the active chain below the pin.
HeaderAcceptable(b) ==
    /\ Height(tip) - Height(b) < ReorgHorizon
    /\ ~ReorgViolatesFinality(ForkHeight(Parent(b), tip))

\* cs_main is free: no step is under way, or it has passed its old tip.
LockFree == phase = "step" => Height(tip) > Height(start)

ReceiveBlock(b) ==
    /\ up /\ ~loading /\ LockFree
    /\ b \notin index
    /\ b # Genesis /\ Parent(b) \in index
    /\ Parent(b) \notin failed
    /\ HeaderAcceptable(b)
    /\ index' = index \cup {b}
    /\ stored' = stored \cup {b}
    /\ UNCHANGED <<up, loading, fatal, failed, tip, activation, anchor, pin,
                   disk, pinned>>

\* A reindex reads a block back from the files.
ImportBlock(b) ==
    /\ up /\ loading
    /\ b \in stored \ index
    /\ b # Genesis /\ Parent(b) \in index
    /\ index' = index \cup {b}
    /\ UNCHANGED <<up, loading, fatal, failed, tip, activation, anchor, pin,
                   disk, stored, pinned>>

ImportDone ==
    /\ up /\ loading
    /\ \A b \in stored \ index : b = Genesis \/ Parent(b) \notin index
    /\ loading' = FALSE
    /\ UNCHANGED <<up, fatal, index, failed, tip, activation, anchor, pin,
                   disk, stored, pinned>>

-----------------------------------------------------------------------------
(* ActivateBestChain.                                                      *)

ActivateBestChain ==
    /\ up /\ ~loading /\ ~fatal
    /\ phase = "idle"
    /\ phase' = "unwind"
    /\ UNCHANGED <<up, loading, fatal, index, failed, tip, target, start,
                   dropped, anchor, pin, disk, stored, pinned>>

\* AbandonOffAnchorTip disconnects an off-anchor tip block by block; when it
\* has done so the candidate set is rebuilt.
TipMustUnwind == tip # Genesis /\ IsAnchorIneligible(tip, anchor)

\* Mutant: an off-anchor tip is kept.
KeepTip ==
    /\ phase' = "select"
    /\ UNCHANGED <<tip, dropped>>

UnwindTip ==
    IF TipMustUnwind
    THEN tip' = Parent(tip) /\ dropped' = {} /\ UNCHANGED phase
    ELSE phase' = "select" /\ UNCHANGED <<tip, dropped>>

AbandonOffAnchorTip ==
    /\ up
    /\ phase = "unwind"
    /\ UnwindTip
    /\ UNCHANGED <<up, loading, fatal, index, failed, target, start, anchor,
                   pin, disk, stored, pinned>>

\* Blocks that FindMostWorkChain may return, the tip among them.
Candidates(a) ==
    {b \in index \ (failed \cup dropped) :
        /\ b = tip \/ Better(b, tip)
        /\ ~IsAnchorIneligible(b, a)}

\* FindMostWorkChain refreshes the pin from the tip's chain and picks the best
\* candidate; one that would disconnect the pinned checkpoint is dropped.
Select ==
    /\ up /\ phase = "select"
    /\ RefreshFinalityAnchor(tip)
    /\ \/ /\ \A b \in Candidates(anchor') : b = tip
          /\ phase' = "idle"
          /\ UNCHANGED <<target, start, dropped>>
       \/ \E b \in Candidates(anchor') \ {tip} :
             /\ \A c \in Candidates(anchor') : c = b \/ Better(b, c)
             /\ LET fork == ForkHeight(tip, b)
                IN  IF fork < Height(tip) /\ anchor' # NoBlock
                       /\ fork < Height(anchor')
                    THEN /\ dropped' = dropped \cup {b}
                         /\ UNCHANGED <<phase, target, start>>
                    ELSE /\ phase' = "step"
                         /\ target' = b
                         /\ start' = tip
                         /\ UNCHANGED dropped
    /\ UNCHANGED <<up, loading, index, failed, tip, disk, stored>>

DisconnectTip ==
    /\ up /\ phase = "step"
    /\ ~IsPrefix(tip, target)
    /\ tip' = Parent(tip)
    /\ UNCHANGED <<up, loading, fatal, index, failed, activation, anchor, pin,
                   disk, stored, pinned>>

\* A connected certificate raises the pin.  Past its old tip the step may be
\* interrupted by a shutdown.
ConnectTip ==
    /\ up /\ phase = "step"
    /\ IsStrictPrefix(tip, target)
    /\ tip' = SubSeq(target, 1, Height(tip) + 1)
    /\ RefreshFinalityAnchor(tip')
    /\ IF tip' = target \/ (fatal' /\ Height(tip') > Height(start))
       THEN phase' = "idle" /\ target' = NoBlock /\ start' = NoBlock
       ELSE UNCHANGED <<phase, target, start>>
    /\ UNCHANGED <<up, loading, index, failed, dropped, disk, stored>>

\* Mutant: the pinned block itself may be invalidated.
MayInvalidatePinned(b, a) ==
    /\ b # Genesis
    /\ IsPrefix(b, tip) => a = NoBlock \/ Height(b) >= Height(a)

\* InvalidateBlock, refused at or below the pin on the active chain.
MayInvalidate(b, a) ==
    /\ b # Genesis
    /\ IsPrefix(b, tip) => a = NoBlock \/ Height(b) - 1 >= Height(a)

\* Block by block in the code, but nothing is activated or pinned meanwhile.
InvalidateBlock(b) ==
    /\ up /\ ~loading /\ phase = "idle"
    /\ b \in index \ failed
    /\ RefreshFinalityAnchor(tip)
    /\ IF MayInvalidate(b, anchor')
       THEN /\ failed' = failed \cup {c \in index : IsPrefix(b, c)}
            /\ tip' = IF IsPrefix(b, tip) THEN Parent(b) ELSE tip
            /\ dropped' = {}
       ELSE UNCHANGED <<failed, tip, dropped>>
    /\ UNCHANGED <<up, loading, index, phase, target, start, disk, stored>>

-----------------------------------------------------------------------------
(* Persistence.                                                            *)

\* FlushStateToDisk, at most as often as once per connected block.
Flush ==
    /\ up /\ ~loading
    /\ disk' = [index |-> index, failed |-> failed, tip |-> tip]
    /\ UNCHANGED <<up, loading, fatal, index, failed, tip, activation, anchor,
                   pin, stored, pinned>>

Stopped ==
    /\ up' = FALSE /\ fatal' = FALSE
    /\ index' = {} /\ failed' = {} /\ tip' = NoBlock /\ anchor' = NoBlock
    /\ phase' = "idle" /\ target' = NoBlock /\ start' = NoBlock
    /\ dropped' = {}

Shutdown ==
    /\ up /\ ~loading /\ phase = "idle"
    /\ disk' = [index |-> index, failed |-> failed, tip |-> tip]
    /\ Stopped
    /\ UNCHANGED <<loading, pin, stored, pinned>>

\* What was not flushed is gone, from the block files perhaps as well.
Crash ==
    /\ up
    /\ Stopped
    /\ stored' \in {stored, disk.index \cup (IF loading THEN stored ELSE {})}
    /\ UNCHANGED <<loading, pin, disk, pinned>>

CorruptPin ==
    /\ pin \notin {NoBlock, INVALID}
    /\ pin' = INVALID
    /\ UNCHANGED <<up, loading, fatal, index, failed, tip, activation, anchor,
                   disk, stored, pinned>>

\* Mutant: an invalid pin file is taken for none.
LoadPinLeniently == anchor' = IF pin = INVALID THEN NoBlock ELSE pin

\* An invalid pin file refuses startup.
LoadPin == pin # INVALID /\ anchor' = pin

Start ==
    /\ ~up /\ ~loading
    /\ LoadPin
    /\ up' = TRUE
    /\ index' = disk.index /\ failed' = disk.failed /\ tip' = disk.tip
    /\ UNCHANGED <<loading, fatal, activation, pin, disk, stored, pinned>>

\* Mutant: -reindex wipes the block index and keeps the chainstate.
WipeIndexOnly ==
    /\ index' = {Genesis} /\ failed' = {} /\ tip' = disk.tip
    /\ disk' = [index |-> {Genesis}, failed |-> {}, tip |-> disk.tip]

WipeDatabases ==
    /\ index' = {Genesis} /\ failed' = {} /\ tip' = Genesis
    /\ disk' = [index |-> {Genesis}, failed |-> {}, tip |-> Genesis]

\* -reindex forgets the index and the chainstate, not the pin.
Reindex ==
    /\ ~up
    /\ LoadPin
    /\ up' = TRUE /\ loading' = TRUE
    /\ WipeDatabases
    /\ UNCHANGED <<fatal, activation, pin, stored, pinned>>

-----------------------------------------------------------------------------
Init ==
    /\ up = TRUE /\ loading = FALSE /\ fatal = FALSE
    /\ index = {Genesis} /\ failed = {} /\ tip = Genesis
    /\ phase = "idle" /\ target = NoBlock /\ start = NoBlock /\ dropped = {}
    /\ anchor = NoBlock /\ pin = NoBlock /\ pinned = NoBlock
    /\ disk = [index |-> {Genesis}, failed |-> {}, tip |-> Genesis]
    /\ stored = {Genesis}

Next ==
    \/ \E b \in Blocks : ReceiveBlock(b) \/ ImportBlock(b) \/ InvalidateBlock(b)
    \/ ImportDone
    \/ ActivateBestChain \/ AbandonOffAnchorTip \/ Select
    \/ DisconnectTip \/ ConnectTip
    \/ Flush \/ Shutdown \/ Crash \/ CorruptPin \/ Start \/ Reindex

\* ActivateBestChain runs at startup and after every block, and is never left
\* half-way; peers keep offering every block they have.
Fairness ==
    /\ WF_vars(ActivateBestChain) /\ WF_vars(AbandonOffAnchorTip)
    /\ WF_vars(Select) /\ WF_vars(DisconnectTip) /\ WF_vars(ConnectTip)
    /\ \A b \in Blocks : WF_vars(ReceiveBlock(b)) /\ WF_vars(ImportBlock(b))
    /\ WF_vars(ImportDone)

Spec == Init /\ [][Next]_vars
FairSpec == Spec /\ Fairness

-----------------------------------------------------------------------------
(* Properties.                                                             *)

TypeOK ==
    /\ {up, loading, fatal} \subseteq BOOLEAN
    /\ index \subseteq Blocks /\ failed \subseteq index
    /\ dropped \subseteq index /\ stored \subseteq Blocks
    /\ {tip, target, start, anchor} \subseteq Blocks \cup {NoBlock}
    /\ up => tip \in index
    /\ phase \in {"idle", "unwind", "select", "step"}
    /\ phase = "step" <=> target # NoBlock
    /\ {pin, pinned} \subseteq Blocks \cup {NoBlock, INVALID}
    /\ disk.tip \in disk.index /\ disk.index \subseteq Blocks
    /\ disk.failed \subseteq disk.index

(* A pin once written is never forgotten by a running node, whatever crashes,
   reindexes and reorganisations happen ("never lowered by a disconnect",
   "a crash or restart must not forget the pin"). *)
PinNeverForgotten ==
    up /\ pinned # NoBlock
        => anchor # NoBlock /\ Height(anchor) >= Height(pinned)

(* No step of a running node disconnects the pinned checkpoint: neither a
   heavier branch nor InvalidateBlock ("modern-finality-violation"). *)
FinalizedNeverDisconnected ==
    [][up /\ up' /\ anchor # NoBlock /\ IsPrefix(anchor, tip)
          => IsPrefix(anchor, tip')]_vars

(* The pins a node writes lie on one chain, even if certificates for two
   branches exist and the tracker fails now and then, as long as the node knows
   the block it pinned; InvalidateBlock alone reads the tip as it finds it,
   before ActivateBestChain has unwound one off the pinned block. *)
PinsFormChain ==
    [][up /\ pin' # pin /\ pin \in index /\ ~(phase = "idle" /\ OffAnchor(tip, pin))
          => pin' = INVALID \/ IsPrefix(pin, pin')]_vars

\* The node runs on a tip that the pinned block, known to it, excludes.
OffPinnedTip == up /\ ~fatal /\ anchor \in index /\ OffAnchor(tip, anchor)

(* A tip off the pinned checkpoint, as a crash may leave it, is abandoned
   for good ("an active tip proven off the anchor must be unwound"). *)
PinEnforced ==
    OffPinnedTip ~> ~OffPinnedTip

(* "Until its hash is present in the index it is a pending pin ... and starts
   being enforced the moment the block is (re)indexed": a node whose peers
   have the pinned chain does get to index it. *)
PendingPinArrives ==
    (up /\ anchor # NoBlock /\ anchor \notin index)
        ~> (~up \/ fatal \/ loading \/ anchor \in index)
=============================================================================
