------------------------------- MODULE StasTx -------------------------------
(***************************************************************************)
(* Transactions as the library builds them (lib/stas.js, lib/utils.js) and *)
(* as the network judges them.                                             *)
(*                                                                         *)
(* A script is abstracted to what a later step can tell apart: its kind,   *)
(* the public key hash that owns it and, for a STAS script, the token it   *)
(* carries: redemption key hash, flags byte, symbol and data.  Everything  *)
(* behind byte 23 of a STAS script is the same for one token, so equal     *)
(* tokens are exactly equal script tails.                                  *)
(***************************************************************************)
EXTENDS Integers, Sequences, SequencesExt

CONSTANTS
    Keys,              \* public key hashes
    Symbols,           \* token symbols
    Data,              \* optional data of an issued output
    NoTok,             \* token field of an output that carries none
    NoKey,             \* key hash of a nil segment
    Fee,               \* fee of a funded transaction (sizes: module FeeEstimate)
    LeadingZeroTxids,  \* txids whose most significant byte is zero
    BraceKeys          \* key hashes with {" (hex 7b22) somewhere in their digits

ASSUME FeeAssumption == Fee \in Nat \ {0}
ASSUME NoKeyAssumption == NoKey \notin Keys

-----------------------------------------------------------------------------
(* Outputs, outpoints and transactions *)

Tokens == [red: Keys, symbol: Symbols, isSplittable: BOOLEAN, data: Data]

Outpoints == [txid: Nat \ {0}, vout: Nat]

Outputs == [kind: {"p2pkh", "contract", "stas"}, pkh: Keys,
            tok: Tokens \cup {NoTok}, satoshis: Nat]

\* What callers hand in: destinations of a split, outputs to issue.
Destinations == [pkh: Keys, satoshis: Nat]
IssueInfos == [addr: Keys, satoshis: Nat, data: Data]

Segments == [pkh: Keys \cup {NoKey}, satoshis: Nat]

\* Confirmed transactions, and those a call builds with their unlocking data.
Txs == [ins: Seq(Outpoints), outs: Seq(Outputs)]

PlainUnlock == [type |-> "p2pkh"]

NoOutpoint == [txid |-> 0, vout |-> 0]

Unlocks ==
    {PlainUnlock} \cup
    [type: {"basic", "merge"}, pairs: Seq(Segments),
     funding: Outpoints \cup [txid: {0}, vout: Nat],
     other: Outpoints \cup {NoOutpoint}, pieces: Nat]

BuiltTxs == [ins: Seq(Outpoints), outs: Seq(Outputs), unlock: Seq(Unlocks)]

P2pkhOut(pkh, satoshis) ==
    [kind |-> "p2pkh", pkh |-> pkh, tok |-> NoTok, satoshis |-> satoshis]

\* getStasScript / updateStasScript: the token stays, the owner is replaced.
StasOut(pkh, tok, satoshis) ==
    [kind |-> "stas", pkh |-> pkh, tok |-> tok, satoshis |-> satoshis]

\* getPublicKeyHash: the hash behind OP_RETURN.
getPublicKeyHash(out) == out.tok.red

Segment(pkh, satoshis) == [pkh |-> pkh, satoshis |-> satoshis]
NilSegment == Segment(NoKey, 0)      \* OP_FALSE OP_FALSE

\* A recursive function rather than a fold: its sums can be reasoned about.
SumSatoshis(s) ==
    LET upTo[n \in 0..Len(s)] ==
            IF n = 0 THEN 0 ELSE upTo[n - 1] + s[n].satoshis
    IN upTo[Len(s)]

IsStas(out, tok) == out.kind = "stas" /\ out.tok = tok

\* An output together with its place: what callers hand to the builders.
Utxo(chain, op) == [op |-> op, out |-> chain[op.txid].outs[op.vout + 1]]

-----------------------------------------------------------------------------
(* Unlocking data of a STAS input *)

\* reverseEndian goes through a big number, which drops leading zero bytes:
\* the result is then 31 bytes long and names no transaction.
reverseEndian(txid) == IF txid \in LeadingZeroTxids THEN 0 ELSE txid

Funding(pay) ==
    IF pay = <<>> THEN NoOutpoint
    ELSE [txid |-> reverseEndian(pay[1].op.txid), vout |-> pay[1].op.vout]

\* segments end with the change segment when there is a payment; the zero fee
\* case pads with OP_FALSE for the funding outpoint and for the change.
partialSTASUnlockingScript(segments, pay) ==
    [type |-> "basic",
     pairs |-> IF pay = <<>> THEN Append(segments, NilSegment) ELSE segments,
     funding |-> Funding(pay),
     other |-> NoOutpoint,
     pieces |-> 0]

\* The copies of a token's script tail in a serialised transaction: one per
\* output of the token and one per preimage in an input that spends it.
TailCopies(chain, txid, tok) ==
    {<<"out", k>> : k \in {i \in DOMAIN chain[txid].outs :
                              IsStas(chain[txid].outs[i], tok)}}
      \cup
    {<<"in", k>> : k \in {i \in DOMAIN chain[txid].ins :
                             IsStas(Utxo(chain, chain[txid].ins[i]).out, tok)}}

\* Mutant: the copies inside the preimages of token inputs are forgotten.
numberOfPiecesInOutputs(chain, txid, tok) ==
    1 + Cardinality({k \in DOMAIN chain[txid].outs : IsStas(chain[txid].outs[k], tok)})

\* The serialised parent is cut at every copy.
numberOfPieces(chain, txid, tok) == 1 + Cardinality(TailCopies(chain, txid, tok))

partialStasMergeScript(segments, pay, other, pieces) ==
    [type |-> "merge",
     pairs |-> IF pay = <<>> THEN Append(segments, NilSegment) ELSE segments,
     funding |-> Funding(pay),
     other |-> other,
     pieces |-> pieces]

-----------------------------------------------------------------------------
(* The covenant: what the STAS v2 locking script verifies *)

MaxSegments == 4
MaxPieces == 7       \* merge selector 2..7, checked by 1 8 WITHIN
MaxParentInputs == 3
MaxParentVout == 3

\* The script adds up the segment amounts one by one, at most four of them.
SegmentTotal(segs) ==
    LET Amount(k) == IF k \in DOMAIN segs THEN segs[k].satoshis ELSE 0
    IN Amount(1) + Amount(2) + Amount(3) + Amount(4)

\* Mutant: the outputs may hold less than the inputs.
NotInflated(segs, value) == SegmentTotal(segs) <= value

Balanced(segs, value) == SegmentTotal(segs) = value

\* Only the first segment may leave the covenant, and only to the redemption
\* key; every other segment is rebuilt as an output of the same token.
CovenantOutput(tok, k, seg) ==
    IF k = 1 /\ seg.pkh = tok.red
      THEN P2pkhOut(seg.pkh, seg.satoshis)
      ELSE StasOut(seg.pkh, tok, seg.satoshis)

CovenantOutputs(tok, segs, change) ==
    [k \in 1..Len(segs) |-> CovenantOutput(tok, k, segs[k])]
      \o (IF change = NilSegment THEN <<>>
          ELSE <<P2pkhOut(change.pkh, change.satoshis)>>)

FundingInputs(u) == IF u.funding = NoOutpoint THEN <<>> ELSE <<u.funding>>

\* Mutant: selectors 2 to 5 only, as a comment at stas.js:225 has it.
MergeProofOfFive(chain, u, tok) ==
    LET parent == chain[u.other.txid]
    IN /\ IsStas(Utxo(chain, u.other).out, tok)
       /\ u.pieces - 1 = Cardinality(TailCopies(chain, u.other.txid, tok))
       /\ u.pieces <= 5
       /\ Len(parent.ins) <= MaxParentInputs
       /\ u.other.vout <= MaxParentVout

\* The other token input is proved by its whole parent transaction.
MergeProof(chain, u, tok) ==
    LET parent == chain[u.other.txid]
    IN /\ IsStas(Utxo(chain, u.other).out, tok)
       /\ u.pieces - 1 = Cardinality(TailCopies(chain, u.other.txid, tok))
       /\ u.pieces <= MaxPieces
       /\ Len(parent.ins) <= MaxParentInputs
       /\ u.other.vout <= MaxParentVout

CovenantHolds(chain, tx, i) ==
    LET this == tx.ins[i]
        prev == Utxo(chain, this).out
        u == tx.unlock[i]
        segs == Front(u.pairs)
        change == Last(u.pairs)
        merging == u.type = "merge"
        value == prev.satoshis
                   + (IF merging THEN Utxo(chain, u.other).out.satoshis ELSE 0)
    IN /\ u.type \in {"basic", "merge"}
       /\ merging => MergeProof(chain, u, prev.tok)
       /\ Len(segs) \in 1..(IF prev.tok.isSplittable THEN MaxSegments ELSE 1)
       /\ \A k \in DOMAIN segs : segs[k].satoshis > 0
       /\ Balanced(segs, value)
       /\ tx.outs = CovenantOutputs(prev.tok, segs, change)
       /\ IF merging
            THEN tx.ins \in {<<this, u.other>> \o FundingInputs(u),
                             <<u.other, this>> \o FundingInputs(u)}
            ELSE tx.ins = <<this>> \o FundingInputs(u)

-----------------------------------------------------------------------------
(* The network (external): what a node accepts *)

Spent(chain) == UNION {ToSet(chain[t].ins) : t \in DOMAIN chain}

Created(chain) ==
    UNION {{[txid |-> t, vout |-> k - 1] : k \in DOMAIN chain[t].outs} :
              t \in DOMAIN chain}

Unspent(chain) == Created(chain) \ Spent(chain)

\* Every signature is checked apart; see the signing steps of TokenLedger.
ScriptsHold(chain, tx) ==
    \A i \in DOMAIN tx.ins :
        Utxo(chain, tx.ins[i]).out.kind = "stas" => CovenantHolds(chain, tx, i)

NetworkAccepts(chain, tx) ==
    /\ \A i \in DOMAIN tx.ins : tx.ins[i] \in Unspent(chain)
    /\ \A i, j \in DOMAIN tx.ins : tx.ins[i] = tx.ins[j] => i = j
    /\ LET Ins == [i \in DOMAIN tx.ins |-> Utxo(chain, tx.ins[i]).out]
       IN SumSatoshis(Ins) >= SumSatoshis(tx.outs)
    /\ ScriptsHold(chain, tx)

=============================================================================
