------------------------------- MODULE SwapTx -------------------------------
(***************************************************************************)
(* lib/swap.js as pure operators: the transactions its functions build,    *)
(* what each signature covers, and what the swap branch of the STAS script *)
(* (transaction type OP_1) demands of them.                                *)
(*                                                                         *)
(* Input 1 is the maker's, input 2 the taker's, input 3 the payment.       *)
(* Output 1 is what the maker wanted, output 2 the maker's asset in the    *)
(* taker's hands, then an optional commission, last the change.  The whole *)
(* parent transaction of the counterparty's input is pushed into the       *)
(* unlocking script, where the covenant reads the counterparty's script.   *)
(***************************************************************************)
EXTENDS Signatures

MinSwapSegments == 2

\* The same script for another owner: bytes 3 to 22 are replaced.
WithOwner(out, pkh, satoshis) == [out EXCEPT !.pkh = pkh, !.satoshis = satoshis]

-----------------------------------------------------------------------------
(* The maker's offer *)

\* wantedInfo: type "native", or a token's script; an amount in either case.
Wanted == [type: {"native"}, tok: {NoTok}, satoshis: Nat] \cup
          [type: {"token"}, tok: Tokens, satoshis: Nat]

makerWantedOutput(maker, wanted) ==
    IF wanted.type = "native" THEN P2pkhOut(maker, wanted.satoshis)
    ELSE StasOut(maker, wanted.tok, wanted.satoshis)

\* Mutant: the wanted output repeats the amount that is offered.
offerTxAmount(u, wanted) ==
    [ins |-> <<u.op>>,
     outs |-> <<makerWantedOutput(u.out.pkh,
                                  [wanted EXCEPT !.satoshis = u.out.satoshis])>>]

offerTx(u, wanted) ==
    [ins |-> <<u.op>>, outs |-> <<makerWantedOutput(u.out.pkh, wanted)>>]

createSwapOffer(u, wanted) ==
    LET tx == offerTx(u, wanted)
    IN [ins |-> tx.ins, outs |-> tx.outs, sig |-> SignSingle(u.out, tx)]

createUnsignedSwapOffer(u, wanted) ==
    LET tx == offerTx(u, wanted)
    IN [ins |-> tx.ins, outs |-> tx.outs, sig |-> NoSig]

-----------------------------------------------------------------------------
(* What a taker makes of it *)

\* commissionInfo: null, or an address that may be null and an amount.
NoCommission == [pkh |-> NoKey, satoshis |-> 0]
Commissions == [pkh: Keys \cup {NoKey}, satoshis: Nat]

hasCommission(comm) == comm.pkh # NoKey /\ comm.satoshis > 0

CommissionOutputs(comm) ==
    IF hasCommission(comm) THEN <<P2pkhOut(comm.pkh, comm.satoshis)>> ELSE <<>>

\* Mutant: the commission is left to the taker's input alone.
SwapChangeOfFee(pay, comm) == pay.out.satoshis - Fee

\* handleChangeForSwap adds up the inputs behind the first two.  The amount of
\* the commission is taken off whether or not it got an output.
SwapChange(pay, comm) == pay.out.satoshis - comm.satoshis - Fee

\* Mutant: output 2 stays with the maker.
swapBodyOwnerKept(offer, makerOut, u2, takerSatoshis, comm, pay) ==
    [ins |-> offer.ins \o <<u2.op, pay.op>>,
     outs |-> offer.outs
                \o <<WithOwner(makerOut, makerOut.pkh, takerSatoshis)>>
                \o CommissionOutputs(comm)
                \o <<P2pkhOut(pay.out.pkh, SwapChange(pay, comm))>>]

swapBody(offer, makerOut, u2, takerSatoshis, comm, pay) ==
    [ins |-> offer.ins \o <<u2.op, pay.op>>,
     outs |-> offer.outs
                \o <<WithOwner(makerOut, u2.out.pkh, takerSatoshis)>>
                \o CommissionOutputs(comm)
                \o <<P2pkhOut(pay.out.pkh, SwapChange(pay, comm))>>]

\* The amount of every output and the key it is meant for.
swapSegments(tx) ==
    [k \in DOMAIN tx.outs |-> Segment(tx.outs[k].pkh, tx.outs[k].satoshis)]

\* other: the counterparty's outpoint; value: the amount in the preimage.
swapUnlock(tx, pay, other, value) ==
    [type |-> "swap", pairs |-> swapSegments(tx), funding |-> Funding(<<pay>>),
     other |-> other, value |-> value]

takerUnlock(tx, u2, pay) ==
    IF u2.out.kind = "stas"
      THEN swapUnlock(tx, pay, tx.ins[1], u2.out.satoshis)
      ELSE PlainUnlock

\* takerSatoshis stands for the amount of the maker's input, too.
makerUnlock(tx, makerOut, u2, takerSatoshis, pay) ==
    IF makerOut.kind = "stas"
      THEN swapUnlock(tx, pay, u2.op, takerSatoshis)
      ELSE PlainUnlock

\* OP_n of the counterparty's vout is written for every token input.
swapOpN(offer, makerOut, u2, pay) ==
    /\ makerOut.kind = "stas" =>
          u2.op.vout <= MaxOpN /\ pay.op.vout <= MaxOpN
    /\ u2.out.kind = "stas" =>
          offer.ins[1].vout <= MaxOpN /\ pay.op.vout <= MaxOpN

\* Mutant: the payment need not cover the fee.
acceptSwapOfferGuardsAnyChange(offer, makerOut, u2, takerSatoshis, comm, pay) ==
    /\ takerSatoshis >= 1
    /\ swapOpN(offer, makerOut, u2, pay)

acceptSwapOfferGuards(offer, makerOut, u2, takerSatoshis, comm, pay) ==
    /\ takerSatoshis >= 1
    /\ SwapChange(pay, comm) >= 1
    /\ swapOpN(offer, makerOut, u2, pay)

acceptSwapOffer(offer, makerOut, u2, takerSatoshis, comm, pay) ==
    LET tx == swapBody(offer, makerOut, u2, takerSatoshis, comm, pay)
    IN [ins |-> tx.ins, outs |-> tx.outs,
        sigs |-> <<offer.sig, SignAll(u2.out, tx), SignAll(pay.out, tx)>>,
        unlock |-> <<makerUnlock(tx, makerOut, u2, takerSatoshis, pay),
                     takerUnlock(tx, u2, pay), PlainUnlock>>]

\* For a taker who gives a token.  (With an ordinary output the function calls
\* slice on a Script object, which has no such method, and throws.)
acceptUnsignedSwapOfferGuards(offer, u2, takerSatoshis, pay) ==
    /\ u2.out.kind = "stas"
    /\ u2.out.satoshis >= 1
    /\ takerSatoshis >= 1
    /\ SwapChange(pay, NoCommission) >= 1
    /\ offer.ins[1].vout <= MaxOpN /\ pay.op.vout <= MaxOpN

acceptUnsignedSwapOffer(offer, makerOut, u2, takerSatoshis, pay) ==
    LET tx == swapBody(offer, makerOut, u2, takerSatoshis, NoCommission, pay)
    IN [ins |-> tx.ins, outs |-> tx.outs,
        sigs |-> <<NoSig, SignAll(u2.out, tx), SignAll(pay.out, tx)>>,
        unlock |-> <<PlainUnlock, takerUnlock(tx, u2, pay), PlainUnlock>>]

\* Meant for a taker who gives ordinary satoshis, and signs like for them.
acceptUnsignedNativeSwapOfferGuards(takerSatoshis, pay) ==
    /\ takerSatoshis >= 1
    /\ SwapChange(pay, NoCommission) >= 1

acceptUnsignedNativeSwapOffer(offer, makerOut, u2, takerSatoshis, pay) ==
    LET tx == swapBody(offer, makerOut, u2, takerSatoshis, NoCommission, pay)
    IN [ins |-> tx.ins, outs |-> tx.outs,
        sigs |-> <<NoSig, SignAll(u2.out, tx), SignAll(pay.out, tx)>>,
        unlock |-> <<PlainUnlock, PlainUnlock, PlainUnlock>>]

-----------------------------------------------------------------------------
(* The third step of an unsigned swap, and the single call for both parties *)

\* Mutant: the signature is made for the true amount of the maker's input.
makerSignedTrueOutput(makerOut, tx) == makerOut

\* The amount of output 2 is signed as the amount of the maker's input.
makerSignedOutput(makerOut, tx) ==
    [makerOut EXCEPT !.satoshis = tx.outs[2].satoshis]

makerSignGuards(tx, makerOut, pay) ==
    makerOut.kind = "stas" =>
        tx.ins[2].vout <= MaxOpN /\ pay.op.vout <= MaxOpN

\* Nothing of the transaction that came back is compared with the offer.
makerSignSwapOffer(tx, makerOut, pay) ==
    LET signed == makerSignedOutput(makerOut, tx)
    IN [tx EXCEPT
          !.sigs[1] = SignAll(signed, tx),
          !.unlock[1] = IF makerOut.kind = "stas"
                          THEN swapUnlock(tx, pay, tx.ins[2], signed.satoshis)
                          ELSE PlainUnlock]

\* Deprecated in the source.
allInOneSwapGuards(u1, wanted, u2, takerSatoshis, pay) ==
    /\ u1.out.satoshis = takerSatoshis
    /\ wanted.satoshis = u2.out.satoshis
    /\ SwapChange(pay, NoCommission) >= 1
    /\ {u1.op.vout, u2.op.vout, pay.op.vout} \subseteq 0..MaxOpN

allInOneSwap(u1, wanted, u2, takerSatoshis, pay) ==
    LET tx == swapBody(offerTx(u1, wanted), u1.out, u2, takerSatoshis,
                       NoCommission, pay)
    IN [ins |-> tx.ins, outs |-> tx.outs,
        sigs |-> <<SignAll(u1.out, tx), SignAll(u2.out, tx), SignAll(pay.out, tx)>>,
        unlock |-> <<swapUnlock(tx, pay, u2.op, u1.out.satoshis),
                     swapUnlock(tx, pay, u1.op, u2.out.satoshis), PlainUnlock>>]

-----------------------------------------------------------------------------
(* The covenant of a token input of a swap *)

SwapUnlocks ==
    {PlainUnlock} \cup
    [type: {"swap"}, pairs: Seq(Segments),
     funding: Outpoints \cup [txid: {0}, vout: Nat], other: Outpoints, value: Nat]

SwapTxs == [ins: Seq(Outpoints), outs: Seq(Outputs), sigs: Seq(Sigs),
            unlock: Seq(SwapUnlocks)]

\* Mutant: a parent with a payment and two traded inputs is out of reach.
InReachTwoInputs(chain, op) ==
    Len(chain[op.txid].ins) < MaxParentInputs /\ op.vout <= MaxParentVout

\* The counterparty's parent: at most three inputs, one of the first outputs.
InReach(chain, op) ==
    Len(chain[op.txid].ins) <= MaxParentInputs /\ op.vout <= MaxParentVout

\* The amounts behind the second segment belong to the taker's asset.
TakerTotal(segs) == SegmentTotal(segs) - segs[2].satoshis

\* Mutant: what the taker gives may be less than his input.
TakerAssetNotInflated(segs, takerOut) == TakerTotal(segs) <= takerOut.satoshis

\* What the taker gives is his whole input, no more and no less.
TakerAssetWhole(segs, takerOut) == TakerTotal(segs) = takerOut.satoshis

\* What the taker receives is the maker's whole input.
MakerAssetWhole(segs, makerOut) == segs[2].satoshis = makerOut.satoshis

\* Output 1 and those behind output 2 carry the taker's asset, output 2 the
\* maker's; but the redemption key of the token spent gets plain satoshis in
\* output 1.
SwapOutput(red, makerOut, takerOut, k, seg) ==
    IF k = 2 THEN WithOwner(makerOut, seg.pkh, seg.satoshis)
    ELSE IF k = 1 /\ seg.pkh = red THEN P2pkhOut(seg.pkh, seg.satoshis)
    ELSE WithOwner(takerOut, seg.pkh, seg.satoshis)

SwapOutputs(red, makerOut, takerOut, segs, change) ==
    [k \in 1..Len(segs) |-> SwapOutput(red, makerOut, takerOut, k, segs[k])]
      \o <<P2pkhOut(change.pkh, change.satoshis)>>

\* A token in the taker's input may be paid out in parts only when it can be
\* split; whatever token the maker's input holds does not matter for that.
SwapCovenantHolds(chain, tx, i) ==
    LET u == tx.unlock[i]
        segs == Front(u.pairs)
        makerOut == Utxo(chain, tx.ins[1]).out
        takerOut == Utxo(chain, tx.ins[2]).out
        this == IF i = 1 THEN makerOut ELSE takerOut
    IN /\ u.type = "swap"
       /\ i \in 1..2
       /\ u.other = tx.ins[3 - i]
       /\ tx.ins = <<tx.ins[1], tx.ins[2]>> \o FundingInputs(u)
       /\ InReach(chain, u.other)
       /\ u.value = this.satoshis
       /\ Len(segs) \in MinSwapSegments..MaxSegments
       /\ Len(segs) > MinSwapSegments => i = 1 \/ this.tok.isSplittable
       /\ \A k \in DOMAIN segs : segs[k].satoshis > 0
       /\ MakerAssetWhole(segs, makerOut)
       /\ TakerAssetWhole(segs, takerOut)
       /\ tx.outs = SwapOutputs(this.tok.red, makerOut, takerOut, segs, Last(u.pairs))

\* What a node accepts as a swap.
SwapAccepted(chain, tx) ==
    /\ \A i \in DOMAIN tx.ins : tx.ins[i] \in Unspent(chain)
    /\ \A i, j \in DOMAIN tx.ins : tx.ins[i] = tx.ins[j] => i = j
    /\ SumSatoshis([i \in DOMAIN tx.ins |-> Utxo(chain, tx.ins[i]).out])
         >= SumSatoshis(tx.outs)
    /\ \A i \in DOMAIN tx.ins : SigHolds(chain, tx, i, tx.sigs[i])
    /\ \A i \in DOMAIN tx.ins :
          Utxo(chain, tx.ins[i]).out.kind = "stas" => SwapCovenantHolds(chain, tx, i)

=============================================================================
