---------------------------- MODULE StasBuilders ----------------------------
(***************************************************************************)
(* The nine operations of the library as pure operators: for each one the  *)
(* conditions under which the *WithCallback function does not throw        *)
(* (xGuards) and the transaction it then builds (xTx).                     *)
(*                                                                         *)
(* A token or payment UTXO is a record [op, out] (StasTx!Utxo).  pay is    *)
(* the sequence of payment UTXOs: empty for a zero fee transaction, else   *)
(* one element (contract() takes any number).  A payment key is the key    *)
(* that owns the payment, a token key the key that owns the token.         *)
(***************************************************************************)
EXTENDS StasTx

MaxUnlockSegments == 5
MaxOpN == 16          \* OP_17 does not exist: fromASM throws

Ops(utxos) == [i \in DOMAIN utxos |-> utxos[i].op]
Outs(utxos) == [i \in DOMAIN utxos |-> utxos[i].out]
PlainUnlocks(utxos) == [i \in DOMAIN utxos |-> PlainUnlock]

-----------------------------------------------------------------------------
(* Change: handleChange, handleChangeForMerge *)

ChangeSatoshis(pay) == SumSatoshis(Outs(pay)) - Fee

ChangeCovered(pay) == pay # <<>> => ChangeSatoshis(pay) >= 1

ChangeOutputs(pay) ==
    IF pay = <<>> THEN <<>>
    ELSE <<P2pkhOut(pay[1].out.pkh, ChangeSatoshis(pay))>>

ChangeSegments(pay) ==
    IF pay = <<>> THEN <<>>
    ELSE <<Segment(pay[1].out.pkh, ChangeSatoshis(pay))>>

\* One token input, its payment, the given outputs and the change.
BasicTx(u, outs, segments, pay) ==
    [ins |-> <<u.op>> \o Ops(pay),
     outs |-> outs \o ChangeOutputs(pay),
     unlock |-> <<partialSTASUnlockingScript(segments \o ChangeSegments(pay), pay)>>
                  \o PlainUnlocks(pay)]

StasOutputs(tok, dests) ==
    [k \in DOMAIN dests |-> StasOut(dests[k].pkh, tok, dests[k].satoshis)]

NotToIssuer(tok, dests) == \A k \in DOMAIN dests : dests[k].pkh # tok.red

-----------------------------------------------------------------------------
(* contract and issue: the first input is an ordinary P2PKH *)

\* Mutant: the fee is taken twice.
contractChangeTwoFees(inputs, pay, tokenSatoshis) ==
    LET total == SumSatoshis(Outs(inputs)) + SumSatoshis(Outs(pay))
    IN IF pay = <<>>
         THEN P2pkhOut(inputs[1].out.pkh, total - tokenSatoshis)
         ELSE P2pkhOut(pay[1].out.pkh, total - (2 * Fee + tokenSatoshis))

\* With a payment the whole surplus, the one of the inputs too, is paid to the
\* payment key; without one it goes back to the issuer and may be zero.
contractChange(inputs, pay, tokenSatoshis) ==
    LET total == SumSatoshis(Outs(inputs)) + SumSatoshis(Outs(pay))
    IN IF pay = <<>>
         THEN P2pkhOut(inputs[1].out.pkh, total - tokenSatoshis)
         ELSE P2pkhOut(pay[1].out.pkh, total - (Fee + tokenSatoshis))

contractGuards(inputs, pay, satsPerToken, tokenSatoshis) ==
    /\ inputs # <<>>
    /\ tokenSatoshis # 0
    /\ satsPerToken # 0
    /\ satsPerToken <= tokenSatoshis
    /\ tokenSatoshis % satsPerToken = 0
    /\ tokenSatoshis <= SumSatoshis(Outs(inputs))
    /\ contractChange(inputs, pay, tokenSatoshis).satoshis >= 0

contractTx(inputs, pay, symbol, data, tokenSatoshis) ==
    LET issuer == inputs[1].out.pkh
        schema == [red |-> issuer, symbol |-> symbol,
                   isSplittable |-> TRUE, data |-> data]
    IN [ins |-> Ops(inputs) \o Ops(pay),
        outs |-> <<[kind |-> "contract", pkh |-> issuer, tok |-> schema,
                    satoshis |-> tokenSatoshis],
                   contractChange(inputs, pay, tokenSatoshis)>>,
        unlock |-> PlainUnlocks(inputs) \o PlainUnlocks(pay)]

\* issueInfo: [addr, satoshis, data] per output.
isIssueInfoValid(issueInfo) ==
    issueInfo # <<>> /\ \A k \in DOMAIN issueInfo : issueInfo[k].satoshis >= 1

\* getSymbolFromContract: the schema begins at the first {" of the script, which
\* may lie inside the key hash; JSON.parse then throws.
SchemaFound(contract) == contract.out.pkh \notin BraceKeys

\* Mutant: the symbol is not compared with the contract's schema.
issueGuardsAnySymbol(contract, issueInfo, pay, symbol) ==
    /\ isIssueInfoValid(issueInfo)
    /\ contract.out.kind = "contract"
    /\ SchemaFound(contract)
    /\ SumSatoshis(issueInfo) = contract.out.satoshis
    /\ ChangeCovered(pay)

\* Mutant: less than the contract holds may be issued.
issueGuardsAtMost(contract, issueInfo, pay, symbol) ==
    /\ isIssueInfoValid(issueInfo)
    /\ contract.out.kind = "contract"
    /\ SchemaFound(contract)
    /\ contract.out.tok.symbol = symbol
    /\ SumSatoshis(issueInfo) <= contract.out.satoshis
    /\ ChangeCovered(pay)

\* Issuing to the issuer is not refused.
issueGuards(contract, issueInfo, pay, symbol) ==
    /\ isIssueInfoValid(issueInfo)
    /\ contract.out.kind = "contract"
    /\ SchemaFound(contract)
    /\ contract.out.tok.symbol = symbol
    /\ SumSatoshis(issueInfo) = contract.out.satoshis
    /\ ChangeCovered(pay)

issueTx(contract, issueInfo, pay, isSplittable, symbol) ==
    LET Tok(info) == [red |-> contract.out.pkh, symbol |-> symbol,
                      isSplittable |-> isSplittable, data |-> info.data]
    IN [ins |-> <<contract.op>> \o Ops(pay),
        outs |-> [k \in DOMAIN issueInfo |->
                     StasOut(issueInfo[k].addr, Tok(issueInfo[k]),
                             issueInfo[k].satoshis)]
                   \o ChangeOutputs(pay),
        unlock |-> <<PlainUnlock>> \o PlainUnlocks(pay)]

-----------------------------------------------------------------------------
(* transfer, split, redeem, redeemSplit: one token input *)

transferGuards(u, dest, pay) ==
    /\ dest # getPublicKeyHash(u.out)
    /\ ChangeCovered(pay)

transferTx(u, dest, pay) ==
    BasicTx(u, <<StasOut(dest, u.out.tok, u.out.satoshis)>>,
            <<Segment(dest, u.out.satoshis)>>, pay)

\* Mutant: the destinations are not compared with the issuer.
splitGuardsAnyHolder(u, dests, pay) ==
    /\ dests # <<>>
    /\ u.out.tok.isSplittable
    /\ \A k \in DOMAIN dests : dests[k].satoshis > 0
    /\ ChangeCovered(pay)
    /\ Len(dests) + Len(pay) <= MaxUnlockSegments

\* The builder never compares the sum of the destinations with the input.
splitGuards(u, dests, pay) ==
    /\ dests # <<>>
    /\ u.out.tok.isSplittable
    /\ \A k \in DOMAIN dests : dests[k].satoshis > 0
    /\ NotToIssuer(u.out.tok, dests)
    /\ ChangeCovered(pay)
    /\ Len(dests) + Len(pay) <= MaxUnlockSegments

splitTx(u, dests, pay) ==
    BasicTx(u, StasOutputs(u.out.tok, dests), dests, pay)

\* The contract key is not compared with the token's redemption key.
redeemGuards(pay) == ChangeCovered(pay)

redeemTx(u, contractPkh, pay) ==
    BasicTx(u, <<P2pkhOut(contractPkh, u.out.satoshis)>>,
            <<Segment(contractPkh, u.out.satoshis)>>, pay)

redeemSats(u, dests) == u.out.satoshis - SumSatoshis(dests)

\* Mutant: nothing need be left to redeem.
redeemSplitGuardsNoRest(u, dests, pay) ==
    /\ dests # <<>>
    /\ u.out.tok.isSplittable
    /\ \A k \in DOMAIN dests : dests[k].satoshis > 0
    /\ NotToIssuer(u.out.tok, dests)
    /\ ChangeCovered(pay)
    /\ 1 + Len(dests) + Len(pay) <= MaxUnlockSegments

redeemSplitGuards(u, dests, pay) ==
    /\ dests # <<>>
    /\ u.out.tok.isSplittable
    /\ \A k \in DOMAIN dests : dests[k].satoshis > 0
    /\ redeemSats(u, dests) > 0
    /\ NotToIssuer(u.out.tok, dests)
    /\ ChangeCovered(pay)
    /\ 1 + Len(dests) + Len(pay) <= MaxUnlockSegments

redeemSplitTx(u, contractPkh, dests, pay) ==
    BasicTx(u,
            <<P2pkhOut(contractPkh, redeemSats(u, dests))>>
              \o StasOutputs(u.out.tok, dests),
            <<Segment(contractPkh, redeemSats(u, dests))>> \o dests, pay)

-----------------------------------------------------------------------------
(* merge and mergeSplit: two token inputs with identical scripts *)

SameScript(u1, u2) == u1.out.tok = u2.out.tok /\ u1.out.pkh = u2.out.pkh

Pieces(chain, u) == numberOfPieces(chain, u.op.txid, u.out.tok)

OpNEncodable(chain, u) == u.op.vout <= MaxOpN /\ Pieces(chain, u) <= MaxOpN

MergeTxOf(chain, u1, u2, dests, pay) ==
    LET segments == dests \o ChangeSegments(pay)
        Unlock(other) ==
            partialStasMergeScript(segments, pay, other.op, Pieces(chain, other))
    IN [ins |-> <<u1.op, u2.op>> \o Ops(pay),
        outs |-> StasOutputs(u1.out.tok, dests) \o ChangeOutputs(pay),
        unlock |-> <<Unlock(u2), Unlock(u1)>> \o PlainUnlocks(pay)]

\* Mutant: tokens that cannot be split may be merged.
mergeGuardsForNFT(chain, u1, u2, dests, pay) ==
    /\ SameScript(u1, u2)
    /\ NotToIssuer(u1.out.tok, dests)
    /\ ChangeCovered(pay)
    /\ OpNEncodable(chain, u1) /\ OpNEncodable(chain, u2)

mergeGuards(chain, u1, u2, dests, pay) ==
    /\ u1.out.tok.isSplittable
    /\ SameScript(u1, u2)
    /\ NotToIssuer(u1.out.tok, dests)
    /\ ChangeCovered(pay)
    /\ OpNEncodable(chain, u1) /\ OpNEncodable(chain, u2)

mergeDests(u1, u2, dest) ==
    <<Segment(dest, u1.out.satoshis + u2.out.satoshis)>>

mergeTx(chain, u1, u2, dest, pay) ==
    MergeTxOf(chain, u1, u2, mergeDests(u1, u2, dest), pay)

\* mergeSplit takes both amounts from the caller and does not add them up.
mergeSplitTx(chain, u1, u2, dests, pay) == MergeTxOf(chain, u1, u2, dests, pay)

=============================================================================
