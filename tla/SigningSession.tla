--------------------------- MODULE SigningSession ---------------------------
(***************************************************************************)
(* The unsigned forms (lib/unsigned*.js): a call without callbacks returns *)
(* the transaction with its unlocking data but no signatures, and a list   *)
(* signingInfo that says which key must sign which input.  The keys may    *)
(* lie with different signers, who add their signatures one by one, in any *)
(* order and at any time, and one of them then broadcasts.                 *)
(***************************************************************************)
EXTENDS Signatures, Chain

CONSTANTS
    Genesis,        \* transactions that exist at the start, tokens among them
    Sessions,       \* transactions that wait for signatures together
    TokenAmounts,   \* tokenSatoshis of contract()
    IssueLists,     \* issueInfo arguments
    DestLists,      \* splitDestinations arguments
    Retries,        \* sessions whose signers may sign once more what is signed
    MaxTxs          \* bound on the length of the chain

VARIABLES
    sessions        \* transactions under way with what has been signed of them

vars == <<chain, sessions>>

ASSUME GenesisAssumption ==
    /\ Genesis \in Seq(Seq(Outputs))
    /\ \A t \in DOMAIN Genesis : \A k \in DOMAIN Genesis[t] :
          Genesis[t][k].kind # "p2pkh" => Genesis[t][k].tok \in Tokens

ASSUME ArgumentsAssumption ==
    /\ DestLists \subseteq Seq(Destinations)
    /\ IssueLists \subseteq Seq(IssueInfos)
    /\ TokenAmounts \subseteq Nat /\ Retries \subseteq Sessions
    /\ Payers \subseteq Keys

-----------------------------------------------------------------------------
(* signingInfo *)

\* inputIndex counts from zero; contract() gives no script and amount.
SignInfos == [inputIndex: Nat, publicKey: Keys, prev: Outputs,
              type: {"stas", "undefined"}]

\* Mutant: nobody is told to sign for the payment.
OwnersOnly(inputs) ==
    [i \in 1..1 |->
        [inputIndex |-> 0, publicKey |-> inputs[1].out.pkh,
         prev |-> inputs[1].out,
         type |-> IF inputs[1].out.kind = "stas" THEN "stas" ELSE "undefined"]]

\* The loop over the inputs every builder but contract() ends with.
SignInfoList(inputs) ==
    [i \in DOMAIN inputs |->
        [inputIndex |-> i - 1, publicKey |-> inputs[i].out.pkh,
         prev |-> inputs[i].out,
         type |-> IF inputs[i].out.kind = "stas" THEN "stas" ELSE "undefined"]]

\* contract() writes the output index of the UTXO where the input's belongs.
ContractSignInfo(inputs) ==
    [i \in DOMAIN inputs |->
        [inputIndex |-> inputs[i].op.vout, publicKey |-> inputs[i].out.pkh,
         prev |-> inputs[i].out, type |-> "undefined"]]

-----------------------------------------------------------------------------
NoTx == [ins |-> <<>>, outs |-> <<>>, unlock |-> <<>>]

\* signed[i]: the signatures in the unlocking script of input i;
\* applied[k]: how often entry k of signingInfo has been signed.
IdleSession == [phase |-> "idle", op |-> "none", tx |-> NoTx, infos |-> <<>>,
                signed |-> <<>>, applied |-> <<>>]

Init ==
    /\ chain = [t \in DOMAIN Genesis |-> [ins |-> <<>>, outs |-> Genesis[t]]]
    /\ sessions = [s \in Sessions |-> IdleSession]

InFlight == {s \in Sessions : sessions[s].phase # "idle"}

Open(s, op, tx, infos) ==
    /\ sessions[s].phase = "idle"
    /\ Len(chain) + Cardinality(InFlight) < MaxTxs
    /\ sessions' = [sessions EXCEPT ![s] =
                      [phase |-> "signing", op |-> op, tx |-> tx, infos |-> infos,
                       signed |-> [i \in DOMAIN tx.ins |-> <<>>],
                       applied |-> [k \in DOMAIN infos |-> 0]]]
    /\ UNCHANGED chain

-----------------------------------------------------------------------------
(* The unsigned calls; the arguments are proper ones, as README.md and the *)
(* comments of the builders have them.                                     *)

UnsignedContract(s) ==
    \E u \in Utxos("p2pkh"), pay \in Payments :
    \E symbol \in Symbols, data \in Data, amount \in TokenAmounts :
        /\ u \notin ToSet(pay)
        /\ contractGuards(<<u>>, pay, 1, amount)
        /\ Open(s, "contract", contractTx(<<u>>, pay, symbol, data, amount),
                ContractSignInfo(<<u>> \o pay))

UnsignedIssue(s) ==
    \E u \in Utxos("contract"), info \in IssueLists, pay \in Payments :
        /\ issueGuards(u, info, pay, u.out.tok.symbol)
        /\ Open(s, "issue", issueTx(u, info, pay, TRUE, u.out.tok.symbol),
                SignInfoList(<<u>> \o pay))

UnsignedTransfer(s) ==
    \E u \in Utxos("stas"), dest \in Keys, pay \in Payments :
        /\ transferGuards(u, dest, pay)
        /\ Open(s, "transfer", transferTx(u, dest, pay), SignInfoList(<<u>> \o pay))

UnsignedSplit(s) ==
    \E u \in Utxos("stas"), dests \in DestLists, pay \in Payments :
        /\ SumSatoshis(dests) = u.out.satoshis /\ Len(dests) <= 4
        /\ splitGuards(u, dests, pay)
        /\ Open(s, "split", splitTx(u, dests, pay), SignInfoList(<<u>> \o pay))

UnsignedRedeem(s) ==
    \E u \in Utxos("stas"), pay \in Payments :
        /\ redeemGuards(pay)
        /\ Open(s, "redeem", redeemTx(u, u.out.tok.red, pay),
                SignInfoList(<<u>> \o pay))

UnsignedRedeemSplit(s) ==
    \E u \in Utxos("stas"), dests \in DestLists, pay \in Payments :
        /\ Len(dests) <= 3
        /\ redeemSplitGuards(u, dests, pay)
        /\ Open(s, "redeemSplit", redeemSplitTx(u, u.out.tok.red, dests, pay),
                SignInfoList(<<u>> \o pay))

UnsignedMerge(s) ==
    \E u1, u2 \in Utxos("stas"), dest \in Keys, pay \in Payments :
        /\ u1 # u2
        /\ mergeGuards(chain, u1, u2, mergeDests(u1, u2, dest), pay)
        /\ Open(s, "merge", mergeTx(chain, u1, u2, dest, pay),
                SignInfoList(<<u1, u2>> \o pay))

UnsignedMergeSplit(s) ==
    \E u1, u2 \in Utxos("stas"), dests \in DestLists, pay \in Payments :
        /\ u1 # u2
        /\ Len(dests) = 2
        /\ SumSatoshis(dests) = u1.out.satoshis + u2.out.satoshis
        /\ mergeGuards(chain, u1, u2, dests, pay)
        /\ Open(s, "mergeSplit", mergeSplitTx(chain, u1, u2, dests, pay),
                SignInfoList(<<u1, u2>> \o pay))

-----------------------------------------------------------------------------
(* Signers *)

\* finaliseSTASUnlockingScript puts signature and key behind what is there; the
\* script of an ordinary input is written anew.
WithSignature(there, info, sig) ==
    IF info.type = "stas" THEN Append(there, sig) ELSE <<sig>>

\* Mutant: the amount of the first entry is signed for every input.
SignatureOfFirst(infos, k, tx) ==
    [SignAll(infos[1].prev, tx) EXCEPT !.by = infos[k].publicKey]

\* The signer passes on script and amount as the entry has them.
SignatureOf(infos, k, tx) ==
    [SignAll(infos[k].prev, tx) EXCEPT !.by = infos[k].publicKey]

MaySign(s, k) ==
    /\ sessions[s].phase = "signing"
    /\ sessions[s].applied[k] < (IF s \in Retries THEN 2 ELSE 1)

\* The holder of the key carries out one entry of signingInfo.
SignEntry(s, k) ==
    LET job == sessions[s]
        i == job.infos[k].inputIndex + 1
    IN /\ MaySign(s, k)
       /\ job.op # "contract"
       /\ sessions' = [sessions EXCEPT
              ![s].signed[i] = WithSignature(job.signed[i], job.infos[k],
                                             SignatureOf(job.infos, k, job.tx)),
              ![s].applied[k] = @ + 1]
       /\ UNCHANGED chain

\* Transaction.sign of bsv, for an unsigned contract: the key signs every input
\* whose output belongs to it.
SignWithKey(s, k) ==
    LET job == sessions[s]
        Prev(i) == Utxo(chain, job.tx.ins[i]).out
    IN /\ MaySign(s, k)
       /\ job.op = "contract"
       /\ sessions' = [sessions EXCEPT
              ![s].signed = [i \in DOMAIN @ |->
                                IF Prev(i).pkh = job.infos[k].publicKey
                                  THEN <<SignAll(Prev(i), job.tx)>> ELSE @[i]],
              ![s].applied[k] = @ + 1]
       /\ UNCHANGED chain

\* What a node demands of the signatures: exactly one behind the unlocking data.
FullySigned(job) ==
    \A i \in DOMAIN job.tx.ins :
        Len(job.signed[i]) = 1 /\ SigHolds(chain, job.tx, i, job.signed[i][1])

Accepted(job) == FullySigned(job) /\ NetworkAccepts(chain, job.tx)

BroadcastAccepted(s) ==
    /\ sessions[s].phase = "signing"
    /\ Accepted(sessions[s])
    /\ AddToChain(sessions[s].tx)
    /\ sessions' = [sessions EXCEPT ![s] = IdleSession]

Stale(job) == \E i \in DOMAIN job.tx.ins : job.tx.ins[i] \notin Unspent(chain)

Overdone(job) == \E i \in DOMAIN job.signed : Len(job.signed[i]) > 1

\* broadcast() throws, and nothing can help the transaction any more.
BroadcastRefused(s) ==
    /\ sessions[s].phase = "signing"
    /\ Stale(sessions[s]) \/ Overdone(sessions[s])
    /\ sessions' = [sessions EXCEPT ![s] = IdleSession]
    /\ UNCHANGED chain

-----------------------------------------------------------------------------
OpenSession(s) ==
    \/ UnsignedContract(s) \/ UnsignedIssue(s)
    \/ UnsignedTransfer(s) \/ UnsignedSplit(s)
    \/ UnsignedRedeem(s) \/ UnsignedRedeemSplit(s)
    \/ UnsignedMerge(s) \/ UnsignedMergeSplit(s)

Sign(s) == \E k \in DOMAIN sessions[s].infos : SignEntry(s, k) \/ SignWithKey(s, k)

Finish(s) == BroadcastAccepted(s) \/ BroadcastRefused(s)

Next == \E s \in Sessions : OpenSession(s) \/ Sign(s) \/ Finish(s)

Spec == Init /\ [][Next]_vars

\* Signers sign what they are asked to, and somebody broadcasts.
FairSpec == Spec /\ \A s \in Sessions : WF_vars(Sign(s)) /\ WF_vars(Finish(s))

-----------------------------------------------------------------------------
(* Properties *)

Jobs == [phase: {"idle", "signing"},
         op: {"none", "contract", "issue", "transfer", "split", "redeem",
              "redeemSplit", "merge", "mergeSplit"},
         tx: BuiltTxs, infos: Seq(SignInfos), signed: Seq(Seq(Sigs)),
         applied: Seq(0..2)]

\* Type invariant of the two variables.
TypeOK == chain \in Seq(Txs) /\ sessions \in [Sessions -> Jobs]

\* A key that signs a contract signs for all of its inputs.
Applied(job, k) ==
    \E j \in DOMAIN job.infos :
        /\ job.applied[j] > 0
        /\ j = k \/ (/\ job.op = "contract"
                    /\ job.infos[j].publicKey = job.infos[k].publicKey)

AllApplied(job) == \A k \in DOMAIN job.infos : Applied(job, k)

TokenEntriesOnce(job) ==
    \A k \in DOMAIN job.infos : job.infos[k].type = "stas" => job.applied[k] = 1

\* What README.md asks of callers beyond what the guards of the calls check:
\* destinations hold satoshis, and the tokens of an issue, as those that exist
\* at the start, lie where the covenant of a merge can count back to them.
ProperArguments ==
    /\ \A dests \in DestLists : \A k \in DOMAIN dests : dests[k].satoshis > 0
    /\ \A info \in IssueLists : Len(info) <= MaxParentVout + 1
    /\ \A t \in DOMAIN Genesis : \A k \in DOMAIN Genesis[t] :
          Genesis[t][k].kind = "stas" =>
              k <= MaxParentVout + 1 /\ Genesis[t][k].satoshis > 0

\* In whatever order and by whomever the entries of signingInfo are carried
\* out, the transaction is acceptable exactly when all have been, those of
\* token inputs only once: nothing but the entries is needed to sign, ordinary
\* inputs may be signed again, a token input must not be
\* (finaliseSTASUnlockingScript appends, utils.js:141).
AcceptedWhenSigned ==
    \A s \in InFlight :
        ~Stale(sessions[s]) =>
            (Accepted(sessions[s])
                <=> AllApplied(sessions[s]) /\ TokenEntriesOnce(sessions[s]))

\* A transaction that waits for signatures does not wait for ever: signingInfo
\* names a signer for every input, and if a UTXO is spent by another
\* transaction meanwhile, broadcast() tells.
SessionsEnd ==
    \A s \in Sessions : sessions[s].phase = "signing" ~> sessions[s].phase = "idle"

\* unsignedContract.js:3: "returns the unsigned contract and signInfo[]
\* {inputIndex, publicKey, sighash}": the key of an entry owns the input that
\* the entry names.
SignInfoNamesOwnedInput ==
    \A s \in InFlight : \A k \in DOMAIN sessions[s].infos :
        LET info == sessions[s].infos[k]
            ins == sessions[s].tx.ins
        IN /\ info.inputIndex + 1 \in DOMAIN ins
           /\ Utxo(chain, ins[info.inputIndex + 1]).out.pkh = info.publicKey

=============================================================================
