----------------------------- MODULE TokenLedger -----------------------------
(***************************************************************************)
(* The life of tokens on the chain under concurrent calls of the library.  *)
(*                                                                         *)
(* A call runs synchronously up to its first await: it checks its guards   *)
(* and builds the transaction from the UTXO records it was given.  It then *)
(* awaits one signature callback after the other; other calls and the      *)
(* network run in between, so the UTXOs may be gone when it returns.  The  *)
(* caller broadcasts the returned transaction, possibly more than once     *)
(* because an answer can get lost.                                         *)
(***************************************************************************)
EXTENDS Chain

CONSTANTS
    Genesis,        \* outputs that exist at the start: no tokens among them
    Calls,          \* calls of the library that may be in flight together
    TokenAmounts,   \* tokenSatoshis of contract()
    SatsPerToken,   \* schema.satsPerToken of contract()
    IssueLists,     \* issueInfo arguments
    DestLists,      \* splitDestinations arguments
    ProperCalls,    \* TRUE: callers respect what README.md demands of arguments
    ParentOutputs,  \* outputs a merged UTXO's transaction may have; README.md: 2
    MaxTxs          \* bound on the length of the chain

VARIABLES
    jobs,           \* what each call is doing
    origin          \* history: the issued output each token output stems from

vars == <<chain, jobs, origin>>

ASSUME GenesisAssumption ==
    Genesis \in Seq(Outputs) /\ \A k \in DOMAIN Genesis : Genesis[k].kind # "stas"

ASSUME ListsAssumption ==
    /\ DestLists \subseteq Seq(Destinations)
    /\ IssueLists \subseteq Seq(IssueInfos)

ASSUME AmountsAssumption == TokenAmounts \subseteq Nat /\ SatsPerToken \subseteq Nat

-----------------------------------------------------------------------------
NoTx == [ins |-> <<>>, outs |-> <<>>, unlock |-> <<>>]

IdleJob == [phase |-> "idle", tx |-> NoTx, awaits |-> <<>>]

Init ==
    /\ chain = <<[ins |-> <<>>, outs |-> Genesis]>>
    /\ jobs = [c \in Calls |-> IdleJob]
    /\ origin = <<>>

InFlight == {c \in Calls : jobs[c].phase # "idle"}

\* The bound on the chain counts the calls in flight, so each can be confirmed.
CanStart(c) ==
    /\ jobs[c].phase = "idle"
    /\ Len(chain) + Cardinality(InFlight) < MaxTxs

\* The synchronous part of a call ends at its first await.
Await(c, tx, awaits) ==
    /\ jobs' = [jobs EXCEPT ![c] =
                  [phase |-> "signing", tx |-> tx, awaits |-> awaits]]
    /\ UNCHANGED <<chain, origin>>

OwnerThenPayment(n, pay) == [i \in 1..n |-> "owner"] \o [i \in DOMAIN pay |-> "payment"]

-----------------------------------------------------------------------------
(* The calls *)

\* contractWithCallback awaits the payment callback before the owner's.
Contract(c) ==
    \E u \in Utxos("p2pkh"), pay \in Payments, symbol \in Symbols, data \in Data :
    \E more \in {<<>>} \cup {<<v>> : v \in Utxos("p2pkh") \ {u}} :
    \E perToken \in SatsPerToken, amount \in TokenAmounts :
        LET inputs == <<u>> \o more
        IN /\ \A i \in DOMAIN inputs : inputs[i].out.pkh = u.out.pkh
           /\ ToSet(inputs) \cap ToSet(pay) = {}
           /\ contractGuards(inputs, pay, perToken, amount)
           /\ Await(c, contractTx(inputs, pay, symbol, data, amount),
                    [i \in DOMAIN pay |-> "payment"] \o <<"owner">>)

Issue(c) ==
    \E u \in Utxos("contract"), pay \in Payments, info \in IssueLists :
    \E isSplittable \in BOOLEAN, symbol \in Symbols :
        /\ issueGuards(u, info, pay, symbol)
        /\ Await(c, issueTx(u, info, pay, isSplittable, symbol),
                 OwnerThenPayment(1, pay))

Transfer(c) ==
    \E u \in Utxos("stas"), dest \in Keys, pay \in Payments :
        /\ transferGuards(u, dest, pay)
        /\ Await(c, transferTx(u, dest, pay), OwnerThenPayment(1, pay))

\* README.md: the destinations share out the whole UTXO.
Split(c) ==
    \E u \in Utxos("stas"), dests \in DestLists, pay \in Payments :
        /\ ProperCalls => SumSatoshis(dests) = u.out.satoshis /\ Len(dests) <= 4
        /\ splitGuards(u, dests, pay)
        /\ Await(c, splitTx(u, dests, pay), OwnerThenPayment(1, pay))

\* README.md: the destination must be the redemption public key hash.
Redeem(c) ==
    \E u \in Utxos("stas"), key \in Keys, pay \in Payments :
        /\ ProperCalls => key = u.out.tok.red
        /\ redeemGuards(pay)
        /\ Await(c, redeemTx(u, key, pay), OwnerThenPayment(1, pay))

RedeemSplit(c) ==
    \E u \in Utxos("stas"), key \in Keys, dests \in DestLists, pay \in Payments :
        /\ ProperCalls => key = u.out.tok.red /\ Len(dests) <= 3
        /\ redeemSplitGuards(u, dests, pay)
        /\ Await(c, redeemSplitTx(u, key, dests, pay), OwnerThenPayment(1, pay))

\* README.md: "Can only merge if the in transactions have less than 3 outputs".
SmallParent(u) == Len(chain[u.op.txid].outs) <= ParentOutputs

Merge(c) ==
    \E u1, u2 \in Utxos("stas"), dest \in Keys, pay \in Payments :
        /\ u1 # u2
        /\ ProperCalls => SmallParent(u1) /\ SmallParent(u2)
        /\ mergeGuards(chain, u1, u2, mergeDests(u1, u2, dest), pay)
        /\ Await(c, mergeTx(chain, u1, u2, dest, pay), OwnerThenPayment(2, pay))

MergeSplit(c) ==
    \E u1, u2 \in Utxos("stas"), dests \in DestLists, pay \in Payments :
        /\ u1 # u2
        /\ Len(dests) = 2
        /\ ProperCalls =>
             /\ SmallParent(u1) /\ SmallParent(u2)
             /\ SumSatoshis(dests) = u1.out.satoshis + u2.out.satoshis
        /\ mergeGuards(chain, u1, u2, dests, pay)
        /\ Await(c, mergeSplitTx(chain, u1, u2, dests, pay),
                 OwnerThenPayment(2, pay))

-----------------------------------------------------------------------------
(* Callbacks *)

\* The awaited callback resolves; after the last one the call returns.
CallbackSigns(c) ==
    /\ jobs[c].phase = "signing" /\ jobs[c].awaits # <<>>
    /\ LET left == Tail(jobs[c].awaits)
       IN jobs' = [jobs EXCEPT
                     ![c].awaits = left,
                     ![c].phase = IF left = <<>> THEN "returned" ELSE "signing"]
    /\ UNCHANGED <<chain, origin>>

\* The awaited callback rejects: the call throws and returns no transaction.
CallbackRejects(c) ==
    /\ jobs[c].phase = "signing"
    /\ jobs' = [jobs EXCEPT ![c] = IdleJob]
    /\ UNCHANGED <<chain, origin>>

-----------------------------------------------------------------------------
(* Broadcast (utils.js) of a returned transaction *)

TokenInputs(tx) == {i \in DOMAIN tx.ins : Utxo(chain, tx.ins[i]).out.kind = "stas"}

TokenOutpoints(tx, txid) ==
    {op \in {[txid |-> txid, vout |-> k - 1] : k \in DOMAIN tx.outs} :
        tx.outs[op.vout + 1].kind = "stas"}

\* A token output stems from itself when it is issued, else from what the
\* first token input stems from.
OriginsOf(tx, txid) ==
    [op \in TokenOutpoints(tx, txid) |->
        IF TokenInputs(tx) = {} THEN op ELSE origin[tx.ins[1]]]

Confirm(tx) ==
    /\ AddToChain(tx)
    /\ origin' = [op \in DOMAIN origin \cup TokenOutpoints(tx, Len(chain) + 1) |->
                     IF op \in DOMAIN origin THEN origin[op]
                     ELSE OriginsOf(tx, Len(chain) + 1)[op]]

\* The node takes the transaction and broadcast() returns its txid.
BroadcastAccepted(c) ==
    /\ jobs[c].phase = "returned"
    /\ NetworkAccepts(chain, jobs[c].tx)
    /\ Confirm(jobs[c].tx)
    /\ jobs' = [jobs EXCEPT ![c] = IdleJob]

\* The node takes it but the answer is lost: the caller will try again.
BroadcastAnswerLost(c) ==
    /\ jobs[c].phase = "returned"
    /\ NetworkAccepts(chain, jobs[c].tx)
    /\ Confirm(jobs[c].tx)
    /\ UNCHANGED jobs

\* Mutant: only bad scripts make broadcast() throw, spent inputs do not.
BroadcastRefusedForScripts(c) ==
    /\ jobs[c].phase = "returned"
    /\ ~ScriptsHold(chain, jobs[c].tx)
    /\ jobs' = [jobs EXCEPT ![c] = IdleJob]
    /\ UNCHANGED <<chain, origin>>

\* The node refuses: broadcast() throws.
BroadcastRefused(c) ==
    /\ jobs[c].phase = "returned"
    /\ ~NetworkAccepts(chain, jobs[c].tx)
    /\ jobs' = [jobs EXCEPT ![c] = IdleJob]
    /\ UNCHANGED <<chain, origin>>

-----------------------------------------------------------------------------
Start(c) ==
    /\ CanStart(c)
    /\ \/ Contract(c) \/ Issue(c)
       \/ Transfer(c) \/ Split(c) \/ Redeem(c) \/ RedeemSplit(c)
       \/ Merge(c) \/ MergeSplit(c)

Progress(c) ==
    \/ CallbackSigns(c) \/ CallbackRejects(c)
    \/ BroadcastAccepted(c) \/ BroadcastAnswerLost(c) \/ BroadcastRefused(c)

Next == \E c \in Calls : Start(c) \/ Progress(c)

Spec == Init /\ [][Next]_vars

\* Callbacks settle and callers go on broadcasting what they were given.
FairSpec == Spec /\ \A c \in Calls : WF_vars(Progress(c))

-----------------------------------------------------------------------------
(* Properties *)

Jobs == [phase: {"idle", "signing", "returned"}, tx: BuiltTxs,
         awaits: Seq({"owner", "payment"})]

\* Type invariant of the three variables.
TypeOK ==
    /\ chain \in Seq(Txs)
    /\ jobs \in [Calls -> Jobs]
    /\ DOMAIN origin \subseteq Created(chain)
    /\ \A op \in DOMAIN origin : origin[op] \in DOMAIN origin

TokenTx(t) ==
    \E i \in DOMAIN chain[t].ins : ChainOutput(chain[t].ins[i]).kind = "stas"

Holdings == {op \in Unspent(chain) : ChainOutput(op).kind = "stas"}

SumOver(ops) == MapThenSumSet(LAMBDA op : ChainOutput(op).satoshis, ops)

TokensSeen == {ChainOutput(op).tok : op \in TokenOutputs}

\* The satoshis a token had when issue() created its outputs.
IssuedAmount(tok) ==
    SumOver({op \in TokenOutputs : ChainOutput(op).tok = tok /\ ~TokenTx(op.txid)})

\* What spending transactions of the token paid to its redemption key in
\* their first output, the place redeem() and redeemSplit() use.
RedeemedAmount(tok) ==
    SumOver({op \in {[txid |-> t, vout |-> 0] : t \in DOMAIN chain} :
                /\ chain[op.txid].outs # <<>>
                /\ ChainOutput(op).kind = "p2pkh" /\ ChainOutput(op).pkh = tok.red
                /\ \E i \in DOMAIN chain[op.txid].ins :
                       IsStas(ChainOutput(chain[op.txid].ins[i]), tok)})

OutstandingAmount(tok) == SumOver({op \in Holdings : ChainOutput(op).tok = tok})

\* However calls interleave, and whatever arguments the guards let through,
\* every token satoshi ever issued is either still held or was paid out to the
\* redemption key: no sequence of transfers, splits, merges and redemptions
\* burns or inflates a token (segments of stas.js against its covenant).
SupplyConserved ==
    \A tok \in TokensSeen :
        IssuedAmount(tok) = OutstandingAmount(tok) + RedeemedAmount(tok)

\* A transaction returned to a caller that respects README.md is accepted as
\* long as its inputs are unspent: the outputs the builder wrote, the segments
\* it put into the unlocking script and what the covenant rebuilds from them
\* agree, for every operation and after every history of the token.
ReturnedTxAccepted ==
    \A c \in Calls :
        (/\ jobs[c].phase = "returned"
         /\ \A i \in DOMAIN jobs[c].tx.ins : jobs[c].tx.ins[i] \in Unspent(chain))
            => NetworkAccepts(chain, jobs[c].tx)

\* Every token output stems from an output that issue() created from a contract
\* of the same redemption key and symbol, and has kept flags, symbol and data
\* ever since, through any chain of splits, merges and transfers.
TokenLineage ==
    \A op \in TokenOutputs :
        LET root == origin[op]
            issued == ChainOutput(root)
            parent == ChainOutput(chain[root.txid].ins[1])
        IN /\ issued.tok = ChainOutput(op).tok
           /\ ~TokenTx(root.txid)
           /\ parent.kind = "contract"
           /\ parent.pkh = issued.tok.red
           /\ parent.tok.symbol = issued.tok.symbol

\* An output issued as not splittable has at most one unspent descendant, and
\* that one still holds all of its satoshis: neither split, redeemSplit, merge
\* nor mergeSplit ever divides or fuses it ("Cannot Split an NFT").
NFTIntact ==
    \A op \in Holdings :
        ~ChainOutput(op).tok.isSplittable =>
            /\ ChainOutput(op).satoshis = ChainOutput(origin[op]).satoshis
            /\ \A other \in Holdings : origin[other] = origin[op] => other = op

\* "Token UTXO cannot be sent to issuer address": only issue() itself can put
\* a token at its redemption key; no later transaction of the chain does.
IssuerReceivesOnlyByIssue ==
    \A op \in TokenOutputs :
        ChainOutput(op).pkh = ChainOutput(op).tok.red => ~TokenTx(op.txid)

\* A transaction gives the miner its fee or nothing: the satoshis that carry a
\* token are never spent on fees and change arithmetic loses none.
MinerGetsOnlyTheFee ==
    \A t \in DOMAIN chain \ {1} :
        LET ins == SumSatoshis([i \in DOMAIN chain[t].ins |->
                                   ChainOutput(chain[t].ins[i])])
        IN ins - SumSatoshis(chain[t].outs) \in {0, Fee}

\* A call that was started comes to an end: callbacks settle, and a returned
\* transaction is accepted or refused, even when answers get lost and two
\* calls want the same UTXO.
CallsEnd == \A c \in Calls : jobs[c].phase # "idle" ~> jobs[c].phase = "idle"

MergeTx(tx) == tx.unlock[1].type = "merge"

\* README.md limits merges to parents of two outputs.  The covenant is more
\* generous: a merge of unspent inputs is refused only when one of them was
\* created by an issue() of more than four tokens, whatever splits and merges
\* of up to four destinations came before.
OnlyWideIssuesBlockMerges ==
    \A c \in Calls :
        (/\ jobs[c].phase = "returned"
         /\ MergeTx(jobs[c].tx)
         /\ \A i \in DOMAIN jobs[c].tx.ins : jobs[c].tx.ins[i] \in Unspent(chain)
         /\ ~NetworkAccepts(chain, jobs[c].tx))
            => \E i \in 1..2 :
                  LET parent == jobs[c].tx.ins[i].txid
                  IN ~TokenTx(parent) /\ Len(chain[parent].outs) > 4

-----------------------------------------------------------------------------
(* The ledger implements the abstract supply *)

\* Ordinary satoshis never reach a key that had none at the start.
Issuers == {Genesis[n].pkh : n \in DOMAIN Genesis}
AllTokens == {tok \in Tokens : tok.red \in Issuers}
AllBackings == [red: Issuers, symbol: Symbols]

\* The satoshis of every contract that waits to be issued.
Backing ==
    LET contracts == {op \in Unspent(chain) : ChainOutput(op).kind = "contract"}
    IN [b \in AllBackings |->
           SumOver({op \in contracts : /\ ChainOutput(op).pkh = b.red
                                       /\ ChainOutput(op).tok.symbol = b.symbol})]

Balance ==
    LET held == Holdings
        Carrying(tok) == {op \in held : ChainOutput(op).tok = tok}
        HeldBy(k, ops) == {op \in ops : ChainOutput(op).pkh = k}
    IN [tok \in AllTokens |->
           LET ops == Carrying(tok)
           IN [k \in Keys |-> SumOver(HeldBy(k, ops))]]

Supply == INSTANCE TokenSupply WITH
    Tokens <- AllTokens,
    Backings <- AllBackings,
    backing <- Backing,
    balance <- Balance,
    redeemed <- [t \in AllTokens |-> RedeemedAmount(t)]

\* Every step of the ledger is a step of the abstract supply or leaves it
\* unchanged: backing is minted once, one holder gives per step, nothing leaves
\* except by redemption.
ImplementsSupply == Supply!SupplySpec

=============================================================================
