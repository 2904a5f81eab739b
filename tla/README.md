# stas-js: a TLA+ model of the STAS token library

stas-js builds Bitcoin transactions that create, move, divide, fuse and redeem
tokens. A token is an output whose locking script (the *STAS script*) dictates
what the transaction that spends it has to look like. The library is correct
when the transactions it builds satisfy that script, whatever happened to the
token before, and when no sequence of library calls, however interleaved, loses,
creates or relabels token satoshis. When two people trade through it, neither may
part with anything unless he receives what was agreed. And the fee it pays must be
enough for the transaction that is finally sent. This directory models the library's
operations, swaps, unsigned transactions and fee estimates, the covenant in its
script template and the chain they act on.

## The system

| component | source | state | operations |
|---|---|---|---|
| scripts | `lib/stas.js`, `lib/utils.js` | none (pure) | `getStasScript`, `updateStasScript`, `getPublicKeyHash`, `partialSTASUnlockingScript`, `partialStasMergeScript`, `numberOfPieces`, `handleChange`, `reverseEndian` |
| builders | `lib/*WithCallback.js`, `lib/*.js` | none between calls; local state across awaits | contract, issue, transfer, split, redeem, redeemSplit, merge, mergeSplit |
| callers | `README.md`, `test/`, `lib/utils.js` `broadcast` | the returned transaction | call, await signatures, broadcast, retry |
| network | external | chain, unspent outputs | accept or refuse a transaction |
| unsigned forms | `lib/unsigned*.js`, `examples/lifecycleWithUnsigned.example.js` | the transaction and its signing list, outside the library | the same builders without callbacks; signing by several holders |
| swap | `lib/swap.js` | an offer, a half-signed transaction, passed between maker and taker | create (signed, unsigned), accept (three forms), the maker's signature, all in one |
| fee estimate | `handleChange` of `lib/stas.js`, `handleChangeForMerge`, `handleChangeForSwap`, `lib/constants.js` | none | estimated size, fee, change |
| encodings | `lib/utils.js`, `lib/stas.js` | none | txids, opcodes, pushed numbers, search for the schema |
| examples, network helpers, bundle, errors | `examples/`, `lib/utils.js`, `index.js`, `lib/errors/` | none | scripts against a test network |

How they interact. A caller looks up UTXOs and hands them to a builder as plain
objects. The builder runs synchronously up to its first `await`: it checks its
arguments, parses the locking scripts of the inputs, writes the outputs, the
change, and the first half of the unlocking script. It then awaits one signature
callback per input. The caller gets the transaction and broadcasts it. The
library keeps no record of any of this: the chain is the only shared state.

What is hard about it:

* **Three descriptions of one transaction.** The outputs, the segments in the
  unlocking script and the outputs the covenant rebuilds from these segments are
  written in different places of the code and must agree for every operation,
  with and without a payment, with and without change.
* **Proof of a parent.** A merge puts the serialised parent of the other token
  input into its unlocking script, cut wherever the token's script occurs. How
  often it occurs depends on the parent's outputs *and* on its inputs (their
  unlocking scripts contain preimages, which contain the script).
* **Amounts nobody adds up.** split and mergeSplit never compare the amounts of
  the caller with the inputs; only the covenant does.
* **Interleaving.** While callbacks are awaited, other calls may spend the UTXOs.
* **Lost answers.** A broadcast may succeed without the caller hearing of it.
* **Strangers.** A swap goes through several hands. A maker signs without seeing the
  taker; a taker builds a transaction the maker completes without comparing it with
  his offer; several takers may answer one offer, and the maker may have spent it.
* **Several signers.** An unsigned transaction waits for signatures in any order, some
  of them given twice, while its inputs may be spent.
* **A fee before the fact.** The fee is fixed before the inputs are unlocked, from an
  estimate; the unlocking data embed scripts and whole parent transactions, so they
  depend on the history of the token.
* **Limits.** Four segments in the covenant, five in the builder; merge pieces
  and output indexes bounded in the covenant and not in the builder.

## Modules

```
TokenSupply      abstract specification: a supply and who holds it
Exchange         abstract specification: offers and what they are exchanged for
StasTx           outputs, transactions, unlocking data, covenant, network
StasBuilders     guards and transaction of each operation
Chain            the confirmed transactions and the UTXOs that calls take from them
TokenLedger      calls, callbacks, broadcasts; refinement of TokenSupply
Signatures       what a signature covers
SigningSession   unsigned transactions and their signers
SwapTx           transactions of swap.js, swap branch of the covenant
SwapMarket       makers and takers; refinement of Exchange
FeeEstimate      estimated and real size of every operation over a token's history
DocClaims, SwapDocClaims         statements of docs and tests that do not hold
MCTokenLedger, MCSigningSession, MCSwapMarket, MCFeeEstimate   values for TLC
StasTxProofs, ChainProofs, TokenLedgerProofs, SupplyProofs,
SwapMarketProofs, ExchangeProofs, SigningSessionProofs,
FeeEstimateProofs                                                       theorems
```

### StasTx

An output is `[kind, pkh, tok, satoshis]`. A script is reduced to what a later
step can tell apart: its kind (P2PKH, contract, STAS), the public key hash that
owns it, and the token: redemption key hash, flag byte (`isSplittable`), symbol
and data. Everything behind byte 23 of a STAS script is a function of the token,
so two outputs have equal script tails exactly when their tokens are equal; that
is what merge compares and what the pieces are cut at.

`partialSTASUnlockingScript` and `partialStasMergeScript` give the unlocking data
of a token input: its segments (amount and key), the last of which is the change
or a nil segment, the funding outpoint, and for a merge the other token input and
the number of pieces. `reverseEndian` loses leading zero bytes as the code does;
the constant `LeadingZeroTxids` says which txids have one.

`CovenantHolds` is the v2 script template (`stas.js:92`) read as a predicate: 1 to
4 segments (one if the flag byte forbids splitting), all positive, their total
equal to the input (both inputs in a merge), and outputs and inputs that are
exactly what the script rebuilds and hashes. Only the first segment may leave the
token, and only when it goes to the redemption key. `MergeProof` bounds the
pieces (2..7), the parent's inputs and the output index.

`NetworkAccepts` is the node (external): inputs unspent and distinct, amounts not
exceeded, covenants satisfied.

### StasBuilders

For each operation `X`: `XGuards`, the conditions under which `XWithCallback`
does not throw, and `XTx`, the transaction it then builds. `issueGuards` compares
the sum of the list with the contract and the symbol with the schema found in the
contract's script; `splitGuards` compares no sum; `redeemGuards` does not compare
the key. Definitions marked *Mutant* are the same operators with a plausible bug
and are used by no specification.

### Chain and TokenLedger

`Chain` is what `TokenLedger` and `SigningSession` extend: the variable `chain`, the sets
a call takes its UTXOs and payments from, and `AddToChain`, what a node keeps of a
transaction it took.

| variable | meaning |
|---|---|
| `chain` | confirmed transactions; the index is the txid; entry 1 is genesis |
| `jobs` | per call: `idle`, `signing` (awaiting callbacks), `returned` (the caller holds the transaction) |
| `origin` | history: the issued output each token output stems from |

| action | code |
|---|---|
| `Contract` ... `MergeSplit` | the synchronous part of an operation, with UTXOs, amounts and destinations chosen freely |
| `CallbackSigns`, `CallbackRejects` | an awaited signature callback settles; a rejection makes the call throw |
| `BroadcastAccepted`, `BroadcastRefused` | `broadcast()` returns a txid or throws |
| `BroadcastAnswerLost` | the node took the transaction and the caller does not know: it will try again |

UTXOs are read when a call starts and used when its transaction is broadcast, with
any number of steps of other calls in between. `ProperCalls` says whether callers
respect what README.md of the repository asks of their arguments (destinations
add up, the redemption key is the right one, small parents for a merge).

### TokenSupply

The abstract specification: satoshis are put behind a symbol, minted once satoshi
for satoshi, moved with one holder giving, and redeemed. `TokenLedger` maps its
state to it: `backing` is the sum of the unspent contract outputs of a key and
symbol, `balance` the sum of the unspent token outputs, `redeemed` what spending
transactions of the token paid to its redemption key.

### Signatures and SigningSession

A signature is `[by, prev, scope, ins, outs]`: the key, the previous output it commits
to (script and amount), and the inputs and outputs it covers, all of them or, for a
signed offer (`SIGHASH_SINGLE | ANYONECANPAY`), the maker's input and the output beside
it. `SigHolds` is the node's check (external).

`SigningSession` has two variables: `chain` and `sessions`, each of which is an unsigned
transaction with its signing list, the signatures its inputs carry and how often each
entry was carried out. `UnsignedX` builds with the operators of `StasBuilders` and
returns the list of `SignInfoList` (one loop at the end of every builder) or
`ContractSignInfo` (`contract()` has one of its own). `SignEntry` and `SignWithKey` are
the loops of `examples/lifecycleWithUnsigned.example.js`: a signature is appended to a
token input by `finaliseSTASUnlockingScript` and replaces that of an ordinary input.
Arguments are proper ones: destinations share out what is spent, a split has at most four
of them and a redeemSplit three (the covenant has four segments besides the change), a
redemption goes to the redemption key.

### SwapTx and SwapMarket

`SwapTx` has the transaction and unlocking data of each function of `swap.js`, and
`SwapCovenantHolds`, the branch of the script template for a swap: parent of the
counterparty in reach, segment 2 the maker's whole input, the other segments the
taker's whole input, outputs rebuilt from the segments. Input 1 is the maker's, 2 the
taker's, 3 the payment.

`SwapMarket` has `chain`, `offers` (what was published, with its terms) and `takes`
(what each taker holds: nothing, a transaction sent to the maker, one ready to
broadcast). The functions of `swap.js` do not wait, so each is one action; the
participants interleave. `Withdraw` is an owner who spends what he offered. Nothing in
the code compares what a taker gives with what the maker wants, so a taker may answer with
any output he holds and ask for any amount. `ProperTakers` restricts him: he then gives
the wanted asset and asks for what is offered, in the amounts of the offer; a proper maker
does not ask for a token whose redemption key he is, since the covenant would pay him plain
satoshis. A maker does not answer his own offer. Two forms
throw or fail for some arguments and are modelled as such: `acceptUnsignedSwapOffer`
needs a taker who gives a token (it calls `slice` on a `Script` otherwise), and
`acceptUnsignedNativeSwapOffer` signs any taker's input like an ordinary one, so only
careless takers use it with a token. `allInOneSwap` is marked deprecated and modelled
for two tokens, whatever `wantedInfo` says.

### Exchange

The abstract specification of swaps: an open offer names what its maker gives and
wants. In a trade the maker's balance changes by exactly that, in every asset; the
taker's by what he got and gave, in every token; bystanders lose nothing; and the offer is
gone. Otherwise somebody gives away what is his, which may close his offers. Plain
satoshis may also go to the miner, at the cost of the taker or of who pays the fee.

What the taker gave is what was wanted, so that tokens only change hands, if takers are
`Proper`. `Mistaken` names the other things that come through when they are not, and
the refinement shows that there are just two:

* A maker who offers plain satoshis wants a token and the taker gives plain satoshis. The
  maker signed `SINGLE | ANYONECANPAY` (`swap.js:87-121`), that is, his input and output 1,
  which the taker keeps; or he signs whatever comes back, for an unsigned offer. No token
  is spent, so no script looks at the outputs, and the node takes a transaction whose
  output 1 is a token output that no token paid for. The comment at `swap.js:145` has the
  taker add "an input which matches the makers output"; no code does.
* A maker who wants plain satoshis is given a token of which he is the issuer. The
  covenant pays plain satoshis to the redemption key, which is output 1 as he signed it:
  the token is redeemed with him.

Where one of the inputs is a token, its covenant refuses everything else.

### FeeEstimate

Sizes in bytes. `script` is the length of the token's script, `parents` the sizes of
the transactions that created two token UTXOs (with the number of times the script's
tail occurs in them), `last` what the last operation estimated, what it paid for and how
large its transaction really is. An input is counted with the script it holds when the
estimate is taken (`TakerHolds`: none for plain satoshis added with `tx.from`,
`swap.js:899`). `handleChange`, `handleChangeForMerge` and
`handleChangeForSwap` are the three estimates, with the constants of the code;
`BasicSize`, `MergeSize` and `SwapSize` count the pushes of the unlocking data as the
builders write them, with the longest signatures. `extraBytesForPieces` takes the
length of hexadecimal text, two characters per byte: the factor of two is what covers
the rest of a merge's unlocking data. Merges of what a swap handed out are left out.

## Properties and runs

| run | checks | instance |
|---|---|---|
| `lifecycle` | `TypeOK`, `ReturnedTxAccepted`, `NFTIntact`, `IssuerReceivesOnlyByIssue`, `MinerGetsOnlyTheFee` | one caller, proper arguments, 3 satoshis, a payer of 2 and a fee of 1, 6 transactions |
| `interleaving` | `SupplyConserved`, `TokenLineage`, `ImplementsSupply` (refinement) | two callers at once, careless amounts, two symbols |
| `merge_limits` | `OnlyWideIssuesBlockMerges`, `CallsEnd` under `FairSpec` | two callers at once, issues of 4 and 5 outputs, splits, merges, lost answers |
| `signing` | `TypeOK`, `AcceptedWhenSigned`, `SessionsEnd` under `FairSpec` | two transactions at once, all eight operations, one of them with entries signed twice |
| `swap` | `TypeOK`, `ProperSwapAccepted`, `CommissionPaidTwice`, `ImplementsExchange` (refinement, proper takers) | two offers, proper takers, two tokens and plain satoshis, commissions, every form of the protocol |
| `exchange` | `OfferHonoured`, `TakerReceivesAll`, `ImplementsExchange` (refinement, careless takers) | two offers, two takers who give what they like and ask for what they like, three traders, one of them an issuer, withdrawals |
| `fee_estimate` | `FeeCoversSize` | scripts on both sides of the encodings' boundaries, one embedding |
| `leading_zero`, `schema_search`, `fewer_sats`, `sign_info`, `swap_fee` | expected to be violated, see Findings | smallest instance that shows it |

What they show.

* `ReturnedTxAccepted`: for arguments as README.md wants them, every transaction a
  builder returns satisfies the covenant as long as its inputs are unspent, after
  every history of the token.
* `SupplyConserved`, `ImplementsSupply`: with arbitrary amounts and two calls in
  flight the sum issued equals the sum held plus the sum redeemed, and each step is
  one of the three things the abstract specification allows.
* `TokenLineage`: a token keeps its flags, symbol and data and goes back to an
  issue from a contract of its own key and symbol.
* `NFTIntact`: an output issued as not splittable is never divided or fused.
* `IssuerReceivesOnlyByIssue`: after issue no token reaches its redemption key.
* `MinerGetsOnlyTheFee`: a transaction leaves the miner its fee or nothing.
* `OnlyWideIssuesBlockMerges`: the limit README.md puts on merges is stricter than
  the covenant. Only an issue of more than four tokens creates outputs whose merge
  the covenant refuses.
* `CallsEnd`: every started call comes to an end.
* `AcceptedWhenSigned`: whoever carries out the entries of a signing list, in whatever
  order, the transaction is acceptable exactly when all have been carried out, token
  entries once. An ordinary entry may be repeated, a token entry may not.
* `SessionsEnd`: no transaction waits for a signature for ever.
* `ProperSwapAccepted`: whatever is traded for whatever, in every form, a swap that
  keeps to its offer is accepted while its inputs are unspent, also for UTXOs that
  come out of an earlier swap.
* `OfferHonoured`, `TakerReceivesAll`: with careless takers, several answers and stale
  offers, a maker's UTXO goes into a swap only for what one of his offers wanted, and the
  taker receives all of it. The exception: under a signed offer of plain satoshis the
  taker may ask for less than there is.
* `ImplementsExchange`: each step is a step of `Exchange`. With proper takers
  tokens only change hands; with careless ones nobody else is harmed, but the two
  mistakes above are possible, and they are the only ones.
* `CommissionPaidTwice`: what a commission costs. The covenant wants it out of the
  taker's input, which is then larger than what the maker gets, and the change is
  short of it as well, so the miner receives the commission a second time.
* `FeeCoversSize`: the estimate pays the configured rate for contract, issue, every
  operation on one token, merges of any history, and unsigned swaps of two tokens. The
  estimate for five outputs is exact to the byte; an issue of 252 or 65535 outputs is
  two bytes short, because the change output lengthens the output count. These two
  bytes are excepted (`UncountedBytes`), so that the property does not guard them.

**Bounds.** `MaxTxs` (5 or 6) bounds the chain, calls in flight counted, so that
each call that starts can be confirmed. Contract and issue take two transactions; the
rest leaves two to three operations on the token, enough for merge after split,
redeemSplit after merge, and a merge whose parent is itself a merge or split
(pieces from inputs). Markets and sessions start from chains that hold tokens, so
that `MaxTxs` (4 or 5) leaves one or two swaps or operations, enough to compete and to
trade again. Three satoshis allow one and two destinations with every
division; seven are used where four and more outputs matter. Two callers suffice
for a UTXO to be contended: a third would only fail in the same way. Destination
lists contain the issuer and amounts that are too small and too large. Script sizes
of the fee instance are close to the smallest one and one whose preimage and unlocking
script are longer than 65536 bytes; `FeeSufficient` proves the rest.
Symmetry (of calls, offers, answers) is used only where no liveness is checked.

**Deadlock** is not checked: a caller may simply stop calling, and the bound on the
chain ends every behaviour. That calls in flight do not get stuck is `CallsEnd`.

**Fairness.** `FairSpec` has weak fairness of `Progress(c)` for each call: the
awaited callback settles (a promise is resolved or rejected) and a caller with a
transaction goes on broadcasting until it is accepted or refused, as
`test/utils/test_utils.js` `broadcastWithRetry` does. No fairness is assumed of
starting calls nor of losing no answers: a lost answer leaves the transaction
confirmed, so the next attempt is refused and the call ends. In `SigningSession`
`FairSpec` has weak fairness of signing and of finishing for each transaction: each
entry names a holder who signs what he is asked to, and somebody broadcasts. Opening
sessions is not fair, and `broadcast()` decides a stale one.

## Findings

* `FundingOutpointNamed` (`stas.js:129`): a funding txid with a leading zero byte
  is written with 31 bytes, because `reverseEndian` goes through a big number
  without a length. One in 256 funding UTXOs is affected.
* `EveryContractIssuable` (`README.md:11`): `getSymbolFromContract` takes the first
  `7b22` in the hexadecimal script for the start of the schema. If the issuer's key hash
  contains it, parsing throws and the satoshis of the contract cannot be issued
  (`BraceKeys` names such keys).
* `FewerSatsSwapAccepted` (`test/functional_test/function_tests/
  swap_fewerSatsThanOfferedUTXO_test.js:50`): a maker who wants fewer satoshis than the
  taker's output holds gets a transaction that the covenant refuses.
* `SignInfoNamesOwnedInput` (`unsignedContract.js:3`): the signing list of `contract()`
  holds the UTXOs' output indexes where the others hold input indexes. The example
  signs with whole keys and does not notice.
* `SwapFeeCoversSize` (`swap.js:1456`): for a signed offer the estimate counts locking
  scripts where the unlocking scripts embed parent transactions.

Also met while modelling, without a run of their own: plain satoshis for plain satoshis
where a token is wanted make a token output that stems from no issue (see Exchange: the
abstract specification has to allow it); without a payment a split of
five destinations passes the guard, which counts segments, although
`splitWithCallback.js:20` says four, and the covenant refuses it; merges of outputs of
larger transactions than `README.md:13` allows are built and accepted
(`OnlyWideIssuesBlockMerges` says which are not); with a payment the surplus of the
issuer's own inputs of `contract()` is paid to the payer, and no property objects; a
payment just as large as the fee is refused, although the covenant would take a change of
zero, and no property tells the two apart; `README.md:20` documents ten
times the fee rate of `constants.js`; the only test with a commission passes an array,
so that no commission is made.

## Proofs

For every value of the constants, chains and amounts of any size:

| module | theorem | property |
|---|---|---|
| `TokenLedgerProofs` | `TypeCorrect` | `Spec => []TypeOK` |
| | `LedgerInvariant` | `Spec => []LedgerInv`, the inductive invariant |
| | `IssuerReceives` | `Spec => []IssuerReceivesOnlyByIssue` |
| | `LineageKept` | `Spec => []TokenLineage` |
| | `NFTsKept` | `Spec => []NFTIntact` |
| | `FeesPaid` | `Spec => []MinerGetsOnlyTheFee` |
| | `ReturnedAccepted` | `Spec => []ReturnedTxAccepted`, for proper calls (below) and `ParentOutputs` up to 4 |
| | `WideIssues` | `Spec => []OnlyWideIssuesBlockMerges`, for proper calls |
| `SupplyProofs` | `SupplyKept` | `Spec => []SupplyConserved` |
| | `SupplyImplemented` | `Spec => ImplementsSupply`, the refinement of `TokenSupply`, for finite `Keys` and `Tokens` and a start without contracts |
| `SwapMarketProofs` | `MarketTypeCorrect` | `Spec => []TypeOK` |
| | `MarketInvariant` | `Spec => []MarketInv`, the inductive invariant |
| | `OffersHonoured` | `Spec => []OfferHonoured` |
| | `TakersReceiveAll` | `Spec => []TakerReceivesAll` |
| | `CommissionsPaidTwice` | `Spec => []CommissionPaidTwice`, if `ProperTakers` |
| | `ProperSwapsAccepted` | `Spec => []ProperSwapAccepted`, if `OrdinaryStart` |
| `ExchangeProofs` | `ExchangeImplemented` | `Spec => ImplementsExchange`, the refinement of `Exchange`, both values of `ProperTakers`, for finite `Keys` and traders who neither pay fees nor earn commissions |
| `SigningSessionProofs` | `SessionsTyped` | `Spec => []TypeOK` |
| | `SignaturesComplete` | `Spec => []SignedWhenApplied`, the signing half of `AcceptedWhenSigned` |
| | `AcceptedOnceSigned` | `Spec => []AcceptedWhenSigned`, if `ProperArguments` and no txid starts with a zero byte |
| `FeeEstimateProofs` | `FeeSufficient` | `Spec => []FeeCoversSize` |

`StasTxProofs` holds what they share: facts about outputs on the chain, about
sequences, sums and totals of sets of outputs, and the types of what the builders make.
`ChainProofs` holds what the ledger and the signing sessions share: for each operation,
that what it makes of UTXOs of the chain is `Made` (typed, `Built`, `Sound`) and, with
proper arguments, good enough for a node (`TransferGood` to `MergeSplitGood`), and that
both stay true while the chain grows. Assumptions on the constants, which TLC evaluates in every
run: the fee is a positive natural (`FeeAssumption`), a nil segment has no key
(`NoKeyAssumption`), the genesis outputs are typed, in the ledger hold no tokens, and for the signers carry a
token's schema unless they are ordinary (`GenesisAssumption`), the arguments of callers and traders have their types
(`ListsAssumption`, `AmountsAssumption`, `ArgumentsAssumption`), and those of the fee
model below.

**The ledger** (any number of calls, keys, symbols and destination lists, both values
of `ProperCalls`). None of the three safety properties is inductive: what reaches the
chain was built earlier, when the chain was shorter. So the invariant
`LedgerInv` carries `JobsBuilt`: every transaction a call holds is `Built` from
outputs that exist, spends a token first if it spends one, excludes the issuer,
spends an NFT alone with a basic unlock, or, when it spends no token, creates
tokens only from a contract of the same key and symbol. One lemma per builder
(`BasicTxBuilt`, `MergeTxBuilt`, `IssueTxBuilt`, `ContractTxBuilt`) proves this when
the call starts, and `BuiltStaysBuilt` that a confirmed transaction of another call
cannot spoil it, since outputs are never changed once created. `ConfirmEffect`,
`ConfirmOrigins` and `ConfirmSpends` describe the one action that changes the chain.
`CovenantKeepsToken` draws from the covenant what the builders do not check: each
token output carries on the first input's token, and an NFT goes whole into the first
output. `HistoryInv` adds that inputs name created outputs, so that old transactions
read the same on every longer chain; the three properties follow from a step lemma
each.

**What the miner gets.** The builders of splits and merges never compare their
destinations with the token input, so a transaction a call holds need not balance. What
each builder guarantees is `Sound`: a transaction that spends no token pays the fee or
nothing, and one that spends a token would do so if the segments in its unlocking script
added up to the token input (`BasicTxSound`, `MergeTxSound`, `IssueTxSound`,
`ContractTxSound`). That they add up is what the covenant checks, up to four of them, and
`AcceptedPays` puts the two together when the node takes the transaction. `SumSatoshis`
is a recursive function; what is needed of it (its type, the sum of a concatenation,
equal amounts give equal sums, the covenant's sum is the same one) is shown by induction
over sets of naturals.

**The supply.** `SumOver` folds a set of outputs in an order that `CHOOSE` picks, so
it is first shown, by induction over the size of a set, that the fold is a sum
over the set (these lemmas are in `StasTxProofs`, the market needs them too): any output may be taken first (`TotalRemove`), disjoint sets add up
(`TotalUnion`), only the amounts matter (`TotalOfSameAmounts`), and the outputs of a
transaction hold what a list of segments says (`TotalOfPlaces`). `SupplyInv` states the
balance for every token, seen or not, and that finitely many outputs exist. A transaction
that spends no token adds the same outputs to the issued and to the held ones
(`IssueBalances`). One that spends a token names all its token inputs in the first
unlocking script (`SpendsWhole`, part of `Built`): the covenant compares the segments with
just these (`SpentTotal`) and rebuilds from the segments outputs of the token and at most
one payment to the issuer, in the first place (`NewTotal`), so what leaves the holdings is
what enters them or is redeemed (`SpendBalances`). A call may be wrong about the amounts;
its transaction is then refused.

**The abstract supply.** `SupplyImplemented` maps the ledger to `TokenSupply`: its
initial states map to `SupplyInit` (`InitMaps`) and each of its steps to a step of
`SupplyNext` or to a stutter (`NextMaps`); only a confirmed transaction is more than a
stutter (`SupplyStays`). What it does depends on the call that built it, which the chain no longer
tells. So `ShapeInv` is needed beside `LedgerInv`, `HistoryInv` and `SupplyInv`: every
transaction in flight is `Shaped`, that is, it `Backs`, `Mints` or `Moves`
(`ContractTxShaped`, `IssueTxShaped`, `BasicTxShaped`, `MergeTxShaped`; `ShapeStays` while
other calls confirm), and ordinary and backing satoshis are only at keys that had some at
the start (`IssuersOnly`), since change goes back to a key that paid (`PaidBack`) and the
covenant pays a redemption to the token's own issuer (`TokenTxOutputs`). Balances and
backings become totals of sets of outputs (`BalanceIsTotal`, `BackingIsTotal`), a
holder's account is what was there and came less what went (`ConfirmAccounts`), and the
holders of a token hold together what is outstanding (`HoldersHoldAll`, from
`TotalOfClasses`, that the sums over the classes of a partition add up). Then `BackStep`,
`MintStep` and `MoveStep` show the three actions; that nothing is created in the last one
is `SupplyInv`, before and after. Hypotheses: keys and tokens are finite sets, as sums over
them are taken, and the outputs at the start are all ordinary, as `SupplyInit` demands.
The instance of the run satisfies both.

**Returned transactions.** A builder writes outputs and, apart from them, segments into
the unlocking script; the covenant rebuilds outputs from the segments. `Covers` says what
the two must have in common, and `OneCovers`, `DestsCover` and `RestCovers` show it for
every operation. From it `BasicTxGood` and `MergeTxGood` derive that the scripts hold, and
`AcceptedPays` that the amounts do. Since the call then waits for its callbacks, all this
has to survive the transactions of other calls (`TxStaysGood`, `JobStaysGood`). A merge also cuts the
parents of both inputs into pieces, and how many there are depends on how these parents
were made. So the invariant `AcceptInv` has two parts: `JobsGood`, every transaction in
flight passes if the outputs it merges are `Reachable`, and `ChainBounded`, every
confirmed one has at most three inputs of which only the first two carry tokens, and has
its token outputs, none of them empty, among the first four unless it is an issue. The
covenant itself gives the second one (`CovenantBounds`), and it makes every token output
reachable but those of an issue of more than four outputs (`MostAreReachable`): four
outputs and two inputs are seven pieces at most, the limit of the script. Hypotheses of
both theorems: `ProperCalls`, the arguments README.md asks for, destinations that share
out what is spent, no more of them than the covenant has segments for, a redemption to
the redemption key; `PositiveAmounts`, no destination of a list is empty (split and
redeemSplit check this, mergeSplit does not and the covenant refuses it); no txid starts
with a zero byte (else the finding of `MCLeadingZero`). `ReturnedAccepted` needs parents of
a merge with at most four outputs; README.md allows two. The instances of
`MCLifecycle.cfg` and `MCMergeLimits.cfg` satisfy what their theorem assumes.

**The market** (any number of offers, answers, traders and amounts, both values of
`ProperTakers`). Again an answer is confirmed long after the offer it was made from.
`MarketInv` says two things about everything under way: an offer names an output of the
chain and asks for what its maker wanted (`OffersKept`); an answer has the offer's
input and output in front and pays out the maker's asset in its second output, the
amount of which may still be anything, except that a maker who completed an unsigned
offer signed for just that amount (`AnswersKept`). `SwapBodyShape` and `AnswerMade` show
it for the transactions of `swap.js`, and there is one lemma per action;
`MakerSignsKeepsInv` is where the amount enters the signature. What was confirmed is
described by `SwapHistory`: publishing more offers keeps it, since offers are never
changed (`PublishKeepsHistory`), so does a longer chain (`GrowthKeepsSwap`), and
`AcceptedKeepsOffer` adds the next swap: for a token the covenant forces the amount
(`CovenantGivesAll`), for plain satoshis the maker's signature does. Withdrawals have a
single input and are no swaps.

**Swaps that keep to their offer.** What a node says to an answer depends on the whole of
it, so `ProperInv` describes answers completely: there are an offered, a given and a
paying output on the chain and agreed `Terms`, and the transaction has just their inputs,
the outputs of the terms, and signatures and unlocking data made for them; only the
maker's part may be missing while the answer is with him (`ProperSwap`). Each form of the
protocol arrives there (`ProperAnswer`, `AllInOneKeepsProper`), and `MakerSignsKeepsProper`
shows that the maker's completion does: he signs the amount of the second output for his
input, which is right because a proper taker asked for the whole. `CommissionPaidTwice` is
then arithmetic on the terms. For acceptance, signatures follow from the terms, and
`ProperCovenant` rebuilds the outputs from the segments as the script does
(`ProperOutputs`). It needs that parents are within reach of the script and that no amount
is zero, so `OrdinaryChain` is a second invariant: swaps and withdrawals themselves only
put such transactions on the chain. The hypothesis `OrdinaryStart` says: takers are proper;
no txid starts with a zero byte (else the funding outpoint is written short, the finding of
`MCLeadingZero`); makers want more than nothing; and the transactions that exist at the
start have at most four outputs, none of them empty (the covenant finds a counterparty's
script only in the first four outputs of its parent). The instance of `MCSwap.cfg` satisfies
it, and so does everything the swap functions produce.

**The abstract exchange.** `ExchangeImplemented` maps the market to `Exchange`: a holder's
balance of an asset is his `Purse`, the total of the unspent outputs he owns of it, and
the book holds the `TermsOf` the offers whose output is unspent. `PurseAfter` says what a
confirmed transaction does to a purse: it loses what the inputs held and gains the
holder's `Part` of each output, up to four of them. `TradeInv` adds to `MarketInv` that
every answer under way is a `Bargain`: its inputs are the offered, a given and perhaps a
paying output of the chain, and its outputs are `SwapOuts`, what the maker wanted, what
the taker asked for, the commission and the change. What the taker gives may be anything;
`WhatIsGiven` says what of it a node takes: the wanted asset, or what `Instead` names. If
a token is spent, its covenant decides about the script of output 1 (`CovenantFirst`); if
none is, nothing does. `GivenInstead` takes that to the abstract `GivenFor`. Since tokens
may so come from nowhere, `TradeInv` also says that the chain holds only tokens of the
start and tokens that are wanted (`AssetsKnown`). When the node takes it,
`CovenantTakesAll` and `WholeTokens` show that a token among the inputs changes hands
undivided, whatever a careless taker asked for, so that `BargainAmounts` can read off who
gained what: the maker his terms, exactly and in every asset, the taker the maker's asset
for what he gave (`TakerGain`), in every token, and anybody else loses nothing but the
payer. A withdrawal is a `Move`: what left one purse and what entered another are equal,
and the sum over all purses is the total of all outputs of the asset (`TogetherIsTotal`).
One lemma per action gives the abstract step (`PostMaps`, `CreateMaps`, `AllInOneMaps`,
`TradeMaps`, `MoveMaps`); anything that only touches answers is a stutter
(`ExchangeStays`). Hypotheses: keys are a finite set, as sums over them are taken; no
trader is a payer of fees and none receives commissions. Without these two the gain of a
maker who also paid the fee, or of a taker who also earned the commission, would not be
the terms alone. The instance of `MCExchange.cfg` satisfies them.

**Signing sessions** (any number of signers and destination lists). `TypeOK` alone is not
inductive: that carrying out an entry finds an input, an output and a place for the
signature depends on what the unsigned call returned when the chain was shorter. So
`SessionInv` adds to it `SessionsFit`: for each transaction under way, `signingInfo` has
one entry per input, `EntryFits` says that the entry tells the truth about the output the
input spends (and names the input's own index unless the call is unsignedContract, whose
entries are signed in order), and `SignaturesFit` that an input of a token bears as many
signatures as its entry was carried out and any other one at most one, each of them over
this transaction. There is one lemma per unsigned call (`ContractOpens` to
`MergeSplitOpens`), `EntrySigned` and `KeySigned` for the two ways of signing, and
`GrowthKeepsFit` for what is confirmed meanwhile. `SignedWhenApplied` follows from
`SignaturesFit` (`SignaturesSuffice`).

What `AcceptedWhenSigned` says beyond it is that the covenant and the amounts then pass.
For this a second invariant, `ProperInv`, follows the transactions themselves: each one
under way is `Proper`, that is, `Made` and good by the lemmas of `ChainProofs`, and
`Mergeable`: it spends a token or its tokens are among its first four outputs; and every
confirmed one is `Mergeable` and bounded as in the ledger (`ChainProper`). A confirmed
transaction changes this for no other (`StaysProper`) and joins the chain as a mergeable
one (`ChainStaysProper`: the covenant that let it pass bounds its outputs). Hence every
token output on the chain is reachable for a merge (`MostAreReachable`), and a transaction
of unspent inputs lacks nothing but signatures (`OnlySignaturesMissing`). Hypotheses:
`ProperArguments` (destinations hold satoshis, issues have at most four tokens, tokens
that exist at the start lie among the first four outputs) and no txid with a leading zero
byte. `MCSigningSession` states `ProperArguments` as an assumption, so TLC has evaluated
it on the instances; TLC also finds both invariants to hold on that of `MCSigning.cfg`.

**The fee** (`ScriptAssumption`: a script is at least as long as the template with an
empty schema; `PushAssumption`: a pushed number has at most eight bytes, an output index
five; `CountsAssumption`: counts and sizes are natural numbers). An operation embeds
parent transactions whose size depends on everything before, so the invariant `IInv`
adds that the parents stay `Roomy`: when the copies of the script tail are cut out, so
many bytes are left for each piece that the code's factor of two covers the pushes. Issue
starts so (`IssueRoomy`) and every later operation keeps it; with it, each estimate is at
least the size it is made for, and rounding the fee up never loses (`FeePays`).

Only model-checked: the liveness properties `CallsEnd` and `SessionsEnd`, which are beyond
the prover.

## What is not modelled

* **Keys and argument checks.** A callback signs with the right key. Null checks and
  format checks of arguments are left out; the examples are modelled only where they
  show how signing lists are used.
* **One fee in the ledger.** `TokenLedger` and `SwapMarket` use one constant fee per
  funded transaction; what an estimate is worth is `FeeEstimate`'s subject.
* **Several payments.** contract() takes any number of payment UTXOs, every other
  operation at most one; the model pays with none or one, and gives contract() one or
  two inputs of the issuer.
* **Scripts of other versions.** `getVersion` returns 0 for them; the library's own
  template is version 2 and only its covenant is modelled.
* **Bytes.** Preimage and sighash are serialisations; of them the model keeps what a
  signature covers and how long the preimage is. Hexadecimal text, regular expressions
  and JSON are left out except where a search in a script can go wrong.
* **Merges after swaps** in the fee model.
* **Faucet, transaction queries, bundle, error names**: I/O and exports.
