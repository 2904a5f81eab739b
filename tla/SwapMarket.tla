----------------------------- MODULE SwapMarket -----------------------------
(***************************************************************************)
(* Makers and takers who trade through lib/swap.js.                        *)
(*                                                                         *)
(* The functions of swap.js run to their end without waiting; what         *)
(* interleaves are the participants.  An offer, once published, can be     *)
(* taken by several takers, at any later time; an unsigned one travels     *)
(* taker, maker, taker; meanwhile its owner may spend what he offered.     *)
(***************************************************************************)
EXTENDS SwapTx

CONSTANTS
    Genesis,        \* transactions that exist at the start, tokens among them
    Offers,         \* offers a maker may publish
    Takes,          \* answers of takers that may be under way together
    Traders,        \* keys that make and take offers
    Payers,         \* keys that fund fees
    WantedInfos,    \* wantedInfo arguments
    CommissionInfos,\* commissionInfo arguments
    TakerAmounts,   \* takerOutputSatoshis arguments of careless takers
    ProperTakers,   \* TRUE: takers give and ask for what the offer names
    MaxTxs          \* bound on the length of the chain

VARIABLES
    chain,          \* confirmed transactions; the index is the txid
    offers,         \* what was published
    takes           \* what each taker is doing

vars == <<chain, offers, takes>>

ASSUME GenesisAssumption == Genesis \in Seq(Seq(Outputs))

ASSUME ArgumentsAssumption ==
    /\ WantedInfos \subseteq Wanted
    /\ CommissionInfos \subseteq Commissions
    /\ TakerAmounts \subseteq Nat
    /\ ProperTakers \in BOOLEAN
    /\ Traders \subseteq Keys /\ Payers \subseteq Keys

-----------------------------------------------------------------------------
NoSwap == [ins |-> <<>>, outs |-> <<>>, sigs |-> <<>>, unlock |-> <<>>]

NoOffer == [phase |-> "none"]

IdleTake == [phase |-> "idle", tx |-> NoSwap]

Init ==
    /\ chain = [t \in DOMAIN Genesis |-> [ins |-> <<>>, outs |-> Genesis[t]]]
    /\ offers = [o \in Offers |-> NoOffer]
    /\ takes = [t \in Takes |-> IdleTake]

UnspentUtxos == {Utxo(chain, op) : op \in Unspent(chain)}

\* What somebody may trade: a token or ordinary satoshis.
Tradeable == {u \in UnspentUtxos : u.out.pkh \in Traders /\ u.out.kind # "contract"}

\* paymentUtxo, apart from what is traded.
Payments(traded) ==
    {u \in UnspentUtxos : /\ u.out.kind = "p2pkh" /\ u.out.pkh \in Payers
                          /\ u.op \notin traded}

Published(phase) == {o \in Offers : offers[o].phase = phase}

InFlight == {t \in Takes : takes[t].phase # "idle"}

\* The bound on the chain counts the answers under way.
MayTake(t) ==
    /\ takes[t].phase = "idle"
    /\ Len(chain) + Cardinality(InFlight) < MaxTxs

Publish(o, phase, u, wanted, tx) ==
    /\ offers' = [offers EXCEPT ![o] =
                    [phase |-> phase, utxo |-> u, wanted |-> wanted, tx |-> tx]]
    /\ UNCHANGED <<chain, takes>>

Hold(t, phase, tx) ==
    /\ takes' = [takes EXCEPT ![t] = [phase |-> phase, tx |-> tx]]
    /\ UNCHANGED <<chain, offers>>

-----------------------------------------------------------------------------
(* Makers *)

\* A redemption key that wants a token would be paid plain satoshis.
ProperOffer(u, wanted) ==
    wanted.type = "token" =>
        u.out.pkh \notin {wanted.tok.red} \cup
                         (IF u.out.kind = "stas" THEN {u.out.tok.red} ELSE {})

CreateSwapOffer(o) ==
    \E u \in Tradeable, wanted \in WantedInfos :
        /\ offers[o].phase = "none"
        /\ ProperTakers => ProperOffer(u, wanted)
        /\ Publish(o, "signed", u, wanted, createSwapOffer(u, wanted))

CreateUnsignedSwapOffer(o) ==
    \E u \in Tradeable, wanted \in WantedInfos :
        /\ offers[o].phase = "none"
        /\ ProperTakers => ProperOffer(u, wanted)
        /\ Publish(o, "unsigned", u, wanted, createUnsignedSwapOffer(u, wanted))

\* The owner spends a UTXO he may have offered: transfer() of a token, or an
\* ordinary payment to himself.
SpentElsewhere(u) ==
    IF u.out.kind = "stas"
      THEN {transferTx(u, k, <<>>) : k \in {d \in Traders : transferGuards(u, d, <<>>)}}
      ELSE {[ins |-> <<u.op>>, outs |-> <<u.out>>, unlock |-> <<PlainUnlock>>]}

Withdraw ==
    \E u \in Tradeable : \E tx \in SpentElsewhere(u) :
        /\ Len(chain) + Cardinality(InFlight) < MaxTxs
        /\ NetworkAccepts(chain, tx)
        /\ chain' = Append(chain, [ins |-> tx.ins, outs |-> tx.outs])
        /\ UNCHANGED <<offers, takes>>

-----------------------------------------------------------------------------
(* Takers *)

\* The asset that is wanted.  Nothing in the code compares it with what a taker
\* gives.
Carries(out, wanted) ==
    IF wanted.type = "native" THEN out.kind = "p2pkh" ELSE IsStas(out, wanted.tok)

\* What a taker gives for an offer, what he asks for, and what he pays with.
Answers(o, comm) ==
    {a \in [give: Tradeable, satoshis: TakerAmounts \cup {offers[o].utxo.out.satoshis},
            pay: Payments({})] :
        /\ a.give.out.pkh # offers[o].utxo.out.pkh
        /\ Cardinality({a.give.op, offers[o].utxo.op, a.pay.op}) = 3
        /\ ProperTakers =>
              /\ Carries(a.give.out, offers[o].wanted)
              /\ a.satoshis = offers[o].utxo.out.satoshis
              /\ a.give.out.satoshis = offers[o].wanted.satoshis + comm.satoshis
              /\ comm.satoshis > 0 => comm.pkh # NoKey /\ a.give.out.kind = "p2pkh"}

AcceptSwapOffer(t) ==
    \E o \in Published("signed"), comm \in CommissionInfos :
    \E a \in Answers(o, comm) :
        /\ MayTake(t)
        /\ acceptSwapOfferGuards(offers[o].tx, offers[o].utxo.out, a.give,
                                 a.satoshis, comm, a.pay)
        /\ Hold(t, "returned",
                acceptSwapOffer(offers[o].tx, offers[o].utxo.out, a.give,
                                a.satoshis, comm, a.pay))

AcceptUnsignedSwapOffer(t) ==
    \E o \in Published("unsigned") : \E a \in Answers(o, NoCommission) :
        /\ MayTake(t)
        /\ acceptUnsignedSwapOfferGuards(offers[o].tx, a.give, a.satoshis, a.pay)
        /\ Hold(t, "sent",
                acceptUnsignedSwapOffer(offers[o].tx, offers[o].utxo.out, a.give,
                                        a.satoshis, a.pay))

AcceptUnsignedNativeSwapOffer(t) ==
    \E o \in Published("unsigned") : \E a \in Answers(o, NoCommission) :
        /\ MayTake(t)
        /\ ProperTakers => a.give.out.kind = "p2pkh"
        /\ acceptUnsignedNativeSwapOfferGuards(a.satoshis, a.pay)
        /\ Hold(t, "sent",
                acceptUnsignedNativeSwapOffer(offers[o].tx, offers[o].utxo.out,
                                              a.give, a.satoshis, a.pay))

\* The maker completes what came back to him and returns it.
MakerSigns(t) ==
    LET tx == takes[t].tx
        makerOut == Utxo(chain, tx.ins[1]).out
        pay == Utxo(chain, tx.ins[3])
    IN /\ takes[t].phase = "sent"
       /\ makerSignGuards(tx, makerOut, pay)
       /\ Hold(t, "returned", makerSignSwapOffer(tx, makerOut, pay))

MakerDeclines(t) ==
    /\ takes[t].phase = "sent"
    /\ Hold(t, "idle", NoSwap)

\* Both keys in one hand: the terms are agreed on and carried out by one call,
\* which trades a token for a token, whatever wantedInfo says.
AllInOneSwap(t) ==
    \E o \in Offers, u1, u2 \in Tradeable, wanted \in WantedInfos :
    \E pay \in Payments({u1.op, u2.op}) :
        /\ MayTake(t)
        /\ offers[o].phase = "none"
        /\ u1.out.kind = "stas" /\ u2.out.kind = "stas"
        /\ u1.out.pkh # u2.out.pkh
        /\ ProperTakers => ProperOffer(u1, wanted) /\ Carries(u2.out, wanted)
        /\ allInOneSwapGuards(u1, wanted, u2, u1.out.satoshis, pay)
        /\ offers' = [offers EXCEPT ![o] =
                        [phase |-> "agreed", utxo |-> u1, wanted |-> wanted,
                         tx |-> createUnsignedSwapOffer(u1, wanted)]]
        /\ takes' = [takes EXCEPT ![t] =
                        [phase |-> "returned",
                         tx |-> allInOneSwap(u1, wanted, u2, u1.out.satoshis, pay)]]
        /\ UNCHANGED chain

-----------------------------------------------------------------------------
(* Broadcast of a completed swap *)

BroadcastAccepted(t) ==
    /\ takes[t].phase = "returned"
    /\ SwapAccepted(chain, takes[t].tx)
    /\ chain' = Append(chain, [ins |-> takes[t].tx.ins, outs |-> takes[t].tx.outs])
    /\ takes' = [takes EXCEPT ![t] = IdleTake]
    /\ UNCHANGED offers

BroadcastRefused(t) ==
    /\ takes[t].phase = "returned"
    /\ ~SwapAccepted(chain, takes[t].tx)
    /\ Hold(t, "idle", NoSwap)

-----------------------------------------------------------------------------
Answer(t) ==
    \/ AcceptSwapOffer(t) \/ AcceptUnsignedSwapOffer(t)
    \/ AcceptUnsignedNativeSwapOffer(t) \/ AllInOneSwap(t)

Finish(t) ==
    \/ MakerSigns(t) \/ MakerDeclines(t)
    \/ BroadcastAccepted(t) \/ BroadcastRefused(t)

Next ==
    \/ \E o \in Offers : CreateSwapOffer(o) \/ CreateUnsignedSwapOffer(o)
    \/ \E t \in Takes : Answer(t) \/ Finish(t)
    \/ Withdraw

Spec == Init /\ [][Next]_vars

-----------------------------------------------------------------------------
(* Properties *)

PublishedOffers ==
    [phase: {"signed", "unsigned", "agreed"}, utxo: [op: Outpoints, out: Outputs],
     wanted: Wanted, tx: [ins: Seq(Outpoints), outs: Seq(Outputs), sig: Sigs]]

\* Type invariant; published offers stay what they are.
TypeOK ==
    /\ chain \in Seq(Txs)
    /\ offers \in [Offers -> PublishedOffers \cup {NoOffer}]
    /\ takes \in [Takes -> [phase: {"idle", "sent", "returned"}, tx: SwapTxs]]

ChainOutput(op) == chain[op.txid].outs[op.vout + 1]

SwapIds == {t \in DOMAIN chain : Len(chain[t].ins) = 3}

OffersOf(op) == {o \in Offers : offers[o].phase # "none" /\ offers[o].utxo.op = op}

\* Whatever amounts takers ask for, whoever answers first and however stale the
\* offer is: an offered UTXO that goes into a swap brings its owner exactly what
\* one of his offers for it wanted, script and amount (swap.js:76, 99).
OfferHonoured ==
    \A t \in SwapIds :
        LET given == ChainOutput(chain[t].ins[1])
        IN \E o \in OffersOf(chain[t].ins[1]) :
               chain[t].outs[1] = makerWantedOutput(given.pkh, offers[o].wanted)

\* The taker gets the whole of what the maker's input holds, in its script: the
\* covenant sees to it for a token, the amount inside the maker's signature for
\* an unsigned offer of ordinary satoshis (swap.js:1027).  Only under a signed
\* offer of ordinary satoshis may a taker ask for less.
TakerReceivesAll ==
    \A t \in SwapIds :
        LET given == ChainOutput(chain[t].ins[1])
            taken == ChainOutput(chain[t].ins[2])
        IN (\/ given.kind = "stas"
            \/ \A o \in OffersOf(chain[t].ins[1]) : offers[o].phase = "unsigned")
              => chain[t].outs[2] = WithOwner(given, taken.pkh, given.satoshis)

\* A swap whose amounts are the ones of the offer is accepted as long as its
\* inputs are unspent, in every form of the protocol, for every combination of
\* tokens and ordinary satoshis, with a commission on top of ordinary satoshis,
\* and for what earlier swaps handed out.
ProperSwapAccepted ==
    \A t \in Takes :
        (/\ takes[t].phase = "returned"
         /\ \A i \in DOMAIN takes[t].tx.ins : takes[t].tx.ins[i] \in Unspent(chain))
            => SwapAccepted(chain, takes[t].tx)

\* The covenant wants the commission out of the taker's input, on top of what the
\* maker gets, and the change is short of it, too (swap.js:306, 1483): in a swap
\* that keeps to its offer the miner gets the fee and the commission again.
CommissionPaidTwice ==
    \A t \in Takes :
        takes[t].phase # "idle" =>
            LET tx == takes[t].tx
                commission == IF Len(tx.outs) = 4 THEN tx.outs[3].satoshis ELSE 0
            IN SumSatoshis([i \in DOMAIN tx.ins |-> ChainOutput(tx.ins[i])])
                 = SumSatoshis(tx.outs) + Fee + commission

-----------------------------------------------------------------------------
(* The market implements the abstract exchange *)

AssetOf(out) == IF out.kind = "stas" THEN out.tok ELSE NoTok

OpenOffers == {o \in Offers : /\ offers[o].phase # "none"
                              /\ offers[o].utxo.op \in Unspent(chain)}

TermsOf(offer) ==
    [maker |-> offer.utxo.out.pkh,
     give |-> AssetOf(offer.utxo.out), giveAmount |-> offer.utxo.out.satoshis,
     want |-> IF offer.wanted.type = "native" THEN NoTok ELSE offer.wanted.tok,
     wantAmount |-> offer.wanted.satoshis]

\* What there is at the start, and what makers may ask for.
AllAssets == {NoTok} \cup {wanted.tok : wanted \in WantedInfos} \cup
             UNION {{AssetOf(out) : out \in Range(Genesis[t])} : t \in DOMAIN Genesis}

Balance ==
    LET unspent == Unspent(chain)
    IN [k \in Keys |-> [a \in AllAssets |->
           MapThenSumSet(LAMBDA op : ChainOutput(op).satoshis,
                         {op \in unspent : /\ ChainOutput(op).pkh = k
                                           /\ AssetOf(ChainOutput(op)) = a})]]

Bargains == INSTANCE Exchange WITH
    Assets <- AllAssets,
    Cash <- NoTok,
    Slots <- Offers,
    Issuer <- [a \in AllAssets \ {NoTok} |-> a.red],
    Proper <- ProperTakers,
    balance <- Balance,
    book <- [o \in OpenOffers |-> TermsOf(offers[o])]

\* Every step of the market is a step of the exchange: makers give only for
\* what they wanted and once per offer, bystanders lose nothing, and between
\* proper parties tokens only change hands.  A careless taker can have a token
\* redeemed by its issuer, or a token output made of plain satoshis in exchange
\* for plain satoshis, where no covenant runs (swap.js:166, 810).
ImplementsExchange == Bargains!ExchangeSpec

=============================================================================
