------------------------------ MODULE DocClaims ------------------------------
(***************************************************************************)
(* What comments and README.md say of the program and its code does not    *)
(* do.  Each run that checks one of these expects TLC to refute it; the    *)
(* counterexamples are explained in README.md under "Findings".            *)
(***************************************************************************)
EXTENDS TokenLedger

Returned == {c \in Calls : jobs[c].phase = "returned"}

\* stas.js:129 and 218: the unlocking script holds "0x14 + Funding txid 33
\* bytes", the "funding index and reverse tx id": it names the funding input.
FundingOutpointNamed ==
    \A c \in Returned :
        \A i \in DOMAIN jobs[c].tx.ins :
            LET tx == jobs[c].tx
            IN ChainOutput(tx.ins[i]).kind = "stas" =>
                   tx.unlock[i].funding \in {NoOutpoint, Last(tx.ins)}

\* README.md:11: "Issue: This will spend the contract transaction and create a
\* new STAS UTXO": whatever key made an unspent contract output, the whole of it
\* can be issued, with no payment, in one output to some key.
EveryContractIssuable ==
    \A op \in Unspent(chain) :
        LET contract == Utxo(chain, op)
            Whole(k, d) == <<[addr |-> k, satoshis |-> contract.out.satoshis,
                              data |-> d]>>
        IN contract.out.kind = "contract" =>
               \E k \in Keys, d \in Data :
                   issueGuards(contract, Whole(k, d), <<>>, contract.out.tok.symbol)

=============================================================================
