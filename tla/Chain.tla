-------------------------------- MODULE Chain --------------------------------
(***************************************************************************)
(* The chain that calls read their UTXOs from and broadcast to, shared by  *)
(* the modules in which calls run (TokenLedger) and in which signers come  *)
(* later (SigningSession).                                                 *)
(***************************************************************************)
EXTENDS StasBuilders

CONSTANTS
    Payers          \* keys that fund fees

VARIABLES
    chain           \* confirmed transactions; the index is the txid

ChainOutput(op) == chain[op.txid].outs[op.vout + 1]

Utxos(kind) == {u \in {Utxo(chain, op) : op \in Unspent(chain)} : u.out.kind = kind}

Payments == {<<>>} \cup {<<u>> : u \in {v \in Utxos("p2pkh") : v.out.pkh \in Payers}}

\* A node takes a transaction; unlocking scripts are not looked at again.
AddToChain(tx) == chain' = Append(chain, [ins |-> tx.ins, outs |-> tx.outs])

TokenOutputs == {op \in Created(chain) : ChainOutput(op).kind = "stas"}

=============================================================================
