----------------------------- MODULE Signatures -----------------------------
(***************************************************************************)
(* What a signature of bsv.Transaction.sighash says: who signs, for which  *)
(* previous output (script and amount), over which parts of a transaction. *)
(* Unlocking scripts are never part of it, so the order in which inputs    *)
(* are signed does not matter, and unlocking data may follow later.        *)
(***************************************************************************)
EXTENDS StasBuilders

NoSig == [by |-> NoKey, prev |-> P2pkhOut(NoKey, 0), scope |-> "none",
          ins |-> <<>>, outs |-> <<>>]

Sigs == [by: Keys, prev: Outputs, scope: {"single", "all"},
         ins: Seq(Outpoints), outs: Seq(Outputs)] \cup {NoSig}

\* SIGHASH_SINGLE | ANYONECANPAY: the signed input and the output beside it.
SignSingle(prev, tx) ==
    [by |-> prev.pkh, prev |-> prev, scope |-> "single",
     ins |-> <<tx.ins[1]>>, outs |-> <<tx.outs[1]>>]

\* SIGHASH_ALL: every input and output.
SignAll(prev, tx) ==
    [by |-> prev.pkh, prev |-> prev, scope |-> "all",
     ins |-> tx.ins, outs |-> tx.outs]

\* The check of a node: key, amount and parts are those of the transaction.
SigHolds(chain, tx, i, sig) ==
    LET prev == Utxo(chain, tx.ins[i]).out
    IN /\ sig.by = prev.pkh
       /\ sig.prev = prev
       /\ \/ /\ sig.scope = "all"
             /\ sig.ins = tx.ins /\ sig.outs = tx.outs
          \/ /\ sig.scope = "single"
             /\ sig.ins = <<tx.ins[i]>> /\ sig.outs = <<tx.outs[i]>>

=============================================================================
