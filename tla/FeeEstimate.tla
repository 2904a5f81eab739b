----------------------------- MODULE FeeEstimate -----------------------------
(***************************************************************************)
(* The mining fee.  Every operation computes its fee before the inputs are *)
(* unlocked, from an estimate of the size the transaction will have; each  *)
(* one has an estimate of its own.  The unlocking data of a STAS input     *)
(* repeats its locking script (in the preimage) and, for merge and swap,   *)
(* the transaction that created the counterpart, so what is estimated      *)
(* depends on how the tokens came about.                                   *)
(*                                                                         *)
(* Sizes are in bytes.  Amounts and indices matter by the length of their  *)
(* pushes only; signatures are as long as they can be.                     *)
(***************************************************************************)
EXTENDS Integers

CONSTANTS
    ScriptSizes,    \* sizes a STAS locking script may have
    SchemaSizes,    \* sizes the script of a contract may have
    IssueCounts,    \* numbers of outputs of an issue
    AmountBytes,    \* lengths of a pushed amount
    VoutBytes,      \* lengths of a pushed funding index
    NativeParents,  \* sizes of transactions that pay ordinary satoshis
    MaxNesting      \* bound on how deep transactions are embedded in one another

VARIABLES
    script,         \* size of the locking script of the token
    parents,        \* of two token UTXOs: the transactions that created them
    last            \* what the last call estimated and what it really needs

vars == <<script, parents, last>>

\* The template of a v2 script alone has 1431 bytes.
ASSUME ScriptAssumption == ScriptSizes \subseteq {n \in Nat : n >= 1432}

\* numberToLESM: one opcode up to 16, else at most seven bytes and their length.
ASSUME PushAssumption == AmountBytes \subseteq 1..8 /\ VoutBytes \subseteq 1..5

ASSUME CountsAssumption ==
    /\ IssueCounts \subseteq Nat \ {0}
    /\ SchemaSizes \subseteq Nat
    /\ MaxNesting \in Nat
    /\ NativeParents \subseteq Nat

-----------------------------------------------------------------------------
(* Serialisation *)

VarInt(n) == IF n < 253 THEN 1 ELSE IF n < 65536 THEN 3 ELSE 5

PushHeader(n) ==
    IF n < 76 THEN 1 ELSE IF n < 256 THEN 2 ELSE IF n < 65536 THEN 3 ELSE 5

PushOf(n) == PushHeader(n) + n

\* An input with an unlocking script, an output with a locking script.
Input(n) == 40 + VarInt(n) + n
Output(n) == 8 + VarInt(n) + n

\* Fewer than 253 inputs.
TxBytes(inputs, outCount, outputs) == 4 + 1 + inputs + VarInt(outCount) + outputs + 4

P2PKH_LOCKING_SCRIPT_BYTES == 25
P2PKH_UNLOCKING_SCRIPT_BYTES == 1 + 72 + 1 + 33
ChangeOutput == Output(P2PKH_LOCKING_SCRIPT_BYTES)

\* preimage(): hashes of 32 bytes, the outpoint, the script, five numbers.
Preimage(n) == 4 + 32 + 32 + 36 + VarInt(n) + n + 8 + 4 + 32 + 4 + 4

\* What merge cuts out of a parent transaction: a script but its first 23 bytes.
Tail(n) == n - 23

-----------------------------------------------------------------------------
(* contract and issue: estimate and size of the funded transaction *)

\* The length so far, the change output, and every input unlocked.
PlainEstimate(inCount, outCount, outputs) ==
    TxBytes(inCount * Input(0), outCount, outputs)
      + 1 + 8 + P2PKH_LOCKING_SCRIPT_BYTES + inCount * P2PKH_UNLOCKING_SCRIPT_BYTES

PlainSize(inCount, outCount, outputs) ==
    TxBytes(inCount * Input(P2PKH_UNLOCKING_SCRIPT_BYTES), outCount + 1,
            outputs + ChangeOutput)

-----------------------------------------------------------------------------
(* transfer, split, redeem, redeemSplit: handleChange *)

\* toks token outputs, plain ordinary ones, and the change.
BasicOutputs(n, toks, plain) == toks * Output(n) + plain * ChangeOutput + ChangeOutput

\* Mutant: room for the segment of one output only.
handleChangeOneSegment(n, toks, plain) ==
    TxBytes(2 * Input(0), toks + plain + 1, BasicOutputs(n, toks, plain))
      + 6 + 28 + 9 + 33 + VarInt(Preimage(n)) + Preimage(n)
      + P2PKH_UNLOCKING_SCRIPT_BYTES + P2PKH_UNLOCKING_SCRIPT_BYTES

handleChange(n, toks, plain) ==
    TxBytes(2 * Input(0), toks + plain + 1, BasicOutputs(n, toks, plain))
      + 6 + (toks + plain + 1) * 28 + 9 + 33 + VarInt(Preimage(n)) + Preimage(n)
      + P2PKH_UNLOCKING_SCRIPT_BYTES + P2PKH_UNLOCKING_SCRIPT_BYTES

\* a, f: lengths of amounts and of the funding index.
Segments(count, a, f) == count * (a + 21) + f + 33

BasicUnlock(n, outCount, a, f) ==
    Segments(outCount, a, f) + 1 + PushOf(Preimage(n)) + P2PKH_UNLOCKING_SCRIPT_BYTES

BasicSize(n, toks, plain, a, f) ==
    TxBytes(Input(BasicUnlock(n, toks + plain + 1, a, f))
              + Input(P2PKH_UNLOCKING_SCRIPT_BYTES),
            toks + plain + 1, BasicOutputs(n, toks, plain))

-----------------------------------------------------------------------------
(* merge and mergeSplit: handleChangeForMerge *)

\* Bytes of a transaction that remain when the copies of the tail are cut out.
Rest(n, tx) == tx.size - tx.copies * Tail(n)

\* The pieces as hexadecimal text, a blank between them.
extraBytesForPieces(n, tx) == 2 * Rest(n, tx) + tx.copies + 8

handleChangeForMerge(n, tx1, tx2, toks) ==
    TxBytes(3 * Input(0), toks + 1, BasicOutputs(n, toks, 0))
      + 9 + 21 + 4 + 9 + 33 + 9
      + extraBytesForPieces(n, tx1) + extraBytesForPieces(n, tx2)
      + (VarInt(Preimage(n)) + Preimage(n)) * 2
      + P2PKH_UNLOCKING_SCRIPT_BYTES + 2 * P2PKH_UNLOCKING_SCRIPT_BYTES

\* At most one header as long as for all pieces together in front of each.
MergeUnlock(n, other, outCount, a, f) ==
    Segments(outCount, a, f) + 1
      + Rest(n, other) + (other.copies + 1) * PushHeader(Rest(n, other)) + 1
      + PushOf(Preimage(n)) + P2PKH_UNLOCKING_SCRIPT_BYTES

MergeSize(n, tx1, tx2, toks, a, f) ==
    TxBytes(Input(MergeUnlock(n, tx2, toks + 1, a, f))
              + Input(MergeUnlock(n, tx1, toks + 1, a, f))
              + Input(P2PKH_UNLOCKING_SCRIPT_BYTES),
            toks + 1, BasicOutputs(n, toks, 0))

-----------------------------------------------------------------------------
(* swap: handleChangeForSwap *)

\* A side of a swap: a token or not, its script, the transaction it comes from.
TokenSide(n, tx) == [token |-> TRUE, script |-> n, parent |-> tx.size]
NativeSide(bytes) ==
    [token |-> FALSE, script |-> P2PKH_LOCKING_SCRIPT_BYTES, parent |-> bytes]

StasInputs(maker, taker) ==
    (IF maker.token THEN 1 ELSE 0) + (IF taker.token THEN 1 ELSE 0)

SwapOutputBytes(maker, taker) ==
    Output(taker.script) + Output(maker.script) + ChangeOutput

\* A signed offer counts the scripts, the unsigned form a side's own parent.
SwapExtra(form, side) ==
    IF ~side.token THEN 0 ELSE IF form = "signed" THEN side.script ELSE side.parent

\* The taker's input still holds a locking script; but from() leaves the one of
\* plain satoshis empty when they answer an unsigned offer.
TakerHolds(form, taker) == IF taker.token \/ form = "signed" THEN taker.script ELSE 0

\* The payment's input holds its locking script in every form.
handleChangeForSwap(n, form, maker, taker) ==
    LET stasInputCount == StasInputs(maker, taker)
        makerUnlock == IF form = "signed" THEN P2PKH_UNLOCKING_SCRIPT_BYTES ELSE 0
    IN TxBytes(Input(makerUnlock) + Input(TakerHolds(form, taker))
                 + Input(P2PKH_LOCKING_SCRIPT_BYTES),
               3, SwapOutputBytes(maker, taker))
         + stasInputCount * (9 + 21 + 9 + 21 + 4 + 9 + 33 + 9 + 1 + 72 + 1 + 33)
         + SwapExtra(form, maker) + SwapExtra(form, taker)
         + stasInputCount * (VarInt(Preimage(n)) + Preimage(n))
         + (3 - stasInputCount) * P2PKH_UNLOCKING_SCRIPT_BYTES

\* The covenant wants the whole parent of the counterparty's input.
SwapUnlock(n, side, counterparty, a) ==
    IF side.token
      THEN Segments(3, a, 1) + 1 + PushOf(counterparty.parent) + 1
             + PushOf(Preimage(n)) + P2PKH_UNLOCKING_SCRIPT_BYTES
      ELSE P2PKH_UNLOCKING_SCRIPT_BYTES

SwapSize(n, maker, taker, a) ==
    TxBytes(Input(SwapUnlock(n, maker, taker, a))
              + Input(SwapUnlock(n, taker, maker, a))
              + Input(P2PKH_UNLOCKING_SCRIPT_BYTES),
            3, SwapOutputBytes(maker, taker))

-----------------------------------------------------------------------------
(* constants.js *)

Sats == 50
PerByte == 1000

fee(txSizeInBytes) == (txSizeInBytes * Sats + PerByte - 1) \div PerByte

-----------------------------------------------------------------------------
(* A token through its life *)

\* mergeable: no swap; nesting: transactions embedded in transactions.
ParentTx(size, copies, nesting, mergeable) ==
    [size |-> size, copies |-> copies, nesting |-> nesting, mergeable |-> mergeable]

\* The larger of the parents' nestings, and one.
NextNesting ==
    1 + (IF parents[1].nesting > parents[2].nesting
           THEN parents[1].nesting ELSE parents[2].nesting)

Estimated(op, outCount, estimate, size) ==
    last' = [op |-> op, outCount |-> outCount, fee |-> fee(estimate), size |-> size]

IssueOutputs(n, count) == count * Output(n)

IssueParent(n, count) ==
    ParentTx(PlainSize(2, count, IssueOutputs(n, count)), count, 0, TRUE)

Init ==
    /\ script \in ScriptSizes
    /\ \E count \in IssueCounts :
          parents = [i \in 1..2 |-> IssueParent(script, count)]
    /\ last = [op |-> "none", outCount |-> 0, fee |-> 0, size |-> 0]

Contract ==
    \E bytes \in SchemaSizes :
        /\ Estimated("contract", 2, PlainEstimate(2, 1, Output(bytes)),
                     PlainSize(2, 1, Output(bytes)))
        /\ UNCHANGED <<script, parents>>

\* Both UTXOs stem from a new issue.
Issue ==
    \E count \in IssueCounts :
        LET outputs == IssueOutputs(script, count)
        IN /\ Estimated("issue", count + 1, PlainEstimate(2, count, outputs),
                        PlainSize(2, count, outputs))
           /\ parents' = [i \in 1..2 |-> IssueParent(script, count)]
           /\ UNCHANGED script

\* toks outputs of the token and, when some of it is redeemed, an ordinary one.
Basic(i) ==
    \E toks \in 0..4, plain \in 0..1, a \in AmountBytes, f \in VoutBytes :
        LET size == BasicSize(script, toks, plain, a, f)
        IN /\ toks + plain \in 1..4
           /\ Estimated("basic", toks + plain + 1, handleChange(script, toks, plain), size)
           /\ parents' = IF toks = 0 THEN parents
                         ELSE [parents EXCEPT ![i] = ParentTx(size, toks + 1, 0, TRUE)]
           /\ UNCHANGED script

Merge ==
    \E toks \in 1..2, a \in AmountBytes, f \in VoutBytes :
        LET size == MergeSize(script, parents[1], parents[2], toks, a, f)
        IN /\ parents[1].mergeable /\ parents[2].mergeable
           /\ NextNesting <= MaxNesting
           /\ Estimated("merge", toks + 1,
                        handleChangeForMerge(script, parents[1], parents[2], toks), size)
           /\ parents' = [i \in 1..2 |-> ParentTx(size, toks + 2, NextNesting, TRUE)]
           /\ UNCHANGED script

SwapOf(form, op, maker, taker) ==
    \E a \in AmountBytes :
        /\ NextNesting <= MaxNesting
        /\ Estimated(op, 3, handleChangeForSwap(script, form, maker, taker),
                     SwapSize(script, maker, taker, a))
        /\ parents' = [i \in 1..2 |->
                          ParentTx(SwapSize(script, maker, taker, a), 1, NextNesting, FALSE)]
        /\ UNCHANGED script

SwapTokens(form) ==
    SwapOf(form, form, TokenSide(script, parents[1]), TokenSide(script, parents[2]))

SwapForNative(form) ==
    \E bytes \in NativeParents :
        SwapOf(form, "native", TokenSide(script, parents[1]), NativeSide(bytes))

SwapForToken(form) ==
    \E bytes \in NativeParents :
        SwapOf(form, "native", NativeSide(bytes), TokenSide(script, parents[2]))

Next ==
    \/ Contract \/ Issue \/ Merge
    \/ \E i \in 1..2 : Basic(i)
    \/ \E form \in {"signed", "unsigned"} :
          SwapTokens(form) \/ SwapForNative(form) \/ SwapForToken(form)

Spec == Init /\ [][Next]_vars

-----------------------------------------------------------------------------
(* Properties *)

RatePaid(bytes) == last.fee * PerByte >= bytes * Sats

\* The change output of an issue may make the output count two bytes longer.
UncountedBytes ==
    IF last.op = "issue" /\ last.outCount \in {253, 65536} THEN 2 ELSE 0

\* Whatever the history of the tokens, the fee computed from the estimate pays
\* the configured rate for the final transaction, for every operation that
\* handles one token, for merges, and for swaps of two tokens from an unsigned
\* offer (stas.js:138, mergeWithCallback.js:330, swap.js:701).
FeeCoversSize ==
    last.op \in {"contract", "issue", "basic", "merge", "unsigned"} =>
        RatePaid(last.size - UncountedBytes)

\* swap.js:1456: "Pieces (Partly P2PSH)  (passed in to function)": the estimate
\* accounts for the embedded transactions in every form of a swap.
SwapFeeCoversSize ==
    last.op \in {"signed", "native", "unsigned"} => RatePaid(last.size)

=============================================================================
