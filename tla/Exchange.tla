------------------------------ MODULE Exchange ------------------------------
(***************************************************************************)
(* What swap.js promises to its participants, without transactions: an     *)
(* offer names what its maker gives and what he wants for it; he gives the *)
(* one only for the other, at once, and at most once per offer.  Proper    *)
(* takers give what is wanted, so that tokens only change hands.           *)
(***************************************************************************)
EXTENDS Integers, Functions

CONSTANTS
    Keys,       \* participants
    Assets,     \* the tokens and plain satoshis
    Cash,       \* plain satoshis
    Slots,      \* names of offers
    Issuer,     \* the redemption key of every token
    Proper      \* TRUE: takers give what is wanted

VARIABLES
    balance,    \* what everybody holds of every asset
    book        \* the terms of every open offer

exchangeVars == <<balance, book>>

Terms == [maker: Keys, give: Assets, giveAmount: Nat, want: Assets, wantAmount: Nat]

ExchangeInit == balance \in [Keys -> [Assets -> Nat]] /\ book = <<>>

TokenAssets == Assets \ {Cash}

\* What comes of one and goes of the other asset, looking at a.
Net(come, comeAmount, go, goAmount, a) ==
    (IF come = a THEN comeAmount ELSE 0) - (IF go = a THEN goAmount ELSE 0)

Gain(terms, a) == Net(terms.want, terms.wantAmount, terms.give, terms.giveAmount, a)

TakerGain(terms, given, a) == Net(terms.give, terms.giveAmount, given, terms.wantAmount, a)

\* What a taker may give where something else is wanted: plain satoshis for plain
\* satoshis, which come out as a token nobody had, or a token to its issuer, who
\* redeems it.
Mistaken(terms, given) ==
    \/ terms.give = Cash /\ terms.want # Cash /\ given = Cash
    \/ terms.want = Cash /\ given # Cash /\ Issuer[given] = terms.maker

GivenFor(terms) ==
    {given \in Assets : given = terms.want \/ (~Proper /\ Mistaken(terms, given))}

\* Open offers keep their terms; some may be closed.
OnlyCloses(slots) ==
    /\ DOMAIN book' \subseteq slots
    /\ book' = Restrict(book, DOMAIN book')

Post(o) ==
    /\ o \notin DOMAIN book
    /\ DOMAIN book' = DOMAIN book \cup {o}
    /\ book = Restrict(book', DOMAIN book)
    /\ UNCHANGED balance

\* The maker's gain is exact in every asset, the taker's in every token.  Plain
\* satoshis can only be lost by the taker and by whoever pays the miner.  A token
\* comes from nowhere or goes nowhere only where the taker gave something else
\* than what was wanted.
Trade(o) ==
    /\ o \in DOMAIN book
    /\ OnlyCloses(DOMAIN book \ {o})
    /\ LET before == balance  after == balance'
           terms == book[o]
       IN \E taker \in Keys \ {terms.maker}, payer \in Keys, given \in GivenFor(terms) :
          /\ \A a \in Assets :
                after[terms.maker][a] = before[terms.maker][a] + Gain(terms, a)
          /\ \A a \in TokenAssets :
                after[taker][a] = before[taker][a] + TakerGain(terms, given, a)
          /\ \A k \in Keys \ {terms.maker, taker} :
                /\ \A a \in TokenAssets : after[k][a] = before[k][a]
                /\ k # payer => after[k][Cash] >= before[k][Cash]

\* Somebody gives away what is his; his offers may end with it.
Move(k) ==
    /\ OnlyCloses(DOMAIN book)
    /\ \A o \in DOMAIN book \ DOMAIN book' : book[o].maker = k
    /\ LET before == balance  after == balance'
       IN /\ \A other \in Keys \ {k}, a \in Assets : after[other][a] >= before[other][a]
          /\ \A a \in TokenAssets :
                SumFunction([p \in Keys |-> after[p][a]])
                  = SumFunction([p \in Keys |-> before[p][a]])

ExchangeNext ==
    \/ \E o \in Slots : Post(o) \/ Trade(o)
    \/ \E k \in Keys : Move(k)

ExchangeSpec == ExchangeInit /\ [][ExchangeNext]_exchangeVars

=============================================================================
