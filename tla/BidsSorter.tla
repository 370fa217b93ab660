------------------------------- MODULE BidsSorter -------------------------------
(***************************************************************************)
(* The order in which the candidates of an auction are asked               *)
(* (cmd/auctioneerd/auctioneer/sorter.go): what the heap of bids yields.   *)
(* A bidder stands for its bid.                                            *)
(***************************************************************************)
EXTENDS Integers, FiniteSets, FiniteSetsExt

\* "Provider not in the provided rates table are considered to have zero rate."
ProviderRate(rates, b) == IF b \in DOMAIN rates THEN rates[b] ELSE 0

\* LowerProviderRate: the comparison of the heap.
LowerProviderRate(rates, i, j) == ProviderRate(rates, i) < ProviderRate(rates, j)

\* RandomTopN pops some of the first n bids of the heap.  Bids of equal rate come
\* in any order.
TopN(cands, n, rates) ==
    {b \in cands : Cardinality({c \in cands : LowerProviderRate(rates, c, b)}) < n}

\* The iterator of RandomTopN: cands is what is left in the heap, which it shares
\* with later iterators, left how often it may still be called.
RandomTopN(cands, n, rates) ==
    [cands |-> cands, rates |-> [b \in cands |-> ProviderRate(rates, b)],
     left |-> Min({n, Cardinality(cands)})]

\* The iterator of Random: any bid, until there is none.
Random(cands) ==
    [cands |-> cands, rates |-> <<>>, left |-> Cardinality(cands)]

\* What Next of an iterator may return.
NextOf(it) == TopN(it.cands, it.left, it.rates)

\* Mutant: n is not decremented.
AfterUncounted(it, b) == [it EXCEPT !.cands = @ \ {b}]

After(it, b) == [it EXCEPT !.cands = @ \ {b}, !.left = @ - 1]

================================================================================
