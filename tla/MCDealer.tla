------------------------------- MODULE MCDealer -------------------------------
(***************************************************************************)
(* Instances of Dealer for TLC.                                            *)
(***************************************************************************)
EXTENDS Dealer, TLC

CONSTANTS m1, w1, w2, reporter

\* A deal to be made with a remote wallet.
MCAuctionDeals ==
    {[id |-> "ad", batch |-> "b", payloadCid |-> "payload", pieceCid |-> "piece",
      pieceSize |-> 2, duration |-> 3, carURL |-> "url",
      wallet |-> Present([peer |-> "peer", token |-> "token", addr |-> "wallet",
                          maddrs |-> <<>>]),
      proposals |-> <<[sp |-> Text("sp"), price |-> 0, startEpoch |-> 1,
                       verified |-> TRUE, fast |-> TRUE]>>]}

MCDealIDOf == [d \in Deals |-> 1]

MCOtherDeal ==
    [provider |-> "sp", pieceCid |-> "other", start |-> 1, end |-> 9]

MCSymmetry == Permutations(Monitors)

================================================================================
