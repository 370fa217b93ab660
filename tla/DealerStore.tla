------------------------------ MODULE DealerStore ------------------------------
(***************************************************************************)
(* The database of dealerd (cmd/dealerd/store): the tables auction_data,   *)
(* auction_deals and remote_wallet.  A table is a function from keys to    *)
(* rows, db stands for all of them, and an operator returns the tables     *)
(* after the query.  The deal of the i-th proposal of auction data ad has  *)
(* the key <<ad, i>>.                                                      *)
(***************************************************************************)
EXTENDS Naturals, Convert

NoTables == [data |-> <<>>, deals |-> <<>>, wallets |-> <<>>]

Insert(table, key, row) ==
    [k \in DOMAIN table \union {key} |-> IF k = key THEN row ELSE table[k]]

--------------------------------------------------------------------------------
(* Queries. *)

CreateAuctionData(db, ad) ==
    [db EXCEPT !.data = Insert(@, ad.id,
       [batch |-> ad.batch, payloadCid |-> Text(ad.payloadCid),
        pieceCid |-> Text(ad.pieceCid), pieceSize |-> ad.pieceSize,
        duration |-> ad.duration, carURL |-> ad.carURL])]

\* The row that Create makes of the i-th proposal.
CreateAuctionDeal(ad, i) ==
    LET t == ad.proposals[i]
    IN  [data |-> ad.id, sp |-> t.sp, price |-> t.price, start |-> t.startEpoch,
         verified |-> t.verified, fast |-> t.fast, status |-> "deal-making",
         executing |-> FALSE, retries |-> 0, error |-> FALSE, proposal |-> Absent,
         dealID |-> 0, expiration |-> 0]

CreateRemoteWallet(db, id, w) ==
    [db EXCEPT !.wallets = Insert(@, id,
       [peer |-> Text(w.peer), token |-> w.token, addr |-> Text(w.addr),
        maddrs |-> TextAll(w.maddrs)])]

\* The row of the deal, marked as executing.
NextPendingAuctionDeal(db, d) == [db EXCEPT !.deals[d].executing = TRUE]

\* All columns are written, whatever the row says by now.
UpdateAuctionDeal(db, d, aud) == [db EXCEPT !.deals[d] = aud]

--------------------------------------------------------------------------------
(* The store. *)

ValidateAuctionData(ad) ==
    /\ ad.duration > 0 /\ ad.pieceSize > 0
    /\ \A i \in DOMAIN ad.proposals : /\ ad.proposals[i].sp # Absent
                                      /\ ad.proposals[i].price >= 0
                                      /\ ad.proposals[i].startEpoch > 0
    /\ ad.wallet # Absent => ad.wallet[1].token # "" /\ ad.wallet[1].addr # ""

\* Create; the key of auction data that exists is a duplicate
\* (ErrAuctionDataExists).
MayCreate(db, ad) == ValidateAuctionData(ad) /\ ad.id \notin DOMAIN db.data

CreateAll(db, ad) ==
    LET keys == {<<ad.id, i>> : i \in DOMAIN ad.proposals}
        created == [CreateAuctionData(db, ad) EXCEPT !.deals =
                      [k \in DOMAIN db.deals \union keys |->
                          IF k \in keys THEN CreateAuctionDeal(ad, k[2])
                          ELSE db.deals[k]]]
    IN  IF ad.wallet = Absent THEN created
        ELSE CreateRemoteWallet(created, ad.id, ad.wallet[1])

\* The fields that must be set, by the status the copy was read with.
AreAllExpectedFieldsSet(aud) ==
    \/ aud.status = "deal-making"
    \/ aud.status = "confirmation" /\ aud.proposal # Absent
    \/ /\ aud.status = "report-finalized"
       /\ aud.executing
       /\ ~aud.error => aud.dealID # 0 /\ aud.expiration # 0

SaveAndMove(db, d, aud, newStatus) ==
    UpdateAuctionDeal(db, d, [aud EXCEPT !.status = newStatus, !.executing = FALSE])

GetAuctionData(db, id) ==
    [db.data[id] EXCEPT !.payloadCid = Parse(@), !.pieceCid = Parse(@)]

\* "If the auction deal wasn't configured with a remote wallet, it will return nil
\* without an error".
GetRemoteWallet(db, id) ==
    IF id \in DOMAIN db.wallets THEN Present(db.wallets[id]) ELSE Absent

================================================================================
