---------------------------- MODULE AuctioneerProofs ----------------------------
(***************************************************************************)
(* Proofs about Auctioneer, for every set of auctions, bidders and workers *)
(* and every bound, whatever fails: what a closed auction promises, that   *)
(* no wake-up of the queue is lost, in which order and how far the         *)
(* candidates are asked; and, if nothing fails, that the proposals of the  *)
(* winners can be delivered.                                               *)
(*                                                                         *)
(* Each follows from what a worker knows at each step of its auction       *)
(* (WorkerInv), and that needs what the queue hands out: also an auction   *)
(* that is read back from its row is the one that was asked for (Tables).  *)
(* The last needs that an auction is run once (QuietInv), which a restart  *)
(* or a failed query may break.                                            *)
(***************************************************************************)
EXTENDS Auctioneer, FiniteSetTheorems, TLAPS

\* Zenon proves the leaves that name no other prover.
USE Zenon

--------------------------------------------------------------------------------
(* The invariant. *)

ValidAuctions == {a \in Auctions : Validate(AuctionOf[a])}

\* A job holds its auction as it was asked for, also when it comes from a row.
Jobs == {Job(a, AuctionOf[a]) : a \in ValidAuctions}

\* The columns of a row that never change, and the ones that do.
AskedColumns == {"rep", "deadline", "verified", "dealSize", "duration", "excluded",
                 "providers", "payloadCid", "carURL", "carIPFSCid", "carIPFSAddrs"}

ProgressColumns == {"status", "error", "old"}

RowOf(a, row) ==
    /\ row = [x \in AskedColumns \union ProgressColumns |-> row[x]]
    /\ \A x \in AskedColumns : row[x] = AuctionColumns(AuctionOf[a])[x]

BidRow(row) == "won" \in DOMAIN row

Tables(d) ==
    /\ d = [auctions |-> d.auctions, bids |-> d.bids, providers |-> d.providers,
            events |-> d.events]
    /\ d.auctions = [a \in DOMAIN d.auctions |-> d.auctions[a]]
    /\ DOMAIN d.auctions \subseteq ValidAuctions
    /\ \A a \in DOMAIN d.auctions : RowOf(a, d.auctions[a])
    /\ d.bids = [bid \in DOMAIN d.bids |-> d.bids[bid]]
    /\ \A bid \in DOMAIN d.bids : BidRow(d.bids[bid])

\* Bidder b may win auction a.
Fit(a, b) ==
    /\ b \in Bidders
    /\ b \notin AuctionOf[a].excluded
    /\ AuctionOf[a].providers # {} => b \in AuctionOf[a].providers
    /\ PriceOf(AuctionOf[a], b) = 0
    /\ AuctionOf[a].deadline > 0 => BidOf[b].startEpoch <= AuctionOf[a].deadline

\* How auction a may end.
Outcome(a, ok, winners) ==
    \/ /\ ok = TRUE
       /\ Cardinality(winners) = AuctionOf[a].rep
       /\ \A b \in winners : Fit(a, b)
    \/ ok = FALSE /\ winners = {}

\* A choice of winners of auction a.  For the first four replicas those that were
\* asked and may still be asked are no more than the top candidates; after them
\* all that are left may be asked.
ChoiceInv(a, c) ==
    /\ c = [it |-> [cands |-> c.it.cands, rates |-> c.it.rates, left |-> c.it.left],
            start |-> c.start, topN |-> c.topN, winners |-> c.winners,
            replica |-> c.replica]
    /\ c.it.left \in Int /\ c.topN \in Nat /\ c.replica \in Nat
    /\ c.it.cands \subseteq c.start
    /\ \A b \in c.start \union c.winners : Fit(a, b)
    /\ c.replica < 4 => c.it.left + Cardinality(c.start \ c.it.cands) <= c.topN
    /\ c.replica >= 4 => c.it.left = Cardinality(c.it.cands)

BiddingInv(s) ==
    /\ s = [step |-> "bidding", job |-> s.job, bid |-> s.bid]
    /\ s.job \in Jobs
    /\ s.bid = [b \in Bidders |-> s.bid[b]]
    /\ \A b \in Bidders : s.bid[b] # "none" => AcceptBid(s.job.asked, b)

SelectingInv(s) ==
    /\ s = [step |-> "selecting", job |-> s.job, bid |-> s.bid, choice |-> s.choice]
    /\ s.job \in Jobs
    /\ ChoiceInv(s.job.id, s.choice)

EndingInv(s) ==
    /\ s = [step |-> s.step, job |-> s.job, ok |-> s.ok, winners |-> s.winners]
    /\ s.step \in {"saving", "finalizing", "publishing"}
    /\ s.job \in Jobs
    /\ Outcome(s.job.id, s.ok, s.winners)

\* What a worker knows.
WorkerInv(s) == s = Idle \/ BiddingInv(s) \/ SelectingInv(s) \/ EndingInv(s)

\* The message about auction a.
Announcement(a, ok, winners) ==
    [ok |-> ok, rep |-> AuctionOf[a].rep, verified |-> AuctionOf[a].verified,
     winners |-> [b \in winners |-> [price |-> PriceOf(AuctionOf[a], b),
                                     startEpoch |-> BidOf[b].startEpoch]],
     sources |-> AuctionOf[a].sources]

Messages(a) ==
    {Announcement(a, TRUE, winners) : winners \in {W \in SUBSET Bidders : Outcome(a, TRUE, W)}}
      \union {Announcement(a, FALSE, {})}

WorkersInv ==
    worker = [w \in Workers |-> worker[w]] /\ \A w \in Workers : WorkerInv(worker[w])

ClosedInv ==
    /\ closed = [a \in Auctions |-> closed[a]]
    /\ \A a \in Auctions : closed[a] \in Seq(Messages(a))

Inv ==
    /\ Tables(db)
    /\ jobCh \in Seq(Jobs)
    /\ tickCh \in Nat
    /\ restarts \in Nat /\ faults \in Nat
    /\ WorkersInv
    /\ ClosedInv
    /\ QueuedIsServed

--------------------------------------------------------------------------------
(* Numbers, and rows. *)

\* The smaller of two numbers.
LEMMA MinOfTwo ==
    ASSUME NEW m \in Int, NEW n \in Int
    PROVE  Min({m, n}) \in {m, n} /\ Min({m, n}) <= m /\ Min({m, n}) <= n
<1>1. \E x \in {m, n} : \A y \in {m, n} : x <= y
  <2>1. CASE m <= n
    BY <2>1, SMT
  <2>2. CASE n <= m
    BY <2>2, SMT
  <2> QED
    BY <2>1, <2>2, SMT
<1>2. Min({m, n}) \in {m, n} /\ \A y \in {m, n} : Min({m, n}) <= y
  BY <1>1 DEF Min
<1> QED
  BY <1>2, SMT

\* The larger of two numbers.
LEMMA MaxOfTwo ==
    ASSUME NEW m \in Int, NEW n \in Int
    PROVE  Max({m, n}) \in {m, n}
<1>1. \E x \in {m, n} : \A y \in {m, n} : x >= y
  <2>1. CASE m >= n
    BY <2>1, SMT
  <2>2. CASE n >= m
    BY <2>2, SMT
  <2> QED
    BY <2>1, <2>2, SMT
<1> QED
  BY <1>1 DEF Max

\* What the queue reads back from the row of an auction is the auction.
LEMMA RowIsAuction ==
    ASSUME NEW a \in ValidAuctions, NEW row, RowOf(a, row)
    PROVE  AuctionReadable(row) /\ AuctionFromDb(row) = AuctionOf[a]
<1> DEFINE v == AuctionOf[a]
           url == v.sources.carURL
           ipfs == v.sources.carIPFS
<1>1. IsAuction(v) /\ Validate(v)
  BY AuctioneerAssumption, SMT DEF ValidAuctions
<1>2. /\ row.rep = v.rep /\ row.deadline = v.deadline /\ row.verified = v.verified
      /\ row.dealSize = v.dealSize /\ row.duration = v.duration
      /\ row.excluded = v.excluded /\ row.providers = v.providers
      /\ row.payloadCid = Text(v.payloadCid)
      /\ row.carURL = IF url = Absent THEN Absent ELSE Text(url[1])
      /\ row.carIPFSCid = IF ipfs = Absent THEN Absent ELSE Text(ipfs[1].cid)
      /\ row.carIPFSAddrs = IF ipfs = Absent THEN <<>> ELSE TextAll(ipfs[1].maddrs)
  BY SMT DEF RowOf, AskedColumns, AuctionColumns
<1>3. \A x : Parse(Text(x)) = x /\ Text(x) # Absent /\ Parses(Text(x))
  <2> TAKE x
  <2>1. Parse(Text(x)) = x
    BY SMT DEF Parse, Text
  <2>2. Text(x) # Absent
    BY SMT DEF Text, Absent
  <2>3. Parses(Text(x))
    BY SMT DEF Text, Parses, Garbled
  <2> QED
    BY <2>1, <2>2, <2>3, SMT
<1>4. Parses(Absent)
  BY SMT DEF Parses, Absent, Garbled
<1>5. AuctionFromDb(row).sources.carURL = url
  <2>1. AuctionFromDb(row).sources.carURL
           = IF row.carURL = Absent THEN Absent ELSE Present(Parse(row.carURL))
    BY SMT DEF AuctionFromDb
  <2>2. url # Absent => url = Present(url[1])
    BY <1>1 DEF IsAuction
  <2> QED
    BY <1>2, <1>3, <2>1, <2>2
<1>6. ipfs # Absent => ParseAll(TextAll(ipfs[1].maddrs)) = ipfs[1].maddrs
  <2> SUFFICES ASSUME ipfs # Absent PROVE ParseAll(TextAll(ipfs[1].maddrs)) = ipfs[1].maddrs
    BY SMT
  <2> DEFINE m == ipfs[1].maddrs
  <2>1. m = [i \in DOMAIN m |-> m[i]]
    BY <1>1 DEF IsAuction
  <2>2. ParseAll(TextAll(m)) = [i \in DOMAIN m |-> Parse(Text(m[i]))]
    BY DEF ParseAll, TextAll
  <2> QED
    BY <1>3, <2>1, <2>2
<1>7. AuctionFromDb(row).sources.carIPFS = ipfs
  <2>1. AuctionFromDb(row).sources.carIPFS
           = IF row.carIPFSCid = Absent THEN Absent
             ELSE Present([cid |-> Parse(row.carIPFSCid), maddrs |-> ParseAll(row.carIPFSAddrs)])
    BY SMT DEF AuctionFromDb
  <2>2. ipfs # Absent => ipfs = Present([cid |-> ipfs[1].cid, maddrs |-> ipfs[1].maddrs])
    BY <1>1 DEF IsAuction
  <2> QED
    BY <1>2, <1>3, <1>6, <2>1, <2>2
<1>8. AuctionFromDb(row) = v
  <2>1. v = [rep |-> v.rep, deadline |-> v.deadline, verified |-> v.verified,
             dealSize |-> v.dealSize, duration |-> v.duration,
             excluded |-> v.excluded, providers |-> v.providers,
             payloadCid |-> v.payloadCid, sources |-> [carURL |-> url, carIPFS |-> ipfs]]
    BY <1>1 DEF IsAuction
  <2>2. AuctionFromDb(row)
           = [rep |-> row.rep, deadline |-> row.deadline, verified |-> row.verified,
              dealSize |-> row.dealSize, duration |-> row.duration,
              excluded |-> row.excluded, providers |-> row.providers,
              payloadCid |-> Parse(row.payloadCid),
              sources |-> [carURL |-> AuctionFromDb(row).sources.carURL,
                           carIPFS |-> AuctionFromDb(row).sources.carIPFS]]
    BY SMT DEF AuctionFromDb
  <2>3. Parse(row.payloadCid) = v.payloadCid
    BY <1>2, <1>3
  <2> QED
    BY <1>2, <1>5, <1>7, <2>1, <2>2, <2>3
<1>9. ParsesAll(row.carIPFSAddrs)
  <2>1. ParsesAll(<<>>)
    BY SMT DEF ParsesAll
  <2>2. \A m : ParsesAll(TextAll(m))
    BY <1>3 DEF ParsesAll, TextAll
  <2> QED
    BY <1>2, <2>1, <2>2
<1>10. SourcesValid(AuctionFromDb(row).sources)
  BY <1>1, <1>8 DEF Validate
<1> QED
  BY <1>2, <1>3, <1>4, <1>8, <1>9, <1>10 DEF AuctionReadable

--------------------------------------------------------------------------------
(* The tables. *)

\* The row of a new auction.
LEMMA NewRow ==
    ASSUME NEW a
    PROVE  RowOf(a, AuctionColumns(AuctionOf[a]))
BY ZenonT(60) DEF RowOf, AskedColumns, ProgressColumns, AuctionColumns

\* An auction is created.
LEMMA CreateTables ==
    ASSUME NEW d, Tables(d), NEW a \in ValidAuctions
    PROVE  /\ Tables(CreateAuction(d, a, AuctionColumns(AuctionOf[a])))
           /\ a \in DOMAIN CreateAuction(d, a, AuctionColumns(AuctionOf[a])).auctions
<1> DEFINE row == AuctionColumns(AuctionOf[a])
           A == Insert(d.auctions, a, row)
           t == CreateAuction(d, a, row)
<1>1. RowOf(a, row)
  BY NewRow
<1> HIDE DEF row
<1>2. t = [auctions |-> A, bids |-> d.bids, providers |-> d.providers, events |-> d.events]
  <2> HIDE DEF A
  <2> QED
    BY SMT DEF CreateAuction, Tables, A
<1>3. /\ DOMAIN A = DOMAIN d.auctions \union {a}
      /\ A = [k \in DOMAIN A |-> A[k]]
      /\ \A k \in DOMAIN A : RowOf(k, A[k])
  BY <1>1 DEF Insert, Tables
<1> HIDE DEF A, t
<1>4. /\ t.auctions = A /\ t.bids = d.bids
      /\ t = [auctions |-> t.auctions, bids |-> t.bids, providers |-> t.providers,
              events |-> t.events]
  BY <1>2, SMT
<1>5. Tables(t)
  BY <1>3, <1>4 DEF Tables
<1> QED
  BY <1>3, <1>4, <1>5 DEF t, row

\* Row a of table A becomes row in table B.
RowSet(A, B, a, row) ==
    /\ DOMAIN B = DOMAIN A
    /\ B[a] = row
    /\ \A x \in DOMAIN A : x # a => B[x] = A[x]

\* The tables t are the tables d with that row of auction a.
SetsRow(d, t, a, row) == t = [d EXCEPT !.auctions = [d.auctions EXCEPT ![a] = row]]

\* The new row differs from the old one in columns that may change.
KeepsAsked(old, new) ==
    new = [x \in DOMAIN old |-> new[x]] /\ \A x \in AskedColumns : new[x] = old[x]

\* A row changes in columns that may change.
LEMMA ProgressTables ==
    ASSUME NEW d, NEW a, NEW row, NEW t, SetsRow(d, t, a, row),
           Tables(d), a \in DOMAIN d.auctions, KeepsAsked(d.auctions[a], row)
    PROVE  Tables(t) /\ t.bids = d.bids /\ RowSet(d.auctions, t.auctions, a, row)
<1> DEFINE A == [d.auctions EXCEPT ![a] = row]
<1>1. A = [k \in DOMAIN A |-> A[k]] /\ RowSet(d.auctions, A, a, row)
  BY DEF Tables, RowSet
<1>2. RowOf(a, row)
  <2>1. DOMAIN d.auctions[a] = AskedColumns \union ProgressColumns
    BY DEF Tables, RowOf
  <2> QED
    BY <2>1 DEF Tables, RowOf, KeepsAsked
<1> HIDE DEF A
<1>3. \A k \in DOMAIN A : RowOf(k, A[k])
  BY <1>1, <1>2 DEF Tables, RowSet
<1> DEFINE Shape == /\ t.auctions = A /\ t.bids = d.bids
                    /\ t = [auctions |-> t.auctions, bids |-> t.bids,
                            providers |-> t.providers, events |-> t.events]
<1>4. Shape
  <2>1. t = [d EXCEPT !.auctions = A]
    BY DEF SetsRow, A
  <2> QED
    BY <2>1, SMT DEF Tables
<1>5. Shape => Tables(t)
  BY <1>1, <1>3 DEF Tables, RowSet
<1> QED
  BY <1>1, <1>4, <1>5

\* A status is saved.
StatusSaved(d, t, a, st, err) ==
    /\ Tables(t)
    /\ t.bids = d.bids
    /\ a \notin DOMAIN d.auctions => t = d
    /\ a \in DOMAIN d.auctions => /\ RowSet(d.auctions, t.auctions, a, t.auctions[a])
                                  /\ t.auctions[a].status = st
                                  /\ t.auctions[a].error = err
                                  /\ t.auctions[a].old = FALSE

\* What saving a status does to the tables.
LEMMA StatusTables ==
    ASSUME NEW d, Tables(d), NEW a, NEW st, NEW err
    PROVE  StatusSaved(d, UpdateAuctionStatusAndError(d, a, st, err), a, st, err)
<1> DEFINE row == [d.auctions[a] EXCEPT !.status = st, !.error = err, !.old = FALSE]
           t == UpdateAuctionStatusAndError(d, a, st, err)
<1>1. CASE a \notin DOMAIN d.auctions
  <2>1. t = d
    BY <1>1 DEF UpdateAuctionStatusAndError
  <2> QED
    BY <1>1, <2>1 DEF StatusSaved
<1>2. CASE a \in DOMAIN d.auctions
  <2>1. SetsRow(d, t, a, row)
    BY <1>2 DEF UpdateAuctionStatusAndError, SetsRow
  <2>2. d.auctions[a] = [x \in AskedColumns \union ProgressColumns |-> d.auctions[a][x]]
    BY <1>2 DEF Tables, RowOf
  <2>3. /\ KeepsAsked(d.auctions[a], row)
        /\ row.status = st /\ row.error = err /\ row.old = FALSE
    BY <2>2 DEF AskedColumns, ProgressColumns, KeepsAsked
  <2> HIDE DEF row, t
  <2>4. Tables(t) /\ t.bids = d.bids /\ RowSet(d.auctions, t.auctions, a, row)
    BY <1>2, <2>1, <2>3, ProgressTables
  <2>5. t.auctions[a] = row
    BY <2>4 DEF RowSet
  <2> QED
    BY <1>2, <2>3, <2>4, <2>5 DEF StatusSaved, t
<1> QED
  BY <1>1, <1>2

\* The row of an auction becomes old.
LEMMA OldTables ==
    ASSUME NEW d, Tables(d), NEW a \in DOMAIN d.auctions, NEW t,
           SetsRow(d, t, a, [d.auctions[a] EXCEPT !.old = TRUE])
    PROVE  /\ Tables(t) /\ t.bids = d.bids
           /\ RowSet(d.auctions, t.auctions, a, t.auctions[a])
           /\ t.auctions[a].status = d.auctions[a].status
           /\ t.auctions[a].error = d.auctions[a].error
<1> DEFINE row == [d.auctions[a] EXCEPT !.old = TRUE]
<1>1. d.auctions[a] = [x \in AskedColumns \union ProgressColumns |-> d.auctions[a][x]]
  BY DEF Tables, RowOf
<1>2. /\ KeepsAsked(d.auctions[a], row)
      /\ row.status = d.auctions[a].status /\ row.error = d.auctions[a].error
  BY <1>1 DEF AskedColumns, ProgressColumns, KeepsAsked
<1>0. SetsRow(d, t, a, row)
  BY SMT
<1> HIDE DEF row
<1>3. Tables(t) /\ t.bids = d.bids /\ RowSet(d.auctions, t.auctions, a, row)
  BY <1>0, <1>2, ProgressTables
<1> QED
  BY <1>2, <1>3 DEF RowSet

\* The tables t are the tables d with those bids.
SetsBids(d, t, B) == t = [d EXCEPT !.bids = B]

IsBids(B) == B = [bid \in DOMAIN B |-> B[bid]] /\ \A bid \in DOMAIN B : BidRow(B[bid])

\* Bids are written: the auctions stay as they are.
LEMMA BidTables ==
    ASSUME NEW d, NEW t, NEW B, SetsBids(d, t, B), Tables(d), IsBids(B)
    PROVE  Tables(t) /\ t.auctions = d.auctions /\ t.bids = B
<1>1. /\ t.auctions = d.auctions /\ t.bids = B
      /\ t = [auctions |-> t.auctions, bids |-> t.bids, providers |-> t.providers,
              events |-> t.events]
  BY SMT DEF Tables, SetsBids
<1> QED
  BY <1>1 DEF Tables, IsBids

\* A bid is saved.
LEMMA CreateBidTables ==
    ASSUME NEW d, Tables(d), NEW bid, NEW t, t = CreateBid(d, bid, BidColumns(bid))
    PROVE  /\ Tables(t) /\ t.auctions = d.auctions
           /\ t.bids = Insert(d.bids, bid, BidColumns(bid))
<1> DEFINE B == Insert(d.bids, bid, BidColumns(bid))
<1>1. BidRow(BidColumns(bid))
  BY SMT DEF BidRow, BidColumns
<1>2. IsBids(B)
  BY <1>1 DEF Insert, Tables, IsBids
<1>3. SetsBids(d, t, B)
  BY DEF SetsBids, CreateBid
<1> HIDE DEF B
<1>4. Tables(t) /\ t.auctions = d.auctions /\ t.bids = B
  BY <1>2, <1>3, BidTables
<1> QED
  BY <1>4 DEF B

\* Bids are marked as won.
LEMMA WonTables ==
    ASSUME NEW d, Tables(d), NEW bids, NEW t, t = UpdateWinningBid(d, bids)
    PROVE  /\ Tables(t) /\ t.auctions = d.auctions
           /\ DOMAIN t.bids = DOMAIN d.bids
           /\ \A bid \in DOMAIN d.bids : /\ bid \in bids => t.bids[bid].won
                                         /\ d.bids[bid].won => t.bids[bid].won
<1> DEFINE B == [bid \in DOMAIN d.bids |->
                    IF bid \in bids THEN [d.bids[bid] EXCEPT !.won = TRUE] ELSE d.bids[bid]]
<1>1. /\ DOMAIN B = DOMAIN d.bids
      /\ \A bid \in DOMAIN d.bids : /\ bid \in bids => B[bid].won
                                    /\ d.bids[bid].won => B[bid].won
  BY DEF Tables, BidRow
<1>2. IsBids(B)
  BY DEF Tables, BidRow, IsBids
<1>3. SetsBids(d, t, B)
  BY DEF SetsBids, UpdateWinningBid
<1> HIDE DEF B
<1>4. Tables(t) /\ t.auctions = d.auctions /\ t.bids = B
  BY <1>2, <1>3, BidTables
<1> QED
  BY <1>1, <1>4

--------------------------------------------------------------------------------
(* The queue. *)

\* A status is saved, or stays as it is.
LEMMA SaveTables ==
    ASSUME NEW d, Tables(d), NEW a, NEW old, NEW new
    PROVE  Tables(SaveAndTransitionStatus(d, a, old, new))
BY StatusTables DEF SaveAndTransitionStatus, StatusSaved

\* There is a worker, so there is room in the channel.
LEMMA SomeWorker == MaxConcurrency \in Nat /\ MaxConcurrency > 0
<1>1. IsFiniteSet(Workers) /\ Workers # {}
  BY AuctioneerAssumption
<1>2. Cardinality(Workers) \in Nat /\ Cardinality(Workers) # 0
  BY <1>1, FS_CardinalityType, FS_EmptySet
<1> QED
  BY <1>2, SMT DEF MaxConcurrency

\* An auction that is ready goes to the workers, or they have others to run.
LEMMA EnqueueInv ==
    ASSUME NEW d, NEW job, NEW old, Enqueue(d, job, old), Tables(d), job \in Jobs,
           jobCh \in Seq(Jobs)
    PROVE  Tables(db') /\ jobCh' \in Seq(Jobs) /\ jobCh' # <<>>
<1> DEFINE started == SaveAndTransitionStatus(d, job.id, old, "started")
<1>1. Tables(started)
  BY SaveTables
<1>2. CASE Len(jobCh) < MaxConcurrency
  <2>1. jobCh' = Append(jobCh, job) /\ db' = started
    BY <1>2 DEF Enqueue
  <2>2. jobCh' \in Seq(Jobs) /\ jobCh' # <<>>
    BY <2>1, SMT
  <2> QED
    BY <1>1, <2>1, <2>2
<1>3. CASE ~(Len(jobCh) < MaxConcurrency)
  <2>1. jobCh' = jobCh /\ db' = SaveAndTransitionStatus(started, job.id, "started", "queued")
    BY <1>3 DEF Enqueue
  <2>2. jobCh # <<>>
    BY <1>3, SomeWorker, SMT
  <2>3. Tables(db')
    BY <1>1, <2>1, SaveTables
  <2> QED
    BY <2>1, <2>2, <2>3
<1> QED
  BY <1>2, <1>3

--------------------------------------------------------------------------------
(* The candidates. *)

\* A set of bidders is finite.
LEMMA FiniteBidders ==
    ASSUME NEW S, S \subseteq Bidders
    PROVE  IsFiniteSet(S) /\ Cardinality(S) \in Nat
<1>1. IsFiniteSet(S)
  BY AuctioneerAssumption, FS_Subset
<1> QED
  BY <1>1, FS_CardinalityType

\* A choice begins well, for each replica.
LEMMA ChoiceBegins ==
    ASSUME NEW a, NEW cands, NEW topN \in Nat, NEW winners, NEW replica \in Nat, NEW rates,
           \A b \in cands \union winners : Fit(a, b)
    PROVE  ChoiceInv(a, Choice(cands, topN, winners, replica, rates))
<1> DEFINE c == Choice(cands, topN, winners, replica, rates)
           n == Cardinality(cands)
<1>1. cands \subseteq Bidders
  BY DEF Fit
<1>2. n \in Nat
  BY <1>1, FiniteBidders
<1>3. /\ c = [it |-> c.it, start |-> cands, topN |-> topN, winners |-> winners,
              replica |-> replica]
      /\ c.start = cands /\ c.topN = topN /\ c.winners = winners /\ c.replica = replica
  BY SMT DEF Choice
<1>4. \/ replica < 4 /\ c.it \in {RandomTopN(cands, topN, rates.failure),
                                  RandomTopN(cands, topN, rates.winning)}
      \/ replica >= 4 /\ c.it = Random(cands)
  <2>1. CASE replica \in {0, 2, 3}
    BY <2>1, SMT DEF Choice
  <2>2. CASE replica = 1
    BY <2>2, SMT DEF Choice
  <2>3. CASE replica \notin {0, 1, 2, 3}
    BY <2>3, SMT DEF Choice
  <2> QED
    BY <2>1, <2>2, <2>3, SMT
<1> HIDE DEF c, n
<1>5. /\ c.it = [cands |-> c.it.cands, rates |-> c.it.rates, left |-> c.it.left]
      /\ c.it.cands = cands
      /\ c.it.left \in Int
      /\ replica < 4 => c.it.left <= topN
      /\ replica >= 4 => c.it.left = n
  <2> DEFINE least == Min({topN, n})
  <2>1. least \in Int /\ least <= topN
    BY <1>2, MinOfTwo, SMT
  <2> HIDE DEF least
  <2>2. CASE replica >= 4
    BY <1>2, <1>4, <2>2, SMT DEF Random, n
  <2>3. CASE replica < 4
    <3>1. \A q : RandomTopN(cands, topN, q)
                    = [cands |-> cands, rates |-> [b \in cands |-> ProviderRate(q, b)],
                       left |-> least]
      BY DEF RandomTopN, least, n
    <3>2. PICK r : c.it = [cands |-> cands, rates |-> r, left |-> least]
      <4>1. c.it \in {RandomTopN(cands, topN, rates.failure),
                      RandomTopN(cands, topN, rates.winning)}
        BY <1>4, <2>3, SMT
      <4> QED
        BY <3>1, <4>1
    <3> QED
      BY <2>1, <2>3, <3>2, SMT
  <2> QED
    BY <2>2, <2>3, SMT
<1>6. cands \ c.it.cands = {} /\ Cardinality({}) = 0
  BY <1>5, FS_EmptySet
<1>7. replica < 4 => c.it.left + Cardinality(cands \ c.it.cands) <= topN
  BY <1>5, <1>6, SMT
<1> QED
  BY <1>3, <1>5, <1>7 DEF ChoiceInv, c, n

--------------------------------------------------------------------------------
(* The steps of a worker, which goes from state s to state t. *)

\* The step of a worker says what it knows.
LEMMA StepOf ==
    ASSUME NEW s, WorkerInv(s)
    PROVE  /\ s.step = "bidding" => BiddingInv(s)
           /\ s.step = "selecting" => SelectingInv(s)
           /\ s.step \in {"saving", "finalizing", "publishing"} => EndingInv(s)
<1>1. Idle.step = "idle"
  BY SMT DEF Idle
<1>2. BiddingInv(s) => s.step = "bidding"
  BY SMT DEF BiddingInv
<1>3. SelectingInv(s) => s.step = "selecting"
  BY SMT DEF SelectingInv
<1>4. EndingInv(s) => s.step \in {"saving", "finalizing", "publishing"}
  BY SMT DEF EndingInv
<1> QED
  BY <1>1, <1>2, <1>3, <1>4, SMT DEF WorkerInv

\* A job is a valid auction as it was asked for.
LEMMA JobIsAuction ==
    ASSUME NEW job \in Jobs
    PROVE  /\ job.id \in ValidAuctions /\ job.id \in Auctions
           /\ job.asked = AuctionOf[job.id]
BY SMT DEF Jobs, Job, ValidAuctions

\* A worker takes a job.
LEMMA TakesJob ==
    ASSUME NEW job \in Jobs
    PROVE  BiddingInv([step |-> "bidding", job |-> job, bid |-> [b \in Bidders |-> "none"]])
BY SMT DEF BiddingInv

\* A bidder that may bid is noted, or its bid is added or refused.
LEMMA NotesBid ==
    ASSUME NEW s, BiddingInv(s), NEW b \in Bidders, AcceptBid(s.job.asked, b), NEW v
    PROVE  BiddingInv([s EXCEPT !.bid = [s.bid EXCEPT ![b] = v]])
<1> DEFINE bid == [s.bid EXCEPT ![b] = v]
           t == [s EXCEPT !.bid = bid]
<1>1. /\ bid = [x \in Bidders |-> bid[x]]
      /\ \A x \in Bidders : bid[x] # "none" => AcceptBid(s.job.asked, x)
  BY DEF BiddingInv
<1> HIDE DEF bid
<1>2. t = [step |-> "bidding", job |-> s.job, bid |-> bid]
  BY SMT DEF BiddingInv
<1>3. s.job \in Jobs
  BY DEF BiddingInv
<1> HIDE DEF t
<1>4. t.job = s.job /\ t.bid = bid /\ t = [step |-> "bidding", job |-> t.job, bid |-> t.bid]
  BY <1>2, SMT
<1>5. BiddingInv(t)
  BY <1>1, <1>3, <1>4 DEF BiddingInv
<1> QED
  BY <1>5 DEF t, bid

\* A bid that comes late changes nothing for the choice.
LEMMA RefusesBid ==
    ASSUME NEW s, SelectingInv(s), NEW bid
    PROVE  SelectingInv([s EXCEPT !.bid = bid])
<1> DEFINE t == [s EXCEPT !.bid = bid]
<1>1. /\ t.job = s.job /\ t.choice = s.choice
      /\ t = [step |-> "selecting", job |-> t.job, bid |-> t.bid, choice |-> t.choice]
  BY SMT DEF SelectingInv
<1> HIDE DEF t
<1>2. SelectingInv(t)
  BY <1>1 DEF SelectingInv
<1> QED
  BY <1>2 DEF t

\* Candidates are fit to win.
LEMMA CandidatesFit ==
    ASSUME NEW s, BiddingInv(s), NEW bids, NEW rates,
           \A b \in bids : b \in Bidders /\ s.bid[b] # "none"
    PROVE  \A b \in Candidates(s.job.asked, bids, rates) : Fit(s.job.id, b)
<1> DEFINE a == s.job.id
           auc == s.job.asked
<1>1. a \in Auctions /\ auc = AuctionOf[a]
  BY JobIsAuction DEF BiddingInv
<1> SUFFICES ASSUME NEW b \in Candidates(auc, bids, rates) PROVE Fit(a, b)
  OBVIOUS
<1>2. /\ b \in bids /\ PriceOf(auc, b) = 0
      /\ auc.providers # {} => b \in auc.providers
  BY DEF Candidates
<1>3. b \in Bidders /\ AcceptBid(auc, b)
  BY <1>2 DEF BiddingInv
<1>4. auc.deadline > 0 => BidOf[b].startEpoch <= auc.deadline
  <2>1. auc.deadline \in Nat /\ BidOf[b].startEpoch \in Nat
    BY <1>1, <1>3, AuctioneerAssumption, SMT
  <2>2. auc.deadline > 0 => BidOf[b].startEpoch \in 1..auc.deadline
    BY <1>3 DEF AcceptBid
  <2> QED
    BY <2>1, <2>2, SMT
<1>5. b \notin auc.excluded
  BY <1>3 DEF AcceptBid
<1> QED
  BY <1>1, <1>2, <1>3, <1>4, <1>5 DEF Fit

\* The auction ends, and the first replica has its turn.
LEMMA EndsBidding ==
    ASSUME NEW s, BiddingInv(s), NEW bids, NEW rates, NEW late,
           \A b \in bids : b \in Bidders /\ s.bid[b] # "none"
    PROVE  LET cands == Candidates(s.job.asked, bids, rates)
               topN == Max({MinTopN, Cardinality(cands) \div 5})
           IN  SelectingInv([step |-> "selecting", job |-> s.job, bid |-> late,
                             choice |-> Choice(cands, topN, {}, 0, rates)])
<1> DEFINE cands == Candidates(s.job.asked, bids, rates)
           topN == Max({MinTopN, Cardinality(cands) \div 5})
           choice == Choice(cands, topN, {}, 0, rates)
           t == [step |-> "selecting", job |-> s.job, bid |-> late, choice |-> choice]
<1>1. \A b \in cands : Fit(s.job.id, b)
  BY CandidatesFit
<1> HIDE DEF cands
<1>2. cands \subseteq Bidders
  BY <1>1 DEF Fit
<1>3. topN \in Nat
  <2>1. Cardinality(cands) \in Nat
    BY <1>2, FiniteBidders
  <2>2. MinTopN \in Nat /\ Cardinality(cands) \div 5 \in Nat
    BY <2>1, AuctioneerAssumption, SMT
  <2> QED
    BY <2>2, MaxOfTwo, SMT
<1> HIDE DEF topN
<1>4. ChoiceInv(s.job.id, choice)
  BY <1>1, <1>3, ChoiceBegins, SMT
<1> HIDE DEF choice
<1>5. SelectingInv(t)
  <2>1. t.job = s.job /\ t.choice = choice /\ t.bid = late
    BY SMT
  <2>2. s.job \in Jobs
    BY DEF BiddingInv
  <2> QED
    BY <1>4, <2>1, <2>2 DEF SelectingInv
<1> QED
  BY <1>5 DEF choice, topN, cands

\* The choice goes on.
LEMMA SetsChoice ==
    ASSUME NEW s, SelectingInv(s), NEW c, ChoiceInv(s.job.id, c)
    PROVE  SelectingInv([s EXCEPT !.choice = c])
<1> DEFINE t == [s EXCEPT !.choice = c]
<1>1. /\ t.job = s.job /\ t.choice = c
      /\ t = [step |-> "selecting", job |-> t.job, bid |-> t.bid, choice |-> t.choice]
  BY SMT DEF SelectingInv
<1> HIDE DEF t
<1>2. SelectingInv(t)
  BY <1>1 DEF SelectingInv
<1> QED
  BY <1>2 DEF t

\* A candidate is told that it won and does not answer as it should: of those that
\* may still be asked for the replica there is one less.
LEMMA CandidateRefuses ==
    ASSUME NEW a, NEW c, ChoiceInv(a, c), NEW b \in NextOf(c.it)
    PROVE  ChoiceInv(a, [c EXCEPT !.it = After(c.it, b)])
<1> DEFINE it == After(c.it, b)
           n == [c EXCEPT !.it = it]
<1>1. b \in c.it.cands
  BY DEF NextOf, TopN
<1>2. /\ it = [cands |-> c.it.cands \ {b}, rates |-> c.it.rates, left |-> c.it.left - 1]
      /\ c.it.left \in Int /\ c.topN \in Nat /\ c.replica \in Nat
      /\ c.it.cands \subseteq c.start /\ \A x \in c.start \union c.winners : Fit(a, x)
  <2>1. c.it = [cands |-> c.it.cands, rates |-> c.it.rates, left |-> c.it.left]
    BY SMT DEF ChoiceInv
  <2>2. it = [cands |-> c.it.cands \ {b}, rates |-> c.it.rates, left |-> c.it.left - 1]
    <3> DEFINE D == c.it.cands \ {b}
               l == c.it.left - 1
    <3>1. it = [c.it EXCEPT !.cands = D, !.left = l]
      BY DEF After
    <3> HIDE DEF D, l
    <3>2. it = [cands |-> D, rates |-> c.it.rates, left |-> l]
      BY <2>1, <3>1
    <3> QED
      BY <3>2 DEF D, l
  <2> QED
    BY <2>2 DEF ChoiceInv
<1>3. n = [it |-> it, start |-> c.start, topN |-> c.topN, winners |-> c.winners,
           replica |-> c.replica]
  <2> HIDE DEF it
  <2> QED
    BY SMT DEF ChoiceInv
<1>4. c.start \subseteq Bidders
  BY <1>2 DEF Fit
<1>5. c.replica < 4 => c.it.left - 1 + Cardinality(c.start \ (c.it.cands \ {b})) <= c.topN
  <2> DEFINE S == c.start \ c.it.cands
  <2>1. c.start \ (c.it.cands \ {b}) = S \union {b} /\ b \notin S
    BY <1>1, <1>2
  <2>2. IsFiniteSet(S) /\ Cardinality(S) \in Nat
    BY <1>4, FiniteBidders
  <2>3. Cardinality(S \union {b}) = Cardinality(S) + 1
    BY <2>1, <2>2, FS_AddElement
  <2>4. c.replica < 4 => c.it.left + Cardinality(S) <= c.topN
    BY DEF ChoiceInv
  <2>5. Cardinality(c.start \ (c.it.cands \ {b})) = Cardinality(S) + 1
    BY <2>1, <2>3
  <2>6. c.it.left \in Int /\ c.topN \in Nat
    BY <1>2
  <2> HIDE DEF S
  <2> QED
    BY <2>2, <2>4, <2>5, <2>6, SMT
<1>6. c.replica >= 4 => c.it.left - 1 = Cardinality(c.it.cands \ {b})
  <2>1. IsFiniteSet(c.it.cands) /\ Cardinality(c.it.cands) \in Nat
    BY <1>2, <1>4, FiniteBidders
  <2>2. Cardinality(c.it.cands \ {b}) = Cardinality(c.it.cands) - 1
    BY <1>1, <2>1, FS_RemoveElement
  <2>3. c.replica >= 4 => c.it.left = Cardinality(c.it.cands)
    BY DEF ChoiceInv
  <2> QED
    BY <2>2, <2>3
<1> HIDE DEF it, n
<1>7. /\ n.it = it /\ n.start = c.start /\ n.topN = c.topN /\ n.winners = c.winners
      /\ n.replica = c.replica
      /\ it.cands = c.it.cands \ {b} /\ it.left = c.it.left - 1 /\ it.left \in Int
      /\ n = [it |-> [cands |-> it.cands, rates |-> it.rates, left |-> it.left],
              start |-> n.start, topN |-> n.topN, winners |-> n.winners,
              replica |-> n.replica]
  BY <1>2, <1>3, SMT
<1>8. it.cands \subseteq c.start
  BY <1>2, <1>7
<1>9. ChoiceInv(a, n)
  BY <1>2, <1>5, <1>6, <1>7, <1>8 DEF ChoiceInv
<1> QED
  BY <1>9 DEF n, it

\* A replica has a winner, or nobody takes it: the next one has its turn.
LEMMA NextReplicaBegins ==
    ASSUME NEW a, NEW c, ChoiceInv(a, c), NEW cands, cands \subseteq c.it.cands,
           NEW new, new \subseteq c.it.cands, NEW rates
    PROVE  ChoiceInv(a, Choice(cands, c.topN, c.winners \union new, c.replica + 1, rates))
<1>1. \A b \in cands \union (c.winners \union new) : Fit(a, b)
  BY DEF ChoiceInv
<1>2. c.topN \in Nat /\ c.replica + 1 \in Nat
  BY SMT DEF ChoiceInv
<1> QED
  BY <1>1, <1>2, ChoiceBegins

\* processAuction returns.
LEMMA Returns ==
    ASSUME NEW job \in Jobs, NEW ok, NEW winners, Outcome(job.id, ok, winners),
           NEW st \in {"saving", "finalizing", "publishing"}
    PROVE  EndingInv([step |-> st, job |-> job, ok |-> ok, winners |-> winners])
<1> DEFINE t == [step |-> st, job |-> job, ok |-> ok, winners |-> winners]
<1>1. t.step = st /\ t.job = job /\ t.ok = ok /\ t.winners = winners
  BY SMT
<1> QED
  BY <1>1 DEF EndingInv

\* The worker goes on with the end of the auction.
LEMMA MovesOn ==
    ASSUME NEW s, EndingInv(s), NEW st \in {"saving", "finalizing", "publishing"}
    PROVE  EndingInv([s EXCEPT !.step = st])
<1>1. [s EXCEPT !.step = st] = [step |-> st, job |-> s.job, ok |-> s.ok, winners |-> s.winners]
  BY SMT DEF EndingInv
<1> QED
  BY <1>1, Returns DEF EndingInv

\* One worker makes a step.
LEMMA OneWorker ==
    ASSUME WorkersInv, NEW w \in Workers, NEW t, WorkerInv(t),
           worker' = [worker EXCEPT ![w] = t]
    PROVE  /\ WorkersInv'
           /\ worker'[w] = t
           /\ \A v \in Workers : v # w => worker'[v] = worker[v]
BY DEF WorkersInv

--------------------------------------------------------------------------------
(* Every action keeps the invariant. *)

\* The invariant, from its parts.
LEMMA InvFromParts ==
    ASSUME Inv, Tables(db'), jobCh' \in Seq(Jobs), tickCh' \in Nat, restarts' \in Nat,
           Fault \/ faults' = faults, WorkersInv', ClosedInv', faults' = 0 => QueuedIsServed'
    PROVE  Inv'
<1>1. faults' \in Nat
  BY SMT DEF Inv, Fault
<1>2. QueuedIsServed'
  BY DEF QueuedIsServed
<1> QED
  BY <1>1, <1>2 DEF Inv

\* After a fault nothing is said of the queue.
LEMMA FaultExcuses ==
    ASSUME Inv, Fault
    PROVE  faults' = 0 => QueuedIsServed'
BY SMT DEF Inv, Fault

\* A worker goes on with its auction.
LEMMA WorkerGoesOn ==
    ASSUME Inv, NEW w \in Workers, NEW t, BiddingInv(t) \/ SelectingInv(t) \/ EndingInv(t),
           worker' = [worker EXCEPT ![w] = t], Tables(db'), jobCh' \in Seq(Jobs),
           UNCHANGED <<tickCh, closed, restarts>>, Fault \/ faults' = faults
    PROVE  Inv'
<1>1. t # Idle
  BY SMT DEF BiddingInv, SelectingInv, EndingInv, Idle
<1>2. WorkerInv(t) /\ WorkersInv
  BY DEF WorkerInv, Inv
<1>3. WorkersInv' /\ worker'[w] = t
  BY <1>2, OneWorker
<1>4. QueuedIsServed'
  BY <1>1, <1>3 DEF QueuedIsServed
<1>5. tickCh' \in Nat /\ restarts' \in Nat /\ ClosedInv'
  BY DEF Inv, ClosedInv
<1> QED
  BY <1>3, <1>4, <1>5, InvFromParts

\* A worker is done with its auction.
LEMMA WorkerIsDone ==
    ASSUME Inv, NEW w \in Workers, EndJob(w), ClosedInv', UNCHANGED <<db, jobCh, restarts>>,
           Fault \/ faults' = faults
    PROVE  Inv'
<1>1. WorkersInv'
  <2>1. WorkerInv(Idle) /\ WorkersInv
    BY DEF WorkerInv, Inv
  <2> QED
    BY <2>1, OneWorker DEF EndJob
<1>2. tickCh' \in Nat /\ tickCh' > 0
  <2>1. tickCh \in Nat /\ MaxConcurrency \in Nat /\ MaxConcurrency > 0
    BY SomeWorker DEF Inv
  <2>2. tickCh' \in {MaxConcurrency, tickCh + 1}
    <3>1. MaxConcurrency \in Int /\ tickCh + 1 \in Int
      BY <2>1, SMT
    <3> QED
      BY <3>1, MinOfTwo DEF EndJob
  <2> QED
    BY <2>1, <2>2, SMT
<1>3. QueuedIsServed'
  BY <1>2 DEF QueuedIsServed
<1>4. Tables(db') /\ jobCh' \in Seq(Jobs) /\ restarts' \in Nat
  BY DEF Inv
<1> QED
  BY <1>1, <1>2, <1>3, <1>4, InvFromParts

\* Nothing but the queue is touched.
LEMMA QueueInv ==
    ASSUME Inv, Tables(db'), jobCh' \in Seq(Jobs), tickCh' \in Nat, Fault \/ faults' = faults,
           UNCHANGED <<worker, closed, restarts>>, faults' = 0 => QueuedIsServed'
    PROVE  Inv'
<1>1. restarts' \in Nat /\ WorkersInv' /\ ClosedInv'
  BY DEF Inv, WorkersInv, ClosedInv
<1> QED
  BY <1>1, InvFromParts

\* ready-to-auction.
LEMMA OnReadyToAuctionInv ==
    ASSUME Inv, NEW a \in Auctions, OnReadyToAuction(a)
    PROVE  Inv'
<1> DEFINE created == CreateAuction(db, a, AuctionColumns(AuctionOf[a]))
<1>1. a \in ValidAuctions
  BY DEF OnReadyToAuction, ValidAuctions
<1>2. Tables(created) /\ Job(a, AuctionOf[a]) \in Jobs
  BY <1>1, CreateTables DEF Inv, Jobs
<1>3. Enqueue(created, Job(a, AuctionOf[a]), "unspecified")
  BY DEF OnReadyToAuction
<1> HIDE DEF created
<1>4. Tables(db') /\ jobCh' \in Seq(Jobs) /\ jobCh' # <<>>
  BY <1>2, <1>3, EnqueueInv DEF Inv
<1>5. QueuedIsServed'
  BY <1>4 DEF QueuedIsServed
<1>6. tickCh' \in Nat /\ faults' = faults /\ UNCHANGED <<worker, closed, restarts>>
  BY DEF OnReadyToAuction, NoFault, Inv
<1> QED
  BY <1>4, <1>5, <1>6, QueueInv

\* The transaction that creates an auction fails.
LEMMA CreateAuctionFailsInv ==
    ASSUME Inv, NEW a \in Auctions, CreateAuctionFails(a)
    PROVE  Inv'
<1>1. Job(a, AuctionOf[a]) \in Jobs
  BY DEF CreateAuctionFails, ValidAuctions, Jobs
<1>2. jobCh' \in Seq(Jobs)
  BY <1>1, SMT DEF CreateAuctionFails, Inv
<1>3. Fault /\ Tables(db') /\ tickCh' \in Nat /\ UNCHANGED <<worker, closed, restarts>>
  BY DEF CreateAuctionFails, Inv
<1> QED
  BY <1>2, <1>3, FaultExcuses, QueueInv

\* No auction waits, or one of those that are ready comes first.
LEMMA SomeReady ==
    ASSUME Inv, NEW a \in DOMAIN db.auctions, db.auctions[a].status = "queued"
    PROVE  GetNextReadyToExecute(db) # {}
<1> DEFINE Ready(x) == \/ db.auctions[x].status = "queued"
                       \/ db.auctions[x].status = "started" /\ db.auctions[x].old
           ready == {x \in DOMAIN db.auctions : Ready(x)}
           deadlines == {db.auctions[x].deadline : x \in ready}
<1>1. \A x \in ready : db.auctions[x].deadline \in Nat
  <2> TAKE x \in ready
  <2>1. x \in Auctions /\ RowOf(x, db.auctions[x])
    BY DEF Inv, Tables, ValidAuctions
  <2>2. db.auctions[x].deadline = AuctionColumns(AuctionOf[x]).deadline
    BY <2>1 DEF RowOf, AskedColumns
  <2>3. AuctionColumns(AuctionOf[x]).deadline = AuctionOf[x].deadline
    BY SMT DEF AuctionColumns
  <2> QED
    BY <2>1, <2>2, <2>3, AuctioneerAssumption
<1>2. a \in ready
  OBVIOUS
<1> HIDE DEF ready
<1> DEFINE less == {ss \in Nat \X Nat : ss[1] < ss[2]}
<1>3. PICK d \in deadlines : \A e \in deadlines : ~(<<e, d>> \in less)
  <2>1. IsWellFoundedOn(less, Nat)
    BY NatLessThanWellFounded DEF OpToRel
  <2>2. deadlines \subseteq Nat /\ deadlines # {}
    BY <1>1, <1>2
  <2> HIDE DEF less, deadlines
  <2> QED
    BY <2>1, <2>2, WFMin
<1>4. \A e \in deadlines : d <= e
  <2> TAKE e \in deadlines
  <2>1. e \in Nat /\ d \in Nat
    BY <1>1, <1>3
  <2>2. ~(<<e, d>> \in less)
    BY <1>3
  <2> HIDE DEF deadlines
  <2> QED
    BY <2>1, <2>2, SMT
<1>5. PICK x \in ready : d = db.auctions[x].deadline
  BY <1>3
<1>6. \A o \in ready : db.auctions[x].deadline <= db.auctions[o].deadline
  BY <1>4, <1>5
<1>7. x \in GetNextReadyToExecute(db)
  BY <1>5, <1>6 DEF GetNextReadyToExecute, ready
<1> QED
  BY <1>7

\* The queue wakes up.
LEMMA WakeTicks ==
    ASSUME Inv, Wake
    PROVE  tickCh' \in Nat
BY SMT DEF Inv, Wake

\* The queue looks for an auction that is ready.
LEMMA ProcessNextInv ==
    ASSUME Inv, ProcessNext
    PROVE  Inv'
<1> DEFINE ready == GetNextReadyToExecute(db)
<1>1. tickCh' \in Nat /\ faults' = faults /\ UNCHANGED <<worker, closed, restarts>>
  BY WakeTicks DEF ProcessNext, NoFault
<1>2. CASE ready = {}
  <2>1. UNCHANGED <<db, jobCh>>
    BY <1>2 DEF ProcessNext
  <2>2. \A a \in Auctions : Status(a) # "queued"
    <3> SUFFICES ASSUME NEW a \in Auctions, Status(a) = "queued" PROVE FALSE
      OBVIOUS
    <3>1. a \in DOMAIN db.auctions /\ db.auctions[a].status = "queued"
      BY SMT DEF Status
    <3> QED
      BY <1>2, <3>1, SomeReady
  <2>3. QueuedIsServed'
    BY <2>1, <2>2 DEF QueuedIsServed, Status
  <2>4. Tables(db') /\ jobCh' \in Seq(Jobs)
    BY <2>1 DEF Inv
  <2> QED
    BY <1>1, <2>3, <2>4, QueueInv
<1>3. CASE ready # {}
  <2>1. PICK a \in ready :
           IF AuctionReadable(db.auctions[a])
           THEN Enqueue(db, Job(a, AuctionFromDb(db.auctions[a])), Status(a))
           ELSE UNCHANGED <<db, jobCh>>
    BY <1>3 DEF ProcessNext
  <2>2. a \in ValidAuctions /\ RowOf(a, db.auctions[a])
    BY <2>1 DEF GetNextReadyToExecute, Inv, Tables
  <2>3. Enqueue(db, Job(a, AuctionOf[a]), Status(a))
    BY <2>1, <2>2, RowIsAuction
  <2>4. Job(a, AuctionOf[a]) \in Jobs
    BY <2>2 DEF Jobs
  <2>5. Tables(db') /\ jobCh' \in Seq(Jobs) /\ jobCh' # <<>>
    BY <2>3, <2>4, EnqueueInv DEF Inv
  <2>6. QueuedIsServed'
    BY <2>5 DEF QueuedIsServed
  <2> QED
    BY <1>1, <2>5, <2>6, QueueInv
<1> QED
  BY <1>2, <1>3

\* The query fails.
LEMMA ProcessNextFailsInv ==
    ASSUME Inv, ProcessNextFails
    PROVE  Inv'
<1>1. /\ Fault /\ Tables(db') /\ jobCh' \in Seq(Jobs) /\ UNCHANGED <<worker, closed, restarts>>
      /\ tickCh' \in Nat
  BY WakeTicks DEF ProcessNextFails, Inv
<1> QED
  BY <1>1, FaultExcuses, QueueInv

\* An hour passes for a started auction.
LEMMA HourPassesInv ==
    ASSUME Inv, NEW a \in Auctions, HourPasses(a)
    PROVE  Inv'
<1>1. /\ UNCHANGED <<jobCh, tickCh, timer, worker, closed, restarts>>
      /\ Fault \/ faults' = faults
  BY DEF HourPasses, NoFault
<1>2. a \in DOMAIN db.auctions
  BY SMT DEF HourPasses, Status
<1>3. SetsRow(db, db', a, [db.auctions[a] EXCEPT !.old = TRUE])
  BY DEF HourPasses, SetsRow
<1>4. /\ Tables(db') /\ RowSet(db.auctions, db'.auctions, a, db'.auctions[a])
      /\ db'.auctions[a].status = db.auctions[a].status
  BY <1>2, <1>3, OldTables DEF Inv
<1>5. \A x \in Auctions : Status(x)' = Status(x)
  BY <1>4 DEF RowSet, Status
<1>6. faults' = 0 => QueuedIsServed'
  <2>1. CASE Fault
    BY <2>1, FaultExcuses
  <2>2. CASE faults' = faults
    <3>1. QueuedIsServed
      BY DEF Inv
    <3> QED
      BY <1>1, <1>5, <2>2, <3>1 DEF QueuedIsServed
  <2> QED
    BY <1>1, <2>1, <2>2
<1>7. jobCh' \in Seq(Jobs) /\ tickCh' \in Nat
  BY <1>1 DEF Inv
<1> QED
  BY <1>1, <1>4, <1>6, <1>7, QueueInv

\* The process restarts.
LEMMA RestartInv ==
    ASSUME Inv, Restart
    PROVE  Inv'
<1>1. timer' = TRUE /\ faults' = faults /\ tickCh' = 0 /\ jobCh' = <<>>
  BY DEF Restart
<1>2. tickCh' \in Nat /\ restarts' \in Nat /\ jobCh' \in Seq(Jobs)
  BY SMT DEF Restart, Inv
<1>3. WorkersInv'
  BY DEF Restart, WorkersInv, WorkerInv
<1>4. ClosedInv' /\ Tables(db')
  BY DEF Restart, Inv, ClosedInv
<1>5. QueuedIsServed'
  BY <1>1 DEF QueuedIsServed
<1> QED
  BY <1>1, <1>2, <1>3, <1>4, <1>5, InvFromParts

\* A worker takes an auction.
LEMMA TakeJobInv ==
    ASSUME Inv, NEW w \in Workers, TakeJob(w)
    PROVE  Inv'
<1>1. Head(jobCh) \in Jobs /\ Tail(jobCh) \in Seq(Jobs)
  BY SMT DEF Inv, TakeJob
<1>2. Tables(db') /\ jobCh' \in Seq(Jobs) /\ UNCHANGED <<tickCh, closed, restarts, faults>>
  BY <1>1 DEF TakeJob, Inv
<1> QED
  BY <1>1, <1>2, TakesJob, WorkerGoesOn DEF TakeJob

\* A bid is received.
LEMMA ReceiveBidInv ==
    ASSUME Inv, NEW w \in Workers, NEW b \in Bidders, ReceiveBid(w, b)
    PROVE  Inv'
<1>1. BiddingInv(worker[w]) /\ AcceptBid(worker[w].job.asked, b)
  BY StepOf DEF Inv, WorkersInv, ReceiveBid
<1>2. BiddingInv([worker[w] EXCEPT !.bid = [worker[w].bid EXCEPT ![b] = "noted"]])
  BY <1>1, NotesBid
<1>3. /\ worker' = [worker EXCEPT ![w] =
            [worker[w] EXCEPT !.bid = [worker[w].bid EXCEPT ![b] = "noted"]]]
      /\ Tables(db') /\ jobCh' \in Seq(Jobs) /\ UNCHANGED <<tickCh, closed, restarts, faults>>
  BY DEF ReceiveBid, Inv
<1> QED
  BY <1>2, <1>3, WorkerGoesOn

\* A bid is saved and added.
LEMMA AddBidInv ==
    ASSUME Inv, NEW w \in Workers, NEW b \in Bidders, AddBid(w, b)
    PROVE  Inv'
<1> DEFINE s == worker[w]
           v == IF s.step = "selecting" THEN "none"
                ELSE IF MayCreateBid(db, <<s.job.id, b>>) THEN "added" ELSE "refused"
           bid == [s.bid EXCEPT ![b] = v]
           t == [s EXCEPT !.bid = bid]
<1>1. /\ s.step \in {"bidding", "selecting"} /\ s.bid[b] = "noted"
      /\ worker' = [worker EXCEPT ![w] = t]
      /\ UNCHANGED <<jobCh, tickCh, closed, restarts, faults>>
  BY DEF AddBid
<1>2. BiddingInv(s) \/ SelectingInv(s)
  BY <1>1, StepOf DEF Inv, WorkersInv
<1>3. BiddingInv(t) \/ SelectingInv(t)
  <2>1. CASE BiddingInv(s)
    <3>1. AcceptBid(s.job.asked, b)
      BY <1>1, <2>1 DEF BiddingInv
    <3> QED
      BY <2>1, <3>1, NotesBid
  <2>2. CASE SelectingInv(s)
    BY <2>2, RefusesBid
  <2> QED
    BY <1>2, <2>1, <2>2
<1>4. Tables(db')
  BY CreateBidTables DEF AddBid, Inv
<1>5. jobCh' \in Seq(Jobs)
  BY <1>1 DEF Inv
<1> HIDE DEF t
<1> QED
  BY <1>1, <1>3, <1>4, <1>5, WorkerGoesOn

\* The auction ends.
LEMMA EndBiddingInv ==
    ASSUME Inv, NEW w \in Workers, EndBidding(w)
    PROVE  Inv'
<1> DEFINE s == worker[w]
           bids == {b \in Bidders : s.bid[b] = "added"}
<1>1. BiddingInv(s)
  BY StepOf DEF Inv, WorkersInv, EndBidding
<1>2. PICK rates \in ProviderRates :
         LET cands == Candidates(s.job.asked, bids, rates)
             topN == Max({MinTopN, Cardinality(cands) \div 5})
         IN  worker' = [worker EXCEPT ![w] =
                [step |-> "selecting", job |-> s.job, bid |-> Late(w),
                 choice |-> Choice(cands, topN, {}, 0, rates)]]
  BY DEF EndBidding
<1>3. \A b \in bids : b \in Bidders /\ s.bid[b] # "none"
  OBVIOUS
<1> HIDE DEF bids
<1>4. \E t : SelectingInv(t) /\ worker' = [worker EXCEPT ![w] = t]
  BY <1>1, <1>2, <1>3, EndsBidding
<1>5. Tables(db') /\ jobCh' \in Seq(Jobs) /\ UNCHANGED <<tickCh, closed, restarts, faults>>
  BY DEF EndBidding, Inv
<1> QED
  BY <1>4, <1>5, WorkerGoesOn

\* The state of a choice is a record, and so is its iterator.
LEMMA ChoiceShape ==
    ASSUME NEW a, NEW c, ChoiceInv(a, c)
    PROVE  c.it = [cands |-> c.it.cands, rates |-> c.it.rates, left |-> c.it.left]
<1>1. c = [it |-> [cands |-> c.it.cands, rates |-> c.it.rates, left |-> c.it.left],
           start |-> c.start, topN |-> c.topN, winners |-> c.winners,
           replica |-> c.replica]
  BY Zenon DEF ChoiceInv
<1> QED
  BY ONLY <1>1, SMT

\* A candidate is asked.
LEMMA SelectOneWinnerInv ==
    ASSUME Inv, NEW w \in Workers, NEW b, NEW answer, SelectOneWinner(w, b, answer)
    PROVE  Inv'
<1> DEFINE s == worker[w]
           c == s.choice
           it == After(c.it, b)
<1>1. SelectingInv(s) /\ b \in NextOf(c.it)
  BY StepOf DEF Inv, WorkersInv, SelectOneWinner
<1>2. ChoiceInv(s.job.id, c)
  BY <1>1 DEF SelectingInv
<1>3. b \in c.it.cands /\ it.cands = c.it.cands \ {b}
  <2>1. c.it = [cands |-> c.it.cands, rates |-> c.it.rates, left |-> c.it.left]
    BY Zenon, <1>2, ChoiceShape
  <2> QED
    BY <1>1, <2>1 DEF NextOf, TopN, After
<1>4. PICK rates \in ProviderRates : worker' = [worker EXCEPT ![w] = [s EXCEPT !.choice =
         IF answer = "accepted"
         THEN Choice(it.cands, c.topN, c.winners \union {b}, c.replica + 1, rates)
         ELSE [c EXCEPT !.it = it]]]
  BY DEF SelectOneWinner
<1>5. ChoiceInv(s.job.id, Choice(it.cands, c.topN, c.winners \union {b}, c.replica + 1, rates))
  <2>1. it.cands \subseteq c.it.cands /\ {b} \subseteq c.it.cands
    BY <1>3
  <2> HIDE DEF it
  <2> QED
    BY <1>2, <2>1, NextReplicaBegins
<1>6. ChoiceInv(s.job.id, [c EXCEPT !.it = it])
  BY <1>1, <1>2, CandidateRefuses
<1>7. \E n : ChoiceInv(s.job.id, n) /\ worker' = [worker EXCEPT ![w] = [s EXCEPT !.choice = n]]
  <2>1. CASE answer = "accepted"
    BY <1>4, <1>5, <2>1
  <2>2. CASE answer # "accepted"
    BY <1>4, <1>6, <2>2
  <2> QED
    BY <2>1, <2>2
<1>8. Tables(db') /\ jobCh' \in Seq(Jobs) /\ UNCHANGED <<tickCh, closed, restarts, faults>>
  BY DEF SelectOneWinner, Inv
<1> QED
  BY <1>1, <1>7, <1>8, SetsChoice, WorkerGoesOn

\* Nobody takes a replica.
LEMMA NextReplicaInv ==
    ASSUME Inv, NEW w \in Workers, NextReplica(w)
    PROVE  Inv'
<1> DEFINE s == worker[w]
           c == s.choice
<1>1. SelectingInv(s)
  BY StepOf DEF Inv, WorkersInv, NextReplica
<1>2. PICK rates \in ProviderRates : worker' = [worker EXCEPT ![w] = [s EXCEPT !.choice =
         Choice(c.it.cands, c.topN, c.winners, c.replica + 1, rates)]]
  BY DEF NextReplica
<1>3. ChoiceInv(s.job.id, Choice(c.it.cands, c.topN, c.winners, c.replica + 1, rates))
  <2>1. ChoiceInv(s.job.id, c) /\ {} \subseteq c.it.cands /\ c.winners \union {} = c.winners
    BY <1>1 DEF SelectingInv
  <2>2. ChoiceInv(s.job.id, Choice(c.it.cands, c.topN, c.winners \union {}, c.replica + 1, rates))
    BY <2>1, NextReplicaBegins
  <2> QED
    BY <2>1, <2>2
<1>4. Tables(db') /\ jobCh' \in Seq(Jobs) /\ UNCHANGED <<tickCh, closed, restarts, faults>>
  BY DEF NextReplica, Inv
<1> QED
  BY <1>1, <1>2, <1>3, <1>4, SetsChoice, WorkerGoesOn

\* processAuction returns.
LEMMA ProcessedInv ==
    ASSUME Inv, NEW w \in Workers, NEW ok, NEW winners, Processed(w, ok, winners),
           worker[w].job \in Jobs, Outcome(worker[w].job.id, ok, winners), Tables(db'),
           jobCh' \in Seq(Jobs), UNCHANGED <<tickCh, closed, restarts>>,
           Fault \/ faults' = faults
    PROVE  Inv'
<1> DEFINE st == IF winners = {} THEN "finalizing" ELSE "saving"
           t == [step |-> st, job |-> worker[w].job, ok |-> ok, winners |-> winners]
<1>1. st \in {"saving", "finalizing", "publishing"}
  OBVIOUS
<1>2. worker' = [worker EXCEPT ![w] = t]
  BY DEF Processed
<1> HIDE DEF st
<1>3. EndingInv(t)
  BY <1>1, Returns
<1> QED
  BY <1>2, <1>3, WorkerGoesOn

\* The choice ends.
LEMMA EndSelectionInv ==
    ASSUME Inv, NEW w \in Workers, EndSelection(w)
    PROVE  Inv'
<1> DEFINE s == worker[w]
           winners == IF Enough(w) THEN s.choice.winners ELSE {}
<1>1. SelectingInv(s)
  BY StepOf DEF Inv, WorkersInv, EndSelection
<1>2. s.job \in Jobs
  BY <1>1 DEF SelectingInv
<1>3. Outcome(s.job.id, Enough(w), winners)
  <2>1. CASE Enough(w)
    <3>1. Cardinality(winners) = AuctionOf[s.job.id].rep
      BY <1>2, <2>1, JobIsAuction DEF Enough
    <3>2. \A b \in winners : Fit(s.job.id, b)
      BY <1>1, <2>1 DEF SelectingInv, ChoiceInv
    <3>3. Enough(w) = TRUE
      BY <2>1 DEF Enough
    <3> QED
      BY <3>1, <3>2, <3>3 DEF Outcome
  <2>2. CASE ~Enough(w)
    <3>1. Enough(w) = FALSE
      BY <2>2 DEF Enough
    <3> QED
      BY <2>2, <3>1 DEF Outcome
  <2> QED
    BY <2>1, <2>2
<1>4. Processed(w, Enough(w), winners)
  BY DEF EndSelection
<1>5. Tables(db') /\ jobCh' \in Seq(Jobs) /\ UNCHANGED <<tickCh, closed, restarts, faults>>
  BY DEF EndSelection, Inv
<1> HIDE DEF winners
<1> QED
  BY <1>2, <1>3, <1>4, <1>5, ProcessedInv

\* The auction can't be published.
LEMMA PublishAuctionFailsInv ==
    ASSUME Inv, NEW w \in Workers, PublishAuctionFails(w)
    PROVE  Inv'
<1>1. worker[w].job \in Jobs
  BY StepOf DEF Inv, WorkersInv, PublishAuctionFails, BiddingInv
<1>2. Outcome(worker[w].job.id, FALSE, {})
  BY DEF Outcome
<1>3. /\ Processed(w, FALSE, {}) /\ Fault /\ Tables(db') /\ jobCh' \in Seq(Jobs)
      /\ UNCHANGED <<tickCh, closed, restarts>>
  BY DEF PublishAuctionFails, Inv
<1> QED
  BY <1>1, <1>2, <1>3, ProcessedInv

\* The winning bids are marked.
LEMMA UpdateWinningBidsInv ==
    ASSUME Inv, NEW w \in Workers, UpdateWinningBids(w)
    PROVE  Inv'
<1>1. EndingInv(worker[w])
  BY StepOf DEF Inv, WorkersInv, UpdateWinningBids
<1>2. EndingInv([worker[w] EXCEPT !.step = "finalizing"])
  BY <1>1, MovesOn
<1>3. Tables(db')
  BY WonTables DEF UpdateWinningBids, Inv
<1>4. /\ worker' = [worker EXCEPT ![w] = [worker[w] EXCEPT !.step = "finalizing"]]
      /\ jobCh' \in Seq(Jobs) /\ UNCHANGED <<tickCh, closed, restarts>>
      /\ Fault \/ faults' = faults
  BY DEF UpdateWinningBids, NoFault, Inv
<1> QED
  BY <1>2, <1>3, <1>4, WorkerGoesOn

\* The end of the auction is saved.
LEMMA SaveAndFinalizeAuctionInv ==
    ASSUME Inv, NEW w \in Workers, SaveAndFinalizeAuction(w)
    PROVE  Inv'
<1>1. EndingInv(worker[w])
  BY StepOf DEF Inv, WorkersInv, SaveAndFinalizeAuction
<1>2. EndingInv([worker[w] EXCEPT !.step = "publishing"])
  BY <1>1, MovesOn
<1>3. Tables(db')
  BY StatusTables DEF SaveAndFinalizeAuction, Inv, StatusSaved
<1>4. /\ worker' = [worker EXCEPT ![w] = [worker[w] EXCEPT !.step = "publishing"]]
      /\ jobCh' \in Seq(Jobs) /\ UNCHANGED <<tickCh, closed, restarts, faults>>
  BY DEF SaveAndFinalizeAuction, Inv
<1> QED
  BY <1>2, <1>3, <1>4, WorkerGoesOn

\* The end of the auction can't be saved.
LEMMA FinalizeFailsInv ==
    ASSUME Inv, NEW w \in Workers, FinalizeFails(w)
    PROVE  Inv'
<1>1. EndJob(w) /\ Fault /\ ClosedInv' /\ UNCHANGED <<db, jobCh, restarts>>
  BY DEF FinalizeFails, Inv, ClosedInv
<1> QED
  BY <1>1, WorkerIsDone

\* The end of the auction is announced.
LEMMA FinalizeAuctionInv ==
    ASSUME Inv, NEW w \in Workers, FinalizeAuction(w)
    PROVE  Inv'
<1> DEFINE s == worker[w]
           a == s.job.id
           m == ToClosedAuction(w)
<1>1. EndingInv(s)
  BY StepOf DEF Inv, WorkersInv, FinalizeAuction
<1>2. s.job \in Jobs /\ Outcome(a, s.ok, s.winners)
  BY <1>1 DEF EndingInv
<1>3. a \in Auctions /\ s.job.asked = AuctionOf[a]
  BY <1>2, JobIsAuction
<1>4. m \in Messages(a)
  <2>1. m = Announcement(a, s.ok, s.winners)
    BY <1>3 DEF ToClosedAuction, Announcement
  <2>2. s.winners \subseteq Bidders
    BY <1>2 DEF Outcome, Fit
  <2> HIDE DEF m
  <2>3. CASE s.ok = TRUE
    BY <1>2, <2>1, <2>2, <2>3 DEF Messages
  <2>4. CASE s.ok = FALSE /\ s.winners = {}
    BY <2>1, <2>4 DEF Messages
  <2> QED
    BY <1>2, <2>3, <2>4 DEF Outcome
<1>5. ClosedInv'
  <2>1. CASE closed' = closed
    BY <2>1 DEF Inv, ClosedInv
  <2>2. CASE closed' = [closed EXCEPT ![a] = Append(closed[a], m)]
    <3>1. closed[a] \in Seq(Messages(a)) /\ closed = [x \in Auctions |-> closed[x]]
      BY <1>3 DEF Inv, ClosedInv
    <3>2. Append(closed[a], m) \in Seq(Messages(a))
      <4> HIDE DEF m
      <4> QED
        BY <1>4, <3>1, SMT
    <3> HIDE DEF m
    <3> QED
      BY <2>2, <3>1, <3>2 DEF Inv, ClosedInv
  <2> QED
    BY <2>1, <2>2 DEF FinalizeAuction
<1>6. EndJob(w) /\ UNCHANGED <<db, jobCh, restarts>> /\ (Fault \/ faults' = faults)
  BY DEF FinalizeAuction, NoFault
<1> QED
  BY <1>5, <1>6, WorkerIsDone

\* The invariant holds at the start.
LEMMA InvInit == Init => Inv
<1> SUFFICES ASSUME Init PROVE Inv
  BY SMT
<1>1. Tables(db)
  BY SMT DEF Init, NoTables, Tables
<1>2. jobCh \in Seq(Jobs) /\ tickCh \in Nat /\ restarts \in Nat /\ faults \in Nat
  BY SMT DEF Init
<1>3. WorkersInv
  BY DEF Init, WorkersInv, WorkerInv
<1>4. ClosedInv
  <2>1. \A a \in Auctions : <<>> \in Seq(Messages(a))
    BY SMT
  <2> QED
    BY <2>1 DEF Init, ClosedInv
<1>5. QueuedIsServed
  BY DEF Init, QueuedIsServed
<1> QED
  BY <1>1, <1>2, <1>3, <1>4, <1>5 DEF Inv

\* Every step keeps it.
LEMMA InvNext == Inv /\ [Next]_vars => Inv'
<1> SUFFICES ASSUME Inv, [Next]_vars PROVE Inv'
  BY SMT
<1>1. CASE UNCHANGED vars
  BY <1>1 DEF vars, Inv, WorkersInv, ClosedInv, QueuedIsServed, Status
<1>2. ASSUME NEW a \in Auctions,
             OnReadyToAuction(a) \/ CreateAuctionFails(a) \/ HourPasses(a)
      PROVE  Inv'
  BY <1>2, OnReadyToAuctionInv, CreateAuctionFailsInv, HourPassesInv
<1>3. CASE ProcessNext \/ ProcessNextFails \/ Restart
  BY <1>3, ProcessNextInv, ProcessNextFailsInv, RestartInv
<1>4. ASSUME NEW w \in Workers, Work(w)
      PROVE  Inv'
  <2>1. CASE SelectWinners(w)
    BY <2>1, SelectOneWinnerInv, NextReplicaInv, EndSelectionInv DEF SelectWinners
  <2> QED
    BY <1>4, <2>1, TakeJobInv, EndBiddingInv, UpdateWinningBidsInv,
       SaveAndFinalizeAuctionInv, FinalizeAuctionInv DEF Work
<1>5. ASSUME NEW w \in Workers,
             \/ PublishAuctionFails(w) \/ FinalizeFails(w)
             \/ \E b \in Bidders : ReceiveBid(w, b) \/ AddBid(w, b)
      PROVE  Inv'
  BY <1>5, PublishAuctionFailsInv, FinalizeFailsInv, ReceiveBidInv, AddBidInv
<1> QED
  BY <1>1, <1>2, <1>3, <1>4, <1>5 DEF Next

\* The invariant holds always.
LEMMA InvAlways == Spec => []Inv
BY InvInit, InvNext, PTL DEF Spec

--------------------------------------------------------------------------------
(* What follows. *)

\* No wake-up of the queue is lost (start, enqueue and the ticks of the workers):
\* while an auction is queued the queue will look again.
THEOREM QueuedAlwaysServed == Spec => []QueuedIsServed
<1>1. Inv => QueuedIsServed
  BY DEF Inv
<1> QED
  BY <1>1, InvAlways, PTL

\* What finalizeAuction announces of an auction that succeeded is what it was asked
\* for, whatever fails and also when the auction was read back from its row.
THEOREM ClosedAlwaysAsPromised == Spec => []ClosedAsPromised
<1>1. Inv => ClosedAsPromised
  <2> SUFFICES ASSUME Inv, NEW a \in Auctions, NEW i \in DOMAIN closed[a], closed[a][i].ok
               PROVE  LET auc == AuctionOf[a]
                          c == closed[a][i]
                          winners == DOMAIN c.winners
                      IN  /\ Cardinality(winners) = auc.rep
                          /\ winners \intersect auc.excluded = {}
                          /\ auc.providers # {} => winners \subseteq auc.providers
                          /\ \A b \in winners :
                                /\ c.winners[b].price = 0
                                /\ auc.deadline > 0 => c.winners[b].startEpoch <= auc.deadline
                          /\ c.sources = auc.sources
    BY DEF ClosedAsPromised
  <2>1. closed[a][i] \in Messages(a)
    <3>1. closed[a] \in Seq(Messages(a))
      BY DEF Inv, ClosedInv
    <3> QED
      BY <3>1, SMT
  <2>2. PICK W : closed[a][i] = Announcement(a, TRUE, W) /\ Outcome(a, TRUE, W)
    <3>1. Announcement(a, FALSE, {}).ok = FALSE
      BY SMT DEF Announcement
    <3> QED
      BY <2>1, <3>1 DEF Messages
  <2>3. /\ closed[a][i].winners = [b \in W |-> [price |-> PriceOf(AuctionOf[a], b),
                                               startEpoch |-> BidOf[b].startEpoch]]
        /\ closed[a][i].sources = AuctionOf[a].sources
    BY <2>2, SMT DEF Announcement
  <2>4. /\ DOMAIN closed[a][i].winners = W
        /\ \A b \in W : /\ closed[a][i].winners[b].price = PriceOf(AuctionOf[a], b)
                        /\ closed[a][i].winners[b].startEpoch = BidOf[b].startEpoch
    BY <2>3, SMT
  <2>5. Cardinality(W) = AuctionOf[a].rep /\ \A b \in W : Fit(a, b)
    BY <2>2 DEF Outcome
  <2> QED
    BY <2>3, <2>4, <2>5 DEF Fit
<1> QED
  BY <1>1, InvAlways, PTL

\* What a step may do to a worker that chooses winners.
LEMMA ChooserSteps ==
    ASSUME Inv, Next, NEW w \in Workers, worker[w].step = "selecting"
    PROVE  \/ worker'[w] = worker[w] \/ worker'[w] = Idle
           \/ \E b \in Bidders, answer \in PublishWin : SelectOneWinner(w, b, answer)
           \/ NextReplica(w) \/ EndSelection(w)
           \/ \E b \in Bidders : AddBid(w, b)
<1>1. Idle.step = "idle"
  BY SMT DEF Idle
<1>2. \A v \in Workers : \A t : v # w /\ worker' = [worker EXCEPT ![v] = t] => worker'[w] = worker[w]
  BY DEF Inv, WorkersInv
<1>3. ASSUME NEW a \in Auctions,
             OnReadyToAuction(a) \/ CreateAuctionFails(a) \/ HourPasses(a)
      PROVE  worker' = worker
  BY <1>3 DEF OnReadyToAuction, CreateAuctionFails, HourPasses
<1>4. CASE ProcessNext \/ ProcessNextFails
  BY <1>4 DEF ProcessNext, ProcessNextFails
<1>5. CASE Restart
  BY <1>5 DEF Restart
<1>6. ASSUME NEW v \in Workers, Work(v)
      PROVE  \/ v = w /\ SelectWinners(w)
             \/ worker'[w] = worker[w]
  <2>1. CASE v = w
    <3>1. ~TakeJob(w)
      BY <1>1 DEF TakeJob
    <3>2. ~EndBidding(w) /\ ~UpdateWinningBids(w) /\ ~SaveAndFinalizeAuction(w)
      BY SMT DEF EndBidding, UpdateWinningBids, SaveAndFinalizeAuction
    <3>3. ~FinalizeAuction(w)
      BY SMT DEF FinalizeAuction
    <3> QED
      BY <1>6, <2>1, <3>1, <3>2, <3>3 DEF Work
  <2>2. CASE v # w
    <3>1. \E t : worker' = [worker EXCEPT ![v] = t]
      <4>1. CASE SelectWinners(v)
        BY <4>1 DEF SelectWinners, SelectOneWinner, NextReplica, EndSelection, Processed
      <4>2. CASE TakeJob(v) \/ EndBidding(v)
        BY <4>2 DEF TakeJob, EndBidding
      <4>3. CASE UpdateWinningBids(v) \/ SaveAndFinalizeAuction(v) \/ FinalizeAuction(v)
        BY <4>3 DEF UpdateWinningBids, SaveAndFinalizeAuction, FinalizeAuction, EndJob
      <4> QED
        BY <1>6, <4>1, <4>2, <4>3 DEF Work
    <3> QED
      BY <1>2, <2>2, <3>1
  <2> QED
    BY <2>1, <2>2
<1>7. ASSUME NEW v \in Workers,
             \/ PublishAuctionFails(v) \/ FinalizeFails(v)
             \/ \E b \in Bidders : ReceiveBid(v, b) \/ AddBid(v, b)
      PROVE  (v = w /\ \E b \in Bidders : AddBid(w, b)) \/ worker'[w] = worker[w]
  <2>1. CASE v = w
    <3>1. ~PublishAuctionFails(w) /\ ~FinalizeFails(w)
      BY SMT DEF PublishAuctionFails, FinalizeFails
    <3>2. \A b \in Bidders : ~ReceiveBid(w, b)
      BY SMT DEF ReceiveBid
    <3> QED
      BY <1>7, <2>1, <3>1, <3>2
  <2>2. CASE v # w
    <3>1. \E t : worker' = [worker EXCEPT ![v] = t]
      BY <1>7 DEF PublishAuctionFails, Processed, FinalizeFails, EndJob, ReceiveBid,
                  AddBid
    <3> QED
      BY <1>2, <2>2, <3>1
  <2> QED
    BY <2>1, <2>2
<1> QED
  BY <1>3, <1>4, <1>5, <1>6, <1>7 DEF Next, SelectWinners

\* Only the end of the choice ends it, and only asking takes a candidate away.
LEMMA ChooserMoves ==
    ASSUME Inv, Next, NEW w \in Workers, worker[w].step = "selecting"
    PROVE  /\ worker'[w].step = "finalizing" => EndSelection(w)
           /\ worker'[w].step = "selecting" =>
                 \A b \in worker[w].choice.it.cands \ worker'[w].choice.it.cands :
                    b \in NextOf(worker[w].choice.it)
<1> DEFINE s == worker[w]
           c == s.choice
<1>1. SelectingInv(s) /\ worker = [v \in Workers |-> worker[v]]
  BY StepOf DEF Inv, WorkersInv
<1>2. s = [step |-> "selecting", job |-> s.job, bid |-> s.bid, choice |-> c]
  BY <1>1 DEF SelectingInv
<1>3. CASE worker'[w] = s
  BY <1>3
<1>4. CASE worker'[w] = Idle
  BY <1>4, SMT DEF Idle
<1>5. ASSUME NEW b \in Bidders, NEW answer \in PublishWin, SelectOneWinner(w, b, answer)
      PROVE  /\ worker'[w].step = "selecting"
             /\ \A x \in c.it.cands \ worker'[w].choice.it.cands : x \in NextOf(c.it)
  <2> DEFINE it == After(c.it, b)
  <2>1. b \in NextOf(c.it)
    BY <1>5 DEF SelectOneWinner
  <2>2. it.cands = c.it.cands \ {b}
    <3>1. c.it = [cands |-> c.it.cands, rates |-> c.it.rates, left |-> c.it.left]
      BY <1>1, SMT DEF SelectingInv, ChoiceInv
    <3> QED
      BY <3>1 DEF After
  <2> HIDE DEF it
  <2>3. PICK n : worker' = [worker EXCEPT ![w] = [s EXCEPT !.choice = n]] /\ n.it.cands = it.cands
    <3>1. PICK rates \in ProviderRates : worker' = [worker EXCEPT ![w] = [s EXCEPT !.choice =
             IF answer = "accepted"
             THEN Choice(it.cands, c.topN, c.winners \union {b}, c.replica + 1, rates)
             ELSE [c EXCEPT !.it = it]]]
      BY <1>5 DEF SelectOneWinner, it
    <3>2. Choice(it.cands, c.topN, c.winners \union {b}, c.replica + 1, rates).it.cands = it.cands
      BY SMT DEF Choice, RandomTopN, Random
    <3>3. [c EXCEPT !.it = it].it = it
      BY <1>1, SMT DEF SelectingInv, ChoiceInv
    <3> QED
      BY <3>1, <3>2, <3>3
  <2>4. worker'[w] = [s EXCEPT !.choice = n]
    BY <1>1, <2>3
  <2>5. worker'[w].step = "selecting" /\ worker'[w].choice = n
    BY <1>2, <2>4, SMT
  <2> QED
    BY <2>1, <2>2, <2>3, <2>5
<1>6. ASSUME NextReplica(w)
      PROVE  worker'[w].step = "selecting" /\ worker'[w].choice.it.cands = c.it.cands
  <2>1. PICK rates \in ProviderRates : worker' = [worker EXCEPT ![w] = [s EXCEPT !.choice =
           Choice(c.it.cands, c.topN, c.winners, c.replica + 1, rates)]]
    BY <1>6 DEF NextReplica
  <2> DEFINE n == Choice(c.it.cands, c.topN, c.winners, c.replica + 1, rates)
  <2>2. n.it.cands = c.it.cands
    BY SMT DEF Choice, RandomTopN, Random
  <2> HIDE DEF n
  <2>3. worker'[w] = [s EXCEPT !.choice = n]
    BY <1>1, <2>1 DEF n
  <2>4. worker'[w].step = "selecting" /\ worker'[w].choice = n
    BY <1>2, <2>3, SMT
  <2> QED
    BY <2>2, <2>4
<1>7. ASSUME EndSelection(w) PROVE worker'[w].step # "selecting"
  <2>1. PICK t : worker'[w] = t /\ t.step \in {"finalizing", "saving"}
    <3>1. \A ok, W : [step |-> IF W = {} THEN "finalizing" ELSE "saving", job |-> s.job, ok |-> ok,
                      winners |-> W].step \in {"finalizing", "saving"}
      BY SMT
    <3> QED
      BY <1>1, <1>7, <3>1 DEF EndSelection, Processed
  <2> QED
    BY <2>1, SMT
<1>8. ASSUME NEW b \in Bidders, AddBid(w, b)
      PROVE  worker'[w].step = "selecting" /\ worker'[w].choice = c
  <2>1. PICK v : worker'[w] = [s EXCEPT !.bid = v]
    BY <1>1, <1>8 DEF AddBid
  <2> QED
    BY <1>2, <2>1, SMT
<1> QED
  BY <1>3, <1>4, <1>5, <1>6, <1>7, <1>8, ChooserSteps

\* selectWinners gives an auction up only when every candidate was asked, for every
\* number of candidates and of top candidates.
THEOREM EveryCandidateIsAsked == Spec => EveryCandidateAsked
<1> DEFINE Asked == \A w \in Workers :
              /\ worker[w].step = "selecting"
              /\ worker'[w].step = "finalizing"
              => worker[w].choice.it.cands = {}
<1>1. Inv /\ [Next]_vars => [Asked]_vars
  <2> SUFFICES ASSUME Inv, Next, NEW w \in Workers, worker[w].step = "selecting",
                      worker'[w].step = "finalizing"
               PROVE  worker[w].choice.it.cands = {}
    OBVIOUS
  <2> DEFINE s == worker[w]
             c == s.choice
             W == IF Enough(w) THEN c.winners ELSE {}
  <2>1. SelectingInv(s) /\ ChoiceInv(s.job.id, c) /\ worker = [v \in Workers |-> worker[v]]
    BY StepOf DEF Inv, WorkersInv, SelectingInv
  <2>2. EndSelection(w)
    BY ChooserMoves
  <2>3. ~Enough(w)
    <3> SUFFICES ASSUME Enough(w) PROVE FALSE
      BY SMT
    <3>1. worker'[w].step = IF c.winners = {} THEN "finalizing" ELSE "saving"
      <4>1. worker'[w] = [step |-> IF c.winners = {} THEN "finalizing" ELSE "saving",
                          job |-> s.job, ok |-> Enough(w), winners |-> c.winners]
        BY <2>1, <2>2 DEF EndSelection, Processed
      <4> QED
        BY <4>1, SMT
    <3>2. c.winners = {}
      BY <3>1, SMT
    <3>3. AuctionOf[s.job.id].rep # 0 /\ s.job.asked = AuctionOf[s.job.id]
      BY <2>1, JobIsAuction DEF SelectingInv, ValidAuctions, Validate
    <3> QED
      BY <3>2, <3>3, FS_EmptySet DEF Enough
  <2>4. c.it.left = 0 /\ (c.replica >= 4 \/ c.it.cands = {})
    BY <2>2, <2>3 DEF EndSelection
  <2>5. c.it.cands \subseteq Bidders
    BY <2>1 DEF ChoiceInv, Fit
  <2>6. IsFiniteSet(c.it.cands)
    BY <2>5, FiniteBidders
  <2>7. c.replica >= 4 => Cardinality(c.it.cands) = 0
    BY <2>1, <2>4 DEF ChoiceInv
  <2> QED
    BY <2>4, <2>6, <2>7, FS_EmptySet
<1> QED
  BY <1>1, InvAlways, PTL DEF Spec, EveryCandidateAsked

\* Whoever RandomTopN lets be asked for one of the first four replicas is one of the
\* topN best of those there were when the replica's turn began.
THEOREM AskedAlwaysTop == Spec => AskedAreTop
<1> DEFINE Top == \A w \in Workers :
              worker[w].step = "selecting" /\ worker'[w].step = "selecting" =>
                 LET c == worker[w].choice
                 IN  \A b \in c.it.cands \ worker'[w].choice.it.cands :
                        c.replica < 4 => b \in TopN(c.start, c.topN, c.it.rates)
<1>1. Inv /\ [Next]_vars => [Top]_vars
  <2> SUFFICES ASSUME Inv, Next, NEW w \in Workers, worker[w].step = "selecting",
                      worker'[w].step = "selecting",
                      NEW b \in worker[w].choice.it.cands \ worker'[w].choice.it.cands,
                      worker[w].choice.replica < 4
               PROVE  b \in TopN(worker[w].choice.start, worker[w].choice.topN,
                                 worker[w].choice.it.rates)
    OBVIOUS
  <2> DEFINE s == worker[w]
             c == s.choice
             it == c.it
             lower == {x \in it.cands : LowerProviderRate(it.rates, x, b)}
             all == {x \in c.start : LowerProviderRate(it.rates, x, b)}
             gone == c.start \ it.cands
  <2>1. ChoiceInv(s.job.id, c)
    BY StepOf DEF Inv, WorkersInv, SelectingInv
  <2>2. b \in NextOf(it)
    BY ChooserMoves
  <2>3. b \in it.cands /\ Cardinality(lower) < it.left
    BY <2>2 DEF NextOf, TopN
  <2>4. b \in c.start /\ c.start \subseteq Bidders
    BY <2>1, <2>3 DEF ChoiceInv, Fit
  <2>5. all \subseteq lower \union gone /\ lower \subseteq Bidders /\ gone \subseteq Bidders
    BY <2>1, <2>4 DEF ChoiceInv
  <2>6. it.left \in Int /\ c.topN \in Nat /\ it.left + Cardinality(gone) <= c.topN
    BY <2>1 DEF ChoiceInv
  <2> HIDE DEF lower, all, gone
  <2>7. /\ IsFiniteSet(lower) /\ Cardinality(lower) \in Nat
        /\ IsFiniteSet(gone) /\ Cardinality(gone) \in Nat
    BY <2>5, FiniteBidders
  <2>8. lower \union gone \subseteq Bidders /\ lower \intersect gone \subseteq Bidders
    BY <2>5
  <2>9. /\ IsFiniteSet(lower \union gone)
        /\ Cardinality(lower \union gone)
             = Cardinality(lower) + Cardinality(gone) - Cardinality(lower \intersect gone)
        /\ Cardinality(lower \intersect gone) \in Nat
    BY <2>7, <2>8, FS_Union, FiniteBidders
  <2>10. Cardinality(all) <= Cardinality(lower \union gone) /\ Cardinality(all) \in Nat
    <3>1. all \in SUBSET (lower \union gone) /\ all \subseteq Bidders
      BY <2>5, <2>8
    <3> QED
      BY <2>9, <3>1, FS_Subset, FiniteBidders
  <2>11. Cardinality(all) < c.topN
    BY <2>3, <2>6, <2>7, <2>9, <2>10, SMT
  <2> QED
    BY <2>4, <2>11 DEF TopN, all
<1> QED
  BY <1>1, InvAlways, PTL DEF Spec, AskedAreTop

--------------------------------------------------------------------------------
(* An auction is run once, if nothing fails. *)

StatusOf(d, a) == IF a \in DOMAIN d.auctions THEN d.auctions[a].status ELSE "none"

\* A worker in state s runs auction a.
Runs(s, a) == s # Idle /\ s.job.id = a

InWork(ch, ws, a) ==
    (\E i \in DOMAIN ch : ch[i].id = a) \/ (\E w \in Workers : Runs(ws[w], a))

\* An auction is in the channel ch once, or with one of the workers ws.
RunOnce(ch, ws) ==
    /\ \A i, j \in DOMAIN ch : ch[i].id = ch[j].id => i = j
    /\ \A w \in Workers : \A i \in DOMAIN ch : ~Runs(ws[w], ch[i].id)
    /\ \A v, w \in Workers : ws[w] # Idle /\ Runs(ws[v], ws[w].job.id) => v = w

\* Each auction that is started is run, and has not been for long.
StartedInWork(d, ch, ws) ==
    \A a \in DOMAIN d.auctions : d.auctions[a].status = "started" =>
        InWork(ch, ws, a) /\ ~d.auctions[a].old

\* The status of an auction says where it is.
StatusFits(d, ch, ws, cl) ==
    /\ \A i \in DOMAIN ch : StatusOf(d, ch[i].id) = "started"
    /\ \A w \in Workers : ws[w] # Idle /\ ws[w].step # "publishing" =>
          StatusOf(d, ws[w].job.id) = "started"
    /\ \A w \in Workers : ws[w] # Idle /\ ws[w].step = "publishing" =>
          StatusOf(d, ws[w].job.id) = "finalized"
    /\ StartedInWork(d, ch, ws)
    /\ \A a \in Auctions : cl[a] # <<>> => StatusOf(d, a) = "finalized"

BidSaved(d, a, b) == <<a, b>> \in DOMAIN d.bids

BidWon(d, a, b) == BidSaved(d, a, b) /\ d.bids[<<a, b>>].won

\* The bids that a worker counts on are saved, and marked before the end.
WorkerBids(d, s) ==
    /\ s.step = "bidding" =>
          \A b \in Bidders : s.bid[b] = "added" => BidSaved(d, s.job.id, b)
    /\ s.step = "selecting" =>
          \A b \in s.choice.it.cands \union s.choice.winners : BidSaved(d, s.job.id, b)
    /\ s.step = "saving" => \A b \in s.winners : BidSaved(d, s.job.id, b)
    /\ s.step \in {"finalizing", "publishing"} =>
          \A b \in s.winners : BidWon(d, s.job.id, b)
    /\ s.step = "publishing" /\ s.winners # {} => d.auctions[s.job.id].error = ""

\* So are those of the winners that were announced.
ClosedBids(d, cl) ==
    \A a \in Auctions : \A i \in DOMAIN cl[a] : \A b \in DOMAIN cl[a][i].winners :
        BidWon(d, a, b) /\ d.auctions[a].error = ""

DeliverInv(d, ch, ws, cl) ==
    /\ RunOnce(ch, ws)
    /\ StatusFits(d, ch, ws, cl)
    /\ \A w \in Workers : WorkerBids(d, ws[w])
    /\ ClosedBids(d, cl)

QuietInv == restarts + faults = 0 => DeliverInv(db, jobCh, worker, closed)

\* A worker that does nothing counts on nothing.
LEMMA IdleBids ==
    ASSUME NEW d
    PROVE  WorkerBids(d, Idle)
<1>1. Idle.step = "idle"
  BY SMT DEF Idle
<1> QED
  BY <1>1 DEF WorkerBids

\* What a worker counts on depends on the bids of its auction only, and on its row
\* at the end.
LEMMA WorkerBidsStay ==
    ASSUME NEW d, NEW e, NEW s, WorkerBids(d, s),
           \A b : BidSaved(d, s.job.id, b) => BidSaved(e, s.job.id, b),
           \A b : BidWon(d, s.job.id, b) => BidWon(e, s.job.id, b),
           e.auctions[s.job.id] = d.auctions[s.job.id]
    PROVE  WorkerBids(e, s)
BY DEF WorkerBids

\* What of the tables auction a does not touch.
OthersStay(d, e, a) ==
    /\ DOMAIN e.auctions = DOMAIN d.auctions \union {a}
    /\ \A x \in DOMAIN d.auctions : x # a => e.auctions[x] = d.auctions[x]
    /\ \A x, b : x # a /\ BidSaved(d, x, b) => BidSaved(e, x, b)
    /\ \A x, b : x # a /\ BidWon(d, x, b) => BidWon(e, x, b)

\* The auctions that others run, and the ones that are closed.
LEMMA OthersDeliver ==
    ASSUME NEW d, NEW e, NEW a, OthersStay(d, e, a), NEW ch, NEW ws, NEW cl,
           DeliverInv(d, ch, ws, cl)
    PROVE  /\ \A x : x # a => StatusOf(e, x) = StatusOf(d, x)
           /\ \A x : x # a /\ StatusOf(d, x) = "started" => ~e.auctions[x].old
           /\ \A w \in Workers : ws[w] # Idle /\ ws[w].job.id # a => WorkerBids(e, ws[w])
           /\ StatusOf(d, a) # "finalized" => ClosedBids(e, cl)
<1>1. \A x : x # a => StatusOf(e, x) = StatusOf(d, x)
  BY DEF StatusOf, OthersStay
<1>2. \A x : StatusOf(d, x) # "none" => x \in DOMAIN d.auctions
  BY DEF StatusOf
<1>3. \A x : x # a /\ StatusOf(d, x) = "started" => ~e.auctions[x].old
  <2>1. \A x : StatusOf(d, x) = "started" =>
                  x \in DOMAIN d.auctions /\ d.auctions[x].status = "started"
    BY DEF StatusOf
  <2> QED
    BY <2>1 DEF OthersStay, DeliverInv, StatusFits, StartedInWork
<1>4. ASSUME NEW w \in Workers, ws[w] # Idle, ws[w].job.id # a PROVE WorkerBids(e, ws[w])
  <2>1. StatusOf(d, ws[w].job.id) # "none" /\ WorkerBids(d, ws[w])
    BY <1>4 DEF DeliverInv, StatusFits
  <2>2. e.auctions[ws[w].job.id] = d.auctions[ws[w].job.id]
    BY <1>2, <1>4, <2>1 DEF OthersStay
  <2> QED
    BY <1>4, <2>1, <2>2, WorkerBidsStay DEF OthersStay
<1>5. ASSUME StatusOf(d, a) # "finalized" PROVE ClosedBids(e, cl)
  <2>1. \A x \in Auctions : cl[x] # <<>> => x # a /\ x \in DOMAIN d.auctions
    BY <1>2, <1>5 DEF DeliverInv, StatusFits
  <2>2. \A x \in Auctions : \A i \in DOMAIN cl[x] : cl[x] # <<>>
    BY SMT
  <2> QED
    BY <2>1, <2>2 DEF ClosedBids, DeliverInv, OthersStay
<1> QED
  BY <1>1, <1>3, <1>4, <1>5

\* A worker goes on with its auction, and touches no bids but those of the auction.
LEMMA QuietGoesOn ==
    ASSUME DeliverInv(db, jobCh, worker, closed), WorkersInv, NEW w \in Workers,
           worker[w] # Idle, worker[w].step # "publishing",
           NEW t, t # Idle, t.step # "publishing", t.job = worker[w].job,
           worker' = [worker EXCEPT ![w] = t], UNCHANGED <<jobCh, closed>>,
           db'.auctions = db.auctions, OthersStay(db, db', t.job.id), WorkerBids(db', t)
    PROVE  DeliverInv(db', jobCh', worker', closed')
<1> DEFINE a == t.job.id
<1>1. worker'[w] = t /\ \A v \in Workers : v # w => worker'[v] = worker[v]
  BY DEF WorkersInv
<1>2. \A v \in Workers : /\ worker'[v] = Idle <=> worker[v] = Idle
                         /\ worker'[v].job = worker[v].job
                         /\ worker'[v].step = "publishing" <=> worker[v].step = "publishing"
  BY <1>1
<1>3. \A v \in Workers : \A x : Runs(worker'[v], x) <=> Runs(worker[v], x)
  BY <1>2 DEF Runs
<1>4. \A x : StatusOf(db', x) = StatusOf(db, x)
  BY DEF StatusOf
<1>5. StatusOf(db, a) = "started"
  BY DEF DeliverInv, StatusFits
<1>6. RunOnce(jobCh', worker')
  BY <1>2, <1>3 DEF DeliverInv, RunOnce
<1>7. StatusFits(db', jobCh', worker', closed')
  <2>1. \A x : InWork(jobCh', worker', x) <=> InWork(jobCh, worker, x)
    BY <1>3 DEF InWork
  <2>2. StartedInWork(db', jobCh', worker')
    <3>1. StartedInWork(db, jobCh, worker)
      BY DEF DeliverInv, StatusFits
    <3> QED
      BY <2>1, <3>1 DEF StartedInWork
  <2>3. \A v \in Workers : worker'[v] # Idle =>
           /\ worker'[v].step # "publishing" => StatusOf(db', worker'[v].job.id) = "started"
           /\ worker'[v].step = "publishing" => StatusOf(db', worker'[v].job.id) = "finalized"
    <3> TAKE v \in Workers
    <3>1. StatusOf(db', worker'[v].job.id) = StatusOf(db, worker[v].job.id)
      BY <1>2, <1>4
    <3> QED
      BY <1>2, <3>1 DEF DeliverInv, StatusFits
  <2>4. /\ \A i \in DOMAIN jobCh' : StatusOf(db', jobCh'[i].id) = "started"
        /\ \A x \in Auctions : closed'[x] # <<>> => StatusOf(db', x) = "finalized"
    BY <1>4 DEF DeliverInv, StatusFits
  <2> QED
    BY <2>2, <2>3, <2>4 DEF StatusFits
<1>8. \A v \in Workers : WorkerBids(db', worker'[v])
  <2> TAKE v \in Workers
  <2>1. CASE v = w
    BY <1>1, <2>1
  <2>2. CASE v # w /\ worker[v] = Idle
    BY <1>1, <2>2, IdleBids
  <2>3. CASE v # w /\ worker[v] # Idle
    <3>1. worker[v].job.id # a
      BY <2>3 DEF DeliverInv, RunOnce, Runs
    <3>2. WorkerBids(db', worker[v])
      BY <2>3, <3>1, OthersDeliver
    <3> QED
      BY <1>1, <2>3, <3>2
  <2> QED
    BY <2>1, <2>2, <2>3
<1>9. ClosedBids(db', closed')
  BY <1>5, OthersDeliver
<1> QED
  BY <1>6, <1>7, <1>8, <1>9 DEF DeliverInv

\* An auction that waits, or is new, goes to the channel or waits.
LEMMA QuietEnqueue ==
    ASSUME DeliverInv(db, jobCh, worker, closed), NEW a \in Auctions,
           StatusOf(db, a) \in {"none", "queued"}, jobCh \in Seq(Jobs), NEW job \in Jobs,
           job.id = a, UNCHANGED <<worker, closed>>, OthersStay(db, db', a),
           \/ /\ jobCh' = Append(jobCh, job) /\ db'.auctions[a].status = "started"
              /\ ~db'.auctions[a].old
           \/ jobCh' = jobCh /\ db'.auctions[a].status = "queued"
    PROVE  DeliverInv(db', jobCh', worker', closed')
<1>1. /\ StatusOf(db', a) = db'.auctions[a].status
      /\ \A x : x # a => StatusOf(db', x) = StatusOf(db, x)
  BY OthersDeliver DEF StatusOf, OthersStay
<1>2. /\ \A i \in DOMAIN jobCh : jobCh[i].id # a
      /\ \A w \in Workers : worker[w] # Idle => worker[w].job.id # a
      /\ closed[a] = <<>>
  BY DEF DeliverInv, StatusFits
<1>3. \A i \in DOMAIN jobCh' : \/ i \in DOMAIN jobCh /\ jobCh'[i] = jobCh[i]
                               \/ /\ i = Len(jobCh) + 1 /\ jobCh'[i] = job
                                  /\ db'.auctions[a].status = "started"
  BY SMT
<1>4. \A i \in DOMAIN jobCh : i \in DOMAIN jobCh' /\ jobCh'[i] = jobCh[i]
  BY SMT
<1>5. RunOnce(jobCh', worker')
  BY <1>2, <1>3, ZenonT(60) DEF DeliverInv, RunOnce, Runs
<1>6. StartedInWork(db', jobCh', worker')
  <2> SUFFICES ASSUME NEW x \in DOMAIN db'.auctions, db'.auctions[x].status = "started"
               PROVE  InWork(jobCh', worker', x) /\ ~db'.auctions[x].old
    BY DEF StartedInWork
  <2>1. CASE x = a
    <3>1. jobCh' = Append(jobCh, job) /\ ~db'.auctions[a].old
      BY <2>1, SMT
    <3>2. Len(jobCh) + 1 \in DOMAIN jobCh' /\ jobCh'[Len(jobCh) + 1] = job
      BY <3>1, SMT
    <3> QED
      BY <2>1, <3>1, <3>2 DEF InWork
  <2>2. CASE x # a
    <3>1. x \in DOMAIN db.auctions /\ db'.auctions[x] = db.auctions[x]
      BY <2>2 DEF OthersStay
    <3>2. InWork(jobCh, worker, x) /\ ~db.auctions[x].old
      BY <3>1 DEF DeliverInv, StatusFits, StartedInWork
    <3> QED
      BY <1>4, <3>1, <3>2 DEF InWork
  <2> QED
    BY <2>1, <2>2
<1>7. StatusFits(db', jobCh', worker', closed')
  <2>1. ASSUME NEW i \in DOMAIN jobCh' PROVE StatusOf(db', jobCh'[i].id) = "started"
    <3>1. CASE i \in DOMAIN jobCh /\ jobCh'[i] = jobCh[i]
      <4>1. StatusOf(db, jobCh[i].id) = "started" /\ jobCh[i].id # a
        BY <1>2, <3>1 DEF DeliverInv, StatusFits
      <4> QED
        BY <1>1, <3>1, <4>1
    <3>2. CASE jobCh'[i] = job /\ db'.auctions[a].status = "started"
      BY <1>1, <3>2
    <3> QED
      BY <1>3, <2>1, <3>1, <3>2
  <2>2. /\ \A w \in Workers : worker[w] # Idle /\ worker[w].step # "publishing" =>
              StatusOf(db', worker[w].job.id) = "started"
        /\ \A w \in Workers : worker[w] # Idle /\ worker[w].step = "publishing" =>
              StatusOf(db', worker[w].job.id) = "finalized"
    BY <1>1, <1>2 DEF DeliverInv, StatusFits
  <2>3. \A x \in Auctions : closed[x] # <<>> => StatusOf(db', x) = "finalized"
    BY <1>1, <1>2 DEF DeliverInv, StatusFits
  <2> QED
    BY <1>6, <2>1, <2>2, <2>3 DEF StatusFits
<1>8. \A w \in Workers : WorkerBids(db', worker'[w])
  BY <1>2, OthersDeliver, IdleBids
<1>9. ClosedBids(db', closed')
  <2>1. StatusOf(db, a) # "finalized"
    BY SMT
  <2> QED
    BY <2>1, OthersDeliver
<1> QED
  BY <1>5, <1>7, <1>8, <1>9 DEF DeliverInv

\* The row of an auction that is run is there.
LEMMA RunHasRow ==
    ASSUME DeliverInv(db, jobCh, worker, closed), NEW w \in Workers, worker[w] # Idle
    PROVE  /\ worker[w].job.id \in DOMAIN db.auctions
           /\ OthersStay(db, db, worker[w].job.id)
           /\ WorkerBids(db, worker[w])
<1>1. worker[w].job.id \in DOMAIN db.auctions
  BY DEF DeliverInv, StatusFits, StatusOf
<1> QED
  BY <1>1 DEF DeliverInv, OthersStay

\* A worker goes on, and nothing is written.
LEMMA QuietUnwritten ==
    ASSUME DeliverInv(db, jobCh, worker, closed), WorkersInv, NEW w \in Workers,
           worker[w] # Idle, worker[w].step # "publishing",
           NEW t, t # Idle, t.step # "publishing", t.job = worker[w].job,
           worker' = [worker EXCEPT ![w] = t], UNCHANGED <<db, jobCh, closed>>,
           WorkerBids(db, t)
    PROVE  DeliverInv(db', jobCh', worker', closed')
BY RunHasRow, QuietGoesOn

\* At the steps up to the end a worker is not idle.
LEMMA StepNames ==
    ASSUME NEW s, s.step \in {"bidding", "selecting", "saving", "finalizing"}
    PROVE  s # Idle /\ s.step # "publishing"
BY SMT DEF Idle

\* What a worker counts on before the end of the auction.
LEMMA BiddingBids ==
    ASSUME NEW d, NEW s, s.step = "bidding"
    PROVE  WorkerBids(d, s) <=>
              \A b \in Bidders : s.bid[b] = "added" => BidSaved(d, s.job.id, b)
BY SMT DEF WorkerBids

\* What it counts on when it chooses.
LEMMA SelectingBids ==
    ASSUME NEW d, NEW s, s.step = "selecting"
    PROVE  WorkerBids(d, s) <=>
              \A b \in s.choice.it.cands \union s.choice.winners : BidSaved(d, s.job.id, b)
BY SMT DEF WorkerBids

\* What it counts on when it has chosen.
LEMMA EndingBids ==
    ASSUME NEW d, NEW s
    PROVE  /\ s.step = "saving" =>
                 (WorkerBids(d, s) <=> \A b \in s.winners : BidSaved(d, s.job.id, b))
           /\ s.step = "finalizing" =>
                 (WorkerBids(d, s) <=> \A b \in s.winners : BidWon(d, s.job.id, b))
           /\ s.step = "publishing" =>
                 (WorkerBids(d, s) <=> /\ \A b \in s.winners : BidWon(d, s.job.id, b)
                                       /\ s.winners # {} => d.auctions[s.job.id].error = "")
<1>1. CASE s.step = "saving"
  BY <1>1 DEF WorkerBids
<1>2. CASE s.step = "finalizing"
  BY <1>2 DEF WorkerBids
<1>3. CASE s.step = "publishing"
  BY <1>3 DEF WorkerBids
<1> QED
  BY <1>1, <1>2, <1>3

\* The candidates and the winners of a choice.
Chooses(c, cands, winners) == c.it.cands = cands /\ c.winners = winners

\* Whom a replica may draw.
LEMMA ChoiceCands ==
    ASSUME NEW cands, NEW topN, NEW winners, NEW replica, NEW rates
    PROVE  Chooses(Choice(cands, topN, winners, replica, rates), cands, winners)
<1> SUFFICES /\ Choice(cands, topN, winners, replica, rates).it.cands = cands
             /\ Choice(cands, topN, winners, replica, rates).winners = winners
  BY Zenon DEF Chooses
<1>1. \A n, q : RandomTopN(cands, n, q).cands = cands
  BY SMT DEF RandomTopN
<1>2. Random(cands).cands = cands
  BY SMT DEF Random
<1>3. CASE replica \in {0, 2, 3}
  BY <1>1, <1>3, SMT DEF Choice
<1>4. CASE replica = 1
  BY <1>1, <1>4, SMT DEF Choice
<1>5. CASE replica \notin {0, 1, 2, 3}
  BY <1>2, <1>5, SMT DEF Choice
<1> QED
  BY <1>3, <1>4, <1>5, SMT

\* A bid is received.
LEMMA ReceiveBidQuiet ==
    ASSUME Inv, DeliverInv(db, jobCh, worker, closed), NEW w \in Workers, NEW b \in Bidders,
           ReceiveBid(w, b)
    PROVE  DeliverInv(db', jobCh', worker', closed')
<1> DEFINE s == worker[w]
           t == [s EXCEPT !.bid = [s.bid EXCEPT ![b] = "noted"]]
<1>1. BiddingInv(s) /\ s.step = "bidding" /\ WorkersInv
  BY StepOf DEF Inv, WorkersInv, ReceiveBid
<1>2. worker' = [worker EXCEPT ![w] = t] /\ UNCHANGED <<db, jobCh, closed>>
  BY DEF ReceiveBid
<1>3. t.step = "bidding" /\ t.job = s.job /\ t.bid = [s.bid EXCEPT ![b] = "noted"]
  BY <1>1 DEF BiddingInv
<1> HIDE DEF t
<1>4. \A x \in Bidders : t.bid[x] = "added" => s.bid[x] = "added"
  BY <1>1, <1>3 DEF BiddingInv
<1>5. s # Idle /\ s.step # "publishing" /\ t # Idle /\ t.step # "publishing"
  BY <1>1, <1>3, StepNames, SMT
<1>6. WorkerBids(db, t)
  BY <1>1, <1>3, <1>4, <1>5, RunHasRow, BiddingBids
<1> QED
  BY <1>1, <1>2, <1>3, <1>5, <1>6, QuietUnwritten

\* The auction ends: the candidates are among the bids that were added.
LEMMA EndBiddingQuiet ==
    ASSUME Inv, DeliverInv(db, jobCh, worker, closed), NEW w \in Workers, EndBidding(w)
    PROVE  DeliverInv(db', jobCh', worker', closed')
<1> DEFINE s == worker[w]
           bids == {b \in Bidders : s.bid[b] = "added"}
<1>1. s.step = "bidding" /\ WorkersInv /\ UNCHANGED <<db, jobCh, closed>>
  BY DEF Inv, EndBidding
<1>2. PICK rates \in ProviderRates :
         LET cands == Candidates(s.job.asked, bids, rates)
             topN == Max({MinTopN, Cardinality(cands) \div 5})
         IN  worker' = [worker EXCEPT ![w] =
                [step |-> "selecting", job |-> s.job, bid |-> Late(w),
                 choice |-> Choice(cands, topN, {}, 0, rates)]]
  BY DEF EndBidding
<1> DEFINE cands == Candidates(s.job.asked, bids, rates)
           choice == Choice(cands, Max({MinTopN, Cardinality(cands) \div 5}), {}, 0, rates)
           t == [step |-> "selecting", job |-> s.job, bid |-> Late(w), choice |-> choice]
<1>3. cands \subseteq bids
  BY DEF Candidates
<1>4. choice.it.cands = cands /\ choice.winners = {}
  <2>1. Chooses(choice, cands, {})
    BY Zenon, ChoiceCands
  <2> HIDE DEF choice
  <2> QED
    BY Zenon, <2>1 DEF Chooses
<1>5. worker' = [worker EXCEPT ![w] = t]
  BY <1>2
<1> HIDE DEF choice
<1>6. t.step = "selecting" /\ t.job = s.job /\ t.choice = choice
  BY SMT
<1> HIDE DEF t
<1>7. s # Idle /\ s.step # "publishing" /\ t # Idle /\ t.step # "publishing"
  BY <1>1, <1>6, StepNames, SMT
<1>8. \A b \in bids : BidSaved(db, s.job.id, b)
  BY <1>1, <1>7, RunHasRow, BiddingBids
<1> HIDE DEF bids, cands
<1>9. WorkerBids(db, t)
  BY <1>3, <1>4, <1>6, <1>8, SelectingBids
<1> QED
  BY <1>1, <1>5, <1>6, <1>7, <1>9, QuietUnwritten

\* The choice goes on, among the same.
LEMMA ChoiceQuiet ==
    ASSUME Inv, DeliverInv(db, jobCh, worker, closed), NEW w \in Workers,
           worker[w].step = "selecting", NEW n,
           worker' = [worker EXCEPT ![w] = [worker[w] EXCEPT !.choice = n]],
           n.it.cands \union n.winners
               \subseteq worker[w].choice.it.cands \union worker[w].choice.winners,
           UNCHANGED <<db, jobCh, closed>>
    PROVE  DeliverInv(db', jobCh', worker', closed')
<1> DEFINE s == worker[w]
           t == [s EXCEPT !.choice = n]
<1>1. SelectingInv(s) /\ WorkersInv
  BY StepOf DEF Inv, WorkersInv
<1>2. t.step = "selecting" /\ t.job = s.job /\ t.choice = n
  BY <1>1 DEF SelectingInv
<1>3. worker' = [worker EXCEPT ![w] = t]
  BY SMT
<1> HIDE DEF t
<1>4. s # Idle /\ s.step # "publishing" /\ t # Idle /\ t.step # "publishing"
  BY <1>2, StepNames, SMT
<1>5. WorkerBids(db, t)
  BY <1>2, <1>4, RunHasRow, SelectingBids
<1> QED
  BY <1>1, <1>2, <1>3, <1>4, <1>5, QuietUnwritten

\* A candidate is asked.
LEMMA SelectOneWinnerQuiet ==
    ASSUME Inv, DeliverInv(db, jobCh, worker, closed), NEW w \in Workers, NEW b, NEW answer,
           SelectOneWinner(w, b, answer)
    PROVE  DeliverInv(db', jobCh', worker', closed')
<1> DEFINE s == worker[w]
           c == s.choice
           it == After(c.it, b)
<1>1. /\ SelectingInv(s) /\ b \in NextOf(c.it) /\ s.step = "selecting"
      /\ UNCHANGED <<db, jobCh, closed>>
  BY StepOf DEF Inv, WorkersInv, SelectOneWinner
<1>2. ChoiceInv(s.job.id, c)
  BY <1>1 DEF SelectingInv
<1>3. b \in c.it.cands /\ it.cands = c.it.cands \ {b}
  <2>1. c.it = [cands |-> c.it.cands, rates |-> c.it.rates, left |-> c.it.left]
    BY Zenon, <1>2, ChoiceShape
  <2> QED
    BY <1>1, <2>1 DEF NextOf, TopN, After
<1>4. PICK rates \in ProviderRates : worker' = [worker EXCEPT ![w] = [s EXCEPT !.choice =
         IF answer = "accepted"
         THEN Choice(it.cands, c.topN, c.winners \union {b}, c.replica + 1, rates)
         ELSE [c EXCEPT !.it = it]]]
  BY DEF SelectOneWinner
<1>5. [c EXCEPT !.it = it].it = it /\ [c EXCEPT !.it = it].winners = c.winners
  <2> HIDE DEF it
  <2> QED
    BY <1>2, SMT DEF ChoiceInv
<1> HIDE DEF it
<1>6. CASE answer = "accepted"
  <2> DEFINE n == Choice(it.cands, c.topN, c.winners \union {b}, c.replica + 1, rates)
  <2>1. n.it.cands = it.cands /\ n.winners = c.winners \union {b}
    <3>1. Chooses(n, it.cands, c.winners \union {b})
      BY Zenon, ChoiceCands
    <3> HIDE DEF n
    <3> QED
      BY Zenon, <3>1 DEF Chooses
  <2>2. worker' = [worker EXCEPT ![w] = [s EXCEPT !.choice = n]]
    BY <1>4, <1>6
  <2> HIDE DEF n
  <2>3. n.it.cands \union n.winners \subseteq c.it.cands \union c.winners
    BY <1>3, <2>1
  <2> QED
    BY <1>1, <2>2, <2>3, ChoiceQuiet
<1>7. CASE answer # "accepted"
  <2> DEFINE n == [c EXCEPT !.it = it]
  <2>1. worker' = [worker EXCEPT ![w] = [s EXCEPT !.choice = n]]
    BY <1>4, <1>7
  <2>2. n.it.cands \union n.winners \subseteq c.it.cands \union c.winners
    BY <1>3, <1>5
  <2> HIDE DEF n
  <2> QED
    BY <1>1, <2>1, <2>2, ChoiceQuiet
<1> QED
  BY <1>6, <1>7

\* Nobody takes a replica.
LEMMA NextReplicaQuiet ==
    ASSUME Inv, DeliverInv(db, jobCh, worker, closed), NEW w \in Workers, NextReplica(w)
    PROVE  DeliverInv(db', jobCh', worker', closed')
<1> DEFINE s == worker[w]
           c == s.choice
<1>1. s.step = "selecting" /\ UNCHANGED <<db, jobCh, closed>>
  BY DEF NextReplica
<1>2. PICK rates \in ProviderRates : worker' = [worker EXCEPT ![w] = [s EXCEPT !.choice =
         Choice(c.it.cands, c.topN, c.winners, c.replica + 1, rates)]]
  BY DEF NextReplica
<1> DEFINE n == Choice(c.it.cands, c.topN, c.winners, c.replica + 1, rates)
<1>3. n.it.cands = c.it.cands /\ n.winners = c.winners
  <2>1. Chooses(n, c.it.cands, c.winners)
    BY Zenon, ChoiceCands
  <2> HIDE DEF n
  <2> QED
    BY Zenon, <2>1 DEF Chooses
<1>4. worker' = [worker EXCEPT ![w] = [s EXCEPT !.choice = n]]
  BY <1>2
<1> HIDE DEF n
<1>5. n.it.cands \union n.winners \subseteq c.it.cands \union c.winners
  BY <1>3
<1> QED
  BY <1>1, <1>4, <1>5, ChoiceQuiet

\* The choice ends: the winners are among the candidates.
LEMMA EndSelectionQuiet ==
    ASSUME Inv, DeliverInv(db, jobCh, worker, closed), NEW w \in Workers, EndSelection(w)
    PROVE  DeliverInv(db', jobCh', worker', closed')
<1> DEFINE s == worker[w]
           winners == IF Enough(w) THEN s.choice.winners ELSE {}
           st == IF winners = {} THEN "finalizing" ELSE "saving"
           t == [step |-> st, job |-> s.job, ok |-> Enough(w), winners |-> winners]
<1>1. s.step = "selecting" /\ WorkersInv /\ UNCHANGED <<db, jobCh, closed>>
  BY DEF Inv, EndSelection
<1>2. worker' = [worker EXCEPT ![w] = t]
  BY DEF EndSelection, Processed
<1>3. winners \subseteq s.choice.winners
  OBVIOUS
<1> HIDE DEF winners
<1>4. /\ (st = "finalizing" /\ winners = {}) \/ st = "saving"
      /\ st \in {"bidding", "selecting", "saving", "finalizing"}
  OBVIOUS
<1> HIDE DEF st
<1>5. t.step = st /\ t.job = s.job /\ t.winners = winners
  BY SMT
<1> HIDE DEF t
<1>6. s # Idle /\ s.step # "publishing" /\ t # Idle /\ t.step # "publishing"
  BY <1>1, <1>4, <1>5, StepNames, SMT
<1>7. \A b \in winners : BidSaved(db, s.job.id, b)
  BY <1>1, <1>3, <1>6, RunHasRow, SelectingBids
<1>8. WorkerBids(db, t)
  BY <1>4, <1>5, <1>7, EndingBids
<1> QED
  BY <1>1, <1>2, <1>5, <1>6, <1>8, QuietUnwritten

\* A bid is saved: no other bid of the auction, and no other auction, is touched.
LEMMA AddBidQuiet ==
    ASSUME Inv, DeliverInv(db, jobCh, worker, closed), NEW w \in Workers, NEW b \in Bidders,
           AddBid(w, b)
    PROVE  DeliverInv(db', jobCh', worker', closed')
<1> DEFINE s == worker[w]
           a == s.job.id
           v == IF s.step = "selecting" THEN "none"
                ELSE IF MayCreateBid(db, <<a, b>>) THEN "added" ELSE "refused"
           t == [s EXCEPT !.bid = [s.bid EXCEPT ![b] = v]]
<1>1. /\ s.step \in {"bidding", "selecting"} /\ UNCHANGED <<jobCh, closed>>
      /\ worker' = [worker EXCEPT ![w] = t] /\ WorkersInv
  BY DEF AddBid, Inv
<1> HIDE DEF v
<1>2. /\ t.step = s.step /\ t.job = s.job
      /\ s.step = "bidding" => t.bid = [s.bid EXCEPT ![b] = v] /\ BiddingInv(s)
      /\ s.step = "selecting" => t.choice = s.choice
  <2>1. CASE s.step = "bidding"
    <3>1. BiddingInv(s)
      BY <2>1, StepOf DEF Inv, WorkersInv
    <3> QED
      BY <2>1, <3>1, SMT DEF BiddingInv
  <2>2. CASE s.step = "selecting"
    <3>1. SelectingInv(s)
      BY <2>2, StepOf DEF Inv, WorkersInv
    <3> QED
      BY <2>2, <3>1, SMT DEF SelectingInv
  <2> QED
    BY <1>1, <2>1, <2>2, SMT
<1> HIDE DEF t
<1>3. s # Idle /\ s.step # "publishing" /\ t # Idle /\ t.step # "publishing"
  BY <1>1, <1>2, StepNames, SMT
<1>4. a \in DOMAIN db.auctions /\ WorkerBids(db, s)
  BY <1>3, RunHasRow
<1>5. db' = CreateBid(db, <<a, b>>, BidColumns(<<a, b>>))
  BY <1>4, SMT DEF AddBid, MayCreateBid
<1>6. db'.auctions = db.auctions /\ db'.bids = Insert(db.bids, <<a, b>>, BidColumns(<<a, b>>))
  BY <1>5, CreateBidTables DEF Inv
<1>7. /\ BidSaved(db', a, b)
      /\ \A x, y : BidSaved(db, x, y) => BidSaved(db', x, y)
  BY <1>6 DEF BidSaved, Insert
<1>8. \A x, y : x # a /\ BidWon(db, x, y) => BidWon(db', x, y)
  <2>1. \A x, y : x # a => <<x, y>> # <<a, b>>
    BY SMT
  <2>2. \A bid \in DOMAIN db.bids : bid # <<a, b>> => db'.bids[bid] = db.bids[bid]
    BY <1>6 DEF Insert
  <2> QED
    BY <1>7, <2>1, <2>2 DEF BidWon, BidSaved
<1>9. OthersStay(db, db', t.job.id)
  BY <1>2, <1>4, <1>6, <1>7, <1>8 DEF OthersStay
<1>10. WorkerBids(db', t)
  <2>1. CASE s.step = "bidding"
    <3>1. \A x \in Bidders : t.bid[x] = "added" => x = b \/ s.bid[x] = "added"
      BY <1>2, <2>1 DEF BiddingInv
    <3> QED
      BY <1>2, <1>4, <1>7, <2>1, <3>1, BiddingBids
  <2>2. CASE s.step = "selecting"
    <3>1. \A x \in s.choice.it.cands \union s.choice.winners : BidSaved(db, a, x)
      BY <1>4, <2>2, SelectingBids
    <3>2. \A x \in t.choice.it.cands \union t.choice.winners : BidSaved(db', t.job.id, x)
      BY <1>2, <1>7, <2>2, <3>1
    <3> QED
      BY <1>2, <2>2, <3>2, SelectingBids
  <2> QED
    BY <1>1, <2>1, <2>2
<1> QED
  BY <1>1, <1>2, <1>3, <1>6, <1>9, <1>10, QuietGoesOn

\* The winning bids are marked.
LEMMA UpdateWinningBidsQuiet ==
    ASSUME Inv, DeliverInv(db, jobCh, worker, closed), NEW w \in Workers,
           UpdateWinningBids(w), ~Fault
    PROVE  DeliverInv(db', jobCh', worker', closed')
<1> DEFINE s == worker[w]
           a == s.job.id
           bids == {<<a, b>> : b \in s.winners}
           t == [s EXCEPT !.step = "finalizing"]
<1>1. /\ s.step = "saving" /\ WorkersInv /\ UNCHANGED <<jobCh, closed>>
      /\ worker' = [worker EXCEPT ![w] = t] /\ db' = UpdateWinningBid(db, bids)
  BY DEF UpdateWinningBids, Inv
<1>2. t.step = "finalizing" /\ t.job = s.job /\ t.winners = s.winners
  <2>1. EndingInv(s)
    BY <1>1, StepOf DEF Inv, WorkersInv
  <2> QED
    BY <2>1, SMT DEF EndingInv
<1> HIDE DEF t
<1>3. s # Idle /\ s.step # "publishing" /\ t # Idle /\ t.step # "publishing"
  BY <1>1, <1>2, StepNames, SMT
<1>4. a \in DOMAIN db.auctions /\ \A b \in s.winners : BidSaved(db, a, b)
  BY <1>1, <1>3, RunHasRow, EndingBids
<1>5. \A b \in s.winners : <<a, b>> \in bids
  OBVIOUS
<1> HIDE DEF bids
<1>6. /\ db'.auctions = db.auctions /\ DOMAIN db'.bids = DOMAIN db.bids
      /\ \A bid \in DOMAIN db.bids : /\ bid \in bids => db'.bids[bid].won
                                     /\ db.bids[bid].won => db'.bids[bid].won
  BY <1>1, WonTables DEF Inv
<1>7. OthersStay(db, db', t.job.id)
  BY <1>2, <1>4, <1>6 DEF OthersStay, BidSaved, BidWon
<1>8. \A b \in s.winners : BidWon(db', a, b)
  BY <1>4, <1>5, <1>6 DEF BidSaved, BidWon
<1>9. WorkerBids(db', t)
  BY <1>2, <1>8, EndingBids
<1> QED
  BY <1>1, <1>2, <1>3, <1>6, <1>7, <1>9, QuietGoesOn

\* The others, when a worker is at the end of its auction or done with it: of the
\* auctions that are run each is run by the same, but for the one of the worker.
LEMMA OthersRun ==
    ASSUME RunOnce(jobCh, worker), WorkersInv, NEW w \in Workers, worker[w] # Idle,
           NEW t, t = Idle \/ t.job = worker[w].job, worker' = [worker EXCEPT ![w] = t]
    PROVE  /\ worker'[w] = t
           /\ \A v \in Workers : v # w => worker'[v] = worker[v]
           /\ \A v \in Workers : v # w /\ worker[v] # Idle => worker[v].job.id # worker[w].job.id
           /\ \A i \in DOMAIN jobCh : jobCh[i].id # worker[w].job.id
           /\ RunOnce(jobCh, worker')
           /\ \A x : x # worker[w].job.id /\ InWork(jobCh, worker, x) => InWork(jobCh, worker', x)
<1> DEFINE a == worker[w].job.id
<1>1. worker'[w] = t /\ \A v \in Workers : v # w => worker'[v] = worker[v]
  BY DEF WorkersInv
<1>2. \A v \in Workers : v # w /\ worker[v] # Idle => worker[v].job.id # a
  BY DEF RunOnce, Runs
<1>3. \A i \in DOMAIN jobCh : jobCh[i].id # a
  BY DEF RunOnce, Runs
<1>4. \A v \in Workers : \A x : Runs(worker'[v], x) => Runs(worker[v], x)
  BY <1>1 DEF Runs
<1>5. RunOnce(jobCh, worker')
  <2>1. \A v, u \in Workers : worker'[u] # Idle /\ Runs(worker'[v], worker'[u].job.id) => v = u
    <3>1. \A u \in Workers : worker'[u] # Idle =>
                                worker[u] # Idle /\ worker'[u].job = worker[u].job
      BY <1>1
    <3> QED
      BY <1>4, <3>1 DEF RunOnce
  <2> QED
    BY <1>4, <2>1 DEF RunOnce
<1>6. \A x : x # a /\ InWork(jobCh, worker, x) => InWork(jobCh, worker', x)
  <2>1. \A x : x # a => ~Runs(worker[w], x)
    BY DEF Runs
  <2> QED
    BY <1>1, <2>1 DEF InWork
<1> QED
  BY <1>1, <1>2, <1>3, <1>5, <1>6

\* The end of the auction is saved.
LEMMA SaveAndFinalizeAuctionQuiet ==
    ASSUME Inv, DeliverInv(db, jobCh, worker, closed), NEW w \in Workers,
           SaveAndFinalizeAuction(w)
    PROVE  DeliverInv(db', jobCh', worker', closed')
<1> DEFINE s == worker[w]
           a == s.job.id
           t == [s EXCEPT !.step = "publishing"]
           err == IF s.ok THEN "" ELSE "error"
<1>1. /\ s.step = "finalizing" /\ WorkersInv /\ UNCHANGED <<jobCh, closed>>
      /\ worker' = [worker EXCEPT ![w] = t]
      /\ db' = UpdateAuctionStatusAndError(db, a, "finalized", err)
  BY DEF SaveAndFinalizeAuction, Inv
<1> HIDE DEF err
<1>2. /\ EndingInv(s)
      /\ t.step = "publishing" /\ t.job = s.job /\ t.winners = s.winners /\ t.ok = s.ok
  <2>1. EndingInv(s)
    BY <1>1, StepOf DEF Inv, WorkersInv
  <2> QED
    BY <2>1, SMT DEF EndingInv
<1> HIDE DEF t
<1>3. s # Idle
  BY <1>1, StepNames, SMT
<1>4. /\ a \in DOMAIN db.auctions /\ \A b \in s.winners : BidWon(db, a, b)
      /\ StatusOf(db, a) = "started"
  <2>1. StatusOf(db, a) = "started"
    BY <1>1, <1>3, SMT DEF DeliverInv, StatusFits
  <2> QED
    BY <1>1, <1>3, <2>1, RunHasRow, EndingBids
<1>5. StatusSaved(db, db', a, "finalized", err)
  BY <1>1, StatusTables DEF Inv
<1>6. /\ db'.bids = db.bids /\ RowSet(db.auctions, db'.auctions, a, db'.auctions[a])
      /\ db'.auctions[a].status = "finalized" /\ db'.auctions[a].error = err
  BY <1>4, <1>5 DEF StatusSaved
<1>7. OthersStay(db, db', a)
  BY <1>4, <1>6 DEF OthersStay, RowSet, BidSaved, BidWon
<1>8. /\ worker'[w] = t /\ RunOnce(jobCh, worker')
      /\ \A v \in Workers : v # w => worker'[v] = worker[v]
      /\ \A v \in Workers : v # w /\ worker[v] # Idle => worker[v].job.id # a
      /\ \A i \in DOMAIN jobCh : jobCh[i].id # a
      /\ \A x : x # a /\ InWork(jobCh, worker, x) => InWork(jobCh, worker', x)
  <2>1. RunOnce(jobCh, worker)
    BY DEF DeliverInv
  <2> QED
    BY <1>1, <1>2, <1>3, <2>1, OthersRun
<1>9. /\ \A x : x # a => StatusOf(db', x) = StatusOf(db, x)
      /\ \A v \in Workers : worker[v] # Idle /\ worker[v].job.id # a => WorkerBids(db', worker[v])
      /\ ClosedBids(db', closed)
  <2>1. StatusOf(db, a) # "finalized"
    BY <1>4, SMT
  <2> HIDE DEF a
  <2>2. \A x : x # a => StatusOf(db', x) = StatusOf(db, x)
    BY <1>7 DEF StatusOf, OthersStay
  <2>3. \A v \in Workers : worker[v] # Idle /\ worker[v].job.id # a => WorkerBids(db', worker[v])
    BY <1>7, OthersDeliver
  <2>4. ClosedBids(db', closed)
    BY <1>7, <2>1, OthersDeliver
  <2> QED
    BY <2>2, <2>3, <2>4
<1>10. StatusOf(db', a) = "finalized"
  BY <1>4, <1>6 DEF StatusOf, RowSet
<1>11. StatusFits(db', jobCh, worker', closed)
  <2>1. \A i \in DOMAIN jobCh : StatusOf(db', jobCh[i].id) = "started"
    BY <1>8, <1>9 DEF DeliverInv, StatusFits
  <2>2. ASSUME NEW v \in Workers, worker'[v] # Idle
        PROVE  /\ worker'[v].step # "publishing" =>
                     StatusOf(db', worker'[v].job.id) = "started"
               /\ worker'[v].step = "publishing" =>
                     StatusOf(db', worker'[v].job.id) = "finalized"
    <3>1. CASE v = w
      BY <1>2, <1>8, <1>10, <3>1
    <3>2. CASE v # w
      <4>1. worker'[v] = worker[v] /\ StatusOf(db', worker[v].job.id) = StatusOf(db, worker[v].job.id)
        BY <1>8, <1>9, <2>2, <3>2
      <4> QED
        BY <2>2, <4>1 DEF DeliverInv, StatusFits
    <3> QED
      BY <3>1, <3>2
  <2>3. StartedInWork(db', jobCh, worker')
    <3> SUFFICES ASSUME NEW x \in DOMAIN db'.auctions, db'.auctions[x].status = "started"
                 PROVE  InWork(jobCh, worker', x) /\ ~db'.auctions[x].old
      BY DEF StartedInWork
    <3>1. x # a
      BY <1>6, SMT
    <3>2. x \in DOMAIN db.auctions /\ db'.auctions[x] = db.auctions[x]
      BY <1>6, <3>1 DEF RowSet
    <3>3. InWork(jobCh, worker, x) /\ ~db.auctions[x].old
      BY <3>2 DEF DeliverInv, StatusFits, StartedInWork
    <3> QED
      BY <1>8, <3>1, <3>2, <3>3
  <2>4. \A x \in Auctions : closed[x] # <<>> => StatusOf(db', x) = "finalized"
    BY <1>9, <1>10 DEF DeliverInv, StatusFits
  <2> QED
    BY <2>1, <2>2, <2>3, <2>4 DEF StatusFits
<1>12. \A v \in Workers : WorkerBids(db', worker'[v])
  <2>1. WorkerBids(db', t)
    <3>1. s.winners # {} => err = ""
      BY <1>2 DEF EndingInv, Outcome, err
    <3>2. \A b \in s.winners : BidWon(db', a, b)
      BY <1>4, <1>6 DEF BidWon, BidSaved
    <3> QED
      BY <1>2, <1>6, <3>1, <3>2, EndingBids
  <2>2. ASSUME NEW v \in Workers, v # w PROVE WorkerBids(db', worker'[v])
    <3>1. worker'[v] = worker[v] /\ (worker[v] # Idle => worker[v].job.id # a)
      BY <1>8, <2>2
    <3> QED
      BY <1>9, <3>1, IdleBids
  <2> QED
    BY <1>8, <2>1, <2>2
<1> QED
  BY <1>1, <1>8, <1>9, <1>11, <1>12 DEF DeliverInv

\* What is in a sequence with one more at its end.
LEMMA Appended ==
    ASSUME NEW S, NEW q \in Seq(S), NEW e
    PROVE  \A i \in DOMAIN Append(q, e) : \/ i \in DOMAIN q /\ Append(q, e)[i] = q[i]
                                          \/ Append(q, e)[i] = e
<1>1. q \in Seq(S \union {e})
  BY SMT
<1> QED
  BY <1>1, SMT

\* The end of the auction is announced.
LEMMA FinalizeAuctionQuiet ==
    ASSUME Inv, DeliverInv(db, jobCh, worker, closed), NEW w \in Workers,
           FinalizeAuction(w), ~Fault
    PROVE  DeliverInv(db', jobCh', worker', closed')
<1> DEFINE s == worker[w]
           a == s.job.id
           m == ToClosedAuction(w)
<1>1. /\ s.step = "publishing" /\ WorkersInv /\ UNCHANGED <<db, jobCh>>
      /\ closed' = [closed EXCEPT ![a] = Append(closed[a], m)]
      /\ worker' = [worker EXCEPT ![w] = Idle]
  BY DEF FinalizeAuction, EndJob, Inv
<1>2. DOMAIN m.winners = s.winners
  BY SMT DEF ToClosedAuction
<1> HIDE DEF m
<1>3. s # Idle
  BY <1>1, SMT DEF Idle
<1>4. EndingInv(s) /\ a \in Auctions
  BY <1>1, StepOf, JobIsAuction DEF Inv, WorkersInv, EndingInv
<1>5. /\ StatusOf(db, a) = "finalized"
      /\ \A b \in s.winners : BidWon(db, a, b) /\ db.auctions[a].error = ""
  <2>1. StatusOf(db, a) = "finalized"
    BY <1>1, <1>3 DEF DeliverInv, StatusFits
  <2>2. /\ \A b \in s.winners : BidWon(db, a, b)
        /\ s.winners # {} => db.auctions[a].error = ""
    BY <1>1, <1>3, RunHasRow, EndingBids
  <2> QED
    BY <2>1, <2>2
<1>6. /\ worker'[w] = Idle /\ RunOnce(jobCh, worker')
      /\ \A v \in Workers : v # w => worker'[v] = worker[v]
      /\ \A x : x # a /\ InWork(jobCh, worker, x) => InWork(jobCh, worker', x)
  <2>1. RunOnce(jobCh, worker)
    BY DEF DeliverInv
  <2> QED
    BY <1>1, <1>3, <2>1, OthersRun
<1>7. closed = [x \in Auctions |-> closed[x]] /\ closed[a] \in Seq(Messages(a))
  BY <1>4 DEF Inv, ClosedInv
<1>8. /\ \A x \in Auctions : x # a => closed'[x] = closed[x]
      /\ closed'[a] = Append(closed[a], m)
  BY <1>1, <1>4, <1>7
<1>9. \A i \in DOMAIN closed'[a] : \/ i \in DOMAIN closed[a] /\ closed'[a][i] = closed[a][i]
                                   \/ closed'[a][i] = m
  <2> DEFINE q == closed[a]
  <2>1. q \in Seq(Messages(a))
    BY <1>7
  <2> HIDE DEF q
  <2>2. \A i \in DOMAIN Append(q, m) : \/ i \in DOMAIN q /\ Append(q, m)[i] = q[i]
                                       \/ Append(q, m)[i] = m
    BY <2>1, Appended
  <2> QED
    BY <1>8, <2>2 DEF q
<1>10. ClosedBids(db, closed')
  <2> SUFFICES ASSUME NEW x \in Auctions, NEW i \in DOMAIN closed'[x],
                      NEW b \in DOMAIN closed'[x][i].winners
               PROVE  BidWon(db, x, b) /\ db.auctions[x].error = ""
    BY DEF ClosedBids
  <2>1. CASE x = a /\ closed'[a][i] = m
    BY <1>2, <1>5, <2>1
  <2>2. CASE i \in DOMAIN closed[x] /\ closed'[x][i] = closed[x][i]
    BY <2>2 DEF DeliverInv, ClosedBids
  <2> QED
    BY <1>8, <1>9, <2>1, <2>2
<1>11. StatusFits(db, jobCh, worker', closed')
  <2>1. StartedInWork(db, jobCh, worker')
    <3> SUFFICES ASSUME NEW x \in DOMAIN db.auctions, db.auctions[x].status = "started"
                 PROVE  InWork(jobCh, worker', x) /\ ~db.auctions[x].old
      BY DEF StartedInWork
    <3>1. x # a
      BY <1>5 DEF StatusOf
    <3> QED
      BY <1>6, <3>1 DEF DeliverInv, StatusFits, StartedInWork
  <2>2. ASSUME NEW v \in Workers, worker'[v] # Idle
        PROVE  worker'[v] = worker[v]
    BY <1>6, <2>2
  <2>3. /\ \A v \in Workers : worker'[v] # Idle /\ worker'[v].step # "publishing" =>
              StatusOf(db, worker'[v].job.id) = "started"
        /\ \A v \in Workers : worker'[v] # Idle /\ worker'[v].step = "publishing" =>
              StatusOf(db, worker'[v].job.id) = "finalized"
    BY <2>2 DEF DeliverInv, StatusFits
  <2>4. \A x \in Auctions : closed'[x] # <<>> => StatusOf(db, x) = "finalized"
    BY <1>5, <1>8 DEF DeliverInv, StatusFits
  <2>5. \A i \in DOMAIN jobCh : StatusOf(db, jobCh[i].id) = "started"
    BY DEF DeliverInv, StatusFits
  <2> QED
    BY <2>1, <2>3, <2>4, <2>5 DEF StatusFits
<1>12. \A v \in Workers : WorkerBids(db, worker'[v])
  <2>1. \A v \in Workers : WorkerBids(db, worker[v])
    BY DEF DeliverInv
  <2> QED
    BY <1>6, <2>1, IdleBids
<1> QED
  BY <1>1, <1>6, <1>10, <1>11, <1>12 DEF DeliverInv

\* A worker takes an auction from the channel.
LEMMA TakeJobQuiet ==
    ASSUME Inv, DeliverInv(db, jobCh, worker, closed), NEW w \in Workers, TakeJob(w)
    PROVE  DeliverInv(db', jobCh', worker', closed')
<1> DEFINE a == jobCh[1].id
           t == [step |-> "bidding", job |-> Head(jobCh), bid |-> [b \in Bidders |-> "none"]]
<1>1. /\ worker[w] = Idle /\ jobCh # <<>> /\ WorkersInv /\ UNCHANGED <<db, closed>>
      /\ jobCh' = Tail(jobCh) /\ worker' = [worker EXCEPT ![w] = t] /\ jobCh \in Seq(Jobs)
  BY DEF TakeJob, Inv
<1>0. 1 \in DOMAIN jobCh /\ Head(jobCh) = jobCh[1]
  BY <1>1, SMT
<1>2. /\ \A i \in DOMAIN jobCh' : \E k \in DOMAIN jobCh : k # 1 /\ jobCh'[i] = jobCh[k]
      /\ \A k \in DOMAIN jobCh : k # 1 => \E i \in DOMAIN jobCh' : jobCh'[i] = jobCh[k]
  <2>1. \A i \in DOMAIN jobCh' : i + 1 \in DOMAIN jobCh /\ i + 1 # 1 /\ jobCh'[i] = jobCh[i + 1]
    BY <1>1, SMT
  <2>2. \A k \in DOMAIN jobCh : k # 1 => k - 1 \in DOMAIN jobCh' /\ jobCh'[k - 1] = jobCh[k]
    BY <1>1, SMT
  <2> QED
    BY <2>1, <2>2
<1>3. /\ t.step = "bidding" /\ t.job = jobCh[1] /\ \A b \in Bidders : t.bid[b] # "added"
  BY <1>0, SMT
<1> HIDE DEF t
<1>4. t # Idle /\ t.step # "publishing"
  BY <1>3, StepNames, SMT
<1>5. worker'[w] = t /\ \A v \in Workers : v # w => worker'[v] = worker[v]
  BY <1>1 DEF WorkersInv
<1>6. /\ \A i \in DOMAIN jobCh' : jobCh'[i].id # a
      /\ \A v \in Workers : worker[v] # Idle => worker[v].job.id # a
      /\ StatusOf(db, a) = "started"
  <2>1. \A i \in DOMAIN jobCh : i # 1 => jobCh[i].id # a
    BY <1>0 DEF DeliverInv, RunOnce
  <2>2. \A v \in Workers : worker[v] # Idle => worker[v].job.id # a
    BY <1>0 DEF DeliverInv, RunOnce, Runs
  <2>3. StatusOf(db, a) = "started"
    BY <1>0 DEF DeliverInv, StatusFits
  <2>4. ASSUME NEW i \in DOMAIN jobCh' PROVE jobCh'[i].id # a
    <3>1. PICK k \in DOMAIN jobCh : k # 1 /\ jobCh'[i] = jobCh[k]
      BY <1>2, <2>4
    <3> QED
      BY <2>1, <3>1
  <2> QED
    BY <2>2, <2>3, <2>4
<1>7. RunOnce(jobCh', worker')
  <2>1. \A i, j \in DOMAIN jobCh' : jobCh'[i].id = jobCh'[j].id => i = j
    <3>1. \A i, j \in DOMAIN jobCh : jobCh[i].id = jobCh[j].id => i = j
      BY DEF DeliverInv, RunOnce
    <3> QED
      BY <1>1, <3>1, SMT
  <2>2. \A v \in Workers : \A i \in DOMAIN jobCh' : ~Runs(worker'[v], jobCh'[i].id)
    <3> TAKE v \in Workers
    <3> TAKE i \in DOMAIN jobCh'
    <3>1. CASE v = w
      BY <1>3, <1>5, <1>6, <3>1 DEF Runs
    <3>2. CASE v # w
      BY <1>2, <1>5, <3>2 DEF DeliverInv, RunOnce
    <3> QED
      BY <3>1, <3>2
  <2>3. ASSUME NEW u \in Workers, NEW v \in Workers, worker'[v] # Idle,
               Runs(worker'[u], worker'[v].job.id)
        PROVE  u = v
    <3>1. CASE u = w /\ v # w
      BY <1>3, <1>5, <1>6, <2>3, <3>1 DEF Runs
    <3>2. CASE u # w /\ v = w
      BY <1>3, <1>5, <1>6, <2>3, <3>2 DEF Runs
    <3>3. CASE u # w /\ v # w
      BY <1>5, <2>3, <3>3 DEF DeliverInv, RunOnce
    <3> QED
      BY <3>1, <3>2, <3>3
  <2> QED
    BY <2>1, <2>2, <2>3 DEF RunOnce
<1>8. StatusFits(db, jobCh', worker', closed)
  <2>1. ASSUME NEW i \in DOMAIN jobCh' PROVE StatusOf(db, jobCh'[i].id) = "started"
    <3>1. PICK k \in DOMAIN jobCh : jobCh'[i] = jobCh[k]
      BY <1>2, <2>1
    <3> QED
      BY <3>1 DEF DeliverInv, StatusFits
  <2>2. /\ \A v \in Workers : worker'[v] # Idle /\ worker'[v].step # "publishing" =>
              StatusOf(db, worker'[v].job.id) = "started"
        /\ \A v \in Workers : worker'[v] # Idle /\ worker'[v].step = "publishing" =>
              StatusOf(db, worker'[v].job.id) = "finalized"
    <3>1. ASSUME NEW v \in Workers, v # w
          PROVE  worker'[v] = worker[v]
      BY <1>5, <3>1
    <3>2. StatusOf(db, worker'[w].job.id) = "started" /\ worker'[w].step # "publishing"
      BY <1>3, <1>4, <1>5, <1>6
    <3> QED
      BY <3>1, <3>2, ZenonT(60) DEF DeliverInv, StatusFits
  <2>3. \A x : InWork(jobCh, worker, x) => InWork(jobCh', worker', x)
    <3> TAKE x
    <3>1. CASE x = a
      BY <1>3, <1>4, <1>5, <3>1 DEF InWork, Runs
    <3>2. ASSUME x # a, NEW i \in DOMAIN jobCh, jobCh[i].id = x PROVE InWork(jobCh', worker', x)
      BY <1>2, <3>2 DEF InWork
    <3>3. ASSUME NEW v \in Workers, Runs(worker[v], x) PROVE InWork(jobCh', worker', x)
      BY <1>1, <1>5, <3>3 DEF InWork, Runs
    <3> QED
      BY <3>1, <3>2, <3>3 DEF InWork
  <2>4. StartedInWork(db, jobCh', worker')
    BY <2>3 DEF DeliverInv, StatusFits, StartedInWork
  <2> QED
    BY <2>1, <2>2, <2>4 DEF DeliverInv, StatusFits
<1>9. \A v \in Workers : WorkerBids(db, worker'[v])
  <2>1. WorkerBids(db, t)
    BY <1>3, BiddingBids
  <2> QED
    BY <1>5, <2>1 DEF DeliverInv
<1> QED
  BY <1>1, <1>7, <1>8, <1>9 DEF DeliverInv

\* What an auction that was not started goes through in the queue.
LEMMA EnqueueRows ==
    ASSUME NEW d, NEW job, NEW old, Enqueue(d, job, old), Tables(d),
           job.id \in DOMAIN d.auctions, old # "started"
    PROVE  /\ db'.bids = d.bids
           /\ RowSet(d.auctions, db'.auctions, job.id, db'.auctions[job.id])
           /\ \/ /\ jobCh' = Append(jobCh, job) /\ db'.auctions[job.id].status = "started"
                 /\ ~db'.auctions[job.id].old
              \/ jobCh' = jobCh /\ db'.auctions[job.id].status = "queued"
<1> DEFINE a == job.id
           started == SaveAndTransitionStatus(d, a, old, "started")
           queued == SaveAndTransitionStatus(started, a, "started", "queued")
<1>1. started = UpdateAuctionStatusAndError(d, a, "started", "")
  BY DEF SaveAndTransitionStatus
<1>2. StatusSaved(d, started, a, "started", "")
  BY <1>1, StatusTables
<1>3. \/ jobCh' = Append(jobCh, job) /\ db' = started
      \/ jobCh' = jobCh /\ db' = queued
  BY DEF Enqueue
<1> HIDE DEF started
<1>4. queued = UpdateAuctionStatusAndError(started, a, "queued", "")
  BY SMT DEF SaveAndTransitionStatus
<1>5. Tables(started)
  BY <1>2 DEF StatusSaved
<1>6. StatusSaved(started, queued, a, "queued", "")
  BY <1>4, <1>5, StatusTables
<1> HIDE DEF queued, a
<1>7. a \in DOMAIN d.auctions
  BY DEF a
<1>8. /\ started.bids = d.bids /\ RowSet(d.auctions, started.auctions, a, started.auctions[a])
      /\ started.auctions[a].status = "started" /\ started.auctions[a].old = FALSE
  BY <1>2, <1>7 DEF StatusSaved
<1>9. a \in DOMAIN started.auctions
  BY <1>7, <1>8 DEF RowSet
<1>10. /\ queued.bids = started.bids
       /\ RowSet(started.auctions, queued.auctions, a, queued.auctions[a])
       /\ queued.auctions[a].status = "queued"
  BY <1>6, <1>9 DEF StatusSaved
<1>11. RowSet(d.auctions, queued.auctions, a, queued.auctions[a])
  BY <1>8, <1>10 DEF RowSet
<1>12. CASE jobCh' = Append(jobCh, job) /\ db' = started
  BY <1>8, <1>12 DEF a
<1>13. CASE jobCh' = jobCh /\ db' = queued
  BY <1>8, <1>10, <1>11, <1>13 DEF a
<1> QED
  BY <1>3, <1>12, <1>13

\* An auction is asked for.
LEMMA OnReadyToAuctionQuiet ==
    ASSUME Inv, DeliverInv(db, jobCh, worker, closed), NEW a \in Auctions,
           OnReadyToAuction(a)
    PROVE  DeliverInv(db', jobCh', worker', closed')
<1> DEFINE cols == AuctionColumns(AuctionOf[a])
           d == CreateAuction(db, a, cols)
           A == Insert(db.auctions, a, cols)
           job == Job(a, AuctionOf[a])
<1>1. /\ Enqueue(d, job, "unspecified") /\ Status(a) = "none" /\ a \in ValidAuctions
      /\ UNCHANGED <<worker, closed>>
  BY DEF OnReadyToAuction, ValidAuctions
<1>2. job \in Jobs /\ job.id = a /\ jobCh \in Seq(Jobs)
  <2>1. job \in Jobs
    BY <1>1 DEF Jobs
  <2> QED
    BY <2>1, SMT DEF Job, Inv
<1>3. Tables(d) /\ a \in DOMAIN d.auctions
  BY <1>1, CreateTables DEF Inv
<1>4. /\ DOMAIN A = DOMAIN db.auctions \union {a}
      /\ \A x \in DOMAIN db.auctions : x # a => A[x] = db.auctions[x]
  BY DEF Insert
<1>5. d = [db EXCEPT !.auctions = A]
  BY DEF CreateAuction
<1> HIDE DEF A, d, cols, job
<1>6. d.auctions = A /\ d.bids = db.bids
  BY <1>5, SMT DEF Inv, Tables
<1>7. "unspecified" # "started"
  BY SMT
<1>8. /\ db'.bids = d.bids
      /\ RowSet(d.auctions, db'.auctions, job.id, db'.auctions[job.id])
      /\ \/ /\ jobCh' = Append(jobCh, job) /\ db'.auctions[job.id].status = "started"
            /\ ~db'.auctions[job.id].old
         \/ jobCh' = jobCh /\ db'.auctions[job.id].status = "queued"
  BY <1>1, <1>2, <1>3, <1>7, EnqueueRows
<1>9. OthersStay(db, db', a)
  BY <1>2, <1>4, <1>6, <1>8 DEF OthersStay, RowSet, BidSaved, BidWon
<1>10. StatusOf(db, a) \in {"none", "queued"}
  BY <1>1 DEF StatusOf, Status
<1> QED
  BY <1>1, <1>2, <1>8, <1>9, <1>10, QuietEnqueue

\* The queue looks for the next auction: it is one that waits.
LEMMA ProcessNextQuiet ==
    ASSUME Inv, DeliverInv(db, jobCh, worker, closed), ProcessNext
    PROVE  DeliverInv(db', jobCh', worker', closed')
<1>1. UNCHANGED <<worker, closed>>
  BY DEF ProcessNext
<1>2. CASE UNCHANGED <<db, jobCh>>
  BY <1>1, <1>2
<1>3. ASSUME NEW a \in GetNextReadyToExecute(db), AuctionReadable(db.auctions[a]),
             Enqueue(db, Job(a, AuctionFromDb(db.auctions[a])), Status(a))
      PROVE  DeliverInv(db', jobCh', worker', closed')
  <2> DEFINE job == Job(a, AuctionOf[a])
  <2>1. /\ a \in DOMAIN db.auctions
        /\ \/ db.auctions[a].status = "queued"
           \/ db.auctions[a].status = "started" /\ db.auctions[a].old
    BY <1>3 DEF GetNextReadyToExecute
  <2>2. a \in ValidAuctions /\ RowOf(a, db.auctions[a])
    BY <2>1 DEF Inv, Tables
  <2>3. Enqueue(db, job, Status(a))
    BY <1>3, <2>2, RowIsAuction
  <2>4. job \in Jobs /\ job.id = a /\ jobCh \in Seq(Jobs) /\ a \in Auctions
    <3>1. job \in Jobs /\ a \in Auctions
      BY <2>2 DEF Jobs, ValidAuctions
    <3> QED
      BY <3>1, SMT DEF Job, Inv
  <2> HIDE DEF job
  <2>5. StatusOf(db, a) = "queued" /\ Status(a) = "queued"
    <3>1. db.auctions[a].status = "queued"
      BY <2>1 DEF DeliverInv, StatusFits, StartedInWork
    <3> QED
      BY <2>1, <3>1 DEF StatusOf, Status
  <2>6. Status(a) # "started" /\ StatusOf(db, a) \in {"none", "queued"}
    BY <2>5
  <2>7. /\ db'.bids = db.bids
        /\ RowSet(db.auctions, db'.auctions, job.id, db'.auctions[job.id])
        /\ \/ /\ jobCh' = Append(jobCh, job) /\ db'.auctions[job.id].status = "started"
              /\ ~db'.auctions[job.id].old
           \/ jobCh' = jobCh /\ db'.auctions[job.id].status = "queued"
    <3>1. Tables(db) /\ job.id \in DOMAIN db.auctions
      BY <2>1, <2>4 DEF Inv
    <3> QED
      BY <2>3, <2>6, <3>1, EnqueueRows
  <2>8. OthersStay(db, db', a)
    BY <2>1, <2>4, <2>7 DEF OthersStay, RowSet, BidSaved, BidWon
  <2> QED
    BY <1>1, <2>4, <2>6, <2>7, <2>8, QuietEnqueue
<1> QED
  BY <1>2, <1>3 DEF ProcessNext

\* The counters only grow, by what the step is.
LEMMA CountersGrow ==
    ASSUME Next
    PROVE  \/ Restart /\ faults' = faults
           \/ restarts' = restarts /\ (Fault \/ faults' = faults)
<1>1. ASSUME NEW a \in Auctions,
             OnReadyToAuction(a) \/ CreateAuctionFails(a) \/ HourPasses(a)
      PROVE  restarts' = restarts /\ (Fault \/ faults' = faults)
  BY <1>1 DEF OnReadyToAuction, CreateAuctionFails, HourPasses, NoFault
<1>2. CASE ProcessNext \/ ProcessNextFails
  BY <1>2 DEF ProcessNext, ProcessNextFails, NoFault
<1>3. CASE Restart
  BY <1>3 DEF Restart
<1>4. ASSUME NEW w \in Workers, Work(w)
      PROVE  restarts' = restarts /\ (Fault \/ faults' = faults)
  <2>1. CASE SelectWinners(w)
    BY <2>1 DEF SelectWinners, SelectOneWinner, NextReplica, EndSelection
  <2>2. CASE TakeJob(w) \/ EndBidding(w)
    BY <2>2 DEF TakeJob, EndBidding
  <2>3. CASE UpdateWinningBids(w) \/ SaveAndFinalizeAuction(w) \/ FinalizeAuction(w)
    BY <2>3 DEF UpdateWinningBids, SaveAndFinalizeAuction, FinalizeAuction, NoFault
  <2> QED
    BY <1>4, <2>1, <2>2, <2>3 DEF Work
<1>5. ASSUME NEW w \in Workers,
             \/ PublishAuctionFails(w) \/ FinalizeFails(w)
             \/ \E b \in Bidders : ReceiveBid(w, b) \/ AddBid(w, b)
      PROVE  restarts' = restarts /\ (Fault \/ faults' = faults)
  BY <1>5 DEF PublishAuctionFails, FinalizeFails, ReceiveBid, AddBid
<1> QED
  BY <1>1, <1>2, <1>3, <1>4, <1>5 DEF Next

\* If nothing has failed after a step, the step is no failure and nothing had
\* failed before it.
LEMMA NothingFailed ==
    ASSUME Inv, Next, restarts' + faults' = 0
    PROVE  restarts + faults = 0 /\ ~Fault /\ ~Restart
<1>1. restarts \in Nat /\ faults \in Nat
  BY DEF Inv
<1>2. Fault => faults' = faults + 1
  BY DEF Fault
<1>3. Restart => restarts' = restarts + 1 /\ faults' = faults
  BY DEF Restart
<1>4. \/ Restart
      \/ restarts' = restarts /\ (Fault \/ faults' = faults)
  BY CountersGrow
<1>5. ~Restart
  BY <1>1, <1>3, SMT
<1>6. ~Fault
  BY <1>1, <1>2, <1>4, <1>5, SMT
<1> QED
  BY <1>4, <1>5, <1>6, SMT

\* Nothing is run at the start.
LEMMA QuietInit == Init => QuietInv
<1> SUFFICES ASSUME Init PROVE DeliverInv(db, jobCh, worker, closed)
  BY DEF QuietInv
<1>1. /\ DOMAIN db.auctions = {} /\ DOMAIN jobCh = {}
      /\ \A w \in Workers : worker[w] = Idle
      /\ \A a \in Auctions : closed[a] = <<>>
  BY SMT DEF Init, NoTables
<1>2. RunOnce(jobCh, worker)
  BY <1>1 DEF RunOnce
<1>3. StatusFits(db, jobCh, worker, closed)
  BY <1>1 DEF StatusFits, StartedInWork
<1>4. \A w \in Workers : WorkerBids(db, worker[w])
  BY <1>1, IdleBids
<1>5. ClosedBids(db, closed)
  <2>1. DOMAIN <<>> = {}
    BY SMT
  <2> QED
    BY <1>1, <2>1 DEF ClosedBids
<1> QED
  BY <1>2, <1>3, <1>4, <1>5 DEF DeliverInv

\* Every step that is no failure keeps it.
LEMMA QuietStep ==
    ASSUME Inv, Next, ~Fault, ~Restart, DeliverInv(db, jobCh, worker, closed)
    PROVE  DeliverInv(db', jobCh', worker', closed')
<1>1. ASSUME NEW a \in Auctions,
             OnReadyToAuction(a) \/ CreateAuctionFails(a) \/ HourPasses(a)
      PROVE  DeliverInv(db', jobCh', worker', closed')
  <2>1. ~CreateAuctionFails(a)
    BY DEF CreateAuctionFails
  <2>2. ~HourPasses(a)
    <3> SUFFICES ASSUME HourPasses(a) PROVE FALSE
      OBVIOUS
    <3>1. Status(a) = "started" /\ ~InProgress(a)
      BY DEF HourPasses
    <3>2. a \in DOMAIN db.auctions /\ db.auctions[a].status = "started"
      BY <3>1 DEF Status
    <3>3. InWork(jobCh, worker, a)
      BY <3>2 DEF DeliverInv, StatusFits, StartedInWork
    <3> QED
      BY <3>1, <3>3 DEF InWork, InProgress, Runs
  <2> QED
    BY <1>1, <2>1, <2>2, OnReadyToAuctionQuiet
<1>2. CASE ProcessNext \/ ProcessNextFails
  BY <1>2, ProcessNextQuiet DEF ProcessNextFails
<1>3. ASSUME NEW w \in Workers, Work(w)
      PROVE  DeliverInv(db', jobCh', worker', closed')
  <2>1. CASE SelectWinners(w)
    BY <2>1, SelectOneWinnerQuiet, NextReplicaQuiet, EndSelectionQuiet
       DEF SelectWinners
  <2>2. CASE TakeJob(w) \/ EndBidding(w)
    BY <2>2, TakeJobQuiet, EndBiddingQuiet
  <2>3. CASE UpdateWinningBids(w) \/ SaveAndFinalizeAuction(w) \/ FinalizeAuction(w)
    BY <2>3, UpdateWinningBidsQuiet, SaveAndFinalizeAuctionQuiet, FinalizeAuctionQuiet
  <2> QED
    BY <1>3, <2>1, <2>2, <2>3 DEF Work
<1>4. ASSUME NEW w \in Workers,
             \/ PublishAuctionFails(w) \/ FinalizeFails(w)
             \/ \E b \in Bidders : ReceiveBid(w, b) \/ AddBid(w, b)
      PROVE  DeliverInv(db', jobCh', worker', closed')
  BY <1>4, ReceiveBidQuiet, AddBidQuiet DEF PublishAuctionFails, FinalizeFails
<1> QED
  BY <1>1, <1>2, <1>3, <1>4 DEF Next

\* So every step keeps the second invariant.
LEMMA QuietNext == Inv /\ QuietInv /\ [Next]_vars => QuietInv'
<1> SUFFICES ASSUME Inv, QuietInv, [Next]_vars, restarts' + faults' = 0
             PROVE  DeliverInv(db', jobCh', worker', closed')
  BY DEF QuietInv
<1>1. CASE UNCHANGED vars
  BY <1>1 DEF vars, QuietInv
<1>2. CASE Next
  BY <1>2, NothingFailed, QuietStep DEF QuietInv
<1> QED
  BY <1>1, <1>2

\* The proposal of every winner that finalizeAuction announced can be delivered, if
\* nothing fails: GetFinalizedAuctionBid finds the bid, marked as won.
THEOREM WinnersAlwaysDeliverable == Spec => []WinnersDeliverable
<1>1. Spec => []QuietInv
  BY QuietInit, QuietNext, InvAlways, PTL DEF Spec
<1>2. QuietInv => WinnersDeliverable
  <2> SUFFICES ASSUME DeliverInv(db, jobCh, worker, closed), NEW a \in Auctions,
                      NEW i \in DOMAIN closed[a], NEW b \in DOMAIN closed[a][i].winners
               PROVE  \E bid \in {GetFinalizedAuctionBid(db, <<a, b>>)} :
                         bid # Absent /\ bid[1].won
    BY DEF QuietInv, WinnersDeliverable
  <2>1. BidWon(db, a, b) /\ db.auctions[a].error = ""
    BY DEF DeliverInv, ClosedBids
  <2>2. a \in DOMAIN db.auctions /\ db.auctions[a].status = "finalized"
    <3>1. closed[a] # <<>>
      BY SMT
    <3>2. StatusOf(db, a) = "finalized"
      BY <3>1 DEF DeliverInv, StatusFits
    <3> QED
      BY <3>2 DEF StatusOf
  <2> DEFINE read == GetAuction(db, a)
             row == BidFromDb(db.bids[<<a, b>>])
  <2>3. /\ read.status = db.auctions[a].status /\ read.error = db.auctions[a].error
        /\ read.bids = [bid \in GetAuctionBids(db, a) |-> BidFromDb(db.bids[bid])]
    BY SMT DEF GetAuction
  <2>4. <<a, b>> \in GetAuctionBids(db, a)
    <3>1. <<a, b>>[1] = a
      BY SMT
    <3> QED
      BY <2>1, <3>1 DEF GetAuctionBids, BidWon, BidSaved
  <2>5. <<a, b>> \in DOMAIN read.bids /\ read.bids[<<a, b>>] = row
    BY <2>3, <2>4
  <2>6. row.won = db.bids[<<a, b>>].won
    BY SMT DEF BidFromDb
  <2> HIDE DEF read, row
  <2>7. GetFinalizedAuctionBid(db, <<a, b>>) = Present(row)
    <3>1. <<a, b>>[1] = a
      BY SMT
    <3> QED
      BY <2>1, <2>2, <2>3, <2>5, <3>1 DEF GetFinalizedAuctionBid, read
  <2>8. Present(row) # Absent /\ Present(row)[1] = row
    BY SMT DEF Present, Absent
  <2> QED
    BY <2>1, <2>6, <2>7, <2>8 DEF BidWon
<1> QED
  BY <1>1, <1>2, PTL

================================================================================
