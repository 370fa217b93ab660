------------------------------- MODULE Auctioneer -------------------------------
(***************************************************************************)
(* auctioneerd: the persistent queue of auctions                           *)
(* (cmd/auctioneerd/auctioneer/queue), and what a worker does with an      *)
(* auction: collect bids, choose winners, close the auction                *)
(* (cmd/auctioneerd/auctioneer).                                           *)
(*                                                                         *)
(* An auction waits in the database ("queued") or has been handed to the   *)
(* workers ("started"), which get it over a channel.  Only the end of an   *)
(* auction, and a timer that fires once after the start of the process,    *)
(* make the queue look for auctions that wait.                             *)
(*                                                                         *)
(* What is abstracted: a bidder makes one bid in an auction and is its     *)
(* provider; whenever a worker looks at the rates of the providers they    *)
(* are either not read yet or the same.                                    *)
(***************************************************************************)
EXTENDS AuctionStore, BidsSorter, Sequences

CONSTANTS
    Auctions,
    Bidders,
    AuctionOf,      \* auction -> what ready-to-auction asks for
    BidOf,          \* bidder -> its bid
    RatesOf,        \* how bidders did lately: failures, wins, epochs to confirm
    CurrentEpoch,   \* currentFilEpoch()
    Workers,
    MinTopN,        \* the smallest number of top candidates drawn from (5)
    MaxAuctions,    \* bound: how many of the auctions are created
    MaxFaults       \* bound: restarts, failed writes, publishes and commits, and
                    \* auctions that take an hour

ASSUME AuctioneerAssumption ==
    /\ \A a \in Auctions : IsAuction(AuctionOf[a]) /\ AuctionOf[a].deadline \in Nat
    /\ IsFiniteSet(Bidders)
    /\ BidOf \in [Bidders -> [askPrice : Int, verifiedAskPrice : Int,
                              startEpoch : Nat, signed : BOOLEAN]]
    /\ \A rates \in {RatesOf.failure, RatesOf.winning, RatesOf.onChain} :
          \A b \in Bidders \intersect DOMAIN rates : rates[b] \in Nat
    /\ {CurrentEpoch, MinTopN, MaxAuctions, MaxFaults} \subseteq Nat
    /\ IsFiniteSet(Workers) /\ Workers # {}

VARIABLES
    db,          \* the tables
    jobCh,       \* the channel to the workers: auctions as they read them
    tickCh,      \* how many ticks are in the channel to the queue
    timer,       \* the StartDelay timer has not fired
    worker,      \* what each worker is doing
    closed,      \* the auction-closed messages of each auction
    restarts, faults

vars == <<db, jobCh, tickCh, timer, worker, closed, restarts, faults>>

MaxConcurrency == Cardinality(Workers)

Status(a) == IF a \in DOMAIN db.auctions THEN db.auctions[a].status ELSE "none"

Job(a, asked) == [id |-> a, asked |-> asked]

Idle == [step |-> "idle"]

Init ==
    /\ db = NoTables
    /\ jobCh = <<>>
    /\ tickCh = 0
    /\ timer = TRUE
    /\ worker = [w \in Workers |-> Idle]
    /\ closed = [a \in Auctions |-> <<>>]
    /\ restarts = 0
    /\ faults = 0

Fault == restarts + faults < MaxFaults /\ faults' = faults + 1

NoFault == faults' = faults

--------------------------------------------------------------------------------
(* The queue. *)

\* saveAndTransitionStatus: a status that does not change is not written.
SaveAndTransitionStatus(tables, a, old, new) ==
    IF old = new THEN tables ELSE UpdateAuctionStatusAndError(tables, a, new, "")

\* enqueue: the auction, whose status is old, goes to the workers if the channel
\* has room, and back to the queue otherwise.
Enqueue(tables, job, old) ==
    LET started == SaveAndTransitionStatus(tables, job.id, old, "started")
    IN  IF Len(jobCh) < MaxConcurrency
        THEN jobCh' = Append(jobCh, job) /\ db' = started
        ELSE /\ jobCh' = jobCh
             /\ db' = SaveAndTransitionStatus(started, job.id, "started", "queued")

\* OnReadyToAuction: an auction that exists is acked.  The auction is handed to
\* the workers from inside the transaction that creates it: when the commit
\* fails it is run without a row, and the message is delivered again.
OnReadyToAuction(a) ==
    /\ Status(a) = "none"
    /\ Cardinality(DOMAIN db.auctions) < MaxAuctions
    /\ Validate(AuctionOf[a])
    /\ LET created == CreateAuction(db, a, AuctionColumns(AuctionOf[a]))
       IN  Enqueue(created, Job(a, AuctionOf[a]), "unspecified")
    /\ NoFault
    /\ UNCHANGED <<tickCh, timer, worker, closed, restarts>>

CreateAuctionFails(a) ==
    /\ Status(a) = "none"
    /\ Cardinality(DOMAIN db.auctions) < MaxAuctions
    /\ Validate(AuctionOf[a])
    /\ Len(jobCh) < MaxConcurrency
    /\ jobCh' = Append(jobCh, Job(a, AuctionOf[a]))
    /\ Fault
    /\ UNCHANGED <<db, tickCh, timer, worker, closed, restarts>>

\* start(): the timer fires, or a tick is received.
Wake ==
    \/ timer /\ timer' = FALSE /\ tickCh' = tickCh
    \/ tickCh > 0 /\ tickCh' = tickCh - 1 /\ timer' = timer

\* The auction is rebuilt from its row.
ProcessNext ==
    /\ Wake
    /\ LET ready == GetNextReadyToExecute(db)
       IN  IF ready = {} THEN UNCHANGED <<db, jobCh>>
           ELSE \E a \in ready :
                   IF AuctionReadable(db.auctions[a])
                   THEN Enqueue(db, Job(a, AuctionFromDb(db.auctions[a])), Status(a))
                   ELSE UNCHANGED <<db, jobCh>>
    /\ NoFault
    /\ UNCHANGED <<worker, closed, restarts>>

\* A query fails, and the wake-up is gone.
ProcessNextFails ==
    /\ Wake
    /\ Fault
    /\ UNCHANGED <<db, jobCh, worker, closed, restarts>>

--------------------------------------------------------------------------------
(* Bids. *)

\* The price that counts: the verified one for an auction of verified deals.
PriceOf(auc, b) ==
    IF auc.verified THEN BidOf[b].verifiedAskPrice ELSE BidOf[b].askPrice

\* validateBid; VerifyBidder checks the signature.
ValidateBid(b) ==
    /\ BidOf[b].askPrice >= 0 /\ BidOf[b].verifiedAskPrice >= 0
    /\ BidOf[b].startEpoch > 0
    /\ BidOf[b].signed

\* Mutant: a bidder that is excluded may bid.
AcceptBidExcluded(auc, b) ==
    auc.deadline > 0 => BidOf[b].startEpoch \in 1..auc.deadline

AcceptBid(auc, b) ==
    /\ auc.deadline > 0 => BidOf[b].startEpoch \in 1..auc.deadline
    /\ b \notin auc.excluded

\* A worker takes an auction and publishes it to the bidders.
TakeJob(w) ==
    /\ worker[w] = Idle
    /\ jobCh # <<>>
    /\ worker' = [worker EXCEPT ![w] =
          [step |-> "bidding", job |-> Head(jobCh), bid |-> [b \in Bidders |-> "none"]]]
    /\ jobCh' = Tail(jobCh)
    /\ UNCHANGED <<db, tickCh, timer, closed, restarts, faults>>

\* bidsHandler, which runs concurrently: the bidder is noted, then the bid is
\* saved and added to the bids unless the auction has ended meanwhile.
ReceiveBid(w, b) ==
    /\ worker[w].step = "bidding"
    /\ ValidateBid(b)
    /\ AcceptBid(worker[w].job.asked, b)
    /\ worker[w].bid[b] = "none"
    /\ worker' = [worker EXCEPT ![w].bid[b] = "noted"]
    /\ UNCHANGED <<db, jobCh, tickCh, timer, closed, restarts, faults>>

\* addBid; the bid of an auction without a row is refused.
AddBid(w, b) ==
    /\ worker[w].step \in {"bidding", "selecting"}
    /\ worker[w].bid[b] = "noted"
    /\ LET bid == <<worker[w].job.id, b>>
           saved == MayCreateBid(db, bid)
       IN  /\ db' = IF saved THEN CreateBid(db, bid, BidColumns(bid)) ELSE db
           /\ worker' = [worker EXCEPT ![w].bid[b] =
                 IF worker[w].step = "selecting" THEN "none"
                 ELSE IF saved THEN "added" ELSE "refused"]
    /\ UNCHANGED <<jobCh, tickCh, timer, closed, restarts, faults>>

--------------------------------------------------------------------------------
(* Winners. *)

\* What refreshProviderRates, which runs concurrently, may have stored: nothing
\* yet, or the rates of the bidders.
NoRates == [failure |-> <<>>, winning |-> <<>>, onChain |-> <<>>]

ProviderRates == {NoRates, RatesOf}

\* The bids that are eligible: at no price, of the targeted providers if there
\* are any, else of providers that lately needed less time than is left.
Candidates(auc, bids, rates) ==
    LET free == {b \in bids : PriceOf(auc, b) = 0}
        InTime(b) == auc.deadline - CurrentEpoch > ProviderRate(rates.onChain, b)
    IN  IF auc.providers # {} THEN {b \in free : b \in auc.providers}
        ELSE IF auc.deadline > 0 THEN {b \in free : InTime(b)}
        ELSE free

\* A choice of winners in progress: the iterator that replica draws from, the
\* candidates there were when it was made, and the winners.
Choice(cands, topN, winners, replica, rates) ==
    [it |-> CASE replica \in {0, 2, 3} -> RandomTopN(cands, topN, rates.failure)
              [] replica = 1 -> RandomTopN(cands, topN, rates.winning)
              [] OTHER -> Random(cands),
     start |-> cands, topN |-> topN, winners |-> winners, replica |-> replica]

Late(w) ==
    [b \in Bidders |-> IF worker[w].bid[b] = "noted" THEN "noted" ELSE "none"]

\* Mutant: a bid counts before it is saved.
EndBiddingUnsaved(w) ==
    /\ worker[w].step = "bidding"
    /\ \E rates \in ProviderRates :
       LET cands == Candidates(worker[w].job.asked,
                               {b \in Bidders : worker[w].bid[b] # "none"}, rates)
       IN  worker' = [worker EXCEPT ![w] =
              [step |-> "selecting", job |-> worker[w].job, bid |-> Late(w),
               choice |-> Choice(cands, MinTopN, {}, 0, rates)]]
    /\ UNCHANGED <<db, jobCh, tickCh, timer, closed, restarts, faults>>

\* The auction ends.  Of the bids that are still being added none will count.
EndBidding(w) ==
    /\ worker[w].step = "bidding"
    /\ \E rates \in ProviderRates :
       LET bids == {b \in Bidders : worker[w].bid[b] = "added"}
           cands == Candidates(worker[w].job.asked, bids, rates)
           topN == Max({MinTopN, Cardinality(cands) \div 5})
       IN  worker' = [worker EXCEPT ![w] =
              [step |-> "selecting", job |-> worker[w].job, bid |-> Late(w),
               choice |-> Choice(cands, topN, {}, 0, rates)]]
    /\ UNCHANGED <<db, jobCh, tickCh, timer, closed, restarts, faults>>

\* processAuction returns.  A failed auction has no winners.
Processed(w, ok, winners) ==
    worker' = [worker EXCEPT ![w] =
        [step |-> IF winners = {} THEN "finalizing" ELSE "saving", job |-> worker[w].job,
         ok |-> ok, winners |-> winners]]

\* PublishAuction fails.
PublishAuctionFails(w) ==
    /\ worker[w].step = "bidding"
    /\ Fault
    /\ Processed(w, FALSE, {})
    /\ UNCHANGED <<db, jobCh, tickCh, timer, closed, restarts>>

Enough(w) == Cardinality(worker[w].choice.winners) = worker[w].job.asked.rep

\* How PublishWin ends: a bidder that can't be told, says no or says nothing in
\* NotifyTimeout does not win.
PublishWin == {"accepted", "not published", "bidder returned error", "no response"}

\* selectOneWinner: a candidate is told that it won, and accepts or not.
SelectOneWinner(w, b, answer) ==
    /\ worker[w].step = "selecting"
    /\ ~Enough(w)
    /\ LET c == worker[w].choice
           it == After(c.it, b)
       IN  /\ b \in NextOf(c.it)
           /\ \E rates \in ProviderRates : worker' = [worker EXCEPT ![w].choice =
                 IF answer = "accepted"
                 THEN Choice(it.cands, c.topN, c.winners \union {b}, c.replica + 1, rates)
                 ELSE [c EXCEPT !.it = it]]
    /\ UNCHANGED <<db, jobCh, tickCh, timer, closed, restarts, faults>>

\* "can not get a winning bid satisfying the requirement of replica #%d,
\* continue to the next replica."
NextReplica(w) ==
    /\ worker[w].step = "selecting"
    /\ ~Enough(w)
    /\ LET c == worker[w].choice
       IN  /\ c.it.left = 0 /\ c.replica < 4 /\ c.it.cands # {}
           /\ \E rates \in ProviderRates : worker' = [worker EXCEPT ![w].choice =
                 Choice(c.it.cands, c.topN, c.winners, c.replica + 1, rates)]
    /\ UNCHANGED <<db, jobCh, tickCh, timer, closed, restarts, faults>>

\* Mutants: the auction fails with the first replica that nobody takes; it is not
\* given up when nobody is left to ask.
EndSelectionEarly(w) ==
    /\ worker[w].step = "selecting"
    /\ Enough(w) \/ worker[w].choice.it.left = 0
    /\ Processed(w, Enough(w), IF Enough(w) THEN worker[w].choice.winners ELSE {})
    /\ UNCHANGED <<db, jobCh, tickCh, timer, closed, restarts, faults>>

EndSelectionFull(w) ==
    /\ worker[w].step = "selecting"
    /\ Enough(w)
    /\ Processed(w, TRUE, worker[w].choice.winners)
    /\ UNCHANGED <<db, jobCh, tickCh, timer, closed, restarts, faults>>

\* All winners were found, or (ErrInsufficientBids) nobody is left to ask for this
\* or a later replica; then processAuction returns no winners.
EndSelection(w) ==
    /\ worker[w].step = "selecting"
    /\ LET c == worker[w].choice
       IN  /\ Enough(w) \/ (c.it.left = 0 /\ (c.replica >= 4 \/ c.it.cands = {}))
           /\ Processed(w, Enough(w), IF Enough(w) THEN c.winners ELSE {})
    /\ UNCHANGED <<db, jobCh, tickCh, timer, closed, restarts, faults>>

--------------------------------------------------------------------------------
(* The end of an auction. *)

\* The worker marks the winning bids.  When it can't this is only logged.
UpdateWinningBids(w) ==
    /\ worker[w].step = "saving"
    /\ \/ /\ db' = UpdateWinningBid(db, {<<worker[w].job.id, b>> : b \in worker[w].winners})
          /\ NoFault
       \/ db' = db /\ Fault
    /\ worker' = [worker EXCEPT ![w].step = "finalizing"]
    /\ UNCHANGED <<jobCh, tickCh, timer, closed, restarts>>

\* Mutant: no tick is sent.
EndJobSilently(w) ==
    /\ worker' = [worker EXCEPT ![w] = Idle]
    /\ tickCh' = tickCh

\* The worker is done with its auction and tries to send a tick.
EndJob(w) ==
    /\ worker' = [worker EXCEPT ![w] = Idle]
    /\ tickCh' = Min({MaxConcurrency, tickCh + 1})

\* saveAndFinalizeAuction saves the status and calls finalizeAuction.
SaveAndFinalizeAuction(w) ==
    /\ worker[w].step = "finalizing"
    /\ db' = UpdateAuctionStatusAndError(db, worker[w].job.id, "finalized",
                 IF worker[w].ok THEN "" ELSE "error")
    /\ worker' = [worker EXCEPT ![w].step = "publishing"]
    /\ UNCHANGED <<jobCh, tickCh, timer, closed, restarts, faults>>

FinalizeFails(w) ==
    /\ worker[w].step = "finalizing"
    /\ Fault
    /\ EndJob(w)
    /\ UNCHANGED <<db, jobCh, timer, closed, restarts>>

\* toClosedAuction, and the sources that PublishWin sent to the winners.
ToClosedAuction(w) ==
    LET auc == worker[w].job.asked
    IN  [ok |-> worker[w].ok, rep |-> auc.rep, verified |-> auc.verified,
         winners |-> [b \in worker[w].winners |->
            [price |-> PriceOf(auc, b), startEpoch |-> BidOf[b].startEpoch]],
         sources |-> auc.sources]

\* finalizeAuction.  A publish that fails is only logged.
FinalizeAuction(w) ==
    /\ worker[w].step = "publishing"
    /\ \/ /\ closed' = [closed EXCEPT ![worker[w].job.id] = Append(@, ToClosedAuction(w))]
          /\ NoFault
       \/ closed' = closed /\ Fault
    /\ EndJob(w)
    /\ UNCHANGED <<db, jobCh, timer, restarts>>

--------------------------------------------------------------------------------
(* Restarts and time. *)

\* The process stops and starts again.  Close() cancels the context of the
\* workers first, so they can't save what they did.
Restart ==
    /\ restarts + faults < MaxFaults
    /\ restarts' = restarts + 1
    /\ jobCh' = <<>>
    /\ tickCh' = 0
    /\ timer' = TRUE
    /\ worker' = [w \in Workers |-> Idle]
    /\ UNCHANGED <<db, closed, faults>>

InProgress(a) ==
    \/ \E i \in DOMAIN jobCh : jobCh[i].id = a
    \/ \E w \in Workers : worker[w] # Idle /\ worker[w].job.id = a

\* The row of a started auction has not changed for stuckSeconds.
HourPasses(a) ==
    /\ Status(a) = "started"
    /\ ~db.auctions[a].old
    /\ db' = [db EXCEPT !.auctions[a].old = TRUE]
    /\ IF InProgress(a) THEN Fault ELSE NoFault
    /\ UNCHANGED <<jobCh, tickCh, timer, worker, closed, restarts>>

--------------------------------------------------------------------------------
SelectWinners(w) ==
    \/ \E b \in Bidders, answer \in PublishWin : SelectOneWinner(w, b, answer)
    \/ NextReplica(w)
    \/ EndSelection(w)

Work(w) ==
    \/ TakeJob(w) \/ EndBidding(w) \/ SelectWinners(w)
    \/ UpdateWinningBids(w) \/ SaveAndFinalizeAuction(w) \/ FinalizeAuction(w)

Next ==
    \/ \E a \in Auctions : \/ OnReadyToAuction(a) \/ CreateAuctionFails(a)
                           \/ HourPasses(a)
    \/ ProcessNext \/ ProcessNextFails
    \/ \E w \in Workers : \/ Work(w) \/ PublishAuctionFails(w)
                          \/ FinalizeFails(w)
                          \/ \E b \in Bidders : ReceiveBid(w, b) \/ AddBid(w, b)
    \/ Restart

Spec == Init /\ [][Next]_vars

\* The goroutines of the queue and of the workers run, and every call they make
\* has a timeout.
FairSpec == Spec /\ WF_vars(ProcessNext) /\ \A w \in Workers : WF_vars(Work(w))

--------------------------------------------------------------------------------
(* Properties. *)

\* No wake-up is lost: while an auction is queued, the queue will look for it
\* again, because a worker is busy or about to be, or a tick or the timer is
\* pending (ticks are dropped when the channel is full).
QueuedIsServed ==
    faults = 0 /\ (\E a \in Auctions : Status(a) = "queued") =>
        \/ timer \/ tickCh > 0 \/ jobCh # <<>>
        \/ \E w \in Workers : worker[w] # Idle

\* What brokerd and the bidders rely on: an auction that succeeded has as many
\* winners as copies were asked for, none excluded, all targeted if providers
\* were, all free and starting before the deadline, and they were sent the sources
\* of the auction, also when it was run from what the queue had saved of it.
ClosedAsPromised ==
    \A a \in Auctions : \A i \in DOMAIN closed[a] :
        LET auc == AuctionOf[a]
            c == closed[a][i]
            winners == DOMAIN c.winners
        IN  c.ok =>
                /\ Cardinality(winners) = auc.rep
                /\ winners \intersect auc.excluded = {}
                /\ auc.providers # {} => winners \subseteq auc.providers
                /\ \A b \in winners :
                      /\ c.winners[b].price = 0
                      /\ auc.deadline > 0 => c.winners[b].startEpoch <= auc.deadline
                /\ c.sources = auc.sources

\* The proposal of every announced winner can be delivered: its auction has been
\* saved as finalized without an error, with the bid marked as won, if nothing
\* fails.
WinnersDeliverable ==
    restarts + faults = 0 => \A a \in Auctions : \A i \in DOMAIN closed[a] :
        \A b \in DOMAIN closed[a][i].winners :
            \E bid \in {GetFinalizedAuctionBid(db, <<a, b>>)} :
                bid # Absent /\ bid[1].won

\* "This process is continued until the number of winners equals deal
\* replication" (processAuction): an auction is given up for too few bids only
\* when every candidate was asked.
EveryCandidateAsked ==
    [][\A w \in Workers :
          /\ worker[w].step = "selecting"
          /\ worker'[w].step = "finalizing"
          => worker[w].choice.it.cands = {}]_vars

\* "randomly choose one of the top N from the sorted list" (RandomTopN): a
\* candidate that is asked for one of the first four replicas is one of the topN
\* best of those there were when the replica's turn began, however many refused
\* before it.
AskedAreTop ==
    [][\A w \in Workers :
          worker[w].step = "selecting" /\ worker'[w].step = "selecting" =>
             LET c == worker[w].choice
             IN  \A b \in c.it.cands \ worker'[w].choice.it.cands :
                    c.replica < 4 => b \in TopN(c.start, c.topN, c.it.rates)]_vars

\* Every auction that was created is eventually announced as closed, if the
\* process does not restart and no write or publish fails.
AuctionCloses ==
    \A a \in Auctions :
        Status(a) # "none" ~> closed[a] # <<>> \/ restarts + faults > 0

================================================================================
