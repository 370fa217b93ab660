--------------------------------- MODULE Dealer ---------------------------------
(***************************************************************************)
(* dealerd (cmd/dealerd): three daemons over one table of auction deals.   *)
(* The deal maker proposes deals to storage providers, the deal monitorer  *)
(* watches the provider and the chain, the deal reporter publishes the     *)
(* outcome on finalized-deal.                                              *)
(*                                                                         *)
(* A goroutine claims a deal (GetNextPending), works on its own copy of    *)
(* the row and writes the whole copy back (SaveAndMoveAuctionDeal); the    *)
(* deal maker and the monitorer run several at a time (ratelim).  All      *)
(* contexts are far shorter than stuckSeconds, so a deal marked executing  *)
(* is claimed again only when no goroutine works on it any more.  A retry  *)
(* delay (ready_at) may be over at any time.                               *)
(*                                                                         *)
(* External: the providers (see FilClient) and the chain, which publishes  *)
(* and activates a deal up to its start epoch.  A publish message also has *)
(* a deal of another client with the same provider.                        *)
(***************************************************************************)
EXTENDS DealerStore, FilClient, FiniteSets

CONSTANTS
    AuctionDeals,  \* the ready-to-create-deals messages
    DealIDOf,      \* the id on chain of each deal
    OtherDeal,     \* the other deal in a publish message, and its id
    OtherID,
    Makers,        \* goroutines of the deal maker
    Monitors,      \* goroutines of the deal monitorer
    Reporter,      \* the deal reporter
    MaxRetries,    \* config.dealMakingMaxRetries
    MaxHeight,     \* bound: height of the chain
    MaxReports,    \* bound: reports of one deal
    MaxSlashed,    \* bound: slashed deals
    MaxFaults      \* bound: crashes, lost answers, failed publishes and writes

ASSUME DealerAssumption ==
    /\ {MaxRetries, MaxHeight, MaxReports, MaxSlashed, MaxFaults} \subseteq Nat
    /\ Makers \cap Monitors = {}
    /\ Reporter \notin Makers \union Monitors

VARIABLES
    db,          \* the tables
    proc,        \* what each goroutine is doing
    tickHeight,  \* the chain height the monitorer read when its tick began
    proposals,   \* what providers were proposed for each deal
    chain,       \* what the chain knows of each deal
    height,
    reports,     \* the finalized-deal messages of each deal, in order
    faults

vars == <<db, proc, tickHeight, proposals, chain, height, reports, faults>>

Processes == Makers \union Monitors \union {Reporter}

Deals == UNION {{<<ad.id, i>> : i \in DOMAIN ad.proposals} : ad \in AuctionDeals}

\* An auction has one ready-to-create-deals message (a redelivery is the same
\* message), epochs are natural numbers, and the chain numbers deals apart.  The
\* other deal in a publish message is told from ours by provider, piece and start
\* epoch: ResolveDealIDFromMessage has nothing else to go by.
ASSUME MessagesAssumption ==
    /\ \A a, b \in AuctionDeals : a.id = b.id => a = b
    /\ \A ad \in AuctionDeals : ad.duration \in Nat
    /\ \A ad \in AuctionDeals : \A i \in DOMAIN ad.proposals :
          /\ ad.proposals[i].startEpoch \in Nat
          /\ ~ /\ OtherDeal.provider = Parse(ad.proposals[i].sp)
               /\ OtherDeal.pieceCid = ad.pieceCid
               /\ OtherDeal.start = ad.proposals[i].startEpoch
    /\ \A d, e \in Deals : DealIDOf[d] = DealIDOf[e] => d = e
    /\ \A d \in Deals : DealIDOf[d] # OtherID

deals == db.deals

\* A goroutine: the deal it works on and its copy; for a write also the status
\* to move the deal to and where the goroutine goes when the write succeeds and
\* when it fails.
Idle == [step |-> "idle"]

At(step, d, aud) == [step |-> step, deal |-> d, aud |-> aud]

Saving(d, aud, to, then, onError) ==
    [step |-> "save", deal |-> d, aud |-> aud, to |-> to, then |-> then,
     onError |-> onError]

Init ==
    /\ db = NoTables
    /\ proc = [p \in Processes |-> Idle]
    /\ tickHeight = 0
    /\ proposals = [d \in Deals |-> [sent |-> 0, accepted |-> 0, terms |-> Absent]]
    /\ chain = [d \in Deals |-> "unknown"]
    /\ height = 0
    /\ reports = [d \in Deals |-> <<>>]
    /\ faults = 0

Fault == faults < MaxFaults /\ faults' = faults + 1

Goes(p, state) == proc' = [proc EXCEPT ![p] = state]

--------------------------------------------------------------------------------
(* The store. *)

\* OnReadyToCreateDeals: auction data that exists is acked and changes nothing.
ReadyToCreateDeals(ad) ==
    /\ MayCreate(db, ad)
    /\ db' = CreateAll(db, ad)
    /\ UNCHANGED <<proc, tickHeight, proposals, chain, height, reports, faults>>

\* Mutant: a stuck deal is not claimed again.
ClaimableOnce(d, status) ==
    d \in DOMAIN deals /\ deals[d].status = status /\ ~deals[d].executing

Claimable(d, status) ==
    /\ d \in DOMAIN deals
    /\ deals[d].status = status
    /\ deals[d].executing =>
          \A p \in Processes : proc[p] # Idle => proc[p].deal # d

GetNextPending(p, d, status, step) ==
    /\ proc[p] = Idle
    /\ Claimable(d, status)
    /\ db' = NextPendingAuctionDeal(db, d)
    /\ Goes(p, At(step, d, db'.deals[d]))
    /\ UNCHANGED <<tickHeight, proposals, chain, height, reports, faults>>

\* The whole copy replaces the row, whatever the row says by now.
SaveAndMoveAuctionDeal(p) ==
    /\ proc[p].step = "save"
    /\ \/ /\ AreAllExpectedFieldsSet(proc[p].aud)
          /\ db' = SaveAndMove(db, proc[p].deal, proc[p].aud, proc[p].to)
          /\ Goes(p, proc[p].then)
          /\ faults' = faults
       \/ /\ Goes(p, proc[p].onError)
          /\ IF AreAllExpectedFieldsSet(proc[p].aud) THEN Fault
             ELSE faults' = faults
          /\ db' = db
    /\ UNCHANGED <<tickHeight, proposals, chain, height, reports>>

--------------------------------------------------------------------------------
(* The deal maker. *)

\* An error of executePendingDealMaking is saved with the copy that was claimed:
\* nothing executePendingDealMaking set is in it.
SavingError(d, claimed) ==
    Saving(d, [claimed EXCEPT !.error = TRUE], "report-finalized", Idle, Idle)

\* Mutant: a failed attempt isn't counted.
SavingRetryUncounted(d, claimed) ==
    Saving(d, claimed, "deal-making", Idle, Idle)

SavingRetry(d, claimed) ==
    LET counted == [claimed EXCEPT !.retries = @ + 1]
        failed == SavingError(d, claimed)
    IN  IF counted.retries > MaxRetries
        THEN Saving(d, [counted EXCEPT !.error = TRUE],
                    "report-finalized", Idle, failed)
        ELSE Saving(d, counted, "deal-making", Idle, failed)

SavingAccepted(d, claimed, id) ==
    Saving(d, [claimed EXCEPT !.retries = 0, !.proposal = id], "confirmation",
           At("publish-accepted", d, claimed), SavingError(d, claimed))

\* What follows ExecuteAuctionDeal: an error comes before retriable.
AfterExecution(d, claimed, result) ==
    IF result.err THEN SavingError(d, claimed)
    ELSE IF result.retriable THEN SavingRetry(d, claimed)
    ELSE SavingAccepted(d, claimed, result.id)

\* The provider gets the proposal unless nothing can be sent; its answer may be
\* lost.
Propose(d, p, net, answer) ==
    IF p = Absent \/ ~ProposalSent(net)
    THEN proposals' = proposals
    ELSE proposals' = [proposals EXCEPT ![d] =
            [sent |-> @.sent + 1,
             accepted |-> @.accepted + (IF answer = "accepted" THEN 1 ELSE 0),
             terms |-> IF answer = "accepted" THEN p ELSE @.terms]]

\* The goroutine reads the auction data and the wallet, and proposes the deal.  A
\* provider may have accepted though no answer arrives; a read may fail.
ExecuteAuctionDeal(m) ==
    /\ proc[m].step = "propose"
    /\ LET d == proc[m].deal
           aud == proc[m].aud
           ad == GetAuctionData(db, aud.data)
           rw == GetRemoteWallet(db, aud.data)
       IN  \/ \E net \in Networks :
                 LET p == CreateDealProposalV110(ad, aud, rw, net)
                 IN  /\ Goes(m, AfterExecution(d, aud, ExecuteProposal(p, d, net)))
                     /\ \/ Propose(d, p, net, net.answer) /\ faults' = faults
                        \/ /\ net.answer = "none" /\ p # Absent
                           /\ Propose(d, p, net, "accepted") /\ Fault
           \/ Goes(m, SavingError(d, aud)) /\ Fault /\ proposals' = proposals
    /\ UNCHANGED <<db, tickHeight, chain, height, reports>>

\* deal-proposal-accepted, or boost-deal-proposal-accepted for v1.2.0, tells
\* auctioneerd the proposal.
PublishDealProposalAccepted(p) ==
    /\ proc[p].step = "publish-accepted"
    /\ \/ Goes(p, Idle) /\ faults' = faults
       \/ Goes(p, SavingError(proc[p].deal, proc[p].aud)) /\ Fault
    /\ UNCHANGED <<db, tickHeight, proposals, chain, height, reports>>

--------------------------------------------------------------------------------
(* The deal monitorer. *)

\* A tick begins when the goroutines of the last one are done (rl.Wait).
MonitoringTick ==
    /\ \A p \in Monitors : proc[p] = Idle
    /\ tickHeight # height
    /\ tickHeight' = height
    /\ UNCHANGED <<db, proc, proposals, chain, height, reports, faults>>

SavingConfirmation(d, aud) == Saving(d, aud, "confirmation", Idle, Idle)

SavingUnfulfilled(d, aud) ==
    Saving(d, [aud EXCEPT !.error = TRUE], "report-finalized", Idle, Idle)

\* Mutant: time is not considered.
UnresolvedNow(d, aud) == SavingUnfulfilled(d, aud)

\* What follows when the provider can't say which deal was published.
Unresolved(d, aud) ==
    IF aud.start >= tickHeight THEN SavingConfirmation(d, aud)
    ELSE SavingUnfulfilled(d, aud)

\* The message the provider published the deal with: it has another deal first.
Published(d) ==
    IF chain[d] = "unknown" THEN Absent
    ELSE Present([deals |-> <<OtherDeal, proposals[d].terms[1]>>,
                  ids |-> <<OtherID, DealIDOf[d]>>, exitCode |-> 0])

\* tryResolvingDealID: 0 when the id can't be told.
TryResolvingDealID(d, aud, net) ==
    LET published == CheckDealStatusWithStorageProvider(
                        aud.proposal, GetRemoteWallet(db, aud.data), net, Published(d))
    IN  IF published = Absent THEN 0
        ELSE ResolveDealIDFromMessage(published[1], aud.sp,
                                      GetAuctionData(db, aud.data).pieceCid, aud.start)

\* A deal id that becomes known is saved at once, and the write marks the deal as
\* not executing while this goroutine goes on with it.  When the remote wallet or
\* the market status can't be read, the goroutine ends.
ResolveDealID(w) ==
    /\ proc[w].step = "resolve"
    /\ LET d == proc[w].deal
           aud == proc[w].aud
       IN  \/ aud.dealID # 0 /\ Goes(w, At("check", d, aud)) /\ faults' = faults
           \/ /\ aud.dealID = 0
              /\ \E net \in Networks :
                    LET resolved == [aud EXCEPT !.dealID = TryResolvingDealID(d, aud, net)]
                    IN  Goes(w, IF resolved = aud THEN Unresolved(d, aud)
                                ELSE Saving(d, resolved, aud.status,
                                            At("check", d, resolved), Idle))
              /\ faults' = faults
           \/ Goes(w, Idle) /\ Fault
    /\ UNCHANGED <<db, tickHeight, proposals, chain, height, reports>>

\* CheckChainDeal: the chain's answer about a deal id.
ChainDealOf(id) ==
    IF id = OtherID THEN ChainDeal("active", OtherDeal.end)
    ELSE LET d == CHOOSE d \in Deals : DealIDOf[d] = id
         IN  ChainDeal(chain[d], proposals[d].terms[1].end)

\* What follows from the chain's answer.  A slashed deal is an error, and an error
\* is retried.
Checked(d, aud) ==
    LET deal == ChainDealOf(aud.dealID)
    IN  IF deal.err THEN SavingConfirmation(d, aud)
        ELSE IF deal.active
        THEN Saving(d, [aud EXCEPT !.expiration = deal.expiration],
                    "report-finalized", Idle, Idle)
        ELSE IF aud.start > tickHeight THEN SavingConfirmation(d, aud)
        ELSE SavingUnfulfilled(d, aud)

CheckChainDeal(w) ==
    /\ proc[w].step = "check"
    /\ LET d == proc[w].deal
           aud == proc[w].aud
       IN  \/ Goes(w, Checked(d, aud)) /\ faults' = faults
           \/ Goes(w, SavingConfirmation(d, aud)) /\ Fault
    /\ UNCHANGED <<db, tickHeight, proposals, chain, height, reports>>

--------------------------------------------------------------------------------
(* The deal reporter. *)

FinalizedDeal(aud) ==
    [error |-> aud.error, dealID |-> aud.dealID, expiration |-> aud.expiration]

\* The report is published, then the deal is saved as finalized; when either
\* fails the deal waits to be reported again.
ReportFinalizedAuctionDeal ==
    /\ proc[Reporter].step = "report"
    /\ LET d == proc[Reporter].deal
           aud == proc[Reporter].aud
           again == Saving(d, aud, "report-finalized", Idle, Idle)
       IN  \/ /\ Len(reports[d]) < MaxReports
              /\ reports' = [reports EXCEPT ![d] = Append(@, FinalizedDeal(aud))]
              /\ Goes(Reporter, Saving(d, aud, "finalized", Idle, again))
              /\ faults' = faults
           \/ /\ Goes(Reporter, again)
              /\ Fault
              /\ reports' = reports
    /\ UNCHANGED <<db, tickHeight, proposals, chain, height>>

--------------------------------------------------------------------------------
(* The process, the providers and the chain. *)

Restart ==
    /\ Fault
    /\ proc' = [p \in Processes |-> Idle]
    /\ proc' # proc
    /\ UNCHANGED <<db, tickHeight, proposals, chain, height, reports>>

StartOf(d) == proposals[d].terms[1].start

\* A provider publishes a deal it has accepted and activates it, both by the
\* start epoch; it may be slashed after that.
ChainStep(d) ==
    /\ \/ /\ chain[d] = "unknown" /\ proposals[d].accepted > 0
          /\ height <= StartOf(d)
          /\ chain' = [chain EXCEPT ![d] = "published"]
       \/ /\ chain[d] = "published" /\ height <= StartOf(d)
          /\ chain' = [chain EXCEPT ![d] = "active"]
       \/ /\ chain[d] = "active"
          /\ Cardinality({e \in Deals : chain[e] = "slashed"}) < MaxSlashed
          /\ chain' = [chain EXCEPT ![d] = "slashed"]
    /\ UNCHANGED <<db, proc, tickHeight, proposals, height, reports, faults>>

EpochPasses ==
    /\ height < MaxHeight
    /\ height' = height + 1
    /\ UNCHANGED <<db, proc, tickHeight, proposals, chain, reports, faults>>

--------------------------------------------------------------------------------
(* The specification. *)

Maker(p, d) ==
    \/ GetNextPending(p, d, "deal-making", "propose")
    \/ ExecuteAuctionDeal(p)
    \/ PublishDealProposalAccepted(p)
    \/ SaveAndMoveAuctionDeal(p)

Monitorer(p, d) ==
    \/ GetNextPending(p, d, "confirmation", "resolve")
    \/ ResolveDealID(p)
    \/ CheckChainDeal(p)
    \/ SaveAndMoveAuctionDeal(p)

DealReporter(d) ==
    \/ GetNextPending(Reporter, d, "report-finalized", "report")
    \/ ReportFinalizedAuctionDeal
    \/ SaveAndMoveAuctionDeal(Reporter)

Next ==
    \/ \E ad \in AuctionDeals : ReadyToCreateDeals(ad)
    \/ \E d \in Deals : ChainStep(d) \/ DealReporter(d)
    \/ \E d \in Deals, p \in Makers : Maker(p, d)
    \/ \E d \in Deals, p \in Monitors : Monitorer(p, d)
    \/ MonitoringTick
    \/ Restart
    \/ EpochPasses

Spec == Init /\ [][Next]_vars

\* The daemons tick for ever and claim the deal that has waited longest (ORDER BY
\* ready_at), every call has a timeout, and the chain grows.  A tick of the
\* monitorer ends: the delays after which deals are watched again are longer than
\* a pass over the pending ones.
FairSpec ==
    /\ Spec
    /\ \A d \in Deals :
          /\ \A p \in Makers : SF_vars(Maker(p, d))
          /\ \A p \in Monitors : SF_vars(Monitorer(p, d))
          /\ SF_vars(DealReporter(d))
    /\ []<>(\A p \in Monitors : proc[p] = Idle)
    /\ SF_vars(MonitoringTick)
    /\ WF_vars(EpochPasses)

--------------------------------------------------------------------------------
(* Properties. *)

Reported(d) == {reports[d][i] : i \in DOMAIN reports[d]}

\* What the broker asked of deal <<ad.id, i>>: the terms of a deal on chain.
AsAsked(ad, i, terms) ==
    /\ terms.provider = Parse(ad.proposals[i].sp)
    /\ terms.pieceCid = ad.pieceCid /\ terms.pieceSize = ad.pieceSize
    /\ terms.client = IF ad.wallet = Absent THEN PubKey ELSE ad.wallet[1].addr
    /\ terms.verified = ad.proposals[i].verified
    /\ terms.start = ad.proposals[i].startEpoch
    /\ terms.end = terms.start + ad.duration

\* A deal is reported as confirmed only once the chain has it active, though the
\* row that says so was read, checked and saved in different steps; the report has
\* that deal's id and expiration ("a deal-id is returned which can be trusted to
\* match the original ProposalCid"), and the deal on chain is the one asked for.
ConfirmedIsActive ==
    \A ad \in AuctionDeals : \A i \in DOMAIN ad.proposals :
        LET d == <<ad.id, i>>
        IN  \A report \in Reported(d) : ~report.error =>
                /\ chain[d] \in {"active", "slashed"}
                /\ AsAsked(ad, i, proposals[d].terms[1])
                /\ report.dealID = DealIDOf[d]
                /\ report.expiration = proposals[d].terms[1].end

\* Without faults, a deal the provider accepted is reported as failed only when
\* the provider has no time left to activate it ("the storage-provider lost the
\* race").
FailedIsOver ==
    \A d \in Deals :
        /\ faults = 0
        /\ proposals[d].accepted > 0
        /\ \E report \in Reported(d) : report.error
        => height >= StartOf(d)

\* Without faults, a deal is proposed at most dealMakingMaxRetries + 1 times, and
\* never again once the provider has accepted it.
ProposedWithinRetries ==
    faults = 0 => \A d \in Deals :
        proposals[d].sent <= MaxRetries + 1 /\ proposals[d].accepted <= 1

\* StatusFinalized: the result has been reported and all processing is complete.
FinalizedIsFinal ==
    [][\A d \in Deals :
        d \in DOMAIN deals /\ deals[d].status = "finalized" =>
            deals'[d].status = "finalized"]_vars

\* The outcome of every deal is eventually reported to the broker, in spite of a
\* restart, a lost answer or a failed publish; a deal that was slashed may not be.
EventuallyReported ==
    \A d \in Deals :
        d \in DOMAIN deals
            ~> reports[d] # <<>> \/ chain[d] = "slashed"

================================================================================
