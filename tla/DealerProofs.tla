------------------------------ MODULE DealerProofs ------------------------------
(***************************************************************************)
(* What Dealer promises, for any auction data, any number of goroutines    *)
(* and any bounds: a deal reported as confirmed is active on chain as it   *)
(* was asked for, whatever fails (ConfirmedInv), and without faults a deal *)
(* is proposed within its retries and an accepted one is given up only     *)
(* when its time is over (MakingInv).                                      *)
(*                                                                         *)
(* A goroutine works on a copy of a row and writes the whole copy back, so *)
(* both invariants speak of every copy there is: the rows, the copies the  *)
(* goroutines hold and the ones they will hold after a write that succeeds *)
(* or fails.  The operators take the tables, the chain and the proposals   *)
(* as arguments: they say the same of the state before a step and of the   *)
(* state after it.                                                         *)
(***************************************************************************)
EXTENDS Dealer, TLAPS

Final == {"report-finalized", "finalized"}

RowFields ==
    {"data", "sp", "price", "start", "verified", "fast", "status", "executing",
     "retries", "error", "proposal", "dealID", "expiration"}

\* The row says of deal d what its proposal says.
OfProposal(d, row) ==
    \E ad \in AuctionDeals : \E i \in DOMAIN ad.proposals :
        /\ d = <<ad.id, i>>
        /\ row.data = ad.id
        /\ row.sp = ad.proposals[i].sp
        /\ row.start = ad.proposals[i].startEpoch
        /\ row.verified = ad.proposals[i].verified

\* The terms are the ones asked of deal d.
TermsOf(d, terms) ==
    \E ad \in AuctionDeals : \E i \in DOMAIN ad.proposals :
        d = <<ad.id, i>> /\ AsAsked(ad, i, terms)

\* A copy of the row of deal d: a deal id in it is the one on chain.
Copy(D, C, d, aud) ==
    /\ d \in DOMAIN D
    /\ aud = [x \in RowFields |-> aud[x]]
    /\ OfProposal(d, aud)
    /\ aud.error \in BOOLEAN /\ aud.expiration \in Nat
    /\ aud.dealID \in {0, DealIDOf[d]}
    /\ aud.dealID # 0 => C[d] # "unknown"

\* What the copy says of the chain is true.
OnChain(C, P, d, aud) ==
    /\ C[d] \in {"active", "slashed"}
    /\ aud.dealID = DealIDOf[d]
    /\ aud.expiration = P[d].terms[1].end

\* A copy that may be written as a row with that status.
Claim(D, C, P, d, aud, status) ==
    /\ Copy(D, C, d, aud)
    /\ status \in Final /\ ~aud.error => OnChain(C, P, d, aud)

\* What a goroutine does: a write comes with what follows it.
Simple(D, C, P, st) ==
    \/ st = Idle
    \/ st.step \in {"propose", "publish-accepted"} /\ Copy(D, C, st.deal, st.aud)
    \/ /\ st.step = "resolve" /\ st.aud.status = "confirmation"
       /\ Copy(D, C, st.deal, st.aud)
    \/ /\ st.step = "check" /\ st.aud.dealID = DealIDOf[st.deal]
       /\ Copy(D, C, st.deal, st.aud)
    \/ st.step = "report" /\ Claim(D, C, P, st.deal, st.aud, "report-finalized")
    \/ /\ st.step = "save" /\ st.then = Idle /\ st.onError = Idle
       /\ Claim(D, C, P, st.deal, st.aud, st.to)

Working(D, C, P, st) ==
    \/ Simple(D, C, P, st)
    \/ /\ st.step = "save"
       /\ Claim(D, C, P, st.deal, st.aud, st.to)
       /\ Simple(D, C, P, st.then)
       /\ Simple(D, C, P, st.onError)

\* The tables have what the message of an auction says.
Stored(T, ad) ==
    /\ GetAuctionData(T, ad.id).pieceCid = ad.pieceCid
    /\ GetAuctionData(T, ad.id).pieceSize = ad.pieceSize
    /\ GetAuctionData(T, ad.id).duration = ad.duration
    /\ ad.wallet = Absent => GetRemoteWallet(T, ad.id) = Absent
    /\ ad.wallet # Absent =>
          /\ GetRemoteWallet(T, ad.id) # Absent
          /\ Parse(GetRemoteWallet(T, ad.id)[1].addr) = ad.wallet[1].addr

Tables(T) ==
    /\ T = [data |-> T.data, deals |-> T.deals, wallets |-> T.wallets]
    /\ T.deals = [d \in DOMAIN T.deals |-> T.deals[d]]
    /\ DOMAIN T.deals \subseteq Deals
    /\ DOMAIN T.wallets \subseteq DOMAIN T.data
    /\ \A ad \in AuctionDeals : \A i \in DOMAIN ad.proposals :
          <<ad.id, i>> \in DOMAIN T.deals => ad.id \in DOMAIN T.data
    /\ \A ad \in AuctionDeals : ad.id \in DOMAIN T.data => Stored(T, ad)

Rows(D, C, P) == \A d \in DOMAIN D : Claim(D, C, P, d, D[d], D[d].status)

\* What was accepted, and so what the chain has, is what was asked for.
Accepted(C, P) ==
    /\ P = [d \in Deals |-> [sent |-> P[d].sent, accepted |-> P[d].accepted,
                             terms |-> P[d].terms]]
    /\ C = [d \in Deals |-> C[d]]
    /\ \A d \in Deals :
          /\ P[d].sent \in Nat /\ P[d].accepted \in Nat
          /\ C[d] # "unknown" => P[d].accepted > 0
          /\ P[d].accepted > 0 => TermsOf(d, P[d].terms[1])

ReportsOf(d) == [error : BOOLEAN, dealID : {0, DealIDOf[d]}, expiration : Nat]

\* The reports of a deal: what each one that has no error says is true.
Truthful(C, P, R) ==
    /\ R = [d \in Deals |-> R[d]]
    /\ \A d \in Deals :
          /\ R[d] \in Seq(ReportsOf(d))
          /\ \A i \in DOMAIN R[d] : ~R[d][i].error => OnChain(C, P, d, R[d][i])

ConfirmedInv ==
    /\ Tables(db)
    /\ Rows(db.deals, chain, proposals)
    /\ proc = [p \in Processes |-> proc[p]]
    /\ \A p \in Processes : Working(db.deals, chain, proposals, proc[p])
    /\ Accepted(chain, proposals)
    /\ Truthful(chain, proposals, reports)

--------------------------------------------------------------------------------
(* Proposing a deal, without faults. *)

\* The goroutine is to propose the deal, or to save what came of it.
Making(st) ==
    st # Idle /\ st.step \in {"propose", "save"} /\ st.aud.status = "deal-making"

\* Nothing was accepted yet, and what was sent is counted.
Untaken(prop, retries) ==
    /\ retries \in Nat
    /\ prop.sent <= retries /\ retries <= MaxRetries /\ prop.accepted = 0

Spent(prop) == prop.sent <= MaxRetries + 1 /\ prop.accepted <= 1

\* A goroutine that makes a deal has it to itself and has counted the proposals.
Counted(D, P, st) ==
    st # Idle =>
        IF Making(st)
        THEN /\ D[st.deal].status = "deal-making" /\ D[st.deal].executing = TRUE
             /\ st.step = "propose" => Untaken(P[st.deal], st.aud.retries)
             /\ st.step = "save" =>
                   /\ Spent(P[st.deal])
                   /\ st.to = "deal-making" => Untaken(P[st.deal], st.aud.retries)
        ELSE D[st.deal].status # "deal-making"

\* A proposal is made of a copy that was claimed for it, the rest is done with
\* others.  What follows a write is about the same deal, and only a goroutine that
\* makes a deal leaves it to be made.
Follows(st) ==
    st # Idle =>
        /\ st.step = "propose" => st.aud.status = "deal-making"
        /\ st.step \in {"resolve", "check", "report"} => st.aud.status # "deal-making"
        /\ st.step = "save" =>
              /\ st.then # Idle => st.then.deal = st.deal /\ st.to # "deal-making"
              /\ st.onError # Idle => st.onError.deal = st.deal
              /\ ~Making(st.then)
              /\ st.aud.status # "deal-making" =>
                    st.to # "deal-making" /\ ~Making(st.onError)

FollowsAll(st) ==
    /\ Follows(st)
    /\ st # Idle /\ st.step = "save" => Follows(st.then) /\ Follows(st.onError)

\* A deal may be given up: nobody accepted it, or its time is over.
GivenUp(P, h, d) == P[d].accepted = 0 \/ h >= P[d].terms[1].start

\* A copy that says error is one to be reported.
Blames(P, h, st) ==
    st # Idle /\ st.aud.error = TRUE =>
        /\ st.step = "report" \/ (st.step = "save" /\ st.to \in Final)
        /\ GivenUp(P, h, st.deal)

BlamesAll(P, h, st) ==
    /\ Blames(P, h, st)
    /\ st # Idle /\ st.step = "save" =>
          /\ Blames(P, h, st.then)
          /\ st.aud.status # "deal-making" => Blames(P, h, st.onError)

RowCounted(D, P, Q, d) ==
    /\ D[d].executing \in BOOLEAN
    /\ D[d].status = "deal-making" /\ ~D[d].executing => Untaken(P[d], D[d].retries)
    /\ D[d].status = "deal-making" /\ D[d].executing =>
          \E p \in Processes : Making(Q[p]) /\ Q[p].deal = d
    /\ D[d].status # "deal-making" => Spent(P[d])

Clock(t, h) == t \in Nat /\ h \in Nat /\ t <= h

Procs(D, P, Q, h) ==
    \A p \in Processes : /\ Counted(D, P, Q[p])
                         /\ FollowsAll(Q[p])
                         /\ BlamesAll(P, h, Q[p])

\* No two goroutines make the same deal.
Alone(Q) ==
    \A p, q \in Processes : Making(Q[p]) /\ Making(Q[q]) /\ Q[p].deal = Q[q].deal => p = q

RowsMade(D, P, Q, h) ==
    \A d \in DOMAIN D :
        /\ RowCounted(D, P, Q, d)
        /\ D[d].error = TRUE => D[d].status \in Final /\ GivenUp(P, h, d)

ReportsMade(D, P, R, h) ==
    \A d \in Deals :
        /\ d \notin DOMAIN D => P[d].sent = 0 /\ P[d].accepted = 0
        /\ R[d] # <<>> => d \in DOMAIN D /\ D[d].status # "deal-making"
        /\ \A i \in DOMAIN R[d] : R[d][i].error = TRUE => GivenUp(P, h, d)

MakingInv ==
    /\ Clock(tickHeight, height)
    /\ Procs(db.deals, proposals, proc, height)
    /\ Alone(proc)
    /\ RowsMade(db.deals, proposals, proc, height)
    /\ ReportsMade(db.deals, proposals, reports, height)

--------------------------------------------------------------------------------
(* Deals and their copies. *)

\* A deal is one proposal of one auction.
LEMMA OneProposal ==
    ASSUME NEW a \in AuctionDeals, NEW b \in AuctionDeals, NEW i, NEW j,
           <<a.id, i>> = <<b.id, j>>
    PROVE  a = b /\ i = j
BY MessagesAssumption, Zenon

\* The key of a proposal is a deal.
LEMMA ProposalIsDeal ==
    ASSUME NEW ad \in AuctionDeals, NEW i \in DOMAIN ad.proposals
    PROVE  <<ad.id, i>> \in Deals
BY DEF Deals

\* What was asked of a deal fixes its epochs.
LEMMA SameTerms ==
    ASSUME NEW d, NEW t, NEW u, TermsOf(d, t), TermsOf(d, u)
    PROVE  t.start = u.start /\ t.end = u.end /\ t.start \in Nat /\ t.end \in Nat
<1>1. PICK a \in AuctionDeals : \E i \in DOMAIN a.proposals :
          d = <<a.id, i>> /\ AsAsked(a, i, t)
    BY Zenon DEF TermsOf
<1>2. PICK i \in DOMAIN a.proposals : d = <<a.id, i>> /\ AsAsked(a, i, t)
    BY <1>1, Zenon
<1>3. PICK b \in AuctionDeals : \E j \in DOMAIN b.proposals :
          d = <<b.id, j>> /\ AsAsked(b, j, u)
    BY Zenon DEF TermsOf
<1>4. PICK j \in DOMAIN b.proposals : d = <<b.id, j>> /\ AsAsked(b, j, u)
    BY <1>3, Zenon
<1>5. a = b /\ i = j
    BY <1>2, <1>4, OneProposal
<1>6. a.proposals[i].startEpoch \in Nat /\ a.duration \in Nat
    BY MessagesAssumption, Zenon
<1> QED BY <1>2, <1>4, <1>5, <1>6 DEF AsAsked

\* The copies and the chain of a later state: nothing a copy says is undone.
Later(D, C, P, D1, C1, P1) ==
    /\ DOMAIN D \subseteq DOMAIN D1 /\ DOMAIN D \subseteq Deals
    /\ \A d \in Deals :
          /\ C[d] # "unknown" => C1[d] # "unknown"
          /\ C[d] \in {"active", "slashed"} =>
                /\ C1[d] \in {"active", "slashed"}
                /\ P1[d].terms[1].end = P[d].terms[1].end

\* A copy stays one.
LEMMA CopyKept ==
    ASSUME NEW D, NEW C, NEW P, NEW D1, NEW C1, NEW P1, NEW d, NEW aud,
           Later(D, C, P, D1, C1, P1), Copy(D, C, d, aud)
    PROVE  Copy(D1, C1, d, aud)
BY Zenon DEF Later, Copy

\* A copy that may be written may be written later.
LEMMA ClaimKept ==
    ASSUME NEW D, NEW C, NEW P, NEW D1, NEW C1, NEW P1, NEW d, NEW aud, NEW status,
           Later(D, C, P, D1, C1, P1), Claim(D, C, P, d, aud, status)
    PROVE  Claim(D1, C1, P1, d, aud, status)
<1>1. Copy(D, C, d, aud) /\ Copy(D1, C1, d, aud)
    BY CopyKept, Zenon DEF Claim
<1>2. d \in Deals
    BY <1>1, Zenon DEF Copy, Later
<1>3. OnChain(C, P, d, aud) => OnChain(C1, P1, d, aud)
    BY <1>2, Zenon DEF OnChain, Later
<1> QED BY <1>1, <1>3, Zenon DEF Claim

\* What a goroutine does stays in order while others work.
LEMMA SimpleKept ==
    ASSUME NEW D, NEW C, NEW P, NEW D1, NEW C1, NEW P1, NEW st,
           Later(D, C, P, D1, C1, P1), Simple(D, C, P, st)
    PROVE  Simple(D1, C1, P1, st)
BY CopyKept, ClaimKept, Zenon DEF Simple

LEMMA WorkingKept ==
    ASSUME NEW D, NEW C, NEW P, NEW D1, NEW C1, NEW P1, NEW st,
           Later(D, C, P, D1, C1, P1), Working(D, C, P, st)
    PROVE  Working(D1, C1, P1, st)
BY SimpleKept, ClaimKept, Zenon DEF Working

\* Idle is always in order.
LEMMA IdleIsSimple ==
    ASSUME NEW D, NEW C, NEW P
    PROVE  Simple(D, C, P, Idle)
BY Zenon DEF Simple

\* So is a write of a copy that may be written.
LEMMA SavingIsSimple ==
    ASSUME NEW D, NEW C, NEW P, NEW d, NEW aud, NEW to, Claim(D, C, P, d, aud, to)
    PROVE  Simple(D, C, P, Saving(d, aud, to, Idle, Idle))
BY Zenon DEF Simple, Saving

LEMMA SavingIsWorking ==
    ASSUME NEW D, NEW C, NEW P, NEW d, NEW aud, NEW to, NEW then, NEW onError,
           Claim(D, C, P, d, aud, to), Simple(D, C, P, then), Simple(D, C, P, onError)
    PROVE  Working(D, C, P, Saving(d, aud, to, then, onError))
BY Zenon DEF Working, Saving

\* A copy that says error may be written with any status.
LEMMA ErrorClaim ==
    ASSUME NEW D, NEW C, NEW P, NEW d, NEW aud, NEW to, Copy(D, C, d, aud)
    PROVE  Claim(D, C, P, d, [aud EXCEPT !.error = TRUE], to)
<1> DEFINE new == [aud EXCEPT !.error = TRUE]
<1>1. aud = [x \in RowFields |-> aud[x]]
    BY Zenon DEF Copy
<1>2. /\ new = [x \in RowFields |-> new[x]] /\ new.error = TRUE
      /\ \A x \in RowFields : x # "error" => new[x] = aud[x]
    BY <1>1, Zenon DEF RowFields
<1>3. /\ new.data = aud.data /\ new.sp = aud.sp /\ new.start = aud.start
      /\ new.verified = aud.verified /\ new.dealID = aud.dealID
      /\ new.expiration = aud.expiration
    BY <1>2, Zenon DEF RowFields
<1>4. OfProposal(d, new)
    BY <1>3 DEF Copy, OfProposal
<1> QED BY <1>2, <1>3, <1>4, Zenon DEF Copy, Claim


\* A row with one column changed.
LEMMA RowExcept ==
    ASSUME NEW row, row = [x \in RowFields |-> row[x]], NEW f \in RowFields, NEW v,
           NEW new, new = [row EXCEPT ![f] = v]
    PROVE  /\ new = [x \in RowFields |-> new[x]]
           /\ new[f] = v
           /\ \A x \in RowFields : x # f => new[x] = row[x]
BY Zenon

\* A copy with other columns changed is a copy.
LEMMA CopyOfCopy ==
    ASSUME NEW D, NEW C, NEW d, NEW aud, NEW new, Copy(D, C, d, aud),
           new = [x \in RowFields |-> new[x]],
           new.data = aud.data, new.sp = aud.sp, new.start = aud.start,
           new.verified = aud.verified, new.error = aud.error,
           new.dealID = aud.dealID, new.expiration = aud.expiration
    PROVE  Copy(D, C, d, new)
BY Zenon DEF Copy, OfProposal

\* A copy that is not final may be written.
LEMMA OpenClaim ==
    ASSUME NEW D, NEW C, NEW P, NEW d, NEW aud, NEW to, Copy(D, C, d, aud), to \notin Final
    PROVE  Claim(D, C, P, d, aud, to)
BY Zenon DEF Claim

\* An error of the deal maker is a write in order.
LEMMA SavingErrorIsSimple ==
    ASSUME NEW D, NEW C, NEW P, NEW d, NEW aud, Copy(D, C, d, aud)
    PROVE  Simple(D, C, P, SavingError(d, aud))
BY ErrorClaim, SavingIsSimple, Zenon DEF SavingError

\* What follows a proposal is in order, whatever the provider answered.
LEMMA AfterExecutionWorks ==
    ASSUME NEW D, NEW C, NEW P, NEW d, NEW aud, NEW result, Copy(D, C, d, aud)
    PROVE  Working(D, C, P, AfterExecution(d, aud, result))
<1> DEFINE counted == [aud EXCEPT !.retries = @ + 1]
           exhausted == [counted EXCEPT !.error = TRUE]
           zeroed == [aud EXCEPT !.retries = 0]
           taken == [aud EXCEPT !.retries = 0, !.proposal = result.id]
           claimed == At("publish-accepted", d, aud)
<1>1. Simple(D, C, P, SavingError(d, aud))
    BY SavingErrorIsSimple, Zenon
<1>2. aud = [x \in RowFields |-> aud[x]]
    BY Zenon DEF Copy
<1>3. {"deal-making", "confirmation"} \cap Final = {}
    BY Zenon DEF Final
<1>4. Copy(D, C, d, counted)
    <2>1. "retries" \in RowFields
        BY Zenon DEF RowFields
    <2>2. /\ counted = [x \in RowFields |-> counted[x]]
          /\ \A x \in RowFields : x # "retries" => counted[x] = aud[x]
        BY <1>2, <2>1, RowExcept, Zenon
    <2> HIDE DEF counted
    <2>3. /\ counted.data = aud.data /\ counted.sp = aud.sp
          /\ counted.start = aud.start /\ counted.verified = aud.verified
          /\ counted.error = aud.error /\ counted.dealID = aud.dealID
          /\ counted.expiration = aud.expiration
        BY <2>2, Zenon DEF RowFields
    <2> QED BY <2>2, <2>3, CopyOfCopy, Zenon
<1>5. Copy(D, C, d, taken)
    <2>1. "retries" \in RowFields /\ "proposal" \in RowFields
        BY Zenon DEF RowFields
    <2>2. /\ zeroed = [x \in RowFields |-> zeroed[x]]
          /\ \A x \in RowFields : x # "retries" => zeroed[x] = aud[x]
        BY <1>2, <2>1, RowExcept, Zenon
    <2>3. taken = [zeroed EXCEPT !.proposal = result.id]
        BY Zenon
    <2> HIDE DEF zeroed, taken
    <2>4. /\ taken = [x \in RowFields |-> taken[x]]
          /\ \A x \in RowFields : x # "proposal" => taken[x] = zeroed[x]
        BY <2>1, <2>2, <2>3, RowExcept, Zenon
    <2>5. /\ taken.data = aud.data /\ taken.sp = aud.sp
          /\ taken.start = aud.start /\ taken.verified = aud.verified
          /\ taken.error = aud.error /\ taken.dealID = aud.dealID
          /\ taken.expiration = aud.expiration
        BY <2>2, <2>4, Zenon DEF RowFields
    <2> QED BY <2>4, <2>5, CopyOfCopy, Zenon
<1>6. Working(D, C, P, SavingRetry(d, aud))
    <2> HIDE DEF counted
    <2>1. Claim(D, C, P, d, exhausted, "report-finalized")
        BY <1>4, ErrorClaim, Zenon
    <2>2. Claim(D, C, P, d, counted, "deal-making")
        BY <1>3, <1>4, OpenClaim, Zenon
    <2>3. SavingRetry(d, aud) \in
             {Saving(d, exhausted, "report-finalized", Idle, SavingError(d, aud)),
              Saving(d, counted, "deal-making", Idle, SavingError(d, aud))}
        BY Zenon DEF SavingRetry, counted
    <2> QED BY <1>1, <2>1, <2>2, <2>3, SavingIsWorking, IdleIsSimple, Zenon
<1>7. Working(D, C, P, SavingAccepted(d, aud, result.id))
    <2> HIDE DEF taken
    <2>1. Claim(D, C, P, d, taken, "confirmation")
        BY <1>3, <1>5, OpenClaim, Zenon
    <2>2. Simple(D, C, P, claimed)
        BY Zenon DEF Simple, At
    <2>3. SavingAccepted(d, aud, result.id) =
             Saving(d, taken, "confirmation", claimed, SavingError(d, aud))
        BY Zenon DEF SavingAccepted, taken
    <2> QED BY <1>1, <2>1, <2>2, <2>3, SavingIsWorking, Zenon
<1>8. Working(D, C, P, SavingError(d, aud))
    BY <1>1, Zenon DEF Working
<1> QED BY <1>6, <1>7, <1>8, Zenon DEF AfterExecution


--------------------------------------------------------------------------------
(* Proposals, publish messages and the chain. *)

\* The tables say of a copy's auction what its message said.
LEMMA StoredForCopy ==
    ASSUME Tables(db), NEW d, NEW aud, Copy(db.deals, chain, d, aud)
    PROVE  \E ad \in AuctionDeals : \E i \in DOMAIN ad.proposals :
              /\ d = <<ad.id, i>>
              /\ aud.data = ad.id
              /\ aud.sp = ad.proposals[i].sp
              /\ aud.start = ad.proposals[i].startEpoch
              /\ aud.verified = ad.proposals[i].verified
              /\ Stored(db, ad)
<1>1. PICK ad \in AuctionDeals : \E i \in DOMAIN ad.proposals :
              /\ d = <<ad.id, i>>
              /\ aud.data = ad.id
              /\ aud.sp = ad.proposals[i].sp
              /\ aud.start = ad.proposals[i].startEpoch
              /\ aud.verified = ad.proposals[i].verified
    BY Zenon DEF Copy, OfProposal
<1>2. PICK i \in DOMAIN ad.proposals :
              /\ d = <<ad.id, i>>
              /\ aud.data = ad.id
              /\ aud.sp = ad.proposals[i].sp
              /\ aud.start = ad.proposals[i].startEpoch
              /\ aud.verified = ad.proposals[i].verified
    BY <1>1, Zenon
<1>3. <<ad.id, i>> \in DOMAIN db.deals
    BY <1>2, Zenon DEF Copy
<1>4. Stored(db, ad)
    BY <1>3, Zenon DEF Tables
<1> QED BY <1>2, <1>4, Zenon

\* A proposal that is sent has the terms that were asked for.
LEMMA ProposedAsAsked ==
    ASSUME Tables(db), NEW d, NEW aud, Copy(db.deals, chain, d, aud),
           NEW net, NEW p,
           p = CreateDealProposalV110(GetAuctionData(db, aud.data), aud,
                                      GetRemoteWallet(db, aud.data), net),
           p # Absent
    PROVE  TermsOf(d, p[1])
<1> DEFINE data == GetAuctionData(db, aud.data)
           rw == GetRemoteWallet(db, aud.data)
<1>1. PICK ad \in AuctionDeals : \E i \in DOMAIN ad.proposals :
              /\ d = <<ad.id, i>>
              /\ aud.data = ad.id
              /\ aud.sp = ad.proposals[i].sp
              /\ aud.start = ad.proposals[i].startEpoch
              /\ aud.verified = ad.proposals[i].verified
              /\ Stored(db, ad)
    BY StoredForCopy, Zenon
<1>2. PICK i \in DOMAIN ad.proposals :
              /\ d = <<ad.id, i>>
              /\ aud.data = ad.id
              /\ aud.sp = ad.proposals[i].sp
              /\ aud.start = ad.proposals[i].startEpoch
              /\ aud.verified = ad.proposals[i].verified
              /\ Stored(db, ad)
    BY <1>1, Zenon
<1>3. /\ data.pieceCid = ad.pieceCid /\ data.pieceSize = ad.pieceSize
      /\ data.duration = ad.duration
      /\ ad.wallet = Absent => rw = Absent
      /\ ad.wallet # Absent => rw # Absent /\ Parse(rw[1].addr) = ad.wallet[1].addr
    BY <1>2, Zenon DEF Stored
<1> HIDE DEF data, rw
<1>4. p = Present(DealProposal(data, aud, rw))
    BY Zenon DEF CreateDealProposalV110, data, rw
<1>5. p[1] = DealProposal(data, aud, rw)
    BY <1>4 DEF Present
<1>6. AsAsked(ad, i, DealProposal(data, aud, rw))
    BY <1>2, <1>3, Zenon DEF AsAsked, DealProposal
<1> QED BY <1>2, <1>5, <1>6, Zenon DEF TermsOf

\* A deal id that is resolved is the one of this deal, and the chain has it.
LEMMA ResolvedID ==
    ASSUME Tables(db), Accepted(chain, proposals),
           NEW d, NEW aud, Copy(db.deals, chain, d, aud), NEW net
    PROVE  /\ TryResolvingDealID(d, aud, net) \in {0, DealIDOf[d]}
           /\ TryResolvingDealID(d, aud, net) # 0 => chain[d] # "unknown"
<1> DEFINE id == TryResolvingDealID(d, aud, net)
           cid == GetAuctionData(db, aud.data).pieceCid
           terms == proposals[d].terms[1]
           msg == [deals |-> <<OtherDeal, terms>>, ids |-> <<OtherID, DealIDOf[d]>>,
                   exitCode |-> 0]
           resolved == ResolveDealIDFromMessage(msg, aud.sp, cid, aud.start)
<1>1. PICK ad \in AuctionDeals : \E i \in DOMAIN ad.proposals :
              /\ d = <<ad.id, i>>
              /\ aud.data = ad.id
              /\ aud.sp = ad.proposals[i].sp
              /\ aud.start = ad.proposals[i].startEpoch
              /\ aud.verified = ad.proposals[i].verified
              /\ Stored(db, ad)
    BY StoredForCopy, Zenon
<1>2. PICK i \in DOMAIN ad.proposals :
              /\ d = <<ad.id, i>>
              /\ aud.data = ad.id
              /\ aud.sp = ad.proposals[i].sp
              /\ aud.start = ad.proposals[i].startEpoch
              /\ aud.verified = ad.proposals[i].verified
              /\ Stored(db, ad)
    BY <1>1, Zenon
<1>3. cid = ad.pieceCid
    BY <1>2, Zenon DEF Stored
<1>4. CheckDealStatusWithStorageProvider(aud.proposal, GetRemoteWallet(db, aud.data),
                                         net, Published(d))
         \in {Absent, Published(d)}
    BY Zenon DEF CheckDealStatusWithStorageProvider, CheckDealStatusV110, CheckDealStatusV120
<1>5. CASE chain[d] = "unknown"
    BY <1>4, <1>5, Zenon DEF TryResolvingDealID, Published
<1>6. CASE chain[d] # "unknown"
    <2>1. Published(d) = Present(msg)
        BY <1>6, Zenon DEF Published
    <2>2. Present(msg)[1] = msg
        BY Zenon DEF Present
    <2>3. id \in {0, resolved}
        BY <1>4, <2>1, <2>2, Zenon DEF TryResolvingDealID
    <2>4. resolved \in {0, DealIDOf[d]}
        <3> DEFINE same == {j \in DOMAIN msg.deals :
                               /\ msg.deals[j].provider = Parse(aud.sp)
                               /\ msg.deals[j].pieceCid = cid
                               /\ msg.deals[j].start = aud.start}
        <3>1. 1 \notin same
            BY <1>2, <1>3, MessagesAssumption
        <3>2. same \subseteq {1, 2}
            OBVIOUS
        <3>3. resolved \in {0, msg.ids[Min(same)]} /\ (same = {} => resolved = 0)
            BY Zenon DEF ResolveDealIDFromMessage
        <3>4. msg.ids[2] = DealIDOf[d]
            BY Zenon
        <3> HIDE DEF same, resolved, msg
        <3>5. CASE same = {}
            BY <3>3, <3>5, Zenon
        <3>6. CASE same = {2}
            <4>1. Min(same) = 2
                BY <3>6 DEF Min
            <4> QED BY <3>3, <3>4, <4>1, Zenon
        <3> QED BY <3>1, <3>2, <3>5, <3>6, Zenon
    <2> QED BY <1>6, <2>3, <2>4, Zenon
<1> QED BY <1>5, <1>6, Zenon

\* What the chain says of a deal's id is what it knows of the deal.
LEMMA ChainDealOfID ==
    ASSUME NEW d \in Deals
    PROVE  ChainDealOf(DealIDOf[d]) = ChainDeal(chain[d], proposals[d].terms[1].end)
<1>1. DealIDOf[d] # OtherID
    BY MessagesAssumption, Zenon
<1>2. (CHOOSE e \in Deals : DealIDOf[e] = DealIDOf[d]) = d
    BY MessagesAssumption, Zenon
<1> QED BY <1>1, <1>2, Zenon DEF ChainDealOf


--------------------------------------------------------------------------------
(* Steps: what they write, and what stays in order. *)

Written(T, d, row, T1) == T1 = [T EXCEPT !.deals[d] = row]

OneRow(D, d, row, D1) ==
    /\ DOMAIN D1 = DOMAIN D
    /\ D1[d] = row
    /\ \A e \in DOMAIN D : e # d => D1[e] = D[e]

\* A row that is written replaces the row, and nothing else changes.
LEMMA TableUpdated ==
    ASSUME NEW T, Tables(T), NEW d \in DOMAIN T.deals, NEW row, NEW T1,
           Written(T, d, row, T1)
    PROVE  Tables(T1) /\ OneRow(T.deals, d, row, T1.deals)
<1>1. T = [data |-> T.data, deals |-> T.deals, wallets |-> T.wallets]
    BY Zenon DEF Tables
<1>2. /\ T1 = [data |-> T.data, deals |-> [T.deals EXCEPT ![d] = row],
               wallets |-> T.wallets]
    BY <1>1, Zenon DEF Written
<1>3. /\ T1.data = T.data /\ T1.wallets = T.wallets
      /\ T1.deals = [T.deals EXCEPT ![d] = row]
    BY <1>2, Zenon
<1>4. /\ DOMAIN T1.deals = DOMAIN T.deals
      /\ T1.deals[d] = row
      /\ \A e \in DOMAIN T.deals : e # d => T1.deals[e] = T.deals[e]
    BY <1>3, Zenon
<1>5. T1.deals = [e \in DOMAIN T1.deals |-> T1.deals[e]]
    BY <1>3, Zenon
<1>6. T1 = [data |-> T1.data, deals |-> T1.deals, wallets |-> T1.wallets]
    BY <1>2, <1>3, Zenon
<1>7. \A ad \in AuctionDeals : Stored(T, ad) => Stored(T1, ad)
    BY <1>3, Zenon DEF Stored, GetAuctionData, GetRemoteWallet
<1>8. Tables(T1)
    BY <1>3, <1>4, <1>5, <1>6, <1>7, Zenon DEF Tables
<1> QED BY <1>4, <1>8, Zenon DEF OneRow

\* A row that may be written keeps the rows in order.
LEMMA RowsUpdated ==
    ASSUME NEW T, Tables(T), NEW C, NEW P, Rows(T.deals, C, P),
           NEW d \in DOMAIN T.deals, NEW row, NEW T1,
           Written(T, d, row, T1),
           Claim(T.deals, C, P, d, row, row.status)
    PROVE  /\ Tables(T1)
           /\ Rows(T1.deals, C, P)
           /\ Later(T.deals, C, P, T1.deals, C, P)
<1>1. Tables(T1) /\ OneRow(T.deals, d, row, T1.deals)
    BY TableUpdated, Zenon
<1>2. Later(T.deals, C, P, T1.deals, C, P)
    BY <1>1, Zenon DEF Later, Tables, OneRow
<1>3. ASSUME NEW e \in DOMAIN T1.deals
      PROVE  Claim(T1.deals, C, P, e, T1.deals[e], T1.deals[e].status)
    <2>1. Claim(T.deals, C, P, e, T1.deals[e], T1.deals[e].status)
        BY <1>1, <1>3, Zenon DEF Rows, OneRow
    <2> QED BY <1>2, <2>1, ClaimKept, Zenon
<1> QED BY <1>1, <1>2, <1>3, Zenon DEF Rows

\* A state is not earlier than itself.
LEMMA LaterItself ==
    ASSUME NEW T, Tables(T), NEW C, NEW P
    PROVE  Later(T.deals, C, P, T.deals, C, P)
BY Zenon DEF Later, Tables

\* What was reported stays true.
LEMMA TruthfulKept ==
    ASSUME NEW D, NEW C, NEW P, NEW D1, NEW C1, NEW P1, NEW R,
           Later(D, C, P, D1, C1, P1), Truthful(C, P, R)
    PROVE  Truthful(C1, P1, R)
<1>1. \A d \in Deals : \A report : OnChain(C, P, d, report) => OnChain(C1, P1, d, report)
    BY Zenon DEF OnChain, Later
<1> QED BY <1>1, Zenon DEF Truthful

\* A step that writes in order, reports nothing and leaves every goroutine as it
\* was or in order keeps the invariant.
LEMMA StepKeeps ==
    ASSUME ConfirmedInv,
           Later(db.deals, chain, proposals, db'.deals, chain', proposals'),
           Tables(db'), Rows(db'.deals, chain', proposals'),
           Accepted(chain', proposals'), reports' = reports,
           proc' = [p \in Processes |-> proc'[p]],
           \A p \in Processes :
              \/ proc'[p] = proc[p]
              \/ Working(db'.deals, chain', proposals', proc'[p])
    PROVE  ConfirmedInv'
<1>1. Truthful(chain', proposals', reports')
    BY TruthfulKept, Zenon DEF ConfirmedInv
<1>2. \A p \in Processes : Working(db'.deals, chain', proposals', proc'[p])
    BY WorkingKept, Zenon DEF ConfirmedInv
<1> QED BY <1>1, <1>2, Zenon DEF ConfirmedInv

\* So does a step of one goroutine that only changes what it does.
LEMMA GoesKeeps ==
    ASSUME ConfirmedInv, NEW p \in Processes, NEW st, Goes(p, st),
           UNCHANGED <<db, proposals, chain, reports>>,
           Working(db.deals, chain, proposals, st)
    PROVE  ConfirmedInv'
<1>1. /\ proc' = [q \in Processes |-> proc'[q]]
      /\ proc'[p] = st
      /\ \A q \in Processes : q # p => proc'[q] = proc[q]
    BY Zenon DEF ConfirmedInv, Goes
<1>2. Later(db.deals, chain, proposals, db'.deals, chain', proposals')
    BY LaterItself, Zenon DEF ConfirmedInv
<1>3. \A q \in Processes : \/ proc'[q] = proc[q]
                           \/ Working(db'.deals, chain', proposals', proc'[q])
    BY <1>1, Zenon
<1>4. /\ Tables(db') /\ Rows(db'.deals, chain', proposals')
      /\ Accepted(chain', proposals') /\ reports' = reports
    BY Zenon DEF ConfirmedInv
<1> QED BY <1>1, <1>2, <1>3, <1>4, StepKeeps, Zenon


--------------------------------------------------------------------------------
(* Confirmed deals: every step keeps ConfirmedInv. *)

\* The new row of a proposal.
LEMMA NewRow ==
    ASSUME NEW D, NEW C, NEW P, NEW ad \in AuctionDeals, NEW i \in DOMAIN ad.proposals,
           <<ad.id, i>> \in DOMAIN D
    PROVE  LET row == CreateAuctionDeal(ad, i)
           IN  Claim(D, C, P, <<ad.id, i>>, row, row.status)
<1> DEFINE row == CreateAuctionDeal(ad, i)
<1>1. row = [x \in RowFields |-> row[x]]
    BY Zenon DEF CreateAuctionDeal, RowFields
<1>2. /\ row.data = ad.id /\ row.sp = ad.proposals[i].sp
      /\ row.start = ad.proposals[i].startEpoch
      /\ row.verified = ad.proposals[i].verified /\ row.status = "deal-making"
      /\ row.error = FALSE /\ row.dealID = 0 /\ row.expiration = 0
    BY Zenon DEF CreateAuctionDeal
<1> HIDE DEF row
<1>3. OfProposal(<<ad.id, i>>, row)
    BY <1>2, Zenon DEF OfProposal
<1>4. Copy(D, C, <<ad.id, i>>, row)
    <2>1. row.error \in BOOLEAN
        BY <1>2, Zenon
    <2>2. row.expiration \in Nat
        BY <1>2
    <2>3. row.dealID \in {0, DealIDOf[<<ad.id, i>>]} /\ ~(row.dealID # 0)
        BY <1>2, Zenon
    <2> QED BY <1>1, <1>3, <2>1, <2>2, <2>3, Zenon DEF Copy
<1>5. row.status \notin Final
    BY <1>2, Zenon DEF Final
<1>6. Claim(D, C, P, <<ad.id, i>>, row, row.status)
    BY <1>4, <1>5, OpenClaim, Zenon
<1> QED BY <1>6, Zenon DEF row

\* Create writes the auction, its wallet and a row for each proposal.
LEMMA Creates ==
    ASSUME NEW T, Tables(T), NEW ad \in AuctionDeals, MayCreate(T, ad), NEW T1,
           T1 = CreateAll(T, ad)
    PROVE  /\ Tables(T1)
           /\ DOMAIN T1.deals = DOMAIN T.deals \union {<<ad.id, i>> : i \in DOMAIN ad.proposals}
           /\ \A d \in DOMAIN T.deals : T1.deals[d] = T.deals[d]
           /\ \A i \in DOMAIN ad.proposals :
                 <<ad.id, i>> \notin DOMAIN T.deals
                 /\ T1.deals[<<ad.id, i>>] = CreateAuctionDeal(ad, i)
<1> DEFINE keys == {<<ad.id, i>> : i \in DOMAIN ad.proposals}
           drow == [batch |-> ad.batch, payloadCid |-> Text(ad.payloadCid),
                    pieceCid |-> Text(ad.pieceCid), pieceSize |-> ad.pieceSize,
                    duration |-> ad.duration, carURL |-> ad.carURL]
           w == ad.wallet[1]
           wrow == [peer |-> Text(w.peer), token |-> w.token, addr |-> Text(w.addr),
                    maddrs |-> TextAll(w.maddrs)]
           new == [k \in DOMAIN T.deals \union keys |->
                     IF k \in keys THEN CreateAuctionDeal(ad, k[2]) ELSE T.deals[k]]
           wallets == IF ad.wallet = Absent THEN T.wallets
                      ELSE Insert(T.wallets, ad.id, wrow)
<1>1. T = [data |-> T.data, deals |-> T.deals, wallets |-> T.wallets]
    BY Zenon DEF Tables
<1>2. ad.id \notin DOMAIN T.data
    BY Zenon DEF MayCreate
<1>3. CreateAuctionData(T, ad) =
        [data |-> Insert(T.data, ad.id, drow), deals |-> T.deals, wallets |-> T.wallets]
    <2> HIDE DEF drow
    <2>1. [T EXCEPT !.data = Insert(@, ad.id, drow)] =
            [data |-> Insert(T.data, ad.id, drow), deals |-> T.deals,
             wallets |-> T.wallets]
        BY <1>1
    <2> QED BY <2>1, Zenon DEF CreateAuctionData, drow
<1>4. T1 = [data |-> Insert(T.data, ad.id, drow), deals |-> new, wallets |-> wallets]
    <2> DEFINE D0 == CreateAuctionData(T, ad)
               D1 == [D0 EXCEPT !.deals = new]
    <2>1. T1 = IF ad.wallet = Absent THEN D1 ELSE CreateRemoteWallet(D1, ad.id, w)
        BY Zenon DEF CreateAll
    <2>2. D0 = [data |-> Insert(T.data, ad.id, drow), deals |-> T.deals,
                wallets |-> T.wallets]
        BY <1>3, Zenon
    <2>3. CreateRemoteWallet(D1, ad.id, w) =
             [D1 EXCEPT !.wallets = Insert(@, ad.id, wrow)]
        BY Zenon DEF CreateRemoteWallet
    <2> HIDE DEF drow, wrow, D0, new
    <2>4. D1 = [data |-> Insert(T.data, ad.id, drow), deals |-> new,
                wallets |-> T.wallets]
        BY <2>2
    <2> HIDE DEF D1
    <2>5. [D1 EXCEPT !.wallets = Insert(@, ad.id, wrow)] =
             [data |-> Insert(T.data, ad.id, drow), deals |-> new,
              wallets |-> Insert(T.wallets, ad.id, wrow)]
        BY <2>4
    <2> QED BY <2>1, <2>3, <2>4, <2>5, Zenon
<1>5. /\ T1.data = Insert(T.data, ad.id, drow) /\ T1.deals = new
      /\ T1.wallets = wallets
    BY <1>4
<1>6. /\ DOMAIN T1.deals = DOMAIN T.deals \union keys
      /\ T1.deals = [d \in DOMAIN T1.deals |-> T1.deals[d]]
    BY <1>5, Zenon
<1>7. \A i \in DOMAIN ad.proposals : <<ad.id, i>> \notin DOMAIN T.deals
    BY <1>2, Zenon DEF Tables
<1>8. \A d \in DOMAIN T.deals : d \notin keys /\ T1.deals[d] = T.deals[d]
    BY <1>5, <1>7
<1>9. ASSUME NEW i \in DOMAIN ad.proposals
      PROVE  T1.deals[<<ad.id, i>>] = CreateAuctionDeal(ad, i)
    BY <1>5, Zenon
<1>10. keys \subseteq Deals
    BY ProposalIsDeal, Zenon
<1>11. /\ DOMAIN T1.data = DOMAIN T.data \union {ad.id}
       /\ T1.data[ad.id] = drow
       /\ \A k \in DOMAIN T.data : T1.data[k] = T.data[k]
    BY <1>2, <1>5, Zenon DEF Insert
<1>12. /\ DOMAIN T1.wallets \subseteq DOMAIN T.wallets \union {ad.id}
       /\ DOMAIN T.wallets \subseteq DOMAIN T1.wallets
       /\ \A k \in DOMAIN T.wallets : k # ad.id => T1.wallets[k] = T.wallets[k]
       /\ ad.wallet # Absent => ad.id \in DOMAIN T1.wallets /\ T1.wallets[ad.id] = wrow
       /\ ad.wallet = Absent => T1.wallets = T.wallets
    <2> HIDE DEF wrow
    <2>1. CASE ad.wallet = Absent
        BY <1>5, <2>1, Zenon
    <2>2. CASE ad.wallet # Absent
        <3>1. T1.wallets = [k \in DOMAIN T.wallets \union {ad.id} |->
                              IF k = ad.id THEN wrow ELSE T.wallets[k]]
            BY <1>5, <2>2, Zenon DEF Insert
        <3> QED BY <2>2, <3>1, Zenon
    <2> QED BY <2>1, <2>2, Zenon
<1>13. Stored(T1, ad)
    <2>1. GetAuctionData(T1, ad.id) =
             [drow EXCEPT !.payloadCid = Parse(@), !.pieceCid = Parse(@)]
        BY <1>11, Zenon DEF GetAuctionData
    <2>2. /\ GetAuctionData(T1, ad.id).pieceCid = ad.pieceCid
          /\ GetAuctionData(T1, ad.id).pieceSize = ad.pieceSize
          /\ GetAuctionData(T1, ad.id).duration = ad.duration
        BY <2>1, Zenon DEF Text, Parse
    <2>3. ASSUME ad.wallet = Absent PROVE GetRemoteWallet(T1, ad.id) = Absent
        BY <1>2, <1>12, <2>3, Zenon DEF GetRemoteWallet, Tables
    <2>4. ASSUME ad.wallet # Absent
          PROVE  /\ GetRemoteWallet(T1, ad.id) # Absent
                 /\ Parse(GetRemoteWallet(T1, ad.id)[1].addr) = ad.wallet[1].addr
        <3>1. GetRemoteWallet(T1, ad.id) = <<wrow>>
            BY <1>12, <2>4, Zenon DEF GetRemoteWallet, Present
        <3>2. wrow.addr = Text(w.addr)
            BY Zenon
        <3> QED BY <3>1, <3>2 DEF Text, Parse, Absent
    <2> QED BY <2>2, <2>3, <2>4, Zenon DEF Stored
<1>14. ASSUME NEW a \in AuctionDeals, a.id \in DOMAIN T.data PROVE Stored(T1, a)
    <2>1. a.id # ad.id /\ Stored(T, a)
        BY <1>2, <1>14, Zenon DEF Tables
    <2>2. T1.data[a.id] = T.data[a.id]
        BY <1>11, <1>14, Zenon
    <2>3. GetAuctionData(T1, a.id) = GetAuctionData(T, a.id)
        BY <2>2, Zenon DEF GetAuctionData
    <2>4. GetRemoteWallet(T1, a.id) = GetRemoteWallet(T, a.id)
        BY <1>12, <2>1, Zenon DEF GetRemoteWallet
    <2> QED BY <2>1, <2>3, <2>4, Zenon DEF Stored
<1>15. \A a \in AuctionDeals : a.id \in DOMAIN T1.data => Stored(T1, a)
    <2>1. \A a \in AuctionDeals : a.id = ad.id => a = ad
        BY MessagesAssumption, Zenon
    <2> QED BY <1>11, <1>13, <1>14, <2>1, Zenon
<1>16. ASSUME NEW a \in AuctionDeals, NEW i \in DOMAIN a.proposals,
              <<a.id, i>> \in DOMAIN T1.deals
       PROVE  a.id \in DOMAIN T1.data
    BY <1>6, <1>11, <1>16, Zenon DEF Tables
<1>17. T1 = [data |-> T1.data, deals |-> T1.deals, wallets |-> T1.wallets]
    BY <1>4, <1>5, Zenon
<1>18. Tables(T1)
    BY <1>6, <1>10, <1>11, <1>12, <1>15, <1>16, <1>17, Zenon DEF Tables
<1> QED BY <1>6, <1>7, <1>8, <1>9, <1>18, Zenon


\* Auction data that is stored.
LEMMA CreateConfirmed ==
    ASSUME ConfirmedInv, NEW ad \in AuctionDeals, ReadyToCreateDeals(ad)
    PROVE  ConfirmedInv'
<1>1. /\ Tables(db) /\ MayCreate(db, ad) /\ db' = CreateAll(db, ad)
      /\ Rows(db.deals, chain, proposals)
      /\ UNCHANGED <<proc, proposals, chain, reports>>
    BY Zenon DEF ReadyToCreateDeals, ConfirmedInv
<1>2. /\ Tables(db')
      /\ DOMAIN db'.deals = DOMAIN db.deals \union {<<ad.id, i>> : i \in DOMAIN ad.proposals}
      /\ \A d \in DOMAIN db.deals : db'.deals[d] = db.deals[d]
      /\ \A i \in DOMAIN ad.proposals :
            <<ad.id, i>> \notin DOMAIN db.deals
            /\ db'.deals[<<ad.id, i>>] = CreateAuctionDeal(ad, i)
    BY <1>1, Creates
<1>3. Later(db.deals, chain, proposals, db'.deals, chain', proposals')
    BY <1>1, <1>2, Zenon DEF Later, Tables
<1>4. ASSUME NEW d \in DOMAIN db'.deals
      PROVE  Claim(db'.deals, chain', proposals', d, db'.deals[d], db'.deals[d].status)
    <2>1. CASE d \in DOMAIN db.deals
        <3>1. Claim(db.deals, chain, proposals, d, db'.deals[d], db'.deals[d].status)
            BY <1>1, <1>2, <2>1, Zenon DEF Rows
        <3> QED BY <1>3, <3>1, ClaimKept, Zenon
    <2>2. CASE d \notin DOMAIN db.deals
        <3>1. PICK i \in DOMAIN ad.proposals : d = <<ad.id, i>>
            BY <1>2, <2>2, Zenon
        <3>2. db'.deals[d] = CreateAuctionDeal(ad, i)
            BY <1>2, <3>1, Zenon
        <3>3. <<ad.id, i>> \in DOMAIN db'.deals
            BY <3>1, Zenon
        <3> QED BY <3>1, <3>2, <3>3, NewRow, Zenon
    <2> QED BY <2>1, <2>2, Zenon
<1>5. Rows(db'.deals, chain', proposals')
    BY <1>4, Zenon DEF Rows
<1>6. Accepted(chain', proposals') /\ proc' = [p \in Processes |-> proc'[p]]
    BY <1>1, Zenon DEF ConfirmedInv
<1> QED BY <1>1, <1>2, <1>3, <1>5, <1>6, StepKeeps, Zenon

\* A deal that is claimed: the goroutine has a copy of the row, marked as executing.
LEMMA ClaimConfirmed ==
    ASSUME ConfirmedInv, NEW p \in Processes, NEW d, NEW status, NEW step,
           GetNextPending(p, d, status, step),
           \/ status = "deal-making" /\ step = "propose"
           \/ status = "confirmation" /\ step = "resolve"
           \/ status = "report-finalized" /\ step = "report"
    PROVE  ConfirmedInv'
<1> DEFINE row == [db.deals[d] EXCEPT !.executing = TRUE]
<1>1. /\ Tables(db) /\ Rows(db.deals, chain, proposals)
      /\ d \in DOMAIN db.deals /\ db.deals[d].status = status
      /\ db' = NextPendingAuctionDeal(db, d)
      /\ Goes(p, At(step, d, db'.deals[d]))
      /\ UNCHANGED <<proposals, chain, reports>>
    BY Zenon DEF GetNextPending, Claimable, ConfirmedInv, deals
<1>2. Claim(db.deals, chain, proposals, d, db.deals[d], status)
    BY <1>1, Zenon DEF Rows
<1>3. db.deals[d] = [x \in RowFields |-> db.deals[d][x]]
    BY <1>2, Zenon DEF Claim, Copy
<1>4. /\ row = [x \in RowFields |-> row[x]]
      /\ row.executing = TRUE
      /\ \A x \in RowFields : x # "executing" => row[x] = db.deals[d][x]
    <2>1. "executing" \in RowFields
        BY Zenon DEF RowFields
    <2> QED BY <1>3, <2>1, RowExcept, Zenon
<1>5. Written(db, d, row, db')
    BY <1>1, Zenon DEF Written, NextPendingAuctionDeal
<1> HIDE DEF row
<1>6. /\ row.data = db.deals[d].data /\ row.sp = db.deals[d].sp
      /\ row.start = db.deals[d].start /\ row.verified = db.deals[d].verified
      /\ row.error = db.deals[d].error /\ row.dealID = db.deals[d].dealID
      /\ row.expiration = db.deals[d].expiration /\ row.status = status
    BY <1>1, <1>4, Zenon DEF RowFields
<1>7. Claim(db.deals, chain, proposals, d, row, row.status)
    <2>1. Copy(db.deals, chain, d, row)
        BY <1>2, <1>4, <1>6, CopyOfCopy, Zenon DEF Claim
    <2>2. OnChain(chain, proposals, d, db.deals[d]) => OnChain(chain, proposals, d, row)
        BY <1>6, Zenon DEF OnChain
    <2> QED BY <1>2, <1>6, <2>1, <2>2, Zenon DEF Claim
<1>8. /\ Tables(db') /\ Rows(db'.deals, chain, proposals)
      /\ Later(db.deals, chain, proposals, db'.deals, chain, proposals)
    BY <1>1, <1>5, <1>7, RowsUpdated, Zenon
<1>9. db'.deals[d] = row
    BY <1>1, <1>5, TableUpdated DEF OneRow
<1>10. Claim(db'.deals, chain, proposals, d, row, status)
    BY <1>6, <1>7, <1>8, ClaimKept, Zenon
<1>11. Working(db'.deals, chain', proposals', At(step, d, db'.deals[d]))
    BY <1>1, <1>6, <1>9, <1>10, Zenon DEF Working, Simple, At, Claim
<1>12. /\ proc' = [q \in Processes |-> proc'[q]]
       /\ \A q \in Processes : \/ proc'[q] = proc[q]
                               \/ proc'[q] = At(step, d, db'.deals[d])
    BY <1>1, Zenon DEF ConfirmedInv, Goes
<1>13. Accepted(chain', proposals')
    BY <1>1, Zenon DEF ConfirmedInv
<1> QED BY <1>1, <1>8, <1>11, <1>12, <1>13, StepKeeps, Zenon

\* A copy that is written, and what follows the write.
LEMMA SaveConfirmed ==
    ASSUME ConfirmedInv, NEW p \in Processes, SaveAndMoveAuctionDeal(p)
    PROVE  ConfirmedInv'
<1> DEFINE st == proc[p]
           D == db.deals
           row == [st.aud EXCEPT !.status = st.to, !.executing = FALSE]
           moved == [st.aud EXCEPT !.status = st.to]
<1>1. Tables(db) /\ Rows(D, chain, proposals) /\ Working(D, chain, proposals, st)
    BY Zenon DEF ConfirmedInv
<1>2. /\ st.step = "save" /\ st # Idle
      /\ UNCHANGED <<proposals, chain, reports>>
    BY DEF SaveAndMoveAuctionDeal, Idle
<1>3. /\ Claim(D, chain, proposals, st.deal, st.aud, st.to)
      /\ Simple(D, chain, proposals, st.then)
      /\ Simple(D, chain, proposals, st.onError)
    BY <1>1, <1>2, IdleIsSimple, Zenon DEF Working, Simple
<1>4. CASE db' = db /\ Goes(p, st.onError)
    BY <1>2, <1>3, <1>4, GoesKeeps, Zenon DEF Working
<1>5. CASE db' = SaveAndMove(db, st.deal, st.aud, st.to) /\ Goes(p, st.then)
    <2>1. st.deal \in DOMAIN D /\ st.aud = [x \in RowFields |-> st.aud[x]]
        BY <1>3, Zenon DEF Claim, Copy
    <2>2. /\ moved = [x \in RowFields |-> moved[x]]
          /\ moved.status = st.to
          /\ \A x \in RowFields : x # "status" => moved[x] = st.aud[x]
        <3>1. "status" \in RowFields
            BY Zenon DEF RowFields
        <3> QED BY <2>1, <3>1, RowExcept, Zenon
    <2>3. row = [moved EXCEPT !.executing = FALSE]
        BY Zenon
    <2>4. Written(db, st.deal, row, db')
        BY <1>5, Zenon DEF Written, SaveAndMove, UpdateAuctionDeal
    <2> HIDE DEF moved, row
    <2>5. /\ row = [x \in RowFields |-> row[x]]
          /\ \A x \in RowFields : x # "executing" => row[x] = moved[x]
        <3>1. "executing" \in RowFields
            BY Zenon DEF RowFields
        <3> QED BY <2>2, <2>3, <3>1, RowExcept, Zenon
    <2>6. /\ row.data = st.aud.data /\ row.sp = st.aud.sp
          /\ row.start = st.aud.start /\ row.verified = st.aud.verified
          /\ row.error = st.aud.error /\ row.dealID = st.aud.dealID
          /\ row.expiration = st.aud.expiration /\ row.status = st.to
        BY <2>2, <2>5, Zenon DEF RowFields
    <2>7. Claim(D, chain, proposals, st.deal, row, row.status)
        <3>1. Copy(D, chain, st.deal, row)
            BY <1>3, <2>5, <2>6, CopyOfCopy, Zenon DEF Claim
        <3>2. OnChain(chain, proposals, st.deal, st.aud)
                 => OnChain(chain, proposals, st.deal, row)
            BY <2>6, Zenon DEF OnChain
        <3> QED BY <1>3, <2>6, <3>1, <3>2, Zenon DEF Claim
    <2>8. /\ Tables(db') /\ Rows(db'.deals, chain, proposals)
          /\ Later(D, chain, proposals, db'.deals, chain, proposals)
        BY <1>1, <2>1, <2>4, <2>7, RowsUpdated, Zenon
    <2>9. Working(db'.deals, chain', proposals', st.then)
        BY <1>2, <1>3, <2>8, SimpleKept DEF Working
    <2>10. /\ proc' = [q \in Processes |-> proc'[q]]
           /\ \A q \in Processes : proc'[q] = proc[q] \/ proc'[q] = st.then
        BY <1>5, Zenon DEF ConfirmedInv, Goes
    <2>11. Accepted(chain', proposals')
        BY <1>2, Zenon DEF ConfirmedInv
    <2> QED BY <1>2, <2>8, <2>9, <2>10, <2>11, StepKeeps, Zenon
<1> QED BY <1>4, <1>5, Zenon DEF SaveAndMoveAuctionDeal


\* A proposal that is sent: what the provider accepts is what was asked for.
LEMMA ExecuteConfirmed ==
    ASSUME ConfirmedInv, NEW m \in Processes, ExecuteAuctionDeal(m)
    PROVE  ConfirmedInv'
<1> DEFINE d == proc[m].deal
           aud == proc[m].aud
           D == db.deals
           prop(net) == CreateDealProposalV110(GetAuctionData(db, aud.data), aud,
                                               GetRemoteWallet(db, aud.data), net)
<1>1. /\ Tables(db) /\ Rows(D, chain, proposals) /\ Accepted(chain, proposals)
      /\ proc = [p \in Processes |-> proc[p]]
      /\ Working(D, chain, proposals, proc[m])
    BY Zenon DEF ConfirmedInv
<1>2. /\ proc[m].step = "propose"
      /\ UNCHANGED <<db, chain, reports>>
    BY Zenon DEF ExecuteAuctionDeal
<1>3. Copy(D, chain, d, aud)
    BY <1>1, <1>2 DEF Working, Simple, Idle
<1>4. d \in Deals
    BY <1>1, <1>3, Zenon DEF Copy, Tables
<1>5. ASSUME NEW st, Goes(m, st), Working(D, chain, proposals', st),
             \/ proposals' = proposals
             \/ \E net, answer : prop(net) # Absent /\ Propose(d, prop(net), net, answer)
      PROVE  ConfirmedInv'
    <2>1. /\ Later(D, chain, proposals, D, chain, proposals')
          /\ Accepted(chain, proposals')
        <3>1. CASE proposals' = proposals
            BY <1>1, <3>1, LaterItself, Zenon
        <3>2. CASE \E net, answer : /\ prop(net) # Absent
                                    /\ Propose(d, prop(net), net, answer)
            <4>1. PICK net, answer : prop(net) # Absent /\ Propose(d, prop(net), net, answer)
                BY <3>2, Zenon
            <4> DEFINE t == prop(net)
            <4>2. TermsOf(d, t[1])
                BY <1>1, <1>3, <4>1, ProposedAsAsked, Zenon
            <4> HIDE DEF t
            <4>3. Propose(d, t, net, answer)
                BY <4>1, Zenon DEF t
            <4>4. CASE proposals' = proposals
                BY <1>1, <4>4, LaterItself, Zenon
            <4>5. CASE proposals' = [proposals EXCEPT ![d] =
                         [sent |-> @.sent + 1,
                          accepted |-> @.accepted + (IF answer = "accepted" THEN 1 ELSE 0),
                          terms |-> IF answer = "accepted" THEN t ELSE @.terms]]
                <5>1. /\ proposals = [e \in Deals |-> [sent |-> proposals[e].sent,
                                         accepted |-> proposals[e].accepted,
                                         terms |-> proposals[e].terms]]
                      /\ proposals[d].sent \in Nat /\ proposals[d].accepted \in Nat
                    BY <1>1, <1>4, Zenon DEF Accepted
                <5> DEFINE rec == [sent |-> proposals[d].sent + 1,
                                   accepted |-> proposals[d].accepted
                                           + (IF answer = "accepted" THEN 1 ELSE 0),
                                   terms |-> IF answer = "accepted" THEN t
                                             ELSE proposals[d].terms]
                <5>2. /\ \A e \in Deals : e # d => proposals'[e] = proposals[e]
                      /\ DOMAIN proposals' = Deals
                      /\ proposals'[d] = rec
                    <6>1. proposals' = [proposals EXCEPT ![d] = rec]
                        BY <4>5, Zenon
                    <6>2. DOMAIN proposals = Deals
                        BY <5>1, Zenon
                    <6> HIDE DEF rec
                    <6> QED BY <1>4, <6>1, <6>2, Zenon
                <5>3. /\ proposals'[d].sent \in Nat /\ proposals'[d].accepted \in Nat
                      /\ proposals[d].accepted > 0 => proposals'[d].accepted > 0
                    <6>1. /\ proposals'[d].sent = proposals[d].sent + 1
                          /\ proposals'[d].accepted = proposals[d].accepted
                                + (IF answer = "accepted" THEN 1 ELSE 0)
                        <7>1. /\ rec.sent = proposals[d].sent + 1
                              /\ rec.accepted = proposals[d].accepted
                                    + (IF answer = "accepted" THEN 1 ELSE 0)
                            OBVIOUS
                        <7>2. proposals'[d] = rec
                            BY <5>2, Zenon
                        <7> HIDE DEF rec
                        <7> QED BY <7>1, <7>2, Zenon
                    <6>2. proposals[d].sent \in Nat /\ proposals[d].accepted \in Nat
                        BY <5>1, Zenon
                    <6> QED BY <6>1, <6>2
                <5>4. proposals'[d].accepted > 0 => TermsOf(d, proposals'[d].terms[1])
                    <6>1. CASE answer = "accepted"
                        BY <4>2, <5>2, <6>1
                    <6>2. CASE answer # "accepted"
                        <7>1. /\ proposals'[d].accepted = proposals[d].accepted
                              /\ proposals'[d].terms = proposals[d].terms
                            BY SMTT(30), <5>1, <5>2, <6>2
                        <7> QED BY <1>1, <1>4, <7>1, Zenon DEF Accepted
                    <6> QED BY <6>1, <6>2, Zenon
                <5>5. chain[d] \in {"active", "slashed"} =>
                         proposals'[d].terms[1].end = proposals[d].terms[1].end
                    <6> SUFFICES ASSUME chain[d] \in {"active", "slashed"}
                                 PROVE  proposals'[d].terms[1].end = proposals[d].terms[1].end
                        BY Zenon
                    <6>1. proposals[d].accepted > 0 /\ TermsOf(d, proposals[d].terms[1])
                        BY <1>1, <1>4, Zenon DEF Accepted
                    <6>2. TermsOf(d, proposals'[d].terms[1])
                        BY <5>3, <5>4, <6>1, Zenon
                    <6> QED BY SMTT(30), <6>1, <6>2, SameTerms
                <5>6. Later(D, chain, proposals, D, chain, proposals')
                    BY <1>1, <5>2, <5>5, Zenon DEF Later, Tables
                <5>7. proposals' = [e \in Deals |-> [sent |-> proposals'[e].sent,
                                       accepted |-> proposals'[e].accepted,
                                       terms |-> proposals'[e].terms]]
                    <6>1. \A e \in Deals : proposals'[e] =
                             [sent |-> proposals'[e].sent,
                              accepted |-> proposals'[e].accepted,
                              terms |-> proposals'[e].terms]
                        BY SMTT(30), <5>1, <5>2
                    <6>2. proposals' = [e \in Deals |-> proposals'[e]]
                        BY <4>5, <5>1, Zenon
                    <6> QED BY <6>1, <6>2, Zenon
                <5>8. ASSUME NEW e \in Deals
                      PROVE  /\ proposals'[e].sent \in Nat /\ proposals'[e].accepted \in Nat
                             /\ chain[e] # "unknown" => proposals'[e].accepted > 0
                             /\ proposals'[e].accepted > 0
                                   => TermsOf(e, proposals'[e].terms[1])
                    <6>1. CASE e = d
                        BY <1>1, <5>3, <5>4, <6>1, Zenon DEF Accepted
                    <6>2. CASE e # d
                        BY <1>1, <5>2, <6>2, Zenon DEF Accepted
                    <6> QED BY <6>1, <6>2, Zenon
                <5>9. Accepted(chain, proposals')
                    BY <1>1, <5>7, <5>8, Zenon DEF Accepted
                <5> QED BY <5>6, <5>9, Zenon
            <4> QED BY <4>3, <4>4, <4>5, Zenon DEF Propose
        <3> QED BY <1>5, <3>1, <3>2, Zenon
    <2>2. Rows(db'.deals, chain', proposals')
        BY <1>1, <1>2, <2>1, ClaimKept, Zenon DEF Rows
    <2>3. /\ proc' = [q \in Processes |-> proc'[q]]
          /\ \A q \in Processes : proc'[q] = proc[q] \/ proc'[q] = st
        BY <1>1, <1>5, Zenon DEF Goes
    <2> QED BY <1>1, <1>2, <1>5, <2>1, <2>2, <2>3, StepKeeps, Zenon
<1>6. ASSUME NEW result PROVE Working(D, chain, proposals', AfterExecution(d, aud, result))
    BY <1>3, AfterExecutionWorks, Zenon
<1>7. Working(D, chain, proposals', SavingError(d, aud))
    BY <1>3, SavingErrorIsSimple, Zenon DEF Working
<1>8. CASE Goes(m, SavingError(d, aud)) /\ Fault /\ proposals' = proposals
    BY <1>5, <1>7, <1>8, Zenon
<1>9. CASE \E net \in Networks :
              /\ Goes(m, AfterExecution(d, aud, ExecuteProposal(prop(net), d, net)))
              /\ \/ Propose(d, prop(net), net, net.answer) /\ faults' = faults
                 \/ /\ net.answer = "none" /\ prop(net) # Absent
                    /\ Propose(d, prop(net), net, "accepted") /\ Fault
    <2>1. PICK net \in Networks :
              /\ Goes(m, AfterExecution(d, aud, ExecuteProposal(prop(net), d, net)))
              /\ \/ Propose(d, prop(net), net, net.answer)
                 \/ Propose(d, prop(net), net, "accepted")
        BY <1>9, Zenon
    <2>2. CASE prop(net) = Absent
        <3>1. proposals' = proposals
            BY <2>1, <2>2, Zenon DEF Propose
        <3> QED BY <1>5, <1>6, <2>1, <3>1, Zenon
    <2>3. CASE prop(net) # Absent
        <3> HIDE DEF prop
        <3> QED BY <1>5, <1>6, <2>1, <2>3, Zenon
    <2> QED BY <2>2, <2>3, Zenon
<1> QED BY <1>8, <1>9, Zenon DEF ExecuteAuctionDeal


\* The proposal is told to auctioneerd, or an error is saved.
LEMMA PublishConfirmed ==
    ASSUME ConfirmedInv, NEW p \in Processes, PublishDealProposalAccepted(p)
    PROVE  ConfirmedInv'
<1>1. /\ proc[p].step = "publish-accepted"
      /\ Working(db.deals, chain, proposals, proc[p])
      /\ UNCHANGED <<db, proposals, chain, reports>>
    BY Zenon DEF PublishDealProposalAccepted, ConfirmedInv
<1>2. Copy(db.deals, chain, proc[p].deal, proc[p].aud)
    BY SMTT(30), <1>1 DEF Working, Simple, Idle
<1>3. \/ Goes(p, Idle)
      \/ Goes(p, SavingError(proc[p].deal, proc[p].aud))
    BY Zenon DEF PublishDealProposalAccepted
<1>4. /\ Working(db.deals, chain, proposals, Idle)
      /\ Working(db.deals, chain, proposals, SavingError(proc[p].deal, proc[p].aud))
    BY <1>2, IdleIsSimple, SavingErrorIsSimple, Zenon DEF Working
<1> QED BY <1>1, <1>3, <1>4, GoesKeeps, Zenon

\* A deal that is given up is a write in order.
LEMMA UnfulfilledWorks ==
    ASSUME NEW D, NEW C, NEW P, NEW d, NEW aud, Copy(D, C, d, aud)
    PROVE  /\ Working(D, C, P, SavingUnfulfilled(d, aud))
           /\ Working(D, C, P, SavingConfirmation(d, aud))
<1>1. Simple(D, C, P, SavingUnfulfilled(d, aud))
    BY ErrorClaim, SavingIsSimple, Zenon DEF SavingUnfulfilled
<1>2. "confirmation" \notin Final
    BY Zenon DEF Final
<1>3. Simple(D, C, P, SavingConfirmation(d, aud))
    BY <1>2, OpenClaim, SavingIsSimple, Zenon DEF SavingConfirmation
<1> QED BY <1>1, <1>3, Zenon DEF Working

\* A deal id that becomes known.
LEMMA ResolveConfirmed ==
    ASSUME ConfirmedInv, NEW w \in Processes, ResolveDealID(w)
    PROVE  ConfirmedInv'
<1> DEFINE d == proc[w].deal
           aud == proc[w].aud
           D == db.deals
           resolved(net) == [aud EXCEPT !.dealID = TryResolvingDealID(d, aud, net)]
<1>1. /\ proc[w].step = "resolve"
      /\ Working(D, chain, proposals, proc[w]) /\ Tables(db)
      /\ Accepted(chain, proposals)
      /\ UNCHANGED <<db, proposals, chain, reports>>
    BY Zenon DEF ResolveDealID, ConfirmedInv
<1>2. Copy(D, chain, d, aud) /\ aud.status = "confirmation"
    BY SMTT(30), <1>1 DEF Working, Simple, Idle
<1>3. CASE aud.dealID # 0 /\ Goes(w, At("check", d, aud))
    <2>1. aud.dealID = DealIDOf[d]
        BY <1>2, <1>3, Zenon DEF Copy
    <2>2. Working(D, chain, proposals, At("check", d, aud))
        BY <1>2, <2>1, Zenon DEF Working, Simple, At
    <2> QED BY <1>1, <1>3, <2>2, GoesKeeps, Zenon
<1>4. CASE Goes(w, Idle)
    BY <1>1, <1>4, GoesKeeps, IdleIsSimple, Zenon DEF Working
<1>5. CASE /\ aud.dealID = 0
           /\ \E net \in Networks :
                 Goes(w, IF resolved(net) = aud THEN Unresolved(d, aud)
                         ELSE Saving(d, resolved(net), aud.status,
                                     At("check", d, resolved(net)), Idle))
    <2>1. PICK net \in Networks :
                 Goes(w, IF resolved(net) = aud THEN Unresolved(d, aud)
                         ELSE Saving(d, resolved(net), aud.status,
                                     At("check", d, resolved(net)), Idle))
        BY <1>5, Zenon
    <2> DEFINE id == TryResolvingDealID(d, aud, net)
               new == [aud EXCEPT !.dealID = id]
    <2>2. CASE new = aud
        <3>1. Working(D, chain, proposals, Unresolved(d, aud))
            BY <1>2, UnfulfilledWorks, Zenon DEF Unresolved
        <3> QED BY <1>1, <2>1, <2>2, <3>1, GoesKeeps, Zenon
    <2>3. CASE new # aud
        <3>1. id \in {0, DealIDOf[d]} /\ (id # 0 => chain[d] # "unknown")
            BY <1>1, <1>2, ResolvedID, Zenon
        <3> HIDE DEF id
        <3>2. aud = [x \in RowFields |-> aud[x]]
            BY <1>2, Zenon DEF Copy
        <3>3. /\ new = [x \in RowFields |-> new[x]]
              /\ new.dealID = id
              /\ \A x \in RowFields : x # "dealID" => new[x] = aud[x]
            <4>1. "dealID" \in RowFields
                BY Zenon DEF RowFields
            <4> QED BY <3>2, <4>1, RowExcept, Zenon
        <3>4. id # 0
            <4> SUFFICES ASSUME id = 0 PROVE FALSE
                BY Zenon
            <4>1. \A x \in RowFields : new[x] = aud[x]
                BY <1>5, <3>3, Zenon
            <4> HIDE DEF new
            <4> QED BY <2>3, <3>2, <3>3, <4>1, Zenon
        <3>5. id = DealIDOf[d] /\ chain[d] # "unknown"
            BY <3>1, <3>4, Zenon
        <3>6. Goes(w, Saving(d, new, aud.status, At("check", d, new), Idle))
            BY <2>1, <2>3, Zenon DEF id
        <3> HIDE DEF new
        <3>7. /\ new.data = aud.data /\ new.sp = aud.sp /\ new.start = aud.start
              /\ new.verified = aud.verified /\ new.error = aud.error
              /\ new.expiration = aud.expiration
            BY <3>3, Zenon DEF RowFields
        <3>8. OfProposal(d, new)
            BY <1>2, <3>7, Zenon DEF Copy, OfProposal
        <3>9. Copy(D, chain, d, new)
            BY <1>2, <3>3, <3>5, <3>7, <3>8, Zenon DEF Copy
        <3>10. Claim(D, chain, proposals, d, new, aud.status)
            BY <1>2, <3>9, Zenon DEF Claim, Final
        <3>11. Simple(D, chain, proposals, At("check", d, new))
            BY <3>3, <3>5, <3>9, Zenon DEF Simple, At
        <3>12. Working(D, chain, proposals,
                       Saving(d, new, aud.status, At("check", d, new), Idle))
            BY <3>10, <3>11, SavingIsWorking, IdleIsSimple, Zenon
        <3> QED BY <1>1, <3>6, <3>12, GoesKeeps, Zenon
    <2> QED BY <2>2, <2>3, Zenon
<1> QED BY <1>3, <1>4, <1>5, Zenon DEF ResolveDealID

\* What the chain says of a deal.
LEMMA CheckConfirmed ==
    ASSUME ConfirmedInv, NEW w \in Processes, CheckChainDeal(w)
    PROVE  ConfirmedInv'
<1> DEFINE d == proc[w].deal
           aud == proc[w].aud
           D == db.deals
           end == proposals[d].terms[1].end
           new == [aud EXCEPT !.expiration = end]
<1>1. /\ proc[w].step = "check"
      /\ Working(D, chain, proposals, proc[w]) /\ Tables(db)
      /\ Accepted(chain, proposals)
      /\ UNCHANGED <<db, proposals, chain, reports>>
    BY Zenon DEF CheckChainDeal, ConfirmedInv
<1>2. Copy(D, chain, d, aud) /\ aud.dealID = DealIDOf[d]
    BY SMTT(30), <1>1 DEF Working, Simple, Idle
<1>3. d \in Deals
    BY <1>1, <1>2, Zenon DEF Copy, Tables
<1>4. Working(D, chain, proposals, Checked(d, aud))
    <2>1. ChainDealOf(aud.dealID) = ChainDeal(chain[d], end)
        BY <1>2, <1>3, ChainDealOfID, Zenon
    <2>2. CASE chain[d] # "active"
        <3>1. ~ChainDeal(chain[d], end).active
            BY <2>2, Zenon DEF ChainDeal
        <3>2. Checked(d, aud) \in {SavingConfirmation(d, aud), SavingUnfulfilled(d, aud)}
            BY <2>1, <3>1, Zenon DEF Checked
        <3> QED BY <1>2, <3>2, UnfulfilledWorks, Zenon
    <2>3. CASE chain[d] = "active"
        <3>1. ChainDeal(chain[d], end) = [active |-> TRUE, expiration |-> end, err |-> FALSE]
            BY <2>3, Zenon DEF ChainDeal
        <3>2. Checked(d, aud) = Saving(d, new, "report-finalized", Idle, Idle)
            BY <2>1, <3>1 DEF Checked
        <3>3. end \in Nat
            <4>1. TermsOf(d, proposals[d].terms[1])
                BY <1>1, <1>3, <2>3, Zenon DEF Accepted
            <4> QED BY <4>1, SameTerms, Zenon
        <3> HIDE DEF end
        <3>4. aud = [x \in RowFields |-> aud[x]]
            BY <1>2, Zenon DEF Copy
        <3>5. /\ new = [x \in RowFields |-> new[x]]
              /\ new.expiration = end
              /\ \A x \in RowFields : x # "expiration" => new[x] = aud[x]
            <4>1. "expiration" \in RowFields
                BY Zenon DEF RowFields
            <4> QED BY <3>4, <4>1, RowExcept, Zenon
        <3> HIDE DEF new
        <3>6. /\ new.data = aud.data /\ new.sp = aud.sp /\ new.start = aud.start
              /\ new.verified = aud.verified /\ new.error = aud.error
              /\ new.dealID = aud.dealID
            BY <3>5, Zenon DEF RowFields
        <3>7. OfProposal(d, new)
            BY <1>2, <3>6, Zenon DEF Copy, OfProposal
        <3>8. Copy(D, chain, d, new)
            BY <1>2, <3>3, <3>5, <3>6, <3>7, Zenon DEF Copy
        <3>9. OnChain(chain, proposals, d, new)
            BY <1>2, <2>3, <3>5, <3>6, Zenon DEF OnChain, end
        <3>10. Claim(D, chain, proposals, d, new, "report-finalized")
            BY <3>8, <3>9, Zenon DEF Claim
        <3> QED BY <3>2, <3>10, SavingIsSimple, Zenon DEF Working
    <2> QED BY <2>2, <2>3, Zenon
<1>5. Working(D, chain, proposals, SavingConfirmation(d, aud))
    BY <1>2, UnfulfilledWorks, Zenon
<1>6. Goes(w, Checked(d, aud)) \/ Goes(w, SavingConfirmation(d, aud))
    BY Zenon DEF CheckChainDeal
<1> QED BY <1>1, <1>4, <1>5, <1>6, GoesKeeps, Zenon


\* A report: what it says of a confirmed deal is true.
LEMMA ReportConfirmed ==
    ASSUME ConfirmedInv, ReportFinalizedAuctionDeal
    PROVE  ConfirmedInv'
<1> DEFINE d == proc[Reporter].deal
           aud == proc[Reporter].aud
           D == db.deals
           again == Saving(d, aud, "report-finalized", Idle, Idle)
           finish == Saving(d, aud, "finalized", Idle, again)
           report == FinalizedDeal(aud)
<1>1. /\ proc[Reporter].step = "report" /\ Reporter \in Processes
      /\ UNCHANGED <<db, proposals, chain>>
    BY Zenon DEF ReportFinalizedAuctionDeal, Processes
<1>2. /\ Tables(db) /\ Rows(D, chain, proposals) /\ Accepted(chain, proposals)
      /\ proc = [p \in Processes |-> proc[p]]
      /\ Truthful(chain, proposals, reports)
      /\ \A p \in Processes : Working(D, chain, proposals, proc[p])
    BY Zenon DEF ConfirmedInv
<1>3. Claim(D, chain, proposals, d, aud, "report-finalized")
    BY SMTT(30), <1>1, <1>2 DEF Working, Simple, Idle
<1>4. Claim(D, chain, proposals, d, aud, "finalized")
    BY <1>3, Zenon DEF Claim, Final
<1>5. /\ Simple(D, chain, proposals, again)
      /\ Working(D, chain, proposals, again) /\ Working(D, chain, proposals, finish)
    BY <1>3, <1>4, SavingIsSimple, SavingIsWorking, IdleIsSimple, Zenon DEF Working
<1> HIDE DEF again, finish
<1>6. CASE Goes(Reporter, again) /\ reports' = reports
    BY <1>1, <1>5, <1>6, GoesKeeps, Zenon
<1>7. CASE /\ reports' = [reports EXCEPT ![d] = Append(@, report)]
           /\ Goes(Reporter, finish)
    <2>1. d \in Deals
        BY <1>2, <1>3, Zenon DEF Claim, Copy, Tables
    <2>2. report \in ReportsOf(d)
        BY <1>3, Zenon DEF Claim, Copy, FinalizedDeal, ReportsOf
    <2>3. ~report.error => OnChain(chain, proposals, d, report)
        BY <1>3, Zenon DEF Claim, FinalizedDeal, OnChain, Final
    <2> HIDE DEF report
    <2>4. /\ reports = [e \in Deals |-> reports[e]]
          /\ \A e \in Deals :
                /\ reports[e] \in Seq(ReportsOf(e))
                /\ \A i \in DOMAIN reports[e] :
                      ~reports[e][i].error => OnChain(chain, proposals, e, reports[e][i])
        BY <1>2, Zenon DEF Truthful
    <2>5. /\ reports' = [e \in Deals |-> reports'[e]]
          /\ reports'[d] = Append(reports[d], report)
          /\ \A e \in Deals : e # d => reports'[e] = reports[e]
        BY <1>7, <2>1, <2>4, Zenon
    <2>6. /\ reports'[d] \in Seq(ReportsOf(d))
          /\ \A i \in DOMAIN reports'[d] :
                (i \in DOMAIN reports[d] /\ reports'[d][i] = reports[d][i])
                \/ reports'[d][i] = report
        BY SMTT(30), <2>1, <2>2, <2>4, <2>5
    <2>7. ASSUME NEW e \in Deals
          PROVE  /\ reports'[e] \in Seq(ReportsOf(e))
                 /\ \A i \in DOMAIN reports'[e] :
                       ~reports'[e][i].error => OnChain(chain, proposals, e, reports'[e][i])
        <3>1. CASE e = d
            BY <2>3, <2>4, <2>6, <3>1, Zenon
        <3>2. CASE e # d
            BY <2>4, <2>5, <3>2, Zenon
        <3> QED BY <3>1, <3>2, Zenon
    <2>8. Truthful(chain', proposals', reports')
        BY <1>1, <2>5, <2>7, Zenon DEF Truthful
    <2>9. /\ proc' = [p \in Processes |-> proc'[p]]
          /\ \A p \in Processes : Working(D, chain, proposals, proc'[p])
        BY <1>2, <1>5, <1>7, Zenon DEF Goes
    <2> QED BY <1>1, <1>2, <2>8, <2>9, Zenon DEF ConfirmedInv
<1> QED BY <1>6, <1>7, Zenon DEF ReportFinalizedAuctionDeal, again, finish

\* What happens on chain.
LEMMA ChainConfirmed ==
    ASSUME ConfirmedInv, NEW d \in Deals, ChainStep(d)
    PROVE  ConfirmedInv'
<1>1. /\ Tables(db) /\ Rows(db.deals, chain, proposals) /\ Accepted(chain, proposals)
      /\ proc = [p \in Processes |-> proc[p]]
    BY Zenon DEF ConfirmedInv
<1>2. UNCHANGED <<db, proc, proposals, reports>>
    BY Zenon DEF ChainStep
<1>3. PICK new \in {"published", "active", "slashed"} :
          /\ chain' = [chain EXCEPT ![d] = new]
          /\ chain[d] = "unknown" => proposals[d].accepted > 0
          /\ chain[d] \in {"active", "slashed"} => new = "slashed"
    BY Zenon DEF ChainStep
<1>4. /\ chain' = [e \in Deals |-> chain'[e]] /\ chain'[d] = new
      /\ \A e \in Deals : e # d => chain'[e] = chain[e]
    BY <1>1, <1>3, Zenon DEF Accepted
<1>5. Later(db.deals, chain, proposals, db'.deals, chain', proposals')
    BY <1>1, <1>2, <1>3, <1>4, Zenon DEF Later, Tables
<1>6. ASSUME NEW e \in Deals, chain'[e] # "unknown" PROVE proposals[e].accepted > 0
    BY <1>1, <1>3, <1>4, <1>6, Zenon DEF Accepted
<1>7. Accepted(chain', proposals')
    BY <1>1, <1>2, <1>4, <1>6, Zenon DEF Accepted
<1>8. Rows(db'.deals, chain', proposals')
    BY <1>1, <1>2, <1>5, ClaimKept, Zenon DEF Rows
<1> QED BY <1>1, <1>2, <1>5, <1>7, <1>8, StepKeeps, Zenon

\* Initially there are no deals.
LEMMA ConfirmedInit == Init => ConfirmedInv
<1> SUFFICES ASSUME Init PROVE ConfirmedInv
    BY Zenon
<1>1. /\ db.data = <<>> /\ db.deals = <<>> /\ db.wallets = <<>>
      /\ db = [data |-> db.data, deals |-> db.deals, wallets |-> db.wallets]
      /\ DOMAIN db.data = {} /\ DOMAIN db.deals = {} /\ DOMAIN db.wallets = {}
    BY DEF Init, NoTables
<1>2. db.deals = [d \in DOMAIN db.deals |-> db.deals[d]]
    BY <1>1
<1>3. Tables(db)
    BY <1>1, <1>2, Zenon DEF Tables
<1>4. Rows(db.deals, chain, proposals)
    BY <1>1, Zenon DEF Rows
<1>5. /\ proc = [p \in Processes |-> proc[p]]
      /\ \A p \in Processes : Working(db.deals, chain, proposals, proc[p])
    BY IdleIsSimple, Zenon DEF Init, Working
<1>6. Accepted(chain, proposals)
    BY DEF Init, Accepted
<1>7. Truthful(chain, proposals, reports)
    BY DEF Init, Truthful
<1> QED BY <1>3, <1>4, <1>5, <1>6, <1>7, Zenon DEF ConfirmedInv

\* A step that touches neither tables nor chain nor goroutines, and a restart.
LEMMA OtherConfirmed ==
    ASSUME ConfirmedInv, UNCHANGED <<db, proposals, chain, reports>>,
           proc' = proc \/ proc' = [p \in Processes |-> Idle]
    PROVE  ConfirmedInv'
<1>1. \A p \in Processes : Working(db.deals, chain, proposals, Idle)
    BY IdleIsSimple, Zenon DEF Working
<1>2. /\ proc' = [p \in Processes |-> proc'[p]]
      /\ \A p \in Processes : Working(db.deals, chain, proposals, proc'[p])
    BY <1>1, Zenon DEF ConfirmedInv
<1> QED BY <1>2, Zenon DEF ConfirmedInv

\* Every step keeps ConfirmedInv.
LEMMA ConfirmedNext == ConfirmedInv /\ [Next]_vars => ConfirmedInv'
<1> SUFFICES ASSUME ConfirmedInv, [Next]_vars PROVE ConfirmedInv'
    BY Zenon
<1>1. Makers \subseteq Processes /\ Monitors \subseteq Processes /\ Reporter \in Processes
    BY Zenon DEF Processes
<1>2. CASE UNCHANGED vars
    BY <1>2, OtherConfirmed, Zenon DEF vars
<1>3. ASSUME NEW ad \in AuctionDeals, ReadyToCreateDeals(ad) PROVE ConfirmedInv'
    BY <1>3, CreateConfirmed, Zenon
<1>4. ASSUME NEW d \in Deals, ChainStep(d) PROVE ConfirmedInv'
    BY <1>4, ChainConfirmed, Zenon
<1>5. ASSUME NEW d \in Deals, DealReporter(d) PROVE ConfirmedInv'
    BY <1>1, <1>5, ClaimConfirmed, ReportConfirmed, SaveConfirmed, Zenon DEF DealReporter
<1>6. ASSUME NEW d \in Deals, NEW p \in Makers, Maker(p, d) PROVE ConfirmedInv'
    BY <1>1, <1>6, ClaimConfirmed, ExecuteConfirmed, PublishConfirmed, SaveConfirmed, Zenon
       DEF Maker
<1>7. ASSUME NEW d \in Deals, NEW p \in Monitors, Monitorer(p, d) PROVE ConfirmedInv'
    BY <1>1, <1>7, ClaimConfirmed, ResolveConfirmed, CheckConfirmed, SaveConfirmed, Zenon
       DEF Monitorer
<1>8. CASE MonitoringTick \/ Restart \/ EpochPasses
    BY <1>8, OtherConfirmed, Zenon DEF MonitoringTick, Restart, EpochPasses
<1> QED BY <1>2, <1>3, <1>4, <1>5, <1>6, <1>7, <1>8, Zenon DEF Next

\* Every state reached has its copies in order.
LEMMA ConfirmedInvariant == Spec => []ConfirmedInv
BY ConfirmedInit, ConfirmedNext, PTL DEF Spec

\* A deal reported as confirmed is active on chain with the terms the broker asked
\* for, and the report has its id and expiration: for all auction data, any number
\* of goroutines and retries, and whatever crashes, answers and writes are lost.
THEOREM ConfirmedIsAlwaysActive == Spec => []ConfirmedIsActive
<1>1. ASSUME ConfirmedInv, NEW ad \in AuctionDeals, NEW i \in DOMAIN ad.proposals,
             NEW report \in Reported(<<ad.id, i>>), ~report.error
      PROVE  LET d == <<ad.id, i>>
             IN  /\ chain[d] \in {"active", "slashed"}
                 /\ AsAsked(ad, i, proposals[d].terms[1])
                 /\ report.dealID = DealIDOf[d]
                 /\ report.expiration = proposals[d].terms[1].end
    <2> DEFINE d == <<ad.id, i>>
    <2>1. d \in Deals
        BY ProposalIsDeal, Zenon
    <2>2. OnChain(chain, proposals, d, report)
        BY <1>1, <2>1, Zenon DEF ConfirmedInv, Truthful, Reported
    <2>3. TermsOf(d, proposals[d].terms[1])
        BY <1>1, <2>1, <2>2, Zenon DEF ConfirmedInv, Accepted, OnChain
    <2>4. PICK a \in AuctionDeals : \E j \in DOMAIN a.proposals :
              d = <<a.id, j>> /\ AsAsked(a, j, proposals[d].terms[1])
        BY <2>3, Zenon DEF TermsOf
    <2>5. PICK j \in DOMAIN a.proposals :
              d = <<a.id, j>> /\ AsAsked(a, j, proposals[d].terms[1])
        BY <2>4, Zenon
    <2>6. a = ad /\ j = i
        BY <2>5, OneProposal, Zenon
    <2> QED BY <2>2, <2>5, <2>6, Zenon DEF OnChain
<1>2. ConfirmedInv => ConfirmedIsActive
    BY <1>1, Zenon DEF ConfirmedIsActive
<1> QED BY <1>2, ConfirmedInvariant, PTL


--------------------------------------------------------------------------------
(* Making deals, without faults: every step keeps MakingInv. *)

\* A goroutine that is not idle has a copy of a row.
LEMMA WorkingCopy ==
    ASSUME NEW D, NEW C, NEW P, NEW st, Working(D, C, P, st), st # Idle
    PROVE  st.deal \in DOMAIN D /\ Copy(D, C, st.deal, st.aud)
BY Zenon DEF Working, Simple, Claim, Copy

\* What follows a write has nothing else to follow.
LEMMA NestedFollows ==
    ASSUME NEW D, NEW C, NEW P, NEW st, NEW h, Simple(D, C, P, st), Follows(st),
           Blames(P, h, st)
    PROVE  FollowsAll(st) /\ BlamesAll(P, h, st)
<1>1. Follows(Idle) /\ Blames(P, h, Idle)
    BY Zenon DEF Follows, Blames
<1>2. st # Idle /\ st.step = "save" => st.then = Idle /\ st.onError = Idle
    BY Zenon DEF Simple
<1> QED BY <1>1, <1>2, Zenon DEF FollowsAll, BlamesAll

\* A goroutine whose deal is as before has counted its proposals.
LEMMA CountedKept ==
    ASSUME NEW D, NEW P, NEW D1, NEW P1, NEW st, Counted(D, P, st),
           st # Idle => D1[st.deal] = D[st.deal] /\ P1[st.deal] = P[st.deal]
    PROVE  Counted(D1, P1, st)
BY Zenon DEF Counted

\* An error that was justified stays so.
LEMMA BlamesKept ==
    ASSUME NEW P, NEW h, NEW P1, NEW h1, NEW st, Follows(st), BlamesAll(P, h, st),
           st # Idle /\ GivenUp(P, h, st.deal) => GivenUp(P1, h1, st.deal)
    PROVE  BlamesAll(P1, h1, st)
<1>1. CASE st = Idle
    BY <1>1, Zenon DEF BlamesAll, Blames
<1>2. CASE st # Idle
    <2>1. \A s : s # Idle /\ s.deal = st.deal /\ Blames(P, h, s) => Blames(P1, h1, s)
        BY <1>2, Zenon DEF Blames
    <2>2. Blames(P1, h1, Idle)
        BY Zenon DEF Blames
    <2>3. st.step = "save" => /\ st.then # Idle => st.then.deal = st.deal
                              /\ st.onError # Idle => st.onError.deal = st.deal
        BY <1>2, Zenon DEF Follows
    <2> QED BY <1>2, <2>1, <2>2, <2>3, Zenon DEF BlamesAll
<1> QED BY <1>1, <1>2, Zenon

\* A goroutine that makes a deal is the only one with a copy of it.
LEMMA OnlyMaker ==
    ASSUME MakingInv, NEW p \in Processes, Making(proc[p]),
           NEW q \in Processes, q # p, proc[q] # Idle
    PROVE  proc[q].deal # proc[p].deal
<1>1. Counted(db.deals, proposals, proc[p]) /\ Counted(db.deals, proposals, proc[q])
    BY Zenon DEF MakingInv, Procs
<1>2. db.deals[proc[p].deal].status = "deal-making"
    BY <1>1, Zenon DEF Counted, Making
<1>3. Making(proc[q]) => proc[q].deal # proc[p].deal
    BY Zenon DEF MakingInv, Alone
<1>4. ~Making(proc[q]) => db.deals[proc[q].deal].status # "deal-making"
    BY <1>1, Zenon DEF Counted
<1> QED BY <1>2, <1>3, <1>4, Zenon

\* A step of one goroutine on one deal, and what it has to see to.
OneDealStep(p, st, d) ==
    /\ Goes(p, st)
    /\ UNCHANGED <<tickHeight, height, reports>>
    /\ DOMAIN db'.deals = DOMAIN db.deals
    /\ \A e \in DOMAIN db.deals : e # d => db'.deals[e] = db.deals[e]
    /\ \A e \in Deals : e # d => proposals'[e] = proposals[e]
    /\ d \in DOMAIN db.deals
    /\ proc[p] # Idle => proc[p].deal = d
    /\ st # Idle => st.deal = d
    /\ \A q \in Processes : q # p /\ proc[q] # Idle /\ proc[q].deal = d =>
          /\ ~Making(proc[q]) /\ db'.deals[d].status # "deal-making"
          /\ GivenUp(proposals, height, d) => GivenUp(proposals', height, d)
    /\ Counted(db'.deals, proposals', st)
    /\ FollowsAll(st)
    /\ BlamesAll(proposals', height, st)
    /\ RowCounted(db'.deals, proposals', proc', d)
    /\ db'.deals[d].error = TRUE =>
          db'.deals[d].status \in Final /\ GivenUp(proposals', height, d)
    /\ reports[d] # <<>> =>
          /\ db'.deals[d].status # "deal-making"
          /\ GivenUp(proposals, height, d) => GivenUp(proposals', height, d)

\* Such a step keeps the invariant.
LEMMA MakingStep ==
    ASSUME ConfirmedInv, MakingInv, NEW p \in Processes, NEW st, NEW d,
           OneDealStep(p, st, d)
    PROVE  MakingInv'
<1> USE DEF OneDealStep
<1> DEFINE D == db.deals
           D1 == db'.deals
<1>1. /\ proc = [q \in Processes |-> proc[q]]
      /\ DOMAIN D \subseteq Deals
      /\ \A q \in Processes : Working(D, chain, proposals, proc[q])
    BY Zenon DEF ConfirmedInv, Tables
<1>2. /\ proc'[p] = st
      /\ \A q \in Processes : q # p => proc'[q] = proc[q]
    BY <1>1, Zenon DEF Goes
<1>3. ASSUME NEW q \in Processes
      PROVE  /\ Counted(D1, proposals', proc'[q])
             /\ FollowsAll(proc'[q])
             /\ BlamesAll(proposals', height, proc'[q])
    <2>1. CASE q = p
        BY <1>2, <2>1, Zenon
    <2>2. CASE q # p /\ proc[q] = Idle
        BY <1>2, <2>2, Zenon DEF Counted, FollowsAll, Follows, BlamesAll, Blames
    <2>3. CASE q # p /\ proc[q] # Idle
        <3>1. /\ Counted(D, proposals, proc[q])
              /\ FollowsAll(proc[q])
              /\ BlamesAll(proposals, height, proc[q])
            BY Zenon DEF MakingInv, Procs
        <3>2. proc[q].deal \in DOMAIN D
            BY <1>1, <2>3, WorkingCopy, Zenon
        <3>3. CASE proc[q].deal # d
            <4>1. /\ D1[proc[q].deal] = D[proc[q].deal]
                  /\ proposals'[proc[q].deal] = proposals[proc[q].deal]
                BY <1>1, <3>2, <3>3, Zenon
            <4>2. GivenUp(proposals, height, proc[q].deal)
                     => GivenUp(proposals', height, proc[q].deal)
                BY <4>1, Zenon DEF GivenUp
            <4> HIDE DEF D, D1
            <4>3. Counted(D1, proposals', proc[q])
                BY <3>1, <4>1, CountedKept, Zenon
            <4>4. BlamesAll(proposals', height, proc[q])
                BY <3>1, <4>2, BlamesKept, Zenon DEF FollowsAll
            <4> QED BY <1>2, <2>3, <3>1, <4>3, <4>4, Zenon
        <3>4. CASE proc[q].deal = d
            <4>1. /\ ~Making(proc[q]) /\ D1[d].status # "deal-making"
                  /\ GivenUp(proposals, height, d) => GivenUp(proposals', height, d)
                BY <2>3, <3>4, Zenon
            <4>2. Counted(D1, proposals', proc[q])
                BY <2>3, <3>4, <4>1, Zenon DEF Counted
            <4>3. BlamesAll(proposals', height, proc[q])
                BY <3>1, <3>4, <4>1, BlamesKept, Zenon DEF FollowsAll
            <4> QED BY <1>2, <2>3, <3>1, <4>2, <4>3, Zenon
        <3> QED BY <3>3, <3>4, Zenon
    <2> QED BY <2>1, <2>2, <2>3, Zenon
<1>4. Procs(D1, proposals', proc', height')
    BY <1>3, Zenon DEF Procs
<1>5. Alone(proc')
    <2> SUFFICES ASSUME NEW q \in Processes, NEW r \in Processes,
                        Making(proc'[q]), Making(proc'[r]),
                        proc'[q].deal = proc'[r].deal
                 PROVE  q = r
        BY Zenon DEF Alone
    <2>1. ASSUME NEW s \in Processes, s # p, Making(proc'[s]) PROVE proc'[s].deal # d
        BY <1>2, <2>1, Zenon DEF Making
    <2>2. CASE q = p \/ r = p
        BY SMTT(30), <1>2, <2>1, <2>2 DEF Making
    <2>3. CASE q # p /\ r # p
        BY <1>2, <2>3, Zenon DEF MakingInv, Alone
    <2> QED BY <2>2, <2>3, Zenon
<1>6. ASSUME NEW e \in DOMAIN D1
      PROVE  /\ RowCounted(D1, proposals', proc', e)
             /\ D1[e].error = TRUE => D1[e].status \in Final /\ GivenUp(proposals', height, e)
    <2>1. CASE e = d
        BY <2>1, Zenon
    <2>2. CASE e # d
        <3>1. D1[e] = D[e] /\ proposals'[e] = proposals[e]
            BY <1>1, <2>2, Zenon
        <3>2. /\ RowCounted(D, proposals, proc, e)
              /\ D[e].error = TRUE => D[e].status \in Final /\ GivenUp(proposals, height, e)
            BY Zenon DEF MakingInv, RowsMade
        <3>3. ASSUME NEW q \in Processes, Making(proc[q]), proc[q].deal = e
              PROVE  Making(proc'[q]) /\ proc'[q].deal = e
            BY <1>2, <2>2, <3>3, Zenon DEF Making
        <3>4. RowCounted(D1, proposals', proc', e)
            BY <3>1, <3>2, <3>3, Zenon DEF RowCounted
        <3>5. GivenUp(proposals, height, e) => GivenUp(proposals', height, e)
            BY <3>1, Zenon DEF GivenUp
        <3> QED BY <3>1, <3>2, <3>4, <3>5, Zenon
    <2> QED BY <2>1, <2>2, Zenon
<1>7. RowsMade(D1, proposals', proc', height')
    BY <1>6, Zenon DEF RowsMade
<1>8. ASSUME NEW e \in Deals
      PROVE  /\ e \notin DOMAIN D1 => proposals'[e].sent = 0 /\ proposals'[e].accepted = 0
             /\ reports[e] # <<>> => e \in DOMAIN D1 /\ D1[e].status # "deal-making"
             /\ \A i \in DOMAIN reports[e] :
                   reports[e][i].error = TRUE => GivenUp(proposals', height, e)
    <2>1. /\ e \notin DOMAIN D => proposals[e].sent = 0 /\ proposals[e].accepted = 0
          /\ reports[e] # <<>> => e \in DOMAIN D /\ D[e].status # "deal-making"
          /\ \A i \in DOMAIN reports[e] :
                reports[e][i].error = TRUE => GivenUp(proposals, height, e)
        BY Zenon DEF MakingInv, ReportsMade
    <2>2. CASE e # d
        <3>1. proposals'[e] = proposals[e] /\ (e \in DOMAIN D => D1[e] = D[e])
            BY <2>2, Zenon
        <3>2. GivenUp(proposals, height, e) => GivenUp(proposals', height, e)
            BY <3>1, Zenon DEF GivenUp
        <3> QED BY <2>1, <3>1, <3>2, Zenon
    <2>3. CASE e = d
        <3>1. reports[e] = <<>> => DOMAIN reports[e] = {}
            OBVIOUS
        <3> QED BY <2>1, <2>3, <3>1, Zenon
    <2> QED BY <2>2, <2>3, Zenon
<1>9. ReportsMade(D1, proposals', reports', height')
    BY <1>8, Zenon DEF ReportsMade
<1>10. Clock(tickHeight', height')
    BY Zenon DEF MakingInv
<1> QED BY <1>4, <1>5, <1>7, <1>9, <1>10, Zenon DEF MakingInv


\* A goroutine that makes no deal and writes nothing.
LEMMA MakingGoes ==
    ASSUME ConfirmedInv, MakingInv, NEW p \in Processes, NEW st, Goes(p, st),
           UNCHANGED <<db, proposals, tickHeight, height, reports>>,
           proc[p] # Idle, ~Making(proc[p]), ~Making(st),
           st # Idle => st.deal = proc[p].deal,
           FollowsAll(st), BlamesAll(proposals, height, st)
    PROVE  MakingInv'
<1> DEFINE D == db.deals
           d == proc[p].deal
<1>1. /\ proc = [q \in Processes |-> proc[q]]
      /\ Working(D, chain, proposals, proc[p])
    BY Zenon DEF ConfirmedInv
<1>2. d \in DOMAIN D /\ d \in Deals
    BY <1>1, WorkingCopy, Zenon DEF ConfirmedInv, Tables
<1>3. D[d].status # "deal-making"
    BY Zenon DEF MakingInv, Procs, Counted
<1>4. Counted(db'.deals, proposals', st)
    BY <1>3, Zenon DEF Counted
<1>5. \A q \in Processes : proc[q] # Idle /\ proc[q].deal = d => ~Making(proc[q])
    BY <1>3, Zenon DEF MakingInv, Procs, Counted
<1>6. /\ RowCounted(D, proposals, proc, d)
      /\ D[d].error = TRUE => D[d].status \in Final /\ GivenUp(proposals, height, d)
    BY <1>2, Zenon DEF MakingInv, RowsMade
<1>7. RowCounted(db'.deals, proposals', proc', d)
    BY <1>3, <1>6, Zenon DEF RowCounted
<1>8. OneDealStep(p, st, d)
    BY <1>2, <1>3, <1>4, <1>5, <1>6, <1>7, Zenon DEF OneDealStep
<1> QED BY <1>8, MakingStep, Zenon

\* A deal that is claimed.
LEMMA ClaimMaking ==
    ASSUME ConfirmedInv, ConfirmedInv', MakingInv,
           NEW p \in Processes, NEW d, NEW status, NEW step,
           GetNextPending(p, d, status, step),
           \/ status = "deal-making" /\ step = "propose"
           \/ status = "confirmation" /\ step = "resolve"
           \/ status = "report-finalized" /\ step = "report"
    PROVE  MakingInv'
<1> DEFINE D == db.deals
           D1 == db'.deals
           row == [D[d] EXCEPT !.executing = TRUE]
           st == At(step, d, D1[d])
<1>1. /\ Tables(db) /\ Rows(D, chain, proposals)
      /\ d \in DOMAIN D /\ D[d].status = status
      /\ db' = NextPendingAuctionDeal(db, d)
      /\ Goes(p, st) /\ proc[p] = Idle
      /\ UNCHANGED <<tickHeight, proposals, height, reports>>
      /\ D[d].executing => \A q \in Processes : proc[q] # Idle => proc[q].deal # d
      /\ proc = [q \in Processes |-> proc[q]] /\ DOMAIN D \subseteq Deals
    BY Zenon DEF GetNextPending, Claimable, ConfirmedInv, Tables, deals
<1>2. D[d] = [x \in RowFields |-> D[d][x]]
    BY <1>1, Zenon DEF Rows, Claim, Copy
<1>3. /\ row = [x \in RowFields |-> row[x]]
      /\ row.executing = TRUE
      /\ \A x \in RowFields : x # "executing" => row[x] = D[d][x]
    <2>1. "executing" \in RowFields
        BY Zenon DEF RowFields
    <2> QED BY <1>2, <2>1, RowExcept, Zenon
<1>4. Written(db, d, row, db')
    BY <1>1, Zenon DEF Written, NextPendingAuctionDeal
<1> HIDE DEF row
<1>5. OneRow(D, d, row, D1)
    BY <1>1, <1>4, TableUpdated, Zenon
<1>6. /\ D1[d].status = status /\ D1[d].executing = TRUE
      /\ D1[d].retries = D[d].retries /\ D1[d].error = D[d].error
    BY <1>1, <1>3, <1>5, Zenon DEF OneRow, RowFields
<1>7. /\ RowCounted(D, proposals, proc, d)
      /\ D[d].error = TRUE => D[d].status \in Final /\ GivenUp(proposals, height, d)
    BY <1>1, Zenon DEF MakingInv, RowsMade
<1>8. /\ st # Idle /\ st.step = step /\ st.deal = d /\ st.aud = D1[d]
      /\ proc'[p] = st
    BY <1>1, Zenon DEF At, Idle, Goes
<1> HIDE DEF st
<1>9. Follows(st) /\ FollowsAll(st)
    BY <1>1, <1>6, <1>8, Zenon DEF FollowsAll, Follows
<1>10. BlamesAll(proposals', height, st)
    <2>1. D1[d].error = TRUE => status = "report-finalized"
        BY <1>1, <1>6, <1>7, Zenon DEF Final
    <2>2. Blames(proposals', height, st)
        BY <1>1, <1>6, <1>7, <1>8, <2>1, Zenon DEF Blames
    <2> QED BY <1>8, <2>2, Zenon DEF BlamesAll
<1>11. CASE status = "deal-making"
    <2>1. step = "propose"
        BY <1>11, Zenon
    <2>2. Making(st)
        BY <1>6, <1>8, <1>11, <2>1, Zenon DEF Making
    <2>3. ~D[d].executing
        BY <1>1, <1>7, <1>11, Zenon DEF RowCounted, Making
    <2>4. Untaken(proposals[d], D[d].retries)
        BY <1>1, <1>7, <1>11, <2>3, Zenon DEF RowCounted
    <2>5. ASSUME NEW q \in Processes, proc[q] # Idle PROVE proc[q].deal # d
        <3>1. Counted(D, proposals, proc[q])
            BY Zenon DEF MakingInv, Procs
        <3> QED BY <1>1, <1>11, <2>3, <2>5, <3>1, Zenon DEF Counted
    <2>6. Counted(D1, proposals', st)
        BY <1>1, <1>6, <1>8, <1>11, <2>1, <2>2, <2>4 DEF Counted
    <2>7. RowCounted(D1, proposals', proc', d)
        BY <1>6, <1>8, <1>11, <2>2, Zenon DEF RowCounted
    <2>8. reports[d] = <<>>
        BY <1>1, <1>11, Zenon DEF MakingInv, ReportsMade
    <2>9. OneDealStep(p, st, d)
        BY <1>1, <1>5, <1>6, <1>7, <1>8, <1>9, <1>10, <2>5, <2>6, <2>7, <2>8, Zenon
           DEF OneDealStep, OneRow
    <2> QED BY <2>9, MakingStep, Zenon
<1>12. CASE status # "deal-making"
    <2>1. step \in {"resolve", "report"}
        BY <1>12, Zenon
    <2>2. ~Making(st)
        BY <1>8, <2>1, Zenon DEF Making
    <2>3. ASSUME NEW q \in Processes, proc[q] # Idle, proc[q].deal = d
          PROVE  ~Making(proc[q])
        <3>1. Counted(D, proposals, proc[q])
            BY Zenon DEF MakingInv, Procs
        <3> QED BY <1>1, <1>12, <2>3, <3>1, Zenon DEF Counted
    <2>4. Counted(D1, proposals', st)
        BY <1>6, <1>8, <1>12, <2>2, Zenon DEF Counted
    <2>5. RowCounted(D1, proposals', proc', d)
        BY <1>1, <1>6, <1>7, <1>12, Zenon DEF RowCounted
    <2>6. OneDealStep(p, st, d)
        BY <1>1, <1>5, <1>6, <1>7, <1>8, <1>9, <1>10, <1>12, <2>3, <2>4, <2>5, Zenon
           DEF OneDealStep, OneRow
    <2> QED BY <2>6, MakingStep, Zenon
<1> QED BY <1>11, <1>12, Zenon


\* A copy that is written.
LEMMA SaveMaking ==
    ASSUME ConfirmedInv, MakingInv, NEW p \in Processes, SaveAndMoveAuctionDeal(p),
           faults' = faults, faults \in Nat
    PROVE  MakingInv'
<1> DEFINE st == proc[p]
           d == st.deal
           D == db.deals
           D1 == db'.deals
           row == [st.aud EXCEPT !.status = st.to, !.executing = FALSE]
           moved == [st.aud EXCEPT !.status = st.to]
<1>1. /\ Tables(db) /\ Working(D, chain, proposals, st) /\ DOMAIN D \subseteq Deals
      /\ proc = [q \in Processes |-> proc[q]]
    BY Zenon DEF ConfirmedInv, Tables
<1>2. /\ st.step = "save" /\ st # Idle
      /\ UNCHANGED <<proposals, tickHeight, height, reports>>
    BY DEF SaveAndMoveAuctionDeal, Idle
<1>3. /\ d \in DOMAIN D /\ Copy(D, chain, d, st.aud)
      /\ Simple(D, chain, proposals, st.then)
      /\ Simple(D, chain, proposals, st.onError)
    BY <1>1, <1>2, WorkingCopy, IdleIsSimple, Zenon DEF Working, Simple
<1>4. /\ Counted(D, proposals, st) /\ FollowsAll(st) /\ BlamesAll(proposals, height, st)
      /\ RowCounted(D, proposals, proc, d)
      /\ reports[d] # <<>> => D[d].status # "deal-making"
    BY <1>1, <1>3, Zenon DEF MakingInv, Procs, RowsMade, ReportsMade
<1>5. /\ st.then # Idle => st.then.deal = d /\ st.to # "deal-making"
      /\ st.onError # Idle => st.onError.deal = d
      /\ ~Making(st.then)
      /\ Follows(st.then) /\ Follows(st.onError)
      /\ Blames(proposals, height, st.then)
    BY <1>2, <1>4, Zenon DEF FollowsAll, Follows, BlamesAll
<1>6. FollowsAll(st.then) /\ BlamesAll(proposals, height, st.then)
    BY <1>3, <1>5, NestedFollows, Zenon
<1>7. CASE ~AreAllExpectedFieldsSet(st.aud) /\ db' = db /\ Goes(p, st.onError)
    <2>1. st.aud.status # "deal-making"
        BY <1>7, Zenon DEF AreAllExpectedFieldsSet
    <2>2. ~Making(st) /\ ~Making(st.onError) /\ Blames(proposals, height, st.onError)
        BY <1>2, <1>4, <2>1, Zenon DEF Making, FollowsAll, Follows, BlamesAll
    <2>3. FollowsAll(st.onError) /\ BlamesAll(proposals, height, st.onError)
        BY <1>3, <1>5, <2>2, NestedFollows, Zenon
    <2> HIDE DEF st, d
    <2>4. proc[p] # Idle /\ ~Making(proc[p]) /\ (st.onError # Idle => st.onError.deal = proc[p].deal)
        BY <1>2, <1>5, <2>2, Zenon DEF st, d
    <2> QED BY <1>2, <1>7, <2>2, <2>3, <2>4, MakingGoes, Zenon
<1>8. CASE db' = SaveAndMove(db, d, st.aud, st.to) /\ Goes(p, st.then)
    <2>1. st.aud = [x \in RowFields |-> st.aud[x]]
        BY <1>3, Zenon DEF Copy
    <2>2. /\ moved = [x \in RowFields |-> moved[x]]
          /\ moved.status = st.to
          /\ \A x \in RowFields : x # "status" => moved[x] = st.aud[x]
        <3>1. "status" \in RowFields
            BY Zenon DEF RowFields
        <3> QED BY <2>1, <3>1, RowExcept, Zenon
    <2>3. row = [moved EXCEPT !.executing = FALSE]
        BY Zenon
    <2>4. Written(db, d, row, db')
        BY <1>8, Zenon DEF Written, SaveAndMove, UpdateAuctionDeal
    <2> HIDE DEF moved, row
    <2>5. /\ row = [x \in RowFields |-> row[x]]
          /\ row.executing = FALSE
          /\ \A x \in RowFields : x # "executing" => row[x] = moved[x]
        <3>1. "executing" \in RowFields
            BY Zenon DEF RowFields
        <3> QED BY <2>2, <2>3, <3>1, RowExcept, Zenon
    <2>6. OneRow(D, d, row, D1)
        BY <1>1, <1>3, <2>4, TableUpdated, Zenon
    <2>7. /\ D1[d].status = st.to /\ D1[d].executing = FALSE
          /\ D1[d].retries = st.aud.retries /\ D1[d].error = st.aud.error
        BY <2>2, <2>5, <2>6, Zenon DEF RowFields, OneRow
    <2>8. proc'[p] = st.then
        BY <1>1, <1>8, Zenon DEF Goes
    <2>9. D1[d].error = TRUE => D1[d].status \in Final /\ GivenUp(proposals', height, d)
        BY <1>2, <1>4, <2>7, Zenon DEF BlamesAll, Blames
    <2>10. Counted(D1, proposals', st.then)
        BY <1>5, <2>7, Zenon DEF Counted
    <2>11. CASE Making(st)
        <3>1. \A q \in Processes : q # p /\ proc[q] # Idle => proc[q].deal # d
            BY <2>11, OnlyMaker, Zenon
        <3>2. Spent(proposals[d]) /\ (st.to = "deal-making" => Untaken(proposals[d], st.aud.retries))
            BY <1>2, <1>4, <2>11, Zenon DEF Counted
        <3>3. RowCounted(D1, proposals', proc', d)
            BY <1>2, <2>7, <3>2, Zenon DEF RowCounted
        <3>4. D[d].status = "deal-making"
            BY <1>2, <1>4, <2>11, Zenon DEF Counted
        <3>5. reports[d] = <<>>
            BY <1>4, <3>4, Zenon
        <3>6. OneDealStep(p, st.then, d)
            BY <1>2, <1>3, <1>5, <1>6, <1>8, <2>6, <2>9, <2>10, <3>1, <3>3, <3>5, Zenon
               DEF OneDealStep, OneRow
        <3> QED BY <3>6, MakingStep, Zenon
    <2>12. CASE ~Making(st)
        <3>1. D[d].status # "deal-making"
            BY <1>2, <1>4, <2>12, Zenon DEF Counted
        <3>2. st.to # "deal-making"
            BY <1>2, <1>4, <2>12, Zenon DEF FollowsAll, Follows, Making
        <3>3. ASSUME NEW q \in Processes, proc[q] # Idle, proc[q].deal = d
              PROVE  ~Making(proc[q])
            <4>1. Counted(D, proposals, proc[q])
                BY Zenon DEF MakingInv, Procs
            <4> QED BY <3>1, <3>3, <4>1, Zenon DEF Counted
        <3>4. RowCounted(D1, proposals', proc', d)
            BY <1>2, <1>4, <2>7, <3>1, <3>2, Zenon DEF RowCounted
        <3>5. OneDealStep(p, st.then, d)
            BY <1>2, <1>3, <1>5, <1>6, <1>8, <2>6, <2>7, <2>9, <2>10, <3>2, <3>3, <3>4, Zenon
               DEF OneDealStep, OneRow
        <3> QED BY <3>5, MakingStep, Zenon
    <2> QED BY <2>11, <2>12, Zenon
<1> QED BY <1>7, <1>8 DEF SaveAndMoveAuctionDeal, Fault

\* The deal maker takes a deal as accepted exactly when the provider got the proposal
\* and accepted it.
LEMMA ExecutionOutcome ==
    ASSUME NEW p, NEW d, NEW net \in Networks
    PROVE  /\ p # Absent /\ ProposalSent(net) /\ net.answer = "accepted" =>
                 /\ ExecuteProposal(p, d, net).err = FALSE
                 /\ ExecuteProposal(p, d, net).retriable = FALSE
           /\ ~(p # Absent /\ ProposalSent(net) /\ net.answer = "accepted") =>
                 \/ ExecuteProposal(p, d, net).err = TRUE
                 \/ ExecuteProposal(p, d, net).retriable = TRUE
<1> DEFINE protocol == DealProtocolForStorageProvider(net)
           answer == IF protocol = "v120" THEN CreateAndSendProposalV120(net)
                     ELSE SendProposalV110(net)
<1>1. net.supports \subseteq {"v110", "v120"} /\ net.answer \in {"none", "rejected", "accepted"}
    BY Zenon DEF Networks
<1>2. protocol \in {"none", "v120", "v110"} /\ "none" \notin net.supports
    BY <1>1, Zenon DEF DealProtocolForStorageProvider
<1>3. CASE p = Absent
    BY <1>3, Zenon DEF ExecuteProposal, ExecFailed
<1>4. CASE p # Absent /\ protocol = "none"
    <2>1. ~ProposalSent(net)
        BY <1>2, <1>4, Zenon DEF ProposalSent, StreamToStorageProvider
    <2>2. ExecuteProposal(p, d, net) = ExecFailed(TRUE, TRUE)
        BY <1>4, Zenon DEF ExecuteProposal
    <2> QED BY <2>1, <2>2 DEF ExecFailed
<1>5. CASE p # Absent /\ protocol # "none"
    <2>1. answer = IF ProposalSent(net) THEN net.answer ELSE "none"
        BY <1>2, <1>5, Zenon DEF ProposalSent, CreateAndSendProposalV120, SendProposalV120,
              SendProposalV110
    <2> DEFINE ok == [id |-> Text(<<IF protocol = "v120" THEN "uuid" ELSE "cid", d>>),
                      retriable |-> FALSE, err |-> FALSE]
    <2>2. ExecuteProposal(p, d, net) =
             IF answer = "none" THEN ExecFailed(TRUE, protocol = "v120")
             ELSE IF answer = "rejected" THEN ExecFailed(FALSE, TRUE) ELSE ok
        BY <1>5, Zenon DEF ExecuteProposal
    <2>3. ok.err = FALSE /\ ok.retriable = FALSE
        BY Zenon
    <2>4. /\ \A b : ExecFailed(TRUE, b).retriable = TRUE
          /\ ExecFailed(FALSE, TRUE).err = TRUE
        BY Zenon DEF ExecFailed
    <2> HIDE DEF answer, protocol, ok
    <2>5. CASE ProposalSent(net) /\ net.answer = "accepted"
        <3>1. answer = "accepted"
            BY <2>1, <2>5, Zenon
        <3>2. "accepted" # "none" /\ "accepted" # "rejected"
            BY Zenon
        <3>3. ExecuteProposal(p, d, net) = ok
            BY <2>2, <3>1, <3>2, Zenon
        <3> QED BY <1>5, <2>3, <2>5, <3>3, Zenon
    <2>6. CASE ~(ProposalSent(net) /\ net.answer = "accepted")
        BY <1>1, <2>1, <2>2, <2>4, <2>6, Zenon
    <2> QED BY <2>5, <2>6, Zenon
<1> QED BY <1>2, <1>3, <1>4, <1>5, Zenon


\* The writes that follow a proposal: an error, a retry, a success.
ErrorSave(d, st) ==
    \E bad : /\ st = Saving(d, bad, "report-finalized", Idle, Idle)
            /\ bad.status = "deal-making"

RetrySave(d, aud, st) ==
    \E more, worse :
        /\ st = IF aud.retries + 1 > MaxRetries
                THEN Saving(d, worse, "report-finalized", Idle, SavingError(d, aud))
                ELSE Saving(d, more, "deal-making", Idle, SavingError(d, aud))
        /\ more.status = "deal-making" /\ more.error = aud.error
        /\ more.retries = aud.retries + 1
        /\ worse.status = "deal-making"

AcceptSave(d, aud, st) ==
    \E new : /\ st = Saving(d, new, "confirmation", At("publish-accepted", d, aud),
                            SavingError(d, aud))
            /\ new.status = "deal-making" /\ new.error = aud.error

\* The copies in them have the status deal-making.
LEMMA AfterExecutionIs ==
    ASSUME NEW D, NEW C, NEW d, NEW aud, Copy(D, C, d, aud), NEW id,
           aud.status = "deal-making", aud.retries \in Nat
    PROVE  /\ ErrorSave(d, SavingError(d, aud))
           /\ RetrySave(d, aud, SavingRetry(d, aud))
           /\ AcceptSave(d, aud, SavingAccepted(d, aud, id))
<1> DEFINE bad == [aud EXCEPT !.error = TRUE]
           more == [aud EXCEPT !.retries = @ + 1]
           worse == [more EXCEPT !.error = TRUE]
           taken == [aud EXCEPT !.retries = 0, !.proposal = id]
<1>1. DOMAIN aud = RowFields
    BY Zenon DEF Copy
<1>2. bad.status = "deal-making"
    BY <1>1, Zenon DEF RowFields
<1>3. /\ more.status = "deal-making" /\ more.error = aud.error
      /\ more.retries = aud.retries + 1 /\ DOMAIN more = RowFields
    BY <1>1, Zenon DEF RowFields
<1>4. worse.status = "deal-making"
    BY <1>3, Zenon DEF RowFields
<1>5. taken.status = "deal-making" /\ taken.error = aud.error
    BY <1>1, Zenon DEF RowFields
<1>6. SavingError(d, aud) = Saving(d, bad, "report-finalized", Idle, Idle)
    BY Zenon DEF SavingError
<1>7. SavingRetry(d, aud) =
         IF aud.retries + 1 > MaxRetries
         THEN Saving(d, worse, "report-finalized", Idle, SavingError(d, aud))
         ELSE Saving(d, more, "deal-making", Idle, SavingError(d, aud))
    BY <1>3, Zenon DEF SavingRetry
<1>8. SavingAccepted(d, aud, id) =
         Saving(d, taken, "confirmation",
                At("publish-accepted", d, aud), SavingError(d, aud))
    BY Zenon DEF SavingAccepted
<1> HIDE DEF bad, more, worse, taken
<1>9. ErrorSave(d, SavingError(d, aud))
    BY <1>2, <1>6, Zenon DEF ErrorSave
<1>10. RetrySave(d, aud, SavingRetry(d, aud))
    BY <1>3, <1>4, <1>7, Zenon DEF RetrySave
<1>11. AcceptSave(d, aud, SavingAccepted(d, aud, id))
    BY <1>5, <1>8, Zenon DEF AcceptSave
<1> QED BY <1>9, <1>10, <1>11, Zenon

\* The goroutine has the deal to make.
Held(D, d) == D[d].status = "deal-making" /\ D[d].executing = TRUE

\* A copy that the deal maker may write.
MayMake(P, h, d, new, to) ==
    /\ new.status = "deal-making"
    /\ Spent(P[d])
    /\ to = "deal-making" => Untaken(P[d], new.retries)
    /\ new.error = TRUE => to \in Final /\ GivenUp(P, h, d)

\* What follows when the write succeeds.
ThenMade(d, to, then) ==
    \/ then = Idle
    \/ \E aud : /\ then = At("publish-accepted", d, aud)
                /\ aud.error # TRUE /\ to # "deal-making"

\* A deal maker that is in order.
MakerAt(D, P, h, d, st) ==
    /\ st # Idle /\ st.deal = d /\ Making(st)
    /\ Counted(D, P, st) /\ FollowsAll(st) /\ BlamesAll(P, h, st)

\* A write of the deal maker.
LEMMA MakerSaves ==
    ASSUME NEW D, NEW P, NEW h, NEW d, NEW new, NEW to, NEW then, NEW onError,
           Held(D, d), MayMake(P, h, d, new, to), ThenMade(d, to, then),
           onError = Idle \/ ErrorSave(d, onError)
    PROVE  MakerAt(D, P, h, d, Saving(d, new, to, then, onError))
<1> DEFINE st == Saving(d, new, to, then, onError)
<1>1. /\ st # Idle /\ st.step = "save" /\ st.deal = d /\ st.aud = new /\ st.to = to
      /\ st.then = then /\ st.onError = onError
    BY Zenon DEF Saving, Idle
<1> HIDE DEF st
<1>2. Making(st)
    BY <1>1, Zenon DEF Making, MayMake
<1>3. Counted(D, P, st)
    BY <1>1, <1>2, Zenon DEF Counted, Held, MayMake
<1>4. then # Idle => /\ then.deal = d /\ then.step = "publish-accepted"
                     /\ then.aud.error # TRUE /\ to # "deal-making"
    <2>1. \A aud : /\ At("publish-accepted", d, aud).deal = d
                   /\ At("publish-accepted", d, aud).step = "publish-accepted"
                   /\ At("publish-accepted", d, aud).aud = aud
        BY Zenon DEF At
    <2> QED BY <2>1, Zenon DEF ThenMade
<1>5. ~Making(then) /\ Follows(then) /\ Blames(P, h, then)
    BY <1>4, Zenon DEF Making, Follows, Blames
<1>6. onError # Idle => /\ onError.deal = d /\ onError.step = "save"
                        /\ onError.aud.status = "deal-making"
                        /\ onError.then = Idle /\ onError.onError = Idle
    BY DEF Saving, ErrorSave
<1>7. Follows(onError)
    BY <1>6, Zenon DEF Follows, Making
<1>8. Follows(st)
    <2>1. "save" # "propose" /\ "save" \notin {"resolve", "check", "report"}
        BY Zenon
    <2> QED BY <1>1, <1>4, <1>5, <1>6, <2>1, Zenon DEF Follows, MayMake
<1>9. FollowsAll(st)
    BY <1>1, <1>5, <1>7, <1>8, Zenon DEF FollowsAll
<1>10. Blames(P, h, st)
    BY <1>1, Zenon DEF Blames, MayMake
<1>11. BlamesAll(P, h, st)
    BY <1>1, <1>5, <1>10, Zenon DEF BlamesAll, MayMake
<1>12. MakerAt(D, P, h, d, st)
    BY <1>1, <1>2, <1>3, <1>9, <1>11, Zenon DEF MakerAt
<1> QED BY <1>12, Zenon DEF st

\* A proposal that is sent, and counted.
LEMMA ExecuteMaking ==
    ASSUME ConfirmedInv, MakingInv, NEW m \in Processes, ExecuteAuctionDeal(m),
           faults' = faults, faults \in Nat
    PROVE  MakingInv'
<1> DEFINE d == proc[m].deal
           aud == proc[m].aud
           D == db.deals
           prop(net) == CreateDealProposalV110(GetAuctionData(db, aud.data), aud,
                                               GetRemoteWallet(db, aud.data), net)
<1>1. /\ proc[m].step = "propose" /\ proc[m] # Idle
      /\ UNCHANGED <<db, tickHeight, height, reports>>
      /\ Working(D, chain, proposals, proc[m])
      /\ proc = [q \in Processes |-> proc[q]] /\ DOMAIN D \subseteq Deals
      /\ Accepted(chain, proposals)
    BY DEF ExecuteAuctionDeal, ConfirmedInv, Tables, Idle
<1>2. d \in DOMAIN D /\ Copy(D, chain, d, aud) /\ d \in Deals
    BY <1>1, WorkingCopy, Zenon
<1>3. /\ Counted(D, proposals, proc[m]) /\ Follows(proc[m])
      /\ Blames(proposals, height, proc[m])
      /\ RowCounted(D, proposals, proc, d)
      /\ D[d].error = TRUE => D[d].status \in Final
      /\ reports[d] # <<>> => D[d].status # "deal-making"
    BY <1>2, Zenon DEF MakingInv, Procs, RowsMade, ReportsMade, FollowsAll, BlamesAll
<1>4. aud.status = "deal-making" /\ Making(proc[m]) /\ aud.error # TRUE
    BY <1>1, <1>3, Zenon DEF Follows, Making, Blames
<1>5. /\ D[d].status = "deal-making" /\ D[d].executing = TRUE
      /\ Untaken(proposals[d], aud.retries)
    BY <1>1, <1>3, <1>4, Zenon DEF Counted
<1>6. reports[d] = <<>> /\ D[d].error # TRUE
    BY <1>3, <1>5, Zenon DEF Final
<1>7. \A q \in Processes : q # m /\ proc[q] # Idle => proc[q].deal # d
    BY <1>4, OnlyMaker, Zenon
<1>8. PICK net \in Networks :
          /\ Goes(m, AfterExecution(d, aud, ExecuteProposal(prop(net), d, net)))
          /\ Propose(d, prop(net), net, net.answer)
    BY SMTT(30) DEF ExecuteAuctionDeal, Fault
<1> DEFINE t == prop(net)
           result == ExecuteProposal(t, d, net)
           P1 == proposals'
           taken == t # Absent /\ ProposalSent(net) /\ net.answer = "accepted"
<1>9. /\ Goes(m, AfterExecution(d, aud, result))
      /\ Propose(d, t, net, net.answer)
    BY <1>8, Zenon
<1>10. /\ taken => result.err = FALSE /\ result.retriable = FALSE
       /\ ~taken => result.err = TRUE \/ result.retriable = TRUE
    BY ExecutionOutcome, Zenon
<1> HIDE DEF t, result
<1>11. /\ proposals = [e \in Deals |-> [sent |-> proposals[e].sent,
                                       accepted |-> proposals[e].accepted,
                                       terms |-> proposals[e].terms]]
       /\ proposals[d].sent \in Nat /\ proposals[d].accepted \in Nat
    BY <1>1, <1>2, Zenon DEF Accepted
<1>12. /\ \A e \in Deals : e # d => P1[e] = proposals[e]
       /\ P1[d].sent \in {proposals[d].sent, proposals[d].sent + 1}
       /\ P1[d].accepted = IF taken THEN proposals[d].accepted + 1
                           ELSE proposals[d].accepted
    <2> DEFINE n == [sent |-> proposals[d].sent + 1,
                     accepted |-> proposals[d].accepted
                                    + (IF net.answer = "accepted" THEN 1 ELSE 0),
                     terms |-> IF net.answer = "accepted" THEN t ELSE proposals[d].terms]
    <2>1. CASE t = Absent \/ ~ProposalSent(net)
        <3>1. P1 = proposals
            BY <1>9, <2>1, Zenon DEF Propose
        <3> QED BY <2>1, <3>1, Zenon
    <2>2. CASE t # Absent /\ ProposalSent(net)
        <3>1. P1 = [proposals EXCEPT ![d] = n]
            BY <1>9, <2>2, Zenon DEF Propose
        <3>2. n.sent = proposals[d].sent + 1
            BY Zenon
        <3>3. n.accepted = IF taken THEN proposals[d].accepted + 1
                           ELSE proposals[d].accepted
            BY <1>11, <2>2
        <3>4. DOMAIN proposals = Deals
            BY <1>11, Zenon
        <3> HIDE DEF n, taken
        <3>5. P1[d] = n /\ \A e \in Deals : e # d => P1[e] = proposals[e]
            BY <1>2, <3>1, <3>4, Zenon
        <3> QED BY <3>2, <3>3, <3>5, Zenon
    <2> QED BY <2>1, <2>2, Zenon
<1> HIDE DEF taken
<1>13. /\ aud.retries \in Nat /\ aud.retries <= MaxRetries /\ MaxRetries \in Nat
       /\ proposals[d].sent <= aud.retries /\ proposals[d].accepted = 0
    BY <1>5, DealerAssumption, Zenon DEF Untaken
<1>14. /\ P1[d].sent \in Nat /\ P1[d].sent <= aud.retries + 1
       /\ P1[d].accepted <= 1
       /\ ~taken => P1[d].accepted = 0
    <2> HIDE DEF P1, d, aud
    <2> QED BY SMTT(30), <1>11, <1>12, <1>13
<1>15. Spent(P1[d]) /\ (~taken => GivenUp(P1, height, d)) /\ Held(D, d)
    BY SMTT(30), <1>5, <1>13, <1>14 DEF Spent, GivenUp, Held
<1>16. /\ ErrorSave(d, SavingError(d, aud))
       /\ RetrySave(d, aud, SavingRetry(d, aud))
       /\ AcceptSave(d, aud, SavingAccepted(d, aud, result.id))
    BY <1>2, <1>4, <1>13, AfterExecutionIs, Zenon
<1> DEFINE Fine(x) == MakerAt(D, P1, height, d, x)
<1>17. /\ "report-finalized" \in Final /\ "report-finalized" # "deal-making"
       /\ "confirmation" # "deal-making"
       /\ ThenMade(d, "report-finalized", Idle) /\ ThenMade(d, "deal-making", Idle)
    BY Zenon DEF Final, ThenMade
<1>18. ThenMade(d, "confirmation", At("publish-accepted", d, aud))
    BY <1>4, <1>17, Zenon DEF ThenMade
<1> HIDE DEF P1, d, aud, D
<1>19. \A new : ~taken /\ new.status = "deal-making" =>
                   MayMake(P1, height, d, new, "report-finalized")
    BY <1>15, <1>17, Zenon DEF MayMake
<1>20. ~taken => Fine(SavingError(d, aud))
    BY <1>15, <1>16, <1>17, <1>19, MakerSaves, Zenon DEF ErrorSave
<1>21. ~taken => Fine(SavingRetry(d, aud))
    <2> SUFFICES ASSUME ~taken PROVE Fine(SavingRetry(d, aud))
        BY Zenon
    <2>1. PICK more, worse :
            /\ SavingRetry(d, aud) =
                    IF aud.retries + 1 > MaxRetries
                    THEN Saving(d, worse, "report-finalized", Idle, SavingError(d, aud))
                    ELSE Saving(d, more, "deal-making", Idle, SavingError(d, aud))
            /\ more.status = "deal-making" /\ more.error = aud.error
            /\ more.retries = aud.retries + 1
            /\ worse.status = "deal-making"
        BY <1>16, Zenon DEF RetrySave
    <2>2. CASE aud.retries + 1 > MaxRetries
        <3>1. SavingRetry(d, aud) =
                 Saving(d, worse, "report-finalized", Idle, SavingError(d, aud))
            BY <2>1, <2>2, Zenon
        <3>2. MayMake(P1, height, d, worse, "report-finalized")
            BY <1>19, <2>1, Zenon
        <3>3. Fine(Saving(d, worse, "report-finalized", Idle, SavingError(d, aud)))
            BY <1>15, <1>16, <1>17, <3>2, MakerSaves, Zenon
        <3> QED BY <3>1, <3>3, Zenon
    <2>3. CASE ~(aud.retries + 1 > MaxRetries)
        <3>1. SavingRetry(d, aud) =
                 Saving(d, more, "deal-making", Idle, SavingError(d, aud))
            BY <2>1, <2>3, Zenon
        <3>2. Untaken(P1[d], more.retries)
            BY <1>13, <1>14, <2>1, <2>3 DEF Untaken
        <3>3. MayMake(P1, height, d, more, "deal-making")
            BY <1>4, <1>15, <2>1, <3>2, Zenon DEF MayMake, aud
        <3>4. Fine(Saving(d, more, "deal-making", Idle, SavingError(d, aud)))
            BY <1>15, <1>16, <1>17, <3>3, MakerSaves, Zenon
        <3> QED BY <3>1, <3>4, Zenon
    <2> QED BY <2>2, <2>3, Zenon
<1>22. Fine(SavingAccepted(d, aud, result.id))
    <2>1. PICK new : /\ SavingAccepted(d, aud, result.id) =
                          Saving(d, new, "confirmation", At("publish-accepted", d, aud),
                                 SavingError(d, aud))
                     /\ new.status = "deal-making" /\ new.error = aud.error
        BY <1>16, Zenon DEF AcceptSave
    <2>2. MayMake(P1, height, d, new, "confirmation")
        BY <1>4, <1>15, <1>17, <2>1, Zenon DEF MayMake, aud
    <2>3. Fine(Saving(d, new, "confirmation", At("publish-accepted", d, aud),
                      SavingError(d, aud)))
        BY <1>15, <1>16, <1>18, <2>2, MakerSaves, Zenon
    <2> QED BY <2>1, <2>3, Zenon
<1> DEFINE st == AfterExecution(d, aud, result)
<1>23. MakerAt(D, P1, height, d, st)
    BY <1>10, <1>20, <1>21, <1>22, Zenon DEF AfterExecution
<1>24. Goes(m, st)
    BY <1>9, Zenon
<1> HIDE DEF st
<1> USE DEF d, aud, D
<1>25. proc'[m] = st
    BY <1>1, <1>24, Zenon DEF Goes
<1>26. RowCounted(db'.deals, P1, proc', d)
    BY <1>1, <1>5, <1>23, <1>25, Zenon DEF RowCounted, MakerAt
<1>27. OneDealStep(m, st, d)
    BY <1>1, <1>2, <1>6, <1>7, <1>12, <1>23, <1>24, <1>26, Zenon
       DEF OneDealStep, P1, MakerAt
<1> QED BY <1>27, MakingStep, Zenon


\* The deal maker's last step.
LEMMA PublishMaking ==
    ASSUME ConfirmedInv, MakingInv, NEW p \in Processes, PublishDealProposalAccepted(p),
           faults' = faults, faults \in Nat
    PROVE  MakingInv'
<1>1. /\ proc[p].step = "publish-accepted" /\ Goes(p, Idle)
      /\ UNCHANGED <<db, proposals, tickHeight, height, reports>>
    BY DEF PublishDealProposalAccepted, Fault
<1>2. proc[p] # Idle /\ ~Making(proc[p]) /\ ~Making(Idle)
    BY <1>1 DEF Idle, Making
<1>3. FollowsAll(Idle) /\ BlamesAll(proposals, height, Idle)
    BY Zenon DEF FollowsAll, Follows, BlamesAll, Blames
<1> QED BY <1>1, <1>2, <1>3, MakingGoes, Zenon

\* A write of the monitorer or the reporter.
OtherSave(P, h, d, aud, to) ==
    /\ aud.status # "deal-making" /\ to # "deal-making"
    /\ aud.error = TRUE => to \in Final /\ GivenUp(P, h, d)

\* What follows when it succeeds and when it fails.
OtherThen(d, then) ==
    then = Idle \/ \E new : /\ then = At("check", d, new)
                            /\ new.status # "deal-making" /\ new.error # TRUE

OtherFail(P, h, d, aud, onError) ==
    onError = Idle \/ \E status : /\ onError = Saving(d, aud, status, Idle, Idle)
                                  /\ OtherSave(P, h, d, aud, status)

OtherAt(P, h, d, st) ==
    st # Idle /\ ~Making(st) /\ st.deal = d /\ FollowsAll(st) /\ BlamesAll(P, h, st)

\* Such a write makes no deal.
LEMMA OtherSaves ==
    ASSUME NEW P, NEW h, NEW d, NEW aud, NEW to, NEW then, NEW onError,
           OtherSave(P, h, d, aud, to), OtherThen(d, then),
           OtherFail(P, h, d, aud, onError)
    PROVE  OtherAt(P, h, d, Saving(d, aud, to, then, onError))
<1> DEFINE st == Saving(d, aud, to, then, onError)
<1>1. /\ st # Idle /\ st.step = "save" /\ st.deal = d /\ st.aud = aud /\ st.to = to
      /\ st.then = then /\ st.onError = onError
    BY Zenon DEF Saving, Idle
<1> HIDE DEF st
<1>2. ~Making(st)
    BY <1>1, Zenon DEF Making, OtherSave
<1>3. then # Idle => /\ then.deal = d /\ then.step = "check"
                     /\ then.aud.status # "deal-making" /\ then.aud.error # TRUE
    <2>1. \A new : /\ At("check", d, new).deal = d /\ At("check", d, new).aud = new
                   /\ At("check", d, new).step = "check"
        BY Zenon DEF At
    <2> QED BY <2>1, Zenon DEF OtherThen
<1>4. ~Making(then) /\ Follows(then) /\ Blames(P, h, then)
    BY <1>3, Zenon DEF Making, Follows, Blames
<1>5. onError # Idle => /\ onError.deal = d /\ onError.step = "save"
                        /\ onError.aud = aud /\ onError.then = Idle
                        /\ onError.onError = Idle
                        /\ OtherSave(P, h, d, aud, onError.to)
    <2>1. \A status : LET s == Saving(d, aud, status, Idle, Idle)
                      IN  /\ s.deal = d /\ s.step = "save" /\ s.aud = aud
                          /\ s.then = Idle /\ s.onError = Idle /\ s.to = status
        BY Zenon DEF Saving
    <2> QED BY <2>1, Zenon DEF OtherFail
<1>6. ~Making(onError)
    BY <1>5, Zenon DEF Making, OtherSave
<1>7. /\ "save" # "propose" /\ "save" \notin {"resolve", "check", "report"}
      /\ ~Making(Idle)
    BY Zenon DEF Making
<1>8. Follows(onError)
    BY <1>5, <1>7, Zenon DEF Follows, OtherSave
<1>9. Blames(P, h, onError)
    BY <1>5, Zenon DEF Blames, OtherSave
<1>10. Follows(st)
    BY <1>1, <1>3, <1>4, <1>5, <1>6, <1>7, Zenon DEF Follows, OtherSave
<1>11. FollowsAll(st)
    BY <1>1, <1>4, <1>8, <1>10, Zenon DEF FollowsAll
<1>12. Blames(P, h, st)
    BY <1>1, Zenon DEF Blames, OtherSave
<1>13. BlamesAll(P, h, st)
    BY <1>1, <1>4, <1>9, <1>12, Zenon DEF BlamesAll
<1>14. OtherAt(P, h, d, st)
    BY <1>1, <1>2, <1>11, <1>13, Zenon DEF OtherAt
<1> QED BY <1>14, Zenon DEF st

\* The start epoch in a copy is the one on chain: a deal that is given up because
\* of it was given up in time.
LEMMA StartPassed ==
    ASSUME ConfirmedInv, MakingInv, NEW d, NEW aud, Copy(db.deals, chain, d, aud),
           ~(aud.start > tickHeight)
    PROVE  GivenUp(proposals, height, d)
<1> SUFFICES ASSUME proposals[d].accepted # 0 PROVE height >= proposals[d].terms[1].start
    BY Zenon DEF GivenUp
<1>1. d \in Deals
    BY Zenon DEF Copy, ConfirmedInv, Tables
<1>2. TermsOf(d, proposals[d].terms[1])
    BY <1>1 DEF ConfirmedInv, Accepted
<1>3. PICK ad \in AuctionDeals : \E i \in DOMAIN ad.proposals :
          d = <<ad.id, i>> /\ aud.start = ad.proposals[i].startEpoch
    BY Zenon DEF Copy, OfProposal
<1>4. PICK i \in DOMAIN ad.proposals :
          d = <<ad.id, i>> /\ aud.start = ad.proposals[i].startEpoch
    BY <1>3, Zenon
<1>5. PICK a \in AuctionDeals : \E j \in DOMAIN a.proposals :
          d = <<a.id, j>> /\ AsAsked(a, j, proposals[d].terms[1])
    BY <1>2, Zenon DEF TermsOf
<1>6. PICK j \in DOMAIN a.proposals :
          d = <<a.id, j>> /\ AsAsked(a, j, proposals[d].terms[1])
    BY <1>5, Zenon
<1>7. a = ad /\ i = j
    BY <1>4, <1>6, OneProposal, Zenon
<1>8. proposals[d].terms[1].start = aud.start
    BY <1>4, <1>6, <1>7, Zenon DEF AsAsked
<1>9. aud.start \in Nat
    BY <1>4, MessagesAssumption, Zenon
<1>10. tickHeight \in Nat /\ height \in Nat /\ tickHeight <= height
    BY Zenon DEF MakingInv, Clock
<1> QED BY <1>8, <1>9, <1>10


\* A monitorer that gives the deal up or leaves it to be watched again.
LEMMA UnfulfilledMaking ==
    ASSUME ConfirmedInv, MakingInv, NEW d, NEW aud, Copy(db.deals, chain, d, aud),
           aud.status # "deal-making", aud.error # TRUE
    PROVE  /\ OtherAt(proposals, height, d, SavingConfirmation(d, aud))
           /\ ~(aud.start > tickHeight) =>
                 OtherAt(proposals, height, d, SavingUnfulfilled(d, aud))
<1>1. OtherThen(d, Idle) /\ \A x : OtherFail(proposals, height, d, x, Idle)
    BY Zenon DEF OtherThen, OtherFail
<1>2. /\ "confirmation" # "deal-making" /\ "report-finalized" # "deal-making"
      /\ "report-finalized" \in Final
    BY Zenon DEF Final
<1>3. OtherAt(proposals, height, d, SavingConfirmation(d, aud))
    <2>1. OtherSave(proposals, height, d, aud, "confirmation")
        BY <1>2, Zenon DEF OtherSave
    <2> QED BY <1>1, <2>1, OtherSaves, Zenon DEF SavingConfirmation
<1>4. ASSUME ~(aud.start > tickHeight)
      PROVE  OtherAt(proposals, height, d, SavingUnfulfilled(d, aud))
    <2> DEFINE new == [aud EXCEPT !.error = TRUE]
    <2>1. new.status = aud.status
        BY Zenon DEF Copy, RowFields
    <2>2. GivenUp(proposals, height, d)
        BY <1>4, StartPassed, Zenon
    <2> HIDE DEF new
    <2>3. OtherSave(proposals, height, d, new, "report-finalized")
        BY <1>2, <2>1, <2>2, Zenon DEF OtherSave
    <2> QED BY <1>1, <2>3, OtherSaves, Zenon DEF SavingUnfulfilled, new
<1> QED BY <1>3, <1>4, Zenon

\* A goroutine that is in order and makes no deal goes on.
LEMMA OtherGoes ==
    ASSUME ConfirmedInv, MakingInv, NEW p \in Processes, NEW st, Goes(p, st),
           UNCHANGED <<db, proposals, tickHeight, height, reports>>,
           proc[p] # Idle, ~Making(proc[p]), OtherAt(proposals, height, proc[p].deal, st)
    PROVE  MakingInv'
BY MakingGoes, Zenon DEF OtherAt

\* A deal id that becomes known, or a deal that is given up.
LEMMA ResolveMaking ==
    ASSUME ConfirmedInv, MakingInv, NEW w \in Processes, ResolveDealID(w),
           faults' = faults, faults \in Nat
    PROVE  MakingInv'
<1> DEFINE d == proc[w].deal
           aud == proc[w].aud
           D == db.deals
           resolved(net) == [aud EXCEPT !.dealID = TryResolvingDealID(d, aud, net)]
<1>1. /\ proc[w].step = "resolve" /\ proc[w] # Idle
      /\ UNCHANGED <<db, proposals, tickHeight, height, reports>>
      /\ Working(D, chain, proposals, proc[w])
    BY DEF ResolveDealID, ConfirmedInv, Idle
<1>2. Copy(D, chain, d, aud) /\ aud.status = "confirmation"
    BY <1>1, Zenon DEF Working, Simple, Idle
<1>3. Blames(proposals, height, proc[w])
    BY Zenon DEF MakingInv, Procs, BlamesAll
<1>4. aud.error # TRUE /\ ~Making(proc[w]) /\ aud.status # "deal-making"
    BY <1>1, <1>2, <1>3, Zenon DEF Blames, Making
<1>5. ASSUME NEW new, new.status # "deal-making", new.error # TRUE
      PROVE  OtherAt(proposals, height, d, At("check", d, new))
    <2> DEFINE st == At("check", d, new)
    <2>1. st # Idle /\ st.step = "check" /\ st.deal = d /\ st.aud = new
        BY Zenon DEF At, Idle
    <2> HIDE DEF st
    <2>2. ~Making(st) /\ FollowsAll(st) /\ BlamesAll(proposals, height, st)
        BY <1>5, <2>1, Zenon DEF Making, FollowsAll, Follows, BlamesAll, Blames
    <2>3. OtherAt(proposals, height, d, st)
        BY <2>1, <2>2, Zenon DEF OtherAt
    <2> QED BY <2>3, Zenon DEF st
<1>6. CASE aud.dealID # 0 /\ Goes(w, At("check", d, aud))
    BY <1>1, <1>4, <1>5, <1>6, OtherGoes, Zenon
<1>7. CASE \E net \in Networks :
                 Goes(w, IF resolved(net) = aud THEN Unresolved(d, aud)
                         ELSE Saving(d, resolved(net), aud.status,
                                     At("check", d, resolved(net)), Idle))
    <2>1. PICK net \in Networks :
                 Goes(w, IF resolved(net) = aud THEN Unresolved(d, aud)
                         ELSE Saving(d, resolved(net), aud.status,
                                     At("check", d, resolved(net)), Idle))
        BY <1>7, Zenon
    <2> DEFINE new == resolved(net)
    <2>2. CASE new = aud
        <3>1. Goes(w, Unresolved(d, aud))
            BY <2>1, <2>2, Zenon
        <3>2. Unresolved(d, aud) = SavingConfirmation(d, aud)
              \/ (Unresolved(d, aud) = SavingUnfulfilled(d, aud) /\ ~(aud.start >= tickHeight))
            BY Zenon DEF Unresolved
        <3>3. ~(aud.start >= tickHeight) => ~(aud.start > tickHeight)
            <4>1. aud.start \in Nat
                BY <1>2, MessagesAssumption, Zenon DEF Copy, OfProposal
            <4>2. tickHeight \in Nat
                BY Zenon DEF MakingInv, Clock
            <4> QED BY <4>1, <4>2
        <3>4. OtherAt(proposals, height, d, Unresolved(d, aud))
            BY <1>2, <1>4, <3>2, <3>3, UnfulfilledMaking, Zenon
        <3> QED BY <1>1, <1>4, <3>1, <3>4, OtherGoes, Zenon
    <2>3. CASE new # aud
        <3>1. Goes(w, Saving(d, new, aud.status, At("check", d, new), Idle))
            BY <2>1, <2>3, Zenon
        <3>2. new.status = aud.status /\ new.error = aud.error
            BY <1>2, Zenon DEF Copy, RowFields
        <3> HIDE DEF new
        <3>3. OtherSave(proposals, height, d, new, aud.status)
            BY <1>4, <3>2, Zenon DEF OtherSave
        <3>4. OtherThen(d, At("check", d, new)) /\ OtherFail(proposals, height, d, new, Idle)
            BY <1>4, <3>2, Zenon DEF OtherThen, OtherFail
        <3>5. OtherAt(proposals, height, d,
                      Saving(d, new, aud.status, At("check", d, new), Idle))
            BY <3>3, <3>4, OtherSaves, Zenon
        <3> QED BY <1>1, <1>4, <3>1, <3>5, OtherGoes, Zenon
    <2> QED BY <2>2, <2>3, Zenon
<1> QED BY <1>6, <1>7 DEF ResolveDealID, Fault

\* What the chain says of a deal.
LEMMA CheckMaking ==
    ASSUME ConfirmedInv, MakingInv, NEW w \in Processes, CheckChainDeal(w),
           faults' = faults, faults \in Nat
    PROVE  MakingInv'
<1> DEFINE d == proc[w].deal
           aud == proc[w].aud
           exp == ChainDealOf(aud.dealID).expiration
           new == [aud EXCEPT !.expiration = exp]
<1>1. /\ proc[w].step = "check" /\ proc[w] # Idle /\ Goes(w, Checked(d, aud))
      /\ UNCHANGED <<db, proposals, tickHeight, height, reports>>
      /\ Working(db.deals, chain, proposals, proc[w])
    BY DEF CheckChainDeal, ConfirmedInv, Idle, Fault
<1>2. Copy(db.deals, chain, d, aud)
    BY <1>1, WorkingCopy, Zenon
<1>3. Blames(proposals, height, proc[w]) /\ Follows(proc[w])
    BY Zenon DEF MakingInv, Procs, BlamesAll, FollowsAll
<1>4. aud.error # TRUE /\ ~Making(proc[w]) /\ aud.status # "deal-making"
    BY <1>1, <1>3, Zenon DEF Blames, Making, Follows
<1>5. new.status = aud.status /\ new.error = aud.error
    BY <1>2, Zenon DEF Copy, RowFields
<1>6. \/ Checked(d, aud) = SavingConfirmation(d, aud)
      \/ Checked(d, aud) = SavingUnfulfilled(d, aud) /\ ~(aud.start > tickHeight)
      \/ Checked(d, aud) = Saving(d, new, "report-finalized", Idle, Idle)
    BY Zenon DEF Checked
<1> HIDE DEF new
<1>7. OtherAt(proposals, height, d, Saving(d, new, "report-finalized", Idle, Idle))
    <2>1. OtherSave(proposals, height, d, new, "report-finalized")
        BY <1>4, <1>5, Zenon DEF OtherSave
    <2>2. OtherThen(d, Idle) /\ OtherFail(proposals, height, d, new, Idle)
        BY Zenon DEF OtherThen, OtherFail
    <2> QED BY <2>1, <2>2, OtherSaves, Zenon
<1>8. OtherAt(proposals, height, d, Checked(d, aud))
    BY <1>2, <1>4, <1>6, <1>7, UnfulfilledMaking, Zenon
<1> QED BY <1>1, <1>4, <1>8, OtherGoes, Zenon


\* A result that is published: it blames only a deal that may be given up.
LEMMA ReportMaking ==
    ASSUME ConfirmedInv, MakingInv, ReportFinalizedAuctionDeal,
           faults' = faults, faults \in Nat
    PROVE  MakingInv'
<1> DEFINE d == proc[Reporter].deal
           aud == proc[Reporter].aud
           D == db.deals
           again == Saving(d, aud, "report-finalized", Idle, Idle)
           finish == Saving(d, aud, "finalized", Idle, again)
           report == FinalizedDeal(aud)
<1>1. /\ proc[Reporter].step = "report" /\ Reporter \in Processes
      /\ proc[Reporter] # Idle
      /\ UNCHANGED <<db, tickHeight, proposals, height>>
      /\ reports' = [reports EXCEPT ![d] = Append(@, report)]
      /\ Goes(Reporter, finish)
    BY DEF ReportFinalizedAuctionDeal, Processes, Idle, Fault
<1>2. /\ proc = [p \in Processes |-> proc[p]]
      /\ reports = [e \in Deals |-> reports[e]]
      /\ \A e \in Deals : reports[e] \in Seq(ReportsOf(e))
      /\ Working(D, chain, proposals, proc[Reporter])
    BY <1>1, Zenon DEF ConfirmedInv, Truthful
<1>3. Copy(D, chain, d, aud) /\ d \in DOMAIN D /\ d \in Deals
    BY <1>1, <1>2, WorkingCopy DEF Copy, ConfirmedInv, Tables
<1>4. /\ Blames(proposals, height, proc[Reporter]) /\ Follows(proc[Reporter])
      /\ Counted(D, proposals, proc[Reporter])
    BY <1>1, Zenon DEF MakingInv, Procs, BlamesAll, FollowsAll
<1>5. ~Making(proc[Reporter]) /\ aud.status # "deal-making" /\ D[d].status # "deal-making"
    BY <1>1, <1>4, Zenon DEF Making, Follows, Counted
<1>6. aud.error = TRUE => GivenUp(proposals, height, d)
    BY <1>1, <1>4, Zenon DEF Blames
<1>7. OtherAt(proposals, height, d, finish)
    <2>1. /\ "finalized" # "deal-making" /\ "report-finalized" # "deal-making"
          /\ "finalized" \in Final /\ "report-finalized" \in Final
        BY Zenon DEF Final
    <2>2. OtherSave(proposals, height, d, aud, "finalized")
        BY <1>5, <1>6, <2>1, Zenon DEF OtherSave
    <2>3. OtherSave(proposals, height, d, aud, "report-finalized")
        BY <1>5, <1>6, <2>1, Zenon DEF OtherSave
    <2>4. OtherThen(d, Idle) /\ OtherFail(proposals, height, d, aud, again)
        BY <2>3, Zenon DEF OtherThen, OtherFail
    <2> QED BY <2>2, <2>4, OtherSaves, Zenon
<1> HIDE DEF finish
<1>8. /\ proc'[Reporter] = finish
      /\ \A p \in Processes : p # Reporter => proc'[p] = proc[p]
    BY <1>1, <1>2, Zenon DEF Goes
<1>9. Counted(D, proposals, finish)
    BY <1>5, <1>7, Zenon DEF OtherAt, Counted
<1>10. Procs(D, proposals, proc', height)
    <2>1. \A p \in Processes : /\ Counted(D, proposals, proc[p])
                               /\ FollowsAll(proc[p])
                               /\ BlamesAll(proposals, height, proc[p])
        BY Zenon DEF MakingInv, Procs
    <2>2. ASSUME NEW p \in Processes
          PROVE  /\ Counted(D, proposals, proc'[p])
                 /\ FollowsAll(proc'[p])
                 /\ BlamesAll(proposals, height, proc'[p])
        <3>1. CASE p = Reporter
            BY <1>7, <1>8, <1>9, <3>1, Zenon DEF OtherAt
        <3>2. CASE p # Reporter
            BY <1>8, <2>1, <3>2, Zenon
        <3> QED BY <3>1, <3>2, Zenon
    <2> QED BY <2>2, Zenon DEF Procs
<1>11. \A p \in Processes : /\ Making(proc'[p]) <=> Making(proc[p])
                            /\ Making(proc[p]) => proc'[p] = proc[p]
    BY <1>5, <1>7, <1>8, Zenon DEF OtherAt
<1>12. Alone(proc')
    BY <1>11, Zenon DEF MakingInv, Alone
<1>13. RowsMade(D, proposals, proc', height)
    <2>1. ASSUME NEW e, RowCounted(D, proposals, proc, e)
          PROVE  RowCounted(D, proposals, proc', e)
        BY <1>11, <2>1, Zenon DEF RowCounted
    <2> QED BY <2>1, Zenon DEF MakingInv, RowsMade
<1>14. ReportsMade(D, proposals, reports', height)
    <2>1. report.error = TRUE => GivenUp(proposals, height, d)
        BY <1>6, Zenon DEF FinalizedDeal
    <2>2. report \in ReportsOf(d)
        BY <1>3, Zenon DEF Copy, FinalizedDeal, ReportsOf
    <2> HIDE DEF report
    <2>3. /\ reports'[d] = Append(reports[d], report)
          /\ \A e \in Deals : e # d => reports'[e] = reports[e]
        BY <1>1, <1>2, <1>3, Zenon
    <2>4. \A i \in DOMAIN reports'[d] :
             (i \in DOMAIN reports[d] /\ reports'[d][i] = reports[d][i])
             \/ reports'[d][i] = report
        <3>1. reports[d] \in Seq(ReportsOf(d))
            BY <1>2, <1>3, Zenon
        <3> QED BY <2>2, <2>3, <3>1
    <2>5. ASSUME NEW e \in Deals
          PROVE  /\ e \notin DOMAIN D => proposals[e].sent = 0 /\ proposals[e].accepted = 0
                 /\ reports'[e] # <<>> => e \in DOMAIN D /\ D[e].status # "deal-making"
                 /\ \A i \in DOMAIN reports'[e] :
                       reports'[e][i].error = TRUE => GivenUp(proposals, height, e)
        <3>1. /\ e \notin DOMAIN D => proposals[e].sent = 0 /\ proposals[e].accepted = 0
              /\ reports[e] # <<>> => e \in DOMAIN D /\ D[e].status # "deal-making"
              /\ \A i \in DOMAIN reports[e] :
                    reports[e][i].error = TRUE => GivenUp(proposals, height, e)
            BY Zenon DEF MakingInv, ReportsMade
        <3>2. CASE e = d
            BY <1>3, <1>5, <2>1, <2>4, <3>1, <3>2, Zenon
        <3>3. CASE e # d
            BY <2>3, <3>1, <3>3, Zenon
        <3> QED BY <3>2, <3>3, Zenon
    <2> QED BY <2>5, Zenon DEF ReportsMade
<1> QED BY <1>1, <1>10, <1>12, <1>13, <1>14, Zenon DEF MakingInv

\* Deals that are stored: nothing was proposed for them yet.
LEMMA CreateMaking ==
    ASSUME ConfirmedInv, MakingInv, NEW ad \in AuctionDeals, ReadyToCreateDeals(ad)
    PROVE  MakingInv'
<1> DEFINE D == db.deals
           D1 == db'.deals
<1>1. /\ Tables(db) /\ MayCreate(db, ad) /\ db' = CreateAll(db, ad)
      /\ UNCHANGED <<proc, tickHeight, proposals, height, reports>>
    BY Zenon DEF ReadyToCreateDeals, ConfirmedInv
<1>2. /\ DOMAIN D1 = DOMAIN D \union {<<ad.id, i>> : i \in DOMAIN ad.proposals}
      /\ \A d \in DOMAIN D : D1[d] = D[d]
      /\ \A i \in DOMAIN ad.proposals : D1[<<ad.id, i>>] = CreateAuctionDeal(ad, i)
    BY <1>1, Creates
<1> HIDE DEF D, D1
<1>3. ASSUME NEW d \in DOMAIN D1, d \notin DOMAIN D
      PROVE  /\ D1[d].status = "deal-making" /\ D1[d].executing = FALSE
             /\ D1[d].retries = 0 /\ D1[d].error = FALSE /\ d \in Deals
    <2>1. PICK i \in DOMAIN ad.proposals : d = <<ad.id, i>>
        BY <1>2, <1>3, Zenon
    <2> DEFINE row == CreateAuctionDeal(ad, i)
    <2>2. /\ row.status = "deal-making" /\ row.executing = FALSE
          /\ row.retries = 0 /\ row.error = FALSE
        BY Zenon DEF CreateAuctionDeal
    <2>3. D1[d] = row
        BY <1>2, <2>1, Zenon
    <2>4. d \in Deals
        BY <2>1, ProposalIsDeal, Zenon
    <2> HIDE DEF row
    <2> QED BY <2>2, <2>3, <2>4, Zenon
<1>4. ASSUME NEW p \in Processes, proc[p] # Idle PROVE D1[proc[p].deal] = D[proc[p].deal]
    <2>1. proc[p].deal \in DOMAIN D
        BY <1>4, WorkingCopy, Zenon DEF ConfirmedInv, D
    <2> QED BY <1>2, <2>1, Zenon
<1>5. Procs(D1, proposals, proc, height)
    <2>1. ASSUME NEW p \in Processes PROVE Counted(D1, proposals, proc[p])
        <3>1. Counted(D, proposals, proc[p])
            BY Zenon DEF MakingInv, Procs, D
        <3> QED BY <1>4, <3>1, CountedKept, Zenon
    <2> QED BY <2>1, Zenon DEF MakingInv, Procs
<1>6. ASSUME NEW d \in DOMAIN D1
      PROVE  /\ RowCounted(D1, proposals, proc, d)
             /\ D1[d].error = TRUE => D1[d].status \in Final /\ GivenUp(proposals, height, d)
    <2>1. CASE d \in DOMAIN D
        <3>1. /\ RowCounted(D, proposals, proc, d)
              /\ D[d].error = TRUE => D[d].status \in Final /\ GivenUp(proposals, height, d)
            BY <2>1, Zenon DEF MakingInv, RowsMade, D
        <3>2. D1[d] = D[d]
            BY <1>2, <2>1, Zenon
        <3> QED BY <3>1, <3>2, Zenon DEF RowCounted
    <2>2. CASE d \notin DOMAIN D
        <3>1. proposals[d].sent = 0 /\ proposals[d].accepted = 0
            BY <1>3, <2>2, Zenon DEF MakingInv, ReportsMade, D
        <3>2. Untaken(proposals[d], D1[d].retries)
            <4>1. D1[d].retries = 0
                BY <1>3, <2>2, Zenon
            <4> QED BY <3>1, <4>1, DealerAssumption DEF Untaken
        <3>3. /\ D1[d].status = "deal-making" /\ D1[d].executing = FALSE
              /\ D1[d].error = FALSE
            BY <1>3, <2>2, Zenon
        <3>4. RowCounted(D1, proposals, proc, d)
            BY <3>2, <3>3, Zenon DEF RowCounted
        <3>5. D1[d].error # TRUE
            BY <3>3, Zenon
        <3> QED BY <3>4, <3>5, Zenon
    <2> QED BY <2>1, <2>2, Zenon
<1>7. RowsMade(D1, proposals, proc, height)
    BY <1>6, Zenon DEF RowsMade
<1>8. ReportsMade(D1, proposals, reports, height)
    BY <1>2, Zenon DEF MakingInv, ReportsMade, D
<1> QED BY <1>1, <1>5, <1>7, <1>8, Zenon DEF MakingInv, D1

\* Time that passes, and what happens on chain.
LEMMA TimeMaking ==
    ASSUME ConfirmedInv, MakingInv, UNCHANGED <<db, proc, proposals, reports>>,
           Clock(tickHeight', height'), height <= height'
    PROVE  MakingInv'
<1> DEFINE D == db.deals
<1>1. height \in Nat /\ height' \in Nat
    BY Zenon DEF MakingInv, Clock
<1>2. ASSUME NEW d \in Deals, GivenUp(proposals, height, d)
      PROVE  GivenUp(proposals, height', d)
    <2>1. CASE proposals[d].accepted = 0
        BY <2>1, Zenon DEF GivenUp
    <2>2. CASE proposals[d].accepted # 0
        <3>1. TermsOf(d, proposals[d].terms[1])
            BY <2>2 DEF ConfirmedInv, Accepted
        <3>2. proposals[d].terms[1].start \in Nat
            <4>1. PICK ad \in AuctionDeals : \E i \in DOMAIN ad.proposals :
                      AsAsked(ad, i, proposals[d].terms[1])
                BY <3>1, Zenon DEF TermsOf
            <4>2. PICK i \in DOMAIN ad.proposals : AsAsked(ad, i, proposals[d].terms[1])
                BY <4>1, Zenon
            <4>3. ad.proposals[i].startEpoch \in Nat
                BY MessagesAssumption, Zenon
            <4> QED BY <4>2, <4>3, Zenon DEF AsAsked
        <3> QED BY <1>1, <1>2, <2>2, <3>2 DEF GivenUp
    <2> QED BY <2>1, <2>2, Zenon
<1>3. Procs(D, proposals, proc, height')
    <2>1. ASSUME NEW p \in Processes PROVE BlamesAll(proposals, height', proc[p])
        <3>1. BlamesAll(proposals, height, proc[p]) /\ Follows(proc[p])
            BY Zenon DEF MakingInv, Procs, FollowsAll
        <3>2. proc[p] # Idle => proc[p].deal \in Deals
            BY WorkingCopy, Zenon DEF ConfirmedInv, Tables
        <3> QED BY <1>2, <3>1, <3>2, BlamesKept, Zenon
    <2> QED BY <2>1, Zenon DEF MakingInv, Procs
<1>4. DOMAIN D \subseteq Deals
    BY Zenon DEF ConfirmedInv, Tables
<1>5. RowsMade(D, proposals, proc, height')
    BY <1>2, <1>4, Zenon DEF MakingInv, RowsMade
<1>6. ReportsMade(D, proposals, reports, height')
    BY <1>2, Zenon DEF MakingInv, ReportsMade
<1> QED BY <1>3, <1>5, <1>6, Zenon DEF MakingInv


\* Initially nothing was proposed and nothing is stored.
LEMMA MakingInit == Init => MakingInv
<1> SUFFICES ASSUME Init PROVE MakingInv
    BY Zenon
<1>1. DOMAIN db.deals = {}
    BY DEF Init, NoTables
<1>2. Clock(tickHeight, height)
    BY DEF Init, Clock
<1>3. \A p \in Processes : proc[p] = Idle
    BY Zenon DEF Init
<1>4. Procs(db.deals, proposals, proc, height)
    BY <1>3, Zenon DEF Procs, Counted, FollowsAll, Follows, BlamesAll, Blames
<1>5. Alone(proc)
    BY <1>3, Zenon DEF Alone, Making
<1>6. RowsMade(db.deals, proposals, proc, height)
    BY <1>1, Zenon DEF RowsMade
<1>7. \A d \in Deals : proposals[d].sent = 0 /\ proposals[d].accepted = 0 /\ reports[d] = <<>>
    BY Zenon DEF Init
<1>8. ReportsMade(db.deals, proposals, reports, height)
    BY <1>7 DEF ReportsMade
<1> QED BY <1>2, <1>4, <1>5, <1>6, <1>8, Zenon DEF MakingInv

\* Faults are counted and never forgotten.
LEMMA FaultsGrow ==
    ASSUME faults \in Nat, [Next]_vars
    PROVE  /\ faults' = faults \/ Fault
           /\ faults' \in Nat
           /\ faults' = 0 => faults = 0 /\ faults' = faults
<1>1. faults' = faults \/ Fault
    BY ZenonT(30) DEF Next, vars, ReadyToCreateDeals, ChainStep, DealReporter, Maker, Monitorer,
           GetNextPending, ReportFinalizedAuctionDeal, SaveAndMoveAuctionDeal,
           ExecuteAuctionDeal, PublishDealProposalAccepted, ResolveDealID,
           CheckChainDeal, MonitoringTick, Restart, EpochPasses
<1> QED BY <1>1 DEF Fault

\* Every step without a fault keeps MakingInv.
LEMMA MakingNext ==
    ASSUME ConfirmedInv, ConfirmedInv', MakingInv, faults' = faults, faults \in Nat,
           [Next]_vars
    PROVE  MakingInv'
<1>1. Makers \subseteq Processes /\ Monitors \subseteq Processes /\ Reporter \in Processes
    BY Zenon DEF Processes
<1>2. Clock(tickHeight, height)
    BY Zenon DEF MakingInv
<1>3. CASE UNCHANGED vars
    BY <1>2, <1>3, TimeMaking DEF vars, Clock
<1>4. ASSUME NEW ad \in AuctionDeals, ReadyToCreateDeals(ad) PROVE MakingInv'
    BY <1>4, CreateMaking, Zenon
<1>5. ASSUME NEW d \in Deals, ChainStep(d) PROVE MakingInv'
    BY <1>2, <1>5, TimeMaking DEF ChainStep, Clock
<1>6. ASSUME NEW d \in Deals, DealReporter(d) PROVE MakingInv'
    BY <1>1, <1>6, ClaimMaking, ReportMaking, SaveMaking, Zenon DEF DealReporter
<1>7. ASSUME NEW d \in Deals, NEW p \in Makers, Maker(p, d) PROVE MakingInv'
    BY <1>1, <1>7, ClaimMaking, ExecuteMaking, PublishMaking, SaveMaking, Zenon DEF Maker
<1>8. ASSUME NEW d \in Deals, NEW p \in Monitors, Monitorer(p, d) PROVE MakingInv'
    BY <1>1, <1>8, ClaimMaking, ResolveMaking, CheckMaking, SaveMaking, Zenon DEF Monitorer
<1>9. CASE MonitoringTick
    BY <1>2, <1>9, TimeMaking DEF MonitoringTick, Clock
<1>10. CASE EpochPasses
    BY <1>2, <1>10, TimeMaking DEF EpochPasses, Clock
<1>11. ~Restart
    BY DEF Restart, Fault
<1> QED BY <1>3, <1>4, <1>5, <1>6, <1>7, <1>8, <1>9, <1>10, <1>11, Zenon DEF Next

\* Without faults every state reached has its proposals counted.
LEMMA MakingInvariant == Spec => [](faults \in Nat /\ (faults = 0 => MakingInv))
<1> DEFINE Inv == faults \in Nat /\ (faults = 0 => MakingInv)
<1>1. Init => Inv
    BY MakingInit DEF Init
<1>2. ConfirmedInv /\ ConfirmedInv' /\ Inv /\ [Next]_vars => Inv'
    <2> SUFFICES ASSUME ConfirmedInv, ConfirmedInv', Inv, [Next]_vars PROVE Inv'
        BY Zenon
    <2>1. faults' \in Nat /\ (faults' = 0 => faults = 0 /\ faults' = faults)
        BY FaultsGrow, Zenon
    <2>2. faults' = 0 => MakingInv'
        BY <2>1, MakingNext, Zenon
    <2> QED BY <2>1, <2>2, Zenon
<1> QED BY <1>1, <1>2, ConfirmedInvariant, PTL DEF Spec

\* Without faults, a deal is proposed at most dealMakingMaxRetries + 1 times, and
\* never again once the provider has accepted it: whatever the maker's goroutines,
\* the monitorer's and the reporter's interleave.
THEOREM AlwaysProposedWithinRetries == Spec => []ProposedWithinRetries
<1>1. ASSUME MakingInv, ConfirmedInv, NEW d \in Deals
      PROVE  proposals[d].sent <= MaxRetries + 1 /\ proposals[d].accepted <= 1
    <2>1. /\ proposals[d].sent \in Nat /\ proposals[d].accepted \in Nat
          /\ MaxRetries \in Nat
        BY <1>1, DealerAssumption, Zenon DEF ConfirmedInv, Accepted
    <2>2. ASSUME NEW n, Untaken(proposals[d], n) PROVE Spent(proposals[d])
        BY <2>1, <2>2 DEF Untaken, Spent
    <2>3. CASE d \notin DOMAIN db.deals
        BY <1>1, <2>1, <2>3 DEF MakingInv, ReportsMade
    <2>4. CASE d \in DOMAIN db.deals
        <3>1. RowCounted(db.deals, proposals, proc, d)
            BY <1>1, <2>4, Zenon DEF MakingInv, RowsMade
        <3>2. CASE db.deals[d].status = "deal-making" /\ db.deals[d].executing
            <4>1. PICK p \in Processes : Making(proc[p]) /\ proc[p].deal = d
                BY <3>1, <3>2, Zenon DEF RowCounted
            <4>2. Counted(db.deals, proposals, proc[p])
                BY <1>1, Zenon DEF MakingInv, Procs
            <4>3. Spent(proposals[d])
                BY <2>2, <4>1, <4>2, Zenon DEF Counted, Making
            <4> QED BY <4>3, Zenon DEF Spent
        <3>3. CASE ~(db.deals[d].status = "deal-making" /\ db.deals[d].executing)
            <4>1. Spent(proposals[d])
                BY <2>2, <3>1, <3>3, Zenon DEF RowCounted
            <4> QED BY <4>1, Zenon DEF Spent
        <3> QED BY <3>2, <3>3, Zenon
    <2> QED BY <2>3, <2>4, Zenon
<1>2. ConfirmedInv /\ (faults = 0 => MakingInv) => ProposedWithinRetries
    BY <1>1, Zenon DEF ProposedWithinRetries
<1> QED BY <1>2, MakingInvariant, ConfirmedInvariant, PTL

\* Without faults, a deal the provider accepted is reported as failed only when the
\* provider has no time left to activate it: the maker never gives up a deal that
\* was accepted, and the monitorer only one whose start epoch has passed.
THEOREM FailedIsAlwaysOver == Spec => []FailedIsOver
<1>1. ASSUME MakingInv, ConfirmedInv, NEW d \in Deals, proposals[d].accepted > 0,
             NEW report \in Reported(d), report.error
      PROVE  height >= StartOf(d)
    <2>1. PICK i \in DOMAIN reports[d] : report = reports[d][i]
        BY <1>1, Zenon DEF Reported
    <2>2. report.error = TRUE
        <3>1. reports[d] \in Seq(ReportsOf(d))
            BY <1>1, Zenon DEF ConfirmedInv, Truthful
        <3>2. report \in ReportsOf(d)
            BY <2>1, <3>1
        <3>3. report.error \in BOOLEAN
            BY <3>2, Zenon DEF ReportsOf
        <3> QED BY <1>1, <3>3, Zenon
    <2>3. GivenUp(proposals, height, d)
        BY <1>1, <2>1, <2>2, Zenon DEF MakingInv, ReportsMade
    <2>4. proposals[d].accepted # 0
        BY <1>1 DEF ConfirmedInv, Accepted
    <2> QED BY <2>3, <2>4, Zenon DEF GivenUp, StartOf
<1>2. ConfirmedInv /\ (faults = 0 => MakingInv) => FailedIsOver
    BY <1>1, Zenon DEF FailedIsOver
<1> QED BY <1>2, MakingInvariant, ConfirmedInvariant, PTL

================================================================================
