---------------------------- MODULE SettlementProofs ----------------------------
(***************************************************************************)
(* Proofs about the requests of batches that are packed and settle: no     *)
(* request is taken out of its batch, data stays pinned while it is        *)
(* needed, and what a client is shown is true.                             *)
(*                                                                         *)
(* A step of the settlement is a step of the pipeline or leaves it as it   *)
(* is, so the invariants of the pipeline hold here.                        *)
(***************************************************************************)
EXTENDS Settlement, SlotProofs

\* Zenon proves the leaves that name no other prover.
USE Zenon

--------------------------------------------------------------------------------
(* The requests packerd batches, without faults. *)

\* A pair to be batched that is in no batch brokerd knows.
Outstanding(e) ==
    /\ e \in Entries
    /\ \A m \in newBatchCreated : e \in m.entries => db.batches[m.batch].status = "none"

\* An operation is one message, and packerd puts a pair in one batch.
PackedInv ==
    /\ \A m \in readyToBatch : m.op < nextID
    /\ \A m \in newBatchCreated : m.entries \subseteq Entries
    /\ \A m, n \in newBatchCreated : m.batch = n.batch => m = n
    /\ \A m, n \in newBatchCreated : \A e \in m.entries \intersect n.entries : m = n

\* A request to be batched waits for it, and is asked for once.
OutstandingInv ==
    /\ \A e : Outstanding(e) => db.requests[e[2]].status = "batching"
    /\ \A e, g : Outstanding(e) /\ Outstanding(g) /\ e[2] = g[2] => e = g

BatchingInv == PackedInv /\ OutstandingInv

\* The pairs to be batched.
LEMMA EntriesType ==
    ASSUME Inv, PackedInv
    PROVE  \A e \in Entries : /\ e = <<e[1], e[2]>>
                              /\ e[1] \in Nat /\ e[1] < nextID
                              /\ e[2] \in StorageRequests
<1> SUFFICES ASSUME NEW e \in Entries
             PROVE  /\ e = <<e[1], e[2]>>
                    /\ e[1] \in Nat /\ e[1] < nextID
                    /\ e[2] \in StorageRequests
  OBVIOUS
<1>1. PICK m \in readyToBatch : e \in {m.op} \X m.srs
  BY DEF Entries
<1>2. m.op \in Nat /\ m.op < nextID /\ m.srs \subseteq StorageRequests
  BY DEF PackedInv, Inv, BrokerTypeOK, ReadyToBatchMsg
<1> QED
  BY <1>1, <1>2, SMT

StaysBatching ==
    \A s \in StorageRequests : db.requests[s].status = "batching" =>
        db'.requests[s].status = "batching"

StaysKnown ==
    \A b \in Batches : db.batches[b].status # "none" => db'.batches[b].status # "none"

\* Steps that neither ask for batching nor batch.
LEMMA BatchingKept ==
    ASSUME Inv, BatchingInv, readyToBatch' = readyToBatch,
           newBatchCreated' = newBatchCreated, nextID' \in Nat, nextID <= nextID',
           StaysBatching, StaysKnown
    PROVE  BatchingInv'
<1>1. Entries' = Entries
  BY DEF Entries
<1>2. PackedInv'
  <2>1. nextID \in Nat /\ \A m \in readyToBatch : m.op \in Nat
    BY DEF Inv, BrokerTypeOK, ReadyToBatchMsg
  <2> QED
    BY <1>1, <2>1, SMT DEF BatchingInv, PackedInv
<1>3. \A m \in newBatchCreated : m.batch \in Batches
  BY DEF Inv, BrokerTypeOK, NewBatchCreatedMsg
<1>4. \A e : Outstanding(e)' => Outstanding(e)
  BY <1>1, <1>3 DEF Outstanding, StaysKnown
<1>5. \A e : Outstanding(e) => e[2] \in StorageRequests
  BY EntriesType DEF BatchingInv, Outstanding
<1>6. ASSUME NEW e, Outstanding(e)' PROVE db'.requests[e[2]].status = "batching"
  BY <1>4, <1>5, <1>6 DEF BatchingInv, OutstandingInv, StaysBatching
<1>7. ASSUME NEW e, NEW g, Outstanding(e)', Outstanding(g)', e[2] = g[2] PROVE e = g
  BY <1>4, <1>7 DEF BatchingInv, OutstandingInv
<1> QED
  BY <1>2, <1>6, <1>7 DEF BatchingInv, OutstandingInv

\* Requests that did not wait to be batched are published to be batched.
LEMMA BatchingAsked ==
    ASSUME Inv, BatchingInv, NEW srs \in SUBSET StorageRequests,
           readyToBatch' = readyToBatch \union {[op |-> nextID, srs |-> srs]},
           newBatchCreated' = newBatchCreated, nextID' = nextID + 1, StaysKnown,
           \A s \in srs : /\ db.requests[s].status # "batching"
                          /\ db'.requests[s].status = "batching",
           StaysBatching
    PROVE  BatchingInv'
<1>1. Entries' = Entries \union ({nextID} \X srs)
  <2> DEFINE n == [op |-> nextID, srs |-> srs]
  <2>1. n.op = nextID /\ n.srs = srs /\ readyToBatch' = readyToBatch \union {n}
    OBVIOUS
  <2> HIDE DEF n
  <2>2. ASSUME NEW e \in Entries' PROVE e \in Entries \union ({nextID} \X srs)
    BY <2>1 DEF Entries
  <2>3. ASSUME NEW e \in Entries \union ({nextID} \X srs) PROVE e \in Entries'
    BY <2>1, SMT DEF Entries
  <2> QED
    BY <2>2, <2>3
<1>2. nextID \in Nat /\ \A m \in readyToBatch : m.op \in Nat
  BY DEF Inv, BrokerTypeOK, ReadyToBatchMsg
<1>3. PackedInv'
  BY <1>1, <1>2, SMT DEF BatchingInv, PackedInv
<1>4. \A m \in newBatchCreated : m.batch \in Batches
  BY DEF Inv, BrokerTypeOK, NewBatchCreatedMsg
<1>5. \A e : Outstanding(e)' => Outstanding(e) \/ e \in {nextID} \X srs
  BY <1>1, <1>4 DEF Outstanding, StaysKnown
<1>6. \A e : Outstanding(e) => e[2] \in StorageRequests
  BY EntriesType DEF BatchingInv, Outstanding
<1>7. ASSUME NEW e, Outstanding(e)' PROVE db'.requests[e[2]].status = "batching"
  BY <1>5, <1>6, <1>7, SMT DEF BatchingInv, OutstandingInv, StaysBatching
<1>8. ASSUME NEW e, NEW g, Outstanding(e)', Outstanding(g)', e[2] = g[2] PROVE e = g
  <2>1. CASE Outstanding(e) /\ Outstanding(g)
    BY <1>8, <2>1 DEF BatchingInv, OutstandingInv
  <2>2. CASE e \in {nextID} \X srs /\ g \in {nextID} \X srs
    BY <1>8, <2>2, SMT
  <2>3. \A x, y : Outstanding(x) /\ y \in {nextID} \X srs => x[2] # y[2]
    BY DEF BatchingInv, OutstandingInv
  <2> QED
    BY <1>5, <1>8, <2>1, <2>2, <2>3
<1> QED
  BY <1>3, <1>7, <1>8 DEF BatchingInv, OutstandingInv

\* packerd seals a batch.
LEMMA PackBatchBatching ==
    ASSUME Inv, BatchingInv, NEW b \in Batches,
           NEW entries \in SUBSET (Entries \ PackedEntries), PackBatch(b, entries)
    PROVE  BatchingInv'
<1> DEFINE n == [batch |-> b, entries |-> entries]
<1>1. /\ newBatchCreated' = newBatchCreated \union {n}
      /\ UNCHANGED <<db, nextID, readyToBatch>>
      /\ UnusedBatch(b)
      /\ n.batch = b /\ n.entries = entries
  BY DEF PackBatch, brokerVars
<1> HIDE DEF n
<1>2. Entries' = Entries
  BY <1>1 DEF Entries
<1>3. \A m \in newBatchCreated : m.batch # b /\ m.entries \intersect entries = {}
  BY <1>1, SMT DEF UnusedBatch, PackedEntries
<1>4. PackedInv'
  BY <1>1, <1>2, <1>3, ZenonT(60) DEF BatchingInv, PackedInv
<1>5. \A e : Outstanding(e)' => Outstanding(e)
  BY <1>1, <1>2 DEF Outstanding
<1> QED
  BY <1>1, <1>4, <1>5 DEF BatchingInv, OutstandingInv

\* What brokerd takes into a batch of packerd waited to be batched.
LEMMA PackedAreOutstanding ==
    ASSUME BatchingInv, NEW m \in newBatchCreated, db.batches[m.batch].status = "none",
           NEW e \in m.entries
    PROVE  Outstanding(e) /\ db.requests[e[2]].status = "batching"
<1>1. Outstanding(e)
  BY DEF BatchingInv, PackedInv, Outstanding
<1> QED
  BY <1>1 DEF BatchingInv, OutstandingInv

\* brokerd opens a batch of packerd: its pairs are done with, and no other pair is
\* of one of its requests.
LEMMA OpenedPackedBatching ==
    ASSUME Inv, BatchingInv, UNCHANGED others, NEW m \in newBatchCreated, OpenedPacked(m)
    PROVE  BatchingInv'
<1>1. PICK row : /\ row.status = "preparing"
                 /\ Opened(m.batch, row, {e[2] : e \in m.entries})
                 /\ Publish({}, {}, {})
  BY DEF OpenedPacked
<1>2. m.batch \in Batches
  BY DEF Inv, BrokerTypeOK, NewBatchCreatedMsg
<1>3. /\ db.batches[m.batch].status = "none"
      /\ db'.batches[m.batch] = row
      /\ \A x \in Batches : x # m.batch => db'.batches[x] = db.batches[x]
  BY <1>1, <1>2, OpenedRows
<1>4. UNCHANGED <<newBatchCreated, readyToBatch, nextID>>
  BY <1>1 DEF others, Publish
<1>5. \A s \in StorageRequests : s \notin {e[2] : e \in m.entries} =>
         db'.requests[s] = db.requests[s]
  BY <1>1 DEF Opened
<1>6. Entries' = Entries
  BY <1>4 DEF Entries
<1>7. PackedInv'
  BY <1>4, <1>6 DEF BatchingInv, PackedInv
<1>8. ASSUME NEW e, Outstanding(e)'
      PROVE  /\ Outstanding(e)
             /\ e[2] \in StorageRequests
             /\ e[2] \notin {g[2] : g \in m.entries}
  <2>1. e \in Entries /\ e \notin m.entries
    BY <1>1, <1>3, <1>4, <1>6, <1>8 DEF Outstanding
  <2>2. \A n \in newBatchCreated : n.batch \in Batches
    BY DEF Inv, BrokerTypeOK, NewBatchCreatedMsg
  <2>3. Outstanding(e)
    <3>1. ASSUME NEW n \in newBatchCreated, e \in n.entries
          PROVE  db.batches[n.batch].status = "none"
      <4>1. n.batch # m.batch
        BY <2>1, <3>1 DEF BatchingInv, PackedInv
      <4>2. db'.batches[n.batch].status = "none"
        BY <1>4, <1>8, <3>1 DEF Outstanding
      <4> QED
        BY <1>3, <2>2, <4>1, <4>2
    <3> QED
      BY <2>1, <3>1 DEF Outstanding
  <2>4. e[2] \in StorageRequests
    BY <2>1, EntriesType DEF BatchingInv
  <2>5. ASSUME NEW g \in m.entries, g[2] = e[2] PROVE FALSE
    <3>1. Outstanding(g)
      BY <1>3, PackedAreOutstanding
    <3>2. g = e
      BY <2>3, <2>5, <3>1 DEF BatchingInv, OutstandingInv
    <3> QED
      BY <2>1, <3>2
  <2> QED
    BY <2>3, <2>4, <2>5
<1>9. ASSUME NEW e, Outstanding(e)' PROVE db'.requests[e[2]].status = "batching"
  <2>1. /\ Outstanding(e)
        /\ e[2] \in StorageRequests
        /\ e[2] \notin {g[2] : g \in m.entries}
    BY <1>8, <1>9
  <2>2. db'.requests[e[2]] = db.requests[e[2]]
    BY <1>5, <2>1
  <2> QED
    BY <2>1, <2>2 DEF BatchingInv, OutstandingInv
<1>10. ASSUME NEW e, NEW g, Outstanding(e)', Outstanding(g)', e[2] = g[2] PROVE e = g
  BY <1>8, <1>10 DEF BatchingInv, OutstandingInv
<1> QED
  BY <1>7, <1>9, <1>10 DEF BatchingInv, OutstandingInv

\* The requests of a batch that is not in error don't wait to be batched.
LEMMA MoveStaysBatching ==
    ASSUME Inv, NEW b \in Batches, db.batches[b].status # "error",
           NEW rst, RequestsMove(b, rst)
    PROVE  StaysBatching
<1> SUFFICES ASSUME NEW s \in StorageRequests, db.requests[s].status = "batching"
             PROVE  db'.requests[s].status = "batching"
  BY DEF StaysBatching
<1>1. db.requests[s].batch # b
  <2>1. SUFFICES ASSUME db.requests[s].batch = b PROVE FALSE
    OBVIOUS
  <2>2. db.requests[s].status = db.batches[b].status
    BY <2>1, StoreAssumption DEF Inv, DBInv, RequestsMirror, Mirror
  <2>3. db.batches[b].status \in BatchStatus
    BY DEF Inv, BrokerTypeOK, DBType, BatchRow
  <2> QED
    BY <2>2, <2>3 DEF BatchStatus
<1> QED
  BY <1>1 DEF RequestsMove

\* The statuses of the batches other than b are kept, and b is known afterwards.
LEMMA MoveStaysKnown ==
    ASSUME NEW b \in Batches, db'.batches[b].status # "none",
           \A x \in Batches : x # b => db'.batches[x] = db.batches[x]
    PROVE  StaysKnown
BY DEF StaysKnown

\* A handler that publishes nothing to be batched.
LEMMA PublishNoBatching ==
    ASSUME Inv, Inv', NEW A, NEW C, Publish({}, A, C)
    PROVE  readyToBatch' = readyToBatch /\ nextID' \in Nat /\ nextID <= nextID'
BY SMT DEF Publish, Inv, BrokerTypeOK

\* Every result of an auction.
LEMMA AuctionBatching ==
    ASSUME Inv, Inv', BatchingInv, UNCHANGED others, NEW m \in auctionClosed,
           Noted(m) \/ Won(m) \/ Lost(m)
    PROVE  BatchingInv'
<1>1. m.batch \in Batches /\ newBatchCreated' = newBatchCreated /\ nextID \in Nat
  BY DEF Inv, BrokerTypeOK, AuctionClosedMsg, others
<1>2. CASE Noted(m)
  <2>1. StaysBatching /\ StaysKnown /\ Publish({}, {}, {})
    BY <1>2 DEF Noted, SameRequests, StaysBatching, StaysKnown
  <2> QED
    BY <1>1, <2>1, PublishNoBatching, BatchingKept
<1>3. CASE Won(m)
  <2>1. RowMoved(m.batch, "deal_making") /\ Live(db, m.batch)
        /\ RequestsMove(m.batch, "deal_making")
    BY <1>1, <1>3, RowMoves DEF Won
  <2>2. StaysKnown
    BY <1>1, <2>1, MoveStaysKnown DEF RowMoved
  <2>3. StaysBatching
    BY <1>1, <2>1, MoveStaysBatching DEF Live
  <2>4. PICK A, C : Publish({}, A, C)
    BY <1>3 DEF Won
  <2> QED
    BY <1>1, <2>2, <2>3, <2>4, PublishNoBatching, BatchingKept
<1>4. CASE Lost(m)
  <2> DEFINE disallow == db.batches[m.batch].disallow
             srs == GetStorageRequestIDs(db, m.batch)
             rst == IF disallow THEN "error" ELSE "batching"
  <2>1. RowMoved(m.batch, "error") /\ Live(db, m.batch) /\ RequestsMove(m.batch, rst)
    BY <1>1, <1>4, RowMoves DEF Lost
  <2>2. StaysKnown
    BY <1>1, <2>1, MoveStaysKnown DEF RowMoved
  <2>3. StaysBatching
    <3> HIDE DEF rst
    <3> QED
      BY <1>1, <2>1, MoveStaysBatching DEF Live
  <2>4. Publish(IF disallow THEN {} ELSE {[op |-> nextID, srs |-> srs]}, {}, {})
    BY <1>4 DEF Lost
  <2>5. CASE disallow
    <3>1. Publish({}, {}, {})
      BY <2>4, <2>5
    <3> QED
      BY <1>1, <2>2, <2>3, <3>1, PublishNoBatching, BatchingKept
  <2>6. CASE ~disallow
    <3>1. /\ readyToBatch' = readyToBatch \union {[op |-> nextID, srs |-> srs]}
          /\ nextID' = nextID + 1
      BY <2>4, <2>6 DEF Publish
    <3>2. \A s \in srs : s \in StorageRequests /\ db.requests[s].batch = m.batch
      BY DEF GetStorageRequestIDs
    <3> HIDE DEF srs
    <3>3. ASSUME NEW s \in srs
          PROVE  db.requests[s].status # "batching" /\ db'.requests[s].status = "batching"
      <4>1. db.requests[s].status = Mirror(db.batches[m.batch])
        BY <1>1, <3>2, StoreAssumption DEF Inv, DBInv, RequestsMirror
      <4>2. db.requests[s].status # "batching"
        BY <2>1, <4>1 DEF Live, Mirror
      <4> QED
        BY <2>1, <2>6, <3>2, <4>2 DEF RequestsMove
    <3> QED
      BY <1>1, <2>2, <2>3, <3>1, <3>2, <3>3, BatchingAsked
  <2> QED
    BY <2>5, <2>6
<1> QED
  BY <1>2, <1>3, <1>4

\* Every report of a deal.
LEMMA DealBatching ==
    ASSUME Inv, Inv', SlotInv, BatchingInv, UNCHANGED others,
           NEW f \in finalizedDeal, f.op \notin db.operations,
           Completed(f) \/ Progressed(f) \/ Replaced(f) \/ GivenUp(f)
    PROVE  BatchingInv'
<1>1. f.batch \in Batches /\ newBatchCreated' = newBatchCreated /\ nextID \in Nat
  BY DEF Inv, BrokerTypeOK, FinalizedDealMsg, others
<1>2. PICK A : Publish({}, A, {})
  BY DEF Completed, Progressed, Replaced, GivenUp
<1>3. readyToBatch' = readyToBatch /\ nextID' \in Nat /\ nextID <= nextID'
  BY <1>2, PublishNoBatching
<1>4. CASE db'.batches = db.batches /\ SameRequests
  <2>1. StaysBatching /\ StaysKnown
    BY <1>4 DEF SameRequests, StaysBatching, StaysKnown
  <2> QED
    BY <1>1, <1>3, <2>1, BatchingKept
<1>5. ASSUME NEW st \in {"success", "error"}, RowMoved(f.batch, st),
             RequestsMove(f.batch, st), db.batches[f.batch].status # "error"
      PROVE  BatchingInv'
  <2>1. StaysKnown
    BY <1>1, <1>5, MoveStaysKnown DEF RowMoved
  <2>2. StaysBatching
    BY <1>1, <1>5, MoveStaysBatching
  <2> QED
    BY <1>1, <1>3, <2>1, <2>2, BatchingKept
<1>6. CASE Completed(f)
  <2>1. RowMoved(f.batch, "success") /\ RequestsMove(f.batch, "success")
    BY <1>1, <1>6, RowMoves DEF Completed
  <2>2. db.batches[f.batch].status # "error"
    BY <1>6, CompletedInProgress
  <2> QED
    BY <1>5, <2>1, <2>2
<1>7. CASE Progressed(f) \/ Replaced(f)
  BY <1>4, <1>7 DEF Progressed, Replaced
<1>8. CASE GivenUp(f) /\ Live(db, f.batch)
  <2>1. RowMoved(f.batch, "error") /\ RequestsMove(f.batch, "error")
    BY <1>1, <1>8, RowMoves DEF GivenUp
  <2> QED
    BY <1>5, <1>8, <2>1 DEF Live
<1>9. CASE GivenUp(f) /\ ~Live(db, f.batch)
  BY <1>4, <1>9 DEF GivenUp
<1> QED
  BY <1>6, <1>7, <1>8, <1>9

\* Every step without a fault.
LEMMA BatchingNext ==
    ASSUME Inv, Inv', SlotInv, BatchingInv, [Next]_vars, faults' = faults
    PROVE  BatchingInv'
<1>1. CASE Committed
  <2>0. UNCHANGED others /\ newBatchCreated' = newBatchCreated /\ nextID \in Nat
    BY <1>1 DEF Committed, others, Inv, BrokerTypeOK
  <2>1. CASE \E s \in StorageRequests : Made(s)
    <3>1. PICK s \in StorageRequests : Made(s)
      BY <2>1
    <3>2. /\ db.requests[s].status = "none"
          /\ db'.requests[s].status = "batching"
          /\ \A x \in StorageRequests : x # s => db'.requests[x] = db.requests[x]
          /\ db'.batches = db.batches
      BY <3>1 DEF Made
    <3>3. /\ readyToBatch' = readyToBatch \union {[op |-> nextID, srs |-> {s}]}
          /\ nextID' = nextID + 1
      BY <3>1 DEF Made, Publish
    <3>4. StaysBatching /\ StaysKnown
      BY <3>2 DEF StaysBatching, StaysKnown
    <3> DEFINE srs == {s}
    <3>5. /\ srs \in SUBSET StorageRequests
          /\ readyToBatch' = readyToBatch \union {[op |-> nextID, srs |-> srs]}
          /\ \A x \in srs : /\ db.requests[x].status # "batching"
                            /\ db'.requests[x].status = "batching"
      BY <3>2, <3>3
    <3> HIDE DEF srs
    <3> QED
      BY <2>0, <3>3, <3>4, <3>5, BatchingAsked
  <2>2. CASE \E s \in StorageRequests, b \in Batches, in \in PreparedInputs :
                OpenedPrepared(s, b, in)
    <3>1. PICK s \in StorageRequests, b \in Batches, in \in PreparedInputs :
                OpenedPrepared(s, b, in)
      BY <2>2
    <3>2. PICK row, A : /\ row.status = "auctioning"
                        /\ Opened(b, row, {s})
                        /\ Publish({}, A, {})
      BY <3>1 DEF OpenedPrepared
    <3>3. StaysKnown
      BY <3>2, OpenedRows DEF StaysKnown
    <3>4. db.requests[s].status = "none"
      BY <3>1 DEF OpenedPrepared
    <3>5. StaysBatching
      BY <3>2, <3>4 DEF Opened, StaysBatching
    <3>6. readyToBatch' = readyToBatch /\ nextID' \in Nat /\ nextID <= nextID'
      BY <3>2, PublishNoBatching
    <3> QED
      BY <2>0, <3>3, <3>5, <3>6, BatchingKept
  <2>3. CASE \E m \in newBatchCreated : OpenedPacked(m)
    BY <2>0, <2>3, OpenedPackedBatching
  <2>4. CASE \E m \in newBatchPrepared : Auctioned(m)
    <3>1. PICK m \in newBatchPrepared : Auctioned(m)
      BY <2>4
    <3>2. /\ db.batches[m.batch].status = "preparing"
          /\ RequestsMove(m.batch, "auctioning")
      BY <3>1 DEF Auctioned
    <3>3. PICK A : Publish({}, A, {})
      BY <3>1 DEF Auctioned
    <3>4. /\ m.batch \in Batches
          /\ db'.batches[m.batch].status = "auctioning"
          /\ \A x \in Batches : x # m.batch => db'.batches[x] = db.batches[x]
      BY <3>1, AuctionedRows
    <3>5. StaysKnown
      BY <3>4, MoveStaysKnown
    <3>6. StaysBatching
      BY <3>2, <3>4, MoveStaysBatching
    <3>7. readyToBatch' = readyToBatch /\ nextID' \in Nat /\ nextID <= nextID'
      BY <3>3, PublishNoBatching
    <3> QED
      BY <2>0, <3>5, <3>6, <3>7, BatchingKept
  <2>5. CASE \E m \in auctionClosed :
                m.op \notin db.operations /\ (Noted(m) \/ Won(m) \/ Lost(m))
    BY <2>0, <2>5, AuctionBatching
  <2>6. CASE \E m \in finalizedDeal :
                /\ m.op \notin db.operations
                /\ Completed(m) \/ Progressed(m) \/ Replaced(m) \/ GivenUp(m)
    BY <2>0, <2>6, DealBatching
  <2> QED
    BY <1>1, <2>1, <2>2, <2>3, <2>4, <2>5, <2>6 DEF Committed
<1>2. ASSUME UNCHANGED <<db, nextID, readyToBatch, newBatchCreated>>
      PROVE  BatchingInv'
  <2>1. nextID \in Nat /\ nextID <= nextID
    BY SMT DEF Inv, BrokerTypeOK
  <2>2. StaysBatching /\ StaysKnown
    BY <1>2 DEF StaysBatching, StaysKnown
  <2> QED
    BY <1>2, <2>1, <2>2, BatchingKept
<1>3. CASE Peers
  <2>1. CASE \E b \in Batches, entries \in SUBSET (Entries \ PackedEntries) :
                PackBatch(b, entries)
    BY <2>1, PackBatchBatching
  <2>2. CASE \E m \in newBatchCreated : PrepareBatch(m)
    BY <1>2, <2>2 DEF PrepareBatch, brokerVars
  <2>3. CASE \E m \in readyToAuction, ok \in BOOLEAN, winners \in SUBSET Providers :
                CloseAuction(m, ok, winners)
    BY <1>2, <2>3 DEF CloseAuction, brokerVars
  <2>4. CASE \E m \in readyToCreateDeals, outcome \in {"confirmed", "failed", "rejected"} :
                \E sp \in m.sps : FinalizeDeal(m, sp, outcome)
    BY <1>2, <2>4 DEF FinalizeDeal, brokerVars
  <2> QED
    BY <1>3, <2>1, <2>2, <2>3, <2>4 DEF Peers
<1>4. CASE UNCHANGED <<brokerVars, newBatchCreated, newBatchPrepared,
                       auctionClosed, finalizedDeal>>
  BY <1>2, <1>4 DEF brokerVars
<1>5. ASSUME Faulty PROVE FALSE
  BY <1>5, SMT DEF Faulty, Inv, BrokerTypeOK
<1> QED
  BY <1>1, <1>3, <1>4, <1>5, StepCases

\* Nothing is to be batched at first.
LEMMA BatchingInit == Init => BatchingInv
<1> SUFFICES ASSUME Init PROVE BatchingInv
  OBVIOUS
<1>1. readyToBatch = {} /\ newBatchCreated = {}
  BY DEF Init, BrokerInit
<1>2. Entries = {}
  BY <1>1 DEF Entries
<1> QED
  BY <1>1, <1>2 DEF BatchingInv, PackedInv, OutstandingInv, Outstanding

\* A step without a fault takes a request out of no batch in progress.
LEMMA NotStolenStep ==
    ASSUME Inv, SlotInv, BatchingInv, [Next]_vars, faults' = faults,
           NEW s \in StorageRequests, db'.requests[s].batch # db.requests[s].batch
    PROVE  db.requests[s].status \in {"none", "batching"}
<1>1. CASE Committed
  <2>1. CASE \E x \in StorageRequests : Made(x)
    BY <2>1 DEF Made
  <2>2. CASE \E x \in StorageRequests, b \in Batches, in \in PreparedInputs :
                OpenedPrepared(x, b, in)
    <3>1. PICK x \in StorageRequests, b \in Batches, in \in PreparedInputs :
                OpenedPrepared(x, b, in)
      BY <2>2
    <3>2. PICK row : Opened(b, row, {x})
      BY <3>1 DEF OpenedPrepared
    <3>3. db.requests[x].status = "none"
      BY <3>1 DEF OpenedPrepared
    <3> QED
      BY <3>2, <3>3 DEF Opened
  <2>3. CASE \E m \in newBatchCreated : OpenedPacked(m)
    <3>1. PICK m \in newBatchCreated : OpenedPacked(m)
      BY <2>3
    <3>2. PICK row : Opened(m.batch, row, {e[2] : e \in m.entries})
      BY <3>1 DEF OpenedPacked
    <3>3. db.batches[m.batch].status = "none"
      BY <3>2 DEF Opened
    <3>4. s \in {e[2] : e \in m.entries}
      BY <3>2 DEF Opened
    <3> QED
      BY <3>3, <3>4, PackedAreOutstanding
  <2>4. CASE \E m \in newBatchPrepared : Auctioned(m)
    BY <2>4 DEF Auctioned, RequestsMove
  <2>5. CASE \E m \in auctionClosed :
                m.op \notin db.operations /\ (Noted(m) \/ Won(m) \/ Lost(m))
    BY <2>5 DEF Noted, Won, Lost, RequestsMove, SameRequests
  <2>6. CASE \E m \in finalizedDeal :
                /\ m.op \notin db.operations
                /\ Completed(m) \/ Progressed(m) \/ Replaced(m) \/ GivenUp(m)
    BY <2>6 DEF Completed, Progressed, Replaced, GivenUp, RequestsMove, SameRequests
  <2> QED
    BY <1>1, <2>1, <2>2, <2>3, <2>4, <2>5, <2>6 DEF Committed
<1>2. CASE Peers
  BY <1>2 DEF Peers, PackBatch, PrepareBatch, CloseAuction, FinalizeDeal, brokerVars
<1>3. CASE UNCHANGED brokerVars
  BY <1>3 DEF brokerVars
<1>4. ASSUME Faulty PROVE FALSE
  BY <1>4, SMT DEF Faulty, Inv, BrokerTypeOK
<1> QED
  BY <1>1, <1>2, <1>3, <1>4, StepCases

\* The pairs to be batched, as an invariant of the system.
LEMMA BatchingInvariant ==
    ASSUME MaxReports = 1, \A in \in PreparedInputs : in.providers # {} => in.rep = 1
    PROVE  Spec => [](faults = 0 => BatchingInv)
<1> DEFINE I == SlotsWithoutFaults /\ TargetedOnce
           J == faults = 0 => BatchingInv
<1>1. Inv /\ Inv' /\ I /\ J /\ [Next]_vars => J'
  BY FaultsGrow, BatchingNext DEF SlotsWithoutFaults
<1>2. Init => J
  BY BatchingInit
<1>3. Spec => []I
  BY SlotsInvariant
<1>4. QED
  <2> HIDE DEF I, J
  <2>1. Spec => []J
    BY <1>1, <1>2, <1>3, Invariance, PTL DEF Spec
  <2> QED
    BY <2>1 DEF J

\* Without faults, brokerd takes a request into a batch of packerd only while the
\* request waits to be batched: although packerd batches a request again after an
\* auction failed, messages come in any order and CreateBatch looks at no status,
\* no batch in progress loses a request.  On the assumptions of SlotsAlwaysConserved,
\* because a batch in error that succeeded after all would complete requests that
\* wait to be batched again.
THEOREM RequestsNeverStolen ==
    ASSUME MaxReports = 1, \A in \in PreparedInputs : in.providers # {} => in.rep = 1
    PROVE  Spec => RequestsNotStolen
<1> DEFINE I == SlotsWithoutFaults /\ TargetedOnce
           J == faults = 0 => BatchingInv
<1>1. Inv /\ I /\ J /\ [Next]_vars =>
        [faults' = 0 => \A s \in StorageRequests :
           db'.requests[s].batch # db.requests[s].batch =>
               db.requests[s].status \in {"none", "batching"}]_vars
  BY FaultsGrow, NotStolenStep DEF SlotsWithoutFaults
<1>2. (Spec => []I) /\ (Spec => []J)
  BY SlotsInvariant, BatchingInvariant
<1> HIDE DEF I, J
<1> QED
  BY <1>1, <1>2, Invariance, PTL DEF Spec, RequestsNotStolen

--------------------------------------------------------------------------------
(* What one step of brokerd does to one request and to one batch. *)

\* A request is made, alone or with a batch of its own, it is batched, or it stays
\* where it is.
RequestStep(s) ==
    \/ /\ db.requests[s].status = "none"
       /\ db'.requests[s].status = "batching"
       /\ db'.requests[s].batch = NoBatch
    \/ /\ db.requests[s].status = "none"
       /\ db'.requests[s].batch \in Batches
       /\ db'.batches[db'.requests[s].batch].disallow
    \/ /\ db.requests[s].status = "batching"
       /\ db'.requests[s].batch \in Batches
    \/ /\ db'.requests[s].batch = db.requests[s].batch
       /\ db.requests[s].batch = NoBatch =>
             db'.requests[s].status = db.requests[s].status

\* A step that opens a batch.
LEMMA OpenedRequests ==
    ASSUME Inv, NEW b \in Batches, NEW row, NEW srs, Opened(b, row, srs),
           NEW s \in StorageRequests
    PROVE  IF s \in srs
           THEN /\ db'.requests[s].batch = b
                /\ db'.requests[s].status = row.status
                /\ db'.batches[b] = row
           ELSE db'.requests[s] = db.requests[s]
<1>1. db'.batches[b] = row
  BY OpenedRows
<1> QED
  BY <1>1 DEF Opened

\* A step that moves a batch changes no request outside it.
LEMMA MovedRequests ==
    ASSUME NEW b \in Batches, NEW rst, RequestsMove(b, rst) \/ SameRequests,
           NEW s \in StorageRequests
    PROVE  RequestStep(s)
<1>1. b # NoBatch
  BY StoreAssumption
<1> QED
  BY <1>1 DEF RequestsMove, SameRequests, RequestStep

\* Every step without a fault.
LEMMA CommittedRequests ==
    ASSUME Inv, BatchingInv, Committed, NEW s \in StorageRequests
    PROVE  RequestStep(s)
<1>1. CASE \E x \in StorageRequests : Made(x)
  BY <1>1 DEF Made, RequestStep
<1>2. CASE \E x \in StorageRequests, b \in Batches, in \in PreparedInputs :
              OpenedPrepared(x, b, in)
  <2>1. PICK x \in StorageRequests, b \in Batches, in \in PreparedInputs :
              OpenedPrepared(x, b, in)
    BY <1>2
  <2>2. PICK row : row.disallow /\ Opened(b, row, {x})
    BY <2>1 DEF OpenedPrepared
  <2>3. db.requests[x].status = "none"
    BY <2>1 DEF OpenedPrepared
  <2>4. CASE s = x
    <3>1. db'.requests[s].batch = b /\ db'.batches[b] = row
      BY <2>2, <2>4, OpenedRequests, SMT
    <3> QED
      BY <2>2, <2>3, <2>4, <3>1 DEF RequestStep
  <2>5. CASE s # x
    <3>1. db'.requests[s] = db.requests[s]
      BY <2>2, <2>5, OpenedRequests, SMT
    <3> QED
      BY <3>1 DEF RequestStep
  <2> QED
    BY <2>4, <2>5
<1>3. CASE \E m \in newBatchCreated : OpenedPacked(m)
  <2>1. PICK m \in newBatchCreated : OpenedPacked(m)
    BY <1>3
  <2>2. m.batch \in Batches
    BY DEF Inv, BrokerTypeOK, NewBatchCreatedMsg
  <2> DEFINE srs == {e[2] : e \in m.entries}
  <2>3. PICK row : Opened(m.batch, row, srs)
    BY <2>1 DEF OpenedPacked
  <2>4. db.batches[m.batch].status = "none"
    BY <2>3 DEF Opened
  <2>5. s \in srs => db.requests[s].status = "batching"
    BY <2>4, PackedAreOutstanding
  <2> HIDE DEF srs
  <2>6. IF s \in srs THEN db'.requests[s].batch = m.batch
        ELSE db'.requests[s] = db.requests[s]
    BY <2>2, <2>3, OpenedRequests, SMT
  <2> QED
    BY <2>2, <2>5, <2>6 DEF RequestStep
<1>4. CASE \E m \in newBatchPrepared : Auctioned(m)
  <2>1. PICK m \in newBatchPrepared : Auctioned(m)
    BY <1>4
  <2>2. m.batch \in Batches
    BY DEF Inv, BrokerTypeOK, NewBatchPreparedMsg
  <2>3. RequestsMove(m.batch, "auctioning")
    BY <2>1 DEF Auctioned
  <2> QED
    BY <2>2, <2>3, MovedRequests
<1>5. CASE \E m \in auctionClosed :
              m.op \notin db.operations /\ (Noted(m) \/ Won(m) \/ Lost(m))
  <2>1. PICK m \in auctionClosed : Noted(m) \/ Won(m) \/ Lost(m)
    BY <1>5
  <2>2. m.batch \in Batches
    BY DEF Inv, BrokerTypeOK, AuctionClosedMsg
  <2>3. \E rst : RequestsMove(m.batch, rst) \/ SameRequests
    BY <2>1 DEF Noted, Won, Lost
  <2> QED
    BY <2>2, <2>3, MovedRequests
<1>6. CASE \E m \in finalizedDeal :
              /\ m.op \notin db.operations
              /\ Completed(m) \/ Progressed(m) \/ Replaced(m) \/ GivenUp(m)
  <2>1. PICK m \in finalizedDeal :
              Completed(m) \/ Progressed(m) \/ Replaced(m) \/ GivenUp(m)
    BY <1>6
  <2>2. m.batch \in Batches
    BY DEF Inv, BrokerTypeOK, FinalizedDealMsg
  <2>3. \E rst : RequestsMove(m.batch, rst) \/ SameRequests
    BY <2>1 DEF Completed, Progressed, Replaced, GivenUp
  <2> QED
    BY <2>2, <2>3, MovedRequests
<1> QED
  BY <1>1, <1>2, <1>3, <1>4, <1>5, <1>6 DEF Committed

\* A batch is opened, by packerd or for a client; or its row stays, or its status
\* moves, to success with the confirmed deals that takes.
BatchStep(b) ==
    \/ /\ db.batches[b].status = "none"
       /\ db'.batches[b].status # "success"
       /\ db'.batches[b].disallow \/ \E m \in newBatchCreated : m.batch = b
    \/ db'.batches[b] = db.batches[b]
    \/ /\ db.batches[b].status # "none"
       /\ db'.batches[b].rep = db.batches[b].rep
       /\ db'.batches[b].disallow = db.batches[b].disallow
       /\ db'.batches[b].status = "success" =>
             Cardinality(ConfirmedRows(db', b)) = db.batches[b].rep

\* A step that moves the status of a batch.
LEMMA MovedBatches ==
    ASSUME Inv, NEW b \in Batches, db.batches[b].status # "none", NEW st,
           db'.batches = [db.batches EXCEPT ![b].status = st],
           st = "success" => Cardinality(ConfirmedRows(db', b)) = db.batches[b].rep,
           NEW x \in Batches
    PROVE  BatchStep(x)
<1>1. /\ db'.batches[b].status = st
      /\ \A y \in Batches :
            /\ y # b => db'.batches[y] = db.batches[y]
            /\ db'.batches[y].rep = db.batches[y].rep
            /\ db'.batches[y].piece = db.batches[y].piece
            /\ db'.batches[y].disallow = db.batches[y].disallow
            /\ db'.batches[y].providers = db.batches[y].providers
            /\ db'.batches[y].carURL = db.batches[y].carURL
  BY BatchRowsMove
<1> QED
  BY <1>1 DEF BatchStep

\* Every step without a fault.
LEMMA CommittedBatches ==
    ASSUME Inv, Committed, NEW x \in Batches
    PROVE  BatchStep(x)
<1>1. CASE \E s \in StorageRequests : Made(s)
  BY <1>1 DEF Made, BatchStep
<1>2. CASE \E s \in StorageRequests, b \in Batches, in \in PreparedInputs :
              OpenedPrepared(s, b, in)
  <2>1. PICK s \in StorageRequests, b \in Batches, in \in PreparedInputs :
              OpenedPrepared(s, b, in)
    BY <1>2
  <2>2. PICK row : row.status = "auctioning" /\ row.disallow /\ Opened(b, row, {s})
    BY <2>1 DEF OpenedPrepared
  <2>3. /\ db.batches[b].status = "none"
        /\ db'.batches[b] = row
        /\ x # b => db'.batches[x] = db.batches[x]
    BY <2>2, OpenedRows
  <2> QED
    BY <2>2, <2>3 DEF BatchStep
<1>3. CASE \E m \in newBatchCreated : OpenedPacked(m)
  <2>1. PICK m \in newBatchCreated : OpenedPacked(m)
    BY <1>3
  <2>2. m.batch \in Batches
    BY DEF Inv, BrokerTypeOK, NewBatchCreatedMsg
  <2>3. PICK row : /\ row.status = "preparing"
                   /\ Opened(m.batch, row, {e[2] : e \in m.entries})
    BY <2>1 DEF OpenedPacked
  <2>4. /\ db.batches[m.batch].status = "none"
        /\ db'.batches[m.batch] = row
        /\ x # m.batch => db'.batches[x] = db.batches[x]
    BY <2>2, <2>3, OpenedRows, ZenonT(60)
  <2> QED
    BY <2>3, <2>4 DEF BatchStep
<1>4. CASE \E m \in newBatchPrepared : Auctioned(m)
  <2>1. PICK m \in newBatchPrepared : Auctioned(m)
    BY <1>4
  <2>2. db.batches[m.batch].status = "preparing"
    BY <2>1 DEF Auctioned
  <2> QED
    BY <2>1, <2>2, AuctionedRows DEF BatchStep
<1>5. CASE \E m \in auctionClosed :
              m.op \notin db.operations /\ (Noted(m) \/ Won(m) \/ Lost(m))
  <2>1. PICK m \in auctionClosed : Noted(m) \/ Won(m) \/ Lost(m)
    BY <1>5
  <2>2. m.batch \in Batches
    BY DEF Inv, BrokerTypeOK, AuctionClosedMsg
  <2>3. CASE Noted(m)
    BY <2>3 DEF Noted, BatchStep
  <2>4. CASE Won(m) \/ Lost(m)
    <3>1. PICK st \in {"deal_making", "error"} :
             db'.batches = [db.batches EXCEPT ![m.batch].status = st]
      BY <2>4 DEF Won, Lost
    <3>2. db.batches[m.batch].status # "none"
      BY <2>4 DEF Won, Lost, Live
    <3>3. st # "success"
      BY <3>1
    <3> QED
      BY <2>2, <3>1, <3>2, <3>3, MovedBatches
  <2> QED
    BY <2>1, <2>3, <2>4
<1>6. CASE \E m \in finalizedDeal :
              /\ m.op \notin db.operations
              /\ Completed(m) \/ Progressed(m) \/ Replaced(m) \/ GivenUp(m)
  <2>1. PICK m \in finalizedDeal :
              Completed(m) \/ Progressed(m) \/ Replaced(m) \/ GivenUp(m)
    BY <1>6
  <2>2. m.batch \in Batches
    BY DEF Inv, BrokerTypeOK, FinalizedDealMsg
  <2>3. \E r \in db.deals : r.batch = m.batch
    BY <2>1 DEF Completed, Progressed, Replaced, GivenUp, Saved
  <2>4. db.batches[m.batch].status # "none"
    BY <2>3 DEF Inv, DBInv, DealsAfterPiece
  <2>5. CASE db'.batches = db.batches
    BY <2>5 DEF BatchStep
  <2>6. CASE Completed(m)
    <3>1. /\ db'.batches = [db.batches EXCEPT ![m.batch].status = "success"]
          /\ Cardinality(ConfirmedRows(db', m.batch)) = db.batches[m.batch].rep
      BY <2>6 DEF Completed
    <3> QED
      BY <2>2, <2>4, <3>1, MovedBatches
  <2>7. CASE db'.batches = [db.batches EXCEPT ![m.batch].status = "error"]
    <3>1. "error" # "success"
      OBVIOUS
    <3> QED
      BY <2>2, <2>4, <2>7, <3>1, MovedBatches
  <2>8. \/ db'.batches = db.batches
        \/ Completed(m)
        \/ db'.batches = [db.batches EXCEPT ![m.batch].status = "error"]
    BY <2>1 DEF Progressed, Replaced, GivenUp
  <2> QED
    BY <2>5, <2>6, <2>7, <2>8
<1> QED
  BY <1>1, <1>2, <1>3, <1>4, <1>5, <1>6 DEF Committed

--------------------------------------------------------------------------------
(* What brokerd has to unpin. *)

\* What a step adds to what is to be unpinned: the data of requests that are stored,
\* the DAG of batches that are over.
UnpinsStep ==
    /\ db.unpinData \subseteq db'.unpinData
    /\ db.unpinBatch \subseteq db'.unpinBatch
    /\ \A s \in db'.unpinData \ db.unpinData :
          /\ db'.requests[s].batch \in Batches
          /\ db'.batches[db'.requests[s].batch].status = "success"
    /\ \A b \in db'.unpinBatch \ db.unpinBatch :
          db'.batches[b].status \in {"success", "error"}

\* Every step without a fault.
LEMMA CommittedUnpins ==
    ASSUME Inv, Committed
    PROVE  UnpinsStep
<1>1. CASE SameUnpins(db, db')
  BY <1>1 DEF SameUnpins, UnpinsStep
<1>2. CASE \E m \in auctionClosed : Lost(m)
  <2>1. PICK m \in auctionClosed : Lost(m)
    BY <1>2
  <2>2. m.batch \in Batches
    BY DEF Inv, BrokerTypeOK, AuctionClosedMsg
  <2>3. RowMoved(m.batch, "error")
    BY <2>1, <2>2, RowMoves DEF Lost
  <2>4. /\ db'.unpinData = db.unpinData
        /\ \/ db'.unpinBatch = db.unpinBatch
           \/ db'.unpinBatch = db.unpinBatch \union {m.batch}
    BY <2>1 DEF Lost
  <2> QED
    BY <2>3, <2>4 DEF RowMoved, UnpinsStep
<1>3. CASE \E m \in finalizedDeal : Completed(m)
  <2>1. PICK m \in finalizedDeal : Completed(m)
    BY <1>3
  <2>2. m.batch \in Batches
    BY DEF Inv, BrokerTypeOK, FinalizedDealMsg
  <2>3. RowMoved(m.batch, "success")
    BY <2>1, <2>2, RowMoves DEF Completed
  <2>4. /\ \/ db'.unpinData = db.unpinData
           \/ db'.unpinData = db.unpinData \union GetStorageRequestIDs(db, m.batch)
        /\ \/ db'.unpinBatch = db.unpinBatch
           \/ db'.unpinBatch = db.unpinBatch \union {m.batch}
    BY <2>1 DEF Completed
  <2>5. \A s \in GetStorageRequestIDs(db, m.batch) : db'.requests[s].batch = m.batch
    BY <2>1 DEF Completed, RequestsMove, GetStorageRequestIDs
  <2> QED
    BY <2>2, <2>3, <2>4, <2>5 DEF RowMoved, UnpinsStep
<1>4. \/ SameUnpins(db, db')
      \/ \E m \in auctionClosed : Lost(m)
      \/ \E m \in finalizedDeal : Completed(m)
  <2>1. CASE \E s \in StorageRequests : Made(s)
    BY <2>1 DEF Made
  <2>2. CASE \E s \in StorageRequests, b \in Batches, in \in PreparedInputs :
                OpenedPrepared(s, b, in)
    <3>1. PICK s \in StorageRequests, b \in Batches, in \in PreparedInputs :
                OpenedPrepared(s, b, in)
      BY <2>2
    <3>2. \E row : Opened(b, row, {s})
      BY <3>1 DEF OpenedPrepared
    <3> QED
      BY <3>2 DEF Opened
  <2>3. CASE \E m \in newBatchCreated : OpenedPacked(m)
    BY <2>3 DEF OpenedPacked, Opened
  <2>4. CASE \E m \in newBatchPrepared : Auctioned(m)
    BY <2>4 DEF Auctioned
  <2>5. CASE \E m \in auctionClosed : Noted(m) \/ Won(m) \/ Lost(m)
    BY <2>5 DEF Noted, Won
  <2>6. CASE \E m \in finalizedDeal :
                Completed(m) \/ Progressed(m) \/ Replaced(m) \/ GivenUp(m)
    BY <2>6 DEF Progressed, Replaced, GivenUp
  <2> QED
    BY <2>1, <2>2, <2>3, <2>4, <2>5, <2>6 DEF Committed
<1> QED
  BY <1>1, <1>2, <1>3, <1>4

--------------------------------------------------------------------------------
(* The invariant, without faults. *)

\* What is to be unpinned is over, a batch that succeeded has its deals, and a
\* request outside a batch waits for one.
SettledInv ==
    /\ \A s \in db.unpinData :
          /\ db.requests[s].batch \in Batches
          /\ db.batches[db.requests[s].batch].status = "success"
    /\ \A b \in db.unpinBatch : db.batches[b].status \in {"success", "error"}
    /\ \A b \in Batches : db.batches[b].status = "success" =>
          Cardinality(ConfirmedRows(db, b)) >= db.batches[b].rep
    /\ \A s \in StorageRequests : db.requests[s].batch = NoBatch =>
          db.requests[s].status \in {"none", "batching"}

\* A request that packerd batches.
ForPackerd(s) ==
    /\ db.requests[s].status # "none"
    /\ db.requests[s].batch # NoBatch => ~db.batches[db.requests[s].batch].disallow

\* What packerd works on is pinned until it is to be unpinned.
PinnedInv ==
    /\ \A s \in StorageRequests :
          ForPackerd(s) /\ s \notin db.unpinData => CidOf[DataJob(s)] \in pins
    /\ \A m \in newBatchCreated :
          m.batch \notin db.unpinBatch => CidOf[BatchJob(m.batch)] \in pins
    /\ \A b \in Batches : db.batches[b].status # "none" /\ ~db.batches[b].disallow =>
          \E m \in newBatchCreated : m.batch = b

\* A job is for something that is to be unpinned.
JobsInv ==
    /\ \A s \in StorageRequests : jobs[DataJob(s)] # "none" => s \in db.unpinData
    /\ \A b \in Batches : jobs[BatchJob(b)] # "none" => b \in db.unpinBatch

\* A query that read success read it of a batch that has succeeded.
QueryInv ==
    query # NoQuery =>
        /\ query.status \in RequestStatus \ {"none"}
        /\ query.batch \in Batches \union {NoBatch}
        /\ query.status = "success" =>
              query.batch \in Batches /\ db.batches[query.batch].status = "success"

\* A daemon works on a job that was created.
UnpinnerInv ==
    /\ jobs \in [UnpinJobs -> {"none", "pending", "executing", "deleted"}]
    /\ unpinner \in [Unpinners -> {Resting} \union
                        [step : {"unpin", "delete", "retry"}, job : UnpinJobs]]
    /\ \A u \in Unpinners : unpinner[u] # Resting => jobs[unpinner[u].job] # "none"

\* A request in a batch: the batch exists, and the request has a status.
LEMMA BatchedRequest ==
    ASSUME Inv, NEW s \in StorageRequests
    PROVE  /\ db.requests[s].batch \in Batches \union {NoBatch}
           /\ db.requests[s].status \in RequestStatus
           /\ db.requests[s].batch # NoBatch =>
                 /\ db.requests[s].batch \in Batches
                 /\ db.requests[s].status # "none"
                 /\ db.requests[s].status = Mirror(db.batches[db.requests[s].batch])
                 /\ db.batches[db.requests[s].batch].status \in BatchStatus \ {"none"}
<1>1. db.requests[s] \in RequestRow
  BY DEF Inv, BrokerTypeOK, DBType
<1>2. \A b \in Batches : db.batches[b].status \in BatchStatus
  BY DEF Inv, BrokerTypeOK, DBType, BatchRow
<1>3. db.requests[s].batch # NoBatch =>
        /\ db.requests[s].status = Mirror(db.batches[db.requests[s].batch])
        /\ db.batches[db.requests[s].batch].status # "none"
  BY DEF Inv, DBInv, RequestsMirror
<1> QED
  BY <1>1, <1>2, <1>3 DEF RequestRow, Mirror

\* A step without a fault commits a handler or leaves the database alone.
LEMMA CommittedOrSame ==
    ASSUME Inv, [Next]_vars, faults' = faults
    PROVE  /\ Committed \/ db' = db
           /\ newBatchCreated \subseteq newBatchCreated'
<1>1. CASE Committed
  BY <1>1 DEF Committed, others
<1>2. CASE Peers
  BY <1>2 DEF Peers, PackBatch, PrepareBatch, CloseAuction, FinalizeDeal, brokerVars
<1>3. CASE UNCHANGED <<brokerVars, newBatchCreated>>
  BY <1>3 DEF brokerVars
<1>4. ASSUME Faulty PROVE FALSE
  BY <1>4, SMT DEF Faulty, Inv, BrokerTypeOK
<1> QED
  BY <1>1, <1>2, <1>3, <1>4, StepCases

\* A confirmed deal stays confirmed: no second outcome is handled for it.
LEMMA ConfirmedStay ==
    ASSUME Inv, SlotInv, Committed, NEW r \in db.deals, r.state = "confirmed"
    PROVE  r \in db'.deals
<1>1. CASE db.deals \subseteq db'.deals
  BY <1>1
<1>2. CASE \E m \in finalizedDeal :
              /\ m.op \notin db.operations
              /\ Completed(m) \/ Progressed(m) \/ Replaced(m) \/ GivenUp(m)
  <2>1. PICK m \in finalizedDeal :
              /\ m.op \notin db.operations
              /\ Completed(m) \/ Progressed(m) \/ Replaced(m) \/ GivenUp(m)
    BY <1>2
  <2>2. PICK state \in {"confirmed", "failed"} : Saved(m, state)
    BY <2>1 DEF Completed, Progressed, Replaced, GivenUp
  <2>3. readyToCreateDeals' = readyToCreateDeals
    BY <2>1 DEF Completed, Progressed, Replaced, GivenUp, Publish
  <2>4. Outcome(m, state)
    BY <2>1, <2>2, <2>3, OutcomeDeals
  <2> QED
    BY <2>4 DEF Outcome
<1>3. \/ db.deals \subseteq db'.deals
      \/ \E m \in finalizedDeal :
              /\ m.op \notin db.operations
              /\ Completed(m) \/ Progressed(m) \/ Replaced(m) \/ GivenUp(m)
  <2>1. CASE \E s \in StorageRequests : Made(s)
    BY <2>1 DEF Made
  <2>2. CASE \E s \in StorageRequests, b \in Batches, in \in PreparedInputs :
                OpenedPrepared(s, b, in)
    <3>1. PICK s \in StorageRequests, b \in Batches, in \in PreparedInputs :
                OpenedPrepared(s, b, in)
      BY <2>2
    <3>2. \E row : Opened(b, row, {s})
      BY <3>1 DEF OpenedPrepared
    <3> QED
      BY <3>2 DEF Opened
  <2>3. CASE \E m \in newBatchCreated : OpenedPacked(m)
    BY <2>3 DEF OpenedPacked, Opened
  <2>4. CASE \E m \in newBatchPrepared : Auctioned(m)
    BY <2>4 DEF Auctioned
  <2>5. CASE \E m \in auctionClosed : Noted(m) \/ Won(m) \/ Lost(m)
    BY <2>5 DEF Noted, Won, Lost
  <2> QED
    BY <2>1, <2>2, <2>3, <2>4, <2>5 DEF Committed
<1> QED
  BY <1>1, <1>2, <1>3

\* Requests that are stored stay in their batch, and the batch stays successful.
LEMMA StoredStays ==
    ASSUME Inv, Inv', SlotInv, BatchingInv, [Next]_vars, faults' = faults,
           NEW s \in StorageRequests, db.requests[s].batch \in Batches,
           db.batches[db.requests[s].batch].status = "success"
    PROVE  /\ db'.requests[s].batch = db.requests[s].batch
           /\ db'.batches[db.requests[s].batch].status = "success"
<1>1. db.requests[s].batch # NoBatch
  BY StoreAssumption
<1>2. db.requests[s].status = "success"
  BY <1>1, BatchedRequest DEF Mirror
<1>3. db'.requests[s].batch = db.requests[s].batch
  BY <1>2, NotStolenStep
<1>4. db'.batches[db.requests[s].batch].status = "success"
  BY FinalStep
<1> QED
  BY <1>3, <1>4

\* A batch that has succeeded keeps the deals it takes.
LEMMA SuccessKeepsDeals ==
    ASSUME Inv, Inv', SlotInv, SlotInv', SettledInv, Committed, NEW b \in Batches,
           db'.batches[b].status = "success"
    PROVE  Cardinality(ConfirmedRows(db', b)) >= db'.batches[b].rep
<1>1. BatchStep(b)
  BY CommittedBatches
<1>2. db.batches[b].rep \in Nat /\ db'.batches[b].rep \in Nat
  BY DEF Inv, BrokerTypeOK, DBType, BatchRow
<1>3. CASE /\ db'.batches[b].rep = db.batches[b].rep
           /\ Cardinality(ConfirmedRows(db', b)) = db.batches[b].rep
  BY <1>2, <1>3, SMT
<1>4. CASE db'.batches[b] = db.batches[b]
  <2>1. Cardinality(ConfirmedRows(db, b)) >= db.batches[b].rep
    BY <1>4 DEF SettledInv
  <2>2. ConfirmedRows(db, b) \subseteq ConfirmedRows(db', b)
    BY ConfirmedStay DEF ConfirmedRows, GetDeals
  <2>3. ConfirmedRows(db', b) \subseteq LiveDeals(b)'
    BY DEF ConfirmedRows, LiveDeals
  <2>4. IsFiniteSet(LiveDeals(b)')
    BY DEF SlotInv, CountInv, Counted
  <2>5. IsFiniteSet(ConfirmedRows(db', b))
    BY <2>3, <2>4, FS_Subset
  <2>6. /\ Cardinality(ConfirmedRows(db, b)) <= Cardinality(ConfirmedRows(db', b))
        /\ IsFiniteSet(ConfirmedRows(db, b))
    BY <2>2, <2>5, FS_Subset
  <2>7. /\ Cardinality(ConfirmedRows(db, b)) \in Nat
        /\ Cardinality(ConfirmedRows(db', b)) \in Nat
    BY <2>5, <2>6, FS_CardinalityType
  <2> QED
    BY <1>2, <1>4, <2>1, <2>6, <2>7, SMT
<1> QED
  BY <1>1, <1>3, <1>4 DEF BatchStep

\* Every step without a fault keeps what is settled.
LEMMA SettledNext ==
    ASSUME Inv, Inv', SlotInv, SlotInv', BatchingInv, SettledInv, [Next]_vars,
           faults' = faults
    PROVE  SettledInv'
<1>1. CASE db' = db
  BY <1>1 DEF SettledInv, ConfirmedRows, GetDeals
<1>2. CASE Committed
  <2>1. UnpinsStep
    BY <1>2, CommittedUnpins
  <2>2. db.unpinData \subseteq StorageRequests /\ db.unpinBatch \subseteq Batches
    BY DEF Inv, BrokerTypeOK, DBType
  <2>3. ASSUME NEW s \in db'.unpinData
        PROVE  /\ db'.requests[s].batch \in Batches
               /\ db'.batches[db'.requests[s].batch].status = "success"
    <3>1. CASE s \in db.unpinData
      <4>1. /\ s \in StorageRequests
            /\ db.requests[s].batch \in Batches
            /\ db.batches[db.requests[s].batch].status = "success"
        BY <2>2, <3>1 DEF SettledInv
      <4> QED
        BY <4>1, StoredStays
    <3>2. CASE s \notin db.unpinData
      BY <2>1, <2>3, <3>2 DEF UnpinsStep
    <3> QED
      BY <3>1, <3>2
  <2>4. ASSUME NEW b \in db'.unpinBatch
        PROVE  db'.batches[b].status \in {"success", "error"}
    <3>1. CASE b \in db.unpinBatch
      <4>1. b \in Batches /\ db.batches[b].status \in {"success", "error"}
        BY <2>2, <3>1 DEF SettledInv
      <4> QED
        BY <4>1, FinalStep
    <3>2. CASE b \notin db.unpinBatch
      BY <2>1, <2>4, <3>2 DEF UnpinsStep
    <3> QED
      BY <3>1, <3>2
  <2>5. ASSUME NEW s \in StorageRequests, db'.requests[s].batch = NoBatch
        PROVE  db'.requests[s].status \in {"none", "batching"}
    <3>1. RequestStep(s)
      BY <1>2, CommittedRequests
    <3> QED
      BY <2>5, <3>1, StoreAssumption DEF RequestStep, SettledInv
  <2>6. \A b \in Batches : db'.batches[b].status = "success" =>
           Cardinality(ConfirmedRows(db', b)) >= db'.batches[b].rep
    BY <1>2, SuccessKeepsDeals
  <2>7. SettledInv' = (/\ \A s \in db'.unpinData :
                             /\ db'.requests[s].batch \in Batches
                             /\ db'.batches[db'.requests[s].batch].status = "success"
                       /\ \A b \in db'.unpinBatch :
                             db'.batches[b].status \in {"success", "error"}
                       /\ \A b \in Batches : db'.batches[b].status = "success" =>
                             Cardinality(ConfirmedRows(db', b)) >= db'.batches[b].rep
                       /\ \A s \in StorageRequests : db'.requests[s].batch = NoBatch =>
                             db'.requests[s].status \in {"none", "batching"})
    BY DEF SettledInv, ConfirmedRows
  <2> QED
    BY <2>3, <2>4, <2>5, <2>6, <2>7
<1> QED
  BY <1>1, <1>2, CommittedOrSame

\* A request that packerd batches was one before, or was made in this step.
LEMMA ForPackerdStep ==
    ASSUME Inv, BatchingInv, Committed, NEW s \in StorageRequests, ForPackerd(s)'
    PROVE  \/ ForPackerd(s)
           \/ db.requests[s].status = "none" /\ db'.requests[s].status = "batching"
<1>1. RequestStep(s)
  BY CommittedRequests
<1>2. CASE /\ db.requests[s].status = "none"
           /\ db'.requests[s].status = "batching"
  BY <1>2
<1>3. CASE /\ db'.requests[s].batch \in Batches
           /\ db'.batches[db'.requests[s].batch].disallow
  BY <1>3, StoreAssumption DEF ForPackerd
<1>4. CASE db.requests[s].status = "batching"
  <2>1. db.requests[s].batch # NoBatch => ~db.batches[db.requests[s].batch].disallow
    BY <1>4, BatchedRequest DEF Mirror, BatchStatus
  <2> QED
    BY <1>4, <2>1 DEF ForPackerd
<1>5. CASE /\ db'.requests[s].batch = db.requests[s].batch
           /\ db.requests[s].batch = NoBatch =>
                 db'.requests[s].status = db.requests[s].status
  <2>1. CASE db.requests[s].batch = NoBatch
    BY <1>5, <2>1 DEF ForPackerd
  <2>2. CASE db.requests[s].batch # NoBatch
    <3> DEFINE b == db.requests[s].batch
    <3>1. /\ b \in Batches
          /\ db.requests[s].status # "none"
          /\ db.batches[b].status # "none"
      BY <2>2, BatchedRequest
    <3>2. ~db'.batches[b].disallow
      BY <1>5, <2>2 DEF ForPackerd
    <3>3. BatchStep(b)
      BY <3>1, CommittedBatches
    <3>4. db'.batches[b].disallow = db.batches[b].disallow
      BY <3>1, <3>3 DEF BatchStep
    <3> QED
      BY <3>1, <3>2, <3>4 DEF ForPackerd
  <2> QED
    BY <2>1, <2>2
<1> QED
  BY <1>1, <1>2, <1>3, <1>4, <1>5 DEF RequestStep

--------------------------------------------------------------------------------
(* Pins. *)

\* Every job has a cid of its own.
OwnCids == \A i, j \in UnpinJobs : CidOf[i] = CidOf[j] => i = j

\* The jobs of requests and of batches are different jobs.
LEMMA JobsDiffer ==
    /\ \A s \in StorageRequests : DataJob(s) \in UnpinJobs
    /\ \A b \in Batches : BatchJob(b) \in UnpinJobs
    /\ \A s, x : DataJob(s) = DataJob(x) => s = x
    /\ \A b, x : BatchJob(b) = BatchJob(x) => b = x
    /\ \A s, b : DataJob(s) # BatchJob(b)
BY SettlementAssumption DEF DataJob, BatchJob

\* A step of the pipeline pins what packerd will work on.
LEMMA PinnedNext ==
    ASSUME Inv, BatchingInv, PinnedInv, [Next]_vars, faults' = faults,
           pins' = pins \union PinnedNow
    PROVE  PinnedInv'
<1>1. newBatchCreated \subseteq newBatchCreated' /\ (Committed \/ db' = db)
  BY CommittedOrSame
<1>2. db.unpinData \subseteq db'.unpinData /\ db.unpinBatch \subseteq db'.unpinBatch
  BY <1>1, CommittedUnpins DEF UnpinsStep
<1>3. ASSUME NEW s \in StorageRequests, ForPackerd(s)', s \notin db'.unpinData
      PROVE  CidOf[DataJob(s)] \in pins'
  <2>1. \/ ForPackerd(s)
        \/ db.requests[s].status = "none" /\ db'.requests[s].status = "batching"
    <3>1. CASE Committed
      BY <1>3, <3>1, ForPackerdStep
    <3>2. CASE db' = db
      BY <1>3, <3>2 DEF ForPackerd
    <3> QED
      BY <1>1, <3>1, <3>2
  <2>2. CASE ForPackerd(s)
    BY <1>2, <1>3, <2>2 DEF PinnedInv
  <2>3. CASE db.requests[s].status = "none" /\ db'.requests[s].status = "batching"
    <3>1. CidOf[DataJob(s)] \in PinnedNow
      BY <2>3 DEF PinnedNow
    <3> QED
      BY <3>1
  <2> QED
    BY <2>1, <2>2, <2>3
<1>4. ASSUME NEW m \in newBatchCreated', m.batch \notin db'.unpinBatch
      PROVE  CidOf[BatchJob(m.batch)] \in pins'
  <2>1. CASE m \in newBatchCreated
    BY <1>2, <1>4, <2>1 DEF PinnedInv
  <2>2. CASE m \notin newBatchCreated
    <3>1. m.batch \in {n.batch : n \in newBatchCreated' \ newBatchCreated}
      BY <2>2
    <3>2. CidOf[BatchJob(m.batch)] \in PinnedNow
      BY <3>1 DEF PinnedNow
    <3> QED
      BY <3>2
  <2> QED
    BY <2>1, <2>2
<1>5. ASSUME NEW b \in Batches, db'.batches[b].status # "none", ~db'.batches[b].disallow
      PROVE  \E m \in newBatchCreated' : m.batch = b
  <2>1. BatchStep(b)
    BY <1>1, CommittedBatches DEF BatchStep
  <2>2. \/ \E m \in newBatchCreated : m.batch = b
        \/ db.batches[b].status # "none" /\ ~db.batches[b].disallow
    BY <1>5, <2>1 DEF BatchStep
  <2>3. \E m \in newBatchCreated : m.batch = b
    BY <2>2 DEF PinnedInv
  <2> QED
    BY <1>1, <2>3
<1> QED
  BY <1>3, <1>4, <1>5 DEF PinnedInv

\* The jobs a step of the pipeline creates.
LEMMA JobsNext ==
    ASSUME Inv, UnpinnerInv, [Next]_vars, CreateUnpinJob(JobsNow), unpinner' = unpinner
    PROVE  /\ UnpinnerInv'
           /\ faults' = faults /\ JobsInv => JobsInv'
<1>1. \A j \in UnpinJobs :
         jobs'[j] = IF j \in JobsNow /\ jobs[j] = "none" THEN "pending" ELSE jobs[j]
  BY DEF CreateUnpinJob
<1>2. jobs' \in [UnpinJobs -> {"none", "pending", "executing", "deleted"}]
  BY DEF CreateUnpinJob, UnpinnerInv
<1>3. \A j \in UnpinJobs : jobs[j] # "none" => jobs'[j] # "none"
  BY <1>1
<1>4. ASSUME NEW u \in Unpinners, unpinner[u] # Resting
      PROVE  jobs'[unpinner[u].job] # "none"
  <2>1. unpinner[u].job \in UnpinJobs /\ jobs[unpinner[u].job] # "none"
    BY <1>4 DEF UnpinnerInv
  <2> QED
    BY <1>3, <2>1
<1>5. UnpinnerInv'
  BY <1>2, <1>4 DEF UnpinnerInv
<1>6. ASSUME faults' = faults, JobsInv PROVE JobsInv'
  <2>1. db.unpinData \subseteq db'.unpinData /\ db.unpinBatch \subseteq db'.unpinBatch
    BY <1>6, CommittedOrSame, CommittedUnpins DEF UnpinsStep
  <2>2. ASSUME NEW s \in StorageRequests, jobs'[DataJob(s)] # "none"
        PROVE  s \in db'.unpinData
    <3>1. DataJob(s) \in JobsNow \/ jobs[DataJob(s)] # "none"
      BY <1>1, <2>2, JobsDiffer
    <3>2. DataJob(s) \in JobsNow => s \in db'.unpinData
      BY JobsDiffer DEF JobsNow
    <3> QED
      BY <1>6, <2>1, <3>1, <3>2 DEF JobsInv
  <2>3. ASSUME NEW b \in Batches, jobs'[BatchJob(b)] # "none"
        PROVE  b \in db'.unpinBatch
    <3>1. BatchJob(b) \in JobsNow \/ jobs[BatchJob(b)] # "none"
      BY <1>1, <2>3, JobsDiffer
    <3>2. BatchJob(b) \in JobsNow => b \in db'.unpinBatch
      BY JobsDiffer DEF JobsNow
    <3> QED
      BY <1>6, <2>1, <3>1, <3>2 DEF JobsInv
  <2> QED
    BY <2>2, <2>3 DEF JobsInv
<1> QED
  BY <1>5, <1>6

\* The daemons create no jobs, and unpin only the cid of a job.
UnpinnerStep ==
    /\ \A j \in UnpinJobs : jobs'[j] # "none" => jobs[j] # "none"
    /\ \/ pins' = pins
       \/ \E j \in UnpinJobs : jobs[j] # "none" /\ pins' = pins \ {CidOf[j]}

\* Every step of the daemons, whatever fails.
LEMMA UnpinNextStep ==
    ASSUME UnpinnerInv, UnpinNext
    PROVE  UnpinnerInv' /\ UnpinnerStep
<1> DEFINE Status == {"none", "pending", "executing", "deleted"}
           Works == [step : {"unpin", "delete", "retry"}, job : UnpinJobs]
<1>1. /\ jobs \in [UnpinJobs -> Status]
      /\ unpinner \in [Unpinners -> {Resting} \union Works]
      /\ \A u \in Unpinners : unpinner[u] # Resting => jobs[unpinner[u].job] # "none"
  BY DEF UnpinnerInv
<1>2. \A step \in {"unpin", "delete", "retry"}, j \in UnpinJobs :
         /\ Working(step, j) \in Works
         /\ Working(step, j).job = j
  BY DEF Working
<1>3. \A u \in Unpinners : unpinner[u].step \in {"unpin", "delete", "retry"} =>
         unpinner[u] # Resting
  BY SMT DEF Resting
<1>4. \A u \in Unpinners : unpinner[u] # Resting => unpinner[u].job \in UnpinJobs
  BY <1>1
<1>5. ASSUME NEW u \in Unpinners, NEW state \in {Resting} \union Works, Turns(u, state),
             state # Resting => jobs'[state.job] # "none",
             jobs' \in [UnpinJobs -> Status],
             \A j \in UnpinJobs : jobs[j] # "none" => jobs'[j] # "none"
      PROVE  UnpinnerInv'
  <2>1. /\ unpinner' \in [Unpinners -> {Resting} \union Works]
        /\ unpinner'[u] = state
        /\ \A v \in Unpinners : v # u => unpinner'[v] = unpinner[v]
    BY <1>1, <1>5 DEF Turns
  <2>2. ASSUME NEW v \in Unpinners, unpinner'[v] # Resting
        PROVE  jobs'[unpinner'[v].job] # "none"
    BY <1>1, <1>4, <1>5, <2>1, <2>2
  <2> QED
    BY <1>5, <2>1, <2>2 DEF UnpinnerInv
<1> HIDE DEF Works
<1>6. ASSUME NEW u \in Unpinners, NEW j \in UnpinJobs, UnpinJobGetNext(u, j)
      PROVE  UnpinnerInv' /\ UnpinnerStep
  <2>1. /\ jobs[j] # "none"
        /\ jobs' = [jobs EXCEPT ![j] = "executing"]
        /\ Turns(u, Working("unpin", j))
        /\ pins' = pins
    BY <1>6 DEF UnpinJobGetNext, NextUnpinJob
  <2>2. /\ jobs' \in [UnpinJobs -> Status]
        /\ jobs'[j] # "none"
        /\ \A i \in UnpinJobs : jobs[i] # "none" <=> jobs'[i] # "none"
    BY <1>1, <2>1
  <2>3. UnpinnerInv'
    BY <1>2, <1>5, <2>1, <2>2
  <2> QED
    BY <2>1, <2>2, <2>3 DEF UnpinnerStep
<1>7. ASSUME NEW u \in Unpinners, UnpinCid(u)
      PROVE  UnpinnerInv' /\ UnpinnerStep
  <2> DEFINE j == unpinner[u].job
  <2>1. /\ unpinner[u].step = "unpin"
        /\ jobs' = jobs
        /\ pins' = pins \/ pins' = pins \ {CidOf[j]}
        /\ Turns(u, Working("delete", j)) \/ Turns(u, Working("retry", j))
    BY <1>7 DEF UnpinCid
  <2>2. j \in UnpinJobs /\ jobs[j] # "none"
    BY <1>1, <1>3, <1>4, <2>1
  <2> HIDE DEF j
  <2>3. UnpinnerInv'
    BY <1>1, <1>2, <1>5, <2>1, <2>2
  <2> QED
    BY <2>1, <2>2, <2>3 DEF UnpinnerStep
<1>8. ASSUME NEW j \in UnpinJobs, NEW status \in {"pending", "deleted"},
             MoveExecuting(j, status)
      PROVE  /\ jobs' \in [UnpinJobs -> Status]
             /\ \A i \in UnpinJobs : jobs[i] # "none" <=> jobs'[i] # "none"
  BY <1>1, <1>8 DEF MoveExecuting
<1>9. ASSUME NEW u \in Unpinners, DeleteExecuting(u) \/ UnpinJobMoveToPending(u)
      PROVE  UnpinnerInv' /\ UnpinnerStep
  <2> DEFINE j == unpinner[u].job
  <2>1. /\ unpinner[u].step \in {"delete", "retry"}
        /\ pins' = pins
        /\ Turns(u, Working("retry", j)) \/ Turns(u, Resting)
        /\ jobs' = jobs \/ MoveExecuting(j, "deleted") \/ MoveExecuting(j, "pending")
    BY <1>9 DEF DeleteExecuting, UnpinJobMoveToPending
  <2>2. j \in UnpinJobs /\ jobs[j] # "none"
    BY <1>1, <1>3, <1>4, <2>1
  <2> HIDE DEF j
  <2>3. /\ jobs' \in [UnpinJobs -> Status]
        /\ \A i \in UnpinJobs : jobs[i] # "none" <=> jobs'[i] # "none"
    BY <1>1, <1>8, <2>1, <2>2
  <2>4. UnpinnerInv'
    BY <1>2, <1>5, <2>1, <2>2, <2>3
  <2> QED
    BY <2>1, <2>3, <2>4 DEF UnpinnerStep
<1>10. ASSUME NEW u \in Unpinners, RestartUnpinner(u)
       PROVE  UnpinnerInv' /\ UnpinnerStep
  <2>1. jobs' = jobs /\ pins' = pins /\ Turns(u, Resting)
    BY <1>10 DEF RestartUnpinner
  <2>2. UnpinnerInv'
    BY <1>1, <1>5, <2>1
  <2> QED
    BY <2>1, <2>2 DEF UnpinnerStep
<1>11. ASSUME NEW j \in UnpinJobs, ClaimExpires(j)
       PROVE  UnpinnerInv' /\ UnpinnerStep
  BY <1>11 DEF ClaimExpires, UnpinnerInv, UnpinnerStep
<1> QED
  BY <1>6, <1>7, <1>9, <1>10, <1>11 DEF UnpinNext, UnpinWork

\* A daemon removes no pin that is needed: what has no job stays pinned.
LEMMA UnpinKeepsPins ==
    ASSUME OwnCids, Inv, PinnedInv, JobsInv, UnpinnerStep, UNCHANGED vars
    PROVE  PinnedInv' /\ JobsInv'
<1>1. db' = db /\ newBatchCreated' = newBatchCreated
  BY DEF vars, brokerVars
<1>2. JobsInv'
  BY <1>1, JobsDiffer DEF UnpinnerStep, JobsInv
<1>3. ASSUME NEW i \in UnpinJobs, jobs[i] = "none", CidOf[i] \in pins
      PROVE  CidOf[i] \in pins'
  BY <1>3 DEF UnpinnerStep, OwnCids
<1>4. ASSUME NEW s \in StorageRequests, ForPackerd(s), s \notin db.unpinData
      PROVE  CidOf[DataJob(s)] \in pins'
  <2>1. DataJob(s) \in UnpinJobs /\ jobs[DataJob(s)] = "none"
    BY <1>4, JobsDiffer DEF JobsInv
  <2>2. CidOf[DataJob(s)] \in pins
    BY <1>4 DEF PinnedInv
  <2> QED
    BY <1>3, <2>1, <2>2
<1>5. ASSUME NEW m \in newBatchCreated, m.batch \notin db.unpinBatch
      PROVE  CidOf[BatchJob(m.batch)] \in pins'
  <2>1. m.batch \in Batches
    BY DEF Inv, BrokerTypeOK, NewBatchCreatedMsg
  <2>2. BatchJob(m.batch) \in UnpinJobs /\ jobs[BatchJob(m.batch)] = "none"
    BY <1>5, <2>1, JobsDiffer DEF JobsInv
  <2>3. CidOf[BatchJob(m.batch)] \in pins
    BY <1>5 DEF PinnedInv
  <2> QED
    BY <1>3, <2>2, <2>3
<1>6. PinnedInv'
  BY <1>1, <1>4, <1>5 DEF PinnedInv, ForPackerd
<1> QED
  BY <1>2, <1>6

--------------------------------------------------------------------------------
(* The query. *)

\* A query reads the row of a request.
LEMMA QueryReads ==
    ASSUME Inv, SettledInv, NEW s \in StorageRequests, GetStorageRequest(s)
    PROVE  QueryInv'
<1>1. /\ query' = [status |-> db.requests[s].status, batch |-> db.requests[s].batch]
      /\ db' = db
      /\ db.requests[s].status # "none"
  BY DEF GetStorageRequest, vars, brokerVars
<1>2. /\ db.requests[s].status \in RequestStatus
      /\ db.requests[s].batch \in Batches \union {NoBatch}
  BY BatchedRequest
<1>3. ASSUME db.requests[s].status = "success"
      PROVE  /\ db.requests[s].batch \in Batches
             /\ db.batches[db.requests[s].batch].status = "success"
  <2>1. db.requests[s].batch # NoBatch
    BY <1>3 DEF SettledInv
  <2>2. /\ db.requests[s].batch \in Batches
        /\ db.requests[s].status = Mirror(db.batches[db.requests[s].batch])
    BY <2>1, BatchedRequest
  <2> QED
    BY <1>3, <2>2 DEF Mirror
<1> QED
  BY <1>1, <1>2, <1>3 DEF QueryInv

\* What it read as stored stays stored while it is answered.
LEMMA QueryKept ==
    ASSUME Inv, Inv', SlotInv, QueryInv, [Next]_vars, faults' = faults, query' = query
    PROVE  QueryInv'
BY FinalStep DEF QueryInv

--------------------------------------------------------------------------------
(* The invariant of the settlement. *)

SettleInv ==
    /\ UnpinnerInv
    /\ faults = 0 => SettledInv /\ PinnedInv /\ JobsInv /\ QueryInv

\* The invariants of the pipeline that it rests on.
PipelineInv == Inv /\ SlotsWithoutFaults /\ (faults = 0 => BatchingInv)

\* A step of the settlement is one of the pipeline or leaves it alone.
LEMMA SettleIsPipeline ==
    /\ SettleInit => Init
    /\ [SettleNext]_settleVars => [Next]_vars
<1>1. UnpinNext /\ UNCHANGED <<vars, query>> => UNCHANGED vars
  OBVIOUS
<1>2. \A s \in StorageRequests : GetStorageRequest(s) => UNCHANGED vars
  BY DEF GetStorageRequest
<1>3. AnswerQuery => UNCHANGED vars
  BY DEF AnswerQuery
<1>4. UNCHANGED settleVars => UNCHANGED vars
  BY DEF settleVars
<1> QED
  BY <1>1, <1>2, <1>3, <1>4 DEF SettleInit, SettleNext

\* Nothing is pinned or to be unpinned at first.
LEMMA SettleInvInit == SettleInit => SettleInv
<1> SUFFICES ASSUME SettleInit PROVE SettleInv
  OBVIOUS
<1>1. /\ db.unpinData = {} /\ db.unpinBatch = {} /\ newBatchCreated = {}
      /\ \A b \in Batches : db.batches[b].status = "none"
      /\ \A s \in StorageRequests : db.requests[s].status = "none"
  BY DEF SettleInit, Init, BrokerInit, EmptyDB, NoBatchRow, NoRequestRow
<1>2. SettledInv /\ PinnedInv
  BY <1>1 DEF SettledInv, PinnedInv, ForPackerd
<1>3. /\ jobs = [j \in UnpinJobs |-> "none"]
      /\ unpinner = [u \in Unpinners |-> Resting]
      /\ query = NoQuery
  BY DEF SettleInit, UnpinInit
<1>4. UnpinnerInv
  BY <1>3 DEF UnpinnerInv
<1>5. JobsInv
  BY <1>3, JobsDiffer DEF JobsInv
<1> QED
  BY <1>2, <1>3, <1>4, <1>5 DEF SettleInv, QueryInv

\* Every step of the settlement.
LEMMA SettleInvNext ==
    ASSUME OwnCids, PipelineInv, PipelineInv', SettleInv, [SettleNext]_settleVars
    PROVE  SettleInv'
<1>1. [Next]_vars
  BY SettleIsPipeline
<1>2. Inv /\ Inv' /\ UnpinnerInv
  BY DEF PipelineInv, SettleInv
<1>3. faults' = 0 => /\ faults = 0 /\ faults' = faults
                     /\ SlotInv /\ SlotInv' /\ BatchingInv
                     /\ SettledInv /\ PinnedInv /\ JobsInv /\ QueryInv
  BY <1>1, <1>2, FaultsGrow DEF PipelineInv, SlotsWithoutFaults, SettleInv
<1>4. faults' = 0 => SettledInv'
  BY <1>1, <1>2, <1>3, SettledNext
<1>5. CASE /\ CreateUnpinJob(JobsNow)
           /\ pins' = pins \union PinnedNow
           /\ UNCHANGED <<unpinner, query>>
  <2>1. UnpinnerInv' /\ (faults' = faults /\ JobsInv => JobsInv')
    BY <1>1, <1>2, <1>5, JobsNext
  <2>2. faults' = 0 => PinnedInv'
    BY <1>1, <1>2, <1>3, <1>5, PinnedNext
  <2>3. faults' = 0 => QueryInv'
    BY <1>1, <1>2, <1>3, <1>5, QueryKept
  <2> QED
    BY <1>3, <1>4, <2>1, <2>2, <2>3 DEF SettleInv
<1>6. CASE UnpinNext /\ UNCHANGED <<vars, query>>
  <2>1. UnpinnerInv' /\ UnpinnerStep
    BY <1>2, <1>6, UnpinNextStep
  <2>2. faults' = 0 => PinnedInv' /\ JobsInv'
    BY <1>2, <1>3, <1>6, <2>1, UnpinKeepsPins
  <2>3. faults' = 0 => QueryInv'
    BY <1>1, <1>2, <1>3, <1>6, QueryKept
  <2> QED
    BY <1>4, <2>1, <2>2, <2>3 DEF SettleInv
<1>7. ASSUME UNCHANGED <<vars, unpinVars>>, faults' = 0 => QueryInv'
      PROVE  SettleInv'
  <2>1. /\ jobs' = jobs /\ unpinner' = unpinner /\ pins' = pins
        /\ db' = db /\ newBatchCreated' = newBatchCreated
    BY <1>7 DEF vars, brokerVars, unpinVars
  <2>2. UnpinnerInv'
    BY <1>2, <2>1 DEF UnpinnerInv
  <2>3. JobsInv => JobsInv'
    BY <2>1 DEF JobsInv
  <2>4. PinnedInv => PinnedInv'
    BY <2>1 DEF PinnedInv, ForPackerd
  <2> QED
    BY <1>3, <1>4, <1>7, <2>2, <2>3, <2>4 DEF SettleInv
<1>8. CASE \E s \in StorageRequests : GetStorageRequest(s)
  <2>1. UNCHANGED <<vars, unpinVars>>
    BY <1>8 DEF GetStorageRequest
  <2>2. faults' = 0 => QueryInv'
    BY <1>2, <1>3, <1>8, QueryReads
  <2> QED
    BY <1>7, <2>1, <2>2
<1>9. CASE AnswerQuery
  <2>1. UNCHANGED <<vars, unpinVars>> /\ QueryInv'
    BY <1>9 DEF AnswerQuery, QueryInv
  <2> QED
    BY <1>7, <2>1
<1>10. CASE UNCHANGED settleVars
  <2>1. UNCHANGED <<vars, unpinVars>> /\ query' = query
    BY <1>10 DEF settleVars
  <2>2. faults' = 0 => QueryInv'
    BY <1>1, <1>2, <1>3, <2>1, QueryKept
  <2> QED
    BY <1>7, <2>1, <2>2
<1> QED
  BY <1>5, <1>6, <1>8, <1>9, <1>10 DEF SettleNext

\* The invariants as invariants of the system.
LEMMA SettleInvariant ==
    ASSUME OwnCids, MaxReports = 1,
           \A in \in PreparedInputs : in.providers # {} => in.rep = 1
    PROVE  SettleSpec => [](PipelineInv /\ SuccessInv /\ SettleInv)
<1>1. SettleSpec => Spec
  BY SettleIsPipeline, PTL DEF SettleSpec, Spec
<1>2. Spec => []PipelineInv
  <2> DEFINE B == faults = 0 => BatchingInv
  <2>1. Spec => []B
    BY BatchingInvariant
  <2>2. Inv /\ SlotsWithoutFaults /\ B => PipelineInv
    BY DEF PipelineInv
  <2> HIDE DEF B
  <2> QED
    BY <2>1, <2>2, Invariance, SlotsInvariant, PTL
<1>3. Spec => []SuccessInv
  BY SuccessInvariant
<1>4. PipelineInv /\ PipelineInv' /\ SettleInv /\ [SettleNext]_settleVars => SettleInv'
  BY SettleInvNext
<1> QED
  BY <1>1, <1>2, <1>3, <1>4, SettleInvInit, PTL DEF SettleSpec

\* Without faults of the handlers, data stays pinned while it is needed: the data of
\* a request that packerd batches until the request is stored, the DAG of a batch
\* until the batch is final.  Whatever the unpinners meet (failed calls, restarts,
\* claims that are lost while the daemon is at work), none of them removes a pin
\* before the transaction that settles the batch creates its job.  On the
\* assumptions that requests and batches have cids of their own, that each result
\* is published once, and that clients who choose the providers ask for one copy.
THEOREM DataStaysPinned ==
    ASSUME OwnCids, MaxReports = 1,
           \A in \in PreparedInputs : in.providers # {} => in.rep = 1
    PROVE  SettleSpec => []NeededIsPinned
<1>1. PipelineInv /\ SettleInv => NeededIsPinned
  <2> SUFFICES ASSUME PipelineInv, SettleInv, faults = 0 PROVE NeededIsPinned
    BY DEF NeededIsPinned
  <2>1. Inv /\ SettledInv /\ PinnedInv
    BY DEF PipelineInv, SettleInv
  <2>2. ASSUME NEW s \in StorageRequests,
               db.requests[s].status \notin {"none", "success"},
               db.requests[s].batch = NoBatch
                  \/ ~db.batches[db.requests[s].batch].disallow
        PROVE  CidOf[DataJob(s)] \in pins
    <3>1. ForPackerd(s)
      BY <2>2 DEF ForPackerd
    <3>2. s \notin db.unpinData
      <4>1. ASSUME s \in db.unpinData PROVE FALSE
        <5>1. /\ db.requests[s].batch \in Batches
              /\ db.batches[db.requests[s].batch].status = "success"
          BY <2>1, <4>1 DEF SettledInv
        <5>2. db.requests[s].batch # NoBatch
          BY <5>1, StoreAssumption
        <5>3. db.requests[s].status = "success"
          BY <2>1, <5>1, <5>2, BatchedRequest DEF Mirror
        <5> QED
          BY <2>2, <5>3
      <4> QED
        BY <4>1
    <3> QED
      BY <2>1, <3>1, <3>2 DEF PinnedInv
  <2>3. ASSUME NEW b \in Batches,
               db.batches[b].status \in {"preparing", "auctioning", "deal_making"},
               ~db.batches[b].disallow
        PROVE  CidOf[BatchJob(b)] \in pins
    <3>1. b \notin db.unpinBatch
      BY <2>1, <2>3 DEF SettledInv
    <3>2. PICK m \in newBatchCreated : m.batch = b
      BY <2>1, <2>3 DEF PinnedInv
    <3> QED
      BY <2>1, <3>1, <3>2 DEF PinnedInv
  <2> QED
    BY <2>2, <2>3 DEF NeededIsPinned
<1> QED
  BY <1>1, SettleInvariant, PTL

--------------------------------------------------------------------------------
(* What a client is shown. *)

\* The conversions lose no status: what storaged shows as stored, brokerd has
\* stored.
LEMMA StatusShown ==
    ASSUME NEW st \in RequestStatus \ {"none"}
    PROVE  /\ Statuses[CHOOSE k \in DOMAIN Statuses : Statuses[k] = st] = st
           /\ StorageStatus(st) = "Success" => st = "success"
<1> DEFINE n == CHOOSE k \in DOMAIN Statuses : Statuses[k] = st
<1>1. /\ DOMAIN Statuses = 1..6
      /\ Statuses[1] = "batching" /\ Statuses[2] = "preparing"
      /\ Statuses[3] = "auctioning" /\ Statuses[4] = "deal_making"
      /\ Statuses[5] = "success" /\ Statuses[6] = "error"
  BY SMT DEF Statuses
<1>2. \E k \in DOMAIN Statuses : Statuses[k] = st
  BY <1>1, SMT DEF RequestStatus
<1>3. n \in DOMAIN Statuses /\ Statuses[n] = st
  BY <1>2
<1>4. StorageStatus(st) = StorageStatuses[n]
  BY DEF StorageStatus
<1> HIDE DEF n
<1>5. /\ StorageStatuses[1] = "Batching" /\ StorageStatuses[2] = "Preparing"
      /\ StorageStatuses[3] = "Auctioning" /\ StorageStatuses[4] = "DealMaking"
      /\ StorageStatuses[6] = "Error"
  BY DEF StorageStatuses
<1>6. n \in 1..6
  BY <1>1, <1>3
<1>7. StorageStatuses[n] = "Success" => n = 5
  BY <1>5, <1>6, SMT
<1> QED
  BY <1>1, <1>3, <1>4, <1>7 DEF n

\* The answer that reaches the client is the status and the deals that were read.
LEMMA InfoShown ==
    ASSUME query.status \in RequestStatus \ {"none"}
    PROVE  /\ RequestInfo.request.status = StorageStatus(query.status)
           /\ RequestInfo.deals = ShownDeals
<1> DEFINE n == CHOOSE k \in DOMAIN Statuses : Statuses[k] = query.status
           shown == {[storageProviderId |-> d.sp, dealId |-> d.dealID] : d \in ShownDeals}
<1>1. /\ ServeStorageRequestInfo.storageRequest.status = n
      /\ ServeStorageRequestInfo.deals = shown
  BY DEF ServeStorageRequestInfo, StorageRequestInfoToProto, StorageRequestToProto
<1>2. /\ ClientStorageRequestInfo.request.status = Statuses[n]
      /\ ClientStorageRequestInfo.deals =
            {[sp |-> d.storageProviderId, dealID |-> d.dealId] : d \in shown}
  BY <1>1 DEF ClientStorageRequestInfo, FromProtoStorageRequestInfo,
              FromProtoStorageRequest
<1>3. Statuses[n] = query.status
  BY StatusShown
<1>4. \A d \in ShownDeals : d = [sp |-> d.sp, dealID |-> d.dealID]
  BY SMT DEF ShownDeals, Deal
<1>5. {[sp |-> d.storageProviderId, dealID |-> d.dealId] : d \in shown} = ShownDeals
  <2> HIDE DEF n
  <2>1. ASSUME NEW d \in ShownDeals
        PROVE  d \in {[sp |-> e.storageProviderId, dealID |-> e.dealId] : e \in shown}
    <3> DEFINE e == [storageProviderId |-> d.sp, dealId |-> d.dealID]
    <3>1. e \in shown /\ e.storageProviderId = d.sp /\ e.dealId = d.dealID
      OBVIOUS
    <3>2. d = [sp |-> e.storageProviderId, dealID |-> e.dealId]
      BY <1>4, <3>1
    <3> QED
      BY <3>1, <3>2
  <2>2. ASSUME NEW e \in shown
        PROVE  [sp |-> e.storageProviderId, dealID |-> e.dealId] \in ShownDeals
    <3>1. PICK d \in ShownDeals : e = [storageProviderId |-> d.sp, dealId |-> d.dealID]
      OBVIOUS
    <3> QED
      BY <1>4, <3>1
  <2> QED
    BY <2>1, <2>2
<1> HIDE DEF n, shown
<1> QED
  BY <1>2, <1>3, <1>5 DEF RequestInfo, ToRequest

\* Every confirmed row of the batch is shown as one deal.
LEMMA DealsShown ==
    ASSUME Inv, query.batch \in Batches, IsFiniteSet(ConfirmedRows(db, query.batch))
    PROVE  Cardinality(ShownDeals) = Cardinality(ConfirmedRows(db, query.batch))
<1> DEFINE S == ConfirmedRows(db, query.batch)
           g == [r \in S |-> Deal(r)]
<1>1. ShownDeals = {Deal(r) : r \in S}
  BY StoreAssumption DEF ShownDeals, ConfirmedRows
<1>2. ASSUME NEW q \in S, NEW r \in S, Deal(q) = Deal(r) PROVE q = r
  <2>1. q \in DealRow /\ r \in DealRow /\ q.state = r.state
    BY DEF ConfirmedRows, GetDeals, Inv, BrokerTypeOK, DBType
  <2>2. Deal(q).dealID = <<q.batch, q.bid, q.sp>> /\ Deal(r).dealID = <<r.batch, r.bid, r.sp>>
    BY DEF Deal
  <2>3. q.batch = r.batch /\ q.bid = r.bid /\ q.sp = r.sp
    BY <1>2, <2>2, SMT
  <2> QED
    BY <2>1, <2>3, SMT DEF DealRow
<1> HIDE DEF S
<1>3. g \in [S -> ShownDeals]
  BY <1>1
<1>4. \A d \in ShownDeals : \E r \in S : g[r] = d
  BY <1>1
<1>5. \A q, r \in S : g[q] = g[r] => q = r
  BY <1>2
<1> HIDE DEF g
<1>6. g \in Bijection(S, ShownDeals)
  BY <1>3, <1>4, <1>5 DEF Bijection, Injection, Surjection, IsInjective
<1>7. IsFiniteSet(S)
  BY DEF S
<1>8. ExistsBijection(S, ShownDeals)
  BY <1>6 DEF ExistsBijection
<1> QED
  BY <1>7, <1>8, FS_Bijection DEF S

\* Without faults of the handlers, a request is shown as stored only with as many
\* deals as its rep factor, all of them reported active by dealerd, although the
\* request and the deals are read in two steps, between which the batch moves on.
\* On the assumptions of DataStaysPinned.
THEOREM ShownIsAlwaysTrue ==
    ASSUME OwnCids, MaxReports = 1,
           \A in \in PreparedInputs : in.providers # {} => in.rep = 1
    PROVE  SettleSpec => []ShownIsTrue
<1>1. PipelineInv /\ SuccessInv /\ SettleInv => ShownIsTrue
  <2> SUFFICES ASSUME PipelineInv, SuccessInv, SettleInv, faults = 0, query # NoQuery
               PROVE  ShownIsTrue
    BY DEF ShownIsTrue
  <2>1. Inv /\ SlotInv /\ ConfirmedReported /\ SettledInv /\ QueryInv
    BY DEF PipelineInv, SlotsWithoutFaults, SuccessInv, SettleInv
  <2>2. /\ query.status \in RequestStatus \ {"none"}
        /\ query.batch \in Batches \union {NoBatch}
        /\ query.status = "success" =>
              query.batch \in Batches /\ db.batches[query.batch].status = "success"
    BY <2>1 DEF QueryInv
  <2>3. /\ RequestInfo.request.status = StorageStatus(query.status)
        /\ RequestInfo.deals = ShownDeals
    BY <2>2, InfoShown
  <2>4. ASSUME RequestInfo.request.status = "Success"
        PROVE  Cardinality(RequestInfo.deals) >= db.batches[query.batch].rep
    <3>1. query.status = "success"
      <4>1. StorageStatus(query.status) = "Success" => query.status = "success"
        <5>1. query.status \in RequestStatus \ {"none"}
          BY <2>2
        <5> QED
          BY <5>1, StatusShown
      <4>2. StorageStatus(query.status) = "Success"
        BY <2>3, <2>4
      <4> QED
        BY <4>1, <4>2
    <3>2. query.batch \in Batches /\ db.batches[query.batch].status = "success"
      BY <2>2, <3>1
    <3>3. Cardinality(ConfirmedRows(db, query.batch)) >= db.batches[query.batch].rep
      BY <2>1, <3>2 DEF SettledInv
    <3>4. IsFiniteSet(LiveDeals(query.batch))
      BY <2>1, <3>2 DEF SlotInv, CountInv, Counted
    <3>5. ConfirmedRows(db, query.batch) \subseteq LiveDeals(query.batch)
      BY DEF ConfirmedRows, LiveDeals
    <3>6. IsFiniteSet(ConfirmedRows(db, query.batch))
      BY <3>4, <3>5, FS_Subset
    <3>7. Cardinality(ShownDeals) = Cardinality(ConfirmedRows(db, query.batch))
      BY <2>1, <3>2, <3>6, DealsShown
    <3> QED
      BY <2>3, <3>3, <3>7
  <2>5. ASSUME NEW d \in RequestInfo.deals
        PROVE  <<query.batch, d.sp>> \in
                 {<<f.batch, f.sp>> : f \in {m \in finalizedDeal : m.outcome = "confirmed"}}
    <3>1. PICK r \in db.deals :
             r.batch = query.batch /\ r.state = "confirmed" /\ d = Deal(r)
      BY <2>3 DEF ShownDeals, GetDeals
    <3>2. PICK f \in finalizedDeal :
             f.batch = r.batch /\ f.sp = r.sp /\ f.outcome = "confirmed"
      BY <2>1, <3>1 DEF ConfirmedReported
    <3>3. d.sp = r.sp
      BY <3>1 DEF Deal
    <3> QED
      BY <3>1, <3>2, <3>3
  <2> QED
    BY <2>4, <2>5 DEF ShownIsTrue
<1> QED
  BY <1>1, SettleInvariant, PTL

================================================================================
