------------------------------- MODULE SlotProofs -------------------------------
(***************************************************************************)
(* Proofs about the deals of a batch: how the rows of brokerd and the      *)
(* messages to auctioneerd and dealerd account for its replication slots.  *)
(*                                                                         *)
(* Slots are conserved, and success and error are final, as long as there  *)
(* is no fault and results are reported once (SlotInv).  Both rest on what *)
(* each step commits (StepCases in PipelineProofs).                        *)
(***************************************************************************)
EXTENDS PipelineProofs

\* Zenon proves the leaves that name no other prover.
USE Zenon

--------------------------------------------------------------------------------
(* The replication slots of a batch, without faults and repeated reports. *)

Open(m) == <<m.id, 1>> \notin db.operations

\* An id names one auction or one deal set, and no auction is for a batch that
\* has no piece or for no copies.
MessagesInv ==
    /\ \A m \in readyToAuction :
          /\ m.id < nextID
          /\ m.rep # 0
          /\ db.batches[m.batch].status \notin {"none", "preparing"}
    /\ \A c \in readyToCreateDeals : c.id < nextID
    /\ \A m, n \in readyToAuction : m.id = n.id => m = n
    /\ \A c, e \in readyToCreateDeals : c.id = e.id => c = e

\* A result is of an auction or a deal that brokerd asked for, and so is a
\* recorded operation.
ResultsInv ==
    /\ \A c \in auctionClosed : \E m \in readyToAuction :
          /\ c.op = <<m.id, 1>>
          /\ c.batch = m.batch
          /\ c.ok => /\ Cardinality(c.winners) = m.rep
                     /\ c.winners \intersect m.excluded = {}
    /\ \A f \in finalizedDeal : \E c \in readyToCreateDeals :
          /\ f.op = <<c.id, f.sp, 1>>
          /\ f.batch = c.batch
          /\ f.sp \in c.sps
    /\ \A op \in db.operations : op[1] < nextID

\* A provider has one row in a batch and is in one deal set of it, and the row
\* waits for the outcome until that is handled.
DealsInv ==
    /\ \A q, r \in db.deals : q.batch = r.batch /\ q.sp = r.sp => q = r
    /\ \A c, e \in readyToCreateDeals : \A p \in c.sps \intersect e.sps :
          c.batch = e.batch => c = e
    /\ \A c \in readyToCreateDeals : \A p \in c.sps : \E r \in db.deals :
          /\ r.batch = c.batch
          /\ r.sp = p
          /\ <<c.id, p, 1>> \notin db.operations => r.state = "pending"

\* An auction of a batch with targeted providers can't be won by a provider that
\* has a row in it.
TargetedInv ==
    /\ TargetedOnce
    /\ \A m \in readyToAuction :
          Open(m) /\ Live(db, m.batch) /\ db.batches[m.batch].providers # {} =>
              \A r \in db.deals : r.batch = m.batch => r.sp \in m.excluded

\* Slots and live deals make up the rep factor; a batch in error is short of
\* live deals, so that it will never be complete.
Counted(b) ==
    /\ db.batches[b].status # "none" => db.batches[b].rep # 0
    /\ IsFiniteSet(OpenSlots(b)) /\ IsFiniteSet(LiveDeals(b))
    /\ Live(db, b) =>
          Cardinality(OpenSlots(b)) + Cardinality(LiveDeals(b)) = db.batches[b].rep
    /\ db.batches[b].status = "error" =>
          Cardinality(LiveDeals(b)) < db.batches[b].rep

CountInv == \A b \in Batches : Counted(b)

SlotInv == MessagesInv /\ ResultsInv /\ DealsInv /\ TargetedInv /\ CountInv

\* An auction operation is never a deal operation.
LEMMA OpsDiffer == \A a, b, c, d, e : <<a, b>> # <<c, d, e>>
OBVIOUS

Slots(m) == {m.id} \X (1..m.rep)

\* The auctions of batch b in shut get their result, the ones in added are new.
Shifts(b, shut, added) ==
    /\ shut \subseteq readyToAuction
    /\ added \subseteq readyToAuction'
    /\ readyToAuction \subseteq readyToAuction'
    /\ \A x \in shut : x.batch = b /\ Open(x)
    /\ \A x \in added : x.batch = b /\ x.id = nextID /\ Open(x)'
    /\ \A x \in readyToAuction : x.batch = b =>
          (Open(x)' <=> Open(x) /\ x \notin shut)
    /\ \A x \in readyToAuction' : x.batch = b =>
          (x \in readyToAuction <=> x \notin added)

\* At most one auction, for i copies.
Asks(auctions, i) ==
    \/ auctions = {} /\ i = 0
    \/ \E m : auctions = {m} /\ i = m.rep

\* The outcome of a deal closes no auction.
LEMMA OpenAfterReport ==
    ASSUME NEW i, NEW p, NEW k, db'.operations = db.operations \union {<<i, p, k>>}
    PROVE  \A x : Open(x)' <=> Open(x)
BY OpsDiffer DEF Open

\* The outcome of a deal is of the one row of its provider, and the row waits
\* for it.
LEMMA ReportedRow ==
    ASSUME Inv, SlotInv, NEW f \in finalizedDeal, f.op \notin db.operations
    PROVE  \E c \in readyToCreateDeals, r \in db.deals :
              /\ f.op = <<c.id, f.sp, 1>> /\ f.batch = c.batch /\ f.sp \in c.sps
              /\ r.batch = f.batch /\ r.sp = f.sp /\ r.state = "pending"
              /\ \A q \in db.deals : q.batch = f.batch /\ q.sp = f.sp => q = r
<1>1. PICK c \in readyToCreateDeals :
         f.op = <<c.id, f.sp, 1>> /\ f.batch = c.batch /\ f.sp \in c.sps
  BY DEF SlotInv, ResultsInv
<1>2. PICK r \in db.deals : /\ r.batch = c.batch
                            /\ r.sp = f.sp
                            /\ <<c.id, f.sp, 1>> \notin db.operations => r.state = "pending"
  BY <1>1 DEF SlotInv, DealsInv
<1>3. \A q \in db.deals : q.batch = f.batch /\ q.sp = f.sp => q = r
  BY <1>1, <1>2, SMT DEF SlotInv, DealsInv
<1> QED
  BY <1>1, <1>2, <1>3

\* What the outcome of a deal does to the deals of all batches.
Outcome(f, state) ==
    \E r \in db.deals :
        /\ r.batch = f.batch /\ r.sp = f.sp /\ r.state = "pending"
        /\ \A q \in db.deals : q.batch = f.batch /\ q.sp = f.sp => q = r
        /\ db'.deals = (db.deals \ {r}) \union {[r EXCEPT !.state = state]}
        /\ [r EXCEPT !.state = state].batch = f.batch
        /\ [r EXCEPT !.state = state].sp = f.sp
        /\ [r EXCEPT !.state = state].state = state

\* The row gets the outcome, and every deal set still has its rows.
LEMMA OutcomeDeals ==
    ASSUME Inv, SlotInv, NEW f \in finalizedDeal, f.op \notin db.operations,
           NEW state \in {"confirmed", "failed"}, Saved(f, state),
           readyToCreateDeals' = readyToCreateDeals
    PROVE  Outcome(f, state) /\ DealsInv' /\ \A x : Open(x)' <=> Open(x)
<1>1. PICK c \in readyToCreateDeals, r \in db.deals :
         /\ f.op = <<c.id, f.sp, 1>> /\ f.batch = c.batch /\ f.sp \in c.sps
         /\ r.batch = f.batch /\ r.sp = f.sp /\ r.state = "pending"
         /\ \A q \in db.deals : q.batch = f.batch /\ q.sp = f.sp => q = r
  BY ReportedRow
<1> DEFINE u == [r EXCEPT !.state = state]
<1>2. u.batch = f.batch /\ u.sp = f.sp /\ u.state = state
  BY <1>1 DEF Inv, BrokerTypeOK, DBType, DealRow
<1>3. /\ db'.operations = db.operations \union {<<c.id, f.sp, 1>>}
      /\ StateSaved(db, db', f.batch, f.sp, state)
  BY <1>1 DEF Saved
<1>4. db'.deals = (db.deals \ {r}) \union {u}
  <2>1. ASSUME NEW q \in db'.deals PROVE q \in (db.deals \ {r}) \union {u}
    BY <1>1, <1>3 DEF StateSaved
  <2>2. u \in db'.deals
    BY <1>1, <1>3 DEF StateSaved
  <2>3. ASSUME NEW q \in db.deals, q # r PROVE q \in db'.deals
    <3>1. ~(q.batch = f.batch /\ q.sp = f.sp)
      BY <1>1, <2>3
    <3> QED
      BY <1>3, <3>1 DEF StateSaved
  <2> QED
    BY <2>1, <2>2, <2>3
<1>5. Outcome(f, state)
  BY <1>1, <1>2, <1>4 DEF Outcome
<1> HIDE DEF u
<1>6. \A q, p \in db'.deals : q.batch = p.batch /\ q.sp = p.sp => q = p
  <2>1. \A q, p \in db.deals : q.batch = p.batch /\ q.sp = p.sp => q = p
    BY DEF SlotInv, DealsInv
  <2> QED
    BY <1>1, <1>2, <1>4, <2>1, ZenonT(60)
<1>7. ASSUME NEW e \in readyToCreateDeals, NEW p \in e.sps
      PROVE  \E q \in db'.deals :
                /\ q.batch = e.batch
                /\ q.sp = p
                /\ <<e.id, p, 1>> \notin db'.operations => q.state = "pending"
  <2>1. PICK q \in db.deals :
           /\ q.batch = e.batch
           /\ q.sp = p
           /\ <<e.id, p, 1>> \notin db.operations => q.state = "pending"
    BY ZenonT(60) DEF SlotInv, DealsInv
  <2>2. CASE q # r
    BY <1>3, <1>4, <2>1, <2>2
  <2>3. CASE q = r
    <3>1. p = f.sp /\ e.batch = c.batch
      BY <1>1, <2>1, <2>3
    <3>2. e = c
      BY <1>1, <3>1 DEF SlotInv, DealsInv
    <3>3. <<e.id, p, 1>> \in db'.operations
      BY <1>3, <3>1, <3>2
    <3> QED
      BY <1>1, <1>2, <1>4, <3>1, <3>3
  <2> QED
    BY <2>2, <2>3
<1>8. DealsInv'
  BY <1>6, <1>7, ZenonT(60) DEF SlotInv, DealsInv
<1>9. \A x : Open(x)' <=> Open(x)
  BY <1>3, OpenAfterReport
<1> QED
  BY <1>5, <1>8, <1>9

\* A live deal is confirmed or lost.
LEMMA OutcomeLive ==
    ASSUME SlotInv, NEW f, f.batch \in Batches, NEW state \in {"confirmed", "failed"},
           Outcome(f, state)
    PROVE  /\ \A x : x # f.batch => LiveDeals(x)' = LiveDeals(x)
           /\ IsFiniteSet(LiveDeals(f.batch)')
           /\ Cardinality(LiveDeals(f.batch)) \in Nat
           /\ Cardinality(LiveDeals(f.batch)) # 0
           /\ Cardinality(LiveDeals(f.batch)')
                = IF state = "confirmed" THEN Cardinality(LiveDeals(f.batch))
                  ELSE Cardinality(LiveDeals(f.batch)) - 1
<1>1. PICK r \in db.deals :
        /\ r.batch = f.batch /\ r.sp = f.sp /\ r.state = "pending"
        /\ \A q \in db.deals : q.batch = f.batch /\ q.sp = f.sp => q = r
        /\ db'.deals = (db.deals \ {r}) \union {[r EXCEPT !.state = state]}
        /\ [r EXCEPT !.state = state].batch = f.batch
        /\ [r EXCEPT !.state = state].sp = f.sp
        /\ [r EXCEPT !.state = state].state = state
  BY DEF Outcome
<1> DEFINE u == [r EXCEPT !.state = state]
           S == LiveDeals(f.batch)
<1>2. /\ db'.deals = (db.deals \ {r}) \union {u}
      /\ u.batch = f.batch /\ u.sp = f.sp /\ u.state = state
  BY <1>1
<1> HIDE DEF u
<1>3. \A x : x # f.batch => LiveDeals(x)' = LiveDeals(x)
  BY <1>1, <1>2 DEF LiveDeals, GetDeals
<1>4. S' = IF state = "confirmed" THEN (S \ {r}) \union {u} ELSE S \ {r}
  BY <1>1, <1>2 DEF LiveDeals, GetDeals
<1>5. r \in S /\ u \notin S
  BY <1>1, <1>2 DEF LiveDeals, GetDeals
<1>6. IsFiniteSet(S)
  BY DEF SlotInv, CountInv, Counted
<1> HIDE DEF S
<1>7. Cardinality(S) \in Nat /\ Cardinality(S) # 0
  BY <1>5, <1>6, FS_CardinalityType, FS_EmptySet
<1>8. IsFiniteSet(S \ {r}) /\ Cardinality(S \ {r}) = Cardinality(S) - 1
  BY <1>5, <1>6, FS_RemoveElement
<1>9. /\ IsFiniteSet((S \ {r}) \union {u})
      /\ Cardinality((S \ {r}) \union {u}) = Cardinality(S)
  BY <1>5, <1>7, <1>8, FS_AddElement, SMT
<1>10. /\ IsFiniteSet(S')
       /\ Cardinality(S') = IF state = "confirmed" THEN Cardinality(S)
                            ELSE Cardinality(S) - 1
  BY <1>4, <1>8, <1>9
<1> QED
  BY <1>3, <1>7, <1>10 DEF S

\* The row of batch b changes its status only.
RowMoved(b, st) ==
    /\ db'.batches[b].status = st
    /\ \A x \in Batches :
          /\ x # b => db'.batches[x] = db.batches[x]
          /\ db'.batches[x].rep = db.batches[x].rep
          /\ db'.batches[x].providers = db.batches[x].providers

\* A change of status leaves the other rows alone.
LEMMA RowMoves ==
    ASSUME Inv, NEW b \in Batches, NEW st,
           db'.batches = [db.batches EXCEPT ![b].status = st]
    PROVE  RowMoved(b, st)
<1>1. /\ db'.batches[b].status = st
      /\ \A x \in Batches :
            /\ x # b => db'.batches[x] = db.batches[x]
            /\ db'.batches[x].rep = db.batches[x].rep
            /\ db'.batches[x].piece = db.batches[x].piece
            /\ db'.batches[x].disallow = db.batches[x].disallow
            /\ db'.batches[x].providers = db.batches[x].providers
            /\ db'.batches[x].carURL = db.batches[x].carURL
  BY BatchRowsMove
<1> QED
  BY <1>1 DEF RowMoved

\* Without faults, and with every result reported once, every step keeps count.
LEMMA SlotNext ==
    /\ MaxReports = 1
    /\ Inv /\ Inv'
    /\ SlotInv /\ TargetedOnce'
    /\ [Next]_vars /\ faults' = faults
    => SlotInv'
\* An auction has as many slots as it asks for copies.
<1>SlotsCardinality.
    ASSUME NEW m \in ReadyToAuctionMsg
    PROVE  IsFiniteSet(Slots(m)) /\ Cardinality(Slots(m)) = m.rep
  <2> USE <1>SlotsCardinality
  <2>1. m.rep \in Nat
    BY DEF ReadyToAuctionMsg
  <2>2. IsFiniteSet({m.id}) /\ Cardinality({m.id}) = 1
    BY FS_Singleton
  <2>3. IsFiniteSet(1..m.rep) /\ Cardinality(1..m.rep) = m.rep
    <3>1. ASSUME NEW n \in Nat PROVE IsFiniteSet(1..n) /\ Cardinality(1..n) = n
      <4>1. 1 \in Int /\ n \in Int
        BY SMT
      <4>2. /\ IsFiniteSet(1..n)
            /\ Cardinality(1..n) = IF 1 > n THEN 0 ELSE n - 1 + 1
        BY <4>1, FS_Interval
      <4>3. (IF 1 > n THEN 0 ELSE n - 1 + 1) = n
        BY SMT
      <4> QED
        BY <4>2, <4>3, SMT
    <3> QED
      BY <2>1, <3>1
  <2>4. /\ IsFiniteSet(Slots(m))
        /\ Cardinality(Slots(m)) = Cardinality({m.id}) * Cardinality(1..m.rep)
    BY <2>2, <2>3, FS_Product DEF Slots
  <2> HIDE DEF Slots
  <2>5. Cardinality(Slots(m)) = 1 * m.rep
    BY <2>2, <2>3, <2>4
  <2> QED
    BY <2>1, <2>4, <2>5, SMT

\* The slots of a batch after that.
<1>SlotsChange.
    ASSUME MessagesInv, NEW b, NEW shut, NEW added, Shifts(b, shut, added)
    PROVE  OpenSlots(b)' = (OpenSlots(b) \ UNION {Slots(x) : x \in shut})
                              \union UNION {Slots(x) : x \in added}
  <2> USE <1>SlotsChange
  <2> USE DEF Shifts
  <2>1. ASSUME NEW x \in readyToAuction, NEW y \in readyToAuction, x # y
        PROVE  Slots(x) \intersect Slots(y) = {}
    BY <2>1 DEF Slots, MessagesInv
  <2>2. OpenSlots(b) = UNION {Slots(x) : x \in {y \in readyToAuction : y.batch = b /\ Open(y)}}
    BY DEF OpenSlots, Slots, Open
  <2>3. OpenSlots(b)' = UNION {Slots(x) : x \in {y \in readyToAuction' : y.batch = b /\ Open(y)'}}
    BY DEF OpenSlots, Slots, Open
  <2> HIDE DEF Slots, Open
  <2>4. ASSUME NEW e \in OpenSlots(b)'
        PROVE  e \in (OpenSlots(b) \ UNION {Slots(x) : x \in shut})
                                \union UNION {Slots(x) : x \in added}
    <3>1. PICK y \in readyToAuction' : y.batch = b /\ Open(y)' /\ e \in Slots(y)
      BY <2>3, <2>4
    <3>2. CASE y \in added
      BY <3>1, <3>2
    <3>3. CASE y \in readyToAuction
      BY <2>1, <2>2, <3>1, <3>3, ZenonT(60)
    <3> QED
      BY <3>1, <3>2, <3>3
  <2>5. ASSUME NEW e \in OpenSlots(b), e \notin UNION {Slots(x) : x \in shut}
        PROVE  e \in OpenSlots(b)'
    <3>1. PICK y \in readyToAuction : y.batch = b /\ Open(y) /\ e \in Slots(y)
      BY <2>2, <2>5
    <3>2. y \notin shut
      BY <2>5, <3>1
    <3> QED
      BY <2>3, <3>1, <3>2
  <2>6. ASSUME NEW e \in UNION {Slots(x) : x \in added}
        PROVE  e \in OpenSlots(b)'
    BY <2>3, <2>6
  <2> QED
    BY <2>4, <2>5, <2>6

\* How many slots of a batch are out after at most one auction got its result and
\* at most one was published.
<1>SlotsCounted.
    ASSUME Inv, Inv', MessagesInv, NEW b, IsFiniteSet(OpenSlots(b)),
           NEW shut, NEW added, Shifts(b, shut, added),
           NEW i, Asks(shut, i), NEW j, Asks(added, j)
    PROVE  /\ IsFiniteSet(OpenSlots(b)')
           /\ Cardinality(OpenSlots(b)) \in Nat /\ i \in Nat /\ j \in Nat
           /\ i <= Cardinality(OpenSlots(b))
           /\ Cardinality(OpenSlots(b)') = Cardinality(OpenSlots(b)) - i + j
  <2> USE <1>SlotsCounted
  <2> DEFINE S == OpenSlots(b)
             X == UNION {Slots(x) : x \in shut}
             Y == UNION {Slots(x) : x \in added}
  <2>1. readyToAuction \subseteq ReadyToAuctionMsg /\ readyToAuction' \subseteq ReadyToAuctionMsg
    BY DEF Inv, BrokerTypeOK
  <2>2. OpenSlots(b)' = (S \ X) \union Y
    BY <1>SlotsChange
  <2>3. IsFiniteSet(X) /\ Cardinality(X) = i /\ i \in Nat
    <3>1. CASE shut = {} /\ i = 0
      BY <3>1, FS_EmptySet
    <3>2. CASE \E a : shut = {a} /\ i = a.rep
      <4>1. PICK a : shut = {a} /\ i = a.rep
        BY <3>2
      <4>2. a \in ReadyToAuctionMsg /\ X = Slots(a)
        BY <2>1, <4>1 DEF Shifts
      <4>3. a.rep \in Nat
        BY <4>2 DEF ReadyToAuctionMsg
      <4> QED
        BY <4>1, <4>2, <4>3, <1>SlotsCardinality
    <3> QED
      BY <3>1, <3>2 DEF Asks
  <2>4. IsFiniteSet(Y) /\ Cardinality(Y) = j /\ j \in Nat
    <3>1. CASE added = {} /\ j = 0
      BY <3>1, FS_EmptySet
    <3>2. CASE \E n : added = {n} /\ j = n.rep
      <4>1. PICK n : added = {n} /\ j = n.rep
        BY <3>2
      <4>2. n \in ReadyToAuctionMsg /\ Y = Slots(n)
        BY <2>1, <4>1 DEF Shifts
      <4>3. n.rep \in Nat
        BY <4>2 DEF ReadyToAuctionMsg
      <4> QED
        BY <4>1, <4>2, <4>3, <1>SlotsCardinality
    <3> QED
      BY <3>1, <3>2 DEF Asks
  <2>5. X \subseteq S
    BY DEF OpenSlots, Slots, Open, Shifts
  <2>6. (S \ X) \intersect Y = {}
    <3>1. ASSUME NEW e \in S, NEW n \in added, e \in Slots(n)
          PROVE  FALSE
      <4>1. PICK x \in readyToAuction : e \in Slots(x)
        BY DEF OpenSlots, Slots
      <4>2. e[1] = x.id /\ e[1] = nextID
        BY <3>1, <4>1 DEF Slots, Shifts
      <4>3. x.id < nextID /\ nextID \in Nat
        BY DEF MessagesInv, Inv, BrokerTypeOK
      <4> QED
        BY <4>2, <4>3, SMT
    <3> QED
      BY <3>1
  <2> HIDE DEF S, X, Y
  <2>7. /\ IsFiniteSet(S)
        /\ Cardinality(S) \in Nat
    BY FS_CardinalityType DEF S
  <2>8. S \intersect X = X
    BY <2>5
  <2>9. /\ IsFiniteSet(S \ X)
        /\ Cardinality(S \ X) = Cardinality(S) - i
    BY <2>3, <2>7, <2>8, FS_Difference, ZenonT(60)
  <2>10. i <= Cardinality(S)
    BY <2>3, <2>5, <2>7, FS_Subset
  <2>11. /\ IsFiniteSet((S \ X) \union Y)
         /\ Cardinality((S \ X) \union Y) = Cardinality(S \ X) + j - Cardinality({})
    BY <2>4, <2>6, <2>9, FS_Union, SMT
  <2>12. Cardinality({}) = 0
    BY FS_EmptySet
  <2> QED
    BY <2>2, <2>3, <2>4, <2>7, <2>9, <2>10, <2>11, <2>12, SMT DEF S

\* A batch whose auctions and their results stay the same keeps its slots.
<1>SlotsKept.
    ASSUME NEW b, readyToAuction \subseteq readyToAuction',
           \A x \in readyToAuction' : x.batch = b => x \in readyToAuction,
           \A x \in readyToAuction : x.batch = b => (Open(x)' <=> Open(x))
    PROVE  OpenSlots(b)' = OpenSlots(b)
  <2> USE <1>SlotsKept
  <2>1. {x \in readyToAuction' : x.batch = b /\ <<x.id, 1>> \notin db'.operations}
          = {x \in readyToAuction : x.batch = b /\ <<x.id, 1>> \notin db.operations}
    BY DEF Open
  <2> QED
    BY <2>1 DEF OpenSlots

\* The result of auction a closes a and no other.
<1>OpenAfterClosing.
    ASSUME MessagesInv, NEW a \in readyToAuction,
           db'.operations = db.operations \union {<<a.id, 1>>}
    PROVE  \A x \in readyToAuction : Open(x)' <=> Open(x) /\ x # a
  BY <1>OpenAfterClosing DEF MessagesInv, Open

\* A new auction is open.
<1>OpenWhenNew.
    ASSUME nextID \in Nat, NEW n, n.id = nextID,
           \A op \in db'.operations : op[1] < nextID
    PROVE  Open(n)'
  BY <1>OpenWhenNew, SMT DEF Open

\* Ids stay unique when a handler publishes at most one auction and one deal set.
<1>MessagesNext.
    ASSUME Inv, MessagesInv, NEW B, NEW A, NEW C, Publish(B, A, C),
           \A m, n \in A : m = n,
           \A m \in A : /\ m.id = nextID
                        /\ m.rep # 0
                        /\ db'.batches[m.batch].status \notin {"none", "preparing"},
           \A c, e \in C : c = e,
           \A c \in C : c.id = nextID,
           \A b \in Batches : db.batches[b].status \notin {"none", "preparing"} =>
               db'.batches[b].status \notin {"none", "preparing"}
    PROVE  MessagesInv' /\ nextID <= nextID'
  <2> USE <1>MessagesNext
  <2>1. /\ readyToAuction' = readyToAuction \union A
        /\ readyToCreateDeals' = readyToCreateDeals \union C
        /\ nextID \in Nat
        /\ nextID' = IF B \union A \union C = {} THEN nextID ELSE nextID + 1
        /\ \A m \in readyToAuction : m.id \in Nat /\ m.batch \in Batches
        /\ \A c \in readyToCreateDeals : c.id \in Nat
    BY DEF Publish, Inv, BrokerTypeOK, ReadyToAuctionMsg, ReadyToCreateDealsMsg
  <2>2. A # {} \/ C # {} => nextID' = nextID + 1
    BY <2>1
  <2>3. nextID <= nextID'
    BY <2>1, SMT
  <2>4. ASSUME NEW m \in readyToAuction'
        PROVE  /\ m.id < nextID'
               /\ m.rep # 0
               /\ db'.batches[m.batch].status \notin {"none", "preparing"}
    BY <2>1, <2>2, <2>3, SMT DEF MessagesInv
  <2>5. ASSUME NEW c \in readyToCreateDeals'
        PROVE  c.id < nextID'
    BY <2>1, <2>2, <2>3, SMT DEF MessagesInv
  <2>6. ASSUME NEW m \in readyToAuction', NEW n \in readyToAuction', m.id = n.id
        PROVE  m = n
    BY <2>1, <2>6, SMT DEF MessagesInv
  <2>7. ASSUME NEW c \in readyToCreateDeals', NEW e \in readyToCreateDeals', c.id = e.id
        PROVE  c = e
    BY <2>1, <2>7, SMT DEF MessagesInv
  <2> QED
    BY <2>3, <2>4, <2>5, <2>6, <2>7 DEF MessagesInv

\* What a result is of, once a handler recorded at most the operation of one.
<1>ResultsNext.
    ASSUME Inv, MessagesInv, ResultsInv,
           UNCHANGED <<auctionClosed, finalizedDeal>>,
           readyToAuction \subseteq readyToAuction',
           readyToCreateDeals \subseteq readyToCreateDeals',
           nextID' \in Nat, nextID <= nextID',
           \A op \in db'.operations : \/ op \in db.operations
                                      \/ \E c \in auctionClosed : op = c.op
                                      \/ \E f \in finalizedDeal : op = f.op
    PROVE  ResultsInv' /\ \A op \in db'.operations : op[1] < nextID
  <2> USE <1>ResultsNext
  <2>1. \A m \in readyToAuction \union readyToCreateDeals : m.id < nextID
    BY DEF MessagesInv
  <2>2. /\ nextID \in Nat
        /\ \A m \in readyToAuction \union readyToCreateDeals : m.id \in Nat
        /\ db.operations \subseteq AuctionOp \union DealOp
    BY DEF Inv, BrokerTypeOK, ReadyToAuctionMsg, ReadyToCreateDealsMsg, DBType
  <2>3. ASSUME NEW c \in auctionClosed PROVE c.op[1] < nextID /\ c.op[1] \in Nat
    <3>1. PICK m \in readyToAuction : c.op = <<m.id, 1>>
      BY DEF ResultsInv
    <3> QED
      BY <2>1, <2>2, <3>1, SMT
  <2>4. ASSUME NEW f \in finalizedDeal PROVE f.op[1] < nextID /\ f.op[1] \in Nat
    <3>1. PICK c \in readyToCreateDeals : f.op = <<c.id, f.sp, 1>>
      BY DEF ResultsInv
    <3> QED
      BY <2>1, <2>2, <3>1, SMT
  <2>5. ASSUME NEW op \in db'.operations PROVE op[1] < nextID /\ op[1] \in Nat
    <3>1. CASE op \in db.operations
      BY <2>2, <3>1 DEF ResultsInv, AuctionOp, DealOp
    <3> QED
      BY <2>3, <2>4, <3>1
  <2>6. \A op \in db'.operations : op[1] < nextID'
    BY <2>2, <2>5, SMT
  <2>7. \A c \in auctionClosed' : \E m \in readyToAuction' :
            /\ c.op = <<m.id, 1>>
            /\ c.batch = m.batch
            /\ c.ok => /\ Cardinality(c.winners) = m.rep
                       /\ c.winners \intersect m.excluded = {}
    BY DEF ResultsInv
  <2>8. \A f \in finalizedDeal' : \E c \in readyToCreateDeals' :
            /\ f.op = <<c.id, f.sp, 1>>
            /\ f.batch = c.batch
            /\ f.sp \in c.sps
    BY DEF ResultsInv
  <2> QED
    BY <2>5, <2>6, <2>7, <2>8 DEF ResultsInv

\* A step that touches no deal.
<1>DealsKept.
    ASSUME DealsInv, db'.deals = db.deals, db.operations \subseteq db'.operations,
           readyToCreateDeals' = readyToCreateDeals
    PROVE  DealsInv'
  BY <1>DealsKept, SMT DEF DealsInv

\* A step that gives no new provider to a batch with open auctions.
<1>TargetedKept.
    ASSUME TargetedInv, TargetedOnce', NEW A, readyToAuction' = readyToAuction \union A,
           \A x \in A : \/ db'.batches[x.batch].providers = {}
                        \/ ~Live(db', x.batch)
                        \/ \A r \in db'.deals : r.batch = x.batch => r.sp \in x.excluded,
           \A x \in readyToAuction :
              Open(x)' /\ Live(db', x.batch) /\ db'.batches[x.batch].providers # {} =>
                 /\ Open(x)
                 /\ Live(db, x.batch)
                 /\ db.batches[x.batch].providers # {}
                 /\ \A r \in db'.deals : r.batch = x.batch =>
                       \E q \in db.deals : q.batch = x.batch /\ q.sp = r.sp
    PROVE  TargetedInv'
  <2> USE <1>TargetedKept
  <2>1. ASSUME NEW x \in readyToAuction', Open(x)', Live(db', x.batch),
               db'.batches[x.batch].providers # {},
               NEW r \in db'.deals, r.batch = x.batch
        PROVE  r.sp \in x.excluded
    <3>1. CASE x \in A
      BY <2>1, <3>1
    <3>2. CASE x \in readyToAuction
      BY <2>1, <3>2 DEF TargetedInv
    <3> QED
      BY <3>1, <3>2
  <2> QED
    BY <2>1 DEF TargetedInv

\* A batch the step is not about.
<1>CountedKept.
    ASSUME NEW b, Counted(b), db'.batches[b] = db.batches[b],
           OpenSlots(b)' = OpenSlots(b), LiveDeals(b)' = LiveDeals(b)
    PROVE  Counted(b)'
  BY <1>CountedKept DEF Counted, Live

\* Steps that leave all but the results alone.
<1>SlotQuiet.
    ASSUME SlotInv, TargetedOnce', db'.batches = db.batches, db'.deals = db.deals,
           db'.operations = db.operations, readyToAuction' = readyToAuction,
           readyToCreateDeals' = readyToCreateDeals, nextID \in Nat, nextID' \in Nat,
           nextID <= nextID', Inv
    PROVE  MessagesInv' /\ DealsInv' /\ TargetedInv' /\ CountInv'
  <2> USE <1>SlotQuiet
  <2>1. MessagesInv'
    <3>1. \A m \in readyToAuction \union readyToCreateDeals : m.id \in Nat
      BY DEF Inv, BrokerTypeOK, ReadyToAuctionMsg, ReadyToCreateDealsMsg
    <3> QED
      BY <3>1, SMT DEF SlotInv, MessagesInv
  <2>2. DealsInv'
    BY <1>DealsKept DEF SlotInv
  <2>3. TargetedInv'
    BY DEF SlotInv, TargetedInv, Open, Live
  <2>4. \A b \in Batches : OpenSlots(b)' = OpenSlots(b) /\ LiveDeals(b)' = LiveDeals(b)
    BY DEF OpenSlots, LiveDeals, GetDeals
  <2>5. CountInv'
    BY <2>4, <1>CountedKept DEF SlotInv, CountInv
  <2> QED
    BY <2>1, <2>2, <2>3, <2>5

\* auctioneerd closes an auction: with the winners asked for, or without success.
<1>CloseAuctionSlots.
    ASSUME MaxReports = 1, Inv, Inv', SlotInv, TargetedOnce', NEW m \in readyToAuction,
           NEW ok \in BOOLEAN, NEW winners \in SUBSET Providers,
           CloseAuction(m, ok, winners)
    PROVE  SlotInv'
  <2> USE <1>CloseAuctionSlots
  <2> DEFINE n == Cardinality(Closings(m.id))
             c == [op |-> <<m.id, n + 1>>, batch |-> m.batch, ok |-> ok,
                   winners |-> winners]
  <2>1. n = 0
    <3>1. IsFiniteSet(Closings(m.id))
      BY FS_Subset DEF Inv, Closings
    <3>2. n \in Nat
      BY <3>1, FS_CardinalityType
    <3>3. n < 1
      BY DEF CloseAuction
    <3> QED
      BY <3>2, <3>3, SMT
  <2>2. /\ auctionClosed' = auctionClosed \union {c}
        /\ UNCHANGED <<db, nextID, readyToAuction, readyToCreateDeals, finalizedDeal>>
        /\ nextID \in Nat
    BY DEF CloseAuction, brokerVars, Inv, BrokerTypeOK
  <2>3. MessagesInv' /\ DealsInv' /\ TargetedInv' /\ CountInv'
    BY <2>2, <1>SlotQuiet, SMT
  <2>4. ok => Cardinality(winners) = m.rep /\ winners \intersect m.excluded = {}
    BY DEF CloseAuction, PossibleWinners
  <2>5. /\ c.op = <<m.id, 1>>
        /\ c.batch = m.batch
        /\ c.ok => Cardinality(c.winners) = m.rep /\ c.winners \intersect m.excluded = {}
    BY <2>1, <2>4, SMT
  <2> HIDE DEF c
  <2>6. ResultsInv'
    BY <2>2, <2>5 DEF SlotInv, ResultsInv
  <2> QED
    BY <2>3, <2>6 DEF SlotInv

\* dealerd reports the outcome of a deal.
<1>FinalizeDealSlots.
    ASSUME MaxReports = 1, Inv, Inv', SlotInv, TargetedOnce',
           NEW m \in readyToCreateDeals, NEW sp \in m.sps,
           NEW outcome \in {"confirmed", "failed", "rejected"},
           FinalizeDeal(m, sp, outcome)
    PROVE  SlotInv'
  <2> USE <1>FinalizeDealSlots
  <2> DEFINE n == Cardinality(Reports(m.id, sp))
             f == [op |-> <<m.id, sp, n + 1>>, batch |-> m.batch, sp |-> sp,
                   outcome |-> outcome]
  <2>1. n = 0
    <3>1. IsFiniteSet(Reports(m.id, sp))
      BY FS_Subset DEF Inv, Reports
    <3>2. n \in Nat
      BY <3>1, FS_CardinalityType
    <3>3. n < 1
      BY DEF FinalizeDeal
    <3> QED
      BY <3>2, <3>3, SMT
  <2>2. /\ finalizedDeal' = finalizedDeal \union {f}
        /\ UNCHANGED <<db, nextID, readyToAuction, readyToCreateDeals, auctionClosed>>
        /\ nextID \in Nat
    BY DEF FinalizeDeal, brokerVars, Inv, BrokerTypeOK
  <2>3. MessagesInv' /\ DealsInv' /\ TargetedInv' /\ CountInv'
    BY <2>2, <1>SlotQuiet, SMT
  <2>4. /\ f.op = <<m.id, f.sp, 1>>
        /\ f.batch = m.batch
        /\ f.sp \in m.sps
    BY <2>1, SMT
  <2> HIDE DEF f
  <2>5. ResultsInv'
    BY <2>2, <2>4 DEF SlotInv, ResultsInv
  <2> QED
    BY <2>3, <2>5 DEF SlotInv

\* A batch that had no piece is auctioned.
<1>FirstAuction.
    ASSUME Inv, Inv', SlotInv, TargetedOnce', UNCHANGED <<auctionClosed, finalizedDeal>>,
           NEW b \in Batches, db.batches[b].status \in {"none", "preparing"},
           db'.batches[b].status = "auctioning",
           \A x \in Batches : x # b => db'.batches[x] = db.batches[x],
           db'.deals = db.deals, db'.operations = db.operations,
           NEW n, Publish({}, {n}, {}), n.id = nextID, n.batch = b,
           n.rep = db'.batches[b].rep, n.rep # 0
    PROVE  SlotInv'
  <2> USE <1>FirstAuction
  <2>1. /\ readyToAuction' = readyToAuction \union {n}
        /\ readyToCreateDeals' = readyToCreateDeals
        /\ nextID \in Nat /\ nextID' \in Nat
    BY DEF Publish, Inv, BrokerTypeOK
  <2>2. MessagesInv' /\ nextID <= nextID'
    <3> DEFINE A == {n}
    <3>1. \A m \in A : /\ m.id = nextID
                       /\ m.rep # 0
                       /\ db'.batches[m.batch].status \notin {"none", "preparing"}
      OBVIOUS
    <3>2. \A x \in Batches : db.batches[x].status \notin {"none", "preparing"} =>
                 db'.batches[x].status \notin {"none", "preparing"}
      OBVIOUS
    <3>3. \A m, k \in A : m = k
      OBVIOUS
    <3>4. Publish({}, A, {}) /\ MessagesInv
      BY DEF SlotInv
    <3> HIDE DEF A
    <3> QED
      BY <3>1, <3>2, <3>3, <3>4, <1>MessagesNext, SMT
  <2>3. ResultsInv' /\ \A op \in db'.operations : op[1] < nextID
    BY <2>1, <2>2, <1>ResultsNext DEF SlotInv
  <2>4. DealsInv'
    BY <2>1, <1>DealsKept DEF SlotInv
  <2>5. \A r \in db.deals : r.batch # b
    BY DEF Inv, DBInv, DealsAfterPiece
  <2>6. \A m \in readyToAuction : m.batch # b /\ m.batch \in Batches
    BY DEF SlotInv, MessagesInv, Inv, BrokerTypeOK, ReadyToAuctionMsg
  <2>7. TargetedInv'
    <3> DEFINE A == {n}
    <3>1. \A x \in A : \/ db'.batches[x.batch].providers = {}
                       \/ ~Live(db', x.batch)
                       \/ \A r \in db'.deals : r.batch = x.batch => r.sp \in x.excluded
      BY <2>5
    <3>2. \A x \in readyToAuction :
                Open(x)' /\ Live(db', x.batch) /\ db'.batches[x.batch].providers # {} =>
                   /\ Open(x)
                   /\ Live(db, x.batch)
                   /\ db.batches[x.batch].providers # {}
                   /\ \A r \in db'.deals : r.batch = x.batch =>
                         \E q \in db.deals : q.batch = x.batch /\ q.sp = r.sp
      BY <2>6 DEF Open, Live
    <3>3. TargetedInv /\ readyToAuction' = readyToAuction \union A
      BY <2>1 DEF SlotInv
    <3> HIDE DEF A
    <3> QED
      BY <3>1, <3>2, <3>3, <1>TargetedKept
  <2>8. ASSUME NEW x \in Batches, x # b
        PROVE  Counted(x)'
    <3>1. OpenSlots(x)' = OpenSlots(x)
      BY <2>1, <2>8, <1>SlotsKept DEF Open
    <3>2. LiveDeals(x)' = LiveDeals(x)
      BY DEF LiveDeals, GetDeals
    <3> QED
      BY <2>8, <3>1, <3>2, <1>CountedKept DEF SlotInv, CountInv
  <2>9. Counted(b)'
    <3>1. OpenSlots(b) = {}
      BY <2>6 DEF OpenSlots
    <3>2. LiveDeals(b)' = {}
      BY <2>5 DEF LiveDeals, GetDeals
    <3>3. IsFiniteSet(OpenSlots(b)) /\ Cardinality(OpenSlots(b)) = 0
      BY <3>1, FS_EmptySet
    <3>4. Open(n)'
      BY <2>1, <2>3, <1>OpenWhenNew
    <3>5. /\ IsFiniteSet(OpenSlots(b)')
          /\ Cardinality(OpenSlots(b)') = Cardinality(OpenSlots(b)) - 0 + n.rep
          /\ n.rep \in Nat
      <4>1. Shifts(b, {}, {n})
        BY <2>1, <2>6, <3>4 DEF Shifts
      <4>2. Asks({}, 0) /\ Asks({n}, n.rep)
        BY DEF Asks
      <4> QED
        BY <3>3, <4>1, <4>2, <1>SlotsCounted, SMT DEF SlotInv
    <3>6. Cardinality(LiveDeals(b)') = 0 /\ IsFiniteSet(LiveDeals(b)')
      BY <3>2, FS_EmptySet
    <3> QED
      BY <3>3, <3>5, <3>6, SMT DEF Counted, Live
  <2> QED
    BY <2>2, <2>3, <2>4, <2>7, <2>8, <2>9 DEF SlotInv, CountInv

\* A prepared batch is opened.
<1>OpenedPreparedSlots.
    ASSUME Inv, Inv', SlotInv, TargetedOnce', UNCHANGED others,
           NEW s \in StorageRequests, NEW b \in Batches, NEW in \in PreparedInputs,
           OpenedPrepared(s, b, in)
    PROVE  SlotInv'
  <2> USE <1>OpenedPreparedSlots
  <2>1. PICK row, excluded :
            /\ row.status = "auctioning"
            /\ Opened(b, row, {s})
            /\ Publish({}, {[id |-> nextID, batch |-> b, rep |-> row.rep,
                             excluded |-> excluded, providers |-> row.providers]}, {})
    BY DEF OpenedPrepared
  <2>2. /\ db.batches[b].status = "none"
        /\ db'.batches[b] = row
        /\ \A x \in Batches : x # b => db'.batches[x] = db.batches[x]
    BY <2>1, OpenedRows
  <2>3. row.rep # 0 /\ db'.deals = db.deals /\ db'.operations = db.operations
    BY <2>1 DEF Opened
  <2> DEFINE n == [id |-> nextID, batch |-> b, rep |-> row.rep,
                   excluded |-> excluded, providers |-> row.providers]
  <2>4. n.id = nextID /\ n.batch = b /\ n.rep = row.rep /\ Publish({}, {n}, {})
    BY <2>1
  <2>5. UNCHANGED <<auctionClosed, finalizedDeal>>
    BY DEF others
  <2> HIDE DEF n
  <2> QED
    BY <2>1, <2>2, <2>3, <2>4, <2>5, <1>FirstAuction

\* A batch of packerd is opened: it has no auction and no deal yet.
<1>OpenedPackedSlots.
    ASSUME Inv, Inv', SlotInv, TargetedOnce', UNCHANGED others,
           NEW m \in newBatchCreated, OpenedPacked(m)
    PROVE  SlotInv'
  <2> USE <1>OpenedPackedSlots
  <2>1. PICK row : /\ row.status = "preparing"
                   /\ Opened(m.batch, row, {e[2] : e \in m.entries})
                   /\ Publish({}, {}, {})
    BY DEF OpenedPacked
  <2>2. m.batch \in Batches
    BY DEF Inv, BrokerTypeOK, NewBatchCreatedMsg
  <2>3. /\ db.batches[m.batch].status = "none"
        /\ db'.batches[m.batch] = row
        /\ \A x \in Batches : x # m.batch => db'.batches[x] = db.batches[x]
    BY <2>1, <2>2, OpenedRows
  <2>4. row.rep # 0 /\ db'.deals = db.deals /\ db'.operations = db.operations
    BY <2>1 DEF Opened
  <2>5. /\ UNCHANGED <<auctionClosed, finalizedDeal, readyToAuction, readyToCreateDeals>>
        /\ nextID' = nextID /\ nextID \in Nat
    BY <2>1 DEF others, Publish, Inv, BrokerTypeOK
  <2>6. \A x \in readyToAuction : x.batch # m.batch /\ x.batch \in Batches
    BY <2>3, ZenonT(60) DEF SlotInv, MessagesInv, Inv, BrokerTypeOK, ReadyToAuctionMsg
  <2>7. MessagesInv'
    BY <2>3, <2>5, <2>6 DEF SlotInv, MessagesInv
  <2>8. ResultsInv'
    BY <2>4, <2>5 DEF SlotInv, ResultsInv
  <2>9. DealsInv'
    BY <2>4, <2>5, <1>DealsKept DEF SlotInv
  <2>10. TargetedInv'
    BY <2>3, <2>4, <2>5, <2>6 DEF SlotInv, TargetedInv, Open, Live
  <2>11. \A x \in Batches : OpenSlots(x)' = OpenSlots(x) /\ LiveDeals(x)' = LiveDeals(x)
    BY <2>4, <2>5 DEF OpenSlots, LiveDeals, GetDeals
  <2>12. ASSUME NEW x \in Batches PROVE Counted(x)'
    <3>1. CASE x = m.batch
      BY <2>1, <2>3, <2>4, <2>11, <3>1 DEF SlotInv, CountInv, Counted, Live
    <3>2. CASE x # m.batch
      BY <2>3, <2>11, <3>2, <1>CountedKept DEF SlotInv, CountInv
    <3> QED
      BY <3>1, <3>2
  <2> QED
    BY <2>7, <2>8, <2>9, <2>10, <2>12 DEF SlotInv, CountInv

\* A batch of packerd gets its piece and its first auction.
<1>AuctionedSlots.
    ASSUME Inv, Inv', SlotInv, TargetedOnce', UNCHANGED others,
           NEW m \in newBatchPrepared, Auctioned(m)
    PROVE  SlotInv'
  <2> USE <1>AuctionedSlots
  <2>1. /\ m.batch \in Batches
        /\ db'.batches[m.batch].status = "auctioning"
        /\ db'.batches[m.batch].rep = db.batches[m.batch].rep
        /\ \A x \in Batches : x # m.batch => db'.batches[x] = db.batches[x]
    BY AuctionedRows
  <2>2. /\ db.batches[m.batch].status = "preparing"
        /\ db'.deals = db.deals
        /\ db'.operations = db.operations
    BY DEF Auctioned
  <2>3. PICK excluded :
           Publish({}, {AuctionMsg(m.batch, db.batches[m.batch].rep, excluded)}, {})
    BY DEF Auctioned
  <2> DEFINE n == AuctionMsg(m.batch, db.batches[m.batch].rep, excluded)
  <2>4. /\ n.id = nextID /\ n.batch = m.batch
        /\ n.rep = db.batches[m.batch].rep /\ Publish({}, {n}, {})
    BY <2>3 DEF AuctionMsg
  <2>5. db.batches[m.batch].rep # 0
    BY <2>1, <2>2 DEF SlotInv, CountInv, Counted
  <2>6. UNCHANGED <<auctionClosed, finalizedDeal>>
    BY DEF others
  <2> HIDE DEF n
  <2> QED
    BY <2>1, <2>2, <2>4, <2>5, <2>6, <1>FirstAuction, ZenonT(60)

\* The auction a result is of.
<1>ClosedAuction.
    ASSUME Inv, SlotInv, NEW c \in auctionClosed, c.op \notin db.operations
    PROVE  \E a \in readyToAuction :
              /\ c.op = <<a.id, 1>> /\ c.batch = a.batch /\ Open(a)
              /\ c.ok => /\ Cardinality(c.winners) = a.rep
                         /\ c.winners \intersect a.excluded = {}
              /\ a.rep \in Nat /\ a.rep # 0
  BY <1>ClosedAuction DEF SlotInv, ResultsInv, MessagesInv, Open, Inv, BrokerTypeOK,
                          ReadyToAuctionMsg

\* The result of an auction that makes no deal: the batch is over, or it is now.
<1>NoDealSlots.
    ASSUME Inv, Inv', SlotInv, TargetedOnce', UNCHANGED others,
           NEW c \in auctionClosed, c.op \notin db.operations,
           db'.deals = db.deals, db'.operations = db.operations \union {c.op},
           NEW B, Publish(B, {}, {}),
           \/ /\ db.batches[c.batch].status \in {"success", "error"}
              /\ db'.batches = db.batches
           \/ /\ Live(db, c.batch)
              /\ db'.batches = [db.batches EXCEPT ![c.batch].status = "error"]
    PROVE  SlotInv'
  <2> USE <1>NoDealSlots
  <2>1. PICK a \in readyToAuction :
           c.op = <<a.id, 1>> /\ c.batch = a.batch /\ Open(a) /\ a.rep \in Nat /\ a.rep # 0
    BY <1>ClosedAuction
  <2>2. c.batch \in Batches /\ nextID \in Nat /\ nextID' \in Nat
    BY DEF Inv, BrokerTypeOK, AuctionClosedMsg
  <2>3. /\ db'.batches[c.batch].status \in {"success", "error"}
        /\ db'.batches[c.batch].rep = db.batches[c.batch].rep
        /\ \A x \in Batches : x # c.batch => db'.batches[x] = db.batches[x]
    <3>1. CASE db'.batches = [db.batches EXCEPT ![c.batch].status = "error"]
      <4>1. /\ db'.batches[c.batch].status = "error"
            /\ \A x \in Batches :
                  /\ x # c.batch => db'.batches[x] = db.batches[x]
                  /\ db'.batches[x].rep = db.batches[x].rep
                  /\ db'.batches[x].piece = db.batches[x].piece
                  /\ db'.batches[x].disallow = db.batches[x].disallow
                  /\ db'.batches[x].providers = db.batches[x].providers
                  /\ db'.batches[x].carURL = db.batches[x].carURL
        BY <2>2, <3>1, BatchRowsMove
      <4> QED
        BY <2>2, <4>1
    <3> QED
      BY <3>1
  <2>4. readyToAuction' = readyToAuction /\ readyToCreateDeals' = readyToCreateDeals
    BY DEF Publish
  <2>5. UNCHANGED <<auctionClosed, finalizedDeal>>
    BY DEF others
  <2>6. MessagesInv' /\ nextID <= nextID'
    BY <2>3, <1>MessagesNext, SMT DEF SlotInv
  <2>7. ResultsInv' /\ \A op \in db'.operations : op[1] < nextID
    BY <2>2, <2>4, <2>5, <2>6, <1>ResultsNext DEF SlotInv
  <2>8. DealsInv'
    BY <2>4, <1>DealsKept DEF SlotInv
  <2>9. \A x \in readyToAuction : Open(x)' <=> Open(x) /\ x # a
    BY <2>1, <1>OpenAfterClosing DEF SlotInv
  <2>10. \A x \in readyToAuction : x.batch \in Batches
    BY DEF Inv, BrokerTypeOK, ReadyToAuctionMsg
  <2>11. TargetedInv'
    <3>1. ASSUME NEW x \in readyToAuction', Live(db', x.batch)
          PROVE  x.batch # c.batch
      BY <2>3, <3>1 DEF Live
    <3> QED
      BY <2>3, <2>4, <2>9, <2>10, <3>1 DEF SlotInv, TargetedInv, Live
  <2>12. \A x \in Batches : LiveDeals(x)' = LiveDeals(x)
    BY DEF LiveDeals, GetDeals
  <2>13. ASSUME NEW x \in Batches, x # c.batch PROVE Counted(x)'
    <3>1. OpenSlots(x)' = OpenSlots(x)
      BY <2>1, <2>4, <2>9, <2>13, <1>SlotsKept
    <3> QED
      BY <2>3, <2>12, <2>13, <3>1, <1>CountedKept DEF SlotInv, CountInv
  <2>14. Counted(c.batch)'
    <3>1. Counted(c.batch)
      BY <2>2 DEF SlotInv, CountInv
    <3>2. Shifts(c.batch, {a}, {})
      BY <2>1, <2>4, <2>9 DEF Shifts
    <3>3. Asks({a}, a.rep) /\ Asks({}, 0)
      BY DEF Asks
    <3>4. /\ IsFiniteSet(OpenSlots(c.batch)')
          /\ Cardinality(OpenSlots(c.batch)) \in Nat
          /\ a.rep <= Cardinality(OpenSlots(c.batch))
      BY <3>1, <3>2, <3>3, <1>SlotsCounted DEF SlotInv, Counted
    <3>5. /\ IsFiniteSet(LiveDeals(c.batch))
          /\ Cardinality(LiveDeals(c.batch)) \in Nat
      BY <3>1, FS_CardinalityType DEF Counted
    <3>6. db'.batches[c.batch].status = "error" =>
             Cardinality(LiveDeals(c.batch)) < db.batches[c.batch].rep
      <4>1. CASE Live(db, c.batch)
        <5>1. Cardinality(OpenSlots(c.batch)) + Cardinality(LiveDeals(c.batch))
                = db.batches[c.batch].rep
          BY <3>1, <4>1 DEF Counted
        <5> QED
          BY <2>1, <3>4, <3>5, <5>1, SMT
      <4>2. CASE db'.batches = db.batches
        BY <3>1, <4>2 DEF Counted
      <4> QED
        BY <4>1, <4>2
    <3>7. db.batches[c.batch].status # "none"
      BY DEF Live
    <3>8. db'.batches[c.batch].rep # 0
      BY <2>3, <3>1, <3>7 DEF Counted
    <3>9. ~Live(db', c.batch)
      BY <2>3 DEF Live
    <3>10. LiveDeals(c.batch)' = LiveDeals(c.batch)
      BY <2>2, <2>12
    <3> QED
      BY <2>3, <3>4, <3>5, <3>6, <3>8, <3>9, <3>10 DEF Counted
  <2> QED
    BY <2>6, <2>7, <2>8, <2>11, <2>13, <2>14 DEF SlotInv, CountInv

\* A set of at most one element.
<1>AtMostOne.
    ASSUME NEW S, IsFiniteSet(S), Cardinality(S) <= 1, NEW x \in S, NEW y \in S
    PROVE  x = y
  <2> USE <1>AtMostOne
  <2>1. Cardinality(S) \in Nat
    BY FS_CardinalityType
  <2>2. Cardinality(S) # 0
    BY FS_EmptySet
  <2>3. Cardinality(S) = 1
    BY <2>1, <2>2, SMT
  <2> QED
    BY <2>3, FS_Singleton, SMT

\* A batch with one slot has one open auction or one live deal.
<1>OneSlot.
    ASSUME Inv, SlotInv, NEW b \in Batches, Live(db, b), db.batches[b].rep = 1
    PROVE  /\ \A x, y \in readyToAuction :
                 x.batch = b /\ Open(x) /\ y.batch = b /\ Open(y) => x = y
           /\ LiveDeals(b) # {} =>
                 \A x \in readyToAuction : x.batch = b => ~Open(x)
  <2> USE <1>OneSlot
  <2>1. /\ IsFiniteSet(OpenSlots(b)) /\ IsFiniteSet(LiveDeals(b))
        /\ Cardinality(OpenSlots(b)) + Cardinality(LiveDeals(b)) = 1
    BY DEF SlotInv, CountInv, Counted
  <2>2. Cardinality(OpenSlots(b)) \in Nat /\ Cardinality(LiveDeals(b)) \in Nat
    BY <2>1, FS_CardinalityType
  <2>3. ASSUME NEW x \in readyToAuction, x.batch = b, Open(x)
        PROVE  <<x.id, 1>> \in OpenSlots(b)
    <3>1. x.rep \in Nat /\ x.rep # 0
      BY DEF SlotInv, MessagesInv, Inv, BrokerTypeOK, ReadyToAuctionMsg
    <3>2. <<x.id, 1>> \in {x.id} \X (1..x.rep)
      BY <3>1, SMT
    <3> QED
      BY <2>3, <3>2 DEF OpenSlots, Open
  <2>4. ASSUME NEW x \in readyToAuction, NEW y \in readyToAuction,
               x.batch = b, Open(x), y.batch = b, Open(y)
        PROVE  x = y
    <3>1. <<x.id, 1>> \in OpenSlots(b) /\ <<y.id, 1>> \in OpenSlots(b)
      BY <2>3, <2>4
    <3>2. Cardinality(OpenSlots(b)) <= 1
      BY <2>1, <2>2, SMT
    <3>3. <<x.id, 1>> = <<y.id, 1>>
      BY <2>1, <3>1, <3>2, <1>AtMostOne, ZenonT(60)
    <3> QED
      BY <3>3 DEF SlotInv, MessagesInv
  <2>5. ASSUME LiveDeals(b) # {}, NEW x \in readyToAuction, x.batch = b, Open(x)
        PROVE  FALSE
    <3>1. OpenSlots(b) # {}
      BY <2>3, <2>5
    <3> QED
      BY <2>1, <2>2, <2>5, <3>1, FS_EmptySet, SMT
  <2> QED
    BY <2>4, <2>5

\* The accepted winners have no row in the batch: history excludes the others of
\* an open auction, the auction itself excluded them from a targeted one.
<1>AcceptedAreNew.
    ASSUME Inv, SlotInv, NEW c \in auctionClosed, NEW a \in readyToAuction, Open(a),
           c.batch = a.batch, c.winners \intersect a.excluded = {}, Live(db, c.batch)
    PROVE  \A p \in AcceptedWinners(db, c.batch, c.winners) :
              \A r \in db.deals : r.batch = c.batch => r.sp # p
  <2> USE <1>AcceptedAreNew
  <2>1. CASE db.batches[c.batch].providers = {}
    <3>1. AcceptedWinners(db, c.batch, c.winners) = c.winners \
             GetExcludedStorageProviders(db, db.batches[c.batch].piece)
      BY <2>1 DEF AcceptedWinners
    <3>2. \A r \in db.deals : r.batch = c.batch =>
             r.sp \in GetExcludedStorageProviders(db, db.batches[c.batch].piece)
      BY DEF GetExcludedStorageProviders
    <3> QED
      BY <3>1, <3>2
  <2>2. CASE db.batches[c.batch].providers # {}
    <3>1. \A r \in db.deals : r.batch = c.batch => r.sp \in a.excluded
      BY <2>2 DEF SlotInv, TargetedInv
    <3>2. AcceptedWinners(db, c.batch, c.winners) = c.winners
      BY <2>2 DEF AcceptedWinners
    <3> QED
      BY <3>1, <3>2
  <2> QED
    BY <2>1, <2>2

\* New rows are one per provider.
<1>NewRowsCardinality.
    ASSUME NEW b, NEW bid, NEW sps, IsFiniteSet(sps)
    PROVE  /\ IsFiniteSet(NewRows(b, bid, sps))
           /\ Cardinality(NewRows(b, bid, sps)) = Cardinality(sps)
  <2> USE <1>NewRowsCardinality
  <2> DEFINE f == [p \in sps |-> [batch |-> b, bid |-> bid, sp |-> p, state |-> "pending"]]
             T == NewRows(b, bid, sps)
  <2>1. f \in Bijection(sps, T)
    <3>1. f \in [sps -> T]
      BY DEF NewRows
    <3>2. ASSUME NEW p \in sps, NEW q \in sps, f[p] = f[q] PROVE p = q
      BY <3>2
    <3>3. \A r \in T : \E p \in sps : f[p] = r
      BY DEF NewRows
    <3> HIDE DEF f, T
    <3> QED
      BY <3>1, <3>2, <3>3 DEF Bijection, Injection, IsInjective, Surjection
  <2> HIDE DEF f, T
  <2>2. ExistsBijection(sps, T)
    BY <2>1 DEF ExistsBijection
  <2> QED
    BY <2>2, FS_Bijection DEF T

\* The rows and the deal set of the accepted winners.
<1>WonDeals.
    ASSUME Inv, Inv', SlotInv, NEW c \in auctionClosed, Won(c),
           \A p \in AcceptedWinners(db, c.batch, c.winners) :
              \A r \in db.deals : r.batch = c.batch => r.sp # p
    PROVE  DealsInv'
  <2> USE <1>WonDeals
  <2> DEFINE accepted == AcceptedWinners(db, c.batch, c.winners)
             rows == NewRows(c.batch, c.op, accepted)
             create == [id |-> nextID, auction |-> c.op[1], batch |-> c.batch,
                        sps |-> accepted]
  <2>1. /\ db'.deals = db.deals \union rows
        /\ db.operations \subseteq db'.operations
        /\ \/ readyToCreateDeals' = readyToCreateDeals
           \/ readyToCreateDeals' = readyToCreateDeals \union {create}
    BY DEF Won, Publish
  <2>2. \A r \in rows : /\ r.batch = c.batch
                        /\ r.sp \in accepted
                        /\ r.state = "pending"
    BY SMT DEF NewRows
  <2>3. \A q, r \in rows : q.sp = r.sp => q = r
    BY SMT DEF NewRows
  <2>4. ASSUME NEW p \in accepted PROVE \E r \in rows : r.sp = p
    <3> DEFINE r == [batch |-> c.batch, bid |-> c.op, sp |-> p, state |-> "pending"]
    <3>1. r \in rows /\ r.sp = p
      BY DEF NewRows
    <3> QED
      BY <3>1
  <2>5. create.batch = c.batch /\ create.sps = accepted
    OBVIOUS
  <2> HIDE DEF accepted, rows, create
  <2>6. \A p \in accepted : \A r \in db.deals : r.batch = c.batch => r.sp # p
    BY DEF accepted
  <2>7. \A q, r \in db'.deals : q.batch = r.batch /\ q.sp = r.sp => q = r
    <3>1. \A q, r \in db.deals : q.batch = r.batch /\ q.sp = r.sp => q = r
      BY DEF SlotInv, DealsInv
    <3>2. ASSUME NEW q \in db.deals, NEW r \in rows, q.batch = r.batch, q.sp = r.sp
          PROVE  FALSE
      BY <2>2, <2>6, <3>2
    <3>3. ASSUME NEW q \in db'.deals, NEW r \in db'.deals, q.batch = r.batch, q.sp = r.sp
          PROVE  q = r
      BY <2>1, <2>3, <3>1, <3>2, <3>3
    <3> QED
      BY <3>3
  <2>8. ASSUME NEW e \in readyToCreateDeals, NEW p \in e.sps
        PROVE  \E r \in db.deals : /\ r.batch = e.batch
                                   /\ r.sp = p
                                   /\ <<e.id, p, 1>> \notin db.operations => r.state = "pending"
    BY SMT DEF SlotInv, DealsInv
  <2>9. ASSUME NEW e \in readyToCreateDeals, e.batch = c.batch, NEW p \in e.sps
        PROVE  p \notin accepted
    <3>1. PICK r \in db.deals : r.batch = e.batch /\ r.sp = p
      BY <2>8, ZenonT(60)
    <3> QED
      BY <2>6, <2>9, <3>1
  <2>10. ASSUME NEW e \in readyToCreateDeals', NEW g \in readyToCreateDeals',
                NEW p \in e.sps \intersect g.sps, e.batch = g.batch
         PROVE  e = g
    <3>1. e \in readyToCreateDeals \/ e = create
      BY <2>1
    <3>2. g \in readyToCreateDeals \/ g = create
      BY <2>1
    <3>3. CASE e \in readyToCreateDeals /\ g \in readyToCreateDeals
      BY <2>10, <3>3 DEF SlotInv, DealsInv
    <3> QED
      BY <2>5, <2>9, <2>10, <3>1, <3>2, <3>3
  <2>11. ASSUME NEW e \in readyToCreateDeals', NEW p \in e.sps
         PROVE  \E r \in db'.deals :
                   /\ r.batch = e.batch
                   /\ r.sp = p
                   /\ <<e.id, p, 1>> \notin db'.operations => r.state = "pending"
    <3>1. CASE e \in readyToCreateDeals
      BY <2>1, <2>8, <3>1, SMT
    <3>2. CASE e = create
      <4>1. PICK r \in rows : r.sp = p
        BY <2>4, <2>5, <3>2
      <4> QED
        BY <2>1, <2>2, <2>5, <3>2, <4>1
    <3> QED
      BY <2>1, <3>1, <3>2
  <2> QED
    BY <2>7, <2>10, <2>11 DEF DealsInv

\* An auction that was won: as many slots as the auction had become deals or go
\* to the next auction.
<1>WonSlots.
    ASSUME Inv, Inv', SlotInv, TargetedOnce', UNCHANGED others,
           NEW c \in auctionClosed, c.op \notin db.operations, Won(c)
    PROVE  SlotInv'
  <2> USE <1>WonSlots
  <2> DEFINE b == c.batch
             accepted == AcceptedWinners(db, b, c.winners)
             lost == c.winners \ accepted
             piece == db.batches[b].piece
             n == AuctionMsg(b, Cardinality(lost), GetExcludedStorageProviders(db', piece))
             A == IF lost = {} THEN {} ELSE {n}
             create == [id |-> nextID, auction |-> c.op[1], batch |-> b, sps |-> accepted]
             C == IF accepted = {} \/ ~db.batches[b].carURL THEN {} ELSE {create}
             rows == NewRows(b, c.op, accepted)
  <2>1. /\ c.ok
        /\ Live(db, b)
        /\ db'.batches = [db.batches EXCEPT ![b].status = "deal_making"]
        /\ db'.deals = db.deals \union rows
        /\ db'.operations = db.operations \union {c.op}
        /\ db.batches[b].providers # {} => lost = {}
        /\ Publish({}, A, C)
    BY DEF Won
  <2>2. /\ b \in Batches
        /\ c.winners \subseteq Providers
        /\ nextID \in Nat /\ nextID' \in Nat
    BY DEF Inv, BrokerTypeOK, AuctionClosedMsg
  <2>3. PICK a \in readyToAuction :
           /\ c.op = <<a.id, 1>> /\ b = a.batch /\ Open(a)
           /\ Cardinality(c.winners) = a.rep
           /\ c.winners \intersect a.excluded = {}
           /\ a.rep \in Nat /\ a.rep # 0
    BY <2>1, <1>ClosedAuction
  <2>4. \A p \in accepted : \A r \in db.deals : r.batch = b => r.sp # p
    BY <2>1, <2>3, <1>AcceptedAreNew
  <2>5. DealsInv'
    BY <2>4, <1>WonDeals
  <2>6. accepted \subseteq c.winners
    BY DEF AcceptedWinners
  <2>7. /\ IsFiniteSet(accepted) /\ IsFiniteSet(lost)
        /\ Cardinality(accepted) \in Nat /\ Cardinality(lost) \in Nat
        /\ Cardinality(accepted) + Cardinality(lost) = a.rep
        /\ lost # {} => Cardinality(lost) # 0
    <3>1. IsFiniteSet(c.winners)
      BY <2>2, FS_Subset, StoreAssumption
    <3>2. IsFiniteSet(accepted) /\ IsFiniteSet(lost)
      BY <2>6, <3>1, FS_Subset
    <3>3. accepted \union lost = c.winners /\ accepted \intersect lost = {}
      BY <2>6
    <3> HIDE DEF accepted, lost
    <3>4. Cardinality(accepted) \in Nat /\ Cardinality(lost) \in Nat
      BY <3>2, FS_CardinalityType
    <3>5. Cardinality(c.winners) = Cardinality(accepted) + Cardinality(lost) - Cardinality({})
      BY <3>2, <3>3, FS_Union, ZenonT(60)
    <3>6. Cardinality({}) = 0
      BY FS_EmptySet
    <3>7. lost # {} => Cardinality(lost) # 0
      BY <3>2, FS_EmptySet
    <3> QED
      BY <2>3, <3>2, <3>4, <3>5, <3>6, <3>7, SMT
  <2>8. n.id = nextID /\ n.batch = b /\ n.rep = Cardinality(lost)
    BY DEF AuctionMsg
  <2>9. /\ \A x \in A : x = n /\ lost # {}
        /\ \A e \in C : e.id = nextID
        /\ \A e, g \in C : e = g
        /\ Asks(A, Cardinality(lost))
    <3>1. lost = {} => Cardinality(lost) = 0
      BY FS_EmptySet
    <3>2. (A = {} /\ lost = {}) \/ (A = {n} /\ lost # {})
      OBVIOUS
    <3>3. \A e \in C : e.id = nextID
      BY SMT
    <3>4. \A e, g \in C : e = g
      OBVIOUS
    <3> HIDE DEF A, C, lost, n
    <3>5. Asks(A, Cardinality(lost))
      BY <2>8, <3>1, <3>2 DEF Asks
    <3> QED
      BY <3>2, <3>3, <3>4, <3>5
  <2>10. /\ \A r \in rows : r.batch = b /\ r.state = "pending"
         /\ IsFiniteSet(rows) /\ Cardinality(rows) = Cardinality(accepted)
         /\ \A r \in rows : r.sp \in accepted
    <3>1. \A r \in rows : r.batch = b /\ r.state = "pending" /\ r.sp \in accepted
      BY SMT DEF NewRows
    <3>2. IsFiniteSet(rows) /\ Cardinality(rows) = Cardinality(accepted)
      BY <2>7, <1>NewRowsCardinality
    <3> QED
      BY <3>1, <3>2
  <2> HIDE DEF accepted, lost, piece, n, A, create, C, rows
  <2>11. /\ db'.batches[b].status = "deal_making"
         /\ \A x \in Batches :
               /\ x # b => db'.batches[x] = db.batches[x]
               /\ db'.batches[x].rep = db.batches[x].rep
               /\ db'.batches[x].providers = db.batches[x].providers
    <3>1. db'.batches = [db.batches EXCEPT ![b].status = "deal_making"]
      BY <2>1
    <3>2. RowMoved(b, "deal_making")
      BY <2>2, <3>1, RowMoves
    <3> QED
      BY <3>2 DEF RowMoved
  <2>12. /\ readyToAuction' = readyToAuction \union A
         /\ readyToCreateDeals \subseteq readyToCreateDeals'
    BY <2>1 DEF Publish
  <2>13. MessagesInv' /\ nextID <= nextID'
    <3>1. \A x \in Batches : db.batches[x].status \notin {"none", "preparing"} =>
                 db'.batches[x].status \notin {"none", "preparing"}
      BY <2>11
    <3>2. \A m \in A : /\ m.id = nextID
                       /\ m.rep # 0
                       /\ db'.batches[m.batch].status \notin {"none", "preparing"}
      BY <2>7, <2>8, <2>9, <2>11
    <3>3. \A m, k \in A : m = k
      BY <2>9
    <3>4. MessagesInv
      BY DEF SlotInv
    <3> QED
      BY <2>1, <2>9, <3>1, <3>2, <3>3, <3>4, <1>MessagesNext
  <2>14. ResultsInv' /\ \A op \in db'.operations : op[1] < nextID
    <3>1. UNCHANGED <<auctionClosed, finalizedDeal>>
      BY DEF others
    <3> QED
      BY <2>1, <2>2, <2>12, <2>13, <3>1, <1>ResultsNext DEF SlotInv
  <2>15. \A x \in readyToAuction : Open(x)' <=> Open(x) /\ x # a
    BY <2>1, <2>3, <1>OpenAfterClosing DEF SlotInv
  <2>16. TargetedInv'
    <3>1. \A x \in A : db'.batches[x.batch].providers = {}
      BY <2>1, <2>2, <2>8, <2>9, <2>11, SMT
    <3>2. ASSUME NEW x \in readyToAuction, Open(x)', Live(db', x.batch),
                 db'.batches[x.batch].providers # {}
          PROVE  /\ Open(x)
                 /\ Live(db, x.batch)
                 /\ db.batches[x.batch].providers # {}
                 /\ \A r \in db'.deals : r.batch = x.batch =>
                       \E q \in db.deals : q.batch = x.batch /\ q.sp = r.sp
      <4>1. x.batch \in Batches /\ Open(x) /\ x # a
        BY <2>15, <3>2 DEF Inv, BrokerTypeOK, ReadyToAuctionMsg
      <4>2. db.batches[x.batch].providers # {}
        BY <2>11, <3>2, <4>1
      <4>3. x.batch # b
        <5>1. SUFFICES ASSUME x.batch = b PROVE FALSE
          OBVIOUS
        <5>2. db.batches[b].rep = 1
          BY <2>2, <4>2, <5>1 DEF SlotInv, TargetedInv, TargetedOnce
        <5> QED
          BY <2>1, <2>2, <2>3, <4>1, <5>1, <5>2, <1>OneSlot
      <4>4. Live(db, x.batch)
        BY <2>11, <3>2, <4>1, <4>3 DEF Live
      <4>5. \A r \in db'.deals : r.batch = x.batch => r \in db.deals
        BY <2>1, <2>10, <4>3
      <4> QED
        BY <4>1, <4>2, <4>4, <4>5
    <3>3. TargetedInv
      BY DEF SlotInv
    <3> QED
      BY <2>12, <3>1, <3>2, <3>3, <1>TargetedKept
  <2>17. ASSUME NEW x \in Batches, x # b PROVE Counted(x)'
    <3>1. OpenSlots(x)' = OpenSlots(x)
      BY <2>3, <2>8, <2>9, <2>12, <2>15, <2>17, <1>SlotsKept
    <3>2. LiveDeals(x)' = LiveDeals(x)
      BY <2>1, <2>10, <2>17 DEF LiveDeals, GetDeals
    <3> QED
      BY <2>11, <2>17, <3>1, <3>2, <1>CountedKept DEF SlotInv, CountInv
  <2>18. Counted(b)'
    <3>1. Counted(b)
      BY <2>2 DEF SlotInv, CountInv
    <3>2. \A x \in A : Open(x)'
      BY <2>2, <2>8, <2>9, <2>14, <1>OpenWhenNew
    <3>3. Shifts(b, {a}, A)
      <4>1. A \intersect readyToAuction = {}
        <5>1. \A x \in readyToAuction : x.id < nextID
          BY DEF SlotInv, MessagesInv
        <5> QED
          BY <2>2, <2>8, <2>9, <5>1, SMT
      <4> QED
        BY <2>3, <2>8, <2>9, <2>12, <2>15, <3>2, <4>1 DEF Shifts
    <3>4. Asks({a}, a.rep)
      BY DEF Asks
    <3>5. /\ IsFiniteSet(OpenSlots(b)')
          /\ Cardinality(OpenSlots(b)) \in Nat
          /\ a.rep <= Cardinality(OpenSlots(b))
          /\ Cardinality(OpenSlots(b)')
               = Cardinality(OpenSlots(b)) - a.rep + Cardinality(lost)
      BY <2>9, <3>1, <3>3, <3>4, <1>SlotsCounted, SMT DEF SlotInv, Counted
    <3>6. LiveDeals(b)' = LiveDeals(b) \union rows /\ LiveDeals(b) \intersect rows = {}
      BY <2>1, <2>4, <2>10 DEF LiveDeals, GetDeals
    <3>7. /\ IsFiniteSet(LiveDeals(b))
          /\ Cardinality(LiveDeals(b)) \in Nat
      BY <3>1, FS_CardinalityType DEF Counted
    <3>8. /\ IsFiniteSet(LiveDeals(b)')
          /\ Cardinality(LiveDeals(b)')
               = Cardinality(LiveDeals(b)) + Cardinality(accepted) - Cardinality({})
      <4>1. /\ IsFiniteSet(LiveDeals(b) \union rows)
            /\ Cardinality(LiveDeals(b) \union rows)
                 = Cardinality(LiveDeals(b)) + Cardinality(rows)
                     - Cardinality(LiveDeals(b) \intersect rows)
        BY <2>10, <3>7, FS_Union
      <4> QED
        BY <2>10, <3>6, <4>1
    <3>9. Cardinality({}) = 0
      BY FS_EmptySet
    <3>10. Cardinality(OpenSlots(b)') + Cardinality(LiveDeals(b)')
             = Cardinality(OpenSlots(b)) + Cardinality(LiveDeals(b))
      BY <2>3, <2>7, <3>5, <3>7, <3>8, <3>9, SMT
    <3>11. /\ Cardinality(OpenSlots(b)) + Cardinality(LiveDeals(b)) = db.batches[b].rep
           /\ db.batches[b].rep # 0
      BY <2>1, <3>1 DEF Counted, Live
    <3>12. db'.batches[b].rep = db.batches[b].rep
      BY <2>2, <2>11
    <3> QED
      BY <2>11, <3>5, <3>8, <3>10, <3>11, <3>12 DEF Counted
  <2> QED
    BY <2>5, <2>13, <2>14, <2>16, <2>17, <2>18 DEF SlotInv, CountInv

\* Rows keep their provider.
<1>OutcomeProviders.
    ASSUME NEW f, NEW state, Outcome(f, state)
    PROVE  \A q \in db'.deals : \E p \in db.deals : p.batch = q.batch /\ p.sp = q.sp
  <2> USE <1>OutcomeProviders
  <2>1. PICK r \in db.deals :
          /\ r.batch = f.batch /\ r.sp = f.sp
          /\ db'.deals = (db.deals \ {r}) \union {[r EXCEPT !.state = state]}
          /\ [r EXCEPT !.state = state].batch = f.batch
          /\ [r EXCEPT !.state = state].sp = f.sp
    BY DEF Outcome
  <2> QED
    BY <2>1

\* An outcome that starts no auction: the deal is confirmed, or the batch is over,
\* or it is now.
<1>SettledDealSlots.
    ASSUME Inv, Inv', SlotInv, TargetedOnce', UNCHANGED others,
           NEW f \in finalizedDeal, f.op \notin db.operations,
           NEW state \in {"confirmed", "failed"}, Saved(f, state), Publish({}, {}, {}),
           \/ /\ db'.batches = db.batches
              /\ state = "confirmed" \/ ~Live(db, f.batch)
           \/ db'.batches = [db.batches EXCEPT ![f.batch].status = "success"]
           \/ /\ db'.batches = [db.batches EXCEPT ![f.batch].status = "error"]
              /\ Live(db, f.batch) /\ state = "failed"
    PROVE  SlotInv'
  <2> USE <1>SettledDealSlots
  <2>1. f.batch \in Batches /\ nextID \in Nat /\ nextID' \in Nat
    BY DEF Inv, BrokerTypeOK, FinalizedDealMsg
  <2>2. readyToAuction' = readyToAuction /\ readyToCreateDeals' = readyToCreateDeals
    BY DEF Publish
  <2>3. Outcome(f, state) /\ DealsInv' /\ \A x : Open(x)' <=> Open(x)
    BY <2>2, OutcomeDeals
  <2>4. db.batches[f.batch].status \notin {"none", "preparing"}
    <3>1. \E r \in db.deals : r.batch = f.batch
      BY DEF Saved
    <3> QED
      BY <3>1 DEF Inv, DBInv, DealsAfterPiece
  <2>5. /\ \A x \in Batches : /\ x # f.batch => db'.batches[x] = db.batches[x]
                              /\ db'.batches[x].rep = db.batches[x].rep
                              /\ db'.batches[x].providers = db.batches[x].providers
        /\ \/ /\ db'.batches[f.batch].status = db.batches[f.batch].status
              /\ state = "confirmed" \/ ~Live(db, f.batch)
           \/ db'.batches[f.batch].status = "success"
           \/ /\ db'.batches[f.batch].status = "error"
              /\ Live(db, f.batch) /\ state = "failed"
    <3>1. CASE db'.batches = db.batches /\ (state = "confirmed" \/ ~Live(db, f.batch))
      BY <3>1
    <3>2. CASE db'.batches = [db.batches EXCEPT ![f.batch].status = "success"]
      <4>1. RowMoved(f.batch, "success")
        BY <2>1, <3>2, RowMoves
      <4> QED
        BY <4>1 DEF RowMoved
    <3>3. CASE /\ db'.batches = [db.batches EXCEPT ![f.batch].status = "error"]
               /\ Live(db, f.batch) /\ state = "failed"
      <4>1. RowMoved(f.batch, "error")
        BY <2>1, <3>3, RowMoves
      <4> QED
        BY <3>3, <4>1 DEF RowMoved
    <3> QED
      BY <3>1, <3>2, <3>3
  <2>6. MessagesInv' /\ nextID <= nextID'
    BY <2>4, <2>5, <1>MessagesNext, SMT DEF SlotInv
  <2>7. ResultsInv'
    <3>1. db'.operations = db.operations \union {f.op}
      BY DEF Saved
    <3> QED
      BY <2>1, <2>2, <2>6, <3>1, <1>ResultsNext DEF SlotInv, others
  <2>8. TargetedInv'
    <3>1. ASSUME NEW x \in readyToAuction, Open(x)', Live(db', x.batch),
                 db'.batches[x.batch].providers # {}
          PROVE  /\ Open(x)
                 /\ Live(db, x.batch)
                 /\ db.batches[x.batch].providers # {}
                 /\ \A r \in db'.deals : r.batch = x.batch =>
                       \E q \in db.deals : q.batch = x.batch /\ q.sp = r.sp
      <4>1. x.batch \in Batches
        BY DEF Inv, BrokerTypeOK, ReadyToAuctionMsg
      <4>2. Live(db, x.batch) /\ db.batches[x.batch].providers # {}
        BY <2>5, <3>1, <4>1 DEF Live
      <4> QED
        BY <2>3, <3>1, <4>2, <1>OutcomeProviders
    <3> DEFINE A == {}
    <3>2. TargetedInv /\ readyToAuction' = readyToAuction \union A
      BY <2>2 DEF SlotInv
    <3>3. \A x \in A : \/ db'.batches[x.batch].providers = {}
                       \/ ~Live(db', x.batch)
                       \/ \A r \in db'.deals : r.batch = x.batch => r.sp \in x.excluded
      OBVIOUS
    <3> HIDE DEF A
    <3> QED
      BY <3>1, <3>2, <3>3, <1>TargetedKept
  <2>9. /\ \A x \in Batches : OpenSlots(x)' = OpenSlots(x)
        /\ \A x : x # f.batch => LiveDeals(x)' = LiveDeals(x)
    BY <2>1, <2>2, <2>3, <1>SlotsKept, OutcomeLive
  <2>10. \A x \in Batches : x # f.batch => Counted(x)'
    BY <2>5, <2>9, <1>CountedKept DEF SlotInv, CountInv
  <2>11. Counted(f.batch)'
    <3>1. Counted(f.batch)
      BY <2>1 DEF SlotInv, CountInv
    <3>2. /\ IsFiniteSet(LiveDeals(f.batch)')
          /\ Cardinality(LiveDeals(f.batch)) \in Nat
          /\ Cardinality(LiveDeals(f.batch)) # 0
          /\ Cardinality(LiveDeals(f.batch)')
               = IF state = "confirmed" THEN Cardinality(LiveDeals(f.batch))
                 ELSE Cardinality(LiveDeals(f.batch)) - 1
      BY <2>1, <2>3, OutcomeLive
    <3>3. /\ OpenSlots(f.batch)' = OpenSlots(f.batch)
          /\ IsFiniteSet(OpenSlots(f.batch))
          /\ Cardinality(OpenSlots(f.batch)) \in Nat
      BY <2>1, <2>9, <3>1, FS_CardinalityType DEF Counted
    <3>4. db'.batches[f.batch].rep = db.batches[f.batch].rep /\ db.batches[f.batch].rep # 0
          /\ db.batches[f.batch].rep \in Nat
      BY <2>1, <2>4, <2>5, <3>1 DEF Counted, Inv, BrokerTypeOK, DBType, BatchRow
    <3>5. Live(db', f.batch) => state = "confirmed" /\ Live(db, f.batch)
      BY <2>5 DEF Live
    <3>6. ASSUME db'.batches[f.batch].status = "error"
          PROVE  Cardinality(LiveDeals(f.batch)') < db.batches[f.batch].rep
      <4>1. CASE Live(db, f.batch)
        <5>1. state = "failed"
          BY <2>5, <3>6, <4>1 DEF Live
        <5>2. Cardinality(OpenSlots(f.batch)) + Cardinality(LiveDeals(f.batch))
                = db.batches[f.batch].rep
          BY <3>1, <4>1 DEF Counted
        <5> QED
          BY <3>2, <3>3, <3>4, <5>1, <5>2, SMT
      <4>2. CASE ~Live(db, f.batch)
        <5>1. db.batches[f.batch].status = "error"
          BY <2>5, <3>6, <4>2
        <5>2. Cardinality(LiveDeals(f.batch)) < db.batches[f.batch].rep
          BY <3>1, <5>1 DEF Counted
        <5> QED
          BY <3>2, <3>4, <5>2, SMT
      <4> QED
        BY <4>1, <4>2
    <3>7. Live(db', f.batch) => Cardinality(OpenSlots(f.batch)') + Cardinality(LiveDeals(f.batch)')
                                  = db'.batches[f.batch].rep
      BY <3>1, <3>2, <3>3, <3>4, <3>5 DEF Counted
    <3> QED
      BY <3>2, <3>3, <3>4, <3>6, <3>7 DEF Counted
  <2> QED
    BY <2>3, <2>6, <2>7, <2>8, <2>10, <2>11 DEF SlotInv, CountInv

\* A lost deal that is auctioned again: its slot moves to the new auction.
<1>ReplacedSlots.
    ASSUME Inv, Inv', SlotInv, TargetedOnce', UNCHANGED others,
           NEW f \in finalizedDeal, f.op \notin db.operations, Replaced(f)
    PROVE  SlotInv'
  <2> USE <1>ReplacedSlots
  <2> DEFINE b == f.batch
             excluded == GetExcludedStorageProviders(db', db.batches[b].piece)
             n == AuctionMsg(b, 1, excluded)
  <2>1. /\ Saved(f, "failed")
        /\ db'.batches = db.batches
        /\ Publish({}, {n}, {})
    BY DEF Replaced
  <2>2. b \in Batches /\ nextID \in Nat /\ nextID' \in Nat
    BY DEF Inv, BrokerTypeOK, FinalizedDealMsg
  <2>3. n.id = nextID /\ n.batch = b /\ n.rep = 1 /\ n.excluded = excluded
    BY DEF AuctionMsg
  <2>4. \A r \in db'.deals : r.batch = b => r.sp \in excluded
    BY <2>1 DEF GetExcludedStorageProviders
  <2> HIDE DEF n, excluded
  <2>5. readyToAuction' = readyToAuction \union {n} /\ readyToCreateDeals' = readyToCreateDeals
    BY <2>1 DEF Publish
  <2>6. Outcome(f, "failed") /\ DealsInv' /\ \A x : Open(x)' <=> Open(x)
    BY <2>1, <2>5, OutcomeDeals
  <2>7. db.batches[b].status \notin {"none", "preparing"}
    <3>1. \E r \in db.deals : r.batch = b
      BY <2>1 DEF Saved
    <3> QED
      BY <3>1 DEF Inv, DBInv, DealsAfterPiece
  <2> DEFINE A == {n}
  <2>8. /\ readyToAuction' = readyToAuction \union A
        /\ \A x \in A : x = n
        /\ Publish({}, A, {})
    BY <2>1, <2>5
  <2>9. Asks(A, 1)
    BY <2>3 DEF Asks
  <2> HIDE DEF A
  <2>10. MessagesInv' /\ nextID <= nextID'
    <3>1. \A m \in A : /\ m.id = nextID
                       /\ m.rep # 0
                       /\ db'.batches[m.batch].status \notin {"none", "preparing"}
      BY <2>1, <2>3, <2>7, <2>8, SMT
    <3>2. \A m, k \in A : m = k
      BY <2>8
    <3>3. MessagesInv
      BY DEF SlotInv
    <3> QED
      BY <2>1, <2>8, <3>1, <3>2, <3>3, <1>MessagesNext, SMT
  <2>11. ResultsInv' /\ \A op \in db'.operations : op[1] < nextID
    <3>1. db'.operations = db.operations \union {f.op}
      BY <2>1 DEF Saved
    <3> QED
      BY <2>2, <2>5, <2>10, <3>1, <1>ResultsNext DEF SlotInv, others
  <2>12. TargetedInv'
    <3>1. ASSUME NEW x \in readyToAuction, Open(x)', Live(db', x.batch),
                 db'.batches[x.batch].providers # {}
          PROVE  /\ Open(x)
                 /\ Live(db, x.batch)
                 /\ db.batches[x.batch].providers # {}
                 /\ \A r \in db'.deals : r.batch = x.batch =>
                       \E q \in db.deals : q.batch = x.batch /\ q.sp = r.sp
      BY <2>1, <2>6, <3>1, <1>OutcomeProviders DEF Live
    <3>2. \A x \in A : \/ db'.batches[x.batch].providers = {}
                       \/ ~Live(db', x.batch)
                       \/ \A r \in db'.deals : r.batch = x.batch => r.sp \in x.excluded
      BY <2>3, <2>4, <2>8
    <3>3. TargetedInv
      BY DEF SlotInv
    <3> QED
      BY <2>8, <3>1, <3>2, <3>3, <1>TargetedKept
  <2>13. ASSUME NEW x \in Batches, x # b PROVE Counted(x)'
    <3>1. OpenSlots(x)' = OpenSlots(x)
      BY <2>3, <2>5, <2>6, <2>13, <1>SlotsKept
    <3>2. LiveDeals(x)' = LiveDeals(x)
      BY <2>2, <2>6, <2>13, OutcomeLive
    <3> QED
      BY <2>1, <2>13, <3>1, <3>2, <1>CountedKept DEF SlotInv, CountInv
  <2>14. Counted(b)'
    <3>1. Counted(b)
      BY <2>2 DEF SlotInv, CountInv
    <3>2. /\ IsFiniteSet(LiveDeals(b)')
          /\ Cardinality(LiveDeals(b)) \in Nat
          /\ Cardinality(LiveDeals(b)) # 0
          /\ Cardinality(LiveDeals(b)') = Cardinality(LiveDeals(b)) - 1
      BY <2>2, <2>6, OutcomeLive
    <3>3. \A x \in A : Open(x)'
      BY <2>2, <2>3, <2>8, <2>11, <1>OpenWhenNew
    <3>4. Shifts(b, {}, A)
      <4>1. A \intersect readyToAuction = {}
        <5>1. \A x \in readyToAuction : x.id < nextID
          BY DEF SlotInv, MessagesInv
        <5> QED
          BY <2>2, <2>3, <2>8, <5>1, SMT
      <4> QED
        BY <2>3, <2>6, <2>8, <3>3, <4>1 DEF Shifts
    <3>5. Asks({}, 0)
      BY DEF Asks
    <3>6. /\ IsFiniteSet(OpenSlots(b)')
          /\ Cardinality(OpenSlots(b)) \in Nat
          /\ Cardinality(OpenSlots(b)') = Cardinality(OpenSlots(b)) - 0 + 1
      BY <2>9, <3>1, <3>4, <3>5, <1>SlotsCounted, SMT DEF SlotInv, Counted
    <3>7. db.batches[b].rep \in Nat
      BY <2>2 DEF Inv, BrokerTypeOK, DBType, BatchRow
    <3> QED
      BY <2>1, <3>1, <3>2, <3>6, <3>7, SMT DEF Counted, Live
  <2> QED
    BY <2>6, <2>10, <2>11, <2>12, <2>13, <2>14 DEF SlotInv, CountInv

<1> SUFFICES ASSUME MaxReports = 1, Inv, Inv', SlotInv, TargetedOnce', [Next]_vars,
                    faults' = faults
             PROVE  SlotInv'
  OBVIOUS
<1>1. CASE Committed
  <2>0. UNCHANGED others
    BY <1>1 DEF Committed
  <2>1. CASE \E s \in StorageRequests : Made(s)
    <3>1. /\ db'.batches = db.batches
          /\ db'.deals = db.deals
          /\ db'.operations = db.operations
          /\ readyToAuction' = readyToAuction
          /\ readyToCreateDeals' = readyToCreateDeals
          /\ nextID \in Nat /\ nextID' \in Nat /\ nextID <= nextID'
      BY <2>1, SMT DEF Made, Publish, Inv, BrokerTypeOK
    <3>2. MessagesInv' /\ DealsInv' /\ TargetedInv' /\ CountInv'
      BY <3>1, <1>SlotQuiet
    <3>3. ResultsInv'
      BY <2>0, <3>1, <1>ResultsNext DEF SlotInv, others
    <3> QED
      BY <3>2, <3>3 DEF SlotInv
  <2>2. CASE \E s \in StorageRequests, b \in Batches, in \in PreparedInputs :
                OpenedPrepared(s, b, in)
    BY <2>0, <2>2, <1>OpenedPreparedSlots
  <2>3. CASE \E m \in newBatchCreated : OpenedPacked(m)
    BY <2>0, <2>3, <1>OpenedPackedSlots
  <2>4. CASE \E m \in newBatchPrepared : Auctioned(m)
    BY <2>0, <2>4, <1>AuctionedSlots
  <2>5. CASE \E m \in auctionClosed :
                m.op \notin db.operations /\ (Noted(m) \/ Won(m) \/ Lost(m))
    <3>1. PICK m \in auctionClosed :
                m.op \notin db.operations /\ (Noted(m) \/ Won(m) \/ Lost(m))
      BY <2>5
    <3>2. CASE Won(m)
      BY <2>0, <3>1, <3>2, <1>WonSlots
    <3>3. CASE Noted(m)
      BY <2>0, <3>1, <3>3, <1>NoDealSlots DEF Noted
    <3>4. CASE Lost(m)
      BY <2>0, <3>1, <3>4, <1>NoDealSlots DEF Lost
    <3> QED
      BY <3>1, <3>2, <3>3, <3>4
  <2>6. CASE \E m \in finalizedDeal :
                /\ m.op \notin db.operations
                /\ Completed(m) \/ Progressed(m) \/ Replaced(m) \/ GivenUp(m)
    <3>1. PICK m \in finalizedDeal :
                /\ m.op \notin db.operations
                /\ Completed(m) \/ Progressed(m) \/ Replaced(m) \/ GivenUp(m)
      BY <2>6
    <3>2. CASE Replaced(m)
      BY <2>0, <3>1, <3>2, <1>ReplacedSlots
    <3>3. CASE Completed(m)
      BY <2>0, <3>1, <3>3, <1>SettledDealSlots DEF Completed
    <3>4. CASE Progressed(m)
      BY <2>0, <3>1, <3>4, <1>SettledDealSlots DEF Progressed
    <3>5. CASE GivenUp(m)
      BY <2>0, <3>1, <3>5, <1>SettledDealSlots DEF GivenUp
    <3> QED
      BY <3>1, <3>2, <3>3, <3>4, <3>5
  <2> QED
    BY <1>1, <2>1, <2>2, <2>3, <2>4, <2>5, <2>6 DEF Committed
<1>2. ASSUME UNCHANGED <<db, nextID, readyToAuction, readyToCreateDeals,
                         auctionClosed, finalizedDeal>>
      PROVE  SlotInv'
  <2>1. nextID \in Nat /\ nextID <= nextID
    BY SMT DEF Inv, BrokerTypeOK
  <2>2. MessagesInv' /\ DealsInv' /\ TargetedInv' /\ CountInv'
    BY <1>2, <2>1, <1>SlotQuiet
  <2>3. ResultsInv'
    BY <1>2 DEF SlotInv, ResultsInv
  <2> QED
    BY <2>2, <2>3 DEF SlotInv
<1>3. CASE Peers
  <2>1. CASE \E b \in Batches, entries \in SUBSET (Entries \ PackedEntries) :
                PackBatch(b, entries)
    BY <1>2, <2>1 DEF PackBatch, brokerVars
  <2>2. CASE \E m \in newBatchCreated : PrepareBatch(m)
    BY <1>2, <2>2 DEF PrepareBatch, brokerVars
  <2>3. CASE \E m \in readyToAuction, ok \in BOOLEAN, winners \in SUBSET Providers :
                CloseAuction(m, ok, winners)
    BY <2>3, <1>CloseAuctionSlots
  <2>4. CASE \E m \in readyToCreateDeals, outcome \in {"confirmed", "failed", "rejected"} :
                \E sp \in m.sps : FinalizeDeal(m, sp, outcome)
    BY <2>4, <1>FinalizeDealSlots
  <2> QED
    BY <1>3, <2>1, <2>2, <2>3, <2>4 DEF Peers
<1>4. CASE UNCHANGED <<brokerVars, newBatchCreated, newBatchPrepared,
                       auctionClosed, finalizedDeal>>
  BY <1>2, <1>4 DEF brokerVars
<1>5. ASSUME Faulty PROVE FALSE
  BY <1>5, SMT DEF Faulty, Inv, BrokerTypeOK
<1> QED
  BY <1>1, <1>3, <1>4, <1>5, StepCases

\* Nothing is auctioned or made at first.
LEMMA SlotInit == Init => SlotInv
<1> SUFFICES ASSUME Init PROVE SlotInv
  OBVIOUS
<1>1. /\ readyToAuction = {} /\ auctionClosed = {} /\ readyToCreateDeals = {}
      /\ finalizedDeal = {} /\ db.deals = {} /\ db.operations = {}
      /\ \A b \in Batches : db.batches[b].status = "none" /\ db.batches[b].providers = {}
  BY DEF Init, BrokerInit, EmptyDB, NoBatchRow
<1>2. MessagesInv /\ ResultsInv /\ DealsInv
  BY <1>1 DEF MessagesInv, ResultsInv, DealsInv
<1>3. TargetedInv
  BY <1>1 DEF TargetedInv, TargetedOnce
<1>4. ASSUME NEW b \in Batches PROVE Counted(b)
  <2>1. OpenSlots(b) = {}
    BY <1>1 DEF OpenSlots
  <2>2. LiveDeals(b) = {}
    BY <1>1 DEF LiveDeals, GetDeals
  <2> QED
    BY <1>1, <2>1, <2>2, FS_EmptySet DEF Counted, Live
<1> QED
  BY <1>2, <1>3, <1>4 DEF SlotInv, CountInv

\* The count holds as long as nothing fails.
SlotsWithoutFaults == faults = 0 => SlotInv

\* Faults are never taken back.
LEMMA FaultsGrow ==
    ASSUME Inv, [Next]_vars, faults' = 0
    PROVE  faults = 0 /\ faults' = faults
<1>1. faults \in Nat
  BY DEF Inv, BrokerTypeOK
<1>2. Faulty => faults' = faults + 1
  BY DEF Faulty
<1>3. Peers => faults' = faults
  BY DEF Peers, PackBatch, PrepareBatch, CloseAuction, FinalizeDeal, brokerVars
<1> QED
  BY <1>1, <1>2, <1>3, StepCases, SMT DEF brokerVars

\* Every step, whatever fails.
LEMMA SlotsWithoutFaultsNext ==
    ASSUME MaxReports = 1, Inv, Inv', SlotsWithoutFaults, TargetedOnce', [Next]_vars
    PROVE  SlotsWithoutFaults'
BY FaultsGrow, SlotNext DEF SlotsWithoutFaults

\* A report that completes a batch is never of a batch in error, which is short
\* of live deals.
LEMMA CompletedInProgress ==
    ASSUME Inv, Inv', SlotInv, NEW f \in finalizedDeal, f.op \notin db.operations,
           Completed(f)
    PROVE  db.batches[f.batch].status # "error"
<1>1. /\ Saved(f, "confirmed")
      /\ Cardinality(ConfirmedRows(db', f.batch)) = db.batches[f.batch].rep
      /\ readyToCreateDeals' = readyToCreateDeals
  BY DEF Completed, Publish
<1>2. f.batch \in Batches
  BY DEF Inv, BrokerTypeOK, FinalizedDealMsg
<1>3. Outcome(f, "confirmed")
  BY <1>1, OutcomeDeals
<1>4. /\ IsFiniteSet(LiveDeals(f.batch)')
      /\ Cardinality(LiveDeals(f.batch)) \in Nat
      /\ Cardinality(LiveDeals(f.batch)') = Cardinality(LiveDeals(f.batch))
  BY <1>2, <1>3, OutcomeLive
<1>5. ConfirmedRows(db', f.batch) \subseteq LiveDeals(f.batch)'
  BY DEF ConfirmedRows, LiveDeals
<1>6. /\ Cardinality(ConfirmedRows(db', f.batch)) <= Cardinality(LiveDeals(f.batch)')
      /\ IsFiniteSet(ConfirmedRows(db', f.batch))
  BY <1>4, <1>5, FS_Subset
<1>7. db.batches[f.batch].status = "error" =>
         Cardinality(LiveDeals(f.batch)) < db.batches[f.batch].rep
  BY <1>2 DEF SlotInv, CountInv, Counted
<1>8. Cardinality(ConfirmedRows(db', f.batch)) \in Nat
  BY <1>6, FS_CardinalityType
<1> QED
  BY <1>1, <1>4, <1>6, <1>7, <1>8, SMT

\* No step without a fault revives a batch.
LEMMA FinalStep ==
    ASSUME Inv, Inv', SlotInv, [Next]_vars, faults' = faults,
           NEW b \in Batches, db.batches[b].status \in {"success", "error"}
    PROVE  db'.batches[b].status = db.batches[b].status
<1>1. CASE Committed
  <2>1. CASE \E s \in StorageRequests : Made(s)
    BY <2>1 DEF Made
  <2>2. CASE \E s \in StorageRequests, x \in Batches, in \in PreparedInputs :
                OpenedPrepared(s, x, in)
    <3>1. PICK s \in StorageRequests, x \in Batches, in \in PreparedInputs :
                OpenedPrepared(s, x, in)
      BY <2>2
    <3>2. PICK row : Opened(x, row, {s})
      BY <3>1 DEF OpenedPrepared
    <3> QED
      BY <3>2, OpenedRows
  <2>3. CASE \E m \in newBatchCreated : OpenedPacked(m)
    <3>1. PICK m \in newBatchCreated : OpenedPacked(m)
      BY <2>3
    <3>2. PICK row : Opened(m.batch, row, {e[2] : e \in m.entries})
      BY <3>1 DEF OpenedPacked
    <3>3. m.batch \in Batches
      BY DEF Inv, BrokerTypeOK, NewBatchCreatedMsg
    <3> QED
      BY <3>2, <3>3, OpenedRows
  <2>4. CASE \E m \in newBatchPrepared : Auctioned(m)
    <3>1. PICK m \in newBatchPrepared : Auctioned(m)
      BY <2>4
    <3>2. db.batches[m.batch].status = "preparing"
      BY <3>1 DEF Auctioned
    <3> QED
      BY <3>1, <3>2, AuctionedRows
  <2>5. CASE \E m \in auctionClosed :
                m.op \notin db.operations /\ (Noted(m) \/ Won(m) \/ Lost(m))
    <3>1. PICK m \in auctionClosed : Noted(m) \/ Won(m) \/ Lost(m)
      BY <2>5
    <3>2. m.batch \in Batches
      BY DEF Inv, BrokerTypeOK, AuctionClosedMsg
    <3>3. CASE Noted(m)
      BY <3>3 DEF Noted
    <3>4. CASE Won(m)
      <4>1. RowMoved(m.batch, "deal_making") /\ Live(db, m.batch)
        BY <3>2, <3>4, RowMoves DEF Won
      <4> QED
        BY <4>1 DEF RowMoved, Live
    <3>5. CASE Lost(m)
      <4>1. RowMoved(m.batch, "error") /\ Live(db, m.batch)
        BY <3>2, <3>5, RowMoves DEF Lost
      <4> QED
        BY <4>1 DEF RowMoved, Live
    <3> QED
      BY <3>1, <3>3, <3>4, <3>5
  <2>6. CASE \E m \in finalizedDeal :
                /\ m.op \notin db.operations
                /\ Completed(m) \/ Progressed(m) \/ Replaced(m) \/ GivenUp(m)
    <3>1. PICK m \in finalizedDeal :
                /\ m.op \notin db.operations
                /\ Completed(m) \/ Progressed(m) \/ Replaced(m) \/ GivenUp(m)
      BY <2>6
    <3>2. m.batch \in Batches
      BY DEF Inv, BrokerTypeOK, FinalizedDealMsg
    <3>3. CASE Completed(m)
      <4>1. RowMoved(m.batch, "success")
        BY <3>2, <3>3, RowMoves DEF Completed
      <4>2. db.batches[m.batch].status # "error"
        BY <3>1, <3>3, CompletedInProgress
      <4> QED
        BY <4>1, <4>2 DEF RowMoved
    <3>4. CASE Progressed(m) \/ Replaced(m)
      BY <3>4 DEF Progressed, Replaced
    <3>5. CASE GivenUp(m)
      <4>1. CASE Live(db, m.batch)
        <5>1. RowMoved(m.batch, "error")
          BY <3>2, <3>5, <4>1, RowMoves DEF GivenUp
        <5> QED
          BY <4>1, <5>1 DEF RowMoved, Live
      <4>2. CASE ~Live(db, m.batch)
        BY <3>5, <4>2 DEF GivenUp
      <4> QED
        BY <4>1, <4>2
    <3> QED
      BY <3>1, <3>3, <3>4, <3>5
  <2> QED
    BY <1>1, <2>1, <2>2, <2>3, <2>4, <2>5, <2>6 DEF Committed
<1>2. CASE Peers
  BY <1>2 DEF Peers, PackBatch, PrepareBatch, CloseAuction, FinalizeDeal, brokerVars
<1>3. CASE UNCHANGED brokerVars
  BY <1>3 DEF brokerVars
<1>4. CASE Faulty
  BY <1>4 DEF Faulty
<1> QED
  BY <1>1, <1>2, <1>3, <1>4, StepCases

\* The count as an invariant of the system.
LEMMA SlotsInvariant ==
    ASSUME MaxReports = 1, \A in \in PreparedInputs : in.providers # {} => in.rep = 1
    PROVE  Spec => [](SlotsWithoutFaults /\ TargetedOnce)
<1>1. Init => SlotsWithoutFaults /\ TargetedOnce
  BY SlotInit DEF SlotsWithoutFaults, SlotInv, TargetedInv
<1>2. Inv /\ Inv' /\ SlotsWithoutFaults /\ TargetedOnce /\ [Next]_vars
        => (SlotsWithoutFaults /\ TargetedOnce)'
  <2> SUFFICES ASSUME Inv, Inv', SlotsWithoutFaults, TargetedOnce, [Next]_vars
               PROVE  (SlotsWithoutFaults /\ TargetedOnce)'
    OBVIOUS
  <2>1. TargetedOnce'
    BY TargetedNext
  <2> QED
    BY <2>1, SlotsWithoutFaultsNext
<1> QED
  BY <1>1, <1>2, Invariance, PTL DEF Spec

\* Without faults, the slots out for auction, the deals being made and the
\* confirmed deals of a live batch add up to its rep factor: BatchAuctioned and
\* BatchFinalizedDeal start the auctions that replace what was lost, and no more,
\* in whatever order results come in and however often they are delivered.  Each
\* result is published once, and clients who choose the providers ask for one copy.
THEOREM SlotsAlwaysConserved ==
    ASSUME MaxReports = 1, \A in \in PreparedInputs : in.providers # {} => in.rep = 1
    PROVE  Spec => []SlotsConserved
<1>1. SlotsWithoutFaults => SlotsConserved
  BY DEF SlotsWithoutFaults, SlotInv, CountInv, Counted, Live, SlotsConserved
<1> QED
  BY <1>1, SlotsInvariant, PTL

\* Without faults, success and error are final: the report of a deal that is still
\* being made when the batch moves to error can't complete the batch, although
\* BatchSuccess looks at no status.  On the assumptions of SlotsAlwaysConserved.
THEOREM StatusIsFinal ==
    ASSUME MaxReports = 1, \A in \in PreparedInputs : in.providers # {} => in.rep = 1
    PROVE  Spec => FinalStatus
<1>1. Inv /\ Inv' /\ SlotsWithoutFaults /\ [Next]_vars =>
        [faults' = 0 => \A b \in Batches : db.batches[b].status \in {"success", "error"} =>
           db'.batches[b].status = db.batches[b].status]_vars
  <2> SUFFICES ASSUME Inv, Inv', SlotsWithoutFaults, [Next]_vars, faults' = 0,
                      NEW b \in Batches, db.batches[b].status \in {"success", "error"}
               PROVE  db'.batches[b].status = db.batches[b].status
    OBVIOUS
  <2>1. SlotInv /\ faults' = faults
    BY FaultsGrow DEF SlotsWithoutFaults
  <2> QED
    BY <2>1, FinalStep
<1> QED
  BY <1>1, SlotsInvariant, Invariance, PTL DEF Spec, FinalStatus

================================================================================
