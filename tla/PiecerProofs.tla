------------------------------ MODULE PiecerProofs ------------------------------
(***************************************************************************)
(* Every announcement of a batch beyond the first has a failure as its     *)
(* cause, for any batches and any finite number of processes.              *)
(*                                                                         *)
(* The argument counts permits to announce batch b: a daemon that prepares *)
(* b has one, and so has one that will put b back; the row has one while   *)
(* it can be claimed.  No step without a failure makes a new permit, and   *)
(* an announcement uses one up.                                            *)
(***************************************************************************)
EXTENDS Piecer, FiniteSetTheorems, TLAPS

DaemonState == {At("starting"), At("waiting"), At("polling")}
                  \union [step : {"preparing", "moving", "failed"}, batch : Batches]

TypeOK ==
    /\ rows \in [Batches -> Row]
    /\ newRequest \in [Processes -> {0, 1}]
    /\ daemon \in [Processes -> DaemonState]
    /\ prepared \in [Batches -> Nat]
    /\ faults \in Nat

Holds(p, b) == daemon[p].step \in {"preparing", "failed"} /\ daemon[p].batch = b

Holders(b) == {p \in Processes : Holds(p, b)}

\* The row can be claimed, now or when time has passed.
RowPermit(b) ==
    IF \/ rows[b].status \in {"none", "pending"}
       \/ rows[b].status = "executing" /\ (rows[b].stuck \/ ~InProgress(b))
    THEN 1 ELSE 0

\* The permits to announce b.
Permits(b) == Cardinality(Holders(b)) + RowPermit(b)

Moving(b) ==
    \E p \in Processes : daemon[p].step = "moving" /\ daemon[p].batch = b

Inv ==
    /\ TypeOK
    /\ \A b \in Batches :
          /\ prepared[b] + Permits(b) <= 1 + faults
          /\ rows[b].status = "done" \/ Moving(b) => prepared[b] > 0

--------------------------------------------------------------------------------
(* Counting. *)

\* The permit of a daemon in that state.
Permit(state, b) ==
    IF state.step \in {"preparing", "failed"} /\ state.batch = b THEN 1 ELSE 0

Busy(state, b) ==
    state.step \in {"preparing", "moving", "failed"} /\ state.batch = b

\* The daemons at work on a batch can be counted.
LEMMA HoldersFinite ==
    ASSUME NEW b
    PROVE  IsFiniteSet(Holders(b)) /\ Cardinality(Holders(b)) \in Nat
<1>1. IsFiniteSet(Holders(b))
  BY PiecerAssumption, FS_Subset, Zenon DEF Holders
<1> QED
  BY <1>1, FS_CardinalityType

\* A row has at most one permit.
LEMMA RowPermitType ==
    ASSUME NEW b
    PROVE  RowPermit(b) \in {0, 1} /\ RowPermit(b)' \in {0, 1}
BY DEF RowPermit

\* A daemon takes a permit with it, or leaves it behind.
LEMMA HoldersMove ==
    ASSUME TypeOK, NEW p \in Processes, NEW state, NEW b,
           daemon' = [daemon EXCEPT ![p] = state]
    PROVE  /\ Cardinality(Holders(b))' =
                 Cardinality(Holders(b)) + Permit(state, b) - Permit(daemon[p], b)
           /\ Cardinality(Holders(b)) \in Nat
           /\ Cardinality(Holders(b))' \in Nat
<1> DEFINE H == Holders(b)
           holds == state.step \in {"preparing", "failed"} /\ state.batch = b
<1>1. daemon'[p] = state /\ \A q \in Processes : q # p => daemon'[q] = daemon[q]
  BY DEF TypeOK
<1>2. Holders(b)' = IF holds THEN H \union {p} ELSE H \ {p}
  BY <1>1 DEF Holders, Holds
<1>3. p \in H <=> Holds(p, b)
  BY DEF Holders
<1>4. IsFiniteSet(H) /\ Cardinality(H) \in Nat
  BY HoldersFinite
<1> HIDE DEF H, holds
<1>5. CASE holds
  <2>1. Cardinality(H \union {p}) =
           IF p \in H THEN Cardinality(H) ELSE Cardinality(H) + 1
    BY Zenon, <1>4, FS_AddElement
  <2> QED
    BY <1>2, <1>3, <1>4, <1>5, <2>1 DEF holds, H, Permit, Holds
<1>6. CASE ~holds
  <2>1. /\ Cardinality(H \ {p}) =
              IF p \in H THEN Cardinality(H) - 1 ELSE Cardinality(H)
        /\ IsFiniteSet(H \ {p})
    BY <1>4, FS_RemoveElement
  <2>2. Cardinality(H \ {p}) \in Nat
    BY <2>1, FS_CardinalityType
  <2> QED
    BY <1>2, <1>3, <1>4, <1>6, <2>1, <2>2 DEF holds, H, Permit, Holds
<1> QED
  BY <1>5, <1>6

\* What one daemon does may begin or end the work on a batch.
LEMMA InProgressMove ==
    ASSUME TypeOK, NEW p \in Processes, NEW state, NEW b,
           daemon' = [daemon EXCEPT ![p] = state]
    PROVE  /\ Busy(state, b) => InProgress(b)'
           /\ (Busy(state, b) <=> Busy(daemon[p], b)) =>
                 (InProgress(b)' <=> InProgress(b))
<1>1. daemon'[p] = state /\ \A q \in Processes : q # p => daemon'[q] = daemon[q]
  BY DEF TypeOK
<1>2. InProgress(b) <=> \E q \in Processes : Busy(daemon[q], b)
  BY DEF InProgress, Busy
<1>3. InProgress(b)' <=> \E q \in Processes : Busy(daemon'[q], b)
  BY DEF InProgress, Busy
<1> QED
  BY <1>1, <1>2, <1>3

\* The count of b when a step makes no more permits than failures.
Counted(b) ==
    prepared'[b] + Permits(b)' - faults' <= prepared[b] + Permits(b) - faults

\* The count of a batch goes down, or stays, when what a daemon takes or leaves is made
\* up for by the row, the announcements and the failures.
LEMMA CountedMove ==
    ASSUME TypeOK, TypeOK', NEW p \in Processes, NEW state, NEW b \in Batches,
           daemon' = [daemon EXCEPT ![p] = state],
           prepared'[b] + Permit(state, b) + RowPermit(b)' - faults' <=
              prepared[b] + Permit(daemon[p], b) + RowPermit(b) - faults
    PROVE  Counted(b)
<1>1. prepared[b] \in Nat /\ prepared'[b] \in Nat /\ faults \in Nat /\ faults' \in Nat
  BY DEF TypeOK
<1>2. RowPermit(b) \in {0, 1} /\ RowPermit(b)' \in {0, 1}
  BY RowPermitType
<1>3. Permit(state, b) \in {0, 1} /\ Permit(daemon[p], b) \in {0, 1}
  BY DEF Permit
<1> DEFINE h == Cardinality(Holders(b))
<1>4. /\ h' = h + Permit(state, b) - Permit(daemon[p], b)
      /\ h \in Nat
  BY Zenon, HoldersMove
<1> HIDE DEF h
<1>5. prepared'[b] + (h' + RowPermit(b)') - faults' <=
         prepared[b] + (h + RowPermit(b)) - faults
  BY <1>1, <1>2, <1>3, <1>4
<1> QED
  BY <1>5 DEF Counted, Permits, h

\* The same when no daemon moves.
LEMMA CountedRows ==
    ASSUME TypeOK, TypeOK', NEW b \in Batches, UNCHANGED <<daemon, prepared>>,
           RowPermit(b)' - faults' <= RowPermit(b) - faults
    PROVE  Counted(b)
<1>1. Holders(b)' = Holders(b)
  BY DEF Holders, Holds
<1>2. prepared[b] \in Nat /\ faults \in Nat /\ faults' \in Nat
  BY DEF TypeOK
<1>3. RowPermit(b) \in {0, 1} /\ RowPermit(b)' \in {0, 1}
  BY RowPermitType
<1>4. Cardinality(Holders(b)) \in Nat
  BY HoldersFinite
<1> QED
  BY <1>1, <1>2, <1>3, <1>4 DEF Counted, Permits

--------------------------------------------------------------------------------
(* Types. *)

\* MoveToStatus keeps the type of the rows.
LEMMA MoveToStatusType ==
    ASSUME TypeOK, NEW b \in Batches, NEW status \in {"pending", "done"}
    PROVE  /\ MoveToStatus(b, status) \in [Batches -> Row]
           /\ MoveToStatus(b, status)[b].status = status
           /\ \A x \in Batches : x # b => MoveToStatus(b, status)[x] = rows[x]
<1> DEFINE row == [rows[b] EXCEPT !.status = status, !.ready = (status = "done"),
                                  !.stuck = FALSE]
<1>1. MoveToStatus(b, status) = [rows EXCEPT ![b] = row]
  BY Zenon DEF MoveToStatus
<1>2. rows[b] \in Row
  BY DEF TypeOK
<1>3. row \in Row /\ row.status = status
  BY <1>2, Zenon DEF Row
<1> HIDE DEF row
<1> QED
  BY <1>1, <1>3 DEF TypeOK

\* The daemon states that the actions write are daemon states.
LEMMA StatesType ==
    /\ {At("starting"), At("waiting"), At("polling")} \subseteq DaemonState
    /\ \A b \in Batches, step \in {"preparing", "moving", "failed"} :
          With(step, b) \in DaemonState
BY DEF DaemonState, With

\* The steps of a daemon at work, and what it is at work on.
LEMMA AtWork ==
    ASSUME TypeOK, NEW p \in Processes,
           daemon[p].step \in {"preparing", "moving", "failed"}
    PROVE  daemon[p].batch \in Batches
BY DEF TypeOK, DaemonState, At

\* Every step keeps the types.
LEMMA TypeKept == TypeOK /\ [Next]_vars => TypeOK'
<1> SUFFICES ASSUME TypeOK, [Next]_vars PROVE TypeOK'
  OBVIOUS
<1>1. CASE UNCHANGED vars
  BY <1>1 DEF TypeOK, vars
<1>2. ASSUME NEW p \in Processes, NEW b \in Batches, ReadyToPrepare(p, b)
      PROVE  TypeOK'
  BY <1>2 DEF TypeOK, ReadyToPrepare, CreateUnpreparedBatch, Row
<1>3. ASSUME NEW p \in Processes, StartDaemon(p)
      PROVE  TypeOK'
  BY <1>3, StatesType DEF TypeOK, StartDaemon, Become
<1>4. ASSUME NEW p \in Processes, WakeUp(p)
      PROVE  TypeOK'
  BY <1>4, StatesType DEF TypeOK, WakeUp, Become
<1>5. ASSUME NEW p \in Processes, GetNextPending(p)
      PROVE  TypeOK'
  <2>1. ASSUME NEW b \in Batches,
               rows' = [rows EXCEPT ![b].status = "executing", ![b].stuck = FALSE]
        PROVE  rows' \in [Batches -> Row]
    <3>1. rows[b] \in Row
      BY DEF TypeOK
    <3>2. [rows[b] EXCEPT !.status = "executing", !.stuck = FALSE] \in Row
      BY <3>1, Zenon DEF Row
    <3>3. rows' = [rows EXCEPT ![b] = [rows[b] EXCEPT !.status = "executing",
                                                      !.stuck = FALSE]]
      BY Zenon, <2>1
    <3> QED
      BY <3>2, <3>3 DEF TypeOK
  <2>2. rows' \in [Batches -> Row]
    BY Zenon, <1>5, <2>1 DEF GetNextPending, TypeOK
  <2>3. daemon' \in [Processes -> DaemonState]
    BY Zenon, <1>5, StatesType DEF GetNextPending, Become, TypeOK
  <2>4. faults' \in Nat
    <3>1. NoFault \/ Fault
      BY <1>5, Zenon DEF GetNextPending
    <3> QED
      BY <3>1 DEF Fault, NoFault, TypeOK
  <2> QED
    BY <1>5, <2>2, <2>3, <2>4 DEF GetNextPending, TypeOK
<1>6. ASSUME NEW p \in Processes, Prepare(p)
      PROVE  TypeOK'
  <2>1. PICK b \in Batches : b = daemon[p].batch
    BY <1>6, AtWork DEF Prepare
  <2> QED
    BY <1>6, <2>1, StatesType DEF TypeOK, Prepare, Become, Fault, NoFault
<1>7. ASSUME NEW p \in Processes, MoveToDone(p)
      PROVE  TypeOK'
  <2>1. PICK b \in Batches : b = daemon[p].batch
    BY <1>7, AtWork DEF MoveToDone
  <2> QED
    BY <1>7, <2>1, StatesType, MoveToStatusType
       DEF TypeOK, MoveToDone, Become, Fault, NoFault
<1>8. ASSUME NEW p \in Processes, MoveToPending(p)
      PROVE  TypeOK'
  <2>1. PICK b \in Batches : b = daemon[p].batch
    BY <1>8, AtWork DEF MoveToPending
  <2> QED
    BY <1>8, <2>1, StatesType, MoveToStatusType
       DEF TypeOK, MoveToPending, Become, Fault, NoFault
<1>9. ASSUME NEW p \in Processes, Restart(p)
      PROVE  TypeOK'
  BY <1>9, StatesType DEF TypeOK, Restart, Become, Fault
<1>10. ASSUME NEW b \in Batches, RetryDelayPasses(b)
       PROVE  TypeOK'
  BY Zenon, <1>10 DEF TypeOK, RetryDelayPasses, Row
<1>11. ASSUME NEW b \in Batches, BecomesStuck(b)
       PROVE  TypeOK'
  <2>1. rows' \in [Batches -> Row]
    BY Zenon, <1>11 DEF TypeOK, BecomesStuck, Row
  <2>2. faults' \in Nat
    BY <1>11 DEF TypeOK, BecomesStuck, Fault, NoFault
  <2> QED
    BY <1>11, <2>1, <2>2 DEF TypeOK, BecomesStuck
<1> QED
  BY <1>1, <1>2, <1>3, <1>4, <1>5, <1>6, <1>7, <1>8, <1>9, <1>10, <1>11
     DEF Next, Daemon, Time

--------------------------------------------------------------------------------
(* One lemma per action: it makes no more permits than failures, and a batch is   *)
(* moved only after it was announced.                                             *)

\* The second part of Inv.
Told(b) == rows[b].status = "done" \/ Moving(b) => prepared[b] > 0

Kept(b) == Counted(b) /\ Told(b)'

\* The steps of a daemon that is not at work on a batch, and goes on so.
LEMMA Elsewhere ==
    ASSUME Inv, TypeOK', NEW p \in Processes, NEW state, NEW b \in Batches,
           daemon' = [daemon EXCEPT ![p] = state],
           ~Busy(daemon[p], b), ~Busy(state, b),
           rows'[b] = rows[b], prepared'[b] = prepared[b], faults' >= faults
    PROVE  Kept(b)
<1>1. TypeOK /\ Told(b)
  BY DEF Inv, Told
<1>2. InProgress(b)' <=> InProgress(b)
  BY Zenon, <1>1, InProgressMove
<1>3. RowPermit(b)' = RowPermit(b)
  BY <1>2 DEF RowPermit
<1>4. RowPermit(b) \in {0, 1} /\ prepared[b] \in Nat /\ faults \in Nat /\ faults' \in Nat
  BY <1>1, RowPermitType DEF TypeOK
<1>5. Permit(daemon[p], b) = 0 /\ Permit(state, b) = 0
  BY DEF Permit, Busy
<1>6. Counted(b)
  <2>1. prepared'[b] + Permit(state, b) + RowPermit(b)' - faults' <=
           prepared[b] + Permit(daemon[p], b) + RowPermit(b) - faults
    BY <1>3, <1>4, <1>5
  <2> QED
    BY Zenon, <1>1, <2>1, CountedMove
<1>7. Moving(b)' => Moving(b)
  BY <1>1 DEF Moving, Busy, TypeOK
<1> QED
  BY <1>1, <1>6, <1>7 DEF Kept, Told

\* The steps that change a row only.
LEMMA RowsOnly ==
    ASSUME Inv, TypeOK', NEW b \in Batches, UNCHANGED <<daemon, prepared>>,
           RowPermit(b)' - faults' <= RowPermit(b) - faults,
           rows'[b].status = "done" => rows[b].status = "done"
    PROVE  Kept(b)
<1>1. TypeOK /\ Told(b)
  BY DEF Inv, Told
<1>2. Counted(b)
  BY <1>1, CountedRows
<1>3. Moving(b)' <=> Moving(b)
  BY DEF Moving
<1> QED
  BY <1>1, <1>2, <1>3 DEF Kept, Told

\* A batch that arrives brings its one permit with it, and a repeated message none.
LEMMA ReadyToPrepareKeeps ==
    ASSUME Inv, TypeOK', NEW p \in Processes, NEW x \in Batches, ReadyToPrepare(p, x),
           NEW b \in Batches
    PROVE  Kept(b)
<1>1. TypeOK
  BY DEF Inv
<1>2. /\ UNCHANGED <<daemon, prepared, faults>>
      /\ rows[x].status = "none"
      /\ rows' = [rows EXCEPT ![x].status = "pending"]
  BY DEF ReadyToPrepare, CreateUnpreparedBatch
<1>3. RowPermit(b) \in {0, 1} /\ RowPermit(b)' \in {0, 1} /\ faults \in Nat
  BY <1>1, RowPermitType DEF TypeOK
<1>4. InProgress(b)' <=> InProgress(b)
  BY <1>2 DEF InProgress
<1>5. CASE b = x
  <2>1. RowPermit(b) = 1
    BY <1>2, <1>5 DEF RowPermit
  <2>2. rows'[b].status = "pending"
    BY <1>1, <1>2, <1>5 DEF TypeOK, Row
  <2> QED
    BY <1>2, <1>3, <2>1, <2>2, RowsOnly
<1>6. CASE b # x
  <2>1. rows'[b] = rows[b]
    BY <1>1, <1>2, <1>6 DEF TypeOK
  <2>2. RowPermit(b)' = RowPermit(b)
    BY <1>4, <2>1 DEF RowPermit
  <2> QED
    BY <1>2, <1>3, <2>1, <2>2, RowsOnly
<1> QED
  BY <1>5, <1>6

\* StartDaemon and WakeUp.
LEMMA WakesUpKeeps ==
    ASSUME Inv, TypeOK', NEW p \in Processes, StartDaemon(p) \/ WakeUp(p),
           NEW b \in Batches
    PROVE  Kept(b)
<1>1. /\ ~Busy(daemon[p], b)
      /\ UNCHANGED <<rows, prepared, faults>>
      /\ \E state \in {At("waiting"), At("polling")} :
            daemon' = [daemon EXCEPT ![p] = state]
  BY DEF StartDaemon, WakeUp, At, Busy, Become
<1>2. PICK state \in {At("waiting"), At("polling")} :
            daemon' = [daemon EXCEPT ![p] = state]
  BY Zenon, <1>1
<1>3. ~Busy(state, b)
  BY <1>2 DEF At, Busy
<1>4. faults' >= faults
  BY <1>1 DEF Inv, TypeOK
<1> QED
  BY Zenon, <1>1, <1>2, <1>3, <1>4, Elsewhere

\* A claim turns the permit of the row into one of the daemon.
LEMMA GetNextPendingKeeps ==
    ASSUME Inv, TypeOK', NEW p \in Processes, GetNextPending(p), NEW b \in Batches
    PROVE  Kept(b)
<1>1. TypeOK /\ Told(b)
  BY DEF Inv, Told
<1>2. ~Busy(daemon[p], b) /\ Permit(daemon[p], b) = 0 /\ UNCHANGED prepared
  BY DEF GetNextPending, At, Busy, Permit
<1>3. faults \in Nat /\ prepared[b] \in Nat /\ faults' \in Nat
  BY <1>1 DEF TypeOK
<1>4. ASSUME NEW x \in Batches, Claimable(x),
             rows' = [rows EXCEPT ![x].status = "executing", ![x].stuck = FALSE],
             Become(p, With("preparing", x)), NoFault
      PROVE  Kept(b)
  <2>1. daemon' = [daemon EXCEPT ![p] = With("preparing", x)]
    BY <1>4 DEF Become
  <2>2. faults' = faults
    BY <1>4 DEF NoFault
  <2>3. CASE b = x
    <3>1. RowPermit(b) = 1
      BY <1>4, <2>3 DEF Claimable, RowPermit
    <3>2. rows'[b].status = "executing" /\ ~rows'[b].stuck
      BY <1>1, <1>4, <2>3 DEF TypeOK, Row
    <3>3. Busy(With("preparing", x), b) /\ Permit(With("preparing", x), b) = 1
      BY <2>3 DEF Busy, With, Permit
    <3>4. InProgress(b)'
      BY Zenon, <1>1, <2>1, <3>3, InProgressMove
    <3>5. RowPermit(b)' = 0
      BY <3>2, <3>4 DEF RowPermit
    <3>6. Counted(b)
      <4>1. prepared'[b] + Permit(With("preparing", x), b) + RowPermit(b)' - faults' <=
               prepared[b] + Permit(daemon[p], b) + RowPermit(b) - faults
        BY <1>2, <1>3, <2>2, <3>1, <3>3, <3>5
      <4> QED
        BY Zenon, <1>1, <2>1, <4>1, CountedMove
    <3>7. Moving(b)' => Moving(b)
      BY <1>1, <2>1 DEF Moving, With, TypeOK
    <3> QED
      BY <1>1, <1>2, <3>2, <3>6, <3>7 DEF Kept, Told
  <2>4. CASE b # x
    <3>1. rows'[b] = rows[b]
      BY <1>1, <1>4, <2>4 DEF TypeOK
    <3>2. ~Busy(With("preparing", x), b)
      BY <2>4 DEF Busy, With
    <3>3. prepared'[b] = prepared[b] /\ faults' >= faults
      BY <1>2, <1>3, <2>2
    <3> QED
      BY Zenon, <1>2, <2>1, <3>1, <3>2, <3>3, Elsewhere
  <2> QED
    BY <2>3, <2>4
<1>5. ASSUME Become(p, At("waiting")), UNCHANGED rows, NoFault \/ Fault
      PROVE  Kept(b)
  <2>1. daemon' = [daemon EXCEPT ![p] = At("waiting")] /\ ~Busy(At("waiting"), b)
    BY <1>5 DEF Become, At, Busy
  <2>2. faults' >= faults
    BY <1>3, <1>5 DEF NoFault, Fault
  <2> QED
    BY Zenon, <1>2, <1>5, <2>1, <2>2, Elsewhere
<1> QED
  BY <1>4, <1>5, Zenon DEF GetNextPending

\* An announcement uses the permit of the daemon up; when something fails there is
\* one more failure.
LEMMA PrepareKeeps ==
    ASSUME Inv, TypeOK', NEW p \in Processes, Prepare(p), NEW b \in Batches
    PROVE  Kept(b)
<1>1. TypeOK /\ Told(b)
  BY DEF Inv, Told
<1>2. daemon[p].step = "preparing" /\ UNCHANGED rows
  BY DEF Prepare
<1>3. PICK x \in Batches : x = daemon[p].batch
  BY <1>1, <1>2, AtWork
<1>4. /\ faults \in Nat /\ prepared[b] \in Nat /\ prepared[x] \in Nat
      /\ faults' \in Nat /\ RowPermit(b) \in {0, 1}
  BY <1>1, RowPermitType DEF TypeOK
<1>5. PICK step \in {"moving", "failed"} :
         /\ daemon' = [daemon EXCEPT ![p] = With(step, x)]
         /\ \/ /\ step = "moving" /\ faults' = faults
               /\ prepared' = [prepared EXCEPT ![x] = @ + 1]
            \/ /\ step = "failed" /\ faults' = faults + 1
               /\ prepared' \in {prepared, [prepared EXCEPT ![x] = @ + 1]}
  BY <1>3, Zenon DEF Prepare, Become, NoFault, Fault
<1>6. CASE b # x
  <2>1. prepared'[b] = prepared[b] /\ faults' >= faults
    BY <1>1, <1>4, <1>5, <1>6 DEF TypeOK
  <2>2. ~Busy(daemon[p], b) /\ ~Busy(With(step, x), b)
    BY <1>3, <1>6 DEF Busy, With
  <2> QED
    BY Zenon, <1>2, <1>5, <2>1, <2>2, Elsewhere
<1>7. CASE b = x
  <2>1. /\ Busy(daemon[p], b) /\ Busy(With(step, x), b)
        /\ Permit(daemon[p], b) = 1
        /\ Permit(With(step, x), b) = IF step = "failed" THEN 1 ELSE 0
    BY <1>2, <1>3, <1>5, <1>7 DEF Busy, With, Permit
  <2>2. InProgress(b)' <=> InProgress(b)
    BY Zenon, <1>1, <1>5, <2>1, InProgressMove
  <2>3. RowPermit(b)' = RowPermit(b)
    BY <1>2, <2>2 DEF RowPermit
  <2>4. /\ prepared'[b] \in {prepared[b], prepared[b] + 1}
        /\ step = "moving" => prepared'[b] = prepared[b] + 1 /\ faults' = faults
        /\ step = "failed" => faults' = faults + 1
    BY <1>1, <1>5, <1>7 DEF TypeOK
  <2>5. prepared'[b] + Permit(With(step, x), b) + RowPermit(b)' - faults' <=
           prepared[b] + Permit(daemon[p], b) + RowPermit(b) - faults
    <3>1. step \in {"moving", "failed"}
      BY <1>5
    <3> QED
      BY <1>4, <2>1, <2>3, <2>4, <3>1
  <2>6. Counted(b)
    BY Zenon, <1>1, <1>5, <2>5, CountedMove
  <2>7. CASE step = "moving"
    BY <1>4, <2>4, <2>6, <2>7 DEF Kept, Told
  <2>8. CASE step = "failed"
    <3>1. Moving(b)' => Moving(b)
      BY <1>1, <1>5, <2>8 DEF Moving, With, TypeOK
    <3> QED
      BY <1>1, <1>2, <1>4, <2>4, <2>6, <3>1 DEF Kept, Told
  <2> QED
    BY <1>5, <2>7, <2>8
<1> QED
  BY <1>6, <1>7

\* The permit of a daemon that failed goes back to the row.  The write that marks the
\* batch as done takes one away.
LEMMA MovesKeep ==
    ASSUME Inv, TypeOK', NEW p \in Processes, MoveToDone(p) \/ MoveToPending(p),
           NEW b \in Batches
    PROVE  Kept(b)
<1>1. TypeOK /\ Told(b)
  BY DEF Inv, Told
<1>2. daemon[p].step \in {"moving", "failed"} /\ UNCHANGED prepared
  BY DEF MoveToDone, MoveToPending
<1>3. PICK x \in Batches : x = daemon[p].batch
  BY <1>1, <1>2, AtWork
<1>4. /\ faults \in Nat /\ prepared[b] \in Nat /\ faults' \in Nat
      /\ RowPermit(b) \in {0, 1} /\ RowPermit(b)' \in {0, 1}
  BY <1>1, RowPermitType DEF TypeOK
<1>5. PICK state \in {At("polling"), At("waiting"), With("failed", x)} :
         /\ daemon' = [daemon EXCEPT ![p] = state]
         /\ \/ /\ daemon[p].step = "moving" /\ state = At("polling")
               /\ rows' = MoveToStatus(x, "done") /\ faults' = faults
            \/ /\ daemon[p].step = "moving" /\ state = With("failed", x)
               /\ rows' \in {rows, MoveToStatus(x, "done")} /\ faults' = faults + 1
            \/ /\ daemon[p].step = "failed" /\ state = At("waiting")
               /\ rows' = MoveToStatus(x, "pending") /\ faults' = faults
            \/ /\ daemon[p].step = "failed" /\ state = At("waiting")
               /\ rows' = rows /\ faults' = faults + 1
  BY <1>3, Zenon DEF MoveToDone, MoveToPending, Become, NoFault, Fault
<1>6. CASE b # x
  <2>1. rows'[b] = rows[b] /\ prepared'[b] = prepared[b]
    BY <1>1, <1>2, <1>5, <1>6, MoveToStatusType
  <2>2. ~Busy(daemon[p], b) /\ ~Busy(state, b)
    <3>1. ~Busy(daemon[p], b)
      BY <1>3, <1>6 DEF Busy
    <3>2. ~Busy(At("polling"), b) /\ ~Busy(At("waiting"), b)
      BY DEF Busy, At
    <3>3. ~Busy(With("failed", x), b)
      BY <1>6 DEF Busy, With
    <3> QED
      BY <1>5, <3>1, <3>2, <3>3
  <2>3. faults' >= faults
    BY <1>4, <1>5
  <2> QED
    BY Zenon, <1>5, <2>1, <2>2, <2>3, Elsewhere
<1>7. CASE b = x
  <2>1. /\ daemon[p].step = "failed" => Permit(daemon[p], b) = 1
        /\ daemon[p].step = "moving" => Permit(daemon[p], b) = 0
        /\ state = With("failed", x) => Permit(state, b) = 1 /\ Busy(state, b)
        /\ state \in {At("polling"), At("waiting")} => Permit(state, b) = 0
        /\ Busy(daemon[p], b)
    <3>1. /\ daemon[p].step = "failed" => Permit(daemon[p], b) = 1
          /\ daemon[p].step = "moving" => Permit(daemon[p], b) = 0
      BY <1>3, <1>7 DEF Permit
    <3>2. Busy(daemon[p], b)
      BY <1>2, <1>3, <1>7 DEF Busy
    <3>3. Permit(With("failed", x), b) = 1 /\ Busy(With("failed", x), b)
      BY <1>7 DEF Permit, Busy, With
    <3>4. Permit(At("polling"), b) = 0 /\ Permit(At("waiting"), b) = 0
      BY DEF Permit, At
    <3> QED
      BY <3>1, <3>2, <3>3, <3>4
  <2>2. /\ MoveToStatus(b, "done")[b].status = "done"
        /\ MoveToStatus(b, "pending")[b].status = "pending"
    BY <1>1, MoveToStatusType
  <2>3. rows'[b].status = "done" => RowPermit(b)' = 0
    BY DEF RowPermit
  <2>4. rows' = rows /\ state = With("failed", x) => RowPermit(b)' = RowPermit(b)
    <3>1. state = With("failed", x) => (InProgress(b)' <=> InProgress(b))
      BY Zenon, <1>1, <1>5, <2>1, InProgressMove
    <3> QED
      BY <3>1 DEF RowPermit
  <2>5. Permit(state, b) + RowPermit(b)' - faults' <=
           Permit(daemon[p], b) + RowPermit(b) - faults
    <3>1. CASE daemon[p].step = "moving" /\ state = At("polling")
      <4>1. rows' = MoveToStatus(x, "done") /\ faults' = faults
        BY <1>5, <3>1 DEF At, With
      <4>2. RowPermit(b)' = 0
        BY <1>7, <2>2, <2>3, <4>1
      <4>3. Permit(state, b) = 0 /\ Permit(daemon[p], b) = 0
        BY <2>1, <3>1
      <4> QED
        BY <1>4, <4>1, <4>2, <4>3
    <3>2. CASE daemon[p].step = "moving" /\ state = With("failed", x)
      <4>1. rows' \in {rows, MoveToStatus(x, "done")} /\ faults' = faults + 1
        BY <1>5, <3>2 DEF At, With
      <4>2. RowPermit(b)' \in {0, RowPermit(b)}
        BY <1>7, <2>2, <2>3, <2>4, <3>2, <4>1
      <4>3. Permit(state, b) = 1 /\ Permit(daemon[p], b) = 0
        BY <2>1, <3>2
      <4> QED
        BY <1>4, <4>1, <4>2, <4>3
    <3>3. CASE daemon[p].step = "failed" /\ state = At("waiting")
      <4>1. \/ faults' = faults
            \/ faults' = faults + 1
        BY <1>5
      <4> QED
        BY <1>4, <2>1, <3>3, <4>1
    <3>4. \/ daemon[p].step = "moving" /\ state \in {At("polling"), With("failed", x)}
          \/ daemon[p].step = "failed" /\ state = At("waiting")
      BY <1>5
    <3> QED
      BY <3>1, <3>2, <3>3, <3>4
  <2>6. Counted(b)
    <3>1. Permit(state, b) \in {0, 1} /\ Permit(daemon[p], b) \in {0, 1}
      BY DEF Permit
    <3>2. prepared'[b] + Permit(state, b) + RowPermit(b)' - faults' <=
             prepared[b] + Permit(daemon[p], b) + RowPermit(b) - faults
      BY <1>2, <1>4, <2>5, <3>1
    <3>3. daemon' = [daemon EXCEPT ![p] = state]
      BY <1>5
    <3> QED
      BY Zenon, <1>1, <3>2, <3>3, CountedMove
  <2>7. Moving(b)' => Moving(b)
    <3>1. daemon' = [daemon EXCEPT ![p] = state] /\ state.step # "moving"
      BY <1>5 DEF With, At
    <3> QED
      BY <1>1, <3>1 DEF Moving, TypeOK
  <2>8. rows'[b].status = "done" => rows[b].status = "done" \/ Moving(b)
    <3>1. daemon[p].step = "moving" => Moving(b)
      BY <1>3, <1>7 DEF Moving
    <3> QED
      BY <1>5, <1>7, <2>2, <3>1
  <2> QED
    BY <1>1, <1>2, <2>6, <2>7, <2>8 DEF Kept, Told
<1> QED
  BY <1>6, <1>7

\* A restart is a failure: it may leave the row to be claimed again.
LEMMA RestartKeeps ==
    ASSUME Inv, TypeOK', NEW p \in Processes, Restart(p), NEW b \in Batches
    PROVE  Kept(b)
<1>1. TypeOK /\ Told(b)
  BY DEF Inv, Told
<1>2. /\ daemon' = [daemon EXCEPT ![p] = At("starting")]
      /\ UNCHANGED <<rows, prepared>>
      /\ faults' = faults + 1
  BY DEF Restart, Become, Fault
<1>3. /\ faults \in Nat /\ prepared[b] \in Nat
      /\ RowPermit(b) \in {0, 1} /\ RowPermit(b)' \in {0, 1}
  BY <1>1, RowPermitType DEF TypeOK
<1>4. Permit(At("starting"), b) = 0 /\ Permit(daemon[p], b) \in {0, 1}
  BY DEF Permit, At
<1>5. prepared'[b] + Permit(At("starting"), b) + RowPermit(b)' - faults' <=
         prepared[b] + Permit(daemon[p], b) + RowPermit(b) - faults
  BY <1>2, <1>3, <1>4
<1>6. Counted(b)
  BY Zenon, <1>1, <1>2, <1>5, CountedMove
<1>7. Moving(b)' => Moving(b)
  BY <1>1, <1>2 DEF Moving, At, TypeOK
<1> QED
  BY <1>1, <1>2, <1>6, <1>7 DEF Kept, Told

\* Time makes a permit only out of a slow daemon, which is a failure.
LEMMA TimeKeeps ==
    ASSUME Inv, TypeOK', NEW x \in Batches, Time(x), NEW b \in Batches
    PROVE  Kept(b)
<1>1. TypeOK
  BY DEF Inv
<1>2. UNCHANGED <<daemon, prepared>>
  BY DEF Time, RetryDelayPasses, BecomesStuck
<1>3. InProgress(b)' <=> InProgress(b)
  BY <1>2 DEF InProgress
<1>4. /\ faults \in Nat /\ faults' \in Nat
      /\ RowPermit(b) \in {0, 1} /\ RowPermit(b)' \in {0, 1}
  BY <1>1, RowPermitType DEF TypeOK
<1>5. faults' \in {faults, faults + 1}
  BY DEF Time, RetryDelayPasses, BecomesStuck, Fault, NoFault
<1>6. rows[b] \in Row /\ rows[x] \in Row
  BY <1>1 DEF TypeOK
<1>7. rows'[b].status = rows[b].status
  BY <1>1, <1>6 DEF Time, RetryDelayPasses, BecomesStuck, TypeOK, Row
<1>8. RowPermit(b)' - faults' <= RowPermit(b) - faults
  <2>1. CASE rows'[b].stuck = rows[b].stuck
    <3>1. RowPermit(b)' = RowPermit(b)
      BY <1>3, <1>7, <2>1 DEF RowPermit
    <3> QED
      BY <1>4, <1>5, <3>1
  <2>2. CASE rows'[b].stuck # rows[b].stuck
    <3>1. BecomesStuck(x) /\ b = x
      BY <1>1, <1>6, <2>2 DEF Time, RetryDelayPasses, BecomesStuck, TypeOK, Row
    <3>2. CASE InProgress(b)
      <4>1. faults' = faults + 1
        BY <3>1, <3>2 DEF BecomesStuck, Fault
      <4> QED
        BY <1>4, <4>1
    <3>3. CASE ~InProgress(b)
      <4>1. RowPermit(b) = 1
        BY <3>1, <3>3 DEF BecomesStuck, RowPermit
      <4> QED
        BY <1>4, <1>5, <4>1
    <3> QED
      BY <3>2, <3>3
  <2> QED
    BY <2>1, <2>2
<1> QED
  BY <1>2, <1>7, <1>8, RowsOnly

--------------------------------------------------------------------------------
\* Nothing has arrived yet.
LEMMA InvInit == Init => Inv
<1> SUFFICES ASSUME Init PROVE Inv
  OBVIOUS
<1>1. TypeOK
  BY DEF Init, TypeOK, Row, DaemonState
<1>2. ASSUME NEW b \in Batches
      PROVE  /\ prepared[b] + Permits(b) <= 1 + faults
             /\ rows[b].status = "done" \/ Moving(b) => prepared[b] > 0
  <2>1. Holders(b) = {}
    BY DEF Init, Holders, Holds, At
  <2>2. Cardinality(Holders(b)) = 0
    BY <2>1, FS_EmptySet
  <2>3. RowPermit(b) \in {0, 1}
    BY RowPermitType
  <2>4. prepared[b] = 0 /\ faults = 0 /\ rows[b].status = "none" /\ ~Moving(b)
    BY DEF Init, Moving, At
  <2> QED
    BY <2>2, <2>3, <2>4 DEF Permits
<1> QED
  BY <1>1, <1>2 DEF Inv

\* Every step keeps the invariant: one lemma for each kind of action.
LEMMA InvKept == Inv /\ [Next]_vars => Inv'
<1> SUFFICES ASSUME Inv, [Next]_vars PROVE Inv'
  OBVIOUS
<1>1. TypeOK /\ TypeOK'
  BY TypeKept DEF Inv
<1>2. ASSUME NEW b \in Batches
      PROVE  Kept(b)
  <2>1. CASE UNCHANGED vars
    <3>1. UNCHANGED <<daemon, prepared, rows, faults>>
      BY <2>1 DEF vars
    <3>2. RowPermit(b)' = RowPermit(b) /\ RowPermit(b) \in {0, 1} /\ faults \in Nat
      BY <1>1, <3>1, RowPermitType DEF RowPermit, InProgress, TypeOK
    <3>3. RowPermit(b)' - faults' <= RowPermit(b) - faults
      BY <3>1, <3>2
    <3> QED
      BY <1>1, <3>1, <3>3, RowsOnly
  <2>2. ASSUME NEW p \in Processes, NEW x \in Batches, ReadyToPrepare(p, x)
        PROVE  Kept(b)
    BY <1>1, <2>2, ReadyToPrepareKeeps
  <2>3. ASSUME NEW p \in Processes, Daemon(p)
        PROVE  Kept(b)
    BY <1>1, <2>3, WakesUpKeeps, GetNextPendingKeeps, PrepareKeeps, MovesKeep
       DEF Daemon
  <2>4. ASSUME NEW p \in Processes, Restart(p)
        PROVE  Kept(b)
    BY <1>1, <2>4, RestartKeeps
  <2>5. ASSUME NEW x \in Batches, Time(x)
        PROVE  Kept(b)
    BY <1>1, <2>5, TimeKeeps
  <2> QED
    BY <2>1, <2>2, <2>3, <2>4, <2>5 DEF Next
<1>3. ASSUME NEW b \in Batches
      PROVE  (prepared[b] + Permits(b) <= 1 + faults)'
  <2>1. /\ prepared[b] \in Nat /\ prepared'[b] \in Nat
        /\ faults \in Nat /\ faults' \in Nat
    BY <1>1 DEF TypeOK
  <2>2. RowPermit(b) \in {0, 1} /\ RowPermit(b)' \in {0, 1}
    BY RowPermitType
  <2>3. Cardinality(Holders(b)) \in Nat
    BY HoldersFinite
  <2>4. (Cardinality(Holders(b)) \in Nat)'
    BY HoldersFinite, PTL
  <2>5. Permits(b) \in Nat /\ Permits(b)' \in Nat
    BY <2>2, <2>3, <2>4 DEF Permits
  <2>6. prepared[b] + Permits(b) <= 1 + faults
    BY DEF Inv
  <2>7. prepared'[b] + Permits(b)' - faults' <= prepared[b] + Permits(b) - faults
    BY <1>2 DEF Kept, Counted
  <2> QED
    BY <2>1, <2>5, <2>6, <2>7
<1>4. \A b \in Batches : Told(b)'
  BY <1>2 DEF Kept
<1> QED
  BY <1>1, <1>3, <1>4 DEF Inv, Told

\* A batch that piecerd marks as done was announced as prepared, and each further
\* announcement has a failed call, a restart or a slow daemon as its cause, for every
\* set of batches and every finite set of processes.
THEOREM DoneAlwaysPrepared == Spec => []DoneIsPrepared
<1>1. Inv => DoneIsPrepared
  <2> SUFFICES ASSUME Inv, NEW b \in Batches
               PROVE  /\ rows[b].status = "done" => prepared[b] > 0
                      /\ prepared[b] <= 1 + faults
    BY DEF DoneIsPrepared
  <2>1. prepared[b] \in Nat /\ faults \in Nat
    BY DEF Inv, TypeOK
  <2>2. RowPermit(b) \in {0, 1} /\ Cardinality(Holders(b)) \in Nat
    BY RowPermitType, HoldersFinite
  <2>3. Permits(b) \in Nat
    BY <2>2 DEF Permits
  <2> QED
    BY <2>1, <2>3 DEF Inv
<1> QED
  BY <1>1, InvInit, InvKept, PTL DEF Spec

================================================================================
