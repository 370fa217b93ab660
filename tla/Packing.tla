--------------------------------- MODULE Packing ---------------------------------
(***************************************************************************)
(* What packerd promises brokerd: every batch is announced once, with      *)
(* requests that no other batch was announced with.  An entry is a storage *)
(* request together with the operation that made it ready to batch.        *)
(***************************************************************************)
EXTENDS Naturals, Sequences

CONSTANTS
    BatchIDs,
    Entries      \* the <<operation, request>> pairs to batch

VARIABLE announced   \* the new-batch-created messages, in order

Batched == UNION {announced[i].entries : i \in DOMAIN announced}

Announce(b, entries) ==
    /\ entries # {}
    /\ \A i \in DOMAIN announced : announced[i].batch # b
    /\ announced' = Append(announced, [batch |-> b, entries |-> entries])

Init == announced = <<>>

Next == \E b \in BatchIDs, entries \in SUBSET (Entries \ Batched) :
            Announce(b, entries)

Spec == Init /\ [][Next]_announced

================================================================================
