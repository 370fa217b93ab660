---------------------------------- MODULE Cast ----------------------------------
(***************************************************************************)
(* What a client is shown of a storage request: brokerd turns the request  *)
(* into a protobuf message (cmd/brokerd/cast), its client turns that back, *)
(* storaged renames the status.                                            *)
(***************************************************************************)
EXTENDS Naturals, Convert

\* The statuses in the order of the protobuf enumeration, whose 0 is UNSPECIFIED.
Statuses == <<"batching", "preparing", "auctioning", "deal_making", "success", "error">>

StorageStatuses == <<"Batching", "Preparing", "Auctioning", "DealMaking", "Success",
                     "Error">>

\* Mutant: the enumeration is off by one.
StorageRequestToProtoShifted(sr) ==
    [id |-> sr.id, dataCid |-> Bytes(sr.dataCid),
     status |-> CHOOSE n \in 1..6 : n = 6 \/ Statuses[n + 1] = sr.status]

StorageRequestToProto(sr) ==
    [id |-> sr.id, dataCid |-> Bytes(sr.dataCid),
     status |-> CHOOSE n \in DOMAIN Statuses : Statuses[n] = sr.status]

FromProtoStorageRequest(p) ==
    [id |-> p.id, dataCid |-> Parse(p.dataCid), status |-> Statuses[p.status]]

\* storageRequestStatusToStorageRequestStatus.
StorageStatus(status) ==
    LET n == CHOOSE k \in DOMAIN Statuses : Statuses[k] = status
    IN  StorageStatuses[n]

\* What storaged answers about the request br it got from brokerd.
ToRequest(br) ==
    [id |-> br.id, cid |-> br.dataCid, status |-> StorageStatus(br.status)]

\* A request with its deals.
StorageRequestInfoToProto(info) ==
    [storageRequest |-> StorageRequestToProto(info.request),
     deals |-> {[storageProviderId |-> d.sp, dealId |-> d.dealID] : d \in info.deals}]

FromProtoStorageRequestInfo(p) ==
    [request |-> FromProtoStorageRequest(p.storageRequest),
     deals |-> {[sp |-> d.storageProviderId, dealID |-> d.dealId] : d \in p.deals}]

================================================================================
