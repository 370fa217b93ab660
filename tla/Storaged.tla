-------------------------------- MODULE Storaged --------------------------------
(***************************************************************************)
(* What happens to a request for a prepared CAR on its way from the body   *)
(* of POST /auction-data to the tables of brokerd: storaged parses it, its *)
(* client of brokerd turns it into a protobuf message, brokerd parses that *)
(* again, the store turns it into columns and back.                        *)
(* Absent is a nil pointer or an empty string.                             *)
(***************************************************************************)
EXTENDS Integers, Convert, TLC

CONSTANTS
    PieceCids,       \* cids with the codec fil-commitment-unsealed
    MaxPieceSize     \* broker.MaxPieceSize

ASSUME StoragedAssumption == MaxPieceSize \in Nat

IsPowerOfTwo(n) == \E k \in 0..n : n = 2 ^ k

IdAddress(p) == <<"f0", p>>

IsIdAddress(addr) == addr[1] = "f0"

\* An URL is its scheme and the rest.
IsHTTP(url) == url[1] \in {"http", "https"}

--------------------------------------------------------------------------------
(* storaged. *)

\* parseSources.
SourcesParse(adr) ==
    /\ adr.carURL # Absent => Parses(adr.carURL[1]) /\ IsHTTP(Parse(adr.carURL[1]))
    /\ adr.carIPFS # Absent => /\ Parses(adr.carIPFS[1].cid)
                               /\ ParsesAll(adr.carIPFS[1].maddrs)

ParseSources(adr) ==
    [carURL  |-> IF adr.carURL = Absent THEN Absent
                 ELSE Present(Parse(adr.carURL[1])),
     carIPFS |-> IF adr.carIPFS = Absent THEN Absent
                 ELSE Present([cid |-> Parse(adr.carIPFS[1].cid),
                               maddrs |-> ParseAll(adr.carIPFS[1].maddrs)])]

\* parseRemoteWallet.
RemoteWalletParses(w) ==
    w # Absent => /\ Parses(w[1].peer)
                  /\ w[1].token # ""
                  /\ Parses(w[1].addr)
                  /\ ParsesAll(w[1].maddrs)

ParseRemoteWallet(w) ==
    IF w = Absent THEN Absent
    ELSE Present([peer |-> Parse(w[1].peer), token |-> w[1].token,
                  addr |-> Parse(w[1].addr), maddrs |-> ParseAll(w[1].maddrs)])

\* The test for repeated elements looks at a slot that is still empty, and finds
\* none.
ProvidersParse(providers) ==
    ParsesAll(providers) /\ \A i \in DOMAIN providers : IsIdAddress(Parse(providers[i]))

\* The conditions of CreateFromExternalSource, without the connection to the
\* wallet.  A size of 0 passes.
ExternalSourceValid(adr, origin) ==
    /\ Parses(adr.payloadCid)
    /\ Parses(adr.pieceCid) /\ Parse(adr.pieceCid) \in PieceCids
    /\ adr.pieceSize = 0 \/ IsPowerOfTwo(adr.pieceSize)
    /\ adr.pieceSize <= MaxPieceSize
    /\ adr.repFactor >= 0
    /\ adr.deadline # Absent => Parses(adr.deadline)
    /\ SourcesParse(adr)
    /\ adr.carURL # Absent \/ adr.carIPFS # Absent
    /\ origin # Absent
    /\ ProvidersParse(adr.providers)
    /\ adr.providers # <<>> => adr.repFactor <= Len(adr.providers)
    /\ RemoteWalletParses(adr.wallet)

\* The list is sorted, by the digits of the id.
SortProviders(ps) == SortSeq(ps, LAMBDA p, q : p[2] < q[2])

\* The zero time stands for no deadline.
ZeroTime == 0 - 1

\* The prepared CAR, the metadata and the wallet storaged passes on.
ParseExternalSource(adr, origin) ==
    [payloadCid |-> Parse(adr.payloadCid),
     pieceCid   |-> Parse(adr.pieceCid),
     pieceSize  |-> adr.pieceSize,
     repFactor  |-> adr.repFactor,
     deadline   |-> IF adr.deadline = Absent THEN ZeroTime ELSE Parse(adr.deadline),
     offset     |-> adr.hours,
     sources    |-> ParseSources(adr),
     origin     |-> origin,
     tags       |-> adr.tags,
     providers  |-> SortProviders(ParseAll(adr.providers)),
     wallet     |-> ParseRemoteWallet(adr.wallet)]

--------------------------------------------------------------------------------
(* brokerd's client and service. *)

\* Mutant: only one kind of source is sent.
ToProtoOneSource(pc) ==
    [pc EXCEPT !.payloadCid = Text(pc.payloadCid),
               !.pieceCid   = Text(pc.pieceCid),
               !.sources    =
                  [carURL  |-> IF pc.sources.carURL = Absent THEN Absent
                               ELSE Present(Text(pc.sources.carURL[1])),
                   carIPFS |-> Absent],
               !.providers  = TextAll(pc.providers),
               !.wallet     = Absent]

\* client.CreatePrepared: timestamps and durations keep their values.
ToProto(pc) ==
    [pc EXCEPT !.payloadCid = Text(pc.payloadCid),
               !.pieceCid   = Text(pc.pieceCid),
               !.sources    =
                  [carURL  |-> IF pc.sources.carURL = Absent THEN Absent
                               ELSE Present(Text(pc.sources.carURL[1])),
                   carIPFS |-> IF pc.sources.carIPFS = Absent THEN Absent
                               ELSE LET ipfs == pc.sources.carIPFS[1]
                                    IN  Present([cid |-> Text(ipfs.cid),
                                                 maddrs |-> TextAll(ipfs.maddrs)])],
               !.providers  = TextAll(pc.providers),
               !.wallet     =
                  IF pc.wallet = Absent THEN Absent
                  ELSE LET w == pc.wallet[1]
                       IN  Present([peer |-> Text(w.peer), token |-> w.token,
                                    addr |-> Text(w.addr),
                                    maddrs |-> TextAll(w.maddrs)])]

\* parsePreparedCAR.  fetched: the sources passed the test that brokerd makes when
\* no provider is targeted.
PreparedCARParses(r, fetched) ==
    /\ Parses(r.pieceCid) /\ Parse(r.pieceCid) \in PieceCids
    /\ r.pieceSize > 0 /\ IsPowerOfTwo(r.pieceSize) /\ r.pieceSize <= MaxPieceSize
    /\ r.repFactor >= 0
    /\ SourcesParse(r.sources)
    /\ r.sources.carURL # Absent \/ r.sources.carIPFS # Absent
    /\ r.providers = <<>> => fetched

ParsePreparedCAR(r) ==
    [pieceCid  |-> Parse(r.pieceCid),
     pieceSize |-> r.pieceSize,
     repFactor |-> r.repFactor,
     deadline  |-> r.deadline,
     offset    |-> r.offset,
     sources   |-> ParseSources(r.sources)]

\* parseRemoteWallet of the service.
ParseProtoWallet(w) ==
    IF w = Absent THEN Absent
    ELSE Present([peer |-> Parse(w[1].peer), addr |-> Parse(w[1].addr),
                  token |-> w[1].token, maddrs |-> ParseAll(w[1].maddrs)])

\* CreatePreparedStorageRequest returns InvalidArgument for the others.
ProtoValid(r, fetched) ==
    /\ Parses(r.payloadCid)
    /\ PreparedCARParses(r, fetched)
    /\ r.origin # Absent
    /\ ProvidersParse(r.providers)
    /\ RemoteWalletParses(r.wallet)

\* The metadata of CreatePreparedStorageRequest: the loop over the tags runs over
\* the new, empty map.
ParseMetadata(r) ==
    [origin |-> r.origin, tags |-> {}, providers |-> ParseAll(r.providers)]

--------------------------------------------------------------------------------
(* broker.CreatePrepared: the batch. *)

EpochSeconds == 30

\* timeToFilEpoch, with times counted from the genesis block.  An epoch that is
\* not positive is an error.
TimeToFilEpoch(t) == t \div EpochSeconds

\* defaults holds the configured rep factor, deadline and offset.
DeadlineEpoch(pc, defaults) ==
    TimeToFilEpoch(IF pc.deadline = ZeroTime THEN defaults.deadline ELSE pc.deadline)

Acceptable(pc, defaults) == pc.offset >= 0 /\ DeadlineEpoch(pc, defaults) > 0

BatchOf(payloadCid, pc, meta, defaults) ==
    [payloadCid |-> payloadCid,
     pieceCid   |-> pc.pieceCid,
     pieceSize  |-> pc.pieceSize,
     repFactor  |-> IF pc.repFactor = 0 THEN defaults.repFactor ELSE pc.repFactor,
     deadline   |-> DeadlineEpoch(pc, defaults),
     offset     |-> IF pc.offset = 0 THEN defaults.offset ELSE pc.offset,
     sources    |-> pc.sources,
     origin     |-> meta.origin,
     tags       |-> meta.tags,
     providers  |-> meta.providers]

--------------------------------------------------------------------------------
(* The store of brokerd. *)

\* CreateBatch: an empty column stands for what is absent.
BatchColumns(ba) ==
    [ba EXCEPT !.payloadCid = Text(ba.payloadCid),
               !.pieceCid   = Text(ba.pieceCid),
               !.sources    =
                  LET ipfs == ba.sources.carIPFS
                  IN  [carUrl       |-> IF ba.sources.carURL = Absent THEN Absent
                                        ELSE Text(ba.sources.carURL[1]),
                       carIpfsCid   |-> IF ipfs = Absent THEN Absent
                                        ELSE Text(ipfs[1].cid),
                       carIpfsAddrs |-> IF ipfs = Absent THEN <<>>
                                        ELSE TextAll(ipfs[1].maddrs)],
               !.providers  = TextAll(ba.providers)]

\* The tables batches and batch_remote_wallet: key -> columns, or nothing.
NoRow == <<>>

InsertBatch(t, b, columns) == [t EXCEPT !.batches[b] = columns]

GetBatch(t, b) == t.batches[b]

InsertRemoteWallet(t, b, columns) == [t EXCEPT !.wallets[b] = columns]

GetBatchRemoteWallet(t, b) == t.wallets[b]

\* batchFromDB.  The addresses are one column, separated by commas: an empty one
\* is split into one address that does not parse.
BatchReadable(row) == row.sources.carIpfsCid # Absent => row.sources.carIpfsAddrs # <<>>

BatchFromDB(row) ==
    [row EXCEPT !.payloadCid = Parse(row.payloadCid),
                !.pieceCid   = Parse(row.pieceCid),
                !.sources    =
                   [carURL  |-> IF row.sources.carUrl = Absent THEN Absent
                                ELSE Present(Parse(row.sources.carUrl)),
                    carIPFS |-> IF row.sources.carIpfsCid = Absent THEN Absent
                                ELSE Present([cid |-> Parse(row.sources.carIpfsCid),
                                              maddrs |-> ParseAll(row.sources.carIpfsAddrs)])],
                !.providers  = ParseAll(row.providers)]

\* A batch without a wallet has no row there.
WalletColumns(w) ==
    IF w = Absent THEN Absent
    ELSE Present([peer |-> Text(w[1].peer), token |-> w[1].token,
                  addr |-> Text(w[1].addr), maddrs |-> TextAll(w[1].maddrs)])

GetRemoteWalletConfig(row) ==
    IF row = Absent THEN Absent
    ELSE Present([peer |-> Parse(row[1].peer), token |-> row[1].token,
                  addr |-> Parse(row[1].addr), maddrs |-> ParseAll(row[1].maddrs)])

================================================================================
