---------------------------------- MODULE Front ----------------------------------
(***************************************************************************)
(* POST /auction-data, from the HTTP request of a client to the rows of    *)
(* brokerd and back: storaged, authd, the chain APIs and the gRPC service  *)
(* of brokerd, with the clock and the contracts moving in between.         *)
(*                                                                         *)
(* A call is at the daemon that has to answer next.  Each daemon calls the *)
(* next one over gRPC; a failed call, or a lost answer, counts in          *)
(* rpcFaults.  An input is a method, the Authorization headers (each a     *)
(* list of the words in it, a token the last one), and a body, which is    *)
(* JSON of the right form or not.                                          *)
(***************************************************************************)
EXTENDS Broker, Auth, Storaged, Cast

CONSTANTS
    Calls,
    InputsOf,      \* call -> the inputs it may have
    Defaults       \* the configured deadline and offset of a batch

VARIABLES
    call,          \* what each call is at
    saved          \* the tables with the columns that Broker abstracts from

frontVars == <<call, saved>>

NoRequest == <<>>

NotMade == [step |-> "none"]

FrontInit ==
    /\ BrokerInit
    /\ ChainInit
    /\ call = [c \in Calls |-> NotMade]
    /\ saved = [batches |-> [b \in Batches |-> NoRow],
                wallets |-> [b \in Batches |-> NoRow]]

topicVars == <<late, newBatchCreated, newBatchPrepared, auctionClosed,
               finalizedDeal>>

--------------------------------------------------------------------------------
(* Moving a call. *)

GoesTo(c, step) == call' = [call EXCEPT ![c].step = step]

AnsweredWith(c, code, request) ==
    call' = [call EXCEPT ![c].step = "answered", ![c].code = code,
                         ![c].answer = request, ![c].sent = Absent]

Fails(c, code) == AnsweredWith(c, code, NoRequest)

\* Only the call moves.
OnlyCall == UNCHANGED <<brokerVars, topicVars, now, deposits, releasing, held, saved>>

\* The daemon that is called, or the way to it and back, fails.
RPCFails(c) == RPCFault /\ Fails(c, 500) /\ OnlyCall

--------------------------------------------------------------------------------
(* storaged: the handler. *)

\* getAuth: one header of two words.
HeaderOK(headers) == Len(headers) = 1 /\ Len(headers[1]) = 2

TokenOf(in) == in.headers[1][2]

Token(c) == TokenOf(call[c].input)

\* A JWT is issued by an account.
ASSUME FrontAssumption ==
    \A c \in Calls : \A in \in InputsOf[c] :
        HeaderOK(in.headers) /\ IsChainToken(TokenOf(in)) => TokenOf(in).iss \in Accounts

\* auctionDataHandler, up to its first call.
AuctionDataHandler(c, in) ==
    /\ call[c] = NotMade
    /\ call' = [call EXCEPT ![c] =
          LET ok == in.method = "POST" /\ HeaderOK(in.headers)
          IN  [step |-> IF ok THEN "auth" ELSE "answered",
               input |-> in, origin |-> NoOrigin, request |-> NoRequest,
               code |-> IF ok THEN 0 ELSE 400, answer |-> NoRequest,
               sent |-> Absent, began |-> now]]
    /\ NoRPCFault /\ OnlyCall

\* What getAuth makes of the answer of authd (brokerauth.IsAuthorized).
Authorized(c, answer) ==
    CASE answer.code = "OK" ->
            call' = [call EXCEPT ![c].step = "body", ![c].origin = answer.origin]
      [] answer.code = "Unauthenticated" -> Fails(c, 401)
      [] OTHER -> Fails(c, 500)

--------------------------------------------------------------------------------
(* authd: doAuth. *)

DoAuth(c) ==
    /\ call[c].step = "auth"
    /\ \/ /\ IF ~IsChainToken(Token(c)) THEN Authorized(c, AuthRaw(Token(c)))
             ELSE IF ValidateToken(Token(c)) /\ KnownOrigin(Token(c))
             THEN GoesTo(c, "deposit")
             ELSE Authorized(c, Denied("Unauthenticated"))
          /\ NoRPCFault /\ OnlyCall
       \/ RPCFails(c)

\* Mutant: a failed lookup of the deposit is taken for a deposit.
ValidateDepositedFundsLax(c) ==
    /\ call[c].step = "deposit"
    /\ \/ /\ IF DepositAnswer(Token(c)) # "error" THEN GoesTo(c, "key")
             ELSE Authorized(c, ChainDenied(DepositAnswer(Token(c))))
          /\ NoRPCFault /\ OnlyCall
       \/ RPCFails(c)

ValidateDepositedFunds(c) ==
    /\ call[c].step = "deposit"
    /\ \/ /\ IF DepositAnswer(Token(c)) = "yes" THEN GoesTo(c, "key")
             ELSE Authorized(c, ChainDenied(DepositAnswer(Token(c))))
          /\ NoRPCFault /\ OnlyCall
       \/ RPCFails(c)

ValidateOwnsKey(c) ==
    /\ call[c].step = "key"
    /\ \/ /\ Authorized(c, IF KeyAnswer(Token(c)) = "yes"
                           THEN Answer("OK", ChainOrigin(Token(c)))
                           ELSE ChainDenied(KeyAnswer(Token(c))))
          /\ NoRPCFault /\ OnlyCall
       \/ RPCFails(c)

--------------------------------------------------------------------------------
(* storaged: CreateFromExternalSource. *)

Adr(c) == call[c].input.adr

\* Mutant: a body that is not JSON gets no answer.
DecodeBodySilent(c) ==
    /\ call[c].step = "body"
    /\ call[c].input.json
    /\ Fails(c, 500)
    /\ NoRPCFault /\ OnlyCall

DecodeBody(c) ==
    /\ call[c].step = "body"
    /\ CASE ~call[c].input.json -> Fails(c, 400)
         [] call[c].input.json /\ ~ExternalSourceValid(Adr(c), call[c].origin) ->
               Fails(c, 500)
         [] OTHER ->
               \E pc \in {ParseExternalSource(Adr(c), call[c].origin)} :
                  call' = [call EXCEPT
                     ![c].step = IF Adr(c).wallet = Absent THEN "create" ELSE "connect",
                     ![c].sent = Present(ToProto(pc))]
    /\ NoRPCFault /\ OnlyCall

\* host.Connect to the remote wallet, which may not be there.
ConnectWallet(c) ==
    /\ call[c].step = "connect"
    /\ \/ GoesTo(c, "create") /\ NoRPCFault /\ OnlyCall
       \/ RPCFails(c)

--------------------------------------------------------------------------------
(* brokerd: CreatePreparedStorageRequest. *)

Sent(c) == call[c].sent[1]

DefaultsOf == [repFactor |-> DealReplication, deadline |-> Defaults.deadline,
               offset |-> Defaults.offset]

\* CreatePrepared commits the rows, or fails and leaves none.
Stores(c, s, b) ==
    LET r == Sent(c)
    IN  \E ba \in {BatchOf(Parse(r.payloadCid), ParsePreparedCAR(r), ParseMetadata(r),
                           DefaultsOf)} :
        /\ CreatePrepared(s, b, [rep |-> ParsePreparedCAR(r).repFactor,
                                 providers |-> {ba.providers[i][2] : i \in DOMAIN ba.providers},
                                 piece |-> ba.pieceCid,
                                 carURL |-> ba.sources.carURL # Absent])
        /\ IF db' = db THEN Fails(c, 500) /\ saved' = saved
           ELSE /\ saved' = InsertRemoteWallet(
                                InsertBatch(saved, b, BatchColumns(ba)),
                                b, WalletColumns(ParseProtoWallet(r.wallet)))
                /\ call' = [call EXCEPT ![c].step = "reply",
                                        ![c].request = <<s, b>>,
                                        ![c].sent = Absent]
        /\ UNCHANGED <<now, deposits, releasing, held, rpcFaults>>

\* The sources are fetched for a test, with an outcome of their own.
CreatePreparedStorageRequest(c) ==
    /\ call[c].step = "create"
    /\ \E fetched \in BOOLEAN :
          IF ProtoValid(Sent(c), fetched)
                /\ Acceptable(ParsePreparedCAR(Sent(c)), DefaultsOf)
          THEN \E s \in StorageRequests, b \in Batches : Stores(c, s, b)
          ELSE Fails(c, 500) /\ NoRPCFault /\ OnlyCall

BrokerUnreachable(c) == call[c].step = "create" /\ RPCFails(c)

\* The request as CreatePrepared returns it.
CreatedRequest(c) ==
    [id |-> call[c].request[1], dataCid |-> Parse(Adr(c).payloadCid),
     status |-> "auctioning"]

\* The answer of brokerd, as its client in storaged reads it.
Received(c) == FromProtoStorageRequest(StorageRequestToProto(CreatedRequest(c)))

Reply(c) ==
    /\ call[c].step = "reply"
    /\ \/ AnsweredWith(c, 200, ToRequest(Received(c))) /\ NoRPCFault /\ OnlyCall
       \/ RPCFails(c)

--------------------------------------------------------------------------------
CallStep(c) ==
    \/ DoAuth(c)
    \/ ValidateDepositedFunds(c)
    \/ ValidateOwnsKey(c)
    \/ DecodeBody(c)
    \/ ConnectWallet(c)
    \/ CreatePreparedStorageRequest(c)
    \/ BrokerUnreachable(c)
    \/ Reply(c)

FrontNext ==
    \/ \E c \in Calls : \E in \in InputsOf[c] : AuctionDataHandler(c, in)
    \/ \E c \in Calls : CallStep(c)
    \/ ChainNext /\ UNCHANGED <<brokerVars, topicVars, frontVars>>

FrontVars == <<brokerVars, topicVars, chainVars, frontVars>>

\* Every daemon serves its calls.
FrontSpec ==
    /\ FrontInit
    /\ [][FrontNext]_FrontVars
    /\ ChainFairness
    /\ \A c \in Calls : WF_FrontVars(CallStep(c))

--------------------------------------------------------------------------------
(* Properties. *)

Answered(c) == call[c].step = "answered"

Made(c) == call[c].step # "none"

Stored(c) == Made(c) /\ call[c].request # NoRequest

\* What the client of adr and origin asked for, in the terms of a batch.
Asked(adr, origin) ==
    [payloadCid |-> Parse(adr.payloadCid),
     pieceCid   |-> Parse(adr.pieceCid),
     pieceSize  |-> adr.pieceSize,
     repFactor  |-> IF adr.repFactor = 0 THEN DealReplication ELSE adr.repFactor,
     deadline   |-> TimeToFilEpoch(IF adr.deadline = Absent THEN Defaults.deadline
                                   ELSE Parse(adr.deadline)),
     offset     |-> IF adr.hours = 0 THEN Defaults.offset ELSE adr.hours,
     sources    |-> ParseSources(adr),
     origin     |-> origin,
     tags       |-> adr.tags,
     providers  |-> ParseAll(adr.providers)]

\* Without the tags and the order of the providers.
Untagged(ba) ==
    [ba EXCEPT !.tags = {},
               !.providers = <<Len(@), {@[i] : i \in DOMAIN @}>>]

\* A CAR on IPFS comes with an address to fetch it from.
HasAddress(adr) == adr.carIPFS # Absent => adr.carIPFS[1].maddrs # <<>>

\* What brokerd reads back from its tables is what the client asked for, with the
\* defaults filled in and the wallet included, after four conversions; its size and
\* rep factor are ones an auction can be held for.  (Left out are the tags, which
\* CreatePreparedStorageRequest drops, and a CAR on IPFS without addresses, a batch
\* that batchFromDB cannot read.)
StoredAsAsked ==
    \A c \in Calls : Stored(c) /\ HasAddress(Adr(c)) =>
        LET b == call[c].request[2]
            row == GetBatch(saved, b)
            ba == BatchFromDB(row)
        IN  /\ BatchReadable(row)
            /\ Untagged(ba) = Untagged(Asked(Adr(c), call[c].origin))
            /\ GetRemoteWalletConfig(GetBatchRemoteWallet(saved, b)) = ParseRemoteWallet(Adr(c).wallet)
            /\ ba.pieceSize \in 1..MaxPieceSize
            /\ ba.repFactor > 0

\* A client that is told of a request can rely on it: the request is in the tables,
\* with the cid of the client and the status it was told.  A client that is told of
\* an error has stored nothing, unless a call between the daemons failed.
AnsweredTruly ==
    \A c \in Calls : Answered(c) =>
        IF call[c].code = 200
        THEN /\ Stored(c)
             /\ call[c].answer = [id |-> call[c].request[1],
                                  cid |-> Parse(Adr(c).payloadCid),
                                  status |-> "Auctioning"]
             /\ db.requests[call[c].request[1]].status = "auctioning"
        ELSE Stored(c) => call[c].code = 500 /\ rpcFaults > 0

\* Nothing is stored for a client that pays with a deposit unless its account had a
\* live deposit at some moment of the call: authd looks while the clock and the
\* releasers move on.
FundedDuringCall ==
    \A c \in Calls : Stored(c) /\ IsChainToken(Token(c)) =>
        \E t \in call[c].began..now :
            <<Suborigin(Token(c)), Token(c).iss, t>> \in held

\* Every call is answered, whichever daemon fails on the way.
CallsAnswered == \A c \in Calls : Made(c) ~> Answered(c)

================================================================================
