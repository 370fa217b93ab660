--------------------------------- MODULE MCFront ---------------------------------
(* Instances of Front for TLC. *)
EXTENDS Front

CONSTANTS c1, s1, b1, x1, a1

MCDefaults == [deadline |-> 90, offset |-> 5]

MCKeysOf == [a \in Accounts |-> {"k1"}]

MCAuthTokens == [raw1 |-> <<"DUKE">>]

Raw(text) == [parts |-> 1, text |-> text]

Jwt(origin, chain, alg) ==
    [parts |-> 3, kid |-> <<origin, chain, "k1">>, alg |-> alg, signedBy |-> "k1",
     claimsValid |-> TRUE, iss |-> a1]

Near == Jwt("near", "near1", "NEAR")
Eth == Jwt("eth", "eth1", "ETH")

\* Tokens that authd refuses, each for one reason.
BadTokens ==
    {Raw(""), Raw("raw2"),
     [Near EXCEPT !.kid = <<"near", "near1">>], [Near EXCEPT !.alg = "HS256"],
     [Near EXCEPT !.signedBy = "k2"], [Near EXCEPT !.claimsValid = FALSE],
     [Near EXCEPT !.kid[1] = "sol"], [Near EXCEPT !.kid[2] = "near2"],
     [Near EXCEPT !.kid[3] = "k2", !.signedBy = "k2"]}

Good ==
    [payloadCid |-> Text("data"), pieceCid |-> Text(x1), pieceSize |-> 4,
     repFactor |-> 0, deadline |-> Absent, hours |-> 0,
     carURL |-> Present(Text(<<"https", "car">>)), carIPFS |-> Absent,
     tags |-> {}, providers |-> <<>>, wallet |-> Absent]

Wallet == [peer |-> Text("peer"), token |-> "secret", addr |-> Text(<<"f3", "w">>),
           maddrs |-> <<Text("m1"), Text("m2")>>]

Targets == <<Text(IdAddress(2)), Text(IdAddress(1))>>

IPFS == Present([cid |-> Text("carCid"), maddrs |-> <<Text("m1")>>])

\* Bodies that make a request, among them the largest size, a deadline inside an
\* epoch, the last rep factor two targeted providers allow, a provider given twice,
\* tags, and a CAR on IPFS without an address.
GoodBodies ==
    {Good,
     [Good EXCEPT !.carIPFS = IPFS, !.deadline = Text(59), !.hours = 2],
     [Good EXCEPT !.carURL = Absent, !.carIPFS = IPFS, !.pieceSize = MaxPieceSize],
     [Good EXCEPT !.repFactor = 2, !.providers = Targets,
                  !.wallet = Present(Wallet)],
     [Good EXCEPT !.repFactor = 2, !.providers = <<Targets[1], Targets[1]>>,
                  !.tags = {"tag"}],
     [Good EXCEPT !.carIPFS = Present([IPFS[1] EXCEPT !.maddrs = <<>>])]}

\* Bodies with one thing wrong.
BadBodies ==
    {[Good EXCEPT !.payloadCid = Garbled], [Good EXCEPT !.pieceCid = Garbled],
     [Good EXCEPT !.pieceCid = Text("data")], [Good EXCEPT !.pieceSize = 0],
     [Good EXCEPT !.pieceSize = 6], [Good EXCEPT !.pieceSize = 2 * MaxPieceSize],
     [Good EXCEPT !.repFactor = 0 - 1], [Good EXCEPT !.deadline = Garbled],
     [Good EXCEPT !.deadline = Text(29)], [Good EXCEPT !.hours = 0 - 1],
     [Good EXCEPT !.carURL = Absent], [Good EXCEPT !.carURL = Present(Garbled)],
     [Good EXCEPT !.carURL = Present(Text(<<"ftp", "car">>))],
     [Good EXCEPT !.carIPFS = Present([cid |-> Garbled, maddrs |-> <<>>])],
     [Good EXCEPT !.repFactor = 3, !.providers = Targets],
     [Good EXCEPT !.providers = <<Garbled>>],
     [Good EXCEPT !.providers = <<Text(<<"f3", "w">>)>>],
     [Good EXCEPT !.wallet = Present([Wallet EXCEPT !.token = ""])],
     [Good EXCEPT !.wallet = Present([Wallet EXCEPT !.maddrs = <<Garbled>>])]}

Post(token, adr) ==
    [method |-> "POST", headers |-> <<<<"Bearer", token>>>>, json |-> TRUE, adr |-> adr]

MCInputs ==
    {Post(token, Good) : token \in BadTokens \union {Raw("raw1"), Near, Eth}}
        \union {Post(Raw("raw1"), adr) : adr \in GoodBodies \union BadBodies}
        \union {[Post(Near, Good) EXCEPT !.json = FALSE],
                [Post(Near, Good) EXCEPT !.method = "GET"],
                [Post(Near, Good) EXCEPT !.headers = <<>>],
                [Post(Near, Good) EXCEPT !.headers = <<<<Near>>>>],
                [Post(Near, Good) EXCEPT !.headers = <<@[1], @[1]>>]}

MCInputsOf == [c \in Calls |-> MCInputs]

==================================================================================
