------------------------------ MODULE FrontProofs ------------------------------
(***************************************************************************)
(* Nothing is stored on the strength of a deposit that was not there, and  *)
(* a client is told the truth about what was stored for it, for any calls, *)
(* inputs, chains and accounts, and any number of failures.                *)
(*                                                                         *)
(* Inv, for the first: held has every live deposit of the present          *)
(* (Recorded), so a call that is past the check of its deposit passed it   *)
(* at a moment of the call; the clock and held only grow, so this stays    *)
(* true until the rows are stored.                                         *)
(*                                                                         *)
(* TruthInv, for the second: from the transaction of brokerd on, the       *)
(* request of a call is in auction, and an error that a client is told     *)
(* after it goes back to a failed call between the daemons.                *)
(***************************************************************************)
EXTENDS Front, TLAPS

Steps == {"auth", "deposit", "key", "body", "connect", "create", "reply", "answered"}

\* A call that was made.
Rec(step, in, origin, request, code, answer, sent, began) ==
    [step |-> step, input |-> in, origin |-> origin, request |-> request,
     code |-> code, answer |-> answer, sent |-> sent, began |-> began]

\* The account had a live deposit since the call began, if that is how it pays.
Funded(in, began) ==
    IsChainToken(TokenOf(in)) =>
        \E t \in began..now : <<Suborigin(TokenOf(in)), TokenOf(in).iss, t>> \in held

\* The call is past the check of its deposit.
Checked == {"key", "body", "connect", "create", "reply"}

RecOK(c, step, in, request, began) ==
    /\ step \in Steps
    /\ in \in InputsOf[c]
    /\ began \in 0..now
    /\ step # "answered" => HeaderOK(in.headers)
    /\ step = "deposit" => KnownOrigin(TokenOf(in))
    /\ step \notin {"reply", "answered"} => request = NoRequest
    /\ step \in Checked \/ request # NoRequest => Funded(in, began)

CallOK(c) ==
    \/ call[c] = NotMade
    \/ \E step, in, origin, request, code, answer, sent, began :
          /\ call[c] = Rec(step, in, origin, request, code, answer, sent, began)
          /\ RecOK(c, step, in, request, began)

\* The live deposits of the present are in held.
Recorded ==
    \A x \in Chains, a \in Accounts :
        Live(deposits[x][a], now) => <<x, a, now>> \in held

IsCalls == call = [c \in Calls |-> call[c]]

IsDeposits == deposits = [x \in Chains |-> [a \in Accounts |-> deposits[x][a]]]

Inv ==
    /\ now \in Nat
    /\ IsDeposits
    /\ Recorded
    /\ IsCalls
    /\ \A c \in Calls : CallOK(c)

--------------------------------------------------------------------------------
(* What the steps have in common. *)

\* The fields of a call that are looked at below.
LEMMA RecFields ==
  ASSUME NEW step, NEW in, NEW origin, NEW request, NEW code, NEW answer, NEW sent,
         NEW began, NEW rec,
         rec = Rec(step, in, origin, request, code, answer, sent, began)
  PROVE  rec.input = in /\ rec.request = request /\ rec.began = began
BY DEF Rec

\* A call that does not move stays as it is, while the clock and held grow.
LEMMA CallStays ==
  ASSUME NEW c, CallOK(c), call'[c] = call[c], held \subseteq held',
         now \in Nat, now' \in Nat, now <= now'
  PROVE  CallOK(c)'
<1>1. CASE call[c] = NotMade
  BY <1>1 DEF CallOK
<1>2. CASE call[c] # NotMade
  <2>1. PICK step, in, origin, request, code, answer, sent, began :
              /\ call[c] = Rec(step, in, origin, request, code, answer, sent, began)
              /\ RecOK(c, step, in, request, began)
    BY <1>2 DEF CallOK
  <2>2. Funded(in, began) => Funded(in, began)'
    BY <2>1 DEF Funded, RecOK
  <2>3. RecOK(c, step, in, request, began)'
    BY <2>1, <2>2 DEF RecOK
  <2> QED
    BY <2>1, <2>3 DEF CallOK
<1> QED
  BY <1>1, <1>2

\* A step of call c that leaves the chains alone keeps the invariant if it leaves the
\* call in order.
LEMMA OneCall ==
  ASSUME Inv, NEW c \in Calls, NEW rec, call' = [call EXCEPT ![c] = rec],
         UNCHANGED <<now, deposits, held>>,
         call'[c] = rec => CallOK(c)'
  PROVE  Inv'
<1>1. call'[c] = rec /\ IsCalls'
  BY DEF Inv, IsCalls
<1>2. ASSUME NEW d \in Calls PROVE CallOK(d)'
  <2>1. CASE d = c
    BY <1>1, <2>1
  <2>2. CASE d # c
    <3>1. call'[d] = call[d]
      BY <2>2 DEF Inv, IsCalls
    <3> QED
      BY <3>1, CallStays DEF Inv
  <2> QED
    BY <2>1, <2>2
<1>3. now' \in Nat /\ IsDeposits' /\ Recorded'
  BY DEF Inv, IsDeposits, Recorded, Live
<1> QED
  BY <1>1, <1>2, <1>3 DEF Inv

\* A call that was made goes on to a record that is in order.
LEMMA Moved ==
  ASSUME Inv, NEW c \in Calls,
         NEW step, NEW in, NEW origin, NEW request, NEW code, NEW answer, NEW sent,
         NEW began,
         call' = [call EXCEPT ![c] =
                     Rec(step, in, origin, request, code, answer, sent, began)],
         RecOK(c, step, in, request, began),
         UNCHANGED <<now, deposits, held>>
  PROVE  Inv'
<1>1. RecOK(c, step, in, request, began)'
  BY DEF RecOK, Funded
<1>2. call'[c] = Rec(step, in, origin, request, code, answer, sent, began) => CallOK(c)'
  BY <1>1 DEF CallOK
<1> QED
  BY Zenon, <1>2, OneCall

\* A call that is somewhere was made.
LEMMA MadeRec ==
  ASSUME Inv, NEW c \in Calls, NEW s \in Steps, call[c].step = s
  PROVE  \E in, origin, request, code, answer, sent, began :
            /\ call[c] = Rec(s, in, origin, request, code, answer, sent, began)
            /\ RecOK(c, s, in, request, began)
<1>1. call[c] # NotMade
  BY DEF NotMade, Steps
<1>2. PICK step, in, origin, request, code, answer, sent, began :
         /\ call[c] = Rec(step, in, origin, request, code, answer, sent, began)
         /\ RecOK(c, step, in, request, began)
  BY <1>1 DEF CallOK, Inv
<1>3. step = s
  BY <1>2 DEF Rec
<1> QED
  BY <1>2, <1>3

\* Every answer keeps the invariant, wherever the call was.
LEMMA AnswerKeeps ==
  ASSUME Inv, NEW c \in Calls, call[c].step \in Steps, NEW newCode, NEW newAnswer,
         AnsweredWith(c, newCode, newAnswer), UNCHANGED <<now, deposits, held>>
  PROVE  Inv'
<1>0. PICK step \in Steps : step = call[c].step
  OBVIOUS
<1>1. PICK in, origin, request, code, answer, sent, began :
         /\ call[c] = Rec(step, in, origin, request, code, answer, sent, began)
         /\ RecOK(c, step, in, request, began)
  BY <1>0, MadeRec
<1>2. call' = [call EXCEPT ![c] =
                  Rec("answered", in, origin, request, newCode, newAnswer, Absent, began)]
  <2>1. [Rec(step, in, origin, request, code, answer, sent, began) EXCEPT
            !.step = "answered", !.code = newCode, !.answer = newAnswer, !.sent = Absent]
          = Rec("answered", in, origin, request, newCode, newAnswer, Absent, began)
    <3>1. [Rec(step, in, origin, request, code, answer, sent, began) EXCEPT
              !.step = "answered"]
            = Rec("answered", in, origin, request, code, answer, sent, began)
      BY DEF Rec
    <3>2. [Rec("answered", in, origin, request, code, answer, sent, began) EXCEPT
              !.code = newCode]
            = Rec("answered", in, origin, request, newCode, answer, sent, began)
      BY DEF Rec
    <3>3. [Rec("answered", in, origin, request, newCode, answer, sent, began) EXCEPT
              !.answer = newAnswer]
            = Rec("answered", in, origin, request, newCode, newAnswer, sent, began)
      BY DEF Rec
    <3>4. [Rec("answered", in, origin, request, newCode, newAnswer, sent, began) EXCEPT
              !.sent = Absent]
            = Rec("answered", in, origin, request, newCode, newAnswer, Absent, began)
      BY DEF Rec
    <3> QED
      BY Zenon, <3>1, <3>2, <3>3, <3>4
  <2>2. call' = [call EXCEPT ![c] = [call[c] EXCEPT
                    !.step = "answered", !.code = newCode, !.answer = newAnswer,
                    !.sent = Absent]]
    BY Zenon DEF AnsweredWith
  <2> QED
    BY Zenon, <1>1, <2>1, <2>2
<1>3. RecOK(c, "answered", in, request, began)
  BY <1>1 DEF RecOK, Steps, Checked
<1> QED
  BY Zenon, <1>2, <1>3, Moved

\* So does a call between the daemons that fails.
LEMMA RPCFailsKeeps ==
  ASSUME Inv, NEW c \in Calls, call[c].step \in Steps, RPCFails(c)
  PROVE  Inv'
BY AnswerKeeps DEF RPCFails, Fails, OnlyCall

\* A call that is funded may go on to any step of Checked.
LEMMA GoesKeeps ==
  ASSUME Inv, NEW c \in Calls, NEW next \in Checked, GoesTo(c, next),
         UNCHANGED <<now, deposits, held>>,
         NEW step, NEW in, NEW origin, NEW request, NEW code, NEW answer, NEW sent,
         NEW began,
         call[c] = Rec(step, in, origin, request, code, answer, sent, began),
         RecOK(c, step, in, request, began),
         step \notin {"reply", "answered"},
         Funded(in, began)
  PROVE  Inv'
<1>1. call' = [call EXCEPT ![c] =
                  Rec(next, in, origin, request, code, answer, sent, began)]
  <2>1. [Rec(step, in, origin, request, code, answer, sent, began) EXCEPT !.step = next]
          = Rec(next, in, origin, request, code, answer, sent, began)
    BY DEF Rec
  <2>2. call' = [call EXCEPT ![c] = [call[c] EXCEPT !.step = next]]
    BY DEF GoesTo
  <2> QED
    BY Zenon, <2>1, <2>2
<1>2. RecOK(c, next, in, request, began)
  BY DEF RecOK, Steps, Checked
<1> QED
  BY Zenon, <1>1, <1>2, Moved

--------------------------------------------------------------------------------
(* The steps of a call. *)

\* A call begins: its clock is the present one.
LEMMA HandlerKeeps ==
  ASSUME Inv, NEW c \in Calls, NEW in \in InputsOf[c], AuctionDataHandler(c, in)
  PROVE  Inv'
<1> DEFINE ok == in.method = "POST" /\ HeaderOK(in.headers)
           step == IF ok THEN "auth" ELSE "answered"
           code == IF ok THEN 0 ELSE 400
<1>1. call' = [call EXCEPT ![c] =
                  Rec(step, in, NoOrigin, NoRequest, code, NoRequest, Absent, now)]
  BY DEF AuctionDataHandler, Rec
<1>2. UNCHANGED <<now, deposits, held>>
  BY DEF AuctionDataHandler, OnlyCall
<1>3. RecOK(c, step, in, NoRequest, now)
  BY DEF RecOK, Steps, Checked, Inv
<1>4. PICK s, n, k : s = step /\ n = now /\ k = code
  OBVIOUS
<1> HIDE DEF step, code
<1> QED
  BY Zenon, <1>1, <1>2, <1>3, <1>4, Moved

\* What authd answers lets a call go on only if the call is funded.
LEMMA AuthorizedKeeps ==
  ASSUME Inv, NEW c \in Calls, NEW answered, Authorized(c, answered),
         UNCHANGED <<now, deposits, held>>,
         NEW step \in {"auth", "deposit", "key"}, NEW in, NEW origin, NEW request, NEW code,
         NEW answer, NEW sent, NEW began,
         call[c] = Rec(step, in, origin, request, code, answer, sent, began),
         RecOK(c, step, in, request, began),
         answered.code = "OK" => Funded(in, began)
  PROVE  Inv'
<1>1. call[c].step \in Steps
  BY DEF Rec, Steps
<1>2. CASE answered.code = "OK"
  <2>1. call' = [call EXCEPT ![c] = [call[c] EXCEPT !.step = "body",
                                                    !.origin = answered.origin]]
    BY Zenon, <1>2 DEF Authorized
  <2>2. [Rec(step, in, origin, request, code, answer, sent, began) EXCEPT !.step = "body"]
          = Rec("body", in, origin, request, code, answer, sent, began)
    BY DEF Rec
  <2>3. [Rec("body", in, origin, request, code, answer, sent, began) EXCEPT
            !.origin = answered.origin]
          = Rec("body", in, answered.origin, request, code, answer, sent, began)
    BY DEF Rec
  <2>4. call' = [call EXCEPT ![c] =
                    Rec("body", in, answered.origin, request, code, answer, sent, began)]
    BY Zenon, <2>1, <2>2, <2>3
  <2>5. RecOK(c, "body", in, request, began)
    BY <1>2 DEF RecOK, Steps, Checked
  <2> QED
    BY Zenon, <2>4, <2>5, Moved
<1>3. CASE answered.code # "OK"
  <2>1. AnsweredWith(c, 401, NoRequest) \/ AnsweredWith(c, 500, NoRequest)
    BY <1>3 DEF Authorized, Fails
  <2>2. CASE AnsweredWith(c, 401, NoRequest)
    BY <1>1, <2>2, AnswerKeeps
  <2>3. CASE AnsweredWith(c, 500, NoRequest)
    BY <1>1, <2>3, AnswerKeeps
  <2> QED
    BY <2>1, <2>2, <2>3
<1> QED
  BY <1>2, <1>3

\* doAuth: a raw token needs no deposit, and a JWT goes on to the check of one.
LEMMA DoAuthKeeps ==
  ASSUME Inv, NEW c \in Calls, DoAuth(c)
  PROVE  Inv'
<1>1. call[c].step = "auth" /\ call[c].step \in Steps /\ "auth" \in Steps
  BY DEF DoAuth, Steps
<1>2. CASE RPCFails(c)
  BY <1>1, <1>2, RPCFailsKeeps
<1>3. CASE ~RPCFails(c)
  <2>1. PICK in, origin, request, code, answer, sent, began :
           /\ call[c] = Rec("auth", in, origin, request, code, answer, sent, began)
           /\ RecOK(c, "auth", in, request, began)
    BY <1>1, MadeRec
  <2>2. Token(c) = TokenOf(in)
    BY <2>1 DEF Token, Rec
  <2>3. UNCHANGED <<now, deposits, held>>
    BY <1>3 DEF DoAuth, OnlyCall
  <2>4. CASE ~IsChainToken(Token(c))
    <3>1. Authorized(c, AuthRaw(Token(c)))
      BY <1>3, <2>4 DEF DoAuth
    <3>2. PICK answered : answered = AuthRaw(Token(c))
      OBVIOUS
    <3>3. Funded(in, began)
      BY <2>2, <2>4 DEF Funded
    <3>4. Authorized(c, answered)
      BY <3>1, <3>2
    <3> QED
      BY <2>1, <2>3, <3>3, <3>4, AuthorizedKeeps
  <2>5. CASE KnownOrigin(Token(c)) /\ GoesTo(c, "deposit")
    <3>1. call' = [call EXCEPT ![c] = [call[c] EXCEPT !.step = "deposit"]]
      BY <2>5 DEF GoesTo
    <3>2. [Rec("auth", in, origin, request, code, answer, sent, began) EXCEPT
              !.step = "deposit"]
            = Rec("deposit", in, origin, request, code, answer, sent, began)
      BY DEF Rec
    <3>3. RecOK(c, "deposit", in, request, began)
      BY <2>1, <2>2, <2>5 DEF RecOK, Steps, Checked
    <3>4. call' = [call EXCEPT ![c] =
                      Rec("deposit", in, origin, request, code, answer, sent, began)]
      BY Zenon, <2>1, <3>1, <3>2
    <3> QED
      BY Zenon, <2>3, <3>3, <3>4, Moved
  <2>6. CASE Authorized(c, Denied("Unauthenticated"))
    <3>1. PICK answered : answered = Denied("Unauthenticated")
      OBVIOUS
    <3>2. Authorized(c, answered) /\ answered.code # "OK"
      BY <2>6, <3>1 DEF Denied, Answer
    <3> QED
      BY <2>1, <2>3, <3>2, AuthorizedKeeps
  <2> QED
    BY <1>3, <2>4, <2>5, <2>6 DEF DoAuth
<1> QED
  BY <1>2, <1>3

\* validateDepositedFunds: an account whose deposit the chain API confirms has a
\* live one now.
LEMMA ConfirmedIsHeld ==
  ASSUME Inv, NEW token, KnownOrigin(token), token.iss \in Accounts,
         DepositAnswer(token) = "yes"
  PROVE  <<Suborigin(token), token.iss, now>> \in held
<1>1. Suborigin(token) \in Chains
        /\ ContractHasDeposit(Suborigin(token), token.iss) = "yes"
  BY DEF DepositAnswer, HasDeposit, NearHasDeposit, EthHasDeposit, KnownOrigin, ChainsOf,
         Chains, EthShared
<1>2. Live(deposits[Suborigin(token)][token.iss], now)
  BY <1>1 DEF ContractHasDeposit
<1> QED
  BY <1>1, <1>2 DEF Inv, Recorded

\* The check of the deposit, which a call passes only if it is funded.
LEMMA ValidateDepositedFundsKeeps ==
  ASSUME Inv, NEW c \in Calls, ValidateDepositedFunds(c)
  PROVE  Inv'
<1>1. call[c].step = "deposit" /\ call[c].step \in Steps /\ "deposit" \in Steps
  BY DEF ValidateDepositedFunds, Steps
<1>2. CASE RPCFails(c)
  BY <1>1, <1>2, RPCFailsKeeps
<1>3. CASE ~RPCFails(c)
  <2>1. PICK in, origin, request, code, answer, sent, began :
           /\ call[c] = Rec("deposit", in, origin, request, code, answer, sent, began)
           /\ RecOK(c, "deposit", in, request, began)
    BY <1>1, MadeRec
  <2>2. Token(c) = TokenOf(in)
    BY <2>1 DEF Token, Rec
  <2>3. UNCHANGED <<now, deposits, held>>
    BY <1>3 DEF ValidateDepositedFunds, OnlyCall
  <2>4. CASE DepositAnswer(Token(c)) = "yes"
    <3>1. GoesTo(c, "key") /\ "key" \in Checked
      BY <1>3, <2>4 DEF ValidateDepositedFunds, Checked
    <3>2. Funded(in, began)
      <4>1. SUFFICES ASSUME IsChainToken(TokenOf(in))
                     PROVE  <<Suborigin(TokenOf(in)), TokenOf(in).iss, now>> \in held
        <5>1. now \in began..now
          <6>1. began \in 0..now
            BY <2>1 DEF RecOK
          <6>2. now \in Nat
            BY DEF Inv
          <6> QED
            BY <6>1, <6>2
        <5> QED
          BY <5>1 DEF Funded
      <4>2. TokenOf(in).iss \in Accounts
        BY <2>1, <4>1, FrontAssumption DEF RecOK
      <4>3. KnownOrigin(TokenOf(in))
        BY <2>1 DEF RecOK
      <4>4. DepositAnswer(TokenOf(in)) = "yes"
        BY <2>2, <2>4
      <4> QED
        BY <4>2, <4>3, <4>4, ConfirmedIsHeld
    <3> QED
      BY <2>1, <2>3, <3>1, <3>2, GoesKeeps
  <2>5. CASE DepositAnswer(Token(c)) # "yes"
    <3>1. PICK answered : answered = ChainDenied(DepositAnswer(Token(c)))
      OBVIOUS
    <3>2. Authorized(c, answered)
      BY <1>3, <2>5, <3>1 DEF ValidateDepositedFunds
    <3>3. answered.code # "OK"
      BY <3>1 DEF ChainDenied, Denied, Answer
    <3> QED
      BY <2>1, <2>3, <3>2, <3>3, AuthorizedKeeps
  <2> QED
    BY <2>4, <2>5
<1> QED
  BY <1>2, <1>3

\* The check of the key comes after that of the deposit.
LEMMA ValidateOwnsKeyKeeps ==
  ASSUME Inv, NEW c \in Calls, ValidateOwnsKey(c)
  PROVE  Inv'
<1>1. call[c].step = "key" /\ call[c].step \in Steps /\ "key" \in Steps
  BY DEF ValidateOwnsKey, Steps
<1>2. CASE RPCFails(c)
  BY <1>1, <1>2, RPCFailsKeeps
<1>3. CASE ~RPCFails(c)
  <2>1. PICK in, origin, request, code, answer, sent, began :
           /\ call[c] = Rec("key", in, origin, request, code, answer, sent, began)
           /\ RecOK(c, "key", in, request, began)
    BY <1>1, MadeRec
  <2>2. Funded(in, began)
    BY <2>1 DEF RecOK, Checked
  <2>3. UNCHANGED <<now, deposits, held>>
    BY <1>3 DEF ValidateOwnsKey, OnlyCall
  <2>4. PICK answered : Authorized(c, answered)
    BY <1>3 DEF ValidateOwnsKey
  <2> QED
    BY <2>1, <2>2, <2>3, <2>4, AuthorizedKeeps
<1> QED
  BY <1>2, <1>3

\* A body is decoded, or refused, only past the checks.
LEMMA DecodeBodyKeeps ==
  ASSUME Inv, NEW c \in Calls, DecodeBody(c)
  PROVE  Inv'
<1>1. call[c].step = "body" /\ call[c].step \in Steps /\ "body" \in Steps
  BY DEF DecodeBody, Steps
<1>2. UNCHANGED <<now, deposits, held>>
  BY DEF DecodeBody, OnlyCall
<1>3. CASE AnsweredWith(c, 400, NoRequest)
  BY <1>1, <1>2, <1>3, AnswerKeeps
<1>4. CASE AnsweredWith(c, 500, NoRequest)
  BY <1>1, <1>2, <1>4, AnswerKeeps
<1>5. ASSUME NEW next \in {"create", "connect"}, NEW newSent,
             call' = [call EXCEPT ![c] = [call[c] EXCEPT !.step = next, !.sent = newSent]]
      PROVE  Inv'
  <2>1. PICK in, origin, request, code, answer, sent, began :
           /\ call[c] = Rec("body", in, origin, request, code, answer, sent, began)
           /\ RecOK(c, "body", in, request, began)
    BY <1>1, MadeRec
  <2>2. [Rec("body", in, origin, request, code, answer, sent, began) EXCEPT !.step = next]
          = Rec(next, in, origin, request, code, answer, sent, began)
    BY DEF Rec
  <2>3. [Rec(next, in, origin, request, code, answer, sent, began) EXCEPT !.sent = newSent]
          = Rec(next, in, origin, request, code, answer, newSent, began)
    BY DEF Rec
  <2>4. call' = [call EXCEPT ![c] =
                    Rec(next, in, origin, request, code, answer, newSent, began)]
    BY Zenon, <1>5, <2>1, <2>2, <2>3
  <2>5. RecOK(c, next, in, request, began)
    BY <2>1 DEF RecOK, Steps, Checked
  <2> QED
    BY Zenon, <1>2, <2>4, <2>5, Moved
<1>6. CASE \E pc \in {ParseExternalSource(Adr(c), call[c].origin)} :
              call' = [call EXCEPT
                 ![c].step = IF Adr(c).wallet = Absent THEN "create" ELSE "connect",
                 ![c].sent = Present(ToProto(pc))]
  <2>1. PICK next \in {"create", "connect"} :
           next = IF Adr(c).wallet = Absent THEN "create" ELSE "connect"
    OBVIOUS
  <2>2. PICK newSent :
           call' = [call EXCEPT ![c] = [call[c] EXCEPT !.step = next, !.sent = newSent]]
    BY Zenon, <1>6, <2>1
  <2> QED
    BY Zenon, <1>5, <2>2
<1> QED
  BY <1>3, <1>4, <1>6 DEF DecodeBody, Fails

\* So is a remote wallet connected.
LEMMA ConnectWalletKeeps ==
  ASSUME Inv, NEW c \in Calls, ConnectWallet(c)
  PROVE  Inv'
<1>1. call[c].step = "connect" /\ call[c].step \in Steps /\ "connect" \in Steps
  BY DEF ConnectWallet, Steps
<1>2. CASE RPCFails(c)
  BY <1>1, <1>2, RPCFailsKeeps
<1>3. CASE ~RPCFails(c)
  <2>1. PICK in, origin, request, code, answer, sent, began :
           /\ call[c] = Rec("connect", in, origin, request, code, answer, sent, began)
           /\ RecOK(c, "connect", in, request, began)
    BY <1>1, MadeRec
  <2>2. Funded(in, began)
    BY <2>1 DEF RecOK, Checked
  <2>3. UNCHANGED <<now, deposits, held>>
    BY <1>3 DEF ConnectWallet, OnlyCall
  <2>4. GoesTo(c, "create") /\ "create" \in Checked
    BY <1>3 DEF ConnectWallet, Checked
  <2> QED
    BY <2>1, <2>2, <2>3, <2>4, GoesKeeps
<1> QED
  BY <1>2, <1>3

\* The rows of a call are stored only from "create", past the check of its deposit.
LEMMA CreateKeeps ==
  ASSUME Inv, NEW c \in Calls, CreatePreparedStorageRequest(c)
  PROVE  Inv'
<1>1. call[c].step = "create" /\ call[c].step \in Steps /\ "create" \in Steps
  BY DEF CreatePreparedStorageRequest, Steps
<1>2. ASSUME AnsweredWith(c, 500, NoRequest), UNCHANGED <<now, deposits, held>>
      PROVE  Inv'
  BY <1>1, <1>2, AnswerKeeps
<1>3. ASSUME NEW s, NEW b, UNCHANGED <<now, deposits, held>>,
             call' = [call EXCEPT ![c] = [call[c] EXCEPT !.step = "reply",
                                              !.request = <<s, b>>, !.sent = Absent]]
      PROVE  Inv'
  <2>1. PICK in, origin, request, code, answer, sent, began :
           /\ call[c] = Rec("create", in, origin, request, code, answer, sent, began)
           /\ RecOK(c, "create", in, request, began)
    BY <1>1, MadeRec
  <2>2. [Rec("create", in, origin, request, code, answer, sent, began) EXCEPT
            !.step = "reply"]
          = Rec("reply", in, origin, request, code, answer, sent, began)
    BY DEF Rec
  <2>3. [Rec("reply", in, origin, request, code, answer, sent, began) EXCEPT
            !.request = <<s, b>>]
          = Rec("reply", in, origin, <<s, b>>, code, answer, sent, began)
    BY DEF Rec
  <2>4. [Rec("reply", in, origin, <<s, b>>, code, answer, sent, began) EXCEPT
            !.sent = Absent]
          = Rec("reply", in, origin, <<s, b>>, code, answer, Absent, began)
    BY DEF Rec
  <2>5. call' = [call EXCEPT ![c] =
                    Rec("reply", in, origin, <<s, b>>, code, answer, Absent, began)]
    BY Zenon, <1>3, <2>1, <2>2, <2>3, <2>4
  <2>6. RecOK(c, "reply", in, <<s, b>>, began)
    BY <2>1 DEF RecOK, Steps, Checked
  <2> QED
    BY Zenon, <1>3, <2>5, <2>6, Moved
<1>4. ASSUME NEW s, NEW b, Stores(c, s, b) PROVE Inv'
  <2>1. UNCHANGED <<now, deposits, held>>
    BY <1>4 DEF Stores
  <2>2. \/ AnsweredWith(c, 500, NoRequest)
        \/ call' = [call EXCEPT ![c] = [call[c] EXCEPT !.step = "reply",
                                            !.request = <<s, b>>, !.sent = Absent]]
    BY Zenon, <1>4 DEF Stores, Fails
  <2> QED
    BY Zenon, <1>2, <1>3, <2>1, <2>2
<1> QED
  BY <1>2, <1>4 DEF CreatePreparedStorageRequest, Fails, OnlyCall

\* The answer stores nothing.
LEMMA ReplyKeeps ==
  ASSUME Inv, NEW c \in Calls, Reply(c)
  PROVE  Inv'
<1>1. call[c].step \in Steps
  BY DEF Reply, Steps
<1>2. CASE RPCFails(c)
  BY <1>1, <1>2, RPCFailsKeeps
<1>3. CASE ~RPCFails(c)
  <2>1. PICK newAnswer : AnsweredWith(c, 200, newAnswer)
    BY <1>3 DEF Reply
  <2>2. UNCHANGED <<now, deposits, held>>
    BY <1>3 DEF Reply, OnlyCall
  <2> QED
    BY <1>1, <2>1, <2>2, AnswerKeeps
<1> QED
  BY <1>2, <1>3

--------------------------------------------------------------------------------
(* The steps of the chains. *)

\* The calls stay as they are while held grows.
LEMMA ChainsMove ==
  ASSUME Inv, UNCHANGED call, held \subseteq held', now' \in Nat, now <= now',
         IsDeposits', Recorded'
  PROVE  Inv'
<1>1. IsCalls'
  BY DEF Inv, IsCalls
<1>2. ASSUME NEW c \in Calls PROVE CallOK(c)'
  <2>1. CallOK(c) /\ now \in Nat /\ call'[c] = call[c]
    BY DEF Inv
  <2> QED
    BY <2>1, CallStays
<1> QED
  BY <1>1, <1>2 DEF Inv

\* Hold adds the live deposits of the next state.
LEMMA HoldRecords ==
  ASSUME Hold
  PROVE  held \subseteq held' /\ Recorded'
<1>1. ASSUME NEW x \in Chains, NEW a \in Accounts, Live(deposits'[x][a], now')
      PROVE  <<x, a, now'>> \in held'
  <2>1. <<x, a, now'>> \in Chains \X Accounts \X {now'}
    OBVIOUS
  <2> QED
    BY <1>1, <2>1 DEF Hold
<1>2. Recorded'
  BY <1>1 DEF Recorded, Live
<1> QED
  BY <1>2 DEF Hold

\* A deposit is recorded when it is made.
LEMMA AddDepositKeeps ==
  ASSUME Inv, NEW x \in Chains, NEW a \in Accounts, NEW v, AddDeposit(x, a, v),
         UNCHANGED call
  PROVE  Inv'
<1>1. IsDeposits'
  BY Zenon DEF AddDeposit, IsDeposits, Inv
<1>2. held \subseteq held' /\ Recorded'
  BY HoldRecords DEF AddDeposit
<1>3. now' \in Nat /\ now <= now'
  BY DEF AddDeposit, Inv
<1> QED
  BY <1>1, <1>2, <1>3, ChainsMove

\* What is alive at the new time is recorded.
LEMMA TimePassesKeeps ==
  ASSUME Inv, TimePasses, UNCHANGED call
  PROVE  Inv'
<1>1. IsDeposits'
  BY DEF TimePasses, IsDeposits, Inv
<1>2. held \subseteq held' /\ Recorded'
  BY HoldRecords DEF TimePasses
<1>3. now' \in Nat /\ now <= now'
  BY DEF TimePasses, Inv
<1> QED
  BY <1>1, <1>2, <1>3, ChainsMove

\* The releasers take no live deposit, and record none.
LEMMA ReleaseKeeps ==
  ASSUME Inv, NEW x \in Chains, deposits' = [deposits EXCEPT ![x] = Released(x)],
         UNCHANGED <<now, held, call>>
  PROVE  Inv'
<1>1. IsDeposits'
  BY DEF IsDeposits, Inv, Released
<1>2. ASSUME NEW y \in Chains, NEW a \in Accounts
      PROVE  deposits'[y][a] \in {deposits[y][a], NoDeposit}
  <2>1. CASE y = x
    <3>1. deposits'[y] = Released(x)
      BY <2>1 DEF IsDeposits, Inv
    <3> QED
      BY <2>1, <3>1 DEF Released
  <2>2. CASE y # x
    BY <2>2 DEF IsDeposits, Inv
  <2> QED
    BY <2>1, <2>2
<1>3. ~Live(NoDeposit, now)
  BY DEF Live, NoDeposit
<1>4. ASSUME NEW y \in Chains, NEW a \in Accounts, Live(deposits'[y][a], now')
      PROVE  <<y, a, now'>> \in held'
  <2>1. PICK d : d = deposits'[y][a]
    OBVIOUS
  <2>2. Live(d, now)
    BY <1>4, <2>1
  <2>3. d = deposits[y][a]
    BY <1>2, <1>3, <2>1, <2>2
  <2> QED
    BY <2>2, <2>3 DEF Inv, Recorded
<1>5. Recorded'
  BY <1>4 DEF Recorded, Live
<1>6. now' \in Nat /\ now <= now' /\ held \subseteq held'
  BY DEF Inv
<1> QED
  BY <1>1, <1>5, <1>6, ChainsMove

\* Nothing that the invariant is about changes.
LEMMA Stutters ==
  ASSUME Inv, UNCHANGED <<now, deposits, held, call>>
  PROVE  Inv'
<1>1. IsDeposits' /\ Recorded'
  BY DEF Inv, IsDeposits, Recorded, Live
<1>2. now' \in Nat /\ now <= now' /\ held \subseteq held'
  BY DEF Inv
<1> QED
  BY <1>1, <1>2, ChainsMove

\* All steps of the chains.
LEMMA ChainKeeps ==
  ASSUME Inv, ChainNext, UNCHANGED call
  PROVE  Inv'
<1>1. CASE \E x \in Chains, a \in Accounts, v \in 1..MaxValue : AddDeposit(x, a, v)
  BY <1>1, AddDepositKeeps
<1>2. CASE TimePasses
  BY <1>2, TimePassesKeeps
<1>3. ASSUME NEW x \in NearChains, NearReleaserChecks(x) PROVE Inv'
  BY <1>3, Stutters DEF NearReleaserChecks
<1>4. ASSUME NEW x \in NearChains, NearReleaserReleases(x) PROVE Inv'
  <2>1. x \in Chains /\ UNCHANGED <<now, held, call>>
    BY <1>4 DEF NearReleaserReleases, Chains
  <2>2. CASE deposits' = [deposits EXCEPT ![x] = Released(x)]
    BY Zenon, <2>1, <2>2, ReleaseKeeps
  <2>3. CASE deposits' = deposits
    BY <2>1, <2>3, Stutters
  <2> QED
    BY <1>4, <2>2, <2>3 DEF NearReleaserReleases
<1>5. ASSUME NEW x \in EthShared, EthReleaser(x) PROVE Inv'
  <2>1. x \in Chains /\ UNCHANGED <<now, held, call>>
          /\ deposits' = [deposits EXCEPT ![x] = Released(x)]
    BY <1>5 DEF EthReleaser, Chains
  <2> QED
    BY Zenon, <2>1, ReleaseKeeps
<1> QED
  BY <1>1, <1>2, <1>3, <1>4, <1>5 DEF ChainNext

--------------------------------------------------------------------------------
(* The invariant. *)

\* No call has been made.
LEMMA InvInit == FrontInit => Inv
<1> SUFFICES ASSUME FrontInit PROVE Inv
  OBVIOUS
<1>1. now = 0 /\ deposits = [x \in Chains |-> [a \in Accounts |-> NoDeposit]]
  BY DEF FrontInit, ChainInit
<1>2. IsDeposits
  BY <1>1 DEF IsDeposits
<1>3. ~Live(NoDeposit, now)
  BY DEF Live, NoDeposit
<1>4. Recorded
  BY <1>1, <1>3 DEF Recorded
<1>5. IsCalls /\ \A c \in Calls : call[c] = NotMade
  BY DEF FrontInit, IsCalls
<1> QED
  BY <1>1, <1>2, <1>4, <1>5 DEF Inv, CallOK

\* All steps of a call.
LEMMA CallStepKeeps ==
  ASSUME Inv, NEW c \in Calls, CallStep(c)
  PROVE  Inv'
<1>1. CASE BrokerUnreachable(c)
  <2>1. call[c].step \in Steps /\ RPCFails(c)
    BY <1>1 DEF BrokerUnreachable, Steps
  <2> QED
    BY <2>1, RPCFailsKeeps
<1> QED
  BY <1>1, DoAuthKeeps, ValidateDepositedFundsKeeps, ValidateOwnsKeyKeeps,
     DecodeBodyKeeps, ConnectWalletKeeps, CreateKeeps, ReplyKeeps DEF CallStep

\* All steps.
LEMMA InvKept == Inv /\ [FrontNext]_FrontVars => Inv'
<1> SUFFICES ASSUME Inv, [FrontNext]_FrontVars PROVE Inv'
  OBVIOUS
<1>1. ASSUME NEW c \in Calls, NEW in \in InputsOf[c], AuctionDataHandler(c, in)
      PROVE  Inv'
  BY <1>1, HandlerKeeps
<1>2. ASSUME NEW c \in Calls, CallStep(c) PROVE Inv'
  BY <1>2, CallStepKeeps
<1>3. CASE ChainNext /\ UNCHANGED <<brokerVars, topicVars, frontVars>>
  <2>1. UNCHANGED call
    BY <1>3 DEF frontVars
  <2> QED
    BY <1>3, <2>1, ChainKeeps
<1>4. CASE UNCHANGED FrontVars
  BY <1>4, Stutters DEF FrontVars, chainVars, frontVars
<1> QED
  BY <1>1, <1>2, <1>3, <1>4 DEF FrontNext

\* A call for which rows are stored is past the check of its deposit.
LEMMA InvFunds == Inv => FundedDuringCall
<1> SUFFICES ASSUME Inv, NEW c \in Calls, Stored(c), IsChainToken(Token(c))
             PROVE  \E t \in call[c].began..now :
                       <<Suborigin(Token(c)), Token(c).iss, t>> \in held
  BY DEF FundedDuringCall
<1>1. call[c] # NotMade
  BY DEF Stored, Made, NotMade
<1>2. PICK step, in, origin, request, code, answer, sent, began :
         /\ call[c] = Rec(step, in, origin, request, code, answer, sent, began)
         /\ RecOK(c, step, in, request, began)
  BY <1>1 DEF Inv, CallOK
<1>3. call[c].request = request /\ call[c].began = began /\ Token(c) = TokenOf(in)
  <2>1. call[c].input = in /\ call[c].request = request /\ call[c].began = began
    BY <1>2, RecFields
  <2> QED
    BY <2>1 DEF Token
<1>4. Funded(in, began)
  BY Zenon, <1>2, <1>3 DEF RecOK, Stored
<1> QED
  BY <1>3, <1>4 DEF Funded

\* FundedDuringCall, for any calls, inputs, chains and accounts: when rows are stored
\* for a client that pays with a deposit, its account had a live deposit at some moment
\* since auctionDataHandler took the call, however the clock, the contracts and the
\* releasers move between the check in authd and the transaction of brokerd.
THEOREM AlwaysFundedDuringCall == FrontSpec => []FundedDuringCall
<1>1. Inv /\ [FrontNext]_FrontVars => Inv'
  BY InvKept
<1> QED
  BY <1>1, InvInit, InvFunds, PTL DEF FrontSpec

--------------------------------------------------------------------------------
(* What a client is told. *)

\* brokerd has a row for every request and batch.
IsTables(d) ==
    /\ d = [requests |-> d.requests, batches |-> d.batches, deals |-> d.deals,
            unpinData |-> d.unpinData, unpinBatch |-> d.unpinBatch,
            operations |-> d.operations]
    /\ d.requests = [s \in StorageRequests |-> d.requests[s]]
    /\ d.batches = [b \in Batches |-> d.batches[b]]

\* The request of a call is in the tables, and in auction.
InAuction(request, d) ==
    \E s \in StorageRequests, b \in Batches :
        request = <<s, b>> /\ d.requests[s].status = "auctioning"

\* What holds of a call rec that was made, when there were so many failures.
ToldTruly(rec, d, failures) ==
    /\ rec.request # NoRequest => InAuction(rec.request, d)
    /\ rec.step = "reply" => rec.request # NoRequest
    /\ rec.step = "answered" =>
          IF rec.code = 200
          THEN /\ rec.request # NoRequest
               /\ rec.answer = [id |-> rec.request[1],
                                cid |-> Parse(rec.input.adr.payloadCid),
                                status |-> "Auctioning"]
          ELSE rec.request # NoRequest => rec.code = 500 /\ failures > 0

\* The invariant: ToldTruly of every call that was made.
TruthInv ==
    /\ IsTables(db)
    /\ rpcFaults \in Nat
    /\ \A c \in Calls : call[c] # NotMade => ToldTruly(call[c], db, rpcFaults)

\* No request leaves its auction, and failures are only added.
Onwards(d, e, m, n) ==
    /\ \A s \in StorageRequests :
          d.requests[s].status = "auctioning" => e.requests[s].status = "auctioning"
    /\ m <= n

\* What is true of a call stays true.
LEMMA ToldStays ==
  ASSUME NEW rec, NEW d, NEW e, NEW m \in Nat, NEW n \in Nat, ToldTruly(rec, d, m),
         Onwards(d, e, m, n)
  PROVE  ToldTruly(rec, e, n)
<1>1. InAuction(rec.request, d) => InAuction(rec.request, e)
  BY Zenon DEF InAuction, Onwards
<1>2. m > 0 => n > 0
  BY DEF Onwards
<1> QED
  BY Zenon, <1>1, <1>2 DEF ToldTruly

\* A call for which nothing is stored is told of nothing.
LEMMA NothingToTell ==
  ASSUME NEW rec, NEW d, NEW n, rec.request = NoRequest, rec.step # "reply",
         rec.step = "answered" => rec.code # 200
  PROVE  ToldTruly(rec, d, n)
BY Zenon DEF ToldTruly

\* A step that moves call c only.
LEMMA TruthOfOne ==
  ASSUME Inv, TruthInv, NEW c \in Calls, NEW rec, call' = [call EXCEPT ![c] = rec],
         IsTables(db'), rpcFaults' \in Nat, Onwards(db, db', rpcFaults, rpcFaults'),
         ToldTruly(rec, db', rpcFaults')
  PROVE  TruthInv'
<1>1. call'[c] = rec
  BY DEF Inv, IsCalls
<1>2. ASSUME NEW o \in Calls, call'[o] # NotMade
      PROVE  ToldTruly(call'[o], db', rpcFaults')
  <2>1. CASE o = c
    BY Zenon, <1>1, <2>1
  <2>2. CASE o # c
    <3>1. call'[o] = call[o]
      BY <2>2 DEF Inv, IsCalls
    <3>2. ToldTruly(call[o], db, rpcFaults) /\ rpcFaults \in Nat
      BY Zenon, <1>2, <3>1 DEF TruthInv
    <3>3. ToldTruly(call[o], db', rpcFaults')
      BY Zenon, <3>2, ToldStays
    <3> QED
      BY Zenon, <3>1, <3>3
  <2> QED
    BY <2>1, <2>2
<1> QED
  BY Zenon, <1>2 DEF TruthInv

\* A step that leaves the tables alone.
LEMMA OnlyCallOnwards ==
  ASSUME TruthInv, db' = db, NoRPCFault \/ RPCFault
  PROVE  /\ IsTables(db')
         /\ rpcFaults' \in Nat
         /\ Onwards(db, db', rpcFaults, rpcFaults')
         /\ RPCFault => rpcFaults' > 0
<1>1. IsTables(db')
  BY Zenon DEF TruthInv
<1>2. rpcFaults \in Nat
  BY DEF TruthInv
<1>3. rpcFaults' \in Nat /\ rpcFaults <= rpcFaults' /\ (RPCFault => rpcFaults' > 0)
  BY <1>2 DEF NoRPCFault, RPCFault
<1>4. \A s \in StorageRequests :
         db.requests[s].status = "auctioning" => db'.requests[s].status = "auctioning"
  BY Zenon
<1> QED
  BY Zenon, <1>1, <1>3, <1>4 DEF Onwards

\* Nothing is stored for a call before its answer is on the way.
LEMMA NotYetStored ==
  ASSUME Inv, NEW c \in Calls, call[c].step \in Steps \ {"reply", "answered"}
  PROVE  call[c].request = NoRequest
<1>0. PICK step \in Steps : step = call[c].step
  OBVIOUS
<1>1. PICK in, origin, request, code, answer, sent, began :
         /\ call[c] = Rec(step, in, origin, request, code, answer, sent, began)
         /\ RecOK(c, step, in, request, began)
  BY <1>0, MadeRec
<1>2. call[c].request = request
  BY SMTT(30), <1>1, RecFields
<1> QED
  BY <1>0, <1>1, <1>2 DEF RecOK

\* A call that is somewhere has all its fields.
LEMMA CallFields ==
  ASSUME Inv, NEW c \in Calls, call[c].step \in Steps
  PROVE  \E step, in, origin, request, code, answer, sent, began :
            call[c] = Rec(step, in, origin, request, code, answer, sent, began)
<1>1. PICK step \in Steps : step = call[c].step
  OBVIOUS
<1> QED
  BY <1>1, MadeRec

\* A call for which nothing is stored moves on, or fails.
LEMMA MovesUntold ==
  ASSUME Inv, TruthInv, NEW c \in Calls, NEW rec, call' = [call EXCEPT ![c] = rec],
         call[c].step \in Steps \ {"reply", "answered"}, rec.request = call[c].request,
         rec.step # "reply", rec.step = "answered" => rec.code # 200,
         db' = db, NoRPCFault \/ RPCFault
  PROVE  TruthInv'
<1>1. rec.request = NoRequest
  BY NotYetStored
<1>2. ToldTruly(rec, db', rpcFaults')
  BY Zenon, <1>1, NothingToTell
<1> QED
  BY Zenon, <1>2, OnlyCallOnwards, TruthOfOne

\* A failure that stores nothing.
LEMMA FailsUntold ==
  ASSUME Inv, TruthInv, NEW c \in Calls, NEW k, k # 200, Fails(c, k),
         call[c].step \in Steps \ {"reply", "answered"}, db' = db, NoRPCFault \/ RPCFault
  PROVE  TruthInv'
<1>1. PICK rec : rec = [call[c] EXCEPT !.step = "answered", !.code = k,
                                       !.answer = NoRequest, !.sent = Absent]
  OBVIOUS
<1>2. call' = [call EXCEPT ![c] = rec]
  BY Zenon, <1>1 DEF Fails, AnsweredWith
<1>3. PICK step, in, origin, request, code, answer, sent, began :
         call[c] = Rec(step, in, origin, request, code, answer, sent, began)
  BY CallFields
<1>4. rec.request = call[c].request /\ rec.step = "answered" /\ rec.code = k
  BY <1>1, <1>3 DEF Rec
<1>5. rec.step # "reply" /\ rec.code # 200
  BY <1>4
<1> QED
  BY Zenon, <1>2, <1>4, <1>5, MovesUntold

\* A call that stores nothing goes on.
LEMMA GoesUntold ==
  ASSUME Inv, TruthInv, NEW c \in Calls, NEW next \in Steps \ {"reply", "answered"},
         GoesTo(c, next), call[c].step \in Steps \ {"reply", "answered"}, db' = db,
         NoRPCFault
  PROVE  TruthInv'
<1>1. PICK rec : rec = [call[c] EXCEPT !.step = next]
  BY Zenon
<1>2. call' = [call EXCEPT ![c] = rec]
  BY Zenon, <1>1 DEF GoesTo
<1>3. PICK step, in, origin, request, code, answer, sent, began :
         call[c] = Rec(step, in, origin, request, code, answer, sent, began)
  BY CallFields
<1>4. rec.request = call[c].request /\ rec.step = next
  BY <1>1, <1>3 DEF Rec
<1>5. rec.step # "reply" /\ rec.step # "answered"
  BY <1>4
<1> QED
  BY Zenon, <1>2, <1>4, <1>5, MovesUntold

\* A call between the daemons fails: the client is told so, also when the answer of
\* brokerd is what is lost.
LEMMA RPCFailsTold ==
  ASSUME Inv, TruthInv, NEW c \in Calls, call[c].step \in Steps \ {"answered"},
         RPCFails(c)
  PROVE  TruthInv'
<1>0. PICK k : k = 500
  OBVIOUS
<1>1. PICK rec : rec = [call[c] EXCEPT !.step = "answered", !.code = k,
                                       !.answer = NoRequest, !.sent = Absent]
  OBVIOUS
<1>2. call' = [call EXCEPT ![c] = rec]
  <2>1. AnsweredWith(c, k, NoRequest)
    BY <1>0 DEF RPCFails, Fails
  <2> QED
    BY Zenon, <1>1, <2>1 DEF AnsweredWith
<1>3. PICK step, in, origin, request, code, answer, sent, began :
         call[c] = Rec(step, in, origin, request, code, answer, sent, began)
  BY CallFields
<1>4. rec.request = call[c].request /\ rec.step = "answered" /\ rec.code = 500
  BY <1>0, <1>1, <1>3 DEF Rec
<1>5. RPCFault /\ db' = db
  BY DEF RPCFails, OnlyCall, brokerVars
<1>6. call[c] # NotMade
  BY DEF NotMade, Steps
<1>7. ToldTruly(call[c], db, rpcFaults)
  BY Zenon, <1>6 DEF TruthInv
<1>8. rpcFaults' > 0
  BY <1>5, OnlyCallOnwards
<1>9. 500 # 200 /\ "answered" # "reply"
  OBVIOUS
<1>10. rec.request # NoRequest => InAuction(rec.request, db')
  BY ZenonT(30), <1>4, <1>5, <1>7 DEF ToldTruly
<1>11. ToldTruly(rec, db', rpcFaults')
  BY SMTT(30), <1>4, <1>8, <1>9, <1>10 DEF ToldTruly
<1> QED
  BY Zenon, <1>2, <1>5, <1>11, OnlyCallOnwards, TruthOfOne

--------------------------------------------------------------------------------
(* The steps before the rows are stored. *)

\* A call that begins has stored nothing.
LEMMA HandlerTold ==
  ASSUME Inv, TruthInv, NEW c \in Calls, NEW in \in InputsOf[c], AuctionDataHandler(c, in)
  PROVE  TruthInv'
<1> DEFINE ok == in.method = "POST" /\ HeaderOK(in.headers)
           step == IF ok THEN "auth" ELSE "answered"
           code == IF ok THEN 0 ELSE 400
<1>1. call' = [call EXCEPT ![c] =
                  Rec(step, in, NoOrigin, NoRequest, code, NoRequest, Absent, now)]
  BY DEF AuctionDataHandler, Rec
<1>2. db' = db /\ NoRPCFault
  BY DEF AuctionDataHandler, OnlyCall, brokerVars
<1>3. step # "reply" /\ code # 200
  BY SMTT(30)
<1> HIDE DEF step, code
<1>4. PICK rec : rec = Rec(step, in, NoOrigin, NoRequest, code, NoRequest, Absent, now)
  OBVIOUS
<1>5. rec.step = step /\ rec.request = NoRequest /\ rec.code = code
  BY <1>4 DEF Rec
<1>6. ToldTruly(rec, db', rpcFaults')
  BY Zenon, <1>3, <1>5, NothingToTell
<1>7. call' = [call EXCEPT ![c] = rec]
  BY Zenon, <1>1, <1>4
<1> QED
  BY Zenon, <1>2, <1>6, <1>7, OnlyCallOnwards, TruthOfOne

\* Whatever authd answers.
LEMMA AuthorizedTold ==
  ASSUME Inv, TruthInv, NEW c \in Calls, NEW answered, Authorized(c, answered),
         call[c].step \in {"auth", "deposit", "key"}, db' = db, NoRPCFault
  PROVE  TruthInv'
<1>1. call[c].step \in Steps \ {"reply", "answered"}
  BY DEF Steps
<1>2. CASE answered.code = "OK"
  <2>1. PICK rec : rec = [call[c] EXCEPT !.step = "body", !.origin = answered.origin]
    BY Zenon
  <2>2. call' = [call EXCEPT ![c] = rec]
    BY Zenon, <1>2, <2>1 DEF Authorized
  <2>3. PICK step, in, origin, request, code, answer, sent, began :
           call[c] = Rec(step, in, origin, request, code, answer, sent, began)
    BY <1>1, CallFields
  <2>4. rec.request = call[c].request /\ rec.step = "body"
    BY <2>1, <2>3 DEF Rec
  <2>5. rec.step # "reply" /\ rec.step # "answered"
    BY <2>4
  <2> QED
    BY Zenon, <1>1, <2>2, <2>4, <2>5, MovesUntold
<1>3. CASE answered.code # "OK"
  <2>1. PICK k \in {401, 500} : Fails(c, k)
    BY <1>3 DEF Authorized
  <2>2. k # 200
    BY SMTT(30)
  <2> QED
    BY SMTT(30), <1>1, <2>1, <2>2, FailsUntold
<1> QED
  BY <1>2, <1>3

\* authd stores nothing,
LEMMA DoAuthTold ==
  ASSUME Inv, TruthInv, NEW c \in Calls, DoAuth(c)
  PROVE  TruthInv'
<1>1. call[c].step = "auth"
  BY DEF DoAuth
<1>2. call[c].step \in Steps \ {"reply", "answered"}
  BY <1>1 DEF Steps
<1>3. CASE RPCFails(c)
  BY <1>2, <1>3, RPCFailsTold
<1>4. CASE ~RPCFails(c)
  <2>1. db' = db /\ NoRPCFault
    BY <1>4 DEF DoAuth, OnlyCall, brokerVars
  <2>2. GoesTo(c, "deposit") \/ \E answered : Authorized(c, answered)
    BY Zenon, <1>4 DEF DoAuth
  <2>3. CASE GoesTo(c, "deposit")
    <3>1. "deposit" \in Steps \ {"reply", "answered"}
      BY DEF Steps
    <3> QED
      BY <1>2, <2>1, <2>3, <3>1, GoesUntold
  <2>4. ASSUME NEW answered, Authorized(c, answered) PROVE TruthInv'
    BY <1>1, <2>1, <2>4, AuthorizedTold
  <2> QED
    BY Zenon, <2>2, <2>3, <2>4
<1> QED
  BY <1>3, <1>4

\* nor does its check of a deposit,
LEMMA ValidateDepositedFundsTold ==
  ASSUME Inv, TruthInv, NEW c \in Calls, ValidateDepositedFunds(c)
  PROVE  TruthInv'
<1>1. call[c].step = "deposit"
  BY DEF ValidateDepositedFunds
<1>2. call[c].step \in Steps \ {"reply", "answered"}
  BY <1>1 DEF Steps
<1>3. CASE RPCFails(c)
  BY <1>2, <1>3, RPCFailsTold
<1>4. CASE ~RPCFails(c)
  <2>1. db' = db /\ NoRPCFault
    BY <1>4 DEF ValidateDepositedFunds, OnlyCall, brokerVars
  <2>2. GoesTo(c, "key") \/ \E answered : Authorized(c, answered)
    BY Zenon, <1>4 DEF ValidateDepositedFunds
  <2>3. CASE GoesTo(c, "key")
    <3>1. "key" \in Steps \ {"reply", "answered"}
      BY DEF Steps
    <3> QED
      BY <1>2, <2>1, <2>3, <3>1, GoesUntold
  <2>4. ASSUME NEW answered, Authorized(c, answered) PROVE TruthInv'
    BY <1>1, <2>1, <2>4, AuthorizedTold
  <2> QED
    BY Zenon, <2>2, <2>3, <2>4
<1> QED
  BY <1>3, <1>4

\* or of a key.
LEMMA ValidateOwnsKeyTold ==
  ASSUME Inv, TruthInv, NEW c \in Calls, ValidateOwnsKey(c)
  PROVE  TruthInv'
<1>1. call[c].step = "key"
  BY DEF ValidateOwnsKey
<1>2. call[c].step \in Steps \ {"reply", "answered"}
  BY <1>1 DEF Steps
<1>3. CASE RPCFails(c)
  BY <1>2, <1>3, RPCFailsTold
<1>4. CASE ~RPCFails(c)
  <2>1. db' = db /\ NoRPCFault
    BY <1>4 DEF ValidateOwnsKey, OnlyCall, brokerVars
  <2>2. PICK answered : Authorized(c, answered)
    BY <1>4 DEF ValidateOwnsKey
  <2> QED
    BY <1>1, <2>1, <2>2, AuthorizedTold
<1> QED
  BY <1>3, <1>4

\* Nothing is stored when the body is decoded or refused,
LEMMA DecodeBodyTold ==
  ASSUME Inv, TruthInv, NEW c \in Calls, DecodeBody(c)
  PROVE  TruthInv'
<1>1. call[c].step \in Steps \ {"reply", "answered"}
  BY DEF DecodeBody, Steps
<1>2. db' = db /\ NoRPCFault
  BY DEF DecodeBody, OnlyCall, brokerVars
<1>3. ASSUME NEW k \in {400, 500}, Fails(c, k) PROVE TruthInv'
  <2>1. k # 200
    OBVIOUS
  <2> QED
    BY SMTT(30), <1>1, <1>2, <1>3, <2>1, FailsUntold
<1>4. ASSUME NEW next \in {"create", "connect"}, NEW newSent,
             call' = [call EXCEPT ![c] = [call[c] EXCEPT !.step = next, !.sent = newSent]]
      PROVE  TruthInv'
  <2>1. PICK rec : rec = [call[c] EXCEPT !.step = next, !.sent = newSent]
    BY Zenon
  <2>2. call' = [call EXCEPT ![c] = rec]
    BY Zenon, <1>4, <2>1
  <2>3. PICK step, in, origin, request, code, answer, sent, began :
           call[c] = Rec(step, in, origin, request, code, answer, sent, began)
    BY <1>1, CallFields
  <2>4. rec.request = call[c].request /\ rec.step = next
    BY <2>1, <2>3 DEF Rec
  <2>5. rec.step # "reply" /\ rec.step # "answered"
    BY <2>4
  <2> QED
    BY Zenon, <1>1, <1>2, <2>2, <2>4, <2>5, MovesUntold
<1>5. CASE \E pc \in {ParseExternalSource(Adr(c), call[c].origin)} :
              call' = [call EXCEPT
                 ![c].step = IF Adr(c).wallet = Absent THEN "create" ELSE "connect",
                 ![c].sent = Present(ToProto(pc))]
  <2>1. PICK next \in {"create", "connect"} :
           next = IF Adr(c).wallet = Absent THEN "create" ELSE "connect"
    OBVIOUS
  <2>2. PICK newSent :
           call' = [call EXCEPT ![c] = [call[c] EXCEPT !.step = next, !.sent = newSent]]
    BY ZenonT(30), <1>5, <2>1
  <2> QED
    BY Zenon, <1>4, <2>2
<1> QED
  BY <1>3, <1>5 DEF DecodeBody

\* or when a wallet is connected.
LEMMA ConnectWalletTold ==
  ASSUME Inv, TruthInv, NEW c \in Calls, ConnectWallet(c)
  PROVE  TruthInv'
<1>1. call[c].step \in Steps \ {"reply", "answered"}
  BY DEF ConnectWallet, Steps
<1>2. CASE RPCFails(c)
  BY <1>1, <1>2, RPCFailsTold
<1>3. CASE ~RPCFails(c)
  <2>1. db' = db /\ NoRPCFault /\ GoesTo(c, "create")
    BY <1>3 DEF ConnectWallet, OnlyCall, brokerVars
  <2>2. "create" \in Steps \ {"reply", "answered"}
    BY DEF Steps
  <2> QED
    BY <1>1, <2>1, <2>2, GoesUntold
<1> QED
  BY <1>2, <1>3

--------------------------------------------------------------------------------
(* The rows, and the answer about them. *)

\* Requests are written: the other tables stay.
LEMMA WriteRequests ==
  ASSUME NEW d, IsTables(d), NEW f, f = [s \in StorageRequests |-> f[s]],
         NEW e, e = [d EXCEPT !.requests = f]
  PROVE  IsTables(e) /\ e.requests = f /\ e.batches = d.batches
BY DEF IsTables

\* A batch is written: the requests stay.
LEMMA WriteBatch ==
  ASSUME NEW d, IsTables(d), NEW b \in Batches, NEW row, NEW e, e = UpdateBatch(d, b, row)
  PROVE  IsTables(e) /\ e.requests = d.requests /\ e.batches[b] = row
<1>1. PICK f : f = [d.batches EXCEPT ![b] = row]
  BY Zenon
<1>2. f = [x \in Batches |-> f[x]] /\ f[b] = row
  BY <1>1 DEF IsTables
<1>3. e = [d EXCEPT !.batches = f]
  BY Zenon, <1>1 DEF UpdateBatch
<1> QED
  BY <1>2, <1>3 DEF IsTables

\* What CreatePrepared commits once it has written batch b to the tables d.
Prepared(d, b, row) == StartAuction(d, b, row.piece, row.rep, row.providers # {})

\* The first auction of a batch excludes none of the providers it is for, so there is
\* one to be held.
LEMMA FirstAuction ==
  ASSUME NEW d, NEW b, NEW row, d.batches[b] = row
  PROVE  Prepared(d, b, row).db = d
<1> DEFINE excluded == IF row.providers # {} THEN {}
                       ELSE GetExcludedStorageProviders(d, row.piece)
           msg == [id |-> nextID, batch |-> b, rep |-> row.rep,
                   excluded |-> excluded, providers |-> row.providers]
<1>1. ~(row.providers # {} /\ row.providers \subseteq excluded)
  BY Zenon
<1>2. Prepared(d, b, row) = Tx(d, {}, {msg}, {})
  BY Zenon, <1>1 DEF Prepared, StartAuction
<1> HIDE DEF msg
<1>3. Tx(d, {}, {msg}, {}).db = d
  BY DEF Tx
<1> QED
  BY Zenon, <1>2, <1>3

\* The row of the request.
LEMMA RequestInAuction ==
  ASSUME NEW b, NEW row, row = [NoRequestRow EXCEPT !.status = "auctioning"]
  PROVE  [row EXCEPT !.status = "auctioning", !.batch = b].status = "auctioning"
BY DEF NoRequestRow

\* CreatePrepared commits a request that is in auction and touches no other, or leaves
\* the tables as they are.
LEMMA CreatePreparedRows ==
  ASSUME IsTables(db), NEW s \in StorageRequests, NEW b \in Batches, NEW in,
         CreatePrepared(s, b, in)
  PROVE  \/ db' = db
         \/ /\ IsTables(db')
            /\ db'.requests[s].status = "auctioning"
            /\ \A x \in StorageRequests : x # s => db'.requests[x] = db.requests[x]
<1>1. PICK row : row = [status    |-> "auctioning",
                        rep       |-> IF in.rep = 0 THEN DealReplication ELSE in.rep,
                        piece     |-> in.piece,
                        disallow  |-> TRUE,
                        providers |-> in.providers,
                        carURL    |-> in.carURL]
  BY Zenon
<1>2. PICK d1 : d1 = CreateStorageRequest(db, s, "auctioning")
  BY Zenon
<1>3. PICK d2 : d2 = CreateBatch(d1, b, row, {s})
  BY Zenon
<1>4. FinishTx(Prepared(d2, b, row))
  BY Zenon, <1>1, <1>2, <1>3 DEF CreatePrepared, Prepared
<1>5. row.status = "auctioning"
  BY <1>1
<1>6. PICK new : new = [NoRequestRow EXCEPT !.status = "auctioning"]
  BY Zenon
<1>7. PICK f1 : f1 = [db.requests EXCEPT ![s] = new]
  BY Zenon
<1>8. /\ f1 = [x \in StorageRequests |-> f1[x]]
      /\ f1[s] = new
      /\ \A x \in StorageRequests : x # s => f1[x] = db.requests[x]
  BY <1>7 DEF IsTables
<1>9. d1 = [db EXCEPT !.requests = f1]
  BY Zenon, <1>2, <1>6, <1>7 DEF CreateStorageRequest
<1>10. IsTables(d1) /\ d1.requests = f1
  BY <1>8, <1>9, WriteRequests
<1>11. PICK e : e = UpdateBatch(d1, b, row)
  BY Zenon
<1>12. IsTables(e) /\ e.requests = f1 /\ e.batches[b] = row
  BY SMTT(30), <1>10, <1>11, WriteBatch
<1>13. PICK f2 : f2 = [x \in StorageRequests |->
                          IF x \in {s}
                          THEN [e.requests[x] EXCEPT !.status = "auctioning", !.batch = b]
                          ELSE e.requests[x]]
  BY Zenon
<1>14. d2 = [e EXCEPT !.requests = f2]
  BY Zenon, <1>3, <1>5, <1>11, <1>13 DEF CreateBatch, BatchUpdateStorageRequests
<1>15. f2 = [x \in StorageRequests |-> f2[x]]
  BY Zenon, <1>13
<1>16. IsTables(d2) /\ d2.requests = f2 /\ d2.batches[b] = row
  BY <1>12, <1>14, <1>15, WriteRequests
<1>17. d2.requests[s].status = "auctioning"
  <2>1. f2[s] = [new EXCEPT !.status = "auctioning", !.batch = b]
    BY Zenon, <1>8, <1>12, <1>13
  <2> QED
    BY ZenonT(30), <1>6, <1>16, <2>1, RequestInAuction
<1>18. ASSUME NEW x \in StorageRequests, x # s PROVE d2.requests[x] = db.requests[x]
  <2>1. f2[x] = f1[x]
    BY Zenon, <1>12, <1>13, <1>18
  <2> QED
    BY Zenon, <1>8, <1>16, <1>18, <2>1
<1>19. Prepared(d2, b, row).db = d2
  BY Zenon, <1>16, FirstAuction
<1>20. db' = db \/ db' = d2
  BY Zenon, <1>4, <1>19 DEF FinishTx
<1> QED
  BY Zenon, <1>16, <1>17, <1>18, <1>20

\* The request is stored for the call, or nothing is.
LEMMA StoresTold ==
  ASSUME Inv, TruthInv, NEW c \in Calls, NEW s \in StorageRequests, NEW b \in Batches,
         call[c].step = "create", Stores(c, s, b)
  PROVE  TruthInv'
<1>1. call[c].step \in Steps \ {"reply", "answered"}
  BY DEF Steps
<1>2. rpcFaults' = rpcFaults /\ rpcFaults \in Nat
  BY DEF Stores, TruthInv
<1>3. PICK in : CreatePrepared(s, b, in)
  BY Zenon DEF Stores
<1>4. CASE db' = db
  <2>1. Fails(c, 500)
    BY Zenon, <1>4 DEF Stores
  <2>2. NoRPCFault
    BY <1>2 DEF NoRPCFault
  <2>3. PICK k : k = 500
    BY ZenonT(30)
  <2>4. Fails(c, k) /\ k # 200
    BY SMTT(30), <2>1, <2>3
  <2> QED
    BY Zenon, <1>1, <1>4, <2>2, <2>4, FailsUntold
<1>5. CASE db' # db
  <2>1. /\ IsTables(db')
        /\ db'.requests[s].status = "auctioning"
        /\ \A x \in StorageRequests : x # s => db'.requests[x] = db.requests[x]
    BY Zenon, <1>3, <1>5, CreatePreparedRows DEF TruthInv
  <2>2. PICK rec : rec = [call[c] EXCEPT !.step = "reply", !.request = <<s, b>>,
                                         !.sent = Absent]
    BY Zenon
  <2>3. call' = [call EXCEPT ![c] = rec]
    BY Zenon, <1>5, <2>2 DEF Stores
  <2>4. PICK step, inp, origin, request, code, answer, sent, began :
           call[c] = Rec(step, inp, origin, request, code, answer, sent, began)
    BY <1>1, CallFields
  <2>5. rec.step = "reply" /\ rec.request = <<s, b>>
    BY <2>2, <2>4 DEF Rec
  <2>6. <<s, b>> # NoRequest /\ rec.step # "answered"
    BY <2>5 DEF NoRequest
  <2>7. InAuction(rec.request, db')
    BY Zenon, <2>1, <2>5 DEF InAuction
  <2>8. ToldTruly(rec, db', rpcFaults')
    BY Zenon, <2>5, <2>6, <2>7 DEF ToldTruly
  <2>9. rpcFaults <= rpcFaults' /\ rpcFaults' \in Nat
    BY <1>2
  <2>10. Onwards(db, db', rpcFaults, rpcFaults')
    BY Zenon, <2>1, <2>9 DEF Onwards
  <2> QED
    BY Zenon, <2>1, <2>3, <2>8, <2>9, <2>10, TruthOfOne
<1> QED
  BY <1>4, <1>5

\* The rows are stored, or the call fails without them.
LEMMA CreateTold ==
  ASSUME Inv, TruthInv, NEW c \in Calls, CreatePreparedStorageRequest(c)
  PROVE  TruthInv'
<1>1. call[c].step = "create"
  BY DEF CreatePreparedStorageRequest
<1>2. ASSUME NEW s \in StorageRequests, NEW b \in Batches, Stores(c, s, b) PROVE TruthInv'
  BY Zenon, <1>1, <1>2, StoresTold
<1>3. CASE Fails(c, 500) /\ NoRPCFault /\ OnlyCall
  <2>1. call[c].step \in Steps \ {"reply", "answered"} /\ db' = db
    BY <1>1, <1>3 DEF Steps, OnlyCall, brokerVars
  <2>2. PICK k : k = 500
    BY Zenon
  <2>3. Fails(c, k) /\ k # 200
    BY <1>3, <2>2
  <2> QED
    BY Zenon, <1>3, <2>1, <2>3, FailsUntold
<1> QED
  BY Zenon, <1>2, <1>3 DEF CreatePreparedStorageRequest

\* A status is the same for brokerd, its client and storaged.
LEMMA AuctioningIsThird ==
  (CHOOSE n \in DOMAIN Statuses : Statuses[n] = "auctioning") = 3
<1>1. DOMAIN Statuses = 1..6 /\ Statuses[3] = "auctioning"
  BY DEF Statuses
<1>2. ASSUME NEW n \in 1..6, Statuses[n] = "auctioning" PROVE n = 3
  <2>1. n = 1 \/ n = 2 \/ n = 3 \/ n = 4 \/ n = 5 \/ n = 6
    OBVIOUS
  <2> QED
    BY <1>2, <2>1 DEF Statuses
<1>3. 3 \in 1..6
  OBVIOUS
<1> QED
  BY <1>1, <1>2, <1>3

\* What the client reads of the request.
LEMMA AnswerOfRequest ==
  ASSUME NEW c
  PROVE  ToRequest(Received(c)) = [id |-> call[c].request[1],
                                   cid |-> Parse(Adr(c).payloadCid),
                                   status |-> "Auctioning"]
<1>1. PICK id, cid : id = call[c].request[1] /\ cid = Parse(Adr(c).payloadCid)
  BY Zenon
<1>2. PICK sr : sr = CreatedRequest(c)
  BY Zenon
<1>3. sr.id = id /\ sr.dataCid = cid /\ sr.status = "auctioning"
  BY <1>1, <1>2 DEF CreatedRequest
<1>4. PICK p : p = StorageRequestToProto(sr)
  BY Zenon
<1>5. p = [id |-> id, dataCid |-> Bytes(cid), status |-> 3]
  BY Zenon, <1>3, <1>4, AuctioningIsThird DEF StorageRequestToProto
<1>6. Parse(Bytes(cid)) = cid /\ Statuses[3] = "auctioning"
  BY DEF Parse, Bytes, Statuses
<1>7. FromProtoStorageRequest(p) = [id |-> id, dataCid |-> cid, status |-> "auctioning"]
  <2>1. p.id = id /\ p.dataCid = Bytes(cid) /\ p.status = 3
    BY <1>5
  <2> QED
    BY Zenon, <1>6, <2>1 DEF FromProtoStorageRequest
<1>8. StorageStatus("auctioning") = "Auctioning"
  <2>1. StorageStatuses[3] = "Auctioning"
    BY DEF StorageStatuses
  <2> QED
    BY Zenon, <2>1, AuctioningIsThird DEF StorageStatus
<1>9. PICK br : br = FromProtoStorageRequest(p)
  BY Zenon
<1>10. br.id = id /\ br.dataCid = cid /\ br.status = "auctioning"
  BY <1>7, <1>9
<1>11. ToRequest(br) = [id |-> id, cid |-> cid, status |-> "Auctioning"]
  BY Zenon, <1>8, <1>10 DEF ToRequest
<1> QED
  BY Zenon, <1>1, <1>2, <1>4, <1>9, <1>11 DEF Received

\* The client is told of its request as it is in the tables.
LEMMA ReplyTold ==
  ASSUME Inv, TruthInv, NEW c \in Calls, Reply(c)
  PROVE  TruthInv'
<1>1. call[c].step = "reply" /\ call[c].step \in Steps \ {"answered"}
  BY DEF Reply, Steps
<1>2. CASE RPCFails(c)
  BY <1>1, <1>2, RPCFailsTold
<1>3. CASE ~RPCFails(c)
  <2>1. db' = db /\ NoRPCFault
    BY <1>3 DEF Reply, OnlyCall, brokerVars
  <2>2. PICK k, a : k = 200 /\ a = ToRequest(Received(c))
    BY Zenon
  <2>3. AnsweredWith(c, k, a)
    BY Zenon, <1>3, <2>2 DEF Reply
  <2>4. PICK rec : rec = [call[c] EXCEPT !.step = "answered", !.code = k,
                                         !.answer = a, !.sent = Absent]
    BY Zenon
  <2>5. call' = [call EXCEPT ![c] = rec]
    BY Zenon, <2>3, <2>4 DEF AnsweredWith
  <2>6. PICK step, in, origin, request, code, answer, sent, began :
           call[c] = Rec(step, in, origin, request, code, answer, sent, began)
    BY <1>1, CallFields
  <2>7. /\ rec.step = "answered" /\ rec.code = k /\ rec.answer = a
        /\ rec.request = call[c].request /\ rec.input = call[c].input
    BY <2>4, <2>6 DEF Rec
  <2>8. call[c] # NotMade
    BY <1>1 DEF NotMade
  <2>9. ToldTruly(call[c], db, rpcFaults)
    BY Zenon, <2>8 DEF TruthInv
  <2>10. call[c].request # NoRequest /\ InAuction(call[c].request, db)
    BY Zenon, <1>1, <2>9 DEF ToldTruly
  <2>11. a = [id |-> rec.request[1], cid |-> Parse(rec.input.adr.payloadCid),
              status |-> "Auctioning"]
    BY Zenon, <2>2, <2>7, AnswerOfRequest DEF Adr
  <2>12. rec.step # "reply" /\ rec.code = 200
    BY <2>2, <2>7
  <2>13. ToldTruly(rec, db', rpcFaults')
    BY Zenon, <2>1, <2>7, <2>10, <2>11, <2>12 DEF ToldTruly
  <2> QED
    BY Zenon, <2>1, <2>5, <2>13, OnlyCallOnwards, TruthOfOne
<1> QED
  BY <1>2, <1>3

--------------------------------------------------------------------------------
\* No call has been made.
LEMMA TruthInit == FrontInit => TruthInv
<1> SUFFICES ASSUME FrontInit PROVE TruthInv
  OBVIOUS
<1>1. db = EmptyDB /\ rpcFaults = 0
  BY DEF FrontInit, BrokerInit, ChainInit
<1>2. IsTables(db)
  BY <1>1 DEF EmptyDB, IsTables
<1>3. \A c \in Calls : call[c] = NotMade
  BY DEF FrontInit
<1> QED
  BY <1>1, <1>2, <1>3 DEF TruthInv

\* The chains do not touch the calls or the tables.
LEMMA TruthAside ==
  ASSUME TruthInv, UNCHANGED <<db, call>>, NoRPCFault \/ RPCFault
  PROVE  TruthInv'
<1>1. IsTables(db') /\ rpcFaults' \in Nat
  BY OnlyCallOnwards
<1>2. Onwards(db, db', rpcFaults, rpcFaults')
  BY OnlyCallOnwards
<1>3. ASSUME NEW c \in Calls, call'[c] # NotMade
      PROVE  ToldTruly(call'[c], db', rpcFaults')
  <2>1. call'[c] = call[c]
    OBVIOUS
  <2>2. ToldTruly(call[c], db, rpcFaults) /\ rpcFaults \in Nat
    BY Zenon, <1>3, <2>1 DEF TruthInv
  <2>3. ToldTruly(call[c], db', rpcFaults')
    BY Zenon, <1>1, <1>2, <2>2, ToldStays
  <2> QED
    BY Zenon, <2>1, <2>3
<1> QED
  BY Zenon, <1>1, <1>3 DEF TruthInv

\* The chains move with a failure, or without one.
LEMMA ChainFaults ==
  ASSUME ChainNext
  PROVE  NoRPCFault \/ RPCFault
BY Zenon DEF ChainNext, AddDeposit, TimePasses, NearReleaserChecks, NearReleaserReleases,
   EthReleaser, NoRPCFault

\* All steps of a call.
LEMMA CallStepTold ==
  ASSUME Inv, TruthInv, NEW c \in Calls, CallStep(c)
  PROVE  TruthInv'
<1>1. CASE BrokerUnreachable(c)
  <2>1. call[c].step \in Steps \ {"answered"} /\ RPCFails(c)
    BY <1>1 DEF BrokerUnreachable, Steps
  <2> QED
    BY <2>1, RPCFailsTold
<1> QED
  BY <1>1, DoAuthTold, ValidateDepositedFundsTold, ValidateOwnsKeyTold,
     DecodeBodyTold, ConnectWalletTold, CreateTold, ReplyTold DEF CallStep

\* All steps.
LEMMA TruthKept == Inv /\ TruthInv /\ [FrontNext]_FrontVars => TruthInv'
<1> SUFFICES ASSUME Inv, TruthInv, [FrontNext]_FrontVars PROVE TruthInv'
  OBVIOUS
<1>1. ASSUME NEW c \in Calls, NEW in \in InputsOf[c], AuctionDataHandler(c, in)
      PROVE  TruthInv'
  BY <1>1, HandlerTold
<1>2. ASSUME NEW c \in Calls, CallStep(c) PROVE TruthInv'
  BY <1>2, CallStepTold
<1>3. CASE ChainNext /\ UNCHANGED <<brokerVars, topicVars, frontVars>>
  <2>1. UNCHANGED <<db, call>>
    BY <1>3 DEF brokerVars, frontVars
  <2>2. NoRPCFault \/ RPCFault
    BY <1>3, ChainFaults
  <2> QED
    BY <2>1, <2>2, TruthAside
<1>4. CASE UNCHANGED FrontVars
  <2>1. UNCHANGED <<db, call>> /\ NoRPCFault
    BY <1>4 DEF FrontVars, brokerVars, frontVars, chainVars, NoRPCFault
  <2> QED
    BY <2>1, TruthAside
<1> QED
  BY <1>1, <1>2, <1>3, <1>4 DEF FrontNext

\* A call that is told of its request has one in auction.
LEMMA InvTells == TruthInv => AnsweredTruly
<1> SUFFICES ASSUME TruthInv, NEW c \in Calls, Answered(c)
             PROVE  IF call[c].code = 200
                    THEN /\ Stored(c)
                         /\ call[c].answer = [id |-> call[c].request[1],
                                              cid |-> Parse(Adr(c).payloadCid),
                                              status |-> "Auctioning"]
                         /\ db.requests[call[c].request[1]].status = "auctioning"
                    ELSE Stored(c) => call[c].code = 500 /\ rpcFaults > 0
  BY Zenon DEF AnsweredTruly
<1>1. call[c].step = "answered" /\ call[c] # NotMade /\ Made(c)
  BY DEF Answered, NotMade, Made
<1>2. ToldTruly(call[c], db, rpcFaults)
  BY Zenon, <1>1 DEF TruthInv
<1>3. CASE call[c].code = 200
  <2>1. /\ call[c].request # NoRequest
        /\ InAuction(call[c].request, db)
        /\ call[c].answer = [id |-> call[c].request[1],
                             cid |-> Parse(call[c].input.adr.payloadCid),
                             status |-> "Auctioning"]
    BY Zenon, <1>1, <1>2, <1>3 DEF ToldTruly
  <2>2. PICK s \in StorageRequests, b \in Batches :
           call[c].request = <<s, b>> /\ db.requests[s].status = "auctioning"
    BY Zenon, <2>1 DEF InAuction
  <2>3. call[c].request[1] = s
    BY <2>2
  <2> QED
    BY Zenon, <1>1, <1>3, <2>1, <2>2, <2>3 DEF Stored, Adr
<1>4. CASE call[c].code # 200
  BY Zenon, <1>1, <1>2, <1>4 DEF ToldTruly, Stored
<1> QED
  BY <1>3, <1>4

\* AnsweredTruly, for any calls, inputs, chains and tables and any number of failures: a
\* client that auctionDataHandler answers with 200 gets the id, the cid and the status of
\* a request that is in the tables and in auction; one that is told of an
\* error has stored nothing, unless a call between the daemons failed.
THEOREM AlwaysAnsweredTruly == FrontSpec => []AnsweredTruly
<1>1. Inv /\ [FrontNext]_FrontVars => Inv'
  BY InvKept
<1>2. Inv /\ TruthInv /\ [FrontNext]_FrontVars => TruthInv'
  BY TruthKept
<1> QED
  BY <1>1, <1>2, InvInit, TruthInit, InvTells, PTL DEF FrontSpec

================================================================================
