--------------------------------- MODULE Chain ---------------------------------
(***************************************************************************)
(* The chain APIs: neard, ethd and polyd.  Each serves HasDeposit and      *)
(* OwnsPublicKey to authd for the chains it knows, and runs a releaser     *)
(* that asks the contract to pay expired deposits back.                    *)
(*                                                                         *)
(* The contracts are external: an account has at most one deposit in each, *)
(* and a session lasts value / SessionDivisor.  An answer is "yes", "no"   *)
(* or "error"; rpcFaults counts the calls to a node that failed.           *)
(***************************************************************************)
EXTENDS Integers, Sequences

CONSTANTS
    NearChains, EthChains, PolyChains,   \* the chain ids each daemon knows
    Accounts,
    KeysOf,                  \* account -> the access keys it has on NEAR
    SessionDivisor,
    MaxValue,                \* bound: the value of a deposit
    MaxTime,                 \* bound: the clock
    MaxRPCFaults             \* bound: failed calls to a node or a daemon

\* ethd and polyd are one program.
EthShared == EthChains \union PolyChains

Chains == NearChains \union EthShared

ChainsOf == [near |-> NearChains, eth |-> EthChains, poly |-> PolyChains]

ASSUME ChainAssumption ==
    /\ NearChains \intersect EthShared = {}
    /\ DOMAIN KeysOf = Accounts
    /\ SessionDivisor \in Nat \ {0}
    /\ MaxValue \in Nat /\ MaxTime \in Nat /\ MaxRPCFaults \in Nat

VARIABLES
    now,
    deposits,     \* chain -> account -> the deposit in the contract
    releasing,    \* the NEAR chains whose releaser found something to release
    held,         \* the <<chain, account, time>> at which there was a live deposit
    rpcFaults

chainVars == <<now, deposits, releasing, held, rpcFaults>>

NoDeposit == [value |-> 0, timestamp |-> 0]

Live(d, t) == d.value > 0 /\ t <= d.timestamp + d.value \div SessionDivisor

Expired(d, t) == d.value > 0 /\ ~Live(d, t)

\* held grows with the live deposits of the next state.
Hold ==
    held' = held \union {h \in Chains \X Accounts \X {now'} :
                            Live(deposits'[h[1]][h[2]], now')}

ChainInit ==
    /\ now = 0
    /\ deposits = [c \in Chains |-> [a \in Accounts |-> NoDeposit]]
    /\ releasing = {}
    /\ held = {}
    /\ rpcFaults = 0

RPCFault ==
    /\ rpcFaults < MaxRPCFaults
    /\ rpcFaults' = rpcFaults + 1

NoRPCFault == rpcFaults' = rpcFaults

--------------------------------------------------------------------------------
(* The contracts (external). *)

AddDeposit(c, a, v) ==
    /\ deposits[c][a].value = 0
    /\ deposits' = [deposits EXCEPT ![c][a] = [value |-> v, timestamp |-> now]]
    /\ UNCHANGED <<now, releasing, rpcFaults>>
    /\ Hold

TimePasses ==
    /\ now < MaxTime
    /\ now' = now + 1
    /\ UNCHANGED <<deposits, releasing, rpcFaults>>
    /\ Hold

\* The deposits of c when the sessions that are over have been paid back.
Released(c) ==
    [a \in Accounts |-> IF Expired(deposits[c][a], now) THEN NoDeposit
                        ELSE deposits[c][a]]

\* The state of a NEAR contract as the node returns it: an entry has the parts of
\* its key, numbers are decimal text and deposits are JSON.
Decimal(n) == <<"decimal", n>>

Json(v) == <<"json", v>>

Entry(prefix, meta, value) == [prefix |-> prefix, meta |-> meta, value |-> value]

ViewState(c) ==
    {Entry("_sessionDivisor", <<>>, Decimal(SessionDivisor)),
     Entry("d", <<"length">>, Decimal(0))}
        \union {Entry("d", <<"entries">>,
                      Json([key |-> a, value |-> Decimal(deposits[c][a].value),
                            timestamp |-> Decimal(deposits[c][a].timestamp)]))
                  : a \in {x \in Accounts : deposits[c][x] # NoDeposit}}

--------------------------------------------------------------------------------
(* providerclient: reading the contract's state. *)

ParseInt(text) == text[2]

\* Deposit.UnmarshalJSON.
UnmarshalDeposit(json) ==
    [value |-> ParseInt(json[2].value), timestamp |-> ParseInt(json[2].timestamp)]

\* extractNewEntry: of the entries under "d" only d:entries is a deposit.
IsDeposit(e) == e.prefix = "d" /\ e.meta = <<"entries">>

GetState(c) ==
    LET entries == ViewState(c)
        found == {e.value : e \in {x \in entries : IsDeposit(x)}}
        divisor == CHOOSE e \in entries : e.prefix = "_sessionDivisor"
    IN  [sessionDivisor |-> ParseInt(divisor.value),
         depositMap |-> {UnmarshalDeposit(v) : v \in found}]

--------------------------------------------------------------------------------
(* The services. *)

\* hasDeposit of the contract counts a deposit while its session lasts.
ContractHasDeposit(c, a) == IF Live(deposits[c][a], now) THEN "yes" ELSE "no"

NearHasDeposit(c, a) == IF c \in NearChains THEN ContractHasDeposit(c, a) ELSE "error"

\* chains: the contracts that ethd, or polyd, was started with.
EthHasDeposit(chains, c, a) ==
    IF c \in chains THEN ContractHasDeposit(c, a) ELSE "error"

\* The client of a chain API.
HasDeposit(chainAPI, c, a) ==
    IF chainAPI = "near" THEN NearHasDeposit(c, a)
    ELSE EthHasDeposit(ChainsOf[chainAPI], c, a)

\* neard looks the key up among the access keys of the account.
\* keys.NewPublicKeyFromString wants the curve before the key.
NearOwnsPublicKey(c, a, publicID) ==
    IF c \notin NearChains \/ publicID[1] # "ed25519" THEN "error"
    ELSE IF publicID[2] \in KeysOf[a] THEN "yes" ELSE "no"

\* ethd and polyd always agree.
EthOwnsPublicKey == "yes"

OwnsPublicKey(chainAPI, c, a, publicID) ==
    IF chainAPI = "near" THEN NearOwnsPublicKey(c, a, publicID) ELSE EthOwnsPublicKey

--------------------------------------------------------------------------------
(* The releasers. *)

\* neard reads the state and then, in a second call, releases.
NeedsRelease(state) ==
    \E d \in state.depositMap :
        /\ d.value > 0
        /\ now <= d.timestamp + d.value \div state.sessionDivisor

NearReleaserChecks(c) ==
    /\ c \notin releasing
    /\ NeedsRelease(GetState(c))
    /\ releasing' = releasing \union {c}
    /\ UNCHANGED <<now, deposits, held, rpcFaults>>

NearReleaserReleases(c) ==
    /\ c \in releasing
    /\ releasing' = releasing \ {c}
    /\ \/ deposits' = [deposits EXCEPT ![c] = Released(c)] /\ NoRPCFault
       \/ deposits' = deposits /\ RPCFault
    /\ UNCHANGED <<now, held>>

\* Mutant: the releaser asks first whether a session is running.
EthReleaserAsks(c) ==
    /\ \E a \in Accounts : Live(deposits[c][a], now)
    /\ deposits' = [deposits EXCEPT ![c] = Released(c)]
    /\ UNCHANGED <<now, releasing, held, rpcFaults>>

\* ethd and polyd release on every tick; a failed call is logged and changes
\* nothing.
EthReleaser(c) ==
    /\ deposits' = [deposits EXCEPT ![c] = Released(c)]
    /\ deposits' # deposits
    /\ UNCHANGED <<now, releasing, held, rpcFaults>>

--------------------------------------------------------------------------------
ChainNext ==
    \/ \E c \in Chains, a \in Accounts, v \in 1..MaxValue : AddDeposit(c, a, v)
    \/ TimePasses
    \/ \E c \in NearChains : NearReleaserChecks(c) \/ NearReleaserReleases(c)
    \/ \E c \in EthShared : EthReleaser(c)

\* Clocks advance and tickers fire.
ChainFairness ==
    /\ WF_chainVars(TimePasses)
    /\ \A c \in NearChains : WF_chainVars(NearReleaserChecks(c))
                             /\ WF_chainVars(NearReleaserReleases(c))
    /\ \A c \in EthShared : WF_chainVars(EthReleaser(c))

ChainSpec == ChainInit /\ [][ChainNext]_chainVars /\ ChainFairness

--------------------------------------------------------------------------------
(* Properties. *)

Repaid(c) ==
    \A a \in Accounts :
        Expired(deposits[c][a], now) ~> ~Expired(deposits[c][a], now)

\* Every expired deposit in a contract that ethd or polyd looks after is paid
\* back, failed calls included: their releaser calls releaseDeposits on every tick.
EthDepositsReleased == \A c \in EthShared : Repaid(c)

================================================================================
