------------------------------ MODULE Ownership ------------------------------
(***************************************************************************)
(* Who may act on a wallet: the JWT check of the GraphQL server            *)
(* (src/server/graphql.rs, src/server/jwks.rs) and the wallet-ownership    *)
(* check behind it (src/wallet/ownership.rs), with its cache per caller.   *)
(* Requests run concurrently; the cache's lock covers a lookup or a store, *)
(* never the round trip between them.                                      *)
(*                                                                         *)
(* Time passes in ticks.  Ages count the ticks since something happened    *)
(* and stop at MaxAge, past which no decision tells them apart.            *)
(*                                                                         *)
(* A definition X_Something that stands before X is X with one plausible   *)
(* defect; the properties of Admission are checked to notice it.           *)
(***************************************************************************)
EXTENDS Naturals, FiniteSets

CONSTANTS
    User, Wallet,
    Key,         \* keys the issuer may publish
    Request,     \* requests in progress at once
    Ttl,         \* cache_secs, in ticks
    FetchMax,    \* the HTTP client's timeout, in ticks
    PruneAt      \* CACHE_PRUNE_THRESHOLD

ASSUME OwnershipAssumption ==
    {Ttl, FetchMax, PruneAt} \subseteq Nat

Nobody == "nobody"
MaxAge == Ttl + FetchMax + 1

VARIABLES
    owner,      \* the accounts service: the user that owns each wallet, or Nobody
    disowned,   \* history: ticks since each user last owned each wallet
    keys,       \* keys_cache
    cache,      \* per user: absent, or the owned set with the age of its entry
    req         \* the requests

ownVars == <<owner, disowned, keys, cache, req>>

Entry(set, age, there) == [set |-> set, age |-> age, there |-> there]
NoEntry == Entry({}, MaxAge, FALSE)

At(pc, sub, w, set, age) == [pc |-> pc, sub |-> sub, wallet |-> w, set |-> set, age |-> age]
Idle == At("idle", Nobody, Nobody, {}, 0)

InitOwnership ==
    /\ owner \in [Wallet -> User \cup {Nobody}]
    /\ disowned = [u \in User |-> [w \in Wallet |-> IF owner[w] = u THEN 0 ELSE MaxAge]]
    /\ keys = {}
    /\ cache = [u \in User |-> NoEntry]
    /\ req = [q \in Request |-> Idle]

------------------------------------------------------------------------------
(* Time and the outside world *)

Older(age) == IF age < MaxAge THEN age + 1 ELSE MaxAge

Waited(r) ==
    IF r.pc \in {"fetch", "answered"} THEN At(r.pc, r.sub, r.wallet, r.set, r.age + 1) ELSE r

\* reqwest's timeout covers the round trip until its body is read, so a check
\* that waits that long has failed before the next tick.
Tick ==
    /\ \A q \in Request : req[q].pc \in {"fetch", "answered"} => req[q].age < FetchMax
    /\ disowned' = [u \in User |-> [w \in Wallet |->
                      IF owner[w] = u THEN 0 ELSE Older(disowned[u][w])]]
    /\ cache' = [u \in User |-> Entry(cache[u].set, Older(cache[u].age), cache[u].there)]
    /\ req' = [q \in Request |-> Waited(req[q])]
    /\ UNCHANGED <<owner, keys>>

Transfer(w, u) ==
    /\ owner' = [owner EXCEPT ![w] = u]
    /\ disowned' = [v \in User |-> [x \in Wallet |->
                      IF x = w /\ v = u THEN 0 ELSE disowned[v][x]]]
    /\ UNCHANGED <<keys, cache, req>>

\* refresh_keys: what the issuer publishes now replaces the whole cache; a
\* fetch that fails keeps it.
refresh_keys(published) ==
    /\ keys' = published
    /\ UNCHANGED <<owner, disowned, cache, req>>

------------------------------------------------------------------------------
(* A request *)

\* A token: the kid of its header (a kid names its key), the key that signed it,
\* and whether `exp` is yet to come.  Nobody stands for no kid, or a foreign key.
Token == [kid : Key \cup {Nobody}, signer : Key \cup {Nobody}, fresh : BOOLEAN]

\* RemoteJwksDecoder::decode: the cached key of the token's kid decides alone;
\* without one, every cached key is tried.
decode(token) ==
    /\ IF token.kid \in keys THEN token.signer = token.kid ELSE token.signer \in keys
    /\ token.fresh

\* What a decision leaves of a request: admitted, or answered with an error.
Decided(sub, w, admitted) == IF admitted THEN At("granted", sub, w, {}, 0) ELSE Idle

cached_Forever(u) == cache[u].there

\* `cached`: an entry younger than the TTL.
cached(u) == cache[u].there /\ cache[u].age < Ttl

\* graphql_handler: without a valid token the resolvers see the default caller.
caller_auth(u, token) == IF decode(token) THEN u ELSE Nobody

\* A request for wallet w, and `check` up to its await: an unauthenticated
\* caller, a hit in the cache, or the round trip begins.
check(q, w, sub) ==
    /\ req[q] = Idle
    /\ req' = [req EXCEPT ![q] =
                 IF sub = Nobody THEN Idle
                 ELSE IF cached(sub) THEN Decided(sub, w, w \in cache[sub].set)
                 ELSE At("fetch", sub, w, {}, 0)]
    /\ UNCHANGED <<owner, disowned, keys, cache>>

\* The Router reads the caller's wallets.
RouterReads(q) ==
    /\ req[q].pc = "fetch"
    /\ LET r == req[q]
           owned == {w \in Wallet : owner[w] = r.sub}
       IN  req' = [req EXCEPT ![q] = At("answered", r.sub, r.wallet, owned, r.age)]
    /\ UNCHANGED <<owner, disowned, keys, cache>>

\* Unreachable, timed out, or an answer that is an error: nothing is cached.
fetch_fails(q) ==
    /\ req[q].pc \in {"fetch", "answered"}
    /\ req' = [req EXCEPT ![q] = Idle]
    /\ UNCHANGED <<owner, disowned, keys, cache>>

stored(u, set) ==
    LET there == {v \in User : cache[v].there}
        kept == IF Cardinality(there) >= PruneAt THEN {v \in there : cached(v)} ELSE there
    IN [v \in User |-> IF v = u THEN Entry(set, 0, TRUE)
                       ELSE IF v \in kept THEN cache[v] ELSE NoEntry]

\* check, after its await: decide on the fetched set, and cache it as of now.
store(q) ==
    /\ req[q].pc = "answered"
    /\ cache' = stored(req[q].sub, req[q].set)
    /\ req' = [req EXCEPT ![q] = Decided(req[q].sub, req[q].wallet, req[q].wallet \in req[q].set)]
    /\ UNCHANGED <<owner, disowned, keys>>

OwnershipNext ==
    \/ Tick
    \/ \E ks \in SUBSET Key : refresh_keys(ks)
    \/ \E w \in Wallet, u \in User \cup {Nobody} : Transfer(w, u)
    \/ \E q \in Request, u \in User, w \in Wallet, t \in Token : check(q, w, caller_auth(u, t))
    \/ \E q \in Request : RouterReads(q) \/ fetch_fails(q) \/ store(q)

\* The state of the check; a request's age is bounded by the timeout.
OwnershipTypeOK ==
    /\ owner \in [Wallet -> User \cup {Nobody}]
    /\ disowned \in [User -> [Wallet -> 0 .. MaxAge]]
    /\ keys \subseteq Key
    /\ cache \in [User -> [set : SUBSET Wallet, age : 0 .. MaxAge, there : BOOLEAN]]
    /\ req \in [Request -> [pc : {"idle", "fetch", "answered", "granted"},
                            sub : User \cup {Nobody}, wallet : Wallet \cup {Nobody},
                            set : SUBSET Wallet, age : 0 .. FetchMax]]
==============================================================================
