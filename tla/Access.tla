------------------------------- MODULE Access -------------------------------
(***************************************************************************)
(* Whom the API serves. create-app.ts lays limiters and routes in a list;   *)
(* Express hands a request to every layer of its path, in this order, until *)
(* one answers. One request is followed through them, with the token and    *)
(* the API key it carries, while accounts are made and keys come and go.    *)
(***************************************************************************)
EXTENDS Naturals, FiniteSets, Sequences, Functions

CONSTANTS
  Users,    \* e-mail addresses
  Admin,    \* whose account was made ADMIN in the database: nobody registers as one
  MaxKeys,  \* bound: API keys ever made
  Nobody    \* no token, no identity

AccessAssumption == Admin \in Users /\ Nobody \notin Users /\ MaxKeys \in Nat

VARIABLES
  accounts,  \* User and Wallet rows
  tokens,    \* users with a token that has not expired
  keys,      \* each API key made: [owner, state]
  request    \* the request followed, Idle

vars == <<accounts, tokens, keys, request>>

Role(u) == IF u = Admin THEN "ADMIN" ELSE "PLAYER"

NoKey == 0
Idle == [step |-> "idle", path |-> <<>>, token |-> Nobody, key |-> NoKey, layer |-> 0,
         guard |-> 0, user |-> Nobody, role |-> "none", limits |-> {},
         spared |-> {}, gone |-> {}]

-----------------------------------------------------------------------------
(* create-app.ts. A path is a base and a name; a name stands for all paths   *)
(* with the same layers. A handler ends the request, a limiter passes it on. *)
(* Express ignores case and a last slash; the conditions of the limiters do  *)
(* not, nor do they know HEAD, which the handler of GET serves. A spelling   *)
(* or a HEAD with layers no other name has is a name of its own (/Auth/me    *)
(* has those of /wallet, HEAD /Admin/... those of /wallet/fund).             *)

V1(names) == {"v1"} \X names
Legacy(names) == {"api"} \X names
Webhooks(names) == {"webhooks"} \X names

Handler(paths, guards) == [paths |-> paths, guards |-> guards, ends |-> TRUE]
Limiter(paths, name) == [paths |-> paths, guards |-> <<name>>, ends |-> FALSE]

WebhookRoutes ==
  <<Handler(Webhooks({"psp-deposit", "psp-dispute"}), <<"signature">>),
    Handler(Webhooks({"autopay-itn"}), <<>>)>>  \* its hash is the handler's to check

AuthNames == {"auth/login", "auth/me"}
AdminNames == {"admin/payouts", "admin/disputes"}
AdminSpelled == {"Admin/payouts"}
AdminHead == {"HEAD admin/disputes"}

AuthRoutes ==
  <<Handler(V1({"auth/login", "Auth/login"}) \cup Legacy({"auth/login"}), <<"auth limit">>),
    Handler(V1({"auth/me"}) \cup Legacy({"auth/me"}), <<"token">>)>>

\* Mutation: the old address of the administrators' routes asks for no role.
AdminRoutes_LegacyOpen ==
  <<Handler(V1(AdminNames \cup AdminSpelled), <<"admin limit", "token", "role">>),
    Handler(V1(AdminHead), <<"token", "role">>),
    Handler(Legacy(AdminNames), <<"token">>)>>

\* Its limiter lets every method but GET and POST by.
AdminRoutes ==
  <<Handler(V1(AdminNames \cup AdminSpelled), <<"admin limit", "token", "role">>),
    Handler(V1(AdminHead), <<"token", "role">>),
    Handler(Legacy(AdminNames), <<"token", "role">>)>>

\* wallet stands for /me and /transfer, pay and get for those of a trade.
WalletRoutes ==
  <<Handler(Legacy({"wallet/deposit", "wallet/charge"}), <<"token">>),
    Handler(V1({"wallet"}) \cup Legacy({"wallet"}), <<"token">>),
    Handler(V1({"wallet/fund"}) \cup Legacy({"wallet/fund"}), <<"token", "role">>),
    Handler(V1({"trades", "trades/pay"}), <<"token">>),
    Handler(V1({"trades/get"}), <<>>),
    Handler(V1({"safe-taxi/rides"}), <<"token">>)>>

PaymentRoutes ==
  <<Handler(V1({"connected-accounts", "charges"}), <<"token", "role">>),
    Handler(V1({"payment-methods"}), <<"token">>),
    Handler(V1({"payments/initiate", "payments/initiate/"}), <<"payments limit", "token">>),
    Handler(V1({"payments/ride-finalize"}), <<"key">>),
    Handler(V1({"api-keys"}), <<"token">>)>>

\* reads stands for the GET routes, and for POST refunds and accounts and PUT
\* config.
IntegrationRoutes ==
  <<Handler(V1({"integrations/me"}), <<"key">>),
    Handler(V1({"integrations/reads"}), <<"key or token">>),
    Handler(V1({"integrations/charges", "integrations/payouts"}), <<"key">>)>>

TournamentRoutes ==
  <<Handler(Legacy({"tournaments", "matches/resolve"}), <<"token">>),
    Handler(V1({"matches/resolve"}), <<"signature", "token", "user limit">>)>>

Paths == UNION {l.paths : l \in UNION {Range(s) : s \in
           {WebhookRoutes, AuthRoutes, AdminRoutes, WalletRoutes, PaymentRoutes,
            IntegrationRoutes, TournamentRoutes}}}

\* What the general limiter takes for a path with a limiter of its own.
Dedicated == AuthNames \cup AdminNames \cup AdminHead \cup {"payments/initiate"}

Limiters ==
  <<Limiter({p \in Paths : p[1] = "v1" /\ p[2] \notin Dedicated}, "api limit"),
    Limiter({p \in Paths : p[1] = "webhooks"}, "webhook limit")>>

\* In the order they are laid.
Layers == WebhookRoutes \o Limiters \o AuthRoutes \o AdminRoutes \o WalletRoutes
          \o PaymentRoutes \o IntegrationRoutes \o TournamentRoutes

\* The first layer of p after the i-th; there is always one.
NextLayer(p, i) ==
  CHOOSE j \in i + 1 .. Len(Layers) :
    p \in Layers[j].paths /\ \A k \in i + 1 .. j - 1 : p \notin Layers[k].paths

-----------------------------------------------------------------------------
(* Accounts and keys.                                                      *)

Init ==
  /\ accounts = {Admin}
  /\ tokens = {}
  /\ keys = <<>>
  /\ request = Idle

\* registerUser: User and Wallet in one transaction, the e-mail is unique.
Register(u) ==
  /\ u \notin accounts
  /\ accounts' = accounts \cup {u}
  /\ UNCHANGED <<tokens, keys, request>>

\* loginUser: the token names the user and the role.
Login(u) ==
  /\ u \in accounts
  /\ tokens' = tokens \cup {u}
  /\ UNCHANGED <<accounts, keys, request>>

TokenExpires(u) ==
  /\ u \in tokens
  /\ tokens' = tokens \ {u}
  /\ UNCHANGED <<accounts, keys, request>>

\* createKey: tried again until the prefix is nobody's.
CreateKey(u) ==
  /\ u \in tokens /\ Len(keys) < MaxKeys
  /\ keys' = Append(keys, [owner |-> u, state |-> "active"])
  /\ UNCHANGED <<accounts, tokens, request>>

\* deleteKey: the row is gone; expiresAt may pass instead.
KeyEnds(k, state) ==
  /\ keys[k].state # "deleted" /\ state # keys[k].state
  /\ keys' = [keys EXCEPT ![k].state = state]
  /\ UNCHANGED <<accounts, tokens, request>>

-----------------------------------------------------------------------------
(* The request.                                                            *)

Ended == {k \in DOMAIN keys : keys[k].state # "active"}

\* From outside: any path, with a token, a key, both or none. Only these paths
\* look at a key.
LooksAtKey(p) == p[2] \in {"payments/ride-finalize", "integrations/me",
  "integrations/reads", "integrations/charges", "integrations/payouts"}

Send(p, t, k) ==
  /\ request = Idle
  /\ t = Nobody \/ t \in tokens
  /\ k # NoKey => LooksAtKey(p)
  /\ request' = [Idle EXCEPT !.step = "on", !.path = p, !.token = t, !.key = k,
                             !.layer = NextLayer(p, 0), !.guard = 1, !.gone = Ended]
  /\ UNCHANGED <<accounts, tokens, keys>>

Guards == Layers[request.layer].guards
Guard == Guards[request.guard]
AtGuard(names) ==
  request.step = "on" /\ request.guard <= Len(Guards) /\ Guard \in names

Refuse ==
  /\ request' = [Idle EXCEPT !.step = "refused"]
  /\ UNCHANGED <<accounts, tokens, keys>>

PassAs(u) ==
  /\ request' = [request EXCEPT !.guard = @ + 1, !.user = u, !.role = Role(u)]
  /\ UNCHANGED <<accounts, tokens, keys>>

AddressLimits ==
  {"api limit", "webhook limit", "auth limit", "admin limit", "payments limit"}

\* createRateLimiter, createResolveRateLimitMiddleware: 429, or counted; the
\* latter's 500 when Redis fails is a refusal as well.
LimitGuard ==
  /\ AtGuard(AddressLimits \cup {"user limit"})
  /\ \/ Refuse
     \/ /\ request' = [request EXCEPT !.guard = @ + 1, !.limits = @ \cup {Guard}]
        /\ UNCHANGED <<accounts, tokens, keys>>

\* createRateLimiter lets by, whatever was counted, an address of
\* RATE_LIMIT_TRUSTED_IPS, and anybody while Redis fails.
LimiterSpares ==
  /\ AtGuard(AddressLimits)
  /\ request' = [request EXCEPT !.guard = @ + 1, !.spared = @ \cup {Guard}]
  /\ UNCHANGED <<accounts, tokens, keys>>

\* The HMAC of the body, which nobody but its holder can make.
SignatureGuard ==
  /\ AtGuard({"signature"})
  /\ \/ Refuse
     \/ /\ request' = [request EXCEPT !.guard = @ + 1]
        /\ UNCHANGED <<accounts, tokens, keys>>

\* authMiddleware, authenticateToken.
TokenGuard ==
  /\ AtGuard({"token"})
  /\ IF request.token \in tokens THEN PassAs(request.token) ELSE Refuse

\* requireRole([ADMIN]).
RoleGuard ==
  /\ AtGuard({"role"})
  /\ IF request.role = "ADMIN" THEN PassAs(request.user) ELSE Refuse

\* validateKey: the row is read; bcrypt.compare takes its time.
ValidateKey ==
  /\ AtGuard({"key", "key or token"}) /\ request.key # NoKey
  /\ IF request.key \in Ended THEN Refuse
     ELSE /\ request' = [request EXCEPT !.step = "compare"]
          /\ UNCHANGED <<accounts, tokens, keys>>

\* The request is the owner's of the row that was read, whatever became of it.
KeyCompared ==
  LET u == keys[request.key].owner
  IN  /\ request.step = "compare"
      /\ request' = [request EXCEPT !.step = "on", !.guard = @ + 1, !.user = u,
                                    !.role = Role(u)]
      /\ UNCHANGED <<accounts, tokens, keys>>

\* createIntegratorHybridAuthMiddleware without a key.
NoKeyGuard ==
  /\ AtGuard({"key", "key or token"}) /\ request.key = NoKey
  /\ IF Guard = "key or token" /\ request.token \in tokens
     THEN PassAs(request.token) ELSE Refuse

\* The guards of the layer are passed: the handler answers, or the next layer
\* has its turn.
LayerPassed ==
  /\ request.step = "on" /\ request.guard > Len(Guards)
  /\ request' = IF Layers[request.layer].ends
                THEN [request EXCEPT !.step = "served"]
                ELSE [request EXCEPT !.guard = 1,
                                     !.layer = NextLayer(request.path, @)]
  /\ UNCHANGED <<accounts, tokens, keys>>

Answered ==
  /\ request.step \in {"served", "refused"}
  /\ request' = Idle
  /\ UNCHANGED <<accounts, tokens, keys>>

Next ==
  \/ \E u \in Users : Register(u) \/ Login(u) \/ TokenExpires(u) \/ CreateKey(u)
  \/ \E k \in DOMAIN keys, s \in {"deleted", "expired"} : KeyEnds(k, s)
  \/ \E p \in Paths, t \in Users \cup {Nobody}, k \in {NoKey} \cup DOMAIN keys : Send(p, t, k)
  \/ LimitGuard \/ LimiterSpares \/ SignatureGuard \/ TokenGuard \/ RoleGuard
  \/ ValidateKey \/ KeyCompared \/ NoKeyGuard
  \/ LayerPassed \/ Answered

Spec == Init /\ [][Next]_vars

-----------------------------------------------------------------------------
(* Properties.                                                             *)

\* Paths whose handler does nothing for a user of its own.
Open == {"auth/login", "Auth/login", "trades/get"}

\* What an administrator alone may do.
AdminOnly == AdminNames \cup AdminSpelled \cup AdminHead \cup {"wallet/fund", "connected-accounts", "charges"}

\* A handler runs for the owner of the token or of the key the request came
\* with, of a key that had not ended when the request was sent, and an
\* administrator's only for an administrator, at the old addresses as well.
ServedAsOwner ==
  request.step = "served" /\ request.path[2] \notin Open /\ request.path[1] # "webhooks" =>
    /\ \/ request.user = request.token /\ request.user # Nobody
       \/ /\ request.key # NoKey /\ request.key \notin request.gone
          /\ request.user = keys[request.key].owner
    /\ request.path[2] \in AdminOnly => request.user = Admin

\* Paths no address is limited on: the profile, a HEAD of the administrators'
\* routes, the old addresses of everything but the login, and the webhooks,
\* whose limiter is laid after their handlers.
Unlimited ==
  {p \in Paths : \/ p[2] \in AdminHead \cup {"auth/me"}
                 \/ p[1] # "v1" /\ p[2] # "auth/login"}

\* Paths two limiters have to do with: the general one does not know them for
\* what they are.
Respelled == {p \in Paths : p[2] \in AdminSpelled \cup {"Auth/login", "payments/initiate/"}}

\* A request that is served has passed one limiter of its address, none on an
\* Unlimited and two on a Respelled path; each has counted it and found it below
\* its maximum, or has spared it: a trusted address, a failure of Redis.
CountedOnce ==
  request.step = "served" =>
    /\ request.limits \cap request.spared = {}
    /\ Cardinality((request.limits \cup request.spared) \ {"user limit"}) =
         IF request.path \in Unlimited THEN 0
         ELSE IF request.path \in Respelled THEN 2 ELSE 1

GuardsAreApplied == ServedAsOwner /\ CountedOnce
=============================================================================
