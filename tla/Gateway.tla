------------------------------ MODULE Gateway ------------------------------
(***************************************************************************)
(* POST /api/v1/matches/:id/resolve from the socket to the answer: the      *)
(* general limiter of /api/v1 (a counter with an expiry, per address), the  *)
(* signature and the token, the sliding window of the user, the            *)
(* idempotency key, the settlement and the answer. All requests come from   *)
(* one user at one address.                                                *)
(***************************************************************************)
EXTENDS Naturals, FiniteSets

CONSTANTS
  Requests,   \* requests the client sends, retries included
  Matches,
  OldRoute,   \* matches that may be resolved by the old route as well
  Players,
  Keys,       \* Idempotency-Key headers
  MatchOf, KeyOf, WinnerOf,  \* what each request says
  ApiMax,     \* RATE_LIMIT_API_GENERAL_MAX
  Limit,      \* MAX_REQUESTS of the sliding window
  Window,     \* WINDOW_MS
  MaxTime,    \* bound: the clock, in steps
  MaxFaults,  \* bound: crashes, lost Redis or database replies, and verdicts by
              \* the old route
  NoPlayer    \* winnerId null

RequestsAssumption ==
  /\ IsFiniteSet(Requests)
  /\ OldRoute \subseteq Matches
  /\ MatchOf \in [Requests -> Matches]
  /\ KeyOf \in [Requests -> Keys]
  /\ WinnerOf \in [Requests -> Players]
  /\ NoPlayer \notin Players
LimitsAssumption ==
  /\ ApiMax \in Nat \ {0} /\ Limit \in Nat \ {0} /\ Window \in Nat \ {0}
  /\ MaxTime \in Nat /\ MaxFaults \in Nat

VARIABLES
  clock,
  api,      \* rl:api_v1_general:<ip>: count (0: no key), expires
  zset,     \* the user's sliding window: [score, by]
  key,      \* idemp:v1:<hash>: "NONE", "PENDING", or the stored answer
  winner,   \* Match.winnerId of a settled match, NoPlayer of a disputed one
  resolved, \* matches that are RESOLVED, by the old route
  call,     \* each request: its step, what it read or carries
  answer,   \* what the client has got
  writes,   \* Redis writes of the answers, sent and not waited for
  faults,   \* how many of these so far
  lost      \* history: a counter lost its expiry, a key its owner

vars == <<clock, api, zset, key, winner, resolved, call, answer, writes, faults, lost>>

Hashes == Matches \X Keys

\* Mutation: the hash leaves the match out.
Hash_KeyOnly(r) == <<MatchOf[CHOOSE q \in Requests : KeyOf[q] = KeyOf[r]], KeyOf[r]>>

\* computeResolveIdempotencyHash.
Hash(r) == <<MatchOf[r], KeyOf[r]>>

None == [code |-> 0, winner |-> NoPlayer]
Code(c) == [code |-> c, winner |-> NoPlayer]
Success(w) == [code |-> 200, winner |-> w]

Init ==
  /\ clock = 0
  /\ api = [count |-> 0, expires |-> FALSE]
  /\ zset = {}
  /\ key = [h \in Hashes |-> Code(0)]
  /\ winner = [x \in Matches |-> NoPlayer]
  /\ resolved = {}
  /\ call = [r \in Requests |-> [step |-> "unsent", at |-> 0, reply |-> None]]
  /\ answer = [r \in Requests |-> None]
  /\ writes = {}
  /\ faults = 0
  /\ lost = [expiry |-> FALSE, owner |-> {}]

\* The state key says PENDING.
Pending == Code(102)

GoTo(r, s) == call' = [call EXCEPT ![r].step = s]

\* The answer goes out.
Answer(r, a) ==
  /\ answer' = [answer EXCEPT ![r] = a]
  /\ call' = [call EXCEPT ![r] = [step |-> "done", at |-> 0, reply |-> None]]

Fault == faults < MaxFaults /\ faults' = faults + 1

-----------------------------------------------------------------------------
(* createRateLimiter: INCR, PEXPIRE when it was the first, PTTL.           *)

\* The limiter lets r through: a signature or a token that does not verify is
\* refused, else resolveRateLimit reads the clock.
Through(r) ==
  \/ Answer(r, Code(401))
  \/ /\ call' = [call EXCEPT ![r] = [@ EXCEPT !.step = "window", !.at = clock]]
     /\ UNCHANGED answer

Judged(r, count) == IF count > ApiMax THEN Answer(r, Code(429)) ELSE Through(r)

\* Mutation: the expiry is set by the request that is one too many.
Incr_LateExpire(r) ==
  /\ call[r].step = "unsent"
  /\ api' = [api EXCEPT !.count = @ + 1]
  /\ IF api'.count = ApiMax + 2 THEN GoTo(r, "expire") /\ UNCHANGED answer
     ELSE Judged(r, api'.count)
  /\ UNCHANGED <<clock, resolved, zset, key, winner, writes, faults, lost>>

Incr(r) ==
  /\ call[r].step = "unsent"
  /\ api' = [api EXCEPT !.count = @ + 1]
  /\ IF api'.count = 1 THEN GoTo(r, "expire") /\ UNCHANGED answer
     ELSE Judged(r, api'.count)
  /\ UNCHANGED <<clock, resolved, zset, key, winner, writes, faults, lost>>

PExpire(r) ==
  /\ call[r].step = "expire"
  /\ api' = [api EXCEPT !.expires = @ \/ api.count > 0]
  /\ Judged(r, 1)
  /\ UNCHANGED <<clock, resolved, zset, key, winner, writes, faults, lost>>

\* Redis does not answer one of the commands: the limiter fails open. A counter
\* whose PEXPIRE was lost stays without an expiry.
LimiterFailsOpen(r) ==
  /\ call[r].step \in {"unsent", "expire"}
  /\ Fault
  /\ lost' = [lost EXCEPT !.expiry = @ \/ call[r].step = "expire"]
  /\ Through(r)
  /\ UNCHANGED <<clock, resolved, api, zset, key, winner, writes>>

\* The window of the counter is over.
CounterExpires ==
  /\ api.expires
  /\ api' = [count |-> 0, expires |-> FALSE]
  /\ UNCHANGED <<clock, resolved, zset, key, winner, call, answer, writes, faults,
                 lost>>

-----------------------------------------------------------------------------
(* createResolveRateLimitMiddleware.                                       *)

\* SLIDING_WINDOW_LUA, run with the clock read before.
Kept(r) == {z \in zset : z.score + Window > call[r].at}
Counted(r) == Kept(r) \cup {[score |-> call[r].at, by |-> r]}

Slide(r) ==
  LET kept == Kept(r)
  IN  /\ call[r].step = "window"
      /\ IF Cardinality(kept) >= Limit
         THEN /\ Answer(r, Code(429))
              /\ zset' = kept
         ELSE /\ zset' = Counted(r)
              /\ call' = [call EXCEPT ![r] = [@ EXCEPT !.step = "acquire", !.at = 0]]
              /\ UNCHANGED answer
      /\ UNCHANGED <<clock, resolved, api, key, winner, writes, faults, lost>>

\* Redis does not answer: this limiter does not fail open. The script ran, or not.
SlideFails(r) ==
  /\ call[r].step = "window"
  /\ Fault
  /\ zset' \in {zset, IF Cardinality(Kept(r)) >= Limit THEN Kept(r) ELSE Counted(r)}
  /\ Answer(r, Code(500))
  /\ UNCHANGED <<clock, resolved, api, key, winner, writes, lost>>

-----------------------------------------------------------------------------
(* createIdempotencyResolveMiddleware and MatchResolveV1Controller.        *)

\* ACQUIRE_LUA: the key is free, somebody's, or has the answer of before.
Acquire(r) ==
  LET k == key[Hash(r)]
  IN  /\ call[r].step = "acquire"
      /\ \/ /\ k = Code(0)
            /\ key' = [key EXCEPT ![Hash(r)] = Pending]
            /\ GoTo(r, "settle")
            /\ UNCHANGED answer
         \/ /\ k = Pending
            /\ Answer(r, Code(409))
            /\ UNCHANGED key
         \/ /\ k.code = 200
            /\ Answer(r, k)
            /\ UNCHANGED key
      /\ UNCHANGED <<clock, resolved, api, zset, winner, writes, faults, lost>>

\* The script ran, its reply is lost: 500, and a key it took has no owner.
AcquireReplyLost(r) ==
  /\ call[r].step = "acquire"
  /\ Fault
  /\ key' = [key EXCEPT ![Hash(r)] = IF @ = Code(0) THEN Pending ELSE @]
  /\ lost' = [lost EXCEPT !.owner = IF key[Hash(r)] = Code(0)
                                    THEN @ \cup {Hash(r)} ELSE @]
  /\ Answer(r, Code(500))
  /\ UNCHANGED <<clock, resolved, api, zset, winner, writes>>

Reply(r, a) == call' = [call EXCEPT ![r] = [@ EXCEPT !.step = "reply", !.reply = a]]

\* settleDisputedMatch: a disputed match is settled, any other is a conflict.
Settle(r) ==
  /\ call[r].step = "settle"
  /\ \/ /\ winner[MatchOf[r]] = NoPlayer
        /\ winner' = [winner EXCEPT ![MatchOf[r]] = WinnerOf[r]]
        /\ Reply(r, Success(WinnerOf[r]))
     \/ /\ winner[MatchOf[r]] # NoPlayer
        /\ Reply(r, Code(409))
        /\ UNCHANGED winner
  /\ UNCHANGED <<clock, resolved, api, zset, key, answer, writes, faults, lost>>

\* The transaction aborts, or commits and its reply is lost: 500 either way.
SettleFails(r) ==
  /\ call[r].step = "settle"
  /\ Fault
  /\ \/ UNCHANGED winner
     \/ /\ winner[MatchOf[r]] = NoPlayer
        /\ winner' = [winner EXCEPT ![MatchOf[r]] = WinnerOf[r]]
  /\ Reply(r, Code(500))
  /\ UNCHANGED <<clock, resolved, api, zset, key, answer, writes, lost>>

\* MatchController.resolveDispute, the route without a key: only a RESOLVED
\* match is refused, so a settled one gets another winner. Bounded like a fault.
LegacyResolve(x, w) ==
  /\ x \notin resolved
  /\ Fault
  /\ resolved' = resolved \cup {x}
  /\ winner' = [winner EXCEPT ![x] = w]
  /\ UNCHANGED <<clock, api, zset, key, call, answer, writes, lost>>

\* Mutation: only success writes, a failure leaves the key.
Respond_KeyKept(r) ==
  /\ call[r].step = "reply"
  /\ writes' = IF call[r].reply.code = 200
               THEN writes \cup {[hash |-> Hash(r), value |-> call[r].reply, by |-> r]}
               ELSE writes
  /\ Answer(r, call[r].reply)
  /\ UNCHANGED <<clock, resolved, api, zset, key, winner, faults, lost>>

\* The wrapped res.json: success is stored, anything else frees the key; the
\* write is sent and the answer goes out without waiting for it.
Respond(r) ==
  /\ call[r].step = "reply"
  /\ writes' = writes \cup {[hash |-> Hash(r), by |-> r,
       value |-> IF call[r].reply.code = 200 THEN call[r].reply ELSE Code(0)]}
  /\ Answer(r, call[r].reply)
  /\ UNCHANGED <<clock, resolved, api, zset, key, winner, faults, lost>>

WriteLands(w) ==
  /\ w \in writes
  /\ key' = [key EXCEPT ![w.hash] = w.value]
  /\ writes' = writes \ {w}
  /\ UNCHANGED <<clock, resolved, api, zset, winner, call, answer, faults, lost>>

\* The 24 hours of a key are over.
KeyExpires(h) ==
  /\ key[h] # Code(0)
  /\ ~\E r \in Requests : Hash(r) = h /\ call[r].step \in {"settle", "reply"}
  /\ ~\E w \in writes : w.hash = h
  /\ key' = [key EXCEPT ![h] = Code(0)]
  /\ lost' = [lost EXCEPT !.owner = @ \ {h}]
  /\ UNCHANGED <<clock, resolved, api, zset, winner, call, answer, writes, faults>>

\* The process dies, of a write Redis refused (the rejection is nobody's) or
\* of anything else: its requests get no answer, a transaction under way rolls
\* back, the writes not yet sent are gone.
Crash ==
  /\ Fault
  /\ \E gone \in SUBSET writes :
       /\ writes' = writes \ gone
       /\ lost' = [expiry |-> lost.expiry \/ \E r \in Requests : call[r].step = "expire",
                   owner |-> lost.owner \cup {w.hash : w \in gone}
                     \cup {Hash(r) : r \in {q \in Requests :
                                            call[q].step \in {"settle", "reply"}}}]
  /\ call' = [r \in Requests |->
       IF call[r].step \in {"unsent", "done"} THEN call[r]
       ELSE [step |-> "done", at |-> 0, reply |-> None]]
  /\ UNCHANGED <<clock, resolved, api, zset, key, winner, answer>>

Tick ==
  /\ clock < MaxTime
  /\ clock' = clock + 1
  /\ UNCHANGED <<resolved, api, zset, key, winner, call, answer, writes, faults,
                 lost>>

-----------------------------------------------------------------------------

Serve(r) ==
  PExpire(r) \/ Slide(r) \/ Acquire(r) \/ Settle(r) \/ Respond(r)

Next ==
  \/ \E r \in Requests :
       \/ Incr(r) \/ Serve(r)
       \/ LimiterFailsOpen(r) \/ SlideFails(r) \/ AcquireReplyLost(r) \/ SettleFails(r)
  \/ \E w \in writes : WriteLands(w)
  \/ \E h \in Hashes : KeyExpires(h)
  \/ \E x \in OldRoute, w \in Players : LegacyResolve(x, w)
  \/ CounterExpires \/ Crash \/ Tick

Spec == Init /\ [][Next]_vars

\* The process goes on with the requests it has taken, Redis lets counters
\* expire.
Fairness ==
  /\ WF_vars(\E r \in Requests : Serve(r))
  /\ WF_vars(CounterExpires)

FairSpec == Spec /\ Fairness

-----------------------------------------------------------------------------
(* Properties.                                                             *)

\* Whoever is answered 200, at once or from the stored answer, with whichever
\* key, is told the winner the match has, unless the old route has resolved it
\* again: the answers are those of the one settlement, and name one winner.
AnswersNameTheWinner ==
  \A r \in Requests : answer[r].code = 200 =>
    /\ answer[r].winner = winner[MatchOf[r]] \/ MatchOf[r] \in resolved
    /\ \A q \in Requests : answer[q].code = 200 /\ MatchOf[q] = MatchOf[r] =>
         answer[q].winner = answer[r].winner

\* A key is PENDING only while a request works on it or its write is on the
\* way, one request at a time; a key left PENDING without one had its owner
\* die or its script's reply lost.
PendingHasOneOwner ==
  \A h \in Hashes :
    LET owners == {r \in Requests : Hash(r) = h /\ call[r].step \in {"settle", "reply"}}
        coming == {w \in writes : w.hash = h}
    IN  /\ Cardinality(owners) + Cardinality(coming) <= 1
        /\ key[h] = Pending /\ owners = {} /\ coming = {} => h \in lost.owner

\* An address that is over the limit gets a new window, unless the process or
\* Redis failed between the INCR and the PEXPIRE of the first request: then
\* the counter has no expiry and the address is refused for good.
RefusalEnds == []<>(api.count <= ApiMax \/ lost.expiry)
=============================================================================
