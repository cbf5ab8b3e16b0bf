---------------------------- MODULE RateLimiter ----------------------------
(***************************************************************************)
(* RedisLimiter.Allow (internal/rate/rate.go): INCR on the key's counter,   *)
(* a separate EXPIRE when the counter came back as 1, and the comparison    *)
(* with the limit.  The two commands are separate steps; callers of all API *)
(* processes share the counters.  go-redis resends a command whose reply    *)
(* did not arrive in time, so one Allow may increment more than once.       *)
(***************************************************************************)
EXTENDS Integers, FiniteSets

CONSTANTS
    Keys,        \* limiter keys: one per API key, or one per client IP
    Callers,     \* requests in Allow at the same time
    Limit,       \* requests per window and key
    MaxResends,  \* bound: INCRs of one Allow whose reply is lost
    MaxCount,    \* bound: the counter's value
    Faults,      \* the environment's faults a run admits
    NoKey        \* no key

ASSUME RateAssumption ==
    /\ NoKey \notin Keys
    /\ Limit \in Nat /\ MaxResends \in Nat /\ MaxCount \in Nat
    /\ Faults \subseteq {"lost", "down", "expire", "crash", "restart"}

VARIABLES
    count,    \* per key: the counter, 0 when Redis has no such key
    armed,    \* per key: the counter has a TTL
    arming,   \* per caller: the key it is about to EXPIRE, or NoKey
    verdict,  \* per caller: what its last Allow returned
    cut       \* history: keys whose window lost its EXPIRE to a fault

vars == <<count, armed, arming, verdict, cut>>

Init ==
    /\ count = [k \in Keys |-> 0]
    /\ armed = [k \in Keys |-> FALSE]
    /\ arming = [c \in Callers |-> NoKey]
    /\ verdict = [c \in Callers |-> "none"]
    /\ cut = {}

\* INCRs that were applied although their reply was lost.
Lost == IF "lost" \in Faults THEN 0 .. MaxResends ELSE {0}

\* Mutant: the first request of a window is not recognised.
FirstIsZero(n) == n = 0

\* if n == 1
First(n) == n = 1

\* Mutant: one request too many.
WithinOneMore(n) == n <= Limit + 1

\* return n <= l.limit
Within(n) == n <= Limit

Decide(n) == IF Within(n) THEN "granted" ELSE "refused"

\* History: of the INCRs that open a window, one whose reply 1 was lost leaves
\* nobody to send the EXPIRE.
Opened(k, lost) ==
    cut' = IF count[k] > 0 THEN cut ELSE IF lost > 0 THEN cut \cup {k} ELSE cut \ {k}

\* INCR answers n: the first request of a window goes on to EXPIRE, any other
\* one has its answer.
Incr(c, k, lost) ==
    /\ arming[c] = NoKey
    /\ count[k] + lost + 1 <= MaxCount
    /\ LET n == count[k] + lost + 1 IN
       /\ count' = [count EXCEPT ![k] = n]
       /\ IF First(n)
          THEN /\ arming' = [arming EXCEPT ![c] = k]
               /\ verdict' = [verdict EXCEPT ![c] = "none"]
          ELSE /\ verdict' = [verdict EXCEPT ![c] = Decide(n)]
               /\ UNCHANGED arming
    /\ Opened(k, lost)
    /\ UNCHANGED armed

\* INCR ends in an error, with none or some of its sends applied: the handler
\* lets the request pass.
IncrErr(c, k, lost) ==
    /\ arming[c] = NoKey
    /\ lost > 0 \/ "down" \in Faults
    /\ count[k] + lost <= MaxCount
    /\ count' = [count EXCEPT ![k] = @ + lost]
    /\ verdict' = [verdict EXCEPT ![c] = "unmetered"]
    /\ Opened(k, lost)
    /\ UNCHANGED <<armed, arming>>

\* The answer is Decide(1): n still holds the INCR's reply.
Answered(c) ==
    /\ arming' = [arming EXCEPT ![c] = NoKey]
    /\ verdict' = [verdict EXCEPT ![c] = Decide(1)]
    /\ UNCHANGED count

\* EXPIRE does nothing to a key that is gone.
Expire(c) ==
    /\ arming[c] # NoKey
    /\ armed' = [armed EXCEPT ![arming[c]] = count[arming[c]] > 0]
    /\ Answered(c)
    /\ UNCHANGED cut

\* Mutant: the INCR is taken back with a DECR when the EXPIRE fails.
ExpireErrUndone(c) ==
    /\ "expire" \in Faults
    /\ arming[c] # NoKey
    /\ count' = [count EXCEPT ![arming[c]] = @ - 1]
    /\ arming' = [arming EXCEPT ![c] = NoKey]
    /\ verdict' = [verdict EXCEPT ![c] = "unmetered"]
    /\ UNCHANGED <<armed, cut>>

\* The error of EXPIRE is dropped.
ExpireErr(c) ==
    /\ "expire" \in Faults
    /\ arming[c] # NoKey
    /\ Answered(c)
    /\ cut' = cut \cup {arming[c]}
    /\ UNCHANGED armed

\* The API process dies between the two commands.
Crash(c) ==
    /\ "crash" \in Faults
    /\ arming[c] # NoKey
    /\ arming' = [arming EXCEPT ![c] = NoKey]
    /\ cut' = cut \cup {arming[c]}
    /\ UNCHANGED <<count, armed, verdict>>

Drop(k) ==
    /\ count' = [count EXCEPT ![k] = 0]
    /\ armed' = [armed EXCEPT ![k] = FALSE]
    /\ UNCHANGED <<arming, verdict, cut>>

\* The window of a counter with a TTL elapses.
Elapse(k) == armed[k] /\ Drop(k)

\* Redis restarts without its data.
Restart ==
    /\ "restart" \in Faults
    /\ \E k \in Keys : count[k] > 0
    /\ count' = [k \in Keys |-> 0]
    /\ armed' = [k \in Keys |-> FALSE]
    /\ UNCHANGED <<arming, verdict, cut>>

Next ==
    \/ \E c \in Callers, k \in Keys, lost \in Lost : Incr(c, k, lost) \/ IncrErr(c, k, lost)
    \/ \E c \in Callers : Expire(c) \/ ExpireErr(c) \/ Crash(c)
    \/ \E k \in Keys : Elapse(k)
    \/ Restart

Spec == Init /\ [][Next]_vars

\* An Allow under way returns (the Redis client has 300 ms timeouts), and Redis
\* drops a counter whose TTL has elapsed.
Fairness ==
    /\ \A c \in Callers : WF_vars(Expire(c) \/ ExpireErr(c) \/ Crash(c))
    /\ \A k \in Keys : WF_vars(Elapse(k))

FairSpec == Spec /\ Fairness

-----------------------------------------------------------------------------
(* Properties.                                                              *)

Verdicts == {"none", "granted", "refused", "unmetered"}

\* The values the variables may have.
TypeOK ==
    /\ count \in [Keys -> 0 .. MaxCount]
    /\ armed \in [Keys -> BOOLEAN]
    /\ arming \in [Callers -> Keys \cup {NoKey}]
    /\ verdict \in [Callers -> Verdicts]
    /\ cut \subseteq Keys

\* A counter without a TTL has a caller that is about to set it, unless in its
\* own window the reply to the first INCR was lost, the EXPIRE failed or its
\* caller died.  Nothing else, such as two first callers around a restart of
\* Redis, leaves a counter without one.
UnarmedIsTransient ==
    \A k \in Keys : count[k] > 0 /\ ~armed[k] =>
        k \in cut \/ \E c \in Callers : arming[c] = k

\* An exhausted key gets a new quota, unless its window lost its EXPIRE.
UncutKeyRecovers ==
    \A k \in Keys :
        count[k] >= Limit /\ k \notin cut ~> count[k] < Limit \/ k \in cut

\* "it resets when the window elapses": an exhausted key gets a new quota.
ExhaustedKeyRecovers == \A k \in Keys : count[k] >= Limit ~> count[k] < Limit

\* The limiter keeps the promise of FixedWindow: the quota used is the counter,
\* cut at the limit.  A first caller has its grant from the INCR on.
Used == [k \in Keys |-> IF count[k] <= Limit THEN count[k] ELSE Limit]

Verdict == [c \in Callers |-> IF arming[c] # NoKey THEN Decide(1) ELSE verdict[c]]

Quota == INSTANCE FixedWindow WITH used <- Used, verdict <- Verdict

QuotaKept == Quota!FWSpec

=============================================================================
