------------------------------ MODULE Gateway ------------------------------
(***************************************************************************)
(* The way of an /api/v1 request to its handler: authRequire (auth.Service. *)
(* Validate against api_keys), the flood guard for failed authentication,   *)
(* rateLimit (internal/handler/handler.go), next to the operator's keygen   *)
(* that creates and revokes keys.  Lookup, guard, limiter and handler are   *)
(* separate steps, so keys may be revoked or expire between any two.        *)
(*                                                                          *)
(* Allow is one atomic step here, as FixedWindow promises and RateLimiter   *)
(* implements it: with Redis failing, it may use up more than one unit.     *)
(***************************************************************************)
EXTENDS Integers, Sequences, FiniteSets

CONSTANTS
    Tokens,      \* raw keys GenerateRaw may produce, each at most once
    Strangers,   \* well-formed keys that were never issued
    Malformed,   \* a header rawKeyRe rejects, or none
    Prefix,      \* LookupPrefix of the well-formed keys
    IPs,         \* client addresses
    Reqs,        \* requests served at the same time
    KeyLimit,    \* RATE_LIMIT_LIMIT
    GuardLimit,  \* AUTH_GUARD_IP_LIMIT
    MaxResends,  \* bound: resends of one INCR whose replies are lost
    NoId,        \* no key in the request's context
    Faults       \* the environment's faults a run admits

WellFormed == Tokens \cup Strangers

ASSUME GatewayAssumption ==
    /\ IsFiniteSet(Tokens)
    /\ Tokens \cap Strangers = {} /\ Malformed \notin WellFormed
    /\ DOMAIN Prefix = WellFormed
    /\ IPs # {}
    /\ KeyLimit \in Nat /\ GuardLimit \in Nat /\ MaxResends \in Nat
    /\ NoId \notin Nat
    /\ Faults \subseteq {"db", "redis"}

VARIABLES
    table,    \* api_keys: a row's id is its index
    shown,    \* the raw keys keygen printed
    req,      \* the requests
    quota,    \* the limiter's units used, per key id
    strikes,  \* the guard's units used, per client IP
    verdict   \* what a request's last Allow returned

vars == <<table, shown, req, quota, strikes, verdict>>

Ids == 1 .. Cardinality(Tokens)

limiter == INSTANCE FixedWindow WITH
    Keys <- Ids, Callers <- Reqs, Limit <- KeyLimit, used <- quota

authGuard == INSTANCE FixedWindow WITH
    Keys <- IPs, Callers <- Reqs, Limit <- GuardLimit, used <- strikes

Ready == [pc |-> "idle", token |-> Malformed, ip |-> CHOOSE a \in IPs : TRUE,
          id |-> NoId, dead |-> FALSE, code |-> "none"]

Init ==
    /\ table = <<>>
    /\ shown = {}
    /\ req = [c \in Reqs |-> Ready]
    /\ limiter!FWInit
    /\ authGuard!FWInit

-----------------------------------------------------------------------------
(* keygen and the passage of time.                                          *)

Issued == {table[i].token : i \in DOMAIN table}

Row(token) == [token |-> token, revoked |-> FALSE, expired |-> FALSE]

\* auth.Create; the reply to the INSERT may be lost, then the row stays but
\* nobody ever sees its key.
Create(token, replied) ==
    /\ token \notin Issued
    /\ replied \/ "db" \in Faults
    /\ table' = Append(table, Row(token))
    /\ shown' = IF replied THEN shown \cup {token} ELSE shown
    /\ UNCHANGED <<req, quota, strikes, verdict>>

\* UPDATE ... WHERE id = $1 AND revoked_at IS NULL
Revoke(i) ==
    /\ ~table[i].revoked
    /\ table' = [table EXCEPT ![i].revoked = TRUE]
    /\ UNCHANGED <<shown, req, quota, strikes, verdict>>

\* now is after the key's expires_at.
ExpireKey(i) ==
    /\ ~table[i].expired
    /\ table' = [table EXCEPT ![i].expired = TRUE]
    /\ UNCHANGED <<shown, req, quota, strikes, verdict>>

Dead(i) == table[i].revoked \/ table[i].expired

-----------------------------------------------------------------------------
(* auth.Service.Validate.                                                   *)

\* GetAPIKeysByPrefix
Candidates(token) == {i \in DOMAIN table : Prefix[table[i].token] = Prefix[token]}

\* The candidates whose hash is the token's (SHA-256 has no collisions here).
Matches(token) == {i \in Candidates(token) : table[i].token = token}

\* Mutant: only the revocation is checked.
AcceptsExpired(i) == ~table[i].revoked

\* RevokedAt == nil and not past ExpiresAt
Accepts(i) == ~Dead(i)

-----------------------------------------------------------------------------
(* The middleware chain.                                                    *)

Goto(c, stage) == req' = [req EXCEPT ![c].pc = stage]

Reply(c, code) == req' = [req EXCEPT ![c] = [Ready EXCEPT !.code = code]]

\* A request comes in.  dead is history: its key was revoked or expired then.
Arrive(c, token, ip) ==
    /\ req[c].pc = "idle"
    /\ req' = [req EXCEPT ![c] =
                 [pc |-> IF token = Malformed THEN "guard" ELSE "validate",
                  token |-> token, ip |-> ip, id |-> NoId,
                  dead |-> \E i \in DOMAIN table : table[i].token = token /\ Dead(i),
                  code |-> "none"]]
    /\ verdict' = [verdict EXCEPT ![c] = "none"]
    /\ UNCHANGED <<table, shown, quota, strikes>>

Validate(c) ==
    /\ req[c].pc = "validate"
    /\ LET m == Matches(req[c].token) IN
       \/ \E i \in m : Accepts(i) /\ req' = [req EXCEPT ![c].pc = "limit", ![c].id = i]
       \/ (\A i \in m : ~Accepts(i)) /\ Goto(c, "guard")
    /\ UNCHANGED <<table, shown, quota, strikes, verdict>>

\* authRequire treats every error alike, one of the database too.
ValidateErr(c) ==
    /\ "db" \in Faults
    /\ req[c].pc = "validate"
    /\ Goto(c, "guard")
    /\ UNCHANGED <<table, shown, quota, strikes, verdict>>

\* INCRs of one Allow that were applied although their reply was lost.
Lost == IF "redis" \in Faults THEN 0 .. MaxResends ELSE {0}

Capped(u, limit) == IF u <= limit THEN u ELSE limit

\* blockedByAuthFloodGuard, then the uniform 401.  It fails open.
Guard(c) ==
    /\ req[c].pc = "guard"
    /\ \E lost \in Lost :
          LET ip == req[c].ip
              n == strikes[ip] + lost + 1
          IN  \/ authGuard!Grant(c, ip, n) /\ Reply(c, "401")
              \/ n > GuardLimit /\ authGuard!Refuse(c, ip) /\ Reply(c, "429")
              \/ /\ "redis" \in Faults
                 /\ authGuard!Unmetered(c, ip, Capped(n - 1, GuardLimit)) /\ Reply(c, "401")
    /\ UNCHANGED <<table, shown, quota>>

\* Mutant: the bucket is shared by all keys.
BucketShared(c) == 1

\* The limiter's key of a request: "key:<id>".
Bucket(c) == req[c].id

\* Mutant: a request over its quota is tried again instead of refused.
RateLimitRetries(c) ==
    /\ req[c].pc = "limit"
    /\ LET i == Bucket(c) IN
       \/ limiter!Grant(c, i, quota[i] + 1) /\ Goto(c, "serve")
       \/ quota[i] = KeyLimit /\ limiter!Refuse(c, i) /\ Goto(c, "validate")
    /\ UNCHANGED <<table, shown, strikes>>

\* rateLimit fails open as well.
RateLimit(c) ==
    /\ req[c].pc = "limit"
    /\ \E lost \in Lost :
          LET i == Bucket(c)
              n == quota[i] + lost + 1
          IN  \/ limiter!Grant(c, i, n) /\ Goto(c, "serve")
              \/ n > KeyLimit /\ limiter!Refuse(c, i) /\ Reply(c, "429")
              \/ /\ "redis" \in Faults
                 /\ limiter!Unmetered(c, i, Capped(n - 1, KeyLimit)) /\ Goto(c, "serve")
    /\ UNCHANGED <<table, shown, strikes>>

\* The route's handler answers with a result or one of its own errors.
Serve(c) ==
    /\ req[c].pc = "serve"
    /\ Reply(c, "served")
    /\ UNCHANGED <<table, shown, quota, strikes, verdict>>

Step(c) == Validate(c) \/ ValidateErr(c) \/ Guard(c) \/ RateLimit(c) \/ Serve(c)

\* A window of the limiter or of the guard ends.
EndWindow ==
    /\ \/ \E i \in Ids : quota[i] > 0 /\ limiter!Renew({i}) /\ UNCHANGED strikes
       \/ \E ip \in IPs : strikes[ip] > 0 /\ authGuard!Renew({ip}) /\ UNCHANGED quota
    /\ UNCHANGED <<table, shown, req>>

\* A client presents a key it was shown, a made-up one, or none.
Next ==
    \/ \E c \in Reqs :
          \/ Step(c)
          \/ \E token \in shown \cup Strangers \cup {Malformed}, ip \in IPs : Arrive(c, token, ip)
    \/ \E token \in Tokens, replied \in BOOLEAN : Create(token, replied)
    \/ \E i \in DOMAIN table : Revoke(i) \/ ExpireKey(i)
    \/ EndWindow

Spec == Init /\ [][Next]_vars

\* The calls to Redis end within the client's 300 ms timeouts.  Nothing bounds
\* those to the database, in Validate and in the handlers.
FairSpec == Spec /\ \A c \in Reqs : WF_vars(Guard(c)) /\ WF_vars(RateLimit(c))

-----------------------------------------------------------------------------
(* Properties.                                                              *)

\* The values the variables may have.
TypeOK ==
    /\ table \in Seq([token : Tokens, revoked : BOOLEAN, expired : BOOLEAN])
    /\ shown \subseteq Tokens
    /\ req \in [Reqs -> [pc : {"idle", "validate", "guard", "limit", "serve"},
                         token : WellFormed \cup {Malformed}, ip : IPs,
                         id : Ids \cup {NoId}, dead : BOOLEAN,
                         code : {"none", "401", "429", "served"}]]
    /\ quota \in [Ids -> 0 .. KeyLimit]
    /\ strikes \in [IPs -> 0 .. GuardLimit]

\* A request past authRequire carries the id of the very key it presented, also
\* when prefixes collide, and that key was neither revoked nor expired when the
\* request arrived: a revocation is in force for every later request.
PassedWithLiveKey ==
    \A c \in Reqs : req[c].pc \in {"limit", "serve"} =>
        /\ req[c].id \in DOMAIN table
        /\ table[req[c].id].token = req[c].token
        /\ ~req[c].dead

\* A key's quota is used up by requests that present that key, when they pass the
\* limiter, and by nothing else: not by other keys nor by failed authentication.
\* (A request that is refused uses it up too when its INCR was sent again.)
QuotaChargedToPresenter ==
    [][\A i \in Ids : quota'[i] > quota[i] =>
          \E c \in Reqs : /\ req[c].pc = "limit" /\ req'[c].pc # "limit"
                          /\ i \in DOMAIN table
                          /\ req[c].token = table[i].token]_vars

\* "a request with a valid key does not touch the guard": authentication sends
\* a request to the flood guard only when its key is not good.
ValidKeySparesGuard ==
    [][\A c \in Reqs : req[c].pc = "validate" /\ req'[c].pc = "guard" =>
          ~\E i \in DOMAIN table : table[i].token = req[c].token /\ ~Dead(i)]_vars

\* No request waits for the database for ever.
DatabaseAnswers ==
    \A c \in Reqs : []<>(req[c].pc # "validate") /\ []<>(req[c].pc # "serve")

\* As long as the database answers, with a row or an error, every request is
\* answered, whatever fails.
RequestsAnswered ==
    DatabaseAnswers => \A c \in Reqs : req[c].pc # "idle" ~> req[c].pc = "idle"

=============================================================================
