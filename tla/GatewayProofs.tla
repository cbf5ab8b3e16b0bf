--------------------------- MODULE GatewayProofs ---------------------------
(***************************************************************************)
(* Proofs about Gateway, for any keys, prefixes, clients, requests, limits  *)
(* and faults.                                                              *)
(***************************************************************************)
EXTENDS Gateway, TLAPS, FiniteSetTheorems, SequenceTheorems

RowType == [token : Tokens, revoked : BOOLEAN, expired : BOOLEAN]

ReqType == [pc : {"idle", "validate", "guard", "limit", "serve"},
            token : WellFormed \cup {Malformed}, ip : IPs,
            id : Ids \cup {NoId}, dead : BOOLEAN,
            code : {"none", "401", "429", "served"}]

\* No two rows of api_keys are for the same raw key.
TokensDistinct ==
    \A i, j \in DOMAIN table : table[i].token = table[j].token => i = j

\* A request about to be validated whose key was dead when it arrived: the key
\* has its row, and that row is dead still.
DeadStaysDead ==
    \A c \in Reqs : req[c].pc = "validate" /\ req[c].dead =>
        /\ req[c].token \in Issued
        /\ \A i \in DOMAIN table : table[i].token = req[c].token => Dead(i)

GatewayInv == TypeOK /\ TokensDistinct /\ DeadStaysDead /\ PassedWithLiveKey

-----------------------------------------------------------------------------
(* The table of keys.                                                       *)

\* There are at most as many rows as raw keys, so every row's id is in Ids.
LEMMA RowsHaveIds ==
    ASSUME table \in Seq(RowType), TokensDistinct
    PROVE  DOMAIN table \subseteq Ids
<1> DEFINE n == Len(table)
           f == [i \in 1 .. n |-> table[i].token]
<1>1. n \in Nat /\ DOMAIN table = 1 .. n /\ table \in [1 .. n -> RowType]
  BY LenProperties
<1>2. IsFiniteSet(Tokens) /\ Cardinality(Tokens) \in Nat
  BY GatewayAssumption, FS_CardinalityType
<1>3. IsFiniteSet(1 .. n) /\ Cardinality(1 .. n) = n
  BY <1>1, FS_Interval
<1>4. f \in [1 .. n -> Tokens]
  BY <1>1 DEF RowType
<1>5. ~ Cardinality(Tokens) < Cardinality(1 .. n)
  <2> SUFFICES ASSUME Cardinality(Tokens) < Cardinality(1 .. n)
               PROVE  FALSE
    OBVIOUS
  <2> HIDE DEF f
  <2>1. \E x, y \in 1 .. n : x # y /\ f[x] = f[y]
    BY <1>2, <1>3, <1>4, FS_PigeonHole
  <2> QED
    BY <1>1, <2>1 DEF f, TokensDistinct
<1> HIDE DEF n
<1> QED
  BY <1>1, <1>2, <1>3, <1>5 DEF Ids

\* What keygen and the clock may do to the table: rows stay, keep their key,
\* and a dead one stays dead; a row that is added is for a key not issued yet.
TableGrows ==
    /\ table' \in Seq(RowType)
    /\ DOMAIN table \subseteq DOMAIN table'
    /\ \A i \in DOMAIN table :
          /\ table'[i].token = table[i].token
          /\ Dead(i) => Dead(i)'
    /\ \A i \in DOMAIN table' \ DOMAIN table : table'[i].token \notin Issued
    /\ \A i, j \in DOMAIN table' \ DOMAIN table : i = j

\* INSERT INTO api_keys adds one row.
LEMMA CreateGrows ==
    ASSUME table \in Seq(RowType), NEW token \in Tokens, NEW replied \in BOOLEAN,
           Create(token, replied)
    PROVE  TableGrows
<1> DEFINE n == Len(table)
<1>0. Row(token) \in RowType
  BY DEF Row, RowType
<1>1. n \in Nat /\ DOMAIN table = 1 .. n
  BY LenProperties
<1>2. /\ table' \in Seq(RowType) /\ Len(table') = n + 1
      /\ \A i \in 1 .. n : table'[i] = table[i]
      /\ table'[n + 1] = Row(token)
  BY <1>0, AppendProperties DEF Create
<1>3. DOMAIN table' = 1 .. (n + 1)
  BY <1>2, LenProperties
<1> HIDE DEF n
<1>4. DOMAIN table \subseteq DOMAIN table' /\ DOMAIN table' \ DOMAIN table = {n + 1}
  BY <1>1, <1>3
<1>5. token \notin Issued
  BY DEF Create
<1> QED
  BY <1>1, <1>2, <1>4, <1>5 DEF TableGrows, Dead, Row

\* Revocation and expiry change one column of one row.
LEMMA RetireGrows ==
    ASSUME table \in Seq(RowType), NEW i \in DOMAIN table, Revoke(i) \/ ExpireKey(i)
    PROVE  TableGrows
<1> DEFINE n == Len(table)
<1>1. n \in Nat /\ DOMAIN table = 1 .. n /\ table \in [1 .. n -> RowType]
  BY LenProperties
<1>2. \/ table' = [table EXCEPT ![i].revoked = TRUE]
      \/ table' = [table EXCEPT ![i].expired = TRUE]
  BY DEF Revoke, ExpireKey
<1>3. table' \in [1 .. n -> RowType]
  BY <1>1, <1>2 DEF RowType
<1>4. table' \in Seq(RowType)
  BY <1>1, <1>3, IsASeq
<1>5. DOMAIN table' = DOMAIN table
  BY <1>1, <1>3
<1>6. \A j \in DOMAIN table :
         /\ table'[j].token = table[j].token
         /\ table[j].revoked => table'[j].revoked
         /\ table[j].expired => table'[j].expired
  BY <1>1, <1>2 DEF RowType
<1> QED
  BY <1>4, <1>5, <1>6 DEF TableGrows, Dead

\* A table that grows like this keeps every statement the invariant makes of it.
LEMMA GrowsKeeps ==
    ASSUME TableGrows, UNCHANGED req,
           TokensDistinct, DeadStaysDead, PassedWithLiveKey
    PROVE  TokensDistinct' /\ DeadStaysDead' /\ PassedWithLiveKey'
<1>1. TokensDistinct'
  BY DEF TableGrows, TokensDistinct, Issued
<1>2. Issued \subseteq Issued'
  BY DEF TableGrows, Issued
<1>3. DeadStaysDead'
  <2> SUFFICES ASSUME NEW c \in Reqs, req[c].pc = "validate", req[c].dead
               PROVE  /\ req[c].token \in Issued'
                      /\ \A i \in DOMAIN table' : table'[i].token = req[c].token => Dead(i)'
    BY DEF DeadStaysDead
  <2>1. req[c].token \in Issued
    BY DEF DeadStaysDead
  <2>2. \A i \in DOMAIN table : table[i].token = req[c].token => Dead(i)
    BY DEF DeadStaysDead
  <2> QED
    BY <1>2, <2>1, <2>2 DEF TableGrows
<1>4. PassedWithLiveKey'
  BY DEF PassedWithLiveKey, TableGrows
<1> QED
  BY <1>1, <1>3, <1>4

-----------------------------------------------------------------------------
(* The middleware chain.                                                    *)

\* A fresh slot is a request's.
LEMMA ReadyType ==
    Ready \in ReqType /\ \A code \in {"401", "429", "served"} :
                             [Ready EXCEPT !.code = code] \in ReqType
<1>1. (CHOOSE a \in IPs : TRUE) \in IPs
  BY GatewayAssumption
<1> HIDE DEF ReqType
<1> DEFINE first == CHOOSE a \in IPs : TRUE
<1> HIDE DEF first
<1>2. first \in IPs
  BY <1>1 DEF first
<1>3. Ready = [pc |-> "idle", token |-> Malformed, ip |-> first,
               id |-> NoId, dead |-> FALSE, code |-> "none"]
  BY DEF Ready, first
<1> QED
  BY <1>2, <1>3 DEF ReqType

\* The end of a window only takes units away.
LEMMA RenewLowers ==
    ASSUME KeyLimit \in Nat, GuardLimit \in Nat, EndWindow,
           quota \in [Ids -> 0 .. KeyLimit], strikes \in [IPs -> 0 .. GuardLimit]
    PROVE  /\ quota' \in [Ids -> 0 .. KeyLimit] /\ \A i \in Ids : quota'[i] <= quota[i]
           /\ strikes' \in [IPs -> 0 .. GuardLimit]
<1>1. ASSUME NEW i \in Ids, limiter!Renew({i})
      PROVE  quota' \in [Ids -> 0 .. KeyLimit] /\ \A j \in Ids : quota'[j] <= quota[j]
  <2>1. quota' = [k \in Ids |-> IF k \in {i} THEN 0 ELSE quota[k]]
    BY <1>1 DEF limiter!Renew
  <2> QED
    BY <2>1
<1>2. ASSUME NEW ip \in IPs, authGuard!Renew({ip})
      PROVE  strikes' \in [IPs -> 0 .. GuardLimit]
  <2>1. strikes' = [k \in IPs |-> IF k \in {ip} THEN 0 ELSE strikes[k]]
    BY <1>2 DEF authGuard!Renew
  <2> QED
    BY <2>1
<1>3. \/ \E i \in Ids : limiter!Renew({i}) /\ strikes' = strikes
      \/ \E ip \in IPs : authGuard!Renew({ip}) /\ quota' = quota
  BY Zenon DEF EndWindow
<1>4. CASE \E i \in Ids : limiter!Renew({i}) /\ strikes' = strikes
  BY <1>1, <1>4
<1>5. CASE \E ip \in IPs : authGuard!Renew({ip}) /\ quota' = quota
  <2>1. \A i \in Ids : quota[i] <= quota[i]
    OBVIOUS
  <2> QED
    BY <1>2, <1>5, <2>1
<1> QED
  BY <1>3, <1>4, <1>5

\* Initially there are no keys and no requests.
LEMMA GatewayInit == Init => GatewayInv
<1> SUFFICES ASSUME Init PROVE GatewayInv
  OBVIOUS
<1>1. table \in Seq(RowType) /\ DOMAIN table = {}
  BY DEF Init
<1>2. req \in [Reqs -> ReqType] /\ \A c \in Reqs : req[c].pc = "idle"
  BY ReadyType DEF Init, Ready
<1>3. quota \in [Ids -> 0 .. KeyLimit] /\ strikes \in [IPs -> 0 .. GuardLimit]
  BY GatewayAssumption DEF Init, limiter!FWInit, authGuard!FWInit
<1>4. shown \subseteq Tokens
  BY DEF Init
<1> QED
  BY <1>1, <1>2, <1>3, <1>4
  DEF GatewayInv, TypeOK, RowType, ReqType, TokensDistinct, DeadStaysDead, PassedWithLiveKey

\* What a step of request c may do to the requests: only c moves, and where it
\* goes next it may be.
OnlyMoves(c) ==
    /\ UNCHANGED table
    /\ req' \in [Reqs -> ReqType]
    /\ \A d \in Reqs \ {c} : req'[d] = req[d]
    /\ req'[c].pc = "validate" /\ req'[c].dead =>
          \E i \in DOMAIN table : table[i].token = req'[c].token /\ Dead(i)
    /\ req'[c].pc \in {"limit", "serve"} =>
          /\ req'[c].id \in DOMAIN table
          /\ table[req'[c].id].token = req'[c].token
          /\ ~req'[c].dead

\* Such a move keeps the statements about requests; that a presented key has
\* only one row is what makes its death final.
LEMMA MoveKeeps ==
    ASSUME NEW c \in Reqs, OnlyMoves(c),
           TokensDistinct, DeadStaysDead, PassedWithLiveKey
    PROVE  TokensDistinct' /\ DeadStaysDead' /\ PassedWithLiveKey'
<1>1. TokensDistinct'
  BY DEF OnlyMoves, TokensDistinct
<1>2. DeadStaysDead'
  <2> SUFFICES ASSUME NEW d \in Reqs, req'[d].pc = "validate", req'[d].dead
               PROVE  /\ req'[d].token \in Issued'
                      /\ \A i \in DOMAIN table' : table'[i].token = req'[d].token => Dead(i)'
    BY DEF DeadStaysDead
  <2>1. CASE d = c
    BY <2>1 DEF OnlyMoves, TokensDistinct, Issued, Dead
  <2>2. CASE d # c
    BY <2>2 DEF OnlyMoves, DeadStaysDead, Issued, Dead
  <2> QED
    BY <2>1, <2>2
<1>3. PassedWithLiveKey'
  BY DEF OnlyMoves, PassedWithLiveKey
<1> QED
  BY <1>1, <1>2, <1>3

\* A request that arrives.
LEMMA ArriveMoves ==
    ASSUME GatewayInv, NEW c \in Reqs,
           NEW token \in shown \cup Strangers \cup {Malformed}, NEW ip \in IPs,
           Arrive(c, token, ip)
    PROVE  OnlyMoves(c)
<1> DEFINE gone == \E i \in DOMAIN table : table[i].token = token /\ Dead(i)
           new == [pc |-> IF token = Malformed THEN "guard" ELSE "validate",
                   token |-> token, ip |-> ip, id |-> NoId, dead |-> gone, code |-> "none"]
<1>1. token \in WellFormed \cup {Malformed}
  BY DEF GatewayInv, TypeOK, WellFormed
<1>2. gone \in BOOLEAN
  OBVIOUS
<1>3. req' = [req EXCEPT ![c] = new]
  BY DEF Arrive
<1>4. /\ new.pc \in {"guard", "validate"} /\ new.token = token /\ new.dead = gone
      /\ new.ip = ip /\ new.id = NoId /\ new.code = "none"
  BY Zenon
<1>5. new \in ReqType
  <2> HIDE DEF gone
  <2> QED
    BY <1>1, <1>2 DEF ReqType
<1>6. req \in [Reqs -> ReqType]
  BY DEF GatewayInv, TypeOK, ReqType
<1> HIDE DEF new
<1>7. req'[c] = new /\ req' \in [Reqs -> ReqType] /\ \A d \in Reqs \ {c} : req'[d] = req[d]
  BY <1>3, <1>5, <1>6
<1> QED
  BY <1>4, <1>7 DEF OnlyMoves, Arrive

\* A request that changes its stage only.
LEMMA GotoMoves ==
    ASSUME GatewayInv, NEW c \in Reqs, UNCHANGED table,
           \/ Goto(c, "guard")
           \/ Goto(c, "serve") /\ req[c].pc = "limit"
    PROVE  OnlyMoves(c)
<1>1. req \in [Reqs -> ReqType]
  BY DEF GatewayInv, TypeOK, ReqType
<1>2. \A stage \in {"guard", "serve"} : Goto(c, stage) =>
         /\ req' \in [Reqs -> ReqType]
         /\ \A d \in Reqs \ {c} : req'[d] = req[d]
         /\ req'[c].pc = stage /\ req'[c].token = req[c].token
         /\ req'[c].id = req[c].id /\ req'[c].dead = req[c].dead
  BY <1>1 DEF Goto, ReqType
<1> QED
  BY <1>2 DEF OnlyMoves, GatewayInv, PassedWithLiveKey

\* A request that is answered.
LEMMA ReplyMoves ==
    ASSUME GatewayInv, NEW c \in Reqs, UNCHANGED table,
           NEW code \in {"401", "429", "served"}, Reply(c, code)
    PROVE  OnlyMoves(c) /\ req'[c].pc = "idle"
<1>1. req \in [Reqs -> ReqType]
  BY DEF GatewayInv, TypeOK, ReqType
<1> DEFINE new == [Ready EXCEPT !.code = code]
<1>2. new \in ReqType /\ new.pc = "idle"
  BY ReadyType DEF Ready
<1>3. req' = [req EXCEPT ![c] = new]
  BY DEF Reply
<1> HIDE DEF new
<1> QED
  BY <1>1, <1>2, <1>3 DEF OnlyMoves

\* Validate lets a request pass with the row of its own key, and not when that
\* key was dead already as it arrived.
LEMMA ValidateMoves ==
    ASSUME GatewayInv, NEW c \in Reqs, Validate(c)
    PROVE  OnlyMoves(c)
<1> DEFINE m == Matches(req[c].token)
<1>1. CASE Goto(c, "guard")
  BY <1>1, GotoMoves DEF Validate
<1>2. ASSUME NEW i \in m, Accepts(i), req' = [req EXCEPT ![c].pc = "limit", ![c].id = i]
      PROVE  OnlyMoves(c)
  <2>1. i \in DOMAIN table /\ table[i].token = req[c].token /\ ~Dead(i)
    BY <1>2 DEF Matches, Candidates, Accepts
  <2>2. ~req[c].dead
    BY <2>1 DEF GatewayInv, DeadStaysDead, Validate
  <2>3. i \in Ids
    BY <2>1, RowsHaveIds DEF GatewayInv, TypeOK, RowType
  <2>4. req \in [Reqs -> ReqType]
    BY DEF GatewayInv, TypeOK, ReqType
  <2>5. /\ req' \in [Reqs -> ReqType]
        /\ \A d \in Reqs \ {c} : req'[d] = req[d]
        /\ req'[c].pc = "limit" /\ req'[c].id = i
        /\ req'[c].token = req[c].token /\ req'[c].dead = req[c].dead
    BY <1>2, <2>3, <2>4 DEF ReqType
  <2> QED
    BY <2>1, <2>2, <2>5 DEF OnlyMoves, Validate
<1> QED
  BY <1>1, <1>2 DEF Validate

\* The id of a request before the limiter names a quota.
LEMMA LimitedById ==
    ASSUME GatewayInv, NEW c \in Reqs, req[c].pc = "limit"
    PROVE  /\ Bucket(c) \in Ids /\ Bucket(c) \in DOMAIN table
           /\ table[Bucket(c)].token = req[c].token
BY RowsHaveIds DEF GatewayInv, TypeOK, RowType, PassedWithLiveKey, Bucket

\* Whatever the guard answers, it has used up units of the client's address.
LEMMA GuardCharges ==
    ASSUME GatewayInv, NEW c \in Reqs, Guard(c)
    PROVE  \E u \in 0 .. GuardLimit : strikes' = [strikes EXCEPT ![req[c].ip] = u]
<1> DEFINE ip == req[c].ip
<1>1. GuardLimit \in Nat /\ strikes[ip] \in 0 .. GuardLimit
  BY GatewayAssumption DEF GatewayInv, TypeOK
<1>0. PICK lost \in Lost :
         LET n == strikes[ip] + lost + 1 IN
         \/ authGuard!Grant(c, ip, n) /\ Reply(c, "401")
         \/ n > GuardLimit /\ authGuard!Refuse(c, ip) /\ Reply(c, "429")
         \/ /\ "redis" \in Faults
            /\ authGuard!Unmetered(c, ip, Capped(n - 1, GuardLimit)) /\ Reply(c, "401")
  BY DEF Guard
<1> DEFINE n == strikes[ip] + lost + 1
           m == Capped(n - 1, GuardLimit)
<1>2. \/ authGuard!Grant(c, ip, n)
      \/ authGuard!Refuse(c, ip)
      \/ authGuard!Unmetered(c, ip, m)
  BY <1>0
<1>3. n \in Nat /\ m \in 0 .. GuardLimit
  <2>1. lost \in Nat
    BY GatewayAssumption DEF Lost
  <2> QED
    BY <1>1, <2>1 DEF Capped
<1> HIDE DEF n, m
<1>4. n <= GuardLimit => n \in 0 .. GuardLimit
  BY <1>1, <1>3
<1>5. GuardLimit \in 0 .. GuardLimit
  BY <1>1
<1> HIDE DEF ip
<1>6. \E u \in 0 .. GuardLimit : strikes' = [strikes EXCEPT ![ip] = u]
  <2>1. authGuard!Grant(c, ip, n) => n <= GuardLimit /\ strikes' = [strikes EXCEPT ![ip] = n]
    BY DEF authGuard!Grant
  <2>2. authGuard!Refuse(c, ip) => strikes' = [strikes EXCEPT ![ip] = GuardLimit]
    BY DEF authGuard!Refuse
  <2>3. authGuard!Unmetered(c, ip, m) => strikes' = [strikes EXCEPT ![ip] = m]
    BY DEF authGuard!Unmetered
  <2> QED
    BY <1>2, <1>3, <1>4, <1>5, <2>1, <2>2, <2>3
<1> QED
  BY <1>6 DEF ip

\* Whatever the limiter answers, it has used up units of the request's own key,
\* and the request leaves the limiter.
LEMMA LimitCharges ==
    ASSUME GatewayInv, NEW c \in Reqs, RateLimit(c)
    PROVE  /\ \E u \in 0 .. KeyLimit : quota' = [quota EXCEPT ![Bucket(c)] = u]
           /\ Goto(c, "serve") \/ Reply(c, "429")
<1> DEFINE i == Bucket(c)
<1>1. i \in Ids /\ KeyLimit \in Nat /\ quota[i] \in 0 .. KeyLimit
  BY LimitedById, GatewayAssumption DEF RateLimit, GatewayInv, TypeOK
<1>0. PICK lost \in Lost :
         LET n == quota[i] + lost + 1 IN
         \/ limiter!Grant(c, i, n) /\ Goto(c, "serve")
         \/ n > KeyLimit /\ limiter!Refuse(c, i) /\ Reply(c, "429")
         \/ /\ "redis" \in Faults
            /\ limiter!Unmetered(c, i, Capped(n - 1, KeyLimit)) /\ Goto(c, "serve")
  BY DEF RateLimit
<1> DEFINE n == quota[i] + lost + 1
           m == Capped(n - 1, KeyLimit)
<1>2. \/ limiter!Grant(c, i, n)
      \/ limiter!Refuse(c, i)
      \/ limiter!Unmetered(c, i, m)
  BY <1>0
<1>3. n \in Nat /\ m \in 0 .. KeyLimit
  <2>1. lost \in Nat
    BY GatewayAssumption DEF Lost
  <2> QED
    BY <1>1, <2>1 DEF Capped
<1> HIDE DEF n, m
<1>4. n <= KeyLimit => n \in 0 .. KeyLimit
  BY <1>1, <1>3
<1>5. KeyLimit \in 0 .. KeyLimit
  BY <1>1
<1> HIDE DEF i
<1>6. \E u \in 0 .. KeyLimit : quota' = [quota EXCEPT ![i] = u]
  <2>1. limiter!Grant(c, i, n) => n <= KeyLimit /\ quota' = [quota EXCEPT ![i] = n]
    BY DEF limiter!Grant
  <2>2. limiter!Refuse(c, i) => quota' = [quota EXCEPT ![i] = KeyLimit]
    BY DEF limiter!Refuse
  <2>3. limiter!Unmetered(c, i, m) => quota' = [quota EXCEPT ![i] = m]
    BY DEF limiter!Unmetered
  <2> QED
    BY <1>2, <1>3, <1>4, <1>5, <2>1, <2>2, <2>3
<1>7. Goto(c, "serve") \/ Reply(c, "429")
  BY DEF RateLimit
<1> QED
  BY <1>6, <1>7 DEF i

\* The types of what a move leaves alone.
LEMMA MoveTypes ==
    ASSUME GatewayInv, NEW c \in Reqs, OnlyMoves(c), UNCHANGED shown,
           quota' \in [Ids -> 0 .. KeyLimit], strikes' \in [IPs -> 0 .. GuardLimit]
    PROVE  GatewayInv'
<1>1. TypeOK'
  BY DEF GatewayInv, TypeOK, OnlyMoves, ReqType
<1> QED
  BY <1>1, MoveKeeps DEF GatewayInv

\* Every step of the chain, of keygen and of time keeps the invariant.
LEMMA GatewayStep == GatewayInv /\ [Next]_vars => GatewayInv'
<1> SUFFICES ASSUME GatewayInv, [Next]_vars PROVE GatewayInv'
  OBVIOUS
<1>0. /\ quota \in [Ids -> 0 .. KeyLimit] /\ strikes \in [IPs -> 0 .. GuardLimit]
      /\ table \in Seq(RowType) /\ shown \subseteq Tokens /\ req \in [Reqs -> ReqType]
      /\ KeyLimit \in Nat /\ GuardLimit \in Nat
  BY GatewayAssumption DEF GatewayInv, TypeOK, RowType, ReqType
<1>1. ASSUME NEW c \in Reqs, NEW token \in shown \cup Strangers \cup {Malformed},
             NEW ip \in IPs, Arrive(c, token, ip)
      PROVE  GatewayInv'
  BY <1>0, <1>1, ArriveMoves, MoveTypes DEF Arrive
<1>2. ASSUME NEW c \in Reqs, Validate(c)
      PROVE  GatewayInv'
  BY <1>0, <1>2, ValidateMoves, MoveTypes DEF Validate
<1>3. ASSUME NEW c \in Reqs, ValidateErr(c)
      PROVE  GatewayInv'
  BY <1>0, <1>3, GotoMoves, MoveTypes DEF ValidateErr
<1>4. ASSUME NEW c \in Reqs, Guard(c)
      PROVE  GatewayInv'
  <2> DEFINE ip == req[c].ip
  <2>1. ip \in IPs
    BY <1>0 DEF ReqType
  <2>2. strikes' \in [IPs -> 0 .. GuardLimit]
    BY <1>0, <1>4, GuardCharges
  <2>3. OnlyMoves(c)
    BY <1>4, ReplyMoves DEF Guard
  <2> QED
    BY <1>0, <1>4, <2>2, <2>3, MoveTypes DEF Guard
<1>5. ASSUME NEW c \in Reqs, RateLimit(c)
      PROVE  GatewayInv'
  <2> DEFINE i == Bucket(c)
  <2>1. i \in Ids
    BY <1>5, LimitedById DEF RateLimit
  <2>2. quota' \in [Ids -> 0 .. KeyLimit]
    BY <1>0, <1>5, LimitCharges
  <2>3. OnlyMoves(c)
    BY <1>5, LimitCharges, ReplyMoves, GotoMoves DEF RateLimit
  <2> QED
    BY <1>0, <1>5, <2>2, <2>3, MoveTypes DEF RateLimit
<1>6. ASSUME NEW c \in Reqs, Serve(c)
      PROVE  GatewayInv'
  BY <1>0, <1>6, ReplyMoves, MoveTypes DEF Serve
<1>7. ASSUME NEW token \in Tokens, NEW replied \in BOOLEAN, Create(token, replied)
      PROVE  GatewayInv'
  <2>1. TableGrows
    BY <1>0, <1>7, CreateGrows
  <2>2. shown' \subseteq Tokens
    BY <1>0, <1>7 DEF Create
  <2>3. TypeOK'
    BY <1>0, <1>7, <2>1, <2>2 DEF Create, TableGrows, TypeOK, RowType, ReqType
  <2> QED
    BY <1>7, <2>1, <2>3, GrowsKeeps DEF GatewayInv, Create
<1>8. ASSUME NEW i \in DOMAIN table, Revoke(i) \/ ExpireKey(i)
      PROVE  GatewayInv'
  <2>1. TableGrows
    BY <1>0, <1>8, RetireGrows
  <2>2. TypeOK'
    BY <1>0, <1>8, <2>1 DEF Revoke, ExpireKey, TableGrows, TypeOK, RowType, ReqType
  <2> QED
    BY <1>8, <2>1, <2>2, GrowsKeeps DEF GatewayInv, Revoke, ExpireKey
<1>9. CASE EndWindow
  <2>1. quota' \in [Ids -> 0 .. KeyLimit]
    BY <1>0, <1>9, RenewLowers
  <2>2. strikes' \in [IPs -> 0 .. GuardLimit]
    BY <1>0, <1>9, RenewLowers
  <2> QED
    BY <1>9, <2>1, <2>2
    DEF EndWindow, GatewayInv, TypeOK, TokensDistinct, DeadStaysDead, PassedWithLiveKey,
        Issued, Dead
<1>10. CASE UNCHANGED vars
  BY <1>10
  DEF vars, GatewayInv, TypeOK, TokensDistinct, DeadStaysDead, PassedWithLiveKey, Issued, Dead
<1> QED
  BY <1>1, <1>2, <1>3, <1>4, <1>5, <1>6, <1>7, <1>8, <1>9, <1>10 DEF Next, Step

\* The gateway's invariant, for the theorems below.
LEMMA GatewayInvariant == Spec => []GatewayInv
BY GatewayInit, GatewayStep, PTL DEF Spec

-----------------------------------------------------------------------------
(* What the chain guarantees.                                               *)

\* Keys, requests and quotas keep their types; in particular a request is never
\* counted against an id that has no quota, and no quota is overdrawn.
THEOREM GatewayTypes == Spec => []TypeOK
<1>1. GatewayInv => TypeOK
  BY DEF GatewayInv
<1> QED
  BY <1>1, GatewayInvariant, PTL

\* authRequire lets a request pass only with the id of the key it presented and
\* only if that key was alive when the request arrived, however revocations,
\* expiries and other requests interleave and whichever prefixes collide.
THEOREM AuthenticatedAlive == Spec => []PassedWithLiveKey
<1>1. GatewayInv => PassedWithLiveKey
  BY DEF GatewayInv
<1> QED
  BY <1>1, GatewayInvariant, PTL

\* A step that uses a unit of a key's quota is a request of that key leaving the
\* limiter.
LEMMA ChargeStep ==
    ASSUME GatewayInv, [Next]_vars, NEW i \in Ids, quota'[i] > quota[i]
    PROVE  \E c \in Reqs : /\ req[c].pc = "limit" /\ req'[c].pc # "limit"
                           /\ i \in DOMAIN table
                           /\ req[c].token = table[i].token
<1>0. /\ quota \in [Ids -> 0 .. KeyLimit] /\ req \in [Reqs -> ReqType]
      /\ KeyLimit \in Nat /\ quota[i] \in Nat
  BY GatewayAssumption DEF GatewayInv, TypeOK, ReqType
<1>00. /\ quota \in [Ids -> 0 .. KeyLimit] /\ strikes \in [IPs -> 0 .. GuardLimit]
       /\ KeyLimit \in Nat /\ GuardLimit \in Nat
  BY GatewayAssumption DEF GatewayInv, TypeOK
<1>1. PICK c \in Reqs : RateLimit(c)
  <2>1. quota' # quota
    BY <1>0
  <2>2. ~EndWindow
    <3> SUFFICES ASSUME EndWindow PROVE FALSE
      OBVIOUS
    <3>1. quota'[i] <= quota[i] /\ quota' \in [Ids -> 0 .. KeyLimit]
      BY <1>00, RenewLowers
    <3> QED
      BY <1>0, <3>1
  <2> QED
    BY <2>1, <2>2
    DEF Next, Step, Arrive, Validate, ValidateErr, Guard, Serve, Create, Revoke, ExpireKey, vars
<1> DEFINE b == Bucket(c)
<1>2. b \in Ids /\ b \in DOMAIN table /\ table[b].token = req[c].token /\ req[c].pc = "limit"
  BY <1>1, LimitedById DEF RateLimit
<1>3. b = i
  <2>1. PICK u \in 0 .. KeyLimit : quota' = [quota EXCEPT ![b] = u]
    BY <1>1, LimitCharges
  <2> HIDE DEF b
  <2> QED
    BY <1>0, <1>2, <2>1
<1>4. req'[c].pc # "limit"
  <2>1. CASE Goto(c, "serve")
    BY <1>0, <2>1 DEF Goto, ReqType
  <2>2. CASE Reply(c, "429")
    BY <1>0, <2>2 DEF Reply, Ready
  <2> QED
    BY <1>1, <2>1, <2>2, LimitCharges
<1> QED
  BY <1>2, <1>3, <1>4

\* A key's quota is used by requests that present that key, in their one pass of
\* the limiter, and by nothing else, also when the INCR is resent.
THEOREM QuotaBelongsToKey == Spec => QuotaChargedToPresenter
<1> DEFINE Charged ==
      \A i \in Ids : quota'[i] > quota[i] =>
          \E c \in Reqs : /\ req[c].pc = "limit" /\ req'[c].pc # "limit"
                          /\ i \in DOMAIN table
                          /\ req[c].token = table[i].token
<1>1. GatewayInv /\ [Next]_vars => Charged
  BY ChargeStep
<1>2. GatewayInv /\ [Next]_vars => [Charged]_vars
  BY <1>1
<1> HIDE DEF Charged
<1>3. Spec => [][Charged]_vars
  BY <1>2, GatewayInvariant, PTL DEF Spec
<1> QED
  BY <1>3 DEF QuotaChargedToPresenter, Charged

=============================================================================
