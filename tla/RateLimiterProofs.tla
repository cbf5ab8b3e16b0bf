------------------------- MODULE RateLimiterProofs -------------------------
(***************************************************************************)
(* Proofs about RateLimiter, for any keys, callers, limit and bounds.       *)
(***************************************************************************)
EXTENDS RateLimiter, TLAPS

\* A caller between INCR and EXPIRE has no answer yet.
ArmingUnanswered == \A c \in Callers : arming[c] # NoKey => verdict[c] = "none"

LimiterInv == TypeOK /\ ArmingUnanswered

\* Initially there is no counter and no caller.
LEMMA LimiterInit == Init => LimiterInv
BY RateAssumption DEF Init, LimiterInv, TypeOK, ArmingUnanswered, Verdicts

\* An answer is one of the verdicts.
LEMMA DecideType == \A n : Decide(n) \in Verdicts \ {"none", "unmetered"}
BY DEF Decide, Verdicts

\* Every step keeps the types, and callers unanswered until EXPIRE is over.
LEMMA LimiterStep == LimiterInv /\ [Next]_vars => LimiterInv'
<1> SUFFICES ASSUME LimiterInv, [Next]_vars
             PROVE  LimiterInv'
  OBVIOUS
<1> USE RateAssumption DEF LimiterInv, TypeOK, ArmingUnanswered
<1>0. \A lost \in Lost : lost \in Nat
  BY DEF Lost
<1>1. ASSUME NEW c \in Callers, NEW k \in Keys, NEW lost \in Lost, Incr(c, k, lost)
      PROVE  LimiterInv'
  <2>1. count' \in [Keys -> 0 .. MaxCount]
    BY <1>0, <1>1 DEF Incr
  <2>2. /\ arming' \in [Callers -> Keys \cup {NoKey}]
        /\ verdict' \in [Callers -> Verdicts]
        /\ ArmingUnanswered'
    BY <1>1, DecideType DEF Incr, Verdicts
  <2> QED
    BY <1>1, <2>1, <2>2 DEF Incr, Opened
<1>2. ASSUME NEW c \in Callers, NEW k \in Keys, NEW lost \in Lost, IncrErr(c, k, lost)
      PROVE  LimiterInv'
  <2>1. count' \in [Keys -> 0 .. MaxCount]
    <3>1. count[k] + lost \in 0 .. MaxCount
      BY <1>0, <1>2 DEF IncrErr
    <3> QED
      BY <1>2, <3>1 DEF IncrErr
  <2>2. verdict' \in [Callers -> Verdicts] /\ ArmingUnanswered'
    BY <1>2 DEF IncrErr, Verdicts
  <2> QED
    BY <1>2, <2>1, <2>2 DEF IncrErr, Opened
<1>3. ASSUME NEW c \in Callers, Expire(c) \/ ExpireErr(c)
      PROVE  LimiterInv'
  <2>1. Decide(1) \in Verdicts
    BY DecideType
  <2>2. /\ count' = count /\ arming[c] # NoKey
        /\ arming' = [arming EXCEPT ![c] = NoKey]
        /\ verdict' = [verdict EXCEPT ![c] = Decide(1)]
    BY <1>3 DEF Expire, ExpireErr, Answered
  <2>3. armed' \in [Keys -> BOOLEAN]
    <3>1. (count[arming[c]] > 0) \in BOOLEAN
      OBVIOUS
    <3>2. CASE Expire(c)
      BY <3>1, <3>2, Zenon DEF Expire
    <3>3. CASE ExpireErr(c)
      BY <3>3 DEF ExpireErr
    <3> QED
      BY <1>3, <3>2, <3>3
  <2>4. cut' \subseteq Keys
    BY <1>3 DEF Expire, ExpireErr
  <2> QED
    BY <2>1, <2>2, <2>3, <2>4
<1>4. ASSUME NEW c \in Callers, Crash(c)
      PROVE  LimiterInv'
  BY <1>4 DEF Crash
<1>5. CASE Restart \/ \E k \in Keys : Elapse(k)
  <2>1. count' \in [Keys -> 0 .. MaxCount]
    BY <1>5 DEF Restart, Elapse, Drop
  <2>2. armed' \in [Keys -> BOOLEAN]
    BY <1>5 DEF Restart, Elapse, Drop
  <2>3. arming' = arming /\ verdict' = verdict /\ cut' = cut
    BY <1>5 DEF Restart, Elapse, Drop
  <2> QED
    BY <2>1, <2>2, <2>3
<1>6. CASE UNCHANGED vars
  BY <1>6 DEF vars
<1> QED
  BY <1>1, <1>2, <1>3, <1>4, <1>5, <1>6 DEF Next

\* The limiter's state keeps its types under every fault.
THEOREM LimiterTypes == Spec => []TypeOK
<1>1. LimiterInv => TypeOK
  BY DEF LimiterInv
<1> QED
  BY <1>1, LimiterInit, LimiterStep, PTL DEF Spec

-----------------------------------------------------------------------------
(* Counters get their TTL.                                                  *)

\* Every step keeps a caller for a counter without a TTL, or a fault cuts it.
LEMMA ArmedStep ==
    LimiterInv /\ UnarmedIsTransient /\ [Next]_vars => UnarmedIsTransient'
<1> SUFFICES ASSUME LimiterInv, UnarmedIsTransient, [Next]_vars,
                    NEW x \in Keys, count'[x] > 0, ~armed'[x]
             PROVE  x \in cut' \/ \E c \in Callers : arming'[c] = x
  BY DEF UnarmedIsTransient
<1> USE RateAssumption DEF LimiterInv, TypeOK
<1> DEFINE Goal == x \in cut' \/ \E d \in Callers : arming'[d] = x
<1>0. \A lost \in Lost : lost \in Nat
  BY DEF Lost
<1>1. ASSUME count[x] > 0, ~armed[x]
      PROVE  x \in cut \/ \E c \in Callers : arming[c] = x
  BY <1>1 DEF UnarmedIsTransient
<1>2. ASSUME NEW c \in Callers, NEW k \in Keys, NEW lost \in Lost, Incr(c, k, lost)
      PROVE  Goal
  <2>1. CASE x = k /\ count[k] = 0 /\ lost = 0
    BY <1>2, <2>1 DEF Incr, First
  <2>2. CASE x = k /\ count[k] = 0 /\ lost > 0
    BY <1>2, <2>2 DEF Incr, Opened
  <2>3. CASE ~(x = k /\ count[k] = 0)
    <3>1. count[x] > 0 /\ ~armed[x]
      BY <1>0, <1>2, <2>3 DEF Incr
    <3>2. x \in cut => x \in cut'
      BY <1>2, <2>3, <3>1 DEF Incr, Opened
    <3>3. \A d \in Callers : arming[d] = x => arming'[d] = x
      BY <1>2 DEF Incr
    <3> QED
      BY <1>1, <3>1, <3>2, <3>3
  <2> QED
    BY <1>0, <2>1, <2>2, <2>3
<1>3. ASSUME NEW c \in Callers, NEW k \in Keys, NEW lost \in Lost, IncrErr(c, k, lost)
      PROVE  Goal
  <2>1. CASE x = k /\ count[k] = 0
    BY <1>0, <1>3, <2>1 DEF IncrErr, Opened
  <2>2. CASE ~(x = k /\ count[k] = 0)
    <3>1. count[x] > 0 /\ ~armed[x]
      BY <1>0, <1>3, <2>2 DEF IncrErr
    <3>2. x \in cut => x \in cut'
      BY <1>3, <2>2, <3>1 DEF IncrErr, Opened
    <3> QED
      BY <1>1, <1>3, <3>1, <3>2 DEF IncrErr
  <2> QED
    BY <2>1, <2>2
<1>4. ASSUME NEW c \in Callers, Expire(c)
      PROVE  Goal
  <2>1. arming[c] # x
    BY <1>4 DEF Expire, Answered
  <2>2. count[x] > 0 /\ ~armed[x] /\ cut' = cut
    BY <1>4, <2>1 DEF Expire, Answered
  <2> QED
    BY <1>1, <1>4, <2>1, <2>2 DEF Expire, Answered
<1>5. ASSUME NEW c \in Callers, ExpireErr(c) \/ Crash(c)
      PROVE  Goal
  <2>1. /\ cut' = cut \cup {arming[c]} /\ count' = count /\ armed' = armed
        /\ arming' = [arming EXCEPT ![c] = NoKey]
    BY <1>5 DEF ExpireErr, Crash, Answered
  <2> QED
    BY <1>1, <2>1
<1>6. CASE Restart \/ \E k \in Keys : Elapse(k)
  BY <1>1, <1>6 DEF Restart, Elapse, Drop
<1>7. CASE UNCHANGED vars
  BY <1>1, <1>7 DEF vars
<1> QED
  BY <1>2, <1>3, <1>4, <1>5, <1>6, <1>7 DEF Next

\* A counter without a TTL has a caller that is about to set it, unless a lost
\* reply, a failed EXPIRE or a dead caller cut its window: for any number of
\* callers and keys.
THEOREM CountersGetArmed == Spec => []UnarmedIsTransient
<1>1. Init => UnarmedIsTransient
  BY DEF Init, UnarmedIsTransient
<1> QED
  BY <1>1, LimiterInit, LimiterStep, ArmedStep, PTL DEF Spec

-----------------------------------------------------------------------------
(* The limiter implements FixedWindow.                                      *)

\* The initial state is one of FixedWindow.
LEMMA QuotaInit == Init => Quota!FWInit
BY RateAssumption DEF Init, Quota!FWInit, Used, Verdict

\* The counter after an INCR that answers n takes its unit, or finds none left.
LEMMA QuotaIncr ==
    ASSUME LimiterInv, NEW c \in Callers, NEW k \in Keys, NEW lost \in Lost,
           Incr(c, k, lost)
    PROVE  Quota!FWNext
<1> USE RateAssumption DEF LimiterInv, TypeOK
<1> DEFINE n == count[k] + lost + 1
<1>0. lost \in Nat /\ n \in Nat /\ count[k] \in Nat /\ count[k] < n /\ n >= 1
  BY DEF Lost
<1>1. count' = [count EXCEPT ![k] = n]
  BY DEF Incr
<1>2. Verdict' = [Verdict EXCEPT ![c] = Decide(n)]
  <2>1. CASE n = 1
    <3>1. /\ arming' = [arming EXCEPT ![c] = k]
          /\ verdict' = [verdict EXCEPT ![c] = "none"]
      BY <2>1 DEF Incr, First
    <3> QED
      BY <2>1, <3>1 DEF Verdict
  <2>2. CASE n # 1
    <3>1. /\ verdict' = [verdict EXCEPT ![c] = Decide(n)]
          /\ arming' = arming /\ arming[c] = NoKey
      BY <2>2 DEF Incr, First
    <3> QED
      BY <3>1 DEF Verdict
  <2> QED
    BY <2>1, <2>2
<1>3. CASE n <= Limit
  <2>1. Used' = [Used EXCEPT ![k] = n]
    BY <1>1, <1>3 DEF Used
  <2>2. Used[k] < n
    BY <1>0, <1>3 DEF Used
  <2>3. Decide(n) = "granted"
    BY <1>3 DEF Decide, Within
  <2>4. Quota!Grant(c, k, n)
    BY <1>2, <1>3, <2>1, <2>2, <2>3 DEF Quota!Grant
  <2> QED
    BY <1>0, <1>3, <2>4 DEF Quota!FWNext
<1>4. CASE ~(n <= Limit)
  <2>1. Used' = [Used EXCEPT ![k] = Limit]
    BY <1>0, <1>1, <1>4 DEF Used
  <2>2. Decide(n) = "refused"
    BY <1>4 DEF Decide, Within
  <2>3. Quota!Refuse(c, k)
    BY <1>2, <2>1, <2>2 DEF Quota!Refuse
  <2> QED
    BY <2>3 DEF Quota!FWNext
<1> QED
  BY <1>3, <1>4

\* An INCR that ends in an error leaves its caller unmetered.
LEMMA QuotaIncrErr ==
    ASSUME LimiterInv, NEW c \in Callers, NEW k \in Keys, NEW lost \in Lost,
           IncrErr(c, k, lost)
    PROVE  Quota!FWNext
<1> USE RateAssumption DEF LimiterInv, TypeOK
<1> DEFINE n == count[k] + lost
           u == IF n <= Limit THEN n ELSE Limit
<1>0. lost \in Nat /\ count[k] \in Nat
  BY DEF Lost
<1>1. Used' = [Used EXCEPT ![k] = u] /\ Used[k] <= u /\ u \in 0 .. Limit
  <2>1. count' = [count EXCEPT ![k] = n]
    BY DEF IncrErr
  <2>2. Used' = [Used EXCEPT ![k] = u]
    BY <2>1 DEF Used
  <2>3. Used[k] <= u /\ u \in 0 .. Limit
    BY <1>0 DEF Used
  <2> QED
    BY <2>2, <2>3
<1>2. Verdict' = [Verdict EXCEPT ![c] = "unmetered"]
  BY DEF IncrErr, Verdict
<1>3. Quota!Unmetered(c, k, u)
  BY <1>1, <1>2 DEF Quota!Unmetered
<1> QED
  BY <1>1, <1>3 DEF Quota!FWNext

\* Every step of the limiter is a step of FixedWindow or changes nothing of it.
LEMMA QuotaStep == LimiterInv /\ [Next]_vars => [Quota!FWNext]_(Quota!fwVars)
<1> SUFFICES ASSUME LimiterInv, [Next]_vars
             PROVE  Quota!FWNext \/ (Used' = Used /\ Verdict' = Verdict)
  BY DEF Quota!fwVars
<1> USE RateAssumption DEF LimiterInv, TypeOK
<1>1. CASE \E c \in Callers, k \in Keys, lost \in Lost : Incr(c, k, lost)
  BY <1>1, QuotaIncr
<1>2. CASE \E c \in Callers, k \in Keys, lost \in Lost : IncrErr(c, k, lost)
  BY <1>2, QuotaIncrErr
<1>3. ASSUME NEW c \in Callers, Expire(c) \/ ExpireErr(c)
      PROVE  Used' = Used /\ Verdict' = Verdict
  <2>1. /\ count' = count /\ arming[c] # NoKey
        /\ arming' = [arming EXCEPT ![c] = NoKey]
        /\ verdict' = [verdict EXCEPT ![c] = Decide(1)]
    BY <1>3 DEF Expire, ExpireErr, Answered
  <2> QED
    BY <2>1 DEF Used, Verdict
<1>4. ASSUME NEW c \in Callers, Crash(c)
      PROVE  Quota!Forget(c)
  <2>1. verdict[c] = "none"
    BY <1>4 DEF ArmingUnanswered, Crash
  <2>2. Verdict' = [Verdict EXCEPT ![c] = "none"]
    BY <1>4, <2>1 DEF Crash, Verdict
  <2>3. Used' = Used
    BY <1>4 DEF Crash, Used
  <2> QED
    BY <2>2, <2>3 DEF Quota!Forget
<1>5. ASSUME NEW k \in Keys, Elapse(k)
      PROVE  Quota!Renew({k})
  BY <1>5 DEF Elapse, Drop, Quota!Renew, Used, Verdict
<1>6. ASSUME Restart
      PROVE  Quota!Renew(Keys)
  BY <1>6 DEF Restart, Quota!Renew, Used, Verdict
<1>7. CASE UNCHANGED vars
  BY <1>7 DEF vars, Used, Verdict
<1> QED
  BY <1>1, <1>2, <1>3, <1>4, <1>5, <1>6, <1>7 DEF Next, Quota!FWNext

\* INCR and EXPIRE as separate steps, under every fault, implement the quota of
\* FixedWindow: no grant beyond the limit, no refusal before it is used up.
THEOREM LimiterImplementsQuota == Spec => QuotaKept
BY LimiterInit, LimiterStep, QuotaInit, QuotaStep, PTL DEF Spec, QuotaKept, Quota!FWSpec

=============================================================================
