--------------------------- MODULE ProviderProofs ---------------------------
(***************************************************************************)
(* Proofs about Provider, for any answers of the service: the five calls    *)
(* implement the atomic Fetch of Ingestion, so that every theorem about     *)
(* Ingestion holds of the pipeline with this client, an Ingest works on the *)
(* whole of its own fetch, what it stores was sent and what was sent to it  *)
(* is stored.  The last two rest on what ORDER BY returns, which is shown   *)
(* by counting instead of by induction.                                     *)
(***************************************************************************)
EXTENDS Provider, IngestionProofs, SequenceTheorems

\* The stages after a fetch that succeeded.
Later == Stages \ {"fetch", "fail"}

Accepted == UNION {AcceptedBy(i) : i \in 1 .. 5}

\* The answers a process holds are accepted ones, of its endpoints in order.
GotType ==
    /\ got \in [Procs -> Seq(Accepted)]
    /\ \A w \in Procs : Len(got[w]) <= 5 /\ (pc[w] = "fetch" => Len(got[w]) <= 4)

ProviderInv == TypeInv /\ GotType /\ FetchedWhole

-----------------------------------------------------------------------------
(* What one step does to the stage and the snapshot of each process.        *)

\* A step of a process concerns nobody else; between the fetch and the end of an
\* Ingest it keeps the snapshot.
LEMMA Local ==
    ASSUME TypeInv, NEW w \in Procs, ProcStep(w), pc[w] # "fetch"
    PROVE  /\ \A v \in Procs \ {w} : pc'[v] = pc[v] /\ run'[v] = run[v]
           /\ pc'[w] \in Later => pc[w] \in Later /\ run'[w].snap = run[w].snap
           /\ pc'[w] \in Later \cup {"fetch", "fail", "loop", "down"}
<1> USE DEF TypeInv, TypeOK, ProcTypeOK, Later, Stages, Tables, Kinds
<1>0. /\ pc \in [Procs -> {"down", "loop"} \cup Stages]
      /\ run \in [Procs -> RunType]
  OBVIOUS
<1>1. CASE Skip(w) \/ Reject(w)
  BY <1>1 DEF Skip, Reject
<1>2. CASE Begin(w) \/ Exit(w)
  BY <1>2 DEF Begin, Exit
<1>3. CASE FetchErr(w) \/ \E sn \in Snapshots : Fetch(w, sn)
  BY <1>3 DEF FetchErr, Fetch
<1>4. CASE UpsertCompany(w) \/ \E applied \in BOOLEAN : UpsertCompanyErr(w, applied)
  BY <1>4 DEF UpsertCompany, UpsertCompanyErr, Goto
<1>5. ASSUME NEW t \in Tables, Insert(w, t)
      PROVE  /\ \A v \in Procs \ {w} : pc'[v] = pc[v] /\ run'[v] = run[v]
             /\ pc[w] \in Later /\ run'[w].snap = run[w].snap /\ pc'[w] \in Later
  <2>1. /\ pc[w] = t /\ run' = [run EXCEPT ![w].ins[t] = Added(w, t)]
        /\ pc' = [pc EXCEPT ![w] = After(t, run[w].snap)]
    BY <1>5 DEF Insert, Goto
  <2>2. After(t, run[w].snap) \in Stages \ {"fetch", "fail"}
    BY AfterStage
  <2> QED
    BY <2>1, <2>2 DEF RunType
<1>6. CASE \E t \in Tables, applied \in BOOLEAN : InsertErr(w, t, applied)
  BY <1>6 DEF InsertErr, Goto
<1>7. CASE \/ RecordFailure(w)
           \/ \E applied \in BOOLEAN :
                 RecordSuccessErr(w, applied) \/ RecordFailureErr(w, applied)
  BY <1>7 DEF RecordFailure, RecordSuccessErr, RecordFailureErr, Return
<1>8. CASE RecordSuccess(w)
  BY <1>8 DEF RecordSuccess, Goto, Return
<1>9. CASE \E kind \in Kinds, applied \in BOOLEAN : Purge(w, kind, applied)
  BY <1>9 DEF Purge, Goto, Return
<1> QED
  BY <1>1, <1>2, <1>3, <1>4, <1>5, <1>6, <1>7, <1>8, <1>9 DEF ProcStep, QuietStep

\* So does a step of a process's environment, which never starts a fetch.
LEMMA EnvLocal ==
    ASSUME TypeInv, NEW w \in Procs, EnvStep(w)
    PROVE  /\ \A v \in Procs \ {w} : pc'[v] = pc[v] /\ run'[v] = run[v]
           /\ pc'[w] \in Later => pc[w] \in Later /\ run'[w].snap = run[w].snap
           /\ pc'[w] = "fetch" => pc[w] = "fetch"
<1> USE DEF TypeInv, TypeOK, ProcTypeOK, Later, Stages, Tables, Kinds
<1>1. CASE \E list \in ArgLists : Launch(w, list)
  BY <1>1 DEF Launch
<1>2. CASE Deadline(w) \/ Crash(w)
  BY <1>2 DEF Deadline, Crash
<1> QED
  BY <1>1, <1>2 DEF EnvStep

-----------------------------------------------------------------------------
(* The calls.                                                               *)

\* Five accepted answers make one of the snapshots Ingestion is about.
LEMMA SnapshotKnown ==
    ASSUME NEW s, \A i \in 1 .. 5 : s[i] \in AcceptedBy(i)
    PROVE  SnapshotOf(s) \in Snapshots
<1>1. /\ s[1] \in AcceptedBy(1) /\ s[2] \in AcceptedBy(2) /\ s[3] \in AcceptedBy(3)
      /\ s[4] \in AcceptedBy(4) /\ s[5] \in AcceptedBy(5)
  OBVIOUS
<1>2. SnapshotOf(<<s[1], s[2], s[3], s[4], s[5]>>) \in Snapshots
  BY <1>1, ProviderAssumption
<1>3. SnapshotOf(<<s[1], s[2], s[3], s[4], s[5]>>) = SnapshotOf(s)
  BY DEF SnapshotOf
<1> QED
  BY <1>2, <1>3

\* Bounded naturals.
LEMMA UpToFour ==
    ASSUME NEW n \in Nat, n <= 4
    PROVE  n \in 0 .. 4 /\ (n < 4 \/ n = 4)
OBVIOUS

\* A process that fetches holds at most four answers.
LEMMA HeldLength ==
    ASSUME ProviderInv, NEW w \in Procs, pc[w] = "fetch"
    PROVE  /\ got[w] \in Seq(Accepted) /\ Len(got[w]) \in 0 .. 4
           /\ Len(got[w]) < 4 \/ Len(got[w]) = 4
<1>1. got[w] \in Seq(Accepted) /\ Len(got[w]) <= 4
  BY DEF ProviderInv, GotType
<1>2. Len(got[w]) \in Nat
  BY <1>1, LenProperties
<1>3. Len(got[w]) \in 0 .. 4 /\ (Len(got[w]) < 4 \/ Len(got[w]) = 4)
  BY <1>1, <1>2, UpToFour
<1> QED
  BY <1>1, <1>3

\* An accepted answer extends what the process holds by the next endpoint's.
LEMMA CallHolds ==
    ASSUME ProviderInv, NEW w \in Procs, pc[w] = "fetch", NEW a \in MayAnswer(w), Call(w, a)
    PROVE  /\ got' = [got EXCEPT ![w] = Append(got[w], a)]
           /\ got' \in [Procs -> Seq(Accepted)]
           /\ Len(got'[w]) = Len(got[w]) + 1
           /\ \A i \in 1 .. Len(got'[w]) : got'[w][i] \in AcceptedBy(i)
<1> USE DEF ProviderInv, GotType
<1>1. got[w] \in Seq(Accepted) /\ Len(got[w]) \in 0 .. 4
  BY HeldLength
<1>2. a \in AcceptedBy(Len(got[w]) + 1)
  BY DEF Call, MayAnswer, AcceptedBy
<1>3. a \in Accepted
  <2>1. Len(got[w]) + 1 \in 1 .. 5
    BY <1>1
  <2> QED
    BY <1>2, <2>1 DEF Accepted
<1>4. got' = [got EXCEPT ![w] = Append(got[w], a)]
  BY DEF Call
<1>5. Append(got[w], a) \in Seq(Accepted) /\ Len(Append(got[w], a)) = Len(got[w]) + 1
  BY <1>1, <1>3
<1>6. \A i \in 1 .. Len(got[w]) : got[w][i] \in AcceptedBy(i)
  BY DEF FetchedWhole
<1>7. \A i \in 1 .. Len(got[w]) + 1 : Append(got[w], a)[i] \in AcceptedBy(i)
  BY <1>1, <1>2, <1>3, <1>6
<1> QED
  BY <1>1, <1>4, <1>5, <1>7

\* The first four calls are no step of Ingestion, the fifth is its Fetch.
LEMMA CallIsFetch ==
    ASSUME ProviderInv, NEW w \in Procs, pc[w] = "fetch", NEW a \in MayAnswer(w), Call(w, a)
    PROVE  \/ Len(got[w]) < 4 /\ UNCHANGED ingestVars
           \/ /\ Len(got[w]) = 4 /\ Fetch(w, SnapshotOf(got'[w]))
              /\ SnapshotOf(got'[w]) \in Snapshots
<1>1. CASE Len(got[w]) < 4
  BY <1>1 DEF Call
<1>2. CASE ~(Len(got[w]) < 4)
  <2>1. Len(got[w]) = 4
    BY <1>2, HeldLength
  <2>2. \A i \in 1 .. 5 : got'[w][i] \in AcceptedBy(i)
    <3>1. /\ Len(got'[w]) = Len(got[w]) + 1
          /\ \A i \in 1 .. Len(got'[w]) : got'[w][i] \in AcceptedBy(i)
      BY CallHolds
    <3>2. Len(got'[w]) = 5
      BY <2>1, <3>1
    <3> QED
      BY <3>1, <3>2
  <2>3. SnapshotOf(got'[w]) \in Snapshots
    BY <2>2, SnapshotKnown
  <2> QED
    BY <1>2, <2>1, <2>3 DEF Call
<1> QED
  BY <1>1, <1>2

\* A step of the pipeline with this client is a step of Ingestion, or none.
LEMMA Refines ==
    ProviderInv /\ [ProviderNext]_providerVars => [Next]_ingestVars
<1> SUFFICES ASSUME ProviderInv, [ProviderNext]_providerVars
             PROVE  [Next]_ingestVars
  OBVIOUS
<1>1. ASSUME NEW w \in Procs, BeginFetch(w)
      PROVE  Next
  BY <1>1 DEF BeginFetch, Next, ProcStep, QuietStep
<1>2. ASSUME NEW w \in Procs, pc[w] = "fetch", NEW a \in MayAnswer(w), Call(w, a)
      PROVE  [Next]_ingestVars
  BY <1>2, CallIsFetch DEF Next, ProcStep, QuietStep
<1>3. ASSUME NEW w \in Procs, CallErr(w)
      PROVE  Next
  BY <1>3 DEF CallErr, Next, ProcStep, QuietStep
<1>4. ASSUME NEW w \in Procs, ProcStep(w) \/ EnvStep(w)
      PROVE  Next
  BY <1>4 DEF Next
<1>5. CASE UNCHANGED providerVars
  BY <1>5 DEF providerVars
<1> QED
  BY <1>1, <1>2, <1>3, <1>4, <1>5 DEF ProviderNext, ProviderStep

-----------------------------------------------------------------------------
(* The invariant.                                                           *)

\* Initially nothing is fetched and nothing runs.
LEMMA ProviderInvInit == ProviderInit => ProviderInv
<1> SUFFICES ASSUME ProviderInit PROVE ProviderInv
  OBVIOUS
<1>1. TypeInv
  BY TypeInit DEF ProviderInit
<1>2. \A w \in Procs : got[w] = <<>> /\ pc[w] = "down"
  BY DEF ProviderInit, Init
<1>3. GotType
  BY <1>2 DEF ProviderInit, GotType
<1>4. FetchedWhole
  BY <1>2 DEF FetchedWhole, Stages, Tables, Kinds
<1> QED
  BY <1>1, <1>3, <1>4 DEF ProviderInv

\* Steps that leave the answers alone keep them in agreement with the snapshot.
LEMMA SameAnswers ==
    ASSUME ProviderInv, NEW w \in Procs, got' = got,
           \A v \in Procs \ {w} : pc'[v] = pc[v] /\ run'[v] = run[v],
           pc'[w] \in Later => pc[w] \in Later /\ run'[w].snap = run[w].snap,
           pc'[w] = "fetch" => pc[w] = "fetch"
    PROVE  GotType' /\ FetchedWhole'
<1> USE DEF ProviderInv, GotType, Later
<1>1. GotType'
  OBVIOUS
<1>2. \A v \in Procs : pc'[v] \in Stages \ {"fetch", "fail"} =>
         pc[v] \in Stages \ {"fetch", "fail"} /\ run'[v].snap = run[v].snap
  OBVIOUS
<1>3. FetchedWhole'
  BY <1>2 DEF FetchedWhole
<1> QED
  BY <1>1, <1>3

\* So do the calls: the snapshot is made of the five answers of this fetch.
LEMMA CallKeeps ==
    ASSUME ProviderInv, NEW w \in Procs, pc[w] = "fetch", NEW a \in MayAnswer(w), Call(w, a)
    PROVE  GotType' /\ FetchedWhole'
<1> USE DEF ProviderInv, GotType
<1> DEFINE snap == SnapshotOf(got'[w])
<1>1. /\ got' = [got EXCEPT ![w] = Append(got[w], a)]
      /\ got' \in [Procs -> Seq(Accepted)]
      /\ Len(got'[w]) = Len(got[w]) + 1
      /\ \A i \in 1 .. Len(got'[w]) : got'[w][i] \in AcceptedBy(i)
  BY CallHolds
<1>2. pc \in [Procs -> {"down", "loop"} \cup Stages] /\ run \in [Procs -> RunType]
  BY DEF TypeInv, TypeOK, ProcTypeOK
<1>3. \A v \in Procs \ {w} : pc'[v] = pc[v] /\ run'[v] = run[v] /\ got'[v] = got[v]
  <2>1. CASE UNCHANGED ingestVars
    BY <1>1, <2>1 DEF ingestVars
  <2>2. CASE Fetch(w, snap)
    BY <1>1, <1>2, <2>2 DEF Fetch, Goto
  <2> QED
    BY <2>1, <2>2, CallIsFetch
<1>4. CASE Len(got[w]) < 4
  <2>1. pc' = pc /\ run' = run
    BY <1>4 DEF Call, ingestVars
  <2>2. GotType'
    BY <1>1, <1>3, <1>4, <2>1
  <2>3. FetchedWhole'
    BY <1>1, <1>3, <2>1 DEF FetchedWhole
  <2> QED
    BY <2>2, <2>3
<1>5. CASE Len(got[w]) = 4 /\ Fetch(w, snap)
  <2>1. pc'[w] = "company" /\ run'[w].snap = snap
    BY <1>2, <1>5 DEF Fetch, Goto, RunType
  <2>2. GotType'
    BY <1>1, <1>3, <1>5, <2>1
  <2>3. FetchedWhole'
    BY <1>1, <1>3, <1>5, <2>1 DEF FetchedWhole
  <2> QED
    BY <2>2, <2>3
<1> QED
  BY <1>4, <1>5, CallIsFetch

\* Every step keeps the invariant.
LEMMA ProviderInvStep ==
    ProviderInv /\ [ProviderNext]_providerVars => ProviderInv'
<1> SUFFICES ASSUME ProviderInv, [ProviderNext]_providerVars
             PROVE  GotType' /\ FetchedWhole'
  BY Refines, TypeStep DEF ProviderInv
<1> USE DEF ProviderInv
<1>1. ASSUME NEW w \in Procs, BeginFetch(w)
      PROVE  GotType' /\ FetchedWhole'
  <2>1. /\ got' = [got EXCEPT ![w] = <<>>]
        /\ pc' = [pc EXCEPT ![w] = "fetch"]
        /\ run' = [run EXCEPT ![w].sym = Item(w)]
    BY <1>1 DEF BeginFetch, Begin
  <2>2. pc \in [Procs -> {"down", "loop"} \cup Stages] /\ run \in [Procs -> RunType]
    BY DEF TypeInv, TypeOK, ProcTypeOK
  <2>3. GotType'
    BY <2>1, <2>2 DEF GotType
  <2>4. FetchedWhole'
    BY <2>1, <2>2 DEF FetchedWhole, GotType
  <2> QED
    BY <2>3, <2>4
<1>2. ASSUME NEW w \in Procs, pc[w] = "fetch", NEW a \in MayAnswer(w), Call(w, a)
      PROVE  GotType' /\ FetchedWhole'
  BY <1>2, CallKeeps
<1>3. ASSUME NEW w \in Procs, CallErr(w)
      PROVE  GotType' /\ FetchedWhole'
  <2>1. pc \in [Procs -> {"down", "loop"} \cup Stages]
    BY DEF TypeInv, TypeOK, ProcTypeOK
  <2>2. got' = got /\ run' = run /\ pc' = [pc EXCEPT ![w] = "fail"]
    BY <1>3 DEF CallErr, FetchErr, Goto
  <2> QED
    BY <2>1, <2>2, SameAnswers DEF Later
<1>4. ASSUME NEW w \in Procs, ProcStep(w), pc[w] # "fetch", pc'[w] # "fetch", got' = got
      PROVE  GotType' /\ FetchedWhole'
  BY <1>4, Local, SameAnswers
<1>5. ASSUME NEW w \in Procs, EnvStep(w), got' = got
      PROVE  GotType' /\ FetchedWhole'
  BY <1>5, EnvLocal, SameAnswers
<1>6. CASE UNCHANGED providerVars
  BY <1>6 DEF providerVars, ingestVars, GotType, FetchedWhole
<1> QED
  BY <1>1, <1>2, <1>3, <1>4, <1>5, <1>6 DEF ProviderNext, ProviderStep

-----------------------------------------------------------------------------
(* The fetch is whole, and is the atomic Fetch.                             *)

\* An Ingest works on the answers to all five calls of its own fetch, none of
\* which was an error, whatever the service answers.
THEOREM SnapshotIsWholeFetch == ProviderSpec => []FetchedWhole
<1>1. ProviderInv => FetchedWhole
  BY DEF ProviderInv
<1> QED
  BY <1>1, ProviderInvInit, ProviderInvStep, PTL DEF ProviderSpec

\* The five calls of FetchCompanySnapshot implement the atomic Fetch: what is
\* proved of Ingestion for any set of snapshots holds of the pipeline with this
\* client.
THEOREM ClientImplementsFetch == ProviderSpec => ImplementsFetch
<1>1. ProviderInit => Init
  BY DEF ProviderInit
<1> QED
  BY <1>1, ProviderInvInit, ProviderInvStep, Refines, PTL
  DEF ProviderSpec, ImplementsFetch, Spec

-----------------------------------------------------------------------------
(* What the client makes of a payload.                                      *)

\* The prices of the snapshot are the dated records of the time series.
LEMMA DailyPrices ==
    ASSUME NEW a \in AcceptedBy(2)
    PROVE  /\ \A k \in DOMAIN fetchDailyPrices(a.data) :
                 \E rec \in Decoded(a.data, {}) : fetchDailyPrices(a.data)[k] = parsePrice(rec)
           /\ \A rec \in Decoded(a.data, {}) : rec.date # Unparsable =>
                 \E k \in DOMAIN fetchDailyPrices(a.data) :
                     fetchDailyPrices(a.data)[k] = parsePrice(rec)
<1> DEFINE recs == Decoded(a.data, {})
           dated == {rec \in recs : rec.date # Unparsable}
           S == {parsePrice(rec) : rec \in dated}
           f == [rec \in dated |-> parsePrice(rec)]
           d == [x \in S |-> x.date]
           s == fetchDailyPrices(a.data)
<1>1. s = [k \in 1 .. Cardinality(S) |->
             CHOOSE x \in S : Cardinality({y \in S : y.date < x.date}) = k - 1]
  BY DEF fetchDailyPrices, OrderBy
<1>2. /\ IsFiniteSet(recs)
      /\ \A x, y \in recs : x.date # Unparsable =>
            x.date \in Int /\ (x.date = y.date => x = y)
  BY PayloadAssumption
<1> HIDE DEF recs
<1>3. \A rec : parsePrice(rec).date = rec.date
  BY DEF parsePrice
<1>4. IsFiniteSet(dated)
  BY <1>2, dated \in SUBSET recs, FS_Subset
<1>5. IsFiniteSet(S)
  <2>1. f \in Surjection(dated, S)
    BY DEF Surjection
  <2> QED
    BY <1>4, <2>1, FS_Surjection
<1>6. \A x \in S : x.date \in Int
  BY <1>2, <1>3
<1>7. \A x, y \in S : x.date = y.date => x = y
  BY <1>2, <1>3
<1> HIDE DEF S, s
<1>8. d \in [S -> Int] /\ \A x, y \in S : d[x] = d[y] => x = y
  BY <1>6, <1>7
<1>9. \A x \in S : Preceding(S, d, x) = {y \in S : y.date < x.date}
  BY DEF Preceding
<1> HIDE DEF d
<1>10. Listing(s, S, d)
  <2>1. ASSUME NEW k \in 1 .. Cardinality(S)
        PROVE  s[k] \in S /\ Cardinality(Preceding(S, d, s[k])) = k - 1
    <3>1. \E x \in S : Cardinality(Preceding(S, d, x)) = k - 1
      BY <1>5, <1>8, PlacesTaken
    <3>2. \E x \in S : Cardinality({y \in S : y.date < x.date}) = k - 1
      BY <1>9, <3>1
    <3>3. s[k] = CHOOSE x \in S : Cardinality({y \in S : y.date < x.date}) = k - 1
      BY <1>1
    <3>4. s[k] \in S /\ Cardinality({y \in S : y.date < s[k].date}) = k - 1
      BY <3>2, <3>3
    <3> QED
      BY <1>9, <3>4
  <2>2. s \in [1 .. Cardinality(S) -> S]
    BY <1>1, <2>1
  <2> QED
    BY <2>1, <2>2 DEF Listing
<1>11. /\ s \in [1 .. Cardinality(S) -> S]
       /\ \A x \in S : \E k \in 1 .. Cardinality(S) : s[k] = x
  <2>1. \A x \in S : \E k \in 1 .. Cardinality(S) : s[k] = x
    BY <1>5, <1>8, <1>10, ListsAll
  <2>2. s \in [1 .. Cardinality(S) -> S]
    BY <1>10 DEF Listing
  <2> QED
    BY <2>1, <2>2
<1>12. DOMAIN s = 1 .. Cardinality(S)
  BY <1>11
<1>13. \A k \in DOMAIN s : \E rec \in recs : s[k] = parsePrice(rec)
  BY <1>11, <1>12 DEF S
<1>14. \A rec \in recs : rec.date # Unparsable => \E k \in DOMAIN s : s[k] = parsePrice(rec)
  BY <1>11, <1>12 DEF S
<1> QED
  BY <1>13, <1>14 DEF recs, s

\* Every report of an array that decodes and has a date is parsed.
LEMMA ParsedReports ==
    ASSUME NEW recs, Len(recs) \in Nat, DOMAIN recs = 1 .. Len(recs), NEW period,
           NEW T, \A j \in DOMAIN recs : parseStatement(recs[j], period) \in T
    PROVE  /\ parseAll(recs, period) \in Seq(T)
           /\ \A j \in DOMAIN recs : Parses(recs[j]) =>
                 \E k \in 1 .. Len(parseAll(recs, period)) :
                     parseAll(recs, period)[k] = parseStatement(recs[j], period)
<1> DEFINE S == {j \in DOMAIN recs : Parses(recs[j])}
           n == Cardinality(S)
           d == [x \in S |-> x]
           order == [k \in 1 .. n |->
                       CHOOSE x \in S : Cardinality({y \in S : y < x}) = k - 1]
           s == parseAll(recs, period)
<1>1. s = [k \in 1 .. n |-> parseStatement(recs[order[k]], period)]
  BY DEF parseAll, OrderBy
<1>2. \A j \in S : j \in 1 .. Len(recs) /\ j \in DOMAIN recs
  OBVIOUS
<1>3. \A j \in DOMAIN recs : Parses(recs[j]) => j \in S
  OBVIOUS
<1> HIDE DEF S, s
<1>4. IsFiniteSet(S)
  <2>1. IsFiniteSet(1 .. Len(recs))
    BY FS_Interval
  <2> QED
    BY <1>2, <2>1, S \in SUBSET (1 .. Len(recs)), FS_Subset
<1>5. d \in [S -> Int] /\ \A x, y \in S : d[x] = d[y] => x = y
  BY <1>2
<1>6. \A x \in S : Preceding(S, d, x) = {y \in S : y < x}
  BY DEF Preceding
<1> HIDE DEF d
<1>7. Listing(order, S, d)
  <2>1. ASSUME NEW k \in 1 .. n
        PROVE  order[k] \in S /\ Cardinality(Preceding(S, d, order[k])) = k - 1
    <3>1. \E x \in S : Cardinality(Preceding(S, d, x)) = k - 1
      BY <1>4, <1>5, PlacesTaken
    <3>2. \E x \in S : Cardinality({y \in S : y < x}) = k - 1
      BY <1>6, <3>1
    <3>3. order[k] = CHOOSE x \in S : Cardinality({y \in S : y < x}) = k - 1
      OBVIOUS
    <3> HIDE DEF order
    <3>4. order[k] \in S /\ Cardinality({y \in S : y < order[k]}) = k - 1
      BY <3>2, <3>3
    <3> QED
      BY <1>6, <3>4
  <2>2. order \in [1 .. n -> S]
    BY <2>1
  <2> QED
    BY <2>1, <2>2 DEF Listing
<1> HIDE DEF order
<1>8. /\ n \in Nat /\ order \in [1 .. n -> S]
      /\ \A x \in S : \E k \in 1 .. n : order[k] = x
  <2>1. \A x \in S : \E k \in 1 .. n : order[k] = x
    BY <1>4, <1>5, <1>7, ListsAll
  <2>2. n \in Nat
    BY <1>4, FS_CardinalityType
  <2>3. order \in [1 .. n -> S]
    BY <1>7 DEF Listing
  <2> QED
    BY <2>1, <2>2, <2>3
<1> HIDE DEF n
<1>9. s \in [1 .. n -> T]
  BY <1>1, <1>2, <1>8
<1>10. s \in Seq(T) /\ Len(s) = n
  BY <1>8, <1>9
<1>11. \A j \in DOMAIN recs : Parses(recs[j]) =>
          \E k \in 1 .. n : s[k] = parseStatement(recs[j], period)
  BY <1>1, <1>3, <1>8
<1> QED
  BY <1>10, <1>11 DEF s

\* The statements of the snapshot hold every report that parses, annual or quarterly.
LEMMA Statements ==
    ASSUME NEW i \in 3 .. 5, NEW a \in AcceptedBy(i), NEW part \in {"annual", "quarterly"},
           NEW j \in DOMAIN Decoded(a.data, NoReports)[part],
           Parses(Decoded(a.data, NoReports)[part][j])
    PROVE  \E k \in DOMAIN fetchStatements(a.data) :
              fetchStatements(a.data)[k] =
                 parseStatement(Decoded(a.data, NoReports)[part][j], part)
<1> DEFINE raw == Decoded(a.data, NoReports)
           ann == parseAll(raw.annual, "annual")
           qua == parseAll(raw.quarterly, "quarterly")
           T == {parseStatement(raw.annual[m], "annual") : m \in DOMAIN raw.annual}
                \cup {parseStatement(raw.quarterly[m], "quarterly") : m \in DOMAIN raw.quarterly}
           s == fetchStatements(a.data)
           it == parseStatement(raw[part][j], part)
<1>1. s = ann \o qua
  BY DEF fetchStatements
<1>2. /\ Len(raw.annual) \in Nat /\ DOMAIN raw.annual = 1 .. Len(raw.annual)
      /\ Len(raw.quarterly) \in Nat /\ DOMAIN raw.quarterly = 1 .. Len(raw.quarterly)
  BY PayloadAssumption
<1>3. /\ \A m \in DOMAIN raw.annual : parseStatement(raw.annual[m], "annual") \in T
      /\ \A m \in DOMAIN raw.quarterly : parseStatement(raw.quarterly[m], "quarterly") \in T
  OBVIOUS
<1> HIDE DEF raw, T
<1>4. /\ ann \in Seq(T)
      /\ \A m \in DOMAIN raw.annual : Parses(raw.annual[m]) =>
            \E k \in 1 .. Len(ann) : ann[k] = parseStatement(raw.annual[m], "annual")
  BY <1>2, <1>3, ParsedReports
<1>5. /\ qua \in Seq(T)
      /\ \A m \in DOMAIN raw.quarterly : Parses(raw.quarterly[m]) =>
            \E k \in 1 .. Len(qua) : qua[k] = parseStatement(raw.quarterly[m], "quarterly")
  BY <1>2, <1>3, ParsedReports
<1> HIDE DEF ann, qua, s
<1>6. /\ \A k \in 1 .. Len(ann) : k \in DOMAIN s /\ s[k] = ann[k]
      /\ \A k \in 1 .. Len(qua) : Len(ann) + k \in DOMAIN s /\ s[Len(ann) + k] = qua[k]
  BY <1>1, <1>4, <1>5
<1> HIDE DEF it
<1>7. CASE part = "annual"
  <2>1. PICK k \in 1 .. Len(ann) : ann[k] = it
    BY <1>4, <1>7 DEF raw, it
  <2>2. k \in DOMAIN s /\ s[k] = it
    BY <1>6, <2>1
  <2> QED
    BY <2>2 DEF s, raw, it
<1>8. CASE part = "quarterly"
  <2>1. PICK k \in 1 .. Len(qua) : qua[k] = it
    BY <1>5, <1>8 DEF raw, it
  <2>2. Len(ann) + k \in DOMAIN s /\ s[Len(ann) + k] = it
    BY <1>6, <2>1
  <2> QED
    BY <2>2 DEF s, raw, it
<1> QED
  BY <1>7, <1>8

-----------------------------------------------------------------------------
(* What is stored was sent.                                                 *)

\* A price some record of the service accounts for.
SentAs(rec, p) ==
    /\ rec.date = p.date
    /\ \A f \in PriceFigures : rec[f] # Unparsable /\ Numeric(rec[f]) = p[f]
    /\ p.volume = Int64(parseNum(rec.volume))

\* A record whose parsed price is valid has readable prices: an unreadable one
\* parses to zero.
LEMMA ValidIsReadable ==
    ASSUME NEW rec, ValidPrice(parsePrice(rec))
    PROVE  SentAs(rec, Stored("prices", parsePrice(rec)))
<1> DEFINE r == parsePrice(rec)
           p == Stored("prices", r)
<1>1. /\ r.date = rec.date /\ r.volume = Int64(parseNum(rec.volume))
      /\ \A f \in PriceFigures : r[f] = parseNum(rec[f])
  BY DEF parsePrice, PriceFigures
<1>2. /\ \A f \in PriceFigures : p[f] = Numeric(r[f])
      /\ p.volume = r.volume /\ p.date = r.date
  BY DEF Stored, parsePrice, PriceFigures
<1> HIDE DEF p, r
<1>3. \A f \in PriceFigures : ~Le(r[f], 0)
  BY DEF ValidPrice, r
<1>4. \A x : ~Le(parseNum(x), 0) => x # Unparsable /\ parseNum(x) = x
  <2>1. Le(0, 0)
    BY StoreAssumption DEF Le
  <2> QED
    BY <2>1 DEF parseNum
<1>5. \A f \in PriceFigures : rec[f] # Unparsable /\ r[f] = rec[f]
  BY <1>1, <1>3, <1>4
<1>6. SentAs(rec, p)
  BY <1>1, <1>2, <1>5 DEF SentAs
<1> QED
  BY <1>6 DEF p, r

\* The snapshot of an Ingest past its fetch, table by table.
LEMMA SnapshotParts ==
    ASSUME ProviderInv, NEW w \in Procs, pc[w] \in Later
    PROVE  /\ \A i \in 1 .. 5 : got[w][i] \in AcceptedBy(i)
           /\ run[w].snap["prices"] = fetchDailyPrices(got[w][2].data)
           /\ \A i \in 3 .. 5 :
                 run[w].snap[PartOf[Endpoints[i]]] = fetchStatements(got[w][i].data)
<1>1. Len(got[w]) = 5 /\ run[w].snap = SnapshotOf(got[w])
  BY DEF ProviderInv, FetchedWhole, Later
<1>2. \A i \in 1 .. 5 : got[w][i] \in AcceptedBy(i)
  BY <1>1 DEF ProviderInv, FetchedWhole
<1>3. run[w].snap["prices"] = fetchDailyPrices(got[w][2].data)
  BY <1>1 DEF SnapshotOf
<1>4. ASSUME NEW i \in 3 .. 5
      PROVE  run[w].snap[PartOf[Endpoints[i]]] = fetchStatements(got[w][i].data)
  <2>1. i = 3 \/ i = 4 \/ i = 5
    OBVIOUS
  <2> QED
    BY <1>1, <2>1 DEF SnapshotOf, PartOf, Endpoints
<1> QED
  BY <1>2, <1>3, <1>4

\* A bulk insert adds prices that were sent only.
LEMMA SentStep ==
    ProviderInv /\ StoredPricesWereSent /\ [ProviderNext]_providerVars => StoredPricesWereSent'
<1> SUFFICES ASSUME ProviderInv, StoredPricesWereSent, [ProviderNext]_providerVars,
                    NEW s \in Symbols, NEW p \in rows'["prices"][s]
             PROVE  \E rec \in SentPrices : SentAs(rec, p)
  BY DEF StoredPricesWereSent, SentAs
<1>0. TypeInv /\ [Next]_ingestVars
  BY Refines DEF ProviderInv
<1>1. CASE p \in rows["prices"][s]
  BY <1>1 DEF StoredPricesWereSent, SentAs
<1>2. CASE p \notin rows["prices"][s]
  <2>1. PICK w \in Procs : ProcStep(w) \/ EnvStep(w)
    BY <1>0, <1>2 DEF Next, ingestVars
  <2>2. PICK u \in Tables : pc[w] = u /\ PutRows(w, u)
    BY <1>2, <2>1, RowsShape
  <2>3. "prices" \in Tables
    BY DEF Tables
  <2>4. u = "prices" /\ p \in Added(w, u)
    BY <1>0, <1>2, <2>2, <2>3, PutRowsAt
  <2>5. PICK k \in Kept("prices", run[w].snap) :
           p = Stored("prices", run[w].snap["prices"][k])
    BY <2>4 DEF Added, NewRows, Batch
  <2>6. k \in DOMAIN run[w].snap["prices"] /\ ValidPrice(run[w].snap["prices"][k])
    BY DEF Kept, ValidRow
  <2>7. pc[w] \in Later
    BY <2>2, <2>4 DEF Later, Stages, Tables
  <2>8. /\ got[w][2] \in AcceptedBy(2)
        /\ run[w].snap["prices"] = fetchDailyPrices(got[w][2].data)
    BY <2>7, SnapshotParts
  <2>9. PICK rec \in Decoded(got[w][2].data, {}) : run[w].snap["prices"][k] = parsePrice(rec)
    <3>1. \A m \in DOMAIN fetchDailyPrices(got[w][2].data) :
             \E rec \in Decoded(got[w][2].data, {}) :
                 fetchDailyPrices(got[w][2].data)[m] = parsePrice(rec)
      BY <2>8, DailyPrices
    <3> QED
      BY <2>6, <2>8, <3>1
  <2>10. SentAs(rec, p)
    BY <2>5, <2>6, <2>9, ValidIsReadable
  <2>11. rec \in SentPrices
    BY <2>8 DEF SentPrices
  <2> QED
    BY <2>10, <2>11
<1> QED
  BY <1>1, <1>2

\* Every stored price is a record the service sent with four readable prices,
\* rounded: no text that parses to zero gets past the validators.
THEOREM NothingInvented == ProviderSpec => []StoredPricesWereSent
<1>1. ProviderInit => StoredPricesWereSent
  BY DEF ProviderInit, Init, StoredPricesWereSent, Tables
<1> QED
  BY <1>1, ProviderInvInit, ProviderInvStep, SentStep, PTL DEF ProviderSpec

-----------------------------------------------------------------------------
(* What was sent is stored.                                                 *)

\* An Ingest that is about to be recorded, or has been, has landed whole.
LEMMA WholeAtTheEnd ==
    ASSUME ProviderInv, Progress, SuccessRunsAreComplete, Itemised,
           NEW w \in Procs, pc[w] \in {"record"} \cup Kinds, NEW t \in Tables
    PROVE  Landed(t, run[w].sym, run[w].snap)
<1>1. CASE pc[w] = "record"
  BY <1>1 DEF Progress, PastOf, Tables
<1>2. CASE pc[w] \in Kinds
  <2>1. AuditRow(w, "success") \in runs
    BY <1>2 DEF Itemised
  <2>2. /\ AuditRow(w, "success").status = "success"
        /\ AuditRow(w, "success").sym = run[w].sym
        /\ AuditRow(w, "success").snap = run[w].snap
    BY DEF AuditRow
  <2> QED
    BY <2>1, <2>2 DEF SuccessRunsAreComplete
<1> QED
  BY <1>1, <1>2

\* A valid row of the snapshot that landed has its key in the table.
LEMMA RowLanded ==
    ASSUME NEW t \in Tables, NEW s, NEW sn \in Snapshots, Landed(t, s, sn),
           NEW i \in DOMAIN sn[t], ValidRow(t, sn[t][i])
    PROVE  \E r \in rows[t][s] : Key(r) = Key(sn[t][i])
<1>1. PICK b \in Batch(t, sn) : Key(b) = Key(sn[t][i])
  BY BatchCovers
<1> QED
  BY <1>1 DEF Landed, Conflicts

\* So every report that parses and every valid price of the answers is in the tables.
LEMMA EndStored ==
    ProviderInv /\ Progress /\ SuccessRunsAreComplete /\ Itemised => SentIsStored
<1> SUFFICES ASSUME ProviderInv, Progress, SuccessRunsAreComplete, Itemised,
                    NEW w \in Procs, pc[w] \in {"record"} \cup Kinds
             PROVE  /\ \A i \in 3 .. 5 : \A k \in SentReports(w, i) : k[2] # 0 =>
                             \E r \in rows[PartOf[Endpoints[i]]][run[w].sym] : Key(r) = k
                    /\ \A rec \in Decoded(got[w][2].data, {}) :
                          rec.date # Unparsable /\ ValidPrice(parsePrice(rec)) =>
                             \E r \in rows["prices"][run[w].sym] : r.date = rec.date
  BY DEF SentIsStored
<1> DEFINE sn == run[w].snap
           sym == run[w].sym
<1>1. pc[w] \in Later
  BY DEF Later, Stages, Kinds, Tables
<1>2. sn \in Snapshots
  BY <1>1 DEF ProviderInv, TypeInv, InFlight, Later, Stages
<1>3. \A t \in Tables : Landed(t, sym, sn)
  BY WholeAtTheEnd
<1>4. /\ \A i \in 1 .. 5 : got[w][i] \in AcceptedBy(i)
      /\ sn["prices"] = fetchDailyPrices(got[w][2].data)
      /\ \A i \in 3 .. 5 : sn[PartOf[Endpoints[i]]] = fetchStatements(got[w][i].data)
  BY <1>1, SnapshotParts
<1> HIDE DEF sn, sym
<1>5. ASSUME NEW i \in 3 .. 5, NEW k \in SentReports(w, i), k[2] # 0
      PROVE  \E r \in rows[PartOf[Endpoints[i]]][sym] : Key(r) = k
  <2> DEFINE raw == Decoded(got[w][i].data, NoReports)
             t == PartOf[Endpoints[i]]
  <2> DEFINE Keys(p) == {<<p, raw[p][j].date>> : j \in {m \in DOMAIN raw[p] : Parses(raw[p][m])}}
  <2>0. SentReports(w, i) = UNION {Keys(p) : p \in {"annual", "quarterly"}}
    BY Zenon DEF SentReports
  <2>1. PICK part \in {"annual", "quarterly"} : k \in Keys(part)
    <3> HIDE DEF Keys
    <3> QED
      BY <2>0
  <2>2. PICK j \in DOMAIN raw[part] : Parses(raw[part][j]) /\ k = <<part, raw[part][j].date>>
    BY <2>1
  <2>3. t \in Tables /\ t # "prices"
    <3>1. i = 3 \/ i = 4 \/ i = 5
      OBVIOUS
    <3> QED
      BY <3>1 DEF PartOf, Endpoints, Tables
  <2>4. got[w][i] \in AcceptedBy(i) /\ sn[t] = fetchStatements(got[w][i].data)
    BY <1>4
  <2>5. PICK m \in DOMAIN sn[t] : sn[t][m] = parseStatement(raw[part][j], part)
    <3>1. Parses(raw[part][j])
      BY <2>2
    <3>2. \E m \in DOMAIN fetchStatements(got[w][i].data) :
             fetchStatements(got[w][i].data)[m] = parseStatement(raw[part][j], part)
      BY <2>4, <3>1, Statements
    <3> QED
      BY <2>4, <3>2
  <2> HIDE DEF raw, t
  <2>6. sn[t][m].date = raw[part][j].date /\ sn[t][m].period = part
    BY <2>5 DEF parseStatement
  <2>7. ValidRow(t, sn[t][m]) /\ Key(sn[t][m]) = k
    BY <1>5, <2>2, <2>3, <2>6 DEF ValidRow, ValidStatement, isValidPeriod, Key
  <2>8. \E r \in rows[t][sym] : Key(r) = k
    BY <1>2, <1>3, <2>3, <2>7, RowLanded
  <2> QED
    BY <2>8 DEF t
<1>6. ASSUME NEW rec \in Decoded(got[w][2].data, {}),
             rec.date # Unparsable, ValidPrice(parsePrice(rec))
      PROVE  \E r \in rows["prices"][sym] : r.date = rec.date
  <2>1. got[w][2] \in AcceptedBy(2)
    BY <1>4
  <2>2. PICK m \in DOMAIN sn["prices"] : sn["prices"][m] = parsePrice(rec)
    BY <1>4, <1>6, <2>1, DailyPrices
  <2>3. "prices" \in Tables
    BY DEF Tables
  <2>4. ValidRow("prices", sn["prices"][m])
    BY <1>6, <2>2 DEF ValidRow
  <2>5. PICK r \in rows["prices"][sym] : Key(r) = Key(sn["prices"][m])
    BY <1>2, <1>3, <2>3, <2>4, RowLanded
  <2>6. sn["prices"][m].date = rec.date
    BY <2>2 DEF parsePrice
  <2>7. r.date = rec.date
    BY <2>5, <2>6 DEF Key
  <2> QED
    BY <2>7
<1> QED
  BY <1>5, <1>6 DEF sym

\* Nothing is lost between the wire and the database: at the end of a successful
\* run every report that parses and every valid priced day of its answers is stored.
THEOREM NothingLost == ProviderSpec => []SentIsStored
<1>1. Spec => []Progress
  BY TypeInit, TypeStep, CompleteInit, ProgressStep, PTL DEF Spec
<1>2. Spec => []Itemised
  <2>1. AuditedInv => Itemised
    BY DEF AuditedInv, WalkInv
  <2> QED
    BY <2>1, AuditedInvariant, PTL
<1>3. ProviderSpec => Spec
  BY ClientImplementsFetch DEF ImplementsFetch
<1>4. ProviderSpec => []ProviderInv
  BY ProviderInvInit, ProviderInvStep, PTL DEF ProviderSpec
<1> QED
  BY <1>1, <1>2, <1>3, <1>4, SuccessMeansLanded, EndStored, PTL

=============================================================================
