-------------------------- MODULE IngestionProofs --------------------------
(***************************************************************************)
(* Proofs about Ingestion, for any number of processes, symbols, snapshots, *)
(* launches and any set of faults: types, what is stored stays, one row per *)
(* key, and that ingestion_runs can be believed (a run recorded as a        *)
(* success landed whole, re-ingesting it changes nothing, no row is counted *)
(* by two runs), the prices that are stored, the rows the audit accounts    *)
(* for and what a clean exit means.                                         *)
(***************************************************************************)
EXTENDS Ingestion, StoreProofs

\* What a snapshot contributes to a table is made of storable rows.
LEMMA BatchRows ==
    ASSUME NEW t \in Tables, NEW sn \in Snapshots
    PROVE  Batch(t, sn) \subseteq Row
BY DEF Row

\* After inserting into one table the pipeline is at a later stage.
LEMMA AfterStage ==
    ASSUME NEW t \in Tables, NEW sn
    PROVE  After(t, sn) \in Stages \ {"fetch", "fail"}
BY DEF After, AfterPrices, AfterIncome, AfterBalance, Tables, Stages

-----------------------------------------------------------------------------
(* Type correctness.                                                        *)

TypeInv == TypeOK /\ InFlight

\* Initially no process runs and nothing is stored.
LEMMA TypeInit == Init => TypeInv
BY IngestionAssumption DEF Init, TypeInv, TypeOK, DbTypeOK, ProcTypeOK, InFlight,
   RunType, NoRun, Nothing, Stages, Tables, Kinds

\* The record between two Ingests is well-typed.
LEMMA NoRunType == NoRun \in RunType
BY DEF NoRun, RunType, Nothing

\* However a call ends, the context's flag stays a flag.
LEMMA CtxType ==
    ASSUME TypeInv, NEW w \in Procs, NEW callee, NEW applied \in BOOLEAN,
           Completes(w) \/ Errs(w, callee, applied)
    PROVE  ctxDone' \in [Procs -> BOOLEAN]
BY DEF TypeInv, TypeOK, ProcTypeOK, Completes, Errs

\* The audit row of an Ingest is well-typed.
LEMMA AuditRowType ==
    ASSUME TypeInv, NEW w \in Procs, pc[w] \in Stages,
           NEW status \in {"success", "failure"}
    PROVE  AuditRow(w, status) \in AuditType
<1>1. run[w] \in RunType /\ run[w].sym \in Symbols
  BY DEF TypeInv, TypeOK, ProcTypeOK, InFlight
<1>2. [t \in AuditTables |-> run[w].ins[t]] \in [AuditTables -> SUBSET Row]
  BY <1>1 DEF RunType, AuditTables, Tables
<1>3. RunId(w) \in Procs \X Nat \X Nat
  BY DEF TypeInv, TypeOK, ProcTypeOK, RunId
<1>4. run[w].snap \in Snapshots \cup {NoSnapshot}
  BY <1>1 DEF RunType
<1> QED
  BY <1>1, <1>2, <1>3, <1>4 DEF AuditRow, AuditType

\* Returning from Ingest keeps the process well-typed and clears its locals.
LEMMA ReturnType ==
    ASSUME TypeInv, NEW w \in Procs, NEW err \in BOOLEAN, Return(w, err),
           ctxDone' \in [Procs -> BOOLEAN]
    PROVE  ProcTypeOK' /\ InFlight'
<1>1. run' \in [Procs -> RunType]
  BY NoRunType DEF TypeInv, TypeOK, ProcTypeOK, Return
<1>2. ProcTypeOK'
  BY <1>1 DEF TypeInv, TypeOK, ProcTypeOK, Return
<1>3. InFlight'
  BY DEF TypeInv, TypeOK, ProcTypeOK, InFlight, Return, Stages, Tables, Kinds
<1> QED
  BY <1>2, <1>3

\* So does going on to another stage.
LEMMA GotoType ==
    ASSUME TypeInv, NEW w \in Procs, NEW stage \in Stages, Goto(w, stage),
           ctxDone' \in [Procs -> BOOLEAN], NEW r \in RunType,
           run' = [run EXCEPT ![w] = r], r.sym \in Symbols,
           stage \notin {"fetch", "fail"} => r.snap \in Snapshots
    PROVE  ProcTypeOK' /\ InFlight'
<1>1. ProcTypeOK'
  BY DEF TypeInv, TypeOK, ProcTypeOK, Goto
<1>2. InFlight'
  BY DEF TypeInv, TypeOK, ProcTypeOK, InFlight, Goto
<1> QED
  BY <1>1, <1>2

\* Inserting storable rows keeps the tables well-typed.
LEMMA PutRowsType ==
    ASSUME TypeInv, NEW w \in Procs, NEW t \in Tables, pc[w] = t, PutRows(w, t)
    PROVE  /\ rows' \in [Tables -> [Symbols -> SUBSET Row]]
           /\ Added(w, t) \subseteq Row
<1>1. run[w].sym \in Symbols /\ run[w].snap \in Snapshots
  BY DEF TypeInv, InFlight, Stages, Tables, Kinds
<1>2. Added(w, t) \subseteq Row
  BY <1>1, BatchRows DEF Added, NewRows
<1>3. rows[t][run[w].sym] \cup Added(w, t) \in SUBSET Row
  BY <1>1, <1>2 DEF TypeInv, TypeOK, DbTypeOK
<1> QED
  BY <1>1, <1>2, <1>3 DEF TypeInv, TypeOK, DbTypeOK, PutRows

\* A stage is left for another one with the locals as they are.
LEMMA GotoSameRun ==
    ASSUME TypeInv, NEW w \in Procs, NEW stage \in Stages, Goto(w, stage),
           ctxDone' \in [Procs -> BOOLEAN], run' = run, pc[w] \in Stages,
           stage # "fail" => pc[w] \notin {"fetch", "fail"}
    PROVE  ProcTypeOK' /\ InFlight'
<1>1. run[w] \in RunType /\ run[w].sym \in Symbols
  BY DEF TypeInv, TypeOK, ProcTypeOK, InFlight
<1>2. run' = [run EXCEPT ![w] = run[w]]
  BY DEF TypeInv, TypeOK, ProcTypeOK
<1>3. stage \notin {"fetch", "fail"} => run[w].snap \in Snapshots
  BY DEF TypeInv, InFlight
<1> QED
  BY <1>1, <1>2, <1>3, GotoType

\* Every step keeps the types and the agreement of locals and stages.
LEMMA TypeStep == TypeInv /\ [Next]_ingestVars => TypeInv'
<1> SUFFICES ASSUME TypeInv, [Next]_ingestVars PROVE TypeInv'
  OBVIOUS
<1>u. CASE UNCHANGED ingestVars
  BY <1>u DEF ingestVars, TypeInv, TypeOK, DbTypeOK, ProcTypeOK, InFlight
<1>n. CASE Next
  <2>0. PICK w \in Procs : ProcStep(w) \/ EnvStep(w)
    BY <1>n DEF Next
  <2>t. Tables \subseteq Stages /\ Kinds \subseteq Stages
    BY DEF Stages
  <2>s. {"fetch", "company", "fail", "record"} \subseteq Stages
    BY DEF Stages
  <2>d. DbTypeOK /\ ProcTypeOK /\ InFlight
    BY DEF TypeInv, TypeOK
  <2>1. CASE Skip(w)
    BY <2>1, <2>d DEF Skip, db, TypeInv, TypeOK, DbTypeOK, ProcTypeOK, InFlight
  <2>2. CASE Reject(w)
    BY <2>2, <2>d DEF Reject, db, TypeInv, TypeOK, DbTypeOK, ProcTypeOK, InFlight
  <2>3. CASE Begin(w)
    <3>1. DbTypeOK' /\ ctxDone' \in [Procs -> BOOLEAN]
      BY <2>3, <2>d DEF Begin, db, DbTypeOK, ProcTypeOK
    <3> DEFINE r == [run[w] EXCEPT !.sym = Item(w)]
    <3>2. run' = [run EXCEPT ![w] = r] /\ Item(w) \in Symbols /\ run[w] \in RunType
      BY <2>3, <2>d DEF Begin, ProcTypeOK
    <3>3. r \in RunType /\ r.sym \in Symbols
      BY <3>2 DEF RunType
    <3>4. Goto(w, "fetch")
      BY <2>3 DEF Begin, Goto
    <3> QED
      BY <3>1, <3>2, <3>3, <3>4, <2>s, GotoType DEF TypeInv, TypeOK
  <2>4. CASE Exit(w)
    BY <2>4, <2>d DEF Exit, db, TypeInv, TypeOK, DbTypeOK, ProcTypeOK, InFlight, Stages, Tables, Kinds
  <2>5. CASE FetchErr(w)
    <3>1. DbTypeOK' /\ ctxDone' \in [Procs -> BOOLEAN]
      BY <2>5, <2>d, CtxType DEF FetchErr, db, DbTypeOK
    <3> QED
      BY <2>5, <2>s, <3>1, GotoSameRun DEF FetchErr, TypeInv, TypeOK
  <2>6. CASE UpsertCompany(w)
    <3>1. ctxDone' \in [Procs -> BOOLEAN]
      BY <2>6, <2>d DEF UpsertCompany, Completes, ProcTypeOK
    <3>2. run[w].snap \in Snapshots
      BY <2>6, <2>d, <2>s DEF UpsertCompany, InFlight
    <3>3. DbTypeOK'
      BY <2>6, <2>d, <3>2, StoreAssumption DEF UpsertCompany, PutCompany, DbTypeOK
    <3> QED
      BY <2>6, <2>s, <2>t, <3>1, <3>3, GotoSameRun DEF UpsertCompany, TypeInv, TypeOK, Tables
  <2>7. CASE RecordFailure(w)
    <3>1. DbTypeOK' /\ ctxDone' \in [Procs -> BOOLEAN]
      BY <2>7, <2>d, <2>s, AuditRowType DEF RecordFailure, Completes, DbTypeOK, ProcTypeOK
    <3> QED
      BY <2>7, <3>1, ReturnType DEF RecordFailure, TypeInv, TypeOK
  <2>8. CASE \E sn \in Snapshots : Fetch(w, sn)
    <3>1. PICK sn \in Snapshots : Fetch(w, sn)
      BY <2>8
    <3>2. DbTypeOK' /\ ctxDone' \in [Procs -> BOOLEAN]
      BY <3>1, <2>d DEF Fetch, Completes, db, DbTypeOK, ProcTypeOK
    <3> DEFINE r == [run[w] EXCEPT !.snap = sn]
    <3>3. run' = [run EXCEPT ![w] = r] /\ run[w] \in RunType /\ run[w].sym \in Symbols
      BY <3>1, <2>d, <2>s DEF Fetch, ProcTypeOK, InFlight
    <3>4. r \in RunType /\ r.sym \in Symbols /\ r.snap \in Snapshots
      BY <3>3 DEF RunType
    <3> QED
      BY <3>1, <3>2, <3>3, <3>4, <2>s, GotoType DEF Fetch, TypeInv, TypeOK
  <2>9. CASE \E t \in Tables : Insert(w, t)
    <3>1. PICK t \in Tables : Insert(w, t)
      BY <2>9
    <3>2. DbTypeOK' /\ ctxDone' \in [Procs -> BOOLEAN]
      BY <3>1, <2>d, PutRowsType DEF Insert, Completes, DbTypeOK, ProcTypeOK
    <3> DEFINE r == [run[w] EXCEPT !.ins[t] = Added(w, t)]
    <3>3. /\ run' = [run EXCEPT ![w] = r] /\ run[w] \in RunType
          /\ run[w].sym \in Symbols /\ run[w].snap \in Snapshots
      BY <3>1, <2>d, <2>t DEF Insert, ProcTypeOK, InFlight, Tables
    <3>4. r \in RunType /\ r.sym \in Symbols /\ r.snap \in Snapshots
      BY <3>1, <3>3, PutRowsType DEF RunType, Insert
    <3>5. After(t, run[w].snap) \in Stages
      BY AfterStage
    <3> QED
      BY <3>1, <3>2, <3>3, <3>4, <3>5, GotoType DEF Insert, TypeInv, TypeOK
  <2>10. CASE \E applied \in BOOLEAN : UpsertCompanyErr(w, applied)
    <3>1. PICK applied \in BOOLEAN : UpsertCompanyErr(w, applied)
      BY <2>10
    <3>2. ctxDone' \in [Procs -> BOOLEAN]
      BY <3>1, CtxType DEF UpsertCompanyErr
    <3>3. run[w].snap \in Snapshots
      BY <3>1, <2>d, <2>s DEF UpsertCompanyErr, InFlight
    <3>4. DbTypeOK'
      BY <3>1, <2>d, <3>3, StoreAssumption DEF UpsertCompanyErr, PutCompany, DbTypeOK
    <3> QED
      BY <3>1, <3>2, <3>4, <2>s, GotoSameRun DEF UpsertCompanyErr, TypeInv, TypeOK
  <2>11. CASE \E applied \in BOOLEAN, t \in Tables : InsertErr(w, t, applied)
    <3>1. PICK applied \in BOOLEAN, t \in Tables : InsertErr(w, t, applied)
      BY <2>11
    <3>2. ctxDone' \in [Procs -> BOOLEAN]
      BY <3>1, CtxType DEF InsertErr
    <3>3. DbTypeOK'
      BY <3>1, <2>d, PutRowsType DEF InsertErr, DbTypeOK
    <3> QED
      BY <3>1, <3>2, <3>3, <2>s, <2>t, GotoSameRun DEF InsertErr, TypeInv, TypeOK
  <2>12. CASE \E applied \in BOOLEAN : RecordSuccessErr(w, applied)
    <3>1. PICK applied \in BOOLEAN : RecordSuccessErr(w, applied)
      BY <2>12
    <3>2. DbTypeOK' /\ ctxDone' \in [Procs -> BOOLEAN]
      BY <3>1, <2>d, <2>s, AuditRowType, CtxType DEF RecordSuccessErr, DbTypeOK
    <3> QED
      BY <3>1, <3>2, ReturnType DEF RecordSuccessErr, TypeInv, TypeOK
  <2>13. CASE \E applied \in BOOLEAN : RecordFailureErr(w, applied)
    <3>1. PICK applied \in BOOLEAN : RecordFailureErr(w, applied)
      BY <2>13
    <3>2. DbTypeOK' /\ ctxDone' \in [Procs -> BOOLEAN]
      BY <3>1, <2>d, <2>s, AuditRowType, CtxType DEF RecordFailureErr, DbTypeOK
    <3> QED
      BY <3>1, <3>2, ReturnType DEF RecordFailureErr, TypeInv, TypeOK
  <2>14. CASE RecordSuccess(w)
    <3>1. DbTypeOK' /\ ctxDone' \in [Procs -> BOOLEAN]
      BY <2>14, <2>d, <2>s, AuditRowType DEF RecordSuccess, Completes, DbTypeOK, ProcTypeOK
    <3>2. CASE HasCache
      BY <2>14, <3>1, <3>2, <2>s, <2>t, GotoSameRun DEF RecordSuccess, TypeInv, TypeOK, Kinds
    <3>3. CASE ~HasCache
      BY <2>14, <3>1, <3>3, ReturnType DEF RecordSuccess, TypeInv, TypeOK
    <3> QED
      BY <3>2, <3>3
  <2>15. CASE \E kind \in Kinds, applied \in BOOLEAN : Purge(w, kind, applied)
    <3>1. PICK kind \in Kinds, applied \in BOOLEAN : Purge(w, kind, applied)
      BY <2>15
    <3>2. DbTypeOK' /\ ctxDone' \in [Procs -> BOOLEAN]
      BY <3>1, <2>d, CtxType DEF Purge, db, DbTypeOK
    <3>3. CASE kind = "analytics"
      BY <3>1, <3>2, <3>3, <2>t, GotoSameRun DEF Purge, TypeInv, TypeOK, Kinds
    <3>4. CASE kind # "analytics"
      BY <3>1, <3>2, <3>4, ReturnType DEF Purge, TypeInv, TypeOK
    <3> QED
      BY <3>3, <3>4
  <2>16. CASE \E list \in ArgLists : Launch(w, list)
    <3>1. PICK list \in ArgLists : Launch(w, list)
      BY <2>16
    <3>3. DbTypeOK'
      BY <3>1, <2>d DEF Launch, db, DbTypeOK
    <3>4. list \in Seq(Args)
      BY IngestionAssumption
    <3>5. pc' \in [Procs -> {"down", "loop"} \cup Stages]
      BY <3>1, <2>d DEF Launch, ProcTypeOK
    <3>6. exit' \in [Procs -> {"none", "ok", "error", "killed"}]
      BY <3>1, <2>d DEF Launch, ProcTypeOK
    <3>7. ProcTypeOK'
      BY <3>1, <3>4, <3>5, <3>6, <2>d DEF Launch, ProcTypeOK
    <3>2. InFlight'
      BY <3>1, <2>d DEF Launch, ProcTypeOK, InFlight, Stages, Tables, Kinds
    <3> QED
      BY <3>2, <3>3, <3>7 DEF TypeInv, TypeOK
  <2>17. CASE Deadline(w)
    BY <2>17, <2>d DEF Deadline, db, TypeInv, TypeOK, DbTypeOK, ProcTypeOK, InFlight
  <2>18. CASE Crash(w)
    <3>1. DbTypeOK' /\ ProcTypeOK'
      BY <2>18, <2>d, NoRunType DEF Crash, db, DbTypeOK, ProcTypeOK
    <3>2. InFlight'
      BY <2>18, <2>d DEF Crash, ProcTypeOK, InFlight, Stages, Tables, Kinds
    <3> QED
      BY <3>1, <3>2 DEF TypeInv, TypeOK
  <2> QED
    BY <2>0, <2>1, <2>2, <2>3, <2>4, <2>5, <2>6, <2>7, <2>8, <2>9, <2>10, <2>11,
       <2>12, <2>13, <2>14, <2>15, <2>16, <2>17, <2>18
       DEF ProcStep, QuietStep, EnvStep
<1> QED
  BY <1>u, <1>n

\* Type correctness of the ingestion: whatever fails or interleaves, the tables
\* hold validated rows of provider snapshots only, audit rows are complete, and
\* an Ingest past the fetch has its snapshot.
THEOREM IngestionTypes == Spec => [](TypeOK /\ InFlight)
<1>1. Init => TypeInv
  BY TypeInit
<1>2. TypeInv /\ [Next]_ingestVars => TypeInv'
  BY TypeStep
<1> QED
  BY <1>1, <1>2, PTL DEF Spec, TypeInv

-----------------------------------------------------------------------------
(* What a step can do, whichever action it is.                              *)

\* A step of one process leaves the locals of the others alone.
LEMMA Others ==
    ASSUME TypeInv, NEW w \in Procs, ProcStep(w) \/ EnvStep(w),
           NEW v \in Procs, v # w
    PROVE  /\ pc'[v] = pc[v] /\ run'[v] = run[v]
           /\ launches'[v] = launches[v] /\ pos'[v] = pos[v]
<1> USE DEF TypeInv, TypeOK, ProcTypeOK
<1>1. CASE QuietStep(w)
  BY <1>1 DEF QuietStep, Skip, Reject, Begin, Exit, FetchErr, UpsertCompany, RecordFailure,
     Fetch, Insert, UpsertCompanyErr, InsertErr, RecordSuccessErr, RecordFailureErr,
     Goto, Return
<1>2. CASE RecordSuccess(w) \/ \E kind \in Kinds, applied \in BOOLEAN : Purge(w, kind, applied)
  BY <1>2 DEF RecordSuccess, Purge, Goto, Return
<1>3. CASE EnvStep(w)
  BY <1>3 DEF EnvStep, Launch, Deadline, Crash
<1> QED
  BY <1>1, <1>2, <1>3 DEF ProcStep

\* The data tables change by a bulk insert of the process's snapshot only.
LEMMA RowsShape ==
    ASSUME NEW w \in Procs, ProcStep(w) \/ EnvStep(w)
    PROVE  rows' = rows \/ \E t \in Tables : pc[w] = t /\ PutRows(w, t)
<1>1. CASE QuietStep(w)
  BY <1>1 DEF QuietStep, Skip, Reject, Begin, Exit, FetchErr, UpsertCompany, RecordFailure,
     Fetch, Insert, UpsertCompanyErr, InsertErr, RecordSuccessErr, RecordFailureErr, db
<1>2. CASE RecordSuccess(w) \/ \E kind \in Kinds, applied \in BOOLEAN : Purge(w, kind, applied)
  BY <1>2 DEF RecordSuccess, Purge, db
<1>3. CASE EnvStep(w)
  BY <1>3 DEF EnvStep, Launch, Deadline, Crash, db
<1> QED
  BY <1>1, <1>2, <1>3 DEF ProcStep

\* The audit table changes by the row of an Ingest at its end only.
LEMMA RunsShape ==
    ASSUME NEW w \in Procs, ProcStep(w) \/ EnvStep(w)
    PROVE  \/ runs' = runs
           \/ /\ pc[w] = "record"
              /\ runs' = runs \cup {AuditRow(w, "success")}
           \/ /\ pc[w] = "fail"
              /\ runs' = runs \cup {AuditRow(w, "failure")}
<1>1. CASE QuietStep(w)
  BY <1>1 DEF QuietStep, Skip, Reject, Begin, Exit, FetchErr, UpsertCompany, RecordFailure,
     Fetch, Insert, UpsertCompanyErr, InsertErr, RecordSuccessErr, RecordFailureErr, db
<1>2. CASE RecordSuccess(w) \/ \E kind \in Kinds, applied \in BOOLEAN : Purge(w, kind, applied)
  BY <1>2 DEF RecordSuccess, Purge, db
<1>3. CASE EnvStep(w)
  BY <1>3 DEF EnvStep, Launch, Deadline, Crash, db
<1> QED
  BY <1>1, <1>2, <1>3 DEF ProcStep

\* The company table changes by the upsert of the process's snapshot only.
LEMMA CompaniesShape ==
    ASSUME NEW w \in Procs, ProcStep(w) \/ EnvStep(w)
    PROVE  companies' = companies \/ (pc[w] = "company" /\ PutCompany(w))
<1>1. CASE QuietStep(w)
  BY <1>1 DEF QuietStep, Skip, Reject, Begin, Exit, FetchErr, UpsertCompany, RecordFailure,
     Fetch, Insert, UpsertCompanyErr, InsertErr, RecordSuccessErr, RecordFailureErr, db
<1>2. CASE RecordSuccess(w) \/ \E kind \in Kinds, applied \in BOOLEAN : Purge(w, kind, applied)
  BY <1>2 DEF RecordSuccess, Purge, db
<1>3. CASE EnvStep(w)
  BY <1>3 DEF EnvStep, Launch, Deadline, Crash, db
<1> QED
  BY <1>1, <1>2, <1>3 DEF ProcStep

\* What a bulk insert makes of one company's rows in one table.
LEMMA PutRowsAt ==
    ASSUME TypeInv, NEW w \in Procs, NEW u \in Tables, pc[w] = u, PutRows(w, u),
           NEW t \in Tables, NEW s \in Symbols
    PROVE  rows'[t][s] = rows[t][s] \cup
              (IF t = u /\ s = run[w].sym THEN Added(w, u) ELSE {})
<1>1. rows \in [Tables -> [Symbols -> SUBSET Row]]
  BY DEF TypeInv, TypeOK, DbTypeOK
<1>2. run[w].sym \in Symbols
  BY DEF TypeInv, InFlight, Stages, Tables
<1> QED
  BY <1>1, <1>2 DEF PutRows

\* Nothing stored is lost.
LEMMA Monotone ==
    ASSUME TypeInv, [Next]_ingestVars
    PROVE  /\ runs \subseteq runs'
           /\ \A t \in Tables, s \in Symbols : rows[t][s] \subseteq rows'[t][s]
           /\ \A s \in Symbols : companies[s] # NoCompany => companies'[s] # NoCompany
<1>u. CASE UNCHANGED ingestVars
  BY <1>u DEF ingestVars
<1>n. CASE Next
  <2>0. PICK w \in Procs : ProcStep(w) \/ EnvStep(w)
    BY <1>n DEF Next
  <2>1. runs \subseteq runs'
    BY <2>0, RunsShape
  <2>2. ASSUME NEW t \in Tables, NEW s \in Symbols
        PROVE  rows[t][s] \subseteq rows'[t][s]
    BY <2>0, RowsShape, PutRowsAt
  <2>3. ASSUME NEW s \in Symbols, companies[s] # NoCompany
        PROVE  companies'[s] # NoCompany
    <3>1. CASE pc[w] = "company" /\ PutCompany(w)
      <4>1. run[w].snap \in Snapshots
        BY <3>1 DEF TypeInv, InFlight, Stages
      <4> QED
        BY <2>3, <3>1, <4>1, StoreAssumption DEF PutCompany, TypeInv, TypeOK, DbTypeOK
    <3> QED
      BY <2>0, <2>3, <3>1, CompaniesShape
  <2> QED
    BY <2>1, <2>2, <2>3
<1> QED
  BY <1>u, <1>n

\* Stored rows and audit records are never changed or removed, whatever process
\* fails or dies.
THEOREM IngestionHistory == Spec => HistoryIsFinal
<1>1. TypeInv /\ [Next]_ingestVars =>
        [/\ runs \subseteq runs'
         /\ \A t \in Tables, s \in Symbols : rows[t][s] \subseteq rows'[t][s]
         /\ \A s \in Symbols : companies[s] # NoCompany => companies'[s] # NoCompany
        ]_ingestVars
  BY Monotone
<1> QED
  BY <1>1, TypeInit, TypeStep, PTL DEF Spec, HistoryIsFinal

-----------------------------------------------------------------------------
(* A success landed whole.                                                  *)

\* The stages, up to the success record, at which a table has been dealt with.
PastOf ==
    [prices   |-> {"income", "balance", "cashflow", "record"},
     income   |-> {"balance", "cashflow", "record"},
     balance  |-> {"cashflow", "record"},
     cashflow |-> {"record"}]

\* What an Ingest has done when it is at a given stage.
Progress ==
    \A w \in Procs :
        /\ pc[w] \in Tables \cup {"record"} =>
              /\ companies[run[w].sym] # NoCompany
              /\ ~NoneValid("prices", run[w].snap)
        /\ \A t \in Tables : pc[w] \in PastOf[t] => Landed(t, run[w].sym, run[w].snap)

\* The stage after a table, without the CASE.
LEMMA AfterIs ==
    ASSUME NEW sn
    PROVE  /\ After("prices", sn) = AfterPrices(sn)
           /\ After("income", sn) = AfterIncome(sn)
           /\ After("balance", sn) = AfterBalance(sn)
           /\ After("cashflow", sn) = "record"
BY Zenon DEF After

\* The stage after a table passes only that table and tables left out.
LEMMA AfterPast ==
    ASSUME NEW t \in Tables, NEW u \in Tables, NEW sn, After(t, sn) \in PastOf[u]
    PROVE  u = t \/ t \in PastOf[u] \/ NoneValid(u, sn)
<1> USE DEF Tables, PastOf, AfterPrices, AfterIncome, AfterBalance
<1>1. CASE t = "prices"
  BY <1>1, AfterIs
<1>2. CASE t = "income"
  BY <1>2, AfterIs
<1>3. CASE t = "balance"
  BY <1>3, AfterIs
<1>4. CASE t = "cashflow"
  BY <1>4, AfterIs
<1> QED
  BY <1>1, <1>2, <1>3, <1>4

\* How a process comes to be at a table or at the success record.
LEMMA StageShape ==
    ASSUME TypeInv, NEW w \in Procs, ProcStep(w) \/ EnvStep(w),
           pc'[w] \in Tables \cup {"record"}
    PROVE  /\ run'[w].sym = run[w].sym /\ run'[w].snap = run[w].snap
           /\ \/ pc'[w] = pc[w]
              \/ /\ pc[w] = "company" /\ pc'[w] = "prices" /\ PutCompany(w)
                 /\ ~NoneValid("prices", run[w].snap)
              \/ \E t \in Tables : /\ pc[w] = t /\ PutRows(w, t)
                                   /\ pc'[w] = After(t, run[w].snap)
<1> USE DEF TypeInv, TypeOK, ProcTypeOK, Tables
<1>1. CASE Skip(w) \/ Reject(w) \/ Begin(w) \/ Exit(w)
  BY <1>1 DEF Skip, Reject, Begin, Exit
<1>2. CASE FetchErr(w) \/ RecordFailure(w) \/ UpsertCompany(w)
  BY <1>2 DEF FetchErr, RecordFailure, UpsertCompany, Goto, Return
<1>3. CASE \E sn \in Snapshots : Fetch(w, sn)
  BY <1>3 DEF Fetch, Goto
<1>4. ASSUME NEW t \in Tables, Insert(w, t)
      PROVE  /\ run'[w].sym = run[w].sym /\ run'[w].snap = run[w].snap
             /\ pc[w] = t /\ PutRows(w, t) /\ pc'[w] = After(t, run[w].snap)
  <2>1. run \in [Procs -> RunType]
    OBVIOUS
  <2> QED
    BY <1>4, <2>1 DEF Insert, Goto, RunType
<1>5. CASE \E applied \in BOOLEAN :
             \/ UpsertCompanyErr(w, applied)
             \/ \E t \in Tables : InsertErr(w, t, applied)
             \/ RecordSuccessErr(w, applied)
             \/ RecordFailureErr(w, applied)
  BY <1>5 DEF UpsertCompanyErr, InsertErr, RecordSuccessErr, RecordFailureErr, Goto, Return
<1>6. CASE RecordSuccess(w) \/ \E kind \in Kinds, applied \in BOOLEAN : Purge(w, kind, applied)
  BY <1>6 DEF RecordSuccess, Purge, Goto, Return, Kinds
<1>7. CASE EnvStep(w)
  BY <1>7 DEF EnvStep, Launch, Deadline, Crash
<1> QED
  BY <1>1, <1>2, <1>3, <1>4, <1>5, <1>6, <1>7 DEF ProcStep, QuietStep

\* What has landed stays landed.
LEMMA LandedStays ==
    ASSUME TypeInv, [Next]_ingestVars,
           NEW t \in Tables, NEW s \in Symbols, NEW sn, Landed(t, s, sn)
    PROVE  \A b \in Batch(t, sn) : Conflicts(rows'[t][s], b)
BY Monotone DEF Landed, Conflicts

\* A bulk insert lands its table.
LEMMA LandedByInsert ==
    ASSUME TypeInv, NEW w \in Procs, NEW t \in Tables, pc[w] = t, PutRows(w, t)
    PROVE  \A b \in Batch(t, run[w].snap) : Conflicts(rows'[t][run[w].sym], b)
<1>1. run[w].sym \in Symbols
  BY DEF TypeInv, InFlight, Stages, Tables
<1>2. rows'[t][run[w].sym] = rows[t][run[w].sym] \cup Added(w, t)
  BY <1>1, PutRowsAt
<1> QED
  BY <1>2 DEF Added, NewRows, Conflicts

\* Every step leaves an Ingest with what its stage says it has done.
LEMMA ProgressStep ==
    TypeInv /\ Progress /\ [Next]_ingestVars => Progress'
<1> SUFFICES ASSUME TypeInv, Progress, [Next]_ingestVars
             PROVE  Progress'
  OBVIOUS
<1>u. CASE UNCHANGED ingestVars
  BY <1>u DEF ingestVars, Progress, Landed
<1>n. CASE Next
  <2>0. PICK w \in Procs : ProcStep(w) \/ EnvStep(w)
    BY <1>n DEF Next
  <2> SUFFICES ASSUME NEW v \in Procs, pc'[v] \in Tables \cup {"record"}
               PROVE  /\ companies'[run'[v].sym] # NoCompany
                      /\ ~NoneValid("prices", run'[v].snap)
                      /\ \A t \in Tables : pc'[v] \in PastOf[t] =>
                            \A b \in Batch(t, run'[v].snap) :
                                Conflicts(rows'[t][run'[v].sym], b)
    BY DEF Progress, Landed, PastOf, Tables
  <2>1. CASE pc'[v] = pc[v] /\ run'[v].sym = run[v].sym /\ run'[v].snap = run[v].snap
    <3>1. run[v].sym \in Symbols
      BY <2>1 DEF TypeInv, InFlight, Stages
    <3>2. companies[run[v].sym] # NoCompany /\ ~NoneValid("prices", run[v].snap)
      BY <2>1 DEF Progress
    <3>3. ASSUME NEW t \in Tables, pc[v] \in PastOf[t]
          PROVE  \A b \in Batch(t, run[v].snap) : Conflicts(rows'[t][run[v].sym], b)
      BY <3>1, <3>3, LandedStays DEF Progress
    <3> QED
      BY <2>1, <3>1, <3>2, <3>3, Monotone
  <2>2. CASE v # w
    BY <2>0, <2>1, <2>2, Others
  <2>3. CASE v = w /\ pc'[w] # pc[w]
    <3>0. run'[w].sym = run[w].sym /\ run'[w].snap = run[w].snap
      BY <2>0, <2>3, StageShape
    <3>1. CASE /\ pc[w] = "company" /\ pc'[w] = "prices" /\ PutCompany(w)
               /\ ~NoneValid("prices", run[w].snap)
      <4>1. run[w].sym \in Symbols /\ run[w].snap \in Snapshots
        BY <3>1 DEF TypeInv, InFlight, Stages
      <4>2. companies'[run[w].sym] # NoCompany
        BY <3>1, <4>1, StoreAssumption DEF PutCompany, TypeInv, TypeOK, DbTypeOK
      <4>3. \A t \in Tables : pc'[w] \notin PastOf[t]
        BY <3>1 DEF PastOf, Tables
      <4> QED
        BY <2>3, <3>0, <3>1, <4>2, <4>3
    <3>2. CASE \E t \in Tables : /\ pc[w] = t /\ PutRows(w, t)
                                 /\ pc'[w] = After(t, run[w].snap)
      <4>0. PICK u \in Tables : /\ pc[w] = u /\ PutRows(w, u)
                                /\ pc'[w] = After(u, run[w].snap)
        BY <3>2
      <4>1. run[w].sym \in Symbols
        BY <4>0 DEF TypeInv, InFlight, Stages
      <4>2. companies[run[w].sym] # NoCompany /\ ~NoneValid("prices", run[w].snap)
        BY <4>0 DEF Progress
      <4>3. companies'[run[w].sym] # NoCompany
        BY <4>1, <4>2, Monotone
      <4>4. ASSUME NEW t \in Tables, pc'[w] \in PastOf[t]
            PROVE  \A b \in Batch(t, run[w].snap) : Conflicts(rows'[t][run[w].sym], b)
        <5>1. t = u \/ u \in PastOf[t] \/ NoneValid(t, run[w].snap)
          BY <4>0, <4>4, AfterPast
        <5>2. CASE t = u
          BY <5>2, <4>0, LandedByInsert
        <5>3. CASE u \in PastOf[t]
          BY <5>3, <4>0, <4>1, LandedStays DEF Progress
        <5>4. CASE NoneValid(t, run[w].snap)
          BY <5>4, NoneValidBatch
        <5> QED
          BY <5>1, <5>2, <5>3, <5>4
      <4> QED
        BY <2>3, <3>0, <4>2, <4>3, <4>4
    <3> QED
      BY <2>0, <2>3, <3>1, <3>2, StageShape
  <2>4. CASE v = w /\ pc'[w] = pc[w]
    BY <2>0, <2>1, <2>4, StageShape
  <2> QED
    BY <2>2, <2>3, <2>4
<1> QED
  BY <1>u, <1>n

\* Every step keeps the successes complete.
LEMMA CompleteStep ==
    TypeInv /\ Progress /\ SuccessRunsAreComplete /\ [Next]_ingestVars
        => SuccessRunsAreComplete'
<1> SUFFICES ASSUME TypeInv, Progress, SuccessRunsAreComplete, [Next]_ingestVars,
                    NEW a \in runs', a.status = "success"
             PROVE  /\ companies'[a.sym] # NoCompany
                    /\ ~NoneValid("prices", a.snap)
                    /\ \A t \in Tables : \A b \in Batch(t, a.snap) :
                          Conflicts(rows'[t][a.sym], b)
  BY DEF SuccessRunsAreComplete, Landed
<1>1. CASE /\ a.sym \in Symbols /\ companies[a.sym] # NoCompany
           /\ ~NoneValid("prices", a.snap)
           /\ \A t \in Tables : Landed(t, a.sym, a.snap)
  BY <1>1, Monotone, LandedStays
<1>2. CASE a \in runs
  <2>1. a.sym \in Symbols
    BY <1>2 DEF TypeInv, TypeOK, DbTypeOK, AuditType
  <2> QED
    BY <1>1, <1>2, <2>1 DEF SuccessRunsAreComplete
<1>3. CASE a \notin runs
  <2>0. PICK w \in Procs : ProcStep(w) \/ EnvStep(w)
    BY <1>3 DEF Next, ingestVars
  <2>1. pc[w] = "record" /\ a = AuditRow(w, "success")
    <3>1. a # AuditRow(w, "failure")
      BY DEF AuditRow
    <3> QED
      BY <1>3, <2>0, <3>1, RunsShape
  <2>2. a.sym = run[w].sym /\ a.snap = run[w].snap
    BY <2>1 DEF AuditRow
  <2>3. run[w].sym \in Symbols
    BY <2>1 DEF TypeInv, InFlight, Stages
  <2>4. /\ companies[run[w].sym] # NoCompany
        /\ ~NoneValid("prices", run[w].snap)
        /\ \A t \in Tables : Landed(t, run[w].sym, run[w].snap)
    BY <2>1 DEF Progress, PastOf, Tables
  <2> QED
    BY <1>1, <2>2, <2>3, <2>4
<1> QED
  BY <1>2, <1>3

\* Initially there is no run.
LEMMA CompleteInit == Init => Progress /\ SuccessRunsAreComplete
BY DEF Init, Progress, SuccessRunsAreComplete, PastOf, Tables

\* A run audited as a success landed whole and stays so, whatever other
\* processes, failing calls, deadlines and crashes do.
THEOREM SuccessMeansLanded == Spec => []SuccessRunsAreComplete
BY TypeInit, TypeStep, CompleteInit, ProgressStep, CompleteStep, PTL DEF Spec

\* Inserting again what a success covers adds nothing.
LEMMA ReingestStep ==
    ASSUME TypeInv, SuccessRunsAreComplete, [Next]_ingestVars,
           NEW v \in Procs, NEW t \in Tables, pc[v] = t, pc'[v] # t,
           NEW a \in runs, a.status = "success",
           a.sym = run[v].sym, a.snap = run[v].snap
    PROVE  rows' = rows
<1>0. PICK w \in Procs : ProcStep(w) \/ EnvStep(w)
  BY DEF Next, ingestVars
<1>1. v = w
  BY <1>0, Others
<1>2. CASE \E u \in Tables : pc[w] = u /\ PutRows(w, u)
  <2>1. PutRows(w, t) /\ pc[w] = t
    BY <1>1, <1>2
  <2>2. run[w].sym \in Symbols
    BY <2>1 DEF TypeInv, InFlight, Stages
  <2>3. Landed(t, run[w].sym, run[w].snap)
    BY <1>1 DEF SuccessRunsAreComplete
  <2>4. Added(w, t) = {}
    BY <2>3 DEF Landed, Added, NewRows
  <2>5. rows \in [Tables -> [Symbols -> SUBSET Row]]
    BY DEF TypeInv, TypeOK, DbTypeOK
  <2>6. rows[t][run[w].sym] \cup Added(w, t) = rows[t][run[w].sym]
    BY <2>4
  <2> QED
    BY <2>1, <2>2, <2>5, <2>6 DEF PutRows
<1> QED
  BY <1>0, <1>2, RowsShape

\* Ingesting a snapshot that a success already covers changes no table.
THEOREM Reingest == Spec => ReingestIsNoOp
<1>1. TypeInv /\ SuccessRunsAreComplete /\ [Next]_ingestVars =>
        [\A w \in Procs, t \in Tables :
          /\ pc[w] = t /\ pc'[w] # t
          /\ \E a \in runs : /\ a.status = "success"
                            /\ a.sym = run[w].sym /\ a.snap = run[w].snap
          => rows' = rows]_ingestVars
  BY ReingestStep
<1> QED
  BY <1>1, SuccessMeansLanded, TypeInit, TypeStep, PTL DEF Spec, ReingestIsNoOp

-----------------------------------------------------------------------------
(* No row is counted twice.                                                 *)

\* An audit row belongs to an Ingest that is over, or that only purges.
IdsPast ==
    \A a \in runs : \A w \in Procs :
        a.id[1] = w =>
            /\ a.id[2] <= launches[w]
            /\ a.id[2] = launches[w] => a.id[3] <= pos[w]
            /\ a.id[2] = launches[w] /\ a.id[3] = pos[w] => pc[w] \in Kinds \cup {"down"}

\* The rows counted by an Ingest in flight are stored, and counted by no other
\* Ingest and by no audit row but its own.
CreditsApart ==
    \A w \in Procs : pc[w] \in Stages =>
        \A t \in AuditTables :
            /\ run[w].ins[t] \subseteq rows[t][run[w].sym]
            /\ \A v \in Procs :
                  v # w /\ pc[v] \in Stages /\ run[v].sym = run[w].sym
                    => run[v].ins[t] \cap run[w].ins[t] = {}
            /\ pc[w] \notin Kinds =>
                  \A a \in runs : a.sym = run[w].sym => a.ins[t] \cap run[w].ins[t] = {}

CreditInv == IdsPast /\ CreditsApart /\ EachRowCountedOnce

\* How a step moves the identity of a process's Ingest.
LEMMA IdShape ==
    ASSUME TypeInv, NEW w \in Procs, ProcStep(w) \/ EnvStep(w)
    PROVE  \/ launches'[w] = launches[w] + 1
           \/ launches'[w] = launches[w] /\ pos'[w] = pos[w] + 1
           \/ /\ launches'[w] = launches[w] /\ pos'[w] = pos[w]
              /\ pc[w] \in Kinds \cup {"down"} => pc'[w] \in Kinds \cup {"down"}
<1> USE DEF TypeInv, TypeOK, ProcTypeOK
<1>1. CASE QuietStep(w)
  BY <1>1 DEF QuietStep, Skip, Reject, Begin, Exit, FetchErr, UpsertCompany, RecordFailure,
     Fetch, Insert, UpsertCompanyErr, InsertErr, RecordSuccessErr, RecordFailureErr,
     Goto, Return, Kinds, Tables
<1>2. CASE RecordSuccess(w) \/ \E kind \in Kinds, applied \in BOOLEAN : Purge(w, kind, applied)
  BY <1>2 DEF RecordSuccess, Purge, Goto, Return, Kinds
<1>3. CASE EnvStep(w)
  BY <1>3 DEF EnvStep, Launch, Deadline, Crash
<1> QED
  BY <1>1, <1>2, <1>3 DEF ProcStep

\* Recording ends an Ingest but for the purge.
LEMMA RecordEnds ==
    ASSUME TypeInv, NEW w \in Procs, ProcStep(w) \/ EnvStep(w), runs' # runs
    PROVE  /\ launches'[w] = launches[w]
           /\ \/ pc'[w] = "loop" /\ pos'[w] = pos[w] + 1
              \/ pc'[w] \in Kinds /\ pos'[w] = pos[w]
<1> USE DEF TypeInv, TypeOK, ProcTypeOK
<1>1. CASE QuietStep(w)
  BY <1>1 DEF QuietStep, Skip, Reject, Begin, Exit, FetchErr, UpsertCompany, RecordFailure,
     Fetch, Insert, UpsertCompanyErr, InsertErr, RecordSuccessErr, RecordFailureErr,
     Return, db
<1>2. CASE RecordSuccess(w) \/ \E kind \in Kinds, applied \in BOOLEAN : Purge(w, kind, applied)
  BY <1>2 DEF RecordSuccess, Purge, Goto, Return, Kinds, db
<1>3. CASE EnvStep(w)
  BY <1>3 DEF EnvStep, Launch, Deadline, Crash, db
<1> QED
  BY <1>1, <1>2, <1>3 DEF ProcStep

\* What an Ingest counts after a step it counted before, or has just added.
LEMMA CreditShape ==
    ASSUME TypeInv, NEW w \in Procs, ProcStep(w) \/ EnvStep(w), pc'[w] \in Stages,
           NEW t \in AuditTables, NEW r \in run'[w].ins[t]
    PROVE  \/ /\ pc[w] \in Stages /\ (pc'[w] \notin Kinds => pc[w] \notin Kinds)
              /\ run'[w].sym = run[w].sym /\ r \in run[w].ins[t]
           \/ /\ r \in rows'[t][run'[w].sym] /\ r \notin rows[t][run'[w].sym]
<1> USE DEF TypeInv, TypeOK, ProcTypeOK
<1>0. run \in [Procs -> RunType] /\ t \in Tables
  BY DEF AuditTables, Tables
<1>1. CASE Skip(w) \/ Reject(w) \/ Exit(w)
  BY <1>1 DEF Skip, Reject, Exit, Stages, Tables, Kinds
<1>2. CASE Begin(w)
  <2>1. run[w] = NoRun
    BY <1>2 DEF Begin, InFlight, Stages, Tables, Kinds
  <2>2. run'[w].ins = run[w].ins
    BY <1>0, <1>2 DEF Begin, RunType
  <2>3. run[w].ins[t] = {}
    BY <1>0, <2>1 DEF NoRun, Nothing
  <2> QED
    BY <2>2, <2>3
<1>3. CASE FetchErr(w) \/ RecordFailure(w) \/ UpsertCompany(w)
  BY <1>3 DEF FetchErr, RecordFailure, UpsertCompany, Goto, Return, Stages, Tables, Kinds
<1>4. CASE \E sn \in Snapshots : Fetch(w, sn)
  <2>1. run'[w].ins = run[w].ins /\ run'[w].sym = run[w].sym
    BY <1>0, <1>4 DEF Fetch, RunType
  <2> QED
    BY <1>4, <2>1 DEF Fetch, Stages, Kinds
<1>5. ASSUME NEW u \in Tables, Insert(w, u)
      PROVE  \/ /\ pc[w] \in Stages /\ (pc'[w] \notin Kinds => pc[w] \notin Kinds)
                /\ run'[w].sym = run[w].sym /\ r \in run[w].ins[t]
             \/ /\ r \in rows'[t][run'[w].sym] /\ r \notin rows[t][run'[w].sym]
  <2>0. pc[w] = u /\ PutRows(w, u)
    BY <1>5 DEF Insert
  <2>1. /\ run'[w].sym = run[w].sym
        /\ run'[w].ins[t] = IF t = u THEN Added(w, u) ELSE run[w].ins[t]
    BY <1>0, <1>5 DEF Insert, RunType
  <2>2. pc[w] \in Stages /\ pc[w] \notin Kinds /\ run[w].sym \in Symbols
    BY <2>0 DEF Stages, Tables, Kinds, InFlight
  <2>3. CASE t = u
    <3>1. rows'[t][run[w].sym] = rows[t][run[w].sym] \cup Added(w, t)
      BY <1>0, <2>0, <2>2, <2>3, PutRowsAt
    <3>2. Added(w, t) \cap rows[t][run[w].sym] = {}
      BY DEF Added, NewRows, Conflicts
    <3> QED
      BY <2>1, <2>3, <3>1, <3>2
  <2> QED
    BY <2>1, <2>2, <2>3
<1>6. CASE \E applied \in BOOLEAN :
             \/ UpsertCompanyErr(w, applied)
             \/ \E u \in Tables : InsertErr(w, u, applied)
             \/ RecordSuccessErr(w, applied)
             \/ RecordFailureErr(w, applied)
  BY <1>6 DEF UpsertCompanyErr, InsertErr, RecordSuccessErr, RecordFailureErr, Goto, Return,
     Stages, Tables, Kinds
<1>7. CASE RecordSuccess(w) \/ \E kind \in Kinds, applied \in BOOLEAN : Purge(w, kind, applied)
  BY <1>7 DEF RecordSuccess, Purge, Goto, Return, Stages, Tables, Kinds
<1>8. CASE EnvStep(w)
  BY <1>8 DEF EnvStep, Launch, Deadline, Crash, Stages, Tables, Kinds
<1> QED
  BY <1>1, <1>2, <1>3, <1>4, <1>5, <1>6, <1>7, <1>8 DEF ProcStep, QuietStep

\* A new audit row is that of the process that moves, which was recording.
LEMMA NewAudit ==
    ASSUME TypeInv, NEW w \in Procs, ProcStep(w) \/ EnvStep(w),
           NEW a \in runs', a \notin runs
    PROVE  /\ pc[w] \in Stages \ Kinds /\ pc[w] # "down"
           /\ a.id = RunId(w) /\ a.sym = run[w].sym
           /\ \A t \in AuditTables : a.ins[t] = run[w].ins[t]
           /\ runs' = runs \cup {a}
<1>1. /\ pc[w] \in {"record", "fail"}
      /\ \E st \in {"success", "failure"} : a = AuditRow(w, st) /\ runs' = runs \cup {a}
  BY RunsShape
<1> QED
  BY <1>1 DEF AuditRow, Stages, Kinds

\* Every step keeps the audit rows' identities in the past.
LEMMA IdsStep ==
    ASSUME TypeInv, IdsPast, NEW w \in Procs, ProcStep(w) \/ EnvStep(w)
    PROVE  IdsPast'
<1> SUFFICES ASSUME NEW a \in runs', NEW v \in Procs, a.id[1] = v
             PROVE  /\ a.id[2] <= launches'[v]
                    /\ a.id[2] = launches'[v] => a.id[3] <= pos'[v]
                    /\ a.id[2] = launches'[v] /\ a.id[3] = pos'[v]
                          => pc'[v] \in Kinds \cup {"down"}
  BY DEF IdsPast, Kinds
<1>0. launches[v] \in Nat /\ pos[v] \in Nat
  BY DEF TypeInv, TypeOK, ProcTypeOK
<1>1. CASE a \in runs
  <2>1. a.id \in Procs \X Nat \X Nat
    BY <1>1 DEF TypeInv, TypeOK, DbTypeOK, AuditType
  <2>2. a.id[2] \in Nat /\ a.id[3] \in Nat
    BY <2>1
  <2>3. /\ a.id[2] <= launches[v]
        /\ a.id[2] = launches[v] => a.id[3] <= pos[v]
        /\ a.id[2] = launches[v] /\ a.id[3] = pos[v] => pc[v] \in Kinds \cup {"down"}
    BY <1>1 DEF IdsPast
  <2>4. CASE v = w
    BY <1>0, <2>2, <2>3, <2>4, IdShape
  <2>5. CASE v # w
    BY <2>3, <2>5, Others
  <2> QED
    BY <2>4, <2>5
<1>2. CASE a \notin runs
  <2>1. a.id = RunId(w)
    BY <1>2, NewAudit
  <2>2. v = w /\ a.id[2] = launches[w] /\ a.id[3] = pos[w]
    BY <2>1 DEF RunId
  <2> QED
    BY <1>0, <1>2, <2>2, RecordEnds
<1> QED
  BY <1>1, <1>2

\* Every step keeps the counted rows apart.
LEMMA CreditsStep ==
    ASSUME TypeInv, CreditInv, NEW w \in Procs, ProcStep(w) \/ EnvStep(w)
    PROVE  CreditsApart'
<1> SUFFICES ASSUME NEW v \in Procs, pc'[v] \in Stages, NEW t \in AuditTables
             PROVE  /\ run'[v].ins[t] \subseteq rows'[t][run'[v].sym]
                    /\ \A x \in Procs :
                          x # v /\ pc'[x] \in Stages /\ run'[x].sym = run'[v].sym
                            => run'[x].ins[t] \cap run'[v].ins[t] = {}
                    /\ pc'[v] \notin Kinds =>
                          \A a \in runs' : a.sym = run'[v].sym
                            => a.ins[t] \cap run'[v].ins[t] = {}
  BY DEF CreditsApart, Stages, Kinds
<1>0. t \in Tables
  BY DEF AuditTables, Tables
<1>1. ASSUME NEW x \in Procs, pc'[x] \in Stages, NEW r \in run'[x].ins[t]
      PROVE  \/ /\ pc[x] \in Stages /\ (pc'[x] \notin Kinds => pc[x] \notin Kinds)
                /\ run'[x].sym = run[x].sym /\ r \in run[x].ins[t]
             \/ /\ x = w
                /\ r \in rows'[t][run'[x].sym] /\ r \notin rows[t][run'[x].sym]
  BY <1>1, CreditShape, Others
<1>2. ASSUME NEW x \in Procs, pc[x] \in Stages
      PROVE  /\ run[x].sym \in Symbols
             /\ run[x].ins[t] \subseteq rows[t][run[x].sym]
             /\ rows[t][run[x].sym] \subseteq rows'[t][run[x].sym]
  <2>1. run[x].sym \in Symbols
    BY <1>2 DEF TypeInv, InFlight
  <2>2. [Next]_ingestVars
    BY DEF Next
  <2> QED
    BY <1>0, <1>2, <2>1, <2>2, Monotone DEF CreditInv, CreditsApart
<1>3. run'[v].ins[t] \subseteq rows'[t][run'[v].sym]
  BY <1>1, <1>2
<1>4. ASSUME NEW x \in Procs, x # v, pc'[x] \in Stages, run'[x].sym = run'[v].sym,
             NEW r \in run'[x].ins[t], r \in run'[v].ins[t]
      PROVE  FALSE
  <2>1. CASE /\ pc[x] \in Stages /\ run'[x].sym = run[x].sym /\ r \in run[x].ins[t]
             /\ pc[v] \in Stages /\ run'[v].sym = run[v].sym /\ r \in run[v].ins[t]
    BY <1>4, <2>1 DEF CreditInv, CreditsApart
  <2> QED
    BY <1>1, <1>2, <1>4, <2>1
<1>5. ASSUME pc'[v] \notin Kinds, NEW a \in runs', a.sym = run'[v].sym,
             NEW r \in a.ins[t], r \in run'[v].ins[t]
      PROVE  FALSE
  <2>1. CASE a \in runs
    <3>1. a.ins[t] \subseteq rows[t][a.sym]
      BY <2>1 DEF CreditInv, EachRowCountedOnce
    <3>2. CASE /\ pc[v] \in Stages /\ pc[v] \notin Kinds
               /\ run'[v].sym = run[v].sym /\ r \in run[v].ins[t]
      BY <1>5, <2>1, <3>2 DEF CreditInv, CreditsApart
    <3> QED
      BY <1>1, <1>5, <3>1, <3>2
  <2>2. CASE a \notin runs
    <3>1. /\ pc[w] \in Stages /\ a.sym = run[w].sym
          /\ a.ins[t] = run[w].ins[t] /\ runs' # runs
      BY <2>2, NewAudit
    <3>2. v # w
      BY <1>5, <3>1, RecordEnds DEF Stages, Tables, Kinds
    <3>3. pc[v] \in Stages /\ run[v].sym = run'[v].sym /\ run'[v].ins = run[v].ins
      BY <3>2, Others
    <3> QED
      BY <1>5, <3>1, <3>2, <3>3 DEF CreditInv, CreditsApart
  <2> QED
    BY <2>1, <2>2
<1> QED
  BY <1>3, <1>4, <1>5

\* Every step keeps the audit rows' counts apart.
LEMMA CountedStep ==
    ASSUME TypeInv, CreditInv, NEW w \in Procs, ProcStep(w) \/ EnvStep(w)
    PROVE  EachRowCountedOnce'
<1>0. [Next]_ingestVars
  BY DEF Next
<1>1. ASSUME NEW a \in runs', a \notin runs, NEW b \in runs
      PROVE  a.id # b.id
  <2>1. a.id = RunId(w) /\ pc[w] \in Stages \ Kinds /\ pc[w] # "down"
    BY <1>1, NewAudit
  <2>2. b.id # RunId(w)
    BY <2>1 DEF CreditInv, IdsPast, RunId
  <2> QED
    BY <2>1, <2>2
<1>2. ASSUME NEW a \in runs', a \notin runs, NEW b \in runs, a.sym = b.sym,
             NEW t \in AuditTables
      PROVE  a.ins[t] \cap b.ins[t] = {}
  BY <1>2, NewAudit DEF CreditInv, CreditsApart
<1>3. ASSUME NEW a \in runs', NEW b \in runs', a \notin runs, b \notin runs
      PROVE  a = b
  BY <1>3, NewAudit
<1>4. ASSUME NEW a \in runs', NEW t \in AuditTables
      PROVE  a.ins[t] \subseteq rows'[t][a.sym]
  <2>0. t \in Tables
    BY DEF AuditTables, Tables
  <2>1. CASE a \in runs
    <3>1. a.sym \in Symbols
      BY <2>1 DEF TypeInv, TypeOK, DbTypeOK, AuditType
    <3> QED
      BY <1>0, <2>0, <2>1, <3>1, Monotone DEF CreditInv, EachRowCountedOnce
  <2>2. CASE a \notin runs
    <3>1. pc[w] \in Stages /\ a.sym = run[w].sym /\ a.ins[t] = run[w].ins[t]
      BY <2>2, NewAudit
    <3>2. run[w].sym \in Symbols
      BY <3>1 DEF TypeInv, InFlight
    <3> QED
      BY <1>0, <2>0, <3>1, <3>2, Monotone DEF CreditInv, CreditsApart
  <2> QED
    BY <2>1, <2>2
<1>5. ASSUME NEW a \in runs', NEW b \in runs', a.id = b.id
      PROVE  a = b
  BY <1>1, <1>3, <1>5 DEF CreditInv, EachRowCountedOnce
<1>6. ASSUME NEW a \in runs', NEW b \in runs', a.sym = b.sym, a # b,
             NEW t \in AuditTables
      PROVE  a.ins[t] \cap b.ins[t] = {}
  <2>1. CASE a \in runs /\ b \in runs
    BY <1>6, <2>1 DEF CreditInv, EachRowCountedOnce
  <2>2. CASE a \notin runs /\ b \in runs
    BY <1>2, <1>6, <2>2
  <2>3. CASE a \in runs /\ b \notin runs
    <3>1. b.ins[t] \cap a.ins[t] = {}
      BY <1>2, <1>6, <2>3
    <3> QED
      BY <3>1
  <2> QED
    BY <1>3, <1>6, <2>1, <2>2, <2>3
<1> QED
  BY <1>4, <1>5, <1>6 DEF EachRowCountedOnce

\* The counters of ingestion_runs never claim a row twice, nor one that is not
\* stored, however the inserts of any number of processes interleave.
THEOREM RowsCountedOnce == Spec => []EachRowCountedOnce
<1>1. Init => CreditInv
  BY DEF Init, CreditInv, IdsPast, CreditsApart, EachRowCountedOnce, Stages, Tables, Kinds
<1>2. TypeInv /\ CreditInv /\ [Next]_ingestVars => CreditInv'
  <2> SUFFICES ASSUME TypeInv, CreditInv, [Next]_ingestVars
               PROVE  CreditInv'
    OBVIOUS
  <2>1. CASE UNCHANGED ingestVars
    BY <2>1 DEF ingestVars, CreditInv, IdsPast, CreditsApart, EachRowCountedOnce
  <2>2. CASE Next
    <3>1. PICK w \in Procs : ProcStep(w) \/ EnvStep(w)
      BY <2>2 DEF Next
    <3> QED
      BY <3>1, IdsStep, CreditsStep, CountedStep DEF CreditInv
  <2> QED
    BY <2>1, <2>2
<1>3. CreditInv => EachRowCountedOnce
  BY DEF CreditInv
<1> QED
  BY <1>1, <1>2, <1>3, TypeInit, TypeStep, PTL DEF Spec

-----------------------------------------------------------------------------
(* Stored prices are ordered.                                               *)

Ordered(p) ==
    /\ \A f \in PriceFigures : ~Lt(p[f], 0)
    /\ ~Lt(p.high, p.open) /\ ~Lt(p.high, p.close)
    /\ ~Lt(p.open, p.low) /\ ~Lt(p.close, p.low)
    /\ 0 <= p.volume /\ p.date # 0

\* What validPrices lets through is ordered once it is stored.
LEMMA BatchOrdered ==
    ASSUME NEW sn \in Snapshots, NEW p \in Batch("prices", sn)
    PROVE  Ordered(p)
<1>1. PICK i \in Kept("prices", sn) : p = Stored("prices", sn["prices"][i])
  BY DEF Batch
<1> DEFINE r == sn["prices"][i]
<1>2. i \in DOMAIN sn["prices"] /\ ValidPrice(r)
  BY DEF Kept, ValidRow
<1>3. /\ PriceFigures \cup {"volume", "period", "date"} \subseteq DOMAIN r
      /\ \A f \in PriceFigures : r[f] \in Int \cup {NaN}
      /\ r.volume \in Int
  BY <1>2, StoreAssumption DEF Tables
<1>4. p = [r EXCEPT !.open = Numeric(@), !.high = Numeric(@),
                    !.low = Numeric(@), !.close = Numeric(@)]
  BY <1>1 DEF Stored
<1> HIDE DEF r
<1>5. /\ \A f \in PriceFigures : p[f] = Numeric(r[f])
      /\ p.volume = r.volume /\ p.date = r.date
  BY <1>3, <1>4 DEF PriceFigures
<1>6. /\ \A f \in PriceFigures : ~Le(r[f], 0)
      /\ ~Lt(r.high, r.open) /\ ~Lt(r.high, r.close)
      /\ ~Lt(r.open, r.low) /\ ~Lt(r.close, r.low)
      /\ r.volume >= 0 /\ r.date # 0
  BY <1>2 DEF ValidPrice
<1>7. \A f \in PriceFigures : ~Lt(p[f], 0)
  BY <1>3, <1>5, <1>6, NumericOrder
<1>8. \A f, g \in PriceFigures : ~Lt(r[f], r[g]) => ~Lt(p[f], p[g])
  BY <1>3, <1>5, NumericOrder
<1>9. {"open", "high", "low", "close"} \subseteq PriceFigures
  BY DEF PriceFigures
<1>10. /\ ~Lt(p.high, p.open) /\ ~Lt(p.high, p.close)
       /\ ~Lt(p.open, p.low) /\ ~Lt(p.close, p.low)
  BY <1>6, <1>8, <1>9
<1> QED
  BY <1>3, <1>5, <1>6, <1>7, <1>10 DEF Ordered

\* A bulk insert adds ordered prices only.
LEMMA OrderedStep == TypeInv /\ StoredPricesOrdered /\ [Next]_ingestVars => StoredPricesOrdered'
<1> SUFFICES ASSUME TypeInv, StoredPricesOrdered, [Next]_ingestVars,
                    NEW s \in Symbols, NEW p \in rows'["prices"][s]
             PROVE  Ordered(p)
  BY DEF StoredPricesOrdered, Ordered
<1>1. CASE p \in rows["prices"][s]
  BY <1>1 DEF StoredPricesOrdered, Ordered
<1>2. CASE p \notin rows["prices"][s]
  <2>1. PICK w \in Procs : ProcStep(w) \/ EnvStep(w)
    BY <1>2 DEF Next, ingestVars
  <2>2. PICK u \in Tables : pc[w] = u /\ PutRows(w, u)
    BY <1>2, <2>1, RowsShape
  <2>3. "prices" \in Tables
    BY DEF Tables
  <2>4. u = "prices" /\ p \in Added(w, u)
    BY <1>2, <2>2, <2>3, PutRowsAt
  <2>5. run[w].snap \in Snapshots
    BY <2>2 DEF TypeInv, InFlight, Stages, Tables, Kinds
  <2> QED
    BY <2>4, <2>5, BatchOrdered DEF Added, NewRows
<1> QED
  BY <1>1, <1>2

\* Whatever a snapshot contains, NaN and infinities included, the figures of a
\* stored price that are numbers have low <= open, close <= high and nothing
\* negative, after validation and rounding.
THEOREM PricesStayOrdered == Spec => []StoredPricesOrdered
<1>1. Init => StoredPricesOrdered
  BY DEF Init, StoredPricesOrdered, Tables
<1> QED
  BY <1>1, TypeInit, TypeStep, OrderedStep, PTL DEF Spec

-----------------------------------------------------------------------------
(* What an Ingest knows of itself.                                          *)

\* The stages at which table t is not inserted yet.
Before(t) == ({"fetch", "company"} \cup Tables) \ PastOf[t]

\* An Ingest is for the item the loop is at, has counted nothing of the tables
\* still to come, and is recorded when it purges.
Itemised ==
    \A w \in Procs :
        /\ pc[w] \in Stages => pos[w] <= Len(argv[w]) /\ run[w].sym = Item(w)
        /\ \A t \in Tables : pc[w] \in Before(t) => run[w].ins[t] = {}
        /\ pc[w] \in Kinds => AuditRow(w, "success") \in runs

\* The items a launch has left behind without an error, while its deadline has
\* not passed: blank ones and ones with a success in ingestion_runs.
Done(w, i) ==
    Norm[argv[w][i]] # Blank =>
        \E a \in runs : /\ a.id = <<w, launches[w], i>>
                        /\ a.sym = Norm[argv[w][i]]
                        /\ a.status = "success"

CleanSoFar ==
    \A w \in Procs :
        /\ exit[w] = "ok" => pc[w] = "down" /\ ~failed[w] /\ pos[w] > Len(argv[w])
        /\ ~failed[w] /\ ~ctxDone[w] =>
              \A i \in 1 .. Len(argv[w]) : i < pos[w] => Done(w, i)

\* A context expires by a deadline only.
CtxLives == "deadline" \notin Faults => \A w \in Procs : ~ctxDone[w]

\* The stage after a table is before a later table only.
LEMMA AfterBefore ==
    ASSUME NEW t \in Tables, NEW u \in Tables, NEW sn, After(t, sn) \in Before(u)
    PROVE  t \in Before(u) /\ u # t
<1> USE DEF Tables, PastOf, Before, AfterPrices, AfterIncome, AfterBalance
<1>1. CASE t = "prices"
  BY <1>1, AfterIs
<1>2. CASE t = "income"
  BY <1>2, AfterIs
<1>3. CASE t = "balance"
  BY <1>3, AfterIs
<1>4. CASE t = "cashflow"
  BY <1>4, AfterIs
<1> QED
  BY <1>1, <1>2, <1>3, <1>4

\* Nothing is inserted at the fetch and the company's upsert.
LEMMA BeforeAll ==
    /\ \A t \in Tables : "fetch" \in Before(t) /\ "company" \in Before(t)
    /\ \A t \in Tables : Before(t) \subseteq Stages \ ({"record", "fail"} \cup Kinds)
BY DEF Before, PastOf, Tables, Stages, Kinds

-----------------------------------------------------------------------------
(* How a step moves the process that takes it.                              *)

SameLaunch(w) ==
    /\ launches'[w] = launches[w] /\ argv'[w] = argv[w]
    /\ ctxDone[w] => ctxDone'[w]

\* The process stays at its item.
Stays(w) ==
    /\ SameLaunch(w) /\ pos'[w] = pos[w] /\ failed'[w] = failed[w]
    /\ \/ pc'[w] = "down" /\ exit'[w] = "killed"
       \/ /\ pc'[w] = "down" /\ exit'[w] = (IF failed[w] THEN "error" ELSE "ok")
          /\ pos[w] > Len(argv[w])
       \/ /\ exit'[w] = exit[w] /\ pc[w] # "down"
          /\ \/ pc'[w] = pc[w] /\ run'[w] = run[w]
             \/ /\ pc[w] = "loop" /\ pc'[w] = "fetch"
                /\ pos[w] <= Len(argv[w]) /\ run'[w].sym = Item(w)
                /\ run'[w].ins = run[w].ins
             \/ /\ pc[w] \in Stages /\ pc'[w] \in Stages
                /\ run'[w].sym = run[w].sym
                /\ \A t \in Tables : pc'[w] \in Before(t) =>
                      pc[w] \in Before(t) /\ run'[w].ins[t] = run[w].ins[t]
                /\ pc'[w] \in Kinds =>
                      /\ run'[w] = run[w]
                      /\ pc[w] \in Kinds \/ AuditRow(w, "success") \in runs'

\* The process is done with its item.
MovesOn(w) ==
    /\ SameLaunch(w) /\ pos'[w] = pos[w] + 1 /\ exit'[w] = exit[w]
    /\ pc[w] \in {"loop"} \cup Stages /\ pc'[w] = "loop"
    /\ failed[w] => failed'[w]
    /\ \/ failed'[w]
       \/ pc[w] = "loop" /\ Skipped(w)
       \/ pc[w] \in Stages /\ (pc[w] \in Kinds \/ AuditRow(w, "success") \in runs')

\* The process starts a list.
Starts(w) ==
    /\ pc[w] = "down" /\ pc'[w] \in {"down", "loop"} /\ pos'[w] = 1
    /\ exit'[w] \in {"none", "error"}

\* Returning from Ingest.
LEMMA ReturnMovesOn ==
    ASSUME TypeInv, NEW w \in Procs, NEW err \in BOOLEAN, Return(w, err),
           ctxDone[w] => ctxDone'[w], pc[w] \in Stages,
           ~err => pc[w] \in Kinds \/ AuditRow(w, "success") \in runs'
    PROVE  MovesOn(w)
<1>1. /\ launches' = launches /\ argv' = argv /\ exit' = exit
      /\ pc'[w] = "loop" /\ pos'[w] = pos[w] + 1 /\ failed'[w] = (failed[w] \/ err)
  BY DEF Return, TypeInv, TypeOK, ProcTypeOK
<1> QED
  BY <1>1 DEF MovesOn, SameLaunch

\* Going on to a stage after which nothing is to be purged.
LEMMA GotoStays ==
    ASSUME TypeInv, NEW w \in Procs, NEW stage \in Stages, Goto(w, stage),
           ctxDone[w] => ctxDone'[w], pc[w] \in Stages, run'[w].sym = run[w].sym,
           \A t \in Tables : stage \in Before(t) =>
                pc[w] \in Before(t) /\ run'[w].ins[t] = run[w].ins[t],
           stage \in Kinds =>
                /\ run'[w] = run[w]
                /\ pc[w] \in Kinds \/ AuditRow(w, "success") \in runs'
    PROVE  Stays(w)
<1>1. /\ launches' = launches /\ argv' = argv /\ exit' = exit /\ failed' = failed
      /\ pc'[w] = stage /\ pos' = pos
  BY DEF Goto, TypeInv, TypeOK, ProcTypeOK
<1>2. pc[w] # "down"
  BY DEF Stages, Tables, Kinds
<1> QED
  BY <1>1, <1>2 DEF Stays, SameLaunch

\* A context that has expired stays expired.
LEMMA CtxMonotone ==
    ASSUME TypeInv, NEW w \in Procs, NEW callee, NEW applied \in BOOLEAN,
           Completes(w) \/ Errs(w, callee, applied)
    PROVE  ctxDone[w] => ctxDone'[w]
BY DEF Completes, Errs, TypeInv, TypeOK, ProcTypeOK

\* The three ways a step can move its process.
LEMMA WalkShape ==
    ASSUME TypeInv, NEW w \in Procs, ProcStep(w) \/ EnvStep(w)
    PROVE  Stays(w) \/ MovesOn(w) \/ Starts(w)
<1>0. run \in [Procs -> RunType] /\ run[w] \in RunType
  BY DEF TypeInv, TypeOK, ProcTypeOK
<1>s. /\ {"fetch", "company", "record", "fail", "analytics", "technical"} \subseteq Stages
      /\ Tables \subseteq Stages /\ "fail" \notin Kinds
      /\ {"fetch", "company"} \cap Kinds = {} /\ "record" \notin Kinds
      /\ Tables \cap Kinds = {} /\ "down" \notin Stages /\ "loop" \notin Stages
  BY DEF Stages, Tables, Kinds
<1>1. CASE Skip(w) \/ Reject(w)
  BY <1>1 DEF Skip, Reject, MovesOn, SameLaunch, TypeInv, TypeOK, ProcTypeOK
<1>2. CASE Begin(w)
  <2>1. run'[w].sym = Item(w) /\ run'[w].ins = run[w].ins
    BY <1>0, <1>2 DEF Begin, RunType
  <2> QED
    BY <1>2, <2>1 DEF Begin, Stays, SameLaunch, TypeInv, TypeOK, ProcTypeOK
<1>3. CASE Exit(w)
  BY <1>3 DEF Exit, Stays, SameLaunch, TypeInv, TypeOK, ProcTypeOK
<1>4. CASE \E sn \in Snapshots : Fetch(w, sn)
  <2>1. PICK sn \in Snapshots : Fetch(w, sn)
    BY <1>4
  <2>2. run'[w].sym = run[w].sym /\ run'[w].ins = run[w].ins
    BY <1>0, <2>1 DEF Fetch, RunType
  <2> QED
    BY <1>s, <2>1, <2>2, GotoStays, BeforeAll, CtxMonotone DEF Fetch
<1>5. CASE FetchErr(w)
  BY <1>s, <1>5, GotoStays, BeforeAll, CtxMonotone DEF FetchErr
<1>6. CASE UpsertCompany(w)
  BY <1>s, <1>6, GotoStays, BeforeAll, CtxMonotone DEF UpsertCompany, Tables
<1>7. CASE \E applied \in BOOLEAN :
             \/ UpsertCompanyErr(w, applied)
             \/ \E t \in Tables : InsertErr(w, t, applied)
  BY <1>s, <1>7, GotoStays, BeforeAll, CtxMonotone DEF UpsertCompanyErr, InsertErr
<1>8. CASE \E t \in Tables : Insert(w, t)
  <2>1. PICK t \in Tables : Insert(w, t)
    BY <1>8
  <2>2. run'[w].sym = run[w].sym /\ \A u \in Tables \ {t} : run'[w].ins[u] = run[w].ins[u]
    BY <1>0, <2>1 DEF Insert, RunType
  <2>3. After(t, run[w].snap) \in Stages
    BY AfterStage
  <2>4. After(t, run[w].snap) \notin Kinds
    BY AfterIs DEF AfterPrices, AfterIncome, AfterBalance, Tables, Kinds
  <2> QED
    BY <1>s, <2>1, <2>2, <2>3, <2>4, AfterBefore, GotoStays, CtxMonotone DEF Insert
<1>9. CASE RecordSuccess(w)
  <2>1. AuditRow(w, "success") \in runs'
    BY <1>9 DEF RecordSuccess
  <2>2. CASE HasCache
    BY <1>s, <1>9, <2>1, <2>2, GotoStays, BeforeAll, CtxMonotone DEF RecordSuccess, Kinds
  <2>3. CASE ~HasCache
    BY <1>s, <1>9, <2>1, <2>3, ReturnMovesOn, CtxMonotone DEF RecordSuccess
  <2> QED
    BY <2>2, <2>3
<1>10. CASE \/ RecordFailure(w)
            \/ \E applied \in BOOLEAN :
                  RecordSuccessErr(w, applied) \/ RecordFailureErr(w, applied)
  BY <1>s, <1>10, ReturnMovesOn, CtxMonotone
  DEF RecordFailure, RecordSuccessErr, RecordFailureErr
<1>11. CASE \E kind \in Kinds, applied \in BOOLEAN : Purge(w, kind, applied)
  <2>1. PICK kind \in Kinds, applied \in BOOLEAN : Purge(w, kind, applied)
    BY <1>11
  <2>2. ctxDone[w] => ctxDone'[w]
    BY <2>1, CtxMonotone DEF Purge
  <2>3. CASE kind = "analytics"
    BY <1>s, <2>1, <2>2, <2>3, GotoStays, BeforeAll DEF Purge, Kinds
  <2>4. CASE kind # "analytics"
    BY <1>s, <2>1, <2>2, <2>4, ReturnMovesOn DEF Purge, Kinds
  <2> QED
    BY <2>3, <2>4
<1>12. CASE \E list \in ArgLists : Launch(w, list)
  BY <1>12 DEF Launch, Starts, TypeInv, TypeOK, ProcTypeOK
<1>13. CASE Deadline(w)
  BY <1>13 DEF Deadline, Stays, SameLaunch, TypeInv, TypeOK, ProcTypeOK
<1>14. CASE Crash(w)
  BY <1>14 DEF Crash, Stays, SameLaunch, TypeInv, TypeOK, ProcTypeOK
<1> QED
  BY <1>1, <1>2, <1>3, <1>4, <1>5, <1>6, <1>7, <1>8, <1>9, <1>10, <1>11, <1>12, <1>13, <1>14
  DEF ProcStep, QuietStep, EnvStep

\* The loops of the other processes are left alone.
LEMMA OtherLoops ==
    ASSUME TypeInv, NEW w \in Procs, ProcStep(w) \/ EnvStep(w),
           NEW v \in Procs, v # w
    PROVE  /\ argv'[v] = argv[v] /\ ctxDone'[v] = ctxDone[v]
           /\ failed'[v] = failed[v] /\ exit'[v] = exit[v]
<1> USE DEF TypeInv, TypeOK, ProcTypeOK
<1>1. CASE QuietStep(w)
  BY <1>1 DEF QuietStep, Skip, Reject, Begin, Exit, FetchErr, UpsertCompany, RecordFailure,
     Fetch, Insert, UpsertCompanyErr, InsertErr, RecordSuccessErr, RecordFailureErr,
     Goto, Return, Completes, Errs
<1>2. CASE RecordSuccess(w) \/ \E kind \in Kinds, applied \in BOOLEAN : Purge(w, kind, applied)
  BY <1>2 DEF RecordSuccess, Purge, Goto, Return, Completes, Errs
<1>3. CASE EnvStep(w)
  BY <1>3 DEF EnvStep, Launch, Deadline, Crash
<1> QED
  BY <1>1, <1>2, <1>3 DEF ProcStep

-----------------------------------------------------------------------------
(* A clean exit means that every symbol was ingested.                       *)

\* An audit row depends on its process alone.
LEMMA SameAuditRow ==
    ASSUME NEW v, run'[v] = run[v], launches'[v] = launches[v], pos'[v] = pos[v]
    PROVE  AuditRow(v, "success")' = AuditRow(v, "success")
BY DEF AuditRow, RunId

\* Every step keeps an Ingest at its item.
LEMMA ItemisedStep ==
    ASSUME TypeInv, Itemised, NEW w \in Procs, ProcStep(w) \/ EnvStep(w)
    PROVE  Itemised'
<1> SUFFICES ASSUME NEW v \in Procs
             PROVE  /\ pc'[v] \in Stages => pos'[v] <= Len(argv'[v]) /\ run'[v].sym = Item(v)'
                    /\ \A t \in Tables : pc'[v] \in Before(t) => run'[v].ins[t] = {}
                    /\ pc'[v] \in Kinds => AuditRow(v, "success")' \in runs'
  BY DEF Itemised, Stages, Before, Kinds
<1>0. runs \subseteq runs'
  BY Monotone DEF Next
<1>1. CASE v # w
  <2>1. /\ pc'[v] = pc[v] /\ run'[v] = run[v] /\ launches'[v] = launches[v]
        /\ pos'[v] = pos[v] /\ argv'[v] = argv[v]
    BY <1>1, Others, OtherLoops
  <2> QED
    BY <1>0, <2>1, SameAuditRow DEF Itemised, Item
<1>2. CASE v = w /\ pc'[v] \notin Stages
  <2>1. Kinds \subseteq Stages
    BY DEF Stages
  <2> QED
    BY <1>2, <2>1, BeforeAll
<1>3. CASE v = w /\ pc'[v] \in Stages
  <2>0. "down" \notin Stages /\ "loop" \notin Stages /\ "fetch" \notin Kinds
    BY DEF Stages, Tables, Kinds
  <2>1. Stays(w)
    BY <1>3, <2>0, WalkShape DEF MovesOn, Starts
  <2>2. /\ launches'[w] = launches[w] /\ pos'[w] = pos[w] /\ argv'[w] = argv[w]
        /\ Item(w)' = Item(w)
    BY <2>1 DEF Stays, SameLaunch, Item
  <2>3. CASE pc'[w] = pc[w] /\ run'[w] = run[w]
    BY <1>0, <1>3, <2>2, <2>3, SameAuditRow DEF Itemised
  <2>4. CASE /\ pc[w] = "loop" /\ pc'[w] = "fetch"
             /\ pos[w] <= Len(argv[w]) /\ run'[w].sym = Item(w)
             /\ run'[w].ins = run[w].ins
    <3>1. run[w] = NoRun
      BY <2>0, <2>4 DEF TypeInv, InFlight
    <3>2. \A t \in Tables : run'[w].ins[t] = {}
      BY <2>4, <3>1 DEF NoRun, Nothing
    <3> QED
      BY <1>3, <2>0, <2>2, <2>4, <3>2
  <2>5. CASE /\ pc[w] \in Stages
             /\ run'[w].sym = run[w].sym
             /\ \A t \in Tables : pc'[w] \in Before(t) =>
                   pc[w] \in Before(t) /\ run'[w].ins[t] = run[w].ins[t]
             /\ pc'[w] \in Kinds =>
                   /\ run'[w] = run[w]
                   /\ pc[w] \in Kinds \/ AuditRow(w, "success") \in runs'
    BY <1>0, <1>3, <2>2, <2>5, SameAuditRow DEF Itemised
  <2> QED
    BY <1>3, <2>0, <2>1, <2>3, <2>4, <2>5 DEF Stays
<1> QED
  BY <1>1, <1>2, <1>3

\* What was done stays done while the launch goes on.
LEMMA DoneStays ==
    ASSUME NEW v, NEW i, Done(v, i), runs \subseteq runs',
           launches'[v] = launches[v], argv'[v] = argv[v]
    PROVE  Done(v, i)'
BY DEF Done

\* Every step leaves a clean launch with its items done.
LEMMA CleanStep ==
    ASSUME TypeInv, Itemised, CleanSoFar, NEW w \in Procs, ProcStep(w) \/ EnvStep(w)
    PROVE  CleanSoFar'
<1> SUFFICES ASSUME NEW v \in Procs
             PROVE  /\ exit'[v] = "ok" =>
                          pc'[v] = "down" /\ ~failed'[v] /\ pos'[v] > Len(argv'[v])
                    /\ ~failed'[v] /\ ~ctxDone'[v] =>
                          \A i \in 1 .. Len(argv'[v]) : i < pos'[v] => Done(v, i)'
  BY DEF CleanSoFar
<1>0. runs \subseteq runs'
  BY Monotone DEF Next
<1>1. CASE v # w
  <2>1. /\ pc'[v] = pc[v] /\ launches'[v] = launches[v] /\ pos'[v] = pos[v]
        /\ argv'[v] = argv[v] /\ ctxDone'[v] = ctxDone[v]
        /\ failed'[v] = failed[v] /\ exit'[v] = exit[v]
    BY <1>1, Others, OtherLoops
  <2> QED
    BY <1>0, <2>1, DoneStays DEF CleanSoFar
<1>2. CASE v = w /\ Stays(w)
  <2>1. /\ launches'[w] = launches[w] /\ argv'[w] = argv[w] /\ pos'[w] = pos[w]
        /\ failed'[w] = failed[w] /\ (ctxDone[w] => ctxDone'[w])
    BY <1>2 DEF Stays, SameLaunch
  <2>2. ~failed'[w] /\ ~ctxDone'[w] =>
           \A i \in 1 .. Len(argv'[w]) : i < pos'[w] => Done(w, i)'
    BY <1>0, <2>1, DoneStays DEF CleanSoFar
  <2>3. exit'[w] = "ok" => pc'[w] = "down" /\ ~failed'[w] /\ pos'[w] > Len(argv'[w])
    BY <1>2, <2>1 DEF CleanSoFar, Stays
  <2> QED
    BY <1>2, <2>2, <2>3
<1>3. CASE v = w /\ MovesOn(w)
  <2>1. /\ launches'[w] = launches[w] /\ argv'[w] = argv[w] /\ pos'[w] = pos[w] + 1
        /\ (ctxDone[w] => ctxDone'[w]) /\ (failed[w] => failed'[w])
        /\ pos[w] \in Nat /\ Len(argv[w]) \in Nat
    BY <1>3 DEF MovesOn, SameLaunch, TypeInv, TypeOK, ProcTypeOK
  <2>2. exit'[w] # "ok"
    BY <1>3 DEF MovesOn, CleanSoFar, Stages, Tables, Kinds
  <2>3. ASSUME ~failed'[w], ~ctxDone'[w], NEW i, i = pos[w] PROVE Done(w, i)'
    <3>1. CASE pc[w] = "loop" /\ Skipped(w)
      BY <2>1, <2>3, <3>1 DEF Skipped, Item, Done
    <3>2. CASE pc[w] \in Stages /\ (pc[w] \in Kinds \/ AuditRow(w, "success") \in runs')
      <4>1. AuditRow(w, "success") \in runs' /\ run[w].sym = Item(w)
        BY <1>0, <3>2 DEF Itemised
      <4>2. /\ AuditRow(w, "success").id = <<w, launches[w], pos[w]>>
            /\ AuditRow(w, "success").sym = run[w].sym
            /\ AuditRow(w, "success").status = "success"
        BY DEF AuditRow, RunId
      <4> QED
        BY <2>1, <2>3, <4>1, <4>2 DEF Done, Item
    <3> QED
      BY <1>3, <2>3, <3>1, <3>2 DEF MovesOn
  <2>4. ASSUME ~failed'[w], ~ctxDone'[w], NEW i \in 1 .. Len(argv'[w]), i < pos'[w]
        PROVE  Done(w, i)'
    <3>1. i < pos[w] \/ i = pos[w]
      BY <2>1, <2>4
    <3>2. i < pos[w] => Done(w, i)
      BY <2>1, <2>4 DEF CleanSoFar
    <3> QED
      BY <1>0, <2>1, <2>3, <2>4, <3>1, <3>2, DoneStays
  <2> QED
    BY <1>3, <2>2, <2>4
<1>4. CASE v = w /\ Starts(w)
  <2>1. exit'[w] # "ok" /\ pos'[w] = 1
    BY <1>4 DEF Starts
  <2>2. ASSUME NEW i \in 1 .. Len(argv'[w]) PROVE ~(i < 1)
    OBVIOUS
  <2> QED
    BY <1>4, <2>1, <2>2
<1> QED
  BY <1>1, <1>2, <1>3, <1>4, WalkShape

\* The parts of the invariant that hold under every fault.
WalkInv == TypeInv /\ Itemised /\ CleanSoFar

\* Initially no list is walked.
LEMMA WalkInit == Init => WalkInv
<1> SUFFICES ASSUME Init PROVE WalkInv
  OBVIOUS
<1>1. Itemised
  BY BeforeAll DEF Init, Itemised, Stages, Tables, Kinds
<1>2. CleanSoFar
  BY DEF Init, CleanSoFar
<1> QED
  BY <1>1, <1>2, TypeInit DEF WalkInv

\* Every step keeps them.
LEMMA WalkStep == WalkInv /\ [Next]_ingestVars => WalkInv'
<1> SUFFICES ASSUME WalkInv, [Next]_ingestVars PROVE WalkInv'
  OBVIOUS
<1>1. TypeInv'
  BY TypeStep DEF WalkInv
<1>2. CASE Next
  BY <1>1, <1>2, ItemisedStep, CleanStep DEF WalkInv, Next
<1>3. CASE UNCHANGED ingestVars
  BY <1>1, <1>3
  DEF WalkInv, ingestVars, Itemised, CleanSoFar, Item, AuditRow, RunId, Done
<1> QED
  BY <1>2, <1>3

\* Exit status 0 within the deadline means that every item that is not blank was
\* a valid symbol with a success in ingestion_runs, for every list and whatever
\* failed, died or ran next to it.
THEOREM CleanExit == Spec => []CleanExitMeansIngested
<1>1. WalkInv => CleanExitMeansIngested
  <2> SUFFICES ASSUME WalkInv, NEW w \in Procs, exit[w] = "ok", ~ctxDone[w],
                      NEW i \in 1 .. Len(argv[w])
               PROVE  Done(w, i)
    BY DEF CleanExitMeansIngested, Done
  <2>1. ~failed[w] /\ pos[w] > Len(argv[w])
    BY DEF WalkInv, CleanSoFar
  <2>2. pos[w] \in Nat /\ Len(argv[w]) \in Nat
    BY DEF WalkInv, TypeInv, TypeOK, ProcTypeOK
  <2>3. i < pos[w]
    BY <2>1, <2>2
  <2> QED
    BY <2>1, <2>3 DEF WalkInv, CleanSoFar
<1> QED
  BY <1>1, WalkInit, WalkStep, PTL DEF Spec

-----------------------------------------------------------------------------
(* Every attempt is audited, and every row accounted for.                   *)

\* Without deadlines no context expires.
LEMMA CtxStep ==
    ASSUME TypeInv, CtxLives, NEW w \in Procs, ProcStep(w) \/ EnvStep(w)
    PROVE  CtxLives'
<1> SUFFICES ASSUME "deadline" \notin Faults
             PROVE  \A v \in Procs : ~ctxDone'[v]
  BY DEF CtxLives
<1>0. "deadline" \notin Faults /\ \A v \in Procs : ~ctxDone[v]
  BY DEF CtxLives
<1>1. CASE QuietStep(w)
  BY <1>0, <1>1 DEF QuietStep, Skip, Reject, Begin, Exit, FetchErr, UpsertCompany,
     RecordFailure, Fetch, Insert, UpsertCompanyErr, InsertErr, RecordSuccessErr,
     RecordFailureErr, Completes, Errs
<1>2. CASE RecordSuccess(w) \/ \E kind \in Kinds, applied \in BOOLEAN : Purge(w, kind, applied)
  BY <1>0, <1>2 DEF RecordSuccess, Purge, Completes, Errs
<1>3. CASE EnvStep(w)
  BY <1>0, <1>3 DEF EnvStep, Launch, Deadline, Crash, TypeInv, TypeOK, ProcTypeOK
<1> QED
  BY <1>1, <1>2, <1>3 DEF ProcStep

\* Without deadlines and database faults no database call fails.
LEMMA NoDbError ==
    ASSUME CtxLives, Faults \cap {"db", "deadline"} = {}, NEW w \in Procs,
           NEW applied
    PROVE  ~Errs(w, "db", applied)
BY DEF CtxLives, Errs

\* An Ingest that returns is audited.
LEMMA ReturnAudited ==
    ASSUME TypeInv, Itemised, CtxLives, Faults \cap {"db", "deadline"} = {},
           NEW w \in Procs, ProcStep(w) \/ EnvStep(w),
           pc[w] \in Stages, pc'[w] = "loop"
    PROVE  \E status \in {"success", "failure"} : AuditRow(w, status) \in runs'
<1>s. /\ "loop" \notin Stages /\ "down" \notin Stages /\ Tables \subseteq Stages
      /\ {"fetch", "company", "fail", "analytics", "technical"} \subseteq Stages
  BY DEF Stages, Tables, Kinds
<1> USE DEF TypeInv, TypeOK, ProcTypeOK
<1>1. CASE Skip(w) \/ Reject(w) \/ Begin(w) \/ Exit(w)
  BY <1>s, <1>1 DEF Skip, Reject, Begin, Exit
<1>2. CASE FetchErr(w) \/ UpsertCompany(w) \/ \E sn \in Snapshots : Fetch(w, sn)
  BY <1>s, <1>2 DEF FetchErr, UpsertCompany, Fetch, Goto, Tables
<1>3. CASE \E t \in Tables : Insert(w, t)
  BY <1>s, <1>3, AfterStage DEF Insert, Goto
<1>4. CASE \E applied \in BOOLEAN :
             \/ UpsertCompanyErr(w, applied)
             \/ \E t \in Tables : InsertErr(w, t, applied)
             \/ RecordSuccessErr(w, applied)
             \/ RecordFailureErr(w, applied)
  BY <1>s, <1>4, NoDbError
  DEF UpsertCompanyErr, InsertErr, RecordSuccessErr, RecordFailureErr, Goto
<1>5. CASE RecordSuccess(w) \/ RecordFailure(w)
  BY <1>5 DEF RecordSuccess, RecordFailure
<1>6. CASE \E kind \in Kinds, applied \in BOOLEAN : Purge(w, kind, applied)
  BY <1>6 DEF Purge, db, Itemised
<1>7. CASE EnvStep(w)
  BY <1>s, <1>7 DEF EnvStep, Launch, Deadline, Crash
<1> QED
  BY <1>1, <1>2, <1>3, <1>4, <1>5, <1>6, <1>7 DEF ProcStep, QuietStep

\* The invariant while no database call fails and no deadline passes.
AuditedInv == WalkInv /\ CtxLives

\* It holds initially and every step keeps it.
LEMMA AuditedInvariant == Spec => []AuditedInv
<1>1. Init => AuditedInv
  BY WalkInit DEF Init, AuditedInv, CtxLives
<1>2. AuditedInv /\ [Next]_ingestVars => AuditedInv'
  <2> SUFFICES ASSUME AuditedInv, [Next]_ingestVars PROVE AuditedInv'
    OBVIOUS
  <2>1. WalkInv'
    BY WalkStep DEF AuditedInv
  <2>2. CtxLives'
    BY CtxStep DEF AuditedInv, WalkInv, Next, ingestVars, CtxLives
  <2> QED
    BY <2>1, <2>2 DEF AuditedInv
<1> QED
  BY <1>1, <1>2, PTL DEF Spec

\* Every attempt past symbol validation is recorded in ingestion_runs when no
\* database call fails and no deadline passes; provider and cache errors, crashes
\* of others and races do not lose a record.
THEOREM AttemptsAudited ==
    Faults \cap {"db", "deadline"} = {} => (Spec => EveryAttemptAudited)
<1> SUFFICES ASSUME Faults \cap {"db", "deadline"} = {}
             PROVE  Spec => EveryAttemptAudited
  OBVIOUS
<1> DEFINE Audited == \A w \in Procs : pc[w] \in Stages /\ pc'[w] = "loop" =>
                         \E a \in runs' : a.id = RunId(w)
<1>1. AuditedInv /\ [Next]_ingestVars => [Audited]_ingestVars
  <2> SUFFICES ASSUME AuditedInv, Next, NEW v \in Procs, pc[v] \in Stages, pc'[v] = "loop"
               PROVE  \E a \in runs' : a.id = RunId(v)
    BY Zenon
  <2>1. PICK w \in Procs : ProcStep(w) \/ EnvStep(w)
    BY DEF Next
  <2>2. v = w
    BY <2>1, Others DEF AuditedInv, WalkInv, Stages, Tables, Kinds
  <2>3. \A status : AuditRow(v, status).id = RunId(v)
    BY DEF AuditRow
  <2> QED
    BY <2>1, <2>2, <2>3, ReturnAudited DEF AuditedInv, WalkInv
<1> HIDE DEF Audited
<1>2. Spec => [][Audited]_ingestVars
  BY <1>1, AuditedInvariant, PTL DEF Spec
<1> QED
  BY <1>2 DEF EveryAttemptAudited, Audited

\* What an Ingest in flight has counted it keeps counting, until it is recorded.
LEMMA CreditKept ==
    ASSUME TypeInv, Itemised, CtxLives, Faults \cap {"db", "deadline", "crash"} = {},
           NEW w \in Procs, ProcStep(w) \/ EnvStep(w),
           NEW t \in AuditTables, NEW r \in run[w].ins[t]
    PROVE  \/ run'[w].sym = run[w].sym /\ r \in run'[w].ins[t]
           \/ \E a \in runs' : a.sym = run[w].sym /\ t \in DOMAIN a.ins /\ r \in a.ins[t]
<1>0. run \in [Procs -> RunType] /\ run[w] \in RunType /\ t \in Tables
  BY DEF TypeInv, TypeOK, ProcTypeOK, AuditTables, Tables
<1>f. "crash" \notin Faults /\ Faults \cap {"db", "deadline"} = {}
  OBVIOUS
<1>a. \A status : /\ AuditRow(w, status).sym = run[w].sym
                  /\ t \in DOMAIN AuditRow(w, status).ins
                  /\ r \in AuditRow(w, status).ins[t]
  BY DEF AuditRow
<1>1. CASE Skip(w) \/ Reject(w) \/ Exit(w) \/ FetchErr(w) \/ UpsertCompany(w)
  BY <1>1 DEF Skip, Reject, Exit, FetchErr, UpsertCompany
<1>2. CASE Begin(w)
  <2>1. run[w] = NoRun
    BY <1>2 DEF Begin, TypeInv, InFlight, Stages, Tables, Kinds
  <2> QED
    BY <1>0, <2>1 DEF NoRun, Nothing
<1>3. CASE \E sn \in Snapshots : Fetch(w, sn)
  BY <1>0, <1>3 DEF Fetch, RunType
<1>4. CASE \E u \in Tables : Insert(w, u)
  <2>1. PICK u \in Tables : Insert(w, u)
    BY <1>4
  <2>2. u # t
    <3>1. t \in Before(t)
      BY <1>0 DEF Before, PastOf, Tables
    <3> QED
      BY <1>0, <2>1, <3>1 DEF Insert, Itemised
  <2> QED
    BY <1>0, <2>1, <2>2 DEF Insert, RunType
<1>5. CASE \E applied \in BOOLEAN :
             \/ UpsertCompanyErr(w, applied)
             \/ \E u \in Tables : InsertErr(w, u, applied)
             \/ RecordSuccessErr(w, applied)
             \/ RecordFailureErr(w, applied)
  <2>1. \A u \in Tables, applied \in BOOLEAN : InsertErr(w, u, applied) => run' = run
    BY DEF InsertErr
  <2> QED
    BY <1>f, <1>5, <2>1, NoDbError DEF UpsertCompanyErr, RecordSuccessErr, RecordFailureErr
<1>6. CASE RecordSuccess(w) \/ RecordFailure(w)
  BY <1>a, <1>6 DEF RecordSuccess, RecordFailure
<1>7. CASE \E kind \in Kinds, applied \in BOOLEAN : Purge(w, kind, applied)
  BY <1>a, <1>7 DEF Purge, db, Itemised
<1>8. CASE EnvStep(w)
  BY <1>f, <1>8 DEF EnvStep, Launch, Deadline, Crash
<1> QED
  BY <1>1, <1>2, <1>3, <1>4, <1>5, <1>6, <1>7, <1>8 DEF ProcStep, QuietStep

\* Then a row that is added is counted by the Ingest that adds it.
LEMMA AddedCredited ==
    ASSUME TypeInv, CtxLives, Faults \cap {"db", "deadline", "crash"} = {},
           NEW w \in Procs, ProcStep(w) \/ EnvStep(w),
           NEW t \in AuditTables, NEW s \in Symbols,
           NEW r \in rows'[t][s], r \notin rows[t][s]
    PROVE  run'[w].sym = s /\ r \in run'[w].ins[t]
<1>0. run \in [Procs -> RunType] /\ run[w] \in RunType /\ t \in Tables
  BY DEF TypeInv, TypeOK, ProcTypeOK, AuditTables, Tables
<1>1. PICK u \in Tables : pc[w] = u /\ PutRows(w, u)
  BY RowsShape
<1>2. u = t /\ s = run[w].sym /\ r \in Added(w, t)
  BY <1>0, <1>1, PutRowsAt
<1>3. Insert(w, u)
  <2>1. /\ "down" \notin Tables /\ "loop" \notin Tables /\ "fetch" \notin Tables
        /\ "company" \notin Tables /\ "record" \notin Tables /\ "fail" \notin Tables
        /\ Tables \cap Kinds = {}
    BY DEF Tables, Kinds
  <2>2. rows' # rows
    OBVIOUS
  <2>3. Faults \cap {"db", "deadline"} = {}
    OBVIOUS
  <2>6. \A v \in Tables, applied \in BOOLEAN : InsertErr(w, v, applied) => rows' = rows
    BY <2>3, NoDbError DEF InsertErr
  <2>4. CASE QuietStep(w)
    BY <1>1, <2>1, <2>2, <2>4, <2>6
    DEF QuietStep, Skip, Reject, Begin, Exit, FetchErr, UpsertCompany, RecordFailure, Fetch,
        Insert, UpsertCompanyErr, RecordSuccessErr, RecordFailureErr, db
  <2>5. ~QuietStep(w) => rows' = rows
    BY DEF ProcStep, EnvStep, RecordSuccess, Purge, Launch, Deadline, Crash, db
  <2> QED
    BY <2>2, <2>4, <2>5
<1> QED
  BY <1>0, <1>2, <1>3 DEF Insert, RunType

\* Every step keeps every row accounted for.
LEMMA AccountedStep ==
    AuditedInv /\ RowsAccountedFor /\ [Next]_ingestVars => RowsAccountedFor'
<1> SUFFICES ASSUME AuditedInv, RowsAccountedFor, [Next]_ingestVars,
                    Faults \cap {"db", "deadline", "crash"} = {},
                    NEW t \in AuditTables, NEW s \in Symbols, NEW r \in rows'[t][s]
             PROVE  Credited(t, s, r)'
  BY DEF RowsAccountedFor
<1>0. TypeInv /\ Itemised /\ CtxLives /\ runs \subseteq runs'
  BY Monotone DEF AuditedInv, WalkInv
<1>1. CASE UNCHANGED ingestVars
  BY <1>1 DEF ingestVars, RowsAccountedFor, Credited
<1>2. ASSUME NEW w \in Procs, ProcStep(w) \/ EnvStep(w)
      PROVE  Credited(t, s, r)'
  <2>1. CASE r \notin rows[t][s]
    BY <1>0, <1>2, <2>1, AddedCredited DEF Credited
  <2>2. CASE \E a \in runs : a.sym = s /\ t \in DOMAIN a.ins /\ r \in a.ins[t]
    BY <1>0, <2>2 DEF Credited
  <2>3. ASSUME NEW v \in Procs, run[v].sym = s, r \in run[v].ins[t]
        PROVE  Credited(t, s, r)'
    <3>1. CASE v # w
      BY <1>0, <1>2, <2>3, <3>1, Others DEF Credited
    <3>2. CASE v = w
      BY <1>0, <1>2, <2>3, <3>2, CreditKept DEF Credited
    <3> QED
      BY <3>1, <3>2
  <2> QED
    BY <2>1, <2>2, <2>3 DEF RowsAccountedFor, Credited
<1> QED
  BY <1>1, <1>2 DEF Next

\* While no database call fails, expires or is cut off by a crash, the counters
\* of ingestion_runs and the Ingests in flight account for every stored price,
\* income statement and balance sheet, for any number of processes racing on the
\* same symbols.
THEOREM RowsAccounted == Spec => []RowsAccountedFor
<1>1. Init => RowsAccountedFor
  BY DEF Init, RowsAccountedFor, AuditTables, Tables
<1> QED
  BY <1>1, AuditedInvariant, AccountedStep, PTL DEF Spec

=============================================================================
