----------------------------- MODULE Ingestion -----------------------------
(***************************************************************************)
(* The ingestion pipeline: processes of cmd/ingest, each walking its        *)
(* -symbols list through IngestionService.Ingest (internal/service/         *)
(* ingestion.go), against one shared database.  Every call that leaves the  *)
(* process (provider, database, cache) is a step of its own, so that two    *)
(* processes, a deadline, a failing call or a crash may come between any    *)
(* two of them.  The code between two calls belongs to the earlier step.    *)
(*                                                                          *)
(* The cache the pipeline purges is not a variable here: ReadThrough adds   *)
(* it and gives Purge its effect.                                           *)
(***************************************************************************)
EXTENDS Store

CONSTANTS
    Procs,        \* processes of cmd/ingest that may run at the same time
    Args,         \* the items a -symbols list may hold, as typed
    ArgLists,     \* the -symbols lists, sequences over Args
    Norm,         \* what trimming, uppercasing and symbolRe make of an item
    Blank,        \* Norm of an item that is empty after TrimSpace
    Invalid,      \* Norm of an item symbolRe rejects
    NoSymbol, NoSnapshot,
    MaxLaunches,  \* bound: launches of one process
    HasCache,     \* NewIngestionService was given a cache
    Faults        \* the environment's faults a run admits

FaultKinds == {"provider", "db", "cache", "deadline", "crash"}

ASSUME IngestionAssumption ==
    /\ ArgLists \subseteq Seq(Args)
    /\ Norm \in [Args -> Symbols \cup {Blank, Invalid}]
    /\ Blank \notin Symbols /\ Invalid \notin Symbols /\ Blank # Invalid
    /\ NoSymbol \notin Symbols /\ NoSnapshot \notin Snapshots
    /\ MaxLaunches \in Nat
    /\ HasCache \in BOOLEAN
    /\ Faults \subseteq FaultKinds

VARIABLES
    companies,  \* companies: symbol -> metadata or NoCompany
    rows,       \* the four data tables: table -> symbol -> set of rows
    runs,       \* ingestion_runs
    launches,   \* per process: how often it was started
    argv,       \* per process: its -symbols list
    pos,        \* per process: the item the loop is at
    ctxDone,    \* per process: the 5 minute context has expired
    failed,     \* per process: main's failed flag
    pc,         \* per process: the call it makes next
    run,        \* per process: the locals of Ingest
    exit        \* per process: how the last launch ended

db == <<companies, rows, runs>>
procVars == <<launches, argv, pos, ctxDone, failed, pc, run, exit>>
ingestVars == <<companies, rows, runs, launches, argv, pos, ctxDone, failed,
                pc, run, exit>>

-----------------------------------------------------------------------------

Kinds == {"analytics", "technical"}

\* The columns of ingestion_runs that count inserted rows: there is none for
\* cash flows, although the run in memory counts them.
AuditTables == {"prices", "income", "balance"}

\* The stages of one Ingest: the call that comes next.
Stages == {"fetch", "company"} \cup Tables \cup {"record", "fail"} \cup Kinds

Nothing == [t \in Tables |-> {}]

\* The locals of Ingest: the symbol, the snapshot fetched and, per table, the
\* rows inserted (the code keeps their number).
NoRun == [sym |-> NoSymbol, snap |-> NoSnapshot, ins |-> Nothing]

\* One Ingest is identified by the process, its launch and the list position.
RunId(w) == <<w, launches[w], pos[w]>>

\* Mutant: the balance sheet counter is not written.
AuditRowNoBalance(w, status) ==
    [id |-> RunId(w), sym |-> run[w].sym, status |-> status,
     ins |-> [t \in AuditTables |-> IF t = "balance" THEN {} ELSE run[w].ins[t]],
     snap |-> run[w].snap]

\* The row RecordRun appends.  snap is not stored: it is kept to say what the
\* run was about.
AuditRow(w, status) ==
    [id |-> RunId(w), sym |-> run[w].sym, status |-> status,
     ins |-> [t \in AuditTables |-> run[w].ins[t]], snap |-> run[w].snap]

Item(w) == Norm[argv[w][pos[w]]]

Init ==
    /\ companies = [s \in Symbols |-> NoCompany]
    /\ rows = [t \in Tables |-> [s \in Symbols |-> {}]]
    /\ runs = {}
    /\ launches = [w \in Procs |-> 0]
    /\ argv = [w \in Procs |-> <<>>]
    /\ pos = [w \in Procs |-> 1]
    /\ ctxDone = [w \in Procs |-> FALSE]
    /\ failed = [w \in Procs |-> FALSE]
    /\ pc = [w \in Procs |-> "down"]
    /\ run = [w \in Procs |-> NoRun]
    /\ exit = [w \in Procs |-> "none"]

-----------------------------------------------------------------------------
(* cmd/ingest: main and its loop.                                           *)

\* main up to the loop; a database that does not answer the Ping ends it.
Launch(w, list) ==
    /\ pc[w] = "down"
    /\ launches[w] < MaxLaunches
    /\ launches' = [launches EXCEPT ![w] = @ + 1]
    /\ argv' = [argv EXCEPT ![w] = list]
    /\ pos' = [pos EXCEPT ![w] = 1]
    /\ ctxDone' = [ctxDone EXCEPT ![w] = FALSE]
    /\ failed' = [failed EXCEPT ![w] = FALSE]
    /\ \/ /\ pc' = [pc EXCEPT ![w] = "loop"]
          /\ exit' = [exit EXCEPT ![w] = "none"]
       \/ /\ Faults \cap {"db", "deadline"} # {}
          /\ exit' = [exit EXCEPT ![w] = "error"]
          /\ UNCHANGED pc
    /\ UNCHANGED <<db, run>>

\* if sym == "" || ctx.Err() != nil { continue }
Skipped(w) == Item(w) = Blank \/ ctxDone[w]

\* Mutant: the loop does not move on from a skipped item.
SkipStays(w) ==
    /\ pc[w] = "loop" /\ pos[w] <= Len(argv[w])
    /\ Skipped(w)
    /\ UNCHANGED ingestVars

Skip(w) ==
    /\ pc[w] = "loop" /\ pos[w] <= Len(argv[w])
    /\ Skipped(w)
    /\ pos' = [pos EXCEPT ![w] = @ + 1]
    /\ UNCHANGED <<db, launches, argv, ctxDone, failed, pc, run, exit>>

\* normalizeSymbol fails: Ingest returns before it has a run to record.
Reject(w) ==
    /\ pc[w] = "loop" /\ pos[w] <= Len(argv[w])
    /\ ~Skipped(w)
    /\ Item(w) = Invalid
    /\ failed' = [failed EXCEPT ![w] = TRUE]
    /\ pos' = [pos EXCEPT ![w] = @ + 1]
    /\ UNCHANGED <<db, launches, argv, ctxDone, pc, run, exit>>

Begin(w) ==
    /\ pc[w] = "loop" /\ pos[w] <= Len(argv[w])
    /\ ~Skipped(w)
    /\ Item(w) \in Symbols
    /\ run' = [run EXCEPT ![w].sym = Item(w)]
    /\ pc' = [pc EXCEPT ![w] = "fetch"]
    /\ UNCHANGED <<db, launches, argv, pos, ctxDone, failed, exit>>

Exit(w) ==
    /\ pc[w] = "loop" /\ pos[w] > Len(argv[w])
    /\ pc' = [pc EXCEPT ![w] = "down"]
    /\ exit' = [exit EXCEPT ![w] = IF failed[w] THEN "error" ELSE "ok"]
    /\ UNCHANGED <<db, launches, argv, pos, ctxDone, failed, run>>

\* Mutant: failed holds the last error instead of any.
ReturnLastError(w, err) ==
    /\ pc' = [pc EXCEPT ![w] = "loop"]
    /\ pos' = [pos EXCEPT ![w] = @ + 1]
    /\ run' = [run EXCEPT ![w] = NoRun]
    /\ failed' = [failed EXCEPT ![w] = err]
    /\ UNCHANGED <<launches, argv, exit>>

\* Ingest returns to the loop; its error, if any, sets failed.
Return(w, err) ==
    /\ pc' = [pc EXCEPT ![w] = "loop"]
    /\ pos' = [pos EXCEPT ![w] = @ + 1]
    /\ run' = [run EXCEPT ![w] = NoRun]
    /\ failed' = [failed EXCEPT ![w] = @ \/ err]
    /\ UNCHANGED <<launches, argv, exit>>

Goto(w, stage) ==
    /\ pc' = [pc EXCEPT ![w] = stage]
    /\ UNCHANGED <<launches, argv, pos, failed, exit>>

-----------------------------------------------------------------------------
(* How a call under the process's context ends.                             *)

Completes(w) == ~ctxDone[w] /\ UNCHANGED ctxDone

\* An error: at once when the context has expired, from the callee, or because
\* the context expires during the call.  In the last two cases the callee may
\* have done its work already (applied).
Errs(w, callee, applied) ==
    \/ ctxDone[w] /\ ~applied /\ UNCHANGED ctxDone
    \/ ~ctxDone[w] /\ callee \in Faults /\ UNCHANGED ctxDone
    \/ /\ ~ctxDone[w] /\ "deadline" \in Faults
       /\ ctxDone' = [ctxDone EXCEPT ![w] = TRUE]

-----------------------------------------------------------------------------
(* IngestionService.Ingest.                                                 *)

Fetch(w, sn) ==
    /\ pc[w] = "fetch"
    /\ Completes(w)
    /\ run' = [run EXCEPT ![w].snap = sn]
    /\ Goto(w, "company")
    /\ UNCHANGED db

\* Mutant: a fetch error is returned without the fail closure.
FetchErrUnrecorded(w) ==
    /\ pc[w] = "fetch"
    /\ Errs(w, "provider", FALSE)
    /\ Return(w, TRUE)
    /\ UNCHANGED db

FetchErr(w) ==
    /\ pc[w] = "fetch"
    /\ Errs(w, "provider", FALSE)
    /\ Goto(w, "fail")
    /\ UNCHANGED <<db, run>>

\* INSERT ... ON CONFLICT (symbol) DO UPDATE: the last writer wins.
PutCompany(w) ==
    companies' = [companies EXCEPT ![run[w].sym] = run[w].snap.meta]

\* UpsertCompany, then validPrices: with no valid price the run fails although
\* the company is already stored.
UpsertCompany(w) ==
    /\ pc[w] = "company"
    /\ Completes(w)
    /\ PutCompany(w)
    /\ Goto(w, IF NoneValid("prices", run[w].snap) THEN "fail" ELSE "prices")
    /\ UNCHANGED <<rows, runs, run>>

UpsertCompanyErr(w, applied) ==
    /\ pc[w] = "company"
    /\ Errs(w, "db", applied)
    /\ IF applied THEN PutCompany(w) ELSE UNCHANGED companies
    /\ Goto(w, "fail")
    /\ UNCHANGED <<rows, runs, run>>

\* A statement table with no valid row is left out.
AfterBalance(sn) == IF NoneValid("cashflow", sn) THEN "record" ELSE "cashflow"
\* Mutant: without balance sheets the cash flows are left out too.
AfterIncomeStops(sn) == IF NoneValid("balance", sn) THEN "record" ELSE "balance"
AfterIncome(sn) == IF NoneValid("balance", sn) THEN AfterBalance(sn) ELSE "balance"
AfterPrices(sn) == IF NoneValid("income", sn) THEN AfterIncome(sn) ELSE "income"

After(t, sn) ==
    CASE t = "prices"   -> AfterPrices(sn)
      [] t = "income"   -> AfterIncome(sn)
      [] t = "balance"  -> AfterBalance(sn)
      [] t = "cashflow" -> "record"

\* Mutant: rows that fail validation are inserted.
AddedUnvalidated(w, t) ==
    LET sn == run[w].snap IN
    NewRows(rows[t][run[w].sym], {Stored(t, sn[t][i]) : i \in DOMAIN sn[t]})

Added(w, t) == NewRows(rows[t][run[w].sym], Batch(t, run[w].snap))

\* Mutant: the company's rows are replaced instead of added to.
PutRowsReplacing(w, t) ==
    rows' = [rows EXCEPT ![t][run[w].sym] = Batch(t, run[w].snap)]

PutRows(w, t) == rows' = [rows EXCEPT ![t][run[w].sym] = @ \cup Added(w, t)]

Insert(w, t) ==
    /\ pc[w] = t
    /\ Completes(w)
    /\ ~Overflows(t, run[w].snap)
    /\ PutRows(w, t)
    /\ run' = [run EXCEPT ![w].ins[t] = Added(w, t)]
    /\ Goto(w, After(t, run[w].snap))
    /\ UNCHANGED <<companies, runs>>

\* The call fails, or the statement does.
InsertErr(w, t, applied) ==
    /\ pc[w] = t
    /\ applied => ~Overflows(t, run[w].snap)
    /\ Errs(w, "db", applied) \/ (Completes(w) /\ Overflows(t, run[w].snap))
    /\ IF applied THEN PutRows(w, t) ELSE UNCHANGED rows
    /\ Goto(w, "fail")
    /\ UNCHANGED <<companies, runs, run>>

\* RecordRun of a success, then the purge when a cache is wired.
RecordSuccess(w) ==
    /\ pc[w] = "record"
    /\ Completes(w)
    /\ runs' = runs \cup {AuditRow(w, "success")}
    /\ IF HasCache THEN Goto(w, "analytics") /\ UNCHANGED run
                   ELSE Return(w, FALSE)
    /\ UNCHANGED <<companies, rows>>

\* "ingestion succeeded but audit failed": Ingest returns before the purge.
RecordSuccessErr(w, applied) ==
    /\ pc[w] = "record"
    /\ Errs(w, "db", applied)
    /\ runs' = IF applied THEN runs \cup {AuditRow(w, "success")} ELSE runs
    /\ Return(w, TRUE)
    /\ UNCHANGED <<companies, rows>>

\* The fail closure: the run is recorded, Ingest returns the original error.
RecordFailure(w) ==
    /\ pc[w] = "fail"
    /\ Completes(w)
    /\ runs' = runs \cup {AuditRow(w, "failure")}
    /\ Return(w, TRUE)
    /\ UNCHANGED <<companies, rows>>

\* An error of RecordRun is only logged there.
RecordFailureErr(w, applied) ==
    /\ pc[w] = "fail"
    /\ Errs(w, "db", applied)
    /\ runs' = IF applied THEN runs \cup {AuditRow(w, "failure")} ELSE runs
    /\ Return(w, TRUE)
    /\ UNCHANGED <<companies, rows>>

\* One turn of the purge loop, deleting kind:sym; its error is only logged.
\* applied: the key is gone from the cache.
Purge(w, kind, applied) ==
    /\ pc[w] = kind
    /\ \/ applied /\ Completes(w)
       \/ Errs(w, "cache", applied)
    /\ IF kind = "analytics" THEN Goto(w, "technical") /\ UNCHANGED run
                             ELSE Return(w, FALSE)
    /\ UNCHANGED db

-----------------------------------------------------------------------------
(* The environment.                                                         *)

Deadline(w) ==
    /\ "deadline" \in Faults
    /\ pc[w] # "down" /\ ~ctxDone[w]
    /\ ctxDone' = [ctxDone EXCEPT ![w] = TRUE]
    /\ UNCHANGED <<db, launches, argv, pos, failed, pc, run, exit>>

Crash(w) ==
    /\ "crash" \in Faults
    /\ pc[w] # "down"
    /\ pc' = [pc EXCEPT ![w] = "down"]
    /\ run' = [run EXCEPT ![w] = NoRun]
    /\ exit' = [exit EXCEPT ![w] = "killed"]
    /\ UNCHANGED <<db, launches, argv, pos, ctxDone, failed>>

-----------------------------------------------------------------------------

\* The steps of a started process other than the two that may land fresh data
\* for the readers: the success record and the purge.
QuietStep(w) ==
    \/ Skip(w) \/ Reject(w) \/ Begin(w) \/ Exit(w)
    \/ FetchErr(w) \/ UpsertCompany(w) \/ RecordFailure(w)
    \/ \E sn \in Snapshots : Fetch(w, sn)
    \/ \E t \in Tables : Insert(w, t)
    \/ \E applied \in BOOLEAN :
          \/ UpsertCompanyErr(w, applied)
          \/ \E t \in Tables : InsertErr(w, t, applied)
          \/ RecordSuccessErr(w, applied)
          \/ RecordFailureErr(w, applied)

ProcStep(w) ==
    \/ QuietStep(w)
    \/ RecordSuccess(w)
    \/ \E kind \in Kinds, applied \in BOOLEAN : Purge(w, kind, applied)

EnvStep(w) ==
    \/ \E list \in ArgLists : Launch(w, list)
    \/ Deadline(w)
    \/ Crash(w)

Next == \E w \in Procs : ProcStep(w) \/ EnvStep(w)

Spec == Init /\ [][Next]_ingestVars

\* A started process keeps running: the loop has no wait but the calls, which
\* end with the 5 minute context at the latest, and a bounded Sleep.
Fairness == \A w \in Procs : WF_ingestVars(ProcStep(w))

FairSpec == Spec /\ Fairness

-----------------------------------------------------------------------------
(* Properties.                                                              *)

RunType ==
    [sym : Symbols \cup {NoSymbol}, snap : Snapshots \cup {NoSnapshot},
     ins : [Tables -> SUBSET Row]]

AuditType ==
    [id : Procs \X Nat \X Nat, sym : Symbols, status : {"success", "failure"},
     ins : [AuditTables -> SUBSET Row], snap : Snapshots \cup {NoSnapshot}]

DbTypeOK ==
    /\ companies \in [Symbols -> Metas \cup {NoCompany}]
    /\ rows \in [Tables -> [Symbols -> SUBSET Row]]
    /\ runs \subseteq AuditType

ProcTypeOK ==
    /\ launches \in [Procs -> Nat]
    /\ argv \in [Procs -> Seq(Args)]
    /\ pos \in [Procs -> Nat \ {0}]
    /\ ctxDone \in [Procs -> BOOLEAN]
    /\ failed \in [Procs -> BOOLEAN]
    /\ pc \in [Procs -> {"down", "loop"} \cup Stages]
    /\ run \in [Procs -> RunType]
    /\ exit \in [Procs -> {"none", "ok", "error", "killed"}]

\* The values the variables may have.
TypeOK == DbTypeOK /\ ProcTypeOK

\* The locals of a process agree with the stage it is in: an Ingest has a symbol,
\* and a snapshot once it is past the fetch; between two Ingests there is none.
InFlight ==
    \A w \in Procs :
        /\ pc[w] \in Stages => run[w].sym \in Symbols
        /\ pc[w] \in Stages \ {"fetch", "fail"} => run[w].snap \in Snapshots
        /\ pc[w] \notin Stages => run[w] = NoRun

\* No stored price contradicts itself: of the figures that are numbers none is
\* negative and none is out of the order low <= open, close <= high, after
\* validation and rounding to NUMERIC(18,4).  (Not > 0: a positive price below
\* 0.00005 passes validPrices and is stored as zero.  A figure may be NaN.)
StoredPricesOrdered ==
    \A s \in Symbols : \A p \in rows["prices"][s] :
        /\ \A f \in PriceFigures : ~Lt(p[f], 0)
        /\ ~Lt(p.high, p.open) /\ ~Lt(p.high, p.close)
        /\ ~Lt(p.open, p.low) /\ ~Lt(p.close, p.low)
        /\ 0 <= p.volume /\ p.date # 0

\* Every valid row of the snapshot is stored (this row, or an earlier one with
\* its key).
Landed(t, s, sn) == \A b \in Batch(t, sn) : Conflicts(rows[t][s], b)

\* A run audited as a success landed whole: its company exists, it had a price
\* and all four tables cover its snapshot, whatever other processes and faults
\* did in between and afterwards.
SuccessRunsAreComplete ==
    \A a \in runs : a.status = "success" =>
        /\ companies[a.sym] # NoCompany
        /\ ~NoneValid("prices", a.snap)
        /\ \A t \in Tables : Landed(t, a.sym, a.snap)

\* The counters of ingestion_runs never claim a row twice, nor one that is not
\* stored: of two processes racing on one symbol, one is credited.
EachRowCountedOnce ==
    /\ \A a, b \in runs : a.id = b.id => a = b
    /\ \A a, b \in runs : a.sym = b.sym /\ a # b =>
          \A t \in AuditTables : a.ins[t] \cap b.ins[t] = {}
    /\ \A a \in runs : \A t \in AuditTables : a.ins[t] \subseteq rows[t][a.sym]

\* A row of the table is counted by an audited run, or by one still in flight.
Credited(t, s, r) ==
    \/ \E a \in runs : a.sym = s /\ t \in DOMAIN a.ins /\ r \in a.ins[t]
    \/ \E w \in Procs : run[w].sym = s /\ r \in run[w].ins[t]

\* While no database call fails, expires or is cut off by a crash, every stored
\* price, income statement and balance sheet is counted in ingestion_runs, or is
\* about to be by a run in flight.  (For cash flows RecordRun writes no column.)
RowsAccountedFor ==
    Faults \cap {"db", "deadline", "crash"} = {} =>
        \A t \in AuditTables, s \in Symbols : \A r \in rows[t][s] : Credited(t, s, r)

\* Exit status 0 of a process whose deadline did not pass means that every item
\* of its list that is not blank was valid and has a success in ingestion_runs.
CleanExitMeansIngested ==
    \A w \in Procs : exit[w] = "ok" /\ ~ctxDone[w] =>
        \A i \in 1 .. Len(argv[w]) : Norm[argv[w][i]] # Blank =>
            \E a \in runs : /\ a.id = <<w, launches[w], i>>
                            /\ a.sym = Norm[argv[w][i]]
                            /\ a.status = "success"

\* Re-ingesting a snapshot that a success already covers changes no table,
\* whichever process does it and whatever happened in between.
ReingestIsNoOp ==
    [][\A w \in Procs, t \in Tables :
          /\ pc[w] = t /\ pc'[w] # t
          /\ \E a \in runs : /\ a.status = "success"
                            /\ a.sym = run[w].sym /\ a.snap = run[w].snap
          => rows' = rows]_ingestVars

\* Stored rows and audit records are never changed or removed.
HistoryIsFinal ==
    [][/\ runs \subseteq runs'
       /\ \A t \in Tables, s \in Symbols : rows[t][s] \subseteq rows'[t][s]
       /\ \A s \in Symbols : companies[s] # NoCompany => companies'[s] # NoCompany
      ]_ingestVars

\* "records every attempt (success or failure) in ingestion_runs": an Ingest
\* that got past symbol validation returns with its audit row in the table.
EveryAttemptAudited ==
    [][\A w \in Procs : pc[w] \in Stages /\ pc'[w] = "loop" =>
          \E a \in runs' : a.id = RunId(w)]_ingestVars

\* Every launch ends: no sequence of faults leaves the loop stuck.
LaunchesEnd == \A w \in Procs : pc[w] # "down" ~> pc[w] = "down"

=============================================================================
