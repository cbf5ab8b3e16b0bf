---------------------------- MODULE ReadThrough ----------------------------
(***************************************************************************)
(* The read side next to the ingestion: requests for /analytics and         *)
(* /technical (QueryService.GetAnalytics and GetTechnical) that go through  *)
(* the Redis cache and, on a miss, read the tables one SELECT after the     *)
(* other, compute and store the result.  Nothing orders a fill of the cache *)
(* against the purge of Ingestion.                                          *)
(*                                                                          *)
(* A computed result is represented by the rows it was computed from (view) *)
(* and Result(k, view) is what of them the response shows.                  *)
(***************************************************************************)
EXTENDS Ingestion

CONSTANTS
    Readers,   \* requests the API serves at the same time
    NoEntry,   \* no such key in the cache
    NoKey      \* no request under way

VARIABLES
    cache,     \* analytics:SYM and technical:SYM -> entry or NoEntry
    rd,        \* the requests: locals of GetAnalytics / GetTechnical
    landed     \* history: per key, what it reads, when an Ingest last succeeded

readVars == <<cache, rd, landed>>
vars == <<ingestVars, cache, rd, landed>>

CacheKeys == Kinds \X Symbols

ASSUME ReadThroughAssumption == NoKey \notin CacheKeys

Idle == [pc |-> "idle", key |-> NoKey, view |-> Nothing, late |-> FALSE,
         code |-> "none"]

-----------------------------------------------------------------------------
(* What a request reads and shows.                                          *)

Reads(kind) == IF kind = "analytics" THEN {"income", "balance", "prices"}
                                     ELSE {"prices"}

\* The rows a request's SELECT on t returns.
Select(t, s) == IF t = "prices" THEN rows[t][s] ELSE Annual(rows[t][s])

\* The calls of a request in their order.
NextRead(kind, at) ==
    CASE at = "company" -> IF kind = "analytics" THEN "income" ELSE "prices"
      [] at = "income"  -> "balance"
      [] at = "balance" -> "prices"
      [] at = "prices"  -> "store"

\* Everything a request for k would read now.
ViewNow(k) == [t \in Tables |-> IF t \in Reads(k[1]) THEN Select(t, k[2]) ELSE {}]

\* The nine ratios depend on the newest and the previous annual income
\* statement, the newest balance sheet and the newest price; the indicators on
\* the whole price history.
Result(k, view) ==
    IF k[1] = "analytics"
    THEN <<Newest(view["income"]), SecondNewest(view["income"]),
           Newest(view["balance"]), Newest(view["prices"])>>
    ELSE <<view["prices"]>>

-----------------------------------------------------------------------------
(* GetAnalytics and GetTechnical.                                           *)

\* The request is over; only its status is kept.
Answer(r, code) == rd' = [rd EXCEPT ![r] = [Idle EXCEPT !.code = code]]

Hit(r, k) ==
    /\ rd[r].pc = "idle"
    /\ cache[k] # NoEntry
    /\ Answer(r, "200")
    /\ UNCHANGED <<cache, landed>>

\* Mutant: the key is built without the symbol.
MissNoSymbol(r, k) ==
    /\ rd[r].pc = "idle"
    /\ cache[k] = NoEntry \/ "cache" \in Faults
    /\ rd' = [rd EXCEPT ![r].pc = "company", ![r].key = k[1], ![r].code = "none"]
    /\ UNCHANGED <<cache, landed>>

\* An error of the cache counts as a miss.
Miss(r, k) ==
    /\ rd[r].pc = "idle"
    /\ cache[k] = NoEntry \/ "cache" \in Faults
    /\ rd' = [rd EXCEPT ![r].pc = "company", ![r].key = k, ![r].code = "none"]
    /\ UNCHANGED <<cache, landed>>

GetCompany(r) ==
    /\ rd[r].pc = "company"
    /\ IF companies[rd[r].key[2]] = NoCompany
       THEN Answer(r, "404")
       ELSE rd' = [rd EXCEPT ![r].pc = NextRead(rd[r].key[1], "company")]
    /\ UNCHANGED <<cache, landed>>

\* Mutant: an empty result is not an error.
ReadTableUnchecked(r, t) ==
    /\ rd[r].pc = t
    /\ rd' = [rd EXCEPT ![r].view[t] = Select(t, rd[r].key[2]),
                       ![r].pc = NextRead(rd[r].key[1], t)]
    /\ UNCHANGED <<cache, landed>>

\* insufficientErr: no row is 422.
ReadTable(r, t) ==
    /\ rd[r].pc = t
    /\ LET got == Select(t, rd[r].key[2]) IN
       IF got = {}
       THEN Answer(r, "422")
       ELSE rd' = [rd EXCEPT ![r].view[t] = got,
                             ![r].pc = NextRead(rd[r].key[1], t)]
    /\ UNCHANGED <<cache, landed>>

\* Any other error of a SELECT, the cancelled context of a client that went
\* away included.
ReadErr(r) ==
    /\ "db" \in Faults
    /\ rd[r].pc \in {"company"} \cup Tables
    /\ Answer(r, "500")
    /\ UNCHANGED <<cache, landed>>

\* json.Marshal refuses a result with a NaN in it.  Whether one of the rows read
\* gets into the result is left open.
MayNotEncode(view) == \E t \in Tables : \E r \in view[t] : \E f \in DOMAIN r : r[f] = NaN

\* storeResult drops errors: the request goes on either way.
StoreResult(r, stored) ==
    /\ rd[r].pc = "store"
    /\ stored \/ "cache" \in Faults \/ MayNotEncode(rd[r].view)
    /\ cache' = IF stored
                THEN [cache EXCEPT ![rd[r].key] = [view |-> rd[r].view, late |-> rd[r].late]]
                ELSE cache
    /\ Answer(r, "200")
    /\ UNCHANGED landed

\* Mutant: the entry is stored without a TTL.
ExpireNever(k) == cache[k] # NoEntry /\ UNCHANGED readVars

\* The 15 minute TTL (or an eviction, or a restart of Redis).
Expire(k) ==
    /\ cache[k] # NoEntry
    /\ cache' = [cache EXCEPT ![k] = NoEntry]
    /\ UNCHANGED <<rd, landed>>

ReadStep(r) ==
    \/ GetCompany(r)
    \/ \E t \in Tables : ReadTable(r, t)
    \/ ReadErr(r)
    \/ \E stored \in BOOLEAN : StoreResult(r, stored)

-----------------------------------------------------------------------------
(* The ingestion's steps as the readers see them.                           *)

\* Fresh data for keys landed, the keys in gone were deleted and the deletion of
\* those in lost failed or was not tried.  History: an entry that survives a
\* lost deletion, and a request that is under way, are late.
Land(keys, gone, lost) ==
    /\ landed' = [k \in CacheKeys |-> IF k \in keys THEN ViewNow(k) ELSE landed[k]]
    /\ cache' = [k \in CacheKeys |->
                    IF k \in gone THEN NoEntry
                    ELSE IF k \in lost /\ cache[k] # NoEntry
                         THEN [cache[k] EXCEPT !.late = TRUE] ELSE cache[k]]
    /\ rd' = [r \in Readers |->
                 IF rd[r].pc # "idle" /\ rd[r].key \in keys
                 THEN [rd[r] EXCEPT !.late = TRUE] ELSE rd[r]]

\* The success record is the landing when no cache is wired.
LandUnpurged(w) ==
    /\ RecordSuccess(w)
    /\ LET keys == Kinds \X {run[w].sym} IN
       IF HasCache THEN UNCHANGED readVars ELSE Land(keys, {}, keys)

\* Mutant: the second key of the purge loop is misspelt.
LandPurgedFirstOnly(w, kind, applied) ==
    /\ Purge(w, kind, applied)
    /\ LET k == <<kind, run[w].sym>> IN
       Land({k}, IF applied /\ kind = "analytics" THEN {k} ELSE {},
            IF applied THEN {} ELSE {k})

LandPurged(w, kind, applied) ==
    /\ Purge(w, kind, applied)
    /\ LET k == <<kind, run[w].sym>> IN
       IF applied THEN Land({k}, {k}, {}) ELSE Land({k}, {}, {k})

IngestStep(w) ==
    \/ QuietStep(w) /\ UNCHANGED readVars
    \/ LandUnpurged(w)
    \/ \E kind \in Kinds, applied \in BOOLEAN : LandPurged(w, kind, applied)

RTInit ==
    /\ Init
    /\ cache = [k \in CacheKeys |-> NoEntry]
    /\ rd = [r \in Readers |-> Idle]
    /\ landed = [k \in CacheKeys |-> Nothing]

ReaderNext ==
    /\ \/ \E r \in Readers : ReadStep(r) \/ \E k \in CacheKeys : Hit(r, k) \/ Miss(r, k)
       \/ \E k \in CacheKeys : Expire(k)
    /\ UNCHANGED ingestVars

RTNext ==
    \/ \E w \in Procs : IngestStep(w) \/ (EnvStep(w) /\ UNCHANGED readVars)
    \/ ReaderNext

RTSpec == RTInit /\ [][RTNext]_vars

\* A process keeps running, and an entry's TTL elapses.  No request has to arrive,
\* and one under way may wait for the database for ever: nothing bounds its SELECTs.
RTFairness ==
    /\ \A w \in Procs : WF_vars(IngestStep(w))
    /\ \A k \in CacheKeys : WF_vars(Expire(k) /\ UNCHANGED ingestVars)

RTFairSpec == RTSpec /\ RTFairness

-----------------------------------------------------------------------------
(* Properties.                                                              *)

ViewType == [Tables -> SUBSET Row]

\* The values the variables of the read side may have.
RTTypeOK ==
    /\ cache \in [CacheKeys -> [view : ViewType, late : BOOLEAN] \cup {NoEntry}]
    /\ rd \in [Readers -> [pc : {"idle", "company", "store"} \cup Tables,
                           key : CacheKeys \cup {NoKey}, view : ViewType,
                           late : BOOLEAN,
                           code : {"none", "200", "404", "422", "500"}]]
    /\ landed \in [CacheKeys -> ViewType]

\* A cached result was computed from rows that are stored for its own symbol,
\* and from at least one row of every table it needs: no failed or partial read
\* and no other symbol's data gets into the cache.
CachedFromStored ==
    \A k \in CacheKeys : cache[k] # NoEntry =>
        \A t \in Reads(k[1]) :
            /\ cache[k].view[t] # {}
            /\ cache[k].view[t] \subseteq Select(t, k[2])

\* The purge works, and the only results that miss rows of the last successful
\* Ingest are the late ones: a fill that was under way when the data landed, or
\* an entry whose deletion failed or was not wired.  Every other cached result,
\* under either key, covers them.
FreshUnlessLate ==
    \A k \in CacheKeys : cache[k] # NoEntry /\ ~cache[k].late =>
        \A t \in Tables : landed[k][t] \subseteq cache[k].view[t]

\* "the API never serves stale numbers after fresh data lands": a cached result
\* shows what landed, or something newer.
NeverStaleAfterIngest ==
    \A k \in CacheKeys : cache[k] # NoEntry =>
        \/ \A t \in Tables : landed[k][t] \subseteq cache[k].view[t]
        \/ Result(k, cache[k].view) = Result(k, landed[k])

\* "the 15-minute TTL guarantees eventual consistency": when the ingestion is
\* over, whatever purge was lost or overtaken, the cache ends up showing
\* nothing but the stored data.
EventuallyFresh ==
    <>[](\A k \in CacheKeys :
            cache[k] # NoEntry => Result(k, cache[k].view) = Result(k, ViewNow(k)))

=============================================================================
