------------------------- MODULE ReadThroughProofs -------------------------
(***************************************************************************)
(* Proofs about ReadThrough, for any number of requests, processes, symbols *)
(* and snapshots, and any set of faults.                                    *)
(***************************************************************************)
EXTENDS ReadThrough, IngestionProofs

EntryType == [view : ViewType, late : BOOLEAN]

RdType == [pc : {"idle", "company", "store"} \cup Tables,
           key : CacheKeys \cup {NoKey}, view : ViewType, late : BOOLEAN,
           code : {"none", "200", "404", "422", "500"}]

\* The tables a request has read when its next call is at.
ReadBefore(at, kind) ==
    {t \in Reads(kind) :
        at = "store" \/ <<t, at>> \in {<<"income", "balance">>, <<"income", "prices">>,
                                       <<"balance", "prices">>}}

\* A request under way has a key, makes one of its own calls, and what it has
\* read so far was there, is stored and, unless it is late, covers what landed.
Sound(q) ==
    q.pc # "idle" =>
        /\ q.key \in CacheKeys
        /\ q.pc \in {"company", "store"} \cup Reads(q.key[1])
        /\ \A t \in ReadBefore(q.pc, q.key[1]) :
              /\ q.view[t] # {}
              /\ q.view[t] \subseteq Select(t, q.key[2])
              /\ ~q.late => landed[q.key][t] \subseteq q.view[t]

RequestsSound == \A r \in Readers : Sound(rd[r])

\* What landed for a key is stored, and is of the tables the key is about.
LandedStored ==
    \A k \in CacheKeys : \A t \in Tables :
        /\ t \in Reads(k[1]) => landed[k][t] \subseteq Select(t, k[2])
        /\ t \notin Reads(k[1]) => landed[k][t] = {}

ReadInv ==
    /\ TypeInv /\ RTTypeOK
    /\ RequestsSound /\ LandedStored
    /\ CachedFromStored /\ FreshUnlessLate

-----------------------------------------------------------------------------
(* Tables and calls.                                                        *)

\* Either kind of request reads data tables.
LEMMA ReadsTables == \A kind : Reads(kind) \subseteq Tables
BY DEF Reads, Tables

\* A SELECT returns storable rows.
LEMMA SelectType ==
    ASSUME TypeInv, NEW t \in Tables, NEW s \in Symbols
    PROVE  Select(t, s) \subseteq Row
BY DEF Select, Annual, TypeInv, TypeOK, DbTypeOK

\* A key is a kind and a symbol.
LEMMA KeyParts == \A k \in CacheKeys : k[1] \in Kinds /\ k[2] \in Symbols
BY DEF CacheKeys

\* The first call of a request that found its company: nothing is read yet.
LEMMA FirstRead ==
    ASSUME NEW kind \in Kinds
    PROVE  /\ NextRead(kind, "company") \in Reads(kind)
           /\ ReadBefore(NextRead(kind, "company"), kind) = {}
           /\ ReadBefore("company", kind) = {}
<1>1. NextRead(kind, "company") = IF kind = "analytics" THEN "income" ELSE "prices"
  BY Zenon DEF NextRead
<1> QED
  BY <1>1 DEF ReadBefore, Reads, Kinds

\* After the SELECT on t a request has read t and what it had read before.
LEMMA OneMoreRead ==
    ASSUME NEW kind \in Kinds, NEW t \in Reads(kind)
    PROVE  /\ NextRead(kind, t) \in {"store"} \cup Reads(kind)
           /\ ReadBefore(NextRead(kind, t), kind) = ReadBefore(t, kind) \cup {t}
           /\ t \notin ReadBefore(t, kind)
<1>1. NextRead(kind, "income") = "balance" /\ NextRead(kind, "balance") = "prices"
  BY DEF NextRead
<1>2. NextRead(kind, "prices") = "store"
  BY DEF NextRead
<1>3. CASE kind = "analytics"
  BY <1>1, <1>2, <1>3 DEF ReadBefore, Reads
<1>4. CASE kind # "analytics"
  BY <1>2, <1>4 DEF ReadBefore, Reads
<1> QED
  BY <1>3, <1>4

\* The tables grow, so does what a SELECT returns.
LEMMA SelectGrows ==
    ASSUME NEW t \in Tables, NEW s \in Symbols, rows[t][s] \subseteq rows'[t][s]
    PROVE  Select(t, s) \subseteq Select(t, s)'
BY DEF Select, Annual

-----------------------------------------------------------------------------
(* The steps of the ingestion.                                              *)

\* A step that leaves the read side alone keeps its invariant: rows only grow.
LEMMA QuietKeeps ==
    ASSUME ReadInv, [Next]_ingestVars, UNCHANGED readVars
    PROVE  ReadInv'
<1>1. TypeInv /\ TypeInv'
  BY TypeStep DEF ReadInv
<1>2. \A t \in Tables, s \in Symbols : Select(t, s) \subseteq Select(t, s)'
  BY <1>1, Monotone, SelectGrows
<1>3. cache' = cache /\ rd' = rd /\ landed' = landed
  BY DEF readVars
<1>4. RTTypeOK'
  BY <1>3 DEF ReadInv, RTTypeOK
<1>5. RequestsSound'
  <2> SUFFICES ASSUME NEW r \in Readers
               PROVE  Sound(rd[r])'
    BY DEF RequestsSound
  <2>1. Sound(rd[r])
    BY DEF ReadInv, RequestsSound
  <2>2. rd[r].pc # "idle" => \A t \in ReadBefore(rd[r].pc, rd[r].key[1]) :
           Select(t, rd[r].key[2]) \subseteq Select(t, rd[r].key[2])'
    BY <1>2, <1>3, <2>1, KeyParts, ReadsTables DEF Sound, ReadBefore
  <2> QED
    BY <1>3, <2>1, <2>2 DEF Sound
<1>6. LandedStored'
  BY <1>2, <1>3, KeyParts DEF ReadInv, LandedStored
<1>7. CachedFromStored'
  BY <1>2, <1>3, KeyParts, ReadsTables DEF ReadInv, CachedFromStored
<1>8. FreshUnlessLate'
  BY <1>3 DEF ReadInv, FreshUnlessLate
<1> QED
  BY <1>1, <1>4, <1>5, <1>6, <1>7, <1>8 DEF ReadInv

\* Fresh data lands: every entry it does not remove and every request it
\* concerns is late from then on.
LEMMA LandKeeps ==
    ASSUME ReadInv, [Next]_ingestVars, UNCHANGED rows,
           NEW keys, NEW gone, NEW lost, keys = gone \cup lost,
           Land(keys, gone, lost)
    PROVE  ReadInv'
<1>1. TypeInv /\ TypeInv' /\ RTTypeOK
  BY TypeStep DEF ReadInv
<1>2. \A t, s : Select(t, s)' = Select(t, s)
  BY DEF Select, Annual
<1>3. ASSUME NEW k \in CacheKeys
      PROVE  /\ ViewNow(k) \in ViewType
             /\ \A t \in Tables : ViewNow(k)[t] = IF t \in Reads(k[1]) THEN Select(t, k[2]) ELSE {}
  BY <1>1, KeyParts, SelectType DEF ViewNow, ViewType
<1>4. landed' \in [CacheKeys -> ViewType]
  BY <1>1, <1>3 DEF Land, RTTypeOK
<1>5. cache' \in [CacheKeys -> EntryType \cup {NoEntry}]
  <2>1. cache \in [CacheKeys -> EntryType \cup {NoEntry}]
    BY <1>1 DEF RTTypeOK, EntryType
  <2>2. ASSUME NEW e \in EntryType PROVE [e EXCEPT !.late = TRUE] \in EntryType
    BY DEF EntryType
  <2> QED
    BY <2>1, <2>2 DEF Land
<1>6. rd' \in [Readers -> RdType]
  <2>1. rd \in [Readers -> RdType]
    BY <1>1 DEF RTTypeOK, RdType
  <2>2. ASSUME NEW q \in RdType PROVE [q EXCEPT !.late = TRUE] \in RdType
    BY DEF RdType
  <2> QED
    BY <2>1, <2>2 DEF Land
<1>7. RTTypeOK'
  BY <1>4, <1>5, <1>6 DEF RTTypeOK, EntryType, RdType
<1>8. \A k \in CacheKeys : landed'[k] = IF k \in keys THEN ViewNow(k) ELSE landed[k]
  BY DEF Land
<1>9. LandedStored'
  BY <1>2, <1>3, <1>8 DEF LandedStored, ReadInv
<1>10. ASSUME NEW k \in CacheKeys, cache'[k] # NoEntry
       PROVE  /\ cache[k] # NoEntry /\ cache'[k].view = cache[k].view
              /\ ~cache'[k].late => k \notin keys /\ ~cache[k].late
  <2>1. cache[k] \in EntryType \cup {NoEntry}
    BY <1>1 DEF RTTypeOK, EntryType
  <2>2. cache'[k] = IF k \in gone THEN NoEntry
                    ELSE IF k \in lost /\ cache[k] # NoEntry
                         THEN [cache[k] EXCEPT !.late = TRUE] ELSE cache[k]
    BY DEF Land
  <2> QED
    BY <1>10, <2>1, <2>2 DEF EntryType
<1>11. CachedFromStored'
  BY <1>2, <1>10 DEF CachedFromStored, ReadInv
<1>12. FreshUnlessLate'
  BY <1>8, <1>10 DEF FreshUnlessLate, ReadInv
<1>13. RequestsSound'
  <2> SUFFICES ASSUME NEW r \in Readers
               PROVE  Sound(rd[r])'
    BY DEF RequestsSound
  <2>1. rd[r] \in RdType /\ Sound(rd[r])
    BY <1>1 DEF RTTypeOK, RdType, ReadInv, RequestsSound
  <2>2. rd'[r] = IF rd[r].pc # "idle" /\ rd[r].key \in keys
                 THEN [rd[r] EXCEPT !.late = TRUE] ELSE rd[r]
    BY DEF Land
  <2>3. /\ rd'[r].pc = rd[r].pc /\ rd'[r].key = rd[r].key /\ rd'[r].view = rd[r].view
        /\ rd[r].pc # "idle" /\ ~rd'[r].late => ~rd[r].late /\ rd[r].key \notin keys
    BY <2>1, <2>2 DEF RdType
  <2>4. rd[r].pc # "idle" /\ ~rd'[r].late => landed'[rd[r].key] = landed[rd[r].key]
    BY <1>8, <2>1, <2>3 DEF Sound
  <2> QED
    BY <1>2, <2>1, <2>3, <2>4 DEF Sound
<1> QED
  BY <1>1, <1>7, <1>9, <1>11, <1>12, <1>13 DEF ReadInv

-----------------------------------------------------------------------------
(* The steps of a request.                                                  *)

\* A step that moves one request to a sound state, and touches nothing else.
LEMMA MoveKeeps ==
    ASSUME ReadInv, UNCHANGED <<ingestVars, cache, landed>>, NEW r \in Readers,
           NEW q \in RdType, Sound(q), rd' = [rd EXCEPT ![r] = q]
    PROVE  ReadInv'
<1>0. rows' = rows /\ cache' = cache /\ landed' = landed
  BY DEF ingestVars
<1>1. TypeInv'
  BY TypeStep DEF ReadInv
<1>2. rd \in [Readers -> RdType]
  BY DEF ReadInv, RTTypeOK, RdType
<1>3. RTTypeOK'
  BY <1>0, <1>2 DEF ReadInv, RTTypeOK, RdType
<1>4. \A t, s : Select(t, s)' = Select(t, s)
  BY <1>0 DEF Select, Annual
<1>5. RequestsSound'
  <2> SUFFICES ASSUME NEW x \in Readers
               PROVE  Sound(rd[x])'
    BY DEF RequestsSound
  <2>1. Sound(rd'[x])
    BY <1>2 DEF ReadInv, RequestsSound
  <2> QED
    BY <1>0, <1>4, <2>1 DEF Sound
<1>6. LandedStored' /\ CachedFromStored' /\ FreshUnlessLate'
  BY <1>0, <1>4 DEF ReadInv, LandedStored, CachedFromStored, FreshUnlessLate
<1> QED
  BY <1>1, <1>3, <1>5, <1>6 DEF ReadInv

\* An answered request is idle again.
LEMMA AnswerKeeps ==
    ASSUME NEW r, NEW code \in {"200", "404", "422", "500"}, Answer(r, code)
    PROVE  \E q \in RdType : Sound(q) /\ rd' = [rd EXCEPT ![r] = q]
<1> DEFINE q == [Idle EXCEPT !.code = code]
<1>1. Nothing \in ViewType
  BY DEF Nothing, ViewType
<1>2. q \in RdType /\ q.pc = "idle"
  BY <1>1 DEF Idle, RdType
<1>3. Sound(q)
  BY <1>2 DEF Sound
<1> QED
  BY <1>2, <1>3 DEF Answer

\* A request that missed the cache, and one that found its company.
LEMMA StartKeeps ==
    ASSUME ReadInv, UNCHANGED ingestVars, NEW r \in Readers,
           \/ GetCompany(r)
           \/ \E k \in CacheKeys : Miss(r, k)
    PROVE  ReadInv'
<1>0. rd \in [Readers -> RdType] /\ rd[r] \in RdType
  BY DEF ReadInv, RTTypeOK, RdType
<1>1. ASSUME NEW k \in CacheKeys, Miss(r, k) PROVE ReadInv'
  <2> DEFINE q == [rd[r] EXCEPT !.pc = "company", !.key = k, !.code = "none"]
  <2>1. rd' = [rd EXCEPT ![r] = q]
    BY <1>0, <1>1 DEF Miss
  <2>2. q \in RdType /\ q.pc = "company" /\ q.key = k
    BY <1>0 DEF RdType
  <2> HIDE DEF q
  <2>3. Sound(q)
    BY <2>2, KeyParts, FirstRead DEF Sound
  <2> QED
    BY <1>1, <2>1, <2>2, <2>3, MoveKeeps DEF Miss
<1>2. CASE GetCompany(r) /\ Answer(r, "404")
  BY <1>2, AnswerKeeps, MoveKeeps DEF GetCompany
<1>3. CASE GetCompany(r) /\ ~Answer(r, "404")
  <2> DEFINE kind == rd[r].key[1]
             q == [rd[r] EXCEPT !.pc = NextRead(kind, "company")]
  <2>1. rd' = [rd EXCEPT ![r] = q]
    BY <1>0, <1>3 DEF GetCompany
  <2>2. rd[r].key \in CacheKeys /\ kind \in Kinds
    BY <1>3, KeyParts DEF GetCompany, ReadInv, RequestsSound, Sound
  <2>3. NextRead(kind, "company") \in Reads(kind) /\ NextRead(kind, "company") \in Tables
    BY <2>2, FirstRead, ReadsTables
  <2>4. q \in RdType /\ q.pc = NextRead(kind, "company") /\ q.key = rd[r].key
    BY <1>0, <2>3 DEF RdType
  <2> HIDE DEF q
  <2>5. Sound(q)
    BY <2>2, <2>3, <2>4, FirstRead DEF Sound
  <2> QED
    BY <1>3, <2>1, <2>4, <2>5, MoveKeeps DEF GetCompany
<1> QED
  BY <1>1, <1>2, <1>3

\* A SELECT that returned rows: they are what is stored now, so they cover what
\* landed before.
LEMMA ReadTableKeeps ==
    ASSUME ReadInv, UNCHANGED ingestVars, NEW r \in Readers, NEW t \in Tables,
           ReadTable(r, t)
    PROVE  ReadInv'
<1> DEFINE k == rd[r].key
           got == Select(t, k[2])
<1>0. rd \in [Readers -> RdType] /\ rd[r] \in RdType /\ Sound(rd[r])
  BY DEF ReadInv, RTTypeOK, RdType, RequestsSound
<1>1. /\ rd[r].pc = t /\ t # "idle" /\ k \in CacheKeys
      /\ t \in Reads(k[1]) /\ k[1] \in Kinds /\ k[2] \in Symbols
  BY <1>0, KeyParts DEF ReadTable, Sound, Tables
<1>2. CASE got = {}
  BY <1>2, AnswerKeeps, MoveKeeps DEF ReadTable
<1>3. CASE got # {}
  <2> DEFINE next == NextRead(k[1], t)
             q == [rd[r] EXCEPT !.view[t] = got, !.pc = next]
  <2>1. rd' = [rd EXCEPT ![r] = q]
    BY <1>0, <1>3 DEF ReadTable
  <2>2. next \in {"store"} \cup Reads(k[1]) /\ next \in {"store"} \cup Tables
    BY <1>1, OneMoreRead, ReadsTables
  <2>3. rd[r].view \in ViewType /\ got \in SUBSET Row
    BY <1>0, <1>1, SelectType DEF RdType, ReadInv
  <2>4. [rd[r].view EXCEPT ![t] = got] \in ViewType
    BY <2>3 DEF ViewType
  <2>5. /\ q \in RdType /\ q.pc = next /\ q.key = k /\ q.late = rd[r].late
        /\ q.view = [rd[r].view EXCEPT ![t] = got]
    <3> HIDE DEF next, got
    <3> QED
      BY <1>0, <2>2, <2>4 DEF RdType
  <2> HIDE DEF q
  <2>6. ASSUME NEW u \in ReadBefore(next, k[1])
        PROVE  /\ q.view[u] # {}
               /\ q.view[u] \subseteq Select(u, k[2])
               /\ ~q.late => landed[k][u] \subseteq q.view[u]
    <3>1. CASE u = t
      <4>1. q.view[u] = got
        BY <2>3, <2>5, <3>1 DEF ViewType
      <4>2. landed[k][t] \subseteq got
        BY <1>1 DEF ReadInv, LandedStored
      <4> QED
        BY <1>3, <3>1, <4>1, <4>2
    <3>2. CASE u # t
      <4>1. u \in ReadBefore(t, k[1])
        BY <1>1, <3>2, OneMoreRead
      <4>2. q.view[u] = rd[r].view[u]
        BY <2>3, <2>5, <3>2 DEF ViewType
      <4> QED
        BY <1>0, <1>1, <2>5, <4>1, <4>2 DEF Sound
    <3> QED
      BY <3>1, <3>2
  <2>7. Sound(q)
    BY <1>1, <2>2, <2>5, <2>6 DEF Sound
  <2> QED
    BY <2>1, <2>5, <2>7, MoveKeeps DEF ReadTable
<1> QED
  BY <1>2, <1>3

\* storeResult: the result of a request that read all it needs.
LEMMA StoreKeeps ==
    ASSUME ReadInv, UNCHANGED ingestVars, NEW r \in Readers, NEW stored \in BOOLEAN,
           StoreResult(r, stored)
    PROVE  ReadInv'
<1>0. rd \in [Readers -> RdType] /\ rd[r] \in RdType /\ Sound(rd[r])
  BY DEF ReadInv, RTTypeOK, RdType, RequestsSound
<1>1. PICK q \in RdType : Sound(q) /\ rd' = [rd EXCEPT ![r] = q]
  BY AnswerKeeps DEF StoreResult
<1>2. CASE ~stored
  BY <1>1, <1>2, MoveKeeps DEF StoreResult
<1>3. CASE stored
  <2> DEFINE k == rd[r].key
             e == [view |-> rd[r].view, late |-> rd[r].late]
  <2>1. k \in CacheKeys /\ \A t \in Reads(k[1]) :
              /\ e.view[t] # {}
              /\ e.view[t] \subseteq Select(t, k[2])
              /\ ~e.late => landed[k][t] \subseteq e.view[t]
    BY <1>0 DEF StoreResult, Sound, ReadBefore
  <2>2. ~e.late => \A t \in Tables : landed[k][t] \subseteq e.view[t]
    BY <2>1 DEF ReadInv, LandedStored
  <2>3. e \in EntryType
    BY <1>0 DEF RdType, EntryType
  <2>4. cache' = [cache EXCEPT ![k] = e]
    BY <1>3 DEF StoreResult
  <2> HIDE DEF e
  <2>5. /\ cache \in [CacheKeys -> EntryType \cup {NoEntry}]
        /\ cache' \in [CacheKeys -> EntryType \cup {NoEntry}]
    BY <2>3, <2>4 DEF ReadInv, RTTypeOK, EntryType
  <2>6. rows' = rows /\ landed' = landed
    BY DEF StoreResult, ingestVars
  <2>7. \A t, s : Select(t, s)' = Select(t, s)
    BY <2>6 DEF Select, Annual
  <2>8. CachedFromStored'
    <3> SUFFICES ASSUME NEW x \in CacheKeys, cache'[x] # NoEntry, NEW t \in Reads(x[1])
                 PROVE  cache'[x].view[t] # {} /\ cache'[x].view[t] \subseteq Select(t, x[2])
      BY <2>7 DEF CachedFromStored
    <3>1. CASE x = k
      BY <2>1, <2>4, <2>5, <3>1
    <3>2. CASE x # k
      BY <2>4, <2>5, <3>2 DEF ReadInv, CachedFromStored
    <3> QED
      BY <3>1, <3>2
  <2>9. FreshUnlessLate'
    <3> SUFFICES ASSUME NEW x \in CacheKeys, cache'[x] # NoEntry, ~cache'[x].late,
                        NEW t \in Tables
                 PROVE  landed[x][t] \subseteq cache'[x].view[t]
      BY <2>6 DEF FreshUnlessLate
    <3>1. CASE x = k
      BY <2>2, <2>4, <2>5, <3>1
    <3>2. CASE x # k
      BY <2>4, <2>5, <3>2 DEF ReadInv, FreshUnlessLate
    <3> QED
      BY <3>1, <3>2
  <2>10. RequestsSound'
    <3> SUFFICES ASSUME NEW x \in Readers
                 PROVE  Sound(rd[x])'
      BY DEF RequestsSound
    <3>1. Sound(rd'[x])
      BY <1>0, <1>1 DEF ReadInv, RequestsSound
    <3> QED
      BY <2>6, <2>7, <3>1 DEF Sound
  <2>11. LandedStored'
    BY <2>6, <2>7 DEF ReadInv, LandedStored
  <2>12. RTTypeOK'
    BY <1>0, <1>1, <2>5, <2>6 DEF ReadInv, RTTypeOK, RdType, EntryType
  <2>13. TypeInv'
    BY TypeStep DEF ReadInv
  <2> QED
    BY <2>8, <2>9, <2>10, <2>11, <2>12, <2>13 DEF ReadInv
<1> QED
  BY <1>2, <1>3

\* The TTL removes an entry.
LEMMA ExpireKeeps ==
    ASSUME ReadInv, UNCHANGED ingestVars, NEW k \in CacheKeys, Expire(k)
    PROVE  ReadInv'
<1>1. rows' = rows /\ landed' = landed /\ rd' = rd
  BY DEF Expire, ingestVars
<1>2. \A t, s : Select(t, s)' = Select(t, s)
  BY <1>1 DEF Select, Annual
<1>3. cache \in [CacheKeys -> EntryType \cup {NoEntry}]
  BY DEF ReadInv, RTTypeOK, EntryType
<1>4. /\ cache' \in [CacheKeys -> EntryType \cup {NoEntry}]
      /\ \A x \in CacheKeys : cache'[x] # NoEntry => cache'[x] = cache[x]
  BY <1>3 DEF Expire
<1>5. CachedFromStored' /\ FreshUnlessLate'
  BY <1>1, <1>2, <1>4 DEF ReadInv, CachedFromStored, FreshUnlessLate
<1>6. RequestsSound' /\ LandedStored'
  BY <1>1, <1>2 DEF ReadInv, RequestsSound, Sound, LandedStored
<1>7. RTTypeOK'
  BY <1>1, <1>4 DEF ReadInv, RTTypeOK, EntryType
<1>8. TypeInv'
  BY TypeStep DEF ReadInv
<1> QED
  BY <1>5, <1>6, <1>7, <1>8 DEF ReadInv

-----------------------------------------------------------------------------
(* The composition.                                                         *)

\* The composed steps are steps of the ingestion or leave it alone, so what was
\* proved of the ingestion alone holds next to the readers.
LEMMA ComposedIngestion == [RTNext]_vars => [Next]_ingestVars
<1>1. ASSUME NEW w \in Procs, IngestStep(w) PROVE ProcStep(w)
  BY <1>1 DEF IngestStep, LandUnpurged, LandPurged, ProcStep
<1> QED
  BY <1>1 DEF RTNext, ReaderNext, Next, vars

\* Initially nothing is stored, cached or asked for.
LEMMA ReadInit == RTInit => ReadInv
<1> SUFFICES ASSUME RTInit PROVE ReadInv
  OBVIOUS
<1>1. TypeInv
  BY TypeInit DEF RTInit
<1>2. Nothing \in ViewType /\ \A t \in Tables : Nothing[t] = {}
  BY DEF Nothing, ViewType
<1>3. Idle \in RdType /\ Idle.pc = "idle"
  BY <1>2 DEF Idle, RdType
<1>4. RTTypeOK
  BY <1>2, <1>3 DEF RTInit, RTTypeOK, RdType
<1>5. RequestsSound
  BY <1>3 DEF RTInit, RequestsSound, Sound
<1>6. LandedStored
  BY <1>2 DEF RTInit, LandedStored
<1>7. CachedFromStored /\ FreshUnlessLate
  BY DEF RTInit, CachedFromStored, FreshUnlessLate
<1> QED
  BY <1>1, <1>4, <1>5, <1>6, <1>7 DEF ReadInv

\* Every step of the ingestion and of the readers keeps the invariant.
LEMMA ReadStepKeeps == ReadInv /\ [RTNext]_vars => ReadInv'
<1> SUFFICES ASSUME ReadInv, [RTNext]_vars PROVE ReadInv'
  OBVIOUS
<1>0. [Next]_ingestVars
  BY ComposedIngestion
<1>1. ASSUME NEW w \in Procs, LandUnpurged(w) PROVE ReadInv'
  <2>1. rows' = rows
    BY <1>1 DEF LandUnpurged, RecordSuccess
  <2> DEFINE keys == Kinds \X {run[w].sym}
  <2>2. CASE HasCache
    BY <1>0, <1>1, <2>2, QuietKeeps DEF LandUnpurged
  <2>3. CASE ~HasCache
    <3>1. Land(keys, {}, keys) /\ keys = {} \cup keys
      BY <1>1, <2>3 DEF LandUnpurged
    <3> HIDE DEF keys
    <3> QED
      BY <1>0, <2>1, <3>1, LandKeeps
  <2> QED
    BY <2>2, <2>3
<1>2. ASSUME NEW w \in Procs, NEW kind \in Kinds, NEW applied \in BOOLEAN,
             LandPurged(w, kind, applied)
      PROVE  ReadInv'
  <2>1. rows' = rows
    BY <1>2 DEF LandPurged, Purge, db
  <2> DEFINE keys == {<<kind, run[w].sym>>}
  <2>2. /\ Land(keys, keys, {}) \/ Land(keys, {}, keys)
        /\ keys = keys \cup {} /\ keys = {} \cup keys
    BY <1>2 DEF LandPurged
  <2> HIDE DEF keys
  <2> QED
    BY <1>0, <2>1, <2>2, LandKeeps
<1>3. CASE UNCHANGED readVars
  BY <1>0, <1>3, QuietKeeps
<1>4. ASSUME NEW r \in Readers, ReadStep(r), UNCHANGED ingestVars PROVE ReadInv'
  <2>1. CASE GetCompany(r)
    BY <1>4, <2>1, StartKeeps
  <2>2. CASE \E t \in Tables : ReadTable(r, t)
    BY <1>4, <2>2, ReadTableKeeps
  <2>3. CASE ReadErr(r)
    BY <1>4, <2>3, AnswerKeeps, MoveKeeps DEF ReadErr
  <2>4. CASE \E stored \in BOOLEAN : StoreResult(r, stored)
    BY <1>4, <2>4, StoreKeeps
  <2> QED
    BY <1>4, <2>1, <2>2, <2>3, <2>4 DEF ReadStep
<1>5. ASSUME NEW r \in Readers, NEW k \in CacheKeys, Hit(r, k), UNCHANGED ingestVars
      PROVE  ReadInv'
  BY <1>5, AnswerKeeps, MoveKeeps DEF Hit
<1>6. ASSUME NEW r \in Readers, NEW k \in CacheKeys, Miss(r, k), UNCHANGED ingestVars
      PROVE  ReadInv'
  BY <1>6, StartKeeps
<1>7. ASSUME NEW k \in CacheKeys, Expire(k), UNCHANGED ingestVars
      PROVE  ReadInv'
  BY <1>7, ExpireKeeps
<1>8. CASE RTNext
  BY <1>1, <1>2, <1>3, <1>4, <1>5, <1>6, <1>7, <1>8 DEF RTNext, ReaderNext, IngestStep
<1>9. CASE UNCHANGED vars
  BY <1>3, <1>9 DEF vars, readVars
<1> QED
  BY <1>8, <1>9

\* The read side's invariant, for the theorems below.
LEMMA ReadInvariant == RTSpec => []ReadInv
BY ReadInit, ReadStepKeeps, PTL DEF RTSpec

\* Cache entries and requests keep their types next to the ingestion.
THEOREM ReadTypes == RTSpec => []RTTypeOK
<1>1. ReadInv => RTTypeOK
  BY DEF ReadInv
<1> QED
  BY <1>1, ReadInvariant, PTL

\* What storeResult caches was computed from stored rows of its own symbol, and
\* from at least one of every table it needs, however its SELECTs interleave
\* with ingests, faults and other requests.
THEOREM CacheHoldsStoredRows == RTSpec => []CachedFromStored
<1>1. ReadInv => CachedFromStored
  BY DEF ReadInv
<1> QED
  BY <1>1, ReadInvariant, PTL

\* A cached result misses rows of the last successful Ingest only if it was being
\* filled when they landed, or if its deletion failed or was not wired.
THEOREM OnlyLateIsStale == RTSpec => []FreshUnlessLate
<1>1. ReadInv => FreshUnlessLate
  BY DEF ReadInv
<1> QED
  BY <1>1, ReadInvariant, PTL

\* The pipeline next to the readers is the pipeline: every behaviour of the
\* composition satisfies the ingestion's own specification.
THEOREM CompositionKeepsIngestion == RTSpec => Spec
<1>1. RTInit => Init
  BY DEF RTInit
<1> QED
  BY <1>1, ComposedIngestion, PTL DEF RTSpec, Spec

=============================================================================
