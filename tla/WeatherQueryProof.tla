-------------------------- MODULE WeatherQueryProof -------------------------
(***************************************************************************)
(* Proofs about WeatherQuery, for any number of queries, refreshers and    *)
(* cities, whatever they insert and whatever fails.                        *)
(***************************************************************************)
EXTENDS WeatherQuery, TLAPS

\* The table: without it there are no rows, every row is remembered, and
\* what a query counts as steady is there.
TableSound ==
  /\ ~table => rows = {}
  /\ rows \subseteq ever
  /\ \A q \in Queries : steady[q] \subseteq Present

\* A row on its way to the cache is one of the key it will be stored under.
FillSound ==
  \A q \in Queries : qpc[q] \in {"set", "set+"} =>
    sql_data[q] \in ever /\ sql_data[q].key = Key(q, qpc[q])

\* A query that tries the second name has not found the first, and one that
\* fills the cache has found a row.
FirstMissed ==
  \A q \in Queries :
    /\ qpc[q] = "select+" => <<city_name[q], "">> \notin steady[q]
    /\ qpc[q] \in {"set", "set+"} => answer[q] # NotFind

IInv ==
  /\ TypeOK /\ TableSound /\ TableSurvives
  /\ FillSound /\ Provenance
  /\ FirstMissed /\ SteadyIsFound

-----------------------------------------------------------------------------
(* Types and the table *)

\* Each key that is used is a key.
LEMMA KeyType ==
  ASSUME TypeOK, NEW q \in Queries, NEW place
  PROVE  /\ Key(q, place) \in Keys
         /\ Key(q, place)[1] = city_name[q]
BY DEF TypeOK, Key, Keys

\* A query's step leaves the database and the refreshers alone.
LEMMA QueryFrame ==
  ASSUME NEW q \in Queries, QueryStep(q)
  PROVE  UNCHANGED <<table, rows, ever, wpc, inserted, steady, city_name>>
BY DEF QueryStep, MemcacheHit, MemcacheMiss, SelectRow, SelectNothing, SelectCrashes, SelectFails, MemcacheSet,
       MemcacheSetFails, AfterEmptySelect, db, refresher

\* A refresher's step leaves the queries and the cache alone, and never adds
\* to what is steady nor takes from what is remembered.
LEMMA RefreshFrame ==
  ASSUME NEW w \in Refreshers, RefreshStep(w), TypeOK
  PROVE  /\ UNCHANGED <<cache, qpc, city_name, conn, sql_data, answer>>
         /\ ever \subseteq ever'
         /\ \A q \in Queries : steady'[q] \subseteq steady[q]
BY DEF RefreshStep, Crawl, CrawlFails, delete_table, creat_table, insert_sql, RefreshEnds, Killed,
       Becomes, db, query, TypeOK

\* The types survive every step.
LEMMA TypeStep == TypeOK /\ [Next]_vars => TypeOK'
<1> SUFFICES ASSUME TypeOK, [Next]_vars PROVE TypeOK'
  OBVIOUS
<1> USE DEF TypeOK
<1>1. CASE \E q \in Queries : Start(q)
  <2>1. PICK q \in Queries : Start(q)
    BY <1>1
  <2>2. Present \subseteq Keys
    BY DEF Present, Rows
  <2> QED
    BY <2>1, <2>2 DEF Start, db, refresher, May
<1>2. CASE \E q \in Queries : QueryStep(q)
  <2>1. PICK q \in Queries : QueryStep(q)
    BY <1>2
  <2>2. CASE MemcacheHit(q)
    BY <2>2, KeyType DEF MemcacheHit, db, refresher
  <2>3. CASE MemcacheMiss(q)
    BY <2>3 DEF MemcacheMiss, db, refresher
  <2>4. CASE SelectRow(q)
    BY <2>4 DEF SelectRow, Matches, db, refresher
  <2>5. CASE SelectNothing(q)
    BY <2>5 DEF SelectNothing, AfterEmptySelect, db, refresher
  <2>6. CASE SelectCrashes(q) \/ SelectFails(q)
    BY <2>6 DEF SelectCrashes, SelectFails, db, refresher
  <2>7. CASE MemcacheSet(q)
    BY <2>7, KeyType DEF MemcacheSet, db, refresher
  <2>8. CASE MemcacheSetFails(q)
    BY <2>8 DEF MemcacheSetFails, db, refresher
  <2> QED
    BY <2>1, <2>2, <2>3, <2>4, <2>5, <2>6, <2>7, <2>8 DEF QueryStep
<1>3. CASE \E k \in Keys : Expire(k)
  BY <1>3 DEF Expire, db, query, refresher
<1>4. CASE \E w \in Refreshers : RefreshStep(w)
  <2>1. PICK w \in Refreshers : RefreshStep(w)
    BY <1>4
  <2>2. CASE Crawl(w) \/ CrawlFails(w) \/ RefreshEnds(w) \/ Killed(w)
    BY <2>2 DEF Crawl, CrawlFails, RefreshEnds, Killed, Goes, db, query
  <2>3. CASE delete_table(w)
    BY <2>3 DEF delete_table, Becomes, Goes, DropNext, query
  <2>4. CASE creat_table(w)
    BY <2>4 DEF creat_table, Becomes, Goes, query
  <2>5. CASE insert_sql(w)
    <3>1. Len(Inserts[w]) \in Nat /\ inserted[w] + 1 \in 1 .. Len(Inserts[w])
      BY <2>5, QueryAssumption DEF insert_sql
    <3>2. Inserts[w][inserted[w] + 1] \in Keys
      BY <3>1, QueryAssumption
    <3>3. [key |-> Inserts[w][inserted[w] + 1], by |-> w] \in Rows
      BY <3>2 DEF Rows
    <3> QED
      BY <2>5, <3>1, <3>3 DEF insert_sql, Becomes, query
  <2> QED
    BY <2>1, <2>2, <2>3, <2>4, <2>5 DEF RefreshStep
<1>5. CASE UNCHANGED vars
  BY <1>5 DEF vars, db, query, refresher
<1> QED
  BY <1>1, <1>2, <1>3, <1>4, <1>5 DEF Next

\* Dropping, creating and inserting keep the table sound, and only a program
\* that is about to create it, or was stopped there, leaves it missing.
LEMMA TableStep ==
  TypeOK /\ TableSound /\ TableSurvives /\ [Next]_vars => TableSound' /\ TableSurvives'
<1> SUFFICES ASSUME TypeOK, TableSound, TableSurvives, [Next]_vars
             PROVE  TableSound' /\ TableSurvives'
  OBVIOUS
<1>1. CASE \E q \in Queries : Start(q)
  BY <1>1 DEF Start, db, refresher, TableSound, TableSurvives, Present, TypeOK
<1>2. CASE \E q \in Queries : QueryStep(q)
  BY <1>2, QueryFrame DEF TableSound, TableSurvives, Present
<1>3. CASE \E k \in Keys : Expire(k)
  BY <1>3 DEF Expire, db, query, refresher, TableSound, TableSurvives, Present
<1>4. CASE \E w \in Refreshers : RefreshStep(w)
  <2>1. PICK w \in Refreshers : RefreshStep(w)
    BY <1>4
  <2>2. CASE Crawl(w) \/ CrawlFails(w) \/ RefreshEnds(w) \/ Killed(w)
    BY <2>2 DEF Crawl, CrawlFails, RefreshEnds, Killed, Goes, db, TableSound, TableSurvives,
                Present, TypeOK
  <2>3. CASE delete_table(w)
    BY <2>3 DEF delete_table, Becomes, Goes, DropNext, TableSound, TableSurvives, Present, TypeOK
  <2>4. CASE creat_table(w)
    BY <2>4 DEF creat_table, Becomes, Goes, TableSound, TableSurvives, Present
  <2>5. CASE insert_sql(w)
    BY <2>5 DEF insert_sql, Becomes, TableSound, TableSurvives, Present
  <2> QED
    BY <2>1, <2>2, <2>3, <2>4, <2>5 DEF RefreshStep
<1>5. CASE UNCHANGED vars
  BY <1>5 DEF vars, db, query, refresher, TableSound, TableSurvives, Present
<1> QED
  BY <1>1, <1>2, <1>3, <1>4, <1>5 DEF Next

-----------------------------------------------------------------------------
(* Answers and the cache *)

\* Whatever is shown or stored came from the table, under its own key.
LEMMA ProvenanceStep ==
  TypeOK /\ TableSound /\ FillSound /\ Provenance /\ [Next]_vars => FillSound' /\ Provenance'
<1> SUFFICES ASSUME TypeOK, TableSound, FillSound, Provenance, [Next]_vars
             PROVE  FillSound' /\ Provenance'
  OBVIOUS
<1>1. CASE \E q \in Queries : Start(q)
  <2>1. PICK q \in Queries : Start(q)
    BY <1>1
  <2>2. /\ qpc'[q] = "get" /\ answer'[q] = None
        /\ \A p \in Queries \ {q} : /\ qpc'[p] = qpc[p] /\ city_name'[p] = city_name[p]
                                   /\ sql_data'[p] = sql_data[p] /\ answer'[p] = answer[p]
        /\ UNCHANGED <<cache, ever>>
    BY <2>1 DEF Start, db, TypeOK
  <2> QED
    BY <2>2, QueryAssumption, ZenonT(30) DEF FillSound, Provenance, Key
<1>2. CASE \E q \in Queries : QueryStep(q)
  <2>1. PICK q \in Queries : QueryStep(q)
    BY <1>2
  <2>2. UNCHANGED <<ever, city_name>>
    BY <2>1, QueryFrame
  <2>3. CASE MemcacheHit(q)
    <3>1. /\ qpc'[q] = "end" /\ answer'[q] = cache[Key(q, qpc[q])] /\ answer'[q] # None
          /\ \A p \in Queries \ {q} : qpc'[p] = qpc[p] /\ answer'[p] = answer[p]
          /\ UNCHANGED <<cache, sql_data>>
      BY <2>3 DEF MemcacheHit, TypeOK
    <3>2. answer'[q] \in ever /\ answer'[q].key = Key(q, qpc[q])
      BY <3>1, KeyType DEF Provenance
    <3>3. answer'[q].key[1] = city_name[q]
      BY <3>2, KeyType
    <3> QED
      BY <2>2, <3>1, <3>2, <3>3 DEF FillSound, Provenance, Key
  <2>4. CASE MemcacheMiss(q) \/ SelectCrashes(q) \/ SelectFails(q) \/ MemcacheSetFails(q)
    BY <2>2, <2>4, ZenonT(30) DEF MemcacheMiss, SelectCrashes, SelectFails, MemcacheSetFails, FillSound, Provenance, Key, TypeOK
  <2>5. CASE SelectRow(q)
    <3>1. PICK row \in Matches(q) :
            /\ sql_data' = [sql_data EXCEPT ![q] = row]
            /\ answer' = [answer EXCEPT ![q] = row]
      BY <2>5 DEF SelectRow
    <3>2. row \in ever /\ row.key = Key(q, qpc[q])
      BY <3>1 DEF Matches, TableSound
    <3>3. row.key[1] = city_name[q]
      BY <3>2, KeyType
    <3>4. /\ sql_data'[q] = row /\ answer'[q] = row
          /\ \A p \in Queries \ {q} : /\ qpc'[p] = qpc[p] /\ sql_data'[p] = sql_data[p]
                                     /\ answer'[p] = answer[p]
          /\ UNCHANGED cache
          /\ (qpc[q] = "select" /\ qpc'[q] = "set") \/ (qpc[q] = "select+" /\ qpc'[q] = "set+")
      BY <2>5, <3>1 DEF SelectRow, TypeOK
    <3>5. FillSound'
      <4>1. row.key = Key(q, qpc'[q])
        BY <3>2, <3>4 DEF Key
      <4>2. Key(q, qpc[q])' = Key(q, qpc'[q]) /\ \A p \in Queries \ {q} : Key(p, qpc[p])' = Key(p, qpc[p])
        BY <2>2, <3>4 DEF Key
      <4> QED
        BY <2>2, <3>2, <3>4, <4>1, <4>2 DEF FillSound
    <3>6. Provenance'
      BY <2>2, <3>2, <3>3, <3>4 DEF Provenance
    <3> QED
      BY <3>5, <3>6
  <2>6. CASE SelectNothing(q)
    <3>1. /\ qpc'[q] \in {"select+", "end"} /\ answer'[q] \in {answer[q], NotFind}
          /\ \A p \in Queries \ {q} : qpc'[p] = qpc[p] /\ answer'[p] = answer[p]
          /\ UNCHANGED <<cache, sql_data>>
      BY <2>6 DEF SelectNothing, AfterEmptySelect, TypeOK
    <3> QED
      BY <2>2, <3>1, QueryAssumption, ZenonT(30) DEF FillSound, Provenance, Key
  <2>7. CASE MemcacheSet(q)
    BY <2>2, <2>7, KeyType DEF MemcacheSet, FillSound, Provenance, Key, TypeOK
  <2> QED
    BY <2>1, <2>3, <2>4, <2>5, <2>6, <2>7 DEF QueryStep
<1>3. CASE \E k \in Keys : Expire(k)
  BY <1>3 DEF Expire, db, query, FillSound, Provenance, Key, TypeOK
<1>4. CASE \E w \in Refreshers : RefreshStep(w)
  BY <1>4, RefreshFrame DEF FillSound, Provenance, Key
<1>5. CASE UNCHANGED vars
  BY <1>5 DEF vars, db, query, FillSound, Provenance, Key
<1> QED
  BY <1>1, <1>2, <1>3, <1>4, <1>5 DEF Next

-----------------------------------------------------------------------------
(* Finding what is there *)

\* A SELECT without a row shows that the key was not there all the time.
LEMMA MissedIsAbsent ==
  ASSUME TypeOK, TableSound, NEW q \in Queries, Matches(q) = {}
  PROVE  Key(q, qpc[q]) \notin steady[q]
<1> SUFFICES ASSUME Key(q, qpc[q]) \in Present PROVE FALSE
  BY DEF TableSound
<1>1. PICK row \in rows : row.key = Key(q, qpc[q])
  BY DEF Present
<1> QED
  BY <1>1 DEF Matches

\* A query gives up only on a city that was not there all the time.
LEMMA SteadyStep ==
  TypeOK /\ TableSound /\ FirstMissed /\ SteadyIsFound /\ [Next]_vars => FirstMissed' /\ SteadyIsFound'
<1> SUFFICES ASSUME TypeOK, TableSound, FirstMissed, SteadyIsFound, [Next]_vars
             PROVE  FirstMissed' /\ SteadyIsFound'
  OBVIOUS
<1>1. CASE \E q \in Queries : Start(q)
  <2>1. PICK q \in Queries : Start(q)
    BY <1>1
  <2>2. /\ qpc'[q] = "get"
        /\ \A p \in Queries \ {q} : /\ qpc'[p] = qpc[p] /\ city_name'[p] = city_name[p]
                                   /\ conn'[p] = conn[p] /\ answer'[p] = answer[p]
                                   /\ steady'[p] = steady[p]
    BY <2>1 DEF Start, TypeOK
  <2> QED
    BY <2>2 DEF FirstMissed, SteadyIsFound
<1>2. CASE \E q \in Queries : QueryStep(q)
  <2>1. PICK q \in Queries : QueryStep(q)
    BY <1>2
  <2>2. UNCHANGED <<steady, city_name>>
    BY <2>1, QueryFrame
  <2>3. CASE MemcacheHit(q) \/ MemcacheMiss(q) \/ SelectRow(q) \/ MemcacheSet(q) \/ MemcacheSetFails(q)
    <3>1. UNCHANGED conn /\ \A p \in Queries \ {q} : qpc'[p] = qpc[p] /\ answer'[p] = answer[p]
      BY <2>3 DEF MemcacheHit, MemcacheMiss, SelectRow, MemcacheSet, MemcacheSetFails, TypeOK
    <3>2. NotFind \notin Rows
      BY QueryAssumption
    <3>3. /\ qpc'[q] \in {"get+", "select", "set", "set+", "end"}
          /\ qpc'[q] \in {"set", "set+", "end"} => answer'[q] # NotFind
      <4>1. CASE MemcacheHit(q)
        BY <3>2, <4>1, KeyType DEF MemcacheHit, TypeOK
      <4>2. CASE MemcacheMiss(q)
        BY <4>2 DEF MemcacheMiss, TypeOK
      <4>3. CASE SelectRow(q)
        BY <3>2, <4>3 DEF SelectRow, Matches, TypeOK
      <4>4. CASE MemcacheSet(q) \/ MemcacheSetFails(q)
        BY <4>4 DEF MemcacheSet, MemcacheSetFails, FirstMissed, TypeOK
      <4> QED
        BY <2>3, <4>1, <4>2, <4>3, <4>4
    <3> QED
      BY <2>2, <3>1, <3>3 DEF FirstMissed, SteadyIsFound
  <2>4. CASE SelectNothing(q)
    <3>1. Key(q, qpc[q]) \notin steady[q]
      BY <2>4, MissedIsAbsent DEF SelectNothing
    <3>2. CASE qpc[q] = "select"
      BY <2>2, <2>4, <3>1, <3>2
         DEF SelectNothing, AfterEmptySelect, Key, FirstMissed, SteadyIsFound, TypeOK
    <3>3. CASE qpc[q] = "select+"
      <4>1. {<<city_name[q], "">>, <<city_name[q], "+">>} \cap steady[q] = {}
        BY <3>1, <3>3 DEF FirstMissed, Key
      <4> QED
        BY <2>2, <2>4, <3>3, <4>1, ZenonT(30) DEF SelectNothing, AfterEmptySelect, FirstMissed, SteadyIsFound, TypeOK
    <3> QED
      BY <2>4, <3>2, <3>3 DEF SelectNothing
  <2>5. CASE SelectCrashes(q)
    <3>1. conn[q] => steady[q] = {}
      BY <2>5 DEF SelectCrashes, TableSound, Present
    <3> QED
      BY <2>2, <2>5, <3>1 DEF SelectCrashes, FirstMissed, SteadyIsFound, TypeOK
  <2>6. CASE SelectFails(q)
    <3>1. /\ qpc'[q] = "crashed" /\ ~conn'[q]
          /\ \A p \in Queries \ {q} : qpc'[p] = qpc[p] /\ conn'[p] = conn[p]
          /\ UNCHANGED answer
      BY <2>6 DEF SelectFails, TypeOK
    <3> QED
      BY <2>2, <3>1 DEF FirstMissed, SteadyIsFound
  <2> QED
    BY <2>1, <2>3, <2>4, <2>5, <2>6 DEF QueryStep
<1>3. CASE \E k \in Keys : Expire(k)
  BY <1>3 DEF Expire, query, FirstMissed, SteadyIsFound
<1>4. CASE \E w \in Refreshers : RefreshStep(w)
  BY <1>4, RefreshFrame DEF FirstMissed, SteadyIsFound
<1>5. CASE UNCHANGED vars
  BY <1>5 DEF vars, query, FirstMissed, SteadyIsFound
<1> QED
  BY <1>1, <1>2, <1>3, <1>4, <1>5 DEF Next

-----------------------------------------------------------------------------
(* The theorems *)

\* The invariant holds when the queries and refreshers begin.
LEMMA InitOK == Init => IInv
<1> SUFFICES ASSUME Init PROVE IInv
  OBVIOUS
<1>1. \A w \in Refreshers : Len(Inserts[w]) \in Nat
  BY QueryAssumption
<1>2. rows \subseteq Rows
  BY QueryAssumption DEF Init, Rows
<1>3. TypeOK
  BY <1>1, <1>2 DEF Init, TypeOK
<1>4. TableSound /\ TableSurvives /\ FillSound /\ FirstMissed /\ SteadyIsFound
  BY DEF Init, TableSound, TableSurvives, FillSound, FirstMissed, SteadyIsFound
<1>5. Provenance
  BY QueryAssumption DEF Init, Provenance
<1> QED
  BY <1>3, <1>4, <1>5 DEF IInv

\* The invariant holds in every state.
THEOREM QueryInvariant == Spec => []IInv
<1>1. IInv /\ [Next]_vars => IInv'
  BY TypeStep, TableStep, ProvenanceStep, SteadyStep DEF IInv
<1> QED
  BY <1>1, InitOK, PTL DEF Spec

\* Every variable of the queries, the cache and the refreshers keeps its type.
THEOREM QueryTypeCorrect == Spec => []TypeOK
<1>1. IInv => TypeOK
  BY DEF IInv
<1> QED
  BY <1>1, QueryInvariant, PTL

\* What find_cgi shows or stores was in the table under the key it is about.
THEOREM AnswersHaveProvenance == Spec => []Provenance
<1>1. IInv => Provenance
  BY DEF IInv
<1> QED
  BY <1>1, QueryInvariant, PTL

\* A city whose row stays in the table while find_cgi runs is found, if
\* MySQL does not fail.
THEOREM SteadyCitiesAreFound == Spec => []SteadyIsFound
<1>1. IInv => SteadyIsFound
  BY DEF IInv
<1> QED
  BY <1>1, QueryInvariant, PTL

\* A table that is missing is about to be created, or a program was stopped
\* between its drop and its create.
THEOREM TableIsLeft == Spec => []TableSurvives
<1>1. IInv => TableSurvives
  BY DEF IInv
<1> QED
  BY <1>1, QueryInvariant, PTL
=============================================================================
