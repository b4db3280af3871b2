------------------------ MODULE AnalysisPipelineProofs -------------------------
(* Proofs about AnalysisPipeline for every set of workbooks and of exported    *)
(* schedules, whatever is in their cells. First the upload: columns and        *)
(* hierarchies are kept, and an import reaches the rules. Then the rules and   *)
(* the score: what the rules find is made of names and rows of the dataset,    *)
(* which are finitely many, so that the penalties have a sum. Then costs, the  *)
(* counts of a completed ingestion, added up a finite set at a time, and the   *)
(* identities of findings, which no rule repeats unless the workbook does.     *)
EXTENDS AnalysisPipeline, NumberOrderProofs, FunctionTheorems, SequenceTheorems

-----------------------------------------------------------------------------
(* Gating.                                                                    *)

\* The rules require domains of the profile only.
LEMMA RequiredAreDomains ==
    \A rule \in Audit!Rules : Audit!_REQUIRED_DOMAINS_BY_RULE(rule) \subseteq Domains
BY DEF Audit!Rules, Audit!_REQUIRED_DOMAINS_BY_RULE, Domains

\* What is recorded of a run of the engine: a rule was executed exactly if no
\* domain that it requires is blocked.
LEMMA ExecutedExactly ==
    ASSUME NEW data, NEW runtime
    PROVE  LET execution == Audit!run_gated(data, runtime)
           IN  /\ execution.executed = {r \in Audit!Rules :
                                            Audit!Blocked(r, data.domain_statuses) = {}}
               /\ DOMAIN execution.skipped = Audit!Rules \ execution.executed
               /\ \A r \in DOMAIN execution.skipped :
                     execution.skipped[r] = Audit!Blocked(r, data.domain_statuses)
               /\ execution.findings =
                     UNION {Audit!evaluate(r, data, runtime) : r \in execution.executed}
BY DEF Audit!run_gated

\* The status of a domain is one of three.
LEMMA StatusKinds ==
    ASSUME NEW e, NEW d \in Domains
    PROVE  map_extracted_workbook(e).domain_statuses[d] \in {"valid", "warning", "blocked"}
BY DEF map_extracted_workbook, OwnStatus

-----------------------------------------------------------------------------
(* The keys of the columns.                                                   *)

\* Two suffixes of a string make two strings.
LEMMA SuffixesDiffer ==
    ASSUME NEW h, IsString(h), NEW j, NEW k, Append(h, j) = Append(h, k)
    PROVE  j = k
<1>1. h \in Seq({h[i] : i \in 1..Len(h)})
  BY DEF IsString
<1> DEFINE S == {h[i] : i \in 1..Len(h)} \union {j, k}
<1>2. h \in Seq(S) /\ j \in S /\ k \in S
  BY <1>1 DEF IsString
<1> HIDE DEF S
<1>3. Append(h, j)[Len(h) + 1] = j /\ Append(h, k)[Len(h) + 1] = k
  BY <1>2
<1> QED
  BY <1>3

\* Of one suffix more than there are names, one makes a name that is free.
LEMMA FreeExists ==
    ASSUME NEW base, IsString(base), NEW taken, IsFiniteSet(taken)
    PROVE  /\ FreeOccurrence(base, taken) \in Nat
           /\ Append(base, FreeOccurrence(base, taken)) \notin taken
<1> DEFINE C == Cardinality(taken)
           free == {k \in 2..(C + 2) : Append(base, k) \notin taken}
           First(k) == /\ Append(base, k) \notin taken
                       /\ \A j \in 2..(k - 1) : Append(base, j) \in taken
<1>1. C \in Nat
  BY FS_CardinalityType
<1>2. free # {}
  <2> SUFFICES ASSUME free = {} PROVE FALSE
    OBVIOUS
  <2> DEFINE f == [k \in 2..(C + 2) |-> Append(base, k)]
  <2>1. f \in [2..(C + 2) -> taken]
    OBVIOUS
  <2>2. \A j, k \in 2..(C + 2) : f[j] = f[k] => j = k
    BY SuffixesDiffer
  <2>3. f \in Injection(2..(C + 2), taken)
    BY <2>1, <2>2 DEF Injection, IsInjective
  <2> HIDE DEF C, f, free
  <2>4. Cardinality(2..(C + 2)) <= C
    BY <2>3, FS_Injection DEF C
  <2>5. Cardinality(2..(C + 2)) = C + 1
    <3>1. \A a, b \in Int : Cardinality(a..b) = IF a > b THEN 0 ELSE b - a + 1
      BY FiniteIntervals
    <3>2. 2 \in Int /\ C + 2 \in Int /\ ~ (2 > C + 2)
      BY <1>1
    <3>3. Cardinality(2..(C + 2)) = (C + 2) - 2 + 1
      BY <3>1, <3>2
    <3> QED
      BY <1>1, <3>3
  <2> QED
    BY <1>1, <2>4, <2>5
<1>3. PICK k \in free : \A j \in free : k <= j
  <2>1. free \subseteq Nat
    BY <1>1
  <2> HIDE DEF free
  <2> QED
    BY <1>2, <2>1, LeastMember
<1>4. k \in 2..(C + 2) /\ First(k)
  <2>1. k \in Nat /\ k \in 2..(C + 2) /\ Append(base, k) \notin taken
    BY <1>1, <1>3
  <2>2. ASSUME NEW j \in 2..(k - 1)
        PROVE  Append(base, j) \in taken
    <3>1. j \in 2..(C + 2) /\ ~ (k <= j)
      BY <1>1, <2>1
    <3> QED
      BY <1>3, <3>1
  <2> QED
    BY <2>1, <2>2
<1>5. FreeOccurrence(base, taken) = CHOOSE i \in 2..(C + 2) : First(i)
  BY DEF FreeOccurrence
<1> HIDE DEF First
<1>6. FreeOccurrence(base, taken) \in 2..(C + 2) /\ First(FreeOccurrence(base, taken))
  BY <1>4, <1>5
<1> QED
  BY <1>1, <1>6 DEF First

\* The key of the next column.
NextKey(literal, keys, h) ==
    LET used == Range(keys)
        base == IF h = None THEN <<"unnamed", Len(keys) + 1>> ELSE h
        kept == base \notin used /\ (h # None \/ base \notin literal)
    IN  IF kept THEN base ELSE Append(base, FreeOccurrence(base, literal \union used))

\* A new column gets a key that no earlier one has; if a column has that key
\* as its header, the new one does.
LEMMA NextKeyIsFree ==
    ASSUME NEW literal, IsFiniteSet(literal), NEW keys, IsFiniteSet(Range(keys)), Len(keys) \in Nat,
           NEW h, h # None => IsString(h)
    PROVE  LET k == NextKey(literal, keys, h)
           IN  /\ k \notin Range(keys)
               /\ k \in literal => k = h
               /\ h # None /\ h \notin Range(keys) => k = h
<1> DEFINE used == Range(keys)
           base == IF h = None THEN <<"unnamed", Len(keys) + 1>> ELSE h
           kept == base \notin used /\ (h # None \/ base \notin literal)
           suffixed == Append(base, FreeOccurrence(base, literal \union used))
<1>1. IsString(base)
  BY DEF IsString
<1>2. IsFiniteSet(literal \union used)
  BY FS_Union
<1>3. NextKey(literal, keys, h) = IF kept THEN base ELSE suffixed
  BY DEF NextKey
<1> HIDE DEF suffixed, used
<1>4. suffixed \notin literal \union used
  BY <1>1, <1>2, FreeExists DEF suffixed
<1> QED
  BY <1>3, <1>4 DEF used

\* The strings that may be keys: of the headers, or made of them.
Bases(headers) == LiteralHeaders(headers) \union {<<"unnamed", n>> : n \in Nat}
Keys(headers) == Bases(headers) \union {Append(b, k) : b \in Bases(headers), k \in Nat}

\* The next key is one of them.
LEMMA NextKeyIsKey ==
    ASSUME NEW headers, IsFiniteSet(LiteralHeaders(headers)),
           NEW keys \in Seq(Keys(headers)), IsFiniteSet(Range(keys)),
           NEW h \in LiteralHeaders(headers) \union {None}, h # None => IsString(h)
    PROVE  NextKey(LiteralHeaders(headers), keys, h) \in Keys(headers)
<1> DEFINE literal == LiteralHeaders(headers)
           used == Range(keys)
           base == IF h = None THEN <<"unnamed", Len(keys) + 1>> ELSE h
<1>1. IsString(base)
  BY DEF IsString
<1>2. base \in Bases(headers)
  BY DEF Bases
<1>3. IsFiniteSet(literal \union used)
  BY FS_Union
<1>4. NextKey(literal, keys, h) = base
      \/ NextKey(literal, keys, h) = Append(base, FreeOccurrence(base, literal \union used))
  BY DEF NextKey
<1> HIDE DEF base, literal, used
<1>5. FreeOccurrence(base, literal \union used) \in Nat
  BY <1>1, <1>3, FreeExists
<1> QED
  BY <1>2, <1>4, <1>5 DEF Keys, literal

\* The keys of the first columns.
GoodKeys(headers, n, keys) ==
    /\ keys \in Seq(Keys(headers)) /\ Len(keys) = n
    /\ \A p, q \in 1..n : keys[p] = keys[q] => p = q
    /\ \A p \in 1..n : keys[p] \in LiteralHeaders(headers) => keys[p] = headers[p]
    /\ \A p \in 1..n : headers[p] # None /\ (\A q \in 1..(p - 1) : headers[q] # headers[p])
                          => keys[p] = headers[p]

\* The key of one more column.
LEMMA GoodKeysStep ==
    ASSUME NEW headers, IsString(headers), IsFiniteSet(LiteralHeaders(headers)),
           NEW n \in 1..Len(headers), headers[n] # None => IsString(headers[n]),
           NEW keys, GoodKeys(headers, n - 1, keys)
    PROVE  GoodKeys(headers, n, Append(keys, NextKey(LiteralHeaders(headers), keys, headers[n])))
<1> DEFINE literal == LiteralHeaders(headers)
           h == headers[n]
           k == NextKey(literal, keys, h)
           more == Append(keys, k)
<1>0. n \in Nat /\ n >= 1 /\ Len(headers) \in Nat /\ DOMAIN headers = 1..Len(headers)
  BY DEF IsString
<1>1. /\ keys \in Seq(Keys(headers)) /\ Len(keys) = n - 1
      /\ \A p, q \in 1..(n - 1) : keys[p] = keys[q] => p = q
      /\ \A p \in 1..(n - 1) : keys[p] \in literal => keys[p] = headers[p]
      /\ \A p \in 1..(n - 1) :
            headers[p] # None /\ (\A q \in 1..(p - 1) : headers[q] # headers[p])
                => keys[p] = headers[p]
  BY DEF GoodKeys
<1>2. /\ Range(keys) = {keys[p] : p \in 1..(n - 1)}
      /\ IsFiniteSet(Range(keys))
  <2>1. Range(keys) = {keys[p] : p \in 1..(n - 1)}
    BY <1>0, <1>1 DEF Range
  <2>2. IsFiniteSet(1..(n - 1))
    <3>1. n - 1 \in Int /\ 1 \in Int
      BY <1>0
    <3> QED
      BY <3>1, FiniteIntervals
  <2>3. \A t \in Range(keys) : \E p \in 1..(n - 1) : t = keys[p]
    BY <2>1
  <2> QED
    BY <2>1, <2>2, <2>3, FiniteImage
<1>3. h \in literal \union {None} /\ (h # None => h \in literal)
  BY <1>0 DEF LiteralHeaders, Range
<1> HIDE DEF h, literal
<1>4. k \in Keys(headers)
  BY <1>1, <1>2, <1>3, NextKeyIsKey DEF literal, h
<1>5. /\ k \notin Range(keys)
      /\ k \in literal => k = h
      /\ h # None /\ h \notin Range(keys) => k = h
  <2>1. Len(keys) \in Nat
    BY <1>0, <1>1
  <2>2. IsFiniteSet(literal) /\ (h # None => IsString(h))
    BY DEF literal, h
  <2> QED
    BY <1>2, <2>1, <2>2, NextKeyIsFree
<1> HIDE DEF k
<1>6. /\ more \in Seq(Keys(headers)) /\ Len(more) = n /\ more[n] = k
      /\ \A p \in 1..(n - 1) : more[p] = keys[p]
  BY <1>0, <1>1, <1>4
<1> HIDE DEF more
<1>7. \A p \in 1..n : p = n \/ p \in 1..(n - 1)
  BY <1>0
<1>8. \A p \in 1..(n - 1) : keys[p] # k
  BY <1>2, <1>5
<1>9. \A p, q \in 1..n : more[p] = more[q] => p = q
  BY <1>1, <1>6, <1>7, <1>8
<1>10. \A p \in 1..n : more[p] \in literal => more[p] = headers[p]
  BY <1>1, <1>5, <1>6, <1>7 DEF h
<1>11. ASSUME h # None, \A q \in 1..(n - 1) : headers[q] # h
       PROVE  k = h
  <2>1. h \in literal
    BY <1>3, <1>11
  <2>2. h \notin Range(keys)
    BY <1>1, <1>2, <1>11, <2>1
  <2> QED
    BY <1>5, <1>11, <2>2
<1>12. \A p \in 1..n : headers[p] # None /\ (\A q \in 1..(p - 1) : headers[q] # headers[p])
                          => more[p] = headers[p]
  BY <1>1, <1>6, <1>7, <1>11 DEF h
<1>13. GoodKeys(headers, n, more)
  BY <1>6, <1>9, <1>10, <1>12 DEF GoodKeys, literal
<1> QED
  BY <1>13 DEF more, k, h, literal

\* Every column has a key of its own, and the first column of each header has
\* the header as its key, whatever suffixed names the sheet itself uses.
LEMMA KeysAreUnique ==
    ASSUME NEW headers, IsString(headers),
           \A p \in DOMAIN headers : headers[p] # None => IsString(headers[p])
    PROVE  GoodKeys(headers, Len(headers), _unique_value_keys(headers))
<1> DEFINE N == Len(headers)
           literal == LiteralHeaders(headers)
           V == Seq(Keys(headers))
           Next1(keys, h) == Append(keys, NextKey(literal, keys, h))
           Eq(g) == g = [s \in SUBSET (DOMAIN headers) |->
                            IF s = {} THEN <<>>
                            ELSE LET x == Max(s) IN Next1(g[s \ {x}], headers[x])]
           step == [q \in (1..N) \X V |-> Next1(q[2], headers[q[1]])]
<1>0. N \in Nat /\ DOMAIN headers = 1..N
  BY DEF IsString
<1>1. _unique_value_keys(headers) = (CHOOSE g : Eq(g))[DOMAIN headers]
  BY DEF _unique_value_keys, FoldLeft, MapThenFoldSet, NextKey
<1>2. IsFiniteSet(literal)
  <2>1. \A t \in Range(headers) : \E p \in 1..N : t = headers[p]
    BY <1>0 DEF Range
  <2>2. IsFiniteSet(1..N)
    BY <1>0, FinitePositions
  <2>3. IsFiniteSet(Range(headers))
    BY <2>1, <2>2, FiniteImage
  <2> QED
    BY <2>3, FS_Subset DEF LiteralHeaders
<1>3. ASSUME NEW v \in V, NEW n \in 1..N
      PROVE  Next1(v, headers[n]) \in V
  <2>1. IsFiniteSet(Range(v))
    <3>1. Len(v) \in Nat /\ DOMAIN v = 1..Len(v)
      OBVIOUS
    <3>2. IsFiniteSet(1..Len(v))
      BY <3>1, FinitePositions
    <3>3. \A t \in Range(v) : \E p \in 1..Len(v) : t = v[p]
      BY <3>1 DEF Range
    <3> QED
      BY <3>2, <3>3, FiniteImage
  <2>2. headers[n] \in literal \union {None} /\ (headers[n] # None => IsString(headers[n]))
    BY <1>0 DEF LiteralHeaders, Range
  <2> DEFINE k == NextKey(literal, v, headers[n])
  <2>3. k \in Keys(headers)
    BY <1>2, <2>1, <2>2, NextKeyIsKey
  <2> HIDE DEF k
  <2>4. Append(v, k) \in V
    BY <2>3
  <2> QED
    BY <2>4 DEF k
<1>4. step \in [(1..N) \X V -> V] /\ <<>> \in V
  <2> HIDE DEF Next1
  <2>1. \A q \in (1..N) \X V : Next1(q[2], headers[q[1]]) \in V
    BY <1>3
  <2>2. <<>> \in V
    OBVIOUS
  <2> HIDE DEF V
  <2> QED
    BY <2>1, <2>2
<1>5. \E g : Eq(g)
  <2>1. PICK g \in [SUBSET (1..N) -> V] : FoldedLeft(g, N, <<>>, step)
    <3> DEFINE empty == <<>>
    <3> HIDE DEF step, V, empty, N
    <3>1. empty \in V /\ step \in [(1..N) \X V -> V] /\ N \in Nat
      BY <1>0, <1>4 DEF empty, N
    <3>2. \E g \in [SUBSET (1..N) -> V] : FoldedLeft(g, N, empty, step)
      BY <3>1, PrefixesExist
    <3> QED
      BY <3>2 DEF empty
  <2>2. \A s \in SUBSET (1..N) : s # {} => Max(s) \in 1..N
    BY <1>0, MaxIsThere
  <2> HIDE DEF V, Next1
  <2>3. \A s \in SUBSET (1..N) : s # {} =>
           step[<<Max(s), g[s \ {Max(s)}]>>] = Next1(g[s \ {Max(s)}], headers[Max(s)])
    BY <2>2
  <2>4. \A s \in SUBSET (1..N) :
           g[s] = IF s = {} THEN <<>> ELSE Next1(g[s \ {Max(s)}], headers[Max(s)])
    <3> HIDE DEF step
    <3> QED
      BY <2>1, <2>3 DEF FoldedLeft
  <2>5. g = [s \in SUBSET (1..N) |-> g[s]]
    OBVIOUS
  <2> QED
    BY <1>0, <2>4, <2>5
<1> DEFINE g == CHOOSE f : Eq(f)
<1>6. Eq(g)
  <2> HIDE DEF Eq
  <2> QED
    BY <1>5
<1> HIDE DEF g
<1>7. g[1..0] = <<>>
  BY <1>0, <1>6
<1>8. \A n \in 1..N : g[1..n] = Next1(g[1..(n - 1)], headers[n])
  <2> SUFFICES ASSUME NEW n \in 1..N
               PROVE  g[1..n] = Next1(g[1..(n - 1)], headers[n])
    OBVIOUS
  <2>1. 1..n # {} /\ Max(1..n) = n /\ (1..n) \ {n} = 1..(n - 1)
    BY <1>0, PrefixStep
  <2>2. 1..n \in SUBSET (DOMAIN headers)
    BY <1>0
  <2> HIDE DEF Next1
  <2> QED
    BY <1>6, <2>1, <2>2
<1> DEFINE Good(n) == GoodKeys(headers, n, g[1..n])
           T == {n \in Nat : n <= N /\ ~Good(n)}
<1>9. T = {}
  <2> SUFFICES ASSUME T # {} PROVE FALSE
    OBVIOUS
  <2>1. PICK n \in T : \A m \in T : n <= m
    BY LeastMember
  <2>2. n \in Nat /\ n <= N /\ ~Good(n)
    OBVIOUS
  <2>3. n # 0
    <3>1. GoodKeys(headers, 0, <<>>)
      BY DEF GoodKeys
    <3> QED
      BY <1>7, <2>2, <3>1
  <2>4. n \in 1..N /\ n - 1 \in Nat /\ n - 1 <= N /\ n - 1 \notin T
    BY <1>0, <2>1, <2>2, <2>3
  <2>5. Good(n - 1)
    BY <2>4
  <2>6. Good(n)
    <3> DEFINE before == g[1..(n - 1)]
    <3>1. headers[n] # None => IsString(headers[n])
      BY <1>0, <2>4
    <3>2. g[1..n] = Append(before, NextKey(literal, before, headers[n]))
      BY <1>8, <2>4
    <3>3. IsFiniteSet(LiteralHeaders(headers)) /\ n \in 1..Len(headers)
      BY <1>2, <2>4
    <3>4. GoodKeys(headers, n - 1, before)
      BY <2>5
    <3> HIDE DEF before
    <3>5. GoodKeys(headers, n, Append(before, NextKey(LiteralHeaders(headers), before, headers[n])))
      BY <3>1, <3>3, <3>4, GoodKeysStep
    <3> QED
      BY <3>2, <3>5
  <2> QED
    BY <2>2, <2>6
<1>10. Good(N)
  <2> HIDE DEF Good
  <2> QED
    BY <1>0, <1>9
<1>11. g[1..N] = _unique_value_keys(headers)
  <2> HIDE DEF Eq
  <2> QED
    BY <1>0, <1>1 DEF g
<1> QED
  BY <1>10, <1>11

-----------------------------------------------------------------------------
(* Mapping.                                                                   *)

\* None stands for what is missing and is no function.
NoneIsNoFunction == \A S, T : None \notin [S -> T]

\* A record of the domain: a value for each of its fields.
IsRecord(v, d) == v \in [Fields(d) -> {v[f] : f \in Fields(d)}]

\* So a record is not missing.
LEMMA RecordIsThere ==
    ASSUME NoneIsNoFunction, NEW v, NEW d, IsRecord(v, d)
    PROVE  v # None
BY ZenonT(60) DEF NoneIsNoFunction, IsRecord

\* A row without errors has a record; one with errors has none.
LEMMA MapRow ==
    ASSUME NEW d, NEW x
    PROVE  LET r == _map_row(d, x)
           IN  /\ r.row = x.row
               /\ Errors(r.issues) = {} => IsRecord(r.record, d)
               /\ Errors(r.issues) # {} => r.record = None
<1> DEFINE columns == profile[d]
           Cell(c) == IF <<c.field>> \in DOMAIN x.values THEN x.values[<<c.field>>] ELSE Blank
           scalars == [i \in DOMAIN columns |-> _normalize_scalar(Cell(columns[i]), columns[i])]
           values == [f \in Fields(d) |->
                         scalars[CHOOSE i \in DOMAIN columns : columns[i].field = f].value]
           read == UNION {scalars[i].issues : i \in DOMAIN columns}
           issues == read \union ContradictoryDates(d, values, read)
                          \union InvalidIdentity(d, values, read)
<1>1. _map_row(d, x) = [row |-> x.row,
                        record |-> IF Errors(issues) = {} THEN values ELSE None,
                        issues |-> issues]
  BY DEF _map_row
<1>2. IsRecord(values, d)
  BY ZenonT(60) DEF IsRecord
<1> HIDE DEF values, issues
<1> QED
  BY <1>1, <1>2

\* A rejected row has no record, an error and its place in the sheet.
LEMMA Rejected ==
    ASSUME NEW r, NEW code, NEW field, DOMAIN r = {"row", "record", "issues"},
           r = [k \in DOMAIN r |-> r[k]]
    PROVE  LET q == Reject(r, Error(code, field))
           IN  q.row = r.row /\ q.record = None /\ Errors(q.issues) # {}
<1> DEFINE x == Error(code, field)
           q == Reject(r, x)
<1>1. x.severity = "error"
  BY DEF Error
<1> HIDE DEF x
<1>2. q.row = r.row /\ q.record = None /\ q.issues = r.issues \union {x}
  BY DEF Reject
<1> HIDE DEF q
<1>3. x \in Errors(q.issues)
  BY <1>1, <1>2 DEF Errors
<1> QED
  BY <1>2, <1>3 DEF q, x

\* Mapping keeps the rows in their places; a row that ends without errors is
\* as it was mapped, and one that does not has no record.
LEMMA MappedRow ==
    ASSUME NEW e, NEW d
    PROVE  /\ DOMAIN MappedRows(e, d) = DOMAIN e.rows_by_domain[d]
           /\ \A i \in DOMAIN e.rows_by_domain[d] :
                LET r == MappedRows(e, d)[i]
                IN  /\ r.row = e.rows_by_domain[d][i].row
                    /\ Errors(r.issues) = {} => IsRecord(r.record, d)
                    /\ Errors(r.issues) # {} => r.record = None
<1> DEFINE all == [i \in DOMAIN e.rows_by_domain[d] |-> _map_row(d, e.rows_by_domain[d][i])]
           Fine(r, x) == /\ r.row = x.row
                         /\ Errors(r.issues) = {} => IsRecord(r.record, d)
                         /\ Errors(r.issues) # {} => r.record = None
                         /\ DOMAIN r = {"row", "record", "issues"}
                         /\ r = [k \in DOMAIN r |-> r[k]]
<1>1. \A i \in DOMAIN e.rows_by_domain[d] : Fine(all[i], e.rows_by_domain[d][i])
  <2> SUFFICES ASSUME NEW i \in DOMAIN e.rows_by_domain[d]
               PROVE  Fine(_map_row(d, e.rows_by_domain[d][i]), e.rows_by_domain[d][i])
    BY SMTT(40)
  <2> DEFINE x == e.rows_by_domain[d][i]
  <2>1. DOMAIN _map_row(d, x) = {"row", "record", "issues"}
    BY ZenonT(60) DEF _map_row
  <2>2. _map_row(d, x) = [k \in DOMAIN _map_row(d, x) |-> _map_row(d, x)[k]]
    BY ZenonT(60) DEF _map_row
  <2> QED
    BY <2>1, <2>2, MapRow
<1>2. \A r, x, code, field : Fine(r, x) => Fine(Reject(r, Error(code, field)), x)
  <2> SUFFICES ASSUME NEW r, NEW x, NEW code, NEW field, Fine(r, x)
               PROVE  Fine(Reject(r, Error(code, field)), x)
    OBVIOUS
  <2>1. LET q == Reject(r, Error(code, field))
        IN  q.row = r.row /\ q.record = None /\ Errors(q.issues) # {}
    BY Rejected
  <2>2. LET q == Reject(r, Error(code, field))
        IN  DOMAIN q = {"row", "record", "issues"} /\ q = [k \in DOMAIN q |-> q[k]]
    BY DEF Reject
  <2> QED
    BY <2>1, <2>2
<1>3. CASE d # "wbs"
  BY <1>1, <1>3 DEF MappedRows
<1>4. CASE d = "wbs"
  <2> DEFINE once == FirstOfEachCode(all)
  <2>1. DOMAIN once = DOMAIN all
    BY DEF FirstOfEachCode
  <2>2. \A i \in DOMAIN all : Fine(once[i], e.rows_by_domain[d][i])
    <3> HIDE DEF Fine
    <3> QED
      BY <1>1, <1>2 DEF FirstOfEachCode
  <2>3. MappedRows(e, d) = _validate_wbs_rows(all)
    BY <1>4 DEF MappedRows
  <2> HIDE DEF all
  <2>4. DOMAIN _validate_wbs_rows(all) = DOMAIN once
    BY DEF _validate_wbs_rows
  <2>5. \A i \in DOMAIN once : \/ _validate_wbs_rows(all)[i] = once[i]
                               \/ \E code : _validate_wbs_rows(all)[i]
                                      = Reject(once[i], Error(code, "parent_wbs"))
    BY DEF _validate_wbs_rows
  <2>6. DOMAIN all = DOMAIN e.rows_by_domain[d]
    BY DEF all
  <2> HIDE DEF once, Fine
  <2>7. \A i \in DOMAIN all : Fine(_validate_wbs_rows(all)[i], e.rows_by_domain[d][i])
    BY <1>2, <2>1, <2>2, <2>5
  <2> QED
    BY <2>1, <2>3, <2>4, <2>6, <2>7 DEF Fine
<1> QED
  BY <1>3, <1>4

\* A domain that is not blocked has its sheet and its columns, and all of its
\* rows were mapped.
LEMMA UnblockedIsClean ==
    ASSUME NEW e, NEW d \in Domains,
           map_extracted_workbook(e).domain_statuses[d] # "blocked"
    PROVE  /\ TemplateErrors(e, d) = {}
           /\ \A i \in DOMAIN MappedRows(e, d) : Errors(MappedRows(e, d)[i].issues) = {}
<1> DEFINE rows == [c \in Domains |-> MappedRows(e, c)]
           issues == [c \in Domains |-> DomainIssues(e, c)]
<1>1. OwnStatus(e, rows, issues, d) # "blocked"
  BY DEF map_extracted_workbook
<1> HIDE DEF issues
<1> QED
  BY <1>1 DEF OwnStatus

-----------------------------------------------------------------------------
(* The snapshot and what is loaded of it.                                     *)

\* Adopting a workbook of another project changes no row and no status.
LEMMA AdoptedRows ==
    ASSUME NEW e, NEW values, NEW code
    PROVE  LET m == Adopted(map_extracted_workbook(e), values, code)
           IN  /\ m.rows_by_domain = [d \in Domains |-> MappedRows(e, d)]
               /\ m.domain_statuses = map_extracted_workbook(e).domain_statuses
<1> DEFINE mapped_e == map_extracted_workbook(e)
<1>1. mapped_e.rows_by_domain = [d \in Domains |-> MappedRows(e, d)]
  BY DEF map_extracted_workbook
<1>2. {"rows_by_domain", "domain_statuses", "warning_count", "project_issues"}
          \subseteq DOMAIN mapped_e
  BY DEF map_extracted_workbook
<1> HIDE DEF mapped_e
<1>3. LET m == Adopted(mapped_e, values, code)
      IN  /\ m.rows_by_domain = mapped_e.rows_by_domain
          /\ m.domain_statuses = mapped_e.domain_statuses
  BY <1>2 DEF Adopted
<1> QED
  BY <1>1, <1>3 DEF mapped_e

\* The mapped snapshot of an extraction, adopted or not.
Maps(e, m) ==
    /\ m.rows_by_domain = [d \in Domains |-> MappedRows(e, d)]
    /\ m.domain_statuses = map_extracted_workbook(e).domain_statuses

\* The places of the rows that were mapped to a record.
Kept(e, d) == {i \in DOMAIN MappedRows(e, d) : MappedRows(e, d)[i].record # None}

\* The canonical rows of a domain are those of its places.
LEMMA CanonicalRows ==
    ASSUME NEW e, NEW m, Maps(e, m), NEW d \in Domains
    PROVE  Canonical(m, d) = {MappedRows(e, d)[i] : i \in Kept(e, d)}
BY DEF Maps, Canonical, Kept

\* Each fact that was stored has its raw row, so nothing is lost by the join
\* that reads it back.
LEMMA LoadedRows ==
    ASSUME NEW e, NEW m, Maps(e, m), NEW d \in Domains
    PROVE  LET s == _complete_mapped(e, m)
           IN  /\ load(s).domain_statuses[d] = m.domain_statuses[d]
               /\ load(s).rows[d] =
                    {Reloaded(d, [row |-> MappedRows(e, d)[i].row,
                                  v |-> MappedRows(e, d)[i].record]) : i \in Kept(e, d)}
<1> DEFINE s == _complete_mapped(e, m)
           R(i) == MappedRows(e, d)[i]
           Fact(i) == [row |-> R(i).row, v |-> R(i).record,
                       node |-> NodeRow(m, IF d = "wbs" THEN R(i).record.parent_wbs
                                           ELSE R(i).record.wbs_code)]
<1>1. s.facts[d] = {Fact(i) : i \in Kept(e, d)}
  <2>1. s.facts[d] = {[row |-> r.row, v |-> r.record,
                       node |-> NodeRow(m, IF d = "wbs" THEN r.record.parent_wbs
                                           ELSE r.record.wbs_code)] : r \in Canonical(m, d)}
    BY DEF _complete_mapped, persist_canonical_rows
  <2> QED
    BY <2>1, CanonicalRows
<1>2. s.raw = persist_raw_rows(e, m)
  BY DEF _complete_mapped
<1>3. ASSUME NEW i \in Kept(e, d)
      PROVE  \E raw \in s.raw : raw.domain = d /\ raw.row = Fact(i).row
  <2>1. i \in DOMAIN e.rows_by_domain[d] /\ R(i).row = e.rows_by_domain[d][i].row
    BY MappedRow DEF Kept
  <2> DEFINE raw == [domain |-> d,
                     row |-> e.rows_by_domain[d][i].row,
                     values |-> e.rows_by_domain[d][i].values,
                     validation_status |-> ValidationStatus(m.rows_by_domain[d][i])]
  <2>2. raw \in s.raw
    BY <1>2, <2>1 DEF persist_raw_rows
  <2>3. raw.domain = d /\ raw.row = Fact(i).row
    BY <2>1
  <2> QED
    BY <2>2, <2>3
<1>4. _canonical_rows(s, d) = {[row |-> R(i).row, v |-> R(i).record] : i \in Kept(e, d)}
  <2>1. \A f \in s.facts[d] : \E raw \in s.raw : raw.domain = d /\ raw.row = f.row
    BY <1>1, <1>3
  <2>2. _canonical_rows(s, d) = {[row |-> f.row, v |-> f.v] : f \in s.facts[d]}
    BY <2>1 DEF _canonical_rows
  <2>3. \A i \in Kept(e, d) : Fact(i).row = R(i).row /\ Fact(i).v = R(i).record
    OBVIOUS
  <2> HIDE DEF Fact, R, s
  <2> QED
    BY <1>1, <2>2, <2>3
<1>5. load(s).rows[d] = {Reloaded(d, r) : r \in _canonical_rows(s, d)}
  BY DEF load
<1>6. load(s).domain_statuses[d] = m.domain_statuses[d]
  <2>1. DOMAIN s.domain_statuses = Domains /\ s.domain_statuses[d].status = m.domain_statuses[d]
    BY DEF _complete_mapped, StatusOfDomain
  <2> HIDE DEF s
  <2> QED
    BY <2>1 DEF load
<1> QED
  BY <1>4, <1>5, <1>6, ZenonT(60)

\* The row number is kept when the dataset is read.
LEMMA ReloadedRow ==
    ASSUME NEW d, NEW row, NEW v
    PROVE  Reloaded(d, [row |-> row, v |-> v]).row = row
BY DEF Reloaded

-----------------------------------------------------------------------------
(* Extraction.                                                                *)

\* A sheet whose rows are numbered from one on.
IsNumbered(sheet) == \E N \in Nat : DOMAIN sheet.rows = 1..N

\* The rows that are extracted are those that are not empty.
LEMMA ExtractedPlaces ==
    ASSUME NEW sheet, IsNumbered(sheet)
    PROVE  LET rows == ExtractedRows(sheet)
           IN  {rows[n].row : n \in DOMAIN rows} = FilledRows(sheet)
<1> DEFINE filled == FilledRows(sheet)
           rows == ExtractedRows(sheet)
<1>1. PICK N \in Nat : filled \in SUBSET (1..N)
  BY DEF IsNumbered, FilledRows
<1>2. /\ DOMAIN rows = DOMAIN Ascending(filled)
      /\ \A n \in DOMAIN rows : rows[n].row = Ascending(filled)[n]
  BY DEF ExtractedRows
<1> HIDE DEF rows, filled
<1>3. /\ DOMAIN Ascending(filled) = 1..Cardinality(filled)
      /\ \A n \in 1..Cardinality(filled) : Ascending(filled)[n] \in filled
      /\ \A i \in filled : \E n \in 1..Cardinality(filled) : Ascending(filled)[n] = i
  BY <1>1, AscendingLists
<1>4. {rows[n].row : n \in DOMAIN rows} = filled
  BY <1>2, <1>3
<1> QED
  BY <1>4 DEF rows, filled

\* Every sheet of the workbook is missing or numbered.
IsRead(b) == \A d \in Domains : b.sheets[d] # None => IsNumbered(b.sheets[d])

\* Of a domain that is not blocked, every row of its sheet is in the dataset.
LEMMA WholeSheet ==
    ASSUME NoneIsNoFunction, NEW b, IsRead(b), NEW m, Maps(extract_workbook(b), m),
           NEW d \in Domains, m.domain_statuses[d] # "blocked"
    PROVE  LET s == _complete_mapped(extract_workbook(b), m)
           IN  /\ b.sheets[d] # None
               /\ Kept(extract_workbook(b), d) = DOMAIN ExtractedRows(b.sheets[d])
               /\ {r.row : r \in load(s).rows[d]} = FilledRows(b.sheets[d])
<1> DEFINE e == extract_workbook(b)
           s == _complete_mapped(e, m)
           x == ExtractedRows(b.sheets[d])
<1>1. /\ TemplateErrors(e, d) = {}
      /\ \A i \in DOMAIN MappedRows(e, d) : Errors(MappedRows(e, d)[i].issues) = {}
  BY UnblockedIsClean DEF Maps
<1>2. b.sheets[d] # None
  <2> SUFFICES ASSUME b.sheets[d] = None PROVE FALSE
    OBVIOUS
  <2>1. [domain |-> d, code |-> "missing_sheet"] \in e.template_errors
    BY DEF extract_workbook
  <2> QED
    BY <1>1, <2>1 DEF TemplateErrors
<1>3. e.rows_by_domain[d] = x
  BY <1>2 DEF extract_workbook
<1>4. {x[n].row : n \in DOMAIN x} = FilledRows(b.sheets[d])
  BY <1>2, ExtractedPlaces DEF IsRead
<1> HIDE DEF e, x
<1>5. /\ DOMAIN MappedRows(e, d) = DOMAIN x
      /\ \A i \in DOMAIN x : /\ MappedRows(e, d)[i].row = x[i].row
                            /\ IsRecord(MappedRows(e, d)[i].record, d)
  BY <1>1, <1>3, MappedRow, ZenonT(60)
<1>6. Kept(e, d) = DOMAIN x
  BY <1>5, RecordIsThere DEF Kept
<1>7. load(s).rows[d] = {Reloaded(d, [row |-> MappedRows(e, d)[i].row,
                                      v |-> MappedRows(e, d)[i].record]) : i \in DOMAIN x}
  BY <1>6, LoadedRows DEF e
<1>8. {r.row : r \in load(s).rows[d]} = {MappedRows(e, d)[i].row : i \in DOMAIN x}
  <2> DEFINE F(i) == Reloaded(d, [row |-> MappedRows(e, d)[i].row,
                                  v |-> MappedRows(e, d)[i].record])
  <2>1. \A i : F(i).row = MappedRows(e, d)[i].row
    BY ReloadedRow
  <2>2. load(s).rows[d] = {F(i) : i \in DOMAIN x}
    BY <1>7
  <2> HIDE DEF F
  <2> QED
    BY <2>1, <2>2
<1>9. {r.row : r \in load(s).rows[d]} = {x[i].row : i \in DOMAIN x}
  BY <1>5, <1>8
<1> QED
  BY <1>2, <1>4, <1>6, <1>9 DEF e, x

\* A governed workbook that is uploaded can be read.
LEMMA UploadIsRead ==
    ASSUME NEW b \in Workbooks
    PROVE  IsRead(b)
<1> SUFFICES ASSUME NEW d \in Domains, b.sheets[d] # None
             PROVE  IsNumbered(b.sheets[d])
  BY DEF IsRead
<1>1. b.sheets[d].rows \in Seq([1..Len(b.sheets[d].headers) -> Cells])
  BY WorkbooksAssumption DEF IsSheet
<1>2. Len(b.sheets[d].rows) \in Nat /\ DOMAIN b.sheets[d].rows = 1..Len(b.sheets[d].rows)
  BY <1>1
<1> QED
  BY <1>2 DEF IsNumbered

-----------------------------------------------------------------------------
(* The validated import.                                                      *)

\* An export has a header row: of finitely many rows one has the most cells,
\* and of those one comes first.
LEMMA HeaderExists ==
    ASSUME NEW sheet, sheet.rows \in Seq(Seq(Cells)), sheet.rows # <<>>
    PROVE  HeaderRow(sheet) \in DOMAIN sheet.rows
<1> DEFINE rows == sheet.rows
           top == {r \in DOMAIN rows : r <= 10}
           Of(r) == {i \in DOMAIN rows[r] : Filled(rows[r][i])}
           Width(r) == Cardinality(Of(r))
           First(r) == \A s \in top : Width(s) < Width(r) \/ (Width(s) = Width(r) /\ r <= s)
<1>0. rows \in Seq(Seq(Cells)) /\ rows # <<>>
  OBVIOUS
<1> HIDE DEF rows
<1>1. /\ Len(rows) \in Nat /\ DOMAIN rows = 1..Len(rows) /\ 1 \in DOMAIN rows
      /\ \A r \in DOMAIN rows : rows[r] \in Seq(Cells)
  BY <1>0
<1>2. top \subseteq Nat /\ top # {} /\ IsFiniteSet(top)
  <2>1. IsFiniteSet(1..Len(rows))
    BY <1>1, FinitePositions
  <2>2. top \subseteq 1..Len(rows) /\ 1 \in top
    BY <1>1
  <2> QED
    BY <2>1, <2>2, FS_Subset
<1>3. \A r \in top : IsFiniteSet(Of(r)) /\ Of(r) \subseteq 1..Len(rows[r])
  <2> SUFFICES ASSUME NEW r \in top
               PROVE  IsFiniteSet(Of(r)) /\ Of(r) \subseteq 1..Len(rows[r])
    OBVIOUS
  <2>1. Len(rows[r]) \in Nat /\ DOMAIN rows[r] = 1..Len(rows[r])
    BY <1>1
  <2>2. IsFiniteSet(1..Len(rows[r]))
    BY <2>1, FinitePositions
  <2>3. Of(r) \subseteq 1..Len(rows[r])
    BY <2>1
  <2> QED
    BY <2>2, <2>3, FS_Subset
<1> DEFINE cells == [r \in top |-> Of(r)]
           all == UNION Range(cells)
<1>4. IsFiniteSet(all) /\ \A r \in top : Of(r) \subseteq all
  <2>1. cells \in [top -> Range(cells)]
    BY Fun_RangeProperties DEF Range
  <2>2. cells \in Surjection(top, Range(cells))
    <3> HIDE DEF cells, top
    <3> QED
      BY <2>1, Fun_RangeProperties
  <2>3. IsFiniteSet(Range(cells))
    BY <1>2, <2>2, FS_Surjection
  <2>4. \A r \in top : Of(r) \in Range(cells)
    BY DEF Range
  <2>5. \A S \in Range(cells) : IsFiniteSet(S)
    BY <1>3 DEF Range
  <2> HIDE DEF cells, Of
  <2> QED
    BY <2>3, <2>4, <2>5, FS_UNION
<1> DEFINE B == Cardinality(all)
<1>5. B \in Nat /\ \A r \in top : Width(r) \in 0..B
  <2>1. B \in Nat
    BY <1>4, FS_CardinalityType
  <2>2. ASSUME NEW r \in top
        PROVE  Width(r) \in 0..B
    <3>1. Width(r) \in Nat
      BY <1>3, <2>2, FS_CardinalityType
    <3>2. Width(r) <= B
      BY <1>4, <2>2, FS_Subset
    <3> HIDE DEF Width, B
    <3> QED
      BY <2>1, <3>1, <3>2
  <2> QED
    BY <2>1, <2>2
<1> HIDE DEF Of, Width, all, cells, B, top
<1> DEFINE spare == {B - Width(r) : r \in top}
<1>6. PICK r \in top : \A s \in top : Width(s) <= Width(r)
  <2>1. spare \subseteq Nat /\ spare # {}
    BY <1>2, <1>5
  <2> HIDE DEF spare
  <2>2. PICK n \in spare : \A k \in spare : n <= k
    BY <2>1, LeastMember
  <2>3. PICK r \in top : n = B - Width(r)
    BY DEF spare
  <2>4. \A s \in top : B - Width(s) \in spare
    BY DEF spare
  <2> QED
    BY <1>5, <2>2, <2>3, <2>4
<1> DEFINE widest == {s \in top : Width(s) = Width(r)}
<1>7. PICK f \in widest : \A s \in widest : f <= s
  <2>1. widest \subseteq Nat /\ widest # {}
    BY <1>2
  <2> HIDE DEF widest
  <2> QED
    BY <2>1, LeastMember
<1>8. f \in top /\ First(f)
  BY <1>5, <1>6, <1>7
<1>9. HeaderRow(sheet) = IF sheet.csv THEN 1 ELSE CHOOSE q \in top : First(q)
  BY DEF HeaderRow, Width, Of, top, rows
<1> HIDE DEF First
<1>10. (CHOOSE q \in top : First(q)) \in top
  BY <1>8
<1> QED
  BY <1>1, <1>9, <1>10 DEF top, rows

\* The workbook that is built of an export has numbered rows.
LEMMA BuiltIsRead ==
    ASSUME NEW sheet \in Sheets, NEW preset, NEW code, NEW day
    PROVE  IsRead(build_schedule_workbook(sheet, preset, code, day))
<1> DEFINE rows == _read_rows(sheet)
           mapping == Mapping(sheet, preset)
           cell(i) == _cells(rows[i], mapping)
           Complete(i) == /\ Populated(rows[i])
                          /\ Filled(cell(i).activity_id) /\ Filled(cell(i).activity_name)
                          /\ _as_date(cell(i).baseline_start) # None
                          /\ _as_date(cell(i).baseline_finish) # None
           known == {i \in DOMAIN rows : Complete(i)}
           kept == Ascending(known)
           Above(i) == CodesUpTo(_text(cell(i).wbs))
           nodes == UNION {Above(i) : i \in Range(kept)}
           ordered == Ascending(nodes)
           b == build_schedule_workbook(sheet, preset, code, day)
<1>1. PICK N \in Nat : DOMAIN rows = 1..N
  <2>1. sheet.rows \in Seq(Seq(Cells)) /\ sheet.rows # <<>>
    BY SheetsAssumption
  <2>2. HeaderRow(sheet) \in DOMAIN sheet.rows
    BY <2>1, HeaderExists
  <2> DEFINE all == sheet.rows
             h == HeaderRow(sheet)
             N == Len(all)
  <2>3. rows = SubSeq(all, h + 1, N)
    BY DEF _read_rows
  <2> HIDE DEF all, h, rows
  <2>4. h \in 1..N /\ N \in Nat
    BY <2>1, <2>2 DEF all, h
  <2>5. DOMAIN rows = 1..(N - h)
    BY <2>1, <2>3, <2>4 DEF all
  <2> QED
    BY <2>4, <2>5 DEF rows
<1>2. known \in SUBSET (1..N)
  BY <1>1
<1> HIDE DEF known
<1>3. /\ Cardinality(known) \in Nat
      /\ DOMAIN kept = 1..Cardinality(known)
      /\ \A n \in DOMAIN kept : kept[n] \in known
  BY <1>2, AscendingLists
<1>4. IsFiniteSet(Range(kept))
  <2>1. IsFiniteSet(1..N)
    BY FiniteIntervals
  <2>2. Range(kept) \subseteq 1..N
    BY <1>2, <1>3 DEF Range
  <2> QED
    BY <2>1, <2>2, FS_Subset
<1> HIDE DEF kept
<1>5. \A i : IsFiniteSet(Above(i))
  <2> SUFFICES ASSUME NEW c PROVE IsFiniteSet(CodesUpTo(c))
    OBVIOUS
  <2>1. IsFiniteSet({c.n, c.n \div 10, c.n \div 100})
    <3>1. IsFiniteSet({c.n}) /\ IsFiniteSet({c.n \div 10}) /\ IsFiniteSet({c.n \div 100})
      BY FS_Singleton
    <3>2. IsFiniteSet({c.n} \union {c.n \div 10})
      BY <3>1, FS_Union
    <3>3. IsFiniteSet(({c.n} \union {c.n \div 10}) \union {c.n \div 100})
      BY <3>1, <3>2, FS_Union
    <3>4. {c.n, c.n \div 10, c.n \div 100}
              = ({c.n} \union {c.n \div 10}) \union {c.n \div 100}
      OBVIOUS
    <3> QED
      BY <3>3, <3>4
  <2>2. CodesUpTo(c) \subseteq {c.n, c.n \div 10, c.n \div 100}
    BY DEF CodesUpTo
  <2> QED
    BY <2>1, <2>2, FS_Subset
<1> HIDE DEF Above
<1>6. IsFiniteSet(nodes)
  <2> DEFINE above == [i \in Range(kept) |-> Above(i)]
  <2>1. above \in [Range(kept) -> Range(above)]
    BY Fun_RangeProperties DEF Range
  <2>2. above \in Surjection(Range(kept), Range(above))
    BY <2>1, Fun_RangeProperties
  <2>3. IsFiniteSet(Range(above))
    BY <1>4, <2>2, FS_Surjection
  <2>4. Range(above) = {Above(i) : i \in Range(kept)}
    BY DEF Range
  <2> HIDE DEF above
  <2> QED
    BY <1>5, <2>3, <2>4, FS_UNION
<1>7. Cardinality(nodes) \in Nat /\ DOMAIN ordered = 1..Cardinality(nodes)
  BY <1>6, FS_CardinalityType DEF Ascending
<1>8. /\ DOMAIN b.sheets["wbs"].rows = DOMAIN ordered
      /\ DOMAIN b.sheets["schedule"].rows = DOMAIN kept
      /\ \A d \in Domains \ {"wbs", "schedule"} : b.sheets[d] = None
  BY DEF build_schedule_workbook, known, kept, Above, Domains
<1> HIDE DEF b, nodes, ordered
<1>9. ASSUME NEW d \in Domains, b.sheets[d] # None
      PROVE  IsNumbered(b.sheets[d])
  <2>1. CASE d = "wbs"
    BY <1>7, <1>8, <2>1 DEF IsNumbered
  <2>2. CASE d = "schedule"
    BY <1>3, <1>8, <2>2 DEF IsNumbered
  <2> QED
    BY <1>8, <1>9, <2>1, <2>2
<1>10. IsRead(b)
  BY <1>9 DEF IsRead
<1> QED
  BY <1>10 DEF b

-----------------------------------------------------------------------------
(* The states of the pipeline.                                                *)

Stored ==
    /\ IsRead(book)
    /\ extracted = extract_workbook(book)
    /\ Maps(extracted, mapped)
    /\ snapshot = _complete_mapped(extracted, mapped)

Analysed == Stored /\ run.execution = Audit!run_gated(load(snapshot), run.runtime)

\* What each stage of an upload has left agrees with the one before it.
PipelineInv ==
    /\ snapshot # None => Stored
    /\ run # None => Analysed
    /\ health # None => Analysed /\ health = Audit!HealthSnapshot(run.execution)

\* An upload stores what it extracted and mapped of the workbook.
LEMMA IngestStep ==
    ASSUME NEW b, IsRead(b), Nothing, ingest(b)
    PROVE  PipelineInv'
<1>1. run' = None /\ health' = None
  BY DEF Nothing, ingest
<1>2. /\ book' = b /\ extracted' = extract_workbook(b)
      /\ mapped' = Adopted(map_extracted_workbook(extracted'), extracted'.project_values,
                           Text(ProjectCode))
      /\ snapshot' = None \/ snapshot' = _complete_mapped(extracted', mapped')
  BY DEF ingest
<1>3. Maps(extracted', mapped')
  BY <1>2, AdoptedRows DEF Maps
<1>4. snapshot' # None => Stored'
  BY <1>2, <1>3 DEF Stored
<1> QED
  BY <1>1, <1>4 DEF PipelineInv

\* An analysis judges what was stored.
LEMMA RunStep ==
    ASSUME PipelineInv, NEW runtime, run_snapshot(runtime)
    PROVE  PipelineInv'
<1>1. UNCHANGED <<book, extracted, mapped, snapshot>> /\ Stored
  BY DEF run_snapshot, PipelineInv
<1>2. Stored'
  BY <1>1 DEF Stored
<1>3. PICK status, execution :
        /\ execution = Audit!run_gated(load(snapshot), runtime)
        /\ run' = [status |-> status, runtime |-> runtime, execution |-> execution]
        /\ health' = None \/ health' = Audit!HealthSnapshot(execution)
  BY DEF run_snapshot
<1>4. run'.execution = execution /\ run'.runtime = runtime
  BY <1>3
<1>5. Analysed'
  BY <1>1, <1>2, <1>3, <1>4 DEF Analysed
<1>6. health' # None => health' = Audit!HealthSnapshot(run'.execution)
  BY <1>3, <1>4
<1> QED
  BY <1>2, <1>5, <1>6 DEF PipelineInv

\* It stays so.
LEMMA PipelineInvStays == PipelineInv /\ [Next]_vars => PipelineInv'
<1> SUFFICES ASSUME PipelineInv, [Next]_vars
             PROVE  PipelineInv'
  OBVIOUS
<1>1. ASSUME NEW b \in Workbooks, Nothing, UploadWorkbook(b)
      PROVE  PipelineInv'
  BY <1>1, UploadIsRead, IngestStep DEF UploadWorkbook
<1>2. ASSUME NEW s \in Sheets, NEW preset, Nothing, ImportSchedule(s, preset)
      PROVE  PipelineInv'
  <2>1. CASE UNCHANGED <<book, extracted, mapped, snapshot, run, health>>
    BY <1>2, <2>1 DEF PipelineInv, Nothing
  <2>2. CASE ingest(build_schedule_workbook(s, preset, ProjectCode, Today))
    BY <1>2, <2>2, BuiltIsRead, IngestStep
  <2> QED
    BY <1>2, <2>1, <2>2 DEF ImportSchedule
<1>3. ASSUME NEW runtime \in BOOLEAN, run_snapshot(runtime)
      PROVE  PipelineInv'
  BY <1>3, RunStep
<1>4. CASE UNCHANGED vars
  BY <1>4 DEF vars, PipelineInv, Analysed, Stored
<1> QED
  BY <1>1, <1>2, <1>3, <1>4 DEF Next

\* It holds of every state.
LEMMA PipelineInvHolds == Spec => []PipelineInv
<1>1. Init => PipelineInv
  BY DEF Init, Nothing, PipelineInv
<1>2. PipelineInv /\ [Next]_vars => PipelineInv'
  BY PipelineInvStays
<1> QED
  BY <1>1, <1>2, PTL DEF Spec

-----------------------------------------------------------------------------
(* What the analysis judges.                                                  *)

\* What was analysed was seen whole.
LEMMA AnalysedSeeWholeSheets ==
    ASSUME NoneIsNoFunction
    PROVE  PipelineInv => ExecutedRulesSeeWholeSheets
<1> SUFFICES ASSUME PipelineInv, run # None,
                    NEW rule \in run.execution.executed,
                    NEW d \in Audit!_REQUIRED_DOMAINS_BY_RULE(rule)
             PROVE  /\ book.sheets[d] # None
                    /\ {r.row : r \in load(snapshot).rows[d]} = SheetRows(d)
  BY DEF ExecutedRulesSeeWholeSheets
<1>1. Analysed
  BY DEF PipelineInv
<1>2. rule \in Audit!Rules /\ Audit!Blocked(rule, load(snapshot).domain_statuses) = {}
  BY <1>1, ExecutedExactly DEF Analysed
<1>3. d \in Domains
  BY <1>2, RequiredAreDomains
<1>4. load(snapshot).domain_statuses[d] \in {"valid", "warning"}
  BY <1>2 DEF Audit!Blocked
<1>5. mapped.domain_statuses[d] # "blocked"
  BY <1>1, <1>3, <1>4, LoadedRows DEF Analysed, Stored
<1>6. /\ book.sheets[d] # None
      /\ {r.row : r \in load(snapshot).rows[d]} = FilledRows(book.sheets[d])
  BY <1>1, <1>3, <1>5, WholeSheet DEF Analysed, Stored
<1>7. SheetRows(d) = FilledRows(book.sheets[d])
  BY <1>6 DEF SheetRows, FilledRows, Range
<1> QED
  BY <1>6, <1>7

\* No rule judges half a sheet: of each domain an executed rule requires, all
\* rows that are in the workbook are in the dataset, whatever is in the cells
\* (map_extracted_workbook's statuses, run_gated, DatabaseDatasetLoader).
THEOREM RulesSeeWholeSheets ==
    ASSUME NoneIsNoFunction
    PROVE  Spec => []ExecutedRulesSeeWholeSheets
<1>1. PipelineInv => ExecutedRulesSeeWholeSheets
  BY AnalysedSeeWholeSheets
<1> QED
  BY <1>1, PipelineInvHolds, PTL

-----------------------------------------------------------------------------
(* The findings of a rule.                                                    *)

\* A finding carries the rule that made it.
LEMMA FindingNamesItsRule ==
    ASSUME NEW data, NEW runtime, NEW rule \in Audit!Rules
    PROVE  \A f \in Audit!evaluate(rule, data, runtime) : f.rule = rule
<1> DEFINE Made(f, r) == \E entity, severity, evidence :
                            f = Audit!Finding(r, entity, severity, evidence)
<1>0. \A f, r : Made(f, r) => f.rule = r
  BY DEF Audit!Finding
<1>1. CASE rule = "DQ-001"
  <2>1. Audit!evaluate(rule, data, runtime) = Audit!MissingWBS(data)
    BY <1>1 DEF Audit!evaluate
  <2>2. \A f \in Audit!MissingWBS(data) : Made(f, "DQ-001")
    BY DEF Audit!MissingWBS, Audit!Records
  <2> HIDE DEF Made
  <2> QED
    BY <1>0, <1>1, <2>1, <2>2
<1>2. CASE rule = "DQ-002"
  <2>1. Audit!evaluate(rule, data, runtime) = Audit!DuplicateCost(data)
    BY <1>2 DEF Audit!evaluate
  <2>2. \A f \in Audit!DuplicateCost(data) : Made(f, "DQ-002")
    BY DEF Audit!DuplicateCost
  <2> HIDE DEF Made
  <2> QED
    BY <1>0, <1>2, <2>1, <2>2
<1>3. CASE rule = "DQ-003"
  <2>1. Audit!evaluate(rule, data, runtime) = Audit!ContradictoryDateProgress(data)
    BY <1>3 DEF Audit!evaluate
  <2>2. \A f \in Audit!ContradictoryDateProgress(data) : Made(f, "DQ-003")
    BY DEF Audit!ContradictoryDateProgress, Audit!Activities
  <2> HIDE DEF Made
  <2> QED
    BY <1>0, <1>3, <2>1, <2>2
<1>4. CASE rule = "DQ-004"
  <2>1. Audit!evaluate(rule, data, runtime) = Audit!OrphanWBS(data)
    BY <1>4 DEF Audit!evaluate
  <2>2. \A f \in Audit!OrphanWBS(data) : Made(f, "DQ-004")
    BY DEF Audit!OrphanWBS, Audit!Records
  <2> HIDE DEF Made
  <2> QED
    BY <1>0, <1>4, <2>1, <2>2
<1>5. CASE rule = "DQ-005"
  <2>1. Audit!evaluate(rule, data, runtime) = Audit!VendorIdentity(data)
    BY <1>5 DEF Audit!evaluate
  <2>2. \A f \in Audit!VendorIdentity(data) : Made(f, "DQ-005")
    BY DEF Audit!VendorIdentity
  <2> HIDE DEF Made
  <2> QED
    BY <1>0, <1>5, <2>1, <2>2
<1>6. CASE rule = "CST-001"
  <2>1. Audit!evaluate(rule, data, runtime) = Audit!ActualExceedsBudget(data)
    BY <1>6 DEF Audit!evaluate
  <2>2. \A f \in Audit!ActualExceedsBudget(data) : Made(f, "CST-001")
    BY DEF Audit!ActualExceedsBudget
  <2> HIDE DEF Made
  <2> QED
    BY <1>0, <1>6, <2>1, <2>2
<1>7. CASE rule = "CST-002"
  <2>1. Audit!evaluate(rule, data, runtime) = Audit!ExposureExceedsBudget(data)
    BY <1>7 DEF Audit!evaluate
  <2>2. \A f \in Audit!ExposureExceedsBudget(data) : Made(f, "CST-002")
    BY DEF Audit!ExposureExceedsBudget
  <2> HIDE DEF Made
  <2> QED
    BY <1>0, <1>7, <2>1, <2>2
<1>8. CASE rule = "CST-003"
  <2>1. Audit!evaluate(rule, data, runtime) = Audit!CostSpike(data)
    BY <1>8 DEF Audit!evaluate
  <2>2. \A f \in Audit!CostSpike(data) : Made(f, "CST-003")
    BY DEF Audit!CostSpike
  <2> HIDE DEF Made
  <2> QED
    BY <1>0, <1>8, <2>1, <2>2
<1>9. CASE rule = "CST-004"
  <2>1. Audit!evaluate(rule, data, runtime) = Audit!VendorConcentration(data, runtime)
    BY <1>9 DEF Audit!evaluate
  <2>2. \A f \in Audit!VendorConcentration(data, runtime) : Made(f, "CST-004")
    BY DEF Audit!VendorConcentration
  <2> HIDE DEF Made
  <2> QED
    BY <1>0, <1>9, <2>1, <2>2
<1>10. CASE rule = "CST-005"
  <2>1. Audit!evaluate(rule, data, runtime) = Audit!HighValueTransaction(data, runtime)
    BY <1>10 DEF Audit!evaluate
  <2>2. \A f \in Audit!HighValueTransaction(data, runtime) : Made(f, "CST-005")
    BY DEF Audit!HighValueTransaction
  <2> HIDE DEF Made
  <2> QED
    BY <1>0, <1>10, <2>1, <2>2
<1>11. CASE rule = "CST-006"
  <2>1. Audit!evaluate(rule, data, runtime) = Audit!HighCostLowProgress(data)
    BY <1>11 DEF Audit!evaluate
  <2>2. \A f \in Audit!HighCostLowProgress(data) : Made(f, "CST-006")
    BY DEF Audit!HighCostLowProgress
  <2> HIDE DEF Made
  <2> QED
    BY <1>0, <1>11, <2>1, <2>2
<1>12. CASE rule = "SCH-001"
  <2>1. Audit!evaluate(rule, data, runtime) = Audit!OverdueActivity(data)
    BY <1>12 DEF Audit!evaluate
  <2>2. \A f \in Audit!OverdueActivity(data) : Made(f, "SCH-001")
    BY DEF Audit!OverdueActivity, Audit!Activities
  <2> HIDE DEF Made
  <2> QED
    BY <1>0, <1>12, <2>1, <2>2
<1>13. CASE rule = "SCH-002"
  <2>1. Audit!evaluate(rule, data, runtime) = Audit!BaselineFinishSlippage(data)
    BY <1>13 DEF Audit!evaluate
  <2>2. \A f \in Audit!BaselineFinishSlippage(data) : Made(f, "SCH-002")
    BY DEF Audit!BaselineFinishSlippage, Audit!Activities
  <2> HIDE DEF Made
  <2> QED
    BY <1>0, <1>13, <2>1, <2>2
<1>14. CASE rule = "SCH-003"
  <2>1. Audit!evaluate(rule, data, runtime) = Audit!CriticalActivityDelay(data)
    BY <1>14 DEF Audit!evaluate
  <2>2. \A f \in Audit!CriticalActivityDelay(data) : Made(f, "SCH-003")
    BY DEF Audit!CriticalActivityDelay, Audit!Activities
  <2> HIDE DEF Made
  <2> QED
    BY <1>0, <1>14, <2>1, <2>2
<1>15. CASE rule = "SCH-004"
  <2>1. Audit!evaluate(rule, data, runtime) = Audit!ActivityProgressLag(data)
    BY <1>15 DEF Audit!evaluate
  <2>2. \A f \in Audit!ActivityProgressLag(data) : Made(f, "SCH-004")
    BY DEF Audit!ActivityProgressLag, Audit!Activities
  <2> HIDE DEF Made
  <2> QED
    BY <1>0, <1>15, <2>1, <2>2
<1>16. CASE rule = "SCH-005"
  <2>1. Audit!evaluate(rule, data, runtime) = Audit!NegativeFloat(data)
    BY <1>16 DEF Audit!evaluate
  <2>2. \A f \in Audit!NegativeFloat(data) : Made(f, "SCH-005")
    BY DEF Audit!NegativeFloat, Audit!Activities
  <2> HIDE DEF Made
  <2> QED
    BY <1>0, <1>16, <2>1, <2>2
<1>17. CASE rule = "PRG-001"
  <2>1. Audit!evaluate(rule, data, runtime) = Audit!WBSProgressLag(data)
    BY <1>17 DEF Audit!evaluate
  <2>2. \A f \in Audit!WBSProgressLag(data) : Made(f, "PRG-001")
    BY DEF Audit!WBSProgressLag
  <2> HIDE DEF Made
  <2> QED
    BY <1>0, <1>17, <2>1, <2>2
<1>18. CASE rule = "PRG-002"
  <2>1. Audit!evaluate(rule, data, runtime) = Audit!ProgressAbove100(data)
    BY <1>18 DEF Audit!evaluate
  <2>2. \A f \in Audit!ProgressAbove100(data) : Made(f, "PRG-002")
    BY DEF Audit!ProgressAbove100
  <2> HIDE DEF Made
  <2> QED
    BY <1>0, <1>18, <2>1, <2>2
<1>19. CASE rule = "PRG-003"
  <2>1. Audit!evaluate(rule, data, runtime) = Audit!CostRisingProgressFlat(data, runtime)
    BY <1>19 DEF Audit!evaluate
  <2>2. \A f \in Audit!CostRisingProgressFlat(data, runtime) : Made(f, "PRG-003")
    BY DEF Audit!CostRisingProgressFlat
  <2> HIDE DEF Made
  <2> QED
    BY <1>0, <1>19, <2>1, <2>2
<1>20. CASE rule = "XDOM-001"
  <2>1. Audit!evaluate(rule, data, runtime) = Audit!ScheduleDelayHighCostExposure(data)
    BY <1>20 DEF Audit!evaluate
  <2>2. \A f \in Audit!ScheduleDelayHighCostExposure(data) : Made(f, "XDOM-001")
    BY DEF Audit!ScheduleDelayHighCostExposure
  <2> HIDE DEF Made
  <2> QED
    BY <1>0, <1>20, <2>1, <2>2
<1> QED
  BY <1>1, <1>2, <1>3, <1>4, <1>5, <1>6, <1>7, <1>8, <1>9, <1>10,
     <1>11, <1>12, <1>13, <1>14, <1>15, <1>16, <1>17, <1>18, <1>19, <1>20 DEF Audit!Rules

-----------------------------------------------------------------------------
(* Codes that are known.                                                      *)

\* The mapped row of a kept place has a record.
LEMMA KeptRecord ==
    ASSUME NEW e, NEW d, NEW i \in Kept(e, d)
    PROVE  IsRecord(MappedRows(e, d)[i].record, d)
BY MappedRow DEF Kept

\* The row number of a kept place is a number.
LEMMA KeptNumber ==
    ASSUME NEW b, IsRead(b), NEW d \in Domains, NEW i \in Kept(extract_workbook(b), d)
    PROVE  MappedRows(extract_workbook(b), d)[i].row \in Nat
<1> DEFINE e == extract_workbook(b)
           x == ExtractedRows(b.sheets[d])
<1>1. i \in DOMAIN e.rows_by_domain[d]
  BY MappedRow DEF Kept
<1>2. e.rows_by_domain[d] = IF b.sheets[d] = None THEN <<>> ELSE x
  BY DEF extract_workbook
<1> HIDE DEF e
<1>3. b.sheets[d] # None /\ i \in DOMAIN x
  BY <1>1, <1>2
<1>4. x[i].row \in FilledRows(b.sheets[d])
  BY <1>3, ExtractedPlaces DEF IsRead
<1>5. FilledRows(b.sheets[d]) \subseteq Nat
  BY <1>3 DEF FilledRows, IsRead, IsNumbered
<1>6. MappedRows(e, d)[i].row = x[i].row
  BY <1>1, <1>2, <1>3, MappedRow
<1> QED
  BY <1>4, <1>5, <1>6 DEF e

\* A fact gets no node exactly if its code was not kept.
LEMMA NodeOfCode ==
    ASSUME NEW b, IsRead(b), NEW m, Maps(extract_workbook(b), m), NEW code
    PROVE  NodeRow(m, code) = None <=> code \notin KeptCodes(m)
<1> DEFINE e == extract_workbook(b)
           Named(r) == r.record.wbs_code = code
<1>1. "wbs" \in Domains
  BY DEF Domains
<1>2. Canonical(m, "wbs") = {MappedRows(e, "wbs")[i] : i \in Kept(e, "wbs")}
  BY <1>1, CanonicalRows
<1>3. \A r \in Canonical(m, "wbs") : r.row \in Nat
  <2>1. \A i \in Kept(e, "wbs") : MappedRows(e, "wbs")[i].row \in Nat
    BY <1>1, KeptNumber
  <2> HIDE DEF e
  <2> QED
    BY <1>2, <2>1
<1>4. CASE code \in KeptCodes(m)
  <2>1. \E r \in Canonical(m, "wbs") : Named(r)
    BY <1>4 DEF KeptCodes
  <2>2. NodeRow(m, code) = (CHOOSE r \in Canonical(m, "wbs") : Named(r)).row
    BY <1>4 DEF NodeRow
  <2>3. (CHOOSE r \in Canonical(m, "wbs") : Named(r)) \in Canonical(m, "wbs")
    BY <2>1
  <2>4. NodeRow(m, code) \in Nat
    BY <1>3, <2>2, <2>3
  <2> QED
    BY <1>4, <2>4, NoneAssumption
<1>5. CASE code \notin KeptCodes(m)
  BY <1>5 DEF NodeRow
<1> QED
  BY <1>4, <1>5

\* Reading a fact back keeps its code; only variances are computed anew.
LEMMA ReloadedCode ==
    ASSUME NEW d \in FactDomains, NEW row, NEW v, IsRecord(v, d)
    PROVE  Reloaded(d, [row |-> row, v |-> v]).v.wbs_code = v.wbs_code
<1> DEFINE r == [row |-> row, v |-> v]
<1>1. CASE d = "progress"
  <2>1. "wbs_code" \in Fields("progress")
    <3>1. 3 \in DOMAIN profile["progress"] /\ profile["progress"][3].field = "wbs_code"
      BY DEF profile, Column
    <3> QED
      BY <3>1 DEF Fields
  <2>2. DOMAIN v = Fields(d)
    BY DEF IsRecord
  <2>3. "wbs_code" \in DOMAIN v
    BY <1>1, <2>1, <2>2
  <2>4. Reloaded(d, r).v = [v EXCEPT !["variance"] = v.actual_progress - v.planned_progress]
    BY <1>1 DEF Reloaded
  <2> QED
    BY <2>3, <2>4
<1>2. CASE d # "progress"
  BY <1>2 DEF Reloaded
<1> QED
  BY <1>1, <1>2

\* The codes that DQ-004 knows are those of the nodes that were kept.
LEMMA KnownCodes ==
    ASSUME NEW e, NEW m, Maps(e, m)
    PROVE  {r.v.wbs_code : r \in load(_complete_mapped(e, m)).rows["wbs"]} = KeptCodes(m)
<1> DEFINE R(i) == MappedRows(e, "wbs")[i]
           F(i) == Reloaded("wbs", [row |-> R(i).row, v |-> R(i).record])
<1>1. "wbs" \in Domains
  BY DEF Domains
<1>2. load(_complete_mapped(e, m)).rows["wbs"] = {F(i) : i \in Kept(e, "wbs")}
  BY <1>1, LoadedRows
<1>3. \A i : F(i).v.wbs_code = R(i).record.wbs_code
  BY DEF Reloaded
<1>4. KeptCodes(m) = {R(i).record.wbs_code : i \in Kept(e, "wbs")}
  BY <1>1, CanonicalRows DEF KeptCodes
<1> HIDE DEF F, R
<1> QED
  BY <1>2, <1>3, <1>4

\* The facts of a domain, each with the node of its code.
LEMMA StoredFacts ==
    ASSUME NEW e, NEW m, Maps(e, m), NEW d \in FactDomains
    PROVE  _complete_mapped(e, m).facts[d] =
             {[row |-> MappedRows(e, d)[i].row,
               v |-> MappedRows(e, d)[i].record,
               node |-> NodeRow(m, MappedRows(e, d)[i].record.wbs_code)] : i \in Kept(e, d)}
<1>1. d \in Domains /\ d # "wbs"
  BY DEF FactDomains, Domains
<1>2. _complete_mapped(e, m).facts[d] =
        {[row |-> r.row, v |-> r.record, node |-> NodeRow(m, r.record.wbs_code)] :
            r \in Canonical(m, d)}
  BY <1>1 DEF _complete_mapped, persist_canonical_rows
<1>3. Canonical(m, d) = {MappedRows(e, d)[i] : i \in Kept(e, d)}
  BY <1>1, CanonicalRows
<1> QED
  BY <1>2, <1>3

\* Of a domain, the rows whose code the dataset does not know are those whose
\* fact was stored without a node although it names a code.
OrphansAgree(s, d) ==
    LET known == {r.v.wbs_code : r \in load(s).rows["wbs"]}
    IN  {{<<d, r.row>>} : r \in {q \in load(s).rows[d] :
                                   q.v.wbs_code # None /\ q.v.wbs_code \notin known}}
          = {{<<d, f.row>>} : f \in {g \in s.facts[d] : g.v.wbs_code # None /\ g.node = None}}

\* They are, of any workbook that was read.
LEMMA OrphanRows ==
    ASSUME NEW b, IsRead(b), NEW m, Maps(extract_workbook(b), m), NEW d \in FactDomains
    PROVE  OrphansAgree(_complete_mapped(extract_workbook(b), m), d)
<1> DEFINE e == extract_workbook(b)
           s == _complete_mapped(e, m)
           R(i) == MappedRows(e, d)[i]
           F(i) == Reloaded(d, [row |-> R(i).row, v |-> R(i).record])
           G(i) == [row |-> R(i).row, v |-> R(i).record,
                    node |-> NodeRow(m, R(i).record.wbs_code)]
           known == KeptCodes(m)
<1>1. d \in Domains
  BY DEF FactDomains
<1>2. load(s).rows[d] = {F(i) : i \in Kept(e, d)}
  BY <1>1, LoadedRows
<1>3. s.facts[d] = {G(i) : i \in Kept(e, d)}
  BY StoredFacts
<1>4. {r.v.wbs_code : r \in load(s).rows["wbs"]} = known
  BY KnownCodes
<1>5. \A i \in Kept(e, d) : F(i).row = G(i).row /\ F(i).v.wbs_code = G(i).v.wbs_code
  <2> SUFFICES ASSUME NEW i \in Kept(e, d)
               PROVE  F(i).row = G(i).row /\ F(i).v.wbs_code = G(i).v.wbs_code
    OBVIOUS
  <2>1. F(i).row = R(i).row
    BY ReloadedRow
  <2>2. F(i).v.wbs_code = R(i).record.wbs_code
    BY KeptRecord, ReloadedCode
  <2> QED
    BY <2>1, <2>2
<1>6. \A i : G(i).node = None <=> G(i).v.wbs_code \notin known
  <2> TAKE i
  <2>1. NodeRow(m, R(i).record.wbs_code) = None <=> R(i).record.wbs_code \notin KeptCodes(m)
    BY NodeOfCode
  <2> QED
    BY <2>1
<1> HIDE DEF F, G, s, e, known
<1>7. {{<<d, r.row>>} : r \in {q \in load(s).rows[d] :
                                  q.v.wbs_code # None /\ q.v.wbs_code \notin known}}
        = {{<<d, f.row>>} : f \in {g \in s.facts[d] : g.v.wbs_code # None /\ g.node = None}}
  BY <1>2, <1>3, <1>5, <1>6
<1> QED
  BY <1>4, <1>7 DEF s, e, OrphansAgree

\* What DQ-004 cites: one row for each finding.
LEMMA OrphanEvidence ==
    ASSUME NEW data
    PROVE  LET known == {r.v.wbs_code : r \in data.rows["wbs"]}
           IN  {f.evidence : f \in Audit!OrphanWBS(data)}
                 = UNION {{{<<d, r.row>>} : r \in {q \in data.rows[d] :
                              q.v.wbs_code # None /\ q.v.wbs_code \notin known}} :
                          d \in Audit!RecordDomains}
<1> DEFINE known == {r.v.wbs_code : r \in data.rows["wbs"]}
           Bad(d) == {q \in data.rows[d] : q.v.wbs_code # None /\ q.v.wbs_code \notin known}
           F(d, r) == Audit!Finding("DQ-004", <<r.v.record_id>>, "critical", Audit!Cited(d, {r}))
<1>1. Audit!OrphanWBS(data) = UNION {{F(d, r) : r \in Bad(d)} : d \in Audit!RecordDomains}
  BY DEF Audit!OrphanWBS, Audit!Records
<1>2. \A d, r : F(d, r).evidence = {<<d, r.row>>}
  BY DEF Audit!Finding, Audit!Cited
<1> HIDE DEF F, Bad
<1>3. {f.evidence : f \in Audit!OrphanWBS(data)}
        = UNION {{{<<d, r.row>>} : r \in Bad(d)} : d \in Audit!RecordDomains}
  <2>1. \A t : t \in {f.evidence : f \in Audit!OrphanWBS(data)}
               <=> \E d \in Audit!RecordDomains : \E r \in Bad(d) : t = {<<d, r.row>>}
    <3>1. \A f : f \in Audit!OrphanWBS(data)
                 <=> \E d \in Audit!RecordDomains : \E r \in Bad(d) : f = F(d, r)
      BY <1>1
    <3> TAKE t
    <3>2. ASSUME NEW f \in Audit!OrphanWBS(data), t = f.evidence
          PROVE  \E d \in Audit!RecordDomains : \E r \in Bad(d) : t = {<<d, r.row>>}
      BY <3>1, <3>2, <1>2
    <3>3. ASSUME NEW d \in Audit!RecordDomains, NEW r \in Bad(d), t = {<<d, r.row>>}
          PROVE  t \in {f.evidence : f \in Audit!OrphanWBS(data)}
      <4>1. F(d, r) \in Audit!OrphanWBS(data) /\ t = F(d, r).evidence
        BY <3>1, <3>3, <1>2
      <4> QED
        BY <4>1
    <3> QED
      BY <3>2, <3>3
  <2>2. \A t : t \in UNION {{{<<d, r.row>>} : r \in Bad(d)} : d \in Audit!RecordDomains}
               <=> \E d \in Audit!RecordDomains : \E r \in Bad(d) : t = {<<d, r.row>>}
    OBVIOUS
  <2> QED
    BY <2>1, <2>2
<1> QED
  BY <1>3 DEF Bad

\* The orphans of what was analysed are reported.
LEMMA AnalysedReportOrphans == PipelineInv => OrphansHaveNoNode
<1> SUFFICES ASSUME PipelineInv, run # None, "DQ-004" \in run.execution.executed
             PROVE  {f.evidence : f \in {g \in run.execution.findings : g.rule = "DQ-004"}}
                      = UNION {{{<<d, f.row>>} : f \in {g \in snapshot.facts[d] :
                          g.v.wbs_code # None /\ g.node = None}} : d \in FactDomains}
  BY DEF OrphansHaveNoNode
<1> DEFINE data == load(snapshot)
           Unknown(d) == {{<<d, r.row>>} : r \in {q \in data.rows[d] : q.v.wbs_code # None
                              /\ q.v.wbs_code \notin {x.v.wbs_code : x \in data.rows["wbs"]}}}
           NoNode(d) == {{<<d, f.row>>} : f \in {g \in snapshot.facts[d] :
                            g.v.wbs_code # None /\ g.node = None}}
<1>1. /\ IsRead(book) /\ Maps(extract_workbook(book), mapped)
      /\ snapshot = _complete_mapped(extract_workbook(book), mapped)
      /\ run.execution = Audit!run_gated(data, run.runtime)
  BY DEF PipelineInv, Analysed, Stored
<1>2. run.execution.executed \subseteq Audit!Rules
  BY <1>1, ExecutedExactly
<1>3. \A f : f \in {g \in run.execution.findings : g.rule = "DQ-004"}
               <=> f \in Audit!OrphanWBS(data)
  <2>1. run.execution.findings
          = UNION {Audit!evaluate(r, data, run.runtime) : r \in run.execution.executed}
    BY <1>1, ExecutedExactly
  <2>2. \A r \in run.execution.executed :
           \A f \in Audit!evaluate(r, data, run.runtime) : f.rule = r
    BY <1>2, FindingNamesItsRule
  <2>3. Audit!evaluate("DQ-004", data, run.runtime) = Audit!OrphanWBS(data)
    BY DEF Audit!evaluate
  <2> HIDE DEF data
  <2> QED
    BY <2>1, <2>2, <2>3
<1>4. {f.evidence : f \in {g \in run.execution.findings : g.rule = "DQ-004"}}
        = {f.evidence : f \in Audit!OrphanWBS(data)}
  BY <1>3
<1>5. {f.evidence : f \in Audit!OrphanWBS(data)} = UNION {Unknown(d) : d \in Audit!RecordDomains}
  BY OrphanEvidence
<1>6. Audit!RecordDomains = FactDomains
  BY DEF Audit!RecordDomains, FactDomains, Domains
<1>7. ASSUME NEW d \in FactDomains
      PROVE  Unknown(d) = NoNode(d)
  <2>1. OrphansAgree(snapshot, d)
    BY <1>1, OrphanRows
  <2> QED
    BY <2>1 DEF OrphansAgree
<1> HIDE DEF Unknown, NoNode, data
<1>8. UNION {Unknown(d) : d \in FactDomains} = UNION {NoNode(d) : d \in FactDomains}
  BY <1>7
<1> QED
  BY <1>4, <1>5, <1>6, <1>8 DEF NoNode

\* DQ-004 reports exactly the facts that the import stored without a node
\* although they name a code: what the mapping found and what the rule finds
\* in the dataset that is read back are the same rows (canonical_rows and
\* node_ids of persist_canonical_rows, OrphanWBSRule).
THEOREM OrphansAreReported == Spec => []OrphansHaveNoNode
<1>1. PipelineInv => OrphansHaveNoNode
  BY AnalysedReportOrphans
<1> QED
  BY <1>1, PipelineInvHolds, PTL

-----------------------------------------------------------------------------
(* The columns of the extracted rows.                                         *)

\* A row has a value for every column, and that of the first column of a
\* header is under the header itself.
LosesNothing(sheet, r) ==
    LET headers == sheet.headers
        Firsts == {p \in DOMAIN headers : headers[p] # None /\
                      \A q \in 1..(p - 1) : headers[q] # headers[p]}
    IN  /\ Cardinality(DOMAIN r.values) = Len(headers)
        /\ \A p \in Firsts : /\ headers[p] \in DOMAIN r.values
                             /\ r.values[headers[p]] = _json_safe(sheet.rows[r.row][p])

\* No row that is extracted loses a column.
LEMMA ExtractedColumns ==
    ASSUME NEW sheet, HasHeaders(sheet), NEW r \in Range(ExtractedRows(sheet))
    PROVE  LosesNothing(sheet, r)
<1> DEFINE headers == sheet.headers
           N == Len(headers)
           keys == _unique_value_keys(headers)
           Cell(i, k) == _json_safe(sheet.rows[i][CHOOSE p \in DOMAIN keys : keys[p] = k])
<1>1. N \in Nat /\ DOMAIN headers = 1..N
  BY DEF HasHeaders, IsString
<1>2. GoodKeys(headers, N, keys)
  BY KeysAreUnique DEF HasHeaders
<1>3. /\ DOMAIN keys = 1..N
      /\ \A p, q \in 1..N : keys[p] = keys[q] => p = q
      /\ \A p \in 1..N : headers[p] # None /\ (\A q \in 1..(p - 1) : headers[q] # headers[p])
                            => keys[p] = headers[p]
  <2> HIDE DEF keys, headers
  <2> QED
    BY <1>1, <1>2 DEF GoodKeys
<1>4. PICK i : r.row = i /\ r.values = [k \in Range(keys) |-> Cell(i, k)]
  <2> DEFINE kept == Ascending(FilledRows(sheet))
             Row(i) == [row |-> i, values |-> [k \in Range(keys) |-> Cell(i, k)]]
  <2>1. ExtractedRows(sheet) = [n \in DOMAIN kept |-> Row(kept[n])]
    BY DEF ExtractedRows
  <2>2. \A i : Row(i).row = i /\ Row(i).values = [k \in Range(keys) |-> Cell(i, k)]
    OBVIOUS
  <2> HIDE DEF Row, kept, Cell, keys
  <2>3. \E n \in DOMAIN kept : r = Row(kept[n])
    BY <2>1 DEF Range
  <2> QED
    BY <2>2, <2>3
<1>5. Cardinality(DOMAIN r.values) = N
  <2> HIDE DEF keys, Cell, N
  <2>1. DOMAIN r.values = Range(keys)
    BY <1>4
  <2> DEFINE f == [p \in 1..N |-> keys[p]]
  <2>2. f \in Bijection(1..N, Range(keys))
    <3>1. Range(keys) = {keys[p] : p \in 1..N}
      BY <1>3 DEF Range
    <3>2. f \in Injection(1..N, Range(keys))
      BY <1>3, <3>1 DEF Injection, IsInjective
    <3>3. f \in Surjection(1..N, Range(keys))
      BY <3>1 DEF Surjection
    <3> QED
      BY <3>2, <3>3 DEF Bijection
  <2>3. IsFiniteSet(1..N) /\ Cardinality(1..N) = N
    <3>1. \A a, b \in Int : IsFiniteSet(a..b) /\ Cardinality(a..b) = IF a > b THEN 0 ELSE b - a + 1
      BY FiniteIntervals
    <3>2. Cardinality(1..N) = IF 1 > N THEN 0 ELSE N - 1 + 1
      BY <1>1, <3>1, SMTT(40) DEF N
    <3> QED
      BY <1>1, <3>1, <3>2 DEF N
  <2> HIDE DEF f
  <2> QED
    BY <2>1, <2>2, <2>3, FS_Bijection DEF ExistsBijection
<1>6. ASSUME NEW p \in DOMAIN headers, headers[p] # None,
             \A q \in 1..(p - 1) : headers[q] # headers[p]
      PROVE  /\ headers[p] \in DOMAIN r.values
             /\ r.values[headers[p]] = _json_safe(sheet.rows[r.row][p])
  <2>1. p \in DOMAIN keys /\ keys[p] = headers[p]
    BY <1>1, <1>3, <1>6
  <2>2. \A q \in DOMAIN keys : keys[q] = headers[p] => q = p
    BY <1>1, <1>3, <2>1
  <2>3. (CHOOSE q \in DOMAIN keys : keys[q] = headers[p]) = p
    <3> HIDE DEF keys, headers
    <3> QED
      BY <2>1, <2>2
  <2>4. headers[p] \in Range(keys)
    BY <2>1 DEF Range
  <2>5. headers[p] \in DOMAIN r.values /\ r.values[headers[p]] = Cell(r.row, headers[p])
    <3> HIDE DEF keys, headers, Cell
    <3> QED
      BY <1>4, <2>4
  <2> QED
    BY <2>3, <2>5
<1> HIDE DEF keys, Cell
<1> QED
  BY <1>5, <1>6 DEF LosesNothing

\* The workbook that is read has headers in its sheets.
HeadersInv ==
    book # None => /\ extracted = extract_workbook(book)
                   /\ \A d \in Domains : book.sheets[d] # None => HasHeaders(book.sheets[d])

\* So has one that is built of a schedule.
LEMMA BuiltHasHeaders ==
    ASSUME NEW sheet, NEW preset, NEW code, NEW day, NEW d \in Domains,
           build_schedule_workbook(sheet, preset, code, day).sheets[d] # None
    PROVE  HasHeaders(build_schedule_workbook(sheet, preset, code, day).sheets[d])
<1> DEFINE s == build_schedule_workbook(sheet, preset, code, day).sheets[d]
<1>1. \A x : IsString(<<x>>)
  BY DEF IsString
<1>2. HasHeaders([headers |-> WBS_HEADERS, rows |-> <<>>])
  BY <1>1 DEF HasHeaders, WBS_HEADERS, IsString
<1>3. HasHeaders([headers |-> SCHEDULE_HEADERS, rows |-> <<>>])
  BY <1>1 DEF HasHeaders, SCHEDULE_HEADERS, IsString
<1>4. s.headers = WBS_HEADERS \/ s.headers = SCHEDULE_HEADERS
  <2>1. CASE d = "wbs"
    BY <2>1 DEF build_schedule_workbook
  <2>2. CASE d = "schedule"
    BY <2>2 DEF build_schedule_workbook
  <2>3. CASE d \notin {"wbs", "schedule"}
    BY <2>3 DEF build_schedule_workbook
  <2> QED
    BY <2>1, <2>2, <2>3
<1> HIDE DEF s
<1>5. HasHeaders(s)
  BY <1>2, <1>3, <1>4 DEF HasHeaders
<1> QED
  BY <1>5 DEF s

\* It stays so.
LEMMA HeadersInvStays == HeadersInv /\ [Next]_vars => HeadersInv'
<1> SUFFICES ASSUME HeadersInv, [Next]_vars
             PROVE  HeadersInv'
  OBVIOUS
<1>1. ASSUME NEW b, \A d \in Domains : b.sheets[d] # None => HasHeaders(b.sheets[d]), ingest(b)
      PROVE  HeadersInv'
  <2>1. book' = b /\ extracted' = extract_workbook(b)
    BY <1>1 DEF ingest
  <2> QED
    BY <1>1, <2>1 DEF HeadersInv
<1>2. ASSUME NEW b \in Workbooks, UploadWorkbook(b)
      PROVE  HeadersInv'
  <2>1. \A d \in Domains : b.sheets[d] # None => HasHeaders(b.sheets[d])
    BY WorkbooksAssumption DEF IsSheet
  <2> QED
    BY <1>1, <1>2, <2>1 DEF UploadWorkbook
<1>3. ASSUME NEW s \in Sheets, NEW preset, ImportSchedule(s, preset)
      PROVE  HeadersInv'
  <2>1. CASE UNCHANGED <<book, extracted>>
    BY <2>1 DEF HeadersInv
  <2>2. CASE ingest(build_schedule_workbook(s, preset, ProjectCode, Today))
    BY <1>1, <2>2, BuiltHasHeaders
  <2> QED
    BY <1>3, <2>1, <2>2 DEF ImportSchedule
<1>4. CASE UNCHANGED <<book, extracted>>
  BY <1>4 DEF HeadersInv
<1> QED
  BY <1>2, <1>3, <1>4 DEF Next, vars, run_snapshot

\* Columns that have headers are kept.
LEMMA HeadersKeepColumns == HeadersInv => ColumnsAreKept
<1> SUFFICES ASSUME HeadersInv, book # None, NEW d \in Domains, book.sheets[d] # None,
                    NEW r \in Range(extracted.rows_by_domain[d])
             PROVE  LosesNothing(book.sheets[d], r)
  BY DEF ColumnsAreKept, LosesNothing
<1>1. extracted.rows_by_domain[d] = ExtractedRows(book.sheets[d])
  BY DEF HeadersInv, extract_workbook
<1>2. HasHeaders(book.sheets[d])
  BY DEF HeadersInv
<1> QED
  BY <1>1, <1>2, ExtractedColumns

\* The extraction is not lossy: in the extracted rows every column of the
\* sheet has a key of its own, and the first of each header has the header,
\* also where the sheet itself uses a suffixed name (extract_workbook,
\* _unique_value_keys; README.md, Governed Ingestion).
THEOREM ExtractionKeepsColumns == Spec => []ColumnsAreKept
<1>1. Init => HeadersInv
  BY DEF Init, Nothing, HeadersInv
<1>2. HeadersInv /\ [Next]_vars => HeadersInv'
  BY HeadersInvStays
<1>3. HeadersInv => ColumnsAreKept
  BY HeadersKeepColumns
<1> QED
  BY <1>1, <1>2, <1>3, PTL DEF Spec


-----------------------------------------------------------------------------
(* Loops of parents.                                                          *)

\* The parents of a loop are the loop.
IsLoop(P, loop) == loop \in SUBSET DOMAIN P /\ {P[p] : p \in loop} = loop

OnLoop(P, c) == \E loop \in SUBSET DOMAIN P : c \in loop /\ {P[p] : p \in loop} = loop

\* Who follows the parents upwards from V stays in V as long as there are codes.
Upward(P, V) == \A v \in V : P[v] \in DOMAIN P => P[v] \in V

\* A loop cannot be entered: the member whose parent is in V is in V.
LEMMA LoopIsNotEntered ==
    ASSUME NEW P, IsFiniteSet(DOMAIN P), NEW loop, IsLoop(P, loop),
           NEW V, Upward(P, V), NEW c \in loop, P[c] \in V
    PROVE  c \in V
<1> DEFINE C == V \cap loop
           f == [p \in loop |-> P[p]]
           g == [p \in C |-> P[p]]
<1>1. IsFiniteSet(loop) /\ IsFiniteSet(C)
  BY FS_Subset DEF IsLoop
<1>2. f \in Surjection(loop, loop)
  BY DEF IsLoop, Surjection
<1>3. f \in Injection(loop, loop)
  BY <1>1, <1>2, FS_Surjection
<1>4. \A a, b \in loop : P[a] = P[b] => a = b
  BY <1>3 DEF Injection, IsInjective
<1>5. \A p \in C : P[p] \in C
  BY DEF IsLoop, Upward
<1>6. g \in Injection(C, C)
  BY <1>4, <1>5 DEF Injection, IsInjective
<1>7. g \in Surjection(C, C)
  BY <1>1, <1>6, FS_Injection
<1>8. P[c] \in C
  BY DEF IsLoop
<1>9. PICK p \in C : P[p] = P[c]
  BY <1>7, <1>8 DEF Surjection
<1> QED
  BY <1>4, <1>9

\* Codes that hold their parents hold a loop.
LEMMA LoopInside ==
    ASSUME NEW P, IsFiniteSet(DOMAIN P), NEW S \in SUBSET DOMAIN P, S # {},
           \A c \in S : P[c] \in S
    PROVE  \E loop \in SUBSET S : loop # {} /\ IsLoop(P, loop)
<1> DEFINE Holds == {s \in SUBSET S : s # {} /\ \A c \in s : P[c] \in s}
           Sizes == {Cardinality(s) : s \in Holds}
<1>1. \A s \in SUBSET S : IsFiniteSet(s) /\ Cardinality(s) \in Nat
  BY FS_Subset, FS_CardinalityType
<1>2. S \in Holds
  OBVIOUS
<1>3. Sizes \subseteq Nat /\ Sizes # {}
  BY <1>1, <1>2
<1> HIDE DEF Sizes
<1>4. PICK n \in Sizes : \A m \in Sizes : n <= m
  BY <1>3, LeastMember
<1>5. PICK s \in Holds : n = Cardinality(s)
  BY DEF Sizes
<1> DEFINE t == {P[p] : p \in s}
<1>6. t \in SUBSET s /\ t \in Holds
  BY <1>5
<1>7. Cardinality(s) <= Cardinality(t)
  <2>1. Cardinality(t) \in Sizes
    BY <1>6 DEF Sizes
  <2> QED
    BY <1>4, <1>5, <2>1
<1>8. t = s
  <2> HIDE DEF t
  <2>1. Cardinality(t) <= Cardinality(s) /\ (Cardinality(s) = Cardinality(t) => s = t)
    BY <1>1, <1>6, FS_Subset
  <2>2. Cardinality(t) \in Nat /\ Cardinality(s) \in Nat
    BY <1>1, <1>6
  <2> QED
    BY <1>7, <2>1, <2>2
<1> QED
  BY <1>8 DEF IsLoop

-----------------------------------------------------------------------------
(* Walks.                                                                     *)

\* One more code of a walk, if it has not ended.
Onward(P, V, w) ==
    IF w.at \notin DOMAIN P \/ w.at \in V \union Range(w.path) THEN w
    ELSE [path |-> Append(w.path, w.at), at |-> P[w.at]]

\* A path that starts at `start`, follows the parents and meets no code twice.
IsPath(P, V, start, path, at) ==
    /\ path \in Seq(DOMAIN P)
    /\ \A i \in 1..Len(path) : path[i] \notin V
    /\ \A i, j \in 1..Len(path) : path[i] = path[j] => i = j
    /\ \A i \in 1..(Len(path) - 1) : path[i + 1] = P[path[i]]
    /\ path = <<>> => at = start
    /\ path # <<>> => path[1] = start /\ at = P[path[Len(path)]]

Ended(P, V, w) == w.at \notin DOMAIN P \/ w.at \in V \union Range(w.path)

\* A walk of n steps has ended or is of that length.
IsWalk(P, V, start, n, w) ==
    /\ w = [path |-> w.path, at |-> w.at]
    /\ IsPath(P, V, start, w.path, w.at)
    /\ Len(w.path) <= n
    /\ Len(w.path) = n \/ Ended(P, V, w)

\* One more step makes a walk of one step more.
LEMMA WalkStep ==
    ASSUME NEW P, NEW V, NEW start, NEW n \in Nat, NEW w, IsWalk(P, V, start, n, w)
    PROVE  IsWalk(P, V, start, n + 1, Onward(P, V, w))
<1>1. CASE Ended(P, V, w)
  <2>1. Onward(P, V, w) = w
    BY <1>1 DEF Onward, Ended
  <2>2. Len(w.path) \in Nat
    BY DEF IsWalk, IsPath
  <2> QED
    BY <1>1, <2>1, <2>2 DEF IsWalk
<1>2. CASE ~Ended(P, V, w)
  <2> DEFINE path == w.path
             at == w.at
             more == Append(path, at)
             m == Len(path)
  <2>1. /\ path \in Seq(DOMAIN P) /\ m = n /\ at \in DOMAIN P
        /\ at \notin V /\ at \notin Range(path)
        /\ IsPath(P, V, start, path, at)
    <3>1. IsPath(P, V, start, path, at) /\ m = n
      BY <1>2 DEF IsWalk
    <3>2. at \in DOMAIN P /\ at \notin V /\ at \notin Range(path)
      BY <1>2 DEF Ended
    <3>3. path \in Seq(DOMAIN P)
      BY <3>1 DEF IsPath
    <3> QED
      BY <3>1, <3>2, <3>3
  <2>2. Onward(P, V, w) = [path |-> more, at |-> P[at]]
    BY <1>2 DEF Onward, Ended
  <2>3. /\ more \in Seq(DOMAIN P) /\ Len(more) = n + 1 /\ more[n + 1] = at
        /\ \A i \in 1..n : more[i] = path[i]
        /\ more # <<>>
    <3>1. path \in Seq(DOMAIN P) /\ at \in DOMAIN P /\ Len(path) = n
      BY <2>1
    <3> HIDE DEF path, at
    <3>2. more \in Seq(DOMAIN P) /\ Len(more) = n + 1 /\ more[n + 1] = at
      BY <3>1
    <3>3. \A i \in 1..n : more[i] = path[i]
      BY <3>1
    <3>4. Len(<<>>) = 0 /\ n + 1 # 0
      OBVIOUS
    <3> HIDE DEF more
    <3>5. more # <<>>
      BY <3>2, <3>4
    <3> QED
      BY <3>2, <3>3, <3>5
  <2>4. \A i \in 1..n : path[i] # at
    BY <2>1 DEF Range
  <2> HIDE DEF more, at, path, m
  <2>5. \A i \in 1..(n + 1) : i = n + 1 \/ i \in 1..n
    OBVIOUS
  <2>6. \A i \in 1..(n + 1) : more[i] \notin V
    BY <2>1, <2>3, <2>5 DEF IsPath, m
  <2>7. \A i, j \in 1..(n + 1) : more[i] = more[j] => i = j
    BY <2>1, <2>3, <2>4, <2>5 DEF IsPath, m
  <2>8. \A i \in 1..n : more[i + 1] = P[more[i]]
    <3> SUFFICES ASSUME NEW i \in 1..n
                 PROVE  more[i + 1] = P[more[i]]
      OBVIOUS
    <3>1. CASE i = n
      <4>1. path # <<>> /\ at = P[path[n]]
        BY <2>1, <3>1 DEF IsPath, m
      <4> QED
        BY <2>3, <3>1, <4>1
    <3>2. CASE i < n
      <4>1. i \in 1..(m - 1) /\ i + 1 \in 1..n
        BY <2>1, <3>2
      <4>2. path[i + 1] = P[path[i]]
        BY <2>1, <4>1 DEF IsPath, m
      <4> QED
        BY <2>3, <4>1, <4>2
    <3> QED
      BY <3>1, <3>2
  <2>9. more[1] = start
    <3>1. CASE n = 0
      <4>1. path = <<>>
        BY <2>1, <3>1 DEF m
      <4> QED
        BY <2>1, <2>3, <3>1, <4>1 DEF IsPath
    <3>2. CASE n # 0
      <4>1. path # <<>> /\ 1 \in 1..n
        BY <2>1, <3>2 DEF m
      <4> QED
        BY <2>1, <2>3, <4>1 DEF IsPath
    <3> QED
      BY <3>1, <3>2
  <2>10. IsPath(P, V, start, more, P[at])
    BY <2>3, <2>6, <2>7, <2>8, <2>9 DEF IsPath
  <2> QED
    BY <2>2, <2>3, <2>10 DEF IsWalk
<1> QED
  BY <1>1, <1>2

\* The walk of the code: as many steps as there are codes.
LEMMA WalkIsWalk ==
    ASSUME NEW P, IsFiniteSet(DOMAIN P), NEW V, NEW start \in DOMAIN P
    PROVE  IsWalk(P, V, start, Cardinality(DOMAIN P), Walk(P, V, start))
<1> DEFINE N == Cardinality(DOMAIN P)
           first == [path |-> <<>>, at |-> start]
           W == [path : Seq(DOMAIN P), at : DOMAIN P \union {P[p] : p \in DOMAIN P}]
           Eq(g) == g = [n \in 0..N |-> IF n = 0 THEN first ELSE Onward(P, V, g[n - 1])]
           step == [w \in W |-> Onward(P, V, w)]
<1>0. N \in Nat
  BY FS_CardinalityType
<1>1. Walk(P, V, start) = (CHOOSE g : Eq(g))[N]
  BY DEF Walk, Onward
<1> HIDE DEF N
<1>2. first \in W
  OBVIOUS
<1>3. \A w \in W : Onward(P, V, w) \in W
  <2> SUFFICES ASSUME NEW w \in W
               PROVE  Onward(P, V, w) \in W
    OBVIOUS
  <2>1. CASE w.at \notin DOMAIN P \/ w.at \in V \union Range(w.path)
    BY <2>1 DEF Onward
  <2>2. CASE ~(w.at \notin DOMAIN P \/ w.at \in V \union Range(w.path))
    <3>1. w.path \in Seq(DOMAIN P) /\ w.at \in DOMAIN P
      BY <2>2
    <3>2. Append(w.path, w.at) \in Seq(DOMAIN P)
      BY <3>1
    <3> QED
      BY <2>2, <3>1, <3>2 DEF Onward
  <2> QED
    BY <2>1, <2>2
<1>4. \E g : Eq(g)
  <2> HIDE DEF W, first
  <2>1. step \in [W -> W]
    BY <1>3
  <2> HIDE DEF step
  <2>2. PICK g \in [0..N -> W] : g[0] = first /\ \A n \in 1..N : g[n] = step[g[n - 1]]
    <3> HIDE DEF Eq
    <3>1. N \in Nat /\ first \in W /\ step \in [W -> W]
      BY <1>0, <1>2, <2>1
    <3>2. \E g \in [0..N -> W] : Repeated(g, N, first, step)
      BY <3>1, RoundsExist
    <3> QED
      BY <3>2 DEF Repeated
  <2>3. \A n \in 1..N : n \in 0..N /\ n - 1 \in 0..N /\ n # 0
    BY <1>0
  <2>4. \A n \in 1..N : g[n] = Onward(P, V, g[n - 1])
    <3> SUFFICES ASSUME NEW n \in 1..N
                 PROVE  g[n] = Onward(P, V, g[n - 1])
      OBVIOUS
    <3>1. g[n - 1] \in W
      BY <2>3
    <3> QED
      BY <2>2, <3>1 DEF step
  <2>5. \A n \in 0..N : n = 0 \/ n \in 1..N
    BY <1>0
  <2>6. g = [n \in 0..N |-> g[n]]
    OBVIOUS
  <2>7. \A n \in 0..N : g[n] = IF n = 0 THEN first ELSE Onward(P, V, g[n - 1])
    BY <2>2, <2>4, <2>5
  <2> QED
    BY <2>6, <2>7
<1> DEFINE g == CHOOSE h : Eq(h)
<1>5. Eq(g)
  <2> HIDE DEF Eq
  <2> QED
    BY <1>4
<1> HIDE DEF g
<1>6. g[0] = first /\ \A n \in 1..N : g[n] = Onward(P, V, g[n - 1])
  <2>1. 0 \in 0..N /\ \A n \in 1..N : n \in 0..N /\ n # 0
    BY <1>0
  <2> HIDE DEF first
  <2>2. \A n \in 0..N : g[n] = IF n = 0 THEN first ELSE Onward(P, V, g[n - 1])
    BY <1>5
  <2> QED
    BY <2>1, <2>2
<1> DEFINE T == {n \in Nat : n <= N /\ ~IsWalk(P, V, start, n, g[n])}
<1>7. T = {}
  <2> SUFFICES ASSUME T # {} PROVE FALSE
    OBVIOUS
  <2>1. PICK n \in T : \A m \in T : n <= m
    BY LeastMember
  <2>2. n \in Nat /\ n <= N /\ ~IsWalk(P, V, start, n, g[n])
    OBVIOUS
  <2>3. n # 0
    <3>1. IsWalk(P, V, start, 0, first)
      BY DEF IsWalk, IsPath
    <3> QED
      BY <1>6, <2>2, <3>1
  <2>4. n \in 1..N /\ n - 1 \in Nat /\ n - 1 <= N /\ n - 1 \notin T /\ (n - 1) + 1 = n
    BY <1>0, <2>1, <2>2, <2>3
  <2>5. IsWalk(P, V, start, n - 1, g[n - 1])
    BY <2>4
  <2>6. IsWalk(P, V, start, n, Onward(P, V, g[n - 1]))
    BY <2>4, <2>5, WalkStep
  <2> QED
    BY <1>6, <2>2, <2>4, <2>6
<1>8. IsWalk(P, V, start, N, g[N])
  BY <1>0, <1>7
<1>9. g[N] = Walk(P, V, start)
  <2> HIDE DEF Eq
  <2> QED
    BY <1>1 DEF g
<1> QED
  BY <1>8, <1>9 DEF N

\* So it ends, and begins with its start.
LEMMA WalkEnds ==
    ASSUME NEW P, IsFiniteSet(DOMAIN P), NEW V, NEW start \in (DOMAIN P) \ V, NEW w,
           IsWalk(P, V, start, Cardinality(DOMAIN P), w)
    PROVE  Ended(P, V, w) /\ start \in Range(w.path) /\ w.path # <<>>
<1> DEFINE path == w.path
           N == Cardinality(DOMAIN P)
<1>1. /\ IsPath(P, V, start, path, w.at) /\ Len(path) \in Nat /\ N \in Nat
      /\ Len(path) = N \/ Ended(P, V, w)
      /\ path \in Seq(DOMAIN P) /\ DOMAIN path = 1..Len(path)
  BY FS_CardinalityType DEF IsWalk, IsPath
<1>2. path # <<>>
  <2> SUFFICES ASSUME path = <<>> PROVE FALSE
    OBVIOUS
  <2>1. w.at = start /\ Range(path) = {} /\ Len(path) = 0
    BY <1>1 DEF IsPath, Range
  <2>2. ~Ended(P, V, w)
    BY <2>1 DEF Ended
  <2>3. N = 0
    BY <1>1, <2>1, <2>2
  <2> QED
    BY <2>3, FS_EmptySet
<1>3. 1 \in 1..Len(path) /\ Len(path) \in 1..Len(path)
  BY <1>1, <1>2
<1>4. start \in Range(path)
  BY <1>1, <1>2, <1>3 DEF IsPath, Range
<1>5. ASSUME Len(path) = N
      PROVE  Ended(P, V, w)
  <2> DEFINE S == 1..N
  <2>1. \A p \in S : path[p] \in DOMAIN P
    BY <1>1, <1>5
  <2>2. \A p, q \in S : path[p] = path[q] => p = q
    BY <1>1, <1>5 DEF IsPath
  <2>3. path = [p \in S |-> path[p]]
    BY <1>1, <1>5
  <2>4. IsFiniteSet(S) /\ Cardinality(S) = N
    BY <1>1, FinitePositions
  <2> HIDE DEF S, N, path
  <2>5. path \in Injection(S, DOMAIN P)
    BY <2>1, <2>2, <2>3 DEF Injection, IsInjective
  <2>6. path \in Surjection(S, DOMAIN P)
    BY <2>4, <2>5, FS_Injection DEF N
  <2>7. DOMAIN P \subseteq Range(path)
    BY <2>3, <2>6 DEF Surjection, Range
  <2> QED
    BY <2>7 DEF Ended, path
<1> QED
  BY <1>1, <1>2, <1>4, <1>5

\* The part of a walk from the code that it meets again.
Repeats(w) ==
    LET at == {p \in DOMAIN w.path : w.path[p] = w.at}
    IN  {w.path[p] : p \in {q \in DOMAIN w.path : \E a \in at : q >= a}}

\* V with the walk holds the parents of its members, and what the walk repeats
\* are its codes that are their own ancestors.
LEMMA WalkFinds ==
    ASSUME NEW P, IsFiniteSet(DOMAIN P), NEW V \in SUBSET DOMAIN P, Upward(P, V),
           NEW start \in (DOMAIN P) \ V, NEW w, IsWalk(P, V, start, Cardinality(DOMAIN P), w)
    PROVE  /\ Range(w.path) \subseteq DOMAIN P
           /\ Upward(P, V \union Range(w.path))
           /\ Repeats(w) = {c \in Range(w.path) : OnLoop(P, c)}
<1> DEFINE path == w.path
           m == Len(path)
           Later(a) == {path[i] : i \in a..m}
<1>1. /\ IsPath(P, V, start, path, w.at) /\ m \in Nat /\ m \in 1..m
      /\ path \in Seq(DOMAIN P) /\ DOMAIN path = 1..m
      /\ Ended(P, V, w)
  <2>1. path \in Seq(DOMAIN P) /\ path # <<>> /\ Ended(P, V, w)
        /\ IsPath(P, V, start, path, w.at)
    BY WalkEnds DEF IsWalk, IsPath
  <2>2. m \in Nat /\ m # 0
    BY <2>1
  <2> QED
    BY <2>1, <2>2
<1>2. /\ Range(path) = {path[i] : i \in 1..m}
      /\ \A i \in 1..m : path[i] \in DOMAIN P /\ path[i] \notin V
      /\ \A i, j \in 1..m : path[i] = path[j] => i = j
      /\ \A i \in 1..(m - 1) : path[i + 1] = P[path[i]]
      /\ w.at = P[path[m]]
  <2>1. path # <<>>
    BY <1>1
  <2> QED
    BY <1>1, <2>1 DEF IsPath, Range
<1>3. Repeats(w) = {path[i] : i \in {q \in 1..m : \E a \in 1..m : path[a] = w.at /\ q >= a}}
  BY <1>1 DEF Repeats
<1>4. \A i \in 1..m : i = m \/ (i \in 1..(m - 1) /\ i + 1 \in 1..m)
  BY <1>1
<1> HIDE DEF path, m
<1>5. Upward(P, V \union Range(path))
  <2>1. \A i \in 1..m : P[path[i]] \in DOMAIN P => P[path[i]] \in V \union Range(path)
    <3> SUFFICES ASSUME NEW i \in 1..m, P[path[i]] \in DOMAIN P
                 PROVE  P[path[i]] \in V \union Range(path)
      OBVIOUS
    <3>1. CASE i = m
      BY <1>1, <1>2, <3>1 DEF Ended, path
    <3>2. CASE i # m
      BY <1>2, <1>4, <3>2
    <3> QED
      BY <3>1, <3>2
  <2>2. \A v \in V : P[v] \in DOMAIN P => P[v] \in V
    BY DEF Upward
  <2> QED
    BY <1>2, <2>1, <2>2 DEF Upward
<1>6. ASSUME NEW a \in 1..m, path[a] = w.at
      PROVE  /\ Later(a) \in SUBSET DOMAIN P
             /\ \A i \in a..m : P[path[i]] \in Later(a)
             /\ {P[p] : p \in Later(a)} = Later(a)
  <2>1. \A i \in a..m : i \in 1..m
    BY <1>1
  <2>2. \A i \in a..m : P[path[i]] \in Later(a)
    <3> SUFFICES ASSUME NEW i \in a..m
                 PROVE  P[path[i]] \in Later(a)
      OBVIOUS
    <3>1. CASE i = m
      <4>1. P[path[i]] = path[a] /\ a \in a..m
        BY <1>1, <1>2, <1>6, <3>1
      <4> QED
        BY <4>1
    <3>2. CASE i # m
      <4>1. P[path[i]] = path[i + 1] /\ i + 1 \in a..m
        BY <1>1, <1>2, <1>4, <2>1, <3>2
      <4> QED
        BY <4>1
    <3> QED
      BY <3>1, <3>2
  <2>3. \A i \in a..m : \E p \in Later(a) : path[i] = P[p]
    <3> SUFFICES ASSUME NEW i \in a..m
                 PROVE  \E p \in Later(a) : path[i] = P[p]
      OBVIOUS
    <3>1. CASE i = a
      <4>1. path[i] = P[path[m]] /\ m \in a..m
        BY <1>1, <1>2, <1>6, <3>1
      <4> QED
        BY <4>1
    <3>2. CASE i # a
      <4>1. i - 1 \in a..m /\ i - 1 \in 1..(m - 1) /\ (i - 1) + 1 = i
        BY <1>1, <3>2
      <4>2. path[i] = P[path[i - 1]]
        BY <1>2, <4>1
      <4> QED
        BY <4>1, <4>2
    <3> QED
      BY <3>1, <3>2
  <2>4. Later(a) \in SUBSET DOMAIN P
    BY <1>2, <2>1
  <2>5. \A p \in Later(a) : \E i \in a..m : p = path[i]
    OBVIOUS
  <2> HIDE DEF Later
  <2>6. {P[p] : p \in Later(a)} \subseteq Later(a)
    BY <2>2, <2>5
  <2>7. Later(a) \subseteq {P[p] : p \in Later(a)}
    BY <2>3, <2>5
  <2> QED
    BY <2>2, <2>4, <2>6, <2>7
<1>7. ASSUME NEW a \in 1..m, path[a] = w.at, NEW q \in 1..m, q >= a
      PROVE  OnLoop(P, path[q])
  <2>1. path[q] \in Later(a)
    BY <1>1, <1>7
  <2> HIDE DEF Later
  <2> QED
    BY <1>6, <1>7, <2>1 DEF OnLoop
<1>8. ASSUME NEW q \in 1..m, OnLoop(P, path[q])
      PROVE  \E a \in 1..m : path[a] = w.at /\ q >= a
  <2>1. PICK loop \in SUBSET DOMAIN P : path[q] \in loop /\ {P[p] : p \in loop} = loop
    BY <1>8 DEF OnLoop
  <2>2. IsLoop(P, loop)
    BY <2>1 DEF IsLoop
  <2> DEFINE Off == {i \in 1..m : i >= q /\ path[i] \notin loop}
  <2>3. Off = {}
    <3> SUFFICES ASSUME Off # {} PROVE FALSE
      OBVIOUS
    <3>1. Off \subseteq Nat
      BY <1>1
    <3>2. PICK i \in Off : \A j \in Off : i <= j
      <4> HIDE DEF Off
      <4> QED
        BY <3>1, LeastMember
    <3>3. i # q /\ i \in 1..m /\ i >= q /\ path[i] \notin loop
      BY <2>1
    <3>4. i - 1 \in 1..m /\ i - 1 >= q /\ i - 1 \in 1..(m - 1) /\ (i - 1) + 1 = i
      BY <1>1, <3>3
    <3>5. i - 1 \notin Off
      <4> HIDE DEF Off
      <4> QED
        BY <3>2, <3>4
    <3>6. path[i - 1] \in loop /\ path[i] = P[path[i - 1]]
      BY <1>2, <3>4, <3>5
    <3> QED
      BY <2>1, <3>3, <3>6
  <2>4. path[m] \in loop /\ w.at \in loop
    <3>1. m >= q
      BY <1>1
    <3>2. path[m] \in loop
      BY <1>1, <2>3, <3>1
    <3> QED
      BY <1>2, <2>1, <3>2
  <2>5. w.at \notin V
    <3> SUFFICES ASSUME P[path[m]] \in V PROVE FALSE
      BY <1>2
    <3>1. path[m] \in V
      BY <2>2, <2>4, LoopIsNotEntered
    <3> QED
      BY <1>1, <1>2, <3>1
  <2>6. PICK a \in 1..m : path[a] = w.at
    <3>1. w.at \in Range(path)
      BY <1>1, <2>4, <2>5 DEF Ended, path
    <3> QED
      BY <1>2, <3>1
  <2>7. CASE q < a
    <3>1. a - 1 \in 1..(m - 1) /\ a - 1 >= q /\ a - 1 \in 1..m /\ (a - 1) + 1 = a
      BY <1>1, <2>7
    <3>2. path[a - 1] \in loop /\ P[path[a - 1]] = path[a]
      BY <1>2, <2>3, <3>1
    <3>3. a \in a..m
      BY <1>1
    <3>4. path[a] \in Later(a) /\ \A p \in Later(a) : \E i \in a..m : p = path[i]
      BY <3>3
    <3> HIDE DEF Later
    <3>5. Upward(P, Later(a))
      BY <1>6, <2>6 DEF Upward
    <3>6. path[a - 1] \in Later(a)
      BY <2>2, <3>2, <3>4, <3>5, LoopIsNotEntered
    <3>7. PICK i \in a..m : path[a - 1] = path[i]
      BY <3>4, <3>6
    <3>8. i \in 1..m /\ i # a - 1
      BY <1>1
    <3> QED
      BY <1>2, <3>1, <3>7, <3>8
  <2>8. CASE q >= a
    BY <2>6, <2>8
  <2> QED
    BY <2>7, <2>8
<1>9. Repeats(w) = {c \in Range(path) : OnLoop(P, c)}
  <2> HIDE DEF Later
  <2>1. \A c \in Repeats(w) : c \in Range(path) /\ OnLoop(P, c)
    BY <1>2, <1>3, <1>7
  <2>2. \A c \in Range(path) : OnLoop(P, c) => c \in Repeats(w)
    BY <1>2, <1>3, <1>8
  <2> QED
    BY <2>1, <2>2
<1>10. Range(path) \subseteq DOMAIN P
  BY <1>2
<1> QED
  BY <1>5, <1>9, <1>10 DEF path

-----------------------------------------------------------------------------
(* The codes on a cycle.                                                      *)

\* What the walk from one more row makes of what was seen before.
Visited(P, seen, r) ==
    IF r.record = None \/ r.record["wbs_code"] \in seen.visited THEN seen
    ELSE LET w == Walk(P, seen.visited, r.record["wbs_code"])
         IN  [visited |-> seen.visited \union Range(w.path),
              cycle |-> seen.cycle \union Repeats(w)]

\* The codes of the first n rows were visited, with all above them, and those
\* on a loop are known.
Seen(P, rows, n, seen) ==
    /\ seen = [visited |-> seen.visited, cycle |-> seen.cycle]
    /\ seen.visited \in SUBSET DOMAIN P
    /\ Upward(P, seen.visited)
    /\ \A i \in 1..n : rows[i].record # None => rows[i].record["wbs_code"] \in seen.visited
    /\ seen.cycle = {c \in seen.visited : OnLoop(P, c)}

\* The codes of the rows have parents, and finitely many.
LEMMA CodesAreFinite ==
    ASSUME NEW n \in Nat, NEW rows, DOMAIN rows = 1..n
    PROVE  /\ IsFiniteSet(DOMAIN Parents(rows))
           /\ DOMAIN Parents(rows)
                = {rows[i].record["wbs_code"] : i \in {j \in 1..n : rows[j].record # None}}
<1> DEFINE codes == {rows[i].record["wbs_code"] : i \in {j \in 1..n : rows[j].record # None}}
<1>1. DOMAIN Parents(rows) = codes
  BY DEF Parents
<1>2. \A t \in codes : \E i \in 1..n : t = rows[i].record["wbs_code"]
  OBVIOUS
<1>3. IsFiniteSet(1..n)
  BY FinitePositions
<1> HIDE DEF codes
<1>4. IsFiniteSet(codes)
  <2> DEFINE code == [i \in 1..n |-> rows[i].record["wbs_code"]]
  <2>1. \A t \in codes : \E i \in 1..n : t = code[i]
    BY <1>2
  <2> HIDE DEF code
  <2> QED
    BY <1>3, <2>1, FiniteImage
<1> QED
  BY <1>1, <1>4 DEF codes

\* The walk from the code of one more row visits all that is above it.
LEMMA VisitStep ==
    ASSUME NEW P, IsFiniteSet(DOMAIN P), NEW rows, NEW n \in Nat, n >= 1,
           rows[n].record # None => rows[n].record["wbs_code"] \in DOMAIN P,
           NEW seen, Seen(P, rows, n - 1, seen)
    PROVE  Seen(P, rows, n, Visited(P, seen, rows[n]))
<1> DEFINE r == rows[n]
           code == r.record["wbs_code"]
           V == seen.visited
           w == Walk(P, V, code)
<1>1. \A i \in 1..n : i = n \/ i \in 1..(n - 1)
  OBVIOUS
<1>2. CASE r.record = None \/ code \in V
  <2>1. Visited(P, seen, r) = seen
    BY <1>2 DEF Visited
  <2>2. \A i \in 1..n : rows[i].record # None => rows[i].record["wbs_code"] \in V
    BY <1>1, <1>2 DEF Seen
  <2> HIDE DEF V, code, w
  <2> QED
    BY <2>1, <2>2 DEF Seen, V
<1>3. CASE r.record # None /\ code \notin V
  <2>1. code \in (DOMAIN P) \ V /\ V \in SUBSET DOMAIN P /\ Upward(P, V)
    BY <1>3 DEF Seen
  <2> DEFINE next == [visited |-> V \union Range(w.path), cycle |-> seen.cycle \union Repeats(w)]
  <2>2. Visited(P, seen, r) = next
    BY <1>3 DEF Visited
  <2> HIDE DEF V, code, w
  <2>3. IsWalk(P, V, code, Cardinality(DOMAIN P), w)
    BY <2>1, WalkIsWalk DEF w
  <2>4. /\ Range(w.path) \subseteq DOMAIN P
        /\ Upward(P, V \union Range(w.path))
        /\ Repeats(w) = {c \in Range(w.path) : OnLoop(P, c)}
    BY <2>1, <2>3, WalkFinds
  <2>5. code \in Range(w.path)
    BY <2>1, <2>3, WalkEnds
  <2>6. \A i \in 1..(n - 1) : rows[i].record # None => rows[i].record["wbs_code"] \in V
    BY DEF Seen, V
  <2>7. \A i \in 1..n : rows[i].record # None
                         => rows[i].record["wbs_code"] \in V \union Range(w.path)
    BY <1>1, <2>5, <2>6 DEF code
  <2>8. seen.cycle = {c \in V : OnLoop(P, c)}
    BY DEF Seen, V
  <2>9. seen.cycle \union Repeats(w) = {c \in V \union Range(w.path) : OnLoop(P, c)}
    BY <2>4, <2>8
  <2>10. next.visited = V \union Range(w.path) /\ next.cycle = seen.cycle \union Repeats(w)
         /\ next = [visited |-> next.visited, cycle |-> next.cycle]
    OBVIOUS
  <2> HIDE DEF next
  <2>11. next.visited \in SUBSET DOMAIN P
    BY <2>1, <2>4, <2>10
  <2>12. Seen(P, rows, n, next)
    BY <2>4, <2>7, <2>9, <2>10, <2>11 DEF Seen
  <2> QED
    BY <2>2, <2>12
<1> QED
  BY <1>2, <1>3

\* The codes that are called cyclic are those that are their own ancestors,
\* wherever the walks begin and whatever was visited before (_cycle_codes).
LEMMA CyclesAreLoops ==
    ASSUME NEW n \in Nat, NEW rows, DOMAIN rows = 1..n
    PROVE  CycleCodes(rows) = {c \in DOMAIN Parents(rows) : OnLoop(Parents(rows), c)}
<1> DEFINE P == Parents(rows)
           first == [visited |-> {}, cycle |-> {}]
           V == [visited : SUBSET DOMAIN P, cycle : SUBSET DOMAIN P]
           Eq(g) == g = [s \in SUBSET (DOMAIN rows) |->
                            IF s = {} THEN first
                            ELSE LET x == Max(s) IN Visited(P, g[s \ {x}], rows[x])]
           step == [q \in (1..n) \X V |-> Visited(P, q[2], rows[q[1]])]
<1>0. /\ IsFiniteSet(DOMAIN P)
      /\ DOMAIN P = {rows[i].record["wbs_code"] : i \in {j \in 1..n : rows[j].record # None}}
  BY CodesAreFinite
<1>1. CycleCodes(rows) = (CHOOSE g : Eq(g))[DOMAIN rows].cycle
  BY DEF CycleCodes, FoldLeft, MapThenFoldSet, Visited, Repeats
<1>2. \A i \in 1..n : rows[i].record # None => rows[i].record["wbs_code"] \in DOMAIN P
  BY <1>0
<1> HIDE DEF P
<1>3. \A v \in V, i \in 1..n : Visited(P, v, rows[i]) \in V
  <2> SUFFICES ASSUME NEW v \in V, NEW i \in 1..n
               PROVE  Visited(P, v, rows[i]) \in V
    OBVIOUS
  <2> DEFINE code == rows[i].record["wbs_code"]
             w == Walk(P, v.visited, code)
  <2>1. CASE rows[i].record = None \/ code \in v.visited
    BY <2>1 DEF Visited
  <2>2. CASE rows[i].record # None /\ code \notin v.visited
    <3>1. code \in DOMAIN P
      BY <1>2, <2>2
    <3>2. Visited(P, v, rows[i]) = [visited |-> v.visited \union Range(w.path),
                                    cycle |-> v.cycle \union Repeats(w)]
      BY <2>2 DEF Visited
    <3> HIDE DEF code, w
    <3>3. IsWalk(P, v.visited, code, Cardinality(DOMAIN P), w)
      BY <1>0, <3>1, WalkIsWalk DEF w
    <3>4. w.path \in Seq(DOMAIN P)
      BY <3>3 DEF IsWalk, IsPath
    <3>5. Range(w.path) \subseteq DOMAIN P
      BY <3>4 DEF Range
    <3>6. Repeats(w) \subseteq Range(w.path)
      BY DEF Repeats, Range
    <3> QED
      BY <3>2, <3>5, <3>6
  <2> QED
    BY <2>1, <2>2
<1>4. step \in [(1..n) \X V -> V] /\ first \in V
  <2>1. first \in V
    OBVIOUS
  <2> HIDE DEF V, first
  <2>2. \A q \in (1..n) \X V : Visited(P, q[2], rows[q[1]]) \in V
    BY <1>3
  <2> QED
    BY <2>1, <2>2
<1>5. \E g : Eq(g)
  <2>1. PICK g \in [SUBSET (1..n) -> V] : FoldedLeft(g, n, first, step)
    <3> HIDE DEF step, V, first, Eq
    <3>1. \E g \in [SUBSET (1..n) -> V] : FoldedLeft(g, n, first, step)
      BY <1>4, PrefixesExist
    <3> QED
      BY <3>1
  <2>2. \A s \in SUBSET (1..n) : s # {} => Max(s) \in 1..n
    BY MaxIsThere
  <2> HIDE DEF V, first
  <2>3. \A s \in SUBSET (1..n) : s # {} =>
           step[<<Max(s), g[s \ {Max(s)}]>>] = Visited(P, g[s \ {Max(s)}], rows[Max(s)])
    BY <2>2
  <2>4. \A s \in SUBSET (1..n) :
           g[s] = IF s = {} THEN first ELSE Visited(P, g[s \ {Max(s)}], rows[Max(s)])
    <3> HIDE DEF step
    <3> QED
      BY <2>1, <2>3 DEF FoldedLeft
  <2>5. g = [s \in SUBSET (1..n) |-> g[s]]
    OBVIOUS
  <2> QED
    BY <2>4, <2>5
<1> DEFINE g == CHOOSE f : Eq(f)
<1>6. Eq(g)
  <2> HIDE DEF Eq
  <2> QED
    BY <1>5
<1> HIDE DEF g
<1>7. g[1..0] = first
  <2> HIDE DEF first
  <2> QED
    BY <1>6
<1>8. \A i \in 1..n : g[1..i] = Visited(P, g[1..(i - 1)], rows[i])
  <2> SUFFICES ASSUME NEW i \in 1..n
               PROVE  g[1..i] = Visited(P, g[1..(i - 1)], rows[i])
    OBVIOUS
  <2>1. 1..i # {} /\ Max(1..i) = i /\ (1..i) \ {i} = 1..(i - 1)
    <3>1. i \in Nat /\ i >= 1
      OBVIOUS
    <3> QED
      BY <3>1, PrefixStep
  <2>2. 1..i \in SUBSET (DOMAIN rows)
    OBVIOUS
  <2> HIDE DEF first
  <2> QED
    BY <1>6, <2>1, <2>2
<1> DEFINE T == {i \in Nat : i <= n /\ ~Seen(P, rows, i, g[1..i])}
<1>9. T = {}
  <2> SUFFICES ASSUME T # {} PROVE FALSE
    OBVIOUS
  <2>1. PICK i \in T : \A m \in T : i <= m
    BY LeastMember
  <2>2. i \in Nat /\ i <= n /\ ~Seen(P, rows, i, g[1..i])
    OBVIOUS
  <2>3. i # 0
    <3>1. Seen(P, rows, 0, first)
      BY DEF Seen, Upward
    <3> QED
      BY <1>7, <2>2, <3>1
  <2>4. i \in 1..n /\ i - 1 \in Nat /\ i - 1 <= n /\ i - 1 \notin T /\ i >= 1
    BY <2>1, <2>2, <2>3
  <2>5. Seen(P, rows, i - 1, g[1..(i - 1)])
    BY <2>4
  <2>6. Seen(P, rows, i, Visited(P, g[1..(i - 1)], rows[i]))
    BY <1>0, <1>2, <2>4, <2>5, VisitStep
  <2> QED
    BY <1>8, <2>2, <2>4, <2>6
<1>10. Seen(P, rows, n, g[1..n])
  BY <1>9
<1>11. g[1..n].cycle = CycleCodes(rows)
  <2> HIDE DEF Eq
  <2> QED
    BY <1>1 DEF g
<1>12. g[1..n].visited = DOMAIN P
  BY <1>0, <1>10 DEF Seen
<1> QED
  BY <1>10, <1>11, <1>12 DEF Seen, P

-----------------------------------------------------------------------------
(* The codes that are kept.                                                   *)

\* What the rounds of a spread end with: nothing more becomes invalid, and no
\* code of a grounded set ever did.
LEMMA SpreadEnds ==
    ASSUME NEW n \in Nat, NEW rows, DOMAIN rows = 1..n, None \notin DOMAIN Parents(rows)
    PROVE  /\ CycleCodes(rows) \subseteq InvalidCodes(rows)
           /\ InvalidCodes(rows) \subseteq DOMAIN Parents(rows)
           /\ Spread(Parents(rows), InvalidCodes(rows)) = InvalidCodes(rows)
           /\ \A s \in SUBSET DOMAIN Parents(rows) :
                 Grounded(Parents(rows), s) => s \cap InvalidCodes(rows) = {}
<1> DEFINE P == Parents(rows)
           D == DOMAIN P
           N == Cardinality(D)
           cycle == CycleCodes(rows)
           Eq(g) == g = [k \in 0..N |-> IF k = 0 THEN cycle ELSE Spread(P, g[k - 1])]
           V == SUBSET D
           step == [s \in V |-> Spread(P, s)]
<1>0. IsFiniteSet(D) /\ N \in Nat
  BY CodesAreFinite, FS_CardinalityType
<1>1. cycle = {c \in D : OnLoop(P, c)}
  BY CyclesAreLoops
<1>2. InvalidCodes(rows) = (CHOOSE g : Eq(g))[N]
  BY DEF InvalidCodes
<1>3. None \notin D
  OBVIOUS
<1> HIDE DEF P, D, N, cycle
<1>4. \A s \in V : Spread(P, s) \in V /\ s \subseteq Spread(P, s)
  BY DEF Spread, D
<1>5. step \in [V -> V] /\ cycle \in V
  BY <1>1, <1>4
<1>6. \E g : Eq(g)
  <2> HIDE DEF V, step
  <2>1. PICK g \in [0..N -> V] : g[0] = cycle /\ \A k \in 1..N : g[k] = step[g[k - 1]]
    <3> HIDE DEF Eq
    <3>1. \E g \in [0..N -> V] : Repeated(g, N, cycle, step)
      BY <1>0, <1>5, RoundsExist
    <3> QED
      BY <3>1 DEF Repeated
  <2>2. \A k \in 1..N : k - 1 \in 0..N /\ k # 0
    BY <1>0
  <2>3. \A k \in 1..N : g[k] = Spread(P, g[k - 1])
    <3> SUFFICES ASSUME NEW k \in 1..N
                 PROVE  g[k] = Spread(P, g[k - 1])
      OBVIOUS
    <3>1. g[k - 1] \in V
      BY <2>2
    <3> QED
      BY <2>1, <3>1 DEF step
  <2>4. \A k \in 0..N : k = 0 \/ k \in 1..N
    BY <1>0
  <2>5. g = [k \in 0..N |-> g[k]]
    OBVIOUS
  <2>6. \A k \in 0..N : g[k] = IF k = 0 THEN cycle ELSE Spread(P, g[k - 1])
    BY <2>1, <2>3, <2>4
  <2> QED
    BY <2>5, <2>6
<1> DEFINE g == CHOOSE f : Eq(f)
<1>7. Eq(g)
  <2> HIDE DEF Eq
  <2> QED
    BY <1>6
<1> HIDE DEF g
<1>8. g[0] = cycle /\ \A k \in 1..N : g[k] = Spread(P, g[k - 1])
  <2>1. 0 \in 0..N /\ \A k \in 1..N : k \in 0..N /\ k # 0
    BY <1>0
  <2>2. \A k \in 0..N : g[k] = IF k = 0 THEN cycle ELSE Spread(P, g[k - 1])
    BY <1>7
  <2> QED
    BY <2>1, <2>2
<1> DEFINE Grows(k) == /\ g[k] \in V /\ cycle \subseteq g[k]
                       /\ Cardinality(g[k]) >= k \/ Spread(P, g[k]) = g[k]
                       /\ \A s \in V : Grounded(P, s) => s \cap g[k] = {}
           T == {k \in Nat : k <= N /\ ~Grows(k)}
<1>9. ASSUME NEW s \in V, Grounded(P, s)
      PROVE  s \cap cycle = {}
  <2> SUFFICES ASSUME NEW c \in s, c \in cycle PROVE FALSE
    OBVIOUS
  <2>1. PICK loop \in SUBSET D : c \in loop /\ {P[p] : p \in loop} = loop
    BY <1>1 DEF OnLoop, D
  <2>2. \A p \in loop \cap s : P[p] \in loop \cap s
    BY <1>3, <1>9, <2>1 DEF Grounded
  <2>3. loop \cap s \in (SUBSET s) \ {{}}
    BY <2>1
  <2> QED
    BY <1>9, <2>2, <2>3 DEF Grounded
<1>10. \A s \in V : IsFiniteSet(s) /\ Cardinality(s) \in Nat /\ Cardinality(s) <= N
                     /\ (Cardinality(s) = N => s = D)
  BY <1>0, FS_Subset, FS_CardinalityType DEF N
<1>11. T = {}
  <2> SUFFICES ASSUME T # {} PROVE FALSE
    OBVIOUS
  <2>1. PICK k \in T : \A m \in T : k <= m
    BY LeastMember
  <2>2. k \in Nat /\ k <= N /\ ~Grows(k)
    OBVIOUS
  <2>3. k # 0
    <3>1. cycle \in V /\ Cardinality(cycle) >= 0
      BY <1>5, <1>10
    <3>2. Grows(0)
      BY <1>8, <1>9, <3>1
    <3> HIDE DEF Grows
    <3> QED
      BY <2>2, <3>2
  <2>4. k \in 1..N /\ k - 1 \in Nat /\ k - 1 <= N /\ k - 1 \notin T
    BY <1>0, <2>1, <2>2, <2>3
  <2>5. Grows(k - 1)
    BY <2>4
  <2> DEFINE before == g[k - 1]
  <2>6. g[k] = Spread(P, before) /\ before \in V /\ cycle \subseteq before
        /\ g[k] \in V /\ before \subseteq g[k]
    BY <1>4, <1>8, <2>4, <2>5
  <2>7. Cardinality(g[k]) >= k \/ Spread(P, g[k]) = g[k]
    <3>1. CASE Spread(P, before) = before
      BY <2>6, <3>1
    <3>2. CASE Spread(P, before) # before
      <4>1. Cardinality(before) >= k - 1
        BY <2>5, <3>2
      <4> HIDE DEF before
      <4>2. Cardinality(before) <= Cardinality(g[k]) /\ Cardinality(before) # Cardinality(g[k])
        BY <1>10, <2>6, <3>2, FS_Subset
      <4>3. Cardinality(before) \in Nat /\ Cardinality(g[k]) \in Nat
        BY <1>10, <2>6
      <4> QED
        BY <2>2, <4>1, <4>2, <4>3
    <3> QED
      BY <3>1, <3>2
  <2>8. ASSUME NEW s \in V, Grounded(P, s)
        PROVE  s \cap g[k] = {}
    <3> SUFFICES ASSUME NEW c \in s, c \in g[k] PROVE FALSE
      OBVIOUS
    <3>1. s \cap before = {}
      BY <2>5, <2>8
    <3>2. c \notin before /\ P[c] \in s \union {None}
      BY <2>8, <3>1 DEF Grounded
    <3>3. P[c] # None /\ (P[c] \notin D \/ P[c] \in before)
      BY <2>6, <3>2 DEF Spread, D
    <3> QED
      BY <3>1, <3>2, <3>3
  <2>9. cycle \subseteq g[k]
    BY <2>6
  <2>10. Grows(k)
    BY <2>6, <2>7, <2>8, <2>9
  <2> HIDE DEF Grows
  <2> QED
    BY <2>2, <2>10
<1>12. Grows(N)
  <2> HIDE DEF Grows
  <2> QED
    BY <1>0, <1>11
<1>13. Spread(P, g[N]) = g[N]
  <2>1. CASE Cardinality(g[N]) >= N
    <3>1. g[N] \in V
      BY <1>12
    <3>2. Cardinality(g[N]) \in Nat /\ Cardinality(g[N]) <= N
      BY <1>10, <3>1
    <3>3. Cardinality(g[N]) = N
      BY <1>0, <2>1, <3>2
    <3>4. g[N] = D
      BY <1>10, <3>1, <3>3
    <3>5. Spread(P, D) \subseteq D /\ D \subseteq Spread(P, D)
      BY <1>4
    <3> QED
      BY <3>4, <3>5
  <2>2. CASE ~(Cardinality(g[N]) >= N)
    BY <1>12, <2>2
  <2> QED
    BY <2>1, <2>2
<1>14. g[N] = InvalidCodes(rows)
  <2> HIDE DEF Eq
  <2> QED
    BY <1>2 DEF g
<1> QED
  BY <1>12, <1>13, <1>14 DEF P, D, cycle

\* The codes that are not invalid are the greatest set of codes that holds the
\* parents of its members and no loop (validate_wbs_hierarchy).
LEMMA KeptCodesAreForest ==
    ASSUME NEW n \in Nat, NEW rows, DOMAIN rows = 1..n, None \notin DOMAIN Parents(rows)
    PROVE  LET P == Parents(rows)
               kept == (DOMAIN P) \ InvalidCodes(rows)
           IN  /\ Grounded(P, kept)
               /\ kept = UNION {s \in SUBSET DOMAIN P : Grounded(P, s)}
<1> DEFINE P == Parents(rows)
           D == DOMAIN P
           invalid == InvalidCodes(rows)
           kept == D \ invalid
<1>1. /\ CycleCodes(rows) \subseteq invalid
      /\ Spread(P, invalid) = invalid
      /\ \A s \in SUBSET D : Grounded(P, s) => s \cap invalid = {}
  BY SpreadEnds
<1>2. CycleCodes(rows) = {c \in D : OnLoop(P, c)} /\ IsFiniteSet(D)
  BY CyclesAreLoops, CodesAreFinite
<1> HIDE DEF P, invalid
<1>3. \A c \in kept : P[c] \in kept \union {None}
  BY <1>1 DEF Spread
<1>4. ASSUME NEW S \in (SUBSET kept) \ {{}}, \A c \in S : P[c] \in S
      PROVE  FALSE
  <2>1. PICK loop \in SUBSET S : loop # {} /\ IsLoop(P, loop)
    BY <1>2, <1>4, LoopInside
  <2>2. PICK c : c \in loop
    BY <2>1
  <2>3. c \in D /\ OnLoop(P, c)
    BY <2>1, <2>2 DEF IsLoop, OnLoop
  <2> QED
    BY <1>1, <1>2, <2>2, <2>3
<1>5. Grounded(P, kept)
  BY <1>3, <1>4 DEF Grounded
<1>6. kept = UNION {s \in SUBSET D : Grounded(P, s)}
  BY <1>1, <1>5
<1> QED
  BY <1>5, <1>6 DEF P, invalid

-----------------------------------------------------------------------------
(* The rows of the WBS sheet.                                                 *)

\* No check of a single row speaks of cycles.
LEMMA NoCycleYet ==
    ASSUME NEW x, NEW issue \in _map_row("wbs", x).issues
    PROVE  issue.code # "cyclic_wbs_parent"
<1> DEFINE columns == profile["wbs"]
           Cell(c) == IF <<c.field>> \in DOMAIN x.values THEN x.values[<<c.field>>] ELSE Blank
           scalars == [k \in DOMAIN columns |-> _normalize_scalar(Cell(columns[k]), columns[k])]
           values == [f \in Fields("wbs") |->
                         scalars[CHOOSE k \in DOMAIN columns : columns[k].field = f].value]
           read == UNION {scalars[k].issues : k \in DOMAIN columns}
           Fine(issues) == \A j \in issues : j.code # "cyclic_wbs_parent"
<1>1. _map_row("wbs", x).issues = read \union ContradictoryDates("wbs", values, read)
                                      \union InvalidIdentity("wbs", values, read)
  BY ZenonT(60) DEF _map_row
<1>2. \A v, f : /\ Fine(Value(v).issues)
                /\ Fine(Refused("missing_required_value", f).issues)
                /\ Fine(Refused("invalid_integer", f).issues)
                /\ Fine(Warned(v, "coerced_integer", f).issues)
                /\ Fine(Warned(v, "normalized_string", f).issues)
                /\ Fine(Warned(v, "coerced_string", f).issues)
  BY DEF Value, Refused, Warned, Error, Warning
<1>3. \A k \in DOMAIN columns : columns[k].scalar \in {"string", "integer"}
  BY DEF profile, Column
<1>4. \A c, column : column.scalar \in {"string", "integer"}
                       => Fine(_normalize_scalar(c, column).issues)
  <2> SUFFICES ASSUME NEW c, NEW column, column.scalar \in {"string", "integer"}
               PROVE  Fine(_normalize_scalar(c, column).issues)
    OBVIOUS
  <2> HIDE DEF Fine
  <2>1. Fine(String(c, column).issues)
    BY <1>2 DEF String
  <2>2. Fine(Integer(c, column).issues)
    BY <1>2 DEF Integer
  <2>3. CASE c.t \in {"none", "spaces"}
    BY <1>2, <2>3 DEF _normalize_scalar
  <2>4. CASE c.t \notin {"none", "spaces"} /\ column.scalar = "string"
    BY <2>1, <2>4 DEF _normalize_scalar
  <2>5. CASE c.t \notin {"none", "spaces"} /\ column.scalar = "integer"
    BY <2>2, <2>5 DEF _normalize_scalar
  <2> QED
    BY <2>3, <2>4, <2>5
<1>5. ContradictoryDates("wbs", values, read) = {}
  <2> HIDE DEF values, read
  <2> QED
    BY DEF ContradictoryDates
<1>6. Fine(InvalidIdentity("wbs", values, read))
  <2> HIDE DEF values, read
  <2>1. \/ InvalidIdentity("wbs", values, read) = {}
        \/ InvalidIdentity("wbs", values, read) = {Error("invalid_wbs_identity", "parent_wbs")}
    BY DEF InvalidIdentity
  <2>2. Error("invalid_wbs_identity", "parent_wbs").code = "invalid_wbs_identity"
    BY DEF Error
  <2> QED
    BY <2>1, <2>2
<1>7. Fine(read)
  <2> HIDE DEF Fine, columns, Cell
  <2>1. \A k \in DOMAIN columns : Fine(scalars[k].issues)
    BY <1>3, <1>4
  <2> QED
    BY <2>1 DEF Fine
<1> HIDE DEF values, read
<1> QED
  BY <1>1, <1>5, <1>6, <1>7, SMTT(40)

\* A row of the WBS sheet that has a record has the text of its code cell.
LEMMA CodeOfRow ==
    ASSUME NEW x, _map_row("wbs", x).record # None
    PROVE  /\ _map_row("wbs", x).record["wbs_code"] = Text(x.values[<<"wbs_code">>])
           /\ Errors(_map_row("wbs", x).issues) = {}
<1> DEFINE columns == profile["wbs"]
           Cell(c) == IF <<c.field>> \in DOMAIN x.values THEN x.values[<<c.field>>] ELSE Blank
           scalars == [i \in DOMAIN columns |-> _normalize_scalar(Cell(columns[i]), columns[i])]
           values == [g \in Fields("wbs") |->
                         scalars[CHOOSE i \in DOMAIN columns : columns[i].field = g].value]
           read == UNION {scalars[i].issues : i \in DOMAIN columns}
           issues == read \union ContradictoryDates("wbs", values, read)
                          \union InvalidIdentity("wbs", values, read)
<1>1. _map_row("wbs", x) = [row |-> x.row,
                            record |-> IF Errors(issues) = {} THEN values ELSE None,
                            issues |-> issues]
  BY ZenonT(60) DEF _map_row
<1>2. /\ 1 \in DOMAIN columns /\ columns[1] = Column("wbs_code", "string", TRUE, FALSE)
      /\ \A j \in DOMAIN columns : columns[j].field = "wbs_code" => j = 1
      /\ columns[1].field = "wbs_code" /\ columns[1].required = TRUE
      /\ columns[1].scalar = "string"
  BY DEF profile, Column
<1>3. "wbs_code" \in Fields("wbs")
  BY <1>2, ZenonT(60) DEF Fields
<1>4. (CHOOSE j \in DOMAIN columns : columns[j].field = "wbs_code") = 1
  <2> HIDE DEF columns
  <2> QED
    BY <1>2
<1>5. Errors(issues) = {} /\ _map_row("wbs", x).record = values
      /\ _map_row("wbs", x).issues = issues
  <2> HIDE DEF issues, values
  <2> QED
    BY <1>1
<1>6. Errors(scalars[1].issues) = {}
  <2>1. scalars[1].issues \subseteq issues
    BY <1>2, ZenonT(60)
  <2> HIDE DEF issues, scalars
  <2> QED
    BY <1>5, <2>1 DEF Errors
<1> DEFINE c == Cell(columns[1])
<1>7. scalars[1] = _normalize_scalar(c, columns[1])
  <2> HIDE DEF columns, Cell
  <2> QED
    BY <1>2
<1>8. values["wbs_code"] = scalars[1].value
  <2> HIDE DEF columns, scalars
  <2> QED
    BY <1>3, <1>4
<1>9. c = IF <<"wbs_code">> \in DOMAIN x.values THEN x.values[<<"wbs_code">>] ELSE Blank
  <2> HIDE DEF columns
  <2> QED
    BY <1>2
<1> HIDE DEF c, columns, scalars, values, issues
<1>10. c.t \notin {"none", "spaces"}
  <2> SUFFICES ASSUME c.t \in {"none", "spaces"} PROVE FALSE
    OBVIOUS
  <2>1. scalars[1] = Refused("missing_required_value", "wbs_code")
    BY <1>2, <1>7 DEF _normalize_scalar
  <2>2. Error("missing_required_value", "wbs_code") \in scalars[1].issues
    BY <2>1 DEF Refused
  <2>3. Error("missing_required_value", "wbs_code").severity = "error"
    BY DEF Error
  <2> QED
    BY <1>6, <2>2, <2>3 DEF Errors
<1>11. scalars[1].value = Text(c)
  <2>1. scalars[1] = String(c, columns[1])
    BY <1>2, <1>7, <1>10 DEF _normalize_scalar
  <2> QED
    BY <2>1 DEF String, Warned, Value
<1>12. c = x.values[<<"wbs_code">>]
  BY <1>9, <1>10 DEF Blank
<1> QED
  BY <1>5, <1>8, <1>11, <1>12, SMTT(40)

-----------------------------------------------------------------------------
(* The hierarchy of a mapped workbook.                                        *)

\* The rows of a sheet as they are mapped one by one.
AreRows(all) == \A i \in DOMAIN all :
    all[i] = [row |-> all[i].row, record |-> all[i].record, issues |-> all[i].issues]

\* Once the repeated codes are rejected, a code has one row that is kept, and
\* that row is as it was mapped (FirstOfEachCode).
LEMMA OnceRows ==
    ASSUME NEW n \in Nat, NEW all, DOMAIN all = 1..n, AreRows(all)
    PROVE  LET once == FirstOfEachCode(all)
           IN  /\ DOMAIN once = 1..n
               /\ \A i \in 1..n : /\ once[i].record # None => once[i] = all[i]
                                  /\ once[i].record = None =>
                                       \/ once[i] = all[i]
                                       \/ once[i] = Reject(all[i], Error("duplicate_wbs_code", "wbs_code"))
               /\ \A i, j \in 1..n :
                     /\ once[i].record # None /\ once[j].record # None
                     /\ once[i].record["wbs_code"] = once[j].record["wbs_code"]
                     => i = j
<1> DEFINE once == FirstOfEachCode(all)
           dup == Error("duplicate_wbs_code", "wbs_code")
<1>1. /\ DOMAIN once = 1..n
      /\ \A i \in 1..n : once[i] = IF Duplicate(all, i) THEN Reject(all[i], dup) ELSE all[i]
  BY DEF FirstOfEachCode
<1> HIDE DEF once, dup
<1>2. \A i \in 1..n : Reject(all[i], dup).record = None
  BY DEF AreRows, Reject
<1>3. \A i \in 1..n : once[i].record # None => once[i] = all[i] /\ ~Duplicate(all, i)
  BY <1>1, <1>2
<1>4. \A i \in 1..n : once[i] = all[i] \/ once[i] = Reject(all[i], dup)
  BY <1>1
<1>5. ASSUME NEW i \in 1..n, NEW j \in 1..n, once[i].record # None, once[j].record # None,
             once[i].record["wbs_code"] = once[j].record["wbs_code"]
      PROVE  ~(i < j)
  <2> SUFFICES ASSUME i < j PROVE FALSE
    OBVIOUS
  <2>1. once[i] = all[i] /\ once[j] = all[j] /\ ~Duplicate(all, j)
    BY <1>3, <1>5
  <2>2. i \in 1..(j - 1)
    OBVIOUS
  <2> QED
    BY <1>5, <2>1, <2>2 DEF Duplicate
<1>6. \A i, j \in 1..n : i < j \/ j < i \/ i = j
  BY SMTT(40)
<1> QED
  BY <1>1, <1>3, <1>4, <1>5, <1>6 DEF once, dup

\* So the parent of a code is the one that its row states.
LEMMA ParentOfRow ==
    ASSUME NEW n \in Nat, NEW rows, DOMAIN rows = 1..n,
           \A i, j \in 1..n :
               /\ rows[i].record # None /\ rows[j].record # None
               /\ rows[i].record["wbs_code"] = rows[j].record["wbs_code"]
               => i = j,
           NEW i \in 1..n, rows[i].record # None
    PROVE  /\ rows[i].record["wbs_code"] \in DOMAIN Parents(rows)
           /\ Parents(rows)[rows[i].record["wbs_code"]] = rows[i].record["parent_wbs"]
<1> DEFINE kept == {j \in DOMAIN rows : rows[j].record # None}
           code == rows[i].record["wbs_code"]
           Named(j) == rows[j].record["wbs_code"] = code
           k == CHOOSE j \in kept : Named(j)
<1>1. i \in kept /\ Named(i)
  OBVIOUS
<1>2. k \in kept /\ Named(k)
  <2> HIDE DEF Named, kept
  <2> QED
    BY <1>1
<1>3. k = i
  BY <1>2
<1>4. code \in {rows[j].record["wbs_code"] : j \in kept}
  BY <1>1
<1>5. Parents(rows) = [c \in {rows[j].record["wbs_code"] : j \in kept} |->
          rows[CHOOSE j \in kept : rows[j].record["wbs_code"] = c].record["parent_wbs"]]
  BY SMTT(40) DEF Parents
<1>6. Parents(rows)[code] = rows[k].record["parent_wbs"]
  BY <1>4, <1>5, SMTT(40)
<1> QED
  BY <1>3, <1>4, <1>5, <1>6, ZenonT(60)

\* The rows of the WBS sheet, mapped one by one.
WBSRows(e) == [i \in DOMAIN e.rows_by_domain["wbs"] |-> _map_row("wbs", e.rows_by_domain["wbs"][i])]

\* The issue of a row whose code is not kept.
WBSIssue(e, code) ==
    Error(IF code \in CycleCodes(FirstOfEachCode(WBSRows(e))) THEN "cyclic_wbs_parent"
          ELSE "invalid_wbs_parent", "parent_wbs")

\* What becomes of the rows (map_extracted_workbook, _validate_wbs_rows): each
\* has no record already, or a code that is kept, or is rejected for its parent.
LEMMA ValidatedRows ==
    ASSUME NEW e, NEW n \in Nat, DOMAIN e.rows_by_domain["wbs"] = 1..n
    PROVE  LET once == FirstOfEachCode(WBSRows(e))
               final == MappedRows(e, "wbs")
           IN  /\ DOMAIN WBSRows(e) = 1..n /\ AreRows(WBSRows(e))
               /\ DOMAIN once = 1..n /\ DOMAIN final = 1..n
               /\ \A i \in 1..n :
                     IF once[i].record = None \/ once[i].record["wbs_code"] \notin InvalidCodes(once)
                     THEN final[i] = once[i]
                     ELSE /\ final[i] = Reject(once[i], WBSIssue(e, once[i].record["wbs_code"]))
                          /\ final[i].record = None
                          /\ final[i].issues = once[i].issues
                                \union {WBSIssue(e, once[i].record["wbs_code"])}
<1> DEFINE all == WBSRows(e)
           once == FirstOfEachCode(all)
           final == MappedRows(e, "wbs")
<1>1. DOMAIN all = 1..n /\ AreRows(all)
  BY ZenonT(60) DEF WBSRows, AreRows, _map_row
<1>2. final = _validate_wbs_rows(all)
  BY DEF MappedRows, WBSRows
<1> HIDE DEF all, final
<1>3. /\ DOMAIN once = 1..n
      /\ \A i \in 1..n : once[i].record # None => once[i] = all[i]
  BY <1>1, OnceRows
<1>4. final = [i \in DOMAIN once |->
                 IF once[i].record = None \/ once[i].record["wbs_code"] \notin InvalidCodes(once)
                 THEN once[i]
                 ELSE Reject(once[i], WBSIssue(e, once[i].record["wbs_code"]))]
  BY <1>2 DEF _validate_wbs_rows, WBSIssue, all
<1> HIDE DEF once
<1>5. \A i \in 1..n : \A x : once[i].record # None =>
          Reject(once[i], x).record = None /\ Reject(once[i], x).issues = once[i].issues \union {x}
  BY <1>1, <1>3 DEF AreRows, Reject
<1>6. \A i \in 1..n :
          IF once[i].record = None \/ once[i].record["wbs_code"] \notin InvalidCodes(once)
          THEN final[i] = once[i]
          ELSE final[i] = Reject(once[i], WBSIssue(e, once[i].record["wbs_code"]))
  BY <1>3, <1>4
<1>7. DOMAIN final = 1..n
  BY <1>3, <1>4
<1> QED
  BY <1>1, <1>3, <1>5, <1>6, <1>7 DEF final, once, all

\* The codes of the rows are strings, so None is not among them.
LEMMA CodesAreText ==
    ASSUME NoneIsNoFunction, NEW e, NEW n \in Nat, DOMAIN e.rows_by_domain["wbs"] = 1..n
    PROVE  LET once == FirstOfEachCode(WBSRows(e))
           IN  /\ None \notin DOMAIN Parents(once)
               /\ \A i \in 1..n : once[i].record # None =>
                     /\ once[i] = WBSRows(e)[i]
                     /\ once[i].record["wbs_code"]
                           = Text(e.rows_by_domain["wbs"][i].values[<<"wbs_code">>])
<1> DEFINE once == FirstOfEachCode(WBSRows(e))
           x(i) == e.rows_by_domain["wbs"][i]
<1>1. DOMAIN WBSRows(e) = 1..n /\ AreRows(WBSRows(e)) /\ DOMAIN once = 1..n
  BY ValidatedRows
<1>2. \A i \in 1..n : once[i].record # None => once[i] = WBSRows(e)[i]
  BY <1>1, OnceRows
<1>3. \A i \in 1..n : WBSRows(e)[i] = _map_row("wbs", x(i))
  BY DEF WBSRows
<1> HIDE DEF once, x
<1>4. \A i \in 1..n : once[i].record # None =>
          once[i].record["wbs_code"] = Text(x(i).values[<<"wbs_code">>])
  BY <1>2, <1>3, CodeOfRow
<1>5. DOMAIN Parents(once) = {once[i].record["wbs_code"] : i \in {j \in 1..n : once[j].record # None}}
  BY <1>1, CodesAreFinite
<1>6. \A c : Text(c) # None
  <2> SUFFICES ASSUME NEW c PROVE Text(c) # None
    OBVIOUS
  <2>1. PICK a, b : Text(c) = <<a, b>>
    BY DEF Text
  <2> DEFINE pairs == [1..2 -> {a, b}]
  <2>2. <<a, b>> \in pairs
    OBVIOUS
  <2>3. None \notin pairs
    BY DEF NoneIsNoFunction
  <2> HIDE DEF pairs
  <2> QED
    BY <2>1, <2>2, <2>3
<1>7. None \notin DOMAIN Parents(once)
  BY <1>4, <1>5, <1>6
<1> QED
  BY <1>2, <1>4, <1>7 DEF once, x

\* The codes that are kept are those that are not invalid, and with them their
\* parents are kept: the nodes can be written (wbs_by_code has every parent).
LEMMA KeptCodesAreValid ==
    ASSUME NoneIsNoFunction, NEW e, NEW n \in Nat, DOMAIN e.rows_by_domain["wbs"] = 1..n,
           NEW m, Maps(e, m)
    PROVE  LET once == FirstOfEachCode(WBSRows(e))
           IN  /\ KeptCodes(m) = (DOMAIN Parents(once)) \ InvalidCodes(once)
               /\ ParentsAreKept(m)
<1> DEFINE once == FirstOfEachCode(WBSRows(e))
           final == MappedRows(e, "wbs")
           P == Parents(once)
           invalid == InvalidCodes(once)
           kept == (DOMAIN P) \ invalid
           Code(i) == once[i].record["wbs_code"]
<1>1. /\ DOMAIN WBSRows(e) = 1..n /\ AreRows(WBSRows(e))
      /\ DOMAIN once = 1..n /\ DOMAIN final = 1..n
      /\ \A i \in 1..n :
            IF once[i].record = None \/ Code(i) \notin invalid THEN final[i] = once[i]
            ELSE final[i].record = None
  BY ValidatedRows
<1>2. \A i, j \in 1..n : once[i].record # None /\ once[j].record # None /\ Code(i) = Code(j)
          => i = j
  BY <1>1, OnceRows
<1>3. \A i \in 1..n : once[i].record # None =>
          Code(i) \in DOMAIN P /\ P[Code(i)] = once[i].record["parent_wbs"]
  BY <1>1, <1>2, ParentOfRow
<1>4. DOMAIN P = {Code(i) : i \in {j \in 1..n : once[j].record # None}}
  BY <1>1, CodesAreFinite
<1>5. None \notin DOMAIN P
  BY CodesAreText
<1>6. Grounded(P, kept)
  BY <1>1, <1>5, KeptCodesAreForest
<1>7. Canonical(m, "wbs") = {final[i] : i \in Kept(e, "wbs")}
  BY CanonicalRows DEF Domains
<1>8. Kept(e, "wbs") = {i \in 1..n : once[i].record # None /\ Code(i) \notin invalid}
      /\ \A i \in Kept(e, "wbs") : final[i] = once[i]
  <2> HIDE DEF once, invalid, Code
  <2> QED
    BY <1>1 DEF Kept
<1> HIDE DEF once, final, P, invalid
<1>9. KeptCodes(m) = {final[i].record.wbs_code : i \in Kept(e, "wbs")}
  BY <1>7 DEF KeptCodes
<1>10. KeptCodes(m) = {Code(i) : i \in Kept(e, "wbs")}
  BY <1>8, <1>9
<1>11. KeptCodes(m) = kept
  BY <1>4, <1>8, <1>10
<1>12. ASSUME NEW i \in Kept(e, "wbs"), final[i].record.parent_wbs # None
       PROVE  final[i].record.parent_wbs \in KeptCodes(m)
  <2>1. final[i] = once[i] /\ Code(i) \in kept /\ once[i].record # None /\ i \in 1..n
    BY <1>8, <1>10, <1>11
  <2>2. P[Code(i)] = once[i].record.parent_wbs
    BY <1>3, <2>1
  <2>3. P[Code(i)] \in kept \union {None}
    BY <1>6, <2>1 DEF Grounded
  <2> QED
    BY <1>11, <1>12, <2>1, <2>2, <2>3
<1>13. ParentsAreKept(m)
  BY <1>7, <1>12 DEF ParentsAreKept
<1> QED
  BY <1>11, <1>13 DEF once, P, invalid

\* A row is called cyclic exactly when its code is on a cycle.
LEMMA CyclicRows ==
    ASSUME NoneIsNoFunction, NEW e, NEW n \in Nat, DOMAIN e.rows_by_domain["wbs"] = 1..n,
           NEW i \in 1..n
    PROVE  LET once == FirstOfEachCode(WBSRows(e))
           IN  Error("cyclic_wbs_parent", "parent_wbs") \in MappedRows(e, "wbs")[i].issues
                 <=> once[i].record # None /\ once[i].record["wbs_code"] \in CycleCodes(once)
<1> DEFINE all == WBSRows(e)
           once == FirstOfEachCode(all)
           final == MappedRows(e, "wbs")
           code == once[i].record["wbs_code"]
           called == Error("cyclic_wbs_parent", "parent_wbs")
           repeated == Error("duplicate_wbs_code", "wbs_code")
<1>1. /\ DOMAIN all = 1..n /\ AreRows(all) /\ DOMAIN once = 1..n
      /\ IF once[i].record = None \/ code \notin InvalidCodes(once) THEN final[i] = once[i]
         ELSE final[i].issues = once[i].issues \union {WBSIssue(e, code)}
  BY ValidatedRows
<1>2. \/ once[i] = all[i] \/ (once[i].record = None /\ once[i] = Reject(all[i], repeated))
  BY <1>1, OnceRows
<1>3. once[i].record # None => once[i] = all[i]
  BY <1>1, OnceRows
<1>4. all[i] = _map_row("wbs", e.rows_by_domain["wbs"][i])
  BY <1>1 DEF WBSRows
<1>5. called.code = "cyclic_wbs_parent" /\ repeated.code = "duplicate_wbs_code"
  BY DEF Error
<1>6. called \notin all[i].issues
  BY <1>4, <1>5, NoCycleYet
<1>7. called \notin once[i].issues
  <2>1. Reject(all[i], repeated).issues = all[i].issues \union {repeated}
    BY <1>1 DEF AreRows, Reject
  <2> QED
    BY <1>2, <1>5, <1>6, <2>1
<1>8. CycleCodes(once) \subseteq InvalidCodes(once)
  BY <1>1, CodesAreText, SpreadEnds
<1>9. WBSIssue(e, code) = called <=> code \in CycleCodes(once)
  <2>1. Error("invalid_wbs_parent", "parent_wbs").code = "invalid_wbs_parent"
    BY DEF Error
  <2> HIDE DEF code
  <2> QED
    BY <1>5, <2>1 DEF WBSIssue
<1> HIDE DEF once, final, called, code
<1> QED
  BY <1>1, <1>7, <1>8, <1>9 DEF once, final, called, code

\* The rows of the sheet, as they are extracted, are numbered.
LEMMA ExtractedCount ==
    ASSUME NEW b, IsRead(b), NEW d \in Domains
    PROVE  \E n \in Nat : DOMAIN extract_workbook(b).rows_by_domain[d] = 1..n
<1>1. CASE b.sheets[d] = None
  <2>1. extract_workbook(b).rows_by_domain[d] = <<>> /\ DOMAIN <<>> = 1..0
    BY <1>1 DEF extract_workbook
  <2> QED
    BY <2>1
<1>2. CASE b.sheets[d] # None
  <2> DEFINE filled == FilledRows(b.sheets[d])
  <2>1. PICK N \in Nat : filled \in SUBSET (1..N)
    BY <1>2 DEF IsRead, IsNumbered, FilledRows
  <2>2. DOMAIN extract_workbook(b).rows_by_domain[d] = DOMAIN Ascending(filled)
    BY <1>2 DEF extract_workbook, ExtractedRows
  <2> HIDE DEF filled
  <2>3. DOMAIN Ascending(filled) = 1..Cardinality(filled)
    BY <2>1, AscendingLists
  <2>4. Cardinality(filled) \in Nat
    <3>1. IsFiniteSet(1..N)
      BY FinitePositions
    <3>2. IsFiniteSet(filled)
      BY <2>1, <3>1, FS_Subset
    <3> QED
      BY <3>2, FS_CardinalityType
  <2> QED
    BY <2>2, <2>3, <2>4
<1> QED
  BY <1>1, <1>2

-----------------------------------------------------------------------------
(* The hierarchy is a forest.                                                 *)

\* A mapped workbook was extracted of one that can be read, and its nodes can
\* be written.
HierarchyInv ==
    /\ mapped # None => IsRead(book) /\ extracted = extract_workbook(book) /\ Maps(extracted, mapped)
    /\ error # "internal_error"

\* An upload maps what it extracted, and is not given up for a missing parent.
LEMMA IngestHierarchy ==
    ASSUME NoneIsNoFunction, NEW b, IsRead(b), ingest(b)
    PROVE  HierarchyInv'
<1> DEFINE e == extract_workbook(b)
           m == Adopted(map_extracted_workbook(e), e.project_values, Text(ProjectCode))
<1>1. /\ book' = b /\ extracted' = e /\ mapped' = m
      /\ \E othersFit \in BOOLEAN : error' = Refusal(e, m, othersFit)
  BY DEF ingest
<1>2. Maps(e, m)
  BY AdoptedRows DEF Maps
<1>3. ParentsAreKept(m)
  <2> HIDE DEF m
  <2>1. PICK n \in Nat : DOMAIN e.rows_by_domain["wbs"] = 1..n
    BY ExtractedCount DEF Domains
  <2> HIDE DEF e
  <2> QED
    BY <1>2, <2>1, KeptCodesAreValid
<1> HIDE DEF e, m
<1>4. \A othersFit : Refusal(e, m, othersFit) # "internal_error"
  BY <1>3, NoneAssumption DEF Refusal
<1> QED
  BY <1>1, <1>2, <1>4 DEF HierarchyInv, e

\* It stays so.
LEMMA HierarchyInvStays ==
    ASSUME NoneIsNoFunction
    PROVE  HierarchyInv /\ [Next]_vars => HierarchyInv'
<1> SUFFICES ASSUME HierarchyInv, [Next]_vars
             PROVE  HierarchyInv'
  OBVIOUS
<1>1. ASSUME NEW b \in Workbooks, UploadWorkbook(b)
      PROVE  HierarchyInv'
  BY <1>1, UploadIsRead, IngestHierarchy DEF UploadWorkbook
<1>2. ASSUME NEW s \in Sheets, NEW preset, ImportSchedule(s, preset)
      PROVE  HierarchyInv'
  <2>1. CASE UNCHANGED <<book, extracted, mapped>> /\ error' = "validated_import_blocked"
    BY <2>1 DEF HierarchyInv
  <2>2. CASE ingest(build_schedule_workbook(s, preset, ProjectCode, Today))
    BY <2>2, BuiltIsRead, IngestHierarchy
  <2> QED
    BY <1>2, <2>1, <2>2 DEF ImportSchedule
<1>3. ASSUME NEW runtime \in BOOLEAN, run_snapshot(runtime)
      PROVE  HierarchyInv'
  <2>1. UNCHANGED <<book, extracted, mapped>> /\ error' \in {None, "analysis_failed"}
    BY <1>3 DEF run_snapshot
  <2> QED
    BY <2>1, NoneAssumption DEF HierarchyInv
<1>4. CASE UNCHANGED vars
  BY <1>4 DEF vars, HierarchyInv
<1> QED
  BY <1>1, <1>2, <1>3, <1>4 DEF Next

\* What was mapped keeps the forest of its sheet.
LEMMA HierarchyInvIsForest ==
    ASSUME NoneIsNoFunction
    PROVE  HierarchyInv => HierarchyIsForest
<1> SUFFICES ASSUME HierarchyInv, mapped # None
             PROVE  HierarchyIsForest
  BY DEF HierarchyIsForest, HierarchyInv
<1> DEFINE e == extracted
           rows == e.rows_by_domain["wbs"]
           once == FirstOfEachCode(WBSRows(e))
           P == Parents(once)
           final == MappedRows(e, "wbs")
           Cyclic(i) == Error("cyclic_wbs_parent", "parent_wbs") \in final[i].issues
           called == {rows[i].values[<<"wbs_code">>] : i \in {j \in DOMAIN final : Cyclic(j)}}
<1>1. PICK n \in Nat : DOMAIN rows = 1..n
  BY ExtractedCount DEF HierarchyInv, Domains
<1>2. Maps(e, mapped) /\ mapped.rows_by_domain["wbs"] = final
  BY DEF HierarchyInv, Maps, Domains
<1>3. StatedParents = P
  BY DEF StatedParents, WBSRows
<1>4. DOMAIN once = 1..n /\ DOMAIN final = 1..n
  BY <1>1, ValidatedRows
<1>5. None \notin DOMAIN P
  BY <1>1, CodesAreText
<1>6. KeptCodes(mapped) = UNION {s \in SUBSET DOMAIN P : Grounded(P, s)}
  <2>1. KeptCodes(mapped) = (DOMAIN P) \ InvalidCodes(once)
    BY <1>1, <1>2, KeptCodesAreValid
  <2>2. (DOMAIN P) \ InvalidCodes(once) = UNION {s \in SUBSET DOMAIN P : Grounded(P, s)}
    BY <1>4, <1>5, KeptCodesAreForest
  <2> QED
    BY <2>1, <2>2
<1>7. \A i \in 1..n : once[i].record # None =>
         once[i].record["wbs_code"] = Text(rows[i].values[<<"wbs_code">>])
  BY <1>1, CodesAreText
<1>8. \A i \in 1..n : Cyclic(i) <=> once[i].record # None
                                      /\ once[i].record["wbs_code"] \in CycleCodes(once)
  BY <1>1, CyclicRows
<1>9. CycleCodes(once) = {c \in DOMAIN P : OnLoop(P, c)}
  BY <1>4, CyclesAreLoops
<1>10. DOMAIN P = {once[i].record["wbs_code"] : i \in {j \in 1..n : once[j].record # None}}
  BY <1>4, CodesAreFinite
<1> HIDE DEF once, P, final, Cyclic, rows
<1>11. {Text(c) : c \in called} = CycleCodes(once)
  <2>1. ASSUME NEW c \in called
        PROVE  Text(c) \in CycleCodes(once)
    <3>1. PICK i \in 1..n : Cyclic(i) /\ c = rows[i].values[<<"wbs_code">>]
      BY <1>4
    <3> QED
      BY <1>7, <1>8, <3>1
  <2>2. ASSUME NEW k \in CycleCodes(once)
        PROVE  \E c \in called : k = Text(c)
    <3>1. PICK i \in 1..n : once[i].record # None /\ k = once[i].record["wbs_code"]
      BY <1>9, <1>10
    <3>2. Cyclic(i) /\ k = Text(rows[i].values[<<"wbs_code">>])
      BY <1>7, <1>8, <3>1
    <3>3. rows[i].values[<<"wbs_code">>] \in called
      BY <1>4, <3>2
    <3> QED
      BY <3>2, <3>3
  <2> HIDE DEF called
  <2> QED
    BY <2>1, <2>2
<1>12. {Text(c) : c \in called} = {c \in DOMAIN P :
            \E loop \in SUBSET DOMAIN P : c \in loop /\ {P[p] : p \in loop} = loop}
  BY <1>9, <1>11 DEF OnLoop
<1>13. called = {extracted.rows_by_domain["wbs"][i].values[<<"wbs_code">>] :
                   i \in {j \in DOMAIN mapped.rows_by_domain["wbs"] :
                       Error("cyclic_wbs_parent", "parent_wbs")
                           \in mapped.rows_by_domain["wbs"][j].issues}}
  BY <1>2 DEF rows, Cyclic
<1>14. error # "internal_error"
  BY DEF HierarchyInv
<1> HIDE DEF called
<1> QED
  BY <1>3, <1>6, <1>12, <1>13, <1>14, SMTT(40) DEF HierarchyIsForest

\* Whatever the WBS sheet states, of its codes the largest set that is closed
\* under parents and has no cycle is kept, a rejected row is called cyclic
\* exactly if its code is its own ancestor, and no node is written before its
\* parent is known: the upload is never given up for a KeyError
\* (validate_wbs_hierarchy, _validate_wbs_rows, persist_canonical_rows).
THEOREM HierarchyIsAForest ==
    ASSUME NoneIsNoFunction
    PROVE  Spec => []HierarchyIsForest
<1>1. Init => HierarchyInv
  BY NoneAssumption DEF Init, Nothing, HierarchyInv
<1>2. HierarchyInv /\ [Next]_vars => HierarchyInv'
  BY HierarchyInvStays
<1>3. HierarchyInv => HierarchyIsForest
  BY HierarchyInvIsForest
<1> QED
  BY <1>1, <1>2, <1>3, PTL DEF Spec

-----------------------------------------------------------------------------
(* What the preflight lets pass.                                              *)

\* The cells of a row of an export, by their fields.
CellsAt(sheet, preset, i) == _cells(_read_rows(sheet)[i], Mapping(sheet, preset))

PopulatedAt(sheet) == {i \in DOMAIN _read_rows(sheet) : Populated(_read_rows(sheet)[i])}

\* A progress that is no share.
OutOfRange(n) == n # None /\ n \notin 0..10000

\* A row that the preflight lets pass: it has an id and a baseline, its
\* progress is a share and the finish is not before the start.
RowPasses(cell) ==
    /\ Filled(cell.activity_id)
    /\ _as_date(cell.baseline_start) # None /\ _as_date(cell.baseline_finish) # None
    /\ ~Backwards(_as_date(cell.baseline_start), _as_date(cell.baseline_finish))
    /\ ~OutOfRange(_as_number(cell.progress))

\* One whose id is no formula keeps its id.
RowKeepsId(cell) == RowPasses(cell) /\ cell.activity_id.t # "formula"

\* Without errors among the issues the condition of none of them holds.
LEMMA NoError ==
    ASSUME NEW issues, \A x \in issues : x.severity # "error",
           NEW holds \in BOOLEAN, NEW row, NEW code, NEW about,
           Issue(holds, row, "error", code, about) \subseteq issues
    PROVE  ~holds
BY DEF Issue

\* The issues of a required field, of the dates and of the numbers are what
\* they are made of.
LEMMA RowIssuesThere ==
    ASSUME NEW i, NEW cell
    PROVE  LET start == _as_date(cell.baseline_start)
               finish == _as_date(cell.baseline_finish)
               progress == _as_number(cell.progress)
           IN  /\ Issue(cell.baseline_start.t # "none" /\ start = None, i, "error",
                        "invalid_date", "baseline_start") \subseteq DateIssues(i, cell)
               /\ Issue(cell.baseline_finish.t # "none" /\ finish = None, i, "error",
                        "invalid_date", "baseline_finish") \subseteq DateIssues(i, cell)
               /\ Issue(Backwards(start, finish), i, "error", "baseline_finish_before_start",
                        "baseline_finish") \subseteq DateIssues(i, cell)
               /\ Issue(OutOfRange(progress), i, "error",
                        "progress_out_of_range", "progress") \subseteq NumberIssues(i, cell)
<1>1. /\ Issue(cell.baseline_start.t # "none" /\ _as_date(cell.baseline_start) = None, i,
               "error", "invalid_date", "baseline_start") \subseteq DateIssues(i, cell)
      /\ Issue(cell.baseline_finish.t # "none" /\ _as_date(cell.baseline_finish) = None, i,
               "error", "invalid_date", "baseline_finish") \subseteq DateIssues(i, cell)
      /\ Issue(Backwards(_as_date(cell.baseline_start), _as_date(cell.baseline_finish)), i,
               "error", "baseline_finish_before_start", "baseline_finish")
            \subseteq DateIssues(i, cell)
  BY Zenon DEF DateIssues
<1>2. Issue(OutOfRange(_as_number(cell.progress)), i,
            "error", "progress_out_of_range", "progress") \subseteq NumberIssues(i, cell)
  BY Zenon DEF NumberIssues, OutOfRange
<1> QED
  BY <1>1, <1>2

\* What the preflight lets pass (validate_workbook_bytes).
LEMMA PassedRows ==
    ASSUME NEW sheet, NEW preset, validate_workbook_bytes(sheet, preset).can_import
    PROVE  /\ PopulatedAt(sheet) # {}
           /\ \A i \in PopulatedAt(sheet) : RowPasses(CellsAt(sheet, preset, i))
<1> DEFINE rows == _read_rows(sheet)
           mapping == Mapping(sheet, preset)
           populated == {i \in DOMAIN rows : Populated(rows[i])}
           Id(i) == IdText(_cell(rows[i], mapping, "activity_id"))
           ids == {_text(_cell(rows[i], mapping, "activity_id")) : i \in populated} \ {Blank}
           RowIssues(i) ==
               LET cell == _cells(rows[i], mapping)
               IN  (UNION {Issue(Missing(cell, f), i, "error", "required_value_missing", f) :
                             f \in Required})
                   \union Issue(Id(i) # Blank /\ \E j \in populated : j < i /\ Id(j) = Id(i),
                                i, "error", "duplicate_activity_id", "activity_id")
                   \union DateIssues(i, cell) \union NumberIssues(i, cell)
                   \union LinkIssues(i, cell, ids) \union OtherIssues(i, cell)
           issues == (UNION {Issue(mapping[f] = 0, 0, "error", "missing_required_column", f) :
                               f \in Required}) \union UNION {RowIssues(i) : i \in populated}
<1>1. /\ populated # {}
      /\ \A x \in issues : x.severity # "error"
  BY DEF validate_workbook_bytes
<1>2. ASSUME NEW i \in populated
      PROVE  RowPasses(CellsAt(sheet, preset, i))
  <2> DEFINE cell == CellsAt(sheet, preset, i)
  <2>1. \A x \in RowIssues(i) : x.severity # "error"
    BY <1>1
  <2>2. \A f \in Required :
           Issue(Missing(cell, f), i, "error", "required_value_missing", f) \subseteq RowIssues(i)
    BY DEF CellsAt
  <2>3. DateIssues(i, cell) \subseteq RowIssues(i) /\ NumberIssues(i, cell) \subseteq RowIssues(i)
    BY DEF CellsAt
  <2> HIDE DEF RowIssues, cell
  <2>4. \A f \in Required : ~Missing(cell, f)
    <3>1. SUFFICES ASSUME NEW f \in Required PROVE ~Missing(cell, f)
      OBVIOUS
    <3>2. Missing(cell, f) \in BOOLEAN
      BY DEF Missing
    <3> QED
      BY <2>1, <2>2, <3>2, NoError
  <2>5. /\ Filled(cell.activity_id)
        /\ cell.baseline_start.t # "none" /\ cell.baseline_finish.t # "none"
    <3>1. IdText(cell.activity_id) # Blank
      BY <2>4 DEF Missing, Required
    <3>2. \A c : ~Filled(c) => IdText(c) = Blank
      BY DEF IdText, _text, Filled
    <3>3. cell.baseline_start.t # "none" /\ cell.baseline_finish.t # "none"
      BY <2>4 DEF Missing, Required
    <3> QED
      BY <3>1, <3>2, <3>3
  <2> DEFINE start == _as_date(cell.baseline_start)
             finish == _as_date(cell.baseline_finish)
             progress == _as_number(cell.progress)
  <2>6. ~(cell.baseline_start.t # "none" /\ start = None)
    <3>1. Issue(cell.baseline_start.t # "none" /\ start = None, i, "error", "invalid_date",
                "baseline_start") \subseteq RowIssues(i)
      BY <2>3, RowIssuesThere
    <3> QED
      BY <2>1, <3>1, NoError
  <2>7. ~(cell.baseline_finish.t # "none" /\ finish = None)
    <3>1. Issue(cell.baseline_finish.t # "none" /\ finish = None, i, "error", "invalid_date",
                "baseline_finish") \subseteq RowIssues(i)
      BY <2>3, RowIssuesThere
    <3> QED
      BY <2>1, <3>1, NoError
  <2>8. ~Backwards(start, finish)
    <3>1. Issue(Backwards(start, finish), i, "error", "baseline_finish_before_start",
                "baseline_finish") \subseteq RowIssues(i)
      BY <2>3, RowIssuesThere
    <3>2. Backwards(start, finish) \in BOOLEAN
      BY DEF Backwards
    <3> QED
      BY <2>1, <3>1, <3>2, NoError
  <2>9. ~OutOfRange(progress)
    <3>1. Issue(OutOfRange(progress), i, "error", "progress_out_of_range", "progress")
             \subseteq RowIssues(i)
      BY <2>3, RowIssuesThere
    <3>2. OutOfRange(progress) \in BOOLEAN
      BY DEF OutOfRange
    <3> QED
      BY <2>1, <3>1, <3>2, NoError
  <2>10. RowPasses(cell)
    BY <2>5, <2>6, <2>7, <2>8, <2>9 DEF RowPasses
  <2> QED
    BY <2>10 DEF cell
<1> HIDE DEF issues
<1> QED
  BY <1>1, <1>2 DEF PopulatedAt

-----------------------------------------------------------------------------
(* The rows and the nodes of an export.                                       *)

\* The rows that the build keeps.
CompleteAt(sheet, preset) ==
    {i \in DOMAIN _read_rows(sheet) :
        /\ Populated(_read_rows(sheet)[i])
        /\ Filled(CellsAt(sheet, preset, i).activity_id)
        /\ Filled(CellsAt(sheet, preset, i).activity_name)
        /\ _as_date(CellsAt(sheet, preset, i).baseline_start) # None
        /\ _as_date(CellsAt(sheet, preset, i).baseline_finish) # None}

\* The codes of the nodes that it adds.
NodesOf(sheet, preset) ==
    UNION {CodesUpTo(_text(CellsAt(sheet, preset, i).wbs)) : i \in CompleteAt(sheet, preset)}

\* The rows of an export that follow its header are numbered, and their cells
\* are among those of the sheet.
LEMMA ReadRows ==
    ASSUME NEW sheet \in Sheets
    PROVE  /\ \E N \in Nat : DOMAIN _read_rows(sheet) = 1..N
           /\ \A i \in DOMAIN _read_rows(sheet) :
                /\ _read_rows(sheet)[i] \in Seq(Cells)
                /\ _read_rows(sheet)[i] \in Range(sheet.rows)
<1> DEFINE rows == sheet.rows
           h == HeaderRow(sheet)
           N == Len(rows)
<1>1. rows \in Seq(Seq(Cells)) /\ rows # <<>>
  BY SheetsAssumption
<1>2. h \in 1..N
  BY <1>1, HeaderExists
<1>3. _read_rows(sheet) = SubSeq(rows, h + 1, N)
  BY DEF _read_rows
<1> HIDE DEF h, rows
<1>4. N \in Nat /\ N - h \in Nat
  BY <1>1, <1>2
<1>5. /\ DOMAIN SubSeq(rows, h + 1, N) = 1..(N - h)
      /\ \A i \in 1..(N - h) : SubSeq(rows, h + 1, N)[i] = rows[h + i]
  BY <1>1, <1>2, <1>4
<1>6. ASSUME NEW i \in 1..(N - h)
      PROVE  _read_rows(sheet)[i] \in Seq(Cells) /\ _read_rows(sheet)[i] \in Range(rows)
  <2>1. h + i \in 1..N
    BY <1>2, <1>4
  <2>2. rows[h + i] \in Seq(Cells) /\ rows[h + i] \in Range(rows)
    BY <1>1, <2>1 DEF Range
  <2> QED
    BY <1>3, <1>5, <2>2
<1> QED
  BY <1>3, <1>4, <1>5, <1>6 DEF rows

\* A cell that may be missing.
IsCell(c) == c = [t |-> c.t, n |-> c.n] /\ c.n \in Int

\* Each field of a row has a cell, and a code in it is within its bounds.
LEMMA CellsOfRow ==
    ASSUME NEW sheet \in Sheets, NEW preset, NEW i \in DOMAIN _read_rows(sheet)
    PROVE  /\ DOMAIN CellsAt(sheet, preset, i) = DOMAIN Aliases(preset)
           /\ \A f \in DOMAIN Aliases(preset) :
                /\ IsCell(CellsAt(sheet, preset, i)[f])
                /\ CellsAt(sheet, preset, i)[f].t \in {"outline", "gapped"} =>
                      CellsAt(sheet, preset, i)[f].n \in 1..999
<1> DEFINE row == _read_rows(sheet)[i]
           mapping == Mapping(sheet, preset)
<1>1. row \in Seq(Cells) /\ row \in Range(sheet.rows)
  BY ReadRows
<1>2. DOMAIN mapping = DOMAIN Aliases(preset)
  BY DEF Mapping
<1>3. /\ DOMAIN CellsAt(sheet, preset, i) = DOMAIN mapping
      /\ \A f \in DOMAIN mapping : CellsAt(sheet, preset, i)[f] = _cell(row, mapping, f)
  BY DEF CellsAt, _cells
<1> HIDE DEF row, mapping
<1>4. IsCell(Blank) /\ Blank.t \notin {"outline", "gapped"}
  BY DEF Blank, IsCell
<1>5. ASSUME NEW f \in DOMAIN mapping
      PROVE  /\ IsCell(_cell(row, mapping, f))
             /\ _cell(row, mapping, f).t \in {"outline", "gapped"} =>
                   _cell(row, mapping, f).n \in 1..999
  <2>1. CASE mapping[f] \in DOMAIN row
    <3>1. _cell(row, mapping, f) = row[mapping[f]] /\ row[mapping[f]] \in Range(row)
      BY <2>1 DEF _cell, Range
    <3>2. row[mapping[f]] \in Cells
      BY <1>1, <2>1
    <3>3. IsCell(row[mapping[f]])
      BY <3>2 DEF Cells, IsCell
    <3>4. row[mapping[f]].t \in {"outline", "gapped"} => row[mapping[f]].n \in 1..999
      BY <1>1, <3>1, CodesAssumption, Zenon
    <3> QED
      BY <3>1, <3>3, <3>4
  <2>2. CASE mapping[f] \notin DOMAIN row
    BY <1>4, <2>2 DEF _cell
  <2> QED
    BY <2>1, <2>2
<1> QED
  BY <1>2, <1>3, <1>5

\* With a code its ancestors are there.
LEMMA NodesAreClosed ==
    ASSUME NEW sheet \in Sheets, NEW preset \in {"msproject", "standard"}
    PROVE  /\ NodesOf(sheet, preset) \in SUBSET (1..999)
           /\ \A n \in NodesOf(sheet, preset) : n >= 10 => n \div 10 \in NodesOf(sheet, preset)
<1>1. "wbs" \in DOMAIN Aliases(preset)
  BY DEF Aliases, MS_PROJECT_ALIASES, STANDARD_ALIASES
<1>2. ASSUME NEW i \in CompleteAt(sheet, preset),
             NEW n \in CodesUpTo(_text(CellsAt(sheet, preset, i).wbs))
      PROVE  /\ n \in 1..999
             /\ n >= 10 => n \div 10 \in CodesUpTo(_text(CellsAt(sheet, preset, i).wbs))
  <2> DEFINE c == CellsAt(sheet, preset, i).wbs
  <2>1. IsCell(c) /\ (c.t \in {"outline", "gapped"} => c.n \in 1..999)
    BY <1>1, CellsOfRow DEF CompleteAt
  <2> HIDE DEF c
  <2>2. /\ _text(c).t \in {"outline", "gapped"} /\ n > 0
        /\ n \in {_text(c).n, _text(c).n \div 10, _text(c).n \div 100}
    BY <1>2 DEF CodesUpTo, c
  <2>3. _text(c) = c
    BY <2>1, <2>2 DEF _text, Blank, Filled
  <2> DEFINE m == c.n
  <2>4. m \in 1..999 /\ c.t \in {"outline", "gapped"}
    BY <2>1, <2>2, <2>3
  <2>5. CodesUpTo(c) = {p \in {m, m \div 10, m \div 100} : p > 0}
    BY <2>4 DEF CodesUpTo
  <2>6. n \in {m, m \div 10, m \div 100}
    BY <2>2, <2>3
  <2> HIDE DEF m
  <2>7. n \in 1..999 /\ (n >= 10 => n \div 10 \in {m \div 10, m \div 100} /\ n \div 10 > 0)
    <3>1. CASE n = m
      BY <2>4, <3>1
    <3>2. CASE n = m \div 10
      BY <2>2, <2>4, <3>2
    <3>3. CASE n = m \div 100
      BY <2>2, <2>4, <3>3
    <3> QED
      BY <2>6, <3>1, <3>2, <3>3
  <2> QED
    BY <2>3, <2>5, <2>7 DEF c
<1>3. ASSUME NEW n \in NodesOf(sheet, preset)
      PROVE  n \in 1..999 /\ (n >= 10 => n \div 10 \in NodesOf(sheet, preset))
  <2>1. PICK i \in CompleteAt(sheet, preset) : n \in CodesUpTo(_text(CellsAt(sheet, preset, i).wbs))
    BY DEF NodesOf
  <2>2. CodesUpTo(_text(CellsAt(sheet, preset, i).wbs)) \subseteq NodesOf(sheet, preset)
    BY DEF NodesOf
  <2> QED
    BY <1>2, <2>1, <2>2
<1> QED
  BY <1>3, ZenonT(60)

-----------------------------------------------------------------------------
(* The lines of the workbook that is built.                                   *)

\* What a scalar is read as, where it can be read (_normalize_scalar).
LEMMA ScalarsRead ==
    ASSUME NEW c, NEW column
    PROVE  LET r == _normalize_scalar(c, column)
           IN  /\ column.scalar = "string" /\ Filled(c) =>
                     r.value = Text(c) /\ Errors(r.issues) = {}
               /\ ~column.required /\ ~Filled(c) => r.value = None /\ Errors(r.issues) = {}
               /\ column.scalar = "date" /\ c.t = "iso" =>
                     r.value = c.n /\ Errors(r.issues) = {}
               /\ column.scalar = "decimal" /\ c.t = "number" =>
                     r.value = c.n /\ Errors(r.issues) = {}
               /\ column.scalar = "integer" /\ c.t = "number" /\ c.n % 100 = 0 =>
                     r.value = c.n \div 100 /\ Errors(r.issues) = {}
               /\ column.scalar = "boolean" /\ c.t = "bool" => Errors(r.issues) = {}
<1> DEFINE r == _normalize_scalar(c, column)
<1>1. ASSUME NEW v, NEW code, NEW field
      PROVE  /\ Value(v).value = v /\ Errors(Value(v).issues) = {}
             /\ Warned(v, code, field).value = v /\ Errors(Warned(v, code, field).issues) = {}
  BY DEF Value, Warned, Warning, Errors
<1>2. column.scalar = "string" /\ Filled(c) => r = String(c, column)
  BY DEF _normalize_scalar, Filled
<1>3. String(c, column).value = Text(c) /\ Errors(String(c, column).issues) = {}
  <2>1. \/ String(c, column) = Value(Text(c))
        \/ \E code, field : String(c, column) = Warned(Text(c), code, field)
    BY DEF String
  <2> QED
    BY <1>1, <2>1
<1>4. ~column.required /\ ~Filled(c) => r = Value(None)
  BY DEF _normalize_scalar, Filled
<1>5. column.scalar = "date" /\ c.t = "iso" => r = Value(c.n)
  BY DEF _normalize_scalar, _date
<1>6. column.scalar = "decimal" /\ c.t = "number" => r = Value(c.n)
  BY DEF _normalize_scalar, _decimal
<1>7. column.scalar = "integer" /\ c.t = "number" /\ c.n % 100 = 0 => r = Value(c.n \div 100)
  BY DEF _normalize_scalar, Integer
<1>8. column.scalar = "boolean" /\ c.t = "bool" => r = Value(c.n # 0)
  BY DEF _normalize_scalar, Boolean
<1> HIDE DEF r
<1>9. /\ column.scalar = "string" /\ Filled(c) => r.value = Text(c) /\ Errors(r.issues) = {}
      /\ ~column.required /\ ~Filled(c) => r.value = None /\ Errors(r.issues) = {}
      /\ column.scalar = "date" /\ c.t = "iso" => r.value = c.n /\ Errors(r.issues) = {}
      /\ column.scalar = "decimal" /\ c.t = "number" => r.value = c.n /\ Errors(r.issues) = {}
      /\ column.scalar = "integer" /\ c.t = "number" /\ c.n % 100 = 0 =>
            r.value = c.n \div 100 /\ Errors(r.issues) = {}
      /\ column.scalar = "boolean" /\ c.t = "bool" => Errors(r.issues) = {}
  BY <1>1, <1>2, <1>3, <1>4, <1>5, <1>6, <1>7, <1>8
<1> QED
  BY <1>9 DEF r

\* A row that has the cells of the line under the headers of its columns.
HasLine(x, headers, line) ==
    \A p \in DOMAIN headers : /\ headers[p] \in DOMAIN x.values
                              /\ x.values[headers[p]] = _json_safe(line[p])

\* The whole numbers, in hundredths.
Whole(n) == n % 100 = 0

\* What the cells of a line are after the extraction (ActivityLine).
LEMMA LineCells ==
    ASSUME NEW cell, RowKeepsId(cell), \A f \in DOMAIN STANDARD_ALIASES : IsCell(cell[f])
    PROVE  LET J(p) == _json_safe(ActivityLine(cell)[p])
           IN  /\ Filled(J(1)) /\ Text(J(1)) = Text(_text(cell.activity_id))
               /\ J(3).t = "iso" /\ J(3).n = _as_date(cell.baseline_start)
               /\ J(4).t = "iso" /\ J(4).n = _as_date(cell.baseline_finish)
               /\ \A p \in {5, 6} : ~Filled(J(p)) \/ J(p).t = "iso"
               /\ \A p \in {7, 8} : J(p).t = "number"
               /\ J(9).t = "number" /\ Whole(J(9).n)
               /\ J(10).t = "bool"
               /\ Filled(J(11))
<1> DEFINE line == ActivityLine(cell)
           J(p) == _json_safe(line[p])
           days == RoundedDays(NumberOrZero(cell.total_float))
           progress == NumberOrZero(cell.progress)
<1>1. /\ IsCell(cell.activity_id) /\ IsCell(cell.baseline_start) /\ IsCell(cell.baseline_finish)
      /\ IsCell(cell.start) /\ IsCell(cell.finish) /\ IsCell(cell.progress)
      /\ IsCell(cell.total_float)
  BY DEF STANDARD_ALIASES
<1>2. progress \in 0..10000
  BY DEF RowKeepsId, RowPasses, OutOfRange, NumberOrZero
<1>3. days \in Int
  <2>1. NumberOrZero(cell.total_float) \in Int
    <3> DEFINE c == cell.total_float
    <3>1. c.n \in Int
      BY <1>1 DEF IsCell
    <3> HIDE DEF c
    <3>2. FirstPart(c.n) \in Int /\ SecondPart(c.n) \in Int /\ Year(c.n) \in Int
      BY <3>1 DEF FirstPart, SecondPart, Year
    <3>3. _as_number(c) # None => _as_number(c) \in Int
      BY <3>1, <3>2 DEF _as_number
    <3> QED
      BY <3>3 DEF NumberOrZero, c
  <2> QED
    BY <2>1 DEF RoundedDays
<1>4. /\ line[1] = AsWritten(_text(cell.activity_id))
      /\ line[3] = IsoOrBlank(cell.baseline_start) /\ line[4] = IsoOrBlank(cell.baseline_finish)
      /\ line[5] = IsoOrBlank(cell.start) /\ line[6] = IsoOrBlank(cell.finish)
      /\ line[7] = Number(progress) /\ line[8] = Number(progress)
      /\ line[9] = Number(100 * days)
      /\ line[10] = [t |-> "bool", n |-> IF days <= 0 THEN 1 ELSE 0]
      /\ line[11] = Known("text", IF progress >= 10000 THEN 901 ELSE 902)
  BY DEF ActivityLine
<1> HIDE DEF line, days, progress
<1>5. Filled(J(1)) /\ Text(J(1)) = Text(_text(cell.activity_id))
  <2> DEFINE c == cell.activity_id
  <2>1. Filled(c) /\ IsCell(c) /\ c.t # "formula"
    BY <1>1 DEF RowPasses, RowKeepsId
  <2> HIDE DEF c
  <2>2. Filled(_text(c)) /\ _text(c).t \notin {"date", "formula"}
    BY <2>1 DEF _text, Filled, IsCell
  <2>3. _json_safe(AsWritten(_text(c))) = _text(c)
    BY <2>2 DEF _json_safe, AsWritten
  <2> QED
    BY <1>4, <2>2, <2>3 DEF c
<1>6. ASSUME NEW c, IsCell(c)
      PROVE  /\ ~Filled(_json_safe(IsoOrBlank(c))) \/ _json_safe(IsoOrBlank(c)).t = "iso"
             /\ _as_date(c) # None => /\ _json_safe(IsoOrBlank(c)).t = "iso"
                                      /\ _json_safe(IsoOrBlank(c)).n = _as_date(c)
  BY <1>6 DEF IsoOrBlank, _as_date, _json_safe, Filled, Blank
<1>7. /\ J(3).t = "iso" /\ J(3).n = _as_date(cell.baseline_start)
      /\ J(4).t = "iso" /\ J(4).n = _as_date(cell.baseline_finish)
  BY <1>1, <1>4, <1>6 DEF RowPasses, RowKeepsId
<1>8. \A p \in {5, 6} : ~Filled(J(p)) \/ J(p).t = "iso"
  BY <1>1, <1>4, <1>6, SMTT(40)
<1>9. \A p \in {7, 8} : J(p).t = "number"
  BY <1>2, <1>4, SMTT(40) DEF Number, _json_safe
<1>10. J(9).t = "number" /\ Whole(J(9).n)
  <2>1. J(9) = [t |-> "number", n |-> 100 * days]
    BY <1>4 DEF Number, _json_safe
  <2>2. (100 * days) % 100 = 0
    BY <1>3
  <2> QED
    BY <2>1, <2>2 DEF Whole
<1>11. J(10).t = "bool"
  BY <1>4 DEF _json_safe
<1>12. Filled(J(11))
  BY <1>4 DEF Known, _json_safe, Filled
<1> HIDE DEF J
<1>13. /\ Filled(J(1)) /\ Text(J(1)) = Text(_text(cell.activity_id))
       /\ J(3).t = "iso" /\ J(3).n = _as_date(cell.baseline_start)
       /\ J(4).t = "iso" /\ J(4).n = _as_date(cell.baseline_finish)
       /\ \A p \in {5, 6} : ~Filled(J(p)) \/ J(p).t = "iso"
       /\ \A p \in {7, 8} : J(p).t = "number"
       /\ J(9).t = "number" /\ Whole(J(9).n)
       /\ J(10).t = "bool"
       /\ Filled(J(11))
  BY <1>5, <1>7, <1>8, <1>9, <1>10, <1>11, <1>12
<1> QED
  BY <1>13 DEF J, line

\* The columns of the schedule are those of the line, in its order.
LEMMA ScheduleColumns ==
    /\ DOMAIN profile["schedule"] = 1..11 /\ DOMAIN SCHEDULE_HEADERS = 1..11
    /\ \A p \in 1..11 : <<profile["schedule"][p].field>> = SCHEDULE_HEADERS[p]
    /\ \A p, q \in 1..11 : profile["schedule"][p].field = profile["schedule"][q].field => p = q
<1> DEFINE columns == profile["schedule"]
<1>1. columns = <<Column("record_id", "string", TRUE, FALSE),
                  Column("wbs_code", "string", FALSE, FALSE),
                  Column("baseline_start", "date", TRUE, FALSE),
                  Column("baseline_finish", "date", TRUE, FALSE),
                  Column("actual_start", "date", FALSE, FALSE),
                  Column("actual_finish", "date", FALSE, FALSE),
                  Column("planned_progress", "decimal", TRUE, TRUE),
                  Column("actual_progress", "decimal", TRUE, TRUE),
                  Column("total_float_days", "integer", TRUE, FALSE),
                  Column("critical", "boolean", TRUE, FALSE),
                  Column("status", "string", TRUE, FALSE)>>
  BY DEF profile
<1> HIDE DEF columns
<1>2. DOMAIN columns = 1..11 /\ DOMAIN SCHEDULE_HEADERS = 1..11
  BY <1>1 DEF SCHEDULE_HEADERS
<1>3. /\ columns[1].field = "record_id" /\ columns[2].field = "wbs_code"
      /\ columns[3].field = "baseline_start" /\ columns[4].field = "baseline_finish"
      /\ columns[5].field = "actual_start" /\ columns[6].field = "actual_finish"
      /\ columns[7].field = "planned_progress" /\ columns[8].field = "actual_progress"
      /\ columns[9].field = "total_float_days" /\ columns[10].field = "critical"
      /\ columns[11].field = "status"
  BY <1>1 DEF Column
<1>4. \A p \in 1..11 : <<columns[p].field>> = SCHEDULE_HEADERS[p]
  BY <1>3 DEF SCHEDULE_HEADERS
<1>5. \A p, q \in 1..11 : columns[p].field = columns[q].field => p = q
  BY <1>3
<1> QED
  BY <1>2, <1>4, <1>5 DEF columns

\* The line of an activity is read without an error, and the record has its id
\* (_map_row).
LEMMA MappedActivity ==
    ASSUME NEW cell, RowKeepsId(cell), \A f \in DOMAIN STANDARD_ALIASES : IsCell(cell[f]),
           NEW x, HasLine(x, SCHEDULE_HEADERS, ActivityLine(cell))
    PROVE  LET r == _map_row("schedule", x)
           IN  /\ Errors(r.issues) = {}
               /\ r.record.record_id = Text(_text(cell.activity_id))
<1> DEFINE columns == profile["schedule"]
           Cell(c) == IF <<c.field>> \in DOMAIN x.values THEN x.values[<<c.field>>] ELSE Blank
           J(p) == _json_safe(ActivityLine(cell)[p])
           S(p) == _normalize_scalar(J(p), columns[p])
           scalars == [i \in DOMAIN columns |-> _normalize_scalar(Cell(columns[i]), columns[i])]
           Index(f) == CHOOSE i \in DOMAIN columns : columns[i].field = f
           values == [f \in Fields("schedule") |-> scalars[Index(f)].value]
           read == UNION {scalars[i].issues : i \in DOMAIN columns}
           issues == read \union ContradictoryDates("schedule", values, read)
                          \union InvalidIdentity("schedule", values, read)
<1>1. _map_row("schedule", x) = [row |-> x.row,
                                 record |-> IF Errors(issues) = {} THEN values ELSE None,
                                 issues |-> issues]
  BY DEF _map_row
<1>2. /\ DOMAIN columns = 1..11
      /\ \A p \in 1..11 : /\ <<columns[p].field>> = SCHEDULE_HEADERS[p]
                          /\ SCHEDULE_HEADERS[p] \in DOMAIN x.values
      /\ \A p, q \in 1..11 : columns[p].field = columns[q].field => p = q
  BY ScheduleColumns, SMTT(40) DEF HasLine
<1>3. \A p \in 1..11 : Cell(columns[p]) = J(p)
  BY <1>2, ScheduleColumns, SMTT(40) DEF HasLine
<1>4. DOMAIN scalars = 1..11 /\ \A p \in 1..11 : scalars[p] = S(p)
  BY <1>2, <1>3
<1>5. /\ columns[1].scalar = "string" /\ columns[2].scalar = "string" /\ ~columns[2].required
      /\ columns[3].scalar = "date" /\ columns[4].scalar = "date"
      /\ columns[5].scalar = "date" /\ ~columns[5].required
      /\ columns[6].scalar = "date" /\ ~columns[6].required
      /\ columns[7].scalar = "decimal" /\ columns[8].scalar = "decimal"
      /\ columns[9].scalar = "integer" /\ columns[10].scalar = "boolean"
      /\ columns[11].scalar = "string"
      /\ columns[1].field = "record_id" /\ columns[3].field = "baseline_start"
      /\ columns[4].field = "baseline_finish" /\ columns[7].field = "planned_progress"
      /\ columns[8].field = "actual_progress"
  BY DEF profile, Column
<1> HIDE DEF columns, Cell, J
<1>6. /\ Filled(J(1)) /\ Text(J(1)) = Text(_text(cell.activity_id))
      /\ J(3).t = "iso" /\ J(3).n = _as_date(cell.baseline_start)
      /\ J(4).t = "iso" /\ J(4).n = _as_date(cell.baseline_finish)
      /\ \A p \in {5, 6} : ~Filled(J(p)) \/ J(p).t = "iso"
      /\ \A p \in {7, 8} : J(p).t = "number"
      /\ J(9).t = "number" /\ Whole(J(9).n)
      /\ J(10).t = "bool"
      /\ Filled(J(11))
  BY LineCells DEF J
<1>7. /\ Errors(S(1).issues) = {} /\ S(1).value = Text(J(1))
      /\ Errors(S(2).issues) = {}
      /\ Errors(S(3).issues) = {} /\ S(3).value = J(3).n
      /\ Errors(S(4).issues) = {} /\ S(4).value = J(4).n
      /\ Errors(S(5).issues) = {} /\ Errors(S(6).issues) = {}
      /\ Errors(S(7).issues) = {} /\ S(7).value = J(7).n
      /\ Errors(S(8).issues) = {} /\ S(8).value = J(8).n
      /\ Errors(S(9).issues) = {} /\ Errors(S(10).issues) = {} /\ Errors(S(11).issues) = {}
  <2>1. Errors(S(1).issues) = {} /\ S(1).value = Text(J(1))
    BY <1>5, <1>6, ScalarsRead
  <2>2. Errors(S(2).issues) = {}
    BY <1>5, ScalarsRead
  <2>3. Errors(S(3).issues) = {} /\ S(3).value = J(3).n
    BY <1>5, <1>6, ScalarsRead, ZenonT(60)
  <2>4. Errors(S(4).issues) = {} /\ S(4).value = J(4).n
    BY <1>5, <1>6, ScalarsRead, ZenonT(60)
  <2>5. Errors(S(5).issues) = {} /\ Errors(S(6).issues) = {}
    BY <1>5, <1>6, ScalarsRead
  <2>6. Errors(S(7).issues) = {} /\ S(7).value = J(7).n
    BY <1>5, <1>6, ScalarsRead, SMTT(40)
  <2>7. Errors(S(8).issues) = {} /\ S(8).value = J(8).n
    BY <1>5, <1>6, ScalarsRead, SMTT(40)
  <2>8. Errors(S(9).issues) = {}
    BY <1>5, <1>6, ScalarsRead DEF Whole
  <2>9. Errors(S(10).issues) = {}
    BY <1>5, <1>6, ScalarsRead
  <2>10. Errors(S(11).issues) = {}
    BY <1>5, <1>6, ScalarsRead
  <2> QED
    BY <2>1, <2>2, <2>3, <2>4, <2>5, <2>6, <2>7, <2>8, <2>9, <2>10
<1> HIDE DEF S, scalars
<1>8. Errors(read) = {}
  <2>1. \A p \in 1..11 : Errors(scalars[p].issues) = {}
    BY <1>4, <1>7
  <2> QED
    BY <1>2, <2>1 DEF Errors
<1>9. \A p \in 1..11 : columns[p].field \in Fields("schedule") /\ Index(columns[p].field) = p
  BY <1>2 DEF Fields, columns
<1>10. \A p \in 1..11 : values[columns[p].field] = S(p).value
  BY <1>4, <1>9
<1> HIDE DEF values, read
<1>11. ContradictoryDates("schedule", values, read) = {}
  <2>1. values["baseline_start"] = _as_date(cell.baseline_start)
    BY <1>5, <1>6, <1>7, <1>10
  <2>2. values["baseline_finish"] = _as_date(cell.baseline_finish)
    BY <1>5, <1>6, <1>7, <1>10
  <2>3. ~(_as_date(cell.baseline_finish) < _as_date(cell.baseline_start))
    BY DEF RowPasses, RowKeepsId, Backwards
  <2> QED
    BY <2>1, <2>2, <2>3 DEF ContradictoryDates
<1>12. InvalidIdentity("schedule", values, read) = {}
  BY DEF InvalidIdentity
<1>13. Errors(issues) = {}
  BY <1>8, <1>11, <1>12
<1> HIDE DEF issues
<1>14. _map_row("schedule", x).record = values /\ Errors(_map_row("schedule", x).issues) = {}
  BY <1>1, <1>13
<1>15. values["record_id"] = Text(_text(cell.activity_id))
  BY <1>5, <1>6, <1>7, <1>10
<1> QED
  BY <1>14, <1>15

\* A number has one digit or more.
LEMMA TensOrNot == \A n \in 1..999 : n < 10 \/ n >= 10
OBVIOUS

\* A WBS code as it is read.
Code(n) == <<"outline", n>>

\* The code of the node above, or None.
CodeAbove(n) == IF n < 10 THEN None ELSE Code(n \div 10)

\* A code is not missing.
LEMMA SomeCode ==
    ASSUME NoneIsNoFunction, NEW n
    PROVE  Code(n) # None
<1> DEFINE pairs == [1..2 -> {"outline", n}]
<1>1. <<"outline", n>> \in pairs
  OBVIOUS
<1>2. None \notin pairs
  BY DEF NoneIsNoFunction
<1> QED
  BY <1>1, <1>2 DEF Code

\* The line of a node is read without an error, and its parent is the node
\* above it (_map_row).
LEMMA MappedNode ==
    ASSUME NoneIsNoFunction, NEW n \in 1..999,
           NEW x, HasLine(x, WBS_HEADERS, NodeLine(n))
    PROVE  LET r == _map_row("wbs", x)
           IN  /\ Errors(r.issues) = {}
               /\ r.record["wbs_code"] = Code(n)
               /\ r.record["parent_wbs"] = CodeAbove(n)
<1> DEFINE columns == profile["wbs"]
           Cell(c) == IF <<c.field>> \in DOMAIN x.values THEN x.values[<<c.field>>] ELSE Blank
           J(p) == _json_safe(NodeLine(n)[p])
           S(p) == _normalize_scalar(J(p), columns[p])
           scalars == [i \in DOMAIN columns |-> _normalize_scalar(Cell(columns[i]), columns[i])]
           Index(f) == CHOOSE i \in DOMAIN columns : columns[i].field = f
           values == [f \in Fields("wbs") |-> scalars[Index(f)].value]
           read == UNION {scalars[i].issues : i \in DOMAIN columns}
           issues == read \union ContradictoryDates("wbs", values, read)
                          \union InvalidIdentity("wbs", values, read)
           parent == CodeAbove(n)
<1>1. _map_row("wbs", x) = [row |-> x.row,
                            record |-> IF Errors(issues) = {} THEN values ELSE None,
                            issues |-> issues]
  BY DEF _map_row
<1>2. columns = <<Column("wbs_code", "string", TRUE, FALSE),
                  Column("parent_wbs", "string", FALSE, FALSE),
                  Column("level", "integer", TRUE, FALSE)>>
  BY DEF profile
<1> HIDE DEF columns
<1>3. /\ DOMAIN columns = 1..3
      /\ columns[1].field = "wbs_code" /\ columns[1].scalar = "string"
      /\ columns[2].field = "parent_wbs" /\ columns[2].scalar = "string" /\ ~columns[2].required
      /\ columns[3].field = "level" /\ columns[3].scalar = "integer"
  BY <1>2 DEF Column
<1>4. \A p \in 1..3 : /\ <<columns[p].field>> = WBS_HEADERS[p]
                      /\ WBS_HEADERS[p] \in DOMAIN x.values /\ x.values[WBS_HEADERS[p]] = J(p)
  <2>1. DOMAIN WBS_HEADERS = 1..3
    BY DEF WBS_HEADERS
  <2>2. \A p \in 1..3 : <<columns[p].field>> = WBS_HEADERS[p]
    BY <1>3 DEF WBS_HEADERS
  <2> QED
    BY <2>1, <2>2 DEF HasLine
<1>5. DOMAIN scalars = 1..3 /\ \A p \in 1..3 : scalars[p] = S(p)
  BY <1>3, <1>4
<1>6. /\ J(1) = [t |-> "outline", n |-> n]
      /\ n < 10 => J(2) = Blank
      /\ n >= 10 => J(2) = [t |-> "outline", n |-> n \div 10]
      /\ J(3) = [t |-> "number", n |-> 100 * Digits(n)]
  BY DEF NodeLine, Known, Number, _json_safe, Blank
<1>7. /\ Digits(n) \in {1, 2, 3}
      /\ (100 * Digits(n)) % 100 = 0 /\ (100 * Digits(n)) \div 100 = Digits(n)
  BY DEF Digits
<1> HIDE DEF Cell, J
<1>8. Errors(S(1).issues) = {} /\ S(1).value = Code(n)
  BY <1>3, <1>6, ScalarsRead DEF Filled, Text, Code
<1>9. Errors(S(2).issues) = {} /\ S(2).value = parent
  <2>1. CASE n < 10
    <3>1. ~Filled(J(2))
      BY <1>6, <2>1 DEF Filled, Blank
    <3> QED
      BY <1>3, <2>1, <3>1, ScalarsRead DEF CodeAbove
  <2>2. CASE n >= 10
    <3>1. Filled(J(2)) /\ Text(J(2)) = Code(n \div 10)
      BY <1>6, <2>2 DEF Filled, Text, Code
    <3>2. Errors(S(2).issues) = {} /\ S(2).value = Text(J(2))
      BY <1>3, <3>1, ScalarsRead
    <3> QED
      BY <2>2, <3>1, <3>2 DEF CodeAbove
  <2> QED
    BY <2>1, <2>2
<1>10. Errors(S(3).issues) = {} /\ S(3).value = Digits(n)
  <2>1. J(3).t = "number" /\ J(3).n % 100 = 0 /\ J(3).n \div 100 = Digits(n)
    BY <1>6, <1>7
  <2> QED
    BY <1>3, <2>1, ScalarsRead
<1> HIDE DEF S, scalars, parent
<1>11. Errors(read) = {}
  BY <1>3, <1>5, <1>8, <1>9, <1>10 DEF Errors
<1>12. /\ values["wbs_code"] = Code(n) /\ values["parent_wbs"] = parent
       /\ values["level"] = Digits(n)
  <2>1. \A p \in 1..3 : columns[p].field \in Fields("wbs") /\ Index(columns[p].field) = p
    BY <1>3 DEF Fields, columns
  <2>2. \A p \in 1..3 : values[columns[p].field] = S(p).value
    BY <1>5, <2>1
  <2> HIDE DEF values
  <2> QED
    BY <1>3, <1>8, <1>9, <1>10, <2>2
<1> HIDE DEF values, read
<1>13. ContradictoryDates("wbs", values, read) = {}
  BY DEF ContradictoryDates
<1>14. InvalidIdentity("wbs", values, read) = {}
  <2>1. parent # Code(n)
    <3>1. CASE n < 10
      BY <3>1, SomeCode DEF parent, CodeAbove
    <3>2. CASE n >= 10
      <4>1. n \div 10 # n
        BY <3>2
      <4> QED
        BY <3>2, <4>1 DEF parent, CodeAbove, Code
    <3> QED
      BY <3>1, <3>2
  <2>2. ~(Digits(n) < 1)
    BY <1>7
  <2> QED
    BY <1>12, <2>1, <2>2 DEF InvalidIdentity
<1>15. Errors(issues) = {}
  BY <1>11, <1>13, <1>14
<1> HIDE DEF issues
<1>16. _map_row("wbs", x).record = values /\ Errors(_map_row("wbs", x).issues) = {}
  BY <1>1, <1>15
<1> QED
  BY <1>12, <1>16 DEF parent

-----------------------------------------------------------------------------
(* The nodes of the workbook that is built.                                   *)

\* N nodes, each once, and with each the one above it.
IsTree(node, N) ==
    /\ node \in [1..N -> 1..999]
    /\ \A i, j \in 1..N : node[i] = node[j] => i = j
    /\ \A i \in 1..N : node[i] >= 10 => \E j \in 1..N : node[j] = node[i] \div 10

\* Nodes that are there once each, with all the nodes above them, are kept:
\* no row of such a sheet has an error (_validate_wbs_rows).
LEMMA TreeIsValid ==
    ASSUME NoneIsNoFunction, NEW e, NEW N \in Nat, DOMAIN e.rows_by_domain["wbs"] = 1..N,
           NEW node, IsTree(node, N),
           \A i \in 1..N : HasLine(e.rows_by_domain["wbs"][i], WBS_HEADERS, NodeLine(node[i]))
    PROVE  \A i \in 1..N : Errors(MappedRows(e, "wbs")[i].issues) = {}
<1> DEFINE rows == e.rows_by_domain["wbs"]
           all == WBSRows(e)
           once == FirstOfEachCode(all)
           final == MappedRows(e, "wbs")
           P == Parents(once)
<1>1. /\ DOMAIN all = 1..N /\ DOMAIN once = 1..N
      /\ \A i \in 1..N : once[i].record["wbs_code"] \notin InvalidCodes(once) => final[i] = once[i]
  BY ValidatedRows
<1>0. /\ \A i \in 1..N : node[i] \in 1..999
      /\ \A i, j \in 1..N : node[i] = node[j] => i = j
      /\ \A i \in 1..N : node[i] >= 10 => \E j \in 1..N : node[j] = node[i] \div 10
  BY ZenonT(60) DEF IsTree
<1>2. ASSUME NEW i \in 1..N
      PROVE  /\ Errors(all[i].issues) = {}
             /\ all[i].record # None
             /\ all[i].record["wbs_code"] = Code(node[i])
             /\ all[i].record["parent_wbs"] = CodeAbove(node[i])
  <2>1. all[i] = _map_row("wbs", rows[i])
    BY DEF WBSRows
  <2> DEFINE n == node[i]
  <2>2. n \in 1..999 /\ HasLine(rows[i], WBS_HEADERS, NodeLine(n))
    BY <1>0, ZenonT(60)
  <2> HIDE DEF all, rows, n
  <2>3. /\ Errors(all[i].issues) = {}
        /\ all[i].record["wbs_code"] = Code(n)
        /\ all[i].record["parent_wbs"] = CodeAbove(n)
    <3> DEFINE x == rows[i]
    <3>1. HasLine(x, WBS_HEADERS, NodeLine(n))
      BY <2>2
    <3> HIDE DEF x
    <3>2. LET r == _map_row("wbs", x)
          IN  /\ Errors(r.issues) = {}
              /\ r.record["wbs_code"] = Code(n)
              /\ r.record["parent_wbs"] = CodeAbove(n)
      BY <2>2, <3>1, MappedNode, ZenonT(60)
    <3> QED
      BY <2>1, <3>2 DEF x
  <2>4. IsRecord(all[i].record, "wbs")
    BY <2>1, <2>3, MapRow
  <2> QED
    BY <2>3, <2>4, RecordIsThere DEF n
<1>3. \A m, n : Code(m) = Code(n) => m = n
  BY DEF Code
<1>4. \A i \in 1..N : once[i] = all[i]
  <2>1. ASSUME NEW i \in 1..N PROVE ~Duplicate(all, i)
    <3>1. \A j \in 1..(i - 1) : j \in 1..N /\ j # i
      OBVIOUS
    <3> HIDE DEF all
    <3> QED
      BY <1>0, <1>2, <1>3, <3>1 DEF Duplicate
  <2> HIDE DEF all
  <2> QED
    BY <1>1, <2>1 DEF FirstOfEachCode
<1> HIDE DEF all, once, final, rows
<1>5. /\ DOMAIN P = {Code(node[i]) : i \in 1..N}
      /\ \A i \in 1..N : P[Code(node[i])] = CodeAbove(node[i])
  <2>1. DOMAIN P = {once[i].record["wbs_code"] : i \in {j \in 1..N : once[j].record # None}}
    BY <1>1, CodesAreFinite
  <2>2. \A i \in 1..N : once[i].record # None /\ once[i].record["wbs_code"] = Code(node[i])
                           /\ once[i].record["parent_wbs"] = CodeAbove(node[i])
    BY <1>2, <1>4
  <2>3. DOMAIN P = {Code(node[i]) : i \in 1..N}
    <3> HIDE DEF P
    <3> QED
      BY <2>1, <2>2
  <2>4. \A i, j \in 1..N :
            /\ once[i].record # None /\ once[j].record # None
            /\ once[i].record["wbs_code"] = once[j].record["wbs_code"]
            => i = j
    BY <1>0, <1>3, <2>2
  <2>5. \A i \in 1..N : P[once[i].record["wbs_code"]] = once[i].record["parent_wbs"]
    BY <1>1, <2>2, <2>4, ParentOfRow
  <2> HIDE DEF P
  <2> QED
    BY <2>2, <2>3, <2>5
<1>6. None \notin DOMAIN P
  BY <1>5, SomeCode
<1> HIDE DEF P
<1>7. \A i \in 1..N : CodeAbove(node[i]) \in (DOMAIN P) \union {None}
  <2> SUFFICES ASSUME NEW i \in 1..N
               PROVE  CodeAbove(node[i]) \in (DOMAIN P) \union {None}
    OBVIOUS
  <2>1. CASE node[i] < 10
    BY <2>1 DEF CodeAbove
  <2>2. CASE node[i] >= 10
    <3>1. PICK j \in 1..N : node[j] = node[i] \div 10
      BY <1>0, <2>2
    <3>2. CodeAbove(node[i]) = Code(node[j])
      <4> DEFINE n == node[i]  m == node[j]  d == n \div 10
      <4>1. n >= 10 /\ n \in 1..999 /\ m = d
        BY <1>0, <2>2, <3>1
      <4> HIDE DEF n, m
      <4>2. ~(n < 10)
        BY <4>1
      <4>3. CodeAbove(n) = Code(d)
        BY <4>2 DEF CodeAbove
      <4> HIDE DEF d
      <4>4. CodeAbove(n) = Code(m)
        BY <4>1, <4>3
      <4> QED
        BY <4>4 DEF n, m
    <3> QED
      BY <1>5, <3>2
  <2>3. node[i] < 10 \/ node[i] >= 10
    <3> DEFINE n == node[i]
    <3>1. n \in 1..999
      BY <1>0, Zenon
    <3> HIDE DEF n
    <3>2. n < 10 \/ n >= 10
      BY <3>1, TensOrNot, Zenon
    <3> QED
      BY <3>2 DEF n
  <2> QED
    BY <2>1, <2>2, <2>3, Zenon
<1>8. ASSUME NEW loop \in SUBSET DOMAIN P, loop # {}
      PROVE  \E c \in loop : P[c] \notin loop
  <2> DEFINE numbers == {node[i] : i \in {j \in 1..N : Code(node[j]) \in loop}}
  <2>1. numbers \subseteq Nat /\ numbers # {}
    <3>1. numbers \subseteq Nat
      <4> SUFFICES ASSUME NEW x \in numbers PROVE x \in Nat
        OBVIOUS
      <4>1. PICK i \in 1..N : x = node[i]
        OBVIOUS
      <4>2. x \in 1..999
        BY <1>0, <4>1, Zenon
      <4>3. \A n : n \in 1..999 => n \in Nat
        OBVIOUS
      <4> QED
        BY <4>2, <4>3, Zenon
    <3>2. PICK c \in loop : TRUE
      BY <1>8
    <3>3. PICK i \in 1..N : c = Code(node[i])
      BY <1>5, <3>2
    <3>4. node[i] \in numbers
      BY <3>2, <3>3
    <3> QED
      BY <3>1, <3>4
  <2>2. PICK m \in numbers : \A k \in numbers : m <= k
    <3> HIDE DEF numbers
    <3> QED
      BY <2>1, LeastMember
  <2>3. PICK i \in 1..N : m = node[i] /\ Code(node[i]) \in loop
    OBVIOUS
  <2>4. m \in 1..999
    BY <1>0, <2>3
  <2>5. ASSUME P[Code(m)] \in loop PROVE FALSE
    <3>1. CodeAbove(m) \in loop /\ CodeAbove(m) # None
      BY <1>5, <1>6, <2>3, <2>5
    <3>2. m >= 10 /\ Code(m \div 10) \in loop
      <4>1. CASE m < 10
        BY <3>1, <4>1 DEF CodeAbove
      <4>2. CASE ~(m < 10)
        <5>1. m >= 10
          BY <2>4, <4>2
        <5>2. CodeAbove(m) = Code(m \div 10)
          BY <4>2 DEF CodeAbove
        <5> QED
          BY <3>1, <5>1, <5>2
      <4> QED
        BY <4>1, <4>2
    <3>3. PICK j \in 1..N : Code(node[j]) = Code(m \div 10)
      BY <1>5, <3>2
    <3>4. node[j] = m \div 10 /\ node[j] \in numbers
      BY <1>3, <3>2, <3>3
    <3>5. m <= m \div 10
      BY <2>2, <3>4
    <3> HIDE DEF numbers
    <3> QED
      BY <2>4, <3>2, <3>5
  <2> QED
    BY <2>3, <2>5
<1>9. Grounded(P, DOMAIN P)
  <2>1. \A c \in DOMAIN P : P[c] \in (DOMAIN P) \union {None}
    BY <1>5, <1>7
  <2> QED
    BY <1>8, <2>1 DEF Grounded
<1>10. (DOMAIN P) \cap InvalidCodes(once) = {}
  BY <1>1, <1>6, <1>9, SpreadEnds DEF P
<1>11. ASSUME NEW i \in 1..N PROVE Errors(final[i].issues) = {}
  <2>1. once[i].record["wbs_code"] = Code(node[i]) /\ Code(node[i]) \in DOMAIN P
    BY <1>2, <1>4, <1>5
  <2>2. final[i] = all[i]
    BY <1>1, <1>4, <1>10, <2>1
  <2> QED
    BY <1>2, <2>2
<1> QED
  BY <1>11 DEF final

-----------------------------------------------------------------------------
(* The sheets of the workbook that is built.                                  *)

\* The extracted rows of a sheet have places of their own.
LEMMA PlacesDiffer ==
    ASSUME NEW sheet, IsNumbered(sheet)
    PROVE  \A i, j \in DOMAIN ExtractedRows(sheet) :
               ExtractedRows(sheet)[i].row = ExtractedRows(sheet)[j].row => i = j
<1> DEFINE filled == FilledRows(sheet)
           rows == ExtractedRows(sheet)
           Below(r) == Cardinality({k \in filled : k < r})
<1>1. PICK N \in Nat : filled \in SUBSET (1..N)
  BY DEF IsNumbered, FilledRows
<1>2. /\ DOMAIN rows = DOMAIN Ascending(filled)
      /\ \A n \in DOMAIN rows : rows[n].row = Ascending(filled)[n]
  BY DEF ExtractedRows
<1> HIDE DEF rows, filled
<1>3. /\ DOMAIN Ascending(filled) = 1..Cardinality(filled) /\ Cardinality(filled) \in Nat
      /\ \A n \in 1..Cardinality(filled) : Below(Ascending(filled)[n]) = n - 1
  BY <1>1, AscendingLists
<1> HIDE DEF Below
<1>4. \A i, j \in 1..Cardinality(filled) : Ascending(filled)[i] = Ascending(filled)[j] => i = j
  BY <1>3
<1>5. \A i, j \in DOMAIN rows : rows[i].row = rows[j].row => i = j
  BY <1>2, <1>3, <1>4
<1> QED
  BY <1>5 DEF rows

\* A sheet with a line for each member of S, in their order, under headers that
\* are all different.
HasLines(sheet, S, lines) ==
    /\ HasHeaders(sheet)
    /\ \A p \in DOMAIN sheet.headers : sheet.headers[p] # None
    /\ \A p, q \in DOMAIN sheet.headers : sheet.headers[p] = sheet.headers[q] => p = q
    /\ sheet.rows = [k \in DOMAIN Ascending(S) |-> lines[Ascending(S)[k]]]
    /\ \A i \in S : \E p \in DOMAIN lines[i] : lines[i][p].t # "none"

\* The members whose lines the extracted rows are.
Listed(sheet, S) ==
    [n \in DOMAIN ExtractedRows(sheet) |-> Ascending(S)[ExtractedRows(sheet)[n].row]]

\* Its extracted rows are those lines, each once.
AreLines(sheet, S, lines) ==
    LET x == ExtractedRows(sheet)
        at == Listed(sheet, S)
    IN  /\ DOMAIN at = DOMAIN x /\ \E n \in Nat : DOMAIN x = 1..n
        /\ \A n \in DOMAIN x : at[n] \in S /\ HasLine(x[n], sheet.headers, lines[at[n]])
        /\ \A n, k \in DOMAIN x : at[n] = at[k] => n = k
        /\ \A i \in S : \E n \in DOMAIN x : at[n] = i

\* So it is.
LEMMA LinesAreExtracted ==
    ASSUME NEW N \in Nat, NEW S \in SUBSET (1..N), NEW lines, NEW sheet, HasLines(sheet, S, lines)
    PROVE  AreLines(sheet, S, lines)
<1> DEFINE x == ExtractedRows(sheet)
           at == Listed(sheet, S)
           a == Ascending(S)
           C == Cardinality(S)
           Below(r) == Cardinality({k \in S : k < r})
<1>1. /\ C \in Nat /\ DOMAIN a = 1..C
      /\ \A n \in 1..C : a[n] \in S /\ Below(a[n]) = n - 1
      /\ \A i \in S : \E n \in 1..C : a[n] = i
  BY AscendingLists
<1> HIDE DEF a, C, Below
<1>2. \A n, k \in 1..C : a[n] = a[k] => n = k
  BY <1>1
<1>3. sheet.rows = [k \in 1..C |-> lines[a[k]]]
  BY <1>1 DEF HasLines, a
<1>4. FilledRows(sheet) = 1..C /\ IsNumbered(sheet)
  <2>1. \A k \in 1..C : \E p \in DOMAIN sheet.rows[k] : sheet.rows[k][p].t # "none"
    <3> SUFFICES ASSUME NEW k \in 1..C
                 PROVE  \E p \in DOMAIN sheet.rows[k] : sheet.rows[k][p].t # "none"
      OBVIOUS
    <3>1. sheet.rows[k] = lines[a[k]] /\ a[k] \in S
      BY <1>1, <1>3
    <3>2. \E p \in DOMAIN lines[a[k]] : lines[a[k]][p].t # "none"
      BY <3>1 DEF HasLines
    <3> QED
      BY <3>1, <3>2
  <2> QED
    BY <1>1, <1>3, <2>1 DEF FilledRows, IsNumbered
<1>5. {x[n].row : n \in DOMAIN x} = 1..C
  BY <1>4, ExtractedPlaces
<1>6. \A n, k \in DOMAIN x : x[n].row = x[k].row => n = k
  BY <1>4, PlacesDiffer
<1>7. \E n \in Nat : DOMAIN x = 1..n
  <2>1. DOMAIN x = DOMAIN Ascending(1..C)
    BY <1>4 DEF ExtractedRows
  <2>2. DOMAIN Ascending(1..C) = 1..Cardinality(1..C) /\ Cardinality(1..C) \in Nat
    BY <1>1, AscendingLists
  <2> QED
    BY <2>1, <2>2
<1>8. DOMAIN at = DOMAIN x /\ \A n \in DOMAIN x : at[n] = a[x[n].row]
  BY DEF Listed, a
<1>9. ASSUME NEW n \in DOMAIN x
      PROVE  at[n] \in S /\ HasLine(x[n], sheet.headers, lines[at[n]])
  <2>1. x[n].row \in 1..C
    BY <1>5
  <2>2. LosesNothing(sheet, x[n])
    <3>1. x[n] \in Range(x)
      BY DEF Range
    <3> QED
      BY <3>1, ExtractedColumns DEF HasLines
  <2>3. sheet.rows[x[n].row] = lines[at[n]]
    BY <1>3, <1>8, <2>1
  <2>4. \A p \in DOMAIN sheet.headers :
           sheet.headers[p] # None /\ \A q \in 1..(p - 1) : sheet.headers[q] # sheet.headers[p]
    <3>1. \E L \in Nat : DOMAIN sheet.headers = 1..L
      BY DEF HasLines, HasHeaders, IsString
    <3>2. ASSUME NEW p \in DOMAIN sheet.headers, NEW q \in 1..(p - 1)
          PROVE  sheet.headers[q] # sheet.headers[p]
      <4>1. q \in DOMAIN sheet.headers /\ q # p
        BY <3>1
      <4> QED
        BY <4>1 DEF HasLines
    <3> QED
      BY <3>2 DEF HasLines
  <2>5. HasLine(x[n], sheet.headers, sheet.rows[x[n].row])
    <3> HIDE DEF x
    <3> QED
      BY <2>2, <2>4 DEF LosesNothing, HasLine
  <2>6. at[n] \in S
    BY <1>1, <1>8, <2>1
  <2> HIDE DEF x, at
  <2> QED
    BY <2>3, <2>5, <2>6
<1> HIDE DEF x, at
<1>10. \A n, k \in DOMAIN x : at[n] = at[k] => n = k
  BY <1>2, <1>5, <1>6, <1>8
<1>11. \A i \in S : \E n \in DOMAIN x : at[n] = i
  <2> SUFFICES ASSUME NEW i \in S PROVE \E n \in DOMAIN x : at[n] = i
    OBVIOUS
  <2>1. PICK k \in 1..C : a[k] = i
    BY <1>1
  <2>2. PICK n \in DOMAIN x : x[n].row = k
    BY <1>5
  <2> QED
    BY <1>8, <2>1, <2>2
<1> QED
  BY <1>7, <1>8, <1>9, <1>10, <1>11 DEF AreLines, x, at

\* The lines of the schedule sheet.
ActivityLines(sheet, preset) ==
    [i \in CompleteAt(sheet, preset) |-> ActivityLine(CellsAt(sheet, preset, i))]

NodeLines(nodes) == [n \in nodes |-> NodeLine(n)]

\* Both presets name the same fields.
LEMMA SameFields ==
    \A preset \in {"msproject", "standard"} : DOMAIN Aliases(preset) = DOMAIN STANDARD_ALIASES
BY DEF Aliases, MS_PROJECT_ALIASES, STANDARD_ALIASES

\* A sheet is not missing.
LEMMA SheetIsThere ==
    ASSUME NoneIsNoFunction
    PROVE  \A headers, rows : [headers |-> headers, rows |-> rows] # None
<1> SUFFICES ASSUME NEW headers, NEW rows
             PROVE  [headers |-> headers, rows |-> rows] # None
  OBVIOUS
<1> DEFINE sheets == [{"headers", "rows"} -> {headers, rows}]
<1>1. [headers |-> headers, rows |-> rows] \in sheets
  OBVIOUS
<1>2. None \notin sheets
  BY DEF NoneIsNoFunction
<1> QED
  BY <1>1, <1>2

\* The headers of the sheets that are built are strings, and all differ.
LEMMA HeadersOfBuilt ==
    ASSUME NoneIsNoFunction
    PROVE  \A headers \in {WBS_HEADERS, SCHEDULE_HEADERS} :
              /\ IsString(headers)
              /\ \A p \in DOMAIN headers : headers[p] # None /\ IsString(headers[p])
              /\ \A p, q \in DOMAIN headers : headers[p] = headers[q] => p = q
<1>1. \A x : IsString(<<x>>) /\ <<x>> # None
  <2> SUFFICES ASSUME NEW x PROVE IsString(<<x>>) /\ <<x>> # None
    BY ZenonT(60)
  <2> DEFINE single == [1..1 -> {x}]
  <2>1. <<x>> \in single
    OBVIOUS
  <2>2. None \notin single
    BY DEF NoneIsNoFunction
  <2> HIDE DEF single
  <2>3. <<x>> # None
    BY <2>1, <2>2
  <2> QED
    BY <2>3 DEF IsString
<1>2. IsString(WBS_HEADERS) /\ IsString(SCHEDULE_HEADERS)
  BY DEF IsString, WBS_HEADERS, SCHEDULE_HEADERS
<1>3. DOMAIN WBS_HEADERS = 1..3 /\ DOMAIN SCHEDULE_HEADERS = 1..11
  BY DEF WBS_HEADERS, SCHEDULE_HEADERS
<1>4. \A p \in 1..3 : \E x : WBS_HEADERS[p] = <<x>>
  BY DEF WBS_HEADERS
<1>5. \A p \in 1..11 : \E x : SCHEDULE_HEADERS[p] = <<x>>
  BY ScheduleColumns
<1>6. \A p, q \in 1..3 : WBS_HEADERS[p] = WBS_HEADERS[q] => p = q
  BY DEF WBS_HEADERS
<1>7. \A p, q \in 1..11 : SCHEDULE_HEADERS[p] = SCHEDULE_HEADERS[q] => p = q
  <2>1. \A x, y : <<x>> = <<y>> => x = y
    OBVIOUS
  <2> QED
    BY <2>1, ScheduleColumns
<1> QED
  BY <1>1, <1>2, <1>3, <1>4, <1>5, <1>6, <1>7

\* The sheets of the workbook that is built (build_schedule_workbook).
LEMMA BuiltSheets ==
    ASSUME NoneIsNoFunction,
           NEW sheet \in Sheets, NEW preset \in {"msproject", "standard"}, NEW code, NEW day,
           \A i \in CompleteAt(sheet, preset) : RowKeepsId(CellsAt(sheet, preset, i))
    PROVE  LET b == build_schedule_workbook(sheet, preset, code, day)
               S == CompleteAt(sheet, preset)
               nodes == NodesOf(sheet, preset)
           IN  /\ b.sheets["wbs"] # None /\ b.sheets["wbs"].headers = WBS_HEADERS
               /\ HasLines(b.sheets["wbs"], nodes, NodeLines(nodes))
               /\ b.sheets["schedule"] # None /\ b.sheets["schedule"].headers = SCHEDULE_HEADERS
               /\ HasLines(b.sheets["schedule"], S, ActivityLines(sheet, preset))
               /\ \A d \in Domains \ {"wbs", "schedule"} : b.sheets[d] = None
<1> DEFINE rows == _read_rows(sheet)
           mapping == Mapping(sheet, preset)
           cell(i) == _cells(rows[i], mapping)
           b == build_schedule_workbook(sheet, preset, code, day)
           S == CompleteAt(sheet, preset)
           nodes == NodesOf(sheet, preset)
           kept == Ascending(S)
           ordered == Ascending(nodes)
<1>1. S = {i \in DOMAIN rows :
              /\ Populated(rows[i])
              /\ Filled(cell(i).activity_id) /\ Filled(cell(i).activity_name)
              /\ _as_date(cell(i).baseline_start) # None
              /\ _as_date(cell(i).baseline_finish) # None}
  BY DEF CompleteAt, CellsAt
<1>2. PICK N \in Nat : DOMAIN rows = 1..N
  BY ReadRows
<1>3. Range(kept) = S
  <2>1. S \in SUBSET (1..N)
    BY <1>1, <1>2
  <2> HIDE DEF S
  <2> QED
    <3> DEFINE a == Ascending(S)
               C == Cardinality(S)
    <3>1. /\ DOMAIN a = 1..C
          /\ \A n \in 1..C : a[n] \in S
          /\ \A i \in S : \E n \in 1..C : a[n] = i
      BY <2>1, AscendingLists
    <3> HIDE DEF a, C
    <3>2. Range(a) = S
      BY <3>1 DEF Range
    <3> QED
      BY <3>2 DEF a
<1>4. nodes = UNION {CodesUpTo(_text(cell(i).wbs)) : i \in Range(kept)}
  BY <1>3 DEF NodesOf, CellsAt
<1>5. b.sheets = [d \in Domains |->
            CASE d = "wbs" -> [headers |-> WBS_HEADERS,
                               rows |-> [k \in DOMAIN ordered |-> NodeLine(ordered[k])]]
              [] d = "schedule" -> [headers |-> SCHEDULE_HEADERS,
                                    rows |-> [k \in DOMAIN kept |-> ActivityLine(cell(kept[k]))]]
              [] OTHER -> None]
  <2> HIDE DEF rows, mapping
  <2> QED
    BY <1>1, <1>4 DEF build_schedule_workbook, rows, mapping
<1> DEFINE s == [headers |-> SCHEDULE_HEADERS,
                 rows |-> [k \in DOMAIN kept |-> ActivityLine(cell(kept[k]))]]
           w == [headers |-> WBS_HEADERS,
                 rows |-> [k \in DOMAIN ordered |-> NodeLine(ordered[k])]]
<1>6. /\ b.sheets["wbs"] = w /\ b.sheets["schedule"] = s
      /\ \A d \in Domains \ {"wbs", "schedule"} : b.sheets[d] = None
  <2> HIDE DEF s, w
  <2>1. b.sheets = [d \in Domains |-> CASE d = "wbs" -> w [] d = "schedule" -> s [] OTHER -> None]
    BY <1>5 DEF s, w
  <2> HIDE DEF b
  <2> QED
    BY <2>1 DEF Domains
<1>7. s # None /\ w # None
  BY SheetIsThere
<1>8. HasLines(s, S, ActivityLines(sheet, preset))
  <2> DEFINE lines == ActivityLines(sheet, preset)
  <2>1. \A k \in DOMAIN kept : kept[k] \in S
    BY <1>3 DEF Range
  <2>2. \A i \in S : lines[i] = ActivityLine(cell(i))
    BY DEF ActivityLines, CellsAt
  <2>3. s.rows = [k \in DOMAIN kept |-> lines[kept[k]]]
    <3> HIDE DEF kept, S, lines, cell
    <3> QED
      BY <2>1, <2>2
  <2>4. \A i \in S : \E p \in DOMAIN lines[i] : lines[i][p].t # "none"
    <3> SUFFICES ASSUME NEW i \in S
                 PROVE  \E p \in DOMAIN ActivityLine(cell(i)) : ActivityLine(cell(i))[p].t # "none"
      BY <2>2
    <3>1. cell(i) = CellsAt(sheet, preset, i) /\ i \in DOMAIN rows
      BY <1>1 DEF CellsAt
    <3>2. RowKeepsId(cell(i)) /\ \A f \in DOMAIN STANDARD_ALIASES : IsCell(cell(i)[f])
      BY <3>1, CellsOfRow, SameFields
    <3> DEFINE c == cell(i)
    <3> HIDE DEF c
    <3>3. Filled(_json_safe(ActivityLine(c)[1]))
      BY <3>2, LineCells DEF c
    <3>4. 1 \in DOMAIN ActivityLine(c)
      BY DEF ActivityLine
    <3>5. ActivityLine(c)[1].t # "none"
      BY <3>3 DEF _json_safe, Filled
    <3> QED
      BY <3>4, <3>5 DEF c
  <2>5. s.headers = SCHEDULE_HEADERS
    OBVIOUS
  <2> HIDE DEF s, S, lines, kept
  <2>6. HasHeaders(s)
    BY <2>5, HeadersOfBuilt DEF HasHeaders
  <2>7. \A p \in DOMAIN s.headers : s.headers[p] # None
    BY <2>5, HeadersOfBuilt
  <2>8. \A p, q \in DOMAIN s.headers : s.headers[p] = s.headers[q] => p = q
    BY <2>5, HeadersOfBuilt
  <2> QED
    BY <2>3, <2>4, <2>6, <2>7, <2>8 DEF HasLines, kept, lines
<1>9. HasLines(w, nodes, NodeLines(nodes))
  <2> DEFINE lines == NodeLines(nodes)
  <2>1. \A k \in DOMAIN ordered : ordered[k] \in nodes
    <3>1. nodes \in SUBSET (1..999)
      BY NodesAreClosed
    <3> DEFINE most == 999
    <3>2. most \in Nat /\ nodes \in SUBSET (1..most)
      BY <3>1
    <3> HIDE DEF nodes, most
    <3>3. /\ DOMAIN Ascending(nodes) = 1..Cardinality(nodes)
          /\ \A n \in 1..Cardinality(nodes) : Ascending(nodes)[n] \in nodes
      BY <3>2, AscendingLists
    <3> QED
      BY <3>3
  <2>2. \A n \in nodes : lines[n] = NodeLine(n)
    BY DEF NodeLines
  <2>3. w.rows = [k \in DOMAIN ordered |-> lines[ordered[k]]]
    <3> HIDE DEF ordered, nodes, lines
    <3> QED
      BY <2>1, <2>2
  <2>4. \A n \in nodes : \E p \in DOMAIN lines[n] : lines[n][p].t # "none"
    <3> SUFFICES ASSUME NEW n \in nodes
                 PROVE  \E p \in DOMAIN NodeLine(n) : NodeLine(n)[p].t # "none"
      BY <2>2
    <3>1. 1 \in DOMAIN NodeLine(n) /\ NodeLine(n)[1] = Known("outline", n)
      BY DEF NodeLine
    <3> QED
      BY <3>1 DEF Known
  <2>5. w.headers = WBS_HEADERS
    OBVIOUS
  <2> HIDE DEF w, nodes, lines, ordered
  <2>6. HasHeaders(w)
    BY <2>5, HeadersOfBuilt DEF HasHeaders
  <2>7. \A p \in DOMAIN w.headers : w.headers[p] # None
    BY <2>5, HeadersOfBuilt
  <2>8. \A p, q \in DOMAIN w.headers : w.headers[p] = w.headers[q] => p = q
    BY <2>5, HeadersOfBuilt
  <2> QED
    BY <2>3, <2>4, <2>6, <2>7, <2>8 DEF HasLines, ordered, lines
<1>10. s.headers = SCHEDULE_HEADERS /\ w.headers = WBS_HEADERS
  OBVIOUS
<1> HIDE DEF s, w, b, S, nodes
<1>11. /\ b.sheets["wbs"] # None /\ b.sheets["wbs"].headers = WBS_HEADERS
       /\ HasLines(b.sheets["wbs"], nodes, NodeLines(nodes))
       /\ b.sheets["schedule"] # None /\ b.sheets["schedule"].headers = SCHEDULE_HEADERS
       /\ HasLines(b.sheets["schedule"], S, ActivityLines(sheet, preset))
  BY <1>6, <1>7, <1>8, <1>9, <1>10
<1> QED
  BY <1>6, <1>11 DEF b, S, nodes

-----------------------------------------------------------------------------
(* What the workbook is mapped to.                                            *)

\* Headers that are those of the profile, each once, have no issue.
LEMMA NoHeaderIssues ==
    ASSUME NEW d, NEW headers,
           \A p, q \in DOMAIN headers : headers[p] = headers[q] => p = q,
           LiteralHeaders(headers) = {<<f>> : f \in Fields(d)}
    PROVE  _header_issues(d, headers) = {}
<1> DEFINE present == LiteralHeaders(headers)
           One(code, holds) == IF holds THEN {[domain |-> d, code |-> code]} ELSE {}
           twice == \E i, j \in DOMAIN headers :
                       i # j /\ headers[i] = headers[j] /\ headers[i] # None
           lacks == \E f \in RequiredFields(d) : <<f>> \notin present
           other == ~(present \subseteq {<<f>> : f \in Fields(d)})
<1>1. ~twice /\ ~other
  OBVIOUS
<1>2. ~lacks
  <2>1. RequiredFields(d) \subseteq Fields(d)
    BY DEF RequiredFields, Fields
  <2> QED
    BY <2>1
<1>3. _header_issues(d, headers)
        = One("duplicate_header", twice) \union One("missing_required_column", lacks)
          \union One("unexpected_header", other)
  BY DEF _header_issues
<1> HIDE DEF twice, lacks, other
<1> QED
  BY <1>1, <1>2, <1>3

\* The sheets that are built have the headers of the profile.
LEMMA BuiltHeaders ==
    ASSUME NoneIsNoFunction
    PROVE  /\ _header_issues("wbs", WBS_HEADERS) = {}
           /\ _header_issues("schedule", SCHEDULE_HEADERS) = {}
<1>1. _header_issues("wbs", WBS_HEADERS) = {}
  <2>1. Fields("wbs") = {"wbs_code", "parent_wbs", "level"}
    <3>1. profile["wbs"] = <<Column("wbs_code", "string", TRUE, FALSE),
                             Column("parent_wbs", "string", FALSE, FALSE),
                             Column("level", "integer", TRUE, FALSE)>>
      BY DEF profile
    <3> QED
      BY <3>1 DEF Fields, Column
  <2>2. Range(WBS_HEADERS) = {<<f>> : f \in Fields("wbs")}
    BY <2>1 DEF Range, WBS_HEADERS
  <2>3. None \notin Range(WBS_HEADERS)
    BY HeadersOfBuilt DEF Range
  <2>4. LiteralHeaders(WBS_HEADERS) = {<<f>> : f \in Fields("wbs")}
    BY <2>2, <2>3 DEF LiteralHeaders
  <2> QED
    BY <2>4, HeadersOfBuilt, NoHeaderIssues
<1>2. _header_issues("schedule", SCHEDULE_HEADERS) = {}
  <2>1. Range(SCHEDULE_HEADERS) = {<<f>> : f \in Fields("schedule")}
    BY ScheduleColumns, SMTT(40) DEF Range, Fields
  <2>2. None \notin Range(SCHEDULE_HEADERS)
    BY HeadersOfBuilt DEF Range
  <2>3. LiteralHeaders(SCHEDULE_HEADERS) = {<<f>> : f \in Fields("schedule")}
    BY <2>1, <2>2 DEF LiteralHeaders
  <2> QED
    BY <2>3, HeadersOfBuilt, NoHeaderIssues
<1> QED
  BY <1>1, <1>2

\* The rows that the build keeps and their nodes, as they are mapped: all are
\* read without an error, and the activities under their ids.
Imports(e, sheet, preset) ==
    /\ TemplateErrors(e, "wbs") = {} /\ TemplateErrors(e, "schedule") = {}
    /\ \A d \in {"wbs", "schedule"} : \A i \in DOMAIN MappedRows(e, d) :
          Errors(MappedRows(e, d)[i].issues) = {}
    /\ NodesOf(sheet, preset) # {} => e.rows_by_domain["wbs"] # <<>>
    /\ {MappedRows(e, "schedule")[i].record.record_id : i \in DOMAIN MappedRows(e, "schedule")}
          = {Text(_text(CellsAt(sheet, preset, i).activity_id)) : i \in CompleteAt(sheet, preset)}

\* None of the rows that the build keeps has a formula for its id.
IdsAreWritten(sheet, preset) ==
    \A i \in CompleteAt(sheet, preset) : CellsAt(sheet, preset, i).activity_id.t # "formula"

\* What an import that the preflight let pass is mapped to
\* (build_schedule_workbook, extract_workbook, map_extracted_workbook).
LEMMA BuiltMaps ==
    ASSUME NoneIsNoFunction,
           NEW sheet \in Sheets, NEW preset \in {"msproject", "standard"}, NEW code, NEW day,
           validate_workbook_bytes(sheet, preset).can_import, IdsAreWritten(sheet, preset)
    PROVE  Imports(extract_workbook(build_schedule_workbook(sheet, preset, code, day)),
                   sheet, preset)
<1> DEFINE b == build_schedule_workbook(sheet, preset, code, day)
           e == extract_workbook(b)
           S == CompleteAt(sheet, preset)
           nodes == NodesOf(sheet, preset)
           lines == ActivityLines(sheet, preset)
           s == b.sheets["schedule"]
           w == b.sheets["wbs"]
           place == Listed(s, S)
           node == Listed(w, nodes)
           Cell(i) == CellsAt(sheet, preset, i)
           Row(i) == MappedRows(e, "schedule")[i]
<1>1. \A i \in S : RowKeepsId(Cell(i)) /\ \A f \in DOMAIN STANDARD_ALIASES : IsCell(Cell(i)[f])
  <2>1. \A i \in S : i \in PopulatedAt(sheet) /\ i \in DOMAIN _read_rows(sheet)
    BY DEF CompleteAt, PopulatedAt
  <2>2. \A i \in S : Cell(i).activity_id.t # "formula"
    BY DEF IdsAreWritten
  <2> HIDE DEF S, Cell
  <2> QED
    BY <2>1, <2>2, PassedRows, CellsOfRow, SameFields DEF Cell, RowKeepsId
<1>2. /\ w # None /\ w.headers = WBS_HEADERS /\ HasLines(w, nodes, NodeLines(nodes))
      /\ s # None /\ s.headers = SCHEDULE_HEADERS /\ HasLines(s, S, lines)
      /\ \A d \in Domains \ {"wbs", "schedule"} : b.sheets[d] = None
  <2> HIDE DEF S, nodes, b
  <2> QED
    BY <1>1, BuiltSheets DEF b, S, nodes
<1> HIDE DEF b
<1>3. /\ e.rows_by_domain["wbs"] = ExtractedRows(w)
      /\ e.rows_by_domain["schedule"] = ExtractedRows(s)
  BY <1>2 DEF extract_workbook, Domains
<1>4. TemplateErrors(e, "wbs") = {} /\ TemplateErrors(e, "schedule") = {}
  <2>1. ASSUME NEW d \in {"wbs", "schedule"}
        PROVE  TemplateErrors(e, d) = {}
    <3>1. b.sheets[d] # None /\ _header_issues(d, b.sheets[d].headers) = {}
      BY <1>2, BuiltHeaders
    <3>2. \A c \in Domains : \A x \in _header_issues(c, b.sheets[c].headers) : x.domain = c
      BY DEF _header_issues
    <3>3. e.template_errors = UNION {IF b.sheets[c] = None
                                     THEN {[domain |-> c, code |-> "missing_sheet"]}
                                     ELSE _header_issues(c, b.sheets[c].headers) : c \in Domains}
      BY DEF extract_workbook
    <3> HIDE DEF e
    <3>4. ASSUME NEW x \in e.template_errors, x.domain = d
          PROVE  FALSE
      <4>1. PICK c \in Domains : x \in IF b.sheets[c] = None
                                       THEN {[domain |-> c, code |-> "missing_sheet"]}
                                       ELSE _header_issues(c, b.sheets[c].headers)
        BY <3>3
      <4>2. x.domain = c
        BY <3>2, <4>1
      <4> QED
        BY <3>1, <3>4, <4>1, <4>2
    <3> QED
      BY <3>4 DEF TemplateErrors
  <2> QED
    BY <2>1
<1>5. nodes \in SUBSET (1..999) /\ \A n \in nodes : n >= 10 => n \div 10 \in nodes
  BY NodesAreClosed
<1> HIDE DEF e, nodes, S, place, node
<1>6. PICK N \in Nat :
        /\ DOMAIN ExtractedRows(w) = 1..N /\ DOMAIN node = 1..N
        /\ \A n \in 1..N : /\ node[n] \in nodes
                           /\ HasLine(ExtractedRows(w)[n], WBS_HEADERS, NodeLine(node[n]))
        /\ \A n, k \in 1..N : node[n] = node[k] => n = k
        /\ \A i \in nodes : \E n \in 1..N : node[n] = i
  <2> DEFINE M == 999
             x == ExtractedRows(w)
             L == NodeLines(nodes)
  <2>1. M \in Nat /\ nodes \in SUBSET (1..M)
    BY <1>5
  <2> HIDE DEF M, w, L
  <2>2. HasLines(w, nodes, L)
    BY <1>2 DEF L
  <2>3. AreLines(w, nodes, L)
    BY <2>1, <2>2, LinesAreExtracted
  <2>4. /\ DOMAIN node = DOMAIN x /\ \E n \in Nat : DOMAIN x = 1..n
        /\ \A n \in DOMAIN x : node[n] \in nodes /\ HasLine(x[n], w.headers, L[node[n]])
        /\ \A n, k \in DOMAIN x : node[n] = node[k] => n = k
        /\ \A i \in nodes : \E n \in DOMAIN x : node[n] = i
    BY <2>3 DEF AreLines, node
  <2>5. \A n \in nodes : L[n] = NodeLine(n)
    BY DEF NodeLines, L
  <2> HIDE DEF x
  <2>6. \A n \in DOMAIN x : HasLine(x[n], WBS_HEADERS, NodeLine(node[n]))
    BY <1>2, <2>4, <2>5
  <2> QED
    BY <2>4, <2>6 DEF x
<1>7. PICK C \in Nat :
        /\ DOMAIN ExtractedRows(s) = 1..C
        /\ \A n \in 1..C : /\ place[n] \in S
                           /\ HasLine(ExtractedRows(s)[n], SCHEDULE_HEADERS,
                                      ActivityLine(Cell(place[n])))
        /\ \A i \in S : \E n \in 1..C : place[n] = i
  <2> DEFINE x == ExtractedRows(s)
  <2>1. PICK M \in Nat : S \in SUBSET (1..M)
    BY ReadRows DEF S, CompleteAt
  <2>2. \A i \in S : lines[i] = ActivityLine(Cell(i))
    BY DEF ActivityLines, S
  <2> HIDE DEF s, lines
  <2>3. HasLines(s, S, lines)
    BY <1>2
  <2>4. AreLines(s, S, lines)
    BY <2>1, <2>3, LinesAreExtracted
  <2>5. /\ DOMAIN place = DOMAIN x /\ \E n \in Nat : DOMAIN x = 1..n
        /\ \A n \in DOMAIN x : place[n] \in S /\ HasLine(x[n], s.headers, lines[place[n]])
        /\ \A i \in S : \E n \in DOMAIN x : place[n] = i
    BY <2>4 DEF AreLines, place
  <2> HIDE DEF x, Cell
  <2>6. \A n \in DOMAIN x : HasLine(x[n], SCHEDULE_HEADERS, ActivityLine(Cell(place[n])))
    BY <1>2, <2>5, <2>2
  <2> QED
    BY <2>5, <2>6 DEF x
<1> HIDE DEF w, s, lines
<1>8. \A i \in DOMAIN MappedRows(e, "wbs") : Errors(MappedRows(e, "wbs")[i].issues) = {}
  <2>1. IsTree(node, N)
    <3>1. \A n \in 1..N : node[n] \in 1..999
      BY <1>5, <1>6, ZenonT(60)
    <3>2. \A n \in 1..N : node[n] >= 10 => \E k \in 1..N : node[k] = node[n] \div 10
      BY <1>5, <1>6, ZenonT(60)
    <3>3. node = [n \in 1..N |-> node[n]]
      BY <1>6 DEF node, Listed
    <3>4. node \in [1..N -> 1..999]
      BY <3>1, <3>3
    <3> QED
      BY <1>6, <3>2, <3>4 DEF IsTree
  <2>2. \A i \in 1..N : HasLine(e.rows_by_domain["wbs"][i], WBS_HEADERS, NodeLine(node[i]))
    BY <1>3, <1>6
  <2>3. DOMAIN e.rows_by_domain["wbs"] = 1..N
    BY <1>3, <1>6
  <2>4. \A i \in 1..N : Errors(MappedRows(e, "wbs")[i].issues) = {}
    BY <2>1, <2>2, <2>3, TreeIsValid
  <2>5. DOMAIN MappedRows(e, "wbs") = 1..N
    BY <2>3, MappedRow
  <2> QED
    BY <2>4, <2>5
<1>9. nodes # {} => e.rows_by_domain["wbs"] # <<>>
  BY <1>3, <1>6
<1>10. DOMAIN MappedRows(e, "schedule") = 1..C
  BY <1>3, <1>7, MappedRow
<1>11. \A n \in 1..C : /\ Errors(Row(n).issues) = {}
                       /\ Row(n).record.record_id = Text(_text(Cell(place[n]).activity_id))
  <2> SUFFICES ASSUME NEW n \in 1..C
               PROVE  /\ Errors(Row(n).issues) = {}
                      /\ Row(n).record.record_id = Text(_text(Cell(place[n]).activity_id))
    OBVIOUS
  <2> DEFINE x == ExtractedRows(s)[n]
             c == Cell(place[n])
  <2>1. Row(n) = _map_row("schedule", x)
    BY <1>3, <1>7 DEF MappedRows
  <2>2. HasLine(x, SCHEDULE_HEADERS, ActivityLine(c))
    BY <1>7
  <2>3. RowKeepsId(c) /\ \A f \in DOMAIN STANDARD_ALIASES : IsCell(c[f])
    BY <1>1, <1>7
  <2> HIDE DEF x, c, Row
  <2>4. LET r == _map_row("schedule", x)
        IN  /\ Errors(r.issues) = {}
            /\ r.record.record_id = Text(_text(c.activity_id))
    BY <2>2, <2>3, MappedActivity
  <2> QED
    BY <2>1, <2>4 DEF c
<1> HIDE DEF Row, Cell
<1>12. {Row(n).record.record_id : n \in 1..C} = {Text(_text(Cell(i).activity_id)) : i \in S}
  BY <1>7, <1>11
<1>13. /\ \A i \in DOMAIN MappedRows(e, "schedule") : Errors(MappedRows(e, "schedule")[i].issues) = {}
       /\ {MappedRows(e, "schedule")[i].record.record_id : i \in DOMAIN MappedRows(e, "schedule")}
            = {Text(_text(CellsAt(sheet, preset, i).activity_id)) : i \in CompleteAt(sheet, preset)}
  BY <1>10, <1>11, <1>12 DEF Row, Cell, S
<1>14. Imports(e, sheet, preset)
  BY <1>4, <1>8, <1>9, <1>10, <1>13 DEF Imports, nodes
<1> QED
  BY <1>14 DEF e, b

-----------------------------------------------------------------------------
(* An import reaches the rules.                                               *)

\* Neither the WBS nor the schedule of an import is blocked, as soon as one
\* activity has a code.
LEMMA ImportsAreNotBlocked ==
    ASSUME NEW e, NEW sheet, NEW preset, Imports(e, sheet, preset), NodesOf(sheet, preset) # {}
    PROVE  map_extracted_workbook(e).domain_statuses["schedule"] \in {"valid", "warning"}
<1> DEFINE rows == [d \in Domains |-> MappedRows(e, d)]
           issues == [d \in Domains |-> DomainIssues(e, d)]
           own == [d \in Domains |-> OwnStatus(e, rows, issues, d)]
<1>1. ASSUME NEW d \in {"wbs", "schedule"}
      PROVE  own[d] \in {"valid", "warning"}
  <2>1. TemplateErrors(e, d) = {} /\ issues[d] = {}
    BY DEF Imports, DomainIssues, Domains
  <2>2. \A i \in DOMAIN rows[d] : Errors(rows[d][i].issues) = {}
    BY DEF Imports, Domains
  <2>3. own[d] = OwnStatus(e, rows, issues, d)
    BY DEF Domains
  <2> HIDE DEF rows, issues
  <2> QED
    BY <2>1, <2>2, <2>3 DEF OwnStatus
<1>2. map_extracted_workbook(e).domain_statuses
        = IF own["wbs"] = "blocked" THEN [d \in Domains |-> "blocked"] ELSE own
  BY DEF map_extracted_workbook
<1> HIDE DEF own
<1> QED
  BY <1>1, <1>2

\* The dataset has the activities under their ids.
LEMMA ImportsAreLoaded ==
    ASSUME NoneIsNoFunction, NEW e, NEW m, Maps(e, m), NEW sheet, NEW preset,
           Imports(e, sheet, preset)
    PROVE  {r.v.record_id : r \in load(_complete_mapped(e, m)).rows["schedule"]}
             = {Text(_text(CellsAt(sheet, preset, i).activity_id)) : i \in CompleteAt(sheet, preset)}
<1> DEFINE R(i) == MappedRows(e, "schedule")[i]
           D == DOMAIN MappedRows(e, "schedule")
           F(i) == Reloaded("schedule", [row |-> R(i).row, v |-> R(i).record])
<1>1. \A i \in D : IsRecord(R(i).record, "schedule")
  BY MappedRow DEF Imports
<1>2. Kept(e, "schedule") = D
  BY <1>1, RecordIsThere DEF Kept
<1>3. load(_complete_mapped(e, m)).rows["schedule"] = {F(i) : i \in D}
  <2>1. "schedule" \in Domains
    BY DEF Domains
  <2>2. load(_complete_mapped(e, m)).rows["schedule"]
          = {Reloaded("schedule", [row |-> MappedRows(e, "schedule")[i].row,
                                   v |-> MappedRows(e, "schedule")[i].record]) :
             i \in Kept(e, "schedule")}
    BY <2>1, LoadedRows
  <2> QED
    BY <1>2, <2>2
<1>4. \A i \in D : F(i).v.record_id = R(i).record.record_id
  <2> SUFFICES ASSUME NEW i \in D PROVE F(i).v.record_id = R(i).record.record_id
    OBVIOUS
  <2> DEFINE v == R(i).record
  <2>1. IsRecord(v, "schedule") /\ "record_id" \in Fields("schedule")
    BY <1>1, ScheduleColumns DEF Fields, profile, Column
  <2> HIDE DEF v
  <2> QED
    BY <2>1 DEF Reloaded, IsRecord, v
<1> HIDE DEF F
<1>5. {r.v.record_id : r \in load(_complete_mapped(e, m)).rows["schedule"]}
        = {R(i).record.record_id : i \in D}
  BY <1>3, <1>4
<1> QED
  BY <1>5 DEF Imports

\* A row with an id and a baseline is kept when it has a name, and a code of
\* it is a node.
LEMMA ImportsAreComplete ==
    ASSUME NEW sheet \in Sheets, NEW preset \in {"msproject", "standard"},
           validate_workbook_bytes(sheet, preset).can_import,
           \A i \in PopulatedAt(sheet) :
              /\ Filled(CellsAt(sheet, preset, i).activity_name)
              /\ CellsAt(sheet, preset, i).wbs.t \in {"outline", "gapped"}
    PROVE  CompleteAt(sheet, preset) = PopulatedAt(sheet) /\ NodesOf(sheet, preset) # {}
<1>1. PopulatedAt(sheet) # {} /\ \A i \in PopulatedAt(sheet) : RowPasses(CellsAt(sheet, preset, i))
  BY PassedRows
<1>2. CompleteAt(sheet, preset) = PopulatedAt(sheet)
  BY <1>1 DEF CompleteAt, PopulatedAt, RowPasses
<1>3. NodesOf(sheet, preset) # {}
  <2>1. PICK i \in PopulatedAt(sheet) : TRUE
    BY <1>1
  <2> DEFINE c == CellsAt(sheet, preset, i).wbs
  <2>2. "wbs" \in DOMAIN Aliases(preset) /\ i \in DOMAIN _read_rows(sheet)
    BY DEF Aliases, MS_PROJECT_ALIASES, STANDARD_ALIASES, PopulatedAt
  <2>3. c.t \in {"outline", "gapped"} /\ c.n \in 1..999
    BY <2>2, CellsOfRow
  <2> HIDE DEF c
  <2>4. _text(c) = c
    BY <2>3 DEF _text, Filled
  <2>5. c.n \in CodesUpTo(_text(c))
    BY <2>3, <2>4 DEF CodesUpTo
  <2>6. CodesUpTo(_text(c)) \subseteq NodesOf(sheet, preset)
    BY <1>2 DEF NodesOf, c
  <2> QED
    BY <2>5, <2>6
<1> QED
  BY <1>2, <1>3

\* An import that was stored passed the preflight and was built of its sheet.
ImportInv ==
    /\ imported # None /\ snapshot # None =>
          /\ imported.sheet \in Sheets /\ imported.preset \in {"msproject", "standard"}
          /\ validate_workbook_bytes(imported.sheet, imported.preset).can_import
          /\ book = build_schedule_workbook(imported.sheet, imported.preset, ProjectCode, Today)
    /\ run # None => snapshot # None

\* An import keeps it.
LEMMA ImportStep ==
    ASSUME Nothing, NEW sheet \in Sheets, NEW preset \in {"msproject", "standard"},
           ImportSchedule(sheet, preset)
    PROVE  ImportInv'
<1> DEFINE b == build_schedule_workbook(sheet, preset, ProjectCode, Today)
<1>1. imported' = [sheet |-> sheet, preset |-> preset]
  BY DEF ImportSchedule
<1>2. imported'.sheet = sheet /\ imported'.preset = preset
  BY <1>1
<1>3. CASE /\ error' = "validated_import_blocked"
           /\ UNCHANGED <<book, extracted, mapped, snapshot, run, health>>
  BY <1>3 DEF ImportInv, Nothing
<1>4. CASE validate_workbook_bytes(sheet, preset).can_import /\ ingest(b)
  <2>1. book' = b /\ run' = None
    BY <1>4 DEF ingest, Nothing
  <2> HIDE DEF b
  <2> QED
    BY <1>2, <1>4, <2>1 DEF ImportInv, b
<1> QED
  BY <1>3, <1>4 DEF ImportSchedule

\* It stays so.
LEMMA ImportInvStays == ImportInv /\ [Next]_vars => ImportInv'
<1> SUFFICES ASSUME ImportInv, [Next]_vars
             PROVE  ImportInv'
  OBVIOUS
<1>1. ASSUME NEW b \in Workbooks, Nothing, UploadWorkbook(b)
      PROVE  ImportInv'
  <2>1. imported' = None /\ run' = None
    BY <1>1 DEF UploadWorkbook, ingest, Nothing
  <2> QED
    BY <2>1 DEF ImportInv
<1>2. ASSUME NEW s \in Sheets, NEW preset \in {"msproject", "standard"}, Nothing,
             ImportSchedule(s, preset)
      PROVE  ImportInv'
  BY <1>2, ImportStep
<1>3. ASSUME NEW runtime \in BOOLEAN, run_snapshot(runtime)
      PROVE  ImportInv'
  <2>1. UNCHANGED <<imported, book, snapshot>> /\ snapshot # None
    BY <1>3 DEF run_snapshot
  <2> QED
    BY <2>1 DEF ImportInv
<1>4. CASE UNCHANGED vars
  BY <1>4 DEF vars, ImportInv
<1> QED
  BY <1>1, <1>2, <1>3, <1>4 DEF Next

\* What was imported reaches the rules.
LEMMA ImportInvReaches ==
    ASSUME NoneIsNoFunction
    PROVE  PipelineInv /\ HierarchyInv /\ ImportInv => ImportReachesTheRules
<1> SUFFICES ASSUME PipelineInv, HierarchyInv, ImportInv, run # None, imported # None,
                    \A row \in ImportedRows :
                        /\ \A f \in {"activity_id", "activity_name"} :
                              Filled(AsWritten(ImportedCell(row, f)))
                        /\ ImportedCell(row, "wbs").t \in {"outline", "gapped"}
             PROVE  /\ {"SCH-001", "SCH-002", "SCH-003", "SCH-004", "SCH-005"}
                          \subseteq run.execution.executed
                    /\ {r.v.record_id : r \in load(snapshot).rows["schedule"]} =
                          {Text(_text(ImportedCell(r, "activity_id"))) : r \in ImportedRows}
  BY DEF ImportReachesTheRules, HierarchyInv
<1> DEFINE sheet == imported.sheet
           preset == imported.preset
           rows == _read_rows(sheet)
<1>1. /\ sheet \in Sheets /\ preset \in {"msproject", "standard"}
      /\ validate_workbook_bytes(sheet, preset).can_import
      /\ book = build_schedule_workbook(sheet, preset, ProjectCode, Today)
  BY DEF ImportInv
<1>2. ImportedRows = {rows[i] : i \in PopulatedAt(sheet)}
  BY DEF ImportedRows, PopulatedAt
<1>3. \A i : \A f \in {"activity_name", "activity_id", "wbs"} :
         ImportedCell(rows[i], f) = CellsAt(sheet, preset, i)[f]
  <2> SUFFICES ASSUME NEW i, NEW f \in {"activity_name", "activity_id", "wbs"}
               PROVE  ImportedCell(rows[i], f) = CellsAt(sheet, preset, i)[f]
    OBVIOUS
  <2>1. f \in DOMAIN Aliases(preset)
    BY <1>1, SameFields DEF STANDARD_ALIASES
  <2>2. f \in DOMAIN Mapping(sheet, preset)
    BY <2>1 DEF Mapping
  <2> QED
    BY <2>2 DEF ImportedCell, CellsAt, _cells
<1> HIDE DEF sheet, preset, rows
<1>4. /\ CompleteAt(sheet, preset) = PopulatedAt(sheet) /\ NodesOf(sheet, preset) # {}
      /\ IdsAreWritten(sheet, preset)
  <2>1. \A c : Filled(AsWritten(c)) => Filled(c) /\ c.t # "formula"
    BY DEF AsWritten, Filled, Blank
  <2>2. \A i \in PopulatedAt(sheet) : /\ Filled(CellsAt(sheet, preset, i).activity_name)
                                      /\ CellsAt(sheet, preset, i).activity_id.t # "formula"
                                      /\ CellsAt(sheet, preset, i).wbs.t \in {"outline", "gapped"}
    BY <1>2, <1>3, <2>1
  <2>3. CompleteAt(sheet, preset) = PopulatedAt(sheet) /\ NodesOf(sheet, preset) # {}
    BY <1>1, <2>2, ImportsAreComplete
  <2> QED
    BY <2>2, <2>3 DEF IdsAreWritten
<1>5. Analysed /\ Stored /\ extracted = extract_workbook(book) /\ Maps(extracted, mapped)
      /\ snapshot = _complete_mapped(extracted, mapped)
  BY DEF PipelineInv, Analysed, Stored
<1>6. Imports(extracted, sheet, preset)
  BY <1>1, <1>4, <1>5, BuiltMaps
<1>7. load(snapshot).domain_statuses["schedule"] \in {"valid", "warning"}
  <2>1. map_extracted_workbook(extracted).domain_statuses["schedule"] \in {"valid", "warning"}
    BY <1>4, <1>6, ImportsAreNotBlocked
  <2>2. mapped.domain_statuses = map_extracted_workbook(extracted).domain_statuses
    BY <1>5 DEF Maps
  <2>3. load(snapshot).domain_statuses["schedule"] = mapped.domain_statuses["schedule"]
    BY <1>5, LoadedRows DEF Domains
  <2> QED
    BY <2>1, <2>2, <2>3
<1>8. {"SCH-001", "SCH-002", "SCH-003", "SCH-004", "SCH-005"} \subseteq run.execution.executed
  <2> SUFFICES ASSUME NEW r \in {"SCH-001", "SCH-002", "SCH-003", "SCH-004", "SCH-005"}
               PROVE  r \in run.execution.executed
    OBVIOUS
  <2>1. r \in Audit!Rules /\ Audit!_REQUIRED_DOMAINS_BY_RULE(r) = {"schedule"}
    BY DEF Audit!Rules, Audit!_REQUIRED_DOMAINS_BY_RULE
  <2>2. Audit!Blocked(r, load(snapshot).domain_statuses) = {}
    BY <1>7, <2>1 DEF Audit!Blocked
  <2> QED
    BY <1>5, <2>1, <2>2, ExecutedExactly DEF Analysed
<1>9. {r.v.record_id : r \in load(snapshot).rows["schedule"]}
        = {Text(_text(CellsAt(sheet, preset, i).activity_id)) : i \in PopulatedAt(sheet)}
  BY <1>4, <1>5, <1>6, ImportsAreLoaded, SMTT(40)
<1>10. {Text(_text(CellsAt(sheet, preset, i).activity_id)) : i \in PopulatedAt(sheet)}
         = {Text(_text(ImportedCell(r, "activity_id"))) : r \in ImportedRows}
  BY <1>2, <1>3
<1> QED
  BY <1>8, <1>9, <1>10

\* A schedule that the preflight lets pass is taken by the mapper, and once it
\* is stored, if its activities have ids, names and codes, every one of them
\* reaches the five schedule rules under its id: the WBS master that is built
\* for it holds them back nowhere (build_schedule_workbook, ingest,
\* run_gated).
THEOREM ImportsReachTheRules ==
    ASSUME NoneIsNoFunction
    PROVE  Spec => []ImportReachesTheRules
<1>1. Init => HierarchyInv /\ ImportInv
  BY NoneAssumption DEF Init, Nothing, HierarchyInv, ImportInv
<1>2. HierarchyInv /\ [Next]_vars => HierarchyInv'
  BY HierarchyInvStays
<1>3. ImportInv /\ [Next]_vars => ImportInv'
  BY ImportInvStays
<1>4. PipelineInv /\ HierarchyInv /\ ImportInv => ImportReachesTheRules
  BY ImportInvReaches
<1> QED
  BY <1>1, <1>2, <1>3, <1>4, PipelineInvHolds, PTL DEF Spec

-----------------------------------------------------------------------------
(* Findings.                                                                  *)

\* The severities that have a penalty.
Severities == {"critical", "warning", "observation"}

\* Finitely many findings, each of a known severity.
Graded(findings) == IsFiniteSet(findings) /\ \A f \in findings : f.severity \in Severities

\* The dataset has finitely many rows.
IsFiniteData(data) == \A d \in Domains : IsFiniteSet(data.rows[d])

\* The rows of the dataset, as evidence names them.
Places(data) == UNION {{<<d, r.row>> : r \in data.rows[d]} : d \in Domains}

\* The names in the columns of the dataset that findings are about.
NamesOf(data) ==
    (UNION {UNION {{r.v.record_id, r.v.wbs_code} : r \in data.rows[d]} : d \in Domains})
    \union {r.v.vendor_id : r \in data.rows["actual_cost"]}

\* What a finding is about: one name or two.
Entities(data) ==
    {<<p[1]>> : p \in NamesOf(data) \X NamesOf(data)} \union (NamesOf(data) \X NamesOf(data))

\* The findings that can be made of names and rows of the dataset.
Candidates(rule, data) ==
    {Audit!Finding(rule, p[1], p[2], p[3]) :
        p \in Entities(data) \X Severities \X SUBSET Places(data)}

\* Three things are finitely many.
LEMMA FiniteThree ==
    ASSUME NEW a, NEW b, NEW c
    PROVE  IsFiniteSet({a, b, c})
<1>1. IsFiniteSet({a}) /\ IsFiniteSet({b}) /\ IsFiniteSet({c})
  BY FS_Singleton
<1>2. IsFiniteSet({a} \union {b})
  BY <1>1, FS_Union
<1>3. IsFiniteSet(({a} \union {b}) \union {c})
  BY <1>1, <1>2, FS_Union
<1>4. ({a} \union {b}) \union {c} = {a, b, c}
  OBVIOUS
<1> QED
  BY <1>3, <1>4

\* The domains, and the columns of each, are finitely many.
LEMMA FiniteDomains == IsFiniteSet(Domains)
<1> DEFINE A == {"wbs", "budget", "actual_cost"}
           B == {"commitments", "schedule", "progress"}
<1>1. IsFiniteSet(A) /\ IsFiniteSet(B)
  BY FiniteThree
<1>2. Domains = A \union B
  BY DEF Domains
<1> HIDE DEF A, B
<1> QED
  BY <1>1, <1>2, FS_Union

\* A union of finitely many finite sets is finite.
LEMMA FiniteUnion ==
    ASSUME NEW S, IsFiniteSet(S), NEW f, \A x \in S : IsFiniteSet(f[x])
    PROVE  IsFiniteSet(UNION {f[x] : x \in S})
<1> DEFINE T == {f[x] : x \in S}
<1>1. IsFiniteSet(T)
  BY FiniteImage
<1>2. \A t \in T : IsFiniteSet(t)
  OBVIOUS
<1> QED
  BY <1>1, <1>2, FS_UNION

\* A finite dataset has finitely many rows and names.
LEMMA FinitePlaces ==
    ASSUME NEW data, IsFiniteData(data)
    PROVE  IsFiniteSet(Places(data)) /\ IsFiniteSet(NamesOf(data))
<1>0. IsFiniteSet(Domains)
  BY FiniteDomains
<1>1. IsFiniteSet(Places(data))
  <2> DEFINE f == [d \in Domains |-> {<<d, r.row>> : r \in data.rows[d]}]
  <2>1. ASSUME NEW d \in Domains
        PROVE  IsFiniteSet(f[d])
    <3> DEFINE g == [r \in data.rows[d] |-> <<d, r.row>>]
    <3>1. \A t \in f[d] : \E r \in data.rows[d] : t = g[r]
      OBVIOUS
    <3> HIDE DEF f, g
    <3> QED
      BY <3>1, FiniteImage DEF IsFiniteData
  <2>2. Places(data) = UNION {f[d] : d \in Domains}
    BY DEF Places
  <2> HIDE DEF f
  <2> QED
    BY <1>0, <2>1, <2>2, FiniteUnion
<1>2. IsFiniteSet(NamesOf(data))
  <2> DEFINE f == [d \in Domains |-> UNION {{r.v.record_id, r.v.wbs_code} : r \in data.rows[d]}]
             vendors == {r.v.vendor_id : r \in data.rows["actual_cost"]}
  <2>1. ASSUME NEW d \in Domains
        PROVE  IsFiniteSet(f[d])
    <3> DEFINE g == [r \in data.rows[d] |-> {r.v.record_id, r.v.wbs_code}]
    <3>1. \A r \in data.rows[d] : IsFiniteSet(g[r])
      <4> TAKE r \in data.rows[d]
      <4>1. IsFiniteSet({r.v.record_id, r.v.record_id, r.v.wbs_code})
        BY FiniteThree
      <4> QED
        BY <4>1
    <3>2. f[d] = UNION {g[r] : r \in data.rows[d]}
      OBVIOUS
    <3> HIDE DEF f, g
    <3> QED
      BY <3>1, <3>2, FiniteUnion DEF IsFiniteData
  <2>2. IsFiniteSet(UNION {f[d] : d \in Domains})
    <3> HIDE DEF f
    <3> QED
      BY <1>0, <2>1, FiniteUnion
  <2>3. IsFiniteSet(vendors)
    <3> DEFINE rows == data.rows["actual_cost"]
               g == [r \in rows |-> r.v.vendor_id]
    <3>1. \A t \in vendors : \E r \in rows : t = g[r]
      OBVIOUS
    <3>2. IsFiniteSet(rows)
      BY DEF IsFiniteData, Domains
    <3> HIDE DEF g, rows, vendors
    <3> QED
      BY <3>1, <3>2, FiniteImage
  <2> DEFINE names == UNION {f[d] : d \in Domains}
  <2>4. NamesOf(data) = names \union vendors
    BY DEF NamesOf
  <2> HIDE DEF names, vendors
  <2>5. IsFiniteSet(names)
    BY <2>2 DEF names
  <2> QED
    BY <2>3, <2>4, <2>5, FS_Union
<1> QED
  BY <1>1, <1>2

\* So any set of such findings is finite, and their severities are known.
LEMMA FiniteCandidates ==
    ASSUME NEW data, IsFiniteData(data), NEW rule, NEW T, T \subseteq Candidates(rule, data)
    PROVE  Graded(T)
<1> DEFINE N == NamesOf(data)
           P == (N \X N)
           one == [p \in P |-> <<p[1]>>]
           S == Entities(data) \X (Severities \X SUBSET Places(data))
           f == [q \in S |-> Audit!Finding(rule, q[1], q[2][1], q[2][2])]
<1>1. IsFiniteSet(N) /\ IsFiniteSet(SUBSET Places(data))
  BY FinitePlaces, FS_SUBSET
<1>2. IsFiniteSet(P)
  BY <1>1, FS_Product
<1>3. IsFiniteSet(Entities(data))
  <2> DEFINE ones == {<<p[1]>> : p \in P}
  <2>1. \A t \in ones : \E p \in P : t = one[p]
    OBVIOUS
  <2>2. Entities(data) = ones \union P
    BY DEF Entities
  <2> HIDE DEF ones, one, P
  <2>3. IsFiniteSet(ones)
    BY <1>2, <2>1, FiniteImage
  <2> QED
    BY <1>2, <2>2, <2>3, FS_Union
<1>4. IsFiniteSet(Severities)
  BY FiniteThree DEF Severities
<1>5. IsFiniteSet(S)
  <2>1. IsFiniteSet(Severities \X SUBSET Places(data))
    BY <1>1, <1>4, FS_Product
  <2> QED
    BY <1>3, <2>1, FS_Product
<1>6. \A t \in T : \E q \in S : t = f[q]
  <2> SUFFICES ASSUME NEW t \in T
               PROVE  \E q \in S : t = f[q]
    OBVIOUS
  <2>1. PICK e \in Entities(data), s \in Severities, x \in SUBSET Places(data) :
            t = Audit!Finding(rule, e, s, x)
    BY DEF Candidates
  <2>2. <<e, <<s, x>>>> \in S /\ f[<<e, <<s, x>>>>] = Audit!Finding(rule, e, s, x)
    OBVIOUS
  <2> QED
    BY <2>1, <2>2
<1>7. \A t \in T : t.severity \in Severities
  <2> SUFFICES ASSUME NEW t \in T
               PROVE  t.severity \in Severities
    OBVIOUS
  <2>1. PICK e \in Entities(data), s \in Severities, x \in SUBSET Places(data) :
            t = Audit!Finding(rule, e, s, x)
    BY DEF Candidates
  <2> QED
    BY <2>1 DEF Audit!Finding
<1> HIDE DEF S, f
<1>8. IsFiniteSet(T)
  BY <1>5, <1>6, FiniteImage
<1> QED
  BY <1>7, <1>8 DEF Graded

\* A finding about names and rows of the dataset is a candidate.
LEMMA IsCandidate ==
    ASSUME NEW data, NEW rule, NEW entity \in Entities(data), NEW severity \in Severities,
           NEW d \in Domains, NEW rows \in SUBSET data.rows[d]
    PROVE  Audit!Finding(rule, entity, severity, Audit!Cited(d, rows)) \in Candidates(rule, data)
<1> DEFINE evidence == Audit!Cited(d, rows)
           p == <<entity, severity, evidence>>
<1>1. evidence \in SUBSET Places(data)
  BY DEF Audit!Cited, Places
<1> HIDE DEF evidence
<1>2. p \in Entities(data) \X Severities \X SUBSET Places(data)
  BY <1>1
<1>3. p[1] = entity /\ p[2] = severity /\ p[3] = evidence
  OBVIOUS
<1> HIDE DEF p
<1>4. Audit!Finding(rule, p[1], p[2], p[3]) \in Candidates(rule, data)
  BY <1>2 DEF Candidates
<1> QED
  BY <1>3, <1>4 DEF evidence

\* A finding may be about a WBS that a row names,
LEMMA CodeIsEntity ==
    ASSUME NEW data, NEW d \in Domains, NEW w \in Audit!Codes(data.rows[d])
    PROVE  <<w>> \in Entities(data)
<1>1. w \in NamesOf(data)
  BY DEF Audit!Codes, NamesOf
<1>2. <<w, w>> \in NamesOf(data) \X NamesOf(data) /\ <<w, w>>[1] = w
  BY <1>1
<1> QED
  BY <1>2 DEF Entities

\* or about a record or its WBS.
LEMMA RecordIsEntity ==
    ASSUME NEW data, NEW d \in Domains, NEW r \in data.rows[d]
    PROVE  <<r.v.record_id>> \in Entities(data) /\ <<r.v.wbs_code>> \in Entities(data)
<1> DEFINE a == r.v.record_id
           b == r.v.wbs_code
<1>1. a \in NamesOf(data) /\ b \in NamesOf(data)
  BY DEF NamesOf
<1> HIDE DEF a, b
<1>2. \A w \in NamesOf(data) : <<w, w>> \in NamesOf(data) \X NamesOf(data) /\ <<w, w>>[1] = w
  OBVIOUS
<1>3. \A w \in NamesOf(data) : <<w>> \in Entities(data)
  BY <1>2 DEF Entities
<1> QED
  BY <1>1, <1>3 DEF a, b

\* A severity is critical above the upper threshold and what is given below it.
LEMMA BandsAreSeverities ==
    \A c : /\ Audit!Banded(c, "warning") \in Severities
           /\ Audit!Banded(c, "observation") \in Severities
BY DEF Audit!Banded, Severities

\* The six domains.
LEMMA DomainNames ==
    /\ "wbs" \in Domains /\ "budget" \in Domains /\ "actual_cost" \in Domains
    /\ "commitments" \in Domains /\ "schedule" \in Domains /\ "progress" \in Domains
BY DEF Domains

\* The rules on activities: one finding for each row that triggers them.
LEMMA ActivityFindings ==
    ASSUME NEW data, IsFiniteData(data), NEW rule, NEW T,
           \A f \in T : \E r \in data.rows["schedule"], severity \in Severities :
               f = Audit!Finding(rule, <<r.v.record_id>>, severity, Audit!Cited("schedule", {r}))
    PROVE  Graded(T)
<1>1. \A r \in data.rows["schedule"], severity \in Severities :
         Audit!Finding(rule, <<r.v.record_id>>, severity, Audit!Cited("schedule", {r}))
             \in Candidates(rule, data)
  <2> TAKE r \in data.rows["schedule"], severity \in Severities
  <2> QED
    BY IsCandidate, RecordIsEntity, DomainNames
<1>2. T \subseteq Candidates(rule, data)
  BY <1>1
<1> QED
  BY <1>2, FiniteCandidates

\* The rules of rules/schedule.py and DQ-003.
LEMMA ScheduleFindings ==
    ASSUME NEW data, IsFiniteData(data)
    PROVE  /\ Graded(Audit!OverdueActivity(data))
           /\ Graded(Audit!BaselineFinishSlippage(data))
           /\ Graded(Audit!CriticalActivityDelay(data))
           /\ Graded(Audit!ActivityProgressLag(data))
           /\ Graded(Audit!NegativeFloat(data))
           /\ Graded(Audit!ContradictoryDateProgress(data))
<1>0. "critical" \in Severities
  BY DEF Severities
<1>1. Graded(Audit!OverdueActivity(data))
  <2>1. \A f \in Audit!OverdueActivity(data) :
           \E r \in data.rows["schedule"], severity \in Severities :
             f = Audit!Finding("SCH-001", <<r.v.record_id>>, severity, Audit!Cited("schedule", {r}))
    BY BandsAreSeverities DEF Audit!OverdueActivity, Audit!Activities
  <2> QED
    BY <2>1, ActivityFindings
<1>2. Graded(Audit!BaselineFinishSlippage(data))
  <2>1. \A f \in Audit!BaselineFinishSlippage(data) :
           \E r \in data.rows["schedule"], severity \in Severities :
             f = Audit!Finding("SCH-002", <<r.v.record_id>>, severity, Audit!Cited("schedule", {r}))
    BY BandsAreSeverities DEF Audit!BaselineFinishSlippage, Audit!Activities
  <2> QED
    BY <2>1, ActivityFindings
<1>3. Graded(Audit!CriticalActivityDelay(data))
  <2>1. \A f \in Audit!CriticalActivityDelay(data) :
           \E r \in data.rows["schedule"], severity \in Severities :
             f = Audit!Finding("SCH-003", <<r.v.record_id>>, severity, Audit!Cited("schedule", {r}))
    BY <1>0 DEF Audit!CriticalActivityDelay, Audit!Activities
  <2> QED
    BY <2>1, ActivityFindings
<1>4. Graded(Audit!ActivityProgressLag(data))
  <2>1. \A f \in Audit!ActivityProgressLag(data) :
           \E r \in data.rows["schedule"], severity \in Severities :
             f = Audit!Finding("SCH-004", <<r.v.record_id>>, severity, Audit!Cited("schedule", {r}))
    BY BandsAreSeverities DEF Audit!ActivityProgressLag, Audit!Activities
  <2> QED
    BY <2>1, ActivityFindings
<1>5. Graded(Audit!NegativeFloat(data))
  <2>1. \A f \in Audit!NegativeFloat(data) :
           \E r \in data.rows["schedule"], severity \in Severities :
             f = Audit!Finding("SCH-005", <<r.v.record_id>>, severity, Audit!Cited("schedule", {r}))
    BY <1>0 DEF Audit!NegativeFloat, Audit!Activities
  <2> QED
    BY <2>1, ActivityFindings
<1>6. Graded(Audit!ContradictoryDateProgress(data))
  <2>1. \A f \in Audit!ContradictoryDateProgress(data) :
           \E r \in data.rows["schedule"], severity \in Severities :
             f = Audit!Finding("DQ-003", <<r.v.record_id>>, severity, Audit!Cited("schedule", {r}))
    BY <1>0 DEF Audit!ContradictoryDateProgress, Audit!Activities
  <2> QED
    BY <2>1, ActivityFindings
<1> QED
  BY <1>1, <1>2, <1>3, <1>4, <1>5, <1>6

\* Findings on the records of each domain.
OfRecords(rule, data, T) ==
    \A f \in T : \E d \in Domains : \E r \in data.rows[d] : \E severity \in Severities :
        f = Audit!Finding(rule, <<r.v.record_id>>, severity, Audit!Cited(d, {r}))

\* They are finitely many.
LEMMA RecordFindings ==
    ASSUME NEW data, IsFiniteData(data), NEW rule, NEW T, OfRecords(rule, data, T)
    PROVE  Graded(T)
<1>1. ASSUME NEW d \in Domains, NEW r \in data.rows[d], NEW severity \in Severities
      PROVE  Audit!Finding(rule, <<r.v.record_id>>, severity, Audit!Cited(d, {r}))
                 \in Candidates(rule, data)
  BY IsCandidate, RecordIsEntity
<1>2. ASSUME NEW f \in T
      PROVE  f \in Candidates(rule, data)
  <2>1. PICK d \in Domains : \E r \in data.rows[d] : \E severity \in Severities :
            f = Audit!Finding(rule, <<r.v.record_id>>, severity, Audit!Cited(d, {r}))
    BY DEF OfRecords
  <2>2. PICK r \in data.rows[d], severity \in Severities :
            f = Audit!Finding(rule, <<r.v.record_id>>, severity, Audit!Cited(d, {r}))
    BY <2>1
  <2> QED
    BY <1>1, <2>2
<1>3. T \subseteq Candidates(rule, data)
  BY <1>2
<1> QED
  BY <1>3, FiniteCandidates

\* DQ-001, DQ-004, DQ-005 and CST-005.
LEMMA QualityFindings ==
    ASSUME NEW data, IsFiniteData(data), NEW runtime
    PROVE  /\ Graded(Audit!MissingWBS(data))
           /\ Graded(Audit!OrphanWBS(data))
           /\ Graded(Audit!VendorIdentity(data))
           /\ Graded(Audit!HighValueTransaction(data, runtime))
<1>0. /\ "critical" \in Severities /\ "observation" \in Severities
      /\ Audit!RecordDomains \subseteq Domains
  BY DEF Severities, Audit!RecordDomains, Domains
<1>1. Graded(Audit!MissingWBS(data))
  <2>1. OfRecords("DQ-001", data, Audit!MissingWBS(data))
    BY <1>0 DEF OfRecords, Audit!MissingWBS, Audit!Records
  <2> QED
    BY <2>1, RecordFindings
<1>2. Graded(Audit!OrphanWBS(data))
  <2>1. OfRecords("DQ-004", data, Audit!OrphanWBS(data))
    BY <1>0 DEF OfRecords, Audit!OrphanWBS, Audit!Records
  <2> QED
    BY <2>1, RecordFindings
<1>3. Graded(Audit!VendorIdentity(data))
  <2>1. OfRecords("DQ-005", data, Audit!VendorIdentity(data))
    BY <1>0, DomainNames DEF OfRecords, Audit!VendorIdentity
  <2> QED
    BY <2>1, RecordFindings
<1>4. Graded(Audit!HighValueTransaction(data, runtime))
  <2>1. OfRecords("CST-005", data, Audit!HighValueTransaction(data, runtime))
    BY BandsAreSeverities, DomainNames DEF OfRecords, Audit!HighValueTransaction
  <2> QED
    BY <2>1, RecordFindings
<1> QED
  BY <1>1, <1>2, <1>3, <1>4

\* Progress out of range is reported for the WBS of the row, or for the row.
LEMMA RangeFindings ==
    ASSUME NEW data, IsFiniteData(data)
    PROVE  Graded(Audit!ProgressAbove100(data))
<1>0. "critical" \in Severities
  BY DEF Severities
<1>1. \A f \in Audit!ProgressAbove100(data) : \E r \in data.rows["progress"] :
         \/ f = Audit!Finding("PRG-002", <<r.v.record_id>>, "critical", Audit!Cited("progress", {r}))
         \/ f = Audit!Finding("PRG-002", <<r.v.wbs_code>>, "critical", Audit!Cited("progress", {r}))
  BY DEF Audit!ProgressAbove100
<1>2. ASSUME NEW r \in data.rows["progress"]
      PROVE  /\ Audit!Finding("PRG-002", <<r.v.record_id>>, "critical",
                              Audit!Cited("progress", {r})) \in Candidates("PRG-002", data)
             /\ Audit!Finding("PRG-002", <<r.v.wbs_code>>, "critical",
                              Audit!Cited("progress", {r})) \in Candidates("PRG-002", data)
  BY <1>0, IsCandidate, RecordIsEntity, DomainNames
<1>3. Audit!ProgressAbove100(data) \subseteq Candidates("PRG-002", data)
  BY <1>1, <1>2
<1> QED
  BY <1>3, FiniteCandidates

\* Findings on a WBS named in one domain that cite rows of another.
OfCodes(rule, data, c, d, T) ==
    \A f \in T : \E w \in Audit!Codes(data.rows[c]), rows \in SUBSET data.rows[d],
                    severity \in Severities :
        f = Audit!Finding(rule, <<w>>, severity, Audit!Cited(d, rows))

\* They are finitely many.
LEMMA WBSFindings ==
    ASSUME NEW data, IsFiniteData(data), NEW rule, NEW c \in Domains, NEW d \in Domains,
           NEW T, OfCodes(rule, data, c, d, T)
    PROVE  Graded(T)
<1>1. ASSUME NEW w \in Audit!Codes(data.rows[c]), NEW rows \in SUBSET data.rows[d],
             NEW severity \in Severities
      PROVE  Audit!Finding(rule, <<w>>, severity, Audit!Cited(d, rows)) \in Candidates(rule, data)
  BY IsCandidate, CodeIsEntity
<1>2. ASSUME NEW f \in T
      PROVE  f \in Candidates(rule, data)
  <2>1. PICK w \in Audit!Codes(data.rows[c]), rows \in SUBSET data.rows[d],
             severity \in Severities :
            f = Audit!Finding(rule, <<w>>, severity, Audit!Cited(d, rows))
    BY DEF OfCodes
  <2> QED
    BY <1>1, <2>1
<1>3. T \subseteq Candidates(rule, data)
  BY <1>2
<1> QED
  BY <1>3, FiniteCandidates

\* CST-001, CST-002, CST-003 and XDOM-001.
LEMMA CostFindings ==
    ASSUME NEW data, IsFiniteData(data)
    PROVE  /\ Graded(Audit!ActualExceedsBudget(data))
           /\ Graded(Audit!ExposureExceedsBudget(data))
           /\ Graded(Audit!CostSpike(data))
           /\ Graded(Audit!ScheduleDelayHighCostExposure(data))
<1>0. "critical" \in Severities /\ "warning" \in Severities
  BY DEF Severities
<1>1. \A rows, w, m : /\ Audit!OfWBS(rows, w) \in SUBSET rows
                      /\ Audit!Open(rows) \in SUBSET rows
                      /\ Audit!InMonth(rows, m) \in SUBSET rows
  BY DEF Audit!OfWBS, Audit!Open, Audit!InMonth
<1>2. Graded(Audit!ActualExceedsBudget(data))
  <2>1. OfCodes("CST-001", data, "budget", "actual_cost", Audit!ActualExceedsBudget(data))
    BY <1>1, BandsAreSeverities DEF OfCodes, Audit!ActualExceedsBudget
  <2> QED
    BY <2>1, WBSFindings, DomainNames
<1>3. Graded(Audit!ExposureExceedsBudget(data))
  <2>0. \A w : Audit!Open(Audit!OfWBS(data.rows["commitments"], w))
                   \in SUBSET data.rows["commitments"]
    BY DEF Audit!OfWBS, Audit!Open
  <2>1. OfCodes("CST-002", data, "budget", "commitments", Audit!ExposureExceedsBudget(data))
    BY <2>0, BandsAreSeverities DEF OfCodes, Audit!ExposureExceedsBudget
  <2> QED
    BY <2>1, WBSFindings, DomainNames
<1>4. Graded(Audit!CostSpike(data))
  <2>0. \A w, m : Audit!InMonth(Audit!OfWBS(data.rows["actual_cost"], w), m)
                      \in SUBSET data.rows["actual_cost"]
    BY DEF Audit!OfWBS, Audit!InMonth
  <2>1. OfCodes("CST-003", data, "actual_cost", "actual_cost", Audit!CostSpike(data))
    BY <1>0, <2>0 DEF OfCodes, Audit!CostSpike
  <2> QED
    BY <2>1, WBSFindings, DomainNames
<1>5. Graded(Audit!ScheduleDelayHighCostExposure(data))
  <2>0. \A w : Audit!Delayed(data, w) \in SUBSET data.rows["schedule"]
    BY DEF Audit!OfWBS, Audit!Delayed
  <2>1. OfCodes("XDOM-001", data, "schedule", "schedule", Audit!ScheduleDelayHighCostExposure(data))
    BY <1>0, <2>0 DEF OfCodes, Audit!ScheduleDelayHighCostExposure
  <2> QED
    BY <2>1, WBSFindings, DomainNames
<1> QED
  BY <1>2, <1>3, <1>4, <1>5

\* One finding for each WBS that a domain names.
OneEach(data, c, T) ==
    /\ \A t \in T : /\ t.severity \in Severities
                    /\ \E w \in Audit!Codes(data.rows[c]) : t.entity = <<w>>
    /\ \A t, u \in T : t.entity = u.entity => t = u

\* They are finitely many, whatever they cite.
LEMMA OneEachIsGraded ==
    ASSUME NEW data, IsFiniteData(data), NEW c \in Domains, NEW T, OneEach(data, c, T)
    PROVE  Graded(T)
<1> DEFINE key == [t \in T |-> t.entity]
           S == {<<p[1]>> : p \in NamesOf(data) \X NamesOf(data)}
           one == [p \in NamesOf(data) \X NamesOf(data) |-> <<p[1]>>]
<1>1. IsFiniteSet(S)
  <2>1. IsFiniteSet(NamesOf(data) \X NamesOf(data))
    BY FinitePlaces, FS_Product
  <2>2. \A t \in S : \E p \in NamesOf(data) \X NamesOf(data) : t = one[p]
    OBVIOUS
  <2> HIDE DEF S, one
  <2> QED
    BY <2>1, <2>2, FiniteImage
<1>2. \A t \in T : key[t] \in S
  <2> SUFFICES ASSUME NEW t \in T
               PROVE  key[t] \in S
    OBVIOUS
  <2>1. PICK w \in Audit!Codes(data.rows[c]) : t.entity = <<w>>
    BY DEF OneEach
  <2>2. w \in NamesOf(data)
    BY DEF Audit!Codes, NamesOf
  <2>3. <<w, w>> \in NamesOf(data) \X NamesOf(data) /\ <<w, w>>[1] = w
    BY <2>2
  <2> QED
    BY <2>1, <2>3
<1>3. \A t, u \in T : key[t] = key[u] => t = u
  BY DEF OneEach
<1> HIDE DEF key, S
<1>4. IsFiniteSet(T)
  BY <1>1, <1>2, <1>3, FiniteByKey
<1> QED
  BY <1>4 DEF Graded, OneEach

\* CST-006, PRG-001 and PRG-003.
LEMMA ProgressFindings ==
    ASSUME NEW data, IsFiniteData(data), NEW runtime
    PROVE  /\ Graded(Audit!HighCostLowProgress(data))
           /\ Graded(Audit!WBSProgressLag(data))
           /\ Graded(Audit!CostRisingProgressFlat(data, runtime))
<1>0. "critical" \in Severities
  BY DEF Severities
<1>1. Graded(Audit!HighCostLowProgress(data))
  <2> DEFINE E(w) == Audit!Cited("actual_cost", Audit!OfWBS(data.rows.actual_cost, w))
                     \union Audit!Cited("progress", {Audit!Latest(data, w)})
  <2>1. \A t \in Audit!HighCostLowProgress(data) : \E w \in Audit!Codes(data.rows["progress"]) :
           t = Audit!Finding("CST-006", <<w>>, "critical", E(w))
    BY DEF Audit!HighCostLowProgress
  <2> HIDE DEF E
  <2>2. OneEach(data, "progress", Audit!HighCostLowProgress(data))
    BY <1>0, <2>1 DEF OneEach, Audit!Finding
  <2> QED
    BY <2>2, OneEachIsGraded, DomainNames
<1>2. Graded(Audit!WBSProgressLag(data))
  <2> DEFINE E(w) == Audit!Cited("progress", {Audit!Latest(data, w)})
             Severe(w) == Audit!Banded(Audit!Lag(Audit!Latest(data, w).v) >= 20, "warning")
  <2>1. \A t \in Audit!WBSProgressLag(data) : \E w \in Audit!Codes(data.rows["progress"]) :
           t = Audit!Finding("PRG-001", <<w>>, Severe(w), E(w))
    BY DEF Audit!WBSProgressLag
  <2>2. \A w : Severe(w) \in Severities
    BY BandsAreSeverities
  <2> HIDE DEF E, Severe
  <2>3. OneEach(data, "progress", Audit!WBSProgressLag(data))
    BY <2>1, <2>2 DEF OneEach, Audit!Finding
  <2> QED
    BY <2>3, OneEachIsGraded, DomainNames
<1>3. Graded(Audit!CostRisingProgressFlat(data, runtime))
  <2> DEFINE Previous(w) ==
                 LET earlier == Audit!OfWBS(data.rows.progress, w) \ {Audit!Latest(data, w)}
                 IN  CHOOSE r \in earlier : \A s \in earlier \ {r} : Audit!Later(r, s)
             Costs(w) == Audit!InMonth(Audit!OfWBS(data.rows.actual_cost, w),
                                       Audit!Month(Audit!Latest(data, w).v.period))
             E(w) == Audit!Cited("actual_cost", Costs(w))
                     \union Audit!Cited("progress", {Audit!Latest(data, w), Previous(w)})
             T == Audit!CostRisingProgressFlat(data, runtime)
  <2>1. \A t \in T : \E w \in Audit!Codes(data.rows["progress"]) :
           t = Audit!Finding("PRG-003", <<w>>, "critical", E(w))
    BY DEF Audit!CostRisingProgressFlat
  <2> HIDE DEF E, T
  <2>2. OneEach(data, "progress", T)
    BY <1>0, <2>1 DEF OneEach, Audit!Finding
  <2>3. Graded(T)
    BY <2>2, OneEachIsGraded, DomainNames
  <2> QED
    BY <2>3 DEF T
<1> QED
  BY <1>1, <1>2, <1>3

\* CST-004: one finding for each WBS and vendor, or for each vendor.
LEMMA VendorFindings ==
    ASSUME NEW data, IsFiniteData(data), NEW runtime
    PROVE  Graded(Audit!VendorConcentration(data, runtime))
<1> DEFINE N == NamesOf(data)
           costs == data.rows["actual_cost"]
           T == Audit!VendorConcentration(data, runtime)
<1>1. \A r \in costs : r.v.wbs_code \in N /\ r.v.vendor_id \in N
  BY DomainNames DEF NamesOf
<1>2. \A t \in T : \E r \in costs : \E entity : \E rows \in SUBSET costs, severity \in Severities :
         /\ t = Audit!Finding("CST-004", entity, severity, Audit!Cited("actual_cost", rows))
         /\ entity = <<r.v.wbs_code, r.v.vendor_id>> \/ entity = <<r.v.vendor_id>>
  <2> DEFINE Pairs == {<<r.v.wbs_code, r.v.vendor_id>> : r \in {s \in data.rows.actual_cost :
                           s.v.wbs_code # None /\ s.v.vendor_id # None}}
             Large == {p \in Pairs : Audit!Share(data, p[1], p[2], 40)}
             Amount(p) == Audit!Total(Audit!OfVendor(Audit!OfWBS(data.rows.actual_cost, p[1]),
                                                     p[2]), "actual_amount")
             Weight(p, q) == Amount(p) * Audit!Actual(data, q[1])
             Stronger(p, q) == IF Audit!Actual(data, p[1]) * Audit!Actual(data, q[1]) > 0
                               THEN Weight(p, q) > Weight(q, p) ELSE Weight(p, q) < Weight(q, p)
             First(p) == Audit!Min({r.row : r \in Audit!OfVendor(
                                 Audit!OfWBS(data.rows.actual_cost, p[1]), p[2])})
             Strongest == {p \in Large : \A q \in Large : q[2] = p[2] /\ q # p =>
                              Stronger(p, q) \/ (~Stronger(q, p) /\ First(p) < First(q))}
             Rows(p) == Audit!OfVendor(Audit!OfWBS(data.rows.actual_cost, p[1]), p[2])
             Severe(p) == Audit!Banded(Audit!Share(data, p[1], p[2], 60), "warning")
             Judged == IF runtime THEN Large ELSE Strongest
             Entity(p) == IF runtime THEN p ELSE <<p[2]>>
  <2>1. T = {Audit!Finding("CST-004", Entity(p), Severe(p),
                           Audit!Cited("actual_cost", Rows(p))) : p \in Judged}
    BY Zenon DEF Audit!VendorConcentration
  <2>2. Judged \subseteq Pairs
    OBVIOUS
  <2>3. \A p : Rows(p) \in SUBSET costs
    BY DEF Audit!OfVendor, Audit!OfWBS
  <2>4. \A p : Severe(p) \in Severities
    BY BandsAreSeverities
  <2>5. \A p : Entity(p) = p \/ Entity(p) = <<p[2]>>
    OBVIOUS
  <2> HIDE DEF T, Judged, Severe, Rows, Entity
  <2> SUFFICES ASSUME NEW t \in T
               PROVE  \E r \in costs : \E entity : \E rows \in SUBSET costs, severity \in Severities :
         /\ t = Audit!Finding("CST-004", entity, severity, Audit!Cited("actual_cost", rows))
         /\ entity = <<r.v.wbs_code, r.v.vendor_id>> \/ entity = <<r.v.vendor_id>>
    OBVIOUS
  <2>6. PICK p \in Judged :
            t = Audit!Finding("CST-004", Entity(p), Severe(p), Audit!Cited("actual_cost", Rows(p)))
    BY <2>1
  <2>7. PICK r \in costs : p = <<r.v.wbs_code, r.v.vendor_id>>
    BY <2>2
  <2>8. Entity(p) = <<r.v.wbs_code, r.v.vendor_id>> \/ Entity(p) = <<r.v.vendor_id>>
    BY <2>5, <2>7
  <2> QED
    BY <2>3, <2>4, <2>6, <2>8
<1>3. \A a, b \in N : <<a, b>> \in Entities(data) /\ <<b>> \in Entities(data)
  <2> TAKE a \in N, b \in N
  <2>1. <<b, b>> \in N \X N /\ <<b, b>>[1] = b /\ <<a, b>> \in N \X N
    OBVIOUS
  <2> HIDE DEF N
  <2> QED
    BY <2>1 DEF Entities, N
<1>4. ASSUME NEW t \in T
      PROVE  t \in Candidates("CST-004", data)
  <2>1. PICK r \in costs : \E entity : \E rows \in SUBSET costs, severity \in Severities :
         /\ t = Audit!Finding("CST-004", entity, severity, Audit!Cited("actual_cost", rows))
         /\ entity = <<r.v.wbs_code, r.v.vendor_id>> \/ entity = <<r.v.vendor_id>>
    BY <1>2
  <2>2. PICK entity : \E rows \in SUBSET costs, severity \in Severities :
         /\ t = Audit!Finding("CST-004", entity, severity, Audit!Cited("actual_cost", rows))
         /\ entity = <<r.v.wbs_code, r.v.vendor_id>> \/ entity = <<r.v.vendor_id>>
    BY <2>1
  <2>3. entity \in Entities(data)
    BY <1>1, <1>3, <2>2
  <2> QED
    BY <2>2, <2>3, IsCandidate, DomainNames
<1> HIDE DEF T
<1>5. T \subseteq Candidates("CST-004", data)
  BY <1>4
<1>6. Graded(T)
  BY <1>5, FiniteCandidates
<1> QED
  BY <1>6 DEF T

\* DQ-002: one finding for each group of costs that are alike.
LEMMA DuplicateFindings ==
    ASSUME NEW data, IsFiniteData(data)
    PROVE  Graded(Audit!DuplicateCost(data))
<1> DEFINE costs == data.rows["actual_cost"]
           Ids(rows) == CHOOSE ids \in {[i \in DOMAIN q |-> q[i].v.record_id] :
                                           q \in Audit!SetToSeqs(rows)} : TRUE
           f == [rows \in SUBSET costs |->
                    Audit!Finding("DQ-002", Ids(rows), "warning", Audit!Cited("actual_cost", rows))]
           T == Audit!DuplicateCost(data)
<1>1. \A t \in T : \E rows \in SUBSET costs :
         t = Audit!Finding("DQ-002", Ids(rows), "warning", Audit!Cited("actual_cost", rows))
  <2> DEFINE Key(v) == <<v.transaction_date, v.wbs_code, Audit!Vendor(v), v.actual_amount>>
             Group(r) == {s \in data.rows.actual_cost : Key(s.v) = Key(r.v)}
             Twice == {s \in data.rows.actual_cost : Audit!Cardinality(Group(s)) >= 2}
             F(rows) == Audit!Finding("DQ-002", Ids(rows), "warning",
                                      Audit!Cited("actual_cost", rows))
  <2>1. T = {F(Group(r)) : r \in Twice}
    BY Zenon DEF Audit!DuplicateCost
  <2>2. \A r : Group(r) \in SUBSET costs
    OBVIOUS
  <2> HIDE DEF T, Twice, Group, F
  <2>3. \A t \in T : \E rows \in SUBSET costs : t = F(rows)
    BY <2>1, <2>2
  <2> QED
    BY <2>3 DEF F
<1>2. \A rows \in SUBSET costs :
         f[rows] = Audit!Finding("DQ-002", Ids(rows), "warning", Audit!Cited("actual_cost", rows))
  OBVIOUS
<1> HIDE DEF Ids, f, T
<1>3. \A t \in T : \E rows \in SUBSET costs : t = f[rows]
  BY <1>1, <1>2
<1>4. \A t \in T : t.severity = "warning"
  BY <1>1 DEF Audit!Finding
<1>5. IsFiniteSet(SUBSET costs)
  BY DomainNames, FS_SUBSET DEF IsFiniteData
<1>6. IsFiniteSet(T)
  BY <1>3, <1>5, FiniteImage
<1>7. Graded(T)
  BY <1>4, <1>6 DEF Graded, Severities
<1> QED
  BY <1>7 DEF T

-----------------------------------------------------------------------------
(* All rules.                                                                 *)

\* Whatever is in the dataset, a rule makes finitely many findings, each of a
\* severity that has a penalty.
LEMMA RuleFindings ==
    ASSUME NEW data, IsFiniteData(data), NEW runtime, NEW rule \in Audit!Rules
    PROVE  Graded(Audit!evaluate(rule, data, runtime))
<1>1. CASE rule = "DQ-001"
  BY <1>1, QualityFindings DEF Audit!evaluate
<1>2. CASE rule = "DQ-002"
  BY <1>2, DuplicateFindings DEF Audit!evaluate
<1>3. CASE rule = "DQ-003"
  BY <1>3, ScheduleFindings DEF Audit!evaluate
<1>4. CASE rule = "DQ-004"
  BY <1>4, QualityFindings DEF Audit!evaluate
<1>5. CASE rule = "DQ-005"
  BY <1>5, QualityFindings DEF Audit!evaluate
<1>6. CASE rule = "CST-001"
  BY <1>6, CostFindings DEF Audit!evaluate
<1>7. CASE rule = "CST-002"
  BY <1>7, CostFindings DEF Audit!evaluate
<1>8. CASE rule = "CST-003"
  BY <1>8, CostFindings DEF Audit!evaluate
<1>9. CASE rule = "CST-004"
  BY <1>9, VendorFindings DEF Audit!evaluate
<1>10. CASE rule = "CST-005"
  BY <1>10, QualityFindings DEF Audit!evaluate
<1>11. CASE rule = "CST-006"
  BY <1>11, ProgressFindings DEF Audit!evaluate
<1>12. CASE rule \in {"SCH-001", "SCH-002", "SCH-003", "SCH-004", "SCH-005"}
  BY <1>12, ScheduleFindings DEF Audit!evaluate
<1>13. CASE rule = "PRG-001"
  BY <1>13, ProgressFindings DEF Audit!evaluate
<1>14. CASE rule = "PRG-002"
  BY <1>14, RangeFindings DEF Audit!evaluate
<1>15. CASE rule = "PRG-003"
  BY <1>15, ProgressFindings DEF Audit!evaluate
<1>16. CASE rule = "XDOM-001"
  BY <1>16, CostFindings DEF Audit!evaluate
<1> QED
  BY <1>1, <1>2, <1>3, <1>4, <1>5, <1>6, <1>7, <1>8, <1>9, <1>10,
     <1>11, <1>12, <1>13, <1>14, <1>15, <1>16 DEF Audit!Rules

\* The rules are finitely many.
LEMMA FiniteRules == IsFiniteSet(Audit!Rules)
<1> DEFINE f == <<"DQ-001", "DQ-002", "DQ-003", "DQ-004", "DQ-005",
                  "CST-001", "CST-002", "CST-003", "CST-004", "CST-005", "CST-006",
                  "SCH-001", "SCH-002", "SCH-003", "SCH-004", "SCH-005",
                  "PRG-001", "PRG-002", "PRG-003", "XDOM-001">>
<1>1. \A n \in 1..20 : n \in DOMAIN f
  OBVIOUS
<1>2. \A rule \in Audit!Rules : \E n \in 1..20 : rule = f[n]
  BY DEF Audit!Rules
<1> HIDE DEF f
<1>3. IsFiniteSet(1..20)
  <2>1. \A a, b \in Int : IsFiniteSet(a..b)
    BY FiniteIntervals
  <2>2. 1 \in Int /\ 20 \in Int
    OBVIOUS
  <2> QED
    BY <2>1, <2>2
<1> QED
  BY <1>2, <1>3, FiniteImage

\* So the findings of a run are finitely many, each with a penalty.
LEMMA RunFindings ==
    ASSUME NEW data, IsFiniteData(data), NEW runtime
    PROVE  Graded(Audit!run_gated(data, runtime).findings)
<1> DEFINE executed == Audit!run_gated(data, runtime).executed
           f == [r \in executed |-> Audit!evaluate(r, data, runtime)]
           T == Audit!run_gated(data, runtime).findings
<1>1. executed \subseteq Audit!Rules
  BY ExecutedExactly
<1>2. T = UNION {f[r] : r \in executed}
  <2>1. T = UNION {Audit!evaluate(r, data, runtime) : r \in executed}
    BY ExecutedExactly
  <2>2. \A r \in executed : f[r] = Audit!evaluate(r, data, runtime)
    OBVIOUS
  <2> HIDE DEF executed, f, T
  <2> QED
    BY <2>1, <2>2
<1>3. \A r \in executed : Graded(f[r])
  BY <1>1, RuleFindings
<1> HIDE DEF executed, f, T
<1>4. IsFiniteSet(executed)
  BY <1>1, FiniteRules, FS_Subset
<1>5. IsFiniteSet(T)
  BY <1>2, <1>3, <1>4, FiniteUnion DEF Graded
<1>6. Graded(T)
  BY <1>2, <1>3, <1>5 DEF Graded
<1> QED
  BY <1>6 DEF T

\* The dataset of a snapshot has finitely many rows.
LEMMA LoadedIsFinite ==
    ASSUME NEW b, IsRead(b), NEW m, Maps(extract_workbook(b), m)
    PROVE  IsFiniteData(load(_complete_mapped(extract_workbook(b), m)))
<1> DEFINE e == extract_workbook(b)
           s == _complete_mapped(e, m)
<1> SUFFICES ASSUME NEW d \in Domains
             PROVE  IsFiniteSet(load(s).rows[d])
  BY DEF IsFiniteData
<1> DEFINE f == [i \in Kept(e, d) |-> Reloaded(d, [row |-> MappedRows(e, d)[i].row,
                                                   v |-> MappedRows(e, d)[i].record])]
<1>1. load(s).rows[d] = {f[i] : i \in Kept(e, d)}
  BY LoadedRows
<1>2. Kept(e, d) \subseteq DOMAIN e.rows_by_domain[d]
  BY MappedRow DEF Kept
<1>3. IsFiniteSet(DOMAIN e.rows_by_domain[d])
  <2>1. CASE b.sheets[d] = None
    <3>1. e.rows_by_domain[d] = <<>>
      BY <2>1 DEF extract_workbook
    <3> QED
      BY <3>1, FS_EmptySet
  <2>2. CASE b.sheets[d] # None
    <3> DEFINE filled == FilledRows(b.sheets[d])
    <3>1. e.rows_by_domain[d] = ExtractedRows(b.sheets[d])
      BY <2>2 DEF extract_workbook
    <3>2. DOMAIN ExtractedRows(b.sheets[d]) = DOMAIN Ascending(filled)
      BY DEF ExtractedRows
    <3>3. PICK N \in Nat : filled \in SUBSET (1..N)
      BY <2>2 DEF IsRead, IsNumbered, FilledRows
    <3> HIDE DEF filled
    <3>4. Cardinality(filled) \in Nat /\ DOMAIN Ascending(filled) = 1..Cardinality(filled)
      BY <3>3, AscendingLists
    <3> QED
      BY <3>1, <3>2, <3>4, FiniteIntervals
  <2> QED
    BY <2>1, <2>2
<1> HIDE DEF e, f
<1>4. IsFiniteSet(Kept(e, d))
  BY <1>2, <1>3, FS_Subset
<1>5. \A t \in load(s).rows[d] : \E i \in Kept(e, d) : t = f[i]
  BY <1>1
<1> QED
  BY <1>4, <1>5, FiniteImage

-----------------------------------------------------------------------------
(* The health score.                                                          *)

\* The score of a category is a number of points of a hundred, and each
\* finding of the category takes some away.
LEMMA CategoryPoints ==
    ASSUME NEW findings, Graded(findings), NEW c
    PROVE  /\ Audit!CategoryScore(findings, c) \in 0..100
           /\ Audit!Bucket(findings, c) # {} => Audit!CategoryScore(findings, c) \in 0..99
<1> DEFINE bucket == Audit!Bucket(findings, c)
           w == [f \in bucket |-> Audit!SEVERITY_PENALTIES[f.severity]]
           Eq(g) == g = [s \in SUBSET bucket |->
                           IF s = {} THEN 0
                           ELSE LET x == CHOOSE y \in s : TRUE
                                IN  Audit!SEVERITY_PENALTIES[x.severity] + g[s \ {x}]]
           penalty == (CHOOSE g : Eq(g))[bucket]
<1>1. IsFiniteSet(bucket) /\ \A f \in bucket : f.severity \in Severities
  <2>1. bucket \subseteq findings
    BY DEF Audit!Bucket
  <2> QED
    BY <2>1, FS_Subset DEF Graded
<1>2. \A f \in bucket : w[f] \in Nat /\ w[f] >= 1
  BY <1>1 DEF Severities, Audit!SEVERITY_PENALTIES
<1>3. \A g : Eq(g) <=> Summed(g, bucket, w)
  BY DEF Summed
<1>4. Audit!CategoryScore(findings, c) = IF penalty > 100 THEN 0 ELSE 100 - penalty
  BY DEF Audit!CategoryScore, Audit!MapThenSumSet, Audit!MapThenFoldSet
<1> HIDE DEF bucket, w, Eq
<1>5. \E g : Eq(g)
  BY <1>1, <1>3, SumsExist
<1>6. Summed(CHOOSE g : Eq(g), bucket, w)
  BY <1>3, <1>5
<1>7. penalty \in Nat /\ \A f \in bucket : w[f] <= penalty
  <2> DEFINE h == CHOOSE g : Eq(g)
  <2>1. Summed(h, bucket, w)
    BY <1>6
  <2> HIDE DEF h
  <2>2. bucket \in SUBSET bucket
    OBVIOUS
  <2>3. \A s \in SUBSET bucket : h[s] \in Nat /\ \A x \in s : w[x] <= h[s]
    BY <1>1, <1>2, <2>1, SumBound
  <2> QED
    BY <2>2, <2>3 DEF h
<1> HIDE DEF penalty
<1>8. Audit!CategoryScore(findings, c) \in 0..100
  BY <1>4, <1>7
<1>9. ASSUME NEW f \in bucket
      PROVE  Audit!CategoryScore(findings, c) \in 0..99
  <2>1. penalty >= 1
    BY <1>2, <1>7
  <2> QED
    BY <1>4, <1>7, <2>1
<1> QED
  BY <1>8, <1>9 DEF bucket

\* The overall score is a number.
LEMMA OverallPoints ==
    ASSUME NEW findings, Graded(findings)
    PROVE  Audit!OverallScore(findings) \in Nat
<1> DEFINE C == Audit!Categories
           w == [c \in C |-> Audit!CategoryScore(findings, c) * Audit!DEFAULT_WEIGHTS[c]]
           Eq(g) == g = [s \in SUBSET C |->
                           IF s = {} THEN 0
                           ELSE LET x == CHOOSE y \in s : TRUE
                                IN  (Audit!CategoryScore(findings, x) * Audit!DEFAULT_WEIGHTS[x])
                                    + g[s \ {x}]]
<1>1. IsFiniteSet(C)
  <2>1. IsFiniteSet({"COST", "SCHEDULE", "PROGRESS"}) /\ IsFiniteSet({"DATA_QUALITY"})
    BY FiniteThree, FS_Singleton
  <2>2. C = {"COST", "SCHEDULE", "PROGRESS"} \union {"DATA_QUALITY"}
    BY DEF Audit!Categories
  <2> HIDE DEF C
  <2> QED
    BY <2>1, <2>2, FS_Union
<1>2. \A c \in C : w[c] \in Nat
  <2> TAKE c \in C
  <2> DEFINE points == Audit!CategoryScore(findings, c)
             weight == Audit!DEFAULT_WEIGHTS[c]
  <2>1. points \in Nat
    BY CategoryPoints
  <2>2. weight \in Nat
    BY DEF Audit!Categories, Audit!DEFAULT_WEIGHTS
  <2>3. w[c] = points * weight
    OBVIOUS
  <2> HIDE DEF points, weight, w
  <2> QED
    BY <2>1, <2>2, <2>3
<1>3. \A g : Eq(g) <=> Summed(g, C, w)
  BY DEF Summed
<1>4. Audit!OverallScore(findings) = (CHOOSE g : Eq(g))[C]
  BY DEF Audit!OverallScore, Audit!MapThenSumSet, Audit!MapThenFoldSet
<1> HIDE DEF C, w, Eq
<1>5. \E g : Eq(g)
  BY <1>1, <1>3, SumsExist
<1> DEFINE h == CHOOSE g : Eq(g)
<1>6. Summed(h, C, w)
  BY <1>3, <1>5
<1>7. C \in SUBSET C
  OBVIOUS
<1> HIDE DEF h
<1>8. h[C] \in Nat
  BY <1>1, <1>2, <1>6, <1>7, SumBound
<1> QED
  BY <1>4, <1>8 DEF h

-----------------------------------------------------------------------------
(* The health snapshot.                                                       *)

\* What a run was told of the domains.
Told(data) ==
    /\ DOMAIN data.domain_statuses = Domains
    /\ \A d \in Domains : data.domain_statuses[d] \in {"valid", "warning", "blocked"}

IsBlocked(data, d) == data.domain_statuses[d] = "blocked"

\* DQ-004 and XDOM-001 require every domain, so every rule was executed
\* exactly if no domain is blocked, and the domains that block some rule are
\* the blocked ones.
LEMMA BlockedDomains ==
    ASSUME NEW data, Told(data), NEW runtime
    PROVE  LET execution == Audit!run_gated(data, runtime)
           IN  /\ DOMAIN execution.skipped = {} <=> \A d \in Domains : ~IsBlocked(data, d)
               /\ UNION {execution.skipped[r] : r \in DOMAIN execution.skipped}
                    = {d \in Domains : IsBlocked(data, d)}
<1> DEFINE execution == Audit!run_gated(data, runtime)
           skipped == DOMAIN execution.skipped
           B(r) == Audit!Blocked(r, data.domain_statuses)
<1>1. \A r \in Audit!Rules : B(r) = {d \in Audit!_REQUIRED_DOMAINS_BY_RULE(r) : IsBlocked(data, d)}
  BY RequiredAreDomains DEF Audit!Blocked, IsBlocked, Told
<1>2. "DQ-004" \in Audit!Rules /\ Audit!_REQUIRED_DOMAINS_BY_RULE("DQ-004") = Domains
  BY DEF Audit!Rules, Audit!_REQUIRED_DOMAINS_BY_RULE, Domains
<1>3. B("DQ-004") = {d \in Domains : IsBlocked(data, d)}
  BY <1>1, <1>2
<1>4. \A r \in Audit!Rules : B(r) \subseteq B("DQ-004")
  BY <1>1, <1>3, RequiredAreDomains
<1>5. skipped = {r \in Audit!Rules : B(r) # {}} /\ \A r \in skipped : execution.skipped[r] = B(r)
  BY ExecutedExactly
<1> HIDE DEF execution, B, skipped
<1>6. skipped = {} <=> B("DQ-004") = {}
  BY <1>2, <1>4, <1>5
<1>7. UNION {execution.skipped[r] : r \in skipped} = B("DQ-004")
  BY <1>2, <1>4, <1>5
<1> QED
  BY <1>3, <1>6, <1>7 DEF execution, skipped

\* A rule whose domains are among those of an executed rule is executed too.
LEMMA ExecutedToo ==
    ASSUME NEW data, NEW runtime, NEW r \in Audit!run_gated(data, runtime).executed,
           NEW q \in Audit!Rules,
           Audit!_REQUIRED_DOMAINS_BY_RULE(q) \subseteq Audit!_REQUIRED_DOMAINS_BY_RULE(r)
    PROVE  q \in Audit!run_gated(data, runtime).executed
<1>1. Audit!Blocked(r, data.domain_statuses) = {}
  BY ExecutedExactly
<1>2. Audit!Blocked(q, data.domain_statuses) = {}
  BY <1>1 DEF Audit!Blocked
<1> QED
  BY <1>2, ExecutedExactly

\* A category that is shown has an executed rule of its own, although PRG-003
\* counts as cost and shows progress; and the category of an executed rule is
\* shown.
LEMMA ShownCategories ==
    ASSUME NEW data, NEW runtime
    PROVE  LET executed == Audit!run_gated(data, runtime).executed
               available == Audit!available_health_categories(executed)
           IN  /\ \A c \in available : \E q \in executed : Audit!normalize_category(q) = c
               /\ \A r \in executed : Audit!normalize_category(r) \in available
<1> DEFINE executed == Audit!run_gated(data, runtime).executed
           available == Audit!available_health_categories(executed)
<1>0. /\ executed \subseteq Audit!Rules
      /\ available = {Audit!ShownBy(r) : r \in executed}
  BY ExecutedExactly DEF Audit!available_health_categories
<1>1. \A r \in Audit!Rules \ {"PRG-003"} : Audit!ShownBy(r) = Audit!normalize_category(r)
  BY DEF Audit!Rules, Audit!ShownBy, Audit!normalize_category
<1>2. /\ Audit!ShownBy("PRG-003") = "PROGRESS" /\ Audit!normalize_category("PRG-003") = "COST"
      /\ Audit!normalize_category("PRG-001") = "PROGRESS" /\ Audit!normalize_category("CST-001") = "COST"
      /\ "PRG-001" # "PRG-003" /\ "CST-001" # "PRG-003"
  BY DEF Audit!ShownBy, Audit!normalize_category
<1>3. "PRG-003" \in executed => "PRG-001" \in executed /\ "CST-001" \in executed
  <2> HIDE DEF executed
  <2> SUFFICES ASSUME "PRG-003" \in executed
               PROVE  "PRG-001" \in executed /\ "CST-001" \in executed
    OBVIOUS
  <2>1. /\ "PRG-001" \in Audit!Rules /\ "CST-001" \in Audit!Rules
        /\ Audit!_REQUIRED_DOMAINS_BY_RULE("PRG-001")
             \subseteq Audit!_REQUIRED_DOMAINS_BY_RULE("PRG-003")
        /\ Audit!_REQUIRED_DOMAINS_BY_RULE("CST-001")
             \subseteq Audit!_REQUIRED_DOMAINS_BY_RULE("PRG-003")
    BY DEF Audit!Rules, Audit!_REQUIRED_DOMAINS_BY_RULE
  <2> QED
    BY <2>1, ExecutedToo DEF executed
<1> HIDE DEF executed, available
<1>4. ASSUME NEW c \in available
      PROVE  \E q \in executed : Audit!normalize_category(q) = c
  <2>1. PICK r \in executed : c = Audit!ShownBy(r)
    BY <1>0
  <2>2. CASE r = "PRG-003"
    BY <1>2, <1>3, <2>1, <2>2
  <2>3. CASE r # "PRG-003"
    BY <1>0, <1>1, <2>1, <2>3
  <2> QED
    BY <2>2, <2>3
<1>5. ASSUME NEW r \in executed
      PROVE  Audit!normalize_category(r) \in available
  <2>1. CASE r = "PRG-003"
    <3>1. "CST-001" \in executed /\ Audit!ShownBy("CST-001") = "COST"
      BY <1>0, <1>1, <1>2, <1>3, <2>1
    <3> QED
      BY <1>0, <1>2, <2>1, <3>1
  <2>2. CASE r # "PRG-003"
    BY <1>0, <1>1, <2>2
  <2> QED
    BY <2>1, <2>2
<1> QED
  BY <1>4, <1>5 DEF executed, available

\* What is shown of a run of finitely many findings.
LEMMA ShownScores ==
    ASSUME NEW data, Told(data), IsFiniteData(data), NEW runtime
    PROVE  LET execution == Audit!run_gated(data, runtime)
               shown == Audit!HealthSnapshot(execution)
           IN  /\ \A c \in Audit!Categories : shown.scores[c] # None =>
                     \E q \in execution.executed : Audit!normalize_category(q) = c
               /\ \A f \in execution.findings :
                     shown.scores[Audit!normalize_category(f.rule)] \in 0..99
               /\ shown.overall # None <=> \A d \in Domains : ~IsBlocked(data, d)
               /\ shown.availability.unavailable_domains = {d \in Domains : IsBlocked(data, d)}
<1> DEFINE execution == Audit!run_gated(data, runtime)
           executed == execution.executed
           findings == execution.findings
           available == Audit!available_health_categories(executed)
           skipped == DOMAIN execution.skipped
           shown == Audit!HealthSnapshot(execution)
<1>1. /\ \A c \in available : \E q \in executed : Audit!normalize_category(q) = c
      /\ \A r \in executed : Audit!normalize_category(r) \in available
  BY ShownCategories
<1>2. /\ skipped = {} <=> \A d \in Domains : ~IsBlocked(data, d)
      /\ UNION {execution.skipped[r] : r \in skipped} = {d \in Domains : IsBlocked(data, d)}
  BY BlockedDomains
<1>3. Graded(findings)
  BY RunFindings
<1>4. \A f \in findings : f.rule \in executed
  <2>1. /\ findings = UNION {Audit!evaluate(r, data, runtime) : r \in executed}
        /\ executed \subseteq Audit!Rules
    BY ExecutedExactly
  <2> HIDE DEF executed, findings
  <2> QED
    BY <2>1, FindingNamesItsRule
<1> HIDE DEF execution
<1>5. /\ \A c \in Audit!Categories :
            shown.scores[c] = IF c \in available THEN Audit!CategoryScore(findings, c) ELSE None
      /\ shown.overall = IF skipped = {} THEN Audit!OverallScore(findings) ELSE None
      /\ shown.availability.unavailable_domains
            = UNION {execution.skipped[r] : r \in skipped}
  BY DEF Audit!HealthSnapshot, Audit!compute_health_score, Audit!classify_health_availability
<1>6. \A r : Audit!normalize_category(r) \in Audit!Categories
  BY DEF Audit!normalize_category, Audit!Categories
<1> HIDE DEF executed, findings, available, skipped, shown
<1>7. \A c \in Audit!Categories : shown.scores[c] # None =>
         \E q \in executed : Audit!normalize_category(q) = c
  BY <1>1, <1>5
<1>8. ASSUME NEW f \in findings
      PROVE  shown.scores[Audit!normalize_category(f.rule)] \in 0..99
  <2> DEFINE c == Audit!normalize_category(f.rule)
  <2>1. c \in available /\ c \in Audit!Categories
    BY <1>1, <1>4, <1>6
  <2>2. f \in Audit!Bucket(findings, c)
    BY DEF Audit!Bucket
  <2>3. Audit!CategoryScore(findings, c) \in 0..99
    BY <1>3, <2>2, CategoryPoints
  <2> HIDE DEF c
  <2>4. shown.scores[c] \in 0..99
    BY <1>5, <2>1, <2>3
  <2> QED
    BY <2>4 DEF c
<1>9. shown.overall # None <=> skipped = {}
  BY <1>3, <1>5, OverallPoints, NoneAssumption
<1> QED
  BY <1>2, <1>5, <1>7, <1>8, <1>9 DEF shown, execution, executed, findings, skipped

\* The scores of what was analysed are backed.
LEMMA AnalysedScores == PipelineInv => ScoresAreBacked
<1> SUFFICES ASSUME PipelineInv, health # None
             PROVE  ScoresAreBacked
  BY DEF ScoresAreBacked
<1> DEFINE data == load(snapshot)
<1>1. /\ IsRead(book) /\ Maps(extract_workbook(book), mapped)
      /\ snapshot = _complete_mapped(extract_workbook(book), mapped)
      /\ run.execution = Audit!run_gated(data, run.runtime)
      /\ health = Audit!HealthSnapshot(run.execution)
  BY DEF PipelineInv, Analysed, Stored
<1>2. IsFiniteData(data)
  BY <1>1, LoadedIsFinite
<1>3. \A d \in Domains : /\ data.domain_statuses[d] = mapped.domain_statuses[d]
                         /\ mapped.domain_statuses[d] \in {"valid", "warning", "blocked"}
  BY <1>1, LoadedRows, StatusKinds DEF Maps
<1>4. Told(data)
  <2>1. DOMAIN data.domain_statuses = Domains
    BY DEF load
  <2> HIDE DEF data
  <2> QED
    BY <1>3, <2>1 DEF Told
<1>5. \A d \in Domains : IsBlocked(data, d) <=> snapshot.domain_statuses[d].status = "blocked"
  <2>1. \A d \in Domains : snapshot.domain_statuses[d].status = mapped.domain_statuses[d]
    BY <1>1 DEF _complete_mapped, StatusOfDomain
  <2> HIDE DEF data
  <2> QED
    BY <1>3, <2>1 DEF IsBlocked
<1> DEFINE execution == Audit!run_gated(data, run.runtime)
           shown == Audit!HealthSnapshot(execution)
<1> HIDE DEF data
<1>6. /\ \A c \in Audit!Categories : shown.scores[c] # None =>
            \E q \in execution.executed : Audit!normalize_category(q) = c
      /\ \A f \in execution.findings :
            shown.scores[Audit!normalize_category(f.rule)] \in 0..99
      /\ shown.overall # None <=> \A d \in Domains : ~IsBlocked(data, d)
      /\ shown.availability.unavailable_domains = {d \in Domains : IsBlocked(data, d)}
  BY <1>2, <1>4, ShownScores
<1>7. run.execution = execution /\ health = shown
  BY <1>1
<1> HIDE DEF execution, shown
<1> QED
  BY <1>5, <1>6, <1>7 DEF ScoresAreBacked

\* No score is made up and no finding is lost from one: a score is shown only
\* for a category one of whose rules ran, it is below 100 for a category with
\* a finding, the overall score is there exactly when no domain was blocked,
\* and the domains said to be unavailable are the blocked ones
\* (complete_run's classify_health_availability, available_health_categories
\* and compute_health_score).
THEOREM ScoresHaveRules == Spec => []ScoresAreBacked
<1>1. PipelineInv => ScoresAreBacked
  BY AnalysedScores
<1> QED
  BY <1>1, PipelineInvHolds, PTL

-----------------------------------------------------------------------------
(* Amounts.                                                                   *)

\* The columns of amounts: required decimals.
AmountDomains == {"budget", "actual_cost", "commitments"}
Amounts(d) == CASE d = "budget" -> {"budget_amount"}
                [] d = "actual_cost" -> {"actual_amount"}
                [] OTHER -> {"committed_amount", "invoiced_amount"}

\* An amount has one column of the profile.
LEMMA AmountColumn ==
    ASSUME NEW d \in AmountDomains, NEW f \in Amounts(d)
    PROVE  \E i \in DOMAIN profile[d] :
              /\ profile[d][i] = Column(f, "decimal", TRUE, FALSE)
              /\ f \in Fields(d)
              /\ \A j \in DOMAIN profile[d] : profile[d][j].field = f => j = i
<1>1. CASE d = "budget"
  <2>1. f = "budget_amount"
    BY <1>1 DEF Amounts
  <2>2. /\ 3 \in DOMAIN profile["budget"]
        /\ profile["budget"][3] = Column("budget_amount", "decimal", TRUE, FALSE)
        /\ \A j \in DOMAIN profile["budget"] :
              profile["budget"][j].field = "budget_amount" => j = 3
    BY DEF profile, Column
  <2>3. "budget_amount" \in Fields("budget")
    BY <2>2 DEF Fields, Column
  <2> QED
    BY <1>1, <2>1, <2>2, <2>3
<1>2. CASE d = "actual_cost"
  <2>1. f = "actual_amount"
    BY <1>2 DEF Amounts
  <2>2. /\ 6 \in DOMAIN profile["actual_cost"]
        /\ profile["actual_cost"][6] = Column("actual_amount", "decimal", TRUE, FALSE)
        /\ \A j \in DOMAIN profile["actual_cost"] :
              profile["actual_cost"][j].field = "actual_amount" => j = 6
    BY DEF profile, Column
  <2>3. "actual_amount" \in Fields("actual_cost")
    BY <2>2 DEF Fields, Column
  <2> QED
    BY <1>2, <2>1, <2>2, <2>3
<1>3. CASE d = "commitments"
  <2> DEFINE c == profile["commitments"]
  <2>1. f = "committed_amount" \/ f = "invoiced_amount"
    BY <1>3 DEF Amounts
  <2>2. /\ 3 \in DOMAIN c /\ 4 \in DOMAIN c
        /\ c[3] = Column("committed_amount", "decimal", TRUE, FALSE)
        /\ c[4] = Column("invoiced_amount", "decimal", TRUE, FALSE)
        /\ \A j \in DOMAIN c : c[j].field = "committed_amount" => j = 3
        /\ \A j \in DOMAIN c : c[j].field = "invoiced_amount" => j = 4
    BY DEF profile, Column
  <2>3. "committed_amount" \in Fields("commitments") /\ "invoiced_amount" \in Fields("commitments")
    BY <2>2 DEF Fields, Column
  <2> QED
    BY <1>3, <2>1, <2>2, <2>3, ZenonT(60)
<1> QED
  BY <1>1, <1>2, <1>3 DEF AmountDomains

\* The cells of an extracted row hold numbers.
IsTyped(x) == \A k \in DOMAIN x.values : x.values[k].n \in Int

\* A required decimal that is read without an error is a number.
LEMMA AmountScalar ==
    ASSUME NEW c, c.n \in Int, NEW f,
           Errors(_normalize_scalar(c, Column(f, "decimal", TRUE, FALSE)).issues) = {}
    PROVE  _normalize_scalar(c, Column(f, "decimal", TRUE, FALSE)).value \in Int
<1> DEFINE column == Column(f, "decimal", TRUE, FALSE)
<1>1. column.required = TRUE /\ column.percentage = FALSE /\ column.scalar = "decimal"
  BY DEF Column
<1> HIDE DEF column
<1>2. \A code, field : Errors(Refused(code, field).issues) # {}
  <2> TAKE code, field
  <2>1. Error(code, field) \in Refused(code, field).issues /\ Error(code, field).severity = "error"
    BY DEF Refused, Error
  <2> QED
    BY <2>1 DEF Errors
<1>3. CASE c.t \in {"none", "spaces"}
  <2>1. _normalize_scalar(c, column) = Refused("missing_required_value", column.field)
    BY <1>1, <1>3 DEF _normalize_scalar
  <2> QED
    BY <1>2, <2>1 DEF column
<1>4. CASE c.t \notin {"none", "spaces"}
  <2>1. _normalize_scalar(c, column) = _decimal(c, column)
    BY <1>1, <1>4 DEF _normalize_scalar
  <2>2. CASE c.t \in {"number", "numeral"}
    <3>1. _decimal(c, column) = Value(c.n)
      BY <1>1, <2>2 DEF _decimal
    <3>2. Value(c.n).value = c.n
      BY DEF Value
    <3>3. _normalize_scalar(c, column).value \in Int
      BY <2>1, <3>1, <3>2
    <3> QED
      BY <3>3 DEF column
  <2>3. CASE c.t \notin {"number", "numeral"}
    <3>1. _decimal(c, column) = Refused("invalid_decimal", column.field)
      BY <1>1, <2>3 DEF _decimal
    <3> QED
      BY <1>2, <2>1, <3>1 DEF column
  <2> QED
    BY <2>2, <2>3
<1> QED
  BY <1>3, <1>4

\* So the amounts of a row that was mapped to a record are numbers.
LEMMA MappedAmount ==
    ASSUME NoneIsNoFunction, NEW d \in AmountDomains, NEW f \in Amounts(d), NEW x, IsTyped(x),
           _map_row(d, x).record # None
    PROVE  _map_row(d, x).record[f] \in Int
<1> DEFINE columns == profile[d]
           Cell(c) == IF <<c.field>> \in DOMAIN x.values THEN x.values[<<c.field>>] ELSE Blank
           scalars == [i \in DOMAIN columns |-> _normalize_scalar(Cell(columns[i]), columns[i])]
           values == [g \in Fields(d) |->
                         scalars[CHOOSE i \in DOMAIN columns : columns[i].field = g].value]
           read == UNION {scalars[i].issues : i \in DOMAIN columns}
           issues == read \union ContradictoryDates(d, values, read)
                          \union InvalidIdentity(d, values, read)
<1>1. _map_row(d, x) = [row |-> x.row,
                        record |-> IF Errors(issues) = {} THEN values ELSE None,
                        issues |-> issues]
  BY ZenonT(60) DEF _map_row
<1>2. PICK i \in DOMAIN columns : /\ columns[i] = Column(f, "decimal", TRUE, FALSE)
                                  /\ f \in Fields(d)
                                  /\ \A j \in DOMAIN columns : columns[j].field = f => j = i
  BY AmountColumn, ZenonT(60)
<1>3. Errors(issues) = {} /\ _map_row(d, x).record = values
  <2> HIDE DEF issues, values
  <2> QED
    BY <1>1
<1>4. Errors(scalars[i].issues) = {}
  <2>1. scalars[i].issues \subseteq issues
    BY <1>2, ZenonT(60)
  <2> HIDE DEF issues, scalars
  <2> QED
    BY <1>3, <2>1 DEF Errors
<1>5. columns[i].field = f
  BY <1>2 DEF Column
<1>6. (CHOOSE j \in DOMAIN columns : columns[j].field = f) = i
  <2> HIDE DEF columns
  <2> QED
    BY <1>2, <1>5
<1>7. Cell(columns[i]).n \in Int
  BY DEF IsTyped, Blank
<1>8. scalars[i] = _normalize_scalar(Cell(columns[i]), Column(f, "decimal", TRUE, FALSE))
  <2> HIDE DEF columns, Cell
  <2> QED
    BY <1>2
<1>9. scalars[i].value \in Int
  <2> HIDE DEF columns, Cell, scalars
  <2> QED
    BY <1>4, <1>7, <1>8, AmountScalar
<1>10. values[f] = scalars[i].value
  <2> HIDE DEF columns, scalars
  <2> QED
    BY <1>2, <1>6
<1> HIDE DEF values
<1> QED
  BY <1>3, <1>9, <1>10
-----------------------------------------------------------------------------
(* Costs and exposures.                                                       *)

\* The sheets of amounts hold cells: they were uploaded, since no import of a
\* schedule has any. What was run is stored.
HasCells(b) == \A d \in AmountDomains : b.sheets[d] # None => IsSheet(b.sheets[d])

CellsInv ==
    /\ snapshot # None => HasCells(book)
    /\ run # None => snapshot # None

\* The rows that are extracted of such a sheet hold its cells.
LEMMA ExtractedCells ==
    ASSUME NEW sheet, IsSheet(sheet), NEW n \in DOMAIN ExtractedRows(sheet)
    PROVE  IsTyped(ExtractedRows(sheet)[n])
<1> DEFINE headers == sheet.headers
           N == Len(headers)
           keys == _unique_value_keys(headers)
           At(k) == CHOOSE p \in DOMAIN keys : keys[p] = k
           filled == FilledRows(sheet)
           kept == Ascending(filled)
           Row(i) == [row |-> i,
                      values |-> [k \in Range(keys) |-> _json_safe(sheet.rows[i][At(k)])]]
<1>1. N \in Nat /\ sheet.rows \in Seq([1..N -> Cells])
  BY DEF IsSheet, HasHeaders, IsString
<1>2. DOMAIN keys = 1..N
  <2>1. GoodKeys(headers, N, keys)
    BY KeysAreUnique DEF IsSheet, HasHeaders
  <2> HIDE DEF keys, headers
  <2> QED
    BY <1>1, <2>1 DEF GoodKeys
<1>3. \A k \in Range(keys) : At(k) \in 1..N
  <2> HIDE DEF keys
  <2> QED
    BY <1>2 DEF Range
<1>4. kept[n] \in DOMAIN sheet.rows /\ n \in DOMAIN kept
  <2>1. n \in DOMAIN kept
    BY DEF ExtractedRows
  <2>2. PICK M \in Nat : DOMAIN sheet.rows = 1..M
    BY <1>1
  <2>3. filled \in SUBSET (1..M)
    BY <2>2 DEF FilledRows
  <2> HIDE DEF filled
  <2>4. DOMAIN kept = 1..Cardinality(filled) /\ \A m \in 1..Cardinality(filled) : kept[m] \in filled
    BY <2>3, AscendingLists
  <2> QED
    BY <2>1, <2>2, <2>3, <2>4
<1>5. ExtractedRows(sheet)[n] = Row(kept[n])
  BY <1>4 DEF ExtractedRows
<1>6. ASSUME NEW k \in Range(keys)
      PROVE  _json_safe(sheet.rows[kept[n]][At(k)]).n \in Int
  <2> DEFINE c == sheet.rows[kept[n]][At(k)]
  <2>1. sheet.rows[kept[n]] \in [1..N -> Cells]
    <3> HIDE DEF kept, N
    <3> QED
      BY <1>1, <1>4
  <2>2. c \in Cells
    <3> HIDE DEF kept, N, At, keys
    <3> QED
      BY <1>3, <2>1
  <2> HIDE DEF c
  <2>3. _json_safe(c).n = c.n
    BY <2>2 DEF _json_safe, Cells
  <2> QED
    BY <2>2, <2>3 DEF Cells, c
<1> HIDE DEF At, keys, kept
<1>7. \A i : /\ DOMAIN Row(i).values = Range(keys)
             /\ \A k \in Range(keys) : Row(i).values[k] = _json_safe(sheet.rows[i][At(k)])
  OBVIOUS
<1> HIDE DEF Row
<1> QED
  BY <1>5, <1>6, <1>7 DEF IsTyped

\* The amounts of the dataset are numbers.
HasAmounts(data) ==
    \A d \in AmountDomains : \A r \in data.rows[d] : \A f \in Amounts(d) : r.v[f] \in Int

\* They are, whatever was uploaded.
LEMMA LoadedAmounts ==
    ASSUME NoneIsNoFunction, NEW b, HasCells(b), NEW m, Maps(extract_workbook(b), m)
    PROVE  HasAmounts(load(_complete_mapped(extract_workbook(b), m)))
<1> DEFINE e == extract_workbook(b)
           s == _complete_mapped(e, m)
<1> SUFFICES ASSUME NEW d \in AmountDomains, NEW r \in load(s).rows[d], NEW f \in Amounts(d)
             PROVE  r.v[f] \in Int
  BY DEF HasAmounts
<1>1. d \in Domains /\ d # "wbs" /\ d # "progress"
  BY DEF AmountDomains, Domains
<1>2. PICK i \in Kept(e, d) : r = Reloaded(d, [row |-> MappedRows(e, d)[i].row,
                                               v |-> MappedRows(e, d)[i].record])
  BY <1>1, LoadedRows
<1>3. r.v = MappedRows(e, d)[i].record
  BY <1>1, <1>2 DEF Reloaded
<1>4. i \in DOMAIN e.rows_by_domain[d] /\ MappedRows(e, d)[i].record # None
  BY MappedRow DEF Kept
<1> DEFINE x == e.rows_by_domain[d][i]
<1>5. MappedRows(e, d)[i] = _map_row(d, x)
  BY <1>1, <1>4 DEF MappedRows
<1>6. IsTyped(x)
  <2>1. e.rows_by_domain[d] = IF b.sheets[d] = None THEN <<>> ELSE ExtractedRows(b.sheets[d])
    BY <1>1 DEF extract_workbook
  <2> HIDE DEF e
  <2>2. b.sheets[d] # None /\ i \in DOMAIN ExtractedRows(b.sheets[d])
    BY <1>4, <2>1
  <2>3. IsSheet(b.sheets[d])
    BY <2>2 DEF HasCells
  <2> QED
    BY <2>1, <2>2, <2>3, ExtractedCells
<1> HIDE DEF x, e
<1>7. _map_row(d, x).record[f] \in Int
  BY <1>4, <1>5, <1>6, MappedAmount
<1> QED
  BY <1>3, <1>5, <1>7
\* A total of numbers is a number.
LEMMA TotalIsNumber ==
    ASSUME NEW rows, IsFiniteSet(rows), NEW field, \A r \in rows : r.v[field] \in Int
    PROVE  Audit!Total(rows, field) \in Int
<1> DEFINE w == [r \in rows |-> r.v[field]]
           Eq(g) == g = [s \in SUBSET rows |->
                           IF s = {} THEN 0
                           ELSE LET x == CHOOSE y \in s : TRUE IN x.v[field] + g[s \ {x}]]
           h == CHOOSE g : Eq(g)
<1>1. Audit!Total(rows, field) = h[rows]
  BY DEF Audit!Total, Audit!MapThenSumSet, Audit!MapThenFoldSet
<1>2. \A g : Eq(g) <=> Summed(g, rows, w)
  BY DEF Summed
<1>3. \A r \in rows : w[r] \in Int
  OBVIOUS
<1> HIDE DEF w, Eq
<1>4. Summed(h, rows, w)
  <2>1. \E g : Eq(g)
    BY <1>2, SumsExist
  <2> QED
    BY <1>2, <2>1
<1> HIDE DEF h
<1>5. Adds(h, rows, w)
  BY <1>3, <1>4, SumStep
<1> QED
  BY <1>1, <1>5 DEF Adds

\* What is outstanding of the open commitments is never negative, whatever has
\* been invoiced.
LEMMA OutstandingIsNatural ==
    ASSUME NEW data, IsFiniteSet(data.rows["commitments"]), NEW wbs,
           \A r \in data.rows["commitments"] :
               r.v.committed_amount \in Int /\ r.v.invoiced_amount \in Int
    PROVE  Audit!Outstanding(data, wbs) \in Nat
<1> DEFINE rows == Audit!Open(Audit!OfWBS(data.rows["commitments"], wbs))
           Due(r) == IF r.v.committed_amount > r.v.invoiced_amount
                     THEN r.v.committed_amount - r.v.invoiced_amount ELSE 0
           w == [r \in rows |-> Due(r)]
           Eq(g) == g = [s \in SUBSET rows |->
                           IF s = {} THEN 0
                           ELSE LET x == CHOOSE y \in s : TRUE IN Due(x) + g[s \ {x}]]
           h == CHOOSE g : Eq(g)
<1>1. Audit!Outstanding(data, wbs) = h[rows]
  BY DEF Audit!Outstanding, Audit!MapThenSumSet, Audit!MapThenFoldSet
<1>2. rows \subseteq data.rows["commitments"]
  BY DEF Audit!Open, Audit!OfWBS
<1>3. \A r \in rows : w[r] \in Nat
  <2> HIDE DEF rows
  <2> QED
    BY <1>2
<1>4. \A g : Eq(g) <=> Summed(g, rows, w)
  <2> HIDE DEF rows, Due
  <2> QED
    BY DEF Summed
<1>5. IsFiniteSet(rows)
  BY <1>2, FS_Subset
<1> HIDE DEF w, Eq, rows, Due
<1>6. Summed(h, rows, w)
  <2>1. \E g : Eq(g)
    BY <1>4, <1>5, SumsExist
  <2> QED
    BY <1>4, <2>1
<1> HIDE DEF h
<1>7. \A s \in SUBSET rows : h[s] \in Nat
  BY <1>3, <1>5, <1>6, SumBound
<1>8. rows \in SUBSET rows
  OBVIOUS
<1> QED
  BY <1>1, <1>7, <1>8

\* More cost over the same positive budget is a greater ratio.
LEMMA RatiosGrow ==
    ASSUME NEW a \in Int, NEW o \in Nat, NEW b \in Int, b > 0
    PROVE  /\ Audit!RatioAbove(a, b, 100) => Audit!RatioAbove(a + o, b, 100)
           /\ Audit!RatioAtLeast(a, b, 110) => Audit!RatioAtLeast(a + o, b, 110)
BY DEF Audit!RatioAbove, Audit!RatioAtLeast

\* A WBS with a positive budget that CST-001 names is named by CST-002, at
\* least as severely.
LEMMA CostIsExposure ==
    ASSUME NEW data, IsFiniteData(data), HasAmounts(data),
           NEW f \in Audit!ActualExceedsBudget(data), Audit!Budget(data, f.entity[1]) > 0
    PROVE  \E g \in Audit!ExposureExceedsBudget(data) :
              /\ g.rule = "CST-002" /\ g.entity = f.entity
              /\ f.severity = "critical" => g.severity = "critical"
<1> DEFINE A(w) == Audit!Actual(data, w)
           B(w) == Audit!Budget(data, w)
           X(w) == Audit!Exposure(data, w)
           O(w) == Audit!Outstanding(data, w)
<1>1. PICK w \in Audit!Codes(data.rows["budget"]) :
         /\ Audit!RatioAbove(A(w), B(w), 100)
         /\ \E c : f = Audit!Finding("CST-001", <<w>>,
                        Audit!Banded(Audit!RatioAtLeast(A(w), B(w), 110), "warning"), c)
  BY DEF Audit!ActualExceedsBudget
<1> DEFINE g == Audit!Finding("CST-002", <<w>>,
                    Audit!Banded(Audit!RatioAtLeast(X(w), B(w), 110), "warning"),
                    Audit!Cited("commitments", Audit!Open(Audit!OfWBS(data.rows.commitments, w))))
<1>2. f.entity = <<w>> /\ (f.severity = "critical" => Audit!RatioAtLeast(A(w), B(w), 110))
  BY <1>1 DEF Audit!Finding, Audit!Banded
<1>3. A(w) \in Int /\ B(w) \in Int /\ O(w) \in Nat
  <2>1. \A d \in {"budget", "actual_cost"} : \A rows :
          rows \subseteq data.rows[d] => IsFiniteSet(rows)
    BY FS_Subset DEF IsFiniteData, Domains
  <2>2. A(w) \in Int
    <3> DEFINE rows == Audit!OfWBS(data.rows["actual_cost"], w)
    <3>1. rows \subseteq data.rows["actual_cost"]
      BY DEF Audit!OfWBS
    <3>2. \A r \in rows : r.v["actual_amount"] \in Int
      BY <3>1 DEF HasAmounts, AmountDomains, Amounts
    <3> HIDE DEF rows
    <3>3. Audit!Total(rows, "actual_amount") \in Int
      BY <2>1, <3>1, <3>2, TotalIsNumber
    <3> QED
      BY <3>3 DEF Audit!Actual, rows
  <2>3. B(w) \in Int
    <3> DEFINE rows == Audit!OfWBS(data.rows["budget"], w)
    <3>1. rows \subseteq data.rows["budget"]
      BY DEF Audit!OfWBS
    <3>2. \A r \in rows : r.v["budget_amount"] \in Int
      BY <3>1 DEF HasAmounts, AmountDomains, Amounts
    <3> HIDE DEF rows
    <3>3. Audit!Total(rows, "budget_amount") \in Int
      BY <2>1, <3>1, <3>2, TotalIsNumber
    <3> QED
      BY <3>3 DEF Audit!Budget, rows
  <2>4. O(w) \in Nat
    <3>1. \A r \in data.rows["commitments"] :
             r.v.committed_amount \in Int /\ r.v.invoiced_amount \in Int
      <4>1. "commitments" \in AmountDomains
            /\ "committed_amount" \in Amounts("commitments")
            /\ "invoiced_amount" \in Amounts("commitments")
        BY DEF AmountDomains, Amounts
      <4>2. \A r \in data.rows["commitments"] :
               r.v["committed_amount"] \in Int /\ r.v["invoiced_amount"] \in Int
        BY <4>1 DEF HasAmounts
      <4> QED
        BY <4>2
    <3>2. IsFiniteSet(data.rows["commitments"])
      BY DEF IsFiniteData, Domains
    <3> QED
      BY <3>1, <3>2, OutstandingIsNatural
  <2> QED
    BY <2>2, <2>3, <2>4
<1>4. B(w) > 0
  BY <1>2
<1>5. X(w) = A(w) + O(w)
  BY DEF Audit!Exposure
<1> HIDE DEF A, B, X, O
<1>6. /\ Audit!RatioAbove(X(w), B(w), 100)
      /\ Audit!RatioAtLeast(A(w), B(w), 110) => Audit!RatioAtLeast(X(w), B(w), 110)
  BY <1>1, <1>3, <1>4, <1>5, RatiosGrow
<1>7. g \in Audit!ExposureExceedsBudget(data)
  BY <1>6 DEF Audit!ExposureExceedsBudget, B, X
<1>8. /\ g.rule = "CST-002" /\ g.entity = <<w>>
      /\ Audit!RatioAtLeast(X(w), B(w), 110) => g.severity = "critical"
  BY DEF Audit!Finding, Audit!Banded
<1> HIDE DEF g
<1> QED
  BY <1>2, <1>6, <1>7, <1>8

\* It stays so.
LEMMA CellsInvStays == CellsInv /\ [Next]_vars => CellsInv'
<1> SUFFICES ASSUME CellsInv, [Next]_vars
             PROVE  CellsInv'
  OBVIOUS
<1>1. ASSUME NEW b, HasCells(b), Nothing, ingest(b)
      PROVE  CellsInv'
  <2>1. book' = b /\ run' = None
    BY <1>1 DEF ingest, Nothing
  <2>2. HasCells(book)'
    BY <1>1, <2>1 DEF HasCells
  <2> QED
    BY <2>1, <2>2 DEF CellsInv
<1>2. ASSUME NEW b \in Workbooks, Nothing, UploadWorkbook(b)
      PROVE  CellsInv'
  <2>1. HasCells(b)
    BY WorkbooksAssumption DEF HasCells, AmountDomains, Domains
  <2> QED
    BY <1>1, <1>2, <2>1 DEF UploadWorkbook
<1>3. ASSUME NEW s \in Sheets, NEW preset, Nothing, ImportSchedule(s, preset)
      PROVE  CellsInv'
  <2> DEFINE b == build_schedule_workbook(s, preset, ProjectCode, Today)
  <2>1. CASE UNCHANGED <<book, snapshot, run>>
    BY <2>1 DEF CellsInv, HasCells
  <2>2. CASE ingest(b)
    <3>1. HasCells(b)
      BY DEF build_schedule_workbook, AmountDomains, Domains, HasCells
    <3> HIDE DEF b
    <3> QED
      BY <1>1, <1>3, <2>2, <3>1, SMTT(40)
  <2> QED
    BY <1>3, <2>1, <2>2 DEF ImportSchedule
<1>4. CASE UNCHANGED <<book, snapshot, run>>
  BY <1>4 DEF CellsInv, HasCells
<1>5. ASSUME NEW runtime \in BOOLEAN, run_snapshot(runtime)
      PROVE  CellsInv'
  BY <1>5 DEF run_snapshot, CellsInv, HasCells
<1> QED
  BY <1>2, <1>3, <1>4, <1>5 DEF Next, vars

\* What was uploaded keeps its cells, and what is analysed was stored.
LEMMA CellsInvHolds == Spec => []CellsInv
<1>1. Init => CellsInv
  BY DEF Init, Nothing, CellsInv
<1>2. CellsInv /\ [Next]_vars => CellsInv'
  BY CellsInvStays
<1> QED
  BY <1>1, <1>2, PTL DEF Spec

\* The overruns of what was analysed are exposures.
LEMMA AnalysedOverruns ==
    ASSUME NoneIsNoFunction
    PROVE  PipelineInv /\ CellsInv => OverrunIsExposure
<1> DEFINE data == load(snapshot)
           E == run.execution
           IsAnswered(f, g) == /\ g.rule = "CST-002" /\ g.entity = f.entity
                               /\ f.severity = "critical" => g.severity = "critical"
<1> SUFFICES ASSUME PipelineInv, CellsInv, run # None,
                    {"CST-001", "CST-002"} \subseteq E.executed,
                    NEW f \in E.findings, f.rule = "CST-001",
                    Audit!Budget(data, f.entity[1]) > 0
             PROVE  \E g \in E.findings : IsAnswered(f, g)
  BY DEF OverrunIsExposure
<1>1. /\ IsRead(book) /\ Maps(extract_workbook(book), mapped)
      /\ snapshot = _complete_mapped(extract_workbook(book), mapped)
      /\ E = Audit!run_gated(data, run.runtime)
  BY DEF PipelineInv, Analysed, Stored
<1>2. IsFiniteData(data)
  BY <1>1, LoadedIsFinite
<1>3. HasAmounts(data)
  <2>1. HasCells(book)
    BY DEF CellsInv
  <2> QED
    BY <1>1, <2>1, LoadedAmounts
<1>4. /\ E.executed \subseteq Audit!Rules
      /\ E.findings = UNION {Audit!evaluate(r, data, run.runtime) : r \in E.executed}
  BY <1>1, ExecutedExactly
<1>5. /\ Audit!evaluate("CST-001", data, run.runtime) = Audit!ActualExceedsBudget(data)
      /\ Audit!evaluate("CST-002", data, run.runtime) = Audit!ExposureExceedsBudget(data)
  BY DEF Audit!evaluate
<1> HIDE DEF data, E
<1>6. f \in Audit!ActualExceedsBudget(data)
  <2>1. PICK r \in E.executed : f \in Audit!evaluate(r, data, run.runtime)
    BY <1>4
  <2>2. f.rule = r
    BY <1>4, <2>1, FindingNamesItsRule
  <2> QED
    BY <1>5, <2>1, <2>2
<1>7. PICK g \in Audit!ExposureExceedsBudget(data) : IsAnswered(f, g)
  BY <1>2, <1>3, <1>6, CostIsExposure
<1>8. g \in E.findings
  BY <1>4, <1>5
<1> QED
  BY <1>7, <1>8

\* An overrun is never reported by one rule and denied by the next: whatever
\* the workbook holds, CST-001 of a WBS with a positive budget comes with
\* CST-002, at least as severe (rules/cost.py).
THEOREM OverrunsAreExposures ==
    ASSUME NoneIsNoFunction
    PROVE  Spec => []OverrunIsExposure
<1>1. PipelineInv /\ CellsInv => OverrunIsExposure
  BY AnalysedOverruns
<1> QED
  BY <1>1, CellsInvHolds, PipelineInvHolds, PTL

-----------------------------------------------------------------------------
(* Counting.                                                                  *)

\* What is in a set is in a part of it or not.
LEMMA SplitCount ==
    ASSUME NEW S, IsFiniteSet(S), NEW T \in SUBSET S
    PROVE  /\ IsFiniteSet(T) /\ IsFiniteSet(S \ T)
           /\ Cardinality(T) \in Nat /\ Cardinality(S \ T) \in Nat
           /\ Cardinality(S) = Cardinality(T) + Cardinality(S \ T)
<1> DEFINE U == S \ T
<1>1. IsFiniteSet(T) /\ IsFiniteSet(U) /\ Cardinality(T) \in Nat /\ Cardinality(U) \in Nat
  BY FS_Subset, FS_CardinalityType
<1>2. T \union U = S /\ T \cap U = {}
  OBVIOUS
<1> HIDE DEF U
<1>3. Cardinality(T \union U) = Cardinality(T) + Cardinality(U) - Cardinality(T \cap U)
  BY <1>1, FS_Union
<1>4. Cardinality(T \cap U) = 0
  BY <1>2, FS_EmptySet
<1> QED
  BY <1>1, <1>2, <1>3, <1>4 DEF U

\* A function that tells the members of a finite set apart has as many values.
LEMMA ImageCount ==
    ASSUME NEW S, IsFiniteSet(S), NEW f, \A x, y \in S : f[x] = f[y] => x = y,
           NEW T, T = {f[x] : x \in S}
    PROVE  IsFiniteSet(T) /\ Cardinality(T) = Cardinality(S)
<1> DEFINE g == [x \in S |-> f[x]]
<1>1. g \in Bijection(S, T)
  BY DEF Bijection, Injection, Surjection, IsInjective
<1> HIDE DEF g
<1>2. ExistsBijection(S, T)
  BY <1>1 DEF ExistsBijection
<1> QED
  BY <1>2, FS_Bijection

\* The sum of a number for each domain.
Six(w) == w["wbs"] + w["budget"] + w["actual_cost"] + w["commitments"] + w["schedule"]
              + w["progress"]

\* A finite set whose members each belong to a domain is counted domain by domain.
LEMMA PartitionCount ==
    ASSUME NEW S, IsFiniteSet(S), NEW f, \A x \in S : f[x] \in Domains,
           NEW w, \A d \in Domains : w[d] = Cardinality({x \in S : f[x] = d})
    PROVE  Cardinality(S) = Six(w) /\ \A d \in Domains : w[d] \in Nat
<1> DEFINE P(d) == {x \in S : f[x] = d}
           S1 == S \ P("wbs")
           S2 == S1 \ P("budget")
           S3 == S2 \ P("actual_cost")
           S4 == S3 \ P("commitments")
           S5 == S4 \ P("schedule")
           S6 == S5 \ P("progress")
<1>0. S6 = {}
  BY DEF Domains
<1>1. /\ P("wbs") \in SUBSET S /\ P("budget") \in SUBSET S1
      /\ P("actual_cost") \in SUBSET S2 /\ P("commitments") \in SUBSET S3
      /\ P("schedule") \in SUBSET S4 /\ P("progress") \in SUBSET S5
  OBVIOUS
<1>2. \A d \in Domains : w[d] = Cardinality(P(d)) /\ w[d] \in Nat
  <2> TAKE d \in Domains
  <2>1. P(d) \in SUBSET S
    OBVIOUS
  <2> HIDE DEF P
  <2>2. Cardinality(P(d)) \in Nat
    BY <2>1, SplitCount
  <2>3. w[d] = Cardinality(P(d))
    BY DEF P
  <2> QED
    BY <2>2, <2>3
<1> HIDE DEF P
<1>3. IsFiniteSet(S1) /\ Cardinality(S1) \in Nat
      /\ Cardinality(S) = Cardinality(P("wbs")) + Cardinality(S1)
  BY <1>1, SplitCount
<1> HIDE DEF S1
<1>4. IsFiniteSet(S2) /\ Cardinality(S2) \in Nat
      /\ Cardinality(S1) = Cardinality(P("budget")) + Cardinality(S2)
  BY <1>1, <1>3, SplitCount
<1> HIDE DEF S2
<1>5. IsFiniteSet(S3) /\ Cardinality(S3) \in Nat
      /\ Cardinality(S2) = Cardinality(P("actual_cost")) + Cardinality(S3)
  BY <1>1, <1>4, SplitCount
<1> HIDE DEF S3
<1>6. IsFiniteSet(S4) /\ Cardinality(S4) \in Nat
      /\ Cardinality(S3) = Cardinality(P("commitments")) + Cardinality(S4)
  BY <1>1, <1>5, SplitCount
<1> HIDE DEF S4
<1>7. IsFiniteSet(S5) /\ Cardinality(S5) \in Nat
      /\ Cardinality(S4) = Cardinality(P("schedule")) + Cardinality(S5)
  BY <1>1, <1>6, SplitCount
<1> HIDE DEF S5
<1>8. Cardinality(S5) = Cardinality(P("progress")) + Cardinality(S6)
  BY <1>1, <1>7, SplitCount
<1>9. Cardinality(S6) = 0
  BY <1>0, FS_EmptySet
<1> HIDE DEF S6
<1>10. /\ w["wbs"] = Cardinality(P("wbs")) /\ w["budget"] = Cardinality(P("budget"))
       /\ w["actual_cost"] = Cardinality(P("actual_cost"))
       /\ w["commitments"] = Cardinality(P("commitments"))
       /\ w["schedule"] = Cardinality(P("schedule"))
       /\ w["progress"] = Cardinality(P("progress"))
       /\ w["wbs"] \in Nat /\ w["budget"] \in Nat /\ w["actual_cost"] \in Nat
       /\ w["commitments"] \in Nat /\ w["schedule"] \in Nat /\ w["progress"] \in Nat
  BY <1>2 DEF Domains
<1>11. Cardinality(S) = Six(w)
  BY <1>3, <1>4, <1>5, <1>6, <1>7, <1>8, <1>9, <1>10 DEF Six
<1> QED
  BY <1>2, <1>11

\* w counts the members of S for each value that f gives them.
CountedBy(S, f, w) == \A d \in Domains : w[d] = Cardinality({x \in S : f[x] = d})

\* The same, of sets and functions that go by a name.
LEMMA CountedPartition ==
    ASSUME NEW S, IsFiniteSet(S), NEW f, \A x \in S : f[x] \in Domains,
           NEW w, CountedBy(S, f, w)
    PROVE  Cardinality(S) = Six(w)
BY PartitionCount DEF CountedBy

\* Records that each carry a domain are counted domain by domain.
LEMMA FieldPartition ==
    ASSUME NEW S, IsFiniteSet(S), \A x \in S : x.domain \in Domains,
           NEW w, \A d \in Domains : w[d] = Cardinality({x \in S : x.domain = d})
    PROVE  Cardinality(S) = Six(w)
<1> DEFINE f == [x \in S |-> x.domain]
<1>1. \A d \in Domains : {x \in S : f[x] = d} = {x \in S : x.domain = d}
  OBVIOUS
<1>2. CountedBy(S, f, w)
  BY <1>1 DEF CountedBy
<1>3. \A x \in S : f[x] \in Domains
  OBVIOUS
<1> HIDE DEF f
<1> QED
  BY <1>2, <1>3, CountedPartition

\* Adding up over the domains gives that sum.
LEMMA SumOfSix ==
    ASSUME NEW w, \A d \in Domains : w[d] \in Int, NEW g, Summed(g, Domains, w)
    PROVE  g[Domains] = Six(w)
<1> DEFINE S1 == Domains \ {"wbs"}
           S2 == S1 \ {"budget"}
           S3 == S2 \ {"actual_cost"}
           S4 == S3 \ {"commitments"}
           S5 == S4 \ {"schedule"}
           S6 == S5 \ {"progress"}
<1>1. Adds(g, Domains, w)
  BY FiniteDomains, SumStep
<1>2. /\ g[{}] = 0
      /\ \A s \in SUBSET Domains : g[s] \in Int
      /\ \A s \in SUBSET Domains : \A x \in s : g[s] = w[x] + g[s \ {x}]
  BY <1>1 DEF Adds
<1>3. S6 = {}
  BY DEF Domains
<1>4. /\ Domains \in SUBSET Domains /\ S1 \in SUBSET Domains /\ S2 \in SUBSET Domains
      /\ S3 \in SUBSET Domains /\ S4 \in SUBSET Domains /\ S5 \in SUBSET Domains
  OBVIOUS
<1>5. /\ "wbs" \in Domains /\ "budget" \in S1 /\ "actual_cost" \in S2 /\ "commitments" \in S3
      /\ "schedule" \in S4 /\ "progress" \in S5
  BY DEF Domains
<1>6. g[Domains] = w["wbs"] + g[S1]
  BY <1>2, <1>4, <1>5
<1>7. g[S1] = w["budget"] + g[S2]
  BY <1>2, <1>4, <1>5
<1>8. g[S2] = w["actual_cost"] + g[S3]
  BY <1>2, <1>4, <1>5
<1>9. g[S3] = w["commitments"] + g[S4]
  BY <1>2, <1>4, <1>5
<1>10. g[S4] = w["schedule"] + g[S5]
  BY <1>2, <1>4, <1>5
<1>11. g[S5] = w["progress"] + g[S6]
  BY <1>2, <1>4, <1>5
<1>12. /\ w["wbs"] \in Int /\ w["budget"] \in Int /\ w["actual_cost"] \in Int
       /\ w["commitments"] \in Int /\ w["schedule"] \in Int /\ w["progress"] \in Int
  BY DEF Domains
<1>13. g[S6] = 0
  BY <1>2, <1>3
<1> HIDE DEF S1, S2, S3, S4, S5, S6
<1> QED
  BY <1>6, <1>7, <1>8, <1>9, <1>10, <1>11, <1>12, <1>13 DEF Six

\* The sum of a field of the domains' statuses.
LEMMA SumOfField ==
    ASSUME NEW st, NEW field, \A d \in Domains : st[d][field] \in Int
    PROVE  MapThenSumSet(LAMBDA d : st[d][field], Domains) = Six([d \in Domains |-> st[d][field]])
<1> DEFINE w == [d \in Domains |-> st[d][field]]
           Eq(g) == g = [s \in SUBSET Domains |->
                           IF s = {} THEN 0
                           ELSE LET x == CHOOSE y \in s : TRUE IN st[x][field] + g[s \ {x}]]
           h == CHOOSE g : Eq(g)
<1>1. MapThenSumSet(LAMBDA d : st[d][field], Domains) = h[Domains]
  BY DEF MapThenSumSet, MapThenFoldSet
<1>2. \A g : Eq(g) <=> Summed(g, Domains, w)
  BY DEF Summed
<1>3. \A d \in Domains : w[d] \in Int
  OBVIOUS
<1> HIDE DEF w, Eq
<1>4. Summed(h, Domains, w)
  <2>1. \E g : Eq(g)
    BY <1>2, FiniteDomains, SumsExist
  <2> QED
    BY <1>2, <2>1
<1> HIDE DEF h
<1>5. h[Domains] = Six(w)
  BY <1>3, <1>4, SumOfSix
<1> QED
  BY <1>1, <1>5 DEF w

\* The sum of the lengths of the sheets.
LEMMA SumOfLengths ==
    ASSUME NEW rows, \A d \in Domains : Len(rows[d]) \in Int
    PROVE  MapThenSumSet(LAMBDA d : Len(rows[d]), Domains) = Six([d \in Domains |-> Len(rows[d])])
<1> DEFINE w == [d \in Domains |-> Len(rows[d])]
           Eq(g) == g = [s \in SUBSET Domains |->
                           IF s = {} THEN 0
                           ELSE LET x == CHOOSE y \in s : TRUE IN Len(rows[x]) + g[s \ {x}]]
           h == CHOOSE g : Eq(g)
<1>1. MapThenSumSet(LAMBDA d : Len(rows[d]), Domains) = h[Domains]
  BY DEF MapThenSumSet, MapThenFoldSet
<1>2. \A g : Eq(g) <=> Summed(g, Domains, w)
  BY DEF Summed
<1>3. \A d \in Domains : w[d] \in Int
  OBVIOUS
<1> HIDE DEF w, Eq
<1>4. Summed(h, Domains, w)
  <2>1. \E g : Eq(g)
    BY <1>2, FiniteDomains, SumsExist
  <2> QED
    BY <1>2, <2>1
<1> HIDE DEF h
<1>5. h[Domains] = Six(w)
  BY <1>3, <1>4, SumOfSix
<1> QED
  BY <1>1, <1>5, ZenonT(60) DEF w

\* The sum of the rows of a kind.
LEMMA SumOfRows ==
    ASSUME NEW m, NEW status, \A d \in Domains : CountRows(m, d, status) \in Int
    PROVE  MapThenSumSet(LAMBDA d : CountRows(m, d, status), Domains)
             = Six([d \in Domains |-> CountRows(m, d, status)])
<1> DEFINE w == [d \in Domains |-> CountRows(m, d, status)]
           Eq(g) == g = [s \in SUBSET Domains |->
                           IF s = {} THEN 0
                           ELSE LET x == CHOOSE y \in s : TRUE
                                IN  CountRows(m, x, status) + g[s \ {x}]]
           h == CHOOSE g : Eq(g)
<1>1. MapThenSumSet(LAMBDA d : CountRows(m, d, status), Domains) = h[Domains]
  BY DEF MapThenSumSet, MapThenFoldSet
<1>2. \A g : Eq(g) <=> Summed(g, Domains, w)
  BY DEF Summed
<1>3. \A d \in Domains : w[d] \in Int
  OBVIOUS
<1> HIDE DEF w, Eq
<1>4. Summed(h, Domains, w)
  <2>1. \E g : Eq(g)
    BY <1>2, FiniteDomains, SumsExist
  <2> QED
    BY <1>2, <2>1
<1> HIDE DEF h
<1>5. h[Domains] = Six(w)
  BY <1>3, <1>4, SumOfSix
<1> QED
  BY <1>1, <1>5 DEF w

\* The sum of the issues of a severity.
LEMMA SumOfIssues ==
    ASSUME NEW rows, NEW severity, \A d \in Domains : IssueCount(rows[d], severity) \in Int
    PROVE  IssueTotal(rows, severity) = Six([d \in Domains |-> IssueCount(rows[d], severity)])
<1> DEFINE w == [d \in Domains |-> IssueCount(rows[d], severity)]
           Eq(g) == g = [s \in SUBSET Domains |->
                           IF s = {} THEN 0
                           ELSE LET x == CHOOSE y \in s : TRUE
                                IN  IssueCount(rows[x], severity) + g[s \ {x}]]
           h == CHOOSE g : Eq(g)
<1>1. IssueTotal(rows, severity) = h[Domains]
  BY DEF IssueTotal, MapThenSumSet, MapThenFoldSet
<1>2. \A g : Eq(g) <=> Summed(g, Domains, w)
  BY DEF Summed
<1>3. \A d \in Domains : w[d] \in Int
  OBVIOUS
<1> HIDE DEF w, Eq
<1>4. Summed(h, Domains, w)
  <2>1. \E g : Eq(g)
    BY <1>2, FiniteDomains, SumsExist
  <2> QED
    BY <1>2, <2>1
<1> HIDE DEF h
<1>5. h[Domains] = Six(w)
  BY <1>3, <1>4, SumOfSix
<1> QED
  BY <1>1, <1>5 DEF w

-----------------------------------------------------------------------------
(* The issues of the rows are finitely many.                                  *)

\* One more than finitely many.
LEMMA OneMore ==
    ASSUME NEW S, IsFiniteSet(S), NEW x
    PROVE  IsFiniteSet(S \union {x})
<1>1. IsFiniteSet({x})
  BY FS_Singleton
<1> QED
  BY <1>1, FS_Union

\* The columns of a sheet are finitely many, of five kinds.
LEMMA ProfileColumns ==
    ASSUME NEW d \in Domains
    PROVE  /\ IsFiniteSet(DOMAIN profile[d])
           /\ \A k \in DOMAIN profile[d] :
                 profile[d][k].scalar \in {"string", "date", "decimal", "integer", "boolean"}
<1> DEFINE Typed(columns, n) ==
              /\ DOMAIN columns = 1..n
              /\ \A k \in DOMAIN columns :
                    columns[k].scalar \in {"string", "date", "decimal", "integer", "boolean"}
<1>1. CASE d = "wbs"
  <2>1. Typed(profile["wbs"], 3)
    BY DEF profile, Column
  <2> QED
    BY <1>1, <2>1, FinitePositions
<1>2. CASE d = "budget"
  <2>1. Typed(profile["budget"], 3)
    BY DEF profile, Column
  <2> QED
    BY <1>2, <2>1, FinitePositions
<1>3. CASE d = "actual_cost"
  <2>1. Typed(profile["actual_cost"], 6)
    BY DEF profile, Column
  <2> QED
    BY <1>3, <2>1, FinitePositions
<1>4. CASE d = "commitments"
  <2>1. Typed(profile["commitments"], 5)
    BY DEF profile, Column
  <2> QED
    BY <1>4, <2>1, FinitePositions
<1>5. CASE d = "schedule"
  <2>1. Typed(profile["schedule"], 11)
    BY DEF profile, Column
  <2> QED
    BY <1>5, <2>1, FinitePositions
<1>6. CASE d = "progress"
  <2>1. Typed(profile["progress"], 6)
    BY DEF profile, Column
  <2> QED
    BY <1>6, <2>1, FinitePositions
<1> QED
  BY <1>1, <1>2, <1>3, <1>4, <1>5, <1>6 DEF Domains

\* Reading a cell gives finitely many issues.
LEMMA ScalarIssues ==
    ASSUME NEW c, NEW column,
           column.scalar \in {"string", "date", "decimal", "integer", "boolean"}
    PROVE  IsFiniteSet(_normalize_scalar(c, column).issues)
<1> DEFINE Fine(r) == IsFiniteSet(r.issues)
<1>1. \A v, code, f : Fine(Value(v)) /\ Fine(Refused(code, f)) /\ Fine(Warned(v, code, f))
  BY FS_EmptySet, FS_Singleton DEF Value, Refused, Warned
<1> HIDE DEF Fine
<1>2. Fine(String(c, column))
  BY <1>1 DEF String
<1>3. Fine(Integer(c, column))
  BY <1>1 DEF Integer
<1>4. Fine(Boolean(c, column))
  BY <1>1 DEF Boolean
<1>5. Fine(_decimal(c, column))
  BY <1>1 DEF _decimal
<1>6. Fine(_date(c, column))
  BY <1>1 DEF _date
<1>7. Fine(_normalize_scalar(c, column))
  <2>1. CASE c.t \in {"none", "spaces"}
    BY <1>1, <2>1 DEF _normalize_scalar
  <2>2. CASE c.t \notin {"none", "spaces"} /\ column.scalar = "string"
    BY <1>2, <2>2 DEF _normalize_scalar
  <2>3. CASE c.t \notin {"none", "spaces"} /\ column.scalar = "date"
    BY <1>6, <2>3 DEF _normalize_scalar
  <2>4. CASE c.t \notin {"none", "spaces"} /\ column.scalar = "decimal"
    BY <1>5, <2>4 DEF _normalize_scalar
  <2>5. CASE c.t \notin {"none", "spaces"} /\ column.scalar = "integer"
    BY <1>3, <2>5 DEF _normalize_scalar
  <2>6. CASE c.t \notin {"none", "spaces"} /\ column.scalar = "boolean"
    BY <1>4, <2>6 DEF _normalize_scalar
  <2> QED
    BY <2>1, <2>2, <2>3, <2>4, <2>5, <2>6
<1> QED
  BY <1>7 DEF Fine

\* So does mapping a row.
LEMMA RowIssuesAreFinite ==
    ASSUME NEW d \in Domains, NEW x
    PROVE  IsFiniteSet(_map_row(d, x).issues)
<1> DEFINE columns == profile[d]
           Cell(c) == IF <<c.field>> \in DOMAIN x.values THEN x.values[<<c.field>>] ELSE Blank
           scalars == [k \in DOMAIN columns |-> _normalize_scalar(Cell(columns[k]), columns[k])]
           values == [f \in Fields(d) |->
                         scalars[CHOOSE k \in DOMAIN columns : columns[k].field = f].value]
           read == UNION {scalars[k].issues : k \in DOMAIN columns}
           dates == ContradictoryDates(d, values, read)
           identity == InvalidIdentity(d, values, read)
<1>1. _map_row(d, x).issues = read \union dates \union identity
  BY DEF _map_row
<1>2. IsFiniteSet(dates)
  <2> HIDE DEF values, read
  <2> QED
    BY FS_EmptySet, FS_Singleton DEF ContradictoryDates
<1>3. IsFiniteSet(identity)
  <2> HIDE DEF values, read
  <2> QED
    BY FS_EmptySet, FS_Singleton DEF InvalidIdentity
<1>4. IsFiniteSet(read)
  <2> DEFINE f == [k \in DOMAIN columns |-> scalars[k].issues]
  <2>1. \A k \in DOMAIN columns : scalars[k] = _normalize_scalar(Cell(columns[k]), columns[k])
    OBVIOUS
  <2> HIDE DEF scalars, Cell, columns
  <2>2. \A k \in DOMAIN columns : IsFiniteSet(f[k])
    BY <2>1, ScalarIssues, ProfileColumns DEF columns
  <2>3. read = UNION {f[k] : k \in DOMAIN columns}
    OBVIOUS
  <2>4. IsFiniteSet(DOMAIN columns)
    BY ProfileColumns DEF columns
  <2> HIDE DEF f, read
  <2> QED
    BY <2>2, <2>3, <2>4, FiniteUnion
<1> HIDE DEF read, dates, identity
<1> QED
  BY <1>1, <1>2, <1>3, <1>4, FS_Union

\* And so have the mapped rows of a sheet.
LEMMA MappedIssuesAreFinite ==
    ASSUME NEW e, NEW d \in Domains, NEW n \in Nat, DOMAIN e.rows_by_domain[d] = 1..n
    PROVE  /\ DOMAIN MappedRows(e, d) = 1..n
           /\ \A i \in 1..n : IsFiniteSet(MappedRows(e, d)[i].issues)
<1>1. CASE d # "wbs"
  BY <1>1, RowIssuesAreFinite DEF MappedRows
<1>2. CASE d = "wbs"
  <2> DEFINE all == WBSRows(e)
             once == FirstOfEachCode(all)
             final == MappedRows(e, "wbs")
  <2>1. /\ DOMAIN all = 1..n /\ AreRows(all) /\ DOMAIN once = 1..n /\ DOMAIN final = 1..n
        /\ \A i \in 1..n :
              IF once[i].record = None \/ once[i].record["wbs_code"] \notin InvalidCodes(once)
              THEN final[i] = once[i]
              ELSE final[i].issues = once[i].issues \union {WBSIssue(e, once[i].record["wbs_code"])}
    BY <1>2, ValidatedRows
  <2>2. \A i \in 1..n : IsFiniteSet(all[i].issues)
    BY <1>2, RowIssuesAreFinite DEF WBSRows
  <2>3. \A i \in 1..n : once[i] = all[i] \/ \E x : once[i] = Reject(all[i], x)
    BY <2>1, OnceRows
  <2> HIDE DEF all, once, final
  <2>4. ASSUME NEW i \in 1..n
        PROVE  IsFiniteSet(final[i].issues)
    <3>1. ASSUME NEW x, once[i] = Reject(all[i], x)
          PROVE  IsFiniteSet(once[i].issues)
      <4>1. once[i].issues = all[i].issues \union {x}
        BY <2>1, <3>1 DEF AreRows, Reject
      <4>2. IsFiniteSet(all[i].issues \union {x})
        BY <2>2, OneMore
      <4> QED
        BY <4>1, <4>2
    <3>2. IsFiniteSet(once[i].issues)
      BY <2>2, <2>3, <3>1
    <3>3. final[i].issues = once[i].issues
          \/ final[i].issues = once[i].issues \union {WBSIssue(e, once[i].record["wbs_code"])}
      BY <2>1
    <3>4. IsFiniteSet(once[i].issues \union {WBSIssue(e, once[i].record["wbs_code"])})
      BY <3>2, OneMore
    <3> QED
      BY <3>2, <3>3, <3>4
  <2> QED
    BY <1>2, <2>1, <2>4 DEF final
<1> QED
  BY <1>1, <1>2

\* So they are counted.
LEMMA IssuesAreCounted ==
    ASSUME NEW rows, NEW n \in Nat, DOMAIN rows = 1..n,
           \A i \in 1..n : IsFiniteSet(rows[i].issues), NEW severity
    PROVE  IssueCount(rows, severity) \in Nat
<1> DEFINE f == [i \in 1..n |-> {<<i, x>> : x \in {y \in rows[i].issues : y.severity = severity}}]
<1>1. IssuesOf(rows, severity) = UNION {f[i] : i \in 1..n}
  BY DEF IssuesOf
<1>2. ASSUME NEW i \in 1..n
      PROVE  IsFiniteSet(f[i])
  <2> DEFINE some == {y \in rows[i].issues : y.severity = severity}
             g == [x \in some |-> <<i, x>>]
  <2>1. IsFiniteSet(some)
    BY FS_Subset
  <2>2. \A t \in f[i] : \E x \in some : t = g[x]
    OBVIOUS
  <2> HIDE DEF f, g, some
  <2> QED
    BY <2>1, <2>2, FiniteImage
<1> HIDE DEF f
<1>3. IsFiniteSet(1..n)
  BY FinitePositions
<1>4. IsFiniteSet(IssuesOf(rows, severity))
  BY <1>1, <1>2, <1>3, FiniteUnion
<1> QED
  BY <1>4, FS_CardinalityType DEF IssueCount

\* The issues of the header rows are finitely many, those of each domain apart.
LEMMA TemplateIssues ==
    ASSUME NEW b
    PROVE  LET e == extract_workbook(b)
           IN  /\ IsFiniteSet(e.template_errors)
               /\ \A x \in e.template_errors : x.domain \in Domains
<1> DEFINE f == [d \in Domains |-> IF b.sheets[d] = None
                                   THEN {[domain |-> d, code |-> "missing_sheet"]}
                                   ELSE _header_issues(d, b.sheets[d].headers)]
<1>1. extract_workbook(b).template_errors = UNION {f[d] : d \in Domains}
  BY DEF extract_workbook
<1>2. ASSUME NEW d \in Domains
      PROVE  IsFiniteSet(f[d]) /\ \A x \in f[d] : x.domain = d
  <2> DEFINE a == [domain |-> d, code |-> "duplicate_header"]
             c == [domain |-> d, code |-> "missing_required_column"]
             u == [domain |-> d, code |-> "unexpected_header"]
             s == [domain |-> d, code |-> "missing_sheet"]
  <2>1. f[d] = {s} \/ f[d] \subseteq {a, c, u}
    <3>1. _header_issues(d, b.sheets[d].headers) \subseteq {a, c, u}
      BY DEF _header_issues
    <3> HIDE DEF a, c, u
    <3> QED
      BY <3>1
  <2>2. a.domain = d /\ c.domain = d /\ u.domain = d /\ s.domain = d
    OBVIOUS
  <2> HIDE DEF f, a, c, u, s
  <2>3. IsFiniteSet({s}) /\ IsFiniteSet({a, c, u})
    BY FS_Singleton, FiniteThree
  <2>4. IsFiniteSet(f[d])
    BY <2>1, <2>3, FS_Subset
  <2>5. \A x \in f[d] : x.domain = d
    BY <2>1, <2>2
  <2> QED
    BY <2>4, <2>5
<1> HIDE DEF f
<1>4. IsFiniteSet(UNION {f[d] : d \in Domains})
  BY <1>2, FiniteDomains, FiniteUnion
<1> QED
  BY <1>1, <1>2, <1>4

-----------------------------------------------------------------------------
(* The rows are counted.                                                      *)

\* The rows of a sheet and what became of them: there are as many as were
\* extracted, and each is valid, has warnings or has no record.
LEMMA SheetCounts ==
    ASSUME NEW b, IsRead(b), NEW m, Maps(extract_workbook(b), m), NEW d \in Domains
    PROVE  LET e == extract_workbook(b)
               rows == m.rows_by_domain[d]
           IN  /\ Len(rows) \in Nat
               /\ \A severity : IssueCount(rows, severity) \in Nat
               /\ \A status : CountRows(m, d, status) \in Nat
               /\ Len(rows) = CountRows(m, d, "valid") + CountRows(m, d, "warning")
                                  + CountRows(m, d, "invalid")
               /\ Cardinality(Kept(e, d)) = CountRows(m, d, "valid") + CountRows(m, d, "warning")
               /\ DOMAIN rows = 1..Len(rows)
<1> DEFINE e == extract_workbook(b)
           rows == m.rows_by_domain[d]
           Of(status) == {i \in DOMAIN rows : ValidationStatus(rows[i]) = status}
<1>1. PICK n \in Nat : DOMAIN e.rows_by_domain[d] = 1..n
  BY ExtractedCount
<1>2. rows = MappedRows(e, d)
  BY DEF Maps
<1>3. DOMAIN rows = 1..n /\ \A i \in 1..n : IsFiniteSet(rows[i].issues)
  BY <1>1, <1>2, MappedIssuesAreFinite
<1>4. \A severity : IssueCount(rows, severity) \in Nat
  BY <1>3, IssuesAreCounted
<1>5. Len(rows) = n
  <2>1. rows = [i \in 1..n |-> rows[i]]
    <3>1. MappedRows(e, d) = [i \in DOMAIN MappedRows(e, d) |-> MappedRows(e, d)[i]]
      <4>1. CASE d # "wbs"
        BY <4>1 DEF MappedRows
      <4>2. CASE d = "wbs"
        BY <4>2 DEF MappedRows, _validate_wbs_rows
      <4> QED
        BY <4>1, <4>2
    <3> QED
      BY <1>2, <1>3, <3>1
  <2> HIDE DEF rows
  <2>2. rows \in Seq({rows[i] : i \in 1..n})
    BY <2>1
  <2> QED
    BY <1>3, <2>2
<1>6. \A status : CountRows(m, d, status) = Cardinality(Of(status))
  BY DEF CountRows
<1>7. Kept(e, d) = (DOMAIN rows) \ Of("invalid")
  BY <1>2 DEF Kept, ValidationStatus
<1>8. \A i \in DOMAIN rows : ValidationStatus(rows[i]) \in {"valid", "warning", "invalid"}
  BY DEF ValidationStatus
<1> DEFINE S == DOMAIN rows
           valid == Of("valid")
           warned == Of("warning")
           invalid == Of("invalid")
           kept == S \ invalid
<1>9. kept \ valid = warned
  BY <1>8
<1>10. \A status : Of(status) \in SUBSET S
  OBVIOUS
<1>11. valid \in SUBSET kept
  OBVIOUS
<1>12. IsFiniteSet(S) /\ Cardinality(S) = n
  BY <1>3, FinitePositions
<1> HIDE DEF Of, S
<1>13. \A status : Cardinality(Of(status)) \in Nat
  BY <1>10, <1>12, SplitCount
<1>14. IsFiniteSet(kept) /\ Cardinality(S) = Cardinality(invalid) + Cardinality(kept)
  BY <1>10, <1>12, SplitCount
<1> HIDE DEF kept
<1>15. Cardinality(kept) = Cardinality(valid) + Cardinality(kept \ valid)
  BY <1>11, <1>14, SplitCount
<1>16. Cardinality(kept) = CountRows(m, d, "valid") + CountRows(m, d, "warning")
  BY <1>6, <1>9, <1>15
<1>17. n = CountRows(m, d, "valid") + CountRows(m, d, "warning") + CountRows(m, d, "invalid")
  BY <1>6, <1>12, <1>13, <1>14, <1>16
<1>18. Kept(e, d) = kept
  BY <1>7 DEF kept, S
<1> QED
  BY <1>3, <1>4, <1>5, <1>6, <1>13, <1>16, <1>17, <1>18 DEF S

\* The facts of a domain are as many as its rows with a record.
LEMMA FactsAreCounted ==
    ASSUME NEW b, IsRead(b), NEW m, Maps(extract_workbook(b), m), NEW d \in Domains
    PROVE  Cardinality(_complete_mapped(extract_workbook(b), m).facts[d])
             = Cardinality(Kept(extract_workbook(b), d))
<1> DEFINE e == extract_workbook(b)
           R(i) == MappedRows(e, d)[i]
           Fact(i) == [row |-> R(i).row, v |-> R(i).record,
                       node |-> NodeRow(m, IF d = "wbs" THEN R(i).record.parent_wbs
                                           ELSE R(i).record.wbs_code)]
           facts == _complete_mapped(e, m).facts[d]
           kept == Kept(e, d)
           f == [i \in kept |-> Fact(i)]
<1>1. facts = {Fact(i) : i \in kept}
  <2>1. facts = {[row |-> r.row, v |-> r.record,
                  node |-> NodeRow(m, IF d = "wbs" THEN r.record.parent_wbs
                                      ELSE r.record.wbs_code)] : r \in Canonical(m, d)}
    BY DEF _complete_mapped, persist_canonical_rows
  <2> QED
    BY <2>1, CanonicalRows
<1>2. PICK n \in Nat : DOMAIN e.rows_by_domain[d] = 1..n
  BY ExtractedCount
<1>3. \A i \in 1..n : R(i).row = e.rows_by_domain[d][i].row
  BY <1>2, MappedRow
<1>4. \A i, j \in 1..n : e.rows_by_domain[d][i].row = e.rows_by_domain[d][j].row => i = j
  <2>1. CASE b.sheets[d] = None
    <3>1. e.rows_by_domain[d] = <<>>
      BY <2>1 DEF extract_workbook
    <3> QED
      BY <1>2, <3>1
  <2>2. CASE b.sheets[d] # None
    <3>1. e.rows_by_domain[d] = ExtractedRows(b.sheets[d]) /\ IsNumbered(b.sheets[d])
      BY <2>2 DEF extract_workbook, IsRead
    <3> QED
      BY <1>2, <3>1, PlacesDiffer
  <2> QED
    BY <2>1, <2>2
<1>5. kept \subseteq 1..n
  BY <1>2, MappedRow DEF Kept
<1>6. IsFiniteSet(kept)
  <2>1. IsFiniteSet(1..n)
    BY FinitePositions
  <2> QED
    BY <1>5, <2>1, FS_Subset
<1> HIDE DEF e, R, kept, facts
<1>7. \A i \in kept : Fact(i).row = R(i).row
  OBVIOUS
<1> HIDE DEF Fact
<1>8. \A i, j \in kept : f[i] = f[j] => i = j
  BY <1>3, <1>4, <1>5, <1>7, ZenonT(60)
<1>9. facts = {f[i] : i \in kept}
  BY <1>1
<1> HIDE DEF f
<1>10. Cardinality(facts) = Cardinality(kept)
  BY <1>6, <1>8, <1>9, ImageCount
<1> QED
  BY <1>10 DEF e, kept, facts

\* raw is, sheet by sheet, the rows read from b, one for one.
AreRowsOf(raw, b, m) ==
    /\ IsFiniteSet(raw)
    /\ \A x \in raw : x.domain \in Domains
    /\ \A d \in Domains :
          /\ Cardinality({x \in raw : x.domain = d}) = Len(m.rows_by_domain[d])
          /\ {x.row : x \in {y \in raw : y.domain = d}}
                = IF b.sheets[d] = None THEN {} ELSE FilledRows(b.sheets[d])

\* The raw rows of a domain are those of its sheet, each once.
LEMMA RawRowsAreCounted ==
    ASSUME NEW b, IsRead(b), NEW m, Maps(extract_workbook(b), m)
    PROVE  AreRowsOf(persist_raw_rows(extract_workbook(b), m), b, m)
<1> DEFINE e == extract_workbook(b)
           rows(d) == e.rows_by_domain[d]
           Rec(d, i) == [domain |-> d, row |-> rows(d)[i].row, values |-> rows(d)[i].values,
                         validation_status |-> ValidationStatus(m.rows_by_domain[d][i])]
           raw == persist_raw_rows(e, m)
           part == [d \in Domains |-> {Rec(d, i) : i \in DOMAIN rows(d)}]
<1>1. raw = UNION {part[d] : d \in Domains}
  BY DEF persist_raw_rows
<1>2. \A d, i : Rec(d, i).domain = d /\ Rec(d, i).row = rows(d)[i].row
  OBVIOUS
<1>3. \A d \in Domains : part[d] = {Rec(d, i) : i \in DOMAIN rows(d)}
  OBVIOUS
<1> HIDE DEF e, raw, part, Rec
<1>4. \A d \in Domains : part[d] = {x \in raw : x.domain = d}
  BY <1>1, <1>2, <1>3
<1>5. ASSUME NEW d \in Domains
      PROVE  /\ IsFiniteSet(part[d]) /\ Cardinality(part[d]) = Len(m.rows_by_domain[d])
             /\ {x.row : x \in part[d]} = IF b.sheets[d] = None THEN {} ELSE FilledRows(b.sheets[d])
  <2>1. PICK n \in Nat : DOMAIN rows(d) = 1..n
    BY ExtractedCount DEF e
  <2>2. IsFiniteSet(1..n) /\ Cardinality(1..n) = n
    BY FinitePositions
  <2>3. Len(m.rows_by_domain[d]) = n
    <3>1. DOMAIN m.rows_by_domain[d] = 1..n
      BY <2>1, MappedRow DEF Maps, e
    <3>2. Len(m.rows_by_domain[d]) \in Nat
          /\ DOMAIN m.rows_by_domain[d] = 1..Len(m.rows_by_domain[d])
      BY SheetCounts
    <3>3. \A k, l \in Nat : 1..k = 1..l => k = l
      <4> SUFFICES ASSUME NEW k \in Nat, NEW l \in Nat, 1..k = 1..l
                   PROVE  k = l
        OBVIOUS
      <4>1. Cardinality(1..k) = k /\ Cardinality(1..l) = l
        BY FinitePositions
      <4> QED
        BY <4>1
    <3> QED
      BY <3>1, <3>2, <3>3
  <2>4. \A i, j \in 1..n : rows(d)[i].row = rows(d)[j].row => i = j
    <3>1. CASE b.sheets[d] = None
      <4>1. rows(d) = <<>>
        BY <3>1 DEF extract_workbook, e
      <4> QED
        BY <2>1, <4>1
    <3>2. CASE b.sheets[d] # None
      <4>1. rows(d) = ExtractedRows(b.sheets[d]) /\ IsNumbered(b.sheets[d])
        BY <3>2 DEF extract_workbook, IsRead, e
      <4> HIDE DEF rows
      <4> QED
        BY <2>1, <4>1, PlacesDiffer
    <3> QED
      BY <3>1, <3>2
  <2> DEFINE f == [i \in 1..n |-> Rec(d, i)]
  <2>5. \A i, j \in 1..n : f[i] = f[j] => i = j
    BY <1>2, <2>4
  <2>6. part[d] = {f[i] : i \in 1..n}
    BY <1>3, <2>1
  <2> HIDE DEF f
  <2>7. IsFiniteSet(part[d]) /\ Cardinality(part[d]) = n
    BY <2>2, <2>5, <2>6, ImageCount
  <2>8. {x.row : x \in part[d]} = {rows(d)[i].row : i \in DOMAIN rows(d)}
    BY <1>2, <1>3
  <2>9. {rows(d)[i].row : i \in DOMAIN rows(d)}
          = IF b.sheets[d] = None THEN {} ELSE FilledRows(b.sheets[d])
    <3>1. CASE b.sheets[d] = None
      <4>1. rows(d) = <<>>
        BY <3>1 DEF extract_workbook, e
      <4> QED
        BY <3>1, <4>1
    <3>2. CASE b.sheets[d] # None
      <4>1. rows(d) = ExtractedRows(b.sheets[d]) /\ IsNumbered(b.sheets[d])
        BY <3>2 DEF extract_workbook, IsRead, e
      <4> HIDE DEF rows
      <4> QED
        BY <3>2, <4>1, ExtractedPlaces
    <3> QED
      BY <3>1, <3>2
  <2> QED
    BY <2>3, <2>7, <2>8, <2>9
<1>6. IsFiniteSet(raw)
  BY <1>1, <1>5, FiniteDomains, FiniteUnion
<1>7. \A x \in raw : x.domain \in Domains
  BY <1>1, <1>2, <1>3
<1> QED
  BY <1>4, <1>5, <1>6, <1>7 DEF AreRowsOf, raw, e

-----------------------------------------------------------------------------
(* The counts of a completed upload.                                          *)

\* What the project sheet lacks is an error; that it names another project is a
\* warning, and counted as one.
LEMMA AdoptedCounts ==
    ASSUME NEW e, NEW values, NEW code, map_extracted_workbook(e).warning_count \in Int
    PROVE  LET M == map_extracted_workbook(e)
               m == Adopted(M, values, code)
               warnings == m.project_issues \ Errors(m.project_issues)
           IN  /\ m.error_count = M.error_count
               /\ m.domain_issues = M.domain_issues
               /\ Errors(m.project_issues) = _project(e.project_values)
               /\ Cardinality(_project(e.project_values)) \in Nat
               /\ Cardinality(warnings) \in Nat
               /\ m.warning_count = M.warning_count + Cardinality(warnings)
<1> DEFINE M == map_extracted_workbook(e)
           m == Adopted(M, values, code)
           own == _project(e.project_values)
           other == Warning("source_project_mismatch", "project_id")
           warnings == m.project_issues \ Errors(m.project_issues)
<1>1. \A x \in own : x.severity = "error"
  BY DEF _project, Error
<1>2. other.severity = "warning"
  BY DEF Warning
<1>3. Cardinality(own) \in Nat
  <2> DEFINE a == Error("missing_project_value", "project_id")
             c == Error("missing_project_value", "project_name")
  <2>1. own \subseteq {a, c, c}
    BY DEF _project
  <2> HIDE DEF a, c, own
  <2>2. IsFiniteSet({a, c, c})
    BY FiniteThree
  <2> QED
    BY <2>1, <2>2, FS_Subset, FS_CardinalityType
<1>4. M.project_issues = own
      /\ {"error_count", "domain_issues", "warning_count", "project_issues"} \subseteq DOMAIN M
  BY DEF map_extracted_workbook
<1> HIDE DEF M, own, other
<1>5. /\ m.error_count = M.error_count /\ m.domain_issues = M.domain_issues
      /\ \/ m.project_issues = own /\ m.warning_count = M.warning_count
         \/ m.project_issues = own \union {other} /\ m.warning_count = M.warning_count + 1
  BY <1>4 DEF Adopted, other
<1> HIDE DEF m
<1>6. Errors(m.project_issues) = own
  BY <1>1, <1>2, <1>5 DEF Errors
<1>7. CASE m.project_issues = own /\ m.warning_count = M.warning_count
  <2>1. Cardinality(warnings) = 0
    BY <1>6, <1>7, FS_EmptySet
  <2>2. M.warning_count \in Int
    BY DEF M
  <2>3. m.warning_count = M.warning_count + Cardinality(warnings)
    BY <1>7, <2>1, <2>2
  <2> HIDE DEF warnings
  <2> QED
    BY <1>3, <1>5, <1>6, <2>1, <2>3 DEF M, m, own, warnings
<1>8. CASE m.project_issues = own \union {other} /\ m.warning_count = M.warning_count + 1
  <2>1. warnings = {other}
    BY <1>1, <1>2, <1>6, <1>8
  <2>2. Cardinality(warnings) = 1
    BY <2>1, FS_Singleton
  <2> HIDE DEF warnings
  <2> QED
    BY <1>3, <1>5, <1>6, <1>8, <2>2 DEF M, m, own, warnings
<1> QED
  BY <1>5, <1>7, <1>8

\* A completed snapshot was extracted, mapped and adopted of its workbook.
Completed ==
    /\ IsRead(book)
    /\ extracted = extract_workbook(book)
    /\ mapped = Adopted(map_extracted_workbook(extracted), extracted.project_values,
                        Text(ProjectCode))
    /\ snapshot = _complete_mapped(extracted, mapped)

\* It stays so.
LEMMA CompletedStays ==
    (snapshot # None => Completed) /\ [Next]_vars => (snapshot # None => Completed)'
<1> DEFINE Inv == snapshot # None => Completed
<1> SUFFICES ASSUME Inv, [Next]_vars
             PROVE  Inv'
  OBVIOUS
<1>1. ASSUME NEW b, IsRead(b), ingest(b)
      PROVE  Inv'
  <2>1. /\ book' = b /\ extracted' = extract_workbook(b)
        /\ mapped' = Adopted(map_extracted_workbook(extracted'), extracted'.project_values,
                             Text(ProjectCode))
        /\ snapshot' = None \/ snapshot' = _complete_mapped(extracted', mapped')
    BY <1>1 DEF ingest
  <2> QED
    BY <1>1, <2>1 DEF Completed
<1>2. CASE UNCHANGED <<book, extracted, mapped, snapshot>>
  BY <1>2 DEF Completed
<1>3. ASSUME NEW b \in Workbooks, UploadWorkbook(b)
      PROVE  Inv'
  BY <1>1, <1>3, UploadIsRead DEF UploadWorkbook
<1>4. ASSUME NEW s \in Sheets, NEW preset, ImportSchedule(s, preset)
      PROVE  Inv'
  <2>1. CASE ingest(build_schedule_workbook(s, preset, ProjectCode, Today))
    BY <1>1, <2>1, BuiltIsRead
  <2> HIDE DEF Inv
  <2> QED
    BY <1>2, <1>4, <2>1 DEF ImportSchedule
<1>5. ASSUME NEW runtime \in BOOLEAN, run_snapshot(runtime)
      PROVE  Inv'
  BY <1>2, <1>5 DEF run_snapshot
<1> HIDE DEF Inv
<1> QED
  BY <1>2, <1>3, <1>4, <1>5 DEF Next, vars

\* It stays so.
LEMMA CompletedHolds == Spec => [](snapshot # None => Completed)
<1> DEFINE Inv == snapshot # None => Completed
<1>1. Init => Inv
  BY DEF Init, Nothing
<1>2. Inv /\ [Next]_vars => Inv'
  BY CompletedStays
<1> QED
  BY <1>1, <1>2, PTL DEF Spec

\* Sums of sums.
LEMMA SixAdds ==
    ASSUME NEW t, NEW i, NEW q, NEW r, NEW s,
           \A d \in Domains : t[d] \in Int /\ i[d] \in Int /\ q[d] \in Int /\ r[d] \in Int
                             /\ s[d] = t[d] + i[d] + q[d] + r[d]
    PROVE  Six(s) = Six(t) + Six(i) + Six(q) + Six(r)
BY DEF Six, Domains

\* The counts of a completed snapshot add up.
LEMMA CompletedCounts == (snapshot # None => Completed) => CountsReconcile
<1> SUFFICES ASSUME snapshot # None, Completed
             PROVE  CountsReconcile
  BY DEF CountsReconcile
<1> DEFINE e == extracted
           m == mapped
           M == map_extracted_workbook(e)
           rows == [d \in Domains |-> MappedRows(e, d)]
           st == snapshot.domain_statuses
           batch == snapshot.batch
           T == [d \in Domains |-> Cardinality(TemplateErrors(e, d))]
           E == [d \in Domains |-> IssueCount(rows[d], "error")]
           W == [d \in Domains |-> IssueCount(rows[d], "warning")]
           I == [d \in Domains |-> Cardinality(m.domain_issues[d])]
           D == [d \in Domains |-> Cardinality(DependencyIssues(m, d))]
           L == [d \in Domains |-> Len(rows[d])]
           Of(status) == [d \in Domains |-> CountRows(m, d, status)]
           blocked == m.domain_statuses["wbs"] = "blocked"
<1>1. /\ IsRead(book) /\ e = extract_workbook(book)
      /\ m = Adopted(M, e.project_values, Text(ProjectCode))
      /\ snapshot = _complete_mapped(e, m)
  BY DEF Completed
<1>2. Maps(e, m) /\ m.rows_by_domain = rows
  BY <1>1, AdoptedRows DEF Maps
<1>3. /\ \A d \in Domains :
            /\ L[d] \in Nat /\ E[d] \in Nat /\ W[d] \in Nat
            /\ \A status : CountRows(m, d, status) \in Nat
            /\ L[d] = CountRows(m, d, "valid") + CountRows(m, d, "warning")
                         + CountRows(m, d, "invalid")
            /\ Cardinality(Kept(e, d)) = CountRows(m, d, "valid") + CountRows(m, d, "warning")
  <2> SUFFICES ASSUME NEW d \in Domains
               PROVE  /\ L[d] \in Nat /\ E[d] \in Nat /\ W[d] \in Nat
                      /\ \A status : CountRows(m, d, status) \in Nat
                      /\ L[d] = CountRows(m, d, "valid") + CountRows(m, d, "warning")
                                   + CountRows(m, d, "invalid")
                      /\ Cardinality(Kept(e, d))
                           = CountRows(m, d, "valid") + CountRows(m, d, "warning")
    OBVIOUS
  <2>1. m.rows_by_domain[d] = rows[d]
    BY <1>2
  <2> QED
    BY <1>1, <1>2, <2>1, SheetCounts, ZenonT(60)
<1>4. /\ M.warning_count = IssueTotal(rows, "warning")
      /\ M.error_count = Cardinality(e.template_errors) + Cardinality(_project(e.project_values))
            + Cardinality(M.domain_issues["wbs"]) + IssueTotal(rows, "error")
      /\ \A d \in Domains : M.domain_issues[d] = DomainIssues(e, d)
  BY DEF map_extracted_workbook, Domains
<1>5. IssueTotal(rows, "warning") = Six(W) /\ IssueTotal(rows, "error") = Six(E)
  <2>1. \A d \in Domains : IssueCount(rows[d], "warning") \in Int
                           /\ IssueCount(rows[d], "error") \in Int
    BY <1>3
  <2> QED
    BY <2>1, SumOfIssues
<1>6. Cardinality(e.template_errors) = Six(T) /\ \A d \in Domains : T[d] \in Nat
  <2> DEFINE S == e.template_errors
             f == [x \in S |-> x.domain]
  <2>1. IsFiniteSet(S) /\ \A x \in S : f[x] \in Domains
    BY <1>1, TemplateIssues
  <2>2. \A d \in Domains : T[d] = Cardinality({x \in S : f[x] = d})
    <3>1. \A d \in Domains : {x \in S : f[x] = d} = TemplateErrors(e, d)
      BY DEF TemplateErrors
    <3> QED
      BY <3>1
  <2> HIDE DEF S, f, T
  <2>3. Cardinality(S) = Six(T) /\ \A d \in Domains : T[d] \in Nat
    BY <2>1, <2>2, PartitionCount
  <2> QED
    BY <2>3 DEF S
<1> HIDE DEF M
<1>7. /\ m.error_count = M.error_count
      /\ m.domain_issues = M.domain_issues
      /\ Errors(m.project_issues) = _project(e.project_values)
      /\ Cardinality(_project(e.project_values)) \in Nat
      /\ Cardinality(m.project_issues \ Errors(m.project_issues)) \in Nat
      /\ m.warning_count = M.warning_count
            + Cardinality(m.project_issues \ Errors(m.project_issues))
  <2>1. M.warning_count \in Int
    <3>1. M.warning_count = Six(W)
      BY <1>4, <1>5
    <3>2. \A d \in Domains : W[d] \in Nat
      BY <1>3
    <3> HIDE DEF W
    <3> QED
      BY <3>1, <3>2 DEF Six, Domains
  <2> QED
    BY <1>1, <2>1, AdoptedCounts, ZenonT(60) DEF M
<1>8. /\ I["wbs"] = Cardinality(M.domain_issues["wbs"])
      /\ \A d \in Domains \ {"wbs"} : I[d] = 0
      /\ \A d \in Domains : I[d] \in Nat
  <2>1. \A d \in Domains \ {"wbs"} : m.domain_issues[d] = {}
    BY <1>4, <1>7 DEF DomainIssues
  <2>2. m.domain_issues["wbs"] = {} \/ m.domain_issues["wbs"] = {Error("empty_wbs_master", None)}
    BY <1>4, <1>7 DEF DomainIssues, Domains
  <2>3. Cardinality(m.domain_issues["wbs"]) \in Nat
    <3>1. Cardinality({}) = 0 /\ Cardinality({Error("empty_wbs_master", None)}) = 1
      BY FS_EmptySet, FS_Singleton
    <3> HIDE DEF m, e, rows
    <3> QED
      BY <2>2, <3>1
  <2>4. \A d \in Domains \ {"wbs"} : Cardinality(m.domain_issues[d]) = 0
    BY <2>1, FS_EmptySet
  <2>5. \A d \in Domains : I[d] = Cardinality(m.domain_issues[d])
    OBVIOUS
  <2> HIDE DEF I
  <2> QED
    BY <1>7, <2>3, <2>4, <2>5 DEF Domains
<1>9. \A d \in Domains : D[d] = IF blocked /\ d # "wbs" THEN 1 ELSE 0
  <2>1. Cardinality({}) = 0 /\ Cardinality({"blocked_by_wbs"}) = 1
    BY FS_EmptySet, FS_Singleton
  <2>2. \A d \in Domains : d \in FactDomains <=> d # "wbs"
    BY DEF FactDomains
  <2> QED
    BY <2>1, <2>2 DEF DependencyIssues
<1>10. Cardinality(FactDomains) = 5
  <2>1. IsFiniteSet({}) /\ Cardinality({}) = 0
    BY FS_EmptySet
  <2> DEFINE A == {"budget"}
             B == A \union {"actual_cost"}
             C == B \union {"commitments"}
             F == C \union {"schedule"}
             G == F \union {"progress"}
  <2>2. IsFiniteSet(A) /\ Cardinality(A) = 1
    BY FS_Singleton
  <2>3. IsFiniteSet(B) /\ Cardinality(B) = 2
    <3>1. "actual_cost" \notin A
      OBVIOUS
    <3> HIDE DEF A
    <3> QED
      BY <2>2, <3>1, FS_AddElement
  <2>4. IsFiniteSet(C) /\ Cardinality(C) = 3
    <3>1. "commitments" \notin B
      OBVIOUS
    <3> HIDE DEF B
    <3> QED
      BY <2>3, <3>1, FS_AddElement
  <2>5. IsFiniteSet(F) /\ Cardinality(F) = 4
    <3>1. "schedule" \notin C
      OBVIOUS
    <3> HIDE DEF C
    <3> QED
      BY <2>4, <3>1, FS_AddElement
  <2>6. Cardinality(G) = 5
    <3>1. "progress" \notin F
      OBVIOUS
    <3> HIDE DEF F
    <3> QED
      BY <2>5, <3>1, FS_AddElement
  <2>7. FactDomains = G
    BY DEF FactDomains, Domains
  <2> QED
    BY <2>6, <2>7
<1>11. /\ batch = Batch(m)
       /\ \A d \in Domains : st[d] = StatusOfDomain(e, m, d)
       /\ snapshot.raw = persist_raw_rows(e, m)
       /\ snapshot.facts = _complete_mapped(e, m).facts
  BY <1>1 DEF _complete_mapped
<1>12. \A d \in Domains :
          /\ st[d].status = m.domain_statuses[d]
          /\ st[d]["error_count"] = T[d] + E[d] + I[d] + D[d]
          /\ st[d]["warning_count"] = W[d]
          /\ st[d]["row_count_raw"] = L[d]
          /\ st[d].row_count_canonical = CountRows(m, d, "valid") + CountRows(m, d, "warning")
  <2> SUFFICES ASSUME NEW d \in Domains
               PROVE  /\ st[d].status = m.domain_statuses[d]
                      /\ st[d]["error_count"] = T[d] + E[d] + I[d] + D[d]
                      /\ st[d]["warning_count"] = W[d]
                      /\ st[d]["row_count_raw"] = L[d]
                      /\ st[d].row_count_canonical
                           = CountRows(m, d, "valid") + CountRows(m, d, "warning")
    OBVIOUS
  <2>1. m.rows_by_domain[d] = rows[d]
    BY <1>2
  <2>2. st[d] = StatusOfDomain(e, m, d)
    BY <1>11
  <2>3. /\ T[d] = Cardinality(TemplateErrors(e, d))
        /\ E[d] = IssueCount(rows[d], "error")
        /\ W[d] = IssueCount(rows[d], "warning")
        /\ I[d] = Cardinality(m.domain_issues[d])
        /\ D[d] = Cardinality(DependencyIssues(m, d))
        /\ L[d] = Len(rows[d])
    OBVIOUS
  <2> HIDE DEF e, m, rows, st, T, E, W, I, D, L
  <2> QED
    BY <2>1, <2>2, <2>3 DEF StatusOfDomain
<1> DEFINE Sum(field) == MapThenSumSet(LAMBDA d : snapshot.domain_statuses[d][field], Domains)
           Field(field) == [d \in Domains |-> st[d][field]]
<1>13. \A d \in Domains : T[d] \in Int /\ E[d] \in Int /\ I[d] \in Int /\ D[d] \in Int
                          /\ W[d] \in Int /\ L[d] \in Int
  BY <1>3, <1>6, <1>8, <1>9
<1> HIDE DEF e, m, rows, batch, T, E, W, I, D, L
<1>14. Sum("error_count") = Six(T) + Six(E) + Six(I) + Six(D)
  <2>1. \A d \in Domains : st[d]["error_count"] \in Int
    BY <1>12, <1>13
  <2>2. Sum("error_count") = Six(Field("error_count"))
    BY <2>1, SumOfField
  <2>3. \A d \in Domains : Field("error_count")[d] = T[d] + E[d] + I[d] + D[d]
    BY <1>12
  <2> HIDE DEF Field, Sum
  <2>4. Six(Field("error_count")) = Six(T) + Six(E) + Six(I) + Six(D)
    BY <1>13, <2>3, SixAdds
  <2> QED
    BY <2>2, <2>4
<1>15. Sum("warning_count") = Six(W)
  <2>1. \A d \in Domains : st[d]["warning_count"] \in Int
    BY <1>12, <1>13
  <2>2. Sum("warning_count") = Six(Field("warning_count"))
    BY <2>1, SumOfField
  <2>3. \A d \in Domains : Field("warning_count")[d] = W[d]
    BY <1>12
  <2> HIDE DEF Field, Sum
  <2> QED
    BY <2>2, <2>3 DEF Six, Domains
<1>16. Sum("row_count_raw") = Six(L)
  <2>1. \A d \in Domains : st[d]["row_count_raw"] \in Int
    BY <1>12, <1>13
  <2>2. Sum("row_count_raw") = Six(Field("row_count_raw"))
    BY <2>1, SumOfField
  <2>3. \A d \in Domains : Field("row_count_raw")[d] = L[d]
    BY <1>12
  <2> HIDE DEF Field, Sum
  <2> QED
    BY <2>2, <2>3 DEF Six, Domains
<1>17. Six(I) = Cardinality(M.domain_issues["wbs"])
       /\ Six(D) = IF blocked THEN Cardinality(FactDomains) ELSE 0
  <2>1. Six(I) = I["wbs"]
    BY <1>8 DEF Six, Domains
  <2>2. /\ D["wbs"] = 0
        /\ \A d \in {"budget", "actual_cost", "commitments", "schedule", "progress"} :
              D[d] = IF blocked THEN 1 ELSE 0
    BY <1>9 DEF Domains
  <2> HIDE DEF blocked
  <2>3. Six(D) = IF blocked THEN 5 ELSE 0
    BY <2>2 DEF Six
  <2> QED
    BY <1>8, <1>10, <2>1, <2>3
<1>18. Six(T) \in Int /\ Six(E) \in Int /\ Six(I) \in Int /\ Six(D) \in Int /\ Six(W) \in Int
  BY <1>13 DEF Six, Domains
<1>19. /\ batch.error_count = m.error_count
       /\ batch.warning_count = m.warning_count
       /\ batch.project_issues = m.project_issues
       /\ batch.rows_read = MapThenSumSet(LAMBDA d : Len(m.rows_by_domain[d]), Domains)
       /\ batch.rows_valid = MapThenSumSet(LAMBDA d : CountRows(m, d, "valid"), Domains)
       /\ batch.rows_warning = MapThenSumSet(LAMBDA d : CountRows(m, d, "warning"), Domains)
       /\ batch.rows_rejected = MapThenSumSet(LAMBDA d : CountRows(m, d, "invalid"), Domains)
  BY <1>11, ZenonT(60) DEF Batch
<1>20. /\ batch.rows_read = Six(L)
       /\ batch.rows_valid = Six(Of("valid"))
       /\ batch.rows_warning = Six(Of("warning"))
       /\ batch.rows_rejected = Six(Of("invalid"))
  <2>1. batch.rows_read = Six(L)
    <3>1. \A d \in Domains : Len(m.rows_by_domain[d]) = L[d] /\ Len(m.rows_by_domain[d]) \in Int
      BY <1>2, <1>13 DEF L
    <3>2. batch.rows_read = Six([d \in Domains |-> Len(m.rows_by_domain[d])])
      BY <1>19, <3>1, SumOfLengths, ZenonT(60)
    <3> QED
      BY <3>1, <3>2 DEF Six, Domains
  <2>2. \A d \in Domains : \A status : CountRows(m, d, status) \in Int
    BY <1>3
  <2> QED
    BY <1>19, <2>1, <2>2, SumOfRows, ZenonT(60)
<1>21. Six(L) = Six(Of("valid")) + Six(Of("warning")) + Six(Of("invalid"))
  <2>1. \A d \in Domains : /\ Of("valid")[d] \in Int /\ Of("warning")[d] \in Int
                           /\ Of("invalid")[d] \in Int
                           /\ L[d] = Of("valid")[d] + Of("warning")[d] + Of("invalid")[d]
    BY <1>3
  <2> HIDE DEF Of
  <2> QED
    BY <2>1 DEF Six, Domains
<1>22. /\ Cardinality(snapshot.raw) = Six(L)
       /\ \A d \in Domains : {x.row : x \in {y \in snapshot.raw : y.domain = d}} = SheetRows(d)
  <2> DEFINE S == snapshot.raw
  <2>1. /\ IsFiniteSet(S)
        /\ \A x \in S : x.domain \in Domains
        /\ \A d \in Domains :
              /\ Cardinality({x \in S : x.domain = d}) = Len(m.rows_by_domain[d])
              /\ {x.row : x \in {y \in S : y.domain = d}}
                   = IF book.sheets[d] = None THEN {} ELSE FilledRows(book.sheets[d])
    <3>1. AreRowsOf(snapshot.raw, book, m)
      BY <1>1, <1>2, <1>11, RawRowsAreCounted
    <3> QED
      BY <3>1 DEF AreRowsOf
  <2>4. \A d \in Domains :
          SheetRows(d) = IF book.sheets[d] = None THEN {} ELSE FilledRows(book.sheets[d])
    BY DEF SheetRows, FilledRows, Range
  <2>6. IsFiniteSet(S)
    BY <2>1
  <2>5. Cardinality(S) = Six(L)
    <3>1. \A d \in Domains : L[d] = Cardinality({x \in S : x.domain = d})
      BY <2>1, <1>2 DEF L
    <3>2. \A x \in S : x.domain \in Domains
      BY <2>1
    <3> HIDE DEF S
    <3> QED
      BY <2>6, <3>1, <3>2, FieldPartition
  <2> HIDE DEF S
  <2> QED
    BY <2>1, <2>4, <2>5 DEF S
<1>23. \A d \in Domains : Cardinality(snapshot.facts[d]) = st[d].row_count_canonical
  BY <1>1, <1>2, <1>3, <1>11, <1>12, FactsAreCounted
<1>24. st["wbs"].status = "blocked" <=> blocked
  BY <1>12 DEF Domains
<1>25. /\ Sum("error_count") = batch.error_count - Cardinality(Errors(batch.project_issues))
            + (IF st["wbs"].status = "blocked" THEN Cardinality(FactDomains) ELSE 0)
       /\ Sum("warning_count") = batch.warning_count
            - Cardinality(batch.project_issues \ Errors(batch.project_issues))
  <2> HIDE DEF Sum, blocked, st
  <2>1. batch.error_count = Six(T) + Cardinality(Errors(batch.project_issues)) + Six(I) + Six(E)
        /\ Cardinality(Errors(batch.project_issues)) \in Nat
    BY <1>4, <1>5, <1>6, <1>7, <1>17, <1>19, ZenonT(60)
  <2>2. batch.warning_count = Six(W)
           + Cardinality(batch.project_issues \ Errors(batch.project_issues))
        /\ Cardinality(batch.project_issues \ Errors(batch.project_issues)) \in Nat
    BY <1>4, <1>5, <1>7, <1>19, ZenonT(60)
  <2>3. Six(D) = IF st["wbs"].status = "blocked" THEN Cardinality(FactDomains) ELSE 0
    BY <1>17, <1>24
  <2> QED
    BY <1>14, <1>15, <1>18, <2>1, <2>2, <2>3
<1>26. /\ Sum("row_count_raw") = batch.rows_read
       /\ Cardinality(snapshot.raw) = batch.rows_read
       /\ batch.rows_read = batch.rows_valid + batch.rows_warning + batch.rows_rejected
  BY <1>16, <1>20, <1>21, <1>22
<1> HIDE DEF Of, Field, blocked
<1> QED
  BY <1>22, <1>23, <1>25, <1>26 DEF CountsReconcile, batch

\* Nothing that was found in an upload is counted twice or not at all: the
\* counts of the domains add up to those of the batch, but for the issues of
\* the project sheet, which no domain has, and the error that each of the
\* others has of a blocked WBS, which the batch has not; every row is stored,
\* and every row with a record has its fact (_complete_mapped, persist_raw_rows,
\* persist_canonical_rows).
THEOREM CountsAddUp == Spec => []CountsReconcile
<1>1. (snapshot # None => Completed) => CountsReconcile
  BY CompletedCounts
<1> QED
  BY <1>1, CompletedHolds, PTL
-----------------------------------------------------------------------------
(* Identities.                                                                *)

\* The counts of the rules are those of finite sets, and their least row the
\* least of a set of numbers.
LEMMA SameCount == \A S : Audit!Cardinality(S) = Cardinality(S)
BY DEF Audit!Cardinality, Cardinality

\* The least of some natural numbers is one of them.
LEMMA LeastRow ==
    ASSUME NEW S, S \subseteq Nat, S # {}
    PROVE  Audit!Min(S) \in Nat
<1>1. \E x \in S : \A y \in S : x <= y
  BY LeastMember
<1> QED
  BY <1>1 DEF Audit!Min

\* The rows of a domain are told apart by their places in the sheet,
Keyed(data) ==
    \A d \in Domains : \A r, s \in data.rows[d] : r.row \in Nat /\ (r.row = s.row => r = s)

\* the facts by their record ids,
OneRecord(data) ==
    \A d, c \in FactDomains : \A r \in data.rows[d], s \in data.rows[c] :
        r.v.record_id = s.v.record_id => d = c /\ r.row = s.row

\* and the rows that PRG-002 reports by what it names.
NameOf(r) == IF r.v.wbs_code # None THEN r.v.wbs_code ELSE r.v.record_id
OneAbove(data) ==
    \A r, s \in data.rows["progress"] :
        /\ NameOf(r) = NameOf(s)
        /\ r.v.actual_progress > 100 \/ r.v.planned_progress > 100
        /\ s.v.actual_progress > 100 \/ s.v.planned_progress > 100
        => r = s

\* A rule says one thing of each entity.
Identified(T) == \A f, g \in T : f.entity = g.entity => f = g

\* An entity of one name.
NamesOne(data, T) == \A f \in T : \E n \in NamesOfFacts(data) : f.entity = <<n>>

\* A rule says one thing of each name.
NamesEach(data, T) == Identified(T) /\ NamesOne(data, T)

\* The record ids and the codes of the facts are names.
LEMMA FactsHaveNames ==
    ASSUME NEW data, NEW d \in FactDomains
    PROVE  /\ \A r \in data.rows[d] :
                 /\ r.v.record_id \in NamesOfFacts(data)
                 /\ r.v.wbs_code # None => r.v.wbs_code \in NamesOfFacts(data)
           /\ \A w \in Audit!Codes(data.rows[d]) : w \in NamesOfFacts(data)
<1>1. ASSUME NEW r \in data.rows[d]
      PROVE  /\ r.v.record_id \in NamesOfFacts(data)
             /\ r.v.wbs_code # None => r.v.wbs_code \in NamesOfFacts(data)
  <2>1. r \in UNION {data.rows[c] : c \in FactDomains}
    OBVIOUS
  <2> QED
    BY <2>1 DEF NamesOfFacts
<1>2. ASSUME NEW w \in Audit!Codes(data.rows[d])
      PROVE  w \in NamesOfFacts(data)
  <2>1. PICK r \in data.rows[d] : w = r.v.wbs_code /\ w # None
    BY DEF Audit!Codes
  <2> QED
    BY <1>1, <2>1
<1> QED
  BY <1>1, <1>2

\* A rule that makes a finding of each record, as severe as the record deserves.
RecordWise(rule, data, D, severity, T) ==
    \A f \in T : \E d \in D : \E r \in data.rows[d] :
        f = Audit!Finding(rule, <<r.v.record_id>>, severity[r], Audit!Cited(d, {r}))

\* Facts with ids of their own are each reported once.
LEMMA RecordsIdentify ==
    ASSUME NEW data, Keyed(data), OneRecord(data), NEW rule, NEW D \in SUBSET FactDomains,
           NEW severity, NEW T, RecordWise(rule, data, D, severity, T)
    PROVE  NamesEach(data, T)
<1> DEFINE F(d, r) == Audit!Finding(rule, <<r.v.record_id>>, severity[r], Audit!Cited(d, {r}))
<1>1. ASSUME NEW f \in T, NEW g \in T, f.entity = g.entity
      PROVE  f = g
  <2>1. PICK d \in D : \E r \in data.rows[d] : f = F(d, r)
    BY DEF RecordWise
  <2>2. PICK r \in data.rows[d] : f = F(d, r)
    BY <2>1
  <2>3. PICK c \in D : \E s \in data.rows[c] : g = F(c, s)
    BY DEF RecordWise
  <2>4. PICK s \in data.rows[c] : g = F(c, s)
    BY <2>3
  <2>5. r.v.record_id = s.v.record_id
    <3>1. F(d, r).entity = <<r.v.record_id>> /\ F(c, s).entity = <<s.v.record_id>>
      BY DEF Audit!Finding
    <3> HIDE DEF F
    <3> QED
      BY <1>1, <2>2, <2>4, <3>1
  <2>6. d = c /\ r.row = s.row
    BY <2>5 DEF OneRecord
  <2>7. r = s
    BY <2>6 DEF Keyed, FactDomains, Domains
  <2> QED
    BY <2>2, <2>4, <2>6, <2>7
<1>2. ASSUME NEW f \in T
      PROVE  \E n \in NamesOfFacts(data) : f.entity = <<n>>
  <2>1. PICK d \in D : \E r \in data.rows[d] : f = F(d, r)
    BY DEF RecordWise
  <2>2. PICK r \in data.rows[d] : f = F(d, r)
    BY <2>1
  <2>3. f.entity = <<r.v.record_id>>
    BY <2>2 DEF Audit!Finding
  <2>4. r.v.record_id \in NamesOfFacts(data)
    BY FactsHaveNames
  <2> QED
    BY <2>3, <2>4
<1> QED
  BY <1>1, <1>2 DEF NamesEach, Identified, NamesOne

\* SCH-001 to SCH-005 and DQ-003, one finding for each activity.
LEMMA ActivitiesIdentify ==
    ASSUME NEW data, Keyed(data), OneRecord(data)
    PROVE  /\ NamesEach(data, Audit!OverdueActivity(data))
           /\ NamesEach(data, Audit!BaselineFinishSlippage(data))
           /\ NamesEach(data, Audit!CriticalActivityDelay(data))
           /\ NamesEach(data, Audit!ActivityProgressLag(data))
           /\ NamesEach(data, Audit!NegativeFloat(data))
           /\ NamesEach(data, Audit!ContradictoryDateProgress(data))
<1> DEFINE rows == data.rows["schedule"]
           Grades(T, rule, severity) == RecordWise(rule, data, {"schedule"}, severity, T)
<1>0. ASSUME NEW T, NEW rule, NEW severity, Grades(T, rule, severity)
      PROVE  NamesEach(data, T)
  <2>1. {"schedule"} \in SUBSET FactDomains
    BY DEF FactDomains, Domains
  <2>2. RecordWise(rule, data, {"schedule"}, severity, T)
    BY <1>0
  <2> QED
    BY <2>1, <2>2, RecordsIdentify
<1> DEFINE critical == [r \in rows |-> "critical"]
<1>1. NamesEach(data, Audit!OverdueActivity(data))
  <2> DEFINE graded == [r \in rows |-> Audit!Banded(
                 r.v.critical \/ data.data_date - r.v.baseline_finish >= 14, "warning")]
  <2>1. Grades(Audit!OverdueActivity(data), "SCH-001", graded)
    BY DEF RecordWise, Audit!OverdueActivity, Audit!Activities
  <2> HIDE DEF Grades, graded
  <2> QED
    BY <1>0, <2>1
<1>2. NamesEach(data, Audit!BaselineFinishSlippage(data))
  <2> DEFINE graded == [r \in rows |-> Audit!Banded(
                 r.v.actual_finish - r.v.baseline_finish >= 14, "warning")]
  <2>1. Grades(Audit!BaselineFinishSlippage(data), "SCH-002", graded)
    BY DEF RecordWise, Audit!BaselineFinishSlippage, Audit!Activities
  <2> HIDE DEF Grades, graded
  <2> QED
    BY <1>0, <2>1
<1>3. NamesEach(data, Audit!CriticalActivityDelay(data))
  <2>1. Grades(Audit!CriticalActivityDelay(data), "SCH-003", critical)
    BY DEF RecordWise, Audit!CriticalActivityDelay, Audit!Activities
  <2> HIDE DEF Grades, critical
  <2> QED
    BY <1>0, <2>1
<1>4. NamesEach(data, Audit!ActivityProgressLag(data))
  <2> DEFINE graded == [r \in rows |-> Audit!Banded(
                 r.v.critical /\ Audit!Lag(r.v) >= 20, "warning")]
  <2>1. Grades(Audit!ActivityProgressLag(data), "SCH-004", graded)
    BY DEF RecordWise, Audit!ActivityProgressLag, Audit!Activities
  <2> HIDE DEF Grades, graded
  <2> QED
    BY <1>0, <2>1
<1>5. NamesEach(data, Audit!NegativeFloat(data))
  <2>1. Grades(Audit!NegativeFloat(data), "SCH-005", critical)
    BY DEF RecordWise, Audit!NegativeFloat, Audit!Activities
  <2> HIDE DEF Grades, critical
  <2> QED
    BY <1>0, <2>1
<1>6. NamesEach(data, Audit!ContradictoryDateProgress(data))
  <2>1. Grades(Audit!ContradictoryDateProgress(data), "DQ-003", critical)
    BY DEF RecordWise, Audit!ContradictoryDateProgress, Audit!Activities
  <2> HIDE DEF Grades, critical
  <2> QED
    BY <1>0, <2>1
<1> QED
  BY <1>1, <1>2, <1>3, <1>4, <1>5, <1>6

\* DQ-001, DQ-004, DQ-005 and CST-005, one finding for each record.
LEMMA QualityIdentifies ==
    ASSUME NEW data, Keyed(data), OneRecord(data), NEW runtime
    PROVE  /\ NamesEach(data, Audit!MissingWBS(data))
           /\ NamesEach(data, Audit!OrphanWBS(data))
           /\ NamesEach(data, Audit!VendorIdentity(data))
           /\ NamesEach(data, Audit!HighValueTransaction(data, runtime))
<1> DEFINE rows == UNION {data.rows[d] : d \in FactDomains}
           costs == data.rows["actual_cost"]
           critical == [r \in rows |-> "critical"]
           observed == [r \in costs |-> "observation"]
<1>0. /\ Audit!RecordDomains = FactDomains
      /\ "actual_cost" \in FactDomains /\ FactDomains \in SUBSET FactDomains
  BY DEF Audit!RecordDomains, FactDomains, Domains
<1>1. \A d \in FactDomains : \A r \in data.rows[d] : critical[r] = "critical"
  <2> SUFFICES ASSUME NEW d \in FactDomains, NEW r \in data.rows[d]
               PROVE  critical[r] = "critical"
    OBVIOUS
  <2>1. r \in rows
    BY Zenon
  <2> HIDE DEF rows
  <2> QED
    BY <2>1
<1> HIDE DEF critical
<1> DEFINE Critical(T, rule) == \A f \in T : \E d \in FactDomains : \E r \in data.rows[d] :
               f = Audit!Finding(rule, <<r.v.record_id>>, "critical", Audit!Cited(d, {r}))
<1>6. ASSUME NEW T, NEW rule, Critical(T, rule)
      PROVE  NamesEach(data, T)
  <2>1. RecordWise(rule, data, FactDomains, critical, T)
    <3> SUFFICES ASSUME NEW f \in T
                 PROVE  \E d \in FactDomains : \E r \in data.rows[d] :
                            f = Audit!Finding(rule, <<r.v.record_id>>, critical[r],
                                              Audit!Cited(d, {r}))
      BY DEF RecordWise
    <3>1. PICK d \in FactDomains : \E r \in data.rows[d] :
              f = Audit!Finding(rule, <<r.v.record_id>>, "critical", Audit!Cited(d, {r}))
      BY <1>6
    <3>2. PICK r \in data.rows[d] :
              f = Audit!Finding(rule, <<r.v.record_id>>, "critical", Audit!Cited(d, {r}))
      BY <3>1
    <3> QED
      BY <1>1, <3>2
  <2> QED
    BY <1>0, <2>1, RecordsIdentify
<1>2. NamesEach(data, Audit!MissingWBS(data))
  <2>1. Critical(Audit!MissingWBS(data), "DQ-001")
    BY <1>0, ZenonT(60) DEF Audit!MissingWBS, Audit!Records
  <2> HIDE DEF Critical
  <2> QED
    BY <1>6, <2>1
<1>3. NamesEach(data, Audit!OrphanWBS(data))
  <2>1. Critical(Audit!OrphanWBS(data), "DQ-004")
    BY <1>0, ZenonT(60) DEF Audit!OrphanWBS, Audit!Records
  <2> HIDE DEF Critical
  <2> QED
    BY <1>6, <2>1
<1>4. NamesEach(data, Audit!VendorIdentity(data))
  <2>1. RecordWise("DQ-005", data, {"actual_cost"}, observed, Audit!VendorIdentity(data))
    BY DEF RecordWise, Audit!VendorIdentity
  <2> HIDE DEF observed
  <2> QED
    BY <1>0, <2>1, RecordsIdentify
<1>5. NamesEach(data, Audit!HighValueTransaction(data, runtime))
  <2> DEFINE graded == [r \in costs |-> Audit!Banded(
                 /\ r.v.wbs_code # None
                 /\ Audit!RatioAtLeast(r.v.actual_amount, Audit!Budget(data, r.v.wbs_code), 25),
                 "observation")]
  <2>1. RecordWise("CST-005", data, {"actual_cost"}, graded,
                   Audit!HighValueTransaction(data, runtime))
    BY DEF RecordWise, Audit!HighValueTransaction
  <2> HIDE DEF graded
  <2> QED
    BY <1>0, <2>1, RecordsIdentify
<1> QED
  BY <1>2, <1>3, <1>4, <1>5

\* A rule that says one thing of each WBS.
LEMMA CodesIdentify ==
    ASSUME NEW data, NEW d \in FactDomains, NEW T, NEW F,
           DOMAIN F = Audit!Codes(data.rows[d]),
           \A t \in T : \E w \in DOMAIN F : t = F[w] /\ F[w].entity = <<w>>
    PROVE  NamesEach(data, T)
<1>1. ASSUME NEW f \in T, NEW g \in T, f.entity = g.entity
      PROVE  f = g
  <2>1. PICK w \in DOMAIN F : f = F[w] /\ F[w].entity = <<w>>
    OBVIOUS
  <2>2. PICK x \in DOMAIN F : g = F[x] /\ F[x].entity = <<x>>
    OBVIOUS
  <2>3. <<w>> = <<x>>
    BY <1>1, <2>1, <2>2
  <2>4. w = x
    BY <2>3
  <2> QED
    BY <2>1, <2>2, <2>4
<1>2. ASSUME NEW f \in T
      PROVE  \E n \in NamesOfFacts(data) : f.entity = <<n>>
  BY FactsHaveNames
<1> QED
  BY <1>1, <1>2 DEF NamesEach, Identified, NamesOne

\* CST-001, CST-002, CST-003 and XDOM-001.
LEMMA CostsIdentify ==
    ASSUME NEW data
    PROVE  /\ NamesEach(data, Audit!ActualExceedsBudget(data))
           /\ NamesEach(data, Audit!ExposureExceedsBudget(data))
           /\ NamesEach(data, Audit!CostSpike(data))
           /\ NamesEach(data, Audit!ScheduleDelayHighCostExposure(data))
<1>1. NamesEach(data, Audit!ActualExceedsBudget(data))
  <2> DEFINE F == [w \in Audit!Codes(data.rows.budget) |->
                 Audit!Finding("CST-001", <<w>>,
                     Audit!Banded(Audit!RatioAtLeast(Audit!Actual(data, w),
                                                     Audit!Budget(data, w), 110), "warning"),
                     Audit!Cited("actual_cost", Audit!OfWBS(data.rows.actual_cost, w)))]
  <2>1. \A t \in Audit!ActualExceedsBudget(data) : \E w \in DOMAIN F : t = F[w]
    BY DEF Audit!ActualExceedsBudget
  <2>2. \A w \in DOMAIN F : F[w].entity = <<w>>
    BY DEF Audit!Finding
  <2>9. "budget" \in FactDomains /\ DOMAIN F = Audit!Codes(data.rows["budget"])
    BY DEF FactDomains, Domains
  <2> HIDE DEF F
  <2> QED
    BY <2>1, <2>2, <2>9, CodesIdentify
<1>2. NamesEach(data, Audit!ExposureExceedsBudget(data))
  <2> DEFINE F == [w \in Audit!Codes(data.rows.budget) |->
                 Audit!Finding("CST-002", <<w>>,
                     Audit!Banded(Audit!RatioAtLeast(Audit!Exposure(data, w),
                                                     Audit!Budget(data, w), 110), "warning"),
                     Audit!Cited("commitments",
                                 Audit!Open(Audit!OfWBS(data.rows.commitments, w))))]
  <2>1. \A t \in Audit!ExposureExceedsBudget(data) : \E w \in DOMAIN F : t = F[w]
    BY DEF Audit!ExposureExceedsBudget
  <2>2. \A w \in DOMAIN F : F[w].entity = <<w>>
    BY DEF Audit!Finding
  <2>9. "budget" \in FactDomains /\ DOMAIN F = Audit!Codes(data.rows["budget"])
    BY DEF FactDomains, Domains
  <2> HIDE DEF F
  <2> QED
    BY <2>1, <2>2, <2>9, CodesIdentify
<1>3. NamesEach(data, Audit!CostSpike(data))
  <2> DEFINE Costs(w) == Audit!OfWBS(data.rows.actual_cost, w)
             Months(w) == {Audit!Month(r.v.transaction_date) : r \in Costs(w)}
             F == [w \in Audit!Codes(data.rows.actual_cost) |->
                 Audit!Finding("CST-003", <<w>>, "warning",
                     Audit!Cited("actual_cost", Audit!InMonth(Costs(w), Audit!Max(Months(w)))))]
  <2>1. \A t \in Audit!CostSpike(data) : \E w \in DOMAIN F : t = F[w]
    BY DEF Audit!CostSpike
  <2>2. \A w \in DOMAIN F : F[w].entity = <<w>>
    BY DEF Audit!Finding
  <2>9. "actual_cost" \in FactDomains /\ DOMAIN F = Audit!Codes(data.rows["actual_cost"])
    BY DEF FactDomains, Domains
  <2> HIDE DEF F
  <2> QED
    BY <2>1, <2>2, <2>9, CodesIdentify
<1>4. NamesEach(data, Audit!ScheduleDelayHighCostExposure(data))
  <2> DEFINE F == [w \in Audit!Codes(data.rows.schedule) |->
                 Audit!Finding("XDOM-001", <<w>>, "critical",
                               Audit!Cited("schedule", Audit!Delayed(data, w)))]
  <2>1. \A t \in Audit!ScheduleDelayHighCostExposure(data) : \E w \in DOMAIN F : t = F[w]
    BY DEF Audit!ScheduleDelayHighCostExposure
  <2>2. \A w \in DOMAIN F : F[w].entity = <<w>>
    BY DEF Audit!Finding
  <2>9. "schedule" \in FactDomains /\ DOMAIN F = Audit!Codes(data.rows["schedule"])
    BY DEF FactDomains, Domains
  <2> HIDE DEF F
  <2> QED
    BY <2>1, <2>2, <2>9, CodesIdentify
<1> QED
  BY <1>1, <1>2, <1>3, <1>4

\* CST-006, PRG-001 and PRG-003.
LEMMA ProgressIdentifies ==
    ASSUME NEW data, NEW runtime
    PROVE  /\ NamesEach(data, Audit!HighCostLowProgress(data))
           /\ NamesEach(data, Audit!WBSProgressLag(data))
           /\ NamesEach(data, Audit!CostRisingProgressFlat(data, runtime))
<1> DEFINE codes == Audit!Codes(data.rows.progress)
           Newest(w) == Audit!Latest(data, w)
<1>1. NamesEach(data, Audit!HighCostLowProgress(data))
  <2> DEFINE F == [w \in codes |-> Audit!Finding("CST-006", <<w>>, "critical",
                 Audit!Cited("actual_cost", Audit!OfWBS(data.rows.actual_cost, w))
                 \union Audit!Cited("progress", {Newest(w)}))]
  <2>1. \A t \in Audit!HighCostLowProgress(data) : \E w \in DOMAIN F : t = F[w]
    BY DEF Audit!HighCostLowProgress
  <2>2. \A w \in DOMAIN F : F[w].entity = <<w>>
    BY DEF Audit!Finding
  <2>9. "progress" \in FactDomains /\ DOMAIN F = Audit!Codes(data.rows["progress"])
    BY DEF FactDomains, Domains
  <2> HIDE DEF F
  <2> QED
    BY <2>1, <2>2, <2>9, CodesIdentify
<1>2. NamesEach(data, Audit!WBSProgressLag(data))
  <2> DEFINE F == [w \in codes |-> Audit!Finding("PRG-001", <<w>>,
                 Audit!Banded(Audit!Lag(Newest(w).v) >= 20, "warning"),
                 Audit!Cited("progress", {Newest(w)}))]
  <2>1. \A t \in Audit!WBSProgressLag(data) : \E w \in DOMAIN F : t = F[w]
    BY DEF Audit!WBSProgressLag
  <2>2. \A w \in DOMAIN F : F[w].entity = <<w>>
    BY DEF Audit!Finding
  <2>9. "progress" \in FactDomains /\ DOMAIN F = Audit!Codes(data.rows["progress"])
    BY DEF FactDomains, Domains
  <2> HIDE DEF F
  <2> QED
    BY <2>1, <2>2, <2>9, CodesIdentify
<1>3. NamesEach(data, Audit!CostRisingProgressFlat(data, runtime))
  <2> DEFINE Previous(w) ==
                 LET earlier == Audit!OfWBS(data.rows.progress, w) \ {Newest(w)}
                 IN  CHOOSE r \in earlier : \A s \in earlier \ {r} : Audit!Later(r, s)
             E(w) == Audit!Cited("actual_cost",
                         Audit!InMonth(Audit!OfWBS(data.rows.actual_cost, w),
                                       Audit!Month(Newest(w).v.period)))
                     \union Audit!Cited("progress", {Newest(w), Previous(w)})
             F == [w \in codes |-> Audit!Finding("PRG-003", <<w>>, "critical", E(w))]
  <2>1. \A t \in Audit!CostRisingProgressFlat(data, runtime) : \E w \in codes :
           t = Audit!Finding("PRG-003", <<w>>, "critical", E(w))
    BY DEF Audit!CostRisingProgressFlat
  <2> HIDE DEF E
  <2>2. \A t \in Audit!CostRisingProgressFlat(data, runtime) : \E w \in DOMAIN F : t = F[w]
    BY <2>1
  <2>3. \A w \in DOMAIN F : F[w].entity = <<w>>
    BY DEF Audit!Finding
  <2>9. "progress" \in FactDomains /\ DOMAIN F = Audit!Codes(data.rows["progress"])
    BY DEF FactDomains, Domains
  <2> HIDE DEF F
  <2> QED
    BY <2>2, <2>3, <2>9, CodesIdentify
<1> QED
  BY <1>1, <1>2, <1>3

\* PRG-002 names a row that is out of range by its WBS or by its id.
LEMMA RangeIdentifies ==
    ASSUME NEW data, OneAbove(data)
    PROVE  NamesEach(data, Audit!ProgressAbove100(data))
<1> DEFINE F(r) == Audit!Finding("PRG-002", <<NameOf(r)>>, "critical",
                                 Audit!Cited("progress", {r}))
           Above(r) == r.v.actual_progress > 100 \/ r.v.planned_progress > 100
           T == Audit!ProgressAbove100(data)
<1>1. \A t \in T : \E r \in data.rows["progress"] : Above(r) /\ t = F(r)
  BY DEF Audit!ProgressAbove100, NameOf
<1>2. \A r : F(r).entity = <<NameOf(r)>>
  BY DEF Audit!Finding
<1>3. \A r, s \in data.rows["progress"] :
         NameOf(r) = NameOf(s) /\ Above(r) /\ Above(s) => r = s
  BY DEF OneAbove
<1> HIDE DEF F, Above, T
<1>4. ASSUME NEW f \in T, NEW g \in T, f.entity = g.entity
      PROVE  f = g
  <2>1. PICK r \in data.rows["progress"] : Above(r) /\ f = F(r)
    BY <1>1
  <2>2. PICK s \in data.rows["progress"] : Above(s) /\ g = F(s)
    BY <1>1
  <2>3. <<NameOf(r)>> = <<NameOf(s)>>
    BY <1>2, <1>4, <2>1, <2>2
  <2>4. NameOf(r) = NameOf(s)
    BY <2>3
  <2> QED
    BY <1>3, <2>1, <2>2, <2>4
<1>5. ASSUME NEW f \in T
      PROVE  \E n \in NamesOfFacts(data) : f.entity = <<n>>
  <2>1. PICK r \in data.rows["progress"] : f = F(r)
    BY <1>1
  <2>2. NameOf(r) \in NamesOfFacts(data)
    BY FactsHaveNames DEF NameOf, FactDomains, Domains
  <2> QED
    BY <1>2, <2>1, <2>2
<1>6. NamesEach(data, T)
  BY <1>4, <1>5 DEF NamesEach, Identified, NamesOne
<1> QED
  BY <1>6 DEF T

\* DQ-002 lists the ids of a group of costs that are alike: groups that share
\* an id share a row.
LEMMA GroupsIdentify ==
    ASSUME NEW data, IsFiniteData(data), Keyed(data), OneRecord(data)
    PROVE  /\ \A f \in Audit!DuplicateCost(data) :
                 /\ 1 \in DOMAIN f.entity
                 /\ \A i \in DOMAIN f.entity : f.entity[i] \in NamesOfFacts(data)
           /\ \A f, g \in Audit!DuplicateCost(data) :
                 \A i \in DOMAIN f.entity, j \in DOMAIN g.entity :
                    f.entity[i] = g.entity[j] => f = g
<1> DEFINE costs == data.rows["actual_cost"]
           Key(v) == <<v.transaction_date, v.wbs_code, Audit!Vendor(v), v.actual_amount>>
           Group(r) == {s \in costs : Key(s.v) = Key(r.v)}
           Ids(rows) == CHOOSE ids \in {[i \in DOMAIN q |-> q[i].v.record_id] :
                                           q \in Audit!SetToSeqs(rows)} : TRUE
           Twice == {s \in costs : Audit!Cardinality(Group(s)) >= 2}
           F(rows) == Audit!Finding("DQ-002", Ids(rows), "warning",
                                    Audit!Cited("actual_cost", rows))
           T == Audit!DuplicateCost(data)
<1>1. T = {F(Group(r)) : r \in Twice}
  BY Zenon DEF Audit!DuplicateCost
<1>2. \A rows : F(rows).entity = Ids(rows)
  BY DEF Audit!Finding
<1>3. \A r \in costs, s, t \in costs : s \in Group(r) /\ s \in Group(t) => Group(r) = Group(t)
  <2> HIDE DEF Key
  <2> QED
    OBVIOUS
<1>4. \A r : Group(r) \subseteq costs
  OBVIOUS
<1> HIDE DEF T, F, Group
<1>5. ASSUME NEW rows, rows \subseteq costs, Audit!Cardinality(rows) >= 2
      PROVE  /\ 1 \in DOMAIN Ids(rows)
             /\ \A i \in DOMAIN Ids(rows) : \E s \in rows : Ids(rows)[i] = s.v.record_id
  <2> DEFINE n == Cardinality(rows)
             Named(q) == [i \in DOMAIN q |-> q[i].v.record_id]
             Lists == {Named(q) : q \in Audit!SetToSeqs(rows)}
  <2>1. IsFiniteSet(rows)
    BY <1>5, FS_Subset DEF IsFiniteData, Domains
  <2>2. n \in Nat /\ n >= 2 /\ ExistsBijection(1..n, rows)
    BY <1>5, <2>1, SameCount, FS_CardinalityType
  <2>3. Audit!SetToSeqs(rows) =
           {q \in [1..n -> rows] : \A i, j \in 1..n : i # j => q[i] # q[j]}
    BY SameCount DEF Audit!SetToSeqs
  <2>4. PICK p : p \in Bijection(1..n, rows)
    BY <2>2 DEF ExistsBijection
  <2>5. p \in Audit!SetToSeqs(rows)
    BY <2>3, <2>4 DEF Bijection, Injection, IsInjective
  <2>6. Ids(rows) \in Lists
    <3>1. Named(p) \in Lists
      BY <2>5
    <3>2. Ids(rows) = CHOOSE ids \in Lists : TRUE
      OBVIOUS
    <3> HIDE DEF Lists, Ids
    <3> QED
      BY <3>1, <3>2
  <2> HIDE DEF Ids
  <2>7. PICK q \in Audit!SetToSeqs(rows) : Ids(rows) = Named(q)
    BY <2>6
  <2>8. q \in [1..n -> rows] /\ 1 \in 1..n
    BY <2>2, <2>3, <2>7
  <2> HIDE DEF n
  <2>9. /\ 1 \in DOMAIN Named(q)
        /\ \A i \in DOMAIN Named(q) : q[i] \in rows /\ Named(q)[i] = q[i].v.record_id
    BY <2>8
  <2> QED
    BY <2>7, <2>9
<1> HIDE DEF Ids
<1>6. ASSUME NEW f \in T
      PROVE  \E r \in Twice : /\ f = F(Group(r)) /\ f.entity = Ids(Group(r))
                               /\ Group(r) \subseteq costs /\ 1 \in DOMAIN f.entity
                               /\ \A i \in DOMAIN f.entity : \E s \in Group(r) :
                                     f.entity[i] = s.v.record_id
  <2>1. PICK r \in Twice : f = F(Group(r))
    BY <1>1
  <2>2. f.entity = Ids(Group(r))
    BY <1>2, <2>1
  <2>3. Group(r) \subseteq costs /\ Audit!Cardinality(Group(r)) >= 2
    BY <1>4
  <2> QED
    BY <1>5, <2>1, <2>2, <2>3
<1>7. ASSUME NEW f \in T, NEW g \in T, NEW i \in DOMAIN f.entity, NEW j \in DOMAIN g.entity,
             f.entity[i] = g.entity[j]
      PROVE  f = g
  <2>1. PICK r \in Twice : f = F(Group(r)) /\ Group(r) \subseteq costs
                           /\ \A k \in DOMAIN f.entity : \E s \in Group(r) :
                                 f.entity[k] = s.v.record_id
    BY <1>6
  <2>2. PICK t \in Twice : g = F(Group(t)) /\ Group(t) \subseteq costs
                           /\ \A k \in DOMAIN g.entity : \E s \in Group(t) :
                                 g.entity[k] = s.v.record_id
    BY <1>6
  <2>3. PICK s \in Group(r) : f.entity[i] = s.v.record_id
    BY <2>1
  <2>4. PICK u \in Group(t) : g.entity[j] = u.v.record_id
    BY <2>2
  <2>5. s \in costs /\ u \in costs /\ s.v.record_id = u.v.record_id
    BY <1>7, <2>1, <2>2, <2>3, <2>4
  <2>6. s.row = u.row
    BY <2>5 DEF OneRecord, FactDomains, Domains
  <2>7. s = u
    BY <2>5, <2>6 DEF Keyed, Domains
  <2>8. Group(r) = Group(t)
    BY <1>3, <2>3, <2>4, <2>5, <2>7
  <2> QED
    BY <2>1, <2>2, <2>8
<1>8. ASSUME NEW f \in T
      PROVE  /\ 1 \in DOMAIN f.entity
             /\ \A i \in DOMAIN f.entity : f.entity[i] \in NamesOfFacts(data)
  <2>1. PICK r \in Twice : /\ Group(r) \subseteq costs /\ 1 \in DOMAIN f.entity
                           /\ \A i \in DOMAIN f.entity : \E s \in Group(r) :
                                 f.entity[i] = s.v.record_id
    BY <1>6
  <2>2. \A s \in costs : s.v.record_id \in NamesOfFacts(data)
    BY FactsHaveNames DEF FactDomains, Domains
  <2> QED
    BY <2>1, <2>2
<1> QED
  BY <1>7, <1>8 DEF T

\* CST-004 names a vendor with its WBS, or each vendor by its strongest WBS:
\* of two the larger share decides, and of equal shares the earlier row.
LEMMA VendorsIdentify ==
    ASSUME NEW data, IsFiniteData(data), HasAmounts(data), Keyed(data), NEW runtime
    PROVE  /\ Identified(Audit!VendorConcentration(data, runtime))
           /\ \A f \in Audit!VendorConcentration(data, runtime) :
                 \E w, v \in NamesOfFacts(data) : f.entity \in {<<w, v>>, <<v>>}
<1> DEFINE costs == data.rows["actual_cost"]
           Pairs == {<<r.v.wbs_code, r.v.vendor_id>> : r \in {s \in data.rows.actual_cost :
                         s.v.wbs_code # None /\ s.v.vendor_id # None}}
           Large == {p \in Pairs : Audit!Share(data, p[1], p[2], 40)}
           Rows(p) == Audit!OfVendor(Audit!OfWBS(data.rows.actual_cost, p[1]), p[2])
           Amount(p) == Audit!Total(Rows(p), "actual_amount")
           Weight(p, q) == Amount(p) * Audit!Actual(data, q[1])
           Stronger(p, q) == IF Audit!Actual(data, p[1]) * Audit!Actual(data, q[1]) > 0
                             THEN Weight(p, q) > Weight(q, p) ELSE Weight(p, q) < Weight(q, p)
           First(p) == Audit!Min({r.row : r \in Rows(p)})
           Strongest == {p \in Large : \A q \in Large : q[2] = p[2] /\ q # p =>
                            Stronger(p, q) \/ (~Stronger(q, p) /\ First(p) < First(q))}
           Severe(p) == Audit!Banded(Audit!Share(data, p[1], p[2], 60), "warning")
           Judged == IF runtime THEN Large ELSE Strongest
           Entity(p) == IF runtime THEN p ELSE <<p[2]>>
           F(p) == Audit!Finding("CST-004", Entity(p), Severe(p),
                                 Audit!Cited("actual_cost", Rows(p)))
           T == Audit!VendorConcentration(data, runtime)
<1>1. T = {F(p) : p \in Judged}
  BY Zenon DEF Audit!VendorConcentration
<1>2. \A p : F(p).entity = Entity(p)
  BY DEF Audit!Finding
<1>3. \A w : Audit!Actual(data, w) \in Int
  <2> SUFFICES ASSUME NEW w
               PROVE  Audit!Total(Audit!OfWBS(costs, w), "actual_amount") \in Int
    BY DEF Audit!Actual
  <2> DEFINE rows == Audit!OfWBS(costs, w)
  <2>1. rows \subseteq costs
    BY DEF Audit!OfWBS
  <2> HIDE DEF rows
  <2>2. IsFiniteSet(rows)
    BY <2>1, FS_Subset DEF IsFiniteData, Domains
  <2>3. \A r \in rows : r.v["actual_amount"] \in Int
    BY <2>1 DEF HasAmounts, AmountDomains, Amounts
  <2>4. Audit!Total(rows, "actual_amount") \in Int
    BY <2>2, <2>3, TotalIsNumber
  <2> QED
    BY <2>4 DEF rows
<1>4. ASSUME NEW p \in Large
      PROVE  Amount(p) \in Int /\ First(p) \in Nat
  <2>1. Rows(p) \subseteq costs
    BY DEF Audit!OfVendor, Audit!OfWBS
  <2>2. PICK r \in costs : p = <<r.v.wbs_code, r.v.vendor_id>>
    OBVIOUS
  <2>3. r \in Rows(p)
    BY <2>2 DEF Audit!OfVendor, Audit!OfWBS
  <2> HIDE DEF Rows
  <2>4. IsFiniteSet(Rows(p))
    BY <2>1, FS_Subset DEF IsFiniteData, Domains
  <2>5. \A s \in Rows(p) : s.v["actual_amount"] \in Int /\ s.row \in Nat
    BY <2>1 DEF HasAmounts, AmountDomains, Amounts, Keyed, Domains
  <2>6. Amount(p) \in Int
    BY <2>4, <2>5, TotalIsNumber
  <2>7. First(p) \in Nat
    <3> DEFINE places == {s.row : s \in Rows(p)}
    <3>1. places \subseteq Nat /\ places # {}
      BY <2>3, <2>5
    <3> HIDE DEF places
    <3>2. Audit!Min(places) \in Nat
      BY <3>1, LeastRow
    <3> QED
      BY <3>2 DEF places
  <2> QED
    BY <2>6, <2>7
<1>5. \A p, q \in Large : Weight(p, q) \in Int
  <2> TAKE p \in Large, q \in Large
  <2>1. Amount(p) \in Int /\ Audit!Actual(data, q[1]) \in Int
    BY <1>3, <1>4
  <2> HIDE DEF Amount, Large
  <2> QED
    BY <2>1
<1>6. Strongest \subseteq Large /\ Judged \subseteq Large
  OBVIOUS
<1>7. \A p \in Large : Len(p) = 2 /\ p = <<p[1], p[2]>>
  OBVIOUS
<1>8. ASSUME NEW p \in Strongest, NEW q \in Strongest, p[2] = q[2], p # q
      PROVE  FALSE
  <2> DEFINE a == Audit!Actual(data, p[1])
             b == Audit!Actual(data, q[1])
  <2>1. Stronger(p, q) \/ (~Stronger(q, p) /\ First(p) < First(q))
    BY <1>6, <1>8
  <2>2. Stronger(q, p) \/ (~Stronger(p, q) /\ First(q) < First(p))
    BY <1>6, <1>8
  <2>3. /\ Weight(p, q) \in Int /\ Weight(q, p) \in Int
        /\ First(p) \in Nat /\ First(q) \in Nat
    BY <1>4, <1>5, <1>6
  <2>4. /\ Stronger(p, q) <=> IF a * b > 0 THEN Weight(p, q) > Weight(q, p)
                               ELSE Weight(p, q) < Weight(q, p)
        /\ Stronger(q, p) <=> IF b * a > 0 THEN Weight(q, p) > Weight(p, q)
                               ELSE Weight(q, p) < Weight(p, q)
    OBVIOUS
  <2>5. a * b = b * a
    BY <1>3
  <2> HIDE DEF Weight, Stronger, First, Strongest, a, b
  <2> QED
    BY <2>1, <2>2, <2>3, <2>4, <2>5
<1> HIDE DEF T, F, Large, Strongest
<1>9. ASSUME NEW f \in T, NEW g \in T, f.entity = g.entity
      PROVE  f = g
  <2>1. PICK p \in Judged : f = F(p)
    BY <1>1
  <2>2. PICK q \in Judged : g = F(q)
    BY <1>1
  <2>3. Entity(p) = Entity(q)
    BY <1>2, <1>9, <2>1, <2>2
  <2>4. p = q
    <3>1. CASE runtime
      BY <2>3, <3>1
    <3>2. CASE ~runtime
      <4>1. <<p[2]>> = <<q[2]>>
        BY <2>3, <3>2
      <4>2. p[2] = q[2] /\ p \in Strongest /\ q \in Strongest
        BY <3>2, <4>1
      <4> QED
        BY <1>8, <4>2
    <3> QED
      BY <3>1, <3>2
  <2> QED
    BY <2>1, <2>2, <2>4
<1>10. Identified(T)
  BY <1>9 DEF Identified
<1>11. ASSUME NEW f \in T
       PROVE  \E w, v \in NamesOfFacts(data) : f.entity \in {<<w, v>>, <<v>>}
  <2>1. PICK p \in Judged : f = F(p)
    BY <1>1
  <2>2. f.entity = Entity(p) /\ p \in Large
    BY <1>2, <1>6, <2>1
  <2>3. PICK r \in costs : p = <<r.v.wbs_code, r.v.vendor_id>>
                           /\ r.v.wbs_code # None /\ r.v.vendor_id # None
    BY <2>2 DEF Large
  <2> DEFINE w == r.v.wbs_code
             v == r.v.vendor_id
  <2>4. w \in NamesOfFacts(data)
    BY <2>3, FactsHaveNames DEF FactDomains, Domains
  <2>5. v \in NamesOfFacts(data)
    BY <2>3 DEF NamesOfFacts
  <2>6. Entity(p) = <<w, v>> \/ Entity(p) = <<v>>
    BY <2>3
  <2> HIDE DEF Entity, w, v
  <2> QED
    BY <2>2, <2>4, <2>5, <2>6
<1> QED
  BY <1>10, <1>11 DEF T

-----------------------------------------------------------------------------
(* The ids of findings.                                                       *)

\* The names of the facts differ by more than the case of their letters, and
\* none has a slash or a bar.
Spelled(data) ==
    /\ \A n \in NamesOfFacts(data) : Plain(n)
    /\ \A m, n \in NamesOfFacts(data) : Folded(m) = Folded(n) => m = n

\* Of two findings of a rule with one id both are the same.
IdsDiffer(T) ==
    \A f, g \in T : Audit!stable_finding_id(f) = Audit!stable_finding_id(g) => f = g

\* Texts of one segment each, none of them empty, keep their segments.
LEMMA SegmentsKept ==
    ASSUME NEW texts, NEW S,
           \A i \in DOMAIN texts : \E s \in S : texts[i] = <<s>> /\ s # <<Audit!NoText>>
    PROVE  DOMAIN Audit!normalize_entity(texts) = {texts[i][1] : i \in DOMAIN texts}
<1> DEFINE Segment(p) == texts[p[1]][p[2]]
           places == UNION {{<<i, k>> : k \in DOMAIN texts[i]} : i \in DOMAIN texts}
           kept == {p \in places : Segment(p) # <<Audit!NoText>>}
<1>1. DOMAIN Audit!normalize_entity(texts) = {Segment(p) : p \in kept}
  BY DEF Audit!normalize_entity
<1>2. \A i \in DOMAIN texts : DOMAIN texts[i] = {1} /\ texts[i][1] # <<Audit!NoText>>
  <2> SUFFICES ASSUME NEW i \in DOMAIN texts
               PROVE  DOMAIN texts[i] = {1} /\ texts[i][1] # <<Audit!NoText>>
    OBVIOUS
  <2>1. PICK s \in S : texts[i] = <<s>> /\ s # <<Audit!NoText>>
    OBVIOUS
  <2> QED
    BY <2>1
<1>3. kept = {<<i, 1>> : i \in DOMAIN texts}
  <2>1. places = {<<i, 1>> : i \in DOMAIN texts}
    BY <1>2
  <2>2. \A i \in DOMAIN texts : Segment(<<i, 1>>) = texts[i][1]
    OBVIOUS
  <2> HIDE DEF places, Segment
  <2> QED
    BY <1>2, <2>1, <2>2
<1>4. \A i : Segment(<<i, 1>>) = texts[i][1]
  OBVIOUS
<1>5. {Segment(p) : p \in kept} = {texts[i][1] : i \in DOMAIN texts}
  <2> HIDE DEF kept, Segment
  <2>1. {Segment(p) : p \in kept} \subseteq {texts[i][1] : i \in DOMAIN texts}
    BY <1>3, <1>4
  <2>2. {texts[i][1] : i \in DOMAIN texts} \subseteq {Segment(p) : p \in kept}
    <3> SUFFICES ASSUME NEW i \in DOMAIN texts
                 PROVE  texts[i][1] \in {Segment(p) : p \in kept}
      OBVIOUS
    <3>1. <<i, 1>> \in kept
      BY <1>3
    <3>2. Segment(<<i, 1>>) = texts[i][1]
      BY <1>4
    <3> QED
      BY <3>1, <3>2, Zenon
  <2> QED
    BY <2>1, <2>2
<1> QED
  BY <1>1, <1>5

\* What the id of a finding is made of, where its names are plain.
LEMMA PlainSegments ==
    ASSUME NEW f, \A i \in DOMAIN f.entity : Plain(f.entity[i]),
           ~(f.rule = "CST-004" /\ Len(f.entity) = 2)
    PROVE  DOMAIN Audit!normalize_entity(Audit!Written(f))
             = {<<Folded(f.entity[i])>> : i \in DOMAIN f.entity}
<1> DEFINE texts == Audit!Written(f)
           S == {<<Folded(f.entity[i])>> : i \in DOMAIN f.entity}
<1>1. texts = [i \in DOMAIN f.entity |-> Segments(f.entity[i])]
  BY DEF Audit!Written
<1> HIDE DEF texts
<1>2. ASSUME NEW i \in DOMAIN f.entity
      PROVE  texts[i] = <<<<Folded(f.entity[i])>>>> /\ <<Folded(f.entity[i])>> # <<Audit!NoText>>
  <2>1. Segments(f.entity[i]) = <<<<Folded(f.entity[i])>>>> /\ Folded(f.entity[i]) # Audit!NoText
    BY DEF Plain
  <2>2. \A x, y : <<x>> = <<y>> => x = y
    OBVIOUS
  <2> QED
    BY <1>1, <2>1, <2>2
<1>3. DOMAIN texts = DOMAIN f.entity
  BY <1>1
<1>4. \A i \in DOMAIN texts : \E s \in S : texts[i] = <<s>> /\ s # <<Audit!NoText>>
  BY <1>2, <1>3
<1>5. DOMAIN Audit!normalize_entity(texts) = {texts[i][1] : i \in DOMAIN texts}
  <2> HIDE DEF S
  <2> QED
    BY <1>4, SegmentsKept
<1>6. \A i \in DOMAIN texts : texts[i][1] = <<Folded(f.entity[i])>>
  BY <1>2, <1>3
<1> QED
  BY <1>3, <1>5, <1>6 DEF texts

\* A pair of names is one segment of two texts.
LEMMA BarredSegments ==
    ASSUME NEW f, NEW w, NEW v, f.entity = <<w, v>>, f.rule = "CST-004", Plain(w), Plain(v)
    PROVE  DOMAIN Audit!normalize_entity(Audit!Written(f)) = {<<Folded(w), Folded(v)>>}
<1> DEFINE s == <<Folded(w), Folded(v)>>
           texts == Audit!Written(f)
<1>1. texts = <<Audit!Barred(Segments(w), Segments(v))>>
  <2>1. Len(f.entity) = 2 /\ f.entity[1] = w /\ f.entity[2] = v
    OBVIOUS
  <2> QED
    BY <2>1 DEF Audit!Written
<1>2. Audit!Barred(Segments(w), Segments(v)) = <<s>>
  <2> DEFINE a == <<<<Folded(w)>>>>
             b == <<<<Folded(v)>>>>
  <2>1. Segments(w) = a /\ Segments(v) = b
    BY DEF Plain
  <2>2. Len(a) = 1 /\ Len(b) = 1 /\ a[1] \o b[1] = s
    <3>1. a[1] = <<Folded(w)>> /\ b[1] = <<Folded(v)>>
      OBVIOUS
    <3>2. ASSUME NEW x, NEW y
          PROVE  <<x>> \o <<y>> = <<x, y>>
      <4> DEFINE S == {x, y}
      <4>1. <<x>> \in Seq(S) /\ <<y>> \in Seq(S)
        OBVIOUS
      <4>2. <<x>> \o <<y>> \in Seq(S) /\ Len(<<x>> \o <<y>>) = 2
        BY <4>1
      <4>3. (<<x>> \o <<y>>)[1] = x /\ (<<x>> \o <<y>>)[2] = y
        BY <4>1
      <4>4. <<x, y>> \in Seq(S) /\ Len(<<x, y>>) = 2
        OBVIOUS
      <4>5. \A k \in 1..2 : (<<x>> \o <<y>>)[k] = <<x, y>>[k]
        BY <4>3
      <4> HIDE DEF S
      <4> QED
        BY <4>2, <4>4, <4>5, SeqEqual
    <3> QED
      BY <3>1, <3>2
  <2> HIDE DEF a, b, s
  <2>3. Audit!Barred(a, b) = [k \in 1..1 |-> s]
    BY <2>2 DEF Audit!Barred
  <2>4. [k \in 1..1 |-> s] = <<s>>
    OBVIOUS
  <2> QED
    BY <2>1, <2>3, <2>4
<1>3. s # <<Audit!NoText>>
  OBVIOUS
<1> HIDE DEF s, texts
<1>4. texts = <<<<s>>>>
  BY <1>1, <1>2
<1>5. DOMAIN texts = {1} /\ texts[1] = <<s>> /\ texts[1][1] = s
  BY <1>4
<1>6. \A i \in DOMAIN texts : \E t \in {s} : texts[i] = <<t>> /\ t # <<Audit!NoText>>
  BY <1>3, <1>5
<1>7. DOMAIN Audit!normalize_entity(texts) = {texts[i][1] : i \in DOMAIN texts}
  BY <1>6, SegmentsKept
<1>8. {texts[i][1] : i \in DOMAIN texts} = {s}
  BY <1>5
<1> QED
  BY <1>7, <1>8 DEF texts, s

\* Entities of one name.
LEMMA OneNameDiffers ==
    ASSUME NEW data, Spelled(data), NEW T, NamesEach(data, T)
    PROVE  IdsDiffer(T)
<1> SUFFICES ASSUME NEW f \in T, NEW g \in T,
                    Audit!stable_finding_id(f) = Audit!stable_finding_id(g)
             PROVE  f = g
  BY DEF IdsDiffer
<1> DEFINE Of(x) == DOMAIN Audit!normalize_entity(Audit!Written(x))
<1>1. Of(f) = Of(g)
  BY DEF Audit!stable_finding_id
<1>2. ASSUME NEW x \in T, NEW n \in NamesOfFacts(data), x.entity = <<n>>
      PROVE  Of(x) = {<<Folded(n)>>}
  <2>1. DOMAIN x.entity = {1} /\ x.entity[1] = n /\ Len(x.entity) # 2
    BY <1>2
  <2>2. \A i \in DOMAIN x.entity : Plain(x.entity[i])
    BY <2>1 DEF Spelled
  <2>3. Of(x) = {<<Folded(x.entity[i])>> : i \in DOMAIN x.entity}
    BY <2>1, <2>2, PlainSegments
  <2> QED
    BY <2>1, <2>3
<1>3. PICK m \in NamesOfFacts(data) : f.entity = <<m>>
  BY DEF NamesEach, NamesOne
<1>4. PICK n \in NamesOfFacts(data) : g.entity = <<n>>
  BY DEF NamesEach, NamesOne
<1> HIDE DEF Of
<1>5. {<<Folded(m)>>} = {<<Folded(n)>>}
  BY <1>1, <1>2, <1>3, <1>4
<1>6. Folded(m) = Folded(n)
  <2>1. <<Folded(m)>> = <<Folded(n)>>
    BY <1>5
  <2> QED
    BY <2>1
<1>7. m = n
  BY <1>6 DEF Spelled
<1> QED
  BY <1>3, <1>4, <1>7 DEF NamesEach, Identified

\* Groups of records: those that share an id share a record.
LEMMA GroupNamesDiffer ==
    ASSUME NEW data, IsFiniteData(data), Keyed(data), OneRecord(data), Spelled(data),
           \A f \in Audit!DuplicateCost(data) : f.rule = "DQ-002"
    PROVE  IdsDiffer(Audit!DuplicateCost(data))
<1> DEFINE T == Audit!DuplicateCost(data)
           Of(x) == DOMAIN Audit!normalize_entity(Audit!Written(x))
<1>1. /\ \A f \in T : /\ 1 \in DOMAIN f.entity
                      /\ \A i \in DOMAIN f.entity : f.entity[i] \in NamesOfFacts(data)
      /\ \A f, g \in T : \A i \in DOMAIN f.entity, j \in DOMAIN g.entity :
            f.entity[i] = g.entity[j] => f = g
  BY GroupsIdentify
<1>2. \A f \in T : f.rule # "CST-004"
  OBVIOUS
<1> HIDE DEF T
<1>3. ASSUME NEW f \in T
      PROVE  Of(f) = {<<Folded(f.entity[i])>> : i \in DOMAIN f.entity}
  <2>1. \A i \in DOMAIN f.entity : Plain(f.entity[i])
    BY <1>1 DEF Spelled
  <2> QED
    BY <1>2, <2>1, PlainSegments
<1>4. ASSUME NEW f \in T, NEW g \in T,
             Audit!stable_finding_id(f) = Audit!stable_finding_id(g)
      PROVE  f = g
  <2>1. Of(f) = Of(g)
    BY <1>4 DEF Audit!stable_finding_id
  <2> HIDE DEF Of
  <2>2. <<Folded(f.entity[1])>> \in Of(g)
    BY <1>1, <1>3, <2>1
  <2>3. PICK j \in DOMAIN g.entity : <<Folded(f.entity[1])>> = <<Folded(g.entity[j])>>
    BY <1>3, <2>2
  <2>4. Folded(f.entity[1]) = Folded(g.entity[j])
    <3>1. \A x, y : <<x>> = <<y>> => x = y
      OBVIOUS
    <3> QED
      BY <2>3, <3>1
  <2>5. f.entity[1] = g.entity[j]
    BY <1>1, <2>4 DEF Spelled
  <2> QED
    BY <1>1, <2>5
<1> QED
  BY <1>4 DEF IdsDiffer, T

\* Vendors, with the WBS or without.
LEMMA VendorNamesDiffer ==
    ASSUME NEW data, IsFiniteData(data), HasAmounts(data), Keyed(data), Spelled(data),
           NEW runtime,
           \A f \in Audit!VendorConcentration(data, runtime) : f.rule = "CST-004"
    PROVE  IdsDiffer(Audit!VendorConcentration(data, runtime))
<1> DEFINE T == Audit!VendorConcentration(data, runtime)
           Of(x) == DOMAIN Audit!normalize_entity(Audit!Written(x))
           Names == NamesOfFacts(data)
<1>1. /\ Identified(T)
      /\ \A f \in T : \E w, v \in Names : f.entity \in {<<w, v>>, <<v>>}
      /\ \A f \in T : f.rule = "CST-004"
  BY VendorsIdentify
<1> HIDE DEF T
<1>2. \A n \in Names : Plain(n)
  BY DEF Spelled
<1>3. \A m, n \in Names : Folded(m) = Folded(n) => m = n
  BY DEF Spelled
<1>4. ASSUME NEW f \in T, NEW w \in Names, NEW v \in Names, f.entity = <<w, v>>
      PROVE  Of(f) = {<<Folded(w), Folded(v)>>}
  BY <1>1, <1>2, <1>4, BarredSegments
<1>5. ASSUME NEW f \in T, NEW v \in Names, f.entity = <<v>>
      PROVE  Of(f) = {<<Folded(v)>>}
  <2>1. DOMAIN f.entity = {1} /\ f.entity[1] = v /\ Len(f.entity) # 2
    BY <1>5
  <2>2. \A i \in DOMAIN f.entity : Plain(f.entity[i])
    BY <1>2, <2>1
  <2>3. Of(f) = {<<Folded(f.entity[i])>> : i \in DOMAIN f.entity}
    BY <2>1, <2>2, PlainSegments
  <2> QED
    BY <2>1, <2>3
<1> HIDE DEF Of, Names
<1>6. ASSUME NEW f \in T, NEW g \in T, Of(f) = Of(g)
      PROVE  f.entity = g.entity
  <2>0. /\ \A x, y : <<x>> = <<y>> => x = y
        /\ \A x, y, u, z : <<x, u>> = <<y, z>> => x = y /\ u = z
        /\ \A x, y, z : <<x>> # <<y, z>>
    <3>1. \A x, y : <<x>> = <<y>> => x = y
      OBVIOUS
    <3>2. \A x, y, u, z : <<x, u>> = <<y, z>> => x = y /\ u = z
      OBVIOUS
    <3>3. \A x, y, z : <<x>> # <<y, z>>
      OBVIOUS
    <3> QED
      BY <3>1, <3>2, <3>3
  <2>1. PICK w \in Names, v \in Names : f.entity \in {<<w, v>>, <<v>>}
    BY <1>1
  <2>2. PICK x \in Names, y \in Names : g.entity \in {<<x, y>>, <<y>>}
    BY <1>1
  <2>3. CASE f.entity = <<w, v>> /\ g.entity = <<x, y>>
    <3>0. {<<Folded(w), Folded(v)>>} = {<<Folded(x), Folded(y)>>}
      BY <1>4, <1>6, <2>3
    <3>1. <<Folded(w), Folded(v)>> = <<Folded(x), Folded(y)>>
      BY <3>0
    <3>2. w = x /\ v = y
      BY <1>3, <2>0, <3>1
    <3> QED
      BY <2>3, <3>2
  <2>4. CASE f.entity = <<w, v>> /\ g.entity = <<y>>
    <3>0. {<<Folded(w), Folded(v)>>} = {<<Folded(y)>>}
      BY <1>4, <1>5, <1>6, <2>4
    <3>1. <<Folded(w), Folded(v)>> = <<Folded(y)>>
      BY <3>0
    <3> QED
      BY <2>0, <3>1
  <2>5. CASE f.entity = <<v>> /\ g.entity = <<x, y>>
    <3>0. {<<Folded(v)>>} = {<<Folded(x), Folded(y)>>}
      BY <1>4, <1>5, <1>6, <2>5
    <3>1. <<Folded(v)>> = <<Folded(x), Folded(y)>>
      BY <3>0
    <3> QED
      BY <2>0, <3>1
  <2>6. CASE f.entity = <<v>> /\ g.entity = <<y>>
    <3>0. {<<Folded(v)>>} = {<<Folded(y)>>}
      BY <1>5, <1>6, <2>6
    <3>1. <<Folded(v)>> = <<Folded(y)>>
      BY <3>0
    <3>2. v = y
      BY <1>3, <2>0, <3>1
    <3> QED
      BY <2>6, <3>2
  <2> QED
    BY <2>1, <2>2, <2>3, <2>4, <2>5, <2>6
<1>7. ASSUME NEW f \in T, NEW g \in T,
             Audit!stable_finding_id(f) = Audit!stable_finding_id(g)
      PROVE  f = g
  <2>1. Of(f) = Of(g)
    BY <1>7 DEF Audit!stable_finding_id, Of
  <2> QED
    BY <1>1, <1>6, <2>1 DEF Identified
<1> QED
  BY <1>7 DEF IdsDiffer, T

\* Every rule gives its findings ids of their own.
LEMMA RulesIdentify ==
    ASSUME NEW data, IsFiniteData(data), HasAmounts(data), Keyed(data), Spelled(data),
           OneRecord(data), OneAbove(data), NEW runtime, NEW rule \in Audit!Rules
    PROVE  IdsDiffer(Audit!evaluate(rule, data, runtime))
<1> DEFINE T == Audit!evaluate(rule, data, runtime)
<1>0. \A f \in T : f.rule = rule
  BY FindingNamesItsRule
<1>1. CASE rule \in {"DQ-001", "DQ-004", "DQ-005", "CST-005"}
  <2>1. NamesEach(data, T)
    BY <1>1, QualityIdentifies DEF Audit!evaluate
  <2> QED
    BY <2>1, OneNameDiffers
<1>2. CASE rule = "DQ-002"
  <2>1. T = Audit!DuplicateCost(data)
    BY <1>2 DEF Audit!evaluate
  <2> QED
    BY <1>0, <1>2, <2>1, GroupNamesDiffer
<1>3. CASE rule \in {"DQ-003", "SCH-001", "SCH-002", "SCH-003", "SCH-004", "SCH-005"}
  <2>1. NamesEach(data, T)
    BY <1>3, ActivitiesIdentify DEF Audit!evaluate
  <2> QED
    BY <2>1, OneNameDiffers
<1>4. CASE rule \in {"CST-001", "CST-002", "CST-003", "XDOM-001"}
  <2>1. NamesEach(data, T)
    BY <1>4, CostsIdentify DEF Audit!evaluate
  <2> QED
    BY <2>1, OneNameDiffers
<1>5. CASE rule = "CST-004"
  <2>1. T = Audit!VendorConcentration(data, runtime)
    BY <1>5 DEF Audit!evaluate
  <2> QED
    BY <1>0, <1>5, <2>1, VendorNamesDiffer
<1>6. CASE rule \in {"CST-006", "PRG-001", "PRG-003"}
  <2>1. NamesEach(data, T)
    BY <1>6, ProgressIdentifies DEF Audit!evaluate
  <2> QED
    BY <2>1, OneNameDiffers
<1>7. CASE rule = "PRG-002"
  <2>1. NamesEach(data, T)
    BY <1>7, RangeIdentifies DEF Audit!evaluate
  <2> QED
    BY <2>1, OneNameDiffers
<1> QED
  BY <1>1, <1>2, <1>3, <1>4, <1>5, <1>6, <1>7 DEF Audit!Rules

\* The rows of the dataset have places of their own.
LEMMA LoadedRowsDiffer ==
    ASSUME NEW b, IsRead(b), NEW m, Maps(extract_workbook(b), m)
    PROVE  Keyed(load(_complete_mapped(extract_workbook(b), m)))
<1> DEFINE e == extract_workbook(b)
           s == _complete_mapped(e, m)
           R(d, i) == Reloaded(d, [row |-> MappedRows(e, d)[i].row,
                                   v |-> MappedRows(e, d)[i].record])
<1> SUFFICES ASSUME NEW d \in Domains, NEW r \in load(s).rows[d], NEW t \in load(s).rows[d]
             PROVE  r.row \in Nat /\ (r.row = t.row => r = t)
  BY DEF Keyed
<1>1. /\ \E i \in Kept(e, d) : r = R(d, i)
      /\ \E i \in Kept(e, d) : t = R(d, i)
  BY LoadedRows
<1> HIDE DEF s
<1>2. PICK i \in Kept(e, d) : r = R(d, i)
  BY <1>1
<1>3. PICK j \in Kept(e, d) : t = R(d, j)
  BY <1>1
<1>4. /\ i \in DOMAIN e.rows_by_domain[d] /\ r.row = e.rows_by_domain[d][i].row
      /\ j \in DOMAIN e.rows_by_domain[d] /\ t.row = e.rows_by_domain[d][j].row
  BY <1>2, <1>3, MappedRow, ReloadedRow DEF Kept
<1>5. /\ b.sheets[d] # None
      /\ e.rows_by_domain[d] = ExtractedRows(b.sheets[d])
  <2>1. e.rows_by_domain[d] = IF b.sheets[d] = None THEN <<>> ELSE ExtractedRows(b.sheets[d])
    BY DEF extract_workbook
  <2> HIDE DEF e
  <2> QED
    BY <1>4, <2>1
<1> HIDE DEF e
<1>6. IsNumbered(b.sheets[d])
  BY <1>5 DEF IsRead
<1>7. r.row \in Nat
  <2>1. r.row \in FilledRows(b.sheets[d])
    BY <1>4, <1>5, <1>6, ExtractedPlaces
  <2>2. FilledRows(b.sheets[d]) \subseteq Nat
    BY <1>6 DEF IsNumbered, FilledRows
  <2> QED
    BY <2>1, <2>2
<1>8. r.row = t.row => r = t
  BY <1>2, <1>3, <1>4, <1>5, <1>6, PlacesDiffer
<1> QED
  BY <1>7, <1>8

\* An analysis that failed met two findings with one id, or one too long.
Collided ==
    (run # None /\ run.status = "failed") =>
        \/ ~FindingsFit(run.execution.findings)
        \/ \E f, g \in run.execution.findings :
               Audit!stable_finding_id(f) = Audit!stable_finding_id(g) /\ f # g

\* It stays so.
LEMMA CollidedStays == Collided /\ [Next]_vars => Collided'
<1> SUFFICES ASSUME Collided, [Next]_vars
             PROVE  Collided'
  OBVIOUS
<1>1. ASSUME NEW runtime \in BOOLEAN, run_snapshot(runtime)
      PROVE  Collided'
  <2> DEFINE execution == Audit!run_gated(load(snapshot), runtime)
             written == IdsAreUnique(execution.findings) /\ FindingsFit(execution.findings)
  <2>1. run' = [status |-> IF written THEN "succeeded" ELSE "failed",
                runtime |-> runtime, execution |-> execution]
    BY <1>1 DEF run_snapshot
  <2> HIDE DEF execution
  <2>2. run'.status = "failed" => ~written
    BY <2>1
  <2>3. run'.execution = execution
    BY <2>1
  <2>4. ~written =>
          \/ ~FindingsFit(execution.findings)
          \/ \E f, g \in execution.findings :
                 Audit!stable_finding_id(f) = Audit!stable_finding_id(g) /\ f # g
    BY DEF IdsAreUnique
  <2> QED
    BY <2>2, <2>3, <2>4 DEF Collided
<1>2. CASE UNCHANGED run
  BY <1>2 DEF Collided
<1>3. ASSUME NEW b, ingest(b)
      PROVE  UNCHANGED run
  BY <1>3 DEF ingest
<1>4. ASSUME NEW b \in Workbooks, UploadWorkbook(b)
      PROVE  UNCHANGED run
  BY <1>3, <1>4 DEF UploadWorkbook
<1>5. ASSUME NEW s \in Sheets, NEW preset, ImportSchedule(s, preset)
      PROVE  UNCHANGED run
  BY <1>3, <1>5 DEF ImportSchedule
<1> QED
  BY <1>1, <1>2, <1>4, <1>5 DEF Next, vars

\* So it is in every state.
LEMMA FailuresCollide == Spec => []Collided
<1>1. Init => Collided
  BY DEF Init, Nothing, Collided
<1>2. Collided /\ [Next]_vars => Collided'
  BY CollidedStays
<1> QED
  BY <1>1, <1>2, PTL DEF Spec

\* The findings of a run about facts that are well identified have ids of
\* their own.
LEMMA FindingsIdentify ==
    ASSUME NEW data, IsFiniteData(data), HasAmounts(data), Keyed(data), Spelled(data),
           OneRecord(data), OneAbove(data), NEW runtime, NEW f, NEW g,
           f \in Audit!run_gated(data, runtime).findings,
           g \in Audit!run_gated(data, runtime).findings,
           Audit!stable_finding_id(f) = Audit!stable_finding_id(g)
    PROVE  f = g
<1> DEFINE E == Audit!run_gated(data, runtime)
<1>1. /\ E.executed \subseteq Audit!Rules
      /\ E.findings = UNION {Audit!evaluate(r, data, runtime) : r \in E.executed}
  BY ExecutedExactly
<1>2. f \in E.findings /\ g \in E.findings
  OBVIOUS
<1> HIDE DEF E
<1>3. PICK r \in E.executed : f \in Audit!evaluate(r, data, runtime)
  BY <1>1, <1>2
<1>4. PICK s \in E.executed : g \in Audit!evaluate(s, data, runtime)
  BY <1>1, <1>2
<1>5. f.rule = g.rule
  BY DEF Audit!stable_finding_id
<1>6. r = s
  BY <1>1, <1>3, <1>4, <1>5, FindingNamesItsRule
<1>7. r \in Audit!Rules
  BY <1>1
<1>8. IdsDiffer(Audit!evaluate(r, data, runtime))
  BY <1>7, RulesIdentify
<1> QED
  BY <1>3, <1>4, <1>6, <1>8 DEF IdsDiffer

\* What collided repeats an identity.
LEMMA CollidedRepeats ==
    ASSUME NoneIsNoFunction
    PROVE  PipelineInv /\ CellsInv /\ Collided => FailureIsRepeatedIdentity
<1> DEFINE data == load(snapshot)
           Records == UNION {{<<d, x.row, x.v.record_id>> : x \in data.rows[d]} : d \in FactDomains}
           Above(x) == x.v.actual_progress > 100 \/ x.v.planned_progress > 100
           SameRecord == \E p, q \in Records : p # q /\ p[3] = q[3]
           Twice == \E r, s \in data.rows["progress"] :
                       r # s /\ NameOf(r) = NameOf(s) /\ Above(r) /\ Above(s)
<1> SUFFICES ASSUME PipelineInv, CellsInv, Collided, run # None, run.status = "failed",
                    ~SameRecord, ~Twice, Spelled(data),
                    FindingsFit(run.execution.findings)
             PROVE  FALSE
  BY DEF FailureIsRepeatedIdentity, NameOf, Spelled
<1>1. /\ IsRead(book) /\ Maps(extract_workbook(book), mapped)
      /\ snapshot = _complete_mapped(extract_workbook(book), mapped)
      /\ run.execution = Audit!run_gated(data, run.runtime)
  BY DEF PipelineInv, Analysed, Stored
<1>2. IsFiniteData(data) /\ Keyed(data)
  BY <1>1, LoadedIsFinite, LoadedRowsDiffer
<1>3. HasAmounts(data)
  <2>1. HasCells(book)
    BY DEF CellsInv
  <2> QED
    BY <1>1, <2>1, LoadedAmounts
<1>4. OneRecord(data)
  <2> HIDE DEF data
  <2>1. SUFFICES ASSUME NEW d \in FactDomains, NEW c \in FactDomains,
                        NEW r \in data.rows[d], NEW s \in data.rows[c],
                        r.v.record_id = s.v.record_id
                 PROVE  d = c /\ r.row = s.row
    BY DEF OneRecord
  <2> DEFINE p == <<d, r.row, r.v.record_id>>
             q == <<c, s.row, s.v.record_id>>
  <2>2. p \in Records
    OBVIOUS
  <2>3. q \in Records
    OBVIOUS
  <2>4. p[3] = q[3]
    BY <2>1
  <2> HIDE DEF Records
  <2>5. p = q
    BY <2>2, <2>3, <2>4
  <2> QED
    BY <2>5
<1>5. OneAbove(data)
  BY DEF OneAbove
<1>6. PICK f \in run.execution.findings, g \in run.execution.findings :
          Audit!stable_finding_id(f) = Audit!stable_finding_id(g) /\ f # g
  BY DEF Collided
<1> HIDE DEF data
<1> QED
  BY <1>1, <1>2, <1>3, <1>4, <1>5, <1>6, FindingsIdentify

\* An analysis fails only where two rows share an identity, or two names do
\* once stable_finding_id has folded and split them, or where an id is too
\* long, whatever the workbook holds and with either catalogue (rules/*.py,
\* builders.py, and the keys of a run's findings in persistence/models.py).
THEOREM FailuresRepeatIdentities ==
    ASSUME NoneIsNoFunction
    PROVE  Spec => []FailureIsRepeatedIdentity
<1>1. PipelineInv /\ CellsInv /\ Collided => FailureIsRepeatedIdentity
  BY CollidedRepeats
<1> QED
  BY <1>1, PipelineInvHolds, CellsInvHolds, FailuresCollide, PTL
=============================================================================
