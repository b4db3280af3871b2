-------------------------- MODULE DeploymentProofs --------------------------
(* Proofs about Deployment, over every path of migrations, whatever the       *)
(* requests and their users wrote in between. The schema that a set of        *)
(* revisions leaves is written down (SchemaAt), and each migration is shown,  *)
(* statement by statement, to turn one such schema into the next: creations   *)
(* in the order of the keys, drops in the reverse one, and the four revisions *)
(* that alter a table with the rows it has. The schema of all revisions is    *)
(* the declared one, where two rounds of cascades delete the rows of a        *)
(* project. The pipeline keeps its promises meanwhile.                        *)
EXTENDS AnalysisPipelineProofs, Deployment

-----------------------------------------------------------------------------
(* The execution of a script.                                                 *)

\* g holds what a script has made of base after every set of its positions, as
\* FoldLeft takes them.
Ran(g, base, s, n) ==
    g = [x \in SUBSET (1..n) |-> IF x = {} THEN base ELSE Execute(g[x \ {Max(x)}], s[Max(x)])]

\* There are such results.
LEMMA ScriptsRun ==
    ASSUME NEW base, NEW s, NEW n \in Nat
    PROVE  \E g : Ran(g, base, s, n)
<1> DEFINE S == 1..n
           Part(k) == {x \in SUBSET S : Cardinality(x) <= k}
           RowsFit(g, k) == \A x \in Part(k) :
                            g[x] = IF x = {} THEN base ELSE Execute(g[x \ {Max(x)}], s[Max(x)])
           T == {k \in Nat : ~\E g : RowsFit(g, k)}
<1>0. IsFiniteSet(S) /\ \A x \in SUBSET S : IsFiniteSet(x) /\ Cardinality(x) \in Nat
  BY FinitePositions, FS_Subset, FS_CardinalityType
<1>1. \A k \in Nat : \A x \in Part(k + 1) \ {{}} : x \ {Max(x)} \in Part(k)
  <2> SUFFICES ASSUME NEW k \in Nat, NEW x \in Part(k + 1), x # {}
               PROVE  x \ {Max(x)} \in Part(k)
    OBVIOUS
  <2>1. Max(x) \in x
    BY MaxIsThere
  <2>2. Cardinality(x \ {Max(x)}) = Cardinality(x) - 1
    BY <1>0, <2>1, FS_RemoveElement
  <2>3. x \in SUBSET S /\ Cardinality(x) <= k + 1 /\ Cardinality(x) \in Nat
    BY <1>0
  <2> DEFINE y == x \ {Max(x)}
  <2>4. y \in SUBSET S /\ Cardinality(y) <= k
    <3> DEFINE c == Cardinality(x)  b == Cardinality(y)
    <3>1. c <= k + 1 /\ c \in Nat /\ b = c - 1
      BY <2>2, <2>3
    <3>2. y \in SUBSET S
      BY <2>3
    <3> HIDE DEF b, c
    <3>3. b <= k
      BY <3>1
    <3> QED
      BY <3>2, <3>3 DEF b
  <2> HIDE DEF y
  <2>5. y \in Part(k)
    BY <2>4
  <2> QED
    BY <2>5 DEF y
<1>2. 0 \notin T
  <2> DEFINE g == [x \in SUBSET S |-> base]
  <2>1. \A x \in Part(0) : x = {}
    BY <1>0, FS_EmptySet
  <2>2. RowsFit(g, 0)
    BY <2>1
  <2> QED
    BY <2>2
<1>3. ASSUME NEW k \in Nat, k \notin T
      PROVE  k + 1 \notin T
  <2>1. PICK g : RowsFit(g, k)
    BY <1>3
  <2> DEFINE h == [x \in SUBSET S |-> IF x = {} THEN base ELSE Execute(g[x \ {Max(x)}], s[Max(x)])]
  <2>2. \A x \in Part(k) : h[x] = g[x]
    BY <2>1
  <2>3. ASSUME NEW x \in Part(k + 1)
        PROVE  h[x] = IF x = {} THEN base ELSE Execute(h[x \ {Max(x)}], s[Max(x)])
    <3>1. CASE x = {}
      BY <3>1
    <3>2. CASE x # {}
      <4>1. x \ {Max(x)} \in Part(k)
        BY <1>1, <3>2
      <4>2. h[x \ {Max(x)}] = g[x \ {Max(x)}]
        BY <2>2, <4>1
      <4> QED
        BY <3>2, <4>2
    <3> QED
      BY <3>1, <3>2
  <2>4. RowsFit(h, k + 1)
    BY <2>3
  <2> HIDE DEF RowsFit
  <2> QED
    BY <2>4
<1>4. T = {}
  <2> SUFFICES ASSUME T # {} PROVE FALSE
    OBVIOUS
  <2>1. PICK k \in T : \A m \in T : k <= m
    BY LeastMember
  <2>2. k \in Nat /\ k # 0
    BY <1>2
  <2> HIDE DEF T
  <2>3. k - 1 \in Nat /\ k - 1 \notin T
    BY <2>1, <2>2
  <2> QED
    BY <1>3, <2>1, <2>2, <2>3
<1>5. \E g : RowsFit(g, Cardinality(S))
  <2>1. Cardinality(S) \in Nat
    BY <1>0
  <2> HIDE DEF RowsFit
  <2> QED
    BY <1>4, <2>1
<1>6. \A x \in SUBSET S : x \in Part(Cardinality(S))
  BY <1>0, FS_Subset
<1>g. PICK g : RowsFit(g, Cardinality(S))
  BY <1>5
<1> DEFINE h == [x \in SUBSET S |-> g[x]]
<1>7. \A x \in SUBSET S : h[x] = IF x = {} THEN base ELSE Execute(h[x \ {Max(x)}], s[Max(x)])
  BY <1>g, <1>6
<1>8. Ran(h, base, s, n)
  <2> HIDE DEF RowsFit, Part
  <2> QED
    BY <1>7 DEF Ran
<1> QED
  BY <1>8

\* D holds what the first n statements of a script make of base, one by one.
Steps(D, base, s, n) == D[0] = base /\ \A i \in 1..n : D[i] = Execute(D[i - 1], s[i])

\* A script has made of base what its statements make of it one after the other.
LEMMA ScriptIsSteps ==
    ASSUME NEW base, NEW n \in Nat, NEW s, DOMAIN s = 1..n, NEW D, Steps(D, base, s, n)
    PROVE  Script(base, s) = D[n]
<1>0. D[0] = base /\ \A i \in 1..n : D[i] = Execute(D[i - 1], s[i])
  BY DEF Steps
<1> DEFINE g == CHOOSE f : Ran(f, base, s, n)
<1>1. Script(base, s) = g[1..n]
  BY DEF Script, FoldLeft, MapThenFoldSet, Ran
<1>2. Ran(g, base, s, n)
  BY ScriptsRun
<1> HIDE DEF g
<1>3. g[1..0] = D[0]
  BY <1>0, <1>2 DEF Ran
<1>4. ASSUME NEW i \in 1..n, g[1..(i - 1)] = D[i - 1]
      PROVE  g[1..i] = D[i]
  <2>1. 1..i # {} /\ Max(1..i) = i /\ (1..i) \ {i} = 1..(i - 1)
    <3>1. i \in Nat /\ i >= 1
      OBVIOUS
    <3> QED
      BY <3>1, PrefixStep
  <2>2. 1..i \in SUBSET (1..n)
    OBVIOUS
  <2>3. g[1..i] = Execute(g[1..(i - 1)], s[i])
    BY <1>2, <2>1, <2>2 DEF Ran
  <2> QED
    BY <1>0, <1>4, <2>3
<1> DEFINE T == {i \in 0..n : g[1..i] # D[i]}
<1>5. T = {}
  <2> SUFFICES ASSUME T # {} PROVE FALSE
    OBVIOUS
  <2>0. T \subseteq Nat
    OBVIOUS
  <2>1. PICK i \in T : \A m \in T : i <= m
    <3> HIDE DEF T
    <3> QED
      BY <2>0, LeastMember
  <2>2. i \in 0..n /\ i # 0
    BY <1>3
  <2>3. i - 1 \in 0..n /\ i - 1 \notin T /\ i \in 1..n
    <3> HIDE DEF T
    <3> QED
      BY <2>1, <2>2
  <2> QED
    BY <1>4, <2>3
<1> QED
  BY <1>1, <1>5

-----------------------------------------------------------------------------
(* The statements of a script, one at a time.                                 *)

Db(T, rows) == [tables |-> T, rows |-> rows, ok |-> TRUE]

\* A database with these tables and rows, in which no statement was refused.
LEMMA DbFields ==
    ASSUME NEW T, NEW rows
    PROVE  /\ Db(T, rows).tables = T
           /\ Db(T, rows).rows = rows
           /\ Db(T, rows).ok
           /\ Names(Db(T, rows)) = DOMAIN T
BY DEF Db, Names

\* What is asked of the rows of runs and of health snapshots.
RunsFit(table, rows) ==
    "analysis_runs" \in rows.full =>
        /\ Ref("dataset_snapshots", "restrict") \in table.refs => rows.legacy
        /\ OneSnapshot \in table.checks => rows.legacy # rows.governed
        /\ rows.legacy => "dataset_snapshots" \in rows.full
        /\ rows.governed => "governed_dataset_snapshots" \in rows.full

HealthFits(table, rows) ==
    "health_snapshots" \in rows.full =>
        /\ \A c \in table.checks : c[1] = "score_band" => rows.band \in c[2]
        /\ NotNull(Scores) \in table.checks => ~rows.withheld

Fit(T, rows) ==
    RunsFit(T["analysis_runs"], rows) /\ HealthFits(T["health_snapshots"], rows)

\* Conforms asks that of the rows.
LEMMA ConformsIsFit ==
    ASSUME NEW T, NEW rows
    PROVE  Conforms(Db(T, rows)) <=> Fit(T, rows)
<1> DEFINE base == Db(T, rows)
<1>1. base.tables = T /\ base.rows = rows
  BY DbFields
<1> HIDE DEF base
<1>2. Conforms(base) <=> Fit(base.tables, base.rows)
  BY Zenon DEF Conforms, Fit, RunsFit, HealthFits
<1> QED
  BY <1>1, <1>2 DEF base

\* A statement that is applicable and leaves rows that fit is executed.
LEMMA ExecuteStep ==
    ASSUME NEW T, NEW rows, NEW s, Applicable(Db(T, rows), s),
           Fit(TablesAfter(T, s), RowsAfter(rows, s))
    PROVE  Execute(Db(T, rows), s) = Db(TablesAfter(T, s), RowsAfter(rows, s))
<1> DEFINE base == Db(T, rows)
<1>1. base.tables = T /\ base.rows = rows /\ base.ok = TRUE
  BY DEF Db
<1> HIDE DEF base
<1>2. Effect(base, s) = Db(TablesAfter(T, s), RowsAfter(rows, s))
  BY <1>1 DEF Effect, Db
<1>3. Conforms(Effect(base, s))
  BY <1>2, ConformsIsFit
<1>4. Applicable(base, s)
  BY DEF base
<1> QED
  BY <1>1, <1>2, <1>3, <1>4 DEF Execute, base

\* The tables after are those of T and t, which refers to tables that are there.
Creates(T, rows, t, after) ==
    /\ t \notin DOMAIN T
    /\ after = [u \in (DOMAIN T) \union {t} |-> after[u]]
    /\ \A u \in DOMAIN T : after[u] = T[u]
    /\ \A r \in after[t].refs : r.table \in DOMAIN T \union {t}
    /\ Fit(after, rows)

\* A table is created when the tables it refers to are there.
LEMMA CreateStep ==
    ASSUME NEW T, NEW rows, NEW t, NEW after, Creates(T, rows, t, after)
    PROVE  Execute(Db(T, rows), Create(t, after[t])) = Db(after, rows)
<1>0. /\ t \notin DOMAIN T
      /\ after = [u \in (DOMAIN T) \union {t} |-> after[u]]
      /\ \A u \in DOMAIN T : after[u] = T[u]
      /\ \A r \in after[t].refs : r.table \in DOMAIN T \union {t}
      /\ Fit(after, rows)
  BY DEF Creates
<1> DEFINE s == Create(t, after[t])
           base == Db(T, rows)
           one == [u \in {t} |-> after[t]]
<1>1. s.op = "create" /\ s.on = t /\ s.table = after[t]
  BY DEF Create
<1>2. Names(base) = DOMAIN T
  BY DbFields
<1>3. Merged(one, T) = after
  BY <1>0 DEF Merged
<1>4. TablesAfter(T, s) = after /\ RowsAfter(rows, s) = rows
  <2>1. [u \in {s.on} |-> s.table] = one
    BY <1>1
  <2> HIDE DEF s, one
  <2> QED
    BY <1>1, <1>3, <2>1 DEF TablesAfter, RowsAfter
<1>5. Applicable(base, s)
  <2> HIDE DEF base, s
  <2> QED
    BY <1>0, <1>1, <1>2 DEF Applicable
<1> QED
  <2> HIDE DEF s
  <2> QED
    BY <1>0, <1>4, <1>5, ExecuteStep DEF s

\* No table but itself refers to t, which is not among the tables after.
Drops(T, rows, t, after, left) ==
    /\ t \in DOMAIN T
    /\ \A u \in DOMAIN T : u # t => \A r \in T[u].refs : r.table # t
    /\ after = [u \in (DOMAIN T) \ {t} |-> T[u]]
    /\ left = [rows EXCEPT !.full = @ \ {t}]
    /\ Fit(after, left)

\* One that no other table refers to is dropped.
LEMMA DropStep ==
    ASSUME NEW T, NEW rows, NEW t, NEW after, NEW left, Drops(T, rows, t, after, left)
    PROVE  Execute(Db(T, rows), Drop(t)) = Db(after, left)
<1>0. /\ t \in DOMAIN T
      /\ \A u \in DOMAIN T : u # t => \A r \in T[u].refs : r.table # t
      /\ after = [u \in (DOMAIN T) \ {t} |-> T[u]]
      /\ left = [rows EXCEPT !.full = @ \ {t}]
      /\ Fit(after, left)
  BY DEF Drops
<1> DEFINE s == Drop(t)
           base == Db(T, rows)
<1>1. s.op = "drop" /\ s.on = t
  BY DEF Drop
<1>2. Names(base) = DOMAIN T /\ base.tables = T
  BY DbFields
<1>4. TablesAfter(T, s) = after /\ RowsAfter(rows, s) = left
  <2> HIDE DEF s
  <2> QED
    BY <1>0, <1>1 DEF TablesAfter, RowsAfter
<1>5. Applicable(base, s)
  <2>1. Referring(base, t) \subseteq {t}
    BY <1>0, <1>2 DEF Referring
  <2> HIDE DEF base, s
  <2> QED
    BY <1>0, <1>1, <1>2, <2>1 DEF Applicable
<1>6. Fit(TablesAfter(T, s), RowsAfter(rows, s))
  <2> HIDE DEF s
  <2> QED
    BY <1>0, <1>4, Zenon
<1>7. Execute(Db(T, rows), s) = Db(TablesAfter(T, s), RowsAfter(rows, s))
  <2> HIDE DEF s
  <2> QED
    BY <1>5, <1>6, ExecuteStep, Zenon DEF base
<1> HIDE DEF s
<1> QED
  BY <1>4, <1>7, Zenon DEF s

\* Rows in tables that are there, which fit them.
StoredIn(T, rows) ==
    /\ rows = [x \in {"full", "legacy", "governed", "band", "withheld"} |-> rows[x]]
    /\ rows.full \subseteq DOMAIN T
    /\ Fit(T, rows)

\* A table that has no rows may change.
LEMMA FitIsLocal ==
    ASSUME NEW T, NEW rows, StoredIn(T, rows), NEW after, \A t \in rows.full : after[t] = T[t]
    PROVE  Fit(after, rows)
BY DEF StoredIn, Fit, RunsFit, HealthFits

\* s creates the tables name of after, which has those of T too, each with keys
\* to tables that are there by then.
CreatesEach(T, s, n, name, after) ==
    /\ T = [t \in DOMAIN T |-> T[t]]
    /\ \A i \in 1..n : s[i] = Create(name[i], after[name[i]])
    /\ \A i \in 1..n : name[i] \notin DOMAIN T /\ \A j \in 1..n : name[i] = name[j] => i = j
    /\ \A i \in 1..n : \A r \in after[name[i]].refs :
           r.table \in DOMAIN T \/ \E j \in 1..i : r.table = name[j]
    /\ after = [t \in DOMAIN T \union {name[i] : i \in 1..n} |-> after[t]]
    /\ \A t \in DOMAIN T : after[t] = T[t]

\* A script that creates tables one by one, in that order, is executed, and
\* the rows still fit.
LEMMA TablesAreCreated ==
    ASSUME NEW T, NEW rows, StoredIn(T, rows), NEW n \in Nat, NEW s, DOMAIN s = 1..n, NEW name,
           NEW after, CreatesEach(T, s, n, name, after)
    PROVE  Script(Db(T, rows), s) = Db(after, rows) /\ StoredIn(after, rows)
<1>0. /\ T = [t \in DOMAIN T |-> T[t]]
      /\ \A i \in 1..n : s[i] = Create(name[i], after[name[i]])
      /\ \A i \in 1..n : name[i] \notin DOMAIN T /\ \A j \in 1..n : name[i] = name[j] => i = j
      /\ \A i \in 1..n : \A r \in after[name[i]].refs :
            r.table \in DOMAIN T \/ \E j \in 1..i : r.table = name[j]
      /\ after = [t \in DOMAIN T \union {name[i] : i \in 1..n} |-> after[t]]
      /\ \A t \in DOMAIN T : after[t] = T[t]
  BY DEF CreatesEach
<1> USE <1>0
<1> DEFINE New(i) == {name[j] : j \in 1..i}
           Now(i) == [t \in DOMAIN T \union New(i) |-> after[t]]
           D == [i \in 0..n |-> Db(Now(i), rows)]
<1>1. D[0] = Db(T, rows)
  <2>0. New(0) = {}
    OBVIOUS
  <2>1. Now(0) = T
    <3>1. T = [t \in DOMAIN T |-> T[t]] /\ \A t \in DOMAIN T : after[t] = T[t]
      OBVIOUS
    <3>2. [t \in DOMAIN T |-> after[t]] = T
      BY <3>1
    <3> HIDE DEF New
    <3> QED
      BY <2>0, <3>2
  <2> HIDE DEF Now
  <2> QED
    BY <2>1
<1>2. ASSUME NEW i \in 1..n
      PROVE  D[i] = Execute(D[i - 1], s[i])
  <2> DEFINE before == Now(i - 1)
             t == name[i]
  <2>1. D[i] = Db(Now(i), rows) /\ D[i - 1] = Db(before, rows)
    OBVIOUS
  <2>2. DOMAIN before = DOMAIN T \union New(i - 1) /\ DOMAIN Now(i) = DOMAIN T \union New(i)
    OBVIOUS
  <2>3. New(i) = New(i - 1) \union {t}
    <3>1. \A j : j \in 1..i <=> j \in 1..(i - 1) \/ j = i
      OBVIOUS
    <3> QED
      BY <3>1
  <2>4. t \notin DOMAIN before
    <3>1. \A j \in 1..(i - 1) : j \in 1..n /\ j # i
      OBVIOUS
    <3> QED
      BY <3>1
  <2>5. DOMAIN Now(i) = DOMAIN before \union {t}
    BY <2>2, <2>3
  <2>6. \A u \in DOMAIN before : Now(i)[u] = before[u]
    BY <2>2, <2>3
  <2>7. Now(i)[t] = after[t]
    BY <2>2, <2>3
  <2>8. \A r \in after[t].refs : r.table \in DOMAIN before \union {t}
    <3>1. \A r \in after[t].refs : r.table \in DOMAIN T \/ \E j \in 1..i : r.table = name[j]
      OBVIOUS
    <3> HIDE DEF before, t
    <3>2. \A r \in after[t].refs : r.table \in DOMAIN T \/ r.table \in New(i)
      BY <3>1
    <3> QED
      BY <2>2, <2>3, <3>2
  <2>9. Fit(Now(i), rows)
    <3>1. \A u \in rows.full : Now(i)[u] = T[u]
      BY DEF StoredIn
    <3> HIDE DEF Now
    <3> QED
      BY <3>1, FitIsLocal
  <2>10. Now(i) = [u \in DOMAIN before \union {t} |-> Now(i)[u]]
    BY <2>2, <2>3
  <2> DEFINE next == Now(i)
  <2>11. s[i] = Create(t, next[t])
    BY <2>7
  <2> HIDE DEF before, t, next, D
  <2>12. Execute(Db(before, rows), Create(t, next[t])) = Db(next, rows)
    <3>1. /\ t \notin DOMAIN before /\ next = [u \in DOMAIN before \union {t} |-> next[u]]
          /\ \A u \in DOMAIN before : next[u] = before[u]
          /\ \A r \in next[t].refs : r.table \in DOMAIN before \union {t}
          /\ Fit(next, rows)
      BY <2>4, <2>6, <2>7, <2>8, <2>9, <2>10 DEF next
    <3>2. Creates(before, rows, t, next)
      BY <3>1 DEF Creates
    <3> QED
      BY <3>2, CreateStep
  <2> QED
    BY <2>1, <2>11, <2>12 DEF next
<1> HIDE DEF D
<1>3. Script(Db(T, rows), s) = D[n]
  <2> DEFINE base == Db(T, rows)
  <2>1. D[0] = base
    BY <1>1
  <2>3. \A i \in 1..n : D[i] = Execute(D[i - 1], s[i])
    BY <1>2
  <2>4. Steps(D, base, s, n)
    BY <2>1, <2>3 DEF Steps
  <2> HIDE DEF base, Now, New
  <2>2. Script(base, s) = D[n]
    BY <2>4, ScriptIsSteps
  <2> QED
    BY <2>2 DEF base
<1>4. Now(n) = after /\ D[n] = Db(Now(n), rows)
  BY DEF D
<1>5. StoredIn(after, rows)
  <2>1. \A t \in rows.full : after[t] = T[t] /\ t \in DOMAIN T
    BY DEF StoredIn
  <2>2. Fit(after, rows)
    BY <2>1, FitIsLocal
  <2>3. DOMAIN T \subseteq DOMAIN after
    OBVIOUS
  <2> QED
    BY <2>1, <2>2, <2>3 DEF StoredIn
<1> HIDE DEF Now
<1> QED
  BY <1>3, <1>4, <1>5

\* s drops the tables name of T, of which after are left, each when no other
\* refers to it any more, and the runs before the snapshots they have.
DropsEach(T, rows, s, n, name, after) ==
    /\ T = [t \in DOMAIN T |-> T[t]]
    /\ \A i \in 1..n : s[i] = Drop(name[i])
    /\ \A i \in 1..n : name[i] \in DOMAIN T /\ \A j \in 1..n : name[i] = name[j] => i = j
    /\ \A i \in 1..n : \A u \in DOMAIN T : \A r \in T[u].refs :
           r.table = name[i] => \E j \in 1..i : u = name[j]
    /\ \A i \in 1..n :
           \/ name[i] \notin {"dataset_snapshots", "governed_dataset_snapshots"}
           \/ name[i] = "governed_dataset_snapshots" /\ ~rows.governed
           \/ \E j \in 1..i : "analysis_runs" = name[j]
    /\ after = [t \in DOMAIN T \ {name[i] : i \in 1..n} |-> T[t]]

\* The rows that are left when the tables of X are gone.
Without(rows, X) == [rows EXCEPT !.full = @ \ X]
ListedAs(name, n) == {name[i] : i \in 1..n}

\* A script that drops tables one by one, in that order, is executed, and the
\* rows that are left fit.
LEMMA TablesAreDropped ==
    ASSUME NEW T, NEW rows, StoredIn(T, rows), NEW n \in Nat, NEW s, DOMAIN s = 1..n, NEW name,
           NEW after, DropsEach(T, rows, s, n, name, after)
    PROVE  /\ Script(Db(T, rows), s) = Db(after, Without(rows, ListedAs(name, n)))
           /\ StoredIn(after, Without(rows, ListedAs(name, n)))
<1>00. /\ T = [t \in DOMAIN T |-> T[t]]
       /\ \A i \in 1..n : s[i] = Drop(name[i])
       /\ \A i \in 1..n : name[i] \in DOMAIN T /\ \A j \in 1..n : name[i] = name[j] => i = j
       /\ \A i \in 1..n : \A u \in DOMAIN T : \A r \in T[u].refs :
             r.table = name[i] => \E j \in 1..i : u = name[j]
       /\ \A i \in 1..n :
             \/ name[i] \notin {"dataset_snapshots", "governed_dataset_snapshots"}
             \/ name[i] = "governed_dataset_snapshots" /\ ~rows.governed
             \/ \E j \in 1..i : "analysis_runs" = name[j]
       /\ after = [t \in DOMAIN T \ {name[i] : i \in 1..n} |-> T[t]]
  BY DEF DropsEach
<1> USE <1>00
<1> DEFINE Gone(i) == {name[j] : j \in 1..i}
           Now(i) == [t \in DOMAIN T \ Gone(i) |-> T[t]]
           Left(i) == [rows EXCEPT !.full = @ \ Gone(i)]
           D == [i \in 0..n |-> Db(Now(i), Left(i))]
<1>0. \A i \in 0..n : /\ DOMAIN Now(i) = DOMAIN T \ Gone(i)
                      /\ \A t \in DOMAIN Now(i) : Now(i)[t] = T[t]
                      /\ DOMAIN Left(i) = {"full", "legacy", "governed", "band", "withheld"}
                      /\ Left(i).full = rows.full \ Gone(i)
                      /\ Left(i).legacy = rows.legacy /\ Left(i).governed = rows.governed
                      /\ Left(i).band = rows.band /\ Left(i).withheld = rows.withheld
  BY DEF StoredIn
<1>1. D[0] = Db(T, rows)
  <2>0. Gone(0) = {}
    OBVIOUS
  <2>1. Now(0) = T
    BY <2>0
  <2>2. Left(0) = rows
    <3> HIDE DEF Gone
    <3> QED
      BY <2>0 DEF StoredIn
  <2> HIDE DEF Now, Left
  <2> QED
    BY <2>1, <2>2
<1>2. ASSUME NEW i \in 0..n
      PROVE  StoredIn(Now(i), Left(i))
  <2>1. Left(i).full \subseteq DOMAIN Now(i)
    BY <1>0 DEF StoredIn
  <2>2. \A t \in Left(i).full : t \in rows.full /\ Now(i)[t] = T[t]
    BY <1>0, <2>1
  <2>3. "analysis_runs" \in Left(i).full =>
           \A j \in 1..i : /\ name[j] # "dataset_snapshots"
                           /\ name[j] = "governed_dataset_snapshots" => ~rows.governed
    <3> SUFFICES ASSUME "analysis_runs" \in Left(i).full, NEW j \in 1..i
                 PROVE  /\ name[j] # "dataset_snapshots"
                        /\ name[j] = "governed_dataset_snapshots" => ~rows.governed
      OBVIOUS
    <3>1. "analysis_runs" \notin Gone(i)
      BY <1>0
    <3>2. j \in 1..n /\ \A k \in 1..j : k \in 1..i
      OBVIOUS
    <3>3. \A k \in 1..j : "analysis_runs" # name[k]
      BY <3>1, <3>2
    <3> HIDE DEF Now, Left, Gone, D
    <3> QED
      BY <3>2, <3>3
  <2>4. RunsFit(Now(i)["analysis_runs"], Left(i))
    <3> SUFFICES ASSUME "analysis_runs" \in Left(i).full
                 PROVE  LET table == T["analysis_runs"] IN
                        /\ Ref("dataset_snapshots", "restrict") \in table.refs => rows.legacy
                        /\ OneSnapshot \in table.checks => rows.legacy # rows.governed
                        /\ rows.legacy => "dataset_snapshots" \in rows.full \ Gone(i)
                        /\ rows.governed => "governed_dataset_snapshots" \in rows.full \ Gone(i)
      <4>1. "analysis_runs" \in Left(i).full => Now(i)["analysis_runs"] = T["analysis_runs"]
        BY <2>2
      <4> HIDE DEF Now, Left, Gone, D
      <4> QED
        BY <1>0, <4>1, Zenon DEF RunsFit
    <3>1. RunsFit(T["analysis_runs"], rows) /\ "analysis_runs" \in rows.full
      BY <2>2 DEF StoredIn, Fit
    <3>2. "dataset_snapshots" \notin Gone(i)
      BY <2>3
    <3>3. rows.governed => "governed_dataset_snapshots" \notin Gone(i)
      BY <2>3
    <3> HIDE DEF Now, Left, Gone, D
    <3> QED
      BY <3>1, <3>2, <3>3, Zenon DEF RunsFit
  <2>5. HealthFits(Now(i)["health_snapshots"], Left(i))
    <3>1. HealthFits(T["health_snapshots"], rows)
      BY DEF StoredIn, Fit
    <3> HIDE DEF Now, Left, Gone, D
    <3> QED
      BY <1>0, <2>2, <3>1, Zenon DEF HealthFits
  <2>6. Left(i) = [x \in {"full", "legacy", "governed", "band", "withheld"} |-> Left(i)[x]]
    <3> HIDE DEF Gone
    <3> QED
      BY DEF StoredIn
  <2> DEFINE has == Left(i)  next == Now(i)
  <2>7. /\ has = [x \in {"full", "legacy", "governed", "band", "withheld"} |-> has[x]]
        /\ has.full \subseteq DOMAIN next
        /\ RunsFit(next["analysis_runs"], has) /\ HealthFits(next["health_snapshots"], has)
    BY <2>1, <2>4, <2>5, <2>6
  <2> HIDE DEF has, next
  <2>8. StoredIn(next, has)
    BY <2>7, Zenon DEF StoredIn, Fit
  <2> QED
    BY <2>8 DEF has, next
<1>3. ASSUME NEW i \in 1..n
      PROVE  D[i] = Execute(D[i - 1], s[i])
  <2> DEFINE before == Now(i - 1)
             had == Left(i - 1)
             t == name[i]
  <2>1. D[i] = Db(Now(i), Left(i)) /\ D[i - 1] = Db(before, had) /\ i \in 0..n /\ i - 1 \in 0..n
    OBVIOUS
  <2>3. Gone(i) = Gone(i - 1) \union {t}
    <3>1. \A j : j \in 1..i <=> j \in 1..(i - 1) \/ j = i
      OBVIOUS
    <3> QED
      BY <3>1
  <2>4. t \in DOMAIN before
    <3>1. \A j \in 1..(i - 1) : j \in 1..n /\ j # i
      OBVIOUS
    <3>2. t \notin Gone(i - 1) /\ t \in DOMAIN T
      BY <3>1
    <3>3. DOMAIN before = DOMAIN T \ Gone(i - 1)
      BY <1>0, <2>1
    <3> HIDE DEF before, t, Gone
    <3> QED
      BY <3>2, <3>3
  <2>5. Now(i) = [u \in (DOMAIN before) \ {t} |-> before[u]]
    <3>1. DOMAIN before = DOMAIN T \ Gone(i - 1)
      BY <1>0, <2>1
    <3>2. DOMAIN T \ Gone(i) = (DOMAIN before) \ {t}
      BY <2>3, <3>1
    <3>3. \A u \in (DOMAIN before) \ {t} : before[u] = T[u]
      BY <1>0, <2>1
    <3> HIDE DEF before, Gone
    <3> QED
      BY <3>2, <3>3
  <2>6. Left(i) = [had EXCEPT !.full = @ \ {t}]
    <3>1. rows.full \ Gone(i) = (rows.full \ Gone(i - 1)) \ {t}
      BY <2>3
    <3> HIDE DEF Gone
    <3> QED
      BY <3>1 DEF StoredIn
  <2>7. \A u \in DOMAIN before : u # t => \A r \in before[u].refs : r.table # t
    <3> SUFFICES ASSUME NEW u \in DOMAIN before, u # t, NEW r \in before[u].refs, r.table = t
                 PROVE  FALSE
      OBVIOUS
    <3>1. u \in DOMAIN T /\ u \notin Gone(i - 1) /\ before[u] = T[u]
      BY <1>0, <2>1
    <3>2. PICK j \in 1..i : u = name[j]
      BY <3>1
    <3>3. j \in 1..(i - 1)
      BY <3>2
    <3> QED
      BY <3>1, <3>2, <3>3
  <2>8. Fit(Now(i), Left(i))
    BY <1>2, <2>1 DEF StoredIn
  <2> DEFINE next == Now(i)  has == Left(i)
  <2> HIDE DEF before, had, t, next, has, D
  <2>9. Execute(Db(before, had), Drop(t)) = Db(next, has)
    <3>1. /\ t \in DOMAIN before
          /\ \A u \in DOMAIN before : u # t => \A r \in before[u].refs : r.table # t
          /\ next = [u \in (DOMAIN before) \ {t} |-> before[u]]
          /\ has = [had EXCEPT !.full = @ \ {t}]
          /\ Fit(next, has)
      BY <2>4, <2>5, <2>6, <2>7, <2>8 DEF next, has
    <3>2. Drops(before, had, t, next, has)
      BY <3>1 DEF Drops
    <3> QED
      BY <3>2, DropStep
  <2>10. s[i] = Drop(t)
    BY DEF t
  <2> QED
    BY <2>1, <2>9, <2>10 DEF next, has
<1> HIDE DEF D
<1>4. Script(Db(T, rows), s) = D[n]
  <2> DEFINE base == Db(T, rows)
  <2>1. D[0] = base
    BY <1>1
  <2>3. \A i \in 1..n : D[i] = Execute(D[i - 1], s[i])
    BY <1>3
  <2>4. Steps(D, base, s, n)
    BY <2>1, <2>3 DEF Steps
  <2> HIDE DEF base, Now, Left, Gone
  <2>2. Script(base, s) = D[n]
    BY <2>4, ScriptIsSteps
  <2> QED
    BY <2>2 DEF base
<1>5. Now(n) = after /\ D[n] = Db(Now(n), Left(n)) /\ n \in 0..n
  BY DEF D
<1>6. Left(n) = Without(rows, ListedAs(name, n))
  BY DEF Without, ListedAs
<1>7. StoredIn(Now(n), Left(n))
  BY <1>2, <1>5
<1> DEFINE left == Left(n)
<1> HIDE DEF Now, Left
<1> QED
  BY <1>4, <1>5, <1>6, <1>7

-----------------------------------------------------------------------------
(* The tables of each revision.                                               *)

\* h has the tables of two groups without a table in common.
Apart(F, G) == \A t \in G : t \notin F
Both(h, f, F, g, G) ==
    DOMAIN h = F \union G /\ (\A t \in F : h[t] = f[t]) /\ \A t \in G : h[t] = g[t]

\* The tables of two groups without a common name.
LEMMA MergedIs ==
    ASSUME NEW f, NEW g, NEW F, DOMAIN f = F, NEW G, DOMAIN g = G, Apart(F, G)
    PROVE  Both(Merged(f, g), f, F, g, G)
BY DEF Merged, Apart, Both

\* What is left of metadata after each group.
After10 == Merged(ActionTables, GovernanceTables)
After9 == Merged(ReportAndJobTables, After10)
After8 == Merged(AITables, After9)
After7 == Merged(HealthAndUserTables, After8)
After6 == Merged(GovernedFactTables, After7)
After5 == Merged(GovernedRowTables, After6)
After4 == Merged(GovernedSnapshotTables, After5)
After3 == Merged(SimplifiedTables, After4)
After2 == Merged(FindingTables, After3)

\* The declared tables are those of the first group and the others.
LEMMA MetadataIs == metadata = Merged(CoreTables, After2)
BY DEF metadata, After2, After3, After4, After5, After6, After7, After8, After9, After10

CoreNames == {"organizations", "projects", "source_files", "dataset_snapshots",
    "rule_catalogue_versions", "analysis_runs"}
FindingNames == {"findings", "finding_evidence", "approved_exceptions", "audit_logs",
    "product_events", "finding_feedback"}
SimplifiedNames == {"raw_rows", "import_batches", "import_column_mappings", "wbs_nodes",
    "budget_records", "cost_records", "commitment_records", "schedule_activities",
    "progress_records"}
GovernedSnapshotNames == {"governed_mapping_profile_versions", "governed_dataset_snapshots",
    "governed_import_batches"}
GovernedRowNames == {"governed_dataset_domain_statuses", "governed_raw_rows", "governed_wbs_nodes"}
GovernedFactNames == {"governed_budget_records", "governed_actual_cost_records",
    "governed_commitment_records", "governed_schedule_activities", "governed_progress_records"}
HealthAndUserNames == {"health_snapshots", "users", "organization_members", "project_members"}
AINames == {"ai_conversations", "ai_messages", "ai_insights"}
ReportAndJobNames == {"report_packages", "analysis_jobs"}
ActionNames == {"finding_actions", "finding_action_history"}
GovernanceNames == {"project_governance_policies", "finding_closure_approvals",
    "governance_escalations"}

\* The names of the tables in each group.
LEMMA GroupNames ==
    /\ DOMAIN CoreTables = CoreNames
    /\ DOMAIN FindingTables = FindingNames
    /\ DOMAIN SimplifiedTables = SimplifiedNames
    /\ DOMAIN GovernedSnapshotTables = GovernedSnapshotNames
    /\ DOMAIN GovernedRowTables = GovernedRowNames
    /\ DOMAIN GovernedFactTables = GovernedFactNames
    /\ DOMAIN HealthAndUserTables = HealthAndUserNames
    /\ DOMAIN AITables = AINames
    /\ DOMAIN ReportAndJobTables = ReportAndJobNames
    /\ DOMAIN ActionTables = ActionNames
    /\ DOMAIN GovernanceTables = GovernanceNames
<1>1. DOMAIN CoreTables = CoreNames
  BY DEF CoreTables, CoreNames
<1>2. DOMAIN FindingTables = FindingNames
  BY DEF FindingTables, FindingNames
<1>3. DOMAIN SimplifiedTables = SimplifiedNames
  BY DEF SimplifiedTables, SimplifiedNames
<1>4. DOMAIN GovernedSnapshotTables = GovernedSnapshotNames
  BY DEF GovernedSnapshotTables, GovernedSnapshotNames
<1>5. DOMAIN GovernedRowTables = GovernedRowNames
  BY DEF GovernedRowTables, GovernedRowNames
<1>6. DOMAIN GovernedFactTables = GovernedFactNames
  BY DEF GovernedFactTables, GovernedFactNames
<1>7. DOMAIN HealthAndUserTables = HealthAndUserNames
  BY DEF HealthAndUserTables, HealthAndUserNames
<1>8. DOMAIN AITables = AINames
  BY DEF AITables, AINames
<1>9. DOMAIN ReportAndJobTables = ReportAndJobNames
  BY DEF ReportAndJobTables, ReportAndJobNames
<1>10. DOMAIN ActionTables = ActionNames
  BY DEF ActionTables, ActionNames
<1>11. DOMAIN GovernanceTables = GovernanceNames
  BY DEF GovernanceTables, GovernanceNames
<1> QED
  BY <1>1, <1>2, <1>3, <1>4, <1>5, <1>6, <1>7, <1>8, <1>9, <1>10, <1>11

\* The tables of each group and of those after it.
From10 == ActionNames \union GovernanceNames
From9 == ReportAndJobNames \union From10
From8 == AINames \union From9
From7 == HealthAndUserNames \union From8
From6 == GovernedFactNames \union From7
From5 == GovernedRowNames \union From6
From4 == GovernedSnapshotNames \union From5
From3 == SimplifiedNames \union From4
From2 == FindingNames \union From3
Tables == CoreNames \union From2

\* No table is declared twice.
LEMMA GroupsDiffer ==
    /\ Apart(CoreNames, From2)
    /\ Apart(FindingNames, From3)
    /\ Apart(SimplifiedNames, From4)
    /\ Apart(GovernedSnapshotNames, From5)
    /\ Apart(GovernedRowNames, From6)
    /\ Apart(GovernedFactNames, From7)
    /\ Apart(HealthAndUserNames, From8)
    /\ Apart(AINames, From9)
    /\ Apart(ReportAndJobNames, From10)
    /\ Apart(ActionNames, GovernanceNames)
<1>10. Apart(ActionNames, GovernanceNames)
  BY DEF Apart, ActionNames, GovernanceNames
<1>9. Apart(ReportAndJobNames, From10)
  BY DEF Apart, From10, ReportAndJobNames, ActionNames, GovernanceNames
<1>8. Apart(AINames, From9)
  BY DEF Apart, From9, From10, AINames, ReportAndJobNames, ActionNames, GovernanceNames
<1>7. Apart(HealthAndUserNames, From8)
  BY DEF Apart, From8, From9, From10, HealthAndUserNames, AINames, ReportAndJobNames,
         ActionNames, GovernanceNames
<1>6. Apart(GovernedFactNames, From7)
  BY DEF Apart, From7, From8, From9, From10, GovernedFactNames, HealthAndUserNames, AINames,
         ReportAndJobNames, ActionNames, GovernanceNames
<1>5. Apart(GovernedRowNames, From6)
  BY DEF Apart, From6, From7, From8, From9, From10, GovernedRowNames, GovernedFactNames,
         HealthAndUserNames, AINames, ReportAndJobNames, ActionNames, GovernanceNames
<1>4. Apart(GovernedSnapshotNames, From5)
  BY DEF Apart, From5, From6, From7, From8, From9, From10, GovernedSnapshotNames,
         GovernedRowNames, GovernedFactNames, HealthAndUserNames, AINames, ReportAndJobNames,
         ActionNames, GovernanceNames
<1>3. Apart(SimplifiedNames, From4)
  BY DEF Apart, From4, From5, From6, From7, From8, From9, From10, SimplifiedNames,
         GovernedSnapshotNames, GovernedRowNames, GovernedFactNames, HealthAndUserNames,
         AINames, ReportAndJobNames, ActionNames, GovernanceNames
<1>2. Apart(FindingNames, From3)
  BY DEF Apart, From3, From4, From5, From6, From7, From8, From9, From10, FindingNames,
         SimplifiedNames, GovernedSnapshotNames, GovernedRowNames, GovernedFactNames,
         HealthAndUserNames, AINames, ReportAndJobNames, ActionNames, GovernanceNames
<1>1. Apart(CoreNames, From2)
  BY DEF Apart, From2, From3, From4, From5, From6, From7, From8, From9, From10, CoreNames,
         FindingNames, SimplifiedNames, GovernedSnapshotNames, GovernedRowNames,
         GovernedFactNames, HealthAndUserNames, AINames, ReportAndJobNames, ActionNames,
         GovernanceNames
<1> QED
  BY <1>1, <1>2, <1>3, <1>4, <1>5, <1>6, <1>7, <1>8, <1>9, <1>10

\* Every class is in metadata as its group declares it.
LEMMA MetadataTables ==
    /\ DOMAIN metadata = Tables
    /\ metadata = [t \in Tables |-> metadata[t]]
    /\ \A t \in CoreNames : metadata[t] = CoreTables[t]
    /\ \A t \in FindingNames : metadata[t] = FindingTables[t]
    /\ \A t \in SimplifiedNames : metadata[t] = SimplifiedTables[t]
    /\ \A t \in GovernedSnapshotNames : metadata[t] = GovernedSnapshotTables[t]
    /\ \A t \in GovernedRowNames : metadata[t] = GovernedRowTables[t]
    /\ \A t \in GovernedFactNames : metadata[t] = GovernedFactTables[t]
    /\ \A t \in HealthAndUserNames : metadata[t] = HealthAndUserTables[t]
    /\ \A t \in AINames : metadata[t] = AITables[t]
    /\ \A t \in ReportAndJobNames : metadata[t] = ReportAndJobTables[t]
    /\ \A t \in ActionNames : metadata[t] = ActionTables[t]
    /\ \A t \in GovernanceNames : metadata[t] = GovernanceTables[t]
<1>1. Both(After10, ActionTables, ActionNames, GovernanceTables, GovernanceNames)
          /\ DOMAIN After10 = From10
  <2>1. Both(After10, ActionTables, ActionNames, GovernanceTables, GovernanceNames)
    BY GroupNames, GroupsDiffer, MergedIs DEF After10
  <2> QED
    BY <2>1 DEF Both, From10
<1>2. Both(After9, ReportAndJobTables, ReportAndJobNames, After10, From10) /\ DOMAIN After9 = From9
  <2>1. Both(After9, ReportAndJobTables, ReportAndJobNames, After10, From10)
    BY <1>1, GroupNames, GroupsDiffer, MergedIs DEF After9
  <2> QED
    BY <2>1 DEF Both, From9
<1>3. Both(After8, AITables, AINames, After9, From9) /\ DOMAIN After8 = From8
  <2>1. Both(After8, AITables, AINames, After9, From9)
    BY <1>2, GroupNames, GroupsDiffer, MergedIs DEF After8
  <2> QED
    BY <2>1 DEF Both, From8
<1>4. Both(After7, HealthAndUserTables, HealthAndUserNames, After8, From8) /\ DOMAIN After7 = From7
  <2>1. Both(After7, HealthAndUserTables, HealthAndUserNames, After8, From8)
    BY <1>3, GroupNames, GroupsDiffer, MergedIs DEF After7
  <2> QED
    BY <2>1 DEF Both, From7
<1>5. Both(After6, GovernedFactTables, GovernedFactNames, After7, From7) /\ DOMAIN After6 = From6
  <2>1. Both(After6, GovernedFactTables, GovernedFactNames, After7, From7)
    BY <1>4, GroupNames, GroupsDiffer, MergedIs DEF After6
  <2> QED
    BY <2>1 DEF Both, From6
<1>6. Both(After5, GovernedRowTables, GovernedRowNames, After6, From6) /\ DOMAIN After5 = From5
  <2>1. Both(After5, GovernedRowTables, GovernedRowNames, After6, From6)
    BY <1>5, GroupNames, GroupsDiffer, MergedIs DEF After5
  <2> QED
    BY <2>1 DEF Both, From5
<1>7. Both(After4, GovernedSnapshotTables, GovernedSnapshotNames, After5, From5)
          /\ DOMAIN After4 = From4
  <2>1. Both(After4, GovernedSnapshotTables, GovernedSnapshotNames, After5, From5)
    BY <1>6, GroupNames, GroupsDiffer, MergedIs DEF After4
  <2> QED
    BY <2>1 DEF Both, From4
<1>8. Both(After3, SimplifiedTables, SimplifiedNames, After4, From4) /\ DOMAIN After3 = From3
  <2>1. Both(After3, SimplifiedTables, SimplifiedNames, After4, From4)
    BY <1>7, GroupNames, GroupsDiffer, MergedIs DEF After3
  <2> QED
    BY <2>1 DEF Both, From3
<1>9. Both(After2, FindingTables, FindingNames, After3, From3) /\ DOMAIN After2 = From2
  <2>1. Both(After2, FindingTables, FindingNames, After3, From3)
    BY <1>8, GroupNames, GroupsDiffer, MergedIs DEF After2
  <2> QED
    BY <2>1 DEF Both, From2
<1>10. Both(metadata, CoreTables, CoreNames, After2, From2) /\ DOMAIN metadata = Tables
  <2>1. Both(metadata, CoreTables, CoreNames, After2, From2)
    BY <1>9, GroupNames, GroupsDiffer, MergedIs, MetadataIs
  <2> QED
    BY <2>1 DEF Both, Tables
<1>11. metadata = [t \in Tables |-> metadata[t]]
  <2>1. metadata = [t \in DOMAIN metadata |-> metadata[t]]
    BY MetadataIs DEF Merged
  <2> QED
    BY <1>10, <2>1
<1>12. /\ \A t \in CoreNames : metadata[t] = CoreTables[t]
       /\ \A t \in From2 : metadata[t] = After2[t]
  BY <1>10 DEF Both
<1>13. /\ \A t \in FindingNames : metadata[t] = FindingTables[t]
       /\ \A t \in From3 : metadata[t] = After3[t]
  BY <1>12, <1>9 DEF Both, From2
<1>14. /\ \A t \in SimplifiedNames : metadata[t] = SimplifiedTables[t]
       /\ \A t \in From4 : metadata[t] = After4[t]
  BY <1>13, <1>8 DEF Both, From3
<1>15. /\ \A t \in GovernedSnapshotNames : metadata[t] = GovernedSnapshotTables[t]
       /\ \A t \in From5 : metadata[t] = After5[t]
  BY <1>14, <1>7 DEF Both, From4
<1>16. /\ \A t \in GovernedRowNames : metadata[t] = GovernedRowTables[t]
       /\ \A t \in From6 : metadata[t] = After6[t]
  BY <1>15, <1>6 DEF Both, From5
<1>17. /\ \A t \in GovernedFactNames : metadata[t] = GovernedFactTables[t]
       /\ \A t \in From7 : metadata[t] = After7[t]
  BY <1>16, <1>5 DEF Both, From6
<1>18. /\ \A t \in HealthAndUserNames : metadata[t] = HealthAndUserTables[t]
       /\ \A t \in From8 : metadata[t] = After8[t]
  BY <1>17, <1>4 DEF Both, From7
<1>19. /\ \A t \in AINames : metadata[t] = AITables[t]
       /\ \A t \in From9 : metadata[t] = After9[t]
  BY <1>18, <1>3 DEF Both, From8
<1>20. /\ \A t \in ReportAndJobNames : metadata[t] = ReportAndJobTables[t]
       /\ \A t \in From10 : metadata[t] = After10[t]
  BY <1>19, <1>2 DEF Both, From9
<1>21. /\ \A t \in ActionNames : metadata[t] = ActionTables[t]
       /\ \A t \in GovernanceNames : metadata[t] = GovernanceTables[t]
  BY <1>20, <1>1 DEF Both, From10
<1> QED
  BY <1>10, <1>11, <1>12, <1>13, <1>14, <1>15, <1>16, <1>17, <1>18, <1>19, <1>20, <1>21

-----------------------------------------------------------------------------
(* The tables in the order in which the revisions create them.                *)

\* The tables in the order in which the revisions create them.
Place ==
    [organizations |-> 1, projects |-> 2, source_files |-> 3, dataset_snapshots |-> 4,
     rule_catalogue_versions |-> 5, analysis_runs |-> 6, findings |-> 7, finding_evidence
     |-> 8, approved_exceptions |-> 9, audit_logs |-> 10, raw_rows |-> 11, import_batches
     |-> 12, import_column_mappings |-> 13, wbs_nodes |-> 14, budget_records |-> 15,
     cost_records |-> 16, commitment_records |-> 17, schedule_activities |-> 18,
     progress_records |-> 19, health_snapshots |-> 20, users |-> 21, organization_members
     |-> 22, project_members |-> 23, ai_conversations |-> 24, ai_messages |-> 25,
     finding_actions |-> 26, finding_action_history |-> 27, project_governance_policies |->
     28, finding_closure_approvals |-> 29, governance_escalations |-> 30, report_packages
     |-> 31, governed_mapping_profile_versions |-> 32, governed_dataset_snapshots |-> 33,
     governed_import_batches |-> 34, governed_dataset_domain_statuses |-> 35,
     governed_raw_rows |-> 36, governed_wbs_nodes |-> 37, governed_budget_records |-> 38,
     governed_actual_cost_records |-> 39, governed_commitment_records |-> 40,
     governed_schedule_activities |-> 41, governed_progress_records |-> 42, product_events
     |-> 43, finding_feedback |-> 44, ai_insights |-> 45, analysis_jobs |-> 46]

\* The revision that creates a table, by the table's place.
RevisionAt(k) ==
    CASE k \in 1..10 -> "20260817_0001"
      [] k \in 11..19 -> "20260821_0002"
      [] k = 20 -> "20260822_0003"
      [] k \in 21..23 -> "20260904_0004"
      [] k \in 24..25 -> "20260905_0005"
      [] k \in 26..27 -> "20260823_0006"
      [] k \in 28..30 -> "20260823_0007"
      [] k = 31 -> "20260823_0008"
      [] k \in 32..42 -> "20260825_0009"
      [] k \in 43..44 -> "20260906_0001"
      [] k = 45 -> "20260907_0002"
      [] OTHER -> "20260908_0001"

RevisionOf(t) == RevisionAt(Place[t])

Order ==
    <<"organizations", "projects", "source_files", "dataset_snapshots",
      "rule_catalogue_versions", "analysis_runs", "findings", "finding_evidence",
      "approved_exceptions", "audit_logs", "raw_rows", "import_batches",
      "import_column_mappings", "wbs_nodes", "budget_records", "cost_records",
      "commitment_records", "schedule_activities", "progress_records", "health_snapshots",
      "users", "organization_members", "project_members", "ai_conversations", "ai_messages",
      "finding_actions", "finding_action_history", "project_governance_policies",
      "finding_closure_approvals", "governance_escalations", "report_packages",
      "governed_mapping_profile_versions", "governed_dataset_snapshots",
      "governed_import_batches", "governed_dataset_domain_statuses", "governed_raw_rows",
      "governed_wbs_nodes", "governed_budget_records", "governed_actual_cost_records",
      "governed_commitment_records", "governed_schedule_activities",
      "governed_progress_records", "product_events", "finding_feedback", "ai_insights",
      "analysis_jobs">>

\* The place of each table.
LEMMA TablePlaces ==
    /\ DOMAIN Place = Tables
    /\ Place["organizations"] = 1
    /\ Place["projects"] = 2
    /\ Place["source_files"] = 3
    /\ Place["dataset_snapshots"] = 4
    /\ Place["rule_catalogue_versions"] = 5
    /\ Place["analysis_runs"] = 6
    /\ Place["findings"] = 7
    /\ Place["finding_evidence"] = 8
    /\ Place["approved_exceptions"] = 9
    /\ Place["audit_logs"] = 10
    /\ Place["raw_rows"] = 11
    /\ Place["import_batches"] = 12
    /\ Place["import_column_mappings"] = 13
    /\ Place["wbs_nodes"] = 14
    /\ Place["budget_records"] = 15
    /\ Place["cost_records"] = 16
    /\ Place["commitment_records"] = 17
    /\ Place["schedule_activities"] = 18
    /\ Place["progress_records"] = 19
    /\ Place["health_snapshots"] = 20
    /\ Place["users"] = 21
    /\ Place["organization_members"] = 22
    /\ Place["project_members"] = 23
    /\ Place["ai_conversations"] = 24
    /\ Place["ai_messages"] = 25
    /\ Place["finding_actions"] = 26
    /\ Place["finding_action_history"] = 27
    /\ Place["project_governance_policies"] = 28
    /\ Place["finding_closure_approvals"] = 29
    /\ Place["governance_escalations"] = 30
    /\ Place["report_packages"] = 31
    /\ Place["governed_mapping_profile_versions"] = 32
    /\ Place["governed_dataset_snapshots"] = 33
    /\ Place["governed_import_batches"] = 34
    /\ Place["governed_dataset_domain_statuses"] = 35
    /\ Place["governed_raw_rows"] = 36
    /\ Place["governed_wbs_nodes"] = 37
    /\ Place["governed_budget_records"] = 38
    /\ Place["governed_actual_cost_records"] = 39
    /\ Place["governed_commitment_records"] = 40
    /\ Place["governed_schedule_activities"] = 41
    /\ Place["governed_progress_records"] = 42
    /\ Place["product_events"] = 43
    /\ Place["finding_feedback"] = 44
    /\ Place["ai_insights"] = 45
    /\ Place["analysis_jobs"] = 46
<1>1. DOMAIN Place = Tables
  BY DEF Place, Tables, From2, From3, From4, From5, From6, From7, From8, From9, From10,
         CoreNames, FindingNames, SimplifiedNames, GovernedSnapshotNames, GovernedRowNames,
         GovernedFactNames, HealthAndUserNames, AINames, ReportAndJobNames, ActionNames,
         GovernanceNames
<1> QED
  BY <1>1 DEF Place

\* There are 46 of them.
LEMMA PlaceType == \A t \in Tables : Place[t] \in 1..46 /\ Place[t] \in Nat
<1>1. \A t \in DOMAIN Place : Place[t] \in 1..46 /\ Place[t] \in Nat
  BY DEF Place
<1> QED
  BY <1>1, TablePlaces

\* The table at each place.
LEMMA Orders ==
    /\ Order[1] = "organizations"
    /\ Order[2] = "projects"
    /\ Order[3] = "source_files"
    /\ Order[4] = "dataset_snapshots"
    /\ Order[5] = "rule_catalogue_versions"
    /\ Order[6] = "analysis_runs"
    /\ Order[7] = "findings"
    /\ Order[8] = "finding_evidence"
    /\ Order[9] = "approved_exceptions"
    /\ Order[10] = "audit_logs"
    /\ Order[11] = "raw_rows"
    /\ Order[12] = "import_batches"
    /\ Order[13] = "import_column_mappings"
    /\ Order[14] = "wbs_nodes"
    /\ Order[15] = "budget_records"
    /\ Order[16] = "cost_records"
    /\ Order[17] = "commitment_records"
    /\ Order[18] = "schedule_activities"
    /\ Order[19] = "progress_records"
    /\ Order[20] = "health_snapshots"
    /\ Order[21] = "users"
    /\ Order[22] = "organization_members"
    /\ Order[23] = "project_members"
    /\ Order[24] = "ai_conversations"
    /\ Order[25] = "ai_messages"
    /\ Order[26] = "finding_actions"
    /\ Order[27] = "finding_action_history"
    /\ Order[28] = "project_governance_policies"
    /\ Order[29] = "finding_closure_approvals"
    /\ Order[30] = "governance_escalations"
    /\ Order[31] = "report_packages"
    /\ Order[32] = "governed_mapping_profile_versions"
    /\ Order[33] = "governed_dataset_snapshots"
    /\ Order[34] = "governed_import_batches"
    /\ Order[35] = "governed_dataset_domain_statuses"
    /\ Order[36] = "governed_raw_rows"
    /\ Order[37] = "governed_wbs_nodes"
    /\ Order[38] = "governed_budget_records"
    /\ Order[39] = "governed_actual_cost_records"
    /\ Order[40] = "governed_commitment_records"
    /\ Order[41] = "governed_schedule_activities"
    /\ Order[42] = "governed_progress_records"
    /\ Order[43] = "product_events"
    /\ Order[44] = "finding_feedback"
    /\ Order[45] = "ai_insights"
    /\ Order[46] = "analysis_jobs"
BY DEF Order

\* A place is that of the table that is at it.
LEMMA OrderPlaces == \A k \in 1..46 : Order[k] \in Tables /\ Place[Order[k]] = k
<1>1. \A k \in 1..46 : Order[k] \in DOMAIN Place /\ Place[Order[k]] = k
  BY DEF Order, Place
<1> QED
  BY <1>1, TablePlaces

\* A table is at its place.
LEMMA PlaceOrders == \A t \in Tables : Order[Place[t]] = t
<1>1. \A t \in DOMAIN Place : Order[Place[t]] = t
  BY DEF Order, Place
<1> QED
  BY <1>1, TablePlaces

-----------------------------------------------------------------------------
(* The schema that a set of revisions leaves.                                 *)

RunChecks(F) ==
    {Values("status", {"queued", "running", "succeeded", "failed"})}
    \union IF "20260825_0010" \in F THEN {OneSnapshot} ELSE {}

HealthChecks(F) ==
    IF "20260825_0011" \in F THEN {Values("score_band", AllBands), ComputationStatus}
                              ELSE {NotNull(Scores), Values("score_band", Bands)}

FeedbackChecks ==
    {Values("rating", {"useful", "not_useful"}), Values("status", {"new", "reviewed", "archived"})}
SnapshotChecks ==
    {Values("status", {"ingesting", "validated", "validated_with_errors", "failed"})}

\* The references and the checks of the tables that a later revision changes,
\* once the revisions of F are applied.
RunRefs(F) ==
    Owned \union {Ref("rule_catalogue_versions", "restrict")}
    \union IF "20260825_0010" \in F
           THEN {OptionalRef("dataset_snapshots", "restrict"),
                 OptionalRef("governed_dataset_snapshots", "restrict")}
           ELSE {Ref("dataset_snapshots", "restrict")}

SnapshotRefs(F) ==
    Owned \union {Ref("source_files", "restrict"),
                  Ref("governed_mapping_profile_versions", "restrict")}
    \union IF "20260825_0009" \in F
           THEN {OptionalRef("governed_import_batches", "no action")} ELSE {}

EventRefs ==
    Cascades({"organizations"}) \union Users
    \union {OptionalRef(t, "set null") : t \in {"projects", "analysis_runs", "findings"}}

FeedbackRefs ==
    Owned \union Users \union Cascades({"analysis_runs"})
        \union {OptionalRef("findings", "cascade")}

HealthRefs == Owned \union Cascades({"analysis_runs"})

IndexNames(F) == IF "20260831_0013" \in F THEN LongNames ELSE ShortNames

\* A table as the revisions of F leave it.
FormAt(F, t) ==
    CASE t = "analysis_runs" ->
            Table(RunRefs(F), {}, RunChecks(F))
      [] t = "governed_dataset_snapshots" ->
            Table(SnapshotRefs(F), {{"id", "import_batch_id"}, {"dedupe_key"}}, SnapshotChecks)
      [] t = "health_snapshots" ->
            Table(HealthRefs, {{"analysis_run_id"}}, HealthChecks(F))
      [] t = "product_events" -> Table(EventRefs, {}, {IndexNames(F)})
      [] t = "finding_feedback" -> Table(FeedbackRefs, {}, FeedbackChecks \union {IndexNames(F)})
      [] OTHER -> metadata[t]

SchemaOf(N, F) == [t \in N |-> FormAt(F, t)]
NamesAt(S) == {t \in Tables : RevisionOf(t) \in S}
SchemaAt(S) == SchemaOf(NamesAt(S), S)

\* The parts of a table, and of a key.
LEMMA TableFields ==
    \A R, K, C : /\ Table(R, K, C).refs = R
                 /\ Table(R, K, C).keys = K
                 /\ Table(R, K, C).checks = C
BY DEF Table

\* A key names its table, its rule of deletion, and whether it may be null.
LEMMA RefFields ==
    \A t, on : /\ Ref(t, on).table = t /\ Ref(t, on).on = on /\ ~Ref(t, on).optional
               /\ OptionalRef(t, on).table = t /\ OptionalRef(t, on).on = on
               /\ OptionalRef(t, on).optional
BY DEF Ref, OptionalRef

\* A table that no later revision changes is what its class declares.
Changed == {"analysis_runs", "governed_dataset_snapshots", "health_snapshots", "product_events",
            "finding_feedback"}

\* A table that no later revision changes has one form.
LEMMA OtherForms ==
    \A F, t : t \notin Changed => FormAt(F, t) = metadata[t]
BY DEF FormAt, Changed

\* The forms of those that a later revision changes.
LEMMA ChangedForms ==
    ASSUME NEW F
    PROVE  /\ FormAt(F, "analysis_runs") =
                Table(RunRefs(F), {}, RunChecks(F))
           /\ FormAt(F, "governed_dataset_snapshots") =
                Table(SnapshotRefs(F), {{"id", "import_batch_id"}, {"dedupe_key"}}, SnapshotChecks)
           /\ FormAt(F, "health_snapshots") =
                Table(HealthRefs, {{"analysis_run_id"}}, HealthChecks(F))
           /\ FormAt(F, "product_events") = Table(EventRefs, {}, {IndexNames(F)})
           /\ FormAt(F, "finding_feedback") =
                Table(FeedbackRefs, {}, FeedbackChecks \union {IndexNames(F)})
BY DEF FormAt

\* Their keys.
LEMMA ChangedRefs ==
    ASSUME NEW F
    PROVE  /\ FormAt(F, "analysis_runs").refs = RunRefs(F)
           /\ FormAt(F, "governed_dataset_snapshots").refs = SnapshotRefs(F)
           /\ FormAt(F, "health_snapshots").refs = HealthRefs
           /\ FormAt(F, "product_events").refs = EventRefs
           /\ FormAt(F, "finding_feedback").refs = FeedbackRefs
<1>1. FormAt(F, "analysis_runs").refs = RunRefs(F)
  BY TableFields DEF FormAt
<1>2. FormAt(F, "governed_dataset_snapshots").refs = SnapshotRefs(F)
  BY TableFields DEF FormAt
<1>3. FormAt(F, "health_snapshots").refs = HealthRefs
  BY TableFields DEF FormAt
<1>4. FormAt(F, "product_events").refs = EventRefs
  BY TableFields DEF FormAt
<1>5. FormAt(F, "finding_feedback").refs = FeedbackRefs
  BY TableFields DEF FormAt
<1> QED
  BY <1>1, <1>2, <1>3, <1>4, <1>5

\* The checks of runs and of health snapshots.
LEMMA ChangedChecks ==
    ASSUME NEW F
    PROVE  /\ FormAt(F, "analysis_runs").checks = RunChecks(F)
           /\ FormAt(F, "health_snapshots").checks = HealthChecks(F)
<1>1. FormAt(F, "analysis_runs").checks = RunChecks(F)
  BY TableFields DEF FormAt
<1>2. FormAt(F, "health_snapshots").checks = HealthChecks(F)
  BY TableFields DEF FormAt
<1> QED
  BY <1>1, <1>2

\* The last revision leaves what the classes declare.
LEMMA HeadForms ==
    \A t \in Tables : FormAt(Revisions, t) = metadata[t]
<1>0. {"20260825_0009", "20260825_0010", "20260825_0011", "20260831_0013"} \subseteq Revisions
  BY DEF Revisions
<1>1. FormAt(Revisions, "analysis_runs") = metadata["analysis_runs"]
  <2>1. metadata["analysis_runs"] = CoreTables["analysis_runs"]
    BY MetadataTables DEF CoreNames
  <2>2. CoreTables["analysis_runs"] = Table(
        Owned \union {OptionalRef("dataset_snapshots", "restrict"),
                      OptionalRef("governed_dataset_snapshots", "restrict"),
                      Ref("rule_catalogue_versions", "restrict")}, {},
        {Values("status", {"queued", "running", "succeeded", "failed"}), OneSnapshot})
    BY DEF CoreTables
  <2>3. Owned \union {OptionalRef("dataset_snapshots", "restrict"),
                      OptionalRef("governed_dataset_snapshots", "restrict"),
                      Ref("rule_catalogue_versions", "restrict")} = RunRefs(Revisions)
    BY <1>0 DEF RunRefs
  <2>4. {Values("status", {"queued", "running", "succeeded", "failed"}), OneSnapshot}
        = RunChecks(Revisions)
    BY <1>0 DEF RunChecks
  <2> QED
    BY <1>0, <2>1, <2>2, <2>3, <2>4, ChangedForms
<1>2. FormAt(Revisions, "governed_dataset_snapshots") = metadata["governed_dataset_snapshots"]
  <2>1. metadata["governed_dataset_snapshots"]
            = GovernedSnapshotTables["governed_dataset_snapshots"]
    BY MetadataTables DEF GovernedSnapshotNames
  <2>2. GovernedSnapshotTables["governed_dataset_snapshots"] = Table(
        Owned \union {Ref("source_files", "restrict"),
                      Ref("governed_mapping_profile_versions", "restrict"),
                      OptionalRef("governed_import_batches", "no action")},
        {{"id", "import_batch_id"}, {"dedupe_key"}}, SnapshotChecks)
    BY DEF GovernedSnapshotTables, SnapshotChecks
  <2>3. Owned \union {Ref("source_files", "restrict"),
                      Ref("governed_mapping_profile_versions", "restrict"),
                      OptionalRef("governed_import_batches", "no action")} = SnapshotRefs(Revisions)
    BY <1>0 DEF SnapshotRefs
  <2> QED
    BY <2>1, <2>2, <2>3, ChangedForms
<1>3. FormAt(Revisions, "health_snapshots") = metadata["health_snapshots"]
  <2>1. metadata["health_snapshots"] = HealthAndUserTables["health_snapshots"]
    BY MetadataTables DEF HealthAndUserNames
  <2>2. HealthAndUserTables["health_snapshots"] = Table(HealthRefs, {{"analysis_run_id"}},
           {Values("score_band", AllBands), ComputationStatus})
    BY DEF HealthAndUserTables, HealthRefs, AllBands, ComputationStatus
  <2>3. HealthChecks(Revisions) = {Values("score_band", AllBands), ComputationStatus}
    BY <1>0 DEF HealthChecks
  <2> QED
    BY <2>1, <2>2, <2>3, ChangedForms
<1>4. FormAt(Revisions, "product_events") = metadata["product_events"]
  <2>1. metadata["product_events"] = FindingTables["product_events"]
    BY MetadataTables DEF FindingNames
  <2>2. FindingTables["product_events"] = Table(EventRefs, {}, {LongNames})
    BY DEF FindingTables, EventRefs, LongNames
  <2>3. IndexNames(Revisions) = LongNames
    BY <1>0 DEF IndexNames
  <2> QED
    BY <2>1, <2>2, <2>3, ChangedForms
<1>5. FormAt(Revisions, "finding_feedback") = metadata["finding_feedback"]
  <2>1. metadata["finding_feedback"] = FindingTables["finding_feedback"]
    BY MetadataTables DEF FindingNames
  <2>2. FindingTables["finding_feedback"] = Table(FeedbackRefs, {},
           {Values("rating", {"useful", "not_useful"}),
            Values("status", {"new", "reviewed", "archived"}), LongNames})
    BY DEF FindingTables, FeedbackRefs, LongNames
  <2>3. {Values("rating", {"useful", "not_useful"}),
         Values("status", {"new", "reviewed", "archived"}), LongNames}
        = FeedbackChecks \union {IndexNames(Revisions)}
    BY <1>0 DEF FeedbackChecks, IndexNames
  <2> QED
    BY <2>1, <2>2, <2>3, ChangedForms
<1> QED
  BY <1>1, <1>2, <1>3, <1>4, <1>5, OtherForms DEF Changed

-----------------------------------------------------------------------------
(* Keys refer to what is there, and let a project go.                         *)

\* The revision that creates each table.
LEMMA Revised ==
    /\ RevisionOf("organizations") = "20260817_0001"
    /\ RevisionOf("projects") = "20260817_0001"
    /\ RevisionOf("source_files") = "20260817_0001"
    /\ RevisionOf("dataset_snapshots") = "20260817_0001"
    /\ RevisionOf("rule_catalogue_versions") = "20260817_0001"
    /\ RevisionOf("analysis_runs") = "20260817_0001"
    /\ RevisionOf("findings") = "20260817_0001"
    /\ RevisionOf("finding_evidence") = "20260817_0001"
    /\ RevisionOf("approved_exceptions") = "20260817_0001"
    /\ RevisionOf("audit_logs") = "20260817_0001"
    /\ RevisionOf("raw_rows") = "20260821_0002"
    /\ RevisionOf("import_batches") = "20260821_0002"
    /\ RevisionOf("import_column_mappings") = "20260821_0002"
    /\ RevisionOf("wbs_nodes") = "20260821_0002"
    /\ RevisionOf("budget_records") = "20260821_0002"
    /\ RevisionOf("cost_records") = "20260821_0002"
    /\ RevisionOf("commitment_records") = "20260821_0002"
    /\ RevisionOf("schedule_activities") = "20260821_0002"
    /\ RevisionOf("progress_records") = "20260821_0002"
    /\ RevisionOf("health_snapshots") = "20260822_0003"
    /\ RevisionOf("users") = "20260904_0004"
    /\ RevisionOf("organization_members") = "20260904_0004"
    /\ RevisionOf("project_members") = "20260904_0004"
    /\ RevisionOf("ai_conversations") = "20260905_0005"
    /\ RevisionOf("ai_messages") = "20260905_0005"
    /\ RevisionOf("finding_actions") = "20260823_0006"
    /\ RevisionOf("finding_action_history") = "20260823_0006"
    /\ RevisionOf("project_governance_policies") = "20260823_0007"
    /\ RevisionOf("finding_closure_approvals") = "20260823_0007"
    /\ RevisionOf("governance_escalations") = "20260823_0007"
    /\ RevisionOf("report_packages") = "20260823_0008"
    /\ RevisionOf("governed_mapping_profile_versions") = "20260825_0009"
    /\ RevisionOf("governed_dataset_snapshots") = "20260825_0009"
    /\ RevisionOf("governed_import_batches") = "20260825_0009"
    /\ RevisionOf("governed_dataset_domain_statuses") = "20260825_0009"
    /\ RevisionOf("governed_raw_rows") = "20260825_0009"
    /\ RevisionOf("governed_wbs_nodes") = "20260825_0009"
    /\ RevisionOf("governed_budget_records") = "20260825_0009"
    /\ RevisionOf("governed_actual_cost_records") = "20260825_0009"
    /\ RevisionOf("governed_commitment_records") = "20260825_0009"
    /\ RevisionOf("governed_schedule_activities") = "20260825_0009"
    /\ RevisionOf("governed_progress_records") = "20260825_0009"
    /\ RevisionOf("product_events") = "20260906_0001"
    /\ RevisionOf("finding_feedback") = "20260906_0001"
    /\ RevisionOf("ai_insights") = "20260907_0002"
    /\ RevisionOf("analysis_jobs") = "20260908_0001"
BY TablePlaces DEF RevisionOf, RevisionAt

\* Each name is that of a table.
LEMMA TableNames ==
    /\ "organizations" \in Tables
    /\ "projects" \in Tables
    /\ "source_files" \in Tables
    /\ "dataset_snapshots" \in Tables
    /\ "rule_catalogue_versions" \in Tables
    /\ "analysis_runs" \in Tables
    /\ "findings" \in Tables
    /\ "finding_evidence" \in Tables
    /\ "approved_exceptions" \in Tables
    /\ "audit_logs" \in Tables
    /\ "raw_rows" \in Tables
    /\ "import_batches" \in Tables
    /\ "import_column_mappings" \in Tables
    /\ "wbs_nodes" \in Tables
    /\ "budget_records" \in Tables
    /\ "cost_records" \in Tables
    /\ "commitment_records" \in Tables
    /\ "schedule_activities" \in Tables
    /\ "progress_records" \in Tables
    /\ "health_snapshots" \in Tables
    /\ "users" \in Tables
    /\ "organization_members" \in Tables
    /\ "project_members" \in Tables
    /\ "ai_conversations" \in Tables
    /\ "ai_messages" \in Tables
    /\ "finding_actions" \in Tables
    /\ "finding_action_history" \in Tables
    /\ "project_governance_policies" \in Tables
    /\ "finding_closure_approvals" \in Tables
    /\ "governance_escalations" \in Tables
    /\ "report_packages" \in Tables
    /\ "governed_mapping_profile_versions" \in Tables
    /\ "governed_dataset_snapshots" \in Tables
    /\ "governed_import_batches" \in Tables
    /\ "governed_dataset_domain_statuses" \in Tables
    /\ "governed_raw_rows" \in Tables
    /\ "governed_wbs_nodes" \in Tables
    /\ "governed_budget_records" \in Tables
    /\ "governed_actual_cost_records" \in Tables
    /\ "governed_commitment_records" \in Tables
    /\ "governed_schedule_activities" \in Tables
    /\ "governed_progress_records" \in Tables
    /\ "product_events" \in Tables
    /\ "finding_feedback" \in Tables
    /\ "ai_insights" \in Tables
    /\ "analysis_jobs" \in Tables
<1>1. \A t \in DOMAIN Place : t \in Tables
  BY TablePlaces
<1> QED
  BY <1>1 DEF Place

\* The revisions whose tables those of r may refer to.
Needs(r) ==
    CASE r = "20260817_0001" -> {}
      [] r \in {"20260821_0002", "20260822_0003", "20260904_0004"} -> {"20260817_0001"}
      [] r = "20260823_0007" -> {"20260817_0001", "20260904_0004", "20260823_0006"}
      [] OTHER -> {"20260817_0001", "20260904_0004"}

\* t comes after u, in its own revision or in one that needs u's.
Follows(t, u) ==
    /\ u \in Tables
    /\ \/ RevisionOf(u) \in Needs(RevisionOf(t))
       \/ RevisionOf(u) = RevisionOf(t) /\ Place[u] <= Place[t]

\* The tables whose rows are deleted with the row of their project.
OfProject ==
    Tables \ {"organizations", "projects", "rule_catalogue_versions", "finding_evidence",
               "audit_logs", "product_events", "governed_mapping_profile_versions", "users",
               "organization_members", "ai_messages", "finding_action_history"}

\* A key does not get in the way of deleting a project.
LetsGo(t, ref) ==
    \/ /\ ref.on = "cascade"
       /\ ref.table \in {"organizations", "users"} \/ t \in OfProject \/ ref.table \in OfProject
    \/ ref.on = "set null" /\ ref.optional
    \/ ref.on # "cascade" /\ ref.table # "projects" /\ t \in OfProject

Orderly(t, refs) == \A ref \in refs : Follows(t, ref.table) /\ LetsGo(t, ref)

\* The tables whose rows go with their project.
LEMMA ProjectTables ==
    /\ "source_files" \in OfProject
    /\ "dataset_snapshots" \in OfProject
    /\ "analysis_runs" \in OfProject
    /\ "findings" \in OfProject
    /\ "approved_exceptions" \in OfProject
    /\ "raw_rows" \in OfProject
    /\ "import_batches" \in OfProject
    /\ "import_column_mappings" \in OfProject
    /\ "wbs_nodes" \in OfProject
    /\ "budget_records" \in OfProject
    /\ "cost_records" \in OfProject
    /\ "commitment_records" \in OfProject
    /\ "schedule_activities" \in OfProject
    /\ "progress_records" \in OfProject
    /\ "health_snapshots" \in OfProject
    /\ "project_members" \in OfProject
    /\ "ai_conversations" \in OfProject
    /\ "finding_actions" \in OfProject
    /\ "project_governance_policies" \in OfProject
    /\ "finding_closure_approvals" \in OfProject
    /\ "governance_escalations" \in OfProject
    /\ "report_packages" \in OfProject
    /\ "governed_dataset_snapshots" \in OfProject
    /\ "governed_import_batches" \in OfProject
    /\ "governed_dataset_domain_statuses" \in OfProject
    /\ "governed_raw_rows" \in OfProject
    /\ "governed_wbs_nodes" \in OfProject
    /\ "governed_budget_records" \in OfProject
    /\ "governed_actual_cost_records" \in OfProject
    /\ "governed_commitment_records" \in OfProject
    /\ "governed_schedule_activities" \in OfProject
    /\ "governed_progress_records" \in OfProject
    /\ "finding_feedback" \in OfProject
    /\ "ai_insights" \in OfProject
    /\ "analysis_jobs" \in OfProject
BY TableNames DEF OfProject

\* A key refers to the table it names.
LEMMA RefTables == \A t, on : Ref(t, on).table = t /\ OptionalRef(t, on).table = t
BY DEF Ref, OptionalRef

\* A key with ON DELETE CASCADE, one that is set to null, and another one.
LEMMA CascadeGoes ==
    ASSUME NEW t, NEW u, u \in {"organizations", "users"} \/ t \in OfProject \/ u \in OfProject
    PROVE  LetsGo(t, Ref(u, "cascade"))
<1> DEFINE ref == Ref(u, "cascade")
<1>1. ref.on = "cascade" /\ ref.table = u
  BY DEF Ref
<1> HIDE DEF ref
<1>2. LetsGo(t, ref)
  BY <1>1, Zenon DEF LetsGo
<1> QED
  BY <1>2 DEF ref

\* Neither does one that is set to null.
LEMMA NullGoes ==
    ASSUME NEW t, NEW u
    PROVE  LetsGo(t, OptionalRef(u, "set null"))
<1> DEFINE ref == OptionalRef(u, "set null")
<1>1. ref.on = "set null" /\ ref.optional
  BY DEF OptionalRef
<1> HIDE DEF ref
<1>2. LetsGo(t, ref)
  BY <1>1, Zenon DEF LetsGo
<1> QED
  BY <1>2 DEF ref

\* A key without either, of a table whose rows go with the project anyway,
\* does not unless it refers to the project.
LEMMA OtherGoes ==
    ASSUME NEW t \in OfProject, NEW u, u # "projects", NEW on, on # "cascade"
    PROVE  LetsGo(t, Ref(u, on)) /\ LetsGo(t, OptionalRef(u, on))
BY RefFields DEF LetsGo

\* Nor does one with ON DELETE CASCADE that may be null.
LEMMA OptionalCascadeGoes ==
    ASSUME NEW t \in OfProject, NEW u
    PROVE  LetsGo(t, OptionalRef(u, "cascade"))
<1> DEFINE ref == OptionalRef(u, "cascade")
<1>1. ref.on = "cascade" /\ ref.table = u
  BY DEF OptionalRef
<1> HIDE DEF ref
<1>2. LetsGo(t, ref)
  BY <1>1, Zenon DEF LetsGo
<1> QED
  BY <1>2 DEF ref

\* So for the keys that a table is declared with.
LEMMA OrderlyOne ==
    \A t \in OfProject : \A u, on :
        Follows(t, u) /\ on # "cascade" /\ u # "projects"
            => Orderly(t, {Ref(u, on)}) /\ Orderly(t, {OptionalRef(u, on)})
BY RefTables, OtherGoes DEF Orderly

\* Such keys to a table that is created before are orderly.
LEMMA OrderlyNull ==
    \A t, u : Follows(t, u) => Orderly(t, {OptionalRef(u, "set null")})
BY RefTables, NullGoes DEF Orderly

\* So are optional ones with ON DELETE CASCADE.
LEMMA OrderlyOptional ==
    \A t \in OfProject : \A u : Follows(t, u) => Orderly(t, {OptionalRef(u, "cascade")})
BY RefTables, OptionalCascadeGoes DEF Orderly

\* So are those to the users who wrote a row.
LEMMA OrderlyUsers ==
    \A t : Follows(t, "users") => Orderly(t, Users)
BY OrderlyNull DEF Users

\* So are those with ON DELETE CASCADE.
LEMMA OrderlyCascades ==
    ASSUME NEW t, NEW X, \A u \in X : /\ Follows(t, u)
                                   /\ \/ u \in {"organizations", "users"}
                                      \/ t \in OfProject
                                      \/ u \in OfProject
    PROVE  Orderly(t, Cascades(X))
BY CascadeGoes, RefTables DEF Orderly, Cascades

\* So are those to the organization and the project.
LEMMA OrderlyOwned ==
    \A t \in OfProject :
        Follows(t, "organizations") /\ Follows(t, "projects") => Orderly(t, Owned)
BY OrderlyCascades DEF Owned

\* So is a single one with ON DELETE CASCADE.
LEMMA OrderlyOf ==
    \A t, u : /\ Follows(t, u)
              /\ u \in {"organizations", "users"} \/ t \in OfProject \/ u \in OfProject
              => Orderly(t, Cascades({u}))
BY OrderlyCascades

\* The tables of the core (models.py).
LEMMA CoreOrderly == \A t \in CoreNames \ Changed : Orderly(t, metadata[t].refs)
<1>1. Orderly("organizations", CoreTables["organizations"].refs)
  <2>1. CoreTables["organizations"].refs = {}
    BY TableFields DEF CoreTables
  <2> QED
    BY <2>1 DEF Orderly
<1>2. Orderly("projects", CoreTables["projects"].refs)
  <2>1. CoreTables["projects"].refs = Cascades({"organizations"})
    BY TableFields DEF CoreTables
  <2>2. /\ Follows("projects", "organizations")
    BY Revised, TableNames, TablePlaces DEF Follows, Needs
  <2> QED
    BY <2>1, <2>2, ProjectTables, OrderlyOf
<1>3. Orderly("source_files", CoreTables["source_files"].refs)
  <2>1. CoreTables["source_files"].refs = Owned
    BY TableFields DEF CoreTables
  <2>2. /\ Follows("source_files", "organizations")
        /\ Follows("source_files", "projects")
    BY Revised, TableNames, TablePlaces DEF Follows, Needs
  <2> QED
    BY <2>1, <2>2, ProjectTables, OrderlyOwned
<1>4. Orderly("dataset_snapshots", CoreTables["dataset_snapshots"].refs)
  <2>1. CoreTables["dataset_snapshots"].refs = Owned \union {Ref("source_files", "restrict")}
    BY TableFields DEF CoreTables
  <2>2. /\ Follows("dataset_snapshots", "organizations")
        /\ Follows("dataset_snapshots", "projects")
        /\ Follows("dataset_snapshots", "source_files")
    BY Revised, TableNames, TablePlaces DEF Follows, Needs
  <2>3. /\ Orderly("dataset_snapshots", Owned)
        /\ Orderly("dataset_snapshots", {Ref("source_files", "restrict")})
    BY <2>2, ProjectTables, OrderlyOne, OrderlyOwned
  <2> QED
    BY <2>1, <2>3, Zenon DEF Orderly
<1>5. Orderly("rule_catalogue_versions", CoreTables["rule_catalogue_versions"].refs)
  <2>1. CoreTables["rule_catalogue_versions"].refs = {}
    BY TableFields DEF CoreTables
  <2> QED
    BY <2>1 DEF Orderly
<1> QED
  BY <1>1, <1>2, <1>3, <1>4, <1>5, MetadataTables DEF CoreNames, Changed

\* The tables of findings and what is said of them (models.py).
LEMMA FindingOrderly == \A t \in FindingNames \ Changed : Orderly(t, metadata[t].refs)
<1>1. Orderly("findings", FindingTables["findings"].refs)
  <2>1. FindingTables["findings"].refs = Owned \union Cascades({"analysis_runs"})
    BY TableFields DEF FindingTables
  <2>2. /\ Follows("findings", "organizations")
        /\ Follows("findings", "projects")
        /\ Follows("findings", "analysis_runs")
    BY Revised, TableNames, TablePlaces DEF Follows, Needs
  <2>3. /\ Orderly("findings", Owned)
        /\ Orderly("findings", Cascades({"analysis_runs"}))
    BY <2>2, ProjectTables, OrderlyOf, OrderlyOwned
  <2> QED
    BY <2>1, <2>3, Zenon DEF Orderly
<1>2. Orderly("finding_evidence", FindingTables["finding_evidence"].refs)
  <2>1. FindingTables["finding_evidence"].refs = Cascades({"findings"})
    BY TableFields DEF FindingTables
  <2>2. /\ Follows("finding_evidence", "findings")
    BY Revised, TableNames, TablePlaces DEF Follows, Needs
  <2> QED
    BY <2>1, <2>2, ProjectTables, OrderlyOf
<1>3. Orderly("approved_exceptions", FindingTables["approved_exceptions"].refs)
  <2>1. FindingTables["approved_exceptions"].refs = Cascades({"organizations"}) \union
            {OptionalRef("projects", "cascade")}
    BY TableFields DEF FindingTables
  <2>2. /\ Follows("approved_exceptions", "organizations")
        /\ Follows("approved_exceptions", "projects")
    BY Revised, TableNames, TablePlaces DEF Follows, Needs
  <2>3. /\ Orderly("approved_exceptions", Cascades({"organizations"}))
        /\ Orderly("approved_exceptions", {OptionalRef("projects", "cascade")})
    BY <2>2, ProjectTables, OrderlyOf, OrderlyOptional
  <2> QED
    BY <2>1, <2>3, Zenon DEF Orderly
<1>4. Orderly("audit_logs", FindingTables["audit_logs"].refs)
  <2>1. FindingTables["audit_logs"].refs = Cascades({"organizations"}) \union
            {OptionalRef("projects", "set null")}
    BY TableFields DEF FindingTables
  <2>2. /\ Follows("audit_logs", "organizations")
        /\ Follows("audit_logs", "projects")
    BY Revised, TableNames, TablePlaces DEF Follows, Needs
  <2>3. /\ Orderly("audit_logs", Cascades({"organizations"}))
        /\ Orderly("audit_logs", {OptionalRef("projects", "set null")})
    BY <2>2, ProjectTables, OrderlyNull, OrderlyOf
  <2> QED
    BY <2>1, <2>3, Zenon DEF Orderly
<1> QED
  BY <1>1, <1>2, <1>3, <1>4, MetadataTables DEF FindingNames, Changed

\* The tables of the simplified lineage (models.py).
LEMMA SimplifiedOrderly == \A t \in SimplifiedNames \ Changed : Orderly(t, metadata[t].refs)
<1>1. Orderly("raw_rows", SimplifiedTables["raw_rows"].refs)
  <2>1. SimplifiedTables["raw_rows"].refs = Owned \union Cascades({"source_files"})
    BY TableFields DEF SimplifiedTables
  <2>2. /\ Follows("raw_rows", "organizations")
        /\ Follows("raw_rows", "projects")
        /\ Follows("raw_rows", "source_files")
    BY Revised, TableNames, TablePlaces DEF Follows, Needs
  <2>3. /\ Orderly("raw_rows", Owned)
        /\ Orderly("raw_rows", Cascades({"source_files"}))
    BY <2>2, ProjectTables, OrderlyOf, OrderlyOwned
  <2> QED
    BY <2>1, <2>3, Zenon DEF Orderly
<1>2. Orderly("import_batches", SimplifiedTables["import_batches"].refs)
  <2>1. SimplifiedTables["import_batches"].refs = Owned \union Cascades({"source_files"}) \union
            {OptionalRef("dataset_snapshots", "set null")}
    BY TableFields DEF SimplifiedTables
  <2>2. /\ Follows("import_batches", "organizations")
        /\ Follows("import_batches", "projects")
        /\ Follows("import_batches", "source_files")
        /\ Follows("import_batches", "dataset_snapshots")
    BY Revised, TableNames, TablePlaces DEF Follows, Needs
  <2>3. /\ Orderly("import_batches", Owned)
        /\ Orderly("import_batches", Cascades({"source_files"}))
        /\ Orderly("import_batches", {OptionalRef("dataset_snapshots", "set null")})
    BY <2>2, ProjectTables, OrderlyNull, OrderlyOf, OrderlyOwned
  <2> QED
    BY <2>1, <2>3, Zenon DEF Orderly
<1>3. Orderly("import_column_mappings", SimplifiedTables["import_column_mappings"].refs)
  <2>1. SimplifiedTables["import_column_mappings"].refs = Owned
    BY TableFields DEF SimplifiedTables
  <2>2. /\ Follows("import_column_mappings", "organizations")
        /\ Follows("import_column_mappings", "projects")
    BY Revised, TableNames, TablePlaces DEF Follows, Needs
  <2> QED
    BY <2>1, <2>2, ProjectTables, OrderlyOwned
<1>4. Orderly("wbs_nodes", SimplifiedTables["wbs_nodes"].refs)
  <2>1. SimplifiedTables["wbs_nodes"].refs = Owned \union Cascades({"dataset_snapshots"}) \union
            {OptionalRef("raw_rows", "set null")}
    BY TableFields DEF SimplifiedTables, SimplifiedFact
  <2>2. /\ Follows("wbs_nodes", "organizations")
        /\ Follows("wbs_nodes", "projects")
        /\ Follows("wbs_nodes", "dataset_snapshots")
        /\ Follows("wbs_nodes", "raw_rows")
    BY Revised, TableNames, TablePlaces DEF Follows, Needs
  <2>3. /\ Orderly("wbs_nodes", Owned)
        /\ Orderly("wbs_nodes", Cascades({"dataset_snapshots"}))
        /\ Orderly("wbs_nodes", {OptionalRef("raw_rows", "set null")})
    BY <2>2, ProjectTables, OrderlyNull, OrderlyOf, OrderlyOwned
  <2> QED
    BY <2>1, <2>3, Zenon DEF Orderly
<1>5. Orderly("budget_records", SimplifiedTables["budget_records"].refs)
  <2>1. SimplifiedTables["budget_records"].refs = Owned \union Cascades({"dataset_snapshots"})
            \union {OptionalRef("raw_rows", "set null")}
    BY TableFields DEF SimplifiedTables, SimplifiedFact
  <2>2. /\ Follows("budget_records", "organizations")
        /\ Follows("budget_records", "projects")
        /\ Follows("budget_records", "dataset_snapshots")
        /\ Follows("budget_records", "raw_rows")
    BY Revised, TableNames, TablePlaces DEF Follows, Needs
  <2>3. /\ Orderly("budget_records", Owned)
        /\ Orderly("budget_records", Cascades({"dataset_snapshots"}))
        /\ Orderly("budget_records", {OptionalRef("raw_rows", "set null")})
    BY <2>2, ProjectTables, OrderlyNull, OrderlyOf, OrderlyOwned
  <2> QED
    BY <2>1, <2>3, Zenon DEF Orderly
<1>6. Orderly("cost_records", SimplifiedTables["cost_records"].refs)
  <2>1. SimplifiedTables["cost_records"].refs = Owned \union Cascades({"dataset_snapshots"})
            \union {OptionalRef("raw_rows", "set null")}
    BY TableFields DEF SimplifiedTables, SimplifiedFact
  <2>2. /\ Follows("cost_records", "organizations")
        /\ Follows("cost_records", "projects")
        /\ Follows("cost_records", "dataset_snapshots")
        /\ Follows("cost_records", "raw_rows")
    BY Revised, TableNames, TablePlaces DEF Follows, Needs
  <2>3. /\ Orderly("cost_records", Owned)
        /\ Orderly("cost_records", Cascades({"dataset_snapshots"}))
        /\ Orderly("cost_records", {OptionalRef("raw_rows", "set null")})
    BY <2>2, ProjectTables, OrderlyNull, OrderlyOf, OrderlyOwned
  <2> QED
    BY <2>1, <2>3, Zenon DEF Orderly
<1>7. Orderly("commitment_records", SimplifiedTables["commitment_records"].refs)
  <2>1. SimplifiedTables["commitment_records"].refs = Owned \union
            Cascades({"dataset_snapshots"}) \union {OptionalRef("raw_rows", "set null")}
    BY TableFields DEF SimplifiedTables, SimplifiedFact
  <2>2. /\ Follows("commitment_records", "organizations")
        /\ Follows("commitment_records", "projects")
        /\ Follows("commitment_records", "dataset_snapshots")
        /\ Follows("commitment_records", "raw_rows")
    BY Revised, TableNames, TablePlaces DEF Follows, Needs
  <2>3. /\ Orderly("commitment_records", Owned)
        /\ Orderly("commitment_records", Cascades({"dataset_snapshots"}))
        /\ Orderly("commitment_records", {OptionalRef("raw_rows", "set null")})
    BY <2>2, ProjectTables, OrderlyNull, OrderlyOf, OrderlyOwned
  <2> QED
    BY <2>1, <2>3, Zenon DEF Orderly
<1>8. Orderly("schedule_activities", SimplifiedTables["schedule_activities"].refs)
  <2>1. SimplifiedTables["schedule_activities"].refs = Owned \union
            Cascades({"dataset_snapshots"}) \union {OptionalRef("raw_rows", "set null")}
    BY TableFields DEF SimplifiedTables, SimplifiedFact
  <2>2. /\ Follows("schedule_activities", "organizations")
        /\ Follows("schedule_activities", "projects")
        /\ Follows("schedule_activities", "dataset_snapshots")
        /\ Follows("schedule_activities", "raw_rows")
    BY Revised, TableNames, TablePlaces DEF Follows, Needs
  <2>3. /\ Orderly("schedule_activities", Owned)
        /\ Orderly("schedule_activities", Cascades({"dataset_snapshots"}))
        /\ Orderly("schedule_activities", {OptionalRef("raw_rows", "set null")})
    BY <2>2, ProjectTables, OrderlyNull, OrderlyOf, OrderlyOwned
  <2> QED
    BY <2>1, <2>3, Zenon DEF Orderly
<1>9. Orderly("progress_records", SimplifiedTables["progress_records"].refs)
  <2>1. SimplifiedTables["progress_records"].refs = Owned \union Cascades({"dataset_snapshots"})
            \union {OptionalRef("raw_rows", "set null")}
    BY TableFields DEF SimplifiedTables, SimplifiedFact
  <2>2. /\ Follows("progress_records", "organizations")
        /\ Follows("progress_records", "projects")
        /\ Follows("progress_records", "dataset_snapshots")
        /\ Follows("progress_records", "raw_rows")
    BY Revised, TableNames, TablePlaces DEF Follows, Needs
  <2>3. /\ Orderly("progress_records", Owned)
        /\ Orderly("progress_records", Cascades({"dataset_snapshots"}))
        /\ Orderly("progress_records", {OptionalRef("raw_rows", "set null")})
    BY <2>2, ProjectTables, OrderlyNull, OrderlyOf, OrderlyOwned
  <2> QED
    BY <2>1, <2>3, Zenon DEF Orderly
<1> QED
  BY <1>1, <1>2, <1>3, <1>4, <1>5, <1>6, <1>7, <1>8, <1>9, MetadataTables DEF SimplifiedNames,
      Changed

\* The tables of health snapshots and of users (models.py).
LEMMA HealthAndUserOrderly == \A t \in HealthAndUserNames \ Changed : Orderly(t, metadata[t].refs)
<1>1. Orderly("users", HealthAndUserTables["users"].refs)
  <2>1. HealthAndUserTables["users"].refs = {}
    BY TableFields DEF HealthAndUserTables
  <2> QED
    BY <2>1 DEF Orderly
<1>2. Orderly("organization_members", HealthAndUserTables["organization_members"].refs)
  <2>1. HealthAndUserTables["organization_members"].refs = Cascades({"organizations", "users"})
    BY TableFields DEF HealthAndUserTables
  <2>2. /\ Follows("organization_members", "organizations")
        /\ Follows("organization_members", "users")
    BY Revised, TableNames, TablePlaces DEF Follows, Needs
  <2> QED
    BY <2>1, <2>2, ProjectTables, OrderlyCascades
<1>3. Orderly("project_members", HealthAndUserTables["project_members"].refs)
  <2>1. HealthAndUserTables["project_members"].refs = Cascades({"projects", "users"})
    BY TableFields DEF HealthAndUserTables
  <2>2. /\ Follows("project_members", "projects")
        /\ Follows("project_members", "users")
    BY Revised, TableNames, TablePlaces DEF Follows, Needs
  <2> QED
    BY <2>1, <2>2, ProjectTables, OrderlyCascades
<1> QED
  BY <1>1, <1>2, <1>3, MetadataTables DEF HealthAndUserNames, Changed

\* The tables of the AI layer (ai_models.py).
LEMMA AIOrderly == \A t \in AINames \ Changed : Orderly(t, metadata[t].refs)
<1>1. Orderly("ai_conversations", AITables["ai_conversations"].refs)
  <2>1. AITables["ai_conversations"].refs = Owned \union Users
    BY TableFields DEF AITables
  <2>2. /\ Follows("ai_conversations", "organizations")
        /\ Follows("ai_conversations", "projects")
        /\ Follows("ai_conversations", "users")
    BY Revised, TableNames, TablePlaces DEF Follows, Needs
  <2>3. /\ Orderly("ai_conversations", Owned)
        /\ Orderly("ai_conversations", Users)
    BY <2>2, ProjectTables, OrderlyOwned, OrderlyUsers
  <2> QED
    BY <2>1, <2>3, Zenon DEF Orderly
<1>2. Orderly("ai_messages", AITables["ai_messages"].refs)
  <2>1. AITables["ai_messages"].refs = Cascades({"ai_conversations"})
    BY TableFields DEF AITables
  <2>2. /\ Follows("ai_messages", "ai_conversations")
    BY Revised, TableNames, TablePlaces DEF Follows, Needs
  <2> QED
    BY <2>1, <2>2, ProjectTables, OrderlyOf
<1>3. Orderly("ai_insights", AITables["ai_insights"].refs)
  <2>1. AITables["ai_insights"].refs = Owned \union Cascades({"analysis_runs"})
    BY TableFields DEF AITables
  <2>2. /\ Follows("ai_insights", "organizations")
        /\ Follows("ai_insights", "projects")
        /\ Follows("ai_insights", "analysis_runs")
    BY Revised, TableNames, TablePlaces DEF Follows, Needs
  <2>3. /\ Orderly("ai_insights", Owned)
        /\ Orderly("ai_insights", Cascades({"analysis_runs"}))
    BY <2>2, ProjectTables, OrderlyOf, OrderlyOwned
  <2> QED
    BY <2>1, <2>3, Zenon DEF Orderly
<1> QED
  BY <1>1, <1>2, <1>3, MetadataTables DEF AINames, Changed

\* The tables of actions (action_models.py).
LEMMA ActionOrderly == \A t \in ActionNames \ Changed : Orderly(t, metadata[t].refs)
<1>1. Orderly("finding_actions", ActionTables["finding_actions"].refs)
  <2>1. ActionTables["finding_actions"].refs = Owned \union Cascades({"findings"})
    BY TableFields DEF ActionTables
  <2>2. /\ Follows("finding_actions", "organizations")
        /\ Follows("finding_actions", "projects")
        /\ Follows("finding_actions", "findings")
    BY Revised, TableNames, TablePlaces DEF Follows, Needs
  <2>3. /\ Orderly("finding_actions", Owned)
        /\ Orderly("finding_actions", Cascades({"findings"}))
    BY <2>2, ProjectTables, OrderlyOf, OrderlyOwned
  <2> QED
    BY <2>1, <2>3, Zenon DEF Orderly
<1>2. Orderly("finding_action_history", ActionTables["finding_action_history"].refs)
  <2>1. ActionTables["finding_action_history"].refs = Cascades({"organizations",
            "finding_actions"})
    BY TableFields DEF ActionTables
  <2>2. /\ Follows("finding_action_history", "organizations")
        /\ Follows("finding_action_history", "finding_actions")
    BY Revised, TableNames, TablePlaces DEF Follows, Needs
  <2> QED
    BY <2>1, <2>2, ProjectTables, OrderlyCascades
<1> QED
  BY <1>1, <1>2, MetadataTables DEF ActionNames, Changed

\* The tables of approvals and escalations (governance_models.py).
LEMMA GovernanceOrderly == \A t \in GovernanceNames \ Changed : Orderly(t, metadata[t].refs)
<1>1. Orderly("project_governance_policies", GovernanceTables["project_governance_policies"].refs)
  <2>1. GovernanceTables["project_governance_policies"].refs = Owned
    BY TableFields DEF GovernanceTables
  <2>2. /\ Follows("project_governance_policies", "organizations")
        /\ Follows("project_governance_policies", "projects")
    BY Revised, TableNames, TablePlaces DEF Follows, Needs
  <2> QED
    BY <2>1, <2>2, ProjectTables, OrderlyOwned
<1>2. Orderly("finding_closure_approvals", GovernanceTables["finding_closure_approvals"].refs)
  <2>1. GovernanceTables["finding_closure_approvals"].refs = Owned \union Cascades({"findings"})
            \union Users
    BY TableFields DEF GovernanceTables
  <2>2. /\ Follows("finding_closure_approvals", "organizations")
        /\ Follows("finding_closure_approvals", "projects")
        /\ Follows("finding_closure_approvals", "findings")
        /\ Follows("finding_closure_approvals", "users")
    BY Revised, TableNames, TablePlaces DEF Follows, Needs
  <2>3. /\ Orderly("finding_closure_approvals", Owned)
        /\ Orderly("finding_closure_approvals", Cascades({"findings"}))
        /\ Orderly("finding_closure_approvals", Users)
    BY <2>2, ProjectTables, OrderlyOf, OrderlyOwned, OrderlyUsers
  <2> QED
    BY <2>1, <2>3, Zenon DEF Orderly
<1>3. Orderly("governance_escalations", GovernanceTables["governance_escalations"].refs)
  <2>1. GovernanceTables["governance_escalations"].refs = Owned \union Cascades({"findings"})
            \union Users \union {OptionalRef("finding_actions", "set null")}
    BY TableFields DEF GovernanceTables
  <2>2. /\ Follows("governance_escalations", "organizations")
        /\ Follows("governance_escalations", "projects")
        /\ Follows("governance_escalations", "findings")
        /\ Follows("governance_escalations", "users")
        /\ Follows("governance_escalations", "finding_actions")
    BY Revised, TableNames, TablePlaces DEF Follows, Needs
  <2>3. /\ Orderly("governance_escalations", Owned)
        /\ Orderly("governance_escalations", Cascades({"findings"}))
        /\ Orderly("governance_escalations", Users)
        /\ Orderly("governance_escalations", {OptionalRef("finding_actions", "set null")})
    BY <2>2, ProjectTables, OrderlyNull, OrderlyOf, OrderlyOwned, OrderlyUsers
  <2> QED
    BY <2>1, <2>3, Zenon DEF Orderly
<1> QED
  BY <1>1, <1>2, <1>3, MetadataTables DEF GovernanceNames, Changed

\* The tables of reports and jobs.
LEMMA ReportAndJobOrderly == \A t \in ReportAndJobNames \ Changed : Orderly(t, metadata[t].refs)
<1>1. Orderly("report_packages", ReportAndJobTables["report_packages"].refs)
  <2>1. ReportAndJobTables["report_packages"].refs = Owned \union Users \union
            {Ref("analysis_runs", "restrict")}
    BY TableFields DEF ReportAndJobTables
  <2>2. /\ Follows("report_packages", "organizations")
        /\ Follows("report_packages", "projects")
        /\ Follows("report_packages", "users")
        /\ Follows("report_packages", "analysis_runs")
    BY Revised, TableNames, TablePlaces DEF Follows, Needs
  <2>3. /\ Orderly("report_packages", Owned)
        /\ Orderly("report_packages", Users)
        /\ Orderly("report_packages", {Ref("analysis_runs", "restrict")})
    BY <2>2, ProjectTables, OrderlyOne, OrderlyOwned, OrderlyUsers
  <2> QED
    BY <2>1, <2>3, Zenon DEF Orderly
<1>2. Orderly("analysis_jobs", ReportAndJobTables["analysis_jobs"].refs)
  <2>1. ReportAndJobTables["analysis_jobs"].refs = Owned \union {OptionalRef("analysis_runs",
            "set null")}
    BY TableFields DEF ReportAndJobTables
  <2>2. /\ Follows("analysis_jobs", "organizations")
        /\ Follows("analysis_jobs", "projects")
        /\ Follows("analysis_jobs", "analysis_runs")
    BY Revised, TableNames, TablePlaces DEF Follows, Needs
  <2>3. /\ Orderly("analysis_jobs", Owned)
        /\ Orderly("analysis_jobs", {OptionalRef("analysis_runs", "set null")})
    BY <2>2, ProjectTables, OrderlyNull, OrderlyOwned
  <2> QED
    BY <2>1, <2>3, Zenon DEF Orderly
<1> QED
  BY <1>1, <1>2, MetadataTables DEF ReportAndJobNames, Changed

\* The tables of governed snapshots and their batches.
LEMMA GovernedSnapshotOrderly == \A t \in GovernedSnapshotNames \ Changed :
    Orderly(t, metadata[t].refs)
<1>1. Orderly("governed_mapping_profile_versions",
          GovernedSnapshotTables["governed_mapping_profile_versions"].refs)
  <2>1. GovernedSnapshotTables["governed_mapping_profile_versions"].refs = {}
    BY TableFields DEF GovernedSnapshotTables
  <2> QED
    BY <2>1 DEF Orderly
<1>2. Orderly("governed_import_batches", GovernedSnapshotTables["governed_import_batches"].refs)
  <2>1. GovernedSnapshotTables["governed_import_batches"].refs = Owned \union
            Cascades({"governed_dataset_snapshots"}) \union
            {Ref("governed_mapping_profile_versions", "restrict")}
    BY TableFields DEF GovernedSnapshotTables
  <2>2. /\ Follows("governed_import_batches", "organizations")
        /\ Follows("governed_import_batches", "projects")
        /\ Follows("governed_import_batches", "governed_dataset_snapshots")
        /\ Follows("governed_import_batches", "governed_mapping_profile_versions")
    BY Revised, TableNames, TablePlaces DEF Follows, Needs
  <2>3. /\ Orderly("governed_import_batches", Owned)
        /\ Orderly("governed_import_batches", Cascades({"governed_dataset_snapshots"}))
        /\ Orderly("governed_import_batches",
               {Ref("governed_mapping_profile_versions", "restrict")})
    BY <2>2, ProjectTables, OrderlyOf, OrderlyOne, OrderlyOwned
  <2> QED
    BY <2>1, <2>3, Zenon DEF Orderly
<1> QED
  BY <1>1, <1>2, MetadataTables DEF GovernedSnapshotNames, Changed

\* The tables of governed rows.
LEMMA GovernedRowOrderly == \A t \in GovernedRowNames \ Changed : Orderly(t, metadata[t].refs)
<1>1. Orderly("governed_dataset_domain_statuses",
          GovernedRowTables["governed_dataset_domain_statuses"].refs)
  <2>1. GovernedRowTables["governed_dataset_domain_statuses"].refs = Owned \union
            Cascades({"governed_dataset_snapshots"})
    BY TableFields DEF GovernedRowTables, OfSnapshot
  <2>2. /\ Follows("governed_dataset_domain_statuses", "organizations")
        /\ Follows("governed_dataset_domain_statuses", "projects")
        /\ Follows("governed_dataset_domain_statuses", "governed_dataset_snapshots")
    BY Revised, TableNames, TablePlaces DEF Follows, Needs
  <2>3. /\ Orderly("governed_dataset_domain_statuses", Owned)
        /\ Orderly("governed_dataset_domain_statuses", Cascades({"governed_dataset_snapshots"}))
    BY <2>2, ProjectTables, OrderlyOf, OrderlyOwned
  <2> QED
    BY <2>1, <2>3, Zenon DEF Orderly
<1>2. Orderly("governed_raw_rows", GovernedRowTables["governed_raw_rows"].refs)
  <2>1. GovernedRowTables["governed_raw_rows"].refs = Owned \union
            Cascades({"governed_dataset_snapshots"}) \union {Ref("governed_import_batches",
            "no action")}
    BY TableFields DEF GovernedRowTables, OfSnapshot
  <2>2. /\ Follows("governed_raw_rows", "organizations")
        /\ Follows("governed_raw_rows", "projects")
        /\ Follows("governed_raw_rows", "governed_dataset_snapshots")
        /\ Follows("governed_raw_rows", "governed_import_batches")
    BY Revised, TableNames, TablePlaces DEF Follows, Needs
  <2>3. /\ Orderly("governed_raw_rows", Owned)
        /\ Orderly("governed_raw_rows", Cascades({"governed_dataset_snapshots"}))
        /\ Orderly("governed_raw_rows", {Ref("governed_import_batches", "no action")})
    BY <2>2, ProjectTables, OrderlyOf, OrderlyOne, OrderlyOwned
  <2> QED
    BY <2>1, <2>3, Zenon DEF Orderly
<1>3. Orderly("governed_wbs_nodes", GovernedRowTables["governed_wbs_nodes"].refs)
  <2>1. GovernedRowTables["governed_wbs_nodes"].refs = Owned \union
            Cascades({"governed_dataset_snapshots"}) \union {Ref("governed_raw_rows",
            "no action"), OptionalRef("governed_wbs_nodes", "no action")}
    BY TableFields DEF GovernedRowTables, OfSnapshot
  <2>2. /\ Follows("governed_wbs_nodes", "organizations")
        /\ Follows("governed_wbs_nodes", "projects")
        /\ Follows("governed_wbs_nodes", "governed_dataset_snapshots")
        /\ Follows("governed_wbs_nodes", "governed_raw_rows")
        /\ Follows("governed_wbs_nodes", "governed_wbs_nodes")
    BY Revised, TableNames, TablePlaces DEF Follows, Needs
  <2>3. /\ Orderly("governed_wbs_nodes", Owned)
        /\ Orderly("governed_wbs_nodes", Cascades({"governed_dataset_snapshots"}))
        /\ Orderly("governed_wbs_nodes", {Ref("governed_raw_rows", "no action")})
        /\ Orderly("governed_wbs_nodes", {OptionalRef("governed_wbs_nodes", "no action")})
    BY <2>2, ProjectTables, OrderlyOf, OrderlyOne, OrderlyOwned
  <2> QED
    BY <2>1, <2>3, Zenon DEF Orderly
<1> QED
  BY <1>1, <1>2, <1>3, MetadataTables DEF GovernedRowNames, Changed

\* The tables of governed facts.
LEMMA GovernedFactOrderly == \A t \in GovernedFactNames \ Changed : Orderly(t, metadata[t].refs)
<1>1. Orderly("governed_budget_records", GovernedFactTables["governed_budget_records"].refs)
  <2>1. GovernedFactTables["governed_budget_records"].refs = Owned \union
            Cascades({"governed_dataset_snapshots"}) \union {Ref("governed_raw_rows",
            "no action"), OptionalRef("governed_wbs_nodes", "no action")}
    BY TableFields DEF GovernedFactTables, GovernedFact, OfSnapshot
  <2>2. /\ Follows("governed_budget_records", "organizations")
        /\ Follows("governed_budget_records", "projects")
        /\ Follows("governed_budget_records", "governed_dataset_snapshots")
        /\ Follows("governed_budget_records", "governed_raw_rows")
        /\ Follows("governed_budget_records", "governed_wbs_nodes")
    BY Revised, TableNames, TablePlaces DEF Follows, Needs
  <2>3. /\ Orderly("governed_budget_records", Owned)
        /\ Orderly("governed_budget_records", Cascades({"governed_dataset_snapshots"}))
        /\ Orderly("governed_budget_records", {Ref("governed_raw_rows", "no action")})
        /\ Orderly("governed_budget_records", {OptionalRef("governed_wbs_nodes", "no action")})
    BY <2>2, ProjectTables, OrderlyOf, OrderlyOne, OrderlyOwned
  <2> QED
    BY <2>1, <2>3, Zenon DEF Orderly
<1>2. Orderly("governed_actual_cost_records",
          GovernedFactTables["governed_actual_cost_records"].refs)
  <2>1. GovernedFactTables["governed_actual_cost_records"].refs = Owned \union
            Cascades({"governed_dataset_snapshots"}) \union {Ref("governed_raw_rows",
            "no action"), OptionalRef("governed_wbs_nodes", "no action")}
    BY TableFields DEF GovernedFactTables, GovernedFact, OfSnapshot
  <2>2. /\ Follows("governed_actual_cost_records", "organizations")
        /\ Follows("governed_actual_cost_records", "projects")
        /\ Follows("governed_actual_cost_records", "governed_dataset_snapshots")
        /\ Follows("governed_actual_cost_records", "governed_raw_rows")
        /\ Follows("governed_actual_cost_records", "governed_wbs_nodes")
    BY Revised, TableNames, TablePlaces DEF Follows, Needs
  <2>3. /\ Orderly("governed_actual_cost_records", Owned)
        /\ Orderly("governed_actual_cost_records", Cascades({"governed_dataset_snapshots"}))
        /\ Orderly("governed_actual_cost_records", {Ref("governed_raw_rows", "no action")})
        /\ Orderly("governed_actual_cost_records", {OptionalRef("governed_wbs_nodes", "no action")})
    BY <2>2, ProjectTables, OrderlyOf, OrderlyOne, OrderlyOwned
  <2> QED
    BY <2>1, <2>3, Zenon DEF Orderly
<1>3. Orderly("governed_commitment_records", GovernedFactTables["governed_commitment_records"].refs)
  <2>1. GovernedFactTables["governed_commitment_records"].refs = Owned \union
            Cascades({"governed_dataset_snapshots"}) \union {Ref("governed_raw_rows",
            "no action"), OptionalRef("governed_wbs_nodes", "no action")}
    BY TableFields DEF GovernedFactTables, GovernedFact, OfSnapshot
  <2>2. /\ Follows("governed_commitment_records", "organizations")
        /\ Follows("governed_commitment_records", "projects")
        /\ Follows("governed_commitment_records", "governed_dataset_snapshots")
        /\ Follows("governed_commitment_records", "governed_raw_rows")
        /\ Follows("governed_commitment_records", "governed_wbs_nodes")
    BY Revised, TableNames, TablePlaces DEF Follows, Needs
  <2>3. /\ Orderly("governed_commitment_records", Owned)
        /\ Orderly("governed_commitment_records", Cascades({"governed_dataset_snapshots"}))
        /\ Orderly("governed_commitment_records", {Ref("governed_raw_rows", "no action")})
        /\ Orderly("governed_commitment_records", {OptionalRef("governed_wbs_nodes", "no action")})
    BY <2>2, ProjectTables, OrderlyOf, OrderlyOne, OrderlyOwned
  <2> QED
    BY <2>1, <2>3, Zenon DEF Orderly
<1>4. Orderly("governed_schedule_activities",
          GovernedFactTables["governed_schedule_activities"].refs)
  <2>1. GovernedFactTables["governed_schedule_activities"].refs = Owned \union
            Cascades({"governed_dataset_snapshots"}) \union {Ref("governed_raw_rows",
            "no action"), OptionalRef("governed_wbs_nodes", "no action")}
    BY TableFields DEF GovernedFactTables, GovernedFact, OfSnapshot
  <2>2. /\ Follows("governed_schedule_activities", "organizations")
        /\ Follows("governed_schedule_activities", "projects")
        /\ Follows("governed_schedule_activities", "governed_dataset_snapshots")
        /\ Follows("governed_schedule_activities", "governed_raw_rows")
        /\ Follows("governed_schedule_activities", "governed_wbs_nodes")
    BY Revised, TableNames, TablePlaces DEF Follows, Needs
  <2>3. /\ Orderly("governed_schedule_activities", Owned)
        /\ Orderly("governed_schedule_activities", Cascades({"governed_dataset_snapshots"}))
        /\ Orderly("governed_schedule_activities", {Ref("governed_raw_rows", "no action")})
        /\ Orderly("governed_schedule_activities", {OptionalRef("governed_wbs_nodes", "no action")})
    BY <2>2, ProjectTables, OrderlyOf, OrderlyOne, OrderlyOwned
  <2> QED
    BY <2>1, <2>3, Zenon DEF Orderly
<1>5. Orderly("governed_progress_records", GovernedFactTables["governed_progress_records"].refs)
  <2>1. GovernedFactTables["governed_progress_records"].refs = Owned \union
            Cascades({"governed_dataset_snapshots"}) \union {Ref("governed_raw_rows",
            "no action"), OptionalRef("governed_wbs_nodes", "no action")}
    BY TableFields DEF GovernedFactTables, GovernedFact, OfSnapshot
  <2>2. /\ Follows("governed_progress_records", "organizations")
        /\ Follows("governed_progress_records", "projects")
        /\ Follows("governed_progress_records", "governed_dataset_snapshots")
        /\ Follows("governed_progress_records", "governed_raw_rows")
        /\ Follows("governed_progress_records", "governed_wbs_nodes")
    BY Revised, TableNames, TablePlaces DEF Follows, Needs
  <2>3. /\ Orderly("governed_progress_records", Owned)
        /\ Orderly("governed_progress_records", Cascades({"governed_dataset_snapshots"}))
        /\ Orderly("governed_progress_records", {Ref("governed_raw_rows", "no action")})
        /\ Orderly("governed_progress_records", {OptionalRef("governed_wbs_nodes", "no action")})
    BY <2>2, ProjectTables, OrderlyOf, OrderlyOne, OrderlyOwned
  <2> QED
    BY <2>1, <2>3, Zenon DEF Orderly
<1> QED
  BY <1>1, <1>2, <1>3, <1>4, <1>5, MetadataTables DEF GovernedFactNames, Changed

\* The keys that a later revision adds to a table of an earlier one, or after
\* the table they refer to.
AddedLater(F, t, u) ==
    \/ t = "analysis_runs" /\ u = "governed_dataset_snapshots" /\ "20260825_0010" \in F
    \/ /\ t = "governed_dataset_snapshots" /\ u = "governed_import_batches"
       /\ "20260825_0009" \in F

FormOrderly(F, t) ==
    \A ref \in FormAt(F, t).refs :
        (Follows(t, ref.table) \/ AddedLater(F, t, ref.table)) /\ LetsGo(t, ref)

\* A table whose keys are orderly in every form.
LEMMA OrderlyForm ==
    ASSUME NEW F, NEW t, NEW R, FormAt(F, t).refs = R, Orderly(t, R)
    PROVE  FormOrderly(F, t)
BY Zenon DEF Orderly, FormOrderly

\* The keys of runs: two of them are changed and added later.
LEMMA RunsOrderly == ASSUME NEW F PROVE FormOrderly(F, "analysis_runs")
<1> DEFINE Runs(R) == Orderly("analysis_runs", R)
<1>1. FormAt(F, "analysis_runs").refs = RunRefs(F)
  BY ChangedRefs
<1>2. /\ Follows("analysis_runs", "organizations")
      /\ Follows("analysis_runs", "projects")
      /\ Follows("analysis_runs", "dataset_snapshots")
      /\ Follows("analysis_runs", "rule_catalogue_versions")
  BY Revised, TableNames, TablePlaces DEF Follows, Needs
<1>3. /\ Runs(Owned)
      /\ Runs({Ref("rule_catalogue_versions", "restrict")})
      /\ Runs({Ref("dataset_snapshots", "restrict")})
      /\ Runs({OptionalRef("dataset_snapshots", "restrict")})
  BY <1>2, ProjectTables, OrderlyOwned, OrderlyOne
<1>4. LetsGo("analysis_runs", OptionalRef("governed_dataset_snapshots", "restrict"))
  BY ProjectTables, OtherGoes
<1>5. OptionalRef("governed_dataset_snapshots", "restrict").table = "governed_dataset_snapshots"
  BY RefTables
<1>6. CASE "20260825_0010" \in F
  <2>1. RunRefs(F) = Owned \union {Ref("rule_catalogue_versions", "restrict")}
           \union {OptionalRef("dataset_snapshots", "restrict"),
                   OptionalRef("governed_dataset_snapshots", "restrict")}
    BY <1>6 DEF RunRefs
  <2> QED
    BY <1>1, <1>3, <1>4, <1>5, <1>6, <2>1, Zenon DEF FormOrderly, AddedLater, Orderly
<1>7. CASE "20260825_0010" \notin F
  <2>1. RunRefs(F) = Owned \union {Ref("rule_catalogue_versions", "restrict")}
           \union {Ref("dataset_snapshots", "restrict")}
    BY <1>7 DEF RunRefs
  <2> QED
    BY <1>1, <1>3, <2>1, Zenon DEF FormOrderly, Orderly
<1> QED
  BY <1>6, <1>7

\* The keys of governed snapshots: the one to the batches is added later.
LEMMA GovernedSnapshotsOrderly ==
    ASSUME NEW F
    PROVE  FormOrderly(F, "governed_dataset_snapshots")
<1> DEFINE Snapshots(R) == Orderly("governed_dataset_snapshots", R)
<1>1. FormAt(F, "governed_dataset_snapshots").refs = SnapshotRefs(F)
  BY ChangedRefs
<1>2. /\ Follows("governed_dataset_snapshots", "organizations")
      /\ Follows("governed_dataset_snapshots", "projects")
      /\ Follows("governed_dataset_snapshots", "source_files")
      /\ Follows("governed_dataset_snapshots", "governed_mapping_profile_versions")
  BY Revised, TableNames, TablePlaces DEF Follows, Needs
<1>3. /\ Snapshots(Owned)
      /\ Snapshots({Ref("source_files", "restrict")})
      /\ Snapshots({Ref("governed_mapping_profile_versions", "restrict")})
  BY <1>2, ProjectTables, OrderlyOwned, OrderlyOne
<1>4. LetsGo("governed_dataset_snapshots", OptionalRef("governed_import_batches", "no action"))
  BY ProjectTables, OtherGoes
<1>5. OptionalRef("governed_import_batches", "no action").table = "governed_import_batches"
  BY RefTables
<1>6. CASE "20260825_0009" \in F
  <2>1. SnapshotRefs(F) = Owned
           \union {Ref("source_files", "restrict"),
                   Ref("governed_mapping_profile_versions", "restrict")}
           \union {OptionalRef("governed_import_batches", "no action")}
    BY <1>6 DEF SnapshotRefs
  <2> QED
    BY <1>1, <1>3, <1>4, <1>5, <1>6, <2>1, Zenon DEF FormOrderly, AddedLater, Orderly
<1>7. CASE "20260825_0009" \notin F
  <2>1. SnapshotRefs(F) = Owned
           \union {Ref("source_files", "restrict"),
                   Ref("governed_mapping_profile_versions", "restrict")}
    BY <1>7 DEF SnapshotRefs
  <2> QED
    BY <1>1, <1>3, <2>1, Zenon DEF FormOrderly, Orderly
<1> QED
  BY <1>6, <1>7

\* The keys of every table, whatever revisions have been applied.
LEMMA FormsOrderly ==
    \A F, t : t \in Tables => FormOrderly(F, t)
<1> SUFFICES ASSUME NEW F, NEW t \in Tables
             PROVE  FormOrderly(F, t)
  OBVIOUS
<1>1. CASE t = "health_snapshots"
  <2>1. FormAt(F, t).refs = Owned \union Cascades({"analysis_runs"})
    BY <1>1, ChangedRefs DEF HealthRefs
  <2>2. /\ Follows("health_snapshots", "organizations")
        /\ Follows("health_snapshots", "projects")
        /\ Follows("health_snapshots", "analysis_runs")
    BY Revised, TableNames, TablePlaces DEF Follows, Needs
  <2>3. Orderly(t, Owned) /\ Orderly(t, Cascades({"analysis_runs"}))
    BY <1>1, <2>2, ProjectTables, OrderlyOwned, OrderlyOf
  <2> QED
    BY <2>1, <2>3, Zenon DEF FormOrderly, Orderly
<1>2. CASE t = "product_events"
  <2>1. FormAt(F, t).refs = EventRefs
    BY <1>2, ChangedRefs
  <2>2. /\ Follows("product_events", "organizations")
        /\ Follows("product_events", "projects")
        /\ Follows("product_events", "analysis_runs")
        /\ Follows("product_events", "findings")
        /\ Follows("product_events", "users")
    BY Revised, TableNames, TablePlaces DEF Follows, Needs
  <2>3. /\ Orderly(t, Cascades({"organizations"}))
        /\ Orderly(t, Users)
    BY <1>2, <2>2, OrderlyOf, OrderlyUsers
  <2>4. \A u \in {"projects", "analysis_runs", "findings"} :
            Orderly(t, {OptionalRef(u, "set null")})
    BY <1>2, <2>2, OrderlyNull
  <2> QED
    BY <2>1, <2>3, <2>4, Zenon DEF FormOrderly, Orderly, EventRefs
<1>3. CASE t = "finding_feedback"
  <2>1. FormAt(F, t).refs = FeedbackRefs
    BY <1>3, ChangedRefs
  <2>2. /\ Follows("finding_feedback", "organizations")
        /\ Follows("finding_feedback", "projects")
        /\ Follows("finding_feedback", "analysis_runs")
        /\ Follows("finding_feedback", "findings")
        /\ Follows("finding_feedback", "users")
    BY Revised, TableNames, TablePlaces DEF Follows, Needs
  <2>3. /\ Orderly(t, Owned) /\ Orderly(t, Users) /\ Orderly(t, Cascades({"analysis_runs"}))
        /\ Orderly(t, {OptionalRef("findings", "cascade")})
    BY <1>3, <2>2, ProjectTables, OrderlyOwned, OrderlyUsers, OrderlyOf, OrderlyOptional
  <2> QED
    BY <2>1, <2>3, Zenon DEF FormOrderly, Orderly, FeedbackRefs
<1>4. CASE t \notin Changed
  <2>1. Orderly(t, metadata[t].refs)
    BY <1>4, CoreOrderly, FindingOrderly, SimplifiedOrderly, GovernedSnapshotOrderly,
       GovernedRowOrderly, GovernedFactOrderly, HealthAndUserOrderly, AIOrderly,
       ReportAndJobOrderly, ActionOrderly, GovernanceOrderly
       DEF Tables, From2, From3, From4, From5, From6, From7, From8, From9, From10
  <2>2. FormAt(F, t) = metadata[t]
    BY <1>4, OtherForms
  <2> QED
    BY <2>1, <2>2, OrderlyForm
<1> QED
  BY <1>1, <1>2, <1>3, <1>4, RunsOrderly, GovernedSnapshotsOrderly DEF Changed

-----------------------------------------------------------------------------
(* Revisions that create tables.                                              *)

\* The schema of some tables, as some revisions leave them.
LEMMA SchemaIs ==
    ASSUME NEW N, NEW F
    PROVE  /\ DOMAIN SchemaOf(N, F) = N
           /\ \A t \in N : SchemaOf(N, F)[t] = FormAt(F, t)
           /\ SchemaOf(N, F) = [t \in N |-> SchemaOf(N, F)[t]]
BY DEF SchemaOf

\* name lists the tables of r at the n places after base.
InOrder(name, n, r, base) ==
    /\ \A i \in 1..n : /\ name[i] \in Tables /\ RevisionOf(name[i]) = r
                       /\ Place[name[i]] = base + i
    /\ \A u \in Tables : RevisionOf(u) = r /\ Place[u] \in (base + 1)..(base + n)
                            => u = name[Place[u] - base]

\* The tables that those may refer to are there.
Ground(N, r, base) ==
    \A u \in Tables :
        RevisionOf(u) \in Needs(r) \/ (RevisionOf(u) = r /\ Place[u] <= base) => u \in N

\* s creates the tables name, which are not there, as the revisions of F leave
\* them; their keys were not added later.
Brings(N, F, n, name, s) ==
    \A i \in 1..n : /\ name[i] \notin N
                    /\ s[i] = Create(name[i], FormAt(F, name[i]))
                    /\ \A u : ~AddedLater(F, name[i], u)

\* The creations of a revision, or of some of its tables, in their order.
LEMMA AllCreated ==
    ASSUME NEW N, N \subseteq Tables, NEW F, NEW r, NEW base \in Nat, NEW n \in Nat, NEW name,
           NEW s, DOMAIN s = 1..n, InOrder(name, n, r, base), Ground(N, r, base),
           Brings(N, F, n, name, s),
           NEW rows, StoredIn(SchemaOf(N, F), rows), NEW M, M = N \union ListedAs(name, n)
    PROVE  /\ Script(Db(SchemaOf(N, F), rows), s) = Db(SchemaOf(M, F), rows)
           /\ StoredIn(SchemaOf(M, F), rows)
<1> DEFINE T == SchemaOf(N, F)
           after == SchemaOf(M, F)
<1>0. \A i \in 1..n : /\ name[i] \notin N
                      /\ s[i] = Create(name[i], FormAt(F, name[i]))
                      /\ \A u : ~AddedLater(F, name[i], u)
  BY DEF Brings
<1>1. /\ DOMAIN T = N /\ \A t \in N : T[t] = FormAt(F, t)
      /\ DOMAIN after = M /\ \A t \in M : after[t] = FormAt(F, t)
      /\ T = [t \in N |-> T[t]] /\ after = [t \in M |-> after[t]]
  BY SchemaIs
<1>2. StoredIn(T, rows)
  OBVIOUS
<1>3. \A i \in 1..n : name[i] \in M
  BY DEF ListedAs
<1> HIDE DEF T, after
<1>4. \A i \in 1..n : s[i] = Create(name[i], after[name[i]])
  BY <1>0, <1>1, <1>3
<1>5. ASSUME NEW i \in 1..n, NEW j \in 1..n, name[i] = name[j]
      PROVE  i = j
  BY <1>5 DEF InOrder
<1>6. ASSUME NEW i \in 1..n, NEW ref \in after[name[i]].refs
      PROVE  ref.table \in DOMAIN T \/ \E j \in 1..i : ref.table = name[j]
  <2> DEFINE u == ref.table
             t == name[i]
  <2>1. t \in Tables /\ RevisionOf(t) = r /\ Place[t] = base + i
    BY DEF InOrder
  <2>2. Follows(t, u)
    <3>1. FormOrderly(F, t) /\ after[t] = FormAt(F, t)
      BY <1>1, <1>3, <2>1, FormsOrderly
    <3> QED
      BY <1>0, <3>1 DEF FormOrderly
  <2>3. u \in Tables /\ (RevisionOf(u) \in Needs(r) \/ (RevisionOf(u) = r /\ Place[u] <= base + i))
    BY <2>1, <2>2 DEF Follows
  <2>4. CASE RevisionOf(u) \in Needs(r)
    BY <1>1, <2>3, <2>4 DEF Ground
  <2>5. CASE RevisionOf(u) = r /\ Place[u] <= base + i
    <3>1. Place[u] \in Nat
      BY <2>3, PlaceType
    <3>2. CASE Place[u] <= base
      BY <1>1, <2>3, <2>5, <3>2 DEF Ground
    <3>3. CASE ~(Place[u] <= base)
      <4>1. Place[u] \in (base + 1)..(base + n) /\ Place[u] - base \in 1..i
        BY <2>5, <3>1, <3>3
      <4>2. u = name[Place[u] - base]
        BY <2>3, <2>5, <4>1 DEF InOrder
      <4> QED
        BY <4>1, <4>2
    <3> QED
      BY <3>2, <3>3
  <2> QED
    BY <2>3, <2>4, <2>5
<1>7. /\ T = [t \in DOMAIN T |-> T[t]]
      /\ \A i \in 1..n : name[i] \notin DOMAIN T /\ \A j \in 1..n : name[i] = name[j] => i = j
      /\ after = [t \in DOMAIN T \union {name[i] : i \in 1..n} |-> after[t]]
      /\ \A t \in DOMAIN T : after[t] = T[t]
  BY <1>0, <1>1, <1>5 DEF ListedAs
<1>8. CreatesEach(T, s, n, name, after)
  BY <1>4, <1>6, <1>7 DEF CreatesEach
<1> QED
  BY <1>2, <1>8, TablesAreCreated DEF T, after

\* name lists the tables of r among N, the n ones before base, in reverse.
InReverse(N, name, n, r, base) ==
    /\ \A i \in 1..n : /\ name[i] \in N /\ RevisionOf(name[i]) = r
                       /\ Place[name[i]] = base - i
    /\ \A u \in N : RevisionOf(u) = r
                       => Place[u] \in (base - n)..(base - 1) /\ u = name[base - Place[u]]

\* The snapshots that runs may have are not dropped before the runs.
RunsFirst(name, n, rows) ==
    \A i \in 1..n :
        \/ name[i] \notin {"dataset_snapshots", "governed_dataset_snapshots"}
        \/ name[i] = "governed_dataset_snapshots" /\ ~rows.governed
        \/ \E j \in 1..i : "analysis_runs" = name[j]

\* No table of N but of r itself refers to one of name.
Unneeded(N, F, r, n, name) ==
    /\ \A u \in N : r \notin Needs(RevisionOf(u))
    /\ \A u \in N : \A i \in 1..n : ~AddedLater(F, u, name[i])

\* The tables of a revision are dropped when those of the revisions that need
\* it are not there.
LEMMA AllDropped ==
    ASSUME NEW N, N \subseteq Tables, NEW F, NEW r, NEW base \in Nat, NEW n \in Nat, NEW name,
           DOMAIN name = 1..n, InReverse(N, name, n, r, base),
           Unneeded(N, F, r, n, name),
           NEW rows, RunsFirst(name, n, rows), StoredIn(SchemaOf(N, F), rows),
           NEW M, M = N \ ListedAs(name, n)
    PROVE  /\ Script(Db(SchemaOf(N, F), rows), DropAll(name))
                 = Db(SchemaOf(M, F), Without(rows, ListedAs(name, n)))
           /\ StoredIn(SchemaOf(M, F), Without(rows, ListedAs(name, n)))
<1> DEFINE T == SchemaOf(N, F)
           after == SchemaOf(M, F)
           s == DropAll(name)
<1>1. /\ DOMAIN T = N /\ \A t \in N : T[t] = FormAt(F, t)
      /\ DOMAIN after = M /\ \A t \in M : after[t] = FormAt(F, t)
      /\ T = [t \in N |-> T[t]] /\ after = [t \in M |-> after[t]]
  BY SchemaIs
<1>2. StoredIn(T, rows)
  OBVIOUS
<1>3. DOMAIN s = 1..n /\ \A i \in 1..n : s[i] = Drop(name[i])
  BY DEF DropAll
<1> HIDE DEF T, after, s
<1>4. ASSUME NEW i \in 1..n, NEW j \in 1..n, name[i] = name[j]
      PROVE  i = j
  BY <1>4 DEF InReverse
<1>5. ASSUME NEW i \in 1..n, NEW u \in N, NEW ref \in T[u].refs, ref.table = name[i]
      PROVE  \E j \in 1..i : u = name[j]
  <2> DEFINE t == name[i]
  <2>1. t \in N /\ t \in Tables /\ RevisionOf(t) = r /\ Place[t] = base - i
    BY DEF InReverse
  <2>2. u \in Tables /\ T[u] = FormAt(F, u) /\ FormOrderly(F, u)
    BY <1>1, FormsOrderly
  <2>3. Follows(u, t)
    BY <1>5, <2>2 DEF FormOrderly, Unneeded
  <2>4. RevisionOf(u) = r /\ Place[t] <= Place[u]
    BY <2>1, <2>3 DEF Follows, Unneeded
  <2>5. Place[u] \in (base - n)..(base - 1) /\ u = name[base - Place[u]]
    BY <2>4 DEF InReverse
  <2>6. base - Place[u] \in 1..i
    BY <2>1, <2>4, <2>5
  <2> QED
    BY <2>5, <2>6
<1>6. after = [t \in N \ {name[i] : i \in 1..n} |-> T[t]]
  BY <1>1 DEF ListedAs
<1>7. \A i \in 1..n : name[i] \in N
  BY DEF InReverse
<1>8. DropsEach(T, rows, s, n, name, after)
  <2>1. \A i \in 1..n : \A u \in DOMAIN T : \A ref \in T[u].refs :
           ref.table = name[i] => \E j \in 1..i : u = name[j]
    BY <1>1, <1>5
  <2>2. \A i \in 1..n : name[i] \in DOMAIN T /\ \A j \in 1..n : name[i] = name[j] => i = j
    BY <1>1, <1>4, <1>7
  <2>3. T = [t \in DOMAIN T |-> T[t]] /\ after = [t \in DOMAIN T \ {name[i] : i \in 1..n} |-> T[t]]
    BY <1>1, <1>6
  <2> QED
    BY <1>3, <2>1, <2>2, <2>3 DEF DropsEach, RunsFirst
<1>9. /\ Script(Db(T, rows), s) = Db(after, Without(rows, ListedAs(name, n)))
      /\ StoredIn(after, Without(rows, ListedAs(name, n)))
  BY <1>2, <1>3, <1>8, TablesAreDropped
<1> QED
  BY <1>9 DEF T, after, s

\* A script after another.
LEMMA StepsExist ==
    ASSUME NEW base, NEW s, NEW n \in Nat
    PROVE  \E D : Steps(D, base, s, n)
<1>1. PICK g : Ran(g, base, s, n)
  BY ScriptsRun
<1> DEFINE D == [i \in 0..n |-> g[1..i]]
<1>2. D[0] = base
  <2>1. 1..0 = {}
    OBVIOUS
  <2>2. {} \in SUBSET (1..n)
    OBVIOUS
  <2>3. g[{}] = base
    BY <1>1, <2>2 DEF Ran
  <2> QED
    BY <2>1, <2>3
<1>3. ASSUME NEW i \in 1..n
      PROVE  D[i] = Execute(D[i - 1], s[i])
  <2>1. 1..i # {} /\ Max(1..i) = i /\ (1..i) \ {i} = 1..(i - 1)
    <3>1. i \in Nat /\ i >= 1
      OBVIOUS
    <3> QED
      BY <3>1, PrefixStep
  <2>2. 1..i \in SUBSET (1..n)
    OBVIOUS
  <2>3. g[1..i] = Execute(g[1..(i - 1)], s[i])
    BY <1>1, <2>1, <2>2 DEF Ran
  <2> QED
    BY <2>3
<1> HIDE DEF D
<1> QED
  BY <1>2, <1>3 DEF Steps

\* s is the m statements of a and the n ones of b.
Joins(s, a, m, b, n) ==
    /\ DOMAIN a = 1..m /\ DOMAIN b = 1..n /\ DOMAIN s = 1..(m + n)
    /\ \A i \in 1..m : s[i] = a[i]
    /\ \A i \in 1..n : s[m + i] = b[i]

\* A script of two parts makes what the second makes of what the first has
\* made.
LEMMA ScriptOfBoth ==
    ASSUME NEW base, NEW a, NEW m \in Nat, NEW b, NEW n \in Nat, NEW s, Joins(s, a, m, b, n)
    PROVE  Script(base, s) = Script(Script(base, a), b)
<1> USE DEF Joins
<1>0. m + n \in Nat
  OBVIOUS
<1>1. PICK D : Steps(D, base, s, m + n)
  BY <1>0, StepsExist
<1>2. D[0] = base /\ \A i \in 1..(m + n) : D[i] = Execute(D[i - 1], s[i])
  BY <1>1 DEF Steps
<1>3. Script(base, s) = D[m + n]
  BY <1>0, <1>1, ScriptIsSteps
<1>4. Script(base, a) = D[m]
  <2>1. Steps(D, base, a, m)
    BY <1>2 DEF Steps
  <2> QED
    BY <2>1, ScriptIsSteps
<1> DEFINE E == [i \in 0..n |-> D[m + i]]
<1>5. E[0] = D[m] /\ E[n] = D[m + n]
  OBVIOUS
<1>6. ASSUME NEW i \in 1..n
      PROVE  E[i] = Execute(E[i - 1], b[i])
  <2>1. m + i \in 1..(m + n) /\ (m + i) - 1 = m + (i - 1) /\ i - 1 \in 0..n /\ i \in 0..n
    OBVIOUS
  <2>2. D[m + i] = Execute(D[(m + i) - 1], s[m + i])
    BY <1>2, <2>1
  <2> QED
    BY <2>1, <2>2
<1> HIDE DEF E
<1>7. Steps(E, D[m], b, n)
  BY <1>5, <1>6 DEF Steps
<1>8. Script(D[m], b) = E[n]
  BY <1>7, ScriptIsSteps
<1> QED
  BY <1>3, <1>4, <1>5, <1>8

\* So does the concatenation of two scripts.
LEMMA ScriptConcat ==
    ASSUME NEW base, NEW a, NEW m \in Nat, a = [i \in 1..m |-> a[i]],
           NEW b, NEW n \in Nat, b = [i \in 1..n |-> b[i]]
    PROVE  Script(base, a \o b) = Script(Script(base, a), b)
<1> DEFINE X == {a[i] : i \in 1..m} \union {b[i] : i \in 1..n}
<1>1. a \in Seq(X) /\ Len(a) = m
  OBVIOUS
<1>2. b \in Seq(X) /\ Len(b) = n
  OBVIOUS
<1>3. /\ DOMAIN (a \o b) = 1..(m + n) /\ \A i \in 1..m : (a \o b)[i] = a[i]
      /\ \A i \in 1..n : (a \o b)[m + i] = b[i]
  BY <1>1, <1>2
<1> DEFINE s == a \o b
<1>4. /\ DOMAIN a = 1..m /\ DOMAIN b = 1..n /\ DOMAIN s = 1..(m + n)
      /\ \A i \in 1..m : s[i] = a[i]
      /\ \A i \in 1..n : s[m + i] = b[i]
  BY <1>3
<1> HIDE DEF s
<1>5. Script(base, s) = Script(Script(base, a), b)
  <2>1. Joins(s, a, m, b, n)
    BY <1>4 DEF Joins
  <2> QED
    BY <2>1, ScriptOfBoth
<1> QED
  BY <1>5 DEF s

-----------------------------------------------------------------------------
(* The revisions.                                                             *)

\* The revision that each one comes after, or the two that the merge does.
LEMMA DownRevisions ==
    /\ down_revision["20260817_0001"] = {}
    /\ down_revision["20260821_0002"] = {"20260817_0001"}
    /\ down_revision["20260822_0003"] = {"20260821_0002"}
    /\ down_revision["20260904_0004"] = {"20260822_0003"}
    /\ down_revision["20260905_0005"] = {"20260904_0004"}
    /\ down_revision["20260823_0006"] = {"20260905_0005"}
    /\ down_revision["20260823_0007"] = {"20260823_0006"}
    /\ down_revision["20260823_0008"] = {"20260823_0007"}
    /\ down_revision["20260825_0009"] = {"20260823_0008"}
    /\ down_revision["20260825_0010"] = {"20260825_0009"}
    /\ down_revision["20260825_0011"] = {"20260825_0010"}
    /\ down_revision["20260906_0001"] = {"20260905_0005"}
    /\ down_revision["20260831_0012"] = {"20260825_0011", "20260906_0001"}
    /\ down_revision["20260831_0013"] = {"20260831_0012"}
    /\ down_revision["20260907_0002"] = {"20260831_0013"}
    /\ down_revision["20260908_0001"] = {"20260907_0002"}
BY DEF down_revision, Revisions

\* Revisions that are applied: each with those it comes after.
Closed(S) == S \subseteq Revisions /\ \A r \in S : down_revision[r] \subseteq S

\* What has been applied before each revision.
LEMMA ClosedChain ==
    ASSUME NEW S, Closed(S)
    PROVE  /\ "20260821_0002" \in S => "20260817_0001" \in S
           /\ "20260822_0003" \in S => "20260821_0002" \in S
           /\ "20260904_0004" \in S => "20260822_0003" \in S
           /\ "20260905_0005" \in S => "20260904_0004" \in S
           /\ "20260823_0006" \in S => "20260905_0005" \in S
           /\ "20260823_0007" \in S => "20260823_0006" \in S
           /\ "20260823_0008" \in S => "20260823_0007" \in S
           /\ "20260825_0009" \in S => "20260823_0008" \in S
           /\ "20260825_0010" \in S => "20260825_0009" \in S
           /\ "20260825_0011" \in S => "20260825_0010" \in S
           /\ "20260906_0001" \in S => "20260905_0005" \in S
           /\ "20260831_0012" \in S => "20260825_0011" \in S /\ "20260906_0001" \in S
           /\ "20260831_0013" \in S => "20260831_0012" \in S
           /\ "20260907_0002" \in S => "20260831_0013" \in S
           /\ "20260908_0001" \in S => "20260907_0002" \in S
BY DownRevisions DEF Closed

\* r may be applied after the revisions of S, and is the last of one branch.
Fresh(S, r) == Closed(S) /\ r \in Revisions \ S /\ down_revision[r] \subseteq S
Topmost(S, r) == Closed(S) /\ r \in S /\ ~\E c \in S : r \in down_revision[c]

\* A revision that may be applied finds the tables it refers to.
LEMMA NeedsAreThere ==
    ASSUME NEW S, NEW r, Fresh(S, r)
    PROVE  Needs(r) \subseteq S
<1>1. r \in Revisions /\ down_revision[r] \subseteq S /\ Closed(S)
  BY DEF Fresh
<1>2. r # "20260817_0001" => "20260817_0001" \in S
  BY <1>1, ClosedChain, DownRevisions DEF Revisions
<1>3. r \notin {"20260817_0001", "20260821_0002", "20260822_0003", "20260904_0004"}
         => "20260904_0004" \in S
  BY <1>1, ClosedChain, DownRevisions DEF Revisions
<1>4. r = "20260823_0007" => "20260823_0006" \in S
  BY <1>1, DownRevisions
<1> QED
  BY <1>2, <1>3, <1>4 DEF Needs

\* A revision that may be undone has no tables that others need.
LEMMA NeededStay ==
    ASSUME NEW S, NEW r, Topmost(S, r), NEW c \in S
    PROVE  r \notin Needs(c)
<1>1. Closed(S) /\ r \in S /\ c \in Revisions /\ ~\E d \in S : r \in down_revision[d]
  BY DEF Topmost, Closed
<1>2. c # "20260817_0001" => "20260821_0002" \in S
  BY <1>1, ClosedChain DEF Revisions
<1>3. c \notin {"20260817_0001", "20260821_0002", "20260822_0003", "20260904_0004"}
         => "20260905_0005" \in S
  BY <1>1, ClosedChain DEF Revisions
<1>4. /\ c # "20260817_0001" => r # "20260817_0001"
      /\ c \notin {"20260817_0001", "20260821_0002", "20260822_0003", "20260904_0004"}
            => r # "20260904_0004"
      /\ c = "20260823_0007" => r # "20260823_0006"
  BY <1>1, <1>2, <1>3, DownRevisions
<1> QED
  BY <1>4 DEF Needs

\* A revision that has been applied may be the first to go, and one that went may
\* be applied again.
LEMMA FreshIsTopmost ==
    ASSUME NEW S, NEW r, Fresh(S, r)
    PROVE  Topmost(S \union {r}, r) /\ (S \union {r}) \ {r} = S
<1>1. Closed(S \union {r})
  BY DEF Fresh, Closed
<1>2. r \notin down_revision[r]
  BY DownRevisions DEF Fresh, Revisions
<1>3. ~\E c \in S : r \in down_revision[c]
  BY DEF Fresh, Closed
<1> QED
  BY <1>1, <1>2, <1>3 DEF Fresh, Topmost

\* One that may be undone may be applied after that.
LEMMA TopmostIsFresh ==
    ASSUME NEW S, NEW r, Topmost(S, r)
    PROVE  Closed(S \ {r}) /\ (S \ {r}) \union {r} = S
BY DEF Topmost, Closed

Altering == {"20260825_0009", "20260825_0010", "20260825_0011", "20260831_0013"}

\* The other revisions change no table.
LEMMA FormStays ==
    ASSUME NEW S, NEW r, r \notin Altering
    PROVE  \A t : FormAt(S \union {r}, t) = FormAt(S, t)
<1>1. \A x \in Altering : x \in S \union {r} <=> x \in S
  OBVIOUS
<1>2. /\ RunRefs(S \union {r}) = RunRefs(S) /\ RunChecks(S \union {r}) = RunChecks(S)
      /\ SnapshotRefs(S \union {r}) = SnapshotRefs(S)
      /\ HealthChecks(S \union {r}) = HealthChecks(S)
      /\ IndexNames(S \union {r}) = IndexNames(S)
  BY <1>1 DEF RunRefs, RunChecks, SnapshotRefs, HealthChecks, IndexNames, Altering
<1> QED
  BY <1>2 DEF FormAt

\* The tables of r have the n places after base.
Spans(r, base, n) ==
    /\ base + n <= 46
    /\ \A k \in 1..46 : RevisionAt(k) = r <=> k \in (base + 1)..(base + n)

\* s creates the tables at the n places after base as the revisions of F leave
\* them.
Builds(s, F, base, n) ==
    /\ DOMAIN s = 1..n
    /\ \A i \in 1..n : s[i] = Create(Order[base + i], FormAt(F, Order[base + i]))

\* The tables of the n places after base are of r, and no later revision adds a
\* key to them, or has.
PartOf(F, r, base, n) ==
    /\ base + n <= 46
    /\ \A k \in (base + 1)..(base + n) :
           RevisionAt(k) = r /\ \A u : ~AddedLater(F, Order[k], u)

\* The tables of S, and of r those up to the place k.
UpTo(S, r, k) == NamesAt(S) \union {t \in Tables : RevisionOf(t) = r /\ Place[t] <= k}

\* A part of a revision that only creates tables.
LEMMA PartCreates ==
    ASSUME NEW S, NEW r, Fresh(S, r), NEW F, NEW base \in Nat, NEW n \in Nat,
           PartOf(F, r, base, n), NEW s, Builds(s, F, base, n),
           NEW rows, StoredIn(SchemaOf(UpTo(S, r, base), F), rows)
    PROVE  /\ Script(Db(SchemaOf(UpTo(S, r, base), F), rows), s)
                 = Db(SchemaOf(UpTo(S, r, base + n), F), rows)
           /\ StoredIn(SchemaOf(UpTo(S, r, base + n), F), rows)
<1> DEFINE N == UpTo(S, r, base)
           M == UpTo(S, r, base + n)
           name == [i \in 1..n |-> Order[base + i]]
<1>0. /\ base + n <= 46
      /\ \A k \in (base + 1)..(base + n) :
             RevisionAt(k) = r /\ \A u : ~AddedLater(F, Order[k], u)
  BY DEF PartOf
<1>2. N \subseteq Tables
  BY DEF NamesAt, UpTo
<1>3. ASSUME NEW i \in 1..n
      PROVE  /\ name[i] \in Tables /\ RevisionOf(name[i]) = r /\ Place[name[i]] = base + i
             /\ name[i] \notin N
             /\ s[i] = Create(name[i], FormAt(F, name[i]))
             /\ \A u : ~AddedLater(F, name[i], u)
  <2>1. base + i \in 1..46 /\ base + i \in (base + 1)..(base + n)
    BY <1>0
  <2>2. name[i] = Order[base + i]
    OBVIOUS
  <2>3. name[i] \in Tables /\ RevisionOf(name[i]) = r /\ Place[name[i]] = base + i
    BY <1>0, <2>1, <2>2, OrderPlaces DEF RevisionOf
  <2>4. r \notin S /\ ~(base + i <= base)
    BY DEF Fresh
  <2>5. name[i] \notin N
    BY <2>3, <2>4 DEF NamesAt, UpTo
  <2>6. s[i] = Create(name[i], FormAt(F, name[i]))
    BY <2>2 DEF Builds
  <2>7. \A u : ~AddedLater(F, name[i], u)
    BY <1>0, <2>1, <2>2
  <2> QED
    BY <2>3, <2>5, <2>6, <2>7
<1>4. ASSUME NEW u \in Tables, RevisionOf(u) = r, Place[u] \in (base + 1)..(base + n)
      PROVE  Place[u] - base \in 1..n /\ u = name[Place[u] - base]
  <2>1. Place[u] - base \in 1..n /\ base + (Place[u] - base) = Place[u] /\ Order[Place[u]] = u
    BY <1>4, PlaceOrders
  <2> QED
    BY <2>1
<1>5. InOrder(name, n, r, base)
  <2> HIDE DEF name
  <2> QED
    BY <1>3, <1>4 DEF InOrder
<1>6. Ground(N, r, base)
  <2>1. ASSUME NEW u \in Tables, RevisionOf(u) \in Needs(r) PROVE u \in N
    BY <2>1, NeedsAreThere DEF NamesAt, UpTo
  <2>2. ASSUME NEW u \in Tables, RevisionOf(u) = r, Place[u] <= base PROVE u \in N
    BY <2>2 DEF UpTo
  <2> HIDE DEF N
  <2> QED
    BY <2>1, <2>2 DEF Ground
<1>7. M = N \union ListedAs(name, n)
  <2>1. ASSUME NEW u \in Tables
        PROVE  u \in M <=> u \in N \/ u \in ListedAs(name, n)
    <3>0. Place[u] \in Nat /\ Place[u] >= 1
      BY PlaceType
    <3>1. CASE RevisionOf(u) = r /\ Place[u] \in (base + 1)..(base + n)
      <4>1. u \in M
        BY <3>1 DEF UpTo
      <4>2. u \in ListedAs(name, n)
        BY <1>4, <3>1 DEF ListedAs
      <4> QED
        BY <4>1, <4>2
    <3>2. CASE ~(RevisionOf(u) = r /\ Place[u] \in (base + 1)..(base + n))
      <4>1. u \notin ListedAs(name, n)
        <5> HIDE DEF name, N
        <5>1. \A i \in 1..n : base + i \in (base + 1)..(base + n)
          OBVIOUS
        <5> QED
          BY <1>3, <3>2, <5>1 DEF ListedAs
      <4>2. RevisionOf(u) = r => (Place[u] <= base <=> Place[u] <= base + n)
        BY <3>0, <3>2
      <4> HIDE DEF name
      <4> QED
        BY <4>1, <4>2 DEF UpTo
    <3> QED
      BY <3>1, <3>2
  <2>2. M \subseteq Tables
    BY DEF NamesAt, UpTo
  <2>3. ListedAs(name, n) \subseteq Tables
    <3> HIDE DEF name
    <3> QED
      BY <1>3 DEF ListedAs
  <2> DEFINE X == ListedAs(name, n)
  <2> HIDE DEF M, N, X
  <2>4. M = N \union X
    BY <1>2, <2>1, <2>2, <2>3 DEF X
  <2> QED
    BY <2>4 DEF X
<1>8. DOMAIN s = 1..n
  BY DEF Builds
<1>9. StoredIn(SchemaOf(N, F), rows)
  OBVIOUS
<1> HIDE DEF name, N, M
<1>10. Brings(N, F, n, name, s)
  BY <1>3 DEF Brings
<1>11. /\ Script(Db(SchemaOf(N, F), rows), s) = Db(SchemaOf(M, F), rows)
       /\ StoredIn(SchemaOf(M, F), rows)
  BY <1>2, <1>5, <1>6, <1>7, <1>8, <1>9, <1>10, AllCreated
<1> QED
  BY <1>11 DEF N, M

\* Up to the place before its first the revision has brought nothing, up to
\* its last everything.
LEMMA UpToNone ==
    ASSUME NEW S, NEW r, NEW base \in Nat, NEW n \in Nat, Spans(r, base, n)
    PROVE  /\ UpTo(S, r, base) = NamesAt(S)
           /\ UpTo(S, r, base + n) = NamesAt(S \union {r})
<1>0. base + n <= 46 /\ \A k \in 1..46 : RevisionAt(k) = r <=> k \in (base + 1)..(base + n)
  BY DEF Spans
<1>1. ASSUME NEW t \in Tables, RevisionOf(t) = r
      PROVE  ~(Place[t] <= base) /\ Place[t] <= base + n
  <2>1. Place[t] \in 1..46
    BY PlaceType
  <2>2. Place[t] \in (base + 1)..(base + n)
    BY <1>0, <1>1, <2>1 DEF RevisionOf
  <2> QED
    BY <2>2
<1> QED
  BY <1>1 DEF UpTo, NamesAt

\* A revision that only creates tables.
LEMMA RevisionCreates ==
    ASSUME NEW S, NEW r, Fresh(S, r), r \notin Altering,
           NEW base \in Nat, NEW n \in Nat, Spans(r, base, n),
           NEW s, Builds(s, S \union {r}, base, n),
           NEW rows, StoredIn(SchemaAt(S), rows)
    PROVE  /\ Script(Db(SchemaAt(S), rows), s) = Db(SchemaAt(S \union {r}), rows)
           /\ StoredIn(SchemaAt(S \union {r}), rows)
<1> DEFINE F == S \union {r}
<1>0. base + n <= 46 /\ \A k \in 1..46 : RevisionAt(k) = r <=> k \in (base + 1)..(base + n)
  BY DEF Spans
<1>1. SchemaOf(NamesAt(S), F) = SchemaAt(S) /\ SchemaOf(NamesAt(F), F) = SchemaAt(F)
  BY FormStays DEF SchemaOf, SchemaAt
<1>2. UpTo(S, r, base) = NamesAt(S) /\ UpTo(S, r, base + n) = NamesAt(F)
  BY UpToNone, ZenonT(40)
<1>3. ASSUME NEW k \in (base + 1)..(base + n)
      PROVE  RevisionAt(k) = r /\ \A u : ~AddedLater(F, Order[k], u)
  <2>1. k \in 1..46 /\ RevisionAt(k) = r
    BY <1>0
  <2>2. RevisionOf(Order[k]) = r /\ r \notin S
    BY <2>1, OrderPlaces DEF RevisionOf, Fresh
  <2>3. ASSUME NEW u, AddedLater(F, Order[k], u) PROVE FALSE
    <3>1. RevisionOf("analysis_runs") = "20260817_0001"
          /\ RevisionOf("governed_dataset_snapshots") = "20260825_0009"
      BY Revised
    <3>2. r = "20260817_0001" /\ "20260825_0010" \in S
      BY <2>2, <2>3, <3>1 DEF AddedLater, Altering
    <3>3. "20260817_0001" \in S
      BY <3>2, ClosedChain DEF Fresh
    <3> QED
      BY <2>2, <3>2, <3>3
  <2> QED
    BY <2>1, <2>3
<1> HIDE DEF F
<1>4. PartOf(F, r, base, n)
  BY <1>0, <1>3 DEF PartOf
<1>5. StoredIn(SchemaOf(UpTo(S, r, base), F), rows) /\ Builds(s, F, base, n)
  BY <1>1, <1>2 DEF F
<1>6. /\ Script(Db(SchemaOf(UpTo(S, r, base), F), rows), s)
            = Db(SchemaOf(UpTo(S, r, base + n), F), rows)
      /\ StoredIn(SchemaOf(UpTo(S, r, base + n), F), rows)
  BY <1>4, <1>5, PartCreates
<1> QED
  BY <1>1, <1>2, <1>6 DEF F

\* Its downgrade, or the part of one that drops the tables.
LEMMA RevisionDrops ==
    ASSUME NEW S, NEW r, Topmost(S, r),
           NEW base \in Nat, NEW n \in Nat, Spans(r, base, n),
           NEW name, DOMAIN name = 1..n, \A i \in 1..n : name[i] = Order[base + n + 1 - i],
           NEW rows, RunsFirst(name, n, rows), StoredIn(SchemaOf(NamesAt(S), S \ {r}), rows)
    PROVE  /\ Script(Db(SchemaOf(NamesAt(S), S \ {r}), rows), DropAll(name))
                 = Db(SchemaAt(S \ {r}), Without(rows, ListedAs(name, n)))
           /\ StoredIn(SchemaAt(S \ {r}), Without(rows, ListedAs(name, n)))
<1> DEFINE F == S \ {r}
           N == NamesAt(S)
           M == NamesAt(F)
           top == base + n + 1
<1>0. base + n <= 46 /\ \A k \in 1..46 : RevisionAt(k) = r <=> k \in (base + 1)..(base + n)
  BY DEF Spans
<1>1. SchemaOf(M, F) = SchemaAt(F)
  BY DEF SchemaAt
<1>2. N \subseteq Tables /\ r \in S /\ top \in Nat
  BY DEF NamesAt, Topmost
<1>3. ASSUME NEW i \in 1..n
      PROVE  /\ name[i] \in Tables /\ RevisionOf(name[i]) = r /\ Place[name[i]] = top - i
             /\ name[i] \in N
  <2>9. base + n <= 46
    BY <1>0, Zenon
  <2>8. i \in Nat /\ 1 <= i /\ i <= n
    OBVIOUS
  <2>0. base + n <= 46 /\ i \in Nat /\ 1 <= i /\ i <= n
    BY <2>8, <2>9
  <2>1. top - i \in 1..46 /\ top - i \in (base + 1)..(base + n) /\ base + n + 1 - i = top - i
    <3> HIDE DEF N, M, F
    <3> QED
      BY <2>0
  <2>2. name[i] = Order[top - i]
    BY <2>1
  <2>3. Order[top - i] \in Tables /\ Place[Order[top - i]] = top - i
    BY <2>1, OrderPlaces, Zenon
  <2>4. RevisionAt(top - i) = r
    BY <1>0, <2>1, Zenon
  <2>5. name[i] \in Tables /\ RevisionOf(name[i]) = r /\ Place[name[i]] = top - i
    BY <2>2, <2>3, <2>4, Zenon DEF RevisionOf
  <2> QED
    BY <1>2, <2>5 DEF NamesAt
<1>4. ASSUME NEW u \in N, RevisionOf(u) = r
      PROVE  Place[u] \in (top - n)..(top - 1) /\ top - Place[u] \in 1..n
                 /\ u = name[top - Place[u]]
  <2>1. Place[u] \in 1..46 /\ Order[Place[u]] = u
    BY <1>2, PlaceType, PlaceOrders
  <2>2. Place[u] \in (base + 1)..(base + n)
    BY <1>0, <1>4, <2>1 DEF RevisionOf
  <2>3. top - Place[u] \in 1..n /\ base + n + 1 - (top - Place[u]) = Place[u]
    BY <2>2
  <2> QED
    BY <2>1, <2>2, <2>3
<1>5. InReverse(N, name, n, r, top)
  <2> HIDE DEF N, top
  <2> QED
    BY <1>3, <1>4 DEF InReverse
<1>6. \A u \in N : r \notin Needs(RevisionOf(u))
  BY NeededStay DEF NamesAt
<1>7. ASSUME NEW u \in N, NEW i \in 1..n, AddedLater(F, u, name[i])
      PROVE  FALSE
  <2>1. RevisionOf("governed_dataset_snapshots") = "20260825_0009"
        /\ RevisionOf("governed_import_batches") = "20260825_0009"
    BY Revised
  <2>2. r = "20260825_0009"
    BY <1>3, <1>7, <2>1 DEF AddedLater
  <2>3. "20260825_0010" \notin S
    BY <2>2, DownRevisions DEF Topmost
  <2> QED
    BY <1>7, <2>2, <2>3 DEF AddedLater
<1>8. M = N \ ListedAs(name, n)
  <2>1. ASSUME NEW t \in Tables
        PROVE  t \in M <=> t \in N /\ t \notin {name[i] : i \in 1..n}
    <3>1. t \in M <=> t \in N /\ RevisionOf(t) # r
      BY DEF NamesAt
    <3>2. t \in N /\ RevisionOf(t) = r => t \in {name[i] : i \in 1..n}
      BY <1>4
    <3>3. t \in {name[i] : i \in 1..n} => RevisionOf(t) = r
      BY <1>3
    <3> HIDE DEF M, N
    <3> QED
      BY <3>1, <3>2, <3>3
  <2>2. M \subseteq Tables
    BY DEF NamesAt
  <2> DEFINE X == {name[i] : i \in 1..n}
  <2>3. N \subseteq Tables /\ \A t \in Tables : t \in M <=> t \in N /\ t \notin X
    BY <1>2, <2>1
  <2> HIDE DEF M, N, X
  <2>4. M = N \ X
    BY <2>2, <2>3
  <2> QED
    BY <2>4 DEF X, ListedAs
<1>9. StoredIn(SchemaOf(N, F), rows)
  OBVIOUS
<1>u. Unneeded(N, F, r, n, name)
  <2> HIDE DEF N, F
  <2> QED
    BY <1>6, <1>7 DEF Unneeded
<1> HIDE DEF N, M, F, top
<1>10. /\ Script(Db(SchemaOf(N, F), rows), DropAll(name))
             = Db(SchemaOf(M, F), Without(rows, ListedAs(name, n)))
       /\ StoredIn(SchemaOf(M, F), Without(rows, ListedAs(name, n)))
  BY <1>2, <1>5, <1>8, <1>9, <1>u, AllDropped
<1> QED
  BY <1>1, <1>10 DEF N, F

-----------------------------------------------------------------------------
(* What each revision creates.                                                *)

\* The creations of each script, table by table, are of the tables that the
\* classes declare, or of what those were then.

\* The statements of two scripts, one after the other.
LEMMA ConcatIs ==
    ASSUME NEW a, NEW m \in Nat, a = [i \in 1..m |-> a[i]],
           NEW b, NEW n \in Nat, b = [i \in 1..n |-> b[i]]
    PROVE  /\ DOMAIN (a \o b) = 1..(m + n)
           /\ a \o b = [i \in 1..(m + n) |-> (a \o b)[i]]
           /\ \A i \in 1..m : (a \o b)[i] = a[i]
           /\ \A i \in 1..n : (a \o b)[m + i] = b[i]
<1> DEFINE X == {a[i] : i \in 1..m} \union {b[i] : i \in 1..n}
<1>1. a \in Seq(X) /\ Len(a) = m
  OBVIOUS
<1>2. b \in Seq(X) /\ Len(b) = n
  OBVIOUS
<1> QED
  BY <1>1, <1>2

\* What 20260817_0001 creates, before 20260825_0010 changes it.
LEMMA CoreIsBuilt ==
    ASSUME NEW F, "20260825_0010" \notin F
    PROVE  Builds(phase4a_persistence, F, 0, 10)
<1> DEFINE s == phase4a_persistence
<1>b. DOMAIN s = 1..10
  BY DEF phase4a_persistence
<1>1. s[1] = Create(Order[1], FormAt(F, Order[1]))
  <2>1. s[1] = Create("organizations", Table({}, {{"slug"}}, {Values("status", {"active",
        "suspended"})}))
    BY DEF phase4a_persistence
  <2>2. FormAt(F, "organizations") = CoreTables["organizations"]
    BY MetadataTables, OtherForms DEF CoreNames, Changed
  <2>3. CoreTables["organizations"] = Table({}, {{"slug"}}, {Values("status", {"active",
        "suspended"})})
    BY DEF CoreTables
  <2>5. Order[1] = "organizations"
    BY Orders
  <2> QED
    BY <2>1, <2>2, <2>3, <2>5, Zenon
<1>2. s[2] = Create(Order[2], FormAt(F, Order[2]))
  <2>1. s[2] = Create("projects", Table(Cascades({"organizations"}), {{"organization_id",
        "code"}}, {Values("status", {"planning", "active", "on_hold", "completed", "closed"})}))
    BY DEF phase4a_persistence
  <2>2. FormAt(F, "projects") = CoreTables["projects"]
    BY MetadataTables, OtherForms DEF CoreNames, Changed
  <2>3. CoreTables["projects"] = Table(Cascades({"organizations"}), {{"organization_id", "code"}},
        {Values("status", {"planning", "active", "on_hold", "completed", "closed"})})
    BY DEF CoreTables
  <2>5. Order[2] = "projects"
    BY Orders
  <2> QED
    BY <2>1, <2>2, <2>3, <2>5, Zenon
<1>3. s[3] = Create(Order[3], FormAt(F, Order[3]))
  <2>1. s[3] = Create("source_files", Table(Owned, {}, {}))
    BY DEF phase4a_persistence
  <2>2. FormAt(F, "source_files") = CoreTables["source_files"]
    BY MetadataTables, OtherForms DEF CoreNames, Changed
  <2>3. CoreTables["source_files"] = Table(Owned, {}, {})
    BY DEF CoreTables
  <2>5. Order[3] = "source_files"
    BY Orders
  <2> QED
    BY <2>1, <2>2, <2>3, <2>5, Zenon
<1>4. s[4] = Create(Order[4], FormAt(F, Order[4]))
  <2>1. s[4] = Create("dataset_snapshots", Table(Owned \union {Ref("source_files", "restrict")},
        {}, {Values("status", {"validated", "failed"})}))
    BY DEF phase4a_persistence
  <2>2. FormAt(F, "dataset_snapshots") = CoreTables["dataset_snapshots"]
    BY MetadataTables, OtherForms DEF CoreNames, Changed
  <2>3. CoreTables["dataset_snapshots"] = Table(Owned \union {Ref("source_files", "restrict")},
        {}, {Values("status", {"validated", "failed"})})
    BY DEF CoreTables
  <2>5. Order[4] = "dataset_snapshots"
    BY Orders
  <2> QED
    BY <2>1, <2>2, <2>3, <2>5, Zenon
<1>5. s[5] = Create(Order[5], FormAt(F, Order[5]))
  <2>1. s[5] = Create("rule_catalogue_versions", Table({}, {{"version", "sha256"}}, {}))
    BY DEF phase4a_persistence
  <2>2. FormAt(F, "rule_catalogue_versions") = CoreTables["rule_catalogue_versions"]
    BY MetadataTables, OtherForms DEF CoreNames, Changed
  <2>3. CoreTables["rule_catalogue_versions"] = Table({}, {{"version", "sha256"}}, {})
    BY DEF CoreTables
  <2>5. Order[5] = "rule_catalogue_versions"
    BY Orders
  <2> QED
    BY <2>1, <2>2, <2>3, <2>5, Zenon
<1>6. s[6] = Create(Order[6], FormAt(F, Order[6]))
  <2>1. s[6] = Create("analysis_runs", Table(Owned \union {Ref(t, "restrict") : t \in
        {"dataset_snapshots", "rule_catalogue_versions"}}, {}, {Values("status", {"queued",
        "running", "succeeded", "failed"})}))
    BY DEF phase4a_persistence
  <2>2. Table(Owned \union {Ref(t, "restrict") : t \in {"dataset_snapshots",
        "rule_catalogue_versions"}}, {}, {Values("status", {"queued", "running", "succeeded",
        "failed"})})
        = Table(RunRefs(F), {}, RunChecks(F))
    BY DEF RunRefs, RunChecks
  <2>3. FormAt(F, "analysis_runs")
        = Table(RunRefs(F), {}, RunChecks(F))
    BY ChangedForms
  <2>5. Order[6] = "analysis_runs"
    BY Orders
  <2> QED
    BY <2>1, <2>2, <2>3, <2>5, Zenon
<1>7. s[7] = Create(Order[7], FormAt(F, Order[7]))
  <2>1. s[7] = Create("findings", Table(Owned \union Cascades({"analysis_runs"}),
        {{"analysis_run_id", "engine_finding_id"}}, {Values("severity", {"critical", "warning",
        "observation"}), Values("status", {"open", "acknowledged", "resolved", "dismissed"})}))
    BY DEF phase4a_persistence
  <2>2. FormAt(F, "findings") = FindingTables["findings"]
    BY MetadataTables, OtherForms DEF FindingNames, Changed
  <2>3. FindingTables["findings"] = Table(Owned \union Cascades({"analysis_runs"}),
        {{"analysis_run_id", "engine_finding_id"}}, {Values("severity", {"critical", "warning",
        "observation"}), Values("status", {"open", "acknowledged", "resolved", "dismissed"})})
    BY DEF FindingTables
  <2>5. Order[7] = "findings"
    BY Orders
  <2> QED
    BY <2>1, <2>2, <2>3, <2>5, Zenon
<1>8. s[8] = Create(Order[8], FormAt(F, Order[8]))
  <2>1. s[8] = Create("finding_evidence", Table(Cascades({"findings"}), {{"finding_id",
        "evidence_order"}}, {}))
    BY DEF phase4a_persistence
  <2>2. FormAt(F, "finding_evidence") = FindingTables["finding_evidence"]
    BY MetadataTables, OtherForms DEF FindingNames, Changed
  <2>3. FindingTables["finding_evidence"] = Table(Cascades({"findings"}), {{"finding_id",
        "evidence_order"}}, {})
    BY DEF FindingTables
  <2>5. Order[8] = "finding_evidence"
    BY Orders
  <2> QED
    BY <2>1, <2>2, <2>3, <2>5, Zenon
<1>9. s[9] = Create(Order[9], FormAt(F, Order[9]))
  <2>1. s[9] = Create("approved_exceptions", Table({Ref("organizations", "cascade"),
        OptionalRef("projects", "cascade")}, {}, {Values("status", {"active", "expired",
        "revoked"})}))
    BY DEF phase4a_persistence
  <2>2. FormAt(F, "approved_exceptions") = FindingTables["approved_exceptions"]
    BY MetadataTables, OtherForms DEF FindingNames, Changed
  <2>3. FindingTables["approved_exceptions"] = Table(Cascades({"organizations"}) \union
        {OptionalRef("projects", "cascade")}, {}, {Values("status", {"active", "expired",
        "revoked"})})
    BY DEF FindingTables
  <2>4. Table({Ref("organizations", "cascade"), OptionalRef("projects", "cascade")}, {},
        {Values("status", {"active", "expired", "revoked"})})
        = Table(Cascades({"organizations"}) \union {OptionalRef("projects", "cascade")}, {},
              {Values("status", {"active", "expired", "revoked"})})
    BY DEF Cascades
  <2>5. Order[9] = "approved_exceptions"
    BY Orders
  <2> QED
    BY <2>1, <2>2, <2>3, <2>4, <2>5, Zenon
<1>10. s[10] = Create(Order[10], FormAt(F, Order[10]))
  <2>1. s[10] = Create("audit_logs", Table({Ref("organizations", "cascade"),
        OptionalRef("projects", "set null")}, {}, {}))
    BY DEF phase4a_persistence
  <2>2. FormAt(F, "audit_logs") = FindingTables["audit_logs"]
    BY MetadataTables, OtherForms DEF FindingNames, Changed
  <2>3. FindingTables["audit_logs"] = Table(Cascades({"organizations"}) \union
        {OptionalRef("projects", "set null")}, {}, {})
    BY DEF FindingTables
  <2>4. Table({Ref("organizations", "cascade"), OptionalRef("projects", "set null")}, {}, {})
        = Table(Cascades({"organizations"}) \union {OptionalRef("projects", "set null")}, {}, {})
    BY DEF Cascades
  <2>5. Order[10] = "audit_logs"
    BY Orders
  <2> QED
    BY <2>1, <2>2, <2>3, <2>4, <2>5, Zenon
<1> HIDE DEF s
<1>q. Builds(s, F, 0, 10)
  BY <1>b, <1>1, <1>2, <1>3, <1>4, <1>5, <1>6, <1>7, <1>8, <1>9, <1>10 DEF Builds
<1> QED
  BY <1>q DEF s

\* What 20260821_0002 creates.
LEMMA SimplifiedIsBuilt ==
    ASSUME NEW F
    PROVE  Builds(phase4b_lineage \o phase4b_facts, F, 10, 9)
<1> DEFINE s == phase4b_lineage \o phase4b_facts
<1>a. phase4b_lineage = [i \in 1..3 |-> phase4b_lineage[i]] /\ phase4b_facts = [i \in 1..6 |->
      phase4b_facts[i]]
  BY DEF phase4b_lineage, phase4b_facts
<1>b. /\ DOMAIN s = 1..9
      /\ \A i \in 1..3 : s[i] = phase4b_lineage[i]
      /\ \A i \in 1..6 : s[3 + i] = phase4b_facts[i]
  BY <1>a, ConcatIs
<1>f. /\ phase4b_facts[1] = Create("wbs_nodes", Table(Lineage, {}, {}))
      /\ phase4b_facts[2] = Create("budget_records", Table(Lineage, {}, {}))
      /\ phase4b_facts[3] = Create("cost_records", Table(Lineage, {}, {}))
      /\ phase4b_facts[4] = Create("commitment_records", Table(Lineage, {}, {}))
      /\ phase4b_facts[5] = Create("schedule_activities", Table(Lineage, {}, {}))
      /\ phase4b_facts[6] = Create("progress_records", Table(Lineage, {}, {}))
  BY DEF phase4b_facts
<1>1. s[1] = Create(Order[11], FormAt(F, Order[11]))
  <2>0. s[1] = phase4b_lineage[1]
    BY <1>b
  <2>1. s[1] = Create("raw_rows", Table(Owned \union Cascades({"source_files"}),
        {{"source_file_id", "sheet_name", "row_number"}}, {}))
    BY <2>0 DEF phase4b_lineage
  <2>2. FormAt(F, "raw_rows") = SimplifiedTables["raw_rows"]
    BY MetadataTables, OtherForms DEF SimplifiedNames, Changed
  <2>3. SimplifiedTables["raw_rows"] = Table(Owned \union Cascades({"source_files"}),
        {{"source_file_id", "sheet_name", "row_number"}}, {})
    BY DEF SimplifiedTables
  <2>5. Order[11] = "raw_rows"
    BY Orders
  <2> QED
    BY <2>1, <2>2, <2>3, <2>5, Zenon
<1>2. s[2] = Create(Order[12], FormAt(F, Order[12]))
  <2>0. s[2] = phase4b_lineage[2]
    BY <1>b
  <2>1. s[2] = Create("import_batches", Table(Owned \union {Ref("source_files", "cascade"),
        OptionalRef("dataset_snapshots", "set null")}, {}, {Values("status", {"pending",
        "processing", "completed", "failed"})}))
    BY <2>0 DEF phase4b_lineage
  <2>2. FormAt(F, "import_batches") = SimplifiedTables["import_batches"]
    BY MetadataTables, OtherForms DEF SimplifiedNames, Changed
  <2>3. SimplifiedTables["import_batches"] = Table(Owned \union Cascades({"source_files"}) \union
        {OptionalRef("dataset_snapshots", "set null")}, {}, {Values("status", {"pending",
        "processing", "completed", "failed"})})
    BY DEF SimplifiedTables
  <2>4. Table(Owned \union {Ref("source_files", "cascade"), OptionalRef("dataset_snapshots",
        "set null")}, {}, {Values("status", {"pending", "processing", "completed", "failed"})})
        = Table(Owned \union Cascades({"source_files"}) \union {OptionalRef("dataset_snapshots",
              "set null")}, {}, {Values("status", {"pending", "processing", "completed",
              "failed"})})
    BY DEF Cascades
  <2>5. Order[12] = "import_batches"
    BY Orders
  <2> QED
    BY <2>1, <2>2, <2>3, <2>4, <2>5, Zenon
<1>3. s[3] = Create(Order[13], FormAt(F, Order[13]))
  <2>0. s[3] = phase4b_lineage[3]
    BY <1>b
  <2>1. s[3] = Create("import_column_mappings", Table(Owned, {{"project_id", "sheet_name",
        "source_column"}}, {}))
    BY <2>0 DEF phase4b_lineage
  <2>2. FormAt(F, "import_column_mappings") = SimplifiedTables["import_column_mappings"]
    BY MetadataTables, OtherForms DEF SimplifiedNames, Changed
  <2>3. SimplifiedTables["import_column_mappings"] = Table(Owned, {{"project_id", "sheet_name",
        "source_column"}}, {})
    BY DEF SimplifiedTables
  <2>5. Order[13] = "import_column_mappings"
    BY Orders
  <2> QED
    BY <2>1, <2>2, <2>3, <2>5, Zenon
<1>4. s[4] = Create(Order[14], FormAt(F, Order[14]))
  <2>0. s[4] = phase4b_facts[1]
    BY <1>b
  <2>1. s[4] = Create("wbs_nodes", Table(Lineage, {}, {}))
    BY <2>0, <1>f
  <2>2. FormAt(F, "wbs_nodes") = SimplifiedTables["wbs_nodes"]
    BY MetadataTables, OtherForms DEF SimplifiedNames, Changed
  <2>3. SimplifiedTables["wbs_nodes"] = SimplifiedFact
    BY DEF SimplifiedTables
  <2>4. Table(Lineage, {}, {})
        = SimplifiedFact
    BY DEF Cascades, Lineage, SimplifiedFact
  <2>5. Order[14] = "wbs_nodes"
    BY Orders
  <2> QED
    BY <2>1, <2>2, <2>3, <2>4, <2>5, Zenon
<1>5. s[5] = Create(Order[15], FormAt(F, Order[15]))
  <2>0. s[5] = phase4b_facts[2]
    BY <1>b
  <2>1. s[5] = Create("budget_records", Table(Lineage, {}, {}))
    BY <2>0, <1>f
  <2>2. FormAt(F, "budget_records") = SimplifiedTables["budget_records"]
    BY MetadataTables, OtherForms DEF SimplifiedNames, Changed
  <2>3. SimplifiedTables["budget_records"] = SimplifiedFact
    BY DEF SimplifiedTables
  <2>4. Table(Lineage, {}, {})
        = SimplifiedFact
    BY DEF Cascades, Lineage, SimplifiedFact
  <2>5. Order[15] = "budget_records"
    BY Orders
  <2> QED
    BY <2>1, <2>2, <2>3, <2>4, <2>5, Zenon
<1>6. s[6] = Create(Order[16], FormAt(F, Order[16]))
  <2>0. s[6] = phase4b_facts[3]
    BY <1>b
  <2>1. s[6] = Create("cost_records", Table(Lineage, {}, {}))
    BY <2>0, <1>f
  <2>2. FormAt(F, "cost_records") = SimplifiedTables["cost_records"]
    BY MetadataTables, OtherForms DEF SimplifiedNames, Changed
  <2>3. SimplifiedTables["cost_records"] = SimplifiedFact
    BY DEF SimplifiedTables
  <2>4. Table(Lineage, {}, {})
        = SimplifiedFact
    BY DEF Cascades, Lineage, SimplifiedFact
  <2>5. Order[16] = "cost_records"
    BY Orders
  <2> QED
    BY <2>1, <2>2, <2>3, <2>4, <2>5, Zenon
<1>7. s[7] = Create(Order[17], FormAt(F, Order[17]))
  <2>0. s[7] = phase4b_facts[4]
    BY <1>b
  <2>1. s[7] = Create("commitment_records", Table(Lineage, {}, {}))
    BY <2>0, <1>f
  <2>2. FormAt(F, "commitment_records") = SimplifiedTables["commitment_records"]
    BY MetadataTables, OtherForms DEF SimplifiedNames, Changed
  <2>3. SimplifiedTables["commitment_records"] = SimplifiedFact
    BY DEF SimplifiedTables
  <2>4. Table(Lineage, {}, {})
        = SimplifiedFact
    BY DEF Cascades, Lineage, SimplifiedFact
  <2>5. Order[17] = "commitment_records"
    BY Orders
  <2> QED
    BY <2>1, <2>2, <2>3, <2>4, <2>5, Zenon
<1>8. s[8] = Create(Order[18], FormAt(F, Order[18]))
  <2>0. s[8] = phase4b_facts[5]
    BY <1>b
  <2>1. s[8] = Create("schedule_activities", Table(Lineage, {}, {}))
    BY <2>0, <1>f
  <2>2. FormAt(F, "schedule_activities") = SimplifiedTables["schedule_activities"]
    BY MetadataTables, OtherForms DEF SimplifiedNames, Changed
  <2>3. SimplifiedTables["schedule_activities"] = SimplifiedFact
    BY DEF SimplifiedTables
  <2>4. Table(Lineage, {}, {})
        = SimplifiedFact
    BY DEF Cascades, Lineage, SimplifiedFact
  <2>5. Order[18] = "schedule_activities"
    BY Orders
  <2> QED
    BY <2>1, <2>2, <2>3, <2>4, <2>5, Zenon
<1>9. s[9] = Create(Order[19], FormAt(F, Order[19]))
  <2>0. s[9] = phase4b_facts[6]
    BY <1>b
  <2>1. s[9] = Create("progress_records", Table(Lineage, {}, {}))
    BY <2>0, <1>f
  <2>2. FormAt(F, "progress_records") = SimplifiedTables["progress_records"]
    BY MetadataTables, OtherForms DEF SimplifiedNames, Changed
  <2>3. SimplifiedTables["progress_records"] = SimplifiedFact
    BY DEF SimplifiedTables
  <2>4. Table(Lineage, {}, {})
        = SimplifiedFact
    BY DEF Cascades, Lineage, SimplifiedFact
  <2>5. Order[19] = "progress_records"
    BY Orders
  <2> QED
    BY <2>1, <2>2, <2>3, <2>4, <2>5, Zenon
<1> HIDE DEF s
<1>q. Builds(s, F, 10, 9)
  BY <1>b, <1>1, <1>2, <1>3, <1>4, <1>5, <1>6, <1>7, <1>8, <1>9 DEF Builds
<1> QED
  BY <1>q DEF s

\* What 20260822_0003 creates, before 20260825_0011 changes it.
LEMMA HealthIsBuilt ==
    ASSUME NEW F, "20260825_0011" \notin F
    PROVE  Builds(phase5c_health_scoring, F, 19, 1)
<1> DEFINE s == phase5c_health_scoring
<1>b. DOMAIN s = 1..1
  BY DEF phase5c_health_scoring
<1>1. s[1] = Create(Order[20], FormAt(F, Order[20]))
  <2>1. s[1] = Create("health_snapshots", Table(Owned \union Cascades({"analysis_runs"}),
        {{"analysis_run_id"}}, {NotNull(Scores), Values("score_band", Bands)}))
    BY DEF phase5c_health_scoring
  <2>2. Table(Owned \union Cascades({"analysis_runs"}), {{"analysis_run_id"}}, {NotNull(Scores),
        Values("score_band", Bands)})
        = Table(HealthRefs, {{"analysis_run_id"}}, HealthChecks(F))
    BY DEF HealthRefs, HealthChecks
  <2>3. FormAt(F, "health_snapshots")
        = Table(HealthRefs, {{"analysis_run_id"}}, HealthChecks(F))
    BY ChangedForms
  <2>5. Order[20] = "health_snapshots"
    BY Orders
  <2> QED
    BY <2>1, <2>2, <2>3, <2>5, Zenon
<1> HIDE DEF s
<1>q. Builds(s, F, 19, 1)
  BY <1>b, <1>1 DEF Builds
<1> QED
  BY <1>q DEF s

\* What 20260904_0004 creates.
LEMMA UsersAreBuilt ==
    ASSUME NEW F
    PROVE  Builds(phase4c_auth_rbac, F, 20, 3)
<1> DEFINE s == phase4c_auth_rbac
<1>b. DOMAIN s = 1..3
  BY DEF phase4c_auth_rbac
<1>1. s[1] = Create(Order[21], FormAt(F, Order[21]))
  <2>1. s[1] = Create("users", Table({}, {{"email"}}, {Values("status", {"active", "inactive",
        "suspended"})}))
    BY DEF phase4c_auth_rbac
  <2>2. FormAt(F, "users") = HealthAndUserTables["users"]
    BY MetadataTables, OtherForms DEF HealthAndUserNames, Changed
  <2>3. HealthAndUserTables["users"] = Table({}, {{"email"}}, {Values("status", {"active",
        "inactive", "suspended"})})
    BY DEF HealthAndUserTables
  <2>5. Order[21] = "users"
    BY Orders
  <2> QED
    BY <2>1, <2>2, <2>3, <2>5, Zenon
<1>2. s[2] = Create(Order[22], FormAt(F, Order[22]))
  <2>1. s[2] = Create("organization_members", Table(Cascades({"organizations", "users"}),
        {{"organization_id", "user_id"}}, {Values("role", {"org_admin", "org_member",
        "org_viewer"})}))
    BY DEF phase4c_auth_rbac
  <2>2. FormAt(F, "organization_members") = HealthAndUserTables["organization_members"]
    BY MetadataTables, OtherForms DEF HealthAndUserNames, Changed
  <2>3. HealthAndUserTables["organization_members"] = Table(Cascades({"organizations", "users"}),
        {{"organization_id", "user_id"}}, {Values("role", {"org_admin", "org_member",
        "org_viewer"})})
    BY DEF HealthAndUserTables
  <2>5. Order[22] = "organization_members"
    BY Orders
  <2> QED
    BY <2>1, <2>2, <2>3, <2>5, Zenon
<1>3. s[3] = Create(Order[23], FormAt(F, Order[23]))
  <2>1. s[3] = Create("project_members", Table(Cascades({"projects", "users"}), {{"project_id",
        "user_id"}}, {Values("role", {"project_manager", "project_member", "project_viewer"})}))
    BY DEF phase4c_auth_rbac
  <2>2. FormAt(F, "project_members") = HealthAndUserTables["project_members"]
    BY MetadataTables, OtherForms DEF HealthAndUserNames, Changed
  <2>3. HealthAndUserTables["project_members"] = Table(Cascades({"projects", "users"}),
        {{"project_id", "user_id"}}, {Values("role", {"project_manager", "project_member",
        "project_viewer"})})
    BY DEF HealthAndUserTables
  <2>5. Order[23] = "project_members"
    BY Orders
  <2> QED
    BY <2>1, <2>2, <2>3, <2>5, Zenon
<1> HIDE DEF s
<1>q. Builds(s, F, 20, 3)
  BY <1>b, <1>1, <1>2, <1>3 DEF Builds
<1> QED
  BY <1>q DEF s

\* What 20260905_0005 creates.
LEMMA ConversationsAreBuilt ==
    ASSUME NEW F
    PROVE  Builds(phase6_ai_layer, F, 23, 2)
<1> DEFINE s == phase6_ai_layer
<1>b. DOMAIN s = 1..2
  BY DEF phase6_ai_layer
<1>1. s[1] = Create(Order[24], FormAt(F, Order[24]))
  <2>1. s[1] = Create("ai_conversations", Table(Owned \union Users, {}, {}))
    BY DEF phase6_ai_layer
  <2>2. FormAt(F, "ai_conversations") = AITables["ai_conversations"]
    BY MetadataTables, OtherForms DEF AINames, Changed
  <2>3. AITables["ai_conversations"] = Table(Owned \union Users, {}, {})
    BY DEF AITables
  <2>5. Order[24] = "ai_conversations"
    BY Orders
  <2> QED
    BY <2>1, <2>2, <2>3, <2>5, Zenon
<1>2. s[2] = Create(Order[25], FormAt(F, Order[25]))
  <2>1. s[2] = Create("ai_messages", Table(Cascades({"ai_conversations"}), {}, {Values("role",
        {"user", "assistant", "system", "tool"})}))
    BY DEF phase6_ai_layer
  <2>2. FormAt(F, "ai_messages") = AITables["ai_messages"]
    BY MetadataTables, OtherForms DEF AINames, Changed
  <2>3. AITables["ai_messages"] = Table(Cascades({"ai_conversations"}), {}, {Values("role",
        {"user", "assistant", "system", "tool"})})
    BY DEF AITables
  <2>5. Order[25] = "ai_messages"
    BY Orders
  <2> QED
    BY <2>1, <2>2, <2>3, <2>5, Zenon
<1> HIDE DEF s
<1>q. Builds(s, F, 23, 2)
  BY <1>b, <1>1, <1>2 DEF Builds
<1> QED
  BY <1>q DEF s

\* What the revision of actions creates.
LEMMA ActionsAreBuilt ==
    ASSUME NEW F
    PROVE  Builds(actions_closure_governance, F, 25, 2)
<1> DEFINE s == actions_closure_governance
<1>b. DOMAIN s = 1..2
  BY DEF actions_closure_governance
<1>1. s[1] = Create(Order[26], FormAt(F, Order[26]))
  <2>1. s[1] = Create("finding_actions", Table(Owned \union Cascades({"findings"}), {},
        {Values("priority", {"high", "medium", "low"}), Values("status", {"open", "in_review",
        "completed", "cancelled"})}))
    BY DEF actions_closure_governance
  <2>2. FormAt(F, "finding_actions") = ActionTables["finding_actions"]
    BY MetadataTables, OtherForms DEF ActionNames, Changed
  <2>3. ActionTables["finding_actions"] = Table(Owned \union Cascades({"findings"}), {},
        {Values("priority", {"high", "medium", "low"}), Values("status", {"open", "in_review",
        "completed", "cancelled"})})
    BY DEF ActionTables
  <2>5. Order[26] = "finding_actions"
    BY Orders
  <2> QED
    BY <2>1, <2>2, <2>3, <2>5, Zenon
<1>2. s[2] = Create(Order[27], FormAt(F, Order[27]))
  <2>1. s[2] = Create("finding_action_history", Table(Cascades({"organizations",
        "finding_actions"}), {}, {}))
    BY DEF actions_closure_governance
  <2>2. FormAt(F, "finding_action_history") = ActionTables["finding_action_history"]
    BY MetadataTables, OtherForms DEF ActionNames, Changed
  <2>3. ActionTables["finding_action_history"] = Table(Cascades({"organizations",
        "finding_actions"}), {}, {})
    BY DEF ActionTables
  <2>5. Order[27] = "finding_action_history"
    BY Orders
  <2> QED
    BY <2>1, <2>2, <2>3, <2>5, Zenon
<1> HIDE DEF s
<1>q. Builds(s, F, 25, 2)
  BY <1>b, <1>1, <1>2 DEF Builds
<1> QED
  BY <1>q DEF s

\* What the revision of approvals and escalations creates.
LEMMA GovernanceIsBuilt ==
    ASSUME NEW F
    PROVE  Builds(approval_escalation_governance, F, 27, 3)
<1> DEFINE s == approval_escalation_governance
<1>b. DOMAIN s = 1..3
  BY DEF approval_escalation_governance
<1>1. s[1] = Create(Order[28], FormAt(F, Order[28]))
  <2>1. s[1] = Create("project_governance_policies", Table(Owned, {{"project_id"}}, {}))
    BY DEF approval_escalation_governance
  <2>2. FormAt(F, "project_governance_policies") = GovernanceTables["project_governance_policies"]
    BY MetadataTables, OtherForms DEF GovernanceNames, Changed
  <2>3. GovernanceTables["project_governance_policies"] = Table(Owned, {{"project_id"}}, {})
    BY DEF GovernanceTables
  <2>5. Order[28] = "project_governance_policies"
    BY Orders
  <2> QED
    BY <2>1, <2>2, <2>3, <2>5, Zenon
<1>2. s[2] = Create(Order[29], FormAt(F, Order[29]))
  <2>1. s[2] = Create("finding_closure_approvals", Table(Owned \union Cascades({"findings"})
        \union Users, {}, {Values("decision", {"pending", "approved", "rejected", "withdrawn"})}))
    BY DEF approval_escalation_governance
  <2>2. FormAt(F, "finding_closure_approvals") = GovernanceTables["finding_closure_approvals"]
    BY MetadataTables, OtherForms DEF GovernanceNames, Changed
  <2>3. GovernanceTables["finding_closure_approvals"] = Table(Owned \union Cascades({"findings"})
        \union Users, {}, {Values("decision", {"pending", "approved", "rejected", "withdrawn"})})
    BY DEF GovernanceTables
  <2>5. Order[29] = "finding_closure_approvals"
    BY Orders
  <2> QED
    BY <2>1, <2>2, <2>3, <2>5, Zenon
<1>3. s[3] = Create(Order[30], FormAt(F, Order[30]))
  <2>1. s[3] = Create("governance_escalations", Table(Owned \union Cascades({"findings"}) \union
        Users \union {OptionalRef("finding_actions", "set null")}, {}, {Values("escalation_type",
        {"finding_sla", "action_overdue"}), Values("severity", {"critical", "warning",
        "observation"}), Values("status", {"open", "acknowledged", "resolved"})}))
    BY DEF approval_escalation_governance
  <2>2. FormAt(F, "governance_escalations") = GovernanceTables["governance_escalations"]
    BY MetadataTables, OtherForms DEF GovernanceNames, Changed
  <2>3. GovernanceTables["governance_escalations"] = Table(Owned \union Cascades({"findings"})
        \union Users \union {OptionalRef("finding_actions", "set null")}, {},
        {Values("escalation_type", {"finding_sla", "action_overdue"}), Values("severity",
        {"critical", "warning", "observation"}), Values("status", {"open", "acknowledged",
        "resolved"})})
    BY DEF GovernanceTables
  <2>5. Order[30] = "governance_escalations"
    BY Orders
  <2> QED
    BY <2>1, <2>2, <2>3, <2>5, Zenon
<1> HIDE DEF s
<1>q. Builds(s, F, 27, 3)
  BY <1>b, <1>1, <1>2, <1>3 DEF Builds
<1> QED
  BY <1>q DEF s

\* What the revision of report packages creates.
LEMMA ReportsAreBuilt ==
    ASSUME NEW F
    PROVE  Builds(persisted_report_packages, F, 30, 1)
<1> DEFINE s == persisted_report_packages
<1>b. DOMAIN s = 1..1
  BY DEF persisted_report_packages
<1>1. s[1] = Create(Order[31], FormAt(F, Order[31]))
  <2>1. s[1] = Create("report_packages", Table(Owned \union Users \union {Ref("analysis_runs",
        "restrict")}, {}, {Values("report_type", {"monthly", "executive", "cost", "schedule",
        "progress"})}))
    BY DEF persisted_report_packages
  <2>2. FormAt(F, "report_packages") = ReportAndJobTables["report_packages"]
    BY MetadataTables, OtherForms DEF ReportAndJobNames, Changed
  <2>3. ReportAndJobTables["report_packages"] = Table(Owned \union Users \union
        {Ref("analysis_runs", "restrict")}, {}, {Values("report_type", {"monthly", "executive",
        "cost", "schedule", "progress"})})
    BY DEF ReportAndJobTables
  <2>5. Order[31] = "report_packages"
    BY Orders
  <2> QED
    BY <2>1, <2>2, <2>3, <2>5, Zenon
<1> HIDE DEF s
<1>q. Builds(s, F, 30, 1)
  BY <1>b, <1>1 DEF Builds
<1> QED
  BY <1>q DEF s

\* The governed snapshots, which 20260825_0009 creates before their batches.
LEMMA SnapshotsAreBuilt ==
    ASSUME NEW F, "20260825_0009" \notin F
    PROVE  Builds(governed_snapshots, F, 31, 2)
<1> DEFINE s == governed_snapshots
<1>b. DOMAIN s = 1..2
  BY DEF governed_snapshots
<1>1. s[1] = Create(Order[32], FormAt(F, Order[32]))
  <2>1. s[1] = Create("governed_mapping_profile_versions", Table({}, {{"version", "sha256"}}, {}))
    BY DEF governed_snapshots
  <2>2. FormAt(F, "governed_mapping_profile_versions") =
        GovernedSnapshotTables["governed_mapping_profile_versions"]
    BY MetadataTables, OtherForms DEF GovernedSnapshotNames, Changed
  <2>3. GovernedSnapshotTables["governed_mapping_profile_versions"] = Table({}, {{"version",
        "sha256"}}, {})
    BY DEF GovernedSnapshotTables
  <2>5. Order[32] = "governed_mapping_profile_versions"
    BY Orders
  <2> QED
    BY <2>1, <2>2, <2>3, <2>5, Zenon
<1>2. s[2] = Create(Order[33], FormAt(F, Order[33]))
  <2>1. s[2] = Create("governed_dataset_snapshots", Table(Owned \union {Ref("source_files",
        "restrict"), Ref("governed_mapping_profile_versions", "restrict")}, {{"id",
        "import_batch_id"}, {"dedupe_key"}}, {Values("status", {"ingesting", "validated",
        "validated_with_errors", "failed"})}))
    BY DEF governed_snapshots
  <2>2. Table(Owned \union {Ref("source_files", "restrict"),
        Ref("governed_mapping_profile_versions", "restrict")}, {{"id", "import_batch_id"},
        {"dedupe_key"}}, {Values("status", {"ingesting", "validated", "validated_with_errors",
        "failed"})})
        = Table(SnapshotRefs(F), {{"id", "import_batch_id"}, {"dedupe_key"}}, SnapshotChecks)
    BY DEF SnapshotRefs, SnapshotChecks
  <2>3. FormAt(F, "governed_dataset_snapshots")
        = Table(SnapshotRefs(F), {{"id", "import_batch_id"}, {"dedupe_key"}}, SnapshotChecks)
    BY ChangedForms
  <2>5. Order[33] = "governed_dataset_snapshots"
    BY Orders
  <2> QED
    BY <2>1, <2>2, <2>3, <2>5, Zenon
<1> HIDE DEF s
<1>q. Builds(s, F, 31, 2)
  BY <1>b, <1>1, <1>2 DEF Builds
<1> QED
  BY <1>q DEF s

\* Their rows, after the batches.
LEMMA RowsAreBuilt ==
    ASSUME NEW F
    PROVE  Builds(governed_rows, F, 34, 3)
<1> DEFINE s == governed_rows
<1>b. DOMAIN s = 1..3
  BY DEF governed_rows
<1>1. s[1] = Create(Order[35], FormAt(F, Order[35]))
  <2>1. s[1] = Create("governed_dataset_domain_statuses", Table(TenantSnapshot,
        {{"dataset_snapshot_id", "domain"}}, {Values("status", {"valid", "warning", "blocked"})}))
    BY DEF governed_rows
  <2>2. FormAt(F, "governed_dataset_domain_statuses") =
        GovernedRowTables["governed_dataset_domain_statuses"]
    BY MetadataTables, OtherForms DEF GovernedRowNames, Changed
  <2>3. GovernedRowTables["governed_dataset_domain_statuses"] = Table(OfSnapshot,
        {{"dataset_snapshot_id", "domain"}}, {Values("status", {"valid", "warning", "blocked"})})
    BY DEF GovernedRowTables
  <2>4. Table(TenantSnapshot, {{"dataset_snapshot_id", "domain"}}, {Values("status", {"valid",
        "warning", "blocked"})})
        = Table(OfSnapshot, {{"dataset_snapshot_id", "domain"}}, {Values("status", {"valid",
              "warning", "blocked"})})
    BY DEF OfSnapshot, TenantSnapshot
  <2>5. Order[35] = "governed_dataset_domain_statuses"
    BY Orders
  <2> QED
    BY <2>1, <2>2, <2>3, <2>4, <2>5, Zenon
<1>2. s[2] = Create(Order[36], FormAt(F, Order[36]))
  <2>1. s[2] = Create("governed_raw_rows", Table(TenantSnapshot \union
        {Ref("governed_import_batches", "no action")}, {{"dataset_snapshot_id", "domain",
        "source_sheet", "source_row_number"}, {"dataset_snapshot_id", "id"}},
        {Values("validation_status", {"valid", "warning", "invalid"})}))
    BY DEF governed_rows
  <2>2. FormAt(F, "governed_raw_rows") = GovernedRowTables["governed_raw_rows"]
    BY MetadataTables, OtherForms DEF GovernedRowNames, Changed
  <2>3. GovernedRowTables["governed_raw_rows"] = Table(OfSnapshot \union
        {Ref("governed_import_batches", "no action")}, {{"dataset_snapshot_id", "domain",
        "source_sheet", "source_row_number"}, {"dataset_snapshot_id", "id"}},
        {Values("validation_status", {"valid", "warning", "invalid"})})
    BY DEF GovernedRowTables
  <2>4. Table(TenantSnapshot \union {Ref("governed_import_batches", "no action")},
        {{"dataset_snapshot_id", "domain", "source_sheet", "source_row_number"},
        {"dataset_snapshot_id", "id"}}, {Values("validation_status", {"valid", "warning",
        "invalid"})})
        = Table(OfSnapshot \union {Ref("governed_import_batches", "no action")},
              {{"dataset_snapshot_id", "domain", "source_sheet", "source_row_number"},
              {"dataset_snapshot_id", "id"}}, {Values("validation_status", {"valid", "warning",
              "invalid"})})
    BY DEF Cascades, OfSnapshot, TenantSnapshot
  <2>5. Order[36] = "governed_raw_rows"
    BY Orders
  <2> QED
    BY <2>1, <2>2, <2>3, <2>4, <2>5, Zenon
<1>3. s[3] = Create(Order[37], FormAt(F, Order[37]))
  <2>1. s[3] = Create("governed_wbs_nodes", Table(TenantSnapshot \union {Ref("governed_raw_rows",
        "no action"), OptionalRef("governed_wbs_nodes", "no action")}, {{"dataset_snapshot_id",
        "source_key"}, {"raw_row_id"}, {"dataset_snapshot_id", "id"}}, {}))
    BY DEF governed_rows
  <2>2. FormAt(F, "governed_wbs_nodes") = GovernedRowTables["governed_wbs_nodes"]
    BY MetadataTables, OtherForms DEF GovernedRowNames, Changed
  <2>3. GovernedRowTables["governed_wbs_nodes"] = Table(OfSnapshot \union
        {Ref("governed_raw_rows", "no action"), OptionalRef("governed_wbs_nodes", "no action")},
        {{"dataset_snapshot_id", "source_key"}, {"raw_row_id"}, {"dataset_snapshot_id", "id"}},
        {})
    BY DEF GovernedRowTables
  <2>4. Table(TenantSnapshot \union {Ref("governed_raw_rows", "no action"),
        OptionalRef("governed_wbs_nodes", "no action")}, {{"dataset_snapshot_id", "source_key"},
        {"raw_row_id"}, {"dataset_snapshot_id", "id"}}, {})
        = Table(OfSnapshot \union {Ref("governed_raw_rows", "no action"),
              OptionalRef("governed_wbs_nodes", "no action")}, {{"dataset_snapshot_id",
              "source_key"}, {"raw_row_id"}, {"dataset_snapshot_id", "id"}}, {})
    BY DEF Cascades, OfSnapshot, TenantSnapshot
  <2>5. Order[37] = "governed_wbs_nodes"
    BY Orders
  <2> QED
    BY <2>1, <2>2, <2>3, <2>4, <2>5, Zenon
<1> HIDE DEF s
<1>q. Builds(s, F, 34, 3)
  BY <1>b, <1>1, <1>2, <1>3 DEF Builds
<1> QED
  BY <1>q DEF s

\* Their facts.
LEMMA FactsAreBuilt ==
    ASSUME NEW F
    PROVE  Builds(governed_facts, F, 37, 5)
<1> DEFINE s == governed_facts
<1>b. DOMAIN s = 1..5
  BY DEF governed_facts
<1>f. /\ governed_facts[1] = Create("governed_budget_records", CanonicalTable)
      /\ governed_facts[2] = Create("governed_actual_cost_records", CanonicalTable)
      /\ governed_facts[3] = Create("governed_commitment_records", CanonicalTable)
      /\ governed_facts[4] = Create("governed_schedule_activities", CanonicalTable)
      /\ governed_facts[5] = Create("governed_progress_records", CanonicalTable)
  BY DEF governed_facts
<1>1. s[1] = Create(Order[38], FormAt(F, Order[38]))
  <2>0. s[1] = governed_facts[1]
    OBVIOUS
  <2>1. s[1] = Create("governed_budget_records", CanonicalTable)
    BY <2>0, <1>f
  <2>2. FormAt(F, "governed_budget_records") = GovernedFactTables["governed_budget_records"]
    BY MetadataTables, OtherForms DEF GovernedFactNames, Changed
  <2>3. GovernedFactTables["governed_budget_records"] = GovernedFact
    BY DEF GovernedFactTables
  <2>4. CanonicalTable
        = GovernedFact
    BY DEF CanonicalTable, GovernedFact, OfSnapshot, TenantSnapshot
  <2>5. Order[38] = "governed_budget_records"
    BY Orders
  <2> QED
    BY <2>1, <2>2, <2>3, <2>4, <2>5, Zenon
<1>2. s[2] = Create(Order[39], FormAt(F, Order[39]))
  <2>0. s[2] = governed_facts[2]
    OBVIOUS
  <2>1. s[2] = Create("governed_actual_cost_records", CanonicalTable)
    BY <2>0, <1>f
  <2>2. FormAt(F, "governed_actual_cost_records") =
        GovernedFactTables["governed_actual_cost_records"]
    BY MetadataTables, OtherForms DEF GovernedFactNames, Changed
  <2>3. GovernedFactTables["governed_actual_cost_records"] = GovernedFact
    BY DEF GovernedFactTables
  <2>4. CanonicalTable
        = GovernedFact
    BY DEF CanonicalTable, GovernedFact, OfSnapshot, TenantSnapshot
  <2>5. Order[39] = "governed_actual_cost_records"
    BY Orders
  <2> QED
    BY <2>1, <2>2, <2>3, <2>4, <2>5, Zenon
<1>3. s[3] = Create(Order[40], FormAt(F, Order[40]))
  <2>0. s[3] = governed_facts[3]
    OBVIOUS
  <2>1. s[3] = Create("governed_commitment_records", CanonicalTable)
    BY <2>0, <1>f
  <2>2. FormAt(F, "governed_commitment_records") =
        GovernedFactTables["governed_commitment_records"]
    BY MetadataTables, OtherForms DEF GovernedFactNames, Changed
  <2>3. GovernedFactTables["governed_commitment_records"] = GovernedFact
    BY DEF GovernedFactTables
  <2>4. CanonicalTable
        = GovernedFact
    BY DEF CanonicalTable, GovernedFact, OfSnapshot, TenantSnapshot
  <2>5. Order[40] = "governed_commitment_records"
    BY Orders
  <2> QED
    BY <2>1, <2>2, <2>3, <2>4, <2>5, Zenon
<1>4. s[4] = Create(Order[41], FormAt(F, Order[41]))
  <2>0. s[4] = governed_facts[4]
    OBVIOUS
  <2>1. s[4] = Create("governed_schedule_activities", CanonicalTable)
    BY <2>0, <1>f
  <2>2. FormAt(F, "governed_schedule_activities") =
        GovernedFactTables["governed_schedule_activities"]
    BY MetadataTables, OtherForms DEF GovernedFactNames, Changed
  <2>3. GovernedFactTables["governed_schedule_activities"] = GovernedFact
    BY DEF GovernedFactTables
  <2>4. CanonicalTable
        = GovernedFact
    BY DEF CanonicalTable, GovernedFact, OfSnapshot, TenantSnapshot
  <2>5. Order[41] = "governed_schedule_activities"
    BY Orders
  <2> QED
    BY <2>1, <2>2, <2>3, <2>4, <2>5, Zenon
<1>5. s[5] = Create(Order[42], FormAt(F, Order[42]))
  <2>0. s[5] = governed_facts[5]
    OBVIOUS
  <2>1. s[5] = Create("governed_progress_records", CanonicalTable)
    BY <2>0, <1>f
  <2>2. FormAt(F, "governed_progress_records") = GovernedFactTables["governed_progress_records"]
    BY MetadataTables, OtherForms DEF GovernedFactNames, Changed
  <2>3. GovernedFactTables["governed_progress_records"] = GovernedFact
    BY DEF GovernedFactTables
  <2>4. CanonicalTable
        = GovernedFact
    BY DEF CanonicalTable, GovernedFact, OfSnapshot, TenantSnapshot
  <2>5. Order[42] = "governed_progress_records"
    BY Orders
  <2> QED
    BY <2>1, <2>2, <2>3, <2>4, <2>5, Zenon
<1> HIDE DEF s
<1>q. Builds(s, F, 37, 5)
  BY <1>b, <1>1, <1>2, <1>3, <1>4, <1>5 DEF Builds
<1> QED
  BY <1>q DEF s

\* What the revision of telemetry and feedback creates, before 20260831_0013
\* renames its indexes.
LEMMA TelemetryIsBuilt ==
    ASSUME NEW F, "20260831_0013" \notin F
    PROVE  Builds(beta_telemetry_feedback, F, 42, 2)
<1> DEFINE s == beta_telemetry_feedback
<1>b. DOMAIN s = 1..2
  BY DEF beta_telemetry_feedback
<1>1. s[1] = Create(Order[43], FormAt(F, Order[43]))
  <2>1. s[1] = Create("product_events", Table(Cascades({"organizations"}) \union Users \union
        {OptionalRef(t, "set null") : t \in {"projects", "analysis_runs", "findings"}}, {},
        {ShortNames}))
    BY DEF beta_telemetry_feedback
  <2>2. Table(Cascades({"organizations"}) \union Users \union {OptionalRef(t, "set null") : t \in
        {"projects", "analysis_runs", "findings"}}, {}, {ShortNames})
        = Table(EventRefs, {}, {IndexNames(F)})
    BY DEF EventRefs, IndexNames
  <2>3. FormAt(F, "product_events")
        = Table(EventRefs, {}, {IndexNames(F)})
    BY ChangedForms
  <2>5. Order[43] = "product_events"
    BY Orders
  <2> QED
    BY <2>1, <2>2, <2>3, <2>5, Zenon
<1>2. s[2] = Create(Order[44], FormAt(F, Order[44]))
  <2>1. s[2] = Create("finding_feedback", Table(Owned \union Users \union {Ref("analysis_runs",
        "cascade"), OptionalRef("findings", "cascade")}, {}, {Values("rating", {"useful",
        "not_useful"}), Values("status", {"new", "reviewed", "archived"}), ShortNames}))
    BY DEF beta_telemetry_feedback
  <2>2. Table(Owned \union Users \union {Ref("analysis_runs", "cascade"), OptionalRef("findings",
        "cascade")}, {}, {Values("rating", {"useful", "not_useful"}), Values("status", {"new",
        "reviewed", "archived"}), ShortNames})
        = Table(FeedbackRefs, {}, FeedbackChecks \union {IndexNames(F)})
    BY DEF FeedbackRefs, FeedbackChecks, IndexNames, Cascades
  <2>3. FormAt(F, "finding_feedback")
        = Table(FeedbackRefs, {}, FeedbackChecks \union {IndexNames(F)})
    BY ChangedForms
  <2>5. Order[44] = "finding_feedback"
    BY Orders
  <2> QED
    BY <2>1, <2>2, <2>3, <2>5, Zenon
<1> HIDE DEF s
<1>q. Builds(s, F, 42, 2)
  BY <1>b, <1>1, <1>2 DEF Builds
<1> QED
  BY <1>q DEF s

\* What the revision of AI insights creates.
LEMMA InsightsAreBuilt ==
    ASSUME NEW F
    PROVE  Builds(ai_insights, F, 44, 1)
<1> DEFINE s == ai_insights
<1>b. DOMAIN s = 1..1
  BY DEF ai_insights
<1>1. s[1] = Create(Order[45], FormAt(F, Order[45]))
  <2>1. s[1] = Create("ai_insights", Table(Owned \union Cascades({"analysis_runs"}),
        {{"analysis_run_id"}}, {Values("status", {"pending", "generating", "ready", "failed"})}))
    BY DEF ai_insights
  <2>2. FormAt(F, "ai_insights") = AITables["ai_insights"]
    BY MetadataTables, OtherForms DEF AINames, Changed
  <2>3. AITables["ai_insights"] = Table(Owned \union Cascades({"analysis_runs"}),
        {{"analysis_run_id"}}, {Values("status", {"pending", "generating", "ready", "failed"})})
    BY DEF AITables
  <2>5. Order[45] = "ai_insights"
    BY Orders
  <2> QED
    BY <2>1, <2>2, <2>3, <2>5, Zenon
<1> HIDE DEF s
<1>q. Builds(s, F, 44, 1)
  BY <1>b, <1>1 DEF Builds
<1> QED
  BY <1>q DEF s

\* What the revision of analysis jobs creates.
LEMMA JobsAreBuilt ==
    ASSUME NEW F
    PROVE  Builds(add_analysis_jobs, F, 45, 1)
<1> DEFINE s == add_analysis_jobs
<1>b. DOMAIN s = 1..1
  BY DEF add_analysis_jobs
<1>1. s[1] = Create(Order[46], FormAt(F, Order[46]))
  <2>1. s[1] = Create("analysis_jobs", Table(Owned \union {OptionalRef("analysis_runs",
        "set null")}, {}, {Values("status", {"queued", "processing", "completed", "failed"})}))
    BY DEF add_analysis_jobs
  <2>2. FormAt(F, "analysis_jobs") = ReportAndJobTables["analysis_jobs"]
    BY MetadataTables, OtherForms DEF ReportAndJobNames, Changed
  <2>3. ReportAndJobTables["analysis_jobs"] = Table(Owned \union {OptionalRef("analysis_runs",
        "set null")}, {}, {Values("status", {"queued", "processing", "completed", "failed"})})
    BY DEF ReportAndJobTables
  <2>5. Order[46] = "analysis_jobs"
    BY Orders
  <2> QED
    BY <2>1, <2>2, <2>3, <2>5, Zenon
<1> HIDE DEF s
<1>q. Builds(s, F, 45, 1)
  BY <1>b, <1>1 DEF Builds
<1> QED
  BY <1>q DEF s

\* The places of the tables of each revision that creates some.
LEMMA RevisionSpans ==
    /\ Spans("20260817_0001", 0, 10)
    /\ Spans("20260821_0002", 10, 9)
    /\ Spans("20260822_0003", 19, 1)
    /\ Spans("20260904_0004", 20, 3)
    /\ Spans("20260905_0005", 23, 2)
    /\ Spans("20260823_0006", 25, 2)
    /\ Spans("20260823_0007", 27, 3)
    /\ Spans("20260823_0008", 30, 1)
    /\ Spans("20260825_0009", 31, 11)
    /\ Spans("20260906_0001", 42, 2)
    /\ Spans("20260907_0002", 44, 1)
    /\ Spans("20260908_0001", 45, 1)
<1>1. Spans("20260817_0001", 0, 10)
  BY DEF Spans, RevisionAt
<1>2. Spans("20260821_0002", 10, 9)
  BY DEF Spans, RevisionAt
<1>3. Spans("20260822_0003", 19, 1)
  BY DEF Spans, RevisionAt
<1>4. Spans("20260904_0004", 20, 3)
  BY DEF Spans, RevisionAt
<1>5. Spans("20260905_0005", 23, 2)
  BY DEF Spans, RevisionAt
<1>6. Spans("20260823_0006", 25, 2)
  BY DEF Spans, RevisionAt
<1>7. Spans("20260823_0007", 27, 3)
  BY DEF Spans, RevisionAt
<1>8. Spans("20260823_0008", 30, 1)
  BY DEF Spans, RevisionAt
<1>9. Spans("20260825_0009", 31, 11)
  BY DEF Spans, RevisionAt
<1>10. Spans("20260906_0001", 42, 2)
  BY DEF Spans, RevisionAt
<1>11. Spans("20260907_0002", 44, 1)
  BY DEF Spans, RevisionAt
<1>12. Spans("20260908_0001", 45, 1)
  BY DEF Spans, RevisionAt
<1> QED
  BY <1>1, <1>2, <1>3, <1>4, <1>5, <1>6, <1>7, <1>8, <1>9, <1>10, <1>11, <1>12

\* The revisions that only create tables.
PlainTable ==
    {"20260817_0001", "20260821_0002", "20260822_0003", "20260904_0004", "20260905_0005",
     "20260823_0006", "20260823_0007", "20260823_0008", "20260906_0001", "20260907_0002",
     "20260908_0001"}

\* Such a revision is applied, and leaves the rows as they are.
LEMMA PlainUpgrade ==
    ASSUME NEW S, NEW r \in PlainTable, Fresh(S, r), NEW rows, StoredIn(SchemaAt(S), rows)
    PROVE  /\ Script(Db(SchemaAt(S), rows), upgrade(r)) = Db(SchemaAt(S \union {r}), rows)
           /\ StoredIn(SchemaAt(S \union {r}), rows)
<1>0. r \notin Altering
  BY DEF PlainTable, Altering
<1>1. /\ r = "20260817_0001" => "20260825_0010" \notin S \union {r}
      /\ r = "20260822_0003" => "20260825_0011" \notin S \union {r}
      /\ r = "20260906_0001" => "20260831_0013" \notin S \union {r}
  BY ClosedChain DEF Fresh
<1>2. CASE r = "20260817_0001"
  <2>1. Builds(phase4a_persistence, S \union {r}, 0, 10)
    BY <1>1, <1>2, CoreIsBuilt
  <2>2. upgrade(r) = phase4a_persistence
    BY <1>2 DEF upgrade
  <2>3. Builds(upgrade(r), S \union {r}, 0, 10)
    BY <2>1, <2>2, Zenon
  <2>4. Spans(r, 0, 10) /\ 0 \in Nat /\ 10 \in Nat
    BY <1>2, RevisionSpans
  <2> QED
    BY <1>0, <2>3, <2>4, RevisionCreates
<1>3. CASE r = "20260821_0002"
  <2>1. Builds(phase4b_lineage \o phase4b_facts, S \union {r}, 10, 9)
    BY <1>1, <1>3, SimplifiedIsBuilt
  <2>2. upgrade(r) = phase4b_lineage \o phase4b_facts
    BY <1>3 DEF upgrade
  <2>3. Builds(upgrade(r), S \union {r}, 10, 9)
    BY <2>1, <2>2, Zenon
  <2>4. Spans(r, 10, 9) /\ 10 \in Nat /\ 9 \in Nat
    BY <1>3, RevisionSpans
  <2> QED
    BY <1>0, <2>3, <2>4, RevisionCreates
<1>4. CASE r = "20260822_0003"
  <2>1. Builds(phase5c_health_scoring, S \union {r}, 19, 1)
    BY <1>1, <1>4, HealthIsBuilt
  <2>2. upgrade(r) = phase5c_health_scoring
    BY <1>4 DEF upgrade
  <2>3. Builds(upgrade(r), S \union {r}, 19, 1)
    BY <2>1, <2>2, Zenon
  <2>4. Spans(r, 19, 1) /\ 19 \in Nat /\ 1 \in Nat
    BY <1>4, RevisionSpans
  <2> QED
    BY <1>0, <2>3, <2>4, RevisionCreates
<1>5. CASE r = "20260904_0004"
  <2>1. Builds(phase4c_auth_rbac, S \union {r}, 20, 3)
    BY <1>1, <1>5, UsersAreBuilt
  <2>2. upgrade(r) = phase4c_auth_rbac
    BY <1>5 DEF upgrade
  <2>3. Builds(upgrade(r), S \union {r}, 20, 3)
    BY <2>1, <2>2, Zenon
  <2>4. Spans(r, 20, 3) /\ 20 \in Nat /\ 3 \in Nat
    BY <1>5, RevisionSpans
  <2> QED
    BY <1>0, <2>3, <2>4, RevisionCreates
<1>6. CASE r = "20260905_0005"
  <2>1. Builds(phase6_ai_layer, S \union {r}, 23, 2)
    BY <1>1, <1>6, ConversationsAreBuilt
  <2>2. upgrade(r) = phase6_ai_layer
    BY <1>6 DEF upgrade
  <2>3. Builds(upgrade(r), S \union {r}, 23, 2)
    BY <2>1, <2>2, Zenon
  <2>4. Spans(r, 23, 2) /\ 23 \in Nat /\ 2 \in Nat
    BY <1>6, RevisionSpans
  <2> QED
    BY <1>0, <2>3, <2>4, RevisionCreates
<1>7. CASE r = "20260823_0006"
  <2>1. Builds(actions_closure_governance, S \union {r}, 25, 2)
    BY <1>1, <1>7, ActionsAreBuilt
  <2>2. upgrade(r) = actions_closure_governance
    BY <1>7 DEF upgrade
  <2>3. Builds(upgrade(r), S \union {r}, 25, 2)
    BY <2>1, <2>2, Zenon
  <2>4. Spans(r, 25, 2) /\ 25 \in Nat /\ 2 \in Nat
    BY <1>7, RevisionSpans
  <2> QED
    BY <1>0, <2>3, <2>4, RevisionCreates
<1>8. CASE r = "20260823_0007"
  <2>1. Builds(approval_escalation_governance, S \union {r}, 27, 3)
    BY <1>1, <1>8, GovernanceIsBuilt
  <2>2. upgrade(r) = approval_escalation_governance
    BY <1>8 DEF upgrade
  <2>3. Builds(upgrade(r), S \union {r}, 27, 3)
    BY <2>1, <2>2, Zenon
  <2>4. Spans(r, 27, 3) /\ 27 \in Nat /\ 3 \in Nat
    BY <1>8, RevisionSpans
  <2> QED
    BY <1>0, <2>3, <2>4, RevisionCreates
<1>9. CASE r = "20260823_0008"
  <2>1. Builds(persisted_report_packages, S \union {r}, 30, 1)
    BY <1>1, <1>9, ReportsAreBuilt
  <2>2. upgrade(r) = persisted_report_packages
    BY <1>9 DEF upgrade
  <2>3. Builds(upgrade(r), S \union {r}, 30, 1)
    BY <2>1, <2>2, Zenon
  <2>4. Spans(r, 30, 1) /\ 30 \in Nat /\ 1 \in Nat
    BY <1>9, RevisionSpans
  <2> QED
    BY <1>0, <2>3, <2>4, RevisionCreates
<1>10. CASE r = "20260906_0001"
  <2>1. Builds(beta_telemetry_feedback, S \union {r}, 42, 2)
    BY <1>1, <1>10, TelemetryIsBuilt
  <2>2. upgrade(r) = beta_telemetry_feedback
    BY <1>10 DEF upgrade
  <2>3. Builds(upgrade(r), S \union {r}, 42, 2)
    BY <2>1, <2>2, Zenon
  <2>4. Spans(r, 42, 2) /\ 42 \in Nat /\ 2 \in Nat
    BY <1>10, RevisionSpans
  <2> QED
    BY <1>0, <2>3, <2>4, RevisionCreates
<1>11. CASE r = "20260907_0002"
  <2>1. Builds(ai_insights, S \union {r}, 44, 1)
    BY <1>1, <1>11, InsightsAreBuilt
  <2>2. upgrade(r) = ai_insights
    BY <1>11 DEF upgrade
  <2>3. Builds(upgrade(r), S \union {r}, 44, 1)
    BY <2>1, <2>2, Zenon
  <2>4. Spans(r, 44, 1) /\ 44 \in Nat /\ 1 \in Nat
    BY <1>11, RevisionSpans
  <2> QED
    BY <1>0, <2>3, <2>4, RevisionCreates
<1>12. CASE r = "20260908_0001"
  <2>1. Builds(add_analysis_jobs, S \union {r}, 45, 1)
    BY <1>1, <1>12, JobsAreBuilt
  <2>2. upgrade(r) = add_analysis_jobs
    BY <1>12 DEF upgrade
  <2>3. Builds(upgrade(r), S \union {r}, 45, 1)
    BY <2>1, <2>2, Zenon
  <2>4. Spans(r, 45, 1) /\ 45 \in Nat /\ 1 \in Nat
    BY <1>12, RevisionSpans
  <2> QED
    BY <1>0, <2>3, <2>4, RevisionCreates
<1> QED
  BY <1>2, <1>3, <1>4, <1>5, <1>6, <1>7, <1>8, <1>9, <1>10, <1>11, <1>12 DEF PlainTable

\* s drops the tables at the n places after base, from the last to the first.
Razes(s, base, n, name) ==
    /\ s = DropAll(name)
    /\ DOMAIN name = 1..n
    /\ \A i \in 1..n : name[i] = Order[base + n + 1 - i]

\* Only two revisions have snapshots that runs may refer to.
LEMMA RunsGoFirst ==
    ASSUME NEW r, r \notin {"20260817_0001", "20260825_0009"}, NEW base \in Nat, NEW n \in Nat,
           Spans(r, base, n), NEW s, NEW name, Razes(s, base, n, name), NEW rows
    PROVE  RunsFirst(name, n, rows)
<1>1. ASSUME NEW i \in 1..n
      PROVE  name[i] \notin {"dataset_snapshots", "governed_dataset_snapshots"}
  <2>0. base + n <= 46 /\ i \in Nat /\ 1 <= i /\ i <= n
    BY DEF Spans
  <2>1. base + n + 1 - i \in 1..46 /\ base + n + 1 - i \in (base + 1)..(base + n)
    BY <2>0
  <2>2. RevisionOf(name[i]) = r
    <3>1. name[i] = Order[base + n + 1 - i]
      BY Zenon DEF Razes
    <3>2. Place[Order[base + n + 1 - i]] = base + n + 1 - i
      BY <2>1, OrderPlaces, Zenon
    <3>3. RevisionAt(base + n + 1 - i) = r
      BY <2>1, Zenon DEF Spans
    <3> QED
      BY <3>1, <3>2, <3>3, Zenon DEF RevisionOf
  <2> QED
    BY <2>2, Revised
<1> QED
  BY <1>1 DEF RunsFirst

\* It is undone, with the rows of its tables.
LEMMA PlainDowngrade ==
    ASSUME NEW S, NEW r \in PlainTable, Topmost(S, r), NEW rows, StoredIn(SchemaAt(S), rows)
    PROVE  \E X : /\ Script(Db(SchemaAt(S), rows), downgrade(r))
                        = Db(SchemaAt(S \ {r}), Without(rows, X))
                  /\ StoredIn(SchemaAt(S \ {r}), Without(rows, X))
<1>0. SchemaOf(NamesAt(S), S \ {r}) = SchemaAt(S)
  <2>1. r \notin Altering /\ (S \ {r}) \union {r} = S
    BY DEF PlainTable, Altering, Topmost
  <2>2. \A t : FormAt(S, t) = FormAt(S \ {r}, t)
    BY <2>1, FormStays
  <2> QED
    BY <2>2 DEF SchemaAt, SchemaOf
<1>1. ASSUME NEW base \in Nat, NEW n \in Nat, Spans(r, base, n), NEW name,
             Razes(downgrade(r), base, n, name), RunsFirst(name, n, rows)
      PROVE  \E X : /\ Script(Db(SchemaAt(S), rows), downgrade(r))
                          = Db(SchemaAt(S \ {r}), Without(rows, X))
                    /\ StoredIn(SchemaAt(S \ {r}), Without(rows, X))
  <2>1. downgrade(r) = DropAll(name) /\ DOMAIN name = 1..n
        /\ \A i \in 1..n : name[i] = Order[base + n + 1 - i]
    BY <1>1 DEF Razes
  <2>2. StoredIn(SchemaOf(NamesAt(S), S \ {r}), rows)
    BY <1>0
  <2>3. /\ Script(Db(SchemaOf(NamesAt(S), S \ {r}), rows), DropAll(name))
               = Db(SchemaAt(S \ {r}), Without(rows, ListedAs(name, n)))
        /\ StoredIn(SchemaAt(S \ {r}), Without(rows, ListedAs(name, n)))
    BY <1>1, <2>1, <2>2, RevisionDrops
  <2> QED
    BY <1>0, <2>1, <2>3
<1>2. CASE r = "20260817_0001"
  <2> DEFINE name == <<"audit_logs", "approved_exceptions", "finding_evidence", "findings",
        "analysis_runs", "rule_catalogue_versions", "dataset_snapshots", "source_files",
        "projects", "organizations">>
  <2>1. downgrade(r) = DropAll(name)
    BY <1>2 DEF downgrade, undo_phase4a_persistence
  <2>2. DOMAIN name = 1..10 /\ \A i \in 1..10 : name[i] = Order[0 + 10 + 1 - i]
    BY Orders
  <2>3. Spans(r, 0, 10) /\ 0 \in Nat /\ 10 \in Nat
    BY <1>2, RevisionSpans
  <2>5. RunsFirst(name, 10, rows)
    <3>1. "analysis_runs" = name[5] /\ \A i \in 1..4 : name[i] \notin {"dataset_snapshots",
          "governed_dataset_snapshots"}
      OBVIOUS
    <3> HIDE DEF name
    <3>2. \A i \in 1..10 : i \in 1..4 \/ 5 \in 1..i
      OBVIOUS
    <3> QED
      BY <3>1, <3>2 DEF RunsFirst
  <2> HIDE DEF name
  <2>4. Razes(downgrade(r), 0, 10, name)
    BY <2>1, <2>2 DEF Razes
  <2> QED
    BY <1>1, <2>3, <2>4, <2>5
<1>3. CASE r = "20260821_0002"
  <2> DEFINE name == <<"progress_records", "schedule_activities", "commitment_records",
        "cost_records", "budget_records", "wbs_nodes", "import_column_mappings", "import_batches",
        "raw_rows">>
  <2>1. downgrade(r) = DropAll(name)
    BY <1>3 DEF downgrade, undo_phase4b_canonical_facts
  <2>2. DOMAIN name = 1..9 /\ \A i \in 1..9 : name[i] = Order[10 + 9 + 1 - i]
    BY Orders
  <2>3. Spans(r, 10, 9) /\ 10 \in Nat /\ 9 \in Nat
    BY <1>3, RevisionSpans
  <2> HIDE DEF name
  <2>4. Razes(downgrade(r), 10, 9, name)
    BY <2>1, <2>2 DEF Razes
  <2>5. RunsFirst(name, 9, rows)
    BY <1>3, <2>3, <2>4, RunsGoFirst
  <2> QED
    BY <1>1, <2>3, <2>4, <2>5
<1>4. CASE r = "20260822_0003"
  <2> DEFINE name == <<"health_snapshots">>
  <2>1. downgrade(r) = DropAll(name)
    <3>1. downgrade(r) = <<Drop("health_snapshots")>>
      BY <1>4 DEF downgrade, undo_phase5c_health_scoring
    <3>2. <<Drop("health_snapshots")>> = DropAll(name)
      BY DEF DropAll
    <3> QED
      BY <3>1, <3>2
  <2>2. DOMAIN name = 1..1 /\ \A i \in 1..1 : name[i] = Order[19 + 1 + 1 - i]
    BY Orders
  <2>3. Spans(r, 19, 1) /\ 19 \in Nat /\ 1 \in Nat
    BY <1>4, RevisionSpans
  <2> HIDE DEF name
  <2>4. Razes(downgrade(r), 19, 1, name)
    BY <2>1, <2>2 DEF Razes
  <2>5. RunsFirst(name, 1, rows)
    BY <1>4, <2>3, <2>4, RunsGoFirst
  <2> QED
    BY <1>1, <2>3, <2>4, <2>5
<1>5. CASE r = "20260904_0004"
  <2> DEFINE name == <<"project_members", "organization_members", "users">>
  <2>1. downgrade(r) = DropAll(name)
    BY <1>5 DEF downgrade, undo_phase4c_auth_rbac
  <2>2. DOMAIN name = 1..3 /\ \A i \in 1..3 : name[i] = Order[20 + 3 + 1 - i]
    BY Orders
  <2>3. Spans(r, 20, 3) /\ 20 \in Nat /\ 3 \in Nat
    BY <1>5, RevisionSpans
  <2> HIDE DEF name
  <2>4. Razes(downgrade(r), 20, 3, name)
    BY <2>1, <2>2 DEF Razes
  <2>5. RunsFirst(name, 3, rows)
    BY <1>5, <2>3, <2>4, RunsGoFirst
  <2> QED
    BY <1>1, <2>3, <2>4, <2>5
<1>6. CASE r = "20260905_0005"
  <2> DEFINE name == <<"ai_messages", "ai_conversations">>
  <2>1. downgrade(r) = DropAll(name)
    BY <1>6 DEF downgrade, undo_phase6_ai_layer
  <2>2. DOMAIN name = 1..2 /\ \A i \in 1..2 : name[i] = Order[23 + 2 + 1 - i]
    BY Orders
  <2>3. Spans(r, 23, 2) /\ 23 \in Nat /\ 2 \in Nat
    BY <1>6, RevisionSpans
  <2> HIDE DEF name
  <2>4. Razes(downgrade(r), 23, 2, name)
    BY <2>1, <2>2 DEF Razes
  <2>5. RunsFirst(name, 2, rows)
    BY <1>6, <2>3, <2>4, RunsGoFirst
  <2> QED
    BY <1>1, <2>3, <2>4, <2>5
<1>7. CASE r = "20260823_0006"
  <2> DEFINE name == <<"finding_action_history", "finding_actions">>
  <2>1. downgrade(r) = DropAll(name)
    BY <1>7 DEF downgrade, undo_actions_closure_governance
  <2>2. DOMAIN name = 1..2 /\ \A i \in 1..2 : name[i] = Order[25 + 2 + 1 - i]
    BY Orders
  <2>3. Spans(r, 25, 2) /\ 25 \in Nat /\ 2 \in Nat
    BY <1>7, RevisionSpans
  <2> HIDE DEF name
  <2>4. Razes(downgrade(r), 25, 2, name)
    BY <2>1, <2>2 DEF Razes
  <2>5. RunsFirst(name, 2, rows)
    BY <1>7, <2>3, <2>4, RunsGoFirst
  <2> QED
    BY <1>1, <2>3, <2>4, <2>5
<1>8. CASE r = "20260823_0007"
  <2> DEFINE name == <<"governance_escalations", "finding_closure_approvals",
        "project_governance_policies">>
  <2>1. downgrade(r) = DropAll(name)
    BY <1>8 DEF downgrade, undo_approval_escalation_governance
  <2>2. DOMAIN name = 1..3 /\ \A i \in 1..3 : name[i] = Order[27 + 3 + 1 - i]
    BY Orders
  <2>3. Spans(r, 27, 3) /\ 27 \in Nat /\ 3 \in Nat
    BY <1>8, RevisionSpans
  <2> HIDE DEF name
  <2>4. Razes(downgrade(r), 27, 3, name)
    BY <2>1, <2>2 DEF Razes
  <2>5. RunsFirst(name, 3, rows)
    BY <1>8, <2>3, <2>4, RunsGoFirst
  <2> QED
    BY <1>1, <2>3, <2>4, <2>5
<1>9. CASE r = "20260823_0008"
  <2> DEFINE name == <<"report_packages">>
  <2>1. downgrade(r) = DropAll(name)
    <3>1. downgrade(r) = <<Drop("report_packages")>>
      BY <1>9 DEF downgrade, undo_persisted_report_packages
    <3>2. <<Drop("report_packages")>> = DropAll(name)
      BY DEF DropAll
    <3> QED
      BY <3>1, <3>2
  <2>2. DOMAIN name = 1..1 /\ \A i \in 1..1 : name[i] = Order[30 + 1 + 1 - i]
    BY Orders
  <2>3. Spans(r, 30, 1) /\ 30 \in Nat /\ 1 \in Nat
    BY <1>9, RevisionSpans
  <2> HIDE DEF name
  <2>4. Razes(downgrade(r), 30, 1, name)
    BY <2>1, <2>2 DEF Razes
  <2>5. RunsFirst(name, 1, rows)
    BY <1>9, <2>3, <2>4, RunsGoFirst
  <2> QED
    BY <1>1, <2>3, <2>4, <2>5
<1>10. CASE r = "20260906_0001"
  <2> DEFINE name == <<"finding_feedback", "product_events">>
  <2>1. downgrade(r) = DropAll(name)
    BY <1>10 DEF downgrade, undo_beta_telemetry_feedback
  <2>2. DOMAIN name = 1..2 /\ \A i \in 1..2 : name[i] = Order[42 + 2 + 1 - i]
    BY Orders
  <2>3. Spans(r, 42, 2) /\ 42 \in Nat /\ 2 \in Nat
    BY <1>10, RevisionSpans
  <2> HIDE DEF name
  <2>4. Razes(downgrade(r), 42, 2, name)
    BY <2>1, <2>2 DEF Razes
  <2>5. RunsFirst(name, 2, rows)
    BY <1>10, <2>3, <2>4, RunsGoFirst
  <2> QED
    BY <1>1, <2>3, <2>4, <2>5
<1>11. CASE r = "20260907_0002"
  <2> DEFINE name == <<"ai_insights">>
  <2>1. downgrade(r) = DropAll(name)
    <3>1. downgrade(r) = <<Drop("ai_insights")>>
      BY <1>11 DEF downgrade, undo_ai_insights
    <3>2. <<Drop("ai_insights")>> = DropAll(name)
      BY DEF DropAll
    <3> QED
      BY <3>1, <3>2
  <2>2. DOMAIN name = 1..1 /\ \A i \in 1..1 : name[i] = Order[44 + 1 + 1 - i]
    BY Orders
  <2>3. Spans(r, 44, 1) /\ 44 \in Nat /\ 1 \in Nat
    BY <1>11, RevisionSpans
  <2> HIDE DEF name
  <2>4. Razes(downgrade(r), 44, 1, name)
    BY <2>1, <2>2 DEF Razes
  <2>5. RunsFirst(name, 1, rows)
    BY <1>11, <2>3, <2>4, RunsGoFirst
  <2> QED
    BY <1>1, <2>3, <2>4, <2>5
<1>12. CASE r = "20260908_0001"
  <2> DEFINE name == <<"analysis_jobs">>
  <2>1. downgrade(r) = DropAll(name)
    <3>1. downgrade(r) = <<Drop("analysis_jobs")>>
      BY <1>12 DEF downgrade, undo_add_analysis_jobs
    <3>2. <<Drop("analysis_jobs")>> = DropAll(name)
      BY DEF DropAll
    <3> QED
      BY <3>1, <3>2
  <2>2. DOMAIN name = 1..1 /\ \A i \in 1..1 : name[i] = Order[45 + 1 + 1 - i]
    BY Orders
  <2>3. Spans(r, 45, 1) /\ 45 \in Nat /\ 1 \in Nat
    BY <1>12, RevisionSpans
  <2> HIDE DEF name
  <2>4. Razes(downgrade(r), 45, 1, name)
    BY <2>1, <2>2 DEF Razes
  <2>5. RunsFirst(name, 1, rows)
    BY <1>12, <2>3, <2>4, RunsGoFirst
  <2> QED
    BY <1>1, <2>3, <2>4, <2>5
<1> QED
  BY <1>2, <1>3, <1>4, <1>5, <1>6, <1>7, <1>8, <1>9, <1>10, <1>11, <1>12 DEF PlainTable

-----------------------------------------------------------------------------
(* The revisions that change a table.                                         *)

\* T with another table t.
With(T, t, table) == [u \in DOMAIN T |-> IF u = t THEN table ELSE T[u]]

\* Only that table changes.
LEMMA WithIs ==
    ASSUME NEW T, NEW t \in DOMAIN T, NEW table
    PROVE  /\ DOMAIN With(T, t, table) = DOMAIN T
           /\ With(T, t, table)[t] = table
           /\ \A u \in DOMAIN T : u # t => With(T, t, table)[u] = T[u]
           /\ \A other : With(With(T, t, other), t, table) = With(T, t, table)
<1>1. DOMAIN With(T, t, table) = DOMAIN T
      /\ \A u \in DOMAIN T : With(T, t, table)[u] = IF u = t THEN table ELSE T[u]
  BY DEF With
<1>2. ASSUME NEW other
      PROVE  With(With(T, t, other), t, table) = With(T, t, table)
  BY DEF With
<1> QED
  BY <1>1, <1>2

\* One field of a table is replaced.
LEMMA FieldsChange ==
    ASSUME NEW R, NEW K, NEW C, NEW X
    PROVE  /\ [Table(R, K, C) EXCEPT !.refs = X] = Table(X, K, C)
           /\ [Table(R, K, C) EXCEPT !.checks = X] = Table(R, K, X)
BY DEF Table

\* One field of one table.
LEMMA TableChanges ==
    ASSUME NEW T, NEW t \in DOMAIN T, NEW R, NEW K, NEW C, NEW X,
           NEW A, A = With(T, t, Table(R, K, C))
    PROVE  /\ [A EXCEPT ![t].refs = X] = With(T, t, Table(X, K, C))
           /\ [A EXCEPT ![t].checks = X] = With(T, t, Table(R, K, X))
<1>1. DOMAIN A = DOMAIN T /\ A[t] = Table(R, K, C)
      /\ \A u \in DOMAIN T : u # t => A[u] = T[u]
  BY WithIs
<1> DEFINE table == Table(R, K, C)  Y == Table(X, K, C)  Z == Table(R, K, X)
<1>2. [table EXCEPT !.refs = X] = Y /\ [table EXCEPT !.checks = X] = Z
  BY FieldsChange
<1>3. A[t] = table
  BY <1>1
<1>4. [A EXCEPT ![t].refs = X] = [A EXCEPT ![t] = [A[t] EXCEPT !.refs = X]]
  OBVIOUS
<1>5. [A EXCEPT ![t].checks = X] = [A EXCEPT ![t] = [A[t] EXCEPT !.checks = X]]
  OBVIOUS
<1>6. [A[t] EXCEPT !.refs = X] = Y /\ [A[t] EXCEPT !.checks = X] = Z
  BY <1>2, <1>3
<1> HIDE DEF table, Y, Z
<1>7. \A B : [A EXCEPT ![t] = B] = With(T, t, B)
  <2> SUFFICES ASSUME NEW B PROVE [A EXCEPT ![t] = B] = With(T, t, B)
    OBVIOUS
  <2>1. A = [u \in DOMAIN T |-> A[u]]
    BY <1>1 DEF With
  <2> QED
    BY <1>1, <2>1 DEF With
<1>8. [A EXCEPT ![t].refs = X] = With(T, t, Y) /\ [A EXCEPT ![t].checks = X] = With(T, t, Z)
  BY <1>4, <1>5, <1>6, <1>7
<1> QED
  BY <1>8 DEF Y, Z

\* T with the table t of references R and checks C, and the rows.
At(T, t, R, K, C, rows) == Db(With(T, t, Table(R, K, C)), rows)
FitAt(T, t, R, K, C, rows) == Fit(With(T, t, Table(R, K, C)), rows)

\* What a statement about t, or about the rows, makes of them.
Turns(T, t, K, R, C, rows, s, R2, C2, rows2) ==
    /\ Applicable(At(T, t, R, K, C, rows), s)
    /\ TablesAfter(With(T, t, Table(R, K, C)), s) = With(T, t, Table(R2, K, C2))
    /\ RowsAfter(rows, s) = rows2
    /\ FitAt(T, t, R2, K, C2, rows2)

\* Such a statement is executed.
LEMMA TurnStep ==
    ASSUME NEW T, NEW t, NEW K, NEW R, NEW C, NEW rows, NEW s, NEW R2, NEW C2, NEW rows2,
           Turns(T, t, K, R, C, rows, s, R2, C2, rows2)
    PROVE  Execute(At(T, t, R, K, C, rows), s) = At(T, t, R2, K, C2, rows2)
<1> DEFINE A == With(T, t, Table(R, K, C))
           B == With(T, t, Table(R2, K, C2))
<1>1. /\ Applicable(Db(A, rows), s)
      /\ TablesAfter(A, s) = B /\ RowsAfter(rows, s) = rows2 /\ Fit(B, rows2)
  BY DEF Turns, At, FitAt
<1> HIDE DEF A, B
<1>2. Execute(Db(A, rows), s) = Db(B, rows2)
  BY <1>1, ExecuteStep
<1> QED
  BY <1>2 DEF At, A, B

\* The tables are those of T, and t has those keys and checks.
LEMMA AtIs ==
    ASSUME NEW T, NEW t \in DOMAIN T, NEW R, NEW K, NEW C, NEW rows
    PROVE  LET before == At(T, t, R, K, C, rows) IN
           /\ Names(before) = DOMAIN T
           /\ before.tables[t].refs = R
           /\ before.tables[t].checks = C
<1> DEFINE A == With(T, t, Table(R, K, C))
<1>1. DOMAIN A = DOMAIN T /\ A[t] = Table(R, K, C)
  BY WithIs
<1> HIDE DEF A
<1>2. Names(Db(A, rows)) = DOMAIN T /\ Db(A, rows).tables[t] = Table(R, K, C)
  BY <1>1, DbFields
<1>3. Names(Db(A, rows)) = DOMAIN T /\ Db(A, rows).tables[t].refs = R
      /\ Db(A, rows).tables[t].checks = C
  BY <1>2, TableFields
<1> QED
  BY <1>3 DEF At, A

\* A key is added to a table that is there, if the rows fit it.
LEMMA AddRefTurns ==
    ASSUME NEW T, NEW t \in DOMAIN T, NEW R, NEW K, NEW C, NEW rows, NEW ref,
           ref.table \in DOMAIN T, FitAt(T, t, R \union {ref}, K, C, rows)
    PROVE  Execute(At(T, t, R, K, C, rows), AddRef(t, ref)) = At(T, t, R \union {ref}, K, C, rows)
<1> DEFINE s == AddRef(t, ref)
           A == With(T, t, Table(R, K, C))
           base == At(T, t, R, K, C, rows)
<1>1. s.op = "add ref" /\ s.on = t /\ s.ref = ref
  BY DEF AddRef
<1>2. A[t].refs = R
          /\ [A EXCEPT ![t].refs = R \union {ref}] = With(T, t, Table(R \union {ref}, K, C))
  <2>1. A[t] = Table(R, K, C)
    BY WithIs
  <2>2. A[t].refs = R /\ A[t].checks = C
    BY <2>1, TableFields
  <2>3. A = With(T, t, Table(R, K, C))
    OBVIOUS
  <2> HIDE DEF A
  <2>4. \A X : /\ [A EXCEPT ![t].refs = X] = With(T, t, Table(X, K, C))
              /\ [A EXCEPT ![t].checks = X] = With(T, t, Table(R, K, X))
    BY <2>3, TableChanges
  <2> QED
    BY <2>2, <2>4, Zenon
<1>3. Names(base) = DOMAIN T
  BY AtIs
<1>4. [A EXCEPT ![t].refs = @ \union {ref}] = [A EXCEPT ![t].refs = R \union {ref}]
  <2> HIDE DEF A
  <2> QED
    BY <1>2
<1> HIDE DEF s, A, base
<1>5. TablesAfter(A, s) = [A EXCEPT ![t].refs = @ \union {ref}] /\ RowsAfter(rows, s) = rows
  BY <1>1 DEF TablesAfter, RowsAfter
<1>6. Applicable(base, s)
  BY <1>1, <1>3 DEF Applicable
<1>7. Turns(T, t, K, R, C, rows, s, R \union {ref}, C, rows)
  BY <1>2, <1>4, <1>5, <1>6, Zenon DEF Turns, A, base
<1>8. Execute(base, s) = At(T, t, R \union {ref}, K, C, rows)
  BY <1>7, TurnStep DEF base
<1> QED
  BY <1>8 DEF s, base

\* A key is dropped, with its column; a run loses what it said of snapshots.
LEMMA DropRefTurns ==
    ASSUME NEW T, NEW t \in DOMAIN T, NEW R, NEW K, NEW C, NEW rows, NEW ref \in R,
           NEW left, left = IF t = "analysis_runs" THEN WithoutColumn(rows, ref) ELSE rows,
           FitAt(T, t, R \ {ref}, K, C, left)
    PROVE  Execute(At(T, t, R, K, C, rows), DropRef(t, ref)) = At(T, t, R \ {ref}, K, C, left)
<1> DEFINE s == DropRef(t, ref)
           A == With(T, t, Table(R, K, C))
           base == At(T, t, R, K, C, rows)
<1>1. s.op = "drop ref" /\ s.on = t /\ s.ref = ref
  BY DEF DropRef
<1>2. A[t].refs = R /\ [A EXCEPT ![t].refs = R \ {ref}] = With(T, t, Table(R \ {ref}, K, C))
  <2>1. A[t] = Table(R, K, C)
    BY WithIs
  <2>2. A[t].refs = R /\ A[t].checks = C
    BY <2>1, TableFields
  <2>3. A = With(T, t, Table(R, K, C))
    OBVIOUS
  <2> HIDE DEF A
  <2>4. \A X : /\ [A EXCEPT ![t].refs = X] = With(T, t, Table(X, K, C))
              /\ [A EXCEPT ![t].checks = X] = With(T, t, Table(R, K, X))
    BY <2>3, TableChanges
  <2> QED
    BY <2>2, <2>4, Zenon
<1>3. Names(base) = DOMAIN T /\ base.tables[t].refs = R
  BY AtIs
<1>4. [A EXCEPT ![t].refs = @ \ {ref}] = [A EXCEPT ![t].refs = R \ {ref}]
  <2> HIDE DEF A
  <2> QED
    BY <1>2
<1> HIDE DEF s, A, base
<1>5. TablesAfter(A, s) = [A EXCEPT ![t].refs = @ \ {ref}] /\ RowsAfter(rows, s) = left
  BY <1>1 DEF TablesAfter, RowsAfter
<1>6. Applicable(base, s)
  BY <1>1, <1>3 DEF Applicable
<1>7. Turns(T, t, K, R, C, rows, s, R \ {ref}, C, left)
  BY <1>2, <1>4, <1>5, <1>6, Zenon DEF Turns, A, base
<1>8. Execute(base, s) = At(T, t, R \ {ref}, K, C, left)
  BY <1>7, TurnStep DEF base
<1> QED
  BY <1>8 DEF s, base

\* A key is made optional or required.
LEMMA AlterRefTurns ==
    ASSUME NEW T, NEW t \in DOMAIN T, NEW R, NEW K, NEW C, NEW rows, NEW was \in R, NEW ref,
           FitAt(T, t, (R \ {was}) \union {ref}, K, C, rows)
    PROVE  Execute(At(T, t, R, K, C, rows), AlterRef(t, was, ref))
              = At(T, t, (R \ {was}) \union {ref}, K, C, rows)
<1> DEFINE s == AlterRef(t, was, ref)
           A == With(T, t, Table(R, K, C))
           base == At(T, t, R, K, C, rows)
           Q == (R \ {was}) \union {ref}
<1>1. s.op = "alter ref" /\ s.on = t /\ s.was = was /\ s.ref = ref
  BY DEF AlterRef
<1>2. A[t].refs = R /\ [A EXCEPT ![t].refs = Q] = With(T, t, Table(Q, K, C))
  <2>1. A[t] = Table(R, K, C)
    BY WithIs
  <2>2. A[t].refs = R /\ A[t].checks = C
    BY <2>1, TableFields
  <2>3. A = With(T, t, Table(R, K, C))
    OBVIOUS
  <2> HIDE DEF A
  <2>4. \A X : /\ [A EXCEPT ![t].refs = X] = With(T, t, Table(X, K, C))
              /\ [A EXCEPT ![t].checks = X] = With(T, t, Table(R, K, X))
    BY <2>3, TableChanges
  <2> QED
    BY <2>2, <2>4, Zenon
<1>3. Names(base) = DOMAIN T /\ base.tables[t].refs = R
  BY AtIs
<1>4. [A EXCEPT ![t].refs = (@ \ {was}) \union {ref}] = [A EXCEPT ![t].refs = Q]
  <2> HIDE DEF A
  <2> QED
    BY <1>2
<1> HIDE DEF s, A, base
<1>5. TablesAfter(A, s) = [A EXCEPT ![t].refs = (@ \ {was}) \union {ref}]
      /\ RowsAfter(rows, s) = rows
  BY <1>1 DEF TablesAfter, RowsAfter
<1>6. Applicable(base, s)
  BY <1>1, <1>3 DEF Applicable
<1>7. Turns(T, t, K, R, C, rows, s, Q, C, rows)
  BY <1>2, <1>4, <1>5, <1>6, Zenon DEF Turns, A, base
<1>8. Execute(base, s) = At(T, t, Q, K, C, rows)
  <2> HIDE DEF Q
  <2> QED
    BY <1>7, TurnStep DEF base
<1> QED
  BY <1>8 DEF s, base

\* A check is added if the rows fit it.
LEMMA AddCheckTurns ==
    ASSUME NEW T, NEW t \in DOMAIN T, NEW R, NEW K, NEW C, NEW rows, NEW check,
           FitAt(T, t, R, K, C \union {check}, rows)
    PROVE  Execute(At(T, t, R, K, C, rows), AddCheck(t, check))
              = At(T, t, R, K, C \union {check}, rows)
<1> DEFINE s == AddCheck(t, check)
           A == With(T, t, Table(R, K, C))
           base == At(T, t, R, K, C, rows)
<1>1. s.op = "add check" /\ s.on = t /\ s.check = check
  BY DEF AddCheck
<1>2. A[t].checks = C
      /\ [A EXCEPT ![t].checks = C \union {check}] = With(T, t, Table(R, K, C \union {check}))
  <2>1. A[t] = Table(R, K, C)
    BY WithIs
  <2>2. A[t].refs = R /\ A[t].checks = C
    BY <2>1, TableFields
  <2>3. A = With(T, t, Table(R, K, C))
    OBVIOUS
  <2> HIDE DEF A
  <2>4. \A X : /\ [A EXCEPT ![t].refs = X] = With(T, t, Table(X, K, C))
              /\ [A EXCEPT ![t].checks = X] = With(T, t, Table(R, K, X))
    BY <2>3, TableChanges
  <2> QED
    BY <2>2, <2>4, Zenon
<1>3. Names(base) = DOMAIN T
  BY AtIs
<1>4. [A EXCEPT ![t].checks = @ \union {check}] = [A EXCEPT ![t].checks = C \union {check}]
  <2> HIDE DEF A
  <2> QED
    BY <1>2
<1> HIDE DEF s, A, base
<1>5. TablesAfter(A, s) = [A EXCEPT ![t].checks = @ \union {check}] /\ RowsAfter(rows, s) = rows
  BY <1>1 DEF TablesAfter, RowsAfter
<1>6. Applicable(base, s)
  BY <1>1, <1>3 DEF Applicable
<1>7. Turns(T, t, K, R, C, rows, s, R, C \union {check}, rows)
  BY <1>2, <1>4, <1>5, <1>6, Zenon DEF Turns, A, base
<1>8. Execute(base, s) = At(T, t, R, K, C \union {check}, rows)
  BY <1>7, TurnStep DEF base
<1> QED
  BY <1>8 DEF s, base

\* A check is dropped.
LEMMA DropCheckTurns ==
    ASSUME NEW T, NEW t \in DOMAIN T, NEW R, NEW K, NEW C, NEW rows, NEW check \in C,
           FitAt(T, t, R, K, C \ {check}, rows)
    PROVE  Execute(At(T, t, R, K, C, rows), DropCheck(t, check)) = At(T, t, R, K, C \ {check}, rows)
<1> DEFINE s == DropCheck(t, check)
           A == With(T, t, Table(R, K, C))
           base == At(T, t, R, K, C, rows)
<1>1. s.op = "drop check" /\ s.on = t /\ s.check = check
  BY DEF DropCheck
<1>2. A[t].checks = C /\ [A EXCEPT ![t].checks = C \ {check}] = With(T, t, Table(R, K, C \ {check}))
  <2>1. A[t] = Table(R, K, C)
    BY WithIs
  <2>2. A[t].refs = R /\ A[t].checks = C
    BY <2>1, TableFields
  <2>3. A = With(T, t, Table(R, K, C))
    OBVIOUS
  <2> HIDE DEF A
  <2>4. \A X : /\ [A EXCEPT ![t].refs = X] = With(T, t, Table(X, K, C))
              /\ [A EXCEPT ![t].checks = X] = With(T, t, Table(R, K, X))
    BY <2>3, TableChanges
  <2> QED
    BY <2>2, <2>4, Zenon
<1>3. Names(base) = DOMAIN T /\ base.tables[t].checks = C
  BY AtIs
<1>4. [A EXCEPT ![t].checks = @ \ {check}] = [A EXCEPT ![t].checks = C \ {check}]
  <2> HIDE DEF A
  <2> QED
    BY <1>2
<1> HIDE DEF s, A, base
<1>5. TablesAfter(A, s) = [A EXCEPT ![t].checks = @ \ {check}] /\ RowsAfter(rows, s) = rows
  BY <1>1 DEF TablesAfter, RowsAfter
<1>6. Applicable(base, s)
  BY <1>1, <1>3 DEF Applicable
<1>7. Turns(T, t, K, R, C, rows, s, R, C \ {check}, rows)
  BY <1>2, <1>4, <1>5, <1>6, Zenon DEF Turns, A, base
<1>8. Execute(base, s) = At(T, t, R, K, C \ {check}, rows)
  BY <1>7, TurnStep DEF base
<1> QED
  BY <1>8 DEF s, base

MayUpdate(N, statement) ==
    \/ /\ statement = "copy governed snapshots"
       /\ {"dataset_snapshots", "governed_dataset_snapshots"} \subseteq N
    \/ statement = "fill scores" /\ "health_snapshots" \in N

\* An update changes no table.
LEMMA UpdateTurns ==
    ASSUME NEW T, NEW t \in DOMAIN T, NEW R, NEW K, NEW C, NEW rows, NEW statement,
           MayUpdate(DOMAIN T, statement),
           FitAt(T, t, R, K, C, RowsAfter(rows, Update(statement)))
    PROVE  Execute(At(T, t, R, K, C, rows), Update(statement))
              = At(T, t, R, K, C, RowsAfter(rows, Update(statement)))
<1> DEFINE s == Update(statement)
           A == With(T, t, Table(R, K, C))
           base == At(T, t, R, K, C, rows)
<1>1. s.op = statement /\ statement \in {"copy governed snapshots", "fill scores"}
  BY DEF Update, MayUpdate
<1>3. Names(base) = DOMAIN T
  <2> HIDE DEF s
  <2>1. Names(At(T, t, R, K, C, rows)) = DOMAIN T
    BY AtIs
  <2> QED
    BY <2>1
<1> HIDE DEF s, A, base
<1>5. TablesAfter(A, s) = A
  BY <1>1 DEF TablesAfter
<1>6. Applicable(base, s)
  BY <1>1, <1>3 DEF Applicable, MayUpdate
<1>7. Turns(T, t, K, R, C, rows, s, R, C, RowsAfter(rows, s))
  BY <1>5, <1>6, Zenon DEF Turns, A, base, s
<1> DEFINE left == RowsAfter(rows, s)
<1> HIDE DEF left
<1>8. Execute(base, s) = At(T, t, R, K, C, left)
  <2>1. Turns(T, t, K, R, C, rows, s, R, C, left)
    BY <1>7 DEF left
  <2> QED
    BY <2>1, TurnStep DEF base
<1> QED
  BY <1>8 DEF s, base, left

\* Three, four and five statements.
LEMMA ScriptOfThree ==
    ASSUME NEW base, NEW a, NEW b, NEW c, NEW x, x = Execute(base, a), NEW y, y = Execute(x, b),
           NEW z, z = Execute(y, c)
    PROVE  Script(base, <<a, b, c>>) = z
<1> DEFINE s == <<a, b, c>>
           D == [i \in 0..3 |-> IF i = 0 THEN base ELSE IF i = 1 THEN x ELSE IF i = 2 THEN y ELSE z]
<1>1. D[0] = base /\ D[1] = x /\ D[2] = y /\ D[3] = z
  OBVIOUS
<1>2. DOMAIN s = 1..3 /\ s[1] = a /\ s[2] = b /\ s[3] = c
  OBVIOUS
<1> HIDE DEF s, D
<1>3. \A i \in 1..3 : D[i] = Execute(D[i - 1], s[i])
  BY <1>1, <1>2
<1>4. Steps(D, base, s, 3)
  BY <1>1, <1>3 DEF Steps
<1>5. Script(base, s) = D[3]
  BY <1>2, <1>4, ScriptIsSteps
<1> QED
  BY <1>1, <1>5 DEF s

\* Four statements, one after the other.
LEMMA ScriptOfFour ==
    ASSUME NEW base, NEW a, NEW b, NEW c, NEW d, NEW x, x = Execute(base, a),
           NEW y, y = Execute(x, b), NEW z, z = Execute(y, c), NEW w, w = Execute(z, d)
    PROVE  Script(base, <<a, b, c, d>>) = w
<1> DEFINE s == <<a, b, c, d>>
           D == [i \in 0..4 |-> IF i = 0 THEN base ELSE IF i = 1 THEN x ELSE IF i = 2 THEN y
                                ELSE IF i = 3 THEN z ELSE w]
<1>1. D[0] = base /\ D[1] = x /\ D[2] = y /\ D[3] = z /\ D[4] = w
  OBVIOUS
<1>2. DOMAIN s = 1..4 /\ s[1] = a /\ s[2] = b /\ s[3] = c /\ s[4] = d
  OBVIOUS
<1> HIDE DEF s, D
<1>3. \A i \in 1..4 : D[i] = Execute(D[i - 1], s[i])
  BY <1>1, <1>2
<1>4. Steps(D, base, s, 4)
  BY <1>1, <1>3 DEF Steps
<1>5. Script(base, s) = D[4]
  BY <1>2, <1>4, ScriptIsSteps
<1> QED
  BY <1>1, <1>5 DEF s

\* Five of them.
LEMMA ScriptOfFive ==
    ASSUME NEW base, NEW a, NEW b, NEW c, NEW d, NEW e, NEW x, x = Execute(base, a),
           NEW y, y = Execute(x, b), NEW z, z = Execute(y, c), NEW w, w = Execute(z, d),
           NEW v, v = Execute(w, e)
    PROVE  Script(base, <<a, b, c, d, e>>) = v
<1> DEFINE s == <<a, b, c, d, e>>
           D == [i \in 0..5 |-> IF i = 0 THEN base ELSE IF i = 1 THEN x ELSE IF i = 2 THEN y
                                ELSE IF i = 3 THEN z ELSE IF i = 4 THEN w ELSE v]
<1>1. D[0] = base /\ D[1] = x /\ D[2] = y /\ D[3] = z /\ D[4] = w /\ D[5] = v
  OBVIOUS
<1>2. DOMAIN s = 1..5 /\ s[1] = a /\ s[2] = b /\ s[3] = c /\ s[4] = d /\ s[5] = e
  OBVIOUS
<1> HIDE DEF s, D
<1>3. \A i \in 1..5 : D[i] = Execute(D[i - 1], s[i])
  BY <1>1, <1>2
<1>4. Steps(D, base, s, 5)
  BY <1>1, <1>3 DEF Steps
<1>5. Script(base, s) = D[5]
  BY <1>2, <1>4, ScriptIsSteps
<1> QED
  BY <1>1, <1>5 DEF s

\* The schemas of two sets of revisions differ in the table t only.
DifferIn(N, F, G, t) == t \in N /\ \A u \in N : u # t => FormAt(F, u) = FormAt(G, u)

\* One schema is the other with another form of that table.
LEMMA SchemaWith ==
    ASSUME NEW N, NEW F, NEW G, NEW t, DifferIn(N, F, G, t)
    PROVE  /\ SchemaOf(N, G) = With(SchemaOf(N, F), t, FormAt(G, t))
           /\ SchemaOf(N, F) = With(SchemaOf(N, F), t, FormAt(F, t))
BY SchemaIs DEF DifferIn, With, SchemaOf

\* The tables that the four altering revisions change.
LEMMA FormsDiffer ==
    ASSUME NEW S, NEW r
    PROVE  /\ r = "20260825_0009" =>
                \A t : t # "governed_dataset_snapshots" => FormAt(S \union {r}, t) = FormAt(S, t)
           /\ r = "20260825_0010" =>
                \A t : t # "analysis_runs" => FormAt(S \union {r}, t) = FormAt(S, t)
           /\ r = "20260825_0011" =>
                \A t : t # "health_snapshots" => FormAt(S \union {r}, t) = FormAt(S, t)
           /\ r = "20260831_0013" =>
                \A t : t \notin {"product_events", "finding_feedback"}
                          => FormAt(S \union {r}, t) = FormAt(S, t)
<1>1. /\ "20260825_0009" # r => SnapshotRefs(S \union {r}) = SnapshotRefs(S)
      /\ "20260825_0010" # r => RunRefs(S \union {r}) = RunRefs(S)
                                  /\ RunChecks(S \union {r}) = RunChecks(S)
      /\ "20260825_0011" # r => HealthChecks(S \union {r}) = HealthChecks(S)
      /\ "20260831_0013" # r => IndexNames(S \union {r}) = IndexNames(S)
  BY DEF SnapshotRefs, RunRefs, RunChecks, HealthChecks, IndexNames
<1> QED
  BY <1>1 DEF FormAt

\* What the rows of a database have to do with the revisions.
KeptAt(S, rows) ==
    /\ StoredIn(SchemaAt(S), rows)
    /\ rows.legacy \in BOOLEAN
    /\ rows.governed \in BOOLEAN
    /\ rows.withheld \in BOOLEAN
    /\ rows.governed => "20260825_0010" \in S

\* Rows that fit a table of runs, or of health snapshots.
RunsAgree(R, C, rows) ==
    "analysis_runs" \in rows.full =>
        /\ Ref("dataset_snapshots", "restrict") \in R => rows.legacy
        /\ OneSnapshot \in C => rows.legacy # rows.governed
        /\ rows.legacy => "dataset_snapshots" \in rows.full
        /\ rows.governed => "governed_dataset_snapshots" \in rows.full

HealthAgrees(C, rows) ==
    "health_snapshots" \in rows.full =>
        /\ \A c \in C : c[1] = "score_band" => rows.band \in c[2]
        /\ NotNull(Scores) \in C => ~rows.withheld

\* That is what is asked of the rows.
LEMMA AgreeIsFit ==
    \A R, K, C, rows :
        /\ RunsFit(Table(R, K, C), rows) <=> RunsAgree(R, C, rows)
        /\ HealthFits(Table(R, K, C), rows) <=> HealthAgrees(C, rows)
<1> SUFFICES ASSUME NEW R, NEW K, NEW C, NEW rows
             PROVE  /\ RunsFit(Table(R, K, C), rows) <=> RunsAgree(R, C, rows)
                    /\ HealthFits(Table(R, K, C), rows) <=> HealthAgrees(C, rows)
  OBVIOUS
<1> DEFINE table == Table(R, K, C)
<1>1. table.refs = R /\ table.checks = C
  BY TableFields
<1> HIDE DEF table
<1>2. RunsFit(table, rows) <=> RunsAgree(R, C, rows)
  BY <1>1, Zenon DEF RunsFit, RunsAgree
<1>3. HealthFits(table, rows) <=> HealthAgrees(C, rows)
  BY <1>1, Zenon DEF HealthFits, HealthAgrees
<1> QED
  BY <1>2, <1>3 DEF table

\* Rows that agree with the keys and checks of runs fit a schema in which
\* only that table has changed.
LEMMA FitRuns ==
    ASSUME NEW T, "analysis_runs" \in DOMAIN T, NEW R, NEW K, NEW C, NEW rows,
           rows.full \subseteq DOMAIN T, RunsAgree(R, C, rows),
           HealthFits(T["health_snapshots"], rows)
    PROVE  FitAt(T, "analysis_runs", R, K, C, rows)
<1> DEFINE A == With(T, "analysis_runs", Table(R, K, C))
<1>1. A["analysis_runs"] = Table(R, K, C)
      /\ ("health_snapshots" \in DOMAIN T => A["health_snapshots"] = T["health_snapshots"])
  BY WithIs
<1>2. RunsFit(Table(R, K, C), rows)
  BY AgreeIsFit
<1> HIDE DEF A
<1>3. HealthFits(A["health_snapshots"], rows)
  <2>1. CASE "health_snapshots" \in DOMAIN T
    BY <1>1, <2>1
  <2>2. CASE "health_snapshots" \notin DOMAIN T
    <3>1. "health_snapshots" \notin rows.full
      BY <2>2
    <3> QED
      BY <3>1, Zenon DEF HealthFits
  <2> QED
    BY <2>1, <2>2
<1> QED
  BY <1>1, <1>2, <1>3 DEF FitAt, Fit, A

\* So do those that agree with the checks of health snapshots.
LEMMA FitHealth ==
    ASSUME NEW T, "health_snapshots" \in DOMAIN T, NEW R, NEW K, NEW C, NEW rows,
           rows.full \subseteq DOMAIN T, HealthAgrees(C, rows),
           RunsFit(T["analysis_runs"], rows)
    PROVE  FitAt(T, "health_snapshots", R, K, C, rows)
<1> DEFINE A == With(T, "health_snapshots", Table(R, K, C))
<1>1. A["health_snapshots"] = Table(R, K, C)
      /\ ("analysis_runs" \in DOMAIN T => A["analysis_runs"] = T["analysis_runs"])
  BY WithIs
<1>2. HealthFits(Table(R, K, C), rows)
  BY AgreeIsFit
<1> HIDE DEF A
<1>3. RunsFit(A["analysis_runs"], rows)
  <2>1. CASE "analysis_runs" \in DOMAIN T
    BY <1>1, <2>1
  <2>2. CASE "analysis_runs" \notin DOMAIN T
    <3>1. "analysis_runs" \notin rows.full
      BY <2>2
    <3> QED
      BY <3>1, Zenon DEF RunsFit
  <2> QED
    BY <2>1, <2>2
<1> QED
  BY <1>1, <1>2, <1>3 DEF FitAt, Fit, A

\* A change of another table asks nothing of the rows.
LEMMA FitOther ==
    ASSUME NEW T, NEW t \in DOMAIN T, t \notin {"analysis_runs", "health_snapshots"},
           NEW R, NEW K, NEW C, NEW rows, StoredIn(T, rows)
    PROVE  FitAt(T, t, R, K, C, rows)
<1> DEFINE A == With(T, t, Table(R, K, C))
<1>1. \A u \in DOMAIN T : u # t => A[u] = T[u]
  BY WithIs
<1>2. rows.full \subseteq DOMAIN T /\ RunsFit(T["analysis_runs"], rows)
      /\ HealthFits(T["health_snapshots"], rows)
  BY DEF StoredIn, Fit
<1> HIDE DEF A
<1>3. RunsFit(A["analysis_runs"], rows)
  <2>1. CASE "analysis_runs" \in DOMAIN T
    BY <1>1, <1>2, <2>1
  <2>2. CASE "analysis_runs" \notin DOMAIN T
    <3>1. "analysis_runs" \notin rows.full
      BY <1>2, <2>2
    <3> QED
      BY <3>1, Zenon DEF RunsFit
  <2> QED
    BY <2>1, <2>2
<1>4. HealthFits(A["health_snapshots"], rows)
  <2>1. CASE "health_snapshots" \in DOMAIN T
    BY <1>1, <1>2, <2>1
  <2>2. CASE "health_snapshots" \notin DOMAIN T
    <3>1. "health_snapshots" \notin rows.full
      BY <1>2, <2>2
    <3> QED
      BY <3>1, Zenon DEF HealthFits
  <2> QED
    BY <2>1, <2>2
<1> QED
  BY <1>3, <1>4 DEF FitAt, Fit, A

\* The references to snapshots: of a run to one of the old ones, as it was and as
\* it is after the revision 0010, and to one of the new ones.
OldSnapshot == Ref("dataset_snapshots", "restrict")
OldSnapshotOrNone == OptionalRef("dataset_snapshots", "restrict")
NewSnapshotOrNone == OptionalRef("governed_dataset_snapshots", "restrict")

\* These revisions create no tables.
LEMMA NamesStay ==
    ASSUME NEW S, NEW r \in {"20260825_0010", "20260825_0011", "20260831_0012", "20260831_0013"}
    PROVE  NamesAt(S \union {r}) = NamesAt(S) /\ NamesAt(S \ {r}) = NamesAt(S)
<1>1. \A k : RevisionAt(k) # r
  BY DEF RevisionAt
<1>2. \A t \in Tables : RevisionOf(t) # r
  BY <1>1 DEF RevisionOf
<1> QED
  BY <1>2 DEF NamesAt

\* A schema that differs from that of S in one table.
LEMMA SchemaTurns ==
    ASSUME NEW S, NEW G, NamesAt(G) = NamesAt(S), NEW t, DifferIn(NamesAt(S), S, G, t)
    PROVE  /\ SchemaAt(S) = With(SchemaAt(S), t, FormAt(S, t))
           /\ SchemaAt(G) = With(SchemaAt(S), t, FormAt(G, t))
           /\ DOMAIN SchemaAt(S) = NamesAt(S) /\ DOMAIN SchemaAt(G) = NamesAt(S)
           /\ t \in NamesAt(S)
           /\ \A u \in NamesAt(S) : SchemaAt(S)[u] = FormAt(S, u)
<1>1. SchemaOf(NamesAt(S), G) = With(SchemaOf(NamesAt(S), S), t, FormAt(G, t))
      /\ SchemaOf(NamesAt(S), S) = With(SchemaOf(NamesAt(S), S), t, FormAt(S, t))
  BY SchemaWith
<1>2. SchemaOf(NamesAt(S), S) = SchemaAt(S) /\ SchemaOf(NamesAt(S), G) = SchemaAt(G)
  BY DEF SchemaAt
<1>3. DOMAIN SchemaAt(S) = NamesAt(S) /\ DOMAIN SchemaAt(G) = NamesAt(S)
      /\ \A u \in NamesAt(S) : SchemaAt(S)[u] = FormAt(S, u)
  BY DEF SchemaAt, SchemaOf
<1>4. t \in NamesAt(S)
  BY DEF DifferIn
<1> QED
  BY <1>1, <1>2, <1>3, <1>4

\* The keys of runs before and after 20260825_0010.
LEMMA RunReferences ==
    ASSUME NEW S, NEW G, "20260825_0010" \notin S, "20260825_0010" \in G
    PROVE  /\ OldSnapshot \in RunRefs(S)
           /\ OldSnapshotOrNone \in RunRefs(G) /\ NewSnapshotOrNone \in RunRefs(G)
           /\ OldSnapshot \notin RunRefs(G)
           /\ RunRefs(G) = ((RunRefs(S) \ {OldSnapshot}) \union {OldSnapshotOrNone})
                               \union {NewSnapshotOrNone}
           /\ RunRefs(S) = ((RunRefs(G) \ {NewSnapshotOrNone}) \ {OldSnapshotOrNone})
                               \union {OldSnapshot}
           /\ RunChecks(G) = RunChecks(S) \union {OneSnapshot}
           /\ RunChecks(S) = RunChecks(G) \ {OneSnapshot}
           /\ OneSnapshot \notin RunChecks(S) /\ OneSnapshot \in RunChecks(G)
<1> DEFINE O == Owned \union {Ref("rule_catalogue_versions", "restrict")}
           V == Values("status", {"queued", "running", "succeeded", "failed"})
<1>1. OldSnapshot # OldSnapshotOrNone /\ OldSnapshot # NewSnapshotOrNone
      /\ OldSnapshotOrNone # NewSnapshotOrNone
  BY RefFields DEF OldSnapshot, OldSnapshotOrNone, NewSnapshotOrNone
<1>2. \A x \in O : x.table \in {"organizations", "projects", "rule_catalogue_versions"}
  BY RefFields DEF Owned, Cascades
<1>3. OldSnapshot \notin O /\ OldSnapshotOrNone \notin O /\ NewSnapshotOrNone \notin O
  BY <1>2, RefFields DEF OldSnapshot, OldSnapshotOrNone, NewSnapshotOrNone
<1>4. V # OneSnapshot
  BY DEF Values, OneSnapshot
<1>5. RunRefs(S) = O \union {OldSnapshot}
      /\ RunRefs(G) = O \union {OldSnapshotOrNone, NewSnapshotOrNone}
  BY DEF RunRefs, OldSnapshot, OldSnapshotOrNone, NewSnapshotOrNone
<1>6. RunChecks(S) = {V} /\ RunChecks(G) = {V, OneSnapshot}
  BY DEF RunChecks
<1> HIDE DEF O, V
<1> QED
  BY <1>1, <1>3, <1>4, <1>5, <1>6

\* Before the revision 0010 a run has one of the old snapshots.
LEMMA RunsKept ==
    ASSUME NEW S, NEW rows, KeptAt(S, rows), "20260825_0010" \notin S
    PROVE  \A R, C : RunsAgree(R, C, rows)
<1>1. StoredIn(SchemaAt(S), rows) /\ ~rows.governed /\ rows.legacy \in BOOLEAN
  BY DEF KeptAt
<1>2. CASE "analysis_runs" \notin rows.full
  BY <1>2, Zenon DEF RunsAgree
<1>3. CASE "analysis_runs" \in rows.full
  <2>1. "analysis_runs" \in NamesAt(S) /\ RunsFit(SchemaAt(S)["analysis_runs"], rows)
    BY <1>1, <1>3 DEF StoredIn, Fit, SchemaAt, SchemaOf
  <2>2. SchemaAt(S)["analysis_runs"] = Table(RunRefs(S), {}, RunChecks(S))
    BY <2>1, ChangedForms DEF SchemaAt, SchemaOf
  <2>3. RunsAgree(RunRefs(S), RunChecks(S), rows)
    BY <2>1, <2>2, AgreeIsFit
  <2>4. Ref("dataset_snapshots", "restrict") \in RunRefs(S)
    BY DEF RunRefs
  <2>5. rows.legacy /\ "dataset_snapshots" \in rows.full
    BY <1>3, <2>3, <2>4, Zenon DEF RunsAgree
  <2> QED
    BY <1>1, <2>5, Zenon DEF RunsAgree
<1> QED
  BY <1>2, <1>3

\* The rows before and after the update that copies the new snapshots.
RowsAreFlagged(rows) ==
    /\ rows = [x \in {"full", "legacy", "governed", "band", "withheld"} |-> rows[x]]
    /\ rows.legacy \in BOOLEAN
    /\ rows.governed \in BOOLEAN

Copied(rows, after) ==
    /\ after = [x \in {"full", "legacy", "governed", "band", "withheld"} |-> after[x]]
    /\ after.band = rows.band
    /\ after.withheld = rows.withheld
    /\ after.governed = rows.governed
    /\ after.legacy \in BOOLEAN
    /\ rows.full \subseteq after.full /\ after.full \subseteq rows.full \union {"dataset_snapshots"}
    /\ "analysis_runs" \in rows.full /\ rows.governed /\ ~rows.legacy
          => after.legacy /\ "dataset_snapshots" \in after.full
    /\ ~("analysis_runs" \in rows.full /\ rows.governed /\ ~rows.legacy) => after = rows

\* What that update does to the rows.
LEMMA CopyKeeps ==
    ASSUME NEW rows, RowsAreFlagged(rows)
    PROVE  Copied(rows, RowsAfter(rows, Update("copy governed snapshots")))
<1> DEFINE W == "analysis_runs" \in rows.full /\ rows.governed /\ ~rows.legacy
           s == Update("copy governed snapshots")
           after == RowsAfter(rows, s)
<1>0. /\ rows = [x \in {"full", "legacy", "governed", "band", "withheld"} |-> rows[x]]
      /\ rows.legacy \in BOOLEAN /\ rows.governed \in BOOLEAN
  BY DEF RowsAreFlagged
<1>1. s.op = "copy governed snapshots"
  BY DEF Update
<1>2. after = IF W THEN [rows EXCEPT !.full = @ \union {"dataset_snapshots"}, !.legacy = TRUE]
              ELSE rows
  BY <1>1 DEF RowsAfter
<1> HIDE DEF after
<1>3. CASE W
  <2>1. after = [rows EXCEPT !.full = @ \union {"dataset_snapshots"}, !.legacy = TRUE]
    BY <1>2, <1>3
  <2>2. after = [x \in {"full", "legacy", "governed", "band", "withheld"} |-> after[x]]
    BY <1>0, <2>1
  <2>3. after.band = rows.band
    BY <1>0, <2>1
  <2>4. after.withheld = rows.withheld
    BY <1>0, <2>1
  <2>5. after.governed = rows.governed
    BY <1>0, <2>1
  <2>6. after.legacy = TRUE
    BY <1>0, <2>1
  <2>7. after.full = rows.full \union {"dataset_snapshots"}
    BY <1>0, <2>1
  <2>8. rows.full \subseteq after.full
            /\ after.full \subseteq rows.full \union {"dataset_snapshots"}
        /\ "dataset_snapshots" \in after.full
    BY <2>7
  <2>9. after.legacy \in BOOLEAN /\ after.legacy
    BY <2>6
  <2>10. "analysis_runs" \in rows.full /\ rows.governed /\ ~rows.legacy
    BY <1>3
  <2>11. Copied(rows, after)
    BY <2>2, <2>3, <2>4, <2>5, <2>8, <2>9, <2>10, Zenon DEF Copied
  <2> QED
    BY <2>11 DEF after
<1>4. CASE ~W
  <2>1. after = rows
    BY <1>2, <1>4
  <2>2. ~("analysis_runs" \in rows.full /\ rows.governed /\ ~rows.legacy)
    BY <1>4
  <2>3. rows.full \subseteq rows.full /\ rows.full \subseteq rows.full \union {"dataset_snapshots"}
    OBVIOUS
  <2>4. Copied(rows, rows)
    BY <1>0, <2>2, <2>3, Zenon DEF Copied
  <2> QED
    BY <2>1, <2>4 DEF after
<1> QED
  BY <1>3, <1>4

\* The rows fit the table of the health snapshots, whatever they say of runs.
LEMMA HealthStays ==
    ASSUME NEW T, NEW rows, NEW after, StoredIn(T, rows),
           "health_snapshots" \in after.full <=> "health_snapshots" \in rows.full,
           after.band = rows.band, after.withheld = rows.withheld
    PROVE  HealthFits(T["health_snapshots"], after)
<1>1. HealthFits(T["health_snapshots"], rows)
  BY DEF StoredIn, Fit
<1> QED
  BY <1>1, Zenon DEF HealthFits

\* 20260825_0010 changes the runs only, and finds both tables of snapshots.
LEMMA RunsDiffer ==
    ASSUME NEW S, Closed(S), "20260825_0010" \notin S, "20260825_0009" \in S
    PROVE  LET G == S \union {"20260825_0010"} IN
           /\ NamesAt(G) = NamesAt(S)
           /\ DifferIn(NamesAt(S), S, G, "analysis_runs")
           /\ DifferIn(NamesAt(S), G, S, "analysis_runs")
           /\ {"analysis_runs", "dataset_snapshots",
                  "governed_dataset_snapshots"} \subseteq NamesAt(S)
<1> DEFINE r == "20260825_0010"  G == S \union {r}
<1>1. "20260817_0001" \in S
  BY ClosedChain
<1>2. RevisionOf("analysis_runs") = "20260817_0001"
      /\ RevisionOf("dataset_snapshots") = "20260817_0001"
      /\ RevisionOf("governed_dataset_snapshots") = "20260825_0009"
  BY Revised
<1>3. {"analysis_runs", "dataset_snapshots", "governed_dataset_snapshots"} \subseteq Tables
  BY TablePlaces DEF Place
<1>4. {"analysis_runs", "dataset_snapshots", "governed_dataset_snapshots"} \subseteq NamesAt(S)
  BY <1>1, <1>2, <1>3 DEF NamesAt
<1>5. NamesAt(G) = NamesAt(S)
  BY NamesStay
<1>6. \A t : t # "analysis_runs" => FormAt(G, t) = FormAt(S, t)
  BY FormsDiffer
<1> QED
  BY <1>4, <1>5, <1>6 DEF DifferIn

\* 0010: a run may have a new snapshot, and has one of the two.
LEMMA RunsUpgrade ==
    ASSUME NEW S, NEW r, r = "20260825_0010", Fresh(S, r), NEW rows, KeptAt(S, rows)
    PROVE  /\ Script(Db(SchemaAt(S), rows), upgrade(r)) = Db(SchemaAt(S \union {r}), rows)
           /\ KeptAt(S \union {r}, rows)
<1> DEFINE G == S \union {r}
           T == SchemaAt(S)
           R0 == RunRefs(S)
           R1 == (R0 \ {OldSnapshot}) \union {OldSnapshotOrNone}
           R2 == R1 \union {NewSnapshotOrNone}
           C0 == RunChecks(S)
           C2 == C0 \union {OneSnapshot}
           t == "analysis_runs"
<1>1. Closed(S) /\ r \notin S /\ "20260825_0009" \in S
  BY DownRevisions DEF Fresh
<1>2. /\ NamesAt(G) = NamesAt(S) /\ DifferIn(NamesAt(S), S, G, t)
      /\ {"analysis_runs", "dataset_snapshots", "governed_dataset_snapshots"} \subseteq NamesAt(S)
  BY <1>1, RunsDiffer
<1>3. /\ SchemaAt(S) = With(SchemaAt(S), t, FormAt(S, t))
      /\ SchemaAt(G) = With(SchemaAt(S), t, FormAt(G, t))
      /\ DOMAIN SchemaAt(S) = NamesAt(S) /\ DOMAIN SchemaAt(G) = NamesAt(S)
  <2> HIDE DEF G
  <2> QED
    BY <1>2, SchemaTurns
<1>4. /\ OldSnapshot \in R0 /\ RunRefs(G) = R2 /\ RunChecks(G) = C2
  BY <1>1, RunReferences
<1>5. FormAt(S, t) = Table(R0, {}, C0) /\ FormAt(G, t) = Table(R2, {}, C2)
  BY <1>4, ChangedForms
<1>6. \A R, C : RunsAgree(R, C, rows)
  BY <1>1, RunsKept
<1>7. StoredIn(T, rows) /\ HealthFits(T["health_snapshots"], rows) /\ rows.full \subseteq DOMAIN T
  BY DEF KeptAt, StoredIn, Fit
<1>8. t \in DOMAIN T /\ "governed_dataset_snapshots" \in DOMAIN T
  BY <1>2, <1>3
<1>9. upgrade(r) = <<AlterRef(t, OldSnapshot, OldSnapshotOrNone), AddRef(t, NewSnapshotOrNone),
                     AddCheck(t, OneSnapshot)>>
  BY DEF upgrade, snapshot_analysis_metadata, OldSnapshot, OldSnapshotOrNone, NewSnapshotOrNone
<1>10. NewSnapshotOrNone.table = "governed_dataset_snapshots"
  BY RefFields DEF NewSnapshotOrNone
<1>11. At(T, t, R0, {}, C0, rows) = Db(T, rows)
           /\ At(T, t, R2, {}, C2, rows) = Db(SchemaAt(G), rows)
  BY <1>3, <1>5, Zenon DEF At
<1> HIDE DEF T, R0, C0, t, G
<1>12. \A R, C : FitAt(T, t, R, {}, C, rows)
  <2> SUFFICES ASSUME NEW R, NEW C PROVE FitAt(T, t, R, {}, C, rows)
    OBVIOUS
  <2> QED
    BY <1>6, <1>7, <1>8, FitRuns DEF t
<1>13. Execute(At(T, t, R0, {}, C0, rows), AlterRef(t, OldSnapshot, OldSnapshotOrNone))
          = At(T, t, R1, {}, C0, rows)
  BY <1>4, <1>8, <1>12, AlterRefTurns
<1> HIDE DEF R1
<1>14. Execute(At(T, t, R1, {}, C0, rows), AddRef(t, NewSnapshotOrNone))
           = At(T, t, R2, {}, C0, rows)
  BY <1>8, <1>10, <1>12, AddRefTurns
<1> HIDE DEF R2
<1>15. Execute(At(T, t, R2, {}, C0, rows), AddCheck(t, OneSnapshot)) = At(T, t, R2, {}, C2, rows)
  BY <1>8, <1>12, AddCheckTurns
<1> HIDE DEF C2
<1>16. Script(Db(T, rows), upgrade(r)) = Db(SchemaAt(G), rows)
  <2>1. Script(At(T, t, R0, {}, C0, rows), upgrade(r)) = At(T, t, R2, {}, C2, rows)
    BY <1>9, <1>13, <1>14, <1>15, ScriptOfThree
  <2> QED
    BY <1>11, <2>1
<1>17. Fit(SchemaAt(G), rows)
  BY <1>3, <1>5, <1>12, Zenon DEF FitAt, T
<1>18. StoredIn(SchemaAt(G), rows)
  BY <1>3, <1>7, <1>17 DEF StoredIn, T
<1>19. KeptAt(G, rows)
  BY <1>18 DEF KeptAt, G
<1> QED
  BY <1>16, <1>19 DEF T, G

\* Its downgrade gives each run of a new snapshot an old one.
LEMMA RunsDowngrade ==
    ASSUME NEW S, NEW r, r = "20260825_0010", Topmost(S, r), NEW rows, KeptAt(S, rows)
    PROVE  \E left : /\ Script(Db(SchemaAt(S), rows), downgrade(r)) = Db(SchemaAt(S \ {r}), left)
                     /\ KeptAt(S \ {r}, left)
<1> DEFINE G == S \ {r}
           T == SchemaAt(S)
           R0 == RunRefs(S)
           R1 == R0 \ {NewSnapshotOrNone}
           R2 == (R1 \ {OldSnapshotOrNone}) \union {OldSnapshot}
           C0 == RunChecks(S)
           C1 == C0 \ {OneSnapshot}
           t == "analysis_runs"
           copied == RowsAfter(rows, Update("copy governed snapshots"))
           left == WithoutColumn(copied, NewSnapshotOrNone)
<1>1. Closed(G) /\ r \notin G /\ r \in S /\ "20260825_0009" \in G /\ G \union {r} = S
  <2>1. Closed(G) /\ G \union {r} = S
    BY TopmostIsFresh
  <2>2. "20260825_0009" \in S
    BY DownRevisions DEF Topmost, Closed
  <2> QED
    BY <2>1, <2>2 DEF Topmost
<1>2. /\ NamesAt(G) = NamesAt(S) /\ DifferIn(NamesAt(S), S, G, t)
      /\ {"analysis_runs", "dataset_snapshots", "governed_dataset_snapshots"} \subseteq NamesAt(S)
  <2> HIDE DEF G
  <2>1. G \union {"20260825_0010"} = S
    BY <1>1
  <2> QED
    BY <1>1, <2>1, RunsDiffer
<1>3. /\ SchemaAt(S) = With(SchemaAt(S), t, FormAt(S, t))
      /\ SchemaAt(G) = With(SchemaAt(S), t, FormAt(G, t))
      /\ DOMAIN SchemaAt(S) = NamesAt(S) /\ DOMAIN SchemaAt(G) = NamesAt(S)
      /\ \A u \in NamesAt(S) : SchemaAt(S)[u] = FormAt(S, u)
  <2> HIDE DEF G
  <2> QED
    BY <1>2, SchemaTurns
<1>4. /\ OldSnapshotOrNone \in R0 /\ NewSnapshotOrNone \in R0 /\ RunRefs(G) = R2
      /\ RunChecks(G) = C1 /\ OneSnapshot \in C0 /\ OldSnapshot \notin R0
  <2> HIDE DEF G
  <2> QED
    BY <1>1, RunReferences
<1>5. FormAt(S, t) = Table(R0, {}, C0) /\ FormAt(G, t) = Table(R2, {}, C1)
  BY <1>4, ChangedForms
<1>7. StoredIn(T, rows) /\ HealthFits(T["health_snapshots"], rows) /\ rows.full \subseteq DOMAIN T
      /\ RunsFit(T["analysis_runs"], rows)
  BY DEF KeptAt, StoredIn, Fit
<1>8. t \in DOMAIN T /\ "governed_dataset_snapshots" \in DOMAIN T
          /\ "dataset_snapshots" \in DOMAIN T
  BY <1>2, <1>3
<1>9. downgrade(r) = <<DropCheck(t, OneSnapshot), Update("copy governed snapshots"),
         DropRef(t, NewSnapshotOrNone), AlterRef(t, OldSnapshotOrNone, OldSnapshot)>>
  BY DEF downgrade, undo_snapshot_analysis_metadata, OldSnapshot, OldSnapshotOrNone,
         NewSnapshotOrNone
<1>10. /\ OldSnapshotOrNone # NewSnapshotOrNone
       /\ NewSnapshotOrNone.table = "governed_dataset_snapshots"
  BY RefFields DEF NewSnapshotOrNone, OldSnapshotOrNone
<1>11. At(T, t, R0, {}, C0, rows) = Db(T, rows)
           /\ At(T, t, R2, {}, C1, left) = Db(SchemaAt(G), left)
  BY <1>3, <1>5, Zenon DEF At
<1>12. RunsAgree(R0, C0, rows)
  <2>1. T["analysis_runs"] = Table(R0, {}, C0)
    BY <1>2, <1>3, <1>5
  <2> HIDE DEF T, R0, C0
  <2> QED
    BY <1>7, <2>1, AgreeIsFit
<1>13. /\ copied = [x \in {"full", "legacy", "governed", "band", "withheld"} |-> copied[x]]
       /\ copied.band = rows.band /\ copied.withheld = rows.withheld
       /\ copied.governed = rows.governed
       /\ copied.legacy \in BOOLEAN
       /\ rows.full \subseteq copied.full
       /\ copied.full \subseteq rows.full \union {"dataset_snapshots"}
       /\ "analysis_runs" \in rows.full /\ rows.governed /\ ~rows.legacy
             => copied.legacy /\ "dataset_snapshots" \in copied.full
       /\ ~("analysis_runs" \in rows.full /\ rows.governed /\ ~rows.legacy) => copied = rows
  <2>1. RowsAreFlagged(rows)
    BY DEF KeptAt, StoredIn, RowsAreFlagged
  <2>2. Copied(rows, copied)
    BY <2>1, CopyKeeps
  <2> HIDE DEF copied
  <2> QED
    BY <2>2, Zenon DEF Copied
<1> HIDE DEF copied
<1>14. left = [copied EXCEPT !.governed = FALSE]
  BY <1>10 DEF WithoutColumn
<1>15. /\ left = [x \in {"full", "legacy", "governed", "band", "withheld"} |-> left[x]]
       /\ left.full = copied.full
       /\ left.band = rows.band /\ left.withheld = rows.withheld
       /\ left.legacy = copied.legacy
       /\ left.governed = FALSE
  <2> HIDE DEF left
  <2>1. left = [x \in {"full", "legacy", "governed", "band", "withheld"} |-> left[x]]
    BY <1>13, <1>14
  <2>2. left.full = copied.full
    BY <1>13, <1>14
  <2>3. left.band = rows.band
    BY <1>13, <1>14
  <2>4. left.withheld = rows.withheld
    BY <1>13, <1>14
  <2>5. left.legacy = copied.legacy
    BY <1>13, <1>14
  <2>6. left.governed = FALSE
    BY <1>13, <1>14
  <2> QED
    BY <2>1, <2>2, <2>3, <2>4, <2>5, <2>6
<1> HIDE DEF left
<1>16. "analysis_runs" \in rows.full => copied.legacy /\ "dataset_snapshots" \in copied.full
  <2>1. ASSUME "analysis_runs" \in rows.full
        PROVE  /\ rows.legacy # rows.governed
               /\ rows.legacy => "dataset_snapshots" \in rows.full
    BY <1>4, <1>12, <2>1, Zenon DEF RunsAgree
  <2>2. rows.legacy \in BOOLEAN /\ rows.governed \in BOOLEAN
    BY DEF KeptAt
  <2>3. CASE "analysis_runs" \in rows.full /\ rows.governed /\ ~rows.legacy
    BY <1>13, <2>3
  <2>4. CASE ~("analysis_runs" \in rows.full /\ rows.governed /\ ~rows.legacy)
    <3>1. copied = rows
      BY <1>13, <2>4
    <3>2. "analysis_runs" \in rows.full => rows.legacy
      BY <2>1, <2>2, <2>4, Zenon
    <3> QED
      BY <2>1, <3>1, <3>2, Zenon
  <2> QED
    BY <2>3, <2>4
<1> HIDE DEF T, R0, C0, t, G
<1>17. /\ "health_snapshots" \in copied.full <=> "health_snapshots" \in rows.full
       /\ "analysis_runs" \in copied.full <=> "analysis_runs" \in rows.full
       /\ copied.full \subseteq DOMAIN T
  BY <1>7, <1>8, <1>13
<1>18. HealthFits(T["health_snapshots"], copied) /\ HealthFits(T["health_snapshots"], left)
  BY <1>7, <1>13, <1>15, <1>17, HealthStays
<1>19. FitAt(T, t, R0, {}, C1, rows)
  <2>1. RunsAgree(R0, C1, rows)
    <3>1. OneSnapshot \in C1 => OneSnapshot \in C0
      OBVIOUS
    <3> HIDE DEF C1
    <3> QED
      BY <1>12, <3>1, Zenon DEF RunsAgree
  <2> HIDE DEF C1
  <2> QED
    BY <1>7, <1>8, <2>1, FitRuns DEF t
<1>20. FitAt(T, t, R0, {}, C1, copied)
  <2>1. RunsAgree(R0, C1, copied)
    <3>1. "analysis_runs" \in rows.full /\ rows.governed
              => "governed_dataset_snapshots" \in rows.full
      BY <1>12, Zenon DEF RunsAgree
    <3>2. "analysis_runs" \in rows.full /\ copied.governed
             => "governed_dataset_snapshots" \in copied.full
      BY <1>13, <3>1
    <3>3. OneSnapshot \notin C1
      OBVIOUS
    <3> HIDE DEF C1
    <3> QED
      BY <1>16, <1>17, <3>2, <3>3, Zenon DEF RunsAgree
  <2> HIDE DEF C1
  <2> QED
    BY <1>8, <1>17, <1>18, <2>1, FitRuns DEF t
<1>21. \A R, C : FitAt(T, t, R, {}, C, left)
  <2> SUFFICES ASSUME NEW R, NEW C PROVE FitAt(T, t, R, {}, C, left)
    OBVIOUS
  <2>1. RunsAgree(R, C, left)
    <3>1. ~left.governed
      BY <1>15
    <3>2. "analysis_runs" \in left.full => left.legacy /\ "dataset_snapshots" \in left.full
      BY <1>15, <1>16, <1>17, Zenon
    <3> QED
      BY <3>1, <3>2, Zenon DEF RunsAgree
  <2>2. left.full \subseteq DOMAIN T
    BY <1>15, <1>17
  <2> QED
    BY <1>8, <1>18, <2>1, <2>2, FitRuns DEF t
<1>22. Execute(At(T, t, R0, {}, C0, rows), DropCheck(t, OneSnapshot)) = At(T, t, R0, {}, C1, rows)
  BY <1>4, <1>8, <1>19, DropCheckTurns
<1> HIDE DEF C1
<1>23. Execute(At(T, t, R0, {}, C1, rows), Update("copy governed snapshots"))
          = At(T, t, R0, {}, C1, copied)
  <2>1. MayUpdate(DOMAIN T, "copy governed snapshots")
    BY <1>8 DEF MayUpdate
  <2> DEFINE statement == "copy governed snapshots"
  <2>2. copied = RowsAfter(rows, Update(statement))
    BY DEF copied
  <2>3. MayUpdate(DOMAIN T, statement)
    BY <2>1
  <2> HIDE DEF statement
  <2>4. Execute(At(T, t, R0, {}, C1, rows), Update(statement)) = At(T, t, R0, {}, C1, copied)
    BY <1>8, <1>20, <2>2, <2>3, UpdateTurns
  <2> QED
    BY <2>4 DEF statement
<1>24. Execute(At(T, t, R0, {}, C1, copied), DropRef(t, NewSnapshotOrNone))
          = At(T, t, R1, {}, C1, left)
  <2>1. left = IF t = "analysis_runs" THEN WithoutColumn(copied, NewSnapshotOrNone) ELSE copied
    BY DEF left, t
  <2> QED
    BY <1>4, <1>8, <1>21, <2>1, DropRefTurns
<1>25. OldSnapshotOrNone \in R1
  BY <1>4, <1>10
<1> HIDE DEF R1
<1>26. Execute(At(T, t, R1, {}, C1, left), AlterRef(t, OldSnapshotOrNone, OldSnapshot))
          = At(T, t, R2, {}, C1, left)
  BY <1>8, <1>21, <1>25, AlterRefTurns
<1> HIDE DEF R2
<1>27. Script(Db(T, rows), downgrade(r)) = Db(SchemaAt(G), left)
  <2> DEFINE a == DropCheck(t, OneSnapshot)
             b == Update("copy governed snapshots")
             c == DropRef(t, NewSnapshotOrNone)
             d == AlterRef(t, OldSnapshotOrNone, OldSnapshot)
             w == At(T, t, R0, {}, C0, rows)
             x == At(T, t, R0, {}, C1, rows)
             y == At(T, t, R0, {}, C1, copied)
             z == At(T, t, R1, {}, C1, left)
             v == At(T, t, R2, {}, C1, left)
  <2>1. downgrade(r) = <<a, b, c, d>>
    BY <1>9
  <2>2. x = Execute(w, a)
    BY <1>22
  <2>3. y = Execute(x, b)
    BY <1>23
  <2>4. z = Execute(y, c)
    BY <1>24
  <2>5. v = Execute(z, d)
    BY <1>26
  <2>6. w = Db(T, rows) /\ v = Db(SchemaAt(G), left)
    BY <1>11
  <2> HIDE DEF a, b, c, d, w, x, y, z, v
  <2>7. Script(w, <<a, b, c, d>>) = v
    BY <2>2, <2>3, <2>4, <2>5, ScriptOfFour
  <2> QED
    BY <2>1, <2>6, <2>7, Zenon
<1>28. Fit(SchemaAt(G), left)
  BY <1>3, <1>5, <1>21, Zenon DEF FitAt, T
<1>29. StoredIn(SchemaAt(G), left)
  BY <1>3, <1>15, <1>17, <1>28 DEF StoredIn, T
<1>30. KeptAt(G, left)
  <2>1. left.legacy \in BOOLEAN
    BY <1>13, <1>15
  <2>2. left.withheld \in BOOLEAN
    BY <1>15 DEF KeptAt
  <2>3. left.governed \in BOOLEAN /\ ~left.governed
    BY <1>15
  <2> QED
    BY <1>29, <2>1, <2>2, <2>3, Zenon DEF KeptAt
<1> QED
  BY <1>27, <1>30 DEF T, G

NoScoreMissing == NotNull(Scores)
NarrowBands == Values("score_band", Bands)
WideBands == Values("score_band", AllBands)

\* The checks of health snapshots differ from each other.
LEMMA HealthCheckFields ==
    /\ NoScoreMissing[1] # "score_band"
    /\ NarrowBands[1] = "score_band" /\ NarrowBands[2] = Bands
    /\ WideBands[1] = "score_band" /\ WideBands[2] = AllBands
    /\ ComputationStatus[1] # "score_band"
    /\ Bands \subseteq AllBands
    /\ NoScoreMissing # NarrowBands /\ NoScoreMissing # WideBands
    /\ NoScoreMissing # ComputationStatus /\ NarrowBands # ComputationStatus
    /\ WideBands # ComputationStatus /\ NarrowBands # WideBands
    /\ "Critical" \in Bands
<1>1. NoScoreMissing[1] = "scores" /\ ComputationStatus[1] = "computation_status"
  BY DEF NoScoreMissing, ComputationStatus, NotNull, Scores, Values
<1>2. NarrowBands[1] = "score_band" /\ NarrowBands[2] = Bands
      /\ WideBands[1] = "score_band" /\ WideBands[2] = AllBands
  BY DEF NarrowBands, WideBands, Values
<1>3. "Partial" \in AllBands /\ "Partial" \notin Bands /\ Bands \subseteq AllBands
      /\ "Critical" \in Bands
  BY DEF AllBands, Bands
<1> QED
  BY <1>1, <1>2, <1>3

\* A band and scores that the checks allow.
Scored(rows) == "health_snapshots" \in rows.full => rows.band \in Bands /\ ~rows.withheld
BandAllowed(rows) == "health_snapshots" \in rows.full => rows.band \in AllBands

\* Such rows agree with every check of health snapshots.
LEMMA ScoredAgrees ==
    ASSUME NEW rows, Scored(rows), NEW C,
           C \subseteq {NoScoreMissing, NarrowBands, WideBands, ComputationStatus}
    PROVE  HealthAgrees(C, rows)
<1>1. CASE "health_snapshots" \notin rows.full
  BY <1>1, Zenon DEF HealthAgrees
<1>2. CASE "health_snapshots" \in rows.full
  <2>1. rows.band \in Bands /\ ~rows.withheld
    BY <1>2, Zenon DEF Scored
  <2>2. \A c \in C : c[1] = "score_band" => rows.band \in c[2]
    BY <2>1, HealthCheckFields
  <2> QED
    BY <2>1, <2>2, Zenon DEF HealthAgrees
<1> QED
  BY <1>1, <1>2

\* Such rows agree with those of the new form.
LEMMA BandedAgrees ==
    ASSUME NEW rows, BandAllowed(rows), NEW C, C \subseteq {WideBands, ComputationStatus}
    PROVE  HealthAgrees(C, rows)
<1>1. CASE "health_snapshots" \notin rows.full
  BY <1>1, Zenon DEF HealthAgrees
<1>2. CASE "health_snapshots" \in rows.full
  <2>1. rows.band \in AllBands
    BY <1>2, Zenon DEF BandAllowed
  <2>2. \A c \in C : c[1] = "score_band" => rows.band \in c[2]
    BY <2>1, HealthCheckFields
  <2>3. NotNull(Scores) \notin C
    BY HealthCheckFields DEF NoScoreMissing
  <2> QED
    BY <2>2, <2>3, Zenon DEF HealthAgrees
<1> QED
  BY <1>1, <1>2

\* The rows of health snapshots before and after the revision 0011.
LEMMA HealthKept ==
    ASSUME NEW S, NEW rows, KeptAt(S, rows)
    PROVE  /\ "20260825_0011" \notin S => Scored(rows)
           /\ "20260825_0011" \in S => BandAllowed(rows)
<1>1. CASE "health_snapshots" \notin rows.full
  BY <1>1, Zenon DEF Scored, BandAllowed
<1>2. CASE "health_snapshots" \in rows.full
  <2>1. "health_snapshots" \in NamesAt(S) /\ HealthFits(SchemaAt(S)["health_snapshots"], rows)
    BY <1>2 DEF KeptAt, StoredIn, Fit, SchemaAt, SchemaOf
  <2> DEFINE K == {{"analysis_run_id"}}
  <2>2. SchemaAt(S)["health_snapshots"] = Table(HealthRefs, K, HealthChecks(S))
    BY <2>1, ChangedForms DEF SchemaAt, SchemaOf
  <2> HIDE DEF K
  <2>3. HealthAgrees(HealthChecks(S), rows)
    BY <2>1, <2>2, AgreeIsFit
  <2>4. /\ \A c \in HealthChecks(S) : c[1] = "score_band" => rows.band \in c[2]
        /\ NotNull(Scores) \in HealthChecks(S) => ~rows.withheld
    BY <1>2, <2>3, Zenon DEF HealthAgrees
  <2>5. "20260825_0011" \notin S => HealthChecks(S) = {NoScoreMissing, NarrowBands}
    BY DEF HealthChecks, NoScoreMissing, NarrowBands
  <2>6. "20260825_0011" \in S => HealthChecks(S) = {WideBands, ComputationStatus}
    BY DEF HealthChecks, WideBands
  <2>7. ASSUME "20260825_0011" \notin S
        PROVE  rows.band \in Bands /\ ~rows.withheld
    <3>1. NarrowBands \in HealthChecks(S) /\ NotNull(Scores) \in HealthChecks(S)
      BY <2>5, <2>7 DEF NoScoreMissing
    <3>2. rows.band \in NarrowBands[2]
      BY <2>4, <3>1, HealthCheckFields
    <3> QED
      BY <2>4, <3>1, <3>2, HealthCheckFields
  <2>8. ASSUME "20260825_0011" \in S
        PROVE  rows.band \in AllBands
    BY <2>4, <2>6, <2>8, HealthCheckFields
  <2> QED
    BY <2>7, <2>8, Zenon DEF Scored, BandAllowed
<1> QED
  BY <1>1, <1>2

\* What the update that fills in the scores does to the rows.
ScoresFilled(rows, after) ==
    /\ after = [x \in {"full", "legacy", "governed", "band", "withheld"} |-> after[x]]
    /\ after.full = rows.full
    /\ after.legacy = rows.legacy
    /\ after.governed = rows.governed
    /\ after.withheld = FALSE
    /\ after.band \in Bands

\* It fills in what is missing: a score, and a band that says so.
LEMMA FillScores ==
    ASSUME NEW rows, rows = [x \in {"full", "legacy", "governed", "band", "withheld"} |-> rows[x]]
    PROVE  ScoresFilled(rows, RowsAfter(rows, Update("fill scores")))
<1> DEFINE s == Update("fill scores")
           after == RowsAfter(rows, s)
           band == IF rows.band \in Bands THEN rows.band ELSE "Critical"
<1>1. s.op = "fill scores"
  BY DEF Update
<1>2. after = [rows EXCEPT !.withheld = FALSE, !.band = band]
  BY <1>1 DEF RowsAfter
<1>3. band \in Bands
  BY HealthCheckFields
<1> HIDE DEF after, band
<1>4. after = [x \in {"full", "legacy", "governed", "band", "withheld"} |-> after[x]]
  BY <1>2
<1>5. after.full = rows.full
  BY <1>2
<1>6. after.legacy = rows.legacy
  BY <1>2
<1>7. after.governed = rows.governed
  BY <1>2
<1>8. after.withheld = FALSE
  BY <1>2
<1>9. after.band = band
  BY <1>2
<1>10. ScoresFilled(rows, after)
  BY <1>3, <1>4, <1>5, <1>6, <1>7, <1>8, <1>9, Zenon DEF ScoresFilled
<1> QED
  BY <1>10 DEF after

\* 20260825_0011 changes the health snapshots only.
LEMMA HealthDiffers ==
    ASSUME NEW S, Closed(S), "20260825_0011" \notin S, "20260825_0010" \in S
    PROVE  LET G == S \union {"20260825_0011"} IN
           /\ NamesAt(G) = NamesAt(S)
           /\ DifferIn(NamesAt(S), S, G, "health_snapshots")
           /\ DifferIn(NamesAt(S), G, S, "health_snapshots")
           /\ HealthChecks(S) = {NoScoreMissing, NarrowBands}
           /\ HealthChecks(G) = {WideBands, ComputationStatus}
<1> DEFINE r == "20260825_0011"  G == S \union {r}
<1>1. "20260822_0003" \in S
  BY ClosedChain
<1>2. RevisionOf("health_snapshots") = "20260822_0003"
  BY Revised
<1>3. "health_snapshots" \in Tables
  BY TablePlaces DEF Place
<1>4. "health_snapshots" \in NamesAt(S)
  BY <1>1, <1>2, <1>3 DEF NamesAt
<1>5. NamesAt(G) = NamesAt(S)
  BY NamesStay
<1>6. \A t : t # "health_snapshots" => FormAt(G, t) = FormAt(S, t)
  BY FormsDiffer
<1>7. HealthChecks(S) = {NoScoreMissing, NarrowBands}
      /\ HealthChecks(G) = {WideBands, ComputationStatus}
  BY DEF HealthChecks, NoScoreMissing, NarrowBands, WideBands
<1> QED
  BY <1>4, <1>5, <1>6, <1>7 DEF DifferIn

\* 0011: a band for scores that are not there.
LEMMA HealthUpgrade ==
    ASSUME NEW S, NEW r, r = "20260825_0011", Fresh(S, r), NEW rows, KeptAt(S, rows)
    PROVE  /\ Script(Db(SchemaAt(S), rows), upgrade(r)) = Db(SchemaAt(S \union {r}), rows)
           /\ KeptAt(S \union {r}, rows)
<1> DEFINE G == S \union {r}
           T == SchemaAt(S)
           R == HealthRefs
           K == {{"analysis_run_id"}}
           C0 == HealthChecks(S)
           C1 == C0 \ {NoScoreMissing}
           C2 == C1 \ {NarrowBands}
           C3 == C2 \union {WideBands}
           C4 == C3 \union {ComputationStatus}
           t == "health_snapshots"
<1>1. Closed(S) /\ r \notin S /\ "20260825_0010" \in S
  BY DownRevisions DEF Fresh
<1>2. /\ NamesAt(G) = NamesAt(S) /\ DifferIn(NamesAt(S), S, G, t)
      /\ C0 = {NoScoreMissing, NarrowBands} /\ HealthChecks(G) = {WideBands, ComputationStatus}
  BY <1>1, HealthDiffers
<1>3. /\ SchemaAt(S) = With(SchemaAt(S), t, FormAt(S, t))
      /\ SchemaAt(G) = With(SchemaAt(S), t, FormAt(G, t))
      /\ DOMAIN SchemaAt(S) = NamesAt(S) /\ DOMAIN SchemaAt(G) = NamesAt(S)
      /\ t \in NamesAt(S)
  <2> HIDE DEF G
  <2> QED
    BY <1>2, SchemaTurns
<1>4. /\ NoScoreMissing \in C0 /\ NarrowBands \in C1 /\ HealthChecks(G) = C4
  BY <1>2, HealthCheckFields
<1>5. FormAt(S, t) = Table(R, K, C0) /\ FormAt(G, t) = Table(R, K, C4)
  BY <1>4, ChangedForms
<1>6. Scored(rows)
  BY <1>1, HealthKept
<1>7. StoredIn(T, rows) /\ RunsFit(T["analysis_runs"], rows) /\ rows.full \subseteq DOMAIN T
  BY DEF KeptAt, StoredIn, Fit
<1>8. t \in DOMAIN T
  BY <1>3
<1>9. upgrade(r) = <<DropCheck(t, NoScoreMissing), DropCheck(t, NarrowBands),
                     AddCheck(t, WideBands), AddCheck(t, ComputationStatus)>>
  BY DEF upgrade, health_availability, NoScoreMissing, NarrowBands, WideBands
<1>10. /\ C1 \subseteq {NoScoreMissing, NarrowBands, WideBands, ComputationStatus}
       /\ C2 \subseteq {NoScoreMissing, NarrowBands, WideBands, ComputationStatus}
       /\ C3 \subseteq {NoScoreMissing, NarrowBands, WideBands, ComputationStatus}
       /\ C4 \subseteq {NoScoreMissing, NarrowBands, WideBands, ComputationStatus}
  BY <1>2
<1>11. At(T, t, R, K, C0, rows) = Db(T, rows) /\ At(T, t, R, K, C4, rows) = Db(SchemaAt(G), rows)
  BY <1>3, <1>5, Zenon DEF At
<1> HIDE DEF T, R, K, C0, t, G
<1>12. \A C : C \subseteq {NoScoreMissing, NarrowBands, WideBands, ComputationStatus}
                 => FitAt(T, t, R, K, C, rows)
  <2> SUFFICES ASSUME NEW C,
                      C \subseteq {NoScoreMissing, NarrowBands, WideBands, ComputationStatus}
               PROVE  FitAt(T, t, R, K, C, rows)
    OBVIOUS
  <2>1. HealthAgrees(C, rows)
    BY <1>6, ScoredAgrees
  <2> QED
    BY <1>7, <1>8, <2>1, FitHealth DEF t
<1>13. /\ FitAt(T, t, R, K, C1, rows) /\ FitAt(T, t, R, K, C2, rows)
       /\ FitAt(T, t, R, K, C3, rows) /\ FitAt(T, t, R, K, C4, rows)
  <2> HIDE DEF C1, C2, C3, C4
  <2> QED
    BY <1>10, <1>12
<1>14. Execute(At(T, t, R, K, C0, rows), DropCheck(t, NoScoreMissing)) = At(T, t, R, K, C1, rows)
  BY <1>4, <1>8, <1>13, DropCheckTurns
<1> HIDE DEF C1
<1>15. Execute(At(T, t, R, K, C1, rows), DropCheck(t, NarrowBands)) = At(T, t, R, K, C2, rows)
  BY <1>4, <1>8, <1>13, DropCheckTurns
<1> HIDE DEF C2
<1>16. Execute(At(T, t, R, K, C2, rows), AddCheck(t, WideBands)) = At(T, t, R, K, C3, rows)
  BY <1>8, <1>13, AddCheckTurns
<1> HIDE DEF C3
<1>17. Execute(At(T, t, R, K, C3, rows), AddCheck(t, ComputationStatus)) = At(T, t, R, K, C4, rows)
  BY <1>8, <1>13, AddCheckTurns
<1> HIDE DEF C4
<1>18. Script(Db(T, rows), upgrade(r)) = Db(SchemaAt(G), rows)
  <2> DEFINE a == DropCheck(t, NoScoreMissing)
             b == DropCheck(t, NarrowBands)
             c == AddCheck(t, WideBands)
             d == AddCheck(t, ComputationStatus)
             w == At(T, t, R, K, C0, rows)
             x == At(T, t, R, K, C1, rows)
             y == At(T, t, R, K, C2, rows)
             z == At(T, t, R, K, C3, rows)
             v == At(T, t, R, K, C4, rows)
  <2>1. upgrade(r) = <<a, b, c, d>>
    BY <1>9
  <2>2. x = Execute(w, a)
    BY <1>14
  <2>3. y = Execute(x, b)
    BY <1>15
  <2>4. z = Execute(y, c)
    BY <1>16
  <2>5. v = Execute(z, d)
    BY <1>17
  <2>6. w = Db(T, rows) /\ v = Db(SchemaAt(G), rows)
    BY <1>11
  <2> HIDE DEF a, b, c, d, w, x, y, z, v
  <2>7. Script(w, <<a, b, c, d>>) = v
    BY <2>2, <2>3, <2>4, <2>5, ScriptOfFour
  <2> QED
    BY <2>1, <2>6, <2>7, Zenon
<1>19. Fit(SchemaAt(G), rows)
  BY <1>3, <1>5, <1>13, Zenon DEF FitAt, T
<1>20. StoredIn(SchemaAt(G), rows)
  BY <1>3, <1>7, <1>19 DEF StoredIn, T
<1>21. KeptAt(G, rows)
  BY <1>20 DEF KeptAt, G
<1> QED
  BY <1>18, <1>21 DEF T, G

\* Its downgrade fills in the scores before it asks for them.
LEMMA HealthDowngrade ==
    ASSUME NEW S, NEW r, r = "20260825_0011", Topmost(S, r), NEW rows, KeptAt(S, rows)
    PROVE  \E left : /\ Script(Db(SchemaAt(S), rows), downgrade(r)) = Db(SchemaAt(S \ {r}), left)
                     /\ KeptAt(S \ {r}, left)
<1> DEFINE G == S \ {r}
           T == SchemaAt(S)
           R == HealthRefs
           K == {{"analysis_run_id"}}
           C0 == HealthChecks(S)
           C1 == C0 \ {ComputationStatus}
           C2 == C1 \ {WideBands}
           C3 == C2 \union {NarrowBands}
           C4 == C3 \union {NoScoreMissing}
           t == "health_snapshots"
           left == RowsAfter(rows, Update("fill scores"))
<1>1. Closed(G) /\ r \notin G /\ r \in S /\ "20260825_0010" \in G /\ G \union {r} = S
  <2>1. Closed(G) /\ G \union {r} = S
    BY TopmostIsFresh
  <2>2. "20260825_0010" \in S
    BY DownRevisions DEF Topmost, Closed
  <2> QED
    BY <2>1, <2>2 DEF Topmost
<1>2. /\ NamesAt(G) = NamesAt(S) /\ DifferIn(NamesAt(S), S, G, t)
      /\ HealthChecks(G) = {NoScoreMissing, NarrowBands} /\ C0 = {WideBands, ComputationStatus}
  <2> HIDE DEF G
  <2>1. G \union {"20260825_0011"} = S
    BY <1>1
  <2> QED
    BY <1>1, <2>1, HealthDiffers
<1>3. /\ SchemaAt(S) = With(SchemaAt(S), t, FormAt(S, t))
      /\ SchemaAt(G) = With(SchemaAt(S), t, FormAt(G, t))
      /\ DOMAIN SchemaAt(S) = NamesAt(S) /\ DOMAIN SchemaAt(G) = NamesAt(S)
      /\ t \in NamesAt(S)
  <2> HIDE DEF G
  <2> QED
    BY <1>2, SchemaTurns
<1>4. /\ ComputationStatus \in C0 /\ WideBands \in C1 /\ HealthChecks(G) = C4
  BY <1>2, HealthCheckFields
<1>5. FormAt(S, t) = Table(R, K, C0) /\ FormAt(G, t) = Table(R, K, C4)
  BY <1>4, ChangedForms
<1>6. BandAllowed(rows)
  BY <1>1, HealthKept
<1>7. StoredIn(T, rows) /\ RunsFit(T["analysis_runs"], rows) /\ rows.full \subseteq DOMAIN T
  BY DEF KeptAt, StoredIn, Fit
<1>8. t \in DOMAIN T
  BY <1>3
<1>9. downgrade(r) = <<DropCheck(t, ComputationStatus), Update("fill scores"),
         DropCheck(t, WideBands), AddCheck(t, NarrowBands), AddCheck(t, NoScoreMissing)>>
  BY DEF downgrade, undo_health_availability, NoScoreMissing, NarrowBands, WideBands
<1>10. /\ C1 \subseteq {WideBands, ComputationStatus}
       /\ C1 \subseteq {NoScoreMissing, NarrowBands, WideBands, ComputationStatus}
       /\ C2 \subseteq {NoScoreMissing, NarrowBands, WideBands, ComputationStatus}
       /\ C3 \subseteq {NoScoreMissing, NarrowBands, WideBands, ComputationStatus}
       /\ C4 \subseteq {NoScoreMissing, NarrowBands, WideBands, ComputationStatus}
  BY <1>2
<1>11. At(T, t, R, K, C0, rows) = Db(T, rows) /\ At(T, t, R, K, C4, left) = Db(SchemaAt(G), left)
  BY <1>3, <1>5, Zenon DEF At
<1>12. ScoresFilled(rows, left)
  <2>1. rows = [x \in {"full", "legacy", "governed", "band", "withheld"} |-> rows[x]]
    BY DEF KeptAt, StoredIn
  <2> QED
    BY <2>1, FillScores
<1> HIDE DEF left
<1>13. /\ left = [x \in {"full", "legacy", "governed", "band", "withheld"} |-> left[x]]
       /\ left.full = rows.full /\ left.legacy = rows.legacy /\ left.governed = rows.governed
       /\ left.withheld = FALSE /\ left.band \in Bands
  BY <1>12, Zenon DEF ScoresFilled
<1>14. Scored(left)
  BY <1>13, Zenon DEF Scored
<1> HIDE DEF T, R, K, C0, t, G
<1>15. RunsFit(T["analysis_runs"], left) /\ left.full \subseteq DOMAIN T
  BY <1>7, <1>13, Zenon DEF RunsFit
<1>16. \A C : C \subseteq {NoScoreMissing, NarrowBands, WideBands, ComputationStatus}
                 => FitAt(T, t, R, K, C, left)
  <2> SUFFICES ASSUME NEW C,
                      C \subseteq {NoScoreMissing, NarrowBands, WideBands, ComputationStatus}
               PROVE  FitAt(T, t, R, K, C, left)
    OBVIOUS
  <2>1. HealthAgrees(C, left)
    BY <1>14, ScoredAgrees
  <2> QED
    BY <1>8, <1>15, <2>1, FitHealth DEF t
<1>17. /\ FitAt(T, t, R, K, C1, left) /\ FitAt(T, t, R, K, C2, left)
       /\ FitAt(T, t, R, K, C3, left) /\ FitAt(T, t, R, K, C4, left)
       /\ FitAt(T, t, R, K, C1, rows)
  <2> HIDE DEF C1, C2, C3, C4
  <2>1. HealthAgrees(C1, rows)
    BY <1>6, <1>10, BandedAgrees
  <2>2. FitAt(T, t, R, K, C1, rows)
    BY <1>7, <1>8, <2>1, FitHealth DEF t
  <2> QED
    BY <1>10, <1>16, <2>2
<1>18. Execute(At(T, t, R, K, C0, rows), DropCheck(t, ComputationStatus))
          = At(T, t, R, K, C1, rows)
  BY <1>4, <1>8, <1>17, DropCheckTurns
<1> HIDE DEF C1
<1>19. Execute(At(T, t, R, K, C1, rows), Update("fill scores")) = At(T, t, R, K, C1, left)
  <2> DEFINE statement == "fill scores"
  <2>1. MayUpdate(DOMAIN T, statement)
    BY <1>8 DEF MayUpdate, t
  <2>2. left = RowsAfter(rows, Update(statement))
    BY DEF left
  <2> HIDE DEF statement
  <2>3. Execute(At(T, t, R, K, C1, rows), Update(statement)) = At(T, t, R, K, C1, left)
    BY <1>8, <1>17, <2>1, <2>2, UpdateTurns
  <2> QED
    BY <2>3 DEF statement
<1>20. Execute(At(T, t, R, K, C1, left), DropCheck(t, WideBands)) = At(T, t, R, K, C2, left)
  BY <1>4, <1>8, <1>17, DropCheckTurns
<1> HIDE DEF C2
<1>21. Execute(At(T, t, R, K, C2, left), AddCheck(t, NarrowBands)) = At(T, t, R, K, C3, left)
  BY <1>8, <1>17, AddCheckTurns
<1> HIDE DEF C3
<1>22. Execute(At(T, t, R, K, C3, left), AddCheck(t, NoScoreMissing)) = At(T, t, R, K, C4, left)
  BY <1>8, <1>17, AddCheckTurns
<1> HIDE DEF C4
<1>23. Script(Db(T, rows), downgrade(r)) = Db(SchemaAt(G), left)
  <2> DEFINE a == DropCheck(t, ComputationStatus)
             b == Update("fill scores")
             c == DropCheck(t, WideBands)
             d == AddCheck(t, NarrowBands)
             e == AddCheck(t, NoScoreMissing)
             u == At(T, t, R, K, C0, rows)
             w == At(T, t, R, K, C1, rows)
             x == At(T, t, R, K, C1, left)
             y == At(T, t, R, K, C2, left)
             z == At(T, t, R, K, C3, left)
             v == At(T, t, R, K, C4, left)
  <2>1. downgrade(r) = <<a, b, c, d, e>>
    BY <1>9
  <2>2. w = Execute(u, a)
    BY <1>18
  <2>3. x = Execute(w, b)
    BY <1>19
  <2>4. y = Execute(x, c)
    BY <1>20
  <2>5. z = Execute(y, d)
    BY <1>21
  <2>6. v = Execute(z, e)
    BY <1>22
  <2>7. u = Db(T, rows) /\ v = Db(SchemaAt(G), left)
    BY <1>11
  <2> HIDE DEF a, b, c, d, e, u, w, x, y, z, v
  <2>8. Script(u, <<a, b, c, d, e>>) = v
    BY <2>2, <2>3, <2>4, <2>5, <2>6, ScriptOfFive
  <2> QED
    BY <2>1, <2>7, <2>8, Zenon
<1>24. Fit(SchemaAt(G), left)
  BY <1>3, <1>5, <1>17, Zenon DEF FitAt, T
<1>25. StoredIn(SchemaAt(G), left)
  BY <1>3, <1>13, <1>15, <1>24 DEF StoredIn, T
<1>26. KeptAt(G, left)
  <2>1. rows.legacy \in BOOLEAN /\ rows.governed \in BOOLEAN
    BY DEF KeptAt
  <2>2. rows.governed => "20260825_0010" \in G
    BY <1>1
  <2>3. left.withheld \in BOOLEAN
    BY <1>13
  <2> QED
    BY <1>13, <1>25, <2>1, <2>2, <2>3, Zenon DEF KeptAt
<1> QED
  BY <1>23, <1>26 DEF T, G

\* One statement and two.
LEMMA ScriptOfOne ==
    ASSUME NEW base, NEW a
    PROVE  Script(base, <<a>>) = Execute(base, a)
<1> DEFINE s == <<a>>
           x == Execute(base, a)
           D == [i \in 0..1 |-> IF i = 0 THEN base ELSE x]
<1>1. D[0] = base /\ D[1] = x
  OBVIOUS
<1>2. DOMAIN s = 1..1 /\ s[1] = a
  OBVIOUS
<1>3. x = Execute(base, a)
  OBVIOUS
<1> HIDE DEF s, D, x
<1>4. \A i \in 1..1 : D[i] = Execute(D[i - 1], s[i])
  BY <1>1, <1>2, <1>3
<1>5. Steps(D, base, s, 1)
  BY <1>1, <1>4 DEF Steps
<1>6. Script(base, s) = D[1]
  BY <1>2, <1>5, ScriptIsSteps
<1> QED
  BY <1>1, <1>3, <1>6 DEF s

\* Two statements, one after the other.
LEMMA ScriptOfTwo ==
    ASSUME NEW base, NEW a, NEW b, NEW x, x = Execute(base, a), NEW y, y = Execute(x, b)
    PROVE  Script(base, <<a, b>>) = y
<1> DEFINE s == <<a, b>>
           D == [i \in 0..2 |-> IF i = 0 THEN base ELSE IF i = 1 THEN x ELSE y]
<1>1. D[0] = base /\ D[1] = x /\ D[2] = y
  OBVIOUS
<1>2. DOMAIN s = 1..2 /\ s[1] = a /\ s[2] = b
  OBVIOUS
<1> HIDE DEF s, D
<1>3. \A i \in 1..2 : D[i] = Execute(D[i - 1], s[i])
  BY <1>1, <1>2
<1>4. Steps(D, base, s, 2)
  BY <1>1, <1>3 DEF Steps
<1>5. Script(base, s) = D[2]
  BY <1>2, <1>4, ScriptIsSteps
<1> QED
  BY <1>1, <1>5 DEF s

OfLength(a, n) == n \in Nat /\ a = [i \in 1..n |-> a[i]]

\* Two scripts, and how long they are together.
LEMMA ScriptsJoin ==
    ASSUME NEW base, NEW a, NEW b, NEW m, NEW n, OfLength(a, m), OfLength(b, n)
    PROVE  Script(base, a \o b) = Script(Script(base, a), b) /\ OfLength(a \o b, m + n)
<1>1. /\ m \in Nat /\ a = [i \in 1..m |-> a[i]]
      /\ n \in Nat /\ b = [i \in 1..n |-> b[i]]
  BY DEF OfLength
<1>2. Script(base, a \o b) = Script(Script(base, a), b)
  BY <1>1, ScriptConcat
<1>3. a \o b = [i \in 1..(m + n) |-> (a \o b)[i]] /\ m + n \in Nat
  BY <1>1, ConcatIs
<1> QED
  BY <1>2, <1>3 DEF OfLength

\* A table whose indexes are renamed: its references, and its other checks.
TelemetryRefs(t) == IF t = "product_events" THEN EventRefs ELSE FeedbackRefs
TelemetryChecks(t) == IF t = "product_events" THEN {} ELSE FeedbackChecks

\* The two tables whose indexes 20260831_0013 renames.
LEMMA TelemetryForms ==
    ASSUME NEW F, NEW t \in {"product_events", "finding_feedback"}
    PROVE  /\ FormAt(F, t) = Table(TelemetryRefs(t), {}, TelemetryChecks(t) \union {IndexNames(F)})
           /\ IndexNames(F) \notin TelemetryChecks(t)
<1>1. \A c \in FeedbackChecks : c[1] # "indexes"
  BY DEF FeedbackChecks, Values
<1>2. IndexNames(F)[1] = "indexes"
  BY DEF IndexNames, LongNames, ShortNames, Values
<1>3. IndexNames(F) \notin FeedbackChecks
  BY <1>1, <1>2
<1>4. CASE t = "product_events"
  <2>1. TelemetryRefs(t) = EventRefs /\ TelemetryChecks(t) = {}
    BY <1>4 DEF TelemetryRefs, TelemetryChecks
  <2>2. FormAt(F, t) = Table(EventRefs, {}, {IndexNames(F)})
    BY <1>4, ChangedForms
  <2>3. {} \union {IndexNames(F)} = {IndexNames(F)}
    OBVIOUS
  <2> QED
    BY <2>1, <2>2, <2>3
<1>5. CASE t = "finding_feedback"
  <2>1. TelemetryRefs(t) = FeedbackRefs /\ TelemetryChecks(t) = FeedbackChecks
    BY <1>5 DEF TelemetryRefs, TelemetryChecks
  <2>2. FormAt(F, t) = Table(FeedbackRefs, {}, FeedbackChecks \union {IndexNames(F)})
    BY <1>5, ChangedForms
  <2> QED
    BY <1>3, <2>1, <2>2
<1> QED
  BY <1>4, <1>5

\* A check that is replaced.
Renames(T, t, R, K, C, was, becomes, M, rows) ==
    /\ t \in DOMAIN T /\ t \notin {"analysis_runs", "health_snapshots"}
    /\ was \notin C
    /\ T = With(T, t, Table(R, K, C \union {was}))
    /\ M = With(T, t, Table(R, K, C \union {becomes}))
    /\ StoredIn(T, rows)

\* The check is replaced, and the rows still fit.
LEMMA RenameTurns ==
    ASSUME NEW T, NEW t, NEW R, NEW K, NEW C, NEW was, NEW becomes, NEW M, NEW rows,
           Renames(T, t, R, K, C, was, becomes, M, rows)
    PROVE  /\ Script(Db(T, rows), Rename(t, was, becomes)) = Db(M, rows)
           /\ StoredIn(M, rows)
<1>0. /\ t \in DOMAIN T /\ t \notin {"analysis_runs", "health_snapshots"}
      /\ was \notin C
      /\ T = With(T, t, Table(R, K, C \union {was}))
      /\ M = With(T, t, Table(R, K, C \union {becomes}))
      /\ StoredIn(T, rows)
  BY DEF Renames
<1> DEFINE C0 == C \union {was}
           C2 == C \union {becomes}
<1>1. was \in C0 /\ C0 \ {was} = C
  BY <1>0
<1>2. FitAt(T, t, R, K, C, rows) /\ FitAt(T, t, R, K, C2, rows)
  BY <1>0, FitOther
<1>3. At(T, t, R, K, C0, rows) = Db(T, rows)
  BY <1>0, Zenon DEF At
<1> HIDE DEF C0
<1>4. FitAt(T, t, R, K, C0 \ {was}, rows)
  BY <1>1, <1>2
<1>5. Execute(At(T, t, R, K, C0, rows), DropCheck(t, was)) = At(T, t, R, K, C0 \ {was}, rows)
  BY <1>0, <1>1, <1>4, DropCheckTurns
<1>6. Execute(At(T, t, R, K, C0, rows), DropCheck(t, was)) = At(T, t, R, K, C, rows)
  BY <1>1, <1>5
<1>7. Execute(At(T, t, R, K, C, rows), AddCheck(t, becomes)) = At(T, t, R, K, C2, rows)
  BY <1>0, <1>2, AddCheckTurns
<1>8. DOMAIN With(T, t, Table(R, K, C2)) = DOMAIN T
  BY <1>0, WithIs
<1> HIDE DEF C2
<1> DEFINE a == DropCheck(t, was)
           b == AddCheck(t, becomes)
           x == At(T, t, R, K, C, rows)
           y == At(T, t, R, K, C2, rows)
<1>9. x = Execute(Db(T, rows), a) /\ y = Execute(x, b)
  BY <1>3, <1>6, <1>7
<1>10. Rename(t, was, becomes) = <<a, b>>
  BY DEF Rename
<1>11. y = Db(With(T, t, Table(R, K, C2)), rows)
  BY DEF At
<1> HIDE DEF a, b, x, y
<1>12. Script(Db(T, rows), <<a, b>>) = y
  BY <1>9, ScriptOfTwo
<1>13. Script(Db(T, rows), Rename(t, was, becomes)) = Db(With(T, t, Table(R, K, C2)), rows)
  BY <1>10, <1>11, <1>12, Zenon
<1>14. StoredIn(With(T, t, Table(R, K, C2)), rows)
  BY <1>0, <1>2, <1>8 DEF StoredIn, FitAt
<1> QED
  BY <1>0, <1>13, <1>14 DEF C2

\* The schemas of S and G differ in the names of the indexes.
Renamed(S, G) ==
    /\ NamesAt(G) = NamesAt(S)
    /\ {"product_events", "finding_feedback"} \subseteq NamesAt(S)
    /\ \A u : u \notin {"product_events", "finding_feedback"} => FormAt(G, u) = FormAt(S, u)

\* The indexes of both tables are renamed.
LEMMA TwoRenames ==
    ASSUME NEW S, NEW G, Renamed(S, G),
           NEW t \in {"product_events", "finding_feedback"},
           NEW u \in {"product_events", "finding_feedback"}, t # u,
           NEW rows, StoredIn(SchemaAt(S), rows)
    PROVE  /\ Script(Db(SchemaAt(S), rows), Rename(t, IndexNames(S), IndexNames(G))
                                              \o Rename(u, IndexNames(S), IndexNames(G)))
                 = Db(SchemaAt(G), rows)
           /\ StoredIn(SchemaAt(G), rows)
<1> DEFINE T == SchemaAt(S)
           was == IndexNames(S)
           becomes == IndexNames(G)
           M == With(T, t, FormAt(G, t))
<1>1. {t, u} \subseteq DOMAIN T /\ \A x \in DOMAIN T : T[x] = FormAt(S, x)
  BY DEF Renamed, SchemaAt, SchemaOf
<1>2. T = With(T, t, FormAt(S, t))
  BY <1>1 DEF With, SchemaAt, SchemaOf
<1>3. DOMAIN M = DOMAIN T /\ M[u] = FormAt(S, u)
  BY <1>1 DEF With
<1>4. M = With(M, u, FormAt(S, u))
  BY <1>1, <1>3 DEF With
<1>5. SchemaAt(G) = With(M, u, FormAt(G, u))
  <2>1. \A x \in NamesAt(S) : x = t \/ x = u \/ FormAt(G, x) = FormAt(S, x)
    BY DEF Renamed
  <2>2. DOMAIN T = NamesAt(S) /\ SchemaAt(G) = [x \in NamesAt(S) |-> FormAt(G, x)]
    BY DEF SchemaAt, SchemaOf, Renamed
  <2> HIDE DEF T
  <2> QED
    BY <1>1, <2>1, <2>2 DEF With
<1>6. /\ FormAt(S, t) = Table(TelemetryRefs(t), {}, TelemetryChecks(t) \union {was})
      /\ FormAt(G, t) = Table(TelemetryRefs(t), {}, TelemetryChecks(t) \union {becomes})
      /\ FormAt(S, u) = Table(TelemetryRefs(u), {}, TelemetryChecks(u) \union {was})
      /\ FormAt(G, u) = Table(TelemetryRefs(u), {}, TelemetryChecks(u) \union {becomes})
      /\ was \notin TelemetryChecks(t) /\ was \notin TelemetryChecks(u)
  BY TelemetryForms
<1>7. t \notin {"analysis_runs", "health_snapshots"}
          /\ u \notin {"analysis_runs", "health_snapshots"}
  OBVIOUS
<1> DEFINE Rt == TelemetryRefs(t)  Ct == TelemetryChecks(t)
           Ru == TelemetryRefs(u)  Cu == TelemetryChecks(u)
           K == {}
           a == Rename(t, was, becomes)
           b == Rename(u, was, becomes)
<1>8. OfLength(a, 2) /\ OfLength(b, 2)
  BY DEF Rename, OfLength
<1>9. /\ T = With(T, t, Table(Rt, K, Ct \union {was}))
      /\ M = With(T, t, Table(Rt, K, Ct \union {becomes}))
      /\ M = With(M, u, Table(Ru, K, Cu \union {was}))
      /\ SchemaAt(G) = With(M, u, Table(Ru, K, Cu \union {becomes}))
      /\ was \notin Ct /\ was \notin Cu
  BY <1>2, <1>4, <1>5, <1>6, Zenon
<1>10. StoredIn(T, rows) /\ t \in DOMAIN T /\ u \in DOMAIN M
  BY <1>1, <1>3
<1> HIDE DEF T, M, was, becomes, Rt, Ct, Ru, Cu, K
<1>11. Script(Db(T, rows), a) = Db(M, rows) /\ StoredIn(M, rows)
  <2>1. Renames(T, t, Rt, K, Ct, was, becomes, M, rows)
    BY <1>7, <1>9, <1>10, Zenon DEF Renames
  <2> QED
    BY <2>1, RenameTurns
<1>12. Script(Db(M, rows), b) = Db(SchemaAt(G), rows) /\ StoredIn(SchemaAt(G), rows)
  <2>1. Renames(M, u, Ru, K, Cu, was, becomes, SchemaAt(G), rows)
    BY <1>7, <1>9, <1>10, <1>11, Zenon DEF Renames
  <2> QED
    BY <2>1, RenameTurns
<1> HIDE DEF a, b
<1>13. Script(Db(T, rows), a \o b) = Script(Script(Db(T, rows), a), b)
  BY <1>8, ScriptsJoin
<1>14. Script(Db(T, rows), a \o b) = Db(SchemaAt(G), rows)
  BY <1>11, <1>12, <1>13
<1> QED
  BY <1>12, <1>14 DEF T, a, b, was, becomes

\* 20260831_0013 changes these names only.
LEMMA NamesDiffer ==
    ASSUME NEW S, Closed(S), "20260831_0012" \in S, "20260831_0013" \notin S
    PROVE  LET G == S \union {"20260831_0013"} IN
           /\ Renamed(S, G) /\ Renamed(G, S)
           /\ IndexNames(S) = ShortNames /\ IndexNames(G) = LongNames
<1> DEFINE r == "20260831_0013"  G == S \union {r}
<1>1. "20260906_0001" \in S
  BY ClosedChain
<1>2. RevisionOf("product_events") = "20260906_0001"
      /\ RevisionOf("finding_feedback") = "20260906_0001"
  BY Revised
<1>3. {"product_events", "finding_feedback"} \subseteq Tables
  BY TablePlaces DEF Place
<1>4. {"product_events", "finding_feedback"} \subseteq NamesAt(S)
  BY <1>1, <1>2, <1>3 DEF NamesAt
<1>5. NamesAt(G) = NamesAt(S)
  <2>1. NamesAt(S \union {r}) = NamesAt(S)
    <3>1. \A k : RevisionAt(k) # r
      BY DEF RevisionAt
    <3>2. \A t \in Tables : RevisionOf(t) # r
      BY <3>1 DEF RevisionOf
    <3> QED
      BY <3>2 DEF NamesAt
  <2> QED
    BY <2>1
<1>6. \A t : t \notin {"product_events", "finding_feedback"} => FormAt(G, t) = FormAt(S, t)
  BY FormsDiffer
<1>7. IndexNames(S) = ShortNames /\ IndexNames(G) = LongNames
  BY DEF IndexNames
<1> QED
  BY <1>4, <1>5, <1>6, <1>7 DEF Renamed

\* 0013: the indexes are renamed.
LEMMA RenameUpgrade ==
    ASSUME NEW S, NEW r, r = "20260831_0013", Fresh(S, r), NEW rows, StoredIn(SchemaAt(S), rows)
    PROVE  /\ Script(Db(SchemaAt(S), rows), upgrade(r)) = Db(SchemaAt(S \union {r}), rows)
           /\ StoredIn(SchemaAt(S \union {r}), rows)
<1> DEFINE G == S \union {r}
<1>1. Closed(S) /\ r \notin S /\ "20260831_0012" \in S
  BY DownRevisions DEF Fresh
<1>2. Renamed(S, G) /\ IndexNames(S) = ShortNames /\ IndexNames(G) = LongNames
  BY <1>1, NamesDiffer
<1>3. upgrade(r) = Rename("product_events", ShortNames, LongNames)
                     \o Rename("finding_feedback", ShortNames, LongNames)
  BY DEF upgrade, align_telemetry_index_names
<1> HIDE DEF G
<1>4. /\ Script(Db(SchemaAt(S), rows), Rename("product_events", IndexNames(S), IndexNames(G))
                                 \o Rename("finding_feedback", IndexNames(S), IndexNames(G)))
             = Db(SchemaAt(G), rows)
      /\ StoredIn(SchemaAt(G), rows)
  BY <1>2, TwoRenames
<1> QED
  BY <1>2, <1>3, <1>4, Zenon DEF G

\* It is undone the same way.
LEMMA RenameDowngrade ==
    ASSUME NEW S, NEW r, r = "20260831_0013", Topmost(S, r), NEW rows, StoredIn(SchemaAt(S), rows)
    PROVE  /\ Script(Db(SchemaAt(S), rows), downgrade(r)) = Db(SchemaAt(S \ {r}), rows)
           /\ StoredIn(SchemaAt(S \ {r}), rows)
<1> DEFINE G == S \ {r}
<1>1. Closed(G) /\ r \notin G /\ "20260831_0012" \in G /\ G \union {r} = S
  <2>1. Closed(G) /\ G \union {r} = S
    BY TopmostIsFresh
  <2>2. "20260831_0012" \in S
    BY DownRevisions DEF Topmost, Closed
  <2> QED
    BY <2>1, <2>2
<1>2. Renamed(S, G) /\ IndexNames(S) = LongNames /\ IndexNames(G) = ShortNames
  <2> HIDE DEF G
  <2>1. G \union {"20260831_0013"} = S
    BY <1>1
  <2> QED
    BY <1>1, <2>1, NamesDiffer
<1>3. downgrade(r) = Rename("finding_feedback", LongNames, ShortNames)
                       \o Rename("product_events", LongNames, ShortNames)
  BY DEF downgrade, undo_align_telemetry_index_names
<1> HIDE DEF G
<1>4. /\ Script(Db(SchemaAt(S), rows), Rename("finding_feedback", IndexNames(S), IndexNames(G))
                                 \o Rename("product_events", IndexNames(S), IndexNames(G)))
             = Db(SchemaAt(G), rows)
      /\ StoredIn(SchemaAt(G), rows)
  BY <1>2, TwoRenames
<1> QED
  BY <1>2, <1>3, <1>4, Zenon DEF G

\* 0012 merges the branches.
LEMMA MergeChanges ==
    ASSUME NEW S, NEW r, r = "20260831_0012", NEW base
    PROVE  /\ Script(base, upgrade(r)) = base
           /\ Script(base, downgrade(r)) = base
           /\ SchemaAt(S \union {r}) = SchemaAt(S)
           /\ SchemaAt(S \ {r}) = SchemaAt(S)
<1>1. upgrade(r) = <<>> /\ downgrade(r) = <<>>
  BY DEF upgrade, downgrade
<1>2. Script(base, <<>>) = base
  <2> DEFINE D == [i \in 0..0 |-> base]
             s == <<>>
  <2>1. D[0] = base /\ \A i \in 1..0 : D[i] = Execute(D[i - 1], s[i])
    OBVIOUS
  <2>2. DOMAIN s = 1..0
    OBVIOUS
  <2> HIDE DEF D, s
  <2>3. Steps(D, base, s, 0)
    BY <2>1 DEF Steps
  <2>4. Script(base, s) = D[0]
    BY <2>2, <2>3, ScriptIsSteps
  <2> QED
    BY <2>1, <2>4 DEF s
<1>3. NamesAt(S \union {r}) = NamesAt(S) /\ NamesAt(S \ {r}) = NamesAt(S)
  BY NamesStay
<1>4. \A F : SchemaOf(NamesAt(S), F \union {r}) = SchemaOf(NamesAt(S), F)
  <2>1. \A F, t : FormAt(F \union {r}, t) = FormAt(F, t)
    <3>1. r \notin Altering
      BY DEF Altering
    <3> QED
      BY <3>1, FormStays
  <2> QED
    BY <2>1 DEF SchemaOf
<1>5. SchemaOf(NamesAt(S), S \ {r}) = SchemaOf(NamesAt(S), S)
  <2>1. CASE r \in S
    <3>1. (S \ {r}) \union {r} = S
      BY <2>1
    <3> QED
      BY <1>4, <3>1
  <2>2. CASE r \notin S
    BY <2>2, S \ {r} = S
  <2> QED
    BY <2>1, <2>2
<1> QED
  BY <1>1, <1>2, <1>3, <1>4, <1>5 DEF SchemaAt

\* The batches, which 20260825_0009 creates after the snapshots.
LEMMA BatchesAreBuilt ==
    ASSUME NEW F
    PROVE  Builds(<<governed_batches[1]>>, F, 33, 1)
<1> DEFINE s == <<governed_batches[1]>>
<1>b. DOMAIN s = 1..1
  OBVIOUS
<1>1. s[1] = Create(Order[34], FormAt(F, Order[34]))
  <2>0. s[1] = governed_batches[1]
    OBVIOUS
  <2>1. governed_batches[1] = Create("governed_import_batches", Table(
        TenantSnapshot \union {Ref("governed_mapping_profile_versions", "restrict")},
        {{"dataset_snapshot_id"}, {"dataset_snapshot_id", "id"}},
        {Values("status", {"ingesting", "completed", "failed"})}))
    BY DEF governed_batches
  <2>2. FormAt(F, "governed_import_batches") = GovernedSnapshotTables["governed_import_batches"]
    BY MetadataTables, OtherForms DEF GovernedSnapshotNames, Changed
  <2>3. GovernedSnapshotTables["governed_import_batches"] = Table(
        Owned \union Cascades({"governed_dataset_snapshots"})
            \union {Ref("governed_mapping_profile_versions", "restrict")},
        {{"dataset_snapshot_id"}, {"dataset_snapshot_id", "id"}},
        {Values("status", {"ingesting", "completed", "failed"})})
    BY DEF GovernedSnapshotTables
  <2>4. TenantSnapshot = Owned \union Cascades({"governed_dataset_snapshots"})
    BY DEF TenantSnapshot
  <2>5. Order[34] = "governed_import_batches"
    BY Orders
  <2> QED
    BY <2>0, <2>1, <2>2, <2>3, <2>4, <2>5, Zenon
<1> HIDE DEF s
<1>q. Builds(s, F, 33, 1)
  BY <1>b, <1>1 DEF Builds
<1> QED
  BY <1>q DEF s

\* The parts of the revision 0009.
LEMMA GovernedParts ==
    ASSUME NEW S, NEW r, r = "20260825_0009", Fresh(S, r)
    PROVE  /\ PartOf(S, r, 31, 2)
           /\ PartOf(S, r, 33, 1)
           /\ PartOf(S \union {r}, r, 34, 3)
           /\ PartOf(S \union {r}, r, 37, 5)
<1>1. r \notin S
  BY DEF Fresh
<1>2. \A k \in 32..42 : RevisionAt(k) = r
  BY DEF RevisionAt
<1>3. \A k \in 32..42 : Order[k] # "analysis_runs"
  <2>1. RevisionOf("analysis_runs") # r
    BY Revised
  <2>2. \A k \in 32..42 : k \in 1..46
    OBVIOUS
  <2>3. \A k \in 32..42 : RevisionOf(Order[k]) = r
    BY <1>2, <2>2, OrderPlaces DEF RevisionOf
  <2> QED
    BY <2>1, <2>3
<1>4. \A k \in 34..42 : Order[k] # "governed_dataset_snapshots"
  <2>1. Place["governed_dataset_snapshots"] = 33
    BY TablePlaces
  <2>2. \A k \in 34..42 : k \in 1..46 /\ k # 33
    OBVIOUS
  <2>3. \A k \in 34..42 : Place[Order[k]] = k
    BY <2>2, OrderPlaces
  <2> QED
    BY <2>1, <2>2, <2>3
<1>5. \A k \in 32..42 : \A u : ~AddedLater(S, Order[k], u)
  BY <1>1, <1>3 DEF AddedLater
<1>6. \A F : \A k \in 34..42 : \A u : ~AddedLater(F, Order[k], u)
  <2>1. \A k \in 34..42 : k \in 32..42
    OBVIOUS
  <2> QED
    BY <1>3, <1>4, <2>1 DEF AddedLater
<1>7. PartOf(S, r, 31, 2)
  BY <1>2, <1>5 DEF PartOf
<1>8. PartOf(S, r, 33, 1)
  BY <1>2, <1>5 DEF PartOf
<1>9. PartOf(S \union {r}, r, 34, 3)
  BY <1>2, <1>6 DEF PartOf
<1>10. PartOf(S \union {r}, r, 37, 5)
  BY <1>2, <1>6 DEF PartOf
<1> QED
  BY <1>7, <1>8, <1>9, <1>10

\* A key is added to a table that is not runs or health snapshots, or dropped.
LEMMA KeyIsAdded ==
    ASSUME NEW T, NEW t, t \in DOMAIN T, t \notin {"analysis_runs", "health_snapshots"},
           NEW R, NEW K, NEW C, NEW ref, ref.table \in DOMAIN T, ref \notin R,
           NEW rows, StoredIn(T, rows)
    PROVE  /\ Execute(Db(With(T, t, Table(R, K, C)), rows), AddRef(t, ref))
                 = Db(With(T, t, Table(R \union {ref}, K, C)), rows)
           /\ Execute(Db(With(T, t, Table(R \union {ref}, K, C)), rows), DropRef(t, ref))
                 = Db(With(T, t, Table(R, K, C)), rows)
           /\ StoredIn(With(T, t, Table(R \union {ref}, K, C)), rows)
           /\ StoredIn(With(T, t, Table(R, K, C)), rows)
<1> DEFINE Q == R \union {ref}
<1>1. FitAt(T, t, R, K, C, rows) /\ FitAt(T, t, Q, K, C, rows)
  BY FitOther
<1>2. Q \ {ref} = R /\ ref \in Q
  OBVIOUS
<1>3. Execute(At(T, t, R, K, C, rows), AddRef(t, ref)) = At(T, t, Q, K, C, rows)
  BY <1>1, AddRefTurns
<1>4. DOMAIN With(T, t, Table(R, K, C)) = DOMAIN T /\ DOMAIN With(T, t, Table(Q, K, C)) = DOMAIN T
  BY WithIs
<1>7. t # "analysis_runs"
  OBVIOUS
<1> HIDE DEF Q
<1>5. Execute(At(T, t, Q, K, C, rows), DropRef(t, ref)) = At(T, t, R, K, C, rows)
  <2>1. FitAt(T, t, Q \ {ref}, K, C, rows)
    BY <1>1, <1>2
  <2>2. rows = IF t = "analysis_runs" THEN WithoutColumn(rows, ref) ELSE rows
    BY <1>7
  <2> DEFINE P == Q \ {ref}
  <2>3. t \in DOMAIN T /\ ref \in Q /\ FitAt(T, t, P, K, C, rows)
    BY <1>2, <2>1
  <2>4. Execute(At(T, t, Q, K, C, rows), DropRef(t, ref)) = At(T, t, P, K, C, rows)
    BY <2>2, <2>3, DropRefTurns
  <2> QED
    BY <1>2, <2>4
<1>6. StoredIn(With(T, t, Table(R, K, C)), rows) /\ StoredIn(With(T, t, Table(Q, K, C)), rows)
  BY <1>1, <1>4 DEF StoredIn, FitAt
<1> QED
  BY <1>3, <1>5, <1>6 DEF At, Q

BatchOrNone == OptionalRef("governed_import_batches", "no action")

\* It then adds a key from the snapshots to the batches.
LEMMA SnapshotReferences ==
    ASSUME NEW S, "20260825_0009" \notin S, NEW G, "20260825_0009" \in G
    PROVE  /\ SnapshotRefs(G) = SnapshotRefs(S) \union {BatchOrNone}
           /\ BatchOrNone \notin SnapshotRefs(S)
           /\ BatchOrNone.table = "governed_import_batches"
<1>1. \A x \in SnapshotRefs(S) : x.table \in {"organizations", "projects", "source_files",
                                              "governed_mapping_profile_versions"}
  BY RefFields DEF SnapshotRefs, Owned, Cascades
<1>2. BatchOrNone.table = "governed_import_batches"
  BY RefFields DEF BatchOrNone
<1>3. BatchOrNone \notin SnapshotRefs(S)
  BY <1>1, <1>2
<1>4. SnapshotRefs(G) = SnapshotRefs(S) \union {BatchOrNone}
  BY DEF SnapshotRefs, BatchOrNone
<1> QED
  BY <1>2, <1>3, <1>4

Leads(v, s, x) == Script(v, s) = x

\* Two scripts, and four.
LEMMA JoinTwo ==
    ASSUME NEW v, NEW a, NEW b, NEW x, NEW y, NEW m, NEW n, OfLength(a, m), OfLength(b, n),
           Leads(v, a, x), Leads(x, b, y)
    PROVE  Leads(v, a \o b, y) /\ OfLength(a \o b, m + n)
<1>1. Script(v, a \o b) = Script(Script(v, a), b)
  BY ScriptsJoin
<1>3. OfLength(a \o b, m + n)
  BY ScriptsJoin
<1>2. Script(Script(v, a), b) = y
  BY DEF Leads
<1> QED
  BY <1>1, <1>2, <1>3 DEF Leads

\* Four scripts.
LEMMA JoinFour ==
    ASSUME NEW v, NEW a, NEW b, NEW c, NEW d, NEW x, NEW y, NEW z, NEW w,
           NEW k, NEW l, NEW m, NEW n,
           OfLength(a, k), OfLength(b, l), OfLength(c, m), OfLength(d, n),
           Leads(v, a, x), Leads(x, b, y), Leads(y, c, z), Leads(z, d, w)
    PROVE  Leads(v, ((a \o b) \o c) \o d, w)
<1>1. Leads(v, a \o b, y) /\ OfLength(a \o b, k + l)
  BY JoinTwo
<1>2. Leads(v, (a \o b) \o c, z) /\ OfLength((a \o b) \o c, k + l + m)
  BY <1>1, JoinTwo
<1> QED
  BY <1>2, JoinTwo

\* The tables of 20260825_0009 have the places 32 to 42, and no other
\* changes.
LEMMA GovernedPlaces ==
    ASSUME NEW S
    PROVE  /\ UpTo(S, "20260825_0009", 31) = NamesAt(S)
           /\ UpTo(S, "20260825_0009", 42) = NamesAt(S \union {"20260825_0009"})
           /\ \A u : u # "governed_dataset_snapshots"
                 => FormAt(S \union {"20260825_0009"}, u) = FormAt(S, u)
<1>1. \A u : u # "governed_dataset_snapshots"
         => FormAt(S \union {"20260825_0009"}, u) = FormAt(S, u)
  BY FormsDiffer
<1>2. \A r, base, n : base \in Nat /\ n \in Nat /\ Spans(r, base, n) =>
          UpTo(S, r, base) = NamesAt(S) /\ UpTo(S, r, base + n) = NamesAt(S \union {r})
  BY UpToNone, ZenonT(40)
<1>3. Spans("20260825_0009", 31, 11) /\ 31 \in Nat /\ 11 \in Nat /\ 31 + 11 = 42
  BY RevisionSpans
<1>4. UpTo(S, "20260825_0009", 31) = NamesAt(S)
      /\ UpTo(S, "20260825_0009", 31 + 11) = NamesAt(S \union {"20260825_0009"})
  BY <1>2, <1>3, Zenon
<1> QED
  BY <1>1, <1>3, <1>4

\* The schema with the tables of r up to the place k, as the revisions of F leave
\* them.
Partly(S, r, F, k) == SchemaOf(UpTo(S, r, k), F)

\* A part of the tables of a revision is created after those before it.
LEMMA PartIsCreated ==
    ASSUME NEW S, NEW r, Fresh(S, r), NEW F, NEW base \in Nat, NEW n \in Nat,
           NEW k, k = base + n, PartOf(F, r, base, n), NEW s, Builds(s, F, base, n),
           NEW rows, StoredIn(Partly(S, r, F, base), rows)
    PROVE  /\ Script(Db(Partly(S, r, F, base), rows), s) = Db(Partly(S, r, F, k), rows)
           /\ StoredIn(Partly(S, r, F, k), rows)
<1>1. StoredIn(SchemaOf(UpTo(S, r, base), F), rows)
  BY DEF Partly
<1>2. /\ Script(Db(SchemaOf(UpTo(S, r, base), F), rows), s)
            = Db(SchemaOf(UpTo(S, r, base + n), F), rows)
      /\ StoredIn(SchemaOf(UpTo(S, r, base + n), F), rows)
  BY <1>1, PartCreates
<1> QED
  BY <1>2 DEF Partly

\* The two tables that refer to each other.
LEMMA BatchKey ==
    ASSUME NEW S, NEW r, r = "20260825_0009", Closed(S), r \notin S, NEW N,
           {"governed_dataset_snapshots", "governed_import_batches"} \subseteq N,
           NEW rows
    PROVE  LET G == S \union {r}  t == "governed_dataset_snapshots" IN
           /\ StoredIn(SchemaOf(N, S), rows) =>
                /\ Execute(Db(SchemaOf(N, S), rows), AddRef(t, BatchOrNone))
                       = Db(SchemaOf(N, G), rows)
                /\ StoredIn(SchemaOf(N, G), rows)
           /\ StoredIn(SchemaOf(N, G), rows) =>
                /\ Execute(Db(SchemaOf(N, G), rows), DropRef(t, BatchOrNone))
                       = Db(SchemaOf(N, S), rows)
                /\ StoredIn(SchemaOf(N, S), rows)
<1> DEFINE G == S \union {r}
           t == "governed_dataset_snapshots"
           T == SchemaOf(N, S)
           B == SchemaOf(N, G)
           R == SnapshotRefs(S)
           K == {{"id", "import_batch_id"}, {"dedupe_key"}}
           C == SnapshotChecks
<1>1. \A u : u # t => FormAt(G, u) = FormAt(S, u)
  BY GovernedPlaces
<1>2. DifferIn(N, S, G, t)
  BY <1>1 DEF DifferIn
<1>3. r \in G
  OBVIOUS
<1> HIDE DEF G
<1>4. B = With(T, t, FormAt(G, t)) /\ T = With(T, t, FormAt(S, t))
  BY <1>2, SchemaWith
<1>5. FormAt(S, t) = Table(R, K, C) /\ FormAt(G, t) = Table(SnapshotRefs(G), K, C)
  BY ChangedForms
<1>6. /\ SnapshotRefs(G) = R \union {BatchOrNone} /\ BatchOrNone \notin R
      /\ BatchOrNone.table = "governed_import_batches"
  BY <1>3, SnapshotReferences
<1>7. DOMAIN T = N /\ DOMAIN B = N
  BY DEF SchemaOf
<1>8. BatchOrNone.table \in DOMAIN T /\ t \in DOMAIN T
          /\ t \notin {"analysis_runs", "health_snapshots"}
  BY <1>6, <1>7
<1>9. B = With(T, t, Table(R \union {BatchOrNone}, K, C)) /\ T = With(T, t, Table(R, K, C))
  BY <1>4, <1>5, <1>6, Zenon
<1>10. StoredIn(B, rows) => StoredIn(T, rows)
  <2>1. /\ "analysis_runs" \in N => B["analysis_runs"] = T["analysis_runs"]
        /\ "health_snapshots" \in N => B["health_snapshots"] = T["health_snapshots"]
    BY <1>1 DEF SchemaOf
  <2> HIDE DEF T, B
  <2> SUFFICES ASSUME StoredIn(B, rows) PROVE StoredIn(T, rows)
    OBVIOUS
  <2>2. /\ rows = [x \in {"full", "legacy", "governed", "band", "withheld"} |-> rows[x]]
        /\ rows.full \subseteq N /\ Fit(B, rows)
    BY <1>7 DEF StoredIn
  <2>3. "analysis_runs" \in rows.full => "analysis_runs" \in N
    BY <2>2
  <2>4. "health_snapshots" \in rows.full => "health_snapshots" \in N
    BY <2>2
  <2>5. RunsFit(T["analysis_runs"], rows) /\ HealthFits(T["health_snapshots"], rows)
    BY <2>1, <2>2, <2>3, <2>4, Zenon DEF Fit, RunsFit, HealthFits
  <2> QED
    BY <1>7, <2>2, <2>5 DEF StoredIn, Fit
<1> HIDE DEF T, B, R, K, C, t
<1>11. ASSUME StoredIn(T, rows)
       PROVE  /\ Execute(Db(T, rows), AddRef(t, BatchOrNone)) = Db(B, rows)
              /\ Execute(Db(B, rows), DropRef(t, BatchOrNone)) = Db(T, rows)
              /\ StoredIn(B, rows)
  <2>1. /\ Execute(Db(With(T, t, Table(R, K, C)), rows), AddRef(t, BatchOrNone))
              = Db(With(T, t, Table(R \union {BatchOrNone}, K, C)), rows)
        /\ Execute(Db(With(T, t, Table(R \union {BatchOrNone}, K, C)), rows),
               DropRef(t, BatchOrNone))
              = Db(With(T, t, Table(R, K, C)), rows)
        /\ StoredIn(With(T, t, Table(R \union {BatchOrNone}, K, C)), rows)
    BY <1>6, <1>8, <1>11, KeyIsAdded
  <2> QED
    BY <1>9, <2>1, Zenon
<1> QED
  BY <1>10, <1>11 DEF G, t, T, B

\* 0009: the tables of the governed snapshots.
LEMMA GovernedUpgrade ==
    ASSUME NEW S, NEW r, r = "20260825_0009", Fresh(S, r), NEW rows, StoredIn(SchemaAt(S), rows)
    PROVE  /\ Script(Db(SchemaAt(S), rows), upgrade(r)) = Db(SchemaAt(S \union {r}), rows)
           /\ StoredIn(SchemaAt(S \union {r}), rows)
<1> DEFINE G == S \union {r}
           P(F, k) == Partly(S, r, F, k)
           c == governed_batches[1]
           d == governed_batches[2]
<1>1. Closed(S) /\ r \notin S
  BY DEF Fresh
<1>2. /\ 31 \in Nat /\ 33 \in Nat /\ 34 \in Nat /\ 37 \in Nat /\ 1 \in Nat /\ 2 \in Nat /\ 3 \in Nat
      /\ 5 \in Nat /\ 11 \in Nat
      /\ 33 = 31 + 2 /\ 34 = 33 + 1 /\ 37 = 34 + 3 /\ 42 = 37 + 5 /\ 42 = 31 + 11
  OBVIOUS
<1>3. P(S, 31) = SchemaAt(S) /\ P(G, 42) = SchemaAt(G)
  <2>1. UpTo(S, r, 31) = NamesAt(S) /\ UpTo(S, r, 42) = NamesAt(S \union {r})
    BY GovernedPlaces
  <2> QED
    BY <2>1 DEF SchemaAt, Partly
<1>4. /\ PartOf(S, r, 31, 2) /\ PartOf(S, r, 33, 1) /\ PartOf(G, r, 34, 3) /\ PartOf(G, r, 37, 5)
  BY GovernedParts
<1>5. /\ Builds(governed_snapshots, S, 31, 2) /\ Builds(<<c>>, S, 33, 1)
      /\ Builds(governed_rows, G, 34, 3) /\ Builds(governed_facts, G, 37, 5)
  BY <1>1, SnapshotsAreBuilt, BatchesAreBuilt, RowsAreBuilt, FactsAreBuilt
<1>6. /\ Script(Db(P(S, 31), rows), governed_snapshots) = Db(P(S, 33), rows)
      /\ StoredIn(P(S, 33), rows)
  BY <1>2, <1>3, <1>4, <1>5, PartIsCreated
<1>7. /\ Script(Db(P(S, 33), rows), <<c>>) = Db(P(S, 34), rows)
      /\ StoredIn(P(S, 34), rows)
  BY <1>2, <1>4, <1>5, <1>6, PartIsCreated
<1>8. {"governed_dataset_snapshots", "governed_import_batches"} \subseteq UpTo(S, r, 34)
  <2>1. /\ Place["governed_dataset_snapshots"] = 33 /\ Place["governed_import_batches"] = 34
        /\ {"governed_dataset_snapshots", "governed_import_batches"} \subseteq DOMAIN Place
        /\ DOMAIN Place = Tables
    BY TablePlaces DEF Place
  <2>2. RevisionOf("governed_dataset_snapshots") = r /\ RevisionOf("governed_import_batches") = r
    BY Revised
  <2> QED
    BY <2>1, <2>2 DEF UpTo
<1>9. d = AddRef("governed_dataset_snapshots", BatchOrNone) /\ governed_batches = <<c, d>>
  BY DEF governed_batches, BatchOrNone
<1>10. Execute(Db(P(S, 34), rows), d) = Db(P(G, 34), rows) /\ StoredIn(P(G, 34), rows)
  <2> DEFINE N == UpTo(S, r, 34)
  <2>1. /\ Execute(Db(SchemaOf(N, S), rows), AddRef("governed_dataset_snapshots", BatchOrNone))
              = Db(SchemaOf(N, G), rows)
        /\ StoredIn(SchemaOf(N, G), rows)
    <3>1. StoredIn(SchemaOf(N, S), rows)
      BY <1>7 DEF Partly
    <3> HIDE DEF N
    <3> QED
      BY <1>1, <1>8, <3>1, BatchKey DEF N
  <2> QED
    BY <1>9, <2>1 DEF Partly
<1>11. /\ Script(Db(P(G, 34), rows), governed_rows) = Db(P(G, 37), rows)
       /\ StoredIn(P(G, 37), rows)
  BY <1>2, <1>4, <1>5, <1>10, PartIsCreated
<1>12. /\ Script(Db(P(G, 37), rows), governed_facts) = Db(P(G, 42), rows)
       /\ StoredIn(P(G, 42), rows)
  BY <1>2, <1>4, <1>5, <1>11, PartIsCreated
<1>13. Script(Db(P(S, 33), rows), governed_batches) = Db(P(G, 34), rows)
  <2> DEFINE v == Db(P(S, 33), rows)  x == Db(P(S, 34), rows)  y == Db(P(G, 34), rows)
  <2>1. x = Script(v, <<c>>) /\ y = Execute(x, d)
    BY <1>7, <1>10
  <2> HIDE DEF v, x, y, c, d
  <2>2. x = Execute(v, c)
    BY <2>1, ScriptOfOne
  <2>3. Script(v, <<c, d>>) = y
    BY <2>1, <2>2, ScriptOfTwo
  <2> QED
    BY <1>9, <2>3 DEF v, y, c, d
<1>14. /\ OfLength(governed_snapshots, 2) /\ OfLength(governed_batches, 2)
       /\ OfLength(governed_rows, 3) /\ OfLength(governed_facts, 5)
  <2>1. OfLength(governed_snapshots, 2)
    BY DEF OfLength, governed_snapshots
  <2>2. OfLength(governed_batches, 2)
    BY DEF OfLength, governed_batches
  <2>3. OfLength(governed_rows, 3)
    BY DEF OfLength, governed_rows
  <2>4. OfLength(governed_facts, 5)
    BY DEF OfLength, governed_facts
  <2> QED
    BY <2>1, <2>2, <2>3, <2>4
<1> DEFINE a == governed_snapshots  b == governed_batches  e == governed_rows  f == governed_facts
           v == Db(P(S, 31), rows)  x == Db(P(S, 33), rows)  y == Db(P(G, 34), rows)
           z == Db(P(G, 37), rows)  w == Db(P(G, 42), rows)
<1>15. upgrade(r) = ((a \o b) \o e) \o f
  BY DEF upgrade
<1>16. OfLength(a, 2) /\ OfLength(b, 2) /\ OfLength(e, 3) /\ OfLength(f, 5)
  BY <1>14
<1>17. Leads(v, a, x) /\ Leads(x, b, y) /\ Leads(y, e, z) /\ Leads(z, f, w)
  BY <1>6, <1>11, <1>12, <1>13, Zenon DEF Leads
<1>18. v = Db(SchemaAt(S), rows) /\ P(G, 42) = SchemaAt(G)
  BY <1>3
<1> HIDE DEF a, b, e, f, v, x, y, z, w, P, G
<1>19. Leads(v, ((a \o b) \o e) \o f, w)
  BY <1>16, <1>17, JoinFour
<1>22. Script(v, upgrade(r)) = Db(P(G, 42), rows)
  BY <1>15, <1>19 DEF w, Leads
<1>23. StoredIn(P(G, 42), rows)
  BY <1>12
<1> QED
  BY <1>18, <1>22, <1>23 DEF G

MayRaze(S, r, base, n, s, name, rows) ==
    /\ Topmost(S, r) /\ base \in Nat /\ n \in Nat /\ Spans(r, base, n)
    /\ Razes(s, base, n, name) /\ RunsFirst(name, n, rows)
    /\ StoredIn(SchemaOf(NamesAt(S), S \ {r}), rows)

\* The tables of a revision are dropped, with their rows.
LEMMA TablesAreRazed ==
    ASSUME NEW S, NEW r, NEW base, NEW n, NEW s, NEW name, NEW rows,
           MayRaze(S, r, base, n, s, name, rows)
    PROVE  /\ Script(Db(SchemaOf(NamesAt(S), S \ {r}), rows), s)
                 = Db(SchemaAt(S \ {r}), Without(rows, ListedAs(name, n)))
           /\ StoredIn(SchemaAt(S \ {r}), Without(rows, ListedAs(name, n)))
<1>1. /\ Topmost(S, r) /\ base \in Nat /\ n \in Nat /\ Spans(r, base, n)
      /\ s = DropAll(name) /\ DOMAIN name = 1..n
      /\ \A i \in 1..n : name[i] = Order[base + n + 1 - i]
      /\ RunsFirst(name, n, rows) /\ StoredIn(SchemaOf(NamesAt(S), S \ {r}), rows)
  BY DEF MayRaze, Razes
<1> QED
  BY <1>1, RevisionDrops

\* Its downgrade drops the key of the cycle first.
LEMMA GovernedDowngrade ==
    ASSUME NEW S, NEW r, r = "20260825_0009", Topmost(S, r), NEW rows, StoredIn(SchemaAt(S), rows),
           ~rows.governed
    PROVE  \E X : /\ Script(Db(SchemaAt(S), rows), downgrade(r))
                        = Db(SchemaAt(S \ {r}), Without(rows, X))
                  /\ StoredIn(SchemaAt(S \ {r}), Without(rows, X))
<1> DEFINE G == S \ {r}
           N == NamesAt(S)
           t == "governed_dataset_snapshots"
           name == <<"governed_progress_records", "governed_schedule_activities",
               "governed_commitment_records", "governed_actual_cost_records",
               "governed_budget_records", "governed_wbs_nodes", "governed_raw_rows",
               "governed_dataset_domain_statuses", "governed_import_batches",
               "governed_dataset_snapshots", "governed_mapping_profile_versions">>
           a == <<DropRef(t, BatchOrNone)>>
           X == ListedAs(name, 11)
<1>1. Closed(G) /\ r \notin G /\ r \in S /\ G \union {r} = S
  BY TopmostIsFresh DEF Topmost
<1>2. {"governed_dataset_snapshots", "governed_import_batches"} \subseteq N
  <2>1. {"governed_dataset_snapshots", "governed_import_batches"} \subseteq Tables
    BY TablePlaces DEF Place
  <2>2. RevisionOf("governed_dataset_snapshots") = r /\ RevisionOf("governed_import_batches") = r
    BY Revised
  <2> QED
    BY <1>1, <2>1, <2>2 DEF NamesAt
<1>3. /\ Execute(Db(SchemaAt(S), rows), DropRef(t, BatchOrNone)) = Db(SchemaOf(N, G), rows)
      /\ StoredIn(SchemaOf(N, G), rows)
  <2>1. StoredIn(SchemaOf(N, S), rows)
    BY DEF SchemaAt
  <2> HIDE DEF N, G
  <2>2. /\ Execute(Db(SchemaOf(N, G \union {r}), rows),
               DropRef("governed_dataset_snapshots", BatchOrNone))
              = Db(SchemaOf(N, G), rows)
        /\ StoredIn(SchemaOf(N, G), rows)
    <3>1. StoredIn(SchemaOf(N, G \union {r}), rows)
      BY <1>1, <2>1
    <3> QED
      BY <1>1, <1>2, <3>1, BatchKey
  <2> QED
    BY <1>1, <2>2 DEF SchemaAt, N
<1>4. downgrade(r) = a \o DropAll(name)
  BY DEF downgrade, undo_governed_canonical_schema, BatchOrNone
<1>5. DOMAIN name = 1..11 /\ \A i \in 1..11 : name[i] = Order[31 + 11 + 1 - i]
  BY Orders
<1>6. \A i \in 1..11 : name[i] # "dataset_snapshots"
  OBVIOUS
<1>7. OfLength(a, 1) /\ OfLength(DropAll(name), 11)
  <2>1. OfLength(a, 1)
    BY DEF OfLength
  <2> HIDE DEF name
  <2>2. OfLength(DropAll(name), 11)
    BY <1>5 DEF OfLength, DropAll
  <2> QED
    BY <2>1, <2>2
<1> HIDE DEF name
<1>8. RunsFirst(name, 11, rows)
  BY <1>6 DEF RunsFirst
<1>9. Spans(r, 31, 11) /\ 31 \in Nat /\ 11 \in Nat
  BY RevisionSpans
<1>10. /\ Script(Db(SchemaOf(N, G), rows), DropAll(name)) = Db(SchemaAt(G), Without(rows, X))
       /\ StoredIn(SchemaAt(G), Without(rows, X))
  <2>1. Razes(DropAll(name), 31, 11, name)
    BY <1>5 DEF Razes
  <2> QED
    <3>1. MayRaze(S, r, 31, 11, DropAll(name), name, rows)
      BY <1>3, <1>8, <1>9, <2>1, Zenon DEF MayRaze
    <3> QED
      BY <3>1, TablesAreRazed
<1>11. Script(Db(SchemaAt(S), rows), a) = Db(SchemaOf(N, G), rows)
  BY <1>3, ScriptOfOne
<1> DEFINE b == DropAll(name)
<1>12. OfLength(b, 11)
  BY <1>7
<1> HIDE DEF a, b, X, N, G
<1> DEFINE v == Db(SchemaAt(S), rows)
           x == Db(SchemaOf(N, G), rows)
           y == Db(SchemaAt(G), Without(rows, X))
<1>13. Leads(v, a, x) /\ Leads(x, b, y) /\ OfLength(a, 1) /\ OfLength(b, 11)
  BY <1>7, <1>10, <1>11, <1>12, Zenon DEF b, Leads
<1>14. downgrade(r) = a \o b
  BY <1>4 DEF b
<1> HIDE DEF v, x, y
<1>15. Leads(v, a \o b, y)
  BY <1>13, JoinTwo
<1>16. Script(v, downgrade(r)) = y
  BY <1>14, <1>15 DEF Leads
<1> QED
  BY <1>10, <1>16 DEF G, v, y

-----------------------------------------------------------------------------
(* Every revision, up and down.                                               *)

\* What is said of the rows that are left does not change.
LEMMA WithoutKeeps ==
    ASSUME NEW rows, rows = [x \in {"full", "legacy", "governed", "band", "withheld"} |-> rows[x]],
           NEW X
    PROVE  /\ Without(rows, X).legacy = rows.legacy
           /\ Without(rows, X).governed = rows.governed
           /\ Without(rows, X).withheld = rows.withheld
<1>1. Without(rows, X).legacy = rows.legacy
  BY DEF Without
<1>2. Without(rows, X).governed = rows.governed
  BY DEF Without
<1>3. Without(rows, X).withheld = rows.withheld
  BY DEF Without
<1> QED
  BY <1>1, <1>2, <1>3

\* Rows that fit another schema are kept there, unless it forgets the new
\* snapshots that they have.
LEMMA KeptOn ==
    ASSUME NEW S, NEW G, NEW rows, KeptAt(S, rows), "20260825_0010" \in S => "20260825_0010" \in G,
           StoredIn(SchemaAt(G), rows)
    PROVE  KeptAt(G, rows)
BY Zenon DEF KeptAt

\* So are those that are left of them.
LEMMA KeptWithout ==
    ASSUME NEW S, NEW G, NEW rows, KeptAt(S, rows), rows.governed => "20260825_0010" \in G,
           NEW X, StoredIn(SchemaAt(G), Without(rows, X))
    PROVE  KeptAt(G, Without(rows, X))
<1>1. rows = [x \in {"full", "legacy", "governed", "band", "withheld"} |-> rows[x]]
  BY DEF KeptAt, StoredIn
<1>2. /\ Without(rows, X).legacy = rows.legacy
      /\ Without(rows, X).governed = rows.governed
      /\ Without(rows, X).withheld = rows.withheld
  BY <1>1, WithoutKeeps
<1>3. rows.legacy \in BOOLEAN /\ rows.governed \in BOOLEAN /\ rows.withheld \in BOOLEAN
  BY DEF KeptAt
<1> QED
  BY <1>2, <1>3, Zenon DEF KeptAt

\* Every revision is applied where it may be, and leaves the rows as they are
\* up to what it fills in.
LEMMA UpgradeWorks ==
    ASSUME NEW S, NEW r, Fresh(S, r), NEW rows, KeptAt(S, rows)
    PROVE  /\ Script(Db(SchemaAt(S), rows), upgrade(r)) = Db(SchemaAt(S \union {r}), rows)
           /\ KeptAt(S \union {r}, rows)
<1>0. StoredIn(SchemaAt(S), rows) /\ r \in Revisions
  BY DEF KeptAt, Fresh
<1>1. ASSUME StoredIn(SchemaAt(S \union {r}), rows)
      PROVE  KeptAt(S \union {r}, rows)
  BY <1>1, KeptOn
<1>2. CASE r \in PlainTable
  BY <1>0, <1>1, <1>2, PlainUpgrade
<1>3. CASE r = "20260825_0009"
  BY <1>0, <1>1, <1>3, GovernedUpgrade
<1>4. CASE r = "20260825_0010"
  BY <1>4, RunsUpgrade
<1>5. CASE r = "20260825_0011"
  BY <1>5, HealthUpgrade
<1>6. CASE r = "20260831_0012"
  <2>1. Script(Db(SchemaAt(S), rows), upgrade(r)) = Db(SchemaAt(S), rows)
        /\ SchemaAt(S \union {r}) = SchemaAt(S)
    BY <1>6, MergeChanges
  <2>2. StoredIn(SchemaAt(S \union {r}), rows)
    BY <1>0, <2>1
  <2> QED
    BY <1>1, <2>1, <2>2
<1>7. CASE r = "20260831_0013"
  BY <1>0, <1>1, <1>7, RenameUpgrade
<1> QED
  BY <1>0, <1>2, <1>3, <1>4, <1>5, <1>6, <1>7 DEF Revisions, PlainTable

\* Every revision is undone where it may be.
LEMMA DowngradeWorks ==
    ASSUME NEW S, NEW r, Topmost(S, r), NEW rows, KeptAt(S, rows)
    PROVE  \E left : /\ Script(Db(SchemaAt(S), rows), downgrade(r)) = Db(SchemaAt(S \ {r}), left)
                     /\ KeptAt(S \ {r}, left)
<1>0. StoredIn(SchemaAt(S), rows) /\ r \in Revisions /\ Closed(S) /\ r \in S
  BY DEF KeptAt, Topmost, Closed
<1>1. ASSUME NEW X, Script(Db(SchemaAt(S), rows), downgrade(r))
                 = Db(SchemaAt(S \ {r}), Without(rows, X)),
             StoredIn(SchemaAt(S \ {r}), Without(rows, X)), r # "20260825_0010"
      PROVE  \E left : /\ Script(Db(SchemaAt(S), rows), downgrade(r)) = Db(SchemaAt(S \ {r}), left)
                       /\ KeptAt(S \ {r}, left)
  <2>1. rows.governed => "20260825_0010" \in S
    BY DEF KeptAt
  <2>2. rows.governed => "20260825_0010" \in S \ {r}
    BY <1>1, <2>1
  <2>3. KeptAt(S \ {r}, Without(rows, X))
    BY <1>1, <2>2, KeptWithout
  <2> QED
    BY <1>1, <2>3
<1>2. CASE r \in PlainTable
  <2>1. r # "20260825_0010"
    BY <1>2 DEF PlainTable
  <2>2. PICK X : /\ Script(Db(SchemaAt(S), rows), downgrade(r))
                        = Db(SchemaAt(S \ {r}), Without(rows, X))
                 /\ StoredIn(SchemaAt(S \ {r}), Without(rows, X))
    BY <1>0, <1>2, PlainDowngrade
  <2> QED
    BY <1>1, <2>1, <2>2
<1>3. CASE r = "20260825_0009"
  <2>1. "20260825_0010" \notin S
    BY <1>3, DownRevisions DEF Topmost
  <2>2. ~rows.governed
    BY <2>1 DEF KeptAt
  <2>3. PICK X : /\ Script(Db(SchemaAt(S), rows), downgrade(r))
                        = Db(SchemaAt(S \ {r}), Without(rows, X))
                 /\ StoredIn(SchemaAt(S \ {r}), Without(rows, X))
    BY <1>0, <1>3, <2>2, GovernedDowngrade
  <2> QED
    BY <1>1, <1>3, <2>3
<1>4. CASE r = "20260825_0010"
  BY <1>4, RunsDowngrade
<1>5. CASE r = "20260825_0011"
  BY <1>5, HealthDowngrade
<1>6. CASE r = "20260831_0012"
  <2>1. Script(Db(SchemaAt(S), rows), downgrade(r)) = Db(SchemaAt(S), rows)
        /\ SchemaAt(S \ {r}) = SchemaAt(S)
    BY <1>6, MergeChanges
  <2>2. StoredIn(SchemaAt(S \ {r}), rows) /\ "20260825_0010" \in S => "20260825_0010" \in S \ {r}
    BY <1>0, <1>6, <2>1
  <2>3. KeptAt(S \ {r}, rows)
    <3>1. StoredIn(SchemaAt(S \ {r}), rows)
      BY <1>0, <2>1
    <3>2. "20260825_0010" \in S => "20260825_0010" \in S \ {r}
      BY <1>6
    <3> QED
      BY <3>1, <3>2, KeptOn
  <2> QED
    BY <2>1, <2>3
<1>7. CASE r = "20260831_0013"
  <2>1. /\ Script(Db(SchemaAt(S), rows), downgrade(r)) = Db(SchemaAt(S \ {r}), rows)
        /\ StoredIn(SchemaAt(S \ {r}), rows)
    BY <1>0, <1>7, RenameDowngrade
  <2>2. "20260825_0010" \in S => "20260825_0010" \in S \ {r}
    BY <1>7
  <2>3. KeptAt(S \ {r}, rows)
    BY <2>1, <2>2, KeptOn
  <2> QED
    BY <2>1, <2>3
<1> QED
  BY <1>0, <1>2, <1>3, <1>4, <1>5, <1>6, <1>7 DEF Revisions, PlainTable

\* The database of the revisions of S.
Deployed(S, base) ==
    /\ Closed(S)
    /\ base = Db(SchemaAt(S), base.rows)
    /\ KeptAt(S, base.rows)

\* The empty database has no revisions.
LEMMA EmptyIsDeployed == Deployed({}, Empty)
<1>1. Closed({})
  BY DEF Closed
<1>2. NamesAt({}) = {}
  BY DEF NamesAt
<1>3. SchemaAt({}) = <<>>
  BY <1>2 DEF SchemaAt, SchemaOf
<1>4. Empty.rows = NoRows
  BY DEF Empty
<1>5. Empty = Db(SchemaAt({}), NoRows)
  BY <1>3 DEF Empty, Db
<1>6. NoRows = [x \in {"full", "legacy", "governed", "band", "withheld"} |-> NoRows[x]]
      /\ NoRows.full = {} /\ NoRows.legacy = FALSE /\ NoRows.governed = FALSE
      /\ NoRows.withheld = FALSE
  BY DEF NoRows
<1>7. Fit(SchemaAt({}), NoRows)
  BY <1>6 DEF Fit, RunsFit, HealthFits
<1>8. StoredIn(SchemaAt({}), NoRows)
  BY <1>6, <1>7 DEF StoredIn
<1>9. KeptAt({}, NoRows)
  <2> DEFINE rows == NoRows
  <2>1. rows.legacy \in BOOLEAN /\ rows.governed \in BOOLEAN /\ rows.withheld \in BOOLEAN
        /\ ~rows.governed /\ StoredIn(SchemaAt({}), rows)
    BY <1>6, <1>8
  <2> HIDE DEF rows
  <2>2. KeptAt({}, rows)
    BY <2>1, Zenon DEF KeptAt
  <2> QED
    BY <2>2 DEF rows
<1> QED
  BY <1>1, <1>4, <1>5, <1>9 DEF Deployed

\* An upgrade that alembic allows is executed and keeps the rows.
LEMMA UpgradeIsDeployed ==
    ASSUME NEW S, NEW base, Deployed(S, base), NEW r, Fresh(S, r)
    PROVE  /\ Deployed(S \union {r}, Script(base, upgrade(r)))
           /\ Script(base, upgrade(r)).rows = base.rows
           /\ Script(base, upgrade(r)).ok
<1> DEFINE rows == base.rows  G == S \union {r}  T == SchemaAt(S)  after == Script(base, upgrade(r))
<1>1. base = Db(T, rows) /\ KeptAt(S, rows)
  BY DEF Deployed
<1>2. Script(Db(T, rows), upgrade(r)) = Db(SchemaAt(G), rows) /\ KeptAt(G, rows)
  BY <1>1, UpgradeWorks
<1>3. Closed(G)
  BY FreshIsTopmost DEF Topmost
<1>4. after = Db(SchemaAt(G), rows)
  BY <1>1, <1>2, Zenon
<1> HIDE DEF after, rows, G
<1>5. after.rows = rows /\ after.ok
  BY <1>4, DbFields
<1>6. Deployed(G, after) /\ after.rows = rows /\ after.ok
  BY <1>2, <1>3, <1>4, <1>5 DEF Deployed
<1> QED
  BY <1>6 DEF after, rows, G

\* So is a downgrade that it allows.
LEMMA DowngradeIsDeployed ==
    ASSUME NEW S, NEW base, Deployed(S, base), NEW r, Topmost(S, r)
    PROVE  /\ Deployed(S \ {r}, Script(base, downgrade(r)))
           /\ Script(base, downgrade(r)).ok
<1> DEFINE rows == base.rows  G == S \ {r}  T == SchemaAt(S)  after == Script(base, downgrade(r))
<1>1. base = Db(T, rows) /\ KeptAt(S, rows)
  BY DEF Deployed
<1>2. PICK left : /\ Script(Db(T, rows), downgrade(r)) = Db(SchemaAt(G), left)
                  /\ KeptAt(G, left)
  BY <1>1, DowngradeWorks
<1>3. Closed(G)
  BY TopmostIsFresh
<1>4. after = Db(SchemaAt(G), left)
  BY <1>1, <1>2, Zenon
<1> HIDE DEF after, rows, G
<1>5. after.rows = left /\ after.ok
  BY <1>4, DbFields
<1>6. Deployed(G, after) /\ after.ok
  BY <1>2, <1>3, <1>4, <1>5 DEF Deployed
<1> QED
  BY <1>6 DEF after, G

\* What MigrationsApplyAndUndo asks of a revision that may be applied.
LEMMA UpgradeUndone ==
    ASSUME NEW S, NEW base, Deployed(S, base), NEW r, Fresh(S, r)
    PROVE  Script(Script(base, upgrade(r)), downgrade(r)).tables = base.tables
<1> DEFINE G == S \union {r}
           after == Script(base, upgrade(r))
           back == Script(after, downgrade(r))
<1>1. Topmost(G, r) /\ G \ {r} = S
  BY FreshIsTopmost
<1>2. Deployed(G, after)
  BY UpgradeIsDeployed
<1> HIDE DEF G, after
<1>3. Deployed(G \ {r}, back)
  BY <1>1, <1>2, DowngradeIsDeployed
<1>4. Deployed(S, back)
  BY <1>1, <1>3
<1> HIDE DEF back
<1>5. back = Db(SchemaAt(S), back.rows) /\ base = Db(SchemaAt(S), base.rows)
  BY <1>4 DEF Deployed
<1>6. back.tables = SchemaAt(S)
  BY <1>5, DbFields
<1>7. base.tables = SchemaAt(S)
  BY <1>5, DbFields
<1> QED
  BY <1>6, <1>7 DEF back, after

\* All revisions together leave what the ORM classes declare.
LEMMA HeadSchema == SchemaAt(Revisions) = metadata
<1>1. \A t \in Tables : RevisionOf(t) \in Revisions
  <2>1. \A k : RevisionAt(k) \in Revisions
    BY DEF RevisionAt, Revisions
  <2> QED
    BY <2>1 DEF RevisionOf
<1>2. NamesAt(Revisions) = Tables
  BY <1>1 DEF NamesAt
<1>3. DOMAIN metadata = Tables /\ metadata = [t \in Tables |-> metadata[t]]
  BY MetadataTables
<1> QED
  BY <1>2, <1>3, HeadForms DEF SchemaAt, SchemaOf

-----------------------------------------------------------------------------
(* The deletion of a project.                                                 *)

\* The rows of t go with the rows of u that they refer to.
GoesWith(refs, u) == \E ref \in refs : ref.on = "cascade" /\ ref.table = u

\* The keys that a class declares to its organization and its project.
LEMMA OwnedRefs ==
    /\ Ref("projects", "cascade") \in Owned
    /\ Ref("projects", "cascade") \in Cascades({"projects", "users"})
BY DEF Owned, Cascades

\* A cascading key to the project, whatever the others.
LEMMA CascadingKey ==
    ASSUME NEW refs, Ref("projects", "cascade") \in refs
               \/ OptionalRef("projects", "cascade") \in refs
    PROVE  GoesWith(refs, "projects")
BY RefFields DEF GoesWith

\* The rows of every table of OfProject are deleted with their project.
LEMMA ProjectsAreLeft ==
    \A t \in OfProject : GoesWith(metadata[t].refs, "projects")
<1>1. \A t \in CoreNames \cap OfProject : GoesWith(metadata[t].refs, "projects")
  <2>1. GoesWith(CoreTables["source_files"].refs, "projects")
    <3>1. CoreTables["source_files"].refs = Owned
      BY TableFields DEF CoreTables
    <3>2. Ref("projects", "cascade") \in CoreTables["source_files"].refs
      BY <3>1, OwnedRefs
    <3> QED
      BY <3>2, CascadingKey
  <2>2. GoesWith(CoreTables["dataset_snapshots"].refs, "projects")
    <3>1. CoreTables["dataset_snapshots"].refs = Owned \union {Ref("source_files", "restrict")}
      BY TableFields DEF CoreTables
    <3>2. Ref("projects", "cascade") \in CoreTables["dataset_snapshots"].refs
      BY <3>1, OwnedRefs
    <3> QED
      BY <3>2, CascadingKey
  <2>3. GoesWith(CoreTables["analysis_runs"].refs, "projects")
    <3>1. CoreTables["analysis_runs"].refs = Owned \union
            {OptionalRef("dataset_snapshots", "restrict"),
            OptionalRef("governed_dataset_snapshots", "restrict"),
            Ref("rule_catalogue_versions", "restrict")}
      BY TableFields DEF CoreTables
    <3>2. Ref("projects", "cascade") \in CoreTables["analysis_runs"].refs
      BY <3>1, OwnedRefs
    <3> QED
      BY <3>2, CascadingKey
  <2> QED
    BY <2>1, <2>2, <2>3, MetadataTables DEF CoreNames, OfProject, Tables
<1>2. \A t \in FindingNames \cap OfProject : GoesWith(metadata[t].refs, "projects")
  <2>1. GoesWith(FindingTables["findings"].refs, "projects")
    <3>1. FindingTables["findings"].refs = Owned \union Cascades({"analysis_runs"})
      BY TableFields DEF FindingTables
    <3>2. Ref("projects", "cascade") \in FindingTables["findings"].refs
      BY <3>1, OwnedRefs
    <3> QED
      BY <3>2, CascadingKey
  <2>2. GoesWith(FindingTables["finding_feedback"].refs, "projects")
    <3>1. FindingTables["finding_feedback"].refs = Owned \union Users \union
            Cascades({"analysis_runs"}) \union {OptionalRef("findings", "cascade")}
      BY TableFields DEF FindingTables
    <3>2. Ref("projects", "cascade") \in FindingTables["finding_feedback"].refs
      BY <3>1, OwnedRefs
    <3> QED
      BY <3>2, CascadingKey
  <2>3. GoesWith(FindingTables["approved_exceptions"].refs, "projects")
    <3>1. OptionalRef("projects", "cascade") \in FindingTables["approved_exceptions"].refs
      BY TableFields DEF FindingTables
    <3> QED
      BY <3>1, CascadingKey
  <2> QED
    BY <2>1, <2>2, <2>3, MetadataTables DEF FindingNames, OfProject, Tables
<1>3. \A t \in SimplifiedNames \cap OfProject : GoesWith(metadata[t].refs, "projects")
  <2>1. GoesWith(SimplifiedTables["raw_rows"].refs, "projects")
    <3>1. SimplifiedTables["raw_rows"].refs = Owned \union Cascades({"source_files"})
      BY TableFields DEF SimplifiedTables, SimplifiedFact
    <3>2. Ref("projects", "cascade") \in SimplifiedTables["raw_rows"].refs
      BY <3>1, OwnedRefs
    <3> QED
      BY <3>2, CascadingKey
  <2>2. GoesWith(SimplifiedTables["import_batches"].refs, "projects")
    <3>1. SimplifiedTables["import_batches"].refs = Owned \union
            Cascades({"source_files"}) \union {OptionalRef("dataset_snapshots", "set null")}
      BY TableFields DEF SimplifiedTables, SimplifiedFact
    <3>2. Ref("projects", "cascade") \in SimplifiedTables["import_batches"].refs
      BY <3>1, OwnedRefs
    <3> QED
      BY <3>2, CascadingKey
  <2>3. GoesWith(SimplifiedTables["import_column_mappings"].refs, "projects")
    <3>1. SimplifiedTables["import_column_mappings"].refs = Owned
      BY TableFields DEF SimplifiedTables, SimplifiedFact
    <3>2. Ref("projects", "cascade") \in SimplifiedTables["import_column_mappings"].refs
      BY <3>1, OwnedRefs
    <3> QED
      BY <3>2, CascadingKey
  <2>4. GoesWith(SimplifiedTables["wbs_nodes"].refs, "projects")
    <3>1. SimplifiedTables["wbs_nodes"].refs = Owned \union
            Cascades({"dataset_snapshots"}) \union {OptionalRef("raw_rows", "set null")}
      BY TableFields DEF SimplifiedTables, SimplifiedFact
    <3>2. Ref("projects", "cascade") \in SimplifiedTables["wbs_nodes"].refs
      BY <3>1, OwnedRefs
    <3> QED
      BY <3>2, CascadingKey
  <2>5. GoesWith(SimplifiedTables["budget_records"].refs, "projects")
    <3>1. SimplifiedTables["budget_records"].refs = Owned \union
            Cascades({"dataset_snapshots"}) \union {OptionalRef("raw_rows", "set null")}
      BY TableFields DEF SimplifiedTables, SimplifiedFact
    <3>2. Ref("projects", "cascade") \in SimplifiedTables["budget_records"].refs
      BY <3>1, OwnedRefs
    <3> QED
      BY <3>2, CascadingKey
  <2>6. GoesWith(SimplifiedTables["cost_records"].refs, "projects")
    <3>1. SimplifiedTables["cost_records"].refs = Owned \union
            Cascades({"dataset_snapshots"}) \union {OptionalRef("raw_rows", "set null")}
      BY TableFields DEF SimplifiedTables, SimplifiedFact
    <3>2. Ref("projects", "cascade") \in SimplifiedTables["cost_records"].refs
      BY <3>1, OwnedRefs
    <3> QED
      BY <3>2, CascadingKey
  <2>7. GoesWith(SimplifiedTables["commitment_records"].refs, "projects")
    <3>1. SimplifiedTables["commitment_records"].refs = Owned \union
            Cascades({"dataset_snapshots"}) \union {OptionalRef("raw_rows", "set null")}
      BY TableFields DEF SimplifiedTables, SimplifiedFact
    <3>2. Ref("projects", "cascade") \in SimplifiedTables["commitment_records"].refs
      BY <3>1, OwnedRefs
    <3> QED
      BY <3>2, CascadingKey
  <2>8. GoesWith(SimplifiedTables["schedule_activities"].refs, "projects")
    <3>1. SimplifiedTables["schedule_activities"].refs = Owned \union
            Cascades({"dataset_snapshots"}) \union {OptionalRef("raw_rows", "set null")}
      BY TableFields DEF SimplifiedTables, SimplifiedFact
    <3>2. Ref("projects", "cascade") \in SimplifiedTables["schedule_activities"].refs
      BY <3>1, OwnedRefs
    <3> QED
      BY <3>2, CascadingKey
  <2>9. GoesWith(SimplifiedTables["progress_records"].refs, "projects")
    <3>1. SimplifiedTables["progress_records"].refs = Owned \union
            Cascades({"dataset_snapshots"}) \union {OptionalRef("raw_rows", "set null")}
      BY TableFields DEF SimplifiedTables, SimplifiedFact
    <3>2. Ref("projects", "cascade") \in SimplifiedTables["progress_records"].refs
      BY <3>1, OwnedRefs
    <3> QED
      BY <3>2, CascadingKey
  <2> QED
    BY <2>1, <2>2, <2>3, <2>4, <2>5, <2>6, <2>7, <2>8, <2>9, MetadataTables DEF SimplifiedNames,
        OfProject, Tables
<1>4. \A t \in GovernedSnapshotNames \cap OfProject : GoesWith(metadata[t].refs, "projects")
  <2>1. GoesWith(GovernedSnapshotTables["governed_dataset_snapshots"].refs, "projects")
    <3>1. GovernedSnapshotTables["governed_dataset_snapshots"].refs = Owned \union
            {Ref("source_files", "restrict"), Ref("governed_mapping_profile_versions",
            "restrict"), OptionalRef("governed_import_batches", "no action")}
      BY TableFields DEF GovernedSnapshotTables
    <3>2. Ref("projects", "cascade") \in GovernedSnapshotTables["governed_dataset_snapshots"].refs
      BY <3>1, OwnedRefs
    <3> QED
      BY <3>2, CascadingKey
  <2>2. GoesWith(GovernedSnapshotTables["governed_import_batches"].refs, "projects")
    <3>1. GovernedSnapshotTables["governed_import_batches"].refs = Owned \union
            Cascades({"governed_dataset_snapshots"}) \union
            {Ref("governed_mapping_profile_versions", "restrict")}
      BY TableFields DEF GovernedSnapshotTables
    <3>2. Ref("projects", "cascade") \in GovernedSnapshotTables["governed_import_batches"].refs
      BY <3>1, OwnedRefs
    <3> QED
      BY <3>2, CascadingKey
  <2> QED
    BY <2>1, <2>2, MetadataTables DEF GovernedSnapshotNames, OfProject, Tables
<1>5. \A t \in GovernedRowNames \cap OfProject : GoesWith(metadata[t].refs, "projects")
  <2>1. GoesWith(GovernedRowTables["governed_dataset_domain_statuses"].refs, "projects")
    <3>1. GovernedRowTables["governed_dataset_domain_statuses"].refs = Owned \union
            Cascades({"governed_dataset_snapshots"})
      BY TableFields DEF GovernedRowTables, OfSnapshot
    <3>2. Ref("projects", "cascade") \in GovernedRowTables["governed_dataset_domain_statuses"].refs
      BY <3>1, OwnedRefs
    <3> QED
      BY <3>2, CascadingKey
  <2>2. GoesWith(GovernedRowTables["governed_raw_rows"].refs, "projects")
    <3>1. GovernedRowTables["governed_raw_rows"].refs = Owned \union
            Cascades({"governed_dataset_snapshots"}) \union
            {Ref("governed_import_batches", "no action")}
      BY TableFields DEF GovernedRowTables, OfSnapshot
    <3>2. Ref("projects", "cascade") \in GovernedRowTables["governed_raw_rows"].refs
      BY <3>1, OwnedRefs
    <3> QED
      BY <3>2, CascadingKey
  <2>3. GoesWith(GovernedRowTables["governed_wbs_nodes"].refs, "projects")
    <3>1. GovernedRowTables["governed_wbs_nodes"].refs = Owned \union
            Cascades({"governed_dataset_snapshots"}) \union
            {Ref("governed_raw_rows", "no action"), OptionalRef("governed_wbs_nodes",
            "no action")}
      BY TableFields DEF GovernedRowTables, OfSnapshot
    <3>2. Ref("projects", "cascade") \in GovernedRowTables["governed_wbs_nodes"].refs
      BY <3>1, OwnedRefs
    <3> QED
      BY <3>2, CascadingKey
  <2> QED
    BY <2>1, <2>2, <2>3, MetadataTables DEF GovernedRowNames, OfProject, Tables
<1>6. \A t \in GovernedFactNames \cap OfProject : GoesWith(metadata[t].refs, "projects")
  <2>1. GoesWith(GovernedFactTables["governed_budget_records"].refs, "projects")
    <3>1. GovernedFactTables["governed_budget_records"].refs = Owned \union
            Cascades({"governed_dataset_snapshots"}) \union
            {Ref("governed_raw_rows", "no action"), OptionalRef("governed_wbs_nodes",
            "no action")}
      BY TableFields DEF GovernedFactTables, GovernedFact, OfSnapshot
    <3>2. Ref("projects", "cascade") \in GovernedFactTables["governed_budget_records"].refs
      BY <3>1, OwnedRefs
    <3> QED
      BY <3>2, CascadingKey
  <2>2. GoesWith(GovernedFactTables["governed_actual_cost_records"].refs, "projects")
    <3>1. GovernedFactTables["governed_actual_cost_records"].refs = Owned \union
            Cascades({"governed_dataset_snapshots"}) \union
            {Ref("governed_raw_rows", "no action"), OptionalRef("governed_wbs_nodes",
            "no action")}
      BY TableFields DEF GovernedFactTables, GovernedFact, OfSnapshot
    <3>2. Ref("projects", "cascade") \in GovernedFactTables["governed_actual_cost_records"].refs
      BY <3>1, OwnedRefs
    <3> QED
      BY <3>2, CascadingKey
  <2>3. GoesWith(GovernedFactTables["governed_commitment_records"].refs, "projects")
    <3>1. GovernedFactTables["governed_commitment_records"].refs = Owned \union
            Cascades({"governed_dataset_snapshots"}) \union
            {Ref("governed_raw_rows", "no action"), OptionalRef("governed_wbs_nodes",
            "no action")}
      BY TableFields DEF GovernedFactTables, GovernedFact, OfSnapshot
    <3>2. Ref("projects", "cascade") \in GovernedFactTables["governed_commitment_records"].refs
      BY <3>1, OwnedRefs
    <3> QED
      BY <3>2, CascadingKey
  <2>4. GoesWith(GovernedFactTables["governed_schedule_activities"].refs, "projects")
    <3>1. GovernedFactTables["governed_schedule_activities"].refs = Owned \union
            Cascades({"governed_dataset_snapshots"}) \union
            {Ref("governed_raw_rows", "no action"), OptionalRef("governed_wbs_nodes",
            "no action")}
      BY TableFields DEF GovernedFactTables, GovernedFact, OfSnapshot
    <3>2. Ref("projects", "cascade") \in GovernedFactTables["governed_schedule_activities"].refs
      BY <3>1, OwnedRefs
    <3> QED
      BY <3>2, CascadingKey
  <2>5. GoesWith(GovernedFactTables["governed_progress_records"].refs, "projects")
    <3>1. GovernedFactTables["governed_progress_records"].refs = Owned \union
            Cascades({"governed_dataset_snapshots"}) \union
            {Ref("governed_raw_rows", "no action"), OptionalRef("governed_wbs_nodes",
            "no action")}
      BY TableFields DEF GovernedFactTables, GovernedFact, OfSnapshot
    <3>2. Ref("projects", "cascade") \in GovernedFactTables["governed_progress_records"].refs
      BY <3>1, OwnedRefs
    <3> QED
      BY <3>2, CascadingKey
  <2> QED
    BY <2>1, <2>2, <2>3, <2>4, <2>5, MetadataTables DEF GovernedFactNames, OfProject, Tables
<1>7. \A t \in HealthAndUserNames \cap OfProject : GoesWith(metadata[t].refs, "projects")
  <2>1. GoesWith(HealthAndUserTables["health_snapshots"].refs, "projects")
    <3>1. HealthAndUserTables["health_snapshots"].refs = Owned \union
            Cascades({"analysis_runs"})
      BY TableFields DEF HealthAndUserTables
    <3>2. Ref("projects", "cascade") \in HealthAndUserTables["health_snapshots"].refs
      BY <3>1, OwnedRefs
    <3> QED
      BY <3>2, CascadingKey
  <2>2. GoesWith(HealthAndUserTables["project_members"].refs, "projects")
    <3>1. HealthAndUserTables["project_members"].refs = Cascades({"projects", "users"})
      BY TableFields DEF HealthAndUserTables
    <3>2. Ref("projects", "cascade") \in HealthAndUserTables["project_members"].refs
      BY <3>1, OwnedRefs
    <3> QED
      BY <3>2, CascadingKey
  <2> QED
    BY <2>1, <2>2, MetadataTables DEF HealthAndUserNames, OfProject, Tables
<1>8. \A t \in AINames \cap OfProject : GoesWith(metadata[t].refs, "projects")
  <2>1. GoesWith(AITables["ai_conversations"].refs, "projects")
    <3>1. AITables["ai_conversations"].refs = Owned \union Users
      BY TableFields DEF AITables
    <3>2. Ref("projects", "cascade") \in AITables["ai_conversations"].refs
      BY <3>1, OwnedRefs
    <3> QED
      BY <3>2, CascadingKey
  <2>2. GoesWith(AITables["ai_insights"].refs, "projects")
    <3>1. AITables["ai_insights"].refs = Owned \union Cascades({"analysis_runs"})
      BY TableFields DEF AITables
    <3>2. Ref("projects", "cascade") \in AITables["ai_insights"].refs
      BY <3>1, OwnedRefs
    <3> QED
      BY <3>2, CascadingKey
  <2> QED
    BY <2>1, <2>2, MetadataTables DEF AINames, OfProject, Tables
<1>9. \A t \in ReportAndJobNames \cap OfProject : GoesWith(metadata[t].refs, "projects")
  <2>1. GoesWith(ReportAndJobTables["report_packages"].refs, "projects")
    <3>1. ReportAndJobTables["report_packages"].refs = Owned \union Users \union
            {Ref("analysis_runs", "restrict")}
      BY TableFields DEF ReportAndJobTables
    <3>2. Ref("projects", "cascade") \in ReportAndJobTables["report_packages"].refs
      BY <3>1, OwnedRefs
    <3> QED
      BY <3>2, CascadingKey
  <2>2. GoesWith(ReportAndJobTables["analysis_jobs"].refs, "projects")
    <3>1. ReportAndJobTables["analysis_jobs"].refs = Owned \union
            {OptionalRef("analysis_runs", "set null")}
      BY TableFields DEF ReportAndJobTables
    <3>2. Ref("projects", "cascade") \in ReportAndJobTables["analysis_jobs"].refs
      BY <3>1, OwnedRefs
    <3> QED
      BY <3>2, CascadingKey
  <2> QED
    BY <2>1, <2>2, MetadataTables DEF ReportAndJobNames, OfProject, Tables
<1>10. \A t \in ActionNames \cap OfProject : GoesWith(metadata[t].refs, "projects")
  <2>1. GoesWith(ActionTables["finding_actions"].refs, "projects")
    <3>1. ActionTables["finding_actions"].refs = Owned \union Cascades({"findings"})
      BY TableFields DEF ActionTables
    <3>2. Ref("projects", "cascade") \in ActionTables["finding_actions"].refs
      BY <3>1, OwnedRefs
    <3> QED
      BY <3>2, CascadingKey
  <2> QED
    BY <2>1, MetadataTables DEF ActionNames, OfProject, Tables
<1>11. \A t \in GovernanceNames \cap OfProject : GoesWith(metadata[t].refs, "projects")
  <2>1. GoesWith(GovernanceTables["project_governance_policies"].refs, "projects")
    <3>1. GovernanceTables["project_governance_policies"].refs = Owned
      BY TableFields DEF GovernanceTables
    <3>2. Ref("projects", "cascade") \in GovernanceTables["project_governance_policies"].refs
      BY <3>1, OwnedRefs
    <3> QED
      BY <3>2, CascadingKey
  <2>2. GoesWith(GovernanceTables["finding_closure_approvals"].refs, "projects")
    <3>1. GovernanceTables["finding_closure_approvals"].refs = Owned \union
            Cascades({"findings"}) \union Users
      BY TableFields DEF GovernanceTables
    <3>2. Ref("projects", "cascade") \in GovernanceTables["finding_closure_approvals"].refs
      BY <3>1, OwnedRefs
    <3> QED
      BY <3>2, CascadingKey
  <2>3. GoesWith(GovernanceTables["governance_escalations"].refs, "projects")
    <3>1. GovernanceTables["governance_escalations"].refs = Owned \union
            Cascades({"findings"}) \union Users \union
            {OptionalRef("finding_actions", "set null")}
      BY TableFields DEF GovernanceTables
    <3>2. Ref("projects", "cascade") \in GovernanceTables["governance_escalations"].refs
      BY <3>1, OwnedRefs
    <3> QED
      BY <3>2, CascadingKey
  <2> QED
    BY <2>1, <2>2, <2>3, MetadataTables DEF GovernanceNames, OfProject, Tables
<1> QED
  BY <1>1, <1>2, <1>3, <1>4, <1>5, <1>6, <1>7, <1>8, <1>9, <1>10, <1>11
     DEF OfProject, Tables, From2, From3, From4, From5, From6, From7, From8, From9, From10

\* The users and the organizations stay: their tables refer to none.
LEMMA OwnersRefs ==
    /\ metadata["organizations"].refs = {}
    /\ metadata["users"].refs = {}
<1>1. CoreTables["organizations"].refs = {}
  BY TableFields DEF CoreTables
<1>2. HealthAndUserTables["users"].refs = {}
  BY TableFields DEF HealthAndUserTables
<1> QED
  BY <1>1, <1>2, MetadataTables DEF CoreNames, HealthAndUserNames

\* No key of a class gets in the way of deleting a project.
LEMMA ModelsLetGo ==
    \A t \in Tables : \A ref \in metadata[t].refs : LetsGo(t, ref)
<1> SUFFICES ASSUME NEW t \in Tables, NEW ref \in metadata[t].refs
             PROVE  LetsGo(t, ref)
  OBVIOUS
<1>1. FormOrderly(Revisions, t)
  BY FormsOrderly
<1>2. ref \in FormAt(Revisions, t).refs
  BY HeadForms
<1> QED
  BY <1>1, <1>2 DEF FormOrderly

\* What the rounds of a deletion have taken, one after the other.
Waves(base, t, c) == c[0] = {t} /\ \A i \in 1..6 : c[i] = Cascaded(base, c[i - 1])
WavesUpTo(c, n) == [i \in 1..n |-> c[i - 1]]

\* One more round.
Further(base, rounds) == Append(rounds, Cascaded(base, Last(rounds)))

\* g holds the rounds after every set of their numbers, as FoldLeft takes them.
Deepens(g, base, t) ==
    g = [x \in SUBSET (1..6) |-> IF x = {} THEN <<{t}>> ELSE Further(base, g[x \ {Max(x)}])]

\* The rounds of a deletion as a function of their number.
LEMMA RoundsDeepen ==
    ASSUME NEW base, NEW t
    PROVE  \E g : Deepens(g, base, t)
<1> DEFINE X == base.rows.full \union {t}
           V == {s \in Seq(SUBSET X) : s # <<>>}
           start == <<{t}>>
           step == [q \in (1..6) \X V |-> Further(base, q[2])]
<1>1. start \in V
  OBVIOUS
<1>2. \A s \in V : Further(base, s) \in V
  <2> SUFFICES ASSUME NEW s \in V PROVE Further(base, s) \in V
    OBVIOUS
  <2>1. s \in Seq(SUBSET X) /\ Len(s) \in 1..Len(s)
    <3>1. Len(s) \in Nat /\ s # <<>>
      OBVIOUS
    <3>2. Len(s) # 0
      OBVIOUS
    <3> QED
      BY <3>1, <3>2
  <2>2. Last(s) \in SUBSET X
    BY <2>1 DEF Last
  <2>3. Cascaded(base, Last(s)) \in SUBSET X
    BY <2>2 DEF Cascaded
  <2> HIDE DEF X
  <2> DEFINE last == Cascaded(base, Last(s))
  <2> HIDE DEF last
  <2>4. Append(s, last) \in Seq(SUBSET X) /\ Append(s, last) # <<>>
    BY <2>1, <2>3 DEF last
  <2> QED
    BY <2>4 DEF Further, last
<1>3. step \in [(1..6) \X V -> V]
  <2> HIDE DEF V
  <2> QED
    BY <1>2
<1>4. PICK h \in [SUBSET (1..6) -> V] : FoldedLeft(h, 6, start, step)
  <2> HIDE DEF V, start, step
  <2> QED
    BY <1>1, <1>3, PrefixesExist
<1>5. ASSUME NEW x \in SUBSET (1..6)
      PROVE  h[x] = IF x = {} THEN start ELSE Further(base, h[x \ {Max(x)}])
  <2>1. CASE x = {}
    BY <1>4, <2>1 DEF FoldedLeft
  <2>2. CASE x # {}
    <3>1. Max(x) \in 1..6
      BY <2>2, MaxIsThere
    <3>2. x \ {Max(x)} \in SUBSET (1..6)
      OBVIOUS
    <3> DEFINE y == x \ {Max(x)}  m == Max(x)
    <3>3. h[x] = step[<<m, h[y]>>]
      BY <1>4, <2>2 DEF FoldedLeft
    <3>4. h[y] \in V /\ m \in 1..6
      <4> HIDE DEF V
      <4> QED
        BY <3>1, <3>2
    <3> HIDE DEF y, m, V
    <3>5. step[<<m, h[y]>>] = Further(base, h[y])
      BY <3>4
    <3> QED
      BY <2>2, <3>3, <3>5 DEF y, m
  <2> QED
    BY <2>1, <2>2
<1>6. h = [x \in SUBSET (1..6) |-> h[x]]
  OBVIOUS
<1> HIDE DEF V, step
<1>7. Deepens(h, base, t)
  BY <1>5, <1>6 DEF Deepens
<1> QED
  BY <1>7

\* The sequence of the waves, one longer.
LEMMA OneMoreWave ==
    ASSUME NEW base, NEW t, NEW S, NEW c \in [0..6 -> S], Waves(base, t, c), NEW i \in 1..6
    PROVE  Further(base, WavesUpTo(c, i)) = WavesUpTo(c, i + 1)
<1> DEFINE s == WavesUpTo(c, i)  z == Append(s, c[i])
<1>1. s \in Seq(S) /\ Len(s) = i /\ \A j \in 1..i : s[j] = c[j - 1]
  BY DEF WavesUpTo
<1>2. Last(s) = c[i - 1]
  BY <1>1 DEF Last
<1>3. Further(base, s) = z
  <2> HIDE DEF s
  <2> QED
    BY <1>2, Zenon DEF Further, Waves
<1>4. c[i] \in S
  OBVIOUS
<1> HIDE DEF s
<1>5. z \in Seq(S) /\ Len(z) = i + 1 /\ z[i + 1] = c[i] /\ \A j \in 1..i : z[j] = c[j - 1]
  BY <1>1, <1>4
<1> HIDE DEF z
<1>6. z = [j \in 1..(i + 1) |-> z[j]]
  BY <1>5
<1>7. \A j \in 1..(i + 1) : z[j] = c[j - 1]
  BY <1>5
<1>8. z = WavesUpTo(c, i + 1)
  BY <1>6, <1>7 DEF WavesUpTo
<1> QED
  BY <1>3, <1>8 DEF s

\* The rounds of a deletion.
LEMMA RoundsAreWaves ==
    ASSUME NEW base, NEW t, NEW S, NEW c \in [0..6 -> S], Waves(base, t, c)
    PROVE  Rounds(base, t) = WavesUpTo(c, 7)
<1> DEFINE g == CHOOSE f : Deepens(f, base, t)
<1>1. Rounds(base, t) = g[1..6]
  BY DEF Rounds, FoldLeft, MapThenFoldSet, Deepens, Further, MaxRounds
<1>2. Deepens(g, base, t)
  BY RoundsDeepen
<1> HIDE DEF g
<1>3. \A i \in 1..6 : g[1..i] = Further(base, g[1..(i - 1)])
  <2> SUFFICES ASSUME NEW i \in 1..6
               PROVE  g[1..i] = Further(base, g[1..(i - 1)])
    OBVIOUS
  <2>1. i \in Nat /\ i >= 1
    OBVIOUS
  <2>2. 1..i # {} /\ Max(1..i) = i /\ (1..i) \ {i} = 1..(i - 1)
    BY <2>1, PrefixStep
  <2>3. 1..i \in SUBSET (1..6)
    OBVIOUS
  <2> QED
    BY <1>2, <2>2, <2>3 DEF Deepens
<1>4. g[1..0] = WavesUpTo(c, 1)
  <2>1. 1..0 = {} /\ {} \in SUBSET (1..6)
    OBVIOUS
  <2>2. g[1..0] = <<{t}>>
    BY <1>2, <2>1 DEF Deepens
  <2>3. WavesUpTo(c, 1) = <<{t}>>
    BY DEF WavesUpTo, Waves
  <2> QED
    BY <2>2, <2>3
<1>5. \A i \in 1..6 : g[1..(i - 1)] = WavesUpTo(c, i) => g[1..i] = WavesUpTo(c, i + 1)
  <2> SUFFICES ASSUME NEW i \in 1..6, g[1..(i - 1)] = WavesUpTo(c, i)
               PROVE  g[1..i] = WavesUpTo(c, i + 1)
    OBVIOUS
  <2>1. g[1..i] = Further(base, WavesUpTo(c, i))
    BY <1>3
  <2>2. Further(base, WavesUpTo(c, i)) = WavesUpTo(c, i + 1)
    BY OneMoreWave
  <2> QED
    BY <2>1, <2>2
<1>6. g[1..6] = WavesUpTo(c, 7)
  <2>1. g[1..1] = WavesUpTo(c, 2)
    BY <1>4, <1>5
  <2>2. g[1..2] = WavesUpTo(c, 3)
    BY <1>5, <2>1
  <2>3. g[1..3] = WavesUpTo(c, 4)
    BY <1>5, <2>2
  <2>4. g[1..4] = WavesUpTo(c, 5)
    BY <1>5, <2>3
  <2>5. g[1..5] = WavesUpTo(c, 6)
    BY <1>5, <2>4
  <2>6. g[1..6] = WavesUpTo(c, 7)
    BY <1>5, <2>5
  <2> QED
    BY <2>6
<1> QED
  BY <1>1, <1>6

\* Two rounds are enough: what refers to a row that goes goes with it, or its
\* table is of those of the first round, or it refers to one of those.
LEMMA CascadesEnd ==
    ASSUME NEW base, base.tables = metadata, base.rows.full \subseteq Tables,
           "projects" \in base.rows.full,
           NEW c0, NEW c1, NEW c2, c0 = {"projects"}, c1 = Cascaded(base, c0),
           c2 = Cascaded(base, c1)
    PROVE  /\ c0 \subseteq c1 /\ c1 \subseteq c2 /\ c2 \subseteq base.rows.full
           /\ base.rows.full \cap OfProject \subseteq c1
           /\ Cascaded(base, c2) = c2
<1> DEFINE full == base.rows.full
<1>1. c0 \subseteq c1 /\ c1 \subseteq c2 /\ c2 \subseteq full
  BY DEF Cascaded
<1>2. full \cap OfProject \subseteq c1
  BY ProjectsAreLeft DEF Cascaded, GoesWith
<1>3. {"organizations", "users"} \cap c2 = {}
  BY OwnersRefs DEF Cascaded
<1>4. ASSUME NEW u \in full, NEW ref \in metadata[u].refs, ref.on = "cascade", ref.table \in c2
      PROVE  u \in c2
  <2>1. LetsGo(u, ref)
    BY <1>4, ModelsLetGo
  <2>2. u \in OfProject \/ ref.table \in OfProject
    BY <1>3, <1>4, <2>1 DEF LetsGo
  <2>3. CASE u \in OfProject
    BY <1>1, <1>2, <2>3
  <2>4. CASE ref.table \in OfProject
    <3>1. ref.table \in c1
      BY <1>1, <1>2, <1>4, <2>4
    <3> QED
      BY <1>4, <3>1 DEF Cascaded
  <2> QED
    BY <2>2, <2>3, <2>4
<1>5. Cascaded(base, c2) = c2
  BY <1>4 DEF Cascaded
<1> QED
  BY <1>1, <1>2, <1>5

\* What DeletionTakesTheProject asks, and more of the rows that stay.
ProjectGoes(base) ==
    /\ Deletable(base, "projects")
    /\ \A t \in Survivors(base, "projects") : \A r \in base.tables[t].refs :
          r.table \in base.rows.full \ Survivors(base, "projects") => r.on = "set null"
    /\ Survivors(base, "projects") \subseteq base.rows.full \ OfProject

\* A project can be deleted, with every row that refers to it or to one of its
\* rows and must.
LEMMA DeletionWorks ==
    ASSUME NEW base, base.tables = metadata, base.rows.full \subseteq Tables,
           "projects" \in base.rows.full
    PROVE  ProjectGoes(base)
<1> DEFINE full == base.rows.full
           c0 == {"projects"}
           c1 == Cascaded(base, c0)
           c2 == Cascaded(base, c1)
           c == [i \in 0..6 |-> IF i = 0 THEN c0 ELSE IF i = 1 THEN c1 ELSE c2]
           rounds == WavesUpTo(c, 7)
<1>1. /\ c0 \subseteq c1 /\ c1 \subseteq c2 /\ c2 \subseteq full
      /\ full \cap OfProject \subseteq c1
      /\ Cascaded(base, c2) = c2
  <2>1. c0 = {"projects"} /\ c1 = Cascaded(base, c0) /\ c2 = Cascaded(base, c1)
    OBVIOUS
  <2> HIDE DEF c0, c1, c2
  <2> QED
    BY <2>1, CascadesEnd
<1>3. \A t \in full : \A ref \in metadata[t].refs : LetsGo(t, ref)
  BY ModelsLetGo
<1>c. c0 = {"projects"} /\ c1 = Cascaded(base, c0) /\ c2 = Cascaded(base, c1)
  OBVIOUS
<1>d. \A u \in full : \A ref \in metadata[u].refs : ref.on = "cascade" /\ ref.table \in c2
          => u \in c2
  <2> HIDE DEF c0, c1, c2
  <2>1. c2 = Cascaded(base, c2)
    BY <1>1
  <2> QED
    BY <2>1 DEF Cascaded
<1> HIDE DEF c0, c1, c2
<1>2. Rounds(base, "projects") = rounds
  <2>1. Waves(base, "projects", c)
    BY <1>1, <1>c DEF Waves
  <2>2. c \in [0..6 -> {c0, c1, c2}]
    OBVIOUS
  <2> HIDE DEF c
  <2> QED
    BY <2>1, <2>2, RoundsAreWaves
<1>w. /\ DOMAIN rounds = 1..7 /\ Len(rounds) = 7
      /\ rounds[1] = c0 /\ rounds[2] = c1 /\ \A n \in 3..7 : rounds[n] = c2
  BY DEF WavesUpTo
<1> HIDE DEF rounds
<1>4. Survivors(base, "projects") = full \ c2
  <2>1. Last(rounds) = c2
    BY <1>w DEF Last
  <2>2. Survivors(base, "projects") = full \ Last(Rounds(base, "projects"))
    BY DEF Survivors
  <2> QED
    BY <1>2, <2>1, <2>2
<1>5. ASSUME NEW u \in full, NEW n \in 1..7,
             Resists(base, u, rounds[n] \ (IF n = 1 THEN {} ELSE rounds[n - 1]), rounds[n])
      PROVE  FALSE
  <2> DEFINE gone == rounds[n] \ (IF n = 1 THEN {} ELSE rounds[n - 1])
  <2>1. PICK ref \in metadata[u].refs :
           /\ ref.table \in gone
           /\ ref.on # "cascade"
           /\ ~(ref.on = "set null" /\ ref.optional)
           /\ u \notin rounds[n]
    BY <1>5 DEF Resists
  <2>2. LetsGo(u, ref)
    BY <1>3
  <2>3. ref.table # "projects" /\ u \in OfProject
    BY <2>1, <2>2, Zenon DEF LetsGo
  <2>4. n # 1
    BY <1>c, <1>w, <2>1, <2>3
  <2>5. c1 \subseteq rounds[n]
    BY <1>1, <1>w, <2>4
  <2> QED
    BY <1>1, <2>1, <2>3, <2>5
<1>6. Resisting(base, "projects") = {}
  <2> DEFINE newly(n) == rounds[n] \ (IF n = 1 THEN {} ELSE rounds[n - 1])
  <2>1. Resisting(base, "projects") =
            UNION {{u \in full : Resists(base, u, newly(n), rounds[n])} : n \in DOMAIN rounds}
    BY <1>2 DEF Resisting
  <2>2. \A n \in DOMAIN rounds : {u \in full : Resists(base, u, newly(n), rounds[n])} = {}
    BY <1>5, <1>w
  <2> HIDE DEF newly
  <2> QED
    BY <2>1, <2>2
<1>7. ASSUME NEW t \in full \ c2, NEW r \in metadata[t].refs, r.table \in c2
      PROVE  r.on = "set null"
  <2>1. LetsGo(t, r)
    BY <1>3
  <2>2. t \notin OfProject /\ r.on # "cascade"
    BY <1>1, <1>7, <1>d
  <2> QED
    BY <2>1, <2>2, Zenon DEF LetsGo
<1>8. \A t \in Survivors(base, "projects") : \A r \in base.tables[t].refs :
          r.table \in full \ Survivors(base, "projects") => r.on = "set null"
  BY <1>4, <1>7
<1>9. Survivors(base, "projects") \subseteq full \ OfProject
  BY <1>1, <1>4
<1> QED
  BY <1>6, <1>8, <1>9 DEF ProjectGoes, Deletable

-----------------------------------------------------------------------------
(* The deployments.                                                           *)

\* A run is of a snapshot, and a health snapshot is in one of the bands that
\* the last revision allows.
Backed ==
    /\ run # None => snapshot # None
    /\ health # None => health.score_band \in AllBands

\* The schema is that of the applied revisions and the rows fit it; requests
\* are served at the last revision, and their rows are settled when they end.
DeploymentInv ==
    /\ Deployed(applied, db)
    /\ ~Nothing => applied = Revisions /\ db.rows = NoRows
    /\ Backed

-----------------------------------------------------------------------------
\* The band of a health snapshot.
LEMMA HealthBands ==
    ASSUME NEW execution
    PROVE  Audit!HealthSnapshot(execution).score_band \in AllBands
<1>1. \A overall : Audit!determine_score_band(overall) \in Bands
  BY DEF Audit!determine_score_band, Bands
<1> DEFINE score == Audit!compute_health_score(execution.findings)
<1>2. score.score_band \in Bands
  BY <1>1 DEF Audit!compute_health_score
<1> HIDE DEF score
<1>3. Bands \subseteq AllBands /\ "Partial" \in AllBands /\ "Not Computed" \in AllBands
  BY DEF AllBands
<1> QED
  BY <1>2, <1>3 DEF Audit!HealthSnapshot, score

\* The steps of the pipeline keep it.
LEMMA BackedStays == Backed /\ [Next]_vars => Backed'
<1> SUFFICES ASSUME Backed, [Next]_vars
             PROVE  Backed'
  OBVIOUS
<1>1. CASE Nothing /\ run' = run /\ health' = health
  BY <1>1 DEF Nothing, Backed
<1>2. ASSUME NEW b, Nothing, UploadWorkbook(b)
      PROVE  Backed'
  BY <1>1, <1>2 DEF UploadWorkbook, ingest
<1>3. ASSUME NEW sheet, NEW preset, Nothing, ImportSchedule(sheet, preset)
      PROVE  Backed'
  BY <1>1, <1>3 DEF ImportSchedule, ingest
<1>4. ASSUME NEW runtime, run_snapshot(runtime)
      PROVE  Backed'
  <2>1. snapshot # None /\ snapshot' = snapshot
    BY <1>4 DEF run_snapshot
  <2>2. PICK execution, written :
          /\ run' = [status |-> IF written THEN "succeeded" ELSE "failed",
                     runtime |-> runtime, execution |-> execution]
          /\ health' = IF written THEN Audit!HealthSnapshot(execution) ELSE None
    BY <1>4 DEF run_snapshot
  <2>3. health' # None => health'.score_band \in AllBands
    BY <2>2, HealthBands
  <2> QED
    BY <2>1, <2>3 DEF Backed
<1>5. CASE UNCHANGED vars
  BY <1>5 DEF vars, Backed
<1> QED
  BY <1>2, <1>3, <1>4, <1>5 DEF Next
-----------------------------------------------------------------------------

\* A revision that may be applied is fresh; one that may be undone is topmost.
LEMMA MayIsFresh ==
    ASSUME NEW S, Closed(S), NEW r \in Revisions
    PROVE  /\ r \notin S /\ down_revision[r] \subseteq S => Fresh(S, r)
           /\ r \in S /\ (~\E c \in S : r \in down_revision[c]) => Topmost(S, r)
BY DEF Fresh, Topmost

\* The revisions are applied up to the last.
LEMMA RevisionsClosed == Closed(Revisions)
<1>1. \A r \in Revisions : down_revision[r] \subseteq Revisions
  BY DownRevisions DEF Revisions
<1> QED
  BY <1>1 DEF Closed

\* The first deployment starts with an empty database.
LEMMA StartIsDeployed == DeploymentInit => DeploymentInv
BY EmptyIsDeployed DEF DeploymentInit, DeploymentInv, Init, Nothing, Backed

\* A migration moves the schema to that of the revisions that are applied
\* then.
LEMMA UpgradeStep ==
    ASSUME DeploymentInv, NEW r \in Revisions, Upgrade(r)
    PROVE  DeploymentInv'
<1> DEFINE after == Script(db, upgrade(r))
<1>1. Deployed(applied, db) /\ Nothing /\ MayUpgrade(r) /\ UNCHANGED vars
      /\ applied' = applied \union {r} /\ db' = after
  BY DEF DeploymentInv, Upgrade
<1>2. Fresh(applied, r)
  BY <1>1, MayIsFresh DEF Deployed, MayUpgrade
<1>3. Deployed(applied \union {r}, after)
  BY <1>1, <1>2, UpgradeIsDeployed
<1> HIDE DEF after
<1>4. Deployed(applied, db)'
  BY <1>1, <1>3 DEF Deployed
<1>5. Nothing'
  BY <1>1 DEF Nothing, vars
<1>6. Backed'
  BY <1>1 DEF DeploymentInv, Backed, vars
<1> QED
  BY <1>4, <1>5, <1>6 DEF DeploymentInv

\* So does one that is undone.
LEMMA DowngradeStep ==
    ASSUME DeploymentInv, NEW r \in Revisions, Downgrade(r)
    PROVE  DeploymentInv'
<1> DEFINE after == Script(db, downgrade(r))
<1>1. Deployed(applied, db) /\ Nothing /\ MayDowngrade(r) /\ UNCHANGED vars
      /\ applied' = applied \ {r} /\ db' = after
  BY DEF DeploymentInv, Downgrade
<1>2. Topmost(applied, r)
  BY <1>1, MayIsFresh DEF Deployed, MayDowngrade
<1>3. Deployed(applied \ {r}, after)
  BY <1>1, <1>2, DowngradeIsDeployed
<1> HIDE DEF after
<1>4. Deployed(applied, db)'
  BY <1>1, <1>3 DEF Deployed
<1>5. Nothing'
  BY <1>1 DEF Nothing, vars
<1>6. Backed'
  BY <1>1 DEF DeploymentInv, Backed, vars
<1> QED
  BY <1>4, <1>5, <1>6 DEF DeploymentInv

\* A request leaves the database as it is until it is over.
LEMMA ServeStep ==
    ASSUME DeploymentInv, Serve
    PROVE  DeploymentInv'
<1>1. applied = Revisions /\ db.rows = NoRows /\ Next /\ applied' = applied /\ db' = db
  BY DEF Serve, AtHead
<1>2. Deployed(applied, db)'
  BY <1>1 DEF DeploymentInv, Deployed
<1>3. Backed'
  BY <1>1, BackedStays DEF DeploymentInv
<1> QED
  BY <1>1, <1>2, <1>3 DEF DeploymentInv

\* The tables of the last revision are those of the classes.
LEMMA DeployedHead ==
    ASSUME NEW base, Deployed(Revisions, base)
    PROVE  /\ base = Db(metadata, base.rows) /\ base.tables = metadata
           /\ StoredIn(metadata, base.rows) /\ base.rows.full \subseteq Tables
<1>1. base = Db(metadata, base.rows) /\ StoredIn(metadata, base.rows)
  BY HeadSchema DEF Deployed, KeptAt
<1>2. base.tables = metadata
  <2>1. Db(metadata, base.rows).tables = metadata
    BY DbFields, Zenon
  <2> QED
    BY <1>1, <2>1, Zenon
<1>3. base.rows.full \subseteq Tables
  BY <1>1, MetadataTables, Zenon DEF StoredIn
<1> QED
  BY <1>1, <1>2, <1>3

\* What a deletion leaves fits: no run and no health snapshot is left.
LEMMA LeftoverFits ==
    ASSUME NEW base, Deployed(Revisions, base), NEW X, X \subseteq base.rows.full \ OfProject
    PROVE  Deployed(Revisions, [base EXCEPT !.rows.full = X])
<1> DEFINE rows == base.rows
           left == [rows EXCEPT !.full = X]
           after == [base EXCEPT !.rows.full = X]
<1>1. base = Db(metadata, rows) /\ StoredIn(metadata, rows)
  BY DeployedHead
<1>2. KeptAt(Revisions, rows)
  BY Zenon DEF Deployed
<1>3. rows = [x \in {"full", "legacy", "governed", "band", "withheld"} |-> rows[x]]
  BY <1>1, Zenon DEF StoredIn
<1>4. after = Db(metadata, left)
  <2>1. base = [x \in {"tables", "rows", "ok"} |-> base[x]] /\ base.tables = metadata
            /\ base.ok = TRUE
    BY <1>1 DEF Db
  <2>2. after = [x \in {"tables", "rows", "ok"} |-> after[x]]
    BY <2>1
  <2>3. after.tables = metadata
    BY <2>1
  <2>4. after.ok = TRUE
    BY <2>1
  <2>5. after.rows = left
    BY <2>1
  <2> HIDE DEF after, left
  <2> QED
    BY <2>2, <2>3, <2>4, <2>5 DEF Db
<1> HIDE DEF rows
<1>5. left = [x \in {"full", "legacy", "governed", "band", "withheld"} |-> left[x]]
      /\ left.full = X
  BY <1>3
<1>6. left.legacy = rows.legacy
  BY <1>3
<1>7. left.governed = rows.governed
  BY <1>3
<1>8. left.withheld = rows.withheld
  BY <1>3, Zenon
<1> HIDE DEF left, after
<1>9. left.full \subseteq Tables
  BY <1>1, <1>5, MetadataTables, Zenon DEF StoredIn, rows
<1>10. "analysis_runs" \notin left.full /\ "health_snapshots" \notin left.full
  BY <1>5, ProjectTables
<1>11. Fit(metadata, left)
  BY <1>10, Zenon DEF Fit, RunsFit, HealthFits
<1>12. StoredIn(metadata, left)
  BY <1>5, <1>9, <1>11, MetadataTables DEF StoredIn
<1>13. KeptAt(Revisions, left)
  BY <1>2, <1>6, <1>7, <1>8, <1>12, HeadSchema, Zenon DEF KeptAt
<1>14. after.rows = left
  BY <1>4, DbFields
<1>15. Deployed(Revisions, after)
  BY <1>4, <1>13, <1>14, RevisionsClosed, HeadSchema, Zenon DEF Deployed
<1> QED
  BY <1>15 DEF after

\* What is left of the rows when a project is deleted fits the same schema.
LEMMA DeleteStep ==
    ASSUME DeploymentInv, delete_project
    PROVE  DeploymentInv'
<1> DEFINE X == Survivors(db, "projects")
<1>1. Deployed(applied, db) /\ Nothing /\ applied = Revisions /\ "projects" \in db.rows.full
      /\ db' = [db EXCEPT !.rows.full = X] /\ vars' = vars /\ applied' = applied
  BY DEF DeploymentInv, delete_project, AtHead
<1>2. ProjectGoes(db)
  BY <1>1, DeployedHead, DeletionWorks
<1>3. X \subseteq db.rows.full \ OfProject
  BY <1>2 DEF ProjectGoes
<1> HIDE DEF X
<1>4. Deployed(Revisions, [db EXCEPT !.rows.full = X])
  BY <1>1, <1>3, LeftoverFits
<1>5. Deployed(applied, db)'
  BY <1>1, <1>4 DEF Deployed
<1>6. Nothing'
  BY <1>1 DEF Nothing, vars
<1>7. Backed'
  BY <1>1 DEF DeploymentInv, Backed, vars
<1> QED
  BY <1>5, <1>6, <1>7 DEF DeploymentInv

\* Rows of the service: with the runs their snapshots, and a band that the
\* models know.
Served(rows) ==
    /\ rows = [x \in {"full", "legacy", "governed", "band", "withheld"} |-> rows[x]]
    /\ rows.full \subseteq Tables
    /\ rows.legacy = FALSE
    /\ rows.governed \in BOOLEAN
    /\ rows.withheld \in BOOLEAN
    /\ "analysis_runs" \in rows.full => rows.governed
    /\ rows.governed => "governed_dataset_snapshots" \in rows.full
    /\ BandAllowed(rows)

\* They fit the schema of the last revision.
LEMMA ServedRowsFit ==
    ASSUME NEW rows, Served(rows)
    PROVE  KeptAt(Revisions, rows)
<1>0. {"20260825_0010", "20260825_0011"} \subseteq Revisions
  BY DEF Revisions
<1>1. rows.full \subseteq Tables /\ rows.legacy = FALSE /\ BandAllowed(rows)
  BY DEF Served
<1>2. /\ FormAt(Revisions, "analysis_runs") = Table(RunRefs(Revisions), {}, RunChecks(Revisions))
      /\ FormAt(Revisions, "health_snapshots")
            = Table(HealthRefs, {{"analysis_run_id"}}, HealthChecks(Revisions))
  BY ChangedForms
<1>3. OldSnapshot \notin RunRefs(Revisions)
  <2> DEFINE S == {}
  <2>1. "20260825_0010" \notin S /\ "20260825_0010" \in Revisions
    BY <1>0
  <2> HIDE DEF S
  <2> QED
    BY <2>1, RunReferences
<1>4. RunsAgree(RunRefs(Revisions), RunChecks(Revisions), rows)
  BY <1>1, <1>3, Zenon DEF Served, RunsAgree, OldSnapshot
<1>5. HealthChecks(Revisions) \subseteq {WideBands, ComputationStatus}
  BY <1>0 DEF HealthChecks, WideBands
<1>6. HealthAgrees(HealthChecks(Revisions), rows)
  BY <1>1, <1>5, BandedAgrees
<1>7. RunsFit(metadata["analysis_runs"], rows)
  BY <1>2, <1>4, AgreeIsFit, HeadForms, TableNames
<1>8. HealthFits(metadata["health_snapshots"], rows)
  BY <1>2, <1>6, AgreeIsFit, HeadForms, TableNames
<1>9. StoredIn(metadata, rows)
  BY <1>7, <1>8, MetadataTables DEF StoredIn, Fit, Served
<1>10. rows.legacy \in BOOLEAN
  BY <1>1
<1> QED
  BY <1>0, <1>9, <1>10, HeadSchema, Zenon DEF KeptAt, Served

\* The rows that requests leave fit the schema of the last revision.
LEMMA SettledIsDeployed ==
    ASSUME NEW base, Deployed(Revisions, base), NEW left, Served(left)
    PROVE  Deployed(Revisions, [base EXCEPT !.rows = left])
<1> DEFINE after == [base EXCEPT !.rows = left]
<1>1. base = Db(metadata, base.rows)
  BY DeployedHead
<1>2. after = Db(metadata, left)
  <2>1. base = [x \in {"tables", "rows", "ok"} |-> base[x]] /\ base.tables = metadata
            /\ base.ok = TRUE
    BY <1>1 DEF Db
  <2>2. after = [x \in {"tables", "rows", "ok"} |-> after[x]]
    BY <2>1
  <2>3. after.tables = metadata
    BY <2>1
  <2>4. after.ok = TRUE
    BY <2>1
  <2>5. after.rows = left
    BY <2>1
  <2> HIDE DEF after
  <2> QED
    BY <2>2, <2>3, <2>4, <2>5 DEF Db
<1> HIDE DEF after
<1>3. after.rows = left
  BY <1>2, DbFields
<1>4. KeptAt(Revisions, left)
  BY ServedRowsFit
<1>5. Deployed(Revisions, after)
  BY <1>2, <1>3, <1>4, RevisionsClosed, HeadSchema, Zenon DEF Deployed
<1> QED
  BY <1>5 DEF after

\* The tables of the rows that requests and users write.
Written(work) ==
    {"organizations", "users", "organization_members", "projects", "audit_logs"}
    \union SnapshotRows \union RunRows \union (IF work THEN Work ELSE {})

\* The requests write to tables that are there, and to those that their rows
\* refer to.
LEMMA WrittenTables ==
    ASSUME NEW work \in BOOLEAN
    PROVE  /\ Written(work) \subseteq Tables
           /\ "analysis_runs" \in Written(work) <=> run # None
           /\ snapshot # None => "governed_dataset_snapshots" \in Written(work)
           /\ "health_snapshots" \in Written(work) => health # None
<1>1. /\ DOMAIN GovernedSnapshotTables = GovernedSnapshotNames
      /\ DOMAIN GovernedRowTables = GovernedRowNames
      /\ DOMAIN GovernedFactTables = GovernedFactNames
  BY GroupNames
<1> DEFINE G == GovernedSnapshotNames \union GovernedRowNames \union GovernedFactNames
           O == {"organizations", "users", "organization_members", "projects", "audit_logs"}
<1>2. G \subseteq Tables /\ "governed_dataset_snapshots" \in G
      /\ "analysis_runs" \notin G /\ "health_snapshots" \notin G
  <2>1. G \subseteq Tables
    BY DEF Tables, From2, From3, From4, From5, From6, From7
  <2> QED
    BY <2>1 DEF GovernedSnapshotNames, GovernedRowNames, GovernedFactNames
<1>3. SnapshotRows = IF snapshot = None THEN {} ELSE {"source_files"} \union G
  BY <1>1 DEF SnapshotRows
<1> HIDE DEF G
<1>4. Work \subseteq Tables /\ "analysis_runs" \notin Work /\ "health_snapshots" \notin Work
  BY TableNames DEF Work
<1>5. /\ RunRows \subseteq Tables
      /\ "analysis_runs" \in RunRows <=> run # None
      /\ "health_snapshots" \in RunRows => health # None
  BY TableNames DEF RunRows
<1>6. SnapshotRows \subseteq Tables /\ "analysis_runs" \notin SnapshotRows
      /\ "health_snapshots" \notin SnapshotRows
      /\ (snapshot # None => "governed_dataset_snapshots" \in SnapshotRows)
  BY <1>2, <1>3, TableNames
<1>7. O \subseteq Tables /\ "analysis_runs" \notin O /\ "health_snapshots" \notin O
  BY TableNames
<1> HIDE DEF O
<1>8. Written(work) = ((O \union SnapshotRows) \union RunRows) \union (IF work THEN Work ELSE {})
  BY DEF Written, O
<1> QED
  BY <1>4, <1>5, <1>6, <1>7, <1>8

\* So the end of the requests keeps the invariant.
LEMMA SettleStep ==
    ASSUME DeploymentInv, NEW work \in BOOLEAN, Settle(work)
    PROVE  DeploymentInv'
<1> DEFINE left ==
              [full |-> Written(work), legacy |-> FALSE, governed |-> run # None,
               band |-> IF health = None THEN "Critical" ELSE health.score_band,
               withheld |-> health # None /\ (health.overall = None
                               \/ \E c \in DOMAIN health.scores : health.scores[c] = None)]
<1>1. Deployed(Revisions, db) /\ applied = Revisions /\ applied' = applied
  BY DEF DeploymentInv, Settle
<1>2. db' = [db EXCEPT !.rows = left]
  BY DEF Settle, Written
<1>3. Backed
  BY DEF DeploymentInv
<1>4. left = [x \in {"full", "legacy", "governed", "band", "withheld"} |-> left[x]]
      /\ left.full = Written(work)
  OBVIOUS
<1>5. left.legacy = FALSE
  OBVIOUS
<1>6. left.governed = (run # None)
  OBVIOUS
<1>7. left.withheld \in BOOLEAN
  <2>1. left.withheld = (health # None /\ (health.overall = None
                           \/ \E c \in DOMAIN health.scores : health.scores[c] = None))
    OBVIOUS
  <2> HIDE DEF left
  <2> QED
    BY <2>1, Zenon
<1>8. health # None => left.band = health.score_band
  OBVIOUS
<1> HIDE DEF left
<1>9. Served(left)
  <2>1. left.governed \in BOOLEAN
    BY <1>6, Zenon
  <2>2. left.full \subseteq Tables
    BY <1>4, WrittenTables
  <2>3. "analysis_runs" \in left.full => left.governed
    <3>1. "analysis_runs" \in left.full => run # None
      BY <1>4, WrittenTables
    <3> QED
      BY <1>6, <3>1, Zenon
  <2>4. left.governed => "governed_dataset_snapshots" \in left.full
    <3>1. run # None => "governed_dataset_snapshots" \in left.full
      BY <1>3, <1>4, WrittenTables DEF Backed
    <3> QED
      BY <1>6, <3>1, Zenon
  <2>5. BandAllowed(left)
    <3>1. "health_snapshots" \in left.full => health # None
      BY <1>4, WrittenTables
    <3>2. health # None => left.band \in AllBands
      BY <1>3, <1>8 DEF Backed
    <3> QED
      BY <3>1, <3>2, Zenon DEF BandAllowed
  <2> QED
    BY <1>4, <1>5, <1>7, <2>1, <2>2, <2>3, <2>4, <2>5, Zenon DEF Served
<1>10. Deployed(applied, db)'
  <2>1. Deployed(Revisions, [db EXCEPT !.rows = left])
    BY <1>1, <1>9, SettledIsDeployed
  <2> QED
    BY <1>1, <1>2, <2>1 DEF Deployed
<1>11. Nothing' /\ Backed'
  BY DEF Settle, Nothing, Backed
<1> QED
  BY <1>10, <1>11 DEF DeploymentInv

\* Along a deployment the schema is that of the applied revisions, and the
\* rows fit it.
LEMMA DeploymentInvHolds == DeploymentSpec => []DeploymentInv
<1>1. DeploymentInit => DeploymentInv
  BY StartIsDeployed
<1>2. DeploymentInv /\ [DeploymentNext]_deployment => DeploymentInv'
  <2> SUFFICES ASSUME DeploymentInv, [DeploymentNext]_deployment
               PROVE  DeploymentInv'
    OBVIOUS
  <2>1. CASE UNCHANGED deployment
    <3>1. applied' = applied /\ db' = db /\ vars' = vars
      BY <2>1 DEF deployment
    <3>2. Deployed(applied, db)'
      BY <3>1 DEF DeploymentInv, Deployed
    <3>3. Nothing' <=> Nothing
      BY <3>1 DEF Nothing, vars
    <3>4. Backed'
      BY <3>1 DEF DeploymentInv, Backed, vars
    <3> QED
      BY <3>1, <3>2, <3>3, <3>4 DEF DeploymentInv
  <2>2. ASSUME NEW r \in Revisions, Upgrade(r)
        PROVE  DeploymentInv'
    BY <2>2, UpgradeStep
  <2>3. ASSUME NEW r \in Revisions, Downgrade(r)
        PROVE  DeploymentInv'
    BY <2>3, DowngradeStep
  <2>4. CASE Serve
    BY <2>4, ServeStep
  <2>5. ASSUME NEW work \in BOOLEAN, Settle(work)
        PROVE  DeploymentInv'
    BY <2>5, SettleStep
  <2>6. CASE delete_project
    BY <2>6, DeleteStep
  <2> QED
    BY <2>1, <2>2, <2>3, <2>4, <2>5, <2>6 DEF DeploymentNext
<1> QED
  BY <1>1, <1>2, PTL DEF DeploymentSpec

\* Whatever the order in which revisions are applied and undone, and whatever
\* rows the service wrote in between, no statement of a migration is refused,
\* and a downgrade undoes its upgrade to the last constraint
\* (alembic/versions).
THEOREM MigrationsAlwaysApply == DeploymentSpec => []MigrationsApplyAndUndo
<1>1. DeploymentInv => MigrationsApplyAndUndo
  <2> SUFFICES ASSUME DeploymentInv, NEW r \in Revisions
               PROVE  /\ MayUpgrade(r) =>
                            /\ Script(db, upgrade(r)).ok
                            /\ Script(Script(db, upgrade(r)), downgrade(r)).tables = db.tables
                      /\ MayDowngrade(r) => Script(db, downgrade(r)).ok
    BY DEF MigrationsApplyAndUndo
  <2>1. Deployed(applied, db) /\ Closed(applied)
    BY DEF DeploymentInv, Deployed
  <2>2. ASSUME MayUpgrade(r)
        PROVE  /\ Script(db, upgrade(r)).ok
               /\ Script(Script(db, upgrade(r)), downgrade(r)).tables = db.tables
    <3>1. Fresh(applied, r)
      BY <2>1, <2>2, MayIsFresh DEF MayUpgrade
    <3> QED
      BY <2>1, <3>1, UpgradeIsDeployed, UpgradeUndone
  <2>3. ASSUME MayDowngrade(r)
        PROVE  Script(db, downgrade(r)).ok
    <3>1. Topmost(applied, r)
      BY <2>1, <2>3, MayIsFresh DEF MayDowngrade
    <3> QED
      BY <2>1, <3>1, DowngradeIsDeployed
  <2> QED
    BY <2>2, <2>3
<1> QED
  BY <1>1, DeploymentInvHolds, PTL

\* The schema is a function of the revisions that are applied: two databases
\* that were migrated along different branches, or up and down again, have the
\* same tables, keys and checks (alembic/versions).
THEOREM SchemaFollowsRevisions == DeploymentSpec => [](db.tables = SchemaAt(applied))
<1>1. DeploymentInv => db.tables = SchemaAt(applied)
  <2> SUFFICES ASSUME DeploymentInv
               PROVE  db.tables = SchemaAt(applied)
    OBVIOUS
  <2>1. db = Db(SchemaAt(applied), db.rows)
    BY Zenon DEF DeploymentInv, Deployed
  <2>2. Db(SchemaAt(applied), db.rows).tables = SchemaAt(applied)
    BY DbFields, Zenon
  <2> QED
    BY <2>1, <2>2, Zenon
<1> QED
  BY <1>1, DeploymentInvHolds, PTL

\* At the last revision the schema is the one that the ORM classes declare,
\* whatever path led there (persistence/models.py and its siblings).
THEOREM HeadIsMetadata == DeploymentSpec => []HeadIsTheModels
<1>1. DeploymentInv => HeadIsTheModels
  BY DeployedHead DEF DeploymentInv, HeadIsTheModels, AtHead
<1> QED
  BY <1>1, DeploymentInvHolds, PTL

\* A project can be deleted whatever was written for it, and no row that is
\* left refers to one that is gone.
THEOREM ProjectsCanBeDeleted == DeploymentSpec => []DeletionTakesTheProject
<1>1. DeploymentInv => DeletionTakesTheProject
  <2> SUFFICES ASSUME DeploymentInv, AtHead, "projects" \in db.rows.full
               PROVE  /\ Deletable(db, "projects")
                      /\ \A t \in Survivors(db, "projects") : \A r \in db.tables[t].refs :
                            r.table \in db.rows.full \ Survivors(db, "projects")
                                => r.on = "set null"
    BY DEF DeletionTakesTheProject
  <2>1. Deployed(Revisions, db)
    BY DEF DeploymentInv, AtHead
  <2>2. ProjectGoes(db)
    BY <2>1, DeployedHead, DeletionWorks
  <2> QED
    BY <2>2 DEF ProjectGoes
<1> QED
  BY <1>1, DeploymentInvHolds, PTL

-----------------------------------------------------------------------------
(* What the pipeline promises, it promises across deployments: a step of the  *)
(* deployments that moves the pipeline is a step of the pipeline or the end   *)
(* of its requests.                                                           *)

\* A migration or a deletion leaves the pipeline alone, a served request is a
\* step of it, and a settled one leaves nothing.
LEMMA DeploymentServes == [DeploymentNext]_deployment => [Next]_vars \/ Nothing'
<1> SUFFICES ASSUME [DeploymentNext]_deployment
             PROVE  [Next]_vars \/ Nothing'
  OBVIOUS
<1>1. ASSUME NEW r \in Revisions, Upgrade(r) \/ Downgrade(r)
      PROVE  UNCHANGED vars
  BY <1>1 DEF Upgrade, Downgrade
<1>2. ASSUME NEW work \in BOOLEAN, Settle(work)
      PROVE  Nothing'
  BY <1>2 DEF Settle, Nothing
<1>3. Serve => Next
  BY DEF Serve
<1>4. delete_project => UNCHANGED vars
  BY DEF delete_project
<1>5. UNCHANGED deployment => UNCHANGED vars
  BY DEF deployment
<1> QED
  BY <1>1, <1>2, <1>3, <1>4, <1>5 DEF DeploymentNext

\* Every invariant by which the pipeline was proved correct.
ServedInv ==
    /\ PipelineInv /\ HeadersInv /\ HierarchyInv /\ ImportInv /\ CellsInv /\ Collided
    /\ snapshot # None => Completed

\* It holds when nothing has been uploaded.
LEMMA NothingIsServed == Nothing => ServedInv
<1>1. Nothing => PipelineInv
  BY DEF Nothing, PipelineInv
<1>2. Nothing => HeadersInv
  BY DEF Nothing, HeadersInv
<1>3. Nothing => HierarchyInv
  BY NoneAssumption DEF Nothing, HierarchyInv
<1>4. Nothing => ImportInv
  BY DEF Nothing, ImportInv
<1>5. Nothing => CellsInv
  BY DEF Nothing, CellsInv
<1>6. Nothing => Collided
  BY DEF Nothing, Collided
<1>7. Nothing => (snapshot # None => Completed)
  BY DEF Nothing
<1> QED
  BY <1>1, <1>2, <1>3, <1>4, <1>5, <1>6, <1>7 DEF ServedInv

\* A step of the pipeline keeps it.
LEMMA ServedStays ==
    ASSUME NoneIsNoFunction
    PROVE  ServedInv /\ [Next]_vars => ServedInv'
<1>1. PipelineInv /\ [Next]_vars => PipelineInv'
  BY PipelineInvStays
<1>2. HeadersInv /\ [Next]_vars => HeadersInv'
  BY HeadersInvStays
<1>3. HierarchyInv /\ [Next]_vars => HierarchyInv'
  BY HierarchyInvStays
<1>4. ImportInv /\ [Next]_vars => ImportInv'
  BY ImportInvStays
<1>5. CellsInv /\ [Next]_vars => CellsInv'
  BY CellsInvStays
<1>6. Collided /\ [Next]_vars => Collided'
  BY CollidedStays
<1>7. (snapshot # None => Completed) /\ [Next]_vars => (snapshot # None => Completed)'
  BY CompletedStays
<1> QED
  BY <1>1, <1>2, <1>3, <1>4, <1>5, <1>6, <1>7, Zenon DEF ServedInv

\* What the pipeline promises of a workbook that was uploaded, or of a
\* schedule that was imported, and of the analyses that ran on it.
PipelineKept ==
    /\ ColumnsAreKept /\ HierarchyIsForest /\ ImportReachesTheRules /\ CountsReconcile
    /\ ExecutedRulesSeeWholeSheets /\ OrphansHaveNoNode /\ OverrunIsExposure
    /\ ScoresAreBacked /\ FailureIsRepeatedIdentity

\* Migrating the database, up or down, and deleting projects between the
\* requests never breaks what the pipeline promises: every request that is
\* served at the last revision finds its columns kept, its hierarchy a forest,
\* its counts reconciled, its rules on whole sheets and its scores backed.
THEOREM DeploymentsKeepThePipeline ==
    ASSUME NoneIsNoFunction
    PROVE  DeploymentSpec => []PipelineKept
<1>1. DeploymentInit => Nothing
  BY DEF DeploymentInit, Init
<1>2. Nothing => ServedInv
  BY NothingIsServed
<1>3. [DeploymentNext]_deployment => [Next]_vars \/ Nothing'
  BY DeploymentServes
<1>4. ServedInv /\ [Next]_vars => ServedInv'
  BY ServedStays
<1>5. ServedInv => PipelineKept
  BY AnalysedSeeWholeSheets, AnalysedReportOrphans, AnalysedScores, AnalysedOverruns,
     HeadersKeepColumns, HierarchyInvIsForest, ImportInvReaches, CompletedCounts,
     CollidedRepeats
     DEF ServedInv, PipelineKept
<1> QED
  BY <1>1, <1>2, <1>3, <1>4, <1>5, PTL DEF DeploymentSpec
=============================================================================
