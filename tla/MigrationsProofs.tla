-------------------------- MODULE MigrationsProofs --------------------------
(* Proofs about Migrations, for every deployment, every change others may  *)
(* make and any number of rows, keywords and crashes: no step of a runner  *)
(* loses a row, the ledger never runs ahead of the database, and the plan  *)
(* comes true.  The argument is about what each revision writes and what   *)
(* each inspection reads (Objects, Rows, ReadObjects, ReadRows): a later   *)
(* revision writes nothing an earlier one inspects, but for the mappings'  *)
(* index that 0010 takes from 0006.                                        *)
EXTENDS Migrations, SequenceTheorems, FiniteSetTheorems, TLAPS

-----------------------------------------------------------------------------
(* What a statement may be, and what it leaves alone                       *)

Revisions == {Chain[k] : k \in 1 .. HeadRevision}


\* A list of statements.
IsList(seq) == seq \in Seq(ToSet(seq))

CreateCheck == Create([name |-> "code_check", gives |-> [code_check |-> "binary"]])

OfBaseline(s) ==
    /\ s.do = "create" /\ s.name \in DOMAIN s.gives
    /\ "push_width" \in DOMAIN s.gives => "push_job" \in DOMAIN s.gives

\* The statements a revision issues, whatever it finds.
Of(r, s) ==
    CASE r = "asset_filter"        -> s = CreateOne("filter_index")
      [] r = "open_modules"        -> \E k \in 1 .. 5 : s = Create(OpenFragments[k])
      [] r = "ingestion_identity"  ->
           \/ \E n \in AssetColumns \cup LineageColumns \cup {"asset_by_identity"} : s = CreateOne(n)
           \/ s = Drop("asset_by_name")
      [] r = "rbac"                -> \E n \in RbacTables \cup {"grant_index"} : s = CreateOne(n)
      [] r = "upstream_id"         ->
           \/ s.do = "assign"
           \/ s \in {Alter("mapping_source", "null"), Alter("mapping_upstream", "not_null"),
                     CreateOne("source_key_index"), Refuse}
      [] r = "binary_status"       ->
           s \in {Drop("code_check"), Rewrite("active", "enabled"), Rewrite("draft", "disabled"),
                  Alter("code_default", "enabled"), CreateCheck}
      [] r = "indicator_semantics" ->
           \/ \E n \in IndicatorColumns \cup {"reference_index"} : s = CreateOne(n)
           \/ s = FillReferences
      [] r = "upstream_options"    -> s.do = "insert" /\ s.where = "options"
      [] r = "mapping_identity"    -> s \in {Drop("source_key_index"), CreateOne("identity_index")}
      [] r = "freq_capacity"       -> s = Alter("push_width", "wide")
      [] r = "hot_keywords"        -> 
           \/ s = CreateOne("keyword_table")
           \/ s.do = "insert" /\ s.where = "words"
      [] r = "field_filter"        -> s = CreateOne("field_index")
      [] r = "rag_config"          -> s \in {Insert("rag", "rag"), Refuse}

\* The objects and the rows a revision writes ...
Objects(r) ==
    CASE r = "asset_filter"        -> {"filter_index"}
      [] r = "open_modules"        -> OpenTables \cup LineageColumns
                                        \cup {"push_width", "code_default", "code_check", "lineage_index"}
      [] r = "ingestion_identity"  -> AssetColumns \cup LineageColumns
                                        \cup {"asset_by_identity", "asset_by_name"}
      [] r = "rbac"                -> RbacTables \cup {"grant_index"}
      [] r = "upstream_id"         -> {"mapping_source", "mapping_upstream", "source_key_index"}
      [] r = "binary_status"       -> {"code_check", "code_default"}
      [] r = "indicator_semantics" -> IndicatorColumns \cup {"reference_index"}
      [] r = "upstream_options"    -> {}
      [] r = "mapping_identity"    -> {"source_key_index", "identity_index"}
      [] r = "freq_capacity"       -> {"push_width"}
      [] r = "hot_keywords"        -> {"keyword_table"}
      [] r = "field_filter"        -> {"field_index"}
      [] r = "rag_config"          -> {}

Rows(r) ==
    CASE r = "open_modules"        -> {"statuses"}
      [] r = "upstream_id"         -> {"mappings"}
      [] r = "binary_status"       -> {"statuses"}
      [] r = "indicator_semantics" -> {"references"}
      [] r = "upstream_options"    -> {"options"}
      [] r = "hot_keywords"        -> {"words"}
      [] r = "rag_config"          -> {"rag"}
      [] OTHER                     -> {}

\* ... and those its inspection reads.
ReadObjects(r) ==
    CASE r = "asset_filter"        -> {"filter_index"}
      [] r = "open_modules"        -> OpenTables
      [] r = "ingestion_identity"  -> AssetColumns \cup LineageColumns
                                        \cup {"asset_by_identity", "asset_by_name", "lineage"}
      [] r = "rbac"                -> RbacTables \cup {"grant_index"}
      [] r = "upstream_id"         -> {"mapping_upstream", "source_key_index", "identity_index",
                                       "upstream_system"}
      [] r = "binary_status"       -> {"code_table", "code_check", "code_default"}
      [] r = "indicator_semantics" -> IndicatorColumns \cup {"reference_index"}
      [] r = "upstream_options"    -> {}
      [] r = "mapping_identity"    -> {"source_key_index", "identity_index", "other_source_key"}
      [] r = "freq_capacity"       -> {"push_width"}
      [] r = "hot_keywords"        -> {"keyword_table"}
      [] r = "field_filter"        -> {"field_index"}
      [] r = "rag_config"          -> {}

ReadRows(r) ==
    CASE r = "upstream_id"         -> {"mappings", "systems"}
      [] r = "binary_status"       -> {"statuses"}
      [] r = "indicator_semantics" -> {"references"}
      [] r = "upstream_options"    -> {"options"}
      [] r = "hot_keywords"        -> {"words"}
      [] r = "rag_config"          -> {"rag"}
      [] OTHER                     -> {}

\* Two databases have the same objects of these names, and the same of these rows.
SameObject(d, e, n) ==
    /\ Has(e, n) <=> Has(d, n)
    /\ Has(d, n) => e.schema[n] = d.schema[n]

Same(d, e, names, parts) ==
    /\ \A n \in names : SameObject(d, e, n)
    /\ \A p \in parts : e[p] = d[p]

\* They differ at most in what the revision writes.
Differ(r, d, e) ==
    /\ \A n \in (DOMAIN d.schema \cup DOMAIN e.schema) \ Objects(r) : SameObject(d, e, n)
    /\ \A p \in Parts : p = "schema" \/ p \in Rows(r) \/ e[p] = d[p]

-----------------------------------------------------------------------------
(* The inductive invariants                                                *)

Current == Chain[ledger + 1]

\* The statements still to issue are a list, of the revision under way.
TodoInPlace ==
    /\ IsList(todo)
    /\ stage \notin {"baseline", "run"} => todo = << >>
    /\ stage = "baseline" => \A s \in ToSet(todo) : OfBaseline(s)
    /\ stage = "run" => \A s \in ToSet(todo) : Of(Current, s)

StageInPlace ==
    /\ stage \in {"off", "baseline", "next", "apply", "run", "stamp", "commit", "rbac", "menus", "done"}
    /\ ledger \in {None} \cup 0 .. HeadRevision
    /\ ledger = None => stage \in {"off", "baseline", "stamp", "commit"}
    /\ stage = "baseline" => ledger = None
    /\ stage \in {"apply", "run", "stamp", "commit"} => ledger # HeadRevision

\* No row is lost between what is committed and what the runner sees.
Survive(d, e) ==
    /\ \A r \in DOMAIN d.mappings :
          r \in DOMAIN e.mappings /\ d.mappings[r].upstream \in {None, e.mappings[r].upstream}
    /\ \A i \in DOMAIN d.references :
          /\ i \in DOMAIN e.references
          /\ d.references[i].asset \in {None, e.references[i].asset}
          /\ d.references[i].field \in {None, e.references[i].field}
    /\ \A c \in DOMAIN d.statuses :
          /\ c \in DOMAIN e.statuses
          /\ << d.statuses[c], e.statuses[c] >> \in
                {<< "active", "enabled" >>, << "draft", "disabled" >>,
                 << d.statuses[c], d.statuses[c] >>}
    /\ \A p \in {"options", "words", "roles", "menus"} :
          DOMAIN d[p] \subseteq DOMAIN e[p] /\ Kept(d[p], e[p])
    /\ d.rag \in {"absent", e.rag}

RunInv ==
    /\ IsDatabase(db) /\ IsDatabase(work)
    /\ StageInPlace /\ TodoInPlace
    /\ Survive(db, work)
    /\ touched \subseteq {About[w] : w \in DOMAIN About}

\* A revision is still in place, or others have changed it ...
Stands(k, d) == Chain[k] \in touched \/ Inspect(Chain[k], d) = "applied"

\* ... but the second last index of the mappings goes before the last one comes.
Between(d) ==
    /\ Is(d, "mapping_upstream", "not_null") /\ Has(d, "upstream_system")
    /\ HasNone(d, {"source_key_index", "identity_index"})

Stamped(d, between) ==
    ledger # None =>
      \A k \in 1 .. ledger :
         \/ Stands(k, d)
         \/ k = 5 /\ ledger = 8 /\ between /\ Between(d)

LedgerInv ==
    /\ Stamped(db, ddlCommits)
    /\ Stamped(work, TRUE)
    /\ stage \in {"apply", "run"} /\ ledger = 8 /\ Has(work, "identity_index") =>
          Is(work, "identity_index", "right")
    /\ stage \in {"stamp", "commit"} /\ ledger # None => Stands(ledger + 1, work)

\* Nobody interferes, and the plan was made.
Quiet == touched = {} /\ ~ddlCommits /\ Len(plan) = HeadRevision

\* The plan still says what is found.
Foretold(k) ==
    /\ plan[k] \in {"adopt", "apply", "conflict", "pending"}
    /\ plan[k] = "adopt" => Inspect(Chain[k], db) = "applied"
    /\ plan[k] = "apply" => Inspect(Chain[k], db) = "not_applied"
    /\ plan[k] = "conflict" => /\ Inspect(Chain[k], db) = "conflict"
                               /\ \A j \in ledger + 1 .. k - 1 : plan[j] \in {"adopt", "conflict"}
    /\ results[k] = "none"

ToldTrue(k) ==
    /\ plan[k] \in {"done", "adopt", "apply", "pending"}
    /\ results[k] # "none" => plan[k] \in {results[k], "pending"}

Issued(s, q) == s \in ToSet(q)

\* The object is as it should be, or is still to be made.
Coming(d, n, q) == Is(d, n, "right") \/ Issued(CreateOne(n), q)

\* The statements left, on the database as they find it, lead to the revision.
Toward(r, d, q) ==
    CASE r = "asset_filter"        -> Coming(d, "filter_index", q)
      [] r = "open_modules"        ->
           \A k \in 1 .. 4 : Has(d, OpenFragments[k].name) \/ Issued(Create(OpenFragments[k]), q)
      [] r = "ingestion_identity"  ->
           /\ Has(d, "lineage")
           /\ \A n \in AssetColumns \cup LineageColumns \cup {"asset_by_identity"} :
                 Has(d, n) \/ Issued(CreateOne(n), q)
           /\ Has(d, "asset_by_name") => Issued(Drop("asset_by_name"), q)
      [] r = "rbac"                -> \A n \in RbacTables \cup {"grant_index"} : Coming(d, n, q)
      [] r = "upstream_id"         ->
           \/ Issued(Refuse, q)
           \/ /\ Has(d, "upstream_system")
              /\ Has(d, "source_key_index") => Is(d, "source_key_index", "right")
              /\ Is(d, "mapping_upstream", "not_null") \/ Issued(Alter("mapping_upstream", "not_null"), q)
              /\ Is(d, "identity_index", "right") \/ Coming(d, "source_key_index", q)
      [] r = "binary_status"       ->
           /\ Has(d, "code_table")
           /\ \A c \in DOMAIN d.statuses :
                 /\ d.statuses[c] # "other"
                 /\ d.statuses[c] = "active" => Issued(Rewrite("active", "enabled"), q)
                 /\ d.statuses[c] = "draft" => Issued(Rewrite("draft", "disabled"), q)
           /\ Is(d, "code_default", "enabled") \/ Issued(Alter("code_default", "enabled"), q)
           /\ Is(d, "code_check", "binary") \/ Issued(CreateCheck, q)
           /\ Issued(Drop("code_check"), q) =>
                 /\ q[1] = Drop("code_check") /\ ~Issued(Drop("code_check"), Tail(q))
                 /\ Issued(CreateCheck, q)
      [] r = "indicator_semantics" ->
           /\ \A n \in IndicatorColumns : Has(d, n) \/ Issued(CreateOne(n), q)
           /\ Coming(d, "reference_index", q)
           /\ \A i \in DOMAIN d.references : Resolved(d, i) = d.references[i] \/ Issued(FillReferences, q)
      [] r = "upstream_options"    -> \A k \in Missing(d.options) : Issued(Insert("options", k), q)
      [] r = "mapping_identity"    ->
           /\ ~Has(d, "other_source_key")
           /\ Has(d, "source_key_index") => Issued(Drop("source_key_index"), q)
           /\ Coming(d, "identity_index", q)
      [] r = "freq_capacity"       -> Is(d, "push_width", "wide") \/ Issued(Alter("push_width", "wide"), q)
      [] r = "hot_keywords"        ->
           \/ /\ Is(d, "keyword_table", "right")
              /\ \A k \in Missing(d.words) : Issued(Insert("words", k), q)
           \/ /\ q # << >> /\ q[1] = CreateOne("keyword_table")
              /\ \A k \in Keywords : Issued(Insert("words", k), q)
      [] r = "field_filter"        -> Coming(d, "field_index", q)
      [] r = "rag_config"          -> d.rag \in {"seeded", "tuned"} \/ Issued(Insert("rag", "rag"), q) \/ Issued(Refuse, q)

\* 0006 makes no index that 0010 does not expect.
IndexKept ==
    ledger = 4 /\ (Has(db, "identity_index") => Is(db, "identity_index", "right"))
      /\ (Has(db, "source_key_index") \/ Has(db, "identity_index")) =>
    SameObject(db, work, "source_key_index") /\ (stage = "run" => ~Issued(CreateOne("source_key_index"), todo))

Tells ==
    \A k \in 1 .. HeadRevision : IF k <= ledger THEN ToldTrue(k) ELSE Foretold(k)

\* The column 0006 is about is there.
Mapped(d) == Has(d, "mapping_upstream") /\ d.schema["mapping_upstream"] \in {"null", "not_null"}

\* What the runner sees is what is committed, but for the revision under way.
RunsAsPlanned ==
    /\ stage \notin {"run", "stamp", "commit"} => work = db
    /\ stage = "apply" => /\ how = "apply" /\ looked = db.schema
                          /\ Inspect(Current, db) = "not_applied"
    /\ stage \in {"run", "stamp", "commit"} =>
          \/ how = "adopt" /\ stage # "run" /\ work = db /\ Inspect(Current, db) = "applied"
          \/ /\ how = "apply" /\ Inspect(Current, db) = "not_applied"
             /\ Differ(Current, db, work) /\ IndexKept
    /\ stage = "run" => Toward(Current, work, todo)

FailsAsPlanned ==
    failed[1] \in {"conflict", "error", "unconfirmed"} =>
       failed[2] \in 1 .. HeadRevision /\ plan[failed[2]] \in {"conflict", "pending"}

PlanInv ==
    Quiet =>
      /\ ledger # None /\ DOMAIN results = 1 .. HeadRevision
      /\ Mapped(db) /\ Tells /\ RunsAsPlanned /\ FailsAsPlanned
-----------------------------------------------------------------------------
(* Lists of statements                                                      *)

LEMMA ListIs ==
    ASSUME NEW q, IsList(q)
    PROVE  /\ Len(q) \in Nat /\ DOMAIN q = 1 .. Len(q)
           /\ \A x : x \in ToSet(q) <=> \E i \in 1 .. Len(q) : x = q[i]
<1>1. Len(q) \in Nat /\ DOMAIN q = 1 .. Len(q)
    BY LenProperties DEF IsList
<1> QED BY <1>1 DEF ToSet

LEMMA ListOfAny ==
    ASSUME NEW S, NEW q \in Seq(S)
    PROVE  IsList(q) /\ ToSet(q) \subseteq S
<1>1. /\ Len(q) \in Nat /\ q \in [1 .. Len(q) -> S] /\ DOMAIN q = 1 .. Len(q)
    BY LenProperties
<1>2. \A x : x \in ToSet(q) <=> \E i \in 1 .. Len(q) : x = q[i]
    BY <1>1 DEF ToSet
<1> DEFINE T == ToSet(q)
<1>3. \A i \in 1 .. Len(q) : q[i] \in T
    BY <1>2
<1> HIDE DEF T
<1>4. q \in [1 .. Len(q) -> T]
    BY <1>1, <1>3
<1>5. q \in Seq(T)
    BY <1>1, <1>4, SeqDef
<1>6. T \subseteq S
    BY <1>1, <1>2 DEF T
<1> QED BY <1>5, <1>6 DEF IsList, T

LEMMA NoList == IsList(<< >>) /\ ToSet(<< >>) = {}
BY DEF IsList, ToSet

LEMMA OneAndTwo ==
    ASSUME NEW x, NEW y, NEW z
    PROVE  /\ IsList(<< x >>) /\ ToSet(<< x >>) = {x}
           /\ IsList(<< x, y >>) /\ ToSet(<< x, y >>) = {x, y}
           /\ IsList(<< x, y, z >>) /\ ToSet(<< x, y, z >>) = {x, y, z}
<1>1. /\ ToSet(<< x >>) = {x} /\ ToSet(<< x, y >>) = {x, y} /\ ToSet(<< x, y, z >>) = {x, y, z}
    BY DEF ToSet
<1> QED BY <1>1 DEF IsList

LEMMA Joined ==
    ASSUME NEW a, NEW b, IsList(a), IsList(b)
    PROVE  /\ IsList(a \o b) /\ ToSet(a \o b) = ToSet(a) \cup ToSet(b)
           /\ a # << >> => a \o b # << >> /\ (a \o b)[1] = a[1]
<1> DEFINE S == ToSet(a) \cup ToSet(b)
           c == a \o b
<1>1. ToSet(a) \subseteq S /\ ToSet(b) \subseteq S
    OBVIOUS
<1>2. /\ Len(a) \in Nat /\ \A x : x \in ToSet(a) <=> \E i \in 1 .. Len(a) : x = a[i]
      /\ Len(b) \in Nat /\ \A x : x \in ToSet(b) <=> \E i \in 1 .. Len(b) : x = b[i]
    BY ListIs
<1> HIDE DEF S
<1>3. a \in Seq(S) /\ b \in Seq(S)
    BY <1>1, SeqMonotonic DEF IsList
<1>4. /\ c \in Seq(S) /\ Len(c) = Len(a) + Len(b)
      /\ \A i \in 1 .. Len(a) + Len(b) :
            c[i] = IF i <= Len(a) THEN a[i] ELSE b[i - Len(a)]
    BY <1>3, ConcatProperties
<1> HIDE DEF c
<1>5. IsList(c) /\ ToSet(c) \subseteq S
    BY <1>4, ListOfAny
<1>6. \A x : x \in ToSet(c) <=> \E i \in 1 .. Len(c) : x = c[i]
    BY <1>5, ListIs
<1>7. ASSUME NEW i \in 1 .. Len(a) PROVE a[i] \in ToSet(c)
    <2>1. i \in 1 .. Len(c) /\ c[i] = a[i]
        BY <1>2, <1>4
    <2> QED BY <1>6, <2>1
<1>8. ASSUME NEW i \in 1 .. Len(b) PROVE b[i] \in ToSet(c)
    <2> DEFINE k == i + Len(a)
    <2>1. k \in 1 .. Len(a) + Len(b) /\ ~(k <= Len(a)) /\ k - Len(a) = i
        BY <1>2
    <2> HIDE DEF k
    <2>2. k \in 1 .. Len(c) /\ c[k] = b[k - Len(a)]
        BY <1>4, <2>1
    <2>3. c[k] = b[i]
        BY <2>1, <2>2
    <2> QED BY <1>6, <2>2, <2>3
<1>9. ToSet(a) \subseteq ToSet(c) /\ ToSet(b) \subseteq ToSet(c)
    BY <1>2, <1>7, <1>8
<1>10. ASSUME a # << >> PROVE c # << >> /\ c[1] = a[1]
    <2>1. Len(a) \in Nat \ {0}
        BY <1>3, <1>10, EmptySeq
    <2>2. 1 \in 1 .. Len(a) + Len(b) /\ 1 <= Len(a) /\ Len(c) # 0
        BY <1>2, <1>4, <2>1
    <2> QED BY <1>4, <2>2, EmptySeq
<1> QED BY <1>5, <1>9, <1>10 DEF S, c

LEMMA Rest ==
    ASSUME NEW q, IsList(q), q # << >>
    PROVE  /\ IsList(Tail(q)) /\ q[1] \in ToSet(q)
           /\ ToSet(q) = {q[1]} \cup ToSet(Tail(q))
<1> DEFINE S == ToSet(q)
           t == Tail(q)
<1>1. q \in Seq(S)
    BY DEF IsList
<1>2. /\ Len(q) \in Nat /\ \A x : x \in S <=> \E i \in 1 .. Len(q) : x = q[i]
    BY ListIs
<1> HIDE DEF S
<1>3. /\ t \in Seq(S) /\ Len(t) = Len(q) - 1
      /\ \A i \in 1 .. Len(t) : t[i] = q[i + 1]
    BY <1>1, HeadTailProperties
<1>4. Len(q) \in Nat \ {0}
    BY <1>1, EmptySeq
<1> HIDE DEF t
<1>5. IsList(t) /\ ToSet(t) \subseteq S
    BY <1>3, ListOfAny
<1>6. \A x : x \in ToSet(t) <=> \E i \in 1 .. Len(t) : x = t[i]
    BY <1>5, ListIs
<1>7. 1 \in 1 .. Len(q)
    BY <1>4
<1>8. q[1] \in S
    BY <1>2, <1>7
<1>9. ASSUME NEW i \in 1 .. Len(q), i # 1 PROVE q[i] \in ToSet(t)
    <2> DEFINE k == i - 1
    <2>1. k \in 1 .. Len(t) /\ k + 1 = i
        BY <1>2, <1>3, <1>9
    <2> HIDE DEF k
    <2>2. t[k] = q[i]
        BY <1>3, <2>1
    <2> QED BY <1>6, <2>1, <2>2
<1>10. S \subseteq {q[1]} \cup ToSet(t)
    BY <1>2, <1>9
<1> QED BY <1>5, <1>8, <1>10 DEF S, t

\* The list of a set's elements has each of them.
LEMMA ElementsOf ==
    ASSUME NEW S, IsFiniteSet(S)
    PROVE  IsList(SetToSeq(S)) /\ ToSet(SetToSeq(S)) = S
<1> DEFINE n == Cardinality(S)
           f == SetToSeq(S)
<1>1. n \in Nat /\ \E g \in [1 .. n -> S] : IsInjective(g)
    BY FS_CardinalityType DEF ExistsBijection, Bijection, Injection
<1>2. f \in [1 .. n -> S] /\ IsInjective(f)
    BY <1>1 DEF SetToSeq
<1> HIDE DEF f
<1>3. f \in Injection(1 .. n, S)
    BY <1>2 DEF Injection
<1>4. IsFiniteSet(1 .. n) /\ Cardinality(1 .. n) = n
    BY <1>1, FS_Interval
<1>5. f \in Surjection(1 .. n, S)
    BY <1>3, <1>4, FS_Injection
<1> HIDE DEF n
<1>6. \A x \in S : \E i \in 1 .. n : f[i] = x
    BY <1>5 DEF Surjection
<1>7. f \in Seq(S)
    BY <1>1, <1>2, SeqDef
<1>8. IsList(f) /\ ToSet(f) \subseteq S
    BY <1>7, ListOfAny
<1>9. S \subseteq ToSet(f)
    BY <1>2, <1>6 DEF ToSet
<1> QED BY <1>8, <1>9 DEF f

\* One statement for each element of a set.
LEMMA OneForEach ==
    ASSUME NEW S, IsFiniteSet(S), NEW g, NEW T, NEW f \in [DOMAIN SetToSeq(S) -> T],
           \A k \in DOMAIN SetToSeq(S) : f[k] = g[SetToSeq(S)[k]]
    PROVE  IsList(f) /\ \A s : s \in ToSet(f) <=> \E x \in S : s = g[x]
<1>1. PICK o : o = SetToSeq(S)
    OBVIOUS
<1>2. IsList(o) /\ ToSet(o) = S
    BY <1>1, ElementsOf
<1>3. /\ Len(o) \in Nat /\ DOMAIN o = 1 .. Len(o)
      /\ \A x : x \in S <=> \E i \in 1 .. Len(o) : x = o[i]
    BY <1>2, ListIs
<1>4. f \in [1 .. Len(o) -> T] /\ \A k \in 1 .. Len(o) : f[k] = g[o[k]]
    BY <1>1, <1>3
<1>5. IsList(f)
    <2>1. f \in Seq(T)
        BY <1>3, <1>4, SeqDef
    <2> QED BY <2>1, ListOfAny
<1>6. \A s : s \in ToSet(f) <=> \E k \in 1 .. Len(o) : s = g[o[k]]
    BY <1>4 DEF ToSet
<1> QED BY <1>3, <1>5, <1>6

-----------------------------------------------------------------------------
(* The chain of revisions                                                   *)

LEMMA ChainIs ==
    /\ HeadRevision = 13
    /\ Chain[1] = "asset_filter" /\ Chain[2] = "open_modules"
    /\ Chain[3] = "ingestion_identity" /\ Chain[4] = "rbac"
    /\ Chain[5] = "upstream_id" /\ Chain[6] = "binary_status"
    /\ Chain[7] = "indicator_semantics" /\ Chain[8] = "upstream_options"
    /\ Chain[9] = "mapping_identity" /\ Chain[10] = "freq_capacity"
    /\ Chain[11] = "hot_keywords" /\ Chain[12] = "field_filter"
    /\ Chain[13] = "rag_config"
BY DEF Chain, HeadRevision

LEMMA Thirteen ==
    ASSUME NEW k \in 1 .. HeadRevision
    PROVE  k \in {1, 2, 3, 4, 5, 6, 7, 8, 9, 10, 11, 12, 13}
BY ChainIs

LEMMA RevisionNames ==
    /\ \A r \in Revisions :
          r \in {"asset_filter", "open_modules", "ingestion_identity", "rbac", "upstream_id",
                 "binary_status", "indicator_semantics", "upstream_options",
                 "mapping_identity", "freq_capacity", "hot_keywords", "field_filter",
                 "rag_config"}
    /\ \A k \in 1 .. HeadRevision : Chain[k] \in Revisions
BY ChainIs, Thirteen DEF Revisions

LEMMA EachOnce ==
    ASSUME NEW j \in 1 .. HeadRevision, NEW k \in 1 .. HeadRevision, Chain[j] = Chain[k]
    PROVE  j = k
BY ChainIs, Thirteen

\* What an inspection reads no other revision writes, but for the mappings'
\* index and what 0003 creates with its tables.
LEMMA RevisionsApart ==
    ASSUME NEW k \in 1 .. HeadRevision, NEW j \in 1 .. HeadRevision, j # k,
           j # 2 \/ k \notin {3, 5, 6, 10}, << j, k >> \notin {<< 5, 9 >>, << 9, 5 >>}
    PROVE  /\ ReadObjects(Chain[k]) \cap Objects(Chain[j]) = {}
           /\ ReadRows(Chain[k]) \cap Rows(Chain[j]) = {}
<1> DEFINE Apart(r, s) == /\ ReadObjects(r) \cap Objects(s) = {}
                          /\ ReadRows(r) \cap Rows(s) = {}
<1>1. \A s \in Revisions : Apart("asset_filter", s) \/ s = "asset_filter"
    BY RevisionNames DEF ReadObjects, Objects, ReadRows, Rows, OpenTables, LineageColumns,
                         AssetColumns, RbacTables, IndicatorColumns
<1>2. \A s \in Revisions : Apart("open_modules", s) \/ s \in {"open_modules"}
    BY RevisionNames DEF ReadObjects, Objects, ReadRows, Rows, OpenTables, LineageColumns,
                         AssetColumns, RbacTables, IndicatorColumns
<1>3. \A s \in Revisions : Apart("ingestion_identity", s)
                           \/ s \in {"open_modules", "ingestion_identity"}
    BY RevisionNames DEF ReadObjects, Objects, ReadRows, Rows, OpenTables, LineageColumns,
                         AssetColumns, RbacTables, IndicatorColumns
<1>4. \A s \in Revisions : Apart("rbac", s) \/ s = "rbac"
    BY RevisionNames DEF ReadObjects, Objects, ReadRows, Rows, OpenTables, LineageColumns,
                         AssetColumns, RbacTables, IndicatorColumns
<1>5. \A s \in Revisions : Apart("upstream_id", s)
                           \/ s \in {"open_modules", "upstream_id", "mapping_identity"}
    BY RevisionNames DEF ReadObjects, Objects, ReadRows, Rows, OpenTables, LineageColumns,
                         AssetColumns, RbacTables, IndicatorColumns
<1>6. \A s \in Revisions : Apart("binary_status", s)
                           \/ s \in {"open_modules", "binary_status"}
    BY RevisionNames DEF ReadObjects, Objects, ReadRows, Rows, OpenTables, LineageColumns,
                         AssetColumns, RbacTables, IndicatorColumns
<1>7. \A s \in Revisions : Apart("indicator_semantics", s) \/ s = "indicator_semantics"
    BY RevisionNames DEF ReadObjects, Objects, ReadRows, Rows, OpenTables, LineageColumns,
                         AssetColumns, RbacTables, IndicatorColumns
<1>8. \A s \in Revisions : Apart("upstream_options", s) \/ s = "upstream_options"
    BY RevisionNames DEF ReadObjects, Objects, ReadRows, Rows, OpenTables, LineageColumns,
                         AssetColumns, RbacTables, IndicatorColumns
<1>9. \A s \in Revisions : Apart("mapping_identity", s)
                           \/ s \in {"upstream_id", "mapping_identity"}
    BY RevisionNames DEF ReadObjects, Objects, ReadRows, Rows, OpenTables, LineageColumns,
                         AssetColumns, RbacTables, IndicatorColumns
<1>10. \A s \in Revisions : Apart("freq_capacity", s)
                            \/ s \in {"open_modules", "freq_capacity"}
    BY RevisionNames DEF ReadObjects, Objects, ReadRows, Rows, OpenTables, LineageColumns,
                         AssetColumns, RbacTables, IndicatorColumns
<1>11. \A s \in Revisions : Apart("hot_keywords", s) \/ s = "hot_keywords"
    BY RevisionNames DEF ReadObjects, Objects, ReadRows, Rows, OpenTables, LineageColumns,
                         AssetColumns, RbacTables, IndicatorColumns
<1>12. \A s \in Revisions : Apart("field_filter", s) \/ s = "field_filter"
    BY RevisionNames DEF ReadObjects, Objects, ReadRows, Rows, OpenTables, LineageColumns,
                         AssetColumns, RbacTables, IndicatorColumns
<1>13. \A s \in Revisions : Apart("rag_config", s) \/ s = "rag_config"
    BY RevisionNames DEF ReadObjects, Objects, ReadRows, Rows, OpenTables, LineageColumns,
                         AssetColumns, RbacTables, IndicatorColumns
<1> HIDE DEF Apart
<1>14. Apart(Chain[k], Chain[j])
    BY <1>1, <1>2, <1>3, <1>4, <1>5, <1>6, <1>7, <1>8, <1>9, <1>10, <1>11, <1>12, <1>13,
       ChainIs, Thirteen, RevisionNames
<1> QED BY <1>14 DEF Apart

-----------------------------------------------------------------------------
(* What an inspection depends on                                            *)

LEMMA SameSchema ==
    ASSUME NEW d, NEW e, NEW names, NEW parts, Same(d, e, names, parts)
    PROVE  /\ \A n \in names : Has(e, n) <=> Has(d, n)
           /\ \A n \in names : \A definition : Is(e, n, definition) <=> Is(d, n, definition)
           /\ \A part \in SUBSET names : /\ HasAll(e, part) <=> HasAll(d, part)
                                         /\ HasNone(e, part) <=> HasNone(d, part)
<1>1. \A n \in names : SameObject(d, e, n)
    BY DEF Same
<1>2. \A n \in names : Has(e, n) <=> Has(d, n)
    BY <1>1 DEF SameObject
<1>3. \A n \in names : \A definition : Is(e, n, definition) <=> Is(d, n, definition)
    BY <1>1 DEF SameObject, Is
<1>4. \A part \in SUBSET names : HasAll(e, part) <=> HasAll(d, part)
    BY <1>2 DEF Has, HasAll
<1>5. \A part \in SUBSET names : HasNone(e, part) <=> HasNone(d, part)
    BY <1>2 DEF Has, HasNone
<1> QED BY <1>2, <1>3, <1>4, <1>5

LEMMA SameMappings ==
    ASSUME NEW d, NEW e, e.mappings = d.mappings, e.systems = d.systems
    PROVE  Unsafe(e) = Unsafe(d) /\ (Duplicated(e) <=> Duplicated(d))
<1>1. \A x : Candidates(e, x) = Candidates(d, x)
    BY DEF Candidates
<1>2. \A r : Planned(e, r) = Planned(d, r)
    BY <1>1 DEF Planned
<1>3. Duplicated(e) <=> Duplicated(d)
    BY <1>2 DEF Duplicated
<1>4. Unsafe(e) = Unsafe(d)
    BY <1>1 DEF Unsafe
<1> QED BY <1>3, <1>4

LEMMA InspectionReads ==
    ASSUME NEW r \in Revisions, NEW d, NEW e, Same(d, e, ReadObjects(r), ReadRows(r))
    PROVE  Inspect(r, e) = Inspect(r, d)
<1> DEFINE O == ReadObjects(r)
<1>1. /\ \A n \in O : Has(e, n) <=> Has(d, n)
      /\ \A n \in O : \A definition : Is(e, n, definition) <=> Is(d, n, definition)
      /\ \A part \in SUBSET O : /\ HasAll(e, part) <=> HasAll(d, part)
                                /\ HasNone(e, part) <=> HasNone(d, part)
      /\ \A p \in ReadRows(r) : e[p] = d[p]
    <2>1. \A p \in ReadRows(r) : e[p] = d[p]
        BY DEF Same
    <2> QED BY <2>1, SameSchema
<1>2. CASE r = "asset_filter"
    <2>1. "filter_index" \in O
        BY <1>2 DEF ReadObjects
    <2> QED BY <1>1, <1>2, <2>1 DEF Inspect, InspectAssetFilter, Found
<1>3. CASE r = "open_modules"
    <2>1. OpenTables \in SUBSET O
        BY <1>3 DEF ReadObjects
    <2> QED BY <1>1, <1>3, <2>1 DEF Inspect, InspectOpenModules, Found
<1>4. CASE r = "ingestion_identity"
    <2>1. AssetColumns \in SUBSET O /\ LineageColumns \in SUBSET O
          /\ {"asset_by_identity", "asset_by_name", "lineage"} \subseteq O
        BY <1>4 DEF ReadObjects
    <2> QED BY <1>1, <1>4, <2>1 DEF Inspect, InspectIngestionIdentity
<1>5. CASE r = "rbac"
    <2>1. RbacTables \in SUBSET O /\ "grant_index" \in O
        BY <1>5 DEF ReadObjects
    <2> QED BY <1>1, <1>5, <2>1 DEF Inspect, InspectRbac
<1>6. CASE r = "upstream_id"
    <2>1. {"mapping_upstream", "source_key_index", "identity_index", "upstream_system"} \subseteq O
        BY <1>6 DEF ReadObjects
    <2>2. e.mappings = d.mappings /\ e.systems = d.systems
        BY <1>1, <1>6 DEF ReadRows
    <2>3. Unsafe(e) = Unsafe(d) /\ (Duplicated(e) <=> Duplicated(d))
        BY <2>2, SameMappings
    <2> QED BY <1>1, <1>6, <2>1, <2>3 DEF Inspect, InspectUpstreamId
<1>7. CASE r = "binary_status"
    <2>1. {"code_table", "code_check", "code_default"} \subseteq O
        BY <1>7 DEF ReadObjects
    <2>2. e.statuses = d.statuses
        BY <1>1, <1>7 DEF ReadRows
    <2> QED BY <1>1, <1>7, <2>1, <2>2 DEF Inspect, InspectBinaryStatus
<1>8. CASE r = "indicator_semantics"
    <2>1. IndicatorColumns \in SUBSET O /\ "reference_index" \in O
        BY <1>8 DEF ReadObjects
    <2>2. e.references = d.references
        BY <1>1, <1>8 DEF ReadRows
    <2>3. \A i : Resolved(e, i) = Resolved(d, i)
        BY <2>2 DEF Resolved
    <2> QED BY <1>1, <1>8, <2>1, <2>2, <2>3 DEF Inspect, InspectIndicatorSemantics
<1>9. CASE r = "upstream_options"
    <2>1. e.options = d.options
        BY <1>1, <1>9 DEF ReadRows
    <2> QED BY <1>9, <2>1 DEF Inspect, InspectUpstreamOptions
<1>10. CASE r = "mapping_identity"
    <2>1. {"source_key_index", "identity_index", "other_source_key"} \subseteq O
        BY <1>10 DEF ReadObjects
    <2> QED BY <1>1, <1>10, <2>1 DEF Inspect, InspectMappingIdentity
<1>11. CASE r = "freq_capacity"
    <2>1. "push_width" \in O
        BY <1>11 DEF ReadObjects
    <2>2. SameObject(d, e, "push_width")
        BY <2>1 DEF Same
    <2> QED BY <1>11, <2>2 DEF Inspect, InspectFreqCapacity, SameObject
<1>12. CASE r = "hot_keywords"
    <2>1. "keyword_table" \in O
        BY <1>12 DEF ReadObjects
    <2>2. e.words = d.words
        BY <1>1, <1>12 DEF ReadRows
    <2> QED BY <1>1, <1>12, <2>1, <2>2 DEF Inspect, InspectHotKeywords, Found
<1>13. CASE r = "field_filter"
    <2>1. "field_index" \in O
        BY <1>13 DEF ReadObjects
    <2> QED BY <1>1, <1>13, <2>1 DEF Inspect, InspectFieldFilter, Found
<1>14. CASE r = "rag_config"
    <2>1. e.rag = d.rag
        BY <1>1, <1>14 DEF ReadRows
    <2> QED BY <1>14, <2>1 DEF Inspect, InspectRagConfig
<1> QED
    BY <1>2, <1>3, <1>4, <1>5, <1>6, <1>7, <1>8, <1>9, <1>10, <1>11, <1>12, <1>13, <1>14,
       RevisionNames

LEMMA InspectionSays ==
    ASSUME NEW r \in Revisions, NEW d
    PROVE  Inspect(r, d) \in {"applied", "not_applied", "conflict", "error"}
BY RevisionNames
   DEF Inspect, Found, InspectAssetFilter, InspectOpenModules, InspectIngestionIdentity,
       InspectRbac, InspectUpstreamId, InspectBinaryStatus, InspectIndicatorSemantics,
       InspectUpstreamOptions, InspectMappingIdentity, InspectFreqCapacity,
       InspectHotKeywords, InspectFieldFilter, InspectRagConfig

\* A revision that writes nothing another reads leaves its inspection alone.
LEMMA OtherInspection ==
    ASSUME NEW k \in 1 .. HeadRevision, NEW j \in 1 .. HeadRevision, j # k,
           j # 2 \/ k \notin {3, 5, 6, 10}, << j, k >> \notin {<< 5, 9 >>, << 9, 5 >>},
           NEW d, NEW e, Differ(Chain[j], d, e)
    PROVE  Inspect(Chain[k], e) = Inspect(Chain[k], d)
<1> DEFINE O == ReadObjects(Chain[k])
           P == ReadRows(Chain[k])
<1>1. O \cap Objects(Chain[j]) = {} /\ P \cap Rows(Chain[j]) = {}
    BY RevisionsApart
<1>2. Chain[k] \in Revisions
    BY RevisionNames
<1>3. P \subseteq Parts \ {"schema"}
    BY <1>2, RevisionNames DEF ReadRows, Parts
<1> HIDE DEF O, P
<1>4. \A n \in O : SameObject(d, e, n)
    BY <1>1 DEF Differ, SameObject, Has
<1>5. \A p \in P : e[p] = d[p]
    BY <1>1, <1>3 DEF Differ
<1>6. Same(d, e, O, P)
    BY <1>4, <1>5 DEF Same
<1> QED BY <1>2, <1>6, InspectionReads DEF O, P

-----------------------------------------------------------------------------
(* What each statement does to a database                                   *)

LEMMA KeptAsIs ==
    /\ \A d, e : (\A p \in Parts \ {"schema"} : e[p] = d[p]) => Survive(d, e)
    /\ \A d : Survive(d, d)
BY DEF Survive, Kept, Parts

LEMMA CreateDoes ==
    ASSUME NEW d, IsDatabase(d), NEW s, OfBaseline(s), Accepts(d, s),
           NEW e, e = Executed(d, s)
    PROVE  /\ IsDatabase(e) /\ Survive(d, e)
           /\ \A n : Has(e, n) <=> Has(d, n) \/ n \in DOMAIN s.gives
           /\ \A n \in DOMAIN s.gives : e.schema[n] = s.gives[n]
           /\ \A n : Has(d, n) /\ n \notin DOMAIN s.gives => e.schema[n] = d.schema[n]
           /\ \A p \in Parts \ {"schema", "statuses", "words"} : e[p] = d[p]
           /\ s.name # "code_table" => e.statuses = d.statuses
           /\ s.name = "code_table" => DOMAIN e.statuses = {}
           /\ s.name # "keyword_table" => e.words = d.words
           /\ s.name = "keyword_table" => e.words = [k \in Keywords |-> "absent"]
           /\ ~Has(d, s.name)
<1>1. DOMAIN d = Parts /\ s.do = "create" /\ s.name \in DOMAIN s.gives /\ ~Has(d, s.name)
    BY DEF IsDatabase, OfBaseline, Accepts
<1>2. e = [d EXCEPT !.schema = Defining(d.schema, s.gives),
                    !.statuses = IF s.name = "code_table" THEN << >> ELSE d.statuses,
                    !.words = IF s.name = "keyword_table"
                              THEN [k \in Keywords |-> "absent"] ELSE d.words]
    BY <1>1 DEF Executed
<1>3. /\ DOMAIN e = Parts /\ e.schema = Defining(d.schema, s.gives)
      /\ e.statuses = IF s.name = "code_table" THEN << >> ELSE d.statuses
      /\ e.words = IF s.name = "keyword_table"
                     THEN [k \in Keywords |-> "absent"] ELSE d.words
      /\ \A p \in Parts \ {"schema", "statuses", "words"} : e[p] = d[p]
    BY <1>1, <1>2 DEF Parts
<1>4. /\ DOMAIN e.schema = DOMAIN d.schema \cup DOMAIN s.gives
      /\ \A n \in DOMAIN s.gives : e.schema[n] = s.gives[n]
      /\ \A n \in DOMAIN d.schema \ DOMAIN s.gives : e.schema[n] = d.schema[n]
    BY <1>3 DEF Defining
<1>5. \A n : Has(e, n) <=> Has(d, n) \/ n \in DOMAIN s.gives
    BY <1>4 DEF Has
<1>6. /\ e.mappings = d.mappings /\ e.references = d.references /\ e.options = d.options
      /\ e.roles = d.roles /\ e.menus = d.menus /\ e.rag = d.rag
    BY <1>3 DEF Parts
<1>7. DOMAIN << >> = {}
    OBVIOUS
<1>8. s.name = "code_table" => DOMAIN e.statuses = {} /\ DOMAIN d.statuses = {}
    BY <1>1, <1>3, <1>7 DEF IsDatabase
<1>9. s.name = "keyword_table" => DOMAIN d.words = {} /\ DOMAIN e.words = Keywords
    BY <1>1, <1>3 DEF IsDatabase
<1>10. IsFiniteSet(DOMAIN e.words)
    BY <1>3, <1>9, KeywordsAssumption DEF IsDatabase
<1>11. IsDatabase(e)
    <2>1. \A p \in {"mappings", "options", "words"} : IsFiniteSet(DOMAIN e[p])
        BY <1>6, <1>10 DEF IsDatabase
    <2>2. ~Has(e, "code_table") => DOMAIN e.statuses = {}
        BY <1>1, <1>3, <1>5 DEF IsDatabase
    <2>3. ~Has(e, "keyword_table") => DOMAIN e.words = {}
        BY <1>1, <1>3, <1>5 DEF IsDatabase
    <2>4. ~Has(e, "push_job") => ~Has(e, "push_width")
        BY <1>5 DEF IsDatabase, OfBaseline
    <2> QED BY <1>3, <1>6, <2>1, <2>2, <2>3, <2>4 DEF IsDatabase
<1>12. Survive(d, e)
    <2>1. \A c \in DOMAIN d.statuses : c \in DOMAIN e.statuses /\ e.statuses[c] = d.statuses[c]
        BY <1>3, <1>8
    <2>2. \A c \in DOMAIN d.words : c \in DOMAIN e.words /\ e.words[c] = d.words[c]
        BY <1>3, <1>9
    <2> QED BY <1>6, <2>1, <2>2 DEF Survive, Kept
<1> QED BY <1>1, <1>3, <1>4, <1>5, <1>8, <1>11, <1>12 DEF Has

LEMMA DropDoes ==
    ASSUME NEW d, IsDatabase(d), NEW n,
           n \notin {"code_table", "keyword_table", "push_job"},
           NEW e, e = Executed(d, Drop(n))
    PROVE  /\ IsDatabase(e) /\ Survive(d, e)
           /\ \A m : Has(e, m) <=> Has(d, m) /\ m # n
           /\ \A m : Has(e, m) => e.schema[m] = d.schema[m]
           /\ \A p \in Parts \ {"schema"} : e[p] = d[p]
<1>1. e = [d EXCEPT !.schema = [m \in DOMAIN d.schema \ {n} |-> d.schema[m]]]
    BY DEF Executed, Drop
<1>2. DOMAIN d = Parts
    BY DEF IsDatabase
<1>3. /\ DOMAIN e = Parts /\ e.schema = [m \in DOMAIN d.schema \ {n} |-> d.schema[m]]
      /\ \A p \in Parts \ {"schema"} : e[p] = d[p]
    BY <1>1, <1>2 DEF Parts
<1>4. /\ \A m : Has(e, m) <=> Has(d, m) /\ m # n
      /\ \A m : Has(e, m) => e.schema[m] = d.schema[m]
    BY <1>3 DEF Has
<1>5. Survive(d, e)
    BY <1>3, KeptAsIs
<1>6. IsDatabase(e)
    BY <1>3, <1>4 DEF IsDatabase, Parts
<1> QED BY <1>3, <1>4, <1>5, <1>6

LEMMA AlterDoes ==
    ASSUME NEW d, IsDatabase(d), NEW n, NEW to, Accepts(d, Alter(n, to)),
           n \notin {"code_table", "keyword_table", "push_job"},
           NEW e, e = Executed(d, Alter(n, to))
    PROVE  /\ IsDatabase(e) /\ Survive(d, e)
           /\ \A m : Has(e, m) <=> Has(d, m) \/ m = n
           /\ e.schema[n] = to
           /\ \A m : Has(d, m) /\ m # n => e.schema[m] = d.schema[m]
           /\ \A p \in Parts \ {"schema"} : e[p] = d[p]
<1>1. e = [d EXCEPT !.schema = Defining(d.schema, [m \in {n} |-> to])]
    BY DEF Executed, Alter
<1>2. DOMAIN d = Parts /\ (n # "code_default" => Has(d, n))
    BY DEF IsDatabase, Accepts, Alter
<1>3. /\ DOMAIN e = Parts /\ e.schema = Defining(d.schema, [m \in {n} |-> to])
      /\ \A p \in Parts \ {"schema"} : e[p] = d[p]
    BY <1>1, <1>2 DEF Parts
<1>4. /\ \A m : Has(e, m) <=> Has(d, m) \/ m = n
      /\ e.schema[n] = to
      /\ \A m : Has(d, m) /\ m # n => e.schema[m] = d.schema[m]
    BY <1>3 DEF Has, Defining
<1>5. Survive(d, e)
    BY <1>3, KeptAsIs
<1>6. IsDatabase(e)
    BY <1>2, <1>3, <1>4 DEF IsDatabase, Parts
<1> QED BY <1>3, <1>4, <1>5, <1>6

LEMMA AssignDoes ==
    ASSUME NEW d, IsDatabase(d), NEW s, s.do = "assign", NEW e, e = Executed(d, s)
    PROVE  /\ IsDatabase(e) /\ Survive(d, e)
           /\ \A p \in Parts \ {"mappings"} : e[p] = d[p]
<1>1. e = Assigned(d, s) /\ DOMAIN d = Parts
    BY DEF Executed, IsDatabase
<1>2. CASE d.mappings[s.row].upstream # None
    <2>1. e = d
        BY <1>1, <1>2 DEF Assigned
    <2> QED BY <2>1, KeptAsIs
<1>3. CASE d.mappings[s.row].upstream = None
    <2> DEFINE m == [d.mappings EXCEPT ![s.row].upstream = s.system]
    <2>1. e = [d EXCEPT !.mappings = m]
        BY <1>1, <1>3 DEF Assigned
    <2>2. /\ DOMAIN m = DOMAIN d.mappings
          /\ \A r \in DOMAIN d.mappings : r # s.row => m[r] = d.mappings[r]
          /\ s.row \in DOMAIN d.mappings =>
                m[s.row] = [d.mappings[s.row] EXCEPT !.upstream = s.system]
        OBVIOUS
    <2> HIDE DEF m
    <2>3. DOMAIN e = Parts /\ e.mappings = m /\ \A p \in Parts \ {"mappings"} : e[p] = d[p]
        BY <1>1, <2>1 DEF Parts
    <2>4. \A r \in DOMAIN d.mappings :
             DOMAIN m[r] = {"source", "upstream"} /\ d.mappings[r].upstream \in {None, m[r].upstream}
        BY <1>3, <2>2 DEF IsDatabase
    <2>5. /\ e.schema = d.schema /\ e.statuses = d.statuses /\ e.references = d.references
          /\ e.options = d.options /\ e.words = d.words /\ e.rag = d.rag
          /\ e.roles = d.roles /\ e.menus = d.menus
        BY <2>3 DEF Parts
    <2>6. IsDatabase(e)
        BY <2>2, <2>3, <2>4, <2>5 DEF IsDatabase, Has
    <2>7. Survive(d, e)
        BY <2>2, <2>3, <2>4, <2>5 DEF Survive, Kept
    <2> QED BY <2>3, <2>6, <2>7
<1> QED BY <1>2, <1>3

LEMMA RewriteDoes ==
    ASSUME NEW d, IsDatabase(d), NEW s,
           s \in {Rewrite("active", "enabled"), Rewrite("draft", "disabled")},
           NEW e, e = Executed(d, s)
    PROVE  /\ IsDatabase(e) /\ Survive(d, e)
           /\ DOMAIN e.statuses = DOMAIN d.statuses
           /\ \A c \in DOMAIN d.statuses :
                 e.statuses[c] = IF d.statuses[c] = s.old THEN s.new ELSE d.statuses[c]
           /\ \A p \in Parts \ {"statuses"} : e[p] = d[p]
<1>1. /\ e = [d EXCEPT !.statuses = [c \in DOMAIN d.statuses |->
                                       IF d.statuses[c] = s.old THEN s.new ELSE d.statuses[c]]]
      /\ << s.old, s.new >> \in {<< "active", "enabled" >>, << "draft", "disabled" >>}
    BY DEF Executed, Rewrite
<1>2. DOMAIN d = Parts
    BY DEF IsDatabase
<1>3. /\ DOMAIN e = Parts /\ DOMAIN e.statuses = DOMAIN d.statuses
      /\ \A c \in DOMAIN d.statuses :
            e.statuses[c] = IF d.statuses[c] = s.old THEN s.new ELSE d.statuses[c]
      /\ \A p \in Parts \ {"statuses"} : e[p] = d[p]
    BY <1>1, <1>2 DEF Parts
<1>4. /\ e.schema = d.schema /\ e.mappings = d.mappings /\ e.references = d.references
      /\ e.options = d.options /\ e.words = d.words /\ e.rag = d.rag
      /\ e.roles = d.roles /\ e.menus = d.menus
    BY <1>3 DEF Parts
<1>5. IsDatabase(e)
    BY <1>3, <1>4 DEF IsDatabase, Has
<1>6. \A c \in DOMAIN d.statuses :
         << d.statuses[c], e.statuses[c] >> \in
            {<< "active", "enabled" >>, << "draft", "disabled" >>,
             << d.statuses[c], d.statuses[c] >>}
    BY <1>1, <1>3
<1>7. Survive(d, e)
    BY <1>3, <1>4, <1>6 DEF Survive, Kept
<1> QED BY <1>3, <1>5, <1>7

LEMMA FillDoes ==
    ASSUME NEW d, IsDatabase(d), NEW e, e = Executed(d, FillReferences)
    PROVE  /\ IsDatabase(e) /\ Survive(d, e)
           /\ DOMAIN e.references = DOMAIN d.references
           /\ \A i \in DOMAIN d.references : e.references[i] = Resolved(d, i)
           /\ \A p \in Parts \ {"references"} : e[p] = d[p]
<1>1. e = [d EXCEPT !.references = [i \in DOMAIN d.references |-> Resolved(d, i)]]
    BY DEF Executed, FillReferences
<1>2. DOMAIN d = Parts
    BY DEF IsDatabase
<1>3. /\ DOMAIN e = Parts /\ DOMAIN e.references = DOMAIN d.references
      /\ \A i \in DOMAIN d.references : e.references[i] = Resolved(d, i)
      /\ \A p \in Parts \ {"references"} : e[p] = d[p]
    BY <1>1, <1>2 DEF Parts
<1>4. /\ e.schema = d.schema /\ e.mappings = d.mappings /\ e.statuses = d.statuses
      /\ e.options = d.options /\ e.words = d.words /\ e.rag = d.rag
      /\ e.roles = d.roles /\ e.menus = d.menus
    BY <1>3 DEF Parts
<1>5. \A i \in DOMAIN d.references :
         /\ DOMAIN e.references[i] = {"asset", "field"}
         /\ d.references[i].asset \in {None, e.references[i].asset}
         /\ d.references[i].field \in {None, e.references[i].field}
    <2>1. \A set, old : old \in {None, Only(set, old)}
        BY DEF Only
    <2>2. TAKE i \in DOMAIN d.references
    <2>3. PICK x : x = Resolved(d, i)
        OBVIOUS
    <2>4. DOMAIN x = {"asset", "field"} /\ d.references[i].asset \in {None, x.asset}
        BY <2>1, <2>3 DEF Resolved
    <2>5. d.references[i].field \in {None, x.field}
        BY <2>1, <2>3 DEF Resolved
    <2> QED BY <1>3, <2>3, <2>4, <2>5
<1>6. IsDatabase(e)
    BY <1>3, <1>4, <1>5 DEF IsDatabase, Has
<1>7. Survive(d, e)
    BY <1>3, <1>4, <1>5 DEF Survive, Kept
<1> QED BY <1>3, <1>6, <1>7

LEMMA InsertDoes ==
    ASSUME NEW d, IsDatabase(d), NEW s, s.do = "insert", s.where \in {"options", "words", "rag"},
           Accepts(d, s), NEW e, e = Executed(d, s)
    PROVE  /\ IsDatabase(e) /\ Survive(d, e)
           /\ s.where = "rag" => e.rag = "seeded"
           /\ s.where # "rag" =>
                /\ DOMAIN e[s.where] = DOMAIN d[s.where]
                /\ \A k \in DOMAIN d[s.where] :
                      e[s.where][k] = IF k = s.key THEN "seeded" ELSE d[s.where][k]
           /\ \A p \in Parts \ {s.where} : e[p] = d[p]
<1>1. DOMAIN d = Parts
    BY DEF IsDatabase
<1>2. CASE s.where = "rag"
    <2>1. e = [d EXCEPT !.rag = "seeded"] /\ d.rag = "absent"
        BY <1>2 DEF Executed, Accepts
    <2>2. DOMAIN e = Parts /\ e.rag = "seeded" /\ \A p \in Parts \ {"rag"} : e[p] = d[p]
        BY <1>1, <2>1 DEF Parts
    <2>3. /\ e.schema = d.schema /\ e.mappings = d.mappings /\ e.statuses = d.statuses
          /\ e.options = d.options /\ e.words = d.words /\ e.references = d.references
          /\ e.roles = d.roles /\ e.menus = d.menus
        BY <2>2 DEF Parts
    <2>4. IsDatabase(e) /\ Survive(d, e)
        BY <2>1, <2>2, <2>3 DEF IsDatabase, Has, Survive, Kept
    <2> QED BY <1>2, <2>2, <2>4
<1>3. CASE s.where \in {"options", "words"}
    <2> DEFINE rows == [d[s.where] EXCEPT ![s.key] = "seeded"]
    <2>1. e = [d EXCEPT ![s.where] = rows] /\ d[s.where][s.key] = "absent"
        BY <1>3 DEF Executed, Accepts
    <2>2. /\ DOMAIN rows = DOMAIN d[s.where]
          /\ \A k \in DOMAIN d[s.where] : rows[k] = IF k = s.key THEN "seeded" ELSE d[s.where][k]
        OBVIOUS
    <2> HIDE DEF rows
    <2>3. DOMAIN e = Parts /\ e[s.where] = rows /\ \A p \in Parts \ {s.where} : e[p] = d[p]
        BY <1>1, <1>3, <2>1 DEF Parts
    <2>4. /\ e.schema = d.schema /\ e.mappings = d.mappings /\ e.statuses = d.statuses
          /\ e.references = d.references /\ e.rag = d.rag
          /\ e.roles = d.roles /\ e.menus = d.menus
        BY <1>3, <2>3 DEF Parts
    <2>5. \A p \in {"options", "words"} : DOMAIN e[p] = DOMAIN d[p] /\ Kept(d[p], e[p])
        BY <1>3, <2>1, <2>2, <2>3 DEF Kept, Parts
    <2>6. IsDatabase(e)
        BY <2>3, <2>4, <2>5 DEF IsDatabase, Has
    <2>7. Survive(d, e)
        BY <2>4, <2>5 DEF Survive, Kept
    <2> QED BY <1>3, <2>2, <2>3, <2>6, <2>7
<1> QED BY <1>2, <1>3

-----------------------------------------------------------------------------
(* A revision writes its own objects and rows, and loses none               *)

LEMMA OneIs ==
    ASSUME NEW n
    PROVE  /\ CreateOne(n).do = "create" /\ CreateOne(n).name = n
           /\ DOMAIN CreateOne(n).gives = {n} /\ CreateOne(n).gives[n] = "right"
           /\ n # "push_width" => OfBaseline(CreateOne(n))
BY DEF CreateOne, Right, OfBaseline

LEMMA CheckIs ==
    /\ CreateCheck.do = "create" /\ CreateCheck.name = "code_check"
    /\ DOMAIN CreateCheck.gives = {"code_check"} /\ CreateCheck.gives["code_check"] = "binary"
    /\ OfBaseline(CreateCheck)
BY DEF CreateCheck, Create, OfBaseline

LEMMA FragmentIs ==
    ASSUME NEW k \in 1 .. 5, NEW s, s = Create(OpenFragments[k])
    PROVE  /\ OfBaseline(s) /\ s.do = "create"
           /\ DOMAIN s.gives \subseteq Objects("open_modules")
           /\ s.name # "keyword_table"
           /\ s.name = OpenFragments[k].name
<1>1. PICK g : g = OpenFragments[k]
    OBVIOUS
<1>2. k \in {1, 2, 3, 4, 5}
    OBVIOUS
<1>3. /\ g.name \in DOMAIN g.gives
      /\ "push_width" \in DOMAIN g.gives => "push_job" \in DOMAIN g.gives
      /\ DOMAIN g.gives \subseteq Objects("open_modules")
      /\ g.name # "keyword_table"
    <2>1. CASE k = 1
        BY <1>1, <2>1 DEF OpenFragments, Right, Objects, OpenTables, LineageColumns
    <2>2. CASE k = 2
        BY <1>1, <2>2 DEF OpenFragments, Right, Objects, OpenTables, LineageColumns
    <2>3. CASE k = 3
        BY <1>1, <2>3 DEF OpenFragments, Right, Objects, OpenTables, LineageColumns
    <2>4. CASE k = 4
        BY <1>1, <2>4 DEF OpenFragments, Right, Objects, OpenTables, LineageColumns
    <2>5. CASE k = 5
        BY <1>1, <2>5 DEF OpenFragments, Right, Objects, OpenTables, LineageColumns
    <2> QED BY <1>2, <2>1, <2>2, <2>3, <2>4, <2>5
<1>4. s.do = "create" /\ s.name = g.name /\ s.gives = g.gives
    BY <1>1 DEF Create
<1> QED BY <1>1, <1>3, <1>4 DEF OfBaseline

LEMMA CreateWrites ==
    ASSUME NEW r, NEW d, IsDatabase(d), NEW s, OfBaseline(s), Accepts(d, s),
           DOMAIN s.gives \subseteq Objects(r),
           s.name = "code_table" => "statuses" \in Rows(r),
           s.name = "keyword_table" => "words" \in Rows(r),
           NEW e, e = Executed(d, s)
    PROVE  IsDatabase(e) /\ Survive(d, e) /\ Differ(r, d, e)
<1>1. /\ IsDatabase(e) /\ Survive(d, e)
      /\ \A n : Has(e, n) <=> Has(d, n) \/ n \in DOMAIN s.gives
      /\ \A n : Has(d, n) /\ n \notin DOMAIN s.gives => e.schema[n] = d.schema[n]
      /\ \A p \in Parts \ {"schema", "statuses", "words"} : e[p] = d[p]
      /\ s.name # "code_table" => e.statuses = d.statuses
      /\ s.name # "keyword_table" => e.words = d.words
    BY CreateDoes
<1>2. \A n \in (DOMAIN d.schema \cup DOMAIN e.schema) \ Objects(r) : SameObject(d, e, n)
    BY <1>1 DEF SameObject
<1>3. \A p \in Parts : p = "schema" \/ p \in Rows(r) \/ e[p] = d[p]
    BY <1>1
<1> QED BY <1>1, <1>2, <1>3 DEF Differ

LEMMA OneWrites ==
    ASSUME NEW r, NEW d, IsDatabase(d), NEW n \in Objects(r), Accepts(d, CreateOne(n)),
           n \notin {"push_width", "code_table"}, n = "keyword_table" => "words" \in Rows(r),
           NEW e, e = Executed(d, CreateOne(n))
    PROVE  IsDatabase(e) /\ Survive(d, e) /\ Differ(r, d, e)
BY OneIs, CreateWrites

LEMMA DropWrites ==
    ASSUME NEW r, NEW d, IsDatabase(d), NEW n \in Objects(r),
           n \notin {"code_table", "keyword_table", "push_job"},
           NEW e, e = Executed(d, Drop(n))
    PROVE  IsDatabase(e) /\ Survive(d, e) /\ Differ(r, d, e)
<1>1. /\ IsDatabase(e) /\ Survive(d, e)
      /\ \A m : Has(e, m) <=> Has(d, m) /\ m # n
      /\ \A m : Has(e, m) => e.schema[m] = d.schema[m]
      /\ \A p \in Parts \ {"schema"} : e[p] = d[p]
    BY DropDoes
<1> QED BY <1>1 DEF Differ, SameObject

LEMMA AlterWrites ==
    ASSUME NEW r, NEW d, IsDatabase(d), NEW n \in Objects(r), NEW to, Accepts(d, Alter(n, to)),
           n \notin {"code_table", "keyword_table", "push_job"},
           NEW e, e = Executed(d, Alter(n, to))
    PROVE  IsDatabase(e) /\ Survive(d, e) /\ Differ(r, d, e)
<1>1. /\ IsDatabase(e) /\ Survive(d, e)
      /\ \A m : Has(e, m) <=> Has(d, m) \/ m = n
      /\ \A m : Has(d, m) /\ m # n => e.schema[m] = d.schema[m]
      /\ \A p \in Parts \ {"schema"} : e[p] = d[p]
    BY AlterDoes
<1> QED BY <1>1 DEF Differ, SameObject

LEMMA RowsWrites ==
    ASSUME NEW r, NEW d, NEW e, NEW part \in Rows(r), part # "schema",
           \A p \in Parts \ {part} : e[p] = d[p]
    PROVE  Differ(r, d, e)
<1>1. e.schema = d.schema
    BY DEF Parts
<1> QED BY <1>1 DEF Differ, SameObject, Has

LEMMA Footprint ==
    ASSUME NEW r \in Revisions, NEW d, IsDatabase(d), NEW s, Of(r, s), Accepts(d, s),
           NEW e, e = Executed(d, s)
    PROVE  IsDatabase(e) /\ Survive(d, e) /\ Differ(r, d, e)
<1>5. CASE r = "asset_filter"
    BY OneWrites, <1>5 DEF Of, Objects
<1>6. CASE r = "open_modules"
    <2>1. PICK k \in 1 .. 5 : s = Create(OpenFragments[k])
        BY <1>6 DEF Of
    <2>2. /\ OfBaseline(s) /\ DOMAIN s.gives \subseteq Objects(r) /\ s.name # "keyword_table"
        BY <1>6, <2>1, FragmentIs
    <2>3. "statuses" \in Rows(r)
        BY <1>6 DEF Rows
    <2> QED BY <2>2, <2>3, CreateWrites
<1>7. CASE r = "ingestion_identity"
    <2>1. CASE s = Drop("asset_by_name")
        BY DropWrites, <1>7, <2>1 DEF Objects
    <2>2. CASE \E n \in AssetColumns \cup LineageColumns \cup {"asset_by_identity"} : s = CreateOne(n)
        BY OneWrites, <1>7, <2>2 DEF Objects, AssetColumns, LineageColumns
    <2> QED BY <1>7, <2>1, <2>2 DEF Of
<1>8. CASE r = "rbac"
    BY OneWrites, <1>8 DEF Of, Objects, RbacTables
<1>9. CASE r = "upstream_id"
    <2>1. CASE s.do = "assign"
        <3>1. /\ IsDatabase(e) /\ Survive(d, e)
              /\ \A p \in Parts \ {"mappings"} : e[p] = d[p]
            BY <2>1, AssignDoes
        <3> QED BY RowsWrites, <1>9, <3>1 DEF Rows
    <2>2. CASE s = Alter("mapping_source", "null")
        BY AlterWrites, <1>9, <2>2 DEF Objects
    <2>3. CASE s = Alter("mapping_upstream", "not_null")
        BY AlterWrites, <1>9, <2>3 DEF Objects
    <2>4. CASE s = CreateOne("source_key_index")
        BY OneWrites, <1>9, <2>4 DEF Objects
    <2>5. s # Refuse
        BY DEF Refuse, Accepts
    <2> QED BY <1>9, <2>1, <2>2, <2>3, <2>4, <2>5 DEF Of
<1>10. CASE r = "binary_status"
    <2>1. CASE s = Drop("code_check")
        BY DropWrites, <1>10, <2>1 DEF Objects
    <2>2. CASE s \in {Rewrite("active", "enabled"), Rewrite("draft", "disabled")}
        <3>1. /\ IsDatabase(e) /\ Survive(d, e)
              /\ \A p \in Parts \ {"statuses"} : e[p] = d[p]
            BY <2>2, RewriteDoes
        <3> QED BY RowsWrites, <1>10, <3>1 DEF Rows
    <2>3. CASE s = Alter("code_default", "enabled")
        BY AlterWrites, <1>10, <2>3 DEF Objects
    <2>4. CASE s = CreateCheck
        <3>1. /\ OfBaseline(s) /\ DOMAIN s.gives \subseteq Objects(r)
              /\ s.name \notin {"keyword_table", "code_table"}
            BY <1>10, <2>4, CheckIs DEF Objects
        <3> QED BY <3>1, CreateWrites
    <2> QED BY <1>10, <2>1, <2>2, <2>3, <2>4 DEF Of
<1>11. CASE r = "indicator_semantics"
    <2>1. CASE s = FillReferences
        <3>1. /\ IsDatabase(e) /\ Survive(d, e)
              /\ \A p \in Parts \ {"references"} : e[p] = d[p]
            BY <2>1, FillDoes
        <3> QED BY RowsWrites, <1>11, <3>1 DEF Rows
    <2>2. CASE \E n \in IndicatorColumns \cup {"reference_index"} : s = CreateOne(n)
        BY OneWrites, <1>11, <2>2 DEF Objects, IndicatorColumns
    <2> QED BY <1>11, <2>1, <2>2 DEF Of
<1>12. CASE r = "upstream_options"
    <2>1. s.do = "insert" /\ s.where = "options"
        BY <1>12 DEF Of
    <2>2. IsDatabase(e) /\ Survive(d, e) /\ \A p \in Parts \ {"options"} : e[p] = d[p]
        BY <2>1, InsertDoes
    <2> QED BY RowsWrites, <1>12, <2>2 DEF Rows
<1>13. CASE r = "mapping_identity"
    <2>1. CASE s = Drop("source_key_index")
        BY DropWrites, <1>13, <2>1 DEF Objects
    <2>2. CASE s = CreateOne("identity_index")
        BY OneWrites, <1>13, <2>2 DEF Objects
    <2> QED BY <1>13, <2>1, <2>2 DEF Of
<1>14. CASE r = "freq_capacity"
    BY AlterWrites, <1>14 DEF Of, Objects
<1>15. CASE r = "hot_keywords"
    <2>1. CASE s = CreateOne("keyword_table")
        BY OneWrites, <1>15, <2>1 DEF Objects, Rows
    <2>2. CASE s.do = "insert" /\ s.where = "words"
        <3>1. IsDatabase(e) /\ Survive(d, e) /\ \A p \in Parts \ {"words"} : e[p] = d[p]
            BY <2>2, InsertDoes
        <3> QED BY RowsWrites, <1>15, <3>1 DEF Rows
    <2> QED BY <1>15, <2>1, <2>2 DEF Of
<1>16. CASE r = "field_filter"
    BY OneWrites, <1>16 DEF Of, Objects
<1>17. CASE r = "rag_config"
    <2>1. CASE s = Insert("rag", "rag")
        <3>1. IsDatabase(e) /\ Survive(d, e) /\ \A p \in Parts \ {"rag"} : e[p] = d[p]
            BY <2>1, InsertDoes DEF Insert
        <3> QED BY RowsWrites, <1>17, <3>1 DEF Rows
    <2>2. s # Refuse
        BY DEF Refuse, Accepts
    <2> QED BY <1>17, <2>1, <2>2 DEF Of
<1> QED
    BY <1>5, <1>6, <1>7, <1>8, <1>9, <1>10, <1>11, <1>12, <1>13, <1>14, <1>15, <1>16, <1>17,
       RevisionNames

-----------------------------------------------------------------------------
(* The statements of each revision                                          *)

LEMMA OrderIs ==
    ASSUME NEW S, IsFiniteSet(S)
    PROVE  \A k \in DOMAIN SetToSeq(S) : SetToSeq(S)[k] \in S
BY ElementsOf DEF ToSet

LEMMA EachOne ==
    ASSUME NEW S, IsFiniteSet(S), NEW f, f = Each(S, CreateOne)
    PROVE  IsList(f) /\ ToSet(f) = {CreateOne(x) : x \in S}
<1>1. f = [k \in DOMAIN SetToSeq(S) |-> CreateOne(SetToSeq(S)[k])]
    BY DEF Each
<1> DEFINE g == [x \in S |-> CreateOne(x)]
<1>2. \A k \in DOMAIN SetToSeq(S) : f[k] = g[SetToSeq(S)[k]]
    BY <1>1, OrderIs
<1>3. \A x \in S : g[x] = CreateOne(x)
    OBVIOUS
<1> DEFINE T == {CreateOne(x) : x \in S}
<1>4. f \in [DOMAIN SetToSeq(S) -> T]
    BY <1>1, OrderIs
<1> HIDE DEF g, T
<1>5. IsList(f) /\ \A s : s \in ToSet(f) <=> \E x \in S : s = g[x]
    BY <1>2, <1>4, OneForEach
<1> QED BY <1>3, <1>5 DEF T

LEMMA EachInsert ==
    ASSUME NEW S, IsFiniteSet(S), NEW where, NEW f,
           f = [k \in DOMAIN SetToSeq(S) |-> Insert(where, SetToSeq(S)[k])]
    PROVE  IsList(f) /\ ToSet(f) = {Insert(where, x) : x \in S}
<1>1. f = [k \in DOMAIN SetToSeq(S) |-> Insert(where, SetToSeq(S)[k])]
    OBVIOUS
<1> DEFINE g == [x \in S |-> Insert(where, x)]
<1>2. \A k \in DOMAIN SetToSeq(S) : f[k] = g[SetToSeq(S)[k]]
    BY <1>1, OrderIs
<1>3. \A x \in S : g[x] = Insert(where, x)
    OBVIOUS
<1> DEFINE T == {Insert(where, x) : x \in S}
<1>4. f \in [DOMAIN SetToSeq(S) -> T]
    BY <1>1, OrderIs
<1> HIDE DEF g, T
<1>5. IsList(f) /\ \A s : s \in ToSet(f) <=> \E x \in S : s = g[x]
    BY <1>2, <1>4, OneForEach
<1> QED BY <1>3, <1>5 DEF T

LEMMA EachAssign ==
    ASSUME NEW S, IsFiniteSet(S), NEW d, NEW f,
           f = [k \in DOMAIN SetToSeq(S) |-> Assign(SetToSeq(S)[k], Planned(d, SetToSeq(S)[k]))]
    PROVE  IsList(f) /\ \A s \in ToSet(f) : s.do = "assign"
<1>1. f = [k \in DOMAIN SetToSeq(S) |-> Assign(SetToSeq(S)[k], Planned(d, SetToSeq(S)[k]))]
    OBVIOUS
<1> DEFINE g == [x \in S |-> Assign(x, Planned(d, x))]
<1>2. \A k \in DOMAIN SetToSeq(S) : f[k] = g[SetToSeq(S)[k]]
    BY <1>1, OrderIs
<1>3. \A x \in S : g[x].do = "assign"
    BY DEF Assign
<1> DEFINE T == {Assign(x, Planned(d, x)) : x \in S}
<1>4. f \in [DOMAIN SetToSeq(S) -> T]
    BY <1>1, OrderIs
<1> HIDE DEF g, T
<1>5. IsList(f) /\ \A s : s \in ToSet(f) <=> \E x \in S : s = g[x]
    BY <1>2, <1>4, OneForEach
<1> QED BY <1>3, <1>5

\* A statement that is issued under a condition.
LEMMA Perhaps ==
    ASSUME NEW s, NEW f, f \in {<< s >>, << >>}
    PROVE  IsList(f) /\ ToSet(f) \subseteq {s} /\ (f # << >> => s \in ToSet(f) /\ f[1] = s)
<1>1. CASE f = << s >>
    <2>1. IsList(<< s >>) /\ ToSet(<< s >>) = {s}
        BY OneAndTwo
    <2> QED BY <1>1, <2>1
<1>2. CASE f = << >>
    BY <1>2, NoList
<1> QED BY <1>1, <1>2

LEMMA SmallSets ==
    /\ \A seen : /\ IsFiniteSet(Absent(seen, AssetColumns))
                   /\ IsFiniteSet(Absent(seen, LineageColumns))
                   /\ IsFiniteSet(Absent(seen, IndicatorColumns))
    /\ \A d : IsDatabase(d) => /\ IsFiniteSet(Unassigned(d))
                               /\ IsFiniteSet(Missing(d.options))
                               /\ IsFiniteSet(Missing(d.words))
<1>2. IsFiniteSet(AssetColumns) /\ IsFiniteSet(LineageColumns) /\ IsFiniteSet(IndicatorColumns)
    <2>1. \A x, y : IsFiniteSet({x, y})
        <3>1. ASSUME NEW x, NEW y PROVE IsFiniteSet({x, y})
            <4>1. IsFiniteSet({} \cup {x})
                BY FS_EmptySet, FS_AddElement
            <4>2. IsFiniteSet(({} \cup {x}) \cup {y})
                BY <4>1, FS_AddElement
            <4>3. ({} \cup {x}) \cup {y} = {x, y}
                OBVIOUS
            <4> QED BY <4>2, <4>3
        <3> QED BY <3>1
    <2> QED BY <2>1 DEF AssetColumns, LineageColumns, IndicatorColumns
<1>3. \A seen, S : IsFiniteSet(S) => IsFiniteSet(Absent(seen, S))
    BY FS_Subset DEF Absent
<1>4. ASSUME NEW d, IsDatabase(d)
      PROVE  /\ IsFiniteSet(Unassigned(d)) /\ IsFiniteSet(Missing(d.options))
             /\ IsFiniteSet(Missing(d.words))
    <2>1. /\ IsFiniteSet(DOMAIN d.mappings) /\ IsFiniteSet(DOMAIN d.options)
          /\ IsFiniteSet(DOMAIN d.words)
        BY <1>4 DEF IsDatabase
    <2>2. /\ Unassigned(d) \subseteq DOMAIN d.mappings
          /\ Missing(d.options) \subseteq DOMAIN d.options
          /\ Missing(d.words) \subseteq DOMAIN d.words
        BY DEF Unassigned, Missing
    <2> QED BY <2>1, <2>2, FS_Subset
<1> QED BY <1>2, <1>3, <1>4

LEMMA OpenList ==
    ASSUME NEW f, f = ApplyOpenModules
    PROVE  IsList(f) /\ ToSet(f) = {Create(OpenFragments[k]) : k \in 1 .. 5}
<1>1. DOMAIN OpenFragments = 1 .. 5
    BY DEF OpenFragments
<1>2. f = [k \in 1 .. 5 |-> Create(OpenFragments[k])]
    BY <1>1 DEF ApplyOpenModules
<1> DEFINE S == {Create(OpenFragments[k]) : k \in 1 .. 5}
<1>3. \A k \in 1 .. 5 : f[k] \in S
    BY <1>2
<1>4. ToSet(f) = S
    BY <1>2 DEF ToSet
<1> HIDE DEF S
<1>5. f \in [1 .. 5 -> S]
    BY <1>2, <1>3
<1>6. f \in Seq(S)
    BY <1>5, SeqDef
<1> QED BY <1>4, <1>6, ListOfAny DEF S

LEMMA IngestionList ==
    ASSUME NEW seen, NEW f, f = ApplyIngestionIdentity(seen)
    PROVE  /\ IsList(f)
           /\ \A s \in ToSet(f) : Of("ingestion_identity", s)
           /\ \A n \in AssetColumns \cup LineageColumns \cup {"asset_by_identity"} :
                 n \in DOMAIN seen \/ CreateOne(n) \in ToSet(f)
           /\ "asset_by_name" \in DOMAIN seen => Drop("asset_by_name") \in ToSet(f)
<1>1. PICK a : a = Each(Absent(seen, AssetColumns), CreateOne)
    OBVIOUS
<1>2. PICK b : b = IF "asset_by_name" \in DOMAIN seen THEN << Drop("asset_by_name") >> ELSE << >>
    OBVIOUS
<1>3. PICK c : c = IF "asset_by_identity" \notin DOMAIN seen THEN << CreateOne("asset_by_identity") >>
                                                             ELSE << >>
    OBVIOUS
<1>4. PICK e : e = Each(Absent(seen, LineageColumns), CreateOne)
    OBVIOUS
<1>5. f = a \o b \o c \o e
    BY <1>1, <1>2, <1>3, <1>4 DEF ApplyIngestionIdentity, When
<1>6. /\ IsList(a) /\ ToSet(a) = {CreateOne(x) : x \in Absent(seen, AssetColumns)}
      /\ IsList(e) /\ ToSet(e) = {CreateOne(x) : x \in Absent(seen, LineageColumns)}
    BY <1>1, <1>4, EachOne, SmallSets
<1>7. /\ IsList(b) /\ ToSet(b) = IF "asset_by_name" \in DOMAIN seen THEN {Drop("asset_by_name")} ELSE {}
      /\ IsList(c) /\ ToSet(c) = IF "asset_by_identity" \notin DOMAIN seen
                                   THEN {CreateOne("asset_by_identity")} ELSE {}
    BY <1>2, <1>3, OneAndTwo, NoList
<1>8. IsList(f) /\ ToSet(f) = ToSet(a) \cup ToSet(b) \cup ToSet(c) \cup ToSet(e)
    <2>1. PICK ab : ab = a \o b
        OBVIOUS
    <2>2. PICK abc : abc = ab \o c
        OBVIOUS
    <2>3. IsList(ab) /\ ToSet(ab) = ToSet(a) \cup ToSet(b)
        BY <1>6, <1>7, <2>1, Joined
    <2>4. IsList(abc) /\ ToSet(abc) = ToSet(ab) \cup ToSet(c)
        BY <1>7, <2>2, <2>3, Joined
    <2>5. IsList(abc \o e) /\ ToSet(abc \o e) = ToSet(abc) \cup ToSet(e)
        BY <1>6, <2>4, Joined
    <2> QED BY <1>5, <2>1, <2>2, <2>3, <2>4, <2>5
<1>9. \A s \in ToSet(f) : Of("ingestion_identity", s)
    BY <1>6, <1>7, <1>8 DEF Of, Absent
<1>10. \A n \in AssetColumns \cup LineageColumns \cup {"asset_by_identity"} :
          n \in DOMAIN seen \/ CreateOne(n) \in ToSet(f)
    BY <1>6, <1>7, <1>8 DEF Absent
<1> QED BY <1>7, <1>8, <1>9, <1>10

LEMMA RbacList ==
    ASSUME NEW seen, NEW f, f = ApplyRbac(seen)
    PROVE  /\ IsList(f)
           /\ \A s \in ToSet(f) : Of("rbac", s)
           /\ CreateOne("grant_index") \in ToSet(f)
           /\ ~(RbacTables \subseteq DOMAIN seen) =>
                \A n \in RbacTables : CreateOne(n) \in ToSet(f)
<1>1. PICK w : w = [k \in DOMAIN RbacFragments |-> Create(RbacFragments[k])]
    OBVIOUS
<1>2. DOMAIN RbacFragments = 1 .. 4
    BY DEF RbacFragments
<1>3. /\ w = [k \in 1 .. 4 |-> w[k]]
      /\ w[1] = CreateOne("role") /\ w[2] = CreateOne("permission")
      /\ w[3] = CreateOne("role_permission") /\ w[4] = CreateOne("grant_index")
    BY <1>1, <1>2 DEF RbacFragments, Create, CreateOne
<1> DEFINE S == {CreateOne(n) : n \in RbacTables \cup {"grant_index"}}
<1>4. \A k \in 1 .. 4 : w[k] \in S
    <2>1. \A k \in 1 .. 4 : k \in {1, 2, 3, 4}
        OBVIOUS
    <2>2. {"role", "permission", "role_permission", "grant_index"} \subseteq RbacTables \cup {"grant_index"}
        BY DEF RbacTables
    <2> QED BY <1>3, <2>1, <2>2
<1>5. ToSet(w) = S
    <2>1. DOMAIN w = 1 .. 4
        BY <1>1, <1>2
    <2>2. \A n \in RbacTables \cup {"grant_index"} : \E k \in 1 .. 4 : w[k] = CreateOne(n)
        BY <1>3 DEF RbacTables
    <2> QED BY <1>4, <2>1, <2>2 DEF ToSet
<1> HIDE DEF S
<1>6. w \in [1 .. 4 -> S]
    BY <1>3, <1>4
<1>7. IsList(w)
    <2>1. w \in Seq(S)
        BY <1>6, SeqDef
    <2> QED BY <2>1, ListOfAny
<1>8. IsList(<< CreateOne("grant_index") >>)
      /\ ToSet(<< CreateOne("grant_index") >>) = {CreateOne("grant_index")}
    BY OneAndTwo
<1>9. f = IF Absent(seen, RbacTables) # {} THEN w ELSE << CreateOne("grant_index") >>
    BY <1>1 DEF ApplyRbac
<1>10. IsList(f) /\ ToSet(f) = IF Absent(seen, RbacTables) # {} THEN S ELSE {CreateOne("grant_index")}
    BY <1>5, <1>7, <1>8, <1>9
<1> QED BY <1>10 DEF S, Of, Absent

LEMMA Joined3 ==
    ASSUME NEW a, NEW b, NEW c, IsList(a), IsList(b), IsList(c)
    PROVE  IsList((a \o b) \o c) /\ ToSet((a \o b) \o c) = ToSet(a) \cup ToSet(b) \cup ToSet(c)
<1>1. PICK ab : ab = a \o b
    OBVIOUS
<1>2. IsList(ab) /\ ToSet(ab) = ToSet(a) \cup ToSet(b)
    BY <1>1, Joined
<1>3. IsList(ab \o c) /\ ToSet(ab \o c) = ToSet(ab) \cup ToSet(c)
    BY <1>2, Joined
<1> QED BY <1>1, <1>2, <1>3

\* What is joined to one statement is what is left after it.
LEMMA AfterTheFirst ==
    ASSUME NEW x, NEW q, IsList(q), NEW f, f = << x >> \o q
    PROVE  f # << >> /\ f[1] = x /\ ToSet(Tail(f)) \subseteq ToSet(q)
<1>1. PICK a : a = << x >>
    OBVIOUS
<1>2. IsList(a) /\ a # << >> /\ a[1] = x /\ Len(a) = 1
    <2>1. IsList(<< x >>)
        BY OneAndTwo
    <2> QED BY <1>1, <2>1
<1>3. f = a \o q /\ f # << >> /\ f[1] = x
    BY <1>1, <1>2, Joined
<1> DEFINE S == ToSet(a) \cup ToSet(q)
<1>4. a \in Seq(S) /\ q \in Seq(S)
    BY <1>2, SeqMonotonic DEF IsList
<1> HIDE DEF S
<1>5. Len(q) \in Nat /\ \A s : s \in ToSet(q) <=> \E i \in 1 .. Len(q) : s = q[i]
    BY ListIs
<1>6. /\ f \in Seq(S) /\ Len(f) = 1 + Len(q)
      /\ \A i \in 1 .. 1 + Len(q) : f[i] = IF i <= 1 THEN a[i] ELSE q[i - 1]
    BY <1>2, <1>3, <1>4, ConcatProperties
<1>7. PICK t : t = Tail(f)
    OBVIOUS
<1>8. t \in Seq(S) /\ Len(t) = Len(f) - 1 /\ \A i \in 1 .. Len(t) : t[i] = f[i + 1]
    BY <1>3, <1>6, <1>7, HeadTailProperties
<1>9. \A s : s \in ToSet(t) <=> \E i \in 1 .. Len(t) : s = t[i]
    BY <1>8, ListOfAny, ListIs
<1>10. ASSUME NEW i \in 1 .. Len(t) PROVE t[i] = q[i] /\ i \in 1 .. Len(q)
    <2>1. i \in 1 .. Len(q) /\ i + 1 \in 1 .. 1 + Len(q) /\ ~(i + 1 <= 1) /\ (i + 1) - 1 = i
        BY <1>5, <1>6, <1>8, <1>10
    <2>2. f[i + 1] = q[(i + 1) - 1]
        BY <1>6, <2>1
    <2> QED BY <1>8, <2>1, <2>2
<1>11. ToSet(t) \subseteq ToSet(q)
    BY <1>5, <1>9, <1>10
<1> QED BY <1>3, <1>7, <1>11

LEMMA UpstreamList ==
    ASSUME NEW seen, NEW d, IsDatabase(d), NEW f, f = ApplyUpstreamId(seen, d)
    PROVE  /\ IsList(f)
           /\ \A s \in ToSet(f) : Of("upstream_id", s)
           /\ \/ Refuse \in ToSet(f)
              \/ /\ seen["mapping_upstream"] = "null" =>
                      Alter("mapping_upstream", "not_null") \in ToSet(f)
                 /\ ~Defined(seen, "identity_index") /\ "source_key_index" \notin DOMAIN seen =>
                      CreateOne("source_key_index") \in ToSet(f)
           /\ CreateOne("source_key_index") \in ToSet(f) =>
                ~Defined(seen, "identity_index") /\ "source_key_index" \notin DOMAIN seen
<1>1. CreateOne("source_key_index").do = "create"
    BY DEF CreateOne
<1>2. CASE Unsafe(d) # {} \/ Duplicated(d)
    <2>1. f = << Refuse >>
        BY <1>2 DEF ApplyUpstreamId
    <2>2. IsList(f) /\ ToSet(f) = {Refuse}
        BY <2>1, OneAndTwo
    <2>3. CreateOne("source_key_index") # Refuse
        BY <1>1 DEF Refuse
    <2> QED BY <2>2, <2>3 DEF Of
<1>3. CASE ~(Unsafe(d) # {} \/ Duplicated(d))
    <2> DEFINE unindexed == ~Defined(seen, "identity_index") /\ "source_key_index" \notin DOMAIN seen
    <2>1. PICK a : a = [k \in DOMAIN SetToSeq(Unassigned(d)) |->
                          Assign(SetToSeq(Unassigned(d))[k], Planned(d, SetToSeq(Unassigned(d))[k]))]
        OBVIOUS
    <2>2. PICK b : b = IF seen["mapping_source"] = "not_null" THEN << Alter("mapping_source", "null") >> ELSE << >>
        OBVIOUS
    <2>3. PICK c : c = IF seen["mapping_upstream"] = "null"
                         THEN << Alter("mapping_upstream", "not_null") >> ELSE << >>
        OBVIOUS
    <2>4. PICK e : e = IF unindexed THEN << CreateOne("source_key_index") >> ELSE << >>
        OBVIOUS
    <2>5. f = a \o b \o c \o e
        BY <1>3, <2>1, <2>2, <2>3, <2>4 DEF ApplyUpstreamId, When, Each
    <2>6. IsList(a) /\ \A s \in ToSet(a) : s.do = "assign"
        BY <2>1, EachAssign, SmallSets
    <2>7. IsList(b) /\ ToSet(b) \subseteq {Alter("mapping_source", "null")}
        BY <2>2, OneAndTwo, NoList
    <2>8. IsList(c) /\ ToSet(c) = IF seen["mapping_upstream"] = "null"
                                    THEN {Alter("mapping_upstream", "not_null")} ELSE {}
        BY <2>3, OneAndTwo, NoList
    <2>9. IsList(e) /\ ToSet(e) = IF unindexed THEN {CreateOne("source_key_index")} ELSE {}
        BY <2>4, OneAndTwo, NoList
    <2> HIDE DEF unindexed
    <2>10. PICK abc : abc = a \o b \o c
        OBVIOUS
    <2>11. IsList(abc) /\ ToSet(abc) = ToSet(a) \cup ToSet(b) \cup ToSet(c)
        <3>1. IsList(a) /\ IsList(b) /\ IsList(c)
            BY <2>6, <2>7, <2>8
        <3> QED BY <2>10, <3>1, Joined3
    <2>12. IsList(f) /\ ToSet(f) = ToSet(a) \cup ToSet(b) \cup ToSet(c) \cup ToSet(e)
        BY <2>5, <2>9, <2>10, <2>11, Joined
    <2>13. \A s \in ToSet(f) : Of("upstream_id", s)
        BY <2>6, <2>7, <2>8, <2>9, <2>12 DEF Of
    <2>14. CreateOne("source_key_index") \in ToSet(f) <=> unindexed
        <3>1. CreateOne("source_key_index") \notin ToSet(a)
            BY <1>1, <2>6
        <3>2. \A n, to : CreateOne("source_key_index") # Alter(n, to)
            BY <1>1 DEF Alter
        <3> QED BY <2>7, <2>8, <2>9, <2>12, <3>1, <3>2
    <2> QED BY <2>8, <2>12, <2>13, <2>14 DEF unindexed
<1> QED BY <1>2, <1>3

LEMMA BinaryList ==
    ASSUME NEW d, NEW f, f = ApplyBinaryStatus(d)
    PROVE  /\ IsList(f)
           /\ \A s \in ToSet(f) : Of("binary_status", s)
           /\ {Rewrite("active", "enabled"), Rewrite("draft", "disabled"),
               Alter("code_default", "enabled")} \subseteq ToSet(f)
           /\ Is(d, "code_check", "binary") \/ CreateCheck \in ToSet(f)
           /\ Drop("code_check") \in ToSet(f) =>
                 /\ f[1] = Drop("code_check") /\ Drop("code_check") \notin ToSet(Tail(f))
                 /\ CreateCheck \in ToSet(f)
<1> DEFINE legacy == Has(d, "code_check") /\ ~Is(d, "code_check", "binary")
<1>1. PICK a : a = IF legacy THEN << Drop("code_check") >> ELSE << >>
    OBVIOUS
<1>2. PICK b : b = << Rewrite("active", "enabled"), Rewrite("draft", "disabled"),
                      Alter("code_default", "enabled") >>
    OBVIOUS
<1>3. PICK c : c = IF ~Is(d, "code_check", "binary") THEN << CreateCheck >> ELSE << >>
    OBVIOUS
<1>4. f = a \o b \o c
    BY <1>1, <1>2, <1>3 DEF ApplyBinaryStatus, When, CreateCheck
<1>5. IsList(a) /\ ToSet(a) = IF legacy THEN {Drop("code_check")} ELSE {}
    BY <1>1, OneAndTwo, NoList
<1>6. IsList(b) /\ ToSet(b) = {Rewrite("active", "enabled"), Rewrite("draft", "disabled"),
                               Alter("code_default", "enabled")}
    BY <1>2, OneAndTwo
<1>7. IsList(c) /\ ToSet(c) = IF ~Is(d, "code_check", "binary") THEN {CreateCheck} ELSE {}
    BY <1>3, OneAndTwo, NoList
<1>8. IsList(f) /\ ToSet(f) = ToSet(a) \cup ToSet(b) \cup ToSet(c)
    <2>1. IsList(a) /\ IsList(b) /\ IsList(c)
        BY <1>5, <1>6, <1>7
    <2> QED BY <1>4, <2>1, Joined3
<1>9. \A s \in ToSet(f) : Of("binary_status", s)
    BY <1>5, <1>6, <1>7, <1>8 DEF Of
<1>10. Drop("code_check") \notin ToSet(b) \cup ToSet(c)
    <2>1. \A old, new : Drop("code_check") # Rewrite(old, new)
        BY DEF Drop, Rewrite
    <2>2. \A n, to : Drop("code_check") # Alter(n, to)
        BY DEF Drop, Alter
    <2>3. Drop("code_check") # CreateCheck
        BY CheckIs DEF Drop
    <2> QED BY <1>6, <1>7, <2>1, <2>2, <2>3
<1>11. ASSUME legacy
       PROVE  f[1] = Drop("code_check") /\ Drop("code_check") \notin ToSet(Tail(f))
    <2>1. PICK bc : bc = b \o c
        OBVIOUS
    <2>2. IsList(bc) /\ ToSet(bc) = ToSet(b) \cup ToSet(c)
        BY <1>6, <1>7, <2>1, Joined
    <2> DEFINE S == ToSet(a) \cup ToSet(b) \cup ToSet(c)
    <2>3. a \in Seq(S) /\ b \in Seq(S) /\ c \in Seq(S)
        <3>1. ToSet(a) \subseteq S /\ ToSet(b) \subseteq S /\ ToSet(c) \subseteq S
            OBVIOUS
        <3> HIDE DEF S
        <3> QED BY <1>5, <1>6, <1>7, <3>1, SeqMonotonic DEF IsList
    <2> HIDE DEF S
    <2>4. f = a \o bc
        BY <1>4, <2>1, <2>3, ConcatAssociative
    <2>5. f = << Drop("code_check") >> \o bc
        BY <1>1, <1>11, <2>4
    <2>6. f[1] = Drop("code_check") /\ ToSet(Tail(f)) \subseteq ToSet(bc)
        BY <2>2, <2>5, AfterTheFirst
    <2> QED BY <1>10, <2>2, <2>6
<1> QED BY <1>5, <1>6, <1>7, <1>8, <1>9, <1>10, <1>11

LEMMA IndicatorList ==
    ASSUME NEW seen, NEW f, f = ApplyIndicatorSemantics(seen)
    PROVE  /\ IsList(f)
           /\ \A s \in ToSet(f) : Of("indicator_semantics", s)
           /\ \A n \in IndicatorColumns : n \in DOMAIN seen \/ CreateOne(n) \in ToSet(f)
           /\ Defined(seen, "reference_index") \/ CreateOne("reference_index") \in ToSet(f)
           /\ FillReferences \in ToSet(f)
<1>1. PICK a : a = Each(Absent(seen, IndicatorColumns), CreateOne)
    OBVIOUS
<1>2. PICK b : b = IF ~Defined(seen, "reference_index") THEN << CreateOne("reference_index") >> ELSE << >>
    OBVIOUS
<1>3. f = a \o b \o << FillReferences >>
    BY <1>1, <1>2 DEF ApplyIndicatorSemantics, When
<1>4. IsList(a) /\ ToSet(a) = {CreateOne(x) : x \in Absent(seen, IndicatorColumns)}
    BY <1>1, EachOne, SmallSets
<1>5. /\ IsList(b) /\ ToSet(b) = IF ~Defined(seen, "reference_index")
                                   THEN {CreateOne("reference_index")} ELSE {}
      /\ IsList(<< FillReferences >>) /\ ToSet(<< FillReferences >>) = {FillReferences}
    BY <1>2, OneAndTwo, NoList
<1>6. IsList(f) /\ ToSet(f) = ToSet(a) \cup ToSet(b) \cup {FillReferences}
    <2>1. PICK c : c = << FillReferences >>
        OBVIOUS
    <2>2. f = a \o b \o c /\ IsList(a) /\ IsList(b) /\ IsList(c)
        BY <1>3, <1>4, <1>5, <2>1
    <2>3. ToSet(f) = ToSet(a) \cup ToSet(b) \cup ToSet(c) /\ IsList(f)
        BY <2>2, Joined3
    <2> QED BY <1>5, <2>1, <2>3
<1> QED BY <1>4, <1>5, <1>6 DEF Of, Absent

LEMMA MappingList ==
    ASSUME NEW seen, NEW f, f = ApplyMappingIdentity(seen)
    PROVE  /\ IsList(f)
           /\ \A s \in ToSet(f) : Of("mapping_identity", s)
           /\ "source_key_index" \in DOMAIN seen => Drop("source_key_index") \in ToSet(f)
           /\ Defined(seen, "identity_index") \/ CreateOne("identity_index") \in ToSet(f)
<1>1. PICK a : a = IF "source_key_index" \in DOMAIN seen THEN << Drop("source_key_index") >> ELSE << >>
    OBVIOUS
<1>2. PICK b : b = IF ~Defined(seen, "identity_index") THEN << CreateOne("identity_index") >> ELSE << >>
    OBVIOUS
<1>3. f = a \o b
    BY <1>1, <1>2 DEF ApplyMappingIdentity, When
<1>4. /\ IsList(a) /\ ToSet(a) = IF "source_key_index" \in DOMAIN seen
                                   THEN {Drop("source_key_index")} ELSE {}
      /\ IsList(b) /\ ToSet(b) = IF ~Defined(seen, "identity_index")
                                   THEN {CreateOne("identity_index")} ELSE {}
    BY <1>1, <1>2, OneAndTwo, NoList
<1>5. IsList(f) /\ ToSet(f) = ToSet(a) \cup ToSet(b)
    BY <1>3, <1>4, Joined
<1> QED BY <1>4, <1>5 DEF Of

LEMMA KeywordList ==
    ASSUME NEW seen, NEW d, IsDatabase(d), NEW f, f = ApplyHotKeywords(seen, d)
    PROVE  /\ IsList(f)
           /\ \A s \in ToSet(f) : Of("hot_keywords", s)
           /\ "keyword_table" \in DOMAIN seen =>
                \A k \in Missing(d.words) : Insert("words", k) \in ToSet(f)
           /\ "keyword_table" \notin DOMAIN seen =>
                /\ f # << >> /\ f[1] = CreateOne("keyword_table")
                /\ \A k \in Keywords : Insert("words", k) \in ToSet(f)
<1>1. Create(KeywordFragment) = CreateOne("keyword_table")
    BY DEF Create, CreateOne, KeywordFragment
<1>2. \A k : Of("hot_keywords", Insert("words", k))
    BY DEF Of, Insert
<1>3. CASE "keyword_table" \in DOMAIN seen
    <2> DEFINE S == Missing(d.words)
    <2>1. f = [k \in DOMAIN SetToSeq(S) |-> Insert("words", SetToSeq(S)[k])]
        BY <1>3 DEF ApplyHotKeywords, Each
    <2>2. IsFiniteSet(S)
        BY SmallSets
    <2> HIDE DEF S
    <2>3. IsList(f) /\ ToSet(f) = {Insert("words", x) : x \in S}
        BY <2>1, <2>2, EachInsert
    <2> QED BY <1>2, <1>3, <2>3 DEF S
<1>4. CASE "keyword_table" \notin DOMAIN seen
    <2>1. PICK a : a = [k \in DOMAIN SetToSeq(Keywords) |-> Insert("words", SetToSeq(Keywords)[k])]
        OBVIOUS
    <2>2. f = << CreateOne("keyword_table") >> \o a
        BY <1>1, <1>4, <2>1 DEF ApplyHotKeywords, Each
    <2>3. IsList(a) /\ ToSet(a) = {Insert("words", x) : x \in Keywords}
        BY <2>1, EachInsert, KeywordsAssumption
    <2>4. IsList(<< CreateOne("keyword_table") >>)
          /\ ToSet(<< CreateOne("keyword_table") >>) = {CreateOne("keyword_table")}
        BY OneAndTwo
    <2>5. IsList(f) /\ ToSet(f) = {CreateOne("keyword_table")} \cup ToSet(a)
        BY <2>2, <2>3, <2>4, Joined
    <2>6. f # << >> /\ f[1] = CreateOne("keyword_table")
        BY <2>2, <2>3, AfterTheFirst
    <2>7. Of("hot_keywords", CreateOne("keyword_table"))
        BY DEF Of
    <2> QED BY <1>2, <1>4, <2>3, <2>5, <2>6, <2>7
<1> QED BY <1>3, <1>4

LEMMA OptionList ==
    ASSUME NEW d, IsDatabase(d), NEW seen, NEW f, f = Statements("upstream_options", seen, d)
    PROVE  /\ IsList(f)
           /\ \A s \in ToSet(f) : Of("upstream_options", s)
           /\ \A k \in Missing(d.options) : Insert("options", k) \in ToSet(f)
<1> DEFINE S == Missing(d.options)
<1>1. f = [k \in DOMAIN SetToSeq(S) |-> Insert("options", SetToSeq(S)[k])]
    BY DEF Statements, Each
<1>2. IsFiniteSet(S)
    BY SmallSets
<1>3. \A k : Of("upstream_options", Insert("options", k))
    BY DEF Of, Insert
<1> HIDE DEF S
<1>4. IsList(f) /\ ToSet(f) = {Insert("options", x) : x \in S}
    BY <1>1, <1>2, EachInsert
<1> QED BY <1>3, <1>4 DEF S

LEMMA StatementsAre ==
    ASSUME NEW r \in Revisions, NEW seen, NEW d, IsDatabase(d), NEW f, f = Statements(r, seen, d)
    PROVE  IsList(f) /\ \A s \in ToSet(f) : Of(r, s)
<1>1. ASSUME NEW s, f = << s >>, Of(r, s) PROVE IsList(f) /\ \A x \in ToSet(f) : Of(r, x)
    <2>1. IsList(<< s >>) /\ ToSet(<< s >>) = {s}
        BY OneAndTwo
    <2> QED BY <1>1, <2>1
<1>2. CASE r = "asset_filter"
    BY <1>1, <1>2 DEF Statements, Of
<1>3. CASE r = "open_modules"
    <2>1. f = ApplyOpenModules
        BY <1>3 DEF Statements
    <2> QED BY <1>3, <2>1, OpenList DEF Of
<1>4. CASE r = "ingestion_identity"
    <2>1. f = ApplyIngestionIdentity(seen)
        BY <1>4 DEF Statements
    <2> QED BY <1>4, <2>1, IngestionList
<1>5. CASE r = "rbac"
    <2>1. f = ApplyRbac(seen)
        BY <1>5 DEF Statements
    <2> QED BY <1>5, <2>1, RbacList
<1>6. CASE r = "upstream_id"
    <2>1. f = ApplyUpstreamId(seen, d)
        BY <1>6 DEF Statements
    <2> QED BY <1>6, <2>1, UpstreamList
<1>7. CASE r = "binary_status"
    <2>1. f = ApplyBinaryStatus(d)
        BY <1>7 DEF Statements
    <2> QED BY <1>7, <2>1, BinaryList
<1>8. CASE r = "indicator_semantics"
    <2>1. f = ApplyIndicatorSemantics(seen)
        BY <1>8 DEF Statements
    <2> QED BY <1>8, <2>1, IndicatorList
<1>9. CASE r = "upstream_options"
    BY <1>9, OptionList
<1>10. CASE r = "mapping_identity"
    <2>1. f = ApplyMappingIdentity(seen)
        BY <1>10 DEF Statements
    <2> QED BY <1>10, <2>1, MappingList
<1>11. CASE r = "freq_capacity"
    BY <1>1, <1>11 DEF Statements, Of
<1>12. CASE r = "hot_keywords"
    <2>1. f = ApplyHotKeywords(seen, d)
        BY <1>12 DEF Statements
    <2> QED BY <1>12, <2>1, KeywordList
<1>13. CASE r = "field_filter"
    BY <1>1, <1>13 DEF Statements, Of
<1>14. CASE r = "rag_config"
    <2>1. f \in {<< Insert("rag", "rag") >>, << >>, << Refuse >>}
        BY <1>14 DEF Statements, ApplyRagConfig
    <2>2. Of(r, Insert("rag", "rag")) /\ Of(r, Refuse)
        BY <1>14 DEF Of
    <2>3. CASE f = << >>
        BY <2>3, NoList
    <2> QED BY <1>1, <2>1, <2>2, <2>3
<1> QED
    BY <1>2, <1>3, <1>4, <1>5, <1>6, <1>7, <1>8, <1>9, <1>10, <1>11, <1>12, <1>13, <1>14,
       RevisionNames

-----------------------------------------------------------------------------
(* The statements lead to the revision: no second inspection is disappointed *)

\* What an adapter issues for a database it found in its pre-condition.
LEMMA StatementsLead ==
    ASSUME NEW r \in Revisions, NEW d, IsDatabase(d), Inspect(r, d) = "not_applied",
           d.schema["mapping_upstream"] \in {"null", "not_null"}, Has(d, "mapping_upstream"),
           NEW f, f = Statements(r, d.schema, d)
    PROVE  Toward(r, d, f)
<1>1. ASSUME NEW s, f = << s >> PROVE Issued(s, f)
    BY <1>1, OneAndTwo DEF Issued
<1>2. CASE r = "asset_filter"
    BY <1>1, <1>2 DEF Statements, Toward, Coming
<1>3. CASE r = "open_modules"
    <2>1. f = ApplyOpenModules
        BY <1>3 DEF Statements
    <2>2. \A k \in 1 .. 4 : Create(OpenFragments[k]) \in ToSet(f)
        BY <2>1, OpenList
    <2> QED BY <1>3, <2>2 DEF Toward, Issued
<1>4. CASE r = "ingestion_identity"
    <2>1. f = ApplyIngestionIdentity(d.schema)
        BY <1>4 DEF Statements
    <2>2. Has(d, "lineage")
        BY <1>4 DEF Inspect, InspectIngestionIdentity
    <2>3. \A n \in AssetColumns \cup LineageColumns \cup {"asset_by_identity"} :
             Has(d, n) \/ CreateOne(n) \in ToSet(f)
        BY <2>1, IngestionList DEF Has
    <2>4. Has(d, "asset_by_name") => Drop("asset_by_name") \in ToSet(f)
        BY <2>1, IngestionList DEF Has
    <2> QED BY <1>4, <2>2, <2>3, <2>4 DEF Toward, Issued
<1>5. CASE r = "rbac"
    <2>1. f = ApplyRbac(d.schema)
        BY <1>5 DEF Statements
    <2>2. CreateOne("grant_index") \in ToSet(f)
        BY <2>1, RbacList
    <2>3. ~(RbacTables \subseteq DOMAIN d.schema) => \A n \in RbacTables : CreateOne(n) \in ToSet(f)
        BY <2>1, RbacList
    <2>4. HasNone(d, RbacTables) \/ \A t \in RbacTables : Is(d, t, "right")
        BY <1>5 DEF Inspect, InspectRbac, Found
    <2>5. HasNone(d, RbacTables) => ~(RbacTables \subseteq DOMAIN d.schema)
        BY DEF HasNone, RbacTables
    <2> QED BY <1>5, <2>2, <2>3, <2>4, <2>5 DEF Toward, Coming, Issued
<1>6. CASE r = "upstream_id"
    <2>1. f = ApplyUpstreamId(d.schema, d)
        BY <1>6 DEF Statements
    <2>2. Has(d, "upstream_system") /\ (Has(d, "source_key_index") => Is(d, "source_key_index", "right"))
        BY <1>6 DEF Inspect, InspectUpstreamId
    <2>3. \/ Refuse \in ToSet(f)
          \/ /\ d.schema["mapping_upstream"] = "null" =>
                  Alter("mapping_upstream", "not_null") \in ToSet(f)
             /\ ~Defined(d.schema, "identity_index") /\ "source_key_index" \notin DOMAIN d.schema =>
                  CreateOne("source_key_index") \in ToSet(f)
        BY <2>1, UpstreamList
    <2>4. /\ Defined(d.schema, "identity_index") <=> Is(d, "identity_index", "right")
          /\ "source_key_index" \in DOMAIN d.schema <=> Has(d, "source_key_index")
        BY DEF Defined, Is, Has
    <2> QED BY <1>6, <2>2, <2>3, <2>4 DEF Toward, Issued, Coming, Is
<1>7. CASE r = "binary_status"
    <2>1. f = ApplyBinaryStatus(d)
        BY <1>7 DEF Statements
    <2>2. Has(d, "code_table") /\ \A c \in DOMAIN d.statuses : d.statuses[c] # "other"
        BY <1>7 DEF Inspect, InspectBinaryStatus
    <2>3. /\ {Rewrite("active", "enabled"), Rewrite("draft", "disabled"),
              Alter("code_default", "enabled")} \subseteq ToSet(f)
          /\ Is(d, "code_check", "binary") \/ CreateCheck \in ToSet(f)
          /\ Drop("code_check") \in ToSet(f) =>
                 /\ f[1] = Drop("code_check") /\ Drop("code_check") \notin ToSet(Tail(f))
                 /\ CreateCheck \in ToSet(f)
        BY <2>1, BinaryList
    <2> QED BY <1>7, <2>2, <2>3 DEF Toward, Issued
<1>8. CASE r = "indicator_semantics"
    <2>1. f = ApplyIndicatorSemantics(d.schema)
        BY <1>8 DEF Statements
    <2>2. /\ \A n \in IndicatorColumns : n \in DOMAIN d.schema \/ CreateOne(n) \in ToSet(f)
          /\ Defined(d.schema, "reference_index") \/ CreateOne("reference_index") \in ToSet(f)
          /\ FillReferences \in ToSet(f)
        BY <2>1, IndicatorList
    <2> QED BY <1>8, <2>2 DEF Toward, Issued, Coming, Is, Has, Defined
<1>9. CASE r = "upstream_options"
    BY <1>9, OptionList DEF Toward, Issued
<1>10. CASE r = "mapping_identity"
    <2>1. f = ApplyMappingIdentity(d.schema)
        BY <1>10 DEF Statements
    <2>2. ~Has(d, "other_source_key")
        BY <1>10 DEF Inspect, InspectMappingIdentity
    <2>3. /\ "source_key_index" \in DOMAIN d.schema => Drop("source_key_index") \in ToSet(f)
          /\ Defined(d.schema, "identity_index") \/ CreateOne("identity_index") \in ToSet(f)
        BY <2>1, MappingList
    <2> QED BY <1>10, <2>2, <2>3 DEF Toward, Issued, Coming, Is, Has, Defined
<1>11. CASE r = "freq_capacity"
    BY <1>1, <1>11 DEF Statements, Toward
<1>12. CASE r = "hot_keywords"
    <2>1. f = ApplyHotKeywords(d.schema, d)
        BY <1>12 DEF Statements
    <2>2. Has(d, "keyword_table") => Is(d, "keyword_table", "right")
        BY <1>12 DEF Inspect, InspectHotKeywords, Found
    <2>3. Has(d, "keyword_table") =>
             \A k \in Missing(d.words) : Insert("words", k) \in ToSet(f)
        BY <2>1, KeywordList DEF Has
    <2>4. ~Has(d, "keyword_table") =>
             /\ f # << >> /\ f[1] = CreateOne("keyword_table")
             /\ \A k \in Keywords : Insert("words", k) \in ToSet(f)
        BY <2>1, KeywordList DEF Has
    <2> QED BY <1>12, <2>2, <2>3, <2>4 DEF Toward, Issued
<1>13. CASE r = "field_filter"
    BY <1>1, <1>13 DEF Statements, Toward, Coming
<1>14. CASE r = "rag_config"
    BY <1>1, <1>14 DEF Statements, ApplyRagConfig, Inspect, InspectRagConfig, Found, Toward
<1> QED
    BY <1>2, <1>3, <1>4, <1>5, <1>6, <1>7, <1>8, <1>9, <1>10, <1>11, <1>12, <1>13, <1>14,
       RevisionNames

\* Once they are all executed the revision is there.
LEMMA Arrived ==
    ASSUME NEW r \in Revisions, NEW d, IsDatabase(d), NEW q, q = << >>, Toward(r, d, q)
    PROVE  Inspect(r, d) = "applied"
<1>1. \A s : ~Issued(s, q)
    BY NoList DEF Issued
<1>2. CASE r = "asset_filter"
    BY <1>1, <1>2 DEF Toward, Coming, Inspect, InspectAssetFilter, Found
<1>3. CASE r = "open_modules"
    <2>1. \A k \in 1 .. 4 : Has(d, OpenFragments[k].name)
        BY <1>1, <1>3 DEF Toward
    <2>2. /\ OpenFragments[1].name = "upstream_system" /\ OpenFragments[2].name = "push_job"
          /\ OpenFragments[3].name = "code_table" /\ OpenFragments[4].name = "lineage"
        BY DEF OpenFragments
    <2>3. {1, 2, 3, 4} \subseteq 1 .. 4
        OBVIOUS
    <2>4. Has(d, "upstream_system") /\ Has(d, "push_job") /\ Has(d, "code_table") /\ Has(d, "lineage")
        BY <2>1, <2>2, <2>3
    <2> QED BY <1>3, <2>4 DEF Inspect, InspectOpenModules, Found, HasAll, Has, OpenTables
<1>4. CASE r = "ingestion_identity"
    <2>1. /\ Has(d, "lineage") /\ ~Has(d, "asset_by_name") /\ Has(d, "asset_by_identity")
          /\ \A n \in AssetColumns \cup LineageColumns : Has(d, n)
        BY <1>1, <1>4 DEF Toward
    <2> QED BY <1>4, <2>1 DEF Inspect, InspectIngestionIdentity, Found, HasAll, Has
<1>5. CASE r = "rbac"
    BY <1>1, <1>5 DEF Toward, Coming, Inspect, InspectRbac, Found
<1>6. CASE r = "upstream_id"
    BY <1>1, <1>6 DEF Toward, Coming, Inspect, InspectUpstreamId, Found, Is
<1>7. CASE r = "binary_status"
    <2>1. /\ Has(d, "code_table") /\ Is(d, "code_default", "enabled") /\ Is(d, "code_check", "binary")
          /\ \A c \in DOMAIN d.statuses : d.statuses[c] \notin {"other", "active", "draft"}
        BY <1>1, <1>7 DEF Toward
    <2> QED BY <1>7, <2>1 DEF Inspect, InspectBinaryStatus, Found
<1>8. CASE r = "indicator_semantics"
    BY <1>1, <1>8 DEF Toward, Coming, Inspect, InspectIndicatorSemantics, Found, HasAll, Has
<1>9. CASE r = "upstream_options"
    BY <1>1, <1>9 DEF Toward, Inspect, InspectUpstreamOptions, Found
<1>10. CASE r = "mapping_identity"
    BY <1>1, <1>10 DEF Toward, Coming, Inspect, InspectMappingIdentity, Found, Is
<1>11. CASE r = "freq_capacity"
    BY <1>1, <1>11 DEF Toward, Inspect, InspectFreqCapacity, Found, Is
<1>12. CASE r = "hot_keywords"
    BY <1>1, <1>12 DEF Toward, Inspect, InspectHotKeywords, Found, Is
<1>13. CASE r = "field_filter"
    BY <1>1, <1>13 DEF Toward, Coming, Inspect, InspectFieldFilter, Found
<1>14. CASE r = "rag_config"
    BY <1>1, <1>14 DEF Toward, Inspect, InspectRagConfig, Found
<1> QED
    BY <1>2, <1>3, <1>4, <1>5, <1>6, <1>7, <1>8, <1>9, <1>10, <1>11, <1>12, <1>13, <1>14,
       RevisionNames

LEMMA Forms ==
    /\ \A n : CreateOne(n).do = "create" /\ CreateOne(n).name = n
    /\ \A n : Drop(n).do = "drop" /\ Drop(n).name = n
    /\ \A n, x : Alter(n, x).do = "alter" /\ Alter(n, x).name = n
    /\ \A w, k : Insert(w, k).do = "insert" /\ Insert(w, k).where = w /\ Insert(w, k).key = k
    /\ \A x, y : Rewrite(x, y).do = "rewrite" /\ Rewrite(x, y).old = x /\ Rewrite(x, y).new = y
    /\ FillReferences.do = "fill" /\ Refuse.do = "refuse"
    /\ CreateCheck.do = "create" /\ CreateCheck.name = "code_check"
BY CheckIs DEF CreateOne, Drop, Alter, Insert, Rewrite, FillReferences, Refuse

LEMMA OneDoes ==
    ASSUME NEW d, IsDatabase(d), NEW n, n # "push_width", Accepts(d, CreateOne(n)),
           NEW e, e = Executed(d, CreateOne(n))
    PROVE  /\ Is(e, n, "right") /\ ~Has(d, n)
           /\ \A m : Has(e, m) <=> Has(d, m) \/ m = n
           /\ \A m, x : m # n => (Is(e, m, x) <=> Is(d, m, x))
           /\ \A p \in Parts \ {"schema", "statuses", "words"} : e[p] = d[p]
           /\ n # "code_table" => e.statuses = d.statuses
           /\ n # "keyword_table" => e.words = d.words
           /\ n = "keyword_table" => e.words = [k \in Keywords |-> "absent"]
<1>1. PICK s : s = CreateOne(n)
    OBVIOUS
<1>2. s.name = n /\ DOMAIN s.gives = {n} /\ s.gives[n] = "right" /\ OfBaseline(s)
    BY <1>1, OneIs
<1>3. /\ \A m : Has(e, m) <=> Has(d, m) \/ m \in DOMAIN s.gives
      /\ \A m \in DOMAIN s.gives : e.schema[m] = s.gives[m]
      /\ \A m : Has(d, m) /\ m \notin DOMAIN s.gives => e.schema[m] = d.schema[m]
      /\ \A p \in Parts \ {"schema", "statuses", "words"} : e[p] = d[p]
      /\ s.name # "code_table" => e.statuses = d.statuses
      /\ s.name # "keyword_table" => e.words = d.words
      /\ s.name = "keyword_table" => e.words = [k \in Keywords |-> "absent"]
      /\ ~Has(d, s.name)
    BY <1>1, <1>2, CreateDoes
<1> QED BY <1>2, <1>3 DEF Is

LEMMA OptionInserted ==
    ASSUME NEW d, IsDatabase(d), NEW s, s.do = "insert", s.where = "options", Accepts(d, s),
           NEW e, e = Executed(d, s)
    PROVE  /\ DOMAIN e.options = DOMAIN d.options
           /\ \A k \in DOMAIN d.options : e.options[k] = IF k = s.key THEN "seeded" ELSE d.options[k]
           /\ e.schema = d.schema
<1>1. PICK w : w = s.where
    OBVIOUS
<1>2. /\ DOMAIN e[w] = DOMAIN d[w]
      /\ \A k \in DOMAIN d[w] : e[w][k] = IF k = s.key THEN "seeded" ELSE d[w][k]
      /\ \A p \in Parts \ {w} : e[p] = d[p]
    BY <1>1, InsertDoes
<1>3. e.schema = d.schema
    BY <1>1, <1>2 DEF Parts
<1> QED BY <1>1, <1>2, <1>3

LEMMA WordInserted ==
    ASSUME NEW d, IsDatabase(d), NEW s, s.do = "insert", s.where = "words", Accepts(d, s),
           NEW e, e = Executed(d, s)
    PROVE  /\ DOMAIN e.words = DOMAIN d.words
           /\ \A k \in DOMAIN d.words : e.words[k] = IF k = s.key THEN "seeded" ELSE d.words[k]
           /\ e.schema = d.schema
<1>1. PICK w : w = s.where
    OBVIOUS
<1>2. /\ DOMAIN e[w] = DOMAIN d[w]
      /\ \A k \in DOMAIN d[w] : e[w][k] = IF k = s.key THEN "seeded" ELSE d[w][k]
      /\ \A p \in Parts \ {w} : e[p] = d[p]
    BY <1>1, InsertDoes
<1>3. e.schema = d.schema
    BY <1>1, <1>2 DEF Parts
<1> QED BY <1>1, <1>2, <1>3

\* The rest still leads there after the first is executed.
LEMMA OneNearer ==
    ASSUME NEW r \in Revisions, NEW d, IsDatabase(d), NEW q, IsList(q), q # << >>,
           \A s \in ToSet(q) : Of(r, s), Toward(r, d, q),
           NEW s, s = q[1], Accepts(d, s),
           NEW e, e = Executed(d, s), NEW t, t = Tail(q)
    PROVE  Toward(r, e, t)
<1>1. IsList(t) /\ Of(r, s) /\ \A x : Issued(x, q) <=> x = s \/ Issued(x, t)
    BY Rest DEF Issued
<1>2. s # Refuse
    BY Forms DEF Accepts
<1>3. ASSUME NEW n, n # "push_width", s = CreateOne(n)
      PROVE  /\ Is(e, n, "right") /\ ~Has(d, n)
             /\ \A m : Has(e, m) <=> Has(d, m) \/ m = n
             /\ \A m, x : m # n => (Is(e, m, x) <=> Is(d, m, x))
             /\ \A p \in Parts \ {"schema", "statuses", "words"} : e[p] = d[p]
             /\ n # "code_table" => e.statuses = d.statuses
             /\ n # "keyword_table" => e.words = d.words
             /\ n = "keyword_table" => e.words = [k \in Keywords |-> "absent"]
             /\ \A m : Coming(d, m, q) => Coming(e, m, t)
    <2>1. /\ Is(e, n, "right") /\ ~Has(d, n)
          /\ \A m : Has(e, m) <=> Has(d, m) \/ m = n
          /\ \A m, x : m # n => (Is(e, m, x) <=> Is(d, m, x))
          /\ \A p \in Parts \ {"schema", "statuses", "words"} : e[p] = d[p]
          /\ n # "code_table" => e.statuses = d.statuses
          /\ n # "keyword_table" => e.words = d.words
          /\ n = "keyword_table" => e.words = [k \in Keywords |-> "absent"]
        BY <1>3, OneDoes
    <2>2. \A m : Coming(d, m, q) => Coming(e, m, t)
        BY <1>1, <1>3, <2>1, Forms DEF Coming
    <2> QED BY <2>1, <2>2
<1>4. ASSUME NEW n, n \notin {"code_table", "keyword_table", "push_job"}, s = Drop(n)
      PROVE  /\ \A m : Has(e, m) <=> Has(d, m) /\ m # n
             /\ \A m, x : m # n => (Is(e, m, x) <=> Is(d, m, x))
             /\ \A p \in Parts \ {"schema"} : e[p] = d[p]
             /\ \A m : Issued(CreateOne(m), q) => Issued(CreateOne(m), t)
    <2>1. /\ \A m : Has(e, m) <=> Has(d, m) /\ m # n
          /\ \A m : Has(e, m) => e.schema[m] = d.schema[m]
          /\ \A p \in Parts \ {"schema"} : e[p] = d[p]
        BY <1>4, DropDoes
    <2> QED BY <1>1, <1>4, <2>1, Forms DEF Is
<1>5. ASSUME NEW n, NEW to, n \notin {"code_table", "keyword_table", "push_job"}, s = Alter(n, to)
      PROVE  /\ \A m : Has(e, m) <=> Has(d, m) \/ m = n
             /\ Is(e, n, to)
             /\ \A m, x : m # n => (Is(e, m, x) <=> Is(d, m, x))
             /\ \A p \in Parts \ {"schema"} : e[p] = d[p]
             /\ \A m : Issued(CreateOne(m), q) => Issued(CreateOne(m), t)
    <2>1. /\ \A m : Has(e, m) <=> Has(d, m) \/ m = n
          /\ e.schema[n] = to
          /\ \A m : Has(d, m) /\ m # n => e.schema[m] = d.schema[m]
          /\ \A p \in Parts \ {"schema"} : e[p] = d[p]
        BY <1>5, AlterDoes
    <2> QED BY <1>1, <1>5, <2>1, Forms DEF Is
<1>6. CASE r = "asset_filter"
    <2>1. s = CreateOne("filter_index")
        BY <1>1, <1>6 DEF Of
    <2> QED BY <1>3, <1>6, <2>1 DEF Toward, Coming
<1>7. CASE r = "open_modules"
    <2>1. PICK j \in 1 .. 5 : s = Create(OpenFragments[j])
        BY <1>1, <1>7 DEF Of
    <2>2. OfBaseline(s) /\ s.name = OpenFragments[j].name
        BY <2>1, FragmentIs
    <2>3. \A n : Has(e, n) <=> Has(d, n) \/ n \in DOMAIN s.gives
        BY <2>2, CreateDoes
    <2>4. Has(e, s.name)
        BY <2>2, <2>3 DEF OfBaseline
    <2>5. \A k \in 1 .. 4 : Create(OpenFragments[k]).name = OpenFragments[k].name
        BY DEF Create
    <2>6. \A k \in 1 .. 4 : Has(e, OpenFragments[k].name) \/ Issued(Create(OpenFragments[k]), t)
        BY <1>1, <1>7, <2>3, <2>4, <2>5 DEF Toward
    <2> QED BY <1>7, <2>6 DEF Toward
<1>8. CASE r = "ingestion_identity"
    <2> DEFINE N == AssetColumns \cup LineageColumns \cup {"asset_by_identity"}
    <2>1. /\ Has(d, "lineage") /\ \A n \in N : Has(d, n) \/ Issued(CreateOne(n), q)
          /\ Has(d, "asset_by_name") => Issued(Drop("asset_by_name"), q)
        BY <1>8 DEF Toward
    <2>2. "asset_by_name" \notin N /\ "push_width" \notin N
        BY DEF AssetColumns, LineageColumns
    <2> HIDE DEF N
    <2>3. CASE \E n \in N : s = CreateOne(n)
        <3>1. PICK n \in N : s = CreateOne(n)
            BY <2>3
        <3>2. \A m : Has(e, m) <=> Has(d, m) \/ m = n
            BY <1>3, <2>2, <3>1
        <3>3. /\ Has(e, "lineage") /\ \A m \in N : Has(e, m) \/ Issued(CreateOne(m), t)
              /\ Has(e, "asset_by_name") => Issued(Drop("asset_by_name"), t)
            BY <1>1, <2>1, <2>2, <3>1, <3>2, Forms
        <3> QED BY <1>8, <3>3 DEF Toward, N
    <2>4. CASE s = Drop("asset_by_name")
        <3>1. /\ \A m : Has(e, m) <=> Has(d, m) /\ m # "asset_by_name"
              /\ \A m : Issued(CreateOne(m), q) => Issued(CreateOne(m), t)
            BY <1>4, <2>4
        <3>2. /\ Has(e, "lineage") /\ \A m \in N : Has(e, m) \/ Issued(CreateOne(m), t)
              /\ ~Has(e, "asset_by_name")
            BY <2>1, <2>2, <3>1
        <3> QED BY <1>8, <3>2 DEF Toward, N
    <2> QED BY <1>1, <1>8, <2>3, <2>4 DEF Of, N
<1>9. CASE r = "rbac"
    <2>1. PICK n \in RbacTables \cup {"grant_index"} : s = CreateOne(n)
        BY <1>1, <1>9 DEF Of
    <2>2. n # "push_width"
        BY <2>1 DEF RbacTables
    <2>3. \A m : Coming(d, m, q) => Coming(e, m, t)
        BY <1>3, <2>1, <2>2
    <2> QED BY <1>9, <2>3 DEF Toward
<1>10. CASE r = "upstream_id"
    <2>1. CASE Issued(Refuse, q)
        BY <1>1, <1>2, <1>10, <2>1 DEF Toward
    <2>2. CASE ~Issued(Refuse, q)
        <3>1. /\ Has(d, "upstream_system")
              /\ Has(d, "source_key_index") => Is(d, "source_key_index", "right")
              /\ Is(d, "mapping_upstream", "not_null") \/ Issued(Alter("mapping_upstream", "not_null"), q)
              /\ Is(d, "identity_index", "right") \/ Coming(d, "source_key_index", q)
            BY <1>10, <2>2 DEF Toward
        <3> DEFINE Nearer ==
              /\ Has(e, "upstream_system")
              /\ Has(e, "source_key_index") => Is(e, "source_key_index", "right")
              /\ Is(e, "mapping_upstream", "not_null") \/ Issued(Alter("mapping_upstream", "not_null"), t)
              /\ Is(e, "identity_index", "right") \/ Coming(e, "source_key_index", t)
        <3>2. ASSUME s.do = "assign" PROVE Nearer
            <4>1. e.schema = d.schema
                BY <3>2, AssignDoes DEF Parts
            <4>2. /\ \A n : Has(e, n) <=> Has(d, n)
                  /\ \A n, x : Is(e, n, x) <=> Is(d, n, x)
                BY <4>1 DEF Has, Is
            <4> QED BY <1>1, <3>1, <3>2, <4>2, Forms DEF Coming
        <3>3. ASSUME s = Alter("mapping_source", "null") PROVE Nearer
            <4>1. /\ \A m : Has(e, m) <=> Has(d, m) \/ m = "mapping_source"
                  /\ \A m, x : m # "mapping_source" => (Is(e, m, x) <=> Is(d, m, x))
                  /\ \A m : Issued(CreateOne(m), q) => Issued(CreateOne(m), t)
                BY <1>5, <3>3
            <4>2. Alter("mapping_upstream", "not_null") # s
                BY <3>3, Forms
            <4> QED BY <1>1, <3>1, <4>1, <4>2 DEF Coming
        <3>4. ASSUME s = Alter("mapping_upstream", "not_null") PROVE Nearer
            <4>1. /\ \A m : Has(e, m) <=> Has(d, m) \/ m = "mapping_upstream"
                  /\ Is(e, "mapping_upstream", "not_null")
                  /\ \A m, x : m # "mapping_upstream" => (Is(e, m, x) <=> Is(d, m, x))
                  /\ \A m : Issued(CreateOne(m), q) => Issued(CreateOne(m), t)
                BY <1>5, <3>4
            <4> QED BY <1>1, <3>1, <4>1 DEF Coming
        <3>5. ASSUME s = CreateOne("source_key_index") PROVE Nearer
            <4>1. /\ Is(e, "source_key_index", "right")
                  /\ \A m : Has(e, m) <=> Has(d, m) \/ m = "source_key_index"
                  /\ \A m, x : m # "source_key_index" => (Is(e, m, x) <=> Is(d, m, x))
                BY <1>3, <3>5
            <4>2. Alter("mapping_upstream", "not_null") # s
                BY <3>5, Forms
            <4> QED BY <1>1, <3>1, <4>1, <4>2 DEF Coming
        <3> HIDE DEF Nearer
        <3>6. Nearer
            BY <1>1, <1>2, <1>10, <3>2, <3>3, <3>4, <3>5 DEF Of
        <3> QED BY <1>10, <3>6 DEF Toward, Nearer
    <2> QED BY <2>1, <2>2
<1>11. CASE r = "binary_status"
    <2>1. /\ Has(d, "code_table")
          /\ \A c \in DOMAIN d.statuses :
                /\ d.statuses[c] # "other"
                /\ d.statuses[c] = "active" => Issued(Rewrite("active", "enabled"), q)
                /\ d.statuses[c] = "draft" => Issued(Rewrite("draft", "disabled"), q)
          /\ Is(d, "code_default", "enabled") \/ Issued(Alter("code_default", "enabled"), q)
          /\ Is(d, "code_check", "binary") \/ Issued(CreateCheck, q)
          /\ Issued(Drop("code_check"), q) =>
                /\ q[1] = Drop("code_check") /\ ~Issued(Drop("code_check"), t)
                /\ Issued(CreateCheck, q)
        BY <1>11 DEF Toward
    <2> DEFINE Statuses == \A c \in DOMAIN e.statuses :
                              /\ e.statuses[c] # "other"
                              /\ e.statuses[c] = "active" => Issued(Rewrite("active", "enabled"), t)
                              /\ e.statuses[c] = "draft" => Issued(Rewrite("draft", "disabled"), t)
               Default == Is(e, "code_default", "enabled") \/ Issued(Alter("code_default", "enabled"), t)
               Check == /\ Is(e, "code_check", "binary") \/ Issued(CreateCheck, t)
                        /\ ~Issued(Drop("code_check"), t)
               Nearer == Has(e, "code_table") /\ Statuses /\ Default /\ Check
    <2>2. ~Issued(Drop("code_check"), t)
        BY <1>1, <2>1
    <2>3. ASSUME s = Drop("code_check") PROVE Nearer
        <3>1. /\ \A m : Has(e, m) <=> Has(d, m) /\ m # "code_check"
              /\ \A m, x : m # "code_check" => (Is(e, m, x) <=> Is(d, m, x))
              /\ e.statuses = d.statuses
            BY <1>4, <2>3 DEF Parts
        <3>2. /\ \A x, y : s # Rewrite(x, y)
              /\ \A n, x : s # Alter(n, x)
              /\ s # CreateCheck
            BY <2>3, Forms
        <3>3. Issued(CreateCheck, t)
            BY <1>1, <2>1, <2>3, <3>2
        <3>4. Statuses
            BY <1>1, <2>1, <3>1, <3>2
        <3> QED BY <1>1, <2>1, <2>2, <3>1, <3>2, <3>3, <3>4
    <2>4. ASSUME s \in {Rewrite("active", "enabled"), Rewrite("draft", "disabled")} PROVE Nearer
        <3>1. /\ DOMAIN e.statuses = DOMAIN d.statuses
              /\ \A c \in DOMAIN d.statuses :
                    e.statuses[c] = IF d.statuses[c] = s.old THEN s.new ELSE d.statuses[c]
              /\ e.schema = d.schema
            BY <2>4, RewriteDoes DEF Parts
        <3>2. /\ \A n : Has(e, n) <=> Has(d, n)
              /\ \A n, x : Is(e, n, x) <=> Is(d, n, x)
            BY <3>1 DEF Has, Is
        <3>3. s # CreateCheck /\ \A n, x : s # Alter(n, x)
            BY <2>4, Forms
        <3>4. \/ s.old = "active" /\ s.new = "enabled" /\ s # Rewrite("draft", "disabled")
              \/ s.old = "draft" /\ s.new = "disabled" /\ s # Rewrite("active", "enabled")
            BY <2>4, Forms
        <3>5. Statuses
            BY <1>1, <2>1, <3>1, <3>4
        <3> QED BY <1>1, <2>1, <2>2, <3>2, <3>3, <3>5
    <2>5. ASSUME s = Alter("code_default", "enabled") PROVE Nearer
        <3>1. /\ \A m : Has(e, m) <=> Has(d, m) \/ m = "code_default"
              /\ Is(e, "code_default", "enabled")
              /\ \A m, x : m # "code_default" => (Is(e, m, x) <=> Is(d, m, x))
              /\ e.statuses = d.statuses
            BY <1>5, <2>5 DEF Parts
        <3>2. (\A x, y : s # Rewrite(x, y)) /\ s # CreateCheck
            BY <2>5, Forms
        <3>3. Statuses
            BY <1>1, <2>1, <3>1, <3>2
        <3> QED BY <1>1, <2>1, <2>2, <3>1, <3>2, <3>3
    <2>6. ASSUME s = CreateCheck PROVE Nearer
        <3>1. /\ \A n : Has(e, n) <=> Has(d, n) \/ n = "code_check"
              /\ e.schema["code_check"] = "binary"
              /\ \A n : Has(d, n) /\ n # "code_check" => e.schema[n] = d.schema[n]
              /\ e.statuses = d.statuses
            BY <2>6, CheckIs, CreateDoes
        <3>2. /\ \A m, x : m # "code_check" => (Is(e, m, x) <=> Is(d, m, x))
              /\ Is(e, "code_check", "binary")
            BY <3>1 DEF Is
        <3>3. (\A x, y : s # Rewrite(x, y)) /\ \A n, x : s # Alter(n, x)
            BY <2>6, Forms
        <3>4. Statuses
            BY <1>1, <2>1, <3>1, <3>3
        <3> QED BY <1>1, <2>1, <2>2, <3>1, <3>2, <3>3, <3>4
    <2> HIDE DEF Nearer
    <2>7. Nearer
        BY <1>1, <1>11, <2>3, <2>4, <2>5, <2>6 DEF Of
    <2> QED BY <1>11, <2>7 DEF Toward, Nearer
<1>12. CASE r = "indicator_semantics"
    <2>1. /\ \A n \in IndicatorColumns : Has(d, n) \/ Issued(CreateOne(n), q)
          /\ Coming(d, "reference_index", q)
          /\ \A i \in DOMAIN d.references : Resolved(d, i) = d.references[i] \/ Issued(FillReferences, q)
        BY <1>12 DEF Toward
    <2> DEFINE Nearer ==
          /\ \A n \in IndicatorColumns : Has(e, n) \/ Issued(CreateOne(n), t)
          /\ Coming(e, "reference_index", t)
          /\ \A i \in DOMAIN e.references : Resolved(e, i) = e.references[i] \/ Issued(FillReferences, t)
    <2>2. ASSUME NEW n \in IndicatorColumns \cup {"reference_index"}, s = CreateOne(n) PROVE Nearer
        <3>1. n # "push_width"
            BY <2>2 DEF IndicatorColumns
        <3>2. /\ \A m : Has(e, m) <=> Has(d, m) \/ m = n
              /\ e.references = d.references
              /\ \A m : Coming(d, m, q) => Coming(e, m, t)
            BY <1>3, <2>2, <3>1 DEF Parts
        <3>3. s # FillReferences /\ \A m : s = CreateOne(m) => m = n
            BY <2>2, Forms
        <3>4. \A i : Resolved(e, i) = Resolved(d, i)
            BY <3>2 DEF Resolved
        <3>5. \A m \in IndicatorColumns : Has(e, m) \/ Issued(CreateOne(m), t)
            BY <1>1, <2>1, <3>2, <3>3
        <3> QED BY <1>1, <2>1, <3>2, <3>3, <3>4, <3>5
    <2>3. ASSUME s = FillReferences PROVE Nearer
        <3>1. /\ DOMAIN e.references = DOMAIN d.references
              /\ \A i \in DOMAIN d.references : e.references[i] = Resolved(d, i)
              /\ e.schema = d.schema
            BY <2>3, FillDoes DEF Parts
        <3>2. \A n : s # CreateOne(n)
            BY <2>3, Forms
        <3>3. /\ \A n : Has(e, n) <=> Has(d, n)
              /\ \A n, x : Is(e, n, x) <=> Is(d, n, x)
            BY <3>1 DEF Has, Is
        <3>4. \A set, old : Only(set, Only(set, old)) = Only(set, old)
            BY DEF Only
        <3>5. ASSUME NEW i \in DOMAIN d.references PROVE Resolved(e, i) = e.references[i]
            <4>1. PICK x : x = e.references[i]
                OBVIOUS
            <4>2. PICK y : y = Only(Matches[i], d.references[i].asset)
                OBVIOUS
            <4>3. x = [asset |-> y,
                       field |-> IF y = None THEN d.references[i].field
                                 ELSE Only(FieldMatches[<< i, y >>], d.references[i].field)]
                BY <3>1, <4>1, <4>2 DEF Resolved
            <4>4. Only(Matches[i], x.asset) = y
                BY <3>4, <4>2, <4>3
            <4>5. Resolved(e, i) = [asset |-> y,
                                    field |-> IF y = None THEN x.field
                                              ELSE Only(FieldMatches[<< i, y >>], x.field)]
                BY <4>1, <4>4 DEF Resolved
            <4> QED BY <3>4, <4>1, <4>3, <4>5
        <3> QED BY <1>1, <2>1, <3>1, <3>2, <3>3, <3>5 DEF Coming
    <2> HIDE DEF Nearer
    <2>4. Nearer
        BY <1>1, <1>12, <2>2, <2>3 DEF Of
    <2> QED BY <1>12, <2>4 DEF Toward, Nearer
<1>13. CASE r = "upstream_options"
    <2>1. s.do = "insert" /\ s.where = "options"
        BY <1>1, <1>13 DEF Of
    <2>2. /\ DOMAIN e.options = DOMAIN d.options
          /\ \A k \in DOMAIN d.options : e.options[k] = IF k = s.key THEN "seeded" ELSE d.options[k]
        BY <2>1, OptionInserted
    <2>3. \A k \in Missing(e.options) : Issued(Insert("options", k), t)
        BY <1>1, <1>13, <2>2, Forms DEF Toward, Missing
    <2> QED BY <1>13, <2>3 DEF Toward
<1>14. CASE r = "mapping_identity"
    <2>1. /\ ~Has(d, "other_source_key")
          /\ Has(d, "source_key_index") => Issued(Drop("source_key_index"), q)
          /\ Coming(d, "identity_index", q)
        BY <1>14 DEF Toward
    <2>2. ASSUME s = Drop("source_key_index")
          PROVE  /\ ~Has(e, "other_source_key") /\ ~Has(e, "source_key_index")
                 /\ Coming(e, "identity_index", t)
        BY <1>4, <2>1, <2>2 DEF Coming
    <2>3. ASSUME s = CreateOne("identity_index")
          PROVE  /\ ~Has(e, "other_source_key")
                 /\ Has(e, "source_key_index") => Issued(Drop("source_key_index"), t)
                 /\ Coming(e, "identity_index", t)
        <3>1. /\ \A m : Has(e, m) <=> Has(d, m) \/ m = "identity_index"
              /\ \A m : Coming(d, m, q) => Coming(e, m, t)
            BY <1>3, <2>3
        <3> QED BY <1>1, <2>1, <2>3, <3>1, Forms
    <2> QED BY <1>1, <1>14, <2>2, <2>3 DEF Of, Toward
<1>15. CASE r = "freq_capacity"
    <2>1. s = Alter("push_width", "wide")
        BY <1>1, <1>15 DEF Of
    <2>2. Is(e, "push_width", "wide")
        BY <1>5, <2>1
    <2> QED BY <1>15, <2>2 DEF Toward
<1>16. CASE r = "hot_keywords"
    <2>1. CASE s = CreateOne("keyword_table")
        <3>1. /\ Is(e, "keyword_table", "right") /\ ~Has(d, "keyword_table")
              /\ e.words = [k \in Keywords |-> "absent"]
            BY <1>3, <2>1
        <3>2. \A k \in Keywords : Issued(Insert("words", k), q)
            BY <1>16, <3>1 DEF Toward, Is
        <3>3. \A k \in Missing(e.words) : Issued(Insert("words", k), t)
            BY <1>1, <2>1, <3>1, <3>2, Forms DEF Missing
        <3> QED BY <1>16, <3>1, <3>3 DEF Toward
    <2>2. CASE s.do = "insert" /\ s.where = "words"
        <3>1. /\ DOMAIN e.words = DOMAIN d.words
              /\ \A k \in DOMAIN d.words : e.words[k] = IF k = s.key THEN "seeded" ELSE d.words[k]
              /\ e.schema = d.schema
            BY <2>2, WordInserted
        <3>2. q[1] # CreateOne("keyword_table")
            BY <2>2, Forms
        <3>3. /\ Is(d, "keyword_table", "right")
              /\ \A k \in Missing(d.words) : Issued(Insert("words", k), q)
            BY <1>16, <3>2 DEF Toward
        <3>4. Is(e, "keyword_table", "right")
            BY <3>1, <3>3 DEF Is, Has
        <3>5. \A k \in Missing(e.words) : Issued(Insert("words", k), t)
            BY <1>1, <2>2, <3>1, <3>3, Forms DEF Missing
        <3> QED BY <1>16, <3>4, <3>5 DEF Toward
    <2> QED BY <1>1, <1>16, <2>1, <2>2 DEF Of
<1>17. CASE r = "field_filter"
    <2>1. s = CreateOne("field_index")
        BY <1>1, <1>17 DEF Of
    <2> QED BY <1>3, <1>17, <2>1 DEF Toward, Coming
<1>18. CASE r = "rag_config"
    <2>1. s = Insert("rag", "rag")
        BY <1>1, <1>2, <1>18 DEF Of
    <2>2. e.rag = "seeded"
        BY <2>1, InsertDoes, Forms
    <2> QED BY <1>18, <2>2 DEF Toward
<1> QED
    BY <1>6, <1>7, <1>8, <1>9, <1>10, <1>11, <1>12, <1>13, <1>14, <1>15, <1>16, <1>17, <1>18,
       RevisionNames

-----------------------------------------------------------------------------
(* What others do, and the seeds                                            *)

LEMMA SurviveOn ==
    ASSUME NEW a, NEW b, NEW c, Survive(a, b), Survive(b, c)
    PROVE  Survive(a, c)
<1>1. \A r \in DOMAIN a.mappings :
         r \in DOMAIN c.mappings /\ a.mappings[r].upstream \in {None, c.mappings[r].upstream}
    BY DEF Survive
<1>2. \A i \in DOMAIN a.references :
         /\ i \in DOMAIN c.references
         /\ a.references[i].asset \in {None, c.references[i].asset}
         /\ a.references[i].field \in {None, c.references[i].field}
    BY DEF Survive
<1>3. ASSUME NEW x \in DOMAIN a.statuses
      PROVE  /\ x \in DOMAIN c.statuses
             /\ << a.statuses[x], c.statuses[x] >> \in
                   {<< "active", "enabled" >>, << "draft", "disabled" >>,
                    << a.statuses[x], a.statuses[x] >>}
    <2>1. /\ x \in DOMAIN b.statuses
          /\ \/ a.statuses[x] = "active" /\ b.statuses[x] = "enabled"
             \/ a.statuses[x] = "draft" /\ b.statuses[x] = "disabled"
             \/ b.statuses[x] = a.statuses[x]
        BY <1>3 DEF Survive
    <2>2. /\ x \in DOMAIN c.statuses
          /\ \/ b.statuses[x] = "active" /\ c.statuses[x] = "enabled"
             \/ b.statuses[x] = "draft" /\ c.statuses[x] = "disabled"
             \/ c.statuses[x] = b.statuses[x]
        BY <2>1 DEF Survive
    <2> QED BY <2>1, <2>2
<1>4. \A p \in {"options", "words", "roles", "menus"} :
         DOMAIN a[p] \subseteq DOMAIN c[p] /\ Kept(a[p], c[p])
    <2>1. ASSUME NEW p \in {"options", "words", "roles", "menus"}
          PROVE  DOMAIN a[p] \subseteq DOMAIN c[p] /\ Kept(a[p], c[p])
        <3>1. /\ DOMAIN a[p] \subseteq DOMAIN b[p] /\ Kept(a[p], b[p])
              /\ DOMAIN b[p] \subseteq DOMAIN c[p] /\ Kept(b[p], c[p])
            BY <2>1 DEF Survive
        <3> QED BY <3>1 DEF Kept
    <2> QED BY <2>1
<1>5. a.rag \in {"absent", c.rag}
    BY DEF Survive
<1> QED BY <1>1, <1>2, <1>3, <1>4, <1>5 DEF Survive

\* A seed writes rows no revision reads, and replaces none.
LEMMA SeedDoes ==
    ASSUME NEW d, IsDatabase(d), NEW part \in {"roles", "menus"}, NEW e,
           e = [d EXCEPT ![part] = InsertAbsent(d[part])]
    PROVE  /\ IsDatabase(e) /\ Survive(d, e) /\ e.schema = d.schema
           /\ \A r \in Revisions : Inspect(r, e) = Inspect(r, d)
<1>1. /\ DOMAIN e = Parts /\ e[part] = InsertAbsent(d[part])
      /\ \A p \in Parts \ {part} : e[p] = d[p]
    BY DEF IsDatabase, Parts
<1>2. /\ e.schema = d.schema /\ e.mappings = d.mappings /\ e.systems = d.systems
      /\ e.statuses = d.statuses /\ e.references = d.references /\ e.options = d.options
      /\ e.words = d.words /\ e.rag = d.rag
    BY <1>1 DEF Parts
<1>3. \A p \in {"options", "words", "roles", "menus"} :
         DOMAIN d[p] \subseteq DOMAIN e[p] /\ Kept(d[p], e[p])
    BY <1>1 DEF Kept, InsertAbsent, Parts
<1>4. IsDatabase(e)
    BY <1>1, <1>2 DEF IsDatabase, Has
<1>5. Survive(d, e)
    BY <1>2, <1>3 DEF Survive
<1>6. ASSUME NEW r \in Revisions PROVE Inspect(r, e) = Inspect(r, d)
    <2>1. \A p \in ReadRows(r) : e[p] = d[p]
        BY <1>2, RevisionNames DEF ReadRows
    <2>2. \A n \in ReadObjects(r) : SameObject(d, e, n)
        BY <1>2 DEF SameObject, Has
    <2> QED BY <2>1, <2>2, InspectionReads DEF Same
<1> QED BY <1>2, <1>4, <1>5, <1>6

\* Others change what one revision inspects, and no object but 0002's index.
LEMMA ChangedDoes ==
    ASSUME NEW c \in Changes, NEW d, IsDatabase(d), NEW e, e = Changed(c, d)
    PROVE  /\ IsDatabase(e)
           /\ \A n : n = "filter_index" \/ SameObject(d, e, n)
           /\ About[c.what] \in {About[w] : w \in DOMAIN About}
           /\ \A r \in Revisions : r # About[c.what] => Inspect(r, e) = Inspect(r, d)
<1> DEFINE Goal == /\ IsDatabase(e)
                   /\ \A n : n = "filter_index" \/ SameObject(d, e, n)
                   /\ \A r \in Revisions : r # About[c.what] => Inspect(r, e) = Inspect(r, d)
<1>1. c.what \in DOMAIN About /\ DOMAIN About = {"mappings", "options", "words", "statuses", "index"}
    BY ChangesAssumption DEF About
<1>2. DOMAIN d = Parts
    BY DEF IsDatabase
<1>3. ASSUME e = d PROVE Goal
    BY <1>3 DEF SameObject
<1>4. ASSUME NEW part \in Parts \ {"schema"}, \A p \in Parts \ {part} : e[p] = d[p],
             \A r \in Revisions : r # About[c.what] => part \notin ReadRows(r)
      PROVE  /\ e.schema = d.schema /\ \A n : SameObject(d, e, n)
             /\ \A r \in Revisions : r # About[c.what] => Inspect(r, e) = Inspect(r, d)
    <2>1. e.schema = d.schema
        BY <1>4 DEF Parts
    <2>2. \A n : SameObject(d, e, n)
        BY <2>1 DEF SameObject, Has
    <2>3. \A r \in Revisions : ReadRows(r) \subseteq Parts
        BY RevisionNames DEF ReadRows, Parts
    <2>4. ASSUME NEW r \in Revisions, r # About[c.what] PROVE Inspect(r, e) = Inspect(r, d)
        <3>1. \A p \in ReadRows(r) : e[p] = d[p]
            BY <1>4, <2>3, <2>4
        <3>2. Same(d, e, ReadObjects(r), ReadRows(r))
            BY <2>2, <3>1 DEF Same
        <3> QED BY <3>2, InspectionReads
    <2> QED BY <2>1, <2>2, <2>4
<1>5. ASSUME c.what = "mappings" PROVE Goal
    <2>1. CASE e = d
        BY <1>3, <2>1
    <2>2. CASE e # d
        <3> DEFINE m == [d.mappings EXCEPT ![c.key].upstream = c.to]
        <3>1. e = [d EXCEPT !.mappings = m]
            BY <1>5, <2>2 DEF Changed
        <3>2. /\ DOMAIN m = DOMAIN d.mappings
              /\ \A r \in DOMAIN d.mappings : DOMAIN m[r] = DOMAIN d.mappings[r]
            OBVIOUS
        <3> HIDE DEF m
        <3>3. DOMAIN e = Parts /\ e.mappings = m /\ \A p \in Parts \ {"mappings"} : e[p] = d[p]
            BY <1>2, <3>1 DEF Parts
        <3>4. \A r \in Revisions : r # About[c.what] => "mappings" \notin ReadRows(r)
            BY <1>5, RevisionNames DEF About, ReadRows
        <3>5. /\ e.schema = d.schema /\ \A n : SameObject(d, e, n)
              /\ \A r \in Revisions : r # About[c.what] => Inspect(r, e) = Inspect(r, d)
            BY <1>4, <3>3, <3>4 DEF Parts
        <3>6. e.statuses = d.statuses /\ e.references = d.references /\ e.options = d.options /\ e.words = d.words
            BY <3>3 DEF Parts
        <3>7. IsDatabase(e)
            BY <3>2, <3>3, <3>5, <3>6 DEF IsDatabase, Has
        <3> QED BY <3>5, <3>7
    <2> QED BY <2>1, <2>2
<1>6. ASSUME c.what \in {"options", "words"} PROVE Goal
    <2>1. CASE e = d
        BY <1>3, <2>1
    <2>2. CASE e # d
        <3> DEFINE m == [d[c.what] EXCEPT ![c.key] = "custom"]
        <3>1. e = [d EXCEPT ![c.what] = m]
            BY <1>6, <2>2 DEF Changed
        <3>2. DOMAIN m = DOMAIN d[c.what]
            OBVIOUS
        <3> HIDE DEF m
        <3>3. DOMAIN e = Parts /\ e[c.what] = m /\ \A p \in Parts \ {c.what} : e[p] = d[p]
            BY <1>2, <1>6, <3>1 DEF Parts
        <3>4. \A r \in Revisions : r # About[c.what] => c.what \notin ReadRows(r)
            BY <1>6, RevisionNames DEF About, ReadRows
        <3>5. /\ e.schema = d.schema /\ \A n : SameObject(d, e, n)
              /\ \A r \in Revisions : r # About[c.what] => Inspect(r, e) = Inspect(r, d)
            BY <1>4, <1>6, <3>3, <3>4 DEF Parts
        <3>6. /\ e.statuses = d.statuses /\ e.references = d.references /\ e.mappings = d.mappings
              /\ DOMAIN e.options = DOMAIN d.options /\ DOMAIN e.words = DOMAIN d.words
            BY <1>6, <3>2, <3>3 DEF Parts
        <3>7. IsDatabase(e)
            BY <3>3, <3>5, <3>6 DEF IsDatabase, Has
        <3> QED BY <3>5, <3>7
    <2> QED BY <2>1, <2>2
<1>7. ASSUME c.what = "statuses" PROVE Goal
    <2>1. CASE e = d
        BY <1>3, <2>1
    <2>2. CASE e # d
        <3> DEFINE m == [d.statuses EXCEPT ![c.key] =
                           IF Is(d, "code_check", "binary") THEN "enabled" ELSE "active"]
        <3>1. e = [d EXCEPT !.statuses = m]
            BY <1>7, <2>2 DEF Changed
        <3>2. DOMAIN m = DOMAIN d.statuses
            OBVIOUS
        <3> HIDE DEF m
        <3>3. DOMAIN e = Parts /\ e.statuses = m /\ \A p \in Parts \ {"statuses"} : e[p] = d[p]
            BY <1>2, <3>1 DEF Parts
        <3>4. \A r \in Revisions : r # About[c.what] => "statuses" \notin ReadRows(r)
            BY <1>7, RevisionNames DEF About, ReadRows
        <3>5. /\ e.schema = d.schema /\ \A n : SameObject(d, e, n)
              /\ \A r \in Revisions : r # About[c.what] => Inspect(r, e) = Inspect(r, d)
            BY <1>4, <3>3, <3>4 DEF Parts
        <3>6. e.mappings = d.mappings /\ e.references = d.references /\ e.options = d.options /\ e.words = d.words
            BY <3>3 DEF Parts
        <3>7. IsDatabase(e)
            BY <3>2, <3>3, <3>5, <3>6 DEF IsDatabase, Has
        <3> QED BY <3>5, <3>7
    <2> QED BY <2>1, <2>2
<1>8. ASSUME c.what = "index" PROVE Goal
    <2>1. CASE e = d
        BY <1>3, <2>1
    <2>2. CASE e # d
        <3>1. e = [d EXCEPT !.schema = Defining(d.schema, [filter_index |-> "right"])]
            BY <1>8, <2>2 DEF Changed
        <3>2. /\ DOMAIN e = Parts /\ e.schema = Defining(d.schema, [filter_index |-> "right"])
              /\ \A p \in Parts \ {"schema"} : e[p] = d[p]
            BY <1>2, <3>1 DEF Parts
        <3>3. \A n : n = "filter_index" \/ SameObject(d, e, n)
            BY <3>2 DEF SameObject, Has, Defining
        <3>4. ASSUME NEW r \in Revisions, r # About[c.what] PROVE Inspect(r, e) = Inspect(r, d)
            <4>1. "filter_index" \notin ReadObjects(r)
                BY <1>8, <3>4, RevisionNames DEF About, ReadObjects, OpenTables, AssetColumns,
                   LineageColumns, IndicatorColumns, RbacTables
            <4>2. ReadRows(r) \subseteq Parts \ {"schema"}
                BY RevisionNames DEF ReadRows, Parts
            <4>3. Same(d, e, ReadObjects(r), ReadRows(r))
                BY <3>2, <3>3, <4>1, <4>2 DEF Same
            <4> QED BY <4>3, InspectionReads
        <3>5. /\ e.mappings = d.mappings /\ e.references = d.references /\ e.options = d.options
              /\ e.words = d.words /\ e.statuses = d.statuses
            BY <3>2 DEF Parts
        <3>6. IsDatabase(e)
            BY <3>2, <3>3, <3>5 DEF IsDatabase, SameObject
        <3> QED BY <3>3, <3>4, <3>6
    <2> QED BY <2>1, <2>2
<1> HIDE DEF Goal
<1>9. Goal
    BY <1>1, <1>5, <1>6, <1>7, <1>8
<1> QED BY <1>1, <1>9 DEF Goal

-----------------------------------------------------------------------------
(* No row is lost: the runner's invariant                                   *)

LEMMA BaselineList == IsList(Baseline) /\ \A s \in ToSet(Baseline) : OfBaseline(s)
<1>1. PICK o : o = ApplyOpenModules
    OBVIOUS
<1>2. PICK w : w = [k \in DOMAIN RbacFragments |-> Create(RbacFragments[k])]
    OBVIOUS
<1>3. PICK a : a = << Create(CoreFragment) >>
    OBVIOUS
<1>4. PICK z : z = << Create(KeywordFragment) >>
    OBVIOUS
<1>5. Baseline = a \o o \o w \o z
    BY <1>1, <1>2, <1>3, <1>4 DEF Baseline
<1>6. IsList(o) /\ \A s \in ToSet(o) : OfBaseline(s)
    BY <1>1, OpenList, FragmentIs
<1>7. IsList(w) /\ \A s \in ToSet(w) : OfBaseline(s)
    <2>1. DOMAIN RbacFragments = 1 .. 4
        BY DEF RbacFragments
    <2>2. \A k \in 1 .. 4 : k \in {1, 2, 3, 4}
        OBVIOUS
    <2>3. /\ w[1] = CreateOne("role") /\ w[2] = CreateOne("permission")
          /\ w[3] = CreateOne("role_permission") /\ w[4] = CreateOne("grant_index")
        BY <1>2, <2>1 DEF RbacFragments, Create, CreateOne
    <2>4. \A k \in 1 .. 4 : OfBaseline(w[k])
        BY <2>2, <2>3, OneIs
    <2> DEFINE S == {w[k] : k \in 1 .. 4}
    <2>5. w \in [1 .. 4 -> S]
        BY <1>2, <2>1
    <2>6. \A s \in S : OfBaseline(s)
        BY <2>4
    <2> HIDE DEF S
    <2>7. w \in Seq(S)
        BY <2>5, SeqDef
    <2> QED BY <2>6, <2>7, ListOfAny
<1>8. IsList(a) /\ \A s \in ToSet(a) : OfBaseline(s)
    <2>1. IsList(a) /\ ToSet(a) = {Create(CoreFragment)}
        BY <1>3, OneAndTwo
    <2>2. OfBaseline(Create(CoreFragment))
        BY DEF OfBaseline, Create, CoreFragment, Right, AssetColumns, IndicatorColumns
    <2> QED BY <2>1, <2>2
<1>9. IsList(z) /\ \A s \in ToSet(z) : OfBaseline(s)
    <2>1. IsList(z) /\ ToSet(z) = {Create(KeywordFragment)}
        BY <1>4, OneAndTwo
    <2>2. OfBaseline(Create(KeywordFragment))
        BY DEF OfBaseline, Create, KeywordFragment, Right
    <2> QED BY <2>1, <2>2
<1>10. PICK ao : ao = a \o o \o w
    OBVIOUS
<1>11. IsList(ao) /\ ToSet(ao) = ToSet(a) \cup ToSet(o) \cup ToSet(w)
    BY <1>6, <1>7, <1>8, <1>10, Joined3
<1>12. IsList(ao \o z) /\ ToSet(ao \o z) = ToSet(ao) \cup ToSet(z)
    BY <1>9, <1>11, Joined
<1> QED BY <1>5, <1>6, <1>7, <1>8, <1>9, <1>10, <1>11, <1>12

LEMMA Places ==
    ASSUME StageInPlace, ledger # None
    PROVE  /\ ledger \in 0 .. HeadRevision /\ HeadRevision = 13
           /\ ledger # HeadRevision => ledger + 1 \in 1 .. HeadRevision /\ Current \in Revisions
BY ChainIs, RevisionNames DEF StageInPlace, Current

LEMMA RunInit == Init => RunInv
<1> SUFFICES ASSUME Init PROVE RunInv
    OBVIOUS
<1>1. PICK s \in Situations, mode \in DdlModes :
         /\ db = s.db /\ work = s.db /\ ledger = s.ledger
         /\ stage = "off" /\ todo = << >> /\ touched = {}
    BY DEF Init
<1>2. IsDatabase(s.db) /\ s.ledger \in {None} \cup 0 .. HeadRevision
    BY SituationsAssumption
<1>3. Survive(db, work)
    BY <1>1, KeptAsIs
<1>4. TodoInPlace
    BY <1>1, NoList DEF TodoInPlace
<1>5. StageInPlace
    BY <1>1, <1>2 DEF StageInPlace
<1> QED BY <1>1, <1>2, <1>3, <1>4, <1>5 DEF RunInv

\* One statement, whatever is made of it.
LEMMA ExecuteKeeps ==
    ASSUME RunInv, Execute
    PROVE  /\ Accepts(work, todo[1]) =>
                /\ work' = Executed(work, todo[1]) /\ IsDatabase(work') /\ Survive(work, work')
                /\ stage = "run" => /\ Of(Current, todo[1]) /\ Current \in Revisions
                                    /\ Differ(Current, work, work')
                /\ db' = work' \/ db' = db
                /\ todo' = Tail(todo) /\ UNCHANGED << ledger, stage, touched >>
                /\ IsList(todo') /\ ToSet(todo') \subseteq ToSet(todo)
           /\ ~Accepts(work, todo[1]) => Fail("refused")
<1>1. stage \in {"baseline", "run"} /\ todo # << >> /\ IsList(todo) /\ IsDatabase(work)
    BY DEF Execute, RunInv, TodoInPlace
<1>2. IsList(Tail(todo)) /\ todo[1] \in ToSet(todo) /\ ToSet(Tail(todo)) \subseteq ToSet(todo)
    BY <1>1, Rest
<1>3. PICK s : s = todo[1]
    OBVIOUS
<1>4. ASSUME Accepts(work, s)
      PROVE  /\ work' = Executed(work, s) /\ (db' = work' \/ db' = db)
             /\ todo' = Tail(todo) /\ UNCHANGED << ledger, stage, touched >>
    BY <1>3, <1>4 DEF Execute
<1>5. ASSUME ~Accepts(work, s) PROVE Fail("refused")
    BY <1>3, <1>5 DEF Execute
<1>6. ASSUME Accepts(work, s), stage = "baseline"
      PROVE  IsDatabase(work') /\ Survive(work, work')
    <2>1. OfBaseline(s)
        BY <1>2, <1>3, <1>6 DEF RunInv, TodoInPlace
    <2> QED BY <1>1, <1>4, <1>6, <2>1, CreateDoes
<1>7. ASSUME Accepts(work, s), stage = "run"
      PROVE  /\ IsDatabase(work') /\ Survive(work, work')
             /\ Of(Current, s) /\ Current \in Revisions /\ Differ(Current, work, work')
    <2>1. Of(Current, s)
        BY <1>2, <1>3, <1>7 DEF RunInv, TodoInPlace
    <2>2. Current \in Revisions
        BY <1>7, Places DEF RunInv, StageInPlace
    <2> QED BY <1>1, <1>4, <1>7, <2>1, <2>2, Footprint
<1> QED BY <1>1, <1>2, <1>3, <1>4, <1>5, <1>6, <1>7

\* Every action but a statement, the seeds and what others do leaves the two
\* databases alone, commits what the runner sees, or falls back on what is committed.
LEMMA Databases ==
    ASSUME RunInv, [Next]_vars, ~Execute, ~SeedRbac, ~SeedMenus, ~Elsewhere
    PROVE  << db', work' >> \in {<< db, work >>, << db, db >>, << work, work >>}
<1>1. CASE Start \/ VerifyBaseline \/ Look \/ Confirm \/ VerifyHead \/ RefuseTables
    BY <1>1 DEF Start, VerifyBaseline, Look, Confirm, VerifyHead, RefuseTables, Fail, Stop
<1>2. CASE Begin \/ OpenLedger \/ Commit \/ Exit \/ Crash
    BY <1>2 DEF Begin, OpenLedger, Commit, Exit, Crash, Stop
<1>3. CASE UNCHANGED vars
    BY <1>3 DEF vars
<1> QED BY <1>1, <1>2, <1>3 DEF Next, Runner

LEMMA DatabasesStay ==
    ASSUME RunInv, [Next]_vars
    PROVE  IsDatabase(db)' /\ IsDatabase(work)' /\ Survive(db, work)'
<1>1. CASE Execute
    <2>1. CASE Accepts(work, todo[1])
        BY <1>1, <2>1, ExecuteKeeps, SurviveOn, KeptAsIs DEF RunInv
    <2>2. CASE ~Accepts(work, todo[1])
        BY <1>1, <2>2, ExecuteKeeps, KeptAsIs DEF RunInv, Fail, Stop
    <2> QED BY <2>1, <2>2
<1>2. CASE SeedRbac
    <2>1. db' = [db EXCEPT !["roles"] = InsertAbsent(db["roles"])] /\ work' = db'
        BY <1>2 DEF SeedRbac
    <2>2. IsDatabase(db')
        BY <2>1, SeedDoes DEF RunInv
    <2> QED BY <2>1, <2>2, KeptAsIs
<1>3. CASE SeedMenus
    <2>1. db' = [db EXCEPT !["menus"] = InsertAbsent(db["menus"])] /\ work' = db'
        BY <1>3 DEF SeedMenus
    <2>2. IsDatabase(db')
        BY <2>1, SeedDoes DEF RunInv
    <2> QED BY <2>1, <2>2, KeptAsIs
<1>4. CASE Elsewhere
    <2>1. PICK c \in Changes : db' = Changed(c, db) /\ work' = db'
        BY <1>4 DEF Elsewhere
    <2>2. IsDatabase(db')
        BY <2>1, ChangedDoes DEF RunInv
    <2> QED BY <2>1, <2>2, KeptAsIs
<1>5. CASE ~Execute /\ ~SeedRbac /\ ~SeedMenus /\ ~Elsewhere
    BY <1>5, Databases, KeptAsIs DEF RunInv
<1> QED BY <1>1, <1>2, <1>3, <1>4, <1>5

LEMMA TouchedStay ==
    ASSUME RunInv, [Next]_vars
    PROVE  /\ (touched \subseteq {About[w] : w \in DOMAIN About})' /\ ddlCommits' = ddlCommits
           /\ ~Elsewhere => touched' = touched
<1>1. CASE Elsewhere
    <2>1. PICK c \in Changes : db' = Changed(c, db) /\ touched' = touched \cup {About[c.what]}
        BY <1>1 DEF Elsewhere
    <2>2. About[c.what] \in {About[w] : w \in DOMAIN About}
        BY <2>1, ChangedDoes DEF RunInv
    <2> QED BY <1>1, <2>1, <2>2 DEF RunInv, Elsewhere, fixed
<1>2. CASE ~Elsewhere
    <2>1. touched' = touched /\ ddlCommits' = ddlCommits
        <3>1. CASE Start \/ RefuseTables \/ VerifyBaseline \/ Look \/ Confirm \/ VerifyHead
            BY <3>1 DEF Start, VerifyBaseline, Look, Confirm, VerifyHead, RefuseTables, Fail, fixed
        <3>2. CASE Begin \/ OpenLedger \/ Commit \/ Exit \/ Crash
            BY <3>2 DEF Begin, OpenLedger, Commit, Exit, Crash, fixed
        <3>3. CASE SeedRbac \/ SeedMenus \/ Execute
            BY <3>3 DEF SeedRbac, SeedMenus, Execute, Fail, fixed
        <3>4. CASE UNCHANGED vars
            BY <3>4 DEF vars
        <3> QED BY <1>2, <3>1, <3>2, <3>3, <3>4 DEF Next, Runner
    <2> QED BY <1>2, <2>1 DEF RunInv
<1> QED BY <1>1, <1>2

LEMMA StageStays ==
    ASSUME RunInv, [Next]_vars
    PROVE  StageInPlace'
<1> USE ChainIs, NoneAssumption
<1>1. StageInPlace
    BY DEF RunInv
<1>2. CASE Start
    BY <1>1, <1>2 DEF Start, StageInPlace
<1>3. CASE RefuseTables
    BY <1>1, <1>3 DEF RefuseTables, Fail, Stop, StageInPlace
<1>4. CASE Execute
    BY <1>1, <1>4 DEF Execute, Fail, Stop, StageInPlace
<1>5. CASE VerifyBaseline
    BY <1>1, <1>5 DEF VerifyBaseline, Fail, Stop, StageInPlace
<1>6. CASE Look
    BY <1>1, <1>6 DEF Look, Fail, Stop, StageInPlace
<1>7. CASE Begin
    BY <1>1, <1>7 DEF Begin, StageInPlace
<1>8. CASE Confirm
    BY <1>1, <1>8 DEF Confirm, Fail, Stop, StageInPlace
<1>9. CASE OpenLedger
    BY <1>1, <1>9 DEF OpenLedger, StageInPlace
<1>10. CASE Commit
    BY <1>1, <1>10 DEF Commit, StageInPlace
<1>11. CASE VerifyHead
    BY <1>1, <1>11 DEF VerifyHead, Fail, Stop, StageInPlace
<1>12. CASE SeedRbac \/ SeedMenus \/ Exit \/ Crash \/ Elsewhere \/ UNCHANGED vars
    BY <1>1, <1>12 DEF SeedRbac, SeedMenus, Exit, Crash, Elsewhere, Stop, vars, StageInPlace
<1> QED
    BY <1>2, <1>3, <1>4, <1>5, <1>6, <1>7, <1>8, <1>9, <1>10, <1>11, <1>12 DEF Next, Runner

LEMMA TodoStays ==
    ASSUME RunInv, [Next]_vars
    PROVE  TodoInPlace'
<1>1. TodoInPlace /\ StageInPlace /\ IsDatabase(work)
    BY DEF RunInv
<1>2. ASSUME todo' = << >>, stage' \notin {"baseline", "run"} PROVE TodoInPlace'
    BY <1>2, NoList DEF TodoInPlace
<1>3. ASSUME UNCHANGED << todo, stage, ledger >> PROVE TodoInPlace'
    BY <1>1, <1>3 DEF TodoInPlace, Current
<1>4. CASE Start
    <2>1. \/ stage' = "baseline" /\ todo' = Baseline
          \/ stage' = "next" /\ todo' = << >>
        BY <1>4 DEF Start
    <2> QED BY <1>2, <2>1, BaselineList DEF TodoInPlace
<1>5. CASE RefuseTables \/ Exit \/ Crash
    BY <1>2, <1>5 DEF RefuseTables, Fail, Exit, Crash, Stop
<1>6. CASE Execute
    <2>1. CASE Accepts(work, todo[1])
        <3>1. /\ IsList(todo') /\ ToSet(todo') \subseteq ToSet(todo)
              /\ UNCHANGED << ledger, stage >> /\ stage \in {"baseline", "run"}
            BY <1>6, <2>1, ExecuteKeeps DEF Execute
        <3> QED BY <1>1, <3>1 DEF TodoInPlace, Current
    <2>2. CASE ~Accepts(work, todo[1])
        BY <1>2, <1>6, <2>2, ExecuteKeeps DEF Fail, Stop
    <2> QED BY <2>1, <2>2
<1>7. CASE VerifyBaseline
    BY <1>2, <1>7 DEF VerifyBaseline, Fail, Stop
<1>8. CASE Look
    <2>1. todo = << >>
        BY <1>1, <1>8 DEF Look, TodoInPlace
    <2> QED BY <1>2, <1>8, <2>1 DEF Look, Fail, Stop
<1>9. CASE Begin
    <2>1. /\ stage' = "run" /\ ledger' = ledger /\ todo' = Statements(Current, looked, work)
          /\ stage = "apply"
        BY <1>9 DEF Begin, Current
    <2>2. Current \in Revisions
        BY <1>1, <2>1, Places DEF StageInPlace
    <2>3. IsList(todo') /\ \A s \in ToSet(todo') : Of(Current, s)
        BY <1>1, <2>1, <2>2, StatementsAre
    <2> QED BY <2>1, <2>3 DEF TodoInPlace, Current
<1>10. CASE Confirm
    BY <1>2, <1>10 DEF Confirm, Fail, Stop
<1>11. CASE OpenLedger \/ Commit \/ SeedRbac \/ SeedMenus
    <2>1. todo = << >>
        BY <1>1, <1>11 DEF OpenLedger, Commit, SeedRbac, SeedMenus, TodoInPlace
    <2> QED BY <1>2, <1>11, <2>1 DEF OpenLedger, Commit, SeedRbac, SeedMenus
<1>12. CASE VerifyHead
    <2>1. todo = << >>
        BY <1>1, <1>12 DEF VerifyHead, TodoInPlace
    <2> QED BY <1>2, <1>12, <2>1 DEF VerifyHead, Fail, Stop
<1>13. CASE Elsewhere \/ UNCHANGED vars
    BY <1>3, <1>13 DEF Elsewhere, vars
<1> QED
    BY <1>4, <1>5, <1>6, <1>7, <1>8, <1>9, <1>10, <1>11, <1>12, <1>13 DEF Next, Runner

LEMMA RunStep == RunInv /\ [Next]_vars => RunInv'
<1> SUFFICES ASSUME RunInv, [Next]_vars PROVE RunInv'
    OBVIOUS
<1>1. IsDatabase(db)' /\ IsDatabase(work)' /\ Survive(db, work)'
    BY DatabasesStay
<1>2. StageInPlace' /\ TodoInPlace'
    BY StageStays, TodoStays
<1>3. /\ (touched \subseteq {About[w] : w \in DOMAIN About})' /\ ddlCommits' = ddlCommits
    BY TouchedStay
<1> QED BY <1>1, <1>2, <1>3 DEF RunInv

LEMMA RowsStep ==
    ASSUME RunInv, [Next]_vars, ~Elsewhere
    PROVE  Survive(db, db')
<1>1. CASE Execute
    <2>1. CASE Accepts(work, todo[1])
        BY <1>1, <2>1, ExecuteKeeps, SurviveOn, KeptAsIs DEF RunInv
    <2>2. CASE ~Accepts(work, todo[1])
        BY <1>1, <2>2, ExecuteKeeps, KeptAsIs DEF RunInv, Fail, Stop
    <2> QED BY <2>1, <2>2
<1>2. CASE SeedRbac
    <2>1. db' = [db EXCEPT !["roles"] = InsertAbsent(db["roles"])]
        BY <1>2 DEF SeedRbac
    <2> QED BY <2>1, SeedDoes DEF RunInv
<1>3. CASE SeedMenus
    <2>1. db' = [db EXCEPT !["menus"] = InsertAbsent(db["menus"])]
        BY <1>3 DEF SeedMenus
    <2> QED BY <2>1, SeedDoes DEF RunInv
<1>4. CASE ~Execute /\ ~SeedRbac /\ ~SeedMenus
    BY <1>4, Databases, KeptAsIs DEF RunInv
<1> QED BY <1>1, <1>2, <1>3, <1>4

\* The runner's invariant: the databases are databases, the statements still to
\* issue are those of the revision under way, and nothing committed is lost in
\* what the runner sees (code: apply_revisions holds one transaction per revision
\* and its statements only add, fill what is NULL and rename statuses).
THEOREM RunnerInvariant == Spec => []RunInv
BY RunInit, RunStep, PTL DEF Spec

\* No step of a runner, stopped or not, loses or replaces what an installation
\* has (code: the NULL-only updates of 0006 and 0008 and the insert-missing seeds).
THEOREM RowsStay == Spec => RowsSurvive
<1> DEFINE Body ==
       ~Elsewhere =>
        /\ \A r \in DOMAIN db.mappings :
              db.mappings[r].upstream \in {None, db'.mappings[r].upstream}
        /\ \A i \in DOMAIN db.references :
              /\ db.references[i].asset \in {None, db'.references[i].asset}
              /\ db.references[i].field \in {None, db'.references[i].field}
        /\ \A c \in DOMAIN db.statuses :
              << db.statuses[c], db'.statuses[c] >> \in
                  {<< "active", "enabled" >>, << "draft", "disabled" >>,
                   << db.statuses[c], db.statuses[c] >>}
        /\ Kept(db.options, db'.options) /\ Kept(db.words, db'.words)
        /\ Kept(db.roles, db'.roles) /\ Kept(db.menus, db'.menus)
        /\ db.rag \in {"absent", db'.rag}
<1>1. RunInv /\ [Next]_vars => [Body]_vars
    <2> SUFFICES ASSUME RunInv, [Next]_vars, ~Elsewhere PROVE Body
        OBVIOUS
    <2>1. Survive(db, db')
        BY RowsStep
    <2>2. \A r \in DOMAIN db.mappings :
             db.mappings[r].upstream \in {None, db'.mappings[r].upstream}
        BY <2>1 DEF Survive
    <2>3. \A i \in DOMAIN db.references :
             /\ db.references[i].asset \in {None, db'.references[i].asset}
             /\ db.references[i].field \in {None, db'.references[i].field}
        BY <2>1 DEF Survive
    <2>4. \A c \in DOMAIN db.statuses :
             << db.statuses[c], db'.statuses[c] >> \in
                 {<< "active", "enabled" >>, << "draft", "disabled" >>,
                  << db.statuses[c], db.statuses[c] >>}
        BY <2>1 DEF Survive
    <2>5. \A p \in {"options", "words", "roles", "menus"} : Kept(db[p], db'[p])
        BY <2>1 DEF Survive
    <2>6. /\ Kept(db.options, db'.options) /\ Kept(db.words, db'.words)
          /\ Kept(db.roles, db'.roles) /\ Kept(db.menus, db'.menus)
        BY <2>5
    <2>7. db.rag \in {"absent", db'.rag}
        BY <2>1 DEF Survive
    <2> QED BY <2>2, <2>3, <2>4, <2>6, <2>7
<1> QED BY <1>1, RunInit, RunStep, PTL DEF Spec, RowsSurvive

-----------------------------------------------------------------------------
(* The ledger never runs ahead of the database                              *)

LEMMA UpstreamIs ==
    ASSUME NEW d
    PROVE  Inspect("upstream_id", d) = "applied" <=>
             /\ Has(d, "source_key_index") => Is(d, "source_key_index", "right")
             /\ Has(d, "upstream_system") /\ Is(d, "mapping_upstream", "not_null")
             /\ Has(d, "source_key_index") \/ Is(d, "identity_index", "right")
BY DEF Inspect, InspectUpstreamId, Found

LEMMA MappingIs ==
    ASSUME NEW d
    PROVE  /\ Inspect("mapping_identity", d) \in {"applied", "not_applied"} =>
                (Has(d, "identity_index") => Is(d, "identity_index", "right"))
           /\ Inspect("mapping_identity", d) = "applied" => Has(d, "identity_index")
           /\ Between(d) => Inspect("mapping_identity", d) = "conflict"
BY DEF Inspect, InspectMappingIdentity, Found, Between, HasNone, Has

\* 0010 takes the index 0006 made and makes its own, which 0006 accepts.
LEMMA IndexPassedOn ==
    ASSUME NEW d, IsDatabase(d), NEW s,
           s \in {Drop("source_key_index"), CreateOne("identity_index")}, Accepts(d, s),
           NEW e, e = Executed(d, s),
           Has(d, "identity_index") => Is(d, "identity_index", "right")
    PROVE  /\ Has(e, "identity_index") => Is(e, "identity_index", "right")
           /\ Inspect("upstream_id", d) = "applied" \/ Between(d) =>
                Inspect("upstream_id", e) = "applied" \/ Between(e)
<1>1. CASE s = Drop("source_key_index")
    <2>1. Has(d, "source_key_index")
        BY <1>1, Forms DEF Accepts
    <2>2. /\ \A m : Has(e, m) <=> Has(d, m) /\ m # "source_key_index"
          /\ \A m : Has(e, m) => e.schema[m] = d.schema[m]
        BY <1>1, DropDoes
    <2>3. ~Between(d)
        BY <2>1 DEF Between, HasNone, Has
    <2>4. \A m, x : m # "source_key_index" => (Is(e, m, x) <=> Is(d, m, x))
        BY <2>2 DEF Is
    <2>5. HasNone(e, {"source_key_index", "identity_index"}) \/ Has(e, "identity_index")
        BY <2>2 DEF HasNone, Has
    <2> QED BY <2>2, <2>3, <2>4, <2>5, UpstreamIs DEF Between
<1>2. CASE s = CreateOne("identity_index")
    <2>1. /\ Is(e, "identity_index", "right") /\ ~Has(d, "identity_index")
          /\ \A m : Has(e, m) <=> Has(d, m) \/ m = "identity_index"
          /\ \A m, x : m # "identity_index" => (Is(e, m, x) <=> Is(d, m, x))
        BY <1>2, OneDoes
    <2>2. Between(d) => ~Has(d, "source_key_index")
        BY DEF Between, HasNone, Has
    <2> QED BY <2>1, <2>2, UpstreamIs DEF Between
<1> QED BY <1>1, <1>2

\* A statement of the revision under way takes nothing from those stamped.
LEMMA StampedKept ==
    ASSUME RunInv, LedgerInv, Execute, stage = "run", Accepts(work, todo[1])
    PROVE  /\ ledger # None
           /\ \A k \in 1 .. ledger : \/ Stands(k, work')
                                     \/ k = 5 /\ ledger = 8 /\ Between(work')
           /\ ledger = 8 /\ Has(work', "identity_index") => Is(work', "identity_index", "right")
<1>1. PICK d : d = work
    OBVIOUS
<1>2. PICK e : e = work'
    OBVIOUS
<1>3. PICK s : s = todo[1]
    OBVIOUS
<1>4. /\ IsDatabase(d) /\ e = Executed(d, s) /\ Of(Current, s) /\ Differ(Current, d, e)
      /\ Accepts(d, s)
    BY <1>1, <1>2, <1>3, ExecuteKeeps DEF RunInv
<1>5. /\ ledger # None /\ ledger \in 0 .. 12 /\ HeadRevision = 13
    BY ChainIs DEF RunInv, StageInPlace
<1>6. \A k \in 1 .. ledger : Stands(k, d) \/ (k = 5 /\ ledger = 8 /\ Between(d))
    BY <1>1, <1>5 DEF LedgerInv, Stamped
<1>7. ASSUME NEW k \in 1 .. ledger, ~(k = 5 /\ ledger = 8)
      PROVE  Stands(k, e)
    <2>1. Stands(k, d)
        BY <1>6, <1>7
    <2>2. PICK j : j = ledger + 1
        OBVIOUS
    <2>3. j \in 1 .. HeadRevision /\ k \in 1 .. HeadRevision /\ k < j /\ ~(k = 5 /\ j = 9)
        BY <1>5, <1>7, <2>2
    <2>4. Differ(Chain[j], d, e)
        BY <1>4, <2>2 DEF Current
    <2>5. /\ j # k /\ (j # 2 \/ k \notin {3, 5, 6, 10})
          /\ << j, k >> \notin {<< 5, 9 >>, << 9, 5 >>}
        BY <1>5, <2>3
    <2>6. Inspect(Chain[k], e) = Inspect(Chain[k], d)
        BY <2>3, <2>4, <2>5, OtherInspection
    <2> QED BY <2>1, <2>6 DEF Stands
<1>8. ASSUME ledger = 8
      PROVE  /\ Has(e, "identity_index") => Is(e, "identity_index", "right")
             /\ Stands(5, e) \/ Between(e)
    <2>1. /\ Current = "mapping_identity" /\ Chain[5] = "upstream_id"
        BY <1>8, ChainIs DEF Current
    <2>2. s \in {Drop("source_key_index"), CreateOne("identity_index")}
        BY <1>4, <2>1 DEF Of
    <2>3. Has(d, "identity_index") => Is(d, "identity_index", "right")
        BY <1>1, <1>8 DEF LedgerInv
    <2>4. /\ Has(e, "identity_index") => Is(e, "identity_index", "right")
          /\ Inspect("upstream_id", d) = "applied" \/ Between(d) =>
               Inspect("upstream_id", e) = "applied" \/ Between(e)
        BY <1>4, <2>2, <2>3, IndexPassedOn
    <2>5. Stands(5, d) \/ Between(d)
        BY <1>6, <1>8
    <2> QED BY <2>1, <2>4, <2>5 DEF Stands
<1> QED BY <1>2, <1>5, <1>7, <1>8

LEMMA LedgerInit == Init => LedgerInv
<1> SUFFICES ASSUME Init PROVE LedgerInv
    OBVIOUS
<1>1. PICK s \in Situations, mode \in DdlModes :
         db = s.db /\ work = s.db /\ ledger = s.ledger /\ stage = "off"
    BY DEF Init
<1>2. s.ledger # None => \A k \in 1 .. s.ledger : Inspect(Chain[k], s.db) = "applied"
    BY SituationsAssumption
<1> QED BY <1>1, <1>2 DEF LedgerInv, Stamped, Stands

LEMMA LedgerStep == RunInv /\ LedgerInv /\ [Next]_vars => LedgerInv'
<1> SUFFICES ASSUME RunInv, LedgerInv, [Next]_vars PROVE LedgerInv'
    OBVIOUS
<1>1. StageInPlace /\ ddlCommits' = ddlCommits /\ (~Elsewhere => touched' = touched)
    BY TouchedStay DEF RunInv
<1>2. /\ HeadRevision = 13 /\ Chain[5] = "upstream_id" /\ Chain[9] = "mapping_identity"
      /\ None # 8 /\ 8 + 1 = 9
      /\ ledger # None => ledger \in 0 .. 13
      /\ \A k \in 1 .. 13 : Chain[k] \in Revisions
    BY <1>1, ChainIs, RevisionNames, NoneAssumption DEF StageInPlace
<1>3. ASSUME NEW e, db' = e, work' = e, UNCHANGED << ledger, stage >>, touched \subseteq touched',
             \A k \in 1 .. 13 : \/ Chain[k] \in touched'
                               \/ Inspect(Chain[k], e) = Inspect(Chain[k], db),
             \A n : n = "filter_index" \/ SameObject(db, e, n), work = db
      PROVE  LedgerInv'
    <2>1. Between(db) => Between(e)
        BY <1>3 DEF Between, HasNone, Is, Has, SameObject
    <2>2. Has(e, "identity_index") => Has(db, "identity_index")
        BY <1>3 DEF SameObject
    <2>3. Is(db, "identity_index", "right") => Is(e, "identity_index", "right")
        BY <1>3 DEF SameObject, Is
    <2>4. \A k \in 1 .. 13 : Stands(k, db) => Stands(k, e)'
        BY <1>3 DEF Stands
    <2>5. Stamped(db, ddlCommits)' /\ Stamped(work, TRUE)'
        BY <1>1, <1>2, <1>3, <2>1, <2>4 DEF LedgerInv, Stamped, Stands
    <2>6. (stage \in {"stamp", "commit"} /\ ledger # None => Stands(ledger + 1, work))'
        BY <1>1, <1>2, <1>3, <2>4 DEF LedgerInv, Stands, StageInPlace
    <2> QED BY <1>3, <2>2, <2>3, <2>5, <2>6 DEF LedgerInv
<1>4. CASE Elsewhere
    <2>1. PICK c \in Changes : /\ db' = Changed(c, db) /\ work' = db' /\ work = db
                              /\ touched' = touched \cup {About[c.what]}
        BY <1>4 DEF Elsewhere
    <2>2. UNCHANGED << ledger, stage >>
        BY <1>4 DEF Elsewhere
    <2>3. PICK e : e = db'
        OBVIOUS
    <2>4. /\ \A n : n = "filter_index" \/ SameObject(db, e, n)
          /\ \A r \in Revisions : r # About[c.what] => Inspect(r, e) = Inspect(r, db)
        BY <2>1, <2>3, ChangedDoes DEF RunInv
    <2>5. \A k \in 1 .. 13 : \/ Chain[k] \in touched'
                             \/ Inspect(Chain[k], e) = Inspect(Chain[k], db)
        BY <1>2, <2>1, <2>4
    <2> QED BY <1>3, <2>1, <2>2, <2>3, <2>4, <2>5
<1>5. SUFFICES ASSUME ~Elsewhere PROVE LedgerInv'
    BY <1>4
<1>6. ASSUME UNCHANGED << db, ledger >>, work' \in {work, db},
             stage' \notin {"apply", "run", "stamp", "commit"}
      PROVE  LedgerInv'
    <2>1. Stamped(db, ddlCommits)'
        BY <1>1, <1>5, <1>6 DEF LedgerInv, Stamped, Stands
    <2>2. Stamped(work, TRUE)'
        BY <1>1, <1>5, <1>6 DEF LedgerInv, Stamped, Stands
    <2> QED BY <1>6, <2>1, <2>2 DEF LedgerInv
<1>7. ASSUME Stop, UNCHANGED << db, ledger >> PROVE LedgerInv'
    BY <1>6, <1>7 DEF Stop
<1>8. ASSUME UNCHANGED << db, work, ledger >>,
             stage' \in {"apply", "run"} /\ ledger = 8 /\ Has(work, "identity_index") =>
               Is(work, "identity_index", "right"),
             stage' \in {"stamp", "commit"} /\ ledger # None => Stands(ledger + 1, work)
      PROVE  LedgerInv'
    <2>1. Stamped(db, ddlCommits)' /\ Stamped(work, TRUE)'
        BY <1>1, <1>5, <1>8 DEF LedgerInv, Stamped, Stands
    <2> QED BY <1>1, <1>5, <1>8, <2>1 DEF LedgerInv, Stands
<1>9. CASE Start \/ VerifyHead
    BY <1>6, <1>7, <1>9 DEF Start, VerifyHead, Fail
<1>10. CASE RefuseTables \/ Exit \/ Crash
    BY <1>7, <1>10 DEF RefuseTables, Exit, Crash, Fail
<1>11. CASE Execute
    <2>1. CASE ~Accepts(work, todo[1])
        BY <1>7, <1>11, <2>1, ExecuteKeeps DEF Fail
    <2>2. CASE Accepts(work, todo[1]) /\ stage = "run"
        <3>1. /\ db' \in {db, work'} /\ (db' = db \/ ddlCommits) /\ UNCHANGED << ledger, stage >>
            BY <1>11, <2>2 DEF Execute
        <3>2. PICK e : e = work'
            OBVIOUS
        <3>3. /\ ledger # None
              /\ \A k \in 1 .. ledger : Stands(k, e) \/ (k = 5 /\ ledger = 8 /\ Between(e))
              /\ ledger = 8 /\ Has(e, "identity_index") => Is(e, "identity_index", "right")
            BY <1>11, <2>2, <3>2, StampedKept
        <3>4. Stamped(work, TRUE)'
            BY <1>5, <1>1, <3>1, <3>2, <3>3 DEF Stamped, Stands
        <3>5. Stamped(db, ddlCommits)'
            <4>1. CASE db' = db
                BY <1>1, <1>5, <3>1, <4>1 DEF LedgerInv, Stamped, Stands
            <4>2. CASE db' = work' /\ ddlCommits
                BY <1>1, <1>5, <3>1, <3>2, <3>3, <4>2 DEF Stamped, Stands
            <4> QED BY <3>1, <4>1, <4>2
        <3> QED BY <2>2, <3>1, <3>2, <3>3, <3>4, <3>5 DEF LedgerInv
    <2>3. CASE Accepts(work, todo[1]) /\ stage = "baseline"
        <3>1. ledger = None /\ UNCHANGED << ledger, stage >>
            BY <1>1, <1>11, <2>3, ExecuteKeeps DEF StageInPlace
        <3> QED BY <1>2, <2>3, <3>1 DEF LedgerInv, Stamped
    <2> QED BY <1>11, <2>1, <2>2, <2>3 DEF Execute
<1>12. CASE VerifyBaseline
    <2>1. ledger = None
        BY <1>1, <1>12 DEF VerifyBaseline, StageInPlace
    <2> QED BY <1>2, <1>7, <1>8, <1>12, <2>1 DEF VerifyBaseline, Fail
<1>13. CASE Look
    <2>1. PICK found : found = Inspect(Chain[ledger + 1], work)
        OBVIOUS
    <2>2. CASE found \in {"conflict", "error"}
        BY <1>7, <1>13, <2>1, <2>2 DEF Look, Fail
    <2>3. CASE found \notin {"conflict", "error"}
        <3>1. /\ UNCHANGED << db, work, ledger >>
              /\ stage' = IF found = "applied" THEN "stamp" ELSE "apply"
              /\ stage = "next" /\ ledger < HeadRevision
            BY <1>13, <2>1, <2>3 DEF Look
        <3>2. ledger # None
            BY <1>1, <3>1 DEF StageInPlace
        <3>3. ledger + 1 \in 1 .. HeadRevision
            BY <1>2, <3>1, <3>2
        <3>4. found \in {"applied", "not_applied"}
            BY <1>2, <2>1, <2>3, <3>3, InspectionSays
        <3>5. ledger = 8 /\ Has(work, "identity_index") => Is(work, "identity_index", "right")
            BY <1>2, <2>1, <3>4, MappingIs
        <3>6. stage' = "stamp" => Stands(ledger + 1, work)
            BY <2>1, <3>1 DEF Stands
        <3> QED BY <1>8, <3>1, <3>5, <3>6
    <2> QED BY <2>2, <2>3
<1>14. CASE Begin
    <2>1. /\ UNCHANGED << db, work, ledger >> /\ stage = "apply" /\ stage' = "run"
        BY <1>14 DEF Begin
    <2> QED BY <1>8, <2>1 DEF LedgerInv
<1>15. CASE Confirm
    <2>1. CASE Inspect(Chain[ledger + 1], work) = "applied"
        <3>1. /\ UNCHANGED << db, work, ledger >> /\ stage' = "stamp"
            BY <1>15, <2>1 DEF Confirm
        <3> QED BY <1>8, <2>1, <3>1 DEF Stands
    <2>2. CASE Inspect(Chain[ledger + 1], work) # "applied"
        BY <1>7, <1>15, <2>2 DEF Confirm, Fail
    <2> QED BY <2>1, <2>2
<1>16. CASE OpenLedger
    <2>1. /\ UNCHANGED << work, ledger >> /\ stage = "stamp" /\ stage' = "commit"
          /\ db' = IF ddlCommits THEN work ELSE db
        BY <1>16 DEF OpenLedger
    <2>2. Stamped(db, ddlCommits)' /\ Stamped(work, TRUE)'
        BY <1>1, <1>5, <2>1 DEF LedgerInv, Stamped, Stands
    <2>3. (stage \in {"stamp", "commit"} /\ ledger # None => Stands(ledger + 1, work))'
        BY <1>1, <1>5, <2>1 DEF LedgerInv, Stands
    <2> QED BY <2>1, <2>2, <2>3 DEF LedgerInv
<1>17. CASE Commit
    <2>1. /\ db' = work /\ work' = work /\ stage = "commit" /\ stage' = "next"
          /\ ledger' = IF ledger = None THEN 0 ELSE ledger + 1
        BY <1>17 DEF Commit
    <2>2. CASE ledger = None
        BY <2>1, <2>2 DEF LedgerInv, Stamped
    <2>3. CASE ledger # None
        <3>1. Stands(ledger + 1, work) /\ ledger' = ledger + 1
            BY <2>1, <2>3 DEF LedgerInv
        <3>2. ledger = 8 => ~Between(work)
            <4>1. "mapping_identity" \notin touched
                BY DEF RunInv, About
            <4> QED BY <1>2, <3>1, <4>1, MappingIs DEF Stands
        <3>3. \A k \in 1 .. ledger : Stands(k, work)
            BY <2>3, <3>2 DEF LedgerInv, Stamped
        <3>4. \A k \in 1 .. ledger' : k \in 1 .. ledger \/ k = ledger + 1
            BY <1>2, <2>3, <3>1
        <3>5. Stamped(db, ddlCommits)' /\ Stamped(work, TRUE)'
            BY <1>5, <1>1, <2>1, <3>1, <3>3, <3>4 DEF Stamped, Stands
        <3> QED BY <2>1, <3>5 DEF LedgerInv
    <2> QED BY <2>2, <2>3
<1>18. CASE SeedRbac
    <2>1. /\ db' = [db EXCEPT !["roles"] = InsertAbsent(db["roles"])]
          /\ work' = db' /\ UNCHANGED ledger /\ stage' = "menus"
        BY <1>18 DEF SeedRbac
    <2>2. PICK e : e = db'
        OBVIOUS
    <2>3. e.schema = db.schema /\ \A r \in Revisions : Inspect(r, e) = Inspect(r, db)
        BY <2>1, <2>2, SeedDoes DEF RunInv
    <2>4. Between(db) => Between(e)
        BY <2>3 DEF Between, HasNone, Is, Has
    <2>5. \A k \in 1 .. 13 : Stands(k, db) => Stands(k, e)'
        BY <1>1, <1>2, <1>5, <2>3 DEF Stands
    <2>6. db' = e /\ work' = e /\ ledger' = ledger
        BY <2>1, <2>2
    <2>7. Stamped(db, ddlCommits)' /\ Stamped(work, TRUE)'
        BY <1>1, <1>2, <2>4, <2>5, <2>6 DEF LedgerInv, Stamped, Stands
    <2> QED BY <2>1, <2>7 DEF LedgerInv
<1>19. CASE SeedMenus
    <2>1. /\ db' = [db EXCEPT !["menus"] = InsertAbsent(db["menus"])]
          /\ work' = db' /\ UNCHANGED ledger /\ stage' = "done"
        BY <1>19 DEF SeedMenus
    <2>2. PICK e : e = db'
        OBVIOUS
    <2>3. e.schema = db.schema /\ \A r \in Revisions : Inspect(r, e) = Inspect(r, db)
        BY <2>1, <2>2, SeedDoes DEF RunInv
    <2>4. Between(db) => Between(e)
        BY <2>3 DEF Between, HasNone, Is, Has
    <2>5. \A k \in 1 .. 13 : Stands(k, db) => Stands(k, e)'
        BY <1>1, <1>2, <1>5, <2>3 DEF Stands
    <2>6. db' = e /\ work' = e /\ ledger' = ledger
        BY <2>1, <2>2
    <2>7. Stamped(db, ddlCommits)' /\ Stamped(work, TRUE)'
        BY <1>1, <1>2, <2>4, <2>5, <2>6 DEF LedgerInv, Stamped, Stands
    <2> QED BY <2>1, <2>7 DEF LedgerInv
<1>20. CASE UNCHANGED vars
    BY <1>8, <1>20 DEF vars, LedgerInv
<1> QED
    BY <1>5, <1>9, <1>10, <1>11, <1>12, <1>13, <1>14, <1>15, <1>16, <1>17, <1>18, <1>19,
       <1>20 DEF Next, Runner

\* What the ledger says is there is there, for every deployment and every number
\* of stopped runs and of changes (code: apply_revisions stamps after the second
\* inspection, 0006 accepts the index that 0010 puts in the place of its own, and
\* 0010 refuses to find neither).
THEOREM LedgerStaysTrue == Spec => []LedgerIsTrue
<1>1. RunInv /\ LedgerInv => LedgerIsTrue
    <2> SUFFICES ASSUME RunInv, LedgerInv, ledger # None, NEW k \in 1 .. ledger
                 PROVE  \/ Stands(k, db)
                        \/ /\ ddlCommits /\ ledger < HeadRevision
                           /\ Inspect(Chain[ledger + 1], db) = "conflict"
        BY DEF LedgerIsTrue, Stands
    <2>1. Stands(k, db) \/ (ledger = 8 /\ ddlCommits /\ Between(db))
        BY DEF LedgerInv, Stamped
    <2> QED BY <2>1, ChainIs, MappingIs
<1> QED BY <1>1, RunInit, RunStep, LedgerInit, LedgerStep, PTL DEF Spec

-----------------------------------------------------------------------------
(* The plan comes true                                                      *)

LEMMA PlanInit == Init => PlanInv
<1> SUFFICES ASSUME Init, Quiet
             PROVE  /\ ledger # None /\ DOMAIN results = 1 .. HeadRevision
                    /\ Mapped(db) /\ Tells /\ RunsAsPlanned /\ FailsAsPlanned
    BY DEF PlanInv
<1>1. PICK s \in Situations, mode \in DdlModes :
         /\ db = s.db /\ work = s.db /\ ledger = s.ledger /\ stage = "off"
         /\ plan = IF s.ledger = None THEN << >> ELSE PlanOf(s.db, s.ledger)
         /\ results = [k \in 1 .. HeadRevision |-> "none"] /\ failed = << "none", 0 >>
    BY DEF Init, Fine
<1>2. HeadRevision = 13 /\ Len(plan) = 13
    BY ChainIs DEF Quiet
<1>3. PICK found : found = [k \in 1 .. HeadRevision |-> Inspect(Chain[k], db)]
    OBVIOUS
<1>4. ledger # None
    BY <1>1, <1>2
<1>5. ledger \in 0 .. 13 /\ Mapped(db)
    BY <1>1, <1>2, <1>4, SituationsAssumption DEF Mapped
<1> DEFINE Pending(k) == \E j \in ledger + 1 .. k - 1 : found[j] = "not_applied"
<1>7. PlanOf(db, ledger) =
         IF \E k \in ledger + 1 .. HeadRevision : found[k] = "error" THEN << "error" >>
         ELSE [k \in 1 .. HeadRevision |->
                 IF k <= ledger THEN "done"
                 ELSE CASE found[k] = "applied"     -> "adopt"
                        [] found[k] = "not_applied" -> "apply"
                        [] OTHER                    -> IF Pending(k) THEN "pending" ELSE "conflict"]
    BY <1>3 DEF PlanOf
<1>8. ~\E k \in ledger + 1 .. HeadRevision : found[k] = "error"
    BY <1>1, <1>2, <1>4, <1>7
<1>9. ASSUME NEW k \in 1 .. HeadRevision
      PROVE  /\ k <= ledger => plan[k] = "done"
             /\ k > ledger =>
                  \/ plan[k] = "adopt" /\ found[k] = "applied"
                  \/ plan[k] = "apply" /\ found[k] = "not_applied"
                  \/ plan[k] = "pending" /\ found[k] = "conflict" /\ Pending(k)
                  \/ plan[k] = "conflict" /\ found[k] = "conflict" /\ ~Pending(k)
    <2>1. plan[k] = IF k <= ledger THEN "done"
                    ELSE CASE found[k] = "applied"     -> "adopt"
                           [] found[k] = "not_applied" -> "apply"
                           [] OTHER                    -> IF Pending(k) THEN "pending" ELSE "conflict"
        BY <1>1, <1>4, <1>7, <1>8
    <2>2. CASE k <= ledger
        <3> HIDE DEF Pending
        <3> QED BY <2>1, <2>2, <1>5, <1>2
    <2>3. CASE k > ledger
        <3>1. found[k] \in {"applied", "not_applied", "conflict", "error"}
            BY <1>3, InspectionSays, RevisionNames
        <3>2. found[k] # "error"
            BY <1>2, <1>5, <1>8, <2>3
        <3>3. ~(k <= ledger)
            BY <1>2, <1>5, <2>3
        <3> HIDE DEF Pending
        <3>4. CASE found[k] = "applied"
            BY <2>1, <3>3, <3>4
        <3>5. CASE found[k] = "not_applied"
            BY <2>1, <3>3, <3>5
        <3>6. CASE found[k] = "conflict" /\ Pending(k)
            BY <2>1, <3>3, <3>6
        <3>7. CASE found[k] = "conflict" /\ ~Pending(k)
            BY <2>1, <3>3, <3>7
        <3> QED BY <3>1, <3>2, <3>4, <3>5, <3>6, <3>7
    <2> QED BY <2>2, <2>3, <1>2, <1>5
<1>10. ASSUME NEW k \in 1 .. HeadRevision, k > ledger PROVE Foretold(k)
    <2>1. \/ plan[k] = "adopt" /\ found[k] = "applied"
          \/ plan[k] = "apply" /\ found[k] = "not_applied"
          \/ plan[k] = "pending" /\ found[k] = "conflict" /\ Pending(k)
          \/ plan[k] = "conflict" /\ found[k] = "conflict" /\ ~Pending(k)
        BY <1>9, <1>10
    <2>2. ASSUME plan[k] = "conflict", NEW j \in ledger + 1 .. k - 1
          PROVE  plan[j] \in {"adopt", "conflict"}
        <3>1. j \in 1 .. HeadRevision /\ j > ledger
            BY <1>2, <1>5, <2>2
        <3>2. ~Pending(k) /\ found[j] # "not_applied"
            BY <2>1, <2>2
        <3>3. ~Pending(j)
            BY <1>2, <1>5, <3>1, <3>2
        <3> QED BY <1>9, <3>1, <3>2, <3>3
    <2> HIDE DEF Pending
    <2>3. found[k] = Inspect(Chain[k], db) /\ results[k] = "none"
        BY <1>1, <1>3
    <2> QED BY <2>1, <2>2, <2>3 DEF Foretold
<1>11. Tells
    BY <1>1, <1>2, <1>5, <1>9, <1>10 DEF Tells, ToldTrue
<1>12. RunsAsPlanned
    BY <1>1 DEF RunsAsPlanned
<1>13. FailsAsPlanned
    BY <1>1 DEF FailsAsPlanned
<1> QED BY <1>1, <1>4, <1>5, <1>11, <1>12, <1>13

LEMMA FixedStay == ASSUME [Next]_vars PROVE UNCHANGED fixed
<1>1. CASE Start \/ RefuseTables \/ VerifyBaseline \/ Look \/ Confirm \/ VerifyHead
    BY <1>1 DEF Start, VerifyBaseline, Look, Confirm, VerifyHead, RefuseTables, Fail
<1>2. CASE Begin \/ OpenLedger \/ Commit \/ Exit \/ Crash \/ Elsewhere
    BY <1>2 DEF Begin, OpenLedger, Commit, Exit, Crash, Elsewhere
<1>3. CASE SeedRbac \/ SeedMenus \/ Execute
    BY <1>3 DEF SeedRbac, SeedMenus, Execute, Fail
<1>4. CASE UNCHANGED vars
    BY <1>4 DEF vars, fixed
<1> QED BY <1>1, <1>2, <1>3, <1>4 DEF Next, Runner

LEMMA DifferOn ==
    ASSUME NEW r, NEW a, NEW b, NEW c, Differ(r, a, b), Differ(r, b, c)
    PROVE  Differ(r, a, c)
<1>1. \A n \in (DOMAIN a.schema \cup DOMAIN c.schema) \ Objects(r) : SameObject(a, c, n)
    BY DEF Differ, SameObject, Has
<1>2. \A p \in Parts : p = "schema" \/ p \in Rows(r) \/ c[p] = a[p]
    BY DEF Differ
<1> QED BY <1>1, <1>2 DEF Differ

LEMMA DifferNot == ASSUME NEW r, NEW d PROVE Differ(r, d, d)
BY DEF Differ, SameObject

\* An applied revision leaves what the plan says of a later one, which waits for
\* it otherwise.
LEMMA ForetoldKept ==
    ASSUME NEW j \in 1 .. HeadRevision, NEW k \in 1 .. HeadRevision, j < k,
           NEW d, IsDatabase(d), NEW e, Differ(Chain[j], d, e),
           Inspect(Chain[j], d) = "not_applied", Inspect(Chain[k], d) \in {"applied", "not_applied"},
           j = 5 /\ (Has(d, "identity_index") => Is(d, "identity_index", "right"))
             /\ (Has(d, "source_key_index") \/ Has(d, "identity_index")) =>
               SameObject(d, e, "source_key_index")
    PROVE  Inspect(Chain[k], e) = Inspect(Chain[k], d)
<1>1. CASE j = 2 /\ k \in {3, 5, 6, 10}
    <2>1. /\ Chain[2] = "open_modules" /\ Chain[3] = "ingestion_identity"
          /\ Chain[5] = "upstream_id" /\ Chain[6] = "binary_status" /\ Chain[10] = "freq_capacity"
        BY ChainIs
    <2>2. ~Has(d, "upstream_system") /\ ~Has(d, "push_job") /\ ~Has(d, "code_table") /\ ~Has(d, "lineage")
        <3>1. HasNone(d, OpenTables)
            BY <1>1, <2>1 DEF Inspect, InspectOpenModules, Found
        <3> QED BY <3>1 DEF HasNone, OpenTables, Has
    <2>3. ~Has(d, "push_width")
        BY <2>2 DEF IsDatabase
    <2>4. Inspect("ingestion_identity", d) = "conflict"
        BY <2>2 DEF Inspect, InspectIngestionIdentity
    <2>5. Inspect("upstream_id", d) \in {"conflict", "error"}
        BY <2>2 DEF Inspect, InspectUpstreamId
    <2>6. Inspect("binary_status", d) = "conflict"
        BY <2>2 DEF Inspect, InspectBinaryStatus
    <2>7. Inspect("freq_capacity", d) = "conflict"
        BY <2>3 DEF Inspect, InspectFreqCapacity
    <2> QED BY <1>1, <2>1, <2>4, <2>5, <2>6, <2>7
<1>2. CASE j = 5 /\ k = 9
    <2>1. Chain[5] = "upstream_id" /\ Chain[9] = "mapping_identity"
        BY ChainIs
    <2>2. /\ Has(d, "identity_index") => Is(d, "identity_index", "right")
          /\ Has(d, "source_key_index") \/ Has(d, "identity_index")
        BY <1>2, <2>1 DEF Inspect, InspectMappingIdentity, Found
    <2>3. SameObject(d, e, "source_key_index")
        BY <1>2, <2>2
    <2>4. \A n \in {"identity_index", "other_source_key"} : SameObject(d, e, n)
        BY <1>2, <2>1 DEF Differ, Objects, SameObject, Has
    <2>5. Same(d, e, ReadObjects("mapping_identity"), ReadRows("mapping_identity"))
        BY <2>3, <2>4 DEF Same, ReadObjects, ReadRows
    <2>6. "mapping_identity" \in Revisions
        BY <2>1, ChainIs, RevisionNames
    <2> QED BY <1>2, <2>1, <2>5, <2>6, InspectionReads
<1>3. CASE ~(j = 2 /\ k \in {3, 5, 6, 10}) /\ ~(j = 5 /\ k = 9)
    <2>1. /\ j # k /\ (j # 2 \/ k \notin {3, 5, 6, 10})
          /\ << j, k >> \notin {<< 5, 9 >>, << 9, 5 >>}
        BY <1>3, ChainIs
    <2> QED BY <2>1, OtherInspection
<1> QED BY <1>1, <1>2, <1>3

\* Only 0006 writes its column, and it leaves it NOT NULL.
LEMMA ColumnKept ==
    ASSUME NEW r \in Revisions, NEW d, Mapped(d), NEW e, Differ(r, d, e),
           r = "upstream_id" => Inspect(r, e) = "applied"
    PROVE  Mapped(e)
<1>1. CASE r = "upstream_id"
    BY <1>1, UpstreamIs DEF Is, Mapped
<1>2. CASE r # "upstream_id"
    <2>1. "mapping_upstream" \notin Objects(r)
        BY <1>2, RevisionNames DEF Objects, OpenTables, LineageColumns, AssetColumns, RbacTables,
           IndicatorColumns
    <2>2. SameObject(d, e, "mapping_upstream")
        BY <2>1 DEF Differ, Mapped, Has
    <2> QED BY <2>2 DEF SameObject, Mapped
<1> QED BY <1>1, <1>2

\* The plan for what is still ahead, when the revision under way is committed.
LEMMA CommitTells ==
    ASSUME RunInv, LedgerInv, PlanInv, Quiet, Commit
    PROVE  /\ ledger' # None /\ DOMAIN results' = 1 .. HeadRevision
           /\ Mapped(db') /\ Tells'
<1>1. /\ ledger # None /\ DOMAIN results = 1 .. HeadRevision
      /\ Mapped(db) /\ Tells /\ RunsAsPlanned
    BY DEF PlanInv
<1>2. /\ stage = "commit" /\ db' = work /\ ledger' = ledger + 1 /\ plan' = plan
      /\ results' = [results EXCEPT ![ledger + 1] = how]
    BY <1>1 DEF Commit, fixed
<1>3. HeadRevision = 13 /\ ledger \in 0 .. 12 /\ IsDatabase(db)
    BY <1>1, <1>2, ChainIs DEF RunInv, StageInPlace
<1>4. PICK j : j = ledger + 1
    OBVIOUS
<1>5. j \in 1 .. 13 /\ Chain[j] \in Revisions /\ Current = Chain[j]
    BY <1>3, <1>4, RevisionNames DEF Current
<1>6. PICK e : e = work
    OBVIOUS
<1>7. \/ how = "adopt" /\ e = db /\ Inspect(Chain[j], db) = "applied"
      \/ /\ how = "apply" /\ Inspect(Chain[j], db) = "not_applied"
         /\ Differ(Chain[j], db, e) /\ IndexKept
    BY <1>1, <1>2, <1>5, <1>6 DEF RunsAsPlanned
<1>8. Foretold(j)
    BY <1>1, <1>3, <1>4, <1>5 DEF Tells
<1>9. results'[j] = how /\ \A k \in 1 .. 13 : k # j => results'[k] = results[k]
    BY <1>1, <1>2, <1>3, <1>4, <1>5
<1>10. Mapped(e)
    <2>1. CASE e = db
        BY <1>1, <2>1
    <2>2. CASE Differ(Chain[j], db, e)
        <3>1. Inspect(Chain[j], e) = "applied"
            BY <1>1, <1>2, <1>4, <1>6 DEF LedgerInv, Stands, Quiet
        <3> QED BY <1>1, <1>5, <2>2, <3>1, ColumnKept
    <2> QED BY <1>7, <2>1, <2>2
<1>11. ToldTrue(j)'
    BY <1>2, <1>7, <1>8, <1>9 DEF ToldTrue, Foretold
<1>12. ASSUME NEW k \in 1 .. 13, k < j PROVE ToldTrue(k)'
    <2>1. ToldTrue(k)
        BY <1>1, <1>3, <1>4, <1>12 DEF Tells
    <2> QED BY <1>2, <1>9, <1>12, <2>1 DEF ToldTrue
<1>13. ASSUME NEW k \in 1 .. 13, j < k PROVE Foretold(k)'
    <2>1. Foretold(k) /\ results'[k] = "none" /\ plan'[k] = plan[k] /\ db' = e
        <3>1. Foretold(k)
            BY <1>1, <1>3, <1>4, <1>13 DEF Tells
        <3> QED BY <1>2, <1>6, <1>9, <1>13, <1>5, <3>1 DEF Foretold
    <2>2. CASE e = db
        <3>1. plan[k] = "conflict" => \A i \in ledger' + 1 .. k - 1 : plan[i] \in {"adopt", "conflict"}
            BY <1>2, <1>3, <1>13, <2>1 DEF Foretold
        <3> QED BY <1>2, <2>1, <2>2, <3>1 DEF Foretold
    <2>3. CASE how = "apply" /\ Inspect(Chain[j], db) = "not_applied" /\ Differ(Chain[j], db, e) /\ IndexKept
        <3>1. plan[j] \in {"apply", "pending"}
            BY <1>8, <2>3 DEF Foretold
        <3>2. plan[k] # "conflict"
            <4>1. j \in ledger + 1 .. k - 1
                BY <1>3, <1>4, <1>13
            <4> QED BY <2>1, <3>1, <4>1 DEF Foretold
        <3>3. ASSUME Inspect(Chain[k], db) \in {"applied", "not_applied"}
              PROVE  Inspect(Chain[k], e) = Inspect(Chain[k], db)
            <4>1. /\ j = 5 /\ (Has(db, "identity_index") => Is(db, "identity_index", "right"))
                       /\ (Has(db, "source_key_index") \/ Has(db, "identity_index")) =>
                     SameObject(db, e, "source_key_index")
                BY <1>3, <1>4, <1>6, <2>3 DEF IndexKept
            <4> QED BY <1>3, <1>5, <1>13, <2>3, <3>3, <4>1, ForetoldKept
        <3> QED BY <2>1, <3>2, <3>3 DEF Foretold
    <2> QED BY <1>7, <2>2, <2>3
<1>14. Tells'
    <2>1. ASSUME NEW k \in 1 .. 13 PROVE (IF k <= ledger THEN ToldTrue(k) ELSE Foretold(k))'
        <3>1. k < j \/ k = j \/ j < k
            BY <1>5
        <3>2. k <= ledger' <=> k <= j
            BY <1>2, <1>4
        <3> QED BY <1>5, <1>11, <1>12, <1>13, <3>1, <3>2
    <2> QED BY <1>3, <2>1 DEF Tells
<1>15. ledger' # None
    BY <1>2, <1>3, NoneAssumption
<1>16. DOMAIN results' = 1 .. HeadRevision
    BY <1>1, <1>2
<1> QED BY <1>2, <1>6, <1>10, <1>14, <1>15, <1>16

LEMMA PlanStep == RunInv /\ LedgerInv /\ PlanInv /\ [Next]_vars => PlanInv'
<1> SUFFICES ASSUME RunInv, LedgerInv, PlanInv, [Next]_vars, Quiet'
             PROVE  /\ ledger' # None /\ DOMAIN results' = 1 .. HeadRevision
                    /\ Mapped(db') /\ Tells' /\ RunsAsPlanned' /\ FailsAsPlanned'
    BY DEF PlanInv
<1> DEFINE Goal == /\ ledger' # None /\ DOMAIN results' = 1 .. HeadRevision
                   /\ Mapped(db') /\ Tells' /\ RunsAsPlanned' /\ FailsAsPlanned'
<1>1. plan' = plan /\ ddlCommits' = ddlCommits
    BY FixedStay DEF fixed
<1>2. ~Elsewhere
    BY DEF Elsewhere, Quiet
<1>3. Quiet
    BY <1>1, <1>2, TouchedStay DEF Quiet
<1>4. /\ ledger # None /\ DOMAIN results = 1 .. HeadRevision
      /\ Mapped(db) /\ Tells /\ RunsAsPlanned /\ FailsAsPlanned
    BY <1>3 DEF PlanInv
<1>5. /\ HeadRevision = 13 /\ ledger \in 0 .. 13 /\ StageInPlace /\ TodoInPlace
      /\ IsDatabase(db) /\ IsDatabase(work)
      /\ stage \in {"apply", "run", "stamp", "commit"} => Current \in Revisions
    BY <1>4, ChainIs, Places DEF RunInv, StageInPlace
<1>6. stage \notin {"baseline"}
    BY <1>4, <1>5 DEF StageInPlace
<1>7. ASSUME UNCHANGED << db, ledger, results >>, RunsAsPlanned', FailsAsPlanned' PROVE Goal
    <2>1. Tells'
        BY <1>1, <1>4, <1>7 DEF Tells, ToldTrue, Foretold
    <2> QED BY <1>4, <1>7, <2>1
<1>8. ASSUME UNCHANGED failed PROVE FailsAsPlanned'
    BY <1>1, <1>4, <1>8 DEF FailsAsPlanned
<1>9. ASSUME stage' \notin {"apply", "run", "stamp", "commit"}, work' = db' PROVE RunsAsPlanned'
    BY <1>9 DEF RunsAsPlanned
<1>10. ASSUME NEW reason, Fail(reason), reason \notin {"conflict", "error", "unconfirmed"} PROVE Goal
    <2>1. FailsAsPlanned'
        BY <1>10 DEF Fail, FailsAsPlanned
    <2>2. RunsAsPlanned'
        BY <1>9, <1>10 DEF Fail, Stop
    <2> QED BY <1>7, <1>10, <2>1, <2>2 DEF Fail
<1>11. CASE Start
    <2>1. /\ stage = "off" /\ stage' = "next" /\ failed' = << "none", 0 >>
          /\ UNCHANGED << db, work, ledger, results >>
        BY <1>4, <1>11 DEF Start, Fine
    <2>2. RunsAsPlanned'
        BY <1>4, <1>9, <2>1 DEF RunsAsPlanned
    <2>3. FailsAsPlanned'
        BY <2>1 DEF FailsAsPlanned
    <2> QED BY <1>7, <2>1, <2>2, <2>3
<1>12. CASE RefuseTables \/ VerifyBaseline
    BY <1>6, <1>12 DEF RefuseTables, VerifyBaseline
<1>13. CASE Execute
    <2>1. CASE ~Accepts(work, todo[1])
        BY <1>10, <1>13, <2>1, ExecuteKeeps
    <2>2. CASE Accepts(work, todo[1])
        <3>1. stage = "run" /\ todo # << >>
            BY <1>6, <1>13 DEF Execute
        <3>2. /\ UNCHANGED << db, ledger, results, failed, stage, how, looked >>
              /\ work' = Executed(work, todo[1]) /\ todo' = Tail(todo)
            BY <1>3, <1>13, <2>2 DEF Execute, Quiet
        <3>3. PICK s : s = todo[1]
            OBVIOUS
        <3>4. PICK e : e = work'
            OBVIOUS
        <3>5. PICK t : t = todo'
            OBVIOUS
        <3>6. /\ Of(Current, s) /\ Current \in Revisions /\ Differ(Current, work, e)
              /\ ToSet(t) \subseteq ToSet(todo) /\ e = Executed(work, s) /\ t = Tail(todo)
            BY <1>13, <2>2, <3>1, <3>2, <3>3, <3>4, <3>5, ExecuteKeeps
        <3>7. /\ how = "apply" /\ Inspect(Current, db) = "not_applied"
              /\ Differ(Current, db, work) /\ IndexKept /\ Toward(Current, work, todo)
            BY <1>4, <3>1 DEF RunsAsPlanned
        <3>8. Toward(Current, e, t)
            <4>1. IsList(todo) /\ \A x \in ToSet(todo) : Of(Current, x)
                BY <1>5, <3>1 DEF TodoInPlace
            <4> QED BY <1>5, <2>2, <3>1, <3>3, <3>6, <3>7, <4>1, OneNearer
        <3>9. Differ(Current, db, e)
            BY <3>6, <3>7, DifferOn
        <3>10. ASSUME ledger = 4, SameObject(db, work, "source_key_index"),
                      ~Issued(CreateOne("source_key_index"), todo)
               PROVE  /\ SameObject(db, e, "source_key_index")
                      /\ ~Issued(CreateOne("source_key_index"), t)
            <4>1. ~Issued(CreateOne("source_key_index"), t) /\ s # CreateOne("source_key_index")
                <5>1. s \in ToSet(todo)
                    BY <1>5, <3>1, <3>3, Rest DEF TodoInPlace
                <5> QED BY <3>6, <3>10, <5>1 DEF Issued
            <4>2. Current = "upstream_id"
                BY <3>10, ChainIs DEF Current
            <4>3. \/ s.do = "assign"
                  \/ s \in {Alter("mapping_source", "null"), Alter("mapping_upstream", "not_null")}
                <5>1. s # Refuse
                    BY <2>2, <3>3, Forms DEF Accepts
                <5> QED BY <3>6, <4>1, <4>2, <5>1 DEF Of
            <4>4. CASE s.do = "assign"
                <5>1. e.schema = work.schema
                    BY <1>5, <3>6, <4>4, AssignDoes DEF Parts
                <5> QED BY <3>10, <4>1, <5>1 DEF SameObject, Has
            <4>5. ASSUME NEW n \in {"mapping_source", "mapping_upstream"}, NEW to, s = Alter(n, to)
                  PROVE  SameObject(work, e, "source_key_index")
                <5>1. /\ \A m : Has(e, m) <=> Has(work, m) \/ m = n
                      /\ \A m : Has(work, m) /\ m # n => e.schema[m] = work.schema[m]
                    BY <1>5, <2>2, <3>3, <3>6, <4>5, AlterDoes
                <5> QED BY <5>1 DEF SameObject
            <4>6. CASE s.do # "assign"
                <5>1. SameObject(work, e, "source_key_index")
                    BY <4>3, <4>5, <4>6
                <5> QED BY <3>10, <4>1, <5>1 DEF SameObject
            <4> QED BY <4>4, <4>6
        <3>11. IndexKept'
            BY <3>1, <3>2, <3>4, <3>5, <3>7, <3>10 DEF IndexKept
        <3>12. RunsAsPlanned'
            BY <3>1, <3>2, <3>4, <3>5, <3>7, <3>8, <3>9, <3>11 DEF RunsAsPlanned, Current
        <3> QED BY <1>7, <1>8, <3>2, <3>12
    <2> QED BY <2>1, <2>2
<1>14. CASE Look
    <2>1. stage = "next" /\ work = db /\ ledger + 1 \in 1 .. 13 /\ Chain[ledger + 1] \in Revisions
        BY <1>4, <1>5, <1>14, RevisionNames DEF Look, RunsAsPlanned
    <2>2. PICK found : found = Inspect(Chain[ledger + 1], work)
        OBVIOUS
    <2>3. Foretold(ledger + 1)
        BY <1>4, <1>5, <2>1 DEF Tells
    <2>4. CASE found \in {"conflict", "error"}
        <3>1. Fail(found)
            BY <1>14, <2>2, <2>4 DEF Look
        <3>2. failed' = << found, ledger + 1 >>
            BY <1>4, <3>1 DEF Fail
        <3>3. plan[ledger + 1] \in {"conflict", "pending"}
            BY <2>1, <2>2, <2>3, <2>4 DEF Foretold
        <3>4. FailsAsPlanned'
            BY <1>1, <1>5, <2>1, <3>2, <3>3 DEF FailsAsPlanned
        <3>5. RunsAsPlanned'
            BY <1>9, <3>1 DEF Fail, Stop
        <3> QED BY <1>7, <3>1, <3>4, <3>5 DEF Fail
    <2>5. CASE found \notin {"conflict", "error"}
        <3>1. /\ UNCHANGED << db, work, ledger, results, failed >> /\ looked' = work.schema
              /\ stage' = (IF found = "applied" THEN "stamp" ELSE "apply")
              /\ how' = (IF found = "applied" THEN "adopt" ELSE "apply")
            BY <1>14, <2>2, <2>5 DEF Look
        <3>2. found \in {"applied", "not_applied"}
            BY <2>1, <2>2, <2>5, InspectionSays
        <3>3. RunsAsPlanned'
            BY <2>1, <2>2, <3>1, <3>2 DEF RunsAsPlanned, Current
        <3> QED BY <1>7, <1>8, <3>1, <3>3
    <2> QED BY <2>4, <2>5
<1>15. CASE Begin
    <2>1. /\ UNCHANGED << db, work, ledger, results, failed, how >> /\ stage = "apply" /\ stage' = "run"
          /\ todo' = Statements(Current, looked, work)
        BY <1>15 DEF Begin, Current
    <2>2. work = db /\ how = "apply" /\ looked = db.schema /\ Inspect(Current, db) = "not_applied"
        BY <1>4, <2>1 DEF RunsAsPlanned
    <2>3. PICK t : t = todo'
        OBVIOUS
    <2>4. Toward(Current, work, t)
        BY <1>4, <1>5, <2>1, <2>2, <2>3, StatementsLead DEF Mapped
    <2>5. Differ(Current, db, work)
        BY <2>2, DifferNot
    <2>6. ASSUME ledger = 4, Has(db, "identity_index") => Is(db, "identity_index", "right"),
                 Has(db, "source_key_index") \/ Has(db, "identity_index")
          PROVE  ~Issued(CreateOne("source_key_index"), t)
        <3>1. Current = "upstream_id"
            BY <2>6, ChainIs DEF Current
        <3>2. t = ApplyUpstreamId(db.schema, db)
            BY <2>1, <2>2, <2>3, <3>1 DEF Statements
        <3>3. CreateOne("source_key_index") \in ToSet(t) =>
                ~Defined(db.schema, "identity_index") /\ "source_key_index" \notin DOMAIN db.schema
            BY <1>5, <3>2, UpstreamList
        <3> QED BY <2>6, <3>3 DEF Issued, Defined, Is, Has
    <2>7. IndexKept'
        BY <2>1, <2>2, <2>3, <2>6 DEF IndexKept, SameObject
    <2>8. RunsAsPlanned'
        BY <2>1, <2>2, <2>3, <2>4, <2>5, <2>7 DEF RunsAsPlanned, Current
    <2> QED BY <1>7, <1>8, <2>1, <2>8
<1>16. CASE Confirm
    <2>1. stage = "run" /\ todo = << >>
        BY <1>16 DEF Confirm
    <2>2. Inspect(Current, work) = "applied"
        BY <1>4, <1>5, <2>1, Arrived DEF RunsAsPlanned
    <2>3. UNCHANGED << db, work, ledger, results, failed, how >> /\ stage' = "stamp"
        BY <1>16, <2>2 DEF Confirm, Current
    <2>4. RunsAsPlanned'
        BY <1>4, <2>1, <2>3 DEF RunsAsPlanned, Current, IndexKept
    <2> QED BY <1>7, <1>8, <2>3, <2>4
<1>17. CASE OpenLedger
    <2>1. /\ stage = "stamp" /\ stage' = "commit"
          /\ UNCHANGED << db, work, ledger, results, failed, how >>
        BY <1>3, <1>17 DEF OpenLedger, Quiet
    <2>2. RunsAsPlanned'
        BY <1>4, <2>1 DEF RunsAsPlanned, Current, IndexKept
    <2> QED BY <1>7, <1>8, <2>1, <2>2
<1>18. CASE Commit
    <2>1. stage' = "next" /\ work' = work /\ db' = work /\ failed' = failed
        BY <1>18 DEF Commit
    <2> QED BY <1>3, <1>8, <1>9, <1>18, <2>1, CommitTells
<1>19. CASE VerifyHead
    <2>1. CASE Verified(work.schema)
        <3>1. /\ UNCHANGED << db, work, ledger, results, failed >> /\ stage' = "rbac" /\ stage = "next"
            BY <1>19, <2>1 DEF VerifyHead
        <3>2. work = db
            BY <1>4, <3>1 DEF RunsAsPlanned
        <3> QED BY <1>7, <1>8, <1>9, <3>1, <3>2
    <2>2. CASE ~Verified(work.schema)
        BY <1>10, <1>19, <2>2 DEF VerifyHead
    <2> QED BY <2>1, <2>2
<1>20. ASSUME NEW e, db' = e, work' = e, e.schema = db.schema,
              \A r \in Revisions : Inspect(r, e) = Inspect(r, db),
              UNCHANGED << ledger, results, failed >>, stage' \notin {"apply", "run", "stamp", "commit"}
       PROVE  Goal
    <2>1. Mapped(e)
        BY <1>4, <1>20 DEF Mapped, Has
    <2>2. ASSUME NEW k \in 1 .. HeadRevision PROVE Foretold(k) => Foretold(k)'
        <3>1. Inspect(Chain[k], e) = Inspect(Chain[k], db)
            BY <1>20, RevisionNames
        <3> QED BY <1>1, <1>20, <3>1 DEF Foretold
    <2>3. ASSUME NEW k \in 1 .. HeadRevision PROVE ToldTrue(k) => ToldTrue(k)'
        BY <1>1, <1>20 DEF ToldTrue
    <2>4. Tells'
        BY <1>4, <1>20, <2>2, <2>3 DEF Tells
    <2> QED BY <1>4, <1>8, <1>9, <1>20, <2>1, <2>4
<1>21. CASE SeedRbac
    <2>1. /\ db' = [db EXCEPT !["roles"] = InsertAbsent(db["roles"])] /\ work' = db'
          /\ UNCHANGED << ledger, results, failed >> /\ stage' = "menus"
        BY <1>21 DEF SeedRbac
    <2>2. PICK e : e = db'
        OBVIOUS
    <2>3. e.schema = db.schema /\ \A r \in Revisions : Inspect(r, e) = Inspect(r, db)
        BY <1>5, <2>1, <2>2, SeedDoes
    <2> QED BY <1>20, <2>1, <2>2, <2>3
<1>22. CASE SeedMenus
    <2>1. /\ db' = [db EXCEPT !["menus"] = InsertAbsent(db["menus"])] /\ work' = db'
          /\ UNCHANGED << ledger, results, failed >> /\ stage' = "done"
        BY <1>22 DEF SeedMenus
    <2>2. PICK e : e = db'
        OBVIOUS
    <2>3. e.schema = db.schema /\ \A r \in Revisions : Inspect(r, e) = Inspect(r, db)
        BY <1>5, <2>1, <2>2, SeedDoes
    <2> QED BY <1>20, <2>1, <2>2, <2>3
<1>23. CASE Exit \/ Crash
    <2>1. Stop /\ UNCHANGED << db, ledger, results, failed >>
        BY <1>23 DEF Exit, Crash
    <2>2. RunsAsPlanned'
        BY <1>9, <2>1 DEF Stop
    <2> QED BY <1>7, <1>8, <2>1, <2>2
<1>24. CASE UNCHANGED vars
    <2>1. RunsAsPlanned'
        BY <1>4, <1>24 DEF vars, RunsAsPlanned, Current, IndexKept
    <2> QED BY <1>7, <1>8, <1>24, <2>1 DEF vars
<1> HIDE DEF Goal
<1> QED
    BY <1>2, <1>11, <1>12, <1>13, <1>14, <1>15, <1>16, <1>17, <1>18, <1>19, <1>21, <1>22,
       <1>23, <1>24 DEF Next, Runner

\* The read-only plan comes true when nobody else interferes and DDL is rolled
\* back with the rest, for every deployment and however often the runs stop
\* (code: plan_revisions inspects every revision against one schema,
\* apply_revisions each against the schema its predecessors left).
THEOREM PlansComeTrue == Spec => []PlanComesTrue
<1>1. RunInv /\ PlanInv => PlanComesTrue
    <2> SUFFICES ASSUME RunInv, PlanInv, touched = {}, ~ddlCommits, Len(plan) = HeadRevision
                 PROVE  /\ \A k \in 1 .. HeadRevision :
                              /\ plan[k] = "conflict" => results[k] = "none"
                              /\ results[k] # "none" => plan[k] \in {results[k], "pending"}
                        /\ failed[1] \in {"conflict", "error", "unconfirmed"} =>
                              plan[failed[2]] \in {"conflict", "pending"}
        BY DEF PlanComesTrue
    <2>1. Tells /\ FailsAsPlanned
        BY DEF PlanInv, Quiet
    <2>2. ASSUME NEW k \in 1 .. HeadRevision
          PROVE  /\ plan[k] = "conflict" => results[k] = "none"
                 /\ results[k] # "none" => plan[k] \in {results[k], "pending"}
        BY <2>1 DEF Tells, ToldTrue, Foretold
    <2> QED BY <2>1, <2>2 DEF FailsAsPlanned
<1> QED BY <1>1, RunInit, RunStep, LedgerInit, LedgerStep, PlanInit, PlanStep, PTL DEF Spec
=============================================================================
