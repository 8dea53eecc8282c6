--------------------------- MODULE MCMigrations ---------------------------
(* The deployments the runner is tried on: what each released baseline     *)
(* left (the table of alembic/DWS_MIGRATION_COMPATIBILITY.md), upgraded    *)
(* to some ledger or not, a fresh schema, and each of some of these with   *)
(* one object or one row other than it should be.                          *)
EXTENDS Migrations

CONSTANTS r1, r2, s1, s2, i1, i2, a1, a2, f1, k1, k2, o1, o2

MCMatches == (i1 :> {a1}) @@ (i2 :> {a1, a2})
MCFieldMatches == [pair \in {i1, i2} \X {a1, a2} |-> IF pair[2] = a1 THEN {f1} ELSE {}]
MCKeywords == {k1, k2}

\* The order in which the released baselines took the revisions in.
ReleaseOrder == << 2, 3, 4, 5, 6, 7, 9, 1, 10, 11, 12 >>

\* p releases of structure in the baseline, then upgraded to ledger l
Satisfied(p, l) == {ReleaseOrder[j] : j \in 1 .. p} \cup 1 .. l

OfRevision(k, sat) ==
    LET in == k \in sat IN
    CASE k = 1 -> IF in THEN Right({"filter_index"}) ELSE << >>
      [] k = 2 -> IF in THEN [n \in {"upstream_system", "push_job", "push_width", "code_table",
                                     "code_check", "code_default", "lineage", "lineage_index"} |->
                                CASE n = "push_width"   -> IF 10 \in sat THEN "wide" ELSE "narrow"
                                  [] n = "code_check"   -> IF 6 \in sat THEN "binary" ELSE "legacy"
                                  [] n = "code_default" -> IF 6 \in sat THEN "enabled" ELSE "legacy"
                                  [] OTHER              -> "right"]
                  ELSE << >>
      [] k = 3 -> Right(IF in THEN AssetColumns \cup {"asset_by_identity"} \cup LineageColumns
                              ELSE {"asset_by_name"})
      [] k = 4 -> IF in THEN Right(RbacTables \cup {"grant_index"}) ELSE << >>
      [] k = 5 -> ("mapping_upstream" :> (IF in THEN "not_null" ELSE "null"))
                    @@ ("mapping_source" :> (IF in THEN "null" ELSE "not_null"))
                    @@ (IF in /\ 9 \notin sat THEN Right({"source_key_index"}) ELSE << >>)
      [] k = 7 -> IF in THEN Right(IndicatorColumns \cup {"reference_index"}) ELSE << >>
      [] k = 9 -> IF in THEN Right({"identity_index"}) ELSE << >>
      [] k = 11 -> IF in THEN Right({"keyword_table"}) ELSE << >>
      [] k = 12 -> IF in THEN Right({"field_index"}) ELSE << >>
      [] OTHER -> << >>

Deployed(p, l) ==
    LET sat == Satisfied(p, l) IN
    [schema     |-> FoldLeft(LAMBDA schema, k : OfRevision(k, sat) @@ schema, << >>,
                             [k \in 1 .. 13 |-> k]),
     mappings   |-> (r1 :> [source |-> "d1", upstream |-> IF 5 \in sat THEN s1 ELSE None])
                      @@ (r2 :> [source |-> None, upstream |-> s2]),
     systems    |-> (s1 :> "d1") @@ (s2 :> "d2"),
     statuses   |-> IF 2 \in sat
                      THEN (1 :> IF 6 \in sat THEN "disabled" ELSE "draft")
                             @@ (2 :> IF 6 \in sat THEN "enabled" ELSE "active")
                      ELSE << >>,
     references |-> (i1 :> IF 7 \in sat THEN [asset |-> a1, field |-> f1]
                                        ELSE [asset |-> None, field |-> None])
                      @@ (i2 :> [asset |-> None, field |-> None]),
     options    |-> (o1 :> "custom") @@ (o2 :> IF 8 \in sat THEN "seeded" ELSE "absent"),
     words      |-> IF 11 \in sat THEN (k1 :> "custom")
                                        @@ (k2 :> IF l >= 11 THEN "seeded" ELSE "absent")
                    ELSE << >>,
     rag        |-> IF l >= 13 THEN "tuned" ELSE "absent",
     roles      |-> ("admin" :> "custom") @@ ("maintainer" :> "absent"),
     menus      |-> ("home" :> "custom") @@ ("search" :> "absent")]

Installed == {<< p, 0 >> : p \in 0 .. Len(ReleaseOrder)} \cup {<< 0, l >> : l \in 1 .. 13}

Fresh == [schema |-> << >>, mappings |-> << >>, systems |-> << >>, statuses |-> << >>,
          references |-> << >>, options |-> (o1 :> "absent") @@ (o2 :> "absent"),
          words |-> << >>, rag |-> "absent",
          roles |-> ("admin" :> "absent") @@ ("maintainer" :> "absent"),
          menus |-> ("home" :> "absent") @@ ("search" :> "absent")]

\* A table goes with what it holds.
PartsOf(n) == CASE n = "code_table" -> {"code_check", "code_default"}
                [] n = "push_job"   -> {"push_width"}
                [] n = "lineage"    -> LineageColumns \cup {"lineage_index"}
                [] OTHER            -> {}
Without(d, n) ==
    [d EXCEPT !.schema = [m \in DOMAIN @ \ ({n} \cup PartsOf(n)) |-> @[m]],
              !.words = IF n = "keyword_table" THEN << >> ELSE @,
              !.statuses = IF n = "code_table" THEN << >> ELSE @]
With(d, n, definition) == [d EXCEPT !.schema = (n :> definition) @@ @]

\* One object missing, of another definition or there too early, or one row
\* the revisions cannot deal with.
Drifts(d) ==
    {Without(d, n) : n \in DOMAIN d.schema \ {"mapping_upstream", "mapping_source"}}
      \cup {With(d, n, "wrong") : n \in {"filter_index", "grant_index", "source_key_index",
                                         "identity_index", "reference_index",
                                         "keyword_table", "field_index", "push_width"}}
      \cup {With(d, n, "right") : n \in {"asset_source_key", "asset_by_name", "role",
                                         "source_key_index", "other_source_key",
                                         "identity_index", "indicator_asset"}}
      \cup {With(d, "mapping_upstream", "null"), With(d, "mapping_source", "not_null"),
            With(d, "push_width", "unlimited"), With(d, "code_default", "legacy"),
            [d EXCEPT !.systems = (s2 :> "d1") @@ @],
            [d EXCEPT !.mappings[r2] = [source |-> "d1", upstream |-> s1]],
            [d EXCEPT !.statuses = [c \in DOMAIN @ |-> "other"]],
            [d EXCEPT !.references[i1] = [asset |-> a1, field |-> None]],
            [d EXCEPT !.rag = "active"]}

Situation(d, l, rel) == [db |-> d, ledger |-> l, released |-> rel]
Released ==
    {Situation(Deployed(f[1], f[2]), f[2], TRUE) : f \in Installed} \cup {Situation(Fresh, None, TRUE)}
Drifted ==
    UNION {{Situation(d, f[2], FALSE) :
              d \in {d \in Drifts(Deployed(f[1], f[2])) :
                       /\ IsDatabase(d)
                       /\ \A k \in 1 .. f[2] : Inspect(Chain[k], d) = "applied"}} :
             f \in Installed}
MCSituations == Released \cup Drifted

\* What users and operators do meanwhile.
MCChanges ==
    {[what |-> "mappings", key |-> r1, to |-> s2], [what |-> "options", key |-> o2, to |-> "custom"],
     [what |-> "words", key |-> k2, to |-> "custom"],
     [what |-> "statuses", key |-> 1, to |-> "custom"],
     [what |-> "index", key |-> "filter_index", to |-> "right"]}
===========================================================================
