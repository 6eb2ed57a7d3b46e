----------------------------- MODULE Directives -----------------------------
(***************************************************************************)
(* The directive layer: one ledger of decisions about bill lines           *)
(* (directives.json), to which directives_from_legacy.py adds what the     *)
(* other files of the job decide, in which the server keeps the overrides  *)
(* of the administrators, and which apply_directives.py applies to the     *)
(* mapping table (directive_resolver.py).                                  *)
(*                                                                         *)
(* A directive is a record [source, key, field, value]; its id is made of  *)
(* source, key and field.  All of these select one line, so that they are  *)
(* equally specific and the later one wins.  Directives that only name a   *)
(* service, annotate a line or set an assumption change no strategy and no *)
(* cost and are left out, and so are ledgers of single users and the       *)
(* directives of a refinement.                                             *)
(***************************************************************************)
EXTENDS PricingRepairs, SequencesExt

Id(d) == <<d.source, d.key, d.field>>

\* One directive for each line that values is about.
Enlist(source, field, values) ==
    LET keys == SetToSeq(DOMAIN values)
    IN  [i \in DOMAIN keys |->
            [source |-> source, key |-> keys[i], field |-> field, value |-> values[keys[i]]]]

\* What overrides says of the lines: to suppress them, or to set their cost.
Overridden(source, overrides) ==
    LET Kept(kind) == [k \in {q \in DOMAIN overrides : overrides[q] = kind} |-> kind]
    IN  Enlist(source, "strategy", Kept("ignore")) \o Enlist(source, "override_rate", Kept("rate"))

\* Of the answers of the agents only an override that names a strategy, and no
\* service, decides anything: the candidates lie one level deeper in their
\* files than where they are looked for, and SKUs and multipliers are dropped.
Strategic(fix) == fix.decision = "override" /\ ~fix.service /\ fix.strategy \in ALLOWED_STRATEGIES

convert_legacy_to_directives(group, reviewed, triaged, overrides) ==
    LET Ignored(g)     == [k \in {q \in DOMAIN group : group[q] = g} |-> "ignore"]
        Decided(fixes) == [k \in {q \in DOMAIN fixes : Strategic(fixes[q])} |-> fixes[k].strategy]
    IN  Enlist("commitment", "strategy", Ignored("commitment_discount"))
        \o Enlist("negative", "strategy", Ignored("negative_cost"))
        \o Enlist("review", "strategy", Decided(reviewed))
        \o Enlist("outlier", "strategy", Decided(triaged))
        \o Overridden("override", overrides)

\* The entries of a ledger that are not among these, in their order.
Without(ledger, gone) ==
    LET kept == [i \in 1 .. Len(ledger) |-> IF ledger[i] \in gone THEN <<>> ELSE <<ledger[i]>>]
        upTo[i \in 0 .. Len(ledger)] == IF i = 0 THEN <<>> ELSE upTo[i - 1] \o kept[i]
    IN  upTo[Len(ledger)]

\* What has an id of the ledger is not added again, whatever it says now.
directives_from_legacy(ledger, legacy) ==
    LET known == {Id(d) : d \in ToSet(ledger)}
    IN  ledger \o Without(legacy, {d \in ToSet(legacy) : Id(d) \in known})

\* The server replaces its own entries only, and puts them last.
syncDirectivesFromOverrides(ledger, overrides) ==
    Without(ledger, {d \in ToSet(ledger) : d.source = "manual"}) \o Overridden("manual", overrides)

-----------------------------------------------------------------------------
\* The last directive about a field of a line decides it.
resolve(ledger, field) ==
    LET About(k) == {i \in DOMAIN ledger : ledger[i].field = field /\ ledger[i].key = k}
    IN  [k \in {d.key : d \in {e \in ToSet(ledger) : e.field = field}} |-> ledger[Max(About(k))].value]

SetStrategies(table, strategies, keys) ==
    {IF row.key \in keys THEN [row EXCEPT !.strategy = strategies[row.key]] ELSE row : row \in table}

\* The tables apply_directives.py may leave behind.  The costs of ignored and of
\* rated lines are written to gcp_projection as well.  Once that is the view of
\* projection_view.py, the database refuses, and the script dies at the first
\* such line, in whatever order the lines came.
apply_directives(table, ledger, view) ==
    LET strategies == resolve(ledger, "strategy")
        fatal == {k \in {row.key : row \in table} :
                     /\ view
                     /\ \/ k \in DOMAIN strategies /\ strategies[k] = "ignore"
                        \/ k \in DOMAIN resolve(ledger, "override_rate")}
        reached == {keys \in SUBSET DOMAIN strategies :
                       \E last \in fatal : keys \cap fatal = {last} \cap DOMAIN strategies}
    IN  IF fatal = {} THEN {SetStrategies(table, strategies, DOMAIN strategies)}
        ELSE {SetStrategies(table, strategies, keys) : keys \in reached}
=============================================================================
