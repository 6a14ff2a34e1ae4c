---------------------------- MODULE TransferGates ---------------------------
(***************************************************************************)
(* The decisions of the adapter transfer diagnostics, as functions of what *)
(* the models answered and of what their configurations say.  Rates are    *)
(* kept as counts of cases and compared with percentages of the suite.     *)
(***************************************************************************)
EXTENDS Integers, Sequences, FiniteSets, SequencesExt

NullRow == 0            \* a row of a result that Python cannot order with others

---------------------------------------------------------------------------
(* SQLCapabilityEvaluator.  A case of the suite is [id, tables, setup,     *)
(* graded, expected, ordered]; an answer of a model, after the statement   *)
(* was cut out of the text, is [empty, repeats, parses, tables, runs, rows]*)

Sortable(rows) == NullRow \in ToSet(rows) => ToSet(rows) = {NullRow}

Occurrences(rows, row) == Cardinality({i \in DOMAIN rows : rows[i] = row})

SameRows(rows, expected) ==
    IF Sortable(rows) /\ Sortable(expected)
    THEN \A row \in ToSet(rows) \union ToSet(expected) :
             Occurrences(rows, row) = Occurrences(expected, row)
    ELSE rows = expected

ExecuteSqlite(case, answer) == case.setup /\ answer.parses /\ answer.runs

IsCorrect(case, answer) ==
    /\ ExecuteSqlite(case, answer) /\ case.graded
    /\ IF case.ordered THEN answer.rows = case.expected
                       ELSE SameRows(answer.rows, case.expected)

EvaluateSuite(suite, answers) ==
    [i \in DOMAIN suite |->
        [id |-> suite[i].id,
         syntax_valid |-> answers[i].parses,
         schema_ok |-> answers[i].parses /\ suite[i].tables \subseteq answers[i].tables,
         execution_success |-> ExecuteSqlite(suite[i], answers[i]),
         is_correct |-> IsCorrect(suite[i], answers[i]),
         empty |-> answers[i].empty,
         repeats |-> answers[i].repeats /\ ~answers[i].empty]]

Passing(results, field) == {i \in DOMAIN results : results[i][field]}
Stat(results, field) == Cardinality(Passing(results, field))
CorrectIds(results) == {results[i].id : i \in Passing(results, "is_correct")}

---------------------------------------------------------------------------
(* SourceAdapterQualityReport: the adapter against its own base model.     *)

\* The defaults, which the runner takes; the script's command line may give others.
QualityGateConfig ==
    [primary_metric |-> "execution_accuracy", positive |-> 3, weak |-> 0,
     negative |-> -1, regression |-> 10, emptyOutput |-> 5, repetition |-> 10]

Field == [execution_accuracy |-> "is_correct", execution_success |-> "execution_success",
          syntax_validity |-> "syntax_valid"]

\* The runner leaves stability empty.
Metrics(base, adapter) ==
    [total |-> Len(base),
     delta |-> [m \in DOMAIN Field |-> Stat(adapter, Field[m]) - Stat(base, Field[m])],
     fixed |-> Cardinality(CorrectIds(adapter) \ CorrectIds(base)),
     regressed |-> Cardinality(CorrectIds(base) \ CorrectIds(adapter)),
     collapse |-> FALSE, empty |-> 0, repetitions |-> 0]

\* The quality gate script also measures whether the outputs are stable.
StabilityMetrics(base, adapter) ==
    [Metrics(base, adapter) EXCEPT
        !.collapse = /\ 10 * Stat(adapter, "execution_success") < Len(base)
                     /\ 2 * Stat(base, "execution_success") > Len(base),
        !.empty = Stat(adapter, "empty"),
        !.repetitions = Stat(adapter, "repeats")]

Verdict(verdict, status) == [verdict |-> verdict, status |-> status]

Exceeds(count, percent, q) == 100 * count > percent * q.total

ScoreVerdict(q, config) ==
    LET diff == q.delta[config.primary_metric] IN
    IF 100 * diff >= config.positive * q.total
    THEN Verdict("POSITIVE_TEACHER",
                 IF Exceeds(q.repetitions, config.repetition, q) THEN "WARNING" ELSE "PASS")
    ELSE IF Exceeds(diff, config.weak, q) THEN Verdict("WEAK_POSITIVE_TEACHER", "WARNING")
    ELSE IF ~Exceeds(diff, config.negative, q) THEN Verdict("NEGATIVE_TEACHER", "FAIL")
    ELSE Verdict("NEUTRAL_TEACHER", "WARNING")

GenerateVerdict(q, config) ==
    CASE config.primary_metric \notin DOMAIN q.delta -> Verdict("INCONCLUSIVE", "WARNING")
      [] config.primary_metric \in DOMAIN q.delta ->
            IF q.collapse \/ Exceeds(q.empty, config.emptyOutput, q)
            THEN Verdict("UNSTABLE_TEACHER", "FAIL")
            ELSE IF Exceeds(q.regressed, config.regression, q)
            THEN Verdict("NEGATIVE_TEACHER", "FAIL")
            ELSE ScoreVerdict(q, config)

---------------------------------------------------------------------------
(* DeltaHealthAnalyzer.  A parameter of the model is [module, layer, side, *)
(* label, energy, entropy]: label is the adapter name PEFT puts between    *)
(* lora_A or lora_B and weight, energy and entropy (in percent) are those  *)
(* of the product it belongs to.                                           *)

\* The name without ".lora_A.weight", ".lora_B.weight" and ".weight".
BaseName(p) == IF p.label = "" THEN <<p.module, p.layer>>
               ELSE <<p.module, p.layer, p.side, p.label>>

LoraPairs(params) ==
    {b \in params : /\ b.side = "B"
                    /\ \E a \in params : a.side = "A" /\ BaseName(a) = BaseName(b)}

LayerEnergy(pairs, layer) ==
    MapThenSumSet(LAMBDA p : p.energy, {p \in pairs : p.layer = layer})

Analyze(params) ==
    LET pairs == LoraPairs(params)
        energy == MapThenSumSet(LAMBDA p : p.energy, pairs)
        entropy == MapThenSumSet(LAMBDA p : p.entropy, pairs)
    IN IF \E p \in pairs : 10 * LayerEnergy(pairs, p.layer) > 8 * energy
       THEN "CRITICALLY_CONCENTRATED"
       ELSE IF pairs # {} /\ entropy < 40 * Cardinality(pairs)
       THEN "LOW_SPECTRAL_ENTROPY"
       ELSE "HEALTHY_DELTA"

---------------------------------------------------------------------------
(* DiagnosticRunner's gates on the configurations and the last decision.   *)

\* file: "absent" where the config is neither local nor on the Hub, which is a
\* WARNING that stops nothing; base: the base model it names, <<>> for none.
\* Names are sequences of their pieces, as one may be a part of another: "qwen"
\* fits the config of an adapter for "org/qwen-small".
MetadataGate(file, base, sourceBase) ==
    CASE file = "absent" -> "WARNING"
      [] file # "absent" -> IF base # <<>> /\ sourceBase \notin SubSeqs(base) THEN "FAIL" ELSE "PASS"

Points(condition, points) == IF condition THEN points ELSE 0

\* A model's config is [readable, hidden, layers, type, vocab].
CompatibilityGate(s, t) ==
    LET score == Points(s.type = t.type, 4)
               + Points(2 * s.hidden <= 10 * t.hidden /\ 10 * t.hidden <= 15 * s.hidden, 2)
               + Points(s.layers <= 2 * t.layers /\ t.layers <= 2 * s.layers, 2)
               + Points(s.vocab = t.vocab, 2)
    IN IF ~s.readable \/ ~t.readable THEN "INCONCLUSIVE"
       ELSE IF score > 7 THEN "COMPATIBLE" ELSE "RISKY"

FeasibilityGate(s, t) == IF s.readable /\ t.readable THEN "FEASIBLE" ELSE "INCOMPATIBLE"

\* Mutant: a target that nobody looked at passes.
FinalizeReleaseDecision_Unseen(quality, feasibility, health) ==
    [verdict |-> IF quality # Verdict("POSITIVE_TEACHER", "PASS") THEN "INCONCLUSIVE"
                 ELSE IF feasibility # "INCOMPATIBLE" THEN "PROJECTION_CANDIDATE"
                 ELSE "SOURCE_READY",
     mode |-> "none"]

\* The target evaluation gate is never filled, so only this part is reached.
FinalizeReleaseDecision(quality, feasibility, health) ==
    CASE quality # Verdict("POSITIVE_TEACHER", "PASS") -> [verdict |-> "INCONCLUSIVE", mode |-> "none"]
      [] quality = Verdict("POSITIVE_TEACHER", "PASS") ->
            IF feasibility = "FEASIBLE" /\ health = "HEALTHY_DELTA"
            THEN [verdict |-> "PROJECTION_CANDIDATE", mode |-> "none"]
            ELSE IF feasibility = "FEASIBLE" /\ health = "LOW_SPECTRAL_ENTROPY"
            THEN [verdict |-> "PROJECTION_CANDIDATE", mode |-> "piecewise"]
            ELSE [verdict |-> "SOURCE_READY", mode |-> "none"]

=============================================================================
