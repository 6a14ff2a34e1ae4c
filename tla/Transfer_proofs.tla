--------------------------- MODULE Transfer_proofs --------------------------
(***************************************************************************)
(* Proofs about the commands around a projection (TransferPipeline), for   *)
(* every set of jobs, every suite and everything that models may answer: a *)
(* report that proposes a projection shows an improvement, the comparison  *)
(* of the gate script bears out what both programs say, and a package that *)
(* is accepted was published for the report in it.                         *)
(*                                                                         *)
(* Proofs about the projection itself (AdapterProjection), for every set   *)
(* of command lines, every order of the tensors in a file and every size   *)
(* of a model: it implements AdapterFiles, on which the pipeline is built, *)
(* what it writes fits the target, and no pair is separated in silence.    *)
(*                                                                         *)
(* Proofs about behaviour transfer (BehaviorTransfer), for every sequence  *)
(* of calls: the files of an adapter that was saved are of one export.     *)
(***************************************************************************)
EXTENDS TransferPipeline, AdapterProjection, BehaviorTransfer, FiniteSetTheorems, TLAPS

-----------------------------------------------------------------------------
(* The results of a suite.                                                 *)

\* Results of n cases, each under its own name.
Graded(results, n) ==
    /\ DOMAIN results = 1..n
    /\ Len(results) = n
    /\ \A i \in 1..n : results[i].is_correct \in BOOLEAN
    /\ \A i, j \in 1..n : results[i].id = results[j].id => i = j

\* What evaluate_suite returns for the base model and for the adapter.
LEMMA SuiteResults ==
    ASSUME NEW job \in Jobs
    PROVE  \E n \in Nat \ {0} :
              /\ Graded(BaseResults(job), n) /\ Graded(AdapterResults(job), n)
              /\ \A i \in 1..n : BaseResults(job)[i].id = AdapterResults(job)[i].id
<1> DEFINE suite == Details[job].suite
           n == Len(suite)
<1>1. /\ suite \in Seq(ToSet(suite)) /\ suite # <<>>
      /\ \A i, j \in DOMAIN suite : suite[i].id = suite[j].id => i = j
  BY PipelineAssumption
<1>2. n \in Nat \ {0} /\ DOMAIN suite = 1..n
  BY <1>1
<1> HIDE DEF suite, n
<1>3. ASSUME NEW answers
      PROVE  LET results == EvaluateSuite(suite, answers)
             IN  /\ Graded(results, n)
                 /\ \A i \in 1..n : results[i].id = suite[i].id
  <2> DEFINE results == EvaluateSuite(suite, answers)
  <2>1. DOMAIN results = 1..n
    BY <1>2 DEF EvaluateSuite
  <2>2. \A i \in 1..n : results[i].id = suite[i].id
    BY <1>2 DEF EvaluateSuite
  <2>3. \A i \in 1..n : results[i].is_correct = IsCorrect(suite[i], answers[i])
    BY <1>2 DEF EvaluateSuite
  <2>4. \A i \in 1..n : IsCorrect(suite[i], answers[i]) \in BOOLEAN
    BY DEF IsCorrect
  <2>5. results \in [1..n -> ToSet(results)]
    BY <1>2 DEF EvaluateSuite, ToSet
  <2>6. Len(results) = n
    BY <2>5, <1>2
  <2> QED
    BY <1>1, <1>2, <2>1, <2>2, <2>3, <2>4, <2>6 DEF Graded
<1> QED
  BY <1>2, <1>3 DEF BaseResults, AdapterResults, suite

\* The names of the cases that pass number as many as the cases.
LEMMA CorrectCount ==
    ASSUME NEW results, NEW n \in Nat, Graded(results, n)
    PROVE  /\ IsFiniteSet(CorrectIds(results))
           /\ Cardinality(CorrectIds(results)) = Stat(results, "is_correct")
           /\ Stat(results, "is_correct") \in Nat
<1> DEFINE P == Passing(results, "is_correct")
           f == [i \in P |-> results[i].id]
<1>1. P \subseteq 1..n
  BY DEF Graded, Passing
<1>2. IsFiniteSet(P)
  BY <1>1, FS_Interval, FS_Subset
<1>3. CorrectIds(results) = {results[i].id : i \in P}
  BY DEF CorrectIds
<1> HIDE DEF P
<1>4. f \in Bijection(P, CorrectIds(results))
  <2>1. f \in [P -> CorrectIds(results)]
    BY <1>3
  <2>2. \A i, j \in P : f[i] = f[j] => i = j
    BY <1>1 DEF Graded
  <2>3. \A t \in CorrectIds(results) : \E i \in P : f[i] = t
    BY <1>3
  <2> QED
    BY <2>1, <2>2, <2>3 DEF Bijection, Injection, Surjection, IsInjective
<1>5. ExistsBijection(P, CorrectIds(results))
  BY <1>4 DEF ExistsBijection
<1> QED
  BY <1>2, <1>5, FS_Bijection, FS_CardinalityType DEF Stat, P

\* More cases of one set than of the other remain when those of both are
\* taken away.
LEMMA DifferenceCount ==
    ASSUME NEW A, NEW B, IsFiniteSet(A), IsFiniteSet(B)
    PROVE  /\ Cardinality(A) \in Nat /\ Cardinality(B) \in Nat
           /\ Cardinality(A \ B) \in Nat /\ Cardinality(B \ A) \in Nat
           /\ Cardinality(A \ B) - Cardinality(B \ A) = Cardinality(A) - Cardinality(B)
<1>1. /\ IsFiniteSet(A \ B) /\ Cardinality(A \ B) = Cardinality(A) - Cardinality(A \cap B)
      /\ IsFiniteSet(B \ A) /\ Cardinality(B \ A) = Cardinality(B) - Cardinality(B \cap A)
      /\ IsFiniteSet(A \cap B)
  <2>1. IsFiniteSet(A \ B) /\ Cardinality(A \ B) = Cardinality(A) - Cardinality(A \cap B)
    BY FS_Difference
  <2>2. IsFiniteSet(B \ A) /\ Cardinality(B \ A) = Cardinality(B) - Cardinality(B \cap A)
    BY FS_Difference
  <2>3. IsFiniteSet(A \cap B)
    BY FS_Intersection
  <2> QED
    BY <2>1, <2>2, <2>3
<1>2. A \cap B = B \cap A
  OBVIOUS
<1>3. /\ Cardinality(A) \in Nat /\ Cardinality(B) \in Nat /\ Cardinality(A \cap B) \in Nat
      /\ Cardinality(A \ B) \in Nat /\ Cardinality(B \ A) \in Nat
  BY <1>1, FS_CardinalityType
<1>4. Cardinality(B \ A) = Cardinality(B) - Cardinality(A \cap B)
  BY <1>1, <1>2, Zenon
<1> DEFINE a == Cardinality(A)
           b == Cardinality(B)
           c == Cardinality(A \cap B)
           x == Cardinality(A \ B)
           y == Cardinality(B \ A)
<1>5. x = a - c /\ y = b - c /\ a \in Nat /\ b \in Nat /\ c \in Nat /\ x \in Nat /\ y \in Nat
  BY <1>1, <1>3, <1>4
<1> HIDE DEF a, b, c, x, y
<1>6. x - y = a - b
  BY <1>5
<1> QED
  BY <1>5, <1>6 DEF a, b, x, y

-----------------------------------------------------------------------------
(* What the gates conclude from them.                                      *)

\* What generate_verdict is given: counts of a suite with cases, of which the
\* gain in accuracy is the difference of what was fixed and what was broken.
Scored(q) ==
    /\ q.total \in Nat \ {0} /\ q.fixed \in Nat /\ q.regressed \in Nat
    /\ "execution_accuracy" \in DOMAIN q.delta
    /\ q.delta["execution_accuracy"] = q.fixed - q.regressed

LEMMA RunnerScores ==
    ASSUME NEW job \in Jobs
    PROVE  LET q == Metrics(BaseResults(job), AdapterResults(job))
           IN  Scored(q) /\ q.collapse = FALSE /\ q.empty = 0 /\ q.repetitions = 0
<1> DEFINE base == BaseResults(job)
           tuned == AdapterResults(job)
           q == Metrics(base, tuned)
<1>1. PICK n \in Nat \ {0} : Graded(base, n) /\ Graded(tuned, n)
  BY SuiteResults
<1>2. /\ IsFiniteSet(CorrectIds(base)) /\ IsFiniteSet(CorrectIds(tuned))
      /\ Cardinality(CorrectIds(base)) = Stat(base, "is_correct")
      /\ Cardinality(CorrectIds(tuned)) = Stat(tuned, "is_correct")
  BY <1>1, CorrectCount
<1> HIDE DEF base, tuned
<1>3. /\ q.total = Len(base) /\ q.collapse = FALSE /\ q.empty = 0 /\ q.repetitions = 0
      /\ q.fixed = Cardinality(CorrectIds(tuned) \ CorrectIds(base))
      /\ q.regressed = Cardinality(CorrectIds(base) \ CorrectIds(tuned))
  BY DEF Metrics
<1>4. /\ "execution_accuracy" \in DOMAIN q.delta
      /\ q.delta["execution_accuracy"] = Stat(tuned, "is_correct") - Stat(base, "is_correct")
  BY DEF Metrics, Field
<1>5. q.total \in Nat \ {0}
  BY <1>1, <1>3 DEF Graded
<1>6. /\ q.fixed \in Nat /\ q.regressed \in Nat
      /\ q.fixed - q.regressed = Cardinality(CorrectIds(tuned)) - Cardinality(CorrectIds(base))
  BY <1>2, <1>3, DifferenceCount
<1> QED
  BY <1>2, <1>3, <1>4, <1>5, <1>6 DEF Scored, base, tuned

\* The teacher that passes is better than its base model.
LEMMA PositiveImproves ==
    ASSUME NEW q, Scored(q),
           GenerateVerdict(q, QualityGateConfig) = Verdict("POSITIVE_TEACHER", "PASS")
    PROVE  q.fixed > q.regressed
<1>1. /\ QualityGateConfig.primary_metric = "execution_accuracy"
      /\ QualityGateConfig.positive = 3
  BY DEF QualityGateConfig
<1>2. ScoreVerdict(q, QualityGateConfig) = Verdict("POSITIVE_TEACHER", "PASS")
  BY <1>1 DEF Scored, GenerateVerdict, Verdict
<1>3. 100 * q.delta["execution_accuracy"] >= 3 * q.total
  BY <1>1, <1>2 DEF ScoreVerdict, Verdict
<1> DEFINE total == q.total
           fixed == q.fixed
           regressed == q.regressed
<1>4. /\ total \in Nat \ {0} /\ fixed \in Nat /\ regressed \in Nat
      /\ 100 * (fixed - regressed) >= 3 * total
  BY <1>3 DEF Scored
<1> HIDE DEF total, fixed, regressed
<1>5. fixed > regressed
  BY <1>4
<1> QED
  BY <1>5 DEF fixed, regressed

\* What finalize_release_decision needs for a projection candidate.
LEMMA DecisionFacts ==
    ASSUME NEW quality, NEW feasible, NEW health
    PROVE  LET decision == FinalizeReleaseDecision(quality, feasible, health)
           IN  /\ decision.verdict \in {"INCONCLUSIVE", "PROJECTION_CANDIDATE", "SOURCE_READY"}
               /\ decision.verdict = "PROJECTION_CANDIDATE" =>
                      /\ quality = Verdict("POSITIVE_TEACHER", "PASS")
                      /\ feasible = "FEASIBLE"
  BY DEF FinalizeReleaseDecision

LEMMA DiagnosisFacts ==
    ASSUME NEW job \in Jobs
    PROVE  LET found == Diagnosis(job)
               q == Metrics(BaseResults(job), AdapterResults(job))
           IN  /\ found.metadata = MetadataStatus(job)
               /\ found.fixed = q.fixed /\ found.regressed = q.regressed
               /\ found.quality = GenerateVerdict(q, QualityGateConfig)
               /\ found.decision.verdict # None
               /\ found.decision.verdict = "PROJECTION_CANDIDATE" =>
                      /\ found.fixed > found.regressed
                      /\ Details[job].hasTarget /\ Details[job].target.readable
<1> DEFINE d == Details[job]
           q == Metrics(BaseResults(job), AdapterResults(job))
           quality == GenerateVerdict(q, QualityGateConfig)
           feasible == IF d.hasTarget THEN FeasibilityGate(d.source, d.target) ELSE "UNKNOWN"
           health == Analyze(PeftParameters(d.params))
           found == Diagnosis(job)
<1>1. /\ found.metadata = MetadataStatus(job)
      /\ found.fixed = q.fixed /\ found.regressed = q.regressed
      /\ found.quality = quality
      /\ found.decision = FinalizeReleaseDecision(quality, feasible, health)
  BY DEF Diagnosis
<1>2. Scored(q)
  BY RunnerScores
<1>3. feasible = "FEASIBLE" => d.hasTarget /\ d.target.readable
  BY DEF FeasibilityGate
<1> HIDE DEF d, q, quality, feasible, health, found
<1>4. found.decision.verdict # None
  BY <1>1, DecisionFacts, PipelineAssumption
<1>5. ASSUME found.decision.verdict = "PROJECTION_CANDIDATE"
      PROVE  found.fixed > found.regressed /\ d.hasTarget /\ d.target.readable
  <2>1. quality = Verdict("POSITIVE_TEACHER", "PASS") /\ feasible = "FEASIBLE"
    BY <1>1, <1>5, DecisionFacts
  <2>2. q.fixed > q.regressed
    BY <1>2, <2>1, PositiveImproves DEF quality
  <2> QED
    BY <1>1, <1>3, <2>1, <2>2
<1> QED
  BY <1>1, <1>4, <1>5 DEF d, q, quality, found

\* Whatever the other thresholds, an adapter that the script calls a positive
\* teacher for its accuracy, with a positive threshold, is better than its base.
LEMMA ScriptImproves ==
    ASSUME NEW job \in Jobs, Details[job].gateConfig.primary_metric = "execution_accuracy",
           Details[job].gateConfig.positive > 0,
           Judgement(job).verdict.verdict = "POSITIVE_TEACHER"
    PROVE  Judgement(job).fixed > Judgement(job).regressed
<1> DEFINE c == Details[job].gateConfig
           q == Metrics(BaseResults(job), AdapterResults(job))
           s == StabilityMetrics(BaseResults(job), AdapterResults(job))
<1>1. /\ Judgement(job).verdict = GenerateVerdict(s, c)
      /\ Judgement(job).fixed = s.fixed /\ Judgement(job).regressed = s.regressed
  BY DEF Judgement
<1>2. /\ s.total = q.total /\ s.delta = q.delta
      /\ s.fixed = q.fixed /\ s.regressed = q.regressed
  BY DEF StabilityMetrics, Metrics
<1>3. Scored(q)
  BY RunnerScores
<1>4. c.positive \in Int
  BY PipelineAssumption
<1> HIDE DEF c, q, s
<1>5. GenerateVerdict(s, c).verdict = "POSITIVE_TEACHER"
  BY <1>1
<1>6. "execution_accuracy" \in DOMAIN s.delta /\ c.primary_metric = "execution_accuracy"
  BY <1>2, <1>3 DEF Scored, c
<1>7. GenerateVerdict(s, c) = ScoreVerdict(s, c)
  BY <1>5, <1>6 DEF GenerateVerdict, Verdict
<1>8. 100 * s.delta["execution_accuracy"] >= c.positive * s.total
  BY <1>5, <1>6, <1>7 DEF ScoreVerdict, Verdict
<1> DEFINE total == q.total
           fixed == q.fixed
           regressed == q.regressed
           positive == c.positive
<1>9. /\ total \in Nat \ {0} /\ fixed \in Nat /\ regressed \in Nat
      /\ positive \in Int /\ positive > 0
      /\ 100 * (fixed - regressed) >= positive * total
  BY <1>2, <1>3, <1>4, <1>8 DEF Scored, c
<1> HIDE DEF total, fixed, regressed, positive
<1>10. positive * total > 0
  BY <1>9
<1>11. fixed > regressed
  <2>1. 100 * (fixed - regressed) > 0
    <3> DEFINE product == positive * total
    <3>1. product \in Int /\ product > 0 /\ 100 * (fixed - regressed) >= product
      BY <1>9, <1>10
    <3> HIDE DEF product
    <3> QED
      BY <1>9, <3>1
  <2> QED
    BY <1>9, <2>1
<1> QED
  BY <1>1, <1>2, <1>11 DEF fixed, regressed

\* The comparison of the script classifies as many cases as fixed, and as
\* regressed, as the runner counts.
LEMMA ComparisonAgrees ==
    ASSUME NEW job \in Jobs
    PROVE  LET comparison == Judgement(job).comparison
               Classified(class) == {id \in DOMAIN comparison : comparison[id] = class}
           IN  /\ Cardinality(Classified("fixed")) = Diagnosis(job).fixed
               /\ Cardinality(Classified("regressed")) = Diagnosis(job).regressed
               /\ Judgement(job).fixed = Diagnosis(job).fixed
               /\ Judgement(job).regressed = Diagnosis(job).regressed
<1> DEFINE base == BaseResults(job)
           tuned == AdapterResults(job)
           ids == {r.id : r \in ToSet(base)}
           comparison == Judgement(job).comparison
           Classified(class) == {id \in DOMAIN comparison : comparison[id] = class}
<1>1. PICK n \in Nat \ {0} : /\ Graded(base, n) /\ Graded(tuned, n)
                             /\ \A i \in 1..n : base[i].id = tuned[i].id
  BY SuiteResults
<1>2. comparison = [id \in ids |-> Classification(base, tuned, id)]
  BY DEF Judgement
<1>9. /\ Judgement(job).fixed = Diagnosis(job).fixed
      /\ Judgement(job).regressed = Diagnosis(job).regressed
  BY DiagnosisFacts DEF Judgement, StabilityMetrics, Metrics
<1>3. /\ Diagnosis(job).fixed = Cardinality(CorrectIds(tuned) \ CorrectIds(base))
      /\ Diagnosis(job).regressed = Cardinality(CorrectIds(base) \ CorrectIds(tuned))
  BY DiagnosisFacts DEF Metrics
<1> HIDE DEF base, tuned, comparison
<1>4. ids = {base[i].id : i \in 1..n}
  BY <1>1 DEF Graded, ToSet
<1>5. ASSUME NEW results, Graded(results, n), NEW i \in 1..n
      PROVE  /\ LastOf(results, results[i].id) = results[i]
             /\ results[i].id \in CorrectIds(results) <=> results[i].is_correct
  <2>1. \A j \in DOMAIN results : results[j].id = results[i].id <=> j = i
    BY <1>5 DEF Graded
  <2>2. i \in DOMAIN results /\ i \in Int /\ i <= i
    BY <1>5 DEF Graded
  <2>3. LastOf(results, results[i].id) = results[i]
    BY <2>1, <2>2 DEF LastOf
  <2> QED
    BY <2>1, <2>2, <2>3 DEF CorrectIds, Passing
<1>6. ASSUME NEW i \in 1..n
      PROVE  LET id == base[i].id
             IN  /\ Classification(base, tuned, id) = "fixed"
                       <=> id \in CorrectIds(tuned) \ CorrectIds(base)
                 /\ Classification(base, tuned, id) = "regressed"
                       <=> id \in CorrectIds(base) \ CorrectIds(tuned)
  <2> DEFINE id == base[i].id
  <2>1. LastOf(base, id) = base[i] /\ (id \in CorrectIds(base) <=> base[i].is_correct)
    BY <1>1, <1>5
  <2>2. LastOf(tuned, id) = tuned[i] /\ (id \in CorrectIds(tuned) <=> tuned[i].is_correct)
    BY <1>1, <1>5
  <2>3. base[i].is_correct \in BOOLEAN /\ tuned[i].is_correct \in BOOLEAN
    BY <1>1 DEF Graded
  <2> HIDE DEF id
  <2>4. Classification(base, tuned, id) =
            IF tuned[i].is_correct /\ ~base[i].is_correct THEN "fixed"
            ELSE IF base[i].is_correct /\ ~tuned[i].is_correct THEN "regressed"
            ELSE IF ~base[i].is_correct THEN "both_failed" ELSE "both_succeeded"
    BY <2>1, <2>2, <2>3 DEF Classification
  <2> QED
    BY <2>1, <2>2, <2>3, <2>4 DEF id
<1>7. CorrectIds(base) \subseteq ids /\ CorrectIds(tuned) \subseteq ids
  <2>1. \A i \in DOMAIN base : i \in 1..n /\ base[i].id \in ids
    BY <1>1, <1>4 DEF Graded
  <2>2. \A i \in DOMAIN tuned : tuned[i].id \in ids
    BY <1>1, <1>4 DEF Graded
  <2> HIDE DEF ids
  <2> QED
    BY <2>1, <2>2 DEF CorrectIds, Passing
<1>8. /\ Classified("fixed") = CorrectIds(tuned) \ CorrectIds(base)
      /\ Classified("regressed") = CorrectIds(base) \ CorrectIds(tuned)
  <2>1. \A class : Classified(class) =
                        {id \in ids : Classification(base, tuned, id) = class}
    BY <1>2
  <2>2. \A id \in ids : /\ Classification(base, tuned, id) = "fixed"
                              <=> id \in CorrectIds(tuned) \ CorrectIds(base)
                        /\ Classification(base, tuned, id) = "regressed"
                              <=> id \in CorrectIds(base) \ CorrectIds(tuned)
    BY <1>4, <1>6
  <2> HIDE DEF ids, Classified
  <2> QED
    BY <1>7, <2>1, <2>2
<1> QED
  BY <1>3, <1>8, <1>9 DEF comparison

-----------------------------------------------------------------------------
(* The files.                                                              *)

ReportFile == "diagnostic_report.json"

\* A report that can be read is what a diagnosis of its job found, and its
\* metadata gate passed or was overruled.
Sound(file) ==
    Readable(file) =>
        /\ file.job \in Jobs
        /\ file.found = Diagnosis(file.job)
        /\ MetadataStatus(file.job) # "FAIL" \/ Details[file.job].force

ReportFacts ==
    /\ DOMAIN runDir = RunFiles /\ DOMAIN package = PackageFiles
    /\ Sound(Report) /\ Sound(package[ReportFile])

GateFacts ==
    gate # None => gate.job \in Jobs /\ gate.judgement = Judgement(gate.job)

\* The package holds the report that the packaging has copied, and the one
\* that it goes on with unless the run directory changed in between.
PackingFacts ==
    packing # None =>
        /\ packing.step \in 1..9
        /\ packing.step <= 8 =>
               /\ packing \in [step : 1..8, copied : {packing.copied}]
               /\ packing.step >= 5 /\ packing.copied # None =>
                      package[ReportFile] = packing.copied
        /\ packing.step = 9 =>
               /\ packing \in [step : {9}, report : {packing.report}, raced : BOOLEAN]
               /\ ~packing.raced /\ packing.report # None =>
                      package[ReportFile] = packing.report

\* The hash of the report is that of the report the metadata was written for.
MetaFacts ==
    Readable(meta) /\ ~meta.raced /\ meta.report # None =>
        ReportFile \in DOMAIN meta.hashes /\ meta.hashes[ReportFile] = meta.report

\* The inductive invariant.
PipelineInv == ReportFacts /\ GateFacts /\ PackingFacts /\ MetaFacts

-----------------------------------------------------------------------------
\* The report is the fourth of the seven files that are copied.
LEMMA CopySteps ==
    /\ Len(CopyOrder) = 7
    /\ \A i \in 1..7 : /\ CopyOrder[i] \in PackageFiles
                       /\ CopyOrder[i] = ReportFile <=> i = 4
    /\ ReportFile \in RunFiles /\ ReportFile \in PackageFiles
    /\ "CITATION.cff" \in PackageFiles /\ "CITATION.cff" # ReportFile
  BY DEF CopyOrder, ReportFile, PackageFiles, RunFiles, AdapterNames

\* Only the diagnostics write a report into the run directory.
LEMMA SavedReport ==
    ASSUME ReportFacts, NEW file \in RunFiles, NEW content, Saved(file, content),
           file = ReportFile => Sound(content),
           UNCHANGED package
    PROVE  ReportFacts'
<1>1. DOMAIN runDir' = RunFiles
      /\ runDir'[ReportFile] = IF file = ReportFile THEN content ELSE runDir[ReportFile]
  BY CopySteps DEF ReportFacts, Saved
<1>2. Report' = runDir'[ReportFile] /\ Report = runDir[ReportFile]
  BY DEF Report, ReportFile
<1>3. Sound(Report)'
  BY <1>1, <1>2 DEF ReportFacts, Sound, Readable
<1>4. Sound(package[ReportFile])'
  BY DEF ReportFacts, Sound, Readable
<1> QED
  BY <1>1, <1>3, <1>4 DEF ReportFacts

\* What a diagnosis writes is sound.
LEMMA ExecuteKeeps ==
    ASSUME ReportFacts, NEW job \in Jobs, Execute(job)
    PROVE  ReportFacts'
<1>1. UNCHANGED package
  BY DEF Execute, Command
<1>2. CASE UNCHANGED runDir
  BY <1>1, <1>2 DEF ReportFacts, Report, Sound, Readable
<1>3. CASE Saved(ReportFile, Torn)
  BY <1>1, <1>3, CopySteps, SavedReport DEF Sound, Readable
<1>4. ASSUME MetadataStatus(job) # "FAIL" \/ Details[job].force,
             Saved(ReportFile, [id |-> commands + 1, job |-> job, found |-> Diagnosis(job)])
      PROVE  ReportFacts'
  <2> DEFINE new == [id |-> commands + 1, job |-> job, found |-> Diagnosis(job)]
  <2>1. Sound(new)
    BY <1>4 DEF Sound
  <2> HIDE DEF new
  <2> QED
    BY <1>1, <1>4, <2>1, CopySteps, SavedReport DEF new
<1> QED
  BY <1>2, <1>3, <1>4 DEF Execute, ReportFile

LEMMA PackageUnchanged ==
    ASSUME PackingFacts, MetaFacts, UNCHANGED <<package, meta, packing>>
    PROVE  PackingFacts' /\ MetaFacts'
  BY DEF PackingFacts, MetaFacts, Readable

\* A file is copied into the package.
LEMMA CopyKeeps ==
    ASSUME ReportFacts, PackingFacts, CopyFile
    PROVE  ReportFacts' /\ PackingFacts'
<1> DEFINE name == CopyOrder[packing.step]
           source == SourceFile(name)
<1>1. /\ packing # None /\ packing.step <= 7
      /\ package' = IF source = None THEN package ELSE [package EXCEPT ![name] = source]
      /\ packing' = [packing EXCEPT !.step = packing.step + 1,
                                    !.copied = IF name = ReportFile THEN Report
                                               ELSE packing.copied]
      /\ runDir' = runDir
  BY CopySteps DEF CopyFile, ReportFile
<1>2. /\ packing \in [step : 1..8, copied : {packing.copied}]
      /\ packing.step \in 1..7
      /\ packing.step >= 5 /\ packing.copied # None => package[ReportFile] = packing.copied
  BY <1>1 DEF PackingFacts
<1>3. /\ name \in PackageFiles /\ (name = ReportFile <=> packing.step = 4)
  BY <1>2, CopySteps
<1>4. name = ReportFile => source = Report
  BY DEF SourceFile, ReportFile, Report
<1> HIDE DEF name, source
<1>5. /\ DOMAIN package' = PackageFiles
      /\ package'[ReportFile] = IF name = ReportFile /\ Report # None THEN Report
                                ELSE package[ReportFile]
  BY <1>1, <1>3, <1>4, CopySteps DEF ReportFacts
<1>6. ReportFacts'
  <2>1. Sound(package[ReportFile])'
    BY <1>5 DEF ReportFacts, Sound, Readable
  <2>2. Sound(Report)' /\ DOMAIN runDir' = RunFiles
    BY <1>1 DEF ReportFacts, Sound, Readable, Report
  <2> QED
    BY <1>5, <2>1, <2>2 DEF ReportFacts
<1>7. /\ packing' \in [step : 1..8, copied : {packing'.copied}]
      /\ packing'.step = packing.step + 1
      /\ packing'.copied = IF name = ReportFile THEN Report ELSE packing.copied
  <2> DEFINE copy == IF name = ReportFile THEN Report ELSE packing.copied
  <2>1. packing' = [packing EXCEPT !.step = packing.step + 1, !.copied = copy]
    BY <1>1
  <2> HIDE DEF copy
  <2>2. packing' = [step |-> packing.step + 1, copied |-> copy]
    BY <1>2, <2>1
  <2>3. packing.step + 1 \in 1..8
    BY <1>2
  <2> QED
    BY <2>2, <2>3 DEF copy
<1>8. packing'.step >= 5 /\ packing'.copied # None => package'[ReportFile] = packing'.copied
  <2>1. CASE packing.step = 4
    BY <1>3, <1>5, <1>7, <2>1
  <2>2. CASE packing.step # 4
    BY <1>2, <1>3, <1>5, <1>7, <2>2
  <2> QED
    BY <2>1, <2>2
<1> QED
  BY <1>6, <1>7, <1>8 DEF PackingFacts

\* The report is read once more.
LEMMA ReadKeeps ==
    ASSUME ReportFacts, PackingFacts, ReadReport
    PROVE  ReportFacts' /\ PackingFacts'
<1>1. packing # None /\ packing.step = 8 /\ runDir' = runDir
  BY CopySteps DEF ReadReport
<1>2. packing.copied # None => package[ReportFile] = packing.copied
  BY <1>1 DEF PackingFacts
<1>3. /\ DOMAIN package' = PackageFiles /\ package'[ReportFile] = package[ReportFile]
  <2>1. \/ package' = package
        \/ \E x : package' = [package EXCEPT !["CITATION.cff"] = x]
    BY DEF ReadReport
  <2> QED
    BY <2>1, CopySteps DEF ReportFacts
<1>4. ReportFacts'
  <2>1. Sound(package[ReportFile])'
    BY <1>3 DEF ReportFacts, Sound, Readable
  <2>2. Sound(Report)' /\ DOMAIN runDir' = RunFiles
    BY <1>1 DEF ReportFacts, Sound, Readable, Report
  <2> QED
    BY <1>3, <2>1, <2>2 DEF ReportFacts
<1>5. CASE Report = Torn
  <2>1. packing' = None
    BY <1>5 DEF ReadReport
  <2> QED
    BY <1>4, <2>1 DEF PackingFacts
<1>6. CASE Report # Torn
  <2>1. packing' = [step |-> 9, report |-> Report, raced |-> packing.copied # Report]
    BY <1>1, <1>6 DEF ReadReport
  <2>2. /\ packing' \in [step : {9}, report : {packing'.report}, raced : BOOLEAN]
        /\ packing'.report = Report /\ (packing'.raced <=> packing.copied # Report)
    BY <2>1
  <2> QED
    BY <1>2, <1>3, <1>4, <2>2 DEF PackingFacts
<1> QED
  BY <1>4, <1>5, <1>6

\* The metadata describes the report that lies in the package.
LEMMA WriteKeeps ==
    ASSUME ReportFacts, PackingFacts, WriteMetadata
    PROVE  MetaFacts' /\ PackingFacts'
<1>1. /\ packing # None /\ packing.step = 9 /\ packing' = None
      /\ meta' = [hashes |-> HashedFiles, report |-> packing.report, raced |-> packing.raced]
  BY CopySteps DEF WriteMetadata
<1>2. ~packing.raced /\ packing.report # None => package[ReportFile] = packing.report
  BY <1>1 DEF PackingFacts
<1>3. package[ReportFile] # None =>
          ReportFile \in DOMAIN HashedFiles /\ HashedFiles[ReportFile] = package[ReportFile]
  BY CopySteps DEF HashedFiles
<1>4. meta'.hashes = HashedFiles /\ meta'.report = packing.report /\ meta'.raced = packing.raced
  BY <1>1
<1> QED
  BY <1>1, <1>2, <1>3, <1>4 DEF MetaFacts, PackingFacts

\* A file of the package is torn or lost while no packaging goes on.
LEMMA DamagedKeeps ==
    ASSUME ReportFacts, NEW f, NEW content \in {None, Torn},
           package' = [package EXCEPT ![f] = content], UNCHANGED runDir
    PROVE  ReportFacts'
<1>1. DOMAIN package' = PackageFiles
      /\ package'[ReportFile] \in {package[ReportFile], None, Torn}
  BY CopySteps DEF ReportFacts
<1> QED
  BY <1>1 DEF ReportFacts, Sound, Readable, Report

-----------------------------------------------------------------------------
(* The invariant.                                                          *)

LEMMA InitPipeline == Init => PipelineInv
<1> SUFFICES ASSUME Init PROVE PipelineInv
  OBVIOUS
<1>1. /\ DOMAIN runDir = RunFiles /\ DOMAIN package = PackageFiles
      /\ Report = None /\ package[ReportFile] = None
  BY CopySteps DEF Init, Report, ReportFile
<1>2. ReportFacts
  BY <1>1 DEF ReportFacts, Sound, Readable
<1>3. GateFacts /\ PackingFacts /\ MetaFacts
  BY DEF Init, GateFacts, PackingFacts, MetaFacts, Readable
<1> QED
  BY <1>2, <1>3 DEF PipelineInv

\* A command that is one step leaves the package alone.
LEMMA CommandKeeps ==
    ASSUME PipelineInv, Command, ReportFacts', GateFacts'
    PROVE  PipelineInv'
<1>1. UNCHANGED <<package, meta, packing>>
  BY DEF Command
<1> QED
  BY <1>1, PackageUnchanged DEF PipelineInv

LEMMA StepPipeline == PipelineInv /\ [Next]_vars => PipelineInv'
<1> SUFFICES ASSUME PipelineInv, [Next]_vars PROVE PipelineInv'
  OBVIOUS
<1>1. ReportFacts /\ GateFacts /\ PackingFacts /\ MetaFacts
  BY DEF PipelineInv
<1>2. UNCHANGED gate => GateFacts'
  BY <1>1 DEF GateFacts
<1>3. UNCHANGED <<runDir, package>> => ReportFacts'
  BY <1>1 DEF ReportFacts, Sound, Readable, Report
<1>4. UNCHANGED <<runDir, gate, package, meta, packing>> => PipelineInv'
  BY <1>1, <1>2, <1>3, PackageUnchanged DEF PipelineInv
<1>5. ASSUME NEW job \in Jobs, Execute(job)
      PROVE  PipelineInv'
  <2>1. Command /\ UNCHANGED gate
    BY <1>5 DEF Execute
  <2> QED
    BY <1>1, <1>2, <1>5, <2>1, ExecuteKeeps, CommandKeeps
<1>6. ASSUME NEW job \in Jobs, RunQualityGate(job)
      PROVE  PipelineInv'
  <2>1. Command /\ UNCHANGED <<runDir, package>>
    BY <1>6 DEF RunQualityGate, Command
  <2>2. gate' = [job |-> job, judgement |-> Judgement(job)]
    BY <1>6 DEF RunQualityGate
  <2>3. GateFacts'
    BY <2>2 DEF GateFacts
  <2> QED
    BY <1>3, <2>1, <2>3, CommandKeeps
<1>7. CASE Project
  BY <1>4, <1>7 DEF Project
<1>8. CASE SavePretrained
  BY <1>4, <1>8 DEF SavePretrained
<1>9. ASSUME NEW file \in RunFiles \ {ReportFile}, NEW content,
             Saved(file, content), Command, UNCHANGED gate
      PROVE  PipelineInv'
  <2>1. UNCHANGED package
    BY <1>9 DEF Command
  <2>2. ReportFacts'
    BY <1>1, <1>9, <2>1, SavedReport
  <2> QED
    BY <1>2, <1>9, <2>2, CommandKeeps
<1>10. CASE RunEvaluate
  BY <1>9, <1>10 DEF RunEvaluate, RunFiles, ReportFile
<1>11. CASE RunGenerateReport
  BY <1>9, <1>11 DEF RunGenerateReport, RunFiles, ReportFile
<1>12. CASE RunGenerateModelCard
  BY <1>9, <1>12 DEF RunGenerateModelCard, RunFiles, ReportFile
<1>13. CASE NewRunDir
  <2>1. Command /\ UNCHANGED <<gate, package>> /\ runDir' = [f \in RunFiles |-> None]
    BY <1>13 DEF NewRunDir, Command
  <2>2. DOMAIN runDir' = RunFiles /\ Report' = None
    BY <2>1, CopySteps DEF Report, ReportFile
  <2>3. ReportFacts'
    BY <1>1, <2>1, <2>2 DEF ReportFacts, Sound, Readable
  <2> QED
    BY <1>2, <2>1, <2>3, CommandKeeps
<1>14. CASE RunPackageRelease
  <2>1. packing' = [step |-> 1, copied |-> None] /\ UNCHANGED <<runDir, gate, package, meta>>
    BY <1>14 DEF RunPackageRelease
  <2>2. PackingFacts'
    BY <2>1 DEF PackingFacts
  <2>3. MetaFacts'
    BY <1>1, <2>1 DEF MetaFacts, Readable
  <2> QED
    BY <1>2, <1>3, <2>1, <2>2, <2>3 DEF PipelineInv
<1>15. CASE CopyFile
  <2>1. UNCHANGED <<gate, meta>>
    BY <1>15 DEF CopyFile
  <2>2. MetaFacts'
    BY <1>1, <2>1 DEF MetaFacts, Readable
  <2> QED
    BY <1>1, <1>2, <1>15, <2>1, <2>2, CopyKeeps DEF PipelineInv
<1>16. CASE ReadReport
  <2>1. UNCHANGED <<gate, meta>>
    BY <1>16 DEF ReadReport
  <2>2. MetaFacts'
    BY <1>1, <2>1 DEF MetaFacts, Readable
  <2> QED
    BY <1>1, <1>2, <1>16, <2>1, <2>2, ReadKeeps DEF PipelineInv
<1>17. CASE WriteMetadata
  <2>1. UNCHANGED <<runDir, gate, package>>
    BY <1>17 DEF WriteMetadata
  <2> QED
    BY <1>1, <1>2, <1>3, <1>17, <2>1, WriteKeeps DEF PipelineInv
<1>18. CASE KillPackaging
  <2>1. packing' = None /\ UNCHANGED <<runDir, gate>>
    BY <1>18 DEF KillPackaging
  <2>2. ReportFacts'
    <3>1. \/ UNCHANGED package
          \/ \E f : package' = [package EXCEPT ![f] = Torn]
      BY <1>18 DEF KillPackaging
    <3> QED
      BY <1>1, <1>3, <2>1, <3>1, DamagedKeeps
  <2>3. MetaFacts'
    <3>1. meta' = meta \/ meta' = Torn
      BY <1>18 DEF KillPackaging
    <3> QED
      BY <1>1, <3>1 DEF MetaFacts, Readable
  <2>4. PackingFacts'
    BY <2>1 DEF PackingFacts
  <2> QED
    BY <1>2, <2>1, <2>2, <2>3, <2>4 DEF PipelineInv
<1>19. CASE Damage
  <2>1. packing = None /\ UNCHANGED <<runDir, gate, meta, packing>>
    BY <1>19 DEF Damage
  <2>2. PICK f \in PackageFiles, content \in {None, Torn} :
            package' = [package EXCEPT ![f] = content]
    BY <1>19 DEF Damage
  <2>3. ReportFacts'
    BY <1>1, <2>1, <2>2, DamagedKeeps
  <2>4. MetaFacts' /\ PackingFacts'
    BY <1>1, <2>1 DEF MetaFacts, PackingFacts, Readable
  <2> QED
    BY <1>2, <2>1, <2>3, <2>4 DEF PipelineInv
<1>20. CASE UNCHANGED vars
  BY <1>4, <1>20 DEF vars, pipelineVars
<1> QED
  BY <1>5, <1>6, <1>7, <1>8, <1>10, <1>11, <1>12, <1>13, <1>14, <1>15, <1>16, <1>17,
     <1>18, <1>19, <1>20
  DEF Next, RunDiagnose, RunSafeProject

\* The inductive invariant of the commands and their files: every readable
\* report is sound, and packaging and metadata know which report they are for.
THEOREM PipelineInvariance == Spec => []PipelineInv
  BY InitPipeline, StepPipeline, PTL DEF Spec

\* A package that package-validate accepts, published without a race, was
\* published for the report in it, whatever was packaged, killed or damaged
\* (package_release, package_validate).
THEOREM MetadataIsOfReport == Spec => []MetadataDescribesReport
<1>1. PipelineInv => MetadataDescribesReport
  <2> SUFFICES ASSUME PipelineInv, RunPackageValidate, ~meta.raced,
                      package[ReportFile] # None
               PROVE  meta.report = package[ReportFile]
    BY DEF MetadataDescribesReport, ReportFile
  <2>1. Readable(meta) /\ Readable(package[ReportFile])
        /\ VerdictOf(package[ReportFile]) = VerdictOf(meta.report)
    BY DEF RunPackageValidate, Readable, ReportFile
  <2>2. CASE meta.report # None
    BY <2>1, <2>2 DEF PipelineInv, MetaFacts, RunPackageValidate
  <2>3. CASE meta.report = None
    <3>1. PICK job \in Jobs : package[ReportFile].found = Diagnosis(job)
      BY <2>1 DEF PipelineInv, ReportFacts, Sound
    <3>2. VerdictOf(package[ReportFile]) # None
      BY <2>1, <3>1, DiagnosisFacts DEF VerdictOf, Readable
    <3> QED
      BY <2>1, <2>3, <3>2 DEF VerdictOf
  <2> QED
    BY <2>2, <2>3
<1> QED
  BY <1>1, PipelineInvariance, PTL

\* For every suite and whatever the models answer, a report proposes a
\* projection only for an adapter that fixes more cases than it breaks, and a
\* target that could be read (generate_verdict, finalize_release_decision).
THEOREM CandidatesAreBetter == Spec => []CandidatesImprove
<1>1. PipelineInv => CandidatesImprove
  <2> SUFFICES ASSUME PipelineInv, Readable(Report),
                      VerdictOf(Report) = "PROJECTION_CANDIDATE"
               PROVE  /\ Report.found.fixed > Report.found.regressed
                      /\ Details[Report.job].hasTarget /\ Details[Report.job].target.readable
    BY DEF CandidatesImprove
  <2>1. Report.job \in Jobs /\ Report.found = Diagnosis(Report.job)
    BY DEF PipelineInv, ReportFacts, Sound
  <2>2. Report.found.decision.verdict = "PROJECTION_CANDIDATE"
    BY DEF VerdictOf, Readable
  <2> QED
    BY <2>1, <2>2, DiagnosisFacts
<1> QED
  BY <1>1, PipelineInvariance, PTL

\* The comparison that the gate script writes bears out the sums of both
\* programs and the script's positive verdicts, for every suite, answers and
\* thresholds (run_quality_gate, DiagnosticRunner.execute, generate_verdict).
THEOREM ComparisonAlwaysSupports == Spec => []ComparisonSupportsVerdict
<1>1. PipelineInv => ComparisonSupportsVerdict
  <2> SUFFICES ASSUME PipelineInv, gate # None
               PROVE  ComparisonSupportsVerdict
    BY DEF ComparisonSupportsVerdict
  <2>1. gate.job \in Jobs /\ gate.judgement = Judgement(gate.job)
    BY DEF PipelineInv, GateFacts
  <2>2. Readable(Report) /\ gate.job = Report.job => Report.found = Diagnosis(gate.job)
    BY DEF PipelineInv, ReportFacts, Sound
  <2> DEFINE job == gate.job
             judged == gate.judgement
             Listed(class) == Cardinality({id \in DOMAIN judged.comparison :
                                               judged.comparison[id] = class})
  <2>3. /\ Listed("fixed") = Diagnosis(job).fixed /\ Listed("regressed") = Diagnosis(job).regressed
        /\ judged.fixed = Diagnosis(job).fixed /\ judged.regressed = Diagnosis(job).regressed
    BY <2>1, ComparisonAgrees
  <2>4. /\ judged.verdict.verdict = "POSITIVE_TEACHER"
        /\ Details[job].gateConfig.primary_metric = "execution_accuracy"
        /\ Details[job].gateConfig.positive > 0
        => judged.fixed > judged.regressed
    BY <2>1, ScriptImproves
  <2>5. ComparisonSupportsVerdict <=>
            /\ Listed("fixed") = judged.fixed /\ Listed("regressed") = judged.regressed
            /\ Readable(Report) /\ gate.job = Report.job =>
                   /\ Listed("fixed") = Report.found.fixed
                   /\ Listed("regressed") = Report.found.regressed
            /\ /\ judged.verdict.verdict = "POSITIVE_TEACHER"
               /\ Details[job].gateConfig.primary_metric = "execution_accuracy"
               /\ Details[job].gateConfig.positive > 0
               => Listed("fixed") > Listed("regressed")
    BY DEF ComparisonSupportsVerdict
  <2> HIDE DEF judged, Listed, job
  <2> QED
    BY <2>2, <2>3, <2>4, <2>5 DEF job
<1> QED
  BY <1>1, PipelineInvariance, PTL

-----------------------------------------------------------------------------
(* The projection implements AdapterFiles.                                 *)

\* The output directory has three files, which are there or not.
FilesShape == \E w, c, m : files = [weights |-> w, config |-> c, metadata |-> m]

LEMMA FilesShapeInit == PortInit => FilesShape /\ Directory!FilesInit
<1> SUFFICES ASSUME PortInit PROVE FilesShape /\ Directory!FilesInit
  OBVIOUS
<1>1. /\ files = [weights |-> Absent, config |-> NoConfig, metadata |-> Absent]
      /\ portRun = 0 /\ portStage = "idle"
  BY DEF PortInit
<1>2. NoConfig.by = Absent
  BY DEF NoConfig
<1> QED
  BY <1>1, <1>2 DEF FilesShape, Directory!FilesInit

LEMMA FilesClosedFacts ==
    ASSUME FilesShape, NEW whole
    PROVE  /\ \E w, c, m : FilesClosed(whole) = [weights |-> w, config |-> c, metadata |-> m]
           /\ FilesClosed(whole).weights \in {files.weights, [by |-> portRun, whole |-> whole]}
           /\ FilesClosed(whole).config = files.config
           /\ FilesClosed(whole).metadata = files.metadata
<1>1. PICK w, c, m : files = [weights |-> w, config |-> c, metadata |-> m]
  BY DEF FilesShape
<1> DEFINE new == [by |-> portRun, whole |-> whole]
<1>2. [files EXCEPT !.weights = new] = [weights |-> new, config |-> c, metadata |-> m]
  BY <1>1
<1>3. \/ FilesClosed(whole) = files
      \/ FilesClosed(whole) = [files EXCEPT !.weights = new]
  BY DEF FilesClosed
<1> HIDE DEF new
<1>4. CASE FilesClosed(whole) = files
  BY <1>1, <1>4 DEF new
<1>5. CASE FilesClosed(whole) = [files EXCEPT !.weights = new]
  BY <1>1, <1>2, <1>5 DEF new
<1> QED
  BY <1>3, <1>4, <1>5

\* Every step of the command is one of the directory, or leaves it alone.
LEMMA DirectoryStep ==
    ASSUME FilesShape, [PortNext]_portVars
    PROVE  FilesShape' /\ [Directory!FilesNext]_(Directory!filesVars)
<1> USE DEF Directory!filesVars, Directory!FilesNext
<1>0. PICK w, c, m : files = [weights |-> w, config |-> c, metadata |-> m]
  BY DEF FilesShape
<1>1. ASSUME NEW a \in Arguments, PortLora(a)
      PROVE  FilesShape' /\ [Directory!FilesNext]_(Directory!filesVars)
  BY <1>0, <1>1 DEF PortLora, FilesShape, Directory!BeginRun
<1>2. CASE ResolveSource \/ OpenWriter \/ ProcessLayer \/ StreamingFails \/ PairFails \/ LoadAll
  <2>1. files' = files /\ portRun' = portRun
    BY <1>2 DEF ResolveSource, OpenWriter, ProcessLayer, StreamingFails, PairFails, LoadAll
  <2>2. \/ portStage' = portStage
        \/ /\ portStage \in {"source", "detect", "stream", "load", "legacy", "dummy"}
           /\ portStage' \in {"detect", "stream", "load", "legacy", "dummy", "raised"}
    BY <1>2 DEF ResolveSource, OpenWriter, ProcessLayer, StreamingFails, PairFails, InLoop, LoadAll
  <2> QED
    BY <1>0, <2>1, <2>2 DEF FilesShape
<1>3. CASE LoopsEndEarly
  <2>1. /\ portStage \in {"stream", "load", "legacy", "dummy", "raised"} /\ portStage' = "idle"
        /\ files' = FilesClosed(FALSE) /\ portRun' = portRun
    BY <1>3 DEF LoopsEndEarly
  <2>2. /\ \E x, y, z : FilesClosed(FALSE) = [weights |-> x, config |-> y, metadata |-> z]
        /\ FilesClosed(FALSE).weights \in {files.weights, [by |-> portRun, whole |-> FALSE]}
        /\ FilesClosed(FALSE).config = files.config
        /\ FilesClosed(FALSE).metadata = files.metadata
    BY FilesClosedFacts, Zenon
  <2>3. FilesShape'
    BY <2>1, <2>2 DEF FilesShape
  <2>4. Directory!AbandonRun
    BY <2>1, <2>2 DEF Directory!AbandonRun
  <2> QED
    BY <2>3, <2>4
<1>4. CASE FinishLayers
  <2>1. /\ portStage \in {"stream", "legacy", "dummy"} /\ portStage' = "closed"
        /\ files' = FilesClosed(TRUE) /\ portRun' = portRun
    BY <1>4 DEF FinishLayers, InLoop
  <2>2. /\ \E x, y, z : FilesClosed(TRUE) = [weights |-> x, config |-> y, metadata |-> z]
        /\ FilesClosed(TRUE).weights \in {files.weights, [by |-> portRun, whole |-> TRUE]}
        /\ FilesClosed(TRUE).config = files.config
        /\ FilesClosed(TRUE).metadata = files.metadata
    BY FilesClosedFacts, Zenon
  <2>3. FilesShape'
    BY <2>1, <2>2 DEF FilesShape
  <2>4. Directory!SaveWeights
    BY <2>1, <2>2 DEF Directory!SaveWeights
  <2> QED
    BY <2>3, <2>4
<1>5. CASE WriteConfig
  <2>1. PICK modules : files' = [files EXCEPT !.config =
                              [by |-> portRun, r |-> args.rank, modules |-> modules]]
    BY <1>5 DEF WriteConfig
  <2>2. files' = [weights |-> w, config |-> [by |-> portRun, r |-> args.rank, modules |-> modules],
                  metadata |-> m]
    BY <1>0, <2>1
  <2>3. /\ files'.weights = files.weights /\ files'.metadata = files.metadata
        /\ files'.config.by = portRun
    BY <1>0, <2>2
  <2>4. portStage = "closed" /\ portStage' = "configured" /\ portRun' = portRun
    BY <1>5 DEF WriteConfig
  <2> QED
    BY <2>2, <2>3, <2>4 DEF FilesShape, Directory!SaveConfig
<1>6. CASE WriteProjectionMetadata
  <2>1. /\ portStage = "configured" /\ portStage' = "idle" /\ portRun' = portRun
        /\ files' = [files EXCEPT !.metadata = portRun]
    BY <1>6 DEF WriteProjectionMetadata
  <2>2. files' = [weights |-> w, config |-> c, metadata |-> portRun]
    BY <1>0, <2>1
  <2> QED
    BY <1>0, <2>1, <2>2 DEF FilesShape, Directory!SaveMetadata
<1>7. CASE Abandon
  BY <1>0, <1>7 DEF Abandon, FilesShape, Directory!AbandonRun
<1>8. CASE UNCHANGED portVars
  BY <1>0, <1>8 DEF portVars, FilesShape
<1> QED
  BY <1>1, <1>2, <1>3, <1>4, <1>5, <1>6, <1>7, <1>8 DEF PortNext

\* port_lora changes its output directory as AdapterFiles says, on which the
\* proofs about the pipeline rest: weights, then configuration, then metadata,
\* and only a loop that has ended leads there.
THEOREM ProjectionRefinement == PortSpec => ImplementsAdapterFiles
<1>1. FilesShape /\ [PortNext]_portVars => FilesShape' /\ [Directory!FilesNext]_(Directory!filesVars)
  BY DirectoryStep
<1> QED
  BY <1>1, FilesShapeInit, PTL DEF PortSpec, ImplementsAdapterFiles, Directory!FilesSpec

-----------------------------------------------------------------------------
(* What is written fits the target.                                        *)

\* Sizes that are cut or padded from the true ones are those of the target.
LEMMA FeaturesAreSizes ==
    ASSUME NEW info \in Sizes, NEW module
    PROVE  InFeatures(info, module) \in Nat /\ OutFeatures(info, module) \in Nat
<1>1. /\ info.hidden \in Nat /\ info.heads \in Nat \ {0} /\ info.inter \in Nat
      /\ info.kvHeads \in Nat
  BY DEF Sizes
<1>2. \A x \in Nat, y \in Nat \ {0} : x \div y \in Nat
  OBVIOUS
<1>3. info.hidden \div info.heads \in Nat
  BY <1>1, <1>2
<1>4. \A x, y \in Nat : x * y \in Nat
  OBVIOUS
<1>5. KvHidden(info) \in Nat
  BY <1>1, <1>3, <1>4 DEF KvHidden
<1> HIDE DEF KvHidden
<1> QED
  BY <1>1, <1>5 DEF InFeatures, OutFeatures

LEMMA ProjectDimFits ==
    ASSUME NEW src \in Nat, NEW tgt \in Nat
    PROVE  ProjectDim(src, src, tgt) = tgt
  BY DEF ProjectDim, AtMost

LEMMA ResizeDeltaFits ==
    ASSUME NEW rows \in Nat, NEW cols \in Nat, NEW tgtRows \in Nat, NEW tgtCols \in Nat,
           ~((tgtRows - rows) * (tgtCols - cols) < 0)
    PROVE  ResizeDelta(rows, cols, tgtRows, tgtCols) = [rows |-> tgtRows, cols |-> tgtCols]
<1>1. \A x, y \in Int : ~(x * y < 0) /\ x < 0 => y <= 0
  OBVIOUS
<1>2. \A x, y \in Int : ~(x * y < 0) /\ y < 0 => x <= 0
  OBVIOUS
<1> DEFINE x == tgtRows - rows
           y == tgtCols - cols
<1>3. x \in Int /\ y \in Int /\ ~(x * y < 0)
  OBVIOUS
<1>4. (rows > tgtRows <=> x < 0) /\ (cols > tgtCols <=> y < 0)
  OBVIOUS
<1>5. (x <= 0 => rows >= tgtRows) /\ (y <= 0 => cols >= tgtCols)
  OBVIOUS
<1> HIDE DEF x, y
<1>6. rows > tgtRows \/ cols > tgtCols => rows >= tgtRows /\ cols >= tgtCols
  <2>1. CASE rows > tgtRows
    BY <1>1, <1>3, <1>4, <1>5, <2>1
  <2>2. CASE cols > tgtCols
    BY <1>2, <1>3, <1>4, <1>5, <2>2
  <2> QED
    BY <2>1, <2>2
<1> QED
  BY <1>6 DEF ResizeDelta, AtMost

\* What ResultsFitTarget says of one result.
FitsTarget(result) ==
    LET fits == (IF result.key.side = "A" THEN result.shape.cols ELSE result.shape.rows)
                    = TargetFeatures(result.key)
    IN  /\ result.how = "linear" /\ SourceInfo = args.source.info => fits
        /\ result.how = "piecewise" /\ ~MixedResize(result.key.module) => fits
        /\ result.how \notin {"linear", "piecewise"} => ~Structural

LEMMA ResultFields ==
    ASSUME NEW key, NEW shape, NEW how
    PROVE  /\ Result(key, shape, how).key = key
           /\ Result(key, shape, how).shape = shape
           /\ Result(key, shape, how).how = how
  BY DEF Result

\* What a loop reads: the tensors of the file or the simulated ones.
Readables == Range(SourceTensors) \cup Range(DummyTensors)

LEMMA LinearFits ==
    ASSUME args.source.info \in Sizes, TargetInfo \in Sizes, NEW tensor \in Readables
    PROVE  FitsTarget(LinearResult(tensor))
<1> DEFINE key == tensor.key
           module == key.module
           shape == LegacyShape(tensor.shape, module, key.side, SourceInfo, TargetInfo, args.rank)
           result == LinearResult(tensor)
<1>1. result.key = key /\ result.shape = shape /\ result.how = "linear"
  BY ResultFields DEF LinearResult
<1>2. ASSUME SourceInfo = args.source.info
      PROVE  IF key.side = "A" THEN tensor.shape.cols = InFeatures(SourceInfo, module)
                               ELSE tensor.shape.rows = OutFeatures(SourceInfo, module)
  <2>1. CASE tensor \in Range(SourceTensors)
    <3>1. PICK i \in DOMAIN args.source.keys :
             tensor = [key |-> args.source.keys[i], shape |-> SourceShape(args.source.keys[i])]
      BY <2>1 DEF SourceTensors, Range
    <3>2. tensor.shape = SourceShape(key)
      BY <3>1
    <3> HIDE DEF key
    <3> QED
      BY <1>2, <3>2 DEF SourceShape, module
  <2>2. CASE tensor \in Range(DummyTensors)
    <3> DEFINE k == [module |-> "q_proj", layer |-> 0, side |-> "A"]
               t1 == [key |-> k, shape |-> [rows |-> 16, cols |-> SourceInfo.hidden]]
               t2 == [key |-> Mate(k), shape |-> [rows |-> SourceInfo.hidden, cols |-> 16]]
    <3>1. tensor = t1 \/ tensor = t2
      <4>1. DummyTensors = <<t1, t2>>
        BY DEF DummyTensors
      <4> HIDE DEF t1, t2
      <4> QED
        BY <2>2, <4>1 DEF Range
    <3>2. Mate(k) = [module |-> "q_proj", layer |-> 0, side |-> "B"]
      BY DEF Mate, Side
    <3>3. /\ InFeatures(SourceInfo, "q_proj") = SourceInfo.hidden
          /\ OutFeatures(SourceInfo, "q_proj") = SourceInfo.hidden
      BY DEF InFeatures, OutFeatures, Kv, GateUp
    <3>4. CASE tensor = t1
      BY <3>3, <3>4
    <3>5. CASE tensor = t2
      BY <3>2, <3>3, <3>5
    <3> QED
      BY <3>1, <3>4, <3>5
  <2> QED
    BY <2>1, <2>2 DEF Readables
<1>3. ASSUME SourceInfo = args.source.info
      PROVE  (IF key.side = "A" THEN shape.cols ELSE shape.rows) = TargetFeatures(key)
  <2>1. /\ InFeatures(SourceInfo, module) \in Nat /\ OutFeatures(SourceInfo, module) \in Nat
        /\ InFeatures(TargetInfo, module) \in Nat /\ OutFeatures(TargetInfo, module) \in Nat
    BY <1>3, FeaturesAreSizes
  <2>2. CASE key.side = "A"
    <3>1. shape.cols = ProjectDim(tensor.shape.cols, InFeatures(SourceInfo, module),
                                  InFeatures(TargetInfo, module))
      BY <2>2 DEF LegacyShape
    <3> QED
      BY <1>2, <1>3, <2>1, <2>2, <3>1, ProjectDimFits DEF TargetFeatures
  <2>3. CASE key.side # "A"
    <3>1. shape.rows = ProjectDim(tensor.shape.rows, OutFeatures(SourceInfo, module),
                                  OutFeatures(TargetInfo, module))
      BY <2>3 DEF LegacyShape
    <3> QED
      BY <1>2, <1>3, <2>1, <2>3, <3>1, ProjectDimFits DEF TargetFeatures
  <2> QED
    BY <2>2, <2>3
<1> HIDE DEF key, module, shape, result
<1> QED
  BY <1>1, <1>3 DEF FitsTarget, result

LEMMA KeyFacts ==
    ASSUME NEW key, IsKey(key)
    PROVE  /\ key = [module |-> key.module, layer |-> key.layer, side |-> key.side]
           /\ Side(key, "A") = [module |-> key.module, layer |-> key.layer, side |-> "A"]
           /\ Side(key, "B") = [module |-> key.module, layer |-> key.layer, side |-> "B"]
           /\ key.side = "A" => key = Side(key, "A") /\ Mate(key) = Side(key, "B")
           /\ key.side # "A" => key = Side(key, "B") /\ Mate(key) = Side(key, "A")
           /\ IsKey(Mate(key)) /\ Mate(Mate(key)) = key /\ Mate(key) # key
           /\ Mate(key).module = key.module /\ Mate(key).layer = key.layer
<1>1. /\ key = [module |-> key.module, layer |-> key.layer, side |-> key.side]
      /\ key.side \in {"A", "B"}
  BY DEF IsKey
<1>2. \A s : Side(key, s) = [module |-> key.module, layer |-> key.layer, side |-> s]
  BY <1>1 DEF Side
<1>3. Mate(key) = [module |-> key.module, layer |-> key.layer,
                   side |-> IF key.side = "A" THEN "B" ELSE "A"]
  BY <1>2 DEF Mate
<1>4. IsKey(Mate(key)) /\ Mate(key).module = key.module /\ Mate(key).layer = key.layer
      /\ Mate(key).side = (IF key.side = "A" THEN "B" ELSE "A")
  BY <1>3 DEF IsKey
<1>5. Mate(Mate(key)) = key
  <2>1. Mate(Mate(key)) = [Mate(key) EXCEPT !.side = IF Mate(key).side = "A" THEN "B" ELSE "A"]
    BY DEF Mate, Side
  <2>2. Mate(Mate(key)) = [Mate(key) EXCEPT !.side = key.side]
    BY <1>1, <1>4, <2>1
  <2> QED
    BY <1>1, <1>3, <2>2
<1>6. Mate(key) # key
  BY <1>1, <1>4
<1> QED
  BY <1>1, <1>2, <1>3, <1>4, <1>5, <1>6

LEMMA PairFits ==
    ASSUME args.source.info \in Sizes, TargetInfo \in Sizes, NEW key, IsKey(key)
    PROVE  \E a, b : /\ PairResults(key) = <<a, b>>
                     /\ a.key = Side(key, "A") /\ b.key = Side(key, "B")
                     /\ a.how = "piecewise" /\ b.how = "piecewise"
                     /\ a.shape.rows = b.shape.cols
                     /\ FitsTarget(a) /\ FitsTarget(b)
<1> DEFINE ka == Side(key, "A")
           kb == Side(key, "B")
           module == key.module
           info == args.source.info
           shapes == PiecewiseShapes(SourceShape(ka), SourceShape(kb), module, TargetInfo, args.rank)
           a == Result(ka, shapes.A, "piecewise")
           b == Result(kb, shapes.B, "piecewise")
<1>1. PairResults(key) = <<a, b>>
  BY DEF PairResults
<1>2. /\ a.key = ka /\ a.shape = shapes.A /\ a.how = "piecewise"
      /\ b.key = kb /\ b.shape = shapes.B /\ b.how = "piecewise"
  BY ResultFields
<1>3. ka.side = "A" /\ kb.side = "B" /\ ka.module = module /\ kb.module = module
  BY KeyFacts
<1> HIDE DEF ka, kb, a, b
<1>4. SourceShape(ka).cols = InFeatures(info, module) /\ SourceShape(kb).rows = OutFeatures(info, module)
  BY <1>3 DEF SourceShape
<1> DEFINE resized == ResizeDelta(OutFeatures(info, module), InFeatures(info, module),
                                  OutFeatures(TargetInfo, module), InFeatures(TargetInfo, module))
<1>5. shapes = FactorizeToLora(resized, args.rank)
  BY <1>4 DEF PiecewiseShapes
<1> HIDE DEF shapes, resized
<1>6. /\ shapes.A.cols = resized.cols /\ shapes.B.rows = resized.rows
      /\ shapes.A.rows = shapes.B.cols
  BY <1>5 DEF FactorizeToLora
<1>7. ASSUME ~MixedResize(module)
      PROVE  resized = [rows |-> OutFeatures(TargetInfo, module), cols |-> InFeatures(TargetInfo, module)]
  <2>1. /\ InFeatures(info, module) \in Nat /\ OutFeatures(info, module) \in Nat
        /\ InFeatures(TargetInfo, module) \in Nat /\ OutFeatures(TargetInfo, module) \in Nat
    BY FeaturesAreSizes
  <2>2. ~((OutFeatures(TargetInfo, module) - OutFeatures(info, module))
             * (InFeatures(TargetInfo, module) - InFeatures(info, module)) < 0)
    BY <1>7 DEF MixedResize
  <2> QED
    BY <2>1, <2>2, ResizeDeltaFits DEF resized
<1> HIDE DEF module, info
<1>8. ~MixedResize(module) => shapes.A.cols = InFeatures(TargetInfo, module)
                              /\ shapes.B.rows = OutFeatures(TargetInfo, module)
  BY <1>6, <1>7
<1>9. FitsTarget(a)
  BY <1>2, <1>3, <1>8 DEF FitsTarget, TargetFeatures
<1>10. FitsTarget(b)
  BY <1>2, <1>3, <1>8 DEF FitsTarget, TargetFeatures
<1>11. a.shape.rows = b.shape.cols
  BY <1>2, <1>6
<1> QED
  BY <1>1, <1>2, <1>9, <1>10, <1>11 DEF ka, kb

KeysOf(results) == {results[i].key : i \in DOMAIN results}

LEMMA MergeFacts ==
    ASSUME NEW map, NEW results
    PROVE  /\ DOMAIN Merge(map, results) = DOMAIN map \cup KeysOf(results)
           /\ \A key \in KeysOf(results) : \E i \in DOMAIN results :
                 results[i].key = key /\ Merge(map, results)[key] = results[i]
           /\ \A key \in DOMAIN map \ KeysOf(results) : Merge(map, results)[key] = map[key]
<1> DEFINE At(key) == CHOOSE i \in DOMAIN results : results[i].key = key
           new == Merge(map, results)
<1>1. new = [key \in DOMAIN map \cup KeysOf(results) |->
                IF key \in KeysOf(results) THEN results[At(key)] ELSE map[key]]
  BY DEF Merge, KeysOf
<1>2. \A key \in KeysOf(results) : At(key) \in DOMAIN results /\ results[At(key)].key = key
  BY DEF KeysOf
<1> HIDE DEF new, At
<1>3. DOMAIN new = DOMAIN map \cup KeysOf(results)
  BY <1>1
<1>4. \A key \in KeysOf(results) : new[key] = results[At(key)]
  BY <1>1
<1>5. \A key \in DOMAIN map \ KeysOf(results) : new[key] = map[key]
  BY <1>1
<1> QED
  BY <1>2, <1>3, <1>4, <1>5 DEF new

\* The four outcomes of project_tensor.
LEMMA ProjectCases ==
    ASSUME args.source.info \in Sizes, TargetInfo \in Sizes,
           NEW tensor \in Readables, IsKey(tensor.key)
    PROVE  LET key == tensor.key
               p == ProjectTensor(tensor)
           IN  \/ /\ ~Structural /\ p.adapter = adapter
                  /\ \E r : /\ p.results = <<r>> /\ r.key = key /\ FitsTarget(r)
                            /\ r.how = "same" /\ r.shape = tensor.shape
               \/ /\ Structural /\ ~UsePiecewise(key) /\ p.adapter = adapter
                  /\ \E r : /\ p.results = <<r>> /\ r.key = key /\ FitsTarget(r)
                            /\ r.how = "linear"
                            /\ (IF key.side = "A" THEN r.shape.rows ELSE r.shape.cols) = args.rank
               \/ /\ Structural /\ UsePiecewise(key) /\ Mate(key) \in adapter.buffer
                  /\ p.adapter = [buffer |-> adapter.buffer \ {key, Mate(key)},
                                  counter |-> adapter.counter + 1]
                  /\ \E a, b : /\ p.results = <<a, b>> /\ FitsTarget(a) /\ FitsTarget(b)
                               /\ a.key = Side(key, "A") /\ b.key = Side(key, "B")
                               /\ a.how = "piecewise" /\ b.how = "piecewise"
                               /\ a.shape.rows = b.shape.cols
               \/ /\ Structural /\ UsePiecewise(key) /\ Mate(key) \notin adapter.buffer
                  /\ p.adapter = [adapter EXCEPT !.buffer = @ \cup {key}]
                  /\ p.results = <<>>
<1> DEFINE key == tensor.key
           p == ProjectTensor(tensor)
<1>1. CASE ~Structural
  <2> DEFINE r == Result(key, tensor.shape, "same")
  <2>1. p.adapter = adapter /\ p.results = <<r>>
    BY <1>1 DEF ProjectTensor
  <2>2. r.key = key /\ r.how = "same" /\ r.shape = tensor.shape
    BY ResultFields
  <2> HIDE DEF p, r
  <2>3. FitsTarget(r)
    BY <1>1, <2>2 DEF FitsTarget
  <2> QED
    BY <1>1, <2>1, <2>2, <2>3 DEF p
<1>2. CASE Structural /\ ~UsePiecewise(key)
  <2> DEFINE r == LinearResult(tensor)
  <2>1. p.adapter = adapter /\ p.results = <<r>>
    BY <1>2 DEF ProjectTensor
  <2> DEFINE shape == LegacyShape(tensor.shape, key.module, key.side, SourceInfo, TargetInfo, args.rank)
  <2>2. r.key = key /\ r.how = "linear" /\ r.shape = shape
    BY ResultFields DEF LinearResult
  <2>3. (IF key.side = "A" THEN shape.rows ELSE shape.cols) = args.rank
    BY DEF LegacyShape
  <2>4. FitsTarget(r)
    BY LinearFits
  <2> HIDE DEF p, r, shape
  <2> QED
    BY <1>2, <2>1, <2>2, <2>3, <2>4 DEF p
<1>3. CASE Structural /\ UsePiecewise(key) /\ Mate(key) \in adapter.buffer
  <2>1. /\ p.adapter = [buffer |-> adapter.buffer \ {key, Mate(key)},
                        counter |-> adapter.counter + 1]
        /\ p.results = PairResults(key)
    BY <1>3 DEF ProjectTensor
  <2> HIDE DEF p
  <2> QED
    BY <1>3, <2>1, PairFits DEF p
<1>4. CASE Structural /\ UsePiecewise(key) /\ Mate(key) \notin adapter.buffer
  BY <1>4 DEF ProjectTensor
<1> QED
  BY <1>1, <1>2, <1>3, <1>4

\* Where a command is, the inductive invariant of ResultsFitTarget.
PortInv ==
    /\ args \in Arguments \/ (portStage = "idle" /\ written = <<>>)
    /\ portStage \in {"stream", "load", "legacy", "dummy"} => args.target # Absent
    /\ portStage \in {"stream", "legacy", "dummy"} => pending \in Seq(Readables)
    /\ \A key \in DOMAIN written : written[key].key = key /\ FitsTarget(written[key])

\* The file's tensors are a sequence, and every tensor has a key.
LEMMA TensorFacts ==
    ASSUME args \in Arguments
    PROVE  /\ SourceTensors \in Seq(Readables) /\ DummyTensors \in Seq(Readables)
           /\ Len(SourceTensors) = Len(args.source.keys)
           /\ \A tensor \in Readables : IsKey(tensor.key)
<1> DEFINE names == args.source.keys
           n == Len(names)
<1>1. names \in Seq(Range(names)) /\ \A i \in DOMAIN names : IsKey(names[i])
  BY PortAssumption
<1>2. n \in Nat /\ DOMAIN names = 1..n /\ \A i \in 1..n : IsKey(names[i])
  BY <1>1
<1>3. SourceTensors = [i \in 1..n |-> [key |-> names[i], shape |-> SourceShape(names[i])]]
  BY <1>2 DEF SourceTensors
<1> HIDE DEF n, names
<1>4. DOMAIN SourceTensors = 1..n /\ \A i \in 1..n : SourceTensors[i] \in Range(SourceTensors)
  BY <1>3 DEF Range
<1>5. SourceTensors \in Seq(Readables) /\ Len(SourceTensors) = n
  <2>1. SourceTensors \in [1..n -> Readables]
    BY <1>3, <1>4 DEF Readables
  <2> QED
    BY <1>2, <2>1
<1>6. ASSUME NEW tensor \in Range(SourceTensors)  PROVE IsKey(tensor.key)
  BY <1>2, <1>3, <1>4 DEF Range
<1> DEFINE k == [module |-> "q_proj", layer |-> 0, side |-> "A"]
           t1 == [key |-> k, shape |-> [rows |-> 16, cols |-> SourceInfo.hidden]]
           t2 == [key |-> Mate(k), shape |-> [rows |-> SourceInfo.hidden, cols |-> 16]]
<1>7. DummyTensors = <<t1, t2>>
  BY DEF DummyTensors
<1>8. IsKey(k) /\ IsKey(Mate(k))
  <2>1. IsKey(k)
    BY DEF IsKey
  <2> HIDE DEF k
  <2> QED
    BY <2>1, KeyFacts
<1>9. IsKey(t1.key) /\ IsKey(t2.key)
  BY <1>8
<1> HIDE DEF t1, t2, k
<1>10. Range(DummyTensors) = {t1, t2}
  BY <1>7 DEF Range
<1>11. DummyTensors \in Seq(Readables)
  BY <1>7, <1>10 DEF Readables
<1> QED
  BY <1>5, <1>6, <1>9, <1>10, <1>11 DEF Readables, n, names

\* Only the command's arguments decide what fits and what is read.
LEMMA SameArguments ==
    ASSUME args' = args
    PROVE  /\ Readables' = Readables /\ SourceTensors' = SourceTensors
           /\ \A x : FitsTarget(x)' <=> FitsTarget(x)
<1>1. /\ SourceInfo' = SourceInfo /\ TargetInfo' = TargetInfo
      /\ \A m : MixedResize(m)' = MixedResize(m)
      /\ Structural' = Structural
  BY DEF SourceInfo, TargetInfo, MixedResize, Structural
<1>2. \A key : SourceShape(key)' = SourceShape(key)
  BY DEF SourceShape
<1>3. SourceTensors' = SourceTensors
  BY <1>2 DEF SourceTensors
<1>4. DummyTensors' = DummyTensors
  BY <1>1 DEF DummyTensors
<1>5. \A x : TargetFeatures(x)' = TargetFeatures(x)
  BY <1>1 DEF TargetFeatures
<1>6. \A x : FitsTarget(x)' <=> FitsTarget(x)
  BY <1>1, <1>5 DEF FitsTarget
<1> QED
  BY <1>3, <1>4, <1>6 DEF Readables

LEMMA PortInitial == PortInit => PortInv
  BY DEF PortInit, PortInv

\* What one tensor adds to what is written.
LEMMA ProcessLayerFits ==
    ASSUME PortInv, ProcessLayer
    PROVE  /\ pending \in Seq(Readables) /\ pending # <<>>
           /\ args \in Arguments /\ args.source.info \in Sizes /\ TargetInfo \in Sizes
           /\ Head(pending) \in Readables /\ IsKey(Head(pending).key)
           /\ \A key \in DOMAIN written' : written'[key].key = key /\ FitsTarget(written'[key])
<1>1. /\ portStage \in {"stream", "legacy", "dummy"} /\ pending # <<>>
      /\ args \in Arguments /\ args.target # Absent /\ pending \in Seq(Readables)
  BY DEF ProcessLayer, InLoop, PortInv
<1>2. args.source.info \in Sizes /\ TargetInfo \in Sizes
  BY <1>1, PortAssumption DEF TargetInfo
<1> DEFINE tensor == Head(pending)
           p == ProjectTensor(tensor)
<1>3. tensor \in Readables
  BY <1>1
<1>4. IsKey(tensor.key)
  BY <1>1, <1>3, TensorFacts
<1> HIDE DEF tensor
<1>5. \A i \in DOMAIN p.results : FitsTarget(p.results[i])
  <2>1. \/ p.results = <<>>
        \/ \E r : p.results = <<r>> /\ FitsTarget(r)
        \/ \E a, b : p.results = <<a, b>> /\ FitsTarget(a) /\ FitsTarget(b)
    BY <1>2, <1>3, <1>4, ProjectCases
  <2> HIDE DEF p
  <2> QED
    BY <2>1
<1>6. written' = written \/ written' = Merge(written, p.results)
  BY DEF ProcessLayer, tensor
<1> HIDE DEF p
<1>7. \A key \in DOMAIN written' : written'[key].key = key /\ FitsTarget(written'[key])
  <2>0. \A key \in DOMAIN written : written[key].key = key /\ FitsTarget(written[key])
    BY DEF PortInv
  <2>1. CASE written' = written
    BY <2>0, <2>1
  <2>2. CASE written' = Merge(written, p.results)
    <3> DEFINE new == Merge(written, p.results)
               keys == KeysOf(p.results)
    <3>1. /\ DOMAIN new = DOMAIN written \cup keys
          /\ \A key \in keys : \E i \in DOMAIN p.results :
                p.results[i].key = key /\ new[key] = p.results[i]
          /\ \A key \in DOMAIN written \ keys : new[key] = written[key]
      BY MergeFacts
    <3> HIDE DEF new, keys
    <3>2. ASSUME NEW key \in DOMAIN new  PROVE new[key].key = key /\ FitsTarget(new[key])
      <4>1. CASE key \in keys
        <5>1. PICK i \in DOMAIN p.results : p.results[i].key = key /\ new[key] = p.results[i]
          BY <3>1, <4>1
        <5> QED
          BY <1>5, <5>1
      <4>2. CASE key \notin keys
        BY <2>0, <3>1, <3>2, <4>2
      <4> QED
        BY <4>1, <4>2
    <3> QED
      BY <2>2, <3>2 DEF new
  <2> QED
    BY <1>6, <2>1, <2>2
<1> QED
  BY <1>1, <1>2, <1>3, <1>4, <1>7 DEF tensor

\* A pair whose projection or writing raises adds at most its first result,
\* and is out of the buffer.
LEMMA PairFailsFits ==
    ASSUME PortInv, PairFails
    PROVE  /\ args' = args /\ args \in Arguments /\ args.target # Absent
           /\ adapter' = [buffer |-> adapter.buffer \ {Head(pending).key, Mate(Head(pending).key)},
                          counter |-> adapter.counter + 1]
           /\ \A key \in DOMAIN written' : written'[key].key = key /\ FitsTarget(written'[key])
<1>1. /\ portStage \in {"stream", "legacy", "dummy"} /\ pending # <<>>
      /\ args \in Arguments /\ args.target # Absent /\ pending \in Seq(Readables)
      /\ args' = args
  BY DEF PairFails, InLoop, PortInv
<1>2. args.source.info \in Sizes /\ TargetInfo \in Sizes
  BY <1>1, PortAssumption DEF TargetInfo
<1> DEFINE tensor == Head(pending)
           p == ProjectTensor(tensor)
           r == p.results[1]
<1>3. tensor \in Readables
  BY <1>1
<1>4. IsKey(tensor.key)
  BY <1>1, <1>3, TensorFacts
<1>5. /\ Structural /\ UsePiecewise(tensor.key) /\ Mate(tensor.key) \in adapter.buffer
      /\ adapter' = p.adapter
      /\ written' = written \/ written' = Merge(written, <<r>>)
  BY DEF PairFails
<1> HIDE DEF tensor
<1>6. /\ p.adapter = [buffer |-> adapter.buffer \ {tensor.key, Mate(tensor.key)},
                      counter |-> adapter.counter + 1]
      /\ \E a, b : p.results = <<a, b>> /\ FitsTarget(a)
  BY <1>2, <1>3, <1>4, <1>5, ProjectCases
<1> HIDE DEF p
<1>7. FitsTarget(r)
  BY <1>6
<1>8. \A key \in DOMAIN written : written[key].key = key /\ FitsTarget(written[key])
  BY DEF PortInv
<1> HIDE DEF r
<1>9. CASE written' = written
  BY <1>1, <1>5, <1>6, <1>8, <1>9 DEF tensor
<1>10. CASE written' = Merge(written, <<r>>)
  <2> DEFINE one == <<r>>
             new == Merge(written, one)
  <2>1. DOMAIN one = {1} /\ one[1] = r
    OBVIOUS
  <2>2. /\ DOMAIN new = DOMAIN written \cup KeysOf(one)
        /\ \A key \in KeysOf(one) : \E i \in DOMAIN one :
              one[i].key = key /\ new[key] = one[i]
        /\ \A key \in DOMAIN written \ KeysOf(one) : new[key] = written[key]
    BY MergeFacts
  <2> HIDE DEF one, new
  <2>3. \A key \in DOMAIN new : new[key].key = key /\ FitsTarget(new[key])
    BY <1>7, <1>8, <2>1, <2>2
  <2> QED
    BY <1>1, <1>5, <1>6, <1>10, <2>3 DEF one, new, tensor
<1> QED
  BY <1>5, <1>9, <1>10

LEMMA PortStep == PortInv /\ [PortNext]_portVars => PortInv'
<1> SUFFICES ASSUME PortInv, [PortNext]_portVars PROVE PortInv'
  OBVIOUS
<1>1. ASSUME NEW a \in Arguments, PortLora(a)  PROVE PortInv'
  <2>1. portStage' = "source" /\ args' = a /\ written' = <<>>
    BY <1>1 DEF PortLora
  <2> QED
    BY <2>1 DEF PortInv
<1>2. CASE ProcessLayer
  <2>1. /\ args' = args /\ portStage' = portStage /\ pending' = Tail(pending)
    BY <1>2 DEF ProcessLayer
  <2>2. /\ pending \in Seq(Readables) /\ pending # <<>> /\ args \in Arguments
        /\ \A key \in DOMAIN written' : written'[key].key = key /\ FitsTarget(written'[key])
    BY <1>2, ProcessLayerFits
  <2>3. Readables' = Readables /\ \A x : FitsTarget(x)' <=> FitsTarget(x)
    BY <2>1, SameArguments
  <2>4. Tail(pending) \in Seq(Readables)
    BY <2>2
  <2>5. \A key \in DOMAIN written' : FitsTarget(written[key])' <=> FitsTarget(written'[key])
    BY <2>1 DEF FitsTarget, SourceInfo, TargetInfo, TargetFeatures, MixedResize, Structural
  <2>6. portStage' \in {"stream", "load", "legacy", "dummy"} => args'.target # Absent
    BY <2>1 DEF PortInv
  <2> QED
    BY <2>1, <2>2, <2>3, <2>4, <2>5, <2>6 DEF PortInv
<1>3. ASSUME args' = args, written' = written,
             args \in Arguments \/ (portStage' = "idle" /\ written = <<>>),
             portStage' \in {"stream", "load", "legacy", "dummy"} => args.target # Absent,
             portStage' \in {"stream", "legacy", "dummy"} =>
                 \/ pending' = pending /\ portStage' = portStage
                 \/ args \in Arguments /\ pending' \in {SourceTensors, DummyTensors}
      PROVE  PortInv'
  <2>1. Readables' = Readables
    BY <1>3, SameArguments
  <2>2. portStage' \in {"stream", "legacy", "dummy"} => pending' \in Seq(Readables)
    BY <1>3, TensorFacts DEF PortInv
  <2>3. \A key \in DOMAIN written' : FitsTarget(written[key])' <=> FitsTarget(written[key])
    BY <1>3 DEF FitsTarget, SourceInfo, TargetInfo, TargetFeatures, MixedResize, Structural
  <2> QED
    BY <1>3, <2>1, <2>2, <2>3 DEF PortInv
<1>4. CASE ResolveSource
  BY <1>3, <1>4 DEF ResolveSource, PortInv
<1>5. CASE OpenWriter
  BY <1>3, <1>5 DEF OpenWriter, PortInv
<1>6. CASE StreamingFails
  BY <1>3, <1>6 DEF StreamingFails, PortInv
<1>10. CASE PairFails
  <2>1. /\ args' = args /\ args \in Arguments /\ args.target # Absent
        /\ \A key \in DOMAIN written' : written'[key].key = key /\ FitsTarget(written'[key])
    BY <1>10, PairFailsFits
  <2>2. portStage' \in {"load", "raised"}
    BY <1>10 DEF PairFails
  <2>3. \A key \in DOMAIN written' : FitsTarget(written[key])' <=> FitsTarget(written'[key])
    BY <2>1 DEF FitsTarget, SourceInfo, TargetInfo, TargetFeatures, MixedResize, Structural
  <2> QED
    BY <2>1, <2>2, <2>3 DEF PortInv
<1>7. CASE LoadAll
  BY <1>3, <1>7 DEF LoadAll, PortInv
<1>8. CASE LoopsEndEarly \/ FinishLayers \/ WriteConfig \/ WriteProjectionMetadata \/ Abandon
  <2>1. /\ args' = args /\ written' = written /\ portStage # "idle"
        /\ portStage' \in {"idle", "closed", "configured"}
    BY <1>8 DEF LoopsEndEarly, FinishLayers, InLoop, WriteConfig, WriteProjectionMetadata, Abandon
  <2> QED
    BY <1>3, <2>1 DEF PortInv
<1>9. CASE UNCHANGED portVars
  BY <1>3, <1>9 DEF portVars, PortInv
<1> QED
  BY <1>1, <1>2, <1>4, <1>5, <1>6, <1>7, <1>8, <1>9, <1>10 DEF PortNext

\* Arguments, pending tensors and results agree in every state of port_lora.
THEOREM PortInvariance == PortSpec => []PortInv
  BY PortInitial, PortStep, PTL DEF PortSpec

\* Whatever _legacy_project and the piecewise path hand to the writer has the
\* features of the target's module, for all sizes of source and target.
THEOREM ResultsAlwaysFit == PortSpec => []ResultsFitTarget
<1>1. PortInv => ResultsFitTarget
  BY DEF PortInv, FitsTarget, ResultsFitTarget
<1> QED
  BY <1>1, PortInvariance, PTL

-----------------------------------------------------------------------------
(* No pair is separated in silence.                                        *)

Names == args.source.keys

\* How many of the file's tensors the loop has read.
Done == Len(Names) - Len(pending)

Included(key) == ShouldIncludeKey(key.module, args.include, AlphaMap)

\* The rank of a tensor, by its side.
RankIn(map, key) == IF key.side = "A" THEN map[key].shape.rows ELSE map[key].shape.cols

\* Whole, said of the key of either side.
WholeIn(map, key) ==
    /\ key \in DOMAIN map /\ Mate(key) \in DOMAIN map
    /\ map[key].how = map[Mate(key)].how
    /\ RankIn(map, key) = RankIn(map, Mate(key))

\* A side that was written without its mate will be matched by it: the limit
\* on piecewise layers, once reached, stays reached.
Alone(map, key) ==
    /\ key \in DOMAIN map
    /\ IF Structural
         THEN ~UsePiecewise(key) /\ map[key].how = "linear" /\ RankIn(map, key) = args.rank
         ELSE map[key].how = "same" /\ RankIn(map, key) = args.source.rank

\* The buffer holds only sides that come before their mates in the file.
BufferFacts ==
    /\ adapter = [buffer |-> adapter.buffer, counter |-> adapter.counter]
    /\ adapter.counter \in Nat
    /\ \A i, j \in DOMAIN Names :
          Names[i] \in adapter.buffer /\ Names[j] = Mate(Names[i]) => i < j

\* A loop reads the file from its beginning.
ReadFacts ==
    /\ Len(pending) <= Len(Names)
    /\ \A i \in 1..Len(pending) : pending[i] = SourceTensors[Done + i]

\* A pair of which both sides were read is whole or will be reported; a side
\* of which the mate is still to come is buffered or was written alone.
PairFacts ==
    \A i, j \in DOMAIN Names :
        Names[j] = Mate(Names[i]) /\ Included(Names[i]) /\ i <= Done =>
            IF j <= Done
              THEN \/ WholeIn(written, Names[i])
                   \/ Names[i] \in adapter.buffer \/ Names[j] \in adapter.buffer
              ELSE Names[i] \in adapter.buffer \/ Alone(written, Names[i])

\* The inductive invariant of the loops, for what PortInv says of them.
LoopInv ==
    /\ PortInv
    /\ portStage \in {"source", "detect", "stream", "load", "legacy"} => BufferFacts
    /\ portStage \in {"stream", "legacy"} => ReadFacts /\ PairFacts

LEMMA NameFacts ==
    ASSUME args \in Arguments
    PROVE  /\ Names \in Seq(Range(Names)) /\ Len(Names) \in Nat /\ DOMAIN Names = 1..Len(Names)
           /\ \A i \in DOMAIN Names : IsKey(Names[i])
           /\ \A i, j \in DOMAIN Names : Names[i] = Names[j] => i = j
           /\ \A i \in DOMAIN Names : \E j \in DOMAIN Names : Names[j] = Mate(Names[i])
           /\ Len(SourceTensors) = Len(Names)
           /\ \A i \in DOMAIN Names : /\ SourceTensors[i].key = Names[i]
                                      /\ SourceTensors[i].shape = SourceShape(Names[i])
<1>1. /\ Names \in Seq(Range(Names))
      /\ \A i \in DOMAIN Names : IsKey(Names[i])
      /\ \A i, j \in DOMAIN Names : Names[i] = Names[j] => i = j
      /\ \A i \in DOMAIN Names : \E j \in DOMAIN Names : Names[j] = Mate(Names[i])
  BY PortAssumption DEF Names
<1>2. Len(Names) \in Nat /\ DOMAIN Names = 1..Len(Names)
  BY <1>1
<1>3. Len(SourceTensors) = Len(Names)
  BY TensorFacts DEF Names
<1>4. \A i \in DOMAIN Names : SourceTensors[i] = [key |-> Names[i], shape |-> SourceShape(Names[i])]
  BY DEF SourceTensors, Names
<1>5. ASSUME NEW i \in DOMAIN Names
      PROVE  SourceTensors[i].key = Names[i] /\ SourceTensors[i].shape = SourceShape(Names[i])
  <2> DEFINE key == Names[i]
             shape == SourceShape(Names[i])
             tensor == SourceTensors[i]
  <2>1. tensor = [key |-> key, shape |-> shape]
    BY <1>4
  <2> HIDE DEF key, shape, tensor
  <2>2. tensor.key = key /\ tensor.shape = shape
    BY <2>1
  <2> QED
    BY <2>2 DEF key, shape, tensor
<1> QED
  BY <1>1, <1>2, <1>3, <1>5

LEMMA WholePair ==
    ASSUME NEW key, IsKey(key)
    PROVE  /\ Pair(Mate(key)) = Pair(key)
           /\ WholeIn(written, key) => Whole(Pair(key))
<1>1. /\ key = [module |-> key.module, layer |-> key.layer, side |-> key.side]
      /\ Side(key, "A") = [module |-> key.module, layer |-> key.layer, side |-> "A"]
      /\ Side(key, "B") = [module |-> key.module, layer |-> key.layer, side |-> "B"]
      /\ key.side = "A" => key = Side(key, "A") /\ Mate(key) = Side(key, "B")
      /\ key.side # "A" => key = Side(key, "B") /\ Mate(key) = Side(key, "A")
      /\ Mate(key).module = key.module /\ Mate(key).layer = key.layer
  BY KeyFacts
<1> DEFINE a == [module |-> key.module, layer |-> key.layer, side |-> "A"]
           b == [module |-> key.module, layer |-> key.layer, side |-> "B"]
<1>2. a.side = "A" /\ b.side # "A"
  OBVIOUS
<1>3. Pair(key)[1] = key.module /\ Pair(key)[2] = key.layer /\ Pair(Mate(key)) = Pair(key)
  BY <1>1 DEF Pair
<1>4. Whole(Pair(key)) <=> /\ {a, b} \subseteq DOMAIN written
                           /\ written[a].how = written[b].how
                           /\ written[a].shape.rows = written[b].shape.cols
  BY <1>3 DEF Whole
<1>5. (key = a /\ Mate(key) = b) \/ (key = b /\ Mate(key) = a)
  BY <1>1
<1> HIDE DEF a, b
<1>6. WholeIn(written, key) => Whole(Pair(key))
  BY <1>2, <1>4, <1>5 DEF WholeIn, RankIn
<1> QED
  BY <1>3, <1>6

\* What reading one tensor of the file does to the other pairs and to its own.
LEMMA ReadEffect ==
    ASSUME PortInv, BufferFacts, ReadFacts, portStage \in {"stream", "legacy"}, ProcessLayer,
           NEW x, x = Names[Done + 1]
    PROVE  /\ Done \in Nat /\ Done + 1 \in DOMAIN Names
           /\ adapter' = [buffer |-> adapter'.buffer, counter |-> adapter'.counter]
           /\ adapter'.counter \in Nat /\ adapter'.counter >= adapter.counter
           /\ \A k : k \notin {x, Mate(x)} =>
                 /\ k \in adapter'.buffer <=> k \in adapter.buffer
                 /\ k \in DOMAIN written => k \in DOMAIN written' /\ written'[k] = written[k]
           /\ ~Included(x) => adapter' = adapter /\ written' = written
           /\ Included(x) =>
                 \/ /\ Structural => ~UsePiecewise(x)
                    /\ adapter' = adapter
                    /\ Mate(x) \in DOMAIN written =>
                          Mate(x) \in DOMAIN written' /\ written'[Mate(x)] = written[Mate(x)]
                    /\ x \in DOMAIN written'
                    /\ written'[x].how = IF Structural THEN "linear" ELSE "same"
                    /\ RankIn(written', x) = IF Structural THEN args.rank ELSE args.source.rank
                 \/ /\ Structural /\ UsePiecewise(x) /\ Mate(x) \in adapter.buffer
                    /\ adapter'.buffer = adapter.buffer \ {x, Mate(x)}
                    /\ WholeIn(written', x)
                 \/ /\ Structural /\ UsePiecewise(x) /\ Mate(x) \notin adapter.buffer
                    /\ adapter'.buffer = adapter.buffer \cup {x}
<1> DEFINE tensor == Head(pending)
           p == ProjectTensor(tensor)
<1>0. /\ pending \in Seq(Readables) /\ pending # <<>>
      /\ args \in Arguments /\ args.source.info \in Sizes /\ TargetInfo \in Sizes
      /\ tensor \in Readables /\ IsKey(tensor.key)
  BY ProcessLayerFits
<1>1. Len(pending) \in Nat \ {0} /\ tensor = pending[1]
  BY <1>0
<1>2. Len(Names) \in Nat /\ DOMAIN Names = 1..Len(Names)
  BY <1>0, NameFacts
<1>3. Done \in Nat /\ Done + 1 \in DOMAIN Names
  BY <1>1, <1>2 DEF Done, ReadFacts
<1>4. tensor = SourceTensors[Done + 1]
  BY <1>1 DEF ReadFacts
<1>5. tensor.key = x /\ tensor.shape = SourceShape(x)
  BY <1>0, <1>3, <1>4, NameFacts
<1>6. /\ Included(x) => adapter' = p.adapter /\ written' = Merge(written, p.results)
      /\ ~Included(x) => adapter' = adapter /\ written' = written
  BY <1>5 DEF ProcessLayer, Included
<1>7. IsKey(x) /\ IsKey(Mate(x)) /\ Mate(x) # x /\ Mate(Mate(x)) = x
  BY <1>0, <1>5, KeyFacts
<1> DEFINE Rank == IF x.side = "A" THEN SourceShape(x).rows ELSE SourceShape(x).cols
<1>8. Rank = args.source.rank
  BY DEF SourceShape
<1> HIDE DEF tensor, Rank
<1>9. CASE ~Included(x)
  BY <1>3, <1>6, <1>9 DEF BufferFacts
<1>10. ASSUME Included(x), p.adapter = adapter, Structural => ~UsePiecewise(x),
              NEW r, p.results = <<r>>, r.key = x,
              r.how = IF Structural THEN "linear" ELSE "same",
              (IF x.side = "A" THEN r.shape.rows ELSE r.shape.cols)
                  = IF Structural THEN args.rank ELSE args.source.rank
       PROVE  /\ adapter' = adapter
              /\ \A k : k # x /\ k \in DOMAIN written => k \in DOMAIN written' /\ written'[k] = written[k]
              /\ x \in DOMAIN written'
              /\ written'[x].how = IF Structural THEN "linear" ELSE "same"
              /\ RankIn(written', x) = IF Structural THEN args.rank ELSE args.source.rank
  <2>1. KeysOf(p.results) = {x} /\ DOMAIN p.results = {1} /\ p.results[1] = r
    BY <1>10 DEF KeysOf
  <2>2. /\ DOMAIN written' = DOMAIN written \cup {x}
        /\ written'[x] = r
        /\ \A k \in DOMAIN written \ {x} : written'[k] = written[k]
    <3> DEFINE results == p.results
    <3>1. written' = Merge(written, results)
      BY <1>6, <1>10
    <3>2. KeysOf(results) = {x} /\ DOMAIN results = {1} /\ results[1] = r
      BY <2>1
    <3> HIDE DEF results
    <3>3. /\ DOMAIN Merge(written, results) = DOMAIN written \cup KeysOf(results)
          /\ \A k \in KeysOf(results) : \E i \in DOMAIN results :
                results[i].key = k /\ Merge(written, results)[k] = results[i]
          /\ \A k \in DOMAIN written \ KeysOf(results) : Merge(written, results)[k] = written[k]
      BY MergeFacts
    <3> QED
      BY <3>1, <3>2, <3>3
  <2> QED
    BY <1>6, <1>10, <2>2 DEF RankIn
<1>11. ASSUME Included(x), Structural, UsePiecewise(x), Mate(x) \in adapter.buffer,
              p.adapter = [buffer |-> adapter.buffer \ {x, Mate(x)}, counter |-> adapter.counter + 1],
              NEW a, NEW b, p.results = <<a, b>>,
              a.key = Side(x, "A"), b.key = Side(x, "B"), a.how = b.how, a.shape.rows = b.shape.cols
       PROVE  /\ \A k : k \notin {x, Mate(x)} /\ k \in DOMAIN written =>
                     k \in DOMAIN written' /\ written'[k] = written[k]
              /\ WholeIn(written', x)
  <2>1. /\ Side(x, "A").side = "A" /\ Side(x, "B").side = "B"
        /\ x.side = "A" => x = Side(x, "A") /\ Mate(x) = Side(x, "B")
        /\ x.side # "A" => x = Side(x, "B") /\ Mate(x) = Side(x, "A")
    <3>1. /\ Side(x, "A") = [module |-> x.module, layer |-> x.layer, side |-> "A"]
          /\ Side(x, "B") = [module |-> x.module, layer |-> x.layer, side |-> "B"]
          /\ x.side = "A" => x = Side(x, "A") /\ Mate(x) = Side(x, "B")
          /\ x.side # "A" => x = Side(x, "B") /\ Mate(x) = Side(x, "A")
      BY <1>7, KeyFacts
    <3> QED
      BY <3>1
  <2> DEFINE ka == Side(x, "A")
             kb == Side(x, "B")
  <2>2. /\ KeysOf(p.results) = {ka, kb} /\ DOMAIN p.results = {1, 2}
        /\ p.results[1] = a /\ p.results[2] = b /\ a.key = ka /\ b.key = kb /\ ka # kb
    BY <1>11, <2>1 DEF KeysOf
  <2>3. {ka, kb} = {x, Mate(x)}
    BY <2>1
  <2> HIDE DEF p
  <2>4. /\ DOMAIN written' = DOMAIN written \cup {ka, kb}
        /\ \A k \in {ka, kb} : \E i \in {1, 2} : p.results[i].key = k /\ written'[k] = p.results[i]
        /\ \A k \in DOMAIN written \ {ka, kb} : written'[k] = written[k]
    <3> DEFINE results == p.results
    <3>1. written' = Merge(written, results)
      BY <1>6, <1>11
    <3>2. KeysOf(results) = {ka, kb} /\ DOMAIN results = {1, 2}
      BY <2>2
    <3> HIDE DEF results
    <3>3. /\ DOMAIN Merge(written, results) = DOMAIN written \cup KeysOf(results)
          /\ \A k \in KeysOf(results) : \E i \in DOMAIN results :
                results[i].key = k /\ Merge(written, results)[k] = results[i]
          /\ \A k \in DOMAIN written \ KeysOf(results) : Merge(written, results)[k] = written[k]
      BY MergeFacts
    <3> QED
      BY <3>1, <3>2, <3>3 DEF results
  <2>5. written'[ka] = a /\ written'[kb] = b
    BY <2>2, <2>4
  <2> HIDE DEF ka, kb
  <2>6. /\ ka.side = "A" /\ kb.side = "B"
        /\ (x = ka /\ Mate(x) = kb) \/ (x = kb /\ Mate(x) = ka)
    BY <2>1 DEF ka, kb
  <2>7. WholeIn(written', x)
    BY <1>11, <2>4, <2>5, <2>6 DEF WholeIn, RankIn
  <2> QED
    BY <2>3, <2>4, <2>7
<1>12. ASSUME Included(x), Structural, UsePiecewise(x), Mate(x) \notin adapter.buffer,
              p.adapter = [adapter EXCEPT !.buffer = @ \cup {x}], p.results = <<>>
       PROVE  /\ \A k : k \in DOMAIN written => k \in DOMAIN written' /\ written'[k] = written[k]
              /\ adapter' = [buffer |-> adapter.buffer \cup {x}, counter |-> adapter.counter]
  <2> DEFINE results == p.results
  <2>1. written' = Merge(written, results) /\ adapter' = [adapter EXCEPT !.buffer = @ \cup {x}]
    BY <1>6, <1>12
  <2>2. KeysOf(results) = {}
    BY <1>12 DEF KeysOf
  <2> HIDE DEF results
  <2>3. /\ DOMAIN written' = DOMAIN written \cup KeysOf(results)
        /\ \A k \in DOMAIN written \ KeysOf(results) : written'[k] = written[k]
    BY <2>1, MergeFacts
  <2>4. adapter = [buffer |-> adapter.buffer, counter |-> adapter.counter]
    BY DEF BufferFacts
  <2> QED
    BY <2>1, <2>2, <2>3, <2>4
<1>13. CASE Included(x)
  <2>1. \/ /\ ~Structural /\ p.adapter = adapter
           /\ \E r : /\ p.results = <<r>> /\ r.key = x
                     /\ r.how = "same" /\ r.shape = SourceShape(x)
        \/ /\ Structural /\ ~UsePiecewise(x) /\ p.adapter = adapter
           /\ \E r : /\ p.results = <<r>> /\ r.key = x /\ r.how = "linear"
                     /\ (IF x.side = "A" THEN r.shape.rows ELSE r.shape.cols) = args.rank
        \/ /\ Structural /\ UsePiecewise(x) /\ Mate(x) \in adapter.buffer
           /\ p.adapter = [buffer |-> adapter.buffer \ {x, Mate(x)}, counter |-> adapter.counter + 1]
           /\ \E a, b : /\ p.results = <<a, b>>
                        /\ a.key = Side(x, "A") /\ b.key = Side(x, "B")
                        /\ a.how = "piecewise" /\ b.how = "piecewise"
                        /\ a.shape.rows = b.shape.cols
        \/ /\ Structural /\ UsePiecewise(x) /\ Mate(x) \notin adapter.buffer
           /\ p.adapter = [adapter EXCEPT !.buffer = @ \cup {x}]
           /\ p.results = <<>>
    BY <1>0, <1>5, ProjectCases
  <2> HIDE DEF p
  <2>2. adapter.counter \in Nat /\ adapter = [buffer |-> adapter.buffer, counter |-> adapter.counter]
    BY DEF BufferFacts
  <2>3. CASE ~Structural
    <3>1. PICK r : p.adapter = adapter /\ p.results = <<r>> /\ r.key = x
                   /\ r.how = "same" /\ r.shape = SourceShape(x)
      BY <2>1, <2>3
    <3>2. (IF x.side = "A" THEN r.shape.rows ELSE r.shape.cols) = args.source.rank
      BY <1>8, <3>1 DEF Rank
    <3>3. /\ adapter' = adapter
          /\ \A k : k # x /\ k \in DOMAIN written => k \in DOMAIN written' /\ written'[k] = written[k]
          /\ x \in DOMAIN written'
          /\ written'[x].how = "same" /\ RankIn(written', x) = args.source.rank
      BY <1>10, <1>13, <2>3, <3>1, <3>2
    <3> QED
      BY <1>3, <1>7, <1>13, <2>2, <2>3, <3>3
  <2>4. CASE Structural /\ ~UsePiecewise(x)
    <3>1. PICK r : p.adapter = adapter /\ p.results = <<r>> /\ r.key = x /\ r.how = "linear"
                   /\ (IF x.side = "A" THEN r.shape.rows ELSE r.shape.cols) = args.rank
      BY <2>1, <2>4
    <3>2. /\ adapter' = adapter
          /\ \A k : k # x /\ k \in DOMAIN written => k \in DOMAIN written' /\ written'[k] = written[k]
          /\ x \in DOMAIN written'
          /\ written'[x].how = "linear" /\ RankIn(written', x) = args.rank
      BY <1>10, <1>13, <2>4, <3>1
    <3> QED
      BY <1>3, <1>7, <1>13, <2>2, <2>4, <3>2
  <2>5. CASE Structural /\ UsePiecewise(x) /\ Mate(x) \in adapter.buffer
    <3>1. PICK a, b : /\ p.results = <<a, b>>
                      /\ a.key = Side(x, "A") /\ b.key = Side(x, "B")
                      /\ a.how = b.how /\ a.shape.rows = b.shape.cols
      BY <2>1, <2>5
    <3>2. adapter' = [buffer |-> adapter.buffer \ {x, Mate(x)}, counter |-> adapter.counter + 1]
      BY <1>6, <1>13, <2>1, <2>5
    <3>3. /\ \A k : k \notin {x, Mate(x)} /\ k \in DOMAIN written =>
                k \in DOMAIN written' /\ written'[k] = written[k]
          /\ WholeIn(written', x)
      BY <1>6, <1>11, <1>13, <2>1, <2>5, <3>1
    <3> QED
      BY <1>3, <1>13, <2>2, <2>5, <3>2, <3>3
  <2>6. CASE Structural /\ UsePiecewise(x) /\ Mate(x) \notin adapter.buffer
    <3>1. /\ \A k : k \in DOMAIN written => k \in DOMAIN written' /\ written'[k] = written[k]
          /\ adapter' = [buffer |-> adapter.buffer \cup {x}, counter |-> adapter.counter]
      BY <1>12, <1>13, <2>1, <2>6
    <3> QED
      BY <1>3, <1>13, <2>2, <2>6, <3>1
  <2> QED
    BY <2>1, <2>3, <2>4, <2>5, <2>6
<1> QED
  BY <1>9, <1>13

\* The limit on piecewise layers, once reached, stays reached.
LEMMA StillAlone ==
    ASSUME args \in Arguments, args' = args, BufferFacts,
           adapter'.counter \in Nat, adapter'.counter >= adapter.counter,
           NEW k, k \in DOMAIN written', Structural => ~UsePiecewise(k),
           written'[k].how = IF Structural THEN "linear" ELSE "same",
           RankIn(written', k) = IF Structural THEN args.rank ELSE args.source.rank
    PROVE  Alone(written, k)'
<1>1. Structural' = Structural
  BY DEF Structural
<1>2. adapter.counter \in Nat /\ args.maxLayers \in Nat \cup {Absent}
  BY PortAssumption DEF BufferFacts
<1>3. ~UsePiecewise(k) => ~UsePiecewise(k)'
  BY <1>2 DEF UsePiecewise
<1> QED
  BY <1>1, <1>3 DEF Alone, RankIn

LEMMA ProcessLayerPairs ==
    ASSUME PortInv, BufferFacts, ReadFacts, PairFacts,
           portStage \in {"stream", "legacy"}, ProcessLayer
    PROVE  BufferFacts' /\ ReadFacts' /\ PairFacts'
<1> DEFINE n == Done
           x == Names[n + 1]
           y == Mate(x)
           buffer == adapter.buffer
<1>0. /\ pending \in Seq(Readables) /\ pending # <<>> /\ args \in Arguments
  BY ProcessLayerFits
<1>1. /\ args' = args /\ pending' = Tail(pending) /\ Names' = Names /\ SourceTensors' = SourceTensors
      /\ \A k : Included(k)' <=> Included(k)
  <2>1. args' = args /\ pending' = Tail(pending)
    BY DEF ProcessLayer
  <2> QED
    BY <2>1, SameArguments DEF Names, Included, AlphaMap
<1>2. /\ Len(Names) \in Nat /\ DOMAIN Names = 1..Len(Names)
      /\ \A i \in DOMAIN Names : IsKey(Names[i])
      /\ \A i, j \in DOMAIN Names : Names[i] = Names[j] => i = j
  BY <1>0, NameFacts
<1>3. /\ Len(pending) \in Nat \ {0} /\ Len(pending') = Len(pending) - 1
      /\ \A i \in 1..Len(pending) - 1 : pending'[i] = pending[i + 1]
  BY <1>0, <1>1
<1>4. Done' = n + 1
  BY <1>1, <1>2, <1>3 DEF Done
<1>5. ReadFacts'
  <2>1. n \in Int /\ Len(pending) <= Len(Names)
        /\ \A i \in 1..Len(pending) : pending[i] = SourceTensors[n + i]
    BY <1>2, <1>3 DEF ReadFacts, Done
  <2> HIDE DEF n
  <2>2. ASSUME NEW i \in 1..Len(pending) - 1  PROVE pending'[i] = SourceTensors[n + 1 + i]
    <3>1. i + 1 \in 1..Len(pending) /\ n + (i + 1) = n + 1 + i
      BY <1>3, <2>1
    <3> QED
      BY <1>3, <2>1, <3>1
  <2>3. Len(pending') <= Len(Names')
    BY <1>1, <1>2, <1>3, <2>1
  <2> QED
    BY <1>1, <1>3, <1>4, <2>2, <2>3 DEF ReadFacts
<1>6. /\ n \in Nat /\ n + 1 \in DOMAIN Names
      /\ adapter' = [buffer |-> adapter'.buffer, counter |-> adapter'.counter]
      /\ adapter'.counter \in Nat /\ adapter'.counter >= adapter.counter
      /\ \A k : k \notin {x, y} =>
            /\ k \in adapter'.buffer <=> k \in buffer
            /\ k \in DOMAIN written => k \in DOMAIN written' /\ written'[k] = written[k]
      /\ ~Included(x) => adapter' = adapter /\ written' = written
  BY ReadEffect
<1> DEFINE Plain == /\ Structural => ~UsePiecewise(x)
                    /\ adapter' = adapter
                    /\ y \in DOMAIN written => y \in DOMAIN written' /\ written'[y] = written[y]
                    /\ x \in DOMAIN written'
                    /\ written'[x].how = IF Structural THEN "linear" ELSE "same"
                    /\ RankIn(written', x) = IF Structural THEN args.rank ELSE args.source.rank
           Paired == /\ Structural /\ UsePiecewise(x) /\ y \in buffer
                     /\ adapter'.buffer = buffer \ {x, y}
                     /\ WholeIn(written', x)
           Buffered == /\ Structural /\ UsePiecewise(x) /\ y \notin buffer
                       /\ adapter'.buffer = buffer \cup {x}
<1>7. Included(x) => Plain \/ Paired \/ Buffered
  BY ReadEffect
<1>8. /\ IsKey(x) /\ Mate(y) = x /\ y # x /\ IsKey(y)
      /\ y.module = x.module /\ y.layer = x.layer
  BY <1>2, <1>6, KeyFacts
<1>9. /\ Included(y) <=> Included(x)
      /\ UsePiecewise(y) <=> UsePiecewise(x)
  BY <1>8 DEF Included, UsePiecewise
<1> HIDE DEF n, x, y, buffer, Plain, Paired, Buffered
<1>10. \A i \in DOMAIN Names : (Names[i] = x <=> i = n + 1) /\ Mate(Mate(Names[i])) = Names[i]
  BY <1>2, <1>6, KeyFacts DEF x
<1>11. ASSUME NEW j \in DOMAIN Names, Names[j] = y, j <= n, Included(x), y \notin buffer
       PROVE  Alone(written, y)
  <2>1. Names[n + 1] = Mate(Names[j]) /\ Included(Names[j]) /\ j <= Done /\ ~(n + 1 <= Done)
    BY <1>6, <1>8, <1>9, <1>11 DEF x, n
  <2> QED
    BY <1>6, <1>11, <2>1 DEF PairFacts, buffer
<1>12. BufferFacts'
  <2>1. ASSUME NEW i \in DOMAIN Names, NEW j \in DOMAIN Names,
               Names[i] \in adapter'.buffer, Names[j] = Mate(Names[i])
        PROVE  i < j
    <3>1. CASE Names[i] \in buffer
      BY <2>1, <3>1 DEF BufferFacts, buffer
    <3>2. CASE Names[i] \notin buffer
      <4>1. Buffered /\ Names[i] = x /\ Included(x)
        BY <1>6, <1>7, <2>1, <3>2 DEF Plain, Paired, Buffered, buffer
      <4>2. i = n + 1 /\ Names[j] = y
        BY <1>10, <2>1, <4>1 DEF y
      <4>3. ~(j <= n)
        <5>1. ASSUME j <= n  PROVE FALSE
          BY <1>9, <1>11, <4>1, <4>2, <5>1 DEF Buffered, Alone
        <5> QED
          BY <5>1
      <4>4. j # n + 1
        BY <1>8, <1>10, <4>2
      <4> QED
        BY <1>2, <1>6, <4>2, <4>3, <4>4
    <3> QED
      BY <3>1, <3>2
  <2> QED
    BY <1>1, <1>6, <2>1 DEF BufferFacts
<1>13. ASSUME Included(x), NEW j \in DOMAIN Names, Names[j] = y, j <= n
       PROVE  /\ WholeIn(written', x) \/ x \in adapter'.buffer \/ y \in adapter'.buffer
              /\ WholeIn(written', y) \/ x \in adapter'.buffer \/ y \in adapter'.buffer
  <2>1. WholeIn(written', x) => WholeIn(written', y)
    BY <1>8 DEF WholeIn, y
  <2>2. CASE Plain /\ y \notin buffer
    <3>1. Alone(written, y)
      BY <1>11, <1>13, <2>2
    <3>2. WholeIn(written', x)
      BY <2>2, <3>1 DEF Plain, Alone, WholeIn, RankIn, y
    <3> QED
      BY <2>1, <3>2
  <2>3. CASE Plain /\ y \in buffer
    BY <2>3 DEF Plain, buffer
  <2>4. CASE Paired
    BY <2>1, <2>4 DEF Paired
  <2>5. CASE Buffered
    BY <2>5 DEF Buffered
  <2> QED
    BY <1>7, <1>13, <2>2, <2>3, <2>4, <2>5
<1>14. ASSUME NEW i \in DOMAIN Names, NEW j \in DOMAIN Names, NEW k, k = Names[i],
              Names[j] = Mate(k), Included(k), i <= n + 1
       PROVE  IF j <= n + 1
                THEN WholeIn(written', k) \/ k \in adapter'.buffer \/ Names[j] \in adapter'.buffer
                ELSE k \in adapter'.buffer \/ Alone(written, k)'
  <2>1. i \in Nat /\ j \in Nat /\ i # j /\ Mate(Names[j]) = k /\ IsKey(k)
    BY <1>2, <1>10, <1>14, KeyFacts
  <2>2. CASE i = n + 1
    <3>1. k = x /\ Names[j] = y /\ Included(x)
      BY <1>14, <2>2 DEF x, y
    <3>2. CASE j <= n
      BY <1>6, <1>13, <2>1, <3>1, <3>2
    <3>3. CASE ~(j <= n)
      <4>1. ~(j <= n + 1)
        BY <1>6, <2>1, <2>2, <3>3
      <4>2. CASE Plain
        <5>1. Alone(written, k)'
          BY <1>0, <1>1, <1>6, <3>1, <4>2, StillAlone DEF Plain
        <5> QED
          BY <4>1, <5>1
      <4>3. CASE Paired
        <5>1. Names[j] \in adapter.buffer /\ Names[i] = Mate(Names[j])
          BY <1>14, <2>1, <3>1, <4>3 DEF Paired, buffer
        <5>2. j < i
          BY <5>1 DEF BufferFacts
        <5> QED
          BY <1>6, <2>1, <2>2, <4>1, <5>2
      <4>4. CASE Buffered
        BY <3>1, <4>1, <4>4 DEF Buffered
      <4> QED
        BY <1>7, <3>1, <4>2, <4>3, <4>4
    <3> QED
      BY <3>2, <3>3
  <2>3. CASE j = n + 1
    <3>1. k = y /\ Names[j] = x /\ Included(x) /\ i <= n /\ Names[i] = y
      BY <1>6, <1>8, <1>9, <1>14, <2>1, <2>3 DEF x, y
    <3> QED
      BY <1>6, <1>13, <2>3, <3>1
  <2>4. CASE i # n + 1 /\ j # n + 1
    <3>1. k # x /\ Names[j] # x
      BY <1>10, <1>14, <2>4
    <3>2. k # y /\ Names[j] # y
      BY <1>8, <1>14, <2>1, <3>1
    <3>3. i <= Done /\ (j <= Done <=> j <= n + 1)
      BY <1>6, <1>14, <2>1, <2>4 DEF n
    <3>4. IF j <= Done
            THEN WholeIn(written, k) \/ k \in buffer \/ Names[j] \in buffer
            ELSE k \in buffer \/ Alone(written, k)
      BY <1>14, <3>3 DEF PairFacts, buffer
    <3>5. WholeIn(written, k) => WholeIn(written', k)
      BY <1>6, <1>14, <3>1, <3>2 DEF WholeIn, RankIn
    <3>6. Alone(written, k) => Alone(written, k)'
      <4>1. HAVE Alone(written, k)
      <4>2. /\ k \in DOMAIN written' /\ (Structural => ~UsePiecewise(k))
            /\ written'[k].how = IF Structural THEN "linear" ELSE "same"
            /\ RankIn(written', k) = IF Structural THEN args.rank ELSE args.source.rank
        BY <1>6, <3>1, <3>2, <4>1 DEF Alone, RankIn
      <4> QED
        BY <1>0, <1>1, <1>6, <4>2, StillAlone
    <3> QED
      BY <1>6, <3>1, <3>2, <3>3, <3>4, <3>5, <3>6
  <2> QED
    BY <2>2, <2>3, <2>4
<1>15. PairFacts'
  <2>1. ASSUME NEW i \in DOMAIN Names, NEW j \in DOMAIN Names,
               Names[j] = Mate(Names[i]), Included(Names[i]), i <= n + 1
        PROVE  IF j <= n + 1
                 THEN \/ WholeIn(written', Names'[i])
                      \/ Names'[i] \in adapter'.buffer \/ Names'[j] \in adapter'.buffer
                 ELSE Names'[i] \in adapter'.buffer \/ Alone(written, Names[i])'
    <3>1. PICK k : k = Names[i]
      OBVIOUS
    <3>2. IF j <= n + 1
            THEN WholeIn(written', k) \/ k \in adapter'.buffer \/ Names[j] \in adapter'.buffer
            ELSE k \in adapter'.buffer \/ Alone(written, k)'
      BY <1>14, <2>1, <3>1
    <3>3. k = Names'[i]
      BY <1>1, <3>1
    <3>4. Alone(written, k)' => Alone(written, Names[i])'
      BY <3>3 DEF Alone, RankIn, UsePiecewise
    <3> QED
      BY <1>1, <3>2, <3>3, <3>4
  <2>2. \A i \in DOMAIN Names : Included(Names[i])' => Included(Names[i])
    BY <1>1 DEF Included, AlphaMap
  <2> QED
    BY <1>1, <1>4, <2>1, <2>2 DEF PairFacts
<1> QED
  BY <1>5, <1>12, <1>15

LEMMA LoopInitial == PortInit => LoopInv
  BY PortInitial DEF PortInit, LoopInv

\* At the beginning of the file nothing is asked of any pair.
LEMMA LoopBegins ==
    ASSUME args \in Arguments, args' = args, pending' = SourceTensors
    PROVE  ReadFacts' /\ PairFacts'
<1>1. Names' = Names /\ SourceTensors' = SourceTensors
  BY SameArguments DEF Names
<1>2. Len(Names) \in Nat /\ DOMAIN Names = 1..Len(Names) /\ Len(SourceTensors) = Len(Names)
  BY NameFacts
<1>3. Done' = 0 /\ Len(pending') = Len(Names)
  BY <1>1, <1>2 DEF Done
<1>4. ReadFacts'
  BY <1>1, <1>2, <1>3 DEF ReadFacts
<1>5. \A i \in DOMAIN Names : ~(i <= 0)
  BY <1>2
<1> QED
  BY <1>1, <1>3, <1>4, <1>5 DEF PairFacts

LEMMA LoopStep == LoopInv /\ [PortNext]_portVars => LoopInv'
<1> SUFFICES ASSUME LoopInv, [PortNext]_portVars PROVE LoopInv'
  OBVIOUS
<1>0. PortInv /\ PortInv'
  BY PortStep DEF LoopInv
<1>1. ASSUME args' = args, adapter' = adapter, BufferFacts  PROVE BufferFacts'
  BY <1>1 DEF BufferFacts, Names
<1>2. ASSUME NEW a \in Arguments, PortLora(a)  PROVE LoopInv'
  <2>1. portStage' = "source" /\ adapter' = [buffer |-> {}, counter |-> 0]
    BY <1>2 DEF PortLora, NewAdapter
  <2>2. adapter'.buffer = {} /\ adapter'.counter = 0
    BY <2>1
  <2>3. BufferFacts'
    BY <2>1, <2>2 DEF BufferFacts
  <2> QED
    BY <1>0, <2>1, <2>3 DEF LoopInv
<1>3. CASE ResolveSource
  <2>1. /\ portStage = "source" /\ portStage' = "detect" /\ args' = args /\ adapter' = adapter
    BY <1>3 DEF ResolveSource
  <2> QED
    BY <1>0, <1>1, <2>1 DEF LoopInv
<1>4. CASE OpenWriter
  <2>1. /\ portStage = "detect" /\ portStage' = "stream" /\ pending' = SourceTensors
        /\ args' = args /\ adapter' = adapter
    BY <1>4 DEF OpenWriter
  <2>2. args \in Arguments
    BY <1>0, <2>1 DEF PortInv
  <2>3. BufferFacts'
    BY <1>1, <2>1 DEF LoopInv
  <2> QED
    BY <1>0, <2>1, <2>2, <2>3, LoopBegins DEF LoopInv
<1>5. CASE ProcessLayer
  <2>1. portStage' = portStage /\ portStage \in {"stream", "legacy", "dummy"}
    BY <1>5 DEF ProcessLayer, InLoop
  <2>2. portStage # "dummy" => BufferFacts' /\ ReadFacts' /\ PairFacts'
    BY <1>0, <1>5, <2>1, ProcessLayerPairs DEF LoopInv
  <2> QED
    BY <1>0, <2>1, <2>2 DEF LoopInv
<1>6. CASE StreamingFails
  <2>1. portStage = "stream" /\ portStage' = "load" /\ args' = args /\ adapter' = adapter
    BY <1>6 DEF StreamingFails
  <2> QED
    BY <1>0, <1>1, <2>1 DEF LoopInv
<1>10. CASE PairFails
  <2>1. \/ portStage = "stream" /\ portStage' = "load"
        \/ portStage' = "raised"
    BY <1>10 DEF PairFails
  <2>2. /\ args' = args
        /\ adapter' = [buffer |-> adapter.buffer \ {Head(pending).key, Mate(Head(pending).key)},
                       counter |-> adapter.counter + 1]
    BY <1>0, <1>10, PairFailsFits
  <2>3. adapter'.buffer \subseteq adapter.buffer /\ adapter'.counter = adapter.counter + 1
    BY <2>2
  <2>4. BufferFacts => BufferFacts'
    BY <2>2, <2>3 DEF BufferFacts, Names
  <2> QED
    BY <1>0, <2>1, <2>4 DEF LoopInv
<1>7. CASE LoadAll
  <2>1. /\ portStage = "load" /\ args' = args /\ adapter' = adapter
        /\ (portStage' = "legacy" /\ pending' = SourceTensors) \/ portStage' = "dummy"
    BY <1>7 DEF LoadAll
  <2>2. args \in Arguments
    BY <1>0, <2>1 DEF PortInv
  <2>3. BufferFacts'
    BY <1>1, <2>1 DEF LoopInv
  <2> QED
    BY <1>0, <2>1, <2>2, <2>3, LoopBegins DEF LoopInv
<1>8. CASE LoopsEndEarly \/ FinishLayers \/ WriteConfig \/ WriteProjectionMetadata \/ Abandon
  <2>1. portStage' \in {"idle", "closed", "configured"}
    BY <1>8 DEF LoopsEndEarly, FinishLayers, WriteConfig, WriteProjectionMetadata, Abandon
  <2> QED
    BY <1>0, <2>1 DEF LoopInv
<1>9. CASE UNCHANGED portVars
  <2>1. /\ portStage' = portStage /\ args' = args /\ adapter' = adapter
        /\ pending' = pending /\ written' = written
    BY <1>9 DEF portVars
  <2>2. SourceTensors' = SourceTensors /\ Names' = Names /\ Done' = Done
    BY <2>1, SameArguments DEF Names, Done
  <2>3. ReadFacts => ReadFacts'
    BY <2>1, <2>2 DEF ReadFacts
  <2>4. PairFacts => PairFacts'
    BY <2>1 DEF PairFacts, Names, Done, Included, AlphaMap, WholeIn, RankIn, Alone, UsePiecewise,
                Structural
  <2> QED
    BY <1>0, <1>1, <2>1, <2>3, <2>4 DEF LoopInv
<1> QED
  BY <1>2, <1>3, <1>4, <1>5, <1>6, <1>7, <1>8, <1>9, <1>10 DEF PortNext

\* In both loops of port_lora a pair of which both sides were read is whole or
\* has a side in _pair_buffer, whichever sides a first loop that failed left
\* there and however many piecewise layers it has counted.
THEOREM LoopInvariance == PortSpec => []LoopInv
  BY LoopInitial, LoopStep, PTL DEF PortSpec

\* Neither the limit on piecewise layers nor starting over separates the sides
\* of a pair in silence, for every file, order of its tensors and limit.
THEOREM PairsAreNotSeparated == PortSpec => SkippedPairsAreReported
<1>1. LoopInv /\ [PortNext]_portVars =>
        [portStage' = "closed" /\ portStage \in {"stream", "legacy"} =>
            \A key \in Range(args.source.keys) :
               ShouldIncludeKey(key.module, args.include, AlphaMap)
                  => Whole(Pair(key)) \/ Pair(key) \in warned']_portVars
  <2> SUFFICES ASSUME LoopInv, PortNext, portStage' = "closed",
                      portStage \in {"stream", "legacy"},
                      NEW key \in Range(args.source.keys),
                      ShouldIncludeKey(key.module, args.include, AlphaMap)
               PROVE  Whole(Pair(key)) \/ Pair(key) \in warned'
    OBVIOUS
  <2>1. FinishLayers
    BY DEF PortNext, PortLora, ResolveSource, OpenWriter, ProcessLayer, StreamingFails, PairFails, LoadAll,
           LoopsEndEarly, WriteConfig, WriteProjectionMetadata, Abandon
  <2>2. pending = <<>> /\ warned' = {Pair(k) : k \in adapter.buffer}
    BY <2>1 DEF FinishLayers
  <2>3. args \in Arguments /\ PairFacts
    BY DEF LoopInv, PortInv
  <2>4. /\ Len(Names) \in Nat /\ DOMAIN Names = 1..Len(Names)
        /\ \A i \in DOMAIN Names : IsKey(Names[i])
        /\ \A i \in DOMAIN Names : \E j \in DOMAIN Names : Names[j] = Mate(Names[i])
    BY <2>3, NameFacts
  <2>5. Done = Len(Names)
    BY <2>2, <2>4 DEF Done
  <2>6. PICK i \in DOMAIN Names : key = Names[i]
    BY DEF Range, Names
  <2>7. PICK j \in DOMAIN Names : Names[j] = Mate(key)
    BY <2>4, <2>6
  <2>8. i <= Done /\ j <= Done /\ Included(Names[i]) /\ IsKey(key)
    BY <2>4, <2>5, <2>6 DEF Included
  <2>9. \/ WholeIn(written, key)
        \/ key \in adapter.buffer \/ Mate(key) \in adapter.buffer
    BY <2>3, <2>6, <2>7, <2>8 DEF PairFacts
  <2>10. Pair(Mate(key)) = Pair(key) /\ (WholeIn(written, key) => Whole(Pair(key)))
    BY <2>8, WholePair
  <2> QED
    BY <2>2, <2>9, <2>10
<1> QED
  BY <1>1, LoopInvariance, PTL DEF PortSpec, SkippedPairsAreReported

-----------------------------------------------------------------------------
(* Behaviour transfer.                                                     *)

\* The modules of a solution are modules of the target model, the matrices of
\* an export have the rank that was asked for or the model's width, and what
\* lies in the directory is of one export, or, between the two writes of
\* save_pretrained, its weights are of the one that is being saved.
SaveInv ==
    /\ disk = [bin |-> disk.bin, config |-> disk.config] /\ saving \in {"no", "config"}
    /\ solution # Nothing => DOMAIN solution \subseteq TargetModules
    /\ export # Nothing => /\ DOMAIN export.weights \subseteq TargetModules
                           /\ export.keyStyle \in KeyStyles /\ export.r \in Ranks
                           /\ export.rank = Smaller(export.r, Hidden)
    /\ saving = "config" => /\ export # Nothing
                            /\ disk.bin # Nothing
                            /\ disk.bin.modules = DOMAIN export.weights
                            /\ disk.bin.rank = export.rank
    /\ saving = "no" /\ ~cut /\ disk.config # Nothing =>
           /\ disk.bin # Nothing /\ disk.bin.modules = disk.config.modules
           /\ disk.config.r \in Ranks /\ disk.bin.rank = Smaller(disk.config.r, Hidden)

LEMMA ExportKeeps ==
    ASSUME SaveInv, NEW rank \in Ranks, NEW keyStyle \in KeyStyles, ExportLora(rank, keyStyle)
    PROVE  SaveInv'
<1> DEFINE new == [weights |-> solution, keyStyle |-> keyStyle, r |-> rank,
                   rank |-> LowRankDecomposeForPeft(<<Hidden, Hidden>>, rank)[1][1]]
<1>1. export' = new /\ solution # Nothing /\ saving = "no"
      /\ UNCHANGED <<solution, disk, saving, cut>>
  BY DEF ExportLora
<1>2. rank \in Nat /\ Hidden \in Nat
  BY ExportAssumption
<1>3. LowRankDecomposeForPeft(<<Hidden, Hidden>>, rank)[1][1] = Smaller(rank, Hidden)
  BY <1>2 DEF LowRankDecomposeForPeft, Smaller
<1>4. /\ new.weights = solution /\ new.keyStyle = keyStyle /\ new.r = rank
      /\ new.rank = Smaller(rank, Hidden)
  BY <1>3
<1> HIDE DEF new
<1> QED
  BY <1>1, <1>4 DEF SaveInv

LEMMA SaveWeightsKeeps ==
    ASSUME SaveInv, SaveAdapterWeights
    PROVE  SaveInv'
<1> DEFINE modules == DOMAIN export.weights
           new == [modules |-> modules, rank |-> export.rank, keyStyle |-> export.keyStyle]
<1>1. /\ export # Nothing /\ disk' = [disk EXCEPT !.bin = new] /\ saving' = "config"
      /\ UNCHANGED <<solution, export, cut>>
  BY DEF SaveAdapterWeights
<1>2. disk' = [bin |-> new, config |-> disk.config]
  BY <1>1 DEF SaveInv
<1>3. /\ modules \subseteq TargetModules /\ export.keyStyle \in KeyStyles
      /\ export.rank = Smaller(export.r, Hidden) /\ export.r \in Nat /\ Hidden \in Nat
  BY <1>1, ExportAssumption DEF SaveInv
<1>4. export.rank \in Nat
  BY <1>3 DEF Smaller
<1> HIDE DEF modules
<1>5. new \in [modules : SUBSET TargetModules, rank : Nat, keyStyle : KeyStyles]
  BY <1>3, <1>4
<1>6. new # Nothing /\ new.modules = modules /\ new.rank = export.rank
  BY <1>5, ExportAssumption
<1> HIDE DEF new
<1>7. disk'.bin = new /\ disk'.config = disk.config
  BY <1>2
<1> QED
  BY <1>1, <1>2, <1>6, <1>7 DEF SaveInv, modules

LEMMA SaveConfigKeeps ==
    ASSUME SaveInv, SaveAdapterConfig
    PROVE  SaveInv'
<1> DEFINE modules == DOMAIN export.weights
           new == [modules |-> modules, r |-> export.r]
<1>1. /\ saving = "config" /\ saving' = "no" /\ disk' = [disk EXCEPT !.config = new]
      /\ UNCHANGED <<solution, export>>
  BY DEF SaveAdapterConfig
<1>2. disk' = [bin |-> disk.bin, config |-> new]
  BY <1>1 DEF SaveInv
<1>3. new.modules = modules /\ new.r = export.r
  OBVIOUS
<1> HIDE DEF new
<1>4. disk'.bin = disk.bin /\ disk'.config = new
  BY <1>2
<1> QED
  BY <1>1, <1>2, <1>3, <1>4 DEF SaveInv, modules

LEMMA SaveStep == SaveInv /\ [TransferNext]_transferVars => SaveInv'
<1> SUFFICES ASSUME SaveInv, [TransferNext]_transferVars PROVE SaveInv'
  OBVIOUS
<1>1. ASSUME UNCHANGED <<solution, export, disk, saving, cut>>  PROVE SaveInv'
  BY <1>1 DEF SaveInv
<1>2. ASSUME NEW prompts, NEW sources, NEW targets, NEW auto,
             Align(prompts, sources, targets, auto)
      PROVE  SaveInv'
  BY <1>1, <1>2 DEF Align
<1>3. ASSUME NEW prompts, NEW layers, ExtractBehaviorDelta(prompts, layers)  PROVE SaveInv'
  BY <1>1, <1>3 DEF ExtractBehaviorDelta
<1>4. CASE TransportDelta \/ ValidateBehavior \/ UNCHANGED transferVars
  BY <1>1, <1>4 DEF TransportDelta, ValidateBehavior, transferVars
<1>5. ASSUME NEW prompts, NEW modules, NEW keyOf, SolveActivationAdapter(prompts, modules, keyOf)
      PROVE  SaveInv'
  <2>1. UNCHANGED <<export, disk, saving, cut>>
    BY <1>5 DEF SolveActivationAdapter
  <2>2. DOMAIN solution' \subseteq TargetModules
    BY <1>5 DEF SolveActivationAdapter, Collected
  <2> QED
    BY <2>1, <2>2 DEF SaveInv
<1>6. ASSUME NEW rank \in Ranks, NEW keyStyle \in KeyStyles, ExportLora(rank, keyStyle)
      PROVE  SaveInv'
  BY <1>6, ExportKeeps
<1>7. CASE SaveAdapterWeights
  BY <1>7, SaveWeightsKeeps
<1>8. CASE SaveAdapterConfig
  BY <1>8, SaveConfigKeeps
<1>9. CASE Restart
  <2>1. /\ solution' = Nothing /\ export' = Nothing /\ saving' = "no" /\ disk' = disk
        /\ ~cut' => ~cut /\ saving # "config"
    BY <1>9 DEF Restart
  <2> QED
    BY <2>1 DEF SaveInv
<1> QED
  BY <1>2, <1>3, <1>4, <1>5, <1>6, <1>7, <1>8, <1>9 DEF TransferNext

\* The inductive invariant of the files that save_pretrained writes.
THEOREM SaveInvariance == TransferSpec => []SaveInv
<1>1. TransferInit => SaveInv
  BY DEF TransferInit, SaveInv
<1> QED
  BY <1>1, SaveStep, PTL DEF TransferSpec

\* After any sequence of calls of core/ops.py, of any length and with any lists
\* of layers and prompts, the files of an adapter whose save was not cut short
\* are of one export, and load unless its rank exceeds the model's width
\* (export_lora, save_pretrained, validate_behavior).
THEOREM SavedFilesAlwaysAgree == TransferSpec => []SavedFilesAgree
<1>1. SaveInv => SavedFilesAgree
  <2> SUFFICES ASSUME SaveInv, saving = "no", ~cut, disk.config # Nothing
               PROVE  /\ disk.bin # Nothing /\ disk.bin.modules = disk.config.modules
                      /\ Loads <=> disk.config.r <= Hidden
    BY DEF SavedFilesAgree
  <2>1. /\ disk.bin # Nothing /\ disk.bin.modules = disk.config.modules
        /\ disk.bin.rank = Smaller(disk.config.r, Hidden)
        /\ disk.config.r \in Nat /\ Hidden \in Nat
    BY ExportAssumption DEF SaveInv
  <2>2. Loads <=> Smaller(disk.config.r, Hidden) = disk.config.r
    BY <2>1 DEF Loads
  <2> QED
    BY <2>1, <2>2 DEF Smaller
<1> QED
  BY <1>1, SaveInvariance, PTL

=============================================================================
