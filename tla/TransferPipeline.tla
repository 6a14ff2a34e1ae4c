-------------------------- MODULE TransferPipeline --------------------------
(***************************************************************************)
(* The commands around a projection, which talk to each other only through *)
(* files: the diagnostics and the documents in a run directory, the        *)
(* adapter directory (AdapterFiles, with the LoRA export of the behaviour  *)
(* transfer beside it), and the release package.  Every command is its own *)
(* process: others run between the steps of a packaging, which may also be *)
(* killed at any of them.                                                  *)
(***************************************************************************)
EXTENDS AdapterFiles, TransferGates

CONSTANTS
    Jobs,           \* names of the command lines of the diagnostics
    Details,        \* what the programs meet under each of them, see BaseResults
    Torn,           \* content of a file whose writer was killed
    MaxCommands     \* bound on the commands and the damages to a package

\* A suite has cases, all with names of their own, as get_sql_50_suite returns
\* them: the rates of an empty one raise.  No verdict is a missing file.
ASSUME PipelineAssumption ==
    /\ None \notin {"INCONCLUSIVE", "PROJECTION_CANDIDATE", "SOURCE_READY"}
    /\ \A job \in Jobs :
           LET suite == Details[job].suite
           IN  /\ Details[job].gateConfig.positive \in Int
               /\ suite \in Seq(ToSet(suite)) /\ suite # <<>>
               /\ \A i, j \in DOMAIN suite : suite[i].id = suite[j].id => i = j

VARIABLES
    commands,       \* number of commands so far; identifies what they write
    bin,            \* adapter_model.bin in the adapter directory
    runDir,         \* the files of the run directory
    gate,           \* report of the quality gate script
    package,        \* the files of the package but its metadata
    meta,           \* projection_metadata.json of the package
    packing         \* the packaging in progress

pipelineVars == <<commands, bin, runDir, gate, package, meta, packing>>
vars == <<filesVars, pipelineVars>>

RunFiles == {"diagnostic_report.json", "target_eval_results.json",
             "final_analysis.md", "README.md"}
AdapterNames == {"adapter_model.safetensors", "adapter_model.bin", "adapter_config.json"}
PackageFiles == RunFiles \union AdapterNames \union {"CITATION.cff"}

Report == runDir["diagnostic_report.json"]
Readable(file) == file # None /\ file # Torn

Init ==
    /\ FilesInit
    /\ commands = 0 /\ bin = None /\ gate = None
    /\ runDir = [f \in RunFiles |-> None]
    /\ package = [f \in PackageFiles |-> None]
    /\ meta = None /\ packing = None

\* One more command that leaves the package and the adapter directory alone.
Command ==
    /\ commands < MaxCommands
    /\ commands' = commands + 1
    /\ UNCHANGED <<filesVars, bin, package, meta, packing>>

Saved(file, content) == runDir' = [runDir EXCEPT ![file] = content]

---------------------------------------------------------------------------
(* Diagnostics *)

\* PeftModel.from_pretrained calls the adapter "default".
PeftParameters(params) == {[p EXCEPT !.label = "default"] : p \in params}

\* Details gives [config, configBase, base, suite, baseAnswers, adapterAnswers,
\* gateConfig, params, source, target, hasTarget, force] of a job; gateConfig is
\* what the command line of the gate script asks for.
BaseResults(job) == EvaluateSuite(Details[job].suite, Details[job].baseAnswers)
AdapterResults(job) == EvaluateSuite(Details[job].suite, Details[job].adapterAnswers)

MetadataStatus(job) ==
    MetadataGate(Details[job].config, Details[job].configBase, Details[job].base)

\* What DiagnosticRunner.execute finds out.
Diagnosis(job) ==
    LET d == Details[job]
        q == Metrics(BaseResults(job), AdapterResults(job))
        quality == GenerateVerdict(q, QualityGateConfig)
        feasible == IF d.hasTarget THEN FeasibilityGate(d.source, d.target) ELSE "UNKNOWN"
    IN [metadata |-> MetadataStatus(job),
        quality |-> quality, fixed |-> q.fixed, regressed |-> q.regressed,
        compatibility |-> IF d.hasTarget THEN CompatibilityGate(d.source, d.target)
                          ELSE "UNKNOWN",
        decision |-> FinalizeReleaseDecision(quality, feasible,
                                             Analyze(PeftParameters(d.params)))]

\* A failed metadata gate returns the report before it is saved.  The writer may
\* be killed.
Execute(job) ==
    /\ Command
    /\ \/ /\ MetadataStatus(job) = "FAIL" /\ ~Details[job].force
          /\ UNCHANGED runDir
       \/ /\ MetadataStatus(job) # "FAIL" \/ Details[job].force
          /\ \/ Saved("diagnostic_report.json", 
                      [id |-> commands + 1, job |-> job, found |-> Diagnosis(job)])
             \/ Saved("diagnostic_report.json", Torn)
    /\ UNCHANGED gate

\* diagnose-adapter, and the script that does the same.
RunDiagnose(job) == Execute(job)

\* safe-project diagnoses, and returns if the verdict forbids it to go on.  It
\* passes target_model to a projection that reads target: os.path.isfile(None)
\* raises before anything is written and the evaluation is never reached.
RunSafeProject(job) == Details[job].hasTarget /\ Execute(job)

\* The gate script keeps a comparison by case id, the last result of an id.
LastOf(results, id) ==
    results[CHOOSE i \in DOMAIN results : /\ results[i].id = id
                                          /\ \A j \in DOMAIN results : results[j].id = id => j <= i]

\* Mutant: the two results are taken in the wrong order.
Classification_Swapped(base, adapter, id) ==
    CASE LastOf(base, id).is_correct /\ ~LastOf(adapter, id).is_correct -> "fixed"
      [] LastOf(adapter, id).is_correct /\ ~LastOf(base, id).is_correct -> "regressed"
      [] ~LastOf(base, id).is_correct /\ ~LastOf(adapter, id).is_correct -> "both_failed"
      [] OTHER -> "both_succeeded"

Classification(base, adapter, id) ==
    CASE LastOf(adapter, id).is_correct /\ ~LastOf(base, id).is_correct -> "fixed"
      [] LastOf(base, id).is_correct /\ ~LastOf(adapter, id).is_correct -> "regressed"
      [] ~LastOf(base, id).is_correct /\ ~LastOf(adapter, id).is_correct -> "both_failed"
      [] OTHER -> "both_succeeded"

Judgement(job) ==
    LET base == BaseResults(job)
        adapter == AdapterResults(job)
        q == StabilityMetrics(base, adapter)
    IN [verdict |-> GenerateVerdict(q, Details[job].gateConfig),
        fixed |-> q.fixed, regressed |-> q.regressed,
        comparison |-> [id \in {r.id : r \in ToSet(base)} |-> Classification(base, adapter, id)]]

RunQualityGate(job) ==
    /\ Command
    /\ gate' = [job |-> job, judgement |-> Judgement(job)]
    /\ UNCHANGED runDir

---------------------------------------------------------------------------
(* Adapter directory *)

\* project-adapter, by its promise about the directory.
Project ==
    /\ \/ BeginRun /\ commands < MaxCommands /\ commands' = commands + 1
       \/ (SaveWeights \/ AbandonRun \/ SaveConfig \/ SaveMetadata) /\ UNCHANGED commands
    /\ UNCHANGED <<bin, runDir, gate, package, meta, packing>>

\* PeftExportResult.save_pretrained writes the weights, then the config; it may
\* be killed between them.  Exports are numbered apart from the projections.
SavePretrained ==
    /\ commands < MaxCommands /\ stage = "idle"
    /\ commands' = commands + 1
    /\ bin' = [by |-> -commands', whole |-> TRUE]
    /\ config' \in {-commands', config}
    /\ UNCHANGED <<run, stage, weights, metadata, runDir, gate, package, meta, packing>>

---------------------------------------------------------------------------
(* Documents of the run directory *)

\* evaluate-projected: PEFT needs the config, and takes the safetensors first.
RunEvaluate ==
    /\ config # None /\ (weights # None \/ bin # None)
    /\ Command
    /\ Saved("target_eval_results.json", IF weights # None THEN weights ELSE bin)
    /\ UNCHANGED gate

\* Both documents read the report and, from the evaluation, a key that it never
\* has: their text depends on the report alone.
RunGenerateReport ==
    /\ Readable(Report) /\ Command
    /\ Saved("final_analysis.md", Report.id)
    /\ UNCHANGED gate

RunGenerateModelCard ==
    /\ Readable(Report) /\ Command
    /\ Saved("README.md", Report.id)
    /\ UNCHANGED gate

\* The next commands are given another, empty run directory.
NewRunDir ==
    /\ runDir # [f \in RunFiles |-> None]
    /\ Command
    /\ runDir' = [f \in RunFiles |-> None]
    /\ UNCHANGED gate

---------------------------------------------------------------------------
(* package-release: copies one file after the other, reads the report of   *)
(* the run directory once more, hashes what lies in the package directory, *)
(* writes the metadata.  The fields copied and raced are history: whether  *)
(* the report changed between the two times it is read.                    *)

CopyOrder == <<"adapter_model.safetensors", "adapter_model.bin", "adapter_config.json",
               "diagnostic_report.json", "target_eval_results.json", "final_analysis.md",
               "README.md">>

SourceFile(name) ==
    CASE name = "adapter_model.safetensors" -> weights
      [] name = "adapter_model.bin" -> bin
      [] name = "adapter_config.json" -> config
      [] OTHER -> runDir[name]

RunPackageRelease ==
    /\ packing = None /\ commands < MaxCommands
    /\ commands' = commands + 1
    /\ packing' = [step |-> 1, copied |-> None]
    /\ UNCHANGED <<filesVars, bin, runDir, gate, package, meta>>

CopyFile ==
    /\ packing # None /\ packing.step <= Len(CopyOrder)
    /\ LET name == CopyOrder[packing.step] IN
       package' = IF SourceFile(name) = None THEN package
                  ELSE [package EXCEPT ![name] = SourceFile(name)]
    /\ packing' = [packing EXCEPT
                       !.step = @ + 1,
                       !.copied = IF CopyOrder[packing.step] = "diagnostic_report.json"
                                  THEN Report ELSE @]
    /\ UNCHANGED <<filesVars, commands, bin, runDir, gate, meta>>

\* A torn report cannot be parsed: the command ends.
ReadReport ==
    /\ packing # None /\ packing.step = Len(CopyOrder) + 1
    /\ IF Report = Torn
       THEN packing' = None /\ UNCHANGED package
       ELSE /\ package' = IF Report = None THEN package
                          ELSE [package EXCEPT !["CITATION.cff"] = Report.job]
            /\ packing' = [step |-> packing.step + 1, report |-> Report,
                           raced |-> packing.copied # Report]
    /\ UNCHANGED <<filesVars, commands, bin, runDir, gate, meta>>

\* integrity_hashes holds a hash of every file in the directory: the content.
HashedFiles == [f \in {f \in PackageFiles : package[f] # None} |-> package[f]]

WriteMetadata ==
    /\ packing # None /\ packing.step = Len(CopyOrder) + 2
    /\ meta' = [hashes |-> HashedFiles, report |-> packing.report, raced |-> packing.raced]
    /\ packing' = None
    /\ UNCHANGED <<filesVars, commands, bin, runDir, gate, package>>

\* The process is killed; the file it writes may be left torn.
KillPackaging ==
    /\ packing # None
    /\ packing' = None
    /\ \/ UNCHANGED <<package, meta>>
       \/ /\ packing.step <= Len(CopyOrder) /\ SourceFile(CopyOrder[packing.step]) # None
          /\ package' = [package EXCEPT ![CopyOrder[packing.step]] = Torn]
          /\ UNCHANGED meta
       \/ /\ packing.step = Len(CopyOrder) + 2
          /\ meta' = Torn /\ UNCHANGED package
    /\ UNCHANGED <<filesVars, commands, bin, runDir, gate>>

\* On its way to a user a package loses or damages a file.
Damage ==
    /\ packing = None /\ meta # None /\ commands < MaxCommands
    /\ commands' = commands + 1
    /\ \E f \in {f \in PackageFiles : package[f] # None}, content \in {None, Torn} :
           package' = [package EXCEPT ![f] = content]
    /\ UNCHANGED <<filesVars, bin, runDir, gate, meta, packing>>

VerdictOf(report) == IF report = None THEN None ELSE report.found.decision.verdict

\* Mutant: the verdicts are not compared.
RunPackageValidate_HashesOnly ==
    /\ meta # None /\ meta # Torn
    /\ \A f \in DOMAIN meta.hashes : package[f] # None /\ package[f] = meta.hashes[f]

\* package-validate: TRUE when it ends with "AUTHENTIC AND INTACT".
RunPackageValidate ==
    /\ meta # None /\ meta # Torn
    /\ \A f \in DOMAIN meta.hashes : package[f] # None /\ package[f] = meta.hashes[f]
    /\ package["diagnostic_report.json"] # None =>
           /\ package["diagnostic_report.json"] # Torn
           /\ VerdictOf(package["diagnostic_report.json"]) = VerdictOf(meta.report)

---------------------------------------------------------------------------
Next ==
    \/ \E job \in Jobs : RunDiagnose(job) \/ RunSafeProject(job) \/ RunQualityGate(job)
    \/ Project \/ SavePretrained
    \/ RunEvaluate \/ RunGenerateReport \/ RunGenerateModelCard \/ NewRunDir
    \/ RunPackageRelease \/ CopyFile \/ ReadReport \/ WriteMetadata
    \/ KillPackaging \/ Damage

Spec == Init /\ [][Next]_vars

---------------------------------------------------------------------------
(* Properties *)

\* A package that package-validate accepts and that holds a diagnostic report
\* was published for that report: the verdict, the adapter and the target in its
\* metadata are those of the report, whatever was packaged into the directory
\* before, killed half way or damaged since.  Only a diagnosis that replaces the
\* report between the two times package-release reads it escapes the check.
MetadataDescribesReport ==
    RunPackageValidate /\ ~meta.raced /\ package["diagnostic_report.json"] # None =>
        meta.report = package["diagnostic_report.json"]

\* A report that proposes a projection shows an adapter that fixes more cases
\* than it breaks, for a target whose configuration could be read: so much holds
\* although the metadata gate may only have warned and the delta health gate
\* never finds a pair of a PEFT model (DiagnosticRunner.execute).
CandidatesImprove ==
    Readable(Report) /\ VerdictOf(Report) = "PROJECTION_CANDIDATE" =>
        LET found == Report.found
            d == Details[Report.job]
        IN found.fixed > found.regressed /\ d.hasTarget /\ d.target.readable

\* The case-by-case comparison that the gate script writes supports what it and
\* the runner say in sums: it lists as many cases as fixed and as regressed as
\* the reports of both count, and where the accuracy decides with a positive
\* threshold, whatever the other thresholds, a positive teacher has more fixed
\* than regressed ones.
ComparisonSupportsVerdict ==
    gate # None =>
        LET judged == gate.judgement
            asked == Details[gate.job].gateConfig
            Listed(class) == Cardinality({id \in DOMAIN judged.comparison :
                                              judged.comparison[id] = class})
        IN /\ Listed("fixed") = judged.fixed /\ Listed("regressed") = judged.regressed
           /\ Readable(Report) /\ gate.job = Report.job =>
                  /\ Listed("fixed") = Report.found.fixed
                  /\ Listed("regressed") = Report.found.regressed
           /\ /\ judged.verdict.verdict = "POSITIVE_TEACHER"
              /\ asked.primary_metric = "execution_accuracy" /\ asked.positive > 0
              => Listed("fixed") > Listed("regressed")

=============================================================================
