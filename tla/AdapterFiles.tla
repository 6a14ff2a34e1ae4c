---------------------------- MODULE AdapterFiles ----------------------------
(***************************************************************************)
(* What the projection of an adapter promises about its output directory.  *)
(* The three files are replaced one after the other by numbered runs; a    *)
(* run may end early, by an exception or because the process dies, and     *)
(* leaves the files it did not reach as an earlier run wrote them.         *)
(* AdapterProjection implements it; TransferPipeline is built on it.       *)
(***************************************************************************)
EXTENDS Naturals

CONSTANTS None,         \* no file, no run
          MaxRuns       \* bound on the runs

VARIABLES
    run,        \* number of the last run
    stage,      \* what the run has done: "idle", "running", "closed", "configured"
    weights,    \* adapter_model.safetensors: the run that wrote it and whether
                \* that run had projected every layer by then
    config,     \* adapter_config.json: the run that wrote it
    metadata    \* projection_metadata.json: the run that wrote it

filesVars == <<run, stage, weights, config, metadata>>

FilesInit ==
    /\ run = 0
    /\ stage = "idle"
    /\ weights = None /\ config = None /\ metadata = None

BeginRun ==
    /\ stage = "idle" /\ run < MaxRuns
    /\ run' = run + 1
    /\ stage' = "running"
    /\ UNCHANGED <<weights, config, metadata>>

\* The writer is closed with every layer projected; a run that had nothing to
\* write, or wrote shards, leaves the old weights.
SaveWeights ==
    /\ stage = "running"
    /\ stage' = "closed"
    /\ weights' \in {[by |-> run, whole |-> TRUE], weights}
    /\ UNCHANGED <<run, config, metadata>>

\* A run whose projection raised still closes its writer.
AbandonRun ==
    /\ stage # "idle"
    /\ stage' = "idle"
    /\ \/ UNCHANGED weights
       \/ stage = "running" /\ weights' = [by |-> run, whole |-> FALSE]
    /\ UNCHANGED <<run, config, metadata>>

SaveConfig ==
    /\ stage = "closed"
    /\ stage' = "configured"
    /\ config' = run
    /\ UNCHANGED <<run, weights, metadata>>

SaveMetadata ==
    /\ stage = "configured"
    /\ stage' = "idle"
    /\ metadata' = run
    /\ UNCHANGED <<run, weights, config>>

FilesNext == BeginRun \/ SaveWeights \/ AbandonRun \/ SaveConfig \/ SaveMetadata

FilesSpec == FilesInit /\ [][FilesNext]_filesVars

=============================================================================
