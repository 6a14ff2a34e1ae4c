-------------------------- MODULE BehaviorTransfer --------------------------
(***************************************************************************)
(* Behaviour transfer by activations (core/ops.py), as a Python session:   *)
(* learn a map between the layers of two models, record what an adapter    *)
(* changes in the source model, carry it over, solve for weights of the    *)
(* target model, export them as a LoRA and validate the files.  A tensor   *)
(* is represented by where its values come from.  A call that raises       *)
(* leaves the session as it was.                                           *)
(***************************************************************************)
EXTENDS NumericCore

CONSTANTS
    Nothing,            \* None
    SourceModules,      \* names of the modules of the source model
    TargetModules,      \* and of the target model
    Prompts,            \* lists of prompts a call may be given
    LayerLists,         \* lists of layer names a call may be given
    Ranks,              \* ranks of an export
    KeyStyles,          \* styles of the keys of an export
    Hidden,             \* width of the hidden states of the target model
    SourceFlat,         \* the modules of the source model whose input is 2D
    TargetFlat,         \* and those of the target model
    TokenCount          \* number of tokens of a prompt

\* An export has a positive rank; None is no record.
ASSUME ExportAssumption ==
    /\ Hidden \in Nat /\ Ranks \subseteq Nat \ {0}
    /\ Nothing \notin [modules : SUBSET TargetModules, rank : Nat, keyStyle : KeyStyles]

VARIABLES
    mapping,        \* AlignmentMap: layer_maps, by key
    delta,          \* BehavioralDelta
    transported,    \* TransportedDelta: layer_deltas
    solution,       \* ActivationAdapterSolution: module_weights
    export,         \* PeftExportResult
    disk,           \* the files of the adapter directory
    saving,         \* the file save_pretrained writes next
    cut,            \* history: the last save_pretrained died between its two files
    wrapped,        \* validate_behavior has put an adapter into the target model
    report          \* status of the last ValidationReport

transferVars == <<mapping, delta, transported, solution, export, disk, saving, cut, wrapped, report>>

TransferInit ==
    /\ mapping = Nothing /\ delta = Nothing /\ transported = Nothing
    /\ solution = Nothing /\ export = Nothing
    /\ disk = [bin |-> Nothing, config |-> Nothing] /\ saving = "no" /\ cut = FALSE
    /\ wrapped = FALSE /\ report = Nothing

\* HookCollector records the modules that exist: the last token of a prompt where
\* the input has three dimensions, every token where it has two.
Collected(modules, layers) == modules \intersect ToSet(layers)

Rows(flat, module, prompts) ==
    IF module \in flat
    THEN SumOf([i \in DOMAIN prompts |-> TokenCount[prompts[i]]])
    ELSE Len(prompts)

---------------------------------------------------------------------------
(* align *)

LayerMap(source, target) == [source |-> source, target |-> target]

\* A map is learnt by ridge regression, which raises when the rows differ.
Learnable(maps, prompts) ==
    \A l \in DOMAIN maps :
        SolveRidge(<<Rows(SourceFlat, maps[l].source, prompts), Hidden>>,
                   <<Rows(TargetFlat, maps[l].target, prompts), Hidden>>) # Error

\* learn_alignment_map pairs the layers of equal name.
LearnAlignmentMap(sources, targets) ==
    [l \in Collected(SourceModules, sources) \intersect Collected(TargetModules, targets) |->
        LayerMap(l, l)]

\* estimate_layer_correspondence: the source layer whose activations resemble a
\* target layer most, which may be any.  The maps are keyed by target layer.
\* (Comparing layers of unequal rows raises too, unless one does not vary.)
Correspondences(sources, targets) ==
    {[t \in Collected(TargetModules, targets) |-> LayerMap(match[t], t)] :
        match \in [Collected(TargetModules, targets) -> Collected(SourceModules, sources)]}

Align(prompts, sources, targets, auto) ==
    /\ saving = "no"
    /\ prompts # <<>> /\ sources # <<>> /\ targets # <<>>
    /\ \/ /\ ~auto /\ Len(sources) = Len(targets)
          /\ DOMAIN LearnAlignmentMap(sources, targets) # {}
          /\ Learnable(LearnAlignmentMap(sources, targets), prompts)
          /\ mapping' = LearnAlignmentMap(sources, targets)
       \/ /\ auto
          /\ \E maps \in Correspondences(sources, targets) :
                 Learnable(maps, prompts) /\ mapping' = maps
    /\ UNCHANGED <<delta, transported, solution, export, disk, saving, cut, wrapped, report>>

---------------------------------------------------------------------------
(* extract_behavior_delta, transport_delta *)

ExtractBehaviorDelta(prompts, layers) ==
    /\ saving = "no"
    /\ prompts # <<>> /\ layers # <<>> /\ ToSet(layers) \subseteq SourceModules
    /\ delta' = [prompts |-> prompts, layers |-> ToSet(layers)]
    /\ UNCHANGED <<mapping, transported, solution, export, disk, saving, cut, wrapped, report>>

\* Layers without a map are left out; the map is looked up by the name of the
\* delta's layer whatever its keys mean.  The result is keyed by that name.
TransportDelta ==
    /\ saving = "no" /\ delta # Nothing /\ mapping # Nothing
    /\ transported' = [l \in delta.layers \intersect DOMAIN mapping |->
                          [layer |-> l, map |-> mapping[l],
                           rows |-> Rows(SourceFlat, l, delta.prompts)]]
    /\ UNCHANGED <<mapping, delta, solution, export, disk, saving, cut, wrapped, report>>

---------------------------------------------------------------------------
(* solve_activation_adapter: module_to_delta_layer is the identity or sends *)
(* every module to one layer.  A module without a delta is left out; with   *)
(* strict it raises.                                                        *)

SolveActivationAdapter(prompts, modules, keyOf) ==
    LET ready == {m \in Collected(TargetModules, modules) : keyOf[m] \in DOMAIN transported}
    IN
    /\ saving = "no" /\ transported # Nothing
    /\ prompts # <<>> /\ modules # <<>>
    /\ \A m \in ready : SolveRidge(<<Rows(TargetFlat, m, prompts), Hidden>>,
                                   <<transported[keyOf[m]].rows, Hidden>>) # Error
    /\ solution' = [m \in ready |-> [delta |-> transported[keyOf[m]], clean |-> ~wrapped]]
    /\ UNCHANGED <<mapping, delta, transported, export, disk, saving, cut, wrapped, report>>

---------------------------------------------------------------------------
(* export_lora and PeftExportResult.save_pretrained *)

\* The configuration has the rank that was asked for, the matrices the one the
\* decomposition yields.
ExportLora(rank, keyStyle) ==
    /\ saving = "no" /\ solution # Nothing /\ DOMAIN solution # {}
    /\ export' = [weights |-> solution, keyStyle |-> keyStyle, r |-> rank,
                  rank |-> LowRankDecomposeForPeft(<<Hidden, Hidden>>, rank)[1][1]]
    /\ UNCHANGED <<mapping, delta, transported, solution, disk, saving, cut, wrapped, report>>

SaveAdapterWeights ==
    /\ saving = "no" /\ export # Nothing
    /\ disk' = [disk EXCEPT !.bin = [modules |-> DOMAIN export.weights, rank |-> export.rank,
                                     keyStyle |-> export.keyStyle]]
    /\ saving' = "config"
    /\ UNCHANGED <<mapping, delta, transported, solution, export, cut, wrapped, report>>

\* Mutant: the modules of the configuration are those solved last.
SaveAdapterConfig_FromSolution ==
    /\ saving = "config"
    /\ disk' = [disk EXCEPT !.config = [modules |-> DOMAIN solution, r |-> export.r]]
    /\ saving' = "no" /\ cut' = FALSE
    /\ UNCHANGED <<mapping, delta, transported, solution, export, wrapped, report>>

SaveAdapterConfig ==
    /\ saving = "config"
    /\ disk' = [disk EXCEPT !.config = [modules |-> DOMAIN export.weights, r |-> export.r]]
    /\ saving' = "no" /\ cut' = FALSE
    /\ UNCHANGED <<mapping, delta, transported, solution, export, wrapped, report>>

\* The process dies, now or between the two files; the next one starts anew.
Restart ==
    /\ export # Nothing
    /\ mapping' = Nothing /\ delta' = Nothing /\ transported' = Nothing
    /\ solution' = Nothing /\ export' = Nothing /\ saving' = "no"
    /\ wrapped' = FALSE /\ report' = Nothing
    /\ cut' = (cut \/ saving = "config")
    /\ UNCHANGED disk

---------------------------------------------------------------------------
(* validate_behavior *)

\* PEFT puts modules of the configured rank into the model and then loads the
\* weights: a matrix of another rank raises, an unknown key is ignored.
Loads == disk.bin # Nothing /\ disk.bin.rank = disk.config.r
Active == Loads /\ disk.bin.keyStyle = "peft_default"
                /\ disk.bin.modules \intersect disk.config.modules # {}

ValidateBehavior ==
    /\ saving = "no"
    /\ IF disk.config = Nothing
       THEN report' = "FAIL" /\ UNCHANGED wrapped
       ELSE /\ wrapped' = TRUE
            /\ \/ ~Loads /\ report' = "FAIL"
               \/ Loads /\ ~Active /\ report' \in {"FAIL", "WARNING"}
               \/ Active /\ report' \in {"FAIL", "WARNING", "PASS"}
    /\ UNCHANGED <<mapping, delta, transported, solution, export, disk, saving, cut>>

---------------------------------------------------------------------------
KeyMaps == {[m \in TargetModules |-> m]} \union
           {[m \in TargetModules |-> l] : l \in TargetModules}

TransferNext ==
    \/ \E prompts \in Prompts, sources, targets \in LayerLists, auto \in BOOLEAN :
           Align(prompts, sources, targets, auto)
    \/ \E prompts \in Prompts, layers \in LayerLists : ExtractBehaviorDelta(prompts, layers)
    \/ TransportDelta
    \/ \E prompts \in Prompts, modules \in LayerLists, keyOf \in KeyMaps :
           SolveActivationAdapter(prompts, modules, keyOf)
    \/ \E rank \in Ranks, keyStyle \in KeyStyles :
           ExportLora(rank, keyStyle)
    \/ SaveAdapterWeights \/ SaveAdapterConfig \/ Restart
    \/ ValidateBehavior

TransferSpec == TransferInit /\ [][TransferNext]_transferVars

---------------------------------------------------------------------------
\* Unless the last save died between its two files, the files of the adapter
\* directory are of one export: both name the same modules, whatever was solved,
\* exported and validated since, and PEFT loads them exactly when the rank that
\* was asked for does not exceed the width of the model: a larger one is cut in
\* the weights and not in the configuration (export_lora, save_pretrained).
SavedFilesAgree ==
    saving = "no" /\ ~cut /\ disk.config # Nothing =>
        /\ disk.bin # Nothing /\ disk.bin.modules = disk.config.modules
        /\ Loads <=> disk.config.r <= Hidden

=============================================================================
