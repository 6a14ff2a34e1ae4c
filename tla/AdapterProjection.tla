-------------------------- MODULE AdapterProjection -------------------------
(***************************************************************************)
(* port_lora (cli/main.py) with the adapters of core/adapters.py and the   *)
(* writers of io/: one command after the other reads the tensors of a LoRA *)
(* in the order of its file, projects each of them, or a pair of them that *)
(* it has collected in _pair_buffer, and hands the results to an           *)
(* incremental writer.  When streaming raises, the same adapter and the    *)
(* same writer start over with all tensors at once.                        *)
(*                                                                         *)
(* A key is a record of module, layer and side (lora_A, lora_B), a tensor  *)
(* its key and shape, a pair the module and the layer.                     *)
(***************************************************************************)
EXTENDS ProjectionShapes, FiniteSets, TLC, SequencesExt

CONSTANTS Arguments,    \* the command lines
          Formats,      \* formats of the output: "safetensors", "awq", "gguf"
          MaxShard,     \* bound on the tensors of a shard (max_shard_size)
          MaxPorts      \* bound on the commands

Pair(key) == <<key.module, key.layer>>
Side(key, side) == [key EXCEPT !.side = side]
Mate(key) == Side(key, IF key.side = "A" THEN "B" ELSE "A")

IsKey(key) ==
    /\ key = [module |-> key.module, layer |-> key.layer, side |-> key.side]
    /\ key.side \in {"A", "B"}
Sizes == [hidden : Nat, heads : Nat \ {0}, inter : Nat, kvHeads : Nat]

\* A file names each tensor once and holds both sides of its pairs; models
\* have sizes.
ASSUME PortAssumption ==
    \A a \in Arguments :
        /\ a.source.keys \in Seq(Range(a.source.keys))
        /\ \A i \in DOMAIN a.source.keys : IsKey(a.source.keys[i])
        /\ \A i, j \in DOMAIN a.source.keys : a.source.keys[i] = a.source.keys[j] => i = j
        /\ \A i \in DOMAIN a.source.keys : \E j \in DOMAIN a.source.keys :
              a.source.keys[j] = Mate(a.source.keys[i])
        /\ a.source.info \in Sizes
        /\ a.target # Absent => GetModelInfo(a.target) \in Sizes
        /\ a.maxLayers \in Nat \cup {Absent}

VARIABLES
    portRun,    \* number of the command
    portStage,  \* "idle", "source", "detect", "stream", "load", "legacy",
                \* "dummy", "raised", "closed", "configured"
    args,       \* its arguments
    pending,    \* the tensors that are still to be read
    adapter,    \* _pair_buffer and _piecewise_counter
    writer,     \* the open shard and the number of shards that were flushed
    written,    \* the newest result handed to the writer for each key
    warned,     \* the pairs that finalize reported
    format,     \* the format of the output, the same for all commands
    files       \* the output directory

portVars == <<portRun, portStage, args, pending, adapter, writer, written, warned, format, files>>

SourceInfo == GetModelInfo(args.sourceBase)
TargetInfo == GetModelInfo(args.target)
Structural ==
    GetAdapter(DetectArchitecture(args.sourceBase), DetectArchitecture(args.target))
        = "structural"
AlphaMap == ParseAlphaMap(args.alphaItems)

\* The shape of a tensor in the source file.
SourceShape(key) ==
    IF key.side = "A"
      THEN [rows |-> args.source.rank, cols |-> InFeatures(args.source.info, key.module)]
      ELSE [rows |-> OutFeatures(args.source.info, key.module), cols |-> args.source.rank]

\* The tensors of the source file, in its order.
SourceTensors ==
    [i \in DOMAIN args.source.keys |->
        [key |-> args.source.keys[i], shape |-> SourceShape(args.source.keys[i])]]

\* The simulated state dict of --allow-dummy-fallback.
DummyTensors ==
    LET key == [module |-> "q_proj", layer |-> 0, side |-> "A"]
    IN  <<[key |-> key, shape |-> [rows |-> 16, cols |-> SourceInfo.hidden]],
          [key |-> Mate(key), shape |-> [rows |-> SourceInfo.hidden, cols |-> 16]]>>

-----------------------------------------------------------------------------
(* The adapter.                                                            *)

NewAdapter == [buffer |-> {}, counter |-> 0]

UsePiecewise(key) ==
    /\ args.mode = "piecewise" /\ key.module \in Mlp
    /\ args.piecewiseModules # Absent => key.module \in args.piecewiseModules
    /\ args.piecewiseLayers # Absent => key.layer \in args.piecewiseLayers
    /\ args.maxLayers # Absent => adapter.counter < args.maxLayers

\* apply_module_alpha_scaling reaches only the B side.  The adaptive scale is
\* applied to each linear tensor, and to a piecewise pair as a whole.
Result(key, shape, how) ==
    LET target == TargetAlpha(AlphaMap, key.module, key.layer)
    IN  [key |-> key, shape |-> shape, how |-> how,
         scale |-> IF how = "same" THEN 1000 ELSE GetAdaptiveScale(args.health, key.layer),
         alpha |-> IF key.side = "B" /\ target # Absent THEN target ELSE args.alpha]

LinearResult(tensor) ==
    Result(tensor.key,
           LegacyShape(tensor.shape, tensor.key.module, tensor.key.side,
                       SourceInfo, TargetInfo, args.rank),
           "linear")

\* Both sides of a pair whose second side has come.
PairResults(key) ==
    LET a == Side(key, "A")
        b == Side(key, "B")
        new == PiecewiseShapes(SourceShape(a), SourceShape(b), key.module, TargetInfo,
                               args.rank)
    IN  <<Result(a, new.A, "piecewise"), Result(b, new.B, "piecewise")>>

\* project_tensor: the adapter afterwards and the results to be written, none
\* for the first side of a piecewise pair.
ProjectTensor(tensor) ==
    LET key == tensor.key
    IN  IF ~Structural
          THEN [adapter |-> adapter, results |-> <<Result(key, tensor.shape, "same")>>]
        ELSE IF ~UsePiecewise(key)
          THEN [adapter |-> adapter, results |-> <<LinearResult(tensor)>>]
        ELSE IF Mate(key) \in adapter.buffer
          THEN [adapter |-> [buffer |-> adapter.buffer \ {key, Mate(key)},
                             counter |-> adapter.counter + 1],
                results |-> PairResults(key)]
          ELSE [adapter |-> [adapter EXCEPT !.buffer = @ \cup {key}], results |-> <<>>]

-----------------------------------------------------------------------------
(* The writers.                                                            *)

NewWriter == [shard |-> {}, count |-> 0]

\* safetensors flushes a shard that has grown too large.
WriteSafetensors(w, key) ==
    IF Cardinality(w.shard \cup {key}) > MaxShard
      THEN [shard |-> {}, count |-> w.count + 1]
      ELSE [w EXCEPT !.shard = @ \cup {key}]

\* AWQ keeps all tensors to the end; the command gives it no calibration data,
\* without which it packs nothing.
WriteAwq(w, key) == [w EXCEPT !.shard = @ \cup {key}]

\* GGUF hands every tensor, quantised, to the library's writer.
WriteGguf(w, key) == [w EXCEPT !.shard = @ \cup {key}]

WriteLayer(w, result) ==
    CASE format = "safetensors" -> WriteSafetensors(w, result.key)
      [] format = "awq" -> WriteAwq(w, result.key)
      [] format = "gguf" -> WriteGguf(w, result.key)

\* The gguf library refuses a name that was added before.
Refused(results) ==
    format = "gguf" /\ \E i \in DOMAIN results : results[i].key \in writer.shard

\* close_writer: one file when nothing was flushed, else a last shard and no
\* adapter_model.safetensors; safetensors writes no empty file.
FilesClosed(whole) ==
    IF writer.count = 0 /\ (writer.shard # {} \/ format # "safetensors")
      THEN [files EXCEPT !.weights = [by |-> portRun, whole |-> whole]]
      ELSE files

-----------------------------------------------------------------------------
(* port_lora.                                                              *)

NoConfig == [by |-> Absent, r |-> Absent, modules |-> {}]

PortInit ==
    /\ portRun = 0 /\ portStage = "idle" /\ args = Absent /\ pending = <<>>
    /\ adapter = NewAdapter /\ writer = NewWriter /\ written = <<>> /\ warned = {}
    /\ format \in Formats
    /\ files = [weights |-> Absent, config |-> NoConfig, metadata |-> Absent]

PortLora(a) ==
    /\ portStage = "idle" /\ portRun < MaxPorts
    /\ portRun' = portRun + 1 /\ portStage' = "source" /\ args' = a /\ pending' = <<>>
    /\ adapter' = NewAdapter /\ writer' = NewWriter /\ written' = <<>> /\ warned' = {}
    /\ UNCHANGED <<format, files>>

\* An exception before the writer is open or after it is closed, or the
\* death of the process.
Abandon ==
    /\ portStage # "idle"
    /\ portStage' = "idle"
    /\ UNCHANGED <<portRun, args, pending, adapter, writer, written, warned, format, files>>

\* A path that does not exist may name a repository that can be downloaded.
ResolveSource ==
    /\ portStage = "source" /\ args.source.place # "nowhere"
    /\ portStage' = "detect"
    /\ UNCHANGED <<portRun, args, pending, adapter, writer, written, warned, format, files>>

\* os.path.isfile(None) raises: without a target the command ends here.
OpenWriter ==
    /\ portStage = "detect" /\ args.target # Absent
    /\ portStage' = "stream" /\ pending' = SourceTensors
    /\ UNCHANGED <<portRun, args, adapter, writer, written, warned, format, files>>

\* Streaming needs a file that can be read; the second loop has its tensors.
InLoop ==
    \/ portStage \in {"legacy", "dummy"}
    \/ portStage = "stream" /\ args.source.place # "unreadable"

\* The newest results for each key, after some for keys of their own.
Merge(map, results) ==
    LET keys == {results[i].key : i \in DOMAIN results}
    IN  [key \in DOMAIN map \cup keys |->
            IF key \in keys THEN results[CHOOSE i \in DOMAIN results : results[i].key = key]
                            ELSE map[key]]

\* One tensor in either of the two loops.
ProcessLayer ==
    /\ InLoop /\ pending # <<>>
    /\ LET tensor == Head(pending)
           projected == ProjectTensor(tensor)
       IN  IF ShouldIncludeKey(tensor.key.module, args.include, AlphaMap)
             THEN /\ ~Refused(projected.results)
                  /\ adapter' = projected.adapter
                  /\ writer' = FoldLeft(WriteLayer, writer, projected.results)
                  /\ written' = Merge(written, projected.results)
             ELSE UNCHANGED <<adapter, writer, written>>
    /\ pending' = Tail(pending)
    /\ UNCHANGED <<portRun, portStage, args, warned, format, files>>

\* Reading a tensor, projecting or writing it raises in the first loop, or the
\* end of the file does: the exception is caught, what was buffered and written
\* stays.
StreamingFails ==
    /\ portStage = "stream"
    /\ portStage' = "load"
    /\ UNCHANGED <<portRun, args, pending, adapter, writer, written, warned, format, files>>

\* The second side of a piecewise pair has come, and projecting the pair or
\* writing one of its two results raises: the pair is already counted and out of
\* the buffer, and its first result may be written.  Only the first loop catches
\* the exception.
PairFails ==
    /\ InLoop /\ pending # <<>>
    /\ LET key == Head(pending).key
           projected == ProjectTensor(Head(pending))
           first == <<projected.results[1]>>
       IN  /\ ShouldIncludeKey(key.module, args.include, AlphaMap)
           /\ Structural /\ UsePiecewise(key) /\ Mate(key) \in adapter.buffer
           /\ adapter' = projected.adapter
           /\ \/ UNCHANGED <<writer, written>>
              \/ /\ ~Refused(first)
                 /\ writer' = WriteLayer(writer, projected.results[1])
                 /\ written' = Merge(written, first)
    /\ portStage' = IF portStage = "stream" THEN "load" ELSE "raised"
    /\ UNCHANGED <<portRun, args, pending, warned, format, files>>

LoadAll ==
    /\ portStage = "load"
    /\ \/ /\ args.source.place # "unreadable"
          /\ portStage' = "legacy" /\ pending' = SourceTensors
       \/ /\ args.allowDummy
          /\ portStage' = "dummy" /\ pending' = DummyTensors
    /\ UNCHANGED <<portRun, args, adapter, writer, written, warned, format, files>>

\* Nothing catches an exception of the second loop or of loading, or an
\* interrupt by the user, but the writer is closed all the same.
LoopsEndEarly ==
    /\ portStage \in {"stream", "load", "legacy", "dummy", "raised"}
    /\ portStage' = "idle" /\ files' = FilesClosed(FALSE)
    /\ UNCHANGED <<portRun, args, pending, adapter, writer, written, warned, format>>

\* Mutant: only pairs whose B side is missing are reported.
FinishLayers_ReportsA ==
    /\ InLoop /\ pending = <<>>
    /\ warned' = {Pair(key) : key \in {k \in adapter.buffer : k.side = "B"}}
    /\ portStage' = "closed" /\ files' = FilesClosed(TRUE)
    /\ UNCHANGED <<portRun, args, pending, adapter, writer, written, format>>

\* finalize reports what is left in the buffer, then the writer is closed.
FinishLayers ==
    /\ InLoop /\ pending = <<>>
    /\ warned' = {Pair(key) : key \in adapter.buffer}
    /\ portStage' = "closed" /\ files' = FilesClosed(TRUE)
    /\ UNCHANGED <<portRun, args, pending, adapter, writer, written, format>>

\* The rank of the configuration is that of the command line.
WriteConfig ==
    /\ portStage = "closed"
    /\ portStage' = "configured"
    /\ LET projected == {key.module : key \in DOMAIN written}
       IN  files' = [files EXCEPT !.config =
                [by |-> portRun, r |-> args.rank,
                 modules |-> IF projected = {} THEN StandardModules ELSE projected]]
    /\ UNCHANGED <<portRun, args, pending, adapter, writer, written, warned, format>>

\* Mutant: the metadata does not wait for the configuration.
WriteProjectionMetadata_First ==
    /\ portStage \in {"closed", "configured"}
    /\ portStage' = "idle" /\ files' = [files EXCEPT !.metadata = portRun]
    /\ UNCHANGED <<portRun, args, pending, adapter, writer, written, warned, format>>

WriteProjectionMetadata ==
    /\ portStage = "configured"
    /\ portStage' = "idle" /\ files' = [files EXCEPT !.metadata = portRun]
    /\ UNCHANGED <<portRun, args, pending, adapter, writer, written, warned, format>>

PortNext ==
    \/ \E a \in Arguments : PortLora(a)
    \/ ResolveSource \/ OpenWriter \/ ProcessLayer \/ StreamingFails \/ PairFails
    \/ LoadAll \/ LoopsEndEarly \/ FinishLayers \/ WriteConfig \/ WriteProjectionMetadata \/ Abandon

PortSpec == PortInit /\ [][PortNext]_portVars

-----------------------------------------------------------------------------
(* Properties.                                                             *)

\* Both sides were written, projected in the same way and to the same rank.
Whole(pair) ==
    LET key(side) == [module |-> pair[1], layer |-> pair[2], side |-> side]
    IN  /\ {key("A"), key("B")} \subseteq DOMAIN written
        /\ written[key("A")].how = written[key("B")].how
        /\ written[key("A")].shape.rows = written[key("B")].shape.cols

\* When a command ends well, each pair of tensors it was asked to project has
\* been written whole, or finalize has reported that it was skipped: neither
\* the limit on piecewise layers nor starting over after a failure separates
\* the sides of a pair in silence (project_tensor, finalize, port_lora).
SkippedPairsAreReported ==
    [][portStage' = "closed" /\ portStage \in {"stream", "legacy"} =>
          \A key \in Range(args.source.keys) :
             ShouldIncludeKey(key.module, args.include, AlphaMap)
                => Whole(Pair(key)) \/ Pair(key) \in warned']_portVars

\* The features of a module in the target that a result must have.
TargetFeatures(key) ==
    IF key.side = "A" THEN InFeatures(TargetInfo, key.module)
                      ELSE OutFeatures(TargetInfo, key.module)

\* One dimension of the module is larger in the target, the other smaller.
MixedResize(module) ==
    LET source == args.source.info
        out == OutFeatures(TargetInfo, module) - OutFeatures(source, module)
        in == InFeatures(TargetInfo, module) - InFeatures(source, module)
    IN  out * in < 0

\* What was written fits the target model, in both loops and in both modes,
\* provided that the sizes taken for the source are its real ones, and that
\* no piecewise module grows in one dimension and shrinks in the other
\* (_legacy_project, project_tensor).
ResultsFitTarget ==
    \A key \in DOMAIN written :
        LET result == written[key]
            fits == (IF key.side = "A" THEN result.shape.cols ELSE result.shape.rows)
                        = TargetFeatures(key)
        IN  CASE result.how = "linear" ->
                   SourceInfo = args.source.info => fits
              [] result.how = "piecewise" -> ~MixedResize(key.module) => fits
              [] OTHER -> ~Structural

\* The command changes its output directory as AdapterFiles says: weights of
\* a run before its configuration, that before the metadata, and only an
\* ended loop leads there; whatever is left of a failed or killed run is told
\* apart from a complete one only by what AdapterFiles records (port_lora).
Directory == INSTANCE AdapterFiles WITH
    None <- Absent,
    MaxRuns <- MaxPorts,
    run <- portRun,
    stage <- CASE portStage \in {"idle", "closed", "configured"} -> portStage
               [] OTHER -> "running",
    weights <- files.weights,
    config <- files.config.by,
    metadata <- files.metadata
ImplementsAdapterFiles == Directory!FilesSpec

=============================================================================
