-------------------------- MODULE ProjectionShapes --------------------------
(***************************************************************************)
(* core/adapters.py and the helpers of port_lora in cli/main.py: which     *)
(* adapter is chosen, which tensors of a LoRA are kept, and what the       *)
(* structural projection does to the shape of a tensor and to its scale.   *)
(* A tensor is its shape; alphas and scales are integers (thousandths for  *)
(* the adaptive scale).                                                    *)
(***************************************************************************)
EXTENDS Integers, Sequences

CONSTANT Absent     \* None, or a file or an attribute that is not there

Kv == {"k_proj", "v_proj"}
GateUp == {"gate_proj", "up_proj"}
Mlp == GateUp \cup {"down_proj"}
StandardModules == {"q_proj", "o_proj"} \cup Kv \cup Mlp

AnyLayer == -1

-----------------------------------------------------------------------------
(* What is known of a model.                                               *)

\* Sizes read from the configuration, or guessed from the name: hint is the
\* family that the name spells, if any.
GetModelInfo(model) ==
    IF model.config # Absent THEN model.config.info
    ELSE CASE model.hint = "sdxl" ->
                 [hidden |-> 2048, heads |-> 32, inter |-> 2048, kvHeads |-> 32]
           [] model.hint = "qwen-0.5b" ->
                 [hidden |-> 896, heads |-> 14, inter |-> 4864, kvHeads |-> 2]
           [] model.hint = "qwen-1.5b" ->
                 [hidden |-> 1536, heads |-> 12, inter |-> 8960, kvHeads |-> 2]
           [] model.hint = "qwen-7b" ->
                 [hidden |-> 3584, heads |-> 28, inter |-> 18944, kvHeads |-> 4]
           [] OTHER ->
                 [hidden |-> 4096, heads |-> 32, inter |-> 14336, kvHeads |-> 8]

\* The configuration first, then the keys of a single file, then the name.
DetectArchitecture(model) ==
    CASE model.config # Absent /\ model.config.type \in {"llama", "mistral", "gemma"} -> "llama"
      [] model.config # Absent /\ model.config.type \in {"qwen", "sdxl"} -> model.config.type
      [] OTHER -> IF model.fileKeys # Absent THEN model.fileKeys
                  ELSE IF model.hint = "sdxl" THEN "sdxl"
                  ELSE IF model.hint \in {"qwen-0.5b", "qwen-1.5b", "qwen-7b"} THEN "qwen"
                  ELSE "llama"

LlmArchitectures == {"llama", "qwen", "mistral", "gemma"}

\* Anything but a language model goes through unchanged.
GetAdapter(sourceArch, targetArch) ==
    IF {sourceArch, targetArch} \subseteq LlmArchitectures THEN "structural" ELSE "passthrough"

KvHidden(info) == info.kvHeads * (info.hidden \div info.heads)

InFeatures(info, module) ==
    IF module = "down_proj" THEN info.inter ELSE info.hidden

OutFeatures(info, module) ==
    CASE module \in Kv -> KvHidden(info)
      [] module \in GateUp -> info.inter
      [] OTHER -> info.hidden

-----------------------------------------------------------------------------
(* Shapes.                                                                 *)

AtMost(a, b) == IF a < b THEN a ELSE b

\* A dimension of n entries that is believed to have src: cut to tgt, or
\* padded by the difference.
ProjectDim(n, src, tgt) ==
    IF src > tgt THEN AtMost(n, tgt) ELSE n + (tgt - src)

\* Mutant: the B sides of all attention modules have the hidden size.
LegacyShape_HiddenForKv(shape, module, side, source, target, rank) ==
    LET features(info) == IF module \in Mlp THEN OutFeatures(info, module) ELSE info.hidden
    IN  IF side = "A"
          THEN [rows |-> rank,
                cols |-> ProjectDim(shape.cols, InFeatures(source, module),
                                                InFeatures(target, module))]
          ELSE [rows |-> ProjectDim(shape.rows, features(source), features(target)),
                cols |-> rank]

\* _legacy_project: the feature dimension, then the rank.
LegacyShape(shape, module, side, source, target, rank) ==
    IF side = "A"
      THEN [rows |-> rank,
            cols |-> ProjectDim(shape.cols, InFeatures(source, module), InFeatures(target, module))]
      ELSE [rows |-> ProjectDim(shape.rows, OutFeatures(source, module),
                                            OutFeatures(target, module)),
            cols |-> rank]

\* The delta B @ A of a pair is cut in both dimensions as soon as one of them
\* is too large, and padded only when none is.
ResizeDelta(rows, cols, tgtRows, tgtCols) ==
    IF rows > tgtRows \/ cols > tgtCols
      THEN [rows |-> AtMost(rows, tgtRows), cols |-> AtMost(cols, tgtCols)]
      ELSE [rows |-> tgtRows, cols |-> tgtCols]

\* factorize_to_lora: there are no more singular values than rows or columns.
FactorizeToLora(delta, rank) ==
    LET r == AtMost(rank, AtMost(delta.rows, delta.cols))
    IN  [A |-> [rows |-> r, cols |-> delta.cols], B |-> [rows |-> delta.rows, cols |-> r]]

PiecewiseShapes(shapeA, shapeB, module, target, rank) ==
    FactorizeToLora(
        ResizeDelta(shapeB.rows, shapeA.cols,
                    OutFeatures(target, module), InFeatures(target, module)),
        rank)

-----------------------------------------------------------------------------
(* Scales.                                                                 *)

\* In thousandths: the factors of a concentrated, a low-entropy and an
\* outlying delta, clamped.
GetAdaptiveScale(health, layer) ==
    IF health = Absent THEN 1000
    ELSE LET factors == <<IF health.verdict = "MODERATELY_CONCENTRATED" THEN 9 ELSE 10,
                          IF health.lowEntropy THEN 8 ELSE 10,
                          IF layer \in health.outliers THEN 7 ELSE 10>>
             product == factors[1] * factors[2] * factors[3]
         IN  IF product < 200 THEN 200 ELSE product

\* --module-alpha-map: items up to the first that does not parse; a later
\* item overrides an earlier one.
ParseAlphaMap(items) ==
    LET bad == {i \in DOMAIN items : items[i] = Absent}
        good == {i \in DOMAIN items : \A j \in bad : i < j}
        keys == UNION {{<<items[i].module, l>> : l \in items[i].layers} : i \in good}
        Last(key) == CHOOSE i \in good :
                        /\ items[i].module = key[1] /\ key[2] \in items[i].layers
                        /\ \A j \in good : items[j].module = key[1] /\ key[2] \in items[j].layers
                                               => j <= i
    IN  [key \in keys |-> items[Last(key)].alpha]

\* The alpha of a module in a layer: the layer's own, the module's, or none.
TargetAlpha(alphaMap, module, layer) ==
    CASE <<module, layer>> \in DOMAIN alphaMap -> alphaMap[<<module, layer>>]
      [] <<module, layer>> \notin DOMAIN alphaMap /\ <<module, AnyLayer>> \in DOMAIN alphaMap
            -> alphaMap[<<module, AnyLayer>>]
      [] OTHER -> Absent

\* Only a module-wide alpha of 0 drops the tensors.
ShouldIncludeKey(module, include, alphaMap) ==
    /\ include # Absent => module \in include
    /\ <<module, AnyLayer>> \in DOMAIN alphaMap => alphaMap[<<module, AnyLayer>>] > 0

=============================================================================
