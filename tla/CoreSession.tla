----------------------------- MODULE CoreSession ----------------------------
(***************************************************************************)
(* A Python session with the parts of the package that are used as a       *)
(* library: calls of the numeric functions, the prototypes of the vLLM     *)
(* integration, the steps of a behaviour transfer, or threads that call    *)
(* the VRAM hot-swap API.  They share no state, so a session uses one of   *)
(* them; a numeric function keeps no state at all, so that one call is     *)
(* enough.                                                                 *)
(***************************************************************************)
EXTENDS BehaviorTransfer, VllmPrototype, VramHotSwap

CONSTANTS Vectors,      \* task vectors
          Blocks,       \* blocks or rows of weights with their grain, see QuantizeQ8
          Ratios,       \* fractions <<num, den>>
          Plans,        \* transport plans, source heads by target heads
          Costs,        \* cost matrices of the same form
          Sizes,        \* ranks, dimensions and numbers of heads
          Sigmas,       \* largest singular values that successive blocks add
          Modules,      \* modules as the alpha recommender sees them
          NormRatios,   \* their ratios of norms
          Texts,        \* answers of a model, see ExtractSql
          MaxCalls      \* bound on the steps of the transfer

VARIABLES part,         \* the part of the package that the session uses
          call,         \* a numeric call that was the last step: its name, arguments, result
          taken         \* number of transfer steps so far

vars == <<transferVars, protoVars, hotVars, part, call, taken>>

Init ==
    /\ TransferInit /\ ProtoInit /\ HotInit
    /\ part \in {"transfer", "prototypes", "hot_swap", "numeric"}
    /\ call = Nothing
    /\ taken = 0

Called(name, args, result) ==
    /\ call' = [name |-> name, args |-> args, result |-> result]
    /\ UNCHANGED <<transferVars, protoVars, hotVars, part, taken>>

SparsityCall ==
    \E v \in Vectors, ratio \in Ratios :
        \/ Called("trim", <<v, ratio>>, CreateSparseTaskVector(v, ratio[1], ratio[2]))
        \/ Called("preserve", <<v, ratio>>,
                  AdaptiveVariancePreservingSparsity(v, ratio[1], ratio[2]))

RoutingCall ==
    \E plan \in Plans, cost \in Costs :
        Called("route", <<plan, cost>>, WassersteinDiscreteRouting(plan, cost, 1, 10))

DecompositionCall ==
    \/ \E components, rank \in Sizes :
           Called("bands", <<components, rank>>, PiecewiseBands(components, rank))
    \/ \E rows, block \in Sizes, sigmas \in Sigmas, ratio \in Ratios :
           Called("rsvd", <<rows, block, sigmas, ratio>>,
                  AdaptiveRsvdBootstrap(rows, block, sigmas, ratio[1], ratio[2]))

ShapeCall ==
    \/ \E rows, heads, dim, target \in Sizes :
           Called("pool", <<rows, heads, dim, target>>,
                  SoftRoutingHeadPooling(rows, heads, dim, target))
    \/ \E a, b \in Sizes \X Sizes, heads \in Sizes :
           Called("procrustes", <<a, b, heads>>, QuantizationAwareProcrustes(a, b, heads, 4))
    \/ \E a, b \in [1..2 -> Sizes \X {2}] :
           Called("experts", <<a, b>>, ExpertWiseProcrustes(a, b))
    \/ \E source, activations \in Sizes \X Sizes :
           Called("pcsi", <<source, activations>>,
                  PcaGuidedSubspaceInjection(source, activations))

QuantisationCall ==
    \E b \in Blocks :
        \/ Called("q8", b, QuantizeQ8(b[1], b[2]))
        \/ Called("int4", b, PackInt4(b[1], b[2]))

AlphaCall ==
    \E module \in Modules, ratio \in NormRatios, known \in BOOLEAN :
        Called("alpha", <<module, ratio, known>>,
               <<RecommendAlpha(module, ratio, known),
                 RecommendationReport(module, ratio, 1000, known)>>)

TextCall == \E text \in Texts : Called("sql", <<text>>, ExtractSql(text))

Next ==
    \/ /\ part = "transfer" /\ taken < MaxCalls
       /\ TransferNext /\ taken' = taken + 1
       /\ UNCHANGED <<protoVars, hotVars, part, call>>
    \/ /\ part = "prototypes"
       /\ ProtoNext
       /\ UNCHANGED <<transferVars, hotVars, part, call, taken>>
    \/ /\ part = "hot_swap"
       /\ HotNext
       /\ UNCHANGED <<transferVars, protoVars, part, call, taken>>
    \/ /\ part = "numeric" /\ call = Nothing
       /\ \/ SparsityCall \/ RoutingCall \/ DecompositionCall \/ ShapeCall
          \/ QuantisationCall \/ AlphaCall \/ TextCall

Spec == Init /\ [][Next]_vars

---------------------------------------------------------------------------
(* Properties *)

Survivors(result) == {i \in DOMAIN result : result[i] # 0}
Ratio == call.args[2]

\* Trimming keeps the largest entries, and drops no more of them than asked.
TrimsSmallest(v, r) ==
    LET zeroed == {i \in DOMAIN v : v[i] # 0 /\ r[i] = 0} IN
    /\ \A i \in Survivors(r), j \in zeroed : Magnitude(v[j]) < Magnitude(v[i])
    /\ Ratio[2] * Cardinality(zeroed) <= Ratio[1] * (Len(v) - 1) + Ratio[2] - 1

\* The least set of the largest entries that preserves the energy.
PreservesLeast(v, r) ==
    /\ Ratio[2] * Energy(r) >= Ratio[1] * Energy(v)
    /\ Ratio[1] > 0 => \A i \in Survivors(r) :
           LET above == Kept(v, LAMBDA j : Magnitude(v[j]) > Magnitude(v[i]))
           IN Ratio[2] * Energy(above) < Ratio[1] * Energy(v)

\* Every target head has one winner, and no source head is lost.
RoutesEveryHead(r) ==
    /\ \A t \in DOMAIN r[1] : Cardinality({s \in DOMAIN r : r[s][t] = 10}) = 1
    /\ \A s \in DOMAIN r : \E t \in DOMAIN r[s] : r[s][t] > 0

\* What is stored decodes to within half a step of the grid, and what rounding
\* the scale and the zero point to float16 adds: the scale's share grows with
\* the number of steps, the zero point's may be many steps of a narrow row.
WithinRounding(v, grain, decoded, steps, span, zeroSpacing) ==
    \A i \in DOMAIN v :
        2 * steps * Magnitude(grain * v[i] - decoded[i]) <=
            grain * span + steps * (steps * Spacing(grain * span, steps) + zeroSpacing)

Q8Error(v, grain, r) ==
    WithinRounding(v, grain, VramDecoupledDecoding(r.values, r.scale, 0), 127,
                   Max(ToSet(Magnitudes(v))), 0)

Int4Error(v, grain, r) ==
    LET product == VramDecoupledDecoding(r.values, r.scale, 0)
        low == Min(ToSet(v))
    IN WithinRounding(v, grain, [i \in DOMAIN v |-> product[i] + r.zero], 15,
                      Max(ToSet(v)) - low, Spacing(grain * Magnitude(low), 1))

\* No recommendation lets a module exceed its budget, but for the least alpha,
\* and the two ways to get one agree on the modules both know.
AlphasAgree(module, ratio, known, r) ==
    /\ module.class # "default" => r[1] = r[2]
    /\ module.class = "down" \/ r[1] <= 125 \/ r[1] * ratio <= 1000 * Budgets(known)[module.class]

\* What is extracted is one statement or block: it starts after every fence
\* before it, and holds no piece at which a base model goes on.
ExtractsOne(text, r) ==
    LET inside == {text[i] : i \in r[1]..r[2]} IN
    Block(text, "sql") = <<>> /\ Block(text, "fence") = <<>> /\ "select" \in ToSet(text) =>
        /\ text[r[1]] = "select" /\ r[1] = FirstAt(text, {"select"}, 1)
        /\ inside \intersect {"stop", "fence", "sql"} = {}
        /\ \A i \in r[1]..r[2] - 1 : text[i] # "semi"

\* Numeric functions meet a reference definition: what the thresholds of
\* create_sparse_task_vector and adaptive_variance_preserving_sparsity keep, who
\* is routed by wasserstein_discrete_routing, how far the numbers that
\* _quantize_q8_0 and _pack_int4 store are from the weights, the alphas of the
\* recommender against its report, and the slice that extract_sql takes.
NumericsMeetReference ==
    call # Nothing =>
        LET r == call.result
            v == call.args[1]
        IN
        /\ call.name = "trim" => TrimsSmallest(v, r)
        /\ call.name = "preserve" => PreservesLeast(v, r)
        /\ call.name = "route" => RoutesEveryHead(r)
        /\ call.name = "alpha" => AlphasAgree(v, call.args[2], call.args[3], r)
        /\ call.name = "sql" => ExtractsOne(v, r)
        /\ call.name = "q8" => Q8Error(v, call.args[2], r)
        /\ call.name = "int4" => Int4Error(v, call.args[2], r)

=============================================================================
