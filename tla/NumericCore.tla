----------------------------- MODULE NumericCore ----------------------------
(***************************************************************************)
(* The discrete side of the numeric functions: which entries survive a     *)
(* threshold, which head goes where, how many components are kept, which   *)
(* shapes a call accepts and returns.  Vectors are sequences of integers   *)
(* and ratios are fractions num / den, so that results are exact; Error is *)
(* an exception.                                                           *)
(***************************************************************************)
EXTENDS Integers, Sequences, FiniteSets, SequencesExt

CONSTANT Error

Magnitude(x) == IF x < 0 THEN -x ELSE x
Magnitudes(v) == [i \in DOMAIN v |-> Magnitude(v[i])]
Kept(v, Keep(_)) == [i \in DOMAIN v |-> IF Keep(i) THEN v[i] ELSE 0]
SumOf(v) == FoldLeft(LAMBDA a, b : a + b, 0, v)
Smaller(a, b) == IF a < b THEN a ELSE b
Larger(a, b) == IF a < b THEN b ELSE a

\* torch.round: to the nearest integer, halves to the even one; d > 0.
Round(n, d) ==
    LET low == n \div d
        rest == 2 * (n % d)
    IN IF rest < d \/ (rest = d /\ low % 2 = 0) THEN low ELSE low + 1

---------------------------------------------------------------------------
(* Sparsity of a task vector *)

\* torch.quantile interpolates between two entries; den times the threshold.
QuantileThreshold(v, num, den) ==
    LET sorted == SortSeq(Magnitudes(v), LAMBDA a, b : a < b)
        at == num * (Len(v) - 1)
        low == at \div den
        high == Smaller(low + 1, Len(v) - 1)
    IN den * sorted[low + 1] + (at % den) * (sorted[high + 1] - sorted[low + 1])

CreateSparseTaskVector(v, num, den) ==
    IF num = 0 THEN v
    ELSE LET threshold == QuantileThreshold(v, num, den)
         IN Kept(v, LAMBDA i : den * Magnitude(v[i]) >= threshold)

Energy(v) == SumOf([i \in DOMAIN v |-> v[i] * v[i]])

\* The first magnitude, from the largest down, with which the energy suffices.
PreservingThreshold(v, num, den) ==
    LET sorted == SortSeq(Magnitudes(v), LAMBDA a, b : a > b)
        enough == {i \in DOMAIN v : den * Energy(SubSeq(sorted, 1, i)) >= num * Energy(v)}
    IN sorted[IF enough = {} THEN Len(v) ELSE Min(enough)]

\* Mutant: the entry that reaches the ratio is cut off with the rest.
AdaptiveVariancePreservingSparsity_Strict(v, num, den) ==
    LET threshold == PreservingThreshold(v, num, den)
    IN Kept(v, LAMBDA i : Magnitude(v[i]) > threshold)

AdaptiveVariancePreservingSparsity(v, num, den) ==
    LET threshold == PreservingThreshold(v, num, den)
    IN Kept(v, LAMBDA i : Magnitude(v[i]) >= threshold)

---------------------------------------------------------------------------
(* Routing of heads.  plan and cost are matrices, source heads by rows.    *)

FirstWhere(S, Better(_, _)) ==
    CHOOSE i \in S : \A j \in S : Better(i, j) /\ (Better(j, i) => i <= j)

Winner(plan, t) == FirstWhere(DOMAIN plan, LAMBDA i, j : plan[i][t] >= plan[j][t])
Cheapest(cost, s) == FirstWhere(DOMAIN cost[s], LAMBDA i, j : cost[s][i] <= cost[s][j])

\* The hard mode before the columns are normalised; a winner weighs one unit.
WassersteinDiscreteRouting(plan, cost, alpha, unit) ==
    LET winners == {Winner(plan, t) : t \in DOMAIN plan[1]}
    IN [s \in DOMAIN plan |-> [t \in DOMAIN plan[1] |->
           IF s = Winner(plan, t) THEN unit
           ELSE IF s \notin winners /\ t = Cheapest(cost, s) THEN alpha ELSE 0]]

---------------------------------------------------------------------------
(* Decompositions *)

\* piecewise_svd_projection: the band of each component that is left.
PiecewiseBands(components, rank) ==
    LET high == Larger(1, (3 * components) \div 10)
        mid == Larger(1, components \div 2)
    IN [i \in 1..Smaller(components, rank) |->
           IF i <= high THEN "high" ELSE IF i <= high + mid THEN "mid" ELSE "low"]

\* adaptive_rsvd_bootstrap: sigmas[k] is the largest singular value that block
\* k adds.  A first block of zeros makes the ratio of the second a division by
\* zero.  Returns the columns of the basis.
AdaptiveRsvdBootstrap(rows, blockSize, sigmas, num, den) ==
    LET later == {k \in 2..Len(sigmas) : den * sigmas[k] < num * sigmas[1]}
        used == IF later = {} THEN Len(sigmas) ELSE Min(later) - 1
    IN IF sigmas[1] = 0 /\ Len(sigmas) > 1 THEN Error ELSE used * Smaller(rows, blockSize)

\* low_rank_decompose_for_peft, factorize_to_lora: shapes <<A, B>>.
LowRankDecomposeForPeft(shape, rank) ==
    LET r == Smaller(rank, Smaller(shape[1], shape[2])) IN <<<<r, shape[1]>>, <<shape[2], r>>>>

\* solve_ridge, for X and Y with the same number of rows.
SolveRidge(x, y) == IF x[1] # y[1] THEN Error ELSE <<x[2], y[2]>>

SoftRoutingHeadPooling(batch, heads, dim, target) ==
    IF heads <= target THEN <<batch, heads, dim>>
    ELSE IF Smaller(batch * dim, heads) < target THEN Error
    ELSE <<batch, target, dim>>

HeadWiseOrthogonalProcrustes(a, b, heads) ==
    IF a # b \/ a[2] % heads # 0 THEN Error ELSE a

\* The shape, and the factor by which every scale is damped.
QuantizationAwareProcrustes(a, b, heads, bits) ==
    LET plain == HeadWiseOrthogonalProcrustes(a, b, heads)
    IN IF plain = Error THEN Error ELSE [shape |-> plain, factor |-> <<2^bits - 1, 2^bits>>]

\* Every expert is one head; one that fails fails all.
ExpertWiseProcrustes(as, bs) ==
    LET aligned == [i \in DOMAIN as |-> HeadWiseOrthogonalProcrustes(as[i], bs[i], 1)]
    IN IF Len(as) # Len(bs) THEN Error
       ELSE IF \E i \in DOMAIN as : aligned[i] = Error THEN Error ELSE aligned

\* The shape, and the source dimensions that are used: the others are cut off.
PcaGuidedSubspaceInjection(source, activations) ==
    [shape |-> <<source[1], activations[2]>>,
     used |-> Smaller(source[2], Smaller(activations[1], activations[2]))]

---------------------------------------------------------------------------
(* Quantisation of one block or row to integers.  Weights are multiples of  *)
(* a grain, and the grain of 2^-24, the least number of a float16, which    *)
(* has 11 significant bits.  Weights stay far below its largest number; the *)
(* tiny number that is added to a scale only keeps zero from being divided  *)
(* by.                                                                      *)

\* The distance of the float16 numbers around n / d >= 0.
Spacing(n, d) == 2^Min({e \in 0..19 : n \div d < 2^(e + 11)})

\* n / d as a float16.
Half(n, d) ==
    LET spacing == Spacing(Magnitude(n), d)
        size == spacing * Round(Magnitude(n), d * spacing)
    IN IF n < 0 THEN -size ELSE size

\* The scale is rounded only after it was divided by.
QuantizeQ8(block, grain) ==
    LET top == Max(ToSet(Magnitudes(block)))
    IN [scale |-> Half(top * grain, 127),
        values |-> [i \in DOMAIN block |-> IF top = 0 THEN 0 ELSE Round(127 * block[i], top)]]

\* scale times the decoded value.
VramDecoupledDecoding(quantized, scale, zero) ==
    [i \in DOMAIN quantized |-> (quantized[i] - zero) * scale]

PackInt4(row, grain) ==
    LET low == Min(ToSet(row))
        span == Max(ToSet(row)) - low
    IN [scale |-> Half(span * grain, 15), zero |-> Half(low * grain, 1),
        values |-> [i \in DOMAIN row |->
                       IF span = 0 THEN 0 ELSE Round(15 * (row[i] - low), span)]]

---------------------------------------------------------------------------
(* Recommended alphas, in thousandths.  A ratio of norms and a budget are  *)
(* in units of 10^-5; the tiny number that is added to a ratio only keeps  *)
(* zero from being divided by.                                             *)

Budgets(known) ==
    IF known THEN [attention |-> 200, mlp |-> 2, default |-> 100]
             ELSE [attention |-> 100, mlp |-> 1, default |-> 50]

Clamped(x, low, high) == Smaller(Larger(x, low), high)

Scaled(alpha, budget, ratio) == IF ratio = 0 THEN 16000 ELSE (alpha * budget) \div ratio

\* Attention may be amplified, everything else only damped.
InRange(class, alpha) ==
    IF class = "attention" THEN Clamped(alpha, 125, 16000) ELSE Clamped(alpha, 10, 1000)

\* A module is [class, gated]: class as its name is matched here, gated where
\* it contains "gate" or "up", by which the report tells MLPs.
RecommendAlpha(module, ratio, known) ==
    IF module.class = "down" THEN 0
    ELSE InRange(module.class, Scaled(1000, Budgets(known)[module.class], ratio))

\* generate_recommendation_report, for one module and the alpha it was measured
\* with.  What is no MLP is attention.
RecommendationReport(module, ratio, current, known) ==
    LET class == IF module.gated THEN "mlp" ELSE "attention"
    IN IF module.class = "down" THEN 0
       ELSE InRange(class, Scaled(current, Budgets(known)[class], ratio))

---------------------------------------------------------------------------
(* extract_sql.  A text is a sequence of pieces: "sql" and "fence" open a  *)
(* code block (and either closes one), "select" starts a statement,        *)
(* "stop" is what base models go on with, "semi" ends a statement.         *)

FirstAt(text, pieces, from) ==
    LET at == {i \in from..Len(text) : text[i] \in pieces}
    IN IF at = {} THEN Len(text) + 1 ELSE Min(at)

Block(text, open) ==
    LET from == FirstAt(text, {open}, 1)
        to == FirstAt(text, {"fence", "sql"}, from + 1)
    IN IF to > Len(text) THEN <<>> ELSE <<from + 1, to - 1>>

\* The bounds of what is taken for the statement.
ExtractSql(text) ==
    LET start == FirstAt(text, {"select"}, 1)
        stop == FirstAt(text, {"stop", "sql", "fence"}, start) - 1
        semi == FirstAt(text, {"semi"}, start)
    IN IF Block(text, "sql") # <<>> THEN Block(text, "sql")
       ELSE IF Block(text, "fence") # <<>> THEN Block(text, "fence")
       ELSE IF start > Len(text) THEN <<1, Len(text)>>
       ELSE <<start, Smaller(semi, stop)>>

=============================================================================
