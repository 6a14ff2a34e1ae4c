---------------------------- MODULE MC_Transfer -----------------------------
(* Both halves of the transfer: project-adapter by itself ("port"), and the  *)
(* commands around it, which see it as AdapterFiles ("pipeline").            *)
EXTENDS TransferPipeline, AdapterProjection

VARIABLE tool

\* The pipeline does not look at the format.
TransferInit ==
    /\ Init /\ PortInit /\ tool \in {"port", "pipeline"}
    /\ tool = "pipeline" => format = "safetensors"
TransferNext ==
    /\ UNCHANGED tool
    /\ \/ tool = "port" /\ PortNext /\ UNCHANGED vars
       \/ tool = "pipeline" /\ Next /\ UNCHANGED portVars
TransferSpec == TransferInit /\ [][TransferNext]_<<vars, portVars, tool>>


---------------------------------------------------------------------------
(* A suite of twelve cases, of which one fixes the order of the rows, and    *)
(* jobs on both sides of every threshold of the gates.                       *)

Suite == [i \in 1..12 |->
    [id |-> i, tables |-> {"users"}, setup |-> TRUE, graded |-> i # 12,
     expected |-> <<1, 2>>, ordered |-> i = 11]]

Answer(rows) == [empty |-> FALSE, repeats |-> FALSE, parses |-> TRUE,
                 tables |-> {"users"}, runs |-> TRUE, rows |-> rows]
Right == Answer(<<1, 2>>)
Turned == Answer(<<2, 1>>)
Wrong == Answer(<<NullRow, 2>>)
Fails == [Wrong EXCEPT !.runs = FALSE]
Repeating == [Right EXCEPT !.repeats = TRUE]
Empty == [Wrong EXCEPT !.empty = TRUE, !.parses = FALSE]

\* The answers of a model: the first is used but where another is given.
Except(answer, others) ==
    [i \in 1..12 |-> IF i \in DOMAIN others THEN others[i] ELSE answer]

Small == [readable |-> TRUE, hidden |-> 8, layers |-> 2, type |-> "qwen2", vocab |-> 10]
Large == [Small EXCEPT !.hidden = 12, !.layers = 4]
Other == [Large EXCEPT !.type = "llama", !.vocab = 20]

Params == {[module |-> "up_proj", layer |-> 0, side |-> s, label |-> "",
            energy |-> 9, entropy |-> 30] : s \in {"A", "B"}}

\* One case in twelve is lost, which the gates allow.
Teacher ==
    [config |-> "local", configBase |-> <<"org", "small">>, base |-> <<"small">>,
     suite |-> Suite, gateConfig |-> QualityGateConfig,
     baseAnswers |-> Except(Wrong, <<Right>>), adapterAnswers |-> Except(Turned, <<Wrong>>),
     params |-> Params, source |-> Small, target |-> Large, hasTarget |-> TRUE, force |-> FALSE]

MCDetails ==
    [teacher |-> Teacher,
     mismatch |-> [Teacher EXCEPT !.configBase = <<"org", "other">>,
                                  !.gateConfig.primary_metric = "bleu"],
     forced |-> [Teacher EXCEPT !.configBase = <<"org", "other">>, !.force = TRUE,
                                !.baseAnswers = Except(Wrong, <<Right, Right>>),
                                !.adapterAnswers = Except(Right, <<Wrong, Wrong>>),
                                !.target = [Large EXCEPT !.readable = FALSE],
                                !.gateConfig.regression = 20],
     collapsed |-> [Teacher EXCEPT !.baseAnswers = Except(Wrong, <<>>),
                                   !.adapterAnswers = Except(Fails, <<Right>>),
                                   !.config = "absent", !.target = Other,
                                   !.gateConfig.primary_metric = "execution_success"],
     silent |-> [Teacher EXCEPT !.adapterAnswers = Except(Right, <<Empty, Repeating, Repeating>>),
                                !.hasTarget = FALSE, !.gateConfig.emptyOutput = 10]]

MCJobs == DOMAIN MCDetails

---------------------------------------------------------------------------
(* A source and two targets of small sizes, one of them larger in one       *)
(* dimension and smaller in the other; three pairs of tensors, in the order *)
(* of their names or all A sides first; command lines that reach every      *)
(* branch of the adapter.                                                   *)

Key(m, l, s) == [module |-> m, layer |-> l, side |-> s]

ByName == <<Key("up_proj", 0, "A"), Key("up_proj", 0, "B"),
            Key("up_proj", 1, "A"), Key("up_proj", 1, "B"),
            Key("v_proj", 1, "A"), Key("v_proj", 1, "B")>>
SidesApart == <<Key("up_proj", 0, "A"), Key("up_proj", 1, "A"),
                Key("up_proj", 0, "B"), Key("up_proj", 1, "B")>>
ThreeApart == SidesApart \o <<Key("gate_proj", 0, "B"), Key("gate_proj", 0, "A")>>
Down == <<Key("down_proj", 0, "B"), Key("down_proj", 0, "A")>>

SmallInfo == [hidden |-> 4, heads |-> 2, inter |-> 6, kvHeads |-> 1]
LargeInfo == [hidden |-> 6, heads |-> 2, inter |-> 8, kvHeads |-> 2]
MixedInfo == [hidden |-> 3, heads |-> 1, inter |-> 9, kvHeads |-> 1]

Model(type, info) ==
    [config |-> [type |-> type, info |-> info], fileKeys |-> Absent, hint |-> "none"]
Unknown(hint) == [config |-> Absent, fileKeys |-> Absent, hint |-> hint]

Source(place, keys) == [place |-> place, keys |-> keys, info |-> SmallInfo, rank |-> 2]

Plain == [source |-> Source("local", ByName), sourceBase |-> Model("llama", SmallInfo),
          target |-> Model("qwen", LargeInfo), mode |-> "linear",
          piecewiseModules |-> Absent, piecewiseLayers |-> Absent, maxLayers |-> Absent,
          include |-> Absent, alphaItems |-> <<>>, alpha |-> 16, rank |-> 2,
          health |-> Absent, allowDummy |-> FALSE]
Piecewise == [Plain EXCEPT !.mode = "piecewise"]

Item(m, ls, a) == [module |-> m, layers |-> ls, alpha |-> a]

MCArguments ==
    {[Plain EXCEPT !.alphaItems = <<Item("v_proj", {AnyLayer}, 0), Absent,
                                    Item("up_proj", {0}, 4)>>],
     [Plain EXCEPT !.target = Absent],
     [Plain EXCEPT !.sourceBase = Unknown("qwen-0.5b"), !.source = Source("local", Down)],
     [Plain EXCEPT !.source = Source("nowhere", ByName)],
     [Plain EXCEPT !.source = Source("unreadable", ByName), !.allowDummy = TRUE],
     [Piecewise EXCEPT !.maxLayers = 1, !.rank = 3,
                       !.health = [verdict |-> "MODERATELY_CONCENTRATED",
                                   lowEntropy |-> TRUE, outliers |-> {1}]],
     [Piecewise EXCEPT !.maxLayers = 1, !.source = Source("local", SidesApart)],
     [Piecewise EXCEPT !.maxLayers = 2, !.source = Source("hub", ThreeApart)],
     [Piecewise EXCEPT !.source = Source("local", SidesApart), !.piecewiseLayers = {1},
                       !.include = {"up_proj"}, !.target = Model("qwen", MixedInfo)],
     [Piecewise EXCEPT !.source = Source("hub", Down), !.piecewiseModules = {"down_proj"},
                       !.alphaItems = <<Item("down_proj", {AnyLayer}, 8),
                                        Item("down_proj", {0, 1}, 4)>>],
     [Piecewise EXCEPT !.target = Unknown("sdxl"), !.source = Source("local", Down)]}
=============================================================================
