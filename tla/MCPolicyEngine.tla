--------------------------- MODULE MCPolicyEngine ---------------------------
(***************************************************************************)
(* Small instances of PolicyEngine for TLC.                                *)
(*                                                                         *)
(* The documents are one base document, every leaf the language can spell  *)
(* over its operands, operators and right sides, and one document on each  *)
(* side of every structural check.  Limits are scaled down so that both    *)
(* sides of each are small.                                                *)
(***************************************************************************)
EXTENDS PolicyEngine, TLC

MCOne == 100000000
MCTolerance == 2000000

\* 0.25, 0.5 and 1.5 are float32 numbers; 0.28 is one to within a unit.
MCFloat32 ==
    [n \in {0, 25000000, 28000000, 50000000, 60000000, 70000000, 76000000,
            90000000, 100000000, 150000000} |->
       CASE n = 90000000 -> 89999998
         [] n = 76000000 -> 75999999
         [] n = 70000000 -> 69999999
         [] n = 60000000 -> 60000002
         [] OTHER -> n]

MCIdentifiers == {"n", "c", "s", "x", "yes", "no", "true", "false", "third"}
MCDashed == {"p", "allow", "block", "floor", "r1", "r2", "r3"}
MCFactNames == {"amount", "tier", "flag", "extra"}
MCSorted == <<"c", "n", "no!", "s", "x">>
MCLevelKeys == <<"0", "1", "2", "3">>

MCLimits ==
    [outcomes |-> 2, questions |-> 3, facts |-> 3, rules |-> 2,
     conditionDepth |-> 2, conditionsPerOp |-> 2, rightList |-> 2,
     minChoice |-> 2, maxChoice |-> 3, minScore |-> 2, maxScore |-> 3,
     questionValueNodes |-> 3, questionValueDepth |-> 2,
     instructions |-> 9, criteriaText |-> 8]

-----------------------------------------------------------------------------
(* Values. *)

Integer(n) == [kind |-> "int", num |-> n]
Float64(n) == [kind |-> "float", num |-> n]
Str(s) == [kind |-> "string", str |-> s]
Bool(b) == [kind |-> "bool", bool |-> b]
Listed(l) == [kind |-> "list", list |-> l]
NaN == [kind |-> "nan"]
Uint == [kind |-> "uint"]

Text(body) == [form |-> "text", body |-> body, number |-> "none",
               depth |-> 1, nodes |-> 1, bytes |-> 4]
Null == [Text("") EXCEPT !.form = "null"]
Object(number) == [form |-> "object", body |-> "o", number |-> number,
                   depth |-> 2, nodes |-> 2, bytes |-> 6]

NoCriteria == [shape |-> "none"]
Map(f) == [shape |-> "map", entries |-> f]
List(l) == [shape |-> "list", entries |-> l]
General(e) == [shape |-> "general", entries |-> e]

Ask(type, criteria) ==
    [type |-> type, instructions |-> Text("?"), criteria |-> criteria]

TwoOptions == ("yes" :> Text("y")) @@ ("no" :> Null)
TwoLevels == <<Text("low"), Object("none")>>

Node == [all |-> <<>>, any |-> <<>>, not |-> <<>>, left |-> <<>>,
         op |-> "", right |-> Absent]
Leaf(operand, op, right) ==
    [Node EXCEPT !.left = <<operand>>, !.op = op, !.right = right]
Fact(f) == [fact |-> f, answer |-> "", field |-> "", key |-> ""]
Answer(q, field, key) ==
    [fact |-> "", answer |-> q, field |-> field, key |-> key]

Rule(id, when, outcome) ==
    [id |-> id, description |-> "", when |-> when, outcome |-> outcome]

Flagged == <<Leaf(Fact("flag"), "eq", Bool(TRUE))>>
Chosen == Leaf(Answer("c", "choice", ""), "eq", Str("yes"))

Base ==
    [apiVersion |-> "v1alpha1", kind |-> "DecisionPolicy",
     name |-> "p", version |-> "1", description |-> "", model |-> "m",
     outcomes |-> <<"allow", "block">>, defaultOutcome |-> "block",
     required |-> ("amount" :> "number"),
     optional |-> ("tier" :> "string") @@ ("flag" :> "boolean"),
     strict |-> FALSE,
     questions |-> ("n" :> Ask("noul", NoCriteria))
                   @@ ("c" :> Ask("choice", Map(TwoOptions)))
                   @@ ("s" :> Ask("score", List(TwoLevels))),
     preRules |-> <<Rule("floor", Flagged, "block")>>,
     decisionRules |-> <<Rule("r1", <<Chosen>>, "allow")>>]

-----------------------------------------------------------------------------
(* Documents. *)

Operands ==
    {Fact("amount"), Fact("tier"), Fact("flag"),
     Answer("n", "noul", ""), Answer("c", "choice", ""),
     Answer("c", "confidence", ""), Answer("c", "probability", "yes"),
     Answer("c", "probability", "no"), Answer("s", "score", ""),
     Answer("s", "probability", "1")}

\* Undeclared, unavailable, ambiguous, out of range.
WrongOperands ==
    {Fact("extra"), Fact(""), [Fact("tier") EXCEPT !.field = "noul"],
     [Fact("tier") EXCEPT !.answer = "n"], Answer("n", "confidence", ""),
     Answer("c", "choice", "yes"), Answer("c", "probability", "third"),
     Answer("c", "probability", ""), Answer("s", "probability", "2"),
     Answer("x", "noul", "")}

Rights ==
    {Absent, Integer(MCOne), Float64(MCOne), Float64(90000000),
     Float64(50000000), Integer(2 * MCOne), Str("gold"), Str("yes"), Str("huge"), Bool(TRUE), Bool(FALSE), Uint,
     Listed(<<>>), Listed(<<Str("gold"), Str("yes")>>),
     Listed(<<Str("yes")>>), Listed(<<Integer(0), Float64(90000000)>>),
     Listed(<<Integer(0), Integer(0), Integer(0)>>)}

Leaves ==
    {Leaf(operand, op, right) :
       operand \in Operands, op \in Operators, right \in Rights}
    \cup {Leaf(operand, op, right) : operand \in WrongOperands,
            op \in {"eq", "exists"},
            right \in {Absent, Float64(90000000), Str("yes"), Bool(TRUE)}}
    \cup {Leaf(Fact("tier"), "like", Str("gold"))}

With(nodes) == [Base EXCEPT !.decisionRules[1].when = nodes]

LeafDocuments ==
    {With(<<leaf>>) : leaf \in Leaves}
    \cup {[Base EXCEPT !.preRules[1].when = <<Leaf(operand, op, right)>>] :
            operand \in Operands, op \in {"eq", "exists"},
            right \in {Absent, Float64(90000000), Bool(TRUE)}}

Tier == Leaf(Fact("tier"), "exists", Absent)

TreeDocuments ==
    {With(nodes) : nodes \in
       {<<[Node EXCEPT !.all = <<2, 3>>], Chosen, Tier>>,
        <<[Node EXCEPT !.any = <<2, 3>>, !.op = "eq"], Chosen, Tier>>,
        <<[Node EXCEPT !.not = <<2>>], [Node EXCEPT !.all = <<3, 4>>],
          Chosen, Tier>>,
        <<[Node EXCEPT !.not = <<2>>], [Node EXCEPT !.not = <<3>>],
          [Node EXCEPT !.not = <<4>>], Chosen>>,
        <<[Node EXCEPT !.all = <<2, 3, 4>>], Chosen, Tier, Chosen>>,
        <<[Node EXCEPT !.all = <<2>>, !.any = <<3>>], Chosen, Tier>>,
        <<Node>>, <<>>}}

\* The base document with another question s, or n.
Scored(criteria) == [Base EXCEPT !.questions["s"].criteria = criteria]
Nouled(criteria) == [Base EXCEPT !.questions["n"].criteria = criteria]

QuestionDocuments ==
    {Scored(List(l)) : l \in
       {<<Text("low")>>, TwoLevels \o <<Text("high")>>,
        TwoLevels \o TwoLevels, <<Text("low"), Null>>,
        <<Text("low"), Object("raw")>>,
        <<Text("low"), [Object("none") EXCEPT !.depth = 3]>>,
        <<Text("low"), [Object("none") EXCEPT !.nodes = 4]>>,
        <<Text("low"), [Object("none") EXCEPT !.bytes = 9]>>,
        <<Text("low"), [Text("1") EXCEPT !.form = "scalar"]>>}}
    \cup {Scored(Map(TwoOptions)), Scored(NoCriteria)}
    \cup {Nouled(c) : c \in {Map("true" :> Text("t")), Map(<<>>),
                             Map("yes" :> Text("t")), List(TwoLevels)}}
    \cup {[Base EXCEPT !.questions["c"].criteria = c] : c \in
            {Map("yes" :> Null), List(TwoLevels), NoCriteria,
             Map(TwoOptions @@ ("third" :> Null)),
             Map(TwoOptions @@ ("third" :> Null) @@ ("x" :> Null)),
             Map(TwoOptions @@ ("no!" :> Null))}}
    \cup {[Base EXCEPT !.questions["n"].instructions = v] : v \in
            {Null, Object("raw"), [Text("?") EXCEPT !.bytes = 10]}}
    \cup {[Base EXCEPT !.questions["n"].type = "date"],
          [Base EXCEPT !.questions = <<>>],
          [Base EXCEPT !.questions = @ @@ ("x" :> Ask("noul", NoCriteria))],
          [Base EXCEPT !.questions =
             [id \in {"c", "s", "no!"} |->
                IF id = "no!" THEN Ask("noul", NoCriteria) ELSE @[id]]]}

HeaderDocuments ==
    {[Base EXCEPT !.apiVersion = "v2"], [Base EXCEPT !.kind = "Other"],
     [Base EXCEPT !.name = "no!"], [Base EXCEPT !.version = ""],
     [Base EXCEPT !.version = " 1"], [Base EXCEPT !.version = "huge"],
     [Base EXCEPT !.version = "2"], [Base EXCEPT !.description = "huge"],
     [Base EXCEPT !.description = "other"], [Base EXCEPT !.outcomes = <<>>],
     [Base EXCEPT !.outcomes = <<"allow", "block", "p">>],
     [Base EXCEPT !.outcomes = <<"block", "block">>],
     [Base EXCEPT !.outcomes = <<"block", "no!">>],
     [Base EXCEPT !.outcomes = <<"allow">>],
     [Base EXCEPT !.defaultOutcome = "p"], [Base EXCEPT !.strict = TRUE],
     [Base EXCEPT !.required = @ @@ ("extra" :> "number")],
     [Base EXCEPT !.required = ("no!" :> "number")],
     [Base EXCEPT !.required = ("amount" :> "date")],
     [Base EXCEPT !.required = ("tier" :> "string")],
     [Base EXCEPT !.required = <<>>]}

RuleDocuments ==
    {[Base EXCEPT !.decisionRules = rules] : rules \in
       {<<>>, <<Rule("r1", <<>>, "allow")>>,
        <<Rule("r1", <<Chosen>>, "allow"), Rule("r2", <<>>, "block")>>,
        <<Rule("r1", <<>>, "allow"), Rule("r2", <<Chosen>>, "block")>>,
        <<Rule("r1", <<Chosen>>, "allow"), Rule("r1", <<Tier>>, "block")>>,
        <<Rule("floor", <<Chosen>>, "allow")>>,
        <<Rule("r1", <<Chosen>>, "p")>>, <<Rule("no!", <<Chosen>>, "allow")>>,
        <<[Rule("r1", <<>>, "allow") EXCEPT !.description = "huge"]>>,
        <<Rule("r1", <<Chosen>>, "allow"), Rule("r2", <<Tier>>, "block"),
          Rule("r3", <<Chosen>>, "allow")>>}}
    \cup {[Base EXCEPT !.preRules = <<Rule("floor", <<Chosen>>, "allow")>>],
          [Base EXCEPT !.preRules = <<Rule("floor", <<>>, "allow")>>]}

Sent(doc) == [bytes |-> 1, form |-> "document", doc |-> doc]

MCInlineData ==
    {Sent(d) : d \in LeafDocuments \cup TreeDocuments \cup QuestionDocuments
                       \cup HeaderDocuments \cup RuleDocuments}
    \cup {[Sent(Base) EXCEPT !.bytes = 2]}

-----------------------------------------------------------------------------
(* Directories, which also hold what only YAML can spell. *)

File(doc) == [ext |-> ".yaml", mode |-> "regular", bytes |-> 1,
              form |-> "document", doc |-> doc]

BothWays(spelling) ==
    General({[name |-> "true", kind |-> "bool", value |-> Text("t")],
             [name |-> "true", kind |-> spelling, value |-> Text("u")]})

MCDirectories ==
    {<<>>,
     <<File(Base), [File(Base) EXCEPT !.ext = ".md"]>>,
     <<File(Base), File([Base EXCEPT !.version = "2"])>>,
     <<File(Base), File(Base)>>,
     <<[File(Base) EXCEPT !.mode = "symlink"]>>,
     <<[File(Base) EXCEPT !.bytes = 2]>>,
     <<[File(Base) EXCEPT !.form = "several"]>>,
     <<File(Nouled(General({[name |-> "true", kind |-> "bool",
                             value |-> Text("t")]})))>>,
     <<File(Nouled(BothWays("string")))>>,
     <<File(Nouled(BothWays("other")))>>,
     <<File(With(<<Leaf(Fact("amount"), "lt", NaN)>>))>>,
     <<File(With(<<Leaf(Answer("n", "noul", ""), "in",
                         Listed(<<NaN>>))>>))>>}

-----------------------------------------------------------------------------
(* Requests and replies. *)

Amount == "amount" :> Float64(MCOne)

MCFactSets ==
    {<<>>, Amount, "amount" :> Str("gold"),
     Amount @@ ("tier" :> Str("gold")), Amount @@ ("tier" :> Bool(TRUE)),
     Amount @@ ("flag" :> Bool(TRUE)), Amount @@ ("flag" :> Bool(FALSE)),
     Amount @@ ("extra" :> Float64(0))}

Half == 50000000

Wire(type, numbers) ==
    [type |-> type, numbers |-> numbers, choice |-> "",
     probabilities |-> <<>>, legend |-> <<>>]

Echoed == [form |-> "echoed"]

WireNoul(p) == Wire("noul", "noul" :> p)
WireChoice(choice, probabilities) ==
    [Wire("choice", "confidence" :> 90000000)
       EXCEPT !.choice = choice, !.probabilities = probabilities]
WireScore(score, legend) ==
    [Wire("score", ("confidence" :> 90000000) @@ ("score" :> score))
       EXCEPT !.probabilities = [k \in DOMAIN legend |-> Half],
              !.legend = legend]

EvenOptions == ("yes" :> Half) @@ ("no" :> Half)
EchoedLevels == ("0" :> Echoed) @@ ("1" :> Echoed)

HonestReply ==
    [model |-> "m",
     answers |-> ("n" :> WireNoul(90000000))
                 @@ ("c" :> WireChoice("yes", EvenOptions))
                 @@ ("s" :> WireScore(MCOne, EchoedLevels))]

Replying(id, wire) == [HonestReply EXCEPT !.answers[id] = wire]

MCReplies ==
    {HonestReply, [HonestReply EXCEPT !.model = ""],
     [HonestReply EXCEPT !.answers =
        [id \in {"n", "c"} |-> HonestReply.answers[id]]],
     [HonestReply EXCEPT !.answers = @ @@ ("x" :> WireNoul(Half))],
     Replying("n", Wire("date", <<>>)), Replying("n", WireNoul(150000000)),
     Replying("n", WireChoice("yes", EvenOptions)), Replying("n", WireNoul(0)),
     Replying("c", WireChoice("third", EvenOptions)),
     Replying("c", WireChoice("no", ("yes" :> 28000000) @@ ("no" :> 70000000))),
     Replying("c", WireChoice("no", ("yes" :> 60000000) @@ ("no" :> 60000000))),
     Replying("c", WireChoice("no", ("yes" :> 25000000) @@ ("no" :> 76000000))),
     Replying("c", WireChoice("no", "no" :> MCOne)),
     Replying("c", [WireChoice("no", EvenOptions)
                      EXCEPT !.numbers = ("confidence" :> 150000000)]),
     Replying("s", WireScore(150000000, EchoedLevels)),
     Replying("s", WireScore(Half, ("0" :> Echoed) @@ ("1" :> Text("low")))),
     Replying("s", WireScore(Half, "0" :> Echoed)),
     Replying("s", WireScore(Half, EchoedLevels))}

=============================================================================
