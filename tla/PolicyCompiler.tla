--------------------------- MODULE PolicyCompiler ---------------------------
(***************************************************************************)
(* The policy language: what Compile accepts, the compiled policy, its     *)
(* canonical form, and how conditions, facts and answers are evaluated     *)
(* (internal/pkg/policy, internal/pkg/common/decision).                    *)
(*                                                                         *)
(* A value of Go's `any` is a record with a kind.  Numbers are integers in *)
(* units of 10^-8.  Names are judged by the grammars' sets, lengths by     *)
(* numbers, texts are opaque.  A condition tree is the sequence of its     *)
(* nodes, root first, every child after its parent.  Every failure to      *)
(* compile is the same failure.                                            *)
(***************************************************************************)
EXTENDS Integers, FiniteSets, Sequences, SequencesExt

CONSTANTS
    Identifiers,        \* the names each grammar of package decision matches
    DashedIdentifiers,
    FactNames,
    Oversized,          \* texts longer than the ceiling of their field
    Untrimmed,          \* texts with surrounding whitespace
    SortedNames,        \* every question name, in the order of sort.Strings
    LevelKeys,          \* strconv.Itoa(0), strconv.Itoa(1), ...
    One,                \* the number 1.0
    Tolerance,          \* ProbabilitySumTolerance, with its slack
    Limits              \* the structural ceilings of document.go

ASSUME NumbersAssumption == One \in Nat \ {0} /\ Tolerance \in Nat

\* No grammar matches the empty name; a name has one place in the order, and
\* a level one key.
ASSUME NamesAssumption ==
    /\ "" \notin Identifiers \cup DashedIdentifiers
    /\ SortedNames \in Seq(STRING) /\ IsInjective(SortedNames)
    /\ LevelKeys \in Seq(STRING) /\ IsInjective(LevelKeys)

\* The ceilings mirror the provider's contract.
ASSUME LimitsAssumption ==
    /\ Limits.minChoice \in 1 .. 255 /\ Limits.maxChoice \in 1 .. 255
    /\ Limits.minScore \in 2 .. 10 /\ Limits.maxScore \in 2 .. 10
    /\ Limits.maxScore <= Len(LevelKeys)

QuestionTypes == {"noul", "choice", "score"}
FactTypes == {"string", "boolean", "number"}
AnswerFields == {"choice", "score", "noul", "confidence", "probability"}

Ordering == {"lt", "lte", "gt", "gte"}
Operators == Ordering \cup {"eq", "neq", "in", "exists"}

Fields == [noul   |-> {"noul"},
           choice |-> {"choice", "confidence", "probability"},
           score  |-> {"score", "confidence", "probability"}]

\* Whether an answer of type t has field f.
AvailableOn(f, t) == t \in QuestionTypes /\ f \in Fields[t]

Absent == [kind |-> "absent"]

IsNumber(v) == v.kind \in {"int", "float", "nan"}

\* Every number becomes a float64; a uint64 is not one of them.
AsNumber(v) == IF v.kind = "int" THEN [kind |-> "float", num |-> v.num] ELSE v

Matches(type, v) ==
    \/ type = "string" /\ v.kind = "string"
    \/ type = "boolean" /\ v.kind = "bool"
    \/ type = "number" /\ IsNumber(v)

-----------------------------------------------------------------------------
(* What the Go types of document.go say of a decoded document. *)

\* Left is a pointer to one operand.
NodeShape(node) ==
    /\ node.all \in Seq(Nat) /\ node.any \in Seq(Nat) /\ node.not \in Seq(Nat)
    /\ node.left # <<>> => node.left = <<node.left[1]>>

RuleShape(rule) ==
    /\ rule = [id |-> rule.id, description |-> rule.description,
               when |-> rule.when, outcome |-> rule.outcome]
    /\ \A n \in DOMAIN rule.when : NodeShape(rule.when[n])

RulesShape(rules) ==
    /\ rules \in Seq(Range(rules))
    /\ \A i \in DOMAIN rules : RuleShape(rules[i])

DocumentShape(doc) ==
    /\ RulesShape(doc.preRules)
    /\ RulesShape(doc.decisionRules)
    /\ IsFiniteSet(DOMAIN doc.questions)
    /\ DOMAIN doc.questions \subseteq Range(SortedNames)
    /\ \A id \in DOMAIN doc.questions :
         LET criteria == doc.questions[id].criteria
         IN  criteria.shape = "list" =>
               criteria.entries \in Seq(Range(criteria.entries))

-----------------------------------------------------------------------------
(* Structured question values. *)

Normalizes(v, allowNull) ==
    IF v.form = "null" THEN allowNull
    ELSE /\ v.form \in {"text", "object", "array"}
         /\ v.nodes <= Limits.questionValueNodes
         /\ v.depth <= Limits.questionValueDepth

\* The value after a round trip through JSON with UseNumber.
normalizeQuestionValue(v) ==
    IF v.number = "none" THEN v ELSE [v EXCEPT !.number = "json.Number"]

compileQuestionInstructions(v) ==
    \/ v.form = "null"
    \/ Normalizes(v, FALSE) /\ v.bytes <= Limits.instructions

compileCriteriaValue(v, allowNull) ==
    Normalizes(v, allowNull) /\ v.bytes <= Limits.criteriaText

\* The maps noulCriteriaMap may build.  A YAML map with a boolean key has
\* keys of both kinds, and a key spelled both ways is written twice, in the
\* order of Go's map iteration.
noulCriteriaMap(criteria) ==
    IF criteria.shape = "map" THEN {criteria.entries}
    ELSE IF criteria.shape = "general" /\ \A e \in criteria.entries :
                                            e.kind \in {"string", "bool"}
    THEN LET names == {e.name : e \in criteria.entries}
         IN  {f \in [names -> {e.value : e \in criteria.entries}] :
                \A n \in names : \E e \in criteria.entries :
                    e.name = n /\ e.value = f[n]}
    ELSE {}

compileNoulCriteria(criteria) ==
    \/ criteria.shape = "none"
    \/ /\ noulCriteriaMap(criteria) # {}
       /\ \A f \in noulCriteriaMap(criteria) : \A k \in DOMAIN f :
            k \in {"true", "false"} /\ compileCriteriaValue(f[k], TRUE)

compileChoiceCriteria(criteria) ==
    /\ criteria.shape = "map"
    /\ Cardinality(DOMAIN criteria.entries)
           \in Limits.minChoice .. Limits.maxChoice
    /\ \A k \in DOMAIN criteria.entries :
         k \in Identifiers /\ compileCriteriaValue(criteria.entries[k], TRUE)

compileScoreCriteria(criteria) ==
    /\ criteria.shape = "list"
    /\ Len(criteria.entries) \in Limits.minScore .. Limits.maxScore
    /\ \A i \in DOMAIN criteria.entries :
         compileCriteriaValue(criteria.entries[i], FALSE)

compileQuestion(id, question) ==
    /\ id \in Identifiers
    /\ question.type \in QuestionTypes
    /\ compileQuestionInstructions(question.instructions)
    /\ CASE question.type = "noul" -> compileNoulCriteria(question.criteria)
         [] question.type = "choice" -> compileChoiceCriteria(question.criteria)
         [] question.type = "score" -> compileScoreCriteria(question.criteria)

\* The compiled forms of one question: one, unless noulCriteriaMap has a
\* choice.
CompiledQuestions(question) ==
    LET normal(f) == [k \in DOMAIN f |-> normalizeQuestionValue(f[k])]
        maps == IF question.criteria.shape = "none" THEN {<<>>}
                ELSE IF question.type = "noul"
                THEN noulCriteriaMap(question.criteria)
                ELSE {question.criteria.entries}
    IN  {[type         |-> question.type,
          instructions |-> normalizeQuestionValue(question.instructions),
          criteria     |-> normal(f)] : f \in maps}

-----------------------------------------------------------------------------
(* Conditions. *)

Branches(node) ==
    {b \in {"all", "any", "not", "left"} : node[b] # <<>>}

Children(node) == node.all \o node.any \o node.not

\* The level of every node below the root.
Depths(nodes) ==
    LET parent(i) == CHOOSE j \in 1 .. i - 1 :
                       \E c \in DOMAIN Children(nodes[j]) :
                           Children(nodes[j])[c] = i
        depth[i \in DOMAIN nodes] ==
            IF i = 1 THEN 0 ELSE depth[parent(i)] + 1
    IN  depth

\* compileFacts refuses a name declared twice.
declaredFacts(doc) ==
    [f \in DOMAIN doc.required \cup DOMAIN doc.optional |->
       IF f \in DOMAIN doc.required THEN doc.required[f] ELSE doc.optional[f]]

\* The bound on the level is off by one.
validateProbabilityKeyPastTheEnd(question, operand) ==
    IF operand.field # "probability" THEN operand.key = ""
    ELSE \/ /\ question.type = "choice"
            /\ operand.key \in DOMAIN question.criteria.entries
         \/ /\ question.type = "score"
            /\ \E i \in 1 .. Len(question.criteria.entries) + 1 :
                 LevelKeys[i] = operand.key

validateProbabilityKey(question, operand) ==
    IF operand.field # "probability" THEN operand.key = ""
    ELSE /\ operand.key # ""
         /\ operand.key \notin Oversized
         /\ \/ /\ question.type = "choice"
               /\ operand.key \in Identifiers
               /\ operand.key \in DOMAIN question.criteria.entries
            \/ /\ question.type = "score"
               /\ \E i \in 1 .. Len(question.criteria.entries) :
                    LevelKeys[i] = operand.key

resolveFactOperand(doc, operand) ==
    /\ operand.field = "" /\ operand.key = ""
    /\ operand.fact \in DOMAIN declaredFacts(doc)

resolveAnswerOperand(doc, operand, phase) ==
    /\ phase = "decisionRules"
    /\ operand.answer \in DOMAIN doc.questions
    /\ operand.field \in AnswerFields
    /\ AvailableOn(operand.field, doc.questions[operand.answer].type)
    /\ validateProbabilityKey(doc.questions[operand.answer], operand)

resolveOperand(doc, operand, phase) ==
    /\ (operand.fact # "") # (operand.answer # "")
    /\ IF operand.fact # "" THEN resolveFactOperand(doc, operand)
       ELSE resolveAnswerOperand(doc, operand, phase)

checkFactRightValue(type, op, v) ==
    \/ type = "number" /\ IsNumber(v)
    \/ /\ type = "string" /\ op \notin Ordering
       /\ v.kind = "string" /\ v.str \notin Oversized
    \/ type = "boolean" /\ op \in {"eq", "neq"} /\ v.kind = "bool"

\* A NaN is neither below 0 nor above 1.
checkNumericAnswerRange(field, v) ==
    field \in {"confidence", "noul", "probability"} =>
        v.kind = "nan" \/ v.num \in 0 .. One

checkAnswerRightValue(question, field, op, v) ==
    IF field = "choice"
    THEN /\ op \notin Ordering
         /\ v.kind = "string"
         /\ v.str \in DOMAIN question.criteria.entries
    ELSE IsNumber(v) /\ checkNumericAnswerRange(field, v)

checkRightValue(doc, operand, op, v) ==
    IF operand.fact # ""
    THEN checkFactRightValue(declaredFacts(doc)[operand.fact], op, v)
    ELSE checkAnswerRightValue(doc.questions[operand.answer],
                               operand.field, op, v)

compileLeaf(doc, node, phase) ==
    LET operand == node.left[1]
    IN  /\ node.op \in Operators
        /\ resolveOperand(doc, operand, phase)
        /\ CASE node.op = "exists" ->
                  /\ node.right.kind \in {"absent", "bool"}
                  /\ operand.fact # "" \/ operand.field = "confidence"
             [] node.op = "in" ->
                  /\ node.right.kind = "list"
                  /\ Len(node.right.list) \in 1 .. Limits.rightList
                  /\ \A i \in DOMAIN node.right.list :
                       checkRightValue(doc, operand, node.op,
                                       node.right.list[i])
             [] OTHER ->
                  /\ node.right.kind # "absent"
                  /\ checkRightValue(doc, operand, node.op, node.right)

compileCondition(doc, nodes, phase) ==
    \A i \in DOMAIN nodes :
        /\ Depths(nodes)[i] <= Limits.conditionDepth
        /\ Cardinality(Branches(nodes[i])) = 1
        /\ Len(Children(nodes[i])) <= Limits.conditionsPerOp
        /\ nodes[i].left # <<>> => compileLeaf(doc, nodes[i], phase)

\* A compiled node: the children and the kind of a combinator, or the
\* operand and the right side of a leaf, with its numbers as float64.
CompiledNode(node) ==
    LET leaf == node.left # <<>>
    IN  [kind |-> CHOOSE b \in Branches(node) : TRUE,
         children |-> Children(node),
         operand |-> node.left,
         op |-> IF leaf THEN node.op ELSE "",
         rightScalar |-> IF leaf /\ node.op \notin {"in", "exists"}
                         THEN AsNumber(node.right) ELSE Absent,
         rightList |-> IF leaf /\ node.op = "in"
                       THEN [i \in DOMAIN node.right.list |->
                               AsNumber(node.right.list[i])]
                       ELSE <<>>,
         rightBool |-> leaf /\ node.op = "exists"
                         /\ (node.right.kind = "absent" \/ node.right.bool)]

-----------------------------------------------------------------------------
(* Rules and documents. *)

compileRule(doc, rule, phase) ==
    /\ rule.id \in DashedIdentifiers
    /\ rule.description \notin Oversized
    /\ rule.outcome \in Range(doc.outcomes)
    /\ compileCondition(doc, rule.when, phase)

compileRules(doc, rules, phase) ==
    /\ Len(rules) <= Limits.rules
    /\ \A i \in DOMAIN rules :
         /\ compileRule(doc, rules[i], phase)
         /\ rules[i].when = <<>> => i = Len(rules)

\* The set of rule IDs is kept per phase.
RuleIDsOfAPhase(doc) == [i \in DOMAIN doc.decisionRules |->
                           doc.decisionRules[i].id]

RuleIDs(doc) == [i \in 1 .. Len(doc.preRules \o doc.decisionRules) |->
                   (doc.preRules \o doc.decisionRules)[i].id]

validateDocumentIdentity(doc) ==
    doc.apiVersion = "v1alpha1" /\ doc.kind = "DecisionPolicy"

compileMetadata(doc) ==
    /\ doc.name \in DashedIdentifiers
    /\ doc.version \notin Oversized \cup Untrimmed \cup {""}
    /\ doc.description \notin Oversized

compileOutcomes(doc) ==
    /\ Len(doc.outcomes) \in 1 .. Limits.outcomes
    /\ Range(doc.outcomes) \subseteq DashedIdentifiers
    /\ IsInjective(doc.outcomes)
    /\ doc.defaultOutcome \in Range(doc.outcomes)

compileFacts(doc) ==
    /\ Cardinality(DOMAIN doc.required) + Cardinality(DOMAIN doc.optional)
           <= Limits.facts
    /\ DOMAIN doc.required \cap DOMAIN doc.optional = {}
    /\ \A f \in DOMAIN declaredFacts(doc) :
         f \in FactNames /\ declaredFacts(doc)[f] \in FactTypes

resolveMaxQuestions(max) ==
    IF max \in 1 .. Limits.questions THEN max ELSE Limits.questions

compileQuestions(doc, max) ==
    /\ Cardinality(DOMAIN doc.questions) \in 1 .. resolveMaxQuestions(max)
    /\ \A id \in DOMAIN doc.questions : compileQuestion(id, doc.questions[id])

\* Canonical JSON has no NaN, so a policy that compares with one fails last.
Encodes(rules) ==
    \A r \in DOMAIN rules : \A i \in DOMAIN rules[r].when :
        LET right == rules[r].when[i].right
        IN  rules[r].when[i].left # <<>> =>
            /\ right.kind # "nan"
            /\ right.kind = "list" =>
                 \A k \in DOMAIN right.list : right.list[k].kind # "nan"

\* Whether CompileWithMaxQuestions returns a policy.
Compiles(doc, max) ==
    /\ validateDocumentIdentity(doc)
    /\ compileMetadata(doc)
    /\ compileOutcomes(doc)
    /\ compileFacts(doc)
    /\ compileQuestions(doc, max)
    /\ compileRules(doc, doc.preRules, "preRules")
    /\ compileRules(doc, doc.decisionRules, "decisionRules")
    /\ IsInjective(RuleIDs(doc))
    /\ Encodes(doc.preRules \o doc.decisionRules)

CompiledRules(rules) ==
    [i \in DOMAIN rules |->
       [rules[i] EXCEPT !.when = [n \in DOMAIN @ |-> CompiledNode(@[n])]]]

\* A map walk without the sort that follows it.
questionOrdersOfTheMap(ids) ==
    {s \in [1 .. Cardinality(ids) -> ids] : IsInjective(s)}

\* The order of sort.Strings.
Precedes(a, b) ==
    \E i, j \in DOMAIN SortedNames :
        i < j /\ SortedNames[i] = a /\ SortedNames[j] = b

\* The orders the question names may end in: sorted, whatever the map walk.
questionOrders(ids) ==
    {s \in [1 .. Cardinality(ids) -> ids] :
       \A i, j \in DOMAIN s : i < j => Precedes(s[i], s[j])}

\* The policies CompileWithMaxQuestions may return.
CompiledForms(doc) ==
    LET choices == UNION {CompiledQuestions(doc.questions[id]) :
                            id \in DOMAIN doc.questions}
    IN  {[ref            |-> <<doc.name, doc.version>>,
          description    |-> doc.description,
          model          |-> doc.model,
          outcomes       |-> doc.outcomes,
          defaultOutcome |-> doc.defaultOutcome,
          required       |-> doc.required,
          optional       |-> doc.optional,
          strict         |-> doc.strict,
          questions      |-> questions,
          questionIDs    |-> order,
          preRules       |-> CompiledRules(doc.preRules),
          decisionRules  |-> CompiledRules(doc.decisionRules)] :
            order \in questionOrders(DOMAIN doc.questions),
            questions \in {q \in [DOMAIN doc.questions -> choices] :
                             \A id \in DOMAIN q :
                                q[id] \in CompiledQuestions(doc.questions[id])}}

-----------------------------------------------------------------------------
(* The canonical form.  Its hash stands for it. *)

\* The probability key is forgotten.
canonicalizeConditionWithoutKey(node) ==
    IF node.children # <<>> THEN [kind |-> node.kind, children |-> node.children]
    ELSE [kind |-> node.kind, op |-> node.op,
          operand |-> [node.operand[1] EXCEPT !.key = ""],
          rightScalar |-> node.rightScalar, rightList |-> node.rightList,
          rightBool |-> node.rightBool]

\* The types of the operands are dropped, the combinator's empty leaf too.
canonicalizeCondition(node) ==
    IF node.children # <<>> THEN [kind |-> node.kind, children |-> node.children]
    ELSE [kind |-> node.kind, op |-> node.op, operand |-> node.operand[1],
          rightScalar |-> node.rightScalar, rightList |-> node.rightList,
          rightBool |-> node.rightBool]

canonicalRules(rules) ==
    [i \in DOMAIN rules |->
       [rules[i] EXCEPT !.when =
          [n \in DOMAIN @ |-> canonicalizeCondition(@[n])]]]

canonicalize(c) ==
    [ref |-> c.ref, description |-> c.description, model |-> c.model,
     outcomes |-> c.outcomes, defaultOutcome |-> c.defaultOutcome,
     required |-> c.required, optional |-> c.optional, strict |-> c.strict,
     questions |-> [i \in DOMAIN c.questionIDs |->
                      <<c.questionIDs[i], c.questions[c.questionIDs[i]]>>],
     preRules |-> canonicalRules(c.preRules),
     decisionRules |-> canonicalRules(c.decisionRules)]

-----------------------------------------------------------------------------
(* Evaluation. *)

\* A field of an answer, Absent when the answer has none.
Field(answer, field) ==
    IF ~AvailableOn(field, answer.type) \/ field = "probability" THEN Absent
    ELSE IF field = "confidence" /\ ~answer.hasConfidence THEN Absent
    ELSE answer[field]

Probability(answer, key) ==
    IF /\ AvailableOn("probability", answer.type)
       /\ key \in DOMAIN answer.probabilities
    THEN answer.probabilities[key] ELSE Absent

\* What a leaf reads.
Operand(operand, facts, answers) ==
    IF operand.fact # ""
    THEN IF operand.fact \in DOMAIN facts THEN facts[operand.fact] ELSE Absent
    ELSE IF operand.answer \notin DOMAIN answers THEN Absent
    ELSE IF operand.field = "probability"
    THEN Probability(answers[operand.answer], operand.key)
    ELSE Field(answers[operand.answer], operand.field)

scalarEqual(left, right) ==
    \/ IsNumber(left) /\ IsNumber(right) /\ left.num = right.num
    \/ left.kind \in {"string", "bool"} /\ left = right

compareOrdered(left, right, op) ==
    /\ IsNumber(left) /\ IsNumber(right)
    /\ \/ op = "lt" /\ left.num < right.num
       \/ op = "lte" /\ left.num <= right.num
       \/ op = "gt" /\ left.num > right.num
       \/ op = "gte" /\ left.num >= right.num

evaluateLeaf(node, facts, answers) ==
    LET left == Operand(node.operand[1], facts, answers)
    IN  IF node.op = "exists" THEN (left # Absent) = node.rightBool
        ELSE /\ left # Absent
             /\ \/ node.op = "eq" /\ scalarEqual(left, node.rightScalar)
                \/ node.op = "neq" /\ ~scalarEqual(left, node.rightScalar)
                \/ /\ node.op = "in"
                   /\ \E i \in DOMAIN node.rightList :
                        scalarEqual(left, node.rightList[i])
                \/ /\ node.op \in Ordering
                   /\ compareOrdered(left, node.rightScalar, node.op)

Evaluate(nodes, facts, answers) ==
    LET holds[i \in DOMAIN nodes] ==
          LET below == Range(nodes[i].children)
          IN  CASE nodes[i].kind = "all" -> \A c \in below : holds[c]
                [] nodes[i].kind = "any" -> \E c \in below : holds[c]
                [] nodes[i].kind = "not" -> \A c \in below : ~holds[c]
                [] nodes[i].kind = "left" ->
                     evaluateLeaf(nodes[i], facts, answers)
    IN  holds[1]

RuleMatches(rule, facts, answers) ==
    rule.when = <<>> \/ Evaluate(rule.when, facts, answers)

\* The first rule that matches, 0 when none does.
FirstMatch(rules, facts, answers) ==
    LET matching == {i \in DOMAIN rules :
                       RuleMatches(rules[i], facts, answers)}
    IN  IF matching = {} THEN 0
        ELSE CHOOSE i \in matching : \A j \in matching : i <= j

ValidateFacts(c, facts) ==
    /\ \A f \in DOMAIN c.required :
         f \in DOMAIN facts /\ Matches(c.required[f], facts[f])
    /\ \A f \in DOMAIN c.optional \cap DOMAIN facts :
         Matches(c.optional[f], facts[f])
    /\ c.strict => DOMAIN facts \subseteq DOMAIN c.required \cup DOMAIN c.optional

isProbability(v) == v.kind = "float" /\ v.num \in 0 .. One

validateConfidence(answer) ==
    answer.hasConfidence /\ isProbability(answer.confidence)

\* The sum of a distribution as it was decoded.
Total(probabilities) ==
    FoldFunction(LAMBDA v, sum : v.num + sum, 0, probabilities)

\* No tolerance at all.
validateDistributionExactly(probabilities) == Total(probabilities) = One

validateDistribution(probabilities) ==
    /\ \A k \in DOMAIN probabilities : isProbability(probabilities[k])
    /\ Total(probabilities) \in One - Tolerance .. One + Tolerance

validateChoiceAnswer(question, answer) ==
    /\ answer.choice.str \in DOMAIN question.criteria
    /\ validateConfidence(answer)
    /\ DOMAIN answer.probabilities = DOMAIN question.criteria
    /\ validateDistribution(answer.probabilities)

validateScoreAnswer(question, answer) ==
    LET levels == Len(question.criteria)
        keys == {LevelKeys[i] : i \in 1 .. levels}
    IN  /\ answer.score.kind = "float"
        /\ answer.score.num \in 0 .. (levels - 1) * One
        /\ validateConfidence(answer)
        /\ DOMAIN answer.probabilities = keys
        /\ DOMAIN answer.legend = keys
        /\ \A i \in 1 .. levels :
             answer.legend[LevelKeys[i]] = question.criteria[i]
        /\ validateDistribution(answer.probabilities)

validateAnswer(question, answer) ==
    /\ answer.type = question.type
    /\ CASE question.type = "noul" -> isProbability(answer.noul)
         [] question.type = "choice" -> validateChoiceAnswer(question, answer)
         [] question.type = "score" -> validateScoreAnswer(question, answer)

ValidateAnswers(c, answers) ==
    /\ DOMAIN answers = Range(c.questionIDs)
    /\ \A id \in DOMAIN answers : validateAnswer(c.questions[id], answers[id])

=============================================================================
