---------------------------- MODULE PolicyEngine ----------------------------
(***************************************************************************)
(* Policies at work: the directory loaded at a start, the policy one       *)
(* evaluation resolves, the facts it validates, the pre-rules, the         *)
(* provider's reply as the adapter decodes it, and the decision rules.     *)
(* Module Evaluations has the rows, the keys and the races of an           *)
(* evaluation and takes all of this as given.                              *)
(***************************************************************************)
EXTENDS PolicyCompiler

CONSTANTS
    Directories,     \* the directories a start may find: sequences of files
    InlineData,      \* the documents a request may carry
    FactSets,        \* the facts a request may carry
    Replies,         \* what the provider may send
    Float32,         \* the float64 of the float32 nearest to a decimal
    Widening,        \* how far this moves the sum of a reply's distribution
    MaxPolicyBytes,
    MaxQuestions     \* the deployment's question ceiling

\* Everything that is ever compiled.
Data == InlineData \cup UNION {Range(dir) : dir \in Directories}

ASSUME DocumentsAssumption == \A data \in Data : DocumentShape(data.doc)

VARIABLES
    directory,
    stage,           \* what the process does next
    loaded,          \* policy.Set: the compiled policies by reference
    hashes,          \* those of the last start from the same directory
    policy,          \* the policy of the evaluation, a sequence of at most one
    facts,
    reply,           \* the provider's reply, at most one
    result           \* policy.Result, or why there is none

vars == <<directory, stage, loaded, hashes, policy, facts, reply, result>>

NoResult == [path |-> "none", rule |-> "", outcome |-> ""]

Failed(why) == [NoResult EXCEPT !.path = why]

-----------------------------------------------------------------------------
(* The loader. *)

\* A document within its size that holds exactly one YAML document.
ParseDocument(data) ==
    data.bytes <= MaxPolicyBytes /\ data.form = "document"

CompileBytes(data) ==
    ParseDocument(data) /\ Compiles(data.doc, MaxQuestions)

loadPolicyFile(file) == file.mode = "regular" /\ CompileBytes(file)

\* Which files of a directory are read.
policyFiles(dir) == {i \in DOMAIN dir : dir[i].ext \in {".yaml", ".yml"}}

Ref(file) == <<file.doc.name, file.doc.version>>

\* The sets LoadDir may return: none when a file does not load or two files
\* have one reference.
LoadDir(dir) ==
    LET files == policyFiles(dir)
        forms == UNION {CompiledForms(dir[i].doc) : i \in files}
    IN  IF /\ \A i \in files : loadPolicyFile(dir[i])
           /\ \A i, j \in files : Ref(dir[i]) = Ref(dir[j]) => i = j
        THEN {set \in [{Ref(dir[i]) : i \in files} -> forms] :
                \A i \in files :
                    set[Ref(dir[i])] \in CompiledForms(dir[i].doc)}
        ELSE {}

Hashes(set) == [ref \in DOMAIN set |-> canonicalize(set[ref])]

-----------------------------------------------------------------------------
(* The provider adapter. *)

Float(decimal) == [kind |-> "float", num |-> Float32[decimal]]

DecimalSum(decimals) == FoldFunction(+, 0, decimals)

\* Whole numbers are float32 numbers and rounding is monotone, so a decimal
\* stays between them.
ASSUME RoundingAssumption ==
    /\ 0 \in DOMAIN Float32
    /\ \A d \in DOMAIN Float32 : \A m \in 1 .. 9 :
         d \in 0 .. One * m => Float32[d] \in 0 .. One * m

\* What a reply holds are decimals.
ASSUME RepliesAssumption ==
    /\ Widening \in Nat
    /\ \A r \in Replies : \A id \in DOMAIN r.answers :
         LET wire == r.answers[id]
             sum == DecimalSum(wire.probabilities)
         IN  /\ Range(wire.numbers) \subseteq DOMAIN Float32
             /\ Range(wire.probabilities) \subseteq DOMAIN Float32
             /\ Total([k \in DOMAIN wire.probabilities |->
                         Float(wire.probabilities[k])])
                    \in sum - Widening .. sum + Widening

\* A legend entry is decoded without UseNumber.  Echoed marks an entry in
\* which the provider repeats the level it was asked with.
decodeUnion(value, level) ==
    LET sent == IF value.form = "echoed" THEN level ELSE value
    IN  IF sent.number = "none" THEN sent ELSE [sent EXCEPT !.number = "float64"]

\* The level a legend key stands for, when the question has one.
Level(c, id, key) ==
    LET at == IF id \in DOMAIN c.questions /\ c.questions[id].type = "score"
              THEN {i \in 1 .. Len(c.questions[id].criteria) :
                      LevelKeys[i] = key}
              ELSE {}
    IN  IF at = {} THEN [form |-> "null", number |-> "none"]
        ELSE c.questions[id].criteria[CHOOSE i \in at : TRUE]

\* A number the provider leaves out decodes as zero, and hasConfidence says
\* only that the type of the answer has a confidence.
normalizeAnswer(c, id, wire) ==
    LET number(name) ==
            Float(IF name \in DOMAIN wire.numbers THEN wire.numbers[name] ELSE 0)
        of(types, v, zero) == IF wire.type \in types THEN v ELSE zero
    IN  [type          |-> wire.type,
         noul          |-> of({"noul"}, number("noul"), Float(0)),
         choice        |-> [kind |-> "string",
                            str |-> of({"choice"}, wire.choice, "")],
         score         |-> of({"score"}, number("score"), Float(0)),
         confidence    |-> of({"choice", "score"}, number("confidence"),
                              Float(0)),
         hasConfidence |-> wire.type \in {"choice", "score"},
         probabilities |-> of({"choice", "score"},
                              [k \in DOMAIN wire.probabilities |->
                                 Float(wire.probabilities[k])], <<>>),
         legend        |-> of({"score"},
                              [k \in DOMAIN wire.legend |->
                                 decodeUnion(wire.legend[k], Level(c, id, k))],
                              <<>>)]

\* A reply without a model or with an unknown answer type is not decoded.
Decodes(r) ==
    r.model # "" /\ \A id \in DOMAIN r.answers :
        r.answers[id].type \in QuestionTypes

normalizeResponse(c, r) ==
    [id \in DOMAIN r.answers |-> normalizeAnswer(c, id, r.answers[id])]

\* The checks of the adapter and its client on the request they build.
buildRequest(c) ==
    /\ c.questionIDs # <<>>
    /\ IsInjective(c.questionIDs)
    /\ \A id \in DOMAIN c.questions :
         LET q == c.questions[id]
         IN  /\ id # ""
             /\ q.type = "choice" => Cardinality(DOMAIN q.criteria) \in 1 .. 255
             /\ q.type = "score" => Len(q.criteria) \in 2 .. 10

-----------------------------------------------------------------------------
(* The steps. *)

Init ==
    /\ directory \in Directories
    /\ stage = "down"
    /\ loaded = <<>>
    /\ hashes = <<>>
    /\ policy = <<>>
    /\ facts = <<>>
    /\ reply = <<>>
    /\ result = NoResult

\* Dependencies are built: a policy file that does not load is no start.
Start ==
    /\ stage = "down"
    /\ \/ \E set \in LoadDir(directory) : stage' = "idle" /\ loaded' = set
       \/ LoadDir(directory) = {} /\ stage' = "failed" /\ loaded' = <<>>
    /\ UNCHANGED <<directory, hashes, policy, facts, reply, result>>

\* The process ends, and starts again from the same directory or another.
Redeploy ==
    /\ stage \in {"idle", "failed"}
    /\ stage' = "down"
    /\ loaded' = <<>>
    /\ \/ directory' = directory /\ hashes' = Hashes(loaded)
       \/ directory' \in Directories /\ hashes' = <<>>
    /\ UNCHANGED <<policy, facts, reply, result>>

Settle(r) == stage' = "done" /\ result' = r

\* resolvePolicy with a reference, loaded or not.
ResolveNamed ==
    /\ stage = "idle"
    /\ \/ /\ \E ref \in DOMAIN loaded : policy' = <<loaded[ref]>>
          /\ stage' = "facts"
          /\ UNCHANGED result
       \/ Settle(Failed("not_found")) /\ UNCHANGED policy
    /\ UNCHANGED <<directory, loaded, hashes, facts, reply>>

\* resolvePolicy with a document.
ResolveInline(data) ==
    /\ stage = "idle"
    /\ IF CompileBytes(data)
       THEN /\ \E c \in CompiledForms(data.doc) : policy' = <<c>>
            /\ stage' = "facts"
            /\ UNCHANGED result
       ELSE Settle(Failed("invalid_policy")) /\ UNCHANGED policy
    /\ UNCHANGED <<directory, loaded, hashes, facts, reply>>

EvaluatePreRules(c, f) ==
    LET i == FirstMatch(c.preRules, f, <<>>)
    IN  IF i = 0 THEN NoResult
        ELSE [path |-> "pre_rule", rule |-> c.preRules[i].id,
              outcome |-> c.preRules[i].outcome]

EvaluateDecisionRules(c, f, answers) ==
    LET i == FirstMatch(c.decisionRules, f, answers)
    IN  IF i = 0
        THEN [path |-> "default", rule |-> "", outcome |-> c.defaultOutcome]
        ELSE [path |-> "decision_rule", rule |-> c.decisionRules[i].id,
              outcome |-> c.decisionRules[i].outcome]

\* The facts are validated, then the pre-rules run on them.
Decide(f) ==
    /\ stage = "facts"
    /\ facts' = f
    /\ LET early == EvaluatePreRules(policy[1], f)
       IN  IF ~ValidateFacts(policy[1], f) THEN Settle(Failed("input_invalid"))
           ELSE IF early # NoResult THEN Settle(early)
           ELSE stage' = "asked" /\ UNCHANGED result
    /\ UNCHANGED <<directory, loaded, hashes, policy, reply>>

\* The provider's reply is decoded, validated, and the decision rules run.
ProviderAnswers(r) ==
    /\ stage = "asked"
    /\ reply' = <<r>>
    /\ LET answers == normalizeResponse(policy[1], r)
       IN  IF ~Decodes(r) THEN Settle(Failed("parse_failed"))
           ELSE IF ~ValidateAnswers(policy[1], answers)
           THEN Settle(Failed("provider_protocol"))
           ELSE Settle(EvaluateDecisionRules(policy[1], facts, answers))
    /\ UNCHANGED <<directory, loaded, hashes, policy, facts>>

\* The evaluation is over; the next one starts from nothing.
Finish ==
    /\ stage = "done"
    /\ stage' = "idle"
    /\ policy' = <<>>
    /\ facts' = <<>>
    /\ reply' = <<>>
    /\ result' = NoResult
    /\ UNCHANGED <<directory, loaded, hashes>>

Next ==
    \/ Start
    \/ Redeploy
    \/ ResolveNamed
    \/ \E data \in InlineData : ResolveInline(data)
    \/ \E f \in FactSets : Decide(f)
    \/ \E r \in Replies : ProviderAnswers(r)
    \/ Finish

Spec == Init /\ [][Next]_vars

-----------------------------------------------------------------------------
(* Properties. *)

Rules(c) == c.preRules \o c.decisionRules

Answers == IF reply = <<>> THEN <<>> ELSE normalizeResponse(policy[1], reply[1])

\* What a leaf reads is of the type its right side was checked against.
ReadsItsType(node) ==
    LET left == Operand(node.operand[1], facts, Answers)
        right == IF node.op = "in" THEN Range(node.rightList)
                 ELSE {node.rightScalar}
        type(v) == IF IsNumber(v) THEN "number" ELSE v.kind
    IN  \/ left = Absent /\ node.operand[1].fact \in DOMAIN policy[1].optional
        \/ /\ left # Absent
           /\ node.op # "exists" => \A v \in right : type(v) = type(left)

\* "It cannot fail" (Evaluate): once facts and answers are validated, every
\* leaf of the rules about to run reads a value that is there and has the type
\* the compiler assumed; only an optional fact may be missing.  The checks that
\* make it so are spread over the compiler, ValidateFacts and ValidateAnswers.
OperandsAreTyped ==
    /\ (stage = "asked" \/ result.path = "pre_rule") =>
         \A i \in DOMAIN policy[1].preRules :
            \A n \in DOMAIN policy[1].preRules[i].when :
              policy[1].preRules[i].when[n].kind = "left" =>
                ReadsItsType(policy[1].preRules[i].when[n])
    /\ result.path \in {"decision_rule", "default"} =>
         \A i \in DOMAIN policy[1].decisionRules :
            \A n \in DOMAIN policy[1].decisionRules[i].when :
              policy[1].decisionRules[i].when[n].kind = "left" =>
                ReadsItsType(policy[1].decisionRules[i].when[n])

\* The record explains itself: the rule it names is one rule of the policy, in
\* the phase the path says, with the outcome recorded; the outcome is declared;
\* and the provider was asked exactly when no pre-rule decided.
DecisionIsExplained ==
    result.path \in {"pre_rule", "decision_rule", "default"} =>
        /\ result.outcome \in Range(policy[1].outcomes)
        /\ (result.path = "pre_rule") = (reply = <<>>)
        /\ LET named == {i \in DOMAIN Rules(policy[1]) :
                           Rules(policy[1])[i].id = result.rule}
           IN  IF result.path = "default" THEN named = {}
               ELSE \E i \in DOMAIN Rules(policy[1]) :
                      /\ named = {i}
                      /\ Rules(policy[1])[i].outcome = result.outcome
                      /\ (i <= Len(policy[1].preRules))
                             = (result.path = "pre_rule")

\* The policies a document of the instance compiles to.
Compilable ==
    UNION {CompiledForms(data.doc) : data \in {d \in Data : CompileBytes(d)}}

\* The hash recorded with an evaluation stands for the policy's behaviour: a
\* policy with the same hash takes the same facts to the same result, and the
\* same answers.
SameHashSameDecision ==
    result.path \in {"pre_rule", "decision_rule", "default"} =>
        \A c \in Compilable : canonicalize(c) = canonicalize(policy[1]) =>
            /\ ValidateFacts(c, facts)
            /\ EvaluatePreRules(c, facts) = EvaluatePreRules(policy[1], facts)
            /\ reply # <<>> =>
                 /\ ValidateAnswers(c, Answers)
                 /\ EvaluateDecisionRules(c, facts, Answers) = result

\* A noul question that spells a key of its criteria both ways.
SpelledTwice(doc) ==
    \E id \in DOMAIN doc.questions :
        /\ doc.questions[id].type = "noul"
        /\ doc.questions[id].criteria.shape = "general"
        /\ \E f, g \in noulCriteriaMap(doc.questions[id].criteria) : f # g

\* A restart on unchanged files does not change a policy's hash, although every
\* map the compiler walks has its own order.  The one exception: a noul
\* question whose YAML criteria spell a key both as a boolean and as a string.
HashSurvivesRestart ==
    stage = "idle" /\ hashes # <<>> =>
        \A i \in DOMAIN directory :
            directory[i].ext = ".yaml" /\ ~SpelledTwice(directory[i].doc) =>
                hashes[Ref(directory[i])]
                    = canonicalize(loaded[Ref(directory[i])])

\* An answer to exactly what was asked: the types, the keys and the levels of
\* the questions, and numbers in range whose decimals sum to 1 within the
\* tolerance.
Honest(c, r) ==
    /\ Decodes(r)
    /\ DOMAIN r.answers = DOMAIN c.questions
    /\ \A id \in DOMAIN c.questions :
         LET wire == r.answers[id]
             q == c.questions[id]
             keys == IF q.type = "score"
                     THEN {LevelKeys[i] : i \in DOMAIN q.criteria}
                     ELSE DOMAIN q.criteria
         IN  /\ wire.type = q.type
             /\ \A name \in DOMAIN wire.numbers :
                  wire.numbers[name]
                      \in 0 .. One * (IF name = "score"
                                      THEN Len(q.criteria) - 1 ELSE 1)
             /\ q.type # "noul" =>
                  /\ DOMAIN wire.probabilities = keys
                  /\ \A k \in keys : wire.probabilities[k] \in 0 .. One
                  /\ DecimalSum(wire.probabilities)
                         \in One - Tolerance .. One + Tolerance
             /\ q.type = "choice" => wire.choice \in keys
             /\ q.type = "score" =>
                  /\ DOMAIN wire.legend = keys
                  /\ \A k \in keys : wire.legend[k].form = "echoed"

\* An accepted policy can be asked and answered: the adapter takes every
\* request the compiler lets through, and an honest reply is not a protocol
\* failure.  Two exceptions: a score level with a number in it, whose legend
\* comes back as a float64 where the policy has a json.Number; and a sum at
\* the edge of the tolerance, which the widening of float32 may push over it.
HonestAnswersPass ==
    /\ stage = "asked" => buildRequest(policy[1])
    /\ result.path \in {"parse_failed", "provider_protocol"}
         /\ Honest(policy[1], reply[1]) =>
            \E id \in DOMAIN policy[1].questions :
              \/ /\ policy[1].questions[id].type = "score"
                 /\ \E i \in DOMAIN policy[1].questions[id].criteria :
                      policy[1].questions[id].criteria[i].number # "none"
              \/ /\ policy[1].questions[id].type # "noul"
                 /\ DecimalSum(reply[1].answers[id].probabilities)
                        \notin One - Tolerance + Widening
                                .. One + Tolerance - Widening

=============================================================================
