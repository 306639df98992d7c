------------------------- MODULE PolicyEngineProofs -------------------------
(***************************************************************************)
(* Proofs about PolicyCompiler and PolicyEngine, for every set of          *)
(* documents, facts and replies and every ceiling.                         *)
(***************************************************************************)
EXTENDS PolicyEngine, FiniteSetTheorems, WellFoundedInduction, TLAPS

-----------------------------------------------------------------------------
(* Numbers and orders. *)

\* A set of naturals has a least element.
LEMMA LeastExists ==
  ASSUME NEW S, S \subseteq Nat, S # {}
  PROVE  \E i \in S : \A j \in S : i <= j
<1>1. PICK i \in S : \A j \in S : ~ (<<j, i>> \in OpToRel(<, Nat))
  BY NatLessThanWellFounded, WFMin
<1>2. \A j \in S : ~ (j < i)
  BY <1>1 DEF OpToRel
<1> QED  BY <1>2

\* The indices of a sequence.
LEMMA SeqDomain ==
  ASSUME NEW S, NEW s \in Seq(S)
  PROVE  DOMAIN s = 1 .. Len(s) /\ Len(s) \in Nat /\ DOMAIN s \subseteq Nat
  OBVIOUS

\* The names have places in the order, each its own.
LEMMA Places ==
  /\ DOMAIN SortedNames \subseteq Nat
  /\ \A i, j \in DOMAIN SortedNames : SortedNames[i] = SortedNames[j] => i = j
<1>1. SortedNames \in Seq(STRING) /\ IsInjective(SortedNames)
  BY NamesAssumption
<1>2. DOMAIN SortedNames \subseteq Nat
  BY <1>1, SeqDomain
<1> QED  BY <1>1, <1>2 DEF IsInjective

\* The order of the names is irreflexive and asymmetric.
LEMMA PrecedesIsStrict ==
  ASSUME NEW a, NEW b, Precedes(a, b)
  PROVE  a # b /\ ~Precedes(b, a)
<1>1. PICK i, j \in DOMAIN SortedNames :
        i < j /\ SortedNames[i] = a /\ SortedNames[j] = b
  BY DEF Precedes
<1>2. a # b
  BY <1>1, Places
<1>3. ASSUME Precedes(b, a) PROVE FALSE
  <2>1. PICK k, l \in DOMAIN SortedNames :
          k < l /\ SortedNames[k] = b /\ SortedNames[l] = a
    BY <1>3 DEF Precedes
  <2>2. k = j /\ l = i
    BY <1>1, <2>1, Places
  <2> QED  BY <1>1, <2>1, <2>2, Places
<1> QED  BY <1>2, <1>3

\* Of two question names one sorts before the other.
LEMMA PrecedesIsTotal ==
  ASSUME NEW a \in Range(SortedNames), NEW b \in Range(SortedNames), a # b
  PROVE  Precedes(a, b) \/ Precedes(b, a)
<1>1. PICK i, j \in DOMAIN SortedNames : SortedNames[i] = a /\ SortedNames[j] = b
  BY DEF Range
<1>2. i \in Nat /\ j \in Nat /\ i # j
  BY <1>1, Places
<1> QED  BY <1>1, <1>2 DEF Precedes

\* An order of the questions lists each of them once.
LEMMA OrdersAreBijections ==
  ASSUME NEW ids, IsFiniteSet(ids), NEW s \in questionOrders(ids)
  PROVE  /\ s \in [1 .. Cardinality(ids) -> ids]
         /\ IsInjective(s)
         /\ Range(s) = ids
<1> DEFINE n == Cardinality(ids)
<1>1. n \in Nat
  BY FS_CardinalityType
<1>2. s \in [1 .. n -> ids]
  BY DEF questionOrders
<1>3. \A i, j \in 1 .. n : i < j => s[i] # s[j]
  BY <1>2, PrecedesIsStrict DEF questionOrders
<1>4. \A i, j \in 1 .. n : s[i] = s[j] => i = j
  BY <1>1, <1>3
<1>5. s \in Injection(1 .. n, ids)
  BY <1>2, <1>4 DEF Injection, IsInjective
<1>6. Cardinality(1 .. n) = n
  <2> HIDE DEF n
  <2> QED  BY <1>1, FS_Interval
<1>7. s \in Surjection(1 .. n, ids)
  BY <1>5, <1>6, FS_Injection
<1> QED  BY <1>2, <1>4, <1>7 DEF Surjection, IsInjective, Range

\* sort.Strings leaves one order, whatever order the map had.
LEMMA OneOrder ==
  ASSUME NEW ids, IsFiniteSet(ids), ids \subseteq Range(SortedNames),
         NEW s \in questionOrders(ids), NEW t \in questionOrders(ids)
  PROVE  s = t
<1> DEFINE n == Cardinality(ids)
<1> DEFINE D == {i \in 1 .. n : s[i] # t[i]}
<1>1. n \in Nat
  BY FS_CardinalityType
<1>2. /\ s \in [1 .. n -> ids] /\ Range(s) = ids
      /\ t \in [1 .. n -> ids] /\ Range(t) = ids
  BY OrdersAreBijections
<1>3. SUFFICES ASSUME s # t PROVE FALSE
  OBVIOUS
<1>4. PICK i \in D : \A j \in D : i <= j
  <2>1. PICK i \in 1 .. n : s[i] # t[i]
    <3>1. s \in [1 .. n -> ids] /\ t \in [1 .. n -> ids]
      BY <1>2
    <3> HIDE DEF n
    <3>2. ASSUME \A i \in 1 .. n : s[i] = t[i] PROVE s = t
      BY <1>1, <3>1, <3>2
    <3> QED  BY <1>3, <3>2
  <2>2. D \subseteq Nat /\ D # {}
    BY <1>1, <2>1
  <2> QED  BY <2>2, LeastExists
<1>5. \A j \in 1 .. n : j < i => s[j] = t[j]
  BY <1>1, <1>4
<1>6. ASSUME NEW u \in questionOrders(ids), NEW v \in questionOrders(ids),
             u \in [1 .. n -> ids], v \in [1 .. n -> ids], Range(v) = ids,
             \A j \in 1 .. n : j < i => u[j] = v[j],
             u[i] # v[i], Precedes(u[i], v[i])
      PROVE  FALSE
  <2>1. i \in 1 .. n /\ u[i] \in ids
    BY <1>4, <1>6
  <2>2. PICK k \in 1 .. n : v[k] = u[i]
    BY <1>6, <2>1 DEF Range
  <2>3. \A a, b \in 1 .. n : a < b => u[a] # u[b]
    BY <1>6, PrecedesIsStrict DEF questionOrders
  <2>4. ~ (k < i)
    BY <1>6, <2>1, <2>2, <2>3
  <2>5. i < k
    BY <1>1, <1>6, <2>1, <2>2, <2>4
  <2>6. Precedes(v[i], v[k])
    BY <1>6, <2>1, <2>5 DEF questionOrders
  <2> QED  BY <1>6, <2>2, <2>6, PrecedesIsStrict
<1>7. s[i] # t[i] /\ i \in 1 .. n
  BY <1>4
<1>8. s[i] \in Range(SortedNames) /\ t[i] \in Range(SortedNames)
  BY <1>2, <1>7
<1>9. Precedes(s[i], t[i]) \/ Precedes(t[i], s[i])
  BY <1>7, <1>8, PrecedesIsTotal
<1> QED  BY <1>2, <1>5, <1>6, <1>7, <1>9

-----------------------------------------------------------------------------
(* What the compiler returns. *)

\* The parts of a compiled policy come from its document one by one.
LEMMA CompiledParts ==
  ASSUME NEW doc, NEW c \in CompiledForms(doc)
  PROVE  /\ c = [ref            |-> <<doc.name, doc.version>>,
                 description    |-> doc.description,
                 model          |-> doc.model,
                 outcomes       |-> doc.outcomes,
                 defaultOutcome |-> doc.defaultOutcome,
                 required       |-> doc.required,
                 optional       |-> doc.optional,
                 strict         |-> doc.strict,
                 questions      |-> c.questions,
                 questionIDs    |-> c.questionIDs,
                 preRules       |-> CompiledRules(doc.preRules),
                 decisionRules  |-> CompiledRules(doc.decisionRules)]
         /\ c.questionIDs \in questionOrders(DOMAIN doc.questions)
         /\ c.questions = [id \in DOMAIN doc.questions |-> c.questions[id]]
         /\ \A id \in DOMAIN doc.questions :
              c.questions[id] \in CompiledQuestions(doc.questions[id])
<1> DEFINE choices == UNION {CompiledQuestions(doc.questions[id]) :
                               id \in DOMAIN doc.questions}
<1>1. PICK order \in questionOrders(DOMAIN doc.questions),
           questions \in {q \in [DOMAIN doc.questions -> choices] :
                            \A id \in DOMAIN q :
                               q[id] \in CompiledQuestions(doc.questions[id])} :
        c = [ref            |-> <<doc.name, doc.version>>,
             description    |-> doc.description,
             model          |-> doc.model,
             outcomes       |-> doc.outcomes,
             defaultOutcome |-> doc.defaultOutcome,
             required       |-> doc.required,
             optional       |-> doc.optional,
             strict         |-> doc.strict,
             questions      |-> questions,
             questionIDs    |-> order,
             preRules       |-> CompiledRules(doc.preRules),
             decisionRules  |-> CompiledRules(doc.decisionRules)]
  BY DEF CompiledForms
<1>2. /\ questions \in [DOMAIN doc.questions -> choices]
      /\ \A id \in DOMAIN doc.questions :
           questions[id] \in CompiledQuestions(doc.questions[id])
  OBVIOUS
<1> HIDE DEF choices
<1>3. c.questions = questions /\ c.questionIDs = order
  BY <1>1
<1> QED  BY <1>1, <1>2, <1>3

\* The same, part by part.
LEMMA CompiledFields ==
  ASSUME NEW doc, NEW c \in CompiledForms(doc)
  PROVE  /\ c = [ref |-> c.ref, description |-> c.description,
                 model |-> c.model, outcomes |-> c.outcomes,
                 defaultOutcome |-> c.defaultOutcome,
                 required |-> c.required, optional |-> c.optional,
                 strict |-> c.strict, questions |-> c.questions,
                 questionIDs |-> c.questionIDs, preRules |-> c.preRules,
                 decisionRules |-> c.decisionRules]
         /\ c.outcomes = doc.outcomes
         /\ c.defaultOutcome = doc.defaultOutcome
         /\ c.required = doc.required
         /\ c.optional = doc.optional
         /\ c.preRules = CompiledRules(doc.preRules)
         /\ c.decisionRules = CompiledRules(doc.decisionRules)
<1>1. c = [ref            |-> <<doc.name, doc.version>>,
           description    |-> doc.description,
           model          |-> doc.model,
           outcomes       |-> doc.outcomes,
           defaultOutcome |-> doc.defaultOutcome,
           required       |-> doc.required,
           optional       |-> doc.optional,
           strict         |-> doc.strict,
           questions      |-> c.questions,
           questionIDs    |-> c.questionIDs,
           preRules       |-> CompiledRules(doc.preRules),
           decisionRules  |-> CompiledRules(doc.decisionRules)]
  BY CompiledParts
<1> QED  BY <1>1

\* The fields of a compiled node; those of a leaf are empty without one.
LEMMA NodeFields ==
  ASSUME NEW node
  PROVE  \E kind, op, scalar, list, bool :
           /\ CompiledNode(node) =
                [kind |-> kind, children |-> Children(node),
                 operand |-> node.left, op |-> op, rightScalar |-> scalar,
                 rightList |-> list, rightBool |-> bool]
           /\ kind = CHOOSE b \in Branches(node) : TRUE
           /\ node.left = <<>> =>
                op = "" /\ scalar = Absent /\ list = <<>> /\ bool = FALSE
<1> DEFINE leaf == node.left # <<>>
           op == IF leaf THEN node.op ELSE ""
           scalar == IF leaf /\ node.op \notin {"in", "exists"}
                     THEN AsNumber(node.right) ELSE Absent
           list == IF leaf /\ node.op = "in"
                   THEN [i \in DOMAIN node.right.list |->
                           AsNumber(node.right.list[i])]
                   ELSE <<>>
           bool == leaf /\ node.op = "exists"
                     /\ (node.right.kind = "absent" \/ node.right.bool)
           kind == CHOOSE b \in Branches(node) : TRUE
<1>1. CompiledNode(node) =
         [kind |-> kind, children |-> Children(node),
          operand |-> node.left, op |-> op, rightScalar |-> scalar,
          rightList |-> list, rightBool |-> bool]
  BY Zenon DEF CompiledNode
<1>2. node.left = <<>> => op = "" /\ scalar = Absent /\ list = <<>>
  OBVIOUS
<1>3. node.left = <<>> => bool = FALSE
  OBVIOUS
<1>4. kind = CHOOSE b \in Branches(node) : TRUE
  OBVIOUS
<1> HIDE DEF kind, op, scalar, list, bool
<1> QED  BY <1>1, <1>2, <1>3, <1>4

\* A compiled node is a leaf without children or a combinator without an
\* operand, since compileCondition takes exactly one branch.
LEMMA NodeKinds ==
  ASSUME NEW node, NodeShape(node), Cardinality(Branches(node)) = 1
  PROVE  LET m == CompiledNode(node)
         IN  \/ /\ m.kind = "left" /\ node.left # <<>>
                /\ m.children = <<>>
                /\ m.operand = <<m.operand[1]>>
             \/ /\ m.kind # "left" /\ node.left = <<>>
                /\ m.children # <<>>
                /\ m = [kind |-> m.kind, children |-> m.children,
                        operand |-> <<>>, op |-> "", rightScalar |-> Absent,
                        rightList |-> <<>>, rightBool |-> FALSE]
<1> DEFINE m == CompiledNode(node)
<1>0. PICK kind, op, scalar, list, bool :
        /\ m = [kind |-> kind, children |-> Children(node),
                operand |-> node.left, op |-> op, rightScalar |-> scalar,
                rightList |-> list, rightBool |-> bool]
        /\ kind = CHOOSE b \in Branches(node) : TRUE
        /\ node.left = <<>> =>
             op = "" /\ scalar = Absent /\ list = <<>> /\ bool = FALSE
  BY NodeFields
<1> HIDE DEF m
<1>1. PICK b : Branches(node) = {b}
  <2>1. Branches(node) \subseteq {"all", "any", "not", "left"}
    BY DEF Branches
  <2>2. IsFiniteSet({"all", "any", "not", "left"})
    <3>1. IsFiniteSet({"all"} \cup {"any"})
      BY FS_Singleton, FS_AddElement
    <3>2. IsFiniteSet(({"all"} \cup {"any"}) \cup {"not"})
      BY <3>1, FS_AddElement
    <3>3. IsFiniteSet((({"all"} \cup {"any"}) \cup {"not"}) \cup {"left"})
      BY <3>2, FS_AddElement
    <3>4. {"all", "any", "not", "left"}
            = (({"all"} \cup {"any"}) \cup {"not"}) \cup {"left"}
      OBVIOUS
    <3> QED  BY <3>3, <3>4
  <2>3. IsFiniteSet(Branches(node))
    BY <2>1, <2>2, FS_Subset
  <2> QED  BY <2>3, FS_Singleton
<1>2. m.kind = b /\ m.children = Children(node) /\ m.operand = node.left
  <2>1. (CHOOSE a \in Branches(node) : TRUE) = b
    BY <1>1
  <2> QED  BY <1>0, <2>1
<1>3. /\ (node.all # <<>>) = (b = "all")
      /\ (node.any # <<>>) = (b = "any")
      /\ (node.not # <<>>) = (b = "not")
      /\ (node.left # <<>>) = (b = "left")
  BY <1>1 DEF Branches
<1>4. /\ node.all \in Seq(Nat) /\ node.any \in Seq(Nat) /\ node.not \in Seq(Nat)
      /\ node.left # <<>> => node.left = <<node.left[1]>>
  BY DEF NodeShape
<1>5. b \in {"all", "any", "not", "left"}
  BY <1>1 DEF Branches
<1>6. (Children(node) = <<>>) = (b = "left")
  <2>1. CASE b = "left"
    BY <1>3, <1>4, <2>1 DEF Children
  <2>2. CASE b = "all"
    BY <1>3, <1>4, <2>2 DEF Children
  <2>3. CASE b = "any"
    BY <1>3, <1>4, <2>3 DEF Children
  <2>4. CASE b = "not"
    BY <1>3, <1>4, <2>4 DEF Children
  <2> QED  BY <1>5, <2>1, <2>2, <2>3, <2>4
<1>7. CASE b = "left"
  BY <1>2, <1>3, <1>4, <1>6, <1>7 DEF m
<1>8. CASE b # "left"
  <2>1. node.left = <<>>
    BY <1>3, <1>8
  <2>2. m = [kind |-> m.kind, children |-> m.children,
             operand |-> <<>>, op |-> "", rightScalar |-> Absent,
             rightList |-> <<>>, rightBool |-> FALSE]
    BY <1>0, <2>1
  <2> QED  BY <1>2, <1>6, <1>8, <2>1, <2>2 DEF m
<1> QED  BY <1>7, <1>8

\* canonicalizeCondition drops nothing of a compiled node that is not empty.
LEMMA NodeFromItsCanonicalForm ==
  ASSUME NEW x, NodeShape(x), Cardinality(Branches(x)) = 1,
         NEW y, NodeShape(y), Cardinality(Branches(y)) = 1,
         canonicalizeCondition(CompiledNode(x))
             = canonicalizeCondition(CompiledNode(y))
  PROVE  CompiledNode(x) = CompiledNode(y)
<1> DEFINE m == CompiledNode(x)
           n == CompiledNode(y)
<1>1. /\ m = [kind |-> m.kind, children |-> m.children, operand |-> m.operand,
              op |-> m.op, rightScalar |-> m.rightScalar,
              rightList |-> m.rightList, rightBool |-> m.rightBool]
      /\ n = [kind |-> n.kind, children |-> n.children, operand |-> n.operand,
              op |-> n.op, rightScalar |-> n.rightScalar,
              rightList |-> n.rightList, rightBool |-> n.rightBool]
  <2>1. ASSUME NEW z
        PROVE  LET o == CompiledNode(z)
               IN  o = [kind |-> o.kind, children |-> o.children,
                        operand |-> o.operand, op |-> o.op,
                        rightScalar |-> o.rightScalar,
                        rightList |-> o.rightList, rightBool |-> o.rightBool]
    <3>1. PICK kind, op, scalar, list, bool :
            CompiledNode(z) =
              [kind |-> kind, children |-> Children(z), operand |-> z.left,
               op |-> op, rightScalar |-> scalar, rightList |-> list,
               rightBool |-> bool]
      BY NodeFields
    <3> QED  BY <3>1
  <2> QED  BY <2>1
<1>2. /\ \/ m.kind = "left" /\ m.children = <<>> /\ m.operand = <<m.operand[1]>>
         \/ /\ m.kind # "left" /\ m.children # <<>>
            /\ m = [kind |-> m.kind, children |-> m.children,
                    operand |-> <<>>, op |-> "", rightScalar |-> Absent,
                    rightList |-> <<>>, rightBool |-> FALSE]
      /\ \/ n.kind = "left" /\ n.children = <<>> /\ n.operand = <<n.operand[1]>>
         \/ /\ n.kind # "left" /\ n.children # <<>>
            /\ n = [kind |-> n.kind, children |-> n.children,
                    operand |-> <<>>, op |-> "", rightScalar |-> Absent,
                    rightList |-> <<>>, rightBool |-> FALSE]
  BY NodeKinds
<1>3. canonicalizeCondition(m) = canonicalizeCondition(n)
  OBVIOUS
<1> HIDE DEF m, n
<1>4. m.kind = n.kind
  <2>1. canonicalizeCondition(m).kind = m.kind
    BY DEF canonicalizeCondition
  <2>2. canonicalizeCondition(n).kind = n.kind
    BY DEF canonicalizeCondition
  <2> QED  BY <1>3, <2>1, <2>2
<1>5. CASE m.kind = "left"
  <2>1. m.children = <<>> /\ n.children = <<>>
    BY <1>2, <1>4, <1>5
  <2>2. /\ m.op = n.op /\ m.operand[1] = n.operand[1]
        /\ m.rightScalar = n.rightScalar /\ m.rightList = n.rightList
        /\ m.rightBool = n.rightBool
    BY <1>3, <2>1 DEF canonicalizeCondition
  <2>3. m.operand = n.operand
    BY <1>2, <1>4, <1>5, <2>2
  <2> QED  BY <1>1, <1>4, <2>1, <2>2, <2>3 DEF m, n
<1>6. CASE m.kind # "left"
  <2>1. m.children = n.children
    BY <1>2, <1>3, <1>4, <1>6 DEF canonicalizeCondition
  <2> QED  BY <1>2, <1>4, <1>6, <2>1 DEF m, n
<1> QED  BY <1>5, <1>6

\* A compiled rule keeps its names and has its nodes compiled.
LEMMA CompiledRule ==
  ASSUME NEW rules, RulesShape(rules), NEW i \in DOMAIN rules
  PROVE  /\ CompiledRules(rules)[i] =
              [id |-> rules[i].id, description |-> rules[i].description,
               when |-> [n \in DOMAIN rules[i].when |->
                           CompiledNode(rules[i].when[n])],
               outcome |-> rules[i].outcome]
         /\ canonicalRules(CompiledRules(rules))[i] =
              [id |-> rules[i].id, description |-> rules[i].description,
               when |-> [n \in DOMAIN rules[i].when |->
                           canonicalizeCondition(
                               CompiledNode(rules[i].when[n]))],
               outcome |-> rules[i].outcome]
<1> DEFINE when == [n \in DOMAIN rules[i].when |-> CompiledNode(rules[i].when[n])]
<1>1. rules[i] = [id |-> rules[i].id, description |-> rules[i].description,
                  when |-> rules[i].when, outcome |-> rules[i].outcome]
  BY DEF RulesShape, RuleShape
<1>2. CompiledRules(rules)[i] = [rules[i] EXCEPT !.when = when]
  BY DEF CompiledRules
<1>3. CompiledRules(rules)[i] =
        [id |-> rules[i].id, description |-> rules[i].description,
         when |-> when, outcome |-> rules[i].outcome]
  <2> HIDE DEF when
  <2> QED  BY <1>1, <1>2
<1>4. canonicalRules(CompiledRules(rules))[i] =
        [CompiledRules(rules)[i] EXCEPT !.when =
           [n \in DOMAIN when |-> canonicalizeCondition(when[n])]]
  <2>1. i \in DOMAIN CompiledRules(rules)
    BY DEF CompiledRules
  <2>2. CompiledRules(rules)[i].when = when
    BY <1>3
  <2> HIDE DEF when
  <2> QED  BY <2>1, <2>2 DEF canonicalRules
<1>5. [n \in DOMAIN when |-> canonicalizeCondition(when[n])]
        = [n \in DOMAIN rules[i].when |->
             canonicalizeCondition(CompiledNode(rules[i].when[n]))]
  OBVIOUS
<1>6. ASSUME NEW nodes
      PROVE  [CompiledRules(rules)[i] EXCEPT !.when = nodes] =
               [id |-> rules[i].id, description |-> rules[i].description,
                when |-> nodes, outcome |-> rules[i].outcome]
  <2> HIDE DEF when
  <2> QED  BY <1>3
<1> QED  BY <1>3, <1>4, <1>5, <1>6, Zenon

\* Every node of the rules has exactly one branch.
Branched(rules) ==
    /\ RulesShape(rules)
    /\ \A i \in DOMAIN rules : \A n \in DOMAIN rules[i].when :
         Cardinality(Branches(rules[i].when[n])) = 1

\* Rules with one canonical form are the same compiled rules.
LEMMA RulesFromTheirCanonicalForm ==
  ASSUME NEW x, Branched(x), NEW y, Branched(y),
         canonicalRules(CompiledRules(x)) = canonicalRules(CompiledRules(y))
  PROVE  CompiledRules(x) = CompiledRules(y)
<1>1. DOMAIN x = DOMAIN y
  <2>1. ASSUME NEW z PROVE DOMAIN canonicalRules(CompiledRules(z)) = DOMAIN z
    BY DEF canonicalRules, CompiledRules
  <2> QED  BY <2>1
<1>2. ASSUME NEW i \in DOMAIN x
      PROVE  CompiledRules(x)[i] = CompiledRules(y)[i]
  <2> DEFINE canon(z) == [n \in DOMAIN z[i].when |->
                            canonicalizeCondition(CompiledNode(z[i].when[n]))]
  <2>1. /\ i \in DOMAIN y
        /\ RulesShape(x) /\ RulesShape(y)
    BY <1>1 DEF Branched
  <2>2. /\ x[i].id = y[i].id
        /\ x[i].description = y[i].description
        /\ x[i].outcome = y[i].outcome
        /\ canon(x) = canon(y)
    <3>1. canonicalRules(CompiledRules(x))[i] =
            [id |-> x[i].id, description |-> x[i].description,
             when |-> canon(x), outcome |-> x[i].outcome]
      BY <2>1, CompiledRule
    <3>2. canonicalRules(CompiledRules(y))[i] =
            [id |-> y[i].id, description |-> y[i].description,
             when |-> canon(y), outcome |-> y[i].outcome]
      BY <2>1, CompiledRule
    <3> HIDE DEF canon
    <3> QED  BY <3>1, <3>2
  <2>3. DOMAIN x[i].when = DOMAIN y[i].when
    <3>1. DOMAIN canon(x) = DOMAIN x[i].when /\ DOMAIN canon(y) = DOMAIN y[i].when
      OBVIOUS
    <3> HIDE DEF canon
    <3> QED  BY <2>2, <3>1
  <2>4. ASSUME NEW n \in DOMAIN x[i].when
        PROVE  CompiledNode(x[i].when[n]) = CompiledNode(y[i].when[n])
    <3>1. /\ canon(x)[n] = canonicalizeCondition(CompiledNode(x[i].when[n]))
          /\ canon(y)[n] = canonicalizeCondition(CompiledNode(y[i].when[n]))
      BY <2>3
    <3>2. canonicalizeCondition(CompiledNode(x[i].when[n]))
            = canonicalizeCondition(CompiledNode(y[i].when[n]))
      <4> HIDE DEF canon
      <4> QED  BY <2>2, <3>1
    <3>3. /\ NodeShape(x[i].when[n]) /\ Cardinality(Branches(x[i].when[n])) = 1
          /\ NodeShape(y[i].when[n]) /\ Cardinality(Branches(y[i].when[n])) = 1
      BY <2>1, <2>3 DEF Branched, RulesShape, RuleShape
    <3> QED  BY <3>2, <3>3, NodeFromItsCanonicalForm
  <2> DEFINE nodes(z) == [n \in DOMAIN z[i].when |-> CompiledNode(z[i].when[n])]
  <2>5. nodes(x) = nodes(y)
    BY <2>3, <2>4
  <2>6. CompiledRules(x)[i] =
          [id |-> x[i].id, description |-> x[i].description,
           when |-> nodes(x), outcome |-> x[i].outcome]
    BY <2>1, CompiledRule
  <2>7. CompiledRules(y)[i] =
          [id |-> y[i].id, description |-> y[i].description,
           when |-> nodes(y), outcome |-> y[i].outcome]
    BY <2>1, CompiledRule
  <2> HIDE DEF nodes, canon
  <2> QED  BY <2>2, <2>5, <2>6, <2>7
<1> DEFINE f == CompiledRules(x)
           g == CompiledRules(y)
<1>3. f = [i \in DOMAIN x |-> f[i]] /\ g = [i \in DOMAIN y |-> g[i]]
  BY DEF CompiledRules
<1>4. \A i \in DOMAIN x : f[i] = g[i]
  BY <1>2
<1> HIDE DEF f, g
<1>5. f = g
  BY <1>1, <1>3, <1>4
<1> QED  BY <1>5 DEF f, g

\* compileCondition takes no node without a branch or with two.
LEMMA CompiledIsBranched ==
  ASSUME NEW doc, DocumentShape(doc), Compiles(doc, MaxQuestions)
  PROVE  Branched(doc.preRules) /\ Branched(doc.decisionRules)
  BY DEF DocumentShape, Compiles, Branched, compileRules, compileRule,
         compileCondition

\* The hash identifies the policy: canonicalize drops nothing that tells two
\* compiled policies apart.
LEMMA PolicyFromItsCanonicalForm ==
  ASSUME NEW x, DocumentShape(x), Compiles(x, MaxQuestions),
         NEW c \in CompiledForms(x),
         NEW y, DocumentShape(y), Compiles(y, MaxQuestions),
         NEW d \in CompiledForms(y),
         canonicalize(c) = canonicalize(d)
  PROVE  c = d
<1>1. Branched(x.preRules) /\ Branched(x.decisionRules)
  BY CompiledIsBranched
<1>2. Branched(y.preRules) /\ Branched(y.decisionRules)
  BY CompiledIsBranched
<1>3. /\ c = [ref |-> c.ref, description |-> c.description, model |-> c.model,
              outcomes |-> c.outcomes, defaultOutcome |-> c.defaultOutcome,
              required |-> c.required, optional |-> c.optional,
              strict |-> c.strict, questions |-> c.questions,
              questionIDs |-> c.questionIDs, preRules |-> c.preRules,
              decisionRules |-> c.decisionRules]
      /\ c.preRules = CompiledRules(x.preRules)
      /\ c.decisionRules = CompiledRules(x.decisionRules)
  BY CompiledFields
<1>4. /\ d = [ref |-> d.ref, description |-> d.description, model |-> d.model,
              outcomes |-> d.outcomes, defaultOutcome |-> d.defaultOutcome,
              required |-> d.required, optional |-> d.optional,
              strict |-> d.strict, questions |-> d.questions,
              questionIDs |-> d.questionIDs, preRules |-> d.preRules,
              decisionRules |-> d.decisionRules]
      /\ d.preRules = CompiledRules(y.preRules)
      /\ d.decisionRules = CompiledRules(y.decisionRules)
  BY CompiledFields
<1> DEFINE asked(p) == [i \in DOMAIN p.questionIDs |->
                          <<p.questionIDs[i], p.questions[p.questionIDs[i]]>>]
<1>5. /\ c.ref = d.ref /\ c.description = d.description /\ c.model = d.model
      /\ c.outcomes = d.outcomes /\ c.defaultOutcome = d.defaultOutcome
      /\ c.required = d.required /\ c.optional = d.optional
      /\ c.strict = d.strict
      /\ asked(c) = asked(d)
      /\ canonicalRules(c.preRules) = canonicalRules(d.preRules)
      /\ canonicalRules(c.decisionRules) = canonicalRules(d.decisionRules)
  BY DEF canonicalize
<1>6. c.preRules = d.preRules /\ c.decisionRules = d.decisionRules
  BY <1>1, <1>2, <1>3, <1>4, <1>5, RulesFromTheirCanonicalForm
<1>7. /\ c.questionIDs \in [1 .. Cardinality(DOMAIN x.questions)
                              -> DOMAIN x.questions]
      /\ Range(c.questionIDs) = DOMAIN x.questions
      /\ c.questions = [id \in DOMAIN x.questions |-> c.questions[id]]
  BY CompiledParts, OrdersAreBijections DEF DocumentShape
<1>8. /\ d.questionIDs \in [1 .. Cardinality(DOMAIN y.questions)
                              -> DOMAIN y.questions]
      /\ Range(d.questionIDs) = DOMAIN y.questions
      /\ d.questions = [id \in DOMAIN y.questions |-> d.questions[id]]
  BY CompiledParts, OrdersAreBijections DEF DocumentShape
<1>9. DOMAIN c.questionIDs = DOMAIN d.questionIDs
  <2>1. DOMAIN asked(c) = DOMAIN c.questionIDs
    OBVIOUS
  <2>2. DOMAIN asked(d) = DOMAIN d.questionIDs
    OBVIOUS
  <2> HIDE DEF asked
  <2> QED  BY <1>5, <2>1, <2>2
<1>10. \A i \in DOMAIN c.questionIDs :
         /\ c.questionIDs[i] = d.questionIDs[i]
         /\ c.questions[c.questionIDs[i]] = d.questions[d.questionIDs[i]]
  <2> TAKE i \in DOMAIN c.questionIDs
  <2>1. asked(c)[i] = <<c.questionIDs[i], c.questions[c.questionIDs[i]]>>
    OBVIOUS
  <2>2. asked(d)[i] = <<d.questionIDs[i], d.questions[d.questionIDs[i]]>>
    BY <1>9
  <2> HIDE DEF asked
  <2> QED  BY <1>5, <2>1, <2>2
<1> HIDE DEF asked
<1>11. c.questionIDs = d.questionIDs
  <2> DEFINE D == DOMAIN c.questionIDs
  <2>1. c.questionIDs \in [D -> DOMAIN x.questions]
    BY <1>7
  <2>2. d.questionIDs \in [D -> DOMAIN y.questions]
    BY <1>8, <1>9
  <2>3. \A i \in D : c.questionIDs[i] = d.questionIDs[i]
    BY <1>10
  <2> HIDE DEF D
  <2> QED  BY <2>1, <2>2, <2>3
<1>12. DOMAIN x.questions = DOMAIN y.questions
  BY <1>7, <1>8, <1>11
<1>13. \A id \in DOMAIN x.questions : c.questions[id] = d.questions[id]
  BY <1>7, <1>10, <1>11 DEF Range
<1>14. c.questions = d.questions
  BY <1>7, <1>8, <1>12, <1>13
<1> QED  BY <1>3, <1>4, <1>5, <1>6, <1>11, <1>14

\* A question compiles to one form unless its criteria spell a key twice.
LEMMA OneQuestionForm ==
  ASSUME NEW q,
         ~ (/\ q.type = "noul"
            /\ q.criteria.shape = "general"
            /\ \E f, g \in noulCriteriaMap(q.criteria) : f # g),
         NEW x \in CompiledQuestions(q), NEW y \in CompiledQuestions(q)
  PROVE  x = y
<1> DEFINE normal(f) == [k \in DOMAIN f |-> normalizeQuestionValue(f[k])]
           maps == IF q.criteria.shape = "none" THEN {<<>>}
                   ELSE IF q.type = "noul" THEN noulCriteriaMap(q.criteria)
                   ELSE {q.criteria.entries}
           form(f) == [type         |-> q.type,
                       instructions |-> normalizeQuestionValue(q.instructions),
                       criteria     |-> normal(f)]
<1>1. PICK f \in maps : x = form(f)
  BY DEF CompiledQuestions
<1>2. PICK g \in maps : y = form(g)
  BY DEF CompiledQuestions
<1>3. f = g
  <2>1. CASE q.criteria.shape = "none"
    BY <2>1
  <2>2. CASE q.criteria.shape = "map"
    BY <2>2 DEF noulCriteriaMap
  <2>3. CASE q.criteria.shape = "general" /\ q.type = "noul"
    BY <2>3
  <2>4. CASE q.criteria.shape \notin {"none", "map", "general"} /\ q.type = "noul"
    BY <2>4 DEF noulCriteriaMap
  <2>5. CASE q.criteria.shape # "none" /\ q.type # "noul"
    BY <2>5
  <2> QED  BY <2>1, <2>2, <2>3, <2>4, <2>5
<1> HIDE DEF form
<1> QED  BY <1>1, <1>2, <1>3

\* So does a document: the order of its questions is the sorted one.
LEMMA OneForm ==
  ASSUME NEW doc, DocumentShape(doc), ~SpelledTwice(doc),
         NEW c \in CompiledForms(doc), NEW d \in CompiledForms(doc)
  PROVE  c = d
<1>1. c.questionIDs = d.questionIDs
  BY CompiledParts, OneOrder DEF DocumentShape
<1>2. \A id \in DOMAIN doc.questions : c.questions[id] = d.questions[id]
  <2> TAKE id \in DOMAIN doc.questions
  <2>1. c.questions[id] \in CompiledQuestions(doc.questions[id])
    BY CompiledParts
  <2>2. d.questions[id] \in CompiledQuestions(doc.questions[id])
    BY CompiledParts
  <2>3. ~ (/\ doc.questions[id].type = "noul"
           /\ doc.questions[id].criteria.shape = "general"
           /\ \E f, g \in noulCriteriaMap(doc.questions[id].criteria) : f # g)
    BY DEF SpelledTwice
  <2> QED  BY <2>1, <2>2, <2>3, OneQuestionForm
<1>3. c.questions = d.questions
  <2>1. c.questions = [id \in DOMAIN doc.questions |-> c.questions[id]]
    BY CompiledParts
  <2>2. d.questions = [id \in DOMAIN doc.questions |-> d.questions[id]]
    BY CompiledParts
  <2> QED  BY <1>2, <2>1, <2>2
<1> DEFINE form(questions, order) ==
             [ref            |-> <<doc.name, doc.version>>,
              description    |-> doc.description,
              model          |-> doc.model,
              outcomes       |-> doc.outcomes,
              defaultOutcome |-> doc.defaultOutcome,
              required       |-> doc.required,
              optional       |-> doc.optional,
              strict         |-> doc.strict,
              questions      |-> questions,
              questionIDs    |-> order,
              preRules       |-> CompiledRules(doc.preRules),
              decisionRules  |-> CompiledRules(doc.decisionRules)]
<1>4. c = form(c.questions, c.questionIDs)
  BY CompiledParts
<1>5. d = form(d.questions, d.questionIDs)
  BY CompiledParts
<1> HIDE DEF form
<1> QED  BY <1>1, <1>3, <1>4, <1>5

-----------------------------------------------------------------------------
(* Rules. *)

\* FirstMatch finds a rule, or none.
LEMMA FirstMatchIsARule ==
  ASSUME NEW rules, DOMAIN rules \subseteq Nat \ {0}, NEW f, NEW answers,
         FirstMatch(rules, f, answers) # 0
  PROVE  FirstMatch(rules, f, answers) \in DOMAIN rules
<1> DEFINE matching == {i \in DOMAIN rules : RuleMatches(rules[i], f, answers)}
<1>1. matching # {}
  BY DEF FirstMatch
<1>2. matching \subseteq Nat /\ matching \subseteq DOMAIN rules
  OBVIOUS
<1>3. FirstMatch(rules, f, answers)
        = CHOOSE i \in matching : \A j \in matching : i <= j
  BY <1>1 DEF FirstMatch
<1> HIDE DEF matching
<1>4. \E i \in matching : \A j \in matching : i <= j
  BY <1>1, <1>2, LeastExists
<1>5. FirstMatch(rules, f, answers) \in matching
  BY <1>3, <1>4
<1> QED  BY <1>2, <1>5

\* Two lists in a row.
LEMMA Joined ==
  ASSUME NEW S, NEW T, NEW s \in Seq(S), NEW t \in Seq(T)
  PROVE  /\ Len(s \o t) = Len(s) + Len(t)
         /\ DOMAIN (s \o t) = 1 .. Len(s) + Len(t)
         /\ \A i \in 1 .. Len(s) : (s \o t)[i] = s[i]
         /\ \A i \in 1 .. Len(t) : (s \o t)[Len(s) + i] = t[i]
  OBVIOUS

\* The rules of a compiled policy are those of its document, in order: the
\* pre-rules and then the decision rules, each with an ID of its own.
LEMMA RulesOfAPolicy ==
  ASSUME NEW doc, DocumentShape(doc), Compiles(doc, MaxQuestions),
         NEW c \in CompiledForms(doc)
  PROVE  /\ DOMAIN c.preRules = 1 .. Len(doc.preRules)
         /\ DOMAIN c.decisionRules = 1 .. Len(doc.decisionRules)
         /\ Len(c.preRules) = Len(doc.preRules)
         /\ Len(doc.preRules) \in Nat /\ Len(doc.decisionRules) \in Nat
         /\ DOMAIN Rules(c) = 1 .. Len(doc.preRules) + Len(doc.decisionRules)
         /\ \A i \in DOMAIN c.preRules : Rules(c)[i] = c.preRules[i]
         /\ \A i \in DOMAIN c.decisionRules :
              Rules(c)[Len(doc.preRules) + i] = c.decisionRules[i]
         /\ \A i \in DOMAIN Rules(c) :
              /\ Rules(c)[i].id \in DashedIdentifiers
              /\ Rules(c)[i].outcome \in Range(c.outcomes)
         /\ \A i, j \in DOMAIN Rules(c) : Rules(c)[i].id = Rules(c)[j].id => i = j
<1> DEFINE p == doc.preRules
           d == doc.decisionRules
           P == c.preRules
           D == c.decisionRules
<1>1. P = CompiledRules(p) /\ D = CompiledRules(d) /\ c.outcomes = doc.outcomes
  BY CompiledFields
<1>2. RulesShape(p) /\ RulesShape(d)
  BY DEF DocumentShape
<1>3. /\ p \in Seq(Range(p)) /\ DOMAIN p = 1 .. Len(p) /\ Len(p) \in Nat
      /\ d \in Seq(Range(d)) /\ DOMAIN d = 1 .. Len(d) /\ Len(d) \in Nat
  BY <1>2, SeqDomain DEF RulesShape
<1>4. /\ \A i \in DOMAIN p : P[i].id = p[i].id /\ P[i].outcome = p[i].outcome
      /\ \A i \in DOMAIN d : D[i].id = d[i].id /\ D[i].outcome = d[i].outcome
  <2>1. ASSUME NEW z, RulesShape(z), NEW i \in DOMAIN z
        PROVE  /\ CompiledRules(z)[i].id = z[i].id
               /\ CompiledRules(z)[i].outcome = z[i].outcome
    <3>1. CompiledRules(z)[i] =
            [id |-> z[i].id, description |-> z[i].description,
             when |-> [n \in DOMAIN z[i].when |-> CompiledNode(z[i].when[n])],
             outcome |-> z[i].outcome]
      BY <2>1, CompiledRule
    <3> QED  BY <3>1
  <2> QED  BY <1>1, <1>2, <2>1
<1>5. DOMAIN P = 1 .. Len(p) /\ DOMAIN D = 1 .. Len(d)
  BY <1>1, <1>3 DEF CompiledRules
<1>6. /\ \A i \in DOMAIN p : p[i].id \in DashedIdentifiers
                               /\ p[i].outcome \in Range(doc.outcomes)
      /\ \A i \in DOMAIN d : d[i].id \in DashedIdentifiers
                               /\ d[i].outcome \in Range(doc.outcomes)
  BY DEF Compiles, compileRules, compileRule
<1>7. /\ \A i \in 1 .. Len(p \o d) : \A j \in 1 .. Len(p \o d) :
           (p \o d)[i].id = (p \o d)[j].id => i = j
  <2>1. IsInjective(RuleIDs(doc))
    BY DEF Compiles
  <2> QED  BY <2>1 DEF IsInjective, RuleIDs
<1>8. /\ P \in Seq(Range(P)) /\ Len(P) = Len(p)
      /\ D \in Seq(Range(D)) /\ Len(D) = Len(d)
  <2>1. P = [i \in 1 .. Len(p) |-> P[i]] /\ D = [i \in 1 .. Len(d) |-> D[i]]
    BY <1>1, <1>3 DEF CompiledRules
  <2> HIDE DEF P, D, p, d
  <2>2. P \in [1 .. Len(p) -> Range(P)] /\ D \in [1 .. Len(d) -> Range(D)]
    BY <1>5, <2>1 DEF Range
  <2> QED  BY <1>3, <2>2
<1> HIDE DEF P, D, p, d
<1>9. /\ Len(P \o D) = Len(p) + Len(d)
      /\ DOMAIN (P \o D) = 1 .. Len(p) + Len(d)
      /\ \A i \in 1 .. Len(p) : (P \o D)[i] = P[i]
      /\ \A i \in 1 .. Len(d) : (P \o D)[Len(p) + i] = D[i]
  <2>1. P \in Seq(Range(P)) /\ D \in Seq(Range(D))
    BY <1>8
  <2>2. /\ Len(P \o D) = Len(P) + Len(D)
        /\ DOMAIN (P \o D) = 1 .. Len(P) + Len(D)
        /\ \A i \in 1 .. Len(P) : (P \o D)[i] = P[i]
        /\ \A i \in 1 .. Len(D) : (P \o D)[Len(P) + i] = D[i]
    BY <2>1, Joined
  <2> QED  BY <1>8, <2>2
<1>10. /\ Len(p \o d) = Len(p) + Len(d)
       /\ \A i \in 1 .. Len(p) : (p \o d)[i] = p[i]
       /\ \A i \in 1 .. Len(d) : (p \o d)[Len(p) + i] = d[i]
  BY <1>3, Joined
<1>11. ASSUME NEW i \in 1 .. Len(p) + Len(d)
       PROVE  /\ (P \o D)[i].id = (p \o d)[i].id
              /\ (P \o D)[i].id \in DashedIdentifiers
              /\ (P \o D)[i].outcome \in Range(doc.outcomes)
  <2>1. CASE i \in 1 .. Len(p)
    BY <1>3, <1>4, <1>6, <1>9, <1>10, <2>1
  <2>2. CASE i \notin 1 .. Len(p)
    <3>1. PICK k \in 1 .. Len(d) : i = Len(p) + k
      <4>1. i - Len(p) \in 1 .. Len(d) /\ i = Len(p) + (i - Len(p))
        BY <1>3, <2>2
      <4> QED  BY <4>1
    <3>2. (P \o D)[i] = D[k] /\ (p \o d)[i] = d[k] /\ k \in DOMAIN d
      BY <1>3, <1>9, <1>10, <3>1
    <3> QED  BY <1>4, <1>6, <3>2
  <2> QED  BY <2>1, <2>2
<1>12. Rules(c) = P \o D
  BY DEF Rules, P, D
<1>13. \A i, j \in DOMAIN Rules(c) : Rules(c)[i].id = Rules(c)[j].id => i = j
  <2>1. DOMAIN Rules(c) = 1 .. Len(p \o d)
    BY <1>9, <1>10, <1>12
  <2>2. \A i \in DOMAIN Rules(c) : Rules(c)[i].id = (p \o d)[i].id
    BY <1>9, <1>11, <1>12
  <2> QED  BY <1>7, <2>1, <2>2
<1>14. \A i \in DOMAIN Rules(c) :
         /\ Rules(c)[i].id \in DashedIdentifiers
         /\ Rules(c)[i].outcome \in Range(c.outcomes)
  BY <1>1, <1>9, <1>11, <1>12
<1> QED
  BY <1>3, <1>5, <1>8, <1>9, <1>12, <1>13, <1>14 DEF P, D, p, d

-----------------------------------------------------------------------------
(* The invariant. *)

\* What is loaded, and what was hashed, comes from the directory.
DirectoryInv ==
    /\ directory \in Directories
    /\ stage \in {"down", "failed", "idle", "facts", "asked", "done"}
    /\ stage \in {"down", "failed"} => loaded = <<>>
    /\ stage \notin {"down", "failed"} => loaded \in LoadDir(directory)
    /\ hashes = <<>> \/ \E set \in LoadDir(directory) : hashes = Hashes(set)

\* An evaluation under way has a compiled policy, and facts that are valid
\* and settle nothing once the provider is asked.
PolicyInv ==
    /\ stage # "done" => result = NoResult /\ reply = <<>>
    /\ stage \in {"facts", "asked"} =>
         policy = <<policy[1]>> /\ policy[1] \in Compilable
    /\ stage = "asked" =>
         /\ ValidateFacts(policy[1], facts)
         /\ EvaluatePreRules(policy[1], facts) = NoResult

\* The three ways an evaluation reaches or misses the decision rules.
DecidedEarly ==
    /\ reply = <<>>
    /\ result = EvaluatePreRules(policy[1], facts)
    /\ result # NoResult

Refused ==
    \/ result = Failed("parse_failed") /\ ~Decodes(reply[1])
    \/ /\ result = Failed("provider_protocol")
       /\ Decodes(reply[1])
       /\ ~ValidateAnswers(policy[1], normalizeResponse(policy[1], reply[1]))

DecidedLate ==
    LET answers == normalizeResponse(policy[1], reply[1])
    IN  /\ ValidateAnswers(policy[1], answers)
        /\ result = EvaluateDecisionRules(policy[1], facts, answers)

\* How an evaluation that is over got its result.
ResultInv ==
    stage = "done" =>
        \/ result \in {Failed("not_found"), Failed("invalid_policy"),
                       Failed("input_invalid")}
        \/ /\ policy = <<policy[1]>> /\ policy[1] \in Compilable
           /\ ValidateFacts(policy[1], facts)
           /\ \/ DecidedEarly
              \/ /\ reply = <<reply[1]>> /\ reply[1] \in Replies
                 /\ Refused \/ DecidedLate

Inv == DirectoryInv /\ PolicyInv /\ ResultInv

\* What LoadDir returns was compiled.
LEMMA LoadedIsCompiled ==
  ASSUME NEW dir \in Directories, NEW set \in LoadDir(dir),
         NEW ref \in DOMAIN set
  PROVE  set[ref] \in Compilable
<1> DEFINE files == policyFiles(dir)
<1>1. /\ \A i \in files : loadPolicyFile(dir[i])
      /\ DOMAIN set = {Ref(dir[i]) : i \in files}
      /\ \A i \in files : set[Ref(dir[i])] \in CompiledForms(dir[i].doc)
  BY DEF LoadDir
<1>2. PICK i \in files : ref = Ref(dir[i])
  BY <1>1
<1>3. i \in DOMAIN dir /\ CompileBytes(dir[i])
  BY <1>1 DEF policyFiles, loadPolicyFile
<1>4. dir[i] \in Data
  BY <1>3 DEF Data, Range
<1>5. set[ref] \in CompiledForms(dir[i].doc)
  BY <1>1, <1>2
<1> QED  BY <1>3, <1>4, <1>5 DEF Compilable

\* A policy has a document the compiler accepts.
LEMMA HasADocument ==
  ASSUME NEW c \in Compilable
  PROVE  \E doc : /\ DocumentShape(doc) /\ Compiles(doc, MaxQuestions)
                  /\ c \in CompiledForms(doc)
<1>1. PICK data \in Data : CompileBytes(data) /\ c \in CompiledForms(data.doc)
  BY DEF Compilable
<1>2. DocumentShape(data.doc) /\ Compiles(data.doc, MaxQuestions)
  BY <1>1, DocumentsAssumption DEF CompileBytes
<1> QED  BY <1>1, <1>2

\* A process that has not started holds nothing.
LEMMA InitInv == Init => Inv
  BY DEF Init, Inv, DirectoryInv, PolicyInv, ResultInv

\* Only Start loads, and only Redeploy to the same directory keeps hashes.
LEMMA DirectoryStep == Inv /\ [Next]_vars => DirectoryInv'
<1> SUFFICES ASSUME Inv, [Next]_vars PROVE DirectoryInv'
  OBVIOUS
<1> USE DEF Inv, DirectoryInv
<1>1. CASE Start
  BY <1>1 DEF Start
<1>2. CASE Redeploy
  <2>1. CASE directory' = directory /\ hashes' = Hashes(loaded)
    <3>1. Hashes(<<>>) = <<>>
      BY DEF Hashes
    <3>2. stage = "idle" \/ stage = "failed"
      BY <1>2 DEF Redeploy
    <3> QED  BY <1>2, <2>1, <3>1, <3>2 DEF Redeploy
  <2>2. CASE directory' \in Directories /\ hashes' = <<>>
    BY <1>2, <2>2 DEF Redeploy
  <2> QED  BY <1>2, <2>1, <2>2 DEF Redeploy
<1>3. CASE ResolveNamed
  BY <1>3 DEF ResolveNamed, Settle
<1>4. CASE \E data \in InlineData : ResolveInline(data)
  BY <1>4 DEF ResolveInline, Settle
<1>5. CASE \E f \in FactSets : Decide(f)
  BY <1>5 DEF Decide, Settle
<1>6. CASE \E r \in Replies : ProviderAnswers(r)
  BY <1>6 DEF ProviderAnswers, Settle
<1>7. CASE Finish
  BY <1>7 DEF Finish
<1>8. CASE UNCHANGED vars
  BY <1>8 DEF vars
<1> QED
  BY <1>1, <1>2, <1>3, <1>4, <1>5, <1>6, <1>7, <1>8 DEF Next

\* Every step of an evaluation keeps its policy, facts and result in line.
LEMMA EvaluationStep == Inv /\ [Next]_vars => PolicyInv' /\ ResultInv'
<1> SUFFICES ASSUME Inv, [Next]_vars PROVE PolicyInv' /\ ResultInv'
  OBVIOUS
<1>1. CASE Start
  BY <1>1 DEF Inv, PolicyInv, ResultInv, Start
<1>2. CASE Redeploy
  BY <1>2 DEF Inv, PolicyInv, ResultInv, Redeploy
<1>3. CASE ResolveNamed
  <2>1. CASE \E ref \in DOMAIN loaded : policy' = <<loaded[ref]>>
    <3>1. PICK ref \in DOMAIN loaded : policy' = <<loaded[ref]>>
      BY <2>1
    <3>2. loaded[ref] \in Compilable
      BY <1>3, LoadedIsCompiled DEF Inv, DirectoryInv, ResolveNamed
    <3> QED
      BY <1>3, <3>1, <3>2 DEF Inv, PolicyInv, ResultInv, ResolveNamed, Settle
  <2>2. CASE Settle(Failed("not_found"))
    BY <1>3, <2>2 DEF Inv, PolicyInv, ResultInv, ResolveNamed, Settle
  <2> QED  BY <1>3, <2>1, <2>2 DEF ResolveNamed
<1>4. CASE \E data \in InlineData : ResolveInline(data)
  <2>1. PICK data \in InlineData : ResolveInline(data)
    BY <1>4
  <2>2. CASE CompileBytes(data)
    <3>1. PICK c \in CompiledForms(data.doc) : policy' = <<c>>
      BY <2>1, <2>2 DEF ResolveInline
    <3>2. c \in Compilable
      BY <2>2 DEF Compilable, Data
    <3> QED
      BY <2>1, <2>2, <3>1, <3>2 DEF Inv, PolicyInv, ResultInv, ResolveInline
  <2>3. CASE ~CompileBytes(data)
    BY <2>1, <2>3 DEF Inv, PolicyInv, ResultInv, ResolveInline, Settle
  <2> QED  BY <2>2, <2>3
<1>5. CASE \E f \in FactSets : Decide(f)
  <2>1. PICK f \in FactSets : Decide(f)
    BY <1>5
  <2>2. /\ policy' = policy /\ reply' = reply /\ reply = <<>> /\ facts' = f
        /\ policy = <<policy[1]>> /\ policy[1] \in Compilable
    BY <2>1 DEF Inv, PolicyInv, Decide
  <2>3. CASE ~ValidateFacts(policy[1], f)
    BY <2>1, <2>2, <2>3 DEF Inv, PolicyInv, ResultInv, Decide, Settle
  <2>4. CASE ValidateFacts(policy[1], f) /\ EvaluatePreRules(policy[1], f) # NoResult
    BY <2>1, <2>2, <2>4
    DEF Inv, PolicyInv, ResultInv, DecidedEarly, Decide, Settle
  <2>5. CASE ValidateFacts(policy[1], f) /\ EvaluatePreRules(policy[1], f) = NoResult
    BY <2>1, <2>2, <2>5 DEF Inv, PolicyInv, ResultInv, Decide, Settle
  <2> QED  BY <2>3, <2>4, <2>5
<1>6. CASE \E r \in Replies : ProviderAnswers(r)
  <2>1. PICK r \in Replies : ProviderAnswers(r)
    BY <1>6
  <2>2. /\ policy' = policy /\ facts' = facts /\ reply' = <<r>> /\ stage' = "done"
        /\ policy = <<policy[1]>> /\ policy[1] \in Compilable
        /\ ValidateFacts(policy[1], facts)
    BY <2>1 DEF Inv, PolicyInv, ProviderAnswers, Settle
  <2>3. (Refused \/ DecidedLate)'
    BY <2>1, <2>2 DEF ProviderAnswers, Settle, Refused, DecidedLate
  <2> QED  BY <2>1, <2>2, <2>3 DEF Inv, PolicyInv, ResultInv
<1>7. CASE Finish
  BY <1>7 DEF Inv, PolicyInv, ResultInv, Finish
<1>8. CASE UNCHANGED vars
  BY <1>8
  DEF Inv, PolicyInv, ResultInv, DecidedEarly, Refused, DecidedLate, vars
<1> QED
  BY <1>1, <1>2, <1>3, <1>4, <1>5, <1>6, <1>7, <1>8 DEF Next

\* The invariant holds of every reachable state of every instance.
THEOREM EngineInvariant == Spec => []Inv
  BY InitInv, DirectoryStep, EvaluationStep, PTL DEF Spec, Inv

-----------------------------------------------------------------------------
(* Decisions. *)

\* The pre-rules settle with one of them, or not at all.
LEMMA EarlyResult ==
  ASSUME NEW c \in Compilable, NEW f, EvaluatePreRules(c, f) # NoResult
  PROVE  \E i \in DOMAIN c.preRules :
           EvaluatePreRules(c, f) =
             [path |-> "pre_rule", rule |-> c.preRules[i].id,
              outcome |-> c.preRules[i].outcome]
<1> DEFINE i == FirstMatch(c.preRules, f, <<>>)
<1>1. i # 0
  BY DEF EvaluatePreRules
<1>2. DOMAIN c.preRules \subseteq Nat \ {0}
  <2>1. PICK doc : /\ DocumentShape(doc) /\ Compiles(doc, MaxQuestions)
                   /\ c \in CompiledForms(doc)
    BY HasADocument
  <2>2. DOMAIN c.preRules = 1 .. Len(doc.preRules) /\ Len(doc.preRules) \in Nat
    BY <2>1, RulesOfAPolicy
  <2> QED  BY <2>2
<1>3. i \in DOMAIN c.preRules
  BY <1>1, <1>2, FirstMatchIsARule
<1> QED  BY <1>1, <1>3 DEF EvaluatePreRules

\* The decision rules settle with one of them, or by default.
LateFrom(c, r) ==
    \/ r = [path |-> "default", rule |-> "", outcome |-> c.defaultOutcome]
    \/ \E i \in DOMAIN c.decisionRules :
         r = [path |-> "decision_rule", rule |-> c.decisionRules[i].id,
              outcome |-> c.decisionRules[i].outcome]

\* EvaluateDecisionRules returns nothing else.
LEMMA LateResult ==
  ASSUME NEW c \in Compilable, NEW f, NEW answers
  PROVE  LateFrom(c, EvaluateDecisionRules(c, f, answers))
<1> DEFINE i == FirstMatch(c.decisionRules, f, answers)
<1>1. CASE i = 0
  BY <1>1 DEF EvaluateDecisionRules, LateFrom
<1>2. CASE i # 0
  <2>1. DOMAIN c.decisionRules \subseteq Nat \ {0}
    <3>1. PICK doc : /\ DocumentShape(doc) /\ Compiles(doc, MaxQuestions)
                     /\ c \in CompiledForms(doc)
      BY HasADocument
    <3>2. /\ DOMAIN c.decisionRules = 1 .. Len(doc.decisionRules)
          /\ Len(doc.decisionRules) \in Nat
      BY <3>1, RulesOfAPolicy
    <3> QED  BY <3>2
  <2>2. i \in DOMAIN c.decisionRules
    BY <1>2, <2>1, FirstMatchIsARule
  <2> QED  BY <1>2, <2>2 DEF EvaluateDecisionRules, LateFrom
<1> QED  BY <1>1, <1>2

\* Where a result with a decision comes from.
LEMMA DecisionsComeFromRules ==
  ASSUME Inv, result.path \in {"pre_rule", "decision_rule", "default"}
  PROVE  /\ policy[1] \in Compilable
         /\ ValidateFacts(policy[1], facts)
         /\ \/ /\ reply = <<>> /\ result.path = "pre_rule"
               /\ \E i \in DOMAIN policy[1].preRules :
                    result = [path |-> "pre_rule",
                              rule |-> policy[1].preRules[i].id,
                              outcome |-> policy[1].preRules[i].outcome]
            \/ /\ reply # <<>> /\ result.path = "default"
               /\ result = [path |-> "default", rule |-> "",
                            outcome |-> policy[1].defaultOutcome]
            \/ /\ reply # <<>> /\ result.path = "decision_rule"
               /\ \E i \in DOMAIN policy[1].decisionRules :
                    result = [path |-> "decision_rule",
                              rule |-> policy[1].decisionRules[i].id,
                              outcome |-> policy[1].decisionRules[i].outcome]
         /\ reply # <<>> =>
              /\ reply = <<reply[1]>> /\ reply[1] \in Replies
              /\ DecidedLate
<1>1. \A why : Failed(why).path = why
  BY DEF Failed, NoResult
<1>2. result # NoResult
  <2>1. NoResult.path = "none"
    BY DEF NoResult
  <2> QED  BY <2>1
<1>3. stage = "done"
  BY <1>2 DEF Inv, PolicyInv
<1>4. /\ result # Failed("not_found") /\ result # Failed("invalid_policy")
      /\ result # Failed("input_invalid") /\ result # Failed("parse_failed")
      /\ result # Failed("provider_protocol")
  BY <1>1
<1>5. /\ policy[1] \in Compilable
      /\ ValidateFacts(policy[1], facts)
      /\ \/ DecidedEarly
         \/ reply = <<reply[1]>> /\ reply[1] \in Replies /\ DecidedLate
  BY <1>3, <1>4 DEF Inv, ResultInv, Refused
<1>6. CASE DecidedEarly
  <2>1. PICK i \in DOMAIN policy[1].preRules :
          result = [path |-> "pre_rule", rule |-> policy[1].preRules[i].id,
                    outcome |-> policy[1].preRules[i].outcome]
    BY <1>5, <1>6, EarlyResult DEF DecidedEarly
  <2>2. reply = <<>> /\ result.path = "pre_rule"
    BY <1>6, <2>1 DEF DecidedEarly
  <2> QED  BY <1>5, <2>1, <2>2
<1>7. CASE reply = <<reply[1]>> /\ reply[1] \in Replies /\ DecidedLate
  <2>1. reply # <<>>
    BY <1>7
  <2> DEFINE answers == normalizeResponse(policy[1], reply[1])
  <2>2. result = EvaluateDecisionRules(policy[1], facts, answers)
    BY <1>7 DEF DecidedLate
  <2> HIDE DEF answers
  <2>3. LateFrom(policy[1], result)
    BY <1>5, <2>2, LateResult
  <2>4. CASE result = [path |-> "default", rule |-> "",
                       outcome |-> policy[1].defaultOutcome]
    BY <1>5, <1>7, <2>1, <2>4
  <2>5. ASSUME NEW i \in DOMAIN policy[1].decisionRules,
               result =
                 [path |-> "decision_rule",
                  rule |-> policy[1].decisionRules[i].id,
                  outcome |-> policy[1].decisionRules[i].outcome]
        PROVE  result.path = "decision_rule"
    BY <2>5
  <2> QED  BY <1>5, <1>7, <2>1, <2>3, <2>4, <2>5 DEF LateFrom
<1> QED  BY <1>5, <1>6, <1>7

\* A record names its rule: of the policy, of the phase, with its outcome.
THEOREM AlwaysExplained == Spec => []DecisionIsExplained
<1>1. ASSUME Inv, result.path \in {"pre_rule", "decision_rule", "default"}
      PROVE  LET named == {i \in DOMAIN Rules(policy[1]) :
                             Rules(policy[1])[i].id = result.rule}
             IN  /\ result.outcome \in Range(policy[1].outcomes)
                 /\ (result.path = "pre_rule") = (reply = <<>>)
                 /\ IF result.path = "default" THEN named = {}
                    ELSE \E i \in DOMAIN Rules(policy[1]) :
                           /\ named = {i}
                           /\ Rules(policy[1])[i].outcome = result.outcome
                           /\ (i <= Len(policy[1].preRules))
                                  = (result.path = "pre_rule")
  <2> DEFINE c == policy[1]
             named == {i \in DOMAIN Rules(c) : Rules(c)[i].id = result.rule}
  <2>0. \/ /\ reply = <<>> /\ result.path = "pre_rule"
           /\ \E i \in DOMAIN c.preRules :
                result = [path |-> "pre_rule", rule |-> c.preRules[i].id,
                          outcome |-> c.preRules[i].outcome]
        \/ /\ reply # <<>> /\ result.path = "default"
           /\ result = [path |-> "default", rule |-> "",
                        outcome |-> c.defaultOutcome]
        \/ /\ reply # <<>> /\ result.path = "decision_rule"
           /\ \E i \in DOMAIN c.decisionRules :
                result = [path |-> "decision_rule",
                          rule |-> c.decisionRules[i].id,
                          outcome |-> c.decisionRules[i].outcome]
    BY <1>1, DecisionsComeFromRules
  <2>1. PICK doc : /\ DocumentShape(doc) /\ Compiles(doc, MaxQuestions)
                   /\ c \in CompiledForms(doc)
    BY <1>1, DecisionsComeFromRules, HasADocument
  <2>2. /\ DOMAIN c.preRules = 1 .. Len(doc.preRules)
        /\ DOMAIN c.decisionRules = 1 .. Len(doc.decisionRules)
        /\ Len(c.preRules) = Len(doc.preRules)
        /\ Len(doc.preRules) \in Nat /\ Len(doc.decisionRules) \in Nat
        /\ DOMAIN Rules(c) = 1 .. Len(doc.preRules) + Len(doc.decisionRules)
    BY <2>1, RulesOfAPolicy
  <2>3. /\ \A i \in DOMAIN c.preRules : Rules(c)[i] = c.preRules[i]
        /\ \A i \in DOMAIN c.decisionRules :
             Rules(c)[Len(doc.preRules) + i] = c.decisionRules[i]
    BY <2>1, RulesOfAPolicy
  <2>4. \A i \in DOMAIN Rules(c) :
          /\ Rules(c)[i].id \in DashedIdentifiers
          /\ Rules(c)[i].outcome \in Range(c.outcomes)
    BY <2>1, RulesOfAPolicy
  <2>5. \A i, j \in DOMAIN Rules(c) : Rules(c)[i].id = Rules(c)[j].id => i = j
    BY <2>1, RulesOfAPolicy
  <2>6. c.defaultOutcome \in Range(c.outcomes)
    <3>1. c.defaultOutcome = doc.defaultOutcome /\ c.outcomes = doc.outcomes
      BY <2>1, CompiledFields
    <3> QED  BY <2>1, <3>1 DEF Compiles, compileOutcomes
  <2> HIDE DEF c
  <2>7. CASE reply = <<>> /\ result.path = "pre_rule"
    <3>1. PICK i \in DOMAIN c.preRules :
            result = [path |-> "pre_rule", rule |-> c.preRules[i].id,
                      outcome |-> c.preRules[i].outcome]
      BY <2>0, <2>7
    <3>2. i \in DOMAIN Rules(c) /\ Rules(c)[i] = c.preRules[i]
      <4>1. \A p, d \in Nat : 1 .. p \subseteq 1 .. p + d
        OBVIOUS
      <4>2. DOMAIN c.preRules \subseteq DOMAIN Rules(c)
        BY <2>2, <4>1
      <4> QED  BY <2>3, <4>2
    <3>3. result.rule = Rules(c)[i].id /\ result.outcome = Rules(c)[i].outcome
      BY <3>1, <3>2
    <3>4. named = {i}
      BY <2>5, <3>2, <3>3
    <3>5. i <= Len(c.preRules)
      BY <2>2
    <3> QED  BY <2>4, <2>7, <3>2, <3>3, <3>4, <3>5 DEF c
  <2>8. CASE reply # <<>> /\ result.path = "default"
    <3>1. result.rule = "" /\ result.outcome = c.defaultOutcome
      <4>1. result = [path |-> "default", rule |-> "",
                      outcome |-> c.defaultOutcome]
        BY <2>0, <2>8
      <4> QED  BY <4>1
    <3>2. named = {}
      BY <2>4, <3>1, NamesAssumption
    <3> QED  BY <2>6, <2>8, <3>1, <3>2 DEF c
  <2>9. CASE reply # <<>> /\ result.path = "decision_rule"
    <3>1. PICK k \in DOMAIN c.decisionRules :
            result = [path |-> "decision_rule", rule |-> c.decisionRules[k].id,
                      outcome |-> c.decisionRules[k].outcome]
      BY <2>0, <2>9
    <3> DEFINE i == Len(doc.preRules) + k
    <3>2. i \in DOMAIN Rules(c) /\ Rules(c)[i] = c.decisionRules[k]
      <4>1. \A p, d \in Nat : \A n \in 1 .. d : p + n \in 1 .. p + d
        OBVIOUS
      <4>2. i \in DOMAIN Rules(c)
        BY <2>2, <4>1
      <4> QED  BY <2>3, <4>2
    <3>3. ~ (i <= Len(c.preRules))
      <4>1. \A p, d \in Nat : \A n \in 1 .. d : ~ (p + n <= p)
        OBVIOUS
      <4> QED  BY <2>2, <4>1
    <3> HIDE DEF i
    <3>4. result.rule = Rules(c)[i].id /\ result.outcome = Rules(c)[i].outcome
      BY <3>1, <3>2
    <3>5. named = {i}
      BY <2>5, <3>2, <3>4
    <3> QED  BY <2>4, <2>9, <3>2, <3>3, <3>4, <3>5 DEF c
  <2> QED  BY <2>0, <2>7, <2>8, <2>9
<1>2. Inv => DecisionIsExplained
  BY <1>1 DEF DecisionIsExplained
<1> QED  BY <1>2, EngineInvariant, PTL

-----------------------------------------------------------------------------
(* Hashes. *)

\* The recorded hash identifies the policy: no two policies that compile have
\* one canonical form, although it leaves out operand types and empty leaves.
THEOREM HashIdentifiesPolicy ==
  \A c, d \in Compilable : canonicalize(c) = canonicalize(d) => c = d
<1> SUFFICES ASSUME NEW c \in Compilable, NEW d \in Compilable,
                    canonicalize(c) = canonicalize(d)
             PROVE  c = d
  OBVIOUS
<1>1. PICK x : /\ DocumentShape(x) /\ Compiles(x, MaxQuestions)
               /\ c \in CompiledForms(x)
  BY HasADocument
<1>2. PICK y : /\ DocumentShape(y) /\ Compiles(y, MaxQuestions)
               /\ d \in CompiledForms(y)
  BY HasADocument
<1> QED  BY <1>1, <1>2, PolicyFromItsCanonicalForm

\* The hash recorded with a decision stands for the policy's behaviour on the
\* same facts and answers.
THEOREM AlwaysSameDecision == Spec => []SameHashSameDecision
<1>1. ASSUME Inv, result.path \in {"pre_rule", "decision_rule", "default"},
             NEW c \in Compilable, canonicalize(c) = canonicalize(policy[1])
      PROVE  /\ ValidateFacts(c, facts)
             /\ EvaluatePreRules(c, facts) = EvaluatePreRules(policy[1], facts)
             /\ reply # <<>> =>
                  /\ ValidateAnswers(c, Answers)
                  /\ EvaluateDecisionRules(c, facts, Answers) = result
  <2>1. /\ policy[1] \in Compilable /\ ValidateFacts(policy[1], facts)
        /\ reply # <<>> => DecidedLate
    BY <1>1, DecisionsComeFromRules
  <2>2. c = policy[1]
    BY <1>1, <2>1, HashIdentifiesPolicy
  <2> QED  BY <2>1, <2>2 DEF DecidedLate, Answers
<1>2. Inv => SameHashSameDecision
  BY <1>1 DEF SameHashSameDecision
<1> QED  BY <1>2, EngineInvariant, PTL

\* A restart on unchanged files keeps every hash, but for a noul question that
\* spells a key of its criteria twice.
THEOREM AlwaysHashSurvives == Spec => []HashSurvivesRestart
<1>1. ASSUME Inv, stage = "idle", hashes # <<>>, NEW i \in DOMAIN directory,
             directory[i].ext = ".yaml", ~SpelledTwice(directory[i].doc)
      PROVE  hashes[Ref(directory[i])]
               = canonicalize(loaded[Ref(directory[i])])
  <2> DEFINE ref == Ref(directory[i])
             doc == directory[i].doc
  <2>1. loaded \in LoadDir(directory) /\ directory \in Directories
    BY <1>1 DEF Inv, DirectoryInv
  <2>2. PICK set \in LoadDir(directory) : hashes = Hashes(set)
    BY <1>1 DEF Inv, DirectoryInv
  <2>3. i \in policyFiles(directory)
    BY <1>1 DEF policyFiles
  <2>4. ASSUME NEW s \in LoadDir(directory)
        PROVE  ref \in DOMAIN s /\ s[ref] \in CompiledForms(doc)
    BY <2>3 DEF LoadDir
  <2>5. DocumentShape(doc)
    <3>1. directory[i] \in Data
      BY <1>1, <2>1 DEF Data, Range
    <3> QED  BY <3>1, DocumentsAssumption
  <2>6. ref \in DOMAIN set /\ set[ref] = loaded[ref]
    BY <1>1, <2>1, <2>4, <2>5, OneForm
  <2> HIDE DEF ref
  <2>7. hashes[ref] = canonicalize(set[ref])
    BY <2>2, <2>6 DEF Hashes
  <2> QED  BY <2>6, <2>7 DEF ref
<1>2. Inv => HashSurvivesRestart
  BY <1>1 DEF HashSurvivesRestart
<1> QED  BY <1>2, EngineInvariant, PTL

-----------------------------------------------------------------------------
(* Operands. *)

\* The type the compiler compares by.
TypeOf(v) == IF IsNumber(v) THEN "number" ELSE v.kind

\* What ReadsItsType says, of any policy, facts and answers.
Reads(c, node, f, answers) ==
    LET left == Operand(node.operand[1], f, answers)
        right == IF node.op = "in" THEN Range(node.rightList)
                 ELSE {node.rightScalar}
    IN  \/ left = Absent /\ node.operand[1].fact \in DOMAIN c.optional
        \/ /\ left # Absent
           /\ node.op # "exists" => \A v \in right : TypeOf(v) = TypeOf(left)

\* A value of another kind is there.
LEMMA AbsentKind == \A v : v.kind # "absent" => v # Absent
<1>1. Absent.kind = "absent"
  BY DEF Absent
<1> QED  BY <1>1

\* A number stays one.
LEMMA AsNumberKeepsType ==
  ASSUME NEW v
  PROVE  TypeOf(AsNumber(v)) = TypeOf(v)
  BY DEF TypeOf, IsNumber, AsNumber

\* The right side of a leaf holds what compileLeaf checked, as float64.
LEMMA RightSides ==
  ASSUME NEW doc, NEW node, NEW phase, node.left # <<>>,
         compileLeaf(doc, node, phase), node.op # "exists",
         NEW v, v \in IF CompiledNode(node).op = "in"
                      THEN Range(CompiledNode(node).rightList)
                      ELSE {CompiledNode(node).rightScalar}
  PROVE  \E w : /\ TypeOf(v) = TypeOf(w)
                /\ checkRightValue(doc, node.left[1], node.op, w)
<1>1. CompiledNode(node).op = node.op
  BY DEF CompiledNode
<1>2. CASE node.op = "in"
  <2>1. CompiledNode(node).rightList =
          [i \in DOMAIN node.right.list |-> AsNumber(node.right.list[i])]
    BY <1>2 DEF CompiledNode
  <2>2. PICK i \in DOMAIN node.right.list : v = AsNumber(node.right.list[i])
    BY <1>1, <1>2, <2>1 DEF Range
  <2>3. checkRightValue(doc, node.left[1], node.op, node.right.list[i])
    BY <1>2 DEF compileLeaf
  <2> QED  BY <2>2, <2>3, AsNumberKeepsType
<1>3. CASE node.op # "in"
  <2>1. CompiledNode(node).rightScalar = AsNumber(node.right)
    BY <1>3 DEF CompiledNode
  <2>2. v = AsNumber(node.right)
    BY <1>1, <1>3, <2>1
  <2>3. checkRightValue(doc, node.left[1], node.op, node.right)
    BY <1>3 DEF compileLeaf
  <2> QED  BY <2>2, <2>3, AsNumberKeepsType
<1> QED  BY <1>2, <1>3

\* A leaf on a fact reads a value of the declared type; only an optional
\* fact may be missing.
LEMMA FactLeaf ==
  ASSUME NEW doc, NEW c \in CompiledForms(doc), Compiles(doc, MaxQuestions),
         NEW node, NEW phase, node.left # <<>>, compileLeaf(doc, node, phase),
         node.left[1].fact # "",
         NEW f, NEW answers, ValidateFacts(c, f)
  PROVE  Reads(c, CompiledNode(node), f, answers)
<1> DEFINE m == CompiledNode(node)
           o == node.left[1]
           left == Operand(m.operand[1], f, answers)
<1>1. m.operand = node.left /\ m.op = node.op
  BY DEF CompiledNode
<1>2. c.required = doc.required /\ c.optional = doc.optional
  BY CompiledFields
<1>3. o.fact \in DOMAIN declaredFacts(doc)
  BY DEF compileLeaf, resolveOperand, resolveFactOperand
<1> DEFINE type == declaredFacts(doc)[o.fact]
<1>4. CASE o.fact \in DOMAIN doc.optional /\ o.fact \notin DOMAIN f
                   /\ o.fact \notin DOMAIN doc.required
  <2>1. left = Absent
    BY <1>1, <1>4 DEF Operand
  <2> QED  BY <1>1, <1>2, <1>4, <2>1 DEF Reads
<1>5. CASE o.fact \in DOMAIN f \/ o.fact \in DOMAIN doc.required
  <2>1. o.fact \in DOMAIN f /\ Matches(type, f[o.fact])
    <3>1. CASE o.fact \in DOMAIN doc.required
      BY <1>2, <3>1 DEF ValidateFacts, declaredFacts
    <3>2. CASE o.fact \notin DOMAIN doc.required
      <4>1. o.fact \in DOMAIN doc.optional /\ o.fact \in DOMAIN f
        BY <1>3, <1>5, <3>2 DEF declaredFacts
      <4> QED  BY <1>2, <3>2, <4>1 DEF ValidateFacts, declaredFacts
    <3> QED  BY <3>1, <3>2
  <2>2. left = f[o.fact]
    BY <1>1, <2>1 DEF Operand
  <2>3. /\ left.kind # "absent"
        /\ \/ type = "string" /\ TypeOf(left) = "string"
           \/ type = "boolean" /\ TypeOf(left) = "bool"
           \/ type = "number" /\ TypeOf(left) = "number"
    BY <2>1, <2>2 DEF Matches, TypeOf, IsNumber
  <2> HIDE DEF left, type, m
  <2>4. left # Absent
    BY <2>3, AbsentKind
  <2> DEFINE right == IF m.op = "in" THEN Range(m.rightList)
                      ELSE {m.rightScalar}
  <2>5. ASSUME m.op # "exists", NEW v \in right
        PROVE  TypeOf(v) = TypeOf(left)
    <3>1. PICK w : /\ TypeOf(v) = TypeOf(w)
                   /\ checkRightValue(doc, o, node.op, w)
      BY <1>1, <2>5, RightSides DEF m
    <3>2. checkFactRightValue(type, node.op, w)
      BY <3>1 DEF checkRightValue, type
    <3>3. \/ type = "string" /\ TypeOf(w) = "string"
          \/ type = "boolean" /\ TypeOf(w) = "bool"
          \/ type = "number" /\ TypeOf(w) = "number"
      BY <3>2 DEF checkFactRightValue, TypeOf, IsNumber
    <3> QED  BY <2>3, <3>1, <3>3
  <2> HIDE DEF right
  <2>6. m.op # "exists" => \A v \in right : TypeOf(v) = TypeOf(left)
    BY <2>5
  <2> QED  BY <2>4, <2>6 DEF Reads, left, m, right
<1> QED  BY <1>3, <1>4, <1>5 DEF declaredFacts

\* A compiled question keeps its type and its keys.
LEMMA CompiledQuestion ==
  ASSUME NEW doc, DocumentShape(doc), Compiles(doc, MaxQuestions),
         NEW c \in CompiledForms(doc), NEW id \in DOMAIN doc.questions
  PROVE  LET q == c.questions[id]
             source == doc.questions[id]
         IN  /\ id \in Identifiers
             /\ q.type = source.type /\ q.type \in QuestionTypes
             /\ q.type = "choice" =>
                  /\ DOMAIN q.criteria = DOMAIN source.criteria.entries
                  /\ Cardinality(DOMAIN q.criteria)
                         \in Limits.minChoice .. Limits.maxChoice
             /\ q.type = "score" =>
                  /\ Len(q.criteria) = Len(source.criteria.entries)
                  /\ DOMAIN q.criteria = 1 .. Len(q.criteria)
                  /\ Len(q.criteria) \in Limits.minScore .. Limits.maxScore
                  /\ Len(q.criteria) \in Nat
                  /\ \A i \in DOMAIN q.criteria : \E v :
                       q.criteria[i] = normalizeQuestionValue(v)
<1> DEFINE q == c.questions[id]
           source == doc.questions[id]
           normal(f) == [k \in DOMAIN f |-> normalizeQuestionValue(f[k])]
           maps == IF source.criteria.shape = "none" THEN {<<>>}
                   ELSE IF source.type = "noul"
                   THEN noulCriteriaMap(source.criteria)
                   ELSE {source.criteria.entries}
<1>1. q \in CompiledQuestions(source)
  BY CompiledParts
<1>2. PICK f \in maps :
        q = [type         |-> source.type,
             instructions |-> normalizeQuestionValue(source.instructions),
             criteria     |-> normal(f)]
  BY <1>1 DEF CompiledQuestions
<1>3. q.type = source.type /\ q.criteria = normal(f)
  BY <1>2
<1>4. compileQuestion(id, source)
  BY DEF Compiles, compileQuestions
<1>5. id \in Identifiers /\ source.type \in QuestionTypes
  BY <1>4 DEF compileQuestion
<1>6. ASSUME source.type = "choice"
      PROVE  /\ DOMAIN q.criteria = DOMAIN source.criteria.entries
             /\ Cardinality(DOMAIN q.criteria)
                    \in Limits.minChoice .. Limits.maxChoice
  <2>1. compileChoiceCriteria(source.criteria)
    BY <1>4, <1>6 DEF compileQuestion
  <2>2. f = source.criteria.entries
    BY <1>6, <2>1 DEF compileChoiceCriteria
  <2>3. DOMAIN q.criteria = DOMAIN source.criteria.entries
    BY <1>3, <2>2
  <2> QED  BY <2>1, <2>3 DEF compileChoiceCriteria
<1>7. ASSUME source.type = "score"
      PROVE  /\ Len(q.criteria) = Len(source.criteria.entries)
             /\ DOMAIN q.criteria = 1 .. Len(q.criteria)
             /\ Len(q.criteria) \in Limits.minScore .. Limits.maxScore
             /\ Len(q.criteria) \in Nat
             /\ \A i \in DOMAIN q.criteria : \E v :
                  q.criteria[i] = normalizeQuestionValue(v)
  <2> DEFINE entries == source.criteria.entries
  <2>1. compileScoreCriteria(source.criteria)
    BY <1>4, <1>7 DEF compileQuestion
  <2>2. f = entries
    BY <1>7, <2>1 DEF compileScoreCriteria
  <2>3. entries \in Seq(Range(entries))
    BY <2>1 DEF DocumentShape, compileScoreCriteria
  <2>4. DOMAIN entries = 1 .. Len(entries) /\ Len(entries) \in Nat
    BY <2>3, SeqDomain
  <2>5. q.criteria = [k \in 1 .. Len(entries) |-> normalizeQuestionValue(entries[k])]
    BY <1>3, <2>2, <2>4
  <2>6. Len(entries) \in Limits.minScore .. Limits.maxScore
    BY <2>1 DEF compileScoreCriteria
  <2> HIDE DEF entries
  <2>7. Len(q.criteria) = Len(entries)
    BY <2>4, <2>5
  <2>8. DOMAIN q.criteria = 1 .. Len(entries)
    BY <2>5
  <2>9. \A i \in DOMAIN q.criteria : \E v :
          q.criteria[i] = normalizeQuestionValue(v)
    BY <2>5
  <2> QED  BY <2>4, <2>6, <2>7, <2>8, <2>9 DEF entries
<1> HIDE DEF q
<1> QED  BY <1>3, <1>5, <1>6, <1>7 DEF q

\* Which fields an answer of each type has.
LEMMA FieldsOfTypes ==
  ASSUME NEW f, NEW t, AvailableOn(f, t)
  PROVE  \/ t = "noul" /\ f = "noul"
         \/ t = "choice" /\ f \in {"choice", "confidence", "probability"}
         \/ t = "score" /\ f \in {"score", "confidence", "probability"}
<1>1. CASE t = "noul"
  BY <1>1 DEF AvailableOn, Fields
<1>2. CASE t = "choice"
  BY <1>2 DEF AvailableOn, Fields
<1>3. CASE t = "score"
  BY <1>3 DEF AvailableOn, Fields
<1> QED  BY <1>1, <1>2, <1>3 DEF AvailableOn, QuestionTypes

\* A validated answer has every field of its type, text for the choice and a
\* float64 for the others.
LEMMA ValidatedFields ==
  ASSUME NEW q, NEW ans, validateAnswer(q, ans), ans.choice.kind = "string",
         NEW field, AvailableOn(field, q.type), field # "probability"
  PROVE  /\ field = "choice" => Field(ans, field).kind = "string"
         /\ field # "choice" => Field(ans, field).kind = "float"
<1>1. ans.type = q.type
  BY DEF validateAnswer
<1>2. \/ q.type = "noul" /\ field = "noul"
      \/ q.type = "choice" /\ field \in {"choice", "confidence"}
      \/ q.type = "score" /\ field \in {"score", "confidence"}
  BY FieldsOfTypes
<1>3. CASE field = "choice"
  <2>1. Field(ans, field) = ans.choice
    BY <1>1, <1>3 DEF Field
  <2> QED  BY <1>3, <2>1
<1>4. CASE field = "noul"
  <2>1. Field(ans, field) = ans.noul
    BY <1>1, <1>4 DEF Field
  <2>2. isProbability(ans.noul)
    BY <1>2, <1>4 DEF validateAnswer
  <2> QED  BY <1>4, <2>1, <2>2 DEF isProbability
<1>5. CASE field = "score"
  <2>1. Field(ans, field) = ans.score
    BY <1>1, <1>5 DEF Field
  <2>2. validateScoreAnswer(q, ans)
    BY <1>2, <1>5 DEF validateAnswer
  <2> QED  BY <1>5, <2>1, <2>2 DEF validateScoreAnswer
<1>6. CASE field = "confidence"
  <2>1. validateConfidence(ans)
    <3>1. CASE q.type = "choice"
      BY <3>1 DEF validateAnswer, validateChoiceAnswer
    <3>2. CASE q.type = "score"
      BY <3>2 DEF validateAnswer, validateScoreAnswer
    <3> QED  BY <1>2, <1>6, <3>1, <3>2
  <2>2. Field(ans, field) = ans.confidence
    BY <1>1, <1>6, <2>1 DEF Field, validateConfidence
  <2> QED  BY <1>6, <2>1, <2>2 DEF validateConfidence, isProbability
<1> QED  BY <1>2, <1>3, <1>4, <1>5, <1>6

\* An operand resolveAnswerOperand takes finds its field in the validated
\* answers: text for a choice, a float64 for everything else.
LEMMA ValidatedOperand ==
  ASSUME NEW doc, DocumentShape(doc), Compiles(doc, MaxQuestions),
         NEW c \in CompiledForms(doc),
         NEW o, resolveAnswerOperand(doc, o, "decisionRules"),
         NEW r, ValidateAnswers(c, normalizeResponse(c, r))
  PROVE  LET answers == normalizeResponse(c, r)
             left == IF o.field = "probability"
                     THEN Probability(answers[o.answer], o.key)
                     ELSE Field(answers[o.answer], o.field)
         IN  /\ o.answer \in DOMAIN answers
             /\ o.field = "choice" => left.kind = "string"
             /\ o.field # "choice" => left.kind = "float"
<1> DEFINE answers == normalizeResponse(c, r)
           ans == answers[o.answer]
           q == c.questions[o.answer]
           source == doc.questions[o.answer]
           left == IF o.field = "probability" THEN Probability(ans, o.key)
                   ELSE Field(ans, o.field)
<1>1. /\ o.answer \in DOMAIN doc.questions
      /\ AvailableOn(o.field, source.type)
      /\ validateProbabilityKey(source, o)
  BY DEF resolveAnswerOperand
<1>2. /\ q.type = source.type
      /\ q.type = "choice" =>
           DOMAIN q.criteria = DOMAIN source.criteria.entries
      /\ q.type = "score" => Len(q.criteria) = Len(source.criteria.entries)
  BY <1>1, CompiledQuestion
<1>3. o.answer \in DOMAIN answers
  <2>1. Range(c.questionIDs) = DOMAIN doc.questions
    BY CompiledParts, OrdersAreBijections DEF DocumentShape
  <2> QED  BY <1>1, <2>1 DEF ValidateAnswers
<1>4. validateAnswer(q, ans)
  BY <1>3 DEF ValidateAnswers
<1>5. ans.choice.kind = "string"
  <2>1. o.answer \in DOMAIN r.answers
    BY <1>3 DEF normalizeResponse
  <2>2. ans = normalizeAnswer(c, o.answer, r.answers[o.answer])
    BY <2>1 DEF normalizeResponse
  <2> HIDE DEF ans
  <2> QED  BY <2>2 DEF normalizeAnswer
<1>6. ans.type = q.type
  BY <1>4 DEF validateAnswer
<1> HIDE DEF answers, ans, q
<1>7. CASE o.field = "probability"
  <2>1. q.type \in {"choice", "score"}
    BY <1>1, <1>2, <1>7, FieldsOfTypes
  <2>2. o.key \in DOMAIN ans.probabilities
    <3>1. CASE q.type = "choice"
      BY <1>1, <1>2, <1>4, <1>7, <3>1
      DEF validateAnswer, validateChoiceAnswer, validateProbabilityKey
    <3>2. CASE q.type = "score"
      BY <1>1, <1>2, <1>4, <1>7, <3>2
      DEF validateAnswer, validateScoreAnswer, validateProbabilityKey
    <3> QED  BY <2>1, <3>1, <3>2
  <2>3. validateDistribution(ans.probabilities)
    <3>1. CASE q.type = "choice"
      BY <1>4, <3>1 DEF validateAnswer, validateChoiceAnswer
    <3>2. CASE q.type = "score"
      BY <1>4, <3>2 DEF validateAnswer, validateScoreAnswer
    <3> QED  BY <2>1, <3>1, <3>2
  <2>4. isProbability(ans.probabilities[o.key])
    BY <2>2, <2>3 DEF validateDistribution
  <2>5. left = ans.probabilities[o.key]
    <3>1. AvailableOn("probability", ans.type)
      BY <1>1, <1>2, <1>6, <1>7
    <3> QED  BY <1>7, <2>2, <3>1 DEF Probability
  <2> HIDE DEF left
  <2>6. left.kind = "float"
    BY <2>4, <2>5 DEF isProbability
  <2> QED  BY <1>3, <1>7, <2>6 DEF left, ans, answers
<1>8. CASE o.field # "probability"
  <2>1. AvailableOn(o.field, q.type)
    BY <1>1, <1>2
  <2>2. /\ o.field = "choice" => Field(ans, o.field).kind = "string"
        /\ o.field # "choice" => Field(ans, o.field).kind = "float"
    BY <1>4, <1>5, <1>8, <2>1, ValidatedFields
  <2> QED  BY <1>3, <1>8, <2>2 DEF ans, answers
<1> QED  BY <1>7, <1>8

\* A leaf on an answer reads a value that is there and compares it with its
\* own kind.
LEMMA AnswerLeaf ==
  ASSUME NEW doc, DocumentShape(doc), Compiles(doc, MaxQuestions),
         NEW c \in CompiledForms(doc),
         NEW node, node.left # <<>>, compileLeaf(doc, node, "decisionRules"),
         node.left[1].fact = "",
         NEW f, NEW r, ValidateAnswers(c, normalizeResponse(c, r))
  PROVE  Reads(c, CompiledNode(node), f, normalizeResponse(c, r))
<1> DEFINE m == CompiledNode(node)
           o == node.left[1]
           answers == normalizeResponse(c, r)
           value == IF o.field = "probability"
                    THEN Probability(answers[o.answer], o.key)
                    ELSE Field(answers[o.answer], o.field)
           left == Operand(m.operand[1], f, answers)
<1>1. m.operand = node.left /\ m.op = node.op
  BY DEF CompiledNode
<1>2. resolveAnswerOperand(doc, o, "decisionRules")
  BY DEF compileLeaf, resolveOperand
<1>3. /\ o.answer \in DOMAIN answers
      /\ o.field = "choice" => value.kind = "string"
      /\ o.field # "choice" => value.kind = "float"
  BY <1>2, ValidatedOperand, ZenonT(40)
<1> HIDE DEF answers, m
<1>4. left = value
  BY <1>1, <1>3 DEF Operand
<1> DEFINE right == IF m.op = "in" THEN Range(m.rightList)
                    ELSE {m.rightScalar}
<1> HIDE DEF left, value
<1>5. left # Absent
  BY <1>3, <1>4, AbsentKind
<1>6. TypeOf(left) = IF o.field = "choice" THEN "string" ELSE "number"
  BY <1>3, <1>4 DEF TypeOf, IsNumber
<1>7. ASSUME m.op # "exists", NEW v \in right
      PROVE  TypeOf(v) = TypeOf(left)
  <2>1. PICK w : /\ TypeOf(v) = TypeOf(w)
                 /\ checkRightValue(doc, o, node.op, w)
    BY <1>1, <1>7, RightSides DEF m
  <2>2. checkAnswerRightValue(doc.questions[o.answer], o.field, node.op, w)
    BY <2>1 DEF checkRightValue
  <2>3. TypeOf(w) = IF o.field = "choice" THEN "string" ELSE "number"
    BY <2>2 DEF checkAnswerRightValue, TypeOf, IsNumber
  <2> QED  BY <1>6, <2>1, <2>3
<1> HIDE DEF right
<1>8. m.op # "exists" => \A v \in right : TypeOf(v) = TypeOf(left)
  BY <1>7
<1> QED  BY <1>5, <1>8 DEF Reads, left, m, right, answers

\* A leaf of a compiled rule was checked by compileLeaf in its phase.
LEMMA LeavesAreCompiled ==
  ASSUME NEW doc, NEW phase, NEW rules, Branched(rules),
         compileRules(doc, rules, phase), NEW i \in DOMAIN rules,
         NEW n \in DOMAIN CompiledRules(rules)[i].when,
         CompiledRules(rules)[i].when[n].kind = "left"
  PROVE  \E node : /\ CompiledRules(rules)[i].when[n] = CompiledNode(node)
                   /\ node.left # <<>>
                   /\ compileLeaf(doc, node, phase)
<1> DEFINE when == [k \in DOMAIN rules[i].when |-> CompiledNode(rules[i].when[k])]
           node == rules[i].when[n]
<1>1. CompiledRules(rules)[i].when = when
  <2>1. CompiledRules(rules)[i] =
          [id |-> rules[i].id, description |-> rules[i].description,
           when |-> when, outcome |-> rules[i].outcome]
    BY CompiledRule DEF Branched
  <2> HIDE DEF when
  <2> QED  BY <2>1
<1>2. n \in DOMAIN rules[i].when /\ when[n] = CompiledNode(node)
  BY <1>1
<1>3. NodeShape(node) /\ Cardinality(Branches(node)) = 1
  BY <1>2 DEF Branched, RulesShape, RuleShape
<1>4. CompiledNode(node).kind = "left"
  BY <1>1, <1>2
<1>5. node.left # <<>>
  BY <1>3, <1>4, NodeKinds
<1>6. compileLeaf(doc, node, phase)
  BY <1>2, <1>5 DEF compileRules, compileRule, compileCondition
<1> QED  BY <1>1, <1>2, <1>5, <1>6

\* A pre-rule has no leaf on an answer; a leaf on an answer reads a validated
\* one.
LEMMA LeavesReadTheirTypes ==
  ASSUME NEW doc, DocumentShape(doc), Compiles(doc, MaxQuestions),
         NEW c \in CompiledForms(doc),
         NEW phase, NEW rules, Branched(rules),
         compileRules(doc, rules, phase),
         NEW f, ValidateFacts(c, f),
         NEW answers,
         phase = "decisionRules" =>
           \E r : /\ answers = normalizeResponse(c, r)
                 /\ ValidateAnswers(c, answers),
         NEW i \in DOMAIN rules,
         NEW n \in DOMAIN CompiledRules(rules)[i].when,
         CompiledRules(rules)[i].when[n].kind = "left"
  PROVE  Reads(c, CompiledRules(rules)[i].when[n], f, answers)
<1>1. PICK node : /\ CompiledRules(rules)[i].when[n] = CompiledNode(node)
                  /\ node.left # <<>>
                  /\ compileLeaf(doc, node, phase)
  BY LeavesAreCompiled
<1>2. CASE node.left[1].fact # ""
  <2>1. Reads(c, CompiledNode(node), f, answers)
    BY <1>1, <1>2, FactLeaf
  <2> QED  BY <1>1, <2>1
<1>3. CASE node.left[1].fact = ""
  <2>1. phase = "decisionRules"
    BY <1>1, <1>3 DEF compileLeaf, resolveOperand, resolveAnswerOperand
  <2>2. PICK r : /\ answers = normalizeResponse(c, r)
                 /\ ValidateAnswers(c, answers)
    BY <2>1
  <2>3. Reads(c, CompiledNode(node), f, normalizeResponse(c, r))
    BY <1>1, <1>3, <2>1, <2>2, AnswerLeaf
  <2> QED  BY <1>1, <2>2, <2>3
<1> QED  BY <1>2, <1>3

\* Evaluate cannot fail: once facts and answers are validated, every leaf of
\* the rules about to run reads a value of the type compileLeaf assumed, and
\* only an optional fact may be missing.
THEOREM AlwaysTyped == Spec => []OperandsAreTyped
<1>1. ASSUME NEW node
      PROVE  ReadsItsType(node) = Reads(policy[1], node, facts, Answers)
  BY DEF ReadsItsType, Reads, TypeOf
<1>2. ASSUME Inv, stage = "asked" \/ result.path = "pre_rule",
             NEW i \in DOMAIN policy[1].preRules,
             NEW n \in DOMAIN policy[1].preRules[i].when,
             policy[1].preRules[i].when[n].kind = "left"
      PROVE  ReadsItsType(policy[1].preRules[i].when[n])
  <2>1. policy[1] \in Compilable /\ ValidateFacts(policy[1], facts)
    <3>1. CASE stage = "asked"
      BY <1>2, <3>1 DEF Inv, PolicyInv
    <3>2. CASE result.path = "pre_rule"
      BY <1>2, <3>2, DecisionsComeFromRules
    <3> QED  BY <1>2, <3>1, <3>2
  <2> DEFINE c == policy[1]
  <2>2. PICK doc : /\ DocumentShape(doc) /\ Compiles(doc, MaxQuestions)
                   /\ c \in CompiledForms(doc)
    BY <2>1, HasADocument
  <2>3. c.preRules = CompiledRules(doc.preRules)
    BY <2>2, CompiledFields
  <2>4. Branched(doc.preRules) /\ compileRules(doc, doc.preRules, "preRules")
    BY <2>2, CompiledIsBranched DEF Compiles
  <2>5. i \in DOMAIN doc.preRules
    BY <1>2, <2>3 DEF CompiledRules
  <2>6. Reads(c, c.preRules[i].when[n], facts, Answers)
    <3>1. "preRules" = "decisionRules" =>
            \E r : /\ Answers = normalizeResponse(c, r)
                  /\ ValidateAnswers(c, Answers)
      OBVIOUS
    <3>2. ASSUME NEW answers,
                 "preRules" = "decisionRules" =>
                   \E r : /\ answers = normalizeResponse(c, r)
                         /\ ValidateAnswers(c, answers)
          PROVE  Reads(c, CompiledRules(doc.preRules)[i].when[n], facts, answers)
      BY <1>2, <2>1, <2>2, <2>3, <2>4, <2>5, <3>2, LeavesReadTheirTypes
    <3> QED  BY <2>3, <3>1, <3>2
  <2> QED  BY <1>1, <2>6
<1>3. ASSUME Inv, result.path \in {"decision_rule", "default"},
             NEW i \in DOMAIN policy[1].decisionRules,
             NEW n \in DOMAIN policy[1].decisionRules[i].when,
             policy[1].decisionRules[i].when[n].kind = "left"
      PROVE  ReadsItsType(policy[1].decisionRules[i].when[n])
  <2> DEFINE c == policy[1]
  <2>1. c \in Compilable /\ ValidateFacts(c, facts) /\ reply # <<>> /\ DecidedLate
    BY <1>3, DecisionsComeFromRules
  <2>2. /\ Answers = normalizeResponse(c, reply[1])
        /\ ValidateAnswers(c, Answers)
    BY <2>1 DEF DecidedLate, Answers
  <2>3. PICK doc : /\ DocumentShape(doc) /\ Compiles(doc, MaxQuestions)
                   /\ c \in CompiledForms(doc)
    BY <2>1, HasADocument
  <2>4. c.decisionRules = CompiledRules(doc.decisionRules)
    BY <2>3, CompiledFields
  <2>5. /\ Branched(doc.decisionRules)
        /\ compileRules(doc, doc.decisionRules, "decisionRules")
    BY <2>3, CompiledIsBranched DEF Compiles
  <2>6. i \in DOMAIN doc.decisionRules
    BY <1>3, <2>4 DEF CompiledRules
  <2>7. \E r : Answers = normalizeResponse(c, r) /\ ValidateAnswers(c, Answers)
    BY <2>2
  <2>8. Reads(c, c.decisionRules[i].when[n], facts, Answers)
    BY <1>3, <2>1, <2>3, <2>4, <2>5, <2>6, <2>7, LeavesReadTheirTypes
  <2> QED  BY <1>1, <2>8
<1>4. Inv => OperandsAreTyped
  BY <1>2, <1>3 DEF OperandsAreTyped
<1> QED  BY <1>4, EngineInvariant, PTL

-----------------------------------------------------------------------------
(* Requests. *)

\* Every policy the compiler accepts builds a request the adapter and its
\* client take.
LEMMA CompiledPoliciesAreAsked ==
  ASSUME NEW c \in Compilable
  PROVE  buildRequest(c)
<1>1. PICK doc : /\ DocumentShape(doc) /\ Compiles(doc, MaxQuestions)
                 /\ c \in CompiledForms(doc)
  BY HasADocument
<1> DEFINE ids == DOMAIN doc.questions
<1>2. IsFiniteSet(ids) /\ c.questionIDs \in questionOrders(ids)
  BY <1>1, CompiledParts DEF DocumentShape
<1>3. c.questionIDs \in [1 .. Cardinality(ids) -> ids] /\ IsInjective(c.questionIDs)
  BY <1>2, OrdersAreBijections
<1>4. c.questionIDs # <<>>
  <2>1. Cardinality(ids) \in Nat
    BY <1>2, FS_CardinalityType
  <2>2. Cardinality(ids) \in 1 .. resolveMaxQuestions(MaxQuestions)
    BY <1>1 DEF Compiles, compileQuestions
  <2>3. \A n \in Nat : \A k : n \in 1 .. k => 1 \in 1 .. n
    OBVIOUS
  <2>4. 1 \in DOMAIN c.questionIDs
    BY <1>3, <2>1, <2>2, <2>3
  <2> QED  BY <2>4
<1>5. DOMAIN c.questions = ids
  <2>1. c.questions = [id \in DOMAIN doc.questions |-> c.questions[id]]
    BY <1>1, CompiledParts
  <2> QED  BY <2>1
<1>6. ASSUME NEW id \in ids
      PROVE  /\ id # ""
             /\ c.questions[id].type = "choice" =>
                  Cardinality(DOMAIN c.questions[id].criteria) \in 1 .. 255
             /\ c.questions[id].type = "score" =>
                  Len(c.questions[id].criteria) \in 2 .. 10
  <2> DEFINE q == c.questions[id]
  <2>1. /\ id \in Identifiers
        /\ q.type = "choice" => Cardinality(DOMAIN q.criteria)
                                  \in Limits.minChoice .. Limits.maxChoice
        /\ q.type = "score" => Len(q.criteria)
                                 \in Limits.minScore .. Limits.maxScore
    BY <1>1, CompiledQuestion
  <2>2. id # ""
    BY <2>1, NamesAssumption
  <2>3. /\ Limits.minChoice .. Limits.maxChoice \subseteq 1 .. 255
        /\ Limits.minScore .. Limits.maxScore \subseteq 2 .. 10
    <3>1. \A a, b \in 1 .. 255 : a .. b \subseteq 1 .. 255
      OBVIOUS
    <3>2. \A a, b \in 2 .. 10 : a .. b \subseteq 2 .. 10
      OBVIOUS
    <3> QED  BY <3>1, <3>2, LimitsAssumption, ZenonT(40)
  <2> QED  BY <2>1, <2>2, <2>3, ZenonT(40)
<1> QED  BY <1>3, <1>4, <1>5, <1>6 DEF buildRequest

-----------------------------------------------------------------------------
(* Honest replies. *)

\* A decimal within whole bounds is widened to a float64 within them.
LEMMA WidenedInRange ==
  ASSUME NEW d \in DOMAIN Float32, NEW m \in 1 .. 9, d \in 0 .. One * m
  PROVE  Float(d).kind = "float" /\ Float(d).num \in 0 .. One * m
  BY RoundingAssumption DEF Float

\* A number of the wire, 0 when the provider leaves it out.
Number(wire, name) ==
    IF name \in DOMAIN wire.numbers THEN wire.numbers[name] ELSE 0

\* What normalizeAnswer takes from the wire, by the type of the answer.
LEMMA NormalizedAnswer ==
  ASSUME NEW c, NEW id, NEW wire
  PROVE  LET a == normalizeAnswer(c, id, wire)
         IN  /\ a.type = wire.type
             /\ wire.type = "noul" => a.noul = Float(Number(wire, "noul"))
             /\ wire.type = "choice" => a.choice.str = wire.choice
             /\ wire.type = "score" => a.score = Float(Number(wire, "score"))
             /\ wire.type \in {"choice", "score"} =>
                  /\ a.hasConfidence
                  /\ a.confidence = Float(Number(wire, "confidence"))
                  /\ a.probabilities = [k \in DOMAIN wire.probabilities |->
                                          Float(wire.probabilities[k])]
             /\ wire.type = "score" =>
                  a.legend = [k \in DOMAIN wire.legend |->
                                decodeUnion(wire.legend[k], Level(c, id, k))]
  BY DEF normalizeAnswer, Number

\* The key of a level stands for that level.
LEMMA LevelOfAKey ==
  ASSUME NEW c, NEW id \in DOMAIN c.questions, c.questions[id].type = "score",
         Len(c.questions[id].criteria) \in Nat,
         Len(c.questions[id].criteria) <= Len(LevelKeys),
         NEW i \in 1 .. Len(c.questions[id].criteria)
  PROVE  Level(c, id, LevelKeys[i]) = c.questions[id].criteria[i]
<1> DEFINE n == Len(c.questions[id].criteria)
           at == {j \in 1 .. n : LevelKeys[j] = LevelKeys[i]}
<1>1. LevelKeys \in Seq(STRING) /\ IsInjective(LevelKeys)
  BY NamesAssumption
<1>2. DOMAIN LevelKeys = 1 .. Len(LevelKeys) /\ Len(LevelKeys) \in Nat
  BY <1>1, SeqDomain
<1>3. at = {i}
  <2>1. 1 .. n \subseteq DOMAIN LevelKeys
    BY <1>2
  <2>2. i \in 1 .. n
    OBVIOUS
  <2> HIDE DEF n
  <2> QED  BY <1>1, <2>1, <2>2 DEF IsInjective
<1>4. Level(c, id, LevelKeys[i])
        = IF at = {} THEN [form |-> "null", number |-> "none"]
          ELSE c.questions[id].criteria[CHOOSE j \in at : TRUE]
  BY DEF Level
<1> HIDE DEF at
<1>5. (CHOOSE j \in at : TRUE) = i /\ at # {}
  BY <1>3
<1> QED  BY <1>4, <1>5

\* The exceptions of HonestAnswersPass, for one question.
NumberedLevel(c, id) ==
    /\ c.questions[id].type = "score"
    /\ \E i \in DOMAIN c.questions[id].criteria :
         c.questions[id].criteria[i].number # "none"

AtTheEdge(c, r, id) ==
    /\ c.questions[id].type # "noul"
    /\ DecimalSum(r.answers[id].probabilities)
           \notin One - Tolerance + Widening .. One + Tolerance - Widening

\* The numbers of an honest answer pass isProbability once widened.
LEMMA HonestNumbers ==
  ASSUME NEW c, NEW r \in Replies, Honest(c, r), NEW id \in DOMAIN c.questions,
         NEW name, name # "score"
  PROVE  isProbability(Float(Number(r.answers[id], name)))
<1> DEFINE wire == r.answers[id]
           d == Number(wire, name)
<1>1. id \in DOMAIN r.answers
  BY DEF Honest
<1>2. One \in Nat
  BY NumbersAssumption
<1>3. d \in DOMAIN Float32 /\ d \in 0 .. One * 1
  <2>1. CASE name \in DOMAIN wire.numbers
    <3>1. wire.numbers[name] \in DOMAIN Float32
      BY <1>1, <2>1, RepliesAssumption DEF Range
    <3>2. wire.numbers[name] \in 0 .. One * 1
      BY <2>1 DEF Honest
    <3> QED  BY <2>1, <3>1, <3>2 DEF Number
  <2>2. CASE name \notin DOMAIN wire.numbers
    <3>1. d = 0
      BY <2>2 DEF Number
    <3> QED  BY <1>2, <3>1, RoundingAssumption
  <2> QED  BY <2>1, <2>2
<1> HIDE DEF d
<1>4. Float(d).kind = "float" /\ Float(d).num \in 0 .. One * 1
  BY <1>3, WidenedInRange
<1> QED  BY <1>2, <1>4 DEF isProbability, d

\* So does its distribution, whose sum moves by no more than the widening.
LEMMA HonestDistribution ==
  ASSUME NEW c, NEW r \in Replies, Honest(c, r), NEW id \in DOMAIN c.questions,
         c.questions[id].type \in {"choice", "score"}, ~AtTheEdge(c, r, id)
  PROVE  LET p == r.answers[id].probabilities
         IN  validateDistribution([k \in DOMAIN p |-> Float(p[k])])
<1> DEFINE p == r.answers[id].probabilities
           q == [k \in DOMAIN p |-> Float(p[k])]
           sum == DecimalSum(p)
<1>1. id \in DOMAIN r.answers
  BY DEF Honest
<1>2. One \in Nat /\ Tolerance \in Nat /\ Widening \in Nat
  BY NumbersAssumption, RepliesAssumption
<1>3. \A k \in DOMAIN p : p[k] \in 0 .. One
  <2>1. c.questions[id].type # "noul"
    OBVIOUS
  <2> QED  BY <2>1 DEF Honest
<1>4. ASSUME NEW k \in DOMAIN p PROVE isProbability(q[k])
  <2>1. p[k] \in DOMAIN Float32 /\ p[k] \in 0 .. One * 1
    <3>1. Range(p) \subseteq DOMAIN Float32
      BY <1>1, RepliesAssumption
    <3>2. p[k] \in 0 .. One
      BY <1>3
    <3> HIDE DEF p
    <3> QED  BY <1>2, <3>1, <3>2 DEF Range
  <2>2. Float(p[k]).kind = "float" /\ Float(p[k]).num \in 0 .. One * 1
    BY <2>1, WidenedInRange
  <2> QED  BY <1>2, <2>2 DEF isProbability
<1>5. sum \in One - Tolerance + Widening .. One + Tolerance - Widening
  BY DEF AtTheEdge
<1>6. Total(q) \in sum - Widening .. sum + Widening
  BY <1>1, RepliesAssumption
<1> HIDE DEF sum, q
<1>7. Total(q) \in One - Tolerance .. One + Tolerance
  BY <1>2, <1>5, <1>6
<1>8. DOMAIN q = DOMAIN p
  BY DEF q
<1>9. validateDistribution(q)
  BY <1>4, <1>7, <1>8 DEF validateDistribution
<1> QED  BY <1>9 DEF q

\* An honest answer is validated, exceptions aside.
LEMMA HonestAnswer ==
  ASSUME NEW c \in Compilable, NEW r \in Replies, Honest(c, r),
         NEW id \in DOMAIN c.questions,
         ~NumberedLevel(c, id), ~AtTheEdge(c, r, id)
  PROVE  validateAnswer(c.questions[id], normalizeAnswer(c, id, r.answers[id]))
<1> DEFINE q == c.questions[id]
           wire == r.answers[id]
           a == normalizeAnswer(c, id, wire)
<1>1. PICK doc : /\ DocumentShape(doc) /\ Compiles(doc, MaxQuestions)
                 /\ c \in CompiledForms(doc)
  BY HasADocument
<1>2. id \in DOMAIN doc.questions
  <2>1. c.questions = [i \in DOMAIN doc.questions |-> c.questions[i]]
    BY <1>1, CompiledParts
  <2> QED  BY <2>1
<1>3. /\ q.type \in QuestionTypes
      /\ q.type = "score" =>
           /\ DOMAIN q.criteria = 1 .. Len(q.criteria)
           /\ Len(q.criteria) \in Limits.minScore .. Limits.maxScore
           /\ Len(q.criteria) \in Nat
  BY <1>1, <1>2, CompiledQuestion
<1>4. wire.type = q.type
  BY DEF Honest
<1>5. /\ a.type = wire.type
      /\ wire.type = "noul" => a.noul = Float(Number(wire, "noul"))
      /\ wire.type = "choice" => a.choice.str = wire.choice
      /\ wire.type = "score" => a.score = Float(Number(wire, "score"))
      /\ wire.type \in {"choice", "score"} =>
           /\ a.hasConfidence
           /\ a.confidence = Float(Number(wire, "confidence"))
           /\ a.probabilities = [k \in DOMAIN wire.probabilities |->
                                   Float(wire.probabilities[k])]
      /\ wire.type = "score" =>
           a.legend = [k \in DOMAIN wire.legend |->
                         decodeUnion(wire.legend[k], Level(c, id, k))]
  BY NormalizedAnswer
<1> HIDE DEF a
<1>6. ASSUME q.type \in {"choice", "score"}
      PROVE  /\ validateConfidence(a)
             /\ validateDistribution(a.probabilities)
             /\ DOMAIN a.probabilities = DOMAIN wire.probabilities
  <2>1. isProbability(a.confidence) /\ a.hasConfidence
    BY <1>4, <1>5, <1>6, HonestNumbers, ZenonT(40)
  <2>2. validateDistribution([k \in DOMAIN wire.probabilities |->
                                Float(wire.probabilities[k])])
    BY <1>6, HonestDistribution
  <2> QED  BY <1>4, <1>5, <1>6, <2>1, <2>2 DEF validateConfidence
<1>7. CASE q.type = "noul"
  <2>1. isProbability(a.noul)
    BY <1>4, <1>5, <1>7, HonestNumbers
  <2> QED  BY <1>4, <1>5, <1>7, <2>1 DEF validateAnswer, a
<1>8. CASE q.type = "choice"
  <2>1. DOMAIN wire.probabilities = DOMAIN q.criteria
        /\ wire.choice \in DOMAIN q.criteria
    BY <1>8 DEF Honest
  <2>2. validateChoiceAnswer(q, a)
    BY <1>4, <1>5, <1>6, <1>8, <2>1 DEF validateChoiceAnswer
  <2> QED  BY <1>4, <1>5, <1>8, <2>2 DEF validateAnswer, a
<1>9. CASE q.type = "score"
  <2> DEFINE n == Len(q.criteria)
             keys == {LevelKeys[i] : i \in 1 .. n}
  <2>1. /\ DOMAIN q.criteria = 1 .. n /\ n \in Nat
        /\ n \in 2 .. 10 /\ n <= Len(LevelKeys)
    <3>1. \A x, y \in 2 .. 10 : \A k \in Nat : k \in x .. y =>
             k \in 2 .. 10 /\ k <= y
      OBVIOUS
    <3>2. n \in Nat /\ n \in Limits.minScore .. Limits.maxScore
      BY <1>3, <1>9
    <3>3. n \in 2 .. 10 /\ n <= Limits.maxScore
      BY <3>1, <3>2, LimitsAssumption
    <3>4. Len(LevelKeys) \in Nat
      BY NamesAssumption, SeqDomain
    <3>5. n <= Len(LevelKeys)
      BY <3>2, <3>3, <3>4, LimitsAssumption
    <3> QED  BY <1>3, <1>9, <3>3, <3>5
  <2>2. /\ DOMAIN wire.probabilities = keys /\ DOMAIN wire.legend = keys
        /\ \A k \in keys : wire.legend[k].form = "echoed"
    BY <1>9, <2>1 DEF Honest
  <2>3. a.score.kind = "float" /\ a.score.num \in 0 .. (n - 1) * One
    <3> DEFINE d == Number(wire, "score")
    <3>1. One \in Nat /\ n - 1 \in 1 .. 9
      BY <2>1, NumbersAssumption
    <3>2. d \in DOMAIN Float32 /\ d \in 0 .. One * (n - 1)
      <4>1. CASE "score" \in DOMAIN wire.numbers
        <5>1. id \in DOMAIN r.answers
          BY DEF Honest
        <5>2. wire.numbers["score"] \in DOMAIN Float32
          BY <4>1, <5>1, RepliesAssumption DEF Range
        <5>3. wire.numbers["score"] \in 0 .. One * (n - 1)
          BY <4>1 DEF Honest
        <5> QED  BY <4>1, <5>2, <5>3 DEF Number
      <4>2. CASE "score" \notin DOMAIN wire.numbers
        <5>1. d = 0
          BY <4>2 DEF Number
        <5>2. \A x \in Nat : \A m \in 1 .. 9 : 0 \in 0 .. x * m
          OBVIOUS
        <5> QED  BY <3>1, <5>1, <5>2, RoundingAssumption
      <4> QED  BY <4>1, <4>2
    <3>3. a.score = Float(d)
      BY <1>4, <1>5, <1>9
    <3> HIDE DEF d, n
    <3>4. Float(d).kind = "float" /\ Float(d).num \in 0 .. One * (n - 1)
      BY <3>1, <3>2, WidenedInRange
    <3>5. One * (n - 1) = (n - 1) * One
      BY <3>1
    <3> QED  BY <3>3, <3>4, <3>5
  <2>4. ASSUME NEW i \in 1 .. n
        PROVE  a.legend[LevelKeys[i]] = q.criteria[i]
    <3>1. LevelKeys[i] \in keys
      OBVIOUS
    <3>2. a.legend[LevelKeys[i]]
            = decodeUnion(wire.legend[LevelKeys[i]], Level(c, id, LevelKeys[i]))
      BY <1>4, <1>5, <1>9, <2>2, <3>1
    <3>3. Level(c, id, LevelKeys[i]) = q.criteria[i]
      BY <1>9, <2>1, LevelOfAKey
    <3>4. q.criteria[i].number = "none"
      BY <1>9, <2>1 DEF NumberedLevel
    <3>5. wire.legend[LevelKeys[i]].form = "echoed"
      BY <2>2, <3>1
    <3> QED  BY <3>2, <3>3, <3>4, <3>5 DEF decodeUnion
  <2>5. DOMAIN a.legend = keys
    BY <1>4, <1>5, <1>9, <2>2
  <2>6. validateScoreAnswer(q, a)
    BY <1>6, <1>9, <2>2, <2>3, <2>4, <2>5 DEF validateScoreAnswer
  <2> QED  BY <1>4, <1>5, <1>9, <2>6 DEF validateAnswer, a
<1> QED  BY <1>3, <1>7, <1>8, <1>9 DEF QuestionTypes

\* An honest reply is validated, exceptions aside.
LEMMA HonestReply ==
  ASSUME NEW c \in Compilable, NEW r \in Replies, Honest(c, r),
         \A id \in DOMAIN c.questions :
            ~NumberedLevel(c, id) /\ ~AtTheEdge(c, r, id)
  PROVE  ValidateAnswers(c, normalizeResponse(c, r))
<1> DEFINE answers == normalizeResponse(c, r)
<1>1. PICK doc : /\ DocumentShape(doc) /\ Compiles(doc, MaxQuestions)
                 /\ c \in CompiledForms(doc)
  BY HasADocument
<1>2. Range(c.questionIDs) = DOMAIN doc.questions
  BY <1>1, CompiledParts, OrdersAreBijections DEF DocumentShape
<1>3. DOMAIN c.questions = DOMAIN doc.questions
  <2>1. c.questions = [i \in DOMAIN doc.questions |-> c.questions[i]]
    BY <1>1, CompiledParts
  <2> QED  BY <2>1
<1>4. DOMAIN r.answers = DOMAIN c.questions
  BY DEF Honest
<1>5. /\ DOMAIN answers = DOMAIN r.answers
      /\ \A id \in DOMAIN answers :
           answers[id] = normalizeAnswer(c, id, r.answers[id])
  BY DEF normalizeResponse
<1>6. \A id \in DOMAIN c.questions :
        validateAnswer(c.questions[id], normalizeAnswer(c, id, r.answers[id]))
  BY HonestAnswer
<1> HIDE DEF answers
<1>7. ValidateAnswers(c, answers)
  BY <1>2, <1>3, <1>4, <1>5, <1>6 DEF ValidateAnswers
<1> QED  BY <1>7 DEF answers

\* An accepted policy can be asked and answered: its request is built, and an
\* honest reply is refused only for a numbered level or a sum at the edge.
THEOREM AlwaysAnswerable == Spec => []HonestAnswersPass
<1>1. ASSUME Inv, stage = "asked"
      PROVE  buildRequest(policy[1])
  BY <1>1, CompiledPoliciesAreAsked DEF Inv, PolicyInv
<1>2. ASSUME Inv, result.path \in {"parse_failed", "provider_protocol"},
             Honest(policy[1], reply[1])
      PROVE  \E id \in DOMAIN policy[1].questions :
               NumberedLevel(policy[1], id) \/ AtTheEdge(policy[1], reply[1], id)
  <2>1. \A why : Failed(why).path = why
    BY DEF Failed, NoResult
  <2>2. result # NoResult
    <3>1. NoResult.path = "none"
      BY DEF NoResult
    <3> QED  BY <1>2, <3>1
  <2>3. stage = "done"
    BY <1>2, <2>2 DEF Inv, PolicyInv
  <2>4. /\ result # Failed("not_found") /\ result # Failed("invalid_policy")
        /\ result # Failed("input_invalid")
    BY <1>2, <2>1
  <2>5. /\ policy[1] \in Compilable
        /\ DecidedEarly \/ (reply[1] \in Replies /\ (Refused \/ DecidedLate))
    BY <2>3, <2>4, <1>2 DEF Inv, ResultInv
  <2>6. ~DecidedEarly
    <3>1. ASSUME DecidedEarly PROVE FALSE
      <4>1. PICK i \in DOMAIN policy[1].preRules :
              result = [path |-> "pre_rule", rule |-> policy[1].preRules[i].id,
                        outcome |-> policy[1].preRules[i].outcome]
        BY <2>5, <3>1, EarlyResult DEF DecidedEarly
      <4>2. result.path = "pre_rule"
        BY <4>1
      <4> QED  BY <1>2, <4>2
    <3> QED  BY <3>1
  <2>7. ~DecidedLate
    <3>1. ASSUME DecidedLate PROVE FALSE
      <4>1. \/ result =
                 [path |-> "default", rule |-> "",
                  outcome |-> policy[1].defaultOutcome]
            \/ \E i \in DOMAIN policy[1].decisionRules :
                 result =
                   [path |-> "decision_rule",
                    rule |-> policy[1].decisionRules[i].id,
                    outcome |-> policy[1].decisionRules[i].outcome]
        BY <2>5, <3>1, LateResult DEF DecidedLate, LateFrom
      <4>2. ASSUME NEW i \in DOMAIN policy[1].decisionRules,
                   result =
                     [path |-> "decision_rule",
                      rule |-> policy[1].decisionRules[i].id,
                      outcome |-> policy[1].decisionRules[i].outcome]
            PROVE  result.path = "decision_rule"
        BY <4>2
      <4>3. CASE result = [path |-> "default", rule |-> "",
                           outcome |-> policy[1].defaultOutcome]
        BY <1>2, <4>3
      <4> QED  BY <1>2, <4>1, <4>2, <4>3
    <3> QED  BY <3>1
  <2>8. ~ValidateAnswers(policy[1], normalizeResponse(policy[1], reply[1]))
    BY <1>2, <2>5, <2>6, <2>7 DEF Refused, Honest
  <2> QED  BY <1>2, <2>5, <2>6, <2>8, HonestReply
<1>3. Inv => HonestAnswersPass
  BY <1>1, <1>2 DEF HonestAnswersPass, NumberedLevel, AtTheEdge
<1> QED  BY <1>3, EngineInvariant, PTL

=============================================================================
