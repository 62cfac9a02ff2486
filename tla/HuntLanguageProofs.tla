------------------------- MODULE HuntLanguageProofs -------------------------
(* Every hunt that compiles selects the events its rule matches, for every    *)
(* set of texts and numbers, every rounding of integers to doubles, every     *)
(* expression and every event whose paths read the same from the row.         *)
EXTENDS HuntConsole, TLAPS

\* What a path of an event may resolve to.
IsValue(x) == x \in Scalars \/ x.t \in NotScalar

\* A conjunction is true in SQL where both its sides are.
LEMMA AndTrue == ASSUME NEW a, NEW b, a \in {"true", "false", "null"}, b \in {"true", "false", "null"}
                 PROVE  (And3(a, b) = "true") <=> (a = "true" /\ b = "true")
  BY DEF And3

\* A disjunction is true in SQL where one of its sides is.
LEMMA OrTrue == ASSUME NEW a, NEW b PROVE (Or3(a, b) = "true") <=> (a = "true" \/ b = "true")
  BY DEF Or3

\* The type guard of a string holds of strings only.
LEMMA StringGuard == ASSUME NEW j, IsValue(j)
                     PROVE  (TypeIn(j, {"VARCHAR"}) = "true") <=> (j.t = "str")
  BY DEF IsValue, TypeIn, json_type, Scalars, NotScalar, Bool3

\* The type guard of a number holds of integers and doubles only.
LEMMA NumberGuard == ASSUME NEW j, IsValue(j)
                     PROVE  (TypeIn(j, {"BIGINT", "DOUBLE"}) = "true") <=> (j.t \in {"int", "float"})
  BY DEF IsValue, TypeIn, json_type, Scalars, NotScalar, Bool3

\* The type guard of a boolean holds of booleans only.
LEMMA BooleanGuard == ASSUME NEW j, IsValue(j)
                      PROVE  (TypeIn(j, {"BOOLEAN"}) = "true") <=> (j.t = "bool")
  BY DEF IsValue, TypeIn, json_type, Scalars, NotScalar, Bool3

\* A guard is one of SQL's truth values, as is a comparison of texts.
LEMMA Three == ASSUME NEW j, NEW types, NEW s
               PROVE  /\ TypeIn(j, types) \in {"true", "false", "null"}
                      /\ TextIs(j, s) \in {"true", "false", "null"}
  BY DEF TypeIn, TextIs, Bool3

\* The numeric branch of an equality compares as Python does, at any width: an integer
\* by its token, a double only with an integer that it can hold.
LEMMA NumericFaithful ==
  ASSUME NEW j, IsValue(j), NEW n \in Integral, NEW operand, operand.j = j
  PROVE  (append_numeric(operand, n) = "true") <=> (j.t \in {"int", "float"} /\ j.v = n)
<1>1. CASE j.t \notin {"int", "float"}
  <2>1. is_number(operand) \in {"false", "null"} BY <1>1, NumberGuard, Three DEF is_number
  <2> QED BY <1>1, <2>1 DEF append_numeric, And3
<1>2. CASE j.t = "int"
  <2>1. j.v \in Integral BY <1>2 DEF IsValue, Scalars, NotScalar
  <2>2. is_number(operand) = "true" BY <1>2, NumberGuard DEF is_number
  <2>3. text(j) = decimal[j.v] BY <1>2 DEF text
  <2>4. TextIs(j, decimal[n]) = Bool3(j.v = n)
    BY <1>2, <2>1, <2>3, TokensAssumption DEF TextIs, Bool3
  <2>5. \E m \in Integral : text(j) = decimal[m] BY <2>1, <2>3
  <2> QED BY <1>2, <2>2, <2>4, <2>5 DEF append_numeric, And3, Or3, Not3, Bool3
<1>3. CASE j.t = "float"
  <2>1. j.v \in Doubles BY <1>3 DEF IsValue, Scalars, NotScalar
  <2>2. is_number(operand) = "true" BY <1>3, NumberGuard DEF is_number
  <2>3. text(j) = repr[j.v] BY <1>3 DEF text
  <2>4. TextIs(j, decimal[n]) = "false"
    BY <1>3, <2>1, <2>3, TokensAssumption DEF TextIs, Bool3
  <2>5. ~ \E m \in Integral : text(j) = decimal[m] BY <2>1, <2>3, TokensAssumption
  <2>6. cast[text(j)] = j.v BY <2>1, <2>3, TokensAssumption
  <2>7. CASE lossless_double(n)
    <3>1. nearest[n] = n BY <2>7 DEF lossless_double
    <3> QED BY <1>3, <2>2, <2>4, <2>5, <2>6, <2>7, <3>1 DEF append_numeric, And3, Or3, Not3, Bool3
  <2>8. CASE ~lossless_double(n)
    <3>1. n \notin Doubles BY <2>8, NumbersAssumption DEF lossless_double
    <3>2. j.v # n BY <2>1, <3>1
    <3> QED BY <1>3, <2>2, <2>4, <2>8, <3>2 DEF append_numeric, And3, Or3
  <2> QED BY <2>7, <2>8
<1> QED BY <1>1, <1>2, <1>3

\* A comparison with a text under a guard is true where the guard is and the texts are equal.
LEMMA TypedFaithful ==
  ASSUME NEW guard \in {"true", "false", "null"}, NEW operand, NEW s
  PROVE  (append_typed(guard, operand, s) = "true")
           <=> (guard = "true" /\ operand.j.t \notin {"none", "null"} /\ text(operand.j) = s)
  BY DEF append_typed, And3, TextIs, Bool3

\* A boolean field is compared by its token.
LEMMA BooleanToken ==
  ASSUME NEW j, IsValue(j), j.t = "bool", NEW b \in BOOLEAN
  PROVE  j.v \in BOOLEAN /\ ((text(j) = Bool3(b)) <=> (j.v = b))
<1>1. j.v \in BOOLEAN BY DEF IsValue, Scalars, NotScalar
<1>2. text(j) = Bool3(j.v) BY DEF text
<1> QED BY <1>1, <1>2 DEF Bool3

\* _equals: typed as Python compares, on a value that is absent as well.
LEMMA EqualsFaithful ==
  ASSUME NEW lhs, IsValue(lhs), NEW literal \in LiteralValue, NEW operand, Reads(lhs, operand)
  PROVE  (equals(operand, literal) = "true") <=> PyEquals(lhs, literal)
<1>1. CASE operand.kind = "missing"
  BY <1>1 DEF Reads, equals, PyEquals, NotScalar
<1>2. CASE operand.kind = "column"
  <2>1. operand.j = lhs /\ lhs.t = "str" BY <1>2 DEF Reads
  <2>2. CASE literal.t = "str"
    <3>1. equals(operand, literal) = append_typed("true", operand, literal.v)
      BY <1>2, <2>2 DEF equals, is_string
    <3>2. text(lhs) = lhs.v BY <2>1 DEF text
    <3> QED BY <2>1, <2>2, <3>1, <3>2, TypedFaithful DEF PyEquals
  <2>3. CASE literal.t # "str"
    <3>1. equals(operand, literal) = "false" BY <1>2, <2>3 DEF equals
    <3> QED BY <2>1, <2>3, <3>1 DEF PyEquals
  <2> QED BY <2>2, <2>3
<1>3. CASE operand.kind = "json"
  <2>1. operand.j = lhs BY <1>3 DEF Reads
  <2>2. CASE literal.t = "str"
    <3>1. (is_string(operand) = "true") <=> (lhs.t = "str") BY <1>3, <2>1, StringGuard DEF is_string
    <3>2. is_string(operand) \in {"true", "false", "null"} BY <1>3, Three DEF is_string
    <3>3. equals(operand, literal) = append_typed(is_string(operand), operand, literal.v)
      BY <1>3, <2>2 DEF equals
    <3>4. lhs.t = "str" => text(lhs) = lhs.v BY DEF text
    <3> QED BY <2>1, <2>2, <3>1, <3>2, <3>3, <3>4, TypedFaithful DEF PyEquals
  <2>3. CASE literal.t = "bool"
    <3> DEFINE n == IF literal.v THEN One ELSE Zero
    <3>1. literal.v \in BOOLEAN BY <2>3 DEF LiteralValue
    <3>2. n \in Integral BY NumbersAssumption
    <3>3. equals(operand, literal) = Or3(append_typed(is_boolean(operand), operand, Bool3(literal.v)),
                                         append_numeric(operand, n))
      BY <1>3, <2>3 DEF equals
    <3>4. (append_typed(is_boolean(operand), operand, Bool3(literal.v)) = "true")
            <=> (lhs.t = "bool" /\ lhs.v = literal.v)
      BY <2>1, <3>1, BooleanGuard, Three, TypedFaithful, BooleanToken DEF is_boolean
    <3>5. (append_numeric(operand, n) = "true") <=> (lhs.t \in {"int", "float"} /\ lhs.v = n)
      BY <2>1, <3>2, NumericFaithful
    <3>6. Number(literal) = n BY <2>3 DEF Number
    <3>7. lhs.t = "bool" => lhs.v \in BOOLEAN BY BooleanToken
    <3>8. lhs.t = "bool" => (lhs.v = literal.v <=> Number(lhs) = n)
      BY <3>1, <3>7, NumbersAssumption DEF Number
    <3>9. lhs.t \in {"int", "float"} => Number(lhs) = lhs.v BY DEF Number
    <3> HIDE DEF n
    <3> QED BY <2>3, <3>3, <3>4, <3>5, <3>6, <3>8, <3>9, OrTrue DEF PyEquals
  <2>4. CASE literal.t = "int"
    <3>1. literal.v \in Integral BY <2>4 DEF LiteralValue
    <3>2. (append_numeric(operand, literal.v) = "true") <=> (lhs.t \in {"int", "float"} /\ lhs.v = literal.v)
      BY <2>1, <3>1, NumericFaithful
    <3>3. Number(literal) = literal.v /\ (lhs.t \in {"int", "float"} => Number(lhs) = lhs.v)
      BY <2>4 DEF Number
    <3>4. lhs.t = "bool" => lhs.v \in BOOLEAN BY BooleanToken
    <3>5. CASE literal.v \in {Zero, One}
      <4> DEFINE b == literal.v = One
      <4>1. equals(operand, literal) = Or3(append_numeric(operand, literal.v),
                  append_typed(is_boolean(operand), operand, Bool3(b)))
        BY <1>3, <2>4, <3>5 DEF equals
      <4>b. b \in BOOLEAN OBVIOUS
      <4>n. b => literal.v = One BY <3>5
      <4>z. ~b => literal.v = Zero BY <3>5
      <4> HIDE DEF b
      <4>2. (append_typed(is_boolean(operand), operand, Bool3(b)) = "true") <=> (lhs.t = "bool" /\ lhs.v = b)
        BY <2>1, <4>b, BooleanGuard, Three, TypedFaithful, BooleanToken DEF is_boolean
      <4>3. lhs.t = "bool" => (lhs.v = b <=> Number(lhs) = literal.v)
        BY <3>4, <4>b, <4>n, <4>z, NumbersAssumption DEF Number
      <4> QED BY <2>4, <3>2, <3>3, <4>1, <4>2, <4>3, OrTrue DEF PyEquals
    <3>6. CASE literal.v \notin {Zero, One}
      <4>1. equals(operand, literal) = append_numeric(operand, literal.v)
        BY <1>3, <2>4, <3>6 DEF equals
      <4>2. lhs.t = "bool" => Number(lhs) # literal.v BY <3>4, <3>6 DEF Number
      <4> QED BY <2>4, <3>2, <3>3, <4>1, <4>2 DEF PyEquals
    <3> QED BY <3>5, <3>6
  <2> QED BY <2>2, <2>3, <2>4 DEF LiteralValue
<1> QED BY <1>1, <1>2, <1>3 DEF Reads

\* _in_list: true where one of the members is equal.
LEMMA InListFaithful ==
  ASSUME NEW lhs, IsValue(lhs), NEW members \in SUBSET LiteralValue, NEW operand, Reads(lhs, operand)
  PROVE  (in_list(operand, members) = "true") <=> \E m \in members : PyEquals(lhs, m)
<1>1. \A m \in members : (equals(operand, m) = "true") <=> PyEquals(lhs, m)
  BY EqualsFaithful
<1> QED BY <1>1 DEF in_list

\* The string operators: only a field that is a string can satisfy one.
LEMMA StringFaithful ==
  ASSUME NEW lhs, IsValue(lhs), NEW literals, NEW op, NEW operand, Reads(lhs, operand)
  PROVE  (string_call(operand, op, literals) = "true")
           <=> (lhs.t = "str" /\ \E l \in literals : <<op, lhs.v, l.v>> \in StringHolds)
<1>1. CASE operand.kind = "missing"
  BY <1>1 DEF Reads, NotScalar, string_call
<1>2. CASE operand.kind # "missing"
  <2>1. operand.j = lhs BY <1>2 DEF Reads
  <2>2. (is_string(operand) = "true") <=> (lhs.t = "str")
    BY <1>2, <2>1, StringGuard DEF is_string, Reads
  <2>3. is_string(operand) \in {"true", "false", "null"} BY Three DEF is_string
  <2>4. CASE lhs.t = "str"
    <3>1. text(lhs) = lhs.v BY <2>4 DEF text
    <3> QED BY <1>2, <2>1, <2>2, <2>4, <3>1 DEF string_call, And3, Bool3
  <2>5. CASE lhs.t # "str" BY <1>2, <2>2, <2>3, <2>5 DEF string_call, And3
  <2> QED BY <2>4, <2>5
<1> QED BY <1>1, <1>2

Ops == {"==", "!=", "IN", "NOT IN"} \cup StringOps

IsLeaf(leaf) == leaf.op \in Ops /\ leaf.rhs \in SUBSET LiteralValue

\* One leaf, two backends, one answer: _truth collapses SQL's third value where the evaluator does.
THEOREM LeafFaithful ==
  ASSUME NEW lhs, IsValue(lhs), NEW leaf, IsLeaf(leaf), NEW operand, Reads(lhs, operand)
  PROVE  compile_leaf_value(leaf, operand) = eval_leaf_value(leaf, lhs)
<1>1. CASE leaf.op \in StringOps
  <2>1. leaf.op \notin {"==", "IN", "!=", "NOT IN"} BY <1>1 DEF StringOps
  <2>2. eval_leaf_value(leaf, lhs) = (lhs.t = "str" /\ \E l \in leaf.rhs : <<leaf.op, lhs.v, l.v>> \in StringHolds)
    BY <1>1, <2>1 DEF eval_leaf_value
  <2> QED BY <1>1, <2>2, StringFaithful DEF compile_leaf_value, truth
<1>2. CASE leaf.op \in {"==", "IN"}
  <2>1. leaf.op \notin StringOps \cup {"!=", "NOT IN"} BY <1>2 DEF StringOps
  <2>2. eval_leaf_value(leaf, lhs) = \E l \in leaf.rhs : PyEquals(lhs, l)
    BY <1>2, <2>1 DEF eval_leaf_value
  <2>3. compile_leaf_value(leaf, operand) = (in_list(operand, leaf.rhs) = "true")
    BY <1>2, <2>1 DEF compile_leaf_value, truth
  <2> QED BY <2>2, <2>3, InListFaithful DEF IsLeaf
<1>3. CASE leaf.op \in {"!=", "NOT IN"}
  <2>1. leaf.op \notin StringOps \cup {"==", "IN"} BY <1>3 DEF StringOps
  <2>2. eval_leaf_value(leaf, lhs) = ~ \E l \in leaf.rhs : PyEquals(lhs, l)
    BY <1>3, <2>1 DEF eval_leaf_value
  <2>3. compile_leaf_value(leaf, operand) = (in_list(operand, leaf.rhs) # "true")
    BY <1>3, <2>1 DEF compile_leaf_value, truth
  <2> QED BY <2>2, <2>3, InListFaithful DEF IsLeaf
<1> QED BY <1>1, <1>2, <1>3 DEF IsLeaf, Ops

\* A parse expression over this event: its leaves are leaves and its paths read values.
IsExpression(parse, event) ==
  \A g \in DOMAIN parse : \A n \in DOMAIN parse[g] :
    /\ parse[g][n].k \in {"leaf", "invalid"}
    /\ parse[g][n].k = "leaf" => /\ IsLeaf(parse[g][n].leaf)
                                  /\ IsValue(resolve_path(parse[g][n].leaf.path, event))

\* "The same expression must select the same events": the rows a compiled hunt selects are those
\* whose event the rule evaluator matches, for every expression that compiles and every event
\* that its paths read from the row as from memory.
THEOREM HuntsFaithful ==
  ASSUME NEW parse, NEW event, NEW row, Compiles(parse), IsExpression(parse, event),
         ReadsAll(parse, event, row)
  PROVE  compile_parsed(parse, row) <=> evaluate_parsed(parse, event)
<1>1. ASSUME NEW g \in DOMAIN parse, NEW n \in DOMAIN parse[g]
      PROVE  compile_node(parse[g][n], row) <=> eval_node(parse[g][n], event)
  <2> DEFINE node == parse[g][n]
             lhs == resolve_path(node.leaf.path, event)
             operand == operand_for(node.leaf.path, row)
  <2>1. node.k = "leaf" BY DEF Compiles, Raises, IsExpression
  <2>2. IsLeaf(node.leaf) /\ IsValue(lhs) BY <2>1 DEF IsExpression
  <2>3. Reads(lhs, operand) BY DEF ReadsAll
  <2>4. compile_leaf_value(node.leaf, operand) = eval_leaf_value(node.leaf, lhs)
    BY <2>2, <2>3, LeafFaithful
  <2> QED BY <2>1, <2>4 DEF compile_node, eval_node
<1> QED BY <1>1 DEF compile_parsed, evaluate_parsed

----------------------------------------------------------------------------
Nodes ==
  [k : {"leaf"}, leaf : Leaves \cup Common, negated : BOOLEAN] \cup [k : {"invalid"}, negated : BOOLEAN]

\* What the loop of parse_expression keeps: groups of nodes, one of them open at the end.
GroupsOK == groups \in Seq(Seq(Nodes)) /\ Len(groups) > 0 /\ negate \in BOOLEAN

\* A node goes to the end of the open group.
LEMMA AddNodeType ==
  ASSUME NEW gs \in Seq(Seq(Nodes)), Len(gs) > 0, NEW node \in Nodes
  PROVE  AddNode(gs, node) \in Seq(Seq(Nodes)) /\ Len(AddNode(gs, node)) = Len(gs)
<1>1. gs[Len(gs)] \in Seq(Nodes) OBVIOUS
<1>2. Append(gs[Len(gs)], node) \in Seq(Nodes) BY <1>1
<1> QED BY <1>2 DEF AddNode

\* Every token that can be typed becomes a node.
LEMMA NodeOfType ==
  ASSUME NEW token \in Typable, NEW negated \in BOOLEAN
  PROVE  NodeOf(token, negated) \in Nodes
<1>1. CASE token.k = "leaf"
  <2>1. token.leaf \in Leaves \cup Common BY <1>1 DEF Typable, Keyword, TokenOf
  <2> QED BY <1>1, <2>1 DEF NodeOf, Nodes
<1>2. CASE token.k # "leaf" BY <1>2 DEF NodeOf, Nodes
<1> QED BY <1>1, <1>2

\* The parser keeps its groups well formed over any sequence of tokens.
THEOREM ParserInvariant == HuntSpec => []GroupsOK
<1>1. HuntInit => GroupsOK
  <2> SUFFICES ASSUME HuntInit PROVE GroupsOK OBVIOUS
  <2>1. groups = << << >> >> /\ negate = FALSE BY DEF HuntInit
  <2>2. << << >> >> = Append(<< >>, << >>) OBVIOUS
  <2>3. << >> \in Seq(Nodes) /\ << >> \in Seq(Seq(Nodes)) OBVIOUS
  <2>4. Append(<< >>, << >>) \in Seq(Seq(Nodes)) BY <2>3
  <2>5. groups \in Seq(Seq(Nodes)) BY <2>1, <2>2, <2>4
  <2>6. Len(<< << >> >>) = 1 OBVIOUS
  <2>7. Len(groups) > 0 BY <2>1, <2>6
  <2> QED BY <2>1, <2>5, <2>7, Zenon DEF GroupsOK
<1>2. GroupsOK /\ [HuntNext]_huntvars => GroupsOK'
  <2> SUFFICES ASSUME GroupsOK, [HuntNext]_huntvars PROVE GroupsOK' OBVIOUS
  <2>1. ASSUME NEW token \in Typable, parse_token(token) PROVE GroupsOK'
    <3>1. negate' \in BOOLEAN BY <2>1 DEF parse_token
    <3>2. CASE negate
      <4>1. groups' = AddNode(groups, NodeOf(token, TRUE)) BY <2>1, <3>2 DEF parse_token
      <4> QED BY <3>1, <4>1, AddNodeType, NodeOfType DEF GroupsOK
    <3>3. CASE ~negate /\ token.k = "OR"
      <4>1. groups' = Append(groups, << >>) BY <2>1, <3>3 DEF parse_token
      <4> QED BY <3>1, <4>1 DEF GroupsOK
    <3>4. CASE ~negate /\ token.k \in {"AND", "NOT"}
      <4>1. groups' = groups BY <2>1, <3>4 DEF parse_token
      <4> QED BY <3>1, <4>1 DEF GroupsOK
    <3>5. CASE ~negate /\ token.k \notin {"OR", "AND", "NOT"}
      <4>1. groups' = AddNode(groups, NodeOf(token, FALSE)) BY <2>1, <3>5 DEF parse_token
      <4> QED BY <3>1, <4>1, AddNodeType, NodeOfType DEF GroupsOK
    <3> QED BY <3>2, <3>3, <3>4, <3>5
  <2>2. CASE UNCHANGED huntvars BY <2>2 DEF huntvars, GroupsOK
  <2> QED BY <2>1, <2>2 DEF HuntNext
<1> QED BY <1>1, <1>2, PTL DEF HuntSpec

\* The end of parse_expression yields groups of nodes.
LEMMA ParsedType == ASSUME GroupsOK PROVE parsed \in Seq(Seq(Nodes))
<1> DEFINE gs == IF negate THEN AddNode(groups, [k |-> "invalid", negated |-> TRUE]) ELSE groups
<1>1. [k |-> "invalid", negated |-> TRUE] \in Nodes BY DEF Nodes
<1>2. gs \in Seq(Seq(Nodes)) /\ Len(gs) > 0 BY <1>1, AddNodeType DEF GroupsOK
<1>3. parsed = IF gs[Len(gs)] = << >> THEN SubSeq(gs, 1, Len(gs) - 1) ELSE gs BY DEF parsed
<1> HIDE DEF gs
<1> QED BY <1>2, <1>3

\* Whatever is typed, a hunt that compiles selects exactly the stored events its rule matches, given
\* that its paths read the same from a row as from the event.
THEOREM TypedHuntsFaithful == HuntSpec /\ []ReadsSame => []SameEvents
<1>1. ASSUME GroupsOK, ReadsSame PROVE SameEvents
  <2> DEFINE gs == parsed
  <2>1. gs \in Seq(Seq(Nodes)) BY <1>1, ParsedType
  <2> SUFFICES ASSUME Compiles(gs), NEW id \in DOMAIN Stored
               PROVE  compile_parsed(gs, Rows[id]) = evaluate_parsed(gs, Stored[id])
    BY DEF SameEvents
  <2>2. ReadsAll(gs, Stored[id], Rows[id]) BY <1>1 DEF ReadsSame
  <2> HIDE DEF gs
  <2>3. IsExpression(gs, Stored[id])
    <3> SUFFICES ASSUME NEW g \in DOMAIN gs, NEW n \in DOMAIN gs[g]
                 PROVE  /\ gs[g][n].k \in {"leaf", "invalid"}
                        /\ gs[g][n].k = "leaf" => /\ IsLeaf(gs[g][n].leaf)
                                                  /\ IsValue(resolve_path(gs[g][n].leaf.path, Stored[id]))
      BY DEF IsExpression
    <3>1. gs[g] \in Seq(Nodes) BY <2>1
    <3>2. gs[g][n] \in Nodes BY <3>1
    <3>3. gs[g][n].k \in {"leaf", "invalid"} BY <3>2 DEF Nodes
    <3>4. gs[g][n].k = "leaf" => gs[g][n].leaf \in Leaves \cup Common BY <3>2 DEF Nodes
    <3> QED BY <3>3, <3>4, LeavesAssumption DEF IsLeaf, Ops, IsValue
  <2> QED BY <2>2, <2>3, HuntsFaithful DEF compile_parsed, evaluate_parsed
<1> QED BY <1>1, ParserInvariant, PTL
=============================================================================
