---------------------------- MODULE HuntLanguage ----------------------------
(* The expression grammar of rules and hunts and its two backends: the rule   *)
(* engine's evaluator over an event in memory, and the SQL that a hunt        *)
(* compiles to, read with SQL's three truth values over the stored row.       *)
EXTENDS Integers, Sequences
CONSTANTS Texts,        \* the strings that fields, literals and JSON tokens are
          Integral,     \* the numbers a Python int holds
          Doubles,      \* the numbers a double holds exactly
          Zero, One,
          decimal,      \* str(n): the token of an integer
          repr,         \* the token of a double, with a point or an exponent
          cast,         \* TRY_CAST(token AS DOUBLE)
          nearest,      \* float(n)
          Serialized,   \* the text of a JSON list or object
          StringHolds,  \* the triples <<operator, field, literal>> that hold
          BadPatterns   \* regular expressions _validate_regex refuses

ASSUME TextsAssumption == "true" \in Texts /\ "false" \in Texts
ASSUME NumbersAssumption ==
  /\ Zero \in Integral \cap Doubles /\ One \in Integral \cap Doubles /\ Zero # One
  /\ nearest \in [Integral -> Doubles]
  /\ \A n \in Integral \cap Doubles : nearest[n] = n
ASSUME TokensAssumption ==
  /\ decimal \in [Integral -> Texts] /\ repr \in [Doubles -> Texts]
  /\ \A m, n \in Integral : decimal[m] = decimal[n] => m = n
  /\ \A n \in Integral, d \in Doubles : decimal[n] # repr[d]
  /\ \A d \in Doubles : cast[repr[d]] = d

----------------------------------------------------------------------------
\* Values of a field: a scalar, Absent under a key ("null"), no value at all ("none"), or a
\* "datetime", "list" or "dict"; and values of a literal.
Absent == [t |-> "none"]

NotScalar == {"none", "null", "datetime", "list", "dict"}

Scalars ==
  [t : {"str"}, v : Texts] \cup [t : {"int"}, v : Integral] \cup
  [t : {"float"}, v : Doubles] \cup [t : {"bool"}, v : BOOLEAN]

LiteralValue == [t : {"str"}, v : Texts] \cup [t : {"int"}, v : Integral] \cup [t : {"bool"}, v : BOOLEAN]

\* Python compares int, float and bool as numbers.
Number(x) == IF x.t = "bool" THEN (IF x.v THEN One ELSE Zero) ELSE x.v

PyEquals(lhs, literal) ==
  \/ lhs.t = "str" /\ literal.t = "str" /\ lhs.v = literal.v
  \/ lhs.t \in {"int", "float", "bool"} /\ literal.t \in {"int", "bool"} /\ Number(lhs) = Number(literal)

----------------------------------------------------------------------------
\* yaml_loader: paths descend into nested dicts, to Absent on a missing key or a non-dict.
Get(val, seg) == IF val.t = "dict" /\ seg \in DOMAIN val.v THEN val.v[seg] ELSE Absent

walk_dict(val, segs) ==
  LET at[i \in 0..Len(segs)] == IF i = 0 THEN val ELSE Get(at[i - 1], segs[i]) IN at[Len(segs)]

\* An event is a dict of its attributes; getattr(event, name, Absent) reads it.
resolve_path(path, event) ==
  IF Head(path) = "event"
  THEN IF Len(path) = 1 THEN Absent ELSE walk_dict(Get(event, path[2]), Tail(Tail(path)))
  ELSE LET block == Get(event, Head(path)) IN
       IF block.t = "dict" THEN walk_dict(block, Tail(path)) ELSE Absent

StringOps == {"STARTSWITH", "ENDSWITH", "CONTAINS", "MATCHES"}

\* _eval_leaf on the value its path resolves to; a leaf's rhs is a set of literals,
\* of one member unless the operator is IN or NOT IN (a malformed list is empty).  A
\* string operator on a literal that is no string raises here as it does in the compiler.
eval_leaf_value(leaf, lhs) ==
  CASE leaf.op \in {"==", "IN"} -> \E l \in leaf.rhs : PyEquals(lhs, l)
    [] leaf.op \in {"!=", "NOT IN"} -> ~ \E l \in leaf.rhs : PyEquals(lhs, l)
    [] leaf.op \in StringOps -> lhs.t = "str" /\ \E l \in leaf.rhs : <<leaf.op, lhs.v, l.v>> \in StringHolds

eval_node(node, event) ==
  LET result == node.k = "leaf" /\ eval_leaf_value(node.leaf, resolve_path(node.leaf.path, event)) IN
  IF node.negated THEN ~result ELSE result

evaluate_parsed(groups, event) ==
  \E g \in DOMAIN groups : \A n \in DOMAIN groups[g] : eval_node(groups[g][n], event)

----------------------------------------------------------------------------
\* SQL's truth values, and the connectives the compiler emits.
Bool3(b) == IF b THEN "true" ELSE "false"

And3(a, b) == IF "false" \in {a, b} THEN "false" ELSE IF "null" \in {a, b} THEN "null" ELSE "true"

Or3(a, b) == IF "true" \in {a, b} THEN "true" ELSE IF "null" \in {a, b} THEN "null" ELSE "false"

Not3(a) == CASE a = "true" -> "false" [] a = "false" -> "true" [] a = "null" -> "null"

\* json_type of the value at a path; SQL NULL where there is none.
json_type(j) ==
  CASE j.t = "none" -> "null" [] j.t = "str" -> "VARCHAR" [] j.t = "int" -> "BIGINT"
    [] j.t = "float" -> "DOUBLE" [] j.t = "bool" -> "BOOLEAN" [] j.t = "null" -> "NULL"
    [] OTHER -> "OBJECT"

\* json_extract_string: it flattens the number 42 and the string "42" to one text.
text(j) ==
  CASE j.t = "str" -> j.v [] j.t = "int" -> decimal[j.v] [] j.t = "float" -> repr[j.v]
    [] j.t = "bool" -> Bool3(j.v) [] OTHER -> Serialized

TextIs(j, s) == IF j.t \in {"none", "null"} THEN "null" ELSE Bool3(text(j) = s)

TypeIn(j, types) == IF json_type(j) = "null" THEN "null" ELSE Bool3(json_type(j) \in types)

\* compiler.py.  An operand is what the path reads out of a row: a column, a JSON value
\* or nothing at all; a guard that is the text FALSE drops its branch.
is_string(operand) == IF operand.kind = "column" THEN "true" ELSE TypeIn(operand.j, {"VARCHAR"})

is_number(operand) == TypeIn(operand.j, {"BIGINT", "DOUBLE"})

is_boolean(operand) == TypeIn(operand.j, {"BOOLEAN"})

append_typed(guard, operand, value) == And3(guard, TextIs(operand.j, value))

lossless_double(value) == nearest[value] = value

append_numeric_AsDouble(operand, value) ==
  And3(is_number(operand), Bool3(operand.j.t \in {"int", "float"} /\ cast[text(operand.j)] = nearest[value]))

append_numeric(operand, value) ==
  And3(is_number(operand),
       Or3(TextIs(operand.j, decimal[value]),
           IF lossless_double(value)
           THEN And3(Not3(IF operand.j.t \in {"none", "null"} THEN "null"
                          ELSE Bool3(\E n \in Integral : text(operand.j) = decimal[n])),
                     IF operand.j.t \in {"int", "float"} THEN Bool3(cast[text(operand.j)] = nearest[value]) ELSE "null")
           ELSE "false"))

equals(operand, literal) ==
  CASE operand.kind = "missing" -> "false"
    [] operand.kind # "missing" /\ literal.t = "str" -> append_typed(is_string(operand), operand, literal.v)
    [] operand.kind = "column" /\ literal.t # "str" -> "false"
    [] operand.kind = "json" /\ literal.t = "bool" ->
         Or3(append_typed(is_boolean(operand), operand, Bool3(literal.v)),
             append_numeric(operand, IF literal.v THEN One ELSE Zero))
    [] operand.kind = "json" /\ literal.t = "int" ->
         IF literal.v \in {Zero, One}
         THEN Or3(append_numeric(operand, literal.v),
                  append_typed(is_boolean(operand), operand, Bool3(literal.v = One)))
         ELSE append_numeric(operand, literal.v)

\* _disjoin of the members' predicates: an empty list is FALSE.
in_list(operand, members) ==
  LET values == {equals(operand, m) : m \in members} IN
  IF "true" \in values THEN "true" ELSE IF "null" \in values THEN "null" ELSE "false"

string_call(operand, op, literals) ==
  IF operand.kind = "missing" THEN "false"
  ELSE And3(is_string(operand),
            IF operand.j.t \in {"none", "null"} THEN "null"
            ELSE Bool3(\E l \in literals : <<op, text(operand.j), l.v>> \in StringHolds))

\* IS TRUE and IS NOT TRUE
truth(predicate, positive) == IF positive THEN predicate = "true" ELSE predicate # "true"

compile_leaf_value(leaf, operand) ==
  IF leaf.op \in StringOps THEN truth(string_call(operand, leaf.op, leaf.rhs), TRUE)
  ELSE truth(in_list(operand, leaf.rhs), leaf.op \in {"==", "IN"})

----------------------------------------------------------------------------
\* The row: four attributes are columns as well, and payload_json is the event dumped.
Columns == {"kind", "module", "action", "severity"}

operand_for(path, row) ==
  IF Len(path) = 1 THEN [kind |-> "missing", j |-> Absent]
  ELSE IF path[1] = "event" /\ Len(path) = 2 /\ path[2] \in Columns
       THEN [kind |-> "column", j |-> row.columns[path[2]]]
       ELSE [kind |-> "json", j |-> walk_dict(row.payload, IF path[1] = "event" THEN Tail(path) ELSE path)]

\* insert_event: the columns repeat the attributes, and the JSON holds ts as a text.
insert_event(event) ==
  [columns |-> [c \in Columns |-> event.v[c]],
   payload |-> [event EXCEPT !.v["ts"] = [t |-> "str", v |-> Serialized]]]

\* What a path must read from the row for a value lhs of the evaluator.
Reads(lhs, operand) ==
  \/ operand.kind = "missing" /\ lhs.t \in NotScalar
  \/ operand.kind = "column" /\ operand.j = lhs /\ lhs.t = "str"
  \/ operand.kind = "json" /\ operand.j = lhs

\* What _compile_node and its callees raise instead of compiling.
Raises(node) ==
  \/ node.k = "invalid"
  \/ /\ node.k = "leaf"
     /\ \/ "" \in {node.leaf.path[i] : i \in DOMAIN node.leaf.path}
        \/ Len(node.leaf.path) > 1 /\ node.leaf.path[1] = "event" /\ node.leaf.path[2] = "ts"
        \/ node.leaf.op \in StringOps /\ \E l \in node.leaf.rhs : l.t # "str"
        \/ node.leaf.op = "MATCHES" /\ \E l \in node.leaf.rhs : l.v \in BadPatterns

compile_node(node, row) ==
  LET sql == compile_leaf_value(node.leaf, operand_for(node.leaf.path, row)) IN
  IF node.negated THEN ~sql ELSE sql

compile_parsed(groups, row) ==
  \E g \in DOMAIN groups : \A n \in DOMAIN groups[g] : compile_node(groups[g][n], row)

\* compile_hunt_query raises on an empty query and on any node that does not compile.
Compiles(groups) ==
  /\ groups # <<>>
  /\ \A g \in DOMAIN groups : \A n \in DOMAIN groups[g] : ~Raises(groups[g][n])

\* Every leaf of an expression reads from the row what it reads from the event.
ReadsAll(groups, event, row) ==
  \A g \in DOMAIN groups : \A n \in DOMAIN groups[g] :
    LET path == groups[g][n].leaf.path IN Reads(resolve_path(path, event), operand_for(path, row))
=============================================================================
