---------------------------- MODULE HuntConsole ----------------------------
(* A hunt typed token by token: the loop of parse_expression, the query       *)
(* compiled and run over the stored rows, and the rule of the same text       *)
(* evaluated over the same events.                                            *)
EXTENDS HuntLanguage, FiniteSets
CONSTANTS Leaves,       \* every leaf asked on its own
          Common,       \* the leaves longer expressions are made of
          Stored,       \* the events in the table, by event_id; the id also orders ts
          Windows,      \* the since and until an operator may give, inclusive
          MaxLimit,     \* MAX_LIMIT
          MaxTokens     \* bound on the length of an expression

ASSUME LeavesAssumption ==
  \A leaf \in Leaves \cup Common :
    /\ leaf.op \in {"==", "!=", "IN", "NOT IN"} \cup StringOps /\ leaf.rhs \in SUBSET LiteralValue
    /\ \A id \in DOMAIN Stored :
         LET x == resolve_path(leaf.path, Stored[id]) IN x \in Scalars \/ x.t \in NotScalar

VARIABLES typed,        \* the tokens so far
          groups,       \* the groups of nodes parsed so far
          negate        \* the last token was a NOT that opens the next leaf

huntvars == <<typed, groups, negate>>

Keyword(w) == [k |-> w]

NodeOf(token, negated) ==
  IF token.k = "leaf" THEN [k |-> "leaf", leaf |-> token.leaf, negated |-> negated]
  ELSE [k |-> "invalid", negated |-> negated]

AddNode(gs, node) == [gs EXCEPT ![Len(gs)] = Append(@, node)]

\* The end of the loop: a NOT with nothing after it negates the empty text, and a
\* trailing OR contributes nothing.
parsed ==
  LET gs == IF negate THEN AddNode(groups, [k |-> "invalid", negated |-> TRUE]) ELSE groups IN
  IF gs[Len(gs)] = <<>> THEN SubSeq(gs, 1, Len(gs) - 1) ELSE gs

\* One round of the loop; NOT takes the next token whatever it is.
parse_token_AndSplits(token) ==
  /\ typed' = Append(typed, token)
  /\ negate' = (~negate /\ token.k = "NOT")
  /\ groups' = IF negate THEN AddNode(groups, NodeOf(token, TRUE))
               ELSE CASE token.k \in {"OR", "AND"} -> Append(groups, <<>>)
                      [] token.k = "NOT" -> groups
                      [] OTHER -> AddNode(groups, NodeOf(token, FALSE))

parse_token(token) ==
  /\ typed' = Append(typed, token)
  /\ negate' = (~negate /\ token.k = "NOT")
  /\ groups' = IF negate THEN AddNode(groups, NodeOf(token, TRUE))
               ELSE CASE token.k = "OR" -> Append(groups, <<>>)
                      [] token.k \in {"AND", "NOT"} -> groups
                      [] OTHER -> AddNode(groups, NodeOf(token, FALSE))

TokenOf(leaf) == [k |-> "leaf", leaf |-> leaf]

Typable ==
  {Keyword("AND"), Keyword("OR"), Keyword("NOT")} \cup {TokenOf(l) : l \in Common} \cup
  (IF typed \in {<<>>, <<Keyword("NOT")>>} THEN {Keyword("junk")} \cup {TokenOf(l) : l \in Leaves} ELSE {})

HuntInit == typed = <<>> /\ groups = <<<<>>>> /\ negate = FALSE

HuntNext ==
  /\ Len(typed) < MaxTokens
  /\ \A i \in DOMAIN typed : typed[i].k = "leaf" => typed[i].leaf \in Common
  /\ \E token \in Typable : parse_token(token)

HuntSpec == HuntInit /\ [][HuntNext]_huntvars

----------------------------------------------------------------------------
\* run_hunt_query: the rows the query selects, newest first, cut at the limit; it asks for one row more.
resolve_limit(limit) == IF limit > MaxLimit THEN MaxLimit ELSE limit

Rows == [id \in DOMAIN Stored |-> insert_event(Stored[id])]

Selected(gs, since, until) ==
  {id \in DOMAIN Stored : since <= id /\ id <= until /\ compile_parsed(gs, Rows[id])}

\* ORDER BY ts DESC, event_id DESC
NewestFirst(ids) ==
  [i \in 1..Cardinality(ids) |-> CHOOSE id \in ids : Cardinality({other \in ids : other > id}) = i - 1]

FirstRows(rows, n) == SubSeq(rows, 1, IF Len(rows) < n THEN Len(rows) ELSE n)

run_hunt_query(selected, limit) ==
  LET fetched == FirstRows(NewestFirst(selected), resolve_limit(limit) + 1) IN
  [rows |-> FirstRows(fetched, resolve_limit(limit)), truncated |-> Len(fetched) > resolve_limit(limit)]

----------------------------------------------------------------------------
\* The tokens typed so far and the parse built from them keep their types.
HuntTypeOK ==
  /\ Len(typed) <= MaxTokens /\ negate \in BOOLEAN /\ Len(groups) \in 1..MaxTokens + 1
  /\ \A g \in DOMAIN groups : \A n \in DOMAIN groups[g] :
       groups[g][n].negated \in BOOLEAN /\ groups[g][n].k \in {"leaf", "invalid"}

\* compiler.py, "the same expression must select the same events here as yaml_loader selects in
\* memory": over every stored event, a query that compiles and the rule of its text agree, whatever
\* the field's type, presence or size, and under every mixture of AND, OR and NOT.
SameEvents ==
  LET gs == parsed IN
  Compiles(gs) => \A id \in DOMAIN Stored :
    compile_parsed(gs, Rows[id]) = evaluate_parsed(gs, Stored[id])

\* The path of a leaf reads from the row what it reads from the event, or neither reads a scalar:
\* what the proof that every compiled query is faithful assumes of paths.
ReadsSame ==
  LET gs == parsed IN
  Compiles(gs) => \A id \in DOMAIN Stored : ReadsAll(gs, Stored[id], Rows[id])

WellFormed ==
  /\ typed # <<>> /\ typed[Len(typed)].k = "leaf"
  /\ \A i \in DOMAIN typed : typed[i].k # "junk"
  /\ typed[1].k \in {"leaf", "NOT"}
  /\ \A i \in 1..Len(typed) - 1 :
       CASE typed[i].k = "leaf" -> typed[i + 1].k \in {"AND", "OR"}
         [] typed[i].k = "NOT" -> typed[i + 1].k = "leaf"
         [] OTHER -> typed[i + 1].k \in {"leaf", "NOT"}

LeafTrue(i, event) ==
  LET value == eval_leaf_value(typed[i].leaf, resolve_path(typed[i].leaf.path, event)) IN
  IF i > 1 /\ typed[i - 1].k = "NOT" THEN ~value ELSE value

\* expr.py's grammar, read off the text: in an expression of leaves joined by AND and OR, each
\* perhaps behind a NOT, NOT binds to its leaf only, AND binds tighter than OR, and the whole
\* is true where some stretch between two ORs is true throughout.
Precedence ==
  LET gs == parsed IN
  WellFormed /\ Compiles(gs) => \A id \in DOMAIN Stored :
    evaluate_parsed(gs, Stored[id]) <=>
      \E lo, hi \in DOMAIN typed :
        /\ lo <= hi
        /\ lo = 1 \/ typed[lo - 1].k = "OR"
        /\ hi = Len(typed) \/ typed[hi + 1].k = "OR"
        /\ \A i \in lo..hi : typed[i].k # "OR" /\ (typed[i].k = "leaf" => LeafTrue(i, Stored[id]))

\* execute.py, "a silently-cut result set is actively misleading": whatever the limit asked for, the
\* rows are the newest that match within the inclusive bounds, no more than the cap, and the result
\* says truncated exactly when a match is left out.
TruncationTold ==
  LET gs == parsed IN
  Compiles(gs) =>
    \A window \in Windows : LET selected == Selected(gs, window[1], window[2]) IN
      \A limit \in 1..MaxLimit + 1 :
        LET r == run_hunt_query(selected, limit)
            shown == {r.rows[i] : i \in DOMAIN r.rows}
            left == selected \ shown IN
        /\ shown \subseteq selected /\ Len(r.rows) <= MaxLimit /\ Len(r.rows) <= limit
        /\ \A a \in shown, b \in left : a > b
        /\ r.truncated <=> left # {}

\* What is asked is what is typed, and all of the answer is shown or said to be cut: the
\* grammar's precedence, the paths of the leaves, the cap of the result.
HuntReadsAsTyped == HuntTypeOK /\ Precedence /\ ReadsSame /\ TruncationTold
=============================================================================
