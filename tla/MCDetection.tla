---------------------------- MODULE MCDetection ----------------------------
EXTENDS Detection, TLC

\* Numbers in halves: 0, 1, 4 and 5 as integers; 0.0, 1.0, 1.5 and 4.0 as doubles; 5 is past the mantissa.
HIntegral == {0, 2, 8, 10}
HDoubles == {0, 2, 3, 8}
HDecimal == (0 :> "0") @@ (2 :> "1") @@ (8 :> "4") @@ (10 :> "5")
HRepr == (0 :> "0.0") @@ (2 :> "1.0") @@ (3 :> "1.5") @@ (8 :> "4.0")
HNearest == (0 :> 0) @@ (2 :> 2) @@ (8 :> 8) @@ (10 :> 8)
HTexts == {HDecimal[n] : n \in HIntegral} \cup {HRepr[d] : d \in HDoubles} \cup {"true", "false", "event", "{}", "e", "(?="}
HCast == [t \in HTexts |-> IF \E d \in HDoubles : HRepr[d] = t THEN CHOOSE d \in HDoubles : HRepr[d] = t
                           ELSE IF \E n \in HIntegral : HDecimal[n] = t
                                THEN HNearest[CHOOSE n \in HIntegral : HDecimal[n] = t] ELSE 0]
HHolds == {<<"STARTSWITH", "event", "e">>, <<"STARTSWITH", "event", "event">>, <<"ENDSWITH", "true", "e">>,
           <<"CONTAINS", "event", "e">>, <<"CONTAINS", "true", "e">>, <<"MATCHES", "event", "e">>,
           <<"MATCHES", "1.0", "1">>, <<"CONTAINS", "1.0", "1">>, <<"STARTSWITH", "{}", "{}">>}

Lit(t, v) == [t |-> t, v |-> v]
HLiterals == {Lit("str", "1"), Lit("str", "5"), Lit("str", "true"), Lit("str", "event"), Lit("str", "{}"),
              Lit("int", 0), Lit("int", 2), Lit("int", 8), Lit("int", 10), Lit("bool", TRUE), Lit("bool", FALSE)}
HPaths == {<<"process">>, <<"event", "kind">>, <<"event", "ts">>, <<"process", "pid">>,
           <<"event", "process", "pid">>, <<"event", "kind", "pid">>, <<"process", "pid", "pid">>, <<"process", "">>}
Leaf(p, op, rhs) == [path |-> p, op |-> op, rhs |-> rhs]
HLeaves ==
  {Leaf(p, op, {l}) : p \in HPaths, op \in {"==", "!="}, l \in HLiterals} \cup
  {Leaf(p, op, ls) : p \in HPaths, op \in {"IN", "NOT IN"},
                     ls \in {{}, {Lit("int", 10), Lit("str", "1")}, {Lit("bool", TRUE), Lit("int", 8)}}} \cup
  {Leaf(p, op, {l}) : p \in HPaths, op \in StringOps,
                      l \in {Lit("str", "e"), Lit("str", "1"), Lit("str", "{}"), Lit("str", "(?="), Lit("int", 2)}}
HCommon == {Leaf(<<"process", "pid">>, "==", {Lit("int", 2)}), Leaf(<<"process", "pid">>, "!=", {Lit("str", "1")}),
            Leaf(<<"event", "kind">>, "==", {Lit("str", "event")})}

Ev(kind, attrs) == [t |-> "dict", v |-> attrs @@ ("kind" :> Lit("str", kind)) @@ ("ts" :> [t |-> "datetime"]) @@
                     [a \in {"module", "action", "severity"} |-> Lit("str", "e")]]
Proc(x) == "process" :> [t |-> "dict", v |-> "pid" :> x]
HPids == <<Lit("str", "1"), Lit("str", "true"), Lit("str", "5"), Lit("int", 0), Lit("int", 2), Lit("int", 8), Lit("int", 10),
           Lit("float", 2), Lit("float", 3), Lit("float", 8), Lit("bool", TRUE), Lit("bool", FALSE),
           [t |-> "null"], [t |-> "list"], [t |-> "dict", v |-> "pid" :> Lit("int", 2)]>>
HStored == [i \in 1..Len(HPids) |-> Ev(IF i % 2 = 0 THEN "event" ELSE "true", Proc(HPids[i]))] \o
           <<Ev("event", "process" :> [t |-> "null"]), Ev("1", "process" :> [t |-> "dict", v |-> << >>]), Ev("5", << >>)>>

\* The whole table, a stretch of it, one instant.
HWindows == {<<1, 18>>, <<4, 9>>, <<5, 5>>}

K(a, k, f) == [action |-> a, key |-> k, first_seen |-> f]
MCFirstKinds == {K("ssh_login_failed", "a", FALSE), K("package_upgraded", "p", FALSE)}
MCKinds == MCFirstKinds \cup {K("ssh_login_failed", "a", TRUE), K("scan_finding", "f", FALSE)}
MCAllowlist == {("rule_id" :> "brute" @@ "entity" :> "b")}
=============================================================================
