--------------------------- MODULE MCControlPlane ---------------------------
EXTENDS Operations
CONSTANTS c1, c2, c3, d1, d2

MCRequests == [commands |-> 4, gated |-> 4, alerts |-> 2, cases |-> 3, audit |-> 3]

MCTime == [commands |-> 3, gated |-> 2, alerts |-> 2, cases |-> 2, audit |-> 2]

Sym == Permutations({c1, c2}) \cup Permutations({d1, d2})

\* Advisory files: a vulnerable package, a fixed one beside another, an entry that is
\* no record, a status nobody knows, and none at all.
Entry(b, st, fx) == [avg |-> "AVG-1", named |-> TRUE, body |-> b, status |-> st, fixed |-> fx, package |-> "pkg"]

Other == [avg |-> "AVG-2", named |-> TRUE, body |-> TRUE, status |-> "Vulnerable", fixed |-> 0, package |-> "pkg"]

F(es) == [state |-> "whole", entries |-> es]

MCFiles ==
  {F({Entry(TRUE, "Vulnerable", 0)}), F({Entry(TRUE, "Fixed", 2), Other}),
   F({Entry(FALSE, "", 0), Other}), F({Entry(TRUE, "Odd", 0)}), F({})}

MCFirst == {F({Entry(TRUE, "Vulnerable", 0)})}

Line(v) == [name |-> "pkg", version |-> v]

MCInstalls == {{Line(1)}, {Line(2)}}
=============================================================================
