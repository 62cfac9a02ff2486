-------------------------- MODULE ScannerAdapters --------------------------
(***************************************************************************)
(* The three scanner adapters of scanner_runner/scanners: what a finished  *)
(* run means, what its report says, and why a scanner cannot run yet.      *)
(* A report is a sequence of line classes; the wording of a line, its path *)
(* and its meta block are left out.                                        *)
(***************************************************************************)
EXTENDS Naturals, Sequences, FiniteSets

\* No skip reason: the scanner can run.
Ready == "ready"

\* The classes of report lines an adapter tells apart.
LineClasses(name) ==
  CASE name = "aide"     -> {"header", "heading", "legacy", "entry"}
    [] name = "yara"     -> {"match", "diagnostic"}
    [] name = "rkhunter" -> {"warning", "indented", "refusal"}

-----------------------------------------------------------------------------

\* AideAdapter.parse: an entry counts only inside an open section, any other
\* bare heading closes it, the legacy inline form needs no section.
aide_parse(lines) ==
  LET Open(i) == \E h \in 1..(i - 1) :
                   lines[h] = "header" /\ \A j \in (h + 1)..(i - 1) : lines[j] # "heading"
  IN  Cardinality({i \in DOMAIN lines : \/ lines[i] = "legacy"
                                        \/ lines[i] = "entry" /\ Open(i)})

\* YaraAdapter.parse: every match line at column 0 is a finding.
yara_parse(lines) == Cardinality({i \in DOMAIN lines : lines[i] = "match"})

\* _warning_blocks: a column-0 warning opens a block, indented lines belong to
\* it, so a report has as many findings as warnings.
rkhunter_parse(lines) == Cardinality({i \in DOMAIN lines : lines[i] = "warning"})

\* ScannerAdapter.parse
parse(name, lines) ==
  CASE name = "aide"     -> aide_parse(lines)
    [] name = "yara"     -> yara_parse(lines)
    [] name = "rkhunter" -> rkhunter_parse(lines)

\* AideAdapter.interpret_outcome: the exit status is a bitmask, the report is
\* not consulted.
aide_outcome(code) ==
  CASE code = 0      -> "clean"
    [] code \in 1..7 -> "findings"
    [] OTHER         -> "failure"

\* The exit code before the report.
output_outcome_CodeFirst(name, code, lines) ==
  IF code = 0 THEN "clean"
  ELSE IF parse(name, lines) > 0 THEN "findings" ELSE "failure"

\* interpret_outcome of the output-driven adapters: findings beat the code,
\* nothing found and a non-zero code is a refusal.
output_outcome(name, code, lines) ==
  IF parse(name, lines) > 0 THEN "findings"
  ELSE IF code = 0 THEN "clean" ELSE "failure"

interpret_outcome(name, code, lines) ==
  IF name = "aide" THEN aide_outcome(code) ELSE output_outcome(name, code, lines)

-----------------------------------------------------------------------------

\* AideAdapter.preflight with _database_in: a database line that names no local
\* file ("opaque") is undecidable and lets aide speak for itself.
aide_preflight(missing) ==
  IF "config" \in missing THEN "config_missing"
  ELSE IF "opaque" \notin missing /\ "database" \in missing THEN "database_missing"
  ELSE Ready

\* YaraAdapter.preflight
yara_preflight(missing) ==
  IF "rules_dir" \in missing THEN "rules_missing"
  ELSE IF "rules" \in missing THEN "rules_empty"
  ELSE IF "target" \in missing THEN "target_missing"
  ELSE Ready

\* ScannerAdapter.preflight; rkhunter is always ready.
preflight(name, missing) ==
  CASE name = "aide"     -> aide_preflight(missing)
    [] name = "yara"     -> yara_preflight(missing)
    [] name = "rkhunter" -> Ready

\* What a host may lack when a scanner is due.
Missing(name) ==
  CASE name = "aide"     -> SUBSET {"binary", "config", "database", "opaque"}
    [] name = "yara"     -> SUBSET {"binary", "rules_dir", "rules", "target"}
    [] name = "rkhunter" -> SUBSET {"binary"}
=============================================================================
