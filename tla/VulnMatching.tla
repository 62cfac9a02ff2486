---------------------------- MODULE VulnMatching ----------------------------
(* vuln/advisories.py and vuln/matching.py: what one advisory file and one  *)
(* installed set say.  A file is missing, torn, or a set of entries; an     *)
(* entry has an id, a body that parses or not, a status, the version that   *)
(* fixes it (0 for none) and the package it is about.  Every operator is a  *)
(* function.                                                                *)
EXTENDS Naturals, FiniteSets

CONSTANT MaxSkipped   \* MAX_SKIPPED_AVG_IDS (500)

KNOWN_STATUSES == {"Not affected", "Vulnerable", "Fixed", "Testing", "Unknown"}

\* A whole advisory, a bare id when only the body is bad, or nothing.
parse_one(entry) ==
  IF ~entry.named THEN "nothing" ELSE IF ~entry.body THEN "id" ELSE "advisory"

\* An empty list is no advisory file: taken at its word it would resolve all.
parse_advisories(entries) ==
  [reason |-> IF entries = {} THEN "advisories_empty" ELSE "",
   advisories |-> {e \in entries : parse_one(e) = "advisory"},
   skipped |-> {e.avg : e \in {f \in entries : parse_one(f) = "id"}}]

load_advisories(file) ==
  LET failed(reason) == [reason |-> reason, advisories |-> {}, skipped |-> {}]
  IN  CASE file.state = "missing" -> failed("advisories_missing")
        [] file.state = "too large" -> failed("file_too_large")
        [] file.state = "torn" -> failed("parse_failed")
        [] OTHER -> parse_advisories(file.entries)

\* pacman -Q: the packages whose line has a name and a version.
parse_installed(lines) == [p \in {l.name : l \in lines} |-> (CHOOSE l \in lines : l.name = p).version]

\* Versions are compared by vercmp, which here are numbers.
vercmp(a, b) == IF a < b THEN 0 ELSE IF a = b THEN 1 ELSE 2

is_vulnerable(adv, version) ==
  IF adv.fixed # 0 THEN vercmp(version, adv.fixed) = 0 ELSE adv.status \in {"Vulnerable", "Unknown"}

match_advisories(advisories, installed) ==
  [matches |-> {<<a.avg, "CVE", a.package>> :
                  a \in {b \in advisories : /\ b.status \in KNOWN_STATUSES \ {"Not affected"}
                                            /\ b.package \in DOMAIN installed
                                            /\ is_vulnerable(b, installed[b.package])}},
   skipped |-> {a.avg : a \in {b \in advisories : b.status \notin KNOWN_STATUSES}}]

\* _scan: the whole reading, and the reason it failed for, if it did.
Reading(file, lines, pacman_ok, vercmp_ok) ==
  LET parsed == load_advisories(file)
      res == match_advisories(parsed.advisories, parse_installed(lines))
      skipped == parsed.skipped \cup res.skipped
      reason == IF parsed.reason # "" THEN parsed.reason
                ELSE IF ~pacman_ok THEN "pacman_failed"
                ELSE IF ~vercmp_ok THEN "vercmp_missing"
                ELSE IF Cardinality(skipped) > MaxSkipped THEN "parse_failed"
                ELSE ""
  IN  [reason |-> reason, matches |-> IF reason = "" THEN res.matches ELSE {}, skipped |-> skipped,
       advisories |-> Cardinality(parsed.advisories)]
=============================================================================
