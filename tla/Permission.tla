------------------------------ MODULE Permission ------------------------------
(***************************************************************************)
(* The permission policy of crates/permission/src/lib.rs: what it decides  *)
(* for a tool of some tier, under a mode, pins, an allowlist, the session  *)
(* grants and, for an unattended agent, a ceiling.                         *)
(***************************************************************************)
EXTENDS Naturals

\* Tiers in their order: how much autonomy a tool exercises.
Read == 0
Write == 1
Exec == 2
Network == 3
Spawn == 4
Tier == Read..Spawn

Mode == {"plan", "auto", "yolo", "ask"}

\* Shift+Tab.
NextMode(m) ==
    CASE m = "plan" -> "auto" [] m = "auto" -> "yolo"
      [] m = "yolo" -> "ask" [] m = "ask" -> "plan"

Ceiling(m) ==
    CASE m = "plan" -> Read [] m \in {"auto", "ask"} -> Exec [] m = "yolo" -> Spawn

Pin == {"allow", "ask", "deny"}
Decision == {"allow", "deny", "ask"}
Grant == {"deny", "allow", "session"}

\* The last resort for an attended agent: the mode-by-tier matrix.
Matrix(m, tier) ==
    CASE m = "yolo" \/ tier = Read -> "allow"
      [] m = "plan" /\ tier # Read -> "deny"
      [] m = "auto" /\ tier = Write -> "allow"
      [] OTHER -> "ask"

\* decide_tiered.  "free" are the tools on the allowlist or granted for the
\* session, "bound" is what an agent without a pin or a pass for the tool gets:
\* a ceiling's verdict or the matrix's.
Decide(pin, free, bound) ==
    IF pin \in Pin THEN pin ELSE IF free THEN "allow" ELSE bound

UnderCeiling(tier, ceiling) == IF tier <= ceiling THEN "allow" ELSE "deny"
=============================================================================
