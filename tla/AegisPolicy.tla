---------------------------- MODULE AegisPolicy ----------------------------
(* The deterministic policy of AEGIS-42 (mods/aegis_42/policy.py): the        *)
(* default rules and their evaluation.  Event types that the rules treat      *)
(* alike are one type here, and an event's details are the tool it names.     *)
EXTENDS Integers

NoTool == "no tool"

RuleTypes == {"tool", "capability", "forged", "replay", "bypass",
              "containment", "malformed", "lifecycle"}
ObservabilityTypes == {"lifecycle", "observability"}
EventTypes == RuleTypes \cup ObservabilityTypes \cup {"other"}

Outcomes == {"allow", "deny", "quarantine", "rate_limit"}

\* DEFAULT_RULES: every rule names the types it is about, and no two rules share one.
RuleOutcome ==
    [t \in RuleTypes |->
        CASE t = "forged"    -> "quarantine"
          [] t = "malformed" -> "rate_limit"
          [] t = "lifecycle" -> "allow"
          [] OTHER           -> "deny"]

\* evaluate(): the two early denials give the outcome their rule has anyway, so
\* neither a capability nor trust ever turns a denial into permission.
Evaluate(event, caps, trusted) ==
    CASE event.type \notin RuleTypes ->
             IF event.type \in ObservabilityTypes THEN "allow" ELSE "deny"
      [] event.type = "tool" /\ event.tool # NoTool
             /\ event.tool \notin caps /\ "*" \notin caps -> "deny"
      [] event.type = "capability" /\ ~trusted -> "deny"
      [] OTHER -> RuleOutcome[event.type]
=============================================================================
