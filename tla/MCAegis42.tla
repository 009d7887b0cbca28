----------------------------- MODULE MCAegis42 -----------------------------
(* A small AEGIS-42: one worker, and an event without an actor.               *)
EXTENDS Aegis42

MCEventOf ==
    [e \in EventIds |->
        CASE e = "created"   -> [type |-> "lifecycle", actor |-> "w", tool |-> NoTool]
          [] e = "invoked"   -> [type |-> "tool", actor |-> "w", tool |-> "t"]
          [] e = "forged"    -> [type |-> "forged", actor |-> "w", tool |-> NoTool]
          [] e = "started"   -> [type |-> "observability", actor |-> NoActor, tool |-> NoTool]]
=============================================================================
