-------------------------- MODULE MCInformerFactory --------------------------
(***************************************************************************)
(* Two goroutines, in three scenes: they start both types in two contexts  *)
(* and shut the factory down; and they wait for caches as well, with both  *)
(* types in one context, or one type and two contexts.                     *)
(***************************************************************************)
EXTENDS InformerFactory

Single(S) == {CHOOSE s \in S : TRUE}

Scenes ==
    {[types |-> Types, contexts |-> Contexts, waits |-> FALSE],
     [types |-> Types, contexts |-> Single(Contexts), waits |-> TRUE],
     [types |-> Single(Types), contexts |-> Contexts, waits |-> TRUE]}

VARIABLE scene

InScene(c) ==
    /\ c.op = "InformerFor" => c.type \in scene.types
    /\ c.op \in {"Start", "Wait"} => c.context \in scene.contexts
    /\ c.op = "Wait" => scene.waits

SceneInit == Init /\ scene \in Scenes

SceneNext ==
    /\ Next
    /\ \A c \in Callers : InScene(call'[c])
    /\ cancelled' \subseteq scene.contexts
    /\ UNCHANGED scene

SceneSpec == SceneInit /\ [][SceneNext]_<<vars, scene>> /\ Fairness
=============================================================================
