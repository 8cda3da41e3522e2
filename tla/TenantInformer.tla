---------------------------- MODULE TenantInformer ----------------------------
(***************************************************************************)
(* What a tenant's informer promises: its cache is what some moment of the *)
(* tenant's own cluster looked like, and the moments only move forward.    *)
(*                                                                         *)
(* "moments" are what that cluster looked like, one after the other,       *)
(* narrowed to what the informer asked for and in the tenant's terms; from *)
(* one to the next at most one object changes.  There is no other tenant   *)
(* here, no selector to spell and no stream that breaks.                   *)
(***************************************************************************)
EXTENDS SequencesExt, Naturals

CONSTANT Changes   \* a change: [type : {"put", "gone"}, object : ...]

VARIABLES moments,  \* what the cluster has looked like so far
          at,       \* the moment the cache is
          cache     \* the objects it holds

vars == <<moments, at, cache>>

\* What stands after the change e among the objects objs.
Applied(e, objs) ==
    IF e.type = "put" THEN objs \cup {e.object} ELSE objs \ {e.object}

Init == moments = << {} >> /\ at = 1 /\ cache = {}

Pass ==
    /\ \E now \in {Last(moments)} \cup { Applied(e, Last(moments)) : e \in Changes } :
          moments' = Append(moments, now)
    /\ UNCHANGED <<at, cache>>

CatchUp ==
    /\ at' \in at .. Len(moments)
    /\ cache' = moments[at']
    /\ UNCHANGED moments

Next == Pass \/ CatchUp

Spec == Init /\ [][Next]_vars

=============================================================================
