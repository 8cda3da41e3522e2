-------------------------- MODULE InformerFactory --------------------------
(***************************************************************************)
(* The shared informer factory of the Tenant and quota APIs: goroutines of *)
(* one program ask it for informers, start them, wait for their caches and *)
(* shut it down, at the same time.  What an informer does is client-go's:  *)
(* it runs until its context is cancelled, and its cache is synced once    *)
(* the first list is in it.                                                *)
(*                                                                         *)
(* f.lock protects the factory's fields.  A body that holds it from its    *)
(* first to its last use of them is one action that needs the lock free;   *)
(* InformerFor, which makes the informer while it holds it, is two.        *)
(***************************************************************************)
EXTENDS Naturals, FiniteSets

CONSTANTS Callers, Types, Contexts, None

ASSUME NoneAssumption == None \notin Callers \cup Contexts

VARIABLES
    lock,              \* the caller that holds f.lock, or None
    informers,         \* f.informers: the informer of each type, 0 for none
    startedInformers,  \* the types that were started
    shuttingDown,
    goroutines,        \* what f.wg counts: [informer, type, context]
    released,          \* has the factory's informer name been released?
    made, ran,         \* how many informers were made, and which ever ran
    synced,            \* the informers whose caches are synced
    cancelled,         \* the contexts that are cancelled
    call,              \* what each caller is in
    given,             \* the informers callers were given: <<type, informer>>
    waited             \* what the last wait for caches told its caller

factory == <<lock, informers, startedInformers, shuttingDown, goroutines, released>>
world == <<made, ran, synced, cancelled>>
vars == <<factory, world, call, given, waited>>

Idle == [op |-> "none"]
InCall(c, op, at) == call[c].op = op /\ call[c].at = at
Return(c) == call' = [call EXCEPT ![c] = Idle]
Goto(c, at) == call' = [call EXCEPT ![c].at = at]

Nothing == [ok |-> FALSE, before |-> {}, types |-> {}]

Init ==
    /\ lock = None /\ informers = [t \in Types |-> 0] /\ startedInformers = {}
    /\ shuttingDown = FALSE /\ goroutines = {} /\ released = FALSE
    /\ made = 0 /\ ran = {} /\ synced = {} /\ cancelled = {}
    /\ call = [c \in Callers |-> Idle]
    /\ given = {} /\ waited = Nothing

\* A caller calls a method of the factory.
Call(c) ==
    /\ call[c] = Idle
    /\ \/ \E t \in Types : call' = [call EXCEPT ![c] =
            [op |-> "InformerFor", at |-> "called", type |-> t]]
       \/ \E x \in Contexts : call' = [call EXCEPT ![c] =
            [op |-> "Start", at |-> "called", context |-> x]]
       \/ \E x \in Contexts : call' = [call EXCEPT ![c] =
            [op |-> "Wait", at |-> "called", context |-> x, before |-> startedInformers]]
       \/ call' = [call EXCEPT ![c] = [op |-> "Shutdown", at |-> "called"]]
    /\ UNCHANGED <<factory, world, given, waited>>

-----------------------------------------------------------------------------

\* Mutant: the lookup does not take the lock.
LookUpUnlocked(c) ==
    /\ InCall(c, "InformerFor", "called")
    /\ IF informers[call[c].type] # 0
       THEN /\ given' = given \cup {<<call[c].type, informers[call[c].type]>>}
            /\ Return(c)
       ELSE Goto(c, "making") /\ UNCHANGED given
    /\ UNCHANGED <<factory, world, waited>>

\* InformerFor, with the lock: the informer there is ...
LookUp(c) ==
    LET t == call[c].type
    IN /\ InCall(c, "InformerFor", "called") /\ lock = None
       /\ \/ /\ informers[t] # 0
             /\ given' = given \cup {<<t, informers[t]>>}
             /\ Return(c) /\ UNCHANGED lock
          \/ /\ informers[t] = 0
             /\ lock' = c /\ Goto(c, "making") /\ UNCHANGED given
       /\ UNCHANGED <<informers, startedInformers, shuttingDown, goroutines, released,
                      world, waited>>

\* ... or a new one, which is not running yet.
NewInformer(c) ==
    LET t == call[c].type
    IN /\ InCall(c, "InformerFor", "making")
       /\ made' = made + 1
       /\ informers' = [informers EXCEPT ![t] = made + 1]
       /\ given' = given \cup {<<t, made + 1>>}
       /\ lock' = None /\ Return(c)
       /\ UNCHANGED <<startedInformers, shuttingDown, goroutines, released, ran, synced,
                      cancelled, waited>>

\* Mutant: Start does not look whether the factory is shutting down.
StartAnyway(c) ==
    LET fresh == {t \in Types : informers[t] # 0 /\ t \notin startedInformers}
    IN /\ InCall(c, "Start", "called") /\ lock = None
       /\ goroutines' = goroutines \cup
            {[informer |-> informers[t], type |-> t, context |-> call[c].context] : t \in fresh}
       /\ ran' = ran \cup {informers[t] : t \in fresh}
       /\ startedInformers' = startedInformers \cup fresh
       /\ Return(c)
       /\ UNCHANGED <<lock, informers, shuttingDown, released, made, synced, cancelled,
                      given, waited>>

\* Mutant: a type counts as started only while its informer runs.
StartAgain(c) ==
    LET fresh == {t \in Types : informers[t] # 0 /\ ~\E g \in goroutines : g.type = t}
    IN /\ InCall(c, "Start", "called") /\ lock = None
       /\ ~shuttingDown
       /\ goroutines' = goroutines \cup
            {[informer |-> informers[t], type |-> t, context |-> call[c].context] : t \in fresh}
       /\ ran' = ran \cup {informers[t] : t \in fresh}
       /\ startedInformers' = startedInformers \cup fresh
       /\ Return(c)
       /\ UNCHANGED <<lock, informers, shuttingDown, released, made, synced, cancelled,
                      given, waited>>

\* Every informer that was not started runs until the context is cancelled;
\* nothing once the factory is shutting down.
StartWithContext(c) ==
    LET fresh == IF shuttingDown THEN {}
                 ELSE {t \in Types : informers[t] # 0 /\ t \notin startedInformers}
    IN /\ InCall(c, "Start", "called") /\ lock = None
       /\ goroutines' = goroutines \cup
            {[informer |-> informers[t], type |-> t, context |-> call[c].context] : t \in fresh}
       /\ ran' = ran \cup {informers[t] : t \in fresh}
       /\ startedInformers' = startedInformers \cup fresh
       /\ Return(c)
       /\ UNCHANGED <<lock, informers, shuttingDown, released, made, synced, cancelled,
                      given, waited>>

\* Mutant: a shutdown keeps the lock while it waits.
ShutdownUnderLock(c) ==
    \/ /\ InCall(c, "Shutdown", "called") /\ lock = None
       /\ shuttingDown' = TRUE
       /\ lock' = c /\ Goto(c, "waiting under the lock")
       /\ UNCHANGED <<informers, startedInformers, goroutines, released, world, given, waited>>
    \/ /\ InCall(c, "Shutdown", "waiting under the lock") /\ goroutines = {}
       /\ released' = TRUE
       /\ lock' = None /\ Return(c)
       /\ UNCHANGED <<informers, startedInformers, shuttingDown, goroutines, world, given, waited>>

\* Shutdown: first no more informers can be started, then the running ones are
\* waited for.
MarkShutdown(c) ==
    /\ InCall(c, "Shutdown", "called") /\ lock = None
    /\ shuttingDown' = TRUE
    /\ Goto(c, "waiting")
    /\ UNCHANGED <<lock, informers, startedInformers, goroutines, released, world, given, waited>>

FinishShutdown(c) ==
    /\ InCall(c, "Shutdown", "waiting") /\ goroutines = {}
    /\ released' = TRUE
    /\ Return(c)
    /\ UNCHANGED <<lock, informers, startedInformers, shuttingDown, goroutines, world, given, waited>>

\* WaitForCacheSync: the started informers are collected under the lock ...
CollectStarted(c) ==
    /\ InCall(c, "Wait", "called") /\ lock = None
    /\ call' = [call EXCEPT ![c] = [op |-> "Wait", at |-> "waiting", context |-> @.context,
                                    before |-> @.before, types |-> startedInformers]]
    /\ UNCHANGED <<factory, world, given, waited>>

\* Mutant: the wait ends with the first cache that is synced.
ReportFirst(c) ==
    LET w == call[c]
    IN /\ InCall(c, "Wait", "waiting")
       /\ w.context \in cancelled \/ \E t \in w.types : informers[t] \in synced
       /\ waited' = [ok |-> w.context \notin cancelled, before |-> w.before, types |-> w.types]
       /\ Return(c)
       /\ UNCHANGED <<factory, world, given>>

\* Mutant: the wait does not look at its context.
ReportWhenSynced(c) ==
    LET w == call[c]
    IN /\ InCall(c, "Wait", "waiting")
       /\ \A t \in w.types : informers[t] \in synced
       /\ waited' = [ok |-> TRUE, before |-> w.before, types |-> w.types]
       /\ Return(c)
       /\ UNCHANGED <<factory, world, given>>

\* ... and waited for until all are synced or the context is cancelled; the
\* result says which are, and is an error unless all are.
ReportSynced(c) ==
    LET w == call[c]
        done == {t \in w.types : informers[t] \in synced}
    IN /\ InCall(c, "Wait", "waiting")
       /\ done = w.types \/ w.context \in cancelled
       /\ waited' = [ok |-> done = w.types, before |-> w.before, types |-> done]
       /\ Return(c)
       /\ UNCHANGED <<factory, world, given>>

-----------------------------------------------------------------------------
(* Around the factory: contexts are cancelled, informers sync and end.     *)

Cancel(x) ==
    /\ x \notin cancelled
    /\ cancelled' = cancelled \cup {x}
    /\ UNCHANGED <<factory, made, ran, synced, call, given, waited>>

FirstList(g) ==
    /\ g.context \notin cancelled /\ g.informer \notin synced
    /\ synced' = synced \cup {g.informer}
    /\ UNCHANGED <<factory, made, ran, cancelled, call, given, waited>>

RunEnds(g) ==
    /\ g.context \in cancelled
    /\ goroutines' = goroutines \ {g}
    /\ UNCHANGED <<lock, informers, startedInformers, shuttingDown, released, world, call,
                   given, waited>>

\* The steps of a caller that is in a call.
Step(c) ==
    \/ LookUp(c) \/ NewInformer(c)
    \/ StartWithContext(c)
    \/ MarkShutdown(c) \/ FinishShutdown(c)
    \/ CollectStarted(c) \/ ReportSynced(c)

Next ==
    \/ \E c \in Callers : Call(c) \/ Step(c)
    \/ \E x \in Contexts : Cancel(x)
    \/ \E g \in goroutines : FirstList(g) \/ RunEnds(g)

\* A goroutine that can run is run.  Taking the lock needs strong fairness,
\* which sync.Mutex gives: a waiter is handed the lock before newcomers once
\* it has waited for a millisecond.
Fairness ==
    /\ \A c \in Callers : SF_vars(Step(c))
    /\ WF_vars(\E g \in goroutines : RunEnds(g))

Spec == Init /\ [][Next]_vars /\ Fairness

-----------------------------------------------------------------------------

TypeOK ==
    /\ lock \in Callers \cup {None}
    /\ informers \in [Types -> 0..made]
    /\ startedInformers \subseteq Types
    /\ shuttingDown \in BOOLEAN /\ released \in BOOLEAN
    /\ \A g \in goroutines : g.type \in Types /\ g.informer \in 1..made
    /\ ran \subseteq 1..made /\ synced \subseteq ran
    /\ cancelled \subseteq Contexts
    /\ given \subseteq Types \X (1..made)

\* Whoever asked for the informer of a type, and whenever, holds the one the
\* factory starts: no caller reads a lister that nothing will ever fill.
OneInformerPerType ==
    \A g \in given : g[2] = informers[g[1]]

\* No informer is run twice, not after its context was cancelled either, and
\* none is started once a Shutdown is on its way.
StartsOnceAndInTime ==
    [][\A g \in goroutines' \ goroutines : g.informer \notin ran /\ ~shuttingDown]_vars

\* Once any Shutdown has returned no informer runs and none ever will, and the
\* factory's name is free only then.
StoppedForGood == released => goroutines = {} /\ shuttingDown

\* A wait that returns no error has seen every informer synced that was
\* started when it was called, by whichever caller.
SyncedWhenItSaysSo ==
    waited.ok =>
        /\ waited.before \subseteq waited.types
        /\ \A t \in waited.types : informers[t] \in synced

\* Every call comes back, whoever else calls the factory meanwhile.  Asking for
\* an informer and starting wait for nothing, not for a Shutdown that waits for
\* informers in a context that is never cancelled either.  A Shutdown takes
\* hold, and returns once the contexts that informers run in are cancelled,
\* other contexts or not; a wait for caches, once its own is.
CallsReturn ==
    \A c \in Callers :
        /\ \A op \in {"InformerFor", "Start"} : (call[c].op = op) ~> (call[c].op # op)
        /\ (call[c].op = "Shutdown") ~> shuttingDown
        /\ (/\ call[c].op = "Shutdown" /\ shuttingDown
            /\ {g.context : g \in goroutines} \subseteq cancelled) ~> (call[c].op # "Shutdown")
        /\ \A x \in Contexts :
              (call[c].op = "Wait" /\ call[c].context = x /\ x \in cancelled)
                  ~> (call[c].op # "Wait")
=============================================================================
