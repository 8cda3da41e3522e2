----------------------------- MODULE GeneratedProofs -----------------------------
(***************************************************************************)
(* Proofs about the generated code.  InformerFactory, for any number of    *)
(* goroutines, types and contexts: every caller is given the informer that *)
(* is started, it is started once, and never when the factory shuts down.  *)
(* ObjectStream, for messages of any shape and length and maps with any    *)
(* keys: what is written is as long as the size says, and the same in      *)
(* whatever order the maps are ranged over; what is read is what was       *)
(* written, whatever a newer sender added to it; and where a cut leaves    *)
(* only the beginning of it, what is read are whole members or nothing.    *)
(***************************************************************************)
EXTENDS InformerFactory, ObjectStream, SequenceTheorems, TLAPS

\* What a caller may be in.
CallState ==
    {Idle}
    \cup [op : {"InformerFor"}, at : {"called", "making"}, type : Types]
    \cup [op : {"Start"}, at : {"called"}, context : Contexts]
    \cup [op : {"Wait"}, at : {"called"}, context : Contexts, before : SUBSET Types]
    \cup [op : {"Wait"}, at : {"waiting"}, context : Contexts, before : SUBSET Types,
          types : SUBSET Types]
    \cup [op : {"Shutdown"}, at : {"called", "waiting"}]

Making(c) == InCall(c, "InformerFor", "making")

\* The informer is made by the one caller that holds the lock, for a type
\* that has none.
LockInv ==
    \A c \in Callers :
        Making(c) => lock = c /\ informers[call[c].type] = 0

\* No two types share an informer, and one that ever ran is its type's own.
OwnInformer ==
    /\ \A t, u \in Types : informers[t] # 0 /\ informers[t] = informers[u] => t = u
    /\ \A t \in startedInformers : informers[t] # 0
    /\ \A i \in ran : \E t \in startedInformers : informers[t] = i
    /\ \A g \in goroutines : g.informer \in ran

\* A shutdown that waits has seen to it that nothing is started any more.
ShutdownInv ==
    \A c \in Callers : InCall(c, "Shutdown", "waiting") => shuttingDown

\* A wait is for all that was started before it was called.
WaitInv ==
    \A c \in Callers :
        /\ InCall(c, "Wait", "called") => call[c].before \subseteq startedInformers
        /\ InCall(c, "Wait", "waiting") => call[c].before \subseteq call[c].types

Typed == TypeOK /\ made \in Nat /\ call \in [Callers -> CallState] /\ waited.types \subseteq Types

IInv ==
    /\ Typed
    /\ LockInv
    /\ OwnInformer
    /\ OneInformerPerType
    /\ ShutdownInv
    /\ StoppedForGood
    /\ WaitInv
    /\ SyncedWhenItSaysSo

-----------------------------------------------------------------------------
(***************************************************************************)
(* What a call goes through.                                               *)
(***************************************************************************)
LEMMA CallParts ==
    ASSUME NEW k \in CallState
    PROVE  /\ k.op = "InformerFor" => k.type \in Types /\ k.at \in {"called", "making"}
           /\ k.op = "Start" => k.context \in Contexts
           /\ k.op = "Wait" => k.context \in Contexts /\ k.before \in SUBSET Types
           /\ k.op = "Wait" /\ k.at = "waiting" => k.types \in SUBSET Types
           /\ k.op = "InformerFor" =>
                [k EXCEPT !.at = "making"] =
                    [op |-> "InformerFor", at |-> "making", type |-> k.type]
           /\ k.op = "Shutdown" =>
                [k EXCEPT !.at = "waiting"] = [op |-> "Shutdown", at |-> "waiting"]
           /\ k.op = "InformerFor" => [k EXCEPT !.at = "making"] \in CallState
           /\ k.op = "Shutdown" => [k EXCEPT !.at = "waiting"] \in CallState
<1>1. CASE k = Idle
  BY <1>1 DEF Idle
<1>2. CASE k \in [op : {"InformerFor"}, at : {"called", "making"}, type : Types]
  BY <1>2 DEF CallState
<1>3. CASE k \in [op : {"Start"}, at : {"called"}, context : Contexts]
  BY <1>3
<1>4. CASE k \in [op : {"Wait"}, at : {"called"}, context : Contexts, before : SUBSET Types]
  BY <1>4
<1>5. CASE k \in [op : {"Wait"}, at : {"waiting"}, context : Contexts, before : SUBSET Types,
                  types : SUBSET Types]
  BY <1>5
<1>6. CASE k \in [op : {"Shutdown"}, at : {"called", "waiting"}]
  BY <1>6 DEF CallState
<1> QED  BY <1>1, <1>2, <1>3, <1>4, <1>5, <1>6 DEF CallState

LEMMA CallReturns ==
    ASSUME call \in [Callers -> CallState], NEW c \in Callers, Return(c)
    PROVE  call'[c].op = "none"
  BY DEF Return, Idle

\* A lookup ends its call, or goes on to make the informer it asks for.
LEMMA LookUpCall ==
    ASSUME call \in [Callers -> CallState], NEW c \in Callers, LookUp(c)
    PROVE  /\ call'[c].op = "none" \/ call'[c].op = "InformerFor"
           /\ call'[c].op = "InformerFor" => call'[c].type = call[c].type
<1>1. CASE Return(c)
  BY <1>1, CallReturns
<1>2. CASE Goto(c, "making")
  <2>1. call[c] \in CallState /\ call[c].op = "InformerFor"
    BY DEF LookUp, InCall
  <2>2. [call[c] EXCEPT !.at = "making"]
            = [op |-> "InformerFor", at |-> "making", type |-> call[c].type]
    BY <2>1, CallParts
  <2>3. call'[c] = [call[c] EXCEPT !.at = "making"]
    BY <1>2 DEF Goto
  <2> QED  BY <2>2, <2>3
<1> QED  BY <1>1, <1>2 DEF LookUp

\* One that shuts down waits for the informers that run.
LEMMA MarkShutdownCall ==
    ASSUME call \in [Callers -> CallState], NEW c \in Callers, MarkShutdown(c)
    PROVE  call'[c] = [op |-> "Shutdown", at |-> "waiting"]
<1>1. call[c] \in CallState /\ call[c].op = "Shutdown"
  BY DEF MarkShutdown, InCall
<1>2. [call[c] EXCEPT !.at = "waiting"] = [op |-> "Shutdown", at |-> "waiting"]
  BY <1>1, CallParts
<1>3. call'[c] = [call[c] EXCEPT !.at = "waiting"]
  BY DEF MarkShutdown, Goto
<1> QED  BY <1>2, <1>3

\* A call that starts is of one of the five kinds, and at its beginning.
LEMMA CallStarts ==
    ASSUME TypeOK, call \in [Callers -> CallState], NEW c \in Callers, Call(c)
    PROVE  /\ call' \in [Callers -> CallState]
           /\ call'[c].at = "called"
           /\ call'[c].op = "Wait" => call'[c].before = startedInformers
<1> DEFINE Started(k) == call' = [call EXCEPT ![c] = k]
<1>1. CASE \E t \in Types : Started([op |-> "InformerFor", at |-> "called", type |-> t])
  BY <1>1 DEF CallState
<1>2. CASE \E x \in Contexts : Started([op |-> "Start", at |-> "called", context |-> x])
  BY <1>2 DEF CallState
<1>3. CASE \E x \in Contexts : Started([op |-> "Wait", at |-> "called", context |-> x,
                                        before |-> startedInformers])
  <2>1. PICK x \in Contexts : Started([op |-> "Wait", at |-> "called", context |-> x,
                                       before |-> startedInformers])
    BY <1>3
  <2>2. [op |-> "Wait", at |-> "called", context |-> x, before |-> startedInformers] \in CallState
    BY DEF TypeOK, CallState
  <2> QED  BY <2>1, <2>2
<1>4. CASE Started([op |-> "Shutdown", at |-> "called"])
  BY <1>4 DEF CallState
<1> QED  BY <1>1, <1>2, <1>3, <1>4 DEF Call

LEMMA TypedInit == Init => Typed
<1> SUFFICES ASSUME Init PROVE Typed
  OBVIOUS
<1>1. call \in [Callers -> CallState]
  BY DEF Init, CallState
<1>2. informers \in [Types -> 0..made] /\ made \in Nat
  BY DEF Init
<1> QED  BY <1>1, <1>2 DEF Init, Typed, TypeOK, Nothing

\* Start runs the informers of types that were asked for and not yet started.
Fresh == IF shuttingDown THEN {}
         ELSE {t \in Types : informers[t] # 0 /\ t \notin startedInformers}

LEMMA TypedStep == Typed /\ OwnInformer /\ [Next]_vars => Typed'
<1> SUFFICES ASSUME Typed, OwnInformer, [Next]_vars PROVE Typed'
  OBVIOUS
<1> USE DEF Typed
<1>1. ASSUME NEW c \in Callers, Call(c) PROVE Typed'
  BY <1>1, CallStarts DEF Call, TypeOK, factory, world
<1>2. ASSUME NEW c \in Callers, LookUp(c) PROVE Typed'
  <2> DEFINE t == call[c].type
  <2>1. t \in Types /\ Idle \in CallState /\ [call[c] EXCEPT !.at = "making"] \in CallState
    BY <1>2, CallParts DEF LookUp, InCall, CallState
  <2>2. call' \in [Callers -> CallState]
    BY <1>2, <2>1 DEF LookUp, Goto, Return
  <2>3. given' \subseteq Types \X (1..made)
    BY <1>2, <2>1 DEF LookUp, TypeOK
  <2>4. lock' \in Callers \cup {None}
    BY <1>2 DEF LookUp, TypeOK
  <2> QED  BY <1>2, <2>2, <2>3, <2>4 DEF LookUp, TypeOK, world
<1>3. ASSUME NEW c \in Callers, NewInformer(c) PROVE Typed'
  <2>1. call[c].type \in Types /\ Idle \in CallState
    BY <1>3, CallParts DEF NewInformer, InCall, CallState
  <2>2. made' = made + 1 /\ made' \in Nat
    BY <1>3 DEF NewInformer
  <2>3. informers' \in [Types -> 0..made']
    BY <1>3, <2>1, <2>2 DEF NewInformer, TypeOK
  <2>4. given' \subseteq Types \X (1..made')
    BY <1>3, <2>1, <2>2 DEF NewInformer, TypeOK
  <2>5. /\ \A g \in goroutines' : g.type \in Types /\ g.informer \in 1..made'
        /\ ran' \subseteq 1..made' /\ synced' \subseteq ran'
    BY <1>3, <2>2 DEF NewInformer, TypeOK
  <2>6. call' \in [Callers -> CallState]
    BY <1>3, <2>1 DEF NewInformer, Return
  <2> QED  BY <1>3, <2>2, <2>3, <2>4, <2>5, <2>6 DEF NewInformer, TypeOK
<1>4. ASSUME NEW c \in Callers, StartWithContext(c) PROVE Typed'
  <2>1. \A t \in Fresh : t \in Types /\ informers[t] \in 1..made
    BY DEF Fresh, TypeOK
  <2>2. /\ goroutines' = goroutines \cup {[informer |-> informers[t], type |-> t,
                                           context |-> call[c].context] : t \in Fresh}
        /\ ran' = ran \cup {informers[t] : t \in Fresh}
        /\ startedInformers' = startedInformers \cup Fresh
    BY <1>4 DEF StartWithContext, Fresh
  <2>3. \A g \in goroutines' : g.type \in Types /\ g.informer \in 1..made
    <3> SUFFICES ASSUME NEW g \in goroutines' PROVE g.type \in Types /\ g.informer \in 1..made
      OBVIOUS
    <3>1. CASE g \in goroutines
      BY <3>1 DEF TypeOK
    <3>2. CASE \E t \in Fresh : g = [informer |-> informers[t], type |-> t,
                                     context |-> call[c].context]
      BY <2>1, <3>2
    <3> QED  BY <2>2, <3>1, <3>2
  <2>4. ran' \subseteq 1..made /\ synced \subseteq ran' /\ startedInformers' \subseteq Types
    BY <2>1, <2>2 DEF TypeOK
  <2>5. call' \in [Callers -> CallState]
    BY <1>4 DEF StartWithContext, Return, CallState
  <2> QED  BY <1>4, <2>3, <2>5, <2>4 DEF StartWithContext, TypeOK
<1>5. ASSUME NEW c \in Callers, MarkShutdown(c) PROVE Typed'
  <2>1. call' \in [Callers -> CallState]
    BY <1>5, CallParts DEF MarkShutdown, InCall, Goto
  <2> QED  BY <1>5, <2>1 DEF MarkShutdown, TypeOK, world
<1>6. ASSUME NEW c \in Callers, FinishShutdown(c) PROVE Typed'
  <2>1. call' \in [Callers -> CallState]
    BY <1>6 DEF FinishShutdown, Return, CallState
  <2> QED  BY <1>6, <2>1 DEF FinishShutdown, TypeOK, world
<1>7. ASSUME NEW c \in Callers, CollectStarted(c) PROVE Typed'
  <2>1. [op |-> "Wait", at |-> "waiting", context |-> call[c].context,
         before |-> call[c].before, types |-> startedInformers] \in CallState
    <3>1. call[c].context \in Contexts /\ call[c].before \in SUBSET Types
      BY <1>7, CallParts DEF CollectStarted, InCall
    <3> QED  BY <3>1 DEF CallState, TypeOK
  <2>2. call' \in [Callers -> CallState]
    BY <1>7, <2>1 DEF CollectStarted
  <2> QED  BY <1>7, <2>2 DEF CollectStarted, TypeOK, factory, world
<1>8. ASSUME NEW c \in Callers, ReportSynced(c) PROVE Typed'
  <2>1. call[c].types \subseteq Types
    BY <1>8, CallParts DEF ReportSynced, InCall
  <2>2. call' \in [Callers -> CallState] /\ waited'.types \subseteq Types
    BY <1>8, <2>1 DEF ReportSynced, Return, CallState
  <2> QED  BY <1>8, <2>2 DEF ReportSynced, TypeOK, factory, world
<1>9. ASSUME NEW x \in Contexts, Cancel(x) PROVE Typed'
  BY <1>9 DEF Cancel, TypeOK, factory
<1>10. ASSUME NEW g \in goroutines, FirstList(g) PROVE Typed'
  BY <1>10, ZenonT(30) DEF FirstList, TypeOK, OwnInformer, factory
<1>11. ASSUME NEW g \in goroutines, RunEnds(g) PROVE Typed'
  BY <1>11 DEF RunEnds, TypeOK, world
<1>12. ASSUME UNCHANGED vars PROVE Typed'
  BY <1>12 DEF vars, factory, world, TypeOK
<1> QED
  BY <1>1, <1>2, <1>3, <1>4, <1>5, <1>6, <1>7, <1>8, <1>9, <1>10, <1>11, <1>12 DEF Next, Step

-----------------------------------------------------------------------------
(***************************************************************************)
(* The steps as the invariants see them.  An informer is made under the    *)
(* lock; nothing else changes what a type's informer is.                   *)
(***************************************************************************)
LEMMA InformersChange ==
    ASSUME [Next]_vars
    PROVE  \/ UNCHANGED <<informers, made>>
           \/ \E c \in Callers : NewInformer(c)
  BY DEF Next, Step, vars, factory, world, Call, LookUp, StartWithContext, MarkShutdown,
         FinishShutdown, CollectStarted, ReportSynced, Cancel, FirstList, RunEnds

LEMMA StartedChange ==
    ASSUME [Next]_vars
    PROVE  \/ UNCHANGED <<startedInformers, ran>> /\ goroutines' \subseteq goroutines
           \/ \E c \in Callers : StartWithContext(c)
  BY DEF Next, Step, vars, factory, world, Call, LookUp, NewInformer, MarkShutdown,
         FinishShutdown, CollectStarted, ReportSynced, Cancel, FirstList, RunEnds

\* Only a caller's own steps change its call.
LEMMA CallChange ==
    ASSUME [Next]_vars, NEW c \in Callers, call \in [Callers -> CallState],
           call'[c] # call[c]
    PROVE  Call(c) \/ Step(c)
  BY SMTT(30) DEF Next, Step, vars, factory, world, Call, LookUp, NewInformer, StartWithContext,
         MarkShutdown, FinishShutdown, CollectStarted, ReportSynced, Cancel, FirstList, RunEnds,
         Goto, Return

\* What is started is what was asked for and not started before.
LEMMA StartEffect ==
    ASSUME NEW c \in Callers, StartWithContext(c)
    PROVE  /\ goroutines' = goroutines \cup {[informer |-> informers[t], type |-> t,
                                              context |-> call[c].context] : t \in Fresh}
           /\ ran' = ran \cup {informers[t] : t \in Fresh}
           /\ startedInformers' = startedInformers \cup Fresh
           /\ UNCHANGED <<lock, informers, shuttingDown, released, made, synced, cancelled,
                          given, waited>>
           /\ call' = [call EXCEPT ![c] = Idle]
  BY DEF StartWithContext, Fresh, Return

-----------------------------------------------------------------------------

LEMMA LockStep == Typed /\ LockInv /\ [Next]_vars => LockInv'
<1> SUFFICES ASSUME Typed, LockInv, [Next]_vars, NEW c \in Callers, Making(c)'
             PROVE  lock' = c /\ informers'[call'[c].type] = 0
  BY DEF LockInv
<1> USE DEF Typed
<1>1. CASE call'[c] = call[c]
  <2>1. Making(c) /\ lock = c /\ informers[call[c].type] = 0
    BY <1>1 DEF Making, InCall, LockInv
  <2>2. \A d \in Callers : ~NewInformer(d)
    <3> SUFFICES ASSUME NEW d \in Callers, NewInformer(d) PROVE FALSE
      OBVIOUS
    <3>1. Making(d)
      BY DEF NewInformer, Making
    <3>2. d = c
      BY <2>1, <3>1 DEF LockInv
    <3> QED  BY <1>1, <2>1, <3>2 DEF NewInformer, Return, Idle, Making, InCall
  <2>3. lock # None
    BY <2>1, NoneAssumption
  <2>4. lock' = lock /\ informers' = informers
    BY <2>2, <2>3, InformersChange
    DEF Next, Step, vars, factory, world, Call, LookUp, StartWithContext, MarkShutdown,
        FinishShutdown, CollectStarted, ReportSynced, Cancel, FirstList, RunEnds
  <2> QED  BY <1>1, <2>1, <2>4
<1>2. CASE call'[c] # call[c]
  <2>1. Call(c) \/ Step(c)
    BY <1>2, CallChange
  <2>2. ~Call(c)
    BY CallStarts DEF Making, InCall
  <2>3. CASE LookUp(c)
    <3>1. lock' = c /\ informers' = informers /\ informers[call[c].type] = 0 /\ Goto(c, "making")
      BY <2>3, CallReturns DEF LookUp, Making, InCall
    <3>2. call'[c].type = call[c].type
      BY <2>3, LookUpCall DEF Making, InCall
    <3> QED  BY <3>1, <3>2
  <2>4. CASE NewInformer(c) \/ StartWithContext(c) \/ FinishShutdown(c) \/ ReportSynced(c)
    BY <2>4, CallReturns
    DEF NewInformer, StartWithContext, FinishShutdown, ReportSynced, Making, InCall
  <2>5. CASE MarkShutdown(c)
    BY <2>5, MarkShutdownCall DEF Making, InCall
  <2>6. CASE CollectStarted(c)
    BY <2>6 DEF CollectStarted, Making, InCall
  <2> QED  BY <2>1, <2>2, <2>3, <2>4, <2>5, <2>6 DEF Step
<1> QED  BY <1>1, <1>2

LEMMA OwnInformerStep ==
    Typed /\ LockInv /\ OwnInformer /\ OneInformerPerType /\ [Next]_vars
        => OwnInformer' /\ OneInformerPerType'
<1> SUFFICES ASSUME Typed, LockInv, OwnInformer, OneInformerPerType, [Next]_vars
             PROVE  OwnInformer' /\ OneInformerPerType'
  OBVIOUS
<1> USE DEF Typed
<1>1. ASSUME NEW c \in Callers, NewInformer(c) PROVE OwnInformer' /\ OneInformerPerType'
  <2> DEFINE t == call[c].type
  <2>1. t \in Types /\ informers[t] = 0
    BY <1>1, CallParts DEF NewInformer, LockInv, Making, InCall
  <2>2. /\ made' = made + 1 /\ informers' = [informers EXCEPT ![t] = made + 1]
        /\ given' = given \cup {<<t, made + 1>>}
        /\ UNCHANGED <<startedInformers, goroutines, ran>>
    BY <1>1 DEF NewInformer
  <2> HIDE DEF t
  <2>3. /\ informers'[t] = made + 1
        /\ \A u \in Types \ {t} : informers'[u] = informers[u] /\ informers[u] # made + 1
    BY <2>1, <2>2 DEF TypeOK
  <2>4. \A u, v \in Types : informers'[u] # 0 /\ informers'[u] = informers'[v] => u = v
    BY <2>3 DEF OwnInformer
  <2>5. t \notin startedInformers
    BY <2>1 DEF OwnInformer
  <2>6. \A u \in startedInformers' : informers'[u] = informers[u] /\ informers'[u] # 0
    BY <2>2, <2>3, <2>5 DEF OwnInformer, TypeOK
  <2>7. \A i \in ran' : \E u \in startedInformers' : informers'[u] = i
    BY <2>2, <2>6 DEF OwnInformer
  <2>8. \A g \in goroutines' : g.informer \in ran'
    BY <2>2 DEF OwnInformer
  <2>9. \A g \in given : g[1] \in Types \ {t} /\ g[2] = informers[g[1]]
    BY <2>1 DEF OneInformerPerType, TypeOK
  <2>10. OneInformerPerType'
    BY <2>2, <2>3, <2>9 DEF OneInformerPerType
  <2> QED  BY <2>4, <2>6, <2>7, <2>8, <2>10 DEF OwnInformer
<1>2. ASSUME NEW c \in Callers, StartWithContext(c) PROVE OwnInformer' /\ OneInformerPerType'
  <2>1. \A t \in Fresh : t \in Types /\ informers[t] # 0
    BY DEF Fresh
  <2>2. /\ \A t \in startedInformers' : informers'[t] # 0
        /\ \A i \in ran' : \E t \in startedInformers' : informers'[t] = i
    BY <1>2, <2>1, StartEffect DEF OwnInformer
  <2>3. \A g \in goroutines' : g.informer \in ran'
    <3> SUFFICES ASSUME NEW g \in goroutines' PROVE g.informer \in ran'
      OBVIOUS
    <3>1. CASE g \in goroutines
      BY <1>2, <3>1, StartEffect DEF OwnInformer
    <3>2. CASE \E t \in Fresh : g = [informer |-> informers[t], type |-> t,
                                     context |-> call[c].context]
      BY <1>2, <3>2, StartEffect
    <3> QED  BY <1>2, <3>1, <3>2, StartEffect
  <2> QED  BY <1>2, <2>2, <2>3, StartEffect DEF OwnInformer, OneInformerPerType
<1>3. ASSUME NEW c \in Callers, LookUp(c) PROVE OwnInformer' /\ OneInformerPerType'
  <2>1. OwnInformer'
    BY <1>3 DEF LookUp, OwnInformer, world
  <2>2. informers' = informers /\ \A g \in given' : g \in given \/ g[2] = informers[g[1]]
    BY <1>3 DEF LookUp
  <2> QED  BY <2>1, <2>2 DEF OneInformerPerType
<1>4. ASSUME UNCHANGED <<informers, startedInformers, ran, given>>, goroutines' \subseteq goroutines
      PROVE  OwnInformer' /\ OneInformerPerType'
  BY <1>4 DEF OwnInformer, OneInformerPerType
<1> QED
  BY <1>1, <1>2, <1>3, <1>4
  DEF Next, Step, vars, factory, world, Call, MarkShutdown, FinishShutdown, CollectStarted,
      ReportSynced, Cancel, FirstList, RunEnds

\* Nothing that runs is started again, and nothing is once the factory shuts down.
StartsOnceStep == \A g \in goroutines' \ goroutines : g.informer \notin ran /\ ~shuttingDown

LEMMA StartsOnce == Typed /\ OwnInformer /\ [Next]_vars => StartsOnceStep
<1> SUFFICES ASSUME Typed, OwnInformer, [Next]_vars, NEW g \in goroutines' \ goroutines
             PROVE  g.informer \notin ran /\ ~shuttingDown
  BY DEF StartsOnceStep
<1>1. PICK c \in Callers : StartWithContext(c)
  BY StartedChange
<1>2. PICK t \in Fresh : g = [informer |-> informers[t], type |-> t, context |-> call[c].context]
  BY <1>1, StartEffect
<1>3. ~shuttingDown /\ t \in Types /\ informers[t] # 0 /\ t \notin startedInformers
  BY <1>2 DEF Fresh
<1>4. ASSUME informers[t] \in ran PROVE FALSE
  <2>1. PICK u \in startedInformers : informers[u] = informers[t]
    BY <1>4 DEF OwnInformer
  <2> QED  BY <1>3, <2>1 DEF OwnInformer, Typed, TypeOK
<1> QED  BY <1>2, <1>3, <1>4

LEMMA ShutdownStep ==
    Typed /\ ShutdownInv /\ StoppedForGood /\ [Next]_vars => ShutdownInv' /\ StoppedForGood'
<1> SUFFICES ASSUME Typed, ShutdownInv, StoppedForGood, [Next]_vars
             PROVE  ShutdownInv' /\ StoppedForGood'
  OBVIOUS
<1> USE DEF Typed
<1>1. shuttingDown => shuttingDown'
  BY DEF Next, Step, vars, factory, Call, LookUp, NewInformer, StartWithContext, MarkShutdown,
         FinishShutdown, CollectStarted, ReportSynced, Cancel, FirstList, RunEnds
<1>2. shuttingDown => goroutines' \subseteq goroutines
  BY StartedChange, StartEffect DEF Fresh
<1>3. ShutdownInv'
  <2> SUFFICES ASSUME NEW c \in Callers, InCall(c, "Shutdown", "waiting")' PROVE shuttingDown'
    BY DEF ShutdownInv
  <2>1. CASE call'[c] = call[c]
    BY <1>1, <2>1 DEF ShutdownInv, InCall
  <2>2. CASE call'[c] # call[c]
    <3>1. Call(c) \/ Step(c)
      BY <2>2, CallChange
    <3>2. ~Call(c)
      BY CallStarts DEF InCall
    <3>3. CASE MarkShutdown(c)
      BY <3>3 DEF MarkShutdown
    <3>4. CASE LookUp(c)
      BY <3>4, LookUpCall DEF InCall
    <3>5. CASE NewInformer(c) \/ StartWithContext(c) \/ FinishShutdown(c) \/ ReportSynced(c)
      BY <3>5, CallReturns
      DEF NewInformer, StartWithContext, FinishShutdown, ReportSynced, InCall
    <3>6. CASE CollectStarted(c)
      BY <3>6 DEF CollectStarted, InCall
    <3> QED  BY <3>1, <3>2, <3>3, <3>4, <3>5, <3>6 DEF Step
  <2> QED  BY <2>1, <2>2
<1>4. StoppedForGood'
  <2> SUFFICES ASSUME released' PROVE goroutines' = {} /\ shuttingDown'
    BY DEF StoppedForGood
  <2>1. CASE released
    BY <1>1, <1>2, <2>1 DEF StoppedForGood
  <2>2. CASE ~released
    <3>1. PICK c \in Callers : FinishShutdown(c)
      BY <2>2
      DEF Next, Step, vars, factory, Call, LookUp, NewInformer, StartWithContext, MarkShutdown,
          CollectStarted, ReportSynced, Cancel, FirstList, RunEnds
    <3> QED  BY <3>1 DEF FinishShutdown, ShutdownInv
  <2> QED  BY <2>1, <2>2
<1> QED  BY <1>3, <1>4

LEMMA WaitStep == Typed /\ WaitInv /\ [Next]_vars => WaitInv'
<1> SUFFICES ASSUME Typed, WaitInv, [Next]_vars, NEW c \in Callers
             PROVE  /\ InCall(c, "Wait", "called")' =>
                         call'[c].before \subseteq startedInformers'
                    /\ InCall(c, "Wait", "waiting")' => call'[c].before \subseteq call'[c].types
  BY DEF WaitInv
<1> USE DEF Typed
<1>1. startedInformers \subseteq startedInformers'
  BY StartedChange, StartEffect
<1>2. CASE call'[c] = call[c]
  BY <1>1, <1>2 DEF WaitInv, InCall
<1>3. CASE call'[c] # call[c]
  <2>1. Call(c) \/ Step(c)
    BY <1>3, CallChange
  <2>2. CASE Call(c)
    BY <1>1, <2>2, CallStarts DEF InCall
  <2>3. CASE CollectStarted(c)
    <3>1. call'[c] = [op |-> "Wait", at |-> "waiting", context |-> call[c].context,
                      before |-> call[c].before, types |-> startedInformers]
      BY <2>3 DEF CollectStarted
    <3> QED  BY <2>3, <3>1 DEF CollectStarted, WaitInv, InCall
  <2>4. CASE LookUp(c)
    BY <2>4, LookUpCall DEF InCall
  <2>5. CASE MarkShutdown(c)
    BY <2>5, MarkShutdownCall DEF InCall
  <2>6. CASE NewInformer(c) \/ StartWithContext(c) \/ FinishShutdown(c) \/ ReportSynced(c)
    BY <2>6, CallReturns DEF NewInformer, StartWithContext, FinishShutdown, ReportSynced, InCall
  <2> QED  BY <2>1, <2>2, <2>3, <2>4, <2>5, <2>6 DEF Step
<1> QED  BY <1>2, <1>3

LEMMA SyncedStep ==
    Typed /\ LockInv /\ WaitInv /\ SyncedWhenItSaysSo /\ [Next]_vars => SyncedWhenItSaysSo'
<1> SUFFICES ASSUME Typed, LockInv, WaitInv, SyncedWhenItSaysSo, [Next]_vars, waited'.ok
             PROVE  /\ waited'.before \subseteq waited'.types
                    /\ \A t \in waited'.types : informers'[t] \in synced'
  BY DEF SyncedWhenItSaysSo
<1> USE DEF Typed
<1>1. synced \subseteq synced'
  BY DEF Next, Step, vars, factory, world, Call, LookUp, NewInformer, StartWithContext,
         MarkShutdown, FinishShutdown, CollectStarted, ReportSynced, Cancel, FirstList, RunEnds
<1>2. CASE waited' = waited
  <2>1. \A t \in waited.types : informers'[t] = informers[t]
    <3> SUFFICES ASSUME NEW t \in waited.types PROVE informers'[t] = informers[t]
      OBVIOUS
    <3>1. t \in Types /\ informers[t] # 0
      BY <1>2 DEF SyncedWhenItSaysSo, TypeOK
    <3>2. ASSUME NEW c \in Callers, NewInformer(c) PROVE informers'[t] = informers[t]
      <4>1. call[c].type \in Types /\ informers[call[c].type] = 0
        BY <3>2, CallParts DEF NewInformer, LockInv, Making, InCall
      <4> QED  BY <3>1, <3>2, <4>1 DEF NewInformer, TypeOK
    <3> QED  BY <3>2, InformersChange
  <2> QED  BY <1>1, <1>2, <2>1 DEF SyncedWhenItSaysSo
<1>3. CASE waited' # waited
  <2>1. PICK c \in Callers : ReportSynced(c)
    BY <1>3
    DEF Next, Step, vars, factory, world, Call, LookUp, NewInformer, StartWithContext,
        MarkShutdown, FinishShutdown, CollectStarted, Cancel, FirstList, RunEnds
  <2> DEFINE done == {t \in call[c].types : informers[t] \in synced}
  <2>2. waited' = [ok |-> done = call[c].types, before |-> call[c].before, types |-> done]
    BY <2>1 DEF ReportSynced
  <2>3. call[c].before \subseteq call[c].types
    BY <2>1 DEF ReportSynced, WaitInv
  <2>4. informers' = informers
    BY <2>1 DEF ReportSynced, factory
  <2> QED  BY <1>1, <2>2, <2>3, <2>4
<1> QED  BY <1>2, <1>3

-----------------------------------------------------------------------------

LEMMA IInvInit == Init => IInv
<1> SUFFICES ASSUME Init PROVE IInv
  OBVIOUS
<1>1. \A c \in Callers : call[c].op = "none"
  BY DEF Init, Idle
<1> QED
  BY <1>1, TypedInit
  DEF Init, IInv, LockInv, OwnInformer, OneInformerPerType, ShutdownInv, StoppedForGood,
      WaitInv, SyncedWhenItSaysSo, Making, InCall, Nothing

LEMMA IInvStep == IInv /\ [Next]_vars => IInv'
  BY TypedStep, LockStep, OwnInformerStep, ShutdownStep, WaitStep, SyncedStep DEF IInv

LEMMA IInvHolds == Spec => []IInv
  BY IInvInit, IInvStep, PTL DEF Spec

(***************************************************************************)
(* The factory's fields keep their types, and no informer syncs or runs    *)
(* that was not made.                                                      *)
(***************************************************************************)
THEOREM FactoryTyped == Spec => []TypeOK
<1>1. IInv => TypeOK
  BY DEF IInv, Typed
<1> QED  BY <1>1, IInvHolds, PTL

(***************************************************************************)
(* However many goroutines ask, a type has one informer, and all of them   *)
(* hold it (InformerFor).                                                  *)
(***************************************************************************)
THEOREM AllHoldTheOneInformer == Spec => []OneInformerPerType
<1>1. IInv => OneInformerPerType
  BY DEF IInv
<1> QED  BY <1>1, IInvHolds, PTL

(***************************************************************************)
(* Starting an informer that ran, or any once a shutdown is on its way,    *)
(* does not happen (StartWithContext).                                     *)
(***************************************************************************)
THEOREM EachIsStartedOnce == Spec => StartsOnceAndInTime
<1>1. IInv /\ [Next]_vars => [StartsOnceStep]_vars
  BY StartsOnce DEF IInv
<1> QED  BY <1>1, IInvHolds, PTL DEF Spec, StartsOnceAndInTime, StartsOnceStep

(***************************************************************************)
(* After the first Shutdown that returned, nothing runs (Shutdown).        *)
(***************************************************************************)
THEOREM ShutDownIsForGood == Spec => []StoppedForGood
<1>1. IInv => StoppedForGood
  BY DEF IInv
<1> QED  BY <1>1, IInvHolds, PTL

(***************************************************************************)
(* The answer of a wait for caches is true: all that was started before it *)
(* was called is synced when it returns no error                           *)
(* (WaitForCacheSyncWithContext).                                          *)
(***************************************************************************)
THEOREM WaitTellsTheTruth == Spec => []SyncedWhenItSaysSo
<1>1. IInv => SyncedWhenItSaysSo
  BY DEF IInv
<1> QED  BY <1>1, IInvHolds, PTL

-----------------------------------------------------------------------------
(***************************************************************************)
(* The wire codec.  Its recursive functions are instances of Loops.        *)
(***************************************************************************)
Len64Body(c, f, x) == IF x = 0 THEN 0 ELSE 1 + f[x \div 2]
Bits == INSTANCE Loops WITH Body <- Len64Body

VarintBody(c, f, v) == IF v < 128 THEN <<v>> ELSE <<(v % 128) + 128>> \o f[v \div 128]
Varints == INSTANCE Loops WITH Body <- VarintBody

RunBody(c, f, k) == IF k = 0 THEN <<>> ELSE f[k - 1] \o BytesField(c[1], c[2][k])
Runs == INSTANCE Loops WITH Body <- RunBody

SumBody(c, f, k) == IF k = 0 THEN 0 ELSE f[k - 1] + BytesSize(c[k])
Sums == INSTANCE Loops WITH Body <- SumBody

LEMMA BytesShape ==
    ASSUME NEW a \in Bytes
    PROVE  /\ Len(a) \in Nat /\ DOMAIN a = 1..Len(a) /\ a = [j \in 1..Len(a) |-> a[j]]
           /\ \A j \in 1..Len(a) : a[j] \in Byte /\ a[j] \in Nat
<1>1. a \in Seq(Byte)
  BY DEF Bytes
<1>2. \A b \in Byte : b \in Nat
  BY DEF Byte
<1>3. Len(a) \in Nat /\ DOMAIN a = 1..Len(a)
  BY <1>1
<1>4. \A j \in 1..Len(a) : a[j] \in Byte
  BY <1>1
<1>5. a = [j \in 1..Len(a) |-> a[j]]
  BY <1>1
<1> QED
  BY <1>2, <1>3, <1>4, <1>5

\* One byte string after another.
LEMMA Joined ==
    ASSUME NEW a \in Bytes, NEW b \in Bytes
    PROVE  /\ a \o b \in Bytes
           /\ Len(a \o b) = Len(a) + Len(b) /\ Len(a) \in Nat /\ Len(b) \in Nat
           /\ \A k \in 1..Len(a) : (a \o b)[k] = a[k]
           /\ \A k \in 1..Len(b) : (a \o b)[Len(a) + k] = b[k]
BY ConcatProperties DEF Bytes

-----------------------------------------------------------------------------
(* Numbers: their bits and their bytes.                                    *)

\* Len64 is what its recursion says.
LEMMA Len64Is ==
    \A x \in Nat : Len64[x] = IF x = 0 THEN 0 ELSE 1 + Len64[x \div 2]
<1>1. Bits!LooksBelow(0)
  <2> SUFFICES ASSUME NEW f, NEW g, NEW n \in Nat, \A m \in 0..(n - 1) : f[m] = g[m]
               PROVE  Len64Body(0, f, n) = Len64Body(0, g, n)
    BY DEF Bits!LooksBelow
  <2>1. n # 0 => n \div 2 \in 0..(n - 1)
    OBVIOUS
  <2> QED
    BY <2>1 DEF Len64Body
<1>2. \E f : f = [x \in Nat |-> Len64Body(0, f, x)]
  BY <1>1, Bits!LoopComputes
<1>3. \E f : f = [x \in Nat |-> IF x = 0 THEN 0 ELSE 1 + f[x \div 2]]
  BY <1>2 DEF Len64Body
<1>4. Len64 = [x \in Nat |-> IF x = 0 THEN 0 ELSE 1 + Len64[x \div 2]]
  BY <1>3 DEF Len64
<1> QED
  BY <1>4

LEMMA Len64Type == \A x \in Nat : Len64[x] \in Nat /\ (x > 0 => Len64[x] > 0)
<1> DEFINE T == {x \in Nat : Len64[x] \in Nat /\ (x > 0 => Len64[x] > 0)}
<1>1. ASSUME NEW n \in Nat, 0..(n - 1) \subseteq T PROVE n \in T
  <2>1. CASE n = 0
    BY <2>1, Len64Is
  <2>2. CASE n # 0
    <3>1. n \div 2 \in 0..(n - 1)
      BY <2>2
    <3>2. Len64[n \div 2] \in Nat
      BY <3>1, <1>1
    <3>3. Len64[n] = 1 + Len64[n \div 2]
      BY <2>2, Len64Is
    <3> QED
      BY <3>2, <3>3
  <2> QED
    BY <2>1, <2>2
<1>2. Nat \subseteq T
  <2> HIDE DEF T
  <2> QED
    BY <1>1, Bits!StrongInduction
<1> QED
  BY <1>2

\* One bit more for twice the number, seven for 128 times.
LEMMA Len64Above ==
    ASSUME NEW x \in Nat, x >= 128
    PROVE  Len64[x] = 7 + Len64[x \div 128]
<1> DEFINE a == x \div 2
           b == a \div 2
           c == b \div 2
           d == c \div 2
           e == d \div 2
           f == e \div 2
<1>1. a \in Nat /\ a >= 64 /\ Len64[x] = 1 + Len64[a]
  BY Len64Is
<1>2. b \in Nat /\ b >= 32 /\ Len64[a] = 1 + Len64[b]
  BY <1>1, Len64Is
<1>3. c \in Nat /\ c >= 16 /\ Len64[b] = 1 + Len64[c]
  BY <1>2, Len64Is
<1>4. d \in Nat /\ d >= 8 /\ Len64[c] = 1 + Len64[d]
  BY <1>3, Len64Is
<1>5. e \in Nat /\ e >= 4 /\ Len64[d] = 1 + Len64[e]
  BY <1>4, Len64Is
<1>6. f \in Nat /\ f >= 2 /\ Len64[e] = 1 + Len64[f]
  BY <1>5, Len64Is
<1>7. f \div 2 \in Nat /\ Len64[f] = 1 + Len64[f \div 2]
  BY <1>6, Len64Is
<1>8. f \div 2 = x \div 128
  OBVIOUS
<1>9. Len64[x \div 128] \in Nat
  BY Len64Type
<1> HIDE DEF a, b, c, d, e, f
<1> QED
  BY <1>1, <1>2, <1>3, <1>4, <1>5, <1>6, <1>7, <1>8, <1>9

LEMMA Len64Below ==
    ASSUME NEW x \in Nat, 0 < x, x < 128
    PROVE  Len64[x] \in 1..7
<1>1. ASSUME NEW n \in Nat, NEW b \in Nat, n = 0 \/ Len64[n \div 2] <= b PROVE Len64[n] <= b + 1
  BY <1>1, Len64Is, Len64Type, n \div 2 \in Nat
<1>2. \A n \in Nat : n < 1 => Len64[n] <= 0
  BY Len64Is
<1>3. \A n \in Nat : n < 2 => Len64[n] <= 1
  BY <1>1, <1>2
<1>4. \A n \in Nat : n < 4 => Len64[n] <= 2
  BY <1>1, <1>3
<1>5. \A n \in Nat : n < 8 => Len64[n] <= 3
  BY <1>1, <1>4
<1>6. \A n \in Nat : n < 16 => Len64[n] <= 4
  BY <1>1, <1>5
<1>7. \A n \in Nat : n < 32 => Len64[n] <= 5
  BY <1>1, <1>6
<1>8. \A n \in Nat : n < 64 => Len64[n] <= 6
  BY <1>1, <1>7
<1>9. \A n \in Nat : n < 128 => Len64[n] <= 7
  BY <1>1, <1>8
<1> QED
  BY <1>9, Len64Type

\* The size of a varint: one byte, and one for every seven bits more.
LEMMA SovIs ==
    ASSUME NEW x \in Nat
    PROVE  /\ sovGenerated(x) \in Nat
           /\ sovGenerated(x) = IF x < 128 THEN 1 ELSE 1 + sovGenerated(x \div 128)
<1>1. CASE x < 128
  <2>1. Len64[IF x = 0 THEN 1 ELSE x] \in 1..7
    BY <1>1, Len64Below
  <2> QED
    BY <1>1, <2>1 DEF sovGenerated
<1>2. CASE x >= 128
  <2>1. x \div 128 \in Nat /\ x \div 128 # 0 /\ x # 0
    BY <1>2
  <2>2. Len64[x] = 7 + Len64[x \div 128] /\ Len64[x \div 128] \in Nat
    BY <1>2, <2>1, Len64Above, Len64Type
  <2> QED
    BY <1>2, <2>1, <2>2 DEF sovGenerated
<1> QED
  BY <1>1, <1>2

\* What encodeVarintGenerated writes, byte by byte.
LEMMA EncodeIs ==
    \A x \in Nat : encodeVarintGenerated(x) =
        IF x < 128 THEN <<x>> ELSE <<(x % 128) + 128>> \o encodeVarintGenerated(x \div 128)
<1>1. Varints!LooksBelow(0)
  <2> SUFFICES ASSUME NEW f, NEW g, NEW n \in Nat, \A m \in 0..(n - 1) : f[m] = g[m]
               PROVE  VarintBody(0, f, n) = VarintBody(0, g, n)
    BY DEF Varints!LooksBelow
  <2>1. n >= 128 => n \div 128 \in 0..(n - 1)
    OBVIOUS
  <2> QED
    BY <2>1 DEF VarintBody
<1>2. \E f : f = [x \in Nat |-> VarintBody(0, f, x)]
  BY <1>1, Varints!LoopComputes
<1> DEFINE F == CHOOSE f : f = [v \in Nat |-> IF v < 128 THEN <<v>>
                                              ELSE <<(v % 128) + 128>> \o f[v \div 128]]
<1>3. \E f : f = [v \in Nat |-> IF v < 128 THEN <<v>> ELSE <<(v % 128) + 128>> \o f[v \div 128]]
  BY <1>2 DEF VarintBody
<1>4. F = [v \in Nat |-> IF v < 128 THEN <<v>> ELSE <<(v % 128) + 128>> \o F[v \div 128]]
  BY <1>3
<1>5. \A x : encodeVarintGenerated(x) = F[x]
  BY DEF encodeVarintGenerated
<1> HIDE DEF F
<1>6. \A v \in Nat : v \div 128 \in Nat
  OBVIOUS
<1> QED
  BY <1>4, <1>5, <1>6

LEMMA EncodesMore ==
    ASSUME NEW x \in Nat, x >= 128
    PROVE  encodeVarintGenerated(x) = <<(x % 128) + 128>> \o encodeVarintGenerated(x \div 128)
<1>1. encodeVarintGenerated(x) = IF x < 128 THEN <<x>>
                                 ELSE <<(x % 128) + 128>> \o encodeVarintGenerated(x \div 128)
  BY EncodeIs
<1>2. ~(x < 128)
  OBVIOUS
<1> QED
  BY <1>1, <1>2

\* The computed size is the written one.
LEMMA EncodeLen ==
    \A x \in Nat : /\ encodeVarintGenerated(x) \in Bytes
                   /\ Len(encodeVarintGenerated(x)) = sovGenerated(x)
<1> DEFINE T == {x \in Nat : /\ encodeVarintGenerated(x) \in Bytes
                             /\ Len(encodeVarintGenerated(x)) = sovGenerated(x)}
<1>1. ASSUME NEW n \in Nat, 0..(n - 1) \subseteq T PROVE n \in T
  <2>1. CASE n < 128
    <3>1. encodeVarintGenerated(n) = <<n>>
      BY <2>1, EncodeIs
    <3>2. n \in Byte
      BY <2>1 DEF Byte
    <3>3. sovGenerated(n) = 1
      BY <2>1, SovIs
    <3>4. <<n>> \in Bytes /\ Len(<<n>>) = 1
      BY <3>2 DEF Bytes
    <3> QED
      BY <3>1, <3>3, <3>4
  <2>2. CASE n >= 128
    <3>1. n \div 128 \in 0..(n - 1) /\ (n % 128) + 128 \in Byte
      BY <2>2 DEF Byte
    <3>2. n \div 128 \in T
      BY <3>1, <1>1
    <3> DEFINE more == encodeVarintGenerated(n \div 128)
               one == <<(n % 128) + 128>>
    <3>3. encodeVarintGenerated(n) = one \o more
      BY <2>2, EncodesMore
    <3>4. more \in Bytes /\ Len(more) = sovGenerated(n \div 128)
      BY <3>2
    <3>5. one \in Bytes /\ Len(one) = 1
      BY <3>1 DEF Bytes
    <3>6. sovGenerated(n) = 1 + sovGenerated(n \div 128)
      BY <2>2, SovIs
    <3> HIDE DEF more, one
    <3>7. one \o more \in Bytes /\ Len(one \o more) = Len(one) + Len(more)
      BY <3>4, <3>5, Joined
    <3> QED
      BY <3>3, <3>4, <3>5, <3>6, <3>7
  <2> QED
    BY <2>1, <2>2
<1>2. Nat \subseteq T
  <2> HIDE DEF T
  <2> QED
    BY <1>1, Bits!StrongInduction
<1> QED
  BY <1>2

-----------------------------------------------------------------------------
(* Fields, and as many of them as there are.                               *)

LEMMA SizeType ==
    \A l \in Nat : BytesSize(l) \in Nat /\ VarintSize(l) \in Nat
BY SovIs DEF BytesSize, VarintSize

LEMMA TagBytes == \A tag \in Byte : <<tag>> \in Bytes /\ Len(<<tag>>) = 1
BY DEF Bytes

LEMMA VarintFieldLen ==
    ASSUME NEW tag \in Byte, NEW v \in Nat
    PROVE  VarintField(tag, v) \in Bytes /\ Len(VarintField(tag, v)) = VarintSize(v)
<1>1. encodeVarintGenerated(v) \in Bytes /\ Len(encodeVarintGenerated(v)) = sovGenerated(v)
  BY EncodeLen
<1> DEFINE t == <<tag>>
           l == encodeVarintGenerated(v)
<1>2. t \in Bytes /\ Len(t) = 1
  BY TagBytes
<1>3. VarintField(tag, v) = t \o l /\ VarintSize(v) = 1 + sovGenerated(v)
  BY DEF VarintField, VarintSize
<1> HIDE DEF t, l
<1>4. t \o l \in Bytes /\ Len(t \o l) = Len(t) + Len(l)
  BY <1>1, <1>2, Joined DEF l
<1> QED
  BY <1>1, <1>2, <1>3, <1>4 DEF l

LEMMA BytesFieldLen ==
    ASSUME NEW tag \in Byte, NEW b \in Bytes
    PROVE  BytesField(tag, b) \in Bytes /\ Len(BytesField(tag, b)) = BytesSize(Len(b))
<1> DEFINE t == <<tag>>
           l == encodeVarintGenerated(Len(b))
<1>1. Len(b) \in Nat
  BY DEF Bytes
<1>2. l \in Bytes /\ Len(l) = sovGenerated(Len(b)) /\ sovGenerated(Len(b)) \in Nat
  BY <1>1, EncodeLen, SovIs
<1>3. t \in Bytes /\ Len(t) = 1
  BY TagBytes
<1>4. BytesField(tag, b) = (t \o l) \o b
  BY DEF BytesField
<1> HIDE DEF t, l
<1>5. t \o l \in Bytes /\ Len(t \o l) = Len(t) + Len(l)
  BY <1>2, <1>3, Joined
<1>6. BytesField(tag, b) \in Bytes
      /\ Len(BytesField(tag, b)) = 1 + sovGenerated(Len(b)) + Len(b)
  BY <1>1, <1>2, <1>3, <1>4, <1>5, Joined
<1> QED
  BY <1>1, <1>2, <1>6 DEF BytesSize

\* A run of fields is written one after another, and its size is summed so.
IsRun(tag, e, f) ==
    /\ f[0] = <<>>
    /\ \A k \in 1..Len(e) : f[k] = f[k - 1] \o BytesField(tag, e[k])

LEMMA BytesFieldsIs ==
    ASSUME NEW tag, NEW e, Len(e) \in Nat
    PROVE  \E f : IsRun(tag, e, f) /\ BytesFields(tag, e) = f[Len(e)]
<1> DEFINE c == <<tag, e>>
           F == CHOOSE f : f = [k \in Nat |->
                    IF k = 0 THEN <<>> ELSE f[k - 1] \o BytesField(tag, e[k])]
<1>1. Runs!LooksBelow(c)
  <2> SUFFICES ASSUME NEW f, NEW g, NEW n \in Nat, \A m \in 0..(n - 1) : f[m] = g[m]
               PROVE  RunBody(c, f, n) = RunBody(c, g, n)
    BY DEF Runs!LooksBelow
  <2>1. n # 0 => n - 1 \in 0..(n - 1)
    OBVIOUS
  <2> QED
    BY <2>1 DEF RunBody
<1>2. \E f : f = [k \in Nat |-> RunBody(c, f, k)]
  BY <1>1, Runs!LoopComputes
<1>3. \E f : f = [k \in Nat |-> IF k = 0 THEN <<>> ELSE f[k - 1] \o BytesField(tag, e[k])]
  BY <1>2 DEF RunBody
<1>4. F = [k \in Nat |-> IF k = 0 THEN <<>> ELSE F[k - 1] \o BytesField(tag, e[k])]
  BY <1>3, Zenon
<1>5. BytesFields(tag, e) = F[Len(e)]
  BY DEF BytesFields
<1> HIDE DEF F
<1>6. F[0] = <<>>
  BY <1>4
<1>7. ASSUME NEW k \in 1..Len(e) PROVE F[k] = F[k - 1] \o BytesField(tag, e[k])
  <2>1. k \in Nat /\ k # 0
    OBVIOUS
  <2> QED
    BY <1>4, <2>1
<1>8. IsRun(tag, e, F)
  BY <1>6, <1>7 DEF IsRun
<1> QED
  BY <1>5, <1>8

IsSum(s, f) ==
    /\ f[0] = 0
    /\ \A k \in 1..Len(s) : f[k] = f[k - 1] + BytesSize(s[k])

LEMMA SizesSumIs ==
    ASSUME NEW s, Len(s) \in Nat
    PROVE  \E f : IsSum(s, f) /\ SizesSum(s) = f[Len(s)]
<1> DEFINE F == CHOOSE f : f = [k \in Nat |->
                    IF k = 0 THEN 0 ELSE f[k - 1] + BytesSize(s[k])]
<1>1. Sums!LooksBelow(s)
  <2> SUFFICES ASSUME NEW f, NEW g, NEW n \in Nat, \A m \in 0..(n - 1) : f[m] = g[m]
               PROVE  SumBody(s, f, n) = SumBody(s, g, n)
    BY DEF Sums!LooksBelow
  <2>1. n # 0 => n - 1 \in 0..(n - 1)
    OBVIOUS
  <2> QED
    BY <2>1 DEF SumBody
<1>2. \E f : f = [k \in Nat |-> SumBody(s, f, k)]
  BY <1>1, Sums!LoopComputes
<1>3. \E f : f = [k \in Nat |-> IF k = 0 THEN 0 ELSE f[k - 1] + BytesSize(s[k])]
  BY <1>2 DEF SumBody
<1>4. F = [k \in Nat |-> IF k = 0 THEN 0 ELSE F[k - 1] + BytesSize(s[k])]
  BY <1>3
<1>5. SizesSum(s) = F[Len(s)]
  BY DEF SizesSum
<1> HIDE DEF F
<1>6. IsSum(s, F)
  BY <1>4 DEF IsSum
<1> QED
  BY <1>5, <1>6

\* s are the sizes of the encodings e.
SizesOf(s, e) == Len(s) = Len(e) /\ \A k \in 1..Len(e) : s[k] = Len(e[k])

LEMMA RunLen ==
    ASSUME NEW tag \in Byte, NEW e \in Seq(Bytes), NEW f, IsRun(tag, e, f),
           NEW s, SizesOf(s, e), NEW g, IsSum(s, g)
    PROVE  \A k \in 0..Len(e) : f[k] \in Bytes /\ Len(f[k]) = g[k] /\ g[k] \in Nat
<1> DEFINE T == {k \in Nat : k <= Len(e) => f[k] \in Bytes /\ Len(f[k]) = g[k] /\ g[k] \in Nat}
<1>1. 0 \in T
  <2>1. f[0] = <<>> /\ g[0] = 0
    BY DEF IsRun, IsSum
  <2>2. <<>> \in Bytes /\ Len(<<>>) = 0
    BY DEF Bytes
  <2> QED
    BY <2>1, <2>2
<1>2. ASSUME NEW k \in Nat, k \in T PROVE k + 1 \in T
  <2> SUFFICES ASSUME k + 1 <= Len(e)
               PROVE  /\ f[k + 1] \in Bytes /\ Len(f[k + 1]) = g[k + 1] /\ g[k + 1] \in Nat
    OBVIOUS
  <2>1. k + 1 \in 1..Len(e) /\ k + 1 \in 1..Len(s) /\ (k + 1) - 1 = k
    BY DEF SizesOf
  <2>2. f[k] \in Bytes /\ Len(f[k]) = g[k] /\ g[k] \in Nat
    BY <1>2
  <2>3. f[k + 1] = f[k] \o BytesField(tag, e[k + 1]) /\ g[k + 1] = g[k] + BytesSize(s[k + 1])
    BY <2>1 DEF IsRun, IsSum
  <2>4. e[k + 1] \in Bytes /\ s[k + 1] = Len(e[k + 1]) /\ Len(e[k + 1]) \in Nat
    BY <2>1 DEF SizesOf, Bytes
  <2>5. BytesField(tag, e[k + 1]) \in Bytes
        /\ Len(BytesField(tag, e[k + 1])) = BytesSize(s[k + 1])
    BY <2>4, BytesFieldLen
  <2>6. BytesSize(s[k + 1]) \in Nat
    BY <2>4, SizeType
  <2> DEFINE x == f[k]
             y == BytesField(tag, e[k + 1])
  <2>7. f[k + 1] = x \o y
    BY <2>3
  <2>8. x \in Bytes /\ y \in Bytes /\ Len(x) = g[k] /\ Len(y) = BytesSize(s[k + 1])
    BY <2>2, <2>5
  <2> HIDE DEF x, y
  <2>9. x \o y \in Bytes /\ Len(x \o y) = Len(x) + Len(y)
    BY <2>8, Joined
  <2> QED
    BY <2>2, <2>3, <2>6, <2>7, <2>8, <2>9
<1>3. Nat \subseteq T
  <2> HIDE DEF T
  <2> QED
    BY <1>1, <1>2, Bits!Induction
<1> QED
  BY <1>3

LEMMA BytesFieldsLen ==
    ASSUME NEW tag \in Byte, NEW e \in Seq(Bytes), NEW s, SizesOf(s, e)
    PROVE  /\ BytesFields(tag, e) \in Bytes
           /\ Len(BytesFields(tag, e)) = SizesSum(s) /\ SizesSum(s) \in Nat
<1>1. Len(e) \in Nat /\ Len(s) = Len(e)
  BY DEF SizesOf
<1>2. PICK f : IsRun(tag, e, f) /\ BytesFields(tag, e) = f[Len(e)]
  BY <1>1, BytesFieldsIs
<1>3. PICK g : IsSum(s, g) /\ SizesSum(s) = g[Len(s)]
  BY <1>1, SizesSumIs
<1> QED
  BY <1>1, <1>2, <1>3, RunLen

-----------------------------------------------------------------------------
(* The keys of a map, in any order and in theirs.                          *)

\* The sequence s without its member at j.
Without(s, j) == [i \in 1..(Len(s) - 1) |-> IF i < j THEN s[i] ELSE s[i + 1]]
\* What g says of the keys s.
Taken(g, s) == [i \in DOMAIN s |-> g[s[i]]]

LEMMA SumType ==
    ASSUME NEW s \in Seq(Nat), NEW f, IsSum(s, f)
    PROVE  \A k \in 0..Len(s) : f[k] \in Nat
<1> DEFINE T == {k \in Nat : k <= Len(s) => f[k] \in Nat}
<1>1. 0 \in T
  BY DEF IsSum
<1>2. ASSUME NEW k \in Nat, k \in T PROVE k + 1 \in T
  <2> SUFFICES ASSUME k + 1 <= Len(s) PROVE f[k + 1] \in Nat
    OBVIOUS
  <2>1. f[k] \in Nat
    BY <1>2
  <2>2. k + 1 \in 1..Len(s) /\ (k + 1) - 1 = k /\ s[k + 1] \in Nat
    OBVIOUS
  <2>3. f[k + 1] = f[k] + BytesSize(s[k + 1]) /\ BytesSize(s[k + 1]) \in Nat
    BY <2>2, SizeType DEF IsSum
  <2> QED
    BY <2>1, <2>3
<1>3. Nat \subseteq T
  <2> HIDE DEF T
  <2> QED
    BY <1>1, <1>2, Bits!Induction
<1> QED
  BY <1>3

LEMMA SumWithout ==
    ASSUME NEW s \in Seq(Nat), NEW j \in 1..Len(s)
    PROVE  SizesSum(s) = SizesSum(Without(s, j)) + BytesSize(s[j])
<1> DEFINE r == Without(s, j)
           n == Len(s) - 1
<1>1. n \in Nat /\ Len(s) \in Nat /\ Len(r) = n /\ j \in 1..(n + 1)
  BY DEF Without
<1>2. \A i \in 1..n : r[i] = IF i < j THEN s[i] ELSE s[i + 1]
  BY DEF Without
<1>3. \A i \in 1..Len(s) : s[i] \in Nat
  OBVIOUS
<1> HIDE DEF r
<1>4. PICK f : IsSum(s, f) /\ SizesSum(s) = f[Len(s)]
  BY <1>1, SizesSumIs
<1>5. PICK g : IsSum(r, g) /\ SizesSum(r) = g[Len(r)]
  BY <1>1, SizesSumIs
<1> DEFINE b == BytesSize(s[j])
<1>6. b \in Nat /\ (\A k \in 0..(n + 1) : f[k] \in Nat) /\ (\A k \in 0..n : g[k] \in Nat)
  <2>1. r \in Seq(Nat)
    BY <1>1, <1>2, <1>3 DEF r, Without
  <2>2. b \in Nat
    BY <1>1, <1>3, SizeType
  <2>3. \A k \in 0..Len(s) : f[k] \in Nat
    BY <1>4, SumType
  <2>4. \A k \in 0..Len(r) : g[k] \in Nat
    BY <1>5, <2>1, SumType
  <2> QED
    BY <1>1, <2>2, <2>3, <2>4
<1> HIDE DEF b
<1> DEFINE T == {k \in Nat : k <= n + 1 => IF k < j THEN f[k] = g[k] ELSE f[k] = g[k - 1] + b}
<1>7. 0 \in T
  BY <1>1, <1>4, <1>5 DEF IsSum
<1>8. ASSUME NEW k \in Nat, k \in T PROVE k + 1 \in T
  <2> SUFFICES ASSUME k + 1 <= n + 1
               PROVE  IF k + 1 < j THEN f[k + 1] = g[k + 1] ELSE f[k + 1] = g[k] + b
    OBVIOUS
  <2>1. IF k < j THEN f[k] = g[k] ELSE f[k] = g[k - 1] + b
    BY <1>8
  <2>2. k + 1 \in 1..Len(s) /\ (k + 1) - 1 = k
    BY <1>1
  <2>3. f[k + 1] = f[k] + BytesSize(s[k + 1])
    BY <1>4, <2>2 DEF IsSum
  <2>4. BytesSize(s[k + 1]) \in Nat
    BY <1>3, <2>2, SizeType
  <2>5. CASE k + 1 < j
    <3>1. k + 1 \in 1..Len(r) /\ r[k + 1] = s[k + 1]
      BY <1>1, <1>2, <2>5
    <3>2. g[k + 1] = g[k] + BytesSize(s[k + 1])
      BY <1>5, <2>2, <3>1 DEF IsSum
    <3> QED
      BY <1>1, <2>1, <2>3, <2>5, <3>2
  <2>6. CASE k + 1 = j
    <3>1. BytesSize(s[k + 1]) = b /\ f[k] = g[k] /\ k \in 0..n
      BY <1>1, <2>1, <2>6 DEF b
    <3> QED
      BY <2>3, <2>6, <3>1
  <2>7. CASE k + 1 > j
    <3>1. k \in 1..Len(r) /\ r[k] = s[k + 1]
      BY <1>1, <1>2, <2>7
    <3>2. g[k] = g[k - 1] + BytesSize(s[k + 1])
      BY <1>5, <3>1 DEF IsSum
    <3>3. f[k] = g[k - 1] + b
      BY <1>1, <2>1, <2>7
    <3>4. g[k - 1] \in Nat /\ k - 1 \in 0..n
      BY <1>1, <1>6, <3>1
    <3> QED
      <4>1. ~(k + 1 < j)
        BY <1>1, <2>7
      <4>2. f[k + 1] = (g[k - 1] + b) + BytesSize(s[k + 1])
        BY <2>3, <3>3
      <4>3. f[k + 1] = g[k] + b
        BY <1>6, <2>4, <3>2, <3>4, <4>2
      <4> QED
        BY <4>1, <4>3
  <2> QED
    BY <1>1, <2>5, <2>6, <2>7
<1>9. Nat \subseteq T
  <2> HIDE DEF T
  <2> QED
    BY <1>7, <1>8, Bits!Induction
<1>10. f[n + 1] = g[n] + b
  <2>1. n + 1 \in T /\ ~(n + 1 < j) /\ (n + 1) - 1 = n
    BY <1>1, <1>9
  <2> QED
    BY <2>1
<1> QED
  BY <1>1, <1>4, <1>5, <1>10 DEF r, b

LEMMA OrderWithout ==
    ASSUME NEW K, NEW s \in OrdersOf(K), NEW j \in 1..Len(s)
    PROVE  /\ Without(s, j) \in OrdersOf(K \ {s[j]})
           /\ Len(Without(s, j)) = Len(s) - 1 /\ Len(s) - 1 \in Nat
<1> DEFINE r == Without(s, j)
           n == Len(s) - 1
<1>1. /\ Len(s) \in Nat /\ n \in Nat /\ j \in 1..(n + 1) /\ Len(s) = n + 1 /\ DOMAIN s = 1..(n + 1)
      /\ \A i \in 1..(n + 1) : s[i] \in K
  BY DEF OrdersOf
<1>2. \A i, o \in 1..(n + 1) : s[i] = s[o] => i = o
  BY <1>1 DEF OrdersOf
<1>3. \A k \in K : \E i \in 1..(n + 1) : s[i] = k
  BY <1>1 DEF OrdersOf
<1>4. Len(r) = n /\ DOMAIN r = 1..n /\ \A i \in 1..n : r[i] = IF i < j THEN s[i] ELSE s[i + 1]
  BY <1>1 DEF Without
<1>5. r = [i \in 1..n |-> r[i]]
  BY DEF Without
<1> HIDE DEF r, n
<1>6. \A i \in 1..n : r[i] \in K \ {s[j]}
  BY <1>1, <1>2, <1>4
<1>7. r \in Seq(K \ {s[j]})
  BY <1>1, <1>5, <1>6
<1>8. ASSUME NEW k \in K \ {s[j]} PROVE \E i \in DOMAIN r : r[i] = k
  <2>1. PICK i \in 1..(n + 1) : s[i] = k
    BY <1>3
  <2>2. CASE i < j
    BY <1>1, <1>4, <2>1, <2>2
  <2>3. CASE i > j
    <3>1. i - 1 \in 1..n /\ ~(i - 1 < j) /\ (i - 1) + 1 = i
      BY <1>1, <2>3
    <3> QED
      BY <1>4, <2>1, <3>1
  <2> QED
    BY <1>1, <2>1, <2>2, <2>3
<1>9. \A i, o \in DOMAIN r : r[i] = r[o] => i = o
  BY <1>1, <1>2, <1>4
<1> QED
  BY <1>1, <1>4, <1>7, <1>8, <1>9 DEF OrdersOf, r, n

\* What all the keys take does not depend on their order.
LEMMA SumOfKeys ==
    ASSUME NEW K, NEW s \in OrdersOf(K), NEW t \in OrdersOf(K), NEW g,
           \A k \in K : g[k] \in Nat
    PROVE  SizesSum(Taken(g, s)) = SizesSum(Taken(g, t))
<1> DEFINE P(n) == \A L : (L \subseteq K) =>
                     \A u, v \in OrdersOf(L) :
                        Len(u) = n => SizesSum(Taken(g, u)) = SizesSum(Taken(g, v))
           T == {n \in Nat : P(n)}
<1>1. ASSUME NEW L, L \subseteq K, NEW u \in OrdersOf(L)
      PROVE  /\ Taken(g, u) \in Seq(Nat) /\ Len(Taken(g, u)) = Len(u) /\ Len(u) \in Nat
             /\ DOMAIN u = 1..Len(u)
             /\ \A i \in 1..Len(u) : Taken(g, u)[i] = g[u[i]] /\ u[i] \in L
  <2>1. u \in Seq(L)
    BY DEF OrdersOf
  <2>2. \A i \in 1..Len(u) : u[i] \in L /\ g[u[i]] \in Nat
    BY <1>1, <2>1
  <2>3. Len(u) \in Nat /\ DOMAIN u = 1..Len(u)
    BY <2>1
  <2>4. Taken(g, u) = [i \in 1..Len(u) |-> g[u[i]]]
    BY <2>3 DEF Taken
  <2> QED
    BY <2>2, <2>3, <2>4
<1>2. ASSUME NEW L, L \subseteq K, NEW u \in OrdersOf(L), NEW j \in 1..Len(u)
      PROVE  SizesSum(Taken(g, u)) = SizesSum(Taken(g, Without(u, j))) + BytesSize(g[u[j]])
  <2>1. Taken(g, u) \in Seq(Nat) /\ Len(Taken(g, u)) = Len(u) /\ Taken(g, u)[j] = g[u[j]]
    BY <1>1, <1>2
  <2>2. SizesSum(Taken(g, u)) = SizesSum(Without(Taken(g, u), j)) + BytesSize(g[u[j]])
    BY <2>1, SumWithout
  <2>3. Without(Taken(g, u), j) = Taken(g, Without(u, j))
    <3>1. Len(u) \in Nat /\ \A i \in 1..Len(u) : Taken(g, u)[i] = g[u[i]]
      BY <1>1, <1>2
    <3>2. Without(Taken(g, u), j) =
            [i \in 1..(Len(u) - 1) |-> IF i < j THEN g[u[i]] ELSE g[u[i + 1]]]
      <4>1. Without(Taken(g, u), j) =
              [i \in 1..(Len(u) - 1) |->
                  IF i < j THEN Taken(g, u)[i] ELSE Taken(g, u)[i + 1]]
        BY <2>1 DEF Without
      <4>2. \A i \in 1..(Len(u) - 1) : i \in 1..Len(u) /\ i + 1 \in 1..Len(u)
        BY <3>1
      <4>3. \A i \in 1..(Len(u) - 1) :
              Taken(g, u)[i] = g[u[i]] /\ Taken(g, u)[i + 1] = g[u[i + 1]]
        BY <3>1, <4>2
      <4> QED
        BY <4>1, <4>3
    <3>3. Taken(g, Without(u, j)) =
            [i \in 1..(Len(u) - 1) |-> IF i < j THEN g[u[i]] ELSE g[u[i + 1]]]
      BY DEF Without, Taken
    <3> QED
      BY <3>2, <3>3
  <2> QED
    BY <2>2, <2>3
<1>3. 0 \in T
  <2> SUFFICES ASSUME NEW L, L \subseteq K, NEW u \in OrdersOf(L), NEW v \in OrdersOf(L), Len(u) = 0
               PROVE  SizesSum(Taken(g, u)) = SizesSum(Taken(g, v))
    OBVIOUS
  <2>1. L = {}
    BY <1>1 DEF OrdersOf
  <2>4. DOMAIN u = {}
    <3>1. \A i \in DOMAIN u : u[i] \in L
      BY <1>1
    <3> QED
      BY <2>1, <3>1
  <2>5. DOMAIN v = {}
    <3>1. \A i \in DOMAIN v : v[i] \in L
      BY <1>1
    <3> QED
      BY <2>1, <3>1
  <2>2. DOMAIN u = {} /\ DOMAIN v = {}
    BY <2>4, <2>5
  <2>3. Taken(g, u) = Taken(g, v)
    BY <2>2 DEF Taken
  <2> QED
    BY <2>3
<1>4. ASSUME NEW n \in Nat, n \in T PROVE n + 1 \in T
  <2> SUFFICES ASSUME NEW L, L \subseteq K, NEW u \in OrdersOf(L), NEW v \in OrdersOf(L),
                      Len(u) = n + 1
               PROVE  SizesSum(Taken(g, u)) = SizesSum(Taken(g, v))
    OBVIOUS
  <2>1. n + 1 \in 1..Len(u) /\ u[n + 1] \in L
    <3>1. DOMAIN u = 1..Len(u) /\ \A i \in 1..Len(u) : u[i] \in L
      BY <1>1
    <3>2. n + 1 \in 1..(n + 1)
      OBVIOUS
    <3>3. n + 1 \in 1..Len(u)
      BY <3>2
    <3> QED
      BY <3>1, <3>3
  <2>2. PICK j \in 1..Len(v) : v[j] = u[n + 1]
    <3>1. \E j \in DOMAIN v : v[j] = u[n + 1]
      BY <2>1 DEF OrdersOf
    <3>2. DOMAIN v = 1..Len(v)
      BY <1>1
    <3> QED
      BY <3>1, <3>2
  <2> DEFINE M == L \ {u[n + 1]}
             u1 == Without(u, n + 1)
             v1 == Without(v, j)
  <2>3. u1 \in OrdersOf(M) /\ Len(u1) = n
    <3>1. u1 \in OrdersOf(M) /\ Len(u1) = Len(u) - 1
      BY <2>1, OrderWithout
    <3> QED
      BY <3>1
  <2>4. v1 \in OrdersOf(M)
    BY <2>2, OrderWithout
  <2>5. M \subseteq K
    OBVIOUS
  <2> HIDE DEF M, u1, v1
  <2>6. SizesSum(Taken(g, u1)) = SizesSum(Taken(g, v1))
    BY <1>4, <2>3, <2>4, <2>5
  <2>7. SizesSum(Taken(g, u)) = SizesSum(Taken(g, u1)) + BytesSize(g[u[n + 1]])
    BY <1>2, <2>1 DEF u1
  <2>8. SizesSum(Taken(g, v)) = SizesSum(Taken(g, v1)) + BytesSize(g[v[j]])
    BY <1>2 DEF v1
  <2> QED
    BY <2>2, <2>6, <2>7, <2>8
<1>5. Nat \subseteq T
  <2> HIDE DEF T
  <2> QED
    BY <1>3, <1>4, Bits!Induction
<1>6. Len(s) \in T
  BY <1>1, <1>5
<1> QED
  BY <1>6

\* StringLess is a strict order of the byte strings.
LEMMA LessTransitive ==
    ASSUME NEW a \in Bytes, NEW b \in Bytes, NEW c \in Bytes, StringLess(a, b), StringLess(b, c)
    PROVE  StringLess(a, c)
<1>1. PICK k \in 1..Len(b) : /\ \A j \in 1..(k - 1) : j <= Len(a) /\ a[j] = b[j]
                             /\ k > Len(a) \/ a[k] < b[k]
  BY DEF StringLess
<1>2. PICK l \in 1..Len(c) : /\ \A j \in 1..(l - 1) : j <= Len(b) /\ b[j] = c[j]
                             /\ l > Len(b) \/ b[l] < c[l]
  BY DEF StringLess
<1>3. /\ Len(a) \in Nat /\ Len(b) \in Nat /\ Len(c) \in Nat
      /\ (\A j \in 1..Len(a) : a[j] \in Int) /\ (\A j \in 1..Len(b) : b[j] \in Int)
      /\ (\A j \in 1..Len(c) : c[j] \in Int)
  BY BytesShape
<1>4. CASE k < l
  <2>1. k \in 1..Len(c) /\ \A j \in 1..(k - 1) : j <= Len(a) /\ a[j] = c[j]
    BY <1>1, <1>2, <1>3, <1>4
  <2>2. k > Len(a) \/ a[k] < c[k]
    BY <1>1, <1>2, <1>3, <1>4
  <2> QED
    BY <2>1, <2>2 DEF StringLess
<1>5. CASE k = l
  <2>1. \A j \in 1..(l - 1) : j <= Len(a) /\ a[j] = c[j]
    BY <1>1, <1>2, <1>3, <1>5
  <2>2. l > Len(a) \/ a[l] < c[l]
    BY <1>1, <1>2, <1>3, <1>5
  <2> QED
    BY <2>1, <2>2 DEF StringLess
<1>6. CASE l < k
  <2>1. \A j \in 1..(l - 1) : j <= Len(a) /\ a[j] = c[j]
    BY <1>1, <1>2, <1>3, <1>6
  <2>2. l > Len(a) \/ a[l] < c[l]
    BY <1>1, <1>2, <1>3, <1>6
  <2> QED
    BY <2>1, <2>2 DEF StringLess
<1> QED
  BY <1>3, <1>4, <1>5, <1>6

LEMMA LessIrreflexive == \A a \in Bytes : ~StringLess(a, a)
<1> SUFFICES ASSUME NEW a \in Bytes, StringLess(a, a) PROVE FALSE
  OBVIOUS
<1>1. PICK k \in 1..Len(a) : k > Len(a) \/ a[k] < a[k]
  BY DEF StringLess
<1>2. Len(a) \in Nat /\ a[k] \in Nat
  BY BytesShape
<1> QED
  BY <1>1, <1>2

LEMMA LessTotal ==
    ASSUME NEW a \in Bytes, NEW b \in Bytes, a # b
    PROVE  StringLess(a, b) \/ StringLess(b, a)
<1>1. /\ Len(a) \in Nat /\ Len(b) \in Nat
      /\ (\A j \in 1..Len(a) : a[j] \in Int) /\ (\A j \in 1..Len(b) : b[j] \in Int)
      /\ a = [j \in 1..Len(a) |-> a[j]] /\ b = [j \in 1..Len(b) |-> b[j]]
  BY BytesShape
<1> DEFINE D == {k \in Nat : /\ k > 0
                             /\ k > Len(a) \/ k > Len(b) \/ a[k] # b[k]}
<1>2. Len(a) + 1 \in D
  BY <1>1
<1>3. PICK k \in D : \A j \in D : k <= j
  <2> HIDE DEF D
  <2>1. D \subseteq Nat
    BY DEF D
  <2> QED
    BY <1>2, <2>1, Bits!Least
<1>4. k \in Nat /\ k > 0 /\ (k > Len(a) \/ k > Len(b) \/ a[k] # b[k])
  BY <1>3
<1>5. \A j \in 1..(k - 1) : j <= Len(a) /\ j <= Len(b) /\ a[j] = b[j]
  BY <1>1, <1>3, <1>4
<1>6. CASE k > Len(a) /\ k > Len(b)
  <2>1. Len(a) = k - 1 /\ Len(b) = k - 1
    BY <1>1, <1>4, <1>5, <1>6
  <2>2. a = b
    BY <1>1, <1>5, <2>1
  <2> QED
    BY <2>2
<1>7. CASE k > Len(a) /\ k <= Len(b)
  BY <1>1, <1>4, <1>5, <1>7 DEF StringLess
<1>8. CASE k <= Len(a) /\ k > Len(b)
  BY <1>1, <1>4, <1>5, <1>8 DEF StringLess
<1>9. CASE k <= Len(a) /\ k <= Len(b)
  <2>1. a[k] < b[k] \/ b[k] < a[k]
    BY <1>1, <1>4, <1>9
  <2> QED
    BY <1>1, <1>4, <1>5, <1>9, <2>1 DEF StringLess
<1> QED
  BY <1>1, <1>4, <1>6, <1>7, <1>8, <1>9

Ascending(s) == \A n, o \in DOMAIN s : n < o => StringLess(s[n], s[o])

\* The shape of an order: a sequence of the keys, each once.
LEMMA OrderShape ==
    ASSUME NEW K, NEW s \in OrdersOf(K)
    PROVE  /\ Len(s) \in Nat /\ DOMAIN s = 1..Len(s) /\ s = [n \in 1..Len(s) |-> s[n]]
           /\ \A n \in 1..Len(s) : s[n] \in K
           /\ \A k \in K : \E n \in 1..Len(s) : s[n] = k
           /\ \A n, o \in 1..Len(s) : s[n] = s[o] => n = o
<1>1. s \in Seq(K)
  BY DEF OrdersOf
<1>2. DOMAIN s = 1..Len(s)
  BY <1>1
<1> QED
  BY <1>1, <1>2 DEF OrdersOf

\* The keys of a map have one ascending order.
LEMMA OneAscending ==
    ASSUME NEW K, K \subseteq Bytes, NEW s \in OrdersOf(K), NEW t \in OrdersOf(K),
           Ascending(s), Ascending(t)
    PROVE  s = t
<1> DEFINE T == {k \in Nat : k \in 1..Len(s) => k \in 1..Len(t) /\ s[k] = t[k]}
<1>0. /\ Len(s) \in Nat /\ DOMAIN s = 1..Len(s) /\ Len(t) \in Nat /\ DOMAIN t = 1..Len(t)
      /\ s = [n \in 1..Len(s) |-> s[n]] /\ t = [n \in 1..Len(t) |-> t[n]]
  BY OrderShape
<1>1. ASSUME NEW k \in Nat, 0..(k - 1) \subseteq T PROVE k \in T
  <2> SUFFICES ASSUME k \in 1..Len(s) PROVE k \in 1..Len(t) /\ s[k] = t[k]
    OBVIOUS
  <2>1. \A j \in 1..(k - 1) : j \in 1..Len(t) /\ s[j] = t[j]
    BY <1>0, <1>1
  <2>2. PICK n \in 1..Len(t) : t[n] = s[k]
    BY OrderShape
  <2>3. ~(n < k)
    <3> SUFFICES ASSUME n < k PROVE FALSE
      OBVIOUS
    <3>1. s[n] = s[k] /\ n \in 1..Len(s)
      BY <1>0, <2>1, <2>2
    <3>2. n = k
      BY <3>1, OrderShape
    <3> QED
      BY <3>2
  <2>4. k \in 1..Len(t)
    BY <1>0, <2>2, <2>3
  <2>5. PICK o \in 1..Len(s) : s[o] = t[k]
    BY <2>4, OrderShape
  <2>6. ~(o < k)
    <3> SUFFICES ASSUME o < k PROVE FALSE
      OBVIOUS
    <3>1. t[o] = t[k] /\ o \in 1..Len(t)
      BY <1>0, <2>1, <2>5
    <3>2. o = k
      BY <2>4, <3>1, OrderShape
    <3> QED
      BY <3>2
  <2>7. s[k] \in Bytes /\ t[k] \in Bytes
    BY <2>4, OrderShape
  <2>8. s[k] = t[k] \/ StringLess(s[k], t[k])
    BY <1>0, <2>5, <2>6 DEF Ascending
  <2>9. s[k] = t[k] \/ StringLess(t[k], s[k])
    BY <1>0, <2>2, <2>3, <2>4 DEF Ascending
  <2> QED
    BY <2>4, <2>7, <2>8, <2>9, LessTransitive, LessIrreflexive
<1>2. Nat \subseteq T
  <2> HIDE DEF T
  <2> QED
    BY <1>1, Bits!StrongInduction
<1>3. Len(t) <= Len(s)
  <2> SUFFICES ASSUME Len(s) < Len(t) PROVE FALSE
    BY <1>0
  <2>1. Len(s) + 1 \in 1..Len(t)
    BY <1>0
  <2>2. PICK o \in 1..Len(s) : s[o] = t[Len(s) + 1]
    <3>1. t[Len(s) + 1] \in K
      BY <2>1, OrderShape
    <3>2. \A k \in K : \E n \in 1..Len(s) : s[n] = k
      BY OrderShape
    <3> QED
      BY <3>1, <3>2
  <2>3. o \in T
    BY <1>2, <2>2
  <2>4. o \in 1..Len(t) /\ t[o] = t[Len(s) + 1]
    BY <2>2, <2>3
  <2>5. o = Len(s) + 1
    BY <2>1, <2>4, OrderShape
  <2> QED
    BY <1>0, <2>5
<1>4. \A k \in 1..Len(s) : k \in 1..Len(t) /\ s[k] = t[k]
  BY <1>0, <1>2
<1>5. Len(s) > 0 => Len(s) \in 1..Len(t)
  BY <1>0, <1>4
<1>6. Len(s) = Len(t)
  <2>1. Len(s) \in Nat /\ Len(t) \in Nat
    BY <1>0
  <2> QED
    BY <2>1, <1>3, <1>5
<1> QED
  BY <1>0, <1>4, <1>6

LEMMA AscendingExists ==
    ASSUME NEW n \in Nat
    PROVE  \A K, s : K \subseteq Bytes /\ s \in OrdersOf(K) /\ Len(s) = n =>
             \E u \in OrdersOf(K) : Ascending(u) /\ Len(u) = n
<1> DEFINE P(m) == \A K, s : K \subseteq Bytes /\ s \in OrdersOf(K) /\ Len(s) = m =>
                     \E u \in OrdersOf(K) : Ascending(u) /\ Len(u) = m
           T == {m \in Nat : P(m)}
<1>1. 0 \in T
  <2> SUFFICES ASSUME NEW K, NEW s \in OrdersOf(K), Len(s) = 0
               PROVE  Ascending(s)
    OBVIOUS
  <2>1. DOMAIN s = {}
    BY OrderShape
  <2> QED
    BY <2>1 DEF Ascending
<1>2. ASSUME NEW m \in Nat, m \in T PROVE m + 1 \in T
  <2> SUFFICES ASSUME NEW K, K \subseteq Bytes, NEW s \in OrdersOf(K), Len(s) = m + 1
               PROVE  \E u \in OrdersOf(K) : Ascending(u) /\ Len(u) = m + 1
    OBVIOUS
  <2> DEFINE x == s[m + 1]
             L == K \ {x}
  <2>1. m + 1 \in 1..Len(s)
    OBVIOUS
  <2>2. Without(s, m + 1) \in OrdersOf(L) /\ Len(Without(s, m + 1)) = m
    BY <2>1, OrderWithout
  <2>3. x \in K /\ x \in Bytes /\ L \subseteq Bytes
    BY <2>1, OrderShape
  <2> HIDE DEF x
  <2>4. PICK u \in OrdersOf(L) : Ascending(u) /\ Len(u) = m
    BY <1>2, <2>2, <2>3
  <2> HIDE DEF L
  <2>5. /\ DOMAIN u = 1..m
        /\ \A i \in 1..m : u[i] \in K /\ u[i] # x /\ u[i] \in Bytes
        /\ \A k \in K : k # x => \E i \in 1..m : u[i] = k
        /\ \A i, o \in 1..m : u[i] = u[o] => i = o
    <3>1. \A i \in 1..m : u[i] \in L
      BY <2>4, OrderShape
    <3>2. \A k \in L : \E i \in 1..m : u[i] = k
      BY <2>4, OrderShape
    <3>3. DOMAIN u = 1..m /\ \A i, o \in 1..m : u[i] = u[o] => i = o
      BY <2>4, OrderShape
    <3> QED
      BY <2>3, <3>1, <3>2, <3>3 DEF L
  <2> DEFINE D == {i \in Nat : i \in 1..(m + 1) /\ (i = m + 1 \/ ~StringLess(u[i], x))}
  <2>6. m + 1 \in D
    OBVIOUS
  <2>7. PICK at \in D : \A i \in D : at <= i
    <3> HIDE DEF D
    <3>1. D \subseteq Nat
      BY DEF D
    <3> QED
      BY <2>6, <3>1, Bits!Least
  <2>8. at \in 1..(m + 1) /\ at \in Nat
    BY <2>7
  <2>9. ASSUME NEW i \in 1..m, i < at PROVE StringLess(u[i], x)
    <3>1. i \notin D
      BY <2>7, <2>8, <2>9
    <3> QED
      BY <3>1
  <2>10. ASSUME NEW i \in 1..m, i >= at PROVE StringLess(x, u[i])
    <3>1. StringLess(x, u[at])
      <4>1. at \in 1..m /\ ~StringLess(u[at], x)
        BY <2>7, <2>8, <2>10
      <4> QED
        BY <2>3, <2>5, <4>1, LessTotal
    <3>2. i = at \/ StringLess(u[at], u[i])
      BY <2>4, <2>5, <2>8, <2>10 DEF Ascending
    <3>3. u[at] \in Bytes /\ u[i] \in Bytes
      BY <2>5, <2>8, <2>10
    <3> QED
      BY <2>3, <3>1, <3>2, <3>3, LessTransitive
  <2> HIDE DEF D
  <2> DEFINE v == [i \in 1..(m + 1) |-> IF i < at THEN u[i] ELSE IF i = at THEN x ELSE u[i - 1]]
  <2>11. /\ DOMAIN v = 1..(m + 1)
         /\ v[at] = x
         /\ \A i \in 1..m : v[IF i < at THEN i ELSE i + 1] = u[i]
         /\ \A i \in 1..(m + 1) : i < at => i \in 1..m /\ v[i] = u[i]
         /\ \A i \in 1..(m + 1) : i > at => i - 1 \in 1..m /\ v[i] = u[i - 1]
    BY <2>8
  <2>12. v = [i \in 1..(m + 1) |-> v[i]]
    OBVIOUS
  <2> HIDE DEF v
  <2>13. \A i \in 1..(m + 1) : v[i] \in K
    <3> SUFFICES ASSUME NEW i \in 1..(m + 1) PROVE v[i] \in K
      OBVIOUS
    <3>1. i < at \/ i = at \/ i > at
      BY <2>8
    <3> QED
      BY <2>3, <2>5, <2>11, <3>1
  <2>14. v \in Seq(K) /\ Len(v) = m + 1
    BY <2>12, <2>13
  <2>15. ASSUME NEW i \in 1..(m + 1), NEW o \in 1..(m + 1), i < o
         PROVE  StringLess(v[i], v[o])
    <3>1. CASE o < at
      <4>1. v[i] = u[i] /\ v[o] = u[o] /\ i \in 1..m /\ o \in 1..m
        BY <2>8, <2>11, <2>15, <3>1
      <4> QED
        BY <2>4, <2>5, <2>15, <4>1 DEF Ascending
    <3>2. CASE o = at
      <4>1. v[i] = u[i] /\ v[o] = x /\ i \in 1..m
        BY <2>8, <2>11, <2>15, <3>2
      <4> QED
        BY <2>9, <2>15, <3>2, <4>1
    <3>3. CASE o > at /\ i < at
      <4>1. v[i] = u[i] /\ v[o] = u[o - 1] /\ i \in 1..m /\ o - 1 \in 1..m /\ o - 1 >= at
        BY <2>8, <2>11, <2>15, <3>3
      <4>2. StringLess(u[i], x) /\ StringLess(x, u[o - 1])
        BY <2>9, <2>10, <3>3, <4>1
      <4>3. u[i] \in Bytes /\ u[o - 1] \in Bytes
        BY <2>5, <4>1
      <4> QED
        BY <2>3, <4>1, <4>2, <4>3, LessTransitive
    <3>4. CASE o > at /\ i = at
      <4>1. v[i] = x /\ v[o] = u[o - 1] /\ o - 1 \in 1..m /\ o - 1 >= at
        BY <2>8, <2>11, <2>15, <3>4
      <4> QED
        BY <2>10, <4>1
    <3>5. CASE i > at
      <4>1. /\ v[i] = u[i - 1] /\ v[o] = u[o - 1] /\ i - 1 \in 1..m /\ o - 1 \in 1..m
            /\ i - 1 < o - 1
        BY <2>8, <2>11, <2>15, <3>5
      <4> QED
        BY <2>4, <2>5, <4>1 DEF Ascending
    <3> QED
      BY <2>8, <2>15, <3>1, <3>2, <3>3, <3>4, <3>5
  <2>16. Ascending(v)
    BY <2>11, <2>15 DEF Ascending
  <2>17. ASSUME NEW k \in K PROVE \E i \in DOMAIN v : v[i] = k
    <3>1. CASE k = x
      BY <2>8, <2>11, <3>1
    <3>2. CASE k # x
      <4>1. PICK i \in 1..m : u[i] = k
        BY <2>5, <3>2
      <4>2. (IF i < at THEN i ELSE i + 1) \in 1..(m + 1)
        BY <2>8
      <4> QED
        BY <2>11, <4>1, <4>2
    <3> QED
      BY <3>1, <3>2
  <2>18. ASSUME NEW i \in DOMAIN v, NEW o \in DOMAIN v, v[i] = v[o] PROVE i = o
    <3>1. i \in 1..(m + 1) /\ o \in 1..(m + 1) /\ v[i] \in Bytes
      BY <2>11, <2>13
    <3>2. ~(i < o) /\ ~(o < i)
      BY <2>15, <2>18, <3>1, LessIrreflexive
    <3> QED
      BY <3>1, <3>2
  <2>19. v \in OrdersOf(K)
    BY <2>14, <2>17, <2>18 DEF OrdersOf
  <2> QED
    BY <2>14, <2>16, <2>19
<1>3. Nat \subseteq T
  <2> HIDE DEF T
  <2> QED
    BY <1>1, <1>2, Bits!Induction
<1> QED
  BY <1>3

\* The sorted keys are the same keys, ascending.
LEMMA StringsIs ==
    ASSUME NEW K, K \subseteq Bytes, NEW s \in OrdersOf(K)
    PROVE  Strings(s) \in OrdersOf(K) /\ Ascending(Strings(s)) /\ Len(Strings(s)) = Len(s)
<1> DEFINE n == Len(s)
           Sorts(p) == \A i, o \in 1..n : i < o => ~StringLess(s[p[o]], s[p[i]])
<1>1. n \in Nat /\ DOMAIN s = 1..n
  BY OrderShape
<1>2. PICK u \in OrdersOf(K) : Ascending(u) /\ Len(u) = n
  BY <1>1, AscendingExists
<1> DEFINE q == [i \in 1..n |-> CHOOSE o \in 1..n : s[o] = u[i]]
<1>3. \A i \in 1..n : q[i] \in 1..n /\ s[q[i]] = u[i]
  <2> SUFFICES ASSUME NEW i \in 1..n PROVE q[i] \in 1..n /\ s[q[i]] = u[i]
    OBVIOUS
  <2>1. u[i] \in K
    BY <1>2, OrderShape
  <2>2. \E o \in 1..n : s[o] = u[i]
    BY <2>1, OrderShape
  <2> QED
    BY <2>2
<1>4. q \in [1..n -> 1..n]
  BY <1>3
<1> HIDE DEF q
<1>5. \A i \in 1..n : \E o \in 1..n : q[o] = i
  <2> SUFFICES ASSUME NEW i \in 1..n PROVE \E o \in 1..n : q[o] = i
    OBVIOUS
  <2>1. PICK o \in 1..n : u[o] = s[i]
    <3>1. s[i] \in K
      BY OrderShape
    <3> QED
      BY <1>2, <3>1, OrderShape
  <2>2. s[q[o]] = s[i] /\ q[o] \in 1..n
    BY <1>3, <2>1
  <2> QED
    BY <2>2, OrderShape
<1>6. \A i, o \in 1..n : i < o => ~StringLess(s[q[o]], s[q[i]])
  <2> SUFFICES ASSUME NEW i \in 1..n, NEW o \in 1..n, i < o, StringLess(u[o], u[i]) PROVE FALSE
    BY <1>3
  <2>1. StringLess(u[i], u[o]) /\ u[i] \in Bytes /\ u[o] \in Bytes
    BY <1>2, OrderShape DEF Ascending
  <2> QED
    BY <2>1, LessTransitive, LessIrreflexive
<1>7. \A i, o \in 1..n : q[i] = q[o] => i = o
  <2> SUFFICES ASSUME NEW i \in 1..n, NEW o \in 1..n, q[i] = q[o] PROVE i = o
    OBVIOUS
  <2>1. u[i] = u[o]
    BY <1>3
  <2> QED
    BY <1>2, <2>1, OrderShape
<1> DEFINE p == CHOOSE p \in Bijection(1..n, 1..n) : Sorts(p)
<1>8. /\ p \in [1..n -> 1..n] /\ Sorts(p)
      /\ \A i \in 1..n : \E o \in 1..n : p[o] = i
      /\ \A i, o \in 1..n : p[i] = p[o] => i = o
  <2>1. q \in Bijection(1..n, 1..n)
    BY <1>4, <1>5, <1>7 DEF Bijection, Injection, Surjection, IsInjective
  <2>2. Sorts(q)
    BY <1>6
  <2> HIDE DEF Sorts
  <2>3. p \in Bijection(1..n, 1..n) /\ Sorts(p)
    BY <2>1, <2>2
  <2> HIDE DEF p
  <2> QED
    BY <2>3 DEF Bijection, Injection, Surjection, IsInjective
<1>9. Strings(s) = [i \in 1..n |-> s[p[i]]]
  BY <1>1 DEF Strings
<1> HIDE DEF p
<1> DEFINE v == Strings(s)
<1>10. DOMAIN v = 1..n /\ \A i \in 1..n : v[i] = s[p[i]] /\ p[i] \in 1..n
  BY <1>8, <1>9
<1>11. \A i \in 1..n : v[i] \in K
  BY <1>10, OrderShape
<1>12. v \in Seq(K) /\ Len(v) = n
  BY <1>1, <1>9, <1>10, <1>11
<1> HIDE DEF v
<1>13. \A k \in K : \E i \in DOMAIN v : v[i] = k
  <2> SUFFICES ASSUME NEW k \in K PROVE \E i \in DOMAIN v : v[i] = k
    OBVIOUS
  <2>1. PICK j \in 1..n : s[j] = k
    BY OrderShape
  <2>2. PICK i \in 1..n : p[i] = j
    BY <1>8
  <2> QED
    BY <1>10, <2>1, <2>2
<1>14. \A i, o \in DOMAIN v : v[i] = v[o] => i = o
  <2> SUFFICES ASSUME NEW i \in 1..n, NEW o \in 1..n, v[i] = v[o] PROVE i = o
    BY <1>10
  <2>1. p[i] = p[o]
    BY <1>10, OrderShape
  <2> QED
    BY <1>8, <2>1
<1>15. v \in OrdersOf(K)
  BY <1>12, <1>13, <1>14 DEF OrdersOf
<1>16. Ascending(v)
  <2> SUFFICES ASSUME NEW i \in 1..n, NEW o \in 1..n, i < o PROVE StringLess(v[i], v[o])
    BY <1>10 DEF Ascending
  <2>1. v[i] \in Bytes /\ v[o] \in Bytes
    BY <1>11
  <2>2. v[i] # v[o]
    BY <1>10, <1>14, <1>1
  <2>3. ~StringLess(v[o], v[i])
    BY <1>8, <1>10
  <2> QED
    BY <2>1, <2>2, <2>3, LessTotal
<1> QED
  BY <1>12, <1>15, <1>16 DEF v

-----------------------------------------------------------------------------
(* Every message is as long as its size says.                              *)

LEMMA PointerShape ==
    ASSUME NEW S, NEW p \in Pointer(S)
    PROVE  /\ Len(p) \in {0, 1} /\ DOMAIN p = 1..Len(p) /\ \A k \in 1..Len(p) : p[k] \in S
           /\ p # <<>> => p[1] \in S /\ Len(p) = 1
<1>1. p \in Seq(S) /\ Len(p) \in Nat /\ Len(p) <= 1
  BY DEF Pointer
<1>2. Len(p) \in {0, 1} /\ DOMAIN p = 1..Len(p) /\ \A k \in 1..Len(p) : p[k] \in S
  <2>1. \A n \in Nat : n <= 1 => n \in {0, 1}
    OBVIOUS
  <2> DEFINE l == Len(p)
  <2>4. l \in Nat /\ l <= 1
    BY <1>1
  <2> HIDE DEF l
  <2>5. l \in {0, 1}
    BY <2>1, <2>4
  <2>2. DOMAIN p = 1..Len(p)
    BY <1>1
  <2>3. \A k \in 1..Len(p) : p[k] \in S
    BY <1>1
  <2> QED
    BY <2>5, <2>2, <2>3 DEF l
<1>3. p # <<>> => Len(p) # 0
  BY <1>1, EmptySeq
<1> QED
  BY <1>2, <1>3

LEMMA WordType == \A v \in Int : Word(v) \in Nat /\ Word(v) < WordSize
BY SizesAssumption DEF Word

LEMMA Int32Type == \A v \in Int32 : v \in Int
BY DEF Int32

LEMMA TagsAreBytes == {8, 10, 16, 18, 24, 26, 34, 42} \subseteq Byte
BY DEF Byte

LEMMA CapacityLen ==
    ASSUME NEW m \in TenantCapacities
    PROVE  TenantCapacityBytes(m) \in Bytes /\ Len(TenantCapacityBytes(m)) = TenantCapacitySize(m)
<1> DEFINE limit(tag, p) == IF p = <<>> THEN <<>> ELSE VarintField(tag, Word(p[1]))
           size(p) == IF p = <<>> THEN 0 ELSE VarintSize(Word(p[1]))
<1>1. ASSUME NEW tag \in Byte, NEW p \in Pointer(Int32)
      PROVE  limit(tag, p) \in Bytes /\ Len(limit(tag, p)) = size(p)
  <2>1. CASE p = <<>>
    BY <2>1 DEF Bytes
  <2>2. CASE p # <<>>
    <3>1. Word(p[1]) \in Nat
      BY <2>2, PointerShape, WordType, Int32Type
    <3> QED
      BY <2>2, <3>1, VarintFieldLen
  <2> QED
    BY <2>1, <2>2
<1> DEFINE a == limit(8, m.MaxNamespaces)
           b == limit(16, m.MaxClusterRoleBindings)
           c == limit(24, m.MaxCRDs)
<1>2. a \in Bytes /\ Len(a) = size(m.MaxNamespaces)
  BY <1>1, TagsAreBytes DEF TenantCapacities
<1>3. b \in Bytes /\ Len(b) = size(m.MaxClusterRoleBindings)
  BY <1>1, TagsAreBytes DEF TenantCapacities
<1>4. c \in Bytes /\ Len(c) = size(m.MaxCRDs)
  BY <1>1, TagsAreBytes DEF TenantCapacities
<1>5. TenantCapacityBytes(m) = (a \o b) \o c
  BY DEF TenantCapacityBytes
<1>6. TenantCapacitySize(m) =
        size(m.MaxNamespaces) + size(m.MaxClusterRoleBindings) + size(m.MaxCRDs)
  BY DEF TenantCapacitySize
<1> HIDE DEF a, b, c, size
<1>7. a \o b \in Bytes /\ Len(a \o b) = Len(a) + Len(b)
  BY <1>2, <1>3, Joined
<1>8. (a \o b) \o c \in Bytes /\ Len((a \o b) \o c) = Len(a \o b) + Len(c)
  BY <1>4, <1>7, Joined
<1> QED
  BY <1>2, <1>3, <1>4, <1>5, <1>6, <1>7, <1>8

LEMMA StatusLen ==
    ASSUME NEW m \in TenantStatuses
    PROVE  TenantStatusBytes(m) \in Bytes /\ Len(TenantStatusBytes(m)) = TenantStatusSize(m)
<1>1. (IF m.Online THEN 1 ELSE 0) \in Byte /\ 8 \in Byte
  BY DEF Byte
<1> QED
  BY <1>1 DEF TenantStatusBytes, TenantStatusSize, Bytes

\* Two fields, each with its bytes.
LEMMA TwoFieldsLen ==
    ASSUME NEW s \in Byte, NEW t \in Byte, NEW a \in Bytes, NEW b \in Bytes
    PROVE  /\ BytesField(s, a) \o BytesField(t, b) \in Bytes
           /\ Len(BytesField(s, a) \o BytesField(t, b)) = BytesSize(Len(a)) + BytesSize(Len(b))
<1> DEFINE x == BytesField(s, a)
           y == BytesField(t, b)
<1>1. x \in Bytes /\ Len(x) = BytesSize(Len(a))
  BY BytesFieldLen
<1>2. y \in Bytes /\ Len(y) = BytesSize(Len(b))
  BY BytesFieldLen
<1> HIDE DEF x, y
<1>3. x \o y \in Bytes /\ Len(x \o y) = Len(x) + Len(y)
  BY <1>1, <1>2, Joined
<1> QED
  BY <1>1, <1>2, <1>3 DEF x, y

LEMMA SuspensionLen ==
    ASSUME NEW m \in TenantSuspensions
    PROVE  /\ TenantSuspensionBytes(m) \in Bytes
           /\ Len(TenantSuspensionBytes(m)) = TenantSuspensionSize(m)
<1>1. m.Mode \in Bytes /\ m.Reason \in Bytes
  BY DEF TenantSuspensions
<1> DEFINE a == m.Mode
           b == m.Reason
<1>2. /\ TenantSuspensionBytes(m) = BytesField(10, a) \o BytesField(18, b)
      /\ TenantSuspensionSize(m) = BytesSize(Len(a)) + BytesSize(Len(b))
  BY DEF TenantSuspensionBytes, TenantSuspensionSize
<1> HIDE DEF a, b
<1>3. a \in Bytes /\ b \in Bytes /\ 10 \in Byte /\ 18 \in Byte
  BY <1>1, TagsAreBytes DEF a, b
<1> QED
  BY <1>2, <1>3, TwoFieldsLen

LEMMA EntryLen ==
    ASSUME NEW key \in Bytes, NEW value \in Bytes
    PROVE  EntryBytes(key, value) \in Bytes /\ Len(EntryBytes(key, value)) = EntrySize(key, value)
BY TwoFieldsLen, TagsAreBytes DEF EntryBytes, EntrySize

\* The keys that order ranges over, and the sorted ones.
LEMMA KeysInOrder ==
    ASSUME NEW order, IsMapOrder(order), NEW hard \in ResourceLists
    PROVE  /\ order[DOMAIN hard] \in OrdersOf(DOMAIN hard) /\ DOMAIN hard \subseteq Bytes
           /\ keysForHard(hard, order) \in OrdersOf(DOMAIN hard)
           /\ Ascending(keysForHard(hard, order))
           /\ \A k \in DOMAIN hard : hard[k] \in Bytes
<1>1. order[DOMAIN hard] \in OrdersOf(DOMAIN hard)
  BY DEF IsMapOrder
<1>2. DOMAIN hard \subseteq Bytes /\ hard \in [DOMAIN hard -> Bytes]
  BY ResourceListsAssumption
<1>3. \A k \in DOMAIN hard : hard[k] \in Bytes
  BY <1>2
<1> QED
  BY <1>1, <1>2, <1>3, StringsIs DEF keysForHard

\* One map has one encoding, whatever order it is ranged over in.
LEMMA KeysForHardAgree ==
    ASSUME NEW hard \in ResourceLists, NEW o, IsMapOrder(o), NEW p, IsMapOrder(p)
    PROVE  keysForHard(hard, o) = keysForHard(hard, p)
BY KeysInOrder, OneAscending

LEMMA QuotaLen ==
    ASSUME NEW m \in TenantQuotas, NEW sizing, IsMapOrder(sizing), NEW writing, IsMapOrder(writing)
    PROVE  /\ TenantQuotaBytes(m, writing) \in Bytes
           /\ Len(TenantQuotaBytes(m, writing)) = TenantQuotaSize(m, sizing)
<1>1. m.Hard \in Pointer(ResourceLists)
  BY DEF TenantQuotas
<1>2. CASE m.Hard = <<>>
  <2>1. TenantQuotaBytes(m, writing) = <<>> /\ TenantQuotaSize(m, sizing) = 0
    BY <1>2 DEF TenantQuotaBytes, TenantQuotaSize
  <2> QED
    BY <2>1 DEF Bytes
<1>3. CASE m.Hard # <<>>
  <2> DEFINE hard == m.Hard[1]
             K == DOMAIN hard
             s == keysForHard(hard, writing)
             t == sizing[K]
             g == [k \in K |-> EntrySize(k, hard[k])]
             e == [n \in DOMAIN s |-> EntryBytes(s[n], hard[s[n]])]
  <2>1. hard \in ResourceLists
    BY <1>1, <1>3, PointerShape
  <2>2. s \in OrdersOf(K) /\ t \in OrdersOf(K) /\ K \subseteq Bytes /\ \A k \in K : hard[k] \in Bytes
    BY <2>1, KeysInOrder
  <2>3. TenantQuotaBytes(m, writing) = BytesFields(10, e)
    BY <1>3 DEF TenantQuotaBytes, Each
  <2>4. TenantQuotaSize(m, sizing) =
          SizesSum([n \in DOMAIN t |-> EntrySize(t[n], hard[t[n]])])
    BY <1>3 DEF TenantQuotaSize, Each
  <2> HIDE DEF s, t, K, hard
  <2>5. DOMAIN s = 1..Len(s) /\ Len(s) \in Nat /\ \A n \in 1..Len(s) : s[n] \in K
    BY <2>2, OrderShape
  <2>6. DOMAIN t = 1..Len(t) /\ \A n \in 1..Len(t) : t[n] \in K
    BY <2>2, OrderShape
  <2>7. [n \in DOMAIN t |-> EntrySize(t[n], hard[t[n]])] = Taken(g, t)
    BY <2>6 DEF Taken
  <2>8. \A k \in K : EntryBytes(k, hard[k]) \in Bytes /\ Len(EntryBytes(k, hard[k])) = g[k]
    BY <2>2, EntryLen
  <2>9. \A k \in K : g[k] \in Nat
    BY <2>8, BytesShape
  <2> DEFINE l == Taken(g, s)
  <2>10. l = [n \in 1..Len(s) |-> g[s[n]]]
    BY <2>5 DEF Taken
  <2>11. e = [n \in 1..Len(s) |-> EntryBytes(s[n], hard[s[n]])]
    BY <2>5
  <2> HIDE DEF e, l, g
  <2>12. l = [n \in 1..Len(s) |-> l[n]] /\ e = [n \in 1..Len(s) |-> e[n]]
    BY <2>10, <2>11
  <2>13. \A n \in 1..Len(s) : e[n] \in Bytes /\ Len(e[n]) = l[n]
    BY <2>5, <2>8, <2>10, <2>11
  <2>14. BytesFields(10, e) \in Bytes /\ Len(BytesFields(10, e)) = SizesSum(l)
    <3>1. e \in Seq(Bytes) /\ Len(e) = Len(s) /\ Len(l) = Len(s)
      BY <2>5, <2>12, <2>13
    <3>2. SizesOf(l, e)
      BY <2>13, <3>1 DEF SizesOf
    <3>3. 10 \in Byte
      BY TagsAreBytes
    <3> QED
      BY <3>1, <3>2, <3>3, BytesFieldsLen
  <2>15. SizesSum(Taken(g, s)) = SizesSum(Taken(g, t))
    BY <2>2, <2>9, SumOfKeys
  <2> QED
    BY <2>3, <2>4, <2>7, <2>14, <2>15 DEF l
<1> QED
  BY <1>2, <1>3

\* e are encodings and l their lengths.
Encodes(e, l) ==
    \E n \in Nat : /\ e = [k \in 1..n |-> e[k]] /\ l = [k \in 1..n |-> l[k]]
                   /\ \A k \in 1..n : e[k] \in Bytes /\ Len(e[k]) = l[k]

LEMMA EncodesThem ==
    ASSUME NEW p \in Seq(Bytes)
    PROVE  Encodes(p, [k \in DOMAIN p |-> Len(p[k])])
<1>1. Len(p) \in Nat /\ DOMAIN p = 1..Len(p) /\ p = [k \in 1..Len(p) |-> p[k]]
  OBVIOUS
<1>2. \A k \in 1..Len(p) : p[k] \in Bytes
  OBVIOUS
<1> QED
  BY <1>1, <1>2 DEF Encodes

LEMMA RunOf ==
    ASSUME NEW tag \in Byte, NEW e, NEW l, Encodes(e, l)
    PROVE  /\ BytesFields(tag, e) \in Bytes
           /\ Len(BytesFields(tag, e)) = SizesSum(l)
<1>1. PICK n \in Nat : /\ e = [k \in 1..n |-> e[k]] /\ l = [k \in 1..n |-> l[k]]
                       /\ \A k \in 1..n : e[k] \in Bytes /\ Len(e[k]) = l[k]
  BY DEF Encodes
<1>2. e \in Seq(Bytes) /\ Len(e) = n
  <2>1. e \in [1..n -> Bytes]
    BY <1>1
  <2> QED
    BY <2>1
<1>3. Len(l) = n
  BY <1>1
<1>4. SizesOf(l, e)
  BY <1>1, <1>2, <1>3 DEF SizesOf
<1> QED
  BY <1>2, <1>4, BytesFieldsLen

LEMMA JoinedLen ==
    ASSUME NEW a, NEW b, NEW m, NEW n, a \in Bytes /\ Len(a) = m, b \in Bytes /\ Len(b) = n
    PROVE  a \o b \in Bytes /\ Len(a \o b) = m + n
BY Joined

LEMMA FiveJoined ==
    ASSUME NEW a, NEW b, NEW c, NEW d, NEW e, NEW la, NEW lb, NEW lc, NEW ld, NEW le,
           a \in Bytes /\ Len(a) = la, b \in Bytes /\ Len(b) = lb, c \in Bytes /\ Len(c) = lc,
           d \in Bytes /\ Len(d) = ld, e \in Bytes /\ Len(e) = le
    PROVE  /\ (((a \o b) \o c) \o d) \o e \in Bytes
           /\ Len((((a \o b) \o c) \o d) \o e) = (((la + lb) + lc) + ld) + le
<1> DEFINE ab == a \o b
           abc == ab \o c
           abcd == abc \o d
<1>1. ab \in Bytes /\ Len(ab) = la + lb
  BY Joined
<1> HIDE DEF ab
<1>2. abc \in Bytes /\ Len(abc) = (la + lb) + lc
  BY <1>1, Joined
<1> HIDE DEF abc
<1>3. abcd \in Bytes /\ Len(abcd) = ((la + lb) + lc) + ld
  BY <1>2, Joined
<1> HIDE DEF abcd
<1>4. abcd \o e \in Bytes /\ Len(abcd \o e) = (((la + lb) + lc) + ld) + le
  BY <1>3, Joined
<1> QED
  BY <1>4 DEF ab, abc, abcd

LEMMA SpecLen ==
    ASSUME NEW m \in TenantSpecs, NEW sizing, IsMapOrder(sizing), NEW writing, IsMapOrder(writing)
    PROVE  /\ TenantSpecBytes(m, writing) \in Bytes
           /\ Len(TenantSpecBytes(m, writing)) = TenantSpecSize(m, sizing)
<1>1. /\ m.ID \in Int32 /\ m.Quota \in TenantQuotas /\ m.Suspension \in Pointer(TenantSuspensions)
      /\ m.CredentialValidity \in Pointer(Bytes) /\ m.Capacity \in Pointer(TenantCapacities)
  BY DEF TenantSpecs
<1> DEFINE a == VarintField(8, Word(m.ID))
           b == BytesField(18, TenantQuotaBytes(m.Quota, writing))
           p == m.Suspension
           ps == [k \in DOMAIN p |-> TenantSuspensionBytes(p[k])]
           pl == [k \in DOMAIN p |-> TenantSuspensionSize(p[k])]
           q == m.CredentialValidity
           qs == [k \in DOMAIN q |-> q[k]]
           ql == [k \in DOMAIN q |-> Len(q[k])]
           r == m.Capacity
           rs == [k \in DOMAIN r |-> TenantCapacityBytes(r[k])]
           rl == [k \in DOMAIN r |-> TenantCapacitySize(r[k])]
           c == BytesFields(26, ps)
           d == BytesFields(34, q)
           e == BytesFields(42, rs)
           la == VarintSize(Word(m.ID))
           lb == BytesSize(TenantQuotaSize(m.Quota, sizing))
<1>2. TenantSpecBytes(m, writing) = (((a \o b) \o c) \o d) \o e
  BY DEF TenantSpecBytes, Each
<1>3. TenantSpecSize(m, sizing) = la + lb + SizesSum(pl) + SizesSum(ql) + SizesSum(rl)
  BY DEF TenantSpecSize, Each
<1>4. a \in Bytes /\ Len(a) = la
  <2>1. Word(m.ID) \in Nat /\ 8 \in Byte
    BY <1>1, WordType, Int32Type, TagsAreBytes
  <2> QED
    BY <2>1, VarintFieldLen
<1>5. b \in Bytes /\ Len(b) = lb
  <2>1. /\ TenantQuotaBytes(m.Quota, writing) \in Bytes
        /\ Len(TenantQuotaBytes(m.Quota, writing)) = TenantQuotaSize(m.Quota, sizing)
    BY <1>1, QuotaLen
  <2>2. 18 \in Byte
    BY TagsAreBytes
  <2> QED
    BY <2>1, <2>2, BytesFieldLen
<1>6. c \in Bytes /\ Len(c) = SizesSum(pl)
  <2>1. DOMAIN p = 1..Len(p) /\ Len(p) \in Nat /\ \A k \in 1..Len(p) : p[k] \in TenantSuspensions
    BY <1>1, PointerShape
  <2> HIDE DEF p
  <2>2. Encodes(ps, pl)
    BY <2>1, SuspensionLen, Zenon DEF Encodes
  <2>3. 26 \in Byte
    BY TagsAreBytes
  <2> QED
    BY <2>2, <2>3, RunOf
<1>7. d \in Bytes /\ Len(d) = SizesSum(ql)
  <2>1. DOMAIN q = 1..Len(q) /\ Len(q) \in Nat /\ \A k \in 1..Len(q) : q[k] \in Bytes
    BY <1>1, PointerShape
  <2>2. q = [k \in 1..Len(q) |-> q[k]]
    BY <1>1, <2>1 DEF Pointer
  <2> HIDE DEF q
  <2>3. Encodes(q, ql)
    BY <2>1, <2>2 DEF Encodes
  <2>4. 34 \in Byte
    BY TagsAreBytes
  <2> QED
    BY <2>3, <2>4, RunOf
<1>8. e \in Bytes /\ Len(e) = SizesSum(rl)
  <2>1. DOMAIN r = 1..Len(r) /\ Len(r) \in Nat /\ \A k \in 1..Len(r) : r[k] \in TenantCapacities
    BY <1>1, PointerShape
  <2> HIDE DEF r
  <2>2. Encodes(rs, rl)
    BY <2>1, CapacityLen, Zenon DEF Encodes
  <2>3. 42 \in Byte
    BY TagsAreBytes
  <2> QED
    BY <2>2, <2>3, RunOf
<1> DEFINE lc == SizesSum(pl)
           ld == SizesSum(ql)
           le == SizesSum(rl)
<1>9. c \in Bytes /\ Len(c) = lc
  BY <1>6
<1>10. d \in Bytes /\ Len(d) = ld
  BY <1>7
<1>11. e \in Bytes /\ Len(e) = le
  BY <1>8
<1>12. TenantSpecSize(m, sizing) = (((la + lb) + lc) + ld) + le
  BY <1>3
<1> HIDE DEF a, b, c, d, e, la, lb, lc, ld, le
<1> QED
  BY <1>2, <1>4, <1>5, <1>9, <1>10, <1>11, <1>12, FiveJoined

LEMMA ThreeFieldsLen ==
    ASSUME NEW a \in Bytes, NEW b \in Bytes, NEW c \in Bytes
    PROVE  /\ BytesField(10, a) \o BytesField(18, b) \o BytesField(26, c) \in Bytes
           /\ Len(BytesField(10, a) \o BytesField(18, b) \o BytesField(26, c)) =
                BytesSize(Len(a)) + BytesSize(Len(b)) + BytesSize(Len(c))
<1> DEFINE x == BytesField(10, a) \o BytesField(18, b)
           y == BytesField(26, c)
<1>1. 10 \in Byte /\ 18 \in Byte /\ 26 \in Byte
  BY TagsAreBytes
<1>2. x \in Bytes /\ Len(x) = BytesSize(Len(a)) + BytesSize(Len(b))
  BY <1>1, TwoFieldsLen
<1>3. y \in Bytes /\ Len(y) = BytesSize(Len(c))
  BY <1>1, BytesFieldLen
<1> HIDE DEF x, y
<1>4. x \o y \in Bytes /\ Len(x \o y) = BytesSize(Len(a)) + BytesSize(Len(b)) + BytesSize(Len(c))
  <2> DEFINE xl == BytesSize(Len(a)) + BytesSize(Len(b))
             yl == BytesSize(Len(c))
  <2>1. x \in Bytes /\ Len(x) = xl
    BY <1>2
  <2>2. y \in Bytes /\ Len(y) = yl
    BY <1>3
  <2> HIDE DEF xl, yl
  <2>3. x \o y \in Bytes /\ Len(x \o y) = xl + yl
    BY <2>1, <2>2, JoinedLen
  <2> QED
    BY <2>3 DEF xl, yl
<1> QED
  BY <1>4 DEF x, y

LEMMA TenantLen ==
    ASSUME NEW m \in Tenants, NEW sizing, IsMapOrder(sizing), NEW writing, IsMapOrder(writing)
    PROVE  TenantBytes(m, writing) \in Bytes /\ Len(TenantBytes(m, writing)) = TenantSize(m, sizing)
<1> DEFINE a == m.ObjectMeta
           b == TenantSpecBytes(m.Spec, writing)
           c == TenantStatusBytes(m.Status)
<1>1. m.ObjectMeta \in Bytes /\ m.Spec \in TenantSpecs /\ m.Status \in TenantStatuses
  BY DEF Tenants
<1>2. b \in Bytes /\ Len(b) = TenantSpecSize(m.Spec, sizing)
  BY <1>1, SpecLen
<1>3. c \in Bytes /\ Len(c) = TenantStatusSize(m.Status)
  BY <1>1, StatusLen
<1>4. TenantBytes(m, writing) = BytesField(10, a) \o BytesField(18, b) \o BytesField(26, c)
  BY DEF TenantBytes
<1>5. TenantSize(m, sizing) = BytesSize(Len(a)) + BytesSize(Len(b)) + BytesSize(Len(c))
  BY <1>2, <1>3 DEF TenantSize
<1> HIDE DEF a, b, c
<1>6. a \in Bytes
  BY <1>1 DEF a
<1> QED
  BY <1>2, <1>3, <1>4, <1>5, <1>6, ThreeFieldsLen

LEMMA TenantListLen ==
    ASSUME NEW m \in TenantLists, NEW sizing, IsMapOrder(sizing), NEW writing, IsMapOrder(writing)
    PROVE  /\ TenantListBytes(m, writing) \in Bytes
           /\ Len(TenantListBytes(m, writing)) = TenantListSize(m, sizing)
<1> DEFINE a == m.ListMeta
           p == m.Items
           e == [k \in DOMAIN p |-> TenantBytes(p[k], writing)]
           l == [k \in DOMAIN p |-> TenantSize(p[k], sizing)]
           x == BytesField(10, a)
           y == BytesFields(18, e)
<1>1. a \in Bytes /\ p \in Seq(Tenants)
  BY DEF TenantLists
<1>2. DOMAIN p = 1..Len(p) /\ Len(p) \in Nat /\ \A k \in 1..Len(p) : p[k] \in Tenants
  <2> HIDE DEF p
  <2>1. DOMAIN p = 1..Len(p) /\ Len(p) \in Nat
    BY <1>1
  <2>2. \A k \in 1..Len(p) : p[k] \in Tenants
    BY <1>1
  <2> QED
    BY <2>1, <2>2
<1>3. TenantListBytes(m, writing) = x \o y
  BY DEF TenantListBytes, Each
<1>4. TenantListSize(m, sizing) = BytesSize(Len(a)) + SizesSum(l)
  BY DEF TenantListSize, Each
<1>5. 10 \in Byte /\ 18 \in Byte
  BY TagsAreBytes
<1>6. x \in Bytes /\ Len(x) = BytesSize(Len(a))
  BY <1>1, <1>5, BytesFieldLen
<1>7. Encodes(e, l)
  <2> HIDE DEF p
  <2> QED
    BY <1>2, TenantLen, Zenon DEF Encodes
<1>8. y \in Bytes /\ Len(y) = SizesSum(l)
  <2> HIDE DEF e, l
  <2> QED
    BY <1>5, <1>7, RunOf
<1> HIDE DEF x, y, a, l
<1> QED
  BY <1>3, <1>4, <1>6, <1>8, JoinedLen

LEMMA ClusterSpecLen ==
    ASSUME NEW m \in ClusterResourceQuotaSpecs
    PROVE  /\ ClusterResourceQuotaSpecBytes(m) \in Bytes
           /\ Len(ClusterResourceQuotaSpecBytes(m)) = ClusterResourceQuotaSpecSize(m)
<1> DEFINE a == m.ResourceQuotaSpec
           p == m.NamepsaceSelector
           pl == [k \in DOMAIN p |-> Len(p[k])]
           q == m.Namespaces
           ql == [k \in DOMAIN q |-> Len(q[k])]
           x == BytesField(10, a)
           y == BytesFields(18, p)
           z == BytesFields(26, q)
           lx == BytesSize(Len(a))
           ly == SizesSum(pl)
           lz == SizesSum(ql)
<1>1. a \in Bytes /\ p \in Pointer(Bytes) /\ q \in Seq(Bytes)
  BY DEF ClusterResourceQuotaSpecs
<1>2. /\ ClusterResourceQuotaSpecBytes(m) = (x \o y) \o z
      /\ ClusterResourceQuotaSpecSize(m) = (lx + ly) + lz
  BY DEF ClusterResourceQuotaSpecBytes, ClusterResourceQuotaSpecSize, Each
<1>3. 10 \in Byte /\ 18 \in Byte /\ 26 \in Byte
  BY TagsAreBytes
<1>4. x \in Bytes /\ Len(x) = lx
  BY <1>1, <1>3, BytesFieldLen
<1>5. y \in Bytes /\ Len(y) = ly
  <2>1. p \in Seq(Bytes)
    BY <1>1 DEF Pointer
  <2> HIDE DEF p
  <2>2. Encodes(p, pl)
    BY <2>1, EncodesThem
  <2> QED
    BY <1>3, <2>2, RunOf
<1>6. z \in Bytes /\ Len(z) = lz
  <2> HIDE DEF q
  <2>1. Encodes(q, ql)
    BY <1>1, EncodesThem
  <2> QED
    BY <1>3, <2>1, RunOf
<1> DEFINE xy == x \o y
           lxy == lx + ly
<1>7. xy \in Bytes /\ Len(xy) = lxy
  <2> HIDE DEF x, y, lx, ly
  <2> QED
    BY <1>4, <1>5, JoinedLen
<1> HIDE DEF x, y, z, lx, ly, lz, a, p, q
<1>8. (x \o y) \o z \in Bytes /\ Len((x \o y) \o z) = (lx + ly) + lz
  <2>1. x \o y \in Bytes /\ Len(x \o y) = lx + ly
    BY <1>7
  <2> QED
    BY <2>1, <1>6, Joined
<1> QED
  BY <1>2, <1>8

LEMMA ClusterQuotaLen ==
    ASSUME NEW m \in ClusterResourceQuotas
    PROVE  /\ ClusterResourceQuotaBytes(m) \in Bytes
           /\ Len(ClusterResourceQuotaBytes(m)) = ClusterResourceQuotaSize(m)
<1> DEFINE a == m.ObjectMeta
           b == ClusterResourceQuotaSpecBytes(m.Spec)
           c == ClusterResourceQuotaStatusBytes(m.Status)
<1>1. /\ m.ObjectMeta \in Bytes /\ m.Spec \in ClusterResourceQuotaSpecs
      /\ m.Status.ResourceQuotaStatus \in Bytes
  BY DEF ClusterResourceQuotas, ClusterResourceQuotaStatuses
<1>2. b \in Bytes /\ Len(b) = ClusterResourceQuotaSpecSize(m.Spec)
  BY <1>1, ClusterSpecLen
<1>3. c \in Bytes /\ Len(c) = ClusterResourceQuotaStatusSize(m.Status)
  BY <1>1, BytesFieldLen, TagsAreBytes
     DEF ClusterResourceQuotaStatusBytes, ClusterResourceQuotaStatusSize
<1>4. ClusterResourceQuotaBytes(m) = BytesField(10, a) \o BytesField(18, b) \o BytesField(26, c)
  BY DEF ClusterResourceQuotaBytes
<1>5. ClusterResourceQuotaSize(m) = BytesSize(Len(a)) + BytesSize(Len(b)) + BytesSize(Len(c))
  BY <1>2, <1>3 DEF ClusterResourceQuotaSize
<1> HIDE DEF a, b, c
<1>6. a \in Bytes
  BY <1>1 DEF a
<1> QED
  BY <1>2, <1>3, <1>4, <1>5, <1>6, ThreeFieldsLen

LEMMA ClusterListLen ==
    ASSUME NEW m \in ClusterResourceQuotaLists
    PROVE  /\ ClusterResourceQuotaListBytes(m) \in Bytes
           /\ Len(ClusterResourceQuotaListBytes(m)) = ClusterResourceQuotaListSize(m)
<1> DEFINE a == m.ListMeta
           p == m.Items
           e == [k \in DOMAIN p |-> ClusterResourceQuotaBytes(p[k])]
           l == [k \in DOMAIN p |-> ClusterResourceQuotaSize(p[k])]
           x == BytesField(10, a)
           y == BytesFields(18, e)
<1>1. a \in Bytes /\ p \in Seq(ClusterResourceQuotas)
  BY DEF ClusterResourceQuotaLists
<1>2. DOMAIN p = 1..Len(p) /\ Len(p) \in Nat /\ \A k \in 1..Len(p) : p[k] \in ClusterResourceQuotas
  <2> HIDE DEF p
  <2>1. DOMAIN p = 1..Len(p) /\ Len(p) \in Nat
    BY <1>1
  <2>2. \A k \in 1..Len(p) : p[k] \in ClusterResourceQuotas
    BY <1>1
  <2> QED
    BY <2>1, <2>2
<1>3. ClusterResourceQuotaListBytes(m) = x \o y
  BY DEF ClusterResourceQuotaListBytes, Each
<1>4. ClusterResourceQuotaListSize(m) = BytesSize(Len(a)) + SizesSum(l)
  BY DEF ClusterResourceQuotaListSize, Each
<1>5. 10 \in Byte /\ 18 \in Byte
  BY TagsAreBytes
<1>6. x \in Bytes /\ Len(x) = BytesSize(Len(a))
  BY <1>1, <1>5, BytesFieldLen
<1>7. Encodes(e, l)
  <2> HIDE DEF p
  <2> QED
    BY <1>2, ClusterQuotaLen, Zenon DEF Encodes
<1>8. y \in Bytes /\ Len(y) = SizesSum(l)
  <2> HIDE DEF e, l
  <2> QED
    BY <1>5, <1>7, RunOf
<1> HIDE DEF x, y, a, l
<1> QED
  BY <1>3, <1>4, <1>6, <1>8, JoinedLen

\* Size says, in whatever order it ranges over the maps, how many bytes are
\* written, in whatever order those are.
LEMMA BytesOfLen ==
    ASSUME NEW o \in Known, NEW sizing, IsMapOrder(sizing), NEW writing, IsMapOrder(writing)
    PROVE  BytesOf(o, writing) \in Bytes /\ Len(BytesOf(o, writing)) = SizeOf(o, sizing)
<1>1. CASE o.kind = "Tenant"
  <2>1. o.body \in Tenants
    BY <1>1 DEF Known
  <2>2. BytesOf(o, writing) = TenantBytes(o.body, writing) /\ SizeOf(o, sizing) = TenantSize(o.body, sizing)
    BY <1>1 DEF BytesOf, SizeOf
  <2> QED
    BY <2>1, <2>2, TenantLen
<1>2. CASE o.kind = "TenantList"
  <2>1. o.body \in TenantLists
    BY <1>2 DEF Known
  <2>2. /\ BytesOf(o, writing) = TenantListBytes(o.body, writing)
        /\ SizeOf(o, sizing) = TenantListSize(o.body, sizing)
    BY <1>2 DEF BytesOf, SizeOf
  <2> QED
    BY <2>1, <2>2, TenantListLen
<1>3. CASE o.kind = "ClusterResourceQuota"
  <2>1. o.body \in ClusterResourceQuotas
    BY <1>3 DEF Known
  <2>2. /\ BytesOf(o, writing) = ClusterResourceQuotaBytes(o.body)
        /\ SizeOf(o, sizing) = ClusterResourceQuotaSize(o.body)
    BY <1>3 DEF BytesOf, SizeOf
  <2> QED
    BY <2>1, <2>2, ClusterQuotaLen
<1>4. CASE o.kind = "ClusterResourceQuotaList"
  <2>1. o.body \in ClusterResourceQuotaLists
    BY <1>4 DEF Known
  <2>2. /\ BytesOf(o, writing) = ClusterResourceQuotaListBytes(o.body)
        /\ SizeOf(o, sizing) = ClusterResourceQuotaListSize(o.body)
    BY <1>4 DEF BytesOf, SizeOf
  <2> QED
    BY <2>1, <2>2, ClusterListLen
<1> QED
  BY <1>1, <1>2, <1>3, <1>4 DEF Known

-----------------------------------------------------------------------------
(* One object, one encoding.                                               *)

LEMMA QuotaBytesAgree ==
    ASSUME NEW m \in TenantQuotas, NEW o, IsMapOrder(o), NEW p, IsMapOrder(p)
    PROVE  TenantQuotaBytes(m, o) = TenantQuotaBytes(m, p)
<1>1. CASE m.Hard = <<>>
  BY <1>1 DEF TenantQuotaBytes
<1>2. CASE m.Hard # <<>>
  <2>1. m.Hard[1] \in ResourceLists
    BY <1>2, PointerShape DEF TenantQuotas
  <2>2. keysForHard(m.Hard[1], o) = keysForHard(m.Hard[1], p)
    BY <2>1, KeysForHardAgree
  <2> QED
    BY <2>2 DEF TenantQuotaBytes
<1> QED
  BY <1>1, <1>2

LEMMA TenantBytesAgree ==
    ASSUME NEW m \in Tenants, NEW o, IsMapOrder(o), NEW p, IsMapOrder(p)
    PROVE  TenantBytes(m, o) = TenantBytes(m, p)
<1>1. m.Spec \in TenantSpecs /\ m.Spec.Quota \in TenantQuotas
  BY DEF Tenants, TenantSpecs
<1>2. TenantQuotaBytes(m.Spec.Quota, o) = TenantQuotaBytes(m.Spec.Quota, p)
  BY <1>1, QuotaBytesAgree
<1>3. TenantSpecBytes(m.Spec, o) = TenantSpecBytes(m.Spec, p)
  BY <1>2 DEF TenantSpecBytes
<1> QED
  BY <1>3 DEF TenantBytes

LEMMA BytesOfAgree ==
    ASSUME NEW x \in Known, NEW o, IsMapOrder(o), NEW p, IsMapOrder(p)
    PROVE  BytesOf(x, o) = BytesOf(x, p)
<1>1. CASE x.kind = "Tenant"
  <2>1. x.body \in Tenants
    BY <1>1 DEF Known
  <2> QED
    BY <1>1, <2>1, TenantBytesAgree DEF BytesOf
<1>2. CASE x.kind = "TenantList"
  <2> DEFINE items == x.body.Items
  <2>1. items \in Seq(Tenants)
    BY <1>2 DEF Known, TenantLists
  <2>2. \A k \in DOMAIN items : items[k] \in Tenants
    <3> HIDE DEF items
    <3> QED
      BY <2>1
  <2>3. \A k \in DOMAIN items : TenantBytes(items[k], o) = TenantBytes(items[k], p)
    BY <2>2, TenantBytesAgree
  <2>4. [k \in DOMAIN items |-> TenantBytes(items[k], o)]
        = [k \in DOMAIN items |-> TenantBytes(items[k], p)]
    BY <2>3
  <2>5. TenantListBytes(x.body, o) = TenantListBytes(x.body, p)
    BY <2>4 DEF TenantListBytes, Each
  <2> QED
    BY <1>2, <2>5 DEF BytesOf
<1>3. CASE x.kind \in {"ClusterResourceQuota", "ClusterResourceQuotaList"}
  BY <1>3 DEF BytesOf
<1> QED
  BY <1>1, <1>2, <1>3 DEF Known

\* A buffer exactly as long as what is written holds just that.
LEMMA MarshalExact ==
    ASSUME NEW written \in Bytes, NEW size, size = Len(written)
    PROVE  Marshal(size, written) = written
<1> DEFINE n == Len(written)
           padding == [k \in 1..(n - n) |-> 0]
           whole == padding \o written
<1>1. n \in Nat /\ written = [k \in 1..n |-> written[k]] /\ written \in Seq(Byte)
  BY BytesShape DEF Bytes
<1>2. padding = <<>>
  <2>1. 1..(n - n) = {}
    BY <1>1
  <2> QED
    BY <2>1
<1>3. whole = written
  <2> HIDE DEF padding
  <2> QED
    BY <1>1, <1>2
<1>4. Marshal(size, written) = SubSeq(whole, 1, n)
  <2>1. ~(n > size)
    BY <1>1
  <2> QED
    BY <2>1 DEF Marshal
<1>5. SubSeq(written, 1, n) = written
  <2> HIDE DEF n
  <2>1. Len(written) = n
    BY DEF n
  <2> QED
    BY <1>1, <2>1
<1> QED
  BY <1>3, <1>4, <1>5

LEMMA EncodingIs ==
    ASSUME NEW o \in Known, NEW sizing, IsMapOrder(sizing), NEW writing, IsMapOrder(writing)
    PROVE  Encoding(o, sizing, writing) = BytesOf(o, writing)
BY BytesOfLen, MarshalExact DEF Encoding

-----------------------------------------------------------------------------
(* The sender.                                                             *)

\* Whatever the receiver holds and the network did, an object that arrives as it
\* was sent is the encoding of the object sent, and no encoding panics.
StreamInv ==
    /\ sent \in Objects
    /\ data \in Bytes
    /\ how = "whole" => \E writing \in MapOrders : data = BytesOf(sent, writing)

LEMMA ObjectsKnown == \A o \in Objects : o \in Known
BY StreamAssumption

LEMMA OrdersKnown == \A order \in MapOrders : IsMapOrder(order)
BY StreamAssumption

LEMMA FieldsKnown == \A field \in NewFields : field \in Bytes
BY StreamAssumption

LEMMA BytesNoPanic == Panic \notin Bytes
<1>1. -1 \notin Byte
  BY DEF Byte
<1>2. ASSUME Panic \in Bytes PROVE FALSE
  <2>1. Len(Panic) = 1 /\ Panic[1] = -1
    BY DEF Panic
  <2>2. Panic[1] \in Byte
    BY <1>2, <2>1, BytesShape
  <2> QED
    BY <1>1, <2>1, <2>2
<1> QED
  BY <1>2

LEMMA StreamInvInit == StreamInit => StreamInv
<1> SUFFICES ASSUME StreamInit PROVE StreamInv
  OBVIOUS
<1>1. sent \in Objects /\ sent \in Known
  BY ObjectsKnown DEF StreamInit
<1>2. PICK sizing \in MapOrders, writing \in MapOrders : data = Encoding(sent, sizing, writing)
  BY DEF StreamInit
<1>3. IsMapOrder(sizing) /\ IsMapOrder(writing)
  BY OrdersKnown
<1>4. data = BytesOf(sent, writing)
  BY <1>1, <1>2, <1>3, EncodingIs
<1>5. data \in Bytes
  BY <1>1, <1>3, <1>4, BytesOfLen
<1> QED
  BY <1>1, <1>4, <1>5 DEF StreamInv

\* What a newer build sends is bytes too.
LEMMA NewerBytes ==
    ASSUME NEW o \in Objects, NEW field \in NewFields, NEW order \in MapOrders,
           NEW d \in Newer(o, field, order)
    PROVE  d \in Bytes
<1>1. field \in Bytes /\ o \in Known /\ IsMapOrder(order)
  BY FieldsKnown, ObjectsKnown, OrdersKnown
<1>2. BytesOf(o, order) \in Bytes
  BY <1>1, BytesOfLen
<1>3. CASE d \in {field \o BytesOf(o, order), BytesOf(o, order) \o field}
  <2>1. field \o BytesOf(o, order) \in Bytes
    BY <1>1, <1>2, Joined
  <2>2. BytesOf(o, order) \o field \in Bytes
    BY <1>1, <1>2, Joined
  <2> QED
    BY <1>3, <2>1, <2>2
<1>4. CASE /\ o.kind = "Tenant"
           /\ d = BytesField(10, o.body.ObjectMeta)
                  \o BytesField(18, field \o TenantSpecBytes(o.body.Spec, order))
                  \o BytesField(26, TenantStatusBytes(o.body.Status))
  <2> DEFINE a == o.body.ObjectMeta
             b == field \o TenantSpecBytes(o.body.Spec, order)
             c == TenantStatusBytes(o.body.Status)
  <2>1. a \in Bytes /\ o.body.Spec \in TenantSpecs /\ o.body.Status \in TenantStatuses
    BY <1>1, <1>4 DEF Known, Tenants
  <2>2. TenantSpecBytes(o.body.Spec, order) \in Bytes
    BY <1>1, <2>1, SpecLen
  <2>3. b \in Bytes
    BY <1>1, <2>2, Joined
  <2>4. c \in Bytes
    BY <2>1, StatusLen
  <2>5. d = BytesField(10, a) \o BytesField(18, b) \o BytesField(26, c)
    BY <1>4
  <2> HIDE DEF a, b, c
  <2> QED
    BY <2>1, <2>3, <2>4, <2>5, ThreeFieldsLen
<1> QED
  BY <1>3, <1>4 DEF Newer

LEMMA StreamInvStep == StreamInv /\ [StreamNext]_streamVars => StreamInv'
<1> SUFFICES ASSUME StreamInv, [StreamNext]_streamVars PROVE StreamInv'
  OBVIOUS
<1>1. CASE Decode
  BY <1>1 DEF Decode, StreamInv
<1>2. ASSUME NEW o \in Objects, NEW sizing \in MapOrders, NEW writing \in MapOrders,
             Encode(o, sizing, writing)
      PROVE  StreamInv'
  <2>1. o \in Known /\ IsMapOrder(sizing) /\ IsMapOrder(writing)
    BY ObjectsKnown, OrdersKnown
  <2>2. sent' = o /\ data' = BytesOf(o, writing)
    BY <1>2, <2>1, EncodingIs DEF Encode
  <2>3. data' \in Bytes
    BY <2>1, <2>2, BytesOfLen
  <2> QED
    BY <2>2, <2>3 DEF StreamInv
<1>3. ASSUME NEW field \in NewFields, NEW order \in MapOrders, Extend(field, order)
      PROVE  StreamInv'
  <2>1. sent' = sent /\ how' = "extended" /\ data' \in Newer(sent, field, order)
    BY <1>3 DEF Extend
  <2>2. data' \in Bytes
    BY <2>1, NewerBytes DEF StreamInv
  <2> QED
    BY <2>1, <2>2 DEF StreamInv
<1>4. ASSUME NEW n \in 0..(Len(data) - 1), Cut(n)
      PROVE  StreamInv'
  <2>1. sent' = sent /\ how' = "cut" /\ data' = SubSeq(data, 1, n)
    BY <1>4 DEF Cut
  <2>2. SubSeq(data, 1, n) \in Bytes
    <3>1. data \in Seq(Byte)
      BY DEF StreamInv, Bytes
    <3>2. n \in Nat /\ n <= Len(data)
      BY <3>1
    <3> QED
      BY <3>1, <3>2, SubSeqProperties DEF Bytes
  <2> QED
    BY <2>1, <2>2 DEF StreamInv
<1>5. CASE UNCHANGED streamVars
  BY <1>5 DEF streamVars, StreamInv
<1> QED
  BY <1>1, <1>2, <1>3, <1>4, <1>5 DEF StreamNext

\* No encoding runs below its buffer, and data is always bytes, whole, extended
\* or cut (MarshalToSizedBuffer of the Tenant and quota APIs).
THEOREM StreamInvHolds == StreamSpec => []StreamInv
BY StreamInvInit, StreamInvStep, PTL DEF StreamSpec

\* Size and MarshalToSizedBuffer agree on every object of the four kinds, of
\* every shape and size, in whatever orders the two range over the maps.
THEOREM ExactBuffer == StreamSpec => []FillsItsBuffer
<1>1. StreamInv => FillsItsBuffer
  <2> SUFFICES ASSUME StreamInv, how = "whole"
               PROVE  data # Panic /\ \A order \in MapOrders : Len(data) = SizeOf(sent, order)
    BY DEF FillsItsBuffer
  <2>1. PICK writing \in MapOrders : data = BytesOf(sent, writing)
    BY DEF StreamInv
  <2>2. data # Panic
    BY BytesNoPanic DEF StreamInv
  <2>3. ASSUME NEW order \in MapOrders PROVE Len(data) = SizeOf(sent, order)
    <3>1. sent \in Known /\ IsMapOrder(writing) /\ IsMapOrder(order)
      BY ObjectsKnown, OrdersKnown DEF StreamInv
    <3> QED
      BY <2>1, <3>1, BytesOfLen
  <2> QED
    BY <2>2, <2>3
<1> QED
  BY <1>1, StreamInvHolds, PTL

\* An object has one encoding, however many keys its map has and however the
\* runtime ranges over it: keysForHard is sorted (TenantQuota's marshaller).
THEOREM EncodingIsOne == StreamSpec => []OneEncoding
<1>1. StreamInv => OneEncoding
  <2> SUFFICES ASSUME StreamInv, how = "whole", NEW sizing \in MapOrders, NEW order \in MapOrders
               PROVE  data = Encoding(sent, sizing, order)
    BY DEF OneEncoding
  <2>1. PICK writing \in MapOrders : data = BytesOf(sent, writing)
    BY DEF StreamInv
  <2>2. sent \in Known /\ IsMapOrder(writing) /\ IsMapOrder(order) /\ IsMapOrder(sizing)
    BY ObjectsKnown, OrdersKnown DEF StreamInv
  <2>3. BytesOf(sent, writing) = BytesOf(sent, order)
    BY <2>2, BytesOfAgree
  <2> QED
    BY <2>1, <2>2, <2>3, EncodingIs
<1> QED
  BY <1>1, StreamInvHolds, PTL

-----------------------------------------------------------------------------
(* Bytes in bytes.                                                         *)

\* d has the bytes b at the offset at.
Holds(d, at, b) ==
    at + Len(b) <= Len(d) /\ \A k \in 1..Len(b) : d[at + k] = b[k]

LEMMA HoldsJoined ==
    ASSUME NEW d \in Bytes, NEW at \in Nat, NEW a \in Bytes, NEW b \in Bytes, Holds(d, at, a \o b)
    PROVE  /\ Holds(d, at, a)
           /\ Holds(d, at + Len(a), b)
<1> DEFINE ab == a \o b
           m == Len(a)
           n == Len(b)
<1>1. /\ m \in Nat /\ n \in Nat /\ Len(ab) = m + n
      /\ \A k \in 1..m : ab[k] = a[k]
      /\ \A k \in 1..n : ab[m + k] = b[k]
  BY Joined
<1>2. at + Len(ab) <= Len(d) /\ \A k \in 1..Len(ab) : d[at + k] = ab[k]
  BY DEF Holds
<1>3. Len(d) \in Nat
  BY BytesShape
<1> HIDE DEF ab, m, n
<1>4. at + m <= Len(d) /\ (at + m) + n <= Len(d)
  BY <1>1, <1>2, <1>3
<1>5. \A k \in 1..m : d[at + k] = a[k]
  BY <1>1, <1>2
<1>6. \A k \in 1..n : d[(at + m) + k] = b[k]
  <2> SUFFICES ASSUME NEW k \in 1..n PROVE d[(at + m) + k] = b[k]
    OBVIOUS
  <2>1. m + k \in 1..Len(ab) /\ at + (m + k) = (at + m) + k
    BY <1>1
  <2> QED
    BY <1>1, <1>2, <2>1
<1> QED
  BY <1>4, <1>5, <1>6 DEF Holds, m, n

LEMMA HoldsWhole ==
    ASSUME NEW d \in Bytes
    PROVE  Holds(d, 0, d)
<1>1. Len(d) \in Nat
  BY BytesShape
<1> QED
  BY <1>1 DEF Holds

-----------------------------------------------------------------------------
(* Numbers.                                                                *)

LEMMA WordSame == \A v \in Nat : v < WordSize => Word(v) = v
BY SizesAssumption DEF Word

LEMMA SignedSame ==
    ASSUME NEW size \in Nat, size > 0, NEW v \in Nat, v < size \div 2
    PROVE  Signed(v, size) = v
<1>1. v < size
  OBVIOUS
<1>2. v % size = v
  BY <1>1
<1> QED
  BY <1>2 DEF Signed

LEMMA SovGrows ==
    \A n \in Nat : \A m \in 0..n : sovGenerated(m) <= sovGenerated(n)
<1> DEFINE T == {n \in Nat : \A m \in 0..n : sovGenerated(m) <= sovGenerated(n)}
<1>1. ASSUME NEW n \in Nat, 0..(n - 1) \subseteq T PROVE n \in T
  <2> SUFFICES ASSUME NEW m \in 0..n PROVE sovGenerated(m) <= sovGenerated(n)
    OBVIOUS
  <2>1. m \in Nat /\ m <= n
    OBVIOUS
  <2>2. sovGenerated(m) \in Nat /\ sovGenerated(n) \in Nat
    BY <2>1, SovIs
  <2>3. CASE n < 128
    BY <2>1, <2>3, SovIs
  <2>4. CASE n >= 128 /\ m < 128
    <3>1. sovGenerated(m) = 1 /\ sovGenerated(n) = 1 + sovGenerated(n \div 128)
      BY <2>1, <2>4, SovIs
    <3>2. sovGenerated(n \div 128) \in Nat
      BY <2>4, SovIs
    <3> QED
      BY <3>1, <3>2
  <2>5. CASE n >= 128 /\ m >= 128
    <3>1. /\ sovGenerated(m) = 1 + sovGenerated(m \div 128)
          /\ sovGenerated(n) = 1 + sovGenerated(n \div 128)
      BY <2>1, <2>5, SovIs
    <3>2. n \div 128 \in 0..(n - 1) /\ m \div 128 \in 0..(n \div 128)
      BY <2>1, <2>5
    <3>3. sovGenerated(m \div 128) <= sovGenerated(n \div 128)
      BY <3>2, <1>1
    <3>4. sovGenerated(m \div 128) \in Nat /\ sovGenerated(n \div 128) \in Nat
      BY <3>2, SovIs
    <3> QED
      BY <3>1, <3>3, <3>4
  <2> QED
    BY <2>1, <2>3, <2>4, <2>5
<1>2. Nat \subseteq T
  <2> HIDE DEF T
  <2> QED
    BY <1>1, Bits!StrongInduction
<1> QED
  BY <1>2

\* The groups that a reader takes are enough for every word.
LEMMA GroupsEnough ==
    ASSUME NEW v \in Nat, v < WordSize
    PROVE  /\ Groups \in Nat /\ sovGenerated(v) \in Nat
           /\ sovGenerated(v) <= Groups
<1>1. WordSize - 1 \in Nat /\ v \in 0..(WordSize - 1)
  BY SizesAssumption
<1> QED
  BY <1>1, SovGrows, SovIs DEF Groups

-----------------------------------------------------------------------------
(* A varint is read as it was written.                                     *)

Varint(v, next) == [ok |-> TRUE, val |-> v, next |-> next]

GroupBody(c, f, left) ==
    LET d == c[1]
        at == c[2] + Groups - left
    IN IF left = 0 \/ at >= Len(d) THEN NotOk
       ELSE IF d[at + 1] < 128 THEN [ok |-> TRUE, val |-> d[at + 1], next |-> at + 1]
       ELSE Above(d[at + 1], f[left - 1])
ReadGroups == INSTANCE Loops WITH Body <- GroupBody

IsGroups(d, i, f) == \A left \in Nat : f[left] = GroupBody(<<d, i>>, f, left)

LEMMA ReadVarintIs ==
    ASSUME NEW d, NEW i
    PROVE  \E f : /\ IsGroups(d, i, f)
                  /\ ReadVarint(d, i) = IF f[Groups].ok THEN [f[Groups] EXCEPT !.val = Word(@)]
                                        ELSE NotOk
<1> DEFINE c == <<d, i>>
           F == CHOOSE f : f = [left \in Nat |->
                    LET at == i + Groups - left
                    IN IF left = 0 \/ at >= Len(d) THEN NotOk
                       ELSE IF d[at + 1] < 128
                            THEN [ok |-> TRUE, val |-> d[at + 1], next |-> at + 1]
                       ELSE Above(d[at + 1], f[left - 1])]
<1>1. ReadGroups!LooksBelow(c)
  <2> SUFFICES ASSUME NEW f, NEW g, NEW n \in Nat, \A m \in 0..(n - 1) : f[m] = g[m]
               PROVE  GroupBody(c, f, n) = GroupBody(c, g, n)
    BY DEF ReadGroups!LooksBelow
  <2>1. n # 0 => n - 1 \in 0..(n - 1)
    OBVIOUS
  <2> QED
    BY <2>1 DEF GroupBody
<1>2. \E f : f = [left \in Nat |-> GroupBody(c, f, left)]
  BY <1>1, ReadGroups!LoopComputes
<1>3. \E f : f = [left \in Nat |->
                    LET at == i + Groups - left
                    IN IF left = 0 \/ at >= Len(d) THEN NotOk
                       ELSE IF d[at + 1] < 128
                            THEN [ok |-> TRUE, val |-> d[at + 1], next |-> at + 1]
                       ELSE Above(d[at + 1], f[left - 1])]
  BY <1>2 DEF GroupBody
<1>4. F = [left \in Nat |->
                    LET at == i + Groups - left
                    IN IF left = 0 \/ at >= Len(d) THEN NotOk
                       ELSE IF d[at + 1] < 128
                            THEN [ok |-> TRUE, val |-> d[at + 1], next |-> at + 1]
                       ELSE Above(d[at + 1], F[left - 1])]
  BY <1>3
<1>5. ReadVarint(d, i) = IF F[Groups].ok THEN [F[Groups] EXCEPT !.val = Word(@)] ELSE NotOk
  BY DEF ReadVarint
<1> HIDE DEF F
<1>6. IsGroups(d, i, F)
  BY <1>4 DEF IsGroups, GroupBody
<1> QED
  BY <1>5, <1>6

\* However many groups may follow, at least the ones that do are read.
LEMMA GroupsRead ==
    ASSUME NEW d \in Bytes, NEW i \in Nat, NEW f, IsGroups(d, i, f)
    PROVE  \A v \in Nat : \A left \in Nat :
              (/\ left <= Groups /\ sovGenerated(v) <= left
               /\ Holds(d, i + Groups - left, encodeVarintGenerated(v)))
              => f[left] = Varint(v, i + Groups - left + sovGenerated(v))
<1> DEFINE P(v) == \A left \in Nat :
              (/\ left <= Groups /\ sovGenerated(v) <= left
               /\ Holds(d, i + Groups - left, encodeVarintGenerated(v)))
              => f[left] = Varint(v, i + Groups - left + sovGenerated(v))
           T == {v \in Nat : P(v)}
<1>0. Groups \in Nat /\ Len(d) \in Nat
  <2>1. 0 < WordSize
    BY SizesAssumption
  <2> QED
    BY <2>1, GroupsEnough, BytesShape
<1>1. ASSUME NEW v \in Nat, 0..(v - 1) \subseteq T PROVE v \in T
  <2> SUFFICES ASSUME NEW left \in Nat, left <= Groups, sovGenerated(v) <= left,
                      Holds(d, i + Groups - left, encodeVarintGenerated(v))
               PROVE  f[left] = Varint(v, i + Groups - left + sovGenerated(v))
    OBVIOUS
  <2> DEFINE at == i + Groups - left
             enc == encodeVarintGenerated(v)
  <2>1. at \in Nat
    BY <1>0
  <2>2. /\ Len(enc) = sovGenerated(v) /\ sovGenerated(v) \in Nat
        /\ sovGenerated(v) = IF v < 128 THEN 1 ELSE 1 + sovGenerated(v \div 128)
    BY EncodeLen, SovIs
  <2>3. v >= 128 => sovGenerated(v \div 128) \in Nat
    <3>1. v \div 128 \in Nat
      OBVIOUS
    <3> QED
      BY <3>1, SovIs
  <2>4. left # 0 /\ at + Len(enc) <= Len(d) /\ at < Len(d)
    BY <1>0, <2>1, <2>2, <2>3 DEF Holds
  <2>5. f[left] = IF d[at + 1] < 128 THEN Varint(d[at + 1], at + 1)
                  ELSE Above(d[at + 1], f[left - 1])
    <3>1. f[left] = GroupBody(<<d, i>>, f, left)
      BY DEF IsGroups
    <3>2. ~(left = 0 \/ at >= Len(d))
      BY <1>0, <2>1, <2>4
    <3> QED
      BY <3>1, <3>2 DEF GroupBody, Varint
  <2>6. CASE v < 128
    <3>1. enc = <<v>>
      BY <2>6, EncodeIs
    <3>2. d[at + 1] = v
      BY <3>1 DEF Holds
    <3> QED
      BY <2>2, <2>5, <2>6, <3>2
  <2>7. CASE v >= 128
    <3> DEFINE b == (v % 128) + 128
               one == <<b>>
               w == v \div 128
               more == encodeVarintGenerated(w)
    <3>1. enc = one \o more
      BY <2>7, EncodesMore
    <3>2. b \in Byte /\ w \in Nat /\ w \in 0..(v - 1)
      BY <2>7 DEF Byte
    <3>3. one \in Bytes /\ Len(one) = 1 /\ one[1] = b
      BY <3>2, TagBytes
    <3>4. more \in Bytes
      BY <3>2, EncodeLen
    <3>5. Holds(d, at, one \o more)
      BY <3>1
    <3>6. Holds(d, at, one) /\ Holds(d, at + 1, more)
      <4> HIDE DEF one, more, at, b
      <4>1. Holds(d, at, one)
        BY <2>1, <3>3, <3>4, <3>5, HoldsJoined
      <4>2. Holds(d, at + Len(one), more)
        BY <2>1, <3>3, <3>4, <3>5, HoldsJoined
      <4>3. at + Len(one) = at + 1
        BY <3>3
      <4> QED
        BY <4>1, <4>2, <4>3
    <3>7. d[at + 1] = b
      <4> HIDE DEF one, b, at
      <4>1. 1 \in 1..Len(one)
        BY <3>3
      <4> QED
        BY <3>3, <3>6, <4>1 DEF Holds
    <3>8. f[left - 1] = Varint(w, at + 1 + sovGenerated(w))
      <4>1. left - 1 \in Nat /\ left - 1 <= Groups /\ i + Groups - (left - 1) = at + 1
        BY <1>0, <2>4
      <4>2. sovGenerated(w) <= left - 1
        BY <2>2, <2>3, <2>7
      <4>3. P(w)
        BY <1>1, <3>2
      <4> HIDE DEF w, at
      <4> QED
        BY <3>6, <4>1, <4>2, <4>3
    <3>9. Above(b, Varint(w, at + 1 + sovGenerated(w))) = Varint(v, at + sovGenerated(v))
      <4>1. (128 * w) + (b % 128) = v
        BY <2>7
      <4>2. at + 1 + sovGenerated(w) = at + sovGenerated(v)
        BY <2>1, <2>2, <2>3, <2>7
      <4> HIDE DEF w, b, at
      <4> QED
        BY <4>1, <4>2, ZenonT(30) DEF Above, Varint
    <3>10. ~(b < 128)
      BY <2>7
    <3> QED
      BY <2>5, <3>7, <3>8, <3>9, <3>10
  <2> QED
    BY <2>6, <2>7
<1>2. Nat \subseteq T
  <2> HIDE DEF T
  <2> QED
    BY <1>1, Bits!StrongInduction
<1> QED
  BY <1>2

LEMMA VarintWith ==
    ASSUME NEW v, NEW w, NEW n
    PROVE  [Varint(v, n) EXCEPT !.val = w] = Varint(w, n)
<1>1. [Varint(v, n) EXCEPT !.val = w] \in [ok : {TRUE}, val : {w}, next : {n}]
  BY DEF Varint
<1>2. ASSUME NEW r \in [ok : {TRUE}, val : {w}, next : {n}]
      PROVE  r = [ok |-> TRUE, val |-> w, next |-> n]
  OBVIOUS
<1> QED
  BY <1>1, <1>2 DEF Varint

LEMMA ReadsVarint ==
    ASSUME NEW d \in Bytes, NEW i \in Nat, NEW v \in Nat, v < WordSize,
           Holds(d, i, encodeVarintGenerated(v))
    PROVE  ReadVarint(d, i) = Varint(v, i + sovGenerated(v))
<1>1. PICK f : /\ IsGroups(d, i, f)
               /\ ReadVarint(d, i) = IF f[Groups].ok THEN [f[Groups] EXCEPT !.val = Word(@)]
                                     ELSE NotOk
  BY ReadVarintIs
<1>2. Groups \in Nat /\ sovGenerated(v) <= Groups /\ i + Groups - Groups = i
  BY GroupsEnough
<1>3. f[Groups] = Varint(v, i + sovGenerated(v))
  BY <1>1, <1>2, GroupsRead
<1>4. Word(v) = v
  BY WordSame
<1> DEFINE n == i + sovGenerated(v)
           r == Varint(v, n)
<1>5. r.ok /\ [r EXCEPT !.val = Word(@)] = Varint(Word(v), n)
  <2> HIDE DEF n
  <2>1. r.ok
    BY DEF Varint
  <2>2. r.val = v
    BY DEF Varint
  <2>3. [r EXCEPT !.val = Word(v)] = Varint(Word(v), n)
    BY VarintWith
  <2> HIDE DEF r
  <2>4. [r EXCEPT !.val = Word(@)] = [r EXCEPT !.val = Word(v)]
    BY <2>2
  <2> QED
    BY <2>1, <2>3, <2>4
<1> HIDE DEF n, r
<1>6. f[Groups] = r
  BY <1>3 DEF r, n
<1>7. ReadVarint(d, i) = Varint(Word(v), n)
  BY <1>1, <1>5, <1>6
<1> QED
  BY <1>4, <1>7 DEF n

-----------------------------------------------------------------------------
(* The same bytes inside other bytes: what is read of a field alone is     *)
(* read of it wherever it stands.                                          *)

LEMMA HeldByte ==
    ASSUME NEW d \in Bytes, NEW i \in Nat, NEW b \in Bytes, Holds(d, i, b),
           NEW at \in Nat, at < Len(b)
    PROVE  i + at < Len(d) /\ d[(i + at) + 1] = b[at + 1] /\ b[at + 1] \in Byte
<1>1. Len(b) \in Nat /\ Len(d) \in Nat
  BY BytesShape
<1>2. at + 1 \in 1..Len(b) /\ i + (at + 1) = (i + at) + 1
  BY <1>1
<1>3. b[at + 1] \in Byte
  BY <1>2, BytesShape
<1>4. d[i + (at + 1)] = b[at + 1]
  BY <1>2 DEF Holds
<1> QED
  BY <1>1, <1>2, <1>3, <1>4 DEF Holds

\* A varint read of b, and the same one at i in other bytes.
SameVarint(r, s, i, above, b) ==
    \/ r = NotOk
    \/ \E v, n \in Nat : /\ r = Varint(v, n) /\ s = Varint(v, i + n)
                         /\ above < n /\ n <= Len(b)

LEMMA VarintOk == \A v, n : Varint(v, n).ok /\ Varint(v, n).val = v /\ Varint(v, n).next = n
BY DEF Varint

LEMMA NotOkIsNot == ~NotOk.ok /\ \A v, n : Varint(v, n) # NotOk
<1>1. ~NotOk.ok
  BY DEF NotOk
<1> QED
  BY <1>1, VarintOk

LEMMA GroupsSame ==
    ASSUME NEW d \in Bytes, NEW i \in Nat, NEW b \in Bytes, Holds(d, i, b), NEW j \in Nat,
           NEW f, IsGroups(b, j, f), NEW g, IsGroups(d, i + j, g)
    PROVE  \A left, at \in Nat : left <= Groups /\ at + left = j + Groups =>
               SameVarint(f[left], g[left], i, at, b)
<1>0. Groups \in Nat
  <2>1. 0 < WordSize
    BY SizesAssumption
  <2> QED
    BY <2>1, GroupsEnough
<1> DEFINE P(left) == \A at \in Nat : left <= Groups /\ at + left = j + Groups =>
                          SameVarint(f[left], g[left], i, at, b)
           T == {left \in Nat : P(left)}
<1>1. 0 \in T
  <2>1. f[0] = GroupBody(<<b, j>>, f, 0)
    BY DEF IsGroups
  <2> QED
    BY <2>1 DEF GroupBody, SameVarint
<1>2. ASSUME NEW left \in Nat, left \in T PROVE left + 1 \in T
  <2> SUFFICES ASSUME NEW at \in Nat, left + 1 <= Groups, at + (left + 1) = j + Groups
               PROVE  SameVarint(f[left + 1], g[left + 1], i, at, b)
    OBVIOUS
  <2>1. /\ (i + j) + Groups - (left + 1) = i + at /\ j + Groups - (left + 1) = at
        /\ left + 1 # 0 /\ (left + 1) - 1 = left /\ left <= Groups /\ left \in Nat
        /\ at + 1 \in Nat /\ (at + 1) + left = j + Groups
    BY <1>0
  <2>2. f[left + 1] = IF at >= Len(b) THEN NotOk
                      ELSE IF b[at + 1] < 128 THEN Varint(b[at + 1], at + 1)
                      ELSE Above(b[at + 1], f[left])
    <3>1. f[left + 1] = GroupBody(<<b, j>>, f, left + 1)
      BY DEF IsGroups
    <3> QED
      BY <2>1, <3>1 DEF GroupBody, Varint
  <2>3. g[left + 1] = IF i + at >= Len(d) THEN NotOk
                      ELSE IF d[(i + at) + 1] < 128 THEN Varint(d[(i + at) + 1], (i + at) + 1)
                      ELSE Above(d[(i + at) + 1], g[left])
    <3>1. g[left + 1] = GroupBody(<<d, i + j>>, g, left + 1)
      BY DEF IsGroups
    <3> QED
      BY <2>1, <3>1 DEF GroupBody, Varint
  <2>4. SameVarint(f[left], g[left], i, at + 1, b)
    BY <1>2, <2>1
  <2>5. Len(b) \in Nat /\ Len(d) \in Nat
    BY BytesShape
  <2>6. CASE at >= Len(b)
    BY <2>2, <2>6 DEF SameVarint
  <2>7. CASE at < Len(b)
    <3> DEFINE y == b[at + 1]
    <3>1. i + at < Len(d) /\ d[(i + at) + 1] = y /\ y \in Nat
      <4>1. i + at < Len(d) /\ d[(i + at) + 1] = y /\ y \in Byte
        BY <2>7, HeldByte
      <4>2. \A z \in Byte : z \in Nat
        BY DEF Byte
      <4> QED
        BY <4>1, <4>2
    <3>2. f[left + 1] = IF y < 128 THEN Varint(y, at + 1) ELSE Above(y, f[left])
      BY <2>1, <2>2, <2>5, <2>7
    <3>3. g[left + 1] = IF y < 128 THEN Varint(y, i + (at + 1)) ELSE Above(y, g[left])
      BY <2>1, <2>3, <2>5, <3>1
    <3> HIDE DEF y
    <3>4. CASE y < 128
      <4>1. at < at + 1 /\ at + 1 <= Len(b) /\ at + 1 \in Nat
        BY <2>1, <2>5, <2>7
      <4> QED
        BY <3>1, <3>2, <3>3, <3>4, <4>1 DEF SameVarint
    <3>5. CASE ~(y < 128) /\ f[left] = NotOk
      <4>1. Above(y, f[left]) = NotOk
        BY <3>5, NotOkIsNot DEF Above
      <4> QED
        BY <3>2, <3>5, <4>1 DEF SameVarint
    <3>6. CASE ~(y < 128) /\ f[left] # NotOk
      <4>1. PICK v, n \in Nat : /\ f[left] = Varint(v, n) /\ g[left] = Varint(v, i + n)
                                /\ at + 1 < n /\ n <= Len(b)
        BY <2>4, <3>6 DEF SameVarint
      <4> DEFINE w == (128 * v) + (y % 128)
      <4>2. w \in Nat
        BY <3>1
      <4>3. \A m : Above(y, Varint(v, m)) = Varint(w, m)
        BY DEF Above, Varint
      <4>4. f[left + 1] = Varint(w, n) /\ g[left + 1] = Varint(w, i + n)
        BY <3>2, <3>3, <3>6, <4>1, <4>3
      <4>5. at < n
        BY <2>1, <4>1
      <4> QED
        BY <4>1, <4>2, <4>4, <4>5 DEF SameVarint
    <3> QED
      BY <3>4, <3>5, <3>6
  <2> QED
    BY <2>5, <2>6, <2>7
<1>3. Nat \subseteq T
  <2> HIDE DEF T
  <2> QED
    BY <1>1, <1>2, Bits!Induction
<1> QED
  BY <1>3

LEMMA VarintSame ==
    ASSUME NEW d \in Bytes, NEW i \in Nat, NEW b \in Bytes, Holds(d, i, b), NEW j \in Nat
    PROVE  SameVarint(ReadVarint(b, j), ReadVarint(d, i + j), i, j, b)
<1>1. PICK f : /\ IsGroups(b, j, f)
               /\ ReadVarint(b, j) = IF f[Groups].ok THEN [f[Groups] EXCEPT !.val = Word(@)]
                                     ELSE NotOk
  BY ReadVarintIs
<1>2. PICK g : /\ IsGroups(d, i + j, g)
               /\ ReadVarint(d, i + j) = IF g[Groups].ok THEN [g[Groups] EXCEPT !.val = Word(@)]
                                         ELSE NotOk
  BY ReadVarintIs
<1>3. Groups \in Nat
  <2>1. 0 < WordSize
    BY SizesAssumption
  <2> QED
    BY <2>1, GroupsEnough
<1>4. SameVarint(f[Groups], g[Groups], i, j, b)
  <2>1. Groups <= Groups
    BY <1>3
  <2> QED
    BY <1>1, <1>2, <1>3, <2>1, GroupsSame
<1>5. CASE f[Groups] = NotOk
  <2>1. ReadVarint(b, j) = NotOk
    BY <1>1, <1>5, NotOkIsNot
  <2> QED
    BY <2>1 DEF SameVarint
<1>6. CASE f[Groups] # NotOk
  <2>1. PICK v, n \in Nat : /\ f[Groups] = Varint(v, n) /\ g[Groups] = Varint(v, i + n)
                            /\ j < n /\ n <= Len(b)
    BY <1>4, <1>6 DEF SameVarint
  <2>2. \A m : [Varint(v, m) EXCEPT !.val = Word(@)] = Varint(Word(v), m)
    <3> SUFFICES ASSUME NEW m PROVE [Varint(v, m) EXCEPT !.val = Word(@)] = Varint(Word(v), m)
      OBVIOUS
    <3>1. [Varint(v, m) EXCEPT !.val = Word(v)] = Varint(Word(v), m)
      BY VarintWith
    <3>2. Varint(v, m).val = v
      BY VarintOk
    <3> QED
      BY <3>1, <3>2
  <2>3. ReadVarint(b, j) = Varint(Word(v), n)
    BY <1>1, <2>1, <2>2, VarintOk
  <2>4. ReadVarint(d, i + j) = Varint(Word(v), i + n)
    BY <1>2, <2>1, <2>2, VarintOk
  <2>5. Word(v) \in Nat
    BY WordType
  <2> QED
    BY <2>1, <2>3, <2>4, <2>5 DEF SameVarint
<1> QED
  BY <1>5, <1>6

\* What a skipping reader is told by a tag.
TagIs(next, wire, num) == [ok |-> TRUE, next |-> next, wire |-> wire, num |-> num]

LEMMA TagOk ==
    \A n, w, k : /\ TagIs(n, w, k).ok /\ TagIs(n, w, k).next = n
                 /\ TagIs(n, w, k).wire = w /\ TagIs(n, w, k).num = k
BY DEF TagIs

LEMMA TagOfVarint ==
    ASSUME NEW v \in Nat, NEW n
    PROVE  TagOf(Varint(v, n)) = TagIs(n, v % 8, Signed(v \div 8, IntSize))
BY DEF TagOf, Varint, TagIs

\* A tag read of b, and the same one at i in other bytes.
SameTag(r, s, i, above, b) ==
    \/ r = NotOk
    \/ \E n \in Nat, w \in 0..7, k \in Int :
          /\ r = TagIs(n, w, k) /\ s = TagIs(i + n, w, k)
          /\ above < n /\ n <= Len(b)

LEMMA TagSame ==
    ASSUME NEW d \in Bytes, NEW i \in Nat, NEW b \in Bytes, Holds(d, i, b), NEW j \in Nat
    PROVE  SameTag(Tag(b, j), Tag(d, i + j), i, j, b)
<1>1. SameVarint(ReadVarint(b, j), ReadVarint(d, i + j), i, j, b)
  BY VarintSame
<1>2. CASE ReadVarint(b, j) = NotOk
  BY <1>2, NotOkIsNot DEF Tag, TagOf, SameTag
<1>3. CASE ReadVarint(b, j) # NotOk
  <2>1. PICK v, n \in Nat : /\ ReadVarint(b, j) = Varint(v, n)
                            /\ ReadVarint(d, i + j) = Varint(v, i + n)
                            /\ j < n /\ n <= Len(b)
    BY <1>1, <1>3 DEF SameVarint
  <2>2. v % 8 \in 0..7 /\ Signed(v \div 8, IntSize) \in Int
    BY SizesAssumption DEF Signed
  <2>3. Tag(b, j) = TagIs(n, v % 8, Signed(v \div 8, IntSize))
    BY <2>1, TagOfVarint DEF Tag
  <2>4. Tag(d, i + j) = TagIs(i + n, v % 8, Signed(v \div 8, IntSize))
    BY <2>1, TagOfVarint DEF Tag
  <2> QED
    BY <2>1, <2>2, <2>3, <2>4 DEF SameTag
<1> QED
  BY <1>2, <1>3

LEMMA SignedType == \A v \in Int : Signed(v, WordSize) \in Int
BY SizesAssumption DEF Signed

LEMMA SignedPositive ==
    ASSUME NEW v \in Nat, Signed(v, WordSize) >= 0, v < WordSize
    PROVE  Signed(v, WordSize) = v /\ v < WordSize \div 2
<1>1. v % WordSize = v
  BY SizesAssumption
<1> QED
  BY <1>1, SizesAssumption DEF Signed

\* Where a value ends inside a field, it ends in the bytes the field is in.
LEMMA ValueEndSame ==
    ASSUME NEW d \in Bytes, IsSlice(d), NEW i \in Nat, NEW b \in Bytes, Holds(d, i, b),
           NEW n \in Nat, NEW w \in 0..7, NEW k \in Int,
           0 <= ValueEnd(b, TagIs(n, w, k)), ValueEnd(b, TagIs(n, w, k)) <= Len(b)
    PROVE  ValueEnd(d, TagIs(i + n, w, k)) = i + ValueEnd(b, TagIs(n, w, k))
<1> DEFINE t == TagIs(n, w, k)
           u == TagIs(i + n, w, k)
<1>1. t.wire = w /\ u.wire = w /\ t.next = n /\ u.next = i + n
  BY TagOk
<1>2. SameVarint(ReadVarint(b, n), ReadVarint(d, i + n), i, n, b)
  BY VarintSame
<1>3. Len(b) \in Nat /\ Len(d) \in Nat /\ i + Len(b) <= Len(d) /\ Len(d) < WordSize \div 2
  BY BytesShape DEF Holds, IsSlice
<1> HIDE DEF t, u
<1>4. CASE w = 0
  <2>1. ValueEnd(b, t) = VarintEnd(ReadVarint(b, n)) /\ ValueEnd(d, u) = VarintEnd(ReadVarint(d, i + n))
    BY <1>1, <1>4 DEF ValueEnd
  <2>2. PICK v, m \in Nat : ReadVarint(b, n) = Varint(v, m) /\ ReadVarint(d, i + n) = Varint(v, i + m)
    <3>1. ReadVarint(b, n) # NotOk
      BY <2>1, NotOkIsNot DEF VarintEnd, t
    <3> QED
      BY <1>2, <3>1 DEF SameVarint
  <2> QED
    BY <2>1, <2>2, VarintOk DEF VarintEnd, t, u
<1>5. CASE w = 1
  BY <1>1, <1>5 DEF ValueEnd, t, u
<1>6. CASE w = 2
  <2>1. ValueEnd(b, t) = BytesEnd(ReadVarint(b, n)) /\ ValueEnd(d, u) = BytesEnd(ReadVarint(d, i + n))
    BY <1>1, <1>6 DEF ValueEnd
  <2>2. PICK v, m \in Nat : /\ ReadVarint(b, n) = Varint(v, m)
                            /\ ReadVarint(d, i + n) = Varint(v, i + m)
                            /\ m <= Len(b)
    <3>1. ReadVarint(b, n) # NotOk
      BY <2>1, NotOkIsNot DEF BytesEnd, t
    <3> QED
      BY <1>2, <3>1 DEF SameVarint
  <2> DEFINE s == Signed(v, WordSize)
  <2>3. \A x : BytesEnd(Varint(v, x)) = IF s >= 0 THEN Signed(x + s, WordSize) ELSE -1
    BY VarintOk DEF BytesEnd
  <2>4. s \in Int
    BY SignedType
  <2>5. s >= 0 /\ 0 <= Signed(m + s, WordSize) /\ Signed(m + s, WordSize) <= Len(b)
    BY <2>1, <2>2, <2>3 DEF t
  <2>6. s < WordSize \div 2
    BY <2>4, SizesAssumption DEF Signed
  <2>7. m + s \in Nat /\ m + s < WordSize
    BY <1>3, <2>2, <2>4, <2>5, <2>6, SizesAssumption
  <2>8. Signed(m + s, WordSize) = m + s
    BY <2>5, <2>7, SignedPositive
  <2>9. Signed((i + m) + s, WordSize) = (i + m) + s
    <3>1. (i + m) + s \in Nat /\ (i + m) + s < WordSize \div 2
      <4>1. m + s <= Len(b)
        BY <2>5, <2>8
      <4> HIDE DEF s
      <4>2. (i + m) + s \in Nat /\ (i + m) + s <= Len(d)
        BY <1>3, <2>4, <2>7, <4>1
      <4>3. WordSize \div 2 \in Int
        BY SizesAssumption
      <4> QED
        BY <1>3, <4>2, <4>3
    <3>2. WordSize \in Nat /\ WordSize > 0
      BY SizesAssumption
    <3> QED
      BY <3>1, <3>2, SignedSame
  <2>10. ValueEnd(b, t) = m + s /\ ValueEnd(d, u) = (i + m) + s
    BY <2>1, <2>2, <2>3, <2>5, <2>8, <2>9
  <2> HIDE DEF s
  <2> QED
    BY <2>4, <2>10 DEF t, u
<1>7. CASE w \in {3, 4}
  BY <1>1, <1>7 DEF ValueEnd, t, u
<1>8. CASE w = 5
  BY <1>1, <1>8 DEF ValueEnd, t, u
<1>9. CASE w \in {6, 7}
  <2>1. ValueEnd(b, t) = -1
    BY <1>1, <1>9 DEF ValueEnd
  <2> QED
    BY <2>1 DEF t
<1> QED
  BY <1>4, <1>5, <1>6, <1>7, <1>8, <1>9

-----------------------------------------------------------------------------
(* A field no message has is skipped wherever it stands.                   *)

Deeper(t) == CASE t.wire = 3 -> 1 [] t.wire = 4 -> -1 [] OTHER -> 0
SkipTo(f, end, deep) ==
    IF deep < 0 \/ end < 0 THEN -1
    ELSE IF deep = 0 THEN end
    ELSE f[<<end, deep>>]
SkipFrom(d, f, t, depth) ==
    IF t.ok THEN SkipTo(f, ValueEnd(d, t), depth + Deeper(t)) ELSE -1
SkipBody(c, f, left) ==
    [s \in Nat \X Nat |->
        IF left = 0 \/ s[1] >= Len(c) THEN -1 ELSE SkipFrom(c, f[left - 1], Tag(c, s[1]), s[2])]
Skips == INSTANCE Loops WITH Body <- SkipBody

IsSkip(d, f) == \A left \in Nat : f[left] = SkipBody(d, f, left)

LEMMA SkipIs ==
    ASSUME NEW d, NEW i
    PROVE  \E f : IsSkip(d, f) /\ skipGenerated(d, i) = f[Len(d)][<<i, 0>>]
<1> DEFINE G == CHOOSE f : f = [left \in Nat |-> SkipBody(d, f, left)]
<1>1. Skips!LooksBelow(d)
  <2> SUFFICES ASSUME NEW f, NEW g, NEW n \in Nat, \A m \in 0..(n - 1) : f[m] = g[m]
               PROVE  SkipBody(d, f, n) = SkipBody(d, g, n)
    BY DEF Skips!LooksBelow
  <2>1. n # 0 => f[n - 1] = g[n - 1]
    OBVIOUS
  <2>2. CASE n = 0
    BY <2>2 DEF SkipBody
  <2>3. CASE n # 0
    BY <2>1, <2>3 DEF SkipBody
  <2> QED
    BY <2>2, <2>3
<1>2. \E f : f = [left \in Nat |-> SkipBody(d, f, left)]
  BY <1>1, Skips!LoopComputes
<1>3. G = [left \in Nat |-> SkipBody(d, G, left)]
  BY <1>2
<1>4. skipGenerated(d, i) = G[Len(d)][<<i, 0>>]
  BY DEF skipGenerated, SkipBody, SkipFrom, SkipTo, Deeper
<1> HIDE DEF G
<1>5. IsSkip(d, G)
  BY <1>3 DEF IsSkip
<1> QED
  BY <1>4, <1>5

LEMMA SkipAt ==
    ASSUME NEW d, NEW f, IsSkip(d, f), NEW left \in Nat, NEW at \in Nat, NEW depth \in Nat
    PROVE  f[left][<<at, depth>>] =
               IF left = 0 \/ at >= Len(d) THEN -1
               ELSE SkipFrom(d, f[left - 1], Tag(d, at), depth)
<1>1. f[left] = SkipBody(d, f, left)
  BY DEF IsSkip
<1>2. <<at, depth>> \in Nat \X Nat /\ <<at, depth>>[1] = at /\ <<at, depth>>[2] = depth
  OBVIOUS
<1> QED
  BY <1>1, <1>2 DEF SkipBody

LEMMA ValueEndType ==
    ASSUME NEW d \in Bytes, NEW n \in Nat, NEW w \in 0..7, NEW k
    PROVE  ValueEnd(d, TagIs(n, w, k)) \in Int
<1> DEFINE t == TagIs(n, w, k)
<1>1. t.wire = w /\ t.next = n
  BY TagOk
<1>2. SameVarint(ReadVarint(d, n), ReadVarint(d, 0 + n), 0, n, d)
  BY HoldsWhole, VarintSame
<1> HIDE DEF t
<1>3. CASE ReadVarint(d, n) = NotOk
  BY <1>1, <1>3, NotOkIsNot DEF ValueEnd, VarintEnd, BytesEnd, t
<1>4. CASE ReadVarint(d, n) # NotOk
  <2>1. PICK v, m \in Nat : ReadVarint(d, n) = Varint(v, m)
    BY <1>2, <1>4 DEF SameVarint
  <2>2. VarintEnd(Varint(v, m)) \in Int
    BY VarintOk DEF VarintEnd
  <2>3. BytesEnd(Varint(v, m)) \in Int
    <3>1. Signed(v, WordSize) \in Int
      BY SignedType
    <3>2. m + Signed(v, WordSize) \in Int
      BY <3>1
    <3>3. Signed(m + Signed(v, WordSize), WordSize) \in Int
      BY <3>2, SignedType
    <3> QED
      BY <3>3, VarintOk DEF BytesEnd
  <2> QED
    BY <1>1, <2>1, <2>2, <2>3 DEF ValueEnd, t
<1> QED
  BY <1>3, <1>4

\* The skip f, if it ends, ends at e; so does g, which reads the same bytes from i on.
EndsWhere(f, g, i, e) ==
    \A left \in Nat : \A more, at, depth \in Nat :
        left <= more /\ f[left][<<at, depth>>] = e => g[more][<<i + at, depth>>] = i + e

\* A reader that has skipped all of b in b skips as much in d.
LEMMA SkipSame ==
    ASSUME NEW d \in Bytes, IsSlice(d), NEW i \in Nat, NEW b \in Bytes, Holds(d, i, b),
           NEW f, IsSkip(b, f), NEW g, IsSkip(d, g), NEW e \in 0..Len(b)
    PROVE  EndsWhere(f, g, i, e)
<1> DEFINE P(left) == \A more, at, depth \in Nat :
              left <= more /\ f[left][<<at, depth>>] = e
                  => g[more][<<i + at, depth>>] = i + e
           T == {left \in Nat : P(left)}
<1>0. e \in Nat /\ e <= Len(b) /\ Len(b) \in Nat /\ Len(d) \in Nat /\ i + Len(b) <= Len(d)
  BY BytesShape DEF Holds
<1>1. \A at, depth \in Nat : f[0][<<at, depth>>] # e
  <2> SUFFICES ASSUME NEW at \in Nat, NEW depth \in Nat PROVE f[0][<<at, depth>>] # e
    OBVIOUS
  <2>1. f[0][<<at, depth>>] = -1
    BY SkipAt
  <2> QED
    BY <2>1, <1>0
<1>2. 0 \in T
  BY <1>1
<1>3. ASSUME NEW left \in Nat, left \in T PROVE left + 1 \in T
  <2> SUFFICES ASSUME NEW more \in Nat, NEW at \in Nat, NEW depth \in Nat,
                      left + 1 <= more, f[left + 1][<<at, depth>>] = e
               PROVE  g[more][<<i + at, depth>>] = i + e
    OBVIOUS
  <2>1. at < Len(b) /\ SkipFrom(b, f[left], Tag(b, at), depth) = e
    <3>1. f[left + 1][<<at, depth>>] =
               IF left + 1 = 0 \/ at >= Len(b) THEN -1
               ELSE SkipFrom(b, f[(left + 1) - 1], Tag(b, at), depth)
      BY SkipAt
    <3>2. left + 1 # 0 /\ (left + 1) - 1 = left
      OBVIOUS
    <3> QED
      BY <1>0, <3>1, <3>2
  <2>2. /\ more - 1 \in Nat /\ left <= more - 1
        /\ g[more][<<i + at, depth>>] = SkipFrom(d, g[more - 1], Tag(d, i + at), depth)
    <3>1. i + at \in Nat /\ more # 0 /\ ~(i + at >= Len(d))
      BY <1>0, <2>1
    <3> QED
      BY <3>1, SkipAt
  <2>3. Tag(b, at) # NotOk
    <3>1. e # -1
      BY <1>0
    <3> QED
      BY <2>1, <3>1, NotOkIsNot DEF SkipFrom
  <2>4. PICK n \in Nat, w \in 0..7, k \in Int :
                 Tag(b, at) = TagIs(n, w, k) /\ Tag(d, i + at) = TagIs(i + n, w, k)
    <3>1. SameTag(Tag(b, at), Tag(d, i + at), i, at, b)
      BY TagSame
    <3> QED
      BY <2>3, <3>1 DEF SameTag
  <2> DEFINE t == TagIs(n, w, k)
             u == TagIs(i + n, w, k)
             end == ValueEnd(b, t)
             deep == depth + Deeper(t)
  <2>5. Deeper(u) = Deeper(t) /\ deep \in Int /\ t.ok /\ u.ok
    <3>1. t.ok /\ u.ok /\ t.wire = w /\ u.wire = w
      BY TagOk
    <3> HIDE DEF t, u
    <3>2. Deeper(t) \in Int /\ Deeper(u) = Deeper(t)
      BY <3>1 DEF Deeper
    <3> QED
      BY <3>1, <3>2
  <2>6. end \in Int
    BY ValueEndType
  <2> HIDE DEF end
  <2>7. SkipTo(f[left], end, deep) = e
    BY <2>1, <2>4, <2>5 DEF SkipFrom, end
  <2>8. g[more][<<i + at, depth>>] = SkipTo(g[more - 1], ValueEnd(d, u), deep)
    BY <2>2, <2>4, <2>5 DEF SkipFrom
  <2> HIDE DEF t, u, deep
  <2>9. end >= 0 /\ deep >= 0
    BY <1>0, <2>5, <2>6, <2>7 DEF SkipTo
  <2>10. CASE deep = 0
    <3>1. end = e
      BY <2>7, <2>9, <2>10, <2>6 DEF SkipTo
    <3>2. ValueEnd(d, u) = i + end
      <4>1. end <= Len(b)
        BY <1>0, <3>1
      <4> QED
        BY <2>9, <4>1, ValueEndSame DEF end, t, u
    <3> QED
      BY <1>0, <2>8, <2>10, <3>1, <3>2 DEF SkipTo
  <2>11. CASE deep # 0
    <3>1. f[left][<<end, deep>>] = e /\ end \in Nat /\ deep \in Nat
      BY <2>5, <2>6, <2>7, <2>9, <2>11 DEF SkipTo
    <3>2. end <= Len(b)
      <4>1. f[left][<<end, deep>>] =
               IF left = 0 \/ end >= Len(b) THEN -1
               ELSE SkipFrom(b, f[left - 1], Tag(b, end), deep)
        BY <3>1, SkipAt
      <4> QED
        BY <1>0, <3>1, <4>1
    <3>3. ValueEnd(d, u) = i + end
      BY <2>9, <3>2, ValueEndSame DEF end, t, u
    <3>4. g[more - 1][<<i + end, deep>>] = i + e
      BY <1>3, <2>2, <3>1
    <3> QED
      BY <2>8, <2>11, <3>1, <3>3, <3>4 DEF SkipTo
  <2> QED
    BY <2>10, <2>11
<1>4. Nat \subseteq T
  <2> HIDE DEF T
  <2> QED
    BY <1>2, <1>3, Bits!Induction
<1>5. \A left \in Nat : P(left)
  <2> SUFFICES ASSUME NEW left \in Nat PROVE P(left)
    OBVIOUS
  <2>1. left \in T
    <3> HIDE DEF T
    <3> QED
      BY <1>4
  <2> HIDE DEF P
  <2> QED
    BY <2>1
<1> QED
  BY <1>5 DEF EndsWhere

\* A field that is skipped alone is skipped inside other bytes.
LEMMA FieldSkipped ==
    ASSUME NEW d \in Bytes, IsSlice(d), NEW i \in Nat, NEW b \in Bytes, Holds(d, i, b),
           skipGenerated(b, 0) = Len(b)
    PROVE  skipGenerated(d, i) = i + Len(b)
<1>1. PICK f : IsSkip(b, f) /\ skipGenerated(b, 0) = f[Len(b)][<<0, 0>>]
  BY SkipIs
<1>2. PICK g : IsSkip(d, g) /\ skipGenerated(d, i) = g[Len(d)][<<i, 0>>]
  BY SkipIs
<1>3. Len(b) \in Nat /\ Len(d) \in Nat /\ Len(b) <= Len(d) /\ i + 0 = i /\ 0 \in Nat
  BY BytesShape DEF Holds
<1>4. g[Len(d)][<<i + 0, 0>>] = i + Len(b)
  <2>1. PICK e \in 0..Len(b) : e = Len(b)
    BY <1>3
  <2>2. f[Len(b)][<<0, 0>>] = e
    BY <1>1, <2>1
  <2>3. IsSkip(b, f) /\ IsSkip(d, g)
    BY <1>1, <1>2
  <2>4. EndsWhere(f, g, i, e)
    BY <2>3, SkipSame
  <2> QED
    BY <1>3, <2>1, <2>2, <2>4 DEF EndsWhere
<1> QED
  BY <1>2, <1>3, <1>4

-----------------------------------------------------------------------------
(* The members of bytes, and the message they set.                         *)

MembersOn(g, r) == IF r.ok THEN r.members \o g[r.next] ELSE <<NotOk>>
MembersBody(c, f, left) ==
    [at \in Nat |-> IF at >= c[2] THEN <<>>
                    ELSE IF left = 0 THEN <<NotOk>>
                    ELSE MembersOn(f[left - 1], c[1][at])]
Parses == INSTANCE Loops WITH Body <- MembersBody

IsMembers(field, post, f) == \A left \in Nat : f[left] = MembersBody(<<field, post>>, f, left)

LEMMA MembersIs ==
    ASSUME NEW field, NEW post, NEW i
    PROVE  \E f : IsMembers(field, post, f) /\ MembersBy(field, i, post) = f[post][i]
<1> DEFINE c == <<field, post>>
           G == CHOOSE f : f = [left \in Nat |->
                    [at \in Nat |-> IF at >= post THEN <<>>
                                    ELSE IF left = 0 THEN <<NotOk>>
                                    ELSE MembersOn(f[left - 1], field[at])]]
<1>1. Parses!LooksBelow(c)
  <2> SUFFICES ASSUME NEW f, NEW g, NEW n \in Nat, \A m \in 0..(n - 1) : f[m] = g[m]
               PROVE  MembersBody(c, f, n) = MembersBody(c, g, n)
    BY DEF Parses!LooksBelow
  <2>1. n # 0 => f[n - 1] = g[n - 1]
    OBVIOUS
  <2>2. CASE n = 0
    BY <2>2 DEF MembersBody
  <2>3. CASE n # 0
    BY <2>1, <2>3 DEF MembersBody
  <2> QED
    BY <2>2, <2>3
<1>2. \E f : f = [left \in Nat |-> MembersBody(c, f, left)]
  BY <1>1, Parses!LoopComputes
<1>3. \E f : f = [left \in Nat |->
                    [at \in Nat |-> IF at >= post THEN <<>>
                                    ELSE IF left = 0 THEN <<NotOk>>
                                    ELSE MembersOn(f[left - 1], field[at])]]
  BY <1>2 DEF MembersBody
<1>4. G = [left \in Nat |->
                    [at \in Nat |-> IF at >= post THEN <<>>
                                    ELSE IF left = 0 THEN <<NotOk>>
                                    ELSE MembersOn(G[left - 1], field[at])]]
  BY <1>3
<1>5. MembersBy(field, i, post) = G[post][i]
  BY DEF MembersBy, MembersOn
<1> HIDE DEF G
<1>6. IsMembers(field, post, G)
  BY <1>4 DEF IsMembers, MembersBody
<1> QED
  BY <1>5, <1>6

LEMMA MembersAt ==
    ASSUME NEW field, NEW post, NEW f, IsMembers(field, post, f), NEW left \in Nat, NEW at \in Nat
    PROVE  f[left][at] = IF at >= post THEN <<>>
                         ELSE IF left = 0 THEN <<NotOk>>
                         ELSE MembersOn(f[left - 1], field[at])
<1>1. f[left] = MembersBody(<<field, post>>, f, left)
  BY DEF IsMembers
<1> QED
  BY <1>1 DEF MembersBody

\* What each kind of message does with a member.
StepOf(kind, m, f) ==
    CASE kind = "Capacity" -> TenantCapacitySet(m, f)
      [] kind = "Online" -> TenantStatusSet(m, f)
      [] kind = "Suspension" -> TenantSuspensionSet(m, f)
      [] kind = "Entry" -> EntrySet(m, f)
      [] kind = "Quota" -> TenantQuotaSet(m, f)
      [] kind = "Spec" -> TenantSpecSet(m, f)
      [] kind = "Tenant" -> TenantSet(m, f)
      [] kind = "TenantList" -> TenantListSet(m, f)
      [] kind = "ClusterSpec" -> ClusterResourceQuotaSpecSet(m, f)
      [] kind = "ClusterStatus" -> ClusterResourceQuotaStatusSet(m, f)
      [] kind = "Cluster" -> ClusterResourceQuotaSet(m, f)
      [] kind = "ClusterList" -> ClusterResourceQuotaListSet(m, f)
SetOf(kind, m, f) == IF m = NotOk \/ ~f.ok THEN NotOk ELSE StepOf(kind, m, f)
SetBody(c, f, k) == IF k = 0 THEN c[2] ELSE SetOf(c[1], f[k - 1], c[3][k])
Sets == INSTANCE Loops WITH Body <- SetBody

\* h is the message m after each of the members fs.
IsAfter(kind, m, fs, h) ==
    /\ h[0] = m
    /\ \A k \in Nat : k < Len(fs) => h[k + 1] = SetOf(kind, h[k], fs[k + 1])

IsList(s) == Len(s) \in Nat /\ s \in Seq({s[k] : k \in 1..Len(s)})

\* The members fs make r of the message m.
Brings(kind, m, fs, r) ==
    IsList(fs) /\ \A h : IsAfter(kind, m, fs, h) => h[Len(fs)] = r

Afters(kind, m, fs, h) ==
    h = [k \in Nat |-> IF k = 0 THEN m ELSE SetOf(kind, h[k - 1], fs[k])]

LEMMA AfterExists ==
    ASSUME NEW kind, NEW m, NEW fs
    PROVE  \E h : Afters(kind, m, fs, h)
<1> DEFINE c == <<kind, m, fs>>
<1>1. Sets!LooksBelow(c)
  <2> SUFFICES ASSUME NEW f, NEW g, NEW n \in Nat, \A k \in 0..(n - 1) : f[k] = g[k]
               PROVE  SetBody(c, f, n) = SetBody(c, g, n)
    BY DEF Sets!LooksBelow
  <2>1. n # 0 => f[n - 1] = g[n - 1]
    OBVIOUS
  <2> QED
    BY <2>1 DEF SetBody
<1>2. \E f : f = [k \in Nat |-> SetBody(c, f, k)]
  BY <1>1, Sets!LoopComputes
<1> QED
  BY <1>2 DEF SetBody, Afters

LEMMA AfterIs ==
    ASSUME NEW kind, NEW m, NEW fs, NEW h, Afters(kind, m, fs, h)
    PROVE  IsAfter(kind, m, fs, h)
<1>1. h[0] = m
  BY DEF Afters
<1>2. ASSUME NEW k \in Nat PROVE h[k + 1] = SetOf(kind, h[k], fs[k + 1])
  <2>1. k + 1 \in Nat /\ k + 1 # 0 /\ (k + 1) - 1 = k
    OBVIOUS
  <2> QED
    BY <2>1 DEF Afters
<1> QED
  BY <1>1, <1>2 DEF IsAfter

-----------------------------------------------------------------------------
(* The operator that sets the members of a message, for each kind of       *)
(* message, is the loop above.                                             *)

LEMMA CapacitySets ==
    ASSUME NEW m, NEW fs, NEW r, Brings("Capacity", m, fs, r)
    PROVE  SetAll(TenantCapacitySet, m, fs) = r
<1> DEFINE Loop(h) == h = [k \in Nat |-> IF k = 0 THEN m
                                         ELSE SetOne(TenantCapacitySet, h[k - 1], fs[k])]
<1>1. \A x, f : SetOf("Capacity", x, f) = SetOne(TenantCapacitySet, x, f)
  BY DEF SetOf, StepOf, SetOne
<1>2. \A h : Afters("Capacity", m, fs, h) <=> Loop(h)
  BY <1>1 DEF Afters
<1>3. \E h : Loop(h)
  BY <1>2, AfterExists
<1>4. Afters("Capacity", m, fs, CHOOSE h : Loop(h))
  BY <1>2, <1>3
<1> QED
  BY <1>4, AfterIs DEF Brings, SetAll

LEMMA OnlineSets ==
    ASSUME NEW m, NEW fs, NEW r, Brings("Online", m, fs, r)
    PROVE  SetAll(TenantStatusSet, m, fs) = r
<1> DEFINE Loop(h) == h = [k \in Nat |-> IF k = 0 THEN m
                                         ELSE SetOne(TenantStatusSet, h[k - 1], fs[k])]
<1>1. \A x, f : SetOf("Online", x, f) = SetOne(TenantStatusSet, x, f)
  BY DEF SetOf, StepOf, SetOne
<1>2. \A h : Afters("Online", m, fs, h) <=> Loop(h)
  BY <1>1 DEF Afters
<1>3. \E h : Loop(h)
  BY <1>2, AfterExists
<1>4. Afters("Online", m, fs, CHOOSE h : Loop(h))
  BY <1>2, <1>3
<1> QED
  BY <1>4, AfterIs DEF Brings, SetAll

LEMMA SuspensionSets ==
    ASSUME NEW m, NEW fs, NEW r, Brings("Suspension", m, fs, r)
    PROVE  SetAll(TenantSuspensionSet, m, fs) = r
<1> DEFINE Loop(h) == h = [k \in Nat |-> IF k = 0 THEN m
                                         ELSE SetOne(TenantSuspensionSet, h[k - 1], fs[k])]
<1>1. \A x, f : SetOf("Suspension", x, f) = SetOne(TenantSuspensionSet, x, f)
  BY DEF SetOf, StepOf, SetOne
<1>2. \A h : Afters("Suspension", m, fs, h) <=> Loop(h)
  BY <1>1 DEF Afters
<1>3. \E h : Loop(h)
  BY <1>2, AfterExists
<1>4. Afters("Suspension", m, fs, CHOOSE h : Loop(h))
  BY <1>2, <1>3
<1> QED
  BY <1>4, AfterIs DEF Brings, SetAll

LEMMA EntrySets ==
    ASSUME NEW m, NEW fs, NEW r, Brings("Entry", m, fs, r)
    PROVE  SetAll(EntrySet, m, fs) = r
<1> DEFINE Loop(h) == h = [k \in Nat |-> IF k = 0 THEN m
                                         ELSE SetOne(EntrySet, h[k - 1], fs[k])]
<1>1. \A x, f : SetOf("Entry", x, f) = SetOne(EntrySet, x, f)
  BY DEF SetOf, StepOf, SetOne
<1>2. \A h : Afters("Entry", m, fs, h) <=> Loop(h)
  BY <1>1 DEF Afters
<1>3. \E h : Loop(h)
  BY <1>2, AfterExists
<1>4. Afters("Entry", m, fs, CHOOSE h : Loop(h))
  BY <1>2, <1>3
<1> QED
  BY <1>4, AfterIs DEF Brings, SetAll

LEMMA QuotaSets ==
    ASSUME NEW m, NEW fs, NEW r, Brings("Quota", m, fs, r)
    PROVE  SetAll(TenantQuotaSet, m, fs) = r
<1> DEFINE Loop(h) == h = [k \in Nat |-> IF k = 0 THEN m
                                         ELSE SetOne(TenantQuotaSet, h[k - 1], fs[k])]
<1>1. \A x, f : SetOf("Quota", x, f) = SetOne(TenantQuotaSet, x, f)
  BY DEF SetOf, StepOf, SetOne
<1>2. \A h : Afters("Quota", m, fs, h) <=> Loop(h)
  BY <1>1 DEF Afters
<1>3. \E h : Loop(h)
  BY <1>2, AfterExists
<1>4. Afters("Quota", m, fs, CHOOSE h : Loop(h))
  BY <1>2, <1>3
<1> QED
  BY <1>4, AfterIs DEF Brings, SetAll

LEMMA SpecSets ==
    ASSUME NEW m, NEW fs, NEW r, Brings("Spec", m, fs, r)
    PROVE  SetAll(TenantSpecSet, m, fs) = r
<1> DEFINE Loop(h) == h = [k \in Nat |-> IF k = 0 THEN m
                                         ELSE SetOne(TenantSpecSet, h[k - 1], fs[k])]
<1>1. \A x, f : SetOf("Spec", x, f) = SetOne(TenantSpecSet, x, f)
  BY DEF SetOf, StepOf, SetOne
<1>2. \A h : Afters("Spec", m, fs, h) <=> Loop(h)
  BY <1>1 DEF Afters
<1>3. \E h : Loop(h)
  BY <1>2, AfterExists
<1>4. Afters("Spec", m, fs, CHOOSE h : Loop(h))
  BY <1>2, <1>3
<1> QED
  BY <1>4, AfterIs DEF Brings, SetAll

LEMMA TenantSets ==
    ASSUME NEW m, NEW fs, NEW r, Brings("Tenant", m, fs, r)
    PROVE  SetAll(TenantSet, m, fs) = r
<1> DEFINE Loop(h) == h = [k \in Nat |-> IF k = 0 THEN m
                                         ELSE SetOne(TenantSet, h[k - 1], fs[k])]
<1>1. \A x, f : SetOf("Tenant", x, f) = SetOne(TenantSet, x, f)
  BY DEF SetOf, StepOf, SetOne
<1>2. \A h : Afters("Tenant", m, fs, h) <=> Loop(h)
  BY <1>1 DEF Afters
<1>3. \E h : Loop(h)
  BY <1>2, AfterExists
<1>4. Afters("Tenant", m, fs, CHOOSE h : Loop(h))
  BY <1>2, <1>3
<1> QED
  BY <1>4, AfterIs DEF Brings, SetAll

LEMMA TenantListSets ==
    ASSUME NEW m, NEW fs, NEW r, Brings("TenantList", m, fs, r)
    PROVE  SetAll(TenantListSet, m, fs) = r
<1> DEFINE Loop(h) == h = [k \in Nat |-> IF k = 0 THEN m
                                         ELSE SetOne(TenantListSet, h[k - 1], fs[k])]
<1>1. \A x, f : SetOf("TenantList", x, f) = SetOne(TenantListSet, x, f)
  BY DEF SetOf, StepOf, SetOne
<1>2. \A h : Afters("TenantList", m, fs, h) <=> Loop(h)
  BY <1>1 DEF Afters
<1>3. \E h : Loop(h)
  BY <1>2, AfterExists
<1>4. Afters("TenantList", m, fs, CHOOSE h : Loop(h))
  BY <1>2, <1>3
<1> QED
  BY <1>4, AfterIs DEF Brings, SetAll

LEMMA ClusterSpecSets ==
    ASSUME NEW m, NEW fs, NEW r, Brings("ClusterSpec", m, fs, r)
    PROVE  SetAll(ClusterResourceQuotaSpecSet, m, fs) = r
<1> DEFINE Loop(h) == h = [k \in Nat |-> IF k = 0 THEN m
                                         ELSE SetOne(ClusterResourceQuotaSpecSet, h[k - 1], fs[k])]
<1>1. \A x, f : SetOf("ClusterSpec", x, f) = SetOne(ClusterResourceQuotaSpecSet, x, f)
  BY DEF SetOf, StepOf, SetOne
<1>2. \A h : Afters("ClusterSpec", m, fs, h) <=> Loop(h)
  BY <1>1 DEF Afters
<1>3. \E h : Loop(h)
  BY <1>2, AfterExists
<1>4. Afters("ClusterSpec", m, fs, CHOOSE h : Loop(h))
  BY <1>2, <1>3
<1> QED
  BY <1>4, AfterIs DEF Brings, SetAll

LEMMA ClusterStatusSets ==
    ASSUME NEW m, NEW fs, NEW r, Brings("ClusterStatus", m, fs, r)
    PROVE  SetAll(ClusterResourceQuotaStatusSet, m, fs) = r
<1> DEFINE Loop(h) == h = [k \in Nat |-> IF k = 0 THEN m
                                         ELSE SetOne(ClusterResourceQuotaStatusSet, h[k - 1], fs[k])]
<1>1. \A x, f : SetOf("ClusterStatus", x, f) = SetOne(ClusterResourceQuotaStatusSet, x, f)
  BY DEF SetOf, StepOf, SetOne
<1>2. \A h : Afters("ClusterStatus", m, fs, h) <=> Loop(h)
  BY <1>1 DEF Afters
<1>3. \E h : Loop(h)
  BY <1>2, AfterExists
<1>4. Afters("ClusterStatus", m, fs, CHOOSE h : Loop(h))
  BY <1>2, <1>3
<1> QED
  BY <1>4, AfterIs DEF Brings, SetAll

LEMMA ClusterSets ==
    ASSUME NEW m, NEW fs, NEW r, Brings("Cluster", m, fs, r)
    PROVE  SetAll(ClusterResourceQuotaSet, m, fs) = r
<1> DEFINE Loop(h) == h = [k \in Nat |-> IF k = 0 THEN m
                                         ELSE SetOne(ClusterResourceQuotaSet, h[k - 1], fs[k])]
<1>1. \A x, f : SetOf("Cluster", x, f) = SetOne(ClusterResourceQuotaSet, x, f)
  BY DEF SetOf, StepOf, SetOne
<1>2. \A h : Afters("Cluster", m, fs, h) <=> Loop(h)
  BY <1>1 DEF Afters
<1>3. \E h : Loop(h)
  BY <1>2, AfterExists
<1>4. Afters("Cluster", m, fs, CHOOSE h : Loop(h))
  BY <1>2, <1>3
<1> QED
  BY <1>4, AfterIs DEF Brings, SetAll

LEMMA ClusterListSets ==
    ASSUME NEW m, NEW fs, NEW r, Brings("ClusterList", m, fs, r)
    PROVE  SetAll(ClusterResourceQuotaListSet, m, fs) = r
<1> DEFINE Loop(h) == h = [k \in Nat |-> IF k = 0 THEN m
                                         ELSE SetOne(ClusterResourceQuotaListSet, h[k - 1], fs[k])]
<1>1. \A x, f : SetOf("ClusterList", x, f) = SetOne(ClusterResourceQuotaListSet, x, f)
  BY DEF SetOf, StepOf, SetOne
<1>2. \A h : Afters("ClusterList", m, fs, h) <=> Loop(h)
  BY <1>1 DEF Afters
<1>3. \E h : Loop(h)
  BY <1>2, AfterExists
<1>4. Afters("ClusterList", m, fs, CHOOSE h : Loop(h))
  BY <1>2, <1>3
<1> QED
  BY <1>4, AfterIs DEF Brings, SetAll
\* From offset i to post the members that field finds make r of the message m.
Gives(kind, field, post, i, m, r) ==
    \A f : \A left \in Nat :
        IsMembers(field, post, f) /\ post - i <= left => Brings(kind, m, f[left][i], r)

LEMMA ListWith ==
    ASSUME NEW x, NEW s, IsList(s)
    PROVE  /\ IsList(<<x>> \o s) /\ Len(<<x>> \o s) = Len(s) + 1
           /\ (<<x>> \o s)[1] = x
           /\ \A k \in 1..Len(s) : (<<x>> \o s)[k + 1] = s[k]
<1> DEFINE S == {s[k] : k \in 1..Len(s)} \cup {x}
           t == <<x>> \o s
<1>1. s \in Seq(S) /\ <<x>> \in Seq(S) /\ Len(s) \in Nat
  BY DEF IsList
<1>2. t \in Seq(S) /\ Len(t) = Len(s) + 1
  BY <1>1
<1>3. t[1] = x /\ \A k \in 1..Len(s) : t[k + 1] = s[k]
  BY <1>1
<1> HIDE DEF S, t
<1>4. t \in Seq({t[k] : k \in 1..Len(t)}) /\ Len(t) \in Nat
  BY <1>2
<1>5. IsList(t)
  BY <1>4 DEF IsList
<1> QED
  BY <1>2, <1>3, <1>5 DEF t

LEMMA BringsNothing == \A kind, m : Brings(kind, m, <<>>, m)
<1>1. IsList(<<>>) /\ Len(<<>>) = 0
  BY DEF IsList
<1> QED
  BY <1>1 DEF Brings, IsAfter

LEMMA BringsOne ==
    ASSUME NEW kind, NEW m, NEW x, NEW fs, NEW r, Brings(kind, SetOf(kind, m, x), fs, r)
    PROVE  Brings(kind, m, <<x>> \o fs, r)
<1> DEFINE all == <<x>> \o fs
<1>1. IsList(fs)
  BY DEF Brings
<1>2. /\ IsList(all) /\ Len(all) = Len(fs) + 1 /\ all[1] = x
      /\ \A k \in 1..Len(fs) : all[k + 1] = fs[k]
  BY <1>1, ListWith
<1>3. Len(fs) \in Nat
  BY <1>1 DEF IsList
<1>4. ASSUME NEW h, IsAfter(kind, m, all, h) PROVE h[Len(all)] = r
  <2> DEFINE g == [k \in Nat |-> h[k + 1]]
  <2> HIDE DEF all
  <2>1. h[0] = m /\ \A k \in Nat : k < Len(all) => h[k + 1] = SetOf(kind, h[k], all[k + 1])
    BY <1>4 DEF IsAfter
  <2>2. \A k \in Nat : g[k] = h[k + 1]
    OBVIOUS
  <2> HIDE DEF g
  <2>3. g[0] = SetOf(kind, m, x)
    <3>1. h[0 + 1] = SetOf(kind, h[0], all[0 + 1])
      BY <1>2, <1>3, <2>1
    <3> QED
      BY <1>2, <2>1, <2>2, <3>1
  <2>4. ASSUME NEW k \in Nat, k < Len(fs) PROVE g[k + 1] = SetOf(kind, g[k], fs[k + 1])
    <3>1. k + 1 \in Nat /\ k + 1 < Len(all)
      BY <1>2, <1>3, <2>4
    <3>2. h[(k + 1) + 1] = SetOf(kind, h[k + 1], all[(k + 1) + 1])
      BY <2>1, <3>1
    <3>3. all[(k + 1) + 1] = fs[k + 1]
      BY <1>2, <1>3, <2>4
    <3> QED
      BY <2>2, <3>1, <3>2, <3>3
  <2>5. g[Len(fs)] = r
    <3>1. IsAfter(kind, SetOf(kind, m, x), fs, g)
      BY <2>3, <2>4 DEF IsAfter
    <3> QED
      BY <3>1 DEF Brings
  <2> QED
    BY <1>2, <1>3, <2>2, <2>5
<1> QED
  BY <1>2, <1>4 DEF Brings

LEMMA GivesEnd ==
    ASSUME NEW kind, NEW field, NEW post \in Nat, NEW m
    PROVE  Gives(kind, field, post, post, m, m)
<1> SUFFICES ASSUME NEW f, NEW left \in Nat, IsMembers(field, post, f)
             PROVE  Brings(kind, m, f[left][post], m)
  BY DEF Gives
<1>1. f[left][post] = <<>>
  BY MembersAt
<1> QED
  BY <1>1, BringsNothing

\* A field that was read, and one that was skipped.
Found(num, d, v, next) ==
    [ok |-> TRUE, next |-> next, members |-> <<[ok |-> TRUE, num |-> num, d |-> d, v |-> v]>>]
PassedBy(next) == [ok |-> TRUE, next |-> next, members |-> <<>>]

LEMMA GivesSkip ==
    ASSUME NEW kind, NEW field, NEW post \in Nat, NEW i \in Nat, NEW next \in Nat, NEW m, NEW r,
           i < next, next <= post, field[i] = PassedBy(next),
           Gives(kind, field, post, next, m, r)
    PROVE  Gives(kind, field, post, i, m, r)
<1> SUFFICES ASSUME NEW f, NEW left \in Nat, IsMembers(field, post, f), post - i <= left
             PROVE  Brings(kind, m, f[left][i], r)
  BY DEF Gives
<1>1. left - 1 \in Nat /\ post - next <= left - 1 /\ left # 0 /\ ~(i >= post)
  OBVIOUS
<1>2. f[left][i] = MembersOn(f[left - 1], PassedBy(next))
  BY <1>1, MembersAt
<1>3. Brings(kind, m, f[left - 1][next], r)
  BY <1>1 DEF Gives
<1>4. IsList(f[left - 1][next])
  BY <1>3 DEF Brings
<1>5. MembersOn(f[left - 1], PassedBy(next)) = <<>> \o f[left - 1][next]
  BY DEF MembersOn, PassedBy
<1>6. <<>> \o f[left - 1][next] = f[left - 1][next]
  BY <1>4 DEF IsList
<1> QED
  BY <1>2, <1>3, <1>5, <1>6

LEMMA GivesMember ==
    ASSUME NEW kind, NEW field, NEW post \in Nat, NEW i \in Nat, NEW next \in Nat,
           NEW m, m # NotOk, NEW n, NEW r, NEW num, NEW d, NEW v,
           i < next, next <= post, field[i] = Found(num, d, v, next),
           StepOf(kind, m, [ok |-> TRUE, num |-> num, d |-> d, v |-> v]) = n,
           Gives(kind, field, post, next, n, r)
    PROVE  Gives(kind, field, post, i, m, r)
<1> SUFFICES ASSUME NEW f, NEW left \in Nat, IsMembers(field, post, f), post - i <= left
             PROVE  Brings(kind, m, f[left][i], r)
  BY DEF Gives
<1> DEFINE x == [ok |-> TRUE, num |-> num, d |-> d, v |-> v]
<1>1. left - 1 \in Nat /\ post - next <= left - 1 /\ left # 0 /\ ~(i >= post)
  OBVIOUS
<1>2. f[left][i] = MembersOn(f[left - 1], Found(num, d, v, next))
  BY <1>1, MembersAt
<1>3. Brings(kind, n, f[left - 1][next], r)
  BY <1>1 DEF Gives
<1>4. SetOf(kind, m, x) = n
  BY DEF SetOf
<1>5. MembersOn(f[left - 1], Found(num, d, v, next)) = <<x>> \o f[left - 1][next]
  BY DEF MembersOn, Found
<1> HIDE DEF x
<1>6. Brings(kind, m, <<x>> \o f[left - 1][next], r)
  BY <1>3, <1>4, BringsOne
<1> QED
  BY <1>2, <1>5, <1>6

\* What the loop of Unmarshal finds.
LEMMA GivesAll ==
    ASSUME NEW kind, NEW field, NEW post \in Nat, NEW i \in Nat, NEW m, NEW r,
           Gives(kind, field, post, i, m, r)
    PROVE  Brings(kind, m, MembersBy(field, i, post), r)
<1>1. PICK f : IsMembers(field, post, f) /\ MembersBy(field, i, post) = f[post][i]
  BY MembersIs
<1>2. post - i <= post
  OBVIOUS
<1> QED
  BY <1>1, <1>2 DEF Gives

-----------------------------------------------------------------------------
(* The fields of a message are read as they were written.                  *)

LEMMA ReadsTag ==
    ASSUME NEW d \in Bytes, NEW i \in Nat, NEW tag \in 8..127, Holds(d, i, <<tag>>)
    PROVE  Tag(d, i) = TagIs(i + 1, tag % 8, tag \div 8)
<1>1. tag \in Nat /\ tag < WordSize /\ encodeVarintGenerated(tag) = <<tag>>
  <2>1. tag \in Nat /\ tag < 128
    OBVIOUS
  <2>2. tag < WordSize
    BY <2>1, SizesAssumption
  <2>3. encodeVarintGenerated(tag) = <<tag>>
    BY <2>1, EncodeIs
  <2> QED
    BY <2>1, <2>2, <2>3
<1>2. sovGenerated(tag) = 1
  BY <1>1, SovIs
<1>3. Holds(d, i, encodeVarintGenerated(tag))
  BY <1>1
<1>4. ReadVarint(d, i) = Varint(tag, i + 1)
  BY <1>1, <1>2, <1>3, ReadsVarint
<1>5. Signed(tag \div 8, IntSize) = tag \div 8
  <2>1. IntSize \in Nat /\ IntSize > 0 /\ tag \div 8 \in Nat /\ tag \div 8 < IntSize \div 2
    BY SizesAssumption
  <2> QED
    BY <2>1, SignedSame
<1>6. TagOf(Varint(tag, i + 1)) = TagIs(i + 1, tag % 8, Signed(tag \div 8, IntSize))
  BY <1>1, TagOfVarint
<1> QED
  BY <1>4, <1>5, <1>6 DEF Tag

\* The bytes b read of d from the offset from.
Piece(b, from) == [ok |-> TRUE, val |-> b, from |-> from, next |-> from + Len(b)]

LEMMA PieceOk ==
    \A b, from : /\ Piece(b, from).ok /\ Piece(b, from).val = b
                 /\ Piece(b, from).from = from /\ Piece(b, from).next = from + Len(b)
BY DEF Piece

LEMMA HeldBytes ==
    ASSUME NEW d \in Bytes, NEW from \in Nat, NEW b \in Bytes, Holds(d, from, b)
    PROVE  SubSeq(d, from + 1, from + Len(b)) = b
<1>1. /\ Len(b) \in Nat /\ Len(d) \in Nat /\ from + Len(b) <= Len(d)
      /\ b = [k \in 1..Len(b) |-> b[k]]
      /\ \A k \in 1..Len(b) : d[from + k] = b[k]
  BY BytesShape DEF Holds
<1> DEFINE s == SubSeq(d, from + 1, from + Len(b))
<1>2. d \in Seq(Byte)
  BY DEF Bytes
<1>3. s \in Seq(Byte) /\ Len(s) = Len(b)
  BY <1>1, <1>2
<1>4. \A k \in 1..Len(b) : s[k] = d[from + k]
  BY <1>1, <1>2
<1>5. s = [k \in 1..Len(s) |-> s[k]]
  BY <1>3
<1> HIDE DEF s
<1>6. s = b
  BY <1>1, <1>3, <1>4, <1>5
<1> QED
  BY <1>6 DEF s

LEMMA ReadsBytes ==
    ASSUME NEW d \in Bytes, IsSlice(d), NEW i \in Nat, NEW b \in Bytes,
           Holds(d, i, encodeVarintGenerated(Len(b)) \o b)
    PROVE  /\ ReadBytes(d, i) = Piece(b, i + sovGenerated(Len(b)))
           /\ Holds(d, i + sovGenerated(Len(b)), b)
<1> DEFINE n == Len(b)
           enc == encodeVarintGenerated(n)
           from == i + sovGenerated(n)
<1>1. n \in Nat /\ Len(d) \in Nat /\ Len(d) < WordSize \div 2 /\ WordSize \in Nat /\ WordSize > 0
  BY BytesShape, SizesAssumption DEF IsSlice
<1>2. enc \in Bytes /\ Len(enc) = sovGenerated(n) /\ sovGenerated(n) \in Nat
  BY <1>1, EncodeLen, SovIs
<1>3. Holds(d, i, enc) /\ Holds(d, from, b)
  <2> HIDE DEF enc, n
  <2>1. Holds(d, i, enc \o b)
    BY DEF enc, n
  <2>2. Holds(d, i, enc)
    BY <1>2, <2>1, HoldsJoined
  <2>3. Holds(d, i + Len(enc), b)
    BY <1>2, <2>1, HoldsJoined
  <2> QED
    BY <1>2, <2>2, <2>3
<1> HIDE DEF enc, from, n
<1>4. from \in Nat /\ from + n <= Len(d)
  BY <1>1, <1>2, <1>3 DEF Holds, from, n
<1>5. /\ n < WordSize \div 2 /\ from + n < WordSize \div 2 /\ from + n \in Nat /\ n < WordSize
  <2>1. WordSize \div 2 \in Nat /\ WordSize \div 2 <= WordSize
    BY <1>1
  <2> QED
    BY <1>1, <1>4, <2>1
<1>6. ReadVarint(d, i) = Varint(n, from)
  BY <1>1, <1>3, <1>5, ReadsVarint DEF enc, from
<1>7. Signed(n, WordSize) = n
  BY <1>1, <1>5, SignedSame
<1>8. Signed(from + n, WordSize) = from + n
  BY <1>1, <1>5, SignedSame
<1>9. SubSeq(d, from + 1, from + n) = b
  BY <1>3, <1>4, HeldBytes DEF n
<1> DEFINE r == Varint(n, from)
<1>10. r.ok /\ r.val = n /\ r.next = from
  BY VarintOk
<1> HIDE DEF r
<1>11. Delimited(d, r) = [ok |-> TRUE, val |-> b, from |-> from, next |-> from + n]
  <2>1. Signed(r.val, WordSize) = n /\ Signed(r.next + Signed(r.val, WordSize), WordSize) = from + n
    BY <1>7, <1>8, <1>10
  <2>2. ~(n < 0 \/ from + n < 0 \/ from + n > Len(d))
    BY <1>1, <1>4, <1>5
  <2>3. SubSeq(d, r.next + 1, from + n) = b
    BY <1>9, <1>10
  <2> QED
    BY <1>10, <2>1, <2>2, <2>3 DEF Delimited
<1> QED
  BY <1>3, <1>6, <1>11 DEF ReadBytes, Piece, r, from, n

\* What a tag says of the field after it.
IsTag(tag, num, wire) ==
    tag \in 8..127 /\ num = tag \div 8 /\ wire = tag % 8 /\ num \in 1..15

LEMMA ReadsVarintField ==
    ASSUME NEW d \in Bytes, NEW i \in Nat, NEW tag, NEW num, IsTag(tag, num, 0),
           NEW v \in Nat, v < WordSize, Holds(d, i, VarintField(tag, v)),
           NEW wires, num \in DOMAIN wires, wires[num] = 0
    PROVE  LET next == i + Len(VarintField(tag, v))
           IN FieldAt(d, wires, i) = Found(num, d, Varint(v, next), next)
<1> DEFINE enc == encodeVarintGenerated(v)
           one == <<tag>>
           next == i + Len(VarintField(tag, v))
<1>1. tag \in 8..127 /\ tag \in Byte /\ num = tag \div 8 /\ 0 = tag % 8 /\ num > 0
  BY DEF IsTag, Byte
<1>2. one \in Bytes /\ Len(one) = 1 /\ enc \in Bytes /\ Len(enc) = sovGenerated(v)
  BY <1>1, TagBytes, EncodeLen
<1>3. Holds(d, i, one) /\ Holds(d, i + 1, enc)
  <2> HIDE DEF one, enc
  <2>1. Holds(d, i, one \o enc)
    BY DEF VarintField, one, enc
  <2>2. Holds(d, i, one)
    BY <1>2, <2>1, HoldsJoined
  <2>3. Holds(d, i + Len(one), enc)
    BY <1>2, <2>1, HoldsJoined
  <2>4. i + Len(one) = i + 1
    BY <1>2
  <2> QED
    BY <2>2, <2>3, <2>4
<1>4. Tag(d, i) = TagIs(i + 1, 0, num)
  <2>1. Tag(d, i) = TagIs(i + 1, tag % 8, tag \div 8)
    BY <1>1, <1>3, ReadsTag
  <2> QED
    BY <1>1, <2>1
<1>5. i + 1 \in Nat
  OBVIOUS
<1>6. ReadVarint(d, i + 1) = Varint(v, (i + 1) + sovGenerated(v))
  BY <1>3, <1>5, ReadsVarint
<1>7. (i + 1) + sovGenerated(v) = next
  <2>1. Len(VarintField(tag, v)) = 1 + sovGenerated(v) /\ sovGenerated(v) \in Nat
    BY <1>1, VarintFieldLen, SovIs DEF VarintSize
  <2> QED
    BY <2>1
<1> DEFINE t == TagIs(i + 1, 0, num)
           r == Varint(v, next)
<1>8. t.ok /\ t.next = i + 1 /\ t.wire = 0 /\ t.num = num /\ r.ok /\ r.next = next
  BY TagOk, VarintOk
<1> HIDE DEF t, r, next
<1>9. Tag(d, i) = t /\ ReadVarint(d, i + 1) = r
  BY <1>4, <1>6, <1>7 DEF t, r
<1>10. FieldAt(d, wires, i) = Member(num, d, r)
  BY <1>1, <1>8, <1>9 DEF FieldAt
<1>11. Member(num, d, r) = Found(num, d, r, next)
  BY <1>8 DEF Member, Found
<1> QED
  BY <1>10, <1>11 DEF r, next

\* Where the bytes of a delimited field start that is at the offset i.
IsFrom(from, i, tag, b) == from + Len(b) = i + Len(BytesField(tag, b))

\* A delimited field after its tag.
LEMMA HoldsField ==
    ASSUME NEW d \in Bytes, IsSlice(d), NEW i \in Nat, NEW tag, NEW num, IsTag(tag, num, 2),
           NEW b \in Bytes, Holds(d, i, BytesField(tag, b)),
           NEW from \in Nat, IsFrom(from, i, tag, b)
    PROVE  /\ Tag(d, i) = TagIs(i + 1, 2, num)
           /\ ReadBytes(d, i + 1) = Piece(b, from)
           /\ Holds(d, from, b)
<1> DEFINE enc == encodeVarintGenerated(Len(b))
           one == <<tag>>
           rest == enc \o b
<1>1. tag \in 8..127 /\ tag \in Byte /\ num = tag \div 8 /\ 2 = tag % 8
  BY DEF IsTag, Byte
<1>2. Len(b) \in Nat /\ sovGenerated(Len(b)) \in Nat
  BY BytesShape, SovIs
<1>3. one \in Bytes /\ Len(one) = 1 /\ enc \in Bytes
  BY <1>1, <1>2, TagBytes, EncodeLen
<1>4. rest \in Bytes
  BY <1>3, Joined
<1>5. BytesField(tag, b) = one \o rest
  BY <1>3, <1>4 DEF BytesField, Bytes
<1>6. Holds(d, i, one) /\ Holds(d, i + 1, rest)
  <2> HIDE DEF one, rest
  <2>1. Holds(d, i, one \o rest)
    BY <1>5
  <2>2. Holds(d, i, one)
    BY <1>3, <1>4, <2>1, HoldsJoined
  <2>3. Holds(d, i + Len(one), rest)
    BY <1>3, <1>4, <2>1, HoldsJoined
  <2>4. i + Len(one) = i + 1
    BY <1>3
  <2> QED
    BY <2>2, <2>3, <2>4
<1>7. Tag(d, i) = TagIs(i + 1, 2, num)
  <2>1. Tag(d, i) = TagIs(i + 1, tag % 8, tag \div 8)
    BY <1>1, <1>6, ReadsTag
  <2> QED
    BY <1>1, <2>1
<1>8. i + 1 \in Nat /\ from = (i + 1) + sovGenerated(Len(b))
  <2>1. Len(BytesField(tag, b)) = 1 + Len(b) + sovGenerated(Len(b))
    BY <1>1, BytesFieldLen DEF BytesSize
  <2> QED
    BY <1>2, <2>1 DEF IsFrom
<1>9. /\ ReadBytes(d, i + 1) = Piece(b, (i + 1) + sovGenerated(Len(b)))
      /\ Holds(d, (i + 1) + sovGenerated(Len(b)), b)
  BY <1>6, <1>8, ReadsBytes
<1> QED
  BY <1>7, <1>8, <1>9

LEMMA ReadsBytesField ==
    ASSUME NEW d \in Bytes, IsSlice(d), NEW i \in Nat, NEW tag, NEW num, IsTag(tag, num, 2),
           NEW b \in Bytes, Holds(d, i, BytesField(tag, b)),
           NEW wires, num \in DOMAIN wires, wires[num] = 2,
           NEW from \in Nat, IsFrom(from, i, tag, b)
    PROVE  FieldAt(d, wires, i) = Found(num, d, Piece(b, from), from + Len(b))
<1>1. Tag(d, i) = TagIs(i + 1, 2, num) /\ ReadBytes(d, i + 1) = Piece(b, from)
  BY HoldsField
<1>2. ~(num <= 0) /\ num \in Nat
  BY DEF IsTag
<1> DEFINE t == TagIs(i + 1, 2, num)
           r == Piece(b, from)
           next == from + Len(b)
<1>3. t.ok /\ t.next = i + 1 /\ t.wire = 2 /\ t.num = num /\ r.ok /\ r.next = next
  BY TagOk, PieceOk
<1> HIDE DEF t, r, next
<1>4. Tag(d, i) = t /\ ReadBytes(d, i + 1) = r
  BY <1>1 DEF t, r
<1>5. FieldAt(d, wires, i) = Member(num, d, r)
  <2>1. num \in DOMAIN wires /\ wires[num] = 2 /\ ~(wires[num] = 0)
    OBVIOUS
  <2> QED
    BY <1>2, <1>3, <1>4, <2>1 DEF FieldAt
<1>6. Member(num, d, r) = Found(num, d, r, next)
  BY <1>3 DEF Member, Found
<1> QED
  BY <1>5, <1>6 DEF r, next

LEMMA ReadsEntryField ==
    ASSUME NEW d \in Bytes, IsSlice(d), NEW i \in Nat, NEW tag, NEW num, IsTag(tag, num, 2),
           num \in {1, 2}, NEW b \in Bytes, Holds(d, i, BytesField(tag, b)), NEW post,
           NEW from \in Nat, IsFrom(from, i, tag, b)
    PROVE  EntryMemberAt(d, post, i) = Found(num, d, Piece(b, from), from + Len(b))
<1>1. Tag(d, i) = TagIs(i + 1, 2, num)
  BY HoldsField
<1>2. ReadBytes(d, i + 1) = Piece(b, from)
  BY HoldsField
<1> DEFINE t == TagIs(i + 1, 2, num)
           r == Piece(b, from)
           next == from + Len(b)
<1>3. t.ok /\ t.next = i + 1 /\ t.wire = 2 /\ t.num = num /\ r.ok /\ r.next = next
  BY TagOk, PieceOk
<1> HIDE DEF t, r, next
<1>4. Tag(d, i) = t /\ ReadBytes(d, i + 1) = r
  BY <1>1, <1>2 DEF t, r
<1>5. EntryMemberAt(d, post, i) = Member(num, d, r)
  BY <1>3, <1>4 DEF EntryMemberAt
<1>6. Member(num, d, r) = Found(num, d, r, next)
  BY <1>3 DEF Member, Found
<1> QED
  BY <1>5, <1>6 DEF r, next

LEMMA SkipsField ==
    ASSUME NEW d \in Bytes, IsSlice(d), NEW i \in Nat, NEW b \in Bytes, Holds(d, i, b),
           skipGenerated(b, 0) = Len(b), Tag(b, 0).wire # 4, Tag(b, 0).num > 5,
           NEW wires, DOMAIN wires \subseteq 1..5
    PROVE  /\ FieldAt(d, wires, i) = PassedBy(i + Len(b))
           /\ Len(b) > 0
<1>1. SameTag(Tag(b, 0), Tag(d, i + 0), i, 0, b)
  BY TagSame
<1>2. skipGenerated(d, i) = i + Len(b)
  BY FieldSkipped
<1>3. Len(b) \in Nat /\ Len(d) \in Nat /\ i + Len(b) <= Len(d) /\ i + 0 = i
  BY BytesShape DEF Holds
<1>4. Len(b) > 0 /\ Tag(b, 0) # NotOk
  <2>1. PICK f : IsSkip(b, f) /\ skipGenerated(b, 0) = f[Len(b)][<<0, 0>>]
    BY SkipIs
  <2>2. f[Len(b)][<<0, 0>>] = IF Len(b) = 0 \/ 0 >= Len(b) THEN -1
                              ELSE SkipFrom(b, f[Len(b) - 1], Tag(b, 0), 0)
    BY <1>3, <2>1, SkipAt
  <2> QED
    BY <1>3, <2>1, <2>2, NotOkIsNot DEF SkipFrom
<1>5. PICK n \in Nat, w \in 0..7, k \in Int : Tag(b, 0) = TagIs(n, w, k) /\ Tag(d, i) = TagIs(i + n, w, k)
  BY <1>1, <1>3, <1>4 DEF SameTag
<1>6. w # 4 /\ k > 5
  BY <1>5, TagOk
<1> DEFINE t == TagIs(i + n, w, k)
<1>7. t.ok /\ t.wire = w /\ t.num = k
  BY TagOk
<1> HIDE DEF t
<1>8. Tag(d, i) = t
  BY <1>5 DEF t
<1>9. k \notin DOMAIN wires /\ ~(k <= 0)
  BY <1>6
<1>10. FieldAt(d, wires, i) = Skipped(skipGenerated(d, i), Len(d))
  BY <1>6, <1>7, <1>8, <1>9 DEF FieldAt
<1>11. Skipped(i + Len(b), Len(d)) = PassedBy(i + Len(b))
  BY <1>3 DEF Skipped, PassedBy
<1> QED
  BY <1>2, <1>4, <1>10, <1>11

-----------------------------------------------------------------------------
(* Reading a message, from the field at an offset to the end of the bytes. *)

FieldsOf(d, wires) == [i \in Nat |-> FieldAt(d, wires, i)]
EntryOf(d, post) == [i \in Nat |-> EntryMemberAt(d, post, i)]

\* The fields of d from the offset i on make r of the message m.
Reads(kind, wires, d, i, m, r) == Gives(kind, FieldsOf(d, wires), Len(d), i, m, r)

MemberOf(num, d, v) == [ok |-> TRUE, num |-> num, d |-> d, v |-> v]

\* The field num with the bytes b in d, or with the varint v, makes n of m.
Takes(kind, num, d, b, m, n) ==
    m # NotOk /\ \A from \in Nat : Holds(d, from, b) =>
                     StepOf(kind, m, MemberOf(num, d, Piece(b, from))) = n
TakesVarint(kind, num, d, v, m, n) ==
    m # NotOk /\ \A next : StepOf(kind, m, MemberOf(num, d, Varint(v, next))) = n

LEMMA ReadsEnd ==
    ASSUME NEW kind, NEW wires, NEW d \in Bytes, NEW m
    PROVE  Reads(kind, wires, d, Len(d), m, m)
BY BytesShape, GivesEnd DEF Reads

LEMMA FromExists ==
    ASSUME NEW i \in Nat, NEW tag, NEW num, IsTag(tag, num, 2), NEW b \in Bytes
    PROVE  LET next == i + Len(BytesField(tag, b))
               from == next - Len(b)
           IN /\ from \in Nat /\ next \in Nat /\ i < next /\ from + Len(b) = next
              /\ IsFrom(from, i, tag, b)
<1>1. Len(BytesField(tag, b)) = 1 + Len(b) + sovGenerated(Len(b)) /\ Len(b) \in Nat
      /\ sovGenerated(Len(b)) \in Nat
  <2>1. tag \in Byte
    BY DEF IsTag, Byte
  <2> QED
    BY <2>1, BytesFieldLen, BytesShape, SovIs DEF BytesSize
<1> QED
  BY <1>1 DEF IsFrom

LEMMA ReadsTheBytes ==
    ASSUME NEW d \in Bytes, IsSlice(d), NEW i \in Nat, NEW tag, NEW num, IsTag(tag, num, 2),
           NEW b \in Bytes, Holds(d, i, BytesField(tag, b)),
           NEW wires, num \in DOMAIN wires, wires[num] = 2,
           NEW kind, NEW m, NEW n, NEW r, Takes(kind, num, d, b, m, n),
           Reads(kind, wires, d, i + Len(BytesField(tag, b)), n, r)
    PROVE  Reads(kind, wires, d, i, m, r)
<1> DEFINE next == i + Len(BytesField(tag, b))
           from == next - Len(b)
           field == FieldsOf(d, wires)
<1>1. /\ from \in Nat /\ next \in Nat /\ i < next /\ from + Len(b) = next
      /\ IsFrom(from, i, tag, b)
  BY FromExists
<1>2. Len(d) \in Nat /\ next <= Len(d)
  BY BytesShape DEF Holds
<1>3. Reads(kind, wires, d, next, n, r)
  OBVIOUS
<1> HIDE DEF from, next
<1>4. FieldAt(d, wires, i) = Found(num, d, Piece(b, from), next)
  BY <1>1, ReadsBytesField
<1>5. field[i] = Found(num, d, Piece(b, from), next)
  BY <1>4 DEF FieldsOf
<1>6. Holds(d, from, b)
  BY <1>1, HoldsField
<1>7. m # NotOk /\ StepOf(kind, m, MemberOf(num, d, Piece(b, from))) = n
  BY <1>1, <1>6 DEF Takes
<1>8. StepOf(kind, m, [ok |-> TRUE, num |-> num, d |-> d, v |-> Piece(b, from)]) = n
  BY <1>7 DEF MemberOf
<1> HIDE DEF field
<1>9. Gives(kind, field, Len(d), next, n, r)
  BY <1>3 DEF Reads, field
<1>10. Gives(kind, field, Len(d), i, m, r)
  BY <1>1, <1>2, <1>5, <1>7, <1>8, <1>9, GivesMember
<1> QED
  BY <1>10 DEF Reads, field

LEMMA ReadsTheVarint ==
    ASSUME NEW d \in Bytes, NEW i \in Nat, NEW tag, NEW num, IsTag(tag, num, 0),
           NEW v \in Nat, v < WordSize, Holds(d, i, VarintField(tag, v)),
           NEW wires, num \in DOMAIN wires, wires[num] = 0,
           NEW kind, NEW m, NEW n, NEW r, TakesVarint(kind, num, d, v, m, n),
           Reads(kind, wires, d, i + Len(VarintField(tag, v)), n, r)
    PROVE  Reads(kind, wires, d, i, m, r)
<1> DEFINE next == i + Len(VarintField(tag, v))
           field == FieldsOf(d, wires)
<1>1. next \in Nat /\ i < next
  <2>1. tag \in Byte
    BY DEF IsTag, Byte
  <2>2. Len(VarintField(tag, v)) = 1 + sovGenerated(v) /\ sovGenerated(v) \in Nat
    BY <2>1, VarintFieldLen, SovIs DEF VarintSize
  <2> QED
    BY <2>2
<1>2. Len(d) \in Nat /\ next <= Len(d)
  BY BytesShape DEF Holds
<1>3. Reads(kind, wires, d, next, n, r)
  OBVIOUS
<1>4. FieldAt(d, wires, i) = Found(num, d, Varint(v, next), next)
  BY ReadsVarintField
<1> HIDE DEF next
<1>5. field[i] = Found(num, d, Varint(v, next), next)
  BY <1>4 DEF FieldsOf
<1>7. m # NotOk /\ StepOf(kind, m, MemberOf(num, d, Varint(v, next))) = n
  BY DEF TakesVarint
<1>8. StepOf(kind, m, [ok |-> TRUE, num |-> num, d |-> d, v |-> Varint(v, next)]) = n
  BY <1>7 DEF MemberOf
<1> HIDE DEF field
<1>9. Gives(kind, field, Len(d), next, n, r)
  BY <1>3 DEF Reads, field
<1>10. Gives(kind, field, Len(d), i, m, r)
  BY <1>1, <1>2, <1>5, <1>7, <1>8, <1>9, GivesMember
<1> QED
  BY <1>10 DEF Reads, field

\* A field that no message has, as those of NewFields.
IsUnknown(b) ==
    b \in Bytes /\ skipGenerated(b, 0) = Len(b) /\ Tag(b, 0).wire # 4 /\ Tag(b, 0).num > 5

LEMMA ReadsPast ==
    ASSUME NEW d \in Bytes, IsSlice(d), NEW i \in Nat, NEW b, IsUnknown(b), Holds(d, i, b),
           NEW wires, DOMAIN wires \subseteq 1..5,
           NEW kind, NEW m, NEW r, Reads(kind, wires, d, i + Len(b), m, r)
    PROVE  Reads(kind, wires, d, i, m, r)
<1> DEFINE next == i + Len(b)
           field == FieldsOf(d, wires)
<1>1. b \in Bytes /\ Len(b) \in Nat
  BY BytesShape DEF IsUnknown
<1>2. FieldAt(d, wires, i) = PassedBy(next) /\ Len(b) > 0
  BY SkipsField DEF IsUnknown
<1>3. next \in Nat /\ i < next /\ next <= Len(d) /\ Len(d) \in Nat
  BY <1>1, <1>2, BytesShape DEF Holds
<1>4. Reads(kind, wires, d, next, m, r)
  OBVIOUS
<1> HIDE DEF next
<1>5. field[i] = PassedBy(next)
  BY <1>2 DEF FieldsOf
<1> HIDE DEF field
<1>6. Gives(kind, field, Len(d), next, m, r)
  BY <1>4 DEF Reads, field
<1>7. Gives(kind, field, Len(d), i, m, r)
  BY <1>3, <1>5, <1>6, GivesSkip
<1> QED
  BY <1>7 DEF Reads, field

LEMMA ReadsEntry ==
    ASSUME NEW d \in Bytes, IsSlice(d), NEW i \in Nat, NEW tag, NEW num, IsTag(tag, num, 2),
           num \in {1, 2}, NEW b \in Bytes, Holds(d, i, BytesField(tag, b)), NEW post \in Nat,
           i + Len(BytesField(tag, b)) <= post,
           NEW m, NEW n, NEW r, Takes("Entry", num, d, b, m, n),
           Gives("Entry", EntryOf(d, post), post, i + Len(BytesField(tag, b)), n, r)
    PROVE  Gives("Entry", EntryOf(d, post), post, i, m, r)
<1> DEFINE next == i + Len(BytesField(tag, b))
           from == next - Len(b)
           field == EntryOf(d, post)
<1>1. /\ from \in Nat /\ next \in Nat /\ i < next /\ from + Len(b) = next
      /\ IsFrom(from, i, tag, b)
  BY FromExists
<1>2. next <= post /\ Gives("Entry", field, post, next, n, r)
  OBVIOUS
<1> HIDE DEF from, next
<1>4. EntryMemberAt(d, post, i) = Found(num, d, Piece(b, from), next)
  BY <1>1, ReadsEntryField
<1>5. field[i] = Found(num, d, Piece(b, from), next)
  BY <1>4 DEF EntryOf
<1>6. Holds(d, from, b)
  BY <1>1, HoldsField
<1>7. m # NotOk /\ StepOf("Entry", m, MemberOf(num, d, Piece(b, from))) = n
  BY <1>1, <1>6 DEF Takes
<1>8. StepOf("Entry", m, [ok |-> TRUE, num |-> num, d |-> d, v |-> Piece(b, from)]) = n
  BY <1>7 DEF MemberOf
<1> HIDE DEF field
<1>10. Gives("Entry", field, post, i, m, r)
  BY <1>1, <1>2, <1>5, <1>7, <1>8, GivesMember
<1> QED
  BY <1>10 DEF field

LEMMA HeldSlice ==
    ASSUME NEW d \in Bytes, IsSlice(d), NEW i \in Nat, NEW tag, NEW num, IsTag(tag, num, 2),
           NEW b \in Bytes, Holds(d, i, BytesField(tag, b))
    PROVE  IsSlice(b)
<1> DEFINE next == i + Len(BytesField(tag, b))
           from == next - Len(b)
<1>1. from \in Nat /\ IsFrom(from, i, tag, b)
  BY FromExists
<1> HIDE DEF from, next
<1>2. Holds(d, from, b)
  BY <1>1, HoldsField
<1>3. Len(b) \in Nat /\ Len(d) \in Nat /\ from + Len(b) <= Len(d) /\ Len(d) < WordSize \div 2
  BY <1>2, BytesShape DEF Holds, IsSlice
<1>4. WordSize \div 2 \in Nat
  BY SizesAssumption
<1> QED
  BY <1>1, <1>3, <1>4 DEF IsSlice

\* A repeated field, and the messages before and after each of its encodings.
LEMMA ReadsTheRun ==
    ASSUME NEW d \in Bytes, IsSlice(d), NEW i \in Nat, NEW tag, NEW num, IsTag(tag, num, 2),
           NEW e \in Seq(Bytes), Holds(d, i, BytesFields(tag, e)),
           NEW wires, num \in DOMAIN wires, wires[num] = 2,
           NEW kind, NEW s, NEW r,
           \A k \in 1..Len(e) : IsSlice(e[k]) => Takes(kind, num, d, e[k], s[k - 1], s[k]),
           Reads(kind, wires, d, i + Len(BytesFields(tag, e)), s[Len(e)], r)
    PROVE  Reads(kind, wires, d, i, s[0], r)
<1>1. Len(e) \in Nat /\ \A k \in 1..Len(e) : e[k] \in Bytes
  OBVIOUS
<1>2. PICK f : IsRun(tag, e, f) /\ BytesFields(tag, e) = f[Len(e)]
  BY <1>1, BytesFieldsIs
<1>3. f[0] = <<>> /\ \A k \in 1..Len(e) : f[k] = f[k - 1] \o BytesField(tag, e[k])
  BY <1>2 DEF IsRun
<1>4. \A k \in 0..Len(e) : f[k] \in Bytes
  <2> DEFINE l == [k \in DOMAIN e |-> Len(e[k])]
  <2>1. SizesOf(l, e) /\ Len(l) \in Nat
    BY <1>1 DEF SizesOf
  <2> HIDE DEF l
  <2>2. PICK g : IsSum(l, g)
    BY <2>1, SizesSumIs
  <2>3. tag \in Byte
    BY DEF IsTag, Byte
  <2> QED
    BY <1>2, <2>1, <2>2, <2>3, RunLen
<1> DEFINE Q(k) == k <= Len(e) /\ Holds(d, i, f[k]) /\ Reads(kind, wires, d, i + Len(f[k]), s[k], r)
                   => Reads(kind, wires, d, i, s[0], r)
           T == {k \in Nat : Q(k)}
<1>5. 0 \in T
  <2>1. i + Len(f[0]) = i
    BY <1>3
  <2> QED
    BY <2>1
<1>6. ASSUME NEW k \in Nat, k \in T PROVE k + 1 \in T
  <2> SUFFICES ASSUME k + 1 <= Len(e), Holds(d, i, f[k + 1]),
                      Reads(kind, wires, d, i + Len(f[k + 1]), s[k + 1], r)
               PROVE  Reads(kind, wires, d, i, s[0], r)
    OBVIOUS
  <2> DEFINE a == f[k]
             b == e[k + 1]
             c == BytesField(tag, b)
             at == i + Len(a)
  <2>1. k + 1 \in 1..Len(e) /\ (k + 1) - 1 = k /\ k \in 0..Len(e)
    BY <1>1
  <2>2. a \in Bytes /\ b \in Bytes /\ f[k + 1] = a \o c
    BY <1>1, <1>3, <1>4, <2>1
  <2>3. c \in Bytes
    <3>1. tag \in Byte
      BY DEF IsTag, Byte
    <3> QED
      BY <2>2, <3>1, BytesFieldLen
  <2>4. IsSlice(b) => Takes(kind, num, d, b, s[k], s[k + 1])
    BY <2>1
  <2> HIDE DEF a, b, c
  <2>5. Holds(d, i, a) /\ Holds(d, at, c) /\ at \in Nat
    <3>1. Holds(d, i, a \o c)
      BY <2>2
    <3>2. Holds(d, i, a)
      BY <2>2, <2>3, <3>1, HoldsJoined
    <3>3. Holds(d, i + Len(a), c)
      BY <2>2, <2>3, <3>1, HoldsJoined
    <3> QED
      BY <2>2, <3>2, <3>3, BytesShape
  <2>6. i + Len(f[k + 1]) = at + Len(c)
    <3>1. Len(a \o c) = Len(a) + Len(c) /\ Len(a) \in Nat /\ Len(c) \in Nat
      BY <2>2, <2>3, Joined
    <3> QED
      BY <2>2, <3>1
  <2>7. Reads(kind, wires, d, at + Len(c), s[k + 1], r)
    BY <2>6
  <2> HIDE DEF at
  <2>8. Reads(kind, wires, d, at, s[k], r)
    <3>1. IsSlice(b)
      BY <2>2, <2>5, HeldSlice DEF c
    <3> QED
      BY <2>2, <2>4, <2>5, <2>7, <3>1, ReadsTheBytes DEF c
  <2> QED
    BY <1>6, <2>1, <2>5, <2>8 DEF at, a
<1>7. Nat \subseteq T
  <2> HIDE DEF T
  <2> QED
    BY <1>5, <1>6, Bits!Induction
<1> QED
  <2>1. Q(Len(e))
    BY <1>1, <1>7
  <2> QED
    BY <1>1, <1>2, <2>1

-----------------------------------------------------------------------------
(* TenantCapacity, TenantStatus, TenantSuspension.                         *)

LEMMA Remainder ==
    ASSUME NEW x \in 0..(IntSize - 1), NEW k \in Int
    PROVE  (x + IntSize * k) % IntSize = x
BY SizesAssumption

LEMMA SignedWord == \A v \in Int32 : Signed(Word(v), IntSize) = v
<1> SUFFICES ASSUME NEW v \in Int32 PROVE Signed(Word(v), IntSize) = v
  OBVIOUS
<1> DEFINE q == WordSize \div IntSize
           u == IF v < 0 THEN v + IntSize ELSE v
<1>1. /\ v \in Int /\ -(IntSize \div 2) <= v /\ v <= IntSize \div 2 - 1
      /\ IntSize \in Nat /\ IntSize % 2 = 0 /\ 256 <= IntSize
      /\ WordSize \in Nat /\ IntSize < WordSize
  BY SizesAssumption DEF Int32
<1>2. WordSize = IntSize * q /\ q \in Int
  BY <1>1, SizesAssumption
<1>3. u \in 0..(IntSize - 1)
  BY <1>1
<1>4. Word(v) % IntSize = u
  <2>1. CASE v >= 0
    <3>1. v < WordSize /\ v < IntSize
      BY <1>1
    <3>2. v % WordSize = v
      BY <1>1, <2>1, <3>1
    <3>3. v % IntSize = v
      BY <1>1, <2>1, <3>1
    <3>4. u = v
      BY <1>1, <2>1
    <3> HIDE DEF u
    <3> QED
      BY <3>2, <3>3, <3>4 DEF Word
  <2>2. CASE v < 0
    <3>1. v + WordSize \in 0..(WordSize - 1)
      BY <1>1, <2>2
    <3>2. v % WordSize = v + WordSize
      BY <1>1, <2>2, <3>1
    <3>3. v + WordSize = u + IntSize * (q - 1)
      BY <1>1, <1>2, <2>2
    <3> HIDE DEF u, q
    <3>4. (u + IntSize * (q - 1)) % IntSize = u
      <4>1. q - 1 \in Int
        BY <1>2
      <4> QED
        BY <1>3, <4>1, Remainder
    <3> QED
      BY <3>2, <3>3, <3>4 DEF Word
  <2> QED
    BY <1>1, <2>1, <2>2
<1>5. IF u < IntSize \div 2 THEN u = v ELSE u - IntSize = v
  BY <1>1
<1> HIDE DEF u
<1> QED
  BY <1>4, <1>5 DEF Signed

\* A limit of a tenant, and the numbers of what it may say.
Limit(tag, p) == IF p = <<>> THEN <<>> ELSE VarintField(tag, Word(p[1]))

LEMMA PointerIs ==
    ASSUME NEW S, NEW p \in Pointer(S), p # <<>>
    PROVE  p = <<p[1]>> /\ p[1] \in S /\ Len(p) = 1
<1>1. p \in Seq(S) /\ Len(p) = 1 /\ p[1] \in S
  BY PointerShape DEF Pointer
<1>2. p = [k \in 1..1 |-> p[k]]
  BY <1>1
<1>3. p = <<p[1]>>
  BY <1>1, <1>2
<1> QED
  BY <1>1, <1>3

LEMMA LimitBytes ==
    ASSUME NEW tag \in Byte, NEW p \in Pointer(Int32)
    PROVE  Limit(tag, p) \in Bytes
<1>1. CASE p = <<>>
  BY <1>1 DEF Limit, Bytes
<1>2. CASE p # <<>>
  <2>1. Word(p[1]) \in Nat
    BY <1>2, PointerIs, WordType, Int32Type
  <2> QED
    BY <1>2, <2>1, VarintFieldLen DEF Limit
<1> QED
  BY <1>1, <1>2

LEMMA ReadsLimit ==
    ASSUME NEW d \in Bytes, NEW i \in Nat, NEW tag, NEW num, IsTag(tag, num, 0),
           NEW p \in Pointer(Int32), Holds(d, i, Limit(tag, p)),
           NEW wires, num \in DOMAIN wires, wires[num] = 0,
           NEW kind, NEW m, NEW n, NEW r,
           p = <<>> => m = n,
           p # <<>> => TakesVarint(kind, num, d, Word(p[1]), m, n),
           Reads(kind, wires, d, i + Len(Limit(tag, p)), n, r)
    PROVE  Reads(kind, wires, d, i, m, r)
<1>1. CASE p = <<>>
  <2>1. i + Len(Limit(tag, p)) = i
    BY <1>1 DEF Limit
  <2> QED
    BY <1>1, <2>1
<1>2. CASE p # <<>>
  <2>1. Word(p[1]) \in Nat /\ Word(p[1]) < WordSize
    BY <1>2, PointerIs, WordType, Int32Type
  <2>2. Limit(tag, p) = VarintField(tag, Word(p[1]))
    BY <1>2 DEF Limit
  <2> DEFINE v == Word(p[1])
  <2>3. TakesVarint(kind, num, d, v, m, n) /\ Holds(d, i, VarintField(tag, v))
        /\ Reads(kind, wires, d, i + Len(VarintField(tag, v)), n, r)
    BY <1>2, <2>2
  <2> HIDE DEF v
  <2> QED
    BY <2>1, <2>3, ReadsTheVarint DEF v
<1> QED
  BY <1>1, <1>2

LEMMA Tags ==
    /\ IsTag(8, 1, 0) /\ IsTag(16, 2, 0) /\ IsTag(24, 3, 0)
    /\ IsTag(10, 1, 2) /\ IsTag(18, 2, 2) /\ IsTag(26, 3, 2) /\ IsTag(34, 4, 2) /\ IsTag(42, 5, 2)
BY DEF IsTag

CapacityOf(a, b, c) == [MaxNamespaces |-> a, MaxClusterRoleBindings |-> b, MaxCRDs |-> c]

LEMMA CapacityIs ==
    ASSUME NEW a, NEW b, NEW c,
           NEW m \in [MaxNamespaces : {a}, MaxClusterRoleBindings : {b}, MaxCRDs : {c}]
    PROVE  m = CapacityOf(a, b, c)
BY DEF CapacityOf

LEMMA CapacityOk == \A a, b, c : CapacityOf(a, b, c) # NotOk
<1> SUFFICES ASSUME NEW a, NEW b, NEW c, CapacityOf(a, b, c) = NotOk PROVE FALSE
  OBVIOUS
<1>1. "MaxCRDs" \in DOMAIN CapacityOf(a, b, c)
  BY DEF CapacityOf
<1>2. "MaxCRDs" \notin DOMAIN NotOk
  BY DEF NotOk
<1> QED
  BY <1>1, <1>2

LEMMA CapacityTakes ==
    ASSUME NEW v, NEW x, Signed(v, IntSize) = x, NEW d, NEW a, NEW b, NEW c
    PROVE  /\ TakesVarint("Capacity", 1, d, v, CapacityOf(a, b, c), CapacityOf(<<x>>, b, c))
           /\ TakesVarint("Capacity", 2, d, v, CapacityOf(a, b, c), CapacityOf(a, <<x>>, c))
           /\ TakesVarint("Capacity", 3, d, v, CapacityOf(a, b, c), CapacityOf(a, b, <<x>>))
<1> DEFINE m == CapacityOf(a, b, c)
<1>1. ASSUME NEW next
      PROVE  /\ StepOf("Capacity", m, MemberOf(1, d, Varint(v, next))) = CapacityOf(<<x>>, b, c)
             /\ StepOf("Capacity", m, MemberOf(2, d, Varint(v, next))) = CapacityOf(a, <<x>>, c)
             /\ StepOf("Capacity", m, MemberOf(3, d, Varint(v, next))) = CapacityOf(a, b, <<x>>)
  <2> DEFINE f(k) == MemberOf(k, d, Varint(v, next))
  <2>1. \A k : f(k).num = k /\ f(k).v.val = v
    BY VarintOk DEF MemberOf
  <2> HIDE DEF f
  <2>2. \A k : StepOf("Capacity", m, f(k)) = TenantCapacitySet(m, f(k))
    BY DEF StepOf
  <2>3. [m EXCEPT !.MaxNamespaces = <<x>>] = CapacityOf(<<x>>, b, c)
    BY CapacityIs DEF CapacityOf
  <2>4. [m EXCEPT !.MaxClusterRoleBindings = <<x>>] = CapacityOf(a, <<x>>, c)
    BY CapacityIs DEF CapacityOf
  <2>5. [m EXCEPT !.MaxCRDs = <<x>>] = CapacityOf(a, b, <<x>>)
    BY CapacityIs DEF CapacityOf
  <2> HIDE DEF m
  <2>6. /\ TenantCapacitySet(m, f(1)) = [m EXCEPT !.MaxNamespaces = <<x>>]
        /\ TenantCapacitySet(m, f(2)) = [m EXCEPT !.MaxClusterRoleBindings = <<x>>]
        /\ TenantCapacitySet(m, f(3)) = [m EXCEPT !.MaxCRDs = <<x>>]
    BY <2>1 DEF TenantCapacitySet
  <2> QED
    BY <2>2, <2>3, <2>4, <2>5, <2>6 DEF f
<1> QED
  BY <1>1, CapacityOk DEF TakesVarint

LEMMA HoldsTwo ==
    ASSUME NEW d \in Bytes, NEW i \in Nat, NEW a \in Bytes, NEW b \in Bytes, Holds(d, i, a \o b)
    PROVE  /\ Holds(d, i, a) /\ Holds(d, i + Len(a), b)
           /\ i + Len(a) \in Nat /\ i + Len(a \o b) = (i + Len(a)) + Len(b)
<1>1. Holds(d, i, a)
  BY HoldsJoined
<1>2. Holds(d, i + Len(a), b)
  BY HoldsJoined
<1>3. Len(a \o b) = Len(a) + Len(b) /\ Len(a) \in Nat /\ Len(b) \in Nat
  BY Joined
<1> QED
  BY <1>1, <1>2, <1>3

LEMMA HoldsThree ==
    ASSUME NEW d \in Bytes, NEW i \in Nat, NEW a \in Bytes, NEW b \in Bytes, NEW c \in Bytes,
           Holds(d, i, (a \o b) \o c)
    PROVE  /\ Holds(d, i, a) /\ Holds(d, i + Len(a), b) /\ Holds(d, (i + Len(a)) + Len(b), c)
           /\ i + Len(a) \in Nat /\ (i + Len(a)) + Len(b) \in Nat
           /\ i + Len((a \o b) \o c) = ((i + Len(a)) + Len(b)) + Len(c)
<1> DEFINE ab == a \o b
<1>1. ab \in Bytes /\ Holds(d, i, ab \o c)
  BY Joined
<1> HIDE DEF ab
<1>2. /\ Holds(d, i, ab) /\ Holds(d, i + Len(ab), c)
      /\ i + Len(ab) \in Nat /\ i + Len(ab \o c) = (i + Len(ab)) + Len(c)
  BY <1>1, HoldsTwo
<1>3. /\ Holds(d, i, a) /\ Holds(d, i + Len(a), b)
      /\ i + Len(a) \in Nat /\ i + Len(a \o b) = (i + Len(a)) + Len(b)
  BY <1>2, HoldsTwo DEF ab
<1> QED
  BY <1>2, <1>3 DEF ab

LEMMA ReadsAll ==
    ASSUME NEW kind, NEW wires, NEW d \in Bytes, NEW m, NEW r, Reads(kind, wires, d, 0, m, r)
    PROVE  Brings(kind, m, Fields(d, wires), r)
<1> DEFINE field == FieldsOf(d, wires)
<1>1. Gives(kind, field, Len(d), 0, m, r) /\ Len(d) \in Nat /\ 0 \in Nat
  BY BytesShape DEF Reads
<1>2. Fields(d, wires) = MembersBy(field, 0, Len(d))
  BY DEF Fields, FieldsOf
<1> HIDE DEF field
<1> QED
  BY <1>1, <1>2, GivesAll

LEMMA LimitTaken ==
    ASSUME NEW p \in Pointer(Int32), p # <<>>
    PROVE  <<Signed(Word(p[1]), IntSize)>> = p
<1>1. p = <<p[1]>> /\ p[1] \in Int32
  BY PointerIs
<1>2. Signed(Word(p[1]), IntSize) = p[1]
  BY <1>1, SignedWord
<1> QED
  BY <1>1, <1>2

LEMMA CapacityReads ==
    ASSUME NEW d \in Bytes, NEW i \in Nat, NEW m \in TenantCapacities,
           Holds(d, i, TenantCapacityBytes(m)),
           NEW r, Reads("Capacity", <<0, 0, 0>>, d, i + Len(TenantCapacityBytes(m)), m, r)
    PROVE  Reads("Capacity", <<0, 0, 0>>, d, i, Reset.TenantCapacity, r)
<1> DEFINE p == m.MaxNamespaces
           q == m.MaxClusterRoleBindings
           s == m.MaxCRDs
           wires == <<0, 0, 0>>
           a == Limit(8, p)
           b == Limit(16, q)
           c == Limit(24, s)
           j == i + Len(a)
           k == j + Len(b)
<1>1. p \in Pointer(Int32) /\ q \in Pointer(Int32) /\ s \in Pointer(Int32)
  BY DEF TenantCapacities
<1>2. a \in Bytes /\ b \in Bytes /\ c \in Bytes
  BY <1>1, LimitBytes, TagsAreBytes
<1>3. TenantCapacityBytes(m) = (a \o b) \o c
  BY DEF TenantCapacityBytes, Limit
<1>4. m = CapacityOf(p, q, s) /\ Reset.TenantCapacity = CapacityOf(<<>>, <<>>, <<>>)
  BY DEF TenantCapacities, CapacityOf, Reset
<1>5. \A n \in 1..3 : n \in DOMAIN wires /\ wires[n] = 0
  OBVIOUS
<1> HIDE DEF wires, p, q, s
<1>6. /\ Holds(d, i, a) /\ Holds(d, j, b) /\ Holds(d, k, c)
      /\ j \in Nat /\ k \in Nat /\ i + Len((a \o b) \o c) = k + Len(c)
  <2> HIDE DEF a, b, c
  <2>1. Holds(d, i, (a \o b) \o c)
    BY <1>3
  <2> QED
    BY <1>2, <2>1, HoldsThree
<1>7. Reads("Capacity", wires, d, k + Len(c), CapacityOf(p, q, s), r)
  <2> HIDE DEF a, b, c
  <2> QED
    BY <1>3, <1>4, <1>6 DEF wires
<1> HIDE DEF j, k
<1>8. Reads("Capacity", wires, d, k, CapacityOf(p, q, <<>>), r)
  <2>1. s # <<>> => TakesVarint("Capacity", 3, d, Word(s[1]), CapacityOf(p, q, <<>>), CapacityOf(p, q, s))
    BY <1>1, LimitTaken, CapacityTakes
  <2> QED
    BY <1>1, <1>5, <1>6, <1>7, <2>1, Tags, ReadsLimit
<1>9. Reads("Capacity", wires, d, j, CapacityOf(p, <<>>, <<>>), r)
  <2>1. q # <<>> => TakesVarint("Capacity", 2, d, Word(q[1]),
                                CapacityOf(p, <<>>, <<>>), CapacityOf(p, q, <<>>))
    BY <1>1, LimitTaken, CapacityTakes
  <2> QED
    BY <1>1, <1>5, <1>6, <1>8, <2>1, Tags, ReadsLimit DEF k
<1>10. Reads("Capacity", wires, d, i, CapacityOf(<<>>, <<>>, <<>>), r)
  <2>1. p # <<>> => TakesVarint("Capacity", 1, d, Word(p[1]),
                                CapacityOf(<<>>, <<>>, <<>>), CapacityOf(p, <<>>, <<>>))
    BY <1>1, LimitTaken, CapacityTakes
  <2> QED
    BY <1>1, <1>5, <1>6, <1>9, <2>1, Tags, ReadsLimit DEF j
<1> QED
  BY <1>4, <1>10 DEF wires

LEMMA CapacityRead ==
    ASSUME NEW m \in TenantCapacities
    PROVE  TenantCapacityUnmarshal(Reset.TenantCapacity, TenantCapacityBytes(m)) = m
<1> DEFINE d == TenantCapacityBytes(m)
<1>1. d \in Bytes /\ Len(d) \in Nat
  BY CapacityLen, BytesShape
<1>2. Holds(d, 0, d) /\ 0 + Len(d) = Len(d)
  BY <1>1, HoldsWhole
<1>3. Reads("Capacity", <<0, 0, 0>>, d, 0 + Len(d), m, m)
  <2> HIDE DEF d
  <2> QED
    BY <1>1, <1>2, ReadsEnd
<1>4. Reads("Capacity", <<0, 0, 0>>, d, 0, Reset.TenantCapacity, m)
  BY <1>1, <1>2, <1>3, CapacityReads
<1> HIDE DEF d
<1>5. Brings("Capacity", Reset.TenantCapacity, Fields(d, <<0, 0, 0>>), m)
  BY <1>1, <1>4, ReadsAll
<1> QED
  BY <1>5, CapacitySets DEF TenantCapacityUnmarshal, d

LEMMA TwoJoined == \A x, y : <<x>> \o <<y>> = <<x, y>>
<1> SUFFICES ASSUME NEW x, NEW y PROVE <<x>> \o <<y>> = <<x, y>>
  OBVIOUS
<1> DEFINE s == <<x>> \o <<y>>
<1>1. <<x>> \in Seq({x, y}) /\ <<y>> \in Seq({x, y})
  OBVIOUS
<1>2. s \in Seq({x, y}) /\ Len(s) = 2 /\ s[1] = x /\ s[2] = y
  BY <1>1
<1> HIDE DEF s
<1>3. s = <<x, y>>
  BY <1>2
<1> QED
  BY <1>3 DEF s

OnlineOf(b) == [Online |-> b]

LEMMA OnlineOk == \A b : OnlineOf(b) # NotOk
<1> SUFFICES ASSUME NEW b, OnlineOf(b) = NotOk PROVE FALSE
  OBVIOUS
<1>1. "Online" \in DOMAIN OnlineOf(b)
  BY DEF OnlineOf
<1>2. "Online" \notin DOMAIN NotOk
  BY DEF NotOk
<1> QED
  BY <1>1, <1>2

LEMMA OnlineTakes ==
    ASSUME NEW d, NEW b \in BOOLEAN, NEW x \in BOOLEAN
    PROVE  TakesVarint("Online", 1, d, IF b THEN 1 ELSE 0, OnlineOf(x), OnlineOf(b))
<1> DEFINE v == IF b THEN 1 ELSE 0
           m == OnlineOf(x)
<1>1. ASSUME NEW next
      PROVE  StepOf("Online", m, MemberOf(1, d, Varint(v, next))) = OnlineOf(b)
  <2> DEFINE f == MemberOf(1, d, Varint(v, next))
  <2>1. f.v.val = v
    BY VarintOk DEF MemberOf
  <2> HIDE DEF f
  <2>2. StepOf("Online", m, f) = [m EXCEPT !.Online = f.v.val # 0]
    BY DEF StepOf, TenantStatusSet
  <2>3. (f.v.val # 0) = b
    BY <2>1
  <2>4. [m EXCEPT !.Online = b] = OnlineOf(b)
    BY DEF OnlineOf
  <2> QED
    BY <2>2, <2>3, <2>4 DEF f
<1> QED
  BY <1>1, OnlineOk DEF TakesVarint

LEMMA StatusRead ==
    ASSUME NEW m \in TenantStatuses, NEW n \in TenantStatuses
    PROVE  TenantStatusUnmarshal(n, TenantStatusBytes(m)) = m
<1> DEFINE d == TenantStatusBytes(m)
           v == IF m.Online THEN 1 ELSE 0
           wires == <<0>>
<1>1. d \in Bytes /\ Len(d) \in Nat
  BY StatusLen, BytesShape
<1>2. Holds(d, 0, d) /\ 0 + Len(d) = Len(d)
  BY <1>1, HoldsWhole
<1>3. d = VarintField(8, v)
  <2>1. v \in Nat /\ v < 128
    OBVIOUS
  <2>2. encodeVarintGenerated(v) = <<v>>
    BY <2>1, EncodeIs
  <2> HIDE DEF v
  <2>3. <<8>> \o <<v>> = <<8, v>>
    BY TwoJoined
  <2> QED
    BY <2>2, <2>3 DEF TenantStatusBytes, VarintField, v
<1>4. m.Online \in BOOLEAN /\ m = OnlineOf(m.Online) /\ n.Online \in BOOLEAN /\ n = OnlineOf(n.Online)
  BY DEF TenantStatuses, OnlineOf
<1>5. v \in Nat /\ v < WordSize
  BY SizesAssumption
<1>6. TakesVarint("Online", 1, d, v, n, m)
  BY <1>4, OnlineTakes
<1>7. 1 \in DOMAIN wires /\ wires[1] = 0
  OBVIOUS
<1> HIDE DEF d, v, wires
<1>8. Reads("Online", wires, d, 0 + Len(d), m, m)
  BY <1>1, <1>2, ReadsEnd
<1>9. Reads("Online", wires, d, 0, n, m)
  <2>1. Holds(d, 0, VarintField(8, v)) /\ Reads("Online", wires, d, 0 + Len(VarintField(8, v)), m, m)
    BY <1>2, <1>3, <1>8
  <2> QED
    BY <1>1, <1>5, <1>6, <1>7, <2>1, Tags, ReadsTheVarint
<1>10. Brings("Online", n, Fields(d, wires), m)
  BY <1>1, <1>9, ReadsAll
<1> QED
  BY <1>10, OnlineSets DEF TenantStatusUnmarshal, d, wires

SuspensionOf(a, b) == [Mode |-> a, Reason |-> b]

LEMMA SuspensionIs ==
    ASSUME NEW a, NEW b, NEW m \in [Mode : {a}, Reason : {b}]
    PROVE  m = SuspensionOf(a, b)
BY DEF SuspensionOf

LEMMA SuspensionOk == \A a, b : SuspensionOf(a, b) # NotOk
<1> SUFFICES ASSUME NEW a, NEW b, SuspensionOf(a, b) = NotOk PROVE FALSE
  OBVIOUS
<1>1. "Mode" \in DOMAIN SuspensionOf(a, b)
  BY DEF SuspensionOf
<1>2. "Mode" \notin DOMAIN NotOk
  BY DEF NotOk
<1> QED
  BY <1>1, <1>2

LEMMA SuspensionTakes ==
    ASSUME NEW d, NEW x, NEW a, NEW b
    PROVE  /\ Takes("Suspension", 1, d, x, SuspensionOf(a, b), SuspensionOf(x, b))
           /\ Takes("Suspension", 2, d, x, SuspensionOf(a, b), SuspensionOf(a, x))
<1> DEFINE m == SuspensionOf(a, b)
<1>1. ASSUME NEW from
      PROVE  /\ StepOf("Suspension", m, MemberOf(1, d, Piece(x, from))) = SuspensionOf(x, b)
             /\ StepOf("Suspension", m, MemberOf(2, d, Piece(x, from))) = SuspensionOf(a, x)
  <2> DEFINE f(k) == MemberOf(k, d, Piece(x, from))
  <2>1. \A k : f(k).num = k /\ f(k).v.val = x
    BY PieceOk DEF MemberOf
  <2> HIDE DEF f
  <2>2. \A k : StepOf("Suspension", m, f(k)) = TenantSuspensionSet(m, f(k))
    BY DEF StepOf
  <2>3. [m EXCEPT !.Mode = x] = SuspensionOf(x, b)
    BY SuspensionIs DEF SuspensionOf
  <2>4. [m EXCEPT !.Reason = x] = SuspensionOf(a, x)
    BY SuspensionIs DEF SuspensionOf
  <2> HIDE DEF m
  <2>5. /\ TenantSuspensionSet(m, f(1)) = [m EXCEPT !.Mode = x]
        /\ TenantSuspensionSet(m, f(2)) = [m EXCEPT !.Reason = x]
    BY <2>1 DEF TenantSuspensionSet
  <2> QED
    BY <2>2, <2>3, <2>4, <2>5 DEF f
<1> QED
  BY <1>1, SuspensionOk DEF Takes

LEMMA SuspensionRead ==
    ASSUME NEW m \in TenantSuspensions, IsSlice(TenantSuspensionBytes(m))
    PROVE  TenantSuspensionUnmarshal(Reset.TenantSuspension, TenantSuspensionBytes(m)) = m
<1> DEFINE d == TenantSuspensionBytes(m)
           x == m.Mode
           y == m.Reason
           a == BytesField(10, x)
           b == BytesField(18, y)
           wires == <<2, 2>>
<1>1. d \in Bytes /\ Len(d) \in Nat /\ IsSlice(d)
  BY SuspensionLen, BytesShape
<1>2. Holds(d, 0, d) /\ 0 + Len(d) = Len(d)
  BY <1>1, HoldsWhole
<1>3. x \in Bytes /\ y \in Bytes /\ m = SuspensionOf(x, y)
      /\ Reset.TenantSuspension = SuspensionOf(<<>>, <<>>)
  BY DEF TenantSuspensions, SuspensionOf, Reset
<1>4. d = a \o b
  BY DEF TenantSuspensionBytes
<1>5. \A n \in 1..2 : n \in DOMAIN wires /\ wires[n] = 2
  OBVIOUS
<1>6. a \in Bytes /\ b \in Bytes
  BY <1>3, TagsAreBytes, BytesFieldLen
<1> HIDE DEF d, a, b, x, y, wires
<1>7. /\ Holds(d, 0, a) /\ Holds(d, 0 + Len(a), b)
      /\ 0 + Len(a) \in Nat /\ Len(d) = (0 + Len(a)) + Len(b)
  <2>1. Holds(d, 0, a \o b) /\ 0 + Len(a \o b) = Len(d)
    BY <1>2, <1>4
  <2> QED
    BY <1>1, <1>6, <2>1, HoldsTwo
<1>8. Reads("Suspension", wires, d, (0 + Len(a)) + Len(b), SuspensionOf(x, y), m)
  BY <1>1, <1>3, <1>7, ReadsEnd
<1>9. Reads("Suspension", wires, d, 0 + Len(a), SuspensionOf(x, <<>>), m)
  <2>1. Takes("Suspension", 2, d, y, SuspensionOf(x, <<>>), SuspensionOf(x, y))
    BY SuspensionTakes
  <2> QED
    BY <1>1, <1>3, <1>5, <1>7, <1>8, <2>1, Tags, ReadsTheBytes DEF b
<1>10. Reads("Suspension", wires, d, 0, SuspensionOf(<<>>, <<>>), m)
  <2>1. Takes("Suspension", 1, d, x, SuspensionOf(<<>>, <<>>), SuspensionOf(x, <<>>))
    BY SuspensionTakes
  <2> QED
    BY <1>1, <1>3, <1>5, <1>7, <1>9, <2>1, Tags, ReadsTheBytes DEF a
<1>11. Brings("Suspension", SuspensionOf(<<>>, <<>>), Fields(d, wires), m)
  BY <1>1, <1>10, ReadsAll
<1> QED
  BY <1>3, <1>11, SuspensionSets DEF TenantSuspensionUnmarshal, d, wires

-----------------------------------------------------------------------------
(* TenantQuota: its entries, and the map they make.                        *)

EntryIs(k, v) == [key |-> k, value |-> v]

LEMMA EntryShape ==
    ASSUME NEW a, NEW b, NEW m \in [key : {a}, value : {b}]
    PROVE  m = EntryIs(a, b)
BY DEF EntryIs

LEMMA EntryOk == \A a, b : EntryIs(a, b) # NotOk
<1> SUFFICES ASSUME NEW a, NEW b, EntryIs(a, b) = NotOk PROVE FALSE
  OBVIOUS
<1>1. "key" \in DOMAIN EntryIs(a, b)
  BY DEF EntryIs
<1>2. "key" \notin DOMAIN NotOk
  BY DEF NotOk
<1> QED
  BY <1>1, <1>2

LEMMA EntryTakes ==
    ASSUME NEW d, NEW x, NEW a, NEW b
    PROVE  /\ Takes("Entry", 1, d, x, EntryIs(a, b), EntryIs(x, b))
           /\ Takes("Entry", 2, d, x, EntryIs(a, b), EntryIs(a, x))
<1> DEFINE m == EntryIs(a, b)
<1>1. ASSUME NEW from
      PROVE  /\ StepOf("Entry", m, MemberOf(1, d, Piece(x, from))) = EntryIs(x, b)
             /\ StepOf("Entry", m, MemberOf(2, d, Piece(x, from))) = EntryIs(a, x)
  <2> DEFINE f(k) == MemberOf(k, d, Piece(x, from))
  <2>1. \A k : f(k).num = k /\ f(k).v.val = x
    BY PieceOk DEF MemberOf
  <2> HIDE DEF f
  <2>2. \A k : StepOf("Entry", m, f(k)) = EntrySet(m, f(k))
    BY DEF StepOf
  <2>3. [m EXCEPT !.key = x] = EntryIs(x, b)
    BY EntryShape DEF EntryIs
  <2>4. [m EXCEPT !.value = x] = EntryIs(a, x)
    BY EntryShape DEF EntryIs
  <2> HIDE DEF m
  <2>5. EntrySet(m, f(1)) = [m EXCEPT !.key = x] /\ EntrySet(m, f(2)) = [m EXCEPT !.value = x]
    BY <2>1 DEF EntrySet
  <2> QED
    BY <2>2, <2>3, <2>4, <2>5 DEF f
<1> QED
  BY <1>1, EntryOk DEF Takes

LEMMA EntryRead ==
    ASSUME NEW d \in Bytes, IsSlice(d), NEW i \in Nat, NEW x \in Bytes, NEW y \in Bytes,
           Holds(d, i, EntryBytes(x, y))
    PROVE  MapEntry(d, i, i + Len(EntryBytes(x, y))) = EntryIs(x, y)
<1> DEFINE a == BytesField(10, x)
           b == BytesField(18, y)
           j == i + Len(a)
           post == i + Len(EntryBytes(x, y))
           field == EntryOf(d, post)
<1>1. a \in Bytes /\ b \in Bytes
  BY TagsAreBytes, BytesFieldLen
<1>2. EntryBytes(x, y) = a \o b
  BY DEF EntryBytes
<1> HIDE DEF a, b
<1>3. /\ Holds(d, i, a) /\ Holds(d, j, b) /\ j \in Nat /\ i + Len(a \o b) = j + Len(b)
  BY <1>1, <1>2, HoldsTwo
<1>4. post = j + Len(b) /\ post \in Nat /\ j <= post
  BY <1>1, <1>2, <1>3, BytesShape
<1> HIDE DEF post, j
<1>5. Gives("Entry", field, post, j + Len(b), EntryIs(x, y), EntryIs(x, y))
  BY <1>4, GivesEnd
<1>6. Gives("Entry", field, post, j, EntryIs(x, <<>>), EntryIs(x, y))
  <2>1. Takes("Entry", 2, d, y, EntryIs(x, <<>>), EntryIs(x, y))
    BY EntryTakes
  <2>2. j + Len(b) <= post
    BY <1>4
  <2> QED
    BY <1>3, <1>4, <1>5, <2>1, <2>2, Tags, ReadsEntry DEF b
<1>7. Gives("Entry", field, post, i, EntryIs(<<>>, <<>>), EntryIs(x, y))
  <2>1. Takes("Entry", 1, d, x, EntryIs(<<>>, <<>>), EntryIs(x, <<>>))
    BY EntryTakes
  <2>2. i + Len(a) <= post
    BY <1>4 DEF j
  <2> QED
    BY <1>3, <1>4, <1>6, <2>1, <2>2, Tags, ReadsEntry DEF a, j
<1> HIDE DEF field
<1>8. Brings("Entry", EntryIs(<<>>, <<>>), MembersBy(field, i, post), EntryIs(x, y))
  BY <1>4, <1>7, GivesAll
<1>9. SetAll(EntrySet, EntryIs(<<>>, <<>>), MembersBy(field, i, post)) = EntryIs(x, y)
  BY <1>8, EntrySets
<1> QED
  BY <1>9 DEF MapEntry, field, post, EntryOf, EntryIs

QuotaOf(hard) == [Hard |-> hard]

LEMMA QuotaShape ==
    ASSUME NEW a, NEW m \in [Hard : {a}]
    PROVE  m = QuotaOf(a)
BY DEF QuotaOf

LEMMA QuotaOk == \A a : QuotaOf(a) # NotOk
<1> SUFFICES ASSUME NEW a, QuotaOf(a) = NotOk PROVE FALSE
  OBVIOUS
<1>1. "Hard" \in DOMAIN QuotaOf(a)
  BY DEF QuotaOf
<1>2. "Hard" \notin DOMAIN NotOk
  BY DEF NotOk
<1> QED
  BY <1>1, <1>2

\* The quota after the first n of the keys were read.
Part(hard, keys, n) == [x \in {keys[j] : j \in 1..n} |-> hard[x]]
QuotaAfter(hard, keys, n) == IF n = 0 THEN QuotaOf(<<>>) ELSE QuotaOf(<<Part(hard, keys, n)>>)

LEMMA QuotaGrows ==
    ASSUME NEW hard, NEW keys, NEW n \in Nat
    PROVE  LET x == keys[n + 1]
           IN WithEntry(QuotaAfter(hard, keys, n), EntryIs(x, hard[x]))
                  = QuotaAfter(hard, keys, n + 1)
<1> DEFINE x == keys[n + 1]
           e == EntryIs(x, hard[x])
           m == QuotaAfter(hard, keys, n)
           had == IF m.Hard = <<>> THEN <<>> ELSE m.Hard[1]
           set == [k \in DOMAIN had \cup {e.key} |-> IF k = e.key THEN e.value ELSE had[k]]
<1>1. e.key = x /\ e.value = hard[x] /\ e # NotOk
  BY EntryOk DEF EntryIs
<1> HIDE DEF e
<1>2. set = Part(hard, keys, n + 1)
  <2>1. CASE n = 0
    <3>1. m.Hard = <<>>
      BY <2>1 DEF QuotaAfter, QuotaOf
    <3>2. had = <<>> /\ DOMAIN had = {}
      BY <3>1
    <3>3. {keys[j] : j \in 1..(n + 1)} = {x}
      BY <2>1
    <3> HIDE DEF had, x
    <3> QED
      BY <1>1, <3>2, <3>3 DEF Part
  <2>2. CASE n # 0
    <3>1. m.Hard = <<Part(hard, keys, n)>>
      BY <2>2 DEF QuotaAfter, QuotaOf
    <3>2. had = Part(hard, keys, n)
      BY <3>1
    <3>3. {keys[j] : j \in 1..(n + 1)} = {keys[j] : j \in 1..n} \cup {x}
      OBVIOUS
    <3> HIDE DEF had, x
    <3> QED
      BY <1>1, <3>2, <3>3 DEF Part
  <2> QED
    BY <2>1, <2>2
<1>3. [m EXCEPT !.Hard = <<set>>] = QuotaOf(<<set>>)
  <2> HIDE DEF set
  <2>1. CASE n = 0
    BY <2>1, QuotaShape DEF QuotaAfter, QuotaOf
  <2>2. CASE n # 0
    BY <2>2, QuotaShape DEF QuotaAfter, QuotaOf
  <2> QED
    BY <2>1, <2>2
<1>4. WithEntry(m, e) = [m EXCEPT !.Hard = <<set>>]
  BY <1>1 DEF WithEntry
<1>5. QuotaAfter(hard, keys, n + 1) = QuotaOf(<<Part(hard, keys, n + 1)>>)
  BY DEF QuotaAfter
<1> HIDE DEF set, m
<1> QED
  BY <1>2, <1>3, <1>4, <1>5 DEF m, e

LEMMA QuotaTakes ==
    ASSUME NEW d \in Bytes, IsSlice(d), NEW hard, NEW keys, NEW n \in Nat,
           keys[n + 1] \in Bytes, hard[keys[n + 1]] \in Bytes
    PROVE  Takes("Quota", 1, d, EntryBytes(keys[n + 1], hard[keys[n + 1]]),
                 QuotaAfter(hard, keys, n), QuotaAfter(hard, keys, n + 1))
<1> DEFINE x == keys[n + 1]
           y == hard[x]
           b == EntryBytes(x, y)
           m == QuotaAfter(hard, keys, n)
           r == QuotaAfter(hard, keys, n + 1)
<1>1. WithEntry(m, EntryIs(x, y)) = r
  BY QuotaGrows
<1>2. m # NotOk
  BY QuotaOk DEF QuotaAfter
<1> HIDE DEF m, r
<1>3. x \in Bytes /\ y \in Bytes
  OBVIOUS
<1> HIDE DEF x, y
<1>4. ASSUME NEW from \in Nat, Holds(d, from, b)
      PROVE  StepOf("Quota", m, MemberOf(1, d, Piece(b, from))) = r
  <2>1. MapEntry(d, from, from + Len(b)) = EntryIs(x, y)
    BY <1>3, <1>4, EntryRead
  <2> HIDE DEF b
  <2> DEFINE f == MemberOf(1, d, Piece(b, from))
  <2>2. f.d = d /\ f.v.from = from /\ f.v.next = from + Len(b)
    BY PieceOk DEF MemberOf
  <2> HIDE DEF f
  <2>3. StepOf("Quota", m, f) = TenantQuotaSet(m, f)
    BY DEF StepOf
  <2>4. TenantQuotaSet(m, f) = WithEntry(m, EntryIs(x, y))
    BY <2>1, <2>2 DEF TenantQuotaSet
  <2> QED
    BY <1>1, <2>3, <2>4 DEF f
<1>5. Takes("Quota", 1, d, b, m, r)
  BY <1>2, <1>4 DEF Takes
<1> QED
  BY <1>5 DEF b, x, y, m, r

\* An empty map and none are the same on the wire.
SameQuota(q) == IF q.Hard = <<>> THEN q ELSE IF DOMAIN q.Hard[1] = {} THEN QuotaOf(<<>>) ELSE q

LEMMA QuotaRead ==
    ASSUME NEW m \in TenantQuotas, NEW order, IsMapOrder(order), IsSlice(TenantQuotaBytes(m, order))
    PROVE  TenantQuotaUnmarshal(QuotaOf(<<>>), TenantQuotaBytes(m, order)) = SameQuota(m)
<1> DEFINE d == TenantQuotaBytes(m, order)
           wires == <<2>>
           zero == QuotaOf(<<>>)
<1>1. m.Hard \in Pointer(ResourceLists) /\ m = QuotaOf(m.Hard)
  BY DEF TenantQuotas, QuotaOf
<1>2. d \in Bytes /\ Len(d) \in Nat /\ IsSlice(d) /\ Holds(d, 0, d) /\ 0 + Len(d) = Len(d)
  BY QuotaLen, BytesShape, HoldsWhole
<1>3. 1 \in DOMAIN wires /\ wires[1] = 2
  OBVIOUS
<1>4. Reads("Quota", wires, d, 0, zero, SameQuota(m))
  <2>1. CASE m.Hard = <<>>
    <3>1. d = <<>> /\ SameQuota(m) = zero
      BY <1>1, <2>1 DEF TenantQuotaBytes, SameQuota
    <3>2. Len(d) = 0
      BY <3>1
    <3> HIDE DEF d, zero, wires
    <3>3. Reads("Quota", wires, d, Len(d), zero, zero)
      BY <1>2, ReadsEnd
    <3> QED
      BY <3>1, <3>2, <3>3
  <2>2. CASE m.Hard # <<>>
    <3> DEFINE hard == m.Hard[1]
               K == DOMAIN hard
               keys == keysForHard(hard, order)
               e == [n \in DOMAIN keys |-> EntryBytes(keys[n], hard[keys[n]])]
               s == [n \in Nat |-> QuotaAfter(hard, keys, n)]
    <3>1. hard \in ResourceLists /\ m.Hard = <<hard>>
      BY <1>1, <2>2, PointerIs
    <3>2. keys \in OrdersOf(K) /\ K \subseteq Bytes /\ \A k \in K : hard[k] \in Bytes
      BY <3>1, KeysInOrder
    <3>3. d = BytesFields(10, e)
      BY <2>2 DEF TenantQuotaBytes, Each
    <3>4. hard = [x \in K |-> hard[x]]
      BY <3>1, ResourceListsAssumption
    <3>5. SameQuota(m) = IF K = {} THEN zero ELSE QuotaOf(<<hard>>)
      BY <1>1, <2>2, <3>1 DEF SameQuota
    <3> HIDE DEF d, wires, hard, keys
    <3>6. /\ DOMAIN keys = 1..Len(keys) /\ Len(keys) \in Nat
          /\ \A n \in 1..Len(keys) : keys[n] \in K
          /\ \A k \in K : \E n \in 1..Len(keys) : keys[n] = k
      BY <3>2, OrderShape
    <3>7. \A n \in 1..Len(keys) : keys[n] \in Bytes /\ hard[keys[n]] \in Bytes
      BY <3>2, <3>6
    <3>8. QuotaAfter(hard, keys, Len(keys)) = SameQuota(m)
      <4>1. {keys[j] : j \in 1..Len(keys)} = K
        BY <3>6
      <4>2. CASE K = {}
        <5>1. Len(keys) = 0
          BY <3>6, <4>2
        <5> QED
          BY <3>5, <4>2, <5>1 DEF QuotaAfter
      <4>3. CASE K # {}
        <5>1. Len(keys) # 0
          BY <3>6, <4>3
        <5>2. Part(hard, keys, Len(keys)) = hard
          BY <3>4, <4>1 DEF Part
        <5> QED
          BY <3>5, <4>3, <5>1, <5>2 DEF QuotaAfter
      <4> QED
        BY <4>2, <4>3
    <3> HIDE DEF K
    <3>9. e \in Seq(Bytes) /\ Len(e) = Len(keys)
          /\ \A n \in 1..Len(keys) : e[n] = EntryBytes(keys[n], hard[keys[n]])
      <4>1. \A n \in 1..Len(keys) : EntryBytes(keys[n], hard[keys[n]]) \in Bytes
        BY <3>7, EntryLen
      <4> QED
        BY <3>6, <4>1
    <3> HIDE DEF e
    <3>10. \A n \in 1..Len(e) : Takes("Quota", 1, d, e[n], s[n - 1], s[n])
      <4> SUFFICES ASSUME NEW n \in 1..Len(e)
                   PROVE  Takes("Quota", 1, d, e[n], s[n - 1], s[n])
        OBVIOUS
      <4>1. n - 1 \in Nat /\ (n - 1) + 1 = n /\ n \in Nat /\ n \in 1..Len(keys)
        BY <3>6, <3>9
      <4>2. keys[(n - 1) + 1] \in Bytes /\ hard[keys[(n - 1) + 1]] \in Bytes
        BY <3>7, <4>1
      <4>3. Takes("Quota", 1, d, EntryBytes(keys[(n - 1) + 1], hard[keys[(n - 1) + 1]]),
                  QuotaAfter(hard, keys, n - 1), QuotaAfter(hard, keys, (n - 1) + 1))
        BY <1>2, <4>1, <4>2, QuotaTakes
      <4> QED
        BY <3>9, <4>1, <4>3
    <3>11. s[0] = zero /\ s[Len(e)] = SameQuota(m)
      BY <3>6, <3>8, <3>9 DEF QuotaAfter
    <3> HIDE DEF s, zero
    <3>12. Reads("Quota", wires, d, 0 + Len(BytesFields(10, e)), s[Len(e)], SameQuota(m))
      BY <1>2, <3>3, <3>11, ReadsEnd
    <3>13. Holds(d, 0, BytesFields(10, e))
      BY <1>2, <3>3
    <3>14. Reads("Quota", wires, d, 0, s[0], SameQuota(m))
      BY <1>2, <1>3, <3>9, <3>10, <3>12, <3>13, Tags, ReadsTheRun
    <3> QED
      BY <3>11, <3>14
  <2> QED
    BY <2>1, <2>2
<1> HIDE DEF d, zero, wires
<1>5. Brings("Quota", zero, Fields(d, wires), SameQuota(m))
  BY <1>2, <1>4, ReadsAll
<1> QED
  BY <1>5, QuotaSets DEF TenantQuotaUnmarshal, d, zero, wires

-----------------------------------------------------------------------------
(* TenantSpec.                                                             *)

SpecOf(a, b, c, e, f) ==
    [ID |-> a, Quota |-> b, Suspension |-> c, CredentialValidity |-> e, Capacity |-> f]

LEMMA SpecShape ==
    ASSUME NEW a, NEW b, NEW c, NEW e, NEW f,
           NEW m \in [ID : {a}, Quota : {b}, Suspension : {c}, CredentialValidity : {e},
                      Capacity : {f}]
    PROVE  m = SpecOf(a, b, c, e, f)
BY DEF SpecOf

LEMMA SpecOk == \A a, b, c, e, f : SpecOf(a, b, c, e, f) # NotOk
<1> SUFFICES ASSUME NEW a, NEW b, NEW c, NEW e, NEW f, SpecOf(a, b, c, e, f) = NotOk PROVE FALSE
  OBVIOUS
<1>1. "ID" \in DOMAIN SpecOf(a, b, c, e, f)
  BY DEF SpecOf
<1>2. "ID" \notin DOMAIN NotOk
  BY DEF NotOk
<1> QED
  BY <1>1, <1>2

LEMMA SpecTakesID ==
    ASSUME NEW d, NEW v, NEW x, Signed(v, IntSize) = x, NEW a, NEW b, NEW c, NEW e, NEW f
    PROVE  TakesVarint("Spec", 1, d, v, SpecOf(a, b, c, e, f), SpecOf(x, b, c, e, f))
<1> DEFINE m == SpecOf(a, b, c, e, f)
<1>1. ASSUME NEW next
      PROVE  StepOf("Spec", m, MemberOf(1, d, Varint(v, next))) = SpecOf(x, b, c, e, f)
  <2> DEFINE g == MemberOf(1, d, Varint(v, next))
  <2>1. g.num = 1 /\ g.v.val = v
    BY VarintOk DEF MemberOf
  <2> HIDE DEF g
  <2>2. [m EXCEPT !.ID = x] = SpecOf(x, b, c, e, f)
    BY SpecShape DEF SpecOf
  <2> HIDE DEF m
  <2>3. TenantSpecSet(m, g) = [m EXCEPT !.ID = x]
    BY <2>1 DEF TenantSpecSet
  <2>4. StepOf("Spec", m, g) = TenantSpecSet(m, g)
    BY DEF StepOf
  <2> QED
    BY <2>2, <2>3, <2>4 DEF g
<1> QED
  BY <1>1, SpecOk DEF TakesVarint

LEMMA SpecTakesQuota ==
    ASSUME NEW d, NEW x, NEW a, NEW b, NEW c, NEW e, NEW f,
           NEW y, TenantQuotaUnmarshal(b, x) = y, y # NotOk
    PROVE  Takes("Spec", 2, d, x, SpecOf(a, b, c, e, f), SpecOf(a, y, c, e, f))
<1> DEFINE m == SpecOf(a, b, c, e, f)
<1>1. ASSUME NEW from
      PROVE  StepOf("Spec", m, MemberOf(2, d, Piece(x, from))) = SpecOf(a, y, c, e, f)
  <2> DEFINE g == MemberOf(2, d, Piece(x, from))
  <2>1. g.num = 2 /\ g.v.val = x
    BY PieceOk DEF MemberOf
  <2> HIDE DEF g
  <2>2. [m EXCEPT !.Quota = y] = SpecOf(a, y, c, e, f) /\ m.Quota = b
    BY SpecShape DEF SpecOf
  <2> HIDE DEF m
  <2>3. TenantSpecSet(m, g) = With(m, "Quota", y)
    BY <2>1, <2>2 DEF TenantSpecSet
  <2>4. StepOf("Spec", m, g) = TenantSpecSet(m, g)
    BY DEF StepOf
  <2> QED
    BY <2>2, <2>3, <2>4 DEF g, With
<1> QED
  BY <1>1, SpecOk DEF Takes

LEMMA SpecTakesSuspension ==
    ASSUME NEW d, NEW x, NEW a, NEW b, NEW e, NEW f,
           NEW y, TenantSuspensionUnmarshal(Reset.TenantSuspension, x) = y, y # NotOk
    PROVE  Takes("Spec", 3, d, x, SpecOf(a, b, <<>>, e, f), SpecOf(a, b, <<y>>, e, f))
<1> DEFINE m == SpecOf(a, b, <<>>, e, f)
<1>1. ASSUME NEW from
      PROVE  StepOf("Spec", m, MemberOf(3, d, Piece(x, from))) = SpecOf(a, b, <<y>>, e, f)
  <2> DEFINE g == MemberOf(3, d, Piece(x, from))
  <2>1. g.num = 3 /\ g.v.val = x
    BY PieceOk DEF MemberOf
  <2> HIDE DEF g
  <2>2. [m EXCEPT !.Suspension = <<y>>] = SpecOf(a, b, <<y>>, e, f) /\ m.Suspension = <<>>
    BY SpecShape DEF SpecOf
  <2> HIDE DEF m
  <2>3. TenantSpecSet(m, g) = WithPointer(m, "Suspension", y)
    BY <2>1, <2>2 DEF TenantSpecSet
  <2>4. StepOf("Spec", m, g) = TenantSpecSet(m, g)
    BY DEF StepOf
  <2> QED
    BY <2>2, <2>3, <2>4 DEF g, WithPointer
<1> QED
  BY <1>1, SpecOk DEF Takes

LEMMA SpecTakesValidity ==
    ASSUME NEW d, NEW x, NEW a, NEW b, NEW c, NEW f
    PROVE  Takes("Spec", 4, d, x, SpecOf(a, b, c, <<>>, f), SpecOf(a, b, c, <<x>>, f))
<1> DEFINE m == SpecOf(a, b, c, <<>>, f)
<1>1. ASSUME NEW from
      PROVE  StepOf("Spec", m, MemberOf(4, d, Piece(x, from))) = SpecOf(a, b, c, <<x>>, f)
  <2> DEFINE g == MemberOf(4, d, Piece(x, from))
  <2>1. g.num = 4 /\ g.v.val = x
    BY PieceOk DEF MemberOf
  <2> HIDE DEF g
  <2>2. /\ [m EXCEPT !.CredentialValidity = <<x>>] = SpecOf(a, b, c, <<x>>, f)
        /\ m.CredentialValidity = <<>>
    BY SpecShape DEF SpecOf
  <2> HIDE DEF m
  <2>3. Foreign(<<>>, x) = x
    BY DEF Foreign
  <2>4. TenantSpecSet(m, g) = [m EXCEPT !.CredentialValidity = <<x>>]
    BY <2>1, <2>2, <2>3 DEF TenantSpecSet
  <2>5. StepOf("Spec", m, g) = TenantSpecSet(m, g)
    BY DEF StepOf
  <2> QED
    BY <2>2, <2>4, <2>5 DEF g
<1> QED
  BY <1>1, SpecOk DEF Takes

LEMMA SpecTakesCapacity ==
    ASSUME NEW d, NEW x, NEW a, NEW b, NEW c, NEW e,
           NEW y, TenantCapacityUnmarshal(Reset.TenantCapacity, x) = y, y # NotOk
    PROVE  Takes("Spec", 5, d, x, SpecOf(a, b, c, e, <<>>), SpecOf(a, b, c, e, <<y>>))
<1> DEFINE m == SpecOf(a, b, c, e, <<>>)
<1>1. ASSUME NEW from
      PROVE  StepOf("Spec", m, MemberOf(5, d, Piece(x, from))) = SpecOf(a, b, c, e, <<y>>)
  <2> DEFINE g == MemberOf(5, d, Piece(x, from))
  <2>1. g.num = 5 /\ g.v.val = x
    BY PieceOk DEF MemberOf
  <2> HIDE DEF g
  <2>2. [m EXCEPT !.Capacity = <<y>>] = SpecOf(a, b, c, e, <<y>>) /\ m.Capacity = <<>>
    BY SpecShape DEF SpecOf
  <2> HIDE DEF m
  <2>3. TenantSpecSet(m, g) = WithPointer(m, "Capacity", y)
    BY <2>1, <2>2 DEF TenantSpecSet
  <2>4. StepOf("Spec", m, g) = TenantSpecSet(m, g)
    BY DEF StepOf
  <2> QED
    BY <2>2, <2>3, <2>4 DEF g, WithPointer
<1> QED
  BY <1>1, SpecOk DEF Takes

\* Where each of five pieces starts, the first at i.
FiveAt(i, a, b, c, d, j, k, l, m) ==
    j = i + Len(a) /\ k = j + Len(b) /\ l = k + Len(c) /\ m = l + Len(d)
FiveHeld(z, i, whole, a, b, c, d, e, j, k, l, m) ==
    /\ Holds(z, i, a) /\ Holds(z, j, b) /\ Holds(z, k, c) /\ Holds(z, l, d) /\ Holds(z, m, e)
    /\ j \in Nat /\ k \in Nat /\ l \in Nat /\ m \in Nat
    /\ i + Len(whole) = m + Len(e)

LEMMA HoldsFive ==
    ASSUME NEW z \in Bytes, NEW i \in Nat, NEW a \in Bytes, NEW b \in Bytes, NEW c \in Bytes,
           NEW d \in Bytes, NEW e \in Bytes, Holds(z, i, (((a \o b) \o c) \o d) \o e),
           NEW j, NEW k, NEW l, NEW m, FiveAt(i, a, b, c, d, j, k, l, m)
    PROVE  FiveHeld(z, i, (((a \o b) \o c) \o d) \o e, a, b, c, d, e, j, k, l, m)
<1> DEFINE abc == (a \o b) \o c
<1>1. abc \in Bytes
  <2> DEFINE ab == a \o b
  <2>1. ab \in Bytes
    BY Joined
  <2> HIDE DEF ab
  <2>2. ab \o c \in Bytes
    BY <2>1, Joined
  <2> QED
    BY <2>2 DEF ab
<1>2. Holds(z, i, (abc \o d) \o e)
  OBVIOUS
<1> HIDE DEF abc
<1>3. /\ Holds(z, i, abc) /\ Holds(z, i + Len(abc), d) /\ Holds(z, (i + Len(abc)) + Len(d), e)
      /\ i + Len(abc) \in Nat /\ (i + Len(abc)) + Len(d) \in Nat
      /\ i + Len((abc \o d) \o e) = ((i + Len(abc)) + Len(d)) + Len(e)
  BY <1>1, <1>2, HoldsThree
<1>4. /\ Holds(z, i, a) /\ Holds(z, i + Len(a), b) /\ Holds(z, (i + Len(a)) + Len(b), c)
      /\ i + Len(a) \in Nat /\ (i + Len(a)) + Len(b) \in Nat
      /\ i + Len((a \o b) \o c) = ((i + Len(a)) + Len(b)) + Len(c)
  BY <1>3, HoldsThree DEF abc
<1>5. i + Len(abc) = l /\ j = i + Len(a) /\ k = j + Len(b) /\ m = l + Len(d)
  BY <1>4 DEF abc, FiveAt
<1> QED
  BY <1>3, <1>4, <1>5 DEF abc, FiveHeld

LEMMA OnlyOne == \A n \in Nat : n <= 1 => \A k \in 1..n : k = 1 /\ n = 1 /\ k - 1 = 0
  OBVIOUS

\* An optional field.
LEMMA ReadsPointer ==
    ASSUME NEW d \in Bytes, IsSlice(d), NEW i \in Nat, NEW tag, NEW num, IsTag(tag, num, 2),
           NEW e \in Seq(Bytes), Len(e) <= 1, Holds(d, i, BytesFields(tag, e)),
           NEW wires, num \in DOMAIN wires, wires[num] = 2,
           NEW kind, NEW m, NEW n, NEW r, Len(e) = 0 => m = n,
           Len(e) = 1 /\ IsSlice(e[1]) => Takes(kind, num, d, e[1], m, n),
           Reads(kind, wires, d, i + Len(BytesFields(tag, e)), n, r)
    PROVE  Reads(kind, wires, d, i, m, r)
<1> DEFINE s == [k \in Nat |-> IF k = 0 THEN m ELSE n]
<1>1. ASSUME NEW k \in 1..Len(e), IsSlice(e[k])
      PROVE  Takes(kind, num, d, e[k], s[k - 1], s[k])
  <2>1. Len(e) \in Nat
    OBVIOUS
  <2>2. s[0] = m /\ s[1] = n
    OBVIOUS
  <2> HIDE DEF s
  <2> DEFINE l == Len(e)
  <2>4. l \in Nat /\ l <= 1 /\ k \in 1..l
    BY <2>1, <1>1
  <2> HIDE DEF l
  <2>5. k = 1 /\ l = 1 /\ k - 1 = 0
    BY <2>4, OnlyOne
  <2>3. k = 1 /\ Len(e) = 1 /\ k - 1 = 0
    BY <2>5 DEF l
  <2> QED
    BY <1>1, <2>2, <2>3
<1>2. s[0] = m /\ s[Len(e)] = n
  OBVIOUS
<1> HIDE DEF s
<1>3. Reads(kind, wires, d, i + Len(BytesFields(tag, e)), s[Len(e)], r)
  BY <1>2
<1>4. Reads(kind, wires, d, i, s[0], r)
  BY <1>1, <1>3, ReadsTheRun
<1> QED
  BY <1>2, <1>4

LEMMA EachIs ==
    ASSUME NEW S, NEW p \in Pointer(S), NEW e, e = [k \in DOMAIN p |-> e[k]],
           \A k \in DOMAIN p : e[k] \in Bytes
    PROVE  e \in Seq(Bytes) /\ Len(e) <= 1 /\ (Len(e) = 0 <=> p = <<>>) /\ Len(e) = Len(p)
<1>1. Len(p) \in {0, 1} /\ DOMAIN p = 1..Len(p) /\ (p # <<>> => Len(p) = 1)
  BY PointerShape
<1>2. p = <<>> => Len(p) = 0
  OBVIOUS
<1>3. e \in Seq(Bytes) /\ Len(e) = Len(p)
  BY <1>1
<1> QED
  BY <1>1, <1>2, <1>3

LEMMA PointerSeq ==
    ASSUME NEW p \in Pointer(Bytes)
    PROVE  p \in Seq(Bytes) /\ Len(p) <= 1 /\ (Len(p) = 0 <=> p = <<>>)
<1>1. p \in Seq(Bytes) /\ Len(p) <= 1
  BY DEF Pointer
<1>2. p # <<>> => Len(p) = 1
  BY PointerShape
<1>3. p = <<>> => Len(p) = 0
  OBVIOUS
<1>4. Len(p) = 0 <=> p = <<>>
  BY <1>2, <1>3
<1> QED
  BY <1>1, <1>4

\* A spec, whose quota has no map when it is empty.
SameSpec(m) ==
    SpecOf(m.ID, SameQuota(m.Quota), m.Suspension, m.CredentialValidity, m.Capacity)

LEMMA SpecReads ==
    ASSUME NEW z \in Bytes, IsSlice(z), NEW i \in Nat, NEW m \in TenantSpecs,
           NEW order, IsMapOrder(order), Holds(z, i, TenantSpecBytes(m, order)), NEW t,
           Reads("Spec", <<0, 2, 2, 2, 2>>, z, i + Len(TenantSpecBytes(m, order)), SameSpec(m), t)
    PROVE  Reads("Spec", <<0, 2, 2, 2, 2>>, z, i, Reset.TenantSpec, t)
<1>1. /\ m.ID \in Int32 /\ m.Quota \in TenantQuotas /\ m.Suspension \in Pointer(TenantSuspensions)
      /\ m.CredentialValidity \in Pointer(Bytes) /\ m.Capacity \in Pointer(TenantCapacities)
  BY DEF TenantSpecs
<1> DEFINE w == Word(m.ID)
           qb == TenantQuotaBytes(m.Quota, order)
           p == m.Suspension
           ps == [k \in DOMAIN p |-> TenantSuspensionBytes(p[k])]
           q == m.CredentialValidity
           r == m.Capacity
           rs == [k \in DOMAIN r |-> TenantCapacityBytes(r[k])]
           a == VarintField(8, w)
           b == BytesField(18, qb)
           c == BytesFields(26, ps)
           d == BytesFields(34, q)
           e == BytesFields(42, rs)
           id == m.ID
           quota == SameQuota(m.Quota)
           none == QuotaOf(<<>>)
           wires == <<0, 2, 2, 2, 2>>
<1>2. TenantSpecBytes(m, order) = (((a \o b) \o c) \o d) \o e
  BY DEF TenantSpecBytes, Each
<1>3. w \in Nat /\ w < WordSize /\ Signed(w, IntSize) = id
  BY <1>1, WordType, Int32Type, SignedWord
<1>4. qb \in Bytes
  BY <1>1, QuotaLen
<1>5. ps \in Seq(Bytes) /\ Len(ps) <= 1 /\ (Len(ps) = 0 <=> p = <<>>)
  <2>1. \A k \in DOMAIN p : p[k] \in TenantSuspensions
    BY <1>1, PointerShape
  <2>2. \A k \in DOMAIN p : ps[k] \in Bytes
    BY <2>1, SuspensionLen
  <2>3. ps = [k \in DOMAIN p |-> ps[k]]
    OBVIOUS
  <2> HIDE DEF ps, p
  <2> QED
    BY <1>1, <2>2, <2>3, EachIs DEF p
<1>6. rs \in Seq(Bytes) /\ Len(rs) <= 1 /\ (Len(rs) = 0 <=> r = <<>>)
  <2>1. \A k \in DOMAIN r : r[k] \in TenantCapacities
    BY <1>1, PointerShape
  <2>2. \A k \in DOMAIN r : rs[k] \in Bytes
    BY <2>1, CapacityLen
  <2>3. rs = [k \in DOMAIN r |-> rs[k]]
    OBVIOUS
  <2> HIDE DEF rs, r
  <2> QED
    BY <1>1, <2>2, <2>3, EachIs DEF r
<1>7. q \in Seq(Bytes) /\ Len(q) <= 1 /\ (Len(q) = 0 <=> q = <<>>)
  <2> HIDE DEF q
  <2> QED
    BY <1>1, PointerSeq DEF q
<1>8. a \in Bytes /\ b \in Bytes /\ c \in Bytes /\ d \in Bytes /\ e \in Bytes
  <2>1. a \in Bytes /\ b \in Bytes
    BY <1>3, <1>4, TagsAreBytes, VarintFieldLen, BytesFieldLen
  <2>2. \A x \in Seq(Bytes) : SizesOf([k \in DOMAIN x |-> Len(x[k])], x)
    BY DEF SizesOf
  <2> HIDE DEF ps, q, rs
  <2>3. c \in Bytes /\ d \in Bytes /\ e \in Bytes
    BY <1>5, <1>6, <1>7, <2>2, TagsAreBytes, BytesFieldsLen
  <2> QED
    BY <2>1, <2>3
<1>9. \A n \in 2..5 : n \in DOMAIN wires /\ wires[n] = 2
  OBVIOUS
<1>10. 1 \in DOMAIN wires /\ wires[1] = 0
  OBVIOUS
<1>11. SameSpec(m) = SpecOf(id, quota, p, q, r)
       /\ Reset.TenantSpec = SpecOf(0, none, <<>>, <<>>, <<>>)
  BY DEF SameSpec, SpecOf, Reset, QuotaOf
<1> DEFINE j == i + Len(a)
           k == j + Len(b)
           l == k + Len(c)
           n == l + Len(d)
<1>12. Holds(z, i, (((a \o b) \o c) \o d) \o e)
  BY <1>2
<1> HIDE DEF a, b, c, d, e
<1>13. /\ Holds(z, i, a) /\ Holds(z, j, b) /\ Holds(z, k, c) /\ Holds(z, l, d) /\ Holds(z, n, e)
       /\ j \in Nat /\ k \in Nat /\ l \in Nat /\ n \in Nat
       /\ i + Len((((a \o b) \o c) \o d) \o e) = n + Len(e)
  <2> HIDE DEF j, k, l, n
  <2>1. FiveAt(i, a, b, c, d, j, k, l, n)
    BY DEF j, k, l, n, FiveAt
  <2>2. FiveHeld(z, i, (((a \o b) \o c) \o d) \o e, a, b, c, d, e, j, k, l, n)
    BY <1>8, <1>12, <2>1, HoldsFive
  <2> QED
    BY <2>2 DEF FiveHeld
<1> HIDE DEF wires, p, q, r, ps, rs, id, quota, none, w, qb
<1>14. Reads("Spec", wires, z, n + Len(e), SpecOf(id, quota, p, q, r), t)
  BY <1>2, <1>11, <1>13 DEF wires
<1> HIDE DEF j, k, l, n
<1>15. Reads("Spec", wires, z, n, SpecOf(id, quota, p, q, <<>>), t)
  <2>1. ASSUME Len(rs) = 1
        PROVE  Takes("Spec", 5, z, rs[1], SpecOf(id, quota, p, q, <<>>), SpecOf(id, quota, p, q, r))
    <3>1. r = <<r[1]>> /\ r[1] \in TenantCapacities /\ Len(r) = 1
      BY <1>1, <1>6, <2>1, PointerIs DEF r
    <3>2. rs[1] = TenantCapacityBytes(r[1])
      BY <3>1 DEF rs
    <3>3. TenantCapacityUnmarshal(Reset.TenantCapacity, rs[1]) = r[1]
      BY <3>1, <3>2, CapacityRead
    <3>4. r[1] # NotOk
      <4>1. r[1] = CapacityOf(r[1].MaxNamespaces, r[1].MaxClusterRoleBindings, r[1].MaxCRDs)
        BY <3>1 DEF TenantCapacities, CapacityOf
      <4> QED
        BY <4>1, CapacityOk
    <3> QED
      BY <3>1, <3>3, <3>4, SpecTakesCapacity
  <2>2. Len(rs) = 0 => SpecOf(id, quota, p, q, <<>>) = SpecOf(id, quota, p, q, r)
    BY <1>6
  <2>3. 5 \in DOMAIN wires /\ wires[5] = 2 /\ IsTag(42, 5, 2)
    BY <1>9, Tags
  <2>4. Holds(z, n, BytesFields(42, rs)) /\ n \in Nat
    BY <1>13 DEF e
  <2>5. Reads("Spec", wires, z, n + Len(BytesFields(42, rs)), SpecOf(id, quota, p, q, r), t)
    BY <1>14 DEF e
  <2> QED
    BY <1>6, <2>1, <2>2, <2>3, <2>4, <2>5, ReadsPointer
<1>16. Reads("Spec", wires, z, l, SpecOf(id, quota, p, <<>>, <<>>), t)
  <2>1. ASSUME Len(q) = 1
        PROVE  Takes("Spec", 4, z, q[1], SpecOf(id, quota, p, <<>>, <<>>),
                     SpecOf(id, quota, p, q, <<>>))
    <3>1. q = <<q[1]>>
      BY <1>1, <1>7, <2>1, PointerIs DEF q
    <3> QED
      BY <3>1, SpecTakesValidity
  <2>2. Len(q) = 0 => SpecOf(id, quota, p, <<>>, <<>>) = SpecOf(id, quota, p, q, <<>>)
    BY <1>7
  <2>3. 4 \in DOMAIN wires /\ wires[4] = 2 /\ IsTag(34, 4, 2)
    BY <1>9, Tags
  <2>4. Holds(z, l, BytesFields(34, q)) /\ l \in Nat
    BY <1>13 DEF d
  <2>5. Reads("Spec", wires, z, l + Len(BytesFields(34, q)), SpecOf(id, quota, p, q, <<>>), t)
    BY <1>15 DEF d, n
  <2> QED
    BY <1>7, <2>1, <2>2, <2>3, <2>4, <2>5, ReadsPointer
<1>17. Reads("Spec", wires, z, k, SpecOf(id, quota, <<>>, <<>>, <<>>), t)
  <2>1. ASSUME Len(ps) = 1, IsSlice(ps[1])
        PROVE  Takes("Spec", 3, z, ps[1], SpecOf(id, quota, <<>>, <<>>, <<>>),
                     SpecOf(id, quota, p, <<>>, <<>>))
    <3>1. p = <<p[1]>> /\ p[1] \in TenantSuspensions /\ Len(p) = 1
      BY <1>1, <1>5, <2>1, PointerIs DEF p
    <3>2. ps[1] = TenantSuspensionBytes(p[1])
      BY <3>1 DEF ps
    <3>3. TenantSuspensionUnmarshal(Reset.TenantSuspension, ps[1]) = p[1]
      BY <2>1, <3>1, <3>2, SuspensionRead
    <3>4. p[1] # NotOk
      <4>1. p[1] = SuspensionOf(p[1].Mode, p[1].Reason)
        BY <3>1 DEF TenantSuspensions, SuspensionOf
      <4> QED
        BY <4>1, SuspensionOk
    <3> QED
      BY <3>1, <3>3, <3>4, SpecTakesSuspension
  <2>2. Len(ps) = 0 => SpecOf(id, quota, <<>>, <<>>, <<>>) = SpecOf(id, quota, p, <<>>, <<>>)
    BY <1>5
  <2>3. 3 \in DOMAIN wires /\ wires[3] = 2 /\ IsTag(26, 3, 2)
    BY <1>9, Tags
  <2>4. Holds(z, k, BytesFields(26, ps)) /\ k \in Nat
    BY <1>13 DEF c
  <2>5. Reads("Spec", wires, z, k + Len(BytesFields(26, ps)), SpecOf(id, quota, p, <<>>, <<>>), t)
    BY <1>16 DEF c, l
  <2> QED
    BY <1>5, <2>1, <2>2, <2>3, <2>4, <2>5, ReadsPointer
<1>18. Reads("Spec", wires, z, j, SpecOf(id, none, <<>>, <<>>, <<>>), t)
  <2>1. IsSlice(qb)
    BY <1>4, <1>13, Tags, HeldSlice DEF b
  <2>2. TenantQuotaUnmarshal(none, qb) = quota
    BY <1>1, <2>1, QuotaRead DEF qb, quota, none
  <2>3. quota # NotOk
    <3>1. m.Quota = QuotaOf(m.Quota.Hard)
      BY <1>1 DEF TenantQuotas, QuotaOf
    <3> QED
      BY <3>1, QuotaOk DEF quota, SameQuota
  <2>4. Takes("Spec", 2, z, qb, SpecOf(id, none, <<>>, <<>>, <<>>), SpecOf(id, quota, <<>>, <<>>, <<>>))
    BY <2>2, <2>3, SpecTakesQuota
  <2>5. 2 \in DOMAIN wires /\ wires[2] = 2 /\ IsTag(18, 2, 2)
    BY <1>9, Tags
  <2>6. Holds(z, j, BytesField(18, qb)) /\ j \in Nat
    BY <1>13 DEF b
  <2>7. Reads("Spec", wires, z, j + Len(BytesField(18, qb)), SpecOf(id, quota, <<>>, <<>>, <<>>), t)
    BY <1>17 DEF b, k
  <2> QED
    BY <1>4, <2>4, <2>5, <2>6, <2>7, ReadsTheBytes
<1>19. Reads("Spec", wires, z, i, SpecOf(0, none, <<>>, <<>>, <<>>), t)
  <2>1. TakesVarint("Spec", 1, z, w, SpecOf(0, none, <<>>, <<>>, <<>>), SpecOf(id, none, <<>>, <<>>, <<>>))
    BY <1>3, SpecTakesID
  <2> QED
    BY <1>3, <1>10, <1>13, <1>18, <2>1, Tags, ReadsTheVarint DEF a, j
<1> QED
  BY <1>11, <1>19 DEF wires

-----------------------------------------------------------------------------
(* What reading bytes does to a message.                                   *)

\* How the bytes of a message arrive: as they were written, or from a newer
\* build with a field more before or after them.
Arrives(b, d) == d = b \/ \E field : IsUnknown(field) /\ (d = field \o b \/ d = b \o field)

\* Wherever the bytes b stand in a slice, reading them takes m to r.
Decodes(kind, wires, b, m, r) ==
    \A d \in Bytes, i \in Nat : \A t :
        IsSlice(d) /\ Holds(d, i, b) /\ Reads(kind, wires, d, i + Len(b), r, t)
            => Reads(kind, wires, d, i, m, t)

\* The wire types of messages of two, three and five fields of bytes.
Two == <<2, 2>>
Three == <<2, 2, 2>>
Five == <<0, 2, 2, 2, 2>>

LEMMA WiresKnown ==
    /\ DOMAIN Two \subseteq 1..5 /\ DOMAIN Three \subseteq 1..5 /\ DOMAIN Five \subseteq 1..5
    /\ \A n \in 1..2 : n \in DOMAIN Two /\ Two[n] = 2
    /\ \A n \in 1..3 : n \in DOMAIN Three /\ Three[n] = 2
  BY DEF Two, Three, Five

LEMMA DecodesWhole ==
    ASSUME NEW kind, NEW wires, NEW b \in Bytes, NEW m, NEW r, Decodes(kind, wires, b, m, r),
           IsSlice(b)
    PROVE  Brings(kind, m, Fields(b, wires), r)
<1>1. Holds(b, 0, b) /\ Len(b) \in Nat
  BY HoldsWhole, BytesShape
<1>2. Reads(kind, wires, b, Len(b), r, r)
  BY ReadsEnd
<1>3. 0 + Len(b) = Len(b)
  BY <1>1
<1>4. Reads(kind, wires, b, 0 + Len(b), r, r)
  BY <1>2, <1>3
<1>5. Reads(kind, wires, b, 0, m, r)
  BY <1>1, <1>4 DEF Decodes
<1> QED
  BY <1>5, ReadsAll

LEMMA DecodesFirst ==
    ASSUME NEW kind, NEW wires, NEW b \in Bytes, NEW m, NEW r, Decodes(kind, wires, b, m, r),
           NEW field, IsUnknown(field), DOMAIN wires \subseteq 1..5, IsSlice(field \o b)
    PROVE  Brings(kind, m, Fields(field \o b, wires), r)
<1> DEFINE d == field \o b
<1>1. field \in Bytes /\ d \in Bytes /\ Holds(d, 0, d)
  BY Joined, HoldsWhole DEF IsUnknown
<1>2. /\ Holds(d, 0, field) /\ Holds(d, 0 + Len(field), b)
      /\ 0 + Len(field) \in Nat /\ 0 + Len(d) = (0 + Len(field)) + Len(b)
  BY <1>1, HoldsTwo
<1> HIDE DEF d
<1>3. 0 + Len(d) = Len(d)
  BY <1>1, BytesShape
<1>4. Reads(kind, wires, d, Len(d), r, r)
  BY <1>1, ReadsEnd
<1>5. Reads(kind, wires, d, (0 + Len(field)) + Len(b), r, r)
  BY <1>2, <1>3, <1>4
<1>6. IsSlice(d)
  BY DEF d
<1>7. Reads(kind, wires, d, 0 + Len(field), m, r)
  BY <1>1, <1>2, <1>5, <1>6 DEF Decodes
<1>8. Reads(kind, wires, d, 0, m, r)
  BY <1>1, <1>2, <1>6, <1>7, ReadsPast
<1> QED
  BY <1>1, <1>8, ReadsAll DEF d

LEMMA DecodesLast ==
    ASSUME NEW kind, NEW wires, NEW b \in Bytes, NEW m, NEW r, Decodes(kind, wires, b, m, r),
           NEW field, IsUnknown(field), DOMAIN wires \subseteq 1..5, IsSlice(b \o field)
    PROVE  Brings(kind, m, Fields(b \o field, wires), r)
<1> DEFINE d == b \o field
<1>1. field \in Bytes /\ d \in Bytes /\ Holds(d, 0, d)
  BY Joined, HoldsWhole DEF IsUnknown
<1>2. /\ Holds(d, 0, b) /\ Holds(d, 0 + Len(b), field)
      /\ 0 + Len(b) \in Nat /\ 0 + Len(d) = (0 + Len(b)) + Len(field)
  BY <1>1, HoldsTwo
<1> HIDE DEF d
<1>3. 0 + Len(d) = Len(d)
  BY <1>1, BytesShape
<1>4. Reads(kind, wires, d, Len(d), r, r)
  BY <1>1, ReadsEnd
<1>5. Reads(kind, wires, d, (0 + Len(b)) + Len(field), r, r)
  BY <1>2, <1>3, <1>4
<1>6. IsSlice(d)
  BY DEF d
<1>7. Reads(kind, wires, d, 0 + Len(b), r, r)
  BY <1>1, <1>2, <1>5, <1>6, ReadsPast
<1>8. Reads(kind, wires, d, 0, m, r)
  BY <1>1, <1>2, <1>6, <1>7 DEF Decodes
<1> QED
  BY <1>1, <1>8, ReadsAll DEF d

LEMMA DecodesArrived ==
    ASSUME NEW kind, NEW wires, NEW b \in Bytes, NEW m, NEW r, Decodes(kind, wires, b, m, r),
           DOMAIN wires \subseteq 1..5, NEW d, Arrives(b, d), IsSlice(d)
    PROVE  Brings(kind, m, Fields(d, wires), r)
  BY DecodesWhole, DecodesFirst, DecodesLast DEF Arrives

LEMMA SpecDecodes ==
    ASSUME NEW m \in TenantSpecs, NEW order, IsMapOrder(order)
    PROVE  Decodes("Spec", Five, TenantSpecBytes(m, order), Reset.TenantSpec, SameSpec(m))
  BY SpecReads DEF Decodes, Five

LEMMA SpecRead ==
    ASSUME NEW m \in TenantSpecs, NEW order, IsMapOrder(order),
           NEW d, Arrives(TenantSpecBytes(m, order), d), IsSlice(d)
    PROVE  TenantSpecUnmarshal(Reset.TenantSpec, d) = SameSpec(m)
<1>1. TenantSpecBytes(m, order) \in Bytes
  BY SpecLen
<1>2. Brings("Spec", Reset.TenantSpec, Fields(d, Five), SameSpec(m))
  BY <1>1, SpecDecodes, WiresKnown, DecodesArrived
<1> QED
  BY <1>2, SpecSets DEF TenantSpecUnmarshal, Five

-----------------------------------------------------------------------------
(* Tenant.                                                                 *)

TenantIs(a, b, c) == [ObjectMeta |-> a, Spec |-> b, Status |-> c]

LEMMA TenantShape ==
    ASSUME NEW a, NEW b, NEW c, NEW m \in [ObjectMeta : {a}, Spec : {b}, Status : {c}]
    PROVE  m = TenantIs(a, b, c)
BY DEF TenantIs

LEMMA TenantOk == \A a, b, c : TenantIs(a, b, c) # NotOk
<1> SUFFICES ASSUME NEW a, NEW b, NEW c, TenantIs(a, b, c) = NotOk PROVE FALSE
  OBVIOUS
<1>1. "ObjectMeta" \in DOMAIN TenantIs(a, b, c)
  BY DEF TenantIs
<1>2. "ObjectMeta" \notin DOMAIN NotOk
  BY DEF NotOk
<1> QED
  BY <1>1, <1>2

LEMMA TenantTakesMeta ==
    ASSUME NEW d, NEW x, NEW b, NEW c
    PROVE  Takes("Tenant", 1, d, x, TenantIs(<<>>, b, c), TenantIs(x, b, c))
<1> DEFINE m == TenantIs(<<>>, b, c)
<1>1. ASSUME NEW from
      PROVE  StepOf("Tenant", m, MemberOf(1, d, Piece(x, from))) = TenantIs(x, b, c)
  <2> DEFINE g == MemberOf(1, d, Piece(x, from))
  <2>1. g.num = 1 /\ g.v.val = x
    BY PieceOk DEF MemberOf
  <2> HIDE DEF g
  <2>2. [m EXCEPT !.ObjectMeta = x] = TenantIs(x, b, c) /\ m.ObjectMeta = <<>>
    BY TenantShape DEF TenantIs
  <2> HIDE DEF m
  <2>3. Foreign(<<>>, x) = x
    BY DEF Foreign
  <2>4. TenantSet(m, g) = [m EXCEPT !.ObjectMeta = x]
    BY <2>1, <2>2, <2>3 DEF TenantSet
  <2>5. StepOf("Tenant", m, g) = TenantSet(m, g)
    BY DEF StepOf
  <2> QED
    BY <2>2, <2>4, <2>5 DEF g
<1> QED
  BY <1>1, TenantOk DEF Takes

LEMMA TenantTakesSpec ==
    ASSUME NEW d, NEW x, NEW a, NEW b, NEW c, NEW y, TenantSpecUnmarshal(b, x) = y, y # NotOk
    PROVE  Takes("Tenant", 2, d, x, TenantIs(a, b, c), TenantIs(a, y, c))
<1> DEFINE m == TenantIs(a, b, c)
<1>1. ASSUME NEW from
      PROVE  StepOf("Tenant", m, MemberOf(2, d, Piece(x, from))) = TenantIs(a, y, c)
  <2> DEFINE g == MemberOf(2, d, Piece(x, from))
  <2>1. g.num = 2 /\ g.v.val = x
    BY PieceOk DEF MemberOf
  <2> HIDE DEF g
  <2>2. [m EXCEPT !["Spec"] = y] = TenantIs(a, y, c) /\ m.Spec = b
    BY TenantShape DEF TenantIs
  <2> HIDE DEF m
  <2>3. TenantSet(m, g) = With(m, "Spec", y)
    BY <2>1, <2>2 DEF TenantSet
  <2>4. StepOf("Tenant", m, g) = TenantSet(m, g)
    BY DEF StepOf
  <2> QED
    BY <2>2, <2>3, <2>4 DEF g, With
<1> QED
  BY <1>1, TenantOk DEF Takes

LEMMA TenantTakesStatus ==
    ASSUME NEW d, NEW x, NEW a, NEW b, NEW c, NEW y, TenantStatusUnmarshal(c, x) = y, y # NotOk
    PROVE  Takes("Tenant", 3, d, x, TenantIs(a, b, c), TenantIs(a, b, y))
<1> DEFINE m == TenantIs(a, b, c)
<1>1. ASSUME NEW from
      PROVE  StepOf("Tenant", m, MemberOf(3, d, Piece(x, from))) = TenantIs(a, b, y)
  <2> DEFINE g == MemberOf(3, d, Piece(x, from))
  <2>1. g.num = 3 /\ g.v.val = x
    BY PieceOk DEF MemberOf
  <2> HIDE DEF g
  <2>2. [m EXCEPT !["Status"] = y] = TenantIs(a, b, y) /\ m.Status = c
    BY TenantShape DEF TenantIs
  <2> HIDE DEF m
  <2>3. TenantSet(m, g) = With(m, "Status", y)
    BY <2>1, <2>2 DEF TenantSet
  <2>4. StepOf("Tenant", m, g) = TenantSet(m, g)
    BY DEF StepOf
  <2> QED
    BY <2>2, <2>3, <2>4 DEF g, With
<1> QED
  BY <1>1, TenantOk DEF Takes

\* The bytes of a message of three fields of bytes.
ThreeFields(x, y, z) == BytesField(10, x) \o BytesField(18, y) \o BytesField(26, z)

\* The states that a message goes through as its three fields are read.
ThreeSteps(kind, x, y, z, s) ==
    \A d \in Bytes : /\ Takes(kind, 1, d, x, s[1], s[2])
                     /\ IsSlice(y) => Takes(kind, 2, d, y, s[2], s[3])
                     /\ IsSlice(z) => Takes(kind, 3, d, z, s[3], s[4])

LEMMA ThreeDecode ==
    ASSUME NEW kind, NEW x \in Bytes, NEW y \in Bytes, NEW z \in Bytes, NEW s,
           ThreeSteps(kind, x, y, z, s)
    PROVE  Decodes(kind, Three, ThreeFields(x, y, z), s[1], s[4])
<1> DEFINE a == BytesField(10, x)
           b == BytesField(18, y)
           c == BytesField(26, z)
           whole == (a \o b) \o c
<1> SUFFICES ASSUME NEW d \in Bytes, NEW i \in Nat, NEW t, IsSlice(d), Holds(d, i, whole),
                    Reads(kind, Three, d, i + Len(whole), s[4], t)
             PROVE  Reads(kind, Three, d, i, s[1], t)
  BY DEF Decodes, ThreeFields
<1>1. a \in Bytes /\ b \in Bytes /\ c \in Bytes
  BY TagsAreBytes, BytesFieldLen
<1> HIDE DEF a, b, c
<1> DEFINE j == i + Len(a)
           k == j + Len(b)
<1>2. /\ Holds(d, i, a) /\ Holds(d, j, b) /\ Holds(d, k, c)
      /\ j \in Nat /\ k \in Nat /\ i + Len(whole) = k + Len(c)
  BY <1>1, HoldsThree
<1>3. Reads(kind, Three, d, k + Len(c), s[4], t)
  BY <1>2
<1> HIDE DEF j, k, whole
<1>4. IsSlice(y) /\ IsSlice(z)
  BY <1>2, Tags, HeldSlice DEF b, c
<1>5. Reads(kind, Three, d, k, s[3], t)
  <2>1. 3 \in DOMAIN Three /\ Three[3] = 2 /\ Takes(kind, 3, d, z, s[3], s[4])
    BY <1>4, WiresKnown DEF ThreeSteps
  <2> QED
    BY <1>2, <1>3, <2>1, Tags, ReadsTheBytes DEF c
<1>6. Reads(kind, Three, d, j, s[2], t)
  <2>1. 2 \in DOMAIN Three /\ Three[2] = 2 /\ Takes(kind, 2, d, y, s[2], s[3])
    BY <1>4, WiresKnown DEF ThreeSteps
  <2> QED
    BY <1>2, <1>5, <2>1, Tags, ReadsTheBytes DEF b, k
<1> QED
  <2>1. 1 \in DOMAIN Three /\ Three[1] = 2 /\ Takes(kind, 1, d, x, s[1], s[2])
    BY WiresKnown DEF ThreeSteps
  <2> QED
    BY <1>2, <1>6, <2>1, Tags, ReadsTheBytes DEF a, j

-----------------------------------------------------------------------------
(* Tenants, read.                                                          *)

LEMMA SameTenantIs ==
    ASSUME NEW m \in Tenants
    PROVE  SameTenant(m) = TenantIs(m.ObjectMeta, SameSpec(m.Spec), m.Status)
<1> DEFINE spec == m.Spec
           quota == spec.Quota
           hard == quota.Hard
           h == IF hard = <<>> \/ DOMAIN hard[1] = {} THEN <<>> ELSE hard
           q == [quota EXCEPT !.Hard = h]
           s == [spec EXCEPT !.Quota = q]
<1>1. m \in [ObjectMeta : {m.ObjectMeta}, Spec : {spec}, Status : {m.Status}]
      /\ spec \in [ID : {spec.ID}, Quota : {quota}, Suspension : {spec.Suspension},
                   CredentialValidity : {spec.CredentialValidity}, Capacity : {spec.Capacity}]
      /\ quota \in [Hard : {hard}]
  BY DEF Tenants, TenantSpecs, TenantQuotas
<1>2. SameTenant(m) = [m EXCEPT !.Spec = s]
  BY DEF SameTenant
<1> HIDE DEF h, q, s
<1>3. q = QuotaOf(h)
  <2>1. q \in [Hard : {h}]
    BY <1>1 DEF q
  <2> QED
    BY <2>1, QuotaShape
<1>4. quota = QuotaOf(hard)
  BY <1>1, QuotaShape
<1>5. QuotaOf(h) = SameQuota(quota)
  BY <1>4 DEF h, SameQuota, QuotaOf
<1>6. s = SpecOf(spec.ID, q, spec.Suspension, spec.CredentialValidity, spec.Capacity)
  <2>1. s \in [ID : {spec.ID}, Quota : {q}, Suspension : {spec.Suspension},
               CredentialValidity : {spec.CredentialValidity}, Capacity : {spec.Capacity}]
    BY <1>1 DEF s
  <2> QED
    BY <2>1, SpecShape
<1>7. s = SameSpec(spec)
  BY <1>3, <1>5, <1>6 DEF SameSpec
<1>8. [m EXCEPT !.Spec = s] = TenantIs(m.ObjectMeta, s, m.Status)
  <2> DEFINE n == [m EXCEPT !.Spec = s]
  <2>1. n \in [ObjectMeta : {m.ObjectMeta}, Spec : {s}, Status : {m.Status}]
    BY <1>1
  <2> HIDE DEF n
  <2>2. n = TenantIs(m.ObjectMeta, s, m.Status)
    BY <2>1, TenantShape
  <2> QED
    BY <2>2 DEF n
<1> QED
  BY <1>2, <1>7, <1>8

\* What the message zero becomes as the fields of m are read into it.
States(zero, m) ==
    <<zero, TenantIs(m.ObjectMeta, zero.Spec, zero.Status),
      TenantIs(m.ObjectMeta, m.Spec, zero.Status), m>>

LEMMA StatesAre ==
    ASSUME NEW a, NEW b, NEW c, NEW x, NEW y, NEW z
    PROVE  LET s == States(TenantIs(a, b, c), TenantIs(x, y, z))
           IN /\ s[1] = TenantIs(a, b, c) /\ s[2] = TenantIs(x, b, c)
              /\ s[3] = TenantIs(x, y, c) /\ s[4] = TenantIs(x, y, z)
  BY DEF States, TenantIs

LEMMA TenantSteps ==
    ASSUME NEW m \in Tenants, NEW x \in Bytes,
           IsSlice(x) => TenantSpecUnmarshal(Reset.TenantSpec, x) = SameSpec(m.Spec)
    PROVE  ThreeSteps("Tenant", m.ObjectMeta, x, TenantStatusBytes(m.Status),
                      States(Reset.Tenant, SameTenant(m)))
<1> DEFINE a == m.ObjectMeta
           b == SameSpec(m.Spec)
           c == m.Status
           none == Reset.TenantSpec
           off == OnlineOf(FALSE)
           z == TenantStatusBytes(c)
<1>1. a \in Bytes /\ m.Spec \in TenantSpecs /\ c \in TenantStatuses
  BY DEF Tenants
<1>2. Reset.Tenant = TenantIs(<<>>, none, off) /\ off \in TenantStatuses
  BY DEF Reset, TenantIs, OnlineOf, TenantStatuses
<1>3. z \in Bytes
  BY <1>1, StatusLen
<1>4. TenantStatusUnmarshal(off, z) = c
  BY <1>1, <1>2, StatusRead
<1>5. c # NotOk
  <2>1. c = OnlineOf(c.Online)
    BY <1>1 DEF TenantStatuses, OnlineOf
  <2> QED
    BY <2>1, OnlineOk
<1>6. b # NotOk
  BY SpecOk DEF SameSpec
<1>7. SameTenant(m) = TenantIs(a, b, c)
  BY SameTenantIs
<1> HIDE DEF a, b, c, none, off, z
<1>8. \A d \in Bytes : Takes("Tenant", 1, d, a, TenantIs(<<>>, none, off), TenantIs(a, none, off))
  BY TenantTakesMeta
<1>9. \A d \in Bytes :
        IsSlice(x) => Takes("Tenant", 2, d, x, TenantIs(a, none, off), TenantIs(a, b, off))
  BY <1>6, TenantTakesSpec DEF b, none
<1>10. \A d \in Bytes :
        IsSlice(z) => Takes("Tenant", 3, d, z, TenantIs(a, b, off), TenantIs(a, b, c))
  BY <1>4, <1>5, TenantTakesStatus
<1> DEFINE s == States(TenantIs(<<>>, none, off), TenantIs(a, b, c))
<1>11. /\ s[1] = TenantIs(<<>>, none, off) /\ s[2] = TenantIs(a, none, off)
       /\ s[3] = TenantIs(a, b, off) /\ s[4] = TenantIs(a, b, c)
  BY StatesAre
<1> HIDE DEF s
<1>12. ThreeSteps("Tenant", a, x, z, s)
  BY <1>8, <1>9, <1>10, <1>11 DEF ThreeSteps
<1> QED
  BY <1>2, <1>7, <1>12 DEF a, c, z, s

LEMMA TenantDecodes ==
    ASSUME NEW m \in Tenants, NEW x \in Bytes,
           IsSlice(x) => TenantSpecUnmarshal(Reset.TenantSpec, x) = SameSpec(m.Spec)
    PROVE  Decodes("Tenant", Three,
                   ThreeFields(m.ObjectMeta, x, TenantStatusBytes(m.Status)),
                   Reset.Tenant, SameTenant(m))
<1> DEFINE a == m.ObjectMeta
           z == TenantStatusBytes(m.Status)
           s == States(Reset.Tenant, SameTenant(m))
<1>1. a \in Bytes /\ z \in Bytes
  BY StatusLen DEF Tenants
<1>2. ThreeSteps("Tenant", a, x, z, s)
  BY TenantSteps
<1>3. s[1] = Reset.Tenant /\ s[4] = SameTenant(m)
  BY DEF States
<1> HIDE DEF a, z, s
<1>4. Decodes("Tenant", Three, ThreeFields(a, x, z), s[1], s[4])
  BY <1>1, <1>2, ThreeDecode
<1> QED
  BY <1>3, <1>4 DEF a, z

LEMMA TenantBytesIs ==
    ASSUME NEW m, NEW order
    PROVE  TenantBytes(m, order) =
               ThreeFields(m.ObjectMeta, TenantSpecBytes(m.Spec, order), TenantStatusBytes(m.Status))
  BY DEF TenantBytes, ThreeFields

LEMMA ThreeFieldsBytes ==
    ASSUME NEW x \in Bytes, NEW y \in Bytes, NEW z \in Bytes
    PROVE  ThreeFields(x, y, z) \in Bytes
  BY ThreeFieldsLen DEF ThreeFields

LEMMA TenantRead ==
    ASSUME NEW m \in Tenants, NEW order, IsMapOrder(order),
           NEW d, Arrives(TenantBytes(m, order), d), IsSlice(d)
    PROVE  TenantUnmarshal(Reset.Tenant, d) = SameTenant(m)
<1> DEFINE x == TenantSpecBytes(m.Spec, order)
           b == TenantBytes(m, order)
<1>1. b \in Bytes
  BY TenantLen
<1>2. m.Spec \in TenantSpecs
  BY DEF Tenants
<1>3. x \in Bytes
  BY <1>2, SpecLen
<1>4. IsSlice(x) => TenantSpecUnmarshal(Reset.TenantSpec, x) = SameSpec(m.Spec)
  <2>1. Arrives(x, x)
    BY DEF Arrives
  <2> QED
    BY <1>2, <2>1, SpecRead
<1> HIDE DEF x
<1>5. Decodes("Tenant", Three, ThreeFields(m.ObjectMeta, x, TenantStatusBytes(m.Status)),
              Reset.Tenant, SameTenant(m))
  BY <1>3, <1>4, TenantDecodes
<1>6. Decodes("Tenant", Three, b, Reset.Tenant, SameTenant(m))
  BY <1>5, TenantBytesIs DEF x
<1> HIDE DEF b
<1>7. Brings("Tenant", Reset.Tenant, Fields(d, Three), SameTenant(m))
  <2>1. Arrives(b, d)
    BY DEF b
  <2> QED
    BY <1>1, <1>6, <2>1, WiresKnown, DecodesArrived
<1> QED
  BY <1>7, TenantSets DEF TenantUnmarshal, Three

LEMMA TenantReadInside ==
    ASSUME NEW m \in Tenants, NEW order, IsMapOrder(order), NEW field, IsUnknown(field),
           NEW d, IsSlice(d),
           d = ThreeFields(m.ObjectMeta, field \o TenantSpecBytes(m.Spec, order),
                           TenantStatusBytes(m.Status))
    PROVE  TenantUnmarshal(Reset.Tenant, d) = SameTenant(m)
<1> DEFINE y == TenantSpecBytes(m.Spec, order)
           x == field \o y
           z == TenantStatusBytes(m.Status)
<1>1. m.Spec \in TenantSpecs /\ m.ObjectMeta \in Bytes /\ m.Status \in TenantStatuses
  BY DEF Tenants
<1>2. y \in Bytes /\ field \in Bytes /\ z \in Bytes
  BY <1>1, SpecLen, StatusLen DEF IsUnknown
<1>3. x \in Bytes
  BY <1>2, Joined
<1>4. IsSlice(x) => TenantSpecUnmarshal(Reset.TenantSpec, x) = SameSpec(m.Spec)
  <2>1. Arrives(y, x)
    BY DEF Arrives
  <2> QED
    BY <1>1, <2>1, SpecRead
<1> HIDE DEF x
<1>5. Decodes("Tenant", Three, ThreeFields(m.ObjectMeta, x, TenantStatusBytes(m.Status)),
              Reset.Tenant, SameTenant(m))
  BY <1>3, <1>4, TenantDecodes
<1>6. Decodes("Tenant", Three, d, Reset.Tenant, SameTenant(m))
  BY <1>5 DEF x
<1>7. d \in Bytes
  BY <1>1, <1>2, <1>3, ThreeFieldsBytes DEF x
<1>8. Brings("Tenant", Reset.Tenant, Fields(d, Three), SameTenant(m))
  <2>1. Arrives(d, d)
    BY DEF Arrives
  <2> QED
    BY <1>6, <1>7, <2>1, WiresKnown, DecodesArrived
<1> QED
  BY <1>8, TenantSets DEF TenantUnmarshal, Three

-----------------------------------------------------------------------------
(* Lists: their metadata, then their items one after another.              *)

ListFields(x, e) == BytesField(10, x) \o BytesFields(18, e)

LEMMA RunBytes ==
    ASSUME NEW tag \in Byte, NEW e \in Seq(Bytes)
    PROVE  BytesFields(tag, e) \in Bytes
<1>1. SizesOf([k \in DOMAIN e |-> Len(e[k])], e)
  BY DEF SizesOf
<1> QED
  BY <1>1, BytesFieldsLen

\* The states that a list goes through as its fields are read.
ListSteps(kind, x, e, m, s) ==
    \A d \in Bytes :
        /\ Takes(kind, 1, d, x, m, s[0])
        /\ \A k \in 1..Len(e) : IsSlice(e[k]) => Takes(kind, 2, d, e[k], s[k - 1], s[k])

LEMMA ListDecode ==
    ASSUME NEW kind, NEW x \in Bytes, NEW e \in Seq(Bytes), NEW m, NEW s,
           ListSteps(kind, x, e, m, s)
    PROVE  Decodes(kind, Two, ListFields(x, e), m, s[Len(e)])
<1> DEFINE a == BytesField(10, x)
           b == BytesFields(18, e)
           whole == a \o b
<1> SUFFICES ASSUME NEW d \in Bytes, NEW i \in Nat, NEW t, IsSlice(d), Holds(d, i, whole),
                    Reads(kind, Two, d, i + Len(whole), s[Len(e)], t)
             PROVE  Reads(kind, Two, d, i, m, t)
  BY DEF Decodes, ListFields
<1>1. a \in Bytes /\ b \in Bytes
  BY TagsAreBytes, BytesFieldLen, RunBytes
<1> HIDE DEF a, b
<1> DEFINE j == i + Len(a)
<1>2. Holds(d, i, a) /\ Holds(d, j, b) /\ j \in Nat /\ i + Len(whole) = j + Len(b)
  BY <1>1, HoldsTwo
<1>3. Reads(kind, Two, d, j + Len(b), s[Len(e)], t)
  BY <1>2
<1> HIDE DEF j, whole
<1>4. Reads(kind, Two, d, j, s[0], t)
  <2>1. 2 \in DOMAIN Two /\ Two[2] = 2
    BY WiresKnown
  <2>2. \A k \in 1..Len(e) : IsSlice(e[k]) => Takes(kind, 2, d, e[k], s[k - 1], s[k])
    BY DEF ListSteps
  <2> QED
    BY <1>2, <1>3, <2>1, <2>2, Tags, ReadsTheRun DEF b
<1> QED
  <2>1. 1 \in DOMAIN Two /\ Two[1] = 2 /\ Takes(kind, 1, d, x, m, s[0])
    BY WiresKnown DEF ListSteps
  <2> QED
    BY <1>2, <1>4, <2>1, Tags, ReadsTheBytes DEF a, j

ListIs(a, b) == [ListMeta |-> a, Items |-> b]

LEMMA ListShape ==
    ASSUME NEW a, NEW b, NEW m \in [ListMeta : {a}, Items : {b}]
    PROVE  m = ListIs(a, b)
BY DEF ListIs

LEMMA ListOk == \A a, b : ListIs(a, b) # NotOk
<1> SUFFICES ASSUME NEW a, NEW b, ListIs(a, b) = NotOk PROVE FALSE
  OBVIOUS
<1>1. "Items" \in DOMAIN ListIs(a, b)
  BY DEF ListIs
<1>2. "Items" \notin DOMAIN NotOk
  BY DEF NotOk
<1> QED
  BY <1>1, <1>2

\* The first n of the items s.
Firsts(s, n) == [j \in 1..n |-> s[j]]

LEMMA FirstsGrow ==
    ASSUME NEW s, NEW n \in Nat
    PROVE  Append(Firsts(s, n), s[n + 1]) = Firsts(s, n + 1)
<1>1. Firsts(s, n) \in Seq({s[j] : j \in 1..n}) /\ Len(Firsts(s, n)) = n
  BY DEF Firsts
<1> QED
  BY <1>1 DEF Firsts

LEMMA TenantListTakesMeta ==
    ASSUME NEW d, NEW x, NEW b
    PROVE  Takes("TenantList", 1, d, x, ListIs(<<>>, b), ListIs(x, b))
<1> DEFINE m == ListIs(<<>>, b)
<1>1. ASSUME NEW from
      PROVE  StepOf("TenantList", m, MemberOf(1, d, Piece(x, from))) = ListIs(x, b)
  <2> DEFINE g == MemberOf(1, d, Piece(x, from))
  <2>1. g.num = 1 /\ g.v.val = x
    BY PieceOk DEF MemberOf
  <2> HIDE DEF g
  <2>2. [m EXCEPT !.ListMeta = x] = ListIs(x, b) /\ m.ListMeta = <<>>
    BY ListShape DEF ListIs
  <2> HIDE DEF m
  <2>3. Foreign(<<>>, x) = x
    BY DEF Foreign
  <2>4. TenantListSet(m, g) = [m EXCEPT !.ListMeta = x]
    BY <2>1, <2>2, <2>3 DEF TenantListSet
  <2>5. StepOf("TenantList", m, g) = TenantListSet(m, g)
    BY DEF StepOf
  <2> QED
    BY <2>2, <2>4, <2>5 DEF g
<1> QED
  BY <1>1, ListOk DEF Takes

LEMMA TenantListTakesItem ==
    ASSUME NEW d, NEW x, NEW a, NEW b, NEW y, TenantUnmarshal(Reset.Tenant, x) = y, y # NotOk
    PROVE  Takes("TenantList", 2, d, x, ListIs(a, b), ListIs(a, Append(b, y)))
<1> DEFINE m == ListIs(a, b)
<1>1. ASSUME NEW from
      PROVE  StepOf("TenantList", m, MemberOf(2, d, Piece(x, from))) = ListIs(a, Append(b, y))
  <2> DEFINE g == MemberOf(2, d, Piece(x, from))
  <2>1. g.num = 2 /\ g.v.val = x
    BY PieceOk DEF MemberOf
  <2> HIDE DEF g
  <2>2. [m EXCEPT !.Items = Append(b, y)] = ListIs(a, Append(b, y)) /\ m.Items = b
    BY ListShape DEF ListIs
  <2> HIDE DEF m
  <2>3. TenantListSet(m, g) = WithItem(m, y)
    BY <2>1 DEF TenantListSet
  <2>4. StepOf("TenantList", m, g) = TenantListSet(m, g)
    BY DEF StepOf
  <2> QED
    BY <2>2, <2>3, <2>4 DEF g, WithItem
<1> QED
  BY <1>1, ListOk DEF Takes

LEMMA FirstsEnds ==
    ASSUME NEW s, NEW n \in Nat, s = [j \in 1..n |-> s[j]]
    PROVE  Firsts(s, 0) = <<>> /\ Firsts(s, n) = s
<1>1. Firsts(s, 0) = <<>>
  BY DEF Firsts
<1>2. Firsts(s, n) = s
  BY DEF Firsts
<1> QED
  BY <1>1, <1>2

\* The states that a list goes through as its items are read.
ListAfter(a, s, k) == ListIs(a, Firsts(s, k))
ListStates(a, s) == [k \in Nat |-> ListAfter(a, s, k)]

\* The list b of the items s is written so that reading it goes through them.
ListWritten(kind, b, a, s) ==
    \E e \in Seq(Bytes) :
        /\ b = ListFields(a, e) /\ Len(e) = Len(s)
        /\ ListSteps(kind, a, e, ListIs(<<>>, <<>>), ListStates(a, s))

LEMMA ListWrittenDecodes ==
    ASSUME NEW kind, NEW b, NEW a \in Bytes, NEW s, s = [k \in 1..Len(s) |-> s[k]],
           ListWritten(kind, b, a, s)
    PROVE  Decodes(kind, Two, b, ListIs(<<>>, <<>>), ListIs(a, s))
<1>1. PICK e \in Seq(Bytes) :
        /\ b = ListFields(a, e) /\ Len(e) = Len(s)
        /\ ListSteps(kind, a, e, ListIs(<<>>, <<>>), ListStates(a, s))
  BY DEF ListWritten
<1>2. Len(s) \in Nat
  BY <1>1
<1>3. Firsts(s, Len(s)) = s
  BY <1>2, FirstsEnds
<1>4. ListStates(a, s)[Len(e)] = ListIs(a, s)
  BY <1>1, <1>2, <1>3 DEF ListStates, ListAfter
<1>5. Decodes(kind, Two, ListFields(a, e), ListIs(<<>>, <<>>), ListStates(a, s)[Len(e)])
  BY <1>1, ListDecode
<1> QED
  BY <1>1, <1>4, <1>5

LEMMA TenantListWritten ==
    ASSUME NEW m \in TenantLists, NEW order, IsMapOrder(order)
    PROVE  LET s == Each(SameTenant, m.Items)
           IN /\ ListWritten("TenantList", TenantListBytes(m, order), m.ListMeta, s)
              /\ s = [k \in 1..Len(s) |-> s[k]] /\ Len(s) \in Nat
<1> DEFINE a == m.ListMeta
           items == m.Items
           n == Len(items)
           e == [k \in DOMAIN items |-> TenantBytes(items[k], order)]
           same == [k \in DOMAIN items |-> SameTenant(items[k])]
           s == ListStates(a, same)
           b == TenantListBytes(m, order)
<1>1. a \in Bytes /\ items \in Seq(Tenants)
  BY DEF TenantLists
<1>2. n \in Nat /\ DOMAIN items = 1..n /\ \A k \in 1..n : items[k] \in Tenants
  BY <1>1
<1>3. \A k \in 1..n : e[k] = TenantBytes(items[k], order) /\ same[k] = SameTenant(items[k])
  BY <1>2
<1>4. same = [j \in 1..n |-> same[j]] /\ Each(SameTenant, m.Items) = same
  BY <1>2 DEF Each
<1>5. \A k \in 1..n : e[k] \in Bytes
  BY <1>2, <1>3, TenantLen
<1>6. e \in Seq(Bytes) /\ Len(e) = n /\ Len(same) = n
  <2>1. e = [k \in 1..n |-> e[k]]
    BY <1>2
  <2> HIDE DEF e, n, same
  <2> QED
    BY <1>2, <1>4, <1>5, <2>1
<1>7. b = ListFields(a, e) /\ b \in Bytes
  <2>1. b \in Bytes
    BY TenantListLen
  <2>2. b = ListFields(a, e)
    BY DEF TenantListBytes, ListFields, Each
  <2> QED
    BY <2>1, <2>2
<1> HIDE DEF same, e, b
<1>8. s[0] = ListIs(a, <<>>)
  BY <1>2, <1>4, FirstsEnds DEF ListAfter, ListStates
<1>9. \A k \in 1..n : s[k] = ListIs(a, Append(Firsts(same, k - 1), same[k]))
                      /\ s[k - 1] = ListIs(a, Firsts(same, k - 1))
  <2> SUFFICES ASSUME NEW k \in 1..n
               PROVE  s[k] = ListIs(a, Append(Firsts(same, k - 1), same[k]))
                      /\ s[k - 1] = ListIs(a, Firsts(same, k - 1))
    OBVIOUS
  <2>1. k \in Nat /\ k - 1 \in Nat /\ (k - 1) + 1 = k
    BY <1>2
  <2>2. Append(Firsts(same, k - 1), same[(k - 1) + 1]) = Firsts(same, (k - 1) + 1)
    BY <2>1, FirstsGrow
  <2>3. s[k] = ListAfter(a, same, k) /\ s[k - 1] = ListAfter(a, same, k - 1)
    BY <2>1 DEF ListStates
  <2> QED
    BY <2>1, <2>2, <2>3 DEF ListAfter
<1> HIDE DEF s
<1>10. \A z \in Bytes : \A k \in 1..Len(e) :
         IsSlice(e[k]) => Takes("TenantList", 2, z, e[k], s[k - 1], s[k])
  <2> SUFFICES ASSUME NEW z \in Bytes, NEW k \in 1..n, IsSlice(e[k])
               PROVE  Takes("TenantList", 2, z, e[k], s[k - 1], s[k])
    BY <1>6
  <2> DEFINE t == items[k]
             x == e[k]
  <2>1. t \in Tenants /\ x = TenantBytes(t, order) /\ same[k] = SameTenant(t)
    BY <1>2, <1>3
  <2> HIDE DEF t, x
  <2>2. Arrives(TenantBytes(t, order), x) /\ IsSlice(x)
    BY <2>1 DEF Arrives, x
  <2>3. TenantUnmarshal(Reset.Tenant, x) = same[k]
    BY <2>1, <2>2, TenantRead
  <2>4. same[k] # NotOk
    BY <2>1, SameTenantIs, TenantOk
  <2>5. Takes("TenantList", 2, z, x, ListIs(a, Firsts(same, k - 1)),
              ListIs(a, Append(Firsts(same, k - 1), same[k])))
    BY <2>3, <2>4, TenantListTakesItem
  <2> QED
    BY <1>9, <2>5 DEF x
<1>11. \A z \in Bytes : Takes("TenantList", 1, z, a, ListIs(<<>>, <<>>), s[0])
  BY <1>8, TenantListTakesMeta
<1>12. ListSteps("TenantList", a, e, ListIs(<<>>, <<>>), s)
  BY <1>10, <1>11 DEF ListSteps
<1>13. ListWritten("TenantList", b, a, same)
  BY <1>6, <1>7, <1>12 DEF ListWritten, s
<1> QED
  BY <1>2, <1>4, <1>6, <1>13 DEF b

LEMMA TenantListRead ==
    ASSUME NEW m \in TenantLists, NEW order, IsMapOrder(order),
           NEW d, Arrives(TenantListBytes(m, order), d), IsSlice(d)
    PROVE  TenantListUnmarshal(Reset.TenantList, d) = ListIs(m.ListMeta, Each(SameTenant, m.Items))
<1> DEFINE a == m.ListMeta
           b == TenantListBytes(m, order)
           same == Each(SameTenant, m.Items)
<1>1. a \in Bytes /\ b \in Bytes
  BY TenantListLen DEF TenantLists
<1>2. ListWritten("TenantList", b, a, same) /\ same = [k \in 1..Len(same) |-> same[k]]
  BY TenantListWritten
<1> HIDE DEF same
<1>3. Decodes("TenantList", Two, b, ListIs(<<>>, <<>>), ListIs(a, same))
  BY <1>1, <1>2, ListWrittenDecodes
<1>4. Reset.TenantList = ListIs(<<>>, <<>>)
  BY DEF Reset, ListIs
<1> HIDE DEF b
<1>5. Brings("TenantList", Reset.TenantList, Fields(d, Two), ListIs(a, same))
  <2>1. Arrives(b, d)
    BY DEF b
  <2> QED
    BY <1>1, <1>3, <1>4, <2>1, WiresKnown, DecodesArrived
<1> QED
  BY <1>5, TenantListSets DEF TenantListUnmarshal, Two, same

-----------------------------------------------------------------------------
(* ClusterResourceQuota.                                                   *)

LimitsIs(a, b, c) == [ResourceQuotaSpec |-> a, NamepsaceSelector |-> b, Namespaces |-> c]

LEMMA LimitsShape ==
    ASSUME NEW a, NEW b, NEW c,
           NEW m \in [ResourceQuotaSpec : {a}, NamepsaceSelector : {b}, Namespaces : {c}]
    PROVE  m = LimitsIs(a, b, c)
BY DEF LimitsIs

LEMMA LimitsOk == \A a, b, c : LimitsIs(a, b, c) # NotOk
<1> SUFFICES ASSUME NEW a, NEW b, NEW c, LimitsIs(a, b, c) = NotOk PROVE FALSE
  OBVIOUS
<1>1. "Namespaces" \in DOMAIN LimitsIs(a, b, c)
  BY DEF LimitsIs
<1>2. "Namespaces" \notin DOMAIN NotOk
  BY DEF NotOk
<1> QED
  BY <1>1, <1>2

LEMMA LimitsTakesSpec ==
    ASSUME NEW d, NEW x, NEW b, NEW c
    PROVE  Takes("ClusterSpec", 1, d, x, LimitsIs(<<>>, b, c), LimitsIs(x, b, c))
<1> DEFINE m == LimitsIs(<<>>, b, c)
<1>1. ASSUME NEW from
      PROVE  StepOf("ClusterSpec", m, MemberOf(1, d, Piece(x, from))) = LimitsIs(x, b, c)
  <2> DEFINE g == MemberOf(1, d, Piece(x, from))
  <2>1. g.num = 1 /\ g.v.val = x
    BY PieceOk DEF MemberOf
  <2> HIDE DEF g
  <2>2. [m EXCEPT !.ResourceQuotaSpec = x] = LimitsIs(x, b, c) /\ m.ResourceQuotaSpec = <<>>
    BY LimitsShape DEF LimitsIs
  <2> HIDE DEF m
  <2>3. Merged(<<>>, x) = x
    BY DEF Merged
  <2>4. ClusterResourceQuotaSpecSet(m, g) = [m EXCEPT !.ResourceQuotaSpec = x]
    BY <2>1, <2>2, <2>3 DEF ClusterResourceQuotaSpecSet
  <2>5. StepOf("ClusterSpec", m, g) = ClusterResourceQuotaSpecSet(m, g)
    BY DEF StepOf
  <2> QED
    BY <2>2, <2>4, <2>5 DEF g
<1> QED
  BY <1>1, LimitsOk DEF Takes

LEMMA LimitsTakesSelector ==
    ASSUME NEW d, NEW x, NEW a, NEW c
    PROVE  Takes("ClusterSpec", 2, d, x, LimitsIs(a, <<>>, c), LimitsIs(a, <<x>>, c))
<1> DEFINE m == LimitsIs(a, <<>>, c)
<1>1. ASSUME NEW from
      PROVE  StepOf("ClusterSpec", m, MemberOf(2, d, Piece(x, from))) = LimitsIs(a, <<x>>, c)
  <2> DEFINE g == MemberOf(2, d, Piece(x, from))
  <2>1. g.num = 2 /\ g.v.val = x
    BY PieceOk DEF MemberOf
  <2> HIDE DEF g
  <2>2. /\ [m EXCEPT !.NamepsaceSelector = <<x>>] = LimitsIs(a, <<x>>, c)
        /\ m.NamepsaceSelector = <<>>
    BY LimitsShape DEF LimitsIs
  <2> HIDE DEF m
  <2>3. Merged(<<>>, x) = x
    BY DEF Merged
  <2>4. ClusterResourceQuotaSpecSet(m, g) = [m EXCEPT !.NamepsaceSelector = <<x>>]
    BY <2>1, <2>2, <2>3 DEF ClusterResourceQuotaSpecSet
  <2>5. StepOf("ClusterSpec", m, g) = ClusterResourceQuotaSpecSet(m, g)
    BY DEF StepOf
  <2> QED
    BY <2>2, <2>4, <2>5 DEF g
<1> QED
  BY <1>1, LimitsOk DEF Takes

LEMMA LimitsTakesNamespace ==
    ASSUME NEW d, NEW x, NEW a, NEW b, NEW c
    PROVE  Takes("ClusterSpec", 3, d, x, LimitsIs(a, b, c), LimitsIs(a, b, Append(c, x)))
<1> DEFINE m == LimitsIs(a, b, c)
<1>1. ASSUME NEW from
      PROVE  StepOf("ClusterSpec", m, MemberOf(3, d, Piece(x, from))) = LimitsIs(a, b, Append(c, x))
  <2> DEFINE g == MemberOf(3, d, Piece(x, from))
  <2>1. g.num = 3 /\ g.v.val = x
    BY PieceOk DEF MemberOf
  <2> HIDE DEF g
  <2>2. [m EXCEPT !.Namespaces = Append(c, x)] = LimitsIs(a, b, Append(c, x)) /\ m.Namespaces = c
    BY LimitsShape DEF LimitsIs
  <2> HIDE DEF m
  <2>3. ClusterResourceQuotaSpecSet(m, g) = [m EXCEPT !.Namespaces = Append(c, x)]
    BY <2>1, <2>2 DEF ClusterResourceQuotaSpecSet
  <2>4. StepOf("ClusterSpec", m, g) = ClusterResourceQuotaSpecSet(m, g)
    BY DEF StepOf
  <2> QED
    BY <2>2, <2>3, <2>4 DEF g
<1> QED
  BY <1>1, LimitsOk DEF Takes

\* The states that the limits of a quota go through as its namespaces are read.
LimitsAfter(a, b, s, k) == LimitsIs(a, b, Firsts(s, k))

LEMMA LimitsRead ==
    ASSUME NEW m \in ClusterResourceQuotaSpecs, IsSlice(ClusterResourceQuotaSpecBytes(m))
    PROVE  ClusterResourceQuotaSpecUnmarshal(LimitsIs(<<>>, <<>>, <<>>),
                                             ClusterResourceQuotaSpecBytes(m)) = m
<1> DEFINE x == m.ResourceQuotaSpec
           p == m.NamepsaceSelector
           e == m.Namespaces
           a == BytesField(10, x)
           b == BytesFields(18, p)
           c == BytesFields(26, e)
           whole == ClusterResourceQuotaSpecBytes(m)
           s == [k \in Nat |-> LimitsAfter(x, p, e, k)]
<1>1. x \in Bytes /\ p \in Pointer(Bytes) /\ e \in Seq(Bytes) /\ m = LimitsIs(x, p, e)
  BY DEF ClusterResourceQuotaSpecs, LimitsIs
<1>2. whole = (a \o b) \o c
  BY DEF ClusterResourceQuotaSpecBytes
<1>3. p \in Seq(Bytes) /\ Len(p) <= 1 /\ (Len(p) = 0 <=> p = <<>>)
  BY <1>1, PointerSeq
<1>4. a \in Bytes /\ b \in Bytes /\ c \in Bytes
  BY <1>1, <1>3, TagsAreBytes, BytesFieldLen, RunBytes
<1>5. whole \in Bytes
  BY ClusterSpecLen
<1>6. s[0] = LimitsIs(x, p, <<>>) /\ s[Len(e)] = LimitsIs(x, p, e)
  <2>1. Len(e) \in Nat /\ e = [j \in 1..Len(e) |-> e[j]]
    BY <1>1
  <2> HIDE DEF x, p, e
  <2> QED
    BY <2>1, FirstsEnds DEF LimitsAfter
<1>7. ASSUME NEW z \in Bytes, NEW k \in 1..Len(e)
      PROVE  Takes("ClusterSpec", 3, z, e[k], s[k - 1], s[k])
  <2>1. Len(e) \in Nat
    BY <1>1
  <2> HIDE DEF x, p, e
  <2>2. k \in Nat /\ k - 1 \in Nat /\ (k - 1) + 1 = k
    BY <2>1
  <2>3. Append(Firsts(e, k - 1), e[(k - 1) + 1]) = Firsts(e, (k - 1) + 1)
    BY <2>2, FirstsGrow
  <2>4. s[k] = LimitsAfter(x, p, e, k) /\ s[k - 1] = LimitsAfter(x, p, e, k - 1)
    BY <2>2
  <2> HIDE DEF s
  <2>5. /\ s[k] = LimitsIs(x, p, Append(Firsts(e, k - 1), e[k]))
        /\ s[k - 1] = LimitsIs(x, p, Firsts(e, k - 1))
    BY <2>2, <2>3, <2>4 DEF LimitsAfter
  <2> QED
    BY <2>5, LimitsTakesNamespace
<1> HIDE DEF a, b, c, s, whole
<1> DEFINE j == 0 + Len(a)
           n == j + Len(b)
<1>8. /\ Holds(whole, 0, a) /\ Holds(whole, j, b) /\ Holds(whole, n, c)
      /\ j \in Nat /\ n \in Nat /\ 0 + Len(whole) = n + Len(c)
  <2>1. Holds(whole, 0, (a \o b) \o c)
    BY <1>2, <1>5, HoldsWhole
  <2> QED
    BY <1>2, <1>4, <1>5, <2>1, HoldsThree
<1>9. IsSlice(whole) /\ 0 + Len(whole) = Len(whole)
  BY <1>5, BytesShape DEF whole
<1>10. Reads("ClusterSpec", Three, whole, n + Len(c), s[Len(e)], m)
  <2>1. Reads("ClusterSpec", Three, whole, Len(whole), m, m)
    BY <1>5, ReadsEnd
  <2> QED
    BY <1>1, <1>6, <1>8, <1>9, <2>1
<1> HIDE DEF x, p, e, j, n
<1>11. Reads("ClusterSpec", Three, whole, n, s[0], m)
  <2>1. 3 \in DOMAIN Three /\ Three[3] = 2
    BY WiresKnown
  <2>2. \A k \in 1..Len(e) :
          IsSlice(e[k]) => Takes("ClusterSpec", 3, whole, e[k], s[k - 1], s[k])
    BY <1>5, <1>7
  <2> QED
    BY <1>1, <1>5, <1>8, <1>9, <1>10, <2>1, <2>2, Tags, ReadsTheRun DEF c
<1>12. Reads("ClusterSpec", Three, whole, j, LimitsIs(x, <<>>, <<>>), m)
  <2>1. 2 \in DOMAIN Three /\ Three[2] = 2
    BY WiresKnown
  <2>2. ASSUME Len(p) = 1
        PROVE  Takes("ClusterSpec", 2, whole, p[1], LimitsIs(x, <<>>, <<>>), LimitsIs(x, p, <<>>))
    <3>1. p = <<p[1]>>
      BY <1>1, <1>3, <2>2, PointerIs
    <3> QED
      BY <3>1, LimitsTakesSelector
  <2>3. Len(p) = 0 => LimitsIs(x, <<>>, <<>>) = LimitsIs(x, p, <<>>)
    BY <1>3
  <2>4. Reads("ClusterSpec", Three, whole, n, LimitsIs(x, p, <<>>), m)
    BY <1>6, <1>11
  <2> QED
    BY <1>3, <1>5, <1>8, <1>9, <2>1, <2>2, <2>3, <2>4, Tags, ReadsPointer DEF b, n
<1>13. Reads("ClusterSpec", Three, whole, 0, LimitsIs(<<>>, <<>>, <<>>), m)
  <2>1. 1 \in DOMAIN Three /\ Three[1] = 2
    BY WiresKnown
  <2>2. Takes("ClusterSpec", 1, whole, x, LimitsIs(<<>>, <<>>, <<>>), LimitsIs(x, <<>>, <<>>))
    BY LimitsTakesSpec
  <2> QED
    BY <1>1, <1>5, <1>8, <1>9, <1>12, <2>1, <2>2, Tags, ReadsTheBytes DEF a, j
<1>14. Brings("ClusterSpec", LimitsIs(<<>>, <<>>, <<>>), Fields(whole, Three), m)
  BY <1>5, <1>13, ReadsAll
<1> QED
  BY <1>14, ClusterSpecSets DEF ClusterResourceQuotaSpecUnmarshal, Three, whole

UsageIs(a) == [ResourceQuotaStatus |-> a]

LEMMA UsageShape ==
    ASSUME NEW a, NEW m \in [ResourceQuotaStatus : {a}]
    PROVE  m = UsageIs(a)
BY DEF UsageIs

LEMMA UsageOk == \A a : UsageIs(a) # NotOk
<1> SUFFICES ASSUME NEW a, UsageIs(a) = NotOk PROVE FALSE
  OBVIOUS
<1>1. "ResourceQuotaStatus" \in DOMAIN UsageIs(a)
  BY DEF UsageIs
<1>2. "ResourceQuotaStatus" \notin DOMAIN NotOk
  BY DEF NotOk
<1> QED
  BY <1>1, <1>2

LEMMA UsageTakes ==
    ASSUME NEW d, NEW x
    PROVE  Takes("ClusterStatus", 1, d, x, UsageIs(<<>>), UsageIs(x))
<1> DEFINE m == UsageIs(<<>>)
<1>1. ASSUME NEW from
      PROVE  StepOf("ClusterStatus", m, MemberOf(1, d, Piece(x, from))) = UsageIs(x)
  <2> DEFINE g == MemberOf(1, d, Piece(x, from))
  <2>1. g.num = 1 /\ g.v.val = x
    BY PieceOk DEF MemberOf
  <2> HIDE DEF g
  <2>2. [m EXCEPT !.ResourceQuotaStatus = x] = UsageIs(x) /\ m.ResourceQuotaStatus = <<>>
    BY UsageShape DEF UsageIs
  <2> HIDE DEF m
  <2>3. Merged(<<>>, x) = x
    BY DEF Merged
  <2>4. ClusterResourceQuotaStatusSet(m, g) = [m EXCEPT !.ResourceQuotaStatus = x]
    BY <2>1, <2>2, <2>3 DEF ClusterResourceQuotaStatusSet
  <2>5. StepOf("ClusterStatus", m, g) = ClusterResourceQuotaStatusSet(m, g)
    BY DEF StepOf
  <2> QED
    BY <2>2, <2>4, <2>5 DEF g
<1> QED
  BY <1>1, UsageOk DEF Takes

LEMMA UsageRead ==
    ASSUME NEW m \in ClusterResourceQuotaStatuses, IsSlice(ClusterResourceQuotaStatusBytes(m))
    PROVE  ClusterResourceQuotaStatusUnmarshal(UsageIs(<<>>), ClusterResourceQuotaStatusBytes(m)) = m
<1> DEFINE x == m.ResourceQuotaStatus
           d == ClusterResourceQuotaStatusBytes(m)
           wires == <<2>>
<1>1. x \in Bytes /\ m = UsageIs(x)
  BY DEF ClusterResourceQuotaStatuses, UsageIs
<1>2. d = BytesField(10, x)
  BY DEF ClusterResourceQuotaStatusBytes
<1>3. d \in Bytes
  BY <1>1, <1>2, TagsAreBytes, BytesFieldLen
<1>4. 1 \in DOMAIN wires /\ wires[1] = 2
  OBVIOUS
<1> HIDE DEF x, d, wires
<1>5. Holds(d, 0, BytesField(10, x)) /\ IsSlice(d)
  BY <1>2, <1>3, HoldsWhole DEF d
<1>6. Reads("ClusterStatus", wires, d, Len(d), UsageIs(x), m)
  BY <1>1, <1>3, ReadsEnd
<1>7. Reads("ClusterStatus", wires, d, 0 + Len(BytesField(10, x)), UsageIs(x), m)
  <2>1. 0 + Len(BytesField(10, x)) = Len(d)
    BY <1>2, <1>3, BytesShape
  <2> QED
    BY <1>6, <2>1
<1>8. Takes("ClusterStatus", 1, d, x, UsageIs(<<>>), UsageIs(x))
  BY UsageTakes
<1>9. Reads("ClusterStatus", wires, d, 0, UsageIs(<<>>), m)
  BY <1>1, <1>3, <1>4, <1>5, <1>7, <1>8, Tags, ReadsTheBytes
<1>10. Brings("ClusterStatus", UsageIs(<<>>), Fields(d, wires), m)
  BY <1>3, <1>9, ReadsAll
<1> QED
  BY <1>10, ClusterStatusSets DEF ClusterResourceQuotaStatusUnmarshal, wires, d

LEMMA ClusterTakesMeta ==
    ASSUME NEW d, NEW x, NEW b, NEW c
    PROVE  Takes("Cluster", 1, d, x, TenantIs(<<>>, b, c), TenantIs(x, b, c))
<1> DEFINE m == TenantIs(<<>>, b, c)
<1>1. ASSUME NEW from
      PROVE  StepOf("Cluster", m, MemberOf(1, d, Piece(x, from))) = TenantIs(x, b, c)
  <2> DEFINE g == MemberOf(1, d, Piece(x, from))
  <2>1. g.num = 1 /\ g.v.val = x
    BY PieceOk DEF MemberOf
  <2> HIDE DEF g
  <2>2. [m EXCEPT !.ObjectMeta = x] = TenantIs(x, b, c) /\ m.ObjectMeta = <<>>
    BY TenantShape DEF TenantIs
  <2> HIDE DEF m
  <2>3. Merged(<<>>, x) = x
    BY DEF Merged
  <2>4. ClusterResourceQuotaSet(m, g) = [m EXCEPT !.ObjectMeta = x]
    BY <2>1, <2>2, <2>3 DEF ClusterResourceQuotaSet
  <2>5. StepOf("Cluster", m, g) = ClusterResourceQuotaSet(m, g)
    BY DEF StepOf
  <2> QED
    BY <2>2, <2>4, <2>5 DEF g
<1> QED
  BY <1>1, TenantOk DEF Takes

LEMMA ClusterTakesSpec ==
    ASSUME NEW d, NEW x, NEW a, NEW b, NEW c, NEW y,
           ClusterResourceQuotaSpecUnmarshal(b, x) = y, y # NotOk
    PROVE  Takes("Cluster", 2, d, x, TenantIs(a, b, c), TenantIs(a, y, c))
<1> DEFINE m == TenantIs(a, b, c)
<1>1. ASSUME NEW from
      PROVE  StepOf("Cluster", m, MemberOf(2, d, Piece(x, from))) = TenantIs(a, y, c)
  <2> DEFINE g == MemberOf(2, d, Piece(x, from))
  <2>1. g.num = 2 /\ g.v.val = x
    BY PieceOk DEF MemberOf
  <2> HIDE DEF g
  <2>2. [m EXCEPT !["Spec"] = y] = TenantIs(a, y, c) /\ m.Spec = b
    BY TenantShape DEF TenantIs
  <2> HIDE DEF m
  <2>3. ClusterResourceQuotaSet(m, g) = With(m, "Spec", y)
    BY <2>1, <2>2 DEF ClusterResourceQuotaSet
  <2>4. StepOf("Cluster", m, g) = ClusterResourceQuotaSet(m, g)
    BY DEF StepOf
  <2> QED
    BY <2>2, <2>3, <2>4 DEF g, With
<1> QED
  BY <1>1, TenantOk DEF Takes

LEMMA ClusterTakesStatus ==
    ASSUME NEW d, NEW x, NEW a, NEW b, NEW c, NEW y,
           ClusterResourceQuotaStatusUnmarshal(c, x) = y, y # NotOk
    PROVE  Takes("Cluster", 3, d, x, TenantIs(a, b, c), TenantIs(a, b, y))
<1> DEFINE m == TenantIs(a, b, c)
<1>1. ASSUME NEW from
      PROVE  StepOf("Cluster", m, MemberOf(3, d, Piece(x, from))) = TenantIs(a, b, y)
  <2> DEFINE g == MemberOf(3, d, Piece(x, from))
  <2>1. g.num = 3 /\ g.v.val = x
    BY PieceOk DEF MemberOf
  <2> HIDE DEF g
  <2>2. [m EXCEPT !["Status"] = y] = TenantIs(a, b, y) /\ m.Status = c
    BY TenantShape DEF TenantIs
  <2> HIDE DEF m
  <2>3. ClusterResourceQuotaSet(m, g) = With(m, "Status", y)
    BY <2>1, <2>2 DEF ClusterResourceQuotaSet
  <2>4. StepOf("Cluster", m, g) = ClusterResourceQuotaSet(m, g)
    BY DEF StepOf
  <2> QED
    BY <2>2, <2>3, <2>4 DEF g, With
<1> QED
  BY <1>1, TenantOk DEF Takes

LEMMA ClusterShape ==
    ASSUME NEW m \in ClusterResourceQuotas
    PROVE  /\ m.ObjectMeta \in Bytes /\ m.Spec \in ClusterResourceQuotaSpecs
           /\ m.Status \in ClusterResourceQuotaStatuses
           /\ m = TenantIs(m.ObjectMeta, m.Spec, m.Status) /\ m # NotOk
<1>1. /\ m.ObjectMeta \in Bytes /\ m.Spec \in ClusterResourceQuotaSpecs
      /\ m.Status \in ClusterResourceQuotaStatuses
      /\ m = TenantIs(m.ObjectMeta, m.Spec, m.Status)
  BY DEF ClusterResourceQuotas, TenantIs
<1> QED
  BY <1>1, TenantOk

LEMMA ClusterSteps ==
    ASSUME NEW m \in ClusterResourceQuotas
    PROVE  LET x == ClusterResourceQuotaSpecBytes(m.Spec)
               z == ClusterResourceQuotaStatusBytes(m.Status)
           IN /\ m.ObjectMeta \in Bytes /\ x \in Bytes /\ z \in Bytes
              /\ ClusterResourceQuotaBytes(m) = ThreeFields(m.ObjectMeta, x, z)
              /\ ThreeSteps("Cluster", m.ObjectMeta, x, z, States(QuotaReset.ClusterResourceQuota, m))
<1> DEFINE a == m.ObjectMeta
           b == m.Spec
           c == m.Status
           x == ClusterResourceQuotaSpecBytes(b)
           z == ClusterResourceQuotaStatusBytes(c)
           none == LimitsIs(<<>>, <<>>, <<>>)
           zero == UsageIs(<<>>)
<1>1. /\ a \in Bytes /\ b \in ClusterResourceQuotaSpecs /\ c \in ClusterResourceQuotaStatuses
      /\ m = TenantIs(a, b, c)
  BY ClusterShape
<1>2. x \in Bytes
  BY <1>1, ClusterSpecLen
<1>3. z \in Bytes
  <2>1. c.ResourceQuotaStatus \in Bytes
    BY <1>1 DEF ClusterResourceQuotaStatuses
  <2> QED
    BY <2>1, TagsAreBytes, BytesFieldLen DEF ClusterResourceQuotaStatusBytes
<1>4. ClusterResourceQuotaBytes(m) = ThreeFields(a, x, z)
  BY DEF ClusterResourceQuotaBytes, ThreeFields
<1>5. QuotaReset.ClusterResourceQuota = TenantIs(<<>>, none, zero)
  BY DEF QuotaReset, TenantIs, LimitsIs, UsageIs
<1>6. IsSlice(x) => ClusterResourceQuotaSpecUnmarshal(none, x) = b
  BY <1>1, LimitsRead
<1>7. IsSlice(z) => ClusterResourceQuotaStatusUnmarshal(zero, z) = c
  BY <1>1, UsageRead
<1>8. b # NotOk
  <2>1. b = LimitsIs(b.ResourceQuotaSpec, b.NamepsaceSelector, b.Namespaces)
    BY <1>1 DEF ClusterResourceQuotaSpecs, LimitsIs
  <2> QED
    BY <2>1, LimitsOk
<1>9. c # NotOk
  <2>1. c = UsageIs(c.ResourceQuotaStatus)
    BY <1>1 DEF ClusterResourceQuotaStatuses, UsageIs
  <2> QED
    BY <2>1, UsageOk
<1> HIDE DEF a, b, c, x, z, none, zero
<1>11. \A y \in Bytes : Takes("Cluster", 1, y, a, TenantIs(<<>>, none, zero), TenantIs(a, none, zero))
  BY ClusterTakesMeta
<1>12. \A y \in Bytes :
        IsSlice(x) => Takes("Cluster", 2, y, x, TenantIs(a, none, zero), TenantIs(a, b, zero))
  BY <1>6, <1>8, ClusterTakesSpec
<1>13. \A y \in Bytes :
        IsSlice(z) => Takes("Cluster", 3, y, z, TenantIs(a, b, zero), TenantIs(a, b, c))
  BY <1>7, <1>9, ClusterTakesStatus
<1> DEFINE s == States(TenantIs(<<>>, none, zero), TenantIs(a, b, c))
<1>14. /\ s[1] = TenantIs(<<>>, none, zero) /\ s[2] = TenantIs(a, none, zero)
       /\ s[3] = TenantIs(a, b, zero) /\ s[4] = TenantIs(a, b, c)
  BY StatesAre
<1> HIDE DEF s
<1>15. ThreeSteps("Cluster", a, x, z, s)
  BY <1>11, <1>12, <1>13, <1>14 DEF ThreeSteps
<1> QED
  BY <1>1, <1>2, <1>3, <1>4, <1>5, <1>15 DEF a, b, c, x, z, s

LEMMA ClusterRead ==
    ASSUME NEW m \in ClusterResourceQuotas,
           NEW d, Arrives(ClusterResourceQuotaBytes(m), d), IsSlice(d)
    PROVE  ClusterResourceQuotaUnmarshal(QuotaReset.ClusterResourceQuota, d) = m
<1> DEFINE a == m.ObjectMeta
           x == ClusterResourceQuotaSpecBytes(m.Spec)
           z == ClusterResourceQuotaStatusBytes(m.Status)
           bytes == ClusterResourceQuotaBytes(m)
           none == QuotaReset.ClusterResourceQuota
           s == States(none, m)
<1>1. /\ a \in Bytes /\ x \in Bytes /\ z \in Bytes /\ bytes = ThreeFields(a, x, z)
      /\ ThreeSteps("Cluster", a, x, z, s)
  BY ClusterSteps
<1>2. s[1] = none /\ s[4] = m
  BY DEF States
<1>3. bytes \in Bytes /\ Arrives(bytes, d)
  BY ClusterQuotaLen
<1> HIDE DEF a, x, z, s, none, bytes
<1>4. Decodes("Cluster", Three, bytes, none, m)
  BY <1>1, <1>2, ThreeDecode
<1>5. Brings("Cluster", none, Fields(d, Three), m)
  BY <1>3, <1>4, WiresKnown, DecodesArrived
<1> QED
  BY <1>5, ClusterSets DEF ClusterResourceQuotaUnmarshal, Three, none

LEMMA ClusterListTakesMeta ==
    ASSUME NEW d, NEW x, NEW b
    PROVE  Takes("ClusterList", 1, d, x, ListIs(<<>>, b), ListIs(x, b))
<1> DEFINE m == ListIs(<<>>, b)
<1>1. ASSUME NEW from
      PROVE  StepOf("ClusterList", m, MemberOf(1, d, Piece(x, from))) = ListIs(x, b)
  <2> DEFINE g == MemberOf(1, d, Piece(x, from))
  <2>1. g.num = 1 /\ g.v.val = x
    BY PieceOk DEF MemberOf
  <2> HIDE DEF g
  <2>2. [m EXCEPT !.ListMeta = x] = ListIs(x, b) /\ m.ListMeta = <<>>
    BY ListShape DEF ListIs
  <2> HIDE DEF m
  <2>3. Merged(<<>>, x) = x
    BY DEF Merged
  <2>4. ClusterResourceQuotaListSet(m, g) = [m EXCEPT !.ListMeta = x]
    BY <2>1, <2>2, <2>3 DEF ClusterResourceQuotaListSet
  <2>5. StepOf("ClusterList", m, g) = ClusterResourceQuotaListSet(m, g)
    BY DEF StepOf
  <2> QED
    BY <2>2, <2>4, <2>5 DEF g
<1> QED
  BY <1>1, ListOk DEF Takes

LEMMA ClusterListTakesItem ==
    ASSUME NEW d, NEW x, NEW a, NEW b,
           NEW y, ClusterResourceQuotaUnmarshal(QuotaReset.ClusterResourceQuota, x) = y, y # NotOk
    PROVE  Takes("ClusterList", 2, d, x, ListIs(a, b), ListIs(a, Append(b, y)))
<1> DEFINE m == ListIs(a, b)
<1>1. ASSUME NEW from
      PROVE  StepOf("ClusterList", m, MemberOf(2, d, Piece(x, from))) = ListIs(a, Append(b, y))
  <2> DEFINE g == MemberOf(2, d, Piece(x, from))
  <2>1. g.num = 2 /\ g.v.val = x
    BY PieceOk DEF MemberOf
  <2> HIDE DEF g
  <2>2. [m EXCEPT !.Items = Append(b, y)] = ListIs(a, Append(b, y)) /\ m.Items = b
    BY ListShape DEF ListIs
  <2> HIDE DEF m
  <2>3. ClusterResourceQuotaListSet(m, g) = WithItem(m, y)
    BY <2>1 DEF ClusterResourceQuotaListSet
  <2>4. StepOf("ClusterList", m, g) = ClusterResourceQuotaListSet(m, g)
    BY DEF StepOf
  <2> QED
    BY <2>2, <2>3, <2>4 DEF g, WithItem
<1> QED
  BY <1>1, ListOk DEF Takes

LEMMA ClusterListWritten ==
    ASSUME NEW m \in ClusterResourceQuotaLists
    PROVE  LET s == m.Items
           IN /\ ListWritten("ClusterList", ClusterResourceQuotaListBytes(m), m.ListMeta, s)
              /\ s = [k \in 1..Len(s) |-> s[k]] /\ Len(s) \in Nat /\ m.ListMeta \in Bytes
              /\ m = ListIs(m.ListMeta, m.Items)
<1> DEFINE a == m.ListMeta
           items == m.Items
           n == Len(items)
           e == [k \in DOMAIN items |-> ClusterResourceQuotaBytes(items[k])]
           s == ListStates(a, items)
           b == ClusterResourceQuotaListBytes(m)
<1>1. a \in Bytes /\ items \in Seq(ClusterResourceQuotas) /\ m = ListIs(a, items)
  BY DEF ClusterResourceQuotaLists, ListIs
<1>2. /\ n \in Nat /\ DOMAIN items = 1..n /\ \A k \in 1..n : items[k] \in ClusterResourceQuotas
      /\ items = [j \in 1..n |-> items[j]]
  BY <1>1
<1>3. \A k \in 1..n : e[k] = ClusterResourceQuotaBytes(items[k])
  BY <1>2
<1>5. \A k \in 1..n : e[k] \in Bytes
  BY <1>2, <1>3, ClusterQuotaLen
<1>6. e \in Seq(Bytes) /\ Len(e) = n
  <2>1. e = [k \in 1..n |-> e[k]]
    BY <1>2
  <2> HIDE DEF e, n
  <2> QED
    BY <1>2, <1>5, <2>1
<1>7. b = ListFields(a, e) /\ b \in Bytes
  <2>1. b \in Bytes
    BY ClusterListLen
  <2>2. b = ListFields(a, e)
    BY DEF ClusterResourceQuotaListBytes, ListFields, Each
  <2> QED
    BY <2>1, <2>2
<1>4. n = Len(items)
  OBVIOUS
<1> HIDE DEF e, b, a, items, n
<1>8. s[0] = ListIs(a, <<>>)
  BY <1>2, FirstsEnds DEF ListAfter, ListStates
<1>9. \A k \in 1..n : s[k] = ListIs(a, Append(Firsts(items, k - 1), items[k]))
                      /\ s[k - 1] = ListIs(a, Firsts(items, k - 1))
  <2> SUFFICES ASSUME NEW k \in 1..n
               PROVE  s[k] = ListIs(a, Append(Firsts(items, k - 1), items[k]))
                      /\ s[k - 1] = ListIs(a, Firsts(items, k - 1))
    OBVIOUS
  <2>1. k \in Nat /\ k - 1 \in Nat /\ (k - 1) + 1 = k
    BY <1>2
  <2>2. Append(Firsts(items, k - 1), items[(k - 1) + 1]) = Firsts(items, (k - 1) + 1)
    BY <2>1, FirstsGrow
  <2>3. s[k] = ListAfter(a, items, k) /\ s[k - 1] = ListAfter(a, items, k - 1)
    BY <2>1 DEF ListStates
  <2> QED
    BY <2>1, <2>2, <2>3 DEF ListAfter
<1> HIDE DEF s
<1>10. \A z \in Bytes : \A k \in 1..Len(e) :
         IsSlice(e[k]) => Takes("ClusterList", 2, z, e[k], s[k - 1], s[k])
  <2> SUFFICES ASSUME NEW z \in Bytes, NEW k \in 1..n, IsSlice(e[k])
               PROVE  Takes("ClusterList", 2, z, e[k], s[k - 1], s[k])
    BY <1>6
  <2> DEFINE t == items[k]
             x == e[k]
  <2>1. t \in ClusterResourceQuotas /\ x = ClusterResourceQuotaBytes(t)
    BY <1>2, <1>3
  <2> HIDE DEF t, x
  <2>2. Arrives(ClusterResourceQuotaBytes(t), x) /\ IsSlice(x)
    BY <2>1 DEF Arrives, x
  <2>3. ClusterResourceQuotaUnmarshal(QuotaReset.ClusterResourceQuota, x) = t
    BY <2>1, <2>2, ClusterRead
  <2>4. t # NotOk
    BY <2>1, ClusterShape
  <2>5. Takes("ClusterList", 2, z, x, ListIs(a, Firsts(items, k - 1)),
              ListIs(a, Append(Firsts(items, k - 1), t)))
    BY <2>3, <2>4, ClusterListTakesItem
  <2> QED
    BY <1>9, <2>5 DEF x, t
<1>11. \A z \in Bytes : Takes("ClusterList", 1, z, a, ListIs(<<>>, <<>>), s[0])
  BY <1>8, ClusterListTakesMeta
<1>12. ListSteps("ClusterList", a, e, ListIs(<<>>, <<>>), s)
  BY <1>10, <1>11 DEF ListSteps
<1>13. ListWritten("ClusterList", b, a, items)
  BY <1>4, <1>6, <1>7, <1>12 DEF ListWritten, s
<1> QED
  BY <1>1, <1>2, <1>4, <1>13 DEF b, a, items

LEMMA ClusterListRead ==
    ASSUME NEW m \in ClusterResourceQuotaLists,
           NEW d, Arrives(ClusterResourceQuotaListBytes(m), d), IsSlice(d)
    PROVE  ClusterResourceQuotaListUnmarshal(QuotaReset.ClusterResourceQuotaList, d) = m
<1> DEFINE a == m.ListMeta
           b == ClusterResourceQuotaListBytes(m)
           items == m.Items
<1>1. b \in Bytes
  BY ClusterListLen
<1>2. /\ ListWritten("ClusterList", b, a, items) /\ items = [k \in 1..Len(items) |-> items[k]]
      /\ a \in Bytes /\ m = ListIs(a, items)
  BY ClusterListWritten
<1>3. Decodes("ClusterList", Two, b, ListIs(<<>>, <<>>), ListIs(a, items))
  BY <1>2, ListWrittenDecodes
<1>4. QuotaReset.ClusterResourceQuotaList = ListIs(<<>>, <<>>)
  BY DEF QuotaReset, ListIs
<1>5. Arrives(b, d)
  OBVIOUS
<1> HIDE DEF b
<1>6. Brings("ClusterList", QuotaReset.ClusterResourceQuotaList, Fields(d, Two), ListIs(a, items))
  BY <1>1, <1>3, <1>4, <1>5, WiresKnown, DecodesArrived
<1> QED
  BY <1>2, <1>6, ClusterListSets DEF ClusterResourceQuotaListUnmarshal, Two

ObjectIs(kind, body) == [kind |-> kind, body |-> body]

LEMMA ObjectShape ==
    ASSUME NEW a, NEW b, NEW o \in [kind : {a}, body : {b}]
    PROVE  o = ObjectIs(a, b)
BY DEF ObjectIs

\* What a receiver holds once it has read d as an object of o's kind.
Got(o, d) == Holding(o.kind, Unmarshal(o.kind, ZeroOf[o.kind], d))

LEMMA TenantGot ==
    ASSUME NEW m \in Tenants, NEW o, o = ObjectIs("Tenant", m),
           NEW d, TenantUnmarshal(Reset.Tenant, d) = SameTenant(m)
    PROVE  Got(o, d) = Normal(o)
<1>1. o.kind = "Tenant" /\ o.body = m
  BY DEF ObjectIs
<1>2. ZeroOf[o.kind] = Reset.Tenant
  BY <1>1 DEF ZeroOf
<1>3. Unmarshal(o.kind, ZeroOf[o.kind], d) = SameTenant(m)
  BY <1>1, <1>2 DEF Unmarshal
<1>4. SameTenant(m) # NotOk
  BY SameTenantIs, TenantOk
<1>5. Got(o, d) = ObjectIs("Tenant", SameTenant(m))
  BY <1>1, <1>3, <1>4 DEF Got, Holding, ObjectIs
<1>6. Normal(o) = [o EXCEPT !.body = SameTenant(m)]
  BY <1>1 DEF Normal
<1>7. [o EXCEPT !.body = SameTenant(m)] = ObjectIs("Tenant", SameTenant(m))
  BY ObjectShape DEF ObjectIs
<1> QED
  BY <1>5, <1>6, <1>7

LEMMA TenantListGot ==
    ASSUME NEW m \in TenantLists, NEW o, o = ObjectIs("TenantList", m), NEW d,
           TenantListUnmarshal(Reset.TenantList, d) = ListIs(m.ListMeta, Each(SameTenant, m.Items))
    PROVE  Got(o, d) = Normal(o)
<1> DEFINE same == Each(SameTenant, m.Items)
           n == ListIs(m.ListMeta, same)
<1>1. o.kind = "TenantList" /\ o.body = m
  BY DEF ObjectIs
<1>2. ZeroOf[o.kind] = Reset.TenantList
  BY <1>1 DEF ZeroOf
<1>3. Unmarshal(o.kind, ZeroOf[o.kind], d) = n
  BY <1>1, <1>2 DEF Unmarshal
<1>4. n # NotOk
  BY ListOk
<1>5. Got(o, d) = ObjectIs("TenantList", n)
  <2> HIDE DEF n
  <2> QED
    BY <1>1, <1>3, <1>4 DEF Got, Holding, ObjectIs
<1>6. Normal(o) = [o EXCEPT !.body = [m EXCEPT !.Items = same]]
  BY <1>1 DEF Normal
<1>7. [m EXCEPT !.Items = same] = n
  <2> HIDE DEF same
  <2>1. [m EXCEPT !.Items = same] \in [ListMeta : {m.ListMeta}, Items : {same}]
    BY DEF TenantLists
  <2> QED
    BY <2>1, ListShape
<1> HIDE DEF n
<1>8. [o EXCEPT !.body = n] = ObjectIs("TenantList", n)
  BY ObjectShape DEF ObjectIs
<1> QED
  BY <1>5, <1>6, <1>7, <1>8

LEMMA ClusterGot ==
    ASSUME NEW m \in ClusterResourceQuotas, NEW o, o = ObjectIs("ClusterResourceQuota", m), NEW d,
           ClusterResourceQuotaUnmarshal(QuotaReset.ClusterResourceQuota, d) = m
    PROVE  Got(o, d) = Normal(o)
<1>1. o.kind = "ClusterResourceQuota"
  BY DEF ObjectIs
<1>2. ZeroOf[o.kind] = QuotaReset.ClusterResourceQuota
  BY <1>1 DEF ZeroOf
<1>3. Unmarshal(o.kind, ZeroOf[o.kind], d) = m
  BY <1>1, <1>2 DEF Unmarshal
<1>4. m # NotOk
  BY ClusterShape
<1>5. Got(o, d) = o
  BY <1>1, <1>3, <1>4 DEF Got, Holding, ObjectIs
<1> QED
  BY <1>1, <1>5 DEF Normal

LEMMA ClusterListGot ==
    ASSUME NEW m \in ClusterResourceQuotaLists, NEW o, o = ObjectIs("ClusterResourceQuotaList", m),
           NEW d, ClusterResourceQuotaListUnmarshal(QuotaReset.ClusterResourceQuotaList, d) = m
    PROVE  Got(o, d) = Normal(o)
<1>1. o.kind = "ClusterResourceQuotaList"
  BY DEF ObjectIs
<1>2. ZeroOf[o.kind] = QuotaReset.ClusterResourceQuotaList
  BY <1>1 DEF ZeroOf
<1>3. Unmarshal(o.kind, ZeroOf[o.kind], d) = m
  BY <1>1, <1>2 DEF Unmarshal
<1>4. m # NotOk
  <2>1. m = ListIs(m.ListMeta, m.Items)
    BY DEF ClusterResourceQuotaLists, ListIs
  <2> QED
    BY <2>1, ListOk
<1>5. Got(o, d) = o
  BY <1>1, <1>3, <1>4 DEF Got, Holding, ObjectIs
<1> QED
  BY <1>1, <1>5 DEF Normal

LEMMA FieldsUnknown == \A field \in NewFields : IsUnknown(field)
  BY StreamAssumption DEF IsUnknown

LEMMA SlicesSent ==
    ASSUME NEW o \in Objects, NEW order \in MapOrders
    PROVE  /\ IsSlice(BytesOf(o, order))
           /\ \A field \in NewFields : \A d \in Newer(o, field, order) : IsSlice(d)
  BY StreamAssumption

LEMMA KnownIs ==
    ASSUME NEW o \in Known
    PROVE  \/ o.body \in Tenants /\ o = ObjectIs("Tenant", o.body)
           \/ o.body \in TenantLists /\ o = ObjectIs("TenantList", o.body)
           \/ o.body \in ClusterResourceQuotas /\ o = ObjectIs("ClusterResourceQuota", o.body)
           \/ /\ o.body \in ClusterResourceQuotaLists
              /\ o = ObjectIs("ClusterResourceQuotaList", o.body)
  BY DEF Known, ObjectIs

LEMMA NewerArrives ==
    ASSUME NEW o \in Objects, NEW field \in NewFields, NEW order \in MapOrders,
           NEW d \in Newer(o, field, order)
    PROVE  \/ Arrives(BytesOf(o, order), d)
           \/ /\ o.kind = "Tenant"
              /\ d = ThreeFields(o.body.ObjectMeta,
                                 field \o TenantSpecBytes(o.body.Spec, order),
                                 TenantStatusBytes(o.body.Status))
<1>1. IsUnknown(field)
  BY FieldsUnknown
<1>2. \/ d \in {field \o BytesOf(o, order), BytesOf(o, order) \o field}
      \/ /\ o.kind = "Tenant"
         /\ d = ThreeFields(o.body.ObjectMeta, field \o TenantSpecBytes(o.body.Spec, order),
                            TenantStatusBytes(o.body.Status))
  BY DEF Newer, ThreeFields
<1> QED
  BY <1>1, <1>2 DEF Arrives

\* Whatever the receiver is given of an object but a part of it, it holds the
\* object.
LEMMA WholeGot ==
    ASSUME NEW o \in Objects, NEW order \in MapOrders, NEW d,
           IsSlice(d), Arrives(BytesOf(o, order), d)
    PROVE  Got(o, d) = Normal(o)
<1> DEFINE m == o.body
<1>1. IsMapOrder(order) /\ o \in Known
  BY OrdersKnown, ObjectsKnown
<1>2. CASE m \in Tenants /\ o = ObjectIs("Tenant", m)
  <2>1. BytesOf(o, order) = TenantBytes(m, order)
    <3>1. o.kind = "Tenant"
      BY <1>2 DEF ObjectIs
    <3> QED
      BY <3>1 DEF BytesOf
  <2> QED
    BY <1>1, <1>2, <2>1, TenantRead, TenantGot
<1>3. CASE m \in TenantLists /\ o = ObjectIs("TenantList", m)
  <2>1. BytesOf(o, order) = TenantListBytes(m, order)
    <3>1. o.kind = "TenantList"
      BY <1>3 DEF ObjectIs
    <3> QED
      BY <3>1 DEF BytesOf
  <2>2. TenantListUnmarshal(Reset.TenantList, d) = ListIs(m.ListMeta, Each(SameTenant, m.Items))
    BY <1>1, <1>3, <2>1, TenantListRead
  <2> QED
    BY <1>3, <2>2, TenantListGot
<1>4. CASE m \in ClusterResourceQuotas /\ o = ObjectIs("ClusterResourceQuota", m)
  <2>1. BytesOf(o, order) = ClusterResourceQuotaBytes(m)
    <3>1. o.kind = "ClusterResourceQuota"
      BY <1>4 DEF ObjectIs
    <3> QED
      BY <3>1 DEF BytesOf
  <2> QED
    BY <1>4, <2>1, ClusterRead, ClusterGot
<1>5. CASE m \in ClusterResourceQuotaLists /\ o = ObjectIs("ClusterResourceQuotaList", m)
  <2>1. BytesOf(o, order) = ClusterResourceQuotaListBytes(m)
    <3>1. o.kind = "ClusterResourceQuotaList"
      BY <1>5 DEF ObjectIs
    <3> QED
      BY <3>1 DEF BytesOf
  <2> QED
    BY <1>5, <2>1, ClusterListRead, ClusterListGot
<1> QED
  BY <1>1, <1>2, <1>3, <1>4, <1>5, KnownIs

LEMMA InsideGot ==
    ASSUME NEW o \in Objects, o.kind = "Tenant", NEW order \in MapOrders, NEW field \in NewFields,
           NEW d, IsSlice(d),
           d = ThreeFields(o.body.ObjectMeta, field \o TenantSpecBytes(o.body.Spec, order),
                           TenantStatusBytes(o.body.Status))
    PROVE  Got(o, d) = Normal(o)
<1>1. IsMapOrder(order) /\ o \in Known /\ IsUnknown(field)
  BY OrdersKnown, ObjectsKnown, FieldsUnknown
<1>2. o.body \in Tenants /\ o = ObjectIs("Tenant", o.body)
  BY <1>1, KnownIs DEF ObjectIs
<1> DEFINE m == o.body
<1>3. TenantUnmarshal(Reset.Tenant, d) = SameTenant(m)
  BY <1>1, <1>2, TenantReadInside
<1> QED
  BY <1>2, <1>3, TenantGot

\* What the bytes on the wire are of the object sent.
ReadInv ==
    /\ StreamInv
    /\ how = "extended" =>
           \E field \in NewFields, order \in MapOrders : data \in Newer(sent, field, order)
    /\ KeepsEveryField

LEMMA ReadInvInit == StreamInit => ReadInv
<1> SUFFICES ASSUME StreamInit PROVE ReadInv
  OBVIOUS
<1>1. StreamInv
  BY StreamInvInit
<1> QED
  BY <1>1 DEF StreamInit, ReadInv, KeepsEveryField

LEMMA ReadInvStep == ReadInv /\ [StreamNext]_streamVars => ReadInv'
<1> SUFFICES ASSUME ReadInv, [StreamNext]_streamVars PROVE ReadInv'
  OBVIOUS
<1>1. StreamInv'
  BY StreamInvStep DEF ReadInv
<1>2. CASE Decode
  <2>1. UNCHANGED <<sent, data, how>> /\ held' = Got(sent, data)
    BY <1>2 DEF Decode, Got, Receiver
  <2>2. how \in {"whole", "extended"} => Got(sent, data) = Normal(sent)
    <3>1. sent \in Objects
      BY DEF ReadInv, StreamInv
    <3>2. CASE how = "whole"
      <4>1. PICK order \in MapOrders : data = BytesOf(sent, order)
        BY <3>2 DEF ReadInv, StreamInv
      <4>2. IsSlice(data) /\ Arrives(BytesOf(sent, order), data)
        BY <3>1, <4>1, SlicesSent DEF Arrives
      <4> QED
        BY <3>1, <4>2, WholeGot
    <3>3. CASE how = "extended"
      <4>1. PICK field \in NewFields, order \in MapOrders : data \in Newer(sent, field, order)
        BY <3>3 DEF ReadInv
      <4>2. IsSlice(data)
        BY <3>1, <4>1, SlicesSent
      <4> QED
        BY <3>1, <4>1, <4>2, NewerArrives, WholeGot, InsideGot
    <3> QED
      BY <3>2, <3>3
  <2>3. KeepsEveryField'
    <3>1. Normal(sent)' = Normal(sent)
      BY <2>1
    <3> QED
      BY <2>1, <2>2, <3>1 DEF KeepsEveryField
  <2>4. (how = "extended" =>
           \E field \in NewFields, order \in MapOrders : data \in Newer(sent, field, order))'
    BY <2>1 DEF ReadInv
  <2> QED
    BY <1>1, <2>3, <2>4 DEF ReadInv
<1>3. ASSUME NEW o \in Objects, NEW sizing \in MapOrders, NEW writing \in MapOrders,
             Encode(o, sizing, writing)
      PROVE  ReadInv'
  <2>1. how' = "whole" /\ read' = FALSE
    BY <1>3 DEF Encode
  <2> QED
    BY <1>1, <2>1 DEF ReadInv, KeepsEveryField
<1>4. ASSUME NEW field \in NewFields, NEW order \in MapOrders, Extend(field, order)
      PROVE  ReadInv'
  <2>1. ~read' /\ sent' = sent /\ data' \in Newer(sent, field, order)
    BY <1>4 DEF Extend
  <2> QED
    BY <1>1, <2>1 DEF ReadInv, KeepsEveryField
<1>5. ASSUME NEW n \in 0..(Len(data) - 1), Cut(n)
      PROVE  ReadInv'
  <2>1. how' = "cut"
    BY <1>5 DEF Cut
  <2> QED
    BY <1>1, <2>1 DEF ReadInv, KeepsEveryField
<1>6. CASE UNCHANGED streamVars
  <2>1. /\ sent' = sent /\ data' = data /\ how' = how /\ held' = held /\ read' = read
    BY <1>6 DEF streamVars
  <2>2. Normal(sent)' = Normal(sent)
    BY <2>1
  <2>3. KeepsEveryField'
    BY <2>1, <2>2 DEF ReadInv, KeepsEveryField
  <2> QED
    BY <1>1, <2>1, <2>3 DEF ReadInv
<1> QED
  BY <1>2, <1>3, <1>4, <1>5, <1>6 DEF StreamNext

\* Whatever is sent arrives: once an object has been read from bytes that were
\* not cut, the receiver holds every field of it, also when a newer build sent
\* it, for every object, map order, word width and unknown field.
THEOREM EveryFieldIsKept == StreamSpec => []KeepsEveryField
<1>1. ReadInv => KeepsEveryField
  BY DEF ReadInv
<1> QED
  BY <1>1, ReadInvInit, ReadInvStep, PTL DEF StreamSpec

-----------------------------------------------------------------------------
(* Reading bytes that were cut: p holds the first bytes of d.              *)

LEMMA CutSlice ==
    ASSUME NEW d \in Bytes, IsSlice(d), NEW p \in Bytes, Holds(d, 0, p)
    PROVE  IsSlice(p) /\ Len(p) \in Nat /\ Len(d) \in Nat /\ Len(p) <= Len(d)
<1>1. Len(p) \in Nat /\ Len(d) \in Nat
  BY BytesShape
<1>2. Len(p) <= Len(d)
  BY <1>1 DEF Holds
<1>3. Len(d) < WordSize \div 2 /\ WordSize \div 2 \in Nat
  BY SizesAssumption DEF IsSlice
<1>4. Len(p) < WordSize \div 2
  BY <1>1, <1>2, <1>3
<1> QED
  BY <1>1, <1>2, <1>4 DEF IsSlice

\* What stands before the cut stands there still.
LEMMA CutHolds ==
    ASSUME NEW d \in Bytes, NEW p \in Bytes, Holds(d, 0, p), NEW i \in Nat, NEW b \in Bytes,
           Holds(d, i, b), i + Len(b) <= Len(p)
    PROVE  Holds(p, i, b)
<1>1. Len(p) \in Nat /\ Len(b) \in Nat
  BY BytesShape
<1>2. ASSUME NEW k \in 1..Len(b) PROVE p[i + k] = b[k]
  <2>1. i + k \in 1..Len(p) /\ d[i + k] = b[k]
    BY <1>1 DEF Holds
  <2>2. d[0 + (i + k)] = p[i + k]
    BY <2>1 DEF Holds
  <2>3. 0 + (i + k) = i + k
    BY <1>1
  <2> QED
    BY <2>1, <2>2, <2>3
<1> QED
  BY <1>2 DEF Holds

LEMMA VarintCut ==
    ASSUME NEW d \in Bytes, NEW p \in Bytes, Holds(d, 0, p), NEW j \in Nat
    PROVE  ReadVarint(p, j) \in {NotOk, ReadVarint(d, j)}
<1>1. SameVarint(ReadVarint(p, j), ReadVarint(d, 0 + j), 0, j, p)
  BY VarintSame
<1>2. 0 + j = j /\ \A n \in Nat : 0 + n = n
  OBVIOUS
<1> QED
  BY <1>1, <1>2 DEF SameVarint

LEMMA TagCut ==
    ASSUME NEW d \in Bytes, NEW p \in Bytes, Holds(d, 0, p), NEW j \in Nat
    PROVE  Tag(p, j) \in {NotOk, Tag(d, j)}
<1>1. SameTag(Tag(p, j), Tag(d, 0 + j), 0, j, p)
  BY TagSame
<1>2. 0 + j = j /\ \A n \in Nat : 0 + n = n
  OBVIOUS
<1> QED
  BY <1>1, <1>2 DEF SameTag

LEMMA TagIsTag ==
    ASSUME NEW d \in Bytes, NEW j \in Nat
    PROVE  Tag(d, j) = NotOk \/ \E n \in Nat, w \in 0..7, k \in Int : Tag(d, j) = TagIs(n, w, k)
<1>1. Holds(d, 0, d)
  BY HoldsWhole
<1>2. SameTag(Tag(d, j), Tag(d, 0 + j), 0, j, d)
  BY <1>1, TagSame
<1> QED
  BY <1>2 DEF SameTag

LEMMA SkipType ==
    ASSUME NEW d \in Bytes, NEW f, IsSkip(d, f)
    PROVE  \A left \in Nat : \A at, depth \in Nat : f[left][<<at, depth>>] \in Int
<1> DEFINE P(left) == \A at, depth \in Nat : f[left][<<at, depth>>] \in Int
           T == {left \in Nat : P(left)}
<1>1. 0 \in T
  <2> SUFFICES ASSUME NEW at \in Nat, NEW depth \in Nat PROVE f[0][<<at, depth>>] \in Int
    OBVIOUS
  <2>1. f[0][<<at, depth>>] = -1
    BY SkipAt
  <2> QED
    BY <2>1
<1>2. ASSUME NEW left \in Nat, left \in T PROVE left + 1 \in T
  <2> SUFFICES ASSUME NEW at \in Nat, NEW depth \in Nat
               PROVE  f[left + 1][<<at, depth>>] \in Int
    OBVIOUS
  <2>1. f[left + 1][<<at, depth>>] =
             IF left + 1 = 0 \/ at >= Len(d) THEN -1
             ELSE SkipFrom(d, f[(left + 1) - 1], Tag(d, at), depth)
    BY SkipAt
  <2>2. (left + 1) - 1 = left
    OBVIOUS
  <2>3. SkipFrom(d, f[left], Tag(d, at), depth) \in Int
    <3>1. CASE Tag(d, at) = NotOk
      BY <3>1, NotOkIsNot DEF SkipFrom
    <3>2. ASSUME NEW n \in Nat, NEW w \in 0..7, NEW k \in Int, Tag(d, at) = TagIs(n, w, k)
          PROVE  SkipFrom(d, f[left], Tag(d, at), depth) \in Int
      <4> DEFINE t == TagIs(n, w, k)
                 end == ValueEnd(d, t)
                 deep == depth + Deeper(t)
      <4>1. t.ok /\ t.wire = w
        BY TagOk
      <4>2. end \in Int
        BY ValueEndType
      <4> HIDE DEF t
      <4>3. deep \in Int
        <5>1. Deeper(t) \in Int
          BY <4>1 DEF Deeper
        <5> QED
          BY <5>1
      <4>4. SkipFrom(d, f[left], Tag(d, at), depth) = SkipTo(f[left], end, deep)
        BY <3>2, <4>1 DEF SkipFrom, t
      <4> HIDE DEF end, deep
      <4>5. SkipTo(f[left], end, deep) \in Int
        <5>1. CASE deep < 0 \/ end < 0
          BY <5>1 DEF SkipTo
        <5>2. CASE deep \in Nat /\ end \in Nat
          <6>1. f[left][<<end, deep>>] \in Int
            BY <1>2, <5>2
          <6> QED
            BY <4>2, <6>1 DEF SkipTo
        <5> QED
          BY <4>2, <4>3, <5>1, <5>2
      <4> QED
        BY <4>4, <4>5
    <3> QED
      BY <3>1, <3>2, TagIsTag
  <2> QED
    BY <2>1, <2>2, <2>3
<1>3. Nat \subseteq T
  <2> HIDE DEF T
  <2> QED
    BY <1>1, <1>2, Bits!Induction
<1> QED
  BY <1>3

\* Skipping the field of a cut object ends where it does in the whole one, or
\* does not end.
LEMMA SkipCut ==
    ASSUME NEW d \in Bytes, IsSlice(d), NEW p \in Bytes, Holds(d, 0, p), NEW i \in Nat
    PROVE  LET end == skipGenerated(p, i)
           IN end < 0 \/ end > Len(p) \/ end = skipGenerated(d, i)
<1>1. PICK f : IsSkip(p, f) /\ skipGenerated(p, i) = f[Len(p)][<<i, 0>>]
  BY SkipIs
<1>2. PICK g : IsSkip(d, g) /\ skipGenerated(d, i) = g[Len(d)][<<i, 0>>]
  BY SkipIs
<1>3. Len(p) \in Nat /\ Len(d) \in Nat /\ Len(p) <= Len(d) /\ 0 + i = i
  BY CutSlice
<1> DEFINE end == skipGenerated(p, i)
<1>4. end \in Int
  BY <1>1, <1>3, SkipType
<1>5. CASE end \in 0..Len(p)
  <2>1. f[Len(p)][<<i, 0>>] = end
    BY <1>1
  <2> HIDE DEF end
  <2>2. g[Len(d)][<<0 + i, 0>>] = 0 + end
    <3>1. IsSkip(p, f) /\ IsSkip(d, g)
      BY <1>1, <1>2
    <3>2. EndsWhere(f, g, 0, end)
      BY <1>5, <3>1, SkipSame
    <3> QED
      BY <1>3, <2>1, <3>2 DEF EndsWhere
  <2>3. 0 + end = end
    BY <1>5
  <2> QED
    BY <1>2, <1>3, <2>2, <2>3 DEF end
<1> QED
  BY <1>3, <1>4, <1>5

-----------------------------------------------------------------------------
(* A field that the cut runs through is refused.                           *)

LEMMA RefusesUnknown ==
    ASSUME NEW d \in Bytes, IsSlice(d), NEW p \in Bytes, Holds(d, 0, p),
           NEW i \in Nat, NEW b, IsUnknown(b), Holds(d, i, b), Len(p) < i + Len(b),
           NEW wires, DOMAIN wires \subseteq 1..5
    PROVE  FieldAt(p, wires, i) = NotOk
<1>1. b \in Bytes /\ skipGenerated(b, 0) = Len(b) /\ Len(b) \in Nat
  BY BytesShape DEF IsUnknown
<1>2. skipGenerated(d, i) = i + Len(b)
  BY <1>1, FieldSkipped
<1>3. Len(p) \in Nat
  BY BytesShape
<1>4. skipGenerated(p, i) < 0 \/ skipGenerated(p, i) > Len(p)
  BY <1>1, <1>2, <1>3, SkipCut
<1>5. Skipped(skipGenerated(p, i), Len(p)) = NotOk
  BY <1>4 DEF Skipped
<1>6. CASE Tag(p, i) = NotOk
  BY <1>6, NotOkIsNot DEF FieldAt
<1>7. CASE Tag(p, i) # NotOk
  <2>1. Tag(p, i) = Tag(d, i)
    BY <1>7, TagCut
  <2>2. Tag(b, 0) # NotOk
    <3>1. PICK f : IsSkip(b, f) /\ skipGenerated(b, 0) = f[Len(b)][<<0, 0>>]
      BY SkipIs
    <3>2. f[Len(b)][<<0, 0>>] = IF Len(b) = 0 \/ 0 >= Len(b) THEN -1
                                ELSE SkipFrom(b, f[Len(b) - 1], Tag(b, 0), 0)
      BY <1>1, <3>1, SkipAt
    <3> QED
      BY <1>1, <3>1, <3>2, NotOkIsNot DEF SkipFrom
  <2>3. SameTag(Tag(b, 0), Tag(d, i + 0), i, 0, b)
    BY <1>1, TagSame
  <2>4. PICK n \in Nat, w \in 0..7, k \in Int :
               Tag(b, 0) = TagIs(n, w, k) /\ Tag(d, i + 0) = TagIs(i + n, w, k)
    BY <2>2, <2>3 DEF SameTag
  <2>5. w # 4 /\ k > 5
    BY <2>4, TagOk DEF IsUnknown
  <2> DEFINE t == TagIs(i + n, w, k)
  <2>6. t.ok /\ t.wire = w /\ t.num = k
    BY TagOk
  <2> HIDE DEF t
  <2>7. Tag(p, i) = t
    <3>1. i + 0 = i
      OBVIOUS
    <3> QED
      BY <2>1, <2>4, <3>1 DEF t
  <2>8. k \notin DOMAIN wires /\ ~(k <= 0)
    BY <2>5
  <2>9. FieldAt(p, wires, i) = Skipped(skipGenerated(p, i), Len(p))
    BY <2>5, <2>6, <2>7, <2>8 DEF FieldAt
  <2> QED
    BY <1>5, <2>9
<1> QED
  BY <1>6, <1>7

\* The length of a field of bytes.
LEMMA HeldLength ==
    ASSUME NEW d \in Bytes, IsSlice(d), NEW i \in Nat, NEW tag, NEW num, IsTag(tag, num, 2),
           NEW b \in Bytes, Holds(d, i, BytesField(tag, b)),
           NEW from \in Nat, IsFrom(from, i, tag, b)
    PROVE  ReadVarint(d, i + 1) = Varint(Len(b), from)
<1> DEFINE enc == encodeVarintGenerated(Len(b))
           one == <<tag>>
           rest == enc \o b
<1>1. tag \in 8..127 /\ tag \in Byte
  BY DEF IsTag, Byte
<1>2. Len(b) \in Nat /\ sovGenerated(Len(b)) \in Nat
  BY BytesShape, SovIs
<1>3. one \in Bytes /\ Len(one) = 1 /\ enc \in Bytes
  BY <1>1, <1>2, TagBytes, EncodeLen
<1>4. rest \in Bytes
  BY <1>3, Joined
<1>5. BytesField(tag, b) = one \o rest
  BY <1>3, <1>4 DEF BytesField, Bytes
<1>6. Holds(d, i + 1, rest) /\ i + 1 \in Nat
  <2> HIDE DEF one, rest
  <2>1. Holds(d, i, one \o rest)
    BY <1>5
  <2>2. Holds(d, i + Len(one), rest)
    BY <1>3, <1>4, <2>1, HoldsJoined
  <2> QED
    BY <1>3, <2>2
<1>7. Holds(d, i + 1, enc)
  <2> HIDE DEF enc
  <2> QED
    BY <1>3, <1>6, HoldsJoined
<1>8. from = (i + 1) + sovGenerated(Len(b))
  <2>1. Len(BytesField(tag, b)) = 1 + Len(b) + sovGenerated(Len(b))
    BY <1>1, BytesFieldLen DEF BytesSize
  <2> QED
    BY <1>2, <2>1 DEF IsFrom
<1>9. IsSlice(b)
  BY HeldSlice
<1>10. Len(b) < WordSize
  BY <1>2, <1>9, SizesAssumption DEF IsSlice
<1> QED
  BY <1>2, <1>6, <1>7, <1>8, <1>10, ReadsVarint

LEMMA RefusesBytes ==
    ASSUME NEW d \in Bytes, IsSlice(d), NEW p \in Bytes, Holds(d, 0, p),
           NEW i \in Nat, NEW tag, NEW num, IsTag(tag, num, 2),
           NEW b \in Bytes, Holds(d, i, BytesField(tag, b)), Len(p) < i + Len(BytesField(tag, b)),
           NEW wires, num \in DOMAIN wires, wires[num] = 2
    PROVE  FieldAt(p, wires, i) = NotOk
<1> DEFINE next == i + Len(BytesField(tag, b))
           from == next - Len(b)
           n == Len(b)
<1>1. from \in Nat /\ next \in Nat /\ from + n = next /\ IsFrom(from, i, tag, b)
  BY FromExists
<1>2. n \in Nat /\ Len(p) \in Nat /\ Len(p) < next /\ Len(d) \in Nat /\ next <= Len(d)
  BY BytesShape, CutSlice DEF Holds
<1> HIDE DEF from, next
<1>3. Tag(d, i) = TagIs(i + 1, 2, num) /\ ReadVarint(d, i + 1) = Varint(n, from)
  BY <1>1, HoldsField, HeldLength
<1>4. n < WordSize \div 2 /\ next < WordSize \div 2 /\ WordSize \in Nat /\ WordSize > 0
  <2>1. WordSize \in Nat /\ WordSize > 0 /\ WordSize \div 2 \in Nat /\ Len(d) < WordSize \div 2
    BY SizesAssumption DEF IsSlice
  <2> HIDE DEF n
  <2> QED
    BY <1>1, <1>2, <2>1
<1>5. Signed(n, WordSize) = n /\ Signed(from + n, WordSize) = from + n
  BY <1>1, <1>2, <1>4, SignedSame
<1>6. ReadBytes(p, i + 1) = NotOk
  <2>1. i + 1 \in Nat
    OBVIOUS
  <2>2. CASE ReadVarint(p, i + 1) = NotOk
    BY <2>2, NotOkIsNot DEF ReadBytes, Delimited
  <2>3. CASE ReadVarint(p, i + 1) # NotOk
    <3> DEFINE r == Varint(n, from)
    <3>1. r.ok /\ r.val = n /\ r.next = from
      BY VarintOk
    <3> HIDE DEF r
    <3>2. ReadVarint(p, i + 1) = r
      BY <1>3, <2>1, <2>3, VarintCut DEF r
    <3>3. Signed(r.next + Signed(r.val, WordSize), WordSize) = next
      BY <1>1, <1>5, <3>1
    <3>4. next > Len(p)
      BY <1>1, <1>2
    <3>5. Delimited(p, r) = NotOk
      BY <3>3, <3>4 DEF Delimited
    <3> QED
      BY <3>2, <3>5 DEF ReadBytes
  <2> QED
    BY <2>2, <2>3
<1>7. CASE Tag(p, i) = NotOk
  BY <1>7, NotOkIsNot DEF FieldAt
<1>8. CASE Tag(p, i) # NotOk
  <2> DEFINE t == TagIs(i + 1, 2, num)
  <2>1. Tag(p, i) = t
    BY <1>3, <1>8, TagCut
  <2>2. t.ok /\ t.next = i + 1 /\ t.wire = 2 /\ t.num = num
    BY TagOk
  <2> HIDE DEF t
  <2>3. ~(num <= 0) /\ num \in Nat
    BY DEF IsTag
  <2>4. FieldAt(p, wires, i) = Member(num, p, NotOk)
    <3>1. num \in DOMAIN wires /\ wires[num] = 2 /\ ~(wires[num] = 0)
      OBVIOUS
    <3> QED
      BY <1>6, <2>1, <2>2, <2>3, <3>1 DEF FieldAt
  <2> QED
    BY <2>4, NotOkIsNot DEF Member
<1> QED
  BY <1>7, <1>8

LEMMA GivesRefused ==
    ASSUME NEW kind, NEW field, NEW post \in Nat, NEW i \in Nat, i < post, NEW m, field[i] = NotOk
    PROVE  Gives(kind, field, post, i, m, NotOk)
<1> SUFFICES ASSUME NEW f, NEW left \in Nat, IsMembers(field, post, f), post - i <= left
             PROVE  Brings(kind, m, f[left][i], NotOk)
  BY DEF Gives
<1>1. left # 0 /\ ~(i >= post)
  OBVIOUS
<1>2. f[left][i] = MembersOn(f[left - 1], NotOk)
  BY <1>1, MembersAt
<1>3. MembersOn(f[left - 1], NotOk) = <<NotOk>>
  BY NotOkIsNot DEF MembersOn
<1>4. SetOf(kind, m, NotOk) = NotOk
  BY NotOkIsNot DEF SetOf
<1>5. Brings(kind, m, <<NotOk>> \o <<>>, NotOk)
  BY <1>4, BringsNothing, BringsOne
<1>6. <<NotOk>> \o <<>> = <<NotOk>>
  OBVIOUS
<1> QED
  BY <1>2, <1>3, <1>5, <1>6

LEMMA ReadsRefused ==
    ASSUME NEW kind, NEW wires, NEW p \in Bytes, NEW i \in Nat, i < Len(p), NEW m,
           FieldAt(p, wires, i) = NotOk
    PROVE  Reads(kind, wires, p, i, m, NotOk)
<1> DEFINE field == FieldsOf(p, wires)
<1>1. field[i] = NotOk
  BY DEF FieldsOf
<1>2. Len(p) \in Nat
  BY BytesShape
<1> HIDE DEF field
<1>3. Gives(kind, field, Len(p), i, m, NotOk)
  BY <1>1, <1>2, GivesRefused
<1> QED
  BY <1>3 DEF Reads, field

\* Wherever d is cut from the offset i on, reading what is left of it brings m to
\* one of R or is refused.
Cuts(kind, wires, d, i, m, R) ==
    \A p \in Bytes : Holds(d, 0, p) /\ i <= Len(p) =>
        \E r \in R \cup {NotOk} : Reads(kind, wires, p, i, m, r)

LEMMA CutsEnd ==
    ASSUME NEW kind, NEW wires, NEW d \in Bytes, NEW R, NEW m \in R
    PROVE  Cuts(kind, wires, d, Len(d), m, R)
<1> SUFFICES ASSUME NEW p \in Bytes, Holds(d, 0, p), Len(d) <= Len(p)
             PROVE  \E r \in R \cup {NotOk} : Reads(kind, wires, p, Len(d), m, r)
  BY DEF Cuts
<1>1. Len(p) = Len(d)
  BY BytesShape DEF Holds
<1>2. Reads(kind, wires, p, Len(p), m, m)
  BY ReadsEnd
<1> QED
  BY <1>1, <1>2

\* A field b at i, which is refused when the cut runs through it.
LEMMA CutsField ==
    ASSUME NEW kind, NEW wires, NEW d \in Bytes, NEW i \in Nat, NEW b \in Bytes, Holds(d, i, b),
           NEW R, NEW m \in R, NEW n,
           \A p \in Bytes : Holds(d, 0, p) /\ i < Len(p) /\ Len(p) < i + Len(b)
               => FieldAt(p, wires, i) = NotOk,
           \A p \in Bytes : \A r :
               Holds(d, 0, p) /\ i + Len(b) <= Len(p) /\ Reads(kind, wires, p, i + Len(b), n, r)
               => Reads(kind, wires, p, i, m, r),
           Cuts(kind, wires, d, i + Len(b), n, R)
    PROVE  Cuts(kind, wires, d, i, m, R)
<1> SUFFICES ASSUME NEW p \in Bytes, Holds(d, 0, p), i <= Len(p)
             PROVE  \E r \in R \cup {NotOk} : Reads(kind, wires, p, i, m, r)
  BY DEF Cuts
<1> DEFINE next == i + Len(b)
<1>1. Len(p) \in Nat /\ next \in Nat
  BY BytesShape
<1>2. CASE Len(p) = i
  BY <1>2, ReadsEnd
<1>3. CASE i < Len(p) /\ Len(p) < next
  <2>1. FieldAt(p, wires, i) = NotOk
    BY <1>3
  <2>2. Reads(kind, wires, p, i, m, NotOk)
    BY <1>3, <2>1, ReadsRefused
  <2> QED
    BY <2>2
<1>4. CASE next <= Len(p)
  <2>1. PICK r \in R \cup {NotOk} : Reads(kind, wires, p, next, n, r)
    BY <1>4 DEF Cuts
  <2>2. Reads(kind, wires, p, i, m, r)
    BY <1>4, <2>1
  <2> QED
    BY <2>2
<1> QED
  BY <1>1, <1>2, <1>3, <1>4

LEMMA CutsBytes ==
    ASSUME NEW d \in Bytes, IsSlice(d), NEW i \in Nat, NEW tag, NEW num, IsTag(tag, num, 2),
           NEW b \in Bytes, Holds(d, i, BytesField(tag, b)),
           NEW wires, num \in DOMAIN wires, wires[num] = 2,
           NEW kind, NEW R, NEW m \in R, NEW n, \A p \in Bytes : Takes(kind, num, p, b, m, n),
           Cuts(kind, wires, d, i + Len(BytesField(tag, b)), n, R)
    PROVE  Cuts(kind, wires, d, i, m, R)
<1> DEFINE c == BytesField(tag, b)
<1>1. c \in Bytes
  <2>1. tag \in Byte
    BY DEF IsTag, Byte
  <2> QED
    BY <2>1, BytesFieldLen
<1>2. ASSUME NEW p \in Bytes, Holds(d, 0, p), i < Len(p), Len(p) < i + Len(c)
      PROVE  FieldAt(p, wires, i) = NotOk
  BY <1>2, RefusesBytes
<1>3. ASSUME NEW p \in Bytes, NEW r, Holds(d, 0, p), i + Len(c) <= Len(p),
             Reads(kind, wires, p, i + Len(c), n, r)
      PROVE  Reads(kind, wires, p, i, m, r)
  <2>1. IsSlice(p)
    BY <1>3, CutSlice
  <2>2. Holds(p, i, c)
    <3> HIDE DEF c
    <3>1. Holds(d, i, c)
      BY DEF c
    <3> QED
      BY <1>1, <1>3, <3>1, CutHolds
  <2>3. Takes(kind, num, p, b, m, n)
    OBVIOUS
  <2> QED
    BY <1>3, <2>1, <2>2, <2>3, ReadsTheBytes
<1>4. Holds(d, i, c) /\ Cuts(kind, wires, d, i + Len(c), n, R)
  OBVIOUS
<1> HIDE DEF c
<1> QED
  BY <1>1, <1>2, <1>3, <1>4, CutsField

LEMMA CutsPast ==
    ASSUME NEW d \in Bytes, IsSlice(d), NEW i \in Nat, NEW b, IsUnknown(b), Holds(d, i, b),
           NEW wires, DOMAIN wires \subseteq 1..5,
           NEW kind, NEW R, NEW m \in R, Cuts(kind, wires, d, i + Len(b), m, R)
    PROVE  Cuts(kind, wires, d, i, m, R)
<1>1. b \in Bytes
  BY DEF IsUnknown
<1>2. ASSUME NEW p \in Bytes, Holds(d, 0, p), i < Len(p), Len(p) < i + Len(b)
      PROVE  FieldAt(p, wires, i) = NotOk
  BY <1>2, RefusesUnknown
<1>3. ASSUME NEW p \in Bytes, NEW r, Holds(d, 0, p), i + Len(b) <= Len(p),
             Reads(kind, wires, p, i + Len(b), m, r)
      PROVE  Reads(kind, wires, p, i, m, r)
  <2>1. IsSlice(p) /\ Holds(p, i, b)
    BY <1>1, <1>3, CutSlice, CutHolds
  <2> QED
    BY <1>3, <2>1, ReadsPast
<1> QED
  BY <1>1, <1>2, <1>3, CutsField

LEMMA CutsRun ==
    ASSUME NEW d \in Bytes, IsSlice(d), NEW i \in Nat, NEW tag, NEW num, IsTag(tag, num, 2),
           NEW e \in Seq(Bytes), Holds(d, i, BytesFields(tag, e)),
           NEW wires, num \in DOMAIN wires, wires[num] = 2,
           NEW kind, NEW R, NEW s, \A k \in 0..Len(e) : s[k] \in R,
           \A p \in Bytes : \A k \in 1..Len(e) :
               IsSlice(e[k]) => Takes(kind, num, p, e[k], s[k - 1], s[k]),
           Cuts(kind, wires, d, i + Len(BytesFields(tag, e)), s[Len(e)], R)
    PROVE  Cuts(kind, wires, d, i, s[0], R)
<1>1. Len(e) \in Nat /\ \A k \in 1..Len(e) : e[k] \in Bytes
  OBVIOUS
<1>2. PICK f : IsRun(tag, e, f) /\ BytesFields(tag, e) = f[Len(e)]
  BY <1>1, BytesFieldsIs
<1>3. f[0] = <<>> /\ \A k \in 1..Len(e) : f[k] = f[k - 1] \o BytesField(tag, e[k])
  BY <1>2 DEF IsRun
<1>4. \A k \in 0..Len(e) : f[k] \in Bytes
  <2> DEFINE l == [k \in DOMAIN e |-> Len(e[k])]
  <2>1. SizesOf(l, e) /\ Len(l) \in Nat
    BY <1>1 DEF SizesOf
  <2> HIDE DEF l
  <2>2. PICK g : IsSum(l, g)
    BY <2>1, SizesSumIs
  <2>3. tag \in Byte
    BY DEF IsTag, Byte
  <2> QED
    BY <1>2, <2>1, <2>2, <2>3, RunLen
<1> DEFINE Q(k) == k <= Len(e) /\ Holds(d, i, f[k]) /\ Cuts(kind, wires, d, i + Len(f[k]), s[k], R)
                   => Cuts(kind, wires, d, i, s[0], R)
           T == {k \in Nat : Q(k)}
<1>5. 0 \in T
  <2>1. i + Len(f[0]) = i
    BY <1>3
  <2> QED
    BY <2>1
<1>6. ASSUME NEW k \in Nat, k \in T PROVE k + 1 \in T
  <2> SUFFICES ASSUME k + 1 <= Len(e), Holds(d, i, f[k + 1]),
                      Cuts(kind, wires, d, i + Len(f[k + 1]), s[k + 1], R)
               PROVE  Cuts(kind, wires, d, i, s[0], R)
    OBVIOUS
  <2> DEFINE a == f[k]
             b == e[k + 1]
             c == BytesField(tag, b)
             at == i + Len(a)
  <2>1. k + 1 \in 1..Len(e) /\ (k + 1) - 1 = k /\ k \in 0..Len(e)
    BY <1>1
  <2>2. a \in Bytes /\ b \in Bytes /\ f[k + 1] = a \o c
    BY <1>1, <1>3, <1>4, <2>1
  <2>3. c \in Bytes
    <3>1. tag \in Byte
      BY DEF IsTag, Byte
    <3> QED
      BY <2>2, <3>1, BytesFieldLen
  <2>4. \A p \in Bytes : IsSlice(b) => Takes(kind, num, p, b, s[k], s[k + 1])
    BY <2>1
  <2>9. Len(a) \in Nat
    BY <2>2, BytesShape
  <2> HIDE DEF a, b, c
  <2>5. Holds(d, i, a) /\ Holds(d, at, c) /\ at \in Nat
    <3>1. Holds(d, i, a \o c)
      BY <2>2
    <3>2. Holds(d, i, a)
      BY <2>2, <2>3, <3>1, HoldsJoined
    <3>3. Holds(d, i + Len(a), c)
      BY <2>2, <2>3, <3>1, HoldsJoined
    <3> QED
      BY <2>9, <3>2, <3>3
  <2>6. i + Len(f[k + 1]) = at + Len(c)
    <3>1. Len(a \o c) = Len(a) + Len(c) /\ Len(a) \in Nat /\ Len(c) \in Nat
      BY <2>2, <2>3, Joined
    <3> QED
      BY <2>2, <3>1
  <2>7. Cuts(kind, wires, d, at + Len(c), s[k + 1], R)
    BY <2>6
  <2> HIDE DEF at
  <2>8. Cuts(kind, wires, d, at, s[k], R)
    <3>1. IsSlice(b)
      BY <2>2, <2>5, HeldSlice DEF c
    <3>2. s[k] \in R
      BY <2>1
    <3>3. \A p \in Bytes : Takes(kind, num, p, b, s[k], s[k + 1])
      BY <2>4, <3>1
    <3> QED
      BY <2>2, <2>5, <2>7, <3>2, <3>3, CutsBytes DEF c
  <2> QED
    BY <1>6, <2>1, <2>5, <2>8 DEF a, at
<1>7. Nat \subseteq T
  <2> HIDE DEF T
  <2> QED
    BY <1>5, <1>6, Bits!Induction
<1>8. Q(Len(e))
  BY <1>1, <1>7
<1> QED
  BY <1>2, <1>8

-----------------------------------------------------------------------------
(* A message whose bytes were cut.                                         *)

\* Wherever the bytes b stand in a slice, cut or not, reading them takes m to n or
\* stops at one of R.
Stops(kind, wires, b, m, n, R) ==
    \A d \in Bytes, i \in Nat :
        IsSlice(d) /\ Holds(d, i, b) /\ Cuts(kind, wires, d, i + Len(b), n, R)
            => Cuts(kind, wires, d, i, m, R)

LEMMA StopsWhole ==
    ASSUME NEW kind, NEW wires, NEW b \in Bytes, NEW R, NEW m \in R, NEW n \in R,
           Stops(kind, wires, b, m, n, R), IsSlice(b)
    PROVE  Cuts(kind, wires, b, 0, m, R)
<1>1. Holds(b, 0, b) /\ Len(b) \in Nat
  BY HoldsWhole, BytesShape
<1>2. Cuts(kind, wires, b, Len(b), n, R)
  BY CutsEnd
<1>3. 0 + Len(b) = Len(b)
  BY <1>1
<1> QED
  BY <1>1, <1>2, <1>3 DEF Stops

LEMMA StopsFirst ==
    ASSUME NEW kind, NEW wires, NEW b \in Bytes, NEW R, NEW m \in R, NEW n \in R,
           Stops(kind, wires, b, m, n, R), NEW field, IsUnknown(field),
           DOMAIN wires \subseteq 1..5, IsSlice(field \o b)
    PROVE  Cuts(kind, wires, field \o b, 0, m, R)
<1> DEFINE d == field \o b
<1>1. field \in Bytes /\ d \in Bytes /\ Holds(d, 0, d)
  BY Joined, HoldsWhole DEF IsUnknown
<1>2. /\ Holds(d, 0, field) /\ Holds(d, 0 + Len(field), b)
      /\ 0 + Len(field) \in Nat /\ 0 + Len(d) = (0 + Len(field)) + Len(b)
  BY <1>1, HoldsTwo
<1> HIDE DEF d
<1>3. 0 + Len(d) = Len(d)
  BY <1>1, BytesShape
<1>4. Cuts(kind, wires, d, Len(d), n, R)
  BY <1>1, CutsEnd
<1>5. Cuts(kind, wires, d, (0 + Len(field)) + Len(b), n, R)
  BY <1>2, <1>3, <1>4
<1>6. IsSlice(d)
  BY DEF d
<1>7. Cuts(kind, wires, d, 0 + Len(field), m, R)
  BY <1>1, <1>2, <1>5, <1>6 DEF Stops
<1>8. Cuts(kind, wires, d, 0, m, R)
  BY <1>1, <1>2, <1>6, <1>7, CutsPast
<1> QED
  BY <1>8 DEF d

LEMMA StopsLast ==
    ASSUME NEW kind, NEW wires, NEW b \in Bytes, NEW R, NEW m \in R, NEW n \in R,
           Stops(kind, wires, b, m, n, R), NEW field, IsUnknown(field),
           DOMAIN wires \subseteq 1..5, IsSlice(b \o field)
    PROVE  Cuts(kind, wires, b \o field, 0, m, R)
<1> DEFINE d == b \o field
<1>1. field \in Bytes /\ d \in Bytes /\ Holds(d, 0, d)
  BY Joined, HoldsWhole DEF IsUnknown
<1>2. /\ Holds(d, 0, b) /\ Holds(d, 0 + Len(b), field)
      /\ 0 + Len(b) \in Nat /\ 0 + Len(d) = (0 + Len(b)) + Len(field)
  BY <1>1, HoldsTwo
<1> HIDE DEF d
<1>3. 0 + Len(d) = Len(d)
  BY <1>1, BytesShape
<1>4. Cuts(kind, wires, d, Len(d), n, R)
  BY <1>1, CutsEnd
<1>5. Cuts(kind, wires, d, (0 + Len(b)) + Len(field), n, R)
  BY <1>2, <1>3, <1>4
<1>6. IsSlice(d)
  BY DEF d
<1>7. Cuts(kind, wires, d, 0 + Len(b), n, R)
  BY <1>1, <1>2, <1>5, <1>6, CutsPast
<1>8. Cuts(kind, wires, d, 0, m, R)
  BY <1>1, <1>2, <1>6, <1>7 DEF Stops
<1> QED
  BY <1>8 DEF d

LEMMA CutsAll ==
    ASSUME NEW kind, NEW wires, NEW d \in Bytes, NEW m, NEW R, Cuts(kind, wires, d, 0, m, R),
           NEW p \in Bytes, Holds(d, 0, p)
    PROVE  \E r \in R \cup {NotOk} : Brings(kind, m, Fields(p, wires), r)
<1>1. 0 <= Len(p)
  BY BytesShape
<1>2. PICK r \in R \cup {NotOk} : Reads(kind, wires, p, 0, m, r)
  BY <1>1 DEF Cuts
<1> QED
  BY <1>2, ReadsAll

LEMMA StopsArrived ==
    ASSUME NEW kind, NEW wires, NEW b \in Bytes, NEW R, NEW m \in R, NEW n \in R,
           Stops(kind, wires, b, m, n, R), DOMAIN wires \subseteq 1..5,
           NEW d \in Bytes, Arrives(b, d), IsSlice(d), NEW p \in Bytes, Holds(d, 0, p)
    PROVE  \E r \in R \cup {NotOk} : Brings(kind, m, Fields(p, wires), r)
<1>1. Cuts(kind, wires, d, 0, m, R)
  BY StopsWhole, StopsFirst, StopsLast DEF Arrives
<1> QED
  BY <1>1, CutsAll

LEMMA ThreeStop ==
    ASSUME NEW kind, NEW x \in Bytes, NEW y \in Bytes, NEW z \in Bytes, NEW s,
           ThreeSteps(kind, x, y, z, s)
    PROVE  Stops(kind, Three, ThreeFields(x, y, z), s[1], s[4], {s[1], s[2], s[3], s[4]})
<1> DEFINE a == BytesField(10, x)
           b == BytesField(18, y)
           c == BytesField(26, z)
           whole == (a \o b) \o c
           R == {s[1], s[2], s[3], s[4]}
<1> SUFFICES ASSUME NEW d \in Bytes, NEW i \in Nat, IsSlice(d), Holds(d, i, whole),
                    Cuts(kind, Three, d, i + Len(whole), s[4], R)
             PROVE  Cuts(kind, Three, d, i, s[1], R)
  BY DEF Stops, ThreeFields
<1>1. a \in Bytes /\ b \in Bytes /\ c \in Bytes
  BY TagsAreBytes, BytesFieldLen
<1>2. s[1] \in R /\ s[2] \in R /\ s[3] \in R
  OBVIOUS
<1> HIDE DEF a, b, c, R
<1> DEFINE j == i + Len(a)
           k == j + Len(b)
<1>3. /\ Holds(d, i, a) /\ Holds(d, j, b) /\ Holds(d, k, c)
      /\ j \in Nat /\ k \in Nat /\ i + Len(whole) = k + Len(c)
  BY <1>1, HoldsThree
<1>4. Cuts(kind, Three, d, k + Len(c), s[4], R)
  BY <1>3
<1> HIDE DEF j, k, whole
<1>5. IsSlice(y) /\ IsSlice(z)
  BY <1>3, Tags, HeldSlice DEF b, c
<1>6. Cuts(kind, Three, d, k, s[3], R)
  <2>1. 3 \in DOMAIN Three /\ Three[3] = 2 /\ \A p \in Bytes : Takes(kind, 3, p, z, s[3], s[4])
    BY <1>5, WiresKnown DEF ThreeSteps
  <2>2. Holds(d, k, BytesField(26, z)) /\ IsTag(26, 3, 2)
    BY <1>3, Tags DEF c
  <2>3. Cuts(kind, Three, d, k + Len(BytesField(26, z)), s[4], R)
    BY <1>4 DEF c
  <2> QED
    BY <1>2, <1>3, <2>1, <2>2, <2>3, CutsBytes
<1>7. Cuts(kind, Three, d, j, s[2], R)
  <2>1. 2 \in DOMAIN Three /\ Three[2] = 2 /\ \A p \in Bytes : Takes(kind, 2, p, y, s[2], s[3])
    BY <1>5, WiresKnown DEF ThreeSteps
  <2>2. Holds(d, j, BytesField(18, y)) /\ IsTag(18, 2, 2)
    BY <1>3, Tags DEF b
  <2>3. Cuts(kind, Three, d, j + Len(BytesField(18, y)), s[3], R)
    BY <1>6 DEF b, k
  <2> QED
    BY <1>2, <1>3, <2>1, <2>2, <2>3, CutsBytes
<1> QED
  <2>1. 1 \in DOMAIN Three /\ Three[1] = 2 /\ \A p \in Bytes : Takes(kind, 1, p, x, s[1], s[2])
    BY WiresKnown DEF ThreeSteps
  <2>2. Holds(d, i, BytesField(10, x)) /\ IsTag(10, 1, 2)
    BY <1>3, Tags DEF a
  <2>3. Cuts(kind, Three, d, i + Len(BytesField(10, x)), s[2], R)
    BY <1>7 DEF a, j
  <2> QED
    BY <1>2, <2>1, <2>2, <2>3, CutsBytes

LEMMA ListStop ==
    ASSUME NEW kind, NEW x \in Bytes, NEW e \in Seq(Bytes), NEW R, NEW m \in R, NEW s,
           \A k \in 0..Len(e) : s[k] \in R, ListSteps(kind, x, e, m, s)
    PROVE  Stops(kind, Two, ListFields(x, e), m, s[Len(e)], R)
<1> DEFINE a == BytesField(10, x)
           b == BytesFields(18, e)
           whole == a \o b
<1> SUFFICES ASSUME NEW d \in Bytes, NEW i \in Nat, IsSlice(d), Holds(d, i, whole),
                    Cuts(kind, Two, d, i + Len(whole), s[Len(e)], R)
             PROVE  Cuts(kind, Two, d, i, m, R)
  BY DEF Stops, ListFields
<1>1. a \in Bytes /\ b \in Bytes
  BY TagsAreBytes, BytesFieldLen, RunBytes
<1> HIDE DEF a, b
<1> DEFINE j == i + Len(a)
<1>2. Holds(d, i, a) /\ Holds(d, j, b) /\ j \in Nat /\ i + Len(whole) = j + Len(b)
  BY <1>1, HoldsTwo
<1>3. Cuts(kind, Two, d, j + Len(b), s[Len(e)], R)
  BY <1>2
<1> HIDE DEF j, whole
<1>4. Cuts(kind, Two, d, j, s[0], R)
  <2>1. 2 \in DOMAIN Two /\ Two[2] = 2
    BY WiresKnown
  <2>2. \A p \in Bytes : \A k \in 1..Len(e) :
          IsSlice(e[k]) => Takes(kind, 2, p, e[k], s[k - 1], s[k])
    BY DEF ListSteps
  <2> QED
    BY <1>2, <1>3, <2>1, <2>2, Tags, CutsRun DEF b
<1> QED
  <2>1. 1 \in DOMAIN Two /\ Two[1] = 2 /\ \A p \in Bytes : Takes(kind, 1, p, x, m, s[0])
    BY WiresKnown DEF ListSteps
  <2>2. Holds(d, i, BytesField(10, x)) /\ IsTag(10, 1, 2)
    BY <1>2, Tags DEF a
  <2>3. Cuts(kind, Two, d, i + Len(BytesField(10, x)), s[0], R)
    BY <1>4 DEF a, j
  <2> QED
    BY <2>1, <2>2, <2>3, CutsBytes

\* Each member of h is that of o or that of the message zero, or the first items
\* of o: what CutBetweenMembers says of the object read.
IsPartOf(o, zero, h) ==
    \A f \in DOMAIN o : \/ h[f] \in {o[f], zero[f]}
                        \/ f = "Items" /\ IsPrefix(h.Items, o.Items)

LEMMA StatesArePart ==
    ASSUME NEW a, NEW b, NEW c, NEW x, NEW y, NEW z,
           NEW k \in 1..4
    PROVE  IsPartOf(TenantIs(x, y, z), TenantIs(a, b, c),
                    States(TenantIs(a, b, c), TenantIs(x, y, z))[k])
<1> DEFINE zero == TenantIs(a, b, c)
           o == TenantIs(x, y, z)
<1>1. ASSUME NEW u \in {a, x}, NEW v \in {b, y}, NEW w \in {c, z}
      PROVE  IsPartOf(o, zero, TenantIs(u, v, w))
  BY <1>1 DEF IsPartOf, TenantIs
<1>2. /\ IsPartOf(o, zero, TenantIs(a, b, c)) /\ IsPartOf(o, zero, TenantIs(x, b, c))
      /\ IsPartOf(o, zero, TenantIs(x, y, c)) /\ IsPartOf(o, zero, TenantIs(x, y, z))
  BY <1>1
<1>3. k = 1 \/ k = 2 \/ k = 3 \/ k = 4
  OBVIOUS
<1> HIDE DEF o, zero
<1> QED
  BY <1>2, <1>3, StatesAre DEF o, zero

LEMMA FirstsPrefix ==
    ASSUME NEW s, Len(s) \in Nat, s = [j \in 1..Len(s) |-> s[j]], NEW k \in 0..Len(s)
    PROVE  IsPrefix(Firsts(s, k), s)
<1> DEFINE n == Len(s)
           t == Firsts(s, k)
           S == {s[j] : j \in 1..n}
<1>1. s \in Seq(S) /\ n \in Nat
  OBVIOUS
<1>2. t \in Seq(S) /\ Len(t) = k /\ \A j \in 1..k : t[j] = s[j]
  <2> HIDE DEF n
  <2>1. \A j \in 1..k : s[j] \in S
    BY DEF n
  <2>2. k \in Nat
    BY <1>1 DEF n
  <2> HIDE DEF S
  <2> QED
    BY <2>1, <2>2 DEF Firsts
<1> HIDE DEF t, S
<1>3. SubSeq(t, 1, k) = SubSeq(s, 1, k)
  BY <1>1, <1>2
<1> QED
  BY <1>1, <1>2, <1>3 DEF IsPrefix, t

LEMMA ListStatesArePart ==
    ASSUME NEW a, NEW s, Len(s) \in Nat, s = [j \in 1..Len(s) |-> s[j]],
           NEW k \in 0..Len(s)
    PROVE  IsPartOf(ListIs(a, s), ListIs(<<>>, <<>>), ListStates(a, s)[k])
<1> DEFINE t == Firsts(s, k)
<1>1. IsPrefix(t, s)
  BY FirstsPrefix
<1>2. k \in Nat
  OBVIOUS
<1>3. ListStates(a, s)[k] = ListIs(a, t)
  BY <1>2 DEF ListStates, ListAfter
<1> HIDE DEF t
<1> QED
  BY <1>1, <1>3 DEF IsPartOf, ListIs

LEMMA NonePart ==
    ASSUME NEW a, NEW s
    PROVE  IsPartOf(ListIs(a, s), ListIs(<<>>, <<>>), ListIs(<<>>, <<>>))
  BY DEF IsPartOf, ListIs

\* d is what a sender of m may send, p the part of it that arrived.
LEMMA TenantCut ==
    ASSUME NEW m \in Tenants, NEW x \in Bytes,
           IsSlice(x) => TenantSpecUnmarshal(Reset.TenantSpec, x) = SameSpec(m.Spec),
           NEW d \in Bytes, IsSlice(d),
           Arrives(ThreeFields(m.ObjectMeta, x, TenantStatusBytes(m.Status)), d),
           NEW p \in Bytes, Holds(d, 0, p)
    PROVE  LET h == TenantUnmarshal(Reset.Tenant, p)
           IN h = NotOk \/ IsPartOf(SameTenant(m), Reset.Tenant, h)
<1> DEFINE a == m.ObjectMeta
           z == TenantStatusBytes(m.Status)
           s == States(Reset.Tenant, SameTenant(m))
           b == ThreeFields(a, x, z)
           R == {s[1], s[2], s[3], s[4]}
<1>1. a \in Bytes /\ z \in Bytes
  BY StatusLen DEF Tenants
<1>2. b \in Bytes
  BY <1>1, ThreeFieldsBytes
<1>3. ThreeSteps("Tenant", a, x, z, s)
  BY TenantSteps
<1>4. s[1] = Reset.Tenant
  BY DEF States
<1>5. \A r \in R : IsPartOf(SameTenant(m), Reset.Tenant, r)
  <2>1. \E u, v, w : SameTenant(m) = TenantIs(u, v, w)
    BY SameTenantIs
  <2>2. \E u, v, w : Reset.Tenant = TenantIs(u, v, w)
    BY DEF Reset, TenantIs
  <2>3. \A k \in 1..4 : IsPartOf(SameTenant(m), Reset.Tenant, s[k])
    BY <2>1, <2>2, StatesArePart
  <2> HIDE DEF s
  <2> QED
    BY <2>3
<1>6. Arrives(b, d)
  OBVIOUS
<1> HIDE DEF a, z, s
<1>7. Stops("Tenant", Three, b, s[1], s[4], R)
  BY <1>1, <1>3, ThreeStop
<1>8. s[1] \in R /\ s[4] \in R
  OBVIOUS
<1> HIDE DEF b, R
<1>9. PICK r \in R \cup {NotOk} : Brings("Tenant", s[1], Fields(p, Three), r)
  BY <1>2, <1>6, <1>7, <1>8, WiresKnown, StopsArrived
<1>10. TenantUnmarshal(Reset.Tenant, p) = r
  BY <1>4, <1>9, TenantSets DEF TenantUnmarshal, Three
<1> QED
  BY <1>5, <1>9, <1>10

LEMMA ClusterCut ==
    ASSUME NEW m \in ClusterResourceQuotas,
           NEW d \in Bytes, IsSlice(d), Arrives(ClusterResourceQuotaBytes(m), d),
           NEW p \in Bytes, Holds(d, 0, p)
    PROVE  LET zero == QuotaReset.ClusterResourceQuota
               h == ClusterResourceQuotaUnmarshal(zero, p)
           IN h = NotOk \/ IsPartOf(m, zero, h)
<1> DEFINE a == m.ObjectMeta
           x == ClusterResourceQuotaSpecBytes(m.Spec)
           z == ClusterResourceQuotaStatusBytes(m.Status)
           b == ClusterResourceQuotaBytes(m)
           none == QuotaReset.ClusterResourceQuota
           s == States(none, m)
           R == {s[1], s[2], s[3], s[4]}
<1>1. /\ a \in Bytes /\ x \in Bytes /\ z \in Bytes /\ b = ThreeFields(a, x, z)
      /\ ThreeSteps("Cluster", a, x, z, s)
  BY ClusterSteps
<1>2. b \in Bytes /\ Arrives(b, d)
  BY ClusterQuotaLen
<1>3. s[1] = none
  BY DEF States
<1>4. \A r \in R : IsPartOf(m, none, r)
  <2>1. \E u, v, w : m = TenantIs(u, v, w)
    BY ClusterShape
  <2>2. \E u, v, w : none = TenantIs(u, v, w)
    BY DEF QuotaReset, TenantIs
  <2> HIDE DEF none
  <2>3. \A k \in 1..4 : IsPartOf(m, none, s[k])
    BY <2>1, <2>2, StatesArePart
  <2> HIDE DEF s
  <2> QED
    BY <2>3
<1> HIDE DEF a, x, z, s, none, b
<1>5. Stops("Cluster", Three, b, s[1], s[4], R)
  BY <1>1, ThreeStop
<1>6. s[1] \in R /\ s[4] \in R
  OBVIOUS
<1> HIDE DEF R
<1>7. PICK r \in R \cup {NotOk} : Brings("Cluster", s[1], Fields(p, Three), r)
  BY <1>2, <1>5, <1>6, WiresKnown, StopsArrived
<1>8. ClusterResourceQuotaUnmarshal(none, p) = r
  BY <1>3, <1>7, ClusterSets DEF ClusterResourceQuotaUnmarshal, Three
<1> QED
  BY <1>4, <1>7, <1>8 DEF none

LEMMA ListCut ==
    ASSUME NEW kind, NEW a \in Bytes, NEW s, Len(s) \in Nat, s = [j \in 1..Len(s) |-> s[j]],
           NEW b \in Bytes, ListWritten(kind, b, a, s),
           NEW d \in Bytes, IsSlice(d), Arrives(b, d), NEW p \in Bytes, Holds(d, 0, p)
    PROVE  \E h : /\ Brings(kind, ListIs(<<>>, <<>>), Fields(p, Two), h)
                  /\ h = NotOk \/ IsPartOf(ListIs(a, s), ListIs(<<>>, <<>>), h)
<1> DEFINE none == ListIs(<<>>, <<>>)
           t == ListStates(a, s)
           R == {none} \cup {t[k] : k \in 0..Len(s)}
<1>1. PICK e \in Seq(Bytes) :
        b = ListFields(a, e) /\ Len(e) = Len(s) /\ ListSteps(kind, a, e, none, t)
  BY DEF ListWritten
<1>2. \A r \in R : IsPartOf(ListIs(a, s), none, r)
  BY ListStatesArePart, NonePart
<1>3. none \in R /\ \A k \in 0..Len(e) : t[k] \in R
  BY <1>1
<1> HIDE DEF none, t, R
<1>4. Stops(kind, Two, b, none, t[Len(e)], R)
  BY <1>1, <1>3, ListStop
<1>5. t[Len(e)] \in R
  BY <1>1, <1>3
<1>6. PICK r \in R \cup {NotOk} : Brings(kind, none, Fields(p, Two), r)
  BY <1>3, <1>4, <1>5, WiresKnown, StopsArrived
<1> QED
  BY <1>2, <1>6 DEF none

LEMMA TenantListCut ==
    ASSUME NEW m \in TenantLists, NEW order, IsMapOrder(order),
           NEW d \in Bytes, IsSlice(d), Arrives(TenantListBytes(m, order), d),
           NEW p \in Bytes, Holds(d, 0, p)
    PROVE  LET h == TenantListUnmarshal(Reset.TenantList, p)
           IN h = NotOk \/ IsPartOf(ListIs(m.ListMeta, Each(SameTenant, m.Items)),
                                    Reset.TenantList, h)
<1> DEFINE a == m.ListMeta
           b == TenantListBytes(m, order)
           same == Each(SameTenant, m.Items)
<1>1. a \in Bytes /\ b \in Bytes /\ Arrives(b, d)
  BY TenantListLen DEF TenantLists
<1>2. /\ ListWritten("TenantList", b, a, same) /\ same = [k \in 1..Len(same) |-> same[k]]
      /\ Len(same) \in Nat
  BY TenantListWritten
<1>3. Reset.TenantList = ListIs(<<>>, <<>>)
  BY DEF Reset, ListIs
<1> HIDE DEF same, b
<1>4. PICK h : /\ Brings("TenantList", ListIs(<<>>, <<>>), Fields(p, Two), h)
               /\ h = NotOk \/ IsPartOf(ListIs(a, same), ListIs(<<>>, <<>>), h)
  BY <1>1, <1>2, ListCut
<1>5. TenantListUnmarshal(Reset.TenantList, p) = h
  BY <1>3, <1>4, TenantListSets DEF TenantListUnmarshal, Two
<1> QED
  BY <1>3, <1>4, <1>5 DEF same

LEMMA ClusterListCut ==
    ASSUME NEW m \in ClusterResourceQuotaLists,
           NEW d \in Bytes, IsSlice(d), Arrives(ClusterResourceQuotaListBytes(m), d),
           NEW p \in Bytes, Holds(d, 0, p)
    PROVE  LET zero == QuotaReset.ClusterResourceQuotaList
               h == ClusterResourceQuotaListUnmarshal(zero, p)
           IN h = NotOk \/ IsPartOf(m, zero, h)
<1> DEFINE a == m.ListMeta
           b == ClusterResourceQuotaListBytes(m)
           items == m.Items
           zero == QuotaReset.ClusterResourceQuotaList
<1>1. b \in Bytes /\ Arrives(b, d)
  BY ClusterListLen
<1>2. /\ ListWritten("ClusterList", b, a, items) /\ items = [k \in 1..Len(items) |-> items[k]]
      /\ Len(items) \in Nat /\ a \in Bytes /\ m = ListIs(a, items)
  BY ClusterListWritten
<1>3. zero = ListIs(<<>>, <<>>)
  BY DEF QuotaReset, ListIs
<1> HIDE DEF items, b, a, zero
<1>4. PICK h : /\ Brings("ClusterList", ListIs(<<>>, <<>>), Fields(p, Two), h)
               /\ h = NotOk \/ IsPartOf(ListIs(a, items), ListIs(<<>>, <<>>), h)
  BY <1>1, <1>2, ListCut
<1>5. ClusterResourceQuotaListUnmarshal(zero, p) = h
  BY <1>3, <1>4, ClusterListSets DEF ClusterResourceQuotaListUnmarshal, Two
<1> QED
  BY <1>2, <1>3, <1>4, <1>5 DEF zero

\* What a sender of this build or of a newer one may send of the object o.
IsSent(o, d) ==
    /\ d \in Bytes /\ IsSlice(d)
    /\ \E order \in MapOrders :
          \/ Arrives(BytesOf(o, order), d)
          \/ /\ o.kind = "Tenant"
             /\ \E field \in NewFields :
                   d = ThreeFields(o.body.ObjectMeta, field \o TenantSpecBytes(o.body.Spec, order),
                                   TenantStatusBytes(o.body.Status))

LEMMA NormalIs ==
    ASSUME NEW o, NEW m, o = ObjectIs("Tenant", m)
    PROVE  Normal(o).body = SameTenant(m)
<1>1. o.kind = "Tenant" /\ o.body = m
  BY DEF ObjectIs
<1>2. Normal(o) = [o EXCEPT !.body = SameTenant(m)]
  BY <1>1 DEF Normal
<1>3. [o EXCEPT !.body = SameTenant(m)] = ObjectIs("Tenant", SameTenant(m))
  BY ObjectShape DEF ObjectIs
<1> QED
  BY <1>2, <1>3 DEF ObjectIs

LEMMA NormalListIs ==
    ASSUME NEW o, NEW m \in TenantLists, o = ObjectIs("TenantList", m)
    PROVE  Normal(o).body = ListIs(m.ListMeta, Each(SameTenant, m.Items))
<1> DEFINE same == Each(SameTenant, m.Items)
           n == ListIs(m.ListMeta, same)
<1>1. o.kind = "TenantList" /\ o.body = m
  BY DEF ObjectIs
<1>2. Normal(o) = [o EXCEPT !.body = [m EXCEPT !.Items = same]]
  BY <1>1 DEF Normal
<1>3. [m EXCEPT !.Items = same] = n
  <2> HIDE DEF same
  <2>1. [m EXCEPT !.Items = same] \in [ListMeta : {m.ListMeta}, Items : {same}]
    BY DEF TenantLists
  <2> QED
    BY <2>1, ListShape
<1> HIDE DEF n
<1>4. [o EXCEPT !.body = n] = ObjectIs("TenantList", n)
  BY ObjectShape DEF ObjectIs
<1> QED
  BY <1>2, <1>3, <1>4 DEF ObjectIs, n

LEMMA GotIs ==
    ASSUME NEW o, NEW d
    PROVE  LET h == Unmarshal(o.kind, ZeroOf[o.kind], d)
           IN IF h = NotOk THEN Got(o, d) = NotOk ELSE Got(o, d).body = h
  BY DEF Got, Holding

\* A tenant of which p is all that arrived, whether a newer field stands at an
\* end of it or inside its spec.
LEMMA TenantCutGot ==
    ASSUME NEW o \in Objects, NEW d, IsSent(o, d),
           o.body \in Tenants, o = ObjectIs("Tenant", o.body),
           NEW p \in Bytes, Holds(d, 0, p)
    PROVE  LET h == TenantUnmarshal(Reset.Tenant, p)
           IN h = NotOk \/ IsPartOf(SameTenant(o.body), Reset.Tenant, h)
<1> DEFINE m == o.body
<1>1. PICK order \in MapOrders :
        \/ Arrives(BytesOf(o, order), d)
        \/ \E field \in NewFields :
              d = ThreeFields(m.ObjectMeta, field \o TenantSpecBytes(m.Spec, order),
                              TenantStatusBytes(m.Status))
  BY DEF IsSent
<1> DEFINE y == TenantSpecBytes(m.Spec, order)
           z == TenantStatusBytes(m.Status)
<1>2. IsMapOrder(order) /\ d \in Bytes /\ IsSlice(d)
  BY OrdersKnown DEF IsSent
<1>3. m.Spec \in TenantSpecs /\ m \in Tenants
  BY DEF Tenants
<1>4. y \in Bytes
  BY <1>2, <1>3, SpecLen
<1>5. CASE Arrives(BytesOf(o, order), d)
  <2>1. BytesOf(o, order) = ThreeFields(m.ObjectMeta, y, z)
    <3>1. o.kind = "Tenant"
      BY DEF ObjectIs
    <3> QED
      BY <3>1, TenantBytesIs DEF BytesOf
  <2>2. IsSlice(y) => TenantSpecUnmarshal(Reset.TenantSpec, y) = SameSpec(m.Spec)
    <3>1. Arrives(y, y)
      BY DEF Arrives
    <3> QED
      BY <1>2, <1>3, <3>1, SpecRead
  <2>3. Arrives(ThreeFields(m.ObjectMeta, y, z), d)
    BY <1>5, <2>1
  <2> HIDE DEF y, m
  <2> QED
    BY <1>2, <1>3, <1>4, <2>2, <2>3, TenantCut DEF m, z
<1>6. ASSUME NEW field \in NewFields, d = ThreeFields(m.ObjectMeta, field \o y, z)
      PROVE  LET h == TenantUnmarshal(Reset.Tenant, p)
             IN h = NotOk \/ IsPartOf(SameTenant(m), Reset.Tenant, h)
  <2> DEFINE x == field \o y
  <2>1. IsUnknown(field)
    BY FieldsUnknown
  <2>2. x \in Bytes
    BY <1>4, <2>1, Joined DEF IsUnknown
  <2>3. IsSlice(x) => TenantSpecUnmarshal(Reset.TenantSpec, x) = SameSpec(m.Spec)
    <3>1. Arrives(y, x)
      BY <2>1 DEF Arrives
    <3> QED
      BY <1>2, <1>3, <2>1, <3>1, SpecRead
  <2>4. Arrives(ThreeFields(m.ObjectMeta, x, z), d)
    BY <1>6 DEF Arrives
  <2> HIDE DEF x, m
  <2> QED
    BY <1>2, <1>3, <2>2, <2>3, <2>4, TenantCut DEF m, z
<1> QED
  BY <1>1, <1>5, <1>6

\* What is held of an object of which only p arrived.
LEMMA CutGot ==
    ASSUME NEW o \in Objects, NEW d, IsSent(o, d), NEW p \in Bytes, Holds(d, 0, p)
    PROVE  \/ Got(o, p) = NotOk
           \/ IsPartOf(Normal(o).body, ZeroOf[o.kind], Got(o, p).body)
<1> DEFINE m == o.body
           h == Unmarshal(o.kind, ZeroOf[o.kind], p)
<1> SUFFICES ASSUME h # NotOk PROVE IsPartOf(Normal(o).body, ZeroOf[o.kind], h)
  BY GotIs
<1>1. d \in Bytes /\ IsSlice(d) /\ o \in Known
  BY ObjectsKnown DEF IsSent
<1>2. CASE m \in Tenants /\ o = ObjectIs("Tenant", m)
  <2>1. o.kind = "Tenant"
    BY <1>2 DEF ObjectIs
  <2>2. ZeroOf[o.kind] = Reset.Tenant
    BY <2>1 DEF ZeroOf
  <2>3. h = TenantUnmarshal(Reset.Tenant, p)
    BY <2>1, <2>2 DEF Unmarshal
  <2> HIDE DEF h
  <2> QED
    BY <1>2, <2>2, <2>3, NormalIs, TenantCutGot
<1>3. CASE m \in TenantLists /\ o = ObjectIs("TenantList", m)
  <2>1. o.kind = "TenantList"
    BY <1>3 DEF ObjectIs
  <2>2. ZeroOf[o.kind] = Reset.TenantList
    BY <2>1 DEF ZeroOf
  <2>3. h = TenantListUnmarshal(Reset.TenantList, p)
    BY <2>1, <2>2 DEF Unmarshal
  <2>4. PICK order \in MapOrders : Arrives(TenantListBytes(m, order), d)
    BY <2>1 DEF IsSent, BytesOf
  <2>5. IsMapOrder(order)
    BY OrdersKnown
  <2> HIDE DEF h, m
  <2> QED
    BY <1>1, <1>3, <2>2, <2>3, <2>4, <2>5, NormalListIs, TenantListCut
<1>4. CASE m \in ClusterResourceQuotas /\ o = ObjectIs("ClusterResourceQuota", m)
  <2>1. o.kind = "ClusterResourceQuota"
    BY <1>4 DEF ObjectIs
  <2>2. ZeroOf[o.kind] = QuotaReset.ClusterResourceQuota
    BY <2>1 DEF ZeroOf
  <2>3. h = ClusterResourceQuotaUnmarshal(QuotaReset.ClusterResourceQuota, p)
    BY <2>1, <2>2 DEF Unmarshal
  <2>4. Arrives(ClusterResourceQuotaBytes(m), d)
    BY <2>1 DEF IsSent, BytesOf
  <2>5. Normal(o).body = m
    BY <2>1 DEF Normal
  <2> HIDE DEF h, m
  <2> QED
    BY <1>1, <1>4, <2>2, <2>3, <2>4, <2>5, ClusterCut
<1>5. CASE m \in ClusterResourceQuotaLists /\ o = ObjectIs("ClusterResourceQuotaList", m)
  <2>1. o.kind = "ClusterResourceQuotaList"
    BY <1>5 DEF ObjectIs
  <2>2. ZeroOf[o.kind] = QuotaReset.ClusterResourceQuotaList
    BY <2>1 DEF ZeroOf
  <2>3. h = ClusterResourceQuotaListUnmarshal(QuotaReset.ClusterResourceQuotaList, p)
    BY <2>1, <2>2 DEF Unmarshal
  <2>4. Arrives(ClusterResourceQuotaListBytes(m), d)
    BY <2>1 DEF IsSent, BytesOf
  <2>5. Normal(o).body = m
    BY <2>1 DEF Normal
  <2> HIDE DEF h, m
  <2> QED
    BY <1>1, <1>5, <2>2, <2>3, <2>4, <2>5, ClusterListCut
<1> QED
  BY <1>1, <1>2, <1>3, <1>4, <1>5, KnownIs

LEMMA PartHeld ==
    ASSUME NEW d \in Bytes, NEW n \in Nat, n < Len(d)
    PROVE  SubSeq(d, 1, n) \in Bytes /\ Holds(d, 0, SubSeq(d, 1, n))
<1> DEFINE p == SubSeq(d, 1, n)
<1>1. Len(d) \in Nat /\ \A k \in 1..Len(d) : d[k] \in Byte
  BY BytesShape DEF Bytes
<1>2. p \in Bytes /\ Len(p) = n /\ \A k \in 1..n : p[k] = d[k]
  BY <1>1 DEF Bytes
<1> HIDE DEF p
<1>3. \A k \in 1..Len(p) : d[0 + k] = p[k]
  BY <1>2
<1>4. 0 + Len(p) <= Len(d)
  BY <1>1, <1>2
<1> QED
  BY <1>2, <1>3, <1>4 DEF Holds, p

\* What is on the wire after a cut is the beginning of what was sent.
CutInv ==
    /\ ReadInv
    /\ how \in {"whole", "extended", "cut"}
    /\ how = "cut" => \E d : IsSent(sent, d) /\ Holds(d, 0, data)
    /\ CutBetweenMembers

LEMMA SentIs ==
    ASSUME ReadInv, how \in {"whole", "extended"}
    PROVE  IsSent(sent, data)
<1>1. sent \in Objects /\ data \in Bytes
  BY DEF ReadInv, StreamInv
<1>2. CASE how = "whole"
  <2>1. PICK order \in MapOrders : data = BytesOf(sent, order)
    BY <1>2 DEF ReadInv, StreamInv
  <2>2. IsSlice(data) /\ Arrives(BytesOf(sent, order), data)
    BY <1>1, <2>1, SlicesSent DEF Arrives
  <2> QED
    BY <1>1, <2>2 DEF IsSent
<1>3. CASE how = "extended"
  <2>1. PICK field \in NewFields, order \in MapOrders : data \in Newer(sent, field, order)
    BY <1>3 DEF ReadInv
  <2>2. IsSlice(data)
    BY <1>1, <2>1, SlicesSent
  <2>3. \/ Arrives(BytesOf(sent, order), data)
        \/ /\ sent.kind = "Tenant"
           /\ data = ThreeFields(sent.body.ObjectMeta,
                                 field \o TenantSpecBytes(sent.body.Spec, order),
                                 TenantStatusBytes(sent.body.Status))
    BY <1>1, <2>1, NewerArrives
  <2> QED
    BY <1>1, <2>2, <2>3 DEF IsSent
<1> QED
  BY <1>2, <1>3

LEMMA CutInvInit == StreamInit => CutInv
<1> SUFFICES ASSUME StreamInit PROVE CutInv
  OBVIOUS
<1>1. ReadInv
  BY ReadInvInit
<1> QED
  BY <1>1 DEF StreamInit, CutInv, CutBetweenMembers

LEMMA CutInvStep == CutInv /\ [StreamNext]_streamVars => CutInv'
<1> SUFFICES ASSUME CutInv, [StreamNext]_streamVars PROVE CutInv'
  OBVIOUS
<1>1. ReadInv'
  BY ReadInvStep DEF CutInv
<1>7. how \in {"whole", "extended", "cut"} /\ how' \in {"whole", "extended", "cut"}
  BY DEF CutInv, StreamNext, Decode, Encode, Extend, Cut, streamVars
<1>2. CASE Decode
  <2>1. UNCHANGED <<sent, data, how>> /\ held' = Got(sent, data)
    BY <1>2 DEF Decode, Got, Receiver
  <2>2. ASSUME how = "cut", held' # NotOk
        PROVE  IsPartOf(Normal(sent).body, ZeroOf[sent.kind], held'.body)
    <3>1. PICK d : IsSent(sent, d) /\ Holds(d, 0, data)
      BY <2>2 DEF CutInv
    <3>2. sent \in Objects /\ data \in Bytes
      BY DEF CutInv, ReadInv, StreamInv
    <3> QED
      BY <2>1, <2>2, <3>1, <3>2, CutGot
  <2>3. CutBetweenMembers'
    <3>1. Normal(sent)' = Normal(sent) /\ ZeroOf[sent.kind]' = ZeroOf[sent.kind]
      BY <2>1
    <3> QED
      BY <2>1, <2>2, <3>1 DEF CutBetweenMembers, IsPartOf
  <2>4. (how = "cut" => \E d : IsSent(sent, d) /\ Holds(d, 0, data))'
    <3>1. \A d : IsSent(sent, d)' = IsSent(sent, d) /\ Holds(d, 0, data)' = Holds(d, 0, data)
      BY <2>1
    <3> QED
      BY <2>1, <3>1 DEF CutInv
  <2> QED
    BY <1>1, <1>7, <2>3, <2>4 DEF CutInv
<1>3. ASSUME NEW o \in Objects, NEW sizing \in MapOrders, NEW writing \in MapOrders,
             Encode(o, sizing, writing)
      PROVE  CutInv'
  <2>1. how' = "whole"
    BY <1>3 DEF Encode
  <2> QED
    BY <1>1, <1>7, <2>1 DEF CutInv, CutBetweenMembers
<1>4. ASSUME NEW field \in NewFields, NEW order \in MapOrders, Extend(field, order)
      PROVE  CutInv'
  <2>1. how' = "extended"
    BY <1>4 DEF Extend
  <2> QED
    BY <1>1, <1>7, <2>1 DEF CutInv, CutBetweenMembers
<1>5. ASSUME NEW n \in 0..(Len(data) - 1), Cut(n)
      PROVE  CutInv'
  <2>1. /\ ~read' /\ sent' = sent /\ data' = SubSeq(data, 1, n) /\ n < Len(data)
        /\ how \in {"whole", "extended"}
    BY <1>5, <1>7 DEF Cut
  <2>2. data \in Bytes
    BY DEF CutInv, ReadInv, StreamInv
  <2>3. IsSent(sent, data)
    BY <2>1, SentIs DEF CutInv
  <2>4. n \in Nat
    BY <2>2, BytesShape
  <2>5. Holds(data, 0, data')
    BY <2>1, <2>2, <2>4, PartHeld
  <2>6. (\E d : IsSent(sent, d) /\ Holds(d, 0, data))'
    <3>1. IsSent(sent', data) /\ Holds(data, 0, data')
      BY <2>1, <2>3, <2>5
    <3> QED
      BY <3>1
  <2> QED
    BY <1>1, <1>7, <2>1, <2>6 DEF CutInv, CutBetweenMembers
<1>6. CASE UNCHANGED streamVars
  <2>1. sent' = sent /\ data' = data /\ how' = how /\ held' = held /\ read' = read
    BY <1>6 DEF streamVars
  <2>2. Normal(sent)' = Normal(sent) /\ ZeroOf[sent.kind]' = ZeroOf[sent.kind]
    BY <2>1
  <2>3. CutBetweenMembers'
    BY <2>1, <2>2 DEF CutInv, CutBetweenMembers
  <2>4. (how = "cut" => \E d : IsSent(sent, d) /\ Holds(d, 0, data))'
    BY <2>1 DEF CutInv
  <2> QED
    BY <1>1, <1>7, <2>3, <2>4 DEF CutInv
<1> QED
  BY <1>2, <1>3, <1>4, <1>5, <1>6 DEF StreamNext

\* A cut is told from a whole: an object of whose bytes only the beginning came,
\* in whatever place they were cut, is refused, or each member the receiver
\* holds is the one sent or none, its items the first of those sent; no item
\* and no spec is half read.
THEOREM CutsFallBetweenMembers == StreamSpec => []CutBetweenMembers
<1>1. CutInv => CutBetweenMembers
  BY DEF CutInv
<1> QED
  BY <1>1, CutInvInit, CutInvStep, PTL DEF StreamSpec
================================================================================
