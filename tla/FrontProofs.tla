---------------------------- MODULE FrontProofs ----------------------------
(* Theorems of Front for all numbers of connections, ceilings and thread    *)
(* limits.                                                                  *)
(*                                                                          *)
(* First what a step of the front does to the store: it is a step of        *)
(* ControlPlane or none, so the invariants of ControlPlaneProofs carry over.  *)
(* Then the bookkeeping of main and of the threads.                         *)
EXTENDS Front, LeaseProofs

-----------------------------------------------------------------------------
(* The store behind the front                                               *)

\* What a caller may have called is a handler of ControlPlane.
LEMMA RoutesAreHandlers ==
  ASSUME NEW caller \in Callers, NEW session, Routes(caller, session)
  PROVE  Next
<1>1. ASSUME NEW n \in Nodes, AgentRoutes(n)
      PROVE  Next
  BY <1>1 DEF AgentRoutes, AgentPolls, Next, NodeStep
<1>2. CASE caller.kind = "node" /\ AgentRoutes(caller.name)
  BY <1>1, <1>2 DEF Callers
<1>3. ASSUME NEW n \in Nodes, AgentPolls(n)
      PROVE  Next
  BY <1>1, <1>3 DEF AgentRoutes
<1>4. CASE AdminRoutes
  BY <1>4 DEF AdminRoutes, Next, NodeStep, GrantStep, TaskStep
<1>5. CASE caller.kind = "actor" /\ ActorRoutes(caller.name)
  <2>1. caller.name \in Actors
    BY <1>5 DEF Callers
  <2> QED
    BY <1>5, <2>1 DEF ActorRoutes, Next, TaskStep
<1>6. CASE PublicRoutes
  BY <1>6 DEF PublicRoutes, Next, NodeStep, GrantStep
<1> QED
  BY <1>1, <1>2, <1>3, <1>4, <1>5, <1>6 DEF Routes

\* A step of the front is a step of the store or leaves it alone.
LEMMA StoreStep ==
  ASSUME FrontTypeOK, [FrontNext]_<<vars, front>>
  PROVE  [Next]_vars
<1>1. ASSUME NEW c \in Connections, Handle(c)
      PROVE  Next
  BY <1>1, RoutesAreHandlers DEF Handle, FrontTypeOK
<1>2. ASSUME NEW c \in Connections, ThreadStep(c), ~Handle(c)
      PROVE  UNCHANGED vars
  BY <1>2 DEF ThreadStep, Authenticate, Upgrade, Message, HandleInVain, Leave, Gone
<1>3. CASE MainStep
  BY <1>3 DEF MainStep, Count, TurnAway, Spawn, SpawnFails
<1>4. CASE StartAgain
  BY <1>4 DEF StartAgain, LoadStore, Next
<1>5. CASE Tick \/ UNCHANGED <<vars, front>>
  BY <1>5 DEF Next
<1> QED
  BY <1>1, <1>2, <1>3, <1>4, <1>5 DEF FrontNext

\* So what was proved of every step of the store holds here.
LEMMA StoreKeeps ==
  ASSUME FrontIInv, [FrontNext]_<<vars, front>>
  PROVE  /\ IInv' /\ CredentialsDrawn'
         /\ \A n \in Nodes :
              /\ mem.nodes[n].credential \in Nat
              /\ mem'.nodes[n].credential \in Nat
              /\ mem'.nodes[n].credential >= mem.nodes[n].credential
<1>1. [Next]_vars
  BY StoreStep DEF FrontIInv
<1>2. IInv' /\ CredentialsDrawn'
  BY <1>1, Inductive, CredentialsStep DEF FrontIInv
<1> QED
  BY <1>1, <1>2, CredentialsStep DEF FrontIInv, IInv, TypeOK, StoreType, Node

-----------------------------------------------------------------------------
(* The threads                                                              *)

\* Whom authenticate_request recognises is a caller with the credential its
\* node has.
LEMMA RecognisedCallers ==
  ASSUME mem \in StoreType, NEW caller \in Recognised
  PROVE  /\ caller \in Callers
         /\ caller.kind = "node" =>
              caller.bearer <= mem.nodes[caller.name].credential
<1>1. \A n \in Nodes : mem.nodes[n].credential \in Nat
  BY DEF StoreType, Node
<1>2. CASE caller \in {Caller("admin", None, 0), Caller("anyone", None, 0)}
  BY <1>2 DEF Caller, Callers
<1>3. CASE caller \in {Caller("actor", actor, 0) : actor \in Actors}
  BY <1>3 DEF Caller, Callers
<1>4. CASE \E n \in Nodes : caller = Caller("node", n, mem.nodes[n].credential)
  BY <1>1, <1>4 DEF Caller, Callers
<1> QED
  BY <1>2, <1>3, <1>4 DEF Recognised

\* What a thread does to its own record; the others are left alone.
LEMMA ThreadRecord ==
  ASSUME FrontTypeOK, NEW c \in Connections, ThreadStep(c)
  PROVE  /\ \A d \in Connections \ {c} : conn'[d] = conn[d] /\ stale'[d] = stale[d]
         /\ \E stage \in Stages, session \in BOOLEAN, caller \in Callers :
              conn' = [conn EXCEPT ![c] = Thread(stage, session, caller)]
         /\ main' = main
<1>1. conn[c] \in [stage : Stages, session : BOOLEAN, caller : Callers]
  BY DEF FrontTypeOK
<1>2. Nobody \in Callers
  BY DEF Nobody, Caller, Callers
<1>3. ASSUME NEW stage
      PROVE  [conn EXCEPT ![c].stage = stage] =
               [conn EXCEPT ![c] = Thread(stage, conn[c].session, conn[c].caller)]
  <2>1. [conn[c] EXCEPT !.stage = stage] =
          Thread(stage, conn[c].session, conn[c].caller)
    BY <1>1 DEF Thread
  <2> QED
    BY <2>1
<1>4. mem \in StoreType
  BY DEF FrontTypeOK, TypeOK
<1>5. \E stage \in Stages, session \in BOOLEAN, caller \in Callers :
        conn' = [conn EXCEPT ![c] = Thread(stage, session, caller)]
  <2>1. CASE Authenticate(c)
    BY <1>4, <2>1, RecognisedCallers DEF Authenticate, Stages
  <2>2. CASE Upgrade(c)
    BY <1>1, <2>2 DEF Upgrade, Stages
  <2>3. CASE Message(c)
    BY <1>1, <1>3, <2>3 DEF Message, Stages
  <2>4. CASE Handle(c) \/ HandleInVain(c)
    BY <1>1, <1>3, <2>4 DEF Handle, HandleInVain, Respond, StageAfter, Stages
  <2>5. CASE Leave(c)
    BY <1>2, <2>5 DEF Leave, Stages
  <2>6. CASE Gone(c)
    BY <1>2, <2>6 DEF Gone, NoThread, Stages
  <2> QED
    BY <2>1, <2>2, <2>3, <2>4, <2>5, <2>6 DEF ThreadStep
<1>6. \A d \in Connections \ {c} : conn'[d] = conn[d] /\ stale'[d] = stale[d]
  <2>1. \A d \in Connections \ {c} : conn'[d] = conn[d]
    BY <1>5 DEF FrontTypeOK
  <2>2. \A d \in Connections \ {c} : stale'[d] = stale[d]
    BY DEF FrontTypeOK, ThreadStep, Authenticate, Upgrade, Message, Handle,
           HandleInVain, Leave, Gone
  <2> QED
    BY <2>1, <2>2
<1>7. main' = main
  BY DEF ThreadStep, Authenticate, Upgrade, Message, Handle, HandleInVain, Leave, Gone
<1> QED
  BY <1>5, <1>6, <1>7

\* The set of threads that serve is finite; its size changes by one when a
\* thread joins or leaves it.
LEMMA ServedSize ==
  ASSUME FrontTypeOK
  PROVE  /\ IsFiniteSet(Served)
         /\ Cardinality(Served) \in Nat
         /\ \A c \in Connections :
              /\ c \notin Served => Cardinality(Served \cup {c}) = Cardinality(Served) + 1
              /\ c \in Served => Cardinality(Served \ {c}) = Cardinality(Served) - 1
<1>1. IsFiniteSet(Served)
  BY FrontAssumption, FS_Subset DEF Served, Threads
<1> QED
  BY <1>1, FS_CardinalityType, FS_AddElement, FS_RemoveElement

\* How a thread's step changes the set of threads that serve, and the counter
\* with it: by the one place that Leave gives back, or not at all.
LEMMA ThreadPlaces ==
  ASSUME FrontTypeOK, NEW c \in Connections, ThreadStep(c)
  PROVE  \/ Served' = Served /\ active' = active
         \/ c \in Served /\ Served' = Served \ {c} /\ active' = active - 1
<1>1. /\ \A d \in Connections \ {c} : conn'[d] = conn[d]
      /\ conn \in [Connections -> [stage : Stages, session : BOOLEAN, caller : Callers]]
  BY ThreadRecord DEF FrontTypeOK
<1> DEFINE serves == conn[c].stage \notin {"none", "leaving"}
           serves_on == conn'[c].stage \notin {"none", "leaving"}
<1>2. /\ (serves <=> serves_on) => Served' = Served
      /\ serves /\ ~serves_on => c \in Served /\ Served' = Served \ {c}
  BY <1>1 DEF Served, Threads
<1>3. CASE Authenticate(c) \/ Upgrade(c) \/ Message(c)
  <2>1. /\ conn'[c].stage \in {"checked", "reading"}
        /\ conn[c].stage \in {"checked", "reading"} /\ active' = active
    BY <1>1, <1>3 DEF Authenticate, Upgrade, Message, Thread
  <2> QED
    BY <1>2, <2>1
<1>4. CASE Handle(c) \/ HandleInVain(c)
  <2>1. /\ conn'[c].stage \in {"reading", "answered"}
        /\ conn[c].stage = "checked" /\ active' = active
    BY <1>1, <1>4 DEF Handle, HandleInVain, Respond, StageAfter
  <2> QED
    BY <1>2, <2>1
<1>5. CASE Leave(c)
  <2>1. /\ conn'[c].stage = "leaving"
        /\ conn[c].stage \in {"reading", "answered"} /\ active' = active - 1
    BY <1>1, <1>5 DEF Leave, PlaceFreed, Thread
  <2> QED
    BY <1>2, <2>1
<1>6. CASE Gone(c)
  <2>1. conn'[c].stage = "none" /\ conn[c].stage = "leaving" /\ active' = active
    BY <1>1, <1>6 DEF Gone, NoThread, Thread
  <2> QED
    BY <1>2, <2>1
<1> QED
  BY <1>3, <1>4, <1>5, <1>6 DEF ThreadStep

-----------------------------------------------------------------------------
(* The invariant, conjunct by conjunct                                      *)

\* main's own steps keep the counter equal to the places that are taken.
LEMMA MainPlaces ==
  ASSUME FrontTypeOK, PlacesTaken, WithinCeiling, MainStep
  PROVE  PlacesTaken' /\ WithinCeiling' /\ active' \in Nat
<1>1. /\ Cardinality(Served) \in Nat
      /\ active \in Nat /\ MAX_CONNECTIONS \in Nat
      /\ main \in {"accepting", "spawning", "full", "ended"}
  BY ServedSize, FrontAssumption DEF FrontTypeOK
<1>2. conn' = conn => Served' = Served
  BY DEF Served, Threads
<1>3. CASE Count
  BY <1>1, <1>2, <1>3 DEF Count, BelowCeiling, PlacesTaken, WithinCeiling
<1>4. CASE TurnAway
  BY <1>1, <1>2, <1>4 DEF TurnAway, OneLess, PlacesTaken, WithinCeiling
<1>5. ASSUME NEW c \in Connections, Spawn(c)
      PROVE  PlacesTaken' /\ WithinCeiling' /\ active' \in Nat
  <2>1. c \notin Served /\ Served' = Served \cup {c}
    BY <1>5 DEF Spawn, Served, Threads, NoThread, Thread, FrontTypeOK
  <2>2. Cardinality(Served') = Cardinality(Served) + 1
    BY <2>1, ServedSize
  <2> QED
    BY <1>1, <1>5, <2>2 DEF Spawn, PlacesTaken, WithinCeiling
<1>6. CASE SpawnFails
  <2>1. Served' = {}
    BY <1>6 DEF SpawnFails, NoConnections, Served, Threads, NoThread, Thread
  <2> QED
    BY <1>1, <1>6, <2>1, FS_EmptySet DEF SpawnFails, NoConnections, PlacesTaken, WithinCeiling
<1> QED
  BY <1>3, <1>4, <1>5, <1>6 DEF MainStep

\* The counter is right after every step.
LEMMA PlacesKept ==
  ASSUME FrontIInv, [FrontNext]_<<vars, front>>
  PROVE  PlacesTaken' /\ WithinCeiling' /\ active' \in Nat
<1>1. FrontTypeOK /\ PlacesTaken /\ WithinCeiling
  BY DEF FrontIInv
<1>2. /\ Cardinality(Served) \in Nat
      /\ active \in Nat /\ MAX_CONNECTIONS \in Nat
      /\ main \in {"accepting", "spawning", "full", "ended"}
  BY <1>1, ServedSize, FrontAssumption DEF FrontTypeOK
<1>3. ASSUME NEW c \in Connections, ThreadStep(c)
      PROVE  PlacesTaken' /\ WithinCeiling' /\ active' \in Nat
  <2>1. main' = main
    BY <1>1, <1>3, ThreadRecord
  <2>2. CASE Served' = Served /\ active' = active
    BY <1>1, <1>2, <2>1, <2>2 DEF PlacesTaken, WithinCeiling
  <2>3. CASE c \in Served /\ Served' = Served \ {c} /\ active' = active - 1
    <3>1. Cardinality(Served') = Cardinality(Served) - 1
      BY <1>1, <2>3, ServedSize
    <3>2. Cardinality(Served') \in Nat
      BY <1>1, <2>3, ServedSize, FS_RemoveElement, FS_CardinalityType
    <3> QED
      BY <1>1, <1>2, <2>1, <2>3, <3>1, <3>2 DEF PlacesTaken, WithinCeiling
  <2> QED
    BY <1>1, <1>3, <2>2, <2>3, ThreadPlaces
<1>4. CASE StartAgain
  <2>1. Served' = {} /\ active' = 0 /\ main' = "accepting"
    BY <1>4 DEF StartAgain, NoConnections, Served, Threads, NoThread, Thread
  <2> QED
    BY <1>2, <2>1, FS_EmptySet DEF PlacesTaken, WithinCeiling
<1>5. CASE (Tick /\ UNCHANGED front) \/ UNCHANGED <<vars, front>>
  <2>1. UNCHANGED front
    BY <1>5
  <2> QED
    BY <1>1, <1>2, <2>1 DEF front, PlacesTaken, WithinCeiling, Served, Threads
<1> QED
  BY <1>1, <1>3, <1>4, <1>5, MainPlaces DEF FrontNext

\* A thread knows the caller it serves, and its stale count is at most the one
\* of its last word.
LEMMA CallersKept ==
  ASSUME FrontIInv, [FrontNext]_<<vars, front>>
  PROVE  /\ CallersKnown'
         /\ conn' \in [Connections ->
                         [stage : Stages, session : BOOLEAN, caller : Callers]]
         /\ stale' \in [Connections -> Nat]
<1>1. /\ conn \in [Connections -> [stage : Stages, session : BOOLEAN, caller : Callers]]
      /\ stale \in [Connections -> Nat]
      /\ mem \in StoreType /\ FrontTypeOK /\ CallersKnown
  BY DEF FrontIInv, FrontTypeOK, TypeOK
<1>2. \A n \in Nodes :
        /\ mem.nodes[n].credential \in Nat
        /\ mem'.nodes[n].credential \in Nat
        /\ mem'.nodes[n].credential >= mem.nodes[n].credential
  BY StoreKeeps
<1>3. \A caller \in Callers : caller.kind = "node" =>
        caller.name \in Nodes /\ caller.bearer \in Nat
  BY DEF Callers
<1> DEFINE Known(c) ==
             /\ conn[c].session => conn[c].caller.kind = "node"
             /\ conn[c].caller.kind = "node" =>
                  conn[c].caller.bearer <= mem.nodes[conn[c].caller.name].credential
             /\ stale[c] # 0 => HadItsLastWord(c)
           Goal == /\ CallersKnown'
                   /\ conn' \in [Connections ->
                         [stage : Stages, session : BOOLEAN, caller : Callers]]
                   /\ stale' \in [Connections -> Nat]
<1>4. ASSUME NEW d \in Connections, conn'[d] = conn[d], stale'[d] = stale[d]
      PROVE  Known(d)'
  <2>1. Known(d) /\ conn[d].caller \in Callers
    BY <1>1 DEF CallersKnown
  <2>2. CASE conn[d].caller.kind = "node"
    <3>1. /\ conn[d].caller.bearer <= mem'.nodes[conn[d].caller.name].credential
          /\ conn[d].caller.bearer < mem.nodes[conn[d].caller.name].credential =>
               conn[d].caller.bearer < mem'.nodes[conn[d].caller.name].credential
          /\ Replaced(conn[d].caller) =>
               conn[d].caller.bearer < mem.nodes[conn[d].caller.name].credential
      BY <1>2, <1>3, <2>1, <2>2 DEF Replaced
    <3>2. Replaced(conn[d].caller) =>
            conn[d].caller.bearer # mem'.nodes[conn[d].caller.name].credential
      BY <1>2, <1>3, <2>1, <2>2, <3>1
    <3> QED
      BY <1>4, <2>1, <2>2, <3>1, <3>2 DEF HadItsLastWord, Replaced
  <2>3. CASE conn[d].caller.kind # "node"
    BY <1>4, <2>1, <2>3 DEF HadItsLastWord, Replaced
  <2> QED
    BY <2>2, <2>3
<1>5. ASSUME NEW c \in Connections, ThreadStep(c)
      PROVE  Goal
  <2>1. /\ \A d \in Connections \ {c} : conn'[d] = conn[d] /\ stale'[d] = stale[d]
        /\ conn' \in [Connections ->
                        [stage : Stages, session : BOOLEAN, caller : Callers]]
    BY <1>1, <1>5, ThreadRecord DEF Thread
  <2>2. Known(c)
    BY <1>1 DEF CallersKnown
  <2>3. \A d \in Connections \ {c} : Known(d)'
    BY <1>4, <2>1
  <2>4. Known(c)' /\ stale' \in [Connections -> Nat]
    <3>1. CASE Authenticate(c)
      <4>1. PICK caller \in Recognised :
              conn' = [conn EXCEPT ![c] = Thread("checked", FALSE, caller)]
        BY <3>1 DEF Authenticate
      <4>2. conn'[c] = Thread("checked", FALSE, caller)
        BY <1>1, <4>1
      <4>3. stale[c] = 0
        BY <2>2, <3>1 DEF Authenticate, HadItsLastWord
      <4> QED
        BY <1>1, <3>1, <4>2, <4>3, RecognisedCallers DEF Authenticate, Thread, vars
    <3>2. CASE Upgrade(c)
      <4>1. conn'[c] = Thread("reading", TRUE, conn[c].caller)
        BY <1>1, <3>2 DEF Upgrade
      <4>2. stale[c] = 0
        BY <2>2, <3>2 DEF Upgrade, HadItsLastWord
      <4> QED
        BY <1>1, <2>2, <3>2, <4>1, <4>2 DEF Upgrade, Thread, vars
    <3>3. CASE Message(c)
      <4>1. /\ conn'[c].session = conn[c].session
            /\ conn'[c].caller = conn[c].caller
        BY <1>1, <3>3 DEF Message
      <4>2. stale[c] = 0
        BY <1>1, <2>2, <3>3
        DEF Message, HadItsLastWord, StillAuthorized, credential_authorized, Replaced
      <4> QED
        BY <1>1, <2>2, <3>3, <4>1, <4>2 DEF Message, vars
    <3>4. CASE HandleInVain(c)
      <4>1. /\ conn'[c].session = conn[c].session
            /\ conn'[c].caller = conn[c].caller
        BY <1>1, <3>4 DEF HandleInVain, Respond
      <4>2. stale[c] = 0
        BY <2>2, <3>4 DEF HandleInVain, HadItsLastWord
      <4> QED
        BY <1>1, <2>2, <3>4, <4>1, <4>2 DEF HandleInVain, vars
    <3>5. CASE Handle(c)
      <4>1. /\ conn'[c].session = conn[c].session
            /\ conn'[c].caller = conn[c].caller
            /\ conn'[c].stage = IF conn[c].session THEN "reading" ELSE "answered"
            /\ conn[c].caller \in Callers
        BY <1>1, <3>5 DEF Handle, Respond, StageAfter
      <4>2. stale[c] = 0
        BY <2>2, <3>5 DEF Handle, HadItsLastWord
      <4>3. /\ conn[c].caller.kind = "node" =>
                 conn[c].caller.bearer <= mem'.nodes[conn[c].caller.name].credential
            /\ Replaced(conn[c].caller) => Replaced(conn[c].caller)'
        <5>1. CASE conn[c].caller.kind = "node"
          <6> DEFINE bearer == conn[c].caller.bearer
                     n == conn[c].caller.name
          <6>1. n \in Nodes /\ bearer \in Nat
            BY <1>3, <4>1, <5>1
          <6>2. bearer <= mem.nodes[n].credential
            BY <2>2, <5>1
          <6>3. /\ bearer <= mem'.nodes[n].credential
                /\ bearer # mem.nodes[n].credential => bearer # mem'.nodes[n].credential
            BY <1>2, <6>1, <6>2
          <6> QED
            BY <4>1, <5>1, <6>3 DEF Replaced
        <5>2. CASE conn[c].caller.kind # "node"
          BY <5>2 DEF Replaced
        <5> QED
          BY <5>1, <5>2
      <4>4. CASE Replaced(conn[c].caller)
        <5>1. stale' = [stale EXCEPT ![c] = 1]
          BY <1>1, <3>5, <4>2, <4>4 DEF Handle
        <5>2. HadItsLastWord(c)'
          BY <1>1, <4>1, <4>3, <4>4, <5>1 DEF HadItsLastWord
        <5> QED
          BY <1>1, <2>2, <4>1, <4>3, <5>1, <5>2
      <4>5. CASE ~Replaced(conn[c].caller)
        <5>1. stale' = stale
          BY <3>5, <4>5 DEF Handle
        <5> QED
          BY <1>1, <2>2, <4>1, <4>2, <4>3, <5>1
      <4> QED
        BY <4>4, <4>5
    <3>6. CASE Leave(c)
      BY <1>1, <3>6 DEF Leave, Thread, Nobody, Caller
    <3>7. CASE Gone(c)
      <4>1. conn'[c] = NoThread /\ stale' = stale
        BY <1>1, <3>7 DEF Gone
      <4>2. stale[c] = 0
        BY <2>2, <3>7 DEF Gone, HadItsLastWord
      <4> QED
        BY <1>1, <4>1, <4>2 DEF NoThread, Thread, Nobody, Caller
    <3> QED
      BY <1>5, <3>1, <3>2, <3>3, <3>4, <3>5, <3>6, <3>7 DEF ThreadStep
  <2> HIDE DEF Known
  <2>5. \A d \in Connections : Known(d)'
    BY <2>3, <2>4
  <2> QED
    BY <2>1, <2>4, <2>5 DEF Known, CallersKnown
<1>6. CASE NoConnections
  BY <1>6 DEF NoConnections, CallersKnown, NoThread, Thread, Nobody, Caller, Callers, Stages
<1>7. ASSUME NEW c \in Connections, Spawn(c)
      PROVE  Goal
  <2>1. /\ \A d \in Connections \ {c} : conn'[d] = conn[d]
        /\ ~conn'[c].session /\ conn'[c].caller = Nobody
        /\ stale' = stale
        /\ conn' \in [Connections ->
                        [stage : Stages, session : BOOLEAN, caller : Callers]]
    <3>1. /\ conn[c] = NoThread
          /\ conn' = [conn EXCEPT ![c] = [conn[c] EXCEPT !.stage = "reading"]]
          /\ stale' = stale
      BY <1>7 DEF Spawn
    <3>2. ~conn[c].session /\ conn[c].caller = Nobody
      BY <3>1 DEF NoThread, Thread
    <3> QED
      BY <1>1, <3>1, <3>2 DEF Stages
  <2>2. stale[c] = 0
    BY <1>1, <1>7 DEF Spawn, CallersKnown, HadItsLastWord, NoThread, Thread
  <2>3. Known(c)'
    BY <2>1, <2>2 DEF Nobody, Caller
  <2>4. \A d \in Connections \ {c} : Known(d)'
    BY <1>4, <2>1
  <2> HIDE DEF Known
  <2>5. \A d \in Connections : Known(d)'
    BY <2>3, <2>4
  <2> QED
    BY <1>1, <2>1, <2>5 DEF Known, CallersKnown
<1>8. CASE conn' = conn /\ stale' = stale
  <2>1. \A d \in Connections : Known(d)'
    BY <1>4, <1>8
  <2> HIDE DEF Known
  <2> QED
    BY <1>1, <1>8, <2>1 DEF Known, CallersKnown
<1>9. \/ NoConnections
      \/ \E c \in Connections : ThreadStep(c) \/ Spawn(c)
      \/ conn' = conn /\ stale' = stale
  BY DEF FrontNext, MainStep, Count, TurnAway, SpawnFails, StartAgain, front
<1> QED
  BY <1>5, <1>6, <1>7, <1>8, <1>9

\* The invariant is inductive.
LEMMA FrontInductive == FrontIInv /\ [FrontNext]_<<vars, front>> => FrontIInv'
<1> SUFFICES ASSUME FrontIInv, [FrontNext]_<<vars, front>>
             PROVE  FrontIInv'
  OBVIOUS
<1>1. main' \in {"accepting", "spawning", "full", "ended"}
  BY DEF FrontIInv, FrontTypeOK, FrontNext, MainStep, Count, TurnAway, Spawn,
    SpawnFails, StartAgain, ThreadStep, Authenticate, Upgrade, Message, Handle,
    HandleInVain, Leave, Gone, front
<1>2. TypeOK'
  BY StoreKeeps DEF IInv
<1>3. FrontTypeOK'
  BY <1>1, <1>2, PlacesKept, CallersKept DEF FrontTypeOK
<1> QED
  BY <1>3, StoreKeeps, PlacesKept, CallersKept DEF FrontIInv

\* Before the first connection it holds.
LEMMA FrontInitEstablishes == FrontInit => FrontIInv
<1> SUFFICES ASSUME FrontInit
             PROVE  FrontIInv
  OBVIOUS
<1>1. IInv /\ CredentialsDrawn
  BY InitEstablishes, DrawnInitially DEF FrontInit
<1>2. NoThread \in [stage : Stages, session : BOOLEAN, caller : Callers]
  BY DEF NoThread, Thread, Nobody, Caller, Callers, Stages
<1>3. FrontTypeOK
  BY <1>1, <1>2 DEF FrontInit, FrontTypeOK, IInv
<1>4. Served = {}
  BY DEF FrontInit, Served, Threads, NoThread, Thread
<1>5. PlacesTaken /\ WithinCeiling
  BY <1>4, FS_EmptySet, FrontAssumption DEF FrontInit, PlacesTaken, WithinCeiling
<1>6. CallersKnown
  BY DEF FrontInit, CallersKnown, NoThread, Thread, Nobody, Caller
<1> QED
  BY <1>1, <1>3, <1>5, <1>6 DEF FrontIInv

\* The invariant holds throughout.
LEMMA AlwaysFrontIInv == FrontSpec => []FrontIInv
BY FrontInitEstablishes, FrontInductive, PTL DEF FrontSpec

-----------------------------------------------------------------------------
\* A thread only ever stands for a caller the code can have recognised, and
\* the counter never becomes negative (it is a usize).
THEOREM FrontTypeCorrect == FrontSpec => []FrontTypeOK
BY AlwaysFrontIInv, PTL DEF FrontIInv

\* For every number of connections the counter is the number of places that
\* are taken: none leaks, none is given back twice.
THEOREM CounterCounts == FrontSpec => []PlacesTaken
BY AlwaysFrontIInv, PTL DEF FrontIInv

\* However many connections come and go, the ceiling is kept.
THEOREM CeilingKept == FrontSpec => []WithinCeiling
BY AlwaysFrontIInv, PTL DEF FrontIInv

\* After a credential was replaced a connection that was let in with it has at
\* most one more effect, however many handlers interleave with it.
THEOREM OneWordAfterRotation == FrontSpec => []OneLastWord
<1>1. FrontIInv => OneLastWord
  <2> SUFFICES ASSUME FrontIInv, NEW c \in Connections
               PROVE  stale[c] <= 1
    BY DEF OneLastWord
  <2> QED
    BY DEF FrontIInv, CallersKnown, HadItsLastWord
<1> QED
  BY AlwaysFrontIInv, <1>1, PTL

\* Every behaviour of the server with its connections is one of the Control
\* Plane whose handlers run one at a time, so all its theorems hold here.
THEOREM ServesOneAtATime == FrontSpec => ServesControlPlane
<1>1. FrontInit => Init
  BY DEF FrontInit
<1>2. FrontIInv /\ [FrontNext]_<<vars, front>> => [Next]_vars
  BY StoreStep DEF FrontIInv
<1> QED
  BY AlwaysFrontIInv, <1>1, <1>2, PTL DEF FrontSpec, ServesControlPlane, Spec

\* What is promised of leases, results, grants, approvals and revoked nodes
\* holds behind any number of connections whose threads interleave, those that
\* were let in before a rotation or a revocation included.
THEOREM PromisesHoldBehindConnections ==
  FrontSpec => [](/\ OneLiveLease /\ ResultsStand
                  /\ GrantEnrollsOnce /\ ApprovalsSpentOnce
                  /\ RevokedQuiesced /\ AuditAccountsForState)
BY ServesOneAtATime, NoTwoLiveLeases, AcceptedResultsStand, GrantsEnrolOnce,
   ApprovalsAreSpentOnce, RevokedStayQuiet, AuditAccounts, PTL DEF ServesControlPlane

-----------------------------------------------------------------------------
(* Why a plain connection ends: the half of PlainEnds that needs no fairness  *)

\* How many steps a plain connection may still take.
StagesLeft(thread) ==
  CASE thread.stage = "reading"  -> 4
    [] thread.stage = "checked"  -> 3
    [] thread.stage = "answered" -> 2
    [] thread.stage = "leaving"  -> 1
    [] thread.stage = "none"     -> 0

\* Whatever other threads, main and the store do, a thread that serves a plain
\* connection only ever goes forward: one request, one handler, one answer, and
\* no way back to reading.
THEOREM PlainConnectionsAdvance ==
  FrontSpec =>
    [][\A c \in Connections :
         conn[c].stage # "none" /\ ~conn[c].session /\ ~conn'[c].session =>
           conn'[c] = conn[c] \/ StagesLeft(conn'[c]) < StagesLeft(conn[c])
      ]_<<vars, front>>
<1>1. ASSUME FrontTypeOK, FrontNext, NEW c \in Connections,
             conn[c].stage # "none", ~conn[c].session, ~conn'[c].session,
             conn'[c] # conn[c]
      PROVE  StagesLeft(conn'[c]) < StagesLeft(conn[c])
  <2>1. conn \in [Connections -> [stage : Stages, session : BOOLEAN, caller : Callers]]
    BY <1>1 DEF FrontTypeOK
  <2>2. CASE StartAgain \/ SpawnFails
    BY <1>1, <2>1, <2>2 DEF StartAgain, SpawnFails, NoConnections, NoThread, Thread,
       StagesLeft, Stages
  <2>3. ASSUME NEW d \in Connections, Spawn(d)
        PROVE  StagesLeft(conn'[c]) < StagesLeft(conn[c])
    BY <1>1, <2>1, <2>3 DEF Spawn, NoThread, Thread
  <2>4. CASE Count \/ TurnAway \/ (Tick /\ UNCHANGED front)
    BY <1>1, <2>4 DEF Count, TurnAway, front
  <2>5. ASSUME NEW d \in Connections, ThreadStep(d)
        PROVE  StagesLeft(conn'[c]) < StagesLeft(conn[c])
    <3>1. d = c
      BY <1>1, <2>1, <2>5 DEF ThreadStep, Authenticate, Upgrade, Message, Handle,
         HandleInVain, Respond, Leave, Gone
    <3>2. /\ conn[c].stage = "reading" => conn'[c].stage \in {"checked", "leaving"}
          /\ conn[c].stage = "checked" => conn'[c].stage = "answered"
          /\ conn[c].stage = "answered" => conn'[c].stage = "leaving"
          /\ conn[c].stage = "leaving" => conn'[c].stage = "none"
      BY <1>1, <2>1, <2>5, <3>1 DEF ThreadStep, Authenticate, Upgrade, Message, Handle,
         HandleInVain, Respond, StageAfter, Leave, Gone, NoThread, Thread
    <3> QED
      BY <1>1, <2>1, <3>2 DEF StagesLeft, Stages
  <2> QED
    BY <1>1, <2>2, <2>3, <2>4, <2>5 DEF FrontNext, MainStep
<1>2. FrontIInv => FrontTypeOK
  BY DEF FrontIInv
<1>3. FrontTypeOK /\ [FrontNext]_<<vars, front>> =>
        [\A c \in Connections :
           conn[c].stage # "none" /\ ~conn[c].session /\ ~conn'[c].session =>
             conn'[c] = conn[c] \/ StagesLeft(conn'[c]) < StagesLeft(conn[c])
        ]_<<vars, front>>
  BY <1>1
<1> QED
  BY AlwaysFrontIInv, <1>2, <1>3, PTL DEF FrontSpec
=============================================================================
