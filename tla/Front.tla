------------------------------- MODULE Front -------------------------------
(* What stands before the handlers of ControlPlane: main accepts and counts *)
(* connections, a thread serves each.  It reads a request, looks who sends  *)
(* it, and only then calls the handler: both take the store mutex, one      *)
(* after the other, and any other thread may come in between.  A plain      *)
(* request is the only one of its connection; over a WebSocket an agent     *)
(* sends many, and each is authenticated again.                             *)
EXTENDS ControlPlane

CONSTANTS
  Connections,      \* names for the threads that serve connections
  MAX_CONNECTIONS,
  TasksMax          \* how many threads the process may have

ASSUME FrontAssumption ==
  /\ IsFiniteSet(Connections)
  /\ MAX_CONNECTIONS \in Nat
  /\ TasksMax \in Nat

VARIABLES
  main,    \* where main is in its loop
  active,  \* state.active_connections
  conn,    \* the thread of each connection
  stale    \* how often a connection had an effect under a replaced credential

front == <<main, active, conn, stale>>

Callers ==
  [kind : {"nobody", "admin", "anyone"}, name : {None}, bearer : {0}]
    \cup [kind : {"actor"}, name : Actors, bearer : {0}]
    \cup [kind : {"node"}, name : Nodes, bearer : Nat]

Caller(kind, name, bearer) == [kind |-> kind, name |-> name, bearer |-> bearer]

Nobody == Caller("nobody", None, 0)

\* A thread is leaving when its ConnectionGuard was dropped: it is not
\* counted any more, but it still exists.
Stages == {"none", "reading", "checked", "answered", "leaving"}

Thread(stage, session, caller) ==
  [stage |-> stage, session |-> session, caller |-> caller]

NoThread == Thread("none", FALSE, Nobody)

FrontTypeOK ==
  /\ TypeOK
  /\ main \in {"accepting", "spawning", "full", "ended"}
  /\ active \in Nat
  /\ conn \in [Connections ->
                 [stage : Stages, session : BOOLEAN, caller : Callers]]
  /\ stale \in [Connections -> Nat]

NoConnections ==
  /\ active' = 0
  /\ conn' = [c \in Connections |-> NoThread]
  /\ stale' = [c \in Connections |-> 0]

FrontInit ==
  /\ Init
  /\ main = "accepting"
  /\ active = 0
  /\ conn = [c \in Connections |-> NoThread]
  /\ stale = [c \in Connections |-> 0]

Threads == {c \in Connections : conn[c].stage # "none"}

Served == {c \in Threads : conn[c].stage # "leaving"}

-----------------------------------------------------------------------------
(* main: the loop over listener.incoming()                                  *)

\* A bug: the ceiling is compared with the count before this connection.
Bug_ceiling_off_by_one == active <= MAX_CONNECTIONS

BelowCeiling == active + 1 <= MAX_CONNECTIONS

Count ==
  /\ main = "accepting"
  /\ active' = active + 1
  /\ main' = IF BelowCeiling THEN "spawning" ELSE "full"
  /\ UNCHANGED <<vars, conn, stale>>

OneLess == active - 1

TurnAway ==
  /\ main = "full"
  /\ active' = OneLess
  /\ main' = "accepting"
  /\ UNCHANGED <<vars, conn, stale>>

\* main is a thread too.
ThreadToSpare == Cardinality(Threads) + 1 < TasksMax

Spawn(c) ==
  /\ main = "spawning"
  /\ ThreadToSpare
  /\ conn[c] = NoThread
  /\ conn' = [conn EXCEPT ![c].stage = "reading"]
  /\ main' = "accepting"
  /\ UNCHANGED <<vars, active, stale>>

\* thread::spawn panics, in main: the process ends with all its threads.
SpawnFails ==
  /\ main = "spawning"
  /\ ~ThreadToSpare
  /\ main' = "ended"
  /\ NoConnections
  /\ UNCHANGED vars

\* A bug: a store that does not load is taken for an empty one.
Bug_starts_empty ==
  /\ mem' = EmptyStore
  /\ UNCHANGED <<disk, now, issued, held, reported>>

LoadStore == Restart

\* The process is ended, if it still runs, and started again (with store.lock
\* out of its way: see DataDirectory).
StartAgain ==
  /\ LoadStore
  /\ main' = "accepting"
  /\ NoConnections

-----------------------------------------------------------------------------
(* A thread: handle and handle_websocket                                    *)

\* authenticate_request, for the three kinds of token there are; a grant is
\* redeemed without any.  Where it fails, 401 is answered: see Leave.
credential_authorized(n, bearer) ==
  /\ mem.nodes[n].status = "online"
  /\ mem.nodes[n].credential = bearer

Recognised ==
  {Caller("admin", None, 0), Caller("anyone", None, 0)}
    \cup {Caller("actor", actor, 0) : actor \in Actors}
    \cup {Caller("node", n, mem.nodes[n].credential) :
            n \in {m \in Nodes : credential_authorized(m, mem.nodes[m].credential)}}

Authenticate(c) ==
  /\ conn[c].stage = "reading"
  /\ ~conn[c].session
  /\ \E caller \in Recognised :
       conn' = [conn EXCEPT ![c] = Thread("checked", FALSE, caller)]
  /\ UNCHANGED <<vars, main, active, stale>>

\* The switch to a WebSocket, which takes the credential of a node.
Upgrade(c) ==
  /\ conn[c].stage = "checked"
  /\ ~conn[c].session
  /\ conn[c].caller.kind = "node"
  /\ conn' = [conn EXCEPT ![c] = Thread("reading", TRUE, @.caller)]
  /\ UNCHANGED <<vars, main, active, stale>>

\* A bug: a WebSocket is authenticated once, when it is opened.
Bug_authenticated_once(n, bearer) == TRUE

StillAuthorized(n, bearer) == credential_authorized(n, bearer)

\* websocket_message.  Where it answers with an error nothing changes, and
\* the connection stays open.
Message(c) ==
  /\ conn[c].stage = "reading"
  /\ conn[c].session
  /\ StillAuthorized(conn[c].caller.name, conn[c].caller.bearer)
  /\ conn' = [conn EXCEPT ![c].stage = "checked"]
  /\ UNCHANGED <<vars, main, active, stale>>

\* route_with_actor: who may have which handler called.  The routes of agents
\* ask for no more than that the caller is known.
AgentPolls(n) == AgentTasks(n) \/ AgentTasksRandomFails(n)

AgentRoutes(n) ==
  \/ \E offer \in Offers : Heartbeat(n, offer) \/ HeartbeatUnsupported(n, offer)
  \/ AgentPolls(n)
  \/ \E l \in held, state \in Outcomes :
       AgentResult(l, state) /\ mem.tasks[l.task].request.node = n

AdminRoutes ==
  \/ \E n \in Nodes : RotateNode(n) \/ RevokeNode(n)
  \/ \E n \in Nodes, class \in DataClasses : CreateNode(n, class)
  \/ \E g \in GrantCodes : CreateGrant(g) \/ RevokeGrant(g)
  \/ \E a \in ApprovalIds, req \in Requests : CreateApproval(a, ScopeOf(req))
  \/ \E t \in TaskIds :
       \/ CancelTask(t, None)
       \/ \E req \in Requests, a \in ApprovalIds \cup {None} : CreateTask(t, req, a)

ActorRoutes(actor) == \E t \in TaskIds : CancelTask(t, actor)

PublicRoutes ==
  \E g \in GrantCodes :
    \/ RedeemGrantRandomFails(g)
    \/ \E n \in Nodes, class \in DataClasses : RedeemGrant(g, n, class)

\* A credential is compared with that of the node in the body, if it names one,
\* but a plain poll is for the node in the path: that can be another one.
\* Over a WebSocket it is for the node of the connection.
Routes(caller, session) ==
  \/ caller.kind = "node" /\ AgentRoutes(caller.name)
  \/ caller.kind = "node" /\ ~session /\ \E n \in Nodes : AgentPolls(n)
  \/ caller.kind = "admin" /\ (AdminRoutes \/ \E n \in Nodes : AgentRoutes(n))
  \/ caller.kind = "actor" /\ (ActorRoutes(caller.name) \/ \E n \in Nodes : AgentRoutes(n))
  \/ caller.kind = "anyone" /\ PublicRoutes

\* A bug: the connection is kept for another request.
Bug_keep_alive(c) == "reading"

StageAfter(c) == IF conn[c].session THEN "reading" ELSE "answered"

Respond(c) == conn' = [conn EXCEPT ![c].stage = StageAfter(c)]

Replaced(caller) ==
  caller.kind = "node" /\ mem.nodes[caller.name].credential # caller.bearer

Handle(c) ==
  /\ conn[c].stage = "checked"
  /\ Routes(conn[c].caller, conn[c].session)
  /\ Respond(c)
  /\ stale' = IF Replaced(conn[c].caller) THEN [stale EXCEPT ![c] = @ + 1] ELSE stale
  /\ UNCHANGED <<main, active>>

\* The handler refuses, or only reads.
HandleInVain(c) ==
  /\ conn[c].stage = "checked"
  /\ Respond(c)
  /\ UNCHANGED <<vars, main, active, stale>>

\* A bug: an early return does not give the place back.
Bug_place_kept(c) == IF conn[c].stage = "reading" THEN active ELSE active - 1

PlaceFreed(c) == active - 1

\* The response was written; or the peer closed, was silent for too long or
\* sent what is refused at once (400, 401, 413).
Leave(c) ==
  /\ conn[c].stage \in {"reading", "answered"}
  /\ conn' = [conn EXCEPT ![c] = Thread("leaving", FALSE, Nobody)]
  /\ active' = PlaceFreed(c)
  /\ stale' = [stale EXCEPT ![c] = 0]
  /\ UNCHANGED <<vars, main>>

Gone(c) ==
  /\ conn[c].stage = "leaving"
  /\ conn' = [conn EXCEPT ![c] = NoThread]
  /\ UNCHANGED <<vars, main, active, stale>>

-----------------------------------------------------------------------------
MainStep ==
  \/ Count
  \/ TurnAway
  \/ \E c \in Connections : Spawn(c)
  \/ SpawnFails

ThreadStep(c) ==
  \/ Authenticate(c)
  \/ Upgrade(c)
  \/ Message(c)
  \/ Handle(c)
  \/ HandleInVain(c)
  \/ Leave(c)
  \/ Gone(c)

FrontNext ==
  \/ MainStep
  \/ \E c \in Connections : ThreadStep(c)
  \/ Tick /\ UNCHANGED front
  \/ StartAgain

\* Threads are scheduled, and a read or write that takes CONNECTION_TIMEOUT
\* fails.  A WebSocket on which messages keep coming stays open.
Fairness ==
  /\ WF_<<vars, front>>(MainStep)
  /\ \A c \in Connections :
       WF_<<vars, front>>(ThreadStep(c) /\ ~(conn[c].session /\ conn[c].stage = "reading"))

FrontSpec == FrontInit /\ [][FrontNext]_<<vars, front>> /\ Fairness

-----------------------------------------------------------------------------
\* The counter counts: the places taken are those of the threads that serve,
\* and one for the connection main has in its hands.  No refusal, early
\* return or end of a thread at any moment leaks a place or frees one twice.
PlacesTaken ==
  active = Cardinality(Served) + (IF main \in {"spawning", "full"} THEN 1 ELSE 0)

\* "The process caps concurrent connections at 256" (control-plane/README.md):
\* no connection beyond the ceiling is served or about to be.
WithinCeiling ==
  Cardinality(Served) + (IF main = "spawning" THEN 1 ELSE 0) <= MAX_CONNECTIONS

\* "The old credential is invalid at once" (control-plane-api.md), up to
\* what is under way: a request that was authenticated before its credential
\* was replaced still has its effect, but it is the last one of its
\* connection, a WebSocket that stays open included.
OneLastWord == \A c \in Connections : stale[c] <= 1

\* The inductive invariant behind these: credentials only grow, so one that was
\* replaced cannot be the current one again, and a connection that has had its
\* last word is closing, or is a WebSocket with a replaced credential.
HadItsLastWord(c) ==
  /\ stale[c] = 1
  /\ \/ conn[c].stage = "answered"
     \/ /\ conn[c].stage = "reading"
        /\ conn[c].session
        /\ Replaced(conn[c].caller)

CallersKnown ==
  \A c \in Connections :
    /\ conn[c].session => conn[c].caller.kind = "node"
    /\ conn[c].caller.kind = "node" =>
         conn[c].caller.bearer <= mem.nodes[conn[c].caller.name].credential
    /\ stale[c] # 0 => HadItsLastWord(c)

FrontIInv ==
  /\ IInv
  /\ CredentialsDrawn
  /\ FrontTypeOK
  /\ PlacesTaken
  /\ WithinCeiling
  /\ CallersKnown

\* A connection that is no WebSocket gives its place back, whatever its peer
\* does.
PlainEnds ==
  \A c \in Connections :
    conn[c].stage # "none" ~> (conn[c].stage = "none" \/ conn[c].session)

\* Whatever threads and connections do, the store sees the handlers of
\* ControlPlane one at a time: all that holds of these holds here.
ServesControlPlane == Spec
=============================================================================
