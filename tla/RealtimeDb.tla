----------------------------- MODULE RealtimeDb -----------------------------
(***************************************************************************)
(* The Firebase Realtime Database client that ChaosComs embeds             *)
(* (Pods/FirebaseDatabase), on the paths the app uses: setValue on a fresh *)
(* child, observe(.childAdded) on a location, a connection that comes and  *)
(* goes, and a process that may die.  The server and the network are not   *)
(* in the repository: they are modelled from what the client sends and     *)
(* expects back.                                                           *)
(*                                                                         *)
(* Every child is written once (its key comes from childByAutoId), so a    *)
(* child is identified with its key and a cache is a set of keys.  One     *)
(* action is one block on the client's serial dispatch queue, or one       *)
(* message handled by the server.                                          *)
(***************************************************************************)
EXTENDS Integers, FiniteSets, SequencesExt

CONSTANTS
    Clients,      \* running copies of the app
    Locations,    \* database locations that are listened to (chat rooms)
    Keys,         \* push ids, ordered as numbers
    LocationOf,   \* [Keys -> Locations], the location a push id lies under
    Observers,    \* event registrations (one per chat screen)
    MayReject,    \* TRUE: the server's rules may refuse a write
    MaxDrops,     \* bound: how often connections are lost
    MaxKills      \* bound: how often a process dies

ASSUME KeysAssumption == Keys \subseteq Nat /\ IsFiniteSet(Keys)
ASSUME LocationAssumption ==
    LocationOf \in [Keys -> Locations] /\ IsFiniteSet(Locations)
ASSUME RejectAssumption == MayReject \in BOOLEAN
ASSUME BoundAssumption == MaxDrops \in Nat /\ MaxKills \in Nat

VARIABLES
    \* FPersistentConnection
    connectionState,       \* per client; GettingToken and Connecting are folded into OnReady
    outstandingPuts,       \* per client, the puts without a response
    putIndex,              \* the index putInternal gave to the put of a key
    putCounter,            \* per client, the next index
    putsToAck,             \* per client, responses held back while listens are unanswered
    unackedListensCount,   \* per client
    \* FRepo, FSyncTree, FWriteTree, FView, FEventRaiser
    pendingWrites,         \* per client, FWriteTree.allWrites
    serverCache,           \* per client, FView.viewCache.cachedServerSnap
    complete,              \* per client, the locations whose server cache is fully initialised
    eventCache,            \* per client, FView.viewCache.cachedEventSnap
    registrations,         \* per client and location, FView.eventRegistrations
    mainQueue,             \* per client, childAdded events dispatched to the main queue
    \* the network and the server
    toServer, toClient,    \* per client, the messages in flight on its connection
    listening,             \* per client, the locations the server pushes to it
    db,                    \* the children the server holds
    \* history and bounds
    written,               \* keys setValue was called for, by any process
    drops, kills

connVars   == <<connectionState, outstandingPuts, putIndex, putCounter,
                putsToAck, unackedListensCount>>
viewVars   == <<pendingWrites, serverCache, complete, eventCache,
                registrations, mainQueue>>
netVars    == <<toServer, toClient>>
serverVars == <<listening, db>>
histVars   == <<written, drops, kills>>
dbVars     == <<connVars, viewVars, netVars, serverVars, histVars>>

-----------------------------------------------------------------------------
(* Messages, events and small helpers.                                     *)

AuthMsg         == [type |-> "auth"]
ListenMsg(l, h) == [type |-> "listen", loc |-> l, hash |-> h]
PutMsg(k)       == [type |-> "put", key |-> k]

AuthOk          == [type |-> "authOk"]
Snapshot(l, S)  == [type |-> "snapshot", loc |-> l, keys |-> S]
ChildData(k)    == [type |-> "child", key |-> k]
ListenOk(l)     == [type |-> "listenOk", loc |-> l]
PutAck(k, ok)   == [type |-> "putAck", key |-> k, ok |-> ok]

ClientMessages ==
    {AuthMsg} \cup {ListenMsg(l, h) : l \in Locations, h \in SUBSET Keys}
              \cup {PutMsg(k) : k \in Keys}
ServerMessages ==
    {AuthOk} \cup {Snapshot(l, S) : l \in Locations, S \in SUBSET Keys}
             \cup {ChildData(k) : k \in Keys}
             \cup {ListenOk(l) : l \in Locations}
             \cup {PutAck(k, ok) : k \in Keys, ok \in BOOLEAN}

Event(k, R) == [key |-> k, to |-> R]
Events      == [key : Keys, to : SUBSET Observers]

KeysAt(l) == {k \in Keys : LocationOf[k] = l}

\* FSyncTree has a view, and FPersistentConnection a listen, for exactly the
\* locations with a registration: the app never removes an observer.
Views(c) == {l \in Locations : registrations[c][l] # {}}
Viewed(c, k) == LocationOf[k] \in Views(c)

Unregistered(r) ==
    \A c \in Clients, l \in Locations : r \notin registrations[c][l]

Connected(c)     == connectionState[c] \in {"Authenticating", "Connected"}
CanSendWrites(c) == connectionState[c] = "Connected"

\* The sequences that hold S in ascending order of key (there is one).
KeyOrders(S) ==
    {s \in SetToSeqs(S) : \A i, j \in DOMAIN s : i < j => s[i] < s[j]}

\* The sequences that hold the puts P in the order of their index.
PutOrders(P) ==
    {s \in SetToSeqs(P) : \A i, j \in DOMAIN s :
                              i < j => putIndex[s[i]] < putIndex[s[j]]}

\* The events for the children S that became visible, in key order, each for
\* the observers `to' maps it to; mainQueue[c] grows by them.
Raise(c, S, to) ==
    \E s \in KeyOrders(S) :
        mainQueue' = [mainQueue EXCEPT ![c] =
            @ \o [i \in DOMAIN s |-> Event(s[i], to[s[i]])]]

\* Mutant: the children that were visible before are announced once more.
RaiseAddedAgain(c, S) ==
    Raise(c, S, [k \in Keys |-> registrations[c][LocationOf[k]]])

\* Mutant: only one of a location's registrations is told.
RaiseAddedToOne(c, S) ==
    Raise(c, S \ eventCache[c],
          [k \in Keys |-> LET rs == registrations[c][LocationOf[k]]
                          IN  {r \in rs : r = CHOOSE q \in rs : TRUE}])

\* childAdded for those of the children S that were not visible before, for
\* every registration of their location.
RaiseAdded(c, S) ==
    Raise(c, S \ eventCache[c], [k \in Keys |-> registrations[c][LocationOf[k]]])

Send(c, msg) == toServer' = [toServer EXCEPT ![c] = Append(@, msg)]

-----------------------------------------------------------------------------
Init ==
    /\ connectionState = [c \in Clients |-> "Disconnected"]
    /\ outstandingPuts = [c \in Clients |-> {}]
    /\ putIndex = [k \in Keys |-> 0]
    /\ putCounter = [c \in Clients |-> 0]
    /\ putsToAck = [c \in Clients |-> {}]
    /\ unackedListensCount = [c \in Clients |-> 0]
    /\ pendingWrites = [c \in Clients |-> {}]
    /\ serverCache = [c \in Clients |-> {}]
    /\ complete = [c \in Clients |-> {}]
    /\ eventCache = [c \in Clients |-> {}]
    /\ registrations = [c \in Clients |-> [l \in Locations |-> {}]]
    /\ mainQueue = [c \in Clients |-> <<>>]
    /\ toServer = [c \in Clients |-> <<>>]
    /\ toClient = [c \in Clients |-> <<>>]
    /\ listening = [c \in Clients |-> {}]
    /\ db = {}
    /\ written = {}
    /\ drops = 0
    /\ kills = 0

-----------------------------------------------------------------------------
(* Calls the app makes.                                                    *)

\* observe(.childAdded) where the location is not viewed yet: the view starts
\* from the pending writes alone and a listen goes out, or waits for a
\* connection.
ObserveNew(c, r, l) ==
    /\ Unregistered(r)
    /\ l \notin Views(c)
    /\ registrations' = [registrations EXCEPT ![c][l] = {r}]
    /\ LET initial == pendingWrites[c] \cap KeysAt(l)
       IN  /\ eventCache' = [eventCache EXCEPT ![c] = @ \cup initial]
           /\ Raise(c, initial, [k \in Keys |-> {r}])
    /\ IF Connected(c)
       THEN /\ Send(c, ListenMsg(l, {}))
            /\ unackedListensCount' = [unackedListensCount EXCEPT ![c] = @ + 1]
       ELSE UNCHANGED <<toServer, unackedListensCount>>
    /\ UNCHANGED <<connectionState, outstandingPuts, putIndex, putCounter, putsToAck,
                   pendingWrites, serverCache, complete, toClient, serverVars, histVars>>

\* Mutant: no initial events.
ObserveExistingSilently(c, r, l) ==
    /\ Unregistered(r)
    /\ l \in Views(c)
    /\ registrations' = [registrations EXCEPT ![c][l] = @ \cup {r}]
    /\ UNCHANGED <<connVars, pendingWrites, serverCache, complete, eventCache,
                   mainQueue, netVars, serverVars, histVars>>

\* observe(.childAdded) on a location that has a view: the new registration
\* is told the children of the event cache.
ObserveExisting(c, r, l) ==
    /\ Unregistered(r)
    /\ l \in Views(c)
    /\ registrations' = [registrations EXCEPT ![c][l] = @ \cup {r}]
    /\ Raise(c, eventCache[c] \cap KeysAt(l), [k \in Keys |-> {r}])
    /\ UNCHANGED <<connVars, pendingWrites, serverCache, complete, eventCache,
                   netVars, serverVars, histVars>>

Observe(c, r, l) == ObserveNew(c, r, l) \/ ObserveExisting(c, r, l)

\* setValue on a fresh child: the write is pending and visible at once, and
\* the put is sent if writes can be sent now.
SetValue(c, k) ==
    /\ k \notin written
    /\ written' = written \cup {k}
    /\ pendingWrites' = [pendingWrites EXCEPT ![c] = @ \cup {k}]
    /\ LET shown == IF Viewed(c, k) THEN {k} ELSE {}
       IN  /\ eventCache' = [eventCache EXCEPT ![c] = @ \cup shown]
           /\ RaiseAdded(c, shown)
    /\ outstandingPuts' = [outstandingPuts EXCEPT ![c] = @ \cup {k}]
    /\ putIndex' = [putIndex EXCEPT ![k] = putCounter[c]]
    /\ putCounter' = [putCounter EXCEPT ![c] = @ + 1]
    /\ IF CanSendWrites(c) THEN Send(c, PutMsg(k)) ELSE UNCHANGED toServer
    /\ UNCHANGED <<connectionState, putsToAck, unackedListensCount, serverCache,
                   complete, registrations, toClient, serverVars, drops, kills>>

-----------------------------------------------------------------------------
(* The connection.                                                         *)

\* The messages of restoreState: a listen with the hash of what the client
\* has, and a put per write.
ListenMsgs(c, ls) ==
    [i \in DOMAIN ls |-> ListenMsg(ls[i], serverCache[c] \cap KeysAt(ls[i]))]

PutMsgs(ps) == [i \in DOMAIN ps |-> PutMsg(ps[i])]

\* Mutant: puts are not sent again.
RestoreListens(c) ==
    \E ls \in SetToSeqs(Views(c)) :
        /\ toServer' = [toServer EXCEPT ![c] = @ \o ListenMsgs(c, ls)]
        /\ unackedListensCount' =
              [unackedListensCount EXCEPT ![c] = @ + Cardinality(Views(c))]

\* Mutant: listens are not sent again.
RestorePuts(c) ==
    \E ps \in PutOrders(outstandingPuts[c]) :
        /\ toServer' = [toServer EXCEPT ![c] = @ \o PutMsgs(ps)]
        /\ UNCHANGED unackedListensCount

\* All listens go out again, in the dictionary's order, then all puts without
\* a response in index order.
RestoreState(c) ==
    \E ls \in SetToSeqs(Views(c)), ps \in PutOrders(outstandingPuts[c]) :
        /\ toServer' = [toServer EXCEPT ![c] = @ \o ListenMsgs(c, ls) \o PutMsgs(ps)]
        /\ unackedListensCount' =
              [unackedListensCount EXCEPT ![c] = @ + Cardinality(Views(c))]

\* A connection is established and there is no auth token: state is restored
\* at once.
OnReadyUnauthenticated(c) ==
    /\ connectionState[c] = "Disconnected"
    /\ connectionState' = [connectionState EXCEPT ![c] = "Connected"]
    /\ RestoreState(c)
    /\ UNCHANGED <<outstandingPuts, putIndex, putCounter, putsToAck, viewVars,
                   toClient, serverVars, histVars>>

\* A connection is established and the token is sent first.
OnReadyWithToken(c) ==
    /\ connectionState[c] = "Disconnected"
    /\ connectionState' = [connectionState EXCEPT ![c] = "Authenticating"]
    /\ Send(c, AuthMsg)
    /\ UNCHANGED <<outstandingPuts, putIndex, putCounter, putsToAck,
                   unackedListensCount, viewVars, toClient, serverVars, histVars>>

OnReady(c) == OnReadyUnauthenticated(c) \/ OnReadyWithToken(c)

\* What every loss of a connection does.
Disconnect(c) ==
    /\ Connected(c)
    /\ drops < MaxDrops
    /\ drops' = drops + 1
    /\ connectionState' = [connectionState EXCEPT ![c] = "Disconnected"]
    /\ toServer' = [toServer EXCEPT ![c] = <<>>]
    /\ toClient' = [toClient EXCEPT ![c] = <<>>]
    /\ listening' = [listening EXCEPT ![c] = {}]

\* Mutant: the unanswered listens stay counted.
OnDisconnectCounting(c) ==
    /\ Disconnect(c)
    /\ UNCHANGED <<outstandingPuts, putIndex, putCounter, putsToAck,
                   unackedListensCount, viewVars, db, written, kills>>

\* Mutant: the responses held back are dropped.
OnDisconnectDropping(c) ==
    /\ Disconnect(c)
    /\ unackedListensCount' = [unackedListensCount EXCEPT ![c] = 0]
    /\ putsToAck' = [putsToAck EXCEPT ![c] = {}]
    /\ UNCHANGED <<outstandingPuts, putIndex, putCounter, viewVars, db, written, kills>>

\* Mutant: the puts without a response are cancelled.
OnDisconnectCancelling(c) ==
    /\ Disconnect(c)
    /\ unackedListensCount' = [unackedListensCount EXCEPT ![c] = 0]
    /\ outstandingPuts' = [outstandingPuts EXCEPT ![c] = {}]
    /\ pendingWrites' = [pendingWrites EXCEPT ![c] = @ \ outstandingPuts[c]]
    /\ UNCHANGED <<putIndex, putCounter, putsToAck, serverCache, complete, eventCache,
                   registrations, mainQueue, db, written, kills>>

\* The connection is lost with everything in flight.  Responses that were
\* held back stay held back.
OnDisconnect(c) ==
    /\ Disconnect(c)
    /\ unackedListensCount' = [unackedListensCount EXCEPT ![c] = 0]
    /\ UNCHANGED <<outstandingPuts, putIndex, putCounter, putsToAck, viewVars,
                   db, written, kills>>

\* The process dies.  Nothing is persisted: the next process starts afresh.
Kill(c) ==
    /\ kills < MaxKills
    /\ kills' = kills + 1
    /\ connectionState' = [connectionState EXCEPT ![c] = "Disconnected"]
    /\ outstandingPuts' = [outstandingPuts EXCEPT ![c] = {}]
    /\ putCounter' = [putCounter EXCEPT ![c] = 0]
    /\ putsToAck' = [putsToAck EXCEPT ![c] = {}]
    /\ unackedListensCount' = [unackedListensCount EXCEPT ![c] = 0]
    /\ pendingWrites' = [pendingWrites EXCEPT ![c] = {}]
    /\ serverCache' = [serverCache EXCEPT ![c] = {}]
    /\ complete' = [complete EXCEPT ![c] = {}]
    /\ eventCache' = [eventCache EXCEPT ![c] = {}]
    /\ registrations' = [registrations EXCEPT ![c] = [l \in Locations |-> {}]]
    /\ mainQueue' = [mainQueue EXCEPT ![c] = <<>>]
    /\ toServer' = [toServer EXCEPT ![c] = <<>>]
    /\ toClient' = [toClient EXCEPT ![c] = <<>>]
    /\ listening' = [listening EXCEPT ![c] = {}]
    /\ UNCHANGED <<putIndex, db, written, drops>>

-----------------------------------------------------------------------------
(* Messages from the server.                                               *)

Received(c, msgs) ==
    /\ toClient[c] # <<>>
    /\ Head(toClient[c]) \in msgs
    /\ toClient' = [toClient EXCEPT ![c] = Tail(@)]

ReceiveAuthOk(c) ==
    /\ Received(c, {AuthOk})
    /\ connectionState' = [connectionState EXCEPT ![c] = "Connected"]
    /\ RestoreState(c)
    /\ UNCHANGED <<outstandingPuts, putIndex, putCounter, putsToAck, viewVars,
                   serverVars, histVars>>

\* The data at a whole location: the server cache is replaced and complete,
\* and the event cache is the server's data under the pending writes.
ReceiveSnapshot(c) ==
    \E l \in Locations, S \in SUBSET Keys :
        /\ Received(c, {Snapshot(l, S)})
        /\ serverCache' = [serverCache EXCEPT ![c] = (@ \ KeysAt(l)) \cup S]
        /\ complete' = [complete EXCEPT ![c] = @ \cup {l}]
        /\ LET new == S \cup (pendingWrites[c] \cap KeysAt(l))
           IN  /\ eventCache' = [eventCache EXCEPT ![c] = (@ \ KeysAt(l)) \cup new]
               /\ RaiseAdded(c, new)
        /\ UNCHANGED <<connVars, pendingWrites, registrations, toServer,
                       serverVars, histVars>>

\* Mutant: data a pending write shadows is not stored in the server cache.
ReceiveChildUnshadowed(c) ==
    \E k \in Keys :
        /\ Received(c, {ChildData(k)})
        /\ LET new == {k} \ pendingWrites[c]
           IN  /\ serverCache' = [serverCache EXCEPT ![c] = @ \cup new]
               /\ eventCache' = [eventCache EXCEPT ![c] = @ \cup new]
               /\ RaiseAdded(c, new)
        /\ UNCHANGED <<connVars, pendingWrites, complete, registrations,
                       toServer, serverVars, histVars>>

\* One child: ignored by the event cache if a pending write shadows it.
ReceiveChild(c) ==
    \E k \in Keys :
        /\ Received(c, {ChildData(k)})
        /\ serverCache' = [serverCache EXCEPT ![c] = @ \cup {k}]
        /\ LET new == {k} \ pendingWrites[c]
           IN  /\ eventCache' = [eventCache EXCEPT ![c] = @ \cup new]
               /\ RaiseAdded(c, new)
        /\ UNCHANGED <<connVars, pendingWrites, complete, registrations,
                       toServer, serverVars, histVars>>

AckedKeys(A) == {k \in Keys : \E ok \in BOOLEAN : <<k, ok>> \in A}

\* Mutant: an acknowledged write is taken back like a refused one.
RevertedEventCache(c, A, comp, ec) ==
    ec \ {k \in AckedKeys(A) : Viewed(c, k)}

\* ackUserWrite for the responses A, with comp the locations that are complete
\* by then, from the event cache ec: the writes are no longer pending, and each
\* child is what the server cache now says.  A child of a view whose server
\* cache does not answer for it stays as it is; a refused one goes.
AckedEventCache(c, A, comp, ec) ==
    LET acked == {k \in AckedKeys(A) : Viewed(c, k)}
        gone  == {k \in acked \ serverCache[c] :
                     <<k, FALSE>> \in A \/ LocationOf[k] \in comp}
    IN  (ec \cup (acked \cap serverCache[c])) \ gone

\* Mutant: one listen too late.
NoListenLeft(c) == unackedListensCount[c] = 0

\* The response being handled is the last one: it releases what is held back.
LastListen(c) == unackedListensCount[c] = 1

\* The response to a listen: the location is complete, and with the last
\* unanswered listen the responses held back are acknowledged.
ReceiveListenOk(c) ==
    \E l \in Locations :
        /\ Received(c, {ListenOk(l)})
        /\ complete' = [complete EXCEPT ![c] = @ \cup {l}]
        /\ unackedListensCount' = [unackedListensCount EXCEPT ![c] = @ - 1]
        /\ LET shown == (serverCache[c] \cup pendingWrites[c]) \cap KeysAt(l)
               ec    == (eventCache[c] \ KeysAt(l)) \cup shown
               A     == IF LastListen(c) THEN putsToAck[c] ELSE {}
           IN  /\ pendingWrites' = [pendingWrites EXCEPT ![c] = @ \ AckedKeys(A)]
               /\ putsToAck' = [putsToAck EXCEPT ![c] = @ \ A]
               /\ eventCache' = [eventCache EXCEPT ![c] =
                                    AckedEventCache(c, A, complete[c] \cup {l}, ec)]
               /\ RaiseAdded(c, eventCache'[c])
        /\ UNCHANGED <<connectionState, outstandingPuts, putIndex, putCounter,
                       serverCache, registrations, toServer, serverVars, histVars>>

\* Mutant: responses are never held back.
AlwaysAckNow(c) == TRUE

\* A response is acknowledged now, not held back.
AckNow(c) == unackedListensCount[c] = 0

\* The response to a put: acknowledged now, or held back while a listen is
\* unanswered.
ReceivePutAck(c) ==
    \E k \in Keys, ok \in BOOLEAN :
        /\ Received(c, {PutAck(k, ok)})
        /\ outstandingPuts' = [outstandingPuts EXCEPT ![c] = @ \ {k}]
        /\ LET answered == IF k \in outstandingPuts[c] THEN {<<k, ok>>} ELSE {}
               A        == IF AckNow(c) THEN answered ELSE {}
           IN  /\ pendingWrites' = [pendingWrites EXCEPT ![c] = @ \ AckedKeys(A)]
               /\ putsToAck' = [putsToAck EXCEPT ![c] = @ \cup (answered \ A)]
               /\ eventCache' = [eventCache EXCEPT ![c] =
                                    AckedEventCache(c, A, complete[c], @)]
               /\ RaiseAdded(c, eventCache'[c])
        /\ UNCHANGED <<connectionState, putIndex, putCounter, unackedListensCount,
                       serverCache, complete, registrations, toServer,
                       serverVars, histVars>>

Receive(c) ==
    \/ ReceiveAuthOk(c)
    \/ ReceiveSnapshot(c)
    \/ ReceiveChild(c)
    \/ ReceiveListenOk(c)
    \/ ReceivePutAck(c)

\* The main thread takes the next event; the app's block runs in the module
\* that observes.
Dispatch(c) ==
    /\ mainQueue[c] # <<>>
    /\ mainQueue' = [mainQueue EXCEPT ![c] = Tail(@)]
    /\ UNCHANGED <<connVars, pendingWrites, serverCache, complete, eventCache,
                   registrations, netVars, serverVars, histVars>>

-----------------------------------------------------------------------------
(* The server.  It answers a connection's requests in order; a push for a  *)
(* write precedes the response to it on the writer's own connection.       *)

Requested(c, msgs) ==
    /\ toServer[c] # <<>>
    /\ Head(toServer[c]) \in msgs
    /\ toServer' = [toServer EXCEPT ![c] = Tail(@)]

Reply(c, msgs) == toClient' = [toClient EXCEPT ![c] = @ \o msgs]

ServeAuth(c) ==
    /\ Requested(c, {AuthMsg})
    /\ Reply(c, <<AuthOk>>)
    /\ UNCHANGED <<connVars, viewVars, serverVars, histVars>>

\* The data is sent unless the client's hash says that it has it.
ServeListen(c) ==
    \E l \in Locations, h \in SUBSET Keys :
        /\ Requested(c, {ListenMsg(l, h)})
        /\ listening' = [listening EXCEPT ![c] = @ \cup {l}]
        /\ LET data == db \cap KeysAt(l)
           IN  Reply(c, (IF data = h THEN <<>> ELSE <<Snapshot(l, data)>>)
                        \o <<ListenOk(l)>>)
        /\ UNCHANGED <<connVars, viewVars, db, histVars>>

\* A put is stored and pushed to every listener (a put that changes nothing
\* is not pushed), then answered.
ServePut(c) ==
    \E k \in Keys :
        /\ Requested(c, {PutMsg(k)})
        /\ db' = db \cup {k}
        /\ toClient' = [d \in Clients |->
              toClient[d]
              \o (IF LocationOf[k] \in listening[d] /\ k \notin db
                  THEN <<ChildData(k)>> ELSE <<>>)
              \o (IF d = c THEN <<PutAck(k, TRUE)>> ELSE <<>>)]
        /\ UNCHANGED <<connVars, viewVars, listening, histVars>>

ServePutRefused(c) ==
    \E k \in Keys :
        /\ MayReject
        /\ Requested(c, {PutMsg(k)})
        /\ Reply(c, <<PutAck(k, FALSE)>>)
        /\ UNCHANGED <<connVars, viewVars, serverVars, histVars>>

Serve(c) ==
    \/ ServeAuth(c)
    \/ ServeListen(c)
    \/ ServePut(c)
    \/ ServePutRefused(c)

-----------------------------------------------------------------------------
(* Any use of the client: observers and writes at any time.                *)

Next ==
    \E c \in Clients :
        \/ \E r \in Observers, l \in Locations : Observe(c, r, l)
        \/ \E k \in Keys : SetValue(c, k)
        \/ Dispatch(c)
        \/ OnReady(c)
        \/ OnDisconnect(c)
        \/ Kill(c)
        \/ Receive(c)
        \/ Serve(c)

Fairness ==
    \A c \in Clients : /\ WF_dbVars(Dispatch(c))
                       /\ WF_dbVars(OnReady(c))
                       /\ WF_dbVars(Receive(c))
                       /\ WF_dbVars(Serve(c))

Spec     == Init /\ [][Next]_dbVars
FairSpec == Spec /\ Fairness

-----------------------------------------------------------------------------
(* Properties.                                                             *)

\* Every variable holds what its declaration says.
TypeOK ==
    /\ connectionState \in
          [Clients -> {"Disconnected", "Authenticating", "Connected"}]
    /\ outstandingPuts \in [Clients -> SUBSET Keys]
    /\ putIndex \in [Keys -> Nat]
    /\ putCounter \in [Clients -> Nat]
    /\ putsToAck \in [Clients -> SUBSET (Keys \X BOOLEAN)]
    /\ unackedListensCount \in [Clients -> Int]
    /\ pendingWrites \in [Clients -> SUBSET Keys]
    /\ serverCache \in [Clients -> SUBSET Keys]
    /\ complete \in [Clients -> SUBSET Locations]
    /\ eventCache \in [Clients -> SUBSET Keys]
    /\ registrations \in [Clients -> [Locations -> SUBSET Observers]]
    /\ mainQueue \in [Clients -> Seq(Events)]
    /\ toServer \in [Clients -> Seq(ClientMessages)]
    /\ toClient \in [Clients -> Seq(ServerMessages)]
    /\ listening \in [Clients -> SUBSET Locations]
    /\ db \subseteq Keys
    /\ written \subseteq Keys
    /\ drops \in 0..MaxDrops
    /\ kills \in 0..MaxKills

CountOf(s, T) == Cardinality({i \in DOMAIN s : s[i].type \in T})

\* unackedListensCount counts the listens whose response is still to come
\* (over reconnects and a listen sent twice, before and after the token is
\* accepted), so sendListen's assertion that it never goes below zero holds.
ListensCounted ==
    \A c \in Clients :
        unackedListensCount[c] = CountOf(toServer[c], {"listen"})
                                 + CountOf(toClient[c], {"listenOk"})

\* No write is lost inside the client: a pending write is waiting for its
\* response, or its response is held back, and a response is held back only
\* for a write that is still pending.
WritesAccountedFor ==
    \A c \in Clients :
        /\ pendingWrites[c] = outstandingPuts[c] \cup AckedKeys(putsToAck[c])
        /\ outstandingPuts[c] \cap AckedKeys(putsToAck[c]) = {}

\* Responses that sendPut holds back are never stranded: on a connection that
\* can send writes, some listen is unanswered, and its response releases them.
HeldAcksAreReleased ==
    \A c \in Clients :
        CanSendWrites(c) /\ putsToAck[c] # {} => unackedListensCount[c] > 0

\* What FView keeps up to date step by step is what it stands for: in every
\* view the event cache is the server cache under the pending writes.
EventCacheIsOverlay ==
    \A c \in Clients : \A l \in Views(c) :
        eventCache[c] \cap KeysAt(l) =
            (serverCache[c] \cup pendingWrites[c]) \cap KeysAt(l)

\* When a connection has nothing in flight, a view shows exactly what the
\* server holds.
QuietViewsAgree ==
    \A c \in Clients :
        /\ CanSendWrites(c)
        /\ toServer[c] = <<>>
        /\ toClient[c] = <<>>
        => \A l \in Views(c) :
              eventCache[c] \cap KeysAt(l) = db \cap KeysAt(l)

\* Acknowledging, reconnecting or reloading never takes a child the server
\* holds out of a view (FEventGenerator would raise childRemoved, and
\* childAdded once more when the data comes); only the death of the process
\* does.
SavedNeverVanishes ==
    [][\A c \in Clients :
          kills' = kills => (eventCache[c] \ eventCache'[c]) \cap db = {}]_dbVars

\* A write stops being pending only once the server holds it, unless it was
\* refused or the process died.
ForgottenOnlyIfSaved ==
    [][\A c \in Clients :
          kills' = kills /\ ~MayReject
          => pendingWrites[c] \ pendingWrites'[c] \subseteq db]_dbVars

\* Every write is answered in the end, whatever connections are lost on the
\* way (or its process dies).
WritesSettle ==
    \A c \in Clients, k \in Keys :
        k \in pendingWrites[c] ~> k \notin pendingWrites[c]

\* Every child the server holds is seen in the end by every view of its
\* location (or the view's process dies).
SavedReachesViews ==
    \A c \in Clients, k \in Keys :
        k \in db /\ Viewed(c, k) ~> k \in eventCache[c] \/ ~Viewed(c, k)
=============================================================================
