----------------------------- MODULE Views_proofs -----------------------------
(* What TLAPS proves of the views of RealtimeDb: the event cache is the     *)
(* server cache under the pending writes, a view agrees with the server     *)
(* when nothing is in flight, and a child the server holds never vanishes   *)
(* from a view.                                                             *)
EXTENDS RealtimeDb_proofs

-----------------------------------------------------------------------------
(* The connection: the token goes first, and a put is in flight at most    *)
(* once, as a request or as a response.                                    *)

PutAcks(k) == {PutAck(k, TRUE), PutAck(k, FALSE)}

\* Until the token is accepted, the first thing in flight is the token or its
\* acceptance, and nothing is in flight without a connection.
TokenFirst(c) ==
    /\ connectionState[c] = "Disconnected" =>
           toServer[c] = <<>> /\ toClient[c] = <<>> /\ listening[c] = {}
    /\ connectionState[c] = "Authenticating" /\ toClient[c] = <<>> =>
           toServer[c] # <<>> /\ Head(toServer[c]) = AuthMsg /\ listening[c] = {}
    /\ connectionState[c] = "Authenticating" /\ toClient[c] # <<>> =>
           Head(toClient[c]) = AuthOk
    /\ AuthMsg \in ToSet(toServer[c]) =>
           /\ connectionState[c] = "Authenticating"
           /\ Once(toServer[c], {AuthMsg})
           /\ AuthOk \notin ToSet(toClient[c])
    /\ AuthOk \in ToSet(toClient[c]) =>
           connectionState[c] = "Authenticating" /\ Once(toClient[c], {AuthOk})

\* A put in flight is one without a response, on a connection that can send
\* writes, and is there once.
PutsOnce(c) ==
    \A k \in Keys :
        /\ PutMsg(k) \in ToSet(toServer[c]) \/ PutAcks(k) \cap ToSet(toClient[c]) # {}
           => CanSendWrites(c) /\ k \in outstandingPuts[c]
        /\ Once(toServer[c], {PutMsg(k)})
        /\ Once(toClient[c], PutAcks(k))
        /\ PutMsg(k) \in ToSet(toServer[c]) => PutAcks(k) \cap ToSet(toClient[c]) = {}

\* A connection that can send writes has sent every put without a response.
PutsSent(c) ==
    CanSendWrites(c) =>
        \A k \in outstandingPuts[c] :
            PutMsg(k) \in ToSet(toServer[c]) \/ PutAcks(k) \cap ToSet(toClient[c]) # {}

\* No other message is the response to a put.
LEMMA PutAcksDistinct ==
    /\ \A k : AuthOk \notin PutAcks(k)
    /\ \A l, S, k : Snapshot(l, S) \notin PutAcks(k)
    /\ \A j, k : ChildData(j) \notin PutAcks(k)
    /\ \A l, k : ListenOk(l) \notin PutAcks(k)
    /\ \A j, k, ok : PutAck(j, ok) \in PutAcks(k) => j = k
<1>1. \A k : AuthOk \notin PutAcks(k)
    BY RepliesDistinct DEF PutAcks
<1>2. \A l, S, k : Snapshot(l, S) \notin PutAcks(k)
    <2>1. \A l, S, k, ok : Snapshot(l, S) # PutAck(k, ok)
        BY RepliesDistinct
    <2> QED
        BY <2>1 DEF PutAcks
<1>3. \A j, k : ChildData(j) \notin PutAcks(k)
    <2>1. \A j, k, ok : ChildData(j) # PutAck(k, ok)
        BY RepliesDistinct
    <2> QED
        BY <2>1 DEF PutAcks
<1>4. \A l, k : ListenOk(l) \notin PutAcks(k)
    <2>1. \A l, k, ok : ListenOk(l) # PutAck(k, ok)
        BY RepliesDistinct
    <2> QED
        BY <2>1 DEF PutAcks
<1>5. \A j, k, ok : PutAck(j, ok) \in PutAcks(k) => j = k
    <2>1. \A j, k, ok, o : PutAck(j, ok) = PutAck(k, o) => j = k
        BY RepliesDistinct
    <2> QED
        BY <2>1 DEF PutAcks
<1> QED
    BY <1>1, <1>2, <1>3, <1>4, <1>5

ConnectionOf(c) == TokenFirst(c) /\ PutsOnce(c) /\ PutsSent(c)

ConnectionInv ==
    /\ ListensInv
    /\ WritesInv
    /\ \A c \in Clients : ConnectionOf(c)

\* A message other than the acceptance of the token comes on a connection that
\* can send writes.
LEMMA ReceivingIsConnected ==
    ASSUME TypeOK, NEW c \in Clients, TokenFirst(c), NEW m, Received(c, {m}), m # AuthOk
    PROVE  /\ connectionState[c] = "Connected" /\ CanSendWrites(c)
           /\ AuthMsg \notin ToSet(toServer[c]) /\ AuthOk \notin ToSet(toClient[c])
<1>1. toClient[c] # <<>> /\ Head(toClient[c]) = m
    BY DEF Received
<1>2. connectionState[c] \in {"Disconnected", "Authenticating", "Connected"}
    BY DEF TypeOK
<1>3. connectionState[c] = "Connected"
    BY <1>1, <1>2 DEF TokenFirst
<1> QED
    BY <1>3 DEF TokenFirst, CanSendWrites

\* A request other than the token is served when the token was accepted, or its
\* acceptance is on its way.
LEMMA ServingAfterToken ==
    ASSUME TypeOK, NEW c \in Clients, TokenFirst(c), NEW m, Requested(c, {m}), m # AuthMsg
    PROVE  \/ connectionState[c] = "Connected"
           \/ connectionState[c] = "Authenticating" /\ toClient[c] # <<>>
<1>1. toServer[c] # <<>> /\ Head(toServer[c]) = m
    BY DEF Requested
<1>2. connectionState[c] \in {"Disconnected", "Authenticating", "Connected"}
    BY DEF TypeOK
<1> QED
    BY <1>1, <1>2 DEF TokenFirst

\* A step that touches neither the channels of c nor its puts keeps it so.
LEMMA ConnectionFrame ==
    ASSUME NEW c \in Clients, ConnectionOf(c),
           connectionState'[c] = connectionState[c],
           outstandingPuts'[c] = outstandingPuts[c],
           toServer'[c] = toServer[c], toClient'[c] = toClient[c],
           listening'[c] = listening[c]
    PROVE  ConnectionOf(c)'
BY DEF ConnectionOf, TokenFirst, PutsOnce, PutsSent, CanSendWrites

\* So does sending a listen on a connection.
LEMMA ConnectionAsked ==
    ASSUME TypeOK, NEW c \in Clients, ConnectionOf(c), Connected(c),
           NEW l \in Locations, NEW h \in SUBSET Keys, Send(c, ListenMsg(l, h)),
           UNCHANGED <<connectionState, outstandingPuts, toClient, listening>>
    PROVE  ConnectionOf(c)'
<1> DEFINE m == ListenMsg(l, h)
<1>1. m \in ClientMessages
    BY MessageTypes
<1>2. /\ toServer'[c] # <<>>
      /\ Head(toServer'[c]) = IF toServer[c] = <<>> THEN m ELSE Head(toServer[c])
      /\ ToSet(toServer'[c]) = ToSet(toServer[c]) \cup {m}
      /\ \A M : Once(toServer[c], M) /\ (m \in M => M \cap ToSet(toServer[c]) = {})
                => Once(toServer'[c], M)
    BY <1>1, SentChannel
<1>3. m # AuthMsg /\ \A k : m # PutMsg(k)
    BY RequestsDistinct
<1> HIDE DEF m
<1>4. TokenFirst(c)'
    <2>1. AuthMsg \in ToSet(toServer'[c]) => AuthMsg \in ToSet(toServer[c])
        BY <1>2, <1>3
    <2>2. Once(toServer[c], {AuthMsg}) => Once(toServer'[c], {AuthMsg})
        BY <1>2, <1>3
    <2> QED
        BY <1>2, <2>1, <2>2 DEF ConnectionOf, TokenFirst, Connected
<1>5. CanSendWrites(c)' = CanSendWrites(c)
    BY DEF CanSendWrites
<1>6. PutsOnce(c)'
    <2>1. \A k \in Keys : PutMsg(k) \in ToSet(toServer'[c]) <=> PutMsg(k) \in ToSet(toServer[c])
        BY <1>2, <1>3
    <2>2. \A k \in Keys : Once(toServer'[c], {PutMsg(k)})
        BY <1>2, <1>3 DEF ConnectionOf, PutsOnce
    <2> QED
        BY <1>5, <2>1, <2>2 DEF ConnectionOf, PutsOnce
<1>7. PutsSent(c)'
    BY <1>2, <1>5 DEF ConnectionOf, PutsSent
<1> QED
    BY <1>4, <1>6, <1>7 DEF ConnectionOf

\* A new put is sent once if writes can be sent.
LEMMA ConnectionPut ==
    ASSUME ConnectionInv, NEW c \in Clients, NEW k \in Keys, SetValue(c, k)
    PROVE  ConnectionOf(c)'
<1>1. TypeOK /\ ConnectionOf(c)
    BY DEF ConnectionInv, WritesInv
<1>2. /\ UNCHANGED <<connectionState, toClient, listening>>
      /\ outstandingPuts'[c] = outstandingPuts[c] \cup {k}
      /\ k \notin written
    BY <1>1 DEF SetValue, serverVars, TypeOK
<1>3. k \notin outstandingPuts[c]
    BY <1>2 DEF ConnectionInv, WritesInv, WritesAccountedFor, PendingAreWritten
<1>4. PutMsg(k) \notin ToSet(toServer[c]) /\ PutAcks(k) \cap ToSet(toClient[c]) = {}
    BY <1>1, <1>3 DEF ConnectionOf, PutsOnce
<1>5. CanSendWrites(c)' = CanSendWrites(c)
    BY <1>2 DEF CanSendWrites
<1>6. CASE ~CanSendWrites(c)
    <2>1. toServer' = toServer
        BY <1>6 DEF SetValue
    <2> QED
        BY <1>1, <1>2, <1>5, <1>6, <2>1 DEF ConnectionOf, TokenFirst, PutsOnce, PutsSent
<1>7. CASE CanSendWrites(c)
    <2>1. Send(c, PutMsg(k)) /\ PutMsg(k) \in ClientMessages
        BY <1>7, MessageTypes DEF SetValue
    <2>2. /\ ToSet(toServer'[c]) = ToSet(toServer[c]) \cup {PutMsg(k)}
          /\ \A M : Once(toServer[c], M) /\ (PutMsg(k) \in M => M \cap ToSet(toServer[c]) = {})
                    => Once(toServer'[c], M)
        BY <1>1, <2>1, SentChannel
    <2>3. connectionState'[c] = "Connected"
        BY <1>2, <1>7 DEF CanSendWrites
    <2>4. TokenFirst(c)'
        <3>1. AuthMsg \notin ToSet(toServer[c]) /\ AuthOk \notin ToSet(toClient[c])
            BY <1>1, <1>2, <2>3 DEF ConnectionOf, TokenFirst
        <3>2. AuthMsg \notin ToSet(toServer'[c])
            BY <2>2, <3>1, RequestsDistinct
        <3> QED
            BY <1>2, <2>3, <3>1, <3>2 DEF TokenFirst
    <2>5. PutsOnce(c)'
        <3>1. \A j \in Keys : PutMsg(j) \in ToSet(toServer'[c]) <=> PutMsg(j) \in ToSet(toServer[c]) \/ j = k
            BY <2>2, RequestsDistinct
        <3>2. \A j \in Keys : PutMsg(k) \in {PutMsg(j)} => {PutMsg(j)} \cap ToSet(toServer[c]) = {}
            BY <1>4
        <3>3. \A j \in Keys : Once(toServer'[c], {PutMsg(j)})
            BY <1>1, <2>2, <3>2 DEF ConnectionOf, PutsOnce
        <3> QED
            BY <1>1, <1>2, <1>4, <1>5, <1>7, <3>1, <3>3 DEF ConnectionOf, PutsOnce
    <2>6. PutsSent(c)'
        BY <1>1, <1>2, <1>5, <2>2 DEF ConnectionOf, PutsSent
    <2> QED
        BY <2>4, <2>5, <2>6 DEF ConnectionOf
<1> QED
    BY <1>6, <1>7

\* So does receiving what is neither the acceptance of the token nor the
\* response to a put.
LEMMA ConnectionReceived ==
    ASSUME TypeOK, NEW c \in Clients, ConnectionOf(c), NEW m, Received(c, {m}), m # AuthOk,
           \A k \in Keys : m \notin PutAcks(k),
           UNCHANGED <<connectionState, outstandingPuts, toServer, listening>>
    PROVE  ConnectionOf(c)'
<1>1. /\ connectionState[c] = "Connected"
      /\ AuthMsg \notin ToSet(toServer[c]) /\ AuthOk \notin ToSet(toClient[c])
    BY ReceivingIsConnected DEF ConnectionOf
<1>2. /\ ToSet(toClient[c]) = {m} \cup ToSet(toClient'[c])
      /\ \A M : Once(toClient[c], M) => Once(toClient'[c], M)
    BY ReceivedChannel
<1>3. TokenFirst(c)'
    BY <1>1, <1>2 DEF TokenFirst
<1>4. \A k \in Keys : PutAcks(k) \cap ToSet(toClient'[c]) = PutAcks(k) \cap ToSet(toClient[c])
    BY <1>2
<1>5. PutsOnce(c)'
    <2>1. \A k \in Keys : Once(toClient'[c], PutAcks(k))
        BY <1>2 DEF ConnectionOf, PutsOnce
    <2> QED
        BY <1>4, <2>1 DEF ConnectionOf, PutsOnce, CanSendWrites
<1>6. PutsSent(c)'
    <2>1. outstandingPuts[c] \subseteq Keys
        BY DEF TypeOK
    <2> QED
        BY <1>4, <2>1 DEF ConnectionOf, PutsSent, CanSendWrites
<1> QED
    BY <1>3, <1>5, <1>6 DEF ConnectionOf

\* Restoring the state sends each put without a response once.
LEMMA ConnectionRestored ==
    ASSUME TypeOK, NEW c \in Clients, ConnectionOf(c), RestoreState(c), ~CanSendWrites(c),
           connectionState'[c] = "Connected", outstandingPuts'[c] = outstandingPuts[c],
           AuthMsg \notin ToSet(toServer[c]), AuthOk \notin ToSet(toClient'[c]),
           ToSet(toClient'[c]) \subseteq ToSet(toClient[c])
    PROVE  ConnectionOf(c)'
<1>1. \A k \in Keys : PutMsg(k) \notin ToSet(toServer[c]) /\ PutAcks(k) \cap ToSet(toClient'[c]) = {}
    BY DEF ConnectionOf, PutsOnce
<1>2. /\ ToSet(toServer'[c]) =
             ToSet(toServer[c])
             \cup {ListenMsg(l, serverCache[c] \cap KeysAt(l)) : l \in Views(c)}
             \cup {PutMsg(k) : k \in outstandingPuts[c]}
      /\ \A k \in Keys : PutMsg(k) \notin ToSet(toServer[c]) => Once(toServer'[c], {PutMsg(k)})
    BY RestoredChannel
<1>3. AuthMsg \notin ToSet(toServer'[c])
    <2>1. AuthMsg \notin {ListenMsg(l, serverCache[c] \cap KeysAt(l)) : l \in Views(c)}
        BY RequestsDistinct
    <2>2. AuthMsg \notin {PutMsg(k) : k \in outstandingPuts[c]}
        BY RequestsDistinct
    <2> QED
        BY <1>2, <2>1, <2>2
<1>4. outstandingPuts[c] \subseteq Keys
    BY DEF TypeOK
<1>5. \A k \in Keys : PutMsg(k) \in ToSet(toServer'[c]) <=> k \in outstandingPuts[c]
    <2> TAKE k \in Keys
    <2>1. PutMsg(k) \notin {ListenMsg(l, serverCache[c] \cap KeysAt(l)) : l \in Views(c)}
        <3>1. \A l, h : PutMsg(k) # ListenMsg(l, h)
            BY RequestsDistinct
        <3> QED
            BY <3>1
    <2>2. PutMsg(k) \in {PutMsg(j) : j \in outstandingPuts[c]} <=> k \in outstandingPuts[c]
        <3>1. \A j : PutMsg(j) = PutMsg(k) => j = k
            BY RequestsDistinct
        <3> QED
            BY <3>1
    <2> QED
        BY <1>1, <1>2, <2>1, <2>2
<1>6. TokenFirst(c)'
    BY <1>3 DEF TokenFirst
<1>7. PutsOnce(c)'
    <2>1. \A k \in Keys : Once(toServer'[c], {PutMsg(k)})
        BY <1>1, <1>2
    <2>2. \A k \in Keys : Once(toClient'[c], PutAcks(k))
        BY <1>1, OnceAbsent
    <2> QED
        BY <1>1, <1>5, <2>1, <2>2 DEF PutsOnce, CanSendWrites
<1>8. PutsSent(c)'
    BY <1>4, <1>5 DEF PutsSent
<1> QED
    BY <1>6, <1>7, <1>8 DEF ConnectionOf

\* A connection that is lost has nothing in flight.
LEMMA ConnectionLost ==
    ASSUME NEW c \in Clients, connectionState'[c] = "Disconnected",
           toServer'[c] = <<>>, toClient'[c] = <<>>, listening'[c] = {}
    PROVE  ConnectionOf(c)'
<1>1. ToSet(<<>>) = {} /\ \A M : Once(<<>>, M)
    BY SingletonElements, OnceShort
<1>2. TokenFirst(c)'
    BY <1>1 DEF TokenFirst
<1>3. PutsOnce(c)'
    BY <1>1 DEF PutsOnce
<1> QED
    BY <1>2, <1>3 DEF ConnectionOf, PutsSent, CanSendWrites

\* The token goes first.
LEMMA ConnectionToken ==
    ASSUME TypeOK, NEW c \in Clients, ConnectionOf(c), OnReadyWithToken(c)
    PROVE  ConnectionOf(c)'
<1>1. /\ connectionState[c] = "Disconnected" /\ connectionState'[c] = "Authenticating"
      /\ Send(c, AuthMsg)
      /\ toClient'[c] = toClient[c] /\ listening'[c] = listening[c]
    BY DEF OnReadyWithToken, TypeOK, serverVars
<1>2. toServer[c] = <<>> /\ toClient[c] = <<>> /\ listening[c] = {}
    BY <1>1 DEF ConnectionOf, TokenFirst
<1>3. ToSet(<<>>) = {} /\ \A M : Once(<<>>, M)
    BY SingletonElements, OnceShort
<1>4. /\ toServer'[c] # <<>>
      /\ Head(toServer'[c]) = IF toServer[c] = <<>> THEN AuthMsg ELSE Head(toServer[c])
      /\ ToSet(toServer'[c]) = ToSet(toServer[c]) \cup {AuthMsg}
      /\ \A M : Once(toServer[c], M) /\ (AuthMsg \in M => M \cap ToSet(toServer[c]) = {})
                => Once(toServer'[c], M)
    BY <1>1, MessageTypes, SentChannel
<1>5. Head(toServer'[c]) = AuthMsg /\ ToSet(toServer'[c]) = {AuthMsg} /\ \A M : Once(toServer'[c], M)
    BY <1>2, <1>3, <1>4
<1>6. TokenFirst(c)'
    BY <1>1, <1>2, <1>3, <1>4, <1>5 DEF TokenFirst
<1>7. PutsOnce(c)'
    BY <1>1, <1>2, <1>3, <1>5, RequestsDistinct DEF PutsOnce
<1>8. PutsSent(c)'
    BY <1>1 DEF PutsSent, CanSendWrites
<1> QED
    BY <1>6, <1>7, <1>8 DEF ConnectionOf

\* A response to a put takes it out of the puts without a response.
LEMMA ConnectionPutAck ==
    ASSUME TypeOK, NEW c \in Clients, ConnectionOf(c), NEW k \in Keys, NEW ok \in BOOLEAN,
           Received(c, {PutAck(k, ok)}), outstandingPuts'[c] = outstandingPuts[c] \ {k},
           UNCHANGED <<connectionState, toServer, listening>>
    PROVE  ConnectionOf(c)'
<1>0. PICK m : m = PutAck(k, ok)
    OBVIOUS
<1>0a. Received(c, {m}) /\ m # AuthOk /\ m \in PutAcks(k)
    BY <1>0, RepliesDistinct DEF PutAcks
<1>1. /\ connectionState[c] = "Connected"
      /\ AuthMsg \notin ToSet(toServer[c]) /\ AuthOk \notin ToSet(toClient[c])
    BY <1>0a, ReceivingIsConnected DEF ConnectionOf
<1>2. /\ ToSet(toClient[c]) = {m} \cup ToSet(toClient'[c])
      /\ \A M : Once(toClient[c], M) => /\ Once(toClient'[c], M)
                                        /\ m \in M => M \cap ToSet(toClient'[c]) = {}
    BY <1>0a, ReceivedChannel
<1>3. TokenFirst(c)'
    BY <1>1, <1>2 DEF TokenFirst
<1>4. PutAcks(k) \cap ToSet(toClient'[c]) = {}
    BY <1>0a, <1>2 DEF ConnectionOf, PutsOnce
<1>5. PutMsg(k) \notin ToSet(toServer[c])
    BY <1>0a, <1>2 DEF ConnectionOf, PutsOnce
<1>6. \A j \in Keys \ {k} : PutAcks(j) \cap ToSet(toClient'[c]) = PutAcks(j) \cap ToSet(toClient[c])
    <2>1. \A j \in Keys \ {k} : m \notin PutAcks(j)
        <3>1. \A j, p : PutAck(j, p) = PutAck(k, ok) => j = k
            BY RepliesDistinct
        <3> QED
            BY <1>0, <3>1 DEF PutAcks
    <2> QED
        BY <1>2, <2>1
<1>7. PutsOnce(c)'
    BY <1>2, <1>4, <1>5, <1>6 DEF ConnectionOf, PutsOnce, CanSendWrites
<1>8. PutsSent(c)'
    <2>1. outstandingPuts[c] \subseteq Keys
        BY DEF TypeOK
    <2> QED
        BY <1>6, <2>1 DEF ConnectionOf, PutsSent, CanSendWrites
<1> QED
    BY <1>3, <1>7, <1>8 DEF ConnectionOf

\* The server accepts the token before anything else.
LEMMA ConnectionAccepted ==
    ASSUME TypeOK, NEW c \in Clients, ConnectionOf(c), ServeAuth(c)
    PROVE  ConnectionOf(c)'
<1>1. /\ Requested(c, {AuthMsg}) /\ Reply(c, <<AuthOk>>)
      /\ UNCHANGED <<connectionState, outstandingPuts, listening>>
    BY DEF ServeAuth, connVars, serverVars
<1>2. /\ toServer[c] # <<>> /\ Head(toServer[c]) = AuthMsg
      /\ ToSet(toServer[c]) = {AuthMsg} \cup ToSet(toServer'[c])
      /\ \A M : Once(toServer[c], M) => /\ Once(toServer'[c], M)
                                        /\ AuthMsg \in M => M \cap ToSet(toServer'[c]) = {}
    BY <1>1, RequestedChannel
<1>3. connectionState[c] = "Authenticating" /\ Once(toServer[c], {AuthMsg}) /\ AuthOk \notin ToSet(toClient[c])
    BY <1>2 DEF ConnectionOf, TokenFirst
<1>4. toClient[c] = <<>>
    <2>1. toClient[c] \in Seq(ServerMessages)
        BY DEF TypeOK
    <2>2. toClient[c] # <<>> => Head(toClient[c]) \in ToSet(toClient[c])
        BY <2>1, TailElements
    <2> QED
        BY <1>3, <2>2 DEF ConnectionOf, TokenFirst
<1>5. <<AuthOk>> \in Seq(ServerMessages)
    BY MessageTypes, SingletonType
<1>6. toClient'[c] = toClient[c] \o <<AuthOk>>
    BY <1>1, <1>5, RepliedChannel
<1>7. toClient'[c] = <<AuthOk>>
    BY <1>4, <1>5, <1>6
<1>8. ToSet(<<AuthOk>>) = {AuthOk} /\ \A M : Once(<<AuthOk>>, M)
    BY SingletonElements, OnceShort
<1>9. AuthMsg \notin ToSet(toServer'[c])
    BY <1>2, <1>3
<1>9a. Head(<<AuthOk>>) = AuthOk /\ <<AuthOk>> # <<>>
    OBVIOUS
<1>10. TokenFirst(c)'
    BY <1>1, <1>3, <1>7, <1>8, <1>9, <1>9a DEF TokenFirst
<1>11. ~CanSendWrites(c) /\ ~CanSendWrites(c)'
    BY <1>1, <1>3 DEF CanSendWrites
<1>12. \A k \in Keys : PutMsg(k) \notin ToSet(toServer'[c]) /\ PutAcks(k) \cap ToSet(toClient'[c]) = {}
    BY <1>2, <1>7, <1>8, <1>11, RepliesDistinct DEF ConnectionOf, PutsOnce, PutAcks
<1>13. PutsOnce(c)'
    BY <1>2, <1>7, <1>8, <1>12 DEF ConnectionOf, PutsOnce
<1> QED
    BY <1>10, <1>11, <1>13 DEF ConnectionOf, PutsSent

\* The server may send what is neither the acceptance of the token nor the
\* response to a put once the token is accepted.
LEMMA ConnectionExtended ==
    ASSUME TypeOK, NEW c \in Clients, ConnectionOf(c),
           NEW ms \in Seq(ServerMessages), toClient'[c] = toClient[c] \o ms,
           AuthOk \notin ToSet(ms), \A k \in Keys : PutAcks(k) \cap ToSet(ms) = {},
           \/ connectionState[c] = "Connected"
           \/ connectionState[c] = "Authenticating" /\ toClient[c] # <<>>,
           connectionState'[c] = connectionState[c],
           outstandingPuts'[c] = outstandingPuts[c],
           ToSet(toServer'[c]) \subseteq ToSet(toServer[c]),
           \A k \in Keys : PutMsg(k) \in ToSet(toServer[c]) => PutMsg(k) \in ToSet(toServer'[c]),
           \A M : Once(toServer[c], M) => Once(toServer'[c], M)
    PROVE  ConnectionOf(c)'
<1>1. toClient[c] \in Seq(ServerMessages)
    BY DEF TypeOK
<1>2. /\ toClient[c] # <<>> => toClient'[c] # <<>> /\ Head(toClient'[c]) = Head(toClient[c])
      /\ ToSet(toClient'[c]) = ToSet(toClient[c]) \cup ToSet(ms)
    BY <1>1, ExtendedChannel
<1>3. ASSUME NEW M, Once(toClient[c], M), M \cap ToSet(ms) = {}
      PROVE  Once(toClient'[c], M)
    <2>1. Once(ms, M)
        BY <1>3, OnceAbsent
    <2> QED
        BY <1>1, <1>3, <2>1, OnceConcat
<1>4. TokenFirst(c)'
    <2>1. {AuthOk} \cap ToSet(ms) = {}
        OBVIOUS
    <2>2. AuthOk \in ToSet(toClient'[c]) <=> AuthOk \in ToSet(toClient[c])
        BY <1>2
    <2>3. Once(toClient[c], {AuthOk}) => Once(toClient'[c], {AuthOk})
        BY <1>3, <2>1
    <2> QED
        BY <1>2, <2>2, <2>3 DEF ConnectionOf, TokenFirst
<1>5. \A k \in Keys : PutAcks(k) \cap ToSet(toClient'[c]) = PutAcks(k) \cap ToSet(toClient[c])
    BY <1>2
<1>6. \A k \in Keys : Once(toClient'[c], PutAcks(k)) /\ Once(toServer'[c], {PutMsg(k)})
    BY <1>3 DEF ConnectionOf, PutsOnce
<1>7. PutsOnce(c)'
    BY <1>5, <1>6 DEF ConnectionOf, PutsOnce, CanSendWrites
<1>8. PutsSent(c)'
    <2>1. outstandingPuts[c] \subseteq Keys
        BY DEF TypeOK
    <2> QED
        BY <1>5, <2>1 DEF ConnectionOf, PutsSent, CanSendWrites
<1> QED
    BY <1>4, <1>7, <1>8 DEF ConnectionOf

\* The response to a put takes the place of the put.
LEMMA ConnectionAnswered ==
    ASSUME TypeOK, NEW c \in Clients, ConnectionOf(c), NEW k \in Keys, Requested(c, {PutMsg(k)}),
           NEW ms \in Seq(ServerMessages), toClient'[c] = toClient[c] \o ms,
           AuthOk \notin ToSet(ms), PutAcks(k) \cap ToSet(ms) # {}, Once(ms, PutAcks(k)),
           \A j \in Keys \ {k} : PutAcks(j) \cap ToSet(ms) = {},
           connectionState' = connectionState, outstandingPuts' = outstandingPuts
    PROVE  ConnectionOf(c)'
<1>0. PICK m : m = PutMsg(k)
    OBVIOUS
<1>1. /\ ToSet(toServer[c]) = {m} \cup ToSet(toServer'[c])
      /\ \A M : Once(toServer[c], M) => /\ Once(toServer'[c], M)
                                        /\ m \in M => M \cap ToSet(toServer'[c]) = {}
    <2>1. Requested(c, {m})
        BY <1>0
    <2> QED
        BY <2>1, RequestedChannel
<1>2. /\ CanSendWrites(c) /\ connectionState[c] = "Connected" /\ k \in outstandingPuts[c]
      /\ PutAcks(k) \cap ToSet(toClient[c]) = {} /\ PutMsg(k) \notin ToSet(toServer'[c])
    BY <1>0, <1>1 DEF ConnectionOf, PutsOnce, CanSendWrites
<1>3. AuthMsg \notin ToSet(toServer[c]) /\ AuthOk \notin ToSet(toClient[c])
    BY <1>2 DEF ConnectionOf, TokenFirst
<1>4. toClient[c] \in Seq(ServerMessages)
    BY DEF TypeOK
<1>5. ToSet(toClient'[c]) = ToSet(toClient[c]) \cup ToSet(ms)
    BY <1>4, ConcatElements
<1>6. \A j \in Keys : Once(toClient'[c], PutAcks(j))
    <2> TAKE j \in Keys
    <2>1. Once(toClient[c], PutAcks(j))
        BY DEF ConnectionOf, PutsOnce
    <2>2. CASE j = k
        BY <1>2, <1>4, <2>1, <2>2, OnceConcat
    <2>3. CASE j # k
        <3>1. PutAcks(j) \cap ToSet(ms) = {}
            BY <2>3
        <3>2. Once(ms, PutAcks(j))
            BY <3>1, OnceAbsent
        <3> QED
            BY <1>4, <2>1, <3>1, <3>2, OnceConcat
    <2> QED
        BY <2>2, <2>3
<1>7. \A j \in Keys \ {k} : /\ PutAcks(j) \cap ToSet(toClient'[c]) = PutAcks(j) \cap ToSet(toClient[c])
                            /\ PutMsg(j) \in ToSet(toServer'[c]) <=> PutMsg(j) \in ToSet(toServer[c])
    <2>1. \A j \in Keys \ {k} : PutMsg(j) # m
        BY <1>0, RequestsDistinct
    <2> QED
        BY <1>1, <1>5, <2>1
<1>8. TokenFirst(c)'
    BY <1>1, <1>2, <1>3, <1>5 DEF TokenFirst
<1>9. PutAcks(k) \cap ToSet(toClient'[c]) # {}
    BY <1>5
<1>10. PutsOnce(c)'
    <2> SUFFICES ASSUME NEW j \in Keys
                 PROVE  /\ PutMsg(j) \in ToSet(toServer'[c]) \/ PutAcks(j) \cap ToSet(toClient'[c]) # {}
                           => CanSendWrites(c) /\ j \in outstandingPuts[c]
                        /\ Once(toServer'[c], {PutMsg(j)})
                        /\ Once(toClient'[c], PutAcks(j))
                        /\ PutMsg(j) \in ToSet(toServer'[c]) => PutAcks(j) \cap ToSet(toClient'[c]) = {}
        BY DEF PutsOnce, CanSendWrites
    <2>1. Once(toServer'[c], {PutMsg(j)})
        BY <1>1 DEF ConnectionOf, PutsOnce
    <2>2. CASE j = k
        BY <1>2, <1>6, <2>1, <2>2
    <2>3. CASE j # k
        BY <1>6, <1>7, <2>1, <2>3 DEF ConnectionOf, PutsOnce
    <2> QED
        BY <2>2, <2>3
<1>11. PutsSent(c)'
    <2>1. outstandingPuts[c] \subseteq Keys
        BY DEF TypeOK
    <2> QED
        BY <1>7, <1>9, <2>1 DEF ConnectionOf, PutsSent, CanSendWrites
<1> QED
    BY <1>8, <1>10, <1>11 DEF ConnectionOf

\* Every step of a client keeps its connection so.
LEMMA ConnectionOwnStep ==
    ASSUME ConnectionInv, NEW c \in Clients, ClientStep(c)
    PROVE  ConnectionOf(c)'
<1>0. TypeOK /\ ConnectionOf(c)
    BY DEF ConnectionInv, WritesInv
<1>1. CASE \E r \in Observers, l \in Locations : ObserveNew(c, r, l)
    <2>1. PICK r \in Observers, l \in Locations : ObserveNew(c, r, l)
        BY <1>1
    <2>2. UNCHANGED <<connectionState, outstandingPuts, toClient, listening>>
        BY <2>1 DEF ObserveNew, serverVars
    <2>3. CASE Connected(c)
        <3>1. Send(c, ListenMsg(l, {}))
            BY <2>1, <2>3 DEF ObserveNew
        <3>2. {} \in SUBSET Keys
            OBVIOUS
        <3> QED
            BY <1>0, <2>2, <2>3, <3>1, <3>2, ConnectionAsked
    <2>4. CASE ~Connected(c)
        <3>1. toServer' = toServer
            BY <2>1, <2>4 DEF ObserveNew
        <3> QED
            BY <1>0, <2>2, <3>1, ConnectionFrame
    <2> QED
        BY <2>3, <2>4
<1>2. CASE \E r \in Observers, l \in Locations : ObserveExisting(c, r, l)
    BY <1>0, <1>2, ConnectionFrame DEF ObserveExisting, connVars, netVars, serverVars
<1>3. CASE \E k \in Keys : SetValue(c, k)
    BY <1>3, ConnectionPut
<1>4. CASE Dispatch(c)
    BY <1>0, <1>4, ConnectionFrame DEF Dispatch, connVars, netVars, serverVars
<1>5. CASE OnReadyUnauthenticated(c)
    <2>1. /\ connectionState[c] = "Disconnected" /\ connectionState'[c] = "Connected"
          /\ RestoreState(c)
          /\ outstandingPuts'[c] = outstandingPuts[c] /\ toClient'[c] = toClient[c]
        BY <1>0, <1>5 DEF OnReadyUnauthenticated, TypeOK
    <2>2. AuthMsg \notin ToSet(toServer[c]) /\ AuthOk \notin ToSet(toClient[c]) /\ ~CanSendWrites(c)
        BY <1>0, <2>1 DEF ConnectionOf, TokenFirst, CanSendWrites
    <2> QED
        BY <1>0, <2>1, <2>2, ConnectionRestored
<1>6. CASE OnReadyWithToken(c)
    BY <1>0, <1>6, ConnectionToken
<1>7. CASE OnDisconnect(c)
    BY <1>0, <1>7, ConnectionLost DEF OnDisconnect, Disconnect, TypeOK
<1>8. CASE Kill(c)
    BY <1>0, <1>8, ConnectionLost DEF Kill, TypeOK
<1>9. CASE ReceiveAuthOk(c)
    <2>1. /\ Received(c, {AuthOk}) /\ connectionState'[c] = "Connected" /\ RestoreState(c)
          /\ outstandingPuts'[c] = outstandingPuts[c]
        BY <1>0, <1>9 DEF ReceiveAuthOk, TypeOK
    <2>2. /\ ToSet(toClient[c]) = {AuthOk} \cup ToSet(toClient'[c])
          /\ \A M : Once(toClient[c], M) /\ AuthOk \in M => M \cap ToSet(toClient'[c]) = {}
        BY <1>0, <2>1, ReceivedChannel
    <2>3. connectionState[c] = "Authenticating" /\ Once(toClient[c], {AuthOk})
        BY <1>0, <2>2 DEF ConnectionOf, TokenFirst
    <2>4. AuthMsg \notin ToSet(toServer[c])
        BY <1>0, <2>2 DEF ConnectionOf, TokenFirst
    <2>5. AuthOk \notin ToSet(toClient'[c]) /\ ~CanSendWrites(c)
        BY <2>2, <2>3 DEF CanSendWrites
    <2> QED
        BY <1>0, <2>1, <2>2, <2>4, <2>5, ConnectionRestored
<1>10. CASE ReceiveSnapshot(c)
    <2>1. PICK l \in Locations, S \in SUBSET Keys : Received(c, {Snapshot(l, S)})
        BY <1>10 DEF ReceiveSnapshot
    <2>2. Snapshot(l, S) # AuthOk /\ \A k \in Keys : Snapshot(l, S) \notin PutAcks(k)
        BY RepliesDistinct, PutAcksDistinct
    <2>3. UNCHANGED <<connectionState, outstandingPuts, toServer, listening>>
        BY <1>10 DEF ReceiveSnapshot, connVars, serverVars
    <2> QED
        BY <1>0, <2>1, <2>2, <2>3, ConnectionReceived
<1>11. CASE ReceiveChild(c)
    <2>1. PICK k \in Keys : Received(c, {ChildData(k)})
        BY <1>11 DEF ReceiveChild
    <2>2. ChildData(k) # AuthOk /\ \A j \in Keys : ChildData(k) \notin PutAcks(j)
        BY RepliesDistinct, PutAcksDistinct
    <2>3. UNCHANGED <<connectionState, outstandingPuts, toServer, listening>>
        BY <1>11 DEF ReceiveChild, connVars, serverVars
    <2> QED
        BY <1>0, <2>1, <2>2, <2>3, ConnectionReceived
<1>12. CASE ReceiveListenOk(c)
    <2>1. PICK l \in Locations : Received(c, {ListenOk(l)})
        BY <1>12 DEF ReceiveListenOk
    <2>2. ListenOk(l) # AuthOk /\ \A j \in Keys : ListenOk(l) \notin PutAcks(j)
        BY RepliesDistinct, PutAcksDistinct
    <2>3. UNCHANGED <<connectionState, outstandingPuts, toServer, listening>>
        BY <1>12 DEF ReceiveListenOk, serverVars
    <2> QED
        BY <1>0, <2>1, <2>2, <2>3, ConnectionReceived
<1>13. CASE ReceivePutAck(c)
    <2>1. PICK k \in Keys, ok \in BOOLEAN :
              /\ Received(c, {PutAck(k, ok)})
              /\ outstandingPuts' = [outstandingPuts EXCEPT ![c] = @ \ {k}]
              /\ UNCHANGED <<connectionState, toServer, listening>>
        BY <1>13 DEF ReceivePutAck, serverVars
    <2>2. outstandingPuts'[c] = outstandingPuts[c] \ {k}
        BY <1>0, <2>1 DEF TypeOK
    <2> QED
        BY <1>0, <2>1, <2>2, ConnectionPutAck
<1>14. CASE ServeAuth(c)
    BY <1>0, <1>14, ConnectionAccepted
<1>15. CASE ServeListen(c)
    <2>1. PICK l \in Locations, h \in SUBSET Keys :
              /\ Requested(c, {ListenMsg(l, h)})
              /\ Reply(c, ListenReply(l, h))
              /\ UNCHANGED <<connVars, viewVars>>
        BY <1>15 DEF ServeListen, ListenReply
    <2>2. PICK m : m = ListenMsg(l, h)
        OBVIOUS
    <2>3. Requested(c, {m}) /\ m # AuthMsg /\ \A k : m # PutMsg(k)
        BY <2>1, <2>2, RequestsDistinct
    <2>4. /\ ToSet(toServer[c]) = {m} \cup ToSet(toServer'[c])
          /\ \A M : Once(toServer[c], M) => Once(toServer'[c], M)
        BY <1>0, <2>3, RequestedChannel
    <2>5. \/ connectionState[c] = "Connected"
          \/ connectionState[c] = "Authenticating" /\ toClient[c] # <<>>
        BY <1>0, <2>3, ServingAfterToken DEF ConnectionOf
    <2>6. /\ ListenReply(l, h) \in Seq(ServerMessages)
          /\ ToSet(ListenReply(l, h)) \subseteq {ListenOk(l), Snapshot(l, db \cap KeysAt(l))}
        BY <1>0, ListenReplyChannel
    <2>7. toClient'[c] = toClient[c] \o ListenReply(l, h)
        BY <1>0, <2>1, <2>6, RepliedChannel
    <2>8. AuthOk \notin ToSet(ListenReply(l, h))
        BY <2>6, RepliesDistinct
    <2>9. \A k \in Keys : PutAcks(k) \cap ToSet(ListenReply(l, h)) = {}
        <3>1. \A k, ok : PutAck(k, ok) # ListenOk(l) /\ PutAck(k, ok) # Snapshot(l, db \cap KeysAt(l))
            BY RepliesDistinct
        <3> QED
            BY <2>6, <3>1 DEF PutAcks
    <2>10. UNCHANGED <<connectionState, outstandingPuts>>
        BY <2>1 DEF connVars
    <2> QED
        BY <1>0, <2>3, <2>4, <2>5, <2>6, <2>7, <2>8, <2>9, <2>10, ConnectionExtended
<1>16. CASE ServePut(c)
    <2>1. PICK k \in Keys :
              /\ Requested(c, {PutMsg(k)})
              /\ toClient' = [e \in Clients |->
                    toClient[e]
                    \o (IF LocationOf[k] \in listening[e] /\ k \notin db
                        THEN <<ChildData(k)>> ELSE <<>>)
                    \o (IF e = c THEN <<PutAck(k, TRUE)>> ELSE <<>>)]
              /\ UNCHANGED <<connVars, viewVars>>
        BY <1>16 DEF ServePut
    <2>2. toClient'[c] = toClient[c] \o PutReply(c, k, c)
        BY <1>0, <2>1, PutChannel
    <2>3. /\ PutReply(c, k, c) \in Seq(ServerMessages)
          /\ \A m : m \in ToSet(PutReply(c, k, c)) <=>
                        \/ LocationOf[k] \in listening[c] /\ k \notin db /\ m = ChildData(k)
                        \/ m = PutAck(k, TRUE)
          /\ \A M : ChildData(k) \notin M => Once(PutReply(c, k, c), M)
        BY PutReplyChannel
    <2>4. AuthOk \notin ToSet(PutReply(c, k, c))
        BY <2>3, RepliesDistinct
    <2>5. PutAcks(k) \cap ToSet(PutReply(c, k, c)) # {}
        BY <2>3 DEF PutAcks
    <2>6. Once(PutReply(c, k, c), PutAcks(k))
        BY <2>3, PutAcksDistinct
    <2>7. \A j \in Keys \ {k} : PutAcks(j) \cap ToSet(PutReply(c, k, c)) = {}
        <3>1. \A j \in Keys \ {k} : \A ok : PutAck(j, ok) # ChildData(k) /\ PutAck(j, ok) # PutAck(k, TRUE)
            BY RepliesDistinct
        <3> QED
            BY <2>3, <3>1 DEF PutAcks
    <2>8. connectionState' = connectionState /\ outstandingPuts' = outstandingPuts
        BY <2>1 DEF connVars
    <2> QED
        BY <1>0, <2>1, <2>2, <2>3, <2>4, <2>5, <2>6, <2>7, <2>8, ConnectionAnswered
<1>17. CASE ServePutRefused(c)
    <2>1. PICK k \in Keys : Requested(c, {PutMsg(k)}) /\ Reply(c, <<PutAck(k, FALSE)>>)
        BY <1>17 DEF ServePutRefused
    <2>2. /\ <<PutAck(k, FALSE)>> \in Seq(ServerMessages) /\ ToSet(<<PutAck(k, FALSE)>>) = {PutAck(k, FALSE)}
          /\ Once(<<PutAck(k, FALSE)>>, PutAcks(k))
        BY MessageTypes, SingletonType, SingletonElements, OnceShort
    <2>3. toClient'[c] = toClient[c] \o <<PutAck(k, FALSE)>>
        BY <1>0, <2>1, <2>2, RepliedChannel
    <2>4. AuthOk \notin ToSet(<<PutAck(k, FALSE)>>) /\ PutAcks(k) \cap ToSet(<<PutAck(k, FALSE)>>) # {}
        BY <2>2, RepliesDistinct DEF PutAcks
    <2>5. \A j \in Keys \ {k} : PutAcks(j) \cap ToSet(<<PutAck(k, FALSE)>>) = {}
        <3>1. \A j \in Keys \ {k} : \A ok : PutAck(j, ok) # PutAck(k, FALSE)
            BY RepliesDistinct
        <3> QED
            BY <2>2, <3>1 DEF PutAcks
    <2>6. connectionState' = connectionState /\ outstandingPuts' = outstandingPuts
        BY <1>17 DEF ServePutRefused, connVars
    <2> QED
        BY <1>0, <2>1, <2>2, <2>3, <2>4, <2>5, <2>6, ConnectionAnswered
<1> QED
    BY <1>1, <1>2, <1>3, <1>4, <1>5, <1>6, <1>7, <1>8, <1>9, <1>10, <1>11, <1>12, <1>13,
       <1>14, <1>15, <1>16, <1>17 DEF ClientStep

\* What a put of client c puts on the channel of another client d: at most the
\* child it stores, if d listens.
LEMMA PushedChannel ==
    ASSUME TypeOK, NEW c \in Clients, NEW d \in Clients \ {c}, ServePut(c)
    PROVE  \E k \in Keys, ms \in Seq(ServerMessages) :
              /\ Requested(c, {PutMsg(k)}) /\ db' = db \cup {k}
              /\ toClient'[d] = toClient[d] \o ms
              /\ LocationOf[k] \in listening[d] /\ k \notin db => ms = <<ChildData(k)>>
              /\ ~(LocationOf[k] \in listening[d] /\ k \notin db) => ms = <<>>
<1>1. PICK k \in Keys :
          /\ Requested(c, {PutMsg(k)})
          /\ db' = db \cup {k}
          /\ toClient' = [e \in Clients |->
                toClient[e]
                \o (IF LocationOf[k] \in listening[e] /\ k \notin db
                    THEN <<ChildData(k)>> ELSE <<>>)
                \o (IF e = c THEN <<PutAck(k, TRUE)>> ELSE <<>>)]
    BY DEF ServePut
<1>2. toClient'[d] = toClient[d] \o PutReply(c, k, d)
    BY <1>1, PutChannel
<1>3. PutReply(c, k, d) \in Seq(ServerMessages)
    BY PutReplyChannel
<1>4. <<ChildData(k)>> \in Seq(ServerMessages) /\ <<>> \in Seq(ServerMessages)
    BY MessageTypes, SingletonType
<1>5. /\ LocationOf[k] \in listening[d] /\ k \notin db => PutReply(c, k, d) = <<ChildData(k)>>
      /\ ~(LocationOf[k] \in listening[d] /\ k \notin db) => PutReply(c, k, d) = <<>>
    BY <1>4 DEF PutReply
<1> QED
    BY <1>1, <1>2, <1>3, <1>5

\* Every step keeps every connection so.
LEMMA ConnectionStep == ConnectionInv /\ [Next]_dbVars => ConnectionInv'
<1> SUFFICES ASSUME ConnectionInv, [Next]_dbVars
             PROVE  ConnectionInv'
    OBVIOUS
<1>1. ListensInv' /\ WritesInv'
    BY ListensStep, WritesStep DEF ConnectionInv
<1>2. ASSUME NEW d \in Clients
      PROVE  ConnectionOf(d)'
    <2>0. TypeOK /\ ConnectionOf(d)
        BY DEF ConnectionInv, WritesInv
    <2>1. CASE UNCHANGED dbVars
        BY <2>0, <2>1, ConnectionFrame
           DEF dbVars, connVars, viewVars, netVars, serverVars, histVars
    <2>2. ASSUME NEW c \in Clients, c # d, ClientStep(c)
          PROVE  ConnectionOf(d)'
        <3>1. Untouched(d) /\ (~ServePut(c) => toClient'[d] = toClient[d])
            BY <2>0, <2>2, OthersUntouched
        <3>2. CASE ~ServePut(c)
            BY <2>0, <3>1, <3>2, ConnectionFrame DEF Untouched
        <3>3. CASE ServePut(c)
            <4>1. PICK k \in Keys, ms \in Seq(ServerMessages) :
                      /\ toClient'[d] = toClient[d] \o ms
                      /\ LocationOf[k] \in listening[d] /\ k \notin db => ms = <<ChildData(k)>>
                      /\ ~(LocationOf[k] \in listening[d] /\ k \notin db) => ms = <<>>
                BY <2>0, <2>2, <3>3, PushedChannel
            <4>2. CASE LocationOf[k] \in listening[d] /\ k \notin db
                <5>1. ms = <<ChildData(k)>> /\ ToSet(<<ChildData(k)>>) = {ChildData(k)}
                    BY <4>1, <4>2, SingletonElements
                <5>2. AuthOk \notin ToSet(ms) /\ \A j \in Keys : PutAcks(j) \cap ToSet(ms) = {}
                    BY <5>1, RepliesDistinct, PutAcksDistinct
                <5>3. connectionState[d] \in {"Disconnected", "Authenticating", "Connected"}
                    BY <2>0 DEF TypeOK
                <5>4. \/ connectionState[d] = "Connected"
                      \/ connectionState[d] = "Authenticating" /\ toClient[d] # <<>>
                    BY <2>0, <4>2, <5>3 DEF ConnectionOf, TokenFirst
                <5> QED
                    BY <2>0, <3>1, <4>1, <5>2, <5>4, ConnectionExtended DEF Untouched
            <4>3. CASE ~(LocationOf[k] \in listening[d] /\ k \notin db)
                <5>1. toClient[d] \in Seq(ServerMessages) /\ ms = <<>>
                    BY <2>0, <4>1, <4>3 DEF TypeOK
                <5>2. toClient'[d] = toClient[d]
                    BY <4>1, <5>1
                <5> QED
                    BY <2>0, <3>1, <5>2, ConnectionFrame DEF Untouched
            <4> QED
                BY <4>2, <4>3
        <3> QED
            BY <3>2, <3>3
    <2> QED
        BY <2>1, <2>2, ConnectionOwnStep, StepsOfClients
<1> QED
    BY <1>1, <1>2 DEF ConnectionInv

\* At first nothing is connected.
LEMMA ConnectionInit == Init => ConnectionInv
<1> SUFFICES ASSUME Init
             PROVE  ConnectionInv
    OBVIOUS
<1>1. ListensInv
    BY ListensInit
<1>2. WritesInv
    BY TypeInit DEF WritesInv, WritesAccountedFor, PendingAreWritten, Init, AckedKeys
<1>3. ASSUME NEW c \in Clients
      PROVE  ConnectionOf(c)
    <2>1. /\ connectionState[c] = "Disconnected"
          /\ toServer[c] = <<>> /\ toClient[c] = <<>> /\ listening[c] = {}
        BY DEF Init
    <2>2. ToSet(<<>>) = {} /\ \A M : Once(<<>>, M)
        BY SingletonElements, OnceShort
    <2> QED
        BY <2>1, <2>2 DEF ConnectionOf, TokenFirst, PutsOnce, PutsSent, CanSendWrites
<1> QED
    BY <1>1, <1>2, <1>3 DEF ConnectionInv

-----------------------------------------------------------------------------
(* The data: what is in flight only adds to a server cache, and a location *)
(* the server pushes is covered by the cache and what is in flight.        *)

\* The messages that bring the child k.
Carriers(k) ==
    {ChildData(k)} \cup {Snapshot(LocationOf[k], S) : S \in {T \in SUBSET Keys : k \in T}}

Carried(c, k) == Carriers(k) \cap ToSet(toClient[c]) # {}

Asks(c, l) == \E h \in SUBSET Keys : ListenMsg(l, h) \in ToSet(toServer[c])

\* A listen in flight has a hash of nothing but what the client has, and the
\* server pushes to views only.
RequestsViewed(c) ==
    \A l \in Locations :
        /\ \A h \in SUBSET Keys : ListenMsg(l, h) \in ToSet(toServer[c]) => h \subseteq serverCache[c]
        /\ l \in listening[c] => l \in Views(c)

\* Data in flight is for a view and is the server's; a snapshot takes nothing
\* out of the server cache.
DataViewed(c) ==
    /\ \A k \in Keys : ChildData(k) \in ToSet(toClient[c]) => Viewed(c, k) /\ k \in db
    /\ \A l \in Locations, S \in SUBSET Keys :
          Snapshot(l, S) \in ToSet(toClient[c]) =>
              /\ l \in Views(c)
              /\ S \subseteq db \cap KeysAt(l)
              /\ serverCache[c] \cap KeysAt(l) \subseteq S

\* A snapshot has every child that what is ahead of it brings.
DataGrows(c) ==
    \A k \in Keys, S \in SUBSET Keys :
        Before(toClient[c], Carriers(k), Snapshot(LocationOf[k], S)) => k \in S

\* The server cache has nothing but the server's children in views.
CacheViewed(c) == serverCache[c] \subseteq db /\ \A k \in serverCache[c] : Viewed(c, k)

\* The server's children at a location it pushes are in the server cache or on
\* their way.
Covered(c) ==
    \A k \in db : LocationOf[k] \in listening[c] => k \in serverCache[c] \/ Carried(c, k)

DataOf(c) ==
    RequestsViewed(c) /\ DataViewed(c) /\ DataGrows(c) /\ CacheViewed(c) /\ Covered(c)

\* On a connection that can send writes every view is pushed or asked for,
\* and is complete or will be when its listen is answered.
SoonOf(c) ==
    CanSendWrites(c) =>
        \A l \in Views(c) :
            /\ l \in listening[c] \/ Asks(c, l)
            /\ l \in complete[c] \/ Asks(c, l) \/ ListenOk(l) \in ToSet(toClient[c])

\* A view shows the server cache under the pending writes, and only views show
\* something.
OverlayOf(c) ==
    /\ \A k \in eventCache[c] : Viewed(c, k)
    /\ \A l \in Views(c) :
          eventCache[c] \cap KeysAt(l) = (serverCache[c] \cup pendingWrites[c]) \cap KeysAt(l)

ViewsInv ==
    /\ ConnectionInv
    /\ \A c \in Clients : DataOf(c) /\ SoonOf(c) /\ OverlayOf(c)

\* What brings a child, and what does not.
LEMMA CarriersAre ==
    /\ \A k : AuthOk \notin Carriers(k)
    /\ \A k, l : ListenOk(l) \notin Carriers(k)
    /\ \A j, k, ok : PutAck(j, ok) \notin Carriers(k)
    /\ \A j, k : ChildData(j) \in Carriers(k) <=> j = k
    /\ \A k, l : \A S \in SUBSET Keys : Snapshot(l, S) \in Carriers(k) <=> l = LocationOf[k] /\ k \in S
    /\ \A k : \A m \in Carriers(k) : \/ m = ChildData(k)
                                     \/ \E S \in SUBSET Keys : k \in S /\ m = Snapshot(LocationOf[k], S)
<1>1. \A k : \A m \in Carriers(k) : \/ m = ChildData(k)
                                    \/ \E S \in SUBSET Keys : k \in S /\ m = Snapshot(LocationOf[k], S)
    BY DEF Carriers
<1>2. \A k : AuthOk \notin Carriers(k)
    BY <1>1, RepliesDistinct
<1>3. \A k, l : ListenOk(l) \notin Carriers(k)
    <2>1. \A k, l, S : ListenOk(l) # ChildData(k) /\ Snapshot(LocationOf[k], S) # ListenOk(l)
        BY RepliesDistinct
    <2> QED
        BY <1>1, <2>1
<1>4. \A j, k, ok : PutAck(j, ok) \notin Carriers(k)
    <2>1. \A j, k, ok, S : PutAck(j, ok) # ChildData(k) /\ Snapshot(LocationOf[k], S) # PutAck(j, ok)
        BY RepliesDistinct
    <2> QED
        BY <1>1, <2>1
<1>5. \A j, k : ChildData(j) \in Carriers(k) <=> j = k
    <2>1. \A j, k, S : /\ ChildData(j) = ChildData(k) => j = k
                       /\ Snapshot(LocationOf[k], S) # ChildData(j)
        BY RepliesDistinct
    <2>2. \A k : ChildData(k) \in Carriers(k)
        BY DEF Carriers
    <2> QED
        BY <1>1, <2>1, <2>2
<1>6. ASSUME NEW k, NEW l, NEW S \in SUBSET Keys
      PROVE  Snapshot(l, S) \in Carriers(k) <=> l = LocationOf[k] /\ k \in S
    <2>1. Snapshot(l, S) # ChildData(k)
        BY RepliesDistinct
    <2>2. \A R : Snapshot(l, S) = Snapshot(LocationOf[k], R) => l = LocationOf[k] /\ S = R
        BY RepliesDistinct
    <2>3. k \in S => Snapshot(LocationOf[k], S) \in Carriers(k)
        BY DEF Carriers
    <2> QED
        BY <1>1, <2>1, <2>2, <2>3
<1> QED
    BY <1>1, <1>2, <1>3, <1>4, <1>5, <1>6

\* The head is before everything behind it.
LEMMA BeforeHead ==
    ASSUME NEW T, NEW s \in Seq(T), s # <<>>, NEW M, NEW n,
           Head(s) \in M, n \in ToSet(Tail(s))
    PROVE  Before(s, M, n)
<1>1. /\ DOMAIN s = 1..Len(s) /\ Len(s) \in Nat \ {0}
      /\ DOMAIN Tail(s) = 1..(Len(s) - 1)
      /\ \A i \in 1..(Len(s) - 1) : Tail(s)[i] = s[i + 1]
      /\ Head(s) = s[1]
    BY TailIndices
<1>2. PICK j \in DOMAIN Tail(s) : Tail(s)[j] = n
    BY DEF ToSet
<1>3. 1 \in DOMAIN s /\ j + 1 \in DOMAIN s /\ 1 < j + 1 /\ s[1] \in M /\ s[j + 1] = n
    BY <1>1, <1>2
<1> QED
    BY <1>3 DEF Before

\* The message received was before all others.
LEMMA ReceivedFirst ==
    ASSUME TypeOK, NEW c \in Clients, NEW m, Received(c, {m})
    PROVE  \A M, n : m \in M /\ n \in ToSet(toClient'[c]) => Before(toClient[c], M, n)
<1>1. toClient[c] \in Seq(ServerMessages) /\ toClient[c] # <<>> /\ Head(toClient[c]) = m
    BY DEF Received, TypeOK
<1>2. toClient'[c] = Tail(toClient[c])
    BY DEF Received, TypeOK
<1> SUFFICES ASSUME NEW M, NEW n, m \in M, n \in ToSet(toClient'[c])
             PROVE  Before(toClient[c], M, n)
    OBVIOUS
<1> QED
    BY <1>1, <1>2, BeforeHead

\* A step that leaves alone the data in flight, the server cache and the
\* server's data, and loses no view, keeps the data so.
LEMMA DataKept ==
    ASSUME NEW c \in Clients, DataOf(c), db' = db,
           serverCache'[c] = serverCache[c], listening'[c] = listening[c],
           Views(c) \subseteq Views(c)',
           \A l \in Locations, h \in SUBSET Keys :
               ListenMsg(l, h) \in ToSet(toServer'[c]) =>
                   ListenMsg(l, h) \in ToSet(toServer[c]) \/ h \subseteq serverCache[c],
           \A k \in Keys : ChildData(k) \in ToSet(toClient'[c]) => ChildData(k) \in ToSet(toClient[c]),
           \A l \in Locations, S \in SUBSET Keys :
               Snapshot(l, S) \in ToSet(toClient'[c]) => Snapshot(l, S) \in ToSet(toClient[c]),
           \A k \in Keys : Carriers(k) \cap ToSet(toClient[c]) \subseteq ToSet(toClient'[c]),
           \A k \in Keys, S \in SUBSET Keys :
               Before(toClient'[c], Carriers(k), Snapshot(LocationOf[k], S))
               => Before(toClient[c], Carriers(k), Snapshot(LocationOf[k], S)),
           db \subseteq Keys
    PROVE  DataOf(c)'
<1>1. RequestsViewed(c)'
    BY DEF DataOf, RequestsViewed
<1>2. DataViewed(c)'
    BY DEF DataOf, DataViewed, Viewed
<1>3. DataGrows(c)'
    BY DEF DataOf, DataGrows
<1>4. CacheViewed(c)'
    BY DEF DataOf, CacheViewed, Viewed
<1>5. Covered(c)'
    BY DEF DataOf, Covered, Carried
<1> QED
    BY <1>1, <1>2, <1>3, <1>4, <1>5 DEF DataOf

\* Receiving what brings no child keeps the data so.
LEMMA DataReceived ==
    ASSUME TypeOK, NEW c \in Clients, DataOf(c), NEW m, Received(c, {m}),
           \A k \in Keys : m \notin Carriers(k),
           db' = db, serverCache'[c] = serverCache[c], listening'[c] = listening[c],
           Views(c) \subseteq Views(c)',
           \A l \in Locations, h \in SUBSET Keys :
               ListenMsg(l, h) \in ToSet(toServer'[c]) =>
                   ListenMsg(l, h) \in ToSet(toServer[c]) \/ h \subseteq serverCache[c]
    PROVE  DataOf(c)'
<1>1. /\ ToSet(toClient[c]) = {m} \cup ToSet(toClient'[c])
      /\ \A M, n : Before(toClient'[c], M, n) => Before(toClient[c], M, n)
    BY ReceivedChannel
<1>2. \A k \in Keys : Carriers(k) \cap ToSet(toClient[c]) \subseteq ToSet(toClient'[c])
    BY <1>1
<1>3. db \subseteq Keys
    BY DEF TypeOK
<1> QED
    BY <1>1, <1>2, <1>3, DataKept

\* So does the server's sending what brings no child.
LEMMA DataExtended ==
    ASSUME TypeOK, NEW c \in Clients, DataOf(c),
           NEW ms \in Seq(ServerMessages), toClient'[c] = toClient[c] \o ms,
           \A k \in Keys : ChildData(k) \notin ToSet(ms),
           \A l \in Locations, S \in SUBSET Keys : Snapshot(l, S) \notin ToSet(ms),
           db' = db, serverCache'[c] = serverCache[c], listening'[c] = listening[c],
           Views(c) \subseteq Views(c)',
           ToSet(toServer'[c]) \subseteq ToSet(toServer[c])
    PROVE  DataOf(c)'
<1>1. toClient[c] \in Seq(ServerMessages) /\ db \subseteq Keys
    BY DEF TypeOK
<1>2. ToSet(toClient'[c]) = ToSet(toClient[c]) \cup ToSet(ms)
    BY <1>1, ConcatElements
<1>3. ASSUME NEW k \in Keys, NEW S \in SUBSET Keys,
             Before(toClient'[c], Carriers(k), Snapshot(LocationOf[k], S))
      PROVE  Before(toClient[c], Carriers(k), Snapshot(LocationOf[k], S))
    <2>1. LocationOf[k] \in Locations
        BY LocationAssumption
    <2>2. Snapshot(LocationOf[k], S) \notin ToSet(ms)
        BY <2>1
    <2>3. \/ Before(toClient[c], Carriers(k), Snapshot(LocationOf[k], S))
          \/ Before(ms, Carriers(k), Snapshot(LocationOf[k], S))
          \/ Carriers(k) \cap ToSet(toClient[c]) # {} /\ Snapshot(LocationOf[k], S) \in ToSet(ms)
        BY <1>1, <1>3, BeforeConcat
    <2>4. Before(ms, Carriers(k), Snapshot(LocationOf[k], S)) => Snapshot(LocationOf[k], S) \in ToSet(ms)
        BY DEF Before, ToSet
    <2> QED
        BY <2>2, <2>3, <2>4
<1> QED
    BY <1>1, <1>2, <1>3, DataKept

\* A connection that is lost leaves only the server cache.
LEMMA DataLost ==
    ASSUME NEW c \in Clients, DataOf(c), db' = db,
           toServer'[c] = <<>>, toClient'[c] = <<>>, listening'[c] = {},
           \/ serverCache'[c] = {}
           \/ serverCache'[c] = serverCache[c] /\ Views(c)' = Views(c)
    PROVE  DataOf(c)'
<1>1. ToSet(<<>>) = {} /\ \A M, n : ~Before(<<>>, M, n)
    BY SingletonElements, BeforeShort
<1>2. RequestsViewed(c)' /\ DataViewed(c)'
    BY <1>1 DEF RequestsViewed, DataViewed
<1>3. DataGrows(c)' /\ Covered(c)'
    BY <1>1 DEF DataGrows, Covered
<1>4. CacheViewed(c)'
    BY DEF DataOf, CacheViewed, Viewed
<1> QED
    BY <1>2, <1>3, <1>4 DEF DataOf

\* One child received is in the server cache from then on.
LEMMA DataChild ==
    ASSUME TypeOK, NEW c \in Clients, DataOf(c), NEW k \in Keys, Received(c, {ChildData(k)}),
           serverCache'[c] = serverCache[c] \cup {k},
           UNCHANGED <<toServer, registrations, listening, db>>
    PROVE  DataOf(c)' /\ Viewed(c, k) /\ k \in db
<1>0. PICK m : m = ChildData(k)
    OBVIOUS
<1>1. /\ ToSet(toClient[c]) = {m} \cup ToSet(toClient'[c])
      /\ \A M, n : Before(toClient'[c], M, n) => Before(toClient[c], M, n)
    BY <1>0, ReceivedChannel
<1>2. \A M, n : m \in M /\ n \in ToSet(toClient'[c]) => Before(toClient[c], M, n)
    BY <1>0, ReceivedFirst
<1>3. Viewed(c, k) /\ k \in db
    BY <1>0, <1>1 DEF DataOf, DataViewed
<1>4. Views(c)' = Views(c)
    BY DEF Views
<1>5. RequestsViewed(c)'
    BY <1>4 DEF DataOf, RequestsViewed
<1>6. DataViewed(c)'
    <2>1. ASSUME NEW l \in Locations, NEW S \in SUBSET Keys, Snapshot(l, S) \in ToSet(toClient'[c])
          PROVE  serverCache'[c] \cap KeysAt(l) \subseteq S
        <3>1. serverCache[c] \cap KeysAt(l) \subseteq S
            BY <1>1, <2>1 DEF DataOf, DataViewed
        <3>2. CASE k \in KeysAt(l)
            <4>1. l = LocationOf[k] /\ m \in Carriers(k)
                BY <1>0, <3>2, CarriersAre DEF KeysAt
            <4>2. Before(toClient[c], Carriers(k), Snapshot(LocationOf[k], S))
                BY <1>2, <2>1, <4>1
            <4> QED
                BY <3>1, <4>2 DEF DataOf, DataGrows
        <3> QED
            BY <3>1, <3>2
    <2> QED
        BY <1>1, <1>4, <2>1 DEF DataOf, DataViewed, Viewed
<1>7. DataGrows(c)'
    BY <1>1 DEF DataOf, DataGrows
<1>8. CacheViewed(c)'
    BY <1>3, <1>4 DEF DataOf, CacheViewed, Viewed
<1>9. Covered(c)'
    <2>1. ASSUME NEW j \in db, j # k
          PROVE  Carried(c, j) => Carried(c, j)'
        <3>1. m \notin Carriers(j)
            BY <1>0, <2>1, CarriersAre
        <3> QED
            BY <1>1, <3>1 DEF Carried
    <2> QED
        BY <2>1 DEF DataOf, Covered
<1> QED
    BY <1>3, <1>5, <1>6, <1>7, <1>8, <1>9 DEF DataOf

\* A snapshot received is all that the server cache has at its location; it
\* has at least what was there.
LEMMA DataSnapshot ==
    ASSUME TypeOK, NEW c \in Clients, DataOf(c), NEW l \in Locations, NEW S \in SUBSET Keys,
           Received(c, {Snapshot(l, S)}),
           serverCache'[c] = (serverCache[c] \ KeysAt(l)) \cup S,
           UNCHANGED <<toServer, registrations, listening, db>>
    PROVE  /\ DataOf(c)'
           /\ l \in Views(c) /\ S \subseteq KeysAt(l) /\ serverCache[c] \subseteq serverCache'[c]
<1>0. PICK m : m = Snapshot(l, S)
    OBVIOUS
<1>1. /\ ToSet(toClient[c]) = {m} \cup ToSet(toClient'[c])
      /\ \A M, n : Before(toClient'[c], M, n) => Before(toClient[c], M, n)
    BY <1>0, ReceivedChannel
<1>2. \A M, n : m \in M /\ n \in ToSet(toClient'[c]) => Before(toClient[c], M, n)
    BY <1>0, ReceivedFirst
<1>3. l \in Views(c) /\ S \subseteq db \cap KeysAt(l) /\ serverCache[c] \cap KeysAt(l) \subseteq S
    BY <1>0, <1>1 DEF DataOf, DataViewed
<1>3a. serverCache[c] \subseteq serverCache'[c]
    BY <1>3
<1>4. Views(c)' = Views(c)
    BY DEF Views
<1>5. RequestsViewed(c)'
    BY <1>3a, <1>4 DEF DataOf, RequestsViewed
<1>6. DataViewed(c)'
    <2>1. ASSUME NEW p \in Locations, NEW R \in SUBSET Keys, Snapshot(p, R) \in ToSet(toClient'[c])
          PROVE  serverCache'[c] \cap KeysAt(p) \subseteq R
        <3>1. serverCache[c] \cap KeysAt(p) \subseteq R
            BY <1>1, <2>1 DEF DataOf, DataViewed
        <3>2. ASSUME NEW k \in S \cap KeysAt(p)
              PROVE  k \in R
            <4>1. p = LocationOf[k] /\ l = LocationOf[k] /\ k \in Keys
                BY <1>3, <3>2 DEF KeysAt
            <4>2. m \in Carriers(k)
                BY <1>0, <3>2, <4>1, CarriersAre
            <4>3. Before(toClient[c], Carriers(k), Snapshot(LocationOf[k], R))
                BY <1>2, <2>1, <4>1, <4>2
            <4> QED
                BY <4>1, <4>3 DEF DataOf, DataGrows
        <3> QED
            BY <3>1, <3>2
    <2> QED
        BY <1>1, <1>4, <2>1 DEF DataOf, DataViewed, Viewed
<1>7. DataGrows(c)'
    BY <1>1 DEF DataOf, DataGrows
<1>8. CacheViewed(c)'
    <2>1. \A k \in S : LocationOf[k] = l
        BY <1>3 DEF KeysAt
    <2> QED
        BY <1>3, <1>4, <2>1 DEF DataOf, CacheViewed, Viewed
<1>9. Covered(c)'
    <2>1. ASSUME NEW j \in db, j \notin S
          PROVE  Carried(c, j) => Carried(c, j)'
        <3>1. m \notin Carriers(j)
            BY <1>0, <2>1, CarriersAre
        <3> QED
            BY <1>1, <3>1 DEF Carried
    <2> QED
        BY <1>3a, <2>1 DEF DataOf, Covered
<1> QED
    BY <1>3, <1>3a, <1>5, <1>6, <1>7, <1>8, <1>9 DEF DataOf

\* The server's answer to a listen: from then on it pushes the location, and
\* sends the data unless the client has it.
LEMMA DataListen ==
    ASSUME TypeOK, NEW c \in Clients, DataOf(c), NEW l \in Locations, NEW h \in SUBSET Keys,
           l \in Views(c), Requested(c, {ListenMsg(l, h)}),
           toClient'[c] = toClient[c] \o ListenReply(l, h),
           listening'[c] = listening[c] \cup {l},
           serverCache' = serverCache, registrations' = registrations, db' = db
    PROVE  DataOf(c)'
<1> DEFINE S == db \cap KeysAt(l)
<1>0. PICK m : m = ListenMsg(l, h)
    OBVIOUS
<1>1. ToSet(toServer[c]) = {m} \cup ToSet(toServer'[c])
    <2>1. Requested(c, {m})
        BY <1>0
    <2> QED
        BY <2>1, RequestedChannel
<1>2. /\ ListenReply(l, h) \in Seq(ServerMessages)
      /\ ToSet(ListenReply(l, h)) = {ListenOk(l)} \cup (IF S = h THEN {} ELSE {Snapshot(l, S)})
      /\ \A M, n : Before(ListenReply(l, h), M, n) => n = ListenOk(l)
    BY ListenReplyChannel
<1>3. S \in SUBSET Keys /\ S \subseteq db /\ toClient[c] \in Seq(ServerMessages)
    BY DEF TypeOK
<1>3a. db \subseteq Keys
    BY DEF TypeOK
<1>4. ToSet(toClient'[c]) = ToSet(toClient[c]) \cup ToSet(ListenReply(l, h))
    <2>1. \A s, t \in Seq(ServerMessages) : ToSet(s \o t) = ToSet(s) \cup ToSet(t)
        BY ConcatElements
    <2> QED
        BY <1>2, <1>3, <2>1
<1>5. h \subseteq serverCache[c]
    BY <1>0, <1>1 DEF DataOf, RequestsViewed
<1>6. Views(c)' = Views(c)
    BY DEF Views
<1>7. RequestsViewed(c)'
    BY <1>1, <1>6 DEF DataOf, RequestsViewed
<1>8. \A k : ChildData(k) \in ToSet(toClient'[c]) => ChildData(k) \in ToSet(toClient[c])
    <2>1. \A k, p, R : ChildData(k) # ListenOk(p) /\ ChildData(k) # Snapshot(p, R)
        BY RepliesDistinct
    <2> QED
        BY <1>2, <1>4, <2>1
<1>9. \A p \in Locations, R \in SUBSET Keys :
          Snapshot(p, R) \in ToSet(toClient'[c])
          => Snapshot(p, R) \in ToSet(toClient[c]) \/ (p = l /\ R = S)
    <2>1. \A p, R, q, Q : /\ Snapshot(p, R) # ListenOk(q)
                          /\ Snapshot(p, R) = Snapshot(q, Q) => p = q /\ R = Q
        BY RepliesDistinct
    <2> SUFFICES ASSUME NEW p \in Locations, NEW R \in SUBSET Keys,
                        Snapshot(p, R) \in ToSet(toClient'[c]), Snapshot(p, R) \notin ToSet(toClient[c])
                 PROVE  p = l /\ R = S
        OBVIOUS
    <2>2. Snapshot(p, R) \in ToSet(ListenReply(l, h))
        BY <1>4
    <2>3. Snapshot(p, R) = Snapshot(l, S)
        BY <1>2, <2>1, <2>2
    <2> QED
        BY <2>1, <2>3
<1>10. DataViewed(c)'
    <2>1. serverCache[c] \cap KeysAt(l) \subseteq S
        BY DEF DataOf, CacheViewed
    <2> QED
        BY <1>3, <1>6, <1>8, <1>9, <2>1 DEF DataOf, DataViewed, Viewed
<1>11. DataGrows(c)'
    <2> SUFFICES ASSUME NEW k \in Keys, NEW R \in SUBSET Keys,
                        Before(toClient'[c], Carriers(k), Snapshot(LocationOf[k], R))
                 PROVE  k \in R
        BY DEF DataGrows
    <2>1. PICK n : n = Snapshot(LocationOf[k], R)
        OBVIOUS
    <2>2. \/ Before(toClient[c], Carriers(k), n)
          \/ Before(ListenReply(l, h), Carriers(k), n)
          \/ Carriers(k) \cap ToSet(toClient[c]) # {} /\ n \in ToSet(ListenReply(l, h))
        <3>1. PICK M : M = Carriers(k)
            OBVIOUS
        <3>2. PICK t : t = ListenReply(l, h)
            OBVIOUS
        <3>3. t \in Seq(ServerMessages) /\ Before(toClient[c] \o t, M, n)
            BY <1>2, <2>1, <3>1, <3>2
        <3>4. \/ Before(toClient[c], M, n)
              \/ Before(t, M, n)
              \/ M \cap ToSet(toClient[c]) # {} /\ n \in ToSet(t)
            BY <1>3, <3>3, BeforeConcat
        <3> QED
            BY <3>1, <3>2, <3>4
    <2>3. CASE Before(toClient[c], Carriers(k), n)
        BY <2>1, <2>3 DEF DataOf, DataGrows
    <2>4. n # ListenOk(l)
        BY <2>1, RepliesDistinct
    <2>5. CASE Carriers(k) \cap ToSet(toClient[c]) # {} /\ n \in ToSet(ListenReply(l, h))
        <3>1. LocationOf[k] = l /\ R = S
            BY <1>2, <2>1, <2>4, <2>5, RepliesDistinct
        <3>2. k \in db
            <4>1. PICK x \in ToSet(toClient[c]) : x \in Carriers(k)
                BY <2>5
            <4>2. CASE x = ChildData(k)
                BY <4>1, <4>2 DEF DataOf, DataViewed
            <4>3. CASE \E Q \in SUBSET Keys : k \in Q /\ x = Snapshot(LocationOf[k], Q)
                <5>1. LocationOf[k] \in Locations
                    BY <3>1
                <5> QED
                    BY <4>1, <4>3, <5>1 DEF DataOf, DataViewed
            <4> QED
                BY <4>1, <4>2, <4>3, CarriersAre
        <3> QED
            BY <3>1, <3>2 DEF KeysAt
    <2> QED
        BY <1>2, <2>2, <2>3, <2>4, <2>5
<1>12. CacheViewed(c)'
    BY <1>6 DEF DataOf, CacheViewed, Viewed
<1>13. Covered(c)'
    <2> SUFFICES ASSUME NEW k \in db, LocationOf[k] \in listening'[c]
                 PROVE  k \in serverCache[c] \/ Carried(c, k)'
        BY DEF Covered
    <2>1. Carried(c, k) => Carried(c, k)'
        BY <1>4 DEF Carried
    <2>2. CASE LocationOf[k] \in listening[c]
        BY <2>1, <2>2 DEF DataOf, Covered
    <2>3. CASE LocationOf[k] = l
        <3>1. k \in S
            BY <1>3a, <2>3 DEF KeysAt
        <3>2. CASE S = h
            BY <1>5, <3>1, <3>2
        <3>3. CASE S # h
            <4>1. Snapshot(l, S) \in Carriers(k)
                BY <1>3, <2>3, <3>1, CarriersAre
            <4> QED
                BY <1>2, <1>4, <3>3, <4>1 DEF Carried
        <3> QED
            BY <3>2, <3>3
    <2> QED
        BY <2>2, <2>3
<1> QED
    BY <1>7, <1>10, <1>11, <1>12, <1>13 DEF DataOf

\* The server stores a put and pushes it to whoever listens.
LEMMA DataPut ==
    ASSUME TypeOK, NEW d \in Clients, DataOf(d), NEW k \in Keys, db' = db \cup {k},
           NEW ms \in Seq(ServerMessages), toClient'[d] = toClient[d] \o ms,
           \A m \in ToSet(ms) : \/ m = ChildData(k) /\ LocationOf[k] \in listening[d]
                                \/ m \in PutAcks(k),
           LocationOf[k] \in listening[d] /\ k \notin db => ChildData(k) \in ToSet(ms),
           ToSet(toServer'[d]) \subseteq ToSet(toServer[d]),
           serverCache'[d] = serverCache[d], registrations'[d] = registrations[d],
           listening'[d] = listening[d]
    PROVE  DataOf(d)'
<1>1. toClient[d] \in Seq(ServerMessages)
    BY DEF TypeOK
<1>2. ToSet(toClient'[d]) = ToSet(toClient[d]) \cup ToSet(ms)
    BY <1>1, ConcatElements
<1>3. Views(d)' = Views(d)
    BY DEF Views
<1>4. RequestsViewed(d)'
    BY <1>3 DEF DataOf, RequestsViewed
<1>5. ASSUME NEW j \in Keys, ChildData(j) \in ToSet(toClient'[d])
      PROVE  Viewed(d, j) /\ j \in db'
    <2>1. CASE ChildData(j) \in ToSet(toClient[d])
        BY <2>1 DEF DataOf, DataViewed
    <2>2. CASE ChildData(j) \in ToSet(ms)
        <3>1. j = k /\ LocationOf[k] \in listening[d]
            BY <2>2, RepliesDistinct, PutAcksDistinct
        <3>2. LocationOf[k] \in Locations
            BY LocationAssumption
        <3> QED
            BY <3>1, <3>2 DEF DataOf, RequestsViewed, Viewed
    <2> QED
        BY <1>2, <1>5, <2>1, <2>2
<1>6. \A l \in Locations, S \in SUBSET Keys : Snapshot(l, S) \notin ToSet(ms)
    BY RepliesDistinct, PutAcksDistinct
<1>7. DataViewed(d)'
    BY <1>2, <1>3, <1>5, <1>6 DEF DataOf, DataViewed, Viewed
<1>8. DataGrows(d)'
    <2> SUFFICES ASSUME NEW j \in Keys, NEW R \in SUBSET Keys,
                        Before(toClient'[d], Carriers(j), Snapshot(LocationOf[j], R))
                 PROVE  j \in R
        BY DEF DataGrows
    <2>1. \/ Before(toClient[d], Carriers(j), Snapshot(LocationOf[j], R))
          \/ Before(ms, Carriers(j), Snapshot(LocationOf[j], R))
          \/ Carriers(j) \cap ToSet(toClient[d]) # {} /\ Snapshot(LocationOf[j], R) \in ToSet(ms)
        BY <1>1, BeforeConcat
    <2>2. Before(ms, Carriers(j), Snapshot(LocationOf[j], R)) => Snapshot(LocationOf[j], R) \in ToSet(ms)
        BY DEF Before, ToSet
    <2>3. Snapshot(LocationOf[j], R) \notin ToSet(ms)
        BY <1>6, LocationAssumption
    <2> QED
        BY <2>1, <2>2, <2>3 DEF DataOf, DataGrows
<1>9. CacheViewed(d)'
    BY <1>3 DEF DataOf, CacheViewed, Viewed
<1>10. Covered(d)'
    <2>1. \A j : Carried(d, j) => Carried(d, j)'
        BY <1>2 DEF Carried
    <2>2. LocationOf[k] \in listening[d] /\ k \notin db => Carried(d, k)'
        BY <1>2, CarriersAre DEF Carried
    <2> QED
        BY <2>1, <2>2 DEF DataOf, Covered
<1> QED
    BY <1>4, <1>7, <1>8, <1>9, <1>10 DEF DataOf

\* Restoring the state asks for every view with what the client has.
LEMMA RestoredRequests ==
    ASSUME TypeOK, NEW c \in Clients, RestoreState(c)
    PROVE  /\ \A l \in Locations, h \in SUBSET Keys :
                  ListenMsg(l, h) \in ToSet(toServer'[c]) =>
                      ListenMsg(l, h) \in ToSet(toServer[c]) \/ h \subseteq serverCache[c]
           /\ \A l \in Views(c) : Asks(c, l)'
<1>1. ToSet(toServer'[c]) =
          ToSet(toServer[c])
          \cup {ListenMsg(l, serverCache[c] \cap KeysAt(l)) : l \in Views(c)}
          \cup {PutMsg(k) : k \in outstandingPuts[c]}
    BY RestoredChannel
<1>2. ASSUME NEW l \in Locations, NEW h \in SUBSET Keys,
             ListenMsg(l, h) \in ToSet(toServer'[c]), ListenMsg(l, h) \notin ToSet(toServer[c])
      PROVE  h \subseteq serverCache[c]
    <2>1. ListenMsg(l, h) \notin {PutMsg(k) : k \in outstandingPuts[c]}
        BY RequestsDistinct
    <2>2. PICK p \in Views(c) : ListenMsg(l, h) = ListenMsg(p, serverCache[c] \cap KeysAt(p))
        BY <1>1, <1>2, <2>1
    <2>3. h = serverCache[c] \cap KeysAt(p)
        BY <2>2, RequestsDistinct
    <2> QED
        BY <2>3
<1>3. ASSUME NEW l \in Views(c)
      PROVE  Asks(c, l)'
    <2>1. serverCache[c] \cap KeysAt(l) \in SUBSET Keys
        BY DEF KeysAt
    <2>2. ListenMsg(l, serverCache[c] \cap KeysAt(l)) \in ToSet(toServer'[c])
        BY <1>1
    <2> QED
        BY <2>1, <2>2 DEF Asks
<1> QED
    BY <1>2, <1>3

\* Every step of a client keeps its data so.
LEMMA DataOwnStep ==
    ASSUME ViewsInv, NEW c \in Clients, ClientStep(c)
    PROVE  DataOf(c)'
<1>0. TypeOK /\ ConnectionOf(c) /\ ListensOf(c) /\ DataOf(c)
    BY DEF ViewsInv, ConnectionInv, WritesInv, ListensInv
<1>0a. db \subseteq Keys
    BY <1>0 DEF TypeOK
<1>1. ASSUME Views(c) \subseteq Views(c)', UNCHANGED <<db, serverCache, listening, toClient>>,
             \A l \in Locations, h \in SUBSET Keys :
                 ListenMsg(l, h) \in ToSet(toServer'[c]) =>
                     ListenMsg(l, h) \in ToSet(toServer[c]) \/ h \subseteq serverCache[c]
      PROVE  DataOf(c)'
    BY <1>0, <1>0a, <1>1, DataKept
<1>2. CASE \E r \in Observers, l \in Locations : ObserveNew(c, r, l)
    <2>1. PICK r \in Observers, l \in Locations : ObserveNew(c, r, l)
        BY <1>2
    <2>2. UNCHANGED <<db, serverCache, listening, toClient>> /\ Views(c) \subseteq Views(c)'
        BY <1>0, <2>1, ObservedViews DEF ObserveNew, serverVars
    <2>3. CASE Connected(c)
        <3>1. Send(c, ListenMsg(l, {})) /\ ListenMsg(l, {}) \in ClientMessages
            BY <2>1, <2>3, MessageTypes DEF ObserveNew
        <3>2. ToSet(toServer'[c]) = ToSet(toServer[c]) \cup {ListenMsg(l, {})}
            BY <1>0, <3>1, SentChannel
        <3>3. \A p \in Locations, h \in SUBSET Keys : ListenMsg(p, h) = ListenMsg(l, {}) => h = {}
            BY RequestsDistinct
        <3> QED
            BY <1>1, <2>2, <3>2, <3>3
    <2>4. CASE ~Connected(c)
        <3>1. toServer' = toServer
            BY <2>1, <2>4 DEF ObserveNew
        <3> QED
            BY <1>1, <2>2, <3>1
    <2> QED
        BY <2>3, <2>4
<1>3. CASE \E r \in Observers, l \in Locations : ObserveExisting(c, r, l)
    <2>1. PICK r \in Observers, l \in Locations : ObserveExisting(c, r, l)
        BY <1>3
    <2>2. /\ UNCHANGED <<db, serverCache, listening, toClient, toServer>>
          /\ Views(c)' = Views(c)
        BY <1>0, <2>1, ObservedViews DEF ObserveExisting, netVars, serverVars
    <2> QED
        BY <1>1, <2>2
<1>4. CASE \E k \in Keys : SetValue(c, k)
    <2>1. PICK k \in Keys : SetValue(c, k)
        BY <1>4
    <2>2. UNCHANGED <<db, serverCache, listening, toClient, registrations>>
        BY <2>1 DEF SetValue, serverVars
    <2>3. \A l, h : ListenMsg(l, h) \in ToSet(toServer'[c]) => ListenMsg(l, h) \in ToSet(toServer[c])
        <3>1. CASE CanSendWrites(c)
            <4>1. Send(c, PutMsg(k)) /\ PutMsg(k) \in ClientMessages
                BY <2>1, <3>1, MessageTypes DEF SetValue
            <4>2. ToSet(toServer'[c]) = ToSet(toServer[c]) \cup {PutMsg(k)}
                BY <1>0, <4>1, SentChannel
            <4> QED
                BY <4>2, RequestsDistinct
        <3>2. CASE ~CanSendWrites(c)
            BY <2>1, <3>2 DEF SetValue
        <3> QED
            BY <3>1, <3>2
    <2>4. Views(c)' = Views(c)
        BY <2>2 DEF Views
    <2> QED
        BY <1>1, <2>2, <2>3, <2>4
<1>5. CASE Dispatch(c)
    BY <1>1, <1>5 DEF Dispatch, netVars, serverVars, Views
<1>6. CASE OnReadyUnauthenticated(c)
    <2>1. RestoreState(c) /\ UNCHANGED <<db, serverCache, listening, toClient, registrations>>
        BY <1>6 DEF OnReadyUnauthenticated, viewVars, serverVars
    <2>2. Views(c)' = Views(c)
        BY <2>1 DEF Views
    <2>3. \A l \in Locations, h \in SUBSET Keys :
              ListenMsg(l, h) \in ToSet(toServer'[c]) =>
                  ListenMsg(l, h) \in ToSet(toServer[c]) \/ h \subseteq serverCache[c]
        BY <1>0, <2>1, RestoredRequests
    <2> QED
        BY <1>1, <2>1, <2>2, <2>3
<1>7. CASE OnReadyWithToken(c)
    <2>1. Send(c, AuthMsg) /\ UNCHANGED <<db, serverCache, listening, toClient, registrations>>
        BY <1>7 DEF OnReadyWithToken, viewVars, serverVars
    <2>2. Views(c)' = Views(c)
        BY <2>1 DEF Views
    <2>3. ToSet(toServer'[c]) = ToSet(toServer[c]) \cup {AuthMsg}
        BY <1>0, <2>1, MessageTypes, SentChannel
    <2>4. \A l, h : ListenMsg(l, h) \in ToSet(toServer'[c]) => ListenMsg(l, h) \in ToSet(toServer[c])
        BY <2>3, RequestsDistinct
    <2> QED
        BY <1>1, <2>1, <2>2, <2>4
<1>8. CASE OnDisconnect(c)
    <2>1. /\ toServer'[c] = <<>> /\ toClient'[c] = <<>> /\ listening'[c] = {} /\ db' = db
          /\ serverCache'[c] = serverCache[c] /\ registrations' = registrations
        BY <1>0, <1>8 DEF OnDisconnect, Disconnect, viewVars, TypeOK
    <2>2. Views(c)' = Views(c)
        BY <2>1 DEF Views
    <2> QED
        BY <1>0, <2>1, <2>2, DataLost
<1>9. CASE Kill(c)
    <2>1. /\ toServer'[c] = <<>> /\ toClient'[c] = <<>> /\ listening'[c] = {} /\ db' = db
          /\ serverCache'[c] = {}
        BY <1>0, <1>9 DEF Kill, TypeOK
    <2> QED
        BY <1>0, <2>1, DataLost
<1>10. CASE ReceiveAuthOk(c)
    <2>1. /\ Received(c, {AuthOk}) /\ RestoreState(c)
          /\ UNCHANGED <<db, serverCache, listening, registrations>>
        BY <1>10 DEF ReceiveAuthOk, viewVars, serverVars
    <2>2. Views(c)' = Views(c)
        BY <2>1 DEF Views
    <2>3. \A l \in Locations, h \in SUBSET Keys :
              ListenMsg(l, h) \in ToSet(toServer'[c]) =>
                  ListenMsg(l, h) \in ToSet(toServer[c]) \/ h \subseteq serverCache[c]
        BY <1>0, <2>1, RestoredRequests
    <2>4. \A k \in Keys : AuthOk \notin Carriers(k)
        BY CarriersAre
    <2> QED
        BY <1>0, <2>1, <2>2, <2>3, <2>4, DataReceived
<1>11. CASE ReceiveSnapshot(c)
    <2>1. PICK l \in Locations, S \in SUBSET Keys :
              /\ Received(c, {Snapshot(l, S)})
              /\ serverCache' = [serverCache EXCEPT ![c] = (@ \ KeysAt(l)) \cup S]
              /\ UNCHANGED <<toServer, registrations, listening, db>>
        BY <1>11 DEF ReceiveSnapshot, serverVars
    <2>2. serverCache'[c] = (serverCache[c] \ KeysAt(l)) \cup S
        BY <1>0, <2>1 DEF TypeOK
    <2> QED
        BY <1>0, <2>1, <2>2, DataSnapshot
<1>12. CASE ReceiveChild(c)
    <2>1. PICK k \in Keys :
              /\ Received(c, {ChildData(k)})
              /\ serverCache' = [serverCache EXCEPT ![c] = @ \cup {k}]
              /\ UNCHANGED <<toServer, registrations, listening, db>>
        BY <1>12 DEF ReceiveChild, serverVars
    <2>2. serverCache'[c] = serverCache[c] \cup {k}
        BY <1>0, <2>1 DEF TypeOK
    <2> QED
        BY <1>0, <2>1, <2>2, DataChild
<1>13. CASE ReceiveListenOk(c)
    <2>1. PICK l \in Locations : Received(c, {ListenOk(l)})
        BY <1>13 DEF ReceiveListenOk
    <2>2. UNCHANGED <<db, serverCache, listening, registrations, toServer>>
        BY <1>13 DEF ReceiveListenOk, serverVars
    <2>3. \A k \in Keys : ListenOk(l) \notin Carriers(k)
        BY CarriersAre
    <2>4. Views(c)' = Views(c)
        BY <2>2 DEF Views
    <2> QED
        BY <1>0, <2>1, <2>2, <2>3, <2>4, DataReceived
<1>14. CASE ReceivePutAck(c)
    <2>1. PICK k \in Keys, ok \in BOOLEAN : Received(c, {PutAck(k, ok)})
        BY <1>14 DEF ReceivePutAck
    <2>2. UNCHANGED <<db, serverCache, listening, registrations, toServer>>
        BY <1>14 DEF ReceivePutAck, serverVars
    <2>3. \A j \in Keys : PutAck(k, ok) \notin Carriers(j)
        BY CarriersAre
    <2>4. Views(c)' = Views(c)
        BY <2>2 DEF Views
    <2> QED
        BY <1>0, <2>1, <2>2, <2>3, <2>4, DataReceived
<1>15. CASE ServeAuth(c)
    <2>1. /\ Requested(c, {AuthMsg}) /\ Reply(c, <<AuthOk>>)
          /\ UNCHANGED <<db, serverCache, listening, registrations>>
        BY <1>15 DEF ServeAuth, viewVars, serverVars
    <2>2. <<AuthOk>> \in Seq(ServerMessages) /\ ToSet(<<AuthOk>>) = {AuthOk}
        BY MessageTypes, SingletonType, SingletonElements
    <2>3. toClient'[c] = toClient[c] \o <<AuthOk>>
        BY <1>0, <2>1, <2>2, RepliedChannel
    <2>4. ToSet(toServer[c]) = {AuthMsg} \cup ToSet(toServer'[c])
        BY <1>0, <2>1, RequestedChannel
    <2>5. /\ \A k \in Keys : ChildData(k) \notin ToSet(<<AuthOk>>)
          /\ \A l \in Locations, S \in SUBSET Keys : Snapshot(l, S) \notin ToSet(<<AuthOk>>)
        BY <2>2, RepliesDistinct
    <2>6. Views(c)' = Views(c)
        BY <2>1 DEF Views
    <2> QED
        BY <1>0, <2>1, <2>2, <2>3, <2>4, <2>5, <2>6, DataExtended
<1>16. CASE ServeListen(c)
    <2>1. PICK l \in Locations, h \in SUBSET Keys :
              /\ Requested(c, {ListenMsg(l, h)})
              /\ Reply(c, ListenReply(l, h))
              /\ listening' = [listening EXCEPT ![c] = @ \cup {l}]
              /\ UNCHANGED <<serverCache, registrations, db>>
        BY <1>16 DEF ServeListen, ListenReply, viewVars
    <2>2. ListenReply(l, h) \in Seq(ServerMessages)
        BY <1>0, ListenReplyChannel
    <2>3. toClient'[c] = toClient[c] \o ListenReply(l, h)
        BY <1>0, <2>1, <2>2, RepliedChannel
    <2>4. listening'[c] = listening[c] \cup {l}
        BY <1>0, <2>1 DEF TypeOK
    <2>5. l \in Views(c)
        <3>1. toServer[c] \in Seq(ClientMessages) /\ toServer[c] # <<>> /\ Head(toServer[c]) = ListenMsg(l, h)
            BY <1>0, <2>1 DEF Requested, TypeOK
        <3>2. ListenMsg(l, h) \in ToSet(toServer[c])
            BY <3>1, TailElements
        <3> QED
            BY <1>0, <3>2 DEF ListensOf
    <2> QED
        BY <1>0, <2>1, <2>3, <2>4, <2>5, DataListen
<1>17. CASE ServePut(c)
    <2>1. PICK k \in Keys :
              /\ Requested(c, {PutMsg(k)})
              /\ db' = db \cup {k}
              /\ toClient' = [e \in Clients |->
                    toClient[e]
                    \o (IF LocationOf[k] \in listening[e] /\ k \notin db
                        THEN <<ChildData(k)>> ELSE <<>>)
                    \o (IF e = c THEN <<PutAck(k, TRUE)>> ELSE <<>>)]
              /\ UNCHANGED <<serverCache, registrations, listening>>
        BY <1>17 DEF ServePut, viewVars
    <2>2. toClient'[c] = toClient[c] \o PutReply(c, k, c)
        BY <1>0, <2>1, PutChannel
    <2>3. /\ PutReply(c, k, c) \in Seq(ServerMessages)
          /\ \A m : m \in ToSet(PutReply(c, k, c)) <=>
                        \/ LocationOf[k] \in listening[c] /\ k \notin db /\ m = ChildData(k)
                        \/ m = PutAck(k, TRUE)
        BY PutReplyChannel
    <2>4. \A m \in ToSet(PutReply(c, k, c)) : \/ m = ChildData(k) /\ LocationOf[k] \in listening[c]
                                              \/ m \in PutAcks(k)
        BY <2>3 DEF PutAcks
    <2>5. LocationOf[k] \in listening[c] /\ k \notin db => ChildData(k) \in ToSet(PutReply(c, k, c))
        BY <2>3
    <2>6. ToSet(toServer[c]) = {PutMsg(k)} \cup ToSet(toServer'[c])
        BY <1>0, <2>1, RequestedChannel
    <2> QED
        BY <1>0, <2>1, <2>2, <2>3, <2>4, <2>5, <2>6, DataPut
<1>18. CASE ServePutRefused(c)
    <2>1. PICK k \in Keys : Requested(c, {PutMsg(k)}) /\ Reply(c, <<PutAck(k, FALSE)>>)
        BY <1>18 DEF ServePutRefused
    <2>2. /\ <<PutAck(k, FALSE)>> \in Seq(ServerMessages)
          /\ ToSet(<<PutAck(k, FALSE)>>) = {PutAck(k, FALSE)}
        BY MessageTypes, SingletonType, SingletonElements
    <2>3. toClient'[c] = toClient[c] \o <<PutAck(k, FALSE)>>
        BY <1>0, <2>1, <2>2, RepliedChannel
    <2>4. ToSet(toServer[c]) = {PutMsg(k)} \cup ToSet(toServer'[c])
        BY <1>0, <2>1, RequestedChannel
    <2>5. /\ \A j \in Keys : ChildData(j) \notin ToSet(<<PutAck(k, FALSE)>>)
          /\ \A l \in Locations, S \in SUBSET Keys : Snapshot(l, S) \notin ToSet(<<PutAck(k, FALSE)>>)
        <3>1. \A j : ChildData(j) # PutAck(k, FALSE)
            BY RepliesDistinct
        <3>2. \A l, S, j, ok : Snapshot(l, S) # PutAck(j, ok)
            BY RepliesDistinct
        <3> QED
            BY <2>2, <3>1, <3>2
    <2>6. UNCHANGED <<db, serverCache, listening, registrations>>
        BY <1>18 DEF ServePutRefused, viewVars, serverVars
    <2>7. Views(c)' = Views(c)
        BY <2>6 DEF Views
    <2> QED
        BY <1>0, <2>2, <2>3, <2>4, <2>5, <2>6, <2>7, DataExtended
<1> QED
    BY <1>2, <1>3, <1>4, <1>5, <1>6, <1>7, <1>8, <1>9, <1>10, <1>11, <1>12, <1>13,
       <1>14, <1>15, <1>16, <1>17, <1>18 DEF ClientStep

\* A step that takes back no request and no answer keeps what is asked for.
LEMMA SoonKept ==
    ASSUME NEW c \in Clients, SoonOf(c), CanSendWrites(c)' => CanSendWrites(c),
           Views(c)' \subseteq Views(c),
           listening[c] \subseteq listening'[c], complete[c] \subseteq complete'[c],
           \A l \in Locations, h \in SUBSET Keys :
               ListenMsg(l, h) \in ToSet(toServer[c]) => ListenMsg(l, h) \in ToSet(toServer'[c]),
           \A l \in Locations :
               ListenOk(l) \in ToSet(toClient[c])
               => ListenOk(l) \in ToSet(toClient'[c]) \/ l \in complete'[c]
    PROVE  SoonOf(c)'
<1>1. \A l \in Views(c)' : l \in Views(c) /\ l \in Locations
    BY DEF Views
<1>2. \A l \in Locations : Asks(c, l) => Asks(c, l)'
    BY DEF Asks
<1> QED
    BY <1>1, <1>2 DEF SoonOf

\* Every step of a client keeps what is asked for.
LEMMA SoonOwnStep ==
    ASSUME ViewsInv, NEW c \in Clients, ClientStep(c)
    PROVE  SoonOf(c)'
<1>0. TypeOK /\ ConnectionOf(c) /\ ListensOf(c) /\ SoonOf(c)
    BY DEF ViewsInv, ConnectionInv, WritesInv, ListensInv
<1>1. CASE \E r \in Observers, l \in Locations : ObserveNew(c, r, l)
    <2>1. PICK r \in Observers, l \in Locations : ObserveNew(c, r, l)
        BY <1>1
    <2>2. UNCHANGED <<connectionState, complete, listening, toClient>> /\ Views(c)' = Views(c) \cup {l}
        BY <1>0, <2>1, ObservedViews DEF ObserveNew, serverVars
    <2>3. SUFFICES ASSUME CanSendWrites(c)
                   PROVE  SoonOf(c)'
        BY <2>2 DEF SoonOf, CanSendWrites
    <2>4. Send(c, ListenMsg(l, {})) /\ ListenMsg(l, {}) \in ClientMessages
        BY <2>1, <2>3, MessageTypes DEF ObserveNew, CanSendWrites, Connected
    <2>5. ToSet(toServer'[c]) = ToSet(toServer[c]) \cup {ListenMsg(l, {})}
        BY <1>0, <2>4, SentChannel
    <2>6. Asks(c, l)' /\ \A p : Asks(c, p) => Asks(c, p)'
        BY <2>5 DEF Asks
    <2> QED
        BY <1>0, <2>2, <2>3, <2>6 DEF SoonOf
<1>2. CASE \E r \in Observers, l \in Locations : ObserveExisting(c, r, l)
    <2>1. PICK r \in Observers, l \in Locations : ObserveExisting(c, r, l)
        BY <1>2
    <2>2. /\ UNCHANGED <<connectionState, complete, listening, toClient, toServer>>
          /\ Views(c)' = Views(c)
        BY <1>0, <2>1, ObservedViews DEF ObserveExisting, connVars, netVars, serverVars
    <2> QED
        BY <1>0, <2>2, SoonKept DEF CanSendWrites
<1>3. CASE \E k \in Keys : SetValue(c, k)
    <2>1. PICK k \in Keys : SetValue(c, k)
        BY <1>3
    <2>2. UNCHANGED <<connectionState, complete, listening, toClient, registrations>>
        BY <2>1 DEF SetValue, serverVars
    <2>3. ToSet(toServer[c]) \subseteq ToSet(toServer'[c])
        <3>1. CASE CanSendWrites(c)
            <4>1. Send(c, PutMsg(k)) /\ PutMsg(k) \in ClientMessages
                BY <2>1, <3>1, MessageTypes DEF SetValue
            <4>2. ToSet(toServer'[c]) = ToSet(toServer[c]) \cup {PutMsg(k)}
                BY <1>0, <4>1, SentChannel
            <4> QED
                BY <4>2
        <3>2. CASE ~CanSendWrites(c)
            BY <2>1, <3>2 DEF SetValue
        <3> QED
            BY <3>1, <3>2
    <2> QED
        BY <1>0, <2>2, <2>3, SoonKept DEF CanSendWrites, Views
<1>4. CASE Dispatch(c)
    BY <1>0, <1>4, SoonKept DEF Dispatch, connVars, netVars, serverVars, CanSendWrites, Views
<1>5. CASE OnReadyUnauthenticated(c) \/ ReceiveAuthOk(c)
    <2>1. RestoreState(c) /\ registrations' = registrations
        BY <1>5 DEF OnReadyUnauthenticated, ReceiveAuthOk, viewVars
    <2>2. \A l \in Views(c) : Asks(c, l)'
        BY <1>0, <2>1, RestoredRequests
    <2>3. Views(c)' = Views(c)
        BY <2>1 DEF Views
    <2> QED
        BY <2>2, <2>3 DEF SoonOf
<1>6. CASE OnReadyWithToken(c) \/ OnDisconnect(c) \/ Kill(c)
    <2>1. ~CanSendWrites(c)'
        BY <1>0, <1>6 DEF OnReadyWithToken, OnDisconnect, Disconnect, Kill, CanSendWrites, TypeOK
    <2> QED
        BY <2>1 DEF SoonOf
<1>7. ASSUME NEW m, Received(c, {m}), UNCHANGED <<connectionState, registrations, listening, toServer>>,
             complete[c] \subseteq complete'[c],
             \A l \in Locations : m = ListenOk(l) => l \in complete'[c]
      PROVE  SoonOf(c)'
    <2>1. ToSet(toClient[c]) = {m} \cup ToSet(toClient'[c])
        BY <1>0, <1>7, ReceivedChannel
    <2> QED
        BY <1>0, <1>7, <2>1, SoonKept DEF CanSendWrites, Views
<1>8. CASE ReceiveSnapshot(c)
    <2>1. PICK l \in Locations, S \in SUBSET Keys :
              /\ Received(c, {Snapshot(l, S)})
              /\ complete' = [complete EXCEPT ![c] = @ \cup {l}]
              /\ UNCHANGED <<connectionState, registrations, listening, toServer>>
        BY <1>8 DEF ReceiveSnapshot, connVars, serverVars
    <2>2. complete[c] \subseteq complete'[c] /\ \A p \in Locations : Snapshot(l, S) # ListenOk(p)
        BY <1>0, <2>1, RepliesDistinct DEF TypeOK
    <2> QED
        BY <1>7, <2>1, <2>2
<1>9. CASE ReceiveChild(c)
    <2>1. PICK k \in Keys :
              /\ Received(c, {ChildData(k)})
              /\ UNCHANGED <<complete, connectionState, registrations, listening, toServer>>
        BY <1>9 DEF ReceiveChild, connVars, serverVars
    <2>2. \A p \in Locations : ChildData(k) # ListenOk(p)
        BY RepliesDistinct
    <2> QED
        BY <1>7, <2>1, <2>2
<1>10. CASE ReceiveListenOk(c)
    <2>1. PICK l \in Locations :
              /\ Received(c, {ListenOk(l)})
              /\ complete' = [complete EXCEPT ![c] = @ \cup {l}]
              /\ UNCHANGED <<connectionState, registrations, listening, toServer>>
        BY <1>10 DEF ReceiveListenOk, serverVars
    <2>2. complete'[c] = complete[c] \cup {l} /\ \A p \in Locations : ListenOk(l) = ListenOk(p) => l = p
        BY <1>0, <2>1, RepliesDistinct DEF TypeOK
    <2> QED
        BY <1>7, <2>1, <2>2
<1>11. CASE ReceivePutAck(c)
    <2>1. PICK k \in Keys, ok \in BOOLEAN : Received(c, {PutAck(k, ok)})
        BY <1>11 DEF ReceivePutAck
    <2>2. UNCHANGED <<complete, connectionState, registrations, listening, toServer>>
        BY <1>11 DEF ReceivePutAck, serverVars
    <2>3. \A p \in Locations : PutAck(k, ok) # ListenOk(p)
        BY RepliesDistinct
    <2> QED
        BY <1>7, <2>1, <2>2, <2>3
<1>12. ASSUME NEW m, Requested(c, {m}), \A l, h : m # ListenMsg(l, h),
              ToSet(toClient[c]) \subseteq ToSet(toClient'[c]),
              UNCHANGED <<connectionState, registrations, listening, complete>>
       PROVE  SoonOf(c)'
    <2>1. ToSet(toServer[c]) = {m} \cup ToSet(toServer'[c])
        BY <1>0, <1>12, RequestedChannel
    <2> QED
        BY <1>0, <1>12, <2>1, SoonKept DEF CanSendWrites, Views
<1>13. \A ms \in Seq(ServerMessages) :
           ToSet(toClient[c] \o ms) = ToSet(toClient[c]) \cup ToSet(ms)
    <2>1. toClient[c] \in Seq(ServerMessages)
        BY <1>0 DEF TypeOK
    <2> QED
        BY <2>1, ConcatElements
<1>14. CASE ServeAuth(c)
    <2>1. /\ Requested(c, {AuthMsg}) /\ Reply(c, <<AuthOk>>)
          /\ UNCHANGED <<connectionState, registrations, listening, complete>>
        BY <1>14 DEF ServeAuth, connVars, viewVars, serverVars
    <2>2. <<AuthOk>> \in Seq(ServerMessages)
        BY MessageTypes, SingletonType
    <2>3. toClient'[c] = toClient[c] \o <<AuthOk>>
        BY <1>0, <2>1, <2>2, RepliedChannel
    <2>4. ToSet(toClient[c]) \subseteq ToSet(toClient'[c])
        BY <1>13, <2>2, <2>3
    <2> QED
        BY <1>12, <2>1, <2>4, RequestsDistinct
<1>15. CASE ServeListen(c)
    <2>1. PICK l \in Locations, h \in SUBSET Keys :
              /\ Requested(c, {ListenMsg(l, h)})
              /\ Reply(c, ListenReply(l, h))
              /\ listening' = [listening EXCEPT ![c] = @ \cup {l}]
              /\ UNCHANGED <<connectionState, registrations, complete>>
        BY <1>15 DEF ServeListen, ListenReply, connVars, viewVars
    <2>2. /\ ListenReply(l, h) \in Seq(ServerMessages)
          /\ ListenOk(l) \in ToSet(ListenReply(l, h))
        <3>1. /\ ListenReply(l, h) \in Seq(ServerMessages)
              /\ ToSet(ListenReply(l, h)) =
                     {ListenOk(l)} \cup (IF db \cap KeysAt(l) = h THEN {}
                                         ELSE {Snapshot(l, db \cap KeysAt(l))})
            BY <1>0, ListenReplyChannel
        <3> QED
            BY <3>1
    <2>3. toClient'[c] = toClient[c] \o ListenReply(l, h)
        BY <1>0, <2>1, <2>2, RepliedChannel
    <2>4. ToSet(toClient'[c]) = ToSet(toClient[c]) \cup ToSet(ListenReply(l, h))
        BY <1>13, <2>2, <2>3
    <2>5. listening'[c] = listening[c] \cup {l}
        BY <1>0, <2>1 DEF TypeOK
    <2>6. ToSet(toServer[c]) = {ListenMsg(l, h)} \cup ToSet(toServer'[c])
        <3>1. PICK m : m = ListenMsg(l, h)
            OBVIOUS
        <3>2. Requested(c, {m})
            BY <2>1, <3>1
        <3>3. ToSet(toServer[c]) = {m} \cup ToSet(toServer'[c])
            BY <1>0, <3>2, RequestedChannel
        <3> QED
            BY <3>1, <3>3
    <2>7. \A p \in Locations \ {l} : Asks(c, p) => Asks(c, p)'
        <3>1. \A p \in Locations \ {l} : \A g : ListenMsg(p, g) # ListenMsg(l, h)
            BY RequestsDistinct
        <3> QED
            BY <2>6, <3>1 DEF Asks
    <2>8. Views(c)' = Views(c) /\ Views(c) \subseteq Locations
        BY <2>1 DEF Views
    <2> QED
        BY <1>0, <2>1, <2>2, <2>4, <2>5, <2>7, <2>8 DEF SoonOf, CanSendWrites
<1>16. CASE ServePut(c)
    <2>1. PICK k \in Keys :
              /\ Requested(c, {PutMsg(k)})
              /\ toClient' = [e \in Clients |->
                    toClient[e]
                    \o (IF LocationOf[k] \in listening[e] /\ k \notin db
                        THEN <<ChildData(k)>> ELSE <<>>)
                    \o (IF e = c THEN <<PutAck(k, TRUE)>> ELSE <<>>)]
              /\ UNCHANGED <<connectionState, registrations, listening, complete>>
        BY <1>16 DEF ServePut, connVars, viewVars
    <2>2. toClient'[c] = toClient[c] \o PutReply(c, k, c) /\ PutReply(c, k, c) \in Seq(ServerMessages)
        <3>1. PutReply(c, k, c) \in Seq(ServerMessages)
            BY PutReplyChannel
        <3>2. toClient'[c] = toClient[c] \o PutReply(c, k, c)
            BY <1>0, <2>1, PutChannel
        <3> QED
            BY <3>1, <3>2
    <2>3. ToSet(toClient[c]) \subseteq ToSet(toClient'[c])
        BY <1>13, <2>2
    <2> QED
        BY <1>12, <2>1, <2>3, RequestsDistinct
<1>17. CASE ServePutRefused(c)
    <2>1. PICK k \in Keys : /\ Requested(c, {PutMsg(k)}) /\ Reply(c, <<PutAck(k, FALSE)>>)
                            /\ UNCHANGED <<connectionState, registrations, listening, complete>>
        BY <1>17 DEF ServePutRefused, connVars, viewVars, serverVars
    <2>2. <<PutAck(k, FALSE)>> \in Seq(ServerMessages)
        BY MessageTypes, SingletonType
    <2>3. toClient'[c] = toClient[c] \o <<PutAck(k, FALSE)>>
        BY <1>0, <2>1, <2>2, RepliedChannel
    <2>4. ToSet(toClient[c]) \subseteq ToSet(toClient'[c])
        BY <1>13, <2>2, <2>3
    <2> QED
        BY <1>12, <2>1, <2>4, RequestsDistinct
<1> QED
    BY <1>1, <1>2, <1>3, <1>4, <1>5, <1>6, <1>8, <1>9, <1>10, <1>11,
       <1>14, <1>15, <1>16, <1>17 DEF ClientStep

\* Acknowledging takes the writes from under a view: what is not in the server
\* cache goes with them, when the views are complete.
LEMMA OverlayAcked ==
    ASSUME TypeOK, NEW c \in Clients, NEW A, NEW comp, NEW ec \in SUBSET Keys,
           \A k \in ec : Viewed(c, k),
           \A l \in Views(c) : ec \cap KeysAt(l) = (serverCache[c] \cup pendingWrites[c]) \cap KeysAt(l),
           A = {} \/ Views(c) \subseteq comp
    PROVE  /\ \A k \in AckedEventCache(c, A, comp, ec) : Viewed(c, k)
           /\ \A l \in Views(c) :
                 AckedEventCache(c, A, comp, ec) \cap KeysAt(l) =
                     (serverCache[c] \cup (pendingWrites[c] \ AckedKeys(A))) \cap KeysAt(l)
<1> DEFINE acked == {k \in AckedKeys(A) : Viewed(c, k)}
           gone  == {k \in acked \ serverCache[c] : <<k, FALSE>> \in A \/ LocationOf[k] \in comp}
           new   == (ec \cup (acked \cap serverCache[c])) \ gone
<1>1. new = AckedEventCache(c, A, comp, ec)
    BY DEF AckedEventCache
<1>2. \A k \in new : Viewed(c, k)
    OBVIOUS
<1>3. A = {} => AckedKeys(A) = {}
    BY DEF AckedKeys
<1>4. ASSUME NEW l \in Views(c), NEW k \in KeysAt(l)
      PROVE  k \in new <=> k \in serverCache[c] \cup (pendingWrites[c] \ AckedKeys(A))
    <2>1. LocationOf[k] = l /\ Viewed(c, k)
        BY <1>4 DEF KeysAt, Viewed
    <2>2. k \in ec <=> k \in serverCache[c] \cup pendingWrites[c]
        BY <1>4
    <2>3. CASE k \in AckedKeys(A)
        <3>1. k \in acked /\ LocationOf[k] \in comp
            BY <1>3, <1>4, <2>1, <2>3
        <3>2. k \in gone <=> k \notin serverCache[c]
            BY <3>1
        <3> QED
            BY <2>2, <2>3, <3>1, <3>2
    <2>4. CASE k \notin AckedKeys(A)
        <3>1. k \notin acked /\ k \notin gone
            BY <2>4
        <3> QED
            BY <2>2, <2>4, <3>1
    <2> QED
        BY <2>3, <2>4
<1> HIDE DEF new
<1> QED
    BY <1>1, <1>2, <1>4

\* With no listen unanswered every view of a connection that can send writes
\* is complete.
AnsweredIsComplete ==
    \A c \in Clients :
        ListensOf(c) /\ SoonOf(c) /\ CanSendWrites(c) /\ unackedListensCount[c] = 0
        => Views(c) \subseteq complete[c]

LEMMA CompleteWhenAnswered == TypeOK => AnsweredIsComplete
<1> SUFFICES ASSUME TypeOK, NEW c \in Clients, ListensOf(c), SoonOf(c), CanSendWrites(c),
                    unackedListensCount[c] = 0
             PROVE  Views(c) \subseteq complete[c]
    BY DEF AnsweredIsComplete
<1>1. /\ \A l \in Locations, h \in SUBSET Keys : ListenMsg(l, h) \notin ToSet(toServer[c])
      /\ \A l \in Locations : ListenOk(l) \notin ToSet(toClient[c])
    BY CountsAreNatural
<1>2. Views(c) \subseteq Locations
    BY DEF Views
<1> QED
    BY <1>1, <1>2 DEF SoonOf, Asks

\* A step that touches none of a client's caches keeps what it shows.
LEMMA OverlayFrame ==
    ASSUME NEW c \in Clients, OverlayOf(c), Views(c)' = Views(c),
           eventCache'[c] = eventCache[c], serverCache'[c] = serverCache[c],
           pendingWrites'[c] = pendingWrites[c]
    PROVE  OverlayOf(c)'
BY DEF OverlayOf, Viewed

\* Every step of a client keeps what it shows the overlay of its caches.
LEMMA OverlayOwnStep ==
    ASSUME ViewsInv, NEW c \in Clients, ClientStep(c)
    PROVE  OverlayOf(c)'
<1>0. TypeOK /\ ConnectionOf(c) /\ ListensOf(c) /\ DataOf(c) /\ SoonOf(c) /\ OverlayOf(c)
    BY DEF ViewsInv, ConnectionInv, WritesInv, ListensInv
<1>0a. /\ eventCache[c] \subseteq Keys /\ serverCache[c] \subseteq Keys /\ pendingWrites[c] \subseteq Keys
       /\ Views(c) \subseteq Locations
    BY <1>0 DEF TypeOK, Views
<1>0b. SoonOf(c)' /\ TypeOK' /\ ListensOf(c)'
    <2>1. [Next]_dbVars
        BY DEF ClientStep, Next, Observe, OnReady, Receive, Serve
    <2> QED
        BY <1>0, <2>1, SoonOwnStep, TypeStep, ListensStep DEF ViewsInv, ConnectionInv, ListensInv
<1>1. CASE \E r \in Observers, l \in Locations : ObserveNew(c, r, l)
    <2>1. PICK r \in Observers, l \in Locations : ObserveNew(c, r, l)
        BY <1>1
    <2>2. /\ eventCache'[c] = eventCache[c] \cup (pendingWrites[c] \cap KeysAt(l))
          /\ serverCache' = serverCache /\ pendingWrites' = pendingWrites
        BY <1>0, <2>1 DEF ObserveNew, TypeOK
    <2>3. Views(c)' = Views(c) \cup {l} /\ l \notin Views(c)
        BY <1>0, <2>1, ObservedViews
    <2>4. \A k \in KeysAt(l) : k \notin eventCache[c] /\ k \notin serverCache[c]
        BY <1>0, <2>3 DEF OverlayOf, DataOf, CacheViewed, Viewed, KeysAt
    <2>5. \A p \in Views(c) : KeysAt(p) \cap KeysAt(l) = {}
        BY <2>3 DEF KeysAt
    <2>6. \A k \in eventCache'[c] : LocationOf[k] \in Views(c)'
        BY <1>0, <2>2, <2>3 DEF OverlayOf, Viewed, KeysAt
    <2>7. ASSUME NEW p \in Views(c)'
          PROVE  eventCache'[c] \cap KeysAt(p) = (serverCache'[c] \cup pendingWrites'[c]) \cap KeysAt(p)
        <3>1. CASE p = l
            BY <2>2, <2>4, <3>1
        <3>2. CASE p \in Views(c)
            BY <1>0, <2>2, <2>5, <3>2 DEF OverlayOf
        <3> QED
            BY <2>3, <3>1, <3>2
    <2> QED
        BY <2>6, <2>7 DEF OverlayOf, Viewed
<1>2. CASE \E r \in Observers, l \in Locations : ObserveExisting(c, r, l)
    <2>1. PICK r \in Observers, l \in Locations : ObserveExisting(c, r, l)
        BY <1>2
    <2>2. UNCHANGED <<eventCache, serverCache, pendingWrites>> /\ Views(c)' = Views(c)
        BY <1>0, <2>1, ObservedViews DEF ObserveExisting
    <2> QED
        BY <1>0, <2>2, OverlayFrame
<1>3. CASE \E k \in Keys : SetValue(c, k)
    <2>1. PICK k \in Keys : SetValue(c, k)
        BY <1>3
    <2>2. /\ pendingWrites'[c] = pendingWrites[c] \cup {k}
          /\ eventCache'[c] = eventCache[c] \cup (IF Viewed(c, k) THEN {k} ELSE {})
          /\ serverCache' = serverCache /\ registrations' = registrations
        BY <1>0, <2>1 DEF SetValue, TypeOK
    <2>3. Views(c)' = Views(c)
        BY <2>2 DEF Views
    <2>4. \A l \in Views(c) : k \in KeysAt(l) => Viewed(c, k)
        BY DEF KeysAt, Viewed
    <2>5. \A l \in Views(c) :
              eventCache'[c] \cap KeysAt(l) = (serverCache'[c] \cup pendingWrites'[c]) \cap KeysAt(l)
        BY <1>0, <2>2, <2>4 DEF OverlayOf
    <2>6. \A j \in eventCache'[c] : LocationOf[j] \in Views(c)'
        BY <1>0, <2>2, <2>3 DEF OverlayOf, Viewed
    <2> QED
        BY <2>3, <2>5, <2>6 DEF OverlayOf, Viewed
<1>4. ASSUME UNCHANGED <<eventCache, serverCache, pendingWrites, registrations>>
      PROVE  OverlayOf(c)'
    BY <1>0, <1>4, OverlayFrame DEF Views
<1>5. CASE \/ Dispatch(c) \/ OnReadyUnauthenticated(c) \/ OnReadyWithToken(c) \/ OnDisconnect(c)
           \/ ReceiveAuthOk(c) \/ ServeAuth(c) \/ ServeListen(c) \/ ServePut(c) \/ ServePutRefused(c)
    BY <1>4, <1>5 DEF Dispatch, OnReadyUnauthenticated, OnReadyWithToken, OnDisconnect, ReceiveAuthOk,
                      ServeAuth, ServeListen, ServePut, ServePutRefused, viewVars
<1>6. CASE Kill(c)
    <2>1. eventCache'[c] = {} /\ registrations'[c] = [l \in Locations |-> {}]
        BY <1>0, <1>6 DEF Kill, TypeOK
    <2>2. Views(c)' = {}
        BY <2>1 DEF Views
    <2> QED
        BY <2>1, <2>2 DEF OverlayOf
<1>7. CASE ReceiveSnapshot(c)
    <2>1. PICK l \in Locations, S \in SUBSET Keys :
              /\ Received(c, {Snapshot(l, S)})
              /\ serverCache' = [serverCache EXCEPT ![c] = (@ \ KeysAt(l)) \cup S]
              /\ eventCache' = [eventCache EXCEPT ![c] =
                     (@ \ KeysAt(l)) \cup (S \cup (pendingWrites[c] \cap KeysAt(l)))]
              /\ UNCHANGED <<pendingWrites, toServer, registrations, listening, db>>
        BY <1>7 DEF ReceiveSnapshot, serverVars
    <2>2. /\ serverCache'[c] = (serverCache[c] \ KeysAt(l)) \cup S
          /\ eventCache'[c] = (eventCache[c] \ KeysAt(l)) \cup (S \cup (pendingWrites[c] \cap KeysAt(l)))
        BY <1>0, <2>1 DEF TypeOK
    <2>3. l \in Views(c) /\ S \subseteq KeysAt(l)
        BY <1>0, <2>1, <2>2, DataSnapshot
    <2>4. Views(c)' = Views(c)
        BY <2>1 DEF Views
    <2>5. \A k \in eventCache'[c] : LocationOf[k] \in Views(c)
        BY <1>0, <2>2, <2>3 DEF OverlayOf, Viewed, KeysAt
    <2>6. ASSUME NEW p \in Views(c)
          PROVE  eventCache'[c] \cap KeysAt(p) = (serverCache'[c] \cup pendingWrites[c]) \cap KeysAt(p)
        <3>1. CASE p = l
            BY <2>2, <2>3, <3>1
        <3>2. CASE p # l
            <4>1. KeysAt(p) \cap KeysAt(l) = {}
                BY <3>2 DEF KeysAt
            <4>2. eventCache[c] \cap KeysAt(p) = (serverCache[c] \cup pendingWrites[c]) \cap KeysAt(p)
                BY <1>0 DEF OverlayOf
            <4> QED
                BY <2>2, <2>3, <4>1, <4>2
        <3> QED
            BY <3>1, <3>2
    <2> QED
        BY <2>1, <2>4, <2>5, <2>6 DEF OverlayOf, Viewed
<1>8. CASE ReceiveChild(c)
    <2>1. PICK k \in Keys :
              /\ Received(c, {ChildData(k)})
              /\ serverCache' = [serverCache EXCEPT ![c] = @ \cup {k}]
              /\ eventCache' = [eventCache EXCEPT ![c] = @ \cup ({k} \ pendingWrites[c])]
              /\ UNCHANGED <<pendingWrites, toServer, registrations, listening, db>>
        BY <1>8 DEF ReceiveChild, serverVars
    <2>2. /\ serverCache'[c] = serverCache[c] \cup {k}
          /\ eventCache'[c] = eventCache[c] \cup ({k} \ pendingWrites[c])
        BY <1>0, <2>1 DEF TypeOK
    <2>3. Viewed(c, k)
        BY <1>0, <2>1, <2>2, DataChild
    <2>4. Views(c)' = Views(c)
        BY <2>1 DEF Views
    <2>5. \A j \in eventCache'[c] : LocationOf[j] \in Views(c)
        BY <1>0, <2>2, <2>3 DEF OverlayOf, Viewed
    <2>6. ASSUME NEW p \in Views(c)
          PROVE  eventCache'[c] \cap KeysAt(p) = (serverCache'[c] \cup pendingWrites[c]) \cap KeysAt(p)
        <3>1. eventCache[c] \cap KeysAt(p) = (serverCache[c] \cup pendingWrites[c]) \cap KeysAt(p)
            BY <1>0 DEF OverlayOf
        <3> QED
            BY <2>2, <3>1
    <2> QED
        BY <2>1, <2>4, <2>5, <2>6 DEF OverlayOf, Viewed
<1>9. CASE ReceiveListenOk(c)
    <2>1. PICK l \in Locations :
              /\ Received(c, {ListenOk(l)})
              /\ complete' = [complete EXCEPT ![c] = @ \cup {l}]
              /\ unackedListensCount' = [unackedListensCount EXCEPT ![c] = @ - 1]
              /\ LET shown == (serverCache[c] \cup pendingWrites[c]) \cap KeysAt(l)
                     ec    == (eventCache[c] \ KeysAt(l)) \cup shown
                     A     == IF LastListen(c) THEN putsToAck[c] ELSE {}
                 IN  /\ pendingWrites' = [pendingWrites EXCEPT ![c] = @ \ AckedKeys(A)]
                     /\ eventCache' = [eventCache EXCEPT ![c] =
                                          AckedEventCache(c, A, complete[c] \cup {l}, ec)]
              /\ UNCHANGED <<connectionState, serverCache, registrations>>
        BY <1>9 DEF ReceiveListenOk
    <2> DEFINE ec   == (eventCache[c] \ KeysAt(l)) \cup ((serverCache[c] \cup pendingWrites[c]) \cap KeysAt(l))
               A    == IF LastListen(c) THEN putsToAck[c] ELSE {}
               comp == complete[c] \cup {l}
    <2>2. /\ pendingWrites'[c] = pendingWrites[c] \ AckedKeys(A)
          /\ eventCache'[c] = AckedEventCache(c, A, comp, ec)
          /\ complete'[c] = comp
          /\ unackedListensCount'[c] = unackedListensCount[c] - 1
        BY <1>0, <2>1 DEF TypeOK
    <2>3. Views(c)' = Views(c) /\ CanSendWrites(c)' = CanSendWrites(c)
        BY <2>1 DEF Views, CanSendWrites
    <2>4. l \in Views(c)
        <3>1. toClient[c] \in Seq(ServerMessages) /\ toClient[c] # <<>> /\ Head(toClient[c]) = ListenOk(l)
            BY <1>0, <2>1 DEF Received, TypeOK
        <3>2. ListenOk(l) \in ToSet(toClient[c])
            BY <3>1, TailElements
        <3> QED
            BY <1>0, <3>2 DEF ListensOf
    <2>5. A = {} \/ Views(c) \subseteq comp
        <3>1. CASE LastListen(c)
            <4>1. unackedListensCount'[c] = 0
                BY <2>2, <3>1 DEF LastListen
            <4>2. CanSendWrites(c)
                BY <1>0, <2>1, ReceivingIsConnected, RepliesDistinct DEF ConnectionOf
            <4>3. Views(c)' \subseteq complete'[c]
                <5>1. TypeOK' => AnsweredIsComplete'
                    BY CompleteWhenAnswered, PTL
                <5> QED
                    BY <1>0b, <2>3, <4>1, <4>2, <5>1 DEF AnsweredIsComplete
            <4> QED
                BY <2>2, <2>3, <4>3
        <3>2. CASE ~LastListen(c)
            BY <3>2
        <3> QED
            BY <3>1, <3>2
    <2>6. ec \in SUBSET Keys
        BY <1>0a
    <2>7. \A k \in ec : Viewed(c, k)
        BY <1>0, <2>4 DEF OverlayOf, Viewed, KeysAt
    <2>8. ASSUME NEW p \in Views(c)
          PROVE  ec \cap KeysAt(p) = (serverCache[c] \cup pendingWrites[c]) \cap KeysAt(p)
        <3>1. eventCache[c] \cap KeysAt(p) = (serverCache[c] \cup pendingWrites[c]) \cap KeysAt(p)
            BY <1>0 DEF OverlayOf
        <3> QED
            BY <3>1
    <2> HIDE DEF ec, A, comp
    <2>9. /\ \A k \in AckedEventCache(c, A, comp, ec) : Viewed(c, k)
          /\ \A p \in Views(c) :
                 AckedEventCache(c, A, comp, ec) \cap KeysAt(p) =
                     (serverCache[c] \cup (pendingWrites[c] \ AckedKeys(A))) \cap KeysAt(p)
        BY <1>0, <2>5, <2>6, <2>7, <2>8, OverlayAcked
    <2> QED
        BY <2>1, <2>2, <2>3, <2>9 DEF OverlayOf, Viewed
<1>10. CASE ReceivePutAck(c)
    <2>1. PICK k \in Keys, ok \in BOOLEAN :
              /\ Received(c, {PutAck(k, ok)})
              /\ LET answered == IF k \in outstandingPuts[c] THEN {<<k, ok>>} ELSE {}
                     A        == IF AckNow(c) THEN answered ELSE {}
                 IN  /\ pendingWrites' = [pendingWrites EXCEPT ![c] = @ \ AckedKeys(A)]
                     /\ eventCache' = [eventCache EXCEPT ![c] =
                                          AckedEventCache(c, A, complete[c], @)]
              /\ UNCHANGED <<connectionState, serverCache, registrations>>
        BY <1>10 DEF ReceivePutAck
    <2> DEFINE answered == IF k \in outstandingPuts[c] THEN {<<k, ok>>} ELSE {}
               A        == IF AckNow(c) THEN answered ELSE {}
    <2>2. /\ pendingWrites'[c] = pendingWrites[c] \ AckedKeys(A)
          /\ eventCache'[c] = AckedEventCache(c, A, complete[c], eventCache[c])
        BY <1>0, <2>1 DEF TypeOK
    <2>3. Views(c)' = Views(c)
        BY <2>1 DEF Views
    <2>4. A = {} \/ Views(c) \subseteq complete[c]
        <3>1. CASE AckNow(c)
            <4>1. unackedListensCount[c] = 0
                BY <3>1 DEF AckNow
            <4>2. CanSendWrites(c)
                BY <1>0, <2>1, ReceivingIsConnected, RepliesDistinct DEF ConnectionOf
            <4> QED
                BY <1>0, <4>1, <4>2, CompleteWhenAnswered DEF AnsweredIsComplete
        <3>2. CASE ~AckNow(c)
            BY <3>2
        <3> QED
            BY <3>1, <3>2
    <2> HIDE DEF A
    <2>5. /\ \A j \in AckedEventCache(c, A, complete[c], eventCache[c]) : Viewed(c, j)
          /\ \A p \in Views(c) :
                 AckedEventCache(c, A, complete[c], eventCache[c]) \cap KeysAt(p) =
                     (serverCache[c] \cup (pendingWrites[c] \ AckedKeys(A))) \cap KeysAt(p)
        BY <1>0, <1>0a, <2>4, OverlayAcked DEF OverlayOf
    <2> QED
        BY <2>1, <2>2, <2>3, <2>5 DEF OverlayOf, Viewed
<1> QED
    BY <1>1, <1>2, <1>3, <1>5, <1>6, <1>7, <1>8, <1>9, <1>10 DEF ClientStep

\* The step of another client changes what a client keeps only by a push.
LEMMA ViewsOthersStep ==
    ASSUME ViewsInv, NEW c \in Clients, NEW d \in Clients \ {c}, ClientStep(c)
    PROVE  DataOf(d)' /\ SoonOf(d)' /\ OverlayOf(d)'
<1>0. TypeOK /\ DataOf(d) /\ SoonOf(d) /\ OverlayOf(d)
    BY DEF ViewsInv, ConnectionInv, WritesInv
<1>1. Untouched(d) /\ (~ServePut(c) => toClient'[d] = toClient[d])
    BY <1>0, OthersUntouched
<1>2. Views(d)' = Views(d)
    BY <1>1 DEF Untouched, Views
<1>3. OverlayOf(d)'
    BY <1>0, <1>1, <1>2, OverlayFrame DEF Untouched
<1>4. CASE ServePut(c)
    <2>1. PICK k \in Keys, ms \in Seq(ServerMessages) :
              /\ db' = db \cup {k}
              /\ toClient'[d] = toClient[d] \o ms
              /\ LocationOf[k] \in listening[d] /\ k \notin db => ms = <<ChildData(k)>>
              /\ ~(LocationOf[k] \in listening[d] /\ k \notin db) => ms = <<>>
        BY <1>0, <1>4, PushedChannel
    <2>2. ToSet(<<ChildData(k)>>) = {ChildData(k)} /\ ToSet(<<>>) = {}
        BY SingletonElements
    <2>3. /\ \A m \in ToSet(ms) : m = ChildData(k) /\ LocationOf[k] \in listening[d]
          /\ LocationOf[k] \in listening[d] /\ k \notin db => ChildData(k) \in ToSet(ms)
        BY <2>1, <2>2
    <2>4. DataOf(d)'
        BY <1>0, <1>1, <2>1, <2>3, DataPut DEF Untouched
    <2>5. toClient[d] \in Seq(ServerMessages)
        BY <1>0 DEF TypeOK
    <2>6. ToSet(toClient'[d]) = ToSet(toClient[d]) \cup ToSet(ms)
        BY <2>1, <2>5, ConcatElements
    <2>7. SoonOf(d)'
        BY <1>0, <1>1, <1>2, <2>6, SoonKept DEF Untouched, CanSendWrites
    <2> QED
        BY <1>3, <2>4, <2>7
<1>5. CASE ~ServePut(c)
    <2>1. toClient'[d] = toClient[d]
        BY <1>1, <1>5
    <2>2. db' = db
        BY <1>5 DEF ClientStep, ObserveNew, ObserveExisting, SetValue, Dispatch, OnReadyUnauthenticated,
           OnReadyWithToken, OnDisconnect, Kill, ReceiveAuthOk, ReceiveSnapshot, ReceiveChild,
           ReceiveListenOk, ReceivePutAck, ServeAuth, ServeListen, ServePutRefused, serverVars
    <2>3. DataOf(d)'
        <3>1. db \subseteq Keys
            BY <1>0 DEF TypeOK
        <3> QED
            BY <1>0, <1>1, <1>2, <2>1, <2>2, <3>1, DataKept DEF Untouched
    <2>4. SoonOf(d)'
        BY <1>0, <1>1, <1>2, <2>1, SoonKept DEF Untouched, CanSendWrites
    <2> QED
        BY <1>3, <2>3, <2>4
<1> QED
    BY <1>4, <1>5

\* Every step keeps what every client has, asked for and shows.
LEMMA ViewsStep == ViewsInv /\ [Next]_dbVars => ViewsInv'
<1> SUFFICES ASSUME ViewsInv, [Next]_dbVars
             PROVE  ViewsInv'
    OBVIOUS
<1>1. ConnectionInv'
    BY ConnectionStep DEF ViewsInv
<1>2. ASSUME NEW d \in Clients
      PROVE  DataOf(d)' /\ SoonOf(d)' /\ OverlayOf(d)'
    <2>1. CASE UNCHANGED dbVars
        BY <2>1 DEF ViewsInv, dbVars, connVars, viewVars, netVars, serverVars, histVars,
           DataOf, RequestsViewed, DataViewed, DataGrows, CacheViewed, Covered, Carried,
           SoonOf, Asks, OverlayOf, Viewed, Views, CanSendWrites
    <2>2. CASE Next
        <3>1. PICK c \in Clients : ClientStep(c)
            BY <2>2, StepsOfClients
        <3>2. CASE c = d
            BY <3>1, <3>2, DataOwnStep, SoonOwnStep, OverlayOwnStep
        <3>3. CASE c # d
            BY <3>1, <3>3, ViewsOthersStep
        <3> QED
            BY <3>2, <3>3
    <2> QED
        BY <2>1, <2>2
<1> QED
    BY <1>1, <1>2 DEF ViewsInv

\* At first there is nothing.
LEMMA ViewsInit == Init => ViewsInv
<1> SUFFICES ASSUME Init, NEW c \in Clients
             PROVE  DataOf(c) /\ SoonOf(c) /\ OverlayOf(c)
    BY ConnectionInit DEF ViewsInv
<1>1. /\ toServer[c] = <<>> /\ toClient[c] = <<>> /\ listening[c] = {} /\ db = {}
      /\ serverCache[c] = {} /\ eventCache[c] = {} /\ connectionState[c] = "Disconnected"
    BY DEF Init
<1>2. Views(c) = {}
    BY DEF Init, Views
<1>3. ToSet(<<>>) = {} /\ \A M, n : ~Before(<<>>, M, n)
    BY SingletonElements, BeforeShort
<1> QED
    BY <1>1, <1>2, <1>3 DEF DataOf, RequestsViewed, DataViewed, DataGrows, CacheViewed, Covered,
                            SoonOf, CanSendWrites, OverlayOf

\* What FView keeps up to date one event at a time is always the server cache
\* under the pending writes, in every view, through reconnects, responses that
\* were held back and refused writes.
THEOREM ViewsAreOverlays == Spec => []EventCacheIsOverlay
<1>1. ViewsInv => EventCacheIsOverlay
    BY DEF ViewsInv, OverlayOf, EventCacheIsOverlay
<1> QED
    BY <1>1, ViewsInit, ViewsStep, PTL DEF Spec

\* A view shows exactly what the server holds when a connection that can send
\* writes has nothing in flight.
THEOREM QuietViewsAlwaysAgree == Spec => []QuietViewsAgree
<1>1. ViewsInv => QuietViewsAgree
    <2> SUFFICES ASSUME ViewsInv, NEW c \in Clients, CanSendWrites(c),
                        toServer[c] = <<>>, toClient[c] = <<>>, NEW l \in Views(c)
                 PROVE  eventCache[c] \cap KeysAt(l) = db \cap KeysAt(l)
        BY DEF QuietViewsAgree
    <2>1. ToSet(<<>>) = {}
        BY SingletonElements
    <2>2. /\ TypeOK /\ WritesAccountedFor /\ ListensOf(c) /\ ConnectionOf(c)
          /\ DataOf(c) /\ SoonOf(c) /\ OverlayOf(c)
        BY DEF ViewsInv, ConnectionInv, WritesInv, ListensInv
    <2>3. l \in listening[c]
        BY <2>1, <2>2 DEF SoonOf, Asks
    <2>4. db \cap KeysAt(l) \subseteq serverCache[c]
        BY <2>1, <2>2, <2>3 DEF DataOf, Covered, Carried, KeysAt
    <2>5. serverCache[c] \subseteq db
        BY <2>2 DEF DataOf, CacheViewed
    <2>6. outstandingPuts[c] = {}
        BY <2>1, <2>2 DEF ConnectionOf, PutsSent
    <2>7. putsToAck[c] = {}
        <3>1. CountOf(<<>>, {"listen"}) = 0 /\ CountOf(<<>>, {"listenOk"}) = 0
            BY CountShort
        <3> QED
            BY <2>2, <3>1 DEF ListensOf
    <2>8. pendingWrites[c] = {}
        BY <2>2, <2>6, <2>7 DEF WritesAccountedFor, AckedKeys
    <2> QED
        BY <2>2, <2>4, <2>5, <2>8 DEF OverlayOf
<1> QED
    BY <1>1, ViewsInit, ViewsStep, PTL DEF Spec

-----------------------------------------------------------------------------
(* Acknowledgements: a child the server holds never vanishes from a view.  *)

\* The child k, which the server holds, will be in the server cache before the
\* listens of c are answered.
Coming(c, k) ==
    \/ k \in serverCache[c]
    \/ Asks(c, LocationOf[k])
    \/ Before(toClient[c], Carriers(k), ListenOk(LocationOf[k]))

\* So it will before a response on its way is handled, or is when a response
\* is held back.
AcksOf(c) ==
    \A k \in db :
        Viewed(c, k) =>
            /\ \A ok \in BOOLEAN :
                  PutAck(k, ok) \in ToSet(toClient[c])
                  => Coming(c, k) \/ Before(toClient[c], Carriers(k), PutAck(k, ok))
            /\ CanSendWrites(c) /\ k \in AckedKeys(putsToAck[c]) => Coming(c, k)

\* A write is pending in one process only.
PendingOnce ==
    \A c, d \in Clients : c # d => pendingWrites[c] \cap pendingWrites[d] = {}

SavedInv ==
    /\ ViewsInv
    /\ PendingOnce
    /\ \A c \in Clients : AcksOf(c)

\* A step that adds no response and takes back no data keeps what is coming.
LEMMA AcksKept ==
    ASSUME NEW c \in Clients, AcksOf(c), db' = db, db \subseteq Keys,
           CanSendWrites(c)' => CanSendWrites(c),
           Views(c)' \subseteq Views(c), putsToAck'[c] \subseteq putsToAck[c],
           serverCache[c] \subseteq serverCache'[c],
           \A l \in Locations, h \in SUBSET Keys :
               ListenMsg(l, h) \in ToSet(toServer[c]) => ListenMsg(l, h) \in ToSet(toServer'[c]),
           \A k \in Keys, ok \in BOOLEAN :
               PutAck(k, ok) \in ToSet(toClient'[c]) => PutAck(k, ok) \in ToSet(toClient[c]),
           \A k \in Keys : \A n :
               Before(toClient[c], Carriers(k), n)
               => Before(toClient'[c], Carriers(k), n) \/ k \in serverCache'[c]
    PROVE  AcksOf(c)'
<1> SUFFICES ASSUME NEW k \in db, Viewed(c, k)'
             PROVE  /\ \A ok \in BOOLEAN :
                          PutAck(k, ok) \in ToSet(toClient'[c])
                          => Coming(c, k)' \/ Before(toClient'[c], Carriers(k), PutAck(k, ok))
                    /\ CanSendWrites(c)' /\ k \in AckedKeys(putsToAck[c])' => Coming(c, k)'
    BY DEF AcksOf
<1>1. k \in Keys /\ LocationOf[k] \in Locations /\ Viewed(c, k)
    BY LocationAssumption DEF Viewed, Views
<1>2. Asks(c, LocationOf[k]) => Asks(c, LocationOf[k])'
    BY <1>1 DEF Asks
<1>3. Coming(c, k) => Coming(c, k)'
    BY <1>1, <1>2 DEF Coming
<1>4. \A n : Before(toClient[c], Carriers(k), n) => Before(toClient'[c], Carriers(k), n) \/ Coming(c, k)'
    BY <1>1 DEF Coming
<1>5. k \in AckedKeys(putsToAck[c])' => k \in AckedKeys(putsToAck[c])
    BY DEF AckedKeys
<1>6. \A ok \in BOOLEAN :
          PutAck(k, ok) \in ToSet(toClient'[c])
          => Coming(c, k)' \/ Before(toClient'[c], Carriers(k), PutAck(k, ok))
    BY <1>1, <1>3, <1>4 DEF AcksOf
<1>7. CanSendWrites(c)' /\ k \in AckedKeys(putsToAck[c])' => Coming(c, k)'
    BY <1>1, <1>3, <1>5 DEF AcksOf
<1> QED
    BY <1>6, <1>7

\* With every view asked for, everything is coming.
LEMMA AcksAsked ==
    ASSUME NEW c \in Clients, \A l \in Views(c)' : Asks(c, l)'
    PROVE  AcksOf(c)'
BY DEF AcksOf, Coming, Viewed

\* Nothing is in flight, and nothing can be acknowledged, without a connection.
LEMMA AcksLost ==
    ASSUME NEW c \in Clients, toClient'[c] = <<>>, ~CanSendWrites(c)'
    PROVE  AcksOf(c)'
BY SingletonElements DEF AcksOf

\* Receiving what is not the response to a put keeps what is coming, or the
\* message brought it.
LEMMA AcksReceived ==
    ASSUME TypeOK, NEW c \in Clients, AcksOf(c), NEW m, Received(c, {m}),
           UNCHANGED <<db, connectionState, registrations, toServer>>,
           putsToAck'[c] \subseteq putsToAck[c],
           serverCache[c] \subseteq serverCache'[c],
           \A k \in Keys : m \in Carriers(k) => k \in serverCache'[c]
    PROVE  AcksOf(c)'
<1>1. /\ ToSet(toClient[c]) = {m} \cup ToSet(toClient'[c])
      /\ \A M, n : Before(toClient[c], M, n) =>
                       /\ n \in ToSet(toClient'[c])
                       /\ Before(toClient'[c], M, n) \/ m \in M
    BY ReceivedChannel
<1>2. db \subseteq Keys /\ Views(c)' = Views(c) /\ CanSendWrites(c)' = CanSendWrites(c)
    BY DEF TypeOK, Views, CanSendWrites
<1>3. \A k \in Keys : \A n :
          Before(toClient[c], Carriers(k), n)
          => Before(toClient'[c], Carriers(k), n) \/ k \in serverCache'[c]
    BY <1>1
<1> QED
    BY <1>1, <1>2, <1>3, AcksKept

\* A response that is held back had its child ahead of it, or has it coming.
LEMMA AcksHeld ==
    ASSUME TypeOK, NEW c \in Clients, AcksOf(c), PutsOnce(c),
           NEW k \in Keys, NEW ok \in BOOLEAN, Received(c, {PutAck(k, ok)}),
           UNCHANGED <<db, connectionState, registrations, toServer, serverCache>>,
           putsToAck'[c] \subseteq putsToAck[c] \cup {<<k, ok>>}
    PROVE  AcksOf(c)'
<1>0. PICK m : m = PutAck(k, ok)
    OBVIOUS
<1>1. /\ ToSet(toClient[c]) = {m} \cup ToSet(toClient'[c])
      /\ \A M, n : Before(toClient[c], M, n) =>
                       /\ n \in ToSet(toClient'[c])
                       /\ Before(toClient'[c], M, n) \/ m \in M
      /\ \A M : Once(toClient[c], M) => /\ Once(toClient'[c], M)
                                        /\ m \in M => M \cap ToSet(toClient'[c]) = {}
    BY <1>0, ReceivedChannel
<1>2. \A j : m \notin Carriers(j)
    BY <1>0, CarriersAre
<1>3. \A j, n : Before(toClient[c], Carriers(j), n) => Before(toClient'[c], Carriers(j), n)
    BY <1>1, <1>2
<1>4. m \notin ToSet(toClient'[c])
    <2>1. m \in PutAcks(k)
        BY <1>0 DEF PutAcks
    <2> QED
        BY <1>1, <2>1 DEF PutsOnce
<1>5. Views(c)' = Views(c) /\ CanSendWrites(c)' = CanSendWrites(c) /\ db \subseteq Keys
    BY DEF TypeOK, Views, CanSendWrites
<1> SUFFICES ASSUME NEW j \in db, Viewed(c, j)'
             PROVE  /\ \A o \in BOOLEAN :
                          PutAck(j, o) \in ToSet(toClient'[c])
                          => Coming(c, j)' \/ Before(toClient'[c], Carriers(j), PutAck(j, o))
                    /\ CanSendWrites(c)' /\ j \in AckedKeys(putsToAck[c])' => Coming(c, j)'
    BY DEF AcksOf
<1>6. Viewed(c, j)
    BY <1>5 DEF Viewed
<1>7. Coming(c, j) => Coming(c, j)'
    BY <1>3 DEF Coming, Asks
<1>8. \A o \in BOOLEAN :
          PutAck(j, o) \in ToSet(toClient'[c])
          => Coming(c, j)' \/ Before(toClient'[c], Carriers(j), PutAck(j, o))
    BY <1>1, <1>3, <1>6, <1>7 DEF AcksOf
<1>9. ASSUME CanSendWrites(c)', j \in AckedKeys(putsToAck[c])'
      PROVE  Coming(c, j)'
    <2>1. CASE j \in AckedKeys(putsToAck[c])
        BY <1>5, <1>6, <1>7, <1>9, <2>1 DEF AcksOf
    <2>2. CASE j \notin AckedKeys(putsToAck[c])
        <3>1. j = k
            BY <1>9, <2>2 DEF AckedKeys
        <3>2. m \in ToSet(toClient[c])
            BY <1>1
        <3>3. Coming(c, j) \/ Before(toClient[c], Carriers(j), m)
            BY <1>0, <1>6, <3>1, <3>2 DEF AcksOf
        <3>4. ~Before(toClient[c], Carriers(j), m)
            BY <1>1, <1>4
        <3> QED
            BY <1>7, <3>3, <3>4
    <2> QED
        BY <2>1, <2>2
<1> QED
    BY <1>8, <1>9

\* The answer to a listen brings what the client does not have before it
\* completes the location.
LEMMA AcksListened ==
    ASSUME TypeOK, NEW c \in Clients, AcksOf(c), DataOf(c),
           NEW l \in Locations, NEW h \in SUBSET Keys, Requested(c, {ListenMsg(l, h)}),
           toClient'[c] = toClient[c] \o ListenReply(l, h),
           UNCHANGED <<db, connectionState, registrations, serverCache, putsToAck>>
    PROVE  AcksOf(c)'
<1> DEFINE S == db \cap KeysAt(l)
<1>0. PICK m : m = ListenMsg(l, h)
    OBVIOUS
<1>1. ToSet(toServer[c]) = {m} \cup ToSet(toServer'[c])
    <2>1. Requested(c, {m})
        BY <1>0
    <2> QED
        BY <2>1, RequestedChannel
<1>2. PICK t : t = ListenReply(l, h)
    OBVIOUS
<1>3. /\ t \in Seq(ServerMessages)
      /\ ToSet(t) = {ListenOk(l)} \cup (IF S = h THEN {} ELSE {Snapshot(l, S)})
      /\ \A M : S # h /\ Snapshot(l, S) \in M => Before(t, M, ListenOk(l))
    BY <1>2, ListenReplyChannel
<1>4. S \in SUBSET Keys /\ toClient[c] \in Seq(ServerMessages) /\ db \subseteq Keys
    BY DEF TypeOK
<1>5. ToSet(toClient'[c]) = ToSet(toClient[c]) \cup ToSet(t)
    BY <1>2, <1>3, <1>4, ConcatElements
<1>6. \A M, n : /\ Before(toClient[c], M, n) => Before(toClient'[c], M, n)
                /\ Before(t, M, n) => Before(toClient'[c], M, n)
    <2> TAKE M, n
    <2>1. /\ Before(toClient[c], M, n) => Before(toClient[c] \o t, M, n)
          /\ Before(t, M, n) => Before(toClient[c] \o t, M, n)
        BY <1>3, <1>4, BeforeConcat
    <2> QED
        BY <1>2, <2>1
<1>7. h \subseteq serverCache[c]
    BY <1>0, <1>1 DEF DataOf, RequestsViewed
<1>8. ASSUME NEW k \in db, Coming(c, k)
      PROVE  Coming(c, k)'
    <2>1. CASE LocationOf[k] = l
        <3>1. k \in S
            BY <1>4, <2>1 DEF KeysAt
        <3>2. CASE S = h
            BY <1>7, <3>1, <3>2 DEF Coming
        <3>3. CASE S # h
            <4>1. Snapshot(l, S) \in Carriers(k)
                BY <1>4, <2>1, <3>1, CarriersAre
            <4>2. Before(t, Carriers(k), ListenOk(l))
                BY <1>3, <3>3, <4>1
            <4> QED
                BY <1>6, <2>1, <4>2 DEF Coming
        <3> QED
            BY <3>2, <3>3
    <2>2. CASE LocationOf[k] # l
        <3>1. \A g : ListenMsg(LocationOf[k], g) # m
            BY <1>0, <2>2, RequestsDistinct
        <3>2. Asks(c, LocationOf[k]) => Asks(c, LocationOf[k])'
            BY <1>1, <3>1 DEF Asks
        <3> QED
            BY <1>6, <1>8, <3>2 DEF Coming
    <2> QED
        BY <2>1, <2>2
<1>9. \A k, ok : PutAck(k, ok) \notin ToSet(t)
    <2>1. \A k, ok, p, R : PutAck(k, ok) # ListenOk(p) /\ PutAck(k, ok) # Snapshot(p, R)
        BY RepliesDistinct
    <2> HIDE DEF S
    <2> QED
        BY <1>3, <2>1
<1>10. CanSendWrites(c)' = CanSendWrites(c) /\ \A k : Viewed(c, k)' = Viewed(c, k)
    BY DEF CanSendWrites, Viewed, Views
<1> HIDE DEF S
<1> QED
    BY <1>5, <1>6, <1>8, <1>9, <1>10 DEF AcksOf

\* A response comes behind the data of its child, unless the child is there or
\* asked for.
LEMMA AcksAnswered ==
    ASSUME TypeOK, NEW c \in Clients, AcksOf(c), DataOf(c), SoonOf(c), PutsOnce(c),
           WritesAccountedFor,
           NEW k \in Keys, NEW ok \in BOOLEAN, Requested(c, {PutMsg(k)}),
           NEW ms \in Seq(ServerMessages), toClient'[c] = toClient[c] \o ms,
           PutAck(k, ok) \in ToSet(ms),
           \A j \in Keys, o \in BOOLEAN : PutAck(j, o) \in ToSet(ms) => j = k /\ o = ok,
           db' = db \/ db' = db \cup {k},
           k \in db' \ db /\ LocationOf[k] \in listening[c]
           => Before(ms, Carriers(k), PutAck(k, ok)),
           UNCHANGED <<connectionState, registrations, serverCache, putsToAck>>
    PROVE  AcksOf(c)'
<1>0. PICK m : m = PutMsg(k)
    OBVIOUS
<1>1. ToSet(toServer[c]) = {m} \cup ToSet(toServer'[c])
    <2>1. Requested(c, {m})
        BY <1>0
    <2> QED
        BY <2>1, RequestedChannel
<1>2. toClient[c] \in Seq(ServerMessages) /\ db \subseteq Keys
    BY DEF TypeOK
<1>3. ToSet(toClient'[c]) = ToSet(toClient[c]) \cup ToSet(ms)
    BY <1>2, ConcatElements
<1>4. \A M, n : /\ Before(toClient[c], M, n) => Before(toClient'[c], M, n)
                /\ Before(ms, M, n) => Before(toClient'[c], M, n)
                /\ M \cap ToSet(toClient[c]) # {} /\ n \in ToSet(ms) => Before(toClient'[c], M, n)
    <2> TAKE M, n
    <2>1. /\ Before(toClient[c], M, n) => Before(toClient[c] \o ms, M, n)
          /\ Before(ms, M, n) => Before(toClient[c] \o ms, M, n)
          /\ M \cap ToSet(toClient[c]) # {} /\ n \in ToSet(ms) => Before(toClient[c] \o ms, M, n)
        BY <1>2, BeforeConcat
    <2> QED
        BY <2>1
<1>5. \A l : Asks(c, l) => Asks(c, l)'
    <2>1. \A l, h : ListenMsg(l, h) # m
        BY <1>0, RequestsDistinct
    <2> QED
        BY <1>1, <2>1 DEF Asks
<1>6. \A j : Coming(c, j) => Coming(c, j)'
    BY <1>4, <1>5 DEF Coming
<1>7. CanSendWrites(c) /\ k \in outstandingPuts[c] /\ PutAcks(k) \cap ToSet(toClient[c]) = {}
    BY <1>0, <1>1 DEF PutsOnce
<1>8. k \notin AckedKeys(putsToAck[c])
    BY <1>7 DEF WritesAccountedFor
<1>9. CanSendWrites(c)' = CanSendWrites(c) /\ (\A j : Viewed(c, j)' = Viewed(c, j))
      /\ AckedKeys(putsToAck[c])' = AckedKeys(putsToAck[c])
    BY DEF CanSendWrites, Viewed, Views, AckedKeys
<1>10. \A o \in BOOLEAN : PutAck(k, o) \notin ToSet(toClient[c])
    BY <1>7 DEF PutAcks
<1>11. ASSUME k \in db', Viewed(c, k)
       PROVE  Coming(c, k)' \/ Before(toClient'[c], Carriers(k), PutAck(k, ok))
    <2>1. LocationOf[k] \in listening[c] \/ Asks(c, LocationOf[k])
        BY <1>7, <1>11 DEF SoonOf, Viewed
    <2>2. CASE Asks(c, LocationOf[k])
        BY <1>6, <2>2 DEF Coming
    <2>3. CASE LocationOf[k] \in listening[c] /\ k \in db
        <3>1. k \in serverCache[c] \/ Carriers(k) \cap ToSet(toClient[c]) # {}
            BY <2>3 DEF DataOf, Covered, Carried
        <3> QED
            BY <1>4, <3>1 DEF Coming
    <2>4. CASE LocationOf[k] \in listening[c] /\ k \notin db
        BY <1>4, <1>11, <2>4
    <2> QED
        BY <2>1, <2>2, <2>3, <2>4
<1> SUFFICES ASSUME NEW j \in db', Viewed(c, j)
             PROVE  /\ \A o \in BOOLEAN :
                          PutAck(j, o) \in ToSet(toClient'[c])
                          => Coming(c, j)' \/ Before(toClient'[c], Carriers(j), PutAck(j, o))
                    /\ CanSendWrites(c) /\ j \in AckedKeys(putsToAck[c]) => Coming(c, j)'
    BY <1>9 DEF AcksOf
<1>12. CASE j = k
    <2>1. \A o \in BOOLEAN : PutAck(j, o) \in ToSet(toClient'[c]) => o = ok
        BY <1>3, <1>10, <1>12
    <2> QED
        BY <1>8, <1>11, <1>12, <2>1
<1>13. CASE j # k
    <2>1. j \in db /\ j \in Keys
        BY <1>2, <1>13
    <2>2. \A o \in BOOLEAN : PutAck(j, o) \in ToSet(toClient'[c]) => PutAck(j, o) \in ToSet(toClient[c])
        BY <1>3, <1>13, <2>1
    <2> QED
        BY <1>4, <1>6, <2>1, <2>2 DEF AcksOf
<1> QED
    BY <1>12, <1>13

\* The put of another client is of a child this client has no response for.
LEMMA AcksPushed ==
    ASSUME TypeOK, WritesAccountedFor, PendingOnce, NEW c \in Clients, NEW d \in Clients \ {c},
           AcksOf(d), PutsOnce(c), PutsOnce(d),
           NEW k \in Keys, Requested(c, {PutMsg(k)}), db' = db \cup {k},
           NEW ms \in Seq(ServerMessages), toClient'[d] = toClient[d] \o ms,
           \A j, o : PutAck(j, o) \notin ToSet(ms),
           connectionState'[d] = connectionState[d], registrations'[d] = registrations[d],
           serverCache'[d] = serverCache[d], putsToAck'[d] = putsToAck[d], toServer'[d] = toServer[d]
    PROVE  AcksOf(d)'
<1>1. k \in outstandingPuts[c]
    <2>1. toServer[c] \in Seq(ClientMessages) /\ toServer[c] # <<>> /\ Head(toServer[c]) = PutMsg(k)
        BY DEF Requested, TypeOK
    <2>2. PutMsg(k) \in ToSet(toServer[c])
        BY <2>1, TailElements
    <2> QED
        BY <2>2 DEF PutsOnce
<1>2. k \notin pendingWrites[d]
    BY <1>1 DEF WritesAccountedFor, PendingOnce
<1>3. k \notin outstandingPuts[d] /\ k \notin AckedKeys(putsToAck[d])
    BY <1>2 DEF WritesAccountedFor
<1>4. \A o \in BOOLEAN : PutAck(k, o) \notin ToSet(toClient[d])
    BY <1>3 DEF PutsOnce, PutAcks
<1>5. toClient[d] \in Seq(ServerMessages) /\ db \subseteq Keys
    BY DEF TypeOK
<1>6. ToSet(toClient'[d]) = ToSet(toClient[d]) \cup ToSet(ms)
    BY <1>5, ConcatElements
<1>7. \A M, n : Before(toClient[d], M, n) => Before(toClient'[d], M, n)
    <2> TAKE M, n
    <2>1. Before(toClient[d], M, n) => Before(toClient[d] \o ms, M, n)
        BY <1>5, BeforeConcat
    <2> QED
        BY <2>1
<1>8. \A j : Coming(d, j) => Coming(d, j)'
    BY <1>7 DEF Coming, Asks
<1>9. CanSendWrites(d)' = CanSendWrites(d) /\ (\A j : Viewed(d, j)' = Viewed(d, j))
      /\ AckedKeys(putsToAck[d])' = AckedKeys(putsToAck[d])
    BY DEF CanSendWrites, Viewed, Views, AckedKeys
<1>10. \A j, o : PutAck(j, o) \in ToSet(toClient'[d]) => PutAck(j, o) \in ToSet(toClient[d])
    BY <1>6
<1> SUFFICES ASSUME NEW j \in db', Viewed(d, j)
             PROVE  /\ \A o \in BOOLEAN :
                          PutAck(j, o) \in ToSet(toClient'[d])
                          => Coming(d, j)' \/ Before(toClient'[d], Carriers(j), PutAck(j, o))
                    /\ CanSendWrites(d) /\ j \in AckedKeys(putsToAck[d]) => Coming(d, j)'
    BY <1>9 DEF AcksOf
<1>11. CASE j = k
    BY <1>3, <1>4, <1>10, <1>11
<1>12. CASE j # k
    BY <1>7, <1>8, <1>10, <1>12 DEF AcksOf
<1> QED
    BY <1>11, <1>12

\* Every step of a client keeps what its responses wait for.
LEMMA AcksOwnStep ==
    ASSUME SavedInv, NEW c \in Clients, ClientStep(c)
    PROVE  AcksOf(c)'
<1>0. /\ TypeOK /\ WritesAccountedFor /\ ConnectionOf(c) /\ ListensOf(c)
      /\ DataOf(c) /\ SoonOf(c) /\ OverlayOf(c) /\ AcksOf(c)
    BY DEF SavedInv, ViewsInv, ConnectionInv, WritesInv, ListensInv
<1>0a. db \subseteq Keys
    BY <1>0 DEF TypeOK
<1>0b. PutsOnce(c)
    BY <1>0 DEF ConnectionOf
<1>1. CASE \E r \in Observers, l \in Locations : ObserveNew(c, r, l)
    <2>1. PICK r \in Observers, l \in Locations : ObserveNew(c, r, l)
        BY <1>1
    <2>2. /\ UNCHANGED <<connectionState, toClient, serverCache, putsToAck, db>>
          /\ Views(c)' = Views(c) \cup {l}
        BY <1>0, <2>1, ObservedViews DEF ObserveNew, serverVars
    <2>3. CASE CanSendWrites(c)
        <3>1. Send(c, ListenMsg(l, {})) /\ ListenMsg(l, {}) \in ClientMessages
            BY <2>1, <2>3, MessageTypes DEF ObserveNew, CanSendWrites, Connected
        <3>2. ToSet(toServer'[c]) = ToSet(toServer[c]) \cup {ListenMsg(l, {})}
            BY <1>0, <3>1, SentChannel
        <3>3. Asks(c, l)' /\ \A p : Asks(c, p) => Asks(c, p)'
            BY <3>2 DEF Asks
        <3>4. \A k : /\ Coming(c, k) => Coming(c, k)'
                     /\ LocationOf[k] = l => Coming(c, k)'
            BY <2>2, <3>3 DEF Coming
        <3> QED
            BY <1>0, <2>2, <3>4 DEF AcksOf, Viewed, CanSendWrites
    <2>4. CASE ~CanSendWrites(c)
        <3>1. \A k \in Keys, ok \in BOOLEAN : PutAck(k, ok) \notin ToSet(toClient[c])
            BY <1>0b, <2>4 DEF PutsOnce, PutAcks
        <3> QED
            BY <1>0a, <2>2, <2>4, <3>1 DEF AcksOf, CanSendWrites
    <2> QED
        BY <2>3, <2>4
<1>2. CASE \E r \in Observers, l \in Locations : ObserveExisting(c, r, l)
    <2>1. PICK r \in Observers, l \in Locations : ObserveExisting(c, r, l)
        BY <1>2
    <2>2. /\ UNCHANGED <<db, connectionState, serverCache, putsToAck, toClient, toServer>>
          /\ Views(c)' = Views(c)
        BY <1>0, <2>1, ObservedViews DEF ObserveExisting, connVars, netVars, serverVars
    <2> QED
        BY <1>0, <1>0a, <2>2, AcksKept DEF CanSendWrites
<1>3. CASE \E k \in Keys : SetValue(c, k)
    <2>1. PICK k \in Keys : SetValue(c, k)
        BY <1>3
    <2>2. UNCHANGED <<db, connectionState, serverCache, putsToAck, toClient, registrations>>
        BY <2>1 DEF SetValue, serverVars
    <2>3. ToSet(toServer[c]) \subseteq ToSet(toServer'[c])
        <3>1. CASE CanSendWrites(c)
            <4>1. Send(c, PutMsg(k)) /\ PutMsg(k) \in ClientMessages
                BY <2>1, <3>1, MessageTypes DEF SetValue
            <4>2. ToSet(toServer'[c]) = ToSet(toServer[c]) \cup {PutMsg(k)}
                BY <1>0, <4>1, SentChannel
            <4> QED
                BY <4>2
        <3>2. CASE ~CanSendWrites(c)
            BY <2>1, <3>2 DEF SetValue
        <3> QED
            BY <3>1, <3>2
    <2> QED
        BY <1>0, <1>0a, <2>2, <2>3, AcksKept DEF CanSendWrites, Views
<1>4. CASE Dispatch(c)
    BY <1>0, <1>0a, <1>4, AcksKept DEF Dispatch, connVars, netVars, serverVars, CanSendWrites, Views
<1>5. CASE OnReadyUnauthenticated(c) \/ ReceiveAuthOk(c)
    <2>1. RestoreState(c) /\ registrations' = registrations
        BY <1>5 DEF OnReadyUnauthenticated, ReceiveAuthOk, viewVars
    <2>2. \A l \in Views(c) : Asks(c, l)'
        BY <1>0, <2>1, RestoredRequests
    <2>3. Views(c)' = Views(c)
        BY <2>1 DEF Views
    <2> QED
        BY <2>2, <2>3, AcksAsked
<1>6. CASE OnReadyWithToken(c) \/ OnDisconnect(c) \/ Kill(c)
    <2>1. ~CanSendWrites(c)'
        BY <1>0, <1>6 DEF OnReadyWithToken, OnDisconnect, Disconnect, Kill, CanSendWrites, TypeOK
    <2>2. toClient'[c] = <<>>
        BY <1>0, <1>6 DEF OnReadyWithToken, OnDisconnect, Disconnect, Kill, TypeOK, ConnectionOf, TokenFirst
    <2> QED
        BY <2>1, <2>2, AcksLost
<1>7. CASE ReceiveSnapshot(c)
    <2>1. PICK l \in Locations, S \in SUBSET Keys :
              /\ Received(c, {Snapshot(l, S)})
              /\ serverCache' = [serverCache EXCEPT ![c] = (@ \ KeysAt(l)) \cup S]
              /\ UNCHANGED <<connectionState, putsToAck, toServer, registrations, listening, db>>
        BY <1>7 DEF ReceiveSnapshot, connVars, serverVars
    <2>2. serverCache'[c] = (serverCache[c] \ KeysAt(l)) \cup S
        BY <1>0, <2>1 DEF TypeOK
    <2>3. serverCache[c] \subseteq serverCache'[c]
        BY <1>0, <2>1, <2>2, DataSnapshot
    <2>4. \A k \in Keys : Snapshot(l, S) \in Carriers(k) => k \in serverCache'[c]
        BY <2>2, CarriersAre
    <2>5. PICK m : m = Snapshot(l, S)
        OBVIOUS
    <2> QED
        BY <1>0, <2>1, <2>3, <2>4, <2>5, AcksReceived
<1>8. CASE ReceiveChild(c)
    <2>1. PICK k \in Keys :
              /\ Received(c, {ChildData(k)})
              /\ serverCache' = [serverCache EXCEPT ![c] = @ \cup {k}]
              /\ UNCHANGED <<connectionState, putsToAck, toServer, registrations, listening, db>>
        BY <1>8 DEF ReceiveChild, connVars, serverVars
    <2>2. serverCache'[c] = serverCache[c] \cup {k}
        BY <1>0, <2>1 DEF TypeOK
    <2>3. \A j \in Keys : ChildData(k) \in Carriers(j) => j \in serverCache'[c]
        BY <2>2, CarriersAre
    <2> QED
        BY <1>0, <2>1, <2>2, <2>3, AcksReceived
<1>9. CASE ReceiveListenOk(c)
    <2>1. PICK l \in Locations : Received(c, {ListenOk(l)})
        BY <1>9 DEF ReceiveListenOk
    <2>2. /\ UNCHANGED <<connectionState, serverCache, toServer, registrations, db>>
          /\ putsToAck'[c] \subseteq putsToAck[c]
        BY <1>0, <1>9 DEF ReceiveListenOk, serverVars, TypeOK
    <2>3. \A k \in Keys : ListenOk(l) \notin Carriers(k)
        BY CarriersAre
    <2> QED
        BY <1>0, <2>1, <2>2, <2>3, AcksReceived
<1>10. CASE ReceivePutAck(c)
    <2>1. PICK k \in Keys, ok \in BOOLEAN :
              /\ Received(c, {PutAck(k, ok)})
              /\ LET answered == IF k \in outstandingPuts[c] THEN {<<k, ok>>} ELSE {}
                     A        == IF AckNow(c) THEN answered ELSE {}
                 IN  putsToAck' = [putsToAck EXCEPT ![c] = @ \cup (answered \ A)]
              /\ UNCHANGED <<connectionState, serverCache, toServer, registrations, db>>
        BY <1>10 DEF ReceivePutAck, serverVars
    <2>2. putsToAck'[c] \subseteq putsToAck[c] \cup {<<k, ok>>}
        BY <1>0, <2>1 DEF TypeOK
    <2> QED
        BY <1>0, <1>0b, <2>1, <2>2, AcksHeld
<1>11. CASE ServeAuth(c)
    <2>1. /\ Requested(c, {AuthMsg}) /\ Reply(c, <<AuthOk>>)
          /\ UNCHANGED <<db, connectionState, registrations, serverCache, putsToAck>>
        BY <1>11 DEF ServeAuth, connVars, viewVars, serverVars
    <2>2. ~CanSendWrites(c)
        <3>1. ToSet(toServer[c]) = {AuthMsg} \cup ToSet(toServer'[c])
            BY <1>0, <2>1, RequestedChannel
        <3> QED
            BY <1>0, <3>1 DEF ConnectionOf, TokenFirst, CanSendWrites
    <2>3. <<AuthOk>> \in Seq(ServerMessages) /\ ToSet(<<AuthOk>>) = {AuthOk}
        BY MessageTypes, SingletonType, SingletonElements
    <2>4. toClient'[c] = toClient[c] \o <<AuthOk>> /\ toClient[c] \in Seq(ServerMessages)
        BY <1>0, <2>1, <2>3, RepliedChannel DEF TypeOK
    <2>5. ToSet(toClient'[c]) = ToSet(toClient[c]) \cup {AuthOk}
        <3>1. PICK ms \in Seq(ServerMessages) : ms = <<AuthOk>>
            BY <2>3
        <3>2. ToSet(toClient[c] \o ms) = ToSet(toClient[c]) \cup ToSet(ms)
            BY <2>4, ConcatElements
        <3> QED
            BY <2>3, <2>4, <3>1, <3>2
    <2>6. \A k \in Keys, ok \in BOOLEAN : PutAck(k, ok) \notin ToSet(toClient'[c])
        <3>1. \A k \in Keys, ok \in BOOLEAN : PutAck(k, ok) \notin ToSet(toClient[c])
            BY <1>0b, <2>2 DEF PutsOnce, PutAcks
        <3>2. \A k, ok : PutAck(k, ok) # AuthOk
            BY RepliesDistinct
        <3> QED
            BY <2>5, <3>1, <3>2
    <2> QED
        BY <1>0a, <2>1, <2>2, <2>6 DEF AcksOf, CanSendWrites
<1>12. CASE ServeListen(c)
    <2>1. PICK l \in Locations, h \in SUBSET Keys :
              /\ Requested(c, {ListenMsg(l, h)})
              /\ Reply(c, ListenReply(l, h))
              /\ UNCHANGED <<db, connectionState, registrations, serverCache, putsToAck>>
        BY <1>12 DEF ServeListen, ListenReply, connVars, viewVars
    <2>2. ListenReply(l, h) \in Seq(ServerMessages)
        BY <1>0, ListenReplyChannel
    <2>3. toClient'[c] = toClient[c] \o ListenReply(l, h)
        BY <1>0, <2>1, <2>2, RepliedChannel
    <2> QED
        BY <1>0, <2>1, <2>3, AcksListened
<1>13. CASE ServePut(c)
    <2>1. PICK k \in Keys :
              /\ Requested(c, {PutMsg(k)})
              /\ db' = db \cup {k}
              /\ toClient' = [e \in Clients |->
                    toClient[e]
                    \o (IF LocationOf[k] \in listening[e] /\ k \notin db
                        THEN <<ChildData(k)>> ELSE <<>>)
                    \o (IF e = c THEN <<PutAck(k, TRUE)>> ELSE <<>>)]
              /\ UNCHANGED <<connectionState, registrations, serverCache, putsToAck>>
        BY <1>13 DEF ServePut, connVars, viewVars
    <2>2. PICK ms : ms = PutReply(c, k, c)
        OBVIOUS
    <2>3. toClient'[c] = toClient[c] \o ms
        BY <1>0, <2>1, <2>2, PutChannel
    <2>4. /\ ms \in Seq(ServerMessages)
          /\ \A m : m \in ToSet(ms) <=>
                        \/ LocationOf[k] \in listening[c] /\ k \notin db /\ m = ChildData(k)
                        \/ m = PutAck(k, TRUE)
          /\ \A M : LocationOf[k] \in listening[c] /\ k \notin db /\ ChildData(k) \in M
                     => Before(ms, M, PutAck(k, TRUE))
        BY <2>2, PutReplyChannel
    <2>5. PutAck(k, TRUE) \in ToSet(ms)
        BY <2>4
    <2>6. \A j \in Keys, o \in BOOLEAN : PutAck(j, o) \in ToSet(ms) => j = k /\ o = TRUE
        <3>1. \A j, o : PutAck(j, o) # ChildData(k)
            BY RepliesDistinct
        <3>2. \A j, i, o, p : PutAck(j, o) = PutAck(i, p) => j = i /\ o = p
            BY RepliesDistinct
        <3>3. SUFFICES ASSUME NEW j \in Keys, NEW o \in BOOLEAN, PutAck(j, o) \in ToSet(ms)
                       PROVE  j = k /\ o = TRUE
            OBVIOUS
        <3>4. PutAck(j, o) = ChildData(k) \/ PutAck(j, o) = PutAck(k, TRUE)
            BY <2>4, <3>3
        <3>5. PutAck(j, o) = PutAck(k, TRUE)
            BY <3>1, <3>4
        <3> QED
            BY <3>2, <3>5
    <2>7. k \in db' \ db /\ LocationOf[k] \in listening[c]
          => Before(ms, Carriers(k), PutAck(k, TRUE))
        BY <2>4, CarriersAre
    <2> QED
        BY <1>0, <1>0b, <2>1, <2>3, <2>4, <2>5, <2>6, <2>7, AcksAnswered
<1>14. CASE ServePutRefused(c)
    <2>1. PICK k \in Keys, no \in {FALSE} : Requested(c, {PutMsg(k)}) /\ Reply(c, <<PutAck(k, no)>>)
        BY <1>14 DEF ServePutRefused
    <2>2. PICK ms : ms = <<PutAck(k, no)>>
        OBVIOUS
    <2>3. ms \in Seq(ServerMessages) /\ ToSet(ms) = {PutAck(k, no)}
        BY <2>2, MessageTypes, SingletonType, SingletonElements
    <2>4. toClient'[c] = toClient[c] \o ms
        BY <1>0, <2>1, <2>2, <2>3, RepliedChannel
    <2>5. PutAck(k, no) \in ToSet(ms)
        BY <2>3
    <2>6. \A j \in Keys, o \in BOOLEAN : PutAck(j, o) \in ToSet(ms) => j = k /\ o = no
        <3>1. \A j, i, o, p : PutAck(j, o) = PutAck(i, p) => j = i /\ o = p
            BY RepliesDistinct
        <3>2. SUFFICES ASSUME NEW j \in Keys, NEW o \in BOOLEAN, PutAck(j, o) \in ToSet(ms)
                       PROVE  j = k /\ o = no
            OBVIOUS
        <3>3. PutAck(j, o) = PutAck(k, no)
            BY <2>3, <3>2
        <3> QED
            BY <3>3 DEF PutAck
    <2>7. UNCHANGED <<db, connectionState, registrations, serverCache, putsToAck>>
        BY <1>14 DEF ServePutRefused, connVars, viewVars, serverVars
    <2> QED
        BY <1>0, <1>0b, <2>1, <2>3, <2>4, <2>5, <2>6, <2>7, AcksAnswered
<1> QED
    BY <1>1, <1>2, <1>3, <1>4, <1>5, <1>6, <1>7, <1>8, <1>9, <1>10, <1>11, <1>12,
       <1>13, <1>14 DEF ClientStep

\* A write is made by one process, with a fresh key.
LEMMA PendingOnceStep == SavedInv /\ [Next]_dbVars => PendingOnce'
<1> SUFFICES ASSUME SavedInv, [Next]_dbVars
             PROVE  PendingOnce'
    OBVIOUS
<1>0. TypeOK /\ PendingAreWritten /\ PendingOnce
    BY DEF SavedInv, ViewsInv, ConnectionInv, WritesInv
<1>1. CASE UNCHANGED dbVars
    BY <1>0, <1>1 DEF PendingOnce, dbVars, viewVars
<1>2. CASE Next
    <2>1. PICK c \in Clients : ClientStep(c)
        BY <1>2, StepsOfClients
    <2>2. \A d \in Clients \ {c} : pendingWrites'[d] = pendingWrites[d]
        BY <1>0, <2>1, OthersUntouched DEF Untouched
    <2>3. pendingWrites'[c] \subseteq pendingWrites[c] \cup (Keys \ written)
        <3>1. CASE \E k \in Keys : SetValue(c, k)
            BY <1>0, <3>1 DEF SetValue, TypeOK
        <3>2. CASE Kill(c)
            BY <1>0, <3>2 DEF Kill, TypeOK
        <3>3. CASE ReceiveListenOk(c)
            BY <1>0, <3>3 DEF ReceiveListenOk, TypeOK
        <3>4. CASE ReceivePutAck(c)
            BY <1>0, <3>4 DEF ReceivePutAck, TypeOK
        <3>5. CASE pendingWrites' = pendingWrites
            BY <3>5
        <3> QED
            BY <2>1, <3>1, <3>2, <3>3, <3>4, <3>5
               DEF ClientStep, ObserveNew, ObserveExisting, Dispatch, OnReadyUnauthenticated,
                   OnReadyWithToken, OnDisconnect, ReceiveAuthOk, ReceiveSnapshot, ReceiveChild,
                   ServeAuth, ServeListen, ServePut, ServePutRefused, viewVars
    <2> QED
        BY <1>0, <2>2, <2>3 DEF PendingOnce, PendingAreWritten
<1> QED
    BY <1>1, <1>2

\* Every step keeps what the responses of every client wait for.
LEMMA SavedStep == SavedInv /\ [Next]_dbVars => SavedInv'
<1> SUFFICES ASSUME SavedInv, [Next]_dbVars
             PROVE  SavedInv'
    OBVIOUS
<1>0. TypeOK /\ WritesAccountedFor /\ \A c \in Clients : ConnectionOf(c) /\ AcksOf(c)
    BY DEF SavedInv, ViewsInv, ConnectionInv, WritesInv
<1>0a. db \subseteq Keys
    BY <1>0 DEF TypeOK
<1>1. ViewsInv' /\ PendingOnce'
    BY ViewsStep, PendingOnceStep DEF SavedInv
<1>2. ASSUME NEW d \in Clients
      PROVE  AcksOf(d)'
    <2>1. CASE UNCHANGED dbVars
        BY <1>0, <1>0a, <2>1, AcksKept DEF dbVars, connVars, viewVars, netVars, serverVars, CanSendWrites, Views
    <2>2. ASSUME NEW c \in Clients, c # d, ClientStep(c)
          PROVE  AcksOf(d)'
        <3>1. Untouched(d) /\ (~ServePut(c) => toClient'[d] = toClient[d])
            BY <1>0, <2>2, OthersUntouched
        <3>2. CASE ServePut(c)
            <4>1. PICK k \in Keys, ms \in Seq(ServerMessages) :
                      /\ Requested(c, {PutMsg(k)}) /\ db' = db \cup {k}
                      /\ toClient'[d] = toClient[d] \o ms
                      /\ LocationOf[k] \in listening[d] /\ k \notin db => ms = <<ChildData(k)>>
                      /\ ~(LocationOf[k] \in listening[d] /\ k \notin db) => ms = <<>>
                BY <1>0, <2>2, <3>2, PushedChannel
            <4>2. ToSet(<<ChildData(k)>>) = {ChildData(k)} /\ ToSet(<<>>) = {}
                BY SingletonElements
            <4>3. \A j, o : PutAck(j, o) # ChildData(k)
                BY RepliesDistinct
            <4>4. \A j, o : PutAck(j, o) \notin ToSet(ms)
                BY <4>1, <4>2, <4>3
            <4>5. PutsOnce(c) /\ PutsOnce(d) /\ PendingOnce
                BY <1>0 DEF ConnectionOf, SavedInv
            <4> QED
                BY <1>0, <2>2, <3>1, <4>1, <4>4, <4>5, AcksPushed DEF Untouched
        <3>3. CASE ~ServePut(c)
            <4>1. db' = db
                BY <2>2, <3>3 DEF ClientStep, ObserveNew, ObserveExisting, SetValue, Dispatch,
                   OnReadyUnauthenticated, OnReadyWithToken, OnDisconnect, Kill, ReceiveAuthOk,
                   ReceiveSnapshot, ReceiveChild, ReceiveListenOk, ReceivePutAck, ServeAuth,
                   ServeListen, ServePutRefused, serverVars
            <4> QED
                BY <1>0, <1>0a, <3>1, <3>3, <4>1, AcksKept DEF Untouched, CanSendWrites, Views
        <3> QED
            BY <3>2, <3>3
    <2> QED
        BY <2>1, <2>2, AcksOwnStep, StepsOfClients
<1> QED
    BY <1>1, <1>2 DEF SavedInv

\* At first nothing is pending.
LEMMA SavedInit == Init => SavedInv
<1> SUFFICES ASSUME Init
             PROVE  SavedInv
    OBVIOUS
<1>1. PendingOnce
    BY DEF Init, PendingOnce
<1>2. \A c \in Clients : AcksOf(c)
    BY DEF Init, AcksOf
<1> QED
    BY <1>1, <1>2, ViewsInit DEF SavedInv

\* The event cache takes nothing out that the server holds: only acknowledging
\* takes something out, what is not in the server cache then was never the
\* server's.
LEMMA SavedStays ==
    ASSUME SavedInv, NEW c \in Clients, ClientStep(c), kills' = kills
    PROVE  (eventCache[c] \ eventCache'[c]) \cap db = {}
<1>0. /\ TypeOK /\ WritesAccountedFor /\ ConnectionOf(c) /\ ListensOf(c)
      /\ DataOf(c) /\ SoonOf(c) /\ OverlayOf(c) /\ AcksOf(c)
    BY DEF SavedInv, ViewsInv, ConnectionInv, WritesInv, ListensInv
<1>0a. db \subseteq Keys /\ eventCache[c] \subseteq Keys
    BY <1>0 DEF TypeOK
<1>1. CASE eventCache[c] \subseteq eventCache'[c]
    BY <1>1
<1>2. CASE Kill(c)
    BY <1>0, <1>2 DEF Kill, TypeOK
<1>3. CASE ReceiveSnapshot(c)
    <2>1. PICK l \in Locations, S \in SUBSET Keys :
              /\ Received(c, {Snapshot(l, S)})
              /\ serverCache' = [serverCache EXCEPT ![c] = (@ \ KeysAt(l)) \cup S]
              /\ eventCache' = [eventCache EXCEPT ![c] =
                     (@ \ KeysAt(l)) \cup (S \cup (pendingWrites[c] \cap KeysAt(l)))]
              /\ UNCHANGED <<toServer, registrations, listening, db>>
        BY <1>3 DEF ReceiveSnapshot, serverVars
    <2>2. /\ serverCache'[c] = (serverCache[c] \ KeysAt(l)) \cup S
          /\ eventCache'[c] = (eventCache[c] \ KeysAt(l)) \cup (S \cup (pendingWrites[c] \cap KeysAt(l)))
        BY <1>0, <2>1 DEF TypeOK
    <2>3. l \in Views(c) /\ serverCache[c] \subseteq serverCache'[c]
        BY <1>0, <2>1, <2>2, DataSnapshot
    <2>4. eventCache[c] \cap KeysAt(l) = (serverCache[c] \cup pendingWrites[c]) \cap KeysAt(l)
        BY <1>0, <2>3 DEF OverlayOf
    <2> QED
        BY <2>2, <2>3, <2>4
<1>4. ASSUME NEW A, NEW comp, NEW ec,
             eventCache[c] \subseteq ec, eventCache'[c] = AckedEventCache(c, A, comp, ec),
             \A k \in AckedKeys(A) : k \in db /\ Viewed(c, k) => k \in serverCache[c]
      PROVE  (eventCache[c] \ eventCache'[c]) \cap db = {}
    BY <1>4 DEF AckedEventCache
<1>5. CASE ReceiveListenOk(c)
    <2>1. PICK l \in Locations :
              /\ Received(c, {ListenOk(l)})
              /\ LET shown == (serverCache[c] \cup pendingWrites[c]) \cap KeysAt(l)
                     ec    == (eventCache[c] \ KeysAt(l)) \cup shown
                     A     == IF LastListen(c) THEN putsToAck[c] ELSE {}
                 IN  eventCache' = [eventCache EXCEPT ![c] =
                                       AckedEventCache(c, A, complete[c] \cup {l}, ec)]
        BY <1>5 DEF ReceiveListenOk
    <2> DEFINE ec   == (eventCache[c] \ KeysAt(l)) \cup ((serverCache[c] \cup pendingWrites[c]) \cap KeysAt(l))
               A    == IF LastListen(c) THEN putsToAck[c] ELSE {}
    <2>2. eventCache'[c] = AckedEventCache(c, A, complete[c] \cup {l}, ec)
        BY <1>0, <2>1 DEF TypeOK
    <2>3. toClient[c] \in Seq(ServerMessages) /\ toServer[c] \in Seq(ClientMessages)
          /\ toClient[c] # <<>> /\ Head(toClient[c]) = ListenOk(l)
        BY <1>0, <2>1 DEF Received, TypeOK
    <2>4. ListenOk(l) \in ToSet(toClient[c])
        BY <2>3, TailElements
    <2>5. l \in Views(c)
        BY <1>0, <2>4 DEF ListensOf
    <2>6. eventCache[c] \cap KeysAt(l) = (serverCache[c] \cup pendingWrites[c]) \cap KeysAt(l)
        BY <1>0, <2>5 DEF OverlayOf
    <2>7. eventCache[c] \subseteq ec
        BY <2>6
    <2>8. PICK m : m = ListenOk(l)
        OBVIOUS
    <2>9. /\ \A M, n : Before(toClient[c], M, n) => n \in ToSet(toClient'[c])
          /\ \A T : CountOf(toClient[c], T) = CountOf(toClient'[c], T) + (IF m.type \in T THEN 1 ELSE 0)
        BY <1>0, <2>1, <2>8, ReceivedChannel
    <2>10. ASSUME LastListen(c)
           PROVE  /\ \A p \in Locations, h \in SUBSET Keys : ListenMsg(p, h) \notin ToSet(toServer[c])
                  /\ \A p \in Locations : ListenOk(p) \notin ToSet(toClient'[c])
        <3>1. toClient'[c] \in Seq(ServerMessages)
            BY <1>0, <2>1, ReceivedType
        <3>2. /\ CountOf(toClient'[c], {"listenOk"}) \in Nat
              /\ CountOf(toClient'[c], {"listenOk"}) = 0 <=> \A n \in ToSet(toClient'[c]) : n.type \notin {"listenOk"}
            BY <3>1, CountType
        <3>3. /\ CountOf(toServer[c], {"listen"}) \in Nat
              /\ CountOf(toServer[c], {"listen"}) = 0 <=> \A n \in ToSet(toServer[c]) : n.type \notin {"listen"}
            BY <2>3, CountType
        <3>4. CountOf(toClient[c], {"listenOk"}) = CountOf(toClient'[c], {"listenOk"}) + 1
            BY <2>8, <2>9, MessageKinds
        <3>5. CountOf(toServer[c], {"listen"}) = 0 /\ CountOf(toClient'[c], {"listenOk"}) = 0
            BY <1>0, <2>10, <3>2, <3>3, <3>4 DEF ListensOf, LastListen
        <3> QED
            BY <3>2, <3>3, <3>5, MessageKinds
    <2>11. ASSUME NEW k \in AckedKeys(A), k \in db, Viewed(c, k)
           PROVE  k \in serverCache[c]
        <3>1. LastListen(c) /\ k \in AckedKeys(putsToAck[c])
            BY <2>11 DEF AckedKeys
        <3>2. CanSendWrites(c)
            BY <1>0, <2>1, ReceivingIsConnected, RepliesDistinct DEF ConnectionOf
        <3>3. Coming(c, k)
            BY <1>0, <2>11, <3>1, <3>2 DEF AcksOf
        <3>4. LocationOf[k] \in Locations
            BY <1>0a, <2>11, LocationAssumption
        <3> QED
            BY <2>9, <2>10, <3>1, <3>3, <3>4 DEF Coming, Asks
    <2> HIDE DEF ec, A
    <2> QED
        BY <1>4, <2>2, <2>7, <2>11
<1>6. CASE ReceivePutAck(c)
    <2>1. PICK k \in Keys, ok \in BOOLEAN :
              /\ Received(c, {PutAck(k, ok)})
              /\ LET answered == IF k \in outstandingPuts[c] THEN {<<k, ok>>} ELSE {}
                     A        == IF AckNow(c) THEN answered ELSE {}
                 IN  eventCache' = [eventCache EXCEPT ![c] =
                                       AckedEventCache(c, A, complete[c], @)]
        BY <1>6 DEF ReceivePutAck
    <2> DEFINE answered == IF k \in outstandingPuts[c] THEN {<<k, ok>>} ELSE {}
               A        == IF AckNow(c) THEN answered ELSE {}
    <2>2. eventCache'[c] = AckedEventCache(c, A, complete[c], eventCache[c])
        BY <1>0, <2>1 DEF TypeOK
    <2>3. PICK m : m = PutAck(k, ok)
        OBVIOUS
    <2>4. /\ ToSet(toClient[c]) = {m} \cup ToSet(toClient'[c])
          /\ \A M, n : Before(toClient[c], M, n) => n \in ToSet(toClient'[c])
          /\ \A M : Once(toClient[c], M) /\ m \in M => M \cap ToSet(toClient'[c]) = {}
        BY <1>0, <2>1, <2>3, ReceivedChannel
    <2>5. m \notin ToSet(toClient'[c])
        <3>1. m \in PutAcks(k) /\ Once(toClient[c], PutAcks(k))
            BY <1>0, <2>3 DEF PutAcks, ConnectionOf, PutsOnce
        <3> QED
            BY <2>4, <3>1
    <2>6. ASSUME NEW j \in AckedKeys(A), j \in db, Viewed(c, j)
          PROVE  j \in serverCache[c]
        <3>1. j = k /\ AckNow(c)
            BY <2>6 DEF AckedKeys
        <3>2. unackedListensCount[c] = 0
            BY <3>1 DEF AckNow
        <3>3. /\ \A p \in Locations, h \in SUBSET Keys : ListenMsg(p, h) \notin ToSet(toServer[c])
              /\ \A p \in Locations : ListenOk(p) \notin ToSet(toClient[c])
            BY <1>0, <3>2, CountsAreNatural
        <3>4. Coming(c, k) \/ Before(toClient[c], Carriers(k), m)
            BY <1>0, <2>3, <2>4, <2>6, <3>1 DEF AcksOf
        <3>5. LocationOf[k] \in Locations
            BY LocationAssumption
        <3>6. ~Before(toClient[c], Carriers(k), m) /\ ~Before(toClient[c], Carriers(k), ListenOk(LocationOf[k]))
            BY <2>4, <2>5, <3>3, <3>5
        <3> QED
            BY <3>1, <3>3, <3>4, <3>5, <3>6 DEF Coming, Asks
    <2> HIDE DEF A
    <2> QED
        BY <1>4, <2>2, <2>6
<1>7. CASE \/ (\E r \in Observers, l \in Locations : ObserveNew(c, r, l))
           \/ (\E k \in Keys : SetValue(c, k)) \/ ReceiveChild(c)
    <2>1. ASSUME NEW r \in Observers, NEW l \in Locations, ObserveNew(c, r, l)
          PROVE  eventCache[c] \subseteq eventCache'[c]
        <3>1. PICK more : eventCache' = [eventCache EXCEPT ![c] = @ \cup more]
            BY <2>1 DEF ObserveNew
        <3> QED
            BY <1>0, <3>1 DEF TypeOK
    <2>2. ASSUME NEW k \in Keys, SetValue(c, k)
          PROVE  eventCache[c] \subseteq eventCache'[c]
        <3>1. PICK more : eventCache' = [eventCache EXCEPT ![c] = @ \cup more]
            BY <2>2 DEF SetValue
        <3> QED
            BY <1>0, <3>1 DEF TypeOK
    <2>3. ASSUME ReceiveChild(c)
          PROVE  eventCache[c] \subseteq eventCache'[c]
        <3>1. PICK more : eventCache' = [eventCache EXCEPT ![c] = @ \cup more]
            BY <2>3 DEF ReceiveChild
        <3> QED
            BY <1>0, <3>1 DEF TypeOK
    <2> QED
        BY <1>1, <1>7, <2>1, <2>2, <2>3
<1>8. CASE \/ (\E r \in Observers, l \in Locations : ObserveExisting(c, r, l))
           \/ Dispatch(c) \/ OnReadyUnauthenticated(c) \/ OnReadyWithToken(c) \/ OnDisconnect(c)
           \/ ReceiveAuthOk(c) \/ ServeAuth(c) \/ ServeListen(c) \/ ServePut(c) \/ ServePutRefused(c)
    BY <1>1, <1>8 DEF ObserveExisting, Dispatch, OnReadyUnauthenticated, OnReadyWithToken, OnDisconnect,
                      ReceiveAuthOk, ServeAuth, ServeListen, ServePut, ServePutRefused, viewVars
<1> QED
    BY <1>2, <1>3, <1>5, <1>6, <1>7, <1>8 DEF ClientStep

\* A child the server holds leaves a view only when its process dies: a write
\* is acknowledged only once the server's data that takes its place is there.
THEOREM SavedStaysVisible == Spec => SavedNeverVanishes
<1>1. SavedInv /\ [Next]_dbVars =>
          [\A c \in Clients :
              kills' = kills => (eventCache[c] \ eventCache'[c]) \cap db = {}]_dbVars
    <2> SUFFICES ASSUME SavedInv, Next, NEW d \in Clients, kills' = kills
                 PROVE  (eventCache[d] \ eventCache'[d]) \cap db = {}
        OBVIOUS
    <2>1. PICK c \in Clients : ClientStep(c)
        BY StepsOfClients
    <2>2. CASE c = d
        BY <2>1, <2>2, SavedStays
    <2>3. CASE c # d
        <3>1. TypeOK
            BY DEF SavedInv, ViewsInv, ConnectionInv, WritesInv
        <3> QED
            BY <2>1, <2>3, <3>1, OthersUntouched DEF Untouched
    <2> QED
        BY <2>2, <2>3
<1> QED
    BY <1>1, SavedInit, SavedStep, PTL DEF Spec, SavedNeverVanishes
=============================================================================
