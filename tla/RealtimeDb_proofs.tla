------------------------- MODULE RealtimeDb_proofs -------------------------
(* What TLAPS proves of the writes of RealtimeDb and of its messages in    *)
(* flight, for every value of its constants: its types and writes; lemmas  *)
(* on the order and the number of the messages in a channel; the listens   *)
(* that are counted, and the responses held back until they are answered.  *)
EXTENDS RealtimeDb, TLAPS, FiniteSetTheorems, SequenceTheorems, FunctionTheorems

-----------------------------------------------------------------------------
(* Lemmas about orders, events and messages.                               *)

\* An enumeration of a finite set of values is a sequence of them.
LEMMA SetToSeqsType ==
    ASSUME NEW T, NEW S \in SUBSET T, IsFiniteSet(S), NEW s \in SetToSeqs(S)
    PROVE  s \in Seq(T) /\ \A i \in DOMAIN s : s[i] \in S
<1>1. Cardinality(S) \in Nat
    BY FS_CardinalityType
<1>2. s \in [1..Cardinality(S) -> S]
    BY DEF SetToSeqs
<1>3. s \in Seq(S)
    BY <1>1, <1>2, IsASeq
<1> QED
    BY <1>2, <1>3, SeqMonotonic

\* The events raised for a set of children form a sequence of events.
LEMMA EventsOfOrder ==
    ASSUME NEW S \in SUBSET Keys, NEW s \in KeyOrders(S),
           NEW to \in [Keys -> SUBSET Observers]
    PROVE  [i \in DOMAIN s |-> Event(s[i], to[s[i]])] \in Seq(Events)
<1>1. IsFiniteSet(S)
    BY KeysAssumption, FS_Subset
<1>2. s \in Seq(Keys) /\ s \in SetToSeqs(S)
    BY <1>1, SetToSeqsType DEF KeyOrders
<1>3. DOMAIN s = 1..Len(s) /\ Len(s) \in Nat /\ \A i \in 1..Len(s) : s[i] \in Keys
    BY <1>2, LenProperties, ElementOfSeq
<1>4. \A i \in 1..Len(s) : Event(s[i], to[s[i]]) \in Events
    BY <1>3 DEF Event, Events
<1> QED
    BY <1>3, <1>4, IsASeq

\* A single value is a sequence.
LEMMA SingletonType ==
    ASSUME NEW T, NEW x \in T
    PROVE  <<x>> \in Seq(T)
<1>1. <<x>> = [i \in 1..1 |-> x]
    OBVIOUS
<1> QED
    BY <1>1, IsASeq

\* Every message has a place in its message set.
LEMMA MessageTypes ==
    /\ AuthMsg \in ClientMessages
    /\ \A l \in Locations, h \in SUBSET Keys : ListenMsg(l, h) \in ClientMessages
    /\ \A k \in Keys : PutMsg(k) \in ClientMessages
    /\ AuthOk \in ServerMessages
    /\ \A l \in Locations, S \in SUBSET Keys : Snapshot(l, S) \in ServerMessages
    /\ \A k \in Keys : ChildData(k) \in ServerMessages
    /\ \A l \in Locations : ListenOk(l) \in ServerMessages
    /\ \A k \in Keys, ok \in BOOLEAN : PutAck(k, ok) \in ServerMessages
<1>1. AuthMsg \in ClientMessages /\ AuthOk \in ServerMessages
    BY DEF ClientMessages, ServerMessages
<1>2. ASSUME NEW l \in Locations, NEW h \in SUBSET Keys
      PROVE  ListenMsg(l, h) \in ClientMessages /\ Snapshot(l, h) \in ServerMessages
    BY DEF ClientMessages, ServerMessages
<1>3. ASSUME NEW k \in Keys
      PROVE  PutMsg(k) \in ClientMessages /\ ChildData(k) \in ServerMessages
    BY DEF ClientMessages, ServerMessages
<1>4. ASSUME NEW l \in Locations
      PROVE  ListenOk(l) \in ServerMessages
    BY DEF ServerMessages
<1>5. ASSUME NEW k \in Keys, NEW ok \in BOOLEAN
      PROVE  PutAck(k, ok) \in ServerMessages
    BY DEF ServerMessages
<1> QED
    BY <1>1, <1>2, <1>3, <1>4, <1>5

\* Raising events for children keeps the main queue a sequence of events.
LEMMA RaiseType ==
    ASSUME TypeOK, NEW c \in Clients, NEW S \in SUBSET Keys,
           NEW to \in [Keys -> SUBSET Observers], Raise(c, S, to)
    PROVE  mainQueue' \in [Clients -> Seq(Events)]
<1>1. PICK s \in KeyOrders(S) :
          mainQueue' = [mainQueue EXCEPT ![c] =
              @ \o [i \in DOMAIN s |-> Event(s[i], to[s[i]])]]
    BY DEF Raise
<1>2. [i \in DOMAIN s |-> Event(s[i], to[s[i]])] \in Seq(Events)
    BY EventsOfOrder
<1>3. mainQueue \in [Clients -> Seq(Events)]
    BY DEF TypeOK
<1>4. mainQueue[c] \o [i \in DOMAIN s |-> Event(s[i], to[s[i]])] \in Seq(Events)
    BY <1>2, <1>3, ConcatProperties
<1> QED
    BY <1>1, <1>3, <1>4

\* The same for the events sent to every registration of a location.
LEMMA RaiseAddedType ==
    ASSUME TypeOK, NEW c \in Clients, NEW S \in SUBSET Keys, RaiseAdded(c, S)
    PROVE  mainQueue' \in [Clients -> Seq(Events)]
<1> DEFINE to == [k \in Keys |-> registrations[c][LocationOf[k]]]
<1>1. to \in [Keys -> SUBSET Observers]
    BY LocationAssumption DEF TypeOK
<1>2. Raise(c, S \ eventCache[c], to)
    BY DEF RaiseAdded
<1> QED
    BY <1>1, <1>2, RaiseType

\* Sending keeps the channel a sequence of client messages.
LEMMA SendType ==
    ASSUME TypeOK, NEW c \in Clients, NEW m \in ClientMessages, Send(c, m)
    PROVE  toServer' \in [Clients -> Seq(ClientMessages)]
<1>1. toServer \in [Clients -> Seq(ClientMessages)]
    BY DEF TypeOK
<1>2. Append(toServer[c], m) \in Seq(ClientMessages)
    BY <1>1, AppendProperties
<1> QED
    BY <1>1, <1>2 DEF Send

\* Replying keeps the channel a sequence of server messages.
LEMMA ReplyType ==
    ASSUME TypeOK, NEW c \in Clients, NEW ms \in Seq(ServerMessages), Reply(c, ms)
    PROVE  toClient' \in [Clients -> Seq(ServerMessages)]
<1>1. toClient \in [Clients -> Seq(ServerMessages)]
    BY DEF TypeOK
<1>2. toClient[c] \o ms \in Seq(ServerMessages)
    BY <1>1, ConcatProperties
<1> QED
    BY <1>1, <1>2 DEF Reply

\* Restoring the state of a connection sends messages and counts listens.
LEMMA RestoreStateType ==
    ASSUME TypeOK, NEW c \in Clients, RestoreState(c)
    PROVE  /\ toServer' \in [Clients -> Seq(ClientMessages)]
           /\ unackedListensCount' \in [Clients -> Int]
<1>1. PICK ls \in SetToSeqs(Views(c)), ps \in PutOrders(outstandingPuts[c]) :
        /\ toServer' = [toServer EXCEPT ![c] = @ \o ListenMsgs(c, ls) \o PutMsgs(ps)]
        /\ unackedListensCount' =
              [unackedListensCount EXCEPT ![c] = @ + Cardinality(Views(c))]
    BY DEF RestoreState
<1>2. Views(c) \in SUBSET Locations /\ IsFiniteSet(Views(c))
    BY LocationAssumption, FS_Subset DEF Views
<1>3. outstandingPuts[c] \in SUBSET Keys /\ IsFiniteSet(outstandingPuts[c])
    BY KeysAssumption, FS_Subset DEF TypeOK
<1>4. ls \in Seq(Locations)
    BY <1>2, SetToSeqsType
<1>5. ps \in Seq(Keys)
    BY <1>3, SetToSeqsType DEF PutOrders
<1>6. ListenMsgs(c, ls) \in Seq(ClientMessages)
    <2>1. DOMAIN ls = 1..Len(ls) /\ Len(ls) \in Nat /\ \A i \in 1..Len(ls) : ls[i] \in Locations
        BY <1>4, LenProperties, ElementOfSeq
    <2>2. \A l \in Locations : serverCache[c] \cap KeysAt(l) \in SUBSET Keys
        BY DEF TypeOK
    <2>3. \A i \in 1..Len(ls) :
             ListenMsg(ls[i], serverCache[c] \cap KeysAt(ls[i])) \in ClientMessages
        BY <2>1, <2>2, MessageTypes
    <2> QED
        BY <2>1, <2>3, IsASeq DEF ListenMsgs
<1>7. PutMsgs(ps) \in Seq(ClientMessages)
    <2>1. DOMAIN ps = 1..Len(ps) /\ Len(ps) \in Nat /\ \A i \in 1..Len(ps) : ps[i] \in Keys
        BY <1>5, LenProperties, ElementOfSeq
    <2>2. \A i \in 1..Len(ps) : PutMsg(ps[i]) \in ClientMessages
        BY <2>1, MessageTypes
    <2> QED
        BY <2>1, <2>2, IsASeq DEF PutMsgs
<1>8. toServer \in [Clients -> Seq(ClientMessages)]
    BY DEF TypeOK
<1>9. toServer[c] \o ListenMsgs(c, ls) \o PutMsgs(ps) \in Seq(ClientMessages)
    BY <1>6, <1>7, <1>8, ConcatProperties
<1>10. toServer' = [toServer EXCEPT ![c] = toServer[c] \o ListenMsgs(c, ls) \o PutMsgs(ps)]
    BY <1>1
<1>11. toServer' \in [Clients -> Seq(ClientMessages)]
    BY <1>8, <1>9, <1>10
<1>12. unackedListensCount' \in [Clients -> Int]
    <2>1. Cardinality(Views(c)) \in Nat
        BY <1>2, FS_CardinalityType
    <2>2. unackedListensCount \in [Clients -> Int]
        BY DEF TypeOK
    <2> QED
        BY <1>1, <2>1, <2>2
<1> QED
    BY <1>11, <1>12

\* Acknowledging writes keeps the event cache a set of keys.
LEMMA AckedEventCacheType ==
    ASSUME TypeOK, NEW c \in Clients, NEW A, NEW comp, NEW ec \in SUBSET Keys
    PROVE  AckedEventCache(c, A, comp, ec) \in SUBSET Keys
BY DEF AckedEventCache, AckedKeys

\* The message at the head of a channel is taken off it.
LEMMA ReceivedType ==
    ASSUME TypeOK, NEW c \in Clients, NEW M, Received(c, M)
    PROVE  toClient' \in [Clients -> Seq(ServerMessages)]
<1>1. toClient[c] \in Seq(ServerMessages) /\ toClient[c] # <<>>
    BY DEF TypeOK, Received
<1>2. Tail(toClient[c]) \in Seq(ServerMessages)
    BY <1>1, HeadTailProperties
<1> QED
    BY <1>2 DEF Received, TypeOK

\* The same for a request.
LEMMA RequestedType ==
    ASSUME TypeOK, NEW c \in Clients, NEW M, Requested(c, M)
    PROVE  toServer' \in [Clients -> Seq(ClientMessages)]
<1>1. toServer[c] \in Seq(ClientMessages) /\ toServer[c] # <<>>
    BY DEF TypeOK, Requested
<1>2. Tail(toServer[c]) \in Seq(ClientMessages)
    BY <1>1, HeadTailProperties
<1> QED
    BY <1>2 DEF Requested, TypeOK

-----------------------------------------------------------------------------
(* Type correctness: one step per action.                                  *)

\* The initial state has the right types.
LEMMA TypeInit == Init => TypeOK
<1>1. Init => mainQueue \in [Clients -> Seq(Events)]
    BY EmptySeq DEF Init
<1>2. Init => toServer \in [Clients -> Seq(ClientMessages)]
    BY EmptySeq DEF Init
<1>3. Init => toClient \in [Clients -> Seq(ServerMessages)]
    BY EmptySeq DEF Init
<1> QED
    BY <1>1, <1>2, <1>3, BoundAssumption DEF Init, TypeOK

\* Every action keeps the types.
LEMMA TypeStep == TypeOK /\ [Next]_dbVars => TypeOK'
<1> SUFFICES ASSUME TypeOK, [Next]_dbVars
             PROVE  TypeOK'
    OBVIOUS
<1> USE DEF connVars, viewVars, netVars, serverVars, histVars
<1>1. ASSUME NEW c \in Clients, NEW r \in Observers, NEW l \in Locations,
             ObserveNew(c, r, l)
      PROVE  TypeOK'
    <2>1. PICK S \in SUBSET Keys : S = pendingWrites[c] \cap KeysAt(l)
        BY DEF TypeOK
    <2>2. mainQueue' \in [Clients -> Seq(Events)]
        <3>1. [k \in Keys |-> {r}] \in [Keys -> SUBSET Observers]
            OBVIOUS
        <3>2. Raise(c, S, [k \in Keys |-> {r}])
            BY <1>1, <2>1 DEF ObserveNew
        <3> QED
            BY <2>1, <3>1, <3>2, RaiseType
    <2>3. eventCache' \in [Clients -> SUBSET Keys]
        BY <1>1, <2>1 DEF ObserveNew, TypeOK
    <2>4. /\ toServer' \in [Clients -> Seq(ClientMessages)]
          /\ unackedListensCount' \in [Clients -> Int]
        <3>1. ListenMsg(l, {}) \in ClientMessages
            BY MessageTypes
        <3>2. CASE Connected(c)
            <4>1. /\ Send(c, ListenMsg(l, {}))
                  /\ unackedListensCount' = [unackedListensCount EXCEPT ![c] = @ + 1]
                BY <1>1, <3>2 DEF ObserveNew
            <4>2. toServer' \in [Clients -> Seq(ClientMessages)]
                BY <3>1, <4>1, SendType
            <4>3. unackedListensCount \in [Clients -> Int]
                BY DEF TypeOK
            <4> QED
                BY <4>1, <4>2, <4>3
        <3>3. CASE ~Connected(c)
            BY <1>1, <3>3 DEF ObserveNew, TypeOK
        <3> QED
            BY <3>2, <3>3
    <2>5. registrations' \in [Clients -> [Locations -> SUBSET Observers]]
        BY <1>1 DEF ObserveNew, TypeOK
    <2> QED
        BY <1>1, <2>2, <2>3, <2>4, <2>5 DEF ObserveNew, TypeOK
<1>2. ASSUME NEW c \in Clients, NEW r \in Observers, NEW l \in Locations,
             ObserveExisting(c, r, l)
      PROVE  TypeOK'
    <2>1. mainQueue' \in [Clients -> Seq(Events)]
        <3>1. [k \in Keys |-> {r}] \in [Keys -> SUBSET Observers]
            OBVIOUS
        <3>2. eventCache[c] \cap KeysAt(l) \in SUBSET Keys
            BY DEF TypeOK
        <3>3. Raise(c, eventCache[c] \cap KeysAt(l), [k \in Keys |-> {r}])
            BY <1>2 DEF ObserveExisting
        <3> QED
            BY <3>1, <3>2, <3>3, RaiseType
    <2>2. registrations' \in [Clients -> [Locations -> SUBSET Observers]]
        BY <1>2 DEF ObserveExisting, TypeOK
    <2> QED
        BY <1>2, <2>1, <2>2 DEF ObserveExisting, TypeOK
<1>3. ASSUME NEW c \in Clients, NEW k \in Keys, SetValue(c, k)
      PROVE  TypeOK'
    <2>1. mainQueue' \in [Clients -> Seq(Events)]
        <3>1. PICK S \in SUBSET Keys : RaiseAdded(c, S)
            BY <1>3 DEF SetValue
        <3> QED
            BY <3>1, RaiseAddedType
    <2>2. toServer' \in [Clients -> Seq(ClientMessages)]
        <3>1. PutMsg(k) \in ClientMessages
            BY MessageTypes
        <3> QED
            BY <1>3, <3>1, SendType DEF SetValue, TypeOK
    <2>3. eventCache' \in [Clients -> SUBSET Keys]
        BY <1>3 DEF SetValue, TypeOK
    <2>4. putIndex' \in [Keys -> Nat] /\ putCounter' \in [Clients -> Nat]
        BY <1>3 DEF SetValue, TypeOK
    <2>5. /\ written' \subseteq Keys
          /\ pendingWrites' \in [Clients -> SUBSET Keys]
          /\ outstandingPuts' \in [Clients -> SUBSET Keys]
        BY <1>3 DEF SetValue, TypeOK
    <2> QED
        BY <1>3, <2>1, <2>2, <2>3, <2>4, <2>5 DEF SetValue, TypeOK
<1>4. ASSUME NEW c \in Clients, OnReadyUnauthenticated(c)
      PROVE  TypeOK'
    BY <1>4, RestoreStateType DEF OnReadyUnauthenticated, TypeOK
<1>5. ASSUME NEW c \in Clients, OnReadyWithToken(c)
      PROVE  TypeOK'
    <2>1. toServer' \in [Clients -> Seq(ClientMessages)]
        BY <1>5, MessageTypes, SendType DEF OnReadyWithToken
    <2> QED
        BY <1>5, <2>1 DEF OnReadyWithToken, TypeOK
<1>6. ASSUME NEW c \in Clients, OnDisconnect(c)
      PROVE  TypeOK'
    <2>1. /\ toServer' \in [Clients -> Seq(ClientMessages)]
          /\ toClient' \in [Clients -> Seq(ServerMessages)]
        BY <1>6, EmptySeq DEF OnDisconnect, Disconnect, TypeOK
    <2>2. drops' \in 0..MaxDrops
        BY <1>6, BoundAssumption DEF OnDisconnect, Disconnect, TypeOK
    <2> QED
        BY <1>6, <2>1, <2>2 DEF OnDisconnect, Disconnect, TypeOK
<1>7. ASSUME NEW c \in Clients, Kill(c)
      PROVE  TypeOK'
    <2>1. /\ toServer' \in [Clients -> Seq(ClientMessages)]
          /\ toClient' \in [Clients -> Seq(ServerMessages)]
          /\ mainQueue' \in [Clients -> Seq(Events)]
        BY <1>7, EmptySeq DEF Kill, TypeOK
    <2>2. kills' \in 0..MaxKills
        BY <1>7, BoundAssumption DEF Kill, TypeOK
    <2>3. /\ pendingWrites' \in [Clients -> SUBSET Keys]
          /\ serverCache' \in [Clients -> SUBSET Keys]
          /\ eventCache' \in [Clients -> SUBSET Keys]
          /\ complete' \in [Clients -> SUBSET Locations]
          /\ registrations' \in [Clients -> [Locations -> SUBSET Observers]]
        BY <1>7 DEF Kill, TypeOK
    <2> QED
        BY <1>7, <2>1, <2>2, <2>3 DEF Kill, TypeOK
<1>8. ASSUME NEW c \in Clients, ReceiveAuthOk(c)
      PROVE  TypeOK'
    BY <1>8, RestoreStateType, ReceivedType DEF ReceiveAuthOk, TypeOK
<1>9. ASSUME NEW c \in Clients, ReceiveSnapshot(c)
      PROVE  TypeOK'
    <2>1. PICK l \in Locations, S \in SUBSET Keys :
              /\ Received(c, {Snapshot(l, S)})
              /\ serverCache' = [serverCache EXCEPT ![c] = (@ \ KeysAt(l)) \cup S]
              /\ complete' = [complete EXCEPT ![c] = @ \cup {l}]
              /\ LET new == S \cup (pendingWrites[c] \cap KeysAt(l))
                 IN  /\ eventCache' = [eventCache EXCEPT ![c] = (@ \ KeysAt(l)) \cup new]
                     /\ RaiseAdded(c, new)
              /\ UNCHANGED <<connVars, pendingWrites, registrations, toServer,
                             serverVars, histVars>>
        BY <1>9 DEF ReceiveSnapshot
    <2> DEFINE new == S \cup (pendingWrites[c] \cap KeysAt(l))
    <2>2. new \in SUBSET Keys
        BY DEF TypeOK
    <2>3. RaiseAdded(c, new)
        BY <2>1
    <2>4. mainQueue' \in [Clients -> Seq(Events)]
        BY <2>2, <2>3, RaiseAddedType
    <2>5. /\ serverCache' \in [Clients -> SUBSET Keys]
          /\ eventCache' \in [Clients -> SUBSET Keys]
          /\ complete' \in [Clients -> SUBSET Locations]
        BY <2>1, <2>2 DEF TypeOK
    <2>6. toClient' \in [Clients -> Seq(ServerMessages)]
        BY <2>1, ReceivedType
    <2> QED
        BY <2>1, <2>4, <2>5, <2>6 DEF TypeOK
<1>10. ASSUME NEW c \in Clients, ReceiveChild(c)
       PROVE  TypeOK'
    <2>1. PICK k \in Keys :
              /\ Received(c, {ChildData(k)})
              /\ serverCache' = [serverCache EXCEPT ![c] = @ \cup {k}]
              /\ LET new == {k} \ pendingWrites[c]
                 IN  /\ eventCache' = [eventCache EXCEPT ![c] = @ \cup new]
                     /\ RaiseAdded(c, new)
              /\ UNCHANGED <<connVars, pendingWrites, complete, registrations,
                             toServer, serverVars, histVars>>
        BY <1>10 DEF ReceiveChild
    <2>2. {k} \ pendingWrites[c] \in SUBSET Keys
        OBVIOUS
    <2>3. mainQueue' \in [Clients -> Seq(Events)]
        BY <2>1, <2>2, RaiseAddedType
    <2>4. /\ serverCache' \in [Clients -> SUBSET Keys]
          /\ eventCache' \in [Clients -> SUBSET Keys]
        BY <2>1 DEF TypeOK
    <2>5. toClient' \in [Clients -> Seq(ServerMessages)]
        BY <2>1, ReceivedType
    <2> QED
        BY <2>1, <2>3, <2>4, <2>5 DEF TypeOK
<1>11. ASSUME NEW c \in Clients, ReceiveListenOk(c)
       PROVE  TypeOK'
    <2>1. /\ pendingWrites' \in [Clients -> SUBSET Keys]
          /\ putsToAck' \in [Clients -> SUBSET (Keys \X BOOLEAN)]
        BY <1>11 DEF ReceiveListenOk, TypeOK
    <2>2. /\ complete' \in [Clients -> SUBSET Locations]
          /\ unackedListensCount' \in [Clients -> Int]
        BY <1>11 DEF ReceiveListenOk, TypeOK
    <2>3. PICK l \in Locations :
              \E A : eventCache' = [eventCache EXCEPT ![c] =
                        AckedEventCache(c, A, complete[c] \cup {l},
                            (eventCache[c] \ KeysAt(l))
                            \cup ((serverCache[c] \cup pendingWrites[c]) \cap KeysAt(l)))]
        BY <1>11 DEF ReceiveListenOk
    <2>4. eventCache' \in [Clients -> SUBSET Keys]
        <3> DEFINE ec == (eventCache[c] \ KeysAt(l))
                         \cup ((serverCache[c] \cup pendingWrites[c]) \cap KeysAt(l))
        <3>1. PICK A : eventCache' = [eventCache EXCEPT ![c] =
                                         AckedEventCache(c, A, complete[c] \cup {l}, ec)]
            BY <2>3
        <3>2. ec \in SUBSET Keys
            BY DEF TypeOK
        <3>3. AckedEventCache(c, A, complete[c] \cup {l}, ec) \in SUBSET Keys
            BY <3>2, AckedEventCacheType
        <3> QED
            BY <3>1, <3>3 DEF TypeOK
    <2>5. mainQueue' \in [Clients -> Seq(Events)]
        <3>1. eventCache'[c] \in SUBSET Keys
            BY <2>4
        <3>2. RaiseAdded(c, eventCache'[c])
            BY <1>11 DEF ReceiveListenOk
        <3> QED
            BY <3>1, <3>2, RaiseAddedType
    <2>6. toClient' \in [Clients -> Seq(ServerMessages)]
        BY <1>11, ReceivedType DEF ReceiveListenOk
    <2> QED
        <3>1. UNCHANGED <<connectionState, putIndex, putCounter, serverCache,
                          registrations, toServer, listening, db, written, drops, kills>>
            BY <1>11 DEF ReceiveListenOk, serverVars, histVars
        <3> QED
            BY <1>11, <2>1, <2>2, <2>4, <2>5, <2>6, <3>1 DEF ReceiveListenOk, TypeOK
<1>12. ASSUME NEW c \in Clients, ReceivePutAck(c)
       PROVE  TypeOK'
    <2>1. /\ outstandingPuts' \in [Clients -> SUBSET Keys]
          /\ pendingWrites' \in [Clients -> SUBSET Keys]
          /\ putsToAck' \in [Clients -> SUBSET (Keys \X BOOLEAN)]
        BY <1>12 DEF ReceivePutAck, TypeOK
    <2>2. \E A : eventCache' = [eventCache EXCEPT ![c] =
                                   AckedEventCache(c, A, complete[c], @)]
        BY <1>12 DEF ReceivePutAck
    <2>3. eventCache' \in [Clients -> SUBSET Keys]
        <3>1. PICK A : eventCache' = [eventCache EXCEPT ![c] =
                           AckedEventCache(c, A, complete[c], eventCache[c])]
            BY <2>2
        <3>2. AckedEventCache(c, A, complete[c], eventCache[c]) \in SUBSET Keys
            BY AckedEventCacheType DEF TypeOK
        <3> QED
            BY <3>1, <3>2 DEF TypeOK
    <2>4. mainQueue' \in [Clients -> Seq(Events)]
        <3>1. eventCache'[c] \in SUBSET Keys
            BY <2>3
        <3>2. RaiseAdded(c, eventCache'[c])
            BY <1>12 DEF ReceivePutAck
        <3> QED
            BY <3>1, <3>2, RaiseAddedType
    <2>5. toClient' \in [Clients -> Seq(ServerMessages)]
        BY <1>12, ReceivedType DEF ReceivePutAck
    <2> QED
        <3>1. UNCHANGED <<connectionState, putIndex, putCounter, unackedListensCount,
                          serverCache, complete, registrations, toServer,
                          listening, db, written, drops, kills>>
            BY <1>12 DEF ReceivePutAck, serverVars, histVars
        <3> QED
            BY <2>1, <2>3, <2>4, <2>5, <3>1 DEF TypeOK
<1>13. ASSUME NEW c \in Clients, Dispatch(c)
       PROVE  TypeOK'
    <2>1. mainQueue[c] \in Seq(Events) /\ mainQueue[c] # <<>>
        BY <1>13 DEF Dispatch, TypeOK
    <2>2. Tail(mainQueue[c]) \in Seq(Events)
        BY <2>1, HeadTailProperties
    <2> QED
        BY <1>13, <2>2 DEF Dispatch, TypeOK
<1>14. ASSUME NEW c \in Clients, ServeAuth(c)
       PROVE  TypeOK'
    <2>1. <<AuthOk>> \in Seq(ServerMessages)
        BY MessageTypes, SingletonType
    <2>2. toClient' \in [Clients -> Seq(ServerMessages)]
        BY <1>14, <2>1, ReplyType DEF ServeAuth
    <2> QED
        BY <1>14, <2>2, RequestedType DEF ServeAuth, TypeOK
<1>15. ASSUME NEW c \in Clients, ServeListen(c)
       PROVE  TypeOK'
    <2>1. PICK l \in Locations, h \in SUBSET Keys :
              /\ Requested(c, {ListenMsg(l, h)})
              /\ listening' = [listening EXCEPT ![c] = @ \cup {l}]
              /\ Reply(c, (IF db \cap KeysAt(l) = h THEN <<>>
                           ELSE <<Snapshot(l, db \cap KeysAt(l))>>) \o <<ListenOk(l)>>)
              /\ UNCHANGED <<connVars, viewVars, db, histVars>>
        BY <1>15 DEF ServeListen
    <2> DEFINE head == IF db \cap KeysAt(l) = h THEN <<>>
                       ELSE <<Snapshot(l, db \cap KeysAt(l))>>
    <2>2. db \cap KeysAt(l) \in SUBSET Keys
        BY DEF TypeOK
    <2>3. Snapshot(l, db \cap KeysAt(l)) \in ServerMessages /\ ListenOk(l) \in ServerMessages
        BY <2>2, MessageTypes
    <2>4. head \in Seq(ServerMessages) /\ <<ListenOk(l)>> \in Seq(ServerMessages)
        BY <2>3, EmptySeq, SingletonType
    <2>5. head \o <<ListenOk(l)>> \in Seq(ServerMessages)
        BY <2>4, ConcatProperties
    <2>6. toClient' \in [Clients -> Seq(ServerMessages)]
        BY <2>1, <2>5, ReplyType
    <2>7. toServer' \in [Clients -> Seq(ClientMessages)]
        BY <2>1, RequestedType
    <2> QED
        BY <2>1, <2>6, <2>7 DEF TypeOK
<1>16. ASSUME NEW c \in Clients, ServePut(c)
       PROVE  TypeOK'
    <2>1. PICK k \in Keys :
              /\ Requested(c, {PutMsg(k)})
              /\ db' = db \cup {k}
              /\ toClient' = [d \in Clients |->
                    toClient[d]
                    \o (IF LocationOf[k] \in listening[d] /\ k \notin db
                        THEN <<ChildData(k)>> ELSE <<>>)
                    \o (IF d = c THEN <<PutAck(k, TRUE)>> ELSE <<>>)]
              /\ UNCHANGED <<connVars, viewVars, listening, histVars>>
        BY <1>16 DEF ServePut
    <2> DEFINE push(d) == IF LocationOf[k] \in listening[d] /\ k \notin db
                          THEN <<ChildData(k)>> ELSE <<>>
               ack(d)  == IF d = c THEN <<PutAck(k, TRUE)>> ELSE <<>>
    <2>2. ChildData(k) \in ServerMessages /\ PutAck(k, TRUE) \in ServerMessages
        BY MessageTypes
    <2>3. ASSUME NEW d \in Clients
          PROVE  toClient[d] \o push(d) \o ack(d) \in Seq(ServerMessages)
        <3>1. push(d) \in Seq(ServerMessages) /\ ack(d) \in Seq(ServerMessages)
            BY <2>2, EmptySeq, SingletonType
        <3>2. toClient[d] \in Seq(ServerMessages)
            BY DEF TypeOK
        <3> HIDE DEF push, ack
        <3> QED
            BY <3>1, <3>2, ConcatProperties
    <2>4. toClient' = [d \in Clients |-> toClient[d] \o push(d) \o ack(d)]
        BY <2>1
    <2>5. toClient' \in [Clients -> Seq(ServerMessages)]
        <3> HIDE DEF push, ack
        <3> QED
            BY <2>3, <2>4
    <2>6. toServer' \in [Clients -> Seq(ClientMessages)]
        BY <2>1, RequestedType
    <2> QED
        BY <2>1, <2>5, <2>6 DEF TypeOK
<1>17. ASSUME NEW c \in Clients, ServePutRefused(c)
       PROVE  TypeOK'
    <2>1. PICK k \in Keys : /\ Requested(c, {PutMsg(k)})
                            /\ Reply(c, <<PutAck(k, FALSE)>>)
                            /\ UNCHANGED <<connVars, viewVars, serverVars, histVars>>
        BY <1>17 DEF ServePutRefused
    <2>2. PutAck(k, FALSE) \in ServerMessages
        BY MessageTypes
    <2>3. <<PutAck(k, FALSE)>> \in Seq(ServerMessages)
        BY <2>2, SingletonType
    <2>4. toClient' \in [Clients -> Seq(ServerMessages)]
        BY <2>1, <2>3, ReplyType
    <2>5. toServer' \in [Clients -> Seq(ClientMessages)]
        BY <2>1, RequestedType
    <2> QED
        BY <2>1, <2>4, <2>5 DEF TypeOK
<1>18. CASE UNCHANGED dbVars
    BY <1>18 DEF dbVars, TypeOK
<1>19. CASE Next
    BY <1>1, <1>2, <1>3, <1>4, <1>5, <1>6, <1>7, <1>8, <1>9, <1>10, <1>11, <1>12,
       <1>13, <1>14, <1>15, <1>16, <1>17, <1>19
       DEF Next, Observe, OnReady, Receive, Serve
<1> QED
    BY <1>18, <1>19

\* Every variable of every reachable state holds what its declaration says,
\* for any number of clients, rooms, keys and screens.
THEOREM TypeCorrect == Spec => []TypeOK
<1> QED
    BY TypeInit, TypeStep, PTL DEF Spec

-----------------------------------------------------------------------------
(* No write is lost inside the client.  WritesAccountedFor is inductive    *)
(* once a pending write is known to be a written one: a key that is        *)
(* written now was not pending before.                                     *)

PendingAreWritten == \A c \in Clients : pendingWrites[c] \subseteq written

WritesInv == TypeOK /\ WritesAccountedFor /\ PendingAreWritten

\* Every action keeps the writes accounted for.
LEMMA WritesStep == WritesInv /\ [Next]_dbVars => WritesInv'
<1> SUFFICES ASSUME WritesInv, [Next]_dbVars
             PROVE  WritesAccountedFor' /\ PendingAreWritten'
    BY TypeStep DEF WritesInv
<1> USE DEF WritesInv, connVars, viewVars, netVars, serverVars, histVars
<1>1. ASSUME UNCHANGED <<outstandingPuts, putsToAck, pendingWrites, written>>
      PROVE  WritesAccountedFor' /\ PendingAreWritten'
    BY <1>1 DEF WritesAccountedFor, PendingAreWritten, AckedKeys
<1>2. ASSUME NEW c \in Clients, NEW k \in Keys, SetValue(c, k)
      PROVE  WritesAccountedFor' /\ PendingAreWritten'
    <2>1. /\ k \notin written
          /\ written' = written \cup {k}
          /\ pendingWrites' = [pendingWrites EXCEPT ![c] = @ \cup {k}]
          /\ outstandingPuts' = [outstandingPuts EXCEPT ![c] = @ \cup {k}]
          /\ putsToAck' = putsToAck
        BY <1>2 DEF SetValue
    <2>2. k \notin pendingWrites[c]
        BY <2>1 DEF PendingAreWritten
    <2>3. k \notin outstandingPuts[c] /\ k \notin AckedKeys(putsToAck[c])
        BY <2>2 DEF WritesAccountedFor
    <2>4. WritesAccountedFor'
        BY <2>1, <2>3 DEF WritesAccountedFor, AckedKeys, TypeOK
    <2>5. PendingAreWritten'
        BY <2>1 DEF PendingAreWritten, TypeOK
    <2> QED
        BY <2>4, <2>5
<1>3. ASSUME NEW c \in Clients, Kill(c)
      PROVE  WritesAccountedFor' /\ PendingAreWritten'
    <2>1. /\ written' = written
          /\ pendingWrites' = [pendingWrites EXCEPT ![c] = {}]
          /\ outstandingPuts' = [outstandingPuts EXCEPT ![c] = {}]
          /\ putsToAck' = [putsToAck EXCEPT ![c] = {}]
        BY <1>3 DEF Kill
    <2> QED
        BY <2>1 DEF WritesAccountedFor, PendingAreWritten, AckedKeys, TypeOK
<1>4. ASSUME NEW c \in Clients, ReceiveListenOk(c)
      PROVE  WritesAccountedFor' /\ PendingAreWritten'
    <2>1. PICK A \in {putsToAck[c], {}} :
              /\ pendingWrites' = [pendingWrites EXCEPT ![c] = @ \ AckedKeys(A)]
              /\ putsToAck' = [putsToAck EXCEPT ![c] = @ \ A]
        BY <1>4 DEF ReceiveListenOk
    <2>2. outstandingPuts' = outstandingPuts /\ written' = written
        BY <1>4 DEF ReceiveListenOk
    <2>3. AckedKeys(putsToAck'[c]) = AckedKeys(putsToAck[c]) \ AckedKeys(A)
        BY <2>1 DEF AckedKeys, TypeOK
    <2>4. WritesAccountedFor'
        <3> SUFFICES ASSUME NEW d \in Clients
                     PROVE  /\ pendingWrites'[d] = outstandingPuts[d] \cup AckedKeys(putsToAck'[d])
                            /\ outstandingPuts[d] \cap AckedKeys(putsToAck'[d]) = {}
            BY <2>2 DEF WritesAccountedFor, AckedKeys
        <3>1. CASE d = c
            <4>1. pendingWrites'[c] = pendingWrites[c] \ AckedKeys(A)
                BY <2>1 DEF TypeOK
            <4>2. AckedKeys(A) \subseteq AckedKeys(putsToAck[c])
                BY <2>1 DEF AckedKeys
            <4> QED
                BY <3>1, <4>1, <4>2, <2>3 DEF WritesAccountedFor
        <3>2. CASE d # c
            <4>1. pendingWrites'[d] = pendingWrites[d] /\ putsToAck'[d] = putsToAck[d]
                BY <2>1, <3>2 DEF TypeOK
            <4> QED
                BY <4>1 DEF WritesAccountedFor
        <3> QED
            BY <3>1, <3>2
    <2>5. PendingAreWritten'
        BY <2>1, <2>2 DEF PendingAreWritten, TypeOK
    <2> QED
        BY <2>4, <2>5
<1>5. ASSUME NEW c \in Clients, ReceivePutAck(c)
      PROVE  WritesAccountedFor' /\ PendingAreWritten'
    <2>1. PICK k \in Keys, ok \in BOOLEAN :
              LET answered == IF k \in outstandingPuts[c] THEN {<<k, ok>>} ELSE {}
                  A        == IF AckNow(c) THEN answered ELSE {}
              IN  /\ outstandingPuts' = [outstandingPuts EXCEPT ![c] = @ \ {k}]
                  /\ pendingWrites' = [pendingWrites EXCEPT ![c] = @ \ AckedKeys(A)]
                  /\ putsToAck' = [putsToAck EXCEPT ![c] = @ \cup (answered \ A)]
        BY <1>5 DEF ReceivePutAck
    <2>2. written' = written
        BY <1>5 DEF ReceivePutAck
    <2>3. ASSUME NEW d \in Clients, d # c
          PROVE  /\ pendingWrites'[d] = pendingWrites[d]
                 /\ putsToAck'[d] = putsToAck[d]
                 /\ outstandingPuts'[d] = outstandingPuts[d]
        BY <2>1, <2>3 DEF TypeOK
    <2>4. /\ pendingWrites'[c] = outstandingPuts'[c] \cup AckedKeys(putsToAck'[c])
          /\ outstandingPuts'[c] \cap AckedKeys(putsToAck'[c]) = {}
        <3>1. CASE k \notin outstandingPuts[c]
            <4>1. /\ outstandingPuts'[c] = outstandingPuts[c]
                  /\ pendingWrites'[c] = pendingWrites[c]
                  /\ putsToAck'[c] = putsToAck[c]
                BY <2>1, <3>1 DEF AckedKeys, TypeOK
            <4> QED
                BY <4>1 DEF WritesAccountedFor
        <3>2. CASE k \in outstandingPuts[c] /\ AckNow(c)
            <4>1. AckedKeys({<<k, ok>>}) = {k}
                BY DEF AckedKeys
            <4>2. /\ outstandingPuts'[c] = outstandingPuts[c] \ {k}
                  /\ pendingWrites'[c] = pendingWrites[c] \ {k}
                  /\ putsToAck'[c] = putsToAck[c]
                BY <2>1, <3>2, <4>1 DEF TypeOK
            <4> QED
                BY <3>2, <4>2 DEF WritesAccountedFor
        <3>3. CASE k \in outstandingPuts[c] /\ ~AckNow(c)
            <4>1. AckedKeys({}) = {}
                BY DEF AckedKeys
            <4>2. AckedKeys(putsToAck[c] \cup {<<k, ok>>}) = AckedKeys(putsToAck[c]) \cup {k}
                BY DEF AckedKeys
            <4>3. /\ outstandingPuts'[c] = outstandingPuts[c] \ {k}
                  /\ pendingWrites'[c] = pendingWrites[c]
                  /\ putsToAck'[c] = putsToAck[c] \cup {<<k, ok>>}
                BY <2>1, <3>3, <4>1 DEF TypeOK
            <4>4. AckedKeys(putsToAck'[c]) = AckedKeys(putsToAck[c]) \cup {k}
                BY <4>2, <4>3
            <4>5. /\ pendingWrites[c] = outstandingPuts[c] \cup AckedKeys(putsToAck[c])
                  /\ outstandingPuts[c] \cap AckedKeys(putsToAck[c]) = {}
                BY DEF WritesAccountedFor
            <4> HIDE DEF WritesInv
            <4> QED
                BY <3>3, <4>3, <4>4, <4>5
        <3> QED
            BY <3>1, <3>2, <3>3
    <2>5. WritesAccountedFor'
        BY <2>3, <2>4 DEF WritesAccountedFor, AckedKeys
    <2>6. PendingAreWritten'
        BY <2>1, <2>2 DEF PendingAreWritten, TypeOK
    <2> QED
        BY <2>5, <2>6
<1>6. CASE UNCHANGED dbVars
    BY <1>1, <1>6 DEF dbVars
<1>7. CASE Next
    <2>1. PICK c \in Clients :
              \/ \E r \in Observers, l \in Locations : Observe(c, r, l)
              \/ \E k \in Keys : SetValue(c, k)
              \/ Dispatch(c)
              \/ OnReady(c)
              \/ OnDisconnect(c)
              \/ Kill(c)
              \/ Receive(c)
              \/ Serve(c)
        BY <1>7 DEF Next
    <2>2. ASSUME \E r \in Observers, l \in Locations : Observe(c, r, l)
          PROVE  UNCHANGED <<outstandingPuts, putsToAck, pendingWrites, written>>
        BY <2>2 DEF Observe, ObserveNew, ObserveExisting
    <2>3. ASSUME Dispatch(c) \/ OnReady(c) \/ OnDisconnect(c)
          PROVE  UNCHANGED <<outstandingPuts, putsToAck, pendingWrites, written>>
        BY <2>3 DEF Dispatch, OnReady, OnReadyUnauthenticated, OnReadyWithToken, OnDisconnect, Disconnect
    <2>4. ASSUME ReceiveAuthOk(c) \/ ReceiveSnapshot(c) \/ ReceiveChild(c)
          PROVE  UNCHANGED <<outstandingPuts, putsToAck, pendingWrites, written>>
        BY <2>4 DEF ReceiveAuthOk, ReceiveSnapshot, ReceiveChild
    <2>5. ASSUME Serve(c)
          PROVE  UNCHANGED <<outstandingPuts, putsToAck, pendingWrites, written>>
        BY <2>5 DEF Serve, ServeAuth, ServeListen, ServePut, ServePutRefused
    <2> QED
        BY <1>1, <1>2, <1>3, <1>4, <1>5, <2>1, <2>2, <2>3, <2>4, <2>5 DEF Receive
<1> QED
    BY <1>6, <1>7

\* A pending write is always waiting for its response or its response is held
\* back, never both and never neither, whatever is lost or refused.
THEOREM NoWriteIsLost == Spec => []WritesAccountedFor
<1>1. Init => WritesInv
    BY TypeInit DEF Init, WritesInv, WritesAccountedFor, PendingAreWritten, AckedKeys
<1>2. WritesInv => WritesAccountedFor
    BY DEF WritesInv
<1> QED
    BY <1>1, <1>2, WritesStep, PTL DEF Spec

-----------------------------------------------------------------------------
(* A write is forgotten only if it is saved.  A response on its way to a   *)
(* client, or held back by it, was given by the server: the key is in the  *)
(* database, or the server refuses writes.                                 *)

Justified(k, ok) == IF ok THEN k \in db ELSE MayReject

AcksJustified ==
    \A c \in Clients, k \in Keys, ok \in BOOLEAN :
        PutAck(k, ok) \in ToSet(toClient[c]) \/ <<k, ok>> \in putsToAck[c]
        => Justified(k, ok)

AcksInv == TypeOK /\ AcksJustified

\* What is left when the head is taken was there before; the head too.
LEMMA TailElements ==
    ASSUME NEW T, NEW s \in Seq(T), s # <<>>
    PROVE  ToSet(Tail(s)) \subseteq ToSet(s) /\ Head(s) \in ToSet(s)
<1>1. /\ DOMAIN s = 1..Len(s) /\ Len(s) \in Nat \ {0}
      /\ DOMAIN Tail(s) = 1..(Len(s) - 1)
      /\ \A i \in 1..(Len(s) - 1) : Tail(s)[i] = s[i + 1]
      /\ Head(s) = s[1]
    BY HeadTailProperties, LenProperties, EmptySeq
<1> QED
    BY <1>1 DEF ToSet

\* The elements of a concatenation are those of its parts.
LEMMA ConcatElements ==
    ASSUME NEW T, NEW s \in Seq(T), NEW t \in Seq(T)
    PROVE  ToSet(s \o t) = ToSet(s) \cup ToSet(t)
<1>1. /\ DOMAIN s = 1..Len(s) /\ Len(s) \in Nat
      /\ DOMAIN t = 1..Len(t) /\ Len(t) \in Nat
    BY LenProperties
<1>2. /\ DOMAIN (s \o t) = 1..(Len(s) + Len(t))
      /\ \A i \in 1..(Len(s) + Len(t)) :
            (s \o t)[i] = IF i <= Len(s) THEN s[i] ELSE t[i - Len(s)]
    BY ConcatProperties, LenProperties
<1>3. ASSUME NEW x \in ToSet(s) PROVE x \in ToSet(s \o t)
    <2>1. PICK i \in 1..Len(s) : x = s[i]
        BY <1>1 DEF ToSet
    <2>2. i \in 1..(Len(s) + Len(t)) /\ (s \o t)[i] = x
        BY <1>1, <1>2, <2>1
    <2> QED
        BY <1>2, <2>2 DEF ToSet
<1>4. ASSUME NEW x \in ToSet(t) PROVE x \in ToSet(s \o t)
    <2>1. PICK i \in 1..Len(t) : x = t[i]
        BY <1>1 DEF ToSet
    <2>2. i + Len(s) \in 1..(Len(s) + Len(t)) /\ (s \o t)[i + Len(s)] = x
        BY <1>1, <1>2, <2>1
    <2> QED
        BY <1>2, <2>2 DEF ToSet
<1>5. ASSUME NEW x \in ToSet(s \o t) PROVE x \in ToSet(s) \cup ToSet(t)
    <2>1. PICK i \in 1..(Len(s) + Len(t)) : x = (s \o t)[i]
        BY <1>2 DEF ToSet
    <2>2. CASE i <= Len(s)
        BY <1>1, <1>2, <2>1, <2>2 DEF ToSet
    <2>3. CASE ~(i <= Len(s))
        <3>1. i - Len(s) \in 1..Len(t) /\ x = t[i - Len(s)]
            BY <1>1, <1>2, <2>1, <2>3
        <3> QED
            BY <1>1, <3>1 DEF ToSet
    <2> QED
        BY <2>2, <2>3
<1> QED
    BY <1>3, <1>4, <1>5

\* A sequence of one value, or of none.
LEMMA SingletonElements ==
    /\ ToSet(<<>>) = {}
    /\ \A x : ToSet(<<x>>) = {x}
<1>1. ASSUME NEW x PROVE ToSet(<<x>>) = {x}
    <2>1. DOMAIN <<x>> = 1..1 /\ <<x>>[1] = x
        OBVIOUS
    <2>2. ToSet(<<x>>) = {<<x>>[i] : i \in 1..1}
        BY <2>1 DEF ToSet
    <2>3. \A i : i \in 1..1 <=> i = 1
        OBVIOUS
    <2> QED
        BY <2>1, <2>2, <2>3
<1>2. ToSet(<<>>) = {}
    BY DEF ToSet
<1> QED
    BY <1>1, <1>2

\* A response to a put is none of the other messages, and names its key.
LEMMA PutAckDistinct ==
    \A k \in Keys, ok \in BOOLEAN :
        /\ PutAck(k, ok) # AuthOk
        /\ \A l \in Locations, S \in SUBSET Keys : PutAck(k, ok) # Snapshot(l, S)
        /\ \A j \in Keys : PutAck(k, ok) # ChildData(j)
        /\ \A l \in Locations : PutAck(k, ok) # ListenOk(l)
        /\ \A j \in Keys, o \in BOOLEAN : PutAck(k, ok) = PutAck(j, o) => k = j /\ ok = o
BY DEF PutAck, AuthOk, Snapshot, ChildData, ListenOk

\* At first there is no response to justify.
LEMMA AcksInit == Init => AcksJustified
<1>1. ToSet(<<>>) = {}
    BY DEF ToSet
<1> QED
    BY <1>1 DEF Init, AcksJustified

\* A step that adds no response keeps the responses justified.
LEMMA NoNewAcks ==
    ASSUME AcksInv, db' = db,
           \A c \in Clients : /\ ToSet(toClient'[c]) \subseteq ToSet(toClient[c])
                              /\ putsToAck'[c] \subseteq putsToAck[c]
    PROVE  AcksJustified'
BY DEF AcksInv, AcksJustified, Justified

\* Taking a message off a channel adds none.
LEMMA ReceivedElements ==
    ASSUME TypeOK, NEW c \in Clients, NEW M, Received(c, M)
    PROVE  /\ \A d \in Clients : ToSet(toClient'[d]) \subseteq ToSet(toClient[d])
           /\ Head(toClient[c]) \in ToSet(toClient[c]) \cap M
<1>1. toClient[c] \in Seq(ServerMessages) /\ toClient[c] # <<>>
    BY DEF TypeOK, Received
<1>2. ToSet(Tail(toClient[c])) \subseteq ToSet(toClient[c]) /\ Head(toClient[c]) \in ToSet(toClient[c])
    BY <1>1, TailElements
<1>3. \A d \in Clients : toClient'[d] = IF d = c THEN Tail(toClient[c]) ELSE toClient[d]
    BY DEF Received, TypeOK
<1> QED
    BY <1>2, <1>3 DEF Received

\* A reply that holds no unjustified response keeps the responses justified.
LEMMA JustifiedReply ==
    ASSUME AcksInv, NEW c \in Clients, NEW ms \in Seq(ServerMessages), Reply(c, ms),
           db' = db, putsToAck' = putsToAck,
           \A k \in Keys, ok \in BOOLEAN : PutAck(k, ok) \in ToSet(ms) => Justified(k, ok)
    PROVE  AcksJustified'
<1>1. toClient \in [Clients -> Seq(ServerMessages)]
    BY DEF AcksInv, TypeOK
<1>2. ToSet(toClient[c] \o ms) = ToSet(toClient[c]) \cup ToSet(ms)
    BY <1>1, ConcatElements
<1>3. \A d \in Clients : toClient'[d] = IF d = c THEN toClient[c] \o ms ELSE toClient[d]
    BY <1>1 DEF Reply
<1>4. \A d \in Clients : ToSet(toClient'[d]) \subseteq ToSet(toClient[d]) \cup ToSet(ms)
    BY <1>2, <1>3
<1> QED
    BY <1>4 DEF AcksInv, AcksJustified, Justified

\* Every action keeps the responses justified: only ServePut adds one, and it
\* stores the child first.
LEMMA AcksStep == AcksInv /\ [Next]_dbVars => AcksInv'
<1> SUFFICES ASSUME AcksInv, [Next]_dbVars
             PROVE  AcksJustified'
    BY TypeStep DEF AcksInv
<1> USE DEF connVars, viewVars, netVars, serverVars, histVars
<1>1. ASSUME UNCHANGED <<putsToAck, toClient, db>>
      PROVE  AcksJustified'
    BY <1>1, NoNewAcks
<1>2. ASSUME NEW c \in Clients, OnDisconnect(c) \/ Kill(c)
      PROVE  AcksJustified'
    <2>1. /\ toClient' = [toClient EXCEPT ![c] = <<>>]
          /\ putsToAck' = putsToAck \/ putsToAck' = [putsToAck EXCEPT ![c] = {}]
          /\ db' = db
        BY <1>2 DEF OnDisconnect, Disconnect, Kill
    <2>2. \A d \in Clients : toClient'[d] = <<>> \/ toClient'[d] = toClient[d]
        BY <2>1 DEF AcksInv, TypeOK
    <2>3. ToSet(<<>>) = {}
        BY DEF ToSet
    <2>4. \A d \in Clients : ToSet(toClient'[d]) \subseteq ToSet(toClient[d])
        BY <2>2, <2>3
    <2>5. \A d \in Clients : putsToAck'[d] \subseteq putsToAck[d]
        BY <2>1 DEF AcksInv, TypeOK
    <2> QED
        BY <2>1, <2>4, <2>5, NoNewAcks
<1>3. ASSUME NEW c \in Clients, NEW M, Received(c, M), putsToAck' = putsToAck, db' = db
      PROVE  AcksJustified'
    <2>1. \A d \in Clients : ToSet(toClient'[d]) \subseteq ToSet(toClient[d])
        BY <1>3, ReceivedElements DEF AcksInv
    <2> QED
        BY <1>3, <2>1, NoNewAcks
<1>4. ASSUME NEW c \in Clients, ReceiveListenOk(c)
      PROVE  AcksJustified'
    <2>1. PICK l \in Locations : Received(c, {ListenOk(l)})
        BY <1>4 DEF ReceiveListenOk
    <2>2. \A d \in Clients : ToSet(toClient'[d]) \subseteq ToSet(toClient[d])
        BY <2>1, ReceivedElements DEF AcksInv
    <2>3. \E A : putsToAck' = [putsToAck EXCEPT ![c] = @ \ A]
        BY <1>4 DEF ReceiveListenOk
    <2>4. \A d \in Clients : putsToAck'[d] \subseteq putsToAck[d]
        BY <2>3 DEF AcksInv, TypeOK
    <2> QED
        BY <1>4, <2>2, <2>4, NoNewAcks DEF ReceiveListenOk
<1>5. ASSUME NEW c \in Clients, ReceivePutAck(c)
      PROVE  AcksJustified'
    <2>1. PICK k \in Keys, ok \in BOOLEAN :
              /\ Received(c, {PutAck(k, ok)})
              /\ \E A : /\ A \subseteq {<<k, ok>>}
                        /\ putsToAck' = [putsToAck EXCEPT ![c] = @ \cup A]
        <3>1. PICK k \in Keys, ok \in BOOLEAN :
                  /\ Received(c, {PutAck(k, ok)})
                  /\ LET answered == IF k \in outstandingPuts[c] THEN {<<k, ok>>} ELSE {}
                         A        == IF AckNow(c) THEN answered ELSE {}
                     IN  putsToAck' = [putsToAck EXCEPT ![c] = @ \cup (answered \ A)]
            BY <1>5 DEF ReceivePutAck
        <3> DEFINE answered == IF k \in outstandingPuts[c] THEN {<<k, ok>>} ELSE {}
                   A        == IF AckNow(c) THEN answered ELSE {}
        <3>2. answered \ A \subseteq {<<k, ok>>}
            OBVIOUS
        <3>3. putsToAck' = [putsToAck EXCEPT ![c] = @ \cup (answered \ A)]
            BY <3>1
        <3> HIDE DEF answered, A
        <3> QED
            BY <3>1, <3>2, <3>3
    <2>2. /\ \A d \in Clients : ToSet(toClient'[d]) \subseteq ToSet(toClient[d])
          /\ PutAck(k, ok) \in ToSet(toClient[c])
        BY <2>1, ReceivedElements DEF AcksInv
    <2>3. Justified(k, ok)
        BY <2>2 DEF AcksInv, AcksJustified
    <2>4. \A d \in Clients : putsToAck'[d] \subseteq putsToAck[d] \cup {<<k, ok>>}
        BY <2>1 DEF AcksInv, TypeOK
    <2>5. db' = db
        BY <1>5 DEF ReceivePutAck
    <2>6. \A i \in Keys, o \in BOOLEAN : Justified(i, o) => Justified(i, o)'
        BY <2>5 DEF Justified
    <2> QED
        BY <2>2, <2>3, <2>4, <2>6 DEF AcksInv, AcksJustified
<1>6. ASSUME NEW c \in Clients, ServeAuth(c)
      PROVE  AcksJustified'
    <2>1. <<AuthOk>> \in Seq(ServerMessages)
        BY MessageTypes, SingletonType
    <2>2. ToSet(<<AuthOk>>) = {AuthOk}
        BY DEF ToSet
    <2> QED
        BY <1>6, <2>1, <2>2, PutAckDistinct, JustifiedReply DEF ServeAuth
<1>7. ASSUME NEW c \in Clients, ServeListen(c)
      PROVE  AcksJustified'
    <2>1. PICK l \in Locations, h \in SUBSET Keys :
              /\ Reply(c, (IF db \cap KeysAt(l) = h THEN <<>>
                           ELSE <<Snapshot(l, db \cap KeysAt(l))>>) \o <<ListenOk(l)>>)
              /\ UNCHANGED <<connVars, viewVars, db, histVars>>
        BY <1>7 DEF ServeListen
    <2> DEFINE data == IF db \cap KeysAt(l) = h THEN <<>>
                       ELSE <<Snapshot(l, db \cap KeysAt(l))>>
    <2>2. db \cap KeysAt(l) \in SUBSET Keys
        BY DEF AcksInv, TypeOK
    <2>3. Snapshot(l, db \cap KeysAt(l)) \in ServerMessages /\ ListenOk(l) \in ServerMessages
        BY <2>2, MessageTypes
    <2>4. data \in Seq(ServerMessages) /\ <<ListenOk(l)>> \in Seq(ServerMessages)
        BY <2>3, EmptySeq, SingletonType
    <2>5. ToSet(data) \subseteq {Snapshot(l, db \cap KeysAt(l))} /\ ToSet(<<ListenOk(l)>>) = {ListenOk(l)}
        BY SingletonElements
    <2>6. Reply(c, data \o <<ListenOk(l)>>)
        BY <2>1
    <2> HIDE DEF data
    <2>7. data \o <<ListenOk(l)>> \in Seq(ServerMessages)
        BY <2>4, ConcatProperties
    <2>8. ToSet(data \o <<ListenOk(l)>>) \subseteq {Snapshot(l, db \cap KeysAt(l)), ListenOk(l)}
        <3>1. PICK resp \in Seq(ServerMessages) : resp = <<ListenOk(l)>>
            BY <2>4
        <3>2. ToSet(data \o resp) = ToSet(data) \cup ToSet(resp)
            BY <2>4, ConcatElements
        <3> QED
            BY <2>5, <3>1, <3>2
    <2>9. \A k \in Keys, ok \in BOOLEAN : PutAck(k, ok) \notin ToSet(data \o <<ListenOk(l)>>)
        BY <2>2, <2>8, PutAckDistinct
    <2> QED
        BY <2>1, <2>6, <2>7, <2>9, JustifiedReply
<1>8. ASSUME NEW c \in Clients, ServePut(c)
      PROVE  AcksJustified'
    <2>1. PICK k \in Keys :
              /\ db' = db \cup {k}
              /\ toClient' = [d \in Clients |->
                    toClient[d]
                    \o (IF LocationOf[k] \in listening[d] /\ k \notin db
                        THEN <<ChildData(k)>> ELSE <<>>)
                    \o (IF d = c THEN <<PutAck(k, TRUE)>> ELSE <<>>)]
              /\ putsToAck' = putsToAck
        BY <1>8 DEF ServePut
    <2> DEFINE push(d) == IF LocationOf[k] \in listening[d] /\ k \notin db
                          THEN <<ChildData(k)>> ELSE <<>>
               ack(d)  == IF d = c THEN <<PutAck(k, TRUE)>> ELSE <<>>
    <2>2. ASSUME NEW d \in Clients
          PROVE  ToSet(toClient'[d]) \subseteq
                     ToSet(toClient[d]) \cup {ChildData(k), PutAck(k, TRUE)}
        <3>1. ChildData(k) \in ServerMessages /\ PutAck(k, TRUE) \in ServerMessages
            BY MessageTypes
        <3>2. push(d) \in Seq(ServerMessages) /\ ack(d) \in Seq(ServerMessages)
            BY <3>1, EmptySeq, SingletonType
        <3>3. ToSet(push(d)) \subseteq {ChildData(k)} /\ ToSet(ack(d)) \subseteq {PutAck(k, TRUE)}
            BY SingletonElements
        <3>4. toClient[d] \in Seq(ServerMessages)
            BY DEF AcksInv, TypeOK
        <3>5. toClient'[d] = toClient[d] \o push(d) \o ack(d)
            BY <2>1
        <3> HIDE DEF push, ack
        <3>6. toClient[d] \o push(d) \in Seq(ServerMessages)
            BY <3>2, <3>4, ConcatProperties
        <3>7. \A s, t \in Seq(ServerMessages) : ToSet(s \o t) = ToSet(s) \cup ToSet(t)
            BY ConcatElements
        <3>8. ToSet(toClient[d] \o push(d)) = ToSet(toClient[d]) \cup ToSet(push(d))
            BY <3>2, <3>4, <3>7
        <3>9. ToSet(toClient'[d]) = ToSet(toClient[d] \o push(d)) \cup ToSet(ack(d))
            BY <3>2, <3>5, <3>6, <3>7
        <3> QED
            BY <3>3, <3>8, <3>9
    <2>3. ASSUME NEW d \in Clients, NEW i \in Keys, NEW o \in BOOLEAN,
                 PutAck(i, o) \in ToSet(toClient'[d]) \/ <<i, o>> \in putsToAck'[d]
          PROVE  Justified(i, o)'
        <3>1. CASE PutAck(i, o) \in ToSet(toClient[d]) \/ <<i, o>> \in putsToAck[d]
            BY <2>1, <3>1 DEF AcksInv, AcksJustified, Justified
        <3>2. CASE PutAck(i, o) \in {ChildData(k), PutAck(k, TRUE)}
            <4>1. i = k /\ o = TRUE
                BY <3>2, PutAckDistinct
            <4> QED
                BY <2>1, <4>1 DEF Justified
        <3> QED
            BY <2>1, <2>2, <2>3, <3>1, <3>2
    <2> QED
        BY <2>3 DEF AcksJustified
<1>9. ASSUME NEW c \in Clients, ServePutRefused(c)
      PROVE  AcksJustified'
    <2>1. PICK k \in Keys : MayReject /\ Reply(c, <<PutAck(k, FALSE)>>)
        BY <1>9 DEF ServePutRefused
    <2>2. <<PutAck(k, FALSE)>> \in Seq(ServerMessages)
        BY MessageTypes, SingletonType
    <2>3. ToSet(<<PutAck(k, FALSE)>>) = {PutAck(k, FALSE)}
        BY SingletonElements
    <2>4. \A j \in Keys, ok \in BOOLEAN :
             PutAck(j, ok) \in ToSet(<<PutAck(k, FALSE)>>) => Justified(j, ok)
        BY <2>1, <2>3, PutAckDistinct DEF Justified
    <2>5. db' = db /\ putsToAck' = putsToAck
        BY <1>9 DEF ServePutRefused
    <2> QED
        BY <2>1, <2>2, <2>4, <2>5, JustifiedReply
<1>10. ASSUME NEW c \in Clients, ReceiveAuthOk(c) \/ ReceiveSnapshot(c) \/ ReceiveChild(c)
       PROVE  AcksJustified'
    <2>1. \E M : Received(c, M)
        BY <1>10 DEF ReceiveAuthOk, ReceiveSnapshot, ReceiveChild
    <2>2. putsToAck' = putsToAck /\ db' = db
        BY <1>10 DEF ReceiveAuthOk, ReceiveSnapshot, ReceiveChild
    <2> QED
        BY <1>3, <2>1, <2>2
<1>11. CASE UNCHANGED dbVars
    BY <1>1, <1>11 DEF dbVars
<1>12. CASE Next
    <2>1. PICK c \in Clients :
              \/ \E r \in Observers, l \in Locations : Observe(c, r, l)
              \/ \E k \in Keys : SetValue(c, k)
              \/ Dispatch(c)
              \/ OnReady(c)
              \/ OnDisconnect(c)
              \/ Kill(c)
              \/ Receive(c)
              \/ Serve(c)
        BY <1>12 DEF Next
    <2>2. ASSUME \E r \in Observers, l \in Locations : Observe(c, r, l)
          PROVE  UNCHANGED <<putsToAck, toClient, db>>
        BY <2>2 DEF Observe, ObserveNew, ObserveExisting
    <2>3. ASSUME \E k \in Keys : SetValue(c, k)
          PROVE  UNCHANGED <<putsToAck, toClient, db>>
        BY <2>3 DEF SetValue
    <2>4. ASSUME Dispatch(c) \/ OnReady(c)
          PROVE  UNCHANGED <<putsToAck, toClient, db>>
        BY <2>4 DEF Dispatch, OnReady, OnReadyUnauthenticated, OnReadyWithToken
    <2> QED
        BY <1>1, <1>2, <1>4, <1>5, <1>6, <1>7, <1>8, <1>9, <1>10, <2>1, <2>2, <2>3, <2>4
           DEF Receive, Serve
<1> QED
    BY <1>11, <1>12

\* A write stops being pending without the death of its process: if none is
\* refused, the server holds it.
LEMMA ForgottenAreSaved ==
    ASSUME AcksInv, Next, kills' = kills, ~MayReject, NEW d \in Clients,
           NEW j \in pendingWrites[d] \ pendingWrites'[d]
    PROVE  j \in db
<1> USE DEF connVars, viewVars, netVars, serverVars, histVars
<1>1. PICK c \in Clients :
          \/ \E r \in Observers, l \in Locations : Observe(c, r, l)
          \/ \E k \in Keys : SetValue(c, k)
          \/ Dispatch(c)
          \/ OnReady(c)
          \/ OnDisconnect(c)
          \/ Kill(c)
          \/ Receive(c)
          \/ Serve(c)
    BY DEF Next
<1>2. ASSUME pendingWrites' = pendingWrites
      PROVE  FALSE
    BY <1>2
<1>3. CASE \E r \in Observers, l \in Locations : Observe(c, r, l)
    BY <1>2, <1>3 DEF Observe, ObserveNew, ObserveExisting
<1>4. CASE \E k \in Keys : SetValue(c, k)
    BY <1>4 DEF SetValue, AcksInv, TypeOK
<1>5. CASE Dispatch(c) \/ OnReady(c) \/ OnDisconnect(c)
    BY <1>2, <1>5 DEF Dispatch, OnReady, OnReadyUnauthenticated, OnReadyWithToken, OnDisconnect, Disconnect
<1>6. CASE Kill(c)
    BY <1>6 DEF Kill, AcksInv, TypeOK
<1>7. CASE ReceiveAuthOk(c) \/ ReceiveSnapshot(c) \/ ReceiveChild(c)
    BY <1>2, <1>7 DEF ReceiveAuthOk, ReceiveSnapshot, ReceiveChild
<1>8. CASE ReceiveListenOk(c)
    <2>1. PICK A \in {putsToAck[c], {}} :
              pendingWrites' = [pendingWrites EXCEPT ![c] = @ \ AckedKeys(A)]
        BY <1>8 DEF ReceiveListenOk
    <2>2. d = c /\ j \in AckedKeys(A)
        BY <2>1 DEF AcksInv, TypeOK
    <2>3. PICK ok \in BOOLEAN : j \in Keys /\ <<j, ok>> \in putsToAck[c]
        BY <2>1, <2>2 DEF AckedKeys
    <2>4. Justified(j, ok)
        BY <2>3 DEF AcksInv, AcksJustified
    <2> QED
        BY <2>4 DEF Justified
<1>9. CASE ReceivePutAck(c)
    <2>1. PICK k \in Keys, ok \in BOOLEAN :
              /\ Received(c, {PutAck(k, ok)})
              /\ \E A \in {{}, {<<k, ok>>}} :
                    pendingWrites' = [pendingWrites EXCEPT ![c] = @ \ AckedKeys(A)]
        BY <1>9 DEF ReceivePutAck
    <2>2. AckedKeys({}) = {} /\ AckedKeys({<<k, ok>>}) = {k}
        BY DEF AckedKeys
    <2>3. d = c /\ j = k
        <3>1. PICK A \in {{}, {<<k, ok>>}} :
                  pendingWrites' = [pendingWrites EXCEPT ![c] = @ \ AckedKeys(A)]
            BY <2>1
        <3>2. pendingWrites'[d] = IF d = c THEN pendingWrites[d] \ AckedKeys(A)
                                  ELSE pendingWrites[d]
            BY <3>1 DEF AcksInv, TypeOK
        <3>3. AckedKeys(A) \subseteq {k}
            BY <2>2
        <3> QED
            BY <3>2, <3>3
    <2>4. PutAck(k, ok) \in ToSet(toClient[c])
        BY <2>1, ReceivedElements DEF AcksInv
    <2>5. Justified(k, ok)
        BY <2>4 DEF AcksInv, AcksJustified
    <2> QED
        BY <2>3, <2>5 DEF Justified
<1>10. CASE Serve(c)
    BY <1>2, <1>10 DEF Serve, ServeAuth, ServeListen, ServePut, ServePutRefused
<1> QED
    BY <1>1, <1>3, <1>4, <1>5, <1>6, <1>7, <1>8, <1>9, <1>10 DEF Receive

\* No step but the death of a process makes a write stop being pending that
\* the server does not hold, if the server refuses none: over lost
\* connections, puts sent again, and responses held back.
THEOREM ForgottenWritesAreSaved == Spec => ForgottenOnlyIfSaved
<1> DEFINE Kept == \A c \in Clients :
                      kills' = kills /\ ~MayReject
                      => pendingWrites[c] \ pendingWrites'[c] \subseteq db
<1>1. Init => AcksInv
    BY TypeInit, AcksInit DEF AcksInv
<1>2. AcksInv /\ [Next]_dbVars => [Kept]_dbVars
    BY ForgottenAreSaved
<1> QED
    BY <1>1, <1>2, AcksStep, PTL DEF Spec, ForgottenOnlyIfSaved

-----------------------------------------------------------------------------
(* Order, uniqueness and number of the messages in a channel.              *)

\* Some message of M is ahead of an occurrence of n.
Before(s, M, n) == \E i, j \in DOMAIN s : i < j /\ s[i] \in M /\ s[j] = n

\* At most one message of s is in M.
Once(s, M) == \A i, j \in DOMAIN s : s[i] \in M /\ s[j] \in M => i = j

\* A sequence and what is left of it without its head, index by index.
LEMMA TailIndices ==
    ASSUME NEW T, NEW s \in Seq(T), s # <<>>
    PROVE  /\ DOMAIN s = 1..Len(s) /\ Len(s) \in Nat \ {0}
           /\ DOMAIN Tail(s) = 1..(Len(s) - 1)
           /\ \A i \in 1..(Len(s) - 1) : Tail(s)[i] = s[i + 1]
           /\ Head(s) = s[1]
BY HeadTailProperties, LenProperties, EmptySeq

\* A concatenation and its parts, index by index.
LEMMA ConcatIndices ==
    ASSUME NEW T, NEW s \in Seq(T), NEW t \in Seq(T)
    PROVE  /\ DOMAIN s = 1..Len(s) /\ Len(s) \in Nat
           /\ DOMAIN t = 1..Len(t) /\ Len(t) \in Nat
           /\ DOMAIN (s \o t) = 1..(Len(s) + Len(t))
           /\ \A i \in 1..Len(s) : (s \o t)[i] = s[i]
           /\ \A i \in 1..Len(t) : (s \o t)[Len(s) + i] = t[i]
<1>1. /\ DOMAIN s = 1..Len(s) /\ Len(s) \in Nat
      /\ DOMAIN t = 1..Len(t) /\ Len(t) \in Nat
    BY LenProperties
<1>2. /\ DOMAIN (s \o t) = 1..(Len(s) + Len(t))
      /\ \A i \in 1..(Len(s) + Len(t)) :
            (s \o t)[i] = IF i <= Len(s) THEN s[i] ELSE t[i - Len(s)]
    BY ConcatProperties, LenProperties
<1>3. ASSUME NEW i \in 1..Len(t)
      PROVE  (s \o t)[Len(s) + i] = t[i]
    <2>1. Len(s) + i \in 1..(Len(s) + Len(t)) /\ ~(Len(s) + i <= Len(s)) /\ (Len(s) + i) - Len(s) = i
        BY <1>1
    <2> QED
        BY <1>2, <2>1
<1>4. \A i \in 1..Len(s) : i \in 1..(Len(s) + Len(t)) /\ i <= Len(s)
    BY <1>1
<1> QED
    BY <1>1, <1>2, <1>3, <1>4

\* The members of a sequence are its head and those of its tail.
LEMMA TailMembers ==
    ASSUME NEW T, NEW s \in Seq(T), s # <<>>
    PROVE  ToSet(s) = {Head(s)} \cup ToSet(Tail(s))
<1>0. /\ DOMAIN s = 1..Len(s) /\ Len(s) \in Nat \ {0}
      /\ DOMAIN Tail(s) = 1..(Len(s) - 1)
      /\ \A i \in 1..(Len(s) - 1) : Tail(s)[i] = s[i + 1]
      /\ Head(s) = s[1]
    BY TailIndices
<1>1. ToSet(Tail(s)) \subseteq ToSet(s) /\ Head(s) \in ToSet(s)
    BY TailElements
<1>2. ASSUME NEW x \in ToSet(s), x # Head(s)
      PROVE  x \in ToSet(Tail(s))
    <2>1. PICK i \in 1..Len(s) : x = s[i]
        BY <1>0 DEF ToSet
    <2>2. i - 1 \in 1..(Len(s) - 1) /\ i = (i - 1) + 1
        BY <1>2, <2>1, <1>0
    <2>3. Tail(s)[i - 1] = x
        BY <2>1, <2>2, <1>0
    <2> QED
        BY <2>2, <2>3, <1>0 DEF ToSet
<1> QED
    BY <1>1, <1>2

\* Taking the head creates no order, and ends only what the head began.
LEMMA BeforeTail ==
    ASSUME NEW T, NEW s \in Seq(T), s # <<>>, NEW M, NEW n
    PROVE  /\ Before(Tail(s), M, n) => Before(s, M, n)
           /\ Before(s, M, n) => n \in ToSet(Tail(s))
           /\ Before(s, M, n) => Before(Tail(s), M, n) \/ Head(s) \in M
<1>0. /\ DOMAIN s = 1..Len(s) /\ Len(s) \in Nat \ {0}
      /\ DOMAIN Tail(s) = 1..(Len(s) - 1)
      /\ \A i \in 1..(Len(s) - 1) : Tail(s)[i] = s[i + 1]
      /\ Head(s) = s[1]
    BY TailIndices
<1>1. ASSUME Before(Tail(s), M, n)
      PROVE  Before(s, M, n)
    <2>1. PICK i, j \in 1..(Len(s) - 1) : i < j /\ Tail(s)[i] \in M /\ Tail(s)[j] = n
        BY <1>1, <1>0 DEF Before
    <2>2. i + 1 \in 1..Len(s) /\ j + 1 \in 1..Len(s) /\ i + 1 < j + 1
        BY <2>1, <1>0
    <2>3. s[i + 1] \in M /\ s[j + 1] = n
        BY <2>1, <1>0
    <2> QED
        BY <2>2, <2>3, <1>0 DEF Before
<1>2. ASSUME Before(s, M, n)
      PROVE  n \in ToSet(Tail(s)) /\ (Before(Tail(s), M, n) \/ Head(s) \in M)
    <2>1. PICK i, j \in 1..Len(s) : i < j /\ s[i] \in M /\ s[j] = n
        BY <1>2, <1>0 DEF Before
    <2>2. j - 1 \in 1..(Len(s) - 1) /\ (j - 1) + 1 = j
        BY <2>1, <1>0
    <2>3. Tail(s)[j - 1] = n
        BY <2>1, <2>2, <1>0
    <2>4. n \in ToSet(Tail(s))
        BY <2>2, <2>3, <1>0 DEF ToSet
    <2>5. CASE i = 1
        BY <2>1, <2>4, <2>5, <1>0
    <2>6. CASE i # 1
        <3>1. i - 1 \in 1..(Len(s) - 1) /\ (i - 1) + 1 = i /\ i - 1 < j - 1
            BY <2>1, <2>6, <1>0
        <3>2. Tail(s)[i - 1] \in M
            BY <2>1, <3>1, <1>0
        <3> QED
            BY <2>2, <2>3, <2>4, <3>1, <3>2, <1>0 DEF Before
    <2> QED
        BY <2>5, <2>6
<1> QED
    BY <1>1, <1>2

\* What is ahead of what in a concatenation.
LEMMA BeforeConcat ==
    ASSUME NEW T, NEW s \in Seq(T), NEW t \in Seq(T), NEW M, NEW n
    PROVE  /\ Before(s, M, n) => Before(s \o t, M, n)
           /\ Before(t, M, n) => Before(s \o t, M, n)
           /\ M \cap ToSet(s) # {} /\ n \in ToSet(t) => Before(s \o t, M, n)
           /\ Before(s \o t, M, n) => \/ Before(s, M, n)
                                      \/ Before(t, M, n)
                                      \/ M \cap ToSet(s) # {} /\ n \in ToSet(t)
<1>0. /\ DOMAIN s = 1..Len(s) /\ Len(s) \in Nat
      /\ DOMAIN t = 1..Len(t) /\ Len(t) \in Nat
      /\ DOMAIN (s \o t) = 1..(Len(s) + Len(t))
      /\ \A i \in 1..Len(s) : (s \o t)[i] = s[i]
      /\ \A i \in 1..Len(t) : (s \o t)[Len(s) + i] = t[i]
    BY ConcatIndices
<1>1. ASSUME Before(s, M, n)
      PROVE  Before(s \o t, M, n)
    <2>1. PICK i, j \in 1..Len(s) : i < j /\ s[i] \in M /\ s[j] = n
        BY <1>1, <1>0 DEF Before
    <2>2. i \in 1..(Len(s) + Len(t)) /\ j \in 1..(Len(s) + Len(t))
        BY <2>1, <1>0
    <2> QED
        BY <2>1, <2>2, <1>0 DEF Before
<1>2. ASSUME Before(t, M, n)
      PROVE  Before(s \o t, M, n)
    <2>1. PICK i, j \in 1..Len(t) : i < j /\ t[i] \in M /\ t[j] = n
        BY <1>2, <1>0 DEF Before
    <2>2. /\ Len(s) + i \in 1..(Len(s) + Len(t)) /\ Len(s) + j \in 1..(Len(s) + Len(t))
          /\ Len(s) + i < Len(s) + j
        BY <2>1, <1>0
    <2>3. (s \o t)[Len(s) + i] \in M /\ (s \o t)[Len(s) + j] = n
        BY <2>1, <1>0
    <2> QED
        BY <2>2, <2>3, <1>0 DEF Before
<1>3. ASSUME M \cap ToSet(s) # {}, n \in ToSet(t)
      PROVE  Before(s \o t, M, n)
    <2>1. PICK i \in 1..Len(s) : s[i] \in M
        BY <1>3, <1>0 DEF ToSet
    <2>2. PICK j \in 1..Len(t) : t[j] = n
        BY <1>3, <1>0 DEF ToSet
    <2>3. i \in 1..(Len(s) + Len(t)) /\ Len(s) + j \in 1..(Len(s) + Len(t)) /\ i < Len(s) + j
        BY <2>1, <2>2, <1>0
    <2>4. (s \o t)[i] \in M /\ (s \o t)[Len(s) + j] = n
        BY <2>1, <2>2, <1>0
    <2> QED
        BY <2>3, <2>4, <1>0 DEF Before
<1>4. ASSUME Before(s \o t, M, n)
      PROVE  \/ Before(s, M, n)
             \/ Before(t, M, n)
             \/ M \cap ToSet(s) # {} /\ n \in ToSet(t)
    <2>1. PICK i, j \in 1..(Len(s) + Len(t)) : i < j /\ (s \o t)[i] \in M /\ (s \o t)[j] = n
        BY <1>4, <1>0 DEF Before
    <2>2. Len(s) \in Nat /\ Len(t) \in Nat
        BY <1>0
    <2>3. CASE j <= Len(s)
        <3>1. i \in 1..Len(s) /\ j \in 1..Len(s)
            BY <2>1, <2>2, <2>3
        <3>2. s[i] \in M /\ s[j] = n
            BY <2>1, <3>1, <1>0
        <3> QED
            BY <2>1, <3>1, <3>2, <1>0 DEF Before
    <2>4. CASE Len(s) < i
        <3>1. i - Len(s) \in 1..Len(t) /\ j - Len(s) \in 1..Len(t) /\ i - Len(s) < j - Len(s)
            BY <2>1, <2>2, <2>4
        <3>2. Len(s) + (i - Len(s)) = i /\ Len(s) + (j - Len(s)) = j
            BY <2>1, <2>2
        <3>3. t[i - Len(s)] \in M /\ t[j - Len(s)] = n
            BY <2>1, <3>1, <3>2, <1>0
        <3> QED
            BY <3>1, <3>3, <1>0 DEF Before
    <2>5. CASE i <= Len(s) /\ Len(s) < j
        <3>1. i \in 1..Len(s) /\ j - Len(s) \in 1..Len(t) /\ Len(s) + (j - Len(s)) = j
            BY <2>1, <2>2, <2>5
        <3>2. s[i] \in M /\ t[j - Len(s)] = n
            BY <2>1, <3>1, <1>0
        <3> QED
            BY <3>1, <3>2, <1>0 DEF ToSet
    <2> QED
        BY <2>1, <2>2, <2>3, <2>4, <2>5
<1> QED
    BY <1>1, <1>2, <1>3, <1>4

\* Nothing is ahead of anything in a channel of at most one message.
LEMMA BeforeShort ==
    /\ \A M, n : ~Before(<<>>, M, n)
    /\ \A x, M, n : ~Before(<<x>>, M, n)
<1>1. DOMAIN <<>> = {} /\ \A x : DOMAIN <<x>> = 1..1
    OBVIOUS
<1> QED
    BY <1>1 DEF Before

\* A unique message is not there any more once it was the head.
LEMMA OnceTail ==
    ASSUME NEW T, NEW s \in Seq(T), s # <<>>, NEW M, Once(s, M)
    PROVE  Once(Tail(s), M) /\ (Head(s) \in M => M \cap ToSet(Tail(s)) = {})
<1>0. /\ DOMAIN s = 1..Len(s) /\ Len(s) \in Nat \ {0}
      /\ DOMAIN Tail(s) = 1..(Len(s) - 1)
      /\ \A i \in 1..(Len(s) - 1) : Tail(s)[i] = s[i + 1]
      /\ Head(s) = s[1]
    BY TailIndices
<1>1. ASSUME NEW i \in 1..(Len(s) - 1)
      PROVE  i + 1 \in 1..Len(s) /\ Tail(s)[i] = s[i + 1] /\ 1 \in 1..Len(s)
    BY <1>0
<1>2. Once(Tail(s), M)
    <2> SUFFICES ASSUME NEW i \in 1..(Len(s) - 1), NEW j \in 1..(Len(s) - 1),
                        Tail(s)[i] \in M, Tail(s)[j] \in M
                 PROVE  i = j
        BY <1>0 DEF Once
    <2>1. i + 1 = j + 1
        BY <1>1, <1>0 DEF Once
    <2> QED
        BY <2>1
<1>3. ASSUME Head(s) \in M, NEW x \in M \cap ToSet(Tail(s))
      PROVE  FALSE
    <2>1. PICK i \in 1..(Len(s) - 1) : x = Tail(s)[i]
        BY <1>0 DEF ToSet
    <2>2. i + 1 = 1
        BY <1>1, <1>3, <2>1, <1>0 DEF Once
    <2> QED
        BY <2>1, <2>2
<1> QED
    BY <1>2, <1>3

\* A concatenation keeps what is unique, unless both parts have it.
LEMMA OnceConcat ==
    ASSUME NEW T, NEW s \in Seq(T), NEW t \in Seq(T), NEW M, Once(s, M), Once(t, M),
           M \cap ToSet(s) = {} \/ M \cap ToSet(t) = {}
    PROVE  Once(s \o t, M)
<1>0. /\ DOMAIN s = 1..Len(s) /\ Len(s) \in Nat
      /\ DOMAIN t = 1..Len(t) /\ Len(t) \in Nat
      /\ DOMAIN (s \o t) = 1..(Len(s) + Len(t))
      /\ \A i \in 1..Len(s) : (s \o t)[i] = s[i]
      /\ \A i \in 1..Len(t) : (s \o t)[Len(s) + i] = t[i]
    BY ConcatIndices
<1> SUFFICES ASSUME NEW i \in 1..(Len(s) + Len(t)), NEW j \in 1..(Len(s) + Len(t)),
                    (s \o t)[i] \in M, (s \o t)[j] \in M
             PROVE  i = j
    BY <1>0 DEF Once
<1> DEFINE L == Len(s)
<1>1. L \in Nat /\ Len(t) \in Nat
    BY <1>0
<1>2. ASSUME NEW h \in 1..(L + Len(t)), (s \o t)[h] \in M
      PROVE  \/ h \in 1..L /\ s[h] \in M /\ M \cap ToSet(s) # {}
             \/ h - L \in 1..Len(t) /\ t[h - L] \in M /\ M \cap ToSet(t) # {}
    <2>1. CASE h <= L
        BY <1>1, <1>2, <2>1, <1>0 DEF ToSet
    <2>2. CASE ~(h <= L)
        <3>1. h - L \in 1..Len(t) /\ L + (h - L) = h
            BY <1>1, <2>2
        <3>2. (s \o t)[h] = t[h - L]
            BY <3>1, <1>0
        <3> QED
            BY <1>2, <3>1, <3>2, <1>0 DEF ToSet
    <2> QED
        BY <2>1, <2>2
<1>3. CASE i \in 1..L /\ s[i] \in M /\ M \cap ToSet(s) # {}
    <2>1. j \in 1..L /\ s[j] \in M
        BY <1>2, <1>3
    <2> QED
        BY <1>3, <2>1, <1>0 DEF Once
<1>4. CASE i - L \in 1..Len(t) /\ t[i - L] \in M /\ M \cap ToSet(t) # {}
    <2>1. j - L \in 1..Len(t) /\ t[j - L] \in M
        BY <1>2, <1>4
    <2>2. i - L = j - L
        BY <1>4, <2>1, <1>0 DEF Once
    <2> QED
        BY <1>1, <2>2
<1> QED
    BY <1>2, <1>3, <1>4

\* A channel of at most one message holds everything at most once.
LEMMA OnceShort ==
    /\ \A M : Once(<<>>, M)
    /\ \A x, M : Once(<<x>>, M)
<1>1. DOMAIN <<>> = {} /\ \A x : DOMAIN <<x>> = 1..1
    OBVIOUS
<1> QED
    BY <1>1 DEF Once

\* What is absent is there at most once.
LEMMA OnceAbsent ==
    ASSUME NEW s, NEW M, M \cap ToSet(s) = {}
    PROVE  Once(s, M)
BY DEF Once, ToSet

\* The places of the messages of a kind: CountOf is how many there are.
Places(s, T) == {i \in DOMAIN s : s[i].type \in T}

\* The messages of a kind are finitely many, and none if the count is zero.
LEMMA CountType ==
    ASSUME NEW V, NEW s \in Seq(V), NEW T
    PROVE  /\ IsFiniteSet(Places(s, T))
           /\ CountOf(s, T) \in Nat
           /\ CountOf(s, T) = 0 <=> \A m \in ToSet(s) : m.type \notin T
<1> DEFINE I == {i \in DOMAIN s : s[i].type \in T}
<1>1. DOMAIN s = 1..Len(s) /\ Len(s) \in Nat
    BY LenProperties
<1>2. IsFiniteSet(1..Len(s)) /\ I \in SUBSET (1..Len(s))
    BY <1>1, FS_Interval
<1>3. IsFiniteSet(I)
    BY <1>2, FS_Subset
<1>4. Cardinality(I) \in Nat /\ (Cardinality(I) = 0 <=> I = {})
    BY <1>3, FS_CardinalityType, FS_EmptySet
<1>5. I = {} <=> \A m \in ToSet(s) : m.type \notin T
    BY DEF ToSet
<1> QED
    BY <1>3, <1>4, <1>5 DEF CountOf, Places

\* The count of a concatenation is the sum of the counts.
LEMMA CountConcat ==
    ASSUME NEW V, NEW s \in Seq(V), NEW t \in Seq(V), NEW T
    PROVE  CountOf(s \o t, T) = CountOf(s, T) + CountOf(t, T)
<1> DEFINE I == {i \in DOMAIN s : s[i].type \in T}
           J == {i \in DOMAIN t : t[i].type \in T}
           K == {Len(s) + j : j \in J}
<1>1. /\ DOMAIN s = 1..Len(s) /\ Len(s) \in Nat
      /\ DOMAIN t = 1..Len(t) /\ Len(t) \in Nat
      /\ DOMAIN (s \o t) = 1..(Len(s) + Len(t))
      /\ \A i \in 1..Len(s) : (s \o t)[i] = s[i]
      /\ \A i \in 1..Len(t) : (s \o t)[Len(s) + i] = t[i]
    BY ConcatIndices
<1>2. {i \in DOMAIN (s \o t) : (s \o t)[i].type \in T} = I \cup K
    <2>1. ASSUME NEW i \in 1..(Len(s) + Len(t)), (s \o t)[i].type \in T
          PROVE  i \in I \cup K
        <3>1. CASE i <= Len(s)
            <4>1. i \in 1..Len(s)
                BY <1>1, <3>1
            <4> QED
                BY <1>1, <2>1, <4>1
        <3>2. CASE ~(i <= Len(s))
            <4>1. i - Len(s) \in 1..Len(t) /\ Len(s) + (i - Len(s)) = i
                BY <1>1, <3>2
            <4>2. t[i - Len(s)] = (s \o t)[i]
                BY <1>1, <4>1
            <4> QED
                BY <1>1, <2>1, <4>1, <4>2
        <3> QED
            BY <3>1, <3>2
    <2>2. ASSUME NEW i \in I
          PROVE  i \in 1..(Len(s) + Len(t)) /\ (s \o t)[i].type \in T
        BY <1>1
    <2>3. ASSUME NEW i \in K
          PROVE  i \in 1..(Len(s) + Len(t)) /\ (s \o t)[i].type \in T
        <3>1. PICK j \in J : i = Len(s) + j
            OBVIOUS
        <3> QED
            BY <1>1, <3>1
    <2> QED
        BY <1>1, <2>1, <2>2, <2>3
<1>3. IsFiniteSet(I) /\ IsFiniteSet(J)
    <2>1. IsFiniteSet(Places(s, T)) /\ IsFiniteSet(Places(t, T))
        BY CountType
    <2> QED
        BY <2>1 DEF Places
<1>4. IsFiniteSet(K) /\ Cardinality(K) = Cardinality(J)
    <2> DEFINE f == [j \in J |-> Len(s) + j]
    <2>1. f \in [J -> K] /\ \A k \in K : \E j \in J : f[j] = k
        OBVIOUS
    <2>2. \A a, b \in J : f[a] = f[b] => a = b
        BY <1>1
    <2>3. f \in Bijection(J, K)
        BY <2>1, <2>2, Fun_IsBij
    <2>4. ExistsBijection(J, K)
        BY <2>3 DEF ExistsBijection
    <2> QED
        BY <1>3, <2>4, FS_Bijection
<1>5. I \cap K = {}
    <2>1. ASSUME NEW i \in I, NEW j \in J
          PROVE  i # Len(s) + j
        BY <1>1
    <2> QED
        BY <2>1
<1>6. Cardinality(I \cup K) = Cardinality(I) + Cardinality(K)
    <2>1. Cardinality(I) \in Nat /\ Cardinality(K) \in Nat /\ Cardinality({}) = 0
        BY <1>3, <1>4, FS_CardinalityType, FS_EmptySet
    <2>2. Cardinality(I \cup K) = Cardinality(I) + Cardinality(K) - Cardinality(I \cap K)
        BY <1>3, <1>4, FS_Union
    <2>3. Cardinality(I \cap K) = 0
        BY <1>5, <2>1
    <2> HIDE DEF I, K
    <2> QED
        BY <2>1, <2>2, <2>3
<1> QED
    BY <1>2, <1>4, <1>6 DEF CountOf

\* The count of a channel of at most one message.
LEMMA CountShort ==
    /\ \A T : CountOf(<<>>, T) = 0
    /\ \A x, T : CountOf(<<x>>, T) = IF x.type \in T THEN 1 ELSE 0
<1>1. ASSUME NEW T PROVE CountOf(<<>>, T) = 0
    <2>1. {i \in DOMAIN <<>> : <<>>[i].type \in T} = {}
        OBVIOUS
    <2> QED
        BY <2>1, FS_EmptySet DEF CountOf
<1>2. ASSUME NEW x, NEW T PROVE CountOf(<<x>>, T) = IF x.type \in T THEN 1 ELSE 0
    <2>1. DOMAIN <<x>> = {1} /\ <<x>>[1] = x
        OBVIOUS
    <2>2. {i \in DOMAIN <<x>> : <<x>>[i].type \in T} = IF x.type \in T THEN {1} ELSE {}
        BY <2>1
    <2> QED
        BY <2>2, FS_EmptySet, FS_Singleton DEF CountOf
<1> QED
    BY <1>1, <1>2

\* The count of a channel is that of its tail, and one more if its head counts.
LEMMA CountTail ==
    ASSUME NEW V, NEW s \in Seq(V), s # <<>>, NEW T
    PROVE  CountOf(s, T) = CountOf(Tail(s), T) + (IF Head(s).type \in T THEN 1 ELSE 0)
<1>1. Head(s) \in V /\ Tail(s) \in Seq(V) /\ s = <<Head(s)>> \o Tail(s)
    BY HeadTailProperties, ConcatProperties, LenProperties, EmptySeq
<1>2. <<Head(s)>> \in Seq(V)
    BY <1>1, SingletonType
<1>3. CountOf(s, T) = CountOf(<<Head(s)>>, T) + CountOf(Tail(s), T)
    <2>1. Tail(s) \in Seq(V)
        BY <1>1
    <2>2. CountOf(<<Head(s)>> \o Tail(s), T) = CountOf(<<Head(s)>>, T) + CountOf(Tail(s), T)
        BY <1>2, <2>1, CountConcat
    <2>3. s = <<Head(s)>> \o Tail(s)
        BY <1>1
    <2> QED
        BY <2>2, <2>3, Zenon
<1>4. CountOf(<<Head(s)>>, T) = IF Head(s).type \in T THEN 1 ELSE 0
    BY CountShort
<1>5. CountOf(Tail(s), T) \in Nat
    BY <1>1, CountType
<1> QED
    BY <1>3, <1>4, <1>5

\* A channel whose messages are all of the kind counts all of them.
LEMMA CountAll ==
    ASSUME NEW V, NEW s \in Seq(V), NEW T, \A m \in ToSet(s) : m.type \in T
    PROVE  CountOf(s, T) = Len(s)
<1>1. DOMAIN s = 1..Len(s) /\ Len(s) \in Nat
    BY LenProperties
<1>2. {i \in DOMAIN s : s[i].type \in T} = 1..Len(s)
    BY <1>1 DEF ToSet
<1>3. Cardinality(1..Len(s)) = Len(s)
    <2>1. 1 \in Int /\ Len(s) \in Int
        BY <1>1
    <2>2. Cardinality(1..Len(s)) = IF 1 > Len(s) THEN 0 ELSE Len(s) - 1 + 1
        BY <2>1, FS_Interval
    <2> QED
        BY <1>1, <2>2
<1> QED
    BY <1>2, <1>3 DEF CountOf

\* The members of a sequence of values are such values.
LEMMA SequenceMembers ==
    ASSUME NEW V, NEW s \in Seq(V), NEW x \in ToSet(s)
    PROVE  x \in V
<1>1. PICK i \in 1..Len(s) : x = s[i]
    BY LenProperties DEF ToSet
<1> QED
    BY <1>1, ElementOfSeq

-----------------------------------------------------------------------------
(* Messages.                                                               *)

\* The kinds that are counted.
LEMMA MessageKinds ==
    /\ AuthMsg.type = "auth" /\ AuthOk.type = "authOk"
    /\ \A l, h : ListenMsg(l, h).type = "listen"
    /\ \A k : PutMsg(k).type = "put"
    /\ \A l, S : Snapshot(l, S).type = "snapshot"
    /\ \A k : ChildData(k).type = "child"
    /\ \A l : ListenOk(l).type = "listenOk"
    /\ \A k, ok : PutAck(k, ok).type = "putAck"
BY DEF AuthMsg, AuthOk, ListenMsg, PutMsg, Snapshot, ChildData, ListenOk, PutAck

\* Requests of different kinds, or about different things, differ.
LEMMA RequestsDistinct ==
    /\ \A l, h : ListenMsg(l, h) # AuthMsg
    /\ \A k : PutMsg(k) # AuthMsg
    /\ \A l, h, k : ListenMsg(l, h) # PutMsg(k)
    /\ \A l, h, m, g : ListenMsg(l, h) = ListenMsg(m, g) => l = m /\ h = g
    /\ \A j, k : PutMsg(j) = PutMsg(k) => j = k
<1>1. \A l, h, m, g : ListenMsg(l, h) = ListenMsg(m, g) => l = m /\ h = g
    BY DEF ListenMsg
<1>2. \A j, k : PutMsg(j) = PutMsg(k) => j = k
    BY DEF PutMsg
<1> QED
    BY <1>1, <1>2, MessageKinds

\* The same for what the server sends.
LEMMA RepliesDistinct ==
    /\ \A l, S : Snapshot(l, S) # AuthOk
    /\ \A k : ChildData(k) # AuthOk
    /\ \A l : ListenOk(l) # AuthOk
    /\ \A k, ok : PutAck(k, ok) # AuthOk
    /\ \A l, S, k : Snapshot(l, S) # ChildData(k)
    /\ \A l, S, m : Snapshot(l, S) # ListenOk(m)
    /\ \A l, S, k, ok : Snapshot(l, S) # PutAck(k, ok)
    /\ \A k, l : ChildData(k) # ListenOk(l)
    /\ \A k, j, ok : ChildData(k) # PutAck(j, ok)
    /\ \A l, k, ok : ListenOk(l) # PutAck(k, ok)
    /\ \A l, S, m, R : Snapshot(l, S) = Snapshot(m, R) => l = m /\ S = R
    /\ \A j, k : ChildData(j) = ChildData(k) => j = k
    /\ \A l, m : ListenOk(l) = ListenOk(m) => l = m
    /\ \A j, k, o, p : PutAck(j, o) = PutAck(k, p) => j = k /\ o = p
<1>1. \A l, S, m, R : Snapshot(l, S) = Snapshot(m, R) => l = m /\ S = R
    BY DEF Snapshot
<1>2. \A j, k : ChildData(j) = ChildData(k) => j = k
    BY DEF ChildData
<1>3. \A l, m : ListenOk(l) = ListenOk(m) => l = m
    BY DEF ListenOk
<1>4. \A j, k, o, p : PutAck(j, o) = PutAck(k, p) => j = k /\ o = p
    BY DEF PutAck
<1> QED
    BY <1>1, <1>2, <1>3, <1>4, MessageKinds

\* An enumeration of a finite set holds each of its members once.
LEMMA EnumerationElements ==
    ASSUME NEW S, IsFiniteSet(S), NEW s \in SetToSeqs(S)
    PROVE  /\ s \in Seq(S)
           /\ ToSet(s) = S
           /\ Len(s) = Cardinality(S)
           /\ \A i, j \in DOMAIN s : s[i] = s[j] => i = j
<1> DEFINE D == 1..Cardinality(S)
<1>1. Cardinality(S) \in Nat
    BY FS_CardinalityType
<1>2. s \in [D -> S] /\ \A i, j \in D : s[i] = s[j] => i = j
    BY DEF SetToSeqs
<1>3. IsFiniteSet(D) /\ Cardinality(D) = Cardinality(S)
    <2>1. 1 \in Int /\ Cardinality(S) \in Int
        BY <1>1
    <2>2. IsFiniteSet(D) /\ Cardinality(D) = IF 1 > Cardinality(S) THEN 0 ELSE Cardinality(S) - 1 + 1
        BY <2>1, FS_Interval
    <2> QED
        BY <1>1, <2>2
<1>4. s \in Injection(D, S)
    BY <1>2 DEF Injection, IsInjective
<1>5. s \in Surjection(D, S)
    BY <1>3, <1>4, FS_Injection
<1>6. \A x \in S : \E i \in D : s[i] = x
    BY <1>5 DEF Surjection
<1>7. ToSet(s) = S
    BY <1>2, <1>6 DEF ToSet
<1>8. s \in Seq(S) /\ Len(s) = Cardinality(S)
    <2>1. s \in Seq(S)
        BY <1>1, <1>2, IsASeq
    <2>2. DOMAIN s = 1..Len(s) /\ Len(s) \in Nat /\ DOMAIN s = 1..Cardinality(S)
        BY <1>2, <2>1, LenProperties
    <2>3. Len(s) = Cardinality(S)
        BY <1>1, <2>2
    <2> QED
        BY <2>1, <2>3
<1> QED
    BY <1>2, <1>7, <1>8

-----------------------------------------------------------------------------
(* What the steps do to the channels.                                      *)

\* A client takes a message off its channel.
LEMMA ReceivedChannel ==
    ASSUME TypeOK, NEW c \in Clients, NEW m, Received(c, {m})
    PROVE  /\ \A d \in Clients \ {c} : toClient'[d] = toClient[d]
           /\ toClient[c] # <<>> /\ Head(toClient[c]) = m
           /\ ToSet(toClient[c]) = {m} \cup ToSet(toClient'[c])
           /\ \A M, n : Before(toClient'[c], M, n) => Before(toClient[c], M, n)
           /\ \A M, n : Before(toClient[c], M, n) =>
                            /\ n \in ToSet(toClient'[c])
                            /\ Before(toClient'[c], M, n) \/ m \in M
           /\ \A M : Once(toClient[c], M) => /\ Once(toClient'[c], M)
                                             /\ m \in M => M \cap ToSet(toClient'[c]) = {}
           /\ \A T : CountOf(toClient[c], T) = CountOf(toClient'[c], T)
                                               + (IF m.type \in T THEN 1 ELSE 0)
<1>1. toClient[c] \in Seq(ServerMessages) /\ toClient[c] # <<>> /\ Head(toClient[c]) = m
    BY DEF TypeOK, Received
<1>2. toClient'[c] = Tail(toClient[c]) /\ \A d \in Clients \ {c} : toClient'[d] = toClient[d]
    BY DEF TypeOK, Received
<1>3. ToSet(toClient[c]) = {m} \cup ToSet(toClient'[c])
    BY <1>1, <1>2, TailMembers
<1>4. ASSUME NEW M, NEW n
      PROVE  /\ Before(toClient'[c], M, n) => Before(toClient[c], M, n)
             /\ Before(toClient[c], M, n) => /\ n \in ToSet(toClient'[c])
                                             /\ Before(toClient'[c], M, n) \/ m \in M
    BY <1>1, <1>2, BeforeTail
<1>5. ASSUME NEW M, Once(toClient[c], M)
      PROVE  Once(toClient'[c], M) /\ (m \in M => M \cap ToSet(toClient'[c]) = {})
    BY <1>1, <1>2, <1>5, OnceTail
<1>6. ASSUME NEW T
      PROVE  CountOf(toClient[c], T) = CountOf(toClient'[c], T)
                                       + (IF m.type \in T THEN 1 ELSE 0)
    BY <1>1, <1>2, CountTail
<1> QED
    BY <1>1, <1>2, <1>3, <1>4, <1>5, <1>6

\* The server takes a request off a channel.
LEMMA RequestedChannel ==
    ASSUME TypeOK, NEW c \in Clients, NEW m, Requested(c, {m})
    PROVE  /\ \A d \in Clients \ {c} : toServer'[d] = toServer[d]
           /\ toServer[c] # <<>> /\ Head(toServer[c]) = m
           /\ ToSet(toServer[c]) = {m} \cup ToSet(toServer'[c])
           /\ \A M : Once(toServer[c], M) => /\ Once(toServer'[c], M)
                                             /\ m \in M => M \cap ToSet(toServer'[c]) = {}
           /\ \A T : CountOf(toServer[c], T) = CountOf(toServer'[c], T)
                                               + (IF m.type \in T THEN 1 ELSE 0)
<1>1. toServer[c] \in Seq(ClientMessages) /\ toServer[c] # <<>> /\ Head(toServer[c]) = m
    BY DEF TypeOK, Requested
<1>2. toServer'[c] = Tail(toServer[c]) /\ \A d \in Clients \ {c} : toServer'[d] = toServer[d]
    BY DEF TypeOK, Requested
<1>3. ToSet(toServer[c]) = {m} \cup ToSet(toServer'[c])
    BY <1>1, <1>2, TailMembers
<1>4. ASSUME NEW M, Once(toServer[c], M)
      PROVE  Once(toServer'[c], M) /\ (m \in M => M \cap ToSet(toServer'[c]) = {})
    BY <1>1, <1>2, <1>4, OnceTail
<1>5. ASSUME NEW T
      PROVE  CountOf(toServer[c], T) = CountOf(toServer'[c], T)
                                       + (IF m.type \in T THEN 1 ELSE 0)
    BY <1>1, <1>2, CountTail
<1> QED
    BY <1>1, <1>2, <1>3, <1>4, <1>5

\* What a channel is after messages were added to it.
LEMMA ExtendedChannel ==
    ASSUME NEW V, NEW s \in Seq(V), NEW t \in Seq(V)
    PROVE  /\ s # <<>> => s \o t # <<>> /\ Head(s \o t) = Head(s)
           /\ ToSet(s \o t) = ToSet(s) \cup ToSet(t)
           /\ \A T : CountOf(s \o t, T) = CountOf(s, T) + CountOf(t, T)
<1>1. ToSet(s \o t) = ToSet(s) \cup ToSet(t)
    BY ConcatElements
<1>2. ASSUME NEW T PROVE CountOf(s \o t, T) = CountOf(s, T) + CountOf(t, T)
    BY CountConcat
<1>3. ASSUME s # <<>>
      PROVE  s \o t # <<>> /\ Head(s \o t) = Head(s)
    <2>1. /\ DOMAIN s = 1..Len(s) /\ Len(s) \in Nat \ {0} /\ Head(s) = s[1]
        BY <1>3, TailIndices
    <2>2. /\ DOMAIN (s \o t) = 1..(Len(s) + Len(t)) /\ Len(t) \in Nat
          /\ \A i \in 1..Len(s) : (s \o t)[i] = s[i]
        BY ConcatIndices
    <2>3. 1 \in 1..Len(s) /\ 1 \in DOMAIN (s \o t)
        BY <2>1, <2>2
    <2>4. s \o t # <<>> /\ s \o t \in Seq(V)
        BY <2>3, ConcatProperties
    <2>5. Head(s \o t) = (s \o t)[1]
        BY <2>4, TailIndices
    <2> QED
        BY <2>1, <2>2, <2>3, <2>4, <2>5
<1> QED
    BY <1>1, <1>2, <1>3

\* The same of what is on its way to the server, and to a client.
LEMMA ClientConcat ==
    \A s, t \in Seq(ClientMessages) :
        /\ s # <<>> => s \o t # <<>> /\ Head(s \o t) = Head(s)
        /\ ToSet(s \o t) = ToSet(s) \cup ToSet(t)
        /\ \A T : CountOf(s \o t, T) = CountOf(s, T) + CountOf(t, T)
BY ExtendedChannel

LEMMA ServerConcat ==
    \A s, t \in Seq(ServerMessages) :
        /\ s # <<>> => s \o t # <<>> /\ Head(s \o t) = Head(s)
        /\ ToSet(s \o t) = ToSet(s) \cup ToSet(t)
        /\ \A T : CountOf(s \o t, T) = CountOf(s, T) + CountOf(t, T)
BY ExtendedChannel

\* A client sends a request.
LEMMA SentChannel ==
    ASSUME TypeOK, NEW c \in Clients, NEW m \in ClientMessages, Send(c, m)
    PROVE  /\ \A d \in Clients \ {c} : toServer'[d] = toServer[d]
           /\ toServer'[c] # <<>>
           /\ Head(toServer'[c]) = IF toServer[c] = <<>> THEN m ELSE Head(toServer[c])
           /\ ToSet(toServer'[c]) = ToSet(toServer[c]) \cup {m}
           /\ \A M : Once(toServer[c], M) /\ (m \in M => M \cap ToSet(toServer[c]) = {})
                     => Once(toServer'[c], M)
           /\ \A T : CountOf(toServer'[c], T) = CountOf(toServer[c], T)
                                                + (IF m.type \in T THEN 1 ELSE 0)
<1>1. toServer[c] \in Seq(ClientMessages) /\ <<m>> \in Seq(ClientMessages)
    BY SingletonType DEF TypeOK
<1>2. /\ toServer'[c] = Append(toServer[c], m)
      /\ \A d \in Clients \ {c} : toServer'[d] = toServer[d]
    BY DEF TypeOK, Send
<1>3. Append(toServer[c], m) = toServer[c] \o <<m>>
    BY <1>1, AppendIsConcat
<1>4. /\ Append(toServer[c], m) # <<>>
      /\ Head(Append(toServer[c], m)) = IF toServer[c] = <<>> THEN m ELSE Head(toServer[c])
    BY <1>1, AppendProperties, HeadTailAppend
<1>5. ToSet(toServer'[c]) = ToSet(toServer[c]) \cup {m}
    <2>1. ToSet(toServer[c] \o <<m>>) = ToSet(toServer[c]) \cup ToSet(<<m>>)
        BY <1>1, ClientConcat
    <2> QED
        BY <1>2, <1>3, <2>1, SingletonElements
<1>6. ASSUME NEW M, Once(toServer[c], M), m \in M => M \cap ToSet(toServer[c]) = {}
      PROVE  Once(toServer'[c], M)
    <2>1. Once(<<m>>, M) /\ ToSet(<<m>>) = {m}
        BY OnceShort, SingletonElements
    <2>2. M \cap ToSet(toServer[c]) = {} \/ M \cap ToSet(<<m>>) = {}
        BY <1>6, <2>1
    <2>3. Once(toServer[c] \o <<m>>, M)
        BY <1>1, <1>6, <2>1, <2>2, OnceConcat
    <2> QED
        BY <1>2, <1>3, <2>3
<1>7. ASSUME NEW T
      PROVE  CountOf(toServer'[c], T) = CountOf(toServer[c], T)
                                        + (IF m.type \in T THEN 1 ELSE 0)
    <2>1. CountOf(toServer[c] \o <<m>>, T) = CountOf(toServer[c], T) + CountOf(<<m>>, T)
        BY <1>1, ClientConcat
    <2> QED
        BY <1>2, <1>3, <2>1, CountShort
<1> QED
    BY <1>2, <1>4, <1>5, <1>6, <1>7

\* Messages are added to what is on its way to a client.
LEMMA RepliedChannel ==
    ASSUME TypeOK, NEW c \in Clients, NEW ms \in Seq(ServerMessages), Reply(c, ms)
    PROVE  /\ \A d \in Clients \ {c} : toClient'[d] = toClient[d]
           /\ toClient'[c] = toClient[c] \o ms
<1>1. toClient \in [Clients -> Seq(ServerMessages)]
    BY DEF TypeOK
<1> QED
    BY <1>1 DEF Reply

\* Restoring the state of a connection asks for every location with a view and
\* sends every put without a response once.
LEMMA RestoredChannel ==
    ASSUME TypeOK, NEW c \in Clients, RestoreState(c)
    PROVE  /\ \A d \in Clients \ {c} : /\ toServer'[d] = toServer[d]
                                       /\ unackedListensCount'[d] = unackedListensCount[d]
           /\ toServer[c] # <<>> => toServer'[c] # <<>> /\ Head(toServer'[c]) = Head(toServer[c])
           /\ ToSet(toServer'[c]) =
                  ToSet(toServer[c])
                  \cup {ListenMsg(l, serverCache[c] \cap KeysAt(l)) : l \in Views(c)}
                  \cup {PutMsg(k) : k \in outstandingPuts[c]}
           /\ \A k \in Keys : PutMsg(k) \notin ToSet(toServer[c]) => Once(toServer'[c], {PutMsg(k)})
           /\ Once(toServer[c], {AuthMsg}) => Once(toServer'[c], {AuthMsg})
           /\ CountOf(toServer'[c], {"listen"}) =
                  CountOf(toServer[c], {"listen"}) + Cardinality(Views(c))
           /\ unackedListensCount'[c] = unackedListensCount[c] + Cardinality(Views(c))
           /\ Cardinality(Views(c)) \in Nat /\ (Cardinality(Views(c)) = 0 <=> Views(c) = {})
<1>1. PICK ls \in SetToSeqs(Views(c)), ps \in PutOrders(outstandingPuts[c]) :
        /\ toServer' = [toServer EXCEPT ![c] = @ \o ListenMsgs(c, ls) \o PutMsgs(ps)]
        /\ unackedListensCount' =
              [unackedListensCount EXCEPT ![c] = @ + Cardinality(Views(c))]
    BY DEF RestoreState
<1> DEFINE ts == toServer[c]
           lm == ListenMsgs(c, ls)
           pm == PutMsgs(ps)
<1>2. Views(c) \in SUBSET Locations /\ IsFiniteSet(Views(c))
    BY LocationAssumption, FS_Subset DEF Views
<1>3. outstandingPuts[c] \in SUBSET Keys /\ IsFiniteSet(outstandingPuts[c])
    BY KeysAssumption, FS_Subset DEF TypeOK
<1>4. /\ ls \in Seq(Views(c)) /\ ToSet(ls) = Views(c) /\ Len(ls) = Cardinality(Views(c))
      /\ DOMAIN ls = 1..Len(ls) /\ Len(ls) \in Nat
    BY <1>2, EnumerationElements, LenProperties
<1>5. /\ ps \in Seq(outstandingPuts[c]) /\ ToSet(ps) = outstandingPuts[c]
      /\ \A i, j \in DOMAIN ps : ps[i] = ps[j] => i = j
      /\ DOMAIN ps = 1..Len(ps) /\ Len(ps) \in Nat
    <2>1. ps \in SetToSeqs(outstandingPuts[c])
        BY DEF PutOrders
    <2> QED
        BY <1>3, <2>1, EnumerationElements, LenProperties
<1>6. /\ lm \in Seq(ClientMessages) /\ Len(lm) = Len(ls)
      /\ ToSet(lm) = {ListenMsg(l, serverCache[c] \cap KeysAt(l)) : l \in Views(c)}
    <2>1. \A i \in 1..Len(ls) : ls[i] \in Views(c)
        BY <1>4, ElementOfSeq
    <2>2. \A l \in Locations : serverCache[c] \cap KeysAt(l) \in SUBSET Keys
        BY DEF TypeOK
    <2>3. \A i \in 1..Len(ls) : ListenMsg(ls[i], serverCache[c] \cap KeysAt(ls[i])) \in ClientMessages
        BY <1>2, <2>1, <2>2, MessageTypes
    <2>4. lm = [i \in 1..Len(ls) |-> ListenMsg(ls[i], serverCache[c] \cap KeysAt(ls[i]))]
        BY <1>4 DEF ListenMsgs
    <2>5. [i \in 1..Len(ls) |-> ListenMsg(ls[i], serverCache[c] \cap KeysAt(ls[i]))]
              \in Seq(ClientMessages)
        <3>1. Len(ls) \in Nat
            BY <1>4
        <3>2. [i \in 1..Len(ls) |-> ListenMsg(ls[i], serverCache[c] \cap KeysAt(ls[i]))]
                  \in [1..Len(ls) -> ClientMessages]
            BY <2>3
        <3>3. \A n \in Nat : \A f \in [1..n -> ClientMessages] : f \in Seq(ClientMessages)
            BY SeqDef
        <3> QED
            BY <3>1, <3>2, <3>3
    <2>6. lm \in Seq(ClientMessages) /\ Len(lm) = Len(ls) /\ DOMAIN lm = 1..Len(ls)
        BY <1>4, <2>4, <2>5, LenProperties
    <2>7. \A l \in Views(c) : \E i \in 1..Len(ls) : ls[i] = l
        BY <1>4 DEF ToSet
    <2>8. \A i \in 1..Len(ls) : lm[i] = ListenMsg(ls[i], serverCache[c] \cap KeysAt(ls[i]))
        BY <2>4
    <2> HIDE DEF lm
    <2>9. ASSUME NEW m \in ToSet(lm)
          PROVE  \E l \in Views(c) : m = ListenMsg(l, serverCache[c] \cap KeysAt(l))
        <3>1. PICK i \in 1..Len(ls) : m = lm[i]
            BY <2>6 DEF ToSet
        <3> QED
            BY <2>1, <2>8, <3>1
    <2>10. ASSUME NEW l \in Views(c)
           PROVE  ListenMsg(l, serverCache[c] \cap KeysAt(l)) \in ToSet(lm)
        <3>1. PICK i \in 1..Len(ls) : ls[i] = l
            BY <2>7
        <3>2. lm[i] = ListenMsg(l, serverCache[c] \cap KeysAt(l))
            BY <2>8, <3>1
        <3> QED
            BY <2>6, <3>2 DEF ToSet
    <2> QED
        BY <2>6, <2>9, <2>10
<1>7. /\ pm \in Seq(ClientMessages) /\ \A k : Once(pm, {PutMsg(k)})
      /\ ToSet(pm) = {PutMsg(k) : k \in outstandingPuts[c]}
    <2>1. \A i \in 1..Len(ps) : ps[i] \in outstandingPuts[c]
        BY <1>5, ElementOfSeq
    <2>2. \A i \in 1..Len(ps) : PutMsg(ps[i]) \in ClientMessages
        BY <1>3, <2>1, MessageTypes
    <2>3. pm = [i \in 1..Len(ps) |-> PutMsg(ps[i])]
        BY <1>5 DEF PutMsgs
    <2>4. pm \in Seq(ClientMessages)
        BY <1>5, <2>2, <2>3, IsASeq
    <2>5. \A k \in outstandingPuts[c] : \E i \in 1..Len(ps) : ps[i] = k
        BY <1>5 DEF ToSet
    <2>6. \A k : Once(pm, {PutMsg(k)})
        BY <1>5, <2>3, RequestsDistinct DEF Once
    <2>7. DOMAIN pm = 1..Len(ps) /\ \A i \in 1..Len(ps) : pm[i] = PutMsg(ps[i])
        BY <2>3
    <2> HIDE DEF pm
    <2>8. ASSUME NEW m \in ToSet(pm)
          PROVE  \E k \in outstandingPuts[c] : m = PutMsg(k)
        <3>1. PICK i \in 1..Len(ps) : m = pm[i]
            BY <2>7 DEF ToSet
        <3> QED
            BY <2>1, <2>7, <3>1
    <2>9. ASSUME NEW k \in outstandingPuts[c]
          PROVE  PutMsg(k) \in ToSet(pm)
        <3>1. PICK i \in 1..Len(ps) : ps[i] = k
            BY <2>5
        <3> QED
            BY <2>7, <3>1 DEF ToSet
    <2> QED
        BY <2>4, <2>6, <2>8, <2>9
<1>8. ts \in Seq(ClientMessages) /\ ts \o lm \in Seq(ClientMessages)
    BY <1>6, ConcatProperties DEF TypeOK
<1>9. /\ toServer'[c] = ts \o lm \o pm
      /\ unackedListensCount'[c] = unackedListensCount[c] + Cardinality(Views(c))
      /\ \A d \in Clients \ {c} : /\ toServer'[d] = toServer[d]
                                  /\ unackedListensCount'[d] = unackedListensCount[d]
    BY <1>1 DEF TypeOK
<1> HIDE DEF ts, lm, pm
<1>10. /\ ToSet(ts \o lm) = ToSet(ts) \cup ToSet(lm)
       /\ ts # <<>> => ts \o lm # <<>> /\ Head(ts \o lm) = Head(ts)
       /\ CountOf(ts \o lm, {"listen"}) = CountOf(ts, {"listen"}) + CountOf(lm, {"listen"})
    <2>1. /\ ToSet(ts \o lm) = ToSet(ts) \cup ToSet(lm)
          /\ ts # <<>> => ts \o lm # <<>> /\ Head(ts \o lm) = Head(ts)
        BY <1>6, <1>8, ClientConcat
    <2>2. \A T : CountOf(ts \o lm, T) = CountOf(ts, T) + CountOf(lm, T)
        BY <1>6, <1>8, ClientConcat
    <2> QED
        BY <2>1, <2>2
<1>11. /\ ToSet(toServer'[c]) = ToSet(ts \o lm) \cup ToSet(pm)
       /\ ts \o lm # <<>> => toServer'[c] # <<>> /\ Head(toServer'[c]) = Head(ts \o lm)
       /\ CountOf(toServer'[c], {"listen"}) = CountOf(ts \o lm, {"listen"}) + CountOf(pm, {"listen"})
    <2>1. /\ ToSet((ts \o lm) \o pm) = ToSet(ts \o lm) \cup ToSet(pm)
          /\ ts \o lm # <<>> => (ts \o lm) \o pm # <<>> /\ Head((ts \o lm) \o pm) = Head(ts \o lm)
        BY <1>7, <1>8, ClientConcat
    <2>2. \A T : CountOf((ts \o lm) \o pm, T) = CountOf(ts \o lm, T) + CountOf(pm, T)
        BY <1>7, <1>8, ClientConcat
    <2> QED
        BY <1>9, <2>1, <2>2
<1>12. ASSUME NEW k \in Keys, PutMsg(k) \notin ToSet(ts)
       PROVE  Once(toServer'[c], {PutMsg(k)})
    <2>1. PutMsg(k) \notin ToSet(lm)
        <3>1. \A m \in ToSet(lm) : m.type = "listen"
            <4>1. TAKE m \in ToSet(lm)
            <4>2. PICK l \in Views(c) : m = ListenMsg(l, serverCache[c] \cap KeysAt(l))
                BY <1>6
            <4> QED
                BY <4>2, MessageKinds
        <3>2. PutMsg(k).type = "put"
            BY MessageKinds
        <3> QED
            BY <3>1, <3>2
    <2>2. {PutMsg(k)} \cap ToSet(ts \o lm) = {}
        BY <1>10, <1>12, <2>1
    <2>3. Once(ts \o lm, {PutMsg(k)}) /\ Once(pm, {PutMsg(k)})
        BY <1>7, <2>2, OnceAbsent
    <2>4. Once((ts \o lm) \o pm, {PutMsg(k)})
        BY <1>7, <1>8, <2>2, <2>3, OnceConcat
    <2> QED
        BY <1>9, <2>4
<1>13. ASSUME Once(ts, {AuthMsg})
       PROVE  Once(toServer'[c], {AuthMsg})
    <2>1. AuthMsg \notin ToSet(lm)
        BY <1>6, RequestsDistinct
    <2>2. AuthMsg \notin ToSet(pm)
        BY <1>7, RequestsDistinct
    <2>3. {AuthMsg} \cap ToSet(lm) = {} /\ {AuthMsg} \cap ToSet(pm) = {}
        BY <2>1, <2>2
    <2>4. Once(lm, {AuthMsg}) /\ Once(pm, {AuthMsg})
        BY <2>3, OnceAbsent
    <2>5. Once(ts \o lm, {AuthMsg})
        BY <1>6, <1>8, <1>13, <2>3, <2>4, OnceConcat
    <2>6. Once((ts \o lm) \o pm, {AuthMsg})
        BY <1>7, <1>8, <2>3, <2>4, <2>5, OnceConcat
    <2> QED
        BY <1>9, <2>6
<1>14. CountOf(toServer'[c], {"listen"}) = CountOf(ts, {"listen"}) + Cardinality(Views(c))
    <2>1. CountOf(lm, {"listen"}) = Cardinality(Views(c))
        <3>1. \A m \in ToSet(lm) : m.type \in {"listen"}
            <4>1. TAKE m \in ToSet(lm)
            <4>2. PICK l \in Views(c) : m = ListenMsg(l, serverCache[c] \cap KeysAt(l))
                BY <1>6
            <4> QED
                BY <4>2, MessageKinds
        <3> QED
            BY <1>4, <1>6, <3>1, CountAll
    <2>2. CountOf(pm, {"listen"}) = 0
        <3>1. \A m \in ToSet(pm) : m.type \notin {"listen"}
            BY <1>7, MessageKinds
        <3> QED
            BY <1>7, <3>1, CountType
    <2>3. CountOf(ts, {"listen"}) \in Nat /\ Cardinality(Views(c)) \in Nat
        BY <1>2, <1>8, CountType, FS_CardinalityType
    <2> QED
        BY <1>10, <1>11, <2>1, <2>2, <2>3
<1>15. Cardinality(Views(c)) \in Nat /\ (Cardinality(Views(c)) = 0 <=> Views(c) = {})
    BY <1>2, FS_CardinalityType, FS_EmptySet
<1> QED
    BY <1>6, <1>7, <1>9, <1>10, <1>11, <1>12, <1>13, <1>14, <1>15 DEF ts

\* What the server sends for a listen.
ListenReply(l, h) ==
    (IF db \cap KeysAt(l) = h THEN <<>> ELSE <<Snapshot(l, db \cap KeysAt(l))>>)
    \o <<ListenOk(l)>>

\* The data, unless the hash says that the client has it, and then the response.
LEMMA ListenReplyChannel ==
    ASSUME TypeOK, NEW l \in Locations, NEW h
    PROVE  /\ ListenReply(l, h) \in Seq(ServerMessages)
           /\ ToSet(ListenReply(l, h)) =
                  {ListenOk(l)} \cup (IF db \cap KeysAt(l) = h THEN {}
                                      ELSE {Snapshot(l, db \cap KeysAt(l))})
           /\ CountOf(ListenReply(l, h), {"listenOk"}) = 1
           /\ \A M, n : Before(ListenReply(l, h), M, n) => n = ListenOk(l)
           /\ \A M : db \cap KeysAt(l) # h /\ Snapshot(l, db \cap KeysAt(l)) \in M
                     => Before(ListenReply(l, h), M, ListenOk(l))
           /\ \A M : ListenOk(l) \notin M /\ Snapshot(l, db \cap KeysAt(l)) \notin M
                     => Once(ListenReply(l, h), M)
<1> DEFINE data == IF db \cap KeysAt(l) = h THEN <<>> ELSE <<Snapshot(l, db \cap KeysAt(l))>>
           resp == <<ListenOk(l)>>
<1>1. Snapshot(l, db \cap KeysAt(l)) \in ServerMessages /\ ListenOk(l) \in ServerMessages
    <2>1. db \cap KeysAt(l) \in SUBSET Keys
        BY DEF TypeOK
    <2> QED
        BY <2>1, MessageTypes
<1>2. data \in Seq(ServerMessages) /\ resp \in Seq(ServerMessages)
    BY <1>1, EmptySeq, SingletonType
<1>3. ListenReply(l, h) = data \o resp
    BY DEF ListenReply
<1>4. /\ ToSet(data) = (IF db \cap KeysAt(l) = h THEN {} ELSE {Snapshot(l, db \cap KeysAt(l))})
      /\ ToSet(resp) = {ListenOk(l)}
    BY SingletonElements
<1>5. CountOf(data, {"listenOk"}) = 0 /\ CountOf(resp, {"listenOk"}) = 1
    BY CountShort, MessageKinds
<1>6. \A M, n : ~Before(data, M, n) /\ ~Before(resp, M, n)
    BY BeforeShort
<1> HIDE DEF data, resp
<1>7. /\ data \o resp \in Seq(ServerMessages)
      /\ ToSet(data \o resp) = ToSet(data) \cup ToSet(resp)
    BY <1>2, ConcatProperties, ServerConcat
<1>8. CountOf(data \o resp, {"listenOk"}) = 1
    <2>1. \A T : CountOf(data \o resp, T) = CountOf(data, T) + CountOf(resp, T)
        BY <1>2, ServerConcat
    <2> QED
        BY <1>5, <2>1
<1>9. ASSUME NEW M, NEW n, Before(data \o resp, M, n)
      PROVE  n = ListenOk(l)
    <2>1. n \in ToSet(resp)
        BY <1>2, <1>6, <1>9, BeforeConcat
    <2> QED
        BY <1>4, <2>1
<1>10. ASSUME NEW M, db \cap KeysAt(l) # h, Snapshot(l, db \cap KeysAt(l)) \in M
       PROVE  Before(data \o resp, M, ListenOk(l))
    <2>1. M \cap ToSet(data) # {} /\ ListenOk(l) \in ToSet(resp)
        BY <1>4, <1>10
    <2> QED
        BY <1>2, <2>1, BeforeConcat
<1>11. ASSUME NEW M, ListenOk(l) \notin M, Snapshot(l, db \cap KeysAt(l)) \notin M
       PROVE  Once(data \o resp, M)
    <2>1. M \cap ToSet(data \o resp) = {}
        BY <1>4, <1>7, <1>11
    <2> QED
        BY <2>1, OnceAbsent
<1> QED
    BY <1>3, <1>4, <1>7, <1>8, <1>9, <1>10, <1>11

\* What the server sends to d for the put of k by c.
PutReply(c, k, d) ==
    (IF LocationOf[k] \in listening[d] /\ k \notin db THEN <<ChildData(k)>> ELSE <<>>)
    \o (IF d = c THEN <<PutAck(k, TRUE)>> ELSE <<>>)

\* The child, if it is new and the location listened to, and then the response.
LEMMA PutReplyChannel ==
    ASSUME NEW c \in Clients, NEW k \in Keys, NEW d \in Clients
    PROVE  /\ PutReply(c, k, d) \in Seq(ServerMessages)
           /\ \A m : m \in ToSet(PutReply(c, k, d)) <=>
                        \/ LocationOf[k] \in listening[d] /\ k \notin db /\ m = ChildData(k)
                        \/ d = c /\ m = PutAck(k, TRUE)
           /\ CountOf(PutReply(c, k, d), {"listenOk"}) = 0
           /\ \A M, n : Before(PutReply(c, k, d), M, n) => d = c /\ n = PutAck(k, TRUE)
           /\ \A M : LocationOf[k] \in listening[d] /\ k \notin db /\ ChildData(k) \in M /\ d = c
                     => Before(PutReply(c, k, d), M, PutAck(k, TRUE))
           /\ \A M : ChildData(k) \notin M => Once(PutReply(c, k, d), M)
<1> DEFINE push == IF LocationOf[k] \in listening[d] /\ k \notin db THEN <<ChildData(k)>> ELSE <<>>
           ack  == IF d = c THEN <<PutAck(k, TRUE)>> ELSE <<>>
<1>1. ChildData(k) \in ServerMessages /\ PutAck(k, TRUE) \in ServerMessages
    BY MessageTypes
<1>2. push \in Seq(ServerMessages) /\ ack \in Seq(ServerMessages)
    BY <1>1, EmptySeq, SingletonType
<1>3. PutReply(c, k, d) = push \o ack
    BY DEF PutReply
<1>4. /\ \A m : m \in ToSet(push) <=>
                    LocationOf[k] \in listening[d] /\ k \notin db /\ m = ChildData(k)
      /\ \A m : m \in ToSet(ack) <=> d = c /\ m = PutAck(k, TRUE)
    BY SingletonElements
<1>5. CountOf(push, {"listenOk"}) = 0 /\ CountOf(ack, {"listenOk"}) = 0
    <2>1. /\ push = <<ChildData(k)>> \/ push = <<>>
          /\ ack = <<PutAck(k, TRUE)>> \/ ack = <<>>
        OBVIOUS
    <2>2. ChildData(k).type \notin {"listenOk"} /\ PutAck(k, TRUE).type \notin {"listenOk"}
        BY MessageKinds
    <2>3. /\ CountOf(<<>>, {"listenOk"}) = 0
          /\ CountOf(<<ChildData(k)>>, {"listenOk"}) = 0
          /\ CountOf(<<PutAck(k, TRUE)>>, {"listenOk"}) = 0
        BY <2>2, CountShort
    <2> QED
        BY <2>1, <2>3
<1>6. \A M, n : ~Before(push, M, n) /\ ~Before(ack, M, n)
    BY BeforeShort
<1>7. \A M : Once(push, M) /\ Once(ack, M)
    BY OnceShort
<1> HIDE DEF push, ack
<1>8. /\ push \o ack \in Seq(ServerMessages)
      /\ ToSet(push \o ack) = ToSet(push) \cup ToSet(ack)
    BY <1>2, ConcatProperties, ServerConcat
<1>9. CountOf(push \o ack, {"listenOk"}) = 0
    <2>1. \A T : CountOf(push \o ack, T) = CountOf(push, T) + CountOf(ack, T)
        BY <1>2, ServerConcat
    <2> QED
        BY <1>5, <2>1
<1>10. ASSUME NEW M, NEW n, Before(push \o ack, M, n)
       PROVE  d = c /\ n = PutAck(k, TRUE)
    <2>1. n \in ToSet(ack)
        BY <1>2, <1>6, <1>10, BeforeConcat
    <2> QED
        BY <1>4, <2>1
<1>11. ASSUME NEW M, LocationOf[k] \in listening[d], k \notin db, ChildData(k) \in M, d = c
       PROVE  Before(push \o ack, M, PutAck(k, TRUE))
    <2>1. ChildData(k) \in ToSet(push) /\ PutAck(k, TRUE) \in ToSet(ack)
        BY <1>4, <1>11
    <2>2. M \cap ToSet(push) # {}
        BY <1>11, <2>1
    <2> QED
        BY <1>2, <2>1, <2>2, BeforeConcat
<1>12. ASSUME NEW M, ChildData(k) \notin M
       PROVE  Once(push \o ack, M)
    <2>1. M \cap ToSet(push) = {}
        BY <1>4, <1>12
    <2> QED
        BY <1>2, <1>7, <2>1, OnceConcat
<1>13. ASSUME NEW m
       PROVE  m \in ToSet(push \o ack) <=>
                  \/ LocationOf[k] \in listening[d] /\ k \notin db /\ m = ChildData(k)
                  \/ d = c /\ m = PutAck(k, TRUE)
    <2>1. m \in ToSet(push \o ack) <=> m \in ToSet(push) \/ m \in ToSet(ack)
        BY <1>8
    <2>2. m \in ToSet(push) <=>
              LocationOf[k] \in listening[d] /\ k \notin db /\ m = ChildData(k)
        BY <1>4
    <2>3. m \in ToSet(ack) <=> d = c /\ m = PutAck(k, TRUE)
        BY <1>4
    <2> QED
        BY <2>1, <2>2, <2>3
<1> QED
    BY <1>3, <1>8, <1>9, <1>10, <1>11, <1>12, <1>13

\* A put is answered to its client and pushed to the others.
LEMMA PutChannel ==
    ASSUME TypeOK, NEW c \in Clients, NEW k \in Keys, NEW d \in Clients,
           toClient' = [e \in Clients |->
               toClient[e]
               \o (IF LocationOf[k] \in listening[e] /\ k \notin db
                   THEN <<ChildData(k)>> ELSE <<>>)
               \o (IF e = c THEN <<PutAck(k, TRUE)>> ELSE <<>>)]
    PROVE  toClient'[d] = toClient[d] \o PutReply(c, k, d)
<1> DEFINE push == IF LocationOf[k] \in listening[d] /\ k \notin db THEN <<ChildData(k)>> ELSE <<>>
           ack  == IF d = c THEN <<PutAck(k, TRUE)>> ELSE <<>>
<1>1. ChildData(k) \in ServerMessages /\ PutAck(k, TRUE) \in ServerMessages
    BY MessageTypes
<1>2. push \in Seq(ServerMessages) /\ ack \in Seq(ServerMessages)
    BY <1>1, EmptySeq, SingletonType
<1>3. toClient'[d] = (toClient[d] \o push) \o ack /\ PutReply(c, k, d) = push \o ack
    BY DEF PutReply
<1>4. toClient[d] \in Seq(ServerMessages)
    BY DEF TypeOK
<1> HIDE DEF push, ack
<1>5. \A s, t, u \in Seq(ServerMessages) : (s \o t) \o u = s \o (t \o u)
    BY ConcatAssociative
<1>6. (toClient[d] \o push) \o ack = toClient[d] \o (push \o ack)
    BY <1>2, <1>4, <1>5
<1> QED
    BY <1>3, <1>6

-----------------------------------------------------------------------------
(* Steps, client by client.                                                *)

\* A step of the client c, or of the server for it.
ClientStep(c) ==
    \/ \E r \in Observers, l \in Locations : ObserveNew(c, r, l)
    \/ \E r \in Observers, l \in Locations : ObserveExisting(c, r, l)
    \/ \E k \in Keys : SetValue(c, k)
    \/ Dispatch(c)
    \/ OnReadyUnauthenticated(c)
    \/ OnReadyWithToken(c)
    \/ OnDisconnect(c)
    \/ Kill(c)
    \/ ReceiveAuthOk(c)
    \/ ReceiveSnapshot(c)
    \/ ReceiveChild(c)
    \/ ReceiveListenOk(c)
    \/ ReceivePutAck(c)
    \/ ServeAuth(c)
    \/ ServeListen(c)
    \/ ServePut(c)
    \/ ServePutRefused(c)

\* Every step is a step of some client.
LEMMA StepsOfClients == Next => \E c \in Clients : ClientStep(c)
BY DEF Next, ClientStep, Observe, OnReady, Receive, Serve

\* Nothing of d changes but, perhaps, what is on its way to it.
Untouched(d) ==
    /\ connectionState'[d] = connectionState[d]
    /\ outstandingPuts'[d] = outstandingPuts[d]
    /\ putsToAck'[d] = putsToAck[d]
    /\ unackedListensCount'[d] = unackedListensCount[d]
    /\ pendingWrites'[d] = pendingWrites[d]
    /\ serverCache'[d] = serverCache[d]
    /\ complete'[d] = complete[d]
    /\ eventCache'[d] = eventCache[d]
    /\ registrations'[d] = registrations[d]
    /\ toServer'[d] = toServer[d]
    /\ listening'[d] = listening[d]

\* A step of one client leaves the others untouched; only a put that is stored
\* sends them anything, and only it changes the database.
LEMMA OthersUntouched ==
    ASSUME TypeOK, NEW c \in Clients, NEW d \in Clients \ {c}, ClientStep(c)
    PROVE  /\ Untouched(d)
           /\ ~ServePut(c) => toClient'[d] = toClient[d]
<1> USE DEF connVars, viewVars, netVars, serverVars, histVars, Untouched
<1>1. CASE \E r \in Observers, l \in Locations : ObserveNew(c, r, l)
    BY <1>1 DEF ObserveNew, Send, TypeOK
<1>2. CASE \E r \in Observers, l \in Locations : ObserveExisting(c, r, l)
    BY <1>2 DEF ObserveExisting, TypeOK
<1>3. CASE \E k \in Keys : SetValue(c, k)
    BY <1>3 DEF SetValue, Send, TypeOK
<1>4. CASE Dispatch(c)
    BY <1>4 DEF Dispatch, TypeOK
<1>5. CASE OnReadyUnauthenticated(c) \/ ReceiveAuthOk(c)
    <2>1. RestoreState(c)
        BY <1>5 DEF OnReadyUnauthenticated, ReceiveAuthOk
    <2>2. toServer'[d] = toServer[d] /\ unackedListensCount'[d] = unackedListensCount[d]
        BY <2>1, RestoredChannel
    <2> QED
        BY <1>5, <2>2 DEF OnReadyUnauthenticated, ReceiveAuthOk, Received, TypeOK
<1>6. CASE OnReadyWithToken(c)
    BY <1>6 DEF OnReadyWithToken, Send, TypeOK
<1>7. CASE OnDisconnect(c)
    BY <1>7 DEF OnDisconnect, Disconnect, TypeOK
<1>8. CASE Kill(c)
    BY <1>8 DEF Kill, TypeOK
<1>9. CASE ReceiveSnapshot(c)
    BY <1>9 DEF ReceiveSnapshot, Received, TypeOK
<1>10. CASE ReceiveChild(c)
    BY <1>10 DEF ReceiveChild, Received, TypeOK
<1>11. CASE ReceiveListenOk(c)
    BY <1>11 DEF ReceiveListenOk, Received, TypeOK
<1>12. CASE ReceivePutAck(c)
    BY <1>12 DEF ReceivePutAck, Received, TypeOK
<1>13. CASE ServeAuth(c)
    BY <1>13 DEF ServeAuth, Requested, Reply, TypeOK
<1>14. CASE ServeListen(c)
    BY <1>14 DEF ServeListen, Requested, Reply, TypeOK
<1>15. CASE ServePut(c)
    BY <1>15 DEF ServePut, Requested, TypeOK
<1>16. CASE ServePutRefused(c)
    BY <1>16 DEF ServePutRefused, Requested, Reply, TypeOK
<1> QED
    BY <1>1, <1>2, <1>3, <1>4, <1>5, <1>6, <1>7, <1>8, <1>9, <1>10, <1>11, <1>12,
       <1>13, <1>14, <1>15, <1>16 DEF ClientStep

-----------------------------------------------------------------------------
(* The listens that are counted, and the responses that are held back.     *)
(* ListensCounted is inductive by itself.  That held back responses are    *)
(* released needs more: a client has none without a view, so that the next *)
(* connection asks for something, and a listen that is counted is about a  *)
(* location with a view.                                                   *)

ListensOf(c) ==
    /\ unackedListensCount[c] = CountOf(toServer[c], {"listen"})
                                + CountOf(toClient[c], {"listenOk"})
    /\ \A l \in Locations, h \in SUBSET Keys :
          ListenMsg(l, h) \in ToSet(toServer[c]) => l \in Views(c)
    /\ \A l \in Locations : ListenOk(l) \in ToSet(toClient[c]) => l \in Views(c)
    /\ putsToAck[c] # {} => Views(c) # {}
    /\ CanSendWrites(c) /\ putsToAck[c] # {} => unackedListensCount[c] > 0

ListensInv == TypeOK /\ \A c \in Clients : ListensOf(c)

\* Counts are natural numbers, and so is the client's.
LEMMA CountsAreNatural ==
    ASSUME TypeOK, NEW c \in Clients, ListensOf(c)
    PROVE  /\ CountOf(toServer[c], {"listen"}) \in Nat
           /\ CountOf(toClient[c], {"listenOk"}) \in Nat
           /\ unackedListensCount[c] \in Nat
           /\ unackedListensCount[c] = 0
              => /\ \A l \in Locations, h \in SUBSET Keys : ListenMsg(l, h) \notin ToSet(toServer[c])
                 /\ \A l \in Locations : ListenOk(l) \notin ToSet(toClient[c])
<1>1. toServer[c] \in Seq(ClientMessages) /\ toClient[c] \in Seq(ServerMessages)
    BY DEF TypeOK
<1>2. /\ CountOf(toServer[c], {"listen"}) \in Nat
      /\ CountOf(toServer[c], {"listen"}) = 0 => \A m \in ToSet(toServer[c]) : m.type \notin {"listen"}
    BY <1>1, CountType
<1>3. /\ CountOf(toClient[c], {"listenOk"}) \in Nat
      /\ CountOf(toClient[c], {"listenOk"}) = 0 => \A m \in ToSet(toClient[c]) : m.type \notin {"listenOk"}
    BY <1>1, CountType
<1>4. unackedListensCount[c] = CountOf(toServer[c], {"listen"}) + CountOf(toClient[c], {"listenOk"})
    BY DEF ListensOf
<1>5. ASSUME unackedListensCount[c] = 0
      PROVE  /\ \A l \in Locations, h \in SUBSET Keys : ListenMsg(l, h) \notin ToSet(toServer[c])
             /\ \A l \in Locations : ListenOk(l) \notin ToSet(toClient[c])
    <2>1. CountOf(toServer[c], {"listen"}) = 0 /\ CountOf(toClient[c], {"listenOk"}) = 0
        BY <1>2, <1>3, <1>4, <1>5
    <2> QED
        BY <1>2, <1>3, <2>1, MessageKinds
<1> QED
    BY <1>2, <1>3, <1>4, <1>5

\* A listen that is counted is about a location with a view.
LEMMA CountedListensHaveViews ==
    ASSUME TypeOK, NEW c \in Clients, ListensOf(c), unackedListensCount[c] # 0
    PROVE  Views(c) # {}
<1>1. toServer[c] \in Seq(ClientMessages) /\ toClient[c] \in Seq(ServerMessages)
    BY DEF TypeOK
<1>2. /\ CountOf(toServer[c], {"listen"}) \in Nat
      /\ (\A m \in ToSet(toServer[c]) : m.type \notin {"listen"}) => CountOf(toServer[c], {"listen"}) = 0
    BY <1>1, CountType
<1>3. /\ CountOf(toClient[c], {"listenOk"}) \in Nat
      /\ (\A m \in ToSet(toClient[c]) : m.type \notin {"listenOk"}) => CountOf(toClient[c], {"listenOk"}) = 0
    BY <1>1, CountType
<1>4. unackedListensCount[c] = CountOf(toServer[c], {"listen"}) + CountOf(toClient[c], {"listenOk"})
    BY DEF ListensOf
<1>5. CASE CountOf(toServer[c], {"listen"}) # 0
    <2>1. PICK m \in ToSet(toServer[c]) : m.type = "listen"
        BY <1>2, <1>5
    <2>2. m \in ClientMessages
        BY <1>1, <2>1, SequenceMembers
    <2>3. PICK l \in Locations, h \in SUBSET Keys : m = ListenMsg(l, h)
        BY <2>1, <2>2, MessageKinds DEF ClientMessages
    <2> QED
        BY <2>1, <2>3 DEF ListensOf
<1>6. CASE CountOf(toClient[c], {"listenOk"}) # 0
    <2>1. PICK m \in ToSet(toClient[c]) : m.type = "listenOk"
        BY <1>3, <1>6
    <2>2. m \in ServerMessages
        BY <1>1, <2>1, SequenceMembers
    <2>3. PICK l \in Locations : m = ListenOk(l)
        BY <2>1, <2>2, MessageKinds DEF ServerMessages
    <2> QED
        BY <2>1, <2>3 DEF ListensOf
<1> QED
    BY <1>2, <1>3, <1>4, <1>5, <1>6

\* A client that no step touches, and that is sent no response to a listen,
\* keeps its listens.
LEMMA ListensFrame ==
    ASSUME NEW d \in Clients, ListensOf(d), Untouched(d),
           CountOf(toClient'[d], {"listenOk"}) = CountOf(toClient[d], {"listenOk"}),
           \A l \in Locations : ListenOk(l) \in ToSet(toClient'[d]) => ListenOk(l) \in ToSet(toClient[d])
    PROVE  ListensOf(d)'
<1>1. Views(d)' = Views(d)
    BY DEF Untouched, Views
<1>2. CanSendWrites(d)' = CanSendWrites(d)
    BY DEF Untouched, CanSendWrites
<1> QED
    BY <1>1, <1>2 DEF ListensOf, Untouched

\* A step that adds nothing but requests that are no listens, and no responses
\* to listens, keeps the listens of its client.
LEMMA ListensKept ==
    ASSUME NEW c \in Clients, ListensOf(c),
           Views(c)' = Views(c), putsToAck'[c] = putsToAck[c],
           unackedListensCount'[c] = unackedListensCount[c],
           connectionState'[c] = connectionState[c],
           CountOf(toServer'[c], {"listen"}) = CountOf(toServer[c], {"listen"}),
           \A l \in Locations, h \in SUBSET Keys :
               ListenMsg(l, h) \in ToSet(toServer'[c]) => ListenMsg(l, h) \in ToSet(toServer[c]),
           CountOf(toClient'[c], {"listenOk"}) = CountOf(toClient[c], {"listenOk"}),
           \A l \in Locations : ListenOk(l) \in ToSet(toClient'[c]) => ListenOk(l) \in ToSet(toClient[c])
    PROVE  ListensOf(c)'
BY DEF ListensOf, CanSendWrites

\* The views after a location was observed.
LEMMA ObservedViews ==
    ASSUME TypeOK, NEW c \in Clients, NEW r \in Observers, NEW l \in Locations
    PROVE  /\ ObserveNew(c, r, l) => Views(c)' = Views(c) \cup {l} /\ l \notin Views(c)
           /\ ObserveExisting(c, r, l) => Views(c)' = Views(c)
<1>1. ASSUME ObserveNew(c, r, l)
      PROVE  Views(c)' = Views(c) \cup {l} /\ l \notin Views(c)
    <2>1. registrations' = [registrations EXCEPT ![c][l] = {r}] /\ l \notin Views(c)
        BY <1>1 DEF ObserveNew
    <2>2. \A m \in Locations : registrations'[c][m] = IF m = l THEN {r} ELSE registrations[c][m]
        BY <2>1 DEF TypeOK
    <2> QED
        BY <2>1, <2>2 DEF Views
<1>2. ASSUME ObserveExisting(c, r, l)
      PROVE  Views(c)' = Views(c)
    BY <1>2 DEF ObserveExisting, Views, TypeOK
<1> QED
    BY <1>1, <1>2

\* When the state of a connection is restored, every location with a view is
\* asked for, so what is held back will be released.
LEMMA ListensRestored ==
    ASSUME TypeOK, NEW c \in Clients, ListensOf(c), RestoreState(c),
           registrations' = registrations, putsToAck' = putsToAck,
           CountOf(toClient'[c], {"listenOk"}) = CountOf(toClient[c], {"listenOk"}),
           \A l \in Locations : ListenOk(l) \in ToSet(toClient'[c]) => ListenOk(l) \in ToSet(toClient[c])
    PROVE  ListensOf(c)'
<1>1. Views(c)' = Views(c)
    BY DEF Views
<1>2. /\ CountOf(toServer'[c], {"listen"}) = CountOf(toServer[c], {"listen"}) + Cardinality(Views(c))
      /\ unackedListensCount'[c] = unackedListensCount[c] + Cardinality(Views(c))
      /\ Cardinality(Views(c)) \in Nat /\ (Cardinality(Views(c)) = 0 <=> Views(c) = {})
    BY RestoredChannel
<1>3. /\ CountOf(toServer[c], {"listen"}) \in Nat
      /\ CountOf(toClient[c], {"listenOk"}) \in Nat
      /\ unackedListensCount[c] \in Nat
    BY CountsAreNatural
<1>4. unackedListensCount'[c] = CountOf(toServer'[c], {"listen"}) + CountOf(toClient'[c], {"listenOk"})
    BY <1>2, <1>3 DEF ListensOf
<1>5. putsToAck[c] # {} => unackedListensCount'[c] > 0
    BY <1>2, <1>3 DEF ListensOf
<1>6. ASSUME NEW l \in Locations, NEW h \in SUBSET Keys, ListenMsg(l, h) \in ToSet(toServer'[c])
      PROVE  l \in Views(c)
    <2>0. ToSet(toServer'[c]) =
              ToSet(toServer[c])
              \cup {ListenMsg(m, serverCache[c] \cap KeysAt(m)) : m \in Views(c)}
              \cup {PutMsg(k) : k \in outstandingPuts[c]}
        BY RestoredChannel
    <2>1. \/ ListenMsg(l, h) \in ToSet(toServer[c])
          \/ \E m \in Views(c) : ListenMsg(l, h) = ListenMsg(m, serverCache[c] \cap KeysAt(m))
          \/ \E k \in outstandingPuts[c] : ListenMsg(l, h) = PutMsg(k)
        BY <1>6, <2>0
    <2> QED
        BY <2>1, RequestsDistinct DEF ListensOf
<1> QED
    BY <1>1, <1>4, <1>5, <1>6 DEF ListensOf

\* Every step of a client keeps its listens.
LEMMA ListensOwnStep ==
    ASSUME ListensInv, NEW c \in Clients, ClientStep(c)
    PROVE  ListensOf(c)'
<1> USE DEF connVars, viewVars, netVars, serverVars, histVars
<1>0. TypeOK /\ ListensOf(c)
    BY DEF ListensInv
<1>0a. /\ CountOf(toServer[c], {"listen"}) \in Nat
       /\ CountOf(toClient[c], {"listenOk"}) \in Nat
       /\ unackedListensCount[c] \in Nat
       /\ unackedListensCount[c] = CountOf(toServer[c], {"listen"}) + CountOf(toClient[c], {"listenOk"})
    BY <1>0, CountsAreNatural DEF ListensOf
<1>1. CASE \E r \in Observers, l \in Locations : ObserveNew(c, r, l)
    <2>1. PICK r \in Observers, l \in Locations : ObserveNew(c, r, l)
        BY <1>1
    <2>2. Views(c)' = Views(c) \cup {l}
        BY <1>0, <2>1, ObservedViews
    <2>3. toClient' = toClient /\ putsToAck' = putsToAck /\ connectionState' = connectionState
        BY <2>1 DEF ObserveNew
    <2>4. CASE Connected(c)
        <3>1. Send(c, ListenMsg(l, {})) /\ unackedListensCount'[c] = unackedListensCount[c] + 1
            BY <1>0, <2>1, <2>4 DEF ObserveNew, TypeOK
        <3>2. ListenMsg(l, {}) \in ClientMessages
            BY MessageTypes
        <3>3. /\ ToSet(toServer'[c]) = ToSet(toServer[c]) \cup {ListenMsg(l, {})}
              /\ CountOf(toServer'[c], {"listen"}) = CountOf(toServer[c], {"listen"})
                     + (IF ListenMsg(l, {}).type \in {"listen"} THEN 1 ELSE 0)
            BY <1>0, <3>1, <3>2, SentChannel
        <3>4. CountOf(toServer'[c], {"listen"}) = CountOf(toServer[c], {"listen"}) + 1
            BY <3>3, MessageKinds
        <3>5. unackedListensCount'[c] = CountOf(toServer'[c], {"listen"}) + CountOf(toClient'[c], {"listenOk"})
            BY <1>0a, <2>3, <3>1, <3>4
        <3>6. unackedListensCount'[c] > 0
            BY <1>0a, <3>1
        <3>7. \A m \in Locations, h \in SUBSET Keys :
                 ListenMsg(m, h) \in ToSet(toServer'[c]) => m \in Views(c) \cup {l}
            BY <1>0, <3>3, RequestsDistinct DEF ListensOf
        <3> QED
            BY <1>0, <2>2, <2>3, <3>5, <3>6, <3>7 DEF ListensOf
    <2>5. CASE ~Connected(c)
        <3>1. toServer' = toServer /\ unackedListensCount' = unackedListensCount
            BY <2>1, <2>5 DEF ObserveNew
        <3> QED
            BY <1>0, <2>2, <2>3, <3>1 DEF ListensOf, CanSendWrites
    <2> QED
        BY <2>4, <2>5
<1>2. CASE \E r \in Observers, l \in Locations : ObserveExisting(c, r, l)
    <2>1. Views(c)' = Views(c)
        BY <1>0, <1>2, ObservedViews
    <2> QED
        BY <1>0, <1>2, <2>1 DEF ObserveExisting, ListensOf, CanSendWrites
<1>3. CASE \E k \in Keys : SetValue(c, k)
    <2>1. PICK k \in Keys : SetValue(c, k)
        BY <1>3
    <2>2. /\ Views(c)' = Views(c)
          /\ toClient' = toClient /\ putsToAck' = putsToAck
          /\ connectionState' = connectionState /\ unackedListensCount' = unackedListensCount
        BY <2>1 DEF SetValue, Views
    <2>3. /\ CountOf(toServer'[c], {"listen"}) = CountOf(toServer[c], {"listen"})
          /\ ToSet(toServer'[c]) \subseteq ToSet(toServer[c]) \cup {PutMsg(k)}
        <3>1. CASE CanSendWrites(c)
            <4>1. Send(c, PutMsg(k)) /\ PutMsg(k) \in ClientMessages
                BY <2>1, <3>1, MessageTypes DEF SetValue
            <4>2. /\ ToSet(toServer'[c]) = ToSet(toServer[c]) \cup {PutMsg(k)}
                  /\ CountOf(toServer'[c], {"listen"}) = CountOf(toServer[c], {"listen"})
                         + (IF PutMsg(k).type \in {"listen"} THEN 1 ELSE 0)
                <5>1. PICK m \in ClientMessages : m = PutMsg(k)
                    BY <4>1
                <5>2. Send(c, m)
                    BY <4>1, <5>1
                <5>3. /\ ToSet(toServer'[c]) = ToSet(toServer[c]) \cup {m}
                      /\ CountOf(toServer'[c], {"listen"}) = CountOf(toServer[c], {"listen"})
                             + (IF m.type \in {"listen"} THEN 1 ELSE 0)
                    BY <1>0, <5>2, SentChannel
                <5> QED
                    BY <5>1, <5>3
            <4> QED
                BY <1>0a, <4>2, MessageKinds
        <3>2. CASE ~CanSendWrites(c)
            BY <2>1, <3>2 DEF SetValue
        <3> QED
            BY <3>1, <3>2
    <2>4. \A l \in Locations, h \in SUBSET Keys :
             ListenMsg(l, h) \in ToSet(toServer'[c]) => ListenMsg(l, h) \in ToSet(toServer[c])
        BY <2>3, RequestsDistinct
    <2> QED
        BY <1>0, <2>2, <2>3, <2>4, ListensKept
<1>4. CASE Dispatch(c)
    BY <1>0, <1>4 DEF Dispatch, ListensOf, Views, CanSendWrites
<1>5. CASE OnReadyUnauthenticated(c)
    <2>1. RestoreState(c) /\ UNCHANGED <<registrations, putsToAck, toClient>>
        BY <1>5 DEF OnReadyUnauthenticated
    <2> QED
        BY <1>0, <2>1, ListensRestored
<1>6. CASE OnReadyWithToken(c)
    <2>1. /\ Send(c, AuthMsg) /\ AuthMsg \in ClientMessages
          /\ UNCHANGED <<registrations, putsToAck, unackedListensCount, toClient>>
          /\ connectionState'[c] = "Authenticating"
        BY <1>0, <1>6, MessageTypes DEF OnReadyWithToken, TypeOK
    <2>2. /\ ToSet(toServer'[c]) = ToSet(toServer[c]) \cup {AuthMsg}
          /\ CountOf(toServer'[c], {"listen"}) = CountOf(toServer[c], {"listen"})
                 + (IF AuthMsg.type \in {"listen"} THEN 1 ELSE 0)
        BY <1>0, <2>1, SentChannel
    <2>3. CountOf(toServer'[c], {"listen"}) = CountOf(toServer[c], {"listen"})
        BY <1>0a, <2>2, MessageKinds
    <2>4. \A l \in Locations, h \in SUBSET Keys :
             ListenMsg(l, h) \in ToSet(toServer'[c]) => ListenMsg(l, h) \in ToSet(toServer[c])
        BY <2>2, RequestsDistinct
    <2>5. Views(c)' = Views(c) /\ ~CanSendWrites(c)'
        BY <2>1 DEF Views, CanSendWrites
    <2> QED
        BY <1>0, <2>1, <2>3, <2>4, <2>5 DEF ListensOf
<1>7. CASE OnDisconnect(c) \/ Kill(c)
    <2>1. /\ toServer'[c] = <<>> /\ toClient'[c] = <<>> /\ unackedListensCount'[c] = 0
          /\ connectionState'[c] = "Disconnected"
        BY <1>0, <1>7 DEF OnDisconnect, Disconnect, Kill, TypeOK
    <2>2. putsToAck'[c] # {} => Views(c)' # {}
        BY <1>0, <1>7 DEF OnDisconnect, Disconnect, Kill, TypeOK, ListensOf, Views
    <2>3. /\ \A T : CountOf(<<>>, T) = 0
          /\ ToSet(<<>>) = {}
        BY CountShort, SingletonElements
    <2>4. ~CanSendWrites(c)'
        BY <2>1 DEF CanSendWrites
    <2> QED
        BY <2>1, <2>2, <2>3, <2>4 DEF ListensOf
<1>8. CASE ReceiveAuthOk(c)
    <2>1. Received(c, {AuthOk}) /\ RestoreState(c) /\ UNCHANGED <<registrations, putsToAck>>
        BY <1>8 DEF ReceiveAuthOk
    <2>2. /\ ToSet(toClient[c]) = {AuthOk} \cup ToSet(toClient'[c])
          /\ CountOf(toClient[c], {"listenOk"}) = CountOf(toClient'[c], {"listenOk"})
                 + (IF AuthOk.type \in {"listenOk"} THEN 1 ELSE 0)
        BY <1>0, <2>1, ReceivedChannel
    <2>3. toClient'[c] \in Seq(ServerMessages)
        BY <1>0, <2>1, ReceivedType
    <2>4. CountOf(toClient'[c], {"listenOk"}) \in Nat
        BY <2>3, CountType
    <2>5. CountOf(toClient'[c], {"listenOk"}) = CountOf(toClient[c], {"listenOk"})
        BY <2>2, <2>4, MessageKinds
    <2> QED
        BY <1>0, <2>1, <2>2, <2>5, ListensRestored
<1>9. ASSUME NEW m, Received(c, {m}), m.type # "listenOk",
             UNCHANGED <<connectionState, registrations, unackedListensCount, toServer>>,
             putsToAck'[c] = putsToAck[c] \/ unackedListensCount[c] # 0
      PROVE  ListensOf(c)'
    <2>1. /\ ToSet(toClient[c]) = {m} \cup ToSet(toClient'[c])
          /\ CountOf(toClient[c], {"listenOk"}) = CountOf(toClient'[c], {"listenOk"})
                 + (IF m.type \in {"listenOk"} THEN 1 ELSE 0)
        BY <1>0, <1>9, ReceivedChannel
    <2>2. toClient'[c] \in Seq(ServerMessages)
        BY <1>0, <1>9, ReceivedType
    <2>3. CountOf(toClient'[c], {"listenOk"}) \in Nat
        BY <2>2, CountType
    <2>4. CountOf(toClient'[c], {"listenOk"}) = CountOf(toClient[c], {"listenOk"})
        BY <1>9, <2>1, <2>3
    <2>5. Views(c)' = Views(c) /\ CanSendWrites(c)' = CanSendWrites(c)
        BY <1>9 DEF Views, CanSendWrites
    <2>6. unackedListensCount[c] # 0 => Views(c) # {} /\ unackedListensCount[c] > 0
        BY <1>0, <1>0a, CountedListensHaveViews
    <2> QED
        BY <1>0, <1>9, <2>1, <2>4, <2>5, <2>6 DEF ListensOf
<1>10. CASE ReceiveSnapshot(c)
    <2>1. PICK l \in Locations, S \in SUBSET Keys : Received(c, {Snapshot(l, S)})
        BY <1>10 DEF ReceiveSnapshot
    <2>2. Snapshot(l, S).type # "listenOk"
        BY MessageKinds
    <2> QED
        BY <1>9, <1>10, <2>1, <2>2 DEF ReceiveSnapshot
<1>11. CASE ReceiveChild(c)
    <2>1. PICK k \in Keys : Received(c, {ChildData(k)})
        BY <1>11 DEF ReceiveChild
    <2>2. ChildData(k).type # "listenOk"
        BY MessageKinds
    <2> QED
        BY <1>9, <1>11, <2>1, <2>2 DEF ReceiveChild
<1>12. CASE ReceiveListenOk(c)
    <2>1. PICK l \in Locations :
              /\ Received(c, {ListenOk(l)})
              /\ unackedListensCount' = [unackedListensCount EXCEPT ![c] = @ - 1]
              /\ LET A == IF LastListen(c) THEN putsToAck[c] ELSE {}
                 IN  putsToAck' = [putsToAck EXCEPT ![c] = @ \ A]
              /\ UNCHANGED <<connectionState, registrations, toServer>>
        BY <1>12 DEF ReceiveListenOk
    <2>2. /\ ToSet(toClient[c]) = {ListenOk(l)} \cup ToSet(toClient'[c])
          /\ CountOf(toClient[c], {"listenOk"}) = CountOf(toClient'[c], {"listenOk"})
                 + (IF ListenOk(l).type \in {"listenOk"} THEN 1 ELSE 0)
        BY <1>0, <2>1, ReceivedChannel
    <2>3. toClient'[c] \in Seq(ServerMessages)
        BY <1>0, <2>1, ReceivedType
    <2>4. CountOf(toClient'[c], {"listenOk"}) \in Nat
        BY <2>3, CountType
    <2>5. CountOf(toClient[c], {"listenOk"}) = CountOf(toClient'[c], {"listenOk"}) + 1
        BY <2>2, MessageKinds
    <2>6. unackedListensCount'[c] = unackedListensCount[c] - 1
        BY <1>0, <2>1 DEF TypeOK
    <2>7. unackedListensCount'[c] = CountOf(toServer'[c], {"listen"}) + CountOf(toClient'[c], {"listenOk"})
        BY <1>0a, <2>1, <2>4, <2>5, <2>6
    <2>8. putsToAck'[c] # {} => putsToAck[c] # {} /\ unackedListensCount'[c] > 0
        <3>1. CASE LastListen(c)
            BY <1>0, <2>1, <3>1 DEF TypeOK
        <3>2. CASE ~LastListen(c)
            <4>1. unackedListensCount[c] # 1
                BY <3>2 DEF LastListen
            <4>2. unackedListensCount'[c] > 0
                BY <1>0a, <2>4, <2>5, <2>6, <4>1
            <4> QED
                BY <1>0, <2>1, <3>2, <4>2 DEF TypeOK
        <3> QED
            BY <3>1, <3>2
    <2>9. Views(c)' = Views(c)
        BY <2>1 DEF Views
    <2> QED
        BY <1>0, <2>1, <2>2, <2>7, <2>8, <2>9 DEF ListensOf
<1>13. CASE ReceivePutAck(c)
    <2>1. PICK k \in Keys, ok \in BOOLEAN :
              /\ Received(c, {PutAck(k, ok)})
              /\ LET answered == IF k \in outstandingPuts[c] THEN {<<k, ok>>} ELSE {}
                     A        == IF AckNow(c) THEN answered ELSE {}
                 IN  putsToAck' = [putsToAck EXCEPT ![c] = @ \cup (answered \ A)]
        BY <1>13 DEF ReceivePutAck
    <2>2. PutAck(k, ok).type # "listenOk"
        BY MessageKinds
    <2>3. putsToAck'[c] = putsToAck[c] \/ unackedListensCount[c] # 0
        <3>1. CASE AckNow(c)
            BY <1>0, <2>1, <3>1 DEF TypeOK
        <3>2. CASE ~AckNow(c)
            BY <3>2 DEF AckNow
        <3> QED
            BY <3>1, <3>2
    <2> QED
        BY <1>9, <1>13, <2>1, <2>2, <2>3 DEF ReceivePutAck
<1>14. CASE ServeListen(c)
    <2>1. PICK l \in Locations, h \in SUBSET Keys :
              /\ Requested(c, {ListenMsg(l, h)})
              /\ Reply(c, ListenReply(l, h))
              /\ UNCHANGED <<connVars, viewVars>>
        BY <1>14 DEF ServeListen, ListenReply
    <2>2. /\ ToSet(toServer[c]) = {ListenMsg(l, h)} \cup ToSet(toServer'[c])
          /\ CountOf(toServer[c], {"listen"}) = CountOf(toServer'[c], {"listen"})
                 + (IF ListenMsg(l, h).type \in {"listen"} THEN 1 ELSE 0)
        <3>1. PICK m : m = ListenMsg(l, h)
            OBVIOUS
        <3>2. Requested(c, {m})
            BY <2>1, <3>1
        <3>3. /\ ToSet(toServer[c]) = {m} \cup ToSet(toServer'[c])
              /\ CountOf(toServer[c], {"listen"}) = CountOf(toServer'[c], {"listen"})
                     + (IF m.type \in {"listen"} THEN 1 ELSE 0)
            BY <1>0, <3>2, RequestedChannel
        <3> QED
            BY <3>1, <3>3
    <2>3. toServer'[c] \in Seq(ClientMessages) /\ toClient[c] \in Seq(ServerMessages)
        BY <1>0, <2>1, RequestedType DEF TypeOK
    <2>4. CountOf(toServer'[c], {"listen"}) \in Nat
        BY <2>3, CountType
    <2>5. CountOf(toServer[c], {"listen"}) = CountOf(toServer'[c], {"listen"}) + 1
        BY <2>2, MessageKinds
    <2>6. /\ ListenReply(l, h) \in Seq(ServerMessages)
          /\ CountOf(ListenReply(l, h), {"listenOk"}) = 1
          /\ ToSet(ListenReply(l, h)) =
                  {ListenOk(l)} \cup (IF db \cap KeysAt(l) = h THEN {}
                                      ELSE {Snapshot(l, db \cap KeysAt(l))})
        BY <1>0, ListenReplyChannel
    <2>7. toClient'[c] = toClient[c] \o ListenReply(l, h)
        BY <1>0, <2>1, <2>6, RepliedChannel
    <2>8. CountOf(toClient'[c], {"listenOk"}) = CountOf(toClient[c], {"listenOk"}) + 1
        BY <2>3, <2>6, <2>7, ServerConcat
    <2>9. ToSet(toClient'[c]) = ToSet(toClient[c]) \cup ToSet(ListenReply(l, h))
        BY <2>3, <2>6, <2>7, ServerConcat
    <2>10. ASSUME NEW m \in Locations, ListenOk(m) \in ToSet(toClient'[c])
           PROVE  m \in Views(c)
        <3>1. ListenOk(m) \in ToSet(toClient[c]) \/ ListenOk(m) = ListenOk(l)
            BY <2>6, <2>9, <2>10, RepliesDistinct
        <3> QED
            BY <1>0, <2>2, <3>1, RepliesDistinct DEF ListensOf
    <2>11. Views(c)' = Views(c) /\ CanSendWrites(c)' = CanSendWrites(c)
        BY <2>1 DEF Views, CanSendWrites
    <2>12. unackedListensCount'[c] = CountOf(toServer'[c], {"listen"}) + CountOf(toClient'[c], {"listenOk"})
        BY <1>0a, <2>1, <2>4, <2>5, <2>8
    <2> QED
        BY <1>0, <2>1, <2>2, <2>10, <2>11, <2>12 DEF ListensOf
<1>15. ASSUME NEW m, Requested(c, {m}), m.type # "listen",
              NEW ms \in Seq(ServerMessages), toClient'[c] = toClient[c] \o ms,
              \A n \in ToSet(ms) : n.type # "listenOk",
              UNCHANGED <<connectionState, registrations, unackedListensCount, putsToAck>>
       PROVE  ListensOf(c)'
    <2>1. /\ ToSet(toServer[c]) = {m} \cup ToSet(toServer'[c])
          /\ CountOf(toServer[c], {"listen"}) = CountOf(toServer'[c], {"listen"})
                 + (IF m.type \in {"listen"} THEN 1 ELSE 0)
        BY <1>0, <1>15, RequestedChannel
    <2>2. toServer'[c] \in Seq(ClientMessages) /\ toClient[c] \in Seq(ServerMessages)
        BY <1>0, <1>15, RequestedType DEF TypeOK
    <2>3. CountOf(toServer'[c], {"listen"}) \in Nat
        BY <2>2, CountType
    <2>4. CountOf(toServer'[c], {"listen"}) = CountOf(toServer[c], {"listen"})
        BY <1>15, <2>1, <2>3
    <2>5. CountOf(ms, {"listenOk"}) = 0
        BY <1>15, CountType
    <2>6. CountOf(toClient[c] \o ms, {"listenOk"}) = CountOf(toClient[c], {"listenOk"}) + CountOf(ms, {"listenOk"})
        BY <1>15, <2>2, CountConcat
    <2>7. CountOf(toClient'[c], {"listenOk"}) = CountOf(toClient[c], {"listenOk"})
        BY <1>0a, <1>15, <2>5, <2>6
    <2>8. ToSet(toClient[c] \o ms) = ToSet(toClient[c]) \cup ToSet(ms)
        BY <1>15, <2>2, ConcatElements
    <2>9. \A l \in Locations : ListenOk(l) \in ToSet(toClient'[c]) => ListenOk(l) \in ToSet(toClient[c])
        BY <1>15, <2>8, MessageKinds
    <2>10. Views(c)' = Views(c)
        BY <1>15 DEF Views
    <2> QED
        BY <1>0, <1>15, <2>1, <2>4, <2>7, <2>9, <2>10, ListensKept
<1>16. CASE ServeAuth(c)
    <2>1. Requested(c, {AuthMsg}) /\ Reply(c, <<AuthOk>>)
        BY <1>16 DEF ServeAuth
    <2>2. <<AuthOk>> \in Seq(ServerMessages) /\ ToSet(<<AuthOk>>) = {AuthOk}
        BY MessageTypes, SingletonType, SingletonElements
    <2>3. toClient'[c] = toClient[c] \o <<AuthOk>>
        BY <1>0, <2>1, <2>2, RepliedChannel
    <2>4. AuthMsg.type # "listen" /\ \A n \in ToSet(<<AuthOk>>) : n.type # "listenOk"
        BY <2>2, MessageKinds
    <2> QED
        BY <1>15, <1>16, <2>1, <2>2, <2>3, <2>4 DEF ServeAuth
<1>17. CASE ServePut(c)
    <2>1. PICK k \in Keys :
              /\ Requested(c, {PutMsg(k)})
              /\ toClient' = [e \in Clients |->
                    toClient[e]
                    \o (IF LocationOf[k] \in listening[e] /\ k \notin db
                        THEN <<ChildData(k)>> ELSE <<>>)
                    \o (IF e = c THEN <<PutAck(k, TRUE)>> ELSE <<>>)]
        BY <1>17 DEF ServePut
    <2>2. toClient'[c] = toClient[c] \o PutReply(c, k, c)
        BY <1>0, <2>1, PutChannel
    <2>3. PutReply(c, k, c) \in Seq(ServerMessages)
        BY PutReplyChannel
    <2>4. \A n \in ToSet(PutReply(c, k, c)) : n.type # "listenOk"
        <3>1. \A n \in ToSet(PutReply(c, k, c)) : n = ChildData(k) \/ n = PutAck(k, TRUE)
            BY PutReplyChannel
        <3> QED
            BY <3>1, MessageKinds
    <2>5. PutMsg(k).type # "listen"
        BY MessageKinds
    <2> QED
        BY <1>15, <1>17, <2>1, <2>2, <2>3, <2>4, <2>5 DEF ServePut
<1>18. CASE ServePutRefused(c)
    <2>1. PICK k \in Keys : Requested(c, {PutMsg(k)}) /\ Reply(c, <<PutAck(k, FALSE)>>)
        BY <1>18 DEF ServePutRefused
    <2>2. <<PutAck(k, FALSE)>> \in Seq(ServerMessages) /\ ToSet(<<PutAck(k, FALSE)>>) = {PutAck(k, FALSE)}
        BY MessageTypes, SingletonType, SingletonElements
    <2>3. toClient'[c] = toClient[c] \o <<PutAck(k, FALSE)>>
        BY <1>0, <2>1, <2>2, RepliedChannel
    <2>4. PutMsg(k).type # "listen" /\ \A n \in ToSet(<<PutAck(k, FALSE)>>) : n.type # "listenOk"
        BY <2>2, MessageKinds
    <2> QED
        BY <1>15, <1>18, <2>1, <2>2, <2>3, <2>4 DEF ServePutRefused
<1> QED
    BY <1>1, <1>2, <1>3, <1>4, <1>5, <1>6, <1>7, <1>8, <1>10, <1>11, <1>12, <1>13,
       <1>14, <1>16, <1>17, <1>18 DEF ClientStep

\* Every step keeps the listens of every client.
LEMMA ListensStep == ListensInv /\ [Next]_dbVars => ListensInv'
<1> SUFFICES ASSUME ListensInv, [Next]_dbVars, NEW d \in Clients
             PROVE  ListensOf(d)'
    BY TypeStep DEF ListensInv
<1>0. TypeOK /\ ListensOf(d)
    BY DEF ListensInv
<1>1. ASSUME UNCHANGED dbVars
      PROVE  ListensOf(d)'
    BY <1>0, <1>1, ListensFrame
       DEF dbVars, connVars, viewVars, netVars, serverVars, histVars, Untouched
<1>2. ASSUME NEW c \in Clients, c # d, ClientStep(c)
      PROVE  ListensOf(d)'
    <2>1. Untouched(d) /\ (~ServePut(c) => toClient'[d] = toClient[d])
        BY <1>0, <1>2, OthersUntouched
    <2>2. CASE ~ServePut(c)
        BY <1>0, <2>1, <2>2, ListensFrame
    <2>3. CASE ServePut(c)
        <3>1. PICK k \in Keys :
                  toClient' = [e \in Clients |->
                    toClient[e]
                    \o (IF LocationOf[k] \in listening[e] /\ k \notin db
                        THEN <<ChildData(k)>> ELSE <<>>)
                    \o (IF e = c THEN <<PutAck(k, TRUE)>> ELSE <<>>)]
            BY <2>3 DEF ServePut
        <3>2. toClient'[d] = toClient[d] \o PutReply(c, k, d)
            BY <1>0, <3>1, PutChannel
        <3>3. /\ PutReply(c, k, d) \in Seq(ServerMessages)
              /\ CountOf(PutReply(c, k, d), {"listenOk"}) = 0
              /\ \A n \in ToSet(PutReply(c, k, d)) : n = ChildData(k) \/ n = PutAck(k, TRUE)
            BY PutReplyChannel
        <3>4. toClient[d] \in Seq(ServerMessages)
            BY <1>0 DEF TypeOK
        <3>5. /\ CountOf(toClient'[d], {"listenOk"}) = CountOf(toClient[d], {"listenOk"}) + 0
              /\ ToSet(toClient'[d]) = ToSet(toClient[d]) \cup ToSet(PutReply(c, k, d))
            BY <3>2, <3>3, <3>4, CountConcat, ConcatElements
        <3>6. CountOf(toClient'[d], {"listenOk"}) = CountOf(toClient[d], {"listenOk"})
            BY <1>0, <3>5, CountsAreNatural
        <3>7. \A l \in Locations : ListenOk(l) \in ToSet(toClient'[d]) => ListenOk(l) \in ToSet(toClient[d])
            BY <3>3, <3>5, RepliesDistinct
        <3> QED
            BY <1>0, <2>1, <3>6, <3>7, ListensFrame
    <2> QED
        BY <2>2, <2>3
<1> QED
    BY <1>1, <1>2, ListensOwnStep, StepsOfClients

\* At first nothing is counted and nothing is in flight.
LEMMA ListensInit == Init => ListensInv
<1> SUFFICES ASSUME Init, NEW c \in Clients
             PROVE  ListensOf(c)
    BY TypeInit DEF ListensInv
<1>1. /\ toServer[c] = <<>> /\ toClient[c] = <<>> /\ unackedListensCount[c] = 0
      /\ putsToAck[c] = {}
    BY DEF Init
<1>2. CountOf(<<>>, {"listen"}) = 0 /\ CountOf(<<>>, {"listenOk"}) = 0 /\ ToSet(<<>>) = {}
    BY CountShort, SingletonElements
<1> QED
    BY <1>1, <1>2 DEF ListensOf

\* unackedListensCount is always the number of listens in flight and of their
\* responses: sendListen's assertion holds whatever connections come and go.
THEOREM ListensAreCounted == Spec => []ListensCounted
<1>1. ListensInv => ListensCounted
    BY DEF ListensInv, ListensOf, ListensCounted
<1> QED
    BY <1>1, ListensInit, ListensStep, PTL DEF Spec

\* On a connection that can send writes, a response that is held back always
\* has an unanswered listen that will release it.
THEOREM HeldAcksAlwaysReleased == Spec => []HeldAcksAreReleased
<1>1. ListensInv => HeldAcksAreReleased
    BY DEF ListensInv, ListensOf, HeldAcksAreReleased
<1> QED
    BY <1>1, ListensInit, ListensStep, PTL DEF Spec
=============================================================================
