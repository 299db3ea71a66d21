----------------------------- MODULE Chat_proofs -----------------------------
(* What TLAPS proves of the chat screens: no message is listed twice, the   *)
(* list is the view, the player plays the last video, and Chat implements   *)
(* ChatFeed.  A step of Chat is a step of RealtimeDb or leaves it alone, so *)
(* what is proved of RealtimeDb holds here too.                             *)
EXTENDS Chat, Views_proofs

-----------------------------------------------------------------------------
(* Events on their way to a screen.                                         *)

ForScreen(q, r) == {i \in DOMAIN q : r \in q[i].to}

\* The messages that the events of q bring to the screen r.
OnItsWay(q, r) == {q[i].key : i \in ForScreen(q, r)}

\* Each of them is brought once.
ComesOnce(q, r) == \A i, j \in ForScreen(q, r) : q[i].key = q[j].key => i = j

\* The events that announce the messages s, each to the screens it is for.
EventsFor(s, to) == [i \in DOMAIN s |-> Event(s[i], to[s[i]])]

\* The messages that those events bring to the screen r.
Brought(s, to, r) == {k \in ToSet(s) : r \in to[k]}

\* A sequence without repetitions.
Distinct(s) == \A i, j \in DOMAIN s : s[i] = s[j] => i = j

\* Events for different messages bring what they say, and nothing twice that
\* was not on its way before.
LEMMA QueueGrows ==
    ASSUME NEW q \in Seq(Events), NEW s \in Seq(Keys), Distinct(s),
           NEW to \in [Keys -> SUBSET Observers], NEW r
    PROVE  /\ OnItsWay(q \o EventsFor(s, to), r) = OnItsWay(q, r) \cup Brought(s, to, r)
           /\ ComesOnce(q, r) /\ Brought(s, to, r) \cap OnItsWay(q, r) = {}
              => ComesOnce(q \o EventsFor(s, to), r)
<1> USE DEF Brought
<1> DEFINE t == EventsFor(s, to)
           n == Len(q)
           e == q \o t
           N == Brought(s, to, r)
<1>1. /\ DOMAIN s = 1 .. Len(s) /\ Len(s) \in Nat
      /\ \A i \in 1 .. Len(s) : s[i] \in Keys
    BY LenProperties, ElementOfSeq
<1>2. /\ t \in Seq(Events) /\ DOMAIN t = DOMAIN s
      /\ \A i \in DOMAIN s : t[i].key = s[i] /\ t[i].to = to[s[i]] /\ t[i] = Event(s[i], to[s[i]])
    <2>1. \A i \in 1 .. Len(s) : Event(s[i], to[s[i]]) \in Events
        BY <1>1 DEF Event, Events
    <2>2. t \in Seq(Events)
        BY <1>1, <2>1, IsASeq DEF EventsFor
    <2> QED
        BY <2>2 DEF EventsFor, Event
<1> HIDE DEF t
<1>3. /\ n \in Nat /\ DOMAIN q = 1 .. n
      /\ DOMAIN e = 1 .. (n + Len(s))
      /\ \A i \in 1 .. n : e[i] = q[i]
      /\ \A i \in 1 .. Len(s) : e[n + i] = t[i]
    <2>2. Len(t) = Len(s)
        BY <1>1, <1>2, LenProperties
    <2>4. /\ DOMAIN q = 1 .. Len(q) /\ Len(q) \in Nat
          /\ DOMAIN (q \o t) = 1 .. (Len(q) + Len(t))
          /\ \A i \in 1 .. Len(q) : (q \o t)[i] = q[i]
          /\ \A i \in 1 .. Len(t) : (q \o t)[Len(q) + i] = t[i]
        BY <1>2, ConcatIndices
    <2> QED
        BY <2>2, <2>4
<1> HIDE DEF n, e
<1>4. \A i \in DOMAIN e : \/ i \in DOMAIN q
                          \/ \E j \in DOMAIN s : i = n + j
    <2>1. ASSUME NEW i \in DOMAIN e, i \notin DOMAIN q
          PROVE  \E j \in DOMAIN s : i = n + j
        <3>1. i - n \in DOMAIN s /\ i = n + (i - n)
            BY <1>1, <1>3, <2>1
        <3> QED
            BY <3>1
    <2> QED
        BY <2>1
<1>5. \A j \in DOMAIN s : n + j \in DOMAIN e /\ n + j \notin DOMAIN q
    BY <1>1, <1>3
<1>6. DOMAIN q \subseteq DOMAIN e
    BY <1>1, <1>3
<1>7. \A i \in DOMAIN q : e[i] = q[i]
    BY <1>3
<1>8. \A j \in DOMAIN s : e[n + j].key = s[j] /\ e[n + j].to = to[s[j]] /\ e[n + j] = Event(s[j], to[s[j]])
    BY <1>1, <1>2, <1>3
<1>9. OnItsWay(e, r) = OnItsWay(q, r) \cup N
    <2>1. \A j \in DOMAIN s : s[j] \in ToSet(s)
        BY DEF ToSet
    <2>2. OnItsWay(e, r) \subseteq OnItsWay(q, r) \cup N
        BY <1>4, <1>7, <1>8, <2>1 DEF OnItsWay, ForScreen
    <2>3. OnItsWay(q, r) \subseteq OnItsWay(e, r)
        BY <1>6, <1>7 DEF OnItsWay, ForScreen
    <2>4. N \subseteq OnItsWay(e, r)
        <3>1. ASSUME NEW k \in N
              PROVE  k \in OnItsWay(e, r)
            <4>1. PICK j \in DOMAIN s : k = s[j] /\ r \in to[s[j]]
                BY DEF ToSet
            <4> QED
                BY <1>5, <1>8, <4>1 DEF OnItsWay, ForScreen
        <3> QED
            BY <3>1
    <2> QED
        BY <2>2, <2>3, <2>4
<1>10. ASSUME ComesOnce(q, r), N \cap OnItsWay(q, r) = {}
       PROVE  ComesOnce(e, r)
    <2> SUFFICES ASSUME NEW i \in ForScreen(e, r), NEW j \in ForScreen(e, r), e[i].key = e[j].key
                 PROVE  i = j
        BY DEF ComesOnce
    <2>1. i \in DOMAIN e /\ j \in DOMAIN e /\ r \in e[i].to /\ r \in e[j].to
        BY DEF ForScreen
    <2>2. ASSUME NEW x \in DOMAIN s, r \in e[n + x].to
          PROVE  e[n + x].key \in N
        <3>1. s[x] \in ToSet(s)
            BY DEF ToSet
        <3>2. e[n + x].key = s[x] /\ r \in to[s[x]]
            BY <1>8, <2>2
        <3> QED
            BY <3>1, <3>2
    <2>3. ASSUME NEW x \in DOMAIN q, r \in e[x].to
          PROVE  x \in ForScreen(q, r) /\ e[x].key = q[x].key /\ e[x].key \in OnItsWay(q, r)
        BY <1>7, <2>3 DEF OnItsWay, ForScreen
    <2>4. CASE i \in DOMAIN q /\ j \in DOMAIN q
        BY <1>10, <2>1, <2>3, <2>4 DEF ComesOnce
    <2>5. CASE i \notin DOMAIN q /\ j \notin DOMAIN q
        <3>1. PICK x \in DOMAIN s, y \in DOMAIN s : i = n + x /\ j = n + y
            BY <1>4, <2>1, <2>5
        <3>2. s[x] = s[y]
            BY <1>8, <3>1
        <3> QED
            BY <3>1, <3>2 DEF Distinct
    <2>6. CASE i \in DOMAIN q /\ j \notin DOMAIN q
        <3>1. PICK y \in DOMAIN s : j = n + y
            BY <1>4, <2>1, <2>6
        <3> QED
            BY <1>10, <2>1, <2>2, <2>3, <2>6, <3>1
    <2>7. CASE i \notin DOMAIN q /\ j \in DOMAIN q
        <3>1. PICK x \in DOMAIN s : i = n + x
            BY <1>4, <2>1, <2>7
        <3> QED
            BY <1>10, <2>1, <2>2, <2>3, <2>7, <3>1
    <2> QED
        BY <2>4, <2>5, <2>6, <2>7
<1> QED
    BY <1>9, <1>10 DEF e, t

\* What is in the queue then.
LEMMA QueueMembers ==
    ASSUME NEW q \in Seq(Events), NEW s \in Seq(Keys), NEW to \in [Keys -> SUBSET Observers],
           NEW x \in ToSet(q \o EventsFor(s, to))
    PROVE  x \in ToSet(q) \/ \E k \in ToSet(s) : x = Event(k, to[k])
<1> DEFINE t == EventsFor(s, to)
<1>1. DOMAIN s = 1 .. Len(s) /\ Len(s) \in Nat /\ \A i \in 1 .. Len(s) : s[i] \in Keys
    BY LenProperties, ElementOfSeq
<1>2. \A i \in 1 .. Len(s) : Event(s[i], to[s[i]]) \in Events
    BY <1>1 DEF Event, Events
<1>3. t \in Seq(Events)
    BY <1>1, <1>2, IsASeq DEF EventsFor
<1>4. \A y \in ToSet(t) : \E k \in ToSet(s) : y = Event(k, to[k])
    BY DEF ToSet, EventsFor
<1> HIDE DEF t
<1>5. ToSet(q \o t) = ToSet(q) \cup ToSet(t)
    BY <1>3, ConcatElements
<1> QED
    BY <1>4, <1>5 DEF t

\* The head of a queue brings what is then no longer on its way.
LEMMA QueueShrinks ==
    ASSUME NEW q \in Seq(Events), q # <<>>, NEW r
    PROVE  /\ OnItsWay(q, r) = OnItsWay(Tail(q), r)
                               \cup (IF r \in Head(q).to THEN {Head(q).key} ELSE {})
           /\ ComesOnce(q, r) =>
                  /\ ComesOnce(Tail(q), r)
                  /\ r \in Head(q).to => Head(q).key \notin OnItsWay(Tail(q), r)
<1> DEFINE t == Tail(q)
<1>1. /\ DOMAIN q = 1 .. Len(q) /\ Len(q) \in Nat \ {0}
      /\ DOMAIN t = 1 .. (Len(q) - 1)
      /\ \A i \in 1 .. (Len(q) - 1) : t[i] = q[i + 1]
      /\ Head(q) = q[1]
    BY TailIndices
<1> HIDE DEF t
<1>2. \A i \in DOMAIN t : i + 1 \in DOMAIN q /\ i + 1 # 1 /\ t[i] = q[i + 1]
    BY <1>1
<1>3. \A i \in DOMAIN q : i = 1 \/ \E j \in DOMAIN t : i = j + 1
    <2>1. ASSUME NEW i \in DOMAIN q, i # 1
          PROVE  \E j \in DOMAIN t : i = j + 1
        <3>1. i - 1 \in DOMAIN t /\ i = (i - 1) + 1
            BY <1>1, <2>1
        <3> QED
            BY <3>1
    <2> QED
        BY <2>1
<1>4. 1 \in DOMAIN q
    BY <1>1
<1>5. OnItsWay(q, r) = OnItsWay(t, r) \cup (IF r \in Head(q).to THEN {Head(q).key} ELSE {})
    BY <1>1, <1>2, <1>3, <1>4 DEF OnItsWay, ForScreen
<1>6. ASSUME ComesOnce(q, r)
      PROVE  ComesOnce(t, r) /\ (r \in Head(q).to => Head(q).key \notin OnItsWay(t, r))
    <2>1. \A i \in ForScreen(t, r) : i \in DOMAIN t /\ i + 1 \in ForScreen(q, r) /\ t[i] = q[i + 1] /\ i + 1 # 1
        BY <1>2 DEF ForScreen
    <2>2. ASSUME NEW i \in ForScreen(t, r), NEW j \in ForScreen(t, r), t[i].key = t[j].key
          PROVE  i = j
        <3>1. i + 1 = j + 1
            BY <1>6, <2>1, <2>2 DEF ComesOnce
        <3>2. i \in Nat /\ j \in Nat
            BY <1>1, <2>1
        <3> QED
            BY <3>1, <3>2
    <2>3. ASSUME r \in Head(q).to, NEW i \in ForScreen(t, r), Head(q).key = t[i].key
          PROVE  FALSE
        <3>1. 1 \in ForScreen(q, r)
            BY <1>1, <1>4, <2>3 DEF ForScreen
        <3> QED
            BY <1>1, <1>6, <2>1, <2>3, <3>1 DEF ComesOnce
    <2> QED
        BY <2>2, <2>3 DEF ComesOnce, OnItsWay
<1> QED
    BY <1>5, <1>6 DEF t


-----------------------------------------------------------------------------
(* The inductive invariant.                                                 *)

ScreenRoom(c, r) == RoomOf(c, selectedUser[r])

\* What the app asks of the database.
AppCalls == {ObserveCall(r, l) : r \in Observers, l \in Locations}
            \cup {SetCall(k) : k \in Keys}

\* What the screens hold.
ChatTypeOK ==
    /\ visible \in [Clients -> SUBSET Observers]
    /\ screens \in [Clients -> SUBSET Observers]
    /\ selectedUser \in [Observers -> Clients \cup {CHOOSE c \in Clients : TRUE}]
    /\ messages \in [Observers -> Seq(Keys)]
    /\ videoID \in [Observers -> Videos]
    /\ pressed \in [Clients -> SUBSET Keys]
    /\ requests \subseteq Clients \X Observers \X Keys
    /\ calls \in [Clients -> Seq(AppCalls)]

\* A screen belongs to one process.
OneProcess ==
    /\ \A c, d \in Clients : c # d => screens[c] \cap screens[d] = {}
    /\ \A c \in Clients : visible[c] \subseteq screens[c]
    /\ \A r \in Observers :
          (\A c \in Clients : r \notin screens[c]) => messages[r] = <<>> /\ videoID[r] = NoVideo

\* It observes its room and no other, asks for that once, and sends to it.
RoomObserved ==
    \A c \in Clients, l \in Locations : \A r \in registrations[c][l] :
        r \in screens[c] /\ l = ScreenRoom(c, r)

RoomAsked ==
    \A c \in Clients, r \in Observers, l \in Locations :
        ObserveCall(r, l) \in ToSet(calls[c]) =>
            /\ r \in screens[c] /\ l = ScreenRoom(c, r)
            /\ Unregistered(r)
            /\ Once(calls[c], {ObserveCall(r, l)})

RoomRequested ==
    \A c \in Clients, r \in Observers, k \in Keys :
        <<c, r, k>> \in requests => r \in screens[c] /\ LocationOf[k] = ScreenRoom(c, r)

OneRoom == RoomObserved /\ RoomAsked /\ RoomRequested

ScreensInv == ChatTypeOK /\ OneProcess /\ OneRoom

\* The server holds what was written.
SavedAreWritten == db \subseteq written

\* The write of k was refused, and nothing is left of it but the places where
\* it was listed.
Gone(k) ==
    /\ MayReject /\ k \in written \ db
    /\ \A c \in Clients : k \notin pendingWrites[c]

\* What a screen lists or is about to.
ListedBy(c, r) == ToSet(messages[r]) \cup OnItsWay(mainQueue[c], r)

\* The list of a screen of room l: nothing is listed or on its way twice, what
\* the view shows is listed or on its way, and whatever else is was refused.
ListOf(c, l, r) ==
    /\ Distinct(messages[r])
    /\ ComesOnce(mainQueue[c], r)
    /\ OnItsWay(mainQueue[c], r) \cap ToSet(messages[r]) = {}
    /\ eventCache[c] \cap KeysAt(l) \subseteq ListedBy(c, r)
    /\ \A k \in ListedBy(c, r) : k \in KeysAt(l) /\ (k \in eventCache[c] \/ Gone(k))

\* An event is for screens that observe its message's room.
EventsAreAwaited(c) ==
    \A e \in ToSet(mainQueue[c]) : e.to \subseteq registrations[c][LocationOf[e.key]]

ListsInv ==
    /\ \A c \in Clients : EventsAreAwaited(c)
    /\ \A r \in Observers : Unregistered(r) => messages[r] = <<>>
    /\ \A c \in Clients, l \in Locations : \A r \in registrations[c][l] : ListOf(c, l, r)

\* What is about to be written to a room.
ToWrite(c, l) == {k \in KeysAt(l) : SetCall(k) \in ToSet(calls[c])}

\* The player has the video of the last message.
PlaysLast(r) ==
    IF messages[r] = <<>> THEN videoID[r] \in {NoVideo, DefaultVideo}
                          ELSE videoID[r] = Video(Last(messages[r]))

\* The screen will hear of what its room gets: it observes, or it asks to
\* before the write whose video it plays already.
WillHear(c, l, r) ==
    \/ r \in registrations[c][l]
    \/ /\ ObserveCall(r, l) \in ToSet(calls[c])
       /\ \/ videoID[r] \in {NoVideo, DefaultVideo}
          \/ \E k \in KeysAt(l) : Before(calls[c], {ObserveCall(r, l)}, SetCall(k))

VideoOf(c, l, r) ==
    /\ ToWrite(c, l) = {} /\ OnItsWay(mainQueue[c], r) = {} => PlaysLast(r)
    /\ WillHear(c, l, r)

VideosInv ==
    \A c \in Clients, l \in Locations : \A r \in screens[c] :
        l = ScreenRoom(c, r) => VideoOf(c, l, r)

\* What RealtimeDb keeps by itself, and what the chat adds.
DbInv   == SavedInv /\ AcksInv /\ SavedAreWritten
ChatInv == DbInv /\ ScreensInv /\ ListsInv /\ VideosInv

-----------------------------------------------------------------------------
(* What a step of RealtimeDb does to the messages that a screen may list.   *)

\* What the invariants of RealtimeDb say of the data.
CachesAgree ==
    /\ TypeOK /\ WritesAccountedFor /\ PendingAreWritten /\ PendingOnce /\ SavedAreWritten
    /\ \A c \in Clients : /\ serverCache[c] \subseteq db
                          /\ PutsOnce(c) /\ OverlayOf(c)
                          /\ eventCache[c] \subseteq serverCache[c] \cup pendingWrites[c]
                          /\ eventCache[c] \subseteq written

\* A child that a view shows is the server's or pending.
LEMMA DbFacts == DbInv => CachesAgree
<1> SUFFICES ASSUME DbInv
             PROVE  CachesAgree
    OBVIOUS
<1>1. /\ TypeOK /\ WritesAccountedFor /\ PendingAreWritten /\ PendingOnce /\ SavedAreWritten
      /\ \A c \in Clients : ConnectionOf(c) /\ DataOf(c) /\ OverlayOf(c)
    BY DEF DbInv, SavedInv, ViewsInv, ConnectionInv, WritesInv
<1>2. ASSUME NEW c \in Clients
      PROVE  /\ serverCache[c] \subseteq db /\ PutsOnce(c) /\ OverlayOf(c)
             /\ eventCache[c] \subseteq serverCache[c] \cup pendingWrites[c]
             /\ eventCache[c] \subseteq written
    <2>1. serverCache[c] \subseteq db /\ PutsOnce(c) /\ OverlayOf(c)
        BY <1>1 DEF ConnectionOf, DataOf, CacheViewed
    <2>2. ASSUME NEW k \in eventCache[c]
          PROVE  k \in serverCache[c] \cup pendingWrites[c]
        <3>1. k \in Keys /\ Viewed(c, k)
            BY <1>1, <2>1 DEF TypeOK, OverlayOf
        <3>2. LocationOf[k] \in Views(c) /\ k \in KeysAt(LocationOf[k])
            BY <3>1 DEF Viewed, KeysAt
        <3> QED
            BY <2>1, <3>2 DEF OverlayOf
    <2> QED
        BY <1>1, <2>1, <2>2 DEF PendingAreWritten, SavedAreWritten
<1> QED
    BY <1>1, <1>2 DEF CachesAgree

\* Only a put that some process waits for the response of changes the data.
LEMMA DataGrowsByPuts ==
    ASSUME DbInv, NEW c \in Clients, ClientStep(c)
    PROVE  \/ db' = db
           \/ \E k \in Keys : db' = db \cup {k} /\ k \in pendingWrites[c] /\ ServePut(c)
<1>1. CASE ServePut(c)
    <2>1. PICK k \in Keys : Requested(c, {PutMsg(k)}) /\ db' = db \cup {k}
        BY <1>1 DEF ServePut
    <2>2. toServer[c] \in Seq(ClientMessages) /\ toServer[c] # <<>> /\ Head(toServer[c]) = PutMsg(k)
        BY <2>1, DbFacts DEF CachesAgree, Requested, TypeOK
    <2>3. PutMsg(k) \in ToSet(toServer[c])
        BY <2>2, TailElements
    <2>4. k \in outstandingPuts[c]
        BY <2>3, DbFacts DEF CachesAgree, PutsOnce
    <2> QED
        BY <1>1, <2>1, <2>4, DbFacts DEF CachesAgree, WritesAccountedFor
<1>2. CASE ~ServePut(c)
    BY <1>2 DEF ClientStep, ObserveNew, ObserveExisting, SetValue, Dispatch,
       OnReadyUnauthenticated, OnReadyWithToken, OnDisconnect, Kill, ReceiveAuthOk,
       ReceiveSnapshot, ReceiveChild, ReceiveListenOk, ReceivePutAck, ServeAuth,
       ServeListen, ServePutRefused, serverVars
<1> QED
    BY <1>1, <1>2

\* A write becomes pending only when its key is fresh, and written keys stay.
LEMMA PendingIsFresh ==
    ASSUME TypeOK, NEW c \in Clients, ClientStep(c)
    PROVE  /\ pendingWrites'[c] \subseteq pendingWrites[c] \cup (Keys \ written)
           /\ written \subseteq written'
<1>1. CASE \E k \in Keys : SetValue(c, k)
    BY <1>1 DEF SetValue, TypeOK
<1>2. CASE Kill(c)
    BY <1>2 DEF Kill, TypeOK
<1>3. CASE ReceiveListenOk(c)
    BY <1>3 DEF ReceiveListenOk, TypeOK, histVars
<1>4. CASE ReceivePutAck(c)
    BY <1>4 DEF ReceivePutAck, TypeOK, histVars
<1>5. CASE pendingWrites' = pendingWrites /\ written' = written
    BY <1>5
<1> QED
    BY <1>1, <1>2, <1>3, <1>4, <1>5
       DEF ClientStep, ObserveNew, ObserveExisting, Dispatch, OnReadyUnauthenticated,
           OnReadyWithToken, OnDisconnect, Disconnect, ReceiveAuthOk, ReceiveSnapshot, ReceiveChild,
           ServeAuth, ServeListen, ServePut, ServePutRefused, viewVars, histVars

\* What RealtimeDb keeps by itself.
LEMMA DbStep == DbInv /\ [Next]_dbVars => DbInv'
<1> SUFFICES ASSUME DbInv, [Next]_dbVars
             PROVE  DbInv'
    OBVIOUS
<1>1. SavedInv' /\ AcksInv'
    BY SavedStep, AcksStep DEF DbInv
<1>2. SavedAreWritten'
    <2>1. CASE UNCHANGED dbVars
        BY <2>1, DbFacts DEF CachesAgree, dbVars, serverVars, histVars, SavedAreWritten
    <2>2. CASE Next
        <3>1. PICK c \in Clients : ClientStep(c)
            BY <2>2, StepsOfClients
        <3>2. db' \subseteq db \cup pendingWrites[c]
            BY <3>1, DataGrowsByPuts
        <3>3. written \subseteq written'
            BY <3>1, DbFacts, PendingIsFresh DEF CachesAgree
        <3> QED
            BY <3>2, <3>3, DbFacts DEF CachesAgree, SavedAreWritten, PendingAreWritten
    <2> QED
        BY <2>1, <2>2
<1> QED
    BY <1>1, <1>2 DEF DbInv

\* What is gone stays gone: nothing sends the put again.
LEMMA GoneStays ==
    ASSUME DbInv, Next, NEW k, Gone(k)
    PROVE  Gone(k)'
<1>1. PICK c \in Clients : ClientStep(c)
    BY StepsOfClients
<1>2. \A d \in Clients \ {c} : pendingWrites'[d] = pendingWrites[d]
    BY <1>1, DbFacts, OthersUntouched DEF CachesAgree, Untouched
<1>3. k \notin pendingWrites'[c] /\ k \in written'
    BY <1>1, DbFacts, PendingIsFresh DEF CachesAgree, Gone
<1>4. k \notin db'
    BY <1>1, DataGrowsByPuts DEF Gone
<1> QED
    BY <1>2, <1>3, <1>4 DEF Gone

\* What is new in a view is not gone.
LEMMA NewIsNotGone ==
    ASSUME DbInv, Next, NEW c \in Clients, NEW k \in eventCache'[c]
    PROVE  ~Gone(k)
<1> SUFFICES ASSUME Gone(k)
             PROVE  FALSE
    OBVIOUS
<1>1. Gone(k)'
    BY GoneStays
<1>2. DbInv'
    BY DbStep
<1>3. CachesAgree'
    BY <1>2, DbFacts, PTL
<1> QED
    BY <1>1, <1>3 DEF Gone, CachesAgree

\* Only observing and dying change who observes.
LEMMA RegistrationsKept ==
    ASSUME NEW c \in Clients, ClientStep(c)
    PROVE  \/ registrations' = registrations
           \/ \E r \in Observers, l \in Locations : Observe(c, r, l)
           \/ Kill(c)
BY DEF ClientStep, Observe, SetValue, Dispatch, OnReadyUnauthenticated,
       OnReadyWithToken, OnDisconnect, ReceiveAuthOk, ReceiveSnapshot, ReceiveChild,
       ReceiveListenOk, ReceivePutAck, ServeAuth, ServeListen, ServePut, ServePutRefused, viewVars

\* What leaves a view while its process lives was refused.
LEMMA LeftIsGone ==
    ASSUME DbInv, Next, kills' = kills, NEW c \in Clients, NEW k \in eventCache[c] \ eventCache'[c]
    PROVE  Gone(k)'
<1>1. PICK d \in Clients : ClientStep(d)
    BY StepsOfClients
<1>2. d = c
    BY <1>1, DbFacts, OthersUntouched DEF CachesAgree, Untouched
<1>3. k \notin db
    BY <1>1, <1>2, SavedStays DEF DbInv
<1>4. k \in pendingWrites[c] /\ k \in Keys /\ k \in written
    BY <1>3, DbFacts DEF CachesAgree, TypeOK
<1>5. db' = db
    <2>1. ASSUME ServePut(c)
          PROVE  FALSE
        BY <2>1 DEF ServePut, viewVars
    <2> QED
        BY <1>1, <1>2, <2>1, DataGrowsByPuts
<1>6. Viewed(c, k) /\ LocationOf[k] \in Locations
    BY <1>4, DbFacts, LocationAssumption DEF CachesAgree, OverlayOf
<1>7. Viewed(c, k)'
    <2>1. registrations' = registrations \/ (\E r \in Observers, l \in Locations : Observe(c, r, l)) \/ Kill(c)
        BY <1>1, <1>2, RegistrationsKept
    <2>2. ASSUME Kill(c)
          PROVE  FALSE
        BY <2>2, DbFacts DEF CachesAgree, Kill, TypeOK
    <2>3. CASE \E r \in Observers, l \in Locations : Observe(c, r, l)
        BY <1>6, <2>3, DbFacts, ObservedViews DEF CachesAgree, Observe, Viewed
    <2> QED
        BY <1>6, <2>1, <2>2, <2>3 DEF Viewed, Views
<1>8. k \notin pendingWrites'[c]
    <2>1. DbInv'
        BY DbStep
    <2>2. CachesAgree'
        BY <2>1, DbFacts, PTL
    <2>3. k \in KeysAt(LocationOf[k])
        BY <1>4 DEF KeysAt
    <2> QED
        BY <1>7, <2>2, <2>3 DEF CachesAgree, OverlayOf, Viewed, KeysAt
<1>9. MayReject
    BY <1>3, <1>4, <1>8, ForgottenAreSaved DEF DbInv
<1>10. \A e \in Clients \ {c} : k \notin pendingWrites'[e]
    <2>1. \A e \in Clients \ {c} : pendingWrites'[e] = pendingWrites[e]
        BY <1>1, <1>2, DbFacts, OthersUntouched DEF CachesAgree, Untouched
    <2> QED
        BY <1>4, <2>1, DbFacts DEF CachesAgree, PendingOnce
<1>11. k \in written'
    BY <1>1, <1>4, DbFacts, PendingIsFresh DEF CachesAgree
<1> QED
    BY <1>3, <1>5, <1>8, <1>9, <1>10, <1>11 DEF Gone

-----------------------------------------------------------------------------
(* What a step of RealtimeDb does to the queue of its process.              *)

Quiet(c) ==
    /\ registrations'[c] = registrations[c]
    /\ eventCache'[c] = eventCache[c]
    /\ mainQueue'[c] = mainQueue[c]

\* Whoever observes is told what is new.
Announces(c) ==
    /\ registrations'[c] = registrations[c]
    /\ \E s \in Seq(Keys) :
          /\ Distinct(s)
          /\ ToSet(s) = eventCache'[c] \ eventCache[c]
          /\ mainQueue'[c] = mainQueue[c]
                 \o EventsFor(s, [k \in Keys |-> registrations[c][LocationOf[k]]])

\* A new observer is told all there is.
Greets(c, r, l) ==
    /\ registrations'[c] = [registrations[c] EXCEPT ![l] = @ \cup {r}]
    /\ eventCache[c] \subseteq eventCache'[c]
    /\ \A k \in eventCache'[c] \ eventCache[c] : k \in KeysAt(l) /\ registrations[c][l] = {}
    /\ \E s \in Seq(Keys) :
          /\ Distinct(s)
          /\ ToSet(s) = eventCache'[c] \cap KeysAt(l)
          /\ mainQueue'[c] = mainQueue[c] \o EventsFor(s, [k \in Keys |-> {r}])

\* The events that Raise adds to the queue.
LEMMA RaisedEvents ==
    ASSUME TypeOK, NEW c \in Clients, NEW S \in SUBSET Keys, NEW to, Raise(c, S, to)
    PROVE  /\ \A d \in Clients \ {c} : mainQueue'[d] = mainQueue[d]
           /\ \E s \in Seq(Keys) :
                 /\ Distinct(s)
                 /\ ToSet(s) = S
                 /\ mainQueue'[c] = mainQueue[c] \o EventsFor(s, to)
<1>1. PICK s \in KeyOrders(S) :
          mainQueue' = [mainQueue EXCEPT ![c] = @ \o [i \in DOMAIN s |-> Event(s[i], to[s[i]])]]
    BY DEF Raise
<1>2. mainQueue' = [mainQueue EXCEPT ![c] = @ \o EventsFor(s, to)]
    BY <1>1 DEF EventsFor
<1>3. IsFiniteSet(S)
    BY KeysAssumption, FS_Subset
<1>4. s \in SetToSeqs(S)
    BY DEF KeyOrders
<1>5. s \in Seq(S) /\ ToSet(s) = S /\ Distinct(s)
    BY <1>3, <1>4, EnumerationElements DEF Distinct
<1>6. s \in Seq(Keys)
    BY <1>3, <1>4, SetToSeqsType
<1> QED
    BY <1>2, <1>5, <1>6 DEF TypeOK

\* RaiseAdded announces what is new in the event cache.
LEMMA AddedEvents ==
    ASSUME TypeOK, NEW c \in Clients, NEW S \in SUBSET Keys, RaiseAdded(c, S),
           S \ eventCache[c] = eventCache'[c] \ eventCache[c],
           registrations'[c] = registrations[c]
    PROVE  Announces(c) /\ \A d \in Clients \ {c} : mainQueue'[d] = mainQueue[d]
<1>1. S \ eventCache[c] \in SUBSET Keys
    OBVIOUS
<1>2. Raise(c, S \ eventCache[c], [k \in Keys |-> registrations[c][LocationOf[k]]])
    BY DEF RaiseAdded
<1>3. PICK s \in Seq(Keys) :
          /\ Distinct(s)
          /\ ToSet(s) = S \ eventCache[c]
          /\ mainQueue'[c] = mainQueue[c]
                 \o EventsFor(s, [k \in Keys |-> registrations[c][LocationOf[k]]])
    BY <1>1, <1>2, RaisedEvents
<1>4. \A d \in Clients \ {c} : mainQueue'[d] = mainQueue[d]
    BY <1>1, <1>2, RaisedEvents
<1> QED
    BY <1>3, <1>4 DEF Announces

\* A write is announced to the screens that observe its room,
LEMMA WriteAnnounces ==
    ASSUME TypeOK, NEW c \in Clients, NEW k \in Keys, SetValue(c, k)
    PROVE  Announces(c) /\ \A d \in Clients \ {c} : mainQueue'[d] = mainQueue[d]
<1> DEFINE shown == IF Viewed(c, k) THEN {k} ELSE {}
<1>1. /\ eventCache' = [eventCache EXCEPT ![c] = @ \cup shown]
      /\ RaiseAdded(c, shown)
      /\ registrations' = registrations
    BY DEF SetValue
<1>2. shown \in SUBSET Keys
    OBVIOUS
<1> HIDE DEF shown
<1>3. eventCache'[c] = eventCache[c] \cup shown
    BY <1>1 DEF TypeOK
<1> QED
    BY <1>1, <1>2, <1>3, AddedEvents

\* and a message of the server what is new by it, if anything.
LEMMA ReceiveAnnounces ==
    ASSUME TypeOK, NEW c \in Clients, Receive(c)
    PROVE  /\ Announces(c) \/ Quiet(c)
           /\ \A d \in Clients \ {c} : mainQueue'[d] = mainQueue[d]
<1>1. CASE ReceiveAuthOk(c)
    BY <1>1 DEF ReceiveAuthOk, viewVars, Quiet
<1>2. CASE ReceiveSnapshot(c)
    <2>1. PICK l \in Locations, S \in SUBSET Keys :
              /\ eventCache' = [eventCache EXCEPT ![c] =
                     (@ \ KeysAt(l)) \cup (S \cup (pendingWrites[c] \cap KeysAt(l)))]
              /\ RaiseAdded(c, S \cup (pendingWrites[c] \cap KeysAt(l)))
              /\ registrations' = registrations
        BY <1>2 DEF ReceiveSnapshot
    <2> DEFINE new == S \cup (pendingWrites[c] \cap KeysAt(l))
    <2>2. new \in SUBSET Keys /\ RaiseAdded(c, new)
        BY <2>1 DEF KeysAt
    <2>3. eventCache'[c] = (eventCache[c] \ KeysAt(l)) \cup new
        BY <2>1 DEF TypeOK
    <2> HIDE DEF new
    <2> QED
        BY <2>1, <2>2, <2>3, AddedEvents
<1>3. CASE ReceiveChild(c)
    <2>1. PICK k \in Keys :
              /\ eventCache' = [eventCache EXCEPT ![c] = @ \cup ({k} \ pendingWrites[c])]
              /\ RaiseAdded(c, {k} \ pendingWrites[c])
              /\ registrations' = registrations
        BY <1>3 DEF ReceiveChild
    <2> DEFINE new == {k} \ pendingWrites[c]
    <2>2. new \in SUBSET Keys /\ RaiseAdded(c, new)
        BY <2>1
    <2>3. eventCache'[c] = eventCache[c] \cup new
        BY <2>1 DEF TypeOK
    <2> HIDE DEF new
    <2> QED
        BY <2>1, <2>2, <2>3, AddedEvents
<1>4. CASE ReceiveListenOk(c) \/ ReceivePutAck(c)
    <2>1. RaiseAdded(c, eventCache'[c]) /\ registrations' = registrations
        BY <1>4 DEF ReceiveListenOk, ReceivePutAck
    <2>2. eventCache'[c] \in SUBSET Keys
        <3>1. [Next]_dbVars
            BY <1>4 DEF Next, Receive
        <3>2. TypeOK'
            BY <3>1, TypeStep
        <3> QED
            BY <3>2 DEF TypeOK
    <2> QED
        BY <2>1, <2>2, AddedEvents
<1> QED
    BY <1>1, <1>2, <1>3, <1>4 DEF Receive

\* A new registration is told what its view shows, and nobody else is.
LEMMA ObserveGreets ==
    ASSUME CachesAgree, NEW c \in Clients, NEW r \in Observers, NEW l \in Locations, Observe(c, r, l)
    PROVE  Greets(c, r, l) /\ \A d \in Clients \ {c} : mainQueue'[d] = mainQueue[d]
<1>0. TypeOK
    BY DEF CachesAgree
<1>1. CASE ObserveNew(c, r, l)
    <2> DEFINE initial == pendingWrites[c] \cap KeysAt(l)
    <2>1. /\ registrations' = [registrations EXCEPT ![c][l] = {r}]
          /\ eventCache' = [eventCache EXCEPT ![c] = @ \cup initial]
          /\ Raise(c, initial, [k \in Keys |-> {r}])
          /\ l \notin Views(c)
        BY <1>1 DEF ObserveNew
    <2>2. initial \in SUBSET Keys /\ initial \subseteq KeysAt(l)
        BY DEF KeysAt
    <2> HIDE DEF initial
    <2>3. registrations[c][l] = {} /\ registrations'[c] = [registrations[c] EXCEPT ![l] = @ \cup {r}]
        BY <1>0, <2>1 DEF TypeOK, Views
    <2>4. eventCache'[c] = eventCache[c] \cup initial
        BY <1>0, <2>1 DEF TypeOK
    <2>5. eventCache[c] \cap KeysAt(l) = {}
        BY <2>1 DEF CachesAgree, OverlayOf, Viewed, KeysAt
    <2>6. eventCache'[c] \cap KeysAt(l) = initial
        BY <2>2, <2>4, <2>5
    <2>7. PICK s \in Seq(Keys) :
              /\ Distinct(s)
              /\ ToSet(s) = initial
              /\ mainQueue'[c] = mainQueue[c] \o EventsFor(s, [k \in Keys |-> {r}])
        BY <1>0, <2>1, <2>2, RaisedEvents
    <2>8. \A d \in Clients \ {c} : mainQueue'[d] = mainQueue[d]
        BY <1>0, <2>1, <2>2, RaisedEvents
    <2>9. eventCache[c] \subseteq eventCache'[c]
          /\ \A k \in eventCache'[c] \ eventCache[c] : k \in KeysAt(l) /\ registrations[c][l] = {}
        BY <2>2, <2>3, <2>4
    <2> QED
        BY <2>3, <2>6, <2>7, <2>8, <2>9 DEF Greets
<1>2. CASE ObserveExisting(c, r, l)
    <2> DEFINE initial == eventCache[c] \cap KeysAt(l)
    <2>1. /\ registrations' = [registrations EXCEPT ![c][l] = @ \cup {r}]
          /\ eventCache' = eventCache
          /\ Raise(c, initial, [k \in Keys |-> {r}])
        BY <1>2 DEF ObserveExisting
    <2>2. initial \in SUBSET Keys /\ initial = eventCache'[c] \cap KeysAt(l)
        BY <2>1 DEF KeysAt
    <2> HIDE DEF initial
    <2>3. registrations'[c] = [registrations[c] EXCEPT ![l] = @ \cup {r}]
        BY <1>0, <2>1 DEF TypeOK
    <2>4. PICK s \in Seq(Keys) :
              /\ Distinct(s)
              /\ ToSet(s) = initial
              /\ mainQueue'[c] = mainQueue[c] \o EventsFor(s, [k \in Keys |-> {r}])
        BY <1>0, <2>1, <2>2, RaisedEvents
    <2>5. \A d \in Clients \ {c} : mainQueue'[d] = mainQueue[d]
        BY <1>0, <2>1, <2>2, RaisedEvents
    <2> QED
        BY <2>1, <2>2, <2>3, <2>4, <2>5 DEF Greets
<1> QED
    BY <1>1, <1>2 DEF Observe

\* The only registration that is added is the one of r at l.
Registers(c, r, l) ==
    \A d \in Clients, m \in Locations :
        registrations'[d][m] = IF d = c /\ m = l THEN registrations[c][l] \cup {r}
                                                  ELSE registrations[d][m]

\* That is what observing does.
LEMMA RegisteredBy ==
    ASSUME CachesAgree, NEW c \in Clients, NEW r \in Observers, NEW l \in Locations, Observe(c, r, l)
    PROVE  Registers(c, r, l)
<1>1. registrations \in [Clients -> [Locations -> SUBSET Observers]]
    BY DEF CachesAgree, TypeOK
<1>2. registrations'[c] = [registrations[c] EXCEPT ![l] = @ \cup {r}]
    <2>1. Greets(c, r, l)
        BY ObserveGreets
    <2> QED
        BY <2>1 DEF Greets
<1>3. \A m \in Locations :
          registrations'[c][m] = IF m = l THEN registrations[c][l] \cup {r} ELSE registrations[c][m]
    BY <1>1, <1>2
<1>4. \A d \in Clients \ {c} : registrations'[d] = registrations[d]
    BY <1>1 DEF Observe, ObserveNew, ObserveExisting
<1> QED
    BY <1>3, <1>4 DEF Registers

\* The connection and the server tell the screens nothing.
LEMMA ServeIsQuiet ==
    ASSUME NEW c \in Clients, NEW d \in Clients, OnReady(c) \/ OnDisconnect(c) \/ Serve(c)
    PROVE  Quiet(d)
BY DEF OnReady, OnReadyUnauthenticated, OnReadyWithToken, OnDisconnect, Serve, ServeAuth, ServeListen,
       ServePut, ServePutRefused, viewVars, Quiet

-----------------------------------------------------------------------------
(* And what that means for the screens.                                     *)

\* What an announcement puts on its way to a screen: what is new in the view of
\* the room it observes.
LEMMA AnnouncedToScreens ==
    ASSUME TypeOK, NEW c \in Clients, Announces(c)
    PROVE  /\ \A r : OnItsWay(mainQueue'[c], r) =
                         OnItsWay(mainQueue[c], r)
                         \cup {k \in eventCache'[c] \ eventCache[c] : r \in registrations[c][LocationOf[k]]}
           /\ \A r : /\ ComesOnce(mainQueue[c], r)
                     /\ {k \in eventCache'[c] \ eventCache[c] : r \in registrations[c][LocationOf[k]]}
                            \cap OnItsWay(mainQueue[c], r) = {}
                     => ComesOnce(mainQueue'[c], r)
           /\ EventsAreAwaited(c) => EventsAreAwaited(c)'
<1> DEFINE to == [k \in Keys |-> registrations[c][LocationOf[k]]]
<1>1. PICK s \in Seq(Keys) :
          /\ Distinct(s)
          /\ ToSet(s) = eventCache'[c] \ eventCache[c]
          /\ mainQueue'[c] = mainQueue[c] \o EventsFor(s, to)
    BY DEF Announces
<1>2. to \in [Keys -> SUBSET Observers] /\ mainQueue[c] \in Seq(Events)
    BY LocationAssumption DEF TypeOK
<1>3. \A k \in Keys : to[k] = registrations[c][LocationOf[k]]
    OBVIOUS
<1>4. \A k \in ToSet(s) : k \in Keys
    BY SequenceMembers
<1> HIDE DEF to
<1>5. ASSUME NEW r
      PROVE  /\ {k \in ToSet(s) : r \in to[k]} =
                {k \in eventCache'[c] \ eventCache[c] : r \in registrations[c][LocationOf[k]]}
             /\ OnItsWay(mainQueue'[c], r) = OnItsWay(mainQueue[c], r) \cup {k \in ToSet(s) : r \in to[k]}
             /\ ComesOnce(mainQueue[c], r) /\ {k \in ToSet(s) : r \in to[k]} \cap OnItsWay(mainQueue[c], r) = {}
                => ComesOnce(mainQueue'[c], r)
    <2>1. {k \in ToSet(s) : r \in to[k]} =
          {k \in eventCache'[c] \ eventCache[c] : r \in registrations[c][LocationOf[k]]}
        BY <1>1, <1>3, <1>4
    <2>2. /\ OnItsWay(mainQueue'[c], r) = OnItsWay(mainQueue[c], r) \cup Brought(s, to, r)
          /\ ComesOnce(mainQueue[c], r) /\ Brought(s, to, r) \cap OnItsWay(mainQueue[c], r) = {}
             => ComesOnce(mainQueue'[c], r)
        BY <1>1, <1>2, QueueGrows
    <2> QED
        BY <2>1, <2>2 DEF Brought
<1>6. ASSUME EventsAreAwaited(c)
      PROVE  EventsAreAwaited(c)'
    <2>1. \A x \in ToSet(mainQueue'[c]) : x \in ToSet(mainQueue[c]) \/ \E k \in ToSet(s) : x = Event(k, to[k])
        <3>1. SUFFICES ASSUME NEW x \in ToSet(mainQueue[c] \o EventsFor(s, to))
                       PROVE  x \in ToSet(mainQueue[c]) \/ \E k \in ToSet(s) : x = Event(k, to[k])
            BY <1>1
        <3> QED
            BY <1>2, QueueMembers
    <2>2. \A k \in ToSet(s) : Event(k, to[k]).to = registrations[c][LocationOf[k]] /\ Event(k, to[k]).key = k
        BY <1>3, <1>4 DEF Event
    <2> QED
        BY <1>6, <2>1, <2>2 DEF EventsAreAwaited, Announces
<1> QED
    BY <1>5, <1>6

\* What a greeting puts on its way: everything the view shows, to one screen.
LEMMA GreetedScreen ==
    ASSUME TypeOK, NEW c \in Clients, NEW r \in Observers, NEW l \in Locations, Greets(c, r, l)
    PROVE  /\ OnItsWay(mainQueue'[c], r) = OnItsWay(mainQueue[c], r) \cup (eventCache'[c] \cap KeysAt(l))
           /\ ComesOnce(mainQueue[c], r) /\ eventCache'[c] \cap KeysAt(l) \cap OnItsWay(mainQueue[c], r) = {}
              => ComesOnce(mainQueue'[c], r)
           /\ \A q : q # r => /\ OnItsWay(mainQueue'[c], q) = OnItsWay(mainQueue[c], q)
                              /\ ComesOnce(mainQueue[c], q) => ComesOnce(mainQueue'[c], q)
           /\ EventsAreAwaited(c) => EventsAreAwaited(c)'
<1> DEFINE to == [k \in Keys |-> {r}]
<1>1. PICK s \in Seq(Keys) :
          /\ Distinct(s)
          /\ ToSet(s) = eventCache'[c] \cap KeysAt(l)
          /\ mainQueue'[c] = mainQueue[c] \o EventsFor(s, to)
    BY DEF Greets
<1>2. to \in [Keys -> SUBSET Observers] /\ mainQueue[c] \in Seq(Events)
    BY DEF TypeOK
<1>3. \A k \in ToSet(s) : k \in Keys /\ LocationOf[k] = l
    BY <1>1 DEF KeysAt
<1>4. \A k \in ToSet(s) : to[k] = {r}
    BY <1>3
<1> HIDE DEF to
<1>5. ASSUME NEW q
      PROVE  /\ OnItsWay(mainQueue'[c], q) = OnItsWay(mainQueue[c], q) \cup {k \in ToSet(s) : q \in to[k]}
             /\ ComesOnce(mainQueue[c], q) /\ {k \in ToSet(s) : q \in to[k]} \cap OnItsWay(mainQueue[c], q) = {}
                => ComesOnce(mainQueue'[c], q)
    <2>1. /\ OnItsWay(mainQueue'[c], q) = OnItsWay(mainQueue[c], q) \cup Brought(s, to, q)
          /\ ComesOnce(mainQueue[c], q) /\ Brought(s, to, q) \cap OnItsWay(mainQueue[c], q) = {}
             => ComesOnce(mainQueue'[c], q)
        BY <1>1, <1>2, QueueGrows
    <2> QED
        BY <2>1 DEF Brought
<1>6. {k \in ToSet(s) : r \in to[k]} = eventCache'[c] \cap KeysAt(l)
    BY <1>1, <1>4
<1>7. \A q : q # r => {k \in ToSet(s) : q \in to[k]} = {}
    BY <1>4
<1>8. ASSUME EventsAreAwaited(c)
      PROVE  EventsAreAwaited(c)'
    <2>1. \A x \in ToSet(mainQueue'[c]) : x \in ToSet(mainQueue[c]) \/ \E k \in ToSet(s) : x = Event(k, to[k])
        <3>1. SUFFICES ASSUME NEW x \in ToSet(mainQueue[c] \o EventsFor(s, to))
                       PROVE  x \in ToSet(mainQueue[c]) \/ \E k \in ToSet(s) : x = Event(k, to[k])
            BY <1>1
        <3> QED
            BY <1>2, QueueMembers
    <2>2. \A k \in ToSet(s) : Event(k, to[k]).to = {r} /\ Event(k, to[k]).key = k
        BY <1>4 DEF Event
    <2>3. r \in registrations'[c][l] /\ \A m \in Locations : registrations[c][m] \subseteq registrations'[c][m]
        BY DEF Greets, TypeOK
    <2>4. ASSUME NEW x \in ToSet(mainQueue[c])
          PROVE  LocationOf[x.key] \in Locations
        <3>1. x \in Events
            BY <1>2, SequenceMembers
        <3> QED
            BY <3>1, LocationAssumption DEF Events
    <2>5. ASSUME NEW x \in ToSet(mainQueue'[c])
          PROVE  x.to \subseteq registrations'[c][LocationOf[x.key]]
        <3>1. CASE x \in ToSet(mainQueue[c])
            BY <1>8, <2>3, <2>4, <3>1 DEF EventsAreAwaited
        <3>2. CASE \E k \in ToSet(s) : x = Event(k, to[k])
            <4>1. PICK k \in ToSet(s) : x = Event(k, to[k])
                BY <3>2
            <4>2. x.to = {r} /\ LocationOf[x.key] = l
                BY <1>3, <2>2, <4>1
            <4> QED
                BY <2>3, <4>2
        <3> QED
            BY <2>1, <3>1, <3>2
    <2> QED
        BY <2>5 DEF EventsAreAwaited
<1>9. \A q : q # r => /\ OnItsWay(mainQueue'[c], q) = OnItsWay(mainQueue[c], q)
                      /\ ComesOnce(mainQueue[c], q) => ComesOnce(mainQueue'[c], q)
    BY <1>5, <1>7
<1> QED
    BY <1>5, <1>6, <1>8, <1>9

\* What the main queue takes off: one message, for the screens of its event.
LEMMA DispatchedToScreens ==
    ASSUME TypeOK, NEW c \in Clients, Dispatch(c), NEW e, e = Head(mainQueue[c])
    PROVE  /\ e \in Events /\ e \in ToSet(mainQueue[c])
           /\ \A d \in Clients \ {c} : mainQueue'[d] = mainQueue[d]
           /\ \A r : /\ OnItsWay(mainQueue[c], r) = OnItsWay(mainQueue'[c], r)
                                                    \cup (IF r \in e.to THEN {e.key} ELSE {})
                     /\ ComesOnce(mainQueue[c], r) =>
                           /\ ComesOnce(mainQueue'[c], r)
                           /\ r \in e.to => e.key \notin OnItsWay(mainQueue'[c], r)
           /\ EventsAreAwaited(c) => EventsAreAwaited(c)'
<1>1. /\ mainQueue[c] \in Seq(Events) /\ mainQueue[c] # <<>>
      /\ mainQueue' = [mainQueue EXCEPT ![c] = Tail(@)]
      /\ registrations' = registrations
    BY DEF Dispatch, TypeOK
<1>2. mainQueue'[c] = Tail(mainQueue[c]) /\ \A d \in Clients \ {c} : mainQueue'[d] = mainQueue[d]
    BY <1>1 DEF TypeOK
<1>3. e \in ToSet(mainQueue[c]) /\ ToSet(Tail(mainQueue[c])) \subseteq ToSet(mainQueue[c])
    BY <1>1, TailElements
<1>4. e \in Events
    BY <1>1, <1>3, SequenceMembers
<1>5. ASSUME NEW r
      PROVE  /\ OnItsWay(mainQueue[c], r) = OnItsWay(mainQueue'[c], r)
                                            \cup (IF r \in e.to THEN {e.key} ELSE {})
             /\ ComesOnce(mainQueue[c], r) =>
                   /\ ComesOnce(mainQueue'[c], r)
                   /\ r \in e.to => e.key \notin OnItsWay(mainQueue'[c], r)
    BY <1>1, <1>2, QueueShrinks
<1>6. EventsAreAwaited(c) => EventsAreAwaited(c)'
    BY <1>1, <1>2, <1>3 DEF EventsAreAwaited
<1> QED
    BY <1>2, <1>3, <1>4, <1>5, <1>6

-----------------------------------------------------------------------------
(* The steps of the chat.                                                   *)

\* The steps of ChatNext.
ChatStep(c) ==
    \/ \E r \in Observers, p \in Clients : Open(c, r, p)
    \/ GoBack(c)
    \/ \E r \in Observers, k \in Keys : PressSend(c, r, k)
    \/ \E r \in Observers, k \in Keys : VideoFound(c, r, k)
    \/ \E r \in Observers, k \in Keys : SearchFailed(c, r, k)
    \/ RunObserve(c)
    \/ RunSetValue(c)
    \/ ChildAdded(c)
    \/ \E r \in Observers : PlayDefault(c, r)
    \/ Die(c)
    \/ OnReady(c) /\ UNCHANGED chatVars
    \/ OnDisconnect(c) /\ UNCHANGED chatVars
    \/ Receive(c) /\ UNCHANGED chatVars
    \/ Serve(c) /\ UNCHANGED chatVars

\* Every step is of one process, or of the server for its connection.
LEMMA StepsOfChats == ChatNext => \E c \in Clients : ChatStep(c)
BY DEF ChatNext, ChatStep

\* What a step of the chat is for RealtimeDb.
LEMMA DbStepsOfChat ==
    ASSUME NEW c \in Clients, ChatStep(c)
    PROVE  \/ UNCHANGED dbVars
           \/ Next /\ ClientStep(c)
<1>1. CASE \/ \E r \in Observers, p \in Clients : Open(c, r, p)
           \/ GoBack(c)
           \/ \E r \in Observers, k \in Keys : PressSend(c, r, k)
           \/ \E r \in Observers, k \in Keys : VideoFound(c, r, k)
           \/ \E r \in Observers, k \in Keys : SearchFailed(c, r, k)
           \/ \E r \in Observers : PlayDefault(c, r)
    BY <1>1 DEF Open, GoBack, PressSend, VideoFound, SearchFailed, PlayDefault
<1>2. CASE RunObserve(c) \/ RunSetValue(c)
    BY <1>2 DEF RunObserve, RunSetValue, Next, ClientStep, Observe
<1>3. CASE ChildAdded(c) \/ Die(c)
    BY <1>3 DEF ChildAdded, Die, Next, ClientStep
<1>4. CASE OnReady(c) \/ OnDisconnect(c) \/ Receive(c) \/ Serve(c)
    BY <1>4 DEF Next, ClientStep, OnReady, Receive, Serve
<1> QED
    BY <1>1, <1>2, <1>3, <1>4 DEF ChatStep

\* A step of the chat is one of RealtimeDb, or one it does not see.
LEMMA ChatIsDb == [ChatNext]_vars => [Next]_dbVars
BY DbStepsOfChat, StepsOfChats DEF vars

\* Calls differ where their parameters do.
LEMMA CallsDistinct ==
    /\ \A r, l, k : ObserveCall(r, l) # SetCall(k)
    /\ \A r, l, q, m : ObserveCall(r, l) = ObserveCall(q, m) => r = q /\ l = m
    /\ \A j, k : SetCall(j) = SetCall(k) => j = k
<1>1. \A r, l, k : ObserveCall(r, l).call # SetCall(k).call
    BY DEF ObserveCall, SetCall
<1>2. \A r, l : ObserveCall(r, l).screen = r /\ ObserveCall(r, l).loc = l
    BY DEF ObserveCall
<1>3. \A k : SetCall(k).key = k
    BY DEF SetCall
<1> QED
    BY <1>1, <1>2, <1>3

\* A call that the app makes waits behind the others.
LEMMA CallAdded ==
    ASSUME ChatTypeOK, NEW c \in Clients, NEW x \in AppCalls,
           calls' = [calls EXCEPT ![c] = Append(@, x)]
    PROVE  /\ calls' \in [Clients -> Seq(AppCalls)]
           /\ \A d \in Clients \ {c} : calls'[d] = calls[d]
           /\ ToSet(calls'[c]) = ToSet(calls[c]) \cup {x}
           /\ \A M : Once(calls[c], M) /\ (x \in M => M \cap ToSet(calls[c]) = {}) => Once(calls'[c], M)
           /\ \A M, n : Before(calls[c], M, n) => Before(calls'[c], M, n)
           /\ \A M : M \cap ToSet(calls[c]) # {} => Before(calls'[c], M, x)
<1> DEFINE s == calls[c]
           t == <<x>>
<1>1. s \in Seq(AppCalls) /\ t \in Seq(AppCalls)
    BY SingletonType DEF ChatTypeOK
<1>2. ToSet(t) = {x}
    BY SingletonElements
<1>3. calls' = [calls EXCEPT ![c] = s \o t]
    BY <1>1, AppendIsConcat
<1>3a. s \o t \in Seq(AppCalls)
    BY <1>1, ConcatProperties
<1> HIDE DEF s, t
<1>4. calls'[c] = s \o t /\ \A d \in Clients \ {c} : calls'[d] = calls[d]
    BY <1>3 DEF ChatTypeOK
<1>5. ToSet(s \o t) = ToSet(s) \cup ToSet(t)
    BY <1>1, ConcatElements
<1>6. \A M : Once(t, M)
    BY OnceShort DEF t
<1>7. \A M : Once(s, M) /\ (x \in M => M \cap ToSet(s) = {}) => Once(s \o t, M)
    <2>1. ASSUME NEW M, Once(s, M), x \in M => M \cap ToSet(s) = {}
          PROVE  Once(s \o t, M)
        <3>1. M \cap ToSet(s) = {} \/ M \cap ToSet(t) = {}
            BY <1>2, <2>1
        <3> QED
            BY <1>1, <1>6, <2>1, <3>1, OnceConcat
    <2> QED
        BY <2>1
<1>8. /\ \A M, n : Before(s, M, n) => Before(s \o t, M, n)
      /\ \A M : M \cap ToSet(s) # {} => Before(s \o t, M, x)
    BY <1>1, <1>2, BeforeConcat
<1>9. calls' \in [Clients -> Seq(AppCalls)]
    BY <1>3, <1>3a DEF ChatTypeOK
<1>10. s = calls[c]
    BY DEF s
<1>11. \A M : Once(calls[c], M) /\ (x \in M => M \cap ToSet(calls[c]) = {}) => Once(calls'[c], M)
    BY <1>4, <1>7, <1>10, Zenon
<1>12. /\ \A M, n : Before(calls[c], M, n) => Before(calls'[c], M, n)
       /\ \A M : M \cap ToSet(calls[c]) # {} => Before(calls'[c], M, x)
    BY <1>4, <1>8, <1>10, Zenon
<1>13. ToSet(calls'[c]) = ToSet(calls[c]) \cup {x}
    BY <1>2, <1>4, <1>5, <1>10
<1> QED
    BY <1>4, <1>9, <1>11, <1>12, <1>13

\* The dispatch queue runs the call at the head.
LEMMA CallTaken ==
    ASSUME ChatTypeOK, NEW c \in Clients, NEW x, Called(c, x)
    PROVE  /\ calls' \in [Clients -> Seq(AppCalls)]
           /\ \A d \in Clients \ {c} : calls'[d] = calls[d]
           /\ ToSet(calls[c]) = {x} \cup ToSet(calls'[c])
           /\ \A M : Once(calls[c], M) => /\ Once(calls'[c], M)
                                          /\ x \in M => M \cap ToSet(calls'[c]) = {}
           /\ \A M, n : Before(calls[c], M, n) => /\ n \in ToSet(calls'[c])
                                                  /\ Before(calls'[c], M, n) \/ x \in M
<1>1. /\ calls[c] \in Seq(AppCalls) /\ calls[c] # <<>> /\ x = Head(calls[c])
      /\ calls' = [calls EXCEPT ![c] = Tail(@)]
    BY DEF Called, ChatTypeOK
<1>2. calls'[c] = Tail(calls[c]) /\ \A d \in Clients \ {c} : calls'[d] = calls[d]
    BY <1>1 DEF ChatTypeOK
<1>3. Tail(calls[c]) \in Seq(AppCalls)
    BY <1>1, HeadTailProperties
<1>4. calls' \in [Clients -> Seq(AppCalls)]
    BY <1>1, <1>3 DEF ChatTypeOK
<1>5. ToSet(calls[c]) = {x} \cup ToSet(calls'[c])
    BY <1>1, <1>2, TailMembers
<1>6. \A M : Once(calls[c], M) => /\ Once(calls'[c], M)
                                  /\ x \in M => M \cap ToSet(calls'[c]) = {}
    BY <1>1, <1>2, OnceTail
<1>7. \A M, n : Before(calls[c], M, n) => /\ n \in ToSet(calls'[c])
                                          /\ Before(calls'[c], M, n) \/ x \in M
    BY <1>1, <1>2, BeforeTail
<1> QED
    BY <1>2, <1>4, <1>5, <1>6, <1>7

-----------------------------------------------------------------------------
(* Screens and their rooms.                                                 *)

\* The parts of the invariant, by name.
LEMMA ChatFacts ==
    ASSUME ChatInv
    PROVE  /\ DbInv /\ CachesAgree /\ TypeOK /\ ChatTypeOK /\ OneProcess /\ OneRoom
           /\ ListsInv /\ VideosInv
<1>1. CachesAgree
    BY DbFacts DEF ChatInv
<1> QED
    BY <1>1 DEF ChatInv, ScreensInv, CachesAgree

\* Two users meet in a location of the database.
LEMMA RoomsAreLocations ==
    \A a, b \in Clients : RoomOf(a, b) \in Locations
BY NameAssumption DEF RoomOf

\* The event that ChildAdded handles is for screens of its process that
\* observe the message's room.
LEMMA EventForScreens ==
    ASSUME ChatInv, NEW c \in Clients, ChildAdded(c), NEW e, e = Head(mainQueue[c])
    PROVE  /\ e.key \in Keys
           /\ \A r \in e.to : /\ r \in registrations[c][LocationOf[e.key]]
                              /\ r \in screens[c] /\ LocationOf[e.key] = ScreenRoom(c, r)
<1>1. Dispatch(c)
    BY DEF ChildAdded
<1>2. e \in Events /\ e \in ToSet(mainQueue[c])
    BY <1>1, ChatFacts, DispatchedToScreens
<1>3. e.key \in Keys /\ LocationOf[e.key] \in Locations
    BY <1>2, LocationAssumption DEF Events
<1>4. \A r \in e.to : r \in registrations[c][LocationOf[e.key]]
    BY <1>2, ChatFacts DEF ListsInv, EventsAreAwaited
<1> QED
    BY <1>3, <1>4, ChatFacts DEF OneRoom, RoomObserved

\* Every step keeps the types.
LEMMA ChatTypeStep ==
    ASSUME ChatInv, NEW c \in Clients, ChatStep(c)
    PROVE  ChatTypeOK'
<1>0. ChatTypeOK
    BY ChatFacts
<1>1. ASSUME NEW r \in Observers, NEW p \in Clients, Open(c, r, p)
      PROVE  ChatTypeOK'
    <2>1. ObserveCall(r, RoomOf(c, p)) \in AppCalls
        BY RoomsAreLocations DEF AppCalls
    <2>2. calls' \in [Clients -> Seq(AppCalls)]
        BY <1>0, <1>1, <2>1, CallAdded DEF Open
    <2> QED
        BY <1>0, <1>1, <2>2 DEF Open, ChatTypeOK
<1>2. ASSUME NEW r \in Observers, NEW k \in Keys, VideoFound(c, r, k)
      PROVE  ChatTypeOK'
    <2>1. SetCall(k) \in AppCalls /\ Video(k) \in Videos
        BY DEF AppCalls, Videos
    <2>2. calls' \in [Clients -> Seq(AppCalls)]
        BY <1>0, <1>2, <2>1, CallAdded DEF VideoFound
    <2> QED
        BY <1>0, <1>2, <2>1, <2>2 DEF VideoFound, ChatTypeOK
<1>3. ASSUME NEW r \in Observers, NEW k \in Keys, PressSend(c, r, k)
      PROVE  ChatTypeOK'
    BY <1>0, <1>3 DEF PressSend, ChatTypeOK
<1>4. ASSUME NEW r \in Observers, NEW k \in Keys, SearchFailed(c, r, k)
      PROVE  ChatTypeOK'
    BY <1>0, <1>4 DEF SearchFailed, ChatTypeOK
<1>5. CASE GoBack(c)
    BY <1>0, <1>5 DEF GoBack, ChatTypeOK
<1>6. ASSUME NEW x, Called(c, x)
      PROVE  ChatTypeOK'
    <2>1. calls' \in [Clients -> Seq(AppCalls)]
        BY <1>0, <1>6, CallTaken
    <2> QED
        BY <1>0, <1>6, <2>1 DEF Called, ChatTypeOK
<1>7. CASE ChildAdded(c)
    <2>1. PICK e : e = Head(mainQueue[c])
        OBVIOUS
    <2>2. e.key \in Keys /\ Video(e.key) \in Videos
        BY <1>7, <2>1, EventForScreens DEF Videos
    <2>3. messages' = [r \in Observers |->
              IF r \in e.to THEN Append(messages[r], e.key) ELSE messages[r]]
        BY <1>7, <2>1 DEF ChildAdded
    <2>4. messages' \in [Observers -> Seq(Keys)]
        BY <1>0, <2>2, <2>3, AppendProperties DEF ChatTypeOK
    <2>5. videoID' \in [Observers -> Videos]
        BY <1>0, <1>7, <2>1, <2>2 DEF ChildAdded, ChatTypeOK
    <2> QED
        BY <1>0, <1>7, <2>4, <2>5 DEF ChildAdded, ChatTypeOK
<1>8. ASSUME NEW r \in Observers, PlayDefault(c, r)
      PROVE  ChatTypeOK'
    BY <1>0, <1>8 DEF PlayDefault, ChatTypeOK, Videos
<1>9. CASE Die(c)
    <2>1. <<>> \in Seq(Keys) /\ <<>> \in Seq(AppCalls) /\ NoVideo \in Videos
        BY EmptySeq DEF Videos
    <2>2. messages' \in [Observers -> Seq(Keys)] /\ videoID' \in [Observers -> Videos]
        BY <1>0, <1>9, <2>1 DEF Die, ChatTypeOK
    <2>3. /\ visible' \in [Clients -> SUBSET Observers] /\ screens' \in [Clients -> SUBSET Observers]
          /\ calls' \in [Clients -> Seq(AppCalls)]
        BY <1>0, <1>9, <2>1 DEF Die, ChatTypeOK
    <2>4. requests' \subseteq Clients \X Observers \X Keys
        BY <1>0, <1>9 DEF Die, ChatTypeOK
    <2> QED
        BY <1>0, <1>9, <2>2, <2>3, <2>4 DEF Die, ChatTypeOK
<1>10. CASE UNCHANGED chatVars
    BY <1>0, <1>10 DEF chatVars, ChatTypeOK
<1> QED
    BY <1>1, <1>2, <1>3, <1>4, <1>5, <1>6, <1>7, <1>8, <1>9, <1>10 DEF ChatStep, RunObserve, RunSetValue

\* Every step leaves a screen with the process that made it.
LEMMA OneProcessStep ==
    ASSUME ChatInv, NEW c \in Clients, ChatStep(c)
    PROVE  OneProcess'
<1>0. ChatTypeOK /\ OneProcess /\ OneRoom
    BY ChatFacts
<1>1. ASSUME NEW r \in Observers, NEW p \in Clients, Open(c, r, p)
      PROVE  OneProcess'
    BY <1>0, <1>1 DEF Open, ChatTypeOK, OneProcess
<1>2. ASSUME NEW r \in Observers, NEW k \in Keys, VideoFound(c, r, k)
      PROVE  OneProcess'
    <2>1. r \in screens[c]
        BY <1>0, <1>2 DEF VideoFound, OneRoom, RoomRequested
    <2> QED
        BY <1>0, <1>2, <2>1 DEF VideoFound, ChatTypeOK, OneProcess
<1>3. CASE UNCHANGED <<visible, screens, messages, videoID>>
    BY <1>0, <1>3 DEF OneProcess
<1>5. CASE GoBack(c)
    BY <1>0, <1>5 DEF GoBack, ChatTypeOK, OneProcess
<1>7. CASE ChildAdded(c)
    <2>1. PICK e : e = Head(mainQueue[c])
        OBVIOUS
    <2>2. \A r \in e.to : r \in screens[c]
        BY <1>7, <2>1, EventForScreens
    <2>3. /\ messages' = [r \in Observers |->
                 IF r \in e.to THEN Append(messages[r], e.key) ELSE messages[r]]
          /\ videoID' = [r \in Observers |->
                 IF r \in e.to THEN Video(e.key) ELSE videoID[r]]
          /\ visible' = visible /\ screens' = screens
        BY <1>7, <2>1 DEF ChildAdded
    <2> QED
        BY <1>0, <2>2, <2>3 DEF ChatTypeOK, OneProcess
<1>8. ASSUME NEW r \in Observers, PlayDefault(c, r)
      PROVE  OneProcess'
    BY <1>0, <1>8 DEF PlayDefault, ChatTypeOK, OneProcess
<1>9. CASE Die(c)
    <2>1. /\ \A d \in Clients : screens'[d] = (IF d = c THEN {} ELSE screens[d])
          /\ \A d \in Clients : visible'[d] = (IF d = c THEN {} ELSE visible[d])
          /\ \A r \in Observers : /\ messages'[r] = (IF r \in screens[c] THEN <<>> ELSE messages[r])
                                  /\ videoID'[r] = (IF r \in screens[c] THEN NoVideo ELSE videoID[r])
        BY <1>0, <1>9 DEF Die, ChatTypeOK
    <2> QED
        BY <1>0, <2>1 DEF OneProcess
<1> QED
    BY <1>1, <1>2, <1>3, <1>5, <1>7, <1>8, <1>9
       DEF ChatStep, PressSend, SearchFailed, RunObserve, RunSetValue, Called, chatVars

\* Every step leaves a screen with the room it was opened for.
LEMMA OneRoomStep ==
    ASSUME ChatInv, NEW c \in Clients, ChatStep(c)
    PROVE  OneRoom'
<1>0. ChatTypeOK /\ OneProcess /\ OneRoom /\ TypeOK /\ CachesAgree
    BY ChatFacts
<1>1. ASSUME NEW r \in Observers, NEW p \in Clients, Open(c, r, p)
      PROVE  OneRoom'
    <2>1. /\ \A d \in Clients : r \notin screens[d]
          /\ \A d \in Clients : screens'[d] = (IF d = c THEN screens[c] \cup {r} ELSE screens[d])
          /\ \A q \in Observers : selectedUser'[q] = (IF q = r THEN p ELSE selectedUser[q])
          /\ calls' = [calls EXCEPT ![c] = Append(@, ObserveCall(r, RoomOf(c, p)))]
          /\ registrations' = registrations /\ requests' = requests
        BY <1>0, <1>1 DEF Open, ChatTypeOK, dbVars, viewVars
    <2>2. \A d \in Clients : /\ ScreenRoom(d, r)' = RoomOf(d, p)
                             /\ \A q \in Observers \ {r} : ScreenRoom(d, q)' = ScreenRoom(d, q)
        BY <2>1 DEF ScreenRoom, RoomOf
    <2>3. RoomObserved'
        <3>1. ASSUME NEW d \in Clients, NEW l \in Locations, NEW q \in registrations[d][l]
              PROVE  q \in screens'[d] /\ l = ScreenRoom(d, q)'
            <4>1. q \in screens[d] /\ l = ScreenRoom(d, q)
                BY <1>0 DEF OneRoom, RoomObserved
            <4>2. q \in Observers \ {r}
                BY <1>0, <2>1, <4>1 DEF ChatTypeOK
            <4> QED
                BY <2>1, <2>2, <4>1, <4>2
        <3> QED
            BY <2>1, <3>1 DEF RoomObserved
    <2>4. RoomRequested'
        BY <1>0, <2>1, <2>2 DEF OneRoom, RoomRequested
    <2>5. RoomAsked'
        <3>1. ObserveCall(r, RoomOf(c, p)) \in AppCalls
            BY RoomsAreLocations DEF AppCalls
        <3>2. /\ \A d \in Clients \ {c} : calls'[d] = calls[d]
              /\ ToSet(calls'[c]) = ToSet(calls[c]) \cup {ObserveCall(r, RoomOf(c, p))}
              /\ \A M : /\ Once(calls[c], M)
                        /\ ObserveCall(r, RoomOf(c, p)) \in M => M \cap ToSet(calls[c]) = {}
                        => Once(calls'[c], M)
            BY <1>0, <2>1, <3>1, CallAdded
        <3>3. \A d \in Clients, l \in Locations : ObserveCall(r, l) \notin ToSet(calls[d])
            BY <1>0, <2>1 DEF OneRoom, RoomAsked
        <3>4. \A q : Unregistered(q)' = Unregistered(q)
            BY <2>1 DEF Unregistered
        <3>5. Unregistered(r)
            BY <1>0, <2>1 DEF OneRoom, RoomObserved, Unregistered
        <3>6. Once(calls'[c], {ObserveCall(r, RoomOf(c, p))})
            <4>1. {ObserveCall(r, RoomOf(c, p))} \cap ToSet(calls[c]) = {}
                BY <3>3, RoomsAreLocations
            <4>2. Once(calls[c], {ObserveCall(r, RoomOf(c, p))})
                BY <4>1, OnceAbsent
            <4> QED
                BY <3>2, <4>1, <4>2
        <3>7. \A q \in Observers \ {r}, l \in Locations :
                  Once(calls[c], {ObserveCall(q, l)}) => Once(calls'[c], {ObserveCall(q, l)})
            BY <3>2, CallsDistinct
        <3>8. ASSUME NEW d \in Clients, NEW q \in Observers, NEW l \in Locations,
                     ObserveCall(q, l) \in ToSet(calls'[d])
              PROVE  /\ q \in screens'[d] /\ l = ScreenRoom(d, q)'
                     /\ Unregistered(q)'
                     /\ Once(calls'[d], {ObserveCall(q, l)})
            <4>1. CASE ObserveCall(q, l) \in ToSet(calls[d])
                <5>1. q # r
                    BY <3>3, <4>1
                <5>2. q \in screens[d] /\ l = ScreenRoom(d, q) /\ Unregistered(q) /\ Once(calls[d], {ObserveCall(q, l)})
                    BY <1>0, <4>1 DEF OneRoom, RoomAsked
                <5> QED
                    BY <2>1, <2>2, <3>2, <3>4, <3>7, <5>1, <5>2
            <4>2. CASE ObserveCall(q, l) \notin ToSet(calls[d])
                <5>1. d = c /\ q = r /\ l = RoomOf(c, p)
                    BY <3>2, <3>8, <4>2, CallsDistinct
                <5> QED
                    BY <2>1, <2>2, <3>4, <3>5, <3>6, <5>1
            <4> QED
                BY <4>1, <4>2
        <3> QED
            BY <3>8 DEF RoomAsked
    <2> QED
        BY <2>3, <2>4, <2>5 DEF OneRoom
<1>2. ASSUME NEW r \in Observers, NEW k \in Keys, VideoFound(c, r, k)
      PROVE  OneRoom'
    <2>1. /\ screens' = screens /\ selectedUser' = selectedUser /\ registrations' = registrations
          /\ requests' \subseteq requests
          /\ calls' = [calls EXCEPT ![c] = Append(@, SetCall(k))]
        BY <1>2 DEF VideoFound, dbVars, viewVars
    <2>2. SetCall(k) \in AppCalls
        BY DEF AppCalls
    <2>3. /\ \A d \in Clients \ {c} : calls'[d] = calls[d]
          /\ ToSet(calls'[c]) = ToSet(calls[c]) \cup {SetCall(k)}
          /\ \A M : /\ Once(calls[c], M)
                    /\ SetCall(k) \in M => M \cap ToSet(calls[c]) = {}
                    => Once(calls'[c], M)
        BY <1>0, <2>1, <2>2, CallAdded
    <2>4. \A d, q : ScreenRoom(d, q)' = ScreenRoom(d, q)
        BY <2>1 DEF ScreenRoom, RoomOf
    <2>5. \A q : Unregistered(q)' = Unregistered(q)
        BY <2>1 DEF Unregistered
    <2>6. \A d \in Clients, q \in Observers, l \in Locations :
              /\ ObserveCall(q, l) \in ToSet(calls'[d]) => ObserveCall(q, l) \in ToSet(calls[d])
              /\ Once(calls[d], {ObserveCall(q, l)}) => Once(calls'[d], {ObserveCall(q, l)})
        BY <2>3, CallsDistinct
    <2>7. RoomAsked'
        BY <1>0, <2>1, <2>4, <2>5, <2>6 DEF OneRoom, RoomAsked
    <2> QED
        BY <1>0, <2>1, <2>4, <2>7 DEF OneRoom, RoomObserved, RoomRequested
<1>3. ASSUME NEW r \in Observers, NEW k \in Keys, PressSend(c, r, k)
      PROVE  OneRoom'
    <2>1. /\ screens' = screens /\ selectedUser' = selectedUser /\ registrations' = registrations
          /\ requests' = requests \cup {<<c, r, k>>} /\ calls' = calls
        BY <1>3 DEF PressSend, dbVars, viewVars
    <2>2. r \in screens[c] /\ LocationOf[k] = ScreenRoom(c, r)
        BY <1>0, <1>3 DEF PressSend, OneProcess, ScreenRoom
    <2>3. \A d, q : ScreenRoom(d, q)' = ScreenRoom(d, q)
        BY <2>1 DEF ScreenRoom, RoomOf
    <2>4. RoomRequested'
        BY <1>0, <2>1, <2>2, <2>3 DEF OneRoom, RoomRequested
    <2>5. RoomAsked' /\ RoomObserved'
        BY <1>0, <2>1, <2>3 DEF OneRoom, RoomAsked, RoomObserved, Unregistered
    <2> QED
        BY <2>4, <2>5 DEF OneRoom
<1>4. CASE UNCHANGED <<screens, selectedUser, registrations, calls>> /\ requests' \subseteq requests
    <2>1. \A d, q : ScreenRoom(d, q)' = ScreenRoom(d, q)
        BY <1>4 DEF ScreenRoom, RoomOf
    <2>2. \A q : Unregistered(q)' = Unregistered(q)
        BY <1>4 DEF Unregistered
    <2>3. RoomAsked'
        BY <1>0, <1>4, <2>1, <2>2 DEF OneRoom, RoomAsked
    <2>4. RoomObserved' /\ RoomRequested'
        BY <1>0, <1>4, <2>1 DEF OneRoom, RoomObserved, RoomRequested
    <2> QED
        BY <2>3, <2>4 DEF OneRoom
<1>5. ASSUME NEW k \in Keys, Called(c, SetCall(k)), SetValue(c, k)
      PROVE  OneRoom'
    <2>1. /\ screens' = screens /\ selectedUser' = selectedUser /\ requests' = requests
          /\ registrations' = registrations
        BY <1>5 DEF Called, SetValue
    <2>2. /\ \A d \in Clients \ {c} : calls'[d] = calls[d]
          /\ ToSet(calls[c]) = {SetCall(k)} \cup ToSet(calls'[c])
          /\ \A M : Once(calls[c], M) => Once(calls'[c], M)
        BY <1>0, <1>5, CallTaken
    <2>3. \A d, q : ScreenRoom(d, q)' = ScreenRoom(d, q)
        BY <2>1 DEF ScreenRoom, RoomOf
    <2>4. \A d \in Clients : \A x :
              /\ x \in ToSet(calls'[d]) => x \in ToSet(calls[d])
              /\ Once(calls[d], {x}) => Once(calls'[d], {x})
        BY <2>2
    <2>5. \A q : Unregistered(q)' = Unregistered(q)
        BY <2>1 DEF Unregistered
    <2>6. RoomAsked'
        BY <1>0, <2>1, <2>3, <2>4, <2>5 DEF OneRoom, RoomAsked
    <2>7. RoomObserved' /\ RoomRequested'
        BY <1>0, <2>1, <2>3 DEF OneRoom, RoomObserved, RoomRequested
    <2> QED
        BY <2>6, <2>7 DEF OneRoom
<1>6. ASSUME NEW r \in Observers, NEW l \in Locations, Called(c, ObserveCall(r, l)), Observe(c, r, l)
      PROVE  OneRoom'
    <2>1. screens' = screens /\ selectedUser' = selectedUser /\ requests' = requests
        BY <1>6 DEF Called
    <2>2. /\ \A d \in Clients \ {c} : calls'[d] = calls[d]
          /\ ToSet(calls[c]) = {ObserveCall(r, l)} \cup ToSet(calls'[c])
          /\ \A M : Once(calls[c], M) => /\ Once(calls'[c], M)
                                         /\ ObserveCall(r, l) \in M => M \cap ToSet(calls'[c]) = {}
        BY <1>0, <1>6, CallTaken
    <2>3. \A d, q : ScreenRoom(d, q)' = ScreenRoom(d, q)
        BY <2>1 DEF ScreenRoom, RoomOf
    <2>4. r \in screens[c] /\ l = ScreenRoom(c, r) /\ Once(calls[c], {ObserveCall(r, l)})
        BY <1>0, <2>2 DEF OneRoom, RoomAsked
    <2>5. \A d \in Clients, m \in Locations :
              registrations'[d][m] = IF d = c /\ m = l THEN registrations[c][l] \cup {r}
                                                        ELSE registrations[d][m]
        <3>1. Registers(c, r, l)
            BY <1>0, <1>6, RegisteredBy
        <3> QED
            BY <3>1 DEF Registers
    <2>6. RoomObserved'
        BY <1>0, <2>1, <2>3, <2>4, <2>5 DEF OneRoom, RoomObserved
    <2>7. ASSUME NEW d \in Clients, NEW q \in Observers, NEW m \in Locations,
                 ObserveCall(q, m) \in ToSet(calls'[d])
          PROVE  /\ q \in screens'[d] /\ m = ScreenRoom(d, q)'
                 /\ Unregistered(q)'
                 /\ Once(calls'[d], {ObserveCall(q, m)})
        <3>1. ObserveCall(q, m) \in ToSet(calls[d])
            BY <2>2, <2>7
        <3>2. q \in screens[d] /\ m = ScreenRoom(d, q) /\ Unregistered(q) /\ Once(calls[d], {ObserveCall(q, m)})
            BY <1>0, <3>1 DEF OneRoom, RoomAsked
        <3>3. q # r
            <4>1. ASSUME q = r
                  PROVE  FALSE
                <5>1. d = c
                    BY <1>0, <2>4, <3>2, <4>1 DEF OneProcess
                <5>2. m = l
                    BY <2>4, <3>2, <4>1, <5>1
                <5> QED
                    BY <2>2, <2>4, <2>7, <4>1, <5>1, <5>2
            <4> QED
                BY <4>1
        <3>4. Unregistered(q)'
            BY <2>5, <3>2, <3>3 DEF Unregistered
        <3>5. Once(calls'[d], {ObserveCall(q, m)})
            BY <2>2, <3>2
        <3> QED
            BY <2>1, <2>3, <3>2, <3>4, <3>5
    <2>8. RoomRequested'
        BY <1>0, <2>1, <2>3 DEF OneRoom, RoomRequested
    <2> QED
        BY <2>6, <2>7, <2>8 DEF OneRoom, RoomAsked
<1>7. CASE Die(c)
    <2>1. /\ \A d \in Clients : screens'[d] = (IF d = c THEN {} ELSE screens[d])
          /\ \A d \in Clients : calls'[d] = (IF d = c THEN <<>> ELSE calls[d])
          /\ selectedUser' = selectedUser
          /\ requests' = {q \in requests : q[1] # c}
        BY <1>0, <1>7 DEF Die, ChatTypeOK
    <2>2. \A d \in Clients, l \in Locations :
              registrations'[d][l] = IF d = c THEN {} ELSE registrations[d][l]
        BY <1>0, <1>7 DEF Die, Kill, TypeOK
    <2>3. \A d, q : ScreenRoom(d, q)' = ScreenRoom(d, q)
        BY <2>1 DEF ScreenRoom, RoomOf
    <2>4. \A q : Unregistered(q) => Unregistered(q)'
        BY <2>2 DEF Unregistered
    <2>5. \A x : x \notin ToSet(calls'[c])
        BY <2>1, SingletonElements
    <2>6. RoomObserved'
        BY <1>0, <2>1, <2>2, <2>3 DEF OneRoom, RoomObserved
    <2>7. RoomAsked'
        BY <1>0, <2>1, <2>3, <2>4, <2>5 DEF OneRoom, RoomAsked
    <2>8. RoomRequested'
        BY <1>0, <2>1, <2>3 DEF OneRoom, RoomRequested
    <2> QED
        BY <2>6, <2>7, <2>8 DEF OneRoom
<1>8. ASSUME NEW d \in Clients, OnReady(d) \/ OnDisconnect(d) \/ Receive(d) \/ Serve(d) \/ Dispatch(d)
      PROVE  registrations' = registrations
    BY <1>8 DEF OnReady, OnReadyUnauthenticated, OnReadyWithToken, OnDisconnect, Receive, ReceiveAuthOk,
                ReceiveSnapshot, ReceiveChild, ReceiveListenOk, ReceivePutAck, Serve, ServeAuth,
                ServeListen, ServePut, ServePutRefused, Dispatch, viewVars
<1>9. CASE ChildAdded(c)
    BY <1>4, <1>8, <1>9 DEF ChildAdded
<1>10. CASE (OnReady(c) \/ OnDisconnect(c) \/ Receive(c) \/ Serve(c)) /\ UNCHANGED chatVars
    BY <1>4, <1>8, <1>10 DEF chatVars
<1>11. ASSUME NEW r \in Observers, NEW k \in Keys, SearchFailed(c, r, k)
       PROVE  OneRoom'
    BY <1>4, <1>11 DEF SearchFailed, dbVars, viewVars
<1>12. ASSUME NEW r \in Observers, GoBack(c) \/ PlayDefault(c, r)
       PROVE  OneRoom'
    BY <1>4, <1>12 DEF GoBack, PlayDefault, dbVars, viewVars
<1>13. CASE GoBack(c)
    BY <1>4, <1>13 DEF GoBack, dbVars, viewVars
<1> QED
    BY <1>1, <1>2, <1>3, <1>5, <1>6, <1>7, <1>9, <1>10, <1>11, <1>12, <1>13
       DEF ChatStep, RunObserve, RunSetValue

\* Every step keeps the screens.
LEMMA ScreensStep ==
    ASSUME ChatInv, NEW c \in Clients, ChatStep(c)
    PROVE  ScreensInv'
BY ChatTypeStep, OneProcessStep, OneRoomStep DEF ScreensInv

-----------------------------------------------------------------------------
(* The lists.                                                               *)

\* A list to which something new is appended.
LEMMA DistinctAppend ==
    ASSUME NEW T, NEW s \in Seq(T), NEW k \in T
    PROVE  /\ ToSet(Append(s, k)) = ToSet(s) \cup {k}
           /\ Distinct(s) /\ k \notin ToSet(s) => Distinct(Append(s, k))
<1> DEFINE e == Append(s, k)
           n == Len(s)
<1>1. /\ n \in Nat /\ DOMAIN s = 1 .. n /\ DOMAIN e = 1 .. (n + 1)
      /\ \A i \in 1 .. n : e[i] = s[i]
      /\ e[n + 1] = k
    BY AppendProperties, LenProperties
<1> HIDE DEF e, n
<1>2. \A i \in DOMAIN e : i \in DOMAIN s \/ i = n + 1
    BY <1>1
<1>3. n + 1 \in DOMAIN e /\ n + 1 \notin DOMAIN s /\ DOMAIN s \subseteq DOMAIN e
    BY <1>1
<1>4. ToSet(e) = ToSet(s) \cup {k}
    BY <1>1, <1>2, <1>3 DEF ToSet
<1>5. ASSUME Distinct(s), k \notin ToSet(s)
      PROVE  Distinct(e)
    BY <1>1, <1>2, <1>3, <1>5 DEF Distinct, ToSet
<1> QED
    BY <1>4, <1>5 DEF e

\* A list that grows by what is new in the view, and by nothing else, stays
\* one.
LEMMA ListKept ==
    ASSUME NEW c, NEW l, NEW r, ListOf(c, l, r), messages'[r] = messages[r],
           NEW N, N = (eventCache'[c] \ eventCache[c]) \cap KeysAt(l),
           OnItsWay(mainQueue'[c], r) = OnItsWay(mainQueue[c], r) \cup N,
           ComesOnce(mainQueue[c], r) /\ N \cap OnItsWay(mainQueue[c], r) = {}
           => ComesOnce(mainQueue'[c], r),
           \A k : Gone(k) => Gone(k)',
           \A k \in eventCache'[c] : ~Gone(k),
           \A k \in eventCache[c] \ eventCache'[c] : Gone(k)'
    PROVE  ListOf(c, l, r)'
<1>1. \A k \in ListedBy(c, r) : k \in KeysAt(l) /\ (k \in eventCache[c] \/ Gone(k))
    BY DEF ListOf
<1>2. N \cap ListedBy(c, r) = {}
    BY <1>1
<1>3. ListedBy(c, r)' = ListedBy(c, r) \cup N
    BY DEF ListedBy
<1>4. /\ N \cap OnItsWay(mainQueue[c], r) = {} /\ N \cap ToSet(messages[r]) = {}
    BY <1>2 DEF ListedBy
<1>5. /\ Distinct(messages'[r])
      /\ ComesOnce(mainQueue'[c], r)
      /\ OnItsWay(mainQueue'[c], r) \cap ToSet(messages'[r]) = {}
    BY <1>4 DEF ListOf
<1>6. eventCache'[c] \cap KeysAt(l) \subseteq ListedBy(c, r) \cup N
    BY DEF ListOf
<1>7. \A k \in ListedBy(c, r) \cup N : k \in KeysAt(l) /\ (k \in eventCache'[c] \/ Gone(k)')
    BY <1>1
<1>8. KeysAt(l)' = KeysAt(l)
    BY DEF KeysAt
<1> QED
    BY <1>3, <1>5, <1>6, <1>7, <1>8 DEF ListOf

\* What the lists of a process that does nothing need.
LEMMA ListQuiet ==
    ASSUME DbInv, Next, NEW d \in Clients, NEW l, NEW r, ListOf(d, l, r),
           eventCache'[d] = eventCache[d], mainQueue'[d] = mainQueue[d],
           messages'[r] = messages[r]
    PROVE  ListOf(d, l, r)'
<1>1. \A k : Gone(k) => Gone(k)'
    BY GoneStays
<1>2. \A k \in eventCache'[d] : ~Gone(k)
    BY NewIsNotGone
<1>3. (eventCache'[d] \ eventCache[d]) \cap KeysAt(l) = {}
    OBVIOUS
<1>4. \A k \in eventCache[d] \ eventCache'[d] : Gone(k)'
    OBVIOUS
<1>5. OnItsWay(mainQueue'[d], r) = OnItsWay(mainQueue[d], r) \cup {}
    OBVIOUS
<1>6. PICK N : N = (eventCache'[d] \ eventCache[d]) \cap KeysAt(l)
    OBVIOUS
<1> QED
    BY <1>1, <1>2, <1>3, <1>4, <1>6, ListKept

\* A process that tells its screens what is new, or does nothing, while
\* nothing is listed.
LEMMA ListsAnnounced ==
    ASSUME ChatInv, Next, NEW c \in Clients, ClientStep(c),
           Announces(c) \/ Quiet(c), kills' = kills, messages' = messages,
           \A d \in Clients \ {c} : mainQueue'[d] = mainQueue[d]
    PROVE  ListsInv'
<1>0. DbInv /\ TypeOK /\ ListsInv /\ OneRoom
    BY ChatFacts
<1>1. \A d \in Clients \ {c} : eventCache'[d] = eventCache[d] /\ registrations'[d] = registrations[d]
    BY <1>0, OthersUntouched DEF Untouched
<1>2. \A d \in Clients : registrations'[d] = registrations[d]
    BY <1>1 DEF Announces, Quiet
<1>3. ASSUME NEW d \in Clients
      PROVE  EventsAreAwaited(d)'
    <2>1. CASE d # c \/ Quiet(c)
        BY <1>0, <1>2, <2>1 DEF ListsInv, EventsAreAwaited, Quiet
    <2>2. CASE d = c /\ Announces(c)
        BY <1>0, <2>2, AnnouncedToScreens DEF ListsInv
    <2> QED
        BY <2>1, <2>2
<1>4. \A r \in Observers : Unregistered(r)' => messages'[r] = <<>>
    BY <1>0, <1>2 DEF ListsInv, Unregistered
<1>5. ASSUME NEW d \in Clients, NEW l \in Locations, NEW r \in registrations[d][l]
      PROVE  ListOf(d, l, r)'
    <2>0. ListOf(d, l, r)
        BY <1>0 DEF ListsInv
    <2>1. CASE d # c \/ Quiet(c)
        BY <1>0, <1>1, <2>0, <2>1, ListQuiet DEF Quiet
    <2>2. CASE d = c /\ Announces(c)
        <3>1. PICK N : N = (eventCache'[c] \ eventCache[c]) \cap KeysAt(l)
            OBVIOUS
        <3>2. eventCache'[c] \subseteq Keys
            <4>1. TypeOK'
                BY TypeStep, <1>0
            <4> QED
                BY <4>1 DEF TypeOK
        <3>3. {k \in eventCache'[c] \ eventCache[c] : r \in registrations[c][LocationOf[k]]} = N
            BY <1>0, <1>5, <2>2, <3>1, <3>2, LocationAssumption DEF OneRoom, RoomObserved, KeysAt
        <3>4. /\ OnItsWay(mainQueue'[c], r) = OnItsWay(mainQueue[c], r) \cup N
              /\ ComesOnce(mainQueue[c], r) /\ N \cap OnItsWay(mainQueue[c], r) = {}
                 => ComesOnce(mainQueue'[c], r)
            BY <1>0, <2>2, <3>3, AnnouncedToScreens
        <3>5. /\ \A k : Gone(k) => Gone(k)'
              /\ \A k \in eventCache'[c] : ~Gone(k)
              /\ \A k \in eventCache[c] \ eventCache'[c] : Gone(k)'
            BY <1>0, GoneStays, NewIsNotGone, LeftIsGone
        <3> QED
            BY <2>0, <2>2, <3>1, <3>4, <3>5, ListKept
    <2> QED
        BY <2>1, <2>2
<1> QED
    BY <1>2, <1>3, <1>4, <1>5 DEF ListsInv

\* Nothing is on its way to a screen that does not observe.
LEMMA NothingForStrangers ==
    ASSUME ChatInv, NEW c \in Clients, NEW r, Unregistered(r)
    PROVE  ForScreen(mainQueue[c], r) = {} /\ OnItsWay(mainQueue[c], r) = {} /\ ComesOnce(mainQueue[c], r)
<1>1. mainQueue[c] \in Seq(Events) /\ EventsAreAwaited(c)
    BY ChatFacts DEF TypeOK, ListsInv
<1>2. ASSUME NEW i \in ForScreen(mainQueue[c], r)
      PROVE  FALSE
    <2>1. i \in DOMAIN mainQueue[c] /\ r \in mainQueue[c][i].to
        BY DEF ForScreen
    <2>2. mainQueue[c][i] \in ToSet(mainQueue[c])
        BY <2>1 DEF ToSet
    <2>3. mainQueue[c][i] \in Events
        BY <1>1, <2>2, SequenceMembers
    <2>4. LocationOf[mainQueue[c][i].key] \in Locations
        BY <2>3, LocationAssumption DEF Events
    <2> QED
        BY <1>1, <2>1, <2>2, <2>4 DEF EventsAreAwaited, Unregistered
<1> QED
    BY <1>2 DEF OnItsWay, ComesOnce

\* A new screen lists nothing yet, and is told all that its view shows.
LEMMA ListsObserved ==
    ASSUME ChatInv, Next, NEW c \in Clients, NEW r \in Observers, NEW l \in Locations,
           Called(c, ObserveCall(r, l)), Observe(c, r, l)
    PROVE  ListsInv'
<1>0. DbInv /\ CachesAgree /\ TypeOK /\ ListsInv /\ OneRoom
    BY ChatFacts
<1>1. Greets(c, r, l) /\ \A d \in Clients \ {c} : mainQueue'[d] = mainQueue[d]
    BY <1>0, ObserveGreets
<1>2. ClientStep(c) /\ messages' = messages /\ Unregistered(r)
    BY DEF ClientStep, Observe, ObserveNew, ObserveExisting, Called
<1>3. \A d \in Clients \ {c} : eventCache'[d] = eventCache[d] /\ registrations'[d] = registrations[d]
    BY <1>0, <1>2, OthersUntouched DEF Untouched
<1>4. \A d \in Clients, m \in Locations :
          registrations'[d][m] = IF d = c /\ m = l THEN registrations[c][l] \cup {r}
                                                    ELSE registrations[d][m]
    <2>1. Registers(c, r, l)
        BY <1>0, RegisteredBy
    <2> QED
        BY <2>1 DEF Registers
<1>5. ASSUME NEW d \in Clients
      PROVE  EventsAreAwaited(d)'
    <2>1. CASE d # c
        BY <1>0, <1>1, <1>3, <2>1 DEF ListsInv, EventsAreAwaited
    <2>2. CASE d = c
        BY <1>0, <1>1, <2>2, GreetedScreen DEF ListsInv
    <2> QED
        BY <2>1, <2>2
<1>6. \A q \in Observers : Unregistered(q)' => messages'[q] = <<>>
    BY <1>0, <1>2, <1>4 DEF ListsInv, Unregistered
<1>7. ListOf(c, l, r)'
    <2>1. messages'[r] = <<>> /\ ToSet(messages'[r]) = {}
        BY <1>0, <1>2, SingletonElements DEF ListsInv
    <2>2. OnItsWay(mainQueue[c], r) = {} /\ ComesOnce(mainQueue[c], r)
        BY <1>2, NothingForStrangers
    <2>3. OnItsWay(mainQueue'[c], r) = eventCache'[c] \cap KeysAt(l) /\ ComesOnce(mainQueue'[c], r)
        BY <1>0, <1>1, <2>2, GreetedScreen
    <2>4. Distinct(messages'[r])
        BY <2>1 DEF Distinct
    <2>5. ListedBy(c, r)' = eventCache'[c] \cap KeysAt(l)
        BY <2>1, <2>3 DEF ListedBy
    <2>6. KeysAt(l)' = KeysAt(l)
        BY DEF KeysAt
    <2> QED
        BY <2>1, <2>3, <2>4, <2>5, <2>6 DEF ListOf
<1>8. ASSUME NEW d \in Clients, NEW m \in Locations, NEW q \in registrations[d][m]
      PROVE  ListOf(d, m, q)'
    <2>0. ListOf(d, m, q)
        BY <1>0 DEF ListsInv
    <2>1. CASE d # c
        BY <1>0, <1>1, <1>2, <1>3, <2>0, <2>1, ListQuiet
    <2>2. CASE d = c
        <3>1. q # r
            BY <1>2, <1>8 DEF Unregistered
        <3>2. /\ OnItsWay(mainQueue'[c], q) = OnItsWay(mainQueue[c], q)
              /\ ComesOnce(mainQueue[c], q) => ComesOnce(mainQueue'[c], q)
            BY <1>0, <1>1, <3>1, GreetedScreen
        <3>3. (eventCache'[c] \ eventCache[c]) \cap KeysAt(m) = {}
            BY <1>1, <1>8, <2>2 DEF Greets, KeysAt
        <3>4. PICK N : N = (eventCache'[c] \ eventCache[c]) \cap KeysAt(m)
            OBVIOUS
        <3>5. /\ \A k : Gone(k) => Gone(k)'
              /\ \A k \in eventCache'[c] : ~Gone(k)
              /\ eventCache[c] \ eventCache'[c] = {}
            BY <1>0, <1>1, GoneStays, NewIsNotGone DEF Greets
        <3> QED
            BY <1>2, <2>0, <2>2, <3>2, <3>3, <3>4, <3>5, ListKept
    <2> QED
        BY <2>1, <2>2
<1> QED
    BY <1>4, <1>5, <1>6, <1>7, <1>8 DEF ListsInv

\* What an event brings moves from the queue to the list.
LEMMA ListsGrow ==
    ASSUME ChatInv, Next, NEW c \in Clients, ChildAdded(c)
    PROVE  ListsInv'
<1>0. DbInv /\ TypeOK /\ ChatTypeOK /\ ListsInv /\ OneProcess /\ OneRoom
    BY ChatFacts
<1>1. PICK e : e = Head(mainQueue[c])
    OBVIOUS
<1>2. Dispatch(c) /\ ClientStep(c)
    BY DEF ChildAdded, ClientStep
<1>3. /\ e \in Events
      /\ \A d \in Clients \ {c} : mainQueue'[d] = mainQueue[d]
      /\ \A r : /\ OnItsWay(mainQueue[c], r) = OnItsWay(mainQueue'[c], r)
                                               \cup (IF r \in e.to THEN {e.key} ELSE {})
                /\ ComesOnce(mainQueue[c], r) =>
                      /\ ComesOnce(mainQueue'[c], r)
                      /\ r \in e.to => e.key \notin OnItsWay(mainQueue'[c], r)
      /\ EventsAreAwaited(c) => EventsAreAwaited(c)'
    BY <1>0, <1>1, <1>2, DispatchedToScreens
<1>4. /\ e.key \in Keys
      /\ \A r \in e.to : r \in registrations[c][LocationOf[e.key]] /\ r \in screens[c]
    BY <1>1, EventForScreens
<1>5. \A r \in Observers : messages'[r] = IF r \in e.to THEN Append(messages[r], e.key) ELSE messages[r]
    BY <1>1 DEF ChildAdded
<1>6. UNCHANGED <<registrations, eventCache, pendingWrites, written, db>>
    BY <1>2 DEF Dispatch, serverVars, histVars
<1>7. \A k : Gone(k)' = Gone(k)
    BY <1>6 DEF Gone
<1>8. \A d \in Clients : EventsAreAwaited(d)'
    BY <1>0, <1>3, <1>6 DEF ListsInv, EventsAreAwaited
<1>9. ASSUME NEW r \in Observers, Unregistered(r)'
      PROVE  messages'[r] = <<>>
    <2>1. Unregistered(r)
        BY <1>6, <1>9 DEF Unregistered
    <2>2. r \notin e.to
        BY <1>4, <2>1, LocationAssumption DEF Unregistered
    <2> QED
        BY <1>0, <1>5, <2>1, <2>2 DEF ListsInv
<1>10. ASSUME NEW d \in Clients, NEW l \in Locations, NEW r \in registrations[d][l]
       PROVE  ListOf(d, l, r)'
    <2>0. ListOf(d, l, r) /\ r \in screens[d] /\ r \in Observers
        BY <1>0 DEF ListsInv, OneRoom, RoomObserved, ChatTypeOK
    <2>1. CASE d # c
        <3>1. r \notin e.to
            BY <1>0, <1>4, <2>0, <2>1 DEF OneProcess
        <3> QED
            BY <1>0, <1>3, <1>5, <1>6, <2>0, <2>1, <3>1, ListQuiet
    <2>2. CASE d = c /\ r \notin e.to
        <3>1. /\ OnItsWay(mainQueue'[c], r) = OnItsWay(mainQueue[c], r)
              /\ ComesOnce(mainQueue[c], r) => ComesOnce(mainQueue'[c], r)
            BY <1>3, <2>2
        <3>2. messages'[r] = messages[r]
            BY <1>5, <2>0, <2>2
        <3>3. ListedBy(c, r)' = ListedBy(c, r)
            BY <3>1, <3>2 DEF ListedBy
        <3>4. KeysAt(l)' = KeysAt(l)
            BY DEF KeysAt
        <3> QED
            BY <1>6, <1>7, <2>0, <2>2, <3>1, <3>2, <3>3, <3>4 DEF ListOf
    <2>3. CASE d = c /\ r \in e.to
        <3>1. messages[r] \in Seq(Keys) /\ messages'[r] = Append(messages[r], e.key)
            BY <1>0, <1>5, <2>0, <2>3 DEF ChatTypeOK
        <3>2. /\ Distinct(messages[r]) /\ ComesOnce(mainQueue[c], r)
              /\ OnItsWay(mainQueue[c], r) \cap ToSet(messages[r]) = {}
            BY <2>0, <2>3 DEF ListOf
        <3>3. /\ OnItsWay(mainQueue[c], r) = OnItsWay(mainQueue'[c], r) \cup {e.key}
              /\ ComesOnce(mainQueue'[c], r) /\ e.key \notin OnItsWay(mainQueue'[c], r)
            BY <1>3, <2>3, <3>2
        <3>4. ToSet(messages'[r]) = ToSet(messages[r]) \cup {e.key} /\ Distinct(messages'[r])
            BY <1>4, <3>1, <3>2, <3>3, DistinctAppend
        <3>5. ListedBy(c, r)' = ListedBy(c, r)
            BY <3>3, <3>4 DEF ListedBy
        <3>6. OnItsWay(mainQueue'[c], r) \cap ToSet(messages'[r]) = {}
            BY <3>2, <3>3, <3>4
        <3>7. KeysAt(l)' = KeysAt(l)
            BY DEF KeysAt
        <3> QED
            BY <1>6, <1>7, <2>0, <2>3, <3>3, <3>4, <3>5, <3>6, <3>7 DEF ListOf
    <2> QED
        BY <2>1, <2>2, <2>3
<1> QED
    BY <1>6, <1>8, <1>9, <1>10 DEF ListsInv

\* A process takes its lists and its queue with it.
LEMMA ListsDie ==
    ASSUME ChatInv, Next, NEW c \in Clients, Die(c)
    PROVE  ListsInv'
<1>0. DbInv /\ TypeOK /\ ChatTypeOK /\ ListsInv /\ OneProcess /\ OneRoom
    BY ChatFacts
<1>1. Kill(c) /\ ClientStep(c)
    BY DEF Die, ClientStep
<1>2. \A r \in Observers : messages'[r] = IF r \in screens[c] THEN <<>> ELSE messages[r]
    BY DEF Die
<1>3. /\ \A l \in Locations : registrations'[c][l] = {}
      /\ mainQueue'[c] = <<>>
      /\ \A d \in Clients \ {c} : /\ registrations'[d] = registrations[d]
                                  /\ mainQueue'[d] = mainQueue[d]
                                  /\ eventCache'[d] = eventCache[d]
    BY <1>0, <1>1 DEF Kill, TypeOK
<1>4. ASSUME NEW d \in Clients
      PROVE  EventsAreAwaited(d)'
    <2>1. CASE d = c
        BY <1>3, <2>1, SingletonElements DEF EventsAreAwaited
    <2>2. CASE d # c
        BY <1>0, <1>3, <2>2 DEF ListsInv, EventsAreAwaited
    <2> QED
        BY <2>1, <2>2
<1>5. ASSUME NEW r \in Observers, Unregistered(r)'
      PROVE  messages'[r] = <<>>
    <2>1. CASE r \in screens[c]
        BY <1>2, <2>1
    <2>2. CASE r \notin screens[c]
        <3>1. Unregistered(r)
            BY <1>0, <1>3, <1>5, <2>2 DEF Unregistered, OneRoom, RoomObserved
        <3> QED
            BY <1>0, <1>2, <2>2, <3>1 DEF ListsInv
    <2> QED
        BY <2>1, <2>2
<1>6. ASSUME NEW d \in Clients, NEW l \in Locations, NEW r \in registrations'[d][l]
      PROVE  ListOf(d, l, r)'
    <2>1. d # c
        BY <1>3, <1>6
    <2>2. r \in registrations[d][l] /\ r \in screens[d]
        BY <1>0, <1>3, <1>6, <2>1 DEF OneRoom, RoomObserved
    <2>3. r \notin screens[c] /\ r \in Observers
        BY <1>0, <2>1, <2>2 DEF OneProcess, ChatTypeOK
    <2>4. ListOf(d, l, r)
        BY <1>0, <2>2 DEF ListsInv
    <2> QED
        BY <1>0, <1>2, <1>3, <2>1, <2>3, <2>4, ListQuiet
<1> QED
    BY <1>4, <1>5, <1>6 DEF ListsInv

\* Every step keeps the lists.
LEMMA ListsStep ==
    ASSUME ChatInv, NEW c \in Clients, ChatStep(c)
    PROVE  ListsInv'
<1>0. TypeOK /\ CachesAgree /\ ListsInv
    BY ChatFacts
<1>1. CASE UNCHANGED dbVars /\ messages' = messages
    <2>1. UNCHANGED <<registrations, mainQueue, eventCache, pendingWrites, written, db>>
        BY <1>1 DEF dbVars, viewVars, serverVars, histVars
    <2>2. \A k : Gone(k)' = Gone(k)
        BY <2>1 DEF Gone
    <2>3. \A d, r : ListedBy(d, r)' = ListedBy(d, r)
        BY <1>1, <2>1 DEF ListedBy
    <2>4. \A l : KeysAt(l)' = KeysAt(l)
        BY DEF KeysAt
    <2>5. \A d, l, r : ListOf(d, l, r) => ListOf(d, l, r)'
        BY <1>1, <2>1, <2>2, <2>3, <2>4 DEF ListOf
    <2>6. \A d \in Clients : EventsAreAwaited(d)'
        BY <1>0, <2>1 DEF ListsInv, EventsAreAwaited
    <2> QED
        BY <1>0, <1>1, <2>1, <2>5, <2>6 DEF ListsInv, Unregistered
<1>2. CASE Next /\ ClientStep(c)
    <2>1. CASE RunObserve(c)
        BY <1>2, <2>1, ListsObserved DEF RunObserve
    <2>2. CASE ChildAdded(c)
        BY <1>2, <2>2, ListsGrow
    <2>3. CASE Die(c)
        BY <1>2, <2>3, ListsDie
    <2>4. CASE RunSetValue(c)
        <3>1. PICK k \in Keys : Called(c, SetCall(k)) /\ SetValue(c, k)
            BY <2>4 DEF RunSetValue
        <3>2. Announces(c) /\ \A d \in Clients \ {c} : mainQueue'[d] = mainQueue[d]
            BY <1>0, <3>1, WriteAnnounces
        <3>3. kills' = kills /\ messages' = messages
            BY <3>1 DEF Called, SetValue
        <3> QED
            BY <1>2, <3>2, <3>3, ListsAnnounced
    <2>5. CASE Receive(c) /\ UNCHANGED chatVars
        <3>1. (Announces(c) \/ Quiet(c)) /\ \A d \in Clients \ {c} : mainQueue'[d] = mainQueue[d]
            BY <1>0, <2>5, ReceiveAnnounces
        <3>2. kills' = kills /\ messages' = messages
            BY <2>5 DEF Receive, ReceiveAuthOk, ReceiveSnapshot, ReceiveChild, ReceiveListenOk, ReceivePutAck,
                        histVars, chatVars
        <3> QED
            BY <1>2, <3>1, <3>2, ListsAnnounced
    <2>6. CASE (OnReady(c) \/ OnDisconnect(c) \/ Serve(c)) /\ UNCHANGED chatVars
        <3>1. \A d \in Clients : Quiet(d)
            BY <2>6, ServeIsQuiet
        <3>2. kills' = kills /\ messages' = messages
            BY <2>6 DEF OnReady, OnReadyUnauthenticated, OnReadyWithToken, OnDisconnect, Serve, ServeAuth,
                        ServeListen, ServePut, ServePutRefused, histVars, chatVars
        <3>3. Quiet(c) /\ \A d \in Clients \ {c} : mainQueue'[d] = mainQueue[d]
            BY <3>1 DEF Quiet
        <3> QED
            BY <1>2, <3>2, <3>3, ListsAnnounced
    <2>7. CASE \/ \E r \in Observers, p \in Clients : Open(c, r, p)
               \/ GoBack(c)
               \/ \E r \in Observers, k \in Keys : PressSend(c, r, k)
               \/ \E r \in Observers, k \in Keys : VideoFound(c, r, k)
               \/ \E r \in Observers, k \in Keys : SearchFailed(c, r, k)
               \/ \E r \in Observers : PlayDefault(c, r)
        BY <1>1, <2>7 DEF Open, GoBack, PressSend, VideoFound, SearchFailed, PlayDefault
    <2> QED
        BY <2>1, <2>2, <2>3, <2>4, <2>5, <2>6, <2>7 DEF ChatStep
<1>3. CASE UNCHANGED dbVars /\ messages' # messages
    <2>1. ASSUME ChildAdded(c) \/ Die(c)
          PROVE  FALSE
        <3>1. UNCHANGED <<mainQueue, kills>>
            BY <1>3 DEF dbVars, viewVars, histVars
        <3>2. CASE ChildAdded(c)
            <4>1. mainQueue[c] \in Seq(Events) /\ mainQueue[c] # <<>> /\ mainQueue'[c] = Tail(mainQueue[c])
                BY <1>0, <3>2 DEF ChildAdded, Dispatch, TypeOK
            <4>2. Len(Tail(mainQueue[c])) # Len(mainQueue[c])
                BY <4>1, HeadTailProperties, LenProperties
            <4> QED
                BY <3>1, <4>1, <4>2
        <3>3. CASE Die(c)
            BY <1>0, <3>1, <3>3 DEF Die, Kill, TypeOK
        <3> QED
            BY <2>1, <3>2, <3>3
    <2> QED
        BY <1>3, <2>1 DEF ChatStep, Open, GoBack, PressSend, VideoFound, SearchFailed, PlayDefault,
                          RunObserve, RunSetValue, Called, chatVars
<1> QED
    BY <1>1, <1>2, <1>3, DbStepsOfChat

-----------------------------------------------------------------------------
(* The player.                                                              *)

\* A screen that nothing is taken from, and whose player is left alone.
LEMMA VideoKept ==
    ASSUME NEW d, NEW l, NEW r, VideoOf(d, l, r),
           messages'[r] = messages[r], videoID'[r] = videoID[r],
           registrations[d][l] \subseteq registrations'[d][l],
           OnItsWay(mainQueue[d], r) \subseteq OnItsWay(mainQueue'[d], r),
           ToSet(calls[d]) \subseteq ToSet(calls'[d]),
           \A n : Before(calls[d], {ObserveCall(r, l)}, n) => Before(calls'[d], {ObserveCall(r, l)}, n)
    PROVE  VideoOf(d, l, r)'
<1>1. KeysAt(l)' = KeysAt(l)
    BY DEF KeysAt
<1>2. ToWrite(d, l) \subseteq ToWrite(d, l)'
    BY <1>1 DEF ToWrite
<1>3. PlaysLast(r)' <=> PlaysLast(r)
    BY DEF PlaysLast
<1>4. WillHear(d, l, r)'
    BY <1>1 DEF VideoOf, WillHear
<1> QED
    BY <1>2, <1>3, <1>4 DEF VideoOf

\* The screens of a process whose calls wait.
LEMMA VideoQuiet ==
    ASSUME NEW d, NEW l, NEW r, VideoOf(d, l, r),
           messages'[r] = messages[r], videoID'[r] = videoID[r],
           registrations[d][l] \subseteq registrations'[d][l],
           OnItsWay(mainQueue[d], r) \subseteq OnItsWay(mainQueue'[d], r),
           calls'[d] = calls[d]
    PROVE  VideoOf(d, l, r)'
BY VideoKept

\* A new screen plays nothing and is about to observe.
LEMMA VideosOpened ==
    ASSUME ChatInv, NEW c \in Clients, NEW r \in Observers, NEW p \in Clients, Open(c, r, p)
    PROVE  VideosInv'
<1>0. ChatTypeOK /\ OneProcess /\ VideosInv
    BY ChatFacts
<1>1. /\ \A d \in Clients : r \notin screens[d]
      /\ \A d \in Clients : screens'[d] = (IF d = c THEN screens[c] \cup {r} ELSE screens[d])
      /\ \A q \in Observers : selectedUser'[q] = (IF q = r THEN p ELSE selectedUser[q])
      /\ calls' = [calls EXCEPT ![c] = Append(@, ObserveCall(r, RoomOf(c, p)))]
      /\ registrations' = registrations /\ mainQueue' = mainQueue
      /\ messages' = messages /\ videoID' = videoID
    BY <1>0 DEF Open, ChatTypeOK, dbVars, viewVars
<1>2. \A d \in Clients : /\ ScreenRoom(d, r)' = RoomOf(d, p)
                         /\ \A q \in Observers \ {r} : ScreenRoom(d, q)' = ScreenRoom(d, q)
    BY <1>1 DEF ScreenRoom, RoomOf
<1>3. ObserveCall(r, RoomOf(c, p)) \in AppCalls
    BY RoomsAreLocations DEF AppCalls
<1>4. /\ \A d \in Clients \ {c} : calls'[d] = calls[d]
      /\ ToSet(calls'[c]) = ToSet(calls[c]) \cup {ObserveCall(r, RoomOf(c, p))}
      /\ \A M, n : Before(calls[c], M, n) => Before(calls'[c], M, n)
    BY <1>0, <1>1, <1>3, CallAdded
<1>5. ASSUME NEW d \in Clients, NEW l \in Locations, NEW q \in screens'[d], l = ScreenRoom(d, q)'
      PROVE  VideoOf(d, l, q)'
    <2>1. CASE q = r
        <3>1. d = c /\ l = RoomOf(c, p)
            BY <1>1, <1>2, <1>5, <2>1
        <3>2. messages'[r] = <<>> /\ videoID'[r] = NoVideo
            BY <1>0, <1>1 DEF OneProcess
        <3>3. ObserveCall(r, l) \in ToSet(calls'[c])
            BY <1>4, <3>1
        <3> QED
            BY <2>1, <3>1, <3>2, <3>3 DEF VideoOf, WillHear, PlaysLast
    <2>2. CASE q # r
        <3>1. q \in screens[d] /\ l = ScreenRoom(d, q)
            BY <1>0, <1>1, <1>2, <1>5, <2>2 DEF ChatTypeOK
        <3>2. VideoOf(d, l, q)
            BY <1>0, <3>1 DEF VideosInv
        <3>3. CASE d = c
            BY <1>1, <1>4, <3>2, <3>3, VideoKept
        <3>4. CASE d # c
            BY <1>1, <1>4, <3>2, <3>4, VideoQuiet
        <3> QED
            BY <3>3, <3>4
    <2> QED
        BY <2>1, <2>2
<1> QED
    BY <1>5 DEF VideosInv

\* The video that a search found is played now, its message written later.
LEMMA VideosFound ==
    ASSUME ChatInv, NEW c \in Clients, NEW r \in Observers, NEW k \in Keys, VideoFound(c, r, k)
    PROVE  VideosInv'
<1>0. ChatTypeOK /\ OneProcess /\ OneRoom /\ VideosInv
    BY ChatFacts
<1>1. /\ screens' = screens /\ selectedUser' = selectedUser
      /\ registrations' = registrations /\ mainQueue' = mainQueue /\ messages' = messages
      /\ calls' = [calls EXCEPT ![c] = Append(@, SetCall(k))]
      /\ \A q \in Observers \ {r} : videoID'[q] = videoID[q]
    BY <1>0 DEF VideoFound, ChatTypeOK, dbVars, viewVars
<1>2. r \in screens[c] /\ LocationOf[k] = ScreenRoom(c, r)
    BY <1>0 DEF VideoFound, OneRoom, RoomRequested
<1>3. SetCall(k) \in AppCalls
    BY DEF AppCalls
<1>4. /\ \A d \in Clients \ {c} : calls'[d] = calls[d]
      /\ ToSet(calls'[c]) = ToSet(calls[c]) \cup {SetCall(k)}
      /\ \A M, n : Before(calls[c], M, n) => Before(calls'[c], M, n)
      /\ \A M : M \cap ToSet(calls[c]) # {} => Before(calls'[c], M, SetCall(k))
    BY <1>0, <1>1, <1>3, CallAdded
<1>5. \A d, q : ScreenRoom(d, q)' = ScreenRoom(d, q)
    BY <1>1 DEF ScreenRoom, RoomOf
<1>6. ASSUME NEW d \in Clients, NEW l \in Locations, NEW q \in screens[d], l = ScreenRoom(d, q)
      PROVE  VideoOf(d, l, q)'
    <2>0. VideoOf(d, l, q) /\ q \in Observers
        BY <1>0, <1>6 DEF VideosInv, ChatTypeOK
    <2>1. CASE q # r /\ d = c
        BY <1>1, <1>4, <2>0, <2>1, VideoKept
    <2>2. CASE q # r /\ d # c
        BY <1>1, <1>4, <2>0, <2>2, VideoQuiet
    <2>3. CASE q = r
        <3>1. d = c
            BY <1>0, <1>2, <1>6, <2>3 DEF OneProcess
        <3>2. l = LocationOf[k]
            BY <1>2, <1>6, <2>3, <3>1
        <3>3. k \in KeysAt(l) /\ KeysAt(l)' = KeysAt(l)
            BY <3>2 DEF KeysAt
        <3>4. k \in ToWrite(c, l)'
            BY <1>4, <3>3 DEF ToWrite
        <3>5. CASE r \in registrations[c][l]
            BY <1>1, <2>3, <3>1, <3>4, <3>5 DEF VideoOf, WillHear
        <3>6. CASE r \notin registrations[c][l]
            <4>1. ObserveCall(r, l) \in ToSet(calls[c])
                BY <2>0, <2>3, <3>1, <3>6 DEF VideoOf, WillHear
            <4>2. {ObserveCall(r, l)} \cap ToSet(calls[c]) # {}
                BY <4>1
            <4>3. Before(calls'[c], {ObserveCall(r, l)}, SetCall(k)) /\ ObserveCall(r, l) \in ToSet(calls'[c])
                BY <1>4, <4>1, <4>2
            <4>4. WillHear(c, l, r)'
                BY <3>3, <4>3 DEF WillHear
            <4> QED
                BY <2>3, <3>1, <3>4, <4>4 DEF VideoOf
        <3> QED
            BY <3>5, <3>6
    <2> QED
        BY <2>1, <2>2, <2>3
<1> QED
    BY <1>1, <1>5, <1>6 DEF VideosInv

\* The write of a message: a screen that observes its room is told of it, and
\* a screen that asked to observe before is still to be told of another one.
LEMMA VideosWritten ==
    ASSUME ChatInv, NEW c \in Clients, NEW k \in Keys, Called(c, SetCall(k)), SetValue(c, k)
    PROVE  VideosInv'
<1>0. /\ TypeOK /\ ChatTypeOK /\ CachesAgree /\ OneProcess /\ OneRoom
      /\ ListsInv /\ VideosInv
    BY ChatFacts
<1>1. /\ screens' = screens /\ selectedUser' = selectedUser
      /\ registrations' = registrations /\ messages' = messages /\ videoID' = videoID
      /\ k \notin written
      /\ eventCache' = [eventCache EXCEPT ![c] = @ \cup (IF Viewed(c, k) THEN {k} ELSE {})]
    BY DEF Called, SetValue
<1>2. /\ \A d \in Clients \ {c} : calls'[d] = calls[d]
      /\ ToSet(calls[c]) = {SetCall(k)} \cup ToSet(calls'[c])
      /\ \A M, n : Before(calls[c], M, n) => /\ n \in ToSet(calls'[c])
                                             /\ Before(calls'[c], M, n) \/ SetCall(k) \in M
    BY <1>0, CallTaken
<1>3. Announces(c) /\ \A d \in Clients \ {c} : mainQueue'[d] = mainQueue[d]
    BY <1>0, WriteAnnounces
<1>4. \A q : OnItsWay(mainQueue'[c], q) =
                 OnItsWay(mainQueue[c], q)
                 \cup {j \in eventCache'[c] \ eventCache[c] : q \in registrations[c][LocationOf[j]]}
    BY <1>0, <1>3, AnnouncedToScreens
<1>5. \A d, q : ScreenRoom(d, q)' = ScreenRoom(d, q)
    BY <1>1 DEF ScreenRoom, RoomOf
<1>6. ASSUME NEW l \in Locations, NEW q \in screens[c], l = ScreenRoom(c, q)
      PROVE  VideoOf(c, l, q)'
    <2>0. VideoOf(c, l, q) /\ q \in Observers
        BY <1>0, <1>6 DEF VideosInv, ChatTypeOK
    <2>1. KeysAt(l)' = KeysAt(l)
        BY DEF KeysAt
    <2>2. SetCall(k) \notin {ObserveCall(q, l)}
        BY CallsDistinct
    <2>3. \A n : Before(calls[c], {ObserveCall(q, l)}, n) =>
              n \in ToSet(calls'[c]) /\ Before(calls'[c], {ObserveCall(q, l)}, n)
        BY <1>2, <2>2
    <2>4. ObserveCall(q, l) \in ToSet(calls[c]) => ObserveCall(q, l) \in ToSet(calls'[c])
        BY <1>2, <2>2
    <2>5. WillHear(c, l, q)'
        BY <1>1, <2>0, <2>1, <2>3, <2>4 DEF VideoOf, WillHear
    <2>6. ASSUME ToWrite(c, l)' = {}, OnItsWay(mainQueue'[c], q) = {}
          PROVE  PlaysLast(q)
        <3>1. OnItsWay(mainQueue[c], q) = {}
            BY <1>4, <2>6
        <3>2. CASE ToWrite(c, l) = {}
            BY <2>0, <3>1, <3>2 DEF VideoOf
        <3>3. CASE ToWrite(c, l) # {} /\ q \in registrations[c][l]
            <4>1. LocationOf[k] = l
                BY <1>2, <2>1, <2>6, <3>3, CallsDistinct DEF ToWrite, KeysAt
            <4>2. Viewed(c, k)
                BY <3>3, <4>1 DEF Viewed, Views
            <4>3. k \in eventCache'[c] \ eventCache[c]
                BY <1>0, <1>1, <4>2 DEF TypeOK, CachesAgree
            <4> QED
                BY <1>4, <2>6, <3>3, <4>1, <4>3
        <3>4. CASE q \notin registrations[c][l]
            <4>1. ObserveCall(q, l) \in ToSet(calls[c])
                BY <2>0, <3>4 DEF VideoOf, WillHear
            <4>2. messages[q] = <<>>
                BY <1>0, <2>0, <4>1 DEF OneRoom, RoomAsked, ListsInv
            <4>3. ~\E j \in KeysAt(l) : Before(calls[c], {ObserveCall(q, l)}, SetCall(j))
                BY <2>1, <2>3, <2>6 DEF ToWrite
            <4>4. videoID[q] \in {NoVideo, DefaultVideo}
                BY <2>0, <3>4, <4>3 DEF VideoOf, WillHear
            <4> QED
                BY <4>2, <4>4 DEF PlaysLast
        <3> QED
            BY <3>2, <3>3, <3>4
    <2>7. PlaysLast(q)' <=> PlaysLast(q)
        BY <1>1 DEF PlaysLast
    <2> QED
        BY <2>5, <2>6, <2>7 DEF VideoOf
<1>7. ASSUME NEW d \in Clients \ {c}, NEW l \in Locations, NEW q \in screens[d], l = ScreenRoom(d, q)
      PROVE  VideoOf(d, l, q)'
    <2>1. VideoOf(d, l, q)
        BY <1>0, <1>7 DEF VideosInv
    <2> QED
        BY <1>1, <1>2, <1>3, <2>1, VideoQuiet
<1> QED
    BY <1>1, <1>5, <1>6, <1>7 DEF VideosInv

\* A new observer is told all that its view shows.
LEMMA VideosObserved ==
    ASSUME ChatInv, NEW c \in Clients, NEW r \in Observers, NEW l \in Locations,
           Called(c, ObserveCall(r, l)), Observe(c, r, l)
    PROVE  VideosInv'
<1>0. /\ TypeOK /\ ChatTypeOK /\ CachesAgree /\ OneProcess /\ OneRoom
      /\ ListsInv /\ VideosInv
    BY ChatFacts
<1>1. /\ screens' = screens /\ selectedUser' = selectedUser
      /\ messages' = messages /\ videoID' = videoID
    BY DEF Called
<1>2. /\ \A d \in Clients \ {c} : calls'[d] = calls[d]
      /\ ToSet(calls[c]) = {ObserveCall(r, l)} \cup ToSet(calls'[c])
      /\ \A M, n : Before(calls[c], M, n) => /\ n \in ToSet(calls'[c])
                                             /\ Before(calls'[c], M, n) \/ ObserveCall(r, l) \in M
    BY <1>0, CallTaken
<1>3. Greets(c, r, l) /\ \A d \in Clients \ {c} : mainQueue'[d] = mainQueue[d]
    BY <1>0, ObserveGreets
<1>4. /\ \A q : OnItsWay(mainQueue[c], q) \subseteq OnItsWay(mainQueue'[c], q)
    BY <1>0, <1>3, GreetedScreen
<1>5. /\ \A d \in Clients, m \in Locations : registrations[d][m] \subseteq registrations'[d][m]
      /\ r \in registrations'[c][l]
    <2>1. \A d \in Clients, m \in Locations :
              registrations'[d][m] = IF d = c /\ m = l THEN registrations[c][l] \cup {r}
                                                        ELSE registrations[d][m]
        <3>1. Registers(c, r, l)
            BY <1>0, RegisteredBy
        <3> QED
            BY <3>1 DEF Registers
    <2> QED
        BY <2>1
<1>6. r \in screens[c] /\ l = ScreenRoom(c, r)
    BY <1>0, <1>2 DEF OneRoom, RoomAsked
<1>7. \A d, q : ScreenRoom(d, q)' = ScreenRoom(d, q)
    BY <1>1 DEF ScreenRoom, RoomOf
<1>8. \A m \in Locations : ToWrite(c, m)' = ToWrite(c, m)
    BY <1>2, CallsDistinct DEF ToWrite, KeysAt
<1>9. ASSUME NEW m \in Locations, NEW q \in screens[c], m = ScreenRoom(c, q)
      PROVE  VideoOf(c, m, q)'
    <2>0. VideoOf(c, m, q)
        BY <1>0, <1>9 DEF VideosInv
    <2>1. ToWrite(c, m)' = {} /\ OnItsWay(mainQueue'[c], q) = {} => PlaysLast(q)
        BY <1>4, <1>8, <2>0 DEF VideoOf
    <2>2. PlaysLast(q)' <=> PlaysLast(q)
        BY <1>1 DEF PlaysLast
    <2>3. WillHear(c, m, q)'
        <3>1. CASE q = r
            BY <1>5, <1>6, <1>9, <3>1 DEF WillHear
        <3>2. CASE q # r
            <4>1. ObserveCall(r, l) \notin {ObserveCall(q, m)}
                BY <3>2, CallsDistinct
            <4>2. /\ ObserveCall(q, m) \in ToSet(calls[c]) => ObserveCall(q, m) \in ToSet(calls'[c])
                  /\ \A n : Before(calls[c], {ObserveCall(q, m)}, n) =>
                                Before(calls'[c], {ObserveCall(q, m)}, n)
                BY <1>2, <4>1
            <4>3. KeysAt(m)' = KeysAt(m)
                BY DEF KeysAt
            <4> QED
                BY <1>1, <1>5, <2>0, <4>2, <4>3 DEF VideoOf, WillHear
        <3> QED
            BY <3>1, <3>2
    <2> QED
        BY <2>1, <2>2, <2>3 DEF VideoOf
<1>10. ASSUME NEW d \in Clients \ {c}, NEW m \in Locations, NEW q \in screens[d], m = ScreenRoom(d, q)
       PROVE  VideoOf(d, m, q)'
    <2>1. VideoOf(d, m, q)
        BY <1>0, <1>10 DEF VideosInv
    <2> QED
        BY <1>1, <1>2, <1>3, <1>5, <2>1, VideoQuiet
<1> QED
    BY <1>1, <1>7, <1>9, <1>10 DEF VideosInv

\* An event lists a message and plays its video in one step.
LEMMA VideosAdded ==
    ASSUME ChatInv, NEW c \in Clients, ChildAdded(c)
    PROVE  VideosInv'
<1>0. TypeOK /\ ChatTypeOK /\ OneProcess /\ OneRoom /\ VideosInv
    BY ChatFacts
<1>1. PICK e : e = Head(mainQueue[c])
    OBVIOUS
<1>2. /\ screens' = screens /\ selectedUser' = selectedUser /\ calls' = calls
      /\ registrations' = registrations
      /\ \A q \in Observers :
            /\ messages'[q] = IF q \in e.to THEN Append(messages[q], e.key) ELSE messages[q]
            /\ videoID'[q] = IF q \in e.to THEN Video(e.key) ELSE videoID[q]
    BY <1>1 DEF ChildAdded, Dispatch
<1>3. /\ \A d \in Clients \ {c} : mainQueue'[d] = mainQueue[d]
      /\ \A q : OnItsWay(mainQueue[c], q) = OnItsWay(mainQueue'[c], q)
                                            \cup (IF q \in e.to THEN {e.key} ELSE {})
    BY <1>0, <1>1, DispatchedToScreens DEF ChildAdded
<1>4. /\ e.key \in Keys
      /\ \A q \in e.to : /\ q \in registrations[c][LocationOf[e.key]]
                         /\ q \in screens[c] /\ LocationOf[e.key] = ScreenRoom(c, q)
    BY <1>1, EventForScreens
<1>5. \A d, q : ScreenRoom(d, q)' = ScreenRoom(d, q)
    BY <1>2 DEF ScreenRoom, RoomOf
<1>6. ASSUME NEW d \in Clients, NEW l \in Locations, NEW q \in screens[d], l = ScreenRoom(d, q)
      PROVE  VideoOf(d, l, q)'
    <2>0. VideoOf(d, l, q) /\ q \in Observers
        BY <1>0, <1>6 DEF VideosInv, ChatTypeOK
    <2>1. CASE q \notin e.to
        <3>1. OnItsWay(mainQueue'[d], q) = OnItsWay(mainQueue[d], q)
            BY <1>3, <2>1
        <3> QED
            BY <1>2, <2>0, <2>1, <3>1, VideoQuiet
    <2>2. CASE q \in e.to
        <3>1. d = c
            BY <1>0, <1>4, <1>6, <2>2 DEF OneProcess
        <3>2. q \in registrations'[c][l]
            BY <1>2, <1>4, <1>6, <2>2, <3>1
        <3>3. messages'[q] = Append(messages[q], e.key) /\ messages[q] \in Seq(Keys)
            BY <1>0, <1>2, <2>0, <2>2 DEF ChatTypeOK
        <3>4. messages'[q] # <<>> /\ Last(messages'[q]) = e.key
            <4>1. /\ Len(messages'[q]) = Len(messages[q]) + 1 /\ Len(messages[q]) \in Nat
                  /\ messages'[q][Len(messages[q]) + 1] = e.key
                BY <1>4, <3>3, AppendProperties, LenProperties
            <4> QED
                BY <4>1 DEF Last
        <3>5. videoID'[q] = Video(e.key)
            BY <1>2, <2>0, <2>2
        <3>6. PlaysLast(q)'
            BY <3>4, <3>5 DEF PlaysLast, Video
        <3> QED
            BY <3>1, <3>2, <3>6 DEF VideoOf, WillHear
    <2> QED
        BY <2>1, <2>2
<1> QED
    BY <1>2, <1>5, <1>6 DEF VideosInv

\* The default video is played only where no message is listed yet.
LEMMA VideosDefault ==
    ASSUME ChatInv, NEW c \in Clients, NEW r \in Observers, PlayDefault(c, r)
    PROVE  VideosInv'
<1>0. ChatTypeOK /\ OneProcess /\ VideosInv
    BY ChatFacts
<1>1. /\ screens' = screens /\ selectedUser' = selectedUser /\ calls' = calls
      /\ registrations' = registrations /\ mainQueue' = mainQueue /\ messages' = messages
      /\ r \in visible[c] /\ videoID[r] = NoVideo
      /\ \A q \in Observers : videoID'[q] = IF q = r THEN DefaultVideo ELSE videoID[q]
    BY <1>0 DEF PlayDefault, ChatTypeOK, dbVars, viewVars
<1>2. \A d, q : ScreenRoom(d, q)' = ScreenRoom(d, q)
    BY <1>1 DEF ScreenRoom, RoomOf
<1>3. ASSUME NEW d \in Clients, NEW l \in Locations, NEW q \in screens[d], l = ScreenRoom(d, q)
      PROVE  VideoOf(d, l, q)'
    <2>0. VideoOf(d, l, q) /\ q \in Observers
        BY <1>0, <1>3 DEF VideosInv, ChatTypeOK
    <2>1. CASE q # r
        BY <1>1, <2>0, <2>1, VideoQuiet
    <2>2. CASE q = r
        <3>1. videoID[q] = NoVideo /\ videoID'[q] = DefaultVideo
            BY <1>1, <2>0, <2>2
        <3>2. ASSUME PlaysLast(q)
              PROVE  PlaysLast(q)'
            <4>1. \A k : Video(k) # NoVideo
                BY DEF Video, NoVideo
            <4>2. messages[q] = <<>>
                BY <3>1, <3>2, <4>1 DEF PlaysLast
            <4> QED
                BY <1>1, <3>1, <4>2 DEF PlaysLast
        <3>3. WillHear(d, l, q)'
            BY <1>1, <2>0, <3>1 DEF VideoOf, WillHear
        <3>4. ToWrite(d, l)' = ToWrite(d, l)
            BY <1>1 DEF ToWrite, KeysAt
        <3> QED
            BY <1>1, <2>0, <3>2, <3>3, <3>4 DEF VideoOf
    <2> QED
        BY <2>1, <2>2
<1> QED
    BY <1>1, <1>2, <1>3 DEF VideosInv

\* The death of a process leaves the screens of the others alone.
LEMMA VideosDie ==
    ASSUME ChatInv, NEW c \in Clients, Die(c)
    PROVE  VideosInv'
<1>0. TypeOK /\ ChatTypeOK /\ OneProcess /\ VideosInv
    BY ChatFacts
<1>1. /\ \A d \in Clients : screens'[d] = (IF d = c THEN {} ELSE screens[d])
      /\ \A d \in Clients \ {c} : calls'[d] = calls[d]
      /\ \A q \in Observers \ screens[c] : messages'[q] = messages[q] /\ videoID'[q] = videoID[q]
      /\ selectedUser' = selectedUser
    BY <1>0 DEF Die, ChatTypeOK
<1>2. \A d \in Clients \ {c} : mainQueue'[d] = mainQueue[d] /\ registrations'[d] = registrations[d]
    BY <1>0 DEF Die, Kill, TypeOK
<1>3. \A d, q : ScreenRoom(d, q)' = ScreenRoom(d, q)
    BY <1>1 DEF ScreenRoom, RoomOf
<1>4. ASSUME NEW d \in Clients, NEW l \in Locations, NEW q \in screens'[d], l = ScreenRoom(d, q)
      PROVE  VideoOf(d, l, q)'
    <2>1. d # c /\ q \in screens[d]
        BY <1>1, <1>4
    <2>2. q \in Observers \ screens[c]
        BY <1>0, <2>1 DEF OneProcess, ChatTypeOK
    <2>3. VideoOf(d, l, q)
        BY <1>0, <1>4, <2>1 DEF VideosInv
    <2> QED
        BY <1>1, <1>2, <2>1, <2>2, <2>3, VideoQuiet
<1> QED
    BY <1>3, <1>4 DEF VideosInv

\* Steps that make no call and touch no player.
LEMMA VideosStay ==
    ASSUME ChatInv, UNCHANGED <<screens, selectedUser, messages, videoID, calls, registrations>>,
           \A d \in Clients : \A q :
               OnItsWay(mainQueue[d], q) \subseteq OnItsWay(mainQueue'[d], q)
    PROVE  VideosInv'
<1>1. \A d, q : ScreenRoom(d, q)' = ScreenRoom(d, q)
    BY DEF ScreenRoom, RoomOf
<1>2. ASSUME NEW d \in Clients, NEW l \in Locations, NEW q \in screens[d], l = ScreenRoom(d, q)
      PROVE  VideoOf(d, l, q)'
    <2>1. VideoOf(d, l, q)
        BY <1>2, ChatFacts DEF VideosInv
    <2> QED
        BY <2>1, VideoQuiet
<1> QED
    BY <1>1, <1>2 DEF VideosInv

\* Every step keeps the players.
LEMMA VideosStep ==
    ASSUME ChatInv, NEW c \in Clients, ChatStep(c)
    PROVE  VideosInv'
<1>0. TypeOK
    BY ChatFacts
<1>1. CASE RunObserve(c)
    BY <1>1, VideosObserved DEF RunObserve
<1>2. CASE RunSetValue(c)
    BY <1>2, VideosWritten DEF RunSetValue
<1>3. CASE Receive(c) /\ UNCHANGED chatVars
    <2>1. (Announces(c) \/ Quiet(c)) /\ \A d \in Clients \ {c} : mainQueue'[d] = mainQueue[d]
        BY <1>0, <1>3, ReceiveAnnounces
    <2>2. \A q : OnItsWay(mainQueue[c], q) \subseteq OnItsWay(mainQueue'[c], q)
        BY <1>0, <2>1, AnnouncedToScreens DEF Quiet
    <2>3. registrations' = registrations
        BY <1>3 DEF Receive, ReceiveAuthOk, ReceiveSnapshot, ReceiveChild, ReceiveListenOk, ReceivePutAck,
                    viewVars
    <2> QED
        BY <1>3, <2>1, <2>2, <2>3, VideosStay DEF chatVars
<1>4. CASE (OnReady(c) \/ OnDisconnect(c) \/ Serve(c)) /\ UNCHANGED chatVars
    <2>1. UNCHANGED <<registrations, mainQueue>>
        BY <1>4 DEF OnReady, OnReadyUnauthenticated, OnReadyWithToken, OnDisconnect, Serve, ServeAuth,
                    ServeListen, ServePut, ServePutRefused, viewVars
    <2> QED
        BY <1>4, <2>1, VideosStay DEF chatVars
<1>5. CASE \/ GoBack(c)
           \/ \E r \in Observers, k \in Keys : PressSend(c, r, k)
           \/ \E r \in Observers, k \in Keys : SearchFailed(c, r, k)
    <2>1. UNCHANGED <<registrations, mainQueue>>
        BY <1>5 DEF GoBack, PressSend, SearchFailed, dbVars, viewVars
    <2>2. UNCHANGED <<screens, selectedUser, messages, videoID, calls>>
        BY <1>5 DEF GoBack, PressSend, SearchFailed
    <2> QED
        BY <2>1, <2>2, VideosStay
<1> QED
    BY <1>1, <1>2, <1>3, <1>4, <1>5, VideosOpened, VideosFound, VideosAdded, VideosDefault, VideosDie
       DEF ChatStep

-----------------------------------------------------------------------------
(* The theorems.                                                            *)

\* At first there is no screen.
LEMMA ChatInitHolds == ChatInit => ChatInv
<1> SUFFICES ASSUME ChatInit
             PROVE  ChatInv
    OBVIOUS
<1>1. Init
    BY DEF ChatInit
<1>2. DbInv
    BY <1>1, SavedInit, TypeInit, AcksInit DEF DbInv, AcksInv, SavedAreWritten, Init
<1>3. /\ \A c \in Clients : visible[c] = {} /\ screens[c] = {} /\ calls[c] = <<>> /\ mainQueue[c] = <<>>
      /\ \A c \in Clients, l \in Locations : registrations[c][l] = {}
      /\ \A r \in Observers : messages[r] = <<>> /\ videoID[r] = NoVideo
      /\ requests = {}
    BY <1>1 DEF ChatInit, Init
<1>4. ToSet(<<>>) = {}
    BY SingletonElements
<1>5. ChatTypeOK
    <2>1. <<>> \in Seq(Keys) /\ <<>> \in Seq(AppCalls) /\ NoVideo \in Videos
        BY EmptySeq DEF Videos
    <2>2. /\ messages \in [Observers -> Seq(Keys)] /\ videoID \in [Observers -> Videos]
          /\ calls \in [Clients -> Seq(AppCalls)]
        BY <2>1 DEF ChatInit
    <2>3. /\ visible \in [Clients -> SUBSET Observers] /\ screens \in [Clients -> SUBSET Observers]
          /\ pressed \in [Clients -> SUBSET Keys]
          /\ selectedUser \in [Observers -> Clients \cup {CHOOSE c \in Clients : TRUE}]
        BY DEF ChatInit
    <2> QED
        BY <1>3, <2>2, <2>3 DEF ChatTypeOK
<1>6. OneProcess
    BY <1>3 DEF OneProcess
<1>7. OneRoom
    BY <1>3, <1>4 DEF OneRoom, RoomObserved, RoomAsked, RoomRequested
<1>8. ListsInv
    BY <1>3, <1>4 DEF ListsInv, EventsAreAwaited
<1>9. VideosInv
    BY <1>3 DEF VideosInv
<1> QED
    BY <1>2, <1>5, <1>6, <1>7, <1>8, <1>9 DEF ChatInv, ScreensInv

\* A step that changes nothing.
LEMMA ChatStutters == ChatInv /\ UNCHANGED vars => ChatInv'
<1> SUFFICES ASSUME ChatInv, UNCHANGED vars
             PROVE  ChatInv'
    OBVIOUS
<1>1. /\ UNCHANGED dbVars /\ UNCHANGED chatVars
      /\ UNCHANGED <<registrations, mainQueue, eventCache, pendingWrites, written, db>>
    BY DEF vars, dbVars, viewVars, serverVars, histVars
<1>2. DbInv'
    BY <1>1, DbStep, ChatFacts
<1>3. ChatTypeOK' /\ OneProcess'
    BY <1>1, ChatFacts DEF ChatTypeOK, OneProcess, chatVars
<1>4. \A d, q : ScreenRoom(d, q)' = ScreenRoom(d, q)
    BY <1>1 DEF ScreenRoom, RoomOf, chatVars
<1>5. OneRoom'
    <2>1. RoomAsked'
        BY <1>1, <1>4, ChatFacts DEF OneRoom, RoomAsked, Unregistered, chatVars
    <2>2. RoomObserved' /\ RoomRequested'
        BY <1>1, <1>4, ChatFacts DEF OneRoom, RoomObserved, RoomRequested, chatVars
    <2> QED
        BY <2>1, <2>2 DEF OneRoom
<1>6. ListsInv'
    <2>1. \A k : Gone(k)' = Gone(k)
        BY <1>1 DEF Gone
    <2>2. \A d, r : ListedBy(d, r)' = ListedBy(d, r)
        BY <1>1 DEF ListedBy, chatVars
    <2>3. \A l : KeysAt(l)' = KeysAt(l)
        BY DEF KeysAt
    <2>4. \A d, l, r : ListOf(d, l, r) => ListOf(d, l, r)'
        BY <1>1, <2>1, <2>2, <2>3 DEF ListOf, chatVars
    <2>5. \A d \in Clients : EventsAreAwaited(d)'
        BY <1>1, ChatFacts DEF ListsInv, EventsAreAwaited
    <2> QED
        BY <1>1, <2>4, <2>5, ChatFacts DEF ListsInv, Unregistered, chatVars
<1>7. VideosInv'
    BY <1>1, VideosStay DEF chatVars
<1> QED
    BY <1>2, <1>3, <1>5, <1>6, <1>7 DEF ChatInv, ScreensInv

\* Every step keeps the invariant.
LEMMA ChatNextHolds == ChatInv /\ [ChatNext]_vars => ChatInv'
<1> SUFFICES ASSUME ChatInv, [ChatNext]_vars
             PROVE  ChatInv'
    OBVIOUS
<1>1. CASE UNCHANGED vars
    BY <1>1, ChatStutters
<1>2. CASE ChatNext
    <2>1. PICK c \in Clients : ChatStep(c)
        BY <1>2, StepsOfChats
    <2>2. DbInv'
        BY ChatIsDb, DbStep, ChatFacts
    <2> QED
        BY <2>1, <2>2, ScreensStep, ListsStep, VideosStep DEF ChatInv
<1> QED
    BY <1>1, <1>2

\* The invariant holds in every state of the chat.
LEMMA ChatInvAlways == ChatSpec => []ChatInv
BY ChatInitHolds, ChatNextHolds, PTL DEF ChatSpec

\* No screen ever lists a message twice: what childAdded brings was neither
\* listed nor on its way (ChatViewController appends without comparing keys).
THEOREM MessagesAreShownOnce == ChatSpec => []ShownOnce
<1>1. ChatInv => ShownOnce
    <2> SUFFICES ASSUME ChatInv, NEW r \in Observers
                 PROVE  Distinct(messages[r])
        BY DEF ShownOnce, Distinct
    <2>1. CASE Unregistered(r)
        <3>1. messages[r] = <<>>
            BY <2>1, ChatFacts DEF ListsInv
        <3> QED
            BY <3>1 DEF Distinct
    <2>2. CASE ~Unregistered(r)
        BY <2>2, ChatFacts DEF Unregistered, ListsInv, ListOf
    <2> QED
        BY <2>1, <2>2
<1> QED
    BY <1>1, ChatInvAlways, PTL

\* Where nothing is refused, a screen lists, or is about to, exactly what its
\* view shows.
THEOREM ListsAreViews == ChatSpec => []ListIsView
<1>1. ChatInv => ListIsView
    <2> SUFFICES ASSUME ChatInv, ~MayReject, NEW c \in Clients, NEW l \in Locations,
                        NEW r \in registrations[c][l]
                 PROVE  ToSet(messages[r]) \cup
                        {mainQueue[c][i].key :
                             i \in {j \in DOMAIN mainQueue[c] : r \in mainQueue[c][j].to}}
                            = eventCache[c] \cap KeysAt(l)
        BY DEF ListIsView
    <2>1. ListOf(c, l, r)
        BY ChatFacts DEF ListsInv
    <2>2. \A k : ~Gone(k)
        BY DEF Gone
    <2>3. ListedBy(c, r) = eventCache[c] \cap KeysAt(l)
        BY <2>1, <2>2 DEF ListOf
    <2> QED
        BY <2>3 DEF ListedBy, OnItsWay, ForScreen
<1> QED
    BY <1>1, ChatInvAlways, PTL

\* Once nothing is on its way to a screen, its player has the video of the
\* last message listed.
THEOREM PlayersFollowLists == ChatSpec => []PlaysLastVideo
<1>1. ChatInv => PlaysLastVideo
    <2> SUFFICES ASSUME ChatInv, NEW c \in Clients, NEW r \in screens[c], calls[c] = <<>>,
                        \A i \in DOMAIN mainQueue[c] : r \notin mainQueue[c][i].to
                 PROVE  PlaysLast(r)
        BY DEF PlaysLastVideo, PlaysLast
    <2>1. OnItsWay(mainQueue[c], r) = {}
        BY DEF OnItsWay, ForScreen
    <2>2. ToSet(calls[c]) = {}
        BY SingletonElements
    <2>3. selectedUser[r] \in Clients
        BY ChatFacts DEF ChatTypeOK
    <2>4. ScreenRoom(c, r) \in Locations
        BY <2>3, RoomsAreLocations DEF ScreenRoom
    <2>5. VideoOf(c, ScreenRoom(c, r), r)
        BY <2>4, ChatFacts DEF VideosInv
    <2> QED
        BY <2>1, <2>2, <2>5 DEF VideoOf, ToWrite
<1> QED
    BY <1>1, ChatInvAlways, PTL

-----------------------------------------------------------------------------
(* Chat implements ChatFeed.                                                *)

\* The rooms of the feed's screen r.
FeedRoom(r) == {RoomOf(c, selectedUser[r]) : c \in {d \in Clients : r \in screens[d]}}

\* A screen that is made has the room it observes, and no other has one.
LEMMA FeedRooms ==
    ASSUME OneProcess
    PROVE  /\ \A c \in Clients : \A r \in screens[c] : FeedRoom(r) = {ScreenRoom(c, r)}
           /\ \A r : (\A c \in Clients : r \notin screens[c]) => FeedRoom(r) = {}
<1>1. ASSUME NEW c \in Clients, NEW r \in screens[c]
      PROVE  FeedRoom(r) = {ScreenRoom(c, r)}
    <2>1. {d \in Clients : r \in screens[d]} = {c}
        BY DEF OneProcess
    <2> QED
        BY <2>1 DEF FeedRoom, ScreenRoom
<1>2. ASSUME NEW r, \A c \in Clients : r \notin screens[c]
      PROVE  FeedRoom(r) = {}
    BY <1>2 DEF FeedRoom
<1> QED
    BY <1>1, <1>2

\* The feed's variables.
LEMMA FeedVars ==
    UNCHANGED <<written, db, screens, selectedUser, messages>> => UNCHANGED Feed!feedVars
BY DEF Feed!feedVars, RoomOf

\* A chat opens a screen of its room.
LEMMA FeedOpens ==
    ASSUME ChatInv, NEW c \in Clients, NEW r \in Observers, NEW p \in Clients, Open(c, r, p)
    PROVE  Feed!OpenScreen(r, RoomOf(c, p))
<1>0. ChatTypeOK /\ OneProcess
    BY ChatFacts
<1>1. /\ \A d \in Clients : r \notin screens[d]
      /\ \A d \in Clients : screens'[d] = (IF d = c THEN screens[c] \cup {r} ELSE screens[d])
      /\ \A q \in Observers : selectedUser'[q] = (IF q = r THEN p ELSE selectedUser[q])
      /\ UNCHANGED <<written, db, messages>>
    BY <1>0 DEF Open, ChatTypeOK, dbVars, serverVars, histVars
<1>2. FeedRoom(r) = {}
    BY <1>0, <1>1, FeedRooms
<1>3. FeedRoom(r)' = {RoomOf(c, p)}
    <2>1. {d \in Clients : r \in screens'[d]} = {c}
        BY <1>1
    <2> QED
        BY <1>1, <2>1 DEF FeedRoom, RoomOf
<1>4. ASSUME NEW q \in Observers \ {r}
      PROVE  FeedRoom(q)' = FeedRoom(q)
    <2>1. {d \in Clients : q \in screens'[d]} = {d \in Clients : q \in screens[d]}
        BY <1>1
    <2> QED
        BY <1>1, <2>1 DEF FeedRoom, RoomOf
<1>5. [q \in Observers |-> FeedRoom(q)'] =
          [[q \in Observers |-> FeedRoom(q)] EXCEPT ![r] = {RoomOf(c, p)}]
    BY <1>3, <1>4
<1> QED
    BY <1>1, <1>2, <1>5 DEF Feed!OpenScreen, FeedRoom

\* A process that dies closes its screens together.
LEMMA FeedCloses ==
    ASSUME ChatInv, NEW c \in Clients, Die(c), NEW S, S = screens[c]
    PROVE  Feed!CloseScreens(S)
<1>0. ChatTypeOK /\ OneProcess
    BY ChatFacts
<1>1. /\ \A d \in Clients : screens'[d] = (IF d = c THEN {} ELSE screens[d])
      /\ selectedUser' = selectedUser
      /\ messages' = [r \in Observers |-> IF r \in S THEN <<>> ELSE messages[r]]
      /\ UNCHANGED <<written, db>>
    BY <1>0 DEF Die, Kill, ChatTypeOK
<1>2. S \subseteq Observers /\ \A r \in S : FeedRoom(r) # {}
    <2>1. \A r \in S : FeedRoom(r) = {ScreenRoom(c, r)}
        BY <1>0, FeedRooms
    <2>2. \A x : {x} # {}
        OBVIOUS
    <2> QED
        BY <1>0, <2>1, <2>2 DEF ChatTypeOK
<1>3. ASSUME NEW r \in Observers
      PROVE  FeedRoom(r)' = IF r \in S THEN {} ELSE FeedRoom(r)
    <2>1. CASE r \in S
        <3>1. {d \in Clients : r \in screens'[d]} = {}
            BY <1>0, <1>1, <2>1 DEF OneProcess
        <3> QED
            BY <2>1, <3>1 DEF FeedRoom
    <2>2. CASE r \notin S
        <3>1. {d \in Clients : r \in screens'[d]} = {d \in Clients : r \in screens[d]}
            BY <1>1, <2>2
        <3> QED
            BY <1>1, <2>2, <3>1 DEF FeedRoom, RoomOf
    <2> QED
        BY <2>1, <2>2
<1>4. [r \in Observers |-> FeedRoom(r)'] =
          [r \in Observers |-> IF r \in S THEN {} ELSE FeedRoom(r)]
    BY <1>3
<1>5. \A r \in S : [q \in Observers |-> FeedRoom(q)][r] # {}
    BY <1>2
<1>6. [r \in Observers |-> IF r \in S THEN {} ELSE FeedRoom(r)] =
          [r \in Observers |-> IF r \in S THEN {} ELSE [q \in Observers |-> FeedRoom(q)][r]]
    OBVIOUS
<1> QED
    BY <1>1, <1>4, <1>5, <1>6 DEF Feed!CloseScreens, FeedRoom

\* An event for some screens shows its message there.
LEMMA FeedShows ==
    ASSUME ChatInv, NEW c \in Clients, ChildAdded(c), NEW e, e = Head(mainQueue[c]), e.to # {}
    PROVE  Feed!Show(e.key, e.to) /\ e.key \in Keys /\ e.to \in SUBSET Observers
<1>0. TypeOK /\ ChatTypeOK /\ OneProcess /\ ListsInv /\ CachesAgree
    BY ChatFacts
<1>1. /\ UNCHANGED <<written, db, screens, selectedUser>>
      /\ messages' = [r \in Observers |->
             IF r \in e.to THEN Append(messages[r], e.key) ELSE messages[r]]
    BY DEF ChildAdded, Dispatch, serverVars, histVars
<1>2. /\ e \in Events
      /\ \A r : OnItsWay(mainQueue[c], r) = OnItsWay(mainQueue'[c], r)
                                            \cup (IF r \in e.to THEN {e.key} ELSE {})
    BY <1>0, DispatchedToScreens DEF ChildAdded
<1>3. /\ e.key \in Keys /\ LocationOf[e.key] \in Locations /\ e.to \in SUBSET Observers
      /\ \A r \in e.to : /\ r \in registrations[c][LocationOf[e.key]]
                         /\ r \in screens[c] /\ LocationOf[e.key] = ScreenRoom(c, r)
    BY <1>2, EventForScreens, LocationAssumption DEF Events
<1>4. ASSUME NEW r \in e.to
      PROVE  /\ e.key \notin ToSet(messages[r]) /\ e.key \in written
             /\ FeedRoom(r) = {LocationOf[e.key]}
    <2>1. ListOf(c, LocationOf[e.key], r) /\ e.key \in OnItsWay(mainQueue[c], r)
        BY <1>0, <1>2, <1>3 DEF ListsInv
    <2>2. e.key \in eventCache[c] \/ Gone(e.key)
        BY <2>1 DEF ListOf, ListedBy
    <2>3. e.key \in written
        BY <1>0, <2>2 DEF CachesAgree, Gone
    <2>4. e.key \notin ToSet(messages[r])
        BY <2>1 DEF ListOf
    <2> QED
        BY <1>0, <1>3, <2>3, <2>4, FeedRooms
<1>5. e.key \in written
    BY <1>4
<1>6. \A r \in e.to : /\ [q \in Observers |-> FeedRoom(q)][r] = {LocationOf[e.key]}
                      /\ \A i \in DOMAIN messages[r] : messages[r][i] # e.key
    BY <1>3, <1>4 DEF ToSet
<1>7. [q \in Observers |-> FeedRoom(q)'] = [q \in Observers |-> FeedRoom(q)]
    BY <1>1 DEF FeedRoom, RoomOf
<1> QED
    BY <1>1, <1>3, <1>5, <1>6, <1>7 DEF Feed!Show, FeedRoom

\* Every step of the chat is a step of the feed, or one the feed does not see.
LEMMA FeedSteps == ChatInv /\ [ChatNext]_vars => [Feed!FeedNext]_Feed!feedVars
<1> SUFFICES ASSUME ChatInv, ChatNext
             PROVE  Feed!FeedNext \/ UNCHANGED Feed!feedVars
    BY FeedVars DEF vars, dbVars, chatVars, serverVars, histVars
<1>1. PICK c \in Clients : ChatStep(c)
    BY StepsOfChats
<1>2. ASSUME NEW r \in Observers, NEW p \in Clients, Open(c, r, p)
      PROVE  Feed!FeedNext
    BY <1>2, FeedOpens, RoomsAreLocations DEF Feed!FeedNext
<1>3. CASE Die(c)
    <2>1. PICK S \in SUBSET Observers : S = screens[c]
        BY ChatFacts DEF ChatTypeOK
    <2>2. Feed!CloseScreens(S)
        BY <1>3, <2>1, FeedCloses
    <2> QED
        BY <2>2 DEF Feed!FeedNext
<1>4. CASE ChildAdded(c)
    <2>1. PICK e : e = Head(mainQueue[c])
        OBVIOUS
    <2>2. CASE e.to # {}
        BY <1>4, <2>1, <2>2, FeedShows DEF Feed!FeedNext
    <2>3. CASE e.to = {}
        <3>1. messages' = [r \in Observers |-> messages[r]]
            BY <1>4, <2>1, <2>3 DEF ChildAdded
        <3>2. messages' = messages
            BY <3>1, ChatFacts DEF ChatTypeOK
        <3> QED
            BY <1>4, <3>2, FeedVars DEF ChildAdded, Dispatch, serverVars, histVars
    <2> QED
        BY <2>2, <2>3
<1>5. CASE RunSetValue(c)
    <2>1. PICK k \in Keys : Called(c, SetCall(k)) /\ SetValue(c, k)
        BY <1>5 DEF RunSetValue
    <2>2. /\ UNCHANGED <<db, screens, selectedUser, messages>>
          /\ k \notin written /\ written' = written \cup {k}
        BY <2>1 DEF Called, SetValue, serverVars
    <2>3. Feed!SendMessage(k)
        BY <2>2 DEF Feed!SendMessage, RoomOf
    <2> QED
        BY <2>3 DEF Feed!FeedNext
<1>6. CASE Serve(c) /\ UNCHANGED chatVars
    <2>1. UNCHANGED <<written, screens, selectedUser, messages>>
        BY <1>6 DEF Serve, ServeAuth, ServeListen, ServePut, ServePutRefused, histVars, chatVars
    <2>2. CASE db' = db
        BY <2>1, <2>2, FeedVars
    <2>3. CASE db' # db
        <3>1. PICK k \in Keys : db' = db \cup {k} /\ k \in pendingWrites[c]
            BY <1>6, <2>3, DataGrowsByPuts, ChatFacts DEF Serve, ClientStep
        <3>2. k \in written \ db
            BY <2>3, <3>1, ChatFacts DEF CachesAgree, PendingAreWritten
        <3>3. Feed!SaveMessage(k)
            BY <2>1, <3>1, <3>2 DEF Feed!SaveMessage, RoomOf
        <3> QED
            BY <3>3 DEF Feed!FeedNext
    <2> QED
        BY <2>2, <2>3
<1>7. CASE \/ GoBack(c)
           \/ \E r \in Observers, k \in Keys : PressSend(c, r, k)
           \/ \E r \in Observers, k \in Keys : VideoFound(c, r, k)
           \/ \E r \in Observers, k \in Keys : SearchFailed(c, r, k)
           \/ \E r \in Observers : PlayDefault(c, r)
    BY <1>7, FeedVars DEF GoBack, PressSend, VideoFound, SearchFailed, PlayDefault, dbVars, serverVars,
                          histVars
<1>8. CASE RunObserve(c)
    BY <1>8, FeedVars DEF RunObserve, Called, Observe, ObserveNew, ObserveExisting, serverVars, histVars
<1>9. CASE OnReady(c) /\ UNCHANGED chatVars
    BY <1>9, FeedVars DEF OnReady, OnReadyUnauthenticated, OnReadyWithToken, serverVars, histVars, chatVars
<1>10. CASE OnDisconnect(c) /\ UNCHANGED chatVars
    BY <1>10, FeedVars DEF OnDisconnect, chatVars
<1>11. CASE Receive(c) /\ UNCHANGED chatVars
    BY <1>11, FeedVars DEF Receive, ReceiveAuthOk, ReceiveSnapshot, ReceiveChild, ReceiveListenOk,
                           ReceivePutAck, serverVars, histVars, chatVars
<1> QED
    BY <1>1, <1>2, <1>3, <1>4, <1>5, <1>6, <1>7, <1>8, <1>9, <1>10, <1>11 DEF ChatStep

\* The chat keeps the promise of ChatFeed: a screen of one room lists messages
\* that were sent to it, none twice and none ever taken back, over echoes,
\* pushes, responses, reconnects and second registrations.
THEOREM ChatKeepsThePromise == ChatSpec => ImplementsFeed
<1>1. ChatInit => Feed!FeedInit
    BY DEF ChatInit, Init, Feed!FeedInit
<1> QED
    BY <1>1, FeedSteps, ChatInvAlways, PTL DEF ChatSpec, ImplementsFeed, Feed!FeedSpec
=============================================================================
