-------------------------------- MODULE Chat --------------------------------
(***************************************************************************)
(* ChatViewController on top of RealtimeDb.  A screen is a controller: it  *)
(* observes its room from viewDidLoad on, for as long as the process lives *)
(* (the observer is never removed and its block holds the controller), so  *)
(* a chat that was left and opened again is two screens that both get      *)
(* every event.                                                            *)
(*                                                                         *)
(* The main thread runs PressSend, the completion of the video search, and *)
(* the block of an event; what it asks of the database (observe, setValue) *)
(* is a block of the database's dispatch queue, which runs later.          *)
(***************************************************************************)
EXTENDS RealtimeDb

CONSTANT NameOf    \* [Clients -> Name], the name in the user's profile

R == INSTANCE Rooms

ASSUME NameAssumption ==
    /\ NameOf \in [Clients -> R!Name]
    /\ \A a, b \in Clients : R!Room(NameOf[a], NameOf[b]) \in Locations

VARIABLES
    visible,        \* per client, the chat screen in front ({} or one)
    screens,        \* per client, the chat screens its process has made
    selectedUser,   \* per screen
    messages,       \* per screen, the keys of the messages listed
    videoID,        \* per screen
    pressed,        \* per client, keys taken by Send presses
    requests,       \* video searches in flight: <<client, screen, key>>
    calls           \* per client, calls waiting on the dispatch queue

chatVars == <<visible, screens, selectedUser, messages, videoID, pressed,
              requests, calls>>
vars     == <<dbVars, chatVars>>

NoVideo      == <<"">>
DefaultVideo == <<"IYnsfV5N2n8">>
Video(k)     == <<"vid", k>>
Videos       == {NoVideo, DefaultVideo} \cup {Video(k) : k \in Keys}

RoomOf(c, p) == R!Room(NameOf[c], NameOf[p])

ObserveCall(r, l) == [call |-> "observe", screen |-> r, loc |-> l]
SetCall(k)        == [call |-> "setValue", key |-> k]

\* Mutant: every message is the selected user's.
ShownAsOther(c, r, a) == selectedUser[r]

\* Whom screen r of client c names as the sender of a message by author a.
ShownSender(c, r, a) ==
    IF NameOf[a] = NameOf[c] THEN c ELSE selectedUser[r]

ChatInit ==
    /\ Init
    /\ visible = [c \in Clients |-> {}]
    /\ screens = [c \in Clients |-> {}]
    /\ selectedUser = [r \in Observers |-> CHOOSE c \in Clients : TRUE]
    /\ messages = [r \in Observers |-> <<>>]
    /\ videoID = [r \in Observers |-> NoVideo]
    /\ pressed = [c \in Clients |-> {}]
    /\ requests = {}
    /\ calls = [c \in Clients |-> <<>>]

-----------------------------------------------------------------------------
\* A row of the user list is selected; the list has every user, oneself too.
Open(c, r, p) ==
    /\ visible[c] = {}
    /\ \A d \in Clients : r \notin screens[d]
    /\ visible' = [visible EXCEPT ![c] = {r}]
    /\ screens' = [screens EXCEPT ![c] = @ \cup {r}]
    /\ selectedUser' = [selectedUser EXCEPT ![r] = p]
    /\ calls' = [calls EXCEPT ![c] = Append(@, ObserveCall(r, RoomOf(c, p)))]
    /\ UNCHANGED <<dbVars, messages, videoID, pressed, requests>>

GoBack(c) ==
    /\ visible[c] # {}
    /\ visible' = [visible EXCEPT ![c] = {}]
    /\ UNCHANGED <<dbVars, screens, selectedUser, messages, videoID, pressed,
                   requests, calls>>

\* Send: the message's key is taken now, later than any the process took
\* before; the search for its video starts.
PressSend(c, r, k) ==
    /\ r \in visible[c]
    /\ LocationOf[k] = RoomOf(c, selectedUser[r])
    /\ \A d \in Clients : k \notin pressed[d]
    /\ \A j \in pressed[c] : j < k
    /\ pressed' = [pressed EXCEPT ![c] = @ \cup {k}]
    /\ requests' = requests \cup {<<c, r, k>>}
    /\ UNCHANGED <<dbVars, visible, screens, selectedUser, messages, videoID, calls>>

\* The search answers with a video: only now the message is written.
VideoFound(c, r, k) ==
    /\ <<c, r, k>> \in requests
    /\ requests' = requests \ {<<c, r, k>>}
    /\ videoID' = [videoID EXCEPT ![r] = Video(k)]
    /\ calls' = [calls EXCEPT ![c] = Append(@, SetCall(k))]
    /\ UNCHANGED <<dbVars, visible, screens, selectedUser, messages, pressed>>

\* The search fails, or its answer has no items: nothing is done.
SearchFailed(c, r, k) ==
    /\ <<c, r, k>> \in requests
    /\ requests' = requests \ {<<c, r, k>>}
    /\ UNCHANGED <<dbVars, visible, screens, selectedUser, messages, videoID,
                   pressed, calls>>

SearchAnswered(c) ==
    \E r \in Observers, k \in Keys : VideoFound(c, r, k) \/ SearchFailed(c, r, k)

\* The dispatch queue runs the next call of the app.
Called(c, x) ==
    /\ calls[c] # <<>>
    /\ Head(calls[c]) = x
    /\ calls' = [calls EXCEPT ![c] = Tail(@)]
    /\ UNCHANGED <<visible, screens, selectedUser, messages, videoID, pressed, requests>>

RunObserve(c) ==
    \E r \in Observers, l \in Locations :
        Called(c, ObserveCall(r, l)) /\ Observe(c, r, l)

RunSetValue(c) == \E k \in Keys : Called(c, SetCall(k)) /\ SetValue(c, k)

RunCall(c) == RunObserve(c) \/ RunSetValue(c)

\* Mutant: only the first message changes the video.
ChildAddedFirst(c) ==
    /\ Dispatch(c)
    /\ LET e == Head(mainQueue[c])
       IN  /\ messages' = [r \in Observers |->
                 IF r \in e.to THEN Append(messages[r], e.key) ELSE messages[r]]
           /\ videoID' = [r \in Observers |->
                 IF r \in e.to /\ messages[r] = <<>> THEN Video(e.key) ELSE videoID[r]]
    /\ UNCHANGED <<visible, screens, selectedUser, pressed, requests, calls>>

\* The block of childAdded, on every screen the event is for.
ChildAdded(c) ==
    /\ Dispatch(c)
    /\ LET e == Head(mainQueue[c])
       IN  /\ messages' = [r \in Observers |->
                 IF r \in e.to THEN Append(messages[r], e.key) ELSE messages[r]]
           /\ videoID' = [r \in Observers |->
                 IF r \in e.to THEN Video(e.key) ELSE videoID[r]]
    /\ UNCHANGED <<visible, screens, selectedUser, pressed, requests, calls>>

\* The player is opened before any video is known.
PlayDefault(c, r) ==
    /\ r \in visible[c]
    /\ videoID[r] = NoVideo
    /\ videoID' = [videoID EXCEPT ![r] = DefaultVideo]
    /\ UNCHANGED <<dbVars, visible, screens, selectedUser, messages, pressed,
                   requests, calls>>

\* The process dies, by the user, the system, or a trap (a search answer with
\* an empty list of items ends in items[0]).
Die(c) ==
    /\ Kill(c)
    /\ visible' = [visible EXCEPT ![c] = {}]
    /\ screens' = [screens EXCEPT ![c] = {}]
    /\ messages' = [r \in Observers |->
                       IF r \in screens[c] THEN <<>> ELSE messages[r]]
    /\ videoID' = [r \in Observers |->
                       IF r \in screens[c] THEN NoVideo ELSE videoID[r]]
    /\ requests' = {q \in requests : q[1] # c}
    /\ calls' = [calls EXCEPT ![c] = <<>>]
    /\ UNCHANGED <<selectedUser, pressed>>

ChatNext ==
    \E c \in Clients :
        \/ \E r \in Observers, p \in Clients : Open(c, r, p)
        \/ GoBack(c)
        \/ \E r \in Observers, k \in Keys : PressSend(c, r, k)
        \/ \E r \in Observers, k \in Keys : VideoFound(c, r, k)
        \/ \E r \in Observers, k \in Keys : SearchFailed(c, r, k)
        \/ RunObserve(c)
        \/ RunSetValue(c)
        \/ ChildAdded(c)
        \/ \E r \in Observers : PlayDefault(c, r)
        \/ Die(c)
        \/ OnReady(c) /\ UNCHANGED chatVars
        \/ OnDisconnect(c) /\ UNCHANGED chatVars
        \/ Receive(c) /\ UNCHANGED chatVars
        \/ Serve(c) /\ UNCHANGED chatVars

\* The main queue and the dispatch queue are served, a lost connection is
\* retried, the server answers, and a search ends (URLSession's time-out).
ChatFairness ==
    \A c \in Clients :
        /\ WF_vars(RunCall(c))
        /\ WF_vars(ChildAdded(c))
        /\ WF_vars(SearchAnswered(c))
        /\ WF_vars(OnReady(c) /\ UNCHANGED chatVars)
        /\ WF_vars(Receive(c) /\ UNCHANGED chatVars)
        /\ WF_vars(Serve(c) /\ UNCHANGED chatVars)

ChatSpec     == ChatInit /\ [][ChatNext]_vars
FairChatSpec == ChatSpec /\ ChatFairness

-----------------------------------------------------------------------------
(* Properties.                                                             *)

\* A screen never lists a message twice.  ChildAdded appends whatever it is
\* given and nothing on the screen compares keys, so this rests on the client
\* raising childAdded once per child: over the local echo of a write, its
\* push, its response, a reload after a reconnect, and a second registration.
ShownOnce ==
    \A r \in Observers : \A i, j \in DOMAIN messages[r] :
        messages[r][i] = messages[r][j] => i = j

\* The list and the view never drift apart: what a screen lists, and what is
\* on its way to it, is what its view shows.
ListIsView ==
    ~MayReject =>
    \A c \in Clients, l \in Locations : \A r \in registrations[c][l] :
        ToSet(messages[r]) \cup
        {mainQueue[c][i].key : i \in {j \in DOMAIN mainQueue[c] : r \in mainQueue[c][j].to}}
            = eventCache[c] \cap KeysAt(l)

\* Once nothing is on its way to a screen, the player plays the video of the
\* last message listed, although the completion of a search and the block of
\* an event both assign videoID, in any order.
PlaysLastVideo ==
    \A c \in Clients : \A r \in screens[c] :
        /\ calls[c] = <<>>
        /\ \A i \in DOMAIN mainQueue[c] : r \notin mainQueue[c][i].to
        => IF messages[r] = <<>> THEN videoID[r] \in {NoVideo, DefaultVideo}
                                 ELSE videoID[r] = Video(Last(messages[r]))

\* A message is shown under the user who wrote it, though a screen only
\* compares the name in the message with its own member's name.
ShownUnderItsAuthor ==
    \A c \in Clients : \A r \in screens[c] : \A i \in DOMAIN messages[r] :
        \A a \in Clients :
            messages[r][i] \in pressed[a] => ShownSender(c, r, a) = a

\* The chat keeps the promise of ChatFeed.
Feed == INSTANCE ChatFeed WITH
    Rooms    <- Locations,
    Messages <- Keys,
    Screens  <- Observers,
    RoomFor  <- LocationOf,
    sent     <- written,
    saved    <- db,
    room     <- [r \in Observers |->
                    {RoomOf(c, selectedUser[r]) : c \in {d \in Clients : r \in screens[d]}}],
    shown    <- messages

ImplementsFeed == Feed!FeedSpec

\* A saved message is listed in the end on every screen of its room (or the
\* process of the screen dies).
SavedIsShown ==
    \A c \in Clients, r \in Observers, k \in Keys :
        k \in db /\ r \in registrations[c][LocationOf[k]]
        ~> k \in ToSet(messages[r]) \/ r \notin screens[c]

\* The list is in the order of the push ids, as the comment on childByAutoId
\* promises ("the resulting list will be chronologically-sorted") and the
\* query asks for (queryOrderedByKey).
ListIsChronological ==
    \A r \in Observers : \A i, j \in DOMAIN messages[r] :
        i < j => messages[r][i] < messages[r][j]
=============================================================================
