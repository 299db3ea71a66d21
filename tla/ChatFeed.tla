------------------------------ MODULE ChatFeed ------------------------------
(***************************************************************************)
(* What a chat promises, without a connection, caches or queues.  Messages *)
(* are sent to a room and saved; a chat screen belongs to one room and     *)
(* lists messages that were sent to it, in any order, none twice and none  *)
(* ever taken back, until its process dies.                                *)
(***************************************************************************)
EXTENDS Sequences

CONSTANTS
    Rooms, Messages, Screens,
    RoomFor          \* [Messages -> Rooms]

VARIABLES
    sent, saved,     \* messages
    room,            \* per screen: {} while closed, {its room} while open
    shown            \* per screen, the messages it lists

feedVars == <<sent, saved, room, shown>>

FeedInit ==
    /\ sent = {}
    /\ saved = {}
    /\ room = [s \in Screens |-> {}]
    /\ shown = [s \in Screens |-> <<>>]

OpenScreen(s, l) ==
    /\ room[s] = {}
    /\ room' = [room EXCEPT ![s] = {l}]
    /\ UNCHANGED <<sent, saved, shown>>

SendMessage(m) ==
    /\ m \notin sent
    /\ sent' = sent \cup {m}
    /\ UNCHANGED <<saved, room, shown>>

SaveMessage(m) ==
    /\ m \in sent \ saved
    /\ saved' = saved \cup {m}
    /\ UNCHANGED <<sent, room, shown>>

\* A message appears on open screens of its room that do not list it yet.
Show(m, S) ==
    /\ m \in sent
    /\ \A s \in S : room[s] = {RoomFor[m]} /\ \A i \in DOMAIN shown[s] : shown[s][i] # m
    /\ shown' = [s \in Screens |-> IF s \in S THEN Append(shown[s], m) ELSE shown[s]]
    /\ UNCHANGED <<sent, saved, room>>

\* The screens of a process close together.
CloseScreens(S) ==
    /\ \A s \in S : room[s] # {}
    /\ room' = [s \in Screens |-> IF s \in S THEN {} ELSE room[s]]
    /\ shown' = [s \in Screens |-> IF s \in S THEN <<>> ELSE shown[s]]
    /\ UNCHANGED <<sent, saved>>

FeedNext ==
    \/ \E s \in Screens, l \in Rooms : OpenScreen(s, l)
    \/ \E m \in Messages : SendMessage(m) \/ SaveMessage(m)
    \/ \E m \in Messages, S \in SUBSET Screens : Show(m, S)
    \/ \E S \in SUBSET Screens : CloseScreens(S)

FeedSpec == FeedInit /\ [][FeedNext]_feedVars
=============================================================================
