------------------------------- MODULE MCChat -------------------------------
(* Instances of Chat for TLC: a user is a model value with a name over an  *)
(* alphabet of a few letters.                                              *)
EXTENDS Chat, TLC

CONSTANTS ann, bob

\* Two users, "a" and "b".
TwoNames == [c \in Clients |-> IF c = ann THEN <<1>> ELSE <<2>>]

\* Every room two users, or a user alone, may meet in.
AllRooms == {R!Room(TwoNames[a], TwoNames[b]) : a, b \in Clients}

\* All messages go to the room of "a" and "b".
InSharedRoom == [k \in Keys |-> <<1, 2>>]

\* All messages go to the room "a" has with herself.
InOwnRoom == [k \in Keys |-> <<1, 1>>]

\* Bound of a run: nobody opens the chat with oneself.
NoSelfChat == \A c \in Clients : \A r \in screens[c] : selectedUser[r] # c

ScreenSymmetry == Permutations(Observers)
=============================================================================
