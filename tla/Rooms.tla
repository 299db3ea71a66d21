------------------------------- MODULE Rooms -------------------------------
(***************************************************************************)
(* How ChatViewController names the room of a conversation: the two names  *)
(* are put in order and concatenated.  A name is a sequence of numbers     *)
(* (Unicode scalars), ordered as Swift orders strings.                     *)
(***************************************************************************)
EXTENDS Naturals, Sequences

Name == Seq(Nat)

\* String.<: at the first place where they differ, a ends or has the smaller
\* scalar.
Less(a, b) ==
    \E i \in 1..Len(b) :
        /\ \A j \in 1..(i - 1) : j \in DOMAIN a /\ a[j] = b[j]
        /\ i \in DOMAIN a => a[i] < b[i]

\* The child of "chats" that a member and the user it selected meet in.
Room(member, selectedUser) ==
    IF Less(member, selectedUser) THEN member \o selectedUser
                                  ELSE selectedUser \o member
=============================================================================
