------------------------------ MODULE Account ------------------------------
(***************************************************************************)
(* Sign-up and sign-in: RegistrationViewController and the sign-in of      *)
(* LoginViewController on FIRAuth.  The Register button asks the server at *)
(* once to create an account and to sign in to it; when the sign-in is     *)
(* answered, with or without an error, the profile of whoever is signed in *)
(* then is written, field by field.                                        *)
(*                                                                         *)
(* An account is its email (the server gives each its own uid), and so are *)
(* the other texts: a password is named after the email it was entered     *)
(* with, a name after the person it names.  The database is used for what  *)
(* RealtimeDb shows of it: the writes of a process are stored in the order *)
(* they were made, unless it dies; no rule refuses them.                   *)
(***************************************************************************)
EXTENDS Naturals, Sequences

CONSTANTS
    Devices, Emails,
    NoUser,          \* nobody is signed in; an empty text
    MayFail,         \* TRUE: a request may fail (network, wrong or weak password)
    MaxPresses,      \* bound: presses of Register and Login
    MaxKills         \* bound: how often a process dies

ASSUME NoUserAssumption == NoUser \notin Emails
ASSUME FailAssumption   == MayFail \in BOOLEAN
ASSUME PressAssumption  == MaxPresses \in Nat /\ MaxKills \in Nat

VARIABLES
    currentUser,     \* per device, FIRAuth._currentUser (kept in the keychain)
    requests,        \* per device, requests to the auth server
    username,        \* per device, the name field of the register screen
    callbacks,       \* per device, sign-ins of Register whose block waits on the main queue
    writes,          \* per device, the setValues on their way to the database
    accounts,        \* the auth server's accounts
    profile,         \* users/<uid> in the database: the fields written, as a function
    presses, kills

vars == <<currentUser, requests, username, callbacks, writes, accounts, profile, presses, kills>>

Fields == {"name", "password", "email", "uid"}

\* noInfo: the account was created, but the request for its data failed.
Answers == {"ok", "error", "noInfo"}

Request(i, c, e, s) == [press |-> i, call |-> c, email |-> e, state |-> s]
Requests ==
    [press : 1..MaxPresses, call : {"createUser", "signIn", "login"},
     email : Emails, state : {"sent"} \cup Answers]

Texts          == Emails \cup {NoUser}
Write(u, f, t) == [uid |-> u, field |-> f, value |-> t]
Writes         == [uid : Emails, field : Fields, value : Texts]

\* Mutant: the uid goes first.
UidFirst(u, n, e) ==
    <<Write(u, "uid", u), Write(u, "name", n), Write(u, "password", e), Write(u, "email", e)>>

\* Mutant: a field is forgotten.
NoPassword(u, n, e) ==
    <<Write(u, "name", n), Write(u, "email", e), Write(u, "uid", u)>>

\* The profile of user u, from the email and password that went out with the
\* request and the name there is now.
ProfileWrites(u, n, e) ==
    <<Write(u, "name", n), Write(u, "password", e), Write(u, "email", e), Write(u, "uid", u)>>

Init ==
    /\ currentUser = [d \in Devices |-> NoUser]
    /\ requests = [d \in Devices |-> {}]
    /\ username = [d \in Devices |-> NoUser]
    /\ callbacks = [d \in Devices |-> <<>>]
    /\ writes = [d \in Devices |-> <<>>]
    /\ accounts = {}
    /\ profile = [u \in Emails |-> << >>]
    /\ presses = 0
    /\ kills = 0

-----------------------------------------------------------------------------
(* The screens.                                                            *)

\* A name is typed on the register screen, also while its request is under way.
TypeName(d, n) ==
    /\ username[d] # n
    /\ username' = [username EXCEPT ![d] = n]
    /\ UNCHANGED <<currentUser, requests, callbacks, writes, accounts, profile, presses, kills>>

\* Register: both requests go out; neither waits for the other.
PressRegister(d, e) ==
    /\ presses < MaxPresses
    /\ presses' = presses + 1
    /\ requests' = [requests EXCEPT ![d] = @ \cup
          {Request(presses', "createUser", e, "sent"), Request(presses', "signIn", e, "sent")}]
    /\ UNCHANGED <<currentUser, username, callbacks, writes, accounts, profile, kills>>

PressLogin(d, e) ==
    /\ presses < MaxPresses
    /\ presses' = presses + 1
    /\ requests' = [requests EXCEPT ![d] = @ \cup {Request(presses', "login", e, "sent")}]
    /\ UNCHANGED <<currentUser, username, callbacks, writes, accounts, profile, kills>>

\* The block of Register's sign-in.  It looks at who is signed in by now, not
\* at the error, and reads the name field now.
SignInDone(d) ==
    /\ callbacks[d] # <<>>
    /\ callbacks' = [callbacks EXCEPT ![d] = Tail(@)]
    /\ IF currentUser[d] = NoUser
       THEN UNCHANGED writes
       ELSE writes' = [writes EXCEPT ![d] =
              @ \o ProfileWrites(currentUser[d], username[d], Head(callbacks[d]))]
    /\ UNCHANGED <<currentUser, requests, username, accounts, profile, presses, kills>>

\* The list's back button.
SignOut(d) ==
    /\ currentUser[d] # NoUser
    /\ currentUser' = [currentUser EXCEPT ![d] = NoUser]
    /\ UNCHANGED <<requests, username, callbacks, writes, accounts, profile, presses, kills>>

-----------------------------------------------------------------------------
(* FIRAuth.                                                                *)

Answered(d, q) ==
    /\ q \in requests[d]
    /\ q.state \in Answers
    /\ requests' = [requests EXCEPT ![d] = @ \ {q}]
    /\ callbacks' = IF q.call = "signIn" THEN [callbacks EXCEPT ![d] = Append(@, q.email)]
                                         ELSE callbacks
    /\ UNCHANGED <<username, writes, accounts, profile, presses, kills>>

\* Mutant: the error is not looked at.
AnswerUnchecked(d, q) ==
    /\ Answered(d, q)
    /\ currentUser' = [currentUser EXCEPT ![d] = q.email]

\* An answer: the user of a successful one is the current user, and the
\* completion is dispatched to the main queue.  createUser does not look at the
\* error of the request for the account's data: nobody is the current user then.
Answer(d, q) ==
    /\ Answered(d, q)
    /\ \/ q.state = "ok" /\ currentUser' = [currentUser EXCEPT ![d] = q.email]
       \/ q.state = "noInfo" /\ currentUser' = [currentUser EXCEPT ![d] = NoUser]
       \/ q.state = "error" /\ UNCHANGED currentUser

\* The process dies; the keychain keeps who is signed in.
Die(d) ==
    /\ kills < MaxKills
    /\ kills' = kills + 1
    /\ requests' = [requests EXCEPT ![d] = {}]
    /\ username' = [username EXCEPT ![d] = NoUser]
    /\ callbacks' = [callbacks EXCEPT ![d] = <<>>]
    /\ writes' = [writes EXCEPT ![d] = <<>>]
    /\ UNCHANGED <<currentUser, accounts, profile, presses>>

-----------------------------------------------------------------------------
(* The servers.  The auth server serves requests in any order.             *)

Serve(d, q, s) ==
    /\ q \in requests[d]
    /\ q.state = "sent"
    /\ requests' = [requests EXCEPT ![d] = (@ \ {q}) \cup {[q EXCEPT !.state = s]}]
    /\ UNCHANGED <<currentUser, username, callbacks, writes, profile, presses, kills>>

\* An account is created unless the email has one.
ServeCreate(d, q) ==
    /\ q.call = "createUser"
    /\ Serve(d, q, IF q.email \in accounts THEN "error" ELSE "ok")
    /\ accounts' = accounts \cup {q.email}

\* An account is created, and the request for its data fails.
ServeCreateOnly(d, q) ==
    /\ MayFail
    /\ q.call = "createUser"
    /\ q.email \notin accounts
    /\ Serve(d, q, "noInfo")
    /\ accounts' = accounts \cup {q.email}

\* A sign-in needs an account.
ServeSignIn(d, q) ==
    /\ q.call \in {"signIn", "login"}
    /\ Serve(d, q, IF q.email \in accounts THEN "ok" ELSE "error")
    /\ UNCHANGED accounts

ServeFails(d, q) ==
    /\ MayFail
    /\ Serve(d, q, "error")
    /\ UNCHANGED accounts

\* The database stores the next write of a process.
Store(d) ==
    /\ writes[d] # <<>>
    /\ writes' = [writes EXCEPT ![d] = Tail(@)]
    /\ LET w == Head(writes[d])
       IN  profile' = [profile EXCEPT ![w.uid] =
              [f \in DOMAIN @ \cup {w.field} |-> IF f = w.field THEN w.value ELSE @[f]]]
    /\ UNCHANGED <<currentUser, requests, username, callbacks, accounts, presses, kills>>

Next ==
    \E d \in Devices :
        \/ \E n \in Emails : TypeName(d, n)
        \/ \E e \in Emails : PressRegister(d, e)
        \/ \E e \in Emails : PressLogin(d, e)
        \/ SignInDone(d)
        \/ SignOut(d)
        \/ \E q \in requests[d] : Answer(d, q)
        \/ Die(d)
        \/ \E q \in requests[d] : ServeCreate(d, q)
        \/ \E q \in requests[d] : ServeCreateOnly(d, q)
        \/ \E q \in requests[d] : ServeSignIn(d, q)
        \/ \E q \in requests[d] : ServeFails(d, q)
        \/ Store(d)

Spec == Init /\ [][Next]_vars

-----------------------------------------------------------------------------
(* Properties.                                                             *)

\* Every variable holds what its declaration says.
AccountTypeOK ==
    /\ currentUser \in [Devices -> Emails \cup {NoUser}]
    /\ requests \in [Devices -> SUBSET Requests]
    /\ username \in [Devices -> Texts]
    /\ callbacks \in [Devices -> Seq(Emails)]
    /\ writes \in [Devices -> Seq(Writes)]
    /\ accounts \subseteq Emails
    /\ profile \in [Emails -> UNION {[F -> Texts] : F \in SUBSET Fields}]
    /\ presses \in 0..MaxPresses
    /\ kills \in 0..MaxKills

\* Nobody is signed in without an account, and only users with an account get
\* a profile, whatever is pressed meanwhile, refused, or answered late: the
\* block of Register does not look at the error it is given.
ProfileNeedsAccount ==
    /\ \A d \in Devices : currentUser[d] # NoUser => currentUser[d] \in accounts
    /\ \A u \in Emails : DOMAIN profile[u] # {} => u \in accounts

\* A profile with a uid has every field, over processes that die between the
\* four writes: the list of users and a chat read the name and the uid.
UidComesLast ==
    \A u \in Emails : "uid" \in DOMAIN profile[u] => DOMAIN profile[u] = Fields

Quiet ==
    \A d \in Devices : requests[d] = {} /\ callbacks[d] = <<>> /\ writes[d] = <<>>

\* From one phone, a profile is never left half written, nor with the email of
\* one form and the password of another, though forms for different emails may
\* write to the same profile.  (Its name may be another form's: it is read when
\* the block runs.)
ProfilesAreWhole ==
    Quiet /\ kills = 0 =>
        \A u \in Emails : DOMAIN profile[u] # {} =>
            /\ DOMAIN profile[u] = Fields
            /\ profile[u]["password"] = profile[u]["email"]

\* Once nothing is under way, and if no process died and no request failed,
\* everybody who signed up has a profile: the README says that the app lets
\* users sign up and that the database saves the user profiles.
SignedUpHasProfile ==
    Quiet /\ kills = 0 => \A u \in accounts : DOMAIN profile[u] = Fields
=============================================================================
