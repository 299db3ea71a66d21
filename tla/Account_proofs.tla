--------------------------- MODULE Account_proofs ---------------------------
(* What TLAPS proves of Account, for every value of its constants. *)
EXTENDS Account, TLAPS, SequenceTheorems

-----------------------------------------------------------------------------
(* Lemmas about the writes of a profile.                                   *)

\* The block of Register writes a sequence of fields of one user.
LEMMA ProfileWritesType ==
    ASSUME NEW u \in Emails, NEW n \in Texts, NEW e \in Emails
    PROVE  ProfileWrites(u, n, e) \in Seq(Writes)
<1>1. \A f \in Fields, t \in Texts : Write(u, f, t) \in Writes
    BY DEF Write, Writes
<1>2. e \in Texts /\ {"name", "password", "email", "uid"} \subseteq Fields
    BY DEF Texts, Fields
<1> DEFINE w1 == Write(u, "name", n)
           w2 == Write(u, "password", e)
           w3 == Write(u, "email", e)
           w4 == Write(u, "uid", u)
<1>3. w1 \in Writes /\ w2 \in Writes /\ w3 \in Writes /\ w4 \in Writes
    BY <1>1, <1>2 DEF Texts
<1>4. ProfileWrites(u, n, e) = <<w1, w2, w3, w4>>
    BY DEF ProfileWrites
<1> HIDE DEF w1, w2, w3, w4
<1> QED
    BY <1>3, <1>4

\* A profile maps some of the fields to texts.
LEMMA ProfileType ==
    ASSUME NEW p
    PROVE  p \in UNION {[F -> Texts] : F \in SUBSET Fields}
           <=> DOMAIN p \subseteq Fields /\ p \in [DOMAIN p -> Texts]
  OBVIOUS

-----------------------------------------------------------------------------
(* Type correctness.                                                       *)

\* The initial state has the right types.
LEMMA AccountTypeInit == Init => AccountTypeOK
<1> SUFFICES ASSUME Init PROVE AccountTypeOK
    OBVIOUS
<1>1. << >> \in Seq(Emails) /\ << >> \in Seq(Writes)
    BY EmptySeq
<1>2. << >> \in UNION {[F -> Texts] : F \in SUBSET Fields}
    BY ProfileType
<1> QED
    <2>1. presses \in 0..MaxPresses /\ kills \in 0..MaxKills
        BY PressAssumption DEF Init
    <2>2. profile \in [Emails -> UNION {[F -> Texts] : F \in SUBSET Fields}]
        BY <1>2 DEF Init
    <2> QED
        BY <1>1, <2>1, <2>2 DEF Init, AccountTypeOK, Texts

\* Every action keeps the types.
LEMMA AccountTypeStep == AccountTypeOK /\ [Next]_vars => AccountTypeOK'
<1> SUFFICES ASSUME AccountTypeOK, [Next]_vars PROVE AccountTypeOK'
    OBVIOUS
<1> USE PressAssumption
<1>1. ASSUME NEW d \in Devices, NEW n \in Emails, TypeName(d, n)
      PROVE  AccountTypeOK'
    BY <1>1 DEF TypeName, AccountTypeOK, Texts
<1>2. ASSUME NEW d \in Devices, NEW e \in Emails, PressRegister(d, e)
      PROVE  AccountTypeOK'
  <2>1. presses' \in 1..MaxPresses /\ presses' \in 0..MaxPresses
      BY <1>2 DEF PressRegister, AccountTypeOK
  <2>2. /\ Request(presses', "createUser", e, "sent") \in Requests
        /\ Request(presses', "signIn", e, "sent") \in Requests
      BY <2>1 DEF Request, Requests
  <2> QED
      BY <1>2, <2>1, <2>2 DEF PressRegister, AccountTypeOK
<1>3. ASSUME NEW d \in Devices, NEW e \in Emails, PressLogin(d, e)
      PROVE  AccountTypeOK'
  <2>1. presses' \in 1..MaxPresses /\ presses' \in 0..MaxPresses
      BY <1>3 DEF PressLogin, AccountTypeOK
  <2>2. Request(presses', "login", e, "sent") \in Requests
      BY <2>1 DEF Request, Requests
  <2> QED
      BY <1>3, <2>1, <2>2 DEF PressLogin, AccountTypeOK
<1>4. ASSUME NEW d \in Devices, SignInDone(d)
      PROVE  AccountTypeOK'
  <2>1. callbacks[d] \in Seq(Emails) /\ callbacks[d] # <<>>
      BY <1>4 DEF SignInDone, AccountTypeOK
  <2>2. Head(callbacks[d]) \in Emails /\ Tail(callbacks[d]) \in Seq(Emails)
      BY <2>1
  <2>3. callbacks' \in [Devices -> Seq(Emails)]
      BY <1>4, <2>2 DEF SignInDone, AccountTypeOK
  <2>4. writes' \in [Devices -> Seq(Writes)]
    <3>1. CASE currentUser[d] = NoUser
        BY <1>4, <3>1 DEF SignInDone, AccountTypeOK
    <3>2. CASE currentUser[d] # NoUser
      <4>1. ProfileWrites(currentUser[d], username[d], Head(callbacks[d])) \in Seq(Writes)
          BY <2>2, <3>2, ProfileWritesType DEF AccountTypeOK
      <4>2. writes[d] \o ProfileWrites(currentUser[d], username[d], Head(callbacks[d]))
                \in Seq(Writes)
          BY <4>1, ConcatProperties DEF AccountTypeOK
      <4> QED
          BY <1>4, <3>2, <4>2 DEF SignInDone, AccountTypeOK
    <3> QED
        BY <3>1, <3>2
  <2> QED
      BY <1>4, <2>3, <2>4 DEF SignInDone, AccountTypeOK
<1>5. ASSUME NEW d \in Devices, SignOut(d)
      PROVE  AccountTypeOK'
    BY <1>5 DEF SignOut, AccountTypeOK
<1>6. ASSUME NEW d \in Devices, NEW q \in requests[d], Answer(d, q)
      PROVE  AccountTypeOK'
  <2>1. q \in Requests /\ q.email \in Emails
      BY DEF AccountTypeOK, Requests
  <2>2. Append(callbacks[d], q.email) \in Seq(Emails)
      BY <2>1, AppendProperties DEF AccountTypeOK
  <2>3. callbacks' \in [Devices -> Seq(Emails)]
      BY <1>6, <2>2 DEF Answer, Answered, AccountTypeOK
  <2>4. /\ currentUser' \in [Devices -> Emails \cup {NoUser}]
        /\ requests' \in [Devices -> SUBSET Requests]
      BY <1>6, <2>1 DEF Answer, Answered, AccountTypeOK
  <2> QED
      BY <1>6, <2>3, <2>4 DEF Answer, Answered, AccountTypeOK
<1>7. ASSUME NEW d \in Devices, Die(d)
      PROVE  AccountTypeOK'
  <2>1. << >> \in Seq(Emails) /\ << >> \in Seq(Writes)
      BY EmptySeq
  <2>2. kills' \in 0..MaxKills
      BY <1>7 DEF Die, AccountTypeOK
  <2> QED
      BY <1>7, <2>1, <2>2 DEF Die, AccountTypeOK, Texts
<1>8. ASSUME NEW d \in Devices, NEW q \in requests[d], NEW s \in Answers,
             Serve(d, q, s), accounts' \subseteq Emails
      PROVE  AccountTypeOK'
  <2>1. [q EXCEPT !.state = s] \in Requests
    <3>1. q \in Requests
        BY DEF AccountTypeOK
    <3> QED
        BY <3>1 DEF Requests
  <2> QED
      BY <1>8, <2>1 DEF Serve, AccountTypeOK
<1>9. ASSUME NEW d \in Devices, NEW q \in requests[d], ServeCreate(d, q)
      PROVE  AccountTypeOK'
  <2>1. q.email \in Emails
      BY DEF AccountTypeOK, Requests
  <2> QED
      BY <1>8, <1>9, <2>1 DEF ServeCreate, AccountTypeOK, Answers
<1>10. ASSUME NEW d \in Devices, NEW q \in requests[d], ServeCreateOnly(d, q)
      PROVE  AccountTypeOK'
  <2>1. q.email \in Emails
      BY DEF AccountTypeOK, Requests
  <2> QED
      BY <1>8, <1>10, <2>1 DEF ServeCreateOnly, AccountTypeOK, Answers
<1>11. ASSUME NEW d \in Devices, NEW q \in requests[d], ServeSignIn(d, q)
      PROVE  AccountTypeOK'
    BY <1>8, <1>11 DEF ServeSignIn, AccountTypeOK, Answers
<1>12. ASSUME NEW d \in Devices, NEW q \in requests[d], ServeFails(d, q)
      PROVE  AccountTypeOK'
    BY <1>8, <1>12 DEF ServeFails, AccountTypeOK, Answers
<1>13. ASSUME NEW d \in Devices, Store(d)
      PROVE  AccountTypeOK'
  <2> DEFINE w == Head(writes[d])
             p == [f \in DOMAIN profile[w.uid] \cup {w.field} |->
                      IF f = w.field THEN w.value ELSE profile[w.uid][f]]
  <2>1. writes[d] \in Seq(Writes) /\ writes[d] # <<>>
      BY <1>13 DEF Store, AccountTypeOK
  <2>2. w \in Writes /\ Tail(writes[d]) \in Seq(Writes)
      BY <2>1
  <2>3. w.uid \in Emails /\ w.field \in Fields /\ w.value \in Texts
      BY <2>2 DEF Writes
  <2>4. profile[w.uid] \in UNION {[F -> Texts] : F \in SUBSET Fields}
      BY <2>3 DEF AccountTypeOK
  <2>5. p \in [DOMAIN profile[w.uid] \cup {w.field} -> Texts]
      BY <2>3, <2>4, ProfileType
  <2>6. p \in UNION {[F -> Texts] : F \in SUBSET Fields}
      BY <2>3, <2>4, <2>5, ProfileType
  <2>7. profile' = [profile EXCEPT ![w.uid] = p]
      BY <1>13 DEF Store
  <2>8. profile' \in [Emails -> UNION {[F -> Texts] : F \in SUBSET Fields}]
      BY <2>6, <2>7 DEF AccountTypeOK
  <2> QED
      BY <1>13, <2>2, <2>8 DEF Store, AccountTypeOK
<1>14. CASE UNCHANGED vars
    BY <1>14 DEF vars, AccountTypeOK
<1> QED
    BY <1>1, <1>2, <1>3, <1>4, <1>5, <1>6, <1>7, <1>9, <1>10, <1>11, <1>12, <1>13,
       <1>14 DEF Next

\* Every variable of every reachable state holds what its declaration says,
\* for any number of phones, people and presses.
THEOREM AccountTypeCorrect == Spec => []AccountTypeOK
<1>1. Init => AccountTypeOK
    BY AccountTypeInit
<1>2. AccountTypeOK /\ [Next]_vars => AccountTypeOK'
    BY AccountTypeStep
<1> QED
    BY <1>1, <1>2, PTL DEF Spec

-----------------------------------------------------------------------------
(* Who is signed in, or written about, has an account: an answer "ok" is   *)
(* only given for an account, and a write is made for who is signed in.    *)

AnswersHaveAccounts ==
    \A d \in Devices : \A q \in requests[d] : q.state = "ok" => q.email \in accounts

WritesHaveAccounts ==
    \A d \in Devices : \A i \in DOMAIN writes[d] : writes[d][i].uid \in accounts

AccountInv ==
    AccountTypeOK /\ AnswersHaveAccounts /\ WritesHaveAccounts /\ ProfileNeedsAccount

\* The writes of the block of Register are all for the same user.
LEMMA ProfileWritesUid ==
    ASSUME NEW u, NEW n, NEW e
    PROVE  /\ Len(ProfileWrites(u, n, e)) = 4
           /\ \A i \in 1..4 : ProfileWrites(u, n, e)[i].uid = u
  BY DEF ProfileWrites, Write

\* At first nobody is signed in and there is nothing to answer or to write.
LEMMA AccountInit == Init => AccountInv
  BY AccountTypeInit DEF Init, AccountInv, AnswersHaveAccounts, WritesHaveAccounts,
     ProfileNeedsAccount

\* Every action keeps the accounts ahead of the answers, writes and profiles.
LEMMA AccountStep == AccountInv /\ [Next]_vars => AccountInv'
<1> SUFFICES ASSUME AccountInv, [Next]_vars PROVE AccountInv'
    OBVIOUS
<1>0. AccountTypeOK /\ AccountTypeOK'
    BY AccountTypeStep DEF AccountInv
<1> USE <1>0 DEF AccountInv
<1>1. ASSUME NEW d \in Devices, NEW n \in Emails, TypeName(d, n)
      PROVE  AccountInv'
    BY <1>1 DEF TypeName, AnswersHaveAccounts, WritesHaveAccounts, ProfileNeedsAccount
<1>2. ASSUME NEW d \in Devices, NEW e \in Emails, PressRegister(d, e)
      PROVE  AccountInv'
  <2>1. \A dd \in Devices : \A q \in requests'[dd] : q \in requests[dd] \/ q.state = "sent"
      BY <1>2 DEF PressRegister, AccountTypeOK, Request
  <2> QED
      BY <1>2, <2>1
         DEF PressRegister, AnswersHaveAccounts, WritesHaveAccounts, ProfileNeedsAccount
<1>3. ASSUME NEW d \in Devices, NEW e \in Emails, PressLogin(d, e)
      PROVE  AccountInv'
  <2>1. \A dd \in Devices : \A q \in requests'[dd] : q \in requests[dd] \/ q.state = "sent"
      BY <1>3 DEF PressLogin, AccountTypeOK, Request
  <2> QED
      BY <1>3, <2>1
         DEF PressLogin, AnswersHaveAccounts, WritesHaveAccounts, ProfileNeedsAccount
<1>4. ASSUME NEW d \in Devices, SignInDone(d)
      PROVE  AccountInv'
  <2> DEFINE u == currentUser[d]
             ws == ProfileWrites(u, username[d], Head(callbacks[d]))
  <2>1. WritesHaveAccounts'
    <3>1. CASE u = NoUser
        BY <1>4, <3>1 DEF SignInDone, WritesHaveAccounts
    <3>2. CASE u # NoUser
      <4>1. u \in Emails /\ u \in accounts
          BY <3>2 DEF AccountTypeOK, ProfileNeedsAccount
      <4>2. callbacks[d] \in Seq(Emails) /\ callbacks[d] # <<>>
          BY <1>4 DEF SignInDone, AccountTypeOK
      <4>3. Head(callbacks[d]) \in Emails
          BY <4>2
      <4>4. ws \in Seq(Writes) /\ username[d] \in Texts
          BY <4>1, <4>3, ProfileWritesType DEF AccountTypeOK
      <4>5. Len(ws) = 4 /\ \A i \in 1..4 : ws[i].uid = u
          BY ProfileWritesUid
      <4>6. writes[d] \in Seq(Writes)
          BY DEF AccountTypeOK
      <4> HIDE DEF ws
      <4>7. ASSUME NEW i \in DOMAIN (writes[d] \o ws)
            PROVE  (writes[d] \o ws)[i].uid \in accounts
        <5>1. /\ Len(writes[d] \o ws) = Len(writes[d]) + 4
              /\ i \in 1..(Len(writes[d]) + 4)
          <6>1. /\ writes[d] \o ws \in Seq(Writes)
                /\ Len(writes[d] \o ws) = Len(writes[d]) + Len(ws)
              BY <4>4, <4>6, ConcatProperties
          <6>2. DOMAIN (writes[d] \o ws) = 1..Len(writes[d] \o ws)
              BY <6>1, LenProperties
          <6> QED
              BY <4>5, <6>1, <6>2
        <5>2. CASE i <= Len(writes[d])
            BY <4>4, <4>6, <5>1, <5>2, ConcatProperties DEF WritesHaveAccounts
        <5>3. CASE i > Len(writes[d])
          <6>1. (writes[d] \o ws)[i] = ws[i - Len(writes[d])] /\ i - Len(writes[d]) \in 1..4
              BY <4>4, <4>5, <4>6, <5>1, <5>3, ConcatProperties, LenProperties
          <6> QED
              BY <4>1, <4>5, <6>1
        <5> QED
            BY <5>1, <5>2, <5>3, <4>6, LenProperties
      <4>8. writes' = [writes EXCEPT ![d] = @ \o ws] /\ UNCHANGED accounts
          BY <1>4, <3>2 DEF SignInDone, ws
      <4> QED
          BY <4>7, <4>8 DEF WritesHaveAccounts, AccountTypeOK
    <3> QED
        BY <3>1, <3>2
  <2> QED
      BY <1>4, <2>1 DEF SignInDone, AnswersHaveAccounts, ProfileNeedsAccount
<1>5. ASSUME NEW d \in Devices, SignOut(d)
      PROVE  AccountInv'
    BY <1>5 DEF SignOut, AccountTypeOK, AnswersHaveAccounts, WritesHaveAccounts,
       ProfileNeedsAccount
<1>6. ASSUME NEW d \in Devices, NEW q \in requests[d], Answer(d, q)
      PROVE  AccountInv'
    BY <1>6 DEF Answer, Answered, AccountTypeOK, AnswersHaveAccounts, WritesHaveAccounts,
       ProfileNeedsAccount
<1>7. ASSUME NEW d \in Devices, Die(d)
      PROVE  AccountInv'
    BY <1>7 DEF Die, AccountTypeOK, AnswersHaveAccounts, WritesHaveAccounts,
       ProfileNeedsAccount
<1>8. ASSUME NEW d \in Devices, NEW q \in requests[d], NEW s \in Answers,
             Serve(d, q, s), accounts \subseteq accounts',
             s = "ok" => q.email \in accounts'
      PROVE  AccountInv'
  <2>1. q \in Requests
      BY DEF AccountTypeOK
  <2>2. /\ [q EXCEPT !.state = s].email = q.email
        /\ [q EXCEPT !.state = s].state = s
      BY <2>1 DEF Requests
  <2>3. AnswersHaveAccounts'
      BY <1>8, <2>2 DEF Serve, AccountTypeOK, AnswersHaveAccounts
  <2> QED
      BY <1>8, <2>3 DEF Serve, WritesHaveAccounts, ProfileNeedsAccount
<1>9. ASSUME NEW d \in Devices, NEW q \in requests[d], ServeCreate(d, q)
      PROVE  AccountInv'
    BY <1>8, <1>9 DEF ServeCreate, Answers
<1>10. ASSUME NEW d \in Devices, NEW q \in requests[d], ServeCreateOnly(d, q)
      PROVE  AccountInv'
    BY <1>8, <1>10 DEF ServeCreateOnly, Answers
<1>11. ASSUME NEW d \in Devices, NEW q \in requests[d], ServeSignIn(d, q)
      PROVE  AccountInv'
    BY <1>8, <1>11 DEF ServeSignIn, Answers
<1>12. ASSUME NEW d \in Devices, NEW q \in requests[d], ServeFails(d, q)
      PROVE  AccountInv'
    BY <1>8, <1>12 DEF ServeFails, Answers
<1>13. ASSUME NEW d \in Devices, Store(d)
      PROVE  AccountInv'
  <2> DEFINE w == Head(writes[d])
  <2>1. writes[d] \in Seq(Writes) /\ writes[d] # <<>>
      BY <1>13 DEF Store, AccountTypeOK
  <2>2. /\ w = writes[d][1] /\ 1 \in DOMAIN writes[d]
        /\ DOMAIN Tail(writes[d]) = 1..(Len(writes[d]) - 1)
        /\ \A i \in DOMAIN Tail(writes[d]) :
              i + 1 \in DOMAIN writes[d] /\ Tail(writes[d])[i] = writes[d][i + 1]
      BY <2>1, HeadTailProperties, LenProperties
  <2>3. w.uid \in accounts
      BY <2>2 DEF WritesHaveAccounts
  <2>4. WritesHaveAccounts'
      BY <1>13, <2>2 DEF Store, AccountTypeOK, WritesHaveAccounts
  <2>5. \A u \in Emails : u # w.uid => profile'[u] = profile[u]
      BY <1>13 DEF Store, AccountTypeOK
  <2>6. ProfileNeedsAccount'
      BY <1>13, <2>3, <2>5 DEF Store, ProfileNeedsAccount
  <2> QED
      BY <1>13, <2>4, <2>6 DEF Store, AnswersHaveAccounts
<1>14. CASE UNCHANGED vars
    BY <1>14 DEF vars, AnswersHaveAccounts, WritesHaveAccounts, ProfileNeedsAccount
<1> QED
    BY <1>1, <1>2, <1>3, <1>4, <1>5, <1>6, <1>7, <1>9, <1>10, <1>11, <1>12, <1>13,
       <1>14 DEF Next

\* Whoever is signed in has an account, and so has everybody with a profile,
\* though the block of Register does not look at the error it is given.
THEOREM ProfilesNeedAccounts == Spec => []ProfileNeedsAccount
<1>1. Init => AccountInv
    BY AccountInit
<1>2. AccountInv /\ [Next]_vars => AccountInv'
    BY AccountStep
<1>3. AccountInv => ProfileNeedsAccount
    BY DEF AccountInv
<1> QED
    BY <1>1, <1>2, <1>3, PTL DEF Spec

-----------------------------------------------------------------------------
(* The uid is written last: in front of a uid that waits to be stored, the *)
(* other fields of its user wait too or are stored already.                *)

Precedes(d, i, f) ==
    \E j \in 1..(i - 1) :
        writes[d][j].uid = writes[d][i].uid /\ writes[d][j].field = f

FieldsPrecedeUid ==
    \A d \in Devices : \A i \in DOMAIN writes[d] : writes[d][i].field = "uid" =>
        \A f \in Fields \ {"uid"} :
            f \in DOMAIN profile[writes[d][i].uid] \/ Precedes(d, i, f)

UidInv == AccountTypeOK /\ FieldsPrecedeUid /\ UidComesLast

\* The block of Register writes the three other fields before the uid.
LEMMA ProfileWritesFields ==
    ASSUME NEW u, NEW n, NEW e
    PROVE  LET ws == ProfileWrites(u, n, e)
           IN  /\ Len(ws) = 4
               /\ \A i \in 1..4 : ws[i].uid = u
               /\ \A i \in 1..4 : ws[i].field = "uid" => i = 4
               /\ \A f \in Fields \ {"uid"} : \E j \in 1..3 : ws[j].field = f
<1> DEFINE ws == ProfileWrites(u, n, e)
<1>1. /\ Len(ws) = 4
      /\ ws[1].uid = u /\ ws[2].uid = u /\ ws[3].uid = u /\ ws[4].uid = u
      /\ ws[1].field = "name" /\ ws[2].field = "password"
      /\ ws[3].field = "email" /\ ws[4].field = "uid"
    BY DEF ProfileWrites, Write
<1> HIDE DEF ws
<1>2. \A i \in 1..4 : i = 1 \/ i = 2 \/ i = 3 \/ i = 4
    OBVIOUS
<1>3. 1 \in 1..3 /\ 2 \in 1..3 /\ 3 \in 1..3
    OBVIOUS
<1>4. \A f \in Fields \ {"uid"} : \E j \in 1..3 : ws[j].field = f
    BY <1>1, <1>3 DEF Fields
<1>5. /\ \A i \in 1..4 : ws[i].uid = u
      /\ \A i \in 1..4 : ws[i].field = "uid" => i = 4
    BY <1>1, <1>2
<1> QED
    BY <1>1, <1>4, <1>5 DEF ws

\* Appending the writes of a profile keeps the uid last.
LEMMA SignInDoneKeepsOrder ==
    ASSUME UidInv, NEW d \in Devices, SignInDone(d)
    PROVE  FieldsPrecedeUid'
<1> USE DEF UidInv
<1> DEFINE u == currentUser[d]
           ws == ProfileWrites(u, username[d], Head(callbacks[d]))
           old == writes[d]
           new == old \o ws
<1>1. CASE u = NoUser
    BY <1>1 DEF SignInDone, FieldsPrecedeUid, Precedes
<1>2. CASE u # NoUser
  <2>1. callbacks[d] \in Seq(Emails) /\ callbacks[d] # <<>>
      BY DEF SignInDone, AccountTypeOK
  <2>2. Head(callbacks[d]) \in Emails /\ u \in Emails /\ username[d] \in Texts
      BY <1>2, <2>1 DEF AccountTypeOK
  <2>3. ws \in Seq(Writes)
      BY <2>2, ProfileWritesType
  <2>4. old \in Seq(Writes) /\ Len(old) \in Nat /\ DOMAIN old = 1..Len(old)
      BY LenProperties DEF AccountTypeOK
  <2>5. /\ Len(ws) = 4
        /\ \A i \in 1..4 : ws[i].uid = u
        /\ \A i \in 1..4 : ws[i].field = "uid" => i = 4
        /\ \A f \in Fields \ {"uid"} : \E j \in 1..3 : ws[j].field = f
      BY ProfileWritesFields
  <2>6. writes' = [writes EXCEPT ![d] = new] /\ profile' = profile
      BY <1>2 DEF SignInDone
  <2>7. writes'[d] = new /\ \A dd \in Devices \ {d} : writes'[dd] = writes[dd]
      BY <2>6 DEF AccountTypeOK
  <2> HIDE DEF ws
  <2>8. new \in Seq(Writes) /\ Len(new) = Len(old) + 4
    <3>1. new \in Seq(Writes) /\ Len(new) = Len(old) + Len(ws)
        BY <2>3, <2>4, ConcatProperties
    <3> QED
        BY <2>5, <3>1
  <2>9. DOMAIN new = 1..(Len(old) + 4)
      BY <2>8, LenProperties
  <2>10. /\ \A i \in 1..Len(old) : new[i] = old[i]
         /\ \A i \in 1..4 : new[Len(old) + i] = ws[i]
    <3>1. \A i \in 1..(Len(old) + Len(ws)) :
              new[i] = IF i <= Len(old) THEN old[i] ELSE ws[i - Len(old)]
        BY <2>3, <2>4, ConcatProperties
    <3> HIDE DEF old, new
    <3>2. \A i \in 1..(Len(old) + 4) :
              new[i] = IF i <= Len(old) THEN old[i] ELSE ws[i - Len(old)]
        BY <2>5, <3>1
    <3>3. ASSUME NEW i \in 1..4
          PROVE  new[Len(old) + i] = ws[i]
      <4>1. /\ Len(old) + i \in 1..(Len(old) + 4)
            /\ ~(Len(old) + i <= Len(old)) /\ (Len(old) + i) - Len(old) = i
          BY <2>4
      <4> QED
          BY <3>2, <4>1
    <3>4. \A i \in 1..Len(old) : new[i] = old[i]
        BY <2>4, <3>2
    <3> QED
        BY <3>3, <3>4
  <2> HIDE DEF old, new
  <2>11. ASSUME NEW dd \in Devices, dd # d, NEW i \in DOMAIN writes'[dd],
                writes'[dd][i].field = "uid", NEW f \in Fields \ {"uid"}
         PROVE  f \in DOMAIN profile'[writes'[dd][i].uid] \/ Precedes(dd, i, f)'
      BY <2>6, <2>7, <2>11 DEF FieldsPrecedeUid, Precedes
  <2>12. ASSUME NEW i \in DOMAIN new, new[i].field = "uid", NEW f \in Fields \ {"uid"}
         PROVE  \/ f \in DOMAIN profile[new[i].uid]
                \/ \E j \in 1..(i - 1) : new[j].uid = new[i].uid /\ new[j].field = f
    <3>1. CASE i <= Len(old)
      <4>1. i \in DOMAIN old /\ new[i] = old[i] /\ old[i].field = "uid"
          BY <2>4, <2>9, <2>10, <2>12, <3>1
      <4>2. CASE f \in DOMAIN profile[old[i].uid]
          BY <4>1, <4>2
      <4>3. CASE Precedes(d, i, f)
        <5>1. PICK j \in 1..(i - 1) : old[j].uid = old[i].uid /\ old[j].field = f
            BY <4>3 DEF Precedes, old
        <5>2. j \in 1..Len(old)
            BY <2>4, <4>1, <5>1
        <5> QED
            BY <2>10, <4>1, <5>1, <5>2
      <4> QED
          BY <4>1, <4>2, <4>3 DEF FieldsPrecedeUid, old
    <3>2. CASE i > Len(old)
      <4>1. i - Len(old) \in 1..4 /\ i = Len(old) + (i - Len(old))
          BY <2>4, <2>9, <3>2
      <4>2. new[i] = ws[i - Len(old)]
          BY <2>10, <4>1
      <4>3. i = Len(old) + 4 /\ new[i].uid = u
          BY <2>4, <2>5, <2>9, <2>12, <4>1, <4>2
      <4>4. PICK j \in 1..3 : ws[j].field = f
          BY <2>5
      <4>5. /\ Len(old) + j \in 1..(i - 1)
            /\ new[Len(old) + j].uid = u /\ new[Len(old) + j].field = f
          BY <2>4, <2>5, <2>10, <4>3, <4>4
      <4> QED
          BY <4>3, <4>5
    <3> QED
        BY <2>4, <2>9, <3>1, <3>2
  <2>13. ASSUME NEW i \in DOMAIN writes'[d],
                writes'[d][i].field = "uid", NEW f \in Fields \ {"uid"}
         PROVE  f \in DOMAIN profile'[writes'[d][i].uid] \/ Precedes(d, i, f)'
      BY <2>6, <2>7, <2>12, <2>13 DEF Precedes
  <2> QED
      BY <2>11, <2>13 DEF FieldsPrecedeUid
<1> QED
    BY <1>1, <1>2

\* Storing the next write keeps the uid last, in the queue and in the database.
LEMMA StoreKeepsOrder ==
    ASSUME UidInv, NEW d \in Devices, Store(d)
    PROVE  FieldsPrecedeUid' /\ UidComesLast'
<1> USE DEF UidInv
<1> DEFINE w == Head(writes[d])
<1>1. writes[d] \in Seq(Writes) /\ writes[d] # <<>>
    BY DEF Store, AccountTypeOK
<1>2. /\ w = writes[d][1] /\ 1 \in DOMAIN writes[d]
      /\ DOMAIN Tail(writes[d]) = 1..(Len(writes[d]) - 1)
      /\ \A i \in DOMAIN Tail(writes[d]) :
            i + 1 \in DOMAIN writes[d] /\ Tail(writes[d])[i] = writes[d][i + 1]
    BY <1>1, HeadTailProperties, LenProperties
<1>3. w.uid \in Emails /\ w.field \in Fields
  <2>1. w \in Writes
      BY <1>1
  <2> QED
      BY <2>1 DEF Writes
<1>4. /\ DOMAIN profile'[w.uid] = DOMAIN profile[w.uid] \cup {w.field}
      /\ \A u \in Emails \ {w.uid} : profile'[u] = profile[u]
    BY <1>3 DEF Store, AccountTypeOK
<1>5. writes'[d] = Tail(writes[d]) /\ \A dd \in Devices \ {d} : writes'[dd] = writes[dd]
    BY DEF Store, AccountTypeOK
<1> HIDE DEF w
<1>6. ASSUME NEW dd \in Devices, dd # d, NEW i \in DOMAIN writes'[dd],
             writes'[dd][i].field = "uid", NEW f \in Fields \ {"uid"}
      PROVE  f \in DOMAIN profile'[writes'[dd][i].uid] \/ Precedes(dd, i, f)'
  <2>1. writes[dd][i].uid \in Emails
    <3>1. writes[dd] \in Seq(Writes) /\ i \in DOMAIN writes[dd]
        BY <1>5, <1>6 DEF AccountTypeOK
    <3>2. writes[dd][i] \in Writes
        BY <3>1, LenProperties, ElementOfSeq
    <3> QED
        BY <3>2 DEF Writes
  <2> QED
      BY <1>4, <1>5, <1>6, <2>1 DEF FieldsPrecedeUid, Precedes
<1>7. ASSUME NEW i \in DOMAIN writes'[d],
             writes'[d][i].field = "uid", NEW f \in Fields \ {"uid"}
      PROVE  f \in DOMAIN profile'[writes'[d][i].uid] \/ Precedes(d, i, f)'
  <2> DEFINE x == writes[d][i + 1]
  <2>1. /\ i \in 1..(Len(writes[d]) - 1) /\ i + 1 \in DOMAIN writes[d]
        /\ writes'[d][i] = x /\ x.field = "uid"
      BY <1>2, <1>5, <1>7
  <2>2. x.uid \in Emails
    <3>1. x \in Writes
        BY <1>1, <2>1, LenProperties, ElementOfSeq
    <3> QED
        BY <3>1 DEF Writes
  <2>3. CASE f \in DOMAIN profile[x.uid]
      BY <1>4, <2>1, <2>2, <2>3
  <2>4. CASE Precedes(d, i + 1, f)
    <3>1. PICK j \in 1..i : writes[d][j].uid = x.uid /\ writes[d][j].field = f
        BY <2>1, <2>4 DEF Precedes
    <3>2. CASE j = 1
        BY <1>2, <1>4, <2>1, <3>1, <3>2
    <3>3. CASE j > 1
      <4>1. j - 1 \in 1..(i - 1) /\ j - 1 \in DOMAIN Tail(writes[d]) /\ j = (j - 1) + 1
          BY <1>1, <1>2, <2>1, <3>1, <3>3, LenProperties
      <4>2. writes'[d][j - 1] = writes[d][j]
          BY <1>2, <1>5, <4>1
      <4> QED
          BY <2>1, <3>1, <4>1, <4>2 DEF Precedes
    <3> QED
        BY <2>1, <3>1, <3>2, <3>3
  <2> QED
      BY <2>1, <2>3, <2>4 DEF FieldsPrecedeUid
<1>8. UidComesLast'
  <2>1. ASSUME NEW u \in Emails, "uid" \in DOMAIN profile'[u], u = w.uid
        PROVE  DOMAIN profile'[u] = Fields
    <3>1. DOMAIN profile[u] \subseteq Fields
        BY ProfileType DEF AccountTypeOK
    <3>2. CASE w.field = "uid"
      <4>1. \A f \in Fields \ {"uid"} : ~Precedes(d, 1, f)
          BY DEF Precedes
      <4>2. \A f \in Fields \ {"uid"} : f \in DOMAIN profile[u]
          BY <1>2, <2>1, <3>2, <4>1 DEF FieldsPrecedeUid
      <4> QED
          BY <1>3, <1>4, <2>1, <3>1, <3>2, <4>2
    <3>3. CASE w.field # "uid"
        BY <1>3, <1>4, <2>1, <3>1, <3>3 DEF UidComesLast
    <3> QED
        BY <3>2, <3>3
  <2>2. ASSUME NEW u \in Emails, "uid" \in DOMAIN profile'[u], u # w.uid
        PROVE  DOMAIN profile'[u] = Fields
      BY <1>4, <2>2 DEF UidComesLast
  <2> QED
      BY <2>1, <2>2 DEF UidComesLast
<1> QED
    BY <1>6, <1>7, <1>8 DEF FieldsPrecedeUid

\* Every action keeps the uid last.
LEMMA UidStep == UidInv /\ [Next]_vars => UidInv'
<1> SUFFICES ASSUME UidInv, [Next]_vars PROVE UidInv'
    OBVIOUS
<1>0. AccountTypeOK /\ AccountTypeOK'
    BY AccountTypeStep DEF UidInv
<1>1. ASSUME UNCHANGED <<writes, profile>> PROVE UidInv'
    BY <1>0, <1>1 DEF UidInv, FieldsPrecedeUid, Precedes, UidComesLast
<1>2. ASSUME NEW d \in Devices, SignInDone(d) PROVE UidInv'
    BY <1>0, <1>2, SignInDoneKeepsOrder DEF UidInv, SignInDone, UidComesLast
<1>3. ASSUME NEW d \in Devices, Die(d) PROVE UidInv'
  <2>1. /\ writes'[d] = <<>> /\ profile' = profile
        /\ \A dd \in Devices \ {d} : writes'[dd] = writes[dd]
      BY <1>0, <1>3 DEF Die, AccountTypeOK
  <2>2. FieldsPrecedeUid'
      BY <2>1 DEF UidInv, FieldsPrecedeUid, Precedes
  <2> QED
      BY <1>0, <2>1, <2>2 DEF UidInv, UidComesLast
<1>4. ASSUME NEW d \in Devices, Store(d) PROVE UidInv'
    BY <1>0, <1>4, StoreKeepsOrder DEF UidInv
<1>5. ASSUME NEW d \in Devices,
             \/ \E n \in Emails : TypeName(d, n) \/ PressRegister(d, n) \/ PressLogin(d, n)
             \/ SignOut(d)
             \/ \E q \in requests[d] :
                   \/ Answer(d, q) \/ ServeCreate(d, q) \/ ServeCreateOnly(d, q)
                   \/ ServeSignIn(d, q) \/ ServeFails(d, q)
      PROVE  UidInv'
    BY <1>1, <1>5 DEF TypeName, PressRegister, PressLogin, SignOut, Answer, Answered,
       ServeCreate, ServeCreateOnly, ServeSignIn, ServeFails, Serve
<1>6. CASE UNCHANGED vars
    BY <1>1, <1>6 DEF vars
<1> QED
    BY <1>2, <1>3, <1>4, <1>5, <1>6 DEF Next

\* A profile with a uid has every field, for any number of phones that write
\* to the same profile and die between two of its writes.
THEOREM UidIsWrittenLast == Spec => []UidComesLast
<1>1. Init => UidInv
    BY AccountTypeInit DEF Init, UidInv, FieldsPrecedeUid, UidComesLast
<1>2. UidInv /\ [Next]_vars => UidInv'
    BY UidStep
<1>3. UidInv => UidComesLast
    BY DEF UidInv
<1> QED
    BY <1>1, <1>2, <1>3, PTL DEF Spec

-----------------------------------------------------------------------------
(* From one phone, a profile is written block after block: what is stored  *)
(* of it is what comes in front of its next write, or an older profile     *)
(* under that.                                                             *)

\* The write b comes right after the write a.
Follows(a, b) ==
    /\ a.field = "name"     => b.field = "password" /\ b.uid = a.uid
    /\ a.field = "password" => b.field = "email" /\ b.uid = a.uid /\ b.value = a.value
    /\ a.field = "email"    => b.field = "uid" /\ b.uid = a.uid
    /\ a.field = "uid"      => b.field = "name"

InBlocks(ws) ==
    /\ \A i \in 1..(Len(ws) - 1) : Follows(ws[i], ws[i + 1])
    /\ ws # <<>> => ws[Len(ws)].field = "uid"

FieldsBefore(f) ==
    {g \in Fields : \/ g = "name" /\ f \in {"password", "email", "uid"}
                    \/ g = "password" /\ f \in {"email", "uid"}
                    \/ g = "email" /\ f = "uid"}

\* The profile p is stored up to a write of field f with value v.
StoredUpTo(p, f, v) ==
    /\ DOMAIN p = FieldsBefore(f) \/ DOMAIN p = Fields
    /\ f = "email" => p["password"] = v
    /\ f # "email" /\ {"password", "email"} \subseteq DOMAIN p => p["password"] = p["email"]

\* The profile of u is stored up to the first write of ws, if that is to it.
StoredInFrontOf(ws, u) ==
    IF ws # <<>> /\ ws[1].uid = u
    THEN StoredUpTo(profile[u], ws[1].field, ws[1].value)
    ELSE \A v \in Texts : StoredUpTo(profile[u], "name", v)

WholeInv(d) ==
    AccountTypeOK /\ (kills = 0 => /\ InBlocks(writes[d])
                                   /\ \A u \in Emails : StoredInFrontOf(writes[d], u))

\* What a write adds to the profile it is for.
Stored(p, w) == [f \in DOMAIN p \cup {w.field} |-> IF f = w.field THEN w.value ELSE p[f]]

\* Storing a write takes the profile up to the one that follows it, or to the
\* end of its block.
LEMMA StoredUpToNext ==
    ASSUME NEW p \in UNION {[F -> Texts] : F \in SUBSET Fields},
           NEW a \in Writes, StoredUpTo(p, a.field, a.value)
    PROVE  /\ \A b \in Writes : a.field # "uid" /\ Follows(a, b)
                                => StoredUpTo(Stored(p, a), b.field, b.value)
           /\ a.field = "uid" => \A v : StoredUpTo(Stored(p, a), "name", v)
<1> DEFINE q == Stored(p, a)
<1>1. DOMAIN q = DOMAIN p \cup {a.field}
      /\ \A f \in DOMAIN q : q[f] = IF f = a.field THEN a.value ELSE p[f]
    BY DEF Stored
<1>2. a.field \in Fields
    BY DEF Writes
<1>3. /\ FieldsBefore("name") = {} /\ FieldsBefore("password") = {"name"}
      /\ FieldsBefore("email") = {"name", "password"}
      /\ FieldsBefore("uid") = {"name", "password", "email"}
    BY DEF FieldsBefore, Fields
<1>4. DOMAIN p = FieldsBefore(a.field) \/ DOMAIN p = Fields
    BY DEF StoredUpTo
<1> HIDE DEF q
<1>5. CASE a.field = "name"
  <2>1. DOMAIN q = {"name"} \/ (DOMAIN q = Fields /\ DOMAIN p = Fields)
      BY <1>1, <1>3, <1>4, <1>5 DEF Fields
  <2>2. {"password", "email"} \subseteq DOMAIN q => q["password"] = q["email"]
      BY <1>1, <1>5, <2>1 DEF StoredUpTo, Fields
  <2> QED
      BY <1>3, <1>5, <2>1, <2>2 DEF StoredUpTo, Follows, q
<1>6. CASE a.field = "password"
  <2>1. DOMAIN q = {"name", "password"} \/ DOMAIN q = Fields
      BY <1>1, <1>3, <1>4, <1>6 DEF Fields
  <2>2. q["password"] = a.value
      BY <1>1, <1>6
  <2> QED
      BY <1>3, <1>6, <2>1, <2>2 DEF StoredUpTo, Follows, q
<1>7. CASE a.field = "email"
  <2>1. DOMAIN q = {"name", "password", "email"} \/ DOMAIN q = Fields
      BY <1>1, <1>3, <1>4, <1>7 DEF Fields
  <2>2. q["password"] = a.value /\ q["email"] = a.value
      BY <1>1, <1>7, <2>1 DEF StoredUpTo, Fields
  <2> QED
      BY <1>3, <1>7, <2>1, <2>2 DEF StoredUpTo, Follows, q
<1>8. CASE a.field = "uid"
  <2>1. DOMAIN q = Fields
      BY <1>1, <1>3, <1>4, <1>8 DEF Fields
  <2>2. q["password"] = q["email"]
      BY <1>1, <1>3, <1>4, <1>8, <2>1 DEF StoredUpTo, Fields
  <2> QED
      BY <1>8, <2>1, <2>2 DEF StoredUpTo, q
<1> QED
    BY <1>2, <1>5, <1>6, <1>7, <1>8 DEF Fields

\* The block of Register writes one whole block.
LEMMA ProfileWritesBlock ==
    ASSUME NEW u, NEW n, NEW e
    PROVE  LET ws == ProfileWrites(u, n, e)
           IN  /\ Len(ws) = 4
               /\ ws[1].field = "name"
               /\ \A i \in 1..3 : Follows(ws[i], ws[i + 1])
               /\ ws[4].field = "uid"
<1> DEFINE ws == ProfileWrites(u, n, e)
<1>1. /\ Len(ws) = 4
      /\ ws[1] = Write(u, "name", n) /\ ws[2] = Write(u, "password", e)
      /\ ws[3] = Write(u, "email", e) /\ ws[4] = Write(u, "uid", u)
    BY DEF ProfileWrites
<1> HIDE DEF ws
<1>2. Follows(ws[1], ws[2]) /\ Follows(ws[2], ws[3]) /\ Follows(ws[3], ws[4])
    BY <1>1 DEF Follows, Write
<1>3. \A i \in 1..3 : Follows(ws[i], ws[i + 1])
  <2>1. \A i \in 1..3 : i = 1 \/ i = 2 \/ i = 3
      OBVIOUS
  <2>2. 1 + 1 = 2 /\ 2 + 1 = 3 /\ 3 + 1 = 4
      OBVIOUS
  <2> QED
      BY <1>2, <2>1, <2>2
<1>4. ws[1].field = "name" /\ ws[4].field = "uid"
    BY <1>1 DEF Write
<1> QED
    BY <1>1, <1>3, <1>4 DEF ws

\* Blocks in front of a block are blocks.
LEMMA BlockAppended ==
    ASSUME NEW old \in Seq(Writes), NEW ws \in Seq(Writes), InBlocks(old),
           Len(ws) = 4, ws[1].field = "name", ws[4].field = "uid",
           \A i \in 1..3 : Follows(ws[i], ws[i + 1])
    PROVE  /\ InBlocks(old \o ws)
           /\ old \o ws # <<>>
           /\ IF old = <<>> THEN (old \o ws)[1].field = "name"
                            ELSE (old \o ws)[1] = old[1]
<1> DEFINE new == old \o ws
<1>1. PICK n \in Nat : n = Len(old)
    BY LenProperties
<1>2. /\ new \in Seq(Writes) /\ Len(new) = n + 4
      /\ \A i \in 1..(n + 4) : new[i] = IF i <= n THEN old[i] ELSE ws[i - n]
  <2>1. /\ new \in Seq(Writes) /\ Len(new) = Len(old) + Len(ws)
        /\ \A i \in 1..(Len(old) + Len(ws)) :
              new[i] = IF i <= Len(old) THEN old[i] ELSE ws[i - Len(old)]
      BY ConcatProperties
  <2> HIDE DEF new
  <2> QED
      BY <1>1, <2>1
<1>3. (old = <<>> <=> n = 0) /\ new # <<>>
  <2>1. \A s \in Seq(Writes) : s = <<>> <=> Len(s) = 0
      BY EmptySeq
  <2> QED
      BY <1>1, <1>2, <2>1
<1> HIDE DEF new
<1>4. ASSUME NEW i \in 1..(n + 3)
      PROVE  Follows(new[i], new[i + 1])
  <2>1. i \in 1..(n + 4) /\ i + 1 \in 1..(n + 4) /\ i \in Int
      BY <1>1
  <2>2. CASE i < n
    <3>1. new[i] = old[i] /\ new[i + 1] = old[i + 1] /\ i \in 1..(n - 1)
        BY <1>1, <1>2, <2>1, <2>2
    <3> QED
        BY <1>1, <3>1 DEF InBlocks
  <2>3. CASE i = n
    <3>1. new[i] = old[n] /\ new[i + 1] = ws[1]
        BY <1>1, <1>2, <2>1, <2>3
    <3>2. old[n].field = "uid"
        BY <1>1, <1>3, <2>3 DEF InBlocks
    <3> QED
        BY <3>1, <3>2 DEF Follows
  <2>4. CASE i > n
    <3>1. new[i] = ws[i - n] /\ new[i + 1] = ws[(i - n) + 1] /\ i - n \in 1..3
      <4>1. (i + 1) - n = (i - n) + 1 /\ ~(i <= n) /\ ~(i + 1 <= n) /\ i - n \in 1..3
          BY <1>1, <2>1, <2>4
      <4> QED
          BY <1>2, <2>1, <4>1
    <3> QED
        BY <3>1
  <2> QED
      BY <1>1, <2>1, <2>2, <2>3, <2>4
<1>5. new[n + 4].field = "uid"
  <2>1. new[n + 4] = ws[4]
      BY <1>1, <1>2
  <2> QED
      BY <2>1
<1>6. InBlocks(new)
    BY <1>1, <1>2, <1>4, <1>5 DEF InBlocks
<1>7. IF old = <<>> THEN new[1].field = "name" ELSE new[1] = old[1]
  <2>1. 1 \in 1..(n + 4)
      BY <1>1
  <2>2. CASE n = 0
      BY <1>2, <1>3, <2>1, <2>2
  <2>3. CASE n # 0
      BY <1>1, <1>2, <1>3, <2>1, <2>3
  <2> QED
      BY <2>2, <2>3
<1> QED
    BY <1>3, <1>6, <1>7 DEF new

\* Without its first write, blocks are still blocks, and what follows the first
\* write is the next one, unless the first one was the last of a block.
LEMMA BlockStarted ==
    ASSUME NEW ws \in Seq(Writes), InBlocks(ws), ws # <<>>
    PROVE  /\ InBlocks(Tail(ws))
           /\ Tail(ws) # <<>> => Follows(ws[1], Tail(ws)[1])
           /\ Tail(ws) = <<>> => ws[1].field = "uid"
<1> DEFINE t == Tail(ws)
<1>1. PICK n \in Nat : n = Len(ws)
    BY LenProperties
<1>2. n > 0 /\ t \in Seq(Writes) /\ Len(t) = n - 1 /\ \A i \in 1..(n - 1) : t[i] = ws[i + 1]
    BY <1>1, HeadTailProperties, EmptySeq
<1>3. \A s \in Seq(Writes) : s = <<>> <=> Len(s) = 0
    BY EmptySeq
<1> HIDE DEF t
<1>4. \A i \in 1..(n - 2) : Follows(t[i], t[i + 1])
  <2> SUFFICES ASSUME NEW i \in 1..(n - 2) PROVE Follows(t[i], t[i + 1])
      OBVIOUS
  <2>1. t[i] = ws[i + 1] /\ t[i + 1] = ws[(i + 1) + 1] /\ i + 1 \in 1..(n - 1)
      BY <1>1, <1>2
  <2> QED
      BY <1>1, <2>1 DEF InBlocks
<1>5. t # <<>> => t[n - 1].field = "uid"
  <2> SUFFICES ASSUME t # <<>> PROVE t[n - 1].field = "uid"
      OBVIOUS
  <2>1. n - 1 \in 1..(n - 1) /\ (n - 1) + 1 = n
      BY <1>1, <1>2, <1>3
  <2>2. t[n - 1] = ws[n]
      BY <1>2, <2>1
  <2> QED
      BY <1>1, <2>2 DEF InBlocks
<1>6. InBlocks(t)
  <2>1. (n - 1) - 1 = n - 2
      BY <1>1
  <2> QED
      BY <1>2, <1>4, <1>5, <2>1 DEF InBlocks
<1>7. t # <<>> => Follows(ws[1], t[1])
  <2> SUFFICES ASSUME t # <<>> PROVE Follows(ws[1], t[1])
      OBVIOUS
  <2>1. 1 \in 1..(n - 1) /\ 1 + 1 = 2
      BY <1>1, <1>2, <1>3
  <2>2. t[1] = ws[1 + 1]
      BY <1>2, <2>1
  <2> QED
      BY <1>1, <2>1, <2>2 DEF InBlocks
<1>8. t = <<>> => ws[1].field = "uid"
  <2>1. t = <<>> => n = 1
    <3>1. t = <<>> => Len(t) = 0
        BY <1>2, <1>3, Zenon
    <3>2. Len(t) = n - 1
        BY <1>2, Zenon
    <3>3. \A k \in Nat : k - 1 = 0 => k = 1
        OBVIOUS
    <3> QED
        BY <3>1, <3>2, <3>3, Zenon
  <2>2. ws[n].field = "uid"
      BY <1>1 DEF InBlocks
  <2> QED
      BY <2>1, <2>2
<1> QED
    BY <1>6, <1>7, <1>8 DEF t

\* The block of Register adds a block to the writes.
LEMMA SignInDoneKeepsBlocks ==
    ASSUME NEW d, WholeInv(d), d \in Devices, kills' = 0, SignInDone(d)
    PROVE  InBlocks(writes'[d]) /\ \A u \in Emails : StoredInFrontOf(writes[d], u)'
<1> USE DEF WholeInv
<1>0. profile' = profile /\ kills = 0
    BY DEF SignInDone
<1>1. CASE currentUser[d] = NoUser
    BY <1>0, <1>1 DEF SignInDone, StoredInFrontOf
<1>2. CASE currentUser[d] # NoUser
  <2>1. PICK ws : ws = ProfileWrites(currentUser[d], username[d], Head(callbacks[d]))
      OBVIOUS
  <2>2. /\ Len(ws) = 4 /\ ws[1].field = "name" /\ ws[4].field = "uid"
        /\ \A i \in 1..3 : Follows(ws[i], ws[i + 1])
      BY <2>1, ProfileWritesBlock
  <2>3. ws \in Seq(Writes)
    <3>1. callbacks[d] \in Seq(Emails) /\ callbacks[d] # <<>>
        BY DEF SignInDone, AccountTypeOK
    <3>2. Head(callbacks[d]) \in Emails
        BY <3>1
    <3> QED
        BY <1>2, <2>1, <3>2, ProfileWritesType DEF AccountTypeOK
  <2>4. writes'[d] = writes[d] \o ws /\ writes[d] \in Seq(Writes)
      BY <1>2, <2>1 DEF SignInDone, AccountTypeOK
  <2>5. /\ InBlocks(writes'[d]) /\ writes'[d] # <<>>
        /\ IF writes[d] = <<>> THEN writes'[d][1].field = "name"
                               ELSE writes'[d][1] = writes[d][1]
      BY <1>0, <2>2, <2>3, <2>4, BlockAppended
  <2>6. ASSUME NEW u \in Emails
        PROVE  StoredInFrontOf(writes[d], u)'
    <3>1. CASE writes[d] = <<>>
      <4>1. NoUser \in Texts /\ \A v \in Texts : StoredUpTo(profile[u], "name", v)
          BY <1>0, <3>1 DEF StoredInFrontOf, Texts
      <4>2. \A v : StoredUpTo(profile[u], "name", v)
          BY <4>1 DEF StoredUpTo
      <4> QED
          BY <1>0, <2>5, <3>1, <4>2 DEF StoredInFrontOf
    <3>2. CASE writes[d] # <<>>
        BY <1>0, <2>5, <3>2 DEF StoredInFrontOf
    <3> QED
        BY <3>1, <3>2
  <2> QED
      BY <2>5, <2>6
<1> QED
    BY <1>1, <1>2

\* The database stores the first write of a block.
LEMMA StoreKeepsBlocks ==
    ASSUME NEW d, WholeInv(d), d \in Devices, kills' = 0, Store(d)
    PROVE  InBlocks(writes'[d]) /\ \A u \in Emails : StoredInFrontOf(writes[d], u)'
<1> USE DEF WholeInv
<1>0. kills = 0
    BY DEF Store
<1>1. writes[d] \in Seq(Writes) /\ writes[d] # <<>>
    BY DEF Store, AccountTypeOK
<1>2. PICK w \in Writes : w = writes[d][1] /\ w = Head(writes[d])
    BY <1>1, HeadTailProperties
<1>3. PICK t \in Seq(Writes) : t = Tail(writes[d])
  <2>1. Tail(writes[d]) \in Seq(Writes)
      BY <1>1
  <2> QED
      BY <2>1
<1>4. InBlocks(t) /\ (t # <<>> => Follows(w, t[1])) /\ (t = <<>> => w.field = "uid")
    BY <1>0, <1>1, <1>2, <1>3, BlockStarted
<1>5. writes'[d] = t
    BY <1>3 DEF Store, AccountTypeOK
<1>6. w.uid \in Emails
    BY DEF Writes
<1>7. profile'[w.uid] = Stored(profile[w.uid], w) /\ \A u \in Emails \ {w.uid} : profile'[u] = profile[u]
    BY <1>2, <1>6 DEF Store, Stored, AccountTypeOK
<1>8. StoredUpTo(profile[w.uid], w.field, w.value)
    BY <1>0, <1>1, <1>2, <1>6 DEF StoredInFrontOf
<1>9. profile[w.uid] \in UNION {[F -> Texts] : F \in SUBSET Fields}
    BY <1>6 DEF AccountTypeOK
<1>10. t # <<>> => t[1] \in Writes
  <2>1. t # <<>> => Head(t) = t[1] /\ Head(t) \in Writes
      BY HeadTailProperties
  <2> QED
      BY <2>1
<1>11. ASSUME NEW u \in Emails, u # w.uid
       PROVE  StoredInFrontOf(writes[d], u)'
  <2>1. \A v \in Texts : StoredUpTo(profile[u], "name", v)
      BY <1>0, <1>1, <1>2, <1>11 DEF StoredInFrontOf
  <2>2. \A v : StoredUpTo(profile'[u], "name", v)
      BY <1>7, <1>11, <2>1 DEF StoredUpTo, Texts
  <2>3. t # <<>> /\ t[1].uid = u => t[1].field = "name"
      BY <1>2, <1>4, <1>11 DEF Follows, Writes, Fields
  <2> QED
      BY <1>5, <2>2, <2>3 DEF StoredInFrontOf
<1>12. StoredInFrontOf(writes[d], w.uid)'
  <2>1. CASE w.field = "uid"
    <3>1. \A v : StoredUpTo(profile'[w.uid], "name", v)
        BY <1>7, <1>8, <1>9, <2>1, StoredUpToNext
    <3>2. t # <<>> => t[1].field = "name"
        BY <1>4, <2>1 DEF Follows
    <3> QED
        BY <1>5, <3>1, <3>2 DEF StoredInFrontOf
  <2>2. CASE w.field # "uid"
    <3>1. t # <<>> /\ t[1] \in Writes /\ Follows(w, t[1])
        BY <1>4, <1>10, <2>2
    <3>2. StoredUpTo(profile'[w.uid], t[1].field, t[1].value)
        BY <1>7, <1>8, <1>9, <2>2, <3>1, StoredUpToNext
    <3>3. t[1].uid = w.uid
        BY <2>2, <3>1 DEF Follows, Writes, Fields
    <3> QED
        BY <1>5, <3>1, <3>2, <3>3 DEF StoredInFrontOf
  <2> QED
      BY <2>1, <2>2
<1> QED
    BY <1>4, <1>5, <1>11, <1>12

\* With one phone, every action keeps profiles stored block after block.
LEMMA WholeStep ==
    ASSUME NEW d, Devices = {d}
    PROVE  WholeInv(d) /\ [Next]_vars => WholeInv(d)'
<1> SUFFICES ASSUME WholeInv(d), [Next]_vars PROVE WholeInv(d)'
    OBVIOUS
<1>0. AccountTypeOK /\ AccountTypeOK' /\ d \in Devices
    BY AccountTypeStep DEF WholeInv
<1>1. ASSUME UNCHANGED <<writes, profile, kills>> PROVE WholeInv(d)'
    BY <1>0, <1>1 DEF WholeInv, StoredInFrontOf
<1>2. ASSUME SignInDone(d) PROVE WholeInv(d)'
    BY <1>0, <1>2, SignInDoneKeepsBlocks DEF WholeInv
<1>3. ASSUME Die(d) PROVE WholeInv(d)'
  <2>1. kills' # 0
      BY <1>0, <1>3 DEF Die, AccountTypeOK
  <2> QED
      BY <1>0, <2>1 DEF WholeInv
<1>4. ASSUME Store(d) PROVE WholeInv(d)'
    BY <1>0, <1>4, StoreKeepsBlocks DEF WholeInv
<1>5. ASSUME \/ \E n \in Emails : TypeName(d, n) \/ PressRegister(d, n) \/ PressLogin(d, n)
             \/ SignOut(d)
             \/ \E q \in requests[d] :
                   \/ Answer(d, q) \/ ServeCreate(d, q) \/ ServeCreateOnly(d, q)
                   \/ ServeSignIn(d, q) \/ ServeFails(d, q)
      PROVE  WholeInv(d)'
    BY <1>1, <1>5 DEF TypeName, PressRegister, PressLogin, SignOut, Answer, Answered,
       ServeCreate, ServeCreateOnly, ServeSignIn, ServeFails, Serve
<1>6. CASE UNCHANGED vars
    BY <1>1, <1>6 DEF vars
<1> QED
    BY <1>2, <1>3, <1>4, <1>5, <1>6 DEF Next

\* One phone never leaves a profile half written or with the email of one form
\* and the password of another, for any number of people and presses, whatever
\* the answers and their order, as long as the process does not die.
THEOREM ProfilesOfOnePhoneAreWhole ==
    ASSUME NEW d, Devices = {d}
    PROVE  Spec => []ProfilesAreWhole
<1>1. Init => WholeInv(d)
  <2> SUFFICES ASSUME Init PROVE WholeInv(d)
      OBVIOUS
  <2>1. AccountTypeOK /\ d \in Devices /\ writes[d] = <<>>
      BY AccountTypeInit DEF Init
  <2>2. InBlocks(<<>>)
      BY DEF InBlocks
  <2>3. ASSUME NEW u \in Emails PROVE StoredInFrontOf(writes[d], u)
    <3>1. DOMAIN profile[u] = {}
        BY <2>3 DEF Init
    <3>2. FieldsBefore("name") = {}
        BY DEF FieldsBefore
    <3> QED
        BY <2>1, <3>1, <3>2 DEF StoredInFrontOf, StoredUpTo
  <2> QED
      BY <2>1, <2>2, <2>3 DEF WholeInv
<1>2. WholeInv(d) /\ [Next]_vars => WholeInv(d)'
    BY WholeStep
<1>3. WholeInv(d) => ProfilesAreWhole
  <2> SUFFICES ASSUME WholeInv(d), Quiet, kills = 0, NEW u \in Emails, DOMAIN profile[u] # {}
               PROVE  DOMAIN profile[u] = Fields /\ profile[u]["password"] = profile[u]["email"]
      BY DEF ProfilesAreWhole
  <2>1. writes[d] = <<>>
      BY DEF Quiet
  <2>2. \A v \in Texts : StoredUpTo(profile[u], "name", v)
      BY <2>1 DEF WholeInv, StoredInFrontOf
  <2>3. StoredUpTo(profile[u], "name", NoUser)
      BY <2>2 DEF Texts
  <2>4. FieldsBefore("name") = {}
      BY DEF FieldsBefore
  <2> QED
      BY <2>3, <2>4 DEF StoredUpTo, Fields
<1> QED
    BY <1>1, <1>2, <1>3, PTL DEF Spec
=============================================================================
