------------------------- MODULE StreamClientProofs -------------------------
(* Machine-checked facts about StreamClient, for every value of its constants. *)
EXTENDS StreamClient, TLAPS

-----------------------------------------------------------------------------
(* The inductive invariant *)

UserType == [call : {"none", "connect", "isLive"}, i : 1..Len(topics), live : BOOLEAN, lost : Nat,
             at : {"idle", "auth", "has", "ask", "creating", "confirmed?", "told", "run", "joining"}]

ClientTypes ==
  /\ up \in BOOLEAN /\ phase \in [Topics -> Phases]
  /\ sessions \in Nat /\ losses \in Nat
  /\ user \in [Users -> UserType]

\* clientLocker is kept over a step only by the one user who creates the session or joins
\* the old io thread; as long as the session is being created there is none.
LockInv ==
  /\ \A u \in Users : At(u, "creating") \/ At(u, "joining") => clientLocker = {u}
  /\ \A u \in Users : At(u, "creating") => sessions = 0
  /\ sessions <= 1

\* isLive() has seen the link up and, so far, every topic confirmed; if no connection
\* was lost since then, they all still are.
AskedSoFar(u) == IF At(u, "told") THEN 1..Len(topics) ELSE 1..(user[u].i - 1)
LiveInv(u) ==
  /\ user[u].lost <= losses
  /\ user[u].live /\ user[u].lost = losses =>
       up /\ \A j \in AskedSoFar(u) : phase[topics[j]] = "confirmed"
  /\ At(u, "auth") => user[u].i = 1

ClientInv == ClientTypes /\ LockInv /\ \A u \in Users : LiveInv(u)

-----------------------------------------------------------------------------
(* What a step leaves alone *)

\* The book is of its type, nothing goes down, and what is confirmed stays so.
BookKept ==
  /\ up' \in BOOLEAN /\ phase' \in [Topics -> Phases] /\ (up => up')
  /\ \A t \in Topics : phase[t] = "confirmed" => phase'[t] = "confirmed"

\* The topics a user subscribes are topics of the book.
LEMMA TopicsTyped == \A j \in 1..Len(topics) : topics[j] \in Topics
  BY ClientAssumption

\* Unless a connection is lost, what a user was told stays true.
LEMMA LiveFrame ==
  ASSUME ClientInv, NEW u \in Users, user'[u] = user[u],
         (losses' = losses /\ BookKept) \/ losses' = losses + 1
  PROVE  LiveInv(u)'
  <1>1. /\ user[u].lost \in Nat /\ user[u].lost <= losses /\ losses \in Nat
        /\ user[u].i \in 1..Len(topics) /\ AskedSoFar(u)' = AskedSoFar(u)
    BY DEF ClientInv, ClientTypes, UserType, LiveInv, AskedSoFar, At
  <1>2. \A j \in AskedSoFar(u) : topics[j] \in Topics
    BY <1>1, TopicsTyped, ClientAssumption DEF AskedSoFar
  <1>3. user[u].live /\ user[u].lost = losses =>
          up /\ \A j \in AskedSoFar(u) : phase[topics[j]] = "confirmed"
    BY DEF ClientInv, LiveInv
  <1>4. CASE losses' = losses /\ BookKept
    <2>1. (user[u].live /\ user[u].lost = losses =>
             up /\ \A j \in AskedSoFar(u) : phase[topics[j]] = "confirmed")'
      <3> SUFFICES ASSUME user'[u].live, user'[u].lost = losses'
                   PROVE  up' /\ \A j \in AskedSoFar(u) : phase'[topics[j]] = "confirmed"
        BY <1>1, Zenon
      <3>1. user[u].live /\ user[u].lost = losses
        BY <1>4, Zenon
      <3>2. up'
        BY <1>3, <1>4, <3>1, Zenon DEF BookKept
      <3>3. ASSUME NEW j \in AskedSoFar(u) PROVE phase'[topics[j]] = "confirmed"
        BY <1>2, <1>3, <1>4, <3>1, <3>3, Zenon DEF BookKept
      <3> QED BY <3>2, <3>3
    <2>2. (user[u].lost <= losses)' /\ (At(u, "auth") => user[u].i = 1)'
      BY <1>1, <1>4 DEF ClientInv, LiveInv, At
    <2> QED BY <2>1, <2>2 DEF LiveInv
  <1>5. CASE losses' = losses + 1
    BY <1>1, <1>5 DEF ClientInv, LiveInv, At
  <1> QED BY <1>4, <1>5

\* A step of one user that keeps the book.
LEMMA UserStep ==
  ASSUME ClientInv, NEW u \in Users, user' = [user EXCEPT ![u] = user'[u]], user'[u] \in UserType,
         BookKept, losses' = losses, sessions' \in Nat, LockInv', LiveInv(u)'
  PROVE  ClientInv'
  <1>1. ASSUME NEW v \in Users PROVE LiveInv(v)'
    <2>1. v # u => user'[v] = user[v]
      BY DEF ClientInv, ClientTypes
    <2> QED BY <2>1, LiveFrame
  <1>2. ClientTypes'
    <2>1. user' \in [Users -> UserType]
      BY DEF ClientInv, ClientTypes
    <2>2. up' \in BOOLEAN /\ phase' \in [Topics -> Phases] /\ losses' \in Nat
      BY Zenon DEF ClientInv, ClientTypes, BookKept
    <2> QED BY <2>1, <2>2, Zenon DEF ClientTypes
  <1> QED BY <1>1, <1>2 DEF ClientInv

\* A step of the io thread or of the destructor: no user, and no session of the client.
LEMMA OtherStep ==
  ASSUME ClientInv, UNCHANGED <<user, sessions, clientLocker>>,
         up' \in BOOLEAN /\ phase' \in [Topics -> Phases],
         (losses' = losses /\ BookKept) \/ losses' = losses + 1
  PROVE  ClientInv'
  <1>1. ASSUME NEW v \in Users PROVE LiveInv(v)'
    BY LiveFrame
  <1>2. ClientTypes' /\ LockInv'
    BY DEF ClientInv, ClientTypes, LockInv, At
  <1> QED BY <1>1, <1>2 DEF ClientInv

\* The steps of the book that a client sees while its connection holds.
LEMMA BookSteps ==
  ASSUME ClientInv
  PROVE  /\ UNCHANGED book => BookKept
         /\ GoUp => BookKept
         /\ SendAll => BookKept
         /\ \A t \in Topics : Request(t) => BookKept
         /\ Ack(In({"sent"})) => BookKept
         /\ \A t \in Topics : phase[t] = "sent" /\ Reject({t}) => BookKept
  BY DEF ClientInv, ClientTypes, BookKept, Request, GoUp, SendAll, Ack, Reject, Move, In, Phases,
     book

-----------------------------------------------------------------------------
(* The users' calls *)

\* A user goes on to a place that is none of the two that hold the locker.
LEMMA LockStep ==
  ASSUME ClientInv, NEW u \in Users, user' = [user EXCEPT ![u] = user'[u]],
         user'[u].at \notin {"creating", "joining"}, UNCHANGED <<sessions, clientLocker>>
  PROVE  LockInv'
  BY DEF ClientInv, ClientTypes, LockInv, At

\* The begin of a public call keeps the invariant.
LEMMA BeginStep ==
  ASSUME ClientInv, NEW u \in Users, Connect(u) \/ IsLive(u) PROVE ClientInv'
  <1>1. PICK call \in {"connect", "isLive"}, where \in {"has", "auth"} :
          /\ user'[u] = [call |-> call, at |-> where, i |-> 1, live |-> FALSE, lost |-> losses]
          /\ user' = [user EXCEPT ![u] = user'[u]]
          /\ UNCHANGED <<up, phase, sessions, clientLocker, losses>>
    BY DEF Connect, IsLive, Begin, ClientInv, ClientTypes, book, client, faults
  <1>2. user'[u] \in UserType
    BY <1>1, ClientAssumption DEF UserType, ClientInv, ClientTypes
  <1>3. LockInv'
    BY <1>1, LockStep
  <1>4. LiveInv(u)'
    BY <1>1 DEF LiveInv, At, ClientInv, ClientTypes
  <1>5. BookKept
    BY <1>1, BookSteps DEF book
  <1> QED BY <1>1, <1>2, <1>3, <1>4, <1>5, UserStep DEF ClientInv, ClientTypes

\* isAuthenticated, which reads the session under the lock, keeps the invariant.
LEMMA IsAuthenticatedStep ==
  ASSUME ClientInv, NEW u \in Users, IsAuthenticated(u) PROVE ClientInv'
  <1>0. user[u] \in UserType
    BY DEF ClientInv, ClientTypes
  <1>1. /\ user'[u] = [call |-> user[u].call, at |-> "has", i |-> user[u].i, live |-> Exists /\ up,
                       lost |-> user[u].lost]
        /\ user' = [user EXCEPT ![u] = user'[u]] /\ At(u, "auth")
        /\ UNCHANGED <<up, phase, sessions, clientLocker, losses>>
    BY DEF IsAuthenticated, ClientInv, ClientTypes, book, client, faults
  <1>2. user'[u] \in UserType
    BY <1>0, <1>1 DEF UserType
  <1>3. LockInv'
    BY <1>1, LockStep
  <1>4. LiveInv(u)'
    <2>1. user[u].i = 1 /\ user[u].lost <= losses
      BY <1>1 DEF ClientInv, LiveInv
    <2>2. AskedSoFar(u)' = {}
      BY <1>1, <2>1 DEF AskedSoFar, At
    <2>3. user'[u].live = (Exists /\ up)
      BY <1>1
    <2>4. user'[u].live => up
      BY <2>3, Zenon
    <2> QED BY <1>1, <2>1, <2>2, <2>4 DEF LiveInv, At
  <1>5. BookKept
    BY <1>1, BookSteps DEF book
  <1> QED BY <1>1, <1>2, <1>3, <1>4, <1>5, UserStep DEF ClientInv, ClientTypes

\* A user goes on to the next topic, or is through with them.
LEMMA NextTopicEffect ==
  ASSUME ClientInv, NEW u \in Users, NEW live \in BOOLEAN, NextTopic(u, live)
  PROVE  /\ user' = [user EXCEPT ![u] = user'[u]] /\ user'[u] \in UserType
         /\ user'[u].at \in {"has", "run", "told"}
         /\ user'[u].live = live /\ user'[u].lost = user[u].lost
         /\ AskedSoFar(u)' \subseteq 1..user[u].i
  <1>0. user[u] \in UserType
    BY DEF ClientInv, ClientTypes
  <1>1. /\ user'[u] = [call |-> user[u].call, live |-> live, lost |-> user[u].lost,
                       i  |-> IF user[u].i = Len(topics) THEN 1 ELSE user[u].i + 1,
                       at |-> IF user[u].i # Len(topics) THEN "has"
                              ELSE IF user[u].call = "connect" THEN "run" ELSE "told"]
        /\ user' = [user EXCEPT ![u] = user'[u]]
    BY DEF NextTopic, ClientInv, ClientTypes
  <1>2. Len(topics) \in Nat \ {0}
    BY ClientAssumption
  <1>3. user'[u] \in UserType
    BY <1>0, <1>1, <1>2 DEF UserType
  <1>4. AskedSoFar(u)' \subseteq 1..user[u].i
    BY <1>0, <1>1, <1>2 DEF AskedSoFar, At, UserType
  <1> QED BY <1>1, <1>3, <1>4

\* A user that has asked for a topic: connect() goes on, isLive() looks if it is confirmed.
LEMMA AfterAskingEffect ==
  ASSUME ClientInv, NEW u \in Users, AfterAsking(u), user[u].at \in {"has", "ask", "creating"},
         BookKept, losses' = losses
  PROVE  /\ user' = [user EXCEPT ![u] = user'[u]] /\ user'[u] \in UserType
         /\ user'[u].at \in {"has", "run", "told", "confirmed?"} /\ LiveInv(u)'
  <1>0. user[u] \in UserType /\ user[u].lost <= losses
    BY DEF ClientInv, ClientTypes, LiveInv
  <1>1. CASE NextTopic(u, FALSE)
    <2>1. /\ user' = [user EXCEPT ![u] = user'[u]] /\ user'[u] \in UserType
          /\ user'[u].at \in {"has", "run", "told"}
          /\ user'[u].live = FALSE /\ user'[u].lost = user[u].lost
      BY <1>1, NextTopicEffect
    <2>2. LiveInv(u)'
      BY <1>0, <2>1 DEF LiveInv, At
    <2> QED BY <2>1, <2>2
  <1>2. CASE Go(u, "confirmed?")
    <2>1. /\ user' = [user EXCEPT ![u] = user'[u]]
          /\ user'[u] = [call |-> user[u].call, at |-> "confirmed?", i |-> user[u].i,
                         live |-> user[u].live, lost |-> user[u].lost]
      BY <1>0, <1>2 DEF Go, ClientInv, ClientTypes, UserType
    <2>2. user'[u] \in UserType
      BY <1>0, <2>1 DEF UserType
    <2>3. AskedSoFar(u)' = AskedSoFar(u) /\ \A j \in AskedSoFar(u) : topics[j] \in Topics
      BY <1>0, <2>1, TopicsTyped, ClientAssumption DEF AskedSoFar, At, UserType
    <2>4. user'[u].live = user[u].live /\ user'[u].lost = user[u].lost
      BY <2>1
    <2>5. ASSUME user'[u].live, user'[u].lost = losses'
          PROVE  up' /\ \A j \in AskedSoFar(u)' : phase'[topics[j]] = "confirmed"
      <3>1. up /\ \A j \in AskedSoFar(u) : phase[topics[j]] = "confirmed"
        BY <2>4, <2>5, Zenon DEF ClientInv, LiveInv
      <3> QED BY <3>1, <2>3, Zenon DEF BookKept
    <2>6. LiveInv(u)'
      BY <1>0, <2>1, <2>4, <2>5 DEF LiveInv, At
    <2> QED BY <2>1, <2>2, <2>6
  <1> QED BY <1>1, <1>2 DEF AfterAsking

\* isSubscribed, which asks the session it finds, keeps the invariant.
LEMMA IsSubscribedStep ==
  ASSUME ClientInv, NEW u \in Users, IsSubscribed(u) PROVE ClientInv'
  <1>0. user[u] \in UserType
    BY DEF ClientInv, ClientTypes
  <1>1. At(u, "has") /\ UNCHANGED <<up, phase, sessions, clientLocker, losses>>
    BY DEF IsSubscribed, book, client, faults
  <1>2. BookKept
    BY <1>1, BookSteps DEF book
  <1>3. CASE AfterAsking(u)
    <2>1. /\ user' = [user EXCEPT ![u] = user'[u]] /\ user'[u] \in UserType
          /\ user'[u].at \in {"has", "run", "told", "confirmed?"} /\ LiveInv(u)'
      BY <1>1, <1>2, <1>3, AfterAskingEffect DEF At
    <2>2. LockInv'
      BY <1>1, <2>1, LockStep
    <2> QED BY <1>1, <1>2, <2>1, <2>2, UserStep DEF ClientInv, ClientTypes
  <1>4. CASE Go(u, "ask")
    <2>1. /\ user' = [user EXCEPT ![u] = user'[u]]
          /\ user'[u] = [call |-> user[u].call, at |-> "ask", i |-> user[u].i,
                         live |-> user[u].live, lost |-> user[u].lost]
      BY <1>0, <1>4 DEF Go, ClientInv, ClientTypes, UserType
    <2>2. user'[u] \in UserType
      BY <1>0, <2>1 DEF UserType
    <2>3. LockInv'
      BY <1>1, <2>1, LockStep
    <2>4. LiveInv(u)'
      BY <1>1, <2>1 DEF ClientInv, LiveInv, AskedSoFar, At
    <2> QED BY <1>1, <1>2, <2>1, <2>2, <2>3, <2>4, UserStep DEF ClientInv, ClientTypes
  <1> QED BY <1>3, <1>4 DEF IsSubscribed

\* The topic a user is at is a topic of the book.
LEMMA TopicOfUser == ASSUME ClientInv, NEW u \in Users PROVE topic(u) \in Topics
  BY TopicsTyped DEF ClientInv, ClientTypes, UserType, topic

\* subscribe, which hands the topic to the session it finds, keeps the invariant.
LEMMA SubscribeStep ==
  ASSUME ClientInv, NEW u \in Users, Subscribe(u) PROVE ClientInv'
  <1>0. user[u] \in UserType
    BY DEF ClientInv, ClientTypes
  <1>1. At(u, "ask") /\ MayLock /\ UNCHANGED <<sessions, losses>>
    BY DEF Subscribe, client, faults
  <1>2. BookKept
    <2>1. Request(topic(u)) \/ UNCHANGED book
      BY DEF Subscribe
    <2> QED BY <2>1, BookSteps, TopicOfUser
  <1>3. CASE Exists
    <2>1. AfterAsking(u) /\ UNCHANGED clientLocker
      BY <1>3 DEF Subscribe
    <2>2. /\ user' = [user EXCEPT ![u] = user'[u]] /\ user'[u] \in UserType
          /\ user'[u].at \in {"has", "run", "told", "confirmed?"} /\ LiveInv(u)'
      BY <1>1, <1>2, <2>1, AfterAskingEffect DEF At
    <2>3. LockInv'
      BY <1>1, <2>1, <2>2, LockStep
    <2> QED BY <1>1, <1>2, <2>2, <2>3, UserStep DEF ClientInv, ClientTypes
  <1>4. CASE ~Exists
    <2>0. Go(u, "creating") /\ clientLocker' = {u} /\ UNCHANGED <<up, phase>>
      BY <1>4 DEF Subscribe, book
    <2>1. /\ user' = [user EXCEPT ![u] = user'[u]]
          /\ user'[u] = [call |-> user[u].call, at |-> "creating", i |-> user[u].i,
                         live |-> user[u].live, lost |-> user[u].lost]
      BY <1>0, <2>0 DEF Go, ClientInv, ClientTypes, UserType
    <2>2. user'[u] \in UserType
      BY <1>0, <2>1 DEF UserType
    <2>3. ASSUME NEW v \in Users, v # u PROVE user'[v] = user[v] /\ ~At(v, "creating") /\ ~At(v, "joining")
      BY <1>1, <2>1, <2>3 DEF ClientInv, ClientTypes, LockInv, MayLock
    <2>4. LockInv'
      BY <1>1, <1>4, <2>0, <2>1, <2>3 DEF ClientInv, ClientTypes, LockInv, At, Exists
    <2>5. LiveInv(u)'
      BY <1>1, <2>0, <2>1 DEF ClientInv, LiveInv, AskedSoFar, At
    <2> QED BY <1>1, <1>2, <2>1, <2>2, <2>4, <2>5, UserStep DEF ClientInv, ClientTypes
  <1> QED BY <1>3, <1>4

\* The creation of the one session under the lock keeps the invariant.
LEMMA CreateSessionStep ==
  ASSUME ClientInv, NEW u \in Users, CreateSession(u) PROVE ClientInv'
  <1>1. At(u, "creating") /\ sessions' = sessions + 1 /\ clientLocker' = {} /\ UNCHANGED losses
    BY DEF CreateSession, faults
  <1>2. BookKept
    <2>1. Request(topic(u)) \/ UNCHANGED book
      BY DEF CreateSession
    <2> QED BY <2>1, BookSteps, TopicOfUser
  <1>3. /\ user' = [user EXCEPT ![u] = user'[u]] /\ user'[u] \in UserType
        /\ user'[u].at \in {"has", "run", "told", "confirmed?"} /\ LiveInv(u)'
    BY <1>1, <1>2, AfterAskingEffect DEF CreateSession, At
  <1>4. ASSUME NEW v \in Users, v # u PROVE user'[v] = user[v] /\ ~At(v, "creating") /\ ~At(v, "joining")
    BY <1>1, <1>3, <1>4 DEF ClientInv, ClientTypes, LockInv
  <1>5. LockInv' /\ sessions' \in Nat
    BY <1>1, <1>3, <1>4 DEF ClientInv, ClientTypes, LockInv, At
  <1> QED BY <1>1, <1>2, <1>3, <1>5, UserStep

\* isSubscriptionConfirmed(): one more topic is known to be confirmed, or the answer is no.
LEMMA IsConfirmedStep ==
  ASSUME ClientInv, NEW u \in Users, IsConfirmed(u) PROVE ClientInv'
  <1>0. user[u] \in UserType /\ user[u].lost <= losses
    BY DEF ClientInv, ClientTypes, LiveInv
  <1>1. At(u, "confirmed?") /\ UNCHANGED <<up, phase, sessions, clientLocker, losses>>
    BY DEF IsConfirmed, book, client, faults
  <1>2. BookKept
    BY <1>1, BookSteps DEF book
  <1>3. PICK live \in BOOLEAN : live = (user[u].live /\ Confirmed(topic(u))) /\ NextTopic(u, live)
    BY DEF IsConfirmed
  <1>4. /\ user' = [user EXCEPT ![u] = user'[u]] /\ user'[u] \in UserType
        /\ user'[u].at \in {"has", "run", "told"}
        /\ user'[u].live = live /\ user'[u].lost = user[u].lost
        /\ AskedSoFar(u)' \subseteq 1..user[u].i
    BY <1>3, NextTopicEffect
  <1>5. LockInv'
    BY <1>1, <1>4, LockStep
  <1>6. LiveInv(u)'
    <2>1. ASSUME user'[u].live, user'[u].lost = losses'
          PROVE  up' /\ \A j \in AskedSoFar(u)' : phase'[topics[j]] = "confirmed"
      <3>1. user[u].live /\ Confirmed(topic(u)) /\ user[u].lost = losses
        BY <1>1, <1>3, <1>4, <2>1, Zenon
      <3>2. up /\ \A j \in AskedSoFar(u) : phase[topics[j]] = "confirmed"
        BY <3>1, Zenon DEF ClientInv, LiveInv
      <3>3. AskedSoFar(u) = 1..(user[u].i - 1)
        BY <1>1 DEF AskedSoFar, At
      <3>4. phase[topics[user[u].i]] = "confirmed"
        BY <3>1 DEF Confirmed, topic
      <3>5. ASSUME NEW j \in 1..user[u].i PROVE phase[topics[j]] = "confirmed"
        <4>1. j \in 1..(user[u].i - 1) \/ j = user[u].i
          BY <1>0 DEF UserType
        <4> QED BY <4>1, <3>2, <3>3, <3>4
      <3>6. up' /\ phase' = phase
        BY <1>1, <3>2, Zenon
      <3> QED BY <1>4, <3>5, <3>6
    <2> QED BY <1>0, <1>1, <1>4, <2>1 DEF LiveInv, At
  <1> QED BY <1>1, <1>2, <1>4, <1>5, <1>6, UserStep DEF ClientInv, ClientTypes

\* A user in no call.
LEMMA NoCallType == NoCall \in UserType
  BY ClientAssumption DEF UserType, NoCall

\* The calls end; run() takes the locker until the new io thread is started.
LEMMA EndStep ==
  ASSUME ClientInv, NEW u \in Users, user' = [user EXCEPT ![u] = NoCall],
         UNCHANGED <<up, phase, sessions, losses>>, LockInv'
  PROVE  ClientInv'
  <1>1. user'[u] = NoCall /\ user' = [user EXCEPT ![u] = user'[u]]
    BY DEF ClientInv, ClientTypes
  <1>2. user'[u] \in UserType
    BY <1>1, NoCallType
  <1>3. LiveInv(u)'
    BY <1>1 DEF LiveInv, At, NoCall, ClientInv, ClientTypes
  <1>4. BookKept
    BY BookSteps DEF book
  <1> QED BY <1>1, <1>2, <1>3, <1>4, UserStep DEF ClientInv, ClientTypes

\* The return of a call keeps the invariant.
LEMMA ReturnStep ==
  ASSUME ClientInv, NEW u \in Users, Return(u) PROVE ClientInv'
  <1>1. UNCHANGED <<up, phase, sessions, clientLocker, losses>> /\ user' = [user EXCEPT ![u] = NoCall]
    BY DEF Return, book, client, faults
  <1>2. LockInv'
    BY <1>1 DEF ClientInv, ClientTypes, LockInv, At, NoCall
  <1> QED BY <1>1, <1>2, EndStep

\* run, which starts the I/O thread once, keeps the invariant.
LEMMA StartThreadStep ==
  ASSUME ClientInv, NEW u \in Users, StartThread(u) PROVE ClientInv'
  <1>1. /\ UNCHANGED <<up, phase, sessions, losses>> /\ user' = [user EXCEPT ![u] = NoCall]
        /\ At(u, "joining")
    BY DEF StartThread, book, faults
  <1>2. ASSUME NEW v \in Users, v # u PROVE user'[v] = user[v] /\ ~At(v, "creating") /\ ~At(v, "joining")
    BY <1>1, <1>2 DEF ClientInv, ClientTypes, LockInv
  <1>3. LockInv'
    BY <1>1, <1>2 DEF ClientInv, ClientTypes, LockInv, At, NoCall
  <1> QED BY <1>1, <1>3, EndStep

\* Every step of the run call keeps the invariant.
LEMMA RunStep ==
  ASSUME ClientInv, NEW u \in Users, Run(u) PROVE ClientInv'
  <1>0. user[u] \in UserType
    BY DEF ClientInv, ClientTypes
  <1>1. At(u, "run") /\ MayLock /\ UNCHANGED <<up, phase, sessions, losses>>
    BY DEF Run, book, faults
  <1>2. CASE user' = [user EXCEPT ![u] = NoCall] /\ UNCHANGED clientLocker
    <2>1. LockInv'
      BY <1>1, <1>2 DEF ClientInv, ClientTypes, LockInv, At, NoCall
    <2> QED BY <1>1, <1>2, <2>1, EndStep
  <1>3. CASE Go(u, "joining") /\ clientLocker' = {u}
    <2>1. /\ user' = [user EXCEPT ![u] = user'[u]]
          /\ user'[u] = [call |-> user[u].call, at |-> "joining", i |-> user[u].i,
                         live |-> user[u].live, lost |-> user[u].lost]
      BY <1>0, <1>3 DEF Go, ClientInv, ClientTypes, UserType
    <2>2. user'[u] \in UserType
      BY <1>0, <2>1 DEF UserType
    <2>3. ASSUME NEW v \in Users, v # u PROVE user'[v] = user[v] /\ ~At(v, "creating") /\ ~At(v, "joining")
      BY <1>1, <2>1, <2>3 DEF ClientInv, ClientTypes, LockInv, MayLock
    <2>4. LockInv'
      BY <1>1, <1>3, <2>1, <2>3 DEF ClientInv, ClientTypes, LockInv, At
    <2>5. LiveInv(u)'
      BY <1>1, <2>1 DEF ClientInv, LiveInv, AskedSoFar, At
    <2>6. BookKept
      BY <1>1, BookSteps DEF book
    <2> QED BY <1>1, <2>1, <2>2, <2>4, <2>5, <2>6, UserStep DEF ClientInv, ClientTypes
  <1> QED BY <1>2, <1>3 DEF Run

-----------------------------------------------------------------------------
(* The io thread and the destructor *)

\* A connection is lost: the answers of all calls under way are about an older one.
LEMMA LostStep == ASSUME ClientInv, Lost PROVE ClientInv'
  <1>1. UNCHANGED <<user, sessions, clientLocker>> /\ losses' = losses + 1 /\ Lose
    BY DEF Lost, Handles
  <1>2. up' \in BOOLEAN /\ phase' \in [Topics -> Phases]
    BY <1>1 DEF Lose, Move, Phases, ClientInv, ClientTypes
  <1> QED BY <1>1, <1>2, OtherStep

\* Every handler of the I/O thread keeps the invariant.
LEMMA HandlerStep ==
  ASSUME ClientInv, Comes \/ Flush \/ Acked \/ CloseByUser \/ \E t \in Topics : Rejected(t)
  PROVE  ClientInv'
  <1>1. UNCHANGED <<user, sessions, clientLocker, losses>>
    BY DEF Comes, Flush, Acked, CloseByUser, Rejected, Handles
  <1>2. BookKept
    BY BookSteps DEF Comes, Flush, Acked, CloseByUser, Rejected
  <1> QED BY <1>1, <1>2, OtherStep DEF BookKept

\* The steps of the io thread outside the handlers and those of the destructor.
LEMMA ThreadStep ==
  ASSUME ClientInv, IoStep \/ BeginDestroy \/ DestructorStep PROVE ClientInv'
  <1>1. UNCHANGED <<user, sessions, clientLocker, losses, book>>
    BY DEF IoStep, EnterRun, RunReturns, LeaveLoop, BeginDestroy, DestructorStep,
           PostClose, Stop, Join, Destroy, faults
  <1>2. BookKept
    BY <1>1, BookSteps
  <1> QED BY <1>1, <1>2, OtherStep DEF BookKept

\* A handler that throws has kept the book, or lost the connection.
LEMMA ThrowStep == ASSUME ClientInv, HandlerThrows PROVE ClientInv'
  <1>1. UNCHANGED <<user, sessions, clientLocker>>
    BY DEF HandlerThrows
  <1>2. CASE ThrowInHandler
    <2>1. ASSUME NEW t \in Topics, Reject({t}) PROVE BookKept
      <3>1. phase[t] = "sent"
        BY <2>1 DEF Reject, In
      <3> QED BY <2>1, <3>1, BookSteps
    <2>2. BookKept /\ losses' = losses
      BY <1>2, <2>1, BookSteps DEF ThrowInHandler
    <2> QED BY <1>1, <2>2, OtherStep DEF BookKept
  <1>3. CASE ThrowBeforeTimer
    <2>1. losses' = losses + 1 /\ Lose
      BY <1>3 DEF ThrowBeforeTimer
    <2>2. up' \in BOOLEAN /\ phase' \in [Topics -> Phases]
      BY <2>1 DEF Lose, Move, Phases, ClientInv, ClientTypes
    <2> QED BY <1>1, <2>1, <2>2, OtherStep
  <1>4. CASE ThrowAfterClose
    <2>1. BookKept /\ losses' = losses
      BY <1>4, BookSteps DEF ThrowAfterClose
    <2> QED BY <1>1, <2>1, OtherStep DEF BookKept
  <1> QED BY <1>2, <1>3, <1>4 DEF HandlerThrows

-----------------------------------------------------------------------------
(* The theorems *)

\* The invariant holds in a client that was just constructed.
LEMMA InitInv == Init => ClientInv
  <1> SUFFICES ASSUME Init PROVE ClientInv  OBVIOUS
  <1>1. NoCall \in UserType
    BY NoCallType
  <1>2. ClientTypes
    BY <1>1 DEF Init, BookInit, ClientTypes, Phases
  <1>3. LockInv /\ \A u \in Users : LiveInv(u)
    BY DEF Init, LockInv, LiveInv, At, NoCall
  <1> QED BY <1>2, <1>3 DEF ClientInv

\* Every step of the client keeps the invariant.
LEMMA NextInv == ClientInv /\ [Next]_vars => ClientInv'
  <1> SUFFICES ASSUME ClientInv, [Next]_vars PROVE ClientInv'  OBVIOUS
  <1>1. ASSUME NEW u \in Users, Connect(u) \/ IsLive(u) \/ InCall(u) PROVE ClientInv'
    BY <1>1, BeginStep, IsAuthenticatedStep, IsSubscribedStep, SubscribeStep, CreateSessionStep,
       IsConfirmedStep, ReturnStep, RunStep, StartThreadStep DEF InCall
  <1>2. CASE \/ IoStep \/ HandlerThrows \/ BeginDestroy \/ DestructorStep
             \/ Comes \/ Flush \/ Acked \/ Lost \/ CloseByUser \/ \E t \in Topics : Rejected(t)
    BY <1>2, ThreadStep, ThrowStep, HandlerStep, LostStep
  <1>3. CASE UNCHANGED vars
    <2>1. UNCHANGED <<user, sessions, clientLocker, losses, book>>
      BY <1>3 DEF vars, client, faults
    <2>2. BookKept
      BY <2>1, BookSteps
    <2> QED BY <2>1, <2>2, OtherStep DEF BookKept
  <1> QED BY <1>1, <1>2, <1>3 DEF Next

\* The locker and what the users were told so far are as the invariant says, always.
THEOREM ClientInvariant == Spec => []ClientInv
  BY InitInv, NextInv, PTL DEF Spec

\* However many threads subscribe at once, one session is created.
THEOREM OneSessionOnly == Spec => []OneSession
  <1>1. ClientInv => OneSession
    BY DEF ClientInv, LockInv, OneSession
  <1> QED BY <1>1, ClientInvariant, PTL

\* For any number of users and topics: isLive() answers yes only if, unless the connection
\* was lost meanwhile, the link is up and every topic is confirmed.
THEOREM LiveIsLive == Spec => []ToldLive
  <1>1. ClientInv => ToldLive
    <2> SUFFICES ASSUME ClientInv, NEW u \in Users, At(u, "told"), user[u].live, user[u].lost = losses
                 PROVE  up /\ \A t \in Topics : phase[t] = "confirmed"
      BY DEF ToldLive
    <2>1. up /\ \A j \in AskedSoFar(u) : phase[topics[j]] = "confirmed"
      BY Zenon DEF ClientInv, LiveInv
    <2>2. AskedSoFar(u) = 1..Len(topics)
      BY DEF AskedSoFar
    <2>3. \A t \in Topics : phase[t] = "confirmed"
      BY <2>1, <2>2, ClientAssumption
    <2> QED BY <2>1, <2>3
  <1> QED BY <1>1, ClientInvariant, PTL

============================================================================
