--------------------------- MODULE Gateway_proofs ---------------------------
(***************************************************************************)
(* The gateway and its dashboards, for any requests, users and tabs and    *)
(* any number of queues and restarts.                                      *)
(***************************************************************************)
EXTENDS Gateway, NatInduction, SequenceTheorems

USE GatewayAssumption

-----------------------------------------------------------------------------
(* Types. *)

Queue == Seq(Event)

LEMMA SeqFacts ==
  ASSUME NEW S, NEW s \in Seq(S)
  PROVE  /\ Len(s) \in Nat /\ DOMAIN s = 1..Len(s)
         /\ \A i \in 1..Len(s) : s[i] \in S
  BY LenProperties

\* A push lengthens at most the user's own queue, by one event at its end.
LEMMA PushedType ==
  ASSUME NEW qs \in Seq(Queue), NEW u \in Users, NEW e \in Event,
         connection[u] \in 0..Len(qs)
  PROVE  /\ Pushed(qs, u, e) \in Seq(Queue)
         /\ Len(Pushed(qs, u, e)) = Len(qs)
         /\ \A k \in 1..Len(qs) :
              Pushed(qs, u, e)[k] = IF k = connection[u] THEN Append(qs[k], e) ELSE qs[k]
<1>1. CASE connection[u] = 0
  BY <1>1, SeqFacts DEF Pushed
<1>2. CASE connection[u] # 0
  <2> DEFINE n == connection[u]
  <2>0. Len(qs) \in Nat
    BY SeqFacts
  <2>1. n \in 1..Len(qs)
    BY <1>2, <2>0
  <2>2. qs[n] \in Queue
    BY <2>1, SeqFacts
  <2>3. Append(qs[n], e) \in Queue
    BY <2>2, AppendProperties DEF Queue
  <2>4. Pushed(qs, u, e) = [qs EXCEPT ![n] = Append(qs[n], e)]
    BY <1>2 DEF Pushed
  <2> HIDE DEF n
  <2>5. /\ [qs EXCEPT ![n] = Append(qs[n], e)] \in Seq(Queue)
        /\ Len([qs EXCEPT ![n] = Append(qs[n], e)]) = Len(qs)
        /\ \A k \in 1..Len(qs) : [qs EXCEPT ![n] = Append(qs[n], e)][k] =
                                   IF k = n THEN Append(qs[n], e) ELSE qs[k]
    BY <2>1, <2>3, ExceptSeq
  <2> QED BY <2>4, <2>5 DEF n
<1> QED BY <1>1, <1>2

\* The head of a queue is taken.
LEMMA TakenType ==
  ASSUME NEW qs \in Seq(Queue), NEW n \in 1..Len(qs), qs[n] # <<>>
  PROVE  /\ [qs EXCEPT ![n] = Tail(@)] \in Seq(Queue)
         /\ Len([qs EXCEPT ![n] = Tail(@)]) = Len(qs)
         /\ \A k \in 1..Len(qs) :
              [qs EXCEPT ![n] = Tail(@)][k] = IF k = n THEN Tail(qs[k]) ELSE qs[k]
         /\ Head(qs[n]) \in Event
<1>1. qs[n] \in Queue
  BY SeqFacts
<1>2. Tail(qs[n]) \in Queue /\ Head(qs[n]) \in Event
  BY <1>1, HeadTailProperties DEF Queue
<1> QED BY <1>2, ExceptSeq

LEMMA ShownType ==
  ASSUME NEW card \in {"none", "pending"} \cup Actions, NEW e \in Event
  PROVE  Shown(card, e) \in {"none", "pending"} \cup Actions
  BY DEF Shown, Event, Actions

\* One queue is added at the end, empty.
LEMMA NewQueueType ==
  ASSUME NEW qs \in Seq(Queue)
  PROVE  /\ Append(qs, <<>>) \in Seq(Queue)
         /\ Len(Append(qs, <<>>)) = Len(qs) + 1
         /\ \A k \in 1..Len(qs) : Append(qs, <<>>)[k] = qs[k]
         /\ Append(qs, <<>>)[Len(qs) + 1] = <<>>
<1>1. <<>> \in Queue
  BY DEF Queue
<1> QED BY <1>1, AppendProperties

LEMMA PostFacts ==
  ASSUME NEW po \in [Tabs -> [Requests -> Posts]], NEW b \in Tabs
  PROVE  /\ Idle \in Posts /\ Refused \in Posts
         /\ [po EXCEPT ![b] = [r \in Requests |-> Idle]] \in [Tabs -> [Requests -> Posts]]
         /\ \A r \in Requests : \A p \in Posts :
              [po EXCEPT ![b][r] = p] \in [Tabs -> [Requests -> Posts]]
<1>1. Idle \in Posts /\ Refused \in Posts
  BY DEF Idle, Refused, Posts
<1> QED BY <1>1

LEMMA InitTypeOK == Init => TypeOK
  BY DEF Init, TypeOK, Posts, Idle

LEMMA NextTypeOK == TypeOK /\ [Next]_vars => TypeOK'
<1> SUFFICES ASSUME TypeOK, [Next]_vars PROVE TypeOK'
  OBVIOUS
<1> USE DEF vars, storeVars, sseVars, traceVars
<1>0. /\ queues \in Seq(Queue) /\ Len(queues) \in Nat /\ Len(queues) <= MaxQueues
      /\ connection \in [Users -> 0..Len(queues)]
      /\ stream \in [Tabs -> 0..Len(queues)] /\ dying \in [Tabs -> 0..Len(queues)]
  BY SeqFacts DEF TypeOK, Queue
<1>1. ASSUME NEW r \in Requests, CreateRequest(r) PROVE TypeOK'
  <2> DEFINE e == [type |-> "approval_request", request |-> r]
  <2>1. e \in Event /\ InstructorOf[r] \in Users
    BY DEF Event
  <2>2. queues' = Pushed(queues, InstructorOf[r], e)
    BY <1>1 DEF CreateRequest
  <2>3. queues' \in Seq(Queue) /\ Len(queues') = Len(queues)
    <3> HIDE DEF e
    <3> QED BY <1>0, <2>1, <2>2, PushedType
  <2> QED BY <1>0, <1>1, <2>3 DEF CreateRequest, TypeOK, Queue
<1>2. ASSUME NEW b \in Tabs, OpenStream(b) PROVE TypeOK'
  <2>1. /\ UNCHANGED <<approvals, restarts, dying, cards, post, owed>>
        /\ steady' \subseteq Tabs
        /\ watched' \in [Tabs -> SUBSET Requests]
    BY <1>2 DEF OpenStream, TypeOK
  <2>2. UserOf[b] \in Users
    OBVIOUS
  <2>3. CASE UNCHANGED <<connection, queues>>
                 /\ stream' = [stream EXCEPT ![b] = connection[UserOf[b]]]
    BY <1>0, <2>1, <2>2, <2>3 DEF TypeOK
  <2>4. CASE /\ Len(queues) < MaxQueues
             /\ queues' = Append(queues, <<>>)
             /\ connection' = [connection EXCEPT ![UserOf[b]] = Len(queues) + 1]
             /\ stream' = [stream EXCEPT ![b] = Len(queues) + 1]
    <3>1. queues' \in Seq(Queue) /\ Len(queues') = Len(queues) + 1
      BY <1>0, <2>4, NewQueueType
    <3>2. Len(queues') <= MaxQueues
      BY <1>0, <2>4, <3>1
    <3>3. /\ connection' \in [Users -> 0..Len(queues')]
          /\ stream' \in [Tabs -> 0..Len(queues')]
          /\ dying' \in [Tabs -> 0..Len(queues')]
      BY <1>0, <2>1, <2>2, <2>4, <3>1
    <3> QED BY <2>1, <3>1, <3>2, <3>3 DEF TypeOK, Queue
  <2> QED BY <1>2, <2>3, <2>4 DEF OpenStream
<1>3. ASSUME NEW b \in Tabs, BreakStream(b) PROVE TypeOK'
  <2>1. \/ UNCHANGED cards
        \/ cards' = [cards EXCEPT ![b] = [r \in Requests |-> "none"]]
    BY <1>3 DEF BreakStream
  <2>2. cards' \in [Tabs -> [Requests -> {"none", "pending"} \cup Actions]]
    <3> DEFINE C == {"none", "pending"} \cup Actions
    <3>1. "none" \in C /\ cards \in [Tabs -> [Requests -> C]]
      BY DEF TypeOK
    <3> HIDE DEF C
    <3>2. [r \in Requests |-> "none"] \in [Requests -> C]
      BY <3>1
    <3>3. cards' \in [Tabs -> [Requests -> C]]
      BY <2>1, <3>1, <3>2
    <3> QED BY <3>3 DEF C
  <2>3. post' \in [Tabs -> [Requests -> Posts]]
    BY <1>3 DEF BreakStream, TypeOK
  <2>4. /\ dying' \in [Tabs -> 0..Len(queues)] /\ stream' \in [Tabs -> 0..Len(queues)]
        /\ UNCHANGED <<approvals, restarts, connection, queues>>
        /\ steady' \subseteq Tabs /\ watched' \in [Tabs -> SUBSET Requests]
        /\ owed' \subseteq Requests
    BY <1>0, <1>3 DEF BreakStream, TypeOK
  <2> QED BY <2>2, <2>3, <2>4 DEF TypeOK
<1>4. ASSUME NEW b \in Tabs, CancelStream(b) PROVE TypeOK'
  BY <1>0, <1>4 DEF CancelStream, TypeOK
<1>5. ASSUME NEW b \in Tabs, LoseEvent(b) PROVE TypeOK'
  <2>1. dying[b] \in 1..Len(queues)
    BY <1>0, <1>5 DEF LoseEvent
  <2>2. queues' \in Seq(Queue) /\ Len(queues') = Len(queues)
    BY <1>0, <1>5, <2>1, TakenType DEF LoseEvent
  <2> QED BY <1>0, <1>5, <2>2 DEF LoseEvent, TypeOK, Queue
<1>6. ASSUME NEW b \in Tabs, Deliver(b) PROVE TypeOK'
  <2>1. stream[b] \in 1..Len(queues)
    BY <1>0, <1>6 DEF Deliver
  <2>2. /\ queues' \in Seq(Queue) /\ Len(queues') = Len(queues)
        /\ Head(queues[stream[b]]) \in Event
    BY <1>0, <1>6, <2>1, TakenType DEF Deliver
  <2> DEFINE e == Head(queues[stream[b]])
  <2>3. e.request \in Requests
    BY <2>2 DEF Event
  <2>4. cards' = [cards EXCEPT ![b][e.request] = Shown(@, e)]
    BY <1>6 DEF Deliver
  <2>5. cards[b][e.request] \in {"none", "pending"} \cup Actions
    BY <2>3 DEF TypeOK
  <2> HIDE DEF e
  <2>6. cards' \in [Tabs -> [Requests -> {"none", "pending"} \cup Actions]]
    <3>1. Shown(cards[b][e.request], e) \in {"none", "pending"} \cup Actions
      BY <2>2, <2>5, ShownType DEF e
    <3> QED BY <2>3, <2>4, <3>1 DEF TypeOK
  <2> QED BY <1>0, <1>6, <2>2, <2>6 DEF Deliver, TypeOK, Queue
<1>7. ASSUME NEW b \in Tabs, NEW r \in Requests, NEW action \in Actions,
             SubmitDecision(b, r, action)
      PROVE  TypeOK'
  <2>1. post' \in [Tabs -> [Requests -> Posts]]
    BY <1>7 DEF SubmitDecision, TypeOK, Posts
  <2> QED BY <1>7, <2>1 DEF SubmitDecision, TypeOK
<1>8. ASSUME NEW b \in Tabs, NEW r \in Requests, HandleApproval(b, r) PROVE TypeOK'
  <2>0. post[b][r] \in Posts /\ post[b][r].stage = "sent"
    BY <1>8 DEF HandleApproval, TypeOK
  <2>1. CASE approvals[r] = "pending"
    <3> DEFINE a == post[b][r].action
               e == [type |-> "approval_result", request |-> r, action |-> a]
    <3>1. a \in Actions
      BY <2>0 DEF Posts
    <3>2. e \in Event
      BY <3>1 DEF Event
    <3>3. /\ queues' = Pushed(Pushed(queues, StudentOf[r], e), InstructorOf[r], e)
          /\ approvals' = [approvals EXCEPT ![r] = a]
          /\ post' = [post EXCEPT ![b][r].stage = "accepted"]
      BY <1>8, <2>1 DEF HandleApproval
    <3>4. StudentOf[r] \in Users /\ InstructorOf[r] \in Users
      OBVIOUS
    <3> HIDE DEF e, a
    <3>5. /\ Pushed(queues, StudentOf[r], e) \in Seq(Queue)
          /\ Len(Pushed(queues, StudentOf[r], e)) = Len(queues)
      BY <1>0, <3>2, <3>4, PushedType
    <3>6. queues' \in Seq(Queue) /\ Len(queues') = Len(queues)
      BY <1>0, <3>2, <3>3, <3>4, <3>5, PushedType
    <3>7. post' \in [Tabs -> [Requests -> Posts]]
      <4>1. [post[b][r] EXCEPT !.stage = "accepted"] \in Posts
        BY <2>0 DEF Posts
      <4> QED BY <3>3, <4>1 DEF TypeOK
    <3>8. approvals' \in [Requests -> {"absent", "pending", "gone"} \cup Actions]
      BY <3>1, <3>3 DEF TypeOK
    <3> QED BY <1>0, <1>8, <3>6, <3>7, <3>8 DEF HandleApproval, TypeOK, Queue
  <2>2. CASE approvals[r] # "pending"
    <3>1. post' = [post EXCEPT ![b][r] = Refused]
      BY <1>8, <2>2 DEF HandleApproval
    <3>2. post' \in [Tabs -> [Requests -> Posts]]
      BY <3>1, PostFacts DEF TypeOK
    <3> QED BY <1>8, <2>2, <3>2 DEF HandleApproval, TypeOK
  <2> QED BY <2>1, <2>2
<1>9. ASSUME NEW b \in Tabs, NEW r \in Requests, LosePost(b, r) PROVE TypeOK'
  <2>1. post' \in [Tabs -> [Requests -> Posts]]
    BY <1>9 DEF LosePost, TypeOK, Posts, Refused
  <2> QED BY <1>9, <2>1 DEF LosePost, TypeOK
<1>10. ASSUME NEW b \in Tabs, NEW r \in Requests, FinishDecision(b, r) PROVE TypeOK'
  <2>1. post' \in [Tabs -> [Requests -> Posts]]
    BY <1>10 DEF FinishDecision, TypeOK, Posts, Idle
  <2>2. post[b][r].stage = "accepted" => post[b][r].action \in Actions
    <3>1. post[b][r] \in Posts
      BY DEF TypeOK
    <3> QED BY <3>1 DEF Posts
  <2>3. cards' \in [Tabs -> [Requests -> {"none", "pending"} \cup Actions]]
    BY <1>10, <2>2 DEF FinishDecision, TypeOK
  <2> QED BY <1>10, <2>1, <2>3 DEF FinishDecision, TypeOK
<1>11. CASE Restart
  <2>1. /\ queues' = [q \in 1..Len(queues) |-> <<>>]
        /\ restarts' \in 0..MaxRestarts
    BY <1>0, <1>11, SeqFacts DEF Restart, TypeOK
  <2>2. queues' \in Seq(Queue) /\ Len(queues') = Len(queues)
    BY <1>0, <2>1 DEF Queue
  <2>3. post' \in [Tabs -> [Requests -> Posts]]
    BY <1>11 DEF Restart, Posts, Idle, Refused
  <2> QED BY <1>0, <1>11, <2>1, <2>2, <2>3 DEF Restart, TypeOK, Queue
<1>12. CASE UNCHANGED vars
  BY <1>12 DEF TypeOK
<1> QED
  BY <1>1, <1>2, <1>3, <1>4, <1>5, <1>6, <1>7, <1>8, <1>9, <1>10, <1>11, <1>12 DEF Next

\* The tables, streams and cards keep their types; in particular a stream is
\* never one of a queue that does not exist, across restarts too.
THEOREM TypeCorrect == Spec => []TypeOK
  BY InitTypeOK, NextTypeOK, PTL DEF Spec

-----------------------------------------------------------------------------
(* The truth of what is shown: an event that waits in a queue is already    *)
(* true, and nothing is known of a request before it is created.            *)

Queued(qs) ==
  {e \in Event : \E k \in 1..Len(qs) : \E i \in 1..Len(qs[k]) : qs[k][i] = e}

LEMMA QueuedPushed ==
  ASSUME NEW qs \in Seq(Queue), NEW u \in Users, NEW e \in Event,
         connection[u] \in 0..Len(qs)
  PROVE  Queued(Pushed(qs, u, e)) \subseteq Queued(qs) \cup {e}
<1> DEFINE ps == Pushed(qs, u, e)
<1>1. /\ Len(ps) = Len(qs)
      /\ \A k \in 1..Len(qs) : ps[k] = IF k = connection[u] THEN Append(qs[k], e) ELSE qs[k]
  BY PushedType
<1> HIDE DEF ps
<1>2. ASSUME NEW k \in 1..Len(qs), NEW i \in 1..Len(ps[k])
      PROVE  ps[k][i] = e \/ \E j \in 1..Len(qs[k]) : qs[k][j] = ps[k][i]
  <2>1. qs[k] \in Seq(Event) /\ Len(qs[k]) \in Nat
    BY SeqFacts DEF Queue
  <2>2. CASE ps[k] = Append(qs[k], e)
    <3>1. /\ Len(ps[k]) = Len(qs[k]) + 1
          /\ \A j \in 1..Len(qs[k]) : ps[k][j] = qs[k][j]
          /\ ps[k][Len(qs[k]) + 1] = e
      BY <2>1, <2>2, AppendProperties
    <3>2. i \in 1..Len(qs[k]) \/ i = Len(qs[k]) + 1
      BY <2>1, <3>1
    <3> QED BY <3>1, <3>2
  <2>3. CASE ps[k] = qs[k]
    BY <2>3
  <2> QED BY <1>1, <2>2, <2>3
<1> QED BY <1>1, <1>2 DEF Queued, ps

LEMMA QueuedTaken ==
  ASSUME NEW qs \in Seq(Queue), NEW n \in 1..Len(qs), qs[n] # <<>>
  PROVE  /\ Queued([qs EXCEPT ![n] = Tail(@)]) \subseteq Queued(qs)
         /\ Head(qs[n]) \in Queued(qs)
<1> DEFINE ts == [qs EXCEPT ![n] = Tail(@)]
<1>1. /\ Len(ts) = Len(qs) /\ Head(qs[n]) \in Event
      /\ \A k \in 1..Len(qs) : ts[k] = IF k = n THEN Tail(qs[k]) ELSE qs[k]
  BY TakenType
<1>2. qs[n] \in Seq(Event) /\ Len(qs[n]) \in Nat \ {0}
  BY SeqFacts, EmptySeq DEF Queue
<1>3. /\ Len(Tail(qs[n])) = Len(qs[n]) - 1
      /\ \A i \in 1..Len(Tail(qs[n])) : Tail(qs[n])[i] = qs[n][i + 1]
  BY <1>2, HeadTailProperties
<1>4. Head(qs[n]) = qs[n][1]
  BY <1>2
<1>5. Head(qs[n]) \in Queued(qs)
  BY <1>1, <1>2, <1>4 DEF Queued
<1> HIDE DEF ts
<1>6. ASSUME NEW k \in 1..Len(qs), NEW i \in 1..Len(ts[k])
      PROVE  \E j \in 1..Len(qs[k]) : qs[k][j] = ts[k][i]
  <2>1. CASE k = n
    <3>1. ts[k] = Tail(qs[n])
      BY <1>1, <2>1
    <3>2. i + 1 \in 1..Len(qs[k]) /\ ts[k][i] = qs[k][i + 1]
      BY <1>2, <1>3, <2>1, <3>1
    <3> QED BY <3>2
  <2>2. CASE k # n
    BY <1>1, <2>2
  <2> QED BY <2>1, <2>2
<1> QED BY <1>1, <1>5, <1>6 DEF Queued, ts

LEMMA QueuedNew ==
  ASSUME NEW qs \in Seq(Queue)
  PROVE  Queued(Append(qs, <<>>)) \subseteq Queued(qs)
<1>1. /\ Len(Append(qs, <<>>)) = Len(qs) + 1 /\ Len(qs) \in Nat
      /\ \A k \in 1..Len(qs) : Append(qs, <<>>)[k] = qs[k]
      /\ Append(qs, <<>>)[Len(qs) + 1] = <<>>
  BY NewQueueType, SeqFacts
<1>2. ASSUME NEW k \in 1..Len(qs) + 1, NEW i \in 1..Len(Append(qs, <<>>)[k])
      PROVE  k \in 1..Len(qs)
  BY <1>1
<1> QED BY <1>1, <1>2 DEF Queued

TruthInv ==
  /\ \A e \in Queued(queues) :
       /\ approvals[e.request] # "absent"
       /\ e.type = "approval_result" => approvals[e.request] \in {e.action, "gone"}
  /\ \A b \in Tabs, r \in Requests : cards[b][r] # "none" => approvals[r] # "absent"
  /\ ReviewersSeeTheTruth

LEMMA InitTruthInv == Init => TruthInv
  BY DEF Init, TruthInv, Queued, ReviewersSeeTheTruth, Actions, Idle

\* Statuses only go from absent to pending to decided, or to gone.
LEMMA NextTruthInv == TypeOK /\ TruthInv /\ [Next]_vars => TruthInv'
<1> SUFFICES ASSUME TypeOK, TruthInv, [Next]_vars PROVE TruthInv'
  OBVIOUS
<1> USE DEF vars, storeVars, sseVars, traceVars
<1>0. /\ queues \in Seq(Queue) /\ Len(queues) \in Nat
      /\ connection \in [Users -> 0..Len(queues)]
      /\ stream \in [Tabs -> 0..Len(queues)] /\ dying \in [Tabs -> 0..Len(queues)]
      /\ cards \in [Tabs -> [Requests -> {"none", "pending"} \cup Actions]]
      /\ post \in [Tabs -> [Requests -> Posts]]
      /\ approvals \in [Requests -> {"absent", "pending", "gone"} \cup Actions]
      /\ \A e \in Event : e.request \in Requests
  BY SeqFacts DEF TypeOK, Queue, Event
\* The steps that neither touch the store nor show or accept anything.
<1>a. ASSUME UNCHANGED <<approvals, cards, post>>, Queued(queues') \subseteq Queued(queues)
      PROVE  TruthInv'
  BY <1>a DEF TruthInv, ReviewersSeeTheTruth
<1>1. ASSUME NEW r \in Requests, CreateRequest(r) PROVE TruthInv'
  <2> DEFINE e == [type |-> "approval_request", request |-> r]
  <2>1. e \in Event /\ e.type = "approval_request" /\ e.request = r
        /\ InstructorOf[r] \in Users
    BY DEF Event
  <2>2. /\ queues' = Pushed(queues, InstructorOf[r], e)
        /\ approvals[r] = "absent"
        /\ approvals' = [approvals EXCEPT ![r] = "pending"]
        /\ UNCHANGED <<cards, post>>
    BY <1>1 DEF CreateRequest
  <2> HIDE DEF e
  <2>3. Queued(queues') \subseteq Queued(queues) \cup {e}
    BY <1>0, <2>1, <2>2, QueuedPushed
  <2>4. \A x \in Queued(queues) : x.request # r /\ x.request \in Requests
    BY <1>0, <2>2 DEF TruthInv, Queued
  <2>5. ASSUME NEW x \in Queued(queues')
        PROVE  /\ approvals'[x.request] # "absent"
               /\ x.type = "approval_result" => approvals'[x.request] \in {x.action, "gone"}
    <3>1. CASE x = e
      BY <1>0, <2>1, <2>2, <3>1
    <3>2. CASE x \in Queued(queues)
      <4>1. approvals'[x.request] = approvals[x.request]
        BY <1>0, <2>2, <2>4, <3>2
      <4> QED BY <3>2, <4>1 DEF TruthInv
    <3> QED BY <2>3, <3>1, <3>2
  <2>6. ASSUME NEW b \in Tabs, NEW q \in Requests
        PROVE  /\ cards[b][q] # "none" => approvals'[q] # "absent"
               /\ cards[b][q] \in Actions => approvals'[q] \in {cards[b][q], "gone"}
               /\ post[b][q].stage = "accepted"
                    => approvals'[q] \in {post[b][q].action, "gone"}
    <3>1. CASE q = r
      <4>1. approvals'[q] = "pending" /\ approvals[q] = "absent"
        BY <1>0, <2>2, <3>1
      <4>2. cards[b][q] = "none" /\ cards[b][q] \notin Actions
        BY <4>1 DEF TruthInv, Actions
      <4>3. post[b][q].stage # "accepted"
        <5>1. SUFFICES ASSUME post[b][q].stage = "accepted" PROVE FALSE
          OBVIOUS
        <5>2. post[b][q].action \in Actions /\ approvals[q] \in {post[b][q].action, "gone"}
          BY <1>0, <5>1 DEF TruthInv, ReviewersSeeTheTruth, Posts
        <5> QED BY <4>1, <5>2 DEF Actions
      <4> QED BY <4>1, <4>2, <4>3
    <3>2. CASE q # r
      BY <1>0, <2>2, <3>2 DEF TruthInv, ReviewersSeeTheTruth
    <3> QED BY <3>1, <3>2
  <2> QED BY <2>2, <2>5, <2>6 DEF TruthInv, ReviewersSeeTheTruth
<1>2. ASSUME NEW b \in Tabs, OpenStream(b) PROVE TruthInv'
  <2>1. queues' = queues \/ queues' = Append(queues, <<>>)
    BY <1>2 DEF OpenStream
  <2>2. Queued(queues') \subseteq Queued(queues)
    BY <1>0, <2>1, QueuedNew
  <2> QED BY <1>2, <1>a, <2>2 DEF OpenStream
<1>3. ASSUME NEW b \in Tabs, BreakStream(b) PROVE TruthInv'
  <2>1. UNCHANGED <<approvals, queues>>
    BY <1>3 DEF BreakStream
  <2>2. ASSUME NEW c \in Tabs, NEW r \in Requests
        PROVE  /\ cards'[c][r] = cards[c][r] \/ cards'[c][r] = "none"
               /\ post'[c][r] = post[c][r]
    <3>1. CASE cards' = cards
      BY <1>3, <3>1 DEF BreakStream
    <3>2. CASE cards' = [cards EXCEPT ![b] = [q \in Requests |-> "none"]]
      BY <1>0, <1>3, <3>2 DEF BreakStream
    <3> QED BY <1>3, <3>1, <3>2 DEF BreakStream
  <2>3. "none" \notin Actions
    BY DEF Actions
  <2>4. ASSUME NEW c \in Tabs, NEW r \in Requests
        PROVE  /\ cards'[c][r] # "none" => approvals'[r] # "absent"
               /\ cards'[c][r] \in Actions => approvals'[r] \in {cards'[c][r], "gone"}
               /\ post'[c][r].stage = "accepted"
                    => approvals'[r] \in {post'[c][r].action, "gone"}
    BY <2>1, <2>2, <2>3 DEF TruthInv, ReviewersSeeTheTruth
  <2> QED BY <2>1, <2>4 DEF TruthInv, ReviewersSeeTheTruth
<1>4. ASSUME NEW b \in Tabs, CancelStream(b) PROVE TruthInv'
  BY <1>4, <1>a DEF CancelStream
<1>5. ASSUME NEW b \in Tabs, LoseEvent(b) PROVE TruthInv'
  <2>1. dying[b] \in 1..Len(queues) /\ queues[dying[b]] # <<>>
        /\ queues' = [queues EXCEPT ![dying[b]] = Tail(@)]
    BY <1>0, <1>5 DEF LoseEvent
  <2>2. Queued(queues') \subseteq Queued(queues)
    BY <1>0, <2>1, QueuedTaken
  <2> QED BY <1>5, <1>a, <2>2 DEF LoseEvent
<1>6. ASSUME NEW b \in Tabs, Deliver(b) PROVE TruthInv'
  <2> DEFINE e == Head(queues[stream[b]])
  <2>1. stream[b] \in 1..Len(queues) /\ queues[stream[b]] # <<>>
        /\ queues' = [queues EXCEPT ![stream[b]] = Tail(@)]
    BY <1>0, <1>6 DEF Deliver
  <2>2. Queued(queues') \subseteq Queued(queues) /\ e \in Queued(queues)
    BY <1>0, <2>1, QueuedTaken
  <2>3. /\ cards' = [cards EXCEPT ![b][e.request] = Shown(@, e)]
        /\ UNCHANGED <<approvals, post>>
    BY <1>6 DEF Deliver
  <2> HIDE DEF e
  <2>4. e \in Event /\ e.request \in Requests
    BY <1>0, <2>2 DEF Queued
  <2>5. ASSUME NEW c \in Tabs, NEW r \in Requests
        PROVE  /\ cards'[c][r] # "none" => approvals[r] # "absent"
               /\ cards'[c][r] \in Actions => approvals[r] \in {cards'[c][r], "gone"}
    <3>1. CASE c = b /\ r = e.request
      <4>1. cards'[c][r] = Shown(cards[c][r], e)
        BY <1>0, <2>3, <2>4, <3>1
      <4>2. approvals[r] # "absent"
        BY <2>2, <3>1 DEF TruthInv
      <4>3. CASE e.type = "approval_request"
        <5>1. cards'[c][r] = IF cards[c][r] = "none" THEN "pending" ELSE cards[c][r]
          BY <4>1, <4>3 DEF Shown
        <5>2. "pending" \notin Actions
          BY DEF Actions
        <5> QED BY <4>2, <5>1, <5>2 DEF TruthInv, ReviewersSeeTheTruth
      <4>4. CASE e.type = "approval_result"
        <5>1. cards'[c][r] = IF cards[c][r] = "none" THEN "none" ELSE e.action
          BY <4>1, <4>4 DEF Shown
        <5>2. "none" \notin Actions
          BY DEF Actions
        <5>3. approvals[r] \in {e.action, "gone"}
          BY <2>2, <3>1, <4>4 DEF TruthInv
        <5> QED BY <4>2, <5>1, <5>2, <5>3
      <4> QED BY <2>4, <4>3, <4>4 DEF Event
    <3>2. CASE ~(c = b /\ r = e.request)
      <4>1. cards'[c][r] = cards[c][r]
        BY <1>0, <2>3, <2>4, <3>2
      <4> QED BY <4>1 DEF TruthInv, ReviewersSeeTheTruth
    <3> QED BY <3>1, <3>2
  <2> QED BY <2>2, <2>3, <2>5 DEF TruthInv, ReviewersSeeTheTruth
<1>7. ASSUME NEW b \in Tabs, NEW r \in Requests, NEW action \in Actions,
             SubmitDecision(b, r, action)
      PROVE  TruthInv'
  <2>1. /\ UNCHANGED <<approvals, cards, queues>>
        /\ post' = [post EXCEPT ![b][r] = [stage |-> "sent", action |-> action]]
    BY <1>7 DEF SubmitDecision
  <2>2. ASSUME NEW c \in Tabs, NEW q \in Requests, post'[c][q].stage = "accepted"
        PROVE  post'[c][q] = post[c][q]
    BY <1>0, <2>1, <2>2
  <2>3. ASSUME NEW c \in Tabs, NEW q \in Requests, post'[c][q].stage = "accepted"
        PROVE  approvals[q] \in {post'[c][q].action, "gone"}
    BY <2>2, <2>3 DEF TruthInv, ReviewersSeeTheTruth
  <2> QED BY <2>1, <2>3 DEF TruthInv, ReviewersSeeTheTruth
<1>8. ASSUME NEW b \in Tabs, NEW r \in Requests, HandleApproval(b, r) PROVE TruthInv'
  <2>0. post[b][r] \in Posts /\ post[b][r].stage = "sent" /\ UNCHANGED cards
    BY <1>0, <1>8 DEF HandleApproval
  <2>1. CASE approvals[r] = "pending"
    <3> DEFINE a == post[b][r].action
               e == [type |-> "approval_result", request |-> r, action |-> a]
    <3>1. a \in Actions
      BY <2>0 DEF Posts
    <3>2. e \in Event /\ e.type = "approval_result" /\ e.request = r /\ e.action = a
      BY <3>1 DEF Event
    <3>3. /\ queues' = Pushed(Pushed(queues, StudentOf[r], e), InstructorOf[r], e)
          /\ approvals' = [approvals EXCEPT ![r] = a]
          /\ post' = [post EXCEPT ![b][r].stage = "accepted"]
      BY <1>8, <2>1 DEF HandleApproval
    <3>4. StudentOf[r] \in Users /\ InstructorOf[r] \in Users
      OBVIOUS
    <3> HIDE DEF e
    <3>5. /\ Pushed(queues, StudentOf[r], e) \in Seq(Queue)
          /\ Len(Pushed(queues, StudentOf[r], e)) = Len(queues)
          /\ Queued(Pushed(queues, StudentOf[r], e)) \subseteq Queued(queues) \cup {e}
      BY <1>0, <3>2, <3>4, PushedType, QueuedPushed
    <3>6. Queued(queues') \subseteq Queued(queues) \cup {e}
      <4>1. Queued(queues') \subseteq Queued(Pushed(queues, StudentOf[r], e)) \cup {e}
        BY <1>0, <3>2, <3>3, <3>4, <3>5, QueuedPushed
      <4> QED BY <3>5, <4>1
    <3>7. a \notin {"absent", "pending", "none", "gone"}
      BY <3>1 DEF Actions
    <3> HIDE DEF a
    <3>8. ASSUME NEW x \in Queued(queues')
          PROVE  /\ approvals'[x.request] # "absent"
                 /\ x.type = "approval_result" => approvals'[x.request] \in {x.action, "gone"}
      <4>1. CASE x = e
        BY <1>0, <3>2, <3>3, <3>7, <4>1
      <4>2. CASE x \in Queued(queues) /\ x.request # r
        <5>1. approvals'[x.request] = approvals[x.request]
          BY <1>0, <3>3, <4>2 DEF Queued
        <5> QED BY <4>2, <5>1 DEF TruthInv
      <4>3. CASE x \in Queued(queues) /\ x.request = r
        <5>1. x.type # "approval_result"
          <6>1. SUFFICES ASSUME x.type = "approval_result" PROVE FALSE
            OBVIOUS
          <6>2. x \in Event /\ x.action \in Actions
            BY <4>3, <6>1 DEF Queued, Event
          <6>3. approvals[r] \in {x.action, "gone"}
            BY <4>3, <6>1 DEF TruthInv
          <6> QED BY <2>1, <6>2, <6>3 DEF Actions
        <5> QED BY <1>0, <3>3, <3>7, <4>3, <5>1
      <4> QED BY <3>6, <4>1, <4>2, <4>3
    <3>9. ASSUME NEW c \in Tabs, NEW q \in Requests
          PROVE  /\ cards[c][q] # "none" => approvals'[q] # "absent"
                 /\ cards[c][q] \in Actions => approvals'[q] \in {cards[c][q], "gone"}
                 /\ post'[c][q].stage = "accepted"
                      => approvals'[q] \in {post'[c][q].action, "gone"}
      <4>1. CASE q = r
        <5>1. approvals'[q] = a
          BY <1>0, <3>3, <4>1
        <5>2. cards[c][q] \notin Actions
          BY <2>1, <4>1 DEF TruthInv, ReviewersSeeTheTruth, Actions
        <5>3. post'[c][q].stage = "accepted" => c = b
          <6>1. SUFFICES ASSUME c # b, post[c][q].stage = "accepted" PROVE FALSE
            BY <1>0, <3>3
          <6>2. post[c][q].action \in Actions /\ approvals[q] \in {post[c][q].action, "gone"}
            BY <1>0, <6>1 DEF TruthInv, ReviewersSeeTheTruth, Posts
          <6> QED BY <2>1, <4>1, <6>2 DEF Actions
        <5>4. c = b => post'[c][q].action = a
          BY <1>0, <2>0, <3>3, <4>1 DEF a, Posts
        <5> QED BY <3>7, <5>1, <5>2, <5>3, <5>4
      <4>2. CASE q # r
        <5>1. approvals'[q] = approvals[q] /\ post'[c][q] = post[c][q]
          BY <1>0, <3>3, <4>2
        <5> QED BY <5>1 DEF TruthInv, ReviewersSeeTheTruth
      <4> QED BY <4>1, <4>2
    <3> QED BY <2>0, <3>8, <3>9 DEF TruthInv, ReviewersSeeTheTruth
  <2>2. CASE approvals[r] # "pending"
    <3>1. post' = [post EXCEPT ![b][r] = Refused] /\ UNCHANGED <<approvals, queues, cards>>
      BY <1>8, <2>2 DEF HandleApproval
    <3>2. \A c \in Tabs, q \in Requests :
            post'[c][q].stage = "accepted" => post'[c][q] = post[c][q]
      BY <1>0, <3>1 DEF Refused
    <3> QED BY <3>1, <3>2 DEF TruthInv, ReviewersSeeTheTruth
  <2> QED BY <2>1, <2>2
<1>9. ASSUME NEW b \in Tabs, NEW r \in Requests, LosePost(b, r) PROVE TruthInv'
  <2>1. post' = [post EXCEPT ![b][r] = Refused] /\ UNCHANGED <<approvals, queues, cards>>
    BY <1>9 DEF LosePost
  <2>2. \A c \in Tabs, q \in Requests :
          post'[c][q].stage = "accepted" => post'[c][q] = post[c][q]
    BY <1>0, <2>1 DEF Refused
  <2> QED BY <2>1, <2>2 DEF TruthInv, ReviewersSeeTheTruth
<1>10. ASSUME NEW b \in Tabs, NEW r \in Requests, FinishDecision(b, r) PROVE TruthInv'
  <2>1. post' = [post EXCEPT ![b][r] = Idle] /\ UNCHANGED <<approvals, queues>>
    BY <1>10 DEF FinishDecision
  <2>2. \A c \in Tabs, q \in Requests :
          post'[c][q].stage = "accepted" => post'[c][q] = post[c][q]
    BY <1>0, <2>1 DEF Idle
  <2>3. ASSUME NEW c \in Tabs, NEW q \in Requests
        PROVE  \/ cards'[c][q] = cards[c][q]
               \/ /\ cards[c][q] # "none" /\ post[c][q].stage = "accepted"
                  /\ cards'[c][q] = post[c][q].action
    BY <1>0, <1>10 DEF FinishDecision
  <2>4. ASSUME NEW c \in Tabs, NEW q \in Requests
        PROVE  /\ cards'[c][q] # "none" => approvals[q] # "absent"
               /\ cards'[c][q] \in Actions => approvals[q] \in {cards'[c][q], "gone"}
    BY <2>3 DEF TruthInv, ReviewersSeeTheTruth
  <2> QED BY <2>1, <2>2, <2>4 DEF TruthInv, ReviewersSeeTheTruth
<1>11. CASE Restart
  <2>1. /\ queues' = [q \in 1..Len(queues) |-> <<>>] /\ UNCHANGED cards
        /\ approvals' = [r \in Requests |-> IF approvals[r] = "absent" THEN "absent"
                                                                       ELSE "gone"]
        /\ post' = [b \in Tabs |-> [r \in Requests |->
                      IF post[b][r].stage = "idle" THEN Idle ELSE Refused]]
    BY <1>0, <1>11, SeqFacts DEF Restart
  <2>2. Queued(queues') = {}
    BY <1>0, <2>1 DEF Queued
  <2>3. \A b \in Tabs, r \in Requests : post'[b][r].stage # "accepted"
    BY <2>1 DEF Idle, Refused
  <2>4. ASSUME NEW c \in Tabs, NEW r \in Requests, cards[c][r] # "none"
        PROVE  approvals'[r] = "gone"
    BY <2>1, <2>4 DEF TruthInv
  <2>5. "none" \notin Actions
    BY DEF Actions
  <2> QED BY <2>1, <2>2, <2>3, <2>4, <2>5 DEF TruthInv, ReviewersSeeTheTruth
<1>12. CASE UNCHANGED vars
  BY <1>12, <1>a
<1> QED
  BY <1>1, <1>2, <1>3, <1>4, <1>5, <1>6, <1>7, <1>8, <1>9, <1>10, <1>11, <1>12 DEF Next

LEMMA TruthInvHolds == Spec => [](TypeOK /\ TruthInv)
  BY InitTypeOK, NextTypeOK, InitTruthInv, NextTruthInv, PTL DEF Spec

\* Of the decisions on one request that cross each other one is answered OK,
\* and no card ever shows another decision than the gateway's.
THEOREM ReviewersAreToldTheTruth == Spec => []ReviewersSeeTheTruth
  BY TruthInvHolds, PTL DEF TruthInv

-----------------------------------------------------------------------------
(* Whose queue is whose: no two users share one, a stream that takes events *)
(* of a user's queue is that user's, and a steady tab is the only reader of *)
(* its own.                                                                 *)

OwnInv ==
  /\ \A u \in Users, v \in Users :
       connection[u] # 0 /\ connection[u] = connection[v] => u = v
  /\ \A u \in Users, c \in Tabs :
       connection[u] # 0 /\ connection[u] \in {stream[c], dying[c]} => UserOf[c] = u
  /\ \A b \in steady :
       /\ stream[b] # 0 /\ stream[b] = connection[UserOf[b]] /\ dying[b] = 0
       /\ \A c \in TabsOf(UserOf[b]) \ {b} : stream[c] = 0 /\ dying[c] = 0

LEMMA InitOwnInv == Init => OwnInv
  BY DEF Init, OwnInv

LEMMA NextOwnInv == TypeOK /\ OwnInv /\ [Next]_vars => OwnInv'
<1> SUFFICES ASSUME TypeOK, OwnInv, [Next]_vars PROVE OwnInv'
  OBVIOUS
<1> USE DEF vars, storeVars, sseVars, traceVars, TabsOf
<1>0. /\ queues \in Seq(Queue) /\ Len(queues) \in Nat
      /\ connection \in [Users -> 0..Len(queues)]
      /\ stream \in [Tabs -> 0..Len(queues)] /\ dying \in [Tabs -> 0..Len(queues)]
      /\ steady \subseteq Tabs
  BY SeqFacts DEF TypeOK, Queue
<1>a. ASSUME UNCHANGED <<connection, stream, dying, steady>> PROVE OwnInv'
  BY <1>a DEF OwnInv
<1>1. ASSUME NEW r \in Requests, CreateRequest(r) PROVE OwnInv'
  BY <1>1, <1>a DEF CreateRequest
<1>2. ASSUME NEW b \in Tabs, OpenStream(b) PROVE OwnInv'
  <2> DEFINE u == UserOf[b]
  <2>0. /\ u \in Users /\ stream[b] = 0 /\ UNCHANGED dying
        /\ steady' = (steady \ TabsOf(u)) \cup (IF NoStreamOf(u) THEN {b} ELSE {})
    BY <1>2 DEF OpenStream
  <2>1. \/ /\ connection[u] # 0
           /\ stream' = [stream EXCEPT ![b] = connection[u]]
           /\ connection' = connection
        \/ /\ connection[u] = 0
           /\ connection' = [connection EXCEPT ![u] = Len(queues) + 1]
           /\ stream' = [stream EXCEPT ![b] = Len(queues) + 1]
    BY <1>2 DEF OpenStream
  <2> HIDE DEF u
  \* Either way the user's queue is the one the tab takes, and nobody else's.
  <2>2. /\ connection'[u] # 0 /\ stream'[b] = connection'[u]
        /\ \A v \in Users : v # u => /\ connection'[v] = connection[v]
                                     /\ connection'[v] # connection'[u]
        /\ \A c \in Tabs : c # b => stream'[c] = stream[c]
    <3>1. CASE connection' = connection
      BY <1>0, <2>0, <2>1, <3>1 DEF OwnInv
    <3>2. CASE connection' # connection
      BY <1>0, <2>0, <2>1, <3>2
    <3> QED BY <3>1, <3>2
  <2>3. ASSUME NEW c \in Tabs, connection'[u] \in {stream'[c], dying'[c]}
        PROVE  UserOf[c] = u
    <3>1. CASE c = b /\ connection'[u] = stream'[c]
      BY <3>1 DEF u
    <3>2. CASE c = b /\ connection'[u] = dying'[c]
      BY <3>2 DEF u
    <3>3. CASE c # b
      <4>1. connection'[u] \in {stream[c], dying[c]}
        BY <2>0, <2>2, <2>3, <3>3
      <4>2. connection[u] = connection'[u]
        BY <1>0, <2>0, <2>1, <4>1
      <4> QED BY <2>0, <2>2, <4>1, <4>2 DEF OwnInv
    <3> QED BY <2>3, <3>1, <3>2, <3>3
  <2>4. ASSUME NEW v \in Users, v # u, NEW c \in Tabs, connection'[v] # 0,
               connection'[v] \in {stream'[c], dying'[c]}
        PROVE  UserOf[c] = v
    <3>1. connection[v] = connection'[v] /\ connection[v] # stream'[b]
      BY <2>2, <2>4
    <3>2. connection[v] \in {stream[c], dying[c]}
      BY <2>0, <2>2, <2>4, <3>1
    <3> QED BY <2>4, <3>1, <3>2 DEF OwnInv
  <2>5. ASSUME NEW v \in Users, NEW w \in Users, connection'[v] # 0,
               connection'[v] = connection'[w]
        PROVE  v = w
    BY <2>2, <2>5 DEF OwnInv
  <2>6. ASSUME NEW c \in steady'
        PROVE  /\ stream'[c] # 0 /\ stream'[c] = connection'[UserOf[c]] /\ dying'[c] = 0
               /\ \A d \in TabsOf(UserOf[c]) \ {c} : stream'[d] = 0 /\ dying'[d] = 0
    <3>1. CASE c \in steady /\ c \notin TabsOf(u)
      <4>1. UserOf[c] # u /\ c \in Tabs /\ UserOf[c] \in Users
        BY <1>0, <3>1
      <4>2. c # b /\ \A d \in TabsOf(UserOf[c]) : d # b
        BY <4>1 DEF u
      <4>3. /\ stream'[c] = stream[c] /\ dying'[c] = dying[c]
            /\ connection'[UserOf[c]] = connection[UserOf[c]]
            /\ \A d \in TabsOf(UserOf[c]) : stream'[d] = stream[d] /\ dying'[d] = dying[d]
        BY <2>0, <2>2, <4>1, <4>2
      <4> QED BY <3>1, <4>3 DEF OwnInv
    <3>2. CASE c = b /\ NoStreamOf(u)
      BY <2>0, <2>2, <3>2 DEF NoStreamOf, u
    <3> QED BY <2>0, <2>6, <3>1, <3>2
  <2> QED BY <2>3, <2>4, <2>5, <2>6 DEF OwnInv
<1>3. ASSUME NEW b \in Tabs, BreakStream(b) PROVE OwnInv'
  <2>1. /\ stream[b] # 0 /\ dying[b] = 0
        /\ dying' = [dying EXCEPT ![b] = stream[b]]
        /\ stream' = [stream EXCEPT ![b] = 0]
        /\ steady' = steady \ {b} /\ UNCHANGED connection
    BY <1>3 DEF BreakStream
  <2>2. \A c \in Tabs : c # b => stream'[c] = stream[c] /\ dying'[c] = dying[c]
    BY <1>0, <2>1
  <2>3. stream'[b] = 0 /\ dying'[b] = stream[b]
    BY <1>0, <2>1
  <2>4. ASSUME NEW u \in Users, connection[u] # 0, NEW c \in Tabs
        PROVE  connection[u] \in {stream'[c], dying'[c]}
                 <=> connection[u] \in {stream[c], dying[c]}
    BY <2>1, <2>2, <2>3, <2>4
  <2>5. ASSUME NEW c \in steady'
        PROVE  /\ stream'[c] # 0 /\ stream'[c] = connection[UserOf[c]] /\ dying'[c] = 0
               /\ \A d \in TabsOf(UserOf[c]) \ {c} : stream'[d] = 0 /\ dying'[d] = 0
    <3>1. c \in steady /\ c # b /\ c \in Tabs
      BY <1>0, <2>1
    <3>2. b \notin TabsOf(UserOf[c])
      BY <2>1, <3>1 DEF OwnInv
    <3> QED BY <2>2, <3>1, <3>2 DEF OwnInv
  <2> QED BY <2>1, <2>4, <2>5 DEF OwnInv
<1>4. ASSUME NEW b \in Tabs, CancelStream(b) PROVE OwnInv'
  <2>1. /\ dying[b] # 0 /\ dying' = [dying EXCEPT ![b] = 0]
        /\ UNCHANGED <<stream, steady>>
    BY <1>4 DEF CancelStream
  <2>2. /\ \A u \in Users : \/ connection'[u] = connection[u]
                          \/ (u = UserOf[b] /\ connection'[u] = 0)
        /\ \A c \in Tabs : dying'[c] = IF c = b THEN 0 ELSE dying[c]
    <3>1. CASE connection' = connection
      BY <1>0, <2>1, <3>1
    <3>2. CASE connection' = [connection EXCEPT ![UserOf[b]] = 0]
      BY <1>0, <2>1, <3>2
    <3> QED BY <1>4, <3>1, <3>2 DEF CancelStream
  <2>3. ASSUME NEW c \in steady
        PROVE  c \in Tabs /\ UserOf[c] \in Users /\ UserOf[c] # UserOf[b]
    BY <1>0, <2>1 DEF OwnInv
  <2>4. ASSUME NEW u \in Users, NEW c \in Tabs, connection'[u] # 0,
               connection'[u] \in {stream'[c], dying'[c]}
        PROVE  UserOf[c] = u
    <3>1. connection'[u] = connection[u]
      BY <2>2, <2>4
    <3>2. connection[u] \in {stream[c], dying[c]}
      BY <2>1, <2>2, <2>4, <3>1
    <3> QED BY <2>4, <3>1, <3>2 DEF OwnInv
  <2>5. ASSUME NEW u \in Users, NEW v \in Users, connection'[u] # 0,
               connection'[u] = connection'[v]
        PROVE  u = v
    BY <2>2, <2>5 DEF OwnInv
  <2>6. ASSUME NEW c \in steady'
        PROVE  /\ stream'[c] # 0 /\ stream'[c] = connection'[UserOf[c]] /\ dying'[c] = 0
               /\ \A d \in TabsOf(UserOf[c]) \ {c} : stream'[d] = 0 /\ dying'[d] = 0
    BY <2>1, <2>2, <2>3 DEF OwnInv
  <2> QED BY <2>4, <2>5, <2>6 DEF OwnInv
<1>5. ASSUME NEW b \in Tabs, LoseEvent(b) PROVE OwnInv'
  BY <1>5, <1>a DEF LoseEvent
<1>6. ASSUME NEW b \in Tabs, Deliver(b) PROVE OwnInv'
  BY <1>6, <1>a DEF Deliver
<1>7. ASSUME NEW b \in Tabs, NEW r \in Requests, NEW action \in Actions,
             SubmitDecision(b, r, action)
      PROVE  OwnInv'
  BY <1>7, <1>a DEF SubmitDecision
<1>8. ASSUME NEW b \in Tabs, NEW r \in Requests, HandleApproval(b, r) PROVE OwnInv'
  BY <1>8, <1>a DEF HandleApproval
<1>9. ASSUME NEW b \in Tabs, NEW r \in Requests, LosePost(b, r) PROVE OwnInv'
  BY <1>9, <1>a DEF LosePost
<1>10. ASSUME NEW b \in Tabs, NEW r \in Requests, FinishDecision(b, r) PROVE OwnInv'
  BY <1>10, <1>a DEF FinishDecision
<1>11. CASE Restart
  BY <1>11 DEF Restart, OwnInv
<1>12. CASE UNCHANGED vars
  BY <1>12, <1>a
<1> QED
  BY <1>1, <1>2, <1>3, <1>4, <1>5, <1>6, <1>7, <1>8, <1>9, <1>10, <1>11, <1>12 DEF Next

-----------------------------------------------------------------------------
(* An owed request is not in a queue a broken stream reads, nor in one that  *)
(* a cancellation can take away: its user has no broken stream.              *)

OwedInv ==
  \A r \in owed : LET u == InstructorOf[r] IN
    /\ \A b \in TabsOf(u) : dying[b] = 0
    /\ (\E b \in TabsOf(u) : cards[b][r] # "none") \/ Announced(connection[u], r)

LEMMA InitOwedInv == Init => OwedInv
  BY DEF Init, OwedInv

Notice(r) == [type |-> "approval_request", request |-> r]

Holds(q, e) == \E i \in DOMAIN q : q[i] = e

LEMMA HoldsAppend ==
  ASSUME NEW q \in Queue, NEW e \in Event
  PROVE  Holds(Append(q, e), e) /\ \A x : Holds(q, x) => Holds(Append(q, e), x)
<1>1. /\ DOMAIN q = 1..Len(q) /\ Len(q) \in Nat
      /\ DOMAIN Append(q, e) = 1..(Len(q) + 1)
      /\ \A i \in 1..Len(q) : Append(q, e)[i] = q[i]
      /\ Append(q, e)[Len(q) + 1] = e
  BY SeqFacts, AppendProperties DEF Queue
<1> QED BY <1>1 DEF Holds

LEMMA HoldsTail ==
  ASSUME NEW q \in Queue, q # <<>>, NEW x, Holds(q, x)
  PROVE  Head(q) = x \/ Holds(Tail(q), x)
<1>1. /\ DOMAIN q = 1..Len(q) /\ Len(q) \in Nat \ {0}
      /\ Tail(q) \in Seq(Event) /\ Len(Tail(q)) = Len(q) - 1
      /\ \A i \in 1..Len(Tail(q)) : Tail(q)[i] = q[i + 1]
      /\ Head(q) = q[1]
  BY SeqFacts, EmptySeq, HeadTailProperties DEF Queue
<1>2. PICK i \in 1..Len(q) : q[i] = x
  BY <1>1 DEF Holds
<1>3. CASE i = 1
  BY <1>1, <1>2, <1>3
<1>4. CASE i # 1
  <2>1. i - 1 \in DOMAIN Tail(q) /\ Tail(q)[i - 1] = x
    <3>1. i - 1 \in 1..Len(Tail(q)) /\ (i - 1) + 1 = i
      BY <1>1, <1>4
    <3> QED BY <1>1, <1>2, <3>1, SeqFacts
  <2> QED BY <2>1 DEF Holds
<1> QED BY <1>3, <1>4

\* A push takes no notice out of any queue.
LEMMA HoldsPushed ==
  ASSUME NEW qs \in Seq(Queue), NEW v \in Users, NEW e \in Event,
         connection[v] \in 0..Len(qs), NEW k \in 1..Len(qs), NEW x,
         Holds(qs[k], x)
  PROVE  Holds(Pushed(qs, v, e)[k], x)
<1>1. qs[k] \in Queue
  BY SeqFacts
<1>2. Pushed(qs, v, e)[k] = IF k = connection[v] THEN Append(qs[k], e) ELSE qs[k]
  BY PushedType
<1> QED BY <1>1, <1>2, HoldsAppend

LEMMA NextOwedInv == TypeOK /\ OwnInv /\ OwedInv /\ [Next]_vars => OwedInv'
<1> SUFFICES ASSUME TypeOK, OwnInv, OwedInv, [Next]_vars PROVE OwedInv'
  OBVIOUS
<1> USE DEF vars, storeVars, sseVars, traceVars
<1>0. /\ queues \in Seq(Queue) /\ Len(queues) \in Nat
      /\ connection \in [Users -> 0..Len(queues)]
      /\ stream \in [Tabs -> 0..Len(queues)] /\ dying \in [Tabs -> 0..Len(queues)]
      /\ cards \in [Tabs -> [Requests -> {"none", "pending"} \cup Actions]]
      /\ post \in [Tabs -> [Requests -> Posts]]
      /\ owed \subseteq Requests
  BY SeqFacts DEF TypeOK, Queue
<1>k. \A r \in owed : LET k == connection[InstructorOf[r]] IN
        /\ k # 0 => k \in 1..Len(queues)
        /\ Announced(k, r) <=> k # 0 /\ Holds(queues[k], Notice(r))
        /\ Announced(k, r)' <=> connection'[InstructorOf[r]] # 0
                                 /\ Holds(queues'[connection'[InstructorOf[r]]], Notice(r))
  BY <1>0 DEF Announced, Holds, Notice
\* The steps that leave the user's queue registered and what it and the cards
\* hold of the request.
<1>a. ASSUME NEW r \in owed,
             \A b \in TabsOf(InstructorOf[r]) : dying'[b] = dying[b],
             connection[InstructorOf[r]] # 0 =>
               connection'[InstructorOf[r]] = connection[InstructorOf[r]],
             \A b \in TabsOf(InstructorOf[r]) :
               cards[b][r] # "none" => cards'[b][r] # "none",
             LET k == connection[InstructorOf[r]] IN
               k \in 1..Len(queues) /\ Holds(queues[k], Notice(r)) =>
                 \/ Holds(queues'[k], Notice(r))
                 \/ \E b \in TabsOf(InstructorOf[r]) : cards'[b][r] # "none"
      PROVE  /\ \A b \in TabsOf(InstructorOf[r]) : dying'[b] = 0
             /\ \/ \E b \in TabsOf(InstructorOf[r]) : cards'[b][r] # "none"
                \/ Announced(connection[InstructorOf[r]], r)'
  BY <1>a, <1>k DEF OwedInv
<1>b. ASSUME owed' = owed, dying' = dying, connection' = connection,
             queues' = queues,
             \A b \in Tabs, r \in owed : cards[b][r] # "none" => cards'[b][r] # "none"
      PROVE  OwedInv'
  BY <1>a, <1>b DEF OwedInv, TabsOf
<1>1. ASSUME NEW x \in Requests, CreateRequest(x) PROVE OwedInv'
  <2> DEFINE w == InstructorOf[x]
  <2>1. Notice(x) \in Event /\ w \in Users
    BY DEF Event, Notice
  <2>2. /\ queues' = Pushed(queues, w, Notice(x))
        /\ UNCHANGED <<connection, dying, cards>>
        /\ owed' = IF connection[w] # 0 /\ \A b \in TabsOf(w) : dying[b] = 0
                   THEN owed \cup {x} ELSE owed
    BY <1>1 DEF CreateRequest, Notice
  <2> HIDE DEF w
  <2>3. ASSUME NEW r \in owed
        PROVE  /\ \A b \in TabsOf(InstructorOf[r]) : dying'[b] = 0
               /\ \/ \E b \in TabsOf(InstructorOf[r]) : cards'[b][r] # "none"
                  \/ Announced(connection[InstructorOf[r]], r)'
    BY <1>0, <1>a, <2>1, <2>2, HoldsPushed
  <2>4. ASSUME connection[w] # 0, \A b \in TabsOf(w) : dying[b] = 0
        PROVE  (\A b \in TabsOf(w) : dying'[b] = 0) /\ Announced(connection[w], x)'
    <3>1. connection[w] \in 1..Len(queues)
      BY <1>0, <2>1, <2>4
    <3>2. queues[connection[w]] \in Queue
      BY <1>0, <3>1, SeqFacts
    <3>3. queues'[connection[w]] = Append(queues[connection[w]], Notice(x))
      BY <1>0, <2>1, <2>2, <3>1, PushedType
    <3>4. Holds(queues'[connection[w]], Notice(x))
      BY <2>1, <3>2, <3>3, HoldsAppend
    <3> QED BY <2>2, <2>4, <3>4 DEF Announced, Holds, Notice
  <2> QED BY <2>2, <2>3, <2>4 DEF OwedInv, w
<1>2. ASSUME NEW c \in Tabs, OpenStream(c) PROVE OwedInv'
  <2>1. /\ UNCHANGED <<dying, cards, owed>>
        /\ queues' = queues \/ queues' = Append(queues, <<>>)
        /\ \A u \in Users : connection[u] # 0 => connection'[u] = connection[u]
    BY <1>0, <1>2 DEF OpenStream
  <2>2. \A k \in 1..Len(queues) : queues'[k] = queues[k]
    BY <1>0, <2>1, NewQueueType
  <2> QED BY <1>0, <1>a, <2>1, <2>2 DEF OwedInv
<1>3. ASSUME NEW c \in Tabs, BreakStream(c) PROVE OwedInv'
  <2>1. /\ dying' = [dying EXCEPT ![c] = stream[c]]
        /\ cards' = cards \/ cards' = [cards EXCEPT ![c] = [r \in Requests |-> "none"]]
        /\ owed' = {r \in owed : InstructorOf[r] # UserOf[c]}
        /\ UNCHANGED <<connection, queues>>
    BY <1>3 DEF BreakStream
  <2>2. ASSUME NEW r \in owed', NEW b \in TabsOf(InstructorOf[r])
        PROVE  dying'[b] = dying[b] /\ cards'[b] = cards[b]
    <3>1. b # c /\ b \in Tabs
      BY <2>1, <2>2 DEF TabsOf
    <3> QED BY <1>0, <2>1, <3>1
  <2> QED BY <1>a, <2>1, <2>2 DEF OwedInv
<1>4. ASSUME NEW c \in Tabs, CancelStream(c) PROVE OwedInv'
  <2>1. /\ dying[c] # 0 /\ dying' = [dying EXCEPT ![c] = 0]
        /\ connection' = [connection EXCEPT ![UserOf[c]] = 0] \/ UNCHANGED connection
        /\ UNCHANGED <<queues, cards, owed>>
    BY <1>4 DEF CancelStream
  <2>2. ASSUME NEW r \in owed
        PROVE  /\ \A b \in TabsOf(InstructorOf[r]) : dying'[b] = dying[b]
               /\ connection'[InstructorOf[r]] = connection[InstructorOf[r]]
    <3>1. UserOf[c] # InstructorOf[r]
      BY <2>1 DEF OwedInv, TabsOf
    <3>2. InstructorOf[r] \in Users /\ \A b \in TabsOf(InstructorOf[r]) : b \in Tabs /\ b # c
      BY <1>0, <3>1 DEF TabsOf
    <3> QED BY <1>0, <2>1, <3>1, <3>2
  <2> QED BY <1>a, <2>1, <2>2 DEF OwedInv
<1>5. ASSUME NEW c \in Tabs, LoseEvent(c) PROVE OwedInv'
  <2>1. /\ dying[c] \in 1..Len(queues) /\ queues[dying[c]] # <<>>
        /\ queues' = [queues EXCEPT ![dying[c]] = Tail(@)]
        /\ UNCHANGED <<connection, dying, cards, owed>>
    BY <1>0, <1>5 DEF LoseEvent
  <2>2. ASSUME NEW r \in owed, connection[InstructorOf[r]] \in 1..Len(queues)
        PROVE  queues'[connection[InstructorOf[r]]] = queues[connection[InstructorOf[r]]]
    <3>1. InstructorOf[r] \in Users /\ UserOf[c] # InstructorOf[r]
      BY <1>0, <2>1 DEF OwedInv, TabsOf
    <3>2. connection[InstructorOf[r]] # dying[c]
      BY <1>0, <2>1, <2>2, <3>1 DEF OwnInv
    <3> QED BY <1>0, <2>1, <2>2, <3>2, TakenType
  <2> QED BY <1>a, <2>1, <2>2 DEF OwedInv
<1>6. ASSUME NEW c \in Tabs, Deliver(c) PROVE OwedInv'
  <2> DEFINE e == Head(queues[stream[c]])
  <2>1. /\ stream[c] \in 1..Len(queues) /\ queues[stream[c]] # <<>>
        /\ queues' = [queues EXCEPT ![stream[c]] = Tail(@)]
        /\ cards' = [cards EXCEPT ![c][e.request] = Shown(@, e)]
        /\ UNCHANGED <<connection, dying, owed>>
    BY <1>0, <1>6 DEF Deliver
  <2>2. /\ e \in Event
        /\ \A k \in 1..Len(queues) :
             queues'[k] = IF k = stream[c] THEN Tail(queues[k]) ELSE queues[k]
    BY <1>0, <2>1, TakenType
  <2>3. e.request \in Requests /\ queues[stream[c]] \in Queue
    BY <1>0, <2>1, <2>2, SeqFacts DEF Event
  <2>4. \A card : /\ card # "none" => Shown(card, e) # "none"
                  /\ e.type = "approval_request" => Shown(card, e) # "none"
    <3> HIDE DEF e
    <3> QED BY <2>2 DEF Shown, Event, Actions
  <2>5. ASSUME NEW b \in Tabs, NEW r \in Requests, cards[b][r] # "none"
        PROVE  cards'[b][r] # "none"
    <3> HIDE DEF e
    <3> QED BY <1>0, <2>1, <2>3, <2>4, <2>5
  <2>6. ASSUME NEW r \in owed, connection[InstructorOf[r]] \in 1..Len(queues),
               Holds(queues[connection[InstructorOf[r]]], Notice(r))
        PROVE  \/ Holds(queues'[connection[InstructorOf[r]]], Notice(r))
               \/ \E b \in TabsOf(InstructorOf[r]) : cards'[b][r] # "none"
    <3>1. CASE connection[InstructorOf[r]] # stream[c]
      BY <2>2, <2>6, <3>1
    <3>2. CASE connection[InstructorOf[r]] = stream[c]
      <4>1. UserOf[c] = InstructorOf[r] /\ r \in Requests
        BY <1>0, <2>6, <3>2 DEF OwnInv
      <4>2. e = Notice(r) \/ Holds(Tail(queues[stream[c]]), Notice(r))
        BY <2>1, <2>3, <2>6, <3>2, HoldsTail
      <4>3. CASE e = Notice(r)
        <5>1. cards'[c][r] # "none"
          <6>1. e.request = r /\ e.type = "approval_request"
            BY <4>3 DEF Notice
          <6> HIDE DEF e
          <6> QED BY <1>0, <2>1, <2>4, <4>1, <6>1
        <5> QED BY <4>1, <5>1 DEF TabsOf
      <4>4. CASE Holds(Tail(queues[stream[c]]), Notice(r))
        BY <2>1, <2>2, <3>2, <4>4
      <4> QED BY <4>2, <4>3, <4>4
    <3> QED BY <3>1, <3>2
  <2>7. \A r \in owed : \A b \in TabsOf(InstructorOf[r]) :
          b \in Tabs /\ r \in Requests /\ dying'[b] = dying[b]
    BY <1>0, <2>1 DEF TabsOf
  <2> QED BY <1>a, <2>1, <2>5, <2>6, <2>7 DEF OwedInv
<1>7. ASSUME NEW c \in Tabs, NEW r \in Requests, NEW action \in Actions,
             SubmitDecision(c, r, action)
      PROVE  OwedInv'
  BY <1>7, <1>b DEF SubmitDecision
<1>8. ASSUME NEW c \in Tabs, NEW x \in Requests, HandleApproval(c, x) PROVE OwedInv'
  <2>0. UNCHANGED <<connection, dying, cards, owed>> /\ post[c][x] \in Posts
    BY <1>0, <1>8 DEF HandleApproval
  <2>1. CASE approvals[x] = "pending"
    <3> DEFINE a == post[c][x].action
               e == [type |-> "approval_result", request |-> x, action |-> a]
               ps == Pushed(queues, StudentOf[x], e)
    <3>1. a \in Actions
      BY <1>8, <2>0 DEF HandleApproval, Posts
    <3>2. e \in Event /\ StudentOf[x] \in Users /\ InstructorOf[x] \in Users
      BY <3>1 DEF Event
    <3>3. queues' = Pushed(ps, InstructorOf[x], e)
      BY <1>8, <2>1 DEF HandleApproval
    <3> HIDE DEF e, a
    <3>4. ps \in Seq(Queue) /\ Len(ps) = Len(queues)
      BY <1>0, <3>2, PushedType
    <3>5. ASSUME NEW k \in 1..Len(queues), NEW y, Holds(queues[k], y)
          PROVE  Holds(queues'[k], y)
      <4>1. Holds(ps[k], y)
        BY <1>0, <3>2, <3>5, HoldsPushed
      <4> HIDE DEF ps
      <4> QED BY <1>0, <3>2, <3>3, <3>4, <4>1, HoldsPushed
    <3> QED BY <1>a, <2>0, <3>5 DEF OwedInv
  <2>2. CASE approvals[x] # "pending"
    <3>1. queues' = queues
      BY <1>8, <2>2 DEF HandleApproval
    <3> QED BY <1>b, <2>0, <3>1
  <2> QED BY <2>1, <2>2
<1>9. ASSUME NEW c \in Tabs, NEW r \in Requests, LosePost(c, r) PROVE OwedInv'
  BY <1>9, <1>b DEF LosePost
<1>10. ASSUME NEW c \in Tabs, NEW x \in Requests, FinishDecision(c, x) PROVE OwedInv'
  <2>1. post[c][x].stage = "accepted" => post[c][x].action # "none"
    <3>1. post[c][x] \in Posts
      BY <1>0
    <3> QED BY <3>1 DEF Posts, Actions
  <2>2. \A b \in Tabs, r \in owed : cards[b][r] # "none" => cards'[b][r] # "none"
    BY <1>0, <1>10, <2>1 DEF FinishDecision
  <2> QED BY <1>10, <1>b, <2>2 DEF FinishDecision
<1>11. CASE Restart
  BY <1>11 DEF Restart, OwedInv
<1>12. CASE UNCHANGED vars
  BY <1>12, <1>b
<1> QED
  BY <1>1, <1>2, <1>3, <1>4, <1>5, <1>6, <1>7, <1>8, <1>9, <1>10, <1>11, <1>12 DEF Next

\* Several tabs on one queue, and queues left behind by broken streams, lose
\* no request that was pushed when no broken stream of the instructor was left.
THEOREM SharedQueuesLoseNothing == Spec => []SharedQueueLosesNoRequest
<1>1. OwedInv => SharedQueueLosesNoRequest
  BY DEF OwedInv, SharedQueueLosesNoRequest
<1>2. Init => TypeOK /\ OwnInv /\ OwedInv
  BY InitTypeOK, InitOwnInv, InitOwedInv
<1>3. TypeOK /\ OwnInv /\ OwedInv /\ [Next]_vars => (TypeOK /\ OwnInv /\ OwedInv)'
  BY NextTypeOK, NextOwnInv, NextOwedInv
<1> QED BY <1>1, <1>2, <1>3, PTL DEF Spec

-----------------------------------------------------------------------------
(* What a queue makes of a card.                                            *)

\* f gives the card after each of the first n events of q.
IsShowing(f, card, q, r, n) ==
  f = [i \in 0..n |->
         IF i = 0 THEN card
         ELSE IF q[i].request = r THEN Shown(f[i - 1], q[i]) ELSE f[i - 1]]

LEMMA ShowingExists ==
  ASSUME NEW card, NEW q, NEW r, NEW n \in Nat
  PROVE  \E f : IsShowing(f, card, q, r, n)
<1> DEFINE S == {k \in Nat : \E f : IsShowing(f, card, q, r, k)}
           Step(c, i) == IF q[i].request = r THEN Shown(c, q[i]) ELSE c
<1>1. 0 \in S
  <2> DEFINE f == [i \in 0..0 |-> card]
  <2>1. \A i \in 0..0 : i = 0
    OBVIOUS
  <2> QED BY <2>1 DEF IsShowing
<1>2. ASSUME NEW k \in Nat, k \in S PROVE k + 1 \in S
  <2>1. PICK f : IsShowing(f, card, q, r, k)
    BY <1>2
  <2> DEFINE h == [i \in 0..(k + 1) |-> IF i = k + 1 THEN Step(f[k], i) ELSE f[i]]
  <2>2. \A i \in 0..k : f[i] = IF i = 0 THEN card ELSE Step(f[i - 1], i)
    BY <2>1 DEF IsShowing
  <2> HIDE DEF Step
  <2>3. ASSUME NEW i \in 0..(k + 1)
        PROVE  h[i] = IF i = 0 THEN card ELSE Step(h[i - 1], i)
    <3>1. CASE i = 0
      BY <3>1, <2>2
    <3>2. CASE i \in 1..k
      <4>1. i # 0 /\ i # k + 1 /\ i - 1 # k + 1 /\ i - 1 \in 0..(k + 1) /\ i \in 0..k
        BY <3>2
      <4>2. h[i] = f[i] /\ h[i - 1] = f[i - 1]
        BY <4>1
      <4> HIDE DEF h
      <4> QED BY <4>1, <4>2, <2>2
    <3>3. CASE i = k + 1
      <4>1. i # 0 /\ i - 1 = k /\ k \in 0..(k + 1) /\ k # k + 1
        BY <3>3
      <4>2. h[i] = Step(f[k], i) /\ h[i - 1] = f[k]
        BY <4>1, <3>3
      <4> HIDE DEF h
      <4> QED BY <4>1, <4>2
    <3> QED BY <3>1, <3>2, <3>3
  <2>4. h = [i \in 0..(k + 1) |-> h[i]]
    OBVIOUS
  <2>5. IsShowing(h, card, q, r, k + 1)
    <3> HIDE DEF h
    <3> QED BY <2>3, <2>4 DEF IsShowing, Step
  <2> HIDE DEF h
  <2> QED BY <2>5
<1>3. Nat \subseteq S
  <2> HIDE DEF S
  <2> QED BY <1>1, <1>2, SetInduction
<1> QED BY <1>3

\* The same for all of q, and without the function's domain.
Follows(f, card, q, r) ==
  /\ f[0] = card
  /\ \A i \in 1..Len(q) :
       f[i] = IF q[i].request = r THEN Shown(f[i - 1], q[i]) ELSE f[i - 1]

LEMMA ShownAfterIs ==
  ASSUME NEW card, NEW q \in Queue, NEW r
  PROVE  \E f : Follows(f, card, q, r) /\ ShownAfter(card, q, r) = f[Len(q)]
<1> DEFINE shown == CHOOSE f : IsShowing(f, card, q, r, Len(q))
<1>0. Len(q) \in Nat
  BY SeqFacts DEF Queue
<1>1. IsShowing(shown, card, q, r, Len(q))
  BY <1>0, ShowingExists
<1>2. ShownAfter(card, q, r) = shown[Len(q)]
  BY DEF ShownAfter, IsShowing
<1> HIDE DEF shown
<1>3. shown[0] = card
  BY <1>0, <1>1 DEF IsShowing
<1>4. \A i \in 1..Len(q) :
        shown[i] = IF q[i].request = r THEN Shown(shown[i - 1], q[i]) ELSE shown[i - 1]
  <2> TAKE i \in 1..Len(q)
  <2>1. i \in 0..Len(q) /\ i # 0
    BY <1>0
  <2> QED BY <1>1, <2>1 DEF IsShowing
<1> QED BY <1>2, <1>3, <1>4 DEF Follows

\* One more event at the end of the queue is shown last.
LEMMA ShownAppend ==
  ASSUME NEW card, NEW q \in Queue, NEW e \in Event, NEW r
  PROVE  ShownAfter(card, Append(q, e), r) =
           IF e.request = r THEN Shown(ShownAfter(card, q, r), e)
                            ELSE ShownAfter(card, q, r)
<1> DEFINE p == Append(q, e)
           N == Len(q)
<1>0. /\ p \in Queue /\ Len(p) = N + 1 /\ N \in Nat
      /\ \A i \in 1..N : p[i] = q[i]
      /\ p[N + 1] = e
  BY AppendProperties, SeqFacts DEF Queue
<1>1. PICK f : Follows(f, card, q, r) /\ ShownAfter(card, q, r) = f[N]
  BY ShownAfterIs
<1>1a. /\ f[0] = card
       /\ \A i \in 1..N :
            f[i] = IF q[i].request = r THEN Shown(f[i - 1], q[i]) ELSE f[i - 1]
  BY <1>1 DEF Follows
<1> HIDE DEF p
<1>2. PICK h : Follows(h, card, p, r) /\ ShownAfter(card, p, r) = h[Len(p)]
  BY <1>0, ShownAfterIs
<1>2a. /\ h[0] = card
       /\ \A i \in 1..Len(p) :
            h[i] = IF p[i].request = r THEN Shown(h[i - 1], p[i]) ELSE h[i - 1]
  BY <1>2 DEF Follows
<1> HIDE DEF N
<1> DEFINE S == {i \in Nat : i <= N => f[i] = h[i]}
<1>3. 0 \in S
  BY <1>1a, <1>2a
<1>4. ASSUME NEW i \in Nat, i \in S PROVE i + 1 \in S
  <2>1. SUFFICES ASSUME i + 1 <= N PROVE f[i + 1] = h[i + 1]
    OBVIOUS
  <2>2. i + 1 \in 1..N /\ i + 1 \in 1..Len(p) /\ i + 1 - 1 = i /\ f[i] = h[i]
    BY <1>0, <1>4, <2>1
  <2> QED BY <1>0, <1>1a, <1>2a, <2>2
<1>5. Nat \subseteq S
  <2> HIDE DEF S
  <2> QED BY <1>3, <1>4, SetInduction
<1>6. f[N] = h[N]
  BY <1>0, <1>5
<1>7. Len(p) \in 1..Len(p) /\ Len(p) - 1 = N
  BY <1>0
<1>8. h[N + 1] = IF e.request = r THEN Shown(h[N], e) ELSE h[N]
  BY <1>0, <1>2a, <1>7
<1> QED BY <1>0, <1>1, <1>2, <1>6, <1>8 DEF p

\* The event at the head of the queue is shown first.
LEMMA ShownTail ==
  ASSUME NEW card, NEW q \in Queue, q # <<>>, NEW r
  PROVE  ShownAfter(card, q, r) =
           ShownAfter(IF Head(q).request = r THEN Shown(card, Head(q)) ELSE card,
                      Tail(q), r)
<1> DEFINE p == Tail(q)
           N == Len(q)
           first == IF Head(q).request = r THEN Shown(card, Head(q)) ELSE card
<1>0. /\ p \in Queue /\ Len(p) = N - 1 /\ N \in Nat \ {0}
      /\ \A i \in 1..Len(p) : p[i] = q[i + 1]
      /\ Head(q) = q[1]
  BY HeadTailProperties, EmptySeq DEF Queue
<1>1. PICK f : Follows(f, card, q, r) /\ ShownAfter(card, q, r) = f[N]
  BY ShownAfterIs
<1>1a. /\ f[0] = card
       /\ \A i \in 1..N :
            f[i] = IF q[i].request = r THEN Shown(f[i - 1], q[i]) ELSE f[i - 1]
  BY <1>1 DEF Follows
<1> HIDE DEF p, first
<1>2. PICK h : Follows(h, first, p, r) /\ ShownAfter(first, p, r) = h[Len(p)]
  BY <1>0, ShownAfterIs
<1>2a. /\ h[0] = first
       /\ \A i \in 1..Len(p) :
            h[i] = IF p[i].request = r THEN Shown(h[i - 1], p[i]) ELSE h[i - 1]
  BY <1>2 DEF Follows
<1> HIDE DEF N
<1> DEFINE S == {i \in Nat : i <= Len(p) => f[i + 1] = h[i]}
<1>3. 0 \in S
  <2>1. 1 \in 1..N /\ 1 - 1 = 0 /\ 0 + 1 = 1
    BY <1>0
  <2>2. f[1] = first
    BY <1>0, <1>1a, <2>1 DEF first
  <2> QED BY <1>2a, <2>1, <2>2
<1>4. ASSUME NEW i \in Nat, i \in S PROVE i + 1 \in S
  <2>1. SUFFICES ASSUME i + 1 <= Len(p) PROVE f[i + 1 + 1] = h[i + 1]
    OBVIOUS
  <2>2. /\ i + 1 \in 1..Len(p) /\ i + 1 - 1 = i
        /\ i + 1 + 1 \in 1..N /\ i + 1 + 1 - 1 = i + 1 /\ f[i + 1] = h[i]
    BY <1>0, <1>4, <2>1
  <2> QED BY <1>0, <1>1a, <1>2a, <2>2
<1>5. Nat \subseteq S
  <2> HIDE DEF S
  <2> QED BY <1>3, <1>4, SetInduction
<1>6. Len(p) \in Nat /\ Len(p) + 1 = N
  BY <1>0
<1>7. f[N] = h[Len(p)]
  BY <1>5, <1>6
<1> QED BY <1>1, <1>2, <1>7 DEF p, first

\* Events that change nothing change nothing together: of other requests, or
\* results that say what the card says.
LEMMA ShownSame ==
  ASSUME NEW card, NEW q \in Queue, NEW r,
         \A i \in 1..Len(q) : q[i].request = r => Shown(card, q[i]) = card
  PROVE  ShownAfter(card, q, r) = card
<1> DEFINE N == Len(q)
<1>0. N \in Nat
  BY SeqFacts DEF Queue
<1>1. PICK f : Follows(f, card, q, r) /\ ShownAfter(card, q, r) = f[N]
  BY ShownAfterIs
<1>1a. /\ f[0] = card
       /\ \A i \in 1..N :
            f[i] = IF q[i].request = r THEN Shown(f[i - 1], q[i]) ELSE f[i - 1]
  BY <1>1 DEF Follows
<1>a. \A i \in 1..N : q[i].request = r => Shown(card, q[i]) = card
  OBVIOUS
<1> HIDE DEF N
<1> DEFINE S == {i \in Nat : i <= N => f[i] = card}
<1>2. 0 \in S
  BY <1>1a
<1>3. ASSUME NEW i \in Nat, i \in S PROVE i + 1 \in S
  <2>1. SUFFICES ASSUME i + 1 <= N PROVE f[i + 1] = card
    OBVIOUS
  <2>2. i + 1 \in 1..N /\ i + 1 - 1 = i /\ f[i] = card
    BY <1>0, <1>3, <2>1
  <2> QED BY <1>1a, <1>a, <2>2
<1>4. Nat \subseteq S
  <2> HIDE DEF S
  <2> QED BY <1>2, <1>3, SetInduction
<1> QED BY <1>0, <1>1, <1>4

\* An event that may have been pushed, as far as it changes what is shown.
LEMMA ShownPushed ==
  ASSUME NEW card, NEW q \in Queue, NEW e \in Event, NEW r,
         NEW p, p \in {q, Append(q, e)}
  PROVE  /\ e.request # r => ShownAfter(card, p, r) = ShownAfter(card, q, r)
         /\ e.request = r => ShownAfter(card, p, r) \in
              {ShownAfter(card, q, r), Shown(ShownAfter(card, q, r), e)}
<1>1. CASE p = q
  BY <1>1
<1>2. CASE p = Append(q, e)
  <2>1. ShownAfter(card, Append(q, e), r) =
           IF e.request = r THEN Shown(ShownAfter(card, q, r), e)
                            ELSE ShownAfter(card, q, r)
    BY ShownAppend
  <2> QED BY <1>2, <2>1
<1> QED BY <1>1, <1>2

-----------------------------------------------------------------------------
(* A steady tab mirrors the table.                                          *)

MirrorInv ==
  /\ \A b \in Tabs : \A r \in watched[b] :
       /\ b \in steady /\ InstructorOf[r] = UserOf[b]
       /\ approvals[r] \in {"pending"} \cup Actions
  /\ SteadyTabMirrorsStore

LEMMA InitMirrorInv == Init => MirrorInv
  BY DEF Init, MirrorInv, SteadyTabMirrorsStore

\* Nobody else takes events from a steady tab's queue.
LEMMA SteadyReadsAlone ==
  ASSUME TypeOK, OwnInv, NEW b \in steady, NEW c \in Tabs
  PROVE  /\ stream[b] \in 1..Len(queues) /\ stream[b] = connection[UserOf[b]]
         /\ b \in Tabs /\ UserOf[b] \in Users /\ queues[stream[b]] \in Queue
         /\ stream[c] = stream[b] => c = b
         /\ dying[c] # stream[b]
<1>1. /\ b \in Tabs /\ UserOf[b] \in Users
      /\ queues \in Seq(Queue) /\ stream \in [Tabs -> 0..Len(queues)]
      /\ Len(queues) \in Nat
  BY SeqFacts DEF TypeOK, Queue
<1>2. stream[b] # 0 /\ stream[b] = connection[UserOf[b]] /\ dying[b] = 0
  BY DEF OwnInv
<1>3. stream[b] \in 1..Len(queues) /\ queues[stream[b]] \in Queue
  BY <1>1, <1>2, SeqFacts
<1>4. ASSUME stream[b] \in {stream[c], dying[c]} PROVE c = b
  <2>1. UserOf[c] = UserOf[b]
    BY <1>1, <1>2, <1>4 DEF OwnInv
  <2>2. c # b => stream[c] = 0 /\ dying[c] = 0
    BY <2>1 DEF OwnInv, TabsOf
  <2> QED BY <1>2, <1>4, <2>2
<1> QED BY <1>1, <1>2, <1>3, <1>4

LEMMA NextMirrorInv ==
  TypeOK /\ TruthInv /\ OwnInv /\ MirrorInv /\ [Next]_vars => MirrorInv'
<1> SUFFICES ASSUME TypeOK, TruthInv, OwnInv, MirrorInv, [Next]_vars PROVE MirrorInv'
  OBVIOUS
<1> USE DEF vars, storeVars, sseVars, traceVars
<1>0. /\ queues \in Seq(Queue) /\ Len(queues) \in Nat
      /\ connection \in [Users -> 0..Len(queues)]
      /\ stream \in [Tabs -> 0..Len(queues)] /\ dying \in [Tabs -> 0..Len(queues)]
      /\ cards \in [Tabs -> [Requests -> {"none", "pending"} \cup Actions]]
      /\ post \in [Tabs -> [Requests -> Posts]]
      /\ approvals \in [Requests -> {"absent", "pending", "gone"} \cup Actions]
      /\ watched \in [Tabs -> SUBSET Requests] /\ steady \subseteq Tabs
  BY SeqFacts DEF TypeOK, Queue
\* The steps that leave the store alone, end some watches and keep what the
\* other tabs show and get.
<1>a. ASSUME approvals' = approvals,
             \A b \in Tabs : \A r \in watched'[b] :
               /\ r \in watched[b] /\ b \in steady' /\ b \in steady
               /\ WillShow(b, r)' = WillShow(b, r),
             steady' \subseteq Tabs
      PROVE  MirrorInv'
  BY <1>a DEF MirrorInv, SteadyTabMirrorsStore
<1>b. ASSUME NEW b \in Tabs, NEW r \in watched[b]
      PROVE  /\ b \in steady /\ r \in Requests /\ InstructorOf[r] = UserOf[b]
             /\ approvals[r] \in {"pending"} \cup Actions
             /\ ShownAfter(cards[b][r], queues[stream[b]], r) = approvals[r]
             /\ queues[stream[b]] \in Queue /\ stream[b] \in 1..Len(queues)
             /\ stream[b] = connection[UserOf[b]]
  BY <1>0, SteadyReadsAlone DEF MirrorInv, SteadyTabMirrorsStore, WillShow
<1>1. ASSUME NEW r \in Requests, CreateRequest(r) PROVE MirrorInv'
  <2> DEFINE e == [type |-> "approval_request", request |-> r]
  <2>1. e \in Event /\ e.type = "approval_request" /\ e.request = r
        /\ InstructorOf[r] \in Users
    BY DEF Event
  <2>2. /\ queues' = Pushed(queues, InstructorOf[r], e)
        /\ approvals[r] = "absent"
        /\ approvals' = [approvals EXCEPT ![r] = "pending"]
        /\ watched' = [b \in Tabs |-> IF b \in steady /\ UserOf[b] = InstructorOf[r]
                                      THEN watched[b] \cup {r} ELSE watched[b]]
        /\ UNCHANGED <<cards, steady, stream>>
    BY <1>1 DEF CreateRequest
  <2> HIDE DEF e
  <2>3. \A k \in 1..Len(queues) :
          queues'[k] = IF k = connection[InstructorOf[r]] THEN Append(queues[k], e)
                                                          ELSE queues[k]
    BY <1>0, <2>1, <2>2, PushedType
  <2>4. ASSUME NEW b \in Tabs, NEW x \in watched'[b]
        PROVE  /\ b \in steady' /\ InstructorOf[x] = UserOf[b]
               /\ approvals'[x] \in {"pending"} \cup Actions
               /\ ShownAfter(cards'[b][x], queues'[stream'[b]], x) = approvals'[x]
    <3>1. CASE x \in watched[b]
      <4>1. x # r /\ approvals'[x] = approvals[x]
        BY <1>0, <1>b, <2>2, <3>1 DEF Actions
      <4>2. /\ queues'[stream[b]] \in {queues[stream[b]], Append(queues[stream[b]], e)}
            /\ queues[stream[b]] \in Queue
        BY <1>b, <2>3, <3>1
      <4>3. ShownAfter(cards[b][x], queues'[stream[b]], x) =
              ShownAfter(cards[b][x], queues[stream[b]], x)
        BY <2>1, <4>1, <4>2, ShownPushed
      <4> QED BY <1>b, <2>2, <3>1, <4>1, <4>3
    <3>2. CASE x \notin watched[b]
      <4>1. x = r /\ b \in steady /\ UserOf[b] = InstructorOf[r]
        BY <2>2, <2>4, <3>2
      <4>2. /\ stream[b] \in 1..Len(queues) /\ stream[b] = connection[InstructorOf[r]]
            /\ queues[stream[b]] \in Queue
        BY <4>1, SteadyReadsAlone
      <4>3. queues'[stream[b]] = Append(queues[stream[b]], e)
        BY <2>3, <4>2
      <4>4. cards[b][r] = "none"
        BY <2>2 DEF TruthInv
      <4>5. ASSUME NEW i \in 1..Len(queues[stream[b]])
            PROVE  queues[stream[b]][i].request # r
        <5>1. queues[stream[b]][i] \in Event
          BY <4>2, SeqFacts DEF Queue
        <5>2. queues[stream[b]][i] \in Queued(queues)
          BY <4>2, <5>1 DEF Queued
        <5> QED BY <2>2, <5>2 DEF TruthInv
      <4>6. ShownAfter(cards[b][r], queues[stream[b]], r) = "none"
        BY <4>2, <4>4, <4>5, ShownSame
      <4>7. Shown("none", e) = "pending"
        BY <2>1 DEF Shown
      <4>8. ShownAfter(cards[b][r], queues'[stream[b]], r) = "pending"
        BY <2>1, <4>2, <4>3, <4>6, <4>7, ShownAppend
      <4>9. approvals'[r] = "pending"
        BY <1>0, <2>2
      <4> QED BY <2>2, <4>1, <4>8, <4>9
    <3> QED BY <3>1, <3>2
  <2> QED BY <2>2, <2>4, <1>0 DEF MirrorInv, SteadyTabMirrorsStore, WillShow
<1>2. ASSUME NEW c \in Tabs, OpenStream(c) PROVE MirrorInv'
  <2>1. /\ UNCHANGED <<approvals, cards>> /\ stream[c] = 0
        /\ steady' \subseteq Tabs
        /\ watched' = [b \in Tabs |-> IF b \in steady' \cap steady THEN watched[b] ELSE {}]
        /\ queues' = queues \/ queues' = Append(queues, <<>>)
    BY <1>0, <1>2 DEF OpenStream
  <2>2. ASSUME NEW b \in Tabs, NEW r \in watched'[b]
        PROVE  /\ r \in watched[b] /\ b \in steady' /\ b \in steady
               /\ WillShow(b, r)' = WillShow(b, r)
    <3>1. r \in watched[b] /\ b \in steady' /\ b \in steady
      BY <2>1, <2>2
    <3>2. stream[b] \in 1..Len(queues) /\ b # c
      BY <1>0, <2>1, <3>1, SteadyReadsAlone
    <3>3. stream'[b] = stream[b]
      BY <1>0, <1>2, <3>2 DEF OpenStream
    <3>4. queues'[stream[b]] = queues[stream[b]]
      BY <1>0, <2>1, <3>2, NewQueueType
    <3> QED BY <2>1, <3>1, <3>3, <3>4 DEF WillShow
  <2> QED BY <1>a, <2>1, <2>2
<1>3. ASSUME NEW c \in Tabs, BreakStream(c) PROVE MirrorInv'
  <2>1. /\ UNCHANGED <<approvals, queues>>
        /\ stream' = [stream EXCEPT ![c] = 0]
        /\ steady' = steady \ {c} /\ watched' = [watched EXCEPT ![c] = {}]
        /\ cards' = cards \/ cards' = [cards EXCEPT ![c] = [r \in Requests |-> "none"]]
    BY <1>3 DEF BreakStream
  <2>2. ASSUME NEW b \in Tabs, NEW r \in watched'[b]
        PROVE  /\ r \in watched[b] /\ b \in steady' /\ b \in steady
               /\ WillShow(b, r)' = WillShow(b, r)
    <3>1. b # c /\ r \in watched[b]
      BY <1>0, <2>1, <2>2
    <3>2. b \in steady /\ stream'[b] = stream[b] /\ cards'[b] = cards[b]
      BY <1>0, <1>b, <2>1, <3>1
    <3> QED BY <2>1, <3>1, <3>2 DEF WillShow
  <2> QED BY <1>0, <1>a, <2>1, <2>2
<1>4. ASSUME NEW c \in Tabs, CancelStream(c) PROVE MirrorInv'
  <2>1. UNCHANGED <<approvals, queues, stream, cards, watched, steady>>
    BY <1>4 DEF CancelStream
  <2> QED BY <1>0, <1>a, <1>b, <2>1 DEF WillShow
<1>5. ASSUME NEW c \in Tabs, LoseEvent(c) PROVE MirrorInv'
  <2>1. /\ dying[c] \in 1..Len(queues) /\ queues[dying[c]] # <<>>
        /\ queues' = [queues EXCEPT ![dying[c]] = Tail(@)]
        /\ UNCHANGED <<approvals, stream, cards, watched, steady>>
    BY <1>0, <1>5 DEF LoseEvent
  <2>2. ASSUME NEW b \in steady PROVE queues'[stream[b]] = queues[stream[b]]
    <3>1. dying[c] # stream[b] /\ stream[b] \in 1..Len(queues)
      BY SteadyReadsAlone
    <3> QED BY <1>0, <2>1, <3>1, TakenType
  <2> QED BY <1>0, <1>a, <1>b, <2>1, <2>2 DEF WillShow
<1>6. ASSUME NEW c \in Tabs, Deliver(c) PROVE MirrorInv'
  <2> DEFINE e == Head(queues[stream[c]])
  <2>1. /\ stream[c] \in 1..Len(queues) /\ queues[stream[c]] # <<>>
        /\ queues' = [queues EXCEPT ![stream[c]] = Tail(@)]
        /\ cards' = [cards EXCEPT ![c][e.request] = Shown(@, e)]
        /\ UNCHANGED <<approvals, stream, watched, steady>>
    BY <1>0, <1>6 DEF Deliver
  <2>2. /\ e \in Event
        /\ \A k \in 1..Len(queues) :
             queues'[k] = IF k = stream[c] THEN Tail(queues[k]) ELSE queues[k]
    BY <1>0, <2>1, TakenType
  <2>3. e.request \in Requests
    BY <2>2 DEF Event
  <2>4. ASSUME NEW b \in Tabs, NEW r \in watched[b]
        PROVE  ShownAfter(cards'[b][r], queues'[stream[b]], r) =
                 ShownAfter(cards[b][r], queues[stream[b]], r)
    <3>0. /\ b \in steady /\ r \in Requests /\ queues[stream[b]] \in Queue
          /\ stream[b] \in 1..Len(queues)
      BY <1>b
    <3>1. CASE b = c
      <4>1. queues'[stream[b]] = Tail(queues[stream[b]])
        BY <2>2, <3>0, <3>1
      <4>2. cards'[b][r] = IF e.request = r THEN Shown(cards[b][r], e) ELSE cards[b][r]
        <5> HIDE DEF e
        <5> QED BY <1>0, <2>1, <2>3, <3>0, <3>1
      <4> QED BY <2>1, <3>0, <3>1, <4>1, <4>2, ShownTail
    <3>2. CASE b # c
      <4>1. stream[c] # stream[b]
        BY <3>0, <3>2, SteadyReadsAlone
      <4>2. queues'[stream[b]] = queues[stream[b]]
        BY <2>2, <3>0, <4>1
      <4>3. cards'[b][r] = cards[b][r]
        <5> HIDE DEF e
        <5> QED BY <1>0, <2>1, <2>3, <3>0, <3>2
      <4> QED BY <4>2, <4>3
    <3> QED BY <3>1, <3>2
  <2>5. \A b \in Tabs : \A r \in watched[b] : WillShow(b, r)' = WillShow(b, r)
    BY <1>b, <2>1, <2>4 DEF WillShow
  <2> QED BY <1>0, <1>a, <1>b, <2>1, <2>5
<1>7. ASSUME NEW c \in Tabs, NEW r \in Requests, NEW action \in Actions,
             SubmitDecision(c, r, action)
      PROVE  MirrorInv'
  <2>1. UNCHANGED <<approvals, queues, stream, cards, watched, steady>>
    BY <1>7 DEF SubmitDecision
  <2> QED BY <1>0, <1>a, <1>b, <2>1 DEF WillShow
<1>8. ASSUME NEW c \in Tabs, NEW r \in Requests, HandleApproval(c, r) PROVE MirrorInv'
  <2>0. post[c][r] \in Posts /\ post[c][r].stage = "sent"
        /\ UNCHANGED <<cards, stream, watched, steady>>
    BY <1>0, <1>8 DEF HandleApproval
  <2>1. CASE approvals[r] = "pending"
    <3> DEFINE a == post[c][r].action
               e == [type |-> "approval_result", request |-> r, action |-> a]
               ps == Pushed(queues, StudentOf[r], e)
    <3>1. a \in Actions
      BY <2>0 DEF Posts
    <3>2. e \in Event /\ e.type = "approval_result" /\ e.request = r /\ e.action = a
      BY <3>1 DEF Event
    <3>3. /\ queues' = Pushed(ps, InstructorOf[r], e)
          /\ approvals' = [approvals EXCEPT ![r] = a]
      BY <1>8, <2>1 DEF HandleApproval
    <3>4. StudentOf[r] \in Users /\ InstructorOf[r] \in Users
      OBVIOUS
    <3> HIDE DEF e, a
    <3>5. /\ ps \in Seq(Queue) /\ Len(ps) = Len(queues)
          /\ \A k \in 1..Len(queues) :
               ps[k] = IF k = connection[StudentOf[r]] THEN Append(queues[k], e)
                                                       ELSE queues[k]
      BY <1>0, <3>2, <3>4, PushedType
    <3> HIDE DEF ps
    <3>6. \A k \in 1..Len(queues) :
            queues'[k] = IF k = connection[InstructorOf[r]] THEN Append(ps[k], e) ELSE ps[k]
      BY <1>0, <3>2, <3>3, <3>4, <3>5, PushedType
    <3>7. ASSUME NEW b \in Tabs, NEW x \in watched[b]
          PROVE  /\ approvals'[x] \in {"pending"} \cup Actions
                 /\ ShownAfter(cards[b][x], queues'[stream[b]], x) = approvals'[x]
      <4> DEFINE k == stream[b]
      <4>0. /\ k \in 1..Len(queues) /\ queues[k] \in Queue /\ x \in Requests
            /\ k = connection[InstructorOf[x]]
            /\ ShownAfter(cards[b][x], queues[k], x) = approvals[x]
            /\ approvals[x] \in {"pending"} \cup Actions
        BY <1>b
      <4> HIDE DEF k
      <4>1. ps[k] \in Queue /\ ps[k] \in {queues[k], Append(queues[k], e)}
        BY <3>5, <4>0, SeqFacts
      <4>2. CASE x # r
        <5>1. ShownAfter(cards[b][x], ps[k], x) = approvals[x]
          <6>1. /\ e.request # x /\ e \in Event
                /\ queues[k] \in Queue /\ ps[k] \in {queues[k], Append(queues[k], e)}
            BY <3>2, <4>0, <4>1, <4>2
          <6>2. ShownAfter(cards[b][x], ps[k], x) = ShownAfter(cards[b][x], queues[k], x)
            BY <6>1, ShownPushed, ZenonT(30)
          <6> QED BY <4>0, <6>2
        <5>2. ShownAfter(cards[b][x], queues'[k], x) = approvals[x]
          <6>1. queues'[k] \in {ps[k], Append(ps[k], e)}
            BY <3>6, <4>0
          <6> QED BY <3>2, <4>1, <4>2, <5>1, <6>1, ShownPushed
        <5>3. approvals'[x] = approvals[x]
          BY <1>0, <3>3, <4>2
        <5> QED BY <4>0, <5>2, <5>3 DEF k
      <4>3. CASE x = r
        <5>1. Shown("pending", e) = a /\ Shown(a, e) = a
          BY <3>1, <3>2 DEF Shown, Actions
        <5>2. ShownAfter(cards[b][x], ps[k], x) \in {"pending", a}
          <6>1. ShownAfter(cards[b][x], queues[k], x) = "pending"
            BY <2>1, <4>0, <4>3
          <6>2. /\ e.request = x /\ e \in Event
                /\ queues[k] \in Queue /\ ps[k] \in {queues[k], Append(queues[k], e)}
            BY <3>2, <4>0, <4>1, <4>3
          <6>3. ShownAfter(cards[b][x], ps[k], x) \in
                  {ShownAfter(cards[b][x], queues[k], x),
                   Shown(ShownAfter(cards[b][x], queues[k], x), e)}
            BY <6>2, ShownPushed
          <6> QED BY <5>1, <6>1, <6>3
        <5>3. queues'[k] = Append(ps[k], e)
          BY <3>6, <4>0, <4>3
        <5>4. ShownAfter(cards[b][x], queues'[k], x) = a
          BY <3>2, <4>1, <4>3, <5>1, <5>2, <5>3, ShownAppend
        <5>5. approvals'[x] = a
          BY <1>0, <3>3, <4>3
        <5> QED BY <3>1, <5>4, <5>5 DEF k
      <4> QED BY <4>2, <4>3
    <3> QED BY <1>0, <1>b, <2>0, <3>7 DEF MirrorInv, SteadyTabMirrorsStore, WillShow
  <2>2. CASE approvals[r] # "pending"
    <3>1. UNCHANGED <<approvals, queues>>
      BY <1>8, <2>2 DEF HandleApproval
    <3> QED BY <1>0, <1>a, <1>b, <2>0, <3>1 DEF WillShow
  <2> QED BY <2>1, <2>2
<1>9. ASSUME NEW c \in Tabs, NEW r \in Requests, LosePost(c, r) PROVE MirrorInv'
  <2>1. UNCHANGED <<approvals, queues, stream, cards, watched, steady>>
    BY <1>9 DEF LosePost
  <2> QED BY <1>0, <1>a, <1>b, <2>1 DEF WillShow
<1>10. ASSUME NEW c \in Tabs, NEW r \in Requests, FinishDecision(c, r) PROVE MirrorInv'
  <2>1. UNCHANGED <<approvals, queues, stream, watched, steady>>
    BY <1>10 DEF FinishDecision
  <2>2. ASSUME NEW b \in Tabs, NEW x \in watched[b]
        PROVE  ShownAfter(cards'[b][x], queues[stream[b]], x) = approvals[x]
    <3>0. x \in Requests
      BY <1>b
    <3>1. CASE cards'[b][x] = cards[b][x]
      BY <1>b, <3>1
    <3>2. CASE cards'[b][x] # cards[b][x]
      <4> DEFINE a == post[b][x].action
      <4>1. post[b][x].stage = "accepted" /\ cards'[b][x] = a
        BY <1>0, <1>10, <3>0, <3>2 DEF FinishDecision
      <4>2. a \in Actions /\ approvals[x] = a
        <5>1. post[b][x] \in Posts
          BY <1>0, <3>0
        <5>2. a \in Actions
          BY <4>1, <5>1 DEF Posts
        <5>3. approvals[x] \in {a, "gone"} /\ approvals[x] # "gone"
          BY <1>b, <3>0, <4>1 DEF TruthInv, ReviewersSeeTheTruth, Actions
        <5> QED BY <5>2, <5>3
      <4> HIDE DEF a
      <4>3. ASSUME NEW i \in 1..Len(queues[stream[b]]),
                   queues[stream[b]][i].request = x
            PROVE  Shown(a, queues[stream[b]][i]) = a
        <5> DEFINE y == queues[stream[b]][i]
        <5>1. y \in Event
          BY <1>b, SeqFacts DEF Queue
        <5>2. y \in Queued(queues)
          BY <1>b, <5>1 DEF Queued
        <5>3. y.type = "approval_result" => y.action = a
          <6>1. y.type = "approval_result" => a \in {y.action, "gone"}
            BY <4>2, <4>3, <5>2 DEF TruthInv
          <6>2. a # "gone"
            BY <4>2 DEF Actions
          <6> QED BY <6>1, <6>2
        <5>4. a # "none" /\ y.type \in {"approval_request", "approval_result"}
          BY <4>2, <5>1 DEF Actions, Event
        <5> HIDE DEF y
        <5>5. Shown(a, y) = a
          BY <5>3, <5>4 DEF Shown
        <5> QED BY <5>5 DEF y
      <4>4. ShownAfter(a, queues[stream[b]], x) = a
        BY <1>b, <4>3, ShownSame
      <4> QED BY <4>1, <4>2, <4>4
    <3> QED BY <3>1, <3>2
  <2> QED BY <1>0, <1>b, <2>1, <2>2 DEF MirrorInv, SteadyTabMirrorsStore, WillShow
<1>11. CASE Restart
  BY <1>11 DEF Restart, MirrorInv, SteadyTabMirrorsStore
<1>12. CASE UNCHANGED vars
  <2>1. UNCHANGED <<approvals, queues, stream, cards, watched, steady>>
    BY <1>12
  <2> QED BY <1>0, <1>a, <1>b, <2>1 DEF WillShow
<1> QED
  BY <1>1, <1>2, <1>3, <1>4, <1>5, <1>6, <1>7, <1>8, <1>9, <1>10, <1>11, <1>12 DEF Next

\* A tab whose stream is its user's only one, from the time it connected,
\* shows or is about to show exactly what the gateway has on every request
\* created since: events come in order, and none is lost or taken by another.
THEOREM SteadyTabsMirrorTheStore == Spec => []SteadyTabMirrorsStore
<1>1. Init => TypeOK /\ TruthInv /\ OwnInv /\ MirrorInv
  BY InitTypeOK, InitTruthInv, InitOwnInv, InitMirrorInv
<1>2. TypeOK /\ TruthInv /\ OwnInv /\ MirrorInv /\ [Next]_vars
        => (TypeOK /\ TruthInv /\ OwnInv /\ MirrorInv)'
  BY NextTypeOK, NextTruthInv, NextOwnInv, NextMirrorInv
<1> QED BY <1>1, <1>2, PTL DEF Spec, MirrorInv
=============================================================================
