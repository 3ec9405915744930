------------------------------- MODULE Gateway -------------------------------
(***************************************************************************)
(* The API gateway's approval requests and SSE queues, composed with the   *)
(* instructor dashboards that show the requests as cards.                  *)
(*                                                                         *)
(* The gateway is one event loop whose handlers do not give it up between  *)
(* reading and writing the two in-memory tables.  A tab of a dashboard has *)
(* one EventSource; when it breaks, the generator that serves it goes on   *)
(* for a while, and its end removes the user's queue or forgets to.        *)
(***************************************************************************)
EXTENDS Naturals, Sequences

CONSTANTS Requests, Users, Tabs,
          UserOf,         \* the user signed in at a tab
          StudentOf, InstructorOf,  \* the two parties of a request
          MaxQueues,      \* bound on the queues ever created
          MaxRestarts     \* bound on gateway restarts

VARIABLES approvals,   \* _approval_requests: the status of each request
          connection,  \* _connections: the queue of each user, 0 if none
          queues,      \* the queues created so far
          stream,      \* stream[b]: the queue tab b is served from, 0 if none
          dying,       \* dying[b]: the queue of b's broken, uncancelled stream
          cards,       \* cards[b][r]: what tab b shows of request r
          post,        \* post[b][r]: tab b's decision on r on its way
          watched,     \* watched[b]: requests created while b was steady
          steady,      \* tabs whose stream nobody shares or breaks
          owed,        \* requests pushed since a stream of theirs broke
          restarts

ASSUME GatewayAssumption ==
  /\ UserOf \in [Tabs -> Users]
  /\ {StudentOf, InstructorOf} \subseteq [Requests -> Users]
  /\ {MaxQueues, MaxRestarts} \subseteq Nat

storeVars == <<approvals, restarts>>
sseVars == <<connection, queues, stream, dying>>
traceVars == <<watched, steady, owed>>
vars == <<storeVars, sseVars, cards, post, traceVars>>

Actions == {"approve", "reject"}

Event == [type : {"approval_request"}, request : Requests]
         \cup [type : {"approval_result"}, request : Requests, action : Actions]

Posts == [stage : {"idle", "refused"}] \cup [stage : {"sent", "accepted"}, action : Actions]

Idle == [stage |-> "idle"]
Refused == [stage |-> "refused"]

TypeOK ==
  /\ approvals \in [Requests -> {"absent", "pending", "gone"} \cup Actions]
  /\ queues \in Seq(Seq(Event)) /\ Len(queues) <= MaxQueues
  /\ connection \in [Users -> 0..Len(queues)]
  /\ {stream, dying} \subseteq [Tabs -> 0..Len(queues)]
  /\ cards \in [Tabs -> [Requests -> {"none", "pending"} \cup Actions]]
  /\ post \in [Tabs -> [Requests -> Posts]]
  /\ watched \in [Tabs -> SUBSET Requests]
  /\ steady \subseteq Tabs /\ owed \subseteq Requests
  /\ restarts \in 0..MaxRestarts

Init ==
  /\ approvals = [r \in Requests |-> "absent"]
  /\ connection = [u \in Users |-> 0]
  /\ queues = <<>>
  /\ stream = [b \in Tabs |-> 0] /\ dying = [b \in Tabs |-> 0]
  /\ cards = [b \in Tabs |-> [r \in Requests |-> "none"]]
  /\ post = [b \in Tabs |-> [r \in Requests |-> Idle]]
  /\ watched = [b \in Tabs |-> {}] /\ steady = {} /\ owed = {}
  /\ restarts = 0

-----------------------------------------------------------------------------
(* The gateway's tables. *)

\* push_event: without a queue the event is dropped.
Pushed(qs, u, e) ==
  IF connection[u] = 0 THEN qs ELSE [qs EXCEPT ![connection[u]] = Append(@, e)]

TabsOf(u) == {b \in Tabs : UserOf[b] = u}

\* create_approval_request: stored as pending, the instructor is notified.
CreateRequest(r) ==
  /\ approvals[r] = "absent"
  /\ approvals' = [approvals EXCEPT ![r] = "pending"]
  /\ queues' = Pushed(queues, InstructorOf[r], [type |-> "approval_request", request |-> r])
  /\ watched' = [b \in Tabs |-> IF b \in steady /\ UserOf[b] = InstructorOf[r]
                                THEN watched[b] \cup {r} ELSE watched[b]]
  /\ owed' = IF connection[InstructorOf[r]] # 0
                  /\ \A b \in TabsOf(InstructorOf[r]) : dying[b] = 0
             THEN owed \cup {r} ELSE owed
  /\ UNCHANGED <<restarts, connection, stream, dying, cards, post, steady>>

\* No stream of user u is open or waits for its cancellation.
NoStreamOf(u) == \A b \in TabsOf(u) : stream[b] = 0 /\ dying[b] = 0

\* Mutant: every stream gets a queue of its own, the last one the events.
OpenStreamWithFreshQueue(b) ==
  /\ stream[b] = 0 /\ Len(queues) < MaxQueues
  /\ queues' = Append(queues, <<>>)
  /\ connection' = [connection EXCEPT ![UserOf[b]] = Len(queues) + 1]
  /\ stream' = [stream EXCEPT ![b] = Len(queues) + 1]
  /\ steady' = {} /\ watched' = [c \in Tabs |-> {}]
  /\ UNCHANGED <<storeVars, dying, cards, post, owed>>

\* GET /sse/events: the user's queue is taken, or created if there is none.
OpenStream(b) ==
  /\ stream[b] = 0
  /\ LET u == UserOf[b] IN
     /\ \/ /\ connection[u] # 0
           /\ stream' = [stream EXCEPT ![b] = connection[u]]
           /\ UNCHANGED <<connection, queues>>
        \/ /\ connection[u] = 0 /\ Len(queues) < MaxQueues
           /\ queues' = Append(queues, <<>>)
           /\ connection' = [connection EXCEPT ![u] = Len(queues) + 1]
           /\ stream' = [stream EXCEPT ![b] = Len(queues) + 1]
     /\ steady' = (steady \ TabsOf(u)) \cup (IF NoStreamOf(u) THEN {b} ELSE {})
     /\ watched' = [c \in Tabs |-> IF c \in steady' \cap steady THEN watched[c] ELSE {}]
  /\ UNCHANGED <<storeVars, dying, cards, post, owed>>

\* The tab is closed, reloaded or loses its network; a reload forgets the
\* cards.  A POST on its way may still be handled; its answer finds no card.
\* (Bound: one broken stream of a tab at a time.)
BreakStream(b) ==
  /\ stream[b] # 0 /\ dying[b] = 0
  /\ dying' = [dying EXCEPT ![b] = stream[b]]
  /\ stream' = [stream EXCEPT ![b] = 0]
  /\ \/ UNCHANGED cards
     \/ cards' = [cards EXCEPT ![b] = [r \in Requests |-> "none"]]
  /\ steady' = steady \ {b}
  /\ watched' = [watched EXCEPT ![b] = {}]
  /\ owed' = {r \in owed : InstructorOf[r] # UserOf[b]}
  /\ UNCHANGED <<storeVars, connection, queues, post>>

\* event_generator ends.  Cancelled in queue.get(), it takes away the user's
\* queue, whichever stream it belongs to by now.  When the response is
\* cancelled while it sends (the generator is at its yield and gets a
\* GeneratorExit, which it does not catch) or before the generator began, the
\* queue stays, for the next stream of the user to take.
CancelStream(b) ==
  /\ dying[b] # 0
  /\ dying' = [dying EXCEPT ![b] = 0]
  /\ \/ connection' = [connection EXCEPT ![UserOf[b]] = 0]
     \/ UNCHANGED connection
  /\ UNCHANGED <<storeVars, queues, stream, cards, post, traceVars>>

\* A broken stream that was not cancelled yet still takes events.
LoseEvent(b) ==
  /\ dying[b] # 0 /\ queues[dying[b]] # <<>>
  /\ queues' = [queues EXCEPT ![dying[b]] = Tail(@)]
  /\ UNCHANGED <<storeVars, connection, stream, dying, cards, post, traceVars>>

\* Mutant: the queues are gone, the streams are not.
RestartKeepingStreams ==
  /\ restarts < MaxRestarts
  /\ restarts' = restarts + 1
  /\ approvals' = [r \in Requests |-> IF approvals[r] = "absent" THEN "absent" ELSE "gone"]
  /\ connection' = [u \in Users |-> 0]
  /\ queues' = <<>>
  /\ UNCHANGED <<stream, dying, post, traceVars, cards>>

\* The gateway restarts: its tables and every stream are gone.
Restart ==
  /\ restarts < MaxRestarts
  /\ restarts' = restarts + 1
  /\ approvals' = [r \in Requests |-> IF approvals[r] = "absent" THEN "absent" ELSE "gone"]
  /\ connection' = [u \in Users |-> 0]
  /\ queues' = [q \in DOMAIN queues |-> <<>>]
  /\ stream' = [b \in Tabs |-> 0] /\ dying' = [b \in Tabs |-> 0]
  /\ post' = [b \in Tabs |-> [r \in Requests |->
                IF post[b][r].stage = "idle" THEN Idle ELSE Refused]]
  /\ steady' = {} /\ watched' = [b \in Tabs |-> {}] /\ owed' = {}
  /\ UNCHANGED cards

-----------------------------------------------------------------------------
(* The dashboard. *)

\* Mutant: results are for the student.
ShownIgnoringResults(card, e) ==
  IF e.type = "approval_request" /\ card = "none" THEN "pending" ELSE card

\* addRequest adds a card unless there is one, resolveRequest changes the
\* card if there is one.
Shown(card, e) ==
  CASE e.type = "approval_request" -> IF card = "none" THEN "pending" ELSE card
    [] e.type = "approval_result" -> IF card = "none" THEN "none" ELSE e.action

\* Of several tabs on one queue, one gets the event.
Deliver(b) ==
  /\ stream[b] # 0 /\ queues[stream[b]] # <<>>
  /\ LET e == Head(queues[stream[b]]) IN
     cards' = [cards EXCEPT ![b][e.request] = Shown(@, e)]
  /\ queues' = [queues EXCEPT ![stream[b]] = Tail(@)]
  /\ UNCHANGED <<storeVars, connection, stream, dying, post, traceVars>>

\* A click on a pending card whose buttons are not disabled.
SubmitDecision(b, r, action) ==
  /\ cards[b][r] = "pending" /\ post[b][r] = Idle
  /\ post' = [post EXCEPT ![b][r] = [stage |-> "sent", action |-> action]]
  /\ UNCHANGED <<storeVars, sseVars, cards, traceVars>>

\* Mutant: the student is told, the instructor is not.
HandleApprovalTellingStudent(b, r) ==
  /\ post[b][r].stage = "sent"
  /\ IF approvals[r] = "pending"
     THEN LET a == post[b][r].action
              e == [type |-> "approval_result", request |-> r, action |-> a]
          IN  /\ approvals' = [approvals EXCEPT ![r] = a]
              /\ queues' = Pushed(queues, StudentOf[r], e)
              /\ post' = [post EXCEPT ![b][r].stage = "accepted"]
     ELSE /\ post' = [post EXCEPT ![b][r] = Refused]
          /\ UNCHANGED <<approvals, queues>>
  /\ UNCHANGED <<restarts, connection, stream, dying, cards, traceVars>>

\* Mutant: a request that was decided can be decided again.
HandleApprovalAgain(b, r) ==
  /\ post[b][r].stage = "sent"
  /\ LET a == post[b][r].action
         e == [type |-> "approval_result", request |-> r, action |-> a]
     IN  /\ approvals' = [approvals EXCEPT ![r] = a]
         /\ queues' = Pushed(Pushed(queues, StudentOf[r], e), InstructorOf[r], e)
         /\ post' = [post EXCEPT ![b][r].stage = "accepted"]
  /\ UNCHANGED <<restarts, connection, stream, dying, cards, traceVars>>

\* POST /approval/{id}: 404 if the request is unknown, 409 if it is decided.
HandleApproval(b, r) ==
  /\ post[b][r].stage = "sent"
  /\ IF approvals[r] = "pending"
     THEN LET a == post[b][r].action
              e == [type |-> "approval_result", request |-> r, action |-> a]
          IN  /\ approvals' = [approvals EXCEPT ![r] = a]
              /\ queues' = Pushed(Pushed(queues, StudentOf[r], e), InstructorOf[r], e)
              /\ post' = [post EXCEPT ![b][r].stage = "accepted"]
     ELSE /\ post' = [post EXCEPT ![b][r] = Refused]
          /\ UNCHANGED <<approvals, queues>>
  /\ UNCHANGED <<restarts, connection, stream, dying, cards, traceVars>>

\* The POST is lost or the rate limiter refuses it, or its response is lost.
LosePost(b, r) ==
  /\ post[b][r].stage \in {"sent", "accepted"}
  /\ post' = [post EXCEPT ![b][r] = Refused]
  /\ UNCHANGED <<storeVars, sseVars, cards, traceVars>>

\* submitDecision ends: the card is resolved only if the response was OK.
FinishDecision(b, r) ==
  /\ post[b][r].stage \in {"accepted", "refused"}
  /\ cards' = IF post[b][r].stage = "accepted" /\ cards[b][r] # "none"
              THEN [cards EXCEPT ![b][r] = post[b][r].action] ELSE cards
  /\ post' = [post EXCEPT ![b][r] = Idle]
  /\ UNCHANGED <<storeVars, sseVars, traceVars>>

-----------------------------------------------------------------------------
Next ==
  \/ \E r \in Requests : CreateRequest(r)
  \/ \E b \in Tabs :
       \/ OpenStream(b) \/ BreakStream(b) \/ CancelStream(b) \/ LoseEvent(b) \/ Deliver(b)
       \/ \E r \in Requests :
            \/ \E action \in Actions : SubmitDecision(b, r, action)
            \/ HandleApproval(b, r) \/ LosePost(b, r) \/ FinishDecision(b, r)
  \/ Restart

\* An open stream delivers what is in its queue, and a click's POST ends one
\* way or another; users, networks and restarts do what they like.
Fairness ==
  \A b \in Tabs : /\ WF_vars(Deliver(b))
                  /\ \A r \in Requests : WF_vars(FinishDecision(b, r))

Spec == Init /\ [][Next]_vars
FairSpec == Spec /\ Fairness

-----------------------------------------------------------------------------
(* Properties. *)

\* What reviewers are told is true: of several tabs deciding one request at a
\* time one is answered OK, and a card never shows another decision than the
\* gateway's (as long as the gateway remembers it).
ReviewersSeeTheTruth ==
  \A b \in Tabs, r \in Requests :
    /\ cards[b][r] \in Actions => approvals[r] \in {cards[b][r], "gone"}
    /\ post[b][r].stage = "accepted" => approvals[r] \in {post[b][r].action, "gone"}

\* The queue with number q holds the notice of request r.
Announced(q, r) ==
  q # 0 /\ \E i \in DOMAIN queues[q] :
             queues[q][i] = [type |-> "approval_request", request |-> r]

\* Tabs that share one queue, and a queue that outlived its stream, cost an
\* instructor no request: one that was pushed while no broken stream of the
\* instructor was left, and none broke since, is a card on some tab, or on its
\* way to one, or will be handed to the next tab that connects.
SharedQueueLosesNoRequest ==
  \A r \in owed : LET u == InstructorOf[r] IN
    \/ \E b \in TabsOf(u) : cards[b][r] # "none" \/ Announced(stream[b], r)
    \/ Announced(connection[u], r)

\* What becomes of a card of request r when the events of q arrive.
ShownAfter(card, q, r) ==
  LET shown[i \in 0..Len(q)] ==
        IF i = 0 THEN card
        ELSE IF q[i].request = r THEN Shown(shown[i - 1], q[i]) ELSE shown[i - 1]
  IN shown[Len(q)]

\* What tab b will show of r once it got the events of its queue.
WillShow(b, r) == ShownAfter(cards[b][r], queues[stream[b]], r)

\* A tab whose stream was never shared with, or cut off by, another stream of
\* the user misses nothing: its cards and the events on their way to it agree
\* with the gateway's table, for every request created since it connected.
SteadyTabMirrorsStore ==
  \A b \in steady : \A r \in watched[b] : WillShow(b, r) = approvals[r]

\* So such a tab shows every decision in the end, whoever made it.
SteadyTabCatchesUp ==
  \A b \in Tabs, r \in Requests :
    (r \in watched[b] /\ approvals[r] \in Actions)
      ~> (cards[b][r] = approvals[r] \/ r \notin watched[b])
=============================================================================
