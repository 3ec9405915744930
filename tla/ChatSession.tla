----------------------------- MODULE ChatSession -----------------------------
(***************************************************************************)
(* A student's chat tab (useChat, ChatInput, StudentChat), the gateway's   *)
(* rate limiter and its chat route.                                        *)
(***************************************************************************)
EXTENDS Naturals, Sequences, Filter

CONSTANTS Tokens,
          Rpm, Window,   \* requests_per_minute and window of the limiter
          MaxMessages,   \* bound on the messages sent
          MaxTime        \* bound on the clock

VARIABLES token,      \* who is signed in at the tab, "" if nobody
          list,       \* messages shown in the tab
          loading,    \* isLoading
          abortRef,   \* the message whose controller abortRef holds, 0 if none
          post,       \* post[m]: the POST /chat of message m
          requests,   \* _requests of the limiter, per token
          expired,    \* tokens past their expiry
          now,
          accepted,   \* history: when the limiter let a token's requests pass
          orphaned    \* history: messages that were on their way at a clearing

tabVars == <<token, list, loading, abortRef, orphaned>>
gatewayVars == <<requests, expired, now, accepted>>
vars == <<tabVars, post, gatewayVars>>

\* running: in the agent core; the other answers are the POST's outcome.
Answers == {"answered", "limited", "unauthorized", "failed"}
Stages == {"sent", "running", "aborted", "settled"} \cup Answers

TypeOK ==
  /\ token \in Tokens \cup {""}
  /\ post \in Seq([token : Tokens, stage : Stages]) /\ Len(post) <= MaxMessages
  /\ list \in Seq([by : {"user", "agent", "error"}, of : DOMAIN post])
  /\ loading \in BOOLEAN
  /\ abortRef \in {0} \cup DOMAIN post
  /\ {requests, accepted} \subseteq [Tokens -> Seq(0..MaxTime)]
  /\ expired \subseteq Tokens
  /\ now \in 0..MaxTime
  /\ orphaned \subseteq DOMAIN post

Init ==
  /\ token = "" /\ list = <<>> /\ loading = FALSE /\ abortRef = 0 /\ orphaned = {}
  /\ post = <<>>
  /\ requests = [k \in Tokens |-> <<>>] /\ accepted = [k \in Tokens |-> <<>>]
  /\ expired = {} /\ now = 0

Shown(by, m) == [by |-> by, of |-> m]

InFlight == {m \in DOMAIN post : post[m].stage # "settled"}

-----------------------------------------------------------------------------
(* The tab. *)

SignIn(k) ==
  /\ token = ""
  /\ token' = k
  /\ UNCHANGED <<list, loading, abortRef, orphaned, post, gatewayVars>>

\* clearMessages; a POST on its way stays on its way.
Clear ==
  /\ list # <<>>
  /\ list' = <<>>
  /\ orphaned' = orphaned \cup InFlight
  /\ UNCHANGED <<token, loading, abortRef, post, gatewayVars>>

SignOut ==
  /\ token # ""
  /\ token' = ""
  /\ list' = <<>>
  /\ orphaned' = orphaned \cup InFlight
  /\ UNCHANGED <<loading, abortRef, post, gatewayVars>>

\* sendMessage up to its first await: what abortRef holds is aborted.
SendMessage ==
  /\ token # "" /\ Len(post) < MaxMessages
  /\ LET m == Len(post) + 1 IN
     /\ list' = Append(list, Shown("user", m))
     /\ post' = Append([i \in DOMAIN post |->
                          IF i = abortRef /\ post[i].stage # "settled"
                          THEN [post[i] EXCEPT !.stage = "aborted"] ELSE post[i]],
                       [token |-> token, stage |-> "sent"])
     /\ abortRef' = m
  /\ loading' = TRUE
  /\ UNCHANGED <<token, orphaned, gatewayVars>>

\* Mutant: the input stays enabled.
HandleSubmitWhileLoading == SendMessage

\* handleSubmit of ChatInput, which is disabled while a message is loading.
HandleSubmit == ~loading /\ SendMessage

\* Mutant: the flag is only cleared after an answer.
SettleLoadingOnError(m) ==
  /\ post[m].stage \in Answers \cup {"aborted"}
  /\ list' = CASE post[m].stage = "aborted" -> list
               [] post[m].stage = "answered" -> Append(list, Shown("agent", m))
               [] OTHER -> Append(list, Shown("error", m))
  /\ loading' = (loading /\ post[m].stage # "answered")
  /\ abortRef' = 0
  /\ post' = [post EXCEPT ![m].stage = "settled"]
  /\ UNCHANGED <<token, orphaned, gatewayVars>>

\* The rest of sendMessage: the reply or the error is shown unless the POST
\* was aborted, and the flag and the controller are dropped, whoever's they
\* are by now.
Settle(m) ==
  /\ post[m].stage \in Answers \cup {"aborted"}
  /\ list' = CASE post[m].stage = "aborted" -> list
               [] post[m].stage = "answered" -> Append(list, Shown("agent", m))
               [] OTHER -> Append(list, Shown("error", m))
  /\ loading' = FALSE
  /\ abortRef' = 0
  /\ post' = [post EXCEPT ![m].stage = "settled"]
  /\ UNCHANGED <<token, orphaned, gatewayVars>>

-----------------------------------------------------------------------------
(* The gateway. *)

\* Mutant: a fixed window, which starts over once its oldest request is old.
RecentFixed(k) ==
  IF \E i \in DOMAIN requests[k] : requests[k][i] + Window <= now
  THEN <<>> ELSE requests[k]

\* _is_rate_limited keeps the requests after now - window.
Recent(k) == Kept(requests[k], {t \in 0..now : t + Window > now})

Limited(k) == Len(Recent(k)) >= Rpm

\* A request with token k comes through the middleware.
Admit(k) ==
  /\ requests' = [requests EXCEPT ![k] = IF Limited(k) THEN Recent(k)
                                         ELSE Append(Recent(k), now)]
  /\ accepted' = [accepted EXCEPT ![k] = IF Limited(k) THEN @ ELSE Append(@, now)]
  /\ UNCHANGED <<expired, now>>

\* The middleware, then the token, then the chat handler.
Arrive(m) ==
  /\ post[m].stage = "sent"
  /\ LET k == post[m].token IN
     /\ Admit(k)
     /\ post' = [post EXCEPT ![m].stage =
                   CASE Limited(k) -> "limited"
                     [] ~Limited(k) /\ k \in expired -> "unauthorized"
                     [] OTHER -> "running"]
  /\ UNCHANGED tabVars

\* The handler returns what the graph ends with, or raises.
Reply(m) ==
  /\ post[m].stage = "running"
  /\ \E outcome \in {"answered", "failed"} : post' = [post EXCEPT ![m].stage = outcome]
  /\ UNCHANGED <<tabVars, gatewayVars>>

LoseConnection(m) ==
  /\ post[m].stage \in {"sent", "running"}
  /\ post' = [post EXCEPT ![m].stage = "failed"]
  /\ UNCHANGED <<tabVars, gatewayVars>>

\* Another request with the same token: an approval, a stream, another tab.
OtherRequest(k) ==
  /\ Admit(k)
  /\ UNCHANGED <<tabVars, post>>

ExpireToken(k) ==
  /\ k \notin expired
  /\ expired' = expired \cup {k}
  /\ UNCHANGED <<tabVars, post, requests, now, accepted>>

Tick ==
  /\ now < MaxTime
  /\ now' = now + 1
  /\ UNCHANGED <<tabVars, post, requests, expired, accepted>>

Next ==
  \/ \E k \in Tokens : SignIn(k) \/ OtherRequest(k) \/ ExpireToken(k)
  \/ Clear \/ SignOut \/ HandleSubmit
  \/ \E m \in DOMAIN post : Settle(m) \/ Arrive(m) \/ Reply(m) \/ LoseConnection(m)
  \/ Tick

Spec == Init /\ [][Next]_vars

-----------------------------------------------------------------------------
(* Properties. *)

\* The loading flag, which is what keeps a second message from aborting the
\* first, is up exactly while the latest message waits for its answer, and
\* abortRef is that message's.
LoadingTellsTheTruth ==
  /\ loading = (InFlight # {})
  /\ loading => InFlight = {abortRef} /\ abortRef = Len(post)
  /\ ~loading => abortRef = 0

\* A reply is shown right below its question, and every question that is
\* over has one; a reply without its question answers one that was cleared
\* from the tab, perhaps by signing out, while it was on its way.
ConversationReadsInOrder ==
  \A i \in DOMAIN list :
    LET m == list[i].of IN
    IF list[i].by = "user"
    THEN m \in InFlight \/ (i < Len(list) /\ list[i + 1].of = m)
    ELSE \/ i > 1 /\ list[i - 1] = Shown("user", m)
         \/ m \in orphaned /\ \A j \in DOMAIN list : list[j].of = m => j = i

\* No stretch of time of the window's length lets more than rpm requests of
\* a token pass, and one is refused only if that many passed just before.
AcceptedIn(k, from, to) ==
  Len(Kept(accepted[k], {t \in 0..to : from < t + Window}))

SlidingWindow ==
  [][/\ \A k \in Tokens : AcceptedIn(k, now, now)' <= Rpm
     /\ \A m \in DOMAIN post :
          post[m].stage = "sent" /\ post'[m].stage = "limited" =>
            AcceptedIn(post[m].token, now, now) >= Rpm]_vars
=============================================================================
