----------------------------- MODULE Components -----------------------------
(***************************************************************************)
(* Four components that share no state with one another or with the rest   *)
(* of the model: the response cache, graceful degradation, the chat tab    *)
(* with its route, and the symbolic steps.  A behaviour runs one of them.  *)
(* The cache is extended, so that its names are the ones of ResponseCache; *)
(* the others are instances.                                               *)
(***************************************************************************)
EXTENDS ResponseCache, Integers, Sequences, FiniteSets

CONSTANTS Subjects,  \* the components to run
          Tools, MaxRetries, MaxCalls,
          Tokens, Rpm, Window, MaxMessages, ChatTime,
          Requests   \* of the symbolic steps

ASSUME ComponentsAssumption ==
  /\ {MaxRetries, MaxCalls, Rpm, Window, MaxMessages, ChatTime} \subseteq Nat
  /\ "" \notin Tokens

VARIABLES subject,
          hasContext, calls, errors, toolsAttempted, outcome, attempts,
          token, list, loading, abortRef, post, requests, expired, clock, accepted,
          orphaned,
          request, options, gaps, computed

degradationVars == <<hasContext, calls, errors, toolsAttempted, outcome, attempts>>
chatVars == <<token, list, loading, abortRef, post, requests, expired, clock, accepted,
              orphaned>>
adviseVars == <<request, options, gaps, computed>>
componentsVars == <<subject, vars, degradationVars, chatVars, adviseVars>>

-----------------------------------------------------------------------------
Degrading == INSTANCE Degradation
Chat == INSTANCE ChatSession WITH now <- clock, MaxTime <- ChatTime
Advise == INSTANCE Advising

ASSUME RequestsAssumption == \A r \in Requests : Advise!IsRequest(r)

ComponentsInit ==
  /\ subject \in Subjects
  /\ Init /\ Degrading!Init /\ Chat!Init
  /\ IF subject = "advising" THEN Advise!Init
     ELSE request = <<>> /\ options = <<>> /\ gaps = <<>> /\ computed = FALSE

ComponentsNext ==
  /\ UNCHANGED subject
  /\ \/ /\ subject = "cache" /\ Next
        /\ UNCHANGED <<degradationVars, chatVars, adviseVars>>
     \/ /\ subject = "degradation" /\ Degrading!Next
        /\ UNCHANGED <<vars, chatVars, adviseVars>>
     \/ /\ subject = "chat" /\ Chat!Next
        /\ UNCHANGED <<vars, degradationVars, adviseVars>>
     \/ /\ subject = "advising" /\ Advise!Next
        /\ UNCHANGED <<vars, degradationVars, chatVars>>

ComponentsSpec == ComponentsInit /\ [][ComponentsNext]_componentsVars

-----------------------------------------------------------------------------
\* Every component's variables have their types.
ComponentsTypeOK ==
  /\ TypeOK /\ Degrading!TypeOK /\ Chat!TypeOK
  /\ subject = "advising" => Advise!TypeOK

\* Degradation: who is escalated to learns what was tried.
EscalationTellsWhatHappened == Degrading!EscalationTellsWhatHappened

\* The chat tab and the limiter in front of its route.
LoadingTellsTheTruth == Chat!LoadingTellsTheTruth
ConversationReadsInOrder == Chat!ConversationReadsInOrder
SlidingWindow == Chat!SlidingWindow

\* The symbolic steps: timetables and missing requirements.
OptionsAreTimetables == subject = "advising" => Advise!OptionsAreTimetables
OffersEveryTimetable == subject = "advising" => Advise!OffersEveryTimetable
GapsAreWhatIsMissing == subject = "advising" => Advise!GapsAreWhatIsMissing
=============================================================================
