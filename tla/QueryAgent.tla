----------------------------- MODULE QueryAgent -----------------------------
(***************************************************************************)
(* The stand-alone query subgraph: route_query, execute_query_tool,        *)
(* format_query_response and the adapter the orchestrator calls.           *)
(***************************************************************************)

CONSTANT LLMLeaks  \* what text written by an LLM may give away: sets of leaks

Sources == {"canvas", "degree_db", "catalog_db", "syllabus_rag"}

\* The routing output of the LLM: text that is not JSON, or a decision that
\* names a source; params: the handler finds what it requires in it.
Outputs == [json : {FALSE}, text : LLMLeaks]
           \cup [json : {TRUE}, source : Sources \cup {"", "unknown"}, params : BOOLEAN]

\* canvas needs a user id, degree_db a known program; the other two handlers
\* take whatever they are given.  Anything but degree_db may find nothing.
HandlerResults(source, params) ==
  IF source \in {"canvas", "degree_db"} /\ ~params THEN {"error"}
  ELSE {"rows"} \cup (IF source = "degree_db" THEN {} ELSE {"nothing"})

\* Excerpts of a syllabus come wrapped in BEGIN-DATA / END-DATA markers.
FormattedLeaks(source, result) ==
  IF source = "syllabus_rag" /\ result = "rows" THEN {"marker"} ELSE {}

Answer(leaks, toolCall) == [leaks |-> leaks, toolCall |-> toolCall]

\* Output that is not JSON is the response itself.  An unknown source is a
\* failed tool call, an empty one is none at all.
Answers(o) ==
  CASE ~o.json -> {Answer(o.text, "none")}
    [] o.json /\ o.source = "" -> {Answer({}, "none")}
    [] o.json /\ o.source = "unknown" -> {Answer({}, "failed")}
    [] OTHER -> { Answer(FormattedLeaks(o.source, r),
                         IF r = "error" THEN "failed" ELSE "ok") :
                    r \in HandlerResults(o.source, o.params) }

\* Everything run_query_agent may return.
RunQueryAgent == UNION {Answers(o) : o \in Outputs}
=============================================================================
