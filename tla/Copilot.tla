------------------------------- MODULE Copilot -------------------------------
(* The copilot (agent/graph.py, tools.py, provider.py, service.py): one     *)
(* pass of route, tool and synthesize over the services the other modules   *)
(* describe.  A request is the set of keyword tables that its text touches; *)
(* of what a tool or the provider says, the numbers are kept.               *)
EXTENDS Naturals, Sequences, FiniteSets, FiniteSetsExt

CONSTANT Nothing    \* no answer, no action, no error

ActionIntents ==
    {"production_promotion", "work_order", "train", "register", "deploy_demo"}

(* The keyword tables in the order in which they are tried.                 *)
Priority ==
    <<"production_promotion", "work_order", "fix_before_deploy", "deployment_status",
      "train", "register", "deploy_demo",
      "explain_prediction", "task", "best_model", "why_not_accuracy", "experiment_results",
      "quality">>

Keywords == {Priority[i] : i \in DOMAIN Priority}

RouteIntent(request) ==
    LET touched == {i \in DOMAIN Priority : Priority[i] \in request}
    IN  IF touched = {} THEN "unknown" ELSE Priority[Min(touched)]

ToolIntents == Keywords \ ActionIntents

ToolOf(intent) ==
    CASE intent \in {"quality", "fix_before_deploy"} -> "dataset_quality"
      [] intent = "task" -> "dataset_task"
      [] intent = "best_model" -> "experiment_comparison"
      [] intent \in {"why_not_accuracy", "experiment_results"} -> "experiment_results"
      [] intent = "explain_prediction" -> "prediction_explain"
      [] intent = "deployment_status" -> "model_deployment_status"

Required(tool) ==
    CASE tool \in {"dataset_quality", "dataset_task"} -> {"dataset_id"}
      [] tool \in {"experiment_comparison", "experiment_results"} -> {"experiment_id"}
      [] tool = "model_deployment_status" -> {"model_id"}
      [] tool = "prediction_explain" -> {"model_id", "record"}

-----------------------------------------------------------------------------
(* A text is a set of mentions [number, read]: a number as a reader takes   *)
(* it, and the set of those that _NUMBER_RE finds where it is written.      *)
(* Written apart, "95%", it is found as it is.  The pattern finds nothing   *)
(* in one that a letter, a digit or an underscore precedes, "Recall95%",    *)
(* and other numbers in one written with an exponent or commas: 1 in "1e5". *)
WriteApart(number) == [number |-> number, read |-> {number}]

WriteGlued(number) == [number |-> number, read |-> {}]

WriteBroken(number, parts) == [number |-> number, read |-> parts]

NumbersIn(text) == {m.number : m \in text}

(* _NUMBER_RE.findall                                                       *)
FindAll(text) == UNION {m.read : m \in text}

WrittenApart(text) == \A m \in text : m.read = {m.number}

(* What a service answers a tool: data with one of these texts, an error it *)
(* knows (not found, not deployed, records that do not fit), or any other.  *)
Answers(texts) == [kind : {"data"}, says : texts]
                  \cup [kind : {"refused", "raises"}, says : {{}}]

(* The methods of CopilotTools read; prediction_explain asks for a preview. *)
CallTool(tool, answer) ==
    [ok |-> answer.kind = "data", tool |-> tool, says |-> answer.says,
     error |-> CASE answer.kind = "data" -> Nothing
                 [] answer.kind = "refused" -> "known"
                 [] answer.kind = "raises" -> "unavailable"]

MissingInput(tool) ==
    [ok |-> FALSE, tool |-> tool, says |-> {}, error |-> "missing"]

(* run_tool                                                                 *)
RunTool(intent, inputs, answer) ==
    IF Required(ToolOf(intent)) \subseteq inputs THEN CallTool(ToolOf(intent), answer)
    ELSE MissingInput(ToolOf(intent))

-----------------------------------------------------------------------------
(* A completion: text, which may be empty, or ProviderError: the request    *)
(* fails, times out, or its response has not the expected shape.  The mock, *)
(* which stands in when no provider is configured, says no number.          *)
Completions(texts) == [failed : {FALSE}, empty : {FALSE}, says : texts]
                      \cup [failed : BOOLEAN, empty : {TRUE}, says : {{}}]

Narrative(configured, completion) ==
    IF ~configured THEN [failed |-> FALSE, empty |-> FALSE, says |-> {}] ELSE completion

(* _narrative_is_quantitatively_grounded                                    *)
Grounded(narrative, evidence) == FindAll(narrative) \subseteq FindAll(evidence)

(* _action_answer: a proposal, never executed.                              *)
ActionAnswer(intent) ==
    [says |-> {}, evidence |-> {}, grounds |-> "none",
     proposed |-> [action |-> intent,
                   type |-> IF intent = "production_promotion" THEN "rejected" ELSE "proposal",
                   approval |-> intent \in {"production_promotion", "work_order"}]]

InsufficientEvidence ==
    [says |-> {}, evidence |-> {}, grounds |-> "none", proposed |-> Nothing]

(* Mistake: whatever the provider says is told.                             *)
ToldAnyway(result, narrative) ==
    [says |-> result.says \cup narrative.says, evidence |-> {result.tool},
     grounds |-> "narrative", proposed |-> Nothing]

(* The evidence, after the narrative if every number found in that is found *)
(* in it.                                                                   *)
Told(result, narrative) ==
    LET kept == ~narrative.failed /\ ~narrative.empty /\ Grounded(narrative.says, result.says)
    IN  [says |-> result.says \cup (IF kept THEN narrative.says ELSE {}),
         evidence |-> {result.tool},
         grounds |-> IF kept THEN "narrative" ELSE "evidence",
         proposed |-> Nothing]

Synthesize(intent, results, narrative) ==
    IF intent \in ActionIntents THEN ActionAnswer(intent)
    ELSE IF \A i \in DOMAIN results : ~results[i].ok THEN InsufficientEvidence
    ELSE Told(results[1], narrative)

(* chat: the graph once, from the request to the answer.                    *)
Chat(request, inputs, answer, configured, completion) ==
    LET intent == RouteIntent(request)
        results == IF intent \in ToolIntents THEN <<RunTool(intent, inputs, answer)>> ELSE <<>>
    IN  [intent |-> intent, results |-> results,
         final |-> Synthesize(intent, results, Narrative(configured, completion))]

-----------------------------------------------------------------------------
(* What the tools returned to a chat.                                       *)
Returned(chat) == UNION {chat.results[i].says : i \in DOMAIN chat.results}

(* README.md:298, "The synthesized narrative is rejected if it introduces   *)
(* any number not present in the tool evidence.": not so if the pattern     *)
(* does not find it as it is.                                               *)
InventsNothing(request, inputs, answer, configured, completion) ==
    LET chat == Chat(request, inputs, answer, configured, completion)
    IN  NumbersIn(chat.final.says) \subseteq NumbersIn(Returned(chat))

(* agent/graph.py: "Never invent statistics", "Never take concrete          *)
(* actions".  Whatever the provider and the services say: when they write   *)
(* their numbers apart, every number of an answer is one a tool returned;   *)
(* the evidence is of the tool of the intent, which succeeded with all its  *)
(* inputs, and all that it returned is told, whether or not the narrative   *)
(* is; a request that touches promotion or work orders, whatever else it    *)
(* asks, runs no tool and needs an approval; and an action is proposed to   *)
(* those only who touch one.                                                *)
IsGrounded(request, inputs, answer, configured, completion) ==
    LET chat == Chat(request, inputs, answer, configured, completion)
    IN  /\ WrittenApart(answer.says \cup completion.says) =>
              InventsNothing(request, inputs, answer, configured, completion)
        /\ chat.final.evidence # {} =>
              /\ answer.kind = "data"
              /\ chat.intent \notin ActionIntents
              /\ chat.final.evidence = {ToolOf(chat.intent)}
              /\ Required(ToolOf(chat.intent)) \subseteq inputs
              /\ answer.says \subseteq chat.final.says
              /\ chat.final.proposed = Nothing
        /\ request \cap {"production_promotion", "work_order"} # {} =>
              chat.results = <<>> /\ chat.final.proposed.approval
        /\ request \cap ActionIntents = {} => chat.final.proposed = Nothing
=============================================================================
