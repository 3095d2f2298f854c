---------------------------- MODULE MessageRouting ----------------------------
(***************************************************************************)
(* Which branch of the assistant's two text handlers takes a message, and    *)
(* the label under which the shadow log files it. A text is modelled by the  *)
(* detectors it sets off; a handler is the list of its branches, and the     *)
(* first that takes the text answers it. The label has a list of its own.    *)
(***************************************************************************)
EXTENDS Naturals, Sequences

Detectors == {"stop", "unsafe", "greeting", "measurement", "priceWord", "area",
              "warranty", "catalog", "operator", "confirmation", "objection"}

VARIABLES
    text,       \* the detectors that the message sets off
    handler,    \* "question" in the assistant's state, "private" without a state
    named,      \* the customer's name is in the assistant's memory
    branch,     \* the branch that has answered, or "none"
    label       \* live_route in the log

routingVars == <<text, handler, named, branch, label>>

\* A price word or an area, in the text or in its Latin spelling.
PriceIntent(t) == t \intersect {"priceWord", "area"} # {}

\* Whether a branch takes the text.
Takes(b, t, known) ==
    CASE b = "stop"         -> "stop" \in t
      [] b = "safety"       -> "unsafe" \in t
      [] b = "greeting"     -> "greeting" \in t /\ known
      [] b = "measurement"  -> "measurement" \in t
      [] b = "warranty"     -> "warranty" \in t /\ ~PriceIntent(t)
      [] b = "catalog"      -> "catalog" \in t /\ ~PriceIntent(t) /\ "operator" \notin t
      [] b = "confirmation" -> "confirmation" \in t
      [] b = "any_warranty" -> "warranty" \in t
      [] b = "objection"    -> "objection" \in t
      [] b = "price"        -> PriceIntent(t)
      [] b = "operator"     -> "operator" \in t
      [] b = "ai_fallback"  -> TRUE

\* handle_ai_question, handle_ai_message and _classify_live_route.
QuestionCatalogFirst ==
    <<"stop", "safety", "greeting", "measurement", "catalog", "warranty", "confirmation",
      "objection", "price", "operator", "ai_fallback">>
Question ==
    <<"stop", "safety", "greeting", "measurement", "warranty", "catalog", "confirmation",
      "objection", "price", "operator", "ai_fallback">>
Private ==
    <<"stop", "safety", "greeting", "measurement", "warranty", "catalog", "confirmation",
      "any_warranty", "objection", "price", "operator", "ai_fallback">>
LiveRoute ==
    <<"stop", "safety", "measurement", "warranty", "catalog",
      "objection", "price", "operator", "ai_fallback">>

\* The first branch of the list that takes the text.
FirstTaking(list, t, known) ==
    list[CHOOSE i \in DOMAIN list : /\ Takes(list[i], t, known)
                                    /\ \A j \in 1 .. i - 1 : ~Takes(list[j], t, known)]

RoutingTypeOK ==
    /\ text \subseteq Detectors /\ handler \in {"question", "private"} /\ named \in BOOLEAN
    /\ \E list \in {Question, Private} : branch \in {"none"} \union {list[i] : i \in DOMAIN list}
    /\ label \in {"none"} \union {LiveRoute[i] : i \in DOMAIN LiveRoute}

RoutingInit ==
    /\ text \in SUBSET Detectors /\ handler \in {"question", "private"} /\ named \in BOOLEAN
    /\ branch = "none" /\ label = "none"

-----------------------------------------------------------------------------
\* The message is labelled, and then answered by one branch.
Route ==
    /\ branch = "none"
    /\ label' = FirstTaking(LiveRoute, text, named)
    /\ branch' = FirstTaking(IF handler = "question" THEN Question ELSE Private, text, named)
    /\ UNCHANGED <<text, handler, named>>

RoutingNext == Route

RoutingSpec == RoutingInit /\ [][RoutingNext]_routingVars

-----------------------------------------------------------------------------
(* Properties                                                              *)

\* "Label of which live branch will handle text, mirroring the handler's branch
\* order": for every combination of detectors the log names the branch that
\* answers; except greetings of a customer known by name, bare confirmations,
\* and a question about warranty and price outside the assistant's state, of
\* which the label knows nothing.
LabelTellsBranch ==
    branch # "none" =>
        \/ label = branch
        \/ branch \in {"greeting", "confirmation"}
        \/ branch = "any_warranty" /\ handler = "private" /\ PriceIntent(text)
=============================================================================
