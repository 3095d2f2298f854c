-------------------------------- MODULE MCCrm --------------------------------
(***************************************************************************)
(* One instance for the components around a single customer, most of them    *)
(* with handlers that are tasks of HandlerTasks. A row or key that several   *)
(* of them touch is written by the others through actions of each module's   *)
(* own, so each behaviour is one component's, and the others rest in an      *)
(* initial state of theirs.                                                  *)
(***************************************************************************)
EXTENDS LeadPipeline, ExecutionQueue, Conversations, LeadAlerts, Escalations,
        AssistantThread, ChatReminders, LinkGuard, MessageRouting, SalesDialogue,
        AgentPipeline, AgentSettings, LeadReadiness, PriceQuotes, TLC

VARIABLE part   \* the component that works

Parts == {"pipeline", "queue", "conversation", "alerts", "escalation", "thread",
          "reminders", "links", "routing", "dialogue", "agent", "settings",
          "readiness", "prices"}

\* One of the initial states, for a component that rests.
PipelineRests == rows = {} /\ ~form
QueueRests == safe
RoutingRests == text = {} /\ handler = "private" /\ named
AgentRests == agentRow.temp = "cold" /\ agentRow.count = 0
SettingsRest == ~allowLive /\ ~runtimeEnabled
ReadinessRests == ~closedNow

Init ==
    /\ part \in Parts
    /\ PipelineInit /\ (part # "pipeline" => PipelineRests)
    /\ QueueInit /\ (part # "queue" => QueueRests)
    /\ RoutingInit /\ (part # "routing" => RoutingRests) /\ DialogueInit
    /\ ConversationInit /\ AlertInit /\ EscalationInit /\ ThreadInit /\ ReminderInit /\ LinkInit
    /\ AgentInit /\ (part # "agent" => AgentRests)
    /\ SettingInit /\ (part # "settings" => SettingsRest)
    /\ QuoteInit /\ ReadinessInit /\ (part # "readiness" => ReadinessRests)

pipelineOwn == <<rows, status, form, kind, at, to, mark, alone, clock>>
queueOwn == <<verdict, late, safe, job, goal, queueHistory>>
conversationOwn == <<chatVars, step, todo, copy, next, solo, crossed, crossings>>
alertOwn == <<tick, keyUntil, scan, rest, took, told>>
escalationOwn == <<minute, stamp, optedOut, task, stampAt, broken, card, excused>>
threadOwn == <<threadRows, resets, asked, history, gist, turn, revived>>
reminderOwn == <<redisKeys, issued, mine, seen, reminder, view>>
linkOwn == <<second, counter, countUntil, memory, since, lastLink, immortal>>
agentOwn == <<agentRow, texts, hits, said, dataRead, payload, declined>>
settingOwn == <<settingRows, allowLive, runtimeEnabled, request, loaded, requests, disturbed>>

\* The components whose handlers are tasks, and the four without.
taskOwn == <<pipelineOwn, queueOwn, conversationOwn, alertOwn, escalationOwn,
             threadOwn, reminderOwn, linkOwn, agentOwn, settingOwn>>
restVars == <<routingVars, dialogueVars, readinessVars, quoteVars>>

Next ==
    /\ UNCHANGED part
    /\ \/ /\ part = "pipeline" /\ PipelineNext
          /\ UNCHANGED <<queueOwn, conversationOwn, alertOwn, escalationOwn, threadOwn, reminderOwn,
                         linkOwn, agentOwn, settingOwn, restVars>>
       \/ /\ part = "queue" /\ QueueNext
          /\ UNCHANGED <<pipelineOwn, conversationOwn, alertOwn, escalationOwn, threadOwn, reminderOwn,
                         linkOwn, agentOwn, settingOwn, restVars>>
       \/ /\ part = "conversation" /\ ConversationNext
          /\ UNCHANGED <<pipelineOwn, queueOwn, alertOwn, escalationOwn, threadOwn, reminderOwn,
                         linkOwn, agentOwn, settingOwn, restVars>>
       \/ /\ part = "alerts" /\ AlertNext
          /\ UNCHANGED <<pipelineOwn, queueOwn, conversationOwn, escalationOwn, threadOwn, reminderOwn,
                         linkOwn, agentOwn, settingOwn, restVars>>
       \/ /\ part = "escalation" /\ EscalationNext
          /\ UNCHANGED <<pipelineOwn, queueOwn, conversationOwn, alertOwn, threadOwn, reminderOwn,
                         linkOwn, agentOwn, settingOwn, restVars>>
       \/ /\ part = "thread" /\ ThreadNext
          /\ UNCHANGED <<pipelineOwn, queueOwn, conversationOwn, alertOwn, escalationOwn, reminderOwn,
                         linkOwn, agentOwn, settingOwn, restVars>>
       \/ /\ part = "reminders" /\ ReminderNext
          /\ UNCHANGED <<pipelineOwn, queueOwn, conversationOwn, alertOwn, escalationOwn, threadOwn,
                         linkOwn, agentOwn, settingOwn, restVars>>
       \/ /\ part = "links" /\ LinkNext
          /\ UNCHANGED <<pipelineOwn, queueOwn, conversationOwn, alertOwn, escalationOwn, threadOwn,
                         reminderOwn, agentOwn, settingOwn, restVars>>
       \/ /\ part = "agent" /\ AgentNext
          /\ UNCHANGED <<pipelineOwn, queueOwn, conversationOwn, alertOwn, escalationOwn, threadOwn,
                         reminderOwn, linkOwn, settingOwn, restVars>>
       \/ /\ part = "settings" /\ SettingNext
          /\ UNCHANGED <<pipelineOwn, queueOwn, conversationOwn, alertOwn, escalationOwn, threadOwn,
                         reminderOwn, linkOwn, agentOwn, restVars>>
       \/ /\ part = "routing" /\ RoutingNext
          /\ UNCHANGED <<pc, rowLock, taskOwn, dialogueVars, readinessVars, quoteVars>>
       \/ /\ part = "dialogue" /\ DialogueNext
          /\ UNCHANGED <<pc, rowLock, taskOwn, routingVars, readinessVars, quoteVars>>
       \/ /\ part = "readiness" /\ ReadinessNext
          /\ UNCHANGED <<pc, rowLock, taskOwn, routingVars, dialogueVars, quoteVars>>
       \/ /\ part = "prices" /\ QuoteNext
          /\ UNCHANGED <<pc, rowLock, taskOwn, routingVars, dialogueVars, readinessVars>>

Spec == Init /\ [][Next]_<<part, pc, rowLock, taskOwn, restVars>>

\* The variables of the component at work keep their types: no thread outgrows
\* its list, no record is locked by a task that is not going to commit, and every
\* field of a form is one of its fields.
CrmTypeOK ==
    /\ part = "pipeline" => PipelineTypeOK
    /\ part = "queue" => QueueTypeOK
    /\ part = "conversation" => ConversationTypeOK
    /\ part = "alerts" => AlertTypeOK
    /\ part = "escalation" => EscalationTypeOK
    /\ part = "thread" => ThreadTypeOK
    /\ part = "reminders" => ReminderTypeOK
    /\ part = "links" => LinkTypeOK
    /\ part = "routing" => RoutingTypeOK
    /\ part = "dialogue" => DialogueTypeOK
    /\ part = "agent" => AgentTypeOK
    /\ part = "settings" => SettingTypeOK
    /\ part = "readiness" => ReadinessTypeOK
    /\ part = "prices" => QuoteTypeOK

\* An environment that is live: what a preset turns off is on there.
LiveEnv == [k \in Keys |-> CASE k = "followups" -> "off"
                             [] k = "mode"      -> "approval_required"
                             [] OTHER           -> "on"]

Perms == Permutations(Handlers)
=============================================================================
