------------------------------ MODULE LinkGuard ------------------------------
(***************************************************************************)
(* The links that one member posts in a group: each is counted and deleted,  *)
(* the second within ten minutes mutes the member. The counter is a Redis    *)
(* key that is incremented and then, the first time, given its time to live; *)
(* when Redis fails a message is counted in a dictionary of the process.     *)
(* Messages are handled as tasks of their own.                               *)
(***************************************************************************)
EXTENDS HandlerTasks

CONSTANTS
    LinkWindow,   \* MOD_LINK_WINDOW
    LastSecond    \* bound of the clock

ASSUME LinksAssumption == LinkWindow \in Nat \ {0} /\ LastSecond \in Nat

VARIABLES
    second,     \* the clock
    counter,    \* the Redis key, which counts no further than 2; 0 for no key
    countUntil, \* when it expires; 0 for never
    memory,     \* the entry of _link_violations, likewise
    since,      \* its first_ts
    lastLink,   \* history: when a link was last counted; 0 for never
    immortal    \* history: a key was left without its time to live

linkVars == <<second, counter, countUntil, memory, since, lastLink, immortal, pc, rowLock>>

LinkTypeOK ==
    /\ second \in Nat \ {0} /\ counter \in 0 .. 2 /\ countUntil \in Nat
    /\ memory \in 0 .. 2 /\ since \in Nat /\ lastLink \in Nat /\ immortal \in BOOLEAN
    /\ pc \in [Handlers -> {"idle", "incr", "expire", "memory", "mute"}] /\ rowLock = NoOne

LinkInit ==
    /\ TasksIdle
    /\ second = 1 /\ counter = 0 /\ countUntil = 0 /\ memory = 0 /\ since = 0
    /\ lastLink = 0 /\ immortal = FALSE

-----------------------------------------------------------------------------
\* A link by somebody who is no administrator, where links are blocked.
PostLink(h) ==
    /\ pc[h] = "idle" /\ pc' = [pc EXCEPT ![h] = "incr"]
    /\ UNCHANGED <<second, counter, countUntil, memory, since, lastLink, immortal, rowLock>>

\* The second violation mutes.
Counted(h, n) ==
    /\ pc' = [pc EXCEPT ![h] = IF n >= 2 THEN "mute" ELSE "idle"] /\ lastLink' = second

OneMore(n) == IF n < 2 THEN n + 1 ELSE 2

\* INCR; the first one goes on to EXPIRE.
Increment(h) ==
    /\ pc[h] = "incr" /\ counter' = OneMore(counter)
    /\ IF counter = 0 THEN pc' = [pc EXCEPT ![h] = "expire"] /\ UNCHANGED lastLink
                      ELSE Counted(h, counter')
    /\ UNCHANGED <<second, countUntil, memory, since, immortal, rowLock>>

Expire(h) ==
    /\ pc[h] = "expire" /\ Counted(h, 1)
    /\ countUntil' = IF counter = 0 THEN 0 ELSE second + LinkWindow
    /\ UNCHANGED <<second, counter, memory, since, immortal, rowLock>>

\* Redis fails, before the command or, with its answer lost, after it.
RedisFailsLink(h) ==
    /\ pc[h] \in {"incr", "expire"}
    /\ pc' = [pc EXCEPT ![h] = "memory"]
    /\ \/ pc[h] = "incr" /\ UNCHANGED <<counter, countUntil, immortal>>
       \/ /\ pc[h] = "incr" /\ counter' = OneMore(counter)
          /\ immortal' = (immortal \/ counter = 0) /\ UNCHANGED countUntil
       \/ pc[h] = "expire" /\ immortal' = TRUE /\ UNCHANGED <<counter, countUntil>>
    /\ UNCHANGED <<second, memory, since, lastLink, rowLock>>

\* The dictionary, without an await in between.
CountInMemoryForGood(h) ==
    /\ pc[h] = "memory"
    /\ memory' = OneMore(memory) /\ since' = IF memory = 0 THEN second ELSE since
    /\ Counted(h, memory') /\ UNCHANGED <<second, counter, countUntil, immortal, rowLock>>
CountInMemory(h) ==
    /\ pc[h] = "memory"
    /\ LET over == memory = 0 \/ second - since > LinkWindow IN
          /\ memory' = IF over THEN 1 ELSE OneMore(memory)
          /\ since' = IF over THEN second ELSE since
    /\ Counted(h, memory') /\ UNCHANGED <<second, counter, countUntil, immortal, rowLock>>

\* mute_user, whether Telegram allows it or not.
Mute(h) ==
    /\ pc[h] = "mute" /\ pc' = [pc EXCEPT ![h] = "idle"]
    /\ UNCHANGED <<second, counter, countUntil, memory, since, lastLink, immortal, rowLock>>

\* The bot is restarted: Redis keeps its key, the dictionary is empty.
RestartBot ==
    /\ \E h \in Handlers : Active(h)
    /\ pc' = [h \in Handlers |-> "idle"] /\ memory' = 0 /\ since' = 0
    /\ immortal' = (immortal \/ \E h \in Handlers : pc[h] = "expire")
    /\ UNCHANGED <<second, counter, countUntil, lastLink, rowLock>>

\* A second passes, and with it the key when its time is up.
SecondPasses ==
    /\ second < LastSecond /\ second' = second + 1
    /\ LET gone == countUntil # 0 /\ countUntil <= second' IN
          /\ counter' = IF gone THEN 0 ELSE counter
          /\ countUntil' = IF gone THEN 0 ELSE countUntil
    /\ UNCHANGED <<memory, since, lastLink, immortal, pc, rowLock>>

-----------------------------------------------------------------------------
LinkNext ==
    \/ SecondPasses \/ RestartBot
    \/ \E h \in Handlers : \/ PostLink(h) \/ Increment(h) \/ Expire(h) \/ RedisFailsLink(h)
                           \/ CountInMemory(h) \/ Mute(h)

LinkSpec == LinkInit /\ [][LinkNext]_linkVars

-----------------------------------------------------------------------------
(* Properties                                                              *)

\* "Increment the link-violation counter within a 10-minute window": nobody is
\* muted for a link unless another was counted within the window before, or is
\* being counted; with messages at once, failures of Redis in any command that
\* leave the count in two places, and restarts. The exception is a key that has
\* lost its time to live, which counts for ever.
LinkMuteEarned ==
    [][\A h \in Handlers :
          pc[h] # "mute" /\ pc'[h] = "mute" =>
              \/ immortal \/ \E g \in Handlers \ {h} : pc[g] = "expire"
              \/ lastLink # 0 /\ second - lastLink <= LinkWindow]_linkVars
=============================================================================
