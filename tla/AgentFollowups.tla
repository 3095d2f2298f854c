--------------------------- MODULE AgentFollowups ---------------------------
(***************************************************************************)
(* The agent's ten-minute follow-ups: journey events and stop requests on   *)
(* the bot's side (emit_journey_event, the stop button and stop words), the *)
(* scheduler's batch on the other (process_agent_followups), and between    *)
(* them two tables and the Redis anti-spam keys.                            *)
(*                                                                         *)
(* Every handler and every batch is one READ COMMITTED transaction. A write *)
(* locks its row until the transaction ends, a read sees what is committed  *)
(* and its own writes. Handlers lock a user's memory row and then the       *)
(* follow-ups; the batch locks follow-ups and then memory rows, and keeps   *)
(* both while it talks to Telegram.                                         *)
(***************************************************************************)
EXTENDS Naturals, FiniteSets

CONSTANTS
    Users, Followups,   \* customers, ids of scheduled_followups rows
    Handlers,           \* bot-side transactions, each used once
    Kinds,              \* what happens on the bot's side in this instance
    None,
    MaxTotal, MaxDaily, \* _MAX_TOTAL_FOLLOWUPS, _MAX_DAILY_FOLLOWUPS
    BatchLimit,         \* get_due's limit
    MaxFaults           \* bound: crashes, failed transactions, Redis down,
                        \* timeouts after delivery, RetryAfter answers,
                        \* off-hours deferrals

Types    == {"catalog", "price", "abandoned_order"}
AllKinds == {"view", "price", "click", "order", "phone", "operator", "stop"}
Statuses == {"absent", "pending", "sent", "failed", "skipped", "cancelled"}

ASSUME KindsAssumption == Kinds \subseteq AllKinds
ASSUME LimitsAssumption == MaxTotal \in Nat /\ MaxDaily \in Nat /\ BatchLimit \in Nat \ {0} /\ MaxFaults \in Nat
ASSUME NoneAssumption == None \notin Handlers \union Followups \union Users \union {"job"}
ASSUME JobAssumption == "job" \notin Handlers
ASSUME FiniteAssumption == IsFiniteSet(Followups) /\ IsFiniteSet(Handlers)

VARIABLES
    \* agent_memory: the row, followup_count, last_followup_at within the gap
    mem, count, recent,
    \* scheduled_followups; today: sent within 24 hours
    status, owner, type, made, due, today,
    \* superseding events, by the transaction that recorded them
    journey,
    \* Redis: agent:fu:last, the per-type dedup, the daily counter
    rLast, rDedup, rDaily,
    \* the batch: where it is, rows left, the current one; its own writes to
    \* follow-ups and memory; the memory object of the previous iteration
    jpc, batch, cur, own, bump, ownRecent, ownOff, seen,
    \* transactions on the bot's side, and memory rows they or the batch hold
    hpc, hUser, hKind, began, memLock,
    \* history: messages that went out, of which without a record of their own
    \* in the database (lost with their transaction, or taken for failed) and of
    \* which in the open one; who was off, or had asked to stop and got an
    \* answer, when the batch began, and who was messaged nevertheless; who was
    \* messaged within the gap, and of which types within their dedup period;
    \* types whose key in Redis was lost, or there and not heeded; a message
    \* that came too soon
    messages, lost, inTx, offBefore, late, fresh, typed, excused, quick,
    faults

memory    == <<mem, count, recent>>
rows      == <<status, owner, type, made, due, today>>
redis     == <<rLast, rDedup, rDaily>>
job       == <<jpc, batch, cur, own, bump, ownRecent, ownOff, seen>>
handler   == <<hpc, hUser, hKind, began>>
tally     == <<messages, lost, inTx>>
offences  == <<offBefore, late, fresh, typed, excused, quick>>
vars      == <<memory, rows, journey, redis, job, handler, memLock, tally, offences, faults>>

-----------------------------------------------------------------------------
\* The follow-up an event schedules, and the events that supersede one.
Schedules == [view |-> "catalog", price |-> "price", order |-> "abandoned_order"]

Superseding ==
    [catalog |-> {"price", "click", "order", "phone", "operator"},
     price |-> {"click", "order", "phone", "operator"},
     abandoned_order |-> {"phone", "operator"}]

Cancels  == {"phone", "operator", "stop"}
Disables == {"operator", "stop"}

MemoryTypes ==
    /\ mem \in [Users -> {"absent", "on", "off"}]
    /\ count \in [Users -> Nat] /\ recent \in SUBSET Users

RowTypes ==
    /\ status \in [Followups -> Statuses]
    /\ owner \in [Followups -> Users \union {None}]
    /\ type \in [Followups -> Types] /\ made \in [Followups -> Nat]
    /\ due \in SUBSET Followups /\ today \in SUBSET Followups

RedisTypes ==
    /\ rLast \in SUBSET Users /\ rDedup \in SUBSET (Users \X Types)
    /\ rDaily \in [Users -> Nat]

JobTypes ==
    /\ jpc \in {"idle", "pick", "send", "record", "bump", "post", "block"}
    /\ batch \in SUBSET Followups /\ cur \in Followups \union {None}
    /\ own \in [Followups -> {"none", "sent", "failed", "skipped"}]
    /\ bump \in [Users -> Nat]
    /\ ownRecent \in SUBSET Users /\ ownOff \in SUBSET Users
    /\ seen \in [user : Users \union {None}, on : BOOLEAN]

HandlerTypes ==
    /\ hpc \in [Handlers -> {"new", "create", "check", "insert", "cancel", "granted",
                             "commit", "done"}]
    /\ hUser \in [Handlers -> Users \union {None}]
    /\ hKind \in [Handlers -> AllKinds] /\ began \in [Handlers -> Nat]

TallyTypes ==
    messages \in [Users -> Nat] /\ lost \in [Users -> Nat] /\ inTx \in [Users -> Nat]

OffenceTypes ==
    /\ offBefore \in SUBSET (Users \X {"off", "stop"})
    /\ late \in SUBSET (Users \X {"off", "stop"})
    /\ fresh \in SUBSET Users /\ quick \in BOOLEAN
    /\ typed \in SUBSET (Users \X Types) /\ excused \in SUBSET (Users \X Types)

\* A row that exists has an owner; the batch works on and writes to existing
\* rows; a handler that has begun works for a customer, and looks for a pending
\* follow-up or inserts one only for an event that schedules one.
Owned ==
    /\ \A f \in Followups : status[f] # "absent" => owner[f] \in Users
    /\ \A f \in due \union batch \union {g \in Followups : own[g] # "none"} :
          status[f] # "absent"
    /\ jpc \in {"send", "record", "bump", "post", "block"} =>
          cur \in Followups /\ status[cur] # "absent"
    /\ \A h \in Handlers :
          /\ hpc[h] # "new" => hUser[h] \in Users
          /\ hpc[h] \in {"check", "insert"} => hKind[h] \in DOMAIN Schedules

TypeOK ==
    /\ MemoryTypes /\ RowTypes /\ RedisTypes /\ JobTypes /\ HandlerTypes
    /\ TallyTypes /\ OffenceTypes /\ Owned
    /\ journey \in SUBSET Handlers /\ faults \in Nat
    /\ memLock \in [Users -> Handlers \union {"job", None}]

Init ==
    /\ mem = [u \in Users |-> "absent"] /\ count = [u \in Users |-> 0] /\ recent = {}
    /\ status = [f \in Followups |-> "absent"] /\ owner = [f \in Followups |-> None]
    /\ type = [f \in Followups |-> "catalog"] /\ made = [f \in Followups |-> 0]
    /\ due = {} /\ today = {} /\ journey = {}
    /\ rLast = {} /\ rDedup = {} /\ rDaily = [u \in Users |-> 0]
    /\ jpc = "idle" /\ batch = {} /\ cur = None
    /\ own = [f \in Followups |-> "none"] /\ bump = [u \in Users |-> 0] /\ ownRecent = {} /\ ownOff = {}
    /\ seen = [user |-> None, on |-> FALSE]
    /\ hpc = [h \in Handlers |-> "new"] /\ hUser = [h \in Handlers |-> None]
    /\ hKind \in [Handlers -> Kinds] /\ began = [h \in Handlers |-> 0]
    /\ memLock = [u \in Users |-> None]
    /\ messages = [u \in Users |-> 0] /\ lost = [u \in Users |-> 0] /\ inTx = [u \in Users |-> 0]
    /\ offBefore = {} /\ late = {} /\ fresh = {} /\ typed = {} /\ excused = {} /\ quick = FALSE
    /\ faults = 0
-----------------------------------------------------------------------------
(* The bot's side                                                          *)

\* What a transaction does once it has the memory row.
Proceeds(h) ==
    hpc' = [hpc EXCEPT ![h] = IF hKind[h] \in DOMAIN Schedules THEN "check"
                              ELSE IF hKind[h] \in Cancels THEN "cancel" ELSE "commit"]

TakesRow(h, u) == memLock[u] = None /\ memLock' = [memLock EXCEPT ![u] = h]

\* Mutant: the event's transaction does not touch the memory row.
BeginUnlocked(h, u) ==
    /\ hpc[h] = "new" /\ Proceeds(h)
    /\ hUser' = [hUser EXCEPT ![h] = u]
    /\ began' = [began EXCEPT ![h] = 1 + Cardinality({g \in Handlers : began[g] > 0})]
    /\ UNCHANGED <<memory, rows, journey, redis, job, hKind, memLock, tally, offences, faults>>

\* The event is inserted and update_from_event flushes the memory row, waiting
\* for whoever holds it, or finds that it must create one; the stop button
\* updates the row if there is one.
Begin(h, u) ==
    /\ hpc[h] = "new"
    /\ hUser' = [hUser EXCEPT ![h] = u]
    /\ began' = [began EXCEPT ![h] = 1 + Cardinality({g \in Handlers : began[g] > 0})]
    /\ \/ mem[u] # "absent" /\ TakesRow(h, u) /\ Proceeds(h)
       \/ mem[u] = "absent" /\ hKind[h] = "stop" /\ Proceeds(h) /\ UNCHANGED memLock
       \/ /\ mem[u] = "absent" /\ hKind[h] # "stop"
          /\ hpc' = [hpc EXCEPT ![h] = "create"] /\ UNCHANGED memLock
    /\ UNCHANGED <<memory, rows, journey, redis, job, hKind, tally, offences, faults>>

\* _has_pending
CheckPending(h) ==
    /\ hpc[h] = "check"
    /\ hpc' = [hpc EXCEPT ![h] =
                  IF \E f \in Followups : /\ owner[f] = hUser[h] /\ status[f] = "pending"
                                          /\ type[f] = Schedules[hKind[h]]
                  THEN "commit" ELSE "insert"]
    /\ UNCHANGED <<memory, rows, journey, redis, job, hUser, hKind, began, memLock, tally,
                   offences, faults>>

\* The end of a transaction: what it did to the memory row and the journey.
Commits(h) ==
    LET u == hUser[h] IN
    /\ mem' = IF memLock[u] # h THEN mem
              ELSE [mem EXCEPT ![u] = IF hKind[h] \in Disables THEN "off"
                                      ELSE IF @ = "absent" THEN "on" ELSE @]
    /\ journey' = IF hKind[h] = "stop" THEN journey ELSE journey \union {h}
    /\ memLock' = [x \in Users |-> IF memLock[x] = h THEN None ELSE memLock[x]]
    /\ hpc' = [hpc EXCEPT ![h] = "done"]
    /\ UNCHANGED <<count, recent, redis, job, hUser, hKind, began, tally, offences, faults>>

\* An event that changes no follow-up, or found one pending.
Plain(h) == hpc[h] = "commit" /\ Commits(h) /\ UNCHANGED rows

\* schedule: a new pending row.
Insert(h) ==
    /\ hpc[h] = "insert" /\ Commits(h)
    /\ \E f \in Followups :
          /\ status[f] = "absent"
          /\ status' = [status EXCEPT ![f] = "pending"]
          /\ owner' = [owner EXCEPT ![f] = hUser[h]]
          /\ type' = [type EXCEPT ![f] = Schedules[hKind[h]]]
          /\ made' = [made EXCEPT ![f] = began[h]]
    /\ UNCHANGED <<due, today>>

\* A pending row of the user that the batch has written to.
HeldRows(u) == {f \in Followups : owner[f] = u /\ status[f] = "pending" /\ own[f] # "none"}

\* cancel_all_pending waits for the rows the batch holds, then updates the rows
\* that are still pending.
Cancel(h) ==
    /\ hpc[h] \in {"cancel", "granted"} /\ HeldRows(hUser[h]) = {} /\ Commits(h)
    /\ status' = [f \in Followups |->
                     IF owner[f] = hUser[h] /\ status[f] = "pending" THEN "cancelled"
                     ELSE status[f]]
    /\ UNCHANGED <<owner, type, made, due, today>>

\* Mutant: the exception of the stop button keeps its connection open.
AbandonKeepsLock(h) ==
    /\ hpc' = [hpc EXCEPT ![h] = "done"]
    /\ UNCHANGED <<memory, rows, journey, redis, job, hUser, hKind, began, memLock, tally,
                   offences>>

\* The transaction is rolled back; every handler logs the exception and goes on.
Abandon(h) ==
    /\ hpc' = [hpc EXCEPT ![h] = "done"]
    /\ memLock' = [x \in Users |-> IF memLock[x] = h THEN None ELSE memLock[x]]
    /\ UNCHANGED <<memory, rows, journey, redis, job, hUser, hKind, began, tally, offences>>

\* get_or_create inserts the memory row it did not find. When another event of
\* the user created it meanwhile the user id is not unique and the whole
\* transaction is lost, whatever the event was.
Create(h) ==
    LET u == hUser[h] IN
    /\ hpc[h] = "create" /\ memLock[u] = None
    /\ IF mem[u] = "absent"
       THEN /\ TakesRow(h, u) /\ Proceeds(h)
            /\ UNCHANGED <<memory, rows, journey, redis, job, hUser, hKind, began, tally, offences>>
       ELSE Abandon(h)
    /\ UNCHANGED faults

TxFails(h) ==
    /\ hpc[h] \notin {"new", "done"} /\ faults < MaxFaults /\ faults' = faults + 1
    /\ Abandon(h)

-----------------------------------------------------------------------------
(* Time                                                                    *)

\* The ten minutes of a follow-up are over.
FallsDue(f) ==
    /\ status[f] = "pending" /\ f \notin due /\ due' = due \union {f}
    /\ UNCHANGED <<memory, status, owner, type, made, today, journey, redis, job, handler,
                   memLock, tally, offences, faults>>

\* Ten minutes since the user's last message: last_followup_at and agent:fu:last.
GapPasses(u) ==
    /\ u \in fresh \union recent \union ownRecent \union rLast /\ fresh' = fresh \ {u}
    /\ recent' = recent \ {u} /\ ownRecent' = ownRecent \ {u} /\ rLast' = rLast \ {u}
    /\ UNCHANGED <<mem, count, rows, journey, rDedup, rDaily, jpc, batch, cur, own, bump, ownOff,
                   seen, handler, memLock, tally, offBefore, late, typed, excused, quick, faults>>

\* The dedup period of a type (2 to 24 hours) is over, and so is the gap.
WindowPasses(u, t) ==
    /\ u \notin fresh /\ <<u, t>> \in typed /\ typed' = typed \ {<<u, t>>}
    /\ rDedup' = rDedup \ {<<u, t>>} /\ excused' = excused \ {<<u, t>>}
    /\ UNCHANGED <<memory, rows, journey, rLast, rDaily, job, handler, memLock, tally,
                   offBefore, late, fresh, quick, faults>>

\* A day without a message: both daily counts.
DayPasses(u) ==
    /\ u \notin fresh /\ (rDaily[u] > 0 \/ \E f \in today : owner[f] = u)
    /\ rDaily' = [rDaily EXCEPT ![u] = 0]
    /\ today' = {f \in today : owner[f] # u}
    /\ UNCHANGED <<memory, status, owner, type, made, due, journey, rLast, rDedup, job, handler,
                   memLock, tally, offences, faults>>

-----------------------------------------------------------------------------
(* The scheduler's batch                                                   *)

DueRows == {f \in due : status[f] = "pending"}

\* get_due
DueBatches ==
    {S \in SUBSET DueRows :
        Cardinality(S) <= BatchLimit /\ (S = DueRows \/ Cardinality(S) = BatchLimit)}

\* Off hours: the due rows move to the next morning.
Defer ==
    /\ jpc = "idle" /\ DueRows # {} /\ faults < MaxFaults
    /\ \E S \in DueBatches : due' = due \ S
    /\ faults' = faults + 1
    /\ UNCHANGED <<memory, status, owner, type, made, today, journey, redis, job, handler,
                   memLock, tally, offences>>

\* A new session. Runs are a minute apart: a statement that got its
\* rows from the rollback of the last run has committed by now.
StartBatch ==
    /\ jpc = "idle" /\ DueRows # {} /\ \A h \in Handlers : hpc[h] # "granted"
    /\ batch' \in DueBatches
    /\ jpc' = "pick"
    /\ offBefore' = {<<u, "off">> : u \in {x \in Users : mem[x] = "off"}}
                    \union {<<hUser[h], "stop">> : h \in {g \in Handlers :
                                hpc[g] = "done" /\ hKind[g] = "stop"}}
    /\ UNCHANGED <<memory, rows, journey, redis, cur, own, bump, ownRecent, ownOff, seen, handler,
                   memLock, tally, late, fresh, typed, excused, quick, faults>>

\* followup_enabled as the session sees it: the object of the previous row is
\* not refreshed when the next row is of the same user.
EnabledSeen(f) ==
    IF seen.user = owner[f] THEN seen.on
    ELSE mem[owner[f]] = "on" /\ owner[f] \notin ownOff

Stale(f) ==
    \E h \in journey : /\ hUser[h] = owner[f] /\ hKind[h] \in Superseding[type[f]]
                       /\ began[h] > made[f]

SentToday(u) ==
    {f \in Followups : owner[f] = u /\ (f \in today \/ own[f] = "sent")}

\* Mutant: the flag is not looked at.
ShouldSendAnyway(f) ==
    LET u == owner[f] IN
    /\ count[u] + bump[u] < MaxTotal
    /\ Cardinality(SentToday(u)) < MaxDaily
    /\ u \notin recent \union ownRecent
    /\ ~Stale(f)

\* Mutant: no minimum gap in the database.
ShouldSendNoGap(f) ==
    LET u == owner[f] IN
    /\ EnabledSeen(f)
    /\ count[u] + bump[u] < MaxTotal
    /\ Cardinality(SentToday(u)) < MaxDaily
    /\ ~Stale(f)

\* Mutant: off by one at the lifetime cap.
ShouldSendAtCap(f) ==
    LET u == owner[f] IN
    /\ EnabledSeen(f)
    /\ count[u] + bump[u] <= MaxTotal
    /\ Cardinality(SentToday(u)) < MaxDaily
    /\ u \notin recent \union ownRecent
    /\ ~Stale(f)

ShouldSend(f) ==
    LET u == owner[f] IN
    /\ EnabledSeen(f)
    /\ count[u] + bump[u] < MaxTotal
    /\ Cardinality(SentToday(u)) < MaxDaily
    /\ u \notin recent \union ownRecent
    /\ ~Stale(f)

\* Mutant: the pre-check forgets the type.
RedisAllowsAnyType(f) == owner[f] \notin rLast /\ rDaily[owner[f]] < MaxDaily

RedisAllows(f) ==
    /\ owner[f] \notin rLast
    /\ <<owner[f], type[f]>> \notin rDedup
    /\ rDaily[owner[f]] < MaxDaily

\* A row leaves the batch with what the batch wrote to it.
Writes(f, w) == own' = [own EXCEPT ![f] = w]
NextRow == batch' = batch \ {cur} /\ jpc' = "pick"

\* Mutant: a skipped row is not written.
CheckForgets(f) ==
    /\ jpc = "pick" /\ f \in batch /\ cur' = f
    /\ seen' = [user |-> owner[f], on |-> EnabledSeen(f)]
    /\ IF ShouldSend(f) /\ RedisAllows(f)
       THEN jpc' = "send" /\ UNCHANGED <<batch, own>>
       ELSE batch' = batch \ {f} /\ UNCHANGED <<jpc, own>>
    /\ UNCHANGED <<memory, rows, journey, redis, bump, ownRecent, ownOff, handler, memLock,
                   tally, offences, faults>>

\* get_or_create, should_send and _redis_pre_check; the message is composed and
\* sent after them. A row that may not be sent is skipped for good.
Check(f) ==
    /\ jpc = "pick" /\ f \in batch /\ cur' = f
    /\ seen' = [user |-> owner[f], on |-> EnabledSeen(f)]
    /\ IF ShouldSend(f) /\ RedisAllows(f)
       THEN jpc' = "send" /\ UNCHANGED <<batch, own>>
       ELSE Writes(f, "skipped") /\ batch' = batch \ {f} /\ UNCHANGED jpc
    /\ UNCHANGED <<memory, rows, journey, redis, bump, ownRecent, ownOff, handler, memLock,
                   tally, offences, faults>>

\* The customer and type of the row at work.
Pair == <<owner[cur], type[cur]>>

\* Redis is unavailable: its layer passes, and a key that is there is not read.
CheckRedisDown(f) ==
    /\ jpc = "pick" /\ f \in batch /\ cur' = f /\ ShouldSend(f) /\ ~RedisAllows(f)
    /\ faults < MaxFaults /\ faults' = faults + 1
    /\ seen' = [user |-> owner[f], on |-> EnabledSeen(f)]
    /\ jpc' = "send"
    /\ excused' = excused \union ({<<owner[f], type[f]>>} \intersect rDedup)
    /\ UNCHANGED <<memory, rows, journey, redis, batch, own, bump, ownRecent, ownOff, handler,
                   memLock, tally, offBefore, late, fresh, typed, quick>>

\* A message reaches its customer.
Delivered ==
    LET u == owner[cur] IN
    /\ messages' = [messages EXCEPT ![u] = @ + 1]
    /\ late' = late \union {x \in offBefore : x[1] = u}
    /\ quick' = (quick \/ u \in fresh) /\ fresh' = fresh \union {u}
    /\ typed' = typed \union {Pair}
    /\ UNCHANGED offBefore

\* The message goes out.
SendOk ==
    /\ jpc = "send" /\ jpc' = "record" /\ Delivered
    /\ inTx' = [inTx EXCEPT ![owner[cur]] = @ + 1]
    /\ excused' = excused \ {Pair}
    /\ UNCHANGED <<memory, rows, journey, redis, batch, cur, own, bump, ownRecent, ownOff, seen,
                   handler, memLock, lost, faults>>

\* The message goes out and its answer is late: mark_failed, and no record.
SendTimeout ==
    /\ jpc = "send" /\ faults < MaxFaults /\ faults' = faults + 1 /\ Delivered
    /\ NextRow /\ Writes(cur, "failed")
    /\ lost' = [lost EXCEPT ![owner[cur]] = @ + 1]
    /\ excused' = excused \union {Pair}
    /\ UNCHANGED <<memory, rows, journey, redis, cur, bump, ownRecent, ownOff, seen, handler,
                   memLock, inTx>>

\* Forbidden: mark_failed, then disable_followup.
SendForbidden ==
    /\ jpc = "send" /\ jpc' = "block" /\ Writes(cur, "failed")
    /\ UNCHANGED <<memory, rows, journey, redis, batch, cur, bump, ownRecent, ownOff, seen,
                   handler, memLock, tally, offences, faults>>

\* Any other error, without a message: mark_failed.
SendError ==
    /\ jpc = "send" /\ NextRow /\ Writes(cur, "failed")
    /\ UNCHANGED <<memory, rows, journey, redis, cur, bump, ownRecent, ownOff, seen, handler,
                   memLock, tally, offences, faults>>

\* RetryAfter: the loop ends, what was done so far is committed.
SendRetryAfter ==
    /\ jpc = "send" /\ faults < MaxFaults /\ faults' = faults + 1
    /\ batch' = {} /\ jpc' = "pick"
    /\ UNCHANGED <<memory, rows, journey, redis, cur, own, bump, ownRecent, ownOff, seen, handler,
                   memLock, tally, offences>>

\* mark_sent
Record ==
    /\ jpc = "record" /\ jpc' = "bump" /\ Writes(cur, "sent")
    /\ UNCHANGED <<memory, rows, journey, redis, batch, cur, bump, ownRecent, ownOff, seen,
                   handler, memLock, tally, offences, faults>>

\* The batch takes a memory row, waiting for the handler that holds it.
TakesMemory(u) ==
    memLock[u] \in {None, "job"} /\ memLock' = [memLock EXCEPT ![u] = "job"]

\* Mutant: the counter is not incremented.
BumpNothing ==
    /\ jpc = "bump" /\ TakesMemory(owner[cur])
    /\ ownRecent' = ownRecent \union {owner[cur]}
    /\ jpc' = "post"
    /\ UNCHANGED <<memory, rows, journey, redis, batch, cur, own, bump, ownOff, seen, handler,
                   tally, offences, faults>>

\* mark_followup_sent
Bump ==
    /\ jpc = "bump" /\ TakesMemory(owner[cur])
    /\ bump' = [bump EXCEPT ![owner[cur]] = @ + 1]
    /\ ownRecent' = ownRecent \union {owner[cur]}
    /\ jpc' = "post"
    /\ UNCHANGED <<memory, rows, journey, redis, batch, cur, own, ownOff, seen, handler,
                   tally, offences, faults>>

\* The dedup key is set if there is none. One that was there and not heeded keeps
\* its time to live, and may go before the period of this message is over.
SetDedup ==
    \/ Pair \notin rDedup /\ rDedup' = rDedup \union {Pair} /\ UNCHANGED excused
    \/ Pair \in rDedup /\ rDedup' \in {rDedup, rDedup \ {Pair}} /\ excused' = excused \union {Pair}

\* _redis_post_send: three keys one by one; an error is logged, and the keys after
\* it are not written. (That of the counter's EXPIRE is left out.)
Post ==
    LET u == owner[cur] IN
    /\ jpc = "post" /\ NextRow
    /\ \/ /\ rLast' = rLast \union {u} /\ SetDedup
          /\ rDaily' = [rDaily EXCEPT ![u] = @ + 1] /\ UNCHANGED faults
       \/ /\ faults < MaxFaults /\ faults' = faults + 1 /\ UNCHANGED rDaily
          /\ \/ rLast' = rLast \union {u} /\ SetDedup
             \/ /\ rLast' \in {rLast, rLast \union {u}} /\ UNCHANGED rDedup
                /\ excused' = excused \union {Pair}
    /\ UNCHANGED <<memory, rows, journey, cur, own, bump, ownRecent, ownOff, seen, handler,
                   memLock, tally, offBefore, late, fresh, typed, quick>>

\* disable_followup after Forbidden.
Block ==
    LET u == owner[cur] IN
    /\ jpc = "block" /\ TakesMemory(u) /\ NextRow
    /\ ownOff' = ownOff \union {u} /\ seen' = [user |-> u, on |-> FALSE]
    /\ UNCHANGED <<memory, rows, journey, redis, cur, own, bump, ownRecent, handler, tally,
                   offences, faults>>

\* The session is closed: its writes and locks are gone.
EndSession ==
    /\ jpc' = "idle" /\ batch' = {} /\ cur' = None
    /\ own' = [f \in Followups |-> "none"] /\ bump' = [u \in Users |-> 0]
    /\ ownRecent' = {} /\ ownOff' = {} /\ seen' = [user |-> None, on |-> FALSE]
    /\ memLock' = [u \in Users |-> IF memLock[u] = "job" THEN None ELSE memLock[u]]
    /\ inTx' = [u \in Users |-> 0] /\ offBefore' = {}

\* mark_sent, mark_failed and mark_skipped go by id, whatever the status is now.
Commit ==
    /\ jpc = "pick" /\ batch = {} /\ EndSession
    /\ status' = [f \in Followups |-> IF own[f] = "none" THEN status[f] ELSE own[f]]
    /\ today' = today \union {f \in Followups : own[f] = "sent"}
    /\ mem' = [u \in Users |-> IF u \in ownOff THEN "off" ELSE mem[u]]
    /\ count' = [u \in Users |-> count[u] + bump[u]]
    /\ recent' = recent \union ownRecent
    /\ UNCHANGED <<owner, type, made, due, journey, redis, handler, messages, lost, late, fresh,
                   typed, excused, quick, faults>>

\* Everything the batch wrote is undone; what it sent stays sent, and the last
\* message has no keys in Redis yet.
Rollback ==
    /\ EndSession
    /\ excused' = IF jpc \in {"record", "bump", "post"} THEN excused \union {Pair} ELSE excused
    /\ lost' = [u \in Users |-> lost[u] + inTx[u]]
    /\ UNCHANGED <<memory, rows, journey, redis, messages, late, fresh, typed, quick>>

\* The scheduler dies, or a statement of the batch fails.
JobCrash ==
    /\ jpc # "idle" /\ faults < MaxFaults /\ faults' = faults + 1
    /\ Rollback /\ UNCHANGED handler

\* The batch waits for a memory row whose holder waits for a row of the batch:
\* the database ends one of the two transactions, the other gets its lock.
Deadlock(h) ==
    /\ jpc \in {"bump", "block"} /\ memLock[owner[cur]] = h
    /\ hpc[h] = "cancel" /\ HeldRows(hUser[h]) # {}
    /\ \/ Rollback /\ hpc' = [hpc EXCEPT ![h] = "granted"] /\ UNCHANGED <<hUser, hKind, began>>
       \/ Abandon(h)
    /\ UNCHANGED faults

-----------------------------------------------------------------------------
BotStep(h) == Create(h) \/ CheckPending(h) \/ Plain(h) \/ Insert(h) \/ Cancel(h)

Sends == SendOk \/ SendTimeout \/ SendForbidden \/ SendError \/ SendRetryAfter

JobStep ==
    \/ StartBatch \/ Sends \/ Record \/ Bump \/ Post \/ Block \/ Commit
    \/ \E f \in Followups : Check(f) \/ CheckRedisDown(f)

Next ==
    \/ \E h \in Handlers : \/ BotStep(h) \/ TxFails(h) \/ Deadlock(h)
                           \/ \E u \in Users : Begin(h, u)
    \/ \E f \in Followups : FallsDue(f)
    \/ \E u \in Users : GapPasses(u) \/ DayPasses(u) \/ \E t \in Types : WindowPasses(u, t)
    \/ JobStep \/ Defer \/ JobCrash

Spec == Init /\ [][Next]_vars

\* Tasks run and get a lock in their turn, time passes, the scheduler fires, the
\* database breaks deadlocks.
FairSpec ==
    /\ Spec
    /\ \A h \in Handlers : SF_vars(BotStep(h)) /\ WF_vars(Deadlock(h))
    /\ \A f \in Followups : WF_vars(FallsDue(f))
    /\ WF_vars(JobStep)

-----------------------------------------------------------------------------
(* Properties                                                              *)

\* followup_count is the number of rows marked sent, deadlocks and crashes
\* included: mark_sent and mark_followup_sent stand or fall together.
CountMatchesRows ==
    \A u \in Users :
        count[u] = Cardinality({f \in Followups : owner[f] = u /\ status[f] = "sent"})

\* "Lifetime cap (max 5 total)": only a message without a record in the database
\* may exceed it, because its transaction was lost or its answer came too late.
LifetimeCap == \A u \in Users : messages[u] <= MaxTotal + lost[u]

\* Two events at once schedule one follow-up of a type, although _has_pending
\* and the insert are two statements and nothing in the table is unique: the
\* memory row serialises them.
OnePendingPerType ==
    \A f, g \in Followups :
        /\ status[f] = "pending" /\ status[g] = "pending"
        /\ owner[f] = owner[g] /\ type[f] = type[g]
        => f = g

\* A batch that starts after the flag is off sends the user nothing.
DisabledStaysQuiet == \A u \in Users : <<u, "off">> \notin late

\* "Min-gap": with Redis down the database keeps the gap; only a message without
\* a record in the database may be followed too soon.
GapHolds == quick => \E u \in Users : lost[u] > 0

\* "Per-type Redis dedup": a customer gets a type again within its period only
\* where the key of that type was lost or never written, with the batch, with a
\* late answer or on its way to Redis, or where it is there and was not read; no
\* crossing of batches, deadlocks, deferrals and rate limits repeats one.
NoRepeatWithoutLoss ==
    [][messages' # messages /\ Pair \in typed => Pair \in excused]_vars

\* Every transaction of the bot ends, although it may wait for a batch.
HandlersFinish ==
    \A h \in Handlers : hpc[h] # "new" ~> hpc[h] = "done"

\* Every follow-up is settled, one way or another.
FollowupsSettle ==
    \A f \in Followups : status[f] = "pending" ~> status[f] \notin {"absent", "pending"}

\* "Stop request immediately disables follow-ups": a batch that starts after
\* the answer to a stop request sends the user nothing. (Violated.)
StopRequestHonoured == \A u \in Users : <<u, "stop">> \notin late

\* "Setting the status to sent is atomic (WHERE status='pending')": a cancelled
\* follow-up stays cancelled. (Violated.)
CancelledStays ==
    [][\A f \in Followups : status[f] = "cancelled" => status'[f] = "cancelled"]_vars
==============================================================================
