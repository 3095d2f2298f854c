------------------------ MODULE AgentFollowupsProofs ------------------------
(***************************************************************************)
(* TLAPS proofs about AgentFollowups: type correctness, the lifetime cap,  *)
(* that concurrent events never schedule the same follow-up twice, that a  *)
(* customer who is off stays undisturbed, the gap and the dedup period,    *)
(* and that the counter is the number of rows sent.                        *)
(***************************************************************************)
EXTENDS AgentFollowups, FiniteSetTheorems, TLAPS

\* Variables that an action leaves alone keep their types.
LEMMA Frames ==
  /\ MemoryTypes /\ UNCHANGED memory => MemoryTypes'
  /\ RowTypes /\ UNCHANGED rows => RowTypes'
  /\ RedisTypes /\ UNCHANGED redis => RedisTypes'
  /\ JobTypes /\ UNCHANGED job => JobTypes'
  /\ HandlerTypes /\ UNCHANGED handler => HandlerTypes'
  /\ TallyTypes /\ UNCHANGED tally => TallyTypes'
  /\ OffenceTypes /\ UNCHANGED offences => OffenceTypes'
  <1>1. MemoryTypes /\ UNCHANGED memory => MemoryTypes'
    BY DEF MemoryTypes, memory
  <1>2. RowTypes /\ UNCHANGED rows => RowTypes'
    BY DEF RowTypes, rows
  <1>3. RedisTypes /\ UNCHANGED redis => RedisTypes'
    BY DEF RedisTypes, redis
  <1>4. JobTypes /\ UNCHANGED job => JobTypes'
    BY DEF JobTypes, job
  <1>5. HandlerTypes /\ UNCHANGED handler => HandlerTypes'
    BY DEF HandlerTypes, handler
  <1>6. TallyTypes /\ UNCHANGED tally => TallyTypes'
    BY DEF TallyTypes, tally
  <1>7. OffenceTypes /\ UNCHANGED offences => OffenceTypes'
    BY DEF OffenceTypes, offences
  <1> QED BY <1>1, <1>2, <1>3, <1>4, <1>5, <1>6, <1>7

\* The relation between rows, batch and handlers depends on nothing else.
LEMMA OwnedFrame ==
  /\ Owned /\ UNCHANGED <<status, owner, due, batch, jpc, cur, own, hpc, hUser, hKind>> => Owned'
  BY DEF Owned

LEMMA TypeInit == Init => TypeOK
  <1> SUFFICES ASSUME Init PROVE TypeOK
    OBVIOUS
  <1>1. MemoryTypes /\ RowTypes /\ RedisTypes
    BY DEF Init, MemoryTypes, RowTypes, RedisTypes, Statuses, Types
  <1>2. JobTypes
    BY DEF Init, JobTypes
  <1>3. HandlerTypes /\ TallyTypes /\ OffenceTypes /\ Owned
    BY KindsAssumption DEF Init, HandlerTypes, TallyTypes, OffenceTypes, Owned
  <1> QED BY <1>1, <1>2, <1>3 DEF Init, TypeOK

-----------------------------------------------------------------------------
(* The bot's side                                                          *)

\* The position in the order of transactions is a number.
LEMMA PositionType == 1 + Cardinality({g \in Handlers : began[g] > 0}) \in Nat
  <1>1. IsFiniteSet({g \in Handlers : began[g] > 0})
    BY FiniteAssumption, FS_Subset
  <1> QED BY <1>1, FS_CardinalityType

LEMMA TypeBegin ==
  ASSUME TypeOK, NEW h \in Handlers, NEW u \in Users, Begin(h, u)
  PROVE  TypeOK'
  <1> USE DEF TypeOK
  <1>1. HandlerTypes'
    <2>1. began' \in [Handlers -> Nat]
      BY PositionType DEF Begin, HandlerTypes
    <2> QED BY <2>1 DEF Begin, Proceeds, HandlerTypes
  <1>2. Owned'
    BY DEF Begin, Proceeds, HandlerTypes, Owned, rows, job
  <1>3. memLock' \in [Users -> Handlers \union {"job", None}]
    BY DEF Begin, TakesRow
  <1> QED BY <1>1, <1>2, <1>3, Frames DEF Begin

LEMMA TypeAbandon ==
  ASSUME TypeOK, NEW h \in Handlers, Abandon(h), faults' \in Nat, hpc[h] # "new"
  PROVE  TypeOK'
  <1> USE DEF TypeOK
  <1>1. HandlerTypes' /\ Owned'
    BY DEF Abandon, HandlerTypes, Owned, rows, job
  <1>2. memLock' \in [Users -> Handlers \union {"job", None}]
    BY DEF Abandon
  <1> QED BY <1>1, <1>2, Frames DEF Abandon

LEMMA TypeCommits ==
  ASSUME TypeOK, NEW h \in Handlers, hpc[h] # "new", Commits(h), RowTypes', UNCHANGED due,
         \A f \in Followups : /\ status[f] # "absent" => status'[f] # "absent"
                              /\ status'[f] # "absent" => owner'[f] \in Users
  PROVE  TypeOK'
  <1> USE DEF TypeOK
  <1>1. MemoryTypes'
    BY DEF Commits, MemoryTypes
  <1>2. HandlerTypes'
    BY DEF Commits, HandlerTypes
  <1>3. Owned'
    BY DEF Commits, HandlerTypes, Owned, RowTypes, JobTypes, job
  <1>4. /\ memLock' \in [Users -> Handlers \union {"job", None}]
        /\ journey' \in SUBSET Handlers
    BY DEF Commits
  <1> QED BY <1>1, <1>2, <1>3, <1>4, Frames DEF Commits

LEMMA TypeBot ==
  ASSUME TypeOK, NEW h \in Handlers, BotStep(h) \/ TxFails(h)
  PROVE  TypeOK'
  <1> USE DEF TypeOK
  <1>1. CASE Create(h)
    <2>1. CASE mem[hUser[h]] = "absent"
      <3>1. HandlerTypes' /\ Owned'
        BY <1>1, <2>1 DEF Create, Proceeds, HandlerTypes, Owned, rows, job
      <3>2. memLock' \in [Users -> Handlers \union {"job", None}]
        BY <1>1, <2>1 DEF Create, TakesRow
      <3> QED BY <1>1, <2>1, <3>1, <3>2, Frames DEF Create
    <2>2. CASE mem[hUser[h]] # "absent"
      BY <1>1, <2>2, TypeAbandon DEF Create
    <2> QED BY <2>1, <2>2
  <1>2. CASE CheckPending(h)
    <2>1. HandlerTypes' /\ Owned'
      BY <1>2 DEF CheckPending, HandlerTypes, Owned, rows, job
    <2> QED BY <1>2, <2>1, Frames DEF CheckPending
  <1>3. CASE Plain(h)
    BY <1>3, Frames, TypeCommits DEF Plain, Owned, rows
  <1>4. CASE Insert(h)
    <2>1. hUser[h] \in Users /\ Schedules[hKind[h]] \in Types /\ began[h] \in Nat
      BY <1>4 DEF Insert, Owned, HandlerTypes, Schedules, Types
    <2>2. PICK f \in Followups :
             /\ status[f] = "absent"
             /\ status' = [status EXCEPT ![f] = "pending"]
             /\ owner' = [owner EXCEPT ![f] = hUser[h]]
             /\ type' = [type EXCEPT ![f] = Schedules[hKind[h]]]
             /\ made' = [made EXCEPT ![f] = began[h]]
      BY <1>4 DEF Insert
    <2>3. RowTypes'
      BY <1>4, <2>1, <2>2 DEF Insert, RowTypes, Statuses
    <2>4. \A g \in Followups : /\ status[g] # "absent" => status'[g] # "absent"
                               /\ status'[g] # "absent" => owner'[g] \in Users
      BY <2>1, <2>2 DEF RowTypes, Owned
    <2> QED BY <1>4, <2>3, <2>4, TypeCommits DEF Insert
  <1>5. CASE Cancel(h)
    <2>1. RowTypes'
      BY <1>5 DEF Cancel, RowTypes, Statuses
    <2>2. \A g \in Followups : /\ status[g] # "absent" => status'[g] # "absent"
                               /\ status'[g] # "absent" => owner'[g] \in Users
      BY <1>5 DEF Cancel, RowTypes, Owned
    <2> QED BY <1>5, <2>1, <2>2, TypeCommits DEF Cancel
  <1>6. CASE TxFails(h)
    BY <1>6, TypeAbandon DEF TxFails
  <1> QED BY <1>1, <1>2, <1>3, <1>4, <1>5, <1>6 DEF BotStep

-----------------------------------------------------------------------------
(* Time and the batch                                                      *)

LEMMA TypeTime ==
  ASSUME TypeOK,
         \/ \E f \in Followups : FallsDue(f)
         \/ \E u \in Users : GapPasses(u) \/ DayPasses(u) \/ \E t \in Types : WindowPasses(u, t)
  PROVE  TypeOK'
  <1> USE DEF TypeOK
  <1>1. ASSUME NEW f \in Followups, FallsDue(f) PROVE TypeOK'
    <2>1. RowTypes' /\ Owned'
      BY <1>1 DEF FallsDue, RowTypes, Owned, handler, job
    <2> QED BY <1>1, <2>1, Frames DEF FallsDue
  <1>2. ASSUME NEW u \in Users, GapPasses(u) PROVE TypeOK'
    <2>1. MemoryTypes' /\ RedisTypes' /\ OffenceTypes'
      BY <1>2 DEF GapPasses, MemoryTypes, RedisTypes, OffenceTypes
    <2>2. JobTypes' /\ Owned'
      BY <1>2 DEF GapPasses, JobTypes, Owned, rows, handler
    <2> QED BY <1>2, <2>1, <2>2, Frames DEF GapPasses
  <1>3. ASSUME NEW u \in Users, DayPasses(u) PROVE TypeOK'
    <2>1. RowTypes' /\ RedisTypes'
      BY <1>3 DEF DayPasses, RowTypes, RedisTypes
    <2>2. Owned'
      BY <1>3 DEF DayPasses, Owned, handler, job
    <2> QED BY <1>3, <2>1, <2>2, Frames DEF DayPasses
  <1>4. ASSUME NEW u \in Users, NEW t \in Types, WindowPasses(u, t) PROVE TypeOK'
    <2>1. RedisTypes' /\ OffenceTypes'
      BY <1>4 DEF WindowPasses, RedisTypes, OffenceTypes
    <2>2. Owned'
      BY <1>4 DEF WindowPasses, Owned, rows, handler, job
    <2> QED BY <1>4, <2>1, <2>2, Frames DEF WindowPasses
  <1> QED BY <1>1, <1>2, <1>3, <1>4

\* A due batch is made of existing rows.
LEMMA DueTypes ==
  ASSUME TypeOK, NEW S \in DueBatches
  PROVE  S \subseteq due /\ S \subseteq Followups
  BY DEF DueBatches, DueRows, TypeOK, RowTypes

\* The row the batch works on has an owner.
LEMMA CurrentOwned ==
  ASSUME TypeOK, jpc \in {"send", "record", "bump", "post", "block"}
  PROVE  cur \in Followups /\ owner[cur] \in Users
  BY DEF TypeOK, Owned

LEMMA TypeStart ==
  ASSUME TypeOK, Defer \/ StartBatch
  PROVE  TypeOK'
  <1> USE DEF TypeOK
  <1>1. CASE Defer
    <2>1. RowTypes' /\ Owned' /\ faults' \in Nat
      BY <1>1 DEF Defer, RowTypes, Owned, handler, job
    <2> QED BY <1>1, <2>1, Frames DEF Defer
  <1>2. CASE StartBatch
    <2>1. JobTypes' /\ Owned'
      BY <1>2, DueTypes DEF StartBatch, JobTypes, Owned, rows, handler
    <2>2. OffenceTypes'
      <3>1. {<<u, "off">> : u \in {x \in Users : mem[x] = "off"}} \subseteq Users \X {"off", "stop"}
        OBVIOUS
      <3>2. {<<hUser[h], "stop">> : h \in {g \in Handlers : hpc[g] = "done" /\ hKind[g] = "stop"}}
              \subseteq Users \X {"off", "stop"}
        BY DEF Owned
      <3> QED BY <1>2, <3>1, <3>2 DEF StartBatch, OffenceTypes
    <2> QED BY <1>2, <2>1, <2>2, Frames DEF StartBatch
  <1> QED BY <1>1, <1>2

LEMMA TypeCheck ==
  ASSUME TypeOK, NEW f \in Followups, Check(f) \/ CheckRedisDown(f)
  PROVE  TypeOK'
  <1> USE DEF TypeOK
  <1>1. /\ f \in batch
        /\ seen' = [user |-> owner[f], on |-> EnabledSeen(f)]
    BY DEF Check, CheckRedisDown
  <1>2. owner[f] \in Users
    BY <1>1 DEF Owned
  <1>3. EnabledSeen(f) \in BOOLEAN
    <2>1. seen.on \in BOOLEAN
      BY DEF JobTypes
    <2> QED BY <2>1 DEF EnabledSeen
  <1>4. seen' \in [user : Users \union {None}, on : BOOLEAN]
    BY <1>1, <1>2, <1>3
  <1>5. CASE Check(f)
    <2>1. JobTypes' /\ Owned'
      BY <1>1, <1>4, <1>5 DEF Check, Writes, JobTypes, Owned, rows, handler
    <2> QED BY <1>5, <2>1, Frames DEF Check
  <1>6. CASE CheckRedisDown(f)
    <2>1. JobTypes' /\ Owned' /\ faults' \in Nat
      BY <1>1, <1>4, <1>6 DEF CheckRedisDown, JobTypes, Owned, rows, handler
    <2>2. OffenceTypes'
      BY <1>6 DEF CheckRedisDown, OffenceTypes, RedisTypes
    <2> QED BY <1>6, <2>1, <2>2, Frames DEF CheckRedisDown
  <1> QED BY <1>5, <1>6

LEMMA TypeSend ==
  ASSUME TypeOK, Sends
  PROVE  TypeOK'
  <1> USE DEF TypeOK
  <1>1. cur \in Followups /\ owner[cur] \in Users /\ type[cur] \in Types
    BY CurrentOwned DEF Sends, SendOk, SendTimeout, SendForbidden, SendError, SendRetryAfter, RowTypes
  <1>2. CASE SendOk
    <2>1. JobTypes' /\ Owned'
      BY <1>1, <1>2 DEF SendOk, JobTypes, Owned, rows, handler
    <2>2. TallyTypes'
      BY <1>1, <1>2 DEF SendOk, Delivered, TallyTypes
    <2>3. OffenceTypes'
      BY <1>1, <1>2 DEF SendOk, Delivered, Pair, OffenceTypes
    <2> QED BY <1>2, <2>1, <2>2, <2>3, Frames DEF SendOk
  <1>6. CASE SendTimeout
    <2>1. JobTypes' /\ Owned' /\ faults' \in Nat
      BY <1>1, <1>6 DEF SendTimeout, NextRow, Writes, JobTypes, Owned, rows, handler
    <2>2. TallyTypes'
      BY <1>1, <1>6 DEF SendTimeout, Delivered, TallyTypes
    <2>3. OffenceTypes'
      BY <1>1, <1>6 DEF SendTimeout, Delivered, Pair, OffenceTypes
    <2> QED BY <1>6, <2>1, <2>2, <2>3, Frames DEF SendTimeout
  <1>3. CASE SendForbidden
    <2>1. JobTypes' /\ Owned'
      BY <1>1, <1>3 DEF SendForbidden, Writes, JobTypes, Owned, rows, handler
    <2> QED BY <1>3, <2>1, Frames DEF SendForbidden
  <1>4. CASE SendError
    <2>1. JobTypes' /\ Owned'
      BY <1>1, <1>4 DEF SendError, NextRow, Writes, JobTypes, Owned, rows, handler
    <2> QED BY <1>4, <2>1, Frames DEF SendError
  <1>5. CASE SendRetryAfter
    <2>1. JobTypes' /\ Owned' /\ faults' \in Nat
      BY <1>1, <1>5 DEF SendRetryAfter, JobTypes, Owned, rows, handler
    <2> QED BY <1>5, <2>1, Frames DEF SendRetryAfter
  <1> QED BY <1>2, <1>3, <1>4, <1>5, <1>6 DEF Sends

LEMMA TypeRecord ==
  ASSUME TypeOK, Record \/ Bump \/ Post \/ Block
  PROVE  TypeOK'
  <1> USE DEF TypeOK
  <1>1. cur \in Followups /\ owner[cur] \in Users /\ type[cur] \in Types
    BY CurrentOwned DEF Record, Bump, Post, Block, RowTypes
  <1>2. CASE Record
    <2>1. JobTypes' /\ Owned'
      BY <1>1, <1>2 DEF Record, Writes, JobTypes, Owned, rows, handler
    <2> QED BY <1>2, <2>1, Frames DEF Record
  <1>3. CASE Bump
    <2>1. JobTypes' /\ Owned'
      BY <1>1, <1>3 DEF Bump, JobTypes, Owned, rows, handler
    <2>2. memLock' \in [Users -> Handlers \union {"job", None}]
      BY <1>3 DEF Bump, TakesMemory
    <2> QED BY <1>3, <2>1, <2>2, Frames DEF Bump
  <1>4. CASE Post
    <2>1. JobTypes' /\ Owned'
      BY <1>1, <1>4 DEF Post, NextRow, JobTypes, Owned, rows, handler
    <2>2. RedisTypes' /\ faults' \in Nat
      BY <1>1, <1>4 DEF Post, SetDedup, Pair, RedisTypes
    <2>3. OffenceTypes'
      BY <1>1, <1>4 DEF Post, SetDedup, Pair, OffenceTypes
    <2> QED BY <1>4, <2>1, <2>2, <2>3, Frames DEF Post
  <1>5. CASE Block
    <2>1. JobTypes' /\ Owned'
      BY <1>1, <1>5 DEF Block, NextRow, JobTypes, Owned, rows, handler
    <2>2. memLock' \in [Users -> Handlers \union {"job", None}]
      BY <1>5 DEF Block, TakesMemory
    <2> QED BY <1>5, <2>1, <2>2, Frames DEF Block
  <1> QED BY <1>2, <1>3, <1>4, <1>5

LEMMA TypeRollback ==
  ASSUME TypeOK, Rollback, HandlerTypes', UNCHANGED hUser,
         \A h \in Handlers : /\ hpc[h] = "new" => hpc'[h] = "new"
                             /\ hpc'[h] \in {"check", "insert"} => hpc[h] = hpc'[h],
         UNCHANGED hKind, faults' \in Nat
  PROVE  TypeOK'
  <1> USE DEF TypeOK
  <1>1. JobTypes'
    BY DEF Rollback, EndSession, JobTypes
  <1>2. Owned'
    BY DEF Rollback, EndSession, Owned, rows, HandlerTypes
  <1>3. jpc \in {"record", "bump", "post"} => Pair \in Users \X Types
    BY CurrentOwned DEF Pair, RowTypes
  <1>5. TallyTypes' /\ OffenceTypes'
    BY <1>3 DEF Rollback, EndSession, TallyTypes, OffenceTypes
  <1>4. memLock' \in [Users -> Handlers \union {"job", None}]
    BY DEF Rollback, EndSession
  <1> QED BY <1>1, <1>2, <1>4, <1>5, Frames DEF Rollback

LEMMA TypeEnd ==
  ASSUME TypeOK, Commit \/ JobCrash \/ \E h \in Handlers : Deadlock(h)
  PROVE  TypeOK'
  <1> USE DEF TypeOK
  <1>1. CASE Commit
    <2>1. JobTypes'
      BY <1>1 DEF Commit, EndSession, JobTypes
    <2>2. MemoryTypes'
      BY <1>1 DEF Commit, MemoryTypes, JobTypes
    <2>3. RowTypes'
      BY <1>1 DEF Commit, RowTypes, JobTypes, Statuses
    <2>4. Owned'
      <3>1. \A f \in Followups : own[f] # "none" => own[f] # "absent"
        BY DEF JobTypes
      <3> QED BY <1>1, <3>1 DEF Commit, EndSession, Owned, RowTypes, JobTypes, handler, HeldRows
    <2>5. TallyTypes' /\ OffenceTypes'
      BY <1>1 DEF Commit, EndSession, TallyTypes, OffenceTypes
    <2>6. memLock' \in [Users -> Handlers \union {"job", None}]
      BY <1>1 DEF Commit, EndSession
    <2> QED BY <1>1, <2>1, <2>2, <2>3, <2>4, <2>5, <2>6, Frames DEF Commit
  <1>2. CASE JobCrash
    BY <1>2, TypeRollback, Frames DEF JobCrash, handler
  <1>3. ASSUME NEW h \in Handlers, Deadlock(h) PROVE TypeOK'
    <2>1. CASE Abandon(h)
      BY <1>3, <2>1, TypeAbandon DEF Deadlock
    <2>2. CASE /\ Rollback /\ hpc' = [hpc EXCEPT ![h] = "granted"]
               /\ UNCHANGED <<hUser, hKind, began>>
      <3>1. HandlerTypes'
        BY <2>2 DEF HandlerTypes
      <3>2. \A g \in Handlers : /\ hpc[g] = "new" => hpc'[g] = "new"
                                /\ hpc'[g] \in {"check", "insert"} => hpc[g] = hpc'[g]
        BY <1>3, <2>2 DEF HandlerTypes, Deadlock
      <3> QED BY <1>3, <2>2, <3>1, <3>2, TypeRollback DEF Deadlock
    <2> QED BY <1>3, <2>1, <2>2 DEF Deadlock
  <1> QED BY <1>1, <1>2, <1>3

-----------------------------------------------------------------------------
(* Types                                                                   *)

LEMMA TypeStep == TypeOK /\ [Next]_vars => TypeOK'
  <1> SUFFICES ASSUME TypeOK, [Next]_vars PROVE TypeOK'
    OBVIOUS
  <1>1. CASE UNCHANGED vars
    BY <1>1, Frames, OwnedFrame DEF vars, TypeOK, rows, job, handler
  <1>2. ASSUME NEW h \in Handlers, BotStep(h) \/ TxFails(h) PROVE TypeOK'
    BY <1>2, TypeBot
  <1>3. ASSUME NEW h \in Handlers, NEW u \in Users, Begin(h, u) PROVE TypeOK'
    BY <1>3, TypeBegin
  <1>4. CASE \/ \E f \in Followups : FallsDue(f)
             \/ \E u \in Users : GapPasses(u) \/ DayPasses(u)
                                 \/ \E t \in Types : WindowPasses(u, t)
    BY <1>4, TypeTime
  <1>5. CASE JobStep
    BY <1>5, TypeStart, TypeCheck, TypeSend, TypeRecord, TypeEnd DEF JobStep
  <1>6. CASE Defer \/ JobCrash \/ \E h \in Handlers : Deadlock(h)
    BY <1>6, TypeStart, TypeEnd
  <1> QED BY <1>1, <1>2, <1>3, <1>4, <1>5, <1>6 DEF Next

\* Every variable keeps its type, and rows, batch and handlers stay related, in
\* every interleaving of events, batches, faults and time.
THEOREM FollowupTypes == Spec => []TypeOK
  <1> QED BY TypeInit, TypeStep, PTL DEF Spec

-----------------------------------------------------------------------------
(* The lifetime cap                                                        *)

\* A message of the user that is sent and not yet counted.
Uncounted(u) == IF jpc \in {"record", "bump"} /\ owner[cur] = u THEN 1 ELSE 0

\* The counter accounts for every message that was not lost or taken for failed. It is below the
\* cap whenever a message may still go out.
CapInv ==
    \A u \in Users :
        /\ messages[u] = lost[u] + inTx[u] + count[u]
        /\ inTx[u] = bump[u] + Uncounted(u)
        /\ jpc = "idle" => bump[u] = 0
        /\ count[u] + bump[u] <= MaxTotal
        /\ jpc \in {"send", "record", "bump"} /\ owner[cur] = u => count[u] + bump[u] < MaxTotal

LEMMA CapFrame ==
  ASSUME TypeOK, CapInv, UNCHANGED <<messages, lost, inTx, count, bump, jpc, cur>>,
         \A f \in Followups : status[f] # "absent" => owner'[f] = owner[f]
  PROVE  CapInv'
  <1>1. jpc \in {"send", "record", "bump"} => owner'[cur] = owner[cur]
    BY DEF TypeOK, Owned
  <1> QED BY <1>1 DEF CapInv, Uncounted

\* No step of the bot or of time takes a row from its owner.
LEMMA BotKeepsOwners ==
  ASSUME TypeOK, NEW h \in Handlers, BotStep(h) \/ TxFails(h) \/ \E u \in Users : Begin(h, u)
  PROVE  /\ UNCHANGED <<messages, lost, inTx, count, bump, jpc, cur>>
         /\ \A f \in Followups : status[f] # "absent" => owner'[f] = owner[f]
  <1>1. CASE Insert(h)
    BY <1>1 DEF Insert, Commits, job, tally, TypeOK, RowTypes
  <1>2. CASE \E u \in Users : Begin(h, u)
    BY <1>2 DEF Begin, memory, rows, job, tally
  <1>3. CASE CheckPending(h) \/ Plain(h) \/ Cancel(h)
    BY <1>3 DEF CheckPending, Plain, Cancel, Commits, memory, rows, job, tally
  <1>4. CASE Create(h) \/ TxFails(h)
    BY <1>4 DEF Create, TxFails, Abandon, memory, rows, job, tally
  <1> QED BY <1>1, <1>2, <1>3, <1>4 DEF BotStep

LEMMA CapBatch ==
  ASSUME TypeOK, CapInv, JobStep \/ Defer \/ JobCrash \/ \E h \in Handlers : Deadlock(h)
  PROVE  CapInv'
  <1> USE LimitsAssumption
  <1> USE DEF Uncounted
  <1>1. CASE Defer
    BY <1>1, CapFrame DEF Defer, memory, job, tally
  <1>2. CASE StartBatch
    BY <1>2 DEF StartBatch, CapInv, memory, rows, tally
  <1>3. ASSUME NEW f \in Followups, Check(f) \/ CheckRedisDown(f) PROVE CapInv'
    <2>1. owner[f] \in Users
      BY <1>3 DEF Check, CheckRedisDown, TypeOK, Owned
    <2>2. jpc' = "send" => count[owner[f]] + bump[owner[f]] < MaxTotal
      BY <1>3 DEF Check, CheckRedisDown, ShouldSend
    <2>3. /\ jpc = "pick" /\ jpc' \in {"pick", "send"} /\ cur' = f
          /\ UNCHANGED <<messages, lost, inTx, count, bump, owner>>
      BY <1>3 DEF Check, CheckRedisDown, Writes, memory, rows, tally
    <2> QED BY <2>1, <2>2, <2>3 DEF CapInv
  <1>4. CASE Sends
    <2>1. cur \in Followups /\ owner[cur] \in Users
      BY <1>4, CurrentOwned DEF Sends, SendOk, SendTimeout, SendForbidden, SendError, SendRetryAfter
    <2>2. CASE SendOk
      <3>1. /\ jpc = "send" /\ jpc' = "record"
            /\ messages' = [messages EXCEPT ![owner[cur]] = @ + 1]
            /\ inTx' = [inTx EXCEPT ![owner[cur]] = @ + 1]
            /\ UNCHANGED <<lost, count, bump, owner, cur>>
        BY <2>2 DEF SendOk, Delivered, memory, rows
      <3> QED BY <2>1, <3>1 DEF CapInv, TypeOK, TallyTypes, MemoryTypes, JobTypes
    <2>4. CASE SendTimeout
      <3>1. /\ jpc = "send" /\ jpc' = "pick"
            /\ messages' = [messages EXCEPT ![owner[cur]] = @ + 1]
            /\ lost' = [lost EXCEPT ![owner[cur]] = @ + 1]
            /\ UNCHANGED <<inTx, count, bump, owner, cur>>
        BY <2>4 DEF SendTimeout, Delivered, NextRow, memory, rows
      <3> QED BY <2>1, <3>1 DEF CapInv, TypeOK, TallyTypes, MemoryTypes, JobTypes
    <2>3. CASE SendForbidden \/ SendError \/ SendRetryAfter
      <3>1. /\ jpc = "send" /\ jpc' \in {"block", "pick"}
            /\ UNCHANGED <<messages, lost, inTx, count, bump, owner, cur>>
        BY <2>3 DEF SendForbidden, SendError, SendRetryAfter, NextRow, memory, rows, tally
      <3> QED BY <3>1 DEF CapInv
    <2> QED BY <1>4, <2>2, <2>3, <2>4 DEF Sends
  <1>5. CASE Record
    <2>1. /\ jpc = "record" /\ jpc' = "bump"
          /\ UNCHANGED <<messages, lost, inTx, count, bump, owner, cur>>
      BY <1>5 DEF Record, memory, rows, tally
    <2> QED BY <2>1 DEF CapInv
  <1>6. CASE Bump
    <2>1. cur \in Followups /\ owner[cur] \in Users
      BY <1>6, CurrentOwned DEF Bump
    <2>2. /\ jpc = "bump" /\ jpc' = "post"
          /\ bump' = [bump EXCEPT ![owner[cur]] = @ + 1]
          /\ UNCHANGED <<messages, lost, inTx, count, owner, cur>>
      BY <1>6 DEF Bump, memory, rows, tally
    <2> QED BY <2>1, <2>2 DEF CapInv, TypeOK, TallyTypes, MemoryTypes, JobTypes
  <1>7. CASE Post \/ Block
    <2>1. /\ jpc \in {"post", "block"} /\ jpc' = "pick"
          /\ UNCHANGED <<messages, lost, inTx, count, bump, owner, cur>>
      BY <1>7 DEF Post, Block, NextRow, memory, rows, tally
    <2> QED BY <2>1 DEF CapInv
  <1>8. CASE Commit
    <2>1. /\ jpc = "pick" /\ jpc' = "idle"
          /\ bump' = [u \in Users |-> 0] /\ inTx' = [u \in Users |-> 0]
          /\ count' = [u \in Users |-> count[u] + bump[u]]
          /\ UNCHANGED <<messages, lost>>
      BY <1>8 DEF Commit, EndSession
    <2> QED BY <2>1 DEF CapInv, TypeOK, TallyTypes, MemoryTypes, JobTypes
  <1>9. ASSUME Rollback PROVE CapInv'
    <2>1. /\ jpc' = "idle"
          /\ bump' = [u \in Users |-> 0] /\ inTx' = [u \in Users |-> 0]
          /\ lost' = [u \in Users |-> lost[u] + inTx[u]]
          /\ UNCHANGED <<messages, count>>
      BY <1>9 DEF Rollback, EndSession, memory
    <2> QED BY <2>1 DEF CapInv, TypeOK, TallyTypes, MemoryTypes, JobTypes
  <1>10. CASE JobCrash
    BY <1>9, <1>10 DEF JobCrash
  <1>11. ASSUME NEW h \in Handlers, Deadlock(h) PROVE CapInv'
    <2>1. CASE Abandon(h)
      BY <2>1, CapFrame DEF Abandon, memory, rows, job, tally
    <2> QED BY <1>9, <1>11, <2>1 DEF Deadlock
  <1> QED BY <1>1, <1>2, <1>3, <1>4, <1>5, <1>6, <1>7, <1>8, <1>10, <1>11 DEF JobStep

LEMMA CapStep == TypeOK /\ CapInv /\ [Next]_vars => CapInv'
  <1> SUFFICES ASSUME TypeOK, CapInv, [Next]_vars PROVE CapInv'
    OBVIOUS
  <1>1. CASE UNCHANGED vars
    BY <1>1, CapFrame DEF vars, memory, rows, job, tally
  <1>2. ASSUME NEW h \in Handlers,
               BotStep(h) \/ TxFails(h) \/ \E u \in Users : Begin(h, u)
        PROVE  CapInv'
    BY <1>2, BotKeepsOwners, CapFrame
  <1>3. ASSUME NEW f \in Followups, FallsDue(f) PROVE CapInv'
    BY <1>3, CapFrame DEF FallsDue, memory, job, tally
  <1>4. ASSUME NEW u \in Users, NEW t \in Types,
               GapPasses(u) \/ DayPasses(u) \/ WindowPasses(u, t)
        PROVE  CapInv'
    BY <1>4, CapFrame DEF GapPasses, DayPasses, WindowPasses, memory, rows, job, tally
  <1>5. CASE JobStep \/ Defer \/ JobCrash \/ \E h \in Handlers : Deadlock(h)
    BY <1>5, CapBatch
  <1>6. Types # {}
    BY DEF Types
  <1> QED BY <1>1, <1>2, <1>3, <1>4, <1>5, <1>6 DEF Next

\* Whatever fails in between, a customer gets at most MaxTotal follow-ups and
\* those whose transaction was lost or whose answer came too late.
THEOREM CapHolds == Spec => []LifetimeCap
  <1>1. Init => CapInv
    BY LimitsAssumption DEF Init, CapInv, Uncounted
  <1>2. TypeOK /\ CapInv => LifetimeCap
    <2> SUFFICES ASSUME TypeOK, CapInv, NEW u \in Users PROVE messages[u] <= MaxTotal + lost[u]
      BY DEF LifetimeCap
    <2>1. /\ messages[u] \in Nat /\ lost[u] \in Nat /\ inTx[u] \in Nat
          /\ count[u] \in Nat /\ bump[u] \in Nat /\ MaxTotal \in Nat
      BY LimitsAssumption DEF TypeOK, TallyTypes, MemoryTypes, JobTypes
    <2> QED BY <2>1 DEF CapInv, Uncounted
  <1> QED BY <1>1, <1>2, TypeInit, TypeStep, CapStep, PTL DEF Spec

-----------------------------------------------------------------------------
(* One pending follow-up of a type                                         *)

\* A transaction that looks for a pending follow-up, or found none, holds the
\* memory row of its user: nobody else can insert one meanwhile.
PendingInv ==
    /\ OnePendingPerType
    /\ \A h \in Handlers : hpc[h] \in {"check", "insert"} => memLock[hUser[h]] = h
    /\ \A h \in Handlers : hpc[h] = "insert" =>
          \A f \in Followups : status[f] = "pending" /\ owner[f] = hUser[h] =>
                                 type[f] # Schedules[hKind[h]]

\* A step that schedules nothing, and after which every transaction that looks
\* for a pending follow-up did so before and has kept its row.
LEMMA PendingFrame ==
  ASSUME PendingInv, UNCHANGED <<owner, type, hKind>>,
         \A f \in Followups : status'[f] = "pending" => status[f] = "pending",
         \A h \in Handlers : hpc'[h] \in {"check", "insert"} =>
             hpc[h] = hpc'[h] /\ hUser'[h] = hUser[h] /\ memLock'[hUser[h]] = h
  PROVE  PendingInv'
  BY DEF PendingInv, OnePendingPerType

LEMMA PendingBegin ==
  ASSUME TypeOK, PendingInv, NEW h \in Handlers, NEW u \in Users, Begin(h, u)
  PROVE  PendingInv'
  <1> USE DEF TypeOK, HandlerTypes
  <1>1. OnePendingPerType'
    BY DEF Begin, PendingInv, OnePendingPerType, rows
  <1>2. \A g \in Handlers : hpc'[g] \in {"check", "insert"} => memLock'[hUser'[g]] = g
    <2> SUFFICES ASSUME NEW g \in Handlers, hpc'[g] \in {"check", "insert"}
                 PROVE  memLock'[hUser'[g]] = g
      OBVIOUS
    <2>1. CASE g = h
      <3>1. hpc'[h] = "check"
        BY <2>1 DEF Begin, Proceeds
      <3>2. hKind[h] \in DOMAIN Schedules /\ hKind[h] # "stop"
        BY <3>1 DEF Begin, Proceeds, Schedules
      <3>3. TakesRow(h, u) /\ hUser'[h] = u
        BY <3>1, <3>2 DEF Begin
      <3> QED BY <2>1, <3>3 DEF TakesRow
    <2>2. CASE g # h
      <3>1. hpc[g] = hpc'[g] /\ hUser'[g] = hUser[g]
        BY <2>2 DEF Begin, Proceeds
      <3>2. memLock[hUser[g]] = g /\ hUser[g] \in Users
        BY <3>1 DEF PendingInv, Owned
      <3> QED BY <3>1, <3>2, NoneAssumption DEF Begin, TakesRow
    <2> QED BY <2>1, <2>2
  <1>3. \A g \in Handlers : hpc'[g] = "insert" => hpc[g] = "insert" /\ g # h
    BY DEF Begin, Proceeds
  <1> QED BY <1>1, <1>2, <1>3 DEF Begin, PendingInv, rows

LEMMA PendingCreate ==
  ASSUME TypeOK, PendingInv, NEW h \in Handlers, Create(h)
  PROVE  PendingInv'
  <1> USE DEF TypeOK, HandlerTypes
  <1>1. OnePendingPerType'
    BY DEF Create, Abandon, PendingInv, OnePendingPerType, rows
  <1>2. hUser[h] \in Users
    BY DEF Create, Owned
  <1>3. CASE mem[hUser[h]] = "absent"
    <2>1. \A g \in Handlers : hpc'[g] \in {"check", "insert"} => memLock'[hUser[g]] = g
      <3>1. \A g \in Handlers \ {h} : hpc'[g] = hpc[g]
        BY <1>3 DEF Create, Proceeds
      <3>2. \A g \in Handlers \ {h} : hpc[g] \in {"check", "insert"} =>
              memLock[hUser[g]] = g /\ hUser[g] # hUser[h]
        BY NoneAssumption DEF PendingInv, Create
      <3>3. \A x \in Users \ {hUser[h]} : memLock'[x] = memLock[x]
        BY <1>3 DEF Create, TakesRow
      <3>4. memLock'[hUser[h]] = h
        BY <1>2, <1>3 DEF Create, TakesRow
      <3>5. \A g \in Handlers \ {h} : hpc[g] \in {"check", "insert"} => hUser[g] \in Users
        BY DEF Owned
      <3> QED BY <3>1, <3>2, <3>3, <3>4, <3>5
    <2>2. \A g \in Handlers : hpc'[g] = "insert" => hpc[g] = "insert"
      BY <1>3 DEF Create, Proceeds
    <2> QED BY <1>1, <1>3, <2>1, <2>2 DEF Create, PendingInv, rows
  <1>4. CASE mem[hUser[h]] # "absent"
    BY <1>4, PendingFrame DEF Create, Abandon, rows, PendingInv, Owned
  <1> QED BY <1>3, <1>4

\* A transaction of the bot that ends gives back only what it held itself.
LEMMA EndKeepsLocks ==
  ASSUME TypeOK, PendingInv, NEW h \in Handlers,
         hpc' = [hpc EXCEPT ![h] = "done"], UNCHANGED hUser,
         memLock' = [x \in Users |-> IF memLock[x] = h THEN None ELSE memLock[x]]
  PROVE  \A g \in Handlers : hpc'[g] \in {"check", "insert"} =>
             hpc[g] = hpc'[g] /\ hUser'[g] = hUser[g] /\ memLock'[hUser[g]] = g
  BY DEF TypeOK, HandlerTypes, Owned, PendingInv

LEMMA PendingBot ==
  ASSUME TypeOK, PendingInv, NEW h \in Handlers, BotStep(h) \/ TxFails(h)
  PROVE  PendingInv'
  <1>1. CASE Create(h)
    BY <1>1, PendingCreate
  <1>2. CASE CheckPending(h)
    <2>1. /\ \A g \in Handlers : hpc'[g] \in {"check", "insert"} => hpc[g] \in {"check", "insert"}
          /\ \A g \in Handlers : hpc'[g] = "insert" => hpc[g] = "insert" \/ g = h
      BY <1>2 DEF CheckPending, TypeOK, HandlerTypes
    <2>2. hpc'[h] = "insert" =>
            ~ \E f \in Followups : /\ owner[f] = hUser[h] /\ status[f] = "pending"
                                  /\ type[f] = Schedules[hKind[h]]
      BY <1>2 DEF CheckPending, TypeOK, HandlerTypes
    <2>3. UNCHANGED <<status, owner, type, hUser, hKind, memLock>>
      BY <1>2 DEF CheckPending, rows
    <2>4. OnePendingPerType'
      BY <2>3 DEF PendingInv, OnePendingPerType
    <2>5. ASSUME NEW g \in Handlers, NEW f \in Followups, hpc'[g] = "insert"
          PROVE  status'[f] = "pending" /\ owner'[f] = hUser'[g] =>
                   type'[f] # Schedules[hKind'[g]]
      <3>1. CASE g = h
        BY <2>2, <2>3, <2>5, <3>1
      <3>2. CASE g # h
        BY <2>1, <2>3, <2>5, <3>2 DEF PendingInv
      <3> QED BY <3>1, <3>2
    <2>6. \A g \in Handlers : hpc'[g] \in {"check", "insert"} => memLock'[hUser'[g]] = g
      BY <2>1, <2>3 DEF PendingInv
    <2>7. \A g \in Handlers : hpc'[g] = "insert" =>
            \A f \in Followups : status'[f] = "pending" /\ owner'[f] = hUser'[g] =>
                                   type'[f] # Schedules[hKind'[g]]
      BY <2>5
    <2> QED BY <2>4, <2>6, <2>7 DEF PendingInv
  <1>3. CASE Plain(h)
    BY <1>3, PendingFrame, EndKeepsLocks DEF Plain, Commits, rows
  <1>4. CASE Insert(h)
    <2>1. PICK f \in Followups :
             /\ status[f] = "absent"
             /\ status' = [status EXCEPT ![f] = "pending"]
             /\ owner' = [owner EXCEPT ![f] = hUser[h]]
             /\ type' = [type EXCEPT ![f] = Schedules[hKind[h]]]
      BY <1>4 DEF Insert
    <2>2. \A g \in Followups \ {f} :
            status'[g] = status[g] /\ owner'[g] = owner[g] /\ type'[g] = type[g]
      BY <2>1 DEF TypeOK, RowTypes
    <2>3. owner'[f] = hUser[h] /\ type'[f] = Schedules[hKind[h]]
      BY <2>1 DEF TypeOK, RowTypes
    <2>4. \A g \in Followups \ {f} :
            status'[g] = "pending" /\ owner'[g] = owner'[f] => type'[g] # type'[f]
      BY <1>4, <2>2, <2>3 DEF Insert, PendingInv
    <2>5. OnePendingPerType'
      BY <2>2, <2>4 DEF PendingInv, OnePendingPerType
    <2>6. /\ UNCHANGED <<hUser, hKind>>
          /\ \A g \in Handlers : hpc'[g] \in {"check", "insert"} =>
                hpc[g] = hpc'[g] /\ g # h /\ memLock'[hUser[g]] = g
      <3>1. /\ UNCHANGED <<hUser, hKind>> /\ hpc' = [hpc EXCEPT ![h] = "done"]
            /\ memLock' = [x \in Users |-> IF memLock[x] = h THEN None ELSE memLock[x]]
        BY <1>4 DEF Insert, Commits
      <3> QED BY <3>1, EndKeepsLocks DEF TypeOK, HandlerTypes
    <2>7. \A g \in Handlers : hpc'[g] = "insert" => hUser[g] # hUser[h]
      <3>1. memLock[hUser[h]] = h
        BY <1>4 DEF Insert, PendingInv
      <3>2. \A g \in Handlers : hpc'[g] = "insert" => memLock[hUser[g]] = g /\ g # h
        BY <2>6 DEF PendingInv
      <3> QED BY <3>1, <3>2
    <2>8. ASSUME NEW g \in Handlers, NEW e \in Followups, hpc'[g] = "insert"
          PROVE  status'[e] = "pending" /\ owner'[e] = hUser'[g] =>
                   type'[e] # Schedules[hKind'[g]]
      BY <2>2, <2>3, <2>6, <2>7, <2>8 DEF PendingInv
    <2>9. \A g \in Handlers : hpc'[g] \in {"check", "insert"} => memLock'[hUser'[g]] = g
      BY <2>6
    <2>10. \A g \in Handlers : hpc'[g] = "insert" =>
             \A e \in Followups : status'[e] = "pending" /\ owner'[e] = hUser'[g] =>
                                    type'[e] # Schedules[hKind'[g]]
      BY <2>8
    <2> QED BY <2>5, <2>9, <2>10 DEF PendingInv
  <1>5. CASE Cancel(h)
    <2>1. \A f \in Followups : status'[f] = "pending" => status[f] = "pending"
      BY <1>5 DEF Cancel
    <2> QED BY <1>5, <2>1, PendingFrame, EndKeepsLocks DEF Cancel, Commits
  <1>6. CASE TxFails(h)
    BY <1>6, PendingFrame, EndKeepsLocks DEF TxFails, Abandon, rows
  <1> QED BY <1>1, <1>2, <1>3, <1>4, <1>5, <1>6 DEF BotStep

\* The batch takes and frees rows that no transaction of the bot holds.
LEMMA BatchKeepsLocks ==
  ASSUME TypeOK, PendingInv, UNCHANGED <<hpc, hUser>>,
         \A u \in Users : memLock[u] \in Handlers => memLock'[u] = memLock[u]
  PROVE  \A g \in Handlers : hpc'[g] \in {"check", "insert"} =>
             hpc[g] = hpc'[g] /\ hUser'[g] = hUser[g] /\ memLock'[hUser[g]] = g
  BY DEF TypeOK, HandlerTypes, Owned, PendingInv

LEMMA PendingBatch ==
  ASSUME TypeOK, PendingInv, JobStep \/ Defer \/ JobCrash \/ \E h \in Handlers : Deadlock(h)
  PROVE  PendingInv'
  <1>1. ASSUME UNCHANGED <<status, owner, type, handler, memLock>> PROVE PendingInv'
    BY <1>1, PendingFrame, BatchKeepsLocks DEF handler
  <1>2. CASE Defer \/ StartBatch \/ Record \/ Post
    BY <1>1, <1>2 DEF Defer, StartBatch, Record, Post, rows
  <1>9. CASE Sends
    BY <1>1, <1>9 DEF Sends, SendOk, SendTimeout, SendForbidden, SendError, SendRetryAfter, rows
  <1>3. ASSUME NEW f \in Followups, Check(f) \/ CheckRedisDown(f) PROVE PendingInv'
    BY <1>1, <1>3 DEF Check, CheckRedisDown, rows
  <1>4. CASE Bump \/ Block
    <2>1. UNCHANGED <<rows, handler>> /\ TakesMemory(owner[cur])
      BY <1>4 DEF Bump, Block
    <2>2. \A u \in Users : memLock[u] \in Handlers => memLock'[u] = memLock[u]
      BY <2>1, NoneAssumption, JobAssumption DEF TakesMemory, TypeOK
    <2> QED BY <2>1, <2>2, PendingFrame, BatchKeepsLocks DEF rows, handler
  <1>5. ASSUME EndSession
        PROVE  \A u \in Users : memLock[u] \in Handlers => memLock'[u] = memLock[u]
    BY <1>5, JobAssumption DEF EndSession
  <1>6. CASE Commit
    <2>1. \A f \in Followups : status'[f] = "pending" => status[f] = "pending"
      BY <1>6 DEF Commit, TypeOK, JobTypes
    <2> QED BY <1>5, <1>6, <2>1, PendingFrame, BatchKeepsLocks DEF Commit, handler
  <1>7. CASE JobCrash
    BY <1>5, <1>7, PendingFrame, BatchKeepsLocks DEF JobCrash, Rollback, handler, rows
  <1>8. ASSUME NEW h \in Handlers, Deadlock(h) PROVE PendingInv'
    <2>1. CASE Abandon(h)
      BY <2>1, PendingFrame, EndKeepsLocks DEF Abandon, rows
    <2>2. CASE Rollback /\ hpc' = [hpc EXCEPT ![h] = "granted"] /\ UNCHANGED <<hUser, hKind, began>>
      <3>1. \A g \in Handlers : hpc'[g] \in {"check", "insert"} =>
              hpc[g] = hpc'[g] /\ hUser'[g] = hUser[g] /\ memLock'[hUser[g]] = g
        <4>1. \A g \in Handlers : hpc'[g] \in {"check", "insert"} => hpc[g] = hpc'[g]
          BY <2>2 DEF TypeOK, HandlerTypes
        <4>2. \A g \in Handlers : hpc[g] \in {"check", "insert"} =>
                memLock[hUser[g]] = g /\ hUser[g] \in Users
          BY DEF PendingInv, TypeOK, Owned
        <4> QED BY <1>5, <2>2, <4>1, <4>2 DEF Rollback
      <3> QED BY <2>2, <3>1, PendingFrame DEF Rollback, rows
    <2> QED BY <1>8, <2>1, <2>2 DEF Deadlock
  <1> QED BY <1>2, <1>3, <1>4, <1>6, <1>7, <1>8, <1>9 DEF JobStep

LEMMA PendingStep == TypeOK /\ PendingInv /\ [Next]_vars => PendingInv'
  <1> SUFFICES ASSUME TypeOK, PendingInv, [Next]_vars PROVE PendingInv'
    OBVIOUS
  <1>1. ASSUME UNCHANGED <<status, owner, type, handler, memLock>> PROVE PendingInv'
    BY <1>1, PendingFrame, BatchKeepsLocks DEF handler
  <1>2. CASE UNCHANGED vars
    BY <1>1, <1>2 DEF vars, rows
  <1>3. ASSUME NEW h \in Handlers, BotStep(h) \/ TxFails(h) PROVE PendingInv'
    BY <1>3, PendingBot
  <1>4. ASSUME NEW h \in Handlers, NEW u \in Users, Begin(h, u) PROVE PendingInv'
    BY <1>4, PendingBegin
  <1>5. ASSUME NEW f \in Followups, FallsDue(f) PROVE PendingInv'
    BY <1>1, <1>5 DEF FallsDue
  <1>6. ASSUME NEW u \in Users, GapPasses(u) \/ DayPasses(u) \/ \E t \in Types : WindowPasses(u, t)
        PROVE  PendingInv'
    BY <1>1, <1>6 DEF GapPasses, DayPasses, WindowPasses, rows
  <1>7. CASE JobStep \/ Defer \/ JobCrash \/ \E h \in Handlers : Deadlock(h)
    BY <1>7, PendingBatch
  <1> QED BY <1>2, <1>3, <1>4, <1>5, <1>6, <1>7 DEF Next

\* However many events of a user meet, at most one follow-up of a type is
\* pending: the memory row serialises the check and the insert.
THEOREM NoDoubleSchedule == Spec => []OnePendingPerType
  <1>1. Init => PendingInv
    BY DEF Init, PendingInv, OnePendingPerType
  <1>2. PendingInv => OnePendingPerType
    BY DEF PendingInv
  <1> QED BY <1>1, <1>2, TypeInit, TypeStep, PendingStep, PTL DEF Spec
-----------------------------------------------------------------------------
(* What the other properties need of the steps beside the batch            *)

\* A transaction of the bot touches neither the batch nor what was sent, leaves
\* an opt-out alone, and changes no row that exists but to cancel it.
LEMMA BotFrame ==
  ASSUME TypeOK, NEW h \in Handlers, BotStep(h) \/ TxFails(h) \/ \E u \in Users : Begin(h, u)
  PROVE  /\ UNCHANGED <<count, recent, redis, job, tally, offences>>
         /\ \A u \in Users : mem[u] = "off" => mem'[u] = "off"
         /\ \A f \in Followups :
               /\ status[f] # "absent" => owner'[f] = owner[f] /\ type'[f] = type[f]
               /\ status[f] # "absent" => status'[f] \in {status[f], "cancelled"}
               /\ status[f] = "absent" => status'[f] \in {"absent", "pending"}
               /\ status[f] = "sent" => status'[f] = "sent"
  <1> USE DEF TypeOK, RowTypes, MemoryTypes, Statuses
  <1>1. CASE \E u \in Users : Begin(h, u)
    BY <1>1 DEF Begin, memory, rows
  <1>2. ASSUME Commits(h)
        PROVE  /\ UNCHANGED <<count, recent, redis, job, tally, offences>>
               /\ \A u \in Users : mem[u] = "off" => mem'[u] = "off"
    BY <1>2 DEF Commits
  <1>3. CASE CheckPending(h) \/ Plain(h)
    BY <1>2, <1>3 DEF CheckPending, Plain, memory, rows
  <1>4. CASE Insert(h)
    <2>1. PICK f \in Followups :
             /\ status[f] = "absent"
             /\ status' = [status EXCEPT ![f] = "pending"]
             /\ owner' = [owner EXCEPT ![f] = hUser[h]]
             /\ type' = [type EXCEPT ![f] = Schedules[hKind[h]]]
      BY <1>4 DEF Insert
    <2> QED BY <1>2, <1>4, <2>1 DEF Insert
  <1>5. CASE Cancel(h)
    BY <1>2, <1>5 DEF Cancel
  <1>6. CASE Create(h) \/ TxFails(h)
    BY <1>6 DEF Create, TxFails, Abandon, memory, rows
  <1> QED BY <1>1, <1>3, <1>4, <1>5, <1>6 DEF BotStep

\* The row a batch is at is not taken over by a new follow-up.
LEMMA CurrentKept ==
  ASSUME TypeOK, UNCHANGED <<jpc, cur>>,
         \A f \in Followups : status[f] # "absent" => owner'[f] = owner[f] /\ type'[f] = type[f]
  PROVE  jpc \in {"send", "record", "bump", "post", "block"} =>
            owner'[cur] = owner[cur] /\ type'[cur] = type[cur]
  BY DEF TypeOK, Owned

\* What ends a session without a commit.
LEMMA RollbackFrame ==
  ASSUME TypeOK, JobCrash \/ \E h \in Handlers : Deadlock(h)
  PROVE  /\ UNCHANGED <<memory, rows, redis, late, fresh, typed, quick>>
         /\ \/ Rollback
            \/ UNCHANGED <<job, tally, offBefore, excused>>
  BY DEF JobCrash, Deadlock, Rollback, Abandon, offences

-----------------------------------------------------------------------------
(* A batch and the flag                                                    *)

\* A customer who was off when the batch began still is, and neither the object
\* the session keeps nor the row it is about to send says otherwise.
QuietInv ==
    /\ DisabledStaysQuiet
    /\ \A u \in Users : <<u, "off">> \in offBefore =>
          /\ mem[u] = "off"
          /\ ~(seen.user = u /\ seen.on)
          /\ ~(jpc = "send" /\ owner[cur] = u)
    /\ jpc = "idle" => seen.user = None

LEMMA QuietFrame ==
  ASSUME TypeOK, QuietInv, UNCHANGED <<offBefore, late, seen, jpc, cur>>,
         \A u \in Users : mem[u] = "off" => mem'[u] = "off",
         \A f \in Followups : status[f] # "absent" => owner'[f] = owner[f] /\ type'[f] = type[f]
  PROVE  QuietInv'
  BY CurrentKept DEF QuietInv, DisabledStaysQuiet

LEMMA QuietCheck ==
  ASSUME TypeOK, QuietInv, NEW f \in Followups, Check(f) \/ CheckRedisDown(f)
  PROVE  QuietInv'
  <1>1. /\ seen' = [user |-> owner[f], on |-> EnabledSeen(f)]
        /\ cur' = f /\ jpc = "pick" /\ jpc' \in {"pick", "send"}
        /\ jpc' = "send" => EnabledSeen(f)
        /\ UNCHANGED <<offBefore, late, mem, owner>>
    BY DEF Check, CheckRedisDown, ShouldSend, memory, rows, offences
  <1>2. EnabledSeen(f) => <<owner[f], "off">> \notin offBefore \/ owner[f] \notin Users
    BY DEF EnabledSeen, QuietInv
  <1> QED BY <1>1, <1>2 DEF QuietInv, DisabledStaysQuiet

LEMMA QuietBatch ==
  ASSUME TypeOK, QuietInv, JobStep \/ Defer \/ JobCrash \/ \E h \in Handlers : Deadlock(h)
  PROVE  QuietInv'
  <1>1. CASE Defer
    BY <1>1, QuietFrame DEF Defer, memory, job, offences
  <1>2. CASE StartBatch
    <2>1. \A u \in Users : <<u, "off">> \in offBefore' => mem[u] = "off"
      BY <1>2 DEF StartBatch
    <2>2. jpc = "idle" /\ jpc' = "pick" /\ UNCHANGED <<mem, late, seen>>
      BY <1>2 DEF StartBatch, memory
    <2>3. seen.user \notin Users
      BY <2>2, NoneAssumption DEF QuietInv
    <2> QED BY <2>1, <2>2, <2>3 DEF QuietInv, DisabledStaysQuiet
  <1>3. ASSUME NEW f \in Followups, Check(f) \/ CheckRedisDown(f) PROVE QuietInv'
    BY <1>3, QuietCheck
  <1>4. CASE Sends
    <2>1. /\ jpc = "send" /\ jpc' \in {"record", "block", "pick"}
          /\ UNCHANGED <<mem, owner, cur, seen, offBefore>>
          /\ late' \subseteq late \union {x \in offBefore : x[1] = owner[cur]}
      BY <1>4 DEF Sends, SendOk, SendTimeout, SendForbidden, SendError, SendRetryAfter, Delivered,
                  NextRow, memory, rows, offences
    <2>2. \A u \in Users : <<u, "off">> \notin late'
      BY <2>1 DEF QuietInv, DisabledStaysQuiet
    <2> QED BY <2>1, <2>2 DEF QuietInv, DisabledStaysQuiet
  <1>5. CASE Record \/ Bump \/ Post
    <2>1. /\ jpc' \in {"bump", "post", "pick"}
          /\ UNCHANGED <<mem, owner, cur, seen, offBefore, late>>
      BY <1>5 DEF Record, Bump, Post, NextRow, memory, rows, offences
    <2> QED BY <2>1 DEF QuietInv, DisabledStaysQuiet
  <1>6. CASE Block
    <2>1. /\ jpc' = "pick" /\ ~seen'.on
          /\ UNCHANGED <<mem, owner, cur, offBefore, late>>
      BY <1>6 DEF Block, NextRow, memory, rows, offences
    <2> QED BY <2>1 DEF QuietInv, DisabledStaysQuiet
  <1>7. ASSUME EndSession, UNCHANGED late PROVE QuietInv'
    BY <1>7 DEF EndSession, QuietInv, DisabledStaysQuiet
  <1>8. CASE Commit
    BY <1>7, <1>8 DEF Commit
  <1>9. CASE JobCrash \/ \E h \in Handlers : Deadlock(h)
    BY <1>7, <1>9, RollbackFrame, QuietFrame DEF Rollback, memory, rows, job
  <1> QED BY <1>1, <1>2, <1>3, <1>4, <1>5, <1>6, <1>8, <1>9 DEF JobStep

LEMMA QuietStep == TypeOK /\ QuietInv /\ [Next]_vars => QuietInv'
  <1> SUFFICES ASSUME TypeOK, QuietInv, [Next]_vars PROVE QuietInv'
    OBVIOUS
  <1>1. CASE UNCHANGED vars
    BY <1>1, QuietFrame DEF vars, memory, rows, job, offences
  <1>2. ASSUME NEW h \in Handlers, BotStep(h) \/ TxFails(h) \/ \E u \in Users : Begin(h, u)
        PROVE  QuietInv'
    BY <1>2, BotFrame, QuietFrame DEF job, offences
  <1>3. ASSUME \/ \E f \in Followups : FallsDue(f)
               \/ \E u \in Users : GapPasses(u) \/ DayPasses(u) \/ \E t \in Types : WindowPasses(u, t)
        PROVE  UNCHANGED <<offBefore, late, seen, jpc, cur, mem, owner, type>>
    BY <1>3 DEF FallsDue, GapPasses, DayPasses, WindowPasses, memory, rows, job, offences
  <1>4. CASE JobStep \/ Defer \/ JobCrash \/ \E h \in Handlers : Deadlock(h)
    BY <1>4, QuietBatch
  <1> QED BY <1>1, <1>2, <1>3, <1>4, QuietFrame DEF Next

\* A batch that begins after the flag is off sends the customer nothing, whatever
\* rows of the customer it holds and however old its copy of the memory row is.
THEOREM DisabledIsQuiet == Spec => []DisabledStaysQuiet
  <1>1. Init => QuietInv
    BY DEF Init, QuietInv, DisabledStaysQuiet
  <1>2. QuietInv => DisabledStaysQuiet
    BY DEF QuietInv
  <1> QED BY <1>1, <1>2, TypeInit, TypeStep, QuietStep, PTL DEF Spec

-----------------------------------------------------------------------------
(* The gap                                                                 *)

\* The batch has sent the user a message and not committed it.
Uncommitted(u) ==
    /\ inTx[u] > 0
    /\ u \in ownRecent \/ (jpc \in {"record", "bump"} /\ owner[cur] = u)

\* A message of the last ten minutes is on the memory row, on the batch's copy
\* of it, about to be put there, or without a record; a row that is being sent passed the
\* check against both copies.
GapInv ==
    /\ GapHolds
    /\ \A u \in fresh : u \in recent \/ lost[u] > 0 \/ Uncommitted(u)
    /\ jpc = "send" => owner[cur] \notin recent \union ownRecent

LEMMA GapFrame ==
  ASSUME TypeOK, GapInv, UNCHANGED <<fresh, recent, ownRecent, lost, inTx, quick, jpc, cur>>,
         \A f \in Followups : status[f] # "absent" => owner'[f] = owner[f] /\ type'[f] = type[f]
  PROVE  GapInv'
  BY CurrentKept DEF GapInv, GapHolds, Uncommitted

\* Nothing is lost when a session ends without a commit but what it had sent.
LEMMA GapRollback ==
  ASSUME TypeOK, GapInv, Rollback
  PROVE  GapInv'
  <1>1. /\ jpc' = "idle" /\ lost' = [u \in Users |-> lost[u] + inTx[u]]
        /\ UNCHANGED <<fresh, recent, quick>>
    BY DEF Rollback, EndSession, memory
  <1>2. \A u \in Users : /\ lost'[u] = lost[u] + inTx[u]
                         /\ lost[u] \in Nat /\ inTx[u] \in Nat
    BY <1>1 DEF TypeOK, TallyTypes
  <1>3. \A u \in Users : lost[u] > 0 \/ inTx[u] > 0 => lost'[u] > 0
    BY <1>2
  <1>4. GapHolds'
    BY <1>1, <1>3 DEF GapInv, GapHolds
  <1>5. \A u \in fresh : u \in recent \/ lost'[u] > 0
    BY <1>3 DEF GapInv, Uncommitted, TypeOK, OffenceTypes
  <1> QED BY <1>1, <1>4, <1>5 DEF GapInv

LEMMA GapSend ==
  ASSUME TypeOK, GapInv, Sends
  PROVE  GapInv'
  <1>1. cur \in Followups /\ owner[cur] \in Users
    BY CurrentOwned DEF Sends, SendOk, SendTimeout, SendForbidden, SendError, SendRetryAfter
  <1>2. CASE SendOk
    <2>1. /\ jpc = "send" /\ jpc' = "record"
          /\ inTx' = [inTx EXCEPT ![owner[cur]] = @ + 1]
          /\ quick' = (quick \/ owner[cur] \in fresh) /\ fresh' = fresh \union {owner[cur]}
          /\ UNCHANGED <<recent, ownRecent, lost, owner, cur>>
      BY <1>2 DEF SendOk, Delivered, memory, rows
    <2>2. \A u \in Users : /\ inTx[u] \in Nat /\ inTx'[u] >= inTx[u]
                           /\ u = owner[cur] => inTx'[u] > 0
      BY <1>1, <2>1 DEF TypeOK, TallyTypes
    <2>3. owner[cur] \in fresh => lost[owner[cur]] > 0
      BY <2>1 DEF GapInv, Uncommitted
    <2>4. ASSUME quick' PROVE \E u \in Users : lost'[u] > 0
      <3>1. CASE quick
        BY <2>1, <3>1 DEF GapInv, GapHolds
      <3>2. CASE owner[cur] \in fresh
        BY <1>1, <2>1, <2>3, <3>2
      <3> QED BY <2>1, <2>4, <3>1, <3>2
    <2>5. \A u \in Users : Uncommitted(u) => Uncommitted(u)'
      BY <2>1, <2>2 DEF Uncommitted, TypeOK, TallyTypes
    <2>6. ASSUME NEW u \in Users, u = owner[cur] PROVE Uncommitted(u)'
      BY <2>1, <2>2, <2>6 DEF Uncommitted
    <2>7. \A u \in fresh' : u \in recent' \/ lost'[u] > 0 \/ Uncommitted(u)'
      <3>1. ASSUME NEW u \in fresh PROVE u \in recent' \/ lost'[u] > 0 \/ Uncommitted(u)'
        BY <2>1, <2>5, <3>1 DEF GapInv, TypeOK, OffenceTypes
      <3> QED BY <1>1, <2>1, <2>6, <3>1
    <2> QED BY <2>1, <2>4, <2>7 DEF GapInv, GapHolds
  <1>4. CASE SendTimeout
    <2>1. /\ jpc = "send" /\ jpc' = "pick" /\ fresh' = fresh \union {owner[cur]}
          /\ lost' = [lost EXCEPT ![owner[cur]] = @ + 1]
          /\ UNCHANGED <<recent, ownRecent, inTx, owner, cur>>
      BY <1>4 DEF SendTimeout, Delivered, NextRow, memory, rows
    <2>2. lost'[owner[cur]] > 0 /\ \A u \in Users : lost[u] > 0 => lost'[u] > 0
      BY <1>1, <2>1 DEF TypeOK, TallyTypes
    <2> QED BY <1>1, <2>1, <2>2 DEF GapInv, GapHolds, Uncommitted, TypeOK, OffenceTypes
  <1>3. CASE SendForbidden \/ SendError \/ SendRetryAfter
    <2>1. /\ jpc = "send" /\ jpc' \in {"block", "pick"}
          /\ UNCHANGED <<fresh, recent, ownRecent, lost, inTx, quick, owner, cur>>
      BY <1>3 DEF SendForbidden, SendError, SendRetryAfter, NextRow, memory, rows, tally, offences
    <2> QED BY <2>1 DEF GapInv, GapHolds, Uncommitted
  <1> QED BY <1>2, <1>3, <1>4 DEF Sends

LEMMA GapBatch ==
  ASSUME TypeOK, GapInv, JobStep \/ Defer \/ JobCrash \/ \E h \in Handlers : Deadlock(h)
  PROVE  GapInv'
  <1>1. CASE Defer
    BY <1>1, GapFrame DEF Defer, memory, job, tally, offences
  <1>2. CASE StartBatch \/ Post \/ Block
    <2>1. /\ jpc \in {"idle", "post", "block"} /\ jpc' = "pick"
          /\ UNCHANGED <<fresh, recent, ownRecent, lost, inTx, quick, owner, cur>>
      BY <1>2 DEF StartBatch, Post, Block, NextRow, memory, rows, tally, offences
    <2> QED BY <2>1 DEF GapInv, GapHolds, Uncommitted
  <1>3. ASSUME NEW f \in Followups, Check(f) \/ CheckRedisDown(f) PROVE GapInv'
    <2>1. /\ jpc = "pick" /\ jpc' \in {"pick", "send"} /\ cur' = f
          /\ jpc' = "send" => owner[f] \notin recent \union ownRecent
          /\ UNCHANGED <<fresh, recent, ownRecent, lost, inTx, quick, owner>>
      BY <1>3 DEF Check, CheckRedisDown, ShouldSend, memory, rows, tally, offences
    <2> QED BY <2>1 DEF GapInv, GapHolds, Uncommitted
  <1>4. CASE Sends
    BY <1>4, GapSend
  <1>5. CASE Record
    <2>1. /\ jpc = "record" /\ jpc' = "bump"
          /\ UNCHANGED <<fresh, recent, ownRecent, lost, inTx, quick, owner, cur>>
      BY <1>5 DEF Record, memory, rows, tally, offences
    <2> QED BY <2>1 DEF GapInv, GapHolds, Uncommitted
  <1>6. CASE Bump
    <2>1. /\ jpc = "bump" /\ jpc' = "post" /\ ownRecent' = ownRecent \union {owner[cur]}
          /\ UNCHANGED <<fresh, recent, lost, inTx, quick, owner, cur>>
      BY <1>6 DEF Bump, memory, rows, tally, offences
    <2> QED BY <2>1 DEF GapInv, GapHolds, Uncommitted
  <1>7. CASE Commit
    <2>1. /\ jpc = "pick" /\ jpc' = "idle" /\ recent' = recent \union ownRecent
          /\ UNCHANGED <<fresh, lost, quick>>
      BY <1>7 DEF Commit, EndSession
    <2> QED BY <2>1 DEF GapInv, GapHolds, Uncommitted
  <1>8. CASE JobCrash \/ \E h \in Handlers : Deadlock(h)
    BY <1>8, RollbackFrame, GapRollback, GapFrame DEF memory, rows, job, tally
  <1> QED BY <1>1, <1>2, <1>3, <1>4, <1>5, <1>6, <1>7, <1>8 DEF JobStep

LEMMA GapStep == TypeOK /\ GapInv /\ [Next]_vars => GapInv'
  <1> SUFFICES ASSUME TypeOK, GapInv, [Next]_vars PROVE GapInv'
    OBVIOUS
  <1>1. CASE UNCHANGED vars
    BY <1>1, GapFrame DEF vars, memory, rows, job, tally, offences
  <1>2. ASSUME NEW h \in Handlers, BotStep(h) \/ TxFails(h) \/ \E u \in Users : Begin(h, u)
        PROVE  GapInv'
    BY <1>2, BotFrame, GapFrame DEF job, tally, offences
  <1>3. ASSUME NEW f \in Followups, FallsDue(f) PROVE GapInv'
    BY <1>3, GapFrame DEF FallsDue, memory, job, tally, offences
  <1>4. ASSUME NEW u \in Users, GapPasses(u) PROVE GapInv'
    <2>1. /\ fresh' = fresh \ {u} /\ recent' = recent \ {u} /\ ownRecent' = ownRecent \ {u}
          /\ UNCHANGED <<lost, inTx, quick, jpc, cur, owner>>
      BY <1>4 DEF GapPasses, rows, tally
    <2> QED BY <2>1 DEF GapInv, GapHolds, Uncommitted
  <1>5. ASSUME NEW u \in Users, NEW t \in Types, DayPasses(u) \/ WindowPasses(u, t)
        PROVE  GapInv'
    BY <1>5, GapFrame DEF DayPasses, WindowPasses, memory, rows, job, tally, offences
  <1>6. CASE JobStep \/ Defer \/ JobCrash \/ \E h \in Handlers : Deadlock(h)
    BY <1>6, GapBatch
  <1>7. Types # {}
    BY DEF Types
  <1> QED BY <1>1, <1>2, <1>3, <1>4, <1>5, <1>6, <1>7 DEF Next

\* With Redis unavailable at any moment the memory row keeps the gap between two
\* messages: one that comes too soon follows a message without a record, lost with
\* its transaction or taken for failed.
THEOREM GapKept == Spec => []GapHolds
  <1>1. Init => GapInv
    BY DEF Init, GapInv, GapHolds
  <1>2. GapInv => GapHolds
    BY DEF GapInv
  <1> QED BY <1>1, <1>2, TypeInit, TypeStep, GapStep, PTL DEF Spec

-----------------------------------------------------------------------------
(* Repeated types                                                          *)

\* A message of the period has its key, or none that counts, or is on its way to
\* Redis; the row that is about to be sent has passed the check, or did not need to.
RepeatInv ==
    /\ typed \subseteq rDedup \union excused
                       \union (IF jpc \in {"record", "bump", "post"} THEN {Pair} ELSE {})
    /\ jpc = "send" => Pair \notin rDedup \/ Pair \in excused

\* What the property says of a step.
RepeatIsExcused == messages' # messages /\ Pair \in typed => Pair \in excused

LEMMA RepeatFrame ==
  ASSUME TypeOK, RepeatInv, UNCHANGED <<typed, rDedup, excused, jpc, cur>>,
         \A f \in Followups : status[f] # "absent" => owner'[f] = owner[f] /\ type'[f] = type[f]
  PROVE  RepeatInv'
  BY CurrentKept DEF RepeatInv, Pair

LEMMA RepeatSend ==
  ASSUME TypeOK, RepeatInv, Sends
  PROVE  RepeatInv'
  <1>1. CASE SendOk
    <2>1. /\ jpc' = "record" /\ typed' = typed \union {Pair} /\ excused' = excused \ {Pair}
          /\ jpc = "send" /\ UNCHANGED <<rDedup, owner, type, cur>>
      BY <1>1 DEF SendOk, Delivered, redis, rows
    <2> QED BY <2>1 DEF RepeatInv, Pair
  <1>2. CASE SendTimeout
    <2>1. /\ jpc' = "pick" /\ typed' = typed \union {Pair} /\ excused' = excused \union {Pair}
          /\ jpc = "send" /\ UNCHANGED rDedup
      BY <1>2 DEF SendTimeout, Delivered, NextRow, redis
    <2> QED BY <2>1 DEF RepeatInv
  <1>3. CASE SendForbidden \/ SendError \/ SendRetryAfter
    <2>1. /\ jpc = "send" /\ jpc' \in {"block", "pick"}
          /\ UNCHANGED <<typed, rDedup, excused>>
      BY <1>3 DEF SendForbidden, SendError, SendRetryAfter, NextRow, redis, offences
    <2> QED BY <2>1 DEF RepeatInv
  <1> QED BY <1>1, <1>2, <1>3 DEF Sends

LEMMA RepeatPost ==
  ASSUME TypeOK, RepeatInv, Post
  PROVE  RepeatInv'
  <1>1. /\ jpc = "post" /\ jpc' = "pick" /\ UNCHANGED typed
        /\ \/ SetDedup
           \/ UNCHANGED rDedup /\ excused' = excused \union {Pair}
    BY DEF Post, NextRow
  <1>2. /\ rDedup \ {Pair} \subseteq rDedup' /\ excused \subseteq excused'
        /\ Pair \in rDedup' \union excused'
    BY <1>1 DEF SetDedup
  <1> QED BY <1>1, <1>2 DEF RepeatInv

LEMMA RepeatBatch ==
  ASSUME TypeOK, RepeatInv, JobStep \/ Defer \/ JobCrash \/ \E h \in Handlers : Deadlock(h)
  PROVE  RepeatInv'
  <1>1. CASE Defer
    BY <1>1, RepeatFrame DEF Defer, redis, job, offences
  <1>2. CASE StartBatch \/ Block \/ Commit
    <2>1. /\ jpc \in {"idle", "block", "pick"} /\ jpc' \in {"pick", "idle"}
          /\ UNCHANGED <<typed, rDedup, excused>>
      BY <1>2 DEF StartBatch, Block, NextRow, Commit, EndSession, redis, offences
    <2> QED BY <2>1 DEF RepeatInv
  <1>3. ASSUME NEW f \in Followups, Check(f) \/ CheckRedisDown(f) PROVE RepeatInv'
    <2>1. /\ jpc = "pick" /\ jpc' \in {"pick", "send"} /\ Pair' = <<owner[f], type[f]>>
          /\ UNCHANGED <<typed, rDedup>> /\ excused \subseteq excused'
          /\ jpc' = "send" => \/ <<owner[f], type[f]>> \notin rDedup
                              \/ <<owner[f], type[f]>> \in excused'
      BY <1>3 DEF Check, CheckRedisDown, RedisAllows, Pair, redis, rows, offences
    <2> QED BY <2>1 DEF RepeatInv
  <1>4. CASE Sends
    BY <1>4, RepeatSend
  <1>5. CASE Record \/ Bump
    <2>1. /\ \/ jpc = "record" /\ jpc' = "bump"
             \/ jpc = "bump" /\ jpc' = "post"
          /\ UNCHANGED <<typed, rDedup, excused, owner, type, cur>>
      BY <1>5 DEF Record, Bump, redis, rows, offences
    <2> QED BY <2>1 DEF RepeatInv, Pair
  <1>6. CASE Post
    BY <1>6, RepeatPost
  <1>7. CASE Rollback
    <2>1. /\ jpc' = "idle" /\ UNCHANGED <<typed, rDedup>>
          /\ excused' = IF jpc \in {"record", "bump", "post"} THEN excused \union {Pair}
                        ELSE excused
      BY <1>7 DEF Rollback, EndSession, redis
    <2> QED BY <2>1 DEF RepeatInv
  <1>8. CASE JobCrash \/ \E h \in Handlers : Deadlock(h)
    BY <1>7, <1>8, RollbackFrame, RepeatFrame DEF redis, job, rows
  <1> QED BY <1>1, <1>2, <1>3, <1>4, <1>5, <1>6, <1>8 DEF JobStep

LEMMA RepeatStep == TypeOK /\ RepeatInv /\ [Next]_vars => RepeatInv'
  <1> SUFFICES ASSUME TypeOK, RepeatInv, [Next]_vars PROVE RepeatInv'
    OBVIOUS
  <1>1. CASE UNCHANGED vars
    BY <1>1, RepeatFrame DEF vars, redis, rows, job, offences
  <1>2. ASSUME NEW h \in Handlers, BotStep(h) \/ TxFails(h) \/ \E u \in Users : Begin(h, u)
        PROVE  RepeatInv'
    BY <1>2, BotFrame, RepeatFrame DEF redis, job, offences
  <1>3. ASSUME NEW f \in Followups, FallsDue(f) PROVE RepeatInv'
    BY <1>3, RepeatFrame DEF FallsDue, redis, job, offences
  <1>4. ASSUME NEW u \in Users, GapPasses(u) \/ DayPasses(u) PROVE RepeatInv'
    BY <1>4, RepeatFrame DEF GapPasses, DayPasses, redis, rows, job, offences
  <1>5. ASSUME NEW u \in Users, NEW t \in Types, WindowPasses(u, t) PROVE RepeatInv'
    <2>1. /\ typed' = typed \ {<<u, t>>} /\ rDedup' = rDedup \ {<<u, t>>}
          /\ excused' = excused \ {<<u, t>>} /\ Pair' = Pair /\ UNCHANGED jpc
      BY <1>5 DEF WindowPasses, Pair, rows, job
    <2> QED BY <2>1 DEF RepeatInv
  <1>6. CASE JobStep \/ Defer \/ JobCrash \/ \E h \in Handlers : Deadlock(h)
    BY <1>6, RepeatBatch
  <1> QED BY <1>1, <1>2, <1>3, <1>4, <1>5, <1>6 DEF Next

\* Only a row that has passed both checks is sent.
LEMMA OnlySendsTell ==
  ASSUME TypeOK, [Next]_vars, messages' # messages
  PROVE  jpc = "send"
  <1>1. CASE UNCHANGED vars
    BY <1>1 DEF vars, tally
  <1>2. ASSUME NEW h \in Handlers, BotStep(h) \/ TxFails(h) \/ \E u \in Users : Begin(h, u)
        PROVE  jpc = "send"
    BY <1>2, BotFrame DEF tally
  <1>3. CASE \/ \E f \in Followups : FallsDue(f)
             \/ \E u \in Users : GapPasses(u) \/ DayPasses(u) \/ \E t \in Types : WindowPasses(u, t)
    BY <1>3 DEF FallsDue, GapPasses, DayPasses, WindowPasses, tally
  <1>4. CASE Defer \/ JobCrash \/ \E h \in Handlers : Deadlock(h)
    BY <1>4, RollbackFrame DEF Defer, Rollback, tally
  <1>5. CASE JobStep
    BY <1>5 DEF JobStep, StartBatch, Check, CheckRedisDown, Sends, SendOk, SendTimeout,
                SendForbidden, SendError, SendRetryAfter, Record, Bump, Post, Block, Commit, tally
  <1> QED BY <1>1, <1>2, <1>3, <1>4, <1>5 DEF Next

\* A customer gets a second message of a type within its period only where the
\* key of that type was lost or never written, or was there and not read: no other
\* fault, and no crossing of batches, handlers and time, repeats one.
THEOREM RepeatsNeedLoss == Spec => NoRepeatWithoutLoss
  <1>1. Init => RepeatInv
    BY DEF Init, RepeatInv
  <1>2. TypeOK /\ RepeatInv /\ [Next]_vars => [RepeatIsExcused]_vars
    BY OnlySendsTell DEF RepeatInv, RepeatIsExcused
  <1> QED BY <1>1, <1>2, TypeInit, TypeStep, RepeatStep, PTL
          DEF Spec, NoRepeatWithoutLoss, RepeatIsExcused

-----------------------------------------------------------------------------
(* The counter and the rows                                                *)

OwnSent(u) == {f \in Followups : owner[f] = u /\ own[f] = "sent"}
SentRows(u) == {f \in Followups : owner[f] = u /\ status[f] = "sent"}

\* The row is marked sent in the session and the counter not yet incremented.
Marked(u) == IF jpc = "bump" /\ owner[cur] = u THEN 1 ELSE 0

\* The rows of a batch are written once each, and none of them was sent before.
BatchRows ==
    /\ \A f \in Followups : f \in batch \/ own[f] # "none" => status[f] # "sent"
    /\ \A f \in batch : own[f] = "none" \/ (f = cur /\ jpc \in {"bump", "post", "block"})
    /\ jpc \in {"send", "record"} => own[cur] = "none"
    /\ jpc \in {"send", "record", "bump", "post", "block"} => cur \in batch
    /\ jpc = "idle" => \A f \in Followups : own[f] = "none"

\* In the database and in the session: as many increments as rows marked.
CountInv ==
    /\ BatchRows
    /\ \A u \in Users : /\ count[u] = Cardinality(SentRows(u))
                        /\ bump[u] + Marked(u) = Cardinality(OwnSent(u))

LEMMA RowSets ==
  \A u : /\ IsFiniteSet(SentRows(u)) /\ Cardinality(SentRows(u)) \in Nat
         /\ IsFiniteSet(OwnSent(u)) /\ Cardinality(OwnSent(u)) \in Nat
  <1> SUFFICES ASSUME NEW u
               PROVE  /\ IsFiniteSet(SentRows(u)) /\ Cardinality(SentRows(u)) \in Nat
                      /\ IsFiniteSet(OwnSent(u)) /\ Cardinality(OwnSent(u)) \in Nat
    OBVIOUS
  <1>1. SentRows(u) \in SUBSET Followups /\ OwnSent(u) \in SUBSET Followups
    BY DEF SentRows, OwnSent
  <1>2. IsFiniteSet(SentRows(u)) /\ IsFiniteSet(OwnSent(u))
    BY <1>1, FS_Subset, FiniteAssumption
  <1> QED BY <1>2, FS_CardinalityType

\* Steps beside the batch move no row into or out of the two sets.
LEMMA CountFrame ==
  ASSUME TypeOK, CountInv, UNCHANGED <<count, bump, own, batch, jpc, cur>>,
         \A f \in Followups :
            /\ status[f] # "absent" => owner'[f] = owner[f] /\ type'[f] = type[f]
            /\ status[f] # "sent" <=> status'[f] # "sent"
  PROVE  CountInv'
  <1> USE DEF TypeOK, Owned
  <1>1. BatchRows'
    BY DEF CountInv, BatchRows
  <1>2. \A f \in Followups : own[f] # "none" \/ status[f] = "sent" => owner'[f] = owner[f]
    OBVIOUS
  <1>3. \A u \in Users : SentRows(u)' = SentRows(u) /\ OwnSent(u)' = OwnSent(u)
    BY <1>2 DEF SentRows, OwnSent
  <1>4. \A u \in Users : Marked(u)' = Marked(u)
    BY CurrentKept DEF Marked
  <1> QED BY <1>1, <1>3, <1>4 DEF CountInv

\* A step of the batch that marks no row sent.
LEMMA CountQuiet ==
  ASSUME TypeOK, CountInv, UNCHANGED <<count, bump, status, owner>>,
         BatchRows', jpc # "bump", jpc' # "bump",
         \A f \in Followups : own[f] = "sent" <=> own'[f] = "sent"
  PROVE  CountInv'
  <1>1. \A u \in Users : SentRows(u)' = SentRows(u) /\ OwnSent(u)' = OwnSent(u)
    BY DEF SentRows, OwnSent
  <1>2. \A u \in Users : Marked(u)' = Marked(u)
    BY DEF Marked
  <1> QED BY <1>1, <1>2 DEF CountInv

LEMMA CountMark ==
  ASSUME TypeOK, CountInv, Record
  PROVE  CountInv'
  <1> USE DEF TypeOK, JobTypes
  <1>1. cur \in Followups /\ owner[cur] \in Users
    BY CurrentOwned DEF Record
  <1>2. /\ jpc = "record" /\ jpc' = "bump" /\ own' = [own EXCEPT ![cur] = "sent"]
        /\ UNCHANGED <<count, bump, status, owner, batch, cur>>
    BY DEF Record, Writes, memory, rows
  <1>3. BatchRows'
    BY <1>2 DEF CountInv, BatchRows
  <1>4. own[cur] # "sent"
    BY <1>2 DEF CountInv, BatchRows
  <1>5. ASSUME NEW u \in Users
        PROVE  /\ count'[u] = Cardinality(SentRows(u)')
               /\ bump'[u] + Marked(u)' = Cardinality(OwnSent(u)')
    <2>1. SentRows(u)' = SentRows(u)
      BY <1>2 DEF SentRows
    <2>2. CASE owner[cur] = u
      <3>1. OwnSent(u)' = OwnSent(u) \union {cur} /\ cur \notin OwnSent(u)
        BY <1>1, <1>2, <1>4, <2>2 DEF OwnSent
      <3>2. Cardinality(OwnSent(u)') = Cardinality(OwnSent(u)) + 1
        BY <3>1, RowSets, FS_AddElement
      <3>3. Marked(u) = 0 /\ Marked(u)' = 1
        BY <1>2, <2>2 DEF Marked
      <3> QED BY <1>2, <2>1, <3>2, <3>3, RowSets DEF CountInv
    <2>3. CASE owner[cur] # u
      <3>1. OwnSent(u)' = OwnSent(u)
        BY <1>2, <2>3 DEF OwnSent
      <3>2. Marked(u) = 0 /\ Marked(u)' = 0
        BY <1>2, <2>3 DEF Marked
      <3> QED BY <1>2, <2>1, <3>1, <3>2 DEF CountInv
    <2> QED BY <2>2, <2>3
  <1> QED BY <1>3, <1>5 DEF CountInv

LEMMA CountBump ==
  ASSUME TypeOK, CountInv, Bump
  PROVE  CountInv'
  <1> USE DEF TypeOK, JobTypes
  <1>1. cur \in Followups /\ owner[cur] \in Users
    BY CurrentOwned DEF Bump
  <1>2. /\ jpc = "bump" /\ jpc' = "post" /\ bump' = [bump EXCEPT ![owner[cur]] = @ + 1]
        /\ UNCHANGED <<count, own, status, owner, batch, cur>>
    BY DEF Bump, memory, rows
  <1>3. BatchRows'
    BY <1>2 DEF CountInv, BatchRows
  <1>4. \A u \in Users : SentRows(u)' = SentRows(u) /\ OwnSent(u)' = OwnSent(u)
    BY <1>2 DEF SentRows, OwnSent
  <1>5. \A u \in Users : bump'[u] + Marked(u)' = bump[u] + Marked(u)
    BY <1>1, <1>2 DEF Marked
  <1> QED BY <1>2, <1>3, <1>4, <1>5 DEF CountInv

\* The commit moves the rows marked sent from the session to the table, and no
\* row of the session was in the table before.
LEMMA CountCommit ==
  ASSUME TypeOK, CountInv, Commit
  PROVE  CountInv'
  <1> USE DEF TypeOK, JobTypes, MemoryTypes
  <1>1. /\ jpc = "pick" /\ jpc' = "idle" /\ batch' = {}
        /\ own' = [f \in Followups |-> "none"] /\ bump' = [u \in Users |-> 0]
        /\ status' = [f \in Followups |-> IF own[f] = "none" THEN status[f] ELSE own[f]]
        /\ count' = [u \in Users |-> count[u] + bump[u]]
        /\ UNCHANGED owner
    BY DEF Commit, EndSession
  <1>2. BatchRows'
    BY <1>1 DEF BatchRows
  <1>3. ASSUME NEW u \in Users
        PROVE  /\ count'[u] = Cardinality(SentRows(u)')
               /\ bump'[u] + Marked(u)' = Cardinality(OwnSent(u)')
    <2>1. SentRows(u)' = SentRows(u) \union OwnSent(u)
      BY <1>1 DEF SentRows, OwnSent, CountInv, BatchRows
    <2>2. SentRows(u) \intersect OwnSent(u) = {}
      BY DEF SentRows, OwnSent, CountInv, BatchRows
    <2>3. Cardinality(SentRows(u)') = Cardinality(SentRows(u)) + Cardinality(OwnSent(u))
      <3>1. Cardinality(SentRows(u) \union OwnSent(u)) =
              Cardinality(SentRows(u)) + Cardinality(OwnSent(u)) - Cardinality({})
        BY <2>2, RowSets, FS_Union
      <3> QED BY <2>1, <3>1, RowSets, FS_EmptySet
    <2>4. bump[u] = Cardinality(OwnSent(u)) /\ count[u] = Cardinality(SentRows(u))
      BY <1>1 DEF CountInv, Marked
    <2>5. OwnSent(u)' = {} /\ Marked(u)' = 0 /\ bump'[u] = 0
      BY <1>1 DEF OwnSent, Marked
    <2> QED BY <1>1, <2>3, <2>4, <2>5, FS_EmptySet
  <1> QED BY <1>2, <1>3 DEF CountInv

LEMMA CountRollback ==
  ASSUME TypeOK, CountInv, Rollback
  PROVE  CountInv'
  <1>1. /\ jpc' = "idle" /\ batch' = {}
        /\ own' = [f \in Followups |-> "none"] /\ bump' = [u \in Users |-> 0]
        /\ UNCHANGED <<count, status, owner>>
    BY DEF Rollback, EndSession, memory, rows
  <1>2. BatchRows'
    BY <1>1 DEF BatchRows
  <1>3. \A u \in Users : SentRows(u)' = SentRows(u) /\ OwnSent(u)' = {}
    BY <1>1 DEF SentRows, OwnSent
  <1>4. \A u \in Users : Marked(u)' = 0 /\ bump'[u] = 0
    BY <1>1 DEF Marked
  <1> QED BY <1>1, <1>2, <1>3, <1>4, FS_EmptySet DEF CountInv

LEMMA CountBatch ==
  ASSUME TypeOK, CountInv, JobStep \/ Defer \/ JobCrash \/ \E h \in Handlers : Deadlock(h)
  PROVE  CountInv'
  <1> USE DEF TypeOK, JobTypes, RowTypes
  <1>1. CASE Defer
    BY <1>1, CountFrame DEF Defer, memory, job
  <1>2. CASE StartBatch
    <2>1. /\ jpc = "idle" /\ jpc' = "pick"
          /\ batch' \subseteq {f \in Followups : status[f] = "pending"}
          /\ UNCHANGED <<count, bump, own, status, owner>>
      BY <1>2 DEF StartBatch, DueBatches, DueRows, memory, rows
    <2>2. BatchRows'
      BY <2>1 DEF CountInv, BatchRows
    <2> QED BY <2>1, <2>2, CountQuiet
  <1>3. ASSUME NEW f \in Followups, Check(f) \/ CheckRedisDown(f) PROVE CountInv'
    <2>1. /\ jpc = "pick" /\ f \in batch /\ cur' = f
          /\ \/ jpc' = "send" /\ UNCHANGED <<batch, own>>
             \/ jpc' = "pick" /\ own' = [own EXCEPT ![f] = "skipped"] /\ batch' = batch \ {f}
          /\ UNCHANGED <<count, bump, status, owner>>
      BY <1>3 DEF Check, CheckRedisDown, Writes, memory, rows
    <2>2. own[f] = "none"
      BY <2>1 DEF CountInv, BatchRows
    <2>3. BatchRows'
      BY <2>1, <2>2 DEF CountInv, BatchRows
    <2> QED BY <2>1, <2>2, <2>3, CountQuiet
  <1>4. CASE Sends
    <2>1. cur \in Followups
      BY <1>4, CurrentOwned DEF Sends, SendOk, SendTimeout, SendForbidden, SendError, SendRetryAfter
    <2>2. /\ jpc = "send" /\ UNCHANGED <<count, bump, status, owner, cur>>
          /\ \/ jpc' = "record" /\ UNCHANGED <<batch, own>>
             \/ jpc' = "block" /\ own' = [own EXCEPT ![cur] = "failed"] /\ UNCHANGED batch
             \/ jpc' = "pick" /\ own' = [own EXCEPT ![cur] = "failed"] /\ batch' = batch \ {cur}
             \/ jpc' = "pick" /\ batch' = {} /\ UNCHANGED own
      BY <1>4 DEF Sends, SendOk, SendTimeout, SendForbidden, SendError, SendRetryAfter, NextRow,
                  Writes, memory, rows
    <2>3. own[cur] = "none"
      BY <2>2 DEF CountInv, BatchRows
    <2>4. BatchRows'
      BY <2>1, <2>2, <2>3 DEF CountInv, BatchRows
    <2>5. \A f \in Followups : own[f] = "sent" <=> own'[f] = "sent"
      BY <2>1, <2>2, <2>3
    <2> QED BY <2>2, <2>4, <2>5, CountQuiet
  <1>5. CASE Post \/ Block
    <2>1. /\ jpc \in {"post", "block"} /\ jpc' = "pick" /\ batch' = batch \ {cur}
          /\ UNCHANGED <<count, bump, own, status, owner>>
      BY <1>5 DEF Post, Block, NextRow, memory, rows
    <2>2. BatchRows'
      BY <2>1 DEF CountInv, BatchRows
    <2> QED BY <2>1, <2>2, CountQuiet
  <1>6. CASE JobCrash \/ \E h \in Handlers : Deadlock(h)
    BY <1>6, RollbackFrame, CountRollback, CountFrame DEF memory, rows, job
  <1> QED BY <1>1, <1>2, <1>3, <1>4, <1>5, <1>6, CountMark, CountBump, CountCommit DEF JobStep

LEMMA CountStep == TypeOK /\ CountInv /\ [Next]_vars => CountInv'
  <1> SUFFICES ASSUME TypeOK, CountInv, [Next]_vars PROVE CountInv'
    OBVIOUS
  <1>1. CASE UNCHANGED vars
    BY <1>1, CountFrame DEF vars, memory, rows, job
  <1>2. ASSUME NEW h \in Handlers, BotStep(h) \/ TxFails(h) \/ \E u \in Users : Begin(h, u)
        PROVE  CountInv'
    <2>1. \A f \in Followups : status[f] # "sent" <=> status'[f] # "sent"
      BY <1>2, BotFrame
    <2> QED BY <1>2, <2>1, BotFrame, CountFrame DEF job
  <1>3. ASSUME \/ \E f \in Followups : FallsDue(f)
               \/ \E u \in Users : GapPasses(u) \/ DayPasses(u) \/ \E t \in Types : WindowPasses(u, t)
        PROVE  UNCHANGED <<count, bump, own, batch, jpc, cur, status, owner, type>>
    BY <1>3 DEF FallsDue, GapPasses, DayPasses, WindowPasses, memory, rows, job
  <1>4. CASE JobStep \/ Defer \/ JobCrash \/ \E h \in Handlers : Deadlock(h)
    BY <1>4, CountBatch
  <1> QED BY <1>1, <1>2, <1>3, <1>4, CountFrame DEF Next

\* followup_count is the number of the customer's rows marked sent, for any
\* number of rows and through every rollback: the two writes of a message stand
\* or fall together, and no row is marked twice.
THEOREM CounterIsExact == Spec => []CountMatchesRows
  <1>1. Init => CountInv
    <2> SUFFICES ASSUME Init PROVE CountInv
      OBVIOUS
    <2>1. BatchRows
      BY DEF Init, BatchRows
    <2>2. \A u \in Users : SentRows(u) = {} /\ OwnSent(u) = {} /\ Marked(u) = 0
      BY DEF Init, SentRows, OwnSent, Marked
    <2>3. \A u \in Users : count[u] = 0 /\ bump[u] = 0
      BY DEF Init
    <2> QED BY <2>1, <2>2, <2>3, FS_EmptySet DEF CountInv
  <1>2. CountInv => CountMatchesRows
    BY DEF CountInv, CountMatchesRows, SentRows
  <1> QED BY <1>1, <1>2, TypeInit, TypeStep, CountStep, PTL DEF Spec
=============================================================================
