---------------------------- MODULE AgentSettings -----------------------------
(***************************************************************************)
(* The agent's settings as administrators change them: one key at a time,    *)
(* by a rollout preset, or back to the environment. A change is a row of     *)
(* agent_runtime_settings, which outweighs the environment while it is       *)
(* active and the overlay is enabled at all. A request reads its rows one by *)
(* one and writes at its commit those columns that differ from what it has   *)
(* read. Of the thirty keys four are modelled. What is in force is what      *)
(* AgentEffectiveSettingsService resolves for a load after the commit, whose *)
(* route clears the cache; nothing in src/ calls that load yet.              *)
(***************************************************************************)
EXTENDS HandlerTasks, Sequences

CONSTANTS
    Env,           \* the environment's value of each key
    MaxRequests    \* bound: requests

Keys == {"followups", "queue", "sender", "mode"}
Values == {"on", "off", "log_only", "dry_run", "approval_required", "live"}

ASSUME SettingsAssumption == Env \in [Keys -> Values] /\ MaxRequests \in Nat

\* A preset's settings, in its order; log_only and off agree on these keys.
Off == << <<"followups", "off">>, <<"queue", "off">>, <<"sender", "off">>, <<"mode", "log_only">> >>
DryRun == << <<"mode", "dry_run">>, <<"queue", "off">>, <<"sender", "off">>, <<"followups", "off">> >>
ApprovalRequired == << <<"mode", "approval_required">>, <<"queue", "on">>, <<"sender", "off">> >>
ApprovedLiveSend == << <<"mode", "approval_required">>, <<"queue", "on">>, <<"sender", "on">> >>

VARIABLES
    settingRows,    \* a key's row: its value and is_active, or NoRow
    allowLive,      \* agent_settings_allow_live_flags
    runtimeEnabled, \* agent_runtime_settings_enabled: rows outweigh the environment
    request,        \* what a task has been asked for
    loaded,         \* the rows it has read, in the order of its settings
    requests,       \* requests so far
    disturbed       \* history: another request was in work at the same time

settingVars == <<settingRows, allowLive, runtimeEnabled, request, loaded, requests, disturbed, pc, rowLock>>

NoRow == [value |-> "none", active |-> FALSE]
NoRequest == [op |-> "none", settings |-> <<>>]

SettingTypeOK ==
    /\ settingRows \in [Keys -> [value : Values, active : BOOLEAN] \union {NoRow}]
    /\ allowLive \in BOOLEAN /\ runtimeEnabled \in BOOLEAN
    /\ requests \in Nat /\ disturbed \subseteq Handlers
    /\ \A h \in Handlers : /\ request[h].op \in {"none", "apply", "rollback", "preset"}
                           /\ Len(loaded[h]) <= Len(request[h].settings)
    /\ pc \in [Handlers -> {"idle", "load"}] /\ rowLock = NoOne

SettingInit ==
    /\ TasksIdle
    /\ settingRows = [k \in Keys |-> NoRow]
    /\ allowLive \in BOOLEAN /\ runtimeEnabled \in BOOLEAN
    /\ request = [h \in Handlers |-> NoRequest] /\ loaded = [h \in Handlers |-> <<>>]
    /\ requests = 0 /\ disturbed = {}

-----------------------------------------------------------------------------
\* validate_change against the environment: the sender needs the queue there,
\* a live mode the flag, and the canaries a list that it is never given.
Valid(k, v) ==
    /\ k = "sender" /\ v = "on" => allowLive /\ Env["queue"] = "on"
    /\ k = "mode" /\ v = "live" => allowLive

Changes == {r \in [op : {"apply"}, settings : {<< <<k, v>> >> : k \in Keys, v \in Values}] :
                LET k == r.settings[1][1] v == r.settings[1][2] IN
                (v \in {"on", "off"} <=> k # "mode") /\ Valid(k, v)}
Rollbacks == [op : {"rollback"}, settings : {<< <<k, "off">> >> : k \in Keys}]
Presets == [op : {"preset"}, settings : {Off, DryRun, ApprovalRequired}
                                        \union (IF allowLive THEN {ApprovedLiveSend} ELSE {})]

SubmitRequest(h) ==
    /\ ~Active(h) /\ requests < MaxRequests /\ requests' = requests + 1
    /\ \E r \in Changes \union Rollbacks \union Presets : request' = [request EXCEPT ![h] = r]
    /\ pc' = [pc EXCEPT ![h] = "load"]
    /\ disturbed' = IF Alone(h) THEN disturbed \ {h}
                    ELSE disturbed \union {h} \union {g \in Handlers : Active(g)}
    /\ UNCHANGED <<settingRows, allowLive, runtimeEnabled, loaded, rowLock>>

\* The setting whose row is read next.
Key(h, i) == request[h].settings[i][1]
LoadSetting(h) ==
    /\ pc[h] = "load" /\ Len(loaded[h]) < Len(request[h].settings)
    /\ loaded' = [loaded EXCEPT ![h] = Append(@, settingRows[Key(h, Len(@) + 1)])]
    /\ UNCHANGED <<settingRows, allowLive, runtimeEnabled, request, requests, disturbed, pc, rowLock>>

\* What the commit leaves of a row: an apply does not look at is_active, and
\* what is as it was read is not written.
WrittenInactive(op, row, read, v) ==
    IF read = NoRow THEN [value |-> v, active |-> TRUE]
    ELSE CASE op = "rollback" -> [row EXCEPT !.active = IF read.active THEN FALSE ELSE @]
           [] OTHER -> [row EXCEPT !.value = IF read.value = v THEN @ ELSE v]

Written(op, row, read, v) ==
    IF read = NoRow THEN [value |-> v, active |-> TRUE]
    ELSE CASE op = "rollback" -> [row EXCEPT !.active = IF read.active THEN FALSE ELSE @]
           [] op = "apply"    -> [row EXCEPT !.value = IF read.value = v THEN @ ELSE v]
           [] op = "preset"   -> [value |-> IF read.value = v THEN row.value ELSE v,
                                  active |-> IF read.active THEN row.active ELSE TRUE]

RequestEnds(h) ==
    /\ pc' = [pc EXCEPT ![h] = "idle"] /\ request' = [request EXCEPT ![h] = NoRequest]
    /\ loaded' = [loaded EXCEPT ![h] = <<>>] /\ disturbed' = disturbed \ {h}
    /\ UNCHANGED <<allowLive, runtimeEnabled, requests, rowLock>>

\* The commit, unless a row to be inserted is there by now, or none to roll back.
CommitSettings(h) ==
    LET settings == request[h].settings
        Index(k) == CHOOSE i \in DOMAIN settings : settings[i][1] = k
    IN
    /\ pc[h] = "load" /\ Len(loaded[h]) = Len(settings)
    /\ \A i \in DOMAIN settings :
          loaded[h][i] = NoRow => settingRows[Key(h, i)] = NoRow /\ request[h].op # "rollback"
    /\ settingRows' = [k \in Keys |->
          IF \A i \in DOMAIN settings : settings[i][1] # k THEN settingRows[k]
          ELSE Written(request[h].op, settingRows[k], loaded[h][Index(k)], settings[Index(k)][2])]
    /\ RequestEnds(h)

\* An error: not found, a row that another has inserted, a lost connection.
RequestFails(h) == Active(h) /\ RequestEnds(h) /\ UNCHANGED settingRows

-----------------------------------------------------------------------------
SettingNext ==
    \E h \in Handlers :
       SubmitRequest(h) \/ LoadSetting(h) \/ CommitSettings(h) \/ RequestFails(h)

SettingSpec == SettingInit /\ [][SettingNext]_settingVars

-----------------------------------------------------------------------------
(* Properties                                                              *)

\* load_runtime_overrides_from_db and _resolve: the override where the overlay
\* is enabled, and else the environment.
Effective(rows, k) == IF runtimeEnabled /\ rows[k].active THEN rows[k].value ELSE Env[k]

\* A preset that is answered "applied" and had the table to itself is in force if
\* the overlay is enabled: each of its keys has the preset's value, whatever has
\* been applied, rolled back and mixed up by requests at once before. ("off" is
\* the emergency rollback of the rollout cards.) Where it is not, and it is not
\* by default, the answer is the same and the environment stays in force.
PresetInForce ==
    [][\A h \in Handlers :
          CommitSettings(h) /\ request[h].op = "preset" /\ h \notin disturbed =>
             \A i \in DOMAIN request[h].settings :
                Effective(settingRows', Key(h, i)) =
                   IF runtimeEnabled THEN request[h].settings[i][2] ELSE Env[Key(h, i)]]_settingVars
=============================================================================
