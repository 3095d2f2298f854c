---------------------------- MODULE HandlerTasks ----------------------------
(***************************************************************************)
(* What the modules of the CRM's handlers share. aiogram runs each update as *)
(* an asyncio task of its own, the API each request and the scheduler each   *)
(* job; a task with a database session is one READ COMMITTED transaction,    *)
(* and an UPDATE makes it wait for another that has updated the same row.    *)
(***************************************************************************)
EXTENDS Naturals

CONSTANTS
    Handlers,   \* tasks
    NoOne

ASSUME NoOneAssumption == NoOne \notin Handlers

VARIABLES
    pc,         \* a task's place in its code: "idle", "done" or a step
    rowLock     \* the task whose open transaction has updated the row

TasksIdle == pc = [h \in Handlers |-> "idle"] /\ rowLock = NoOne

Active(h) == pc[h] \notin {"idle", "done"}

\* Nobody but h has begun and not ended.
Alone(h) == \A o \in Handlers \ {h} : ~Active(o)

Unlocked(h) == IF rowLock = h THEN NoOne ELSE rowLock
=============================================================================
