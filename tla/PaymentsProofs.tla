---------------------------- MODULE PaymentsProofs ----------------------------
(***************************************************************************)
(* For any number of payments, proofs, presses and restarts: the types, one *)
(* decision per payment that agrees with its audit entry, and the contract. *)
(*                                                                         *)
(* Argument. A press between its SELECT ... FOR UPDATE and its commit holds *)
(* its row, and the row is open: so two such presses never share a row, and *)
(* a row is decided once. The press that decided it is the only one that    *)
(* may talk to the client, and has not done so yet.                         *)
(***************************************************************************)
EXTENDS Payments, TLAPS

\* A task that works on a row has one.
RowsKnown ==
    /\ \A m \in Proofs : proofPc[m] = "notify" => proofRow[m] \in Payments
    /\ \A k \in Clicks : clickPc[k] \in {"lock", "commit", "tell", "edit"}
                             => clickRow[k] \in Payments

\* Who is about to commit holds the row, and the row is open.
CommitterHoldsRow ==
    \A k \in Clicks : clickPc[k] = "commit" =>
        lockedBy[clickRow[k]] = k /\ status[clickRow[k]] = "pending"

\* Who is about to tell the client decided the row.
TellerDecided ==
    \A k \in Clicks : clickPc[k] = "tell" =>
        status[clickRow[k]] = clickVerdict[k] /\ notices[clickRow[k]] = <<>>

OneTeller ==
    \A j, k \in Clicks :
        clickPc[j] = "tell" /\ clickPc[k] = "tell" /\ clickRow[j] = clickRow[k] => j = k

OpenRowUntold == \A p \in Payments : status[p] \notin Verdicts => notices[p] = <<>>

Inv ==
    /\ TypeOK /\ RowsKnown
    /\ CommitterHoldsRow /\ TellerDecided /\ OneTeller /\ OpenRowUntold
    /\ AuditMatchesRow /\ PaidAtMatchesStatus

Known == TypeOK /\ RowsKnown

-----------------------------------------------------------------------------
LEMMA InitInv == Init => Inv
  BY DEF Init, Inv, TypeOK, RowsKnown, CommitterHoldsRow, TellerDecided, OneTeller,
         OpenRowUntold, AuditMatchesRow, PaidAtMatchesStatus, Statuses, Verdicts

\* Types, and rows where they are used.
LEMMA KnownStep == Known /\ [Next]_vars => Known'
<1> SUFFICES ASSUME Known, [Next]_vars PROVE Known'
  OBVIOUS
<1> USE BoundsAssumption DEF Known, TypeOK, RowsKnown, Statuses, Verdicts
<1>1. CASE StartPayment
  BY <1>1 DEF StartPayment, table, proof, click
<1>2. CASE EnterAmount
  BY <1>2 DEF EnterAmount, table, proof, click
<1>3. CASE Restart
  BY <1>3 DEF Restart, table, chat
<1>4. ASSUME NEW m \in Proofs, ProofArrives(m) PROVE Known'
  BY <1>4 DEF ProofArrives, table, chat, click
<1>5. ASSUME NEW m \in Proofs, ReadData(m) PROVE Known'
  BY <1>5 DEF ReadData, table, chat, click
<1>6. ASSUME NEW m \in Proofs, SavePayment(m) PROVE Known'
  BY <1>6 DEF SavePayment, chat, click
<1>7. ASSUME NEW m \in Proofs, ClearState(m) PROVE Known'
  BY <1>7 DEF ClearState, table, click
<1>8. ASSUME NEW m \in Proofs, NotifyAdmin(m) PROVE Known'
  BY <1>8 DEF NotifyAdmin, table, chat, click
<1>9. ASSUME NEW k \in Clicks, NEW p \in Payments, Press(k, p) PROVE Known'
  BY <1>9 DEF Press, table, chat, proof
<1>10. ASSUME NEW k \in Clicks, LockRow(k) PROVE Known'
  <2>0. clickRow[k] \in Payments
    BY <1>10 DEF LockRow
  <2>1. CASE status[clickRow[k]] = "pending"
    <3>1. lockedBy' = [lockedBy EXCEPT ![clickRow[k]] = k]
      BY <1>10, <2>1 DEF LockRow
    <3>3. lockedBy' \in [Payments -> Clicks \union {None}]
      BY <2>0, <3>1
    <3>2. /\ clickPc' = [clickPc EXCEPT ![k] = "commit"]
          /\ UNCHANGED <<table, chat, buttons, proof, clickRow, clickVerdict, notices, restarts>>
      BY <1>10, <2>1 DEF LockRow
    <3> QED
      BY <2>0, <3>3, <3>2 DEF table, chat, proof
  <2>2. CASE status[clickRow[k]] # "pending"
    BY <1>10, <2>2, ZenonT(60) DEF LockRow, table, chat, proof
  <2> QED
    BY <2>1, <2>2
<1>11. ASSUME NEW k \in Clicks, CommitDecision(k) PROVE Known'
  BY <1>11 DEF CommitDecision, chat, proof
<1>12. ASSUME NEW k \in Clicks, Rollback(k) PROVE Known'
  BY <1>12 DEF Rollback, table, chat, proof
<1>13. ASSUME NEW k \in Clicks, TellClient(k) PROVE Known'
  <2>1. clickRow[k] \in Payments /\ clickVerdict[k] \in Verdicts
    BY <1>13 DEF TellClient
  <2>2. Append(notices[clickRow[k]], clickVerdict[k]) \in Seq(Verdicts)
    BY <2>1
  <2>3. notices' \in [Payments -> Seq(Verdicts)]
    BY <1>13, <2>1, <2>2 DEF TellClient
  <2> QED
    BY <1>13, <2>3 DEF TellClient, table, chat, proof
<1>14. ASSUME NEW k \in Clicks, EditCaption(k) PROVE Known'
  BY <1>14 DEF EditCaption, table, chat, proof
<1>15. CASE UNCHANGED vars
  BY <1>15 DEF vars, table, chat, proof, click
<1> QED
  BY <1>1, <1>2, <1>3, <1>4, <1>5, <1>6, <1>7, <1>8, <1>9, <1>10, <1>11, <1>12,
     <1>13, <1>14, <1>15 DEF Next, Submission, Handling

\* A step that leaves the rows, the presses and the notices alone.
LEMMA ChatStep ==
    ASSUME Inv, Known', UNCHANGED <<table, lockedBy, click, notices>>
    PROVE  Inv'
  BY DEF Inv, Known, CommitterHoldsRow, TellerDecided, OneTeller, OpenRowUntold,
         AuditMatchesRow, PaidAtMatchesStatus, table, click

LEMMA InvStep == Inv /\ [Next]_vars => Inv'
<1> SUFFICES ASSUME Inv, [Next]_vars PROVE Inv'
  OBVIOUS
<1> USE DEF Inv, Verdicts
<1>0. Known /\ Known'
  BY KnownStep DEF Known
<1>1. CASE StartPayment \/ EnterAmount
  BY <1>0, <1>1, ChatStep DEF StartPayment, EnterAmount
<1>2. CASE Restart
  BY <1>0, <1>2 DEF Restart, Known, TypeOK, RowsKnown, CommitterHoldsRow, TellerDecided,
     OneTeller, OpenRowUntold, AuditMatchesRow, PaidAtMatchesStatus, table
<1>3. ASSUME NEW m \in Proofs,
             ProofArrives(m) \/ ReadData(m) \/ ClearState(m) \/ NotifyAdmin(m)
      PROVE Inv'
  BY <1>0, <1>3, ChatStep DEF ProofArrives, ReadData, ClearState, NotifyAdmin
<1>4. ASSUME NEW m \in Proofs, SavePayment(m) PROVE Inv'
  <2>1. CASE UNCHANGED status
    BY <1>0, <1>4, <2>1, ChatStep DEF SavePayment, table
  <2>2. ASSUME NEW p \in Payments, status[p] = "absent",
               status' = [status EXCEPT ![p] = "pending"]
        PROVE  Inv'
    <3>1. \A k \in Clicks : clickPc[k] \in {"commit", "tell"} => clickRow[k] # p
      <4>1. \A k \in Clicks : clickVerdict[k] # "absent"
        BY <1>0 DEF Known, TypeOK
      <4> QED
        BY <2>2, <4>1 DEF CommitterHoldsRow, TellerDecided
    <3> USE <1>0, <1>4, <2>2 DEF SavePayment, Known, TypeOK, RowsKnown, Statuses, chat, click
    <3>2. CommitterHoldsRow'
      BY <3>1 DEF CommitterHoldsRow
    <3>3. TellerDecided'
      BY <3>1 DEF TellerDecided
    <3>4. OneTeller' /\ OpenRowUntold'
      BY DEF OneTeller, OpenRowUntold
    <3>5. AuditMatchesRow' /\ PaidAtMatchesStatus'
      BY DEF AuditMatchesRow, PaidAtMatchesStatus
    <3> QED
      BY <3>2, <3>3, <3>4, <3>5
  <2> QED
    BY <1>4, <2>1, <2>2 DEF SavePayment
<1>5. ASSUME NEW k \in Clicks, NEW p \in Payments, Press(k, p) PROVE Inv'
  BY <1>0, <1>5 DEF Press, Known, TypeOK, RowsKnown, CommitterHoldsRow, TellerDecided,
     OneTeller, OpenRowUntold, AuditMatchesRow, PaidAtMatchesStatus, table
<1>6. ASSUME NEW k \in Clicks, LockRow(k) PROVE Inv'
  <2> USE <1>0, <1>6, NoneAssumption DEF LockRow, Known, TypeOK, RowsKnown, table
  <2>1. CommitterHoldsRow'
    BY DEF CommitterHoldsRow
  <2>2. TellerDecided' /\ OneTeller' /\ OpenRowUntold'
    BY DEF TellerDecided, OneTeller, OpenRowUntold
  <2>3. AuditMatchesRow' /\ PaidAtMatchesStatus'
    BY DEF AuditMatchesRow, PaidAtMatchesStatus
  <2> QED
    BY <2>1, <2>2, <2>3
<1>7. ASSUME NEW k \in Clicks, CommitDecision(k) PROVE Inv'
  <2> USE <1>0, <1>7, NoneAssumption DEF CommitDecision, Known, TypeOK, RowsKnown
  <2>1. clickRow[k] \in Payments /\ lockedBy[clickRow[k]] = k /\ status[clickRow[k]] = "pending"
    BY DEF CommitterHoldsRow
  <2>2. CommitterHoldsRow'
    BY <2>1 DEF CommitterHoldsRow
  <2>9. \A j \in Clicks : clickPc[j] = "tell" => clickRow[j] # clickRow[k]
    BY <2>1, ZenonT(60) DEF TellerDecided
  <2>10. notices[clickRow[k]] = <<>>
    BY <2>1 DEF OpenRowUntold
  <2>3. TellerDecided'
    BY <2>1, <2>9, <2>10 DEF TellerDecided
  <2>4. OneTeller'
    BY <2>1, <2>9 DEF OneTeller
  <2>5. OpenRowUntold'
    BY <2>1 DEF OpenRowUntold
  <2>6. audit[clickRow[k]] = <<>>
    BY <2>1 DEF AuditMatchesRow
  <2>7. AuditMatchesRow'
    BY <2>1, <2>6 DEF AuditMatchesRow
  <2>8. PaidAtMatchesStatus'
    BY <2>1, ZenonT(60) DEF PaidAtMatchesStatus
  <2> QED
    BY <2>2, <2>3, <2>4, <2>5, <2>7, <2>8
<1>8. ASSUME NEW k \in Clicks, Rollback(k) PROVE Inv'
  <2> USE <1>0, <1>8 DEF Rollback, Known, TypeOK, RowsKnown, table
  <2>1. CommitterHoldsRow'
    BY DEF CommitterHoldsRow
  <2>2. TellerDecided' /\ OneTeller' /\ OpenRowUntold'
    BY DEF TellerDecided, OneTeller, OpenRowUntold
  <2>3. AuditMatchesRow' /\ PaidAtMatchesStatus'
    BY DEF AuditMatchesRow, PaidAtMatchesStatus
  <2> QED
    BY <2>1, <2>2, <2>3
<1>9. ASSUME NEW k \in Clicks, TellClient(k) PROVE Inv'
  <2> USE <1>0, <1>9 DEF TellClient, Known, TypeOK, RowsKnown, table
  <2>1. CommitterHoldsRow'
    BY DEF CommitterHoldsRow
  <2>2. TellerDecided' /\ OneTeller' /\ OpenRowUntold'
    BY DEF TellerDecided, OneTeller, OpenRowUntold
  <2>3. AuditMatchesRow' /\ PaidAtMatchesStatus'
    BY DEF AuditMatchesRow, PaidAtMatchesStatus
  <2> QED
    BY <2>1, <2>2, <2>3
<1>10. ASSUME NEW k \in Clicks, EditCaption(k) PROVE Inv'
  BY <1>0, <1>10 DEF EditCaption, Known, TypeOK, RowsKnown, CommitterHoldsRow,
     TellerDecided, OneTeller, OpenRowUntold, AuditMatchesRow, PaidAtMatchesStatus, table
<1>11. CASE UNCHANGED vars
  BY <1>0, <1>11, ChatStep DEF vars
<1> QED
  BY <1>1, <1>2, <1>3, <1>4, <1>5, <1>6, <1>7, <1>8, <1>9, <1>10, <1>11
     DEF Next, Submission, Handling

LEMMA InvHolds == Spec => []Inv
  BY InitInv, InvStep, PTL DEF Spec

-----------------------------------------------------------------------------
\* Every variable of the payment component keeps its type.
THEOREM PaymentTypes == Spec => []TypeOK
  BY InvHolds, PTL DEF Inv

\* Approve and reject race for a payment and exactly one wins: the audit log
\* holds the decision the row shows, and no other.
THEOREM OneDecision == Spec => []AuditMatchesRow
  BY InvHolds, PTL DEF Inv

\* paid_at is set exactly on the paid rows.
THEOREM PaidAtAtomic == Spec => []PaidAtMatchesStatus
  BY InvHolds, PTL DEF Inv

\* SELECT ... FOR UPDATE keeps two presses from deciding a row together.
LEMMA LockExcludes == Inv => RowLockExclusive
  BY DEF Inv, RowLockExclusive, CommitterHoldsRow

THEOREM RowLockHeldByOne == Spec => []RowLockExclusive
  BY InvHolds, LockExcludes, PTL

-----------------------------------------------------------------------------
(* Payments implements PaymentContract.                                    *)

seen == [p \in Payments |-> IF status[p] = "absent" THEN "none" ELSE status[p]]

LEMMA ContractInit == Init => Contract!Init
  BY DEF Init, Contract!Init

LEMMA ContractStep == Inv /\ Inv' /\ [Next]_vars => [Contract!Next]_<<seen, notices>>
<1> SUFFICES ASSUME Inv, Inv', [Next]_vars
             PROVE  Contract!Next \/ UNCHANGED <<seen, notices>>
  BY DEF seen
<1> USE DEF seen, Inv
<1>1. CASE UNCHANGED <<status, notices>>
  BY <1>1
<1>2. ASSUME NEW m \in Proofs, SavePayment(m)
      PROVE  Contract!Next \/ UNCHANGED <<seen, notices>>
  <2>1. CASE UNCHANGED <<status, proofRow>>
    BY <1>2, <2>1 DEF SavePayment
  <2>2. ASSUME NEW p \in Payments, status[p] = "absent",
               status' = [status EXCEPT ![p] = "pending"], UNCHANGED notices
        PROVE  Contract!Submit(p)
    BY <2>2 DEF Contract!Submit, TypeOK
  <2> QED
    BY <1>2, <2>1, <2>2 DEF SavePayment, Contract!Next
<1>3. ASSUME NEW k \in Clicks, CommitDecision(k)
      PROVE  Contract!Next \/ UNCHANGED <<seen, notices>>
  <2>1. clickRow[k] \in Payments /\ status[clickRow[k]] = "pending"
    BY <1>3 DEF CommitDecision, RowsKnown, CommitterHoldsRow
  <2>2. clickVerdict[k] \in Verdicts /\ status \in [Payments -> Statuses]
    BY DEF TypeOK
  <2>3. Contract!Decide(clickRow[k], clickVerdict[k])
    BY <1>3, <2>1, <2>2 DEF Contract!Decide, CommitDecision, Verdicts
  <2>4. clickVerdict[k] \in Contract!Decisions
    BY <2>2 DEF Contract!Decisions, Verdicts
  <2>5. \E d \in Contract!Decisions : Contract!Decide(clickRow[k], d)
    BY <2>3, <2>4 DEF Contract!Decide
  <2> QED
    BY <2>1, <2>5 DEF Contract!Next
<1>4. ASSUME NEW k \in Clicks, TellClient(k)
      PROVE  Contract!Next \/ UNCHANGED <<seen, notices>>
  <2>1. /\ clickRow[k] \in Payments /\ status[clickRow[k]] = clickVerdict[k]
        /\ notices[clickRow[k]] = <<>> /\ clickVerdict[k] \in Verdicts
    BY <1>4 DEF TellClient, RowsKnown, TellerDecided, TypeOK
  <2>2. CASE UNCHANGED notices
    BY <1>4, <2>2 DEF TellClient, table
  <2>3. CASE notices' = [notices EXCEPT ![clickRow[k]] = Append(@, clickVerdict[k])]
    <3>1. notices' = [notices EXCEPT ![clickRow[k]] = <<clickVerdict[k]>>]
      BY <2>1, <2>3
    <3>2. Contract!Tell(clickRow[k])
      BY <1>4, <2>1, <3>1 DEF Contract!Tell, Contract!Decisions, TellClient, table, Verdicts
    <3> QED
      BY <2>1, <3>2 DEF Contract!Next
  <2> QED
    BY <1>4, <2>2, <2>3 DEF TellClient
<1> QED
  BY <1>1, <1>2, <1>3, <1>4 DEF Next, Submission, Handling, StartPayment, EnterAmount,
     Restart, ProofArrives, ReadData, ClearState, NotifyAdmin, Press, LockRow, Rollback,
     EditCaption, table, vars

\* The FSM, the row lock and the two buttons together keep the contract: a
\* payment is decided at most once, and the client hears of that decision, at
\* most once, whatever is pressed, rolled back, lost or restarted.
THEOREM PaymentsKeepContract == Spec => KeepsContract
<1>1. Init => Contract!Init
  BY ContractInit
<1>2. Inv /\ Inv' /\ [Next]_vars => [Contract!Next]_<<seen, notices>>
  BY ContractStep
<1> QED
  BY <1>1, <1>2, InvHolds, PTL DEF Spec, KeepsContract, Contract!Spec, seen
==============================================================================
