--------------------------- MODULE MCLeadReminders ---------------------------
(* Small instances of LeadReminders for TLC. *)
EXTENDS LeadReminders

Row(next, count, age) == [status |-> "open", next |-> next, count |-> count, age |-> age]

\* Inactive for three days, one reminder before the cap, the next one due now
\* or later.
StartLeads == [Leads -> {Row("now", 1, 2)}] \union [Leads -> {Row("later", 1, 2)}]
==============================================================================
