---------------------------- MODULE AdminRegistry ----------------------------
(***************************************************************************)
(* What the administrators' configuration promises: it holds at most one   *)
(* profile per address and a set of administrators, and it changes by one  *)
(* whole edit at a time, each valid in the state it is applied to.  The    *)
(* edits are those of AdminConfigurationManager in                         *)
(* src/admin/configuration.py.                                             *)
(***************************************************************************)
CONSTANTS
    Emails,         \* addresses, normalised
    Scopes,         \* what a profile is bounded to, the whole tenant included
    Absent,         \* no profile for the address
    Principals,     \* administrator identifiers, normalised
    Deployed,       \* profiles of the deployment: address -> scope or Absent
    DeployedAdmins, \* administrators of the deployment
    First           \* the configuration stored at the beginning

Configurations == [profile : [Emails -> Scopes \cup {Absent}], admins : SUBSET Principals]

VARIABLE config

Edits == [op : {"add"}, email : Emails, scope : Scopes]
    \cup [op : {"update"}, old : Emails, email : Emails, scope : Scopes]
    \cup [op : {"remove"}, email : Emails]
    \cup [op : {"addAdmin", "removeAdmin"}, principal : Principals]

Owned(e) == Deployed[e] # Absent

(* The checks of add_subscriber, update_subscriber, remove_subscriber,      *)
(* add_admin and remove_admin: an entry of the deployment is never shadowed *)
(* nor touched.                                                             *)
Valid(edit, c) ==
    \/ edit.op = "add" /\ ~Owned(edit.email) /\ c.profile[edit.email] = Absent
    \/ /\ edit.op = "update"
       /\ ~Owned(edit.old) /\ c.profile[edit.old] # Absent
       /\ ~Owned(edit.email)
       /\ edit.email # edit.old => c.profile[edit.email] = Absent
    \/ edit.op = "remove" /\ ~Owned(edit.email) /\ c.profile[edit.email] # Absent
    \/ edit.op = "addAdmin" /\ edit.principal \notin DeployedAdmins \cup c.admins
    \/ edit.op = "removeAdmin" /\ edit.principal \in c.admins \ DeployedAdmins

Applied(edit, c) ==
    CASE edit.op = "add" -> [c EXCEPT !.profile[edit.email] = edit.scope]
      [] edit.op = "update" ->
           [c EXCEPT !.profile = [@ EXCEPT ![edit.old] = Absent, ![edit.email] = edit.scope]]
      [] edit.op = "remove" -> [c EXCEPT !.profile[edit.email] = Absent]
      [] edit.op = "addAdmin" -> [c EXCEPT !.admins = @ \cup {edit.principal}]
      [] edit.op = "removeAdmin" -> [c EXCEPT !.admins = @ \ {edit.principal}]

Init == config = First

Next == \E edit \in Edits : Valid(edit, config) /\ config' = Applied(edit, config)

Spec == Init /\ [][Next]_config
=============================================================================
