------------------------------ MODULE Terraform ------------------------------
(****************************************************************************)
(* The terraform CLI and the cloud behind it, as the workers of velzard and *)
(* zegion use them: `terraform init` followed by `terraform apply` or       *)
(* `terraform destroy`, run in a directory /tmp/<engine>_<id> that holds    *)
(* main.tf and the local state file.  Terraform is not part of this         *)
(* repository: the definitions below are what the workers rely on.          *)
(*                                                                          *)
(* A run is "attached" while the directory it was started in still exists.  *)
(* Once that directory has been removed, the run keeps an unlinked state    *)
(* file: whatever it still creates is recorded nowhere.                     *)
(****************************************************************************)
EXTENDS Naturals

CONSTANT Envs           \* the environments, each with a directory of its own

VARIABLES
    configured,         \* the environments whose directory holds main.tf
    tracked,            \* ... whose state file tracks a server that exists
    strays              \* ... with a server that no state file tracks

tfVars == <<configured, tracked, strays>>

live == tracked \cup strays

TerraformTypeOK ==
    /\ configured \subseteq Envs
    /\ tracked \subseteq Envs
    /\ strays \subseteq Envs

TerraformInit ==
    /\ configured = {}
    /\ tracked = {}
    /\ strays = {}

(****************************************************************************)
(* `terraform apply` ends.  With a server in the state file there is        *)
(* nothing to do.  A run that fails may have created the server before the  *)
(* step that failed; the state file then tracks it.                         *)
(****************************************************************************)
ApplyEnds(e, attached, ok) ==
    \E created \in IF ok THEN {TRUE} ELSE BOOLEAN :
        /\ tracked' = IF created /\ attached THEN tracked \cup {e} ELSE tracked
        /\ strays' = IF created /\ ~attached THEN strays \cup {e} ELSE strays
        /\ UNCHANGED configured

(****************************************************************************)
(* `terraform destroy` ends.  It deletes what the state file tracks; a run  *)
(* that fails may have come that far.  When the credentials lead to another *)
(* account than the one that holds the server ("mine" is false), the        *)
(* refresh finds nothing there: the server is dropped from the state file   *)
(* and the run still succeeds.  A detached run works on the state it had    *)
(* read when it started.                                                    *)
(****************************************************************************)
DestroyEnds(e, attached, mine, ok) ==
    /\ UNCHANGED configured
    /\ IF attached
       THEN \E dropped \in IF ok THEN {TRUE} ELSE BOOLEAN :
              /\ tracked' = IF dropped THEN tracked \ {e} ELSE tracked
              /\ strays' = IF dropped /\ ~mine THEN strays \cup (tracked \cap {e}) ELSE strays
       ELSE /\ strays' \in {strays, IF mine THEN strays \ {e} ELSE strays}
            /\ UNCHANGED tracked

\* An apply is killed before its state file tracks the server it created.  (A
\* destroy that is killed is one that fails.)
ApplyKilled(e, attached) ==
    /\ strays' = IF attached /\ e \in tracked THEN strays ELSE strays \cup {e}
    /\ UNCHANGED <<configured, tracked>>

\* The worker writes main.tf, or removes the directory with the state file.
WriteConfig(e) ==
    /\ configured' = configured \cup {e}
    /\ UNCHANGED <<tracked, strays>>

RemoveDirectory(e) ==
    /\ configured' = configured \ {e}
    /\ strays' = strays \cup (tracked \cap {e})
    /\ tracked' = tracked \ {e}
=============================================================================
