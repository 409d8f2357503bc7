----------------------------- MODULE MCSessions -----------------------------
(***************************************************************************)
(* What every command of the shell rests on, in one run: the sessions, the *)
(* schema, the accounts, and the tasks the one that follows Telegram       *)
(* supervises.  They share nothing but their order (a command works on a   *)
(* schema that is settled, and a session on the one account it named): a   *)
(* behaviour is one of a single module.                                    *)
(***************************************************************************)
EXTENDS Sessions, Schema, Accounts, MCSupervisor, TLC

Releases == "older" :> 1 @@ "newer" :> 2

ShellInit == Init /\ SchemaInit /\ AccountsInit /\ SupervisorInit

Idle == caller = "starting"

ShellNext ==
    \/ runs = 0 /\ uses = 0 /\ Idle /\ Next
       /\ UNCHANGED <<schemaVars, accountVars, supervisorVars>>
    \/ started = 0 /\ uses = 0 /\ Idle /\ SchemaNext
       /\ UNCHANGED <<vars, accountVars, supervisorVars>>
    \/ started = 0 /\ runs = 0 /\ Idle /\ AccountsNext
       /\ UNCHANGED <<vars, schemaVars, supervisorVars>>
    \/ started = 0 /\ runs = 0 /\ uses = 0 /\ SupervisorNext
       /\ UNCHANGED <<vars, schemaVars, accountVars>>

ShellSpec ==
    /\ ShellInit /\ [][ShellNext]_<<vars, schemaVars, accountVars, supervisorVars>>
    /\ SupervisorFairness
=============================================================================
