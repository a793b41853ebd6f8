------------------------------- MODULE MCTeam -------------------------------
(***************************************************************************)
(* Four parts that share no state, in one run: owner jobs, workers, asks   *)
(* between bots and the computer.  A behaviour takes the steps of one of   *)
(* them while the others stay in their initial states.                     *)
(***************************************************************************)
EXTENDS OwnerJobs, Workers, BotAsks, Computer, TLC

CONSTANT Parts   \* the parts that move

VARIABLE part    \* the one that does

teamVars == <<part, ownerVars, workerVars, askVars, computerVars>>

TeamInit == part \in Parts /\ OwnerInit /\ WorkersInit /\ AsksInit /\ ComputerInit

TeamNext ==
  \/ /\ part = "owner" /\ OwnerNext
     /\ UNCHANGED <<part, workerVars, askVars, computerVars>>
  \/ /\ part = "workers" /\ WorkersNext
     /\ UNCHANGED <<part, ownerVars, askVars, computerVars>>
  \/ /\ part = "asks" /\ AsksNext
     /\ UNCHANGED <<part, ownerVars, workerVars, computerVars>>
  \/ /\ part = "computer" /\ ComputerNext
     /\ UNCHANGED <<part, ownerVars, workerVars, askVars>>

TeamSpec == TeamInit /\ [][TeamNext]_teamVars

(* The rows, threads, tasks and leases of the part that moves are of their *)
(* types.                                                                  *)
TeamTypeOK ==
  /\ part = "owner" => OwnerTypeOK
  /\ part = "workers" => WorkersTypeOK
  /\ part = "asks" => AsksTypeOK
  /\ part = "computer" => ComputerTypeOK

TeamSym == Permutations(Windows \ OldWindows) \cup Permutations(AskBots)
=============================================================================
