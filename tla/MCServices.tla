------------------------------ MODULE MCServices ------------------------------
(***************************************************************************)
(* A TLC instance of three parts that share no state with each other: the  *)
(* bot's standing down and coming back in the long run, the registry that  *)
(* is governed with others, and the linked lists of a slab. A behaviour is *)
(* one of a single part, the others at rest.                               *)
(*                                                                         *)
(* The slab can be grown beyond the number of active vaults the registry   *)
(* allows, so it fills with retired and reclaimed sectors and the cap is   *)
(* met with room left.                                                     *)
(***************************************************************************)
EXTENDS MakerBot, Registry, VaultList

VARIABLE part   \* whose behaviour this is (never changes)

LossOnly == {{"lost"}}

------------------------------------------------------------------------------
ServicesInit ==
    /\ part \in {"bot", "registry", "lists"}
    /\ RegistryInit /\ ListsInit
    /\ IF part = "bot" THEN Init ELSE InitAt("off", {Hold})

OfBot      == part = "bot" /\ UNCHANGED <<part, faults, reg, listVars>>
OfRegistry == part = "registry" /\ UNCHANGED <<part, vars, listVars>>
OfLists    == part = "lists" /\ UNCHANGED <<part, vars, reg>>

ServicesNext ==
    \/ OfBot /\ Step
    \/ OfRegistry /\ RegistryNext
    \/ OfLists /\ ListsNext

(* The steps of a running bot are taken and sends return; reads succeed now *)
(* and then, and so do prices and kill stamps that are sent again and      *)
(* again. Profiles are not assumed to: a halt must not depend on one.      *)
all == <<part, vars, reg, listVars>>
ServicesSpec ==
    /\ ServicesInit /\ [][ServicesNext]_all
    /\ WF_all(OfBot /\ Start)
    /\ WF_all(OfBot /\ Boot)
    /\ WF_all(OfBot /\ Decide)
    /\ WF_all(OfBot /\ (Confirm \/ SendFails))
    /\ WF_all(OfBot /\ Record)
    /\ SF_all(OfBot /\ ReadVault)
    /\ SF_all(OfBot /\ Tick)
    /\ Lands({"price", "kill"})

=============================================================================
