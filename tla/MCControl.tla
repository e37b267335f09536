---------------------------- MODULE MCControl -----------------------------
(* Instances of the control plane for TLC.  The
   components share no variable, so exploring each one alone (`part` says
   which) reaches every state its properties can tell apart. *)
EXTENDS RuleControl, OwnerCaps, Onboarding

VARIABLE part   \* the component that takes steps

controlVars == <<part, vars, capVars, onboardVars>>

ControlInit ==
    /\ part \in {"rules", "caps", "onboard"}
    /\ Init
    /\ CapInit
    /\ OnboardInit /\ (part # "onboard" => uris = {})

ControlNext ==
    \/ /\ part = "rules" /\ Next
       /\ UNCHANGED <<part, capVars, onboardVars>>
    \/ /\ part = "caps" /\ CapNext
       /\ UNCHANGED <<part, vars, onboardVars>>
    \/ /\ part = "onboard" /\ OnboardNext
       /\ UNCHANGED <<part, vars, capVars>>

ControlSpec == ControlInit /\ [][ControlNext]_controlVars

\* Fairness of RuleControl; in the other parts nothing of it is ever enabled.
FairControlSpec == ControlSpec /\ Fairness
=============================================================================
