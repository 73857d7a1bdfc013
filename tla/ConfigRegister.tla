--------------------------- MODULE ConfigRegister ---------------------------
(***************************************************************************)
(* What the control API promises about the configuration in force, however *)
(* many places of the program hold a copy of it: it is one value.  A       *)
(* reload replaces it by what the file says at that moment, an update      *)
(* replaces its list of backends and nothing else.                         *)
(***************************************************************************)
CONSTANTS Clients, Configs, Lists, Broken

VARIABLES file,      \* what the file at config_path says
          inForce,   \* the configuration in force
          serving    \* the requests that are being served

registerVars == <<file, inForce, serving>>

RegisterInit == file \in Configs /\ inForce = file /\ serving = {}

\* The user edits the file, which changes nothing until the next reload.
EditFile ==
    /\ file' \in Configs \cup {Broken}
    /\ UNCHANGED <<inForce, serving>>

Starts(c) ==
    /\ c \in Clients \ serving /\ serving' = serving \cup {c}
    /\ UNCHANGED file

Reload(c) == file # Broken /\ inForce' = file /\ Starts(c)

SetBackends(c) ==
    /\ \E list \in Lists : inForce' = [inForce EXCEPT !.backends = list]
    /\ Starts(c)

\* What is still done for a request changes nothing any more.
Answer(c) ==
    /\ c \in serving /\ serving' = serving \ {c}
    /\ UNCHANGED <<file, inForce>>

RegisterNext ==
    EditFile \/ \E c \in Clients : Reload(c) \/ SetBackends(c) \/ Answer(c)
RegisterSpec == RegisterInit /\ [][RegisterNext]_registerVars
=============================================================================
