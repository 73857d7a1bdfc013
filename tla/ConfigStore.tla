---------------------------- MODULE ConfigStore ----------------------------
(***************************************************************************)
(* The configuration in the memory of the conductor: three RwLocks that    *)
(* the handlers of the control API write one after the other and of which  *)
(* no two are ever held together.  GET /v1/config and the TUI read         *)
(* current, the MappingEngine reads mappingRules, the OscDispatcher and    *)
(* GET /v1/status read oscBackends.  The [daemon] section is left out: the *)
(* tasks keep what main read of it at startup, whatever a reload brings.   *)
(*                                                                         *)
(* A configuration is its rules and its backends, each a model value.  A   *)
(* client is one request at a time.                                        *)
(* History variables, read by no guard: rulesCrossed, backendsCrossed.     *)
(***************************************************************************)
EXTENDS Naturals, FiniteSets

CONSTANTS Clients,                    \* concurrent requests to the API
          RuleSets, Lists,            \* possible sections of a configuration
          Broken,                     \* a file that cannot be read or parsed
          FirstConfig                 \* the configuration of startup

Configs == [rules : RuleSets, backends : Lists]

ASSUME ConfigAssumption == FirstConfig \in Configs /\ Broken \notin Configs

VARIABLES disk,          \* the file at config_path
          current,       \* current_config
          mappingRules, oscBackends,
          pc, loaded,    \* of a request: its next step; the parsed file
          asked,         \* of a request: the backends of a PUT
          answer,        \* of a client: the last status code it was sent
          rulesCrossed, backendsCrossed

stores == <<current, mappingRules, oscBackends>>
requests == <<pc, loaded, asked, answer>>
crossings == <<rulesCrossed, backendsCrossed>>
vars == <<disk, stores, requests, crossings>>

Reloading(c) == pc[c] \in {"config", "rules", "backends"}
Putting(c) == pc[c] = "put"

Init ==
    /\ disk = FirstConfig /\ current = FirstConfig
    /\ mappingRules = FirstConfig.rules
    /\ oscBackends = FirstConfig.backends
    /\ pc = [c \in Clients |-> "idle"]
    /\ loaded = [c \in Clients |-> FirstConfig]
    /\ asked = [c \in Clients |-> FirstConfig.backends]
    /\ answer = [c \in Clients |-> 0]
    /\ rulesCrossed = FALSE /\ backendsCrossed = FALSE

\* The user edits the file; an editor may leave it unreadable for a while.
Edit ==
    /\ disk' \in Configs \cup {Broken}
    /\ UNCHANGED <<stores, requests, crossings>>

---------------------------------------------------------------------------
(* POST /v1/config/reload.                                                 *)

FileIsGood == disk # Broken

\* The file is read and parsed before any lock is taken.
ReloadRead(c) ==
    /\ pc[c] = "idle" /\ FileIsGood
    /\ loaded' = [loaded EXCEPT ![c] = disk]
    /\ pc' = [pc EXCEPT ![c] = "config"]
    /\ rulesCrossed' = \E d \in Clients \ {c} : Reloading(d)
    /\ backendsCrossed' =
           \E d \in Clients \ {c} : Reloading(d) \/ Putting(d)
    /\ UNCHANGED <<disk, stores, asked, answer>>

ReloadRefused(c) ==
    /\ pc[c] = "idle" /\ ~FileIsGood
    /\ answer' = [answer EXCEPT ![c] = 409]
    /\ UNCHANGED <<disk, stores, pc, loaded, asked, crossings>>

ReloadConfig(c) ==
    /\ pc[c] = "config"
    /\ current' = loaded[c]
    /\ pc' = [pc EXCEPT ![c] = "rules"]
    /\ UNCHANGED <<disk, mappingRules, oscBackends, loaded, asked,
                   answer, crossings>>

ReloadRules(c) ==
    /\ pc[c] = "rules"
    /\ mappingRules' = loaded[c].rules
    /\ pc' = [pc EXCEPT ![c] = "backends"]
    /\ UNCHANGED <<disk, current, oscBackends, loaded, asked, answer,
                   crossings>>

KeepsOldBackends(c) == oscBackends
ReadAgain(c) == IF FileIsGood THEN disk.backends ELSE loaded[c].backends
BackendsOfFile(c) == loaded[c].backends

ReloadBackends(c) ==
    /\ pc[c] = "backends"
    /\ oscBackends' = BackendsOfFile(c)
    /\ pc' = [pc EXCEPT ![c] = "idle"]
    /\ answer' = [answer EXCEPT ![c] = 202]
    /\ UNCHANGED <<disk, current, mappingRules, loaded, asked,
                   crossings>>

---------------------------------------------------------------------------
(* PUT /v1/config/backends: the live list first, then current_config.      *)

PutBackends(c, list) ==
    /\ pc[c] = "idle"
    /\ oscBackends' = list
    /\ asked' = [asked EXCEPT ![c] = list]
    /\ pc' = [pc EXCEPT ![c] = "put"]
    /\ backendsCrossed' =
           \E d \in Clients \ {c} : Reloading(d) \/ Putting(d)
    /\ UNCHANGED <<disk, current, mappingRules, loaded, answer,
                   rulesCrossed>>

StartupWithList(c) == [FirstConfig EXCEPT !.backends = asked[c]]
CurrentWithList(c) == [current EXCEPT !.backends = asked[c]]

PutConfig(c) ==
    /\ pc[c] = "put"
    /\ current' = CurrentWithList(c)
    /\ pc' = [pc EXCEPT ![c] = "idle"]
    /\ answer' = [answer EXCEPT ![c] = 200]
    /\ UNCHANGED <<disk, mappingRules, oscBackends, loaded, asked,
                   crossings>>

---------------------------------------------------------------------------
Handler(c) == \/ ReloadRead(c) \/ ReloadRefused(c) \/ ReloadConfig(c)
              \/ ReloadRules(c) \/ ReloadBackends(c)
              \/ (\E list \in Lists : PutBackends(c, list))
              \/ PutConfig(c)
Next == Edit \/ \E c \in Clients : Handler(c)

Spec == Init /\ [][Next]_vars

---------------------------------------------------------------------------
(* Properties.                                                             *)

\* Every variable keeps its type.
TypeOK ==
    /\ disk \in Configs \cup {Broken} /\ current \in Configs
    /\ mappingRules \in RuleSets /\ oscBackends \in Lists
    /\ pc \in [Clients -> {"idle", "config", "rules", "backends", "put"}]
    /\ loaded \in [Clients -> Configs] /\ asked \in [Clients -> Lists]
    /\ answer \in [Clients -> {0, 200, 202, 409}]
    /\ rulesCrossed \in BOOLEAN /\ backendsCrossed \in BOOLEAN

\* The rules that GET /v1/config shows are those the mapping engine uses when
\* no reload is under way, whatever updates of the backends ran between the
\* reload's writes, unless the last reload crossed another one.
RulesAgree ==
    (\A c \in Clients : ~Reloading(c)) /\ ~rulesCrossed
        => current.rules = mappingRules

\* The backends that GET /v1/config shows are those the dispatcher sends to
\* when no request is under way, unless the last one crossed another: the two
\* handlers write the two locks in opposite order.
BackendsAgree ==
    (\A c \in Clients : pc[c] = "idle") /\ ~backendsCrossed
        => current.backends = oscBackends

\* What GET /v1/config shows, and what the engine and the dispatcher use, once
\* the request under way is done.
Outcome(store) == IF \E c \in Clients : Reloading(c)
                  THEN loaded[CHOOSE c \in Clients : Reloading(c)]
                  ELSE store
Shown == Outcome(IF \E c \in Clients : Putting(c)
                 THEN CurrentWithList(CHOOSE c \in Clients : Putting(c))
                 ELSE current)
Used == Outcome([rules |-> mappingRules, backends |-> oscBackends])

Serving == {c \in Clients : pc[c] # "idle"}

ShownRegister == INSTANCE ConfigRegister
                     WITH file <- disk, inForce <- Shown, serving <- Serving
UsedRegister == INSTANCE ConfigRegister
                    WITH file <- disk, inForce <- Used, serving <- Serving

\* Though a reload writes three locks one after the other and an update two,
\* each takes effect at once on what is shown and on what is used, a reload
\* with all that the file said when it was read, and nothing that is done for it
\* later has an effect, as long as no request crosses another; after a
\* crossing, the next request that crosses none does so again.
RequestsAreAtomic ==
    /\ ShownRegister!RegisterInit /\ UsedRegister!RegisterInit
    /\ [][~backendsCrossed' => ShownRegister!RegisterNext]_<<disk, Shown, Serving>>
    /\ [][~backendsCrossed' => UsedRegister!RegisterNext]_<<disk, Used, Serving>>
=============================================================================
