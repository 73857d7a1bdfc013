------------------------- MODULE ConfigStoreProofs -------------------------
(***************************************************************************)
(* What ConfigStore guarantees for any number of concurrent requests and   *)
(* any configurations: its types, and that what GET /v1/config shows can   *)
(* differ from what is in force only after requests that overlapped.       *)
(***************************************************************************)
EXTENDS ConfigStore, TLAPS

LEMMA StoreTypeInit == Init => TypeOK
BY ConfigAssumption DEF Init, TypeOK, Configs

LEMMA StoreTypeStep == TypeOK /\ [Next]_vars => TypeOK'
<1>. SUFFICES ASSUME TypeOK, [Next]_vars PROVE TypeOK'
  OBVIOUS
<1>. USE DEF TypeOK, stores, requests, crossings
<1>1. CASE Edit
  BY <1>1 DEF Edit
<1>2. ASSUME NEW c \in Clients, Handler(c) PROVE TypeOK'
  <2>1. CASE ReloadRead(c)
    BY <2>1 DEF ReloadRead, FileIsGood
  <2>2. CASE ReloadRefused(c)
    BY <2>2 DEF ReloadRefused
  <2>3. CASE ReloadConfig(c)
    BY <2>3 DEF ReloadConfig
  <2>4. CASE ReloadRules(c)
    BY <2>4 DEF ReloadRules, Configs
  <2>5. CASE ReloadBackends(c)
    BY <2>5 DEF ReloadBackends, BackendsOfFile, Configs
  <2>6. ASSUME NEW list \in Lists, PutBackends(c, list) PROVE TypeOK'
    BY <2>6 DEF PutBackends
  <2>7. CASE PutConfig(c)
    <3>1. CurrentWithList(c) \in Configs
      BY DEF CurrentWithList, Configs
    <3>. QED  BY <2>7, <3>1 DEF PutConfig
  <2>. QED  BY <1>2, <2>1, <2>2, <2>3, <2>4, <2>5, <2>6, <2>7 DEF Handler
<1>3. CASE UNCHANGED vars
  BY <1>3 DEF vars
<1>. QED  BY <1>1, <1>2, <1>3 DEF Next

\* The types of the configuration and of the requests hold in every state.
THEOREM TypeCorrect == Spec => []TypeOK
BY StoreTypeInit, StoreTypeStep, PTL DEF Spec

---------------------------------------------------------------------------
(* Rules: while no two reloads overlap, the one under way has left in the  *)
(* stores it has passed what its file says.                                *)

LoneReload ==
    /\ \A c, d \in Clients : Reloading(c) /\ Reloading(d) => c = d
    /\ \A c \in Clients :
          /\ pc[c] \in {"rules", "backends"} => current.rules = loaded[c].rules
          /\ pc[c] = "backends" => mappingRules = loaded[c].rules
    /\ (\A c \in Clients : ~Reloading(c)) => current.rules = mappingRules
RulesInv == TypeOK /\ (~rulesCrossed => LoneReload)

LEMMA RulesInit == Init => RulesInv
<1>. SUFFICES ASSUME Init PROVE RulesInv
  OBVIOUS
<1>1. TypeOK
  BY StoreTypeInit
<1>2. LoneReload
  BY DEF Init, LoneReload, Reloading
<1>. QED  BY <1>1, <1>2 DEF RulesInv

LEMMA RulesStep == RulesInv /\ [Next]_vars => RulesInv'
<1>. SUFFICES ASSUME RulesInv, [Next]_vars, ~rulesCrossed'
              PROVE  LoneReload'
  BY StoreTypeStep DEF RulesInv
<1>. USE DEF stores, requests, crossings
<1>0. TypeOK
  BY DEF RulesInv
<1>1. CASE Edit \/ UNCHANGED vars
  BY <1>1 DEF Edit, vars, RulesInv, LoneReload, Reloading
<1>2. ASSUME NEW c \in Clients, Handler(c) PROVE LoneReload'
  <2>1. CASE ReloadRead(c)
    \* A reload that starts while none is under way starts afresh.
    <3>1. \A d \in Clients \ {c} : ~Reloading(d)
      BY <2>1 DEF ReloadRead
    <3>2. pc' = [pc EXCEPT ![c] = "config"]
      BY <2>1 DEF ReloadRead
    <3>3. \A d \in Clients : d # c => pc'[d] = pc[d]
      BY <1>0, <3>2 DEF TypeOK
    <3>4. pc'[c] = "config"
      BY <1>0, <3>2 DEF TypeOK
    <3>. QED  BY <3>1, <3>3, <3>4 DEF LoneReload, Reloading
  <2>2. CASE ReloadRefused(c)
    BY <2>2 DEF ReloadRefused, RulesInv, LoneReload, Reloading
  <2>3. CASE ReloadConfig(c)
    BY <1>0, <2>3 DEF ReloadConfig, RulesInv, LoneReload, Reloading, TypeOK
  <2>4. CASE ReloadRules(c)
    BY <1>0, <2>4 DEF ReloadRules, RulesInv, LoneReload, Reloading, TypeOK
  <2>5. CASE ReloadBackends(c)
    BY <1>0, <2>5 DEF ReloadBackends, RulesInv, LoneReload, Reloading, TypeOK
  <2>6. ASSUME NEW list \in Lists, PutBackends(c, list) PROVE LoneReload'
    BY <1>0, <2>6 DEF PutBackends, RulesInv, LoneReload, Reloading, TypeOK
  <2>7. CASE PutConfig(c)
    <3>1. current'.rules = current.rules
      BY <1>0, <2>7 DEF PutConfig, CurrentWithList, TypeOK, Configs
    <3>. QED
      BY <1>0, <2>7, <3>1 DEF PutConfig, RulesInv, LoneReload, Reloading, TypeOK
  <2>. QED  BY <1>2, <2>1, <2>2, <2>3, <2>4, <2>5, <2>6, <2>7 DEF Handler
<1>. QED  BY <1>1, <1>2 DEF Next

\* The rules shown are the rules in use, whatever updates of the backends run
\* at the same time, unless two reloads overlapped.
THEOREM RulesStayTogether == Spec => []RulesAgree
<1>1. RulesInv => RulesAgree
  BY DEF RulesInv, RulesAgree, LoneReload
<1>. QED  BY <1>1, RulesInit, RulesStep, PTL DEF Spec

---------------------------------------------------------------------------
(* Backends: the same for all requests that write.                         *)

LoneWriter ==
    /\ \A c, d \in Clients : pc[c] # "idle" /\ pc[d] # "idle" => c = d
    /\ \A c \in Clients :
          /\ pc[c] \in {"rules", "backends"} =>
                 current.backends = loaded[c].backends
          /\ pc[c] = "put" => oscBackends = asked[c]
    /\ (\A c \in Clients : pc[c] = "idle") => current.backends = oscBackends
BackendsInv == TypeOK /\ (~backendsCrossed => LoneWriter)

LEMMA BackendsInit == Init => BackendsInv
<1>. SUFFICES ASSUME Init PROVE BackendsInv
  OBVIOUS
<1>1. TypeOK
  BY StoreTypeInit
<1>2. LoneWriter
  BY DEF Init, LoneWriter
<1>. QED  BY <1>1, <1>2 DEF BackendsInv

LEMMA BackendsStep == BackendsInv /\ [Next]_vars => BackendsInv'
<1>. SUFFICES ASSUME BackendsInv, [Next]_vars, ~backendsCrossed'
              PROVE  LoneWriter'
  BY StoreTypeStep DEF BackendsInv
<1>. USE DEF stores, requests, crossings
<1>0. TypeOK
  BY DEF BackendsInv
<1>1. CASE Edit \/ UNCHANGED vars
  BY <1>1 DEF Edit, vars, BackendsInv, LoneWriter
<1>2. ASSUME NEW c \in Clients, Handler(c) PROVE LoneWriter'
  <2>1. CASE ReloadRead(c)
    <3>1. \A d \in Clients \ {c} : pc[d] = "idle"
      BY <1>0, <2>1 DEF ReloadRead, Reloading, Putting, TypeOK
    <3>2. pc' = [pc EXCEPT ![c] = "config"]
      BY <2>1 DEF ReloadRead
    <3>3. \A d \in Clients : pc'[d] = IF d = c THEN "config" ELSE "idle"
      BY <1>0, <3>1, <3>2 DEF TypeOK
    <3>. QED  BY <3>3 DEF LoneWriter
  <2>2. CASE ReloadRefused(c)
    BY <2>2 DEF ReloadRefused, BackendsInv, LoneWriter
  <2>3. CASE ReloadConfig(c)
    BY <1>0, <2>3 DEF ReloadConfig, BackendsInv, LoneWriter, TypeOK
  <2>4. CASE ReloadRules(c)
    BY <1>0, <2>4 DEF ReloadRules, BackendsInv, LoneWriter, TypeOK
  <2>5. CASE ReloadBackends(c)
    BY <1>0, <2>5
       DEF ReloadBackends, BackendsOfFile, BackendsInv, LoneWriter, TypeOK
  <2>6. ASSUME NEW list \in Lists, PutBackends(c, list) PROVE LoneWriter'
    <3>1. \A d \in Clients \ {c} : pc[d] = "idle"
      BY <1>0, <2>6 DEF PutBackends, Reloading, Putting, TypeOK
    <3>2. \A d \in Clients : pc'[d] = IF d = c THEN "put" ELSE "idle"
      BY <1>0, <2>6, <3>1 DEF PutBackends, TypeOK
    <3>3. oscBackends' = asked'[c]
      BY <1>0, <2>6 DEF PutBackends, TypeOK
    <3>. QED  BY <3>2, <3>3 DEF LoneWriter
  <2>7. CASE PutConfig(c)
    <3>1. current'.backends = asked[c]
      BY <1>0, <2>7 DEF PutConfig, CurrentWithList, TypeOK, Configs
    <3>2. pc[c] = "put" /\ oscBackends' = oscBackends
      BY <2>7 DEF PutConfig
    <3>3. LoneWriter
      BY <2>7 DEF PutConfig, BackendsInv
    <3>4. \A d \in Clients : pc'[d] = "idle"
      BY <1>0, <2>7, <3>2, <3>3 DEF PutConfig, LoneWriter, TypeOK
    <3>. QED  BY <3>1, <3>2, <3>3, <3>4 DEF LoneWriter
  <2>. QED  BY <1>2, <2>1, <2>2, <2>3, <2>4, <2>5, <2>6, <2>7 DEF Handler
<1>. QED  BY <1>1, <1>2 DEF Next

\* The backends shown are the backends in use unless two requests overlapped.
THEOREM BackendsStayTogether == Spec => []BackendsAgree
<1>1. BackendsInv => BackendsAgree
  BY DEF BackendsInv, BackendsAgree, LoneWriter
<1>. QED  BY <1>1, BackendsInit, BackendsStep, PTL DEF Spec

---------------------------------------------------------------------------
(* Atomicity: the register of ConfigRegister holds what the one request    *)
(* under way will have made of the stores.                                 *)

Stores == [rules |-> mappingRules, backends |-> oscBackends]
Writing(c) == Reloading(c) \/ Putting(c)

\* A reload leaves behind it what it has read, in current as a whole.
Halfway ==
    \A c \in Clients :
        /\ pc[c] \in {"rules", "backends"} => current = loaded[c]
        /\ pc[c] = "backends" => mappingRules = loaded[c].rules
AtomicInv == BackendsInv /\ (~backendsCrossed => Halfway)

\* A request that crosses none finds all idle.
LEMMA NoneUnderWay ==
    ASSUME TypeOK, NEW c \in Clients, ~backendsCrossed',
           ReloadRead(c) \/ \E list \in Lists : PutBackends(c, list)
    PROVE  /\ \A d \in Clients : pc[d] = "idle"
           /\ \A d \in Clients : d # c => pc'[d] = "idle"
           /\ pc'[c] \in {"config", "put"}
<1>1. CASE ReloadRead(c)
  <2>1. \A d \in Clients \ {c} : pc[d] = "idle"
    BY <1>1 DEF ReloadRead, Reloading, Putting, TypeOK
  <2>. QED  BY <1>1, <2>1 DEF ReloadRead, TypeOK
<1>2. ASSUME NEW list \in Lists, PutBackends(c, list)
      PROVE  /\ \A d \in Clients : pc[d] = "idle"
             /\ \A d \in Clients : d # c => pc'[d] = "idle"
             /\ pc'[c] \in {"config", "put"}
  <2>1. \A d \in Clients \ {c} : pc[d] = "idle"
    BY <1>2 DEF PutBackends, Reloading, Putting, TypeOK
  <2>. QED  BY <1>2, <2>1 DEF PutBackends, TypeOK
<1>. QED  BY <1>1, <1>2

LEMMA AtomicStep == AtomicInv /\ [Next]_vars => AtomicInv'
<1>. SUFFICES ASSUME AtomicInv, [Next]_vars, ~backendsCrossed'
              PROVE  Halfway'
  BY BackendsStep DEF AtomicInv
<1>. USE DEF stores, requests, crossings
<1>0. TypeOK
  BY DEF AtomicInv, BackendsInv
<1>1. CASE Edit \/ UNCHANGED vars
  BY <1>1 DEF Edit, vars, AtomicInv, Halfway
<1>2. ASSUME NEW c \in Clients, Handler(c)
      PROVE  Halfway'
  <2>1. CASE ReloadRead(c) \/ \E list \in Lists : PutBackends(c, list)
    <3>1. \A d \in Clients : pc'[d] \notin {"rules", "backends"}
      BY <1>0, <2>1, NoneUnderWay
    <3>. QED  BY <3>1 DEF Halfway
  <2>. SUFFICES ASSUME LoneWriter, Halfway, UNCHANGED backendsCrossed,
                       \/ ReloadRefused(c) \/ ReloadConfig(c) \/ ReloadRules(c)
                       \/ ReloadBackends(c) \/ PutConfig(c)
                PROVE  Halfway'
    BY <1>2, <2>1
       DEF Handler, AtomicInv, BackendsInv, ReloadRefused, ReloadConfig, ReloadRules,
           ReloadBackends, PutConfig
  <2>2. CASE ReloadRefused(c)
    BY <2>2 DEF ReloadRefused, Halfway
  <2>3. ASSUME pc[c] # "idle"
        PROVE  \A d \in Clients \ {c} : pc[d] = "idle"
    BY <2>3 DEF LoneWriter
  <2>4. CASE ReloadConfig(c)
    BY <1>0, <2>3, <2>4 DEF ReloadConfig, Halfway, TypeOK
  <2>5. CASE ReloadRules(c)
    BY <1>0, <2>3, <2>5 DEF ReloadRules, Halfway, TypeOK
  <2>6. CASE ReloadBackends(c)
    BY <1>0, <2>3, <2>6 DEF ReloadBackends, Halfway, TypeOK
  <2>7. CASE PutConfig(c)
    BY <1>0, <2>3, <2>7 DEF PutConfig, Halfway, TypeOK
  <2>. QED  BY <2>2, <2>4, <2>5, <2>6, <2>7
<1>. QED  BY <1>1, <1>2 DEF Next

\* What the registers hold while a request is under way.
HeldForRequest ==
    \A c \in Clients :
        /\ Reloading(c) => Shown = loaded[c] /\ Used = loaded[c]
        /\ Putting(c) => Shown = CurrentWithList(c) /\ Used = Stores

LEMMA RegisterHolds == TypeOK /\ LoneWriter => HeldForRequest
<1>. SUFFICES ASSUME TypeOK, LoneWriter, NEW c \in Clients
              PROVE  /\ Reloading(c) => Shown = loaded[c] /\ Used = loaded[c]
                     /\ Putting(c) => Shown = CurrentWithList(c) /\ Used = Stores
  BY DEF HeldForRequest
<1>1. \A d, e \in Clients : Writing(d) /\ Writing(e) => d = e
  BY DEF LoneWriter, Writing, Reloading, Putting
<1>2. ASSUME Reloading(c)
      PROVE  Shown = loaded[c] /\ Used = loaded[c]
  <2>1. (CHOOSE d \in Clients : Reloading(d)) = c
    BY <1>1, <1>2 DEF Writing
  <2>. QED  BY <1>2, <2>1, Zenon DEF Shown, Used, Outcome
<1>3. ASSUME Putting(c)
      PROVE  Shown = CurrentWithList(c) /\ Used = Stores
  <2>1. (CHOOSE d \in Clients : Putting(d)) = c
    BY <1>1, <1>3 DEF Writing
  <2>2. ~\E d \in Clients : Reloading(d)
    BY <1>1, <1>3 DEF Writing, Reloading, Putting
  <2>. QED  BY <1>3, <2>1, <2>2, Zenon DEF Shown, Used, Outcome, Stores
<1>. QED  BY <1>2, <1>3

\* At rest they hold what is in the stores.
Rest == \A c \in Clients : ~Writing(c)

LEMMA RegisterAtRest == Rest => Shown = current /\ Used = Stores
BY Zenon DEF Rest, Shown, Used, Outcome, Stores, Writing

RegisterStep ==
    /\ [ShownRegister!RegisterNext]_<<disk, Shown, Serving>>
    /\ [UsedRegister!RegisterNext]_<<disk, Used, Serving>>

\* The registers after a step.
LEMMA RegisterAfter ==
    ASSUME TypeOK', LoneWriter'
    PROVE  /\ \A c \in Clients :
                 /\ Reloading(c)' => Shown' = loaded'[c] /\ Used' = loaded'[c]
                 /\ Putting(c)' => Shown' = CurrentWithList(c)' /\ Used' = Stores'
           /\ Rest' => Shown' = current' /\ Used' = Stores'
<1>1. (TypeOK /\ LoneWriter => HeldForRequest)'
  BY RegisterHolds, PTL
<1>2. (Rest => Shown = current /\ Used = Stores)'
  BY RegisterAtRest, PTL
<1>. QED  BY <1>1, <1>2 DEF HeldForRequest

\* A request that is read while no other is under way takes effect.
LEMMA RequestsTakeEffect ==
    ASSUME AtomicInv, AtomicInv', NEW c \in Clients, ~backendsCrossed',
           ReloadRead(c) \/ \E list \in Lists : PutBackends(c, list)
    PROVE  RegisterStep
<1>1. TypeOK /\ TypeOK' /\ LoneWriter'
  BY DEF AtomicInv, BackendsInv
<1>2. \A d \in Clients : pc[d] = "idle"
  BY <1>1, NoneUnderWay
<1>3. Shown = current /\ Used = Stores
  BY <1>2, RegisterAtRest DEF Rest, Writing, Reloading, Putting
<1>4. c \notin Serving /\ Serving' = Serving \cup {c}
  BY <1>1, <1>2, NoneUnderWay DEF Serving
<1>5. CASE ReloadRead(c)
  <2>1. /\ pc'[c] = "config" /\ loaded'[c] = disk /\ disk' = disk /\ disk # Broken
    BY <1>1, <1>5 DEF ReloadRead, TypeOK, FileIsGood
  <2>2. Shown' = disk /\ Used' = disk
    BY <1>1, <2>1, RegisterAfter DEF Reloading
  <2>. QED  BY <1>4, <2>1, <2>2
            DEF RegisterStep, ShownRegister!RegisterNext, ShownRegister!Reload,
                ShownRegister!Starts, UsedRegister!RegisterNext,
                UsedRegister!Reload, UsedRegister!Starts
<1>6. ASSUME NEW list \in Lists, PutBackends(c, list)
      PROVE  RegisterStep
  <2>1. /\ pc'[c] = "put" /\ asked'[c] = list /\ disk' = disk /\ current' = current
        /\ mappingRules' = mappingRules /\ oscBackends' = list
    BY <1>1, <1>6 DEF PutBackends, TypeOK
  <2>2. Shown' = CurrentWithList(c)' /\ Used' = Stores'
    BY <1>1, <2>1, RegisterAfter DEF Putting
  <2>3. Shown' = [Shown EXCEPT !.backends = list]
    BY <1>3, <2>1, <2>2 DEF CurrentWithList
  <2>4. Used' = [Used EXCEPT !.backends = list]
    BY <1>3, <2>1, <2>2 DEF Stores
  <2>. QED  BY <1>4, <2>1, <2>3, <2>4
            DEF RegisterStep, ShownRegister!RegisterNext, ShownRegister!SetBackends,
                ShownRegister!Starts, UsedRegister!RegisterNext,
                UsedRegister!SetBackends, UsedRegister!Starts
<1>. QED  BY <1>5, <1>6

\* The rest of a request changes neither register, up to its answer.
LEMMA RequestsGoOn ==
    ASSUME AtomicInv, AtomicInv', NEW c \in Clients, ~backendsCrossed',
           \/ ReloadConfig(c) \/ ReloadRules(c) \/ ReloadBackends(c) \/ PutConfig(c)
    PROVE  RegisterStep
<1>. USE DEF stores, requests, crossings
<1>1. /\ TypeOK /\ LoneWriter /\ Halfway /\ TypeOK' /\ LoneWriter'
      /\ disk' = disk /\ loaded' = loaded /\ pc[c] # "idle"
  BY DEF AtomicInv, BackendsInv, ReloadConfig, ReloadRules, ReloadBackends, PutConfig
<1>2. \A d \in Clients \ {c} : pc[d] = "idle"
  BY <1>1 DEF LoneWriter
<1>3. HeldForRequest
  BY <1>1, RegisterHolds
<1>4. \/ Serving' = Serving
      \/ c \in Serving /\ Serving' = Serving \ {c}
  BY <1>1 DEF Serving, TypeOK, ReloadConfig, ReloadRules, ReloadBackends, PutConfig
<1>. SUFFICES Shown' = Shown /\ Used' = Used
  BY <1>1, <1>4
     DEF RegisterStep, ShownRegister!RegisterNext, ShownRegister!Answer,
         UsedRegister!RegisterNext, UsedRegister!Answer
<1>5. CASE ReloadConfig(c) \/ ReloadRules(c)
  <2>1. Reloading(c) /\ Reloading(c)'
    BY <1>1, <1>5 DEF ReloadConfig, ReloadRules, Reloading, TypeOK
  <2>. QED  BY <1>1, <1>3, <2>1, RegisterAfter DEF HeldForRequest
<1>6. CASE ReloadBackends(c)
  <2>1. /\ Reloading(c) /\ current' = loaded[c] /\ mappingRules' = loaded[c].rules
        /\ oscBackends' = loaded[c].backends /\ pc' = [pc EXCEPT ![c] = "idle"]
    BY <1>1, <1>6 DEF ReloadBackends, BackendsOfFile, Halfway, Reloading
  <2>2. Rest'
    BY <1>1, <1>2, <2>1 DEF Rest, Writing, Reloading, Putting, TypeOK
  <2>3. loaded[c] = [rules |-> loaded[c].rules, backends |-> loaded[c].backends]
    BY <1>1 DEF TypeOK, Configs
  <2>4. Stores' = loaded[c]
    BY <2>1, <2>3 DEF Stores
  <2>. QED  BY <1>1, <1>3, <2>1, <2>2, <2>4, RegisterAfter DEF HeldForRequest
<1>7. CASE PutConfig(c)
  <2>1. /\ Putting(c) /\ current' = CurrentWithList(c)
        /\ UNCHANGED <<mappingRules, oscBackends>> /\ pc' = [pc EXCEPT ![c] = "idle"]
    BY <1>7 DEF PutConfig, Putting
  <2>2. Rest'
    BY <1>1, <1>2, <2>1 DEF Rest, Writing, Reloading, Putting, TypeOK
  <2>3. Stores' = Stores
    BY <2>1 DEF Stores
  <2>. QED  BY <1>1, <1>3, <2>1, <2>2, <2>3, RegisterAfter DEF HeldForRequest
<1>. QED  BY <1>5, <1>6, <1>7

\* An edit shows nothing and uses nothing of the file.
LEMMA OthersTouchNothing ==
    ASSUME TypeOK', NEW c, Edit \/ ReloadRefused(c) \/ UNCHANGED vars
    PROVE  RegisterStep
<1>1. UNCHANGED <<stores, pc, loaded, asked>>
  BY DEF Edit, ReloadRefused, vars, stores, requests
<1>2. Shown' = Shown /\ Used' = Used /\ Serving' = Serving
  BY <1>1
     DEF Shown, Used, Outcome, Reloading, Putting, CurrentWithList, stores, Serving
<1>3. disk' \in Configs \cup {Broken}
  BY DEF TypeOK
<1>. QED  BY <1>2, <1>3
          DEF RegisterStep, ShownRegister!RegisterNext, ShownRegister!EditFile,
              UsedRegister!RegisterNext, UsedRegister!EditFile

LEMMA RegisterSteps ==
    AtomicInv /\ AtomicInv' /\ [Next]_vars /\ ~backendsCrossed' => RegisterStep
<1>. SUFFICES ASSUME AtomicInv, AtomicInv', [Next]_vars, ~backendsCrossed'
              PROVE  RegisterStep
  OBVIOUS
<1>1. TypeOK'
  BY DEF AtomicInv, BackendsInv
<1>2. CASE Edit \/ UNCHANGED vars
  BY <1>1, <1>2, OthersTouchNothing
<1>3. ASSUME NEW c \in Clients, Handler(c)
      PROVE  RegisterStep
  BY <1>1, <1>3, OthersTouchNothing, RequestsTakeEffect, RequestsGoOn DEF Handler
<1>. QED  BY <1>2, <1>3 DEF Next

\* Each request takes effect at once, on what is shown and on what is used, as
\* long as it crosses no other, for any number of clients and configurations.
THEOREM RequestsImplementRegister == Spec => RequestsAreAtomic
<1>1. Init => /\ AtomicInv
              /\ ShownRegister!RegisterInit /\ UsedRegister!RegisterInit
  <2>. SUFFICES ASSUME Init
                PROVE  /\ AtomicInv
                       /\ ShownRegister!RegisterInit /\ UsedRegister!RegisterInit
    OBVIOUS
  <2>1. AtomicInv
    BY BackendsInit DEF Init, AtomicInv, Halfway
  <2>2. Rest
    BY DEF Init, Rest, Writing, Reloading, Putting
  <2>3. FirstConfig = [rules |-> FirstConfig.rules, backends |-> FirstConfig.backends]
    BY ConfigAssumption DEF Configs
  <2>4. Shown = disk /\ Used = disk /\ disk \in Configs
    BY <2>2, <2>3, RegisterAtRest, ConfigAssumption DEF Init, Stores
  <2>5. Serving = {}
    BY DEF Init, Serving
  <2>. QED  BY <2>1, <2>4, <2>5
            DEF ShownRegister!RegisterInit, UsedRegister!RegisterInit
<1>2. AtomicInv /\ AtomicInv' /\ [Next]_vars =>
          /\ [~backendsCrossed' => ShownRegister!RegisterNext]_<<disk, Shown, Serving>>
          /\ [~backendsCrossed' => UsedRegister!RegisterNext]_<<disk, Used, Serving>>
  BY RegisterSteps DEF RegisterStep
<1>. QED  BY <1>1, <1>2, AtomicStep, PTL DEF Spec, RequestsAreAtomic
=============================================================================
