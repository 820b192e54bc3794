------------------------- MODULE AppOperator_proofs -------------------------
(***************************************************************************)
(* Theorems about the app operator, for any number of pods and of faults:  *)
(* who leads holds its lock, a pod is trusted until another overtakes it,  *)
(* and application pods get the proxies they ask for, or none.             *)
(***************************************************************************)
EXTENDS AppOperator, TLAPS

(* The steps of a process after the init container.                        *)
MainSteps == {"owner", "lookup", "create", "ready", "setup", "serve", "down"}

LEMMA Distinct ==
  /\ MainSteps \cap InitSteps = {} /\ "none" \notin MainSteps \cup InitSteps
  /\ NoLock \notin Pods /\ NoLock # Unowned
BY PodsAssumption DEF MainSteps, InitSteps, NoLock, Unowned, Pods

LEMMA Fewer == Fault /\ faults \in 0..MaxFaults => faults' \in 0..MaxFaults
BY PodsAssumption DEF Fault

-----------------------------------------------------------------------------
(* The operator's own steps.                                               *)

(***************************************************************************)
(* A step of the process of p from one of MainSteps to another: it keeps   *)
(* IInv when it keeps the leaders' locks.                                  *)
(***************************************************************************)
LEMMA ProcessKeeps ==
  ASSUME IInv, NEW p \in Pods, NEW l \in MainSteps, pc[p] \in MainSteps,
         Goto(p, l), pod' = pod, UNCHANGED <<certVars, app>>,
         pod[p] = "terminating" => l = "serve",
         lock' \in [Pods -> Pods \cup {NoLock, Unowned}],
         leads' \subseteq Pods,
         readyFile' \subseteq readyFile \cup {p},
         faults' \in 0..MaxFaults,
         \A q \in leads' : lock'[q] = q /\ (q = p \/ q \in leads)
  PROVE  IInv'
<1>1. pc' = [pc EXCEPT ![p] = l] /\ pc \in [Pods -> {FirstStep, "none"} \cup
        {"certificate", "key", "get", "update"} \cup MainSteps]
  BY DEF Goto, IInv, AppTypeOK, OperatorTypeOK, MainSteps
<1>2. /\ pc' \in [Pods -> {FirstStep, "none"} \cup
                   {"certificate", "key", "get", "update"} \cup MainSteps]
      /\ pc'[p] = l /\ \A q \in Pods \ {p} : pc'[q] = pc[q]
      /\ \A q \in Pods : pc'[q] \in InitSteps <=> pc[q] \in InitSteps
  BY <1>1, Distinct
<1>4. AppTypeOK'
  BY <1>2 DEF IInv, AppTypeOK, OperatorTypeOK, certVars, MainSteps
<1>5. ProcessInv'
  BY <1>2, Distinct DEF IInv, ProcessInv
<1>6. LeadInv'
  BY <1>2, Distinct DEF IInv, LeadInv
<1>7. PairInv'
  BY <1>2, Distinct
     DEF IInv, PairInv, Done, InitSteps, certVars, MainSteps
<1>8. PathInv' /\ ProxyOnce'
  BY DEF IInv, PathInv, ProxyOnce
<1>9. QED
  BY <1>4, <1>5, <1>6, <1>7, <1>8 DEF IInv

LEMMA BecomeKeeps ==
  ASSUME IInv, NEW p \in Pods, UNCHANGED <<certVars, app>>,
         ReadOwner(p) \/ FindLock(p) \/ CreateLock(p) \/ BecomeFails(p)
  PROVE  IInv'
<1>1. /\ lock \in [Pods -> Pods \cup {NoLock, Unowned}]
      /\ leads \subseteq Pods /\ readyFile \subseteq Pods
      /\ faults \in 0..MaxFaults
      /\ \A q \in leads : lock[q] = q
      /\ pod[p] = "terminating" => pc[p] = "serve"
  BY DEF IInv, AppTypeOK, OperatorTypeOK, LeadInv, ProcessInv
<1>2. CASE ReadOwner(p)
  BY <1>1, <1>2, ProcessKeeps DEF ReadOwner, MainSteps
<1>3. CASE FindLock(p)
  <2>1. CASE lock[p] = p
    BY <1>1, <1>3, <2>1, ProcessKeeps DEF FindLock, LockName, MainSteps
  <2>2. CASE lock[p] # p
    BY <1>1, <1>3, <2>2, ProcessKeeps DEF FindLock, LockName, MainSteps
  <2>3. QED
    BY <2>1, <2>2
<1>4. CASE CreateLock(p)
  <2>1. lock' = [lock EXCEPT ![p] = p] /\ lock[p] = NoLock
    BY <1>4 DEF CreateLock, LockName
  <2>2. lock' \in [Pods -> Pods \cup {NoLock, Unowned}]
        /\ \A q \in leads \cup {p} : lock'[q] = q
    BY <1>1, <2>1
  <2>3. QED
    BY <1>1, <1>4, <2>2, ProcessKeeps DEF CreateLock, MainSteps
<1>5. CASE BecomeFails(p)
  <2>1. lock' = lock \/ lock' = [lock EXCEPT ![p] = p]
    BY <1>5 DEF BecomeFails, LockName
  <2>2. lock' \in [Pods -> Pods \cup {NoLock, Unowned}]
        /\ \A q \in leads : lock'[q] = q
    BY <1>1, <2>1
  <2>3. faults' \in 0..MaxFaults
    BY <1>1, <1>5, Fewer DEF BecomeFails
  <2>4. QED
    BY <1>1, <1>5, <2>2, <2>3, ProcessKeeps DEF BecomeFails, MainSteps
<1>6. QED
  BY <1>2, <1>3, <1>4, <1>5

LEMMA MainKeeps ==
  ASSUME IInv, NEW p \in Pods, UNCHANGED <<certVars, app>>,
         SetReady(p) \/ StartManager(p) \/ Exit(p) \/ RestartContainer(p)
  PROVE  IInv'
<1>1. /\ lock \in [Pods -> Pods \cup {NoLock, Unowned}]
      /\ leads \subseteq Pods /\ readyFile \subseteq Pods
      /\ faults \in 0..MaxFaults
      /\ \A q \in leads : lock[q] = q
      /\ pod[p] = "terminating" => pc[p] = "serve"
  BY DEF IInv, AppTypeOK, OperatorTypeOK, LeadInv, ProcessInv
<1>2. CASE SetReady(p)
  BY <1>1, <1>2, ProcessKeeps DEF SetReady, MainSteps
<1>3. CASE StartManager(p)
  BY <1>1, <1>3, ProcessKeeps DEF StartManager, MainSteps
<1>4. CASE Exit(p)
  <2>1. faults' \in 0..MaxFaults
    BY <1>1, <1>4, Fewer DEF Exit
  <2>2. QED
    BY <1>1, <1>4, <2>1, ProcessKeeps DEF Exit, MainSteps
<1>5. CASE RestartContainer(p)
  BY <1>1, <1>5, ProcessKeeps DEF RestartContainer, MainSteps
<1>6. QED
  BY <1>2, <1>3, <1>4, <1>5

(* A pod that goes.                                                        *)
LEMMA EndKeeps ==
  ASSUME IInv, NEW p \in Pods, UNCHANGED <<certVars, app>>,
         DeletePod(p) \/ Terminate(p)
  PROVE  IInv'
<1>1. /\ pod \in [Pods -> {"none", "live", "terminating", "gone"}]
      /\ leads \subseteq Pods /\ readyFile \subseteq Pods
      /\ pc \in [Pods -> {FirstStep, "none", "certificate", "key", "get",
                          "update", "owner", "lookup", "create", "ready",
                          "setup", "serve", "down"}]
  BY DEF IInv, AppTypeOK, OperatorTypeOK
<1>2. /\ \/ /\ pod' = [pod EXCEPT ![p] = "terminating"] /\ pod[p] = "live"
            /\ pc[p] = "serve" /\ UNCHANGED <<pc, leads, readyFile>>
         \/ /\ pod' = [pod EXCEPT ![p] = "gone"]
            /\ pc' = [pc EXCEPT ![p] = "none"]
            /\ leads' = leads \ {p} /\ readyFile' = readyFile \ {p}
            /\ pod[p] \in {"live", "terminating"}
      /\ UNCHANGED <<lock, faults>>
  BY DEF DeletePod, Terminate, Goto
<1>3. \A q \in Pods : pc'[q] = pc[q] \/ pc'[q] = "none"
  BY <1>1, <1>2
<1>5. AppTypeOK'
  BY <1>1, <1>2 DEF IInv, AppTypeOK, OperatorTypeOK, certVars
<1>6. ProcessInv'
  BY <1>1, <1>2 DEF IInv, ProcessInv
<1>7. LeadInv'
  BY <1>1, <1>2 DEF IInv, LeadInv
<1>8. PairInv'
  BY <1>3 DEF IInv, PairInv, Done, InitSteps, certVars
<1>9. PathInv' /\ ProxyOnce'
  BY DEF IInv, PathInv, ProxyOnce
<1>10. QED
  BY <1>5, <1>6, <1>7, <1>8, <1>9 DEF IInv

(* A new pod.                                                              *)
LEMMA CreateKeeps ==
  ASSUME IInv, NEW p \in Pods, UNCHANGED <<certVars, app>>,
         CreatePod(p)
  PROVE  IInv'
<1>1. /\ pod \in [Pods -> {"none", "live", "terminating", "gone"}]
      /\ pc \in [Pods -> {FirstStep, "none", "certificate", "key", "get",
                          "update", "owner", "lookup", "create", "ready",
                          "setup", "serve", "down"}]
  BY DEF IInv, AppTypeOK, OperatorTypeOK
<1>2. /\ pod[p] = "none"
      /\ pod' = [pod EXCEPT ![p] = "live"]
      /\ pc' = [pc EXCEPT ![p] = "generate"]
      /\ UNCHANGED <<lock, leads, readyFile, faults>>
  BY StartAssumption DEF CreatePod, Goto
<1>3. /\ pc'[p] = "generate" /\ \A q \in Pods \ {p} : pc'[q] = pc[q]
      /\ pod'[p] = "live" /\ \A q \in Pods \ {p} : pod'[q] = pod[q]
  BY <1>1, <1>2
<1>6. AppTypeOK'
  BY <1>1, <1>2, StartAssumption DEF IInv, AppTypeOK, OperatorTypeOK, certVars
<1>7. ProcessInv'
  BY <1>3 DEF IInv, ProcessInv
<1>8. LeadInv'
  BY <1>1, <1>2, <1>3 DEF IInv, LeadInv, AppTypeOK, OperatorTypeOK
<1>9. PairInv'
  BY <1>3 DEF IInv, PairInv, Done, InitSteps, certVars
<1>10. PathInv' /\ ProxyOnce'
  BY DEF IInv, PathInv, ProxyOnce
<1>11. QED
  BY <1>6, <1>7, <1>8, <1>9, <1>10 DEF IInv

LEMMA OperatorKeeps ==
  ASSUME IInv, OperatorStep
  PROVE  IInv'
<1>1. UNCHANGED <<certVars, app>>
  BY DEF OperatorStep
<1>2. PICK p \in Pods :
        PodStep(p) \/ DeploymentStep(p) \/ CollectLock(p)
  BY DEF OperatorStep, OperatorNext
<1>3. CASE PodStep(p)
  BY <1>1, <1>3, BecomeKeeps, MainKeeps DEF PodStep, Main, Become
<1>4. CASE Rollout(p) \/ Replace(p)
  BY <1>1, <1>4, CreateKeeps DEF Rollout, Replace
<1>5. CASE Evict(p) \/ RemoveOld(p) \/ Terminate(p)
  BY <1>1, <1>5, EndKeeps DEF Evict, RemoveOld
<1>6. CASE CollectLock(p)
  <2>1. /\ lock' = [lock EXCEPT ![p] = NoLock] /\ pod[lock[p]] = "gone"
        /\ lock[p] \in Pods /\ UNCHANGED <<pod, pc, leads, readyFile, faults>>
    BY <1>6 DEF CollectLock
  <2>2. p \notin leads
    BY <2>1 DEF IInv, LeadInv, ProcessInv
  <2>3. LeadInv'
    BY <2>1, <2>2 DEF IInv, LeadInv, AppTypeOK, OperatorTypeOK
  <2>4. AppTypeOK'
    BY <1>1, <2>1 DEF IInv, AppTypeOK, OperatorTypeOK, certVars
  <2>5. (ProcessInv /\ PairInv)'
    BY <1>1, <2>1 DEF IInv, ProcessInv, PairInv, Done, certVars
  <2>6. PathInv' /\ ProxyOnce'
    BY <1>1 DEF IInv, PathInv, ProxyOnce
  <2>7. QED
    BY <2>3, <2>4, <2>5, <2>6 DEF IInv
<1>7. QED
  BY <1>2, <1>3, <1>4, <1>5, <1>6 DEF DeploymentStep

-----------------------------------------------------------------------------
(* The init container.                                                     *)

(* A step of the init container of p.                                      *)
LEMMA InitKeeps ==
  ASSUME IInv, NEW p \in Pods, NEW l \in InitSteps \cup {"owner"},
         pc[p] \in InitSteps, Goto(p, l),
         UNCHANGED <<pod, lock, leads, readyFile, app>>,
         pairs' \in Nat, bundle' \in 0..pairs',
         pair' \in [Pods -> 0..pairs'], crt' \in [Pods -> 0..pairs'],
         key' \in [Pods -> 0..pairs'],
         fresh' \subseteq Pods, faults' \in 0..MaxFaults,
         \A q \in Pods \ {p} :
           pair'[q] = pair[q] /\ crt'[q] = crt[q] /\ key'[q] = key[q],
         l # "generate" => pair'[p] # 0,
         l \in {"key", "get", "update", "owner"} => crt'[p] = pair'[p],
         l \in {"get", "update", "owner"} => key'[p] = pair'[p]
  PROVE  IInv'
<1>1. pc' = [pc EXCEPT ![p] = l]
      /\ pc \in [Pods -> {"none", "owner"} \cup InitSteps \cup MainSteps]
  BY StartAssumption
     DEF Goto, IInv, AppTypeOK, OperatorTypeOK, MainSteps, InitSteps
<1>2. /\ pc' \in [Pods -> {"none", "owner"} \cup InitSteps \cup MainSteps]
      /\ pc'[p] = l /\ \A q \in Pods \ {p} : pc'[q] = pc[q]
      /\ l # "none" /\ l # "serve" /\ pc[p] # "serve" /\ pc[p] # "none"
  BY <1>1 DEF InitSteps
<1>4. AppTypeOK'
  <2>1. OperatorTypeOK'
    BY <1>2, StartAssumption
       DEF IInv, AppTypeOK, OperatorTypeOK, MainSteps, InitSteps
  <2>2. QED
    BY <2>1 DEF IInv, AppTypeOK
<1>5. ProcessInv'
  BY <1>2 DEF IInv, ProcessInv
<1>6. LeadInv'
  <2>1. leads \subseteq Pods
    BY DEF IInv, AppTypeOK, OperatorTypeOK
  <2>2. QED
    BY <1>2, <2>1 DEF IInv, LeadInv
<1>7. PairInv'
  <2> SUFFICES ASSUME NEW q \in Pods
      PROVE
        /\ pc'[q] \notin {"none", "generate"} => pair'[q] # 0
        /\ pc'[q] \in {"key", "get", "update"} \/ Done(q)'
           => crt'[q] = pair'[q]
        /\ pc'[q] \in {"get", "update"} \/ Done(q)' => key'[q] = pair'[q]
    BY DEF PairInv
  <2>1. CASE q = p
    BY <1>2, <2>1 DEF Done, InitSteps
  <2>2. CASE q # p
    BY <1>2, <2>2 DEF IInv, PairInv, Done
  <2>3. QED
    BY <2>1, <2>2
<1>8. PathInv' /\ ProxyOnce'
  BY DEF IInv, PathInv, ProxyOnce
<1>9. QED
  BY <1>4, <1>5, <1>6, <1>7, <1>8 DEF IInv

LEMMA InitStepKeeps ==
  ASSUME IInv, NEW p \in Pods, InitStep(p)
  PROVE  IInv'
<1>1. /\ pairs \in Nat /\ bundle \in 0..pairs
      /\ pair \in [Pods -> 0..pairs] /\ crt \in [Pods -> 0..pairs]
      /\ key \in [Pods -> 0..pairs]
      /\ fresh \subseteq Pods /\ faults \in 0..MaxFaults
  BY DEF IInv, AppTypeOK, OperatorTypeOK
<1>2. /\ pc[p] \in {"certificate", "key", "get", "update"} => pair[p] # 0
      /\ pc[p] \in {"key", "get", "update"} => crt[p] = pair[p]
      /\ pc[p] \in {"get", "update"} => key[p] = pair[p]
  BY DEF IInv, PairInv
<1>3. UNCHANGED <<pod, lock, leads, readyFile, app>>
  BY DEF InitStep
<1>4. CASE Generate(p)
  <2>1. /\ pairs' \in Nat /\ bundle \in 0..pairs'
        /\ pair' \in [Pods -> 0..pairs'] /\ crt \in [Pods -> 0..pairs']
        /\ key \in [Pods -> 0..pairs'] /\ pair'[p] # 0
        /\ \A q \in Pods \ {p} : pair'[q] = pair[q]
    <3>1. pairs' = pairs + 1 /\ pair' = [pair EXCEPT ![p] = pairs + 1]
      BY <1>4 DEF Generate
    <3>2. 0..pairs \subseteq 0..pairs' /\ pairs' \in 0..pairs'
          /\ pairs' \in Nat /\ pairs' # 0
      BY <1>1, <3>1
    <3>3. QED
      BY <1>1, <3>1, <3>2
  <2>2. QED
    BY <1>1, <1>3, <1>4, <2>1, InitKeeps DEF Generate, InitSteps
<1>5. CASE WriteCertificate(p)
  <2>1. /\ crt' = [crt EXCEPT ![p] = pair[p]]
        /\ UNCHANGED <<pairs, pair, key, bundle, fresh, faults>>
        /\ Goto(p, "key") /\ pc[p] = "certificate"
    BY <1>5 DEF WriteCertificate
  <2>2. crt' \in [Pods -> 0..pairs] /\ crt'[p] = pair[p]
        /\ \A q \in Pods \ {p} : crt'[q] = crt[q]
    BY <1>1, <2>1
  <2>3. QED
    BY <1>1, <1>2, <1>3, <2>1, <2>2, InitKeeps DEF InitSteps
<1>6. CASE WriteKey(p)
  <2>1. /\ key' = [key EXCEPT ![p] = pair[p]]
        /\ UNCHANGED <<pairs, pair, crt, bundle, fresh, faults>>
        /\ Goto(p, "get") /\ pc[p] = "key"
    BY <1>6 DEF WriteKey
  <2>2. key' \in [Pods -> 0..pairs] /\ key'[p] = pair[p]
        /\ \A q \in Pods \ {p} : key'[q] = key[q]
    BY <1>1, <2>1
  <2>3. QED
    BY <1>1, <1>2, <1>3, <2>1, <2>2, InitKeeps DEF InitSteps
<1>7. CASE GetConfiguration(p)
  <2>1. fresh' \subseteq Pods
    BY <1>1, <1>7 DEF GetConfiguration
  <2>2. QED
    BY <1>1, <1>2, <1>3, <1>7, <2>1, InitKeeps
       DEF GetConfiguration, InitSteps
<1>8. CASE UpdateConfiguration(p)
  <2>1. bundle' \in 0..pairs /\ bundle' = pair[p]
    BY <1>1, <1>8 DEF UpdateConfiguration
  <2>2. QED
    BY <1>1, <1>2, <1>3, <1>8, <2>1, InitKeeps
       DEF UpdateConfiguration, InitSteps
<1>9. CASE UpdateConflict(p)
  BY <1>1, <1>3, <1>9, InitKeeps DEF UpdateConflict, InitSteps, certVars
<1>10. CASE InitFails(p)
  <2>1. /\ faults' \in 0..MaxFaults /\ bundle' \in 0..pairs
        /\ fresh' \subseteq Pods
        /\ UNCHANGED <<pairs, pair, crt, key>>
        /\ Goto(p, "generate") /\ pc[p] \in InitSteps
    BY <1>1, <1>10, Fewer DEF InitFails
  <2>2. QED
    BY <1>1, <1>3, <2>1, InitKeeps DEF InitSteps
<1>11. QED
  BY <1>4, <1>5, <1>6, <1>7, <1>8, <1>9, <1>10 DEF InitStep, InitContainer

-----------------------------------------------------------------------------
(* Those who use and edit what the operator serves.                        *)

LEMMA OutsideKeeps ==
  ASSUME IInv, ProxyOnce', PathInv',
         UNCHANGED <<pod, pc, lock, leads, readyFile, pairs, pair, crt, key,
                     bundle>>,
         fresh' \subseteq Pods, faults' \in 0..MaxFaults,
         app' \in Manifest \cup {NoApp}
  PROVE  IInv'
<1>1. AppTypeOK'
  BY DEF IInv, AppTypeOK, OperatorTypeOK
<1>2. (ProcessInv /\ LeadInv /\ PairInv)'
  BY DEF IInv, ProcessInv, LeadInv, PairInv, Done
<1>3. QED
  BY <1>1, <1>2 DEF IInv

(* What ProxyOnce asks of a manifest, Handle keeps.                        *)
LEMMA HandleKeeps ==
  ASSUME NEW m \in Manifest,
         m.proxies = (IF m.injected THEN 1 ELSE 0), m.injected => m.invited
  PROVE  /\ Handle(m) \in Manifest
         /\ Handle(m).proxies = (IF Handle(m).injected THEN 1 ELSE 0)
         /\ Handle(m).injected => Handle(m).invited
         /\ Handle(m).invited /\ Handle(m).parses => Handle(m).proxies = 1
<1>1. m.invited \in BOOLEAN /\ m.parses \in BOOLEAN
      /\ m.injected \in BOOLEAN /\ m.proxies \in Nat
  BY DEF Manifest
<1>2. CASE m.invited /\ ~m.injected /\ m.parses
  <2>1. m.proxies = 0
    BY <1>2
  <2> DEFINE n == [m EXCEPT !.proxies = 1]
             h == [n EXCEPT !.injected = TRUE]
  <2>2. Handle(m) = h
    BY <1>2, <2>1 DEF Handle
  <2>3. n \in Manifest /\ n.invited = m.invited /\ n.proxies = 1
    BY DEF Manifest
  <2> HIDE DEF n
  <2>4. h \in Manifest /\ h.injected = TRUE
        /\ h.invited = n.invited /\ h.proxies = n.proxies
    BY <2>3 DEF Manifest
  <2> HIDE DEF h
  <2>5. QED
    BY <1>2, <2>2, <2>3, <2>4
<1>3. CASE ~(m.invited /\ ~m.injected /\ m.parses)
  <2>1. Handle(m) = m
    BY <1>3 DEF Handle
  <2>2. m.invited /\ m.parses => m.injected
    BY <1>3
  <2>3. QED
    BY <1>1, <2>1, <2>2
<1>4. QED
  BY <1>2, <1>3

(* A manifest that is admitted satisfies ProxyOnce.                        *)
LEMMA Admitted ==
  ASSUME IInv, UserCreateApp \/ UserReplaceApp
  PROVE  \E m \in Manifest :
           /\ Admit(m)
           /\ m.proxies = (IF m.injected THEN 1 ELSE 0)
           /\ m.injected => m.invited
           /\ WebhookPath # proxyInjectPath => m.proxies = 0
<1>1. CASE UserCreateApp
  <2>1. PICK m \in NewManifests : Admit(m)
    BY <1>1 DEF UserCreateApp
  <2>2. m.injected = FALSE /\ m.proxies = 0 /\ m \in Manifest
    <3>1. m.injected = FALSE /\ m.proxies = 0
      BY DEF NewManifests
    <3>2. m = [invited |-> m.invited, parses |-> m.parses,
               injected |-> FALSE, proxies |-> 0]
      BY DEF NewManifests
    <3>3. ASSUME NEW i \in BOOLEAN, NEW j \in BOOLEAN
          PROVE  [invited |-> i, parses |-> j, injected |-> FALSE,
                  proxies |-> 0] \in Manifest
      BY DEF Manifest
    <3>4. m \in Manifest
      <4>1. m.invited \in BOOLEAN /\ m.parses \in BOOLEAN
        BY DEF NewManifests
      <4>2. QED
        BY <3>2, <3>3, <4>1, Zenon
    <3>5. QED
      BY <3>1, <3>4
  <2>3. QED
    BY <2>1, <2>2
<1>2. CASE UserReplaceApp
  <2>1. app \in Manifest /\ Admit(app)
    BY <1>2 DEF UserReplaceApp, IInv, AppTypeOK
  <2>2. app # NoApp
    BY <1>2 DEF UserReplaceApp
  <2>3. QED
    BY <2>1, <2>2 DEF IInv, ProxyOnce, PathInv
<1>3. QED
  BY <1>1, <1>2

LEMMA UserKeeps ==
  ASSUME IInv,
         \/ EditConfiguration \/ UserCreateApp \/ UserReplaceApp
         \/ UserDeleteApp \/ UNCHANGED appVars
  PROVE  IInv'
<1>1. fresh \subseteq Pods /\ faults \in 0..MaxFaults
      /\ app \in Manifest \cup {NoApp} /\ ProxyOnce /\ PathInv
  BY DEF IInv, AppTypeOK, OperatorTypeOK
<1>2. CASE EditConfiguration
  <2>1. faults' \in 0..MaxFaults
    BY <1>1, <1>2, Fewer DEF EditConfiguration
  <2>2. ProxyOnce' /\ PathInv'
    BY <1>1, <1>2 DEF EditConfiguration, ProxyOnce, PathInv
  <2>3. QED
    BY <1>1, <1>2, <2>1, <2>2, OutsideKeeps DEF EditConfiguration
<1>3. CASE UserCreateApp \/ UserReplaceApp
  <2>1. PICK m \in Manifest :
          /\ Admit(m)
          /\ m.proxies = (IF m.injected THEN 1 ELSE 0)
          /\ m.injected => m.invited
          /\ WebhookPath # proxyInjectPath => m.proxies = 0
    BY <1>3, Admitted
  <2>2. faults' \in 0..MaxFaults
    BY <1>1, <2>1, Fewer DEF Admit
  <2>3. \/ app' = m
        \/ app' = Handle(m) /\ WebhookPath = proxyInjectPath
    BY <2>1 DEF Admit, Answers
  <2>4. app' \in Manifest /\ ProxyOnce'
    BY <2>1, <2>3, HandleKeeps DEF ProxyOnce
  <2>5. PathInv'
    BY <2>1, <2>3 DEF PathInv
  <2>6. QED
    BY <1>1, <2>1, <2>2, <2>4, <2>5, OutsideKeeps
       DEF Admit, podVars, certVars
<1>4. CASE UserDeleteApp
  <2>1. ProxyOnce' /\ PathInv'
    BY <1>4 DEF UserDeleteApp, ProxyOnce, PathInv
  <2>2. QED
    BY <1>1, <1>4, <2>1, OutsideKeeps DEF UserDeleteApp, podVars, certVars
<1>5. CASE UNCHANGED appVars
  <2>1. ProxyOnce' /\ PathInv'
    BY <1>1, <1>5 DEF appVars, ProxyOnce, PathInv
  <2>2. QED
    BY <1>1, <1>5, <2>1, OutsideKeeps DEF appVars, podVars, certVars
<1>6. QED
  BY <1>2, <1>3, <1>4, <1>5

-----------------------------------------------------------------------------

LEMMA InitIInv == AppInit => IInv
<1> SUFFICES ASSUME AppInit PROVE IInv
  OBVIOUS
<1>1. /\ pod = [p \in Pods |-> IF p = 1 THEN "live" ELSE "none"]
      /\ pc = [p \in Pods |-> IF p = 1 THEN "generate" ELSE "none"]
      /\ lock = [p \in Pods |-> NoLock]
      /\ leads = {} /\ readyFile = {} /\ faults = 0
  BY StartAssumption DEF AppInit, OperatorInit
<1>2. 1 \in Pods /\ 0 \in 0..MaxFaults
  BY PodsAssumption DEF Pods
<1>3. OperatorTypeOK
  BY <1>1, <1>2, StartAssumption DEF OperatorTypeOK
<1>4. AppTypeOK
  BY <1>3 DEF AppTypeOK, AppInit
<1>5. ProcessInv /\ LeadInv
  BY <1>1 DEF ProcessInv, LeadInv
<1>6. PairInv
  BY <1>1 DEF PairInv, Done, InitSteps
<1>7. ProxyOnce /\ PathInv
  BY DEF AppInit, ProxyOnce, PathInv
<1>8. QED
  BY <1>4, <1>5, <1>6, <1>7 DEF IInv

LEMMA NextIInv == IInv /\ [AppNext]_appVars => IInv'
<1> SUFFICES ASSUME IInv, [AppNext]_appVars PROVE IInv'
  OBVIOUS
<1>1. CASE OperatorStep
  BY <1>1, OperatorKeeps
<1>2. CASE \E p \in Pods : InitStep(p)
  BY <1>2, InitStepKeeps
<1>3. CASE \/ EditConfiguration \/ UserCreateApp \/ UserReplaceApp
           \/ UserDeleteApp \/ UNCHANGED appVars
  BY <1>3, UserKeeps
<1>4. QED
  BY <1>1, <1>2, <1>3 DEF AppNext

(* The inductive invariant holds.                                          *)
LEMMA InvariantHolds == AppSpec => []IInv
BY InitIInv, NextIInv, PTL DEF AppSpec

(* Every variable has its type.                                            *)
THEOREM AppTypes == AppSpec => []AppTypeOK
<1>1. IInv => AppTypeOK
  BY DEF IInv
<1>2. QED
  BY <1>1, InvariantHolds, PTL

(* Who leads is the owner of its lock.                                     *)
THEOREM LeaderHoldsLockHolds == AppSpec => []LeaderHoldsLock
<1>1. IInv => LeaderHoldsLock
  BY DEF IInv, LeadInv, LeaderHoldsLock, LockName
<1>2. QED
  BY <1>1, InvariantHolds, PTL

(* No step of the operator starts a process after its init container.      *)
LEMMA OperatorTrusts ==
  ASSUME IInv, OperatorStep, NEW p \in Pods, Done(p)'
  PROVE  Done(p) /\ (Trusted(p)' <=> Trusted(p))
<1>1. Trusted(p)' <=> Trusted(p)
  BY DEF OperatorStep, certVars, Trusted
<1>2. PICK q \in Pods :
        PodStep(q) \/ DeploymentStep(q) \/ CollectLock(q)
  BY DEF OperatorStep, OperatorNext
<1>3. /\ p # q => pc'[p] = pc[p]
      /\ pc'[q] \in {pc[q], "none", "generate"} \/ pc[q] \in MainSteps
  <2>1. pc \in [Pods -> {FirstStep, "none"} \cup
                 {"certificate", "key", "get", "update"} \cup MainSteps]
    BY DEF IInv, AppTypeOK, OperatorTypeOK, MainSteps
  <2>2. CASE PodStep(q)
    BY <2>1, <2>2
       DEF PodStep, Main, Become, ReadOwner, FindLock, CreateLock, SetReady,
           StartManager, RestartContainer, BecomeFails, Exit, Goto, MainSteps
  <2>3. CASE DeploymentStep(q)
    BY <2>1, <2>3, StartAssumption
       DEF DeploymentStep, Rollout, Replace, Evict, RemoveOld, Terminate,
           CreatePod, DeletePod, Goto
  <2>4. CASE CollectLock(q)
    BY <2>4 DEF CollectLock
  <2>5. QED
    BY <1>2, <2>2, <2>3, <2>4
<1>4. Done(p)
  BY <1>3, Distinct DEF Done, InitSteps
<1>5. QED
  BY <1>1, <1>4

(* The init container of q leaves the other pods as they are.              *)
LEMMA InitTrusts ==
  ASSUME IInv, NEW p \in Pods, NEW q \in Pods, InitStep(q),
         Done(p)', ~Trusted(p)'
  PROVE  /\ Done(p)
         /\ Trusted(p) => /\ q # p /\ pc[q] = "update"
                          /\ bundle' = pair[q]
<1>1. /\ pc \in [Pods -> {FirstStep, "none"} \cup
                   {"certificate", "key", "get", "update"} \cup MainSteps]
      /\ pair \in [Pods -> 0..pairs] /\ crt \in [Pods -> 0..pairs]
      /\ key \in [Pods -> 0..pairs]
  BY DEF IInv, AppTypeOK, OperatorTypeOK, MainSteps
<1>2. q # p
  <2>1. ASSUME q = p PROVE FALSE
    <3>1. UpdateConfiguration(p)
      BY <1>1, <2>1
         DEF InitStep, InitContainer, Generate, WriteCertificate, WriteKey,
             GetConfiguration, UpdateConflict, InitFails, Done, Goto,
             InitSteps
    <3>2. bundle' = pair[p] /\ crt'[p] = pair[p] /\ key'[p] = pair[p]
          /\ pair[p] # 0
      BY <3>1 DEF UpdateConfiguration, IInv, PairInv
    <3>3. QED
      BY <3>2 DEF Trusted
  <2>2. QED
    BY <2>1
<1>3. pc'[p] = pc[p] /\ crt'[p] = crt[p] /\ key'[p] = key[p]
  BY <1>1, <1>2
     DEF InitStep, InitContainer, Generate, WriteCertificate, WriteKey,
         GetConfiguration, UpdateConfiguration, UpdateConflict, InitFails,
         Goto, certVars
<1>4. bundle' # bundle => pc[q] = "update" /\ bundle' = pair[q]
  BY DEF InitStep, InitContainer, Generate, WriteCertificate, WriteKey,
         GetConfiguration, UpdateConfiguration, UpdateConflict, InitFails,
         certVars
<1>5. QED
  BY <1>2, <1>3, <1>4 DEF Done, Trusted

(***************************************************************************)
(* A pod is trusted from the end of its init container until that of       *)
(* another pod overtakes it: for any number of pods, rolling updates,      *)
(* deletions, faults and conflicts.                                        *)
(***************************************************************************)
THEOREM TrustedUntilOvertakenHolds == AppSpec => TrustedUntilOvertaken
<1>1. ASSUME IInv, [AppNext]_appVars, NEW p \in Pods,
             Done(p)', ~Trusted(p)'
      PROVE  /\ Done(p)
             /\ Trusted(p) => \E q \in Pods \ {p} : /\ pc[q] = "update"
                                                   /\ bundle' = pair[q]
  <2>1. CASE OperatorStep
    BY <1>1, <2>1, OperatorTrusts
  <2>2. CASE \E q \in Pods : InitStep(q)
    BY <1>1, <2>2, InitTrusts
  <2>3. CASE \/ EditConfiguration \/ UserCreateApp \/ UserReplaceApp
             \/ UserDeleteApp \/ UNCHANGED appVars
    <3>1. UNCHANGED <<pc, crt, key, bundle>>
      BY <2>3 DEF EditConfiguration, UserCreateApp, UserReplaceApp, Admit,
                  UserDeleteApp, appVars, podVars, certVars
    <3>2. QED
      BY <1>1, <3>1 DEF Done, Trusted
  <2>4. QED
    BY <1>1, <2>1, <2>2, <2>3 DEF AppNext
<1>2. IInv /\ [AppNext]_appVars => [KeepsTrust]_appVars
  BY <1>1 DEF KeepsTrust
<1>3. QED
  BY <1>2, InvariantHolds, PTL DEF AppSpec, TrustedUntilOvertaken

(* An application pod never has two proxies, or one it does not ask for.   *)
THEOREM ProxyOnceHolds == AppSpec => []ProxyOnce
<1>1. IInv => ProxyOnce
  BY DEF IInv
<1>2. QED
  BY <1>1, InvariantHolds, PTL

(* The certificate and the key of a pod that serves are of its last pair.  *)
LEMMA ServingTrusted ==
  ASSUME IInv, NEW p \in Pods, pc[p] = "serve", bundle = pair[p]
  PROVE  Trusted(p)
<1>1. Done(p)
  BY DEF Done, InitSteps
<1>2. QED
  BY <1>1 DEF IInv, PairInv, Trusted

LEMMA StepInjects ==
  ASSUME IInv, [AppNext]_appVars,
         app' # app, app' # NoApp, UNCHANGED faults,
         NEW p \in Ready, Ready = {p}, pc[p] = "serve", bundle = pair[p],
         app'.invited, app'.parses
  PROVE  app'.proxies = IF WebhookPath = proxyInjectPath THEN 1 ELSE 0
<1>1. UserCreateApp \/ UserReplaceApp
  BY DEF AppNext, OperatorStep, InitStep, EditConfiguration, UserDeleteApp,
         appVars
<1>2. PICK m \in Manifest :
        /\ Admit(m)
        /\ m.proxies = (IF m.injected THEN 1 ELSE 0)
        /\ m.injected => m.invited
        /\ WebhookPath # proxyInjectPath => m.proxies = 0
  BY <1>1, Admitted
<1>3. ~Fault
  <2>1. faults \in Nat
    BY PodsAssumption DEF IInv, AppTypeOK, OperatorTypeOK
  <2>2. QED
    BY <2>1 DEF Fault
<1>4. Trusted(p)
  BY ServingTrusted DEF Ready, Live
<1>5. CASE WebhookPath = proxyInjectPath
  <2>1. app' = Handle(m)
    BY <1>2, <1>3, <1>4, <1>5 DEF Admit, Answers
  <2>2. QED
    BY <1>2, <1>5, <2>1, HandleKeeps
<1>6. CASE WebhookPath # proxyInjectPath
  BY <1>2, <1>6 DEF Admit, Answers
<1>7. QED
  BY <1>5, <1>6

(***************************************************************************)
(* InjectedWhenCurrent, for any number of pods, faults and rolling         *)
(* updates, whatever path the webhook is registered at.                    *)
(***************************************************************************)
THEOREM InjectedWhenCurrentHolds == AppSpec => InjectedWhenCurrent
<1>1. IInv /\ [AppNext]_appVars =>
        [(/\ app' # NoApp /\ UNCHANGED faults
          /\ \E p \in Ready :
               Ready = {p} /\ pc[p] = "serve" /\ bundle = pair[p])
         => (app'.invited /\ app'.parses
             => app'.proxies = IF WebhookPath = proxyInjectPath
                               THEN 1 ELSE 0)]_app
  BY StepInjects
<1>2. QED
  BY <1>1, InvariantHolds, PTL DEF AppSpec, InjectedWhenCurrent

=============================================================================
