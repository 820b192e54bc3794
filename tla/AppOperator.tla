----------------------------- MODULE AppOperator -----------------------------
(***************************************************************************)
(* The app operator: an Operator whose pods first run the init container   *)
(* of cmd/admission-init/main.go, and whose manager serves the webhook of  *)
(* pkg/controller/app/sidecar/injector.go, which adds a proxy container to *)
(* the application pods that ask for one.                                  *)
(*                                                                         *)
(* A certificate authority, its certificate and its key are one number,    *)
(* the pair they were generated in.  The API server calls the webhook      *)
(* through the Service of the operator and trusts the CA bundle of the     *)
(* MutatingWebhookConfiguration, which all pods share.  It admits a pod as *)
(* it is when the call fails (failurePolicy: Ignore).                      *)
(***************************************************************************)
EXTENDS Operator

CONSTANTS
  NameEnv,            \* the environment variable CONTROLLER_NAME, or ""
  ConfigurationName,  \* the name of the MutatingWebhookConfiguration
  WebhookPath,        \* the path it calls
  NoApp

(* A pod begins with its init container.                                   *)
ASSUME StartAssumption == FirstStep = "generate"

VARIABLES
  pairs,   \* the number of pairs generated
  pair,    \* pair[p]: the one in memory of the init container of p
  crt,     \* crt[p]: tls.crt in the volume of p
  key,     \* key[p]: tls.key in the volume of p
  bundle,  \* the CA bundle of the configuration
  fresh,   \* the pods that have read the configuration as it still is
  app      \* an application pod, or NoApp

certVars == <<pairs, pair, crt, key, bundle, fresh>>
appVars == <<podVars, certVars, app>>

(* What an application pod says of proxies, and the proxies it has.        *)
(* invited: the annotation that asks for a proxy is there and is true.     *)
(* parses: the quantities of the other annotations, if any, are valid.     *)
Manifest == [invited : BOOLEAN, parses : BOOLEAN, injected : BOOLEAN,
             proxies : Nat]

ASSUME NoAppAssumption == NoApp \notin Manifest

AppInit ==
  /\ OperatorInit
  /\ pairs = 0
  /\ pair = [p \in Pods |-> 0]
  /\ crt = [p \in Pods |-> 0]
  /\ key = [p \in Pods |-> 0]
  /\ bundle = 0
  /\ fresh = {}
  /\ app = NoApp

-----------------------------------------------------------------------------
(* The init container.                                                     *)

InitSteps == {"generate", "certificate", "key", "get", "update"}

GetName(default) == IF NameEnv = "" THEN default ELSE NameEnv

(* Deviation: the pair is not a new one.                                   *)
GenerateUncounted(p) ==
  /\ pc[p] = "generate"
  /\ pair' = [pair EXCEPT ![p] = pairs + 1]
  /\ Goto(p, "certificate")
  /\ UNCHANGED <<pairs, crt, key, bundle, fresh, faults>>

Generate(p) ==
  /\ pc[p] = "generate"
  /\ pairs' = pairs + 1
  /\ pair' = [pair EXCEPT ![p] = pairs + 1]
  /\ Goto(p, "certificate")
  /\ UNCHANGED <<crt, key, bundle, fresh, faults>>

WriteCertificate(p) ==
  /\ pc[p] = "certificate"
  /\ crt' = [crt EXCEPT ![p] = pair[p]]
  /\ Goto(p, "key")
  /\ UNCHANGED <<pairs, pair, key, bundle, fresh, faults>>

(* Deviation: a key that an earlier run has written is kept.               *)
WriteKeyOnce(p) ==
  /\ pc[p] = "key"
  /\ key' = [key EXCEPT ![p] = IF @ = 0 THEN pair[p] ELSE @]
  /\ Goto(p, "get")
  /\ UNCHANGED <<pairs, pair, crt, bundle, fresh, faults>>

WriteKey(p) ==
  /\ pc[p] = "key"
  /\ key' = [key EXCEPT ![p] = pair[p]]
  /\ Goto(p, "get")
  /\ UNCHANGED <<pairs, pair, crt, bundle, fresh, faults>>

GetConfiguration(p) ==
  /\ pc[p] = "get"
  /\ GetName("onos-operator") = ConfigurationName
  /\ fresh' = fresh \cup {p}
  /\ Goto(p, "update")
  /\ UNCHANGED <<pairs, pair, crt, key, bundle, faults>>

(* Every webhook of the configuration gets the new bundle.                 *)
UpdateConfiguration(p) ==
  /\ pc[p] = "update" /\ p \in fresh
  /\ bundle' = pair[p]
  /\ fresh' = {}
  /\ Goto(p, "owner")
  /\ UNCHANGED <<pairs, pair, crt, key, faults>>

(* Deviation: the error of a refused Update is dropped.                    *)
UpdateConflictDropped(p) ==
  /\ pc[p] = "update" /\ p \notin fresh
  /\ Goto(p, "owner")
  /\ UNCHANGED <<certVars, faults>>

(* Someone has written the configuration since: log.Panic, a new container.*)
UpdateConflict(p) ==
  /\ pc[p] = "update" /\ p \notin fresh
  /\ Goto(p, "generate")
  /\ UNCHANGED <<certVars, faults>>

(* A file or a call fails, the Update perhaps after it took effect.        *)
InitFails(p) ==
  /\ pc[p] \in InitSteps \ {"generate"}
  /\ Fault
  /\ \/ UNCHANGED <<bundle, fresh>>
     \/ /\ pc[p] = "update" /\ p \in fresh
        /\ bundle' = pair[p] /\ fresh' = {}
  /\ Goto(p, "generate")
  /\ UNCHANGED <<pairs, pair, crt, key>>

InitContainer(p) ==
  \/ Generate(p) \/ WriteCertificate(p) \/ WriteKey(p)
  \/ GetConfiguration(p) \/ UpdateConfiguration(p) \/ UpdateConflict(p)

(* Someone else writes the configuration, and leaves the bundle alone.     *)
EditConfiguration ==
  /\ Fault
  /\ fresh' = {}
  /\ UNCHANGED <<pod, pc, lock, leads, readyFile, pairs, pair, crt, key,
                 bundle, app>>

-----------------------------------------------------------------------------
(* The webhook.                                                            *)

proxyInjectPath == "/inject-proxy"

(* Deviation: the status annotation is not looked at.                      *)
HandleAgain(m) ==
  IF m.invited /\ m.parses
  THEN [m EXCEPT !.proxies = @ + 1, !.injected = TRUE] ELSE m

(* ProxyInjector.Handle.  A quantity that does not parse is a panic, which *)
(* fails the call: the pod is admitted as it is.                           *)
Handle(m) ==
  IF m.invited /\ ~m.injected /\ m.parses
  THEN [m EXCEPT !.proxies = @ + 1, !.injected = TRUE] ELSE m

Trusted(p) == bundle # 0 /\ crt[p] = bundle /\ key[p] = bundle

Answers(p) ==
  pc[p] = "serve" /\ Trusted(p) /\ WebhookPath = proxyInjectPath

(* The API server creates an application pod from manifest m.              *)
Admit(m) ==
  /\ \/ \E p \in Ready : Answers(p) /\ app' = Handle(m) /\ UNCHANGED faults
     \/ /\ Ready = {} \/ \E p \in Ready : ~Answers(p)
        /\ app' = m /\ UNCHANGED faults
     \/ Fault /\ app' = m
  /\ UNCHANGED <<pod, pc, lock, leads, readyFile, certVars>>

NewManifests == [invited : BOOLEAN, parses : BOOLEAN, injected : {FALSE},
                 proxies : {0}]

UserCreateApp == app = NoApp /\ \E m \in NewManifests : Admit(m)

(* A pod is created again from the manifest it was exported to.            *)
UserReplaceApp == app # NoApp /\ Admit(app)

UserDeleteApp ==
  /\ app # NoApp
  /\ app' = NoApp
  /\ UNCHANGED <<podVars, certVars>>

-----------------------------------------------------------------------------

OperatorStep ==
  /\ OperatorNext
  /\ UNCHANGED <<certVars, app>>

InitStep(p) ==
  /\ InitContainer(p) \/ InitFails(p)
  /\ UNCHANGED <<pod, lock, leads, readyFile, app>>

AppNext ==
  \/ OperatorStep
  \/ \E p \in Pods : InitStep(p)
  \/ EditConfiguration \/ UserCreateApp \/ UserReplaceApp \/ UserDeleteApp

AppSpec == AppInit /\ [][AppNext]_appVars

(***************************************************************************)
(* Processes go on, the kubelet restarts containers and ends pods, the     *)
(* Deployment replaces and removes pods, the collector collects.  Nobody   *)
(* has to start a rolling update, and nothing has to fail.                 *)
(***************************************************************************)
Fairly(A) == A /\ UNCHANGED <<certVars, app>>

AppFairness ==
  \A p \in Pods :
    /\ WF_appVars(InitContainer(p) /\ UNCHANGED <<pod, lock, leads,
                                                  readyFile, app>>)
    /\ WF_appVars(Fairly(Main(p)))
    /\ WF_appVars(Fairly(Replace(p) \/ RemoveOld(p) \/ Terminate(p)))
    /\ WF_appVars(Fairly(CollectLock(p)))

FairAppSpec == AppSpec /\ AppFairness

-----------------------------------------------------------------------------
(* Properties.                                                             *)

(* Every variable has its type.                                            *)
AppTypeOK ==
  /\ OperatorTypeOK
  /\ pairs \in Nat /\ bundle \in 0..pairs
  /\ pair \in [Pods -> 0..pairs]
  /\ crt \in [Pods -> 0..pairs] /\ key \in [Pods -> 0..pairs]
  /\ fresh \subseteq Pods
  /\ app \in Manifest \cup {NoApp}

(* The init container of p is done.                                        *)
Done(p) == pc[p] \notin InitSteps \cup {"none"}

KeepsTrust ==
  \A p \in Pods : Done(p)' /\ ~Trusted(p)' =>
    /\ Done(p)
    /\ Trusted(p) => \E q \in Pods \ {p} : /\ pc[q] = "update"
                                          /\ bundle' = pair[q]

(***************************************************************************)
(* The API server trusts a pod from the end of its init container, and as  *)
(* long as the init container of no other pod writes the CA bundle that    *)
(* they share: whatever was generated, written and refused before, in a    *)
(* volume that outlives the container, the certificate and the key belong  *)
(* together and to the bundle.                                             *)
(***************************************************************************)
TrustedUntilOvertaken == [][KeepsTrust]_appVars

(***************************************************************************)
(* An application pod has at most one proxy, only if it asks for it, and   *)
(* the status annotation says so, however often it passes the webhook and  *)
(* however many operators answer.                                          *)
(***************************************************************************)
ProxyOnce ==
  app # NoApp =>
    /\ app.proxies = (IF app.injected THEN 1 ELSE 0)
    /\ app.injected => app.invited

(***************************************************************************)
(* "If this annotation is present and its value is `true`, the deployment  *)
(* request will be augmented" (README.md:36-38): when the one pod that is  *)
(* ready serves, and the bundle is of its last pair, every application pod *)
(* that asks for a proxy, and whose call does not fail, gets one, after    *)
(* whatever failures and restarts of the init container; and none does     *)
(* when the configuration calls another path than the operator serves, as  *)
(* the one in deploy/onos-operator.yaml:405 does.                          *)
(***************************************************************************)
InjectedWhenCurrent ==
  [][(/\ app' # NoApp /\ UNCHANGED faults
      /\ \E p \in Ready : Ready = {p} /\ pc[p] = "serve" /\ bundle = pair[p])
     => (app'.invited /\ app'.parses
         => app'.proxies = IF WebhookPath = proxyInjectPath
                           THEN 1 ELSE 0)]_app

-----------------------------------------------------------------------------
(* The invariant behind these properties.                                  *)

(* A process runs in a pod that is there; a pod that ends was serving.     *)
ProcessInv ==
  \A p \in Pods : /\ pc[p] # "none" => pod[p] \in {"live", "terminating"}
                  /\ pod[p] = "terminating" => pc[p] = "serve"

LeadInv == \A p \in leads : lock[p] = p /\ pc[p] # "none"

(* What the init container has done so far.                                *)
PairInv ==
  \A p \in Pods :
    /\ pc[p] \notin {"none", "generate"} => pair[p] # 0
    /\ pc[p] \in {"key", "get", "update"} \/ Done(p) => crt[p] = pair[p]
    /\ pc[p] \in {"get", "update"} \/ Done(p) => key[p] = pair[p]

(* At another path nothing is injected.                                    *)
PathInv == app # NoApp /\ WebhookPath # proxyInjectPath => app.proxies = 0

IInv ==
  AppTypeOK /\ ProcessInv /\ LeadInv /\ PairInv /\ PathInv /\ ProxyOnce

=============================================================================
