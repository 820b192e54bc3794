------------------------------- MODULE Operator -------------------------------
(***************************************************************************)
(* The life of an operator's pods: cmd/topo-operator/main.go and           *)
(* cmd/app-operator/main.go up to mgr.Start, leader election               *)
(* (pkg/controller/util/leader/leader.go), the readiness file              *)
(* (pkg/controller/util/ready/ready.go), and the Deployment of one replica *)
(* that runs them (deploy/onos-operator.yaml), with its rolling updates.   *)
(*                                                                         *)
(* Pods are numbered in the order of their creation; a name is not used    *)
(* again.  The lock of leader election is a ConfigMap with the pod that    *)
(* created it as its owner.                                                *)
(***************************************************************************)
EXTENDS Naturals, FiniteSets

CONSTANTS
  MaxPods,     \* bound on the pods that are ever created
  MaxFaults,   \* bound on failed calls and crashes
  FirstStep    \* where a pod starts: "owner", or in an init container

ASSUME PodsAssumption == MaxPods \in Nat \ {0} /\ MaxFaults \in Nat

Pods == 1..MaxPods

VARIABLES
  pod,        \* pod[p]: "none", "live", "terminating" or "gone"
  pc,         \* pc[p]: where the process of p is
  lock,       \* lock[n]: the owner of ConfigMap n, or NoLock
  leads,      \* the pods whose leader.Become has returned nil
  readyFile,  \* the pods whose readiness file is there
  faults

podVars == <<pod, pc, lock, leads, readyFile, faults>>

NoLock == 0
Unowned == MaxPods + 1  \* a ConfigMap without an owner

Live == {p \in Pods : pod[p] = "live"}

(* The readiness probe is a stat of the file in the running container.     *)
Ready == {p \in Live : p \in readyFile /\ pc[p] # "down"}

OperatorInit ==
  /\ pod = [p \in Pods |-> IF p = 1 THEN "live" ELSE "none"]
  /\ pc = [p \in Pods |-> IF p = 1 THEN FirstStep ELSE "none"]
  /\ lock = [p \in Pods |-> NoLock]
  /\ leads = {}
  /\ readyFile = {}
  /\ faults = 0

Goto(p, label) == pc' = [pc EXCEPT ![p] = label]

Fault == faults < MaxFaults /\ faults' = faults + 1

-----------------------------------------------------------------------------
(* leader.Become, by the process of pod p.                                 *)

(* Deviation: one name for the locks of all pods.                          *)
LockNameShared(p) == 1

(* The lock bears the name of the pod (leader.go:73 and :99).              *)
LockName(p) == p

(* myOwnerRef: the pod reads itself.                                       *)
ReadOwner(p) ==
  /\ pc[p] = "owner"
  /\ Goto(p, "lookup")
  /\ UNCHANGED <<pod, lock, leads, readyFile, faults>>

(* Deviation: a restarted pod does not look for its lock.                  *)
FindLockNever(p) ==
  /\ pc[p] = "lookup"
  /\ Goto(p, "create")
  /\ UNCHANGED <<pod, lock, leads, readyFile, faults>>

(* "check for existing lock from this pod, in case we got restarted"       *)
FindLock(p) ==
  /\ pc[p] = "lookup"
  /\ IF lock[LockName(p)] = p
     THEN Goto(p, "ready") /\ leads' = leads \cup {p}
     ELSE Goto(p, "create") /\ UNCHANGED leads
  /\ UNCHANGED <<pod, lock, readyFile, faults>>

(* Deviation: the lock has no owner.                                       *)
CreateLockUnowned(p) ==
  /\ pc[p] = "create"
  /\ lock[LockName(p)] = NoLock
  /\ lock' = [lock EXCEPT ![LockName(p)] = Unowned]
  /\ leads' = leads \cup {p}
  /\ Goto(p, "ready")
  /\ UNCHANGED <<pod, readyFile, faults>>

(* The loop of Create: while the lock exists the pod waits.                *)
CreateLock(p) ==
  /\ pc[p] = "create"
  /\ lock[LockName(p)] = NoLock
  /\ lock' = [lock EXCEPT ![LockName(p)] = p]
  /\ leads' = leads \cup {p}
  /\ Goto(p, "ready")
  /\ UNCHANGED <<pod, readyFile, faults>>

(* Deviation: whatever Create answers, the pod leads.                      *)
BecomeFailsLeading(p) ==
  /\ pc[p] \in {"owner", "lookup", "create"}
  /\ Fault
  /\ leads' = leads \cup {p}
  /\ Goto(p, "ready")
  /\ UNCHANGED <<pod, lock, readyFile>>

(***************************************************************************)
(* A call of Become fails, the Create perhaps after it took effect.  main  *)
(* drops the error and goes on.                                            *)
(***************************************************************************)
BecomeFails(p) ==
  /\ pc[p] \in {"owner", "lookup", "create"}
  /\ Fault
  /\ \/ UNCHANGED lock
     \/ /\ pc[p] = "create" /\ lock[LockName(p)] = NoLock
        /\ lock' = [lock EXCEPT ![LockName(p)] = p]
  /\ Goto(p, "ready")
  /\ UNCHANGED <<pod, leads, readyFile>>

-----------------------------------------------------------------------------
(* The rest of main.                                                       *)

SetReady(p) ==
  /\ pc[p] = "ready"
  /\ readyFile' = readyFile \cup {p}
  /\ Goto(p, "setup")
  /\ UNCHANGED <<pod, lock, leads, faults>>

(* manager.New, AddToScheme, the controllers or the webhook, mgr.Start.    *)
StartManager(p) ==
  /\ pc[p] = "setup"
  /\ Goto(p, "serve")
  /\ UNCHANGED <<pod, lock, leads, readyFile, faults>>

(* os.Exit(1), or a crash: the deferred Unset does not run.                *)
Exit(p) ==
  /\ pc[p] \in {"ready", "setup", "serve"}
  /\ pod[p] = "live"
  /\ Fault
  /\ leads' = leads \ {p}
  /\ Goto(p, "down")
  /\ UNCHANGED <<pod, lock, readyFile>>

(* A new container: a new file system, the same pod.                       *)
RestartContainer(p) ==
  /\ pc[p] = "down" /\ pod[p] = "live"
  /\ readyFile' = readyFile \ {p}
  /\ Goto(p, "owner")
  /\ UNCHANGED <<pod, lock, leads, faults>>

-----------------------------------------------------------------------------
(* The Deployment, the kubelet and the garbage collector.                  *)

(***************************************************************************)
(* A pod is deleted.  mgr.Start has installed the handler of SIGTERM; a    *)
(* process that is not there yet dies at once.                             *)
(***************************************************************************)
DeletePod(p) ==
  /\ pod[p] = "live"
  /\ IF pc[p] = "serve"
     THEN /\ pod' = [pod EXCEPT ![p] = "terminating"]
          /\ UNCHANGED <<pc, leads, readyFile>>
     ELSE /\ pod' = [pod EXCEPT ![p] = "gone"]
          /\ Goto(p, "none")
          /\ leads' = leads \ {p}
          /\ readyFile' = readyFile \ {p}
  /\ UNCHANGED <<lock, faults>>

(* mgr.Start returns, the deferred Unset removes the file, main ends.      *)
Terminate(p) ==
  /\ pod[p] = "terminating"
  /\ pod' = [pod EXCEPT ![p] = "gone"]
  /\ Goto(p, "none")
  /\ leads' = leads \ {p}
  /\ readyFile' = readyFile \ {p}
  /\ UNCHANGED <<lock, faults>>

(* The collector deletes a lock whose owner is gone.                       *)
CollectLock(n) ==
  /\ lock[n] \in Pods /\ pod[lock[n]] = "gone"
  /\ lock' = [lock EXCEPT ![n] = NoLock]
  /\ UNCHANGED <<pod, pc, leads, readyFile, faults>>

CreatePod(p) ==
  /\ pod[p] = "none"
  /\ \A q \in 1..(p - 1) : pod[q] # "none"
  /\ pod' = [pod EXCEPT ![p] = "live"]
  /\ Goto(p, FirstStep)
  /\ UNCHANGED <<lock, leads, readyFile, faults>>

(***************************************************************************)
(* A second pod next to the one there is (maxSurge): a rolling update      *)
(* begins, whatever that pod is doing, or the pod that it has lost is      *)
(* replaced.                                                               *)
(***************************************************************************)
Rollout(p) == Cardinality(Live) = 1 /\ CreatePod(p)

Replace(p) == Live = {} /\ CreatePod(p)

(***************************************************************************)
(* Any pod is deleted at any time: it is evicted, its node is drained, or  *)
(* the Deployment drops it because the update is undone or overtaken by    *)
(* another.                                                                *)
(***************************************************************************)
Evict(p) == DeletePod(p)

(***************************************************************************)
(* The Deployment removes the older of two pods when the newer one is      *)
(* ready, or the older one is not.                                         *)
(***************************************************************************)
RemoveOld(p) ==
  /\ \E q \in Live : q > p /\ (q \in Ready \/ p \notin Ready)
  /\ DeletePod(p)

-----------------------------------------------------------------------------

Become(p) == ReadOwner(p) \/ FindLock(p) \/ CreateLock(p)

Main(p) == Become(p) \/ SetReady(p) \/ StartManager(p) \/ RestartContainer(p)

PodStep(p) == Main(p) \/ BecomeFails(p) \/ Exit(p)

DeploymentStep(p) ==
  Rollout(p) \/ Replace(p) \/ Evict(p) \/ RemoveOld(p) \/ Terminate(p)

OperatorNext ==
  \E p \in Pods : PodStep(p) \/ DeploymentStep(p) \/ CollectLock(p)

OperatorSpec == OperatorInit /\ [][OperatorNext]_podVars

-----------------------------------------------------------------------------
(* Properties.                                                             *)

(* Every variable has its type.                                            *)
OperatorTypeOK ==
  /\ pod \in [Pods -> {"none", "live", "terminating", "gone"}]
  /\ pc \in [Pods -> {FirstStep, "none", "certificate", "key", "get",
                      "update", "owner", "lookup", "create", "ready",
                      "setup", "serve", "down"}]
  /\ lock \in [Pods -> Pods \cup {NoLock, Unowned}]
  /\ leads \subseteq Pods
  /\ readyFile \subseteq Pods
  /\ faults \in 0..MaxFaults

(***************************************************************************)
(* "Only one can exist at a time with the same name, so the pod that       *)
(* successfully creates the ConfigMap is the leader" (leader.go:32): no    *)
(* two pods of an operator lead at the same time.                          *)
(***************************************************************************)
AtMostOneLeader == Cardinality(leads) <= 1

(***************************************************************************)
(* Who leads is the owner of its lock: through failed and lost calls,      *)
(* crashes, restarts and the garbage collector.                            *)
(***************************************************************************)
LeaderHoldsLock == \A p \in leads : lock[LockName(p)] = p

(* "Upon termination of that pod, the garbage collector will delete the    *)
(* ConfigMap" (leader.go:34): no pod leaves its lock for ever.             *)
LocksCollected ==
  \A p \in Pods : pod[p] = "gone" ~> lock[LockName(p)] = NoLock

(* A pod comes to serve, unless it is deleted, also when it is restarted   *)
(* after it has created its lock.                                          *)
EventuallyServing ==
  \A p \in Pods : pod[p] = "live" ~> pc[p] = "serve" \/ pod[p] # "live"

(***************************************************************************)
(* A rolling update comes to its end: the new pod, which is ready only     *)
(* after leader election, does not wait for the old one, which goes only   *)
(* when the new one is ready.                                              *)
(***************************************************************************)
RolloutEnds == Cardinality(Live) > 1 ~> Cardinality(Live) <= 1

(***************************************************************************)
(* "Ready holds state about whether the operator is ready and communicates *)
(* that to a Kubernetes readiness probe" (ready.go:11): the pod whose      *)
(* readiness lets the Deployment remove one that serves is serving.        *)
(***************************************************************************)
RolloutServes ==
  [][\A p \in Pods : RemoveOld(p) /\ pc[p] = "serve"
       => \E q \in Live \ {p} : pc[q] = "serve"]_podVars

=============================================================================
