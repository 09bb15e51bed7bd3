------------------------------ MODULE Rotation ------------------------------
(***************************************************************************)
(* The orchestrator: the Lambda function that every two hours moves the    *)
(* game server to a new region (src/orchestrator/lambda_function.py), with *)
(* the part of the cloud it reads and writes: the SSM parameter            *)
(* last_used_region, the instances of every region, the two player ports   *)
(* of every region's security group, the DNS record and the Discord        *)
(* channel.                                                                *)
(*                                                                         *)
(* One action is one external call of the handler with the code around it. *)
(* The sleeps of the handler order nothing by themselves and are left out: *)
(* any other actor may act between two calls.  Nothing in the deployment   *)
(* serialises invocations, so the handler's locals are indexed by          *)
(* Invocations.  What can go wrong is named by Faults, and at most         *)
(* MaxFaults faults happen in a behaviour.                                 *)
(***************************************************************************)
EXTENDS Naturals, FiniteSets

CONSTANTS
    Regions,        \* the keys of REGION_NAMES
    Instances,      \* EC2 instance ids; an id stands for its public IP too
    Windows,        \* the instances whose Name tag is WindowsServer
    Invocations,    \* invocations of the handler that may overlap
    NoRegion, NoInstance,
    Faults,         \* the kinds of fault that may happen
    MaxFaults       \* bound on the number of faults

FaultKinds ==
    { "api",        \* a call of the handler raises an exception
      "sg",         \* a security-group call raises, and is swallowed
      "lost",       \* run_instances takes effect but its answer is lost
      "boot",       \* an instance dies before it is running
      "post",       \* the agent does not take the POST
      "discord",    \* the announcement is not delivered
      "kill",       \* Lambda stops the invocation (its 900 s timeout)
      "apply" }     \* an operator runs terraform apply

ASSUME RotationAssumption ==
    /\ NoRegion \notin Regions
    /\ NoInstance \notin Instances
    /\ Windows \subseteq Instances
    /\ \E r1, r2 \in Regions : r1 # r2
    /\ Faults \subseteq FaultKinds
    /\ MaxFaults \in Nat

VARIABLES
    lastUsed,       \* SSM parameter last_used_region
    status, host,   \* EC2: the state and the region of every instance
    located,        \* the instances whose agent took /update-location
    open,           \* the player ports open in every region's group "ec2"
    dns,            \* the instance the A record of war.pianka.io names
    announced,      \* the instance named by the last Discord message
    pc, region, fresh, todo, victims,   \* the locals of every invocation
    inherited,      \* history: the servers that were running when it began
    faults, met     \* how many faults have happened, and of which kinds

cloud  == <<lastUsed, status, host, located, open, dns, announced>>
locals == <<region, fresh, todo, victims, inherited>>
budget == <<faults, met>>
vars   == <<cloud, pc, locals, budget>>

Bncs  == "6112"
Wss   == "443"
Ports == {Bncs, Wss}

AtRest == {"idle", "done"}
Steps  == {"choose", "record", "lookup", "revoke", "revoke443", "launch",
           "await", "address", "post", "sweep", "allow", "announce",
           "allow443"}

-----------------------------------------------------------------------------
(* Helpers. *)

\* The game servers that are up: the running instances that are not the
\* Windows box.
Servers == {i \in Instances \ Windows : status[i] = "running"}

\* A variant with a bug: the last region is not excluded.
CandidatesAll(exclude) == Regions

\* The regions choose_weighted_region draws from.
Candidates(exclude) == Regions \ {exclude}

\* A variant with a bug: the handler's own instance is not spared.
SweptInOwnToo(r, own) == {i \in Servers : host[i] = r}

\* What the loop over describe_instances of region r terminates, given the
\* handler's own instance.
SweptIn(r, own) == {i \in Servers : host[i] = r} \ {own}

\* A variant with a bug: the sweep stops at the first region it has cleared.
SweepOverEarly(l) == todo[l] # Regions /\ victims[l] = {}

\* Both loops of the sweep are over.
SweepOver(l) == todo[l] = {} /\ victims[l] = {}

\* An id EC2 can give to a new instance: nobody remembers it.
Unused(i) ==
    /\ status[i] = "absent"
    /\ i # dns /\ i # announced
    /\ \A l \in Invocations :
          i # fresh[l] /\ i \notin victims[l] /\ i \notin inherited[l]

\* A fault of kind f happens in this step.
Fault(f) ==
    /\ f \in Faults
    /\ faults < MaxFaults
    /\ faults' = faults + 1
    /\ met' = met \cup {f}

Goto(l, from, to) ==
    /\ pc[l] = from
    /\ pc' = [pc EXCEPT ![l] = to]

\* The invocation is over and its locals are gone.
Leave(l) ==
    /\ pc'        = [pc        EXCEPT ![l] = "idle"]
    /\ region'    = [region    EXCEPT ![l] = NoRegion]
    /\ fresh'     = [fresh     EXCEPT ![l] = NoInstance]
    /\ todo'      = [todo      EXCEPT ![l] = {}]
    /\ victims'   = [victims   EXCEPT ![l] = {}]
    /\ inherited' = [inherited EXCEPT ![l] = {}]

-----------------------------------------------------------------------------
(* Before the first tick: nothing has been launched, the Windows boxes run *)
(* wherever they are, and terraform has opened both ports in every region. *)
Init ==
    /\ lastUsed = NoRegion
    /\ status = [i \in Instances |-> IF i \in Windows THEN "running"
                                                      ELSE "absent"]
    /\ host \in {h \in [Instances -> Regions \cup {NoRegion}] :
                    \A i \in Instances : h[i] = NoRegion <=> i \notin Windows}
    /\ located = {}
    /\ open = [r \in Regions |-> Ports]
    /\ dns = NoInstance
    /\ announced = NoInstance
    /\ pc = [l \in Invocations |-> "idle"]
    /\ region = [l \in Invocations |-> NoRegion]
    /\ fresh = [l \in Invocations |-> NoInstance]
    /\ todo = [l \in Invocations |-> {}]
    /\ victims = [l \in Invocations |-> {}]
    /\ inherited = [l \in Invocations |-> {}]
    /\ faults = 0 /\ met = {}

(* The EventBridge tick, or Lambda's own retry of an invocation it killed. *)
Begin(l) ==
    /\ pc[l] \in AtRest
    /\ pc' = [pc EXCEPT ![l] = "choose"]
    /\ region' = [region EXCEPT ![l] = NoRegion]
    /\ fresh' = [fresh EXCEPT ![l] = NoInstance]
    /\ todo' = [todo EXCEPT ![l] = Regions]
    /\ inherited' = [inherited EXCEPT ![l] = Servers]
    /\ UNCHANGED <<cloud, victims, budget>>

(* get_last_used_region and choose_weighted_region: the weights only make  *)
(* some candidates likelier.                                               *)
ChooseRegion(l) ==
    /\ Goto(l, "choose", "record")
    /\ \E r \in Candidates(lastUsed) : region' = [region EXCEPT ![l] = r]
    /\ UNCHANGED <<cloud, fresh, todo, victims, inherited, budget>>

(* A variant with a bug: the wrong local is stored. *)
RecordInstance(l) ==
    /\ Goto(l, "record", "lookup")
    /\ lastUsed' = fresh[l]
    /\ UNCHANGED <<status, host, located, open, dns, announced, locals, budget>>

(* A variant with a bug: the new region is never stored. *)
RecordNothing(l) ==
    /\ Goto(l, "record", "lookup")
    /\ UNCHANGED <<cloud, locals, budget>>

(* set_last_used_region: before anything exists in the region. *)
RecordRegion(l) ==
    /\ Goto(l, "record", "lookup")
    /\ lastUsed' = region[l]
    /\ UNCHANGED <<status, host, located, open, dns, announced, locals, budget>>

(* The AMI and the security group of the region are found. *)
LookUp(l) ==
    /\ Goto(l, "lookup", "revoke")
    /\ UNCHANGED <<cloud, locals, budget>>

(* The first call of revoke_port_6112.  Revoking a rule that is not there  *)
(* raises; the exception is swallowed and the second call is skipped.      *)
RevokeBncs(l) ==
    \/ /\ Goto(l, "revoke", "revoke443")
       /\ Bncs \in open[region[l]]
       /\ open' = [open EXCEPT ![region[l]] = @ \ {Bncs}]
       /\ UNCHANGED <<lastUsed, status, host, located, dns, announced, locals,
                      budget>>
    \/ /\ Goto(l, "revoke", "launch")
       /\ \/ Bncs \notin open[region[l]] /\ UNCHANGED budget
          \/ Fault("sg")
       /\ UNCHANGED <<cloud, locals>>

(* A variant with a bug: the second port is left open. *)
RevokeWssForgotten(l) ==
    /\ Goto(l, "revoke443", "launch")
    /\ UNCHANGED <<cloud, locals, budget>>

(* The second call of revoke_port_6112; it too is allowed to raise. *)
RevokeWss(l) ==
    /\ Goto(l, "revoke443", "launch")
    /\ \/ /\ open' = [open EXCEPT ![region[l]] = @ \ {Wss}]
          /\ UNCHANGED budget
       \/ UNCHANGED open /\ Fault("sg")
    /\ UNCHANGED <<lastUsed, status, host, located, dns, announced, locals>>

\* run_instances, as EC2 performs it.
RunInstance(i, r) ==
    /\ Unused(i)
    /\ status' = [status EXCEPT ![i] = "pending"]
    /\ host' = [host EXCEPT ![i] = r]

(* get_vpc_subnet and run_instances. *)
Launch(l) ==
    /\ Goto(l, "launch", "await")
    /\ \E i \in Instances : /\ RunInstance(i, region[l])
                            /\ fresh' = [fresh EXCEPT ![l] = i]
    /\ UNCHANGED <<lastUsed, located, open, dns, announced, region, todo,
                   victims, inherited, budget>>

(* EC2 performs run_instances but the handler gets an exception: an        *)
(* instance is left that no invocation knows of.                           *)
LaunchLost(l) ==
    /\ pc[l] = "launch"
    /\ Fault("lost")
    /\ \E i \in Instances : RunInstance(i, region[l])
    /\ Leave(l)
    /\ UNCHANGED <<lastUsed, located, open, dns, announced>>

(* wait_for_instance_running sees the state "running". *)
AwaitRunning(l) ==
    /\ Goto(l, "await", "address")
    /\ status[fresh[l]] = "running"
    /\ UNCHANGED <<cloud, locals, budget>>

(* The public IP is read: an instance terminated meanwhile has none. *)
ReadAddress(l) ==
    /\ Goto(l, "address", "post")
    /\ status[fresh[l]] = "running"
    /\ UNCHANGED <<cloud, locals, budget>>

(* POST /update-location.  Whatever happens the handler goes on: the       *)
(* status of the answer is not read and every exception is swallowed.      *)
PostLocation(l) ==
    /\ Goto(l, "post", "sweep")
    /\ \/ /\ status[fresh[l]] = "running"
          /\ located' = located \cup {fresh[l]}
          /\ UNCHANGED budget
       \/ /\ status[fresh[l]] # "running"
          /\ UNCHANGED <<located, budget>>
       \/ UNCHANGED located /\ Fault("post")
    /\ UNCHANGED <<lastUsed, status, host, open, dns, announced, locals>>

(* A variant with a bug: the outer loop does not advance. *)
SurveySameRegion(l) ==
    /\ pc[l] = "sweep" /\ victims[l] = {}
    /\ \E r \in todo[l] :
          victims' = [victims EXCEPT ![l] = SweptIn(r, fresh[l])]
    /\ UNCHANGED <<cloud, pc, region, fresh, todo, inherited, budget>>

(* One round of the outer loop: describe_instances of a region, whose      *)
(* answer is what the inner loop works from.  The order in which the       *)
(* regions come is left open.                                              *)
Survey(l) ==
    /\ pc[l] = "sweep" /\ victims[l] = {}
    /\ \E r \in todo[l] :
          /\ victims' = [victims EXCEPT ![l] = SweptIn(r, fresh[l])]
          /\ todo' = [todo EXCEPT ![l] = @ \ {r}]
    /\ UNCHANGED <<cloud, pc, region, fresh, inherited, budget>>

(* One round of the inner loop.  Terminating an instance that is already   *)
(* terminated changes nothing, and one that is gone (NotFound) is skipped. *)
Terminate(l) ==
    /\ pc[l] = "sweep"
    /\ \E i \in victims[l] :
          /\ victims' = [victims EXCEPT ![l] = @ \ {i}]
          /\ status' = IF status[i] = "absent" THEN status
                       ELSE [status EXCEPT ![i] = "terminated"]
    /\ UNCHANGED <<lastUsed, host, located, open, dns, announced, pc, region,
                   fresh, todo, inherited, budget>>

(* A variant with a bug: the record keeps naming the old server. *)
UpsertForgotten(l) ==
    /\ Goto(l, "sweep", "allow")
    /\ SweepOver(l)
    /\ UNCHANGED <<cloud, locals, budget>>

(* change_resource_record_sets. *)
Upsert(l) ==
    /\ Goto(l, "sweep", "allow")
    /\ SweepOver(l)
    /\ dns' = fresh[l]
    /\ UNCHANGED <<lastUsed, status, host, located, open, announced, locals,
                   budget>>

\* A variant with a bug: port 443 is opened whichever port is asked for.
AllowWssOnly(l, p) ==
    /\ open' = [open EXCEPT ![region[l]] = @ \cup {Wss}]
    /\ UNCHANGED <<lastUsed, status, host, located, dns, announced, locals,
                   budget>>

\* A variant with a bug: port 6112 is opened whichever port is asked for.
AllowBncsOnly(l, p) ==
    /\ open' = [open EXCEPT ![region[l]] = @ \cup {Bncs}]
    /\ UNCHANGED <<lastUsed, status, host, located, dns, announced, locals,
                   budget>>

\* authorize_security_group_ingress of port p; every exception is swallowed.
Allow(l, p) ==
    /\ \/ /\ open' = [open EXCEPT ![region[l]] = @ \cup {p}]
          /\ UNCHANGED budget
       \/ UNCHANGED open /\ Fault("sg")
    /\ UNCHANGED <<lastUsed, status, host, located, dns, announced, locals>>

AllowBncs(l) == Goto(l, "allow", "announce") /\ Allow(l, Bncs)

(* The map is found and the message sent; send_message raises nothing. *)
Announce(l) ==
    /\ Goto(l, "announce", "allow443")
    /\ \/ announced' = fresh[l] /\ UNCHANGED budget
       \/ UNCHANGED announced /\ Fault("discord")
    /\ UNCHANGED <<lastUsed, status, host, located, open, dns, locals>>

AllowWss(l) == Goto(l, "allow443", "done") /\ Allow(l, Wss)

\* The instance was lost while the handler waited for it or for its address.
FreshGone(l) ==
    \/ pc[l] = "await" /\ status[fresh[l]] \in {"terminated", "absent"}
    \/ pc[l] = "address" /\ status[fresh[l]] # "running"

(* An exception reaches the handler's "except Exception": it is logged and *)
(* nothing is undone.  The calls of the other steps swallow theirs.        *)
Raise(l) ==
    /\ pc[l] \in {"choose", "record", "lookup", "launch", "await", "address",
                  "sweep", "announce"}
    /\ \/ FreshGone(l) /\ UNCHANGED budget
       \/ Fault("api")
    /\ Leave(l)
    /\ UNCHANGED cloud

(* Lambda stops the invocation. *)
Kill(l) ==
    /\ pc[l] \in Steps
    /\ Fault("kill")
    /\ Leave(l)
    /\ UNCHANGED cloud

-----------------------------------------------------------------------------
(* EC2 and the operator. *)

Boot(i) ==
    /\ status[i] = "pending"
    /\ status' = [status EXCEPT ![i] = "running"]
    /\ UNCHANGED <<lastUsed, host, located, open, dns, announced, pc, locals,
                   budget>>

BootFails(i) ==
    /\ status[i] = "pending"
    /\ Fault("boot")
    /\ status' = [status EXCEPT ![i] = "terminated"]
    /\ UNCHANGED <<lastUsed, host, located, open, dns, announced, pc, locals>>

(* A terminated instance disappears from EC2's answers, its disk with it. *)
Forget(i) ==
    /\ status[i] = "terminated"
    /\ status' = [status EXCEPT ![i] = "absent"]
    /\ host' = [host EXCEPT ![i] = NoRegion]
    /\ located' = located \ {i}
    /\ inherited' = [l \in Invocations |-> inherited[l] \ {i}]
    /\ UNCHANGED <<lastUsed, open, dns, announced, pc, region, fresh, todo,
                   victims, budget>>

(* terraform apply puts back the rules the handler revoked. *)
TerraformApply(r) ==
    /\ Fault("apply")
    /\ open' = [open EXCEPT ![r] = Ports]
    /\ UNCHANGED <<lastUsed, status, host, located, dns, announced, pc, locals>>

-----------------------------------------------------------------------------
Handler(l) ==
    \/ ChooseRegion(l) \/ RecordRegion(l) \/ LookUp(l)
    \/ RevokeBncs(l) \/ RevokeWss(l) \/ Launch(l)
    \/ AwaitRunning(l) \/ ReadAddress(l) \/ PostLocation(l)
    \/ Survey(l) \/ Terminate(l) \/ Upsert(l)
    \/ AllowBncs(l) \/ Announce(l) \/ AllowWss(l)
    \/ Raise(l)

Cloud(i) == Boot(i) \/ BootFails(i) \/ Forget(i)

Next ==
    \/ \E l \in Invocations : Begin(l) \/ Handler(l) \/ LaunchLost(l) \/ Kill(l)
    \/ \E i \in Instances : Cloud(i)
    \/ \E r \in Regions : TerraformApply(r)

Spec == Init /\ [][Next]_vars

(* The schedule ticks again, Lambda runs the handler it started, EC2 boots *)
(* what it accepted and forgets what it terminated.  No fault is fair.     *)
Fairness ==
    /\ \A l \in Invocations : WF_vars(Begin(l)) /\ WF_vars(Handler(l))
    /\ \A i \in Instances : WF_vars(Boot(i)) /\ WF_vars(Forget(i))

FairSpec == Spec /\ Fairness
=============================================================================
