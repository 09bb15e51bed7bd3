------------------------------ MODULE CertRenew ------------------------------
(***************************************************************************)
(* The certificate of war.pianka.io: the script cert-renew.sh that cron    *)
(* runs on every instance, at boot and once a day, the copy in S3 that the *)
(* instances share, and the files nginx serves from.                       *)
(*                                                                         *)
(* A certificate is a number, in the order of issue, which is also the     *)
(* order of expiry; certificate 0 is the one baked into the image.  Its    *)
(* two files carry its number, and nginx starts from a chain and a key     *)
(* only if their numbers agree.  Nothing writes the two files together.    *)
(***************************************************************************)
EXTENDS Integers

CONSTANTS
    Instances,  \* the instances that may be up at the same time
    Jobs,       \* the cron jobs that run the script: "boot", "daily"
    Serial,     \* whether one run of the script is over before the next
    Faults,     \* the kinds of fault that may happen
    MaxFaults,  \* bound on the number of faults
    MaxCerts    \* bound on the number of certificates issued

FaultKinds ==
    { "download",   \* aws s3 cp from the bucket fails
      "issue",      \* acme.sh fails
      "upload",     \* all three attempts of an upload fail
      "kill" }      \* the instance goes down under a running job

ASSUME CertRenewAssumption ==
    /\ Jobs \subseteq {"boot", "daily"}
    /\ Serial \in BOOLEAN
    /\ Faults \subseteq FaultKinds
    /\ MaxFaults \in Nat
    /\ MaxCerts \in Nat

VARIABLES
    issued,     \* the newest certificate Let's Encrypt has issued
    due,        \* certificates below this one expire within RENEW_DAYS
    cache,      \* the two objects in S3, or NoFile
    up,         \* the instances that are up
    live,       \* LIVE_DIR of every instance
    certDir,    \* the certificate in acme.sh's directory of every instance
    served,     \* what nginx serves on every instance, or Down
    rebooted,   \* the instances named, firewalled and rebooted by the agent
    ran,        \* the jobs that every instance has started since it booted
    ended,      \* the exit status of every instance's last job, or "none"
    pc, tmp,    \* the step and the download directory of every job
    faults, met \* how many faults have happened, and of which kinds

machine == <<up, rebooted, ran>>
budget == <<faults, met>>
vars == <<issued, due, cache, live, certDir, served, machine, ended, pc, tmp,
          budget>>

Files  == {"chain", "key"}
NoFile == -1
Down   == -1

\* The two files of certificate n.
Pair(n) == [f \in Files |-> n]

Processes == Instances \X Jobs

Steps == {"fetch", "fetchkey", "compare", "putchain", "putkey", "reload",
          "check", "issue", "newchain", "newkey", "newreload", "upchain",
          "upkey"}

-----------------------------------------------------------------------------
\* The jobs that are running.
Running == {p \in Processes : pc[p] # "idle"}

Busy(i) == \E p \in Running : p[1] = i

\* A fault of kind f happens.  The last certificate the bounds allow meets
\* no fault, so that there is always one more to repair with.
Fault(f) ==
    /\ f \in Faults
    /\ faults < MaxFaults
    /\ issued < MaxCerts
    /\ faults' = faults + 1
    /\ met' = met \cup {f}

Goto(p, from, to) ==
    /\ pc[p] = from
    /\ pc' = [pc EXCEPT ![p] = to]

\* The script ends with status s.
Exit(p, from, s) ==
    /\ Goto(p, from, "idle")
    /\ ended' = [ended EXCEPT ![p[1]] = s]

\* S3 and Route 53 answer the job: the firewall that the agent closes drops
\* what Amazon sends, for the rest of the instance's life.
Reaches(p) == p[1] \notin rebooted

\* nginx starts from the files of an instance, or fails to.
Started(i) == IF live[i]["chain"] = live[i]["key"] THEN live[i]["chain"] ELSE Down

-----------------------------------------------------------------------------
Init ==
    /\ issued = 0 /\ due = 0
    /\ cache \in {Pair(NoFile), Pair(0)}
    /\ up = {} /\ rebooted = {}
    /\ live = [i \in Instances |-> Pair(0)]
    /\ certDir = [i \in Instances |-> 0]
    /\ served = [i \in Instances |-> Down]
    /\ ran = [i \in Instances |-> {}]
    /\ ended = [i \in Instances |-> "none"]
    /\ pc = [p \in Processes |-> "idle"]
    /\ tmp = [p \in Processes |-> Pair(NoFile)]
    /\ faults = 0 /\ met = {}

(* The boot job of cron, or the daily one, with an empty directory for its *)
(* downloads.                                                              *)
Start(p) ==
    /\ p[1] \in up /\ p[2] \notin ran[p[1]]
    /\ Serial => Running = {}
    /\ Goto(p, "idle", "fetch")
    /\ ran' = [ran EXCEPT ![p[1]] = @ \cup {p[2]}]
    /\ tmp' = [tmp EXCEPT ![p] = Pair(NoFile)]
    /\ UNCHANGED <<issued, due, cache, live, certDir, served, up, rebooted,
                   ended, budget>>

\* aws s3 cp of file f to the download directory.
Download(p, f) ==
    /\ Reaches(p)
    /\ cache[f] # NoFile
    /\ tmp' = [tmp EXCEPT ![p][f] = cache[f]]
    /\ UNCHANGED <<issued, due, cache, live, certDir, served, machine, ended,
                   budget>>

FetchChain(p) == Goto(p, "fetch", "fetchkey") /\ Download(p, "chain")
FetchKey(p)   == Goto(p, "fetchkey", "compare") /\ Download(p, "key")

\* The download of file f fails, or there is nothing to download, or nobody
\* to download it from.
NoDownload(p, f) ==
    /\ \/ (cache[f] = NoFile \/ ~ Reaches(p)) /\ UNCHANGED budget
       \/ Fault("download")
    /\ UNCHANGED <<issued, due, cache, live, certDir, served, machine, ended,
                   tmp>>

(* A variant with a bug: the script goes on without the key. *)
FetchFailsUnseen(p) ==
    \/ Goto(p, "fetch", "check") /\ NoDownload(p, "chain")
    \/ Goto(p, "fetchkey", "compare") /\ NoDownload(p, "key")

(* Without both files the script works with what is installed. *)
FetchFails(p) ==
    \/ Goto(p, "fetch", "check") /\ NoDownload(p, "chain")
    \/ Goto(p, "fetchkey", "check") /\ NoDownload(p, "key")

(* A variant with a bug: what was downloaded is always installed. *)
CompareNothing(p) ==
    /\ Goto(p, "compare", "putchain")
    /\ UNCHANGED <<issued, due, cache, live, certDir, served, machine, ended,
                   tmp, budget>>

(* Only the chains are compared. *)
Compare(p) ==
    /\ \/ /\ tmp[p]["chain"] > live[p[1]]["chain"]
          /\ Goto(p, "compare", "putchain")
       \/ /\ tmp[p]["chain"] <= live[p[1]]["chain"]
          /\ Goto(p, "compare", "check")
    /\ UNCHANGED <<issued, due, cache, live, certDir, served, machine, ended,
                   tmp, budget>>

\* install of file f, number n, into LIVE_DIR.
Put(p, f, n) ==
    /\ live' = [live EXCEPT ![p[1]][f] = n]
    /\ UNCHANGED <<issued, due, cache, certDir, served, machine, ended, tmp,
                   budget>>

(* What was downloaded is installed, the chain first. *)
PutChain(p) ==
    Goto(p, "putchain", "putkey") /\ Put(p, "chain", tmp[p]["chain"])

(* A variant with a bug: nginx is not reloaded. *)
PutKeyNoReload(p) ==
    Goto(p, "putkey", "check") /\ Put(p, "key", tmp[p]["key"])

(* The key follows. *)
PutKey(p) ==
    Goto(p, "putkey", "reload") /\ Put(p, "key", tmp[p]["key"])

\* reload_nginx: a reload that fails is followed by a restart.  When the
\* files do not agree nginx goes on with the old ones or fails to restart.
ReloadNginx(p) ==
    /\ \/ served' = [served EXCEPT ![p[1]] = Started(p[1])]
       \/ Started(p[1]) = Down /\ UNCHANGED served
    /\ UNCHANGED <<issued, due, cache, live, certDir, machine, ended, tmp,
                   budget>>

Reload(p)    == Goto(p, "reload", "check") /\ ReloadNginx(p)
NewReload(p) == Goto(p, "newreload", "upchain") /\ ReloadNginx(p)

(* A variant with a bug: no certificate is ever found due. *)
CheckNothing(p) ==
    /\ Exit(p, "check", "ok")
    /\ UNCHANGED <<issued, due, cache, live, certDir, served, machine, tmp,
                   budget>>

(* exit 0 unless the installed chain is due.  The key is not looked at. *)
Check(p) ==
    /\ \/ live[p[1]]["chain"] >= due /\ Exit(p, "check", "ok")
       \/ /\ live[p[1]]["chain"] < due /\ Goto(p, "check", "issue")
          /\ UNCHANGED ended
    /\ UNCHANGED <<issued, due, cache, live, certDir, served, machine, tmp,
                   budget>>

(* acme.sh --issue, which proves its domain through Route 53. *)
Issue(p) ==
    /\ Reaches(p)
    /\ Goto(p, "issue", "newchain")
    /\ issued < MaxCerts
    /\ issued' = issued + 1
    /\ certDir' = [certDir EXCEPT ![p[1]] = issued + 1]
    /\ UNCHANGED <<due, cache, live, served, machine, ended, tmp, budget>>

(* It fails, behind the firewall and where the bound MaxCerts is met too. *)
IssueFails(p) ==
    /\ Exit(p, "issue", "failed")
    /\ \/ (issued = MaxCerts \/ ~ Reaches(p)) /\ UNCHANGED budget
       \/ Fault("issue")
    /\ UNCHANGED <<issued, due, cache, live, certDir, served, machine, tmp>>

(* What was issued is installed, the chain first. *)
NewChain(p) ==
    Goto(p, "newchain", "newkey") /\ Put(p, "chain", certDir[p[1]])
NewKey(p) ==
    Goto(p, "newkey", "newreload") /\ Put(p, "key", certDir[p[1]])

\* A variant with a bug: what was downloaded is uploaded.
UploadDownloaded(p, f) == cache' = [cache EXCEPT ![f] = tmp[p][f]]

\* A variant with a bug: the upload is left out.
UploadNothing(p, f) == UNCHANGED cache

\* upload of file f from LIVE_DIR.
Upload(p, f) == cache' = [cache EXCEPT ![f] = live[p[1]][f]]

(* A variant with a bug: the key is not uploaded. *)
UploadChainOnly(p) ==
    /\ Exit(p, "upchain", "ok")
    /\ Upload(p, "chain")
    /\ UNCHANGED <<issued, due, live, certDir, served, machine, tmp,
                   budget>>

(* The new pair is uploaded, the chain first. *)
UploadChain(p) ==
    /\ Goto(p, "upchain", "upkey")
    /\ Upload(p, "chain")
    /\ UNCHANGED <<issued, due, live, certDir, served, machine, ended, tmp,
                   budget>>

UploadKey(p) ==
    /\ Exit(p, "upkey", "ok")
    /\ Upload(p, "key")
    /\ UNCHANGED <<issued, due, live, certDir, served, machine, tmp,
                   budget>>

(* All three attempts fail, though the object may have been stored. *)
UploadFails(p) ==
    /\ \/ Exit(p, "upchain", "failed") /\ (UNCHANGED cache \/ Upload(p, "chain"))
       \/ Exit(p, "upkey", "failed") /\ (UNCHANGED cache \/ Upload(p, "key"))
    /\ Fault("upload")
    /\ UNCHANGED <<issued, due, live, certDir, served, machine, tmp>>

-----------------------------------------------------------------------------
(* The life of an instance. *)

\* What happens to the jobs of an instance that goes down: nothing when it
\* has none, otherwise they stop where they are.
StopJobs(i) ==
    /\ \/ ~ Busy(i) /\ UNCHANGED budget
       \/ Busy(i) /\ Fault("kill")
    /\ pc' = [p \in Processes |-> IF p[1] = i THEN "idle" ELSE pc[p]]
    /\ tmp' = [p \in Processes |-> IF p[1] = i THEN Pair(NoFile) ELSE tmp[p]]

(* The orchestrator launches an instance from the image. *)
Launch(i) ==
    /\ i \notin up
    /\ up' = up \cup {i}
    /\ live' = [live EXCEPT ![i] = Pair(0)]
    /\ certDir' = [certDir EXCEPT ![i] = 0]
    /\ served' = [served EXCEPT ![i] = 0]
    /\ ran' = [ran EXCEPT ![i] = {}]
    /\ ended' = [ended EXCEPT ![i] = "none"]
    /\ rebooted' = rebooted \ {i}
    /\ UNCHANGED <<issued, due, cache, pc, tmp, budget>>

(* The agent closes the firewall of its instance and reboots it, once, a   *)
(* moment later: cron's boot job runs again, but reaches nobody, and nginx *)
(* starts from what it finds.                                              *)
Reboot(i) ==
    /\ i \in up \ rebooted
    /\ StopJobs(i)
    /\ rebooted' = rebooted \cup {i}
    /\ served' = [served EXCEPT ![i] = Started(i)]
    /\ ran' = [ran EXCEPT ![i] = @ \ {"boot"}]
    /\ ended' = [ended EXCEPT ![i] = "none"]
    /\ UNCHANGED <<issued, due, cache, live, certDir, up>>

(* The orchestrator terminates an instance; two hours after its launch the *)
(* boot job has long run.                                                  *)
Terminate(i) ==
    /\ i \in up /\ "boot" \in ran[i]
    /\ StopJobs(i)
    /\ up' = up \ {i}
    /\ served' = [served EXCEPT ![i] = Down]
    /\ UNCHANGED <<issued, due, cache, live, certDir, rebooted, ran, ended>>

(* Time passes and one more certificate comes within RENEW_DAYS. *)
Age ==
    /\ due <= issued /\ due < MaxCerts
    /\ due' = due + 1
    /\ UNCHANGED <<issued, cache, live, certDir, served, machine, ended, pc,
                   tmp, budget>>

-----------------------------------------------------------------------------
Script(p) ==
    \/ FetchChain(p) \/ FetchKey(p) \/ FetchFails(p) \/ Compare(p)
    \/ PutChain(p) \/ PutKey(p) \/ Reload(p)
    \/ Check(p) \/ Issue(p) \/ IssueFails(p)
    \/ NewChain(p) \/ NewKey(p) \/ NewReload(p)
    \/ UploadChain(p) \/ UploadKey(p) \/ UploadFails(p)

Machine(i) == Launch(i) \/ Reboot(i) \/ Terminate(i)

Next ==
    \/ \E p \in Processes : Start(p) \/ Script(p)
    \/ \E i \in Instances : Machine(i)
    \/ Age

Spec == Init /\ [][Next]_vars

(* cron starts its jobs, a job that has started goes on, the orchestrator  *)
(* keeps replacing instances, and time passes.  Nothing is said of whether *)
(* a job is through before its instance is rebooted.                       *)
Fairness ==
    /\ \A p \in Processes : WF_vars(Start(p)) /\ WF_vars(Script(p))
    /\ \A i \in Instances : WF_vars(Launch(i)) /\ WF_vars(Terminate(i))
    /\ WF_vars(Age)

FairSpec == Spec /\ Fairness
=============================================================================
