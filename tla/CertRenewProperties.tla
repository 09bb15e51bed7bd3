------------------------ MODULE CertRenewProperties -------------------------
(***************************************************************************)
(* What the certificate script of module CertRenew keeps true, under which *)
(* circumstances, and what its documentation claims.                       *)
(***************************************************************************)
EXTENDS CertRenew

\* None of the faults in F has happened so far.
Without(F) == met \cap F = {}

\* The faults that can part the two files of a pair.
Partings == {"upload", "kill"}

\* At most one job runs on an instance at a time.
OneJobEach == Serial \/ \A j1, j2 \in Jobs : j1 = j2

Whole(files) == files["chain"] = files["key"]

\* The key of a pair is put after its chain, on a disk or in the bucket.
Writing(i) == \E p \in Processes : p[1] = i /\ pc[p] \in {"putkey", "newkey"}
Uploading  == \E p \in Processes : pc[p] = "upkey"

Certs == 0 .. MaxCerts

(* Every variable of the certificate script and its cache keeps its type. *)
TypeOK ==
    /\ issued \in Certs
    /\ due \in Certs
    /\ cache \in [Files -> Certs \cup {NoFile}]
    /\ up \in SUBSET Instances
    /\ rebooted \in SUBSET Instances
    /\ live \in [Instances -> [Files -> Certs]]
    /\ certDir \in [Instances -> Certs]
    /\ served \in [Instances -> Certs \cup {Down}]
    /\ ran \in [Instances -> SUBSET Jobs]
    /\ ended \in [Instances -> {"none", "ok", "failed"}]
    /\ pc \in [Processes -> {"idle"} \cup Steps]
    /\ tmp \in [Processes -> [Files -> Certs \cup {NoFile}]]
    /\ faults \in Nat
    /\ met \subseteq Faults

-----------------------------------------------------------------------------
(* The chain on an instance is never replaced by an older one: what the    *)
(* comparison of cert-renew.sh:43 is for.  It takes one job at a time per  *)
(* instance, since the comparison and the installation are two steps, and  *)
(* holds whatever other instances do and whatever fails.                   *)
DiskNeverOlder ==
    [][OneJobEach => \A i \in up : live'[i]["chain"] >= live[i]["chain"]]_vars

(* The chain in S3 is never replaced by an older one.  Nothing compares    *)
(* before the upload (cert-renew.sh:69-70); it takes runs that do not      *)
(* overlap anywhere, and then holds whatever fails.                        *)
CacheNeverOlder ==
    [][Serial => cache'["chain"] >= cache["chain"]]_vars

(* Between uploads the two objects in S3 belong together, as long as runs  *)
(* do not overlap and none is cut off (cert-renew.sh:69-75).               *)
CacheWhole ==
    Serial /\ Without(Partings) /\ ~ Uploading => Whole(cache)

(* A script that ends with status 0 leaves an instance that serves what is *)
(* installed (cert-renew.sh:40-56), under the same circumstances.          *)
OkMeansServing ==
    Serial /\ Without(Partings) =>
        \A i \in up : ended[i] = "ok" /\ ~ Busy(i)
            => Whole(live[i]) /\ served[i] = live[i]["chain"]

(* Let's Encrypt is only asked for a certificate when the newest one there *)
(* is has come within RENEW_DAYS: the cache keeps the instances that       *)
(* follow from asking again (cert-renew.sh:7-9), except one that could not *)
(* download from it.  It takes runs that do not overlap and are not cut    *)
(* off.                                                                    *)
IssuesOnce ==
    [][Serial /\ Without(Partings) /\ issued' # issued =>
         \/ issued < due
         \/ \E p \in Processes : pc[p] = "issue" /\ tmp[p]["key"] = NoFile]_vars

-----------------------------------------------------------------------------
\* No certificate: two files that do not belong together.
Parted == -2

\* A pair of files as one certificate.  The key comes last, and decides as
\* long as the pair is being written.
AsOne(files, writing) ==
    IF writing \/ Whole(files) THEN files["key"] ELSE Parted

Disk ==
    [i \in Instances |-> IF i \in up THEN AsOne(live[i], Writing(i)) ELSE NoFile]

(* The pairs on the disks and in the bucket, seen as module CertStore sees *)
(* them.                                                                   *)
C == INSTANCE CertStore
        WITH Hosts <- Instances, None <- NoFile,
             newest <- issued, bucket <- AsOne(cache, Uploading),
             disk <- Disk, serves <- served,
             intact <- (Serial /\ Without(Partings))

(* As long as runs do not overlap and none is cut off, the script keeps    *)
(* the promise of module CertStore although it writes every pair in two    *)
(* steps (cert-renew.sh:43-47, 64-71): bucket and disks hold whole pairs,  *)
(* only ever replaced by the newest, and nginx serves only what is on its  *)
(* disk.                                                                   *)
KeepsStore == C!Spec

-----------------------------------------------------------------------------
\* Again and again the boot job of an instance is over before the agent
\* reboots it.  No line of the code sees to it: it takes machines that are
\* quick (SyncsWhenQuick in module RotationClockProperties).
JobsGetThrough ==
    []<>(\E i \in up \ rebooted : "boot" \in ran[i] /\ ~ Busy(i))

(* Whatever becomes of the two objects in S3, they belong together again   *)
(* in the end: at the latest when the chain is due and the pair is issued  *)
(* anew (cert-renew.sh:51-75).  It takes instances whose job comes before  *)
(* the agent's reboot, for no other can upload.                            *)
CacheHeals == JobsGetThrough => (~ Whole(cache) ~> Whole(cache))

(* Once faults stop, again and again there is an instance that serves a    *)
(* certificate which is not due, as long as jobs get through again and     *)
(* again (cert-renew.sh:39-67).                                            *)
FreshServed == JobsGetThrough => []<>(\E i \in up : served[i] >= due)

-----------------------------------------------------------------------------
(* readme.md:273: "fresh instances always come up with the latest cert".   *)
(* Read for the instances whose script has ended well: they serve one.     *)
FreshInstancesServe ==
    \A i \in up : ended[i] = "ok" /\ ~ Busy(i) => served[i] # Down

(* readme.md:276: "only the first instance inside the renewal window ever  *)
(* contacts Let's Encrypt".                                                *)
OnlyFirstContacts == [][issued' # issued => issued < due]_vars
=============================================================================
