-------------------------- MODULE CertRenewProofs ---------------------------
(***************************************************************************)
(* Proofs about the certificate script of module CertRenew, for every set  *)
(* of instances and every combination of faults.                           *)
(*                                                                         *)
(* Inv holds whatever overlaps.  DiskInv is about one instance that runs   *)
(* one job at a time and gives DiskNeverOlder.  SerialInv is about runs    *)
(* that do not overlap anywhere and gives CacheNeverOlder.  WholeInv adds  *)
(* that none is cut off (CacheWhole, OkMeansServing), and NewestInv, under *)
(* the same circumstances, where the newest certificate is (IssuesOnce).   *)
(* EmptyHanded adds that no download has failed, for the documentation's   *)
(* claims.  Mended needs SerialInv only: what a run that renews puts in    *)
(* order, whatever failed before it.  Walled is about instances that have  *)
(* been rebooted.                                                          *)
(***************************************************************************)
EXTENDS CertRenewProperties, TLAPS

\* The steps at which a job has downloaded the chain, and the key.
HasChain == {"fetchkey", "compare", "putchain", "putkey"}
HasKey   == {"compare", "putchain", "putkey"}

\* The steps from the issue to the upload.
Renewing == {"newchain", "newkey", "newreload", "upchain", "upkey"}

\* No file is newer than the newest certificate.
Bounded ==
    /\ due <= issued + 1
    /\ cache["chain"] <= issued
    /\ \A i \in Instances : certDir[i] <= issued /\ live[i]["chain"] <= issued
    /\ \A p \in Processes : tmp[p]["chain"] <= issued

\* Jobs run where there is an instance, with what they have downloaded.
Supplied ==
    \A p \in Processes :
        /\ pc[p] # "idle" => p[1] \in up
        /\ pc[p] \in HasChain => tmp[p]["chain"] # NoFile
        /\ pc[p] \in HasKey => tmp[p]["key"] # NoFile

Inv == TypeOK /\ Bounded /\ Supplied

\* An instance's jobs do not overlap.
Apart ==
    \A p, q \in Processes :
        pc[p] # "idle" /\ pc[q] # "idle" /\ p[1] = q[1] => p = q

\* A job that is about to install a chain has a newer one.
Newer ==
    \A p \in Processes :
        /\ pc[p] = "putchain" => tmp[p]["chain"] >= live[p[1]]["chain"]
        /\ pc[p] = "newchain" => certDir[p[1]] >= live[p[1]]["chain"]

DiskInv == Inv /\ Apart /\ Newer

-----------------------------------------------------------------------------
\* No two runs of the script overlap.
Alone == \A p, q \in Processes : pc[p] # "idle" /\ pc[q] # "idle" => p = q

\* What is installed and uploaded is the newest certificate.
Newest ==
    \A p \in Processes :
        /\ pc[p] \in Renewing => certDir[p[1]] = issued
        /\ pc[p] \in Renewing \ {"newchain"} => live[p[1]]["chain"] = issued

SerialInv == Inv /\ Alone /\ Newest

\* While no run is cut off: what a job has in hand belongs together,
InHand ==
    \A p \in Processes :
        /\ pc[p] \in {"newreload", "upchain", "upkey"}
               => live[p[1]]["key"] = issued
        /\ pc[p] = "upkey" => cache["chain"] = issued
        /\ pc[p] \in HasChain => tmp[p]["chain"] = cache["chain"]
        /\ pc[p] \in HasKey => tmp[p]["key"] = cache["key"]
        /\ pc[p] = "putkey" => live[p[1]]["chain"] = tmp[p]["chain"]

\* so do the objects in S3,
Cached == (\A p \in Processes : pc[p] # "upkey") => Whole(cache)

\* and so do an instance's files and what it serves, except for a moment.
Serves ==
    \A i \in up :
        /\ (\A p \in Processes : p[1] = i => pc[p] \notin {"putkey", "newkey"})
               => Whole(live[i])
        /\ (\A p \in Processes : p[1] = i =>
                pc[p] \notin {"putkey", "reload", "newkey", "newreload"})
               => served[i] = live[i]["chain"]

WholeInv == SerialInv /\ InHand /\ Cached /\ Serves

\* The newest certificate is in the cache when no run is about to renew,
CacheNewest ==
    (\A p \in Processes : pc[p] \notin Renewing)
        => \/ cache["chain"] = issued
           \/ cache = Pair(NoFile) /\ issued = 0

\* and on an instance that is about to issue, for which it is too old,
\* unless the instance could not download it.
IssuesLate ==
    \A p \in Processes :
        /\ pc[p] \in {"fetch", "fetchkey"} => tmp[p]["key"] = NoFile
        /\ pc[p] = "putchain" => tmp[p]["chain"] = issued
        /\ pc[p] \in {"putkey", "reload"} => live[p[1]]["chain"] = issued
        /\ pc[p] \in {"check", "issue"} /\ tmp[p]["key"] # NoFile
               => live[p[1]]["chain"] = issued
        /\ pc[p] = "issue" => live[p[1]]["chain"] < due

NewestInv == WholeInv /\ CacheNewest /\ IssuesLate

-----------------------------------------------------------------------------
\* A job runs on an instance.
LEMMA ProcessOf ==
    ASSUME NEW p \in Processes
    PROVE  p[1] \in Instances /\ p[2] \in Jobs /\ p = <<p[1], p[2]>>
BY DEF Processes

LEMMA InvInit == Init => Inv
BY ProcessOf, CertRenewAssumption
DEF Init, Inv, TypeOK, Bounded, Supplied, Certs, Pair, Files, NoFile, Down,
    HasChain, HasKey

(* Every step keeps the types and the bounds. *)
LEMMA InvStep == Inv /\ [Next]_vars => Inv'
<1> SUFFICES ASSUME Inv, [Next]_vars PROVE Inv'
  OBVIOUS
<1> USE DEF Inv, TypeOK, Bounded, Supplied, Certs, Files, NoFile, Down,
            HasChain, HasKey, Steps, budget
<1>1. ASSUME NEW p \in Processes, Start(p) PROVE Inv'
  BY <1>1, ProcessOf, CertRenewAssumption
  DEF Start, Goto, Running, Pair, machine
<1>2. ASSUME NEW p \in Processes, FetchChain(p) PROVE Inv'
  BY <1>2, ProcessOf, CertRenewAssumption
  DEF FetchChain, Goto, Download, machine
<1>3. ASSUME NEW p \in Processes, FetchKey(p) PROVE Inv'
  BY <1>3, ProcessOf, CertRenewAssumption DEF FetchKey, Goto, Download, machine
<1>4. ASSUME NEW p \in Processes, FetchFails(p) PROVE Inv'
  <2>1. CASE Goto(p, "fetch", "check") /\ NoDownload(p, "chain")
    BY <1>4, <2>1, ProcessOf, CertRenewAssumption
    DEF FetchFails, machine, Goto, NoDownload, Fault
  <2>2. CASE Goto(p, "fetchkey", "check") /\ NoDownload(p, "key")
    BY <1>4, <2>2, ProcessOf, CertRenewAssumption
    DEF FetchFails, machine, Goto, NoDownload, Fault
  <2> QED  BY <1>4, <2>1, <2>2 DEF FetchFails
<1>5. ASSUME NEW p \in Processes, Compare(p) PROVE Inv'
  <2>1. CASE Goto(p, "compare", "putchain")
    BY <1>5, <2>1, ProcessOf, CertRenewAssumption DEF Compare, machine, Goto
  <2>2. CASE Goto(p, "compare", "check")
    BY <1>5, <2>2, ProcessOf, CertRenewAssumption DEF Compare, machine, Goto
  <2> QED  BY <1>5, <2>1, <2>2 DEF Compare
<1>6. ASSUME NEW p \in Processes, PutChain(p) PROVE Inv'
  BY <1>6, ProcessOf, CertRenewAssumption DEF PutChain, Goto, Put, machine
<1>7. ASSUME NEW p \in Processes, PutKey(p) PROVE Inv'
  BY <1>7, ProcessOf, CertRenewAssumption DEF PutKey, Goto, Put, machine
<1>8. ASSUME NEW p \in Processes, Reload(p) PROVE Inv'
  BY <1>8, ProcessOf, CertRenewAssumption
  DEF Reload, Goto, ReloadNginx, Started, machine
<1>9. ASSUME NEW p \in Processes, Check(p) PROVE Inv'
  <2>1. CASE Exit(p, "check", "ok")
    BY <1>9, <2>1, ProcessOf, CertRenewAssumption
    DEF Check, machine, Exit, Goto
  <2>2. CASE Goto(p, "check", "issue") /\ UNCHANGED ended
    BY <1>9, <2>2, ProcessOf, CertRenewAssumption DEF Check, machine, Goto
  <2> QED  BY <1>9, <2>1, <2>2 DEF Check
<1>10. ASSUME NEW p \in Processes, Issue(p) PROVE Inv'
  <2> USE <1>10, ProcessOf, CertRenewAssumption DEF Issue, Goto, machine
  <2>1. issued \in Nat /\ issued' = issued + 1  OBVIOUS
  <2>2. (due <= issued + 1)'  BY <2>1
  <2>3. (cache["chain"] <= issued)'  BY <2>1
  <2>4. (\A i \in Instances :
           certDir[i] <= issued /\ live[i]["chain"] <= issued)'  BY <2>1
  <2>5. (\A q \in Processes : tmp[q]["chain"] <= issued)'  BY <2>1
  <2>6. TypeOK' /\ Supplied'  BY <2>1
  <2> QED  BY <2>2, <2>3, <2>4, <2>5, <2>6
<1>11. ASSUME NEW p \in Processes, IssueFails(p) PROVE Inv'
  BY <1>11, ProcessOf, CertRenewAssumption
  DEF IssueFails, Goto, Exit, Fault, machine
<1>12. ASSUME NEW p \in Processes, NewChain(p) PROVE Inv'
  BY <1>12, ProcessOf, CertRenewAssumption DEF NewChain, Goto, Put, machine
<1>13. ASSUME NEW p \in Processes, NewKey(p) PROVE Inv'
  BY <1>13, ProcessOf, CertRenewAssumption DEF NewKey, Goto, Put, machine
<1>14. ASSUME NEW p \in Processes, NewReload(p) PROVE Inv'
  BY <1>14, ProcessOf, CertRenewAssumption
  DEF NewReload, Goto, ReloadNginx, Started, machine
<1>15. ASSUME NEW p \in Processes, UploadChain(p) PROVE Inv'
  BY <1>15, ProcessOf, CertRenewAssumption
  DEF UploadChain, Goto, Upload, machine
<1>16. ASSUME NEW p \in Processes, UploadKey(p) PROVE Inv'
  BY <1>16, ProcessOf, CertRenewAssumption
  DEF UploadKey, Exit, Goto, Upload, machine
<1>17. ASSUME NEW p \in Processes, UploadFails(p) PROVE Inv'
  <2>1. CASE UNCHANGED cache /\ Exit(p, "upchain", "failed")
    BY <1>17, <2>1, ProcessOf, CertRenewAssumption
    DEF UploadFails, machine, Exit, Goto, Fault
  <2>2. CASE UNCHANGED cache /\ Exit(p, "upkey", "failed")
    BY <1>17, <2>2, ProcessOf, CertRenewAssumption
    DEF UploadFails, machine, Exit, Goto, Fault
  <2>3. CASE Upload(p, "chain") /\ Exit(p, "upchain", "failed")
    BY <1>17, <2>3, ProcessOf, CertRenewAssumption
    DEF UploadFails, machine, Exit, Goto, Upload, Fault
  <2>4. CASE Upload(p, "key") /\ Exit(p, "upkey", "failed")
    BY <1>17, <2>4, ProcessOf, CertRenewAssumption
    DEF UploadFails, machine, Exit, Goto, Upload, Fault
  <2> QED  BY <1>17, <2>1, <2>2, <2>3, <2>4 DEF UploadFails
<1>18. ASSUME NEW i \in Instances, Launch(i) PROVE Inv'
  BY <1>18, ProcessOf, CertRenewAssumption DEF Launch, Pair, machine
<1>19. ASSUME NEW i \in Instances, Reboot(i) PROVE Inv'
  <2>1. CASE UNCHANGED budget
    BY <1>19, <2>1, ProcessOf, CertRenewAssumption
    DEF Reboot, StopJobs, machine, Pair, Started
  <2>2. CASE Fault("kill")
    BY <1>19, <2>2, ProcessOf, CertRenewAssumption
    DEF Reboot, StopJobs, machine, Pair, Started, Fault
  <2> QED  BY <1>19, <2>1, <2>2 DEF Reboot, StopJobs
<1>20. ASSUME NEW i \in Instances, Terminate(i) PROVE Inv'
  <2>1. CASE UNCHANGED budget
    BY <1>20, <2>1, ProcessOf, CertRenewAssumption
    DEF Terminate, StopJobs, machine, Pair
  <2>2. CASE Fault("kill")
    BY <1>20, <2>2, ProcessOf, CertRenewAssumption
    DEF Terminate, StopJobs, machine, Pair, Fault
  <2> QED  BY <1>20, <2>1, <2>2 DEF Terminate, StopJobs
<1>21. CASE Age
  BY <1>21, ProcessOf, CertRenewAssumption DEF Age, machine
<1>22. CASE UNCHANGED vars
  BY <1>22, ProcessOf, CertRenewAssumption DEF vars, machine
<1> QED
  BY <1>1, <1>2, <1>3, <1>4, <1>5, <1>6, <1>7, <1>8, <1>9, <1>10, <1>11,
     <1>12, <1>13, <1>14, <1>15, <1>16, <1>17, <1>18, <1>19, <1>20, <1>21,
     <1>22
  DEF Next, Script, Machine

(* Every variable of the certificate script keeps its type, whatever       *)
(* overlaps and fails.                                                     *)
THEOREM TypeCorrect == Spec => []TypeOK
<1>1. Inv => TypeOK  BY DEF Inv
<1> QED  BY InvInit, InvStep, <1>1, PTL DEF Spec

-----------------------------------------------------------------------------
(* With one job at a time on every instance, a job that is about to        *)
(* install a chain has one that is no older.                               *)
LEMMA DiskStep == OneJobEach /\ DiskInv /\ [Next]_vars => DiskInv'
<1> SUFFICES ASSUME OneJobEach, DiskInv, [Next]_vars
             PROVE  Apart' /\ Newer'
  BY InvStep DEF DiskInv
<1> USE DEF OneJobEach, DiskInv, Apart, Newer, Inv, TypeOK, Bounded, Supplied,
            Certs, Files, NoFile, HasChain, HasKey
<1>1. ASSUME NEW p \in Processes, Start(p) PROVE Apart' /\ Newer'
  <2>1. Newer'
    BY <1>1, ProcessOf DEF Start, Goto, machine
  <2>2. Apart'
    <3>1. CASE Serial
      BY <1>1, <3>1 DEF Start, Goto, Running
    <3>2. CASE ~ Serial
      BY <3>2, ProcessOf
    <3> QED  BY <3>1, <3>2
  <2> QED  BY <2>1, <2>2
<1>2. ASSUME NEW p \in Processes, FetchChain(p) PROVE Apart' /\ Newer'
  BY <1>2, ProcessOf, CertRenewAssumption
  DEF FetchChain, Goto, Download, machine
<1>3. ASSUME NEW p \in Processes, FetchKey(p) PROVE Apart' /\ Newer'
  BY <1>3, ProcessOf, CertRenewAssumption DEF FetchKey, Goto, Download, machine
<1>4. ASSUME NEW p \in Processes, FetchFails(p) PROVE Apart' /\ Newer'
  <2>1. CASE Goto(p, "fetch", "check") /\ NoDownload(p, "chain")
    BY <1>4, <2>1, ProcessOf, CertRenewAssumption
    DEF FetchFails, machine, Goto, NoDownload, Fault
  <2>2. CASE Goto(p, "fetchkey", "check") /\ NoDownload(p, "key")
    BY <1>4, <2>2, ProcessOf, CertRenewAssumption
    DEF FetchFails, machine, Goto, NoDownload, Fault
  <2> QED  BY <1>4, <2>1, <2>2 DEF FetchFails
<1>5. ASSUME NEW p \in Processes, Compare(p) PROVE Apart' /\ Newer'
  <2>1. CASE Goto(p, "compare", "putchain")
    BY <1>5, <2>1, ProcessOf, CertRenewAssumption DEF Compare, machine, Goto
  <2>2. CASE Goto(p, "compare", "check")
    BY <1>5, <2>2, ProcessOf, CertRenewAssumption DEF Compare, machine, Goto
  <2> QED  BY <1>5, <2>1, <2>2 DEF Compare
<1>6. ASSUME NEW p \in Processes, PutChain(p) PROVE Apart' /\ Newer'
  BY <1>6, ProcessOf, CertRenewAssumption DEF PutChain, Goto, Put, machine
<1>7. ASSUME NEW p \in Processes, PutKey(p) PROVE Apart' /\ Newer'
  BY <1>7, ProcessOf, CertRenewAssumption DEF PutKey, Goto, Put, machine
<1>8. ASSUME NEW p \in Processes, Reload(p) PROVE Apart' /\ Newer'
  BY <1>8, ProcessOf, CertRenewAssumption
  DEF Reload, Goto, ReloadNginx, Started, machine
<1>9. ASSUME NEW p \in Processes, Check(p) PROVE Apart' /\ Newer'
  <2>1. CASE Exit(p, "check", "ok")
    BY <1>9, <2>1, ProcessOf, CertRenewAssumption
    DEF Check, machine, Exit, Goto
  <2>2. CASE Goto(p, "check", "issue") /\ UNCHANGED ended
    BY <1>9, <2>2, ProcessOf, CertRenewAssumption DEF Check, machine, Goto
  <2> QED  BY <1>9, <2>1, <2>2 DEF Check
<1>10. ASSUME NEW p \in Processes, Issue(p) PROVE Apart' /\ Newer'
  BY <1>10, ProcessOf, CertRenewAssumption DEF Issue, Goto, machine
<1>11. ASSUME NEW p \in Processes, IssueFails(p) PROVE Apart' /\ Newer'
  BY <1>11, ProcessOf, CertRenewAssumption
  DEF IssueFails, Goto, Exit, Fault, machine
<1>12. ASSUME NEW p \in Processes, NewChain(p) PROVE Apart' /\ Newer'
  BY <1>12, ProcessOf, CertRenewAssumption DEF NewChain, Goto, Put, machine
<1>13. ASSUME NEW p \in Processes, NewKey(p) PROVE Apart' /\ Newer'
  BY <1>13, ProcessOf, CertRenewAssumption DEF NewKey, Goto, Put, machine
<1>14. ASSUME NEW p \in Processes, NewReload(p) PROVE Apart' /\ Newer'
  BY <1>14, ProcessOf, CertRenewAssumption
  DEF NewReload, Goto, ReloadNginx, Started, machine
<1>15. ASSUME NEW p \in Processes, UploadChain(p) PROVE Apart' /\ Newer'
  BY <1>15, ProcessOf, CertRenewAssumption
  DEF UploadChain, Goto, Upload, machine
<1>16. ASSUME NEW p \in Processes, UploadKey(p) PROVE Apart' /\ Newer'
  BY <1>16, ProcessOf, CertRenewAssumption
  DEF UploadKey, Exit, Goto, Upload, machine
<1>17. ASSUME NEW p \in Processes, UploadFails(p) PROVE Apart' /\ Newer'
  <2>1. CASE UNCHANGED cache /\ Exit(p, "upchain", "failed")
    BY <1>17, <2>1, ProcessOf, CertRenewAssumption
    DEF UploadFails, machine, Exit, Goto, Fault
  <2>2. CASE UNCHANGED cache /\ Exit(p, "upkey", "failed")
    BY <1>17, <2>2, ProcessOf, CertRenewAssumption
    DEF UploadFails, machine, Exit, Goto, Fault
  <2>3. CASE Upload(p, "chain") /\ Exit(p, "upchain", "failed")
    BY <1>17, <2>3, ProcessOf, CertRenewAssumption
    DEF UploadFails, machine, Exit, Goto, Upload, Fault
  <2>4. CASE Upload(p, "key") /\ Exit(p, "upkey", "failed")
    BY <1>17, <2>4, ProcessOf, CertRenewAssumption
    DEF UploadFails, machine, Exit, Goto, Upload, Fault
  <2> QED  BY <1>17, <2>1, <2>2, <2>3, <2>4 DEF UploadFails
<1>18. ASSUME NEW i \in Instances, Launch(i) PROVE Apart' /\ Newer'
  BY <1>18, ProcessOf, CertRenewAssumption DEF Launch, Pair, machine
<1>19. ASSUME NEW i \in Instances, Reboot(i) PROVE Apart' /\ Newer'
  <2>1. CASE UNCHANGED budget
    BY <1>19, <2>1, ProcessOf, CertRenewAssumption
    DEF Reboot, StopJobs, machine, Pair, Started
  <2>2. CASE Fault("kill")
    BY <1>19, <2>2, ProcessOf, CertRenewAssumption
    DEF Reboot, StopJobs, machine, Pair, Started, Fault
  <2> QED  BY <1>19, <2>1, <2>2 DEF Reboot, StopJobs
<1>20. ASSUME NEW i \in Instances, Terminate(i) PROVE Apart' /\ Newer'
  <2>1. CASE UNCHANGED budget
    BY <1>20, <2>1, ProcessOf, CertRenewAssumption
    DEF Terminate, StopJobs, machine, Pair
  <2>2. CASE Fault("kill")
    BY <1>20, <2>2, ProcessOf, CertRenewAssumption
    DEF Terminate, StopJobs, machine, Pair, Fault
  <2> QED  BY <1>20, <2>1, <2>2 DEF Terminate, StopJobs
<1>21. CASE Age
  BY <1>21, ProcessOf, CertRenewAssumption DEF Age, machine
<1>22. CASE UNCHANGED vars
  BY <1>22, ProcessOf, CertRenewAssumption DEF vars, machine
<1> QED
  BY <1>1, <1>2, <1>3, <1>4, <1>5, <1>6, <1>7, <1>8, <1>9, <1>10, <1>11,
     <1>12, <1>13, <1>14, <1>15, <1>16, <1>17, <1>18, <1>19, <1>20, <1>21,
     <1>22
  DEF Next, Script, Machine

-----------------------------------------------------------------------------
(* While runs do not overlap, what is installed and uploaded is the newest *)
(* certificate.                                                            *)
LEMMA SerialStep == Serial /\ SerialInv /\ [Next]_vars => SerialInv'
<1> SUFFICES ASSUME Serial, SerialInv, [Next]_vars
             PROVE  Alone' /\ Newest'
  BY InvStep DEF SerialInv
<1> USE DEF SerialInv, Alone, Newest, Inv, TypeOK, Bounded, Supplied,
            Certs, Files, NoFile, Renewing
<1>1. ASSUME NEW p \in Processes, Start(p) PROVE Alone' /\ Newest'
  BY <1>1, ProcessOf, CertRenewAssumption DEF Start, Goto, Running, machine
<1>2. ASSUME NEW p \in Processes, FetchChain(p) PROVE Alone' /\ Newest'
  BY <1>2, ProcessOf, CertRenewAssumption
  DEF FetchChain, Goto, Download, machine
<1>3. ASSUME NEW p \in Processes, FetchKey(p) PROVE Alone' /\ Newest'
  BY <1>3, ProcessOf, CertRenewAssumption DEF FetchKey, Goto, Download, machine
<1>4. ASSUME NEW p \in Processes, FetchFails(p) PROVE Alone' /\ Newest'
  <2>1. CASE Goto(p, "fetch", "check") /\ NoDownload(p, "chain")
    BY <1>4, <2>1, ProcessOf, CertRenewAssumption
    DEF FetchFails, machine, Goto, NoDownload, Fault
  <2>2. CASE Goto(p, "fetchkey", "check") /\ NoDownload(p, "key")
    BY <1>4, <2>2, ProcessOf, CertRenewAssumption
    DEF FetchFails, machine, Goto, NoDownload, Fault
  <2> QED  BY <1>4, <2>1, <2>2 DEF FetchFails
<1>5. ASSUME NEW p \in Processes, Compare(p) PROVE Alone' /\ Newest'
  <2>1. CASE Goto(p, "compare", "putchain")
    BY <1>5, <2>1, ProcessOf, CertRenewAssumption DEF Compare, machine, Goto
  <2>2. CASE Goto(p, "compare", "check")
    BY <1>5, <2>2, ProcessOf, CertRenewAssumption DEF Compare, machine, Goto
  <2> QED  BY <1>5, <2>1, <2>2 DEF Compare
<1>6. ASSUME NEW p \in Processes, PutChain(p) PROVE Alone' /\ Newest'
  BY <1>6, ProcessOf, CertRenewAssumption DEF PutChain, Goto, Put, machine
<1>7. ASSUME NEW p \in Processes, PutKey(p) PROVE Alone' /\ Newest'
  BY <1>7, ProcessOf, CertRenewAssumption DEF PutKey, Goto, Put, machine
<1>8. ASSUME NEW p \in Processes, Reload(p) PROVE Alone' /\ Newest'
  BY <1>8, ProcessOf, CertRenewAssumption
  DEF Reload, Goto, ReloadNginx, Started, machine
<1>9. ASSUME NEW p \in Processes, Check(p) PROVE Alone' /\ Newest'
  <2>1. CASE Exit(p, "check", "ok")
    BY <1>9, <2>1, ProcessOf, CertRenewAssumption
    DEF Check, machine, Exit, Goto
  <2>2. CASE Goto(p, "check", "issue") /\ UNCHANGED ended
    BY <1>9, <2>2, ProcessOf, CertRenewAssumption DEF Check, machine, Goto
  <2> QED  BY <1>9, <2>1, <2>2 DEF Check
<1>10. ASSUME NEW p \in Processes, Issue(p) PROVE Alone' /\ Newest'
  BY <1>10, ProcessOf, CertRenewAssumption DEF Issue, Goto, machine
<1>11. ASSUME NEW p \in Processes, IssueFails(p) PROVE Alone' /\ Newest'
  BY <1>11, ProcessOf, CertRenewAssumption
  DEF IssueFails, Goto, Exit, Fault, machine
<1>12. ASSUME NEW p \in Processes, NewChain(p) PROVE Alone' /\ Newest'
  BY <1>12, ProcessOf, CertRenewAssumption DEF NewChain, Goto, Put, machine
<1>13. ASSUME NEW p \in Processes, NewKey(p) PROVE Alone' /\ Newest'
  BY <1>13, ProcessOf, CertRenewAssumption DEF NewKey, Goto, Put, machine
<1>14. ASSUME NEW p \in Processes, NewReload(p) PROVE Alone' /\ Newest'
  BY <1>14, ProcessOf, CertRenewAssumption
  DEF NewReload, Goto, ReloadNginx, Started, machine
<1>15. ASSUME NEW p \in Processes, UploadChain(p) PROVE Alone' /\ Newest'
  BY <1>15, ProcessOf, CertRenewAssumption
  DEF UploadChain, Goto, Upload, machine
<1>16. ASSUME NEW p \in Processes, UploadKey(p) PROVE Alone' /\ Newest'
  BY <1>16, ProcessOf, CertRenewAssumption
  DEF UploadKey, Exit, Goto, Upload, machine
<1>17. ASSUME NEW p \in Processes, UploadFails(p) PROVE Alone' /\ Newest'
  <2>1. CASE UNCHANGED cache /\ Exit(p, "upchain", "failed")
    BY <1>17, <2>1, ProcessOf, CertRenewAssumption
    DEF UploadFails, machine, Exit, Goto, Fault
  <2>2. CASE UNCHANGED cache /\ Exit(p, "upkey", "failed")
    BY <1>17, <2>2, ProcessOf, CertRenewAssumption
    DEF UploadFails, machine, Exit, Goto, Fault
  <2>3. CASE Upload(p, "chain") /\ Exit(p, "upchain", "failed")
    BY <1>17, <2>3, ProcessOf, CertRenewAssumption
    DEF UploadFails, machine, Exit, Goto, Upload, Fault
  <2>4. CASE Upload(p, "key") /\ Exit(p, "upkey", "failed")
    BY <1>17, <2>4, ProcessOf, CertRenewAssumption
    DEF UploadFails, machine, Exit, Goto, Upload, Fault
  <2> QED  BY <1>17, <2>1, <2>2, <2>3, <2>4 DEF UploadFails
<1>18. ASSUME NEW i \in Instances, Launch(i) PROVE Alone' /\ Newest'
  BY <1>18, ProcessOf, CertRenewAssumption DEF Launch, Pair, machine
<1>19. ASSUME NEW i \in Instances, Reboot(i) PROVE Alone' /\ Newest'
  <2>1. CASE UNCHANGED budget
    BY <1>19, <2>1, ProcessOf, CertRenewAssumption
    DEF Reboot, StopJobs, machine, Pair, Started
  <2>2. CASE Fault("kill")
    BY <1>19, <2>2, ProcessOf, CertRenewAssumption
    DEF Reboot, StopJobs, machine, Pair, Started, Fault
  <2> QED  BY <1>19, <2>1, <2>2 DEF Reboot, StopJobs
<1>20. ASSUME NEW i \in Instances, Terminate(i) PROVE Alone' /\ Newest'
  <2>1. CASE UNCHANGED budget
    BY <1>20, <2>1, ProcessOf, CertRenewAssumption
    DEF Terminate, StopJobs, machine, Pair
  <2>2. CASE Fault("kill")
    BY <1>20, <2>2, ProcessOf, CertRenewAssumption
    DEF Terminate, StopJobs, machine, Pair, Fault
  <2> QED  BY <1>20, <2>1, <2>2 DEF Terminate, StopJobs
<1>21. CASE Age
  BY <1>21, ProcessOf, CertRenewAssumption DEF Age, machine
<1>22. CASE UNCHANGED vars
  BY <1>22, ProcessOf, CertRenewAssumption DEF vars, machine
<1> QED
  BY <1>1, <1>2, <1>3, <1>4, <1>5, <1>6, <1>7, <1>8, <1>9, <1>10, <1>11,
     <1>12, <1>13, <1>14, <1>15, <1>16, <1>17, <1>18, <1>19, <1>20, <1>21,
     <1>22
  DEF Next, Script, Machine

(* While no run is cut off either, files that are together belong          *)
(* together.                                                               *)
LEMMA WholeStep ==
    Serial /\ Without(Partings)' /\ WholeInv /\ [Next]_vars => WholeInv'
<1> SUFFICES ASSUME Serial, Without(Partings)', WholeInv, [Next]_vars
             PROVE  InHand' /\ Cached' /\ Serves'
  BY SerialStep DEF WholeInv
<1>0. ~ Fault("upload") /\ ~ Fault("kill")
  BY DEF Without, Partings, Fault
<1> USE DEF WholeInv, InHand, Cached, Serves, Whole, SerialInv, Alone, Newest,
            Inv, TypeOK, Supplied, Certs, Files, NoFile, HasChain, HasKey,
            Renewing
<1>1. ASSUME NEW p \in Processes, Start(p) PROVE InHand' /\ Cached' /\ Serves'
  BY <1>1, <1>0, ProcessOf, CertRenewAssumption
  DEF Start, Goto, Running, machine
<1>2. ASSUME NEW p \in Processes,
    FetchChain(p) PROVE InHand' /\ Cached' /\ Serves'
  BY <1>2, <1>0, ProcessOf, CertRenewAssumption
  DEF FetchChain, Goto, Download, machine
<1>3. ASSUME NEW p \in Processes,
    FetchKey(p) PROVE InHand' /\ Cached' /\ Serves'
  <2>1. InHand'
    BY <1>3, ProcessOf DEF FetchKey, Goto, Download, machine
  <2>2. (Cached /\ Serves)'
    BY <1>3 DEF FetchKey, Goto, Download, machine
  <2> QED  BY <2>1, <2>2
<1>4. ASSUME NEW p \in Processes,
    FetchFails(p) PROVE InHand' /\ Cached' /\ Serves'
  <2>1. CASE Goto(p, "fetch", "check") /\ NoDownload(p, "chain")
    BY <1>4, <2>1, <1>0, ProcessOf, CertRenewAssumption
    DEF FetchFails, machine, Goto, NoDownload, Fault
  <2>2. CASE Goto(p, "fetchkey", "check") /\ NoDownload(p, "key")
    BY <1>4, <2>2, <1>0, ProcessOf, CertRenewAssumption
    DEF FetchFails, machine, Goto, NoDownload, Fault
  <2> QED  BY <1>4, <2>1, <2>2 DEF FetchFails
<1>5. ASSUME NEW p \in Processes,
    Compare(p) PROVE InHand' /\ Cached' /\ Serves'
  <2>1. CASE Goto(p, "compare", "putchain")
    <3>1. InHand'  BY <1>5, <2>1 DEF Compare, machine, Goto
    <3>2. (Cached /\ Serves)'  BY <1>5, <2>1 DEF Compare, machine, Goto
    <3> QED  BY <3>1, <3>2
  <2>2. CASE Goto(p, "compare", "check")
    BY <1>5, <2>2, <1>0, ProcessOf, CertRenewAssumption
    DEF Compare, machine, Goto
  <2> QED  BY <1>5, <2>1, <2>2 DEF Compare
<1>6. ASSUME NEW p \in Processes,
    PutChain(p) PROVE InHand' /\ Cached' /\ Serves'
  BY <1>6, <1>0, ProcessOf, CertRenewAssumption
  DEF PutChain, Goto, Put, machine
<1>7. ASSUME NEW p \in Processes, PutKey(p) PROVE InHand' /\ Cached' /\ Serves'
  BY <1>7, <1>0, ProcessOf, CertRenewAssumption DEF PutKey, Goto, Put, machine
<1>8. ASSUME NEW p \in Processes, Reload(p) PROVE InHand' /\ Cached' /\ Serves'
  <2>1. \A q \in Processes : q # p => pc[q] = "idle"
    BY <1>8 DEF Reload, Goto
  <2>2. Whole(live[p[1]])  BY <1>8, <2>1, ProcessOf DEF Reload, Goto
  <2>3. served' = [served EXCEPT ![p[1]] = live[p[1]]["chain"]]
    BY <1>8, <2>2, ProcessOf DEF Reload, ReloadNginx, Started, Down
  <2>4. InHand' /\ Cached'
    BY <1>8, <2>1 DEF Reload, Goto, ReloadNginx, machine
  <2>5. Serves'
    BY <1>8, <2>1, <2>2, <2>3, ProcessOf DEF Reload, Goto, ReloadNginx, machine
  <2> QED  BY <2>4, <2>5
<1>9. ASSUME NEW p \in Processes, Check(p) PROVE InHand' /\ Cached' /\ Serves'
  <2>1. CASE Exit(p, "check", "ok")
    BY <1>9, <2>1, <1>0, ProcessOf, CertRenewAssumption
    DEF Check, machine, Exit, Goto
  <2>2. CASE Goto(p, "check", "issue") /\ UNCHANGED ended
    BY <1>9, <2>2, <1>0, ProcessOf, CertRenewAssumption
    DEF Check, machine, Goto
  <2> QED  BY <1>9, <2>1, <2>2 DEF Check
<1>10. ASSUME NEW p \in Processes, Issue(p) PROVE InHand' /\ Cached' /\ Serves'
  BY <1>10, <1>0, ProcessOf, CertRenewAssumption DEF Issue, Goto, machine
<1>11. ASSUME NEW p \in Processes,
    IssueFails(p) PROVE InHand' /\ Cached' /\ Serves'
  BY <1>11, <1>0, ProcessOf, CertRenewAssumption
  DEF IssueFails, Goto, Exit, Fault, machine
<1>12. ASSUME NEW p \in Processes,
    NewChain(p) PROVE InHand' /\ Cached' /\ Serves'
  BY <1>12, <1>0, ProcessOf, CertRenewAssumption
  DEF NewChain, Goto, Put, machine
<1>13. ASSUME NEW p \in Processes,
    NewKey(p) PROVE InHand' /\ Cached' /\ Serves'
  BY <1>13, <1>0, ProcessOf, CertRenewAssumption DEF NewKey, Goto, Put, machine
<1>14. ASSUME NEW p \in Processes,
    NewReload(p) PROVE InHand' /\ Cached' /\ Serves'
  <2>1. \A q \in Processes : q # p => pc[q] = "idle"
    BY <1>14 DEF NewReload, Goto
  <2>2. Whole(live[p[1]])  BY <1>14, <2>1, ProcessOf DEF NewReload, Goto
  <2>3. served' = [served EXCEPT ![p[1]] = live[p[1]]["chain"]]
    BY <1>14, <2>2, ProcessOf DEF NewReload, ReloadNginx, Started, Down
  <2>4. InHand' /\ Cached'
    BY <1>14, <2>1 DEF NewReload, Goto, ReloadNginx, machine
  <2>5. Serves'
    BY <1>14, <2>1, <2>2, <2>3, ProcessOf
    DEF NewReload, Goto, ReloadNginx, machine
  <2> QED  BY <2>4, <2>5
<1>15. ASSUME NEW p \in Processes,
    UploadChain(p) PROVE InHand' /\ Cached' /\ Serves'
  <2>1. \A q \in Processes : q # p => pc[q] = "idle"
    BY <1>15 DEF UploadChain, Goto
  <2>2. InHand'
    BY <1>15, <2>1, ProcessOf DEF UploadChain, Goto, Upload, machine
  <2>3. Cached'  BY <1>15 DEF UploadChain, Goto
  <2>4. Serves'
    BY <1>15, <2>1, ProcessOf DEF UploadChain, Goto, machine
  <2> QED  BY <2>2, <2>3, <2>4
<1>16. ASSUME NEW p \in Processes,
    UploadKey(p) PROVE InHand' /\ Cached' /\ Serves'
  BY <1>16, <1>0, ProcessOf, CertRenewAssumption
  DEF UploadKey, Exit, Goto, Upload, machine
<1>17. ASSUME NEW p \in Processes,
    UploadFails(p) PROVE InHand' /\ Cached' /\ Serves'
  <2>1. CASE UNCHANGED cache /\ Exit(p, "upchain", "failed")
    BY <1>17, <2>1, <1>0, ProcessOf, CertRenewAssumption
    DEF UploadFails, machine, Exit, Goto, Fault
  <2>2. CASE UNCHANGED cache /\ Exit(p, "upkey", "failed")
    BY <1>17, <2>2, <1>0, ProcessOf, CertRenewAssumption
    DEF UploadFails, machine, Exit, Goto, Fault
  <2>3. CASE Upload(p, "chain") /\ Exit(p, "upchain", "failed")
    BY <1>17, <2>3, <1>0, ProcessOf, CertRenewAssumption
    DEF UploadFails, machine, Exit, Goto, Upload, Fault
  <2>4. CASE Upload(p, "key") /\ Exit(p, "upkey", "failed")
    BY <1>17, <2>4, <1>0, ProcessOf, CertRenewAssumption
    DEF UploadFails, machine, Exit, Goto, Upload, Fault
  <2> QED  BY <1>17, <2>1, <2>2, <2>3, <2>4 DEF UploadFails
<1>18. ASSUME NEW i \in Instances,
    Launch(i) PROVE InHand' /\ Cached' /\ Serves'
  BY <1>18, <1>0, ProcessOf, CertRenewAssumption DEF Launch, Pair, machine
<1>19. ASSUME NEW i \in Instances,
    Reboot(i) PROVE InHand' /\ Cached' /\ Serves'
  <2>1. ~ Busy(i)  BY <1>19, <1>0 DEF Reboot, StopJobs, Fault
  <2>2. \A q \in Processes :
          pc'[q] = pc[q] /\ (pc[q] # "idle" => tmp'[q] = tmp[q])
    BY <1>19, <2>1 DEF Reboot, StopJobs, Busy, Running
  <2>3. \A q \in Processes : q[1] = i => pc[q] = "idle"
    BY <2>1 DEF Busy, Running
  <2>4. InHand' /\ Cached'  BY <1>19, <2>2 DEF Reboot
  <2>5. Serves'  BY <1>19, <2>2, <2>3 DEF Reboot, Started, Down
  <2> QED  BY <2>4, <2>5
<1>20. ASSUME NEW i \in Instances,
    Terminate(i) PROVE InHand' /\ Cached' /\ Serves'
  <2>1. ~ Busy(i)  BY <1>20, <1>0 DEF Terminate, StopJobs, Fault
  <2>2. \A q \in Processes :
          pc'[q] = pc[q] /\ (pc[q] # "idle" => tmp'[q] = tmp[q])
    BY <1>20, <2>1 DEF Terminate, StopJobs, Busy, Running
  <2>3. \A q \in Processes : q[1] = i => pc[q] = "idle"
    BY <2>1 DEF Busy, Running
  <2>4. Cached'  BY <1>20, <2>2 DEF Terminate
  <2>5. UNCHANGED <<issued, cache, live>>  BY <1>20 DEF Terminate
  <2>6. InHand'  BY <2>2, <2>5
  <2>7. Serves'  BY <1>20, <2>2, <2>3 DEF Terminate, Down
  <2> QED  BY <2>4, <2>6, <2>7
<1>21. CASE Age
  BY <1>21, <1>0, ProcessOf, CertRenewAssumption DEF Age, machine
<1>22. CASE UNCHANGED vars
  BY <1>22, <1>0, ProcessOf, CertRenewAssumption DEF vars, machine
<1> QED
  BY <1>1, <1>2, <1>3, <1>4, <1>5, <1>6, <1>7, <1>8, <1>9, <1>10, <1>11,
     <1>12, <1>13, <1>14, <1>15, <1>16, <1>17, <1>18, <1>19, <1>20, <1>21,
     <1>22
  DEF Next, Script, Machine

(* Under the same circumstances the cache has the newest certificate, and  *)
(* an instance that is about to issue has compared with it if it could.    *)
LEMMA NewestStep ==
    Serial /\ Without(Partings)' /\ NewestInv /\ [Next]_vars
        => NewestInv'
<1> SUFFICES ASSUME Serial, Without(Partings)', NewestInv,
                    [Next]_vars
             PROVE  NewestInv'
  OBVIOUS
<1>0. ~ Fault("upload") /\ ~ Fault("kill")
  BY DEF Without, Partings, Fault
<1>a. WholeInv'
  BY WholeStep DEF NewestInv
<1> SUFFICES CacheNewest' /\ IssuesLate'
  BY <1>a DEF NewestInv
<1> USE DEF NewestInv, CacheNewest, IssuesLate, WholeInv, InHand, SerialInv,
            Alone, Newest, Inv, TypeOK, Bounded, Supplied, Certs, Files,
            NoFile, HasChain, HasKey, Renewing, Pair
<1>1. ASSUME NEW p \in Processes, Start(p) PROVE CacheNewest' /\ IssuesLate'
  BY <1>1, <1>0, ProcessOf, CertRenewAssumption
  DEF Start, Goto, Running, machine
<1>2. ASSUME NEW p \in Processes,
    FetchChain(p) PROVE CacheNewest' /\ IssuesLate'
  BY <1>2, <1>0, ProcessOf, CertRenewAssumption
  DEF FetchChain, Goto, Download, machine
<1>3. ASSUME NEW p \in Processes, FetchKey(p) PROVE CacheNewest' /\ IssuesLate'
  BY <1>3, <1>0, ProcessOf, CertRenewAssumption
  DEF FetchKey, Goto, Download, machine
<1>4. ASSUME NEW p \in Processes,
    FetchFails(p) PROVE CacheNewest' /\ IssuesLate'
  BY <1>4, <1>0, ProcessOf, CertRenewAssumption
  DEF FetchFails, NoDownload, Goto, machine
<1>5. ASSUME NEW p \in Processes, Compare(p) PROVE CacheNewest' /\ IssuesLate'
  <2>1. \A q \in Processes : pc[q] \notin Renewing  BY <1>5 DEF Compare, Goto
  <2>2. tmp[p]["chain"] = issued
    BY <1>5, <2>1, ProcessOf DEF Compare, Goto
  <2>3. CASE Goto(p, "compare", "putchain")
    BY <1>5, <2>1, <2>2, <2>3, ProcessOf DEF Compare, machine, Goto
  <2>4. CASE Goto(p, "compare", "check")
    <3>1. tmp[p]["chain"] <= live[p[1]]["chain"]
      BY <1>5, <2>4 DEF Compare, Goto
    <3>2. live[p[1]]["chain"] <= issued /\ live[p[1]]["chain"] \in Int
      BY ProcessOf, CertRenewAssumption
    <3>3. live[p[1]]["chain"] = issued
      BY <2>2, <3>1, <3>2, CertRenewAssumption
    <3> QED  BY <1>5, <2>1, <2>4, <3>3, ProcessOf DEF Compare, machine, Goto
  <2> QED  BY <1>5, <2>3, <2>4 DEF Compare
<1>6. ASSUME NEW p \in Processes, PutChain(p) PROVE CacheNewest' /\ IssuesLate'
  BY <1>6, <1>0, ProcessOf, CertRenewAssumption
  DEF PutChain, Goto, Put, machine
<1>7. ASSUME NEW p \in Processes, PutKey(p) PROVE CacheNewest' /\ IssuesLate'
  BY <1>7, <1>0, ProcessOf, CertRenewAssumption DEF PutKey, Goto, Put, machine
<1>8. ASSUME NEW p \in Processes, Reload(p) PROVE CacheNewest' /\ IssuesLate'
  BY <1>8, <1>0, ProcessOf, CertRenewAssumption
  DEF Reload, Goto, ReloadNginx, Started, machine
<1>9. ASSUME NEW p \in Processes, Check(p) PROVE CacheNewest' /\ IssuesLate'
  <2>1. \A q \in Processes : pc[q] \notin Renewing  BY <1>9 DEF Check, Goto,
                                                                Exit
  <2>2. CASE Exit(p, "check", "ok")
    BY <1>9, <2>1, <2>2, ProcessOf DEF Check, machine, Exit, Goto
  <2>3. CASE live[p[1]]["chain"] < due /\ Goto(p, "check", "issue")
    BY <1>9, <2>1, <2>3, ProcessOf DEF Check, machine, Goto
  <2> QED  BY <1>9, <2>2, <2>3 DEF Check
<1>10. ASSUME NEW p \in Processes, Issue(p) PROVE CacheNewest' /\ IssuesLate'
  BY <1>10, <1>0, ProcessOf, CertRenewAssumption DEF Issue, Goto, machine
<1>11. ASSUME NEW p \in Processes,
    IssueFails(p) PROVE CacheNewest' /\ IssuesLate'
  <2>1. \A q \in Processes : pc[q] \notin Renewing /\ pc'[q] = "idle"
    BY <1>11 DEF IssueFails, Exit, Goto
  <2>2. CacheNewest'
    BY <1>11, <2>1 DEF IssueFails, Exit, Goto
  <2>3. IssuesLate'  BY <2>1
  <2> QED  BY <2>2, <2>3
<1>12. ASSUME NEW p \in Processes,
    NewChain(p) PROVE CacheNewest' /\ IssuesLate'
  <2>1. pc'[p] = "newkey" /\ \A q \in Processes : q = p \/ pc'[q] = "idle"
    BY <1>12 DEF NewChain, Goto
  <2>2. CacheNewest'  BY <2>1
  <2>3. IssuesLate'  BY <2>1
  <2> QED  BY <2>2, <2>3
<1>13. ASSUME NEW p \in Processes, NewKey(p) PROVE CacheNewest' /\ IssuesLate'
  BY <1>13, <1>0, ProcessOf, CertRenewAssumption DEF NewKey, Goto, Put, machine
<1>14. ASSUME NEW p \in Processes,
    NewReload(p) PROVE CacheNewest' /\ IssuesLate'
  BY <1>14, <1>0, ProcessOf, CertRenewAssumption
  DEF NewReload, Goto, ReloadNginx, Started, machine
<1>15. ASSUME NEW p \in Processes,
    UploadChain(p) PROVE CacheNewest' /\ IssuesLate'
  BY <1>15, <1>0, ProcessOf, CertRenewAssumption
  DEF UploadChain, Goto, Upload, machine
<1>16. ASSUME NEW p \in Processes,
    UploadKey(p) PROVE CacheNewest' /\ IssuesLate'
  BY <1>16, <1>0, ProcessOf, CertRenewAssumption
  DEF UploadKey, Exit, Goto, Upload, machine
<1>17. ASSUME NEW p \in Processes,
    UploadFails(p) PROVE CacheNewest' /\ IssuesLate'
  <2>1. CASE UNCHANGED cache /\ Exit(p, "upchain", "failed")
    BY <1>17, <2>1, <1>0, ProcessOf, CertRenewAssumption
    DEF UploadFails, machine, Exit, Goto, Fault
  <2>2. CASE UNCHANGED cache /\ Exit(p, "upkey", "failed")
    BY <1>17, <2>2, <1>0, ProcessOf, CertRenewAssumption
    DEF UploadFails, machine, Exit, Goto, Fault
  <2>3. CASE Upload(p, "chain") /\ Exit(p, "upchain", "failed")
    BY <1>17, <2>3, <1>0, ProcessOf, CertRenewAssumption
    DEF UploadFails, machine, Exit, Goto, Upload, Fault
  <2>4. CASE Upload(p, "key") /\ Exit(p, "upkey", "failed")
    BY <1>17, <2>4, <1>0, ProcessOf, CertRenewAssumption
    DEF UploadFails, machine, Exit, Goto, Upload, Fault
  <2> QED  BY <1>17, <2>1, <2>2, <2>3, <2>4 DEF UploadFails
<1>18. ASSUME NEW i \in Instances, Launch(i) PROVE CacheNewest' /\ IssuesLate'
  BY <1>18, <1>0, ProcessOf, CertRenewAssumption DEF Launch, Pair, machine
<1>19. ASSUME NEW i \in Instances, Reboot(i) PROVE CacheNewest' /\ IssuesLate'
  <2>1. ~ Busy(i)  BY <1>19, <1>0 DEF Reboot, StopJobs, Fault
  <2>2. \A q \in Processes :
          pc'[q] = pc[q] /\ (pc[q] # "idle" => tmp'[q] = tmp[q])
    BY <1>19, <2>1 DEF Reboot, StopJobs, Busy, Running
  <2> QED  BY <1>19, <2>2 DEF Reboot
<1>20. ASSUME NEW i \in Instances,
    Terminate(i) PROVE CacheNewest' /\ IssuesLate'
  <2>1. ~ Busy(i)  BY <1>20, <1>0 DEF Terminate, StopJobs, Fault
  <2>2. \A q \in Processes :
          pc'[q] = pc[q] /\ (pc[q] # "idle" => tmp'[q] = tmp[q])
    BY <1>20, <2>1 DEF Terminate, StopJobs, Busy, Running
  <2> QED  BY <1>20, <2>2 DEF Terminate
<1>21. CASE Age
  BY <1>21, <1>0, ProcessOf, CertRenewAssumption DEF Age, machine
<1>22. CASE UNCHANGED vars
  BY <1>22, <1>0, ProcessOf, CertRenewAssumption DEF vars, machine
<1> QED
  BY <1>1, <1>2, <1>3, <1>4, <1>5, <1>6, <1>7, <1>8, <1>9, <1>10, <1>11,
     <1>12, <1>13, <1>14, <1>15, <1>16, <1>17, <1>18, <1>19, <1>20, <1>21,
     <1>22
  DEF Next, Script, Machine

-----------------------------------------------------------------------------
(* The initial states satisfy every one of the invariants. *)
LEMMA NewestInit == Init => NewestInv /\ DiskInv
<1> SUFFICES ASSUME Init PROVE NewestInv /\ DiskInv
  OBVIOUS
<1>1. Inv  BY InvInit
<1>2. \A p \in Processes : pc[p] = "idle"  BY DEF Init
<1>3. Apart /\ Newer /\ Alone /\ Newest
  BY <1>2 DEF Apart, Newer, Alone, Newest, Renewing
<1>4. InHand /\ IssuesLate
  BY <1>2 DEF InHand, IssuesLate, HasChain, HasKey
<1>5. issued = 0 /\ up = {} /\ cache \in {Pair(NoFile), Pair(0)}
  BY DEF Init
<1>6. Cached /\ Serves /\ CacheNewest
  BY <1>5 DEF Cached, Serves, CacheNewest, Whole, Pair, Files
<1> QED
  BY <1>1, <1>3, <1>4, <1>6 DEF DiskInv, NewestInv, WholeInv, SerialInv

(* Each invariant holds throughout, under its own circumstances. *)
LEMMA DiskInvariant == Spec => [](OneJobEach => DiskInv)
<1> DEFINE I == OneJobEach => DiskInv
<1>1. Init => I  BY NewestInit
<1>2. I /\ [Next]_vars => I'
  BY DiskStep DEF OneJobEach
<1> QED  BY <1>1, <1>2, PTL DEF Spec

LEMMA SerialInvariant == Spec => [](Serial => SerialInv)
<1> DEFINE I == Serial => SerialInv
<1>1. Init => I  BY NewestInit DEF NewestInv, WholeInv
<1>2. I /\ [Next]_vars => I'
  BY SerialStep
<1> QED  BY <1>1, <1>2, PTL DEF Spec

\* A fault that has happened has happened.
LEMMA MetGrows == [Next]_vars => met \subseteq met'
<1> SUFFICES ASSUME [Next]_vars PROVE met \subseteq met'
  OBVIOUS
<1>1. \A f : Fault(f) => met \subseteq met'  BY DEF Fault
<1>2. UNCHANGED budget => met \subseteq met'  BY DEF budget
<1> QED
  BY <1>1, <1>2
  DEF Next, vars, Start, Script, FetchChain, FetchKey, Download, FetchFails,
      NoDownload, Compare, PutChain, PutKey, NewChain, NewKey, Put, Reload,
      NewReload, ReloadNginx, Check, Issue, IssueFails, UploadChain,
      UploadKey, UploadFails, Machine, Launch, Reboot, Terminate, StopJobs,
      Age

LEMMA NothingUndone ==
    [Next]_vars /\ Without(Partings)' => Without(Partings)
BY MetGrows DEF Without

LEMMA WholeInvariant ==
    Spec => [](Serial /\ Without(Partings) => WholeInv)
<1> DEFINE I == Serial /\ Without(Partings) => WholeInv
<1>1. Init => I  BY NewestInit DEF NewestInv
<1>2. I /\ [Next]_vars => I'
  BY WholeStep, NothingUndone
<1> QED  BY <1>1, <1>2, PTL DEF Spec

LEMMA NewestInvariant ==
    Spec => [](Serial /\ Without(Partings) => NewestInv)
<1> DEFINE I == Serial /\ Without(Partings) => NewestInv
<1>1. Init => I  BY NewestInit
<1>2. I /\ [Next]_vars => I'
  BY NewestStep, NothingUndone
<1> QED  BY <1>1, <1>2, PTL DEF Spec

-----------------------------------------------------------------------------
(* Who writes to LIVE_DIR of an instance that is up: the two installations *)
(* of the script.                                                          *)
LEMMA OnlyPut ==
    ASSUME Inv, [Next]_vars, NEW i \in up, live'[i]["chain"] # live[i]["chain"]
    PROVE  \E p \in Processes : p[1] = i /\ (PutChain(p) \/ NewChain(p))
<1> USE DEF Inv, TypeOK, Files
<1>1. ASSUME NEW p \in Processes, Start(p) \/ Script(p)
      PROVE  p[1] = i /\ (PutChain(p) \/ NewChain(p))
  <2>1. Put(p, "chain", tmp[p]["chain"]) => p[1] = i  BY ProcessOf DEF Put
  <2>2. Put(p, "chain", certDir[p[1]]) => p[1] = i  BY ProcessOf DEF Put
  <2>3. ~ Put(p, "key", tmp[p]["key"]) /\ ~ Put(p, "key", certDir[p[1]])
    BY ProcessOf DEF Put
  <2> QED
    BY <1>1, <2>1, <2>2, <2>3
    DEF Start, Script, FetchChain, FetchKey, Download, FetchFails, NoDownload,
        Compare, PutChain, NewChain, PutKey, NewKey, Reload, NewReload,
        ReloadNginx, Check, Issue, IssueFails, UploadChain, UploadKey,
            UploadFails
<1>2. ASSUME NEW j \in Instances, Machine(j) PROVE FALSE
  BY <1>2 DEF Machine, Launch, Reboot, Terminate
<1>3. ~ Age /\ ~ UNCHANGED vars  BY DEF Age, vars
<1> QED  BY <1>1, <1>2, <1>3 DEF Next

(* Who writes the chain in S3: the upload of the script. *)
LEMMA OnlyUpload ==
    ASSUME Inv, [Next]_vars, cache'["chain"] # cache["chain"]
    PROVE  \E p \in Processes :
              pc[p] = "upchain" /\ Upload(p, "chain")
<1> USE DEF Inv, TypeOK, Files
<1>1. ASSUME NEW p \in Processes, Start(p) \/ Script(p)
      PROVE  pc[p] = "upchain" /\ Upload(p, "chain")
  <2>1. ~ Upload(p, "key")  BY ProcessOf DEF Upload
  <2>2. ASSUME UploadFails(p) PROVE pc[p] = "upchain" /\ Upload(p, "chain")
    BY <2>1, <2>2 DEF UploadFails, Exit, Goto
  <2>3. ASSUME UploadChain(p) PROVE pc[p] = "upchain" /\ Upload(p, "chain")
    BY <2>3 DEF UploadChain, Goto
  <2> QED
    BY <1>1, <2>1, <2>2, <2>3
    DEF Start, Script, FetchChain, FetchKey, Download, FetchFails, NoDownload,
        Compare, PutChain, PutKey, NewChain, NewKey, Put, Reload, NewReload,
        ReloadNginx, Check, Issue, IssueFails, UploadKey
<1>2. ASSUME NEW j \in Instances, Machine(j) PROVE FALSE
  BY <1>2 DEF Machine, Launch, Reboot, Terminate
<1>3. ~ Age /\ ~ UNCHANGED vars  BY DEF Age, vars
<1> QED  BY <1>1, <1>2, <1>3 DEF Next

(* Who asks for a certificate: the script, at the step of acme.sh. *)
LEMMA OnlyIssue ==
    ASSUME [Next]_vars, issued' # issued
    PROVE  \E p \in Processes : Issue(p)
<1>1. ASSUME NEW p \in Processes, Start(p) \/ Script(p) PROVE Issue(p)
  BY <1>1
  DEF Start, Script, FetchChain, FetchKey, Download, FetchFails, NoDownload,
      Compare, PutChain, PutKey, NewChain, NewKey, Put, Reload, NewReload,
      ReloadNginx, Check, IssueFails, UploadChain, UploadKey, UploadFails
<1>2. ASSUME NEW j \in Instances, Machine(j) PROVE FALSE
  BY <1>2 DEF Machine, Launch, Reboot, Terminate
<1>3. ~ Age /\ ~ UNCHANGED vars  BY DEF Age, vars
<1> QED  BY <1>1, <1>2, <1>3 DEF Next

-----------------------------------------------------------------------------
(* The chain on an instance is never replaced by an older one, as long as  *)
(* the instance runs one job at a time, whatever the others do.            *)
THEOREM DiskKeepsUp == Spec => DiskNeverOlder
<1>1. DiskInv /\ [Next]_vars
        => [\A i \in up : live'[i]["chain"] >= live[i]["chain"]]_vars
  <2> SUFFICES ASSUME DiskInv, [Next]_vars, NEW i \in up
               PROVE  live'[i]["chain"] >= live[i]["chain"]
    OBVIOUS
  <2> USE DEF DiskInv, Inv, TypeOK, Certs, Files, NoFile
  <2>1. i \in Instances /\ live[i]["chain"] \in Int
    BY CertRenewAssumption
  <2>2. CASE live'[i]["chain"] = live[i]["chain"]  BY <2>1, <2>2
  <2>3. CASE live'[i]["chain"] # live[i]["chain"]
    <3>1. PICK p \in Processes : p[1] = i /\ (PutChain(p) \/ NewChain(p))
      BY <2>3, OnlyPut
    <3>2. CASE PutChain(p)
      <4>1. live'[i]["chain"] = tmp[p]["chain"]
        BY <3>1, <3>2, <2>1 DEF PutChain, Put
      <4> QED  BY <3>1, <3>2, <4>1 DEF PutChain, Goto, Newer
    <3>3. CASE NewChain(p)
      <4>1. live'[i]["chain"] = certDir[p[1]]
        BY <3>1, <3>3, <2>1 DEF NewChain, Put
      <4> QED  BY <3>1, <3>3, <4>1 DEF NewChain, Goto, Newer
    <3> QED  BY <3>1, <3>2, <3>3
  <2> QED  BY <2>2, <2>3
<1>2. (OneJobEach => DiskInv) /\ [Next]_vars
        => [OneJobEach
              => \A i \in up : live'[i]["chain"] >= live[i]["chain"]]_vars
  BY <1>1
<1> QED  BY DiskInvariant, <1>2, PTL DEF Spec, DiskNeverOlder

(* The chain in S3 is never replaced by an older one, as long as runs of   *)
(* the script do not overlap, whatever fails.                              *)
THEOREM CacheKeepsUp == Spec => CacheNeverOlder
<1>1. (Serial => SerialInv) /\ [Next]_vars
        => [Serial => cache'["chain"] >= cache["chain"]]_vars
  <2> SUFFICES ASSUME SerialInv, [Next]_vars
               PROVE  cache'["chain"] >= cache["chain"]
    OBVIOUS
  <2> USE DEF SerialInv, Inv, TypeOK, Bounded, Certs, Files, NoFile
  <2>1. cache["chain"] \in Int /\ cache["chain"] <= issued /\ issued \in Int
    BY CertRenewAssumption
  <2>2. CASE cache'["chain"] = cache["chain"]  BY <2>1, <2>2
  <2>3. CASE cache'["chain"] # cache["chain"]
    <3>1. PICK p \in Processes : pc[p] = "upchain" /\ Upload(p, "chain")
      BY <2>3, OnlyUpload
    <3>2. cache'["chain"] = live[p[1]]["chain"]  BY <3>1 DEF Upload
    <3>3. live[p[1]]["chain"] = issued  BY <3>1 DEF Newest, Renewing
    <3> QED  BY <2>1, <3>2, <3>3
  <2> QED  BY <2>2, <2>3
<1> QED  BY SerialInvariant, <1>1, PTL DEF Spec, CacheNeverOlder

(* Between uploads the two objects in S3 belong together, as long as runs  *)
(* do not overlap and none is cut off.                                     *)
THEOREM CacheStaysWhole == Spec => []CacheWhole
<1>1. (Serial /\ Without(Partings) => WholeInv) => CacheWhole
  BY DEF WholeInv, Cached, CacheWhole, Uploading
<1> QED  BY WholeInvariant, <1>1, PTL

(* A script that ends with status 0 leaves an instance that serves what is *)
(* installed, under the same circumstances.                                *)
THEOREM OkServes == Spec => []OkMeansServing
<1>1. (Serial /\ Without(Partings) => WholeInv) => OkMeansServing
  <2> SUFFICES ASSUME WholeInv, NEW i \in up, ~ Busy(i)
               PROVE  Whole(live[i]) /\ served[i] = live[i]["chain"]
    BY DEF OkMeansServing
  <2>1. \A p \in Processes : p[1] = i => pc[p] = "idle"
    BY DEF Busy, Running
  <2> QED  BY <2>1 DEF WholeInv, Serves
<1> QED  BY WholeInvariant, <1>1, PTL

(* Let's Encrypt is only asked for a certificate when the newest one is    *)
(* due, or by an instance that cannot download it, as long as runs do not  *)
(* overlap and none is cut off.                                            *)
THEOREM IssuesWhenDue == Spec => IssuesOnce
<1> DEFINE Calm == Serial /\ Without(Partings)
<1>1. (Calm => NewestInv) /\ [Next]_vars
        => [Calm /\ issued' # issued =>
              \/ issued < due
              \/ \E p \in Processes :
                    pc[p] = "issue" /\ tmp[p]["key"] = NoFile]_vars
  <2> SUFFICES ASSUME NewestInv, [Next]_vars, issued' # issued
               PROVE  \/ issued < due
                      \/ \E p \in Processes :
                            pc[p] = "issue" /\ tmp[p]["key"] = NoFile
    OBVIOUS
  <2>1. PICK p \in Processes : Issue(p)  BY OnlyIssue
  <2>2. pc[p] = "issue"  BY <2>1 DEF Issue, Goto
  <2> QED  BY <2>2 DEF NewestInv, IssuesLate
<1> QED  BY NewestInvariant, <1>1, PTL DEF Spec, IssuesOnce
-----------------------------------------------------------------------------
\* The faults that stand between an instance and the newest certificate.
Obstacles == Partings \cup {"download"}

\* An instance that reaches the cache and checks without a downloaded pair
\* found it empty.
EmptyHanded ==
    \A p \in Processes :
        /\ pc[p] = "reload" => tmp[p]["key"] # NoFile
        /\ pc[p] \in {"check", "issue"} /\ tmp[p]["key"] = NoFile /\ Reaches(p)
               => cache["chain"] = NoFile

\* The firewall stays closed as long as there is an instance behind it.
LEMMA FirewallStays ==
    ASSUME [Next]_vars, NEW i \in up, i \in rebooted
    PROVE  i \in rebooted'
<1>1. ASSUME NEW p \in Processes, Start(p) \/ Script(p) PROVE UNCHANGED rebooted
  BY <1>1
  DEF Start, Script, FetchChain, FetchKey, Download, FetchFails, NoDownload,
      Compare, PutChain, PutKey, NewChain, NewKey, Put, Reload, NewReload,
      ReloadNginx, Check, Issue, IssueFails, UploadChain, UploadKey,
      UploadFails, machine
<1>2. ASSUME NEW j \in Instances, Machine(j) PROVE i \in rebooted'
  BY <1>2 DEF Machine, Launch, Reboot, Terminate
<1>3. CASE Age \/ UNCHANGED vars  BY <1>3 DEF Age, vars, machine
<1> QED  BY <1>1, <1>2, <1>3 DEF Next

LEMMA EmptyHandedStep ==
    Serial /\ NewestInv /\ EmptyHanded /\ Without(Obstacles)' /\ [Next]_vars
        => EmptyHanded'
<1> SUFFICES ASSUME NewestInv, EmptyHanded, Without(Obstacles)', [Next]_vars
             PROVE  EmptyHanded'
  OBVIOUS
<1>0. ~ Fault("download") /\ ~ Fault("kill")
  BY DEF Without, Obstacles, Partings, Fault
<1>a. /\ pc \in [Processes -> {"idle"} \cup Steps]
      /\ tmp \in [Processes -> [Files -> Certs \cup {NoFile}]]
      /\ Alone
  BY DEF NewestInv, WholeInv, SerialInv, Inv, TypeOK
<1>b. \A q \in Processes : pc[q] # "idle" /\ Reaches(q)' => Reaches(q)
  BY FirewallStays DEF Reaches, NewestInv, WholeInv, SerialInv, Inv, Supplied
<1> USE DEF EmptyHanded
<1>1. ASSUME NEW p \in Processes, Start(p) PROVE EmptyHanded'
  <2>1. \A q \in Processes : q # p => pc'[q] = pc[q]
    BY <1>1, <1>a DEF Start, Goto
  <2>2. \A q \in Processes : q # p => tmp'[q] = tmp[q]
    BY <1>1, <1>a DEF Start
  <2>3. pc'[p] = "fetch" /\ UNCHANGED cache
    BY <1>1, <1>a DEF Start, Goto
  <2> QED  BY <1>b, <2>1, <2>2, <2>3
<1>2. ASSUME NEW p \in Processes, FetchChain(p) \/ FetchKey(p)
      PROVE  EmptyHanded'
  <2>1. pc'[p] \in {"fetchkey", "compare"} /\ UNCHANGED cache
    BY <1>2, <1>a DEF FetchChain, FetchKey, Goto, Download
  <2>2. \A q \in Processes : q # p => pc'[q] = pc[q]
    BY <1>2, <1>a DEF FetchChain, FetchKey, Goto
  <2>3. \A q \in Processes : q # p => tmp'[q] = tmp[q]
    BY <1>2, <1>a DEF FetchChain, FetchKey, Download
  <2> QED  BY <1>b, <2>1, <2>2, <2>3
<1>3. ASSUME NEW p \in Processes, FetchFails(p) PROVE EmptyHanded'
  <2>1. /\ pc[p] \in {"fetch", "fetchkey"} /\ pc'[p] = "check"
        /\ UNCHANGED <<cache, tmp>>
        /\ Reaches(p) => cache["chain"] = NoFile \/ cache["key"] = NoFile
    BY <1>3, <1>0, <1>a DEF FetchFails, Goto, NoDownload
  <2>2. \A q \in Processes : q = p \/ pc'[q] = pc[q]
    BY <1>3, <1>a DEF FetchFails, Goto
  <2>3. Whole(cache)
    BY <1>a, <2>1 DEF Alone, NewestInv, WholeInv, Cached
  <2> QED  BY <1>b, <2>1, <2>2, <2>3 DEF Whole
<1>4. ASSUME NEW p \in Processes, Compare(p) \/ PutChain(p) \/ PutKey(p)
      PROVE  EmptyHanded'
  <2>1. tmp[p]["key"] # NoFile /\ UNCHANGED <<cache, tmp>>
    BY <1>4 DEF Compare, PutChain, PutKey, Goto, Put, NewestInv, WholeInv,
                SerialInv, Inv, Supplied, HasKey
  <2>2. \A q \in Processes : q = p \/ pc'[q] = pc[q]
    BY <1>4, <1>a DEF Compare, PutChain, PutKey, Goto
  <2> QED  BY <1>b, <2>1, <2>2
<1>5. ASSUME NEW p \in Processes, Reload(p) \/ Check(p) PROVE EmptyHanded'
  <2>1. /\ UNCHANGED <<cache, tmp>>
        /\ pc'[p] # "reload"
        /\ pc[p] \in {"reload", "check"}
    BY <1>5, <1>a DEF Reload, Check, Goto, Exit, ReloadNginx
  <2>2. \A q \in Processes : q = p \/ pc'[q] = pc[q]
    BY <1>5, <1>a DEF Reload, Check, Goto, Exit
  <2> QED  BY <1>b, <2>1, <2>2
<1>6. ASSUME NEW p \in Processes,
             \/ Issue(p) \/ IssueFails(p) \/ NewChain(p) \/ NewKey(p)
             \/ NewReload(p)
      PROVE  EmptyHanded'
  <2>1. /\ pc'[p] \notin {"reload", "check", "issue"}
        /\ UNCHANGED <<cache, tmp>>
    BY <1>6, <1>a DEF Issue, IssueFails, NewChain, NewKey, NewReload, Goto,
                      Exit, Put, ReloadNginx
  <2>2. \A q \in Processes : q = p \/ pc'[q] = pc[q]
    BY <1>6, <1>a DEF Issue, IssueFails, NewChain, NewKey, NewReload, Goto,
                      Exit
  <2> QED  BY <1>b, <2>1, <2>2
<1>7. ASSUME NEW p \in Processes, UploadChain(p) \/ UploadKey(p) \/ UploadFails(p)
      PROVE  EmptyHanded'
  <2>1. pc[p] # "idle" /\ pc'[p] \notin {"reload", "check", "issue"}
    BY <1>7, <1>a DEF UploadChain, UploadKey, UploadFails, Goto, Exit
  <2>2. \A q \in Processes : q = p \/ pc'[q] = pc[q]
    BY <1>7, <1>a DEF UploadChain, UploadKey, UploadFails, Goto, Exit
  <2>3. \A q \in Processes : q = p \/ pc[q] = "idle"
    BY <1>a, <2>1 DEF Alone
  <2> QED  BY <1>b, <2>1, <2>2, <2>3
<1>8. ASSUME NEW i \in Instances, Launch(i) PROVE EmptyHanded'
  BY <1>8, <1>b DEF Launch
<1>9. ASSUME NEW i \in Instances, Reboot(i) \/ Terminate(i) PROVE EmptyHanded'
  <2>1. ~ Busy(i)  BY <1>9, <1>0 DEF Reboot, Terminate, StopJobs
  <2>2. /\ UNCHANGED cache
        /\ \A q \in Processes :
              pc'[q] = pc[q] /\ (pc[q] # "idle" => tmp'[q] = tmp[q])
    BY <1>9, <1>a, <2>1 DEF Reboot, Terminate, StopJobs, Busy, Running
  <2> QED  BY <1>b, <2>2
<1>10. CASE Age \/ UNCHANGED vars
  BY <1>10, <1>b DEF Age, vars
<1> QED
  BY <1>1, <1>2, <1>3, <1>4, <1>5, <1>6, <1>7, <1>8, <1>9, <1>10
  DEF Next, Script, Machine

LEMMA EmptyHandedInvariant ==
    Spec => [](Serial /\ Without(Obstacles) => NewestInv /\ EmptyHanded)
<1> DEFINE I == Serial /\ Without(Obstacles) => EmptyHanded
           J == Serial /\ Without(Partings) => NewestInv
<1>1. Init => I  BY DEF Init, EmptyHanded
<1>2. [Next]_vars /\ Without(Obstacles)' => Without(Obstacles)
  <2> SUFFICES ASSUME [Next]_vars PROVE met \subseteq met'
    BY DEF Without
  <2> QED  BY MetGrows
<1>3. Without(Obstacles) => Without(Partings)  BY DEF Without, Obstacles
<1>4. J /\ I /\ [Next]_vars => I'
  BY <1>2, <1>3, EmptyHandedStep
<1>5. J /\ I => (Serial /\ Without(Obstacles) => NewestInv /\ EmptyHanded)
  BY <1>3
<1> QED  BY NewestInvariant, <1>1, <1>4, <1>5, PTL DEF Spec

(* What readme.md:273 says is true, for the instances whose script has     *)
(* ended well, while runs do not overlap and as long as no upload has      *)
(* failed and no run was cut off: such an instance serves a certificate.   *)
THEOREM FreshServe ==
    Spec => [](Serial /\ Without(Partings) => FreshInstancesServe)
<1>1. /\ Serial /\ Without(Partings) => WholeInv
      /\ OkMeansServing
      => (Serial /\ Without(Partings) => FreshInstancesServe)
  <2> SUFFICES ASSUME WholeInv, OkMeansServing, Serial, Without(Partings),
                      NEW i \in up, ended[i] = "ok", ~ Busy(i)
               PROVE  served[i] # Down
    BY DEF FreshInstancesServe
  <2>1. served[i] = live[i]["chain"]  BY DEF OkMeansServing
  <2>2. live[i]["chain"] \in Certs
    BY DEF WholeInv, SerialInv, Inv, TypeOK, Files
  <2> QED  BY <2>1, <2>2 DEF Certs, Down
<1> QED  BY WholeInvariant, OkServes, <1>1, PTL

(* What readme.md:276 says is true while runs do not overlap, none is cut  *)
(* off and every instance can download from the cache: a certificate is    *)
(* issued only when the newest one is due.                                 *)
THEOREM OnlyFirstContact ==
    Spec => [][Serial /\ Without(Obstacles) /\ issued' # issued
                 => issued < due]_vars
<1>1. (Serial /\ Without(Obstacles) => NewestInv /\ EmptyHanded)
        /\ [Next]_vars
        => [Serial /\ Without(Obstacles) /\ issued' # issued
              => issued < due]_vars
  <2> SUFFICES ASSUME NewestInv, EmptyHanded, [Next]_vars, issued' # issued
               PROVE  issued < due
    OBVIOUS
  <2> USE DEF NewestInv, WholeInv, SerialInv, Inv, TypeOK, Certs, Files
  <2>1. PICK p \in Processes : Issue(p)  BY OnlyIssue
  <2>2. pc[p] = "issue" /\ Reaches(p)  BY <2>1 DEF Issue, Goto
  <2>3. live[p[1]]["chain"] < due  BY <2>2 DEF IssuesLate
  <2>4. CASE tmp[p]["key"] # NoFile
    BY <2>2, <2>3, <2>4 DEF IssuesLate
  <2>5. CASE tmp[p]["key"] = NoFile
    <3>1. cache["chain"] = NoFile  BY <2>2, <2>5 DEF EmptyHanded
    <3>2. \A q \in Processes : pc[q] \notin Renewing
      BY <2>2 DEF Alone, Renewing
    <3>3. issued = 0  BY <3>1, <3>2 DEF CacheNewest, NoFile
    <3>4. live[p[1]]["chain"] \in Certs  BY ProcessOf
    <3> QED  BY <2>3, <3>3, <3>4, CertRenewAssumption
  <2> QED  BY <2>4, <2>5
<1> QED  BY EmptyHandedInvariant, <1>1, PTL DEF Spec

-----------------------------------------------------------------------------
(* What an issue repairs. *)

\* The steps after a new certificate's key has been installed.
Paired == {"newreload", "upchain", "upkey"}

\* What a run that renews has put in order, whatever it began with.
Mended ==
    \A p \in Processes :
        /\ pc[p] \in Paired => live[p[1]]["key"] = issued
        /\ pc[p] \in {"upchain", "upkey"} => served[p[1]] = issued
        /\ pc[p] = "upkey" => cache["chain"] = issued

LEMMA MendedStep ==
    Serial /\ SerialInv /\ Mended /\ [Next]_vars => Mended'
<1> SUFFICES ASSUME Serial, SerialInv, Mended, [Next]_vars PROVE Mended'
  OBVIOUS
<1>a. /\ pc \in [Processes -> {"idle"} \cup Steps]
      /\ live \in [Instances -> [Files -> Certs]]
      /\ cache \in [Files -> Certs \cup {NoFile}]
      /\ served \in [Instances -> Certs \cup {Down}]
      /\ issued \in Certs /\ Files = {"chain", "key"}
  BY DEF SerialInv, Inv, TypeOK, Files
<1>b. \A p, q \in Processes : pc[p] # "idle" /\ pc[q] # "idle" => p = q
  BY DEF SerialInv, Alone
<1>c. \A p \in Processes :
         /\ pc[p] # "idle" => p[1] \in up
         /\ pc[p] \in Renewing => certDir[p[1]] = issued
         /\ pc[p] \in Renewing \ {"newchain"} => live[p[1]]["chain"] = issued
  BY DEF SerialInv, Inv, Supplied, Newest
<1> USE DEF Mended, Paired, Renewing
<1>1. ASSUME NEW p \in Processes, NewKey(p) PROVE Mended'
  <2>1. pc[p] = "newkey" /\ pc'[p] = "newreload"
    BY <1>1, <1>a DEF NewKey, Goto
  <2>2. \A q \in Processes : q = p \/ pc'[q] = "idle"
    BY <1>1, <1>a, <1>b, <2>1 DEF NewKey, Goto
  <2>3. live'[p[1]]["key"] = certDir[p[1]] /\ UNCHANGED issued
    BY <1>1, <1>a, ProcessOf DEF NewKey, Put
  <2> QED  BY <1>c, <2>1, <2>2, <2>3
<1>2. ASSUME NEW p \in Processes, NewReload(p) PROVE Mended'
  <2>1. pc[p] = "newreload" /\ pc'[p] = "upchain"
    BY <1>2, <1>a DEF NewReload, Goto
  <2>2. \A q \in Processes : q = p \/ pc'[q] = "idle"
    BY <1>2, <1>a, <1>b, <2>1 DEF NewReload, Goto
  <2>3. Started(p[1]) = issued
    BY <1>c, <2>1 DEF Started
  <2>4. served'[p[1]] = issued /\ UNCHANGED <<live, issued>>
    <3>1. Started(p[1]) # Down  BY <1>a, <2>3 DEF Certs, Down
    <3> QED  BY <1>2, <1>a, <2>3, <3>1, ProcessOf DEF NewReload, ReloadNginx
  <2> QED  BY <2>1, <2>2, <2>4
<1>3. ASSUME NEW p \in Processes, UploadChain(p) PROVE Mended'
  <2>1. pc[p] = "upchain" /\ pc'[p] = "upkey"
    BY <1>3, <1>a DEF UploadChain, Goto
  <2>2. \A q \in Processes : q = p \/ pc'[q] = "idle"
    BY <1>3, <1>a, <1>b, <2>1 DEF UploadChain, Goto
  <2>3. cache'["chain"] = issued /\ UNCHANGED <<live, served, issued>>
    BY <1>3, <1>a, <1>c, <2>1 DEF UploadChain, Upload
  <2> QED  BY <2>1, <2>2, <2>3
<1>4. ASSUME NEW p \in Processes,
             \/ Start(p) \/ FetchChain(p) \/ FetchKey(p) \/ FetchFails(p)
             \/ Compare(p) \/ PutChain(p) \/ PutKey(p) \/ Reload(p)
             \/ Check(p) \/ Issue(p) \/ IssueFails(p) \/ NewChain(p)
             \/ UploadKey(p) \/ UploadFails(p)
      PROVE  Mended'
  <2>1. pc'[p] \notin Paired
    BY <1>4, <1>a
    DEF Start, FetchChain, FetchKey, FetchFails, Compare, PutChain, PutKey,
        Reload, Check, Issue, IssueFails, NewChain, UploadKey, UploadFails,
        Goto, Exit
  <2>2. \A q \in Processes : q = p \/ pc'[q] = pc[q]
    BY <1>4, <1>a
    DEF Start, FetchChain, FetchKey, FetchFails, Compare, PutChain, PutKey,
        Reload, Check, Issue, IssueFails, NewChain, UploadKey, UploadFails,
        Goto, Exit
  <2>3. \A q \in Processes : q = p \/ pc[q] = "idle"
    <3>1. CASE Start(p)
      BY <3>1, <1>b DEF Start, Running
    <3>2. CASE ~ Start(p)
      <4>1. pc[p] # "idle"
        BY <1>4, <3>2
        DEF FetchChain, FetchKey, FetchFails, Compare, PutChain, PutKey,
            Reload, Check, Issue, IssueFails, NewChain, UploadKey,
            UploadFails, Goto, Exit
      <4> QED  BY <1>b, <4>1
    <3> QED  BY <3>1, <3>2
  <2> QED  BY <2>1, <2>2, <2>3
<1>5. ASSUME NEW i \in Instances, Launch(i) PROVE Mended'
  <2>1. UNCHANGED <<pc, issued, cache>> /\ i \notin up
    BY <1>5 DEF Launch
  <2>2. \A j \in Instances :
           j = i \/ (live'[j] = live[j] /\ served'[j] = served[j])
    BY <1>5, <1>a DEF Launch
  <2> QED  BY <1>c, <2>1, <2>2, ProcessOf
<1>6. ASSUME NEW i \in Instances, Reboot(i) \/ Terminate(i) PROVE Mended'
  <2>1. UNCHANGED <<issued, cache, live>>
    BY <1>6 DEF Reboot, Terminate
  <2>2. \A p \in Processes :
           pc'[p] = "idle"
             \/ (p[1] # i /\ pc'[p] = pc[p] /\ served'[p[1]] = served[p[1]])
    BY <1>6, <1>a, ProcessOf DEF Reboot, Terminate, StopJobs
  <2> QED  BY <2>1, <2>2
<1>7. CASE Age \/ UNCHANGED vars
  BY <1>7 DEF Age, vars
<1> QED
  BY <1>1, <1>2, <1>3, <1>4, <1>5, <1>6, <1>7 DEF Next, Script, Machine

(* While runs do not overlap, a run that issues a certificate and uploads  *)
(* both files leaves the bucket, its disk and its nginx with that one      *)
(* certificate, whatever earlier runs have left behind: a pair parted by   *)
(* an upload that failed or a run that was cut off, in the bucket or on    *)
(* the disk, and an nginx that was down (cert-renew.sh:58-75).             *)
THEOREM IssueRepairs ==
    Spec => [][Serial => \A p \in Processes : UploadKey(p) =>
                 /\ cache' = Pair(issued)
                 /\ live'[p[1]] = Pair(issued)
                 /\ served'[p[1]] = issued]_vars
<1> DEFINE I == Serial => SerialInv /\ Mended
<1>1. Init => Mended  BY DEF Init, Mended, Paired
<1>2. Spec => []I
  <2>1. (Serial => SerialInv) /\ (Serial => Mended) /\ [Next]_vars
          => (Serial => Mended)'
    BY MendedStep
  <2> QED  BY SerialInvariant, <1>1, <2>1, PTL DEF Spec
<1>3. I /\ [Next]_vars
        => [Serial => \A p \in Processes : UploadKey(p) =>
              /\ cache' = Pair(issued)
              /\ live'[p[1]] = Pair(issued)
              /\ served'[p[1]] = issued]_vars
  <2> SUFFICES ASSUME SerialInv, Mended, NEW p \in Processes, UploadKey(p)
               PROVE  /\ cache' = Pair(issued)
                      /\ live'[p[1]] = Pair(issued)
                      /\ served'[p[1]] = issued
    OBVIOUS
  <2>1. /\ live \in [Instances -> [Files -> Certs]]
        /\ cache \in [Files -> Certs \cup {NoFile}]
        /\ Files = {"chain", "key"} /\ p[1] \in Instances
    BY ProcessOf DEF SerialInv, Inv, TypeOK, Files
  <2>2. pc[p] = "upkey" /\ UNCHANGED <<live, served>>
    BY DEF UploadKey, Exit, Goto
  <2>3. /\ live[p[1]]["chain"] = issued /\ live[p[1]]["key"] = issued
        /\ served[p[1]] = issued /\ cache["chain"] = issued
    BY <2>2 DEF SerialInv, Newest, Renewing, Mended, Paired
  <2>4. live[p[1]] = Pair(issued)
    BY <2>1, <2>3 DEF Pair
  <2>5. cache' = Pair(issued)
    BY <2>1, <2>3 DEF UploadKey, Upload, Pair
  <2> QED  BY <2>2, <2>3, <2>4, <2>5
<1> QED  BY <1>2, <1>3, PTL DEF Spec

-----------------------------------------------------------------------------
(* Behind the firewall. *)

\* A job that reaches nobody gets no further than to the issue.
Walled ==
    \A p \in Processes :
        ~ Reaches(p) => pc[p] \in {"idle", "fetch", "check", "issue"}

LEMMA WalledStep == Inv /\ Walled /\ [Next]_vars => Walled'
<1> SUFFICES ASSUME Inv, Walled, [Next]_vars PROVE Walled'
  OBVIOUS
<1>a. pc \in [Processes -> {"idle"} \cup Steps]  BY DEF Inv, TypeOK
<1> USE DEF Walled, Reaches
<1>1. ASSUME NEW p \in Processes, Start(p) \/ Script(p) PROVE Walled'
  <2>1. UNCHANGED rebooted
    BY <1>1
    DEF Start, Script, FetchChain, FetchKey, Download, FetchFails, NoDownload,
        Compare, PutChain, PutKey, NewChain, NewKey, Put, Reload, NewReload,
        ReloadNginx, Check, Issue, IssueFails, UploadChain, UploadKey,
        UploadFails, machine
  <2>2. \A q \in Processes : q = p \/ pc'[q] = pc[q]
    BY <1>1, <1>a
    DEF Start, Script, FetchChain, FetchKey, FetchFails, Compare, PutChain,
        PutKey, NewChain, NewKey, Reload, NewReload, Check, Issue, IssueFails,
        UploadChain, UploadKey, UploadFails, Goto, Exit
  <2>3. CASE Reaches(p)  BY <2>1, <2>2, <2>3
  <2>4. CASE ~ Reaches(p)
    <3>1. \/ Start(p) \/ FetchFails(p) \/ Check(p) \/ IssueFails(p)
      BY <1>1, <2>4
      DEF Script, FetchChain, FetchKey, Download, Compare, PutChain, PutKey,
          NewChain, NewKey, Reload, NewReload, Issue, UploadChain, UploadKey,
          UploadFails, Goto, Exit
    <3>2. pc'[p] \in {"idle", "fetch", "check", "issue"}
      BY <3>1, <2>4, <1>a DEF Start, FetchFails, Check, IssueFails, Goto, Exit
    <3> QED  BY <2>1, <2>2, <3>2
  <2> QED  BY <2>3, <2>4
<1>2. ASSUME NEW i \in Instances, Launch(i) PROVE Walled'
  BY <1>2 DEF Launch, Inv, Supplied
<1>3. ASSUME NEW i \in Instances, Reboot(i) \/ Terminate(i) PROVE Walled'
  <2>1. \A q \in Processes : pc'[q] = IF q[1] = i THEN "idle" ELSE pc[q]
    BY <1>3 DEF Reboot, Terminate, StopJobs
  <2>2. rebooted' \in {rebooted, rebooted \cup {i}}
    BY <1>3 DEF Reboot, Terminate
  <2> QED  BY <2>1, <2>2
<1>4. CASE Age \/ UNCHANGED vars  BY <1>4 DEF Age, vars, machine
<1> QED  BY <1>1, <1>2, <1>3, <1>4 DEF Next, Machine

(* What an instance has when the agent reboots it, it has to its end,      *)
(* whatever overlaps and fails: the jobs that follow, after the boot and   *)
(* every day, change neither its files nor what nginx serves               *)
(* (cert-renew.sh:39-75 behind iptables.yaml:16-8446).                     *)
THEOREM KeepsBehindFirewall ==
    Spec => [][\A i \in up \cap up' : i \in rebooted =>
                 /\ live'[i] = live[i] /\ certDir'[i] = certDir[i]
                 /\ served'[i] = served[i]]_vars
<1>1. Init => Walled  BY DEF Init, Walled
<1>2. Inv /\ Walled /\ [Next]_vars
        => [\A i \in up \cap up' : i \in rebooted =>
              /\ live'[i] = live[i] /\ certDir'[i] = certDir[i]
              /\ served'[i] = served[i]]_vars
  <2> SUFFICES ASSUME Inv, Walled, Next,
                      NEW i \in up, i \in up', i \in rebooted
               PROVE  /\ live'[i] = live[i] /\ certDir'[i] = certDir[i]
                      /\ served'[i] = served[i]
    BY DEF vars
  <2>a. /\ i \in Instances
        /\ live \in [Instances -> [Files -> Certs]]
        /\ certDir \in [Instances -> Certs]
        /\ served \in [Instances -> Certs \cup {Down}]
    BY DEF Inv, TypeOK
  <2>1. ASSUME NEW p \in Processes, Start(p) \/ Script(p)
        PROVE  /\ live'[i] = live[i] /\ certDir'[i] = certDir[i]
               /\ served'[i] = served[i]
    <3>1. CASE p[1] = i
      <4>1. pc[p] \in {"idle", "fetch", "check", "issue"}
        BY <3>1 DEF Walled, Reaches
      <4>2. \/ Start(p) \/ FetchFails(p) \/ Check(p) \/ IssueFails(p)
        BY <2>1, <3>1, <4>1
        DEF Script, FetchChain, FetchKey, Download, Compare, PutChain, PutKey,
            NewChain, NewKey, Reload, NewReload, Issue, UploadChain,
            UploadKey, UploadFails, Goto, Exit, Reaches
      <4> QED  BY <4>2 DEF Start, FetchFails, NoDownload, Check, IssueFails
    <3>2. CASE p[1] # i
      BY <2>1, <2>a, <3>2
      DEF Start, Script, FetchChain, FetchKey, Download, FetchFails,
          NoDownload, Compare, PutChain, PutKey, NewChain, NewKey, Put,
          Reload, NewReload, ReloadNginx, Check, Issue, IssueFails,
          UploadChain, UploadKey, UploadFails
    <3> QED  BY <3>1, <3>2
  <2>2. ASSUME NEW j \in Instances, Machine(j)
        PROVE  /\ live'[i] = live[i] /\ certDir'[i] = certDir[i]
               /\ served'[i] = served[i]
    BY <2>2, <2>a DEF Machine, Launch, Reboot, Terminate
  <2>3. CASE Age  BY <2>3 DEF Age
  <2> QED  BY <2>1, <2>2, <2>3 DEF Next
<1> QED  BY InvInit, InvStep, WalledStep, <1>1, <1>2, PTL DEF Spec
=============================================================================
