--------------------------- MODULE CertStoreProofs ---------------------------
(***************************************************************************)
(* Module CertRenew implements module CertStore while runs of the script   *)
(* do not overlap and none is cut off, for every set of instances.  What   *)
(* makes each write of a key the installation or the upload of a whole     *)
(* certificate is NewestInv of module CertRenewProofs.                     *)
(***************************************************************************)
EXTENDS CertRenewProofs

\* The certificate of every instance, by its key.
Keys == [i \in Instances |-> IF i \in up THEN live[i]["key"] ELSE NoFile]

(* Pairs that are not being written are whole, so that the keys tell the   *)
(* certificates.                                                           *)
LEMMA KeysTell ==
    WholeInv => Disk = Keys /\ AsOne(cache, Uploading) = cache["key"]
<1> SUFFICES ASSUME WholeInv
             PROVE  Disk = Keys /\ AsOne(cache, Uploading) = cache["key"]
  OBVIOUS
<1>1. ASSUME NEW i \in Instances, i \in up
      PROVE  AsOne(live[i], Writing(i)) = live[i]["key"]
  BY <1>1 DEF WholeInv, Serves, Writing, AsOne
<1>2. Disk = Keys
  BY <1>1 DEF Disk, Keys
<1>3. AsOne(cache, Uploading) = cache["key"]
  BY DEF WholeInv, Cached, Uploading, AsOne
<1> QED  BY <1>2, <1>3

LEMMA StoreInit == Init => C!Init
<1> SUFFICES ASSUME Init PROVE C!Init
  OBVIOUS
<1>1. AsOne(cache, Uploading) \in {NoFile, 0}
  BY DEF Init, AsOne, Uploading, Whole, Pair, Files
<1>2. Disk = C!Nowhere /\ served = C!Nowhere
  BY DEF Init, Disk, C!Nowhere, NoFile, Down
<1> QED  BY <1>1, <1>2 DEF C!Init, Init

(* With the facts above, a step of the script is one of CertStore's, or    *)
(* changes nothing that CertStore knows.                                   *)
LEMMA StoreStep ==
    ASSUME Serial, Without(Partings)', NewestInv, NewestInv', [Next]_vars
    PROVE  C!Step \/ UNCHANGED <<issued, due, AsOne(cache, Uploading), Disk,
                                 served>>
<1> DEFINE Goal == C!Step \/ UNCHANGED <<issued, due, AsOne(cache, Uploading),
                                         Disk, served>>
<1> USE DEF NewestInv, WholeInv, SerialInv, Inv, TypeOK, Supplied, Certs,
            Files, NoFile
<1>0. ~ Fault("upload") /\ ~ Fault("kill")
  BY DEF Without, Partings, Fault
<1>1. /\ Disk = Keys /\ Disk' = Keys'
      /\ AsOne(cache, Uploading) = cache["key"]
      /\ AsOne(cache, Uploading)' = cache'["key"]
  <2>1. (WholeInv => Disk = Keys /\ AsOne(cache, Uploading) = cache["key"])'
    BY KeysTell, PTL
  <2> QED  BY <2>1, KeysTell
<1>2. \A i \in Instances : C!Up(i) <=> i \in up
  BY <1>1 DEF C!Up, Keys
<1>3. UNCHANGED <<issued, due, cache, live, up, served>> => Goal
  BY <1>1 DEF Keys
<1>4. ASSUME NEW p \in Processes, PutChain(p) PROVE Goal
  BY <1>1, <1>4, ProcessOf DEF PutChain, Put, Keys, machine
<1>5. ASSUME NEW p \in Processes, PutKey(p) PROVE Goal
  <2>1. tmp[p]["key"] = issued
    BY <1>5
    DEF PutKey, Goto, InHand, HasChain, HasKey, IssuesLate, Cached, Whole, Alone
  <2>2. Keys' = [Keys EXCEPT ![p[1]] = issued] /\ p[1] \in up
    <3>1. p[1] \in up /\ up' = up
      BY <1>5 DEF PutKey, Goto, Put, machine
    <3>2. live' = [live EXCEPT ![p[1]]["key"] = issued]
      BY <1>5, <2>1 DEF PutKey, Put
    <3>3. /\ live'[p[1]]["key"] = issued
          /\ \A i \in Instances \ {p[1]} : live'[i] = live[i]
      BY <3>2, ProcessOf
    <3> QED  BY <3>1, <3>3, ProcessOf DEF Keys
  <2>3. UNCHANGED <<issued, due, cache, served>>  BY <1>5 DEF PutKey, Put
  <2>4. C!Install(p[1])
    BY <1>1, <1>2, <2>2, <2>3, ProcessOf DEF C!Install
  <2> QED  BY <2>4, ProcessOf DEF C!Step
<1>6. ASSUME NEW p \in Processes, Reload(p) \/ NewReload(p) PROVE Goal
  <2>1. p[1] \in up /\ Whole(live[p[1]])
    BY <1>6, ProcessOf DEF Reload, NewReload, Goto, Serves, Alone
  <2>2. served' = [served EXCEPT ![p[1]] = Keys[p[1]]]
    BY <1>6, <2>1, ProcessOf
    DEF Reload, NewReload, ReloadNginx, Started, Whole, Keys, Down
  <2>3. UNCHANGED <<issued, due, cache, live, up>>
    BY <1>6 DEF Reload, NewReload, ReloadNginx, machine
  <2>4. C!Serve(p[1])
    BY <1>1, <1>2, <2>1, <2>2, <2>3, ProcessOf DEF C!Serve, Keys
  <2> QED  BY <2>4, ProcessOf DEF C!Step
<1>7. ASSUME NEW p \in Processes, Issue(p) PROVE Goal
  <2>1. p[1] \in up /\ Keys[p[1]] < due
    BY <1>7, ProcessOf
    DEF Issue, Goto, IssuesLate, Serves, Whole, Alone, Keys
  <2>2. issued' = issued + 1 /\ UNCHANGED <<due, cache, live, up, served>>
    BY <1>7 DEF Issue, machine
  <2>3. C!Issue(p[1])
    BY <1>1, <1>2, <2>1, <2>2, ProcessOf DEF C!Issue, Keys
  <2> QED  BY <2>3, ProcessOf DEF C!Step
<1>8. ASSUME NEW p \in Processes, NewChain(p) PROVE Goal
  BY <1>1, <1>8, ProcessOf DEF NewChain, Put, Keys, machine
<1>9. ASSUME NEW p \in Processes, NewKey(p) PROVE Goal
  <2>1. certDir[p[1]] = issued
    BY <1>9 DEF NewKey, Goto, Newest, Renewing
  <2>2. Keys' = [Keys EXCEPT ![p[1]] = issued] /\ p[1] \in up
    <3>1. p[1] \in up /\ up' = up
      BY <1>9 DEF NewKey, Goto, Put, machine
    <3>2. live' = [live EXCEPT ![p[1]]["key"] = issued]
      BY <1>9, <2>1 DEF NewKey, Put
    <3>3. /\ live'[p[1]]["key"] = issued
          /\ \A i \in Instances \ {p[1]} : live'[i] = live[i]
      BY <3>2, ProcessOf
    <3> QED  BY <3>1, <3>3, ProcessOf DEF Keys
  <2>3. UNCHANGED <<issued, due, cache, served>>  BY <1>9 DEF NewKey, Put
  <2>4. C!Install(p[1])
    BY <1>1, <1>2, <2>2, <2>3, ProcessOf DEF C!Install
  <2> QED  BY <2>4, ProcessOf DEF C!Step
<1>10. ASSUME NEW p \in Processes, UploadChain(p) PROVE Goal
  BY <1>1, <1>10 DEF UploadChain, Upload, Keys, machine
<1>11. ASSUME NEW p \in Processes, UploadKey(p) PROVE Goal
  <2>1. cache'["key"] = issued
    BY <1>11 DEF UploadKey, Exit, Goto, Upload, InHand
  <2>2. UNCHANGED <<issued, due, live, up, served>>
    BY <1>11 DEF UploadKey, machine
  <2>3. C!Share
    BY <1>1, <2>1, <2>2 DEF C!Share, Keys
  <2> QED  BY <2>3 DEF C!Step
<1>12. ASSUME NEW i \in Instances, Launch(i) PROVE Goal
  <2>1. Keys' = [Keys EXCEPT ![i] = 0]
    BY <1>12 DEF Launch, Keys, Pair
  <2>2. C!Launch(i)
    BY <1>1, <1>2, <1>12, <2>1 DEF Launch, C!Launch
  <2> QED  BY <2>2 DEF C!Step
<1>13. ASSUME NEW i \in Instances, Reboot(i) PROVE Goal
  <2>1. ~ Busy(i)  BY <1>13, <1>0 DEF Reboot, StopJobs
  <2>2. i \in up /\ Whole(live[i])
    BY <1>13, <2>1 DEF Reboot, Busy, Running, Serves
  <2>3. served' = [served EXCEPT ![i] = Keys[i]]
    BY <1>13, <2>2 DEF Reboot, Started, Whole, Keys
  <2>4. UNCHANGED <<issued, due, cache, live, up>>  BY <1>13 DEF Reboot
  <2>5. C!Serve(i)
    BY <1>1, <1>2, <2>2, <2>3, <2>4 DEF C!Serve, Keys
  <2> QED  BY <2>5 DEF C!Step
<1>14. ASSUME NEW i \in Instances, Terminate(i) PROVE Goal
  <2>1. Keys' = [Keys EXCEPT ![i] = NoFile]
    BY <1>14 DEF Terminate, Keys
  <2>2. C!Retire(i)
    BY <1>1, <1>2, <1>14, <2>1 DEF Terminate, C!Retire, Down
  <2> QED  BY <2>2 DEF C!Step
<1>15. ASSUME Age PROVE Goal
  <2>1. C!Age
    BY <1>1, <1>15 DEF Age, C!Age, Keys, machine
  <2> QED  BY <2>1 DEF C!Step
<1>16. ASSUME NEW p \in Processes,
              \/ Start(p) \/ FetchChain(p) \/ FetchKey(p) \/ FetchFails(p)
              \/ Compare(p) \/ Check(p) \/ IssueFails(p)
       PROVE  Goal
  BY <1>3, <1>16
  DEF Start, FetchChain, FetchKey, Download, FetchFails, NoDownload, Compare,
      Check, IssueFails, machine
<1>17. ASSUME NEW p \in Processes, UploadFails(p) PROVE FALSE
  BY <1>0, <1>17 DEF UploadFails
<1>18. UNCHANGED vars => Goal
  BY <1>3 DEF vars, machine
<1> HIDE DEF Goal
<1>19. Goal
  BY <1>4, <1>5, <1>6, <1>7, <1>8, <1>9, <1>10, <1>11, <1>12, <1>13, <1>14,
     <1>15, <1>16, <1>17, <1>18
  DEF Next, Script, Machine
<1> QED  BY <1>19 DEF Goal

(* Bucket and disks hold whole certificates that only the newest replaces, *)
(* as long as runs do not overlap and none is cut off.                     *)
THEOREM StoresWhole == Spec => KeepsStore
<1> DEFINE Calm == Serial /\ Without(Partings)
<1>1. /\ Calm => NewestInv
      /\ (Calm => NewestInv)'
      /\ [Next]_vars
      => [C!Next]_(C!vars)
  <2> SUFFICES ASSUME Calm => NewestInv, (Calm => NewestInv)', [Next]_vars
               PROVE  C!Next \/ UNCHANGED C!vars
    OBVIOUS
  <2>1. CASE ~ Calm'
    BY <2>1 DEF C!Next
  <2>2. CASE Calm'
    <3>1. Calm  BY <2>2, NothingUndone
    <3>2. C!Step \/ UNCHANGED <<issued, due, AsOne(cache, Uploading), Disk,
                                served>>
      BY <2>2, <3>1, StoreStep
    <3> QED  BY <2>2, <3>1, <3>2 DEF C!Next, C!vars
  <2> QED  BY <2>1, <2>2
<1> QED
  BY NewestInvariant, StoreInit, <1>1, PTL DEF Spec, KeepsStore, C!Spec
=============================================================================
