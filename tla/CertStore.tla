------------------------------ MODULE CertStore ------------------------------
(***************************************************************************)
(* What the certificate script promises, as if a certificate were one      *)
(* thing: a bucket and the disk of every host hold one each, none is ever  *)
(* replaced but by the newest, and nginx serves what is on its disk.  The  *)
(* promise lapses when something parts the two files of a certificate.     *)
(***************************************************************************)
EXTENDS Integers

CONSTANTS Hosts, None

VARIABLES newest,   \* the newest certificate that has been issued
          due,      \* certificates below this one are to be renewed
          bucket,   \* the certificate in the bucket, or None
          disk,     \* the certificate of every host that is up, else None
          serves,   \* the certificate that every host serves, or None
          intact    \* whether nothing has parted a certificate's files

vars == <<newest, due, bucket, disk, serves, intact>>

Nowhere == [i \in Hosts |-> None]

Init ==
    /\ newest = 0 /\ due = 0
    /\ bucket \in {None, 0}
    /\ disk = Nowhere /\ serves = Nowhere

Up(i) == disk[i] # None

\* A host that has a certificate which is due gets a new one issued.
Issue(i) ==
    /\ Up(i) /\ disk[i] < due
    /\ newest' = newest + 1
    /\ UNCHANGED <<due, bucket, disk, serves>>

\* A host installs the newest certificate.
Install(i) ==
    /\ Up(i)
    /\ disk' = [disk EXCEPT ![i] = newest]
    /\ UNCHANGED <<newest, due, bucket, serves>>

\* The newest certificate is put into the bucket.
Share ==
    /\ bucket' = newest
    /\ UNCHANGED <<newest, due, disk, serves>>

\* nginx takes up what is on its disk.
Serve(i) ==
    /\ Up(i)
    /\ serves' = [serves EXCEPT ![i] = disk[i]]
    /\ UNCHANGED <<newest, due, bucket, disk>>

\* A host comes up, with the certificate of the image.
Launch(i) ==
    /\ ~ Up(i)
    /\ disk' = [disk EXCEPT ![i] = 0]
    /\ serves' = [serves EXCEPT ![i] = 0]
    /\ UNCHANGED <<newest, due, bucket>>

\* A host is gone.
Retire(i) ==
    /\ Up(i)
    /\ disk' = [disk EXCEPT ![i] = None]
    /\ serves' = [serves EXCEPT ![i] = None]
    /\ UNCHANGED <<newest, due, bucket>>

\* Time passes.
Age ==
    /\ due <= newest
    /\ due' = due + 1
    /\ UNCHANGED <<newest, bucket, disk, serves>>

Step ==
    \/ \E i \in Hosts : \/ Issue(i) \/ Install(i) \/ Serve(i)
                        \/ Launch(i) \/ Retire(i)
    \/ Share \/ Age

\* The promise is kept, or has lapsed.
Next == (Step /\ UNCHANGED intact) \/ ~ intact'

Spec == Init /\ [][Next]_vars
=============================================================================
