----------------------- MODULE RotationClockProperties -----------------------
(***************************************************************************)
(* What the waits of the orchestrator are long enough for, and what not.   *)
(***************************************************************************)
EXTENDS RotationClock

\* The handler has opened port 6112.
Opened == {"announce", "hung", "late", "done"}

\* The request to the agent is over.
Posted == {"rest", "sweep", "hold"} \cup Opened

(* Every variable of the run and its machine keeps its type. *)
TypeOK ==
    /\ now \in 0 .. Limit
    /\ pc \in Steps \cup Endless \cup Ends
    /\ wait \in Nat /\ timer \in Nat /\ took \in Nat /\ again \in Nat
    /\ left \in Nat
    /\ polls \in 0 .. Polls
    /\ answer \in {"none", "ok", "raised"}
    /\ host \in {"none", "pending", "booting", "up"}
    /\ named \in BOOLEAN /\ rules \in BOOLEAN /\ synced \in BOOLEAN
    /\ job \in {"off", "sleep", "work"}

\* The handler makes calls three times, and sleeps for 77 ticks at most.
CallsShort == \A c \in Calls : 3 * c + 77 < Limit

(* Lambda stops a run (lambda.tf:8) only when it waits for an answer that  *)
(* does not come: the polls and sleeps of lambda_function.py:99-160 leave  *)
(* the calls 130 seconds, if the machine boots in less than two minutes.   *)
StopsOnlyHung ==
    [][CallsShort /\ took < Settle /\ pc' = "stopped" /\ pc # "stopped"
         => pc \in Endless]_vars

(* The sleep of lambda_function.py:100 is long enough for a machine that   *)
(* boots in less than two minutes: when the request is over, it has its    *)
(* place.                                                                  *)
UpdateTaken == took < Settle /\ pc \in Posted => named

\* How long the handler leaves a machine for its reboot.
Left == Hold + IF answer = "ok" THEN Rest ELSE 0

(* When port 6112 is opened (lambda_function.py:152) the machine is up     *)
(* again, if its reboot takes less than 240 seconds, or less than 60 when  *)
(* it cuts the answer off (lambda_function.py:106-111).                    *)
OpensToServer == took < Settle /\ again < Left /\ pc \in Opened => host = "up"

\* The first certificate job is over before the orchestrator's sleep is, or
\* only after it, and the ten seconds between two of its looks.
Quick == \A j \in Jobs : took + JobDelay + j < Settle
Slow  == \A j \in Jobs : took + JobDelay + j > Settle + 1

(* Whether a machine gets the latest certificate is decided by its boot:   *)
(* the boot job of nginx.yaml:60 is over before the request arrives, or    *)
(* else the machine never reaches S3 once it has its place.                *)
SyncsWhenQuick == named => (Quick => synced) /\ (Slow => ~ synced)

(* The certificate job reaches S3 only before a machine has its place: the *)
(* rules that keep Amazon out (iptables.yaml:16-8446) keep S3 out too.     *)
SyncsUnnamed == [][synced' /\ ~ synced => ~ named]_vars

-----------------------------------------------------------------------------
(* readme.md:273: "Since the orchestrator replaces the instance every 2    *)
(* hours, fresh instances always come up with the latest cert".            *)
FreshComesUpLatest == pc = "done" => synced
=============================================================================
