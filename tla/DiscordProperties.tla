-------------------------- MODULE DiscordProperties --------------------------
(***************************************************************************)
(* What an announcement of module DiscordNotify keeps true.                *)
(***************************************************************************)
EXTENDS DiscordNotify

\* None of the faults in F has happened so far.
Without(F) == met \cap F = {}

(* Every variable of the client keeps its type, and no more sessions are   *)
(* asked for than faults account for.                                      *)
TypeOK ==
    /\ main \in MainSteps
    /\ resume \in BOOLEAN /\ session \in BOOLEAN /\ cached \in BOOLEAN
    /\ ws \in {"none", "up", "lost"}
    /\ stage \in {"identify", "resume", "live"}
    /\ identifies \in 0 .. MaxFaults + 1
    /\ task \in [Sessions -> {"none", "wait", "cancelled", "over"}]
    /\ readyTask \in {0} \cup Sessions
    /\ handler \in [Sessions -> HandlerSteps]
    /\ tries \in [Sessions -> 0 .. MaxTries]
    /\ flight \in [Sessions -> {"none", "sent", "stored"}]
    /\ log \in [Sessions -> {"none", "sent", "nochannel", "error"}]
    /\ posted \in Nat
    /\ closing \in {"no", "ws", "http", "done"}
    /\ faults \in 0 .. MaxFaults
    /\ met \in SUBSET Faults

(* The players read of a move once, however often the connection is lost   *)
(* and resumed, unless a request was repeated or a second session was      *)
(* begun: on_ready has no guard of its own (lambda_function.py:177-206).   *)
NoRepeat ==
    posted > 1 => identifies > 1 \/ ~ Without({"busy"})

(* No failure of the network ends the client once it has been connected:   *)
(* it stops when a handler is done with it, or Discord refuses it          *)
(* (client.py:661-727).                                                    *)
Persists ==
    main = "close" =>
        \/ ws = "none"
        \/ ~ Without({"refuse"})
        \/ \E k \in Sessions : handler[k] \in {"close", "over"}

(* A READY that comes while an earlier one still waits for its guilds      *)
(* takes its place, so that on_ready is dispatched once (state.py:626-648):*)
(* true of the first two sessions.                                         *)
OneWaits ==
    identifies <= 2 =>
        \A j, k \in Sessions : task[j] = "wait" /\ task[k] = "wait" => j = k

-----------------------------------------------------------------------------
\* What can cost the players the message: a lost connection cannot, one that
\* cannot be made again cannot, and an invalidated session cannot.
Losses == {"login", "refuse", "busy", "send"}

\* The first connection could not be made.
NeverConnected == ws = "none" /\ "connect" \in met

(* The announcement, seen as module Announcement sees it. *)
A == INSTANCE Announcement
        WITH told <- posted,
             open <- (closing # "done" \/ ws = "up"),
             over <- (main = "done"),
             again <- (identifies > 1 \/ ~ Without({"busy"})),
             lost <- (\/ ~ Without(Losses) \/ NeverConnected
                      \/ \E k \in Sessions : log[k] = "nochannel")

(* send_message keeps the promise of module Announcement, whichever way    *)
(* out it takes and whoever closes the client (lambda_function.py:177-217, *)
(* client.py:661-752): one message, everything closed before it returns,   *)
(* and no return without a message unless its request, the log-in, the     *)
(* first connection or the look-up of the channel has failed.              *)
KeepsAnnouncement == A!Spec

-----------------------------------------------------------------------------
(* Once on_ready has been dispatched the run goes on to its end, whatever  *)
(* fails: the handler closes the client, and that ends the reconnecting.   *)
ReadyEnds == (\E k \in Sessions : handler[k] # "none") ~> main = "done"

(* A READY without faults leads to a message, or to the line that says the *)
(* channel was not found, when its guild was slow to come in.              *)
Announces ==
    (\E k \in Sessions : task[k] # "none")
        ~> \/ faults > 0
           \/ \E k \in Sessions : log[k] \in {"sent", "nochannel"}
=============================================================================
